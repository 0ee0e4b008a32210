------------------------------ MODULE Tenancy ------------------------------
(***************************************************************************)
(* What the members of an account change beside one another in the Workers *)
(* backend: who belongs to it and whose a number is (Membership), its      *)
(* locations with their quotas and devices (Places), the gates of one of   *)
(* them (Gates) and the grants of a visitor (GrantWindows).  The requests  *)
(* of the one take no lock of another, so that a behaviour is of one.      *)
(***************************************************************************)
EXTENDS Membership, Places, Gates, GrantWindows

VARIABLE about    \* what the requests are about

gateOwn == <<gateRows, begun, tx>>
windowOwn == <<grant, call, askings>>
tenancyVars == <<vars, placeVars, gateOwn, windowOwn, now, about>>

TenancyInit ==
    /\ Init /\ PlacesInit /\ GatesInit /\ GrantsInit
    /\ about \in {"people", "places", "gates", "grants"}

OfPeople == about = "people" /\ Next /\ UNCHANGED <<placeVars, gateOwn, windowOwn, now, about>>
OfPlaces == about = "places" /\ PlacesNext /\ UNCHANGED <<vars, gateOwn, windowOwn, now, about>>
OfGates == about = "gates" /\ GatesNext /\ UNCHANGED <<vars, placeVars, windowOwn, about>>
OfGrants == about = "grants" /\ GrantsNext /\ UNCHANGED <<vars, placeVars, gateOwn, about>>

TenancyNext == OfPeople \/ OfPlaces \/ OfGates \/ OfGrants

TenancySpec == TenancyInit /\ [][TenancyNext]_tenancyVars

-----------------------------------------------------------------------------
(* Types; what belongs to a location or to the account is there only while *)
(* they are, whatever was being made while they were deleted; a number is  *)
(* verified for one person at a time.                                      *)
TenancyTypeOK == MembershipTypeOK /\ PlacesTypeOK /\ GatesTypeOK
=============================================================================
