------------------------------- MODULE Portal -------------------------------
(***************************************************************************)
(* The portal (src/): how it keeps its session with the gateway, what      *)
(* comes before a page, the pages, those that open a gate and the box that *)
(* finds addresses.  Each has its own state; a behaviour is of one of them.*)
(***************************************************************************)
EXTENDS PortalSession, PortalEntry, PortalPages, PortalGate, AddressSearch

VARIABLE part     \* the part of the portal that does something

portalVars == <<sessionVars, entryVars, pageVars, gateVars, searchVars, part>>

PortalInit ==
    /\ part \in {"session", "entry", "page", "gate", "search"}
    /\ SessionInit
    /\ part # "session" => ~native /\ minted = 0 /\ store.gw = CHOOSE g \in Gateway : TRUE
    /\ EntryInit
    /\ part # "entry" => /\ build = "configured" /\ deep = NoUrl /\ stored = NoUrl
                        /\ \A a \in Acct : homes[a] = 1
    /\ PagesInit
    /\ part # "page" => page = With(Analytics, NoForm) /\ at = CHOOSE k \in Key : TRUE
    /\ GateInit
    /\ part # "gate" => entry = "button" /\ chosen = CHOOSE g \in Gate : TRUE
    /\ SearchInit

AtSession(A) ==
    /\ part = "session" /\ A
    /\ UNCHANGED <<entryVars, pageVars, gateVars, searchVars, part>>

AtEntry(A) ==
    /\ part = "entry" /\ A
    /\ UNCHANGED <<sessionVars, pageVars, gateVars, searchVars, part>>

AtPage(A) ==
    /\ part = "page" /\ A
    /\ UNCHANGED <<sessionVars, entryVars, gateVars, searchVars, part>>

AtGate(A) ==
    /\ part = "gate" /\ A
    /\ UNCHANGED <<sessionVars, entryVars, pageVars, searchVars, part>>

AtSearch(A) ==
    /\ part = "search" /\ A
    /\ UNCHANGED <<sessionVars, entryVars, pageVars, gateVars, part>>

PortalNext ==
    \/ AtSession(SessionNext) \/ AtEntry(EntryNext) \/ AtPage(PagesNext)
    \/ AtGate(GateNext) \/ AtSearch(SearchNext)

(* What comes without the user: answers, timers, countdowns. *)
Alone ==
    \/ AtSession(SessionAlone) \/ AtEntry(EntryAlone) \/ AtPage(PagesAlone)
    \/ AtGate(GateAlone) \/ AtSearch(SearchAlone)

(* As long as an answer or a timer is due, one of them comes. *)
PortalSpec == PortalInit /\ [][PortalNext]_portalVars /\ WF_portalVars(Alone)

-----------------------------------------------------------------------------
(* When all is answered, a page shows what the gateway has, unless a       *)
(* change's answer was lost or requests overlapped (PageAgrees), and the   *)
(* box of addresses offers what it was asked for last (OfferAgrees).       *)
(* Types are right everywhere.                                             *)
ShownAgrees ==
    /\ PortalSessionTypeOK /\ EntryTypeOK /\ PortalPagesTypeOK /\ GateTypeOK /\ SearchTypeOK
    /\ PageAgrees /\ OfferAgrees

Waits == SessionWaits \/ EntryWaits \/ busy \/ GateWaits \/ fetching

(* Nothing hangs once the user lets go: a call that waits on another's     *)
(* refresh ends, a page's disabled button comes back, a gate's page leaves *)
(* what it shows while a command is under way or has failed, the entry     *)
(* does not stay at a question or at a form that saves, a search ends      *)
(* (lib/api.ts:189, pages/app/admin/AdminUsers.tsx:76,                     *)
(* pages/app/AccessPoint.tsx:121, pages/app/AppLayout.tsx:20,              *)
(* components/locations/MapboxAddressInput.tsx:81).  Two things of the     *)
(* entry do hang and are not among Waits: the form of a first location     *)
(* whose save was followed by a failed re-read of the session keeps its    *)
(* button disabled (CreateLocationModal.tsx:51, :70, AppLayout.tsx:53),    *)
(* and a signed-in user without any account is left at "Loading"           *)
(* (AppLayout.tsx:15, :37).                                                *)
Settles == Waits ~> ~Waits
=============================================================================
