------------------------------- MODULE Places -------------------------------
(***************************************************************************)
(* The locations of an account, their quotas and their devices, and the    *)
(* rate-limit overrides of the instance, in the Workers backend:           *)
(* routes/locations.ts, routes/devices.ts and PATCH /admin/limits.         *)
(*                                                                         *)
(* A request is one READ COMMITTED transaction.  Inserting a row that      *)
(* refers to another shares a lock on that one; deleting a row waits for   *)
(* all such locks and takes the rows that refer to it along.               *)
(***************************************************************************)
EXTENDS Naturals, FiniteSets

CONSTANTS
    Location,   \* locations the account may come to have
    Device,     \* devices that may be registered
    Key,        \* public keys of controllers
    Worker,        \* requests that can be in flight together
    Amount,     \* values of a quota or an override; 0 blocks every open
    Unset,       \* SQL null: no quota, no override
    NoLocation, NoKey,
    MaxPatches  \* bound: PATCHes of quotas and of overrides

ASSUME PlacesAssumption ==
    /\ 0 \in Amount /\ Amount \subseteq Nat /\ Unset \notin Amount
    /\ NoLocation \notin Location /\ NoKey \notin Key /\ MaxPatches \in Nat

Quota == {"member", "location"}
Override == {"opens_per_hour", "account_opens_per_hour"}
Value == Amount \cup {Unset}

VARIABLES
    account,     \* whether the account is there
    location,    \* locations that are there
    quota,       \* location_settings per location
    asked,       \* history: what the last PATCH of each quota asked for
    device,      \* devices: location, status and public key
    pairings,    \* history: claims answered with success, per device
    override,    \* instance_settings.rate_limits
    confirmed,   \* history: overrides that a request has set to 0 and confirmed
    patches,     \* bound: PATCHes so far
    work         \* the requests between two of their steps

placeVars == <<account, location, quota, asked, device, pairings, override, confirmed, patches, work>>
tenancy == <<account, location>>
quotas == <<quota, asked>>
devices == <<device, pairings>>
overrides == <<override, confirmed>>

NoQuotas == [f \in Quota |-> Unset]
NoDevice == [at |-> NoLocation, status |-> "none", key |-> NoKey]
NoWork == [op |-> "idle"]

PlacesInit ==
    /\ account = TRUE
    /\ location \in {{l} : l \in Location}
    /\ quota = [l \in Location |-> NoQuotas]
    /\ asked = [l \in Location |-> NoQuotas]
    /\ device = [d \in Device |-> NoDevice]
    /\ pairings = [d \in Device |-> 0]
    /\ override = [f \in Override |-> Unset]
    /\ confirmed = {}
    /\ patches = 0
    /\ work = [r \in Worker |-> NoWork]

Spare(r) == work[r].op = "idle"

TakeUp(r, rec) == work' = [work EXCEPT ![r] = rec]

Leave(r) == work' = [work EXCEPT ![r] = NoWork]

Doing(ops) == {r \in Worker : work[r].op \in ops}

-----------------------------------------------------------------------------
(* POST /accounts/:accountId/locations: the row waits for its commit with a *)
(* share of the account's lock.                                             *)
CreateBegin(r, l) ==
    /\ Spare(r)
    /\ account
    /\ Doing({"drop"}) = {}
    /\ l \notin location
    /\ \A q \in Doing({"create"}) : work[q].at # l
    /\ TakeUp(r, [op |-> "create", at |-> l])
    /\ UNCHANGED <<tenancy, quotas, devices, overrides, patches>>

CreateCommit(r) ==
    /\ work[r].op = "create"
    /\ location' = location \cup {work[r].at}
    /\ Leave(r)
    /\ UNCHANGED <<account, quotas, devices, overrides, patches>>

(* Mutant of Unshared: rows that refer to the location are not waited for. *)
UnsharedAlways(l) == l \in Location

(* Nobody holds a lock on the location's row, or on one that goes with it.  *)
Unshared(l) ==
    /\ \A q \in Doing({"quota", "register", "delete", "keep", "drop"}) : work[q].at # l
    /\ \A q \in Doing({"claim"}) : device[work[q].device].at # l

(* DELETE /locations/:id: the row is deleted, once nobody holds it ...      *)
DropBegin(r, l) ==
    /\ Spare(r)
    /\ l \in location
    /\ Unshared(l)
    /\ TakeUp(r, [op |-> "delete", at |-> l])
    /\ UNCHANGED <<tenancy, quotas, devices, overrides, patches>>

Gone(gone) ==
    /\ location' = location \ gone
    /\ quota' = [l \in Location |-> IF l \in gone THEN NoQuotas ELSE quota[l]]
    /\ asked' = [l \in Location |-> IF l \in gone THEN NoQuotas ELSE asked[l]]
    /\ device' = [d \in Device |-> IF device[d].at \in gone THEN NoDevice ELSE device[d]]
    /\ UNCHANGED pairings

(* ... the locations that remain are counted: rows that are committed, the  *)
(* ones that another request is deleting included.  With none left the      *)
(* account goes too.                                                        *)
Remaining(r) == location \ {work[r].at}

DropCount(r) ==
    /\ work[r].op = "delete"
    /\ TakeUp(r, [op |-> IF Remaining(r) = {} THEN "drop" ELSE "keep", at |-> work[r].at])
    /\ UNCHANGED <<tenancy, quotas, devices, overrides, patches>>

KeepCommit(r) ==
    /\ work[r].op = "keep"
    /\ Gone({work[r].at})
    /\ Leave(r)
    /\ UNCHANGED <<account, overrides, patches>>

(* The account's row is deleted once no new location shares its lock; what  *)
(* belongs to it is deleted with it, locations made since the count too.    *)
DropAccount(r) ==
    /\ work[r].op = "drop"
    /\ Doing({"create"}) = {}
    /\ \A l \in Remaining(r) : Unshared(l)
    /\ account' = FALSE
    /\ Gone(location)
    /\ Leave(r)
    /\ UNCHANGED <<overrides, patches>>

-----------------------------------------------------------------------------
(* PATCH /locations/:id/limits: some of the quotas, by an account admin; the *)
(* location is read, then the settings row is written.                      *)
QuotaBegin(r, l, patch) ==
    /\ Spare(r)
    /\ patches < MaxPatches
    /\ patches' = patches + 1
    /\ l \in location
    /\ \A q \in Doing({"delete", "keep", "drop"}) : work[q].at # l
    /\ TakeUp(r, [op |-> "quota", at |-> l, patch |-> patch, read |-> quota[l]])
    /\ UNCHANGED <<tenancy, quotas, devices, overrides>>

(* Mutant of Patched: a quota that is not in the patch is written as read. *)
PatchedAsRead(r, f) == IF f \in DOMAIN work[r].patch THEN work[r].patch[f] ELSE work[r].read[f]

(* on conflict do update: case when the patch has it, else the row's own.   *)
Patched(r, f) ==
    IF f \in DOMAIN work[r].patch THEN work[r].patch[f] ELSE quota[work[r].at][f]

QuotaCommit(r) ==
    LET l == work[r].at
        patch == work[r].patch IN
    /\ work[r].op = "quota"
    /\ quota' = [quota EXCEPT ![l] = [f \in Quota |-> Patched(r, f)]]
    /\ asked' = [asked EXCEPT ![l] = [f \in Quota |-> IF f \in DOMAIN patch THEN patch[f] ELSE @[f]]]
    /\ Leave(r)
    /\ UNCHANGED <<tenancy, devices, overrides, patches>>

(* POST /devices: an unpaired device with a claim token. *)
DeviceBegin(r, l, d) ==
    /\ Spare(r)
    /\ l \in location
    /\ \A q \in Doing({"delete", "keep", "drop"}) : work[q].at # l
    /\ device[d] = NoDevice
    /\ \A q \in Doing({"register"}) : work[q].device # d
    /\ pairings[d] = 0
    /\ TakeUp(r, [op |-> "register", at |-> l, device |-> d])
    /\ UNCHANGED <<tenancy, quotas, devices, overrides, patches>>

DeviceCommit(r) ==
    /\ work[r].op = "register"
    /\ device' = [device EXCEPT ![work[r].device] = [at |-> work[r].at, status |-> "unpaired", key |-> NoKey]]
    /\ Leave(r)
    /\ UNCHANGED <<tenancy, quotas, pairings, overrides, patches>>

DeviceFree(d) ==
    /\ \A q \in Doing({"claim"}) : work[q].device # d
    /\ \A q \in Doing({"delete", "keep", "drop"}) : work[q].at # device[d].at

(* POST /devices/claim: the device with this token is locked and must not   *)
(* be paired; its token then goes.  A claim that carries no public key is   *)
(* served as well, and leaves the row the key it has.                       *)
ClaimBegin(r, d, k) ==
    /\ Spare(r)
    /\ device[d].status = "unpaired"
    /\ DeviceFree(d)
    /\ TakeUp(r, [op |-> "claim", device |-> d, key |-> k])
    /\ UNCHANGED <<tenancy, quotas, devices, overrides, patches>>

ClaimCommit(r) ==
    LET d == work[r].device IN
    /\ work[r].op = "claim"
    /\ device' = [device EXCEPT ![d].status = "active",
                               ![d].key = IF work[r].key = NoKey THEN @ ELSE work[r].key]
    /\ pairings' = [pairings EXCEPT ![d] = @ + 1]
    /\ Leave(r)
    /\ UNCHANGED <<tenancy, quotas, overrides, patches>>

-----------------------------------------------------------------------------
(* Mutant of MaySet: the flag is not asked for when a field is only one of several. *)
MaySetTogether(patch, confirm) == confirm \/ Cardinality(DOMAIN patch) > 1 \/ \A f \in DOMAIN patch : patch[f] # 0

(* An hourly limit of 0 needs confirm_kill_switch. *)
MaySet(patch, confirm) == confirm \/ \A f \in DOMAIN patch : patch[f] # 0

(* PATCH /admin/limits: the overrides are read, then the patched ones       *)
(* replace them, whatever has been written in between.                      *)
OverrideBegin(r, patch, confirm) ==
    /\ Spare(r)
    /\ patches < MaxPatches
    /\ patches' = patches + 1
    /\ MaySet(patch, confirm)
    /\ TakeUp(r, [op |-> "override",
                 zeroed |-> IF confirm THEN {f \in DOMAIN patch : patch[f] = 0} ELSE {},
                 next |-> [f \in Override |-> IF f \in DOMAIN patch THEN patch[f] ELSE override[f]]])
    /\ UNCHANGED <<tenancy, quotas, devices, overrides>>

OverrideCommit(r) ==
    /\ work[r].op = "override"
    /\ override' = work[r].next
    /\ confirmed' = confirmed \cup work[r].zeroed
    /\ Leave(r)
    /\ UNCHANGED <<tenancy, quotas, devices, patches>>

(* A request dies: nothing of it remains. *)
AbortWork(r) ==
    /\ ~Spare(r)
    /\ Leave(r)
    /\ UNCHANGED <<tenancy, quotas, devices, overrides, patches>>

(* A patch names some of the fields. *)
Patch(fields) == UNION {[some -> Value] : some \in SUBSET fields \ {{}}}

PlacesNext == \E r \in Worker :
    \/ \E l \in Location : CreateBegin(r, l) \/ DropBegin(r, l)
    \/ CreateCommit(r) \/ DropCount(r) \/ KeepCommit(r) \/ DropAccount(r)
    \/ \E l \in Location, patch \in Patch(Quota) : QuotaBegin(r, l, patch)
    \/ QuotaCommit(r)
    \/ \E l \in Location, d \in Device : DeviceBegin(r, l, d)
    \/ DeviceCommit(r)
    \/ \E d \in Device, k \in Key \cup {NoKey} : ClaimBegin(r, d, k)
    \/ ClaimCommit(r)
    \/ \E patch \in Patch(Override), confirm \in BOOLEAN : OverrideBegin(r, patch, confirm)
    \/ OverrideCommit(r)
    \/ AbortWork(r)

PlacesSpec == PlacesInit /\ [][PlacesNext]_placeVars

-----------------------------------------------------------------------------
(* What belongs to a location or to the account is there only while they    *)
(* are: nothing that was being made meanwhile is left behind by a delete.   *)
(* A device has no key until it is paired; a paired one may have none.      *)
PlacesTypeOK ==
    /\ location \subseteq Location
    /\ location # {} => account
    /\ quota \in [Location -> [Quota -> Value]]
    /\ \A l \in Location \ location : quota[l] = NoQuotas
    /\ \A d \in Device :
        \/ device[d] = NoDevice
        \/ /\ device[d].at \in location
           /\ device[d].status \in {"unpaired", "active"}
           /\ device[d].key \in Key \cup {NoKey}
           /\ device[d].status = "unpaired" => device[d].key = NoKey
    /\ override \in [Override -> Value]

(* Two admins who set different quotas of a location at the same time both  *)
(* get what they asked for, whichever request commits last.                 *)
QuotasKept == quota = asked

(* However many controllers present a claim token at the same time, one of  *)
(* them is paired, and the key of a paired device never changes.            *)
PairedOnce == \A d \in Device : pairings[d] <= 1

(* An hourly limit of 0 blocks every gate of the instance.  None stands     *)
(* that no request has ever confirmed, whichever PATCHes of the other       *)
(* limits were made from what they had read before.                         *)
KillSwitchConfirmed == \A f \in Override : override[f] = 0 => f \in confirmed

=============================================================================
