---------------------------- MODULE PortalPages ----------------------------
(***************************************************************************)
(* The portal's pages between the answers of the gateway: what they show,  *)
(* load again, change at once and take back, and what locks their forms.   *)
(* One page is mounted; its answers may arrive after it was left.          *)
(*                                                                         *)
(* Most pages keep data the same few ways, and change them by the same few *)
(* kinds of forms.  The data of a page are a record: key, what they depend *)
(* on; cancels, whether an answer that a later load has overtaken is       *)
(* dropped; fails, what a load that failed leaves on the screen.  A form   *)
(* is a record: after, what an accepted change does to the data shown      *)
(* (there is no change; it is told and shows nowhere; the answer is shown; *)
(* a new load; a new load that is awaited); ahead, whether the change is   *)
(* shown before the answer; lock, what its button is disabled by while the *)
(* answer is awaited (nothing, the form, the page, the card the form is    *)
(* on).  A page that has several forms is there once with each.  The pages *)
(* that open a gate are those of PortalGate.                               *)
(***************************************************************************)
EXTENDS Naturals, FiniteSets

CONSTANTS
    Key,          \* accounts to be switched to, or searches
    Slot,         \* numbers for the requests under way together
    MaxVal,       \* bound: contents of the gateway's rows
    MaxActs       \* bound: what the user does

ASSUME PortalPagesAssumption ==
    Key # {} /\ "nothing" \notin Key /\ Slot \subseteq Nat /\ Slot # {} /\ MaxVal \in Nat \ {0} /\ MaxActs \in Nat

Val == 0 .. MaxVal

(* Lists of the current account; an answer that comes late is shown like   *)
(* any other, and one that fails leaves what was there under the error.    *)
AccountList == [key |-> "account", cancels |-> FALSE, fails |-> "kept"]

Members == AccountList
Devices == AccountList
Grants == AccountList
AccessPoints == AccountList
Locations == AccountList

(* Access points that cannot be loaded look like an account without any.   *)
Dashboard == [AccountList EXCEPT !.fails = "blank"]
Analytics == Dashboard

(* One access point; the session's user and accounts. *)
AccessPoint == [AccountList EXCEPT !.key = "none"]
Session == AccessPoint

(* useAdminLoad: the rows of a search or of a page of a table. *)
AdminTable == [key |-> "query", cancels |-> TRUE, fails |-> "kept"]

AdminUsers == AdminTable
AdminAccounts == AdminTable
AdminAudit == AdminTable
AdminLimits == [AdminTable EXCEPT !.key = "none"]
AdminOverview == AdminLimits

(* The quotas of one location. *)
LimitsPanel == [AccountList EXCEPT !.key = "none"]

(* The forms that close when the change is accepted; the list is loaded    *)
(* again.                                                                  *)
Modal == [after |-> "load", ahead |-> FALSE, lock |-> "form"]

CreateDeviceModal == Modal
CreateGrantModal == Modal
CreateAccessPointModal == Modal
MaintenanceModal == Modal
ServiceModal == Modal
RenameLocationModal == Modal
DeleteLocationModal == Modal
CreateLocationModal == Modal

(* A grant's card has no form to close: its button is busy till the answer.*)
GrantCard == [Modal EXCEPT !.lock = "card"]

(* The sections of the settings wait for the new load as well. *)
ProfileSection == [GrantCard EXCEPT !.after = "awaited load"]
ContactSection == ProfileSection

(* Claiming the instance: the screen goes when the session is read again.  *)
ClaimScreen == ProfileSection

(* What the page does not show: the form says that it is done. *)
InviteModal == [Modal EXCEPT !.after = "told"]
PasswordSection == [GrantCard EXCEPT !.after = "told"]
ForgotPassword == PasswordSection
ResetPassword == PasswordSection

(* A dialog asks before a change, whose answer is written into the row.    *)
ConfirmModal == [after |-> "answer", ahead |-> FALSE, lock |-> "page"]

(* The drawer of an account shows the status before it is answered. *)
AccountDrawer == [ConfirmModal EXCEPT !.ahead = TRUE]

(* The editor closes with the save: saves may overlap. *)
LimitsEditor == [after |-> "answer", ahead |-> TRUE, lock |-> "none"]

(* Nothing to change. *)
NoForm == [after |-> "nothing", ahead |-> FALSE, lock |-> "none"]

With(data, form) == [data |-> data, form |-> form]

Pages ==
    {With(Devices, CreateDeviceModal), With(Grants, CreateGrantModal), With(Grants, GrantCard),
     With(AccessPoints, CreateAccessPointModal), With(AccessPoints, MaintenanceModal),
     With(Locations, RenameLocationModal), With(Locations, DeleteLocationModal),
     With(Dashboard, CreateAccessPointModal), With(AccessPoint, ServiceModal),
     With(Members, InviteModal), With(Analytics, NoForm), With(LimitsPanel, LimitsEditor),
     With(Session, CreateLocationModal), With(Session, ProfileSection),
     With(Session, ContactSection), With(Session, ClaimScreen), With(Session, PasswordSection),
     With(Session, ForgotPassword), With(Session, ResetPassword),
     With(AdminUsers, ConfirmModal), With(AdminAccounts, AccountDrawer),
     With(AdminLimits, ConfirmModal), With(AdminAudit, NoForm), With(AdminOverview, NoForm)}

Reloads(p) == p.form.after \in {"load", "awaited load"}

VARIABLES
    page,         \* the page mounted
    mount,        \* how often it was mounted
    at,           \* the account or the search it is on
    shown,        \* the rows on the screen, and what they were loaded for
    failed,       \* the last load shown ended with an error
    dialog,       \* the form or dialog on the screen: 0, or its number
    opened,       \* forms opened so far
    busy,         \* the button of the form, or of the page, is disabled
    load,         \* the number of the last load
    req,          \* the requests under way
    truth,        \* the gateway's rows
    acts,         \* bound: what the user did
    excused       \* history: the page could not know better

pageVars == <<page, mount, at, shown, failed, dialog, opened, busy, load, req, truth, acts, excused>>
rows == <<shown, failed>>
forms == <<dialog, opened, busy>>

Blank == [key |-> "nothing", val |-> 0]
NoReq == [what |-> "none"]

Active == {s \in Slot : req[s] # NoReq}

(* Requests are numbered by the lowest number free. *)
NextSlot(s) == req[s] = NoReq /\ \A r \in Slot : req[r] = NoReq => s <= r

Act == acts < MaxActs /\ acts' = acts + 1

Load(k, n, m) ==
    [what |-> "load", key |-> k, val |-> 0, prev |-> 0, number |-> n, mount |-> m,
     form |-> 0, phase |-> "sent", ok |-> FALSE]

(* Requests under way together may be answered in any order, and read what *)
(* the other writes; a load that is dropped does no harm.                  *)
Overlaps(s, what) ==
    \E r \in Active \ {s} : ~(page.data.cancels /\ what = "load" /\ req[r].what = "load")

PagesInit ==
    /\ page \in Pages /\ at \in Key
    /\ req = [s \in Slot |-> IF \A r \in Slot : s <= r THEN Load(at, 1, 1) ELSE NoReq]
    /\ mount = 1 /\ load = 1
    /\ shown = Blank /\ failed = FALSE
    /\ dialog = 0 /\ opened = 0 /\ busy = FALSE
    /\ truth = [k \in Key |-> 0]
    /\ acts = 0 /\ excused = FALSE

-----------------------------------------------------------------------------
(* The user. *)

(* The switcher of accounts, a search (the box waits 300 ms and does not   *)
(* ask whether a dialog came up), the tabs and pages of a table; "Done"    *)
(* under an invitation that was sent loads the members once more.          *)
Turn(s, k) ==
    /\ page.data.key # "none"
    /\ k # at \/ page = With(Members, InviteModal)
    /\ page.data.key = "account" => dialog = 0
    /\ Act
    /\ NextSlot(s)
    /\ at' = k
    /\ load' = load + 1
    /\ req' = [req EXCEPT ![s] = Load(k, load', mount)]
    /\ excused' = (excused \/ Overlaps(s, "load"))
    /\ UNCHANGED <<page, mount, rows, forms, truth>>

(* Leave the page and come back to it. *)
Remount(s) ==
    /\ Act
    /\ NextSlot(s)
    /\ mount' = mount + 1 /\ load' = load + 1
    /\ shown' = Blank /\ failed' = FALSE
    /\ dialog' = 0 /\ busy' = FALSE
    /\ req' = [req EXCEPT ![s] = Load(at, load', mount')]
    /\ excused' = (Active # {})
    /\ UNCHANGED <<page, at, opened, truth>>

(* Dialogs on a row, and editors of what is shown, need the data. *)
OpenDialog ==
    /\ page.form.after # "nothing" /\ page.form.lock # "card" /\ dialog = 0
    /\ page.form.after = "answer" => shown # Blank /\ ~failed
    /\ Act
    /\ opened' = opened + 1 /\ dialog' = opened'
    /\ UNCHANGED <<page, mount, at, rows, busy, load, req, truth, excused>>

(* Cancel is never disabled; a form closed takes its own lock along. *)
CloseDialog ==
    /\ dialog # 0
    /\ Act
    /\ dialog' = 0
    /\ busy' = (busy /\ page.form.lock # "form")
    /\ UNCHANGED <<page, mount, at, rows, opened, load, req, truth, excused>>

(* A change is sent; some pages show it at once. *)
Submit(s, v) ==
    /\ page.form.after # "nothing"
    /\ page.form.lock = "card" \/ dialog # 0
    /\ page.form.lock = "card" /\ page.form.after # "told" => shown # Blank
    /\ ~busy /\ (v = shown.val) = (page.form.after = "told")
    /\ Act
    /\ NextSlot(s)
    /\ req' = [req EXCEPT ![s] =
          [Load(at, load, mount) EXCEPT !.what = "change", !.val = v, !.prev = shown.val,
                                        !.form = dialog]]
    /\ shown' = IF page.form.ahead THEN [shown EXCEPT !.val = v] ELSE shown
    /\ busy' = (page.form.lock # "none")
    /\ dialog' = IF page.form.lock = "none" THEN 0 ELSE dialog
    /\ excused' = (excused \/ Overlaps(s, "change"))
    /\ UNCHANGED <<page, mount, at, failed, opened, load, truth>>

-----------------------------------------------------------------------------
(* The gateway. *)

(* A search looks at the same rows as another. *)
Written(k, v) ==
    [l \in Key |->
        IF page.form.after # "told" /\ (l = k \/ page.data.key = "query") THEN v ELSE truth[l]]

Reply(s, ok, v) == req' = [req EXCEPT ![s].phase = "served", ![s].ok = ok, ![s].val = v]

(* A request is done and its answer on the way; it is refused or lost; or  *)
(* it is done and the answer lost.                                         *)
Serve(s) ==
    /\ s \in Active /\ req[s].phase = "sent"
    /\ LET q == req[s] IN
       \/ /\ q.what = "load"
          /\ \E ok \in BOOLEAN : Reply(s, ok, IF ok THEN truth[q.key] ELSE 0)
          /\ UNCHANGED <<truth, excused>>
       \/ /\ q.what = "change"
          /\ truth' = Written(q.key, q.val)
          /\ \E ok \in BOOLEAN : Reply(s, ok, q.val) /\ excused' = (excused \/ ~ok)
       \/ /\ q.what = "change"
          /\ Reply(s, FALSE, q.val)
          /\ UNCHANGED <<truth, excused>>
    /\ UNCHANGED <<page, mount, at, rows, forms, load, acts>>

-----------------------------------------------------------------------------
(* The answers. *)

Done(s) == req' = [req EXCEPT ![s] = NoReq]

Back(s, what) ==
    /\ s \in Active /\ req[s].phase = "served" /\ req[s].what = what

(* Nothing is shown of a page that was left; `cancelled` in useAdminLoad. *)
Current(q) == q.mount = mount /\ (page.data.cancels => q.number = load)

Loaded(s) ==
    /\ Back(s, "load")
    /\ LET q == req[s] IN
       IF ~Current(q) THEN UNCHANGED rows
       ELSE IF q.ok THEN shown' = [key |-> q.key, val |-> q.val] /\ failed' = FALSE
       ELSE /\ failed' = TRUE
            /\ shown' = IF page.data.fails = "blank" THEN Blank ELSE shown
    /\ busy' = (busy /\ ~(page.form.after = "awaited load" /\ req[s].mount = mount))
    /\ Done(s)
    /\ UNCHANGED <<page, mount, at, dialog, opened, load, truth, acts, excused>>

(* The lock is taken off; one that went with its form is not there.  *)
Released(q) == busy /\ page.form.lock = "form" /\ q.form # dialog

(* The dialog that is up closes, whether or not it sent the change. *)
ClosedBy(q) == IF page.form.lock \in {"form", "page"} THEN 0 ELSE dialog

(* A change that was accepted: the answer is shown, or the rows are loaded *)
(* again, for the account the form was opened for.                         *)
Accepted(s) ==
    /\ Back(s, "change") /\ req[s].ok
    /\ LET q == req[s]
           again == q.mount = mount /\ Reloads(page)
       IN /\ shown' = IF q.mount = mount /\ page.form.after = "answer"
                      THEN [shown EXCEPT !.val = q.val] ELSE shown
          /\ dialog' = IF q.mount = mount THEN ClosedBy(q) ELSE dialog
          /\ busy' = (busy /\ (q.mount = mount => page.form.after = "awaited load"))
          /\ load' = IF again THEN load + 1 ELSE load
          /\ req' = [req EXCEPT ![s] = IF again THEN Load(q.key, load', mount) ELSE NoReq]
          /\ excused' = (excused \/ (again /\ Overlaps(s, "load")))
    /\ UNCHANGED <<page, mount, at, failed, opened, truth, acts>>

(* Mutant of Reverted: a change that failed stays on the screen. *)
RevertedNot(q) == shown

(* What was shown ahead of the answer is taken back. *)
Reverted(q) == IF page.form.ahead THEN [shown EXCEPT !.val = q.prev] ELSE shown

(* A change that failed: its form shows the error and may be sent again. *)
Refused(s) ==
    /\ Back(s, "change") /\ ~req[s].ok
    /\ LET q == req[s] IN
       /\ shown' = IF q.mount = mount THEN Reverted(q) ELSE shown
       /\ busy' = (IF q.mount = mount THEN Released(q) ELSE busy)
    /\ Done(s)
    /\ UNCHANGED <<page, mount, at, failed, dialog, opened, load, truth, acts, excused>>

PagesAlone == \E s \in Slot : Serve(s) \/ Loaded(s) \/ Accepted(s) \/ Refused(s)

PagesNext ==
    \/ \E s \in Slot :
          \/ \E k \in Key : Turn(s, k)
          \/ Remount(s)
          \/ \E v \in Val : Submit(s, v)
    \/ OpenDialog \/ CloseDialog
    \/ PagesAlone

-----------------------------------------------------------------------------
Quiet == Active = {} /\ ~failed /\ shown # Blank

(* Types; a locked form or page has a change of this visit under way. *)
PortalPagesTypeOK ==
    /\ page \in Pages /\ at \in Key
    /\ shown = Blank \/ shown \in [key : Key, val : Val]
    /\ truth \in [Key -> Val]
    /\ dialog \in 0 .. opened
    /\ busy => \E s \in Active :
          req[s].mount = mount /\ (req[s].what = "change" \/ page.form.after = "awaited load")

(* When all is answered, a page shows what the gateway has, for the        *)
(* account or the search it is on, refused changes included, unless an     *)
(* accepted change's answer was lost or requests overlapped; searches may  *)
(* overlap (pages/app/admin/shared.tsx:298,                                *)
(* components/locations/LocationLimitsPanel.tsx:79,                        *)
(* pages/app/admin/AdminAccounts.tsx:187, pages/app/Members.tsx:32).       *)
PageAgrees == Quiet /\ ~excused => shown = [key |-> at, val |-> truth[at]]
=============================================================================
