---------------------------- MODULE PortalEntry ----------------------------
(***************************************************************************)
(* How the portal is entered: the gateway it decides to use or asks for    *)
(* (components/gateway/GatewayGate.tsx, lib/gateway.ts), the session it    *)
(* remembers (lib/auth.tsx), and the first location that an account        *)
(* without one must be given (pages/app/AppLayout.tsx,                     *)
(* components/locations/CreateLocationModal.tsx).                          *)
(*                                                                         *)
(* An address the user types is normalized already; NoUrl is one that      *)
(* cannot be.  A save of a first location goes on when its form is gone;   *)
(* what of the page it was begun on is left decides what its end does.     *)
(***************************************************************************)
EXTENDS Naturals, FiniteSets

CONSTANTS
    Url,          \* addresses of gateways
    Home,         \* the one of the build, or of localhost
    NoUrl,
    Probe,        \* numbers for the health probes under way together
    Acct,         \* accounts of the user
    NoAcct,
    Query,        \* questions for an account's locations under way together
    Save,         \* saves of a first location under way together
    MaxEntry      \* bound: what the user does

ASSUME PortalEntryAssumption ==
    /\ Home \in Url /\ NoUrl \notin Url
    /\ Acct # {} /\ NoAcct \notin Acct
    /\ MaxEntry \in Nat /\ (Probe \cup Query \cup Save) \subseteq Nat

VARIABLES
    build,        \* "desktop", "configured" (VITE_API_BASE_URL) or "bare"
    deep,         \* the ?gateway= of the page's address
    stored,       \* lintel.gateway_url
    boot,         \* "probe", "picker" or "ready"
    typed, cancelable, test, connecting, anyway,    \* the picker
    probe,        \* the probes under way; old: of a picker that was closed
    session,      \* "absent", "loading", "in" or "out"
    current,      \* currentAccount
    meAsked,      \* the boot's /me is under way
    setup,        \* needsLocationSetup: "checking", "needed" or "done"; "away": no layout
    query,        \* the locationsList calls under way
    save,         \* the saves under way
    homes,        \* the gateway: locations of each account, those of a form
    did,          \* bound: what the user did
    unsure        \* history: accounts whose form could not know of a location (OneFirstHome)

picker == <<typed, cancelable, test, connecting, anyway>>
gateway == <<build, deep, stored, boot, picker, probe>>
app == <<session, current, meAsked, setup, query, save, homes, unsure>>
entryVars == <<gateway, app, did>>

NoProbe == [by |-> "none"]
NoSave == [step |-> "none"]
NoQuery == [acct |-> NoAcct]

Open(p) == probe[p] # NoProbe
Saving(s) == save[s] # NoSave

(* What begins takes the first free number. *)
FirstOf(free, n) == n \in free /\ \A m \in free : n <= m

Ready == [mode |-> "ready", prefill |-> NoUrl, cancelable |-> FALSE]
Ask(url, cancel) == [mode |-> "picker", prefill |-> url, cancelable |-> cancel]

(* decideBoot, with the choice that is stored. *)
Decided(choice) ==
    IF deep \notin {NoUrl, choice} THEN Ask(deep, choice # NoUrl \/ build = "configured")
    ELSE IF choice # NoUrl \/ build = "configured" THEN Ready
    ELSE IF build = "desktop" THEN Ask(NoUrl, FALSE)
    ELSE [Ready EXCEPT !.mode = "probe"]

NoQueries == [q \in Query |-> NoQuery]

(* locationsList asks for a's locations; none: there was none then.        *)
Question(a) == [acct |-> a, none |-> homes[a] = 0, latest |-> TRUE]
Asking(a) == [q \in Query |-> IF a # NoAcct /\ FirstOf(Query, q) THEN Question(a) ELSE NoQuery]

(* What of a save's page is left: its form, the layout, the provider.      *)
Whole == {"form", "layout", "session"}

(* The form goes from the page, and the other parts with it or not: a save *)
(* goes on without them, and a button that was left disabled is gone.      *)
Unmounts(rows, parts) ==
    [s \in Save |-> IF rows[s].step \in {"none", "stuck"} THEN NoSave
                    ELSE [rows[s] EXCEPT !.left = @ \ parts]]

(* Accounts of saves that lose their form before their answer is known.    *)
Interrupted(rows) ==
    {rows[s].acct : s \in {x \in Save : rows[x].step \in {"renaming", "creating"} /\ "form" \in rows[x].left}}

Unmount(rows, parts) ==
    /\ save' = Unmounts(rows, parts)
    /\ unsure' = unsure \cup Interrupted(rows)

Probing(b) ==
    [p \in Probe |-> IF b.mode = "probe" /\ FirstOf(Probe, p)
                     THEN [by |-> "boot", url |-> Home, old |-> FALSE] ELSE NoProbe]

(* The session provider comes up with the snapshot of an earlier visit or  *)
(* without, and asks for /me; the layout asks for the account's locations. *)
Remembered(a) ==
    /\ meAsked' = TRUE
    /\ setup' = "checking"
    /\ current' = a
    /\ session' = IF a = NoAcct THEN "loading" ELSE "in"
    /\ query' = Asking(a)

Unmounted ==
    /\ session' = "absent" /\ current' = NoAcct /\ meAsked' = FALSE /\ setup' = "checking"
    /\ query' = NoQueries

EntryInit ==
    /\ build \in {"desktop", "configured", "bare"}
    /\ deep \in Url \cup {NoUrl} /\ stored \in Url \cup {NoUrl}
    /\ LET b == Decided(stored) IN
       /\ boot = b.mode /\ typed = b.prefill /\ cancelable = b.cancelable
       /\ probe = Probing(b)
       /\ session = IF b.mode = "ready" THEN "loading" ELSE "absent"
       /\ meAsked = (b.mode = "ready")
    /\ test = "idle" /\ connecting = FALSE /\ anyway = FALSE
    /\ current = NoAcct /\ setup = "checking" /\ query = NoQueries
    /\ save = [s \in Save |-> NoSave]
    /\ homes \in [Acct -> 0 .. 1]
    /\ did = 0 /\ unsure = {}

Did == did < MaxEntry /\ did' = did + 1

-----------------------------------------------------------------------------
(* The page loads (again): probes and questions are gone, and of the saves *)
(* what is on its way to the gateway is left.                              *)
Restart(choice) ==
    /\ LET b == Decided(choice) IN
       /\ boot' = b.mode /\ typed' = b.prefill /\ cancelable' = b.cancelable
       /\ probe' = Probing(b)
       /\ IF b.mode = "ready" THEN \E a \in Acct \cup {NoAcct} : Remembered(a) ELSE Unmounted
    /\ stored' = choice
    /\ test' = "idle" /\ connecting' = FALSE /\ anyway' = FALSE
    /\ Unmount([s \in Save |-> IF save[s].step = "creating" THEN save[s] ELSE NoSave], Whole)
    /\ UNCHANGED <<build, deep, homes>>

(* The user reloads the page. *)
ReloadPage ==
    /\ Did
    /\ Restart(stored)

(* The links "Change gateway" (Login, Settings) put the picker in the      *)
(* place of the app.                                                       *)
OpenPicker ==
    /\ boot = "ready" /\ setup \in {"done", "away"} /\ Did
    /\ boot' = "picker" /\ cancelable' = TRUE
    /\ typed' = IF stored # NoUrl THEN stored ELSE Home
    /\ test' = "idle" /\ connecting' = FALSE /\ anyway' = FALSE
    /\ Unmounted
    /\ Unmount(save, Whole)
    /\ UNCHANGED <<build, deep, stored, probe, homes>>

(* Cancel, which nothing disables: the probes of the picker go on. *)
Cancel ==
    /\ boot = "picker" /\ cancelable /\ Did
    /\ boot' = "ready"
    /\ \E a \in Acct \cup {NoAcct} : Remembered(a)
    /\ probe' = [p \in Probe |-> IF Open(p) THEN [probe[p] EXCEPT !.old = TRUE] ELSE NoProbe]
    /\ test' = "idle" /\ connecting' = FALSE /\ anyway' = FALSE
    /\ UNCHANGED <<build, deep, stored, typed, cancelable, save, homes, unsure>>

(* Another address, whatever is being tested. *)
Type(url) ==
    /\ boot = "picker" /\ url # typed /\ Did
    /\ typed' = url /\ test' = "idle" /\ anyway' = FALSE
    /\ UNCHANGED <<build, deep, stored, boot, cancelable, connecting, probe, app>>

Tries(p, by) ==
    /\ boot = "picker" /\ typed # NoUrl /\ ~connecting
    /\ FirstOf({x \in Probe : ~Open(x)}, p) /\ Did
    /\ probe' = [probe EXCEPT ![p] = [by |-> by, url |-> typed, old |-> FALSE]]
    /\ test' = "testing"
    /\ UNCHANGED <<build, deep, stored, boot, typed, cancelable, app>>

RunTest(p) ==
    /\ Tries(p, "test")
    /\ test # "testing"
    /\ UNCHANGED <<connecting, anyway>>

OnConnect(p) ==
    /\ Tries(p, "connect")
    /\ connecting' = TRUE /\ anyway' = FALSE

ConnectAnyway ==
    /\ boot = "picker" /\ test = "failed" /\ anyway /\ typed # NoUrl /\ Did
    /\ Restart(typed)

UseDefault ==
    /\ boot = "picker" /\ Did
    /\ build # "desktop" /\ stored \notin {NoUrl, Home}
    /\ Restart(NoUrl)

(* testGatewayUrl answers, by its timeout if by nothing else.  A probe's   *)
(* answer is shown whatever was typed since; onConnect switches to the     *)
(* gateway that answered even when the picker is closed.                   *)
ProbeAnswered(p) ==
    /\ Open(p)
    /\ LET q == probe[p]
           shows(ok) == IF q.old THEN UNCHANGED test ELSE test' = IF ok THEN "ok" ELSE "failed"
           frees == [probe EXCEPT ![p] = NoProbe]
       IN \/ /\ q.by = "connect"
             /\ Restart(q.url)
          \/ /\ q.by = "connect" /\ shows(FALSE)
             /\ connecting' = (connecting /\ q.old) /\ anyway' = (anyway \/ ~q.old)
             /\ probe' = frees
             /\ UNCHANGED <<build, deep, stored, boot, typed, cancelable, app>>
          \/ /\ q.by = "test" /\ \E ok \in BOOLEAN : shows(ok)
             /\ probe' = frees
             /\ UNCHANGED <<connecting, anyway>>
             /\ UNCHANGED <<build, deep, stored, boot, typed, cancelable, app>>
          \/ /\ q.by = "boot"
             /\ probe' = frees
             /\ \/ boot' = "ready" /\ \E a \in Acct \cup {NoAcct} : Remembered(a)
                \/ boot' = "picker" /\ UNCHANGED <<session, current, meAsked, setup, query>>
             /\ UNCHANGED <<build, deep, stored, picker, save, homes, unsure>>
    /\ UNCHANGED did

-----------------------------------------------------------------------------
(* The effect of AppLayout, when the account in force is another one or    *)
(* the user has come to be signed in: the locations are asked for, and     *)
(* until they are known there is no form.                                  *)
Check(a) ==
    IF setup = "away" \/ a = NoAcct
    THEN UNCHANGED <<setup, query>>
    ELSE /\ setup' = "checking"
         /\ \E q \in Query :
               /\ FirstOf({x \in Query : query[x] = NoQuery}, q)
               /\ query' = [x \in Query |-> IF x = q THEN Question(a)
                                           ELSE IF query[x] = NoQuery THEN NoQuery
                                           ELSE [query[x] EXCEPT !.latest = FALSE]]

(* The session has an answer: a is the account in force. *)
Signed(a, rows) ==
    /\ current' = a /\ session' = "in"
    /\ IF a = current /\ session = "in"
       THEN save' = rows /\ UNCHANGED <<setup, query, unsure>>
       ELSE Check(a) /\ Unmount(rows, {"form"})

(* Signed out: the layout leaves for the page of the login. *)
LoggedOut(rows) ==
    /\ session' = "out" /\ current' = NoAcct /\ setup' = "away" /\ query' = NoQueries
    /\ Unmount(rows, {"form", "layout"})

(* The boot's /me, answered, refused (401) or lost. *)
MeAnswered ==
    /\ meAsked /\ meAsked' = FALSE
    /\ \/ \E a \in Acct \cup {NoAcct} : Signed(a, save)
       \/ LoggedOut(save)
       \/ session = "in" /\ UNCHANGED <<session, current, setup, query, save, unsure>>
    /\ UNCHANGED <<gateway, homes, did>>

(* By the browser's Back, say, to a page that is not of the app. *)
LeaveApp ==
    /\ session \in {"loading", "in"} /\ setup # "away"
    /\ setup' = "away" /\ query' = NoQueries
    /\ Unmount(save, {"form", "layout"})
    /\ UNCHANGED <<gateway, session, current, meAsked, homes, did>>

(* Back in the app: a layout that knows nothing yet. *)
EnterApp ==
    /\ session \in {"loading", "in"} /\ setup = "away" /\ Did
    /\ setup' = "checking"
    /\ query' = Asking(current)
    /\ UNCHANGED <<gateway, session, current, meAsked, save, homes, unsure>>

(* Login, which goes on to the app. *)
SignInAgain(a) ==
    /\ session = "out" /\ Did
    /\ session' = "in" /\ current' = a /\ setup' = "checking" /\ query' = Asking(a)
    /\ UNCHANGED <<gateway, meAsked, save, homes, unsure>>

(* Mutant of CheckFailed: the layout waits for an answer that is none. *)
CheckFailedWaits == UNCHANGED setup

(* A failed check does not hold the user up. *)
CheckFailed == setup' = "done"

(* The answer is of some time since the question.  One that another        *)
(* question has followed counts all the same.                              *)
CheckAnswered(q) ==
    LET asked == query[q] IN
    /\ asked # NoQuery
    /\ \/ /\ CheckFailed \/ (homes[asked.acct] > 0 /\ setup' = "done")
          /\ Unmount(save, {"form"})
       \/ /\ asked.none /\ setup' = "needed" /\ UNCHANGED save
          /\ unsure' = IF asked.latest THEN unsure ELSE unsure \cup {current}
    /\ query' = [query EXCEPT ![q] = NoQuery]
    /\ UNCHANGED <<gateway, session, current, meAsked, homes, did>>

(* The switcher of accounts, in the app. *)
SwitchAccount(a) ==
    /\ session = "in" /\ setup = "done" /\ current \notin {NoAcct, a} /\ Did
    /\ Signed(a, save)
    /\ UNCHANGED <<gateway, meAsked, homes>>

(* Mutant of Submitting: the button of the form is not disabled. *)
SubmittingNever == session = "absent"

(* The form's own: another form knows nothing of it. *)
Submitting == \E s \in Save : Saving(s) /\ "form" \in save[s].left

(* The form that cannot be closed: the account is renamed, then the        *)
(* location is created.                                                    *)
SubmitFirst(s) ==
    /\ boot = "ready" /\ session = "in" /\ setup = "needed" /\ current # NoAcct
    /\ ~Submitting /\ FirstOf({x \in Save : ~Saving(x)}, s) /\ Did
    /\ save' = [save EXCEPT ![s] = [step |-> "renaming", acct |-> current, left |-> Whole]]
    /\ UNCHANGED <<gateway, session, current, meAsked, setup, query, homes, unsure>>

Renamed(s) ==
    /\ save[s].step = "renaming"
    /\ save' = [save EXCEPT ![s] = NoSave] \/ save' = [save EXCEPT ![s].step = "creating"]
    /\ UNCHANGED <<gateway, session, current, meAsked, setup, query, homes, did, unsure>>

(* Created, refused, or created and the answer lost. *)
Created(s) ==
    /\ save[s].step = "creating"
    /\ \/ /\ homes' = [homes EXCEPT ![save[s].acct] = @ + 1]
          /\ \/ save' = [save EXCEPT ![s].step = "rereading"] /\ UNCHANGED unsure
             \/ save' = [save EXCEPT ![s] = NoSave] /\ unsure' = unsure \cup {save[s].acct}
       \/ save' = [save EXCEPT ![s] = NoSave] /\ UNCHANGED <<homes, unsure>>
    /\ UNCHANGED <<gateway, session, current, meAsked, setup, query, did>>

(* onCreated reads the session again, puts the account in force and takes  *)
(* the form away, as far as they are there.  Nobody awaits it: when the    *)
(* re-read fails, the form stays and its button is never enabled again.    *)
Reread(s) ==
    LET mine == save[s]
        rest == [save EXCEPT ![s] = NoSave]
    IN
    /\ mine.step = "rereading"
    /\ IF "session" \notin mine.left \/ session # "in"
       THEN save' = rest /\ UNCHANGED <<session, current, setup, query, unsure>>
       ELSE \/ mine.acct # current /\ Signed(mine.acct, rest)
            \/ /\ mine.acct = current
               /\ IF "layout" \in mine.left
                  THEN setup' = "done" /\ Unmount(rest, {"form"})
                  ELSE save' = rest /\ UNCHANGED <<setup, unsure>>
               /\ UNCHANGED <<session, current, query>>
            \/ LoggedOut(rest)
            \/ /\ save' = IF "form" \in mine.left THEN [save EXCEPT ![s].step = "stuck"] ELSE rest
               /\ UNCHANGED <<session, current, setup, query, unsure>>
    /\ UNCHANGED <<gateway, meAsked, homes, did>>

EntryAlone ==
    \/ \E p \in Probe : ProbeAnswered(p)
    \/ MeAnswered
    \/ \E q \in Query : CheckAnswered(q)
    \/ \E s \in Save : Renamed(s) \/ Created(s) \/ Reread(s)

EntryNext ==
    \/ ReloadPage \/ OpenPicker \/ Cancel \/ ConnectAnyway \/ UseDefault
    \/ \E url \in Url \cup {NoUrl} : Type(url)
    \/ \E p \in Probe : RunTest(p) \/ OnConnect(p)
    \/ LeaveApp \/ EnterApp
    \/ \E a \in Acct : SwitchAccount(a)
    \/ \E a \in Acct \cup {NoAcct} : SignInAgain(a)
    \/ \E s \in Save : SubmitFirst(s)
    \/ EntryAlone

-----------------------------------------------------------------------------
EntryTypeOK ==
    /\ boot \in {"probe", "picker", "ready"} /\ typed \in Url \cup {NoUrl}
    /\ test \in {"idle", "testing", "ok", "failed"}
    /\ \A p \in Probe : Open(p) => probe[p].by \in {"boot", "test", "connect"}
    /\ session \in {"absent", "loading", "in", "out"} /\ current \in Acct \cup {NoAcct}
    /\ boot = "ready" <=> session # "absent"
    /\ connecting => \E p \in Probe : Open(p) /\ probe[p].by = "connect"
    /\ setup \in {"checking", "needed", "done", "away"}
    /\ \A s \in Save : Saving(s) =>
          /\ save[s].acct \in Acct /\ save[s].left \subseteq Whole
          /\ "form" \in save[s].left => session = "in" /\ setup = "needed" /\ current = save[s].acct

(* The form for a first location gives an account a second one only        *)
(*   - after the answer to a creation was lost,                            *)
(*   - after the form was taken away while its save was under way (the     *)
(*     page was left or reloaded, another account came in force): the form *)
(*     that comes next knows nothing of it (CreateLocationModal.tsx:23), or *)
(*   - when the form was put up by the answer to a question that another   *)
(*     had followed                                                        *)
(* (pages/app/AppLayout.tsx:14, CreateLocationModal.tsx:49).               *)
OneFirstHome == \A a \in Acct : homes[a] > 1 => a \in unsure

(* A probe, the check of an account's locations, or a form that saves the  *)
(* first, as long as its end can come: not the form whose session re-read  *)
(* failed ("stuck"), and not the user without any account, for whom        *)
(* nothing is asked (AppLayout.tsx:15).                                    *)
EntryWaits ==
    \/ boot = "probe" \/ connecting
    \/ session = "in" /\ current # NoAcct /\ setup = "checking"
    \/ \E s \in Save : Saving(s) /\ "form" \in save[s].left /\ save[s].step # "stuck"
=============================================================================
