------------------------------ MODULE OpenPath ------------------------------
(***************************************************************************)
(* How the Workers backend decides that a gate opens: logAccess and the    *)
(* portal routes of routes/access.ts, lib/rate-limit.ts, and the chat      *)
(* webhooks routes/whatsapp.ts, slack.ts and telegram.ts, at one access    *)
(* point of one account and in one counting window (another window has     *)
(* rows of its own).                                                       *)
(*                                                                         *)
(* A request or webhook is one transaction tx[r].  A counter row it has    *)
(* touched is locked until it ends; nobody reads the rows otherwise, so    *)
(* its increments are made in place and taken back when it rolls back.     *)
(* Grant uses are consumed and refunded in transactions of their own, that *)
(* commit whatever becomes of the webhook's.                               *)
(***************************************************************************)
EXTENDS Naturals, FiniteSets, Sequences, Functions

CONSTANTS
    Member,       \* active members of the account
    Admin,        \* those of them that are owner or admin
    Visitor,      \* phones with a temporary access grant
    Msg,          \* messages the chat providers deliver
    Sender,       \* Sender[m]: the member or visitor a message is from
    Command,      \* Command[m]: "open", "close" or "menu"
    Req,          \* requests and webhooks that can be in flight together
    NoMsg, NoSubject,
    HourCap, AcctCap, MemberQuota, LocQuota,    \* limits of the window
    MaxUses,      \* max_uses of a grant
    Delivery,     \* bound: the batches of messages the providers deliver
    MaxOpens,     \* bound: requests to open from portal and Slack
    MaxBars,      \* bound: changes of status of a user or the account, or of a grant
    StoreFaults   \* whether counter statements fail for no reason of ours

Subject == Member \cup Visitor

ASSUME SubjectsAssumption ==
    /\ Member \cap Visitor = {} /\ Admin \subseteq Member /\ NoSubject \notin Subject
    /\ NoMsg \notin Msg
    /\ Delivery \subseteq Seq(Msg)
    /\ IsFiniteSet(Subject) /\ IsFiniteSet(Req)
    /\ Sender \in [Msg -> Subject] /\ Command \in [Msg -> {"open", "close", "menu"}]
ASSUME LimitsAssumption ==
    /\ HourCap \in Nat /\ AcctCap \in Nat /\ MemberQuota \in Nat /\ LocQuota \in Nat
    /\ MaxUses \in Nat /\ MaxOpens \in Nat /\ MaxBars \in Nat /\ StoreFaults \in BOOLEAN

VARIABLES
    counter,      \* rate_limit_counters: the rows of this window
    cooling,      \* subjects whose open_cd sentinel is younger than the cooldown
    opened,       \* committed access_logs rows of successful, untagged opens
    uses,         \* uses_count of each visitor's grant
    grantless,    \* visitors whose grant is revoked, or not made yet
    spent,        \* history: committed commands made with each grant
    lost,         \* history: uses whose command was rolled back
    seen,         \* inbound messages that are committed
    acted,        \* history: committed commands per message
    answered,     \* history: replies sent per message
    barred,       \* disabled users, and NoSubject while the account is suspended
    asked,        \* bound: portal and Slack opens so far
    bars,         \* bound: such changes so far
    tx            \* the requests in flight

vars == <<counter, cooling, opened, uses, grantless, spent, lost, seen, acted,
          answered, barred, asked, bars, tx>>
limits == <<counter, cooling>>
grants == <<uses, grantless, lost>>
logged == <<opened, spent, seen, acted>>
bounds == <<asked, bars>>

Row == ({"opens_1h", "opens_1d"} \X Subject) \cup ({"acct_opens_1h", "loc_opens_1d"} \X {NoSubject})

MemberRow(s) == <<"opens_1h", s>>

(* The rows bumped after the member's hour, in this order. *)
LaterRows(s) == <<<<"acct_opens_1h", NoSubject>>, <<"opens_1d", s>>, <<"loc_opens_1d", NoSubject>>>>

RowsOf(s) == {MemberRow(s)} \cup {LaterRows(s)[i] : i \in 1 .. 3}

(* Mutant of HasRoom: the quotas do not apply to visitors. *)
HasRoomForVisitors(row, s) ==
    LET count == counter[row] IN
    \/ row[1] = "opens_1h"      /\ count < HourCap
    \/ row[1] = "acct_opens_1h" /\ count < AcctCap
    \/ row[1] = "opens_1d"      /\ (s \in Admin \cup Visitor \/ count < MemberQuota)
    \/ row[1] = "loc_opens_1d"  /\ (s \in Admin \cup Visitor \/ count < LocQuota)

(* The cap try_bump is given; owners and admins are exempt from the quotas. *)
HasRoom(row, s) ==
    LET count == counter[row] IN
    \/ row[1] = "opens_1h"      /\ count < HourCap
    \/ row[1] = "acct_opens_1h" /\ count < AcctCap
    \/ row[1] = "opens_1d"      /\ (s \in Admin \/ count < MemberQuota)
    \/ row[1] = "loc_opens_1d"  /\ (s \in Admin \/ count < LocQuota)

Idle == [kind |-> "idle"]

Begun(kind, stage, subj, todo) ==
    [kind |-> kind, stage |-> stage, subj |-> subj, todo |-> todo, msg |-> NoMsg,
     grant |-> FALSE, held |-> {}, base |-> {}, cur |-> {}, wins |-> {}, seen |-> {},
     chats |-> {}, replies |-> {}, barred |-> barred]

Active == {r \in Req : tx[r].kind \in {"request", "batch"}}

At(r, stage) == r \in Active /\ tx[r].stage = stage

HeldByOther(r, row) == \E q \in Active \ {r} : row \in tx[q].held

Cooling(r, s) == s \in cooling \/ \E w \in tx[r].wins : w.subj = s /\ w.counted

Init ==
    /\ counter = [row \in Row |-> 0]
    /\ cooling = {}
    /\ opened = [s \in Subject |-> 0]
    /\ uses = [v \in Visitor |-> 0]
    /\ grantless \in {{}, Visitor}
    /\ spent = [v \in Visitor |-> 0]
    /\ lost = [v \in Visitor |-> 0]
    /\ seen = {}
    /\ acted = [m \in Msg |-> 0]
    /\ answered = [m \in Msg |-> 0]
    /\ barred \in {{}, {NoSubject}}
    /\ asked = 0
    /\ bars = 0
    /\ tx = [r \in Req |-> Idle]

Set(r, rec) == tx' = [tx EXCEPT ![r] = rec]

Goto(r, stage) == tx' = [tx EXCEPT ![r].stage = stage]

-----------------------------------------------------------------------------
(* app.try_consume_grant finds a usable grant. *)
Usable(v) == v \in Visitor /\ v \notin grantless /\ uses[v] < MaxUses

(* The gate is among those of a phone or of a profile: by a usable grant,   *)
(* or as an active member whose user is active.                             *)
Available(s) == Usable(s) \/ s \in Member \ barred

Request(r, u) ==
    /\ tx[r].kind = "idle"
    /\ asked < MaxOpens
    /\ asked' = asked + 1
    /\ Set(r, Begun("request", "status", u, <<>>))
    /\ UNCHANGED <<limits, grants, logged, answered, barred, bars>>

(* POST /access-points/:id/open, after requireAuth. *)
OpenRequest(r, u) == u \in Member \ barred /\ Request(r, u)

(* The Open button of a Slack message, which Slack may press again; the     *)
(* profile's gates are looked up first.                                     *)
SlackOpen(r, u) == u \in Member /\ Available(u) /\ Request(r, u)

(* POST /webhooks/whatsapp (a batch) or /telegram (one message): delivered  *)
(* for the first time or again.                                             *)
Deliver(r, ms) ==
    /\ tx[r].kind = "idle"
    /\ Set(r, Begun("batch", "next", NoSubject, ms))
    /\ UNCHANGED <<limits, grants, logged, answered, barred, bounds>>

(* Mutant of Fresh: inbound messages are inserted without a conflict. *)
FreshAlways(r, m) == r \in Req /\ m \in Msg

(* insert ... on conflict do nothing returns a row. *)
Fresh(r, m) == m \notin seen \cup tx[r].seen

(* The next message of the batch.  The upsert of the sender's chat locks    *)
(* that row to the end of the transaction.  A duplicate is skipped, and so  *)
(* is the message of a sender over chat_1m, after it has been recorded.     *)
TakeMessage(r) ==
    LET m == Head(tx[r].todo)
        t == [tx[r] EXCEPT !.todo = Tail(@), !.chats = @ \cup {Sender[m]}]
        recorded == [t EXCEPT !.seen = @ \cup {m}] IN
    /\ At(r, "next")
    /\ tx[r].todo # <<>>
    /\ \A q \in Active \ {r} : Sender[m] \notin tx[q].chats
    /\ IF Fresh(r, m)
       THEN \/ Set(r, recorded)
            \/ Set(r, [recorded EXCEPT !.msg = m, !.stage = "command", !.base = tx[r].held])
       ELSE Set(r, t)
    /\ UNCHANGED <<limits, grants, logged, answered, barred, bounds>>

(* The message is dealt with; a reply to it will be sent after the commit. *)
Dealt(t) ==
    IF t.kind = "batch"
    THEN [t EXCEPT !.stage = "next", !.msg = NoMsg, !.subj = NoSubject, !.grant = FALSE,
                   !.cur = {}, !.replies = @ \cup {t.msg}]
    ELSE [t EXCEPT !.stage = "commit", !.cur = {}]

Won(r, command, counted) ==
    [tx[r] EXCEPT !.wins = @ \cup {[subj |-> tx[r].subj, msg |-> tx[r].msg, command |-> command,
                                    grant |-> tx[r].grant, counted |-> counted]}]

(* pushAccessCommandResult: a grant is consumed for the sender, or else the *)
(* phone is of an active member; a close needs no more.                     *)
ConsumeGrant(r) ==
    LET v == Sender[tx[r].msg]
        t == [tx[r] EXCEPT !.subj = v, !.grant = TRUE] IN
    /\ At(r, "command")
    /\ Command[tx[r].msg] # "menu"
    /\ Usable(v)
    /\ uses' = [uses EXCEPT ![v] = @ + 1]
    /\ Set(r, [t EXCEPT !.stage = Command[tx[r].msg]])
    /\ UNCHANGED <<limits, grantless, lost, logged, answered, barred, bounds>>

MemberCommand(r) ==
    LET u == Sender[tx[r].msg] IN
    /\ At(r, "command")
    /\ Command[tx[r].msg] # "menu"
    /\ u \in Member \ barred
    /\ Set(r, [tx[r] EXCEPT !.subj = u, !.stage = Command[tx[r].msg]])
    /\ UNCHANGED <<limits, grants, logged, answered, barred, bounds>>

(* A menu, or no access: only a reply. *)
NoCommand(r) ==
    LET m == tx[r].msg IN
    /\ At(r, "command")
    /\ Command[m] = "menu" \/ ~Available(Sender[m])
    /\ Set(r, Dealt(tx[r]))
    /\ UNCHANGED <<limits, grants, logged, answered, barred, bounds>>

-----------------------------------------------------------------------------
(* logAccess of a close: the success row and nothing else. *)
LogClose(r) ==
    /\ At(r, "close")
    /\ Set(r, Dealt(Won(r, "close", FALSE)))
    /\ UNCHANGED <<limits, grants, logged, answered, barred, bounds>>

(* logAccess of an open, up to the cooldown's fast path: account and user   *)
(* status, then the configuration; a denial is logged and is no error.      *)
Barred(s) == NoSubject \in barred \/ s \in barred

Denied(r) == Barred(tx[r].subj) \/ Cooling(r, tx[r].subj)

(* Mutant of AfterDenial: a denied visitor's use is not given back. *)
AfterDenialUnrefunded(t) == Dealt(t)

AfterDenial(t) == IF t.grant THEN [t EXCEPT !.stage = "refund", !.cur = {}] ELSE Dealt(t)

LogOpen(r) ==
    /\ At(r, "open") \/ At(r, "status")
    /\ IF Denied(r) THEN Set(r, AfterDenial(tx[r])) ELSE Goto(r, "member")
    /\ UNCHANGED <<limits, grants, logged, answered, barred, bounds>>

Bumped(rows) == [row \in Row |-> counter[row] + IF row \in rows THEN 1 ELSE 0]
Unbumped(rows) == [row \in Row |-> counter[row] - IF row \in rows THEN 1 ELSE 0]

(* The member's counter of the hour. *)
BumpMember(r) ==
    LET row == MemberRow(tx[r].subj)
        t == [tx[r] EXCEPT !.held = @ \cup {row}] IN
    /\ At(r, "member")
    /\ ~HeldByOther(r, row)
    /\ IF HasRoom(row, tx[r].subj)
       THEN /\ counter' = Bumped({row})
            /\ Set(r, [t EXCEPT !.cur = {row}, !.stage = "rest"])
       ELSE Set(r, AfterDenial(t)) /\ UNCHANGED counter
    /\ UNCHANGED <<cooling, grants, logged, answered, barred, bounds>>

(* handBack: what this attempt has consumed before the limit that denies.   *)
(* Mutant of HandBack: the counters keep a denied attempt.                  *)
HandBackNothing(consumed) == IF consumed \subseteq Row THEN counter ELSE Unbumped(consumed)

HandBack(consumed) == Unbumped(consumed)

CooldownClaimed(r, s) == ~Cooling(r, s)

(* The account's row first: who holds it holds every later row too.  The    *)
(* first limit without room denies, the claim of the cooldown comes last.   *)
BumpRest(r) ==
    LET s == tx[r].subj
        row == LaterRows(s)
        full == {i \in 1 .. 3 : ~HasRoom(row[i], s)}
        touched == {row[i] : i \in {j \in 1 .. 3 : \A k \in full : j <= k}} IN
    /\ At(r, "rest")
    /\ ~HeldByOther(r, row[1])
    /\ IF full = {} /\ CooldownClaimed(r, s)
       THEN /\ counter' = Bumped(touched)
            /\ Set(r, Dealt([Won(r, "open", TRUE) EXCEPT !.held = @ \cup touched]))
       ELSE /\ counter' = HandBack(tx[r].cur)
            /\ Set(r, AfterDenial([tx[r] EXCEPT !.held = @ \cup touched]))
    /\ UNCHANGED <<cooling, grants, logged, answered, barred, bounds>>

(* r waits for a row of q. *)
WaitsFor(r, q) ==
    /\ q \in Active \ {r}
    /\ \/ At(r, "member") /\ MemberRow(tx[r].subj) \in tx[q].held
       \/ At(r, "rest") /\ LaterRows(tx[r].subj)[1] \in tx[q].held
       \/ At(r, "next") /\ tx[r].todo # <<>> /\ Sender[Head(tx[r].todo)] \in tx[q].chats

(* r is on a cycle of waiting requests, one of which Postgres will choose. *)
Deadlocked(r) ==
    \E D \in SUBSET Active :
        /\ r \in D
        /\ \A q \in D : (\E p \in D : WaitsFor(q, p)) /\ \E p \in D : WaitsFor(p, q)

(* guardedCheckOpenLimits: a counter statement fails, be it as the victim   *)
(* of a deadlock; the savepoint is rolled back and the open is allowed, its *)
(* row tagged rate_limit_check_failed.                                      *)
Degrade(r) ==
    /\ At(r, "member") \/ At(r, "rest")
    /\ StoreFaults \/ Deadlocked(r)
    /\ counter' = Unbumped(tx[r].cur)
    /\ Set(r, Dealt([Won(r, "open", FALSE) EXCEPT !.held = tx[r].base]))
    /\ UNCHANGED <<cooling, grants, logged, answered, barred, bounds>>

(* refundGrantUse. *)
RefundGrant(r) ==
    LET v == tx[r].subj IN
    /\ At(r, "refund")
    /\ uses' = [uses EXCEPT ![v] = IF @ > 0 THEN @ - 1 ELSE 0]
    /\ Set(r, Dealt(tx[r]))
    /\ UNCHANGED <<limits, grantless, lost, logged, answered, barred, bounds>>

-----------------------------------------------------------------------------
(* The transaction commits: the request is over, a batch has replies to send. *)
Commit(r) ==
    LET t == tx[r]
        counted(s) == Cardinality({w \in t.wins : w.counted /\ w.subj = s}) IN
    /\ At(r, "commit") \/ (At(r, "next") /\ t.todo = <<>>)
    /\ opened' = [s \in Subject |-> opened[s] + counted(s)]
    /\ cooling' = cooling \cup {w.subj : w \in {x \in t.wins : x.counted}}
    /\ spent' = [v \in Visitor |-> spent[v] + Cardinality({w \in t.wins : w.grant /\ w.subj = v})]
    /\ acted' = [m \in Msg |-> acted[m] + Cardinality({w \in t.wins : w.msg = m})]
    /\ seen' = seen \cup t.seen
    /\ Set(r, IF t.replies = {} THEN Idle ELSE [kind |-> "reply", replies |-> t.replies])
    /\ UNCHANGED <<counter, grants, answered, barred, bounds>>

(* The replies go out after the commit. *)
Reply(r, m) ==
    /\ tx[r].kind = "reply"
    /\ m \in tx[r].replies
    /\ answered' = [answered EXCEPT ![m] = @ + 1]
    /\ Set(r, IF tx[r].replies = {m} THEN Idle ELSE [tx[r] EXCEPT !.replies = @ \ {m}])
    /\ UNCHANGED <<limits, grants, logged, barred, bounds>>

(* What an open transaction has added to a counter, and taken of a grant. *)
Made(t, row) ==
    Cardinality({w \in t.wins : w.counted /\ row \in RowsOf(w.subj)}) + IF row \in t.cur THEN 1 ELSE 0

Taken(t, v) ==
    Cardinality({w \in t.wins : w.grant /\ w.subj = v}) + IF t.grant /\ t.subj = v THEN 1 ELSE 0

(* The Worker is stopped, or a statement outside the savepoints fails: all  *)
(* is rolled back but the grant uses.                                       *)
Abort(r) ==
    LET t == tx[r] IN
    /\ r \in Active
    /\ counter' = [row \in Row |-> counter[row] - Made(t, row)]
    /\ lost' = [v \in Visitor |-> lost[v] + Taken(t, v)]
    /\ Set(r, Idle)
    /\ UNCHANGED <<cooling, uses, grantless, logged, answered, barred, bounds>>

StopReplying(r) ==
    /\ tx[r].kind = "reply"
    /\ Set(r, Idle)
    /\ UNCHANGED <<limits, grants, logged, answered, barred, bounds>>

(* The cooldown of s has passed. *)
CooldownElapses(s) ==
    /\ s \in cooling
    /\ cooling' = cooling \ {s}
    /\ UNCHANGED <<counter, grants, logged, answered, barred, bounds, tx>>

(* POST /grants, for a visitor of whom no use is on the books. *)
GrantAccess(v) ==
    /\ v \in grantless
    /\ uses[v] + spent[v] + lost[v] = 0
    /\ grantless' = grantless \ {v}
    /\ bars < MaxBars
    /\ bars' = bars + 1
    /\ UNCHANGED <<limits, uses, lost, logged, answered, barred, asked, tx>>

(* POST /grants/:id/revoke. *)
RevokeGrant(v) ==
    /\ v \notin grantless
    /\ grantless' = grantless \cup {v}
    /\ bars < MaxBars
    /\ bars' = bars + 1
    /\ UNCHANGED <<limits, uses, lost, logged, answered, barred, asked, tx>>

(* PATCH /admin/accounts/:id (NoSubject) or /admin/users/:id sets the status; *)
(* the requests in flight are marked, which of them began under a bar.      *)
Bar(s) ==
    /\ s \notin barred
    /\ barred' = barred \cup {s}
    /\ bars < MaxBars
    /\ bars' = bars + 1
    /\ UNCHANGED <<limits, grants, logged, answered, asked, tx>>

Unbar(s) ==
    /\ s \in barred
    /\ barred' = barred \ {s}
    /\ tx' = [r \in Req |-> IF r \in Active THEN [tx[r] EXCEPT !.barred = @ \ {s}] ELSE tx[r]]
    /\ bars < MaxBars
    /\ bars' = bars + 1
    /\ UNCHANGED <<limits, grants, logged, answered, asked>>

TxStep(r) ==
    \/ TakeMessage(r) \/ ConsumeGrant(r) \/ MemberCommand(r) \/ NoCommand(r)
    \/ LogClose(r) \/ LogOpen(r) \/ BumpMember(r) \/ BumpRest(r) \/ Degrade(r)
    \/ RefundGrant(r) \/ Commit(r)
    \/ \E m \in Msg : Reply(r, m)

Next ==
    \/ \E r \in Req :
        \/ \E u \in Member : OpenRequest(r, u) \/ SlackOpen(r, u)
        \/ \E ms \in Delivery : Deliver(r, ms)
        \/ TxStep(r) \/ Abort(r) \/ StopReplying(r)
    \/ \E s \in Subject : CooldownElapses(s)
    \/ \E v \in Visitor : GrantAccess(v) \/ RevokeGrant(v)
    \/ \E s \in Member \cup {NoSubject} : Bar(s) \/ Unbar(s)

Spec == Init /\ [][Next]_vars
-----------------------------------------------------------------------------
Win == [subj : Subject, msg : Msg \cup {NoMsg}, command : {"open", "close"},
        grant : BOOLEAN, counted : BOOLEAN]

Stage == {"status", "next", "command", "open", "close", "member", "rest", "refund", "commit"}

InFlight(t) ==
    /\ t.stage \in Stage
    /\ t.subj \in Subject \cup {NoSubject}
    /\ t.msg \in Msg \cup {NoMsg}
    /\ t.grant => t.subj \in Visitor
    /\ t.cur \subseteq t.held /\ t.base \subseteq t.held /\ t.held \subseteq Row
    /\ t.wins \subseteq Win
    /\ t.replies \subseteq t.seen /\ t.seen \subseteq Msg
    /\ {Sender[m] : m \in t.seen} \subseteq t.chats

(* Rows, requests and locks have the shape the tables and handlers give     *)
(* them; no counter is ever taken below zero; a row has one lock holder.    *)
OpenPathTypeOK ==
    /\ counter \in [Row -> Nat]
    /\ cooling \subseteq Subject
    /\ opened \in [Subject -> Nat]
    /\ uses \in [Visitor -> 0 .. MaxUses]
    /\ grantless \subseteq Visitor
    /\ seen \subseteq Msg
    /\ barred \subseteq Member \cup {NoSubject}
    /\ \A r \in Active : InFlight(tx[r])
    /\ \A r, q \in Active : r # q => tx[r].held \cap tx[q].held = {} /\ tx[r].chats \cap tx[q].chats = {}

Opens(row) ==
    IF row[2] = NoSubject THEN SumFunctionOnSet(opened, Subject) ELSE opened[row[2]]

(* Denials never consume, and counters exactly equal successful opens       *)
(* (rate-limit.ts, checkAndConsumeOpenLimits): a counter is what has been   *)
(* opened and committed, and what open transactions have in hand, whatever  *)
(* was denied, handed back, degraded or rolled back.  Types are right; a    *)
(* row has one lock holder.                                                 *)
CountersExact ==
    /\ OpenPathTypeOK
    /\ \A row \in Row : counter[row] = Opens(row) + SumFunction([r \in Active |-> Made(tx[r], row)])

(* No use of a grant disappears but by a rollback: the uses are the         *)
(* commands made, those in flight, and those whose transaction was rolled   *)
(* back after its grant had been committed (tryConsumeGrant, refundGrantUse). *)
UsesAccounted ==
    \A v \in Visitor :
        uses[v] = spent[v] + lost[v] + SumFunction([r \in Active |-> Taken(tx[r], v)])

(* A message is acted on once and answered at most once, however often and  *)
(* in whatever batches the provider delivers it (insert ... on conflict).   *)
MessageOnce == \A m \in Msg : acted[m] <= 1 /\ answered[m] <= 1

(* The abstract gate: the opens of each subject, never over a limit.        *)
Gate == INSTANCE MeteredGate

MetersGate == Gate!Spec

=============================================================================
