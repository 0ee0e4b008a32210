------------------------------- MODULE Gates -------------------------------
(***************************************************************************)
(* The gates of a location, their wear meters and the log of their       *)
(* maintenance in the Workers backend: the access points and maintenance   *)
(* of routes/access.ts, and the triggers on access_points, access_logs and *)
(* maintenance_events that keep access_point_meters.                       *)
(*                                                                         *)
(* A request is one READ COMMITTED transaction tx[r]: it reads when it     *)
(* begins and what it writes appears when it commits.  now() is the time   *)
(* at which it began.  An inserted row shares the locks of the rows it         *)
(* refers to; a delete waits for them.  Writers of one meter wait for one  *)
(* another and add to what they find.                                      *)
(***************************************************************************)
EXTENDS DatabaseClock, FiniteSets

CONSTANTS
    Gate,       \* access points the location may come to have
    Txn,        \* requests that can be in flight together
    PerOp,      \* location_settings.gate_movement_m_per_op
    Entry,      \* bound: the entries made in the maintenance log
    MaxOps,     \* bound: opens and closes
    MaxEvents   \* bound: entries in the maintenance log

ASSUME GatesAssumption ==
    PerOp \in Nat \ {0} /\ MaxOps \in Nat /\ MaxEvents \in Nat

Kind == {"inspection", "service"}    \* repair and replacement are like service

(* performed_at and next_due_at may be any times, next_due_movement_m any   *)
(* movement; either threshold may be missing.                               *)
ASSUME EntryAssumption ==
    Entry \subseteq [kind : Kind, performed : Nat, dueAt : Nat \cup {Null}, dueOn : Nat \cup {Null}]

VARIABLES
    placed,     \* whether the location is there
    gates,      \* access_points that are there
    meter,      \* access_point_meters per gate
    logs,       \* access_logs of successful commands that name a gate
    events,     \* maintenance_events
    begun,      \* bound: commands and maintenance entries begun so far
    tx          \* the requests between their two steps

gateVars == <<placed, gates, meter, logs, events, now, begun, tx>>
gateRows == <<placed, gates, meter, logs, events>>

NoMeter == [movement |-> Null]

NewMeter == [movement |-> 0, opens |-> 0, closes |-> 0, lastOp |-> Null,
             serviced |-> Null, baseline |-> Null, dueAt |-> Null, dueOn |-> Null]

NoTx == [op |-> "idle"]

GatesInit ==
    /\ placed = TRUE
    /\ gates = {}
    /\ meter = [g \in Gate |-> NoMeter]
    /\ logs = {}
    /\ events = {}
    /\ now = 0
    /\ begun = [ops |-> 0, events |-> 0]
    /\ tx = [r \in Txn |-> NoTx]

StartTx(r, rec) == tx[r].op = "idle" /\ tx' = [tx EXCEPT ![r] = rec]

EndTx(r) == tx' = [tx EXCEPT ![r] = NoTx]

Working(op) == {r \in Txn : tx[r].op = op}

-----------------------------------------------------------------------------
(* POST /access-points: the location is looked up and its lock shared; the *)
(* trigger makes the meter.                                                 *)
GateBegin(r, g) ==
    /\ placed
    /\ g \notin gates
    /\ \A q \in Working("create") : tx[q].gate # g
    /\ StartTx(r, [op |-> "create", gate |-> g])
    /\ UNCHANGED <<gateRows, now, begun>>

GateCommit(r) ==
    LET g == tx[r].gate IN
    /\ tx[r].op = "create"
    /\ gates' = gates \cup {g}
    /\ meter' = [meter EXCEPT ![g] = NewMeter]
    /\ EndTx(r)
    /\ UNCHANGED <<placed, logs, events, now, begun>>

(* logAccess: a command that will be allowed has found its gate. *)
LogBegin(r, g, command) ==
    /\ g \in gates
    /\ begun.ops < MaxOps
    /\ begun' = [begun EXCEPT !.ops = @ + 1]
    /\ StartTx(r, [op |-> "log", id |-> begun.ops + 1, gate |-> g, command |-> command, ts |-> now])
    /\ UNCHANGED <<gateRows, now>>

(* Mutant of Later: the time of the command that commits last. *)
LaterAsWritten(s, t) == t

(* greatest() ignores nulls. *)
Later(s, t) == IF s = Null \/ s < t THEN t ELSE s

Count(command, wanted) == IF command = wanted THEN 1 ELSE 0

(* app.access_logs_advance_meter: added to what the row holds by now. *)
Advanced(m, command, ts) ==
    [m EXCEPT !.movement = @ + PerOp, !.opens = @ + Count(command, "open"),
              !.closes = @ + Count(command, "close"), !.lastOp = Later(@, ts)]

(* The row of a successful command; a gate that has gone makes it fail. *)
LogCommit(r) ==
    LET row == tx[r]
        g == row.gate IN
    /\ row.op = "log"
    /\ IF g \in gates
       THEN /\ logs' = logs \cup {[id |-> row.id, gate |-> g, command |-> row.command, ts |-> row.ts]}
            /\ meter' = [meter EXCEPT ![g] = Advanced(@, row.command, row.ts)]
       ELSE UNCHANGED <<logs, meter>>
    /\ EndTx(r)
    /\ UNCHANGED <<placed, gates, events, now, begun>>

-----------------------------------------------------------------------------
(* POST /access-points/:id/maintenance by an account admin: the row is      *)
(* inserted, and its trigger reads the meter without a lock.                *)
EventBegin(r, g, entry) ==
    /\ g \in gates
    /\ begun.events < MaxEvents
    /\ begun' = [begun EXCEPT !.events = @ + 1]
    /\ StartTx(r, [op |-> "event", id |-> begun.events + 1, gate |-> g, reading |-> meter[g].movement,
                 entry |-> entry])
    /\ UNCHANGED <<gateRows, now>>

(* Mutant of Resets: an inspection resets the wear baseline too. *)
ResetsAlways(kind) == kind \in Kind

Resets(kind) == kind = "service"

(* app.maintenance_events_after_insert: the meter takes over the event. *)
Adopted(m, e) ==
    [m EXCEPT !.serviced = e.entry.performed, !.baseline = e.reading,
              !.dueAt = e.entry.dueAt, !.dueOn = e.entry.dueOn]

EventCommit(r) ==
    LET e == tx[r]
        g == e.gate IN
    /\ e.op = "event"
    /\ events' = events \cup {[id |-> e.id, gate |-> g, reading |-> e.reading, entry |-> e.entry]}
    /\ meter' = IF Resets(e.entry.kind) THEN [meter EXCEPT ![g] = Adopted(@, e)] ELSE meter
    /\ EndTx(r)
    /\ UNCHANGED <<placed, gates, logs, now, begun>>

-----------------------------------------------------------------------------
(* New gates share the lock of the location, new events that of their gate. *)
GatesUnlocked == Working("create") = {} /\ Working("event") = {}

(* DELETE /locations/:id, and the rows that go with it; the access_logs stay *)
(* and name no gate any more.                                               *)
DropLocation ==
    /\ placed
    /\ GatesUnlocked
    /\ placed' = FALSE
    /\ gates' = {}
    /\ meter' = [g \in Gate |-> NoMeter]
    /\ logs' = {}
    /\ events' = {}
    /\ UNCHANGED <<now, begun, tx>>

AbortTx(r) ==
    /\ tx[r].op # "idle"
    /\ EndTx(r)
    /\ UNCHANGED <<gateRows, now, begun>>

GatesTick == now < MaxTime /\ now' = now + 1 /\ UNCHANGED <<gateRows, begun, tx>>

GatesNext ==
    \/ \E r \in Txn, g \in Gate :
        \/ GateBegin(r, g)
        \/ \E command \in {"open", "close"} : LogBegin(r, g, command)
        \/ \E entry \in Entry : EventBegin(r, g, entry)
    \/ \E r \in Txn : GateCommit(r) \/ LogCommit(r) \/ EventCommit(r) \/ AbortTx(r)
    \/ DropLocation
    \/ GatesTick

GatesSpec == GatesInit /\ [][GatesNext]_gateVars

-----------------------------------------------------------------------------
(* What GET /access-points answers of the maintenance of a gate. *)

(* The movement that remains until the next service. *)
MovementLeft(m) ==
    IF m.dueAt = Null THEN Null ELSE IF m.dueAt > m.movement THEN m.dueAt - m.movement ELSE 0

(* computeNextDue *)
DueNow(m) == (m.dueOn # Null /\ m.dueOn <= now) \/ MovementLeft(m) = 0

-----------------------------------------------------------------------------
NatOrNull == Nat \cup {Null}

Meter == [movement : Nat, opens : Nat, closes : Nat, lastOp : NatOrNull, serviced : NatOrNull,
          baseline : NatOrNull, dueAt : NatOrNull, dueOn : NatOrNull]

(* Whatever was being made while the location was deleted, there is a meter *)
(* for exactly the gates, and the maintenance log speaks of gates only.     *)
GatesTypeOK ==
    /\ gates \subseteq Gate
    /\ gates # {} => placed
    /\ \A g \in Gate : IF g \in gates THEN meter[g] \in Meter ELSE meter[g] = NoMeter
    /\ \A l \in logs : l.gate \in gates /\ l.ts <= now
    /\ \A e \in events : e.gate \in gates
    /\ now \in Time

LogsOf(g, command) == {l \in logs : l.gate = g /\ l.command = command}

(* The meter of a gate counts the successful commands in its log, and its   *)
(* last operation is the latest of them, although they commit in another    *)
(* order than they began in, beside services that write the same row.       *)
MetersCount ==
    \A g \in gates :
        /\ meter[g].opens = Cardinality(LogsOf(g, "open"))
        /\ meter[g].closes = Cardinality(LogsOf(g, "close"))
        /\ meter[g].movement = PerOp * (meter[g].opens + meter[g].closes)
        /\ \A l \in logs : l.gate = g => meter[g].lastOp # Null /\ meter[g].lastOp >= l.ts
        /\ meter[g].lastOp # Null => \E l \in logs : l.gate = g /\ l.ts = meter[g].lastOp

(* What the meter says of the last service is all of it one entry of the    *)
(* log that was no inspection, read no later than now, whichever services   *)
(* and opens were entered at the same time.                                 *)
OneService ==
    \A g \in gates :
        LET m == meter[g] IN
        \/ /\ m.serviced = Null /\ m.baseline = Null
           /\ m.dueAt = Null /\ m.dueOn = Null
        \/ /\ m.baseline <= m.movement
           /\ \E e \in events :
                 /\ e.gate = g /\ e.entry.kind # "inspection"
                 /\ e.entry.performed = m.serviced /\ e.reading = m.baseline
                 /\ e.entry.dueAt = m.dueAt /\ e.entry.dueOn = m.dueOn

(* The meter of a gate agrees with both of its logs: that of the commands   *)
(* (MetersCount) and that of the maintenance (OneService).                  *)
MetersAgree == MetersCount /\ OneService

(* A gate that is shown as due stays due, however long nobody looks and     *)
(* however often it opens, until something other than an inspection is      *)
(* entered for it.                                                          *)
DueUntilServiced ==
    [][\A g \in gates \cap gates' :
          DueNow(meter[g]) => \/ DueNow(meter[g])'
                              \/ \E e \in events' \ events : e.gate = g /\ e.entry.kind # "inspection"]_gateVars

=============================================================================
