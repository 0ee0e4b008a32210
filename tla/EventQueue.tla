----------------------------- MODULE EventQueue -----------------------------
(***************************************************************************)
(* The controller's durable queue of upstream events (events.Queue), the   *)
(* Recorder that fills it and the transport code that drains it            *)
(* (Runner.drainEvents, Runner.longPollCycle).                             *)
(*                                                                         *)
(* Each partition is an append-only log with a cursor file and the         *)
(* undelivered entries in memory.  The queue's mutex makes every call      *)
(* atomic, but a drainer works on a snapshot of the entries between calls; *)
(* the drainer of a lost session may still be at work when the next one    *)
(* starts.  The process dies, and the power fails, between any two steps:  *)
(* log lines are fsynced, the cursor file is not, so that after a power    *)
(* failure it may be an older one, or none.                                *)
(***************************************************************************)
EXTENDS Integers, Sequences, SequencesExt

CONSTANTS
  Event,          (* events, each with an event_id of its own               *)
  Drainer,        (* drains that can be at work at a time                   *)
  NormalCapacity, (* events.Capacity - events.GrantReserved                 *)
  GrantReserved,  (* events.GrantReserved                                   *)
  DrainMax,       (* the most a drain takes at a time                       *)
  MaxCrashes,     (* bound on process deaths                                *)
  DiskFaults,     (* may a write of a log or of a cursor file fail?         *)
  HalfWrites      (* may a failed append leave its line, or part of it?     *)

ASSUME QueueAssumption ==
  /\ NormalCapacity \in Nat \ {0}
  /\ GrantReserved \in Nat \ {0}
  /\ DrainMax \in Nat \ {0}
  /\ MaxCrashes \in Nat
  /\ DiskFaults \in BOOLEAN /\ HalfWrites \in BOOLEAN

Part == {"normal", "grants"}
Entry == [seq : Nat, ev : Event]

(* What a write that failed half-way leaves in the log.                    *)
Torn == [seq |-> -1]

VARIABLES
  entries,  (* partition.entries: undelivered, in memory                    *)
  nextSeq,  (* partition.nextSeq                                            *)
  deliv,    (* partition.deliv                                              *)
  log,      (* the lines of the partition's .jsonl file                     *)
  cursor,   (* the partition's .cursor file                                 *)
  overflow, (* events in grant_overflow.jsonl                               *)
  batch,    (* what each drainer has still to deliver                       *)
  toAck,    (* how many of its first events it has written to the gateway   *)
  crashes,
  (* history variables *)
  fresh,    (* events that have not happened yet                            *)
  recorded, (* events whose Enqueue returned without error                  *)
  dropped,  (* events the ring has dropped to make room                     *)
  sent      (* events written to a transport                                *)

memoryVars == <<entries, nextSeq, deliv>>
drainVars == <<batch, toAck>>
historyVars == <<fresh, recorded, dropped, sent>>
queueVars == <<memoryVars, log, cursor, overflow, drainVars, crashes, historyVars>>

Pending == [part : Part, seq : Nat, ev : Event]

QueueTypeOK ==
  /\ entries \in [Part -> Seq(Entry)]
  /\ nextSeq \in [Part -> Nat]
  /\ deliv \in [Part -> Nat \cup {-1}]
  /\ log \in [Part -> Seq(Entry \cup {Torn})]
  /\ cursor \in [Part -> Nat \cup {-1}]
  /\ overflow \subseteq Event
  /\ batch \in [Drainer -> Seq(Pending)]
  /\ toAck \in [Drainer -> Nat]
  /\ crashes \in Nat
  /\ fresh \subseteq Event /\ recorded \subseteq Event
  /\ dropped \subseteq Event /\ sent \subseteq Event

QueueInit ==
  /\ entries = [p \in Part |-> <<>>]
  /\ nextSeq = [p \in Part |-> 0]
  /\ deliv = [p \in Part |-> -1]
  /\ log = [p \in Part |-> <<>>]
  /\ cursor = [p \in Part |-> -1]
  /\ overflow = {}
  /\ batch = [d \in Drainer |-> <<>>]
  /\ toAck = [d \in Drainer |-> 0]
  /\ crashes = 0
  /\ fresh = Event /\ recorded = {} /\ dropped = {} /\ sent = {}

-----------------------------------------------------------------------------
(* Recording.                                                              *)

NewLine(p, ev) == [seq |-> nextSeq[p], ev |-> ev]

(* partition.append.  It fails with the line in the log, with part of it   *)
(* in the log, or without a trace.                                         *)
Written(p, ev) ==
  /\ log' = [log EXCEPT ![p] = Append(@, NewLine(p, ev))]
  /\ nextSeq' = [nextSeq EXCEPT ![p] = @ + 1]

AppendFails(p, ev) ==
  /\ DiskFaults
  /\ \E left \in {<<>>} \cup (IF HalfWrites THEN {<<Torn>>, <<NewLine(p, ev)>>} ELSE {}) :
       log' = [log EXCEPT ![p] = @ \o left]
  /\ UNCHANGED nextSeq

(* A full ring drops its oldest entry and moves the cursor past it.        *)
RingFull == Len(entries["normal"]) >= NormalCapacity

Kept == IF RingFull THEN Tail(entries["normal"]) ELSE entries["normal"]

PastDropped ==
  IF RingFull /\ Kept # <<>> /\ Head(Kept).seq - 1 > deliv["normal"]
    THEN Head(Kept).seq - 1
    ELSE deliv["normal"]

RecordNormal(ev) ==
  /\ ev \in fresh
  /\ fresh' = fresh \ {ev}
  /\ deliv' = [deliv EXCEPT !["normal"] = PastDropped]
  /\ \/ cursor' = [cursor EXCEPT !["normal"] =
                     IF PastDropped > deliv["normal"] THEN PastDropped ELSE @]
     \/ DiskFaults /\ UNCHANGED cursor
  /\ dropped' = IF RingFull THEN dropped \cup {Head(entries["normal"]).ev} ELSE dropped
  /\ \/ /\ Written("normal", ev)
        /\ entries' = [entries EXCEPT !["normal"] = Append(Kept, NewLine("normal", ev))]
        /\ recorded' = recorded \cup {ev}
     \/ /\ AppendFails("normal", ev)
        /\ entries' = [entries EXCEPT !["normal"] = Kept]
        /\ UNCHANGED recorded
  /\ UNCHANGED <<overflow, drainVars, crashes, sent>>

(* EnqueueGrantRedeemed: the reserved partition, else the overflow log.    *)
RecordGrant(ev) ==
  /\ ev \in fresh
  /\ fresh' = fresh \ {ev}
  /\ \/ /\ Len(entries["grants"]) < GrantReserved
        /\ Written("grants", ev)
        /\ entries' = [entries EXCEPT !["grants"] = Append(@, NewLine("grants", ev))]
        /\ recorded' = recorded \cup {ev}
        /\ UNCHANGED overflow
     \/ /\ \/ Len(entries["grants"]) >= GrantReserved /\ UNCHANGED <<log, nextSeq>>
           \/ Len(entries["grants"]) < GrantReserved /\ AppendFails("grants", ev)
        /\ \/ overflow' = overflow \cup {ev} /\ recorded' = recorded \cup {ev}
           \/ DiskFaults /\ UNCHANGED <<overflow, recorded>>
        /\ UNCHANGED entries
  /\ UNCHANGED <<deliv, cursor, drainVars, crashes, dropped, sent>>

-----------------------------------------------------------------------------
(* Draining.                                                               *)

AsPending(p) == [i \in 1..Len(entries[p]) |->
                   [part |-> p, seq |-> entries[p][i].seq, ev |-> entries[p][i].ev]]

(* Queue.Drain: the grants come first.                                     *)
Undelivered ==
  LET all == AsPending("grants") \o AsPending("normal")
  IN  SubSeq(all, 1, IF Len(all) < DrainMax THEN Len(all) ELSE DrainMax)

Drain(d) ==
  /\ batch[d] = <<>>
  /\ Undelivered # <<>>
  /\ batch' = [batch EXCEPT ![d] = Undelivered]
  /\ UNCHANGED <<memoryVars, log, cursor, overflow, toAck, crashes, historyVars>>

(* drainEvents writes one event and acknowledges it; longPollCycle posts   *)
(* the whole batch and then acknowledges every event of it.                *)
WriteOut(d) ==
  /\ batch[d] # <<>> /\ toAck[d] = 0
  /\ \E n \in {1, Len(batch[d])} :
       /\ toAck' = [toAck EXCEPT ![d] = n]
       /\ sent' = sent \cup {batch[d][i].ev : i \in 1..n}
  /\ UNCHANGED <<memoryVars, log, cursor, overflow, batch, crashes, fresh, recorded, dropped>>

(* The connection is gone, or a cursor could not be saved; a POST may have *)
(* reached the gateway all the same.                                       *)
GiveUp(d) ==
  /\ batch[d] # <<>>
  /\ toAck[d] = 0
  /\ batch' = [batch EXCEPT ![d] = <<>>]
  /\ \E n \in {0, Len(batch[d])} : sent' = sent \cup {batch[d][i].ev : i \in 1..n}
  /\ UNCHANGED <<memoryVars, log, cursor, overflow, toAck, crashes, fresh, recorded, dropped>>

(* Mutant: an acknowledgement removes the oldest entry.                    *)
WithoutOldest(s, n) == IF s = <<>> THEN s ELSE Tail(s)

Without(s, n) ==
  IF \E i \in DOMAIN s : s[i].seq = n
    THEN RemoveAt(s, CHOOSE i \in DOMAIN s : /\ s[i].seq = n
                                            /\ \A j \in 1..i - 1 : s[j].seq # n)
    ELSE s

(* Queue.Ack.  A session stops at a cursor it could not save.              *)
AckWritten(d) ==
  /\ toAck[d] > 0
  /\ LET a == Head(batch[d])
         reached == IF a.seq > deliv[a.part] THEN a.seq ELSE deliv[a.part]
     IN  /\ entries' = [entries EXCEPT ![a.part] = Without(@, a.seq)]
         /\ deliv' = [deliv EXCEPT ![a.part] = reached]
         /\ \/ cursor' = [cursor EXCEPT ![a.part] = reached]
               /\ batch' = [batch EXCEPT ![d] = Tail(@)]
            \/ DiskFaults
               /\ UNCHANGED cursor
               /\ batch' = [batch EXCEPT ![d] = IF toAck[d] = 1 THEN <<>> ELSE Tail(@)]
  /\ toAck' = [toAck EXCEPT ![d] = @ - 1]
  /\ UNCHANGED <<nextSeq, log, overflow, crashes, historyVars>>

-----------------------------------------------------------------------------
(* Crash and reopening.                                                    *)

IntactPrefix(lines) ==
  IF \E i \in DOMAIN lines : lines[i] = Torn
    THEN SubSeq(lines, 1, (CHOOSE i \in DOMAIN lines : /\ lines[i] = Torn
                                                     /\ \A j \in 1..i - 1 : lines[j] # Torn) - 1)
    ELSE lines

(* The entries of the intact lines beyond the cursor, read line by line.   *)
Replayed(lines, at) ==
  LET read[i \in 0..Len(lines)] ==
        IF i = 0 THEN <<>>
        ELSE IF lines[i].seq > at THEN Append(read[i - 1], lines[i]) ELSE read[i - 1]
  IN  read[Len(lines)]

(* Mutant: recovery takes the entry after the cursor for a delivered one.  *)
RecoveredSkippingOne(lines, at) == Replayed(IntactPrefix(lines), at + 1)

Recovered(lines, at) == Replayed(IntactPrefix(lines), at)

MaxSeq == CHOOSE n \in {cursor[p] : p \in Part} : \A p \in Part : cursor[p] =< n

NextAfter(lines) ==
  LET seqs == {e.seq + 1 : e \in ToSet(IntactPrefix(lines))} \cup {0}
  IN  CHOOSE n \in seqs : \A m \in seqs : m =< n

(* The process dies; an append that was under way is in the log or not.    *)
(* openPartition cuts the log at the first line it cannot read.            *)
Crash ==
  /\ crashes < MaxCrashes
  /\ crashes' = crashes + 1
  /\ \E left \in [Part -> {<<>>} \cup {<<ev>> : ev \in fresh}],
        at \in [Part -> -1..MaxSeq] :
       LET lines == [p \in Part |->
                       log[p] \o [i \in DOMAIN left[p] |-> NewLine(p, left[p][i])]]
       IN  /\ left["normal"] = <<>> \/ left["grants"] = <<>>
           /\ \A p \in Part : at[p] =< cursor[p]
           /\ fresh' = fresh \ UNION {ToSet(left[p]) : p \in Part}
           /\ cursor' = at
           /\ deliv' = at
           /\ log' = [p \in Part |-> IntactPrefix(lines[p])]
           /\ entries' = [p \in Part |-> Recovered(lines[p], at[p])]
           /\ nextSeq' = [p \in Part |-> NextAfter(lines[p])]
  /\ batch' = [d \in Drainer |-> <<>>]
  /\ toAck' = [d \in Drainer |-> 0]
  /\ UNCHANGED <<overflow, recorded, dropped, sent>>

QueueNext ==
  \/ \E ev \in Event : RecordNormal(ev) \/ RecordGrant(ev)
  \/ \E d \in Drainer : Drain(d) \/ WriteOut(d) \/ GiveUp(d) \/ AckWritten(d)
  \/ Crash

QueueSpec == QueueInit /\ [][QueueNext]_queueVars

(* A connection comes back and, again and again, stays long enough to      *)
(* deliver an event; the code acknowledges what it has written.            *)
QueueFairness ==
  \A d \in Drainer :
    /\ WF_queueVars(Drain(d))
    /\ SF_queueVars(WriteOut(d))
    /\ WF_queueVars(AckWritten(d))

FairQueueSpec == QueueSpec /\ QueueFairness

-----------------------------------------------------------------------------
Events(s) == {s[i].ev : i \in DOMAIN s}

Durable == overflow \cup UNION {Events(Recovered(log[p], cursor[p])) : p \in Part}

(* "NEVER dropped before delivery", for both partitions: an event that was *)
(* recorded has been written to a transport, or (a normal one) made room   *)
(* in the full ring, or else it is both queued in memory and in what the   *)
(* next Open would find; the durable cursor has not passed it, whichever   *)
(* drainers interleave and wherever one gives up.  Types are right.        *)
NothingLost ==
  /\ QueueTypeOK
  /\ \A ev \in recorded \ (sent \cup dropped) :
       /\ ev \in Durable
       /\ ev \in overflow \cup UNION {Events(entries[p]) : p \in Part}
  /\ \A p \in Part : \A i \in DOMAIN IntactPrefix(log[p]) :
       log[p][i].seq =< cursor[p] /\ log[p][i].ev \in recorded => log[p][i].ev \in sent \cup dropped

(* "grant_redeemed events ... are NEVER dropped before delivery": what is  *)
(* queued in the reserved partition would be found by the next Open.       *)
GrantsNeverDropped ==
  Events(entries["grants"]) \subseteq Events(Recovered(log["grants"], cursor["grants"]))

(* The audit record of an offline open is delivered in the end, unless it  *)
(* went to the overflow log.                                               *)
EventuallySent ==
  \A ev \in Event : ev \in recorded ~> ev \in sent \cup dropped \cup overflow
=============================================================================
