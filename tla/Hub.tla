-------------------------------- MODULE Hub ---------------------------------
(***************************************************************************)
(* The gateway's device hub (hub.Hub) as the handlers of httpapi use it,   *)
(* for one device: connections of the device come, displace each other and *)
(* go; commands are dispatched to the live connection, or queued for the   *)
(* next one or the next poll; acks find the dispatch that waits for them,  *)
(* or are reconciled with its audit row later.                             *)
(*                                                                         *)
(* One action is one critical section of Hub.mu, or one channel operation, *)
(* or one write of the store.  Every map of the hub is keyed by device, or *)
(* checked against the device, so that one device stands for all.  What a  *)
(* device sends is signed and verified: forged messages never get here.    *)
(***************************************************************************)
EXTENDS Integers, Sequences, FiniteSets

CONSTANTS
  Nonce,         (* commands, each dispatched once under a nonce of its own *)
  Session,       (* WebSocket connections the device makes                  *)
  SendBuffer,    (* capacity of a connection's send channel                 *)
  TTL,           (* validity of an envelope                                 *)
  LateAckWindow, (* hub.LateAckWindow                                       *)
  MaxTime,       (* bound on the clock                                      *)
  StoreFaults    (* may a write of the audit log fail?                      *)

None == "none"
Steps == {"new", "wait", "leave", "record", "done"}

ASSUME HubAssumption ==
  /\ Session \cap ({None} \cup Steps) = {}
  /\ SendBuffer \in Nat \ {0}
  /\ TTL \in Nat /\ LateAckWindow \in Nat /\ MaxTime \in Nat
  /\ StoreFaults \in BOOLEAN

Results == {"opened", "denied"}
Outcomes == {"acked", "undelivered", "queued"}

VARIABLES
  now,
  conn,       (* conns[device]: the session registered, or None             *)
  serving,    (* sessions whose handler runs                                *)
  displaced,  (* sessions whose done channel is closed                      *)
  buffer,     (* each session's send channel                                *)
  queue,      (* queues[device]                                             *)
  pending,    (* nonces with an ack waiter                                  *)
  answer,     (* the waiter's channel                                       *)
  recent,     (* until when a late ack may reconcile; -1 once forgotten     *)
  pc,         (* where each dispatch is                                     *)
  outcome,    (* what it has come to                                        *)
  rows,       (* follow-up rows of each command's access_logs row           *)
  (* the device, and a history variable *)
  acks,       (* the acks it has signed, which may arrive again and again   *)
  handed      (* how often each command was handed to a transport           *)

connVars == <<conn, serving, displaced, buffer, queue>>
ackVars == <<pending, answer, recent>>
deviceVars == <<acks, handed>>
hubVars == <<now, connVars, ackVars, pc, outcome, rows, deviceVars>>

Queued == [nonce : Nonce, exp : Int]

LateTags == {"late_ack:opened", "late_ack:denied"}

HubTypeOK ==
  /\ now \in 0..MaxTime
  /\ conn \in Session \cup {None}
  /\ serving \subseteq Session /\ displaced \subseteq Session
  /\ buffer \in [Session -> Seq(Nonce)]
  /\ \A s \in Session : Len(buffer[s]) =< SendBuffer
  /\ queue \in Seq(Queued)
  /\ pending \subseteq Nonce
  /\ answer \in [Nonce -> Results \cup {None}]
  /\ recent \in [Nonce -> Int]
  /\ pc \in [Nonce -> Steps \cup Session]
  /\ outcome \in [Nonce -> Outcomes \cup {None}]
  /\ rows \in [Nonce -> Seq({"undelivered", "ack:denied"} \cup LateTags)]
  /\ acks \subseteq [nonce : Nonce, result : Results]
  /\ handed \in [Nonce -> Nat]

HubInit ==
  /\ now = 0
  /\ conn = None /\ serving = {} /\ displaced = {}
  /\ buffer = [s \in Session |-> <<>>]
  /\ queue = <<>>
  /\ pending = {} /\ answer = [n \in Nonce |-> None] /\ recent = [n \in Nonce |-> -1]
  /\ pc = [n \in Nonce |-> "new"] /\ outcome = [n \in Nonce |-> None]
  /\ rows = [n \in Nonce |-> <<>>]
  /\ acks = {} /\ handed = [n \in Nonce |-> 0]

Tick ==
  /\ now < MaxTime
  /\ now' = now + 1
  /\ UNCHANGED <<connVars, ackVars, pc, outcome, rows, deviceVars>>

-----------------------------------------------------------------------------
(* Connections.                                                            *)

(* The loop over a queue that leaves out what has expired.                 *)
Alive(q) ==
  LET alive[i \in 0..Len(q)] ==
        IF i = 0 THEN <<>>
        ELSE IF q[i].exp >= now THEN Append(alive[i - 1], q[i]) ELSE alive[i - 1]
  IN  alive[Len(q)]

FirstOf(q, n) == SubSeq(q, 1, IF Len(q) < n THEN Len(q) ELSE n)

(* handleControllerWS, once the handshake has passed, and Hub.Register:    *)
(* what finds no room in the new channel is dropped with the queue.        *)
Register(s) ==
  /\ s \notin serving \cup displaced
  /\ serving' = serving \cup {s}
  /\ displaced' = IF conn = None THEN displaced ELSE displaced \cup {conn}
  /\ conn' = s
  /\ buffer' = [buffer EXCEPT ![s] =
                  LET live == FirstOf(Alive(queue), SendBuffer)
                  IN  [i \in DOMAIN live |-> live[i].nonce]]
  /\ queue' = <<>>
  /\ UNCHANGED <<now, ackVars, pc, outcome, rows, deviceVars>>

(* The handler returns and runs unregister.  Mutant: it removes whatever   *)
(* connection is registered.                                               *)
UnregisterAny(s) ==
  /\ s \in serving
  /\ serving' = serving \ {s}
  /\ displaced' = displaced \cup {s}
  /\ conn' = None
  /\ UNCHANGED <<now, buffer, queue, ackVars, pc, outcome, rows, deviceVars>>

Unregister(s) ==
  /\ s \in serving
  /\ serving' = serving \ {s}
  /\ displaced' = displaced \cup {s}
  /\ conn' = IF conn = s THEN None ELSE conn
  /\ UNCHANGED <<now, buffer, queue, ackVars, pc, outcome, rows, deviceVars>>

(* The writer takes a payload from the channel, a displaced one too until  *)
(* it notices.  (What is lost on the way is a command nobody ever acks.)   *)
WriteSocket(s) ==
  /\ s \in serving /\ buffer[s] # <<>>
  /\ buffer' = [buffer EXCEPT ![s] = Tail(@)]
  /\ handed' = [handed EXCEPT ![Head(buffer[s])] = @ + 1]
  /\ UNCHANGED <<now, conn, serving, displaced, queue, ackVars, pc, outcome, rows, acks>>

-----------------------------------------------------------------------------
(* Dispatch (dispatchCommand, Hub.Dispatch).                               *)

Unforgotten == [n \in Nonce |-> IF recent[n] < now THEN -1 ELSE recent[n]]

DispatchOffline(n) ==
  /\ pc[n] = "new" /\ conn = None
  /\ queue' = Append(Alive(queue), [nonce |-> n, exp |-> now + TTL])
  /\ pc' = [pc EXCEPT ![n] = "done"]
  /\ outcome' = [outcome EXCEPT ![n] = "queued"]
  /\ UNCHANGED <<now, conn, serving, displaced, buffer, ackVars, rows, deviceVars>>

(* The waiter and the late-ack entry are in place before the payload goes  *)
(* out.                                                                    *)
DispatchConnected(n) ==
  /\ pc[n] = "new" /\ conn # None
  /\ pending' = pending \cup {n}
  /\ recent' = [Unforgotten EXCEPT ![n] = now + LateAckWindow]
  /\ pc' = [pc EXCEPT ![n] = conn]
  /\ UNCHANGED <<now, connVars, answer, outcome, rows, deviceVars>>

(* The payload goes to the connection looked up before, displaced or not,  *)
(* unless its channel is full.  Mutant: it waits for room.                 *)
SendWhenRoom(n) ==
  /\ pc[n] \in Session
  /\ Len(buffer[pc[n]]) < SendBuffer
  /\ buffer' = [buffer EXCEPT ![pc[n]] = Append(@, n)]
  /\ pc' = [pc EXCEPT ![n] = "wait"]
  /\ UNCHANGED <<now, conn, serving, displaced, queue, ackVars, outcome, rows, deviceVars>>

Send(n) ==
  /\ pc[n] \in Session
  /\ \/ /\ Len(buffer[pc[n]]) < SendBuffer
        /\ buffer' = [buffer EXCEPT ![pc[n]] = Append(@, n)]
        /\ pc' = [pc EXCEPT ![n] = "wait"]
        /\ UNCHANGED outcome
     \/ /\ Len(buffer[pc[n]]) >= SendBuffer
        /\ outcome' = [outcome EXCEPT ![n] = "undelivered"]
        /\ pc' = [pc EXCEPT ![n] = "leave"]
        /\ UNCHANGED buffer
  /\ UNCHANGED <<now, conn, serving, displaced, queue, ackVars, rows, deviceVars>>

Answered(n) ==
  /\ pc[n] = "wait" /\ answer[n] # None
  /\ outcome' = [outcome EXCEPT ![n] = "acked"]
  /\ pc' = [pc EXCEPT ![n] = "leave"]
  /\ UNCHANGED <<now, connVars, ackVars, rows, deviceVars>>

(* The ack timer fires or the request is cancelled; an answer that is in   *)
(* the channel by then does not keep the select from choosing this.        *)
AckTimeout(n) ==
  /\ pc[n] = "wait"
  /\ outcome' = [outcome EXCEPT ![n] = "undelivered"]
  /\ pc' = [pc EXCEPT ![n] = "leave"]
  /\ UNCHANGED <<now, connVars, ackVars, rows, deviceVars>>

(* The deferred function of Dispatch.                                      *)
ForgetWaiter(n) ==
  /\ pc[n] = "leave"
  /\ pending' = pending \ {n}
  /\ pc' = [pc EXCEPT ![n] = "record"]
  /\ UNCHANGED <<now, connVars, answer, recent, outcome, rows, deviceVars>>

Tag(n) ==
  IF outcome[n] = "undelivered" THEN <<"undelivered">>
  ELSE IF answer[n] = "denied" THEN <<"ack:denied">> ELSE <<>>

(* RecordDispatchOutcome; a failure is logged and the row never written.   *)
RecordOutcome(n) ==
  /\ pc[n] = "record"
  /\ pc' = [pc EXCEPT ![n] = "done"]
  /\ \/ rows' = [rows EXCEPT ![n] = @ \o Tag(n)]
     \/ StoreFaults /\ UNCHANGED rows
  /\ UNCHANGED <<now, connVars, ackVars, outcome, deviceVars>>

-----------------------------------------------------------------------------
(* Acks.                                                                   *)

ControllerAcks(n) ==
  /\ handed[n] > 0
  /\ \A a \in acks : a.nonce # n
  /\ \E r \in Results : acks' = acks \cup {[nonce |-> n, result |-> r]}
  /\ UNCHANGED <<now, connVars, ackVars, pc, outcome, rows, handed>>

(* Hub.ResolveAck: the waiter's channel holds one answer.  Mutant: it      *)
(* takes any of the device's waiters.                                      *)
ResolveAnyWaiter(a) ==
  /\ a \in acks
  /\ \E n \in pending :
       answer' = [answer EXCEPT ![n] = IF @ = None THEN a.result ELSE @]
  /\ UNCHANGED <<now, connVars, pending, recent, pc, outcome, rows, deviceVars>>

ResolveAck(a) ==
  /\ a \in acks
  /\ a.nonce \in pending
  /\ answer' = [answer EXCEPT ![a.nonce] = IF @ = None THEN a.result ELSE @]
  /\ UNCHANGED <<now, connVars, pending, recent, pc, outcome, rows, deviceVars>>

LateTag(a) == IF a.result = "opened" THEN "late_ack:opened" ELSE "late_ack:denied"

(* handleLateAck: the entry is used up, whether or not the row can be      *)
(* written.  Mutant: the entry stays.                                      *)
LateAckRepeats(a) ==
  /\ a \in acks
  /\ a.nonce \notin pending
  /\ recent' = Unforgotten
  /\ \/ Unforgotten[a.nonce] # -1 /\ rows' = [rows EXCEPT ![a.nonce] = Append(@, LateTag(a))]
     \/ Unforgotten[a.nonce] = -1 /\ UNCHANGED rows
  /\ UNCHANGED <<now, connVars, pending, answer, pc, outcome, deviceVars>>

LateAck(a) ==
  /\ a \in acks
  /\ a.nonce \notin pending
  /\ recent' = [Unforgotten EXCEPT ![a.nonce] = -1]
  /\ \/ /\ Unforgotten[a.nonce] # -1
        /\ rows' = [rows EXCEPT ![a.nonce] = Append(@, LateTag(a))]
     \/ /\ Unforgotten[a.nonce] = -1 \/ StoreFaults
        /\ UNCHANGED rows
  /\ UNCHANGED <<now, connVars, pending, answer, pc, outcome, deviceVars>>

-----------------------------------------------------------------------------
(* The long-poll fallback, once a poll has been accepted.                  *)

(* Hub.DrainQueue and the response.                                        *)
DrainQueue ==
  /\ queue # <<>>
  /\ queue' = <<>>
  /\ LET out == {Alive(queue)[i].nonce : i \in DOMAIN Alive(queue)}
     IN  handed' = [n \in Nonce |-> IF n \in out THEN handed[n] + 1 ELSE handed[n]]
  /\ UNCHANGED <<now, conn, serving, displaced, buffer, ackVars, pc, outcome, rows, acks>>

-----------------------------------------------------------------------------
DispatchStep(n) ==
  \/ DispatchOffline(n) \/ DispatchConnected(n) \/ Send(n)
  \/ Answered(n) \/ AckTimeout(n) \/ ForgetWaiter(n) \/ RecordOutcome(n)

HubNext ==
  \/ Tick
  \/ \E s \in Session : Register(s) \/ Unregister(s) \/ WriteSocket(s)
  \/ \E n \in Nonce : DispatchStep(n) \/ ControllerAcks(n)
  \/ \E a \in acks : ResolveAck(a) \/ LateAck(a)
  \/ DrainQueue

HubSpec == HubInit /\ [][HubNext]_hubVars

(* The goroutine of a dispatch that has begun runs on, and its timer fires. *)
FairHubSpec ==
  /\ HubSpec
  /\ \A n \in Nonce : WF_hubVars(DispatchStep(n) /\ pc[n] # "new")

-----------------------------------------------------------------------------
LateRows(n) == {i \in DOMAIN rows[n] : rows[n][i] \in LateTags}

(* However connections displace each other and whenever their handlers     *)
(* return, a connection that is served and was not displaced is the one    *)
(* that is registered, and the registered one is served: an old handler's  *)
(* unregister never makes a connected device look offline.  Types are      *)
(* right.                                                                  *)
OneLiveConnection ==
  /\ HubTypeOK
  /\ \A s \in serving \ displaced : conn = s
  /\ conn # None => conn \in serving \ displaced

(* "The gateway does not retry a dispatch": between the channel, the       *)
(* offline queue, a new connection and the polls, each envelope is handed  *)
(* to a transport at most once; "matching is exact and one-shot": repeated *)
(* acks add one late row at most, and none while the dispatch still waits. *)
ReconciledOnce ==
  \A n \in Nonce :
    /\ handed[n] =< 1
    /\ \A i, j \in LateRows(n) : i = j
    /\ LateRows(n) # {} => pc[n] \in {"record", "done"}

(* "The gateway never reports success when the controller did not answer", *)
(* and what it recorded is what the controller said.                       *)
AckedIsAnswered ==
  \A n \in Nonce :
    /\ outcome[n] = "acked" => [nonce |-> n, result |-> answer[n]] \in acks
    /\ \A i \in LateRows(n) : \E a \in acks : a.nonce = n /\ rows[n][i] = LateTag(a)

(* An open never hangs behind a wedged connection or a silent controller.  *)
DispatchEnds == \A n \in Nonce : pc[n] # "new" ~> pc[n] = "done"
=============================================================================
