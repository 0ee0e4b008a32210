----------------------------- MODULE Hub_proofs -----------------------------
(***************************************************************************)
(* Proofs about the device hub, for any number of commands and connections *)
(* and any capacity and windows.                                           *)
(***************************************************************************)
EXTENDS Hub, FiniteSetTheorems, WellFoundedInduction, TLAPS

-----------------------------------------------------------------------------
(* Loops over a sequence.                                                  *)

(* Induction up to N over a set of numbers.                                *)
LEMMA UpTo ==
    ASSUME NEW N \in Nat, NEW T, 0 \in T, \A k \in 0 .. N : k \in T /\ k < N => k + 1 \in T
    PROVE  \A k \in 0 .. N : k \in T
<1> DEFINE B == {k \in 0 .. N : k \notin T}
           D == {0 .. k : k \in B}
<1> SUFFICES ASSUME B # {} PROVE FALSE
  OBVIOUS
<1>1. IsWellFoundedOn(StrictSubsetOrdering(Nat), FiniteSubsetsOf(Nat))
  BY FS_StrictSubsetOrderingWellFounded
<1>2. D \subseteq FiniteSubsetsOf(Nat)
  <2> SUFFICES ASSUME NEW k \in B PROVE 0 .. k \in FiniteSubsetsOf(Nat)
    OBVIOUS
  <2>1. IsFiniteSet(0 .. k)
    BY FS_Interval
  <2>2. 0 .. k \subseteq Nat
    OBVIOUS
  <2> QED BY <2>1, <2>2 DEF FiniteSubsetsOf
<1>3. PICK x \in D : \A y \in D : <<y, x>> \notin StrictSubsetOrdering(Nat)
  <2>1. D # {}
    OBVIOUS
  <2> HIDE DEF D
  <2> QED BY <1>1, <1>2, <2>1, WFMin
<1>4. PICK k \in B : x = 0 .. k
  OBVIOUS
<1>5. k - 1 \in B
  OBVIOUS
<1>6. <<0 .. k - 1, 0 .. k>> \in StrictSubsetOrdering(Nat)
  <2>1. 0 .. k - 1 \subseteq 0 .. k /\ k \in 0 .. k /\ k \notin 0 .. k - 1
    OBVIOUS
  <2>2. 0 .. k - 1 \in SUBSET Nat /\ 0 .. k \in SUBSET Nat
    OBVIOUS
  <2> QED BY <2>1, <2>2 DEF StrictSubsetOrdering
<1> QED BY <1>3, <1>4, <1>5, <1>6

(* f runs through k rounds of a loop.                                      *)
Loop(f, k, first, round) ==
  f[0] = first /\ \A i \in 1 .. k : f[i] = round[<<f[i - 1], i>>]

(* A loop of N rounds can be run.                                          *)
LEMMA LoopRuns ==
    ASSUME NEW N \in Nat, NEW S, NEW first \in S, NEW round \in [S \X (1 .. N) -> S]
    PROVE  \E f \in [0 .. N -> S] : Loop(f, N, first, round)
<1> USE DEF Loop
<1> DEFINE T == {k \in 0 .. N : \E f \in [0 .. k -> S] : Loop(f, k, first, round)}
<1>1. 0 \in T
  <2>1. PICK f : f = [i \in 0 .. 0 |-> first]
    OBVIOUS
  <2>2. f \in [0 .. 0 -> S] /\ Loop(f, 0, first, round)
    BY <2>1
  <2> QED BY <2>2
<1>2. ASSUME NEW k \in 0 .. N, k \in T, k < N PROVE k + 1 \in T
  <2>1. PICK f \in [0 .. k -> S] : Loop(f, k, first, round)
    BY <1>2
  <2>2. PICK x : x = round[<<f[k], k + 1>>]
    OBVIOUS
  <2>3. x \in S
    <3>1. <<f[k], k + 1>> \in S \X (1 .. N)
      BY <1>2, <2>1
    <3> QED BY <2>2, <3>1
  <2>4. PICK g : g = [i \in 0 .. k + 1 |-> IF i <= k THEN f[i] ELSE x]
    OBVIOUS
  <2>5. g \in [0 .. k + 1 -> S]
    BY <2>3, <2>4, <1>2
  <2>6. g[0] = first
    BY <2>1, <2>4, <1>2
  <2>7. ASSUME NEW i \in 1 .. k + 1 PROVE g[i] = round[<<g[i - 1], i>>]
    <3>1. CASE i <= k
      <4>1. g[i] = f[i] /\ g[i - 1] = f[i - 1]
        BY <3>1, <2>4, <1>2
      <4>2. f[i] = round[<<f[i - 1], i>>]
        BY <3>1, <2>1, <1>2
      <4> QED BY <4>1, <4>2
    <3>2. CASE i = k + 1
      <4>1. g[i] = x /\ g[i - 1] = f[k] /\ i = k + 1
        BY <3>2, <2>4, <1>2
      <4> QED BY <4>1, <2>2
    <3> QED BY <3>1, <3>2, <1>2
  <2>8. k + 1 \in 0 .. N
    BY <1>2
  <2>9. Loop(g, k + 1, first, round)
    BY <2>6, <2>7
  <2> QED BY <2>5, <2>8, <2>9
<1> HIDE DEF T
<1>3. \A k \in 0 .. N : k \in T
  BY <1>1, <1>2, UpTo
<1> QED BY <1>3 DEF T

(* The commands of a queue that are alive are commands of the queue, each  *)
(* at most once.                                                           *)
LEMMA AliveOf ==
    ASSUME NEW q \in Seq(Queued)
    PROVE  /\ Alive(q) \in Seq(Queued)
           /\ \E g \in [DOMAIN Alive(q) -> DOMAIN q] :
                 /\ \A i \in DOMAIN Alive(q) : Alive(q)[i] = q[g[i]]
                 /\ \A i, j \in DOMAIN Alive(q) : g[i] = g[j] => i = j
<1> DEFINE Round(s, i) == IF q[i].exp >= now THEN Append(s, q[i]) ELSE s
           Body(f, i) == IF i = 0 THEN <<>> ELSE Round(f[i - 1], i)
           alive == CHOOSE f : f = [i \in 0 .. Len(q) |-> Body(f, i)]
<1>1. Len(q) \in Nat /\ <<>> \in Seq(Queued)
  OBVIOUS
<1>2. PICK round : round = [p \in Seq(Queued) \X (1 .. Len(q)) |->
                             IF q[p[2]].exp >= now THEN Append(p[1], q[p[2]]) ELSE p[1]]
  OBVIOUS
<1>3. round \in [Seq(Queued) \X (1 .. Len(q)) -> Seq(Queued)]
  BY <1>1, <1>2
<1>4. \A s \in Seq(Queued), i \in 1 .. Len(q) : round[<<s, i>>] = Round(s, i)
  BY <1>2
<1>5. PICK f \in [0 .. Len(q) -> Seq(Queued)] :
        f[0] = <<>> /\ \A i \in 1 .. Len(q) : f[i] = round[<<f[i - 1], i>>]
  <2>1. PICK n, S, start : n = Len(q) /\ S = Seq(Queued) /\ start = <<>>
    OBVIOUS
  <2>2. n \in Nat /\ start \in S /\ round \in [S \X (1 .. n) -> S]
    BY <1>1, <1>3, <2>1
  <2>3. \E f \in [0 .. n -> S] : Loop(f, n, start, round)
    BY <2>2, LoopRuns
  <2> QED BY <2>1, <2>3 DEF Loop
<1>6. ASSUME NEW i \in 0 .. Len(q) PROVE f[i] = Body(f, i)
  <2>1. CASE i = 0
    BY <2>1, <1>5
  <2>2. CASE i # 0
    <3>1. i \in 1 .. Len(q) /\ f[i - 1] \in Seq(Queued)
      <4>1. i \in 1 .. Len(q) /\ i - 1 \in 0 .. Len(q)
        BY <2>2, <1>1
      <4>2. \A j \in 0 .. Len(q) : f[j] \in Seq(Queued)
        BY <1>5, Zenon
      <4> QED BY <4>1, <4>2
    <3> HIDE DEF Round
    <3>2. f[i] = Round(f[i - 1], i)
      BY <3>1, <1>4, <1>5
    <3> QED BY <3>2, <2>2
  <2> QED BY <2>1, <2>2
<1>7. f = [i \in 0 .. Len(q) |-> Body(f, i)]
  <2> HIDE DEF Body
  <2> QED BY <1>5, <1>6
<1>8. alive = [i \in 0 .. Len(q) |-> Body(alive, i)]
  BY <1>7
<1>9. Alive(q) = alive[Len(q)]
  BY DEF Alive
<1> DEFINE Sub(k) == /\ alive[k] \in Seq(Queued)
                     /\ \E g \in [1 .. Len(alive[k]) -> 1 .. k] :
                           /\ \A i \in 1 .. Len(alive[k]) : alive[k][i] = q[g[i]]
                           /\ \A i, j \in 1 .. Len(alive[k]) : g[i] = g[j] => i = j
           T == {k \in 0 .. Len(q) : Sub(k)}
<1> HIDE DEF alive, Sub
<1>10. alive[0] = <<>> /\ \A i \in 1 .. Len(q) : alive[i] = Round(alive[i - 1], i)
  <2> HIDE DEF Round
  <2> QED BY <1>1, <1>8
<1>11. 0 \in T
  <2>1. alive[0] \in Seq(Queued) /\ Len(alive[0]) = 0
    BY <1>10
  <2>2. PICK g : g = [i \in 1 .. Len(alive[0]) |-> i]
    OBVIOUS
  <2>3. g \in [1 .. Len(alive[0]) -> 1 .. 0] /\ \A i \in 1 .. Len(alive[0]) : FALSE
    BY <2>1, <2>2
  <2>4. Sub(0)
    BY <2>1, <2>3 DEF Sub
  <2> QED BY <1>1, <2>4
<1>12. ASSUME NEW k \in 0 .. Len(q), k \in T, k < Len(q) PROVE k + 1 \in T
  <2>1. alive[k] \in Seq(Queued)
    BY <1>12 DEF Sub
  <2>2. PICK g \in [1 .. Len(alive[k]) -> 1 .. k] :
          /\ \A i \in 1 .. Len(alive[k]) : alive[k][i] = q[g[i]]
          /\ \A i, j \in 1 .. Len(alive[k]) : g[i] = g[j] => i = j
    BY <1>12 DEF Sub
  <2>3. k + 1 \in 1 .. Len(q) /\ alive[k + 1] = Round(alive[k], k + 1)
    BY <1>10, <1>12
  <2>4. q[k + 1] \in Queued
    BY <2>3
  <2> SUFFICES Sub(k + 1)
    BY <2>3
  <2>5. CASE q[k + 1].exp >= now
    <3>1. alive[k + 1] = Append(alive[k], q[k + 1])
      BY <2>3, <2>5
    <3>2. alive[k + 1] \in Seq(Queued) /\ Len(alive[k + 1]) = Len(alive[k]) + 1
      BY <3>1, <2>1, <2>4
    <3>3. PICK h : h = [i \in 1 .. Len(alive[k + 1]) |-> IF i <= Len(alive[k]) THEN g[i] ELSE k + 1]
      OBVIOUS
    <3>4. h \in [1 .. Len(alive[k + 1]) -> 1 .. k + 1]
      BY <3>3, <3>2, <2>2, <2>1, <1>12
    <3>5. ASSUME NEW i \in 1 .. Len(alive[k + 1]) PROVE alive[k + 1][i] = q[h[i]]
      BY <3>1, <3>2, <3>3, <2>1, <2>2, <2>4
    <3>6. ASSUME NEW i \in 1 .. Len(alive[k + 1]), NEW j \in 1 .. Len(alive[k + 1]), h[i] = h[j] PROVE i = j
      <4>0. Len(alive[k]) \in Nat
        BY <2>1
      <4>1. \A l \in 1 .. Len(alive[k]) : g[l] \in 1 .. k
        BY <2>2, Zenon
      <4>2. \A l \in 1 .. Len(alive[k + 1]) :
              IF l <= Len(alive[k]) THEN l \in 1 .. Len(alive[k]) /\ h[l] = g[l]
              ELSE l = Len(alive[k]) + 1 /\ h[l] = k + 1
        BY <4>0, <3>2, <3>3
      <4>3. k + 1 \notin 1 .. k
        BY <1>12
      <4> QED BY <4>1, <4>2, <4>3, <3>6, <2>2
    <3> QED BY <3>2, <3>4, <3>5, <3>6 DEF Sub
  <2>6. CASE ~(q[k + 1].exp >= now)
    <3>1. alive[k + 1] = alive[k]
      BY <2>3, <2>6
    <3>2. g \in [1 .. Len(alive[k + 1]) -> 1 .. k + 1]
      BY <3>1, <2>2, <1>12
    <3> QED BY <3>1, <3>2, <2>1, <2>2 DEF Sub
  <2> QED BY <2>5, <2>6
<1>13. Sub(Len(q))
  <2> DEFINE N == Len(q)
  <2>1. N \in Nat
    BY <1>1
  <2>2. 0 \in T /\ \A k \in 0 .. N : k \in T /\ k < N => k + 1 \in T
    BY <1>11, <1>12
  <2> HIDE DEF N, T
  <2>3. \A k \in 0 .. N : k \in T
    BY <2>1, <2>2, UpTo
  <2> QED BY <2>1, <2>3 DEF T, N
<1>14. alive[Len(q)] \in Seq(Queued) /\ DOMAIN alive[Len(q)] = 1 .. Len(alive[Len(q)]) /\ DOMAIN q = 1 .. Len(q)
  BY <1>13 DEF Sub
<1> QED BY <1>9, <1>13, <1>14 DEF Sub

-----------------------------------------------------------------------------
(* The channel of a new connection gets live commands of the queue, each   *)
(* at most once, as many as fit.                                           *)
NewBuffer ==
  LET live == FirstOf(Alive(queue), SendBuffer)
  IN  [i \in DOMAIN live |-> live[i].nonce]

LEMMA NewBufferOf ==
    ASSUME queue \in Seq(Queued)
    PROVE  /\ NewBuffer \in Seq(Nonce)
           /\ Len(NewBuffer) =< SendBuffer
           /\ \E g \in [DOMAIN NewBuffer -> DOMAIN queue] :
                 /\ \A i \in DOMAIN NewBuffer : NewBuffer[i] = queue[g[i]].nonce
                 /\ \A i, j \in DOMAIN NewBuffer : g[i] = g[j] => i = j
<1>1. PICK q : q = Alive(queue)
  OBVIOUS
<1>2. q \in Seq(Queued)
  BY <1>1, AliveOf
<1>3. PICK g \in [DOMAIN q -> DOMAIN queue] :
        /\ \A i \in DOMAIN q : q[i] = queue[g[i]]
        /\ \A i, j \in DOMAIN q : g[i] = g[j] => i = j
  BY <1>1, AliveOf
<1>4. PICK k : k = IF Len(q) < SendBuffer THEN Len(q) ELSE SendBuffer
  OBVIOUS
<1>5. k \in 0 .. Len(q) /\ k =< SendBuffer /\ DOMAIN q = 1 .. Len(q)
  BY <1>2, <1>4, HubAssumption DEF HubAssumption
<1>6. PICK live : live = SubSeq(q, 1, k)
  OBVIOUS
<1>7. FirstOf(Alive(queue), SendBuffer) = live
  BY <1>1, <1>4, <1>6 DEF FirstOf
<1>8. DOMAIN live = 1 .. k /\ \A i \in 1 .. k : live[i] = q[i]
  BY <1>2, <1>5, <1>6
<1>9. PICK b : b = NewBuffer
  OBVIOUS
<1>10. b = [i \in 1 .. k |-> live[i].nonce]
  BY <1>7, <1>8, <1>9 DEF NewBuffer
<1>11. \A i \in 1 .. k : i \in DOMAIN q /\ q[i] \in Queued
  BY <1>2, <1>5
<1>12. b = [i \in 1 .. k |-> q[i].nonce]
  BY <1>8, <1>10
<1>13. \A i \in 1 .. k : b[i] \in Nonce
  BY <1>11, <1>12 DEF Queued
<1>14. b \in Seq(Nonce) /\ Len(b) = k /\ DOMAIN b = 1 .. k
  BY <1>5, <1>12, <1>13
<1>15. PICK h : h = [i \in 1 .. k |-> g[i]]
  OBVIOUS
<1>16. h \in [DOMAIN b -> DOMAIN queue]
  BY <1>3, <1>11, <1>14, <1>15
<1>17. \A i \in DOMAIN b : b[i] = queue[h[i]].nonce
  BY <1>3, <1>11, <1>12, <1>14, <1>15
<1>18. \A i, j \in DOMAIN b : h[i] = h[j] => i = j
  BY <1>3, <1>11, <1>14, <1>15
<1> QED BY <1>5, <1>9, <1>14, <1>16, <1>17, <1>18

-----------------------------------------------------------------------------
(* The inductive invariant.                                                *)

ConnectionRight ==
  /\ \A s \in serving \ displaced : conn = s
  /\ conn # None => conn \in serving \ displaced

(* A command that has not been sent is nowhere; one in the queue or in a   *)
(* channel has not been handed out and is there once.                      *)
Undecided == Session \cup {"new"}

Nowhere(n) ==
  /\ handed[n] = 0
  /\ \A i \in DOMAIN queue : queue[i].nonce # n
  /\ \A s \in Session : \A i \in DOMAIN buffer[s] : buffer[s][i] # n

QueueOnce ==
  /\ \A i \in DOMAIN queue : handed[queue[i].nonce] = 0
  /\ \A i, j \in DOMAIN queue : queue[i].nonce = queue[j].nonce => i = j
  /\ \A i \in DOMAIN queue, s \in Session :
       \A j \in DOMAIN buffer[s] : queue[i].nonce # buffer[s][j]

BuffersOnce ==
  /\ \A s \in Session : \A i \in DOMAIN buffer[s] : handed[buffer[s][i]] = 0
  /\ \A s, t \in Session : \A i \in DOMAIN buffer[s], j \in DOMAIN buffer[t] :
       buffer[s][i] = buffer[t][j] => s = t /\ i = j

HandedOnce ==
  /\ \A n \in Nonce : handed[n] =< 1 /\ (pc[n] \in Undecided => Nowhere(n))
  /\ QueueOnce /\ BuffersOnce

(* A dispatch that waits has a waiter, and what the waiter was given the   *)
(* controller has signed.                                                  *)
WaiterRight ==
  \A n \in Nonce :
    /\ n \in pending <=> pc[n] \in Session \cup {"wait", "leave"}
    /\ pc[n] = "new" => recent[n] = -1 /\ rows[n] = <<>>
    /\ answer[n] # None => [nonce |-> n, result |-> answer[n]] \in acks
    /\ outcome[n] = "acked" => answer[n] # None

(* A late row uses up the entry that led to it.                            *)
RowsRight ==
  \A n \in Nonce :
    /\ \A i, j \in LateRows(n) : i = j
    /\ LateRows(n) # {} => recent[n] = -1 /\ pc[n] \in {"record", "done"}
    /\ \A i \in LateRows(n) : \E a \in acks : a.nonce = n /\ rows[n][i] = LateTag(a)

HubInv == HubTypeOK /\ ConnectionRight /\ HandedOnce /\ WaiterRight /\ RowsRight

LEMMA HubInitially == HubInit => HubInv
<1> SUFFICES ASSUME HubInit PROVE HubInv
  OBVIOUS
<1> USE DEF HubInit
<1>1. None \notin Session /\ "new" \notin Session /\ SendBuffer \in Nat
  BY HubAssumption DEF HubAssumption, Steps
<1>2. HubTypeOK
  <2>1. now \in 0 .. MaxTime
    BY HubAssumption DEF HubAssumption
  <2>2. buffer \in [Session -> Seq(Nonce)] /\ \A s \in Session : Len(buffer[s]) =< SendBuffer
    BY <1>1
  <2>3. rows \in [Nonce -> Seq({"undelivered", "ack:denied"} \cup LateTags)]
    OBVIOUS
  <2> QED BY <2>1, <2>2, <2>3 DEF HubTypeOK, Results, Outcomes, Steps
<1>3. ConnectionRight
  BY DEF ConnectionRight
<1>4. HandedOnce
  BY DEF HandedOnce, Nowhere, QueueOnce, BuffersOnce
<1>5. WaiterRight
  <2> SUFFICES ASSUME NEW n \in Nonce
               PROVE  /\ n \in pending <=> pc[n] \in Session \cup {"wait", "leave"}
                      /\ pc[n] = "new" => recent[n] = -1 /\ rows[n] = <<>>
                      /\ answer[n] # None => [nonce |-> n, result |-> answer[n]] \in acks
                      /\ outcome[n] = "acked" => answer[n] # None
    BY DEF WaiterRight
  <2>1. n \notin pending /\ pc[n] = "new" /\ recent[n] = -1 /\ rows[n] = <<>>
    OBVIOUS
  <2>2. answer[n] = None /\ outcome[n] = None
    OBVIOUS
  <2>3. None # "acked" /\ "new" \notin Session \cup {"wait", "leave"}
    BY <1>1 DEF None
  <2> QED BY <2>1, <2>2, <2>3
<1>6. RowsRight
  BY DEF RowsRight, LateRows
<1> QED BY <1>2, <1>3, <1>4, <1>5, <1>6 DEF HubInv

-----------------------------------------------------------------------------
(* What a step of the dispatch, and one of the connections, leaves alone.  *)
LEMMA TypeStep ==
    ASSUME HubInv, [HubNext]_hubVars
    PROVE  HubTypeOK'
<1> USE DEF HubTypeOK
<1>0. HubTypeOK /\ SendBuffer \in Nat /\ TTL \in Nat /\ LateAckWindow \in Nat /\ MaxTime \in Nat
  BY HubAssumption DEF HubInv, HubAssumption
<1>1. CASE Tick
  BY <1>0, <1>1 DEF Tick, connVars, ackVars, deviceVars
<1>2. ASSUME NEW s \in Session, Register(s) PROVE HubTypeOK'
  <2>1. PICK b : b = NewBuffer
    OBVIOUS
  <2>2. b \in Seq(Nonce) /\ Len(b) =< SendBuffer
    BY <1>0, <2>1, NewBufferOf
  <2>3. buffer' = [buffer EXCEPT ![s] = b]
    BY <1>2, <2>1 DEF Register, NewBuffer
  <2>4. buffer' \in [Session -> Seq(Nonce)] /\ \A t \in Session : Len(buffer'[t]) =< SendBuffer
    BY <1>0, <2>2, <2>3
  <2>5. queue' \in Seq(Queued) /\ serving' \subseteq Session /\ conn' \in Session \cup {None}
    BY <1>0, <1>2 DEF Register
  <2>6. displaced' \subseteq Session
    BY <1>0, <1>2 DEF Register
  <2>7. UNCHANGED <<now, pending, answer, recent, pc, outcome, rows, acks, handed>>
    BY <1>2 DEF Register, ackVars, deviceVars
  <2> QED BY <1>0, <2>4, <2>5, <2>6, <2>7
<1>3. ASSUME NEW s \in Session, Unregister(s) PROVE HubTypeOK'
  BY <1>0, <1>3 DEF Unregister, ackVars, deviceVars
<1>4. ASSUME NEW s \in Session, WriteSocket(s) PROVE HubTypeOK'
  <2>1. buffer[s] \in Seq(Nonce) /\ buffer[s] # <<>>
    BY <1>0, <1>4 DEF WriteSocket
  <2>2. Tail(buffer[s]) \in Seq(Nonce) /\ Len(Tail(buffer[s])) =< Len(buffer[s])
    BY <2>1
  <2>3. Len(Tail(buffer[s])) =< SendBuffer
    BY <1>0, <2>1, <2>2
  <2>4. buffer' = [buffer EXCEPT ![s] = Tail(buffer[s])]
    BY <1>4 DEF WriteSocket
  <2>5. buffer' \in [Session -> Seq(Nonce)] /\ \A t \in Session : Len(buffer'[t]) =< SendBuffer
    BY <1>0, <2>2, <2>3, <2>4
  <2>6. handed' \in [Nonce -> Nat]
    BY <1>0, <1>4, <2>1 DEF WriteSocket
  <2>7. UNCHANGED <<now, conn, serving, displaced, queue, pending, answer, recent, pc, outcome, rows, acks>>
    BY <1>4 DEF WriteSocket, ackVars
  <2> QED BY <1>0, <2>5, <2>6, <2>7
<1>5. ASSUME NEW n \in Nonce, DispatchOffline(n) PROVE HubTypeOK'
  <2>1. PICK q : q = Alive(queue)
    OBVIOUS
  <2>2. q \in Seq(Queued)
    BY <1>0, <2>1, AliveOf
  <2>3. [nonce |-> n, exp |-> now + TTL] \in Queued
    BY <1>0 DEF Queued
  <2>4. queue' \in Seq(Queued)
    BY <1>5, <2>1, <2>2, <2>3 DEF DispatchOffline
  <2>5. pc' \in [Nonce -> Steps \cup Session]
    BY <1>0, <1>5 DEF DispatchOffline, Steps
  <2>6. outcome' \in [Nonce -> Outcomes \cup {None}]
    BY <1>0, <1>5 DEF DispatchOffline, Outcomes
  <2>7. UNCHANGED <<now, conn, serving, displaced, buffer, pending, answer, recent, rows, acks, handed>>
    BY <1>5 DEF DispatchOffline, ackVars, deviceVars
  <2> QED BY <1>0, <2>4, <2>5, <2>6, <2>7
<1>6. ASSUME NEW n \in Nonce, DispatchConnected(n) PROVE HubTypeOK'
  <2>1. recent' \in [Nonce -> Int]
    BY <1>0, <1>6 DEF DispatchConnected, Unforgotten
  <2>2. pc' \in [Nonce -> Steps \cup Session] /\ pending' \subseteq Nonce
    BY <1>0, <1>6 DEF DispatchConnected
  <2>3. UNCHANGED <<now, connVars, answer, outcome, rows, acks, handed>>
    BY <1>6 DEF DispatchConnected, deviceVars
  <2> QED BY <1>0, <2>1, <2>2, <2>3 DEF connVars
<1>7. ASSUME NEW n \in Nonce, Send(n) PROVE HubTypeOK'
  <2>1. pc[n] \in Session /\ buffer[pc[n]] \in Seq(Nonce) /\ Len(buffer[pc[n]]) \in Nat
    BY <1>0, <1>7 DEF Send
  <2>2. buffer' \in [Session -> Seq(Nonce)] /\ \A t \in Session : Len(buffer'[t]) =< SendBuffer
    <3>1. CASE UNCHANGED buffer
      BY <1>0, <3>1
    <3>2. CASE buffer' = [buffer EXCEPT ![pc[n]] = Append(@, n)] /\ Len(buffer[pc[n]]) < SendBuffer
      <4>1. PICK b : b = Append(buffer[pc[n]], n)
        OBVIOUS
      <4>2. b \in Seq(Nonce) /\ Len(b) = Len(buffer[pc[n]]) + 1
        BY <2>1, <4>1
      <4>3. Len(b) =< SendBuffer
        BY <1>0, <2>1, <3>2, <4>2
      <4>4. buffer' = [buffer EXCEPT ![pc[n]] = b]
        BY <3>2, <4>1
      <4> QED BY <1>0, <4>2, <4>3, <4>4
    <3> QED BY <1>7, <3>1, <3>2 DEF Send
  <2>3. pc' \in [Nonce -> Steps \cup Session]
    BY <1>0, <1>7 DEF Send, Steps
  <2>4. outcome' \in [Nonce -> Outcomes \cup {None}]
    BY <1>0, <1>7 DEF Send, Outcomes
  <2>5. UNCHANGED <<now, conn, serving, displaced, queue, pending, answer, recent, rows, acks, handed>>
    BY <1>7 DEF Send, ackVars, deviceVars
  <2> QED BY <1>0, <2>2, <2>3, <2>4, <2>5
<1>8. ASSUME NEW n \in Nonce, Answered(n) \/ AckTimeout(n) \/ ForgetWaiter(n) PROVE HubTypeOK'
  <2>1. pc' \in [Nonce -> Steps \cup Session]
    BY <1>0, <1>8 DEF Answered, AckTimeout, ForgetWaiter, Steps
  <2>2. outcome' \in [Nonce -> Outcomes \cup {None}]
    BY <1>0, <1>8 DEF Answered, AckTimeout, ForgetWaiter, Outcomes
  <2>3. pending' \subseteq Nonce
    BY <1>0, <1>8 DEF Answered, AckTimeout, ForgetWaiter, ackVars
  <2>4. UNCHANGED <<now, connVars, answer, recent, rows, acks, handed>>
    BY <1>8 DEF Answered, AckTimeout, ForgetWaiter, ackVars, deviceVars
  <2> QED BY <1>0, <2>1, <2>2, <2>3, <2>4 DEF connVars
<1>9. ASSUME NEW n \in Nonce, RecordOutcome(n) PROVE HubTypeOK'
  <2> DEFINE Rows == {"undelivered", "ack:denied"} \cup LateTags
  <2>1. PICK t : t = Tag(n)
    OBVIOUS
  <2>2. rows' \in [Nonce -> Seq(Rows)]
    <3>1. t \in Seq(Rows)
      <4>1. "undelivered" \in Rows /\ "ack:denied" \in Rows
        OBVIOUS
      <4>2. t = <<"undelivered">> \/ t = <<"ack:denied">> \/ t = <<>>
        BY <2>1 DEF Tag
      <4>3. <<>> \in Seq(Rows) /\ \A x \in Rows : <<x>> \in Seq(Rows)
        <5> HIDE DEF Rows
        <5> QED OBVIOUS
      <4> QED BY <4>1, <4>2, <4>3
    <3> HIDE DEF Rows
    <3>2. rows \in [Nonce -> Seq(Rows)]
      BY <1>0 DEF Rows
    <3>3. rows[n] \o t \in Seq(Rows)
      BY <3>1, <3>2
    <3>4. UNCHANGED rows \/ rows' = [rows EXCEPT ![n] = @ \o t]
      BY <1>9, <2>1 DEF RecordOutcome
    <3> QED BY <3>2, <3>3, <3>4
  <2>3. pc' \in [Nonce -> Steps \cup Session]
    BY <1>0, <1>9 DEF RecordOutcome, Steps
  <2>4. UNCHANGED <<now, connVars, ackVars, outcome, deviceVars>>
    BY <1>9 DEF RecordOutcome
  <2> QED BY <1>0, <2>2, <2>3, <2>4 DEF connVars, ackVars, deviceVars
<1>10. ASSUME NEW n \in Nonce, ControllerAcks(n) PROVE HubTypeOK'
  BY <1>0, <1>10 DEF ControllerAcks, connVars, ackVars, Results
<1>11. ASSUME NEW a \in acks, ResolveAck(a) PROVE HubTypeOK'
  <2>1. a.nonce \in Nonce /\ a.result \in Results
    BY <1>0
  <2>2. answer' \in [Nonce -> Results \cup {None}]
    BY <1>0, <1>11, <2>1 DEF ResolveAck
  <2>3. UNCHANGED <<now, connVars, pending, recent, pc, outcome, rows, deviceVars>>
    BY <1>11 DEF ResolveAck
  <2> QED BY <1>0, <2>2, <2>3 DEF connVars, deviceVars
<1>12. ASSUME NEW a \in acks, LateAck(a) PROVE HubTypeOK'
  <2>1. a.nonce \in Nonce /\ LateTag(a) \in LateTags
    BY <1>0 DEF LateTag, LateTags
  <2>2. rows' \in [Nonce -> Seq({"undelivered", "ack:denied"} \cup LateTags)]
    <3>1. CASE UNCHANGED rows
      BY <1>0, <3>1
    <3>2. CASE rows' = [rows EXCEPT ![a.nonce] = Append(@, LateTag(a))]
      BY <1>0, <2>1, <3>2
    <3> QED BY <1>12, <3>1, <3>2 DEF LateAck
  <2>3. recent' \in [Nonce -> Int]
    BY <1>0, <1>12 DEF LateAck, Unforgotten
  <2>4. UNCHANGED <<now, connVars, pending, answer, pc, outcome, deviceVars>>
    BY <1>12 DEF LateAck
  <2> QED BY <1>0, <2>2, <2>3, <2>4 DEF connVars, deviceVars
<1>13. CASE DrainQueue
  <2>1. handed' \in [Nonce -> Nat]
    BY <1>0, <1>13 DEF DrainQueue
  <2>2. queue' \in Seq(Queued)
    BY <1>13 DEF DrainQueue
  <2>3. UNCHANGED <<now, conn, serving, displaced, buffer, ackVars, pc, outcome, rows, acks>>
    BY <1>13 DEF DrainQueue
  <2> QED BY <1>0, <2>1, <2>2, <2>3 DEF ackVars
<1>14. CASE UNCHANGED hubVars
  BY <1>0, <1>14 DEF hubVars, connVars, ackVars, deviceVars
<1> QED
  BY <1>1, <1>2, <1>3, <1>4, <1>5, <1>6, <1>7, <1>8, <1>9, <1>10, <1>11, <1>12, <1>13, <1>14
     DEF HubNext, DispatchStep

-----------------------------------------------------------------------------
LEMMA ConnectionStep ==
    ASSUME HubInv, [HubNext]_hubVars
    PROVE  ConnectionRight'
<1> USE DEF ConnectionRight
<1>0. ConnectionRight /\ HubTypeOK /\ None \notin Session
  BY HubAssumption DEF HubInv, HubAssumption
<1>1. ASSUME NEW s \in Session, Register(s) PROVE ConnectionRight'
  <2>1. s \notin serving \cup displaced /\ conn' = s /\ serving' = serving \cup {s}
    BY <1>1 DEF Register
  <2>2. displaced' = IF conn = None THEN displaced ELSE displaced \cup {conn}
    BY <1>1 DEF Register
  <2>3. ASSUME NEW t \in serving' \ displaced' PROVE t = s
    BY <1>0, <2>1, <2>2, <2>3 DEF HubTypeOK
  <2>4. s \in serving' \ displaced'
    BY <1>0, <2>1, <2>2
  <2> QED BY <2>1, <2>3, <2>4
<1>2. ASSUME NEW s \in Session, Unregister(s) PROVE ConnectionRight'
  BY <1>0, <1>2 DEF Unregister
<1>3. CASE UNCHANGED <<conn, serving, displaced>>
  BY <1>0, <1>3
<1> QED
  BY <1>1, <1>2, <1>3 DEF HubNext, hubVars, connVars, DispatchStep, Tick, WriteSocket,
     DispatchOffline, DispatchConnected, Send, Answered, AckTimeout, ForgetWaiter, RecordOutcome,
     ControllerAcks, ResolveAck, LateAck, DrainQueue

-----------------------------------------------------------------------------
(* Nothing is in two places.  A step that leaves queue, channels and hands *)
(* alone and makes nobody undecided keeps that.                            *)
Places == <<queue, buffer, handed>>

LEMMA SamePlaces ==
    ASSUME HubInv, UNCHANGED Places,
           \A n \in Nonce : pc'[n] \in Undecided => pc[n] \in Undecided
    PROVE  HandedOnce'
<1>1. HandedOnce
  BY DEF HubInv
<1>2. QueueOnce' /\ BuffersOnce'
  BY <1>1 DEF HandedOnce, QueueOnce, BuffersOnce, Places
<1>3. ASSUME NEW n \in Nonce PROVE handed'[n] =< 1 /\ (pc'[n] \in Undecided => Nowhere(n)')
  BY <1>1 DEF HandedOnce, Nowhere, Places
<1> QED BY <1>2, <1>3 DEF HandedOnce, Undecided

(* A new connection takes over what the queue held.                        *)
LEMMA RegisterHands ==
    ASSUME HubInv, NEW s \in Session, Register(s)
    PROVE  HandedOnce'
<1>0. HandedOnce /\ HubTypeOK
  BY DEF HubInv
<1>1. PICK b : b = NewBuffer
  OBVIOUS
<1>2. PICK g \in [DOMAIN b -> DOMAIN queue] :
        /\ \A i \in DOMAIN b : b[i] = queue[g[i]].nonce
        /\ \A i, j \in DOMAIN b : g[i] = g[j] => i = j
  <2>1. queue \in Seq(Queued)
    BY <1>0 DEF HubTypeOK
  <2>2. \E g \in [DOMAIN NewBuffer -> DOMAIN queue] :
          /\ \A i \in DOMAIN NewBuffer : NewBuffer[i] = queue[g[i]].nonce
          /\ \A i, j \in DOMAIN NewBuffer : g[i] = g[j] => i = j
    BY <2>1, NewBufferOf
  <2> QED BY <1>1, <2>2
<1>3. buffer' = [buffer EXCEPT ![s] = b] /\ buffer'[s] = b
  BY <1>0, <1>1 DEF Register, NewBuffer, HubTypeOK
<1>4. \A t \in Session \ {s} : buffer'[t] = buffer[t]
  BY <1>0, <1>3 DEF HubTypeOK
<1>5. queue' = <<>> /\ DOMAIN queue' = {} /\ handed' = handed /\ pc' = pc
  BY DEF Register, deviceVars
<1>6. ASSUME NEW i \in DOMAIN b
      PROVE  /\ handed[b[i]] = 0
             /\ \A t \in Session : \A j \in DOMAIN buffer[t] : b[i] # buffer[t][j]
             /\ \A n \in Nonce : Nowhere(n) => b[i] # n
  <2>1. g[i] \in DOMAIN queue /\ b[i] = queue[g[i]].nonce
    BY <1>2
  <2> QED BY <2>1, <1>0 DEF HandedOnce, QueueOnce, Nowhere
<1>7. \A i, j \in DOMAIN b : b[i] = b[j] => i = j
  BY <1>0, <1>2 DEF HandedOnce, QueueOnce
<1>8. QueueOnce'
  BY <1>5 DEF QueueOnce
<1>9. BuffersOnce'
  <2>1. ASSUME NEW t \in Session, NEW i \in DOMAIN buffer'[t] PROVE handed'[buffer'[t][i]] = 0
    BY <2>1, <1>0, <1>3, <1>4, <1>5, <1>6 DEF HandedOnce, BuffersOnce
  <2>2. ASSUME NEW t \in Session, NEW u \in Session, NEW i \in DOMAIN buffer'[t], NEW j \in DOMAIN buffer'[u],
               buffer'[t][i] = buffer'[u][j]
        PROVE  t = u /\ i = j
    <3>1. CASE t = s /\ u = s
      BY <3>1, <2>2, <1>3, <1>7
    <3>2. CASE t = s /\ u # s
      BY <3>2, <2>2, <1>3, <1>4, <1>6
    <3>3. CASE t # s /\ u = s
      BY <3>3, <2>2, <1>3, <1>4, <1>6
    <3>4. CASE t # s /\ u # s
      BY <3>4, <2>2, <1>0, <1>4 DEF HandedOnce, BuffersOnce
    <3> QED BY <3>1, <3>2, <3>3, <3>4
  <2> QED BY <2>1, <2>2 DEF BuffersOnce
<1>10. ASSUME NEW n \in Nonce PROVE handed'[n] =< 1 /\ (pc'[n] \in Undecided => Nowhere(n)')
  <2>1. ASSUME Nowhere(n) PROVE Nowhere(n)'
    <3>1. ASSUME NEW t \in Session, NEW i \in DOMAIN buffer'[t] PROVE buffer'[t][i] # n
      BY <3>1, <2>1, <1>3, <1>4, <1>6 DEF Nowhere
    <3> QED BY <3>1, <2>1, <1>5 DEF Nowhere
  <2> QED BY <2>1, <1>0, <1>5 DEF HandedOnce
<1> QED BY <1>8, <1>9, <1>10 DEF HandedOnce, Undecided

(* What the writer takes from a channel is in no other.                    *)
LEMMA WriteHands ==
    ASSUME HubInv, NEW s \in Session, WriteSocket(s)
    PROVE  HandedOnce'
<1>0. HandedOnce /\ HubTypeOK
  BY DEF HubInv
<1>1. PICK b : b = buffer[s]
  OBVIOUS
<1>2. b \in Seq(Nonce) /\ Len(b) \in Nat \ {0} /\ DOMAIN b = 1 .. Len(b) /\ 1 \in DOMAIN b
  BY <1>0, <1>1 DEF WriteSocket, HubTypeOK
<1>3. PICK h : h = b[1]
  OBVIOUS
<1>4. h \in Nonce /\ h = Head(b)
  BY <1>2, <1>3
<1>5. PICK c : c = Tail(b)
  OBVIOUS
<1>6. DOMAIN c = 1 .. Len(b) - 1 /\ \A i \in 1 .. Len(b) - 1 : c[i] = b[i + 1]
  BY <1>2, <1>5
<1>7. buffer'[s] = c /\ \A t \in Session \ {s} : buffer'[t] = buffer[t]
  BY <1>0, <1>1, <1>5 DEF WriteSocket, HubTypeOK
<1>8. handed'[h] = handed[h] + 1 /\ \A n \in Nonce \ {h} : handed'[n] = handed[n]
  BY <1>0, <1>1, <1>4 DEF WriteSocket, HubTypeOK
<1>9. handed[h] = 0 /\ \A i \in DOMAIN queue : queue[i].nonce # h
  BY <1>0, <1>1, <1>2, <1>3 DEF HandedOnce, QueueOnce, BuffersOnce
<1>10. \A t \in Session \ {s} : \A i \in DOMAIN buffer[t] : buffer[t][i] # h
  BY <1>0, <1>1, <1>2, <1>3 DEF HandedOnce, BuffersOnce
<1>11. \A i \in DOMAIN b : i # 1 => b[i] # h
  BY <1>0, <1>1, <1>2, <1>3 DEF HandedOnce, BuffersOnce
<1>12. \A i \in DOMAIN c : i + 1 \in DOMAIN b /\ i + 1 # 1 /\ c[i] = b[i + 1]
  BY <1>2, <1>6
(* Whatever is in a channel now was in it before, and is not h.            *)
<1>13. ASSUME NEW t \in Session, NEW i \in DOMAIN buffer'[t]
       PROVE  /\ buffer'[t][i] # h /\ buffer'[t][i] \in Nonce
              /\ \E k \in DOMAIN buffer[t] : buffer[t][k] = buffer'[t][i] /\ k = IF t = s THEN i + 1 ELSE i
  <2>1. CASE t = s
    BY <2>1, <1>13, <1>1, <1>2, <1>7, <1>11, <1>12
  <2>2. CASE t # s
    <3>1. buffer[t] \in Seq(Nonce)
      BY <1>0 DEF HubTypeOK
    <3> QED BY <2>2, <3>1, <1>13, <1>7, <1>10
  <2> QED BY <2>1, <2>2
<1>14. queue' = queue /\ pc' = pc
  BY DEF WriteSocket
<1>15. QueueOnce'
  <2>1. \A i \in DOMAIN queue : queue[i].nonce \in Nonce
    <3>1. queue \in Seq(Queued)
      BY <1>0 DEF HubTypeOK
    <3>2. \A i \in DOMAIN queue : queue[i] \in Queued
      BY <3>1
    <3> QED BY <3>2 DEF Queued
  <2>2. \A i \in DOMAIN queue : handed'[queue[i].nonce] = 0
    BY <2>1, <1>0, <1>8, <1>9 DEF HandedOnce, QueueOnce
  <2>3. ASSUME NEW i \in DOMAIN queue, NEW t \in Session, NEW j \in DOMAIN buffer'[t]
        PROVE  queue[i].nonce # buffer'[t][j]
    BY <2>3, <1>0, <1>13 DEF HandedOnce, QueueOnce
  <2>4. \A i, j \in DOMAIN queue : queue[i].nonce = queue[j].nonce => i = j
    BY <1>0 DEF HandedOnce, QueueOnce
  <2> QED BY <2>2, <2>3, <2>4, <1>14 DEF QueueOnce
<1>16. BuffersOnce'
  <2>1. ASSUME NEW t \in Session, NEW i \in DOMAIN buffer'[t] PROVE handed'[buffer'[t][i]] = 0
    BY <2>1, <1>0, <1>8, <1>13 DEF HandedOnce, BuffersOnce
  <2>2. ASSUME NEW t \in Session, NEW u \in Session, NEW i \in DOMAIN buffer'[t], NEW j \in DOMAIN buffer'[u],
               buffer'[t][i] = buffer'[u][j]
        PROVE  t = u /\ i = j
    <3>1. PICK k \in DOMAIN buffer[t] : buffer[t][k] = buffer'[t][i] /\ k = IF t = s THEN i + 1 ELSE i
      BY <1>13
    <3>2. PICK l \in DOMAIN buffer[u] : buffer[u][l] = buffer'[u][j] /\ l = IF u = s THEN j + 1 ELSE j
      BY <1>13
    <3>3. t = u /\ k = l
      BY <3>1, <3>2, <2>2, <1>0 DEF HandedOnce, BuffersOnce
    <3>4. t = s => i \in Nat /\ j \in Nat
      BY <3>3, <2>2, <1>2, <1>6, <1>7
    <3> QED BY <3>1, <3>2, <3>3, <3>4
  <2> QED BY <2>1, <2>2 DEF BuffersOnce
<1>17. ASSUME NEW n \in Nonce PROVE handed'[n] =< 1 /\ (pc'[n] \in Undecided => Nowhere(n)')
  <2>1. handed'[n] =< 1
    BY <1>0, <1>8, <1>9 DEF HandedOnce
  <2>2. ASSUME Nowhere(n) PROVE Nowhere(n)'
    <3>1. n # h
      BY <2>2, <1>1, <1>2, <1>3 DEF Nowhere
    <3>2. ASSUME NEW t \in Session, NEW i \in DOMAIN buffer'[t] PROVE buffer'[t][i] # n
      BY <3>2, <2>2, <1>13 DEF Nowhere
    <3> QED BY <3>1, <3>2, <2>2, <1>8, <1>14 DEF Nowhere
  <2> QED BY <2>1, <2>2, <1>0, <1>14 DEF HandedOnce
<1> QED BY <1>15, <1>16, <1>17 DEF HandedOnce, Undecided

(* A command for a device that is offline joins the queue.                 *)
LEMMA OfflineHands ==
    ASSUME HubInv, NEW n \in Nonce, DispatchOffline(n)
    PROVE  HandedOnce'
<1>0. HandedOnce /\ queue \in Seq(Queued) /\ pc \in [Nonce -> Steps \cup Session]
  BY DEF HubInv, HubTypeOK
<1>1. PICK q : q = Alive(queue)
  OBVIOUS
<1>2. q \in Seq(Queued)
  BY <1>0, <1>1, AliveOf
<1>3. PICK g \in [DOMAIN q -> DOMAIN queue] :
        /\ \A i \in DOMAIN q : q[i] = queue[g[i]]
        /\ \A i, j \in DOMAIN q : g[i] = g[j] => i = j
  BY <1>0, <1>1, AliveOf
<1>4. PICK e : e = [nonce |-> n, exp |-> now + TTL]
  OBVIOUS
<1>5. queue' = Append(q, e) /\ e.nonce = n
  BY <1>1, <1>4 DEF DispatchOffline
<1>6. Len(q) \in Nat /\ DOMAIN q = 1 .. Len(q) /\ DOMAIN queue' = 1 .. Len(q) + 1
  BY <1>2, <1>5
<1>7. \A i \in DOMAIN queue' : IF i \in DOMAIN q THEN queue'[i] = q[i] ELSE i = Len(q) + 1 /\ queue'[i] = e
  BY <1>2, <1>5, <1>6
<1>8. ASSUME NEW i \in DOMAIN q
      PROVE  /\ handed[q[i].nonce] = 0
             /\ \A t \in Session : \A j \in DOMAIN buffer[t] : q[i].nonce # buffer[t][j]
             /\ \A m \in Nonce : Nowhere(m) => q[i].nonce # m
  <2>1. g[i] \in DOMAIN queue /\ q[i] = queue[g[i]]
    BY <1>3
  <2> QED BY <2>1, <1>0 DEF HandedOnce, QueueOnce, Nowhere
<1>9. \A i, j \in DOMAIN q : q[i].nonce = q[j].nonce => i = j
  BY <1>0, <1>3 DEF HandedOnce, QueueOnce
<1>10. Nowhere(n)
  BY <1>0 DEF HandedOnce, DispatchOffline, Undecided
<1>11. buffer' = buffer /\ handed' = handed
  BY DEF DispatchOffline, deviceVars
<1>12. \A m \in Nonce : pc'[m] \in Undecided => pc[m] \in Undecided /\ m # n
  BY <1>0, HubAssumption DEF DispatchOffline, Undecided, HubAssumption, Steps
<1>13. QueueOnce'
  <2>1. ASSUME NEW i \in DOMAIN queue'
        PROVE  /\ handed[queue'[i].nonce] = 0
               /\ \A t \in Session : \A j \in DOMAIN buffer[t] : queue'[i].nonce # buffer[t][j]
    BY <1>5, <1>7, <1>8, <1>10 DEF Nowhere
  <2>2. ASSUME NEW i \in DOMAIN queue', NEW j \in DOMAIN queue', queue'[i].nonce = queue'[j].nonce PROVE i = j
    BY <2>2, <1>5, <1>7, <1>8, <1>9, <1>10
  <2> QED BY <2>1, <2>2, <1>11 DEF QueueOnce
<1>14. BuffersOnce'
  BY <1>0, <1>11 DEF HandedOnce, BuffersOnce
<1>15. ASSUME NEW m \in Nonce PROVE handed'[m] =< 1 /\ (pc'[m] \in Undecided => Nowhere(m)')
  <2>1. ASSUME pc'[m] \in Undecided PROVE Nowhere(m)'
    <3>1. Nowhere(m) /\ m # n
      BY <2>1, <1>0, <1>12 DEF HandedOnce
    <3>2. ASSUME NEW i \in DOMAIN queue' PROVE queue'[i].nonce # m
      BY <3>1, <1>5, <1>7, <1>8
    <3> QED BY <3>1, <3>2, <1>11 DEF Nowhere
  <2> QED BY <2>1, <1>0, <1>11 DEF HandedOnce
<1> QED BY <1>13, <1>14, <1>15 DEF HandedOnce, Undecided

(* A command is sent to the channel of one connection.                     *)
LEMMA SendHands ==
    ASSUME HubInv, NEW n \in Nonce, Send(n)
    PROVE  HandedOnce'
<1>0. HandedOnce /\ HubTypeOK
  BY DEF HubInv
<1>1. pc[n] \in Session /\ Nowhere(n)
  BY <1>0 DEF HandedOnce, Undecided, Send
<1>2. queue' = queue /\ handed' = handed
  BY DEF Send, deviceVars
<1>3. \A m \in Nonce : pc'[m] \in Undecided => pc[m] \in Undecided /\ m # n
  BY <1>0, HubAssumption DEF Send, Undecided, HubAssumption, HubTypeOK, Steps
<1>4. CASE UNCHANGED buffer
  BY <1>2, <1>3, <1>4, SamePlaces DEF Places
<1>5. CASE buffer' = [buffer EXCEPT ![pc[n]] = Append(@, n)]
  <2>1. PICK s \in Session : s = pc[n]
    BY <1>1
  <2>2. PICK b : b = buffer[s]
    OBVIOUS
  <2>3. b \in Seq(Nonce) /\ Len(b) \in Nat /\ DOMAIN b = 1 .. Len(b)
    BY <1>0, <2>2 DEF HubTypeOK
  <2>4. PICK c : c = Append(b, n)
    OBVIOUS
  <2>5. DOMAIN c = 1 .. Len(b) + 1 /\ c[Len(b) + 1] = n /\ \A i \in DOMAIN b : c[i] = b[i]
    BY <2>3, <2>4
  <2>6. \A i \in DOMAIN c : IF i \in DOMAIN b THEN c[i] = b[i] ELSE i = Len(b) + 1 /\ c[i] = n
    BY <2>3, <2>5
  <2>7. buffer'[s] = c /\ \A t \in Session \ {s} : buffer'[t] = buffer[t]
    BY <1>0, <1>5, <2>1, <2>2, <2>4 DEF HubTypeOK
  (* What is in a channel now was in it before, or is n, the last of s.    *)
  <2>8. ASSUME NEW t \in Session, NEW i \in DOMAIN buffer'[t]
        PROVE  \/ i \in DOMAIN buffer[t] /\ buffer'[t][i] = buffer[t][i] /\ buffer[t][i] # n
               \/ t = s /\ i = Len(b) + 1 /\ buffer'[t][i] = n
    <3>1. CASE t = s
      BY <3>1, <2>8, <2>2, <2>6, <2>7, <1>1 DEF Nowhere
    <3>2. CASE t # s
      BY <3>2, <2>8, <2>7, <1>1 DEF Nowhere
    <3> QED BY <3>1, <3>2
  <2>9. QueueOnce'
    <3>1. ASSUME NEW i \in DOMAIN queue, NEW t \in Session, NEW j \in DOMAIN buffer'[t]
          PROVE  queue[i].nonce # buffer'[t][j]
      BY <3>1, <2>8, <1>0, <1>1 DEF HandedOnce, QueueOnce, Nowhere
    <3> QED BY <3>1, <1>0, <1>2 DEF HandedOnce, QueueOnce
  <2>10. BuffersOnce'
    <3>1. ASSUME NEW t \in Session, NEW i \in DOMAIN buffer'[t] PROVE handed[buffer'[t][i]] = 0
      BY <3>1, <2>8, <1>0, <1>1 DEF HandedOnce, BuffersOnce, Nowhere
    <3>2. ASSUME NEW t \in Session, NEW u \in Session, NEW i \in DOMAIN buffer'[t], NEW j \in DOMAIN buffer'[u],
                 buffer'[t][i] = buffer'[u][j]
          PROVE  t = u /\ i = j
      BY <3>2, <2>8, <1>0 DEF HandedOnce, BuffersOnce
    <3> QED BY <3>1, <3>2, <1>2 DEF BuffersOnce
  <2>11. ASSUME NEW m \in Nonce PROVE handed'[m] =< 1 /\ (pc'[m] \in Undecided => Nowhere(m)')
    <3>1. ASSUME pc'[m] \in Undecided PROVE Nowhere(m)'
      <4>1. Nowhere(m) /\ m # n
        BY <3>1, <1>0, <1>3 DEF HandedOnce
      <4>2. ASSUME NEW t \in Session, NEW i \in DOMAIN buffer'[t] PROVE buffer'[t][i] # m
        BY <4>1, <4>2, <2>8 DEF Nowhere
      <4> QED BY <4>1, <4>2, <1>2 DEF Nowhere
    <3> QED BY <3>1, <1>0, <1>2 DEF HandedOnce
  <2> QED BY <2>9, <2>10, <2>11 DEF HandedOnce, Undecided
<1> QED BY <1>4, <1>5 DEF Send

(* A poll hands out what the queue held, and nothing else.                 *)
LEMMA DrainHands ==
    ASSUME HubInv, DrainQueue
    PROVE  HandedOnce'
<1>0. HandedOnce /\ HubTypeOK /\ queue \in Seq(Queued) /\ handed \in [Nonce -> Nat]
  BY DEF HubInv, HubTypeOK
<1>1. PICK q : q = Alive(queue)
  OBVIOUS
<1>2. PICK g \in [DOMAIN q -> DOMAIN queue] : \A i \in DOMAIN q : q[i] = queue[g[i]]
  BY <1>0, <1>1, AliveOf
<1>3. PICK out : out = {q[i].nonce : i \in DOMAIN q}
  OBVIOUS
<1>4. handed' = [n \in Nonce |-> IF n \in out THEN handed[n] + 1 ELSE handed[n]]
  BY <1>1, <1>3 DEF DrainQueue
<1>5. queue' = <<>> /\ DOMAIN queue' = {} /\ buffer' = buffer /\ pc' = pc
  BY DEF DrainQueue
<1>6. ASSUME NEW n \in out
      PROVE  /\ handed[n] = 0
             /\ ~Nowhere(n)
             /\ \A t \in Session : \A j \in DOMAIN buffer[t] : n # buffer[t][j]
  <2>1. PICK i \in DOMAIN q : n = q[i].nonce
    BY <1>3
  <2>2. g[i] \in DOMAIN queue /\ n = queue[g[i]].nonce
    BY <1>2, <2>1
  <2> QED BY <2>2, <1>0 DEF HandedOnce, QueueOnce, Nowhere
<1>7. QueueOnce'
  BY <1>5 DEF QueueOnce
<1>8. BuffersOnce'
  <2>1. ASSUME NEW t \in Session, NEW i \in DOMAIN buffer[t] PROVE handed'[buffer[t][i]] = 0
    <3>1. buffer[t] \in Seq(Nonce)
      BY <1>0 DEF HubTypeOK
    <3>2. buffer[t][i] \in Nonce \ out
      BY <3>1, <2>1, <1>6
    <3> QED BY <3>2, <2>1, <1>0, <1>4 DEF HandedOnce, BuffersOnce
  <2> QED BY <2>1, <1>0, <1>5 DEF HandedOnce, BuffersOnce
<1>9. ASSUME NEW n \in Nonce PROVE handed'[n] =< 1 /\ (pc'[n] \in Undecided => Nowhere(n)')
  <2>1. handed'[n] =< 1
    BY <1>0, <1>4, <1>6 DEF HandedOnce
  <2>2. ASSUME Nowhere(n) PROVE Nowhere(n)'
    BY <2>2, <1>4, <1>5, <1>6 DEF Nowhere
  <2> QED BY <2>1, <2>2, <1>0, <1>5 DEF HandedOnce
<1> QED BY <1>7, <1>8, <1>9 DEF HandedOnce, Undecided

LEMMA HandedStep ==
    ASSUME HubInv, [HubNext]_hubVars
    PROVE  HandedOnce'
<1>0. HubTypeOK /\ HandedOnce
  BY DEF HubInv
<1>1. CASE DrainQueue
  BY <1>1, DrainHands
<1>2. CASE \E s \in Session : Register(s) \/ WriteSocket(s)
  BY <1>2, RegisterHands, WriteHands
<1>3. CASE \E n \in Nonce : DispatchOffline(n) \/ Send(n)
  BY <1>3, OfflineHands, SendHands
<1>4. CASE UNCHANGED Places /\ UNCHANGED pc
  BY <1>4, SamePlaces
<1>5. ASSUME NEW n \in Nonce, DispatchConnected(n) \/ Answered(n) \/ AckTimeout(n) \/ ForgetWaiter(n) \/ RecordOutcome(n)
      PROVE  HandedOnce'
  <2>1. UNCHANGED Places
    BY <1>5 DEF Places, DispatchConnected, Answered, AckTimeout, ForgetWaiter, RecordOutcome, connVars,
       deviceVars
  <2>2. ASSUME NEW m \in Nonce, pc'[m] \in Undecided PROVE pc[m] \in Undecided
    <3>1. m # n => pc'[m] = pc[m]
      BY <1>0, <1>5 DEF DispatchConnected, Answered, AckTimeout, ForgetWaiter, RecordOutcome, HubTypeOK
    <3>2. m = n => pc[m] = "new" \/ pc'[m] \in Steps \ {"new"}
      BY <1>0, <1>5 DEF DispatchConnected, Answered, AckTimeout, ForgetWaiter, RecordOutcome, HubTypeOK, Steps
    <3>3. Session \cap Steps = {}
      BY HubAssumption DEF HubAssumption
    <3> QED BY <2>2, <3>1, <3>2, <3>3 DEF Undecided
  <2> QED BY <2>1, <2>2, SamePlaces
<1>6. ASSUME \/ Tick \/ UNCHANGED hubVars
             \/ \E s \in Session : Unregister(s)
             \/ \E n \in Nonce : ControllerAcks(n)
             \/ \E a \in acks : ResolveAck(a) \/ LateAck(a)
      PROVE  UNCHANGED Places /\ UNCHANGED pc
  BY <1>6 DEF Tick, hubVars, Unregister, ControllerAcks, ResolveAck, LateAck, Places, connVars, deviceVars
<1> QED BY <1>1, <1>2, <1>3, <1>4, <1>5, <1>6 DEF HubNext, DispatchStep

-----------------------------------------------------------------------------
(* Waiters and rows.                                                       *)
LEMMA WaiterStep ==
    ASSUME HubInv, [HubNext]_hubVars
    PROVE  WaiterRight'
<1>0. HubTypeOK /\ WaiterRight /\ Session \cap ({None} \cup Steps) = {} /\ None = "none"
  BY HubAssumption DEF HubInv, HubAssumption, None
<1> DEFINE Right(n) == /\ n \in pending <=> pc[n] \in Session \cup {"wait", "leave"}
                       /\ pc[n] = "new" => recent[n] = -1 /\ rows[n] = <<>>
                       /\ answer[n] # None => [nonce |-> n, result |-> answer[n]] \in acks
                       /\ outcome[n] = "acked" => answer[n] # None
<1> SUFFICES ASSUME NEW n \in Nonce PROVE Right(n)'
  BY DEF WaiterRight
<1>a. Right(n)
  BY <1>0 DEF WaiterRight
<1>1. CASE UNCHANGED <<pending, pc, recent, rows, answer, acks, outcome>>
  BY <1>a, <1>1
<1>2. ASSUME NEW m \in Nonce, DispatchOffline(m) PROVE Right(n)'
  <2>1. UNCHANGED <<pending, recent, rows, answer, acks>>
    BY <1>2 DEF DispatchOffline, ackVars, deviceVars
  <2>2. m # n => pc'[n] = pc[n] /\ outcome'[n] = outcome[n]
    BY <1>0, <1>2 DEF DispatchOffline, HubTypeOK
  <2>3. m = n => pc[n] = "new" /\ pc'[n] = "done" /\ outcome'[n] = "queued"
    BY <1>0, <1>2 DEF DispatchOffline, HubTypeOK
  <2>4. "new" \notin Session /\ "done" \notin Session
    BY <1>0 DEF Steps
  <2> QED BY <1>a, <2>1, <2>2, <2>3, <2>4
<1>3. ASSUME NEW m \in Nonce, DispatchConnected(m) PROVE Right(n)'
  <2>1. UNCHANGED <<rows, answer, acks, outcome>> /\ pending' = pending \cup {m}
    BY <1>3 DEF DispatchConnected, deviceVars
  <2>2. m # n => pc'[n] = pc[n] /\ (recent[n] = -1 => recent'[n] = -1)
    BY <1>0, <1>3 DEF DispatchConnected, HubTypeOK, Unforgotten
  <2>3. m = n => pc'[n] \in Session /\ pc'[n] # "new"
    BY <1>0, <1>3 DEF DispatchConnected, HubTypeOK, Steps
  <2> QED BY <1>a, <2>1, <2>2, <2>3
<1>4. ASSUME NEW m \in Nonce, Send(m) \/ Answered(m) \/ AckTimeout(m) PROVE Right(n)'
  <2>1. UNCHANGED <<pending, recent, rows, answer, acks>>
    BY <1>4 DEF Send, Answered, AckTimeout, ackVars, deviceVars
  <2>2. m # n => pc'[n] = pc[n] /\ outcome'[n] = outcome[n]
    BY <1>0, <1>4 DEF Send, Answered, AckTimeout, HubTypeOK
  <2>3. m = n => /\ pc[n] \in Session \cup {"wait"}
                 /\ pc'[n] \in {"wait", "leave"}
                 /\ outcome'[n] = "acked" => outcome[n] = "acked" \/ answer[n] # None
    BY <1>0, <1>4 DEF Send, Answered, AckTimeout, HubTypeOK
  <2> QED BY <1>a, <2>1, <2>2, <2>3
<1>5. ASSUME NEW m \in Nonce, ForgetWaiter(m) PROVE Right(n)'
  <2>1. UNCHANGED <<recent, rows, answer, acks, outcome>> /\ pending' = pending \ {m}
    BY <1>5 DEF ForgetWaiter, deviceVars
  <2>2. pc'[n] = IF m = n THEN "record" ELSE pc[n]
    BY <1>0, <1>5 DEF ForgetWaiter, HubTypeOK
  <2>3. "record" \notin Session
    BY <1>0 DEF Steps
  <2> QED BY <1>a, <2>1, <2>2, <2>3
<1>6. ASSUME NEW m \in Nonce, RecordOutcome(m) PROVE Right(n)'
  <2>1. UNCHANGED <<pending, recent, answer, acks, outcome>>
    BY <1>6 DEF RecordOutcome, ackVars, deviceVars
  <2>2. m # n => pc'[n] = pc[n] /\ rows'[n] = rows[n]
    BY <1>0, <1>6 DEF RecordOutcome, HubTypeOK
  <2>3. m = n => pc[n] = "record" /\ pc'[n] = "done"
    BY <1>0, <1>6 DEF RecordOutcome, HubTypeOK
  <2>4. "record" \notin Session /\ "done" \notin Session
    BY <1>0 DEF Steps
  <2> QED BY <1>a, <2>1, <2>2, <2>3, <2>4
<1>7. ASSUME NEW m \in Nonce, ControllerAcks(m) PROVE Right(n)'
  <2>1. UNCHANGED <<pending, pc, recent, rows, answer, outcome>> /\ acks \subseteq acks'
    BY <1>7 DEF ControllerAcks, ackVars
  <2> QED BY <1>a, <2>1
<1>8. ASSUME NEW a \in acks, ResolveAck(a) PROVE Right(n)'
  <2>1. UNCHANGED <<pending, pc, recent, rows, acks, outcome>>
    BY <1>8 DEF ResolveAck, deviceVars
  <2>2. a \in [nonce : Nonce, result : Results]
    BY <1>0 DEF HubTypeOK
  <2>3. a = [nonce |-> a.nonce, result |-> a.result] /\ a.result # None
    BY <1>0, <2>2 DEF Results
  <2>4. answer'[n] = IF a.nonce = n /\ answer[n] = None THEN a.result ELSE answer[n]
    BY <1>0, <1>8, <2>2 DEF ResolveAck, HubTypeOK
  <2> QED BY <1>a, <2>1, <2>3, <2>4
<1>9. ASSUME NEW a \in acks, LateAck(a) PROVE Right(n)'
  <2>1. UNCHANGED <<pending, pc, answer, acks, outcome>>
    BY <1>9 DEF LateAck, deviceVars
  <2>2. recent[n] = -1 => recent'[n] = -1
    BY <1>0, <1>9 DEF LateAck, HubTypeOK, Unforgotten
  <2>3. recent[n] = -1 => rows'[n] = rows[n]
    <3>1. CASE UNCHANGED rows
      BY <3>1
    <3>2. CASE Unforgotten[a.nonce] # -1 /\ rows' = [rows EXCEPT ![a.nonce] = Append(@, LateTag(a))]
      <4>1. a.nonce \in Nonce
        BY <1>0 DEF HubTypeOK
      <4>2. recent[a.nonce] # -1
        BY <1>0, <3>2, <4>1 DEF Unforgotten, HubTypeOK
      <4> QED BY <1>0, <3>2, <4>2 DEF HubTypeOK
    <3> QED BY <1>9, <3>1, <3>2 DEF LateAck
  <2> QED BY <1>a, <2>1, <2>2, <2>3
<1>10. ASSUME \/ Tick \/ DrainQueue \/ UNCHANGED hubVars
              \/ \E s \in Session : Register(s) \/ Unregister(s) \/ WriteSocket(s)
       PROVE  UNCHANGED <<pending, pc, recent, rows, answer, acks, outcome>>
  BY <1>10 DEF Tick, DrainQueue, Register, Unregister, WriteSocket, hubVars, ackVars, deviceVars
<1> HIDE DEF Right
<1> QED
  BY <1>1, <1>2, <1>3, <1>4, <1>5, <1>6, <1>7, <1>8, <1>9, <1>10 DEF HubNext, DispatchStep

LEMMA RowsStep ==
    ASSUME HubInv, [HubNext]_hubVars
    PROVE  RowsRight'
<1>0. HubTypeOK /\ WaiterRight /\ RowsRight /\ Session \cap ({None} \cup Steps) = {}
  BY HubAssumption DEF HubInv, HubAssumption
<1> DEFINE Ends == {"record", "done"}
           Rows == {"undelivered", "ack:denied"} \cup LateTags
           Right(n) == /\ \A i, j \in LateRows(n) : i = j
                       /\ LateRows(n) # {} => recent[n] = -1 /\ pc[n] \in Ends
                       /\ \A i \in LateRows(n) : \E a \in acks : a.nonce = n /\ rows[n][i] = LateTag(a)
<1> SUFFICES ASSUME NEW n \in Nonce PROVE Right(n)'
  BY DEF RowsRight
<1>a. Right(n)
  BY <1>0 DEF RowsRight
<1>b. rows[n] \in Seq(Rows) /\ Len(rows[n]) \in Nat /\ DOMAIN rows[n] = 1 .. Len(rows[n])
  <2>1. rows[n] \in Seq(Rows)
    BY <1>0 DEF HubTypeOK
  <2> HIDE DEF Rows
  <2> QED BY <2>1
(* A step that adds no row but possibly an ack.                            *)
<1>1. ASSUME rows'[n] = rows[n], acks \subseteq acks', recent[n] = -1 => recent'[n] = -1,
             pc[n] \in Ends => pc'[n] \in Ends
      PROVE  Right(n)'
  <2>1. LateRows(n)' = LateRows(n)
    BY <1>1 DEF LateRows
  <2> QED BY <1>a, <1>1, <2>1
<1>2. ASSUME NEW m \in Nonce, RecordOutcome(m) PROVE Right(n)'
  <2>1. UNCHANGED <<acks, recent>> /\ (pc[n] \in Ends => pc'[n] \in Ends)
    BY <1>0, <1>2 DEF RecordOutcome, HubTypeOK, ackVars, deviceVars
  <2>2. CASE rows'[n] = rows[n]
    BY <1>1, <2>1, <2>2
  <2>3. CASE rows'[n] = rows[n] \o Tag(n)
    <3>1. CASE Tag(n) = <<>>
      BY <3>1, <2>1, <2>3, <1>1, <1>b
    <3>2. ASSUME NEW t \in {"undelivered", "ack:denied"}, Tag(n) = <<t>> PROVE Right(n)'
      <4>1. DOMAIN rows'[n] = 1 .. Len(rows[n]) + 1
        BY <3>2, <2>3, <1>b
      <4>2. rows'[n][Len(rows[n]) + 1] = t /\ \A i \in DOMAIN rows[n] : rows'[n][i] = rows[n][i]
        BY <3>2, <2>3, <1>b
      <4>3. t \notin LateTags
        BY DEF LateTags
      <4>4. LateRows(n)' = LateRows(n)
        BY <4>1, <4>2, <4>3, <1>b DEF LateRows
      <4>5. \A i \in LateRows(n) : rows'[n][i] = rows[n][i]
        BY <4>2 DEF LateRows
      <4> QED BY <4>4, <4>5, <1>a, <2>1
    <3> QED BY <3>1, <3>2 DEF Tag
  <2> QED BY <1>0, <1>2, <2>2, <2>3 DEF RecordOutcome, HubTypeOK
<1>3. ASSUME NEW a \in acks, LateAck(a) PROVE Right(n)'
  <2>1. acks' = acks /\ pc' = pc /\ (recent[n] = -1 => recent'[n] = -1)
    BY <1>0, <1>3 DEF LateAck, HubTypeOK, Unforgotten, deviceVars
  <2>2. CASE rows'[n] = rows[n]
    BY <1>1, <2>1, <2>2
  <2>3. CASE a.nonce = n /\ Unforgotten[n] # -1 /\ rows'[n] = Append(rows[n], LateTag(a))
    <3>1. recent[n] # -1 /\ LateRows(n) = {}
      BY <2>3, <1>0, <1>a DEF HubTypeOK, Unforgotten
    <3>2. recent'[n] = -1
      BY <2>3, <1>0, <1>3 DEF LateAck, HubTypeOK, Unforgotten
    <3>3. n \notin pending /\ pc[n] \in Steps \cup Session
      BY <2>3, <1>0, <1>3 DEF LateAck, HubTypeOK
    <3>4. pc[n] \in Ends
      BY <3>1, <3>3, <1>0 DEF WaiterRight, Steps
    <3>5. DOMAIN rows'[n] = 1 .. Len(rows[n]) + 1
      BY <2>3, <1>b
    <3>6. rows'[n][Len(rows[n]) + 1] = LateTag(a) /\ \A i \in DOMAIN rows[n] : rows'[n][i] = rows[n][i]
      BY <2>3, <1>b
    <3>7. LateRows(n)' \subseteq {Len(rows[n]) + 1}
      BY <3>1, <3>5, <3>6, <1>b DEF LateRows
    <3> QED BY <3>2, <3>4, <3>6, <3>7, <2>1, <2>3
  <2>4. a.nonce \in Nonce
    BY <1>0 DEF HubTypeOK
  <2> QED BY <1>0, <1>3, <2>2, <2>3, <2>4 DEF LateAck, HubTypeOK
<1>4. ASSUME NEW m \in Nonce, DispatchOffline(m) \/ DispatchConnected(m) \/ Send(m) \/ Answered(m) \/ AckTimeout(m) \/ ForgetWaiter(m)
      PROVE  Right(n)'
  <2>1. UNCHANGED <<rows, acks>>
    BY <1>4 DEF DispatchOffline, DispatchConnected, Send, Answered, AckTimeout, ForgetWaiter, deviceVars
  <2>2. pc[n] \in Ends => pc'[n] = pc[n]
    BY <1>0, <1>4 DEF DispatchOffline, DispatchConnected, Send, Answered, AckTimeout, ForgetWaiter,
       HubTypeOK, Steps
  <2>3. CASE m # n \/ ~DispatchConnected(m)
    <3>1. recent[n] = -1 => recent'[n] = -1
      BY <2>3, <1>0, <1>4 DEF DispatchOffline, DispatchConnected, Send, Answered, AckTimeout, ForgetWaiter,
         ackVars, HubTypeOK, Unforgotten
    <3> QED BY <1>1, <2>1, <2>2, <3>1
  <2>4. CASE DispatchConnected(n)
    <3>1. rows[n] = <<>>
      BY <2>4, <1>0 DEF WaiterRight, DispatchConnected
    <3>2. LateRows(n)' = {}
      BY <3>1, <2>1 DEF LateRows
    <3> QED BY <3>2
  <2> QED BY <1>4, <2>3, <2>4
<1>5. ASSUME NEW m \in Nonce, ControllerAcks(m) PROVE Right(n)'
  BY <1>1, <1>5 DEF ControllerAcks, ackVars
<1>6. ASSUME \/ Tick \/ DrainQueue \/ UNCHANGED hubVars
             \/ \E s \in Session : Register(s) \/ Unregister(s) \/ WriteSocket(s)
             \/ \E a \in acks : ResolveAck(a)
      PROVE  Right(n)'
  <2>1. UNCHANGED <<rows, acks, recent, pc>>
    BY <1>6 DEF Tick, DrainQueue, Register, Unregister, WriteSocket, ResolveAck, hubVars, ackVars, deviceVars
  <2> QED BY <1>1, <2>1
<1> HIDE DEF Right
<1> QED BY <1>2, <1>3, <1>4, <1>5, <1>6 DEF HubNext, DispatchStep

-----------------------------------------------------------------------------
(* Every step keeps the invariant of the hub.                              *)
THEOREM HubInvariance == HubSpec => []HubInv
<1>1. HubInit => HubInv
  BY HubInitially
<1>2. HubInv /\ [HubNext]_hubVars => HubInv'
  BY TypeStep, ConnectionStep, HandedStep, WaiterStep, RowsStep DEF HubInv
<1> QED BY <1>1, <1>2, PTL DEF HubSpec

(* The registered connection is the one that is served and not displaced   *)
(* (Hub.Register, unregister).                                             *)
THEOREM OneConnectionIsLive == HubSpec => []OneLiveConnection
<1>1. HubInv => OneLiveConnection
  BY DEF HubInv, ConnectionRight, OneLiveConnection
<1> QED BY <1>1, HubInvariance, PTL

(* An envelope is handed to a transport once, and a late ack makes one row *)
(* (Hub.Dispatch, Hub.DrainQueue, Hub.LateAckReconcile).                   *)
THEOREM LateAcksReconcileOnce == HubSpec => []ReconciledOnce
<1>1. HubInv => ReconciledOnce
  BY DEF HubInv, HandedOnce, RowsRight, ReconciledOnce
<1> QED BY <1>1, HubInvariance, PTL

(* What is reported as acked, or recorded as late, the controller signed   *)
(* (Hub.ResolveAck, handleLateAck).                                        *)
THEOREM SuccessIsSigned == HubSpec => []AckedIsAnswered
<1>1. HubInv => AckedIsAnswered
  BY DEF HubInv, WaiterRight, RowsRight, AckedIsAnswered
<1> QED BY <1>1, HubInvariance, PTL
=============================================================================
