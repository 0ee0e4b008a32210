-------------------------- MODULE Controller_proofs --------------------------
(***************************************************************************)
(* Proofs about the command processor and about the agent that runs it     *)
(* beside the offline exchange, for every value of their constants.  The   *)
(* theorems about Spec are the processor's; those about AgentSpec follow   *)
(* the same invariants through the steps of both.                          *)
(***************************************************************************)
EXTENDS Controller, TLAPS

-----------------------------------------------------------------------------
(* Type correctness.                                                       *)

LEMMA InitTypeOK == Init => TypeOK
<1> SUFFICES ASSUME Init PROVE TypeOK OBVIOUS
<1>1. RelayTypeOK BY DEF Init, ControllerInit, RelayInit, RelayTypeOK
<1>2. ControllerTypeOK
  <2>1. synced \in BOOLEAN /\ lockdown \in BOOLEAN
    BY DEF Init, ControllerInit
  <2>2. gatewayTime \in 1..MaxTime + 1 /\ clock \in Nat /\ lastSync \in Nat
        /\ saving = {} /\ syncFile \in Nat
    BY StateAssumption DEF StateAssumption, Init, ControllerInit, WallClock
  <2>3. QED BY <1>1, <2>1, <2>2 DEF Init, ControllerInit, ControllerTypeOK
<1>3. QED BY <1>2 DEF Init, TypeOK

LEMMA TamperedEnvelope == \A e \in Envelope : [e EXCEPT !.key = Forged] \in Envelope
  BY DEF Envelope

(* What a gateway step leaves well-typed.                                  *)
LEMMA SignTypeOK == ASSUME TypeOK, SignCommand \/ Tamper PROVE TypeOK'
<1>1. CASE SignCommand
  <2>1. sent' \subseteq Envelope
    BY <1>1, CommandAssumption DEF CommandAssumption, SignCommand, TypeOK, ControllerTypeOK, Envelope
  <2>2. QED BY <1>1, <2>1 DEF SignCommand, TypeOK, ControllerTypeOK, RelayTypeOK,
       controllerVars, clockVars, durableVars, relayVars, storeVars, timerVars, outVars, onceVars
<1>2. CASE Tamper
  <2>1. sent' \subseteq Envelope
    BY <1>2, TamperedEnvelope DEF Tamper, TypeOK
  <2>2. QED BY <1>2, <2>1 DEF Tamper, TypeOK, ControllerTypeOK, RelayTypeOK,
       controllerVars, clockVars, durableVars, relayVars, storeVars, timerVars, outVars, onceVars
<1>3. QED BY <1>1, <1>2

LEMMA RecordTypeOK ==
  ASSUME TypeOK, NEW e \in Envelope,
         NEW result \in Result, NEW kinds \in SUBSET EventKind,
         AckAndRecord(e.nonce, result, kinds)
  PROVE  /\ acks' \subseteq Ack
         /\ events' \subseteq Event
<1>1. e.nonce \in Nonce
  BY DEF Envelope
<1>2. QED BY <1>1 DEF AckAndRecord, TypeOK, Ack, Event

LEMMA DenyTypeOK ==
  ASSUME TypeOK, NEW e \in sent, Deny(e),
         nonces' \subseteq Remembered, nonceFile' \subseteq Remembered, prunedAt' \in Nat
  PROVE  TypeOK'
<1>1. e \in Envelope
  BY DEF TypeOK
<1>2. AckAndRecord(e.nonce, "denied", {"denied"})
  BY DEF Deny
<1>3. /\ acks' \subseteq Ack
      /\ events' \subseteq Event
  BY <1>1, <1>2, RecordTypeOK DEF Result, EventKind
<1>4. QED
  BY <1>3 DEF Deny, TypeOK, ControllerTypeOK, RelayTypeOK, controllerVars, clockVars,
     durableVars, relayVars, timerVars, onceVars

LEMMA VerifyTypeOK ==
  ASSUME TypeOK, NEW e \in sent, RejectCommand(e) \/ MarkFails(e) \/ AcceptCommand(e)
  PROVE  TypeOK'
<1>1. CASE RejectCommand(e)
  <2>1. nonces' \subseteq Remembered /\ nonceFile' \subseteq Remembered /\ prunedAt' \in Nat
    BY <1>1 DEF RejectCommand, storeVars, TypeOK
  <2>2. QED BY <1>1, <2>1, DenyTypeOK DEF RejectCommand
<1>2. CASE MarkFails(e)
  <2>1. nonces' \subseteq Remembered /\ nonceFile' \subseteq Remembered /\ prunedAt' \in Nat
    BY <1>2 DEF MarkFails, Live, TypeOK, ControllerTypeOK
  <2>2. QED BY <1>2, <2>1, DenyTypeOK DEF MarkFails
<1>3. CASE AcceptCommand(e)
  <2>1. e \in Envelope
    BY DEF TypeOK
  <2>2. Horizon(e) \in Remembered
    BY <2>1, StateAssumption DEF StateAssumption, Envelope, Horizon, Remembered
  <2>3. nonces' \subseteq Remembered /\ nonceFile' \subseteq Remembered /\ prunedAt' \in Nat
    BY <1>3, <2>2 DEF AcceptCommand, Live, TypeOK, ControllerTypeOK
  <2>4. job' \subseteq Envelope
    BY <1>3, <2>1 DEF AcceptCommand
  <2>5. QED
    BY <1>3, <2>3, <2>4 DEF AcceptCommand, TypeOK, ControllerTypeOK, RelayTypeOK,
       controllerVars, clockVars, durableVars, relayVars, timerVars, outVars, onceVars
<1>4. QED BY <1>1, <1>2, <1>3

(* What every way of ending a command's execution keeps well-typed.        *)
LEMMA FinishTypeOK ==
  ASSUME TypeOK, NEW e \in job \cup finishing,
         NEW result \in Result, NEW kinds \in SUBSET EventKind,
         Finish(e, result, kinds)
  PROVE  /\ job' \subseteq Envelope /\ finishing' \subseteq Envelope
         /\ acks' \subseteq Ack
         /\ events' \subseteq Event
<1>1. e \in Envelope
  BY DEF TypeOK
<1>2. QED BY <1>1, RecordTypeOK DEF Finish, TypeOK

LEMMA CarriedOutTypeOK ==
  ASSUME TypeOK, NEW e \in job \cup finishing, CarriedOut(e)
  PROVE  executed' \subseteq Nonce /\ repeated' \subseteq Nonce
<1>1. e.nonce \in Nonce
  BY DEF TypeOK, Envelope
<1>2. QED BY <1>1 DEF CarriedOut, TypeOK

LEMMA FailTypeOK ==
  ASSUME TypeOK, NEW e \in job, Fail(e),
         holdTimer' \in Nonce \cup {NoNonce}, firing' \subseteq Nonce
  PROVE  TypeOK'
<1>1. Finish(e, "error", {"denied"})
  BY DEF Fail
<1>2. /\ job' \subseteq Envelope /\ finishing' \subseteq Envelope
      /\ acks' \subseteq Ack
      /\ events' \subseteq Event
  BY <1>1, FinishTypeOK DEF Result, EventKind
<1>3. QED
  BY <1>2 DEF Fail, TypeOK, ControllerTypeOK, RelayTypeOK, clockVars, durableVars,
     relayVars, storeVars, onceVars

LEMMA RelayCallTypeOK ==
  ASSUME RelayTypeOK,
         \/ Pulse \/ Hold \/ Release \/ RelayRestart
         \/ \E i \in PulseId : PulseTimerFires(i)
  PROVE  RelayTypeOK'
  BY DEF RelayTypeOK, Pulse, Hold, Release, RelayRestart, PulseTimerFires

LEMMA ExecuteTypeOK == ASSUME TypeOK, NEW e \in job \cup finishing, Execute(e) PROVE TypeOK'
<1> USE DEF TypeOK, ControllerTypeOK, clockVars, durableVars, storeVars, timerVars, outVars, onceVars
<1>t. e \in Envelope /\ e.nonce \in Nonce /\ e.iat \in Nat /\ e.nextKey \in Key
  BY DEF Envelope
<1>f. \A result \in Result, kinds \in SUBSET EventKind :
        Finish(e, result, kinds) =>
          /\ job' \subseteq Envelope /\ finishing' \subseteq Envelope
          /\ acks' \subseteq Ack /\ events' \subseteq Event
  BY FinishTypeOK
<1>c. CarriedOut(e) => executed' \subseteq Nonce /\ repeated' \subseteq Nonce
  BY CarriedOutTypeOK
<1>r. Pulse \/ Hold \/ Release => RelayTypeOK'
  BY RelayCallTypeOK
<1>x. ASSUME Fail(e), e \in job, holdTimer' \in Nonce \cup {NoNonce}, firing' \subseteq Nonce
      PROVE  TypeOK'
  BY <1>x, FailTypeOK
<1>1. CASE ExecOpen(e)
  <2>1. CASE Fail(e) BY <1>1, <2>1, <1>x DEF ExecOpen
  <2>2. CASE ~Fail(e)
    <3>1. Pulse /\ CarriedOut(e) /\ Finish(e, "opened", {"opened"})
      BY <1>1, <2>2 DEF ExecOpen
    <3>2. QED BY <1>1, <2>2, <3>1, <1>f, <1>c, <1>r DEF ExecOpen, Result, EventKind
  <2>3. QED BY <2>1, <2>2
<1>2. CASE ExecHold(e)
  <2>1. CASE Fail(e) BY <1>2, <2>1, <1>x DEF ExecHold
  <2>2. CASE ~Fail(e)
    BY <1>2, <2>2, <1>t, <1>c, <1>r DEF ExecHold
  <2>3. QED BY <2>1, <2>2
<1>3. CASE ScheduleRelease(e)
  <2>1. Finish(e, "held", {"opened"}) BY <1>3 DEF ScheduleRelease
  <2>2. QED BY <1>3, <2>1, <1>t, <1>f
    DEF ScheduleRelease, Result, EventKind, controllerVars, relayVars, RelayTypeOK
<1>4. CASE ExecClose(e)
  <2>1. CASE Fail(e) BY <1>4, <2>1, <1>x DEF ExecClose
  <2>2. CASE ~Fail(e)
    <3>1. Release /\ CarriedOut(e) /\ Finish(e, "closed", {"closed"})
      BY <1>4, <2>2 DEF ExecClose
    <3>2. QED BY <1>4, <2>2, <3>1, <1>f, <1>c, <1>r DEF ExecClose, Result, EventKind
  <2>3. QED BY <2>1, <2>2
<1>5. CASE ExecLockdown(e)
  <2>1. CASE Fail(e) BY <1>5, <2>1, <1>x DEF ExecLockdown
  <2>2. CASE ~Fail(e)
    <3>1. /\ SetLockdown(e.cmd = "lockdown") /\ CarriedOut(e) /\ Finish(e, "ok", {})
          /\ UNCHANGED <<relayVars, connected, sent, clockVars, storeVars, regressed, timerVars>>
      BY <1>5, <2>2 DEF ExecLockdown
    <3>2. lockdown' \in BOOLEAN /\ pinnedKey' \in Key /\ keyFile' \in Key /\ syncFile' \in Nat
      BY <3>1 DEF SetLockdown
    <3>3. QED BY <3>1, <3>2, <1>f, <1>c DEF Result, relayVars, RelayTypeOK
  <2>3. QED BY <2>1, <2>2
<1>6. CASE ExecPing(e)
  <2>1. /\ SyncFromGateway(e.iat) /\ CarriedOut(e)
        /\ job' = job \ {e} /\ finishing' = finishing \cup {e}
        /\ UNCHANGED <<durableVars, relayVars, connected, sent, storeVars, timerVars, outVars>>
    BY <1>6 DEF ExecPing
  <2>2. regressed' \in BOOLEAN
    BY <1>6 DEF ExecPing
  <2>3. QED BY <2>1, <2>2, <1>t, <1>c DEF SyncFromGateway, relayVars, RelayTypeOK
<1>10. CASE FinishPing(e)
  <2>1. /\ SaveSync /\ Finish(e, "ok", {})
        /\ UNCHANGED <<relayVars, connected, sent, storeVars, timerVars, onceVars, regressed>>
    BY <1>10 DEF FinishPing
  <2>2. QED BY <2>1, <1>f DEF SaveSync, Result, relayVars, RelayTypeOK
<1>7. CASE ExecRepair(e)
  <2>1. CASE Fail(e) BY <1>7, <2>1, <1>x DEF ExecRepair
  <2>2. CASE ~Fail(e)
    <3>1. /\ ApplyRepair(e.nextKey) \/ ApplyRepairUnwritten(e.nextKey)
          /\ CarriedOut(e)
          /\ Finish(e, "ok", {}) \/ Finish(e, "error", {"denied"})
          /\ UNCHANGED <<relayVars, connected, sent, clockVars, storeVars, regressed, timerVars>>
      BY <1>7, <2>2 DEF ExecRepair
    <3>2. pinnedKey' \in Key /\ keyFile' \in Key /\ UNCHANGED <<lockdown, syncFile>>
      BY <3>1, <1>t DEF ApplyRepair, ApplyRepairUnwritten
    <3>3. QED BY <3>1, <3>2, <1>f, <1>c DEF Result, EventKind, relayVars, RelayTypeOK
  <2>3. QED BY <2>1, <2>2
<1>8. CASE ExecConfig(e)
  <2>1. CASE Fail(e) BY <1>8, <2>1, <1>x DEF ExecConfig
  <2>2. CASE ~Fail(e)
    <3>1. /\ MergeConfig /\ CarriedOut(e) /\ Finish(e, "ok", {})
          /\ UNCHANGED <<clockVars, relayVars, connected, sent, storeVars, regressed, timerVars>>
      BY <1>8, <2>2 DEF ExecConfig
    <3>2. QED BY <3>1, <1>f, <1>c DEF MergeConfig, Result, relayVars, RelayTypeOK
  <2>3. QED BY <2>1, <2>2
<1>9. CASE ExecUnknown(e)
  BY <1>9, <1>x DEF ExecUnknown
<1>11. QED
  BY <1>1, <1>2, <1>3, <1>4, <1>5, <1>6, <1>7, <1>8, <1>9, <1>10 DEF Execute

LEMMA NextTypeOK == TypeOK /\ [Next]_vars => TypeOK'
<1> SUFFICES ASSUME TypeOK, [Next]_vars PROVE TypeOK' OBVIOUS
<1>1. CASE SignCommand \/ Tamper BY <1>1, SignTypeOK
<1>2. CASE ProcessCommand BY <1>2, VerifyTypeOK, ExecuteTypeOK DEF ProcessCommand
<1> USE DEF TypeOK, ControllerTypeOK, RelayTypeOK, controllerVars, clockVars, durableVars,
            relayVars, storeVars, timerVars, outVars, onceVars, commandVars
<1>3. CASE HoldTimerExpires BY <1>3 DEF HoldTimerExpires
<1>4. ASSUME NEW n \in Nonce, HoldTimerReleases(n) PROVE TypeOK'
  <2>1. [kind |-> "closed", ref |-> NoNonce] \in Event BY DEF Event, EventKind
  <2>2. QED BY <1>4, <2>1 DEF HoldTimerReleases, Release
<1>5. CASE PulseEnds BY <1>5 DEF PulseEnds, PulseTimerFires
<1>6. CASE Connect
  <2>1. regressed' \in BOOLEAN BY <1>6 DEF Connect
  <2>2. connected' \in BOOLEAN /\ clock' \in Nat /\ lastSync' \in Nat /\ synced' \in BOOLEAN
        /\ gatewayTime' = gatewayTime /\ saving' \subseteq Nat
    BY <1>6, StateAssumption DEF StateAssumption, Connect, SyncFromGateway
  <2>3. QED BY <1>6, <2>1, <2>2 DEF Connect
<1>7. CASE Disconnect BY <1>7 DEF Disconnect
<1>8. CASE Tick BY <1>8, StateAssumption DEF StateAssumption, Tick, PassTime
<1>9. CASE Restart
  <2>1. regressed' \in BOOLEAN BY <1>9 DEF Restart
  <2>2. clock' \in Nat
    BY <1>9, StateAssumption DEF StateAssumption, Restart, RestartController, WallClock
  <2>3. connected' \in BOOLEAN /\ synced' \in BOOLEAN
    BY <1>9 DEF Restart, RestartController
  <2>4. QED BY <1>9, <2>1, <2>2, <2>3 DEF Restart, OpenNonces, RestartController, RelayRestart
<1>10. CASE UNCHANGED vars BY <1>10 DEF vars
<1>11. CASE SaveConnectSync BY <1>11 DEF SaveConnectSync, SaveSync
<1>12. QED
  BY <1>1, <1>2, <1>3, <1>4, <1>5, <1>6, <1>7, <1>8, <1>9, <1>10, <1>11 DEF Next, CommandStep

(* Every variable keeps its type, for every value of the constants.        *)
THEOREM TypeCorrect == Spec => []TypeOK
  BY InitTypeOK, NextTypeOK, PTL DEF Spec

-----------------------------------------------------------------------------
(* A command is carried out at most once.                                  *)

LEMMA InitOnce == Init => OnceInv
  BY DEF Init, OnceInv, UniqueNonces, WorkIsSigned, SpentRemembered, ClockNotBehind,
     WorkIsFresh, AtMostOnce, Signed, Spent, ControllerInit, WallClock

(* A step that leaves the network and the nonce store alone, takes no new  *)
(* command, and carries out at most the one at work.                       *)
LEMMA CarryOnce ==
  ASSUME TypeOK, OnceInv,
         UNCHANGED <<sent, nonces, nonceFile, prunedAt>>,
         job' \subseteq job, finishing' \subseteq finishing \cup job,
         regressed => regressed', regressed' \/ prunedAt' =< clock',
         \/ executed' = executed /\ repeated' = repeated
         \/ \E e \in job : CarriedOut(e) /\ e \notin job'
  PROVE  OnceInv'
<1> USE DEF OnceInv
<1>1. Signed' = Signed
  BY DEF Signed
<1>2. Spent' \subseteq Spent
  BY DEF Spent, CarriedOut
<1>3. UniqueNonces'
  BY <1>1 DEF UniqueNonces
<1>4. WorkIsSigned'
  BY <1>1 DEF WorkIsSigned, CarriedOut
<1>5. SpentRemembered'
  BY <1>1, <1>2 DEF SpentRemembered, Horizon
<1>6. ClockNotBehind'
  BY DEF ClockNotBehind
<1>7. CASE executed' = executed /\ repeated' = repeated
  BY <1>3, <1>4, <1>5, <1>6, <1>7 DEF WorkIsFresh, AtMostOnce
<1>8. ASSUME NEW e \in job, CarriedOut(e), e \notin job'
      PROVE  WorkIsFresh' /\ AtMostOnce'
  <2>1. CASE regressed
    BY <2>1 DEF WorkIsFresh, AtMostOnce
  <2>2. CASE ~regressed
    <3>1. e.nonce \notin executed /\ repeated = {}
      BY <2>2 DEF WorkIsFresh, AtMostOnce
    <3>2. \A f \in job : f # e => f.nonce # e.nonce
      BY DEF WorkIsSigned, UniqueNonces
    <3>3. WorkIsFresh'
      BY <1>8, <2>2, <3>2 DEF WorkIsFresh, CarriedOut
    <3>4. AtMostOnce'
      BY <1>8, <3>1 DEF AtMostOnce, CarriedOut
    <3>5. QED BY <3>3, <3>4
  <2>3. QED BY <2>1, <2>2
<1>9. QED BY <1>3, <1>4, <1>5, <1>6, <1>7, <1>8

(* The gateway signs a fresh nonce; a tampered copy is not signed.         *)
LEMMA SignOnce == ASSUME TypeOK, OnceInv, SignCommand PROVE OnceInv'
<1> USE DEF OnceInv
<1>1. PICK new : /\ new.nonce \notin {e.nonce : e \in sent}
                 /\ sent' = sent \cup {new}
  BY DEF SignCommand
<1>2. Signed' \subseteq Signed \cup {new} /\ Signed \subseteq Signed' /\ Signed \subseteq sent
  BY <1>1 DEF Signed
<1>3. UNCHANGED <<nonces, nonceFile, prunedAt, job, finishing, executed, repeated, regressed, clock>>
  BY DEF SignCommand, controllerVars, clockVars, storeVars, onceVars
<1>4. new.nonce \notin Spent
  BY <1>1, <1>2 DEF Spent, WorkIsSigned
<1>5. UniqueNonces'
  BY <1>1, <1>2 DEF UniqueNonces
<1>6. WorkIsSigned'
  BY <1>2, <1>3 DEF WorkIsSigned
<1>7. SpentRemembered'
  BY <1>2, <1>3, <1>4 DEF SpentRemembered, Spent, Horizon
<1>8. QED
  BY <1>3, <1>5, <1>6, <1>7 DEF ClockNotBehind, WorkIsFresh, AtMostOnce

LEMMA TamperOnce == ASSUME TypeOK, OnceInv, Tamper PROVE OnceInv'
<1>1. Signed' = Signed
  <2>1. PICK e \in sent : sent' = sent \cup {[e EXCEPT !.key = Forged]}
    BY DEF Tamper
  <2>2. [e EXCEPT !.key = Forged].key = Forged
    BY DEF TypeOK, Envelope
  <2>3. QED BY <2>1, <2>2, StateAssumption DEF StateAssumption, Signed
<1>2. UNCHANGED <<nonces, nonceFile, prunedAt, job, finishing, executed, repeated, regressed, clock>>
  BY DEF Tamper, controllerVars, clockVars, storeVars, onceVars
<1>3. QED
  BY <1>1, <1>2 DEF OnceInv, UniqueNonces, WorkIsSigned, SpentRemembered, Spent, Horizon,
     ClockNotBehind, WorkIsFresh, AtMostOnce

(* Pruning forgets only nonces whose window is over by its own clock.      *)
LEMMA PruneOnce ==
  ASSUME TypeOK, prunedAt' = IF clock > prunedAt THEN clock ELSE prunedAt
  PROVE  /\ prunedAt =< prunedAt' /\ clock =< prunedAt'
         /\ \A e \in Signed : Horizon(e) \in nonces =>
              Horizon(e) \in Live \/ e.exp + Skew < prunedAt'
<1>1. clock \in Nat /\ prunedAt \in Nat
  BY DEF TypeOK, ControllerTypeOK
<1>2. prunedAt =< prunedAt' /\ clock =< prunedAt' /\ prunedAt' \in Nat
  BY <1>1
<1>3. ASSUME NEW e \in Signed, Horizon(e) \in nonces, Horizon(e) \notin Live
      PROVE  e.exp + Skew < prunedAt'
  <2>1. Horizon(e).keepUntil < clock
    BY <1>3 DEF Live
  <2>2. e.exp + Skew < clock
    BY <2>1 DEF Horizon
  <2>3. e.exp + Skew \in Nat
    BY StateAssumption DEF StateAssumption, Signed, TypeOK, Envelope
  <2>4. QED BY <1>1, <1>2, <2>2, <2>3
<1>4. QED BY <1>2, <1>3

LEMMA SignedHorizon == ASSUME TypeOK, NEW e \in Signed PROVE e.exp + Skew \in Nat
  BY StateAssumption DEF StateAssumption, Signed, TypeOK, Envelope

LEMMA MarkFailsOnce == ASSUME TypeOK, OnceInv, NEW e \in sent, MarkFails(e) PROVE OnceInv'
<1> USE DEF OnceInv
<1>1. /\ UNCHANGED <<sent, nonceFile, job, finishing, executed, repeated, regressed, clock>>
      /\ nonces' = Live
      /\ prunedAt' = IF clock > prunedAt THEN clock ELSE prunedAt
  BY DEF MarkFails, Deny, controllerVars, clockVars, onceVars
<1>2. /\ prunedAt =< prunedAt' /\ clock =< prunedAt'
      /\ \A f \in Signed : Horizon(f) \in nonces =>
           Horizon(f) \in Live \/ f.exp + Skew < prunedAt'
  BY <1>1, PruneOnce
<1>3. Signed' = Signed /\ Spent' = Spent
  BY <1>1 DEF Signed, Spent
<1>4. clock \in Nat /\ prunedAt \in Nat /\ prunedAt' \in Nat
  BY <1>1 DEF TypeOK, ControllerTypeOK
<1>5. SpentRemembered'
  BY <1>1, <1>2, <1>3, <1>4, SignedHorizon DEF SpentRemembered, Horizon
<1>6. ClockNotBehind'
  BY <1>1, <1>4 DEF ClockNotBehind
<1>7. QED
  BY <1>1, <1>3, <1>5, <1>6 DEF UniqueNonces, WorkIsSigned, WorkIsFresh, AtMostOnce

LEMMA AcceptOnce == ASSUME TypeOK, OnceInv, NEW e \in sent, AcceptCommand(e) PROVE OnceInv'
<1> USE DEF OnceInv
<1>1. /\ UNCHANGED <<sent, finishing, executed, repeated, regressed, clock>>
      /\ nonces' = Live \cup {Horizon(e)} /\ nonceFile' = nonces'
      /\ prunedAt' = IF clock > prunedAt THEN clock ELSE prunedAt
      /\ job = {} /\ job' = {e} /\ finishing = {}
  BY DEF AcceptCommand, Delivered, RunnerFree, Horizon, controllerVars, clockVars, onceVars
<1>2. /\ prunedAt =< prunedAt' /\ clock =< prunedAt'
      /\ \A f \in Signed : Horizon(f) \in nonces =>
           Horizon(f) \in Live \/ f.exp + Skew < prunedAt'
  BY <1>1, PruneOnce
<1>3. e \in Signed
  BY DEF AcceptCommand, Verifies, Signed, TypeOK, ControllerTypeOK
<1>4. clock \in Nat /\ prunedAt \in Nat /\ prunedAt' \in Nat
  BY <1>1 DEF TypeOK, ControllerTypeOK
<1>5. Signed' = Signed /\ Spent = executed /\ Spent' = executed \cup {e.nonce}
  BY <1>1 DEF Signed, Spent
<1>6. SpentRemembered'
  <2>1. ASSUME NEW f \in Signed, f.nonce \in Spent'
        PROVE  Horizon(f) \in nonces' \/ f.exp + Skew < prunedAt'
    <3>1. CASE f.nonce = e.nonce
      BY <1>1, <1>3, <3>1 DEF UniqueNonces
    <3>2. CASE f.nonce # e.nonce
      BY <1>1, <1>2, <1>4, <1>5, <2>1, <3>2, SignedHorizon DEF SpentRemembered
    <3>3. QED BY <3>1, <3>2
  <2>2. QED BY <1>1, <1>5, <2>1 DEF SpentRemembered, Horizon
<1>7. ClockNotBehind'
  BY <1>1, <1>4 DEF ClockNotBehind
<1>8. WorkIsFresh'
  <2>1. ASSUME ~regressed PROVE e.nonce \notin executed
    <3>1. ~(Horizon(e) \in nonces)
      BY DEF AcceptCommand, Verifies, Seen, Horizon
    <3>2. clock =< e.exp + Skew
      BY DEF AcceptCommand, Verifies, InWindow
    <3>3. prunedAt =< clock
      BY <2>1 DEF ClockNotBehind
    <3>4. ~(e.exp + Skew < prunedAt)
      BY <1>3, <1>4, <3>2, <3>3, SignedHorizon
    <3>5. QED BY <1>3, <1>5, <3>1, <3>4 DEF SpentRemembered
  <2>2. QED BY <1>1, <2>1 DEF WorkIsFresh
<1>9. QED
  BY <1>1, <1>3, <1>5, <1>6, <1>7, <1>8 DEF UniqueNonces, WorkIsSigned, AtMostOnce

LEMMA ExecuteOnce ==
  ASSUME TypeOK, OnceInv, NEW e \in job \cup finishing, Execute(e) PROVE OnceInv'
<1> USE DEF storeVars, onceVars, clockVars, controllerVars
<1>k. regressed \/ prunedAt =< clock
  BY DEF OnceInv, ClockNotBehind
<1>f. ASSUME Fail(e), e \in job PROVE OnceInv'
  BY <1>f, <1>k, CarryOnce DEF Fail, Finish
<1>1. CASE ExecOpen(e) BY <1>1, <1>f, <1>k, CarryOnce DEF ExecOpen, Finish
<1>2. CASE ExecHold(e) BY <1>2, <1>f, <1>k, CarryOnce DEF ExecHold
<1>3. CASE ScheduleRelease(e) BY <1>3, <1>k, CarryOnce DEF ScheduleRelease, Finish
<1>4. CASE ExecClose(e) BY <1>4, <1>f, <1>k, CarryOnce DEF ExecClose, Finish
<1>5. CASE ExecLockdown(e) BY <1>5, <1>f, <1>k, CarryOnce DEF ExecLockdown, Finish
<1>6. CASE ExecPing(e)
  <2>1. regressed => regressed' BY <1>6 DEF ExecPing
  <2>2. clock' \in Nat /\ prunedAt' = prunedAt /\ prunedAt \in Nat
    BY <1>6 DEF ExecPing, SyncFromGateway, TypeOK, Envelope
  <2>3. regressed' \/ prunedAt' =< clock'
    <3>1. clock' < prunedAt => regressed' BY <1>6 DEF ExecPing
    <3>2. QED BY <2>2, <3>1
  <2>4. QED BY <1>6, <2>1, <2>3, CarryOnce DEF ExecPing
<1>7. CASE ExecRepair(e) BY <1>7, <1>f, <1>k, CarryOnce DEF ExecRepair, Finish
<1>8. CASE ExecConfig(e) BY <1>8, <1>f, <1>k, CarryOnce DEF ExecConfig, Finish
<1>9. CASE ExecUnknown(e) BY <1>9, <1>f DEF ExecUnknown
<1>10. CASE FinishPing(e) BY <1>10, <1>k, CarryOnce DEF FinishPing, Finish, SaveSync
<1>11. QED
  BY <1>1, <1>2, <1>3, <1>4, <1>5, <1>6, <1>7, <1>8, <1>9, <1>10 DEF Execute

(* A restart forgets what only memory held: nothing that was spent.        *)
LEMMA RestartOnce == ASSUME TypeOK, OnceInv, Restart PROVE OnceInv'
<1> USE DEF OnceInv
<1>1. /\ UNCHANGED <<sent, nonceFile, prunedAt, executed, repeated>>
      /\ nonces' = nonceFile /\ job' = {} /\ finishing' = {}
      /\ clock' \in Nat
  BY StateAssumption DEF StateAssumption, Restart, OpenNonces, onceVars, RestartController, WallClock
<1>2. regressed => regressed'
  BY DEF Restart
<1>3. regressed' \/ prunedAt' =< clock'
  <2>1. clock' < prunedAt => regressed' BY DEF Restart
  <2>2. QED BY <1>1, <2>1 DEF TypeOK
<1>4. Signed' = Signed /\ Spent' \subseteq Spent
  BY <1>1 DEF Signed, Spent
<1>5. SpentRemembered'
  BY <1>1, <1>4 DEF SpentRemembered, Horizon
<1>6. QED
  BY <1>1, <1>2, <1>3, <1>4, <1>5 DEF UniqueNonces, WorkIsSigned, ClockNotBehind, WorkIsFresh, AtMostOnce

LEMMA NextOnce == TypeOK /\ OnceInv /\ [Next]_vars => OnceInv'
<1> SUFFICES ASSUME TypeOK, OnceInv, [Next]_vars PROVE OnceInv' OBVIOUS
<1>k. regressed \/ prunedAt =< clock
  BY DEF OnceInv, ClockNotBehind
<1>1. CASE SignCommand BY <1>1, SignOnce
<1>2. CASE Tamper BY <1>2, TamperOnce
<1>3. CASE ProcessCommand
  <2>1. ASSUME NEW e \in sent, RejectCommand(e) PROVE OnceInv'
    BY <2>1, <1>k, CarryOnce DEF RejectCommand, Deny, controllerVars, clockVars, storeVars, onceVars
  <2>2. QED BY <1>3, <2>1, MarkFailsOnce, AcceptOnce, ExecuteOnce DEF ProcessCommand
<1> USE DEF controllerVars, clockVars, storeVars, onceVars, commandVars
<1>4. CASE HoldTimerExpires BY <1>4, <1>k, CarryOnce DEF HoldTimerExpires
<1>5. ASSUME NEW n \in Nonce, HoldTimerReleases(n) PROVE OnceInv'
  BY <1>5, <1>k, CarryOnce DEF HoldTimerReleases
<1>6. CASE PulseEnds BY <1>6, <1>k, CarryOnce DEF PulseEnds
<1>7. CASE Connect
  <2>1. regressed => regressed' BY <1>7 DEF Connect
  <2>2. clock' \in Nat /\ prunedAt' = prunedAt /\ prunedAt \in Nat
    BY <1>7, StateAssumption
    DEF StateAssumption, Connect, SyncFromGateway, TypeOK, ControllerTypeOK
  <2>3. regressed' \/ prunedAt' =< clock'
    <3>1. clock' < prunedAt => regressed' BY <1>7 DEF Connect
    <3>2. QED BY <2>2, <3>1
  <2>4. QED BY <1>7, <2>1, <2>3, CarryOnce DEF Connect
<1>8. CASE Disconnect BY <1>8, <1>k, CarryOnce DEF Disconnect
<1>9. CASE Tick
  <2>1. regressed' \/ prunedAt' =< clock'
    BY <1>9, <1>k DEF Tick, PassTime, TypeOK, ControllerTypeOK
  <2>2. QED BY <1>9, <2>1, CarryOnce DEF Tick
<1>10. CASE Restart BY <1>10, RestartOnce
<1>11. CASE UNCHANGED vars BY <1>11, <1>k, CarryOnce DEF vars
<1>12. CASE SaveConnectSync BY <1>12, <1>k, CarryOnce DEF SaveConnectSync, SaveSync
<1>13. QED
  BY <1>1, <1>2, <1>3, <1>4, <1>5, <1>6, <1>7, <1>8, <1>9, <1>10, <1>11, <1>12
  DEF Next, CommandStep

(* However many commands, deliveries, restarts and faults there are, no    *)
(* signed command is carried out twice unless the clock stepped back       *)
(* behind a pruning (Verify and noncestore.Mark).                          *)
THEOREM CarriedOutAtMostOnce == Spec => []AtMostOnce
<1>1. Spec => [](TypeOK /\ OnceInv)
  BY InitTypeOK, InitOnce, NextTypeOK, NextOnce, PTL DEF Spec
<1>2. OnceInv => AtMostOnce
  BY DEF OnceInv
<1>3. QED BY <1>1, <1>2, PTL

-----------------------------------------------------------------------------
(* Authority: what a command at work was verified against still holds when *)
(* execute acts on it.                                                     *)

(* The runner's goroutine has one command at work.                         *)
OneAtWork ==
  /\ job \cap finishing = {}
  /\ \A e, f \in job \cup finishing : e = f

(* It was signed with the key that is pinned now, and the latch permits it *)
(* now, although Verify looked at both in an earlier step.                 *)
JobAuthorised ==
  \A e \in job : e.key = pinnedKey /\ LockdownPermits(e)

WorkInv == OneAtWork /\ JobAuthorised

(* A step that takes no command and moves neither the key nor the latch.   *)
LEMMA CarryWork ==
  ASSUME WorkInv,
         job' \subseteq job, finishing' \subseteq finishing,
         UNCHANGED <<lockdown, pinnedKey>>
  PROVE  WorkInv'
  BY DEF WorkInv, OneAtWork, JobAuthorised, LockdownPermits

(* The command at work is the only one: once it is finished none is left.  *)
LEMMA FinishWork ==
  ASSUME WorkInv, NEW e \in job, job' = job \ {e}, finishing' = finishing \ {e}
  PROVE  WorkInv' /\ job' = {} /\ finishing' = {}
<1>1. job' = {} /\ finishing' = {}
  BY DEF WorkInv, OneAtWork
<1>2. QED BY <1>1 DEF WorkInv, OneAtWork, JobAuthorised

(* How each command may touch the latch, the key and the relay.  Memory    *)
(* and file come to differ in the key only by a repair answered as failed. *)
Unwritten(e) ==
  /\ e \in job /\ e.cmd = "repair" /\ e.nextKey = pinnedKey'
  /\ [nonce |-> e.nonce, result |-> "error"] \in acks'

LEMMA ExecuteWork ==
  ASSUME WorkInv, NEW e \in job \cup finishing, Execute(e)
  PROVE  /\ WorkInv'
         /\ lockdown' # lockdown => e \in job /\ e.cmd \in {"lockdown", "lift"}
                                    /\ lockdown' = (e.cmd = "lockdown")
         /\ pinnedKey' # pinnedKey => e \in job /\ e.cmd = "repair" /\ pinnedKey' = e.nextKey
         /\ relay' # relay => e \in job /\ e.cmd \in {"open", "hold", "close"}
         /\ keyFile' \in {keyFile, pinnedKey'}
         /\ \/ UNCHANGED <<pinnedKey, keyFile>>
            \/ keyFile' = pinnedKey'
            \/ Unwritten(e)
<1> USE DEF durableVars, relayVars, controllerVars
<1>f. ASSUME Fail(e), e \in job
      PROVE  WorkInv' /\ UNCHANGED <<lockdown, pinnedKey, keyFile, relay>>
  BY <1>f, FinishWork DEF Fail, Finish
<1>1. CASE ExecOpen(e) BY <1>1, <1>f, FinishWork DEF ExecOpen, Finish
<1>2. CASE ExecHold(e)
  <2>1. CASE Fail(e) BY <1>2, <2>1, <1>f DEF ExecHold
  <2>2. CASE job' = job \ {e} /\ finishing' = finishing \cup {e} /\ UNCHANGED durableVars
    BY <1>2, <2>2 DEF ExecHold, WorkInv, OneAtWork, JobAuthorised
  <2>3. QED BY <1>2, <2>1, <2>2 DEF ExecHold
<1>3. CASE ScheduleRelease(e) BY <1>3, CarryWork DEF ScheduleRelease, Finish
<1>4. CASE ExecClose(e) BY <1>4, <1>f, FinishWork DEF ExecClose, Finish
<1>5. CASE ExecLockdown(e) BY <1>5, <1>f, FinishWork DEF ExecLockdown, Finish, SetLockdown
<1>6. CASE ExecPing(e) BY <1>6 DEF ExecPing, WorkInv, OneAtWork, JobAuthorised
<1>7. CASE ExecRepair(e)
  <2>1. CASE Fail(e) BY <1>7, <2>1, <1>f DEF ExecRepair
  <2>2. CASE ApplyRepair(e.nextKey) /\ Finish(e, "ok", {}) /\ UNCHANGED relayVars
    BY <1>7, <2>2, FinishWork DEF ExecRepair, Finish, ApplyRepair
  <2>3. CASE ApplyRepairUnwritten(e.nextKey) /\ Finish(e, "error", {"denied"}) /\ UNCHANGED relayVars
    BY <1>7, <2>3, FinishWork
       DEF ExecRepair, Finish, ApplyRepairUnwritten, Unwritten, AckAndRecord
  <2> QED BY <1>7, <2>1, <2>2, <2>3 DEF ExecRepair
<1>8. CASE ExecConfig(e) BY <1>8, <1>f, FinishWork DEF ExecConfig, Finish, MergeConfig
<1>9. CASE ExecUnknown(e) BY <1>9, <1>f DEF ExecUnknown
<1>10. CASE FinishPing(e)
  <2>1. WorkInv'
    BY <1>10, CarryWork DEF FinishPing, Finish, SaveSync
  <2> QED BY <1>10, <2>1 DEF FinishPing, SaveSync
<1>11. QED
  BY <1>1, <1>2, <1>3, <1>4, <1>5, <1>6, <1>7, <1>8, <1>9, <1>10 DEF Execute

LEMMA AcceptWork ==
  ASSUME WorkInv, NEW e \in sent, AcceptCommand(e)
  PROVE  WorkInv' /\ UNCHANGED <<lockdown, pinnedKey, keyFile, relay>>
  BY DEF AcceptCommand, Delivered, RunnerFree, Verifies, LockdownPermits, WorkInv, OneAtWork,
     JobAuthorised, controllerVars, durableVars, relayVars

(* Every other step leaves the latch alone; a restart drops the command at *)
(* work and takes back the key of the file, and nothing else touches them. *)
LEMMA OtherWork ==
  ASSUME WorkInv, [Next]_vars,
         ~\E e \in job \cup finishing : Execute(e),
         ~\E e \in sent : AcceptCommand(e)
  PROVE  /\ WorkInv'
         /\ UNCHANGED lockdown
         /\ UNCHANGED <<pinnedKey, keyFile>> \/ keyFile' = pinnedKey'
         /\ pinnedKey' # pinnedKey => pinnedKey' = keyFile
         /\ \/ Restart
            \/ UNCHANGED <<job, finishing>>
<1> USE DEF controllerVars, durableVars, commandVars
<1>1. ASSUME NEW e \in sent, RejectCommand(e) \/ MarkFails(e)
      PROVE  UNCHANGED <<job, finishing, durableVars>>
  BY <1>1 DEF RejectCommand, MarkFails, Deny
<1>2. CASE SignCommand \/ Tamper
  BY <1>2, CarryWork DEF SignCommand, Tamper
<1>3. CASE HoldTimerExpires BY <1>3, CarryWork DEF HoldTimerExpires
<1>4. ASSUME NEW n \in Nonce, HoldTimerReleases(n) PROVE UNCHANGED <<job, finishing, durableVars>>
  BY <1>4 DEF HoldTimerReleases
<1>5. CASE PulseEnds BY <1>5, CarryWork DEF PulseEnds
<1>6. CASE Connect \/ Disconnect \/ Tick
  BY <1>6, CarryWork DEF Connect, Disconnect, Tick
<1>7. CASE SaveConnectSync
  <2>1. UNCHANGED <<job, finishing, lockdown, pinnedKey>>
    BY <1>7 DEF SaveConnectSync, SaveSync
  <2> QED BY <1>7, <2>1, CarryWork DEF SaveConnectSync, SaveSync
<1>8. CASE Restart
  BY <1>8 DEF Restart, RestartController, WorkInv, OneAtWork, JobAuthorised
<1>9. CASE UNCHANGED vars BY <1>9, CarryWork DEF vars
<1>10. QED
  BY <1>1, <1>2, <1>3, <1>4, <1>5, <1>6, <1>7, <1>8, <1>9, CarryWork
  DEF Next, CommandStep, ProcessCommand

LEMMA InitWork == Init => WorkInv
  BY DEF Init, WorkInv, OneAtWork, JobAuthorised

LEMMA NextWork == WorkInv /\ [Next]_vars => WorkInv'
  BY ExecuteWork, AcceptWork, OtherWork

(* Nothing that was signed, and no answer, is ever taken back.             *)
LEMMA OutputsGrow == ASSUME [Next]_vars PROVE sent \subseteq sent' /\ acks \subseteq acks'
<1> USE DEF AckAndRecord, Finish, outVars, commandVars
<1>1. ASSUME NEW e \in sent, RejectCommand(e) \/ MarkFails(e) \/ AcceptCommand(e)
      PROVE  sent \subseteq sent' /\ acks \subseteq acks'
  BY <1>1 DEF RejectCommand, MarkFails, AcceptCommand, Deny
<1>2. ASSUME NEW e \in job \cup finishing, Execute(e)
      PROVE  sent \subseteq sent' /\ acks \subseteq acks'
  BY <1>2 DEF Execute, ExecOpen, ExecHold, ScheduleRelease, ExecClose, ExecLockdown, ExecPing,
     FinishPing, ExecRepair, ExecConfig, ExecUnknown, Fail
<1>3. CASE SignCommand \/ Tamper
  BY <1>3 DEF SignCommand, Tamper
<1>4. CASE HoldTimerExpires \/ \E n \in Nonce : HoldTimerReleases(n)
  BY <1>4 DEF HoldTimerExpires, HoldTimerReleases
<1>5. CASE PulseEnds \/ Connect \/ SaveConnectSync \/ Disconnect \/ Tick
  BY <1>5 DEF PulseEnds, Connect, SaveConnectSync, Disconnect, Tick
<1>6. CASE Restart
  BY <1>6 DEF Restart
<1>7. CASE UNCHANGED vars
  BY <1>7 DEF vars
<1>8. QED
  BY <1>1, <1>2, <1>3, <1>4, <1>5, <1>6, <1>7 DEF Next, CommandStep, ProcessCommand

(* Memory and file differ in the key only after a failed answer.           *)
KeyInv == keyFile # pinnedKey => AnsweredAsFailed

LEMMA InitKey == Init => KeyInv
  BY DEF Init, ControllerInit, KeyInv

LEMMA NextKey == OnceInv /\ WorkInv /\ KeyInv /\ [Next]_vars => KeyInv'
<1> SUFFICES ASSUME OnceInv, WorkInv, KeyInv, [Next]_vars, keyFile' # pinnedKey'
             PROVE  AnsweredAsFailed'
  BY DEF KeyInv
<1>1. sent \subseteq sent' /\ acks \subseteq acks'
  BY OutputsGrow
<1>2. CASE UNCHANGED <<pinnedKey, keyFile>>
  BY <1>1, <1>2 DEF KeyInv, AnsweredAsFailed
<1>3. ASSUME NEW e \in job \cup finishing, Unwritten(e) PROVE AnsweredAsFailed'
  <2>1. e \in sent'
    BY <1>1 DEF OnceInv, WorkIsSigned, Signed
  <2> QED BY <1>3, <2>1 DEF Unwritten, AnsweredAsFailed
<1>4. ASSUME NEW e \in job \cup finishing, Execute(e) PROVE AnsweredAsFailed'
  BY <1>2, <1>3, <1>4, ExecuteWork
<1>5. ASSUME NEW e \in sent, AcceptCommand(e) PROVE AnsweredAsFailed'
  BY <1>2, <1>5, AcceptWork
<1> QED BY <1>2, <1>4, <1>5, OtherWork

(* The latch is lifted and the key replaced only by the command at work,   *)
(* or the key by a restart that takes back the one of the file.            *)
Guarded ==
  /\ lockdown /\ ~lockdown' => \E e \in job : e.cmd = "lift" /\ e.key = pinnedKey
  /\ pinnedKey' # pinnedKey =>
       \/ \E e \in job : /\ e.cmd = "repair" /\ e.key = pinnedKey
                         /\ e.nextKey = pinnedKey'
       \/ pinnedKey' = keyFile /\ AnsweredAsFailed
  /\ keyFile' # keyFile => keyFile' = pinnedKey'

LEMMA GuardedStep == WorkInv /\ KeyInv /\ [Next]_vars => Guarded
<1> SUFFICES ASSUME WorkInv, KeyInv, [Next]_vars PROVE Guarded OBVIOUS
<1>1. ASSUME NEW e \in job \cup finishing, Execute(e) PROVE Guarded
  <2>1. /\ lockdown /\ ~lockdown' => e \in job /\ e.cmd = "lift"
        /\ pinnedKey' # pinnedKey => e \in job /\ e.cmd = "repair" /\ pinnedKey' = e.nextKey
        /\ keyFile' \in {keyFile, pinnedKey'}
    BY <1>1, ExecuteWork
  <2>2. e \in job => e.key = pinnedKey
    BY DEF WorkInv, JobAuthorised
  <2> QED BY <2>1, <2>2 DEF Guarded
<1>2. ASSUME NEW e \in sent, AcceptCommand(e) PROVE Guarded
  BY <1>2, AcceptWork DEF Guarded
<1>3. CASE /\ UNCHANGED lockdown
           /\ UNCHANGED <<pinnedKey, keyFile>> \/ keyFile' = pinnedKey'
           /\ pinnedKey' # pinnedKey => pinnedKey' = keyFile
  <2>1. pinnedKey' # pinnedKey => AnsweredAsFailed
    BY <1>3 DEF KeyInv
  <2> QED BY <1>3, <2>1 DEF Guarded
<1> QED BY <1>1, <1>2, <1>3, OtherWork

(* A lockdown, once latched, ends only by a `lift` signed with the key     *)
(* that is pinned.  The pinned key is replaced only by a `repair` signed   *)
(* with it, although the signature was checked in an earlier step, or by a *)
(* restart that takes back the key of the file after a repair that was     *)
(* answered as failed: through any interleaving with restarts, deliveries, *)
(* failing writes and timers.                                              *)
THEOREM DurableStateIsGuarded == Spec => DurableStateGuarded
<1>1. WorkInv /\ KeyInv /\ [Next]_vars => [Guarded]_vars
  BY GuardedStep
<1>2. Spec => [](TypeOK /\ OnceInv /\ WorkInv /\ KeyInv)
  BY InitTypeOK, InitOnce, InitWork, InitKey, NextTypeOK, NextOnce, NextWork, NextKey, PTL DEF Spec
<1> QED BY <1>1, <1>2, PTL DEF Spec, DurableStateGuarded, Guarded

(* With the latch down, the command at work is not one that moves the      *)
(* relay, although Verify looked at the latch in an earlier step.          *)
LEMMA ExecuteRefused ==
  ASSUME WorkInv, lockdown, NEW e \in job \cup finishing, Execute(e)
  PROVE  relay' = relay
<1> SUFFICES ASSUME relay' # relay PROVE FALSE OBVIOUS
<1>1. e \in job /\ e.cmd \in {"open", "hold", "close"}
  BY ExecuteWork
<1>2. e.cmd \in LockdownAllowed
  BY <1>1 DEF WorkInv, JobAuthorised, LockdownPermits
<1> QED BY <1>1, <1>2 DEF LockdownAllowed

Refused ==
  lockdown /\ (job # job' \/ finishing # finishing') => relay' = relay \/ relay' = "idle"

LEMMA RefusedStep == WorkInv /\ [Next]_vars => Refused
<1> SUFFICES ASSUME WorkInv, [Next]_vars PROVE Refused OBVIOUS
<1>1. ASSUME NEW e \in job \cup finishing, Execute(e) PROVE Refused
  BY <1>1, ExecuteRefused DEF Refused
<1>2. ASSUME NEW e \in sent, AcceptCommand(e) PROVE Refused
  BY <1>2, AcceptWork DEF Refused
<1>3. CASE Restart BY <1>3 DEF Restart, RestartController, RelayRestart, Refused
<1>4. CASE UNCHANGED <<job, finishing>> BY <1>4 DEF Refused
<1> QED BY <1>1, <1>2, <1>3, <1>4, OtherWork

(* While lockdown is latched no step of a command opens the relay.         *)
THEOREM LockdownRefuses == Spec => LockdownRefusesCommands
<1>1. WorkInv /\ [Next]_vars => [Refused]_vars
  BY RefusedStep
<1>2. Spec => []WorkInv
  BY InitWork, NextWork, PTL DEF Spec
<1> QED BY <1>1, <1>2, PTL DEF Spec, LockdownRefusesCommands, Refused

-----------------------------------------------------------------------------
(* A latched gate has something on its way to release it.                  *)

LEMMA HeldStep ==
  ASSUME ~HardwareFaults, WorkInv, TypeOK, HeldGateHasRelease, [Next]_vars
  PROVE  HeldGateHasRelease'
<1> USE DEF controllerVars, relayVars, timerVars, commandVars, HeldGateHasRelease
<1>1. ASSUME NEW e \in job \cup finishing, Execute(e) PROVE HeldGateHasRelease'
  <2>p. CASE ExecPing(e) BY <2>p DEF ExecPing
  <2>q. CASE FinishPing(e) BY <2>q DEF FinishPing, Finish
  <2>f. ASSUME Fail(e), e \in job PROVE relay' = relay /\ finishing' = finishing
    <3>1. finishing \ {e} = finishing
      BY <2>f DEF WorkInv, OneAtWork
    <3>2. QED BY <2>f, <3>1 DEF Fail, Finish
  <2>1. CASE ExecOpen(e) BY <2>1, <2>f DEF ExecOpen, Pulse
  <2>2. CASE ExecHold(e) BY <2>2 DEF ExecHold
  <2>3. CASE ScheduleRelease(e)
    <3>1. e.nonce \in Nonce BY DEF TypeOK, Envelope
    <3>2. QED BY <2>3, <3>1, CommandAssumption DEF CommandAssumption, ScheduleRelease
  <2>4. CASE ExecClose(e) BY <2>4 DEF ExecClose, Release
  <2>5. CASE ExecLockdown(e) \/ ExecRepair(e) \/ ExecConfig(e) \/ ExecUnknown(e)
    <3>1. e \in job /\ UNCHANGED timerVars
      BY <2>5 DEF ExecLockdown, ExecRepair, ExecConfig, ExecUnknown
    <3>2. CASE Fail(e) BY <2>f, <3>1, <3>2
    <3>3. CASE ~Fail(e)
      <4>1. UNCHANGED relayVars /\ finishing' = finishing \ {e}
        BY <2>5, <3>3 DEF ExecLockdown, ExecRepair, ExecConfig, ExecUnknown, Finish
      <4>2. finishing \ {e} = finishing
        BY <3>1 DEF WorkInv, OneAtWork
      <4>3. QED BY <3>1, <4>1, <4>2
    <3>4. QED BY <3>2, <3>3
  <2>6. QED BY <1>1, <2>p, <2>q, <2>1, <2>2, <2>3, <2>4, <2>5 DEF Execute
<1>2. ASSUME NEW e \in sent, RejectCommand(e) \/ MarkFails(e) \/ AcceptCommand(e)
      PROVE  HeldGateHasRelease'
  BY <1>2 DEF RejectCommand, MarkFails, AcceptCommand, Deny
<1>3. CASE SignCommand \/ Tamper BY <1>3 DEF SignCommand, Tamper
<1>4. CASE HoldTimerExpires BY <1>4 DEF HoldTimerExpires
<1>5. ASSUME NEW n \in Nonce, HoldTimerReleases(n) PROVE HeldGateHasRelease'
  BY <1>5 DEF HoldTimerReleases, Release
<1>6. CASE PulseEnds BY <1>6 DEF PulseEnds, PulseTimerFires
<1>7. CASE Connect \/ SaveConnectSync \/ Disconnect \/ Tick
  BY <1>7 DEF Connect, SaveConnectSync, Disconnect, Tick
<1>8. CASE Restart BY <1>8 DEF Restart, RestartController, RelayRestart
<1>9. CASE UNCHANGED vars BY <1>9 DEF vars
<1>10. QED
  BY <1>1, <1>2, <1>3, <1>4, <1>5, <1>6, <1>7, <1>8, <1>9
  DEF Next, CommandStep, ProcessCommand

(* As long as the relay answers its calls, a gate held open always has a   *)
(* timer, or the function of one, that will release it (scheduleRelease,   *)
(* cancelRelease).                                                         *)
THEOREM HeldGateIsReleasable == ~HardwareFaults /\ Spec => []HeldGateHasRelease
<1>1. Init => HeldGateHasRelease
  BY DEF Init, ControllerInit, RelayInit, HeldGateHasRelease
<1>2. Spec => [](TypeOK /\ WorkInv)
  BY InitTypeOK, NextTypeOK, InitWork, NextWork, PTL DEF Spec
<1>3. SUFFICES ASSUME ~HardwareFaults PROVE Spec => []HeldGateHasRelease
  OBVIOUS
<1>4. TypeOK /\ WorkInv /\ HeldGateHasRelease /\ [Next]_vars => HeldGateHasRelease'
  BY <1>3, HeldStep
<1>5. QED BY <1>1, <1>2, <1>4, PTL DEF Spec


-----------------------------------------------------------------------------
(* What the nonce store forgets.                                           *)

MemoryIsOnFile == nonces \subseteq nonceFile

(* Only the pruning of Mark and a restart touch the nonces in memory.      *)
LEMMA StoreSteps ==
  ASSUME [Next]_vars
  PROVE  \/ UNCHANGED <<nonces, nonceFile>>
         \/ nonces' = Live /\ UNCHANGED nonceFile
         \/ Live \subseteq nonces' /\ nonceFile' = nonces'
         \/ nonces' = nonceFile /\ UNCHANGED nonceFile
<1> USE DEF storeVars
<1>1. ASSUME NEW e \in sent, RejectCommand(e) \/ MarkFails(e) \/ AcceptCommand(e)
      PROVE  \/ UNCHANGED <<nonces, nonceFile>>
             \/ nonces' = Live /\ UNCHANGED nonceFile
             \/ Live \subseteq nonces' /\ nonceFile' = nonces'
  BY <1>1 DEF RejectCommand, MarkFails, AcceptCommand
<1>2. ASSUME NEW e \in job \cup finishing, Execute(e) PROVE UNCHANGED <<nonces, nonceFile>>
  BY <1>2 DEF Execute, ExecOpen, ExecHold, ScheduleRelease, ExecClose, ExecLockdown, ExecPing,
     FinishPing, ExecRepair, ExecConfig, ExecUnknown, Fail
<1>3. CASE SignCommand \/ Tamper
  BY <1>3 DEF SignCommand, Tamper
<1>4. CASE HoldTimerExpires \/ \E n \in Nonce : HoldTimerReleases(n)
  BY <1>4 DEF HoldTimerExpires, HoldTimerReleases
<1>5. CASE PulseEnds \/ Connect \/ SaveConnectSync \/ Disconnect \/ Tick
  BY <1>5 DEF PulseEnds, Connect, SaveConnectSync, Disconnect, Tick, commandVars
<1>6. CASE Restart
  BY <1>6 DEF Restart, OpenNonces
<1>7. CASE UNCHANGED vars
  BY <1>7 DEF vars, commandVars
<1>8. QED
  BY <1>1, <1>2, <1>3, <1>4, <1>5, <1>6, <1>7 DEF Next, CommandStep, ProcessCommand

(* No nonce is forgotten while the envelope it belongs to would still pass *)
(* the window check: pruning keeps it, a full store refuses the command    *)
(* instead, and what memory held is on file when the process dies.         *)
THEOREM LiveNoncesStay == Spec => NoLiveNonceForgotten
<1> DEFINE Stays == \A r \in nonces : clock =< r.keepUntil => r \in nonces'
<1>1. Init => TypeOK /\ MemoryIsOnFile
  BY InitTypeOK DEF Init, MemoryIsOnFile
<1>2. Live \subseteq nonces
  BY DEF Live
<1>3. MemoryIsOnFile /\ [Next]_vars => MemoryIsOnFile'
  BY <1>2, StoreSteps DEF MemoryIsOnFile
<1>4. ASSUME TypeOK, MemoryIsOnFile, [Next]_vars PROVE [Stays]_vars
  <2>1. \A r \in nonces : clock =< r.keepUntil => r \in Live
    BY <1>4 DEF Live, TypeOK, ControllerTypeOK, Remembered
  <2> QED BY <1>4, <2>1, StoreSteps DEF MemoryIsOnFile
<1> QED BY <1>1, <1>3, <1>4, NextTypeOK, PTL DEF Spec, NoLiveNonceForgotten

-----------------------------------------------------------------------------
(* The agent: the same invariants beside the offline exchange.             *)

(* What the exchange does to the processor: it pulses the relay they       *)
(* share, and touches nothing else.                                        *)
Beside ==
  /\ UNCHANGED relayVars \/ Pulse
  /\ UNCHANGED <<clockVars, durableVars, commandVars>>

LEMMA GrantStepBeside == ASSUME Redemption!GrantStep, UNCHANGED commandVars PROVE Beside
<1> USE DEF Redemption!controllerVars, Redemption!clockVars, Redemption!durableVars,
            Redemption!relayVars, clockVars, durableVars, relayVars, Beside
<1>1. ASSUME NEW g \in Grants, Redemption!HandleOpen(g) PROVE Beside
  BY <1>1 DEF Redemption!HandleOpen
<1>2. CASE Redemption!SignProof
  BY <1>2 DEF Redemption!SignProof
<1>3. ASSUME NEW s \in Session, NEW p \in proofs, Redemption!CheckProof(s, p) PROVE Beside
  BY <1>3 DEF Redemption!CheckProof
<1>4. ASSUME NEW s \in Session, Redemption!Consume(s) \/ Redemption!RecordRedeemed(s) PROVE Beside
  BY <1>4 DEF Redemption!Consume, Redemption!RecordRedeemed
<1>5. ASSUME NEW s \in Session, Redemption!Actuate(s) PROVE Beside
  <2>1. UNCHANGED <<clockVars, durableVars>> /\ (UNCHANGED relayVars \/ Redemption!Pulse)
    BY <1>5 DEF Redemption!Actuate
  <2>2. Redemption!Pulse => Pulse
    BY DEF Redemption!Pulse, Redemption!PulseRefused, Pulse, PulseRefused
  <2> QED BY <2>1, <2>2
<1> QED BY <1>1, <1>2, <1>3, <1>4, <1>5 DEF Redemption!GrantStep, Redemption!Redeem

LEMMA AgentKinds == [AgentNext]_allVars => [Next]_vars \/ Beside
  BY GrantStepBeside DEF AgentNext, Next, allVars

(* The times the gateway has signed into its envelopes are not ahead of    *)
(* its own clock.                                                          *)
SignedTimes == \A e \in sent : e.iat \in 1..gatewayTime

LEMMA NextTimes == TypeOK /\ SignedTimes /\ [Next]_vars => SignedTimes'
<1> SUFFICES ASSUME TypeOK, SignedTimes, [Next]_vars PROVE SignedTimes' OBVIOUS
<1>t. gatewayTime \in Nat /\ 1 =< gatewayTime
  BY DEF TypeOK, ControllerTypeOK
<1> USE DEF SignedTimes, controllerVars, clockVars, commandVars
<1>1. CASE UNCHANGED <<sent, gatewayTime>>
  BY <1>1
<1>2. CASE SignCommand
  BY <1>2, <1>t DEF SignCommand
<1>3. CASE Tamper
  <2>1. PICK e \in sent : sent' = sent \cup {[e EXCEPT !.key = Forged]}
    BY <1>3 DEF Tamper
  <2>2. [e EXCEPT !.key = Forged].iat = e.iat
    BY DEF TypeOK, Envelope
  <2>3. UNCHANGED gatewayTime
    BY <1>3 DEF Tamper
  <2> QED BY <2>1, <2>2, <2>3
<1>4. CASE Tick
  BY <1>4, <1>t DEF Tick, PassTime
<1>5. ASSUME NEW e \in sent, RejectCommand(e) \/ MarkFails(e) \/ AcceptCommand(e)
      PROVE  UNCHANGED <<sent, gatewayTime>>
  BY <1>5 DEF RejectCommand, MarkFails, AcceptCommand, Deny
<1>6. ASSUME NEW e \in job \cup finishing, Execute(e) PROVE UNCHANGED <<sent, gatewayTime>>
  BY <1>6 DEF Execute, ExecOpen, ExecHold, ScheduleRelease, ExecClose, ExecLockdown, ExecPing,
     FinishPing, ExecRepair, ExecConfig, ExecUnknown, Fail, SyncFromGateway, SaveSync
<1>7. CASE HoldTimerExpires \/ \E n \in Nonce : HoldTimerReleases(n)
  BY <1>1, <1>7 DEF HoldTimerExpires, HoldTimerReleases
<1>8. CASE PulseEnds \/ Connect \/ SaveConnectSync \/ Disconnect
  BY <1>1, <1>8 DEF PulseEnds, Connect, SaveConnectSync, Disconnect, SyncFromGateway, SaveSync
<1>9. CASE Restart
  BY <1>1, <1>9 DEF Restart, RestartController
<1>10. CASE UNCHANGED vars
  BY <1>1, <1>10 DEF vars
<1> QED
  BY <1>1, <1>2, <1>3, <1>4, <1>5, <1>6, <1>7, <1>8, <1>9, <1>10
  DEF Next, CommandStep, ProcessCommand

(* The goroutine that sets the clock writes the sync before it goes on.    *)
RunnerInv == saving # {} => job = {}

LEMMA InitRunner == Init => RunnerInv
  BY DEF Init, ControllerInit, RunnerInv

LEMMA NextRunner == WorkInv /\ RunnerInv /\ [Next]_vars => RunnerInv'
<1> SUFFICES ASSUME WorkInv, RunnerInv, [Next]_vars PROVE RunnerInv' OBVIOUS
<1> USE DEF RunnerInv, controllerVars, clockVars, commandVars
<1>1. ASSUME NEW e \in sent, RejectCommand(e) \/ MarkFails(e) PROVE RunnerInv'
  BY <1>1 DEF RejectCommand, MarkFails, Deny
<1>2. ASSUME NEW e \in sent, AcceptCommand(e) PROVE RunnerInv'
  BY <1>2 DEF AcceptCommand, Delivered, RunnerFree
<1>3. ASSUME NEW e \in job, ExecPing(e) PROVE job' = {}
  BY <1>3 DEF ExecPing, WorkInv, OneAtWork
<1>4. ASSUME NEW e \in job \cup finishing, Execute(e), ~ExecPing(e)
      PROVE  job' \subseteq job /\ saving' \subseteq saving
  BY <1>4 DEF Execute, ExecOpen, ExecHold, ScheduleRelease, ExecClose, ExecLockdown,
     FinishPing, ExecRepair, ExecConfig, ExecUnknown, Fail, Finish, SaveSync
<1>5. ASSUME NEW e \in job \cup finishing, Execute(e) PROVE RunnerInv'
  BY <1>3, <1>4, <1>5 DEF ExecPing
<1>6. CASE SignCommand \/ Tamper
  BY <1>6 DEF SignCommand, Tamper
<1>7. CASE HoldTimerExpires \/ \E n \in Nonce : HoldTimerReleases(n)
  BY <1>7 DEF HoldTimerExpires, HoldTimerReleases
<1>8. CASE PulseEnds \/ SaveConnectSync \/ Disconnect \/ Tick
  BY <1>8 DEF PulseEnds, SaveConnectSync, SaveSync, Disconnect, Tick, PassTime
<1>9. CASE Connect
  BY <1>9 DEF Connect, RunnerFree
<1>10. CASE Restart
  BY <1>10 DEF Restart
<1>11. CASE UNCHANGED vars
  BY <1>11 DEF vars
<1> QED
  BY <1>1, <1>2, <1>5, <1>6, <1>7, <1>8, <1>9, <1>10, <1>11
  DEF Next, CommandStep, ProcessCommand

AgentInv == TypeOK /\ OnceInv /\ WorkInv /\ KeyInv /\ RunnerInv /\ SignedTimes

LEMMA AgentInitially == AgentInit => AgentInv
<1>1. Init => SignedTimes
  BY DEF Init, SignedTimes
<1> QED BY <1>1, InitTypeOK, InitOnce, InitWork, InitKey, InitRunner DEF AgentInit, AgentInv

LEMMA BesideStep == ASSUME AgentInv, Beside PROVE AgentInv'
<1> USE DEF AgentInv
<1>1. UNCHANGED <<clockVars, durableVars, commandVars>>
  BY DEF Beside
<1>2. RelayTypeOK'
  <2>1. CASE UNCHANGED relayVars
    BY <2>1 DEF TypeOK, ControllerTypeOK, RelayTypeOK, relayVars
  <2>2. CASE Pulse
    BY <2>2, RelayCallTypeOK DEF TypeOK, ControllerTypeOK
  <2> QED BY <2>1, <2>2 DEF Beside
<1>3. TypeOK'
  BY <1>1, <1>2 DEF TypeOK, ControllerTypeOK, clockVars, durableVars, commandVars, storeVars,
     timerVars, outVars, onceVars
<1>4. OnceInv'
  <2>1. regressed \/ prunedAt =< clock
    BY DEF OnceInv, ClockNotBehind
  <2> QED BY <1>1, <2>1, CarryOnce DEF clockVars, commandVars, storeVars, onceVars
<1>5. WorkInv'
  BY <1>1, CarryWork DEF commandVars, durableVars
<1>7. KeyInv' /\ RunnerInv'
  BY <1>1 DEF KeyInv, AnsweredAsFailed, RunnerInv, clockVars, durableVars, commandVars, outVars
<1>6. SignedTimes'
  BY <1>1 DEF SignedTimes, clockVars, commandVars
<1> QED BY <1>3, <1>4, <1>5, <1>6, <1>7

LEMMA AgentStep == AgentInv /\ [AgentNext]_allVars => AgentInv'
<1> SUFFICES ASSUME AgentInv, [AgentNext]_allVars PROVE AgentInv' OBVIOUS
<1>1. CASE [Next]_vars
  BY <1>1, NextTypeOK, NextOnce, NextWork, NextKey, NextRunner, NextTimes DEF AgentInv
<1>2. CASE Beside
  BY <1>2, BesideStep
<1> QED BY <1>1, <1>2, AgentKinds

LEMMA AgentInvariance == AgentSpec => []AgentInv
  BY AgentInitially, AgentStep, PTL DEF AgentSpec

(* Redemptions at the same relay do not make a command run twice.          *)
THEOREM AgentCarriesOutOnce == AgentSpec => []AtMostOnce
<1>1. AgentInv => AtMostOnce
  BY DEF AgentInv, OnceInv
<1> QED BY <1>1, AgentInvariance, PTL

(* Nor do they lift a lockdown, or replace the pinned key, or that of the  *)
(* file.                                                                   *)
THEOREM AgentStateIsGuarded == AgentSpec => DurableStateGuarded
<1>1. ASSUME AgentInv, [AgentNext]_allVars PROVE [Guarded]_vars
  <2>1. Beside => UNCHANGED <<lockdown, pinnedKey, keyFile>>
    BY DEF Beside, durableVars
  <2> QED BY <1>1, <2>1, AgentKinds, GuardedStep DEF AgentInv, Guarded
<1> QED BY <1>1, AgentInvariance, PTL DEF AgentSpec, DurableStateGuarded, Guarded

(* Commands find the latch in force although grants are redeemed meanwhile.*)
THEOREM AgentLockdownRefuses == AgentSpec => LockdownRefusesCommands
<1>1. ASSUME AgentInv, [AgentNext]_allVars PROVE [Refused]_vars
  <2>1. Beside => UNCHANGED <<job, finishing>>
    BY DEF Beside, commandVars
  <2> QED BY <1>1, <2>1, AgentKinds, RefusedStep DEF AgentInv, Refused
<1> QED BY <1>1, AgentInvariance, PTL DEF AgentSpec, LockdownRefusesCommands, Refused

(* A grant never holds the gate, and does not cut the release of one that  *)
(* is held.                                                                *)
THEOREM AgentHeldGateIsReleasable == ~HardwareFaults /\ AgentSpec => []HeldGateHasRelease
<1> SUFFICES ASSUME ~HardwareFaults PROVE AgentSpec => []HeldGateHasRelease
  OBVIOUS
<1>1. AgentInit => HeldGateHasRelease
  BY DEF AgentInit, Init, ControllerInit, RelayInit, HeldGateHasRelease
<1>2. ASSUME AgentInv, HeldGateHasRelease, [AgentNext]_allVars PROVE HeldGateHasRelease'
  <2>1. CASE [Next]_vars
    BY <1>2, <2>1, HeldStep DEF AgentInv
  <2>2. CASE Beside
    BY <1>2, <2>2 DEF Beside, Pulse, HeldGateHasRelease, relayVars, commandVars, timerVars
  <2> QED BY <1>2, <2>1, <2>2, AgentKinds
<1> QED BY <1>1, <1>2, AgentInvariance, PTL DEF AgentSpec

(* A gate that is held open stays held until a `close`, the release timer  *)
(* or a restart ends the hold: whatever pulses and pulse timers of         *)
(* commands and of grants are about.                                       *)
THEOREM HoldsEndOnPurpose == AgentSpec => HoldEndsOnPurpose
<1> DEFINE Purpose ==
      relay = "held" /\ relay' # "held" =>
        \/ \E e \in job : e.cmd = "close"
        \/ firing' # firing
        \/ Restart
<1>1. ASSUME [AgentNext]_allVars PROVE Purpose
  <2> SUFFICES ASSUME relay = "held", relay' # "held", ~Restart
               PROVE  (\E e \in job : e.cmd = "close") \/ firing' # firing
    OBVIOUS
  <2>1. ASSUME NEW e \in job \cup finishing, Execute(e) PROVE e \in job /\ e.cmd = "close"
    BY <2>1 DEF Execute, ExecOpen, ExecHold, ScheduleRelease, ExecClose, ExecLockdown, ExecPing,
       FinishPing, ExecRepair, ExecConfig, ExecUnknown, Fail, Pulse, PulseRefused, Hold, controllerVars, relayVars
  <2>2. ASSUME NEW e \in sent, RejectCommand(e) \/ MarkFails(e) \/ AcceptCommand(e) PROVE FALSE
    BY <2>2 DEF RejectCommand, MarkFails, AcceptCommand, Deny, controllerVars, relayVars
  <2>3. ~(SignCommand \/ Tamper \/ HoldTimerExpires \/ Connect \/ SaveConnectSync \/ Disconnect \/ Tick)
    BY DEF SignCommand, Tamper, HoldTimerExpires, Connect, SaveConnectSync, Disconnect, Tick,
       controllerVars, relayVars
  <2>4. ASSUME NEW n \in Nonce, HoldTimerReleases(n) PROVE firing' # firing
    BY <2>4 DEF HoldTimerReleases
  <2>5. ~PulseEnds
    BY DEF PulseEnds, PulseTimerFires
  <2>6. ~Beside
    BY DEF Beside, Pulse, PulseRefused, relayVars
  <2>7. ~UNCHANGED vars
    BY DEF vars, controllerVars, relayVars
  <2> QED BY <1>1, <2>1, <2>2, <2>3, <2>4, <2>5, <2>6, <2>7, AgentKinds
       DEF Next, CommandStep, ProcessCommand
<1> HIDE DEF Purpose
<1>2. AgentSpec => [][Purpose]_allVars
  BY <1>1, PTL DEF AgentSpec
<1> QED BY <1>2 DEF HoldEndsOnPurpose, Purpose

(* With the latch down and no redemption under way nothing opens the gate  *)
(* and no redemption begins, whatever is delivered, redeemed or restarted. *)
THEOREM LockdownIsQuiet == AgentSpec => LockdownQuiesces
<1> DEFINE Quiet ==
      lockdown /\ RequestsDone =>
        /\ relay' \in {relay, "idle"}
        /\ RequestsDone'
<1>1. ASSUME AgentInv, [AgentNext]_allVars PROVE Quiet
  <2> SUFFICES ASSUME lockdown, RequestsDone
               PROVE  relay' \in {relay, "idle"} /\ RequestsDone'
    OBVIOUS
  <2>1. CASE CommandStep /\ UNCHANGED grantVars
    <3>1. RequestsDone'
      BY <2>1 DEF RequestsDone, grantVars
    <3>2. ASSUME NEW e \in job \cup finishing, Execute(e) PROVE relay' = relay
      BY <1>1, <3>2, ExecuteRefused DEF AgentInv
    <3>3. ASSUME NEW e \in sent, RejectCommand(e) \/ MarkFails(e) \/ AcceptCommand(e)
          PROVE  relay' = relay
      BY <3>3 DEF RejectCommand, MarkFails, AcceptCommand, Deny, controllerVars, relayVars
    <3>4. SignCommand \/ Tamper \/ HoldTimerExpires \/ Connect \/ SaveConnectSync \/ Disconnect \/ Tick
          => relay' = relay
      BY DEF SignCommand, Tamper, HoldTimerExpires, Connect, SaveConnectSync, Disconnect, Tick,
         controllerVars, relayVars
    <3>5. ASSUME NEW n \in Nonce, HoldTimerReleases(n) PROVE relay' \in {relay, "idle"}
      BY <3>5 DEF HoldTimerReleases, Release, relayVars
    <3>6. PulseEnds => relay' \in {relay, "idle"}
      BY DEF PulseEnds, PulseTimerFires
    <3>7. relay' \in {relay, "idle"}
      BY <2>1, <3>2, <3>3, <3>4, <3>5, <3>6 DEF CommandStep, ProcessCommand
    <3> QED BY <3>1, <3>7
  <2>2. CASE Redemption!GrantStep /\ UNCHANGED commandVars
    <3> USE DEF Redemption!controllerVars, Redemption!relayVars, Redemption!sessionVars, RequestsDone
    <3>1. ASSUME NEW g \in Grants, Redemption!HandleOpen(g) PROVE UNCHANGED <<relay, step>>
      BY <3>1 DEF Redemption!HandleOpen
    <3>2. Redemption!SignProof => UNCHANGED <<relay, step>>
      BY DEF Redemption!SignProof
    <3>3. ASSUME NEW s \in Session, NEW p \in proofs, Redemption!CheckProof(s, p) PROVE FALSE
      BY <3>3 DEF Redemption!CheckProof
    <3>4. ASSUME NEW s \in Session, Redemption!Redeem(s) PROVE FALSE
      BY <3>4 DEF Redemption!Redeem, Redemption!Consume, Redemption!RecordRedeemed, Redemption!Actuate
    <3>5. UNCHANGED <<relay, step>>
      BY <2>2, <3>1, <3>2, <3>3, <3>4 DEF Redemption!GrantStep
    <3> QED BY <3>5
  <2>3. CASE Restart /\ Redemption!LoseRequests
    BY <2>3 DEF Restart, RestartController, RelayRestart, Redemption!LoseRequests, RequestsDone
  <2>4. CASE UNCHANGED allVars
    BY <2>4 DEF allVars, vars, grantVars, controllerVars, relayVars, RequestsDone
  <2> QED BY <1>1, <2>1, <2>2, <2>3, <2>4 DEF AgentNext
<1> HIDE DEF Quiet
<1>2. AgentSpec => [][Quiet]_allVars
  BY <1>1, AgentInvariance, PTL DEF AgentSpec
<1> QED BY <1>2 DEF LockdownQuiesces, Quiet

-----------------------------------------------------------------------------
(* The agent implements the exchange.                                      *)

(* What a step of the command processor does to the clock, the state file  *)
(* and the relay: the right-hand side of GrantExchange!Environment.        *)
CommandEffect ==
  \/ PassTime /\ UNCHANGED <<durableVars, relayVars>>
  \/ \E ts \in 1..gatewayTime : SyncFromGateway(ts) /\ UNCHANGED <<durableVars, relayVars>>
  \/ SaveSync /\ UNCHANGED relayVars
  \/ /\ saving = {}
     /\ \/ \E latched \in BOOLEAN : SetLockdown(latched)
        \/ \E k \in Key : ApplyRepair(k) \/ ApplyRepairUnwritten(k)
        \/ MergeConfig
     /\ UNCHANGED <<clockVars, relayVars>>
  \/ (Pulse \/ Hold \/ Release) /\ UNCHANGED <<clockVars, durableVars>>
  \/ \E i \in PulseId : PulseTimerFires(i) /\ UNCHANGED <<clockVars, durableVars>>
  \/ UNCHANGED <<clockVars, durableVars, relayVars>>

LEMMA ExecuteEffect ==
  ASSUME AgentInv, NEW e \in job \cup finishing, Execute(e) PROVE CommandEffect
<1> USE DEF CommandEffect, controllerVars
<1>f. Fail(e) => UNCHANGED <<clockVars, durableVars, relayVars>>
  BY DEF Fail
<1>s. e \in job => saving = {}
  BY DEF AgentInv, RunnerInv
<1>t. e.nextKey \in Key /\ e.iat \in 1..gatewayTime
  BY DEF AgentInv, TypeOK, OnceInv, WorkIsSigned, Signed, SignedTimes, Envelope
<1>1. CASE ExecOpen(e) BY <1>1, <1>f DEF ExecOpen
<1>2. CASE ExecHold(e) BY <1>2, <1>f DEF ExecHold
<1>3. CASE ScheduleRelease(e) BY <1>3 DEF ScheduleRelease
<1>4. CASE ExecClose(e) BY <1>4, <1>f DEF ExecClose
<1>5. CASE ExecLockdown(e)
  <2>1. (e.cmd = "lockdown") \in BOOLEAN OBVIOUS
  <2> QED BY <1>5, <1>f, <1>s, <2>1 DEF ExecLockdown
<1>6. CASE ExecPing(e) BY <1>6, <1>t DEF ExecPing
<1>7. CASE ExecRepair(e) BY <1>7, <1>f, <1>s, <1>t DEF ExecRepair
<1>8. CASE ExecConfig(e) BY <1>8, <1>f, <1>s DEF ExecConfig
<1>9. CASE ExecUnknown(e) BY <1>9, <1>f DEF ExecUnknown
<1>10. CASE FinishPing(e) BY <1>10 DEF FinishPing
<1> QED
  BY <1>1, <1>2, <1>3, <1>4, <1>5, <1>6, <1>7, <1>8, <1>9, <1>10 DEF Execute

LEMMA CommandEffects == ASSUME AgentInv, CommandStep PROVE CommandEffect
<1> USE DEF CommandEffect, controllerVars
<1>1. CASE SignCommand \/ Tamper \/ HoldTimerExpires \/ Disconnect
  BY <1>1 DEF SignCommand, Tamper, HoldTimerExpires, Disconnect
<1>2. ASSUME NEW e \in sent, RejectCommand(e) \/ MarkFails(e) \/ AcceptCommand(e) PROVE CommandEffect
  BY <1>2 DEF RejectCommand, MarkFails, AcceptCommand, Deny
<1>3. ASSUME NEW n \in Nonce, HoldTimerReleases(n) PROVE CommandEffect
  BY <1>3 DEF HoldTimerReleases
<1>4. CASE PulseEnds
  BY <1>4 DEF PulseEnds
<1>5. CASE Connect
  <2>1. gatewayTime \in 1..gatewayTime
    BY DEF AgentInv, TypeOK, ControllerTypeOK
  <2> QED BY <1>5, <2>1 DEF Connect
<1>6. CASE Tick
  BY <1>6 DEF Tick
<1>7. CASE SaveConnectSync
  BY <1>7 DEF SaveConnectSync
<1> QED
  BY <1>1, <1>2, <1>3, <1>4, <1>5, <1>6, <1>7, ExecuteEffect DEF CommandStep, ProcessCommand

(* Everything the exchange's own model lets its environment do.            *)
LEMMA EffectAllowed ==
  ASSUME CommandEffect, UNCHANGED grantVars
  PROVE  Redemption!Environment \/ UNCHANGED Redemption!exchangeVars
<1>1. UNCHANGED Redemption!grantVars
  BY DEF grantVars, Redemption!grantVars, Redemption!tableVars, Redemption!sessionVars,
     Redemption!appVars, Redemption!recordVars, Redemption!openVars
<1>2. /\ Redemption!clockVars = clockVars /\ Redemption!durableVars = durableVars
      /\ Redemption!relayVars = relayVars
  BY DEF Redemption!clockVars, Redemption!durableVars, Redemption!relayVars,
     clockVars, durableVars, relayVars
<1> USE DEF Redemption!Environment, Redemption!exchangeVars, Redemption!controllerVars,
            Redemption!clockVars, Redemption!durableVars, Redemption!relayVars,
            clockVars, durableVars, relayVars
<1>3. CASE PassTime /\ UNCHANGED <<durableVars, relayVars>>
  BY <1>1, <1>3 DEF PassTime, Redemption!PassTime
<1>4. CASE \E ts \in 1..gatewayTime : SyncFromGateway(ts) /\ UNCHANGED <<durableVars, relayVars>>
  BY <1>1, <1>4 DEF SyncFromGateway, Redemption!SyncFromGateway
<1>5. CASE SaveSync /\ UNCHANGED relayVars
  BY <1>1, <1>5 DEF SaveSync, Redemption!SaveSync
<1>6. CASE /\ saving = {}
           /\ \/ \E latched \in BOOLEAN : SetLockdown(latched)
              \/ \E k \in Key : ApplyRepair(k) \/ ApplyRepairUnwritten(k)
              \/ MergeConfig
           /\ UNCHANGED <<clockVars, relayVars>>
  BY <1>1, <1>6 DEF SetLockdown, ApplyRepair, ApplyRepairUnwritten, MergeConfig,
     Redemption!SetLockdown, Redemption!ApplyRepair, Redemption!ApplyRepairUnwritten,
     Redemption!MergeConfig
<1>7. CASE (Pulse \/ Hold \/ Release) /\ UNCHANGED <<clockVars, durableVars>>
  <2>1. Pulse => Redemption!Pulse
    BY DEF Pulse, PulseRefused, Redemption!Pulse, Redemption!PulseRefused
  <2>2. Hold => Redemption!Hold
    BY DEF Hold, Redemption!Hold
  <2>3. Release => Redemption!Release
    BY DEF Release, Redemption!Release
  <2> QED BY <1>1, <1>7, <2>1, <2>2, <2>3
<1>8. CASE \E i \in PulseId : PulseTimerFires(i) /\ UNCHANGED <<clockVars, durableVars>>
  BY <1>1, <1>8 DEF PulseTimerFires, Redemption!PulseTimerFires
<1>9. CASE UNCHANGED <<clockVars, durableVars, relayVars>>
  BY <1>1, <1>9
<1> QED BY <1>3, <1>4, <1>5, <1>6, <1>7, <1>8, <1>9 DEF CommandEffect

LEMMA AgentInitImplements == AgentInit => Redemption!ExchangeInit
  BY DEF AgentInit, Init, ControllerInit, RelayInit, WallClock, Redemption!ExchangeInit,
     Redemption!ControllerInit, Redemption!RelayInit, Redemption!WallClock

LEMMA AgentStepImplements ==
  AgentInv /\ [AgentNext]_allVars => [Redemption!ExchangeNext]_(Redemption!exchangeVars)
<1> SUFFICES ASSUME AgentInv, [AgentNext]_allVars
             PROVE  Redemption!ExchangeNext \/ UNCHANGED Redemption!exchangeVars
  OBVIOUS
<1>1. CASE CommandStep /\ UNCHANGED grantVars
  BY <1>1, CommandEffects, EffectAllowed DEF Redemption!ExchangeNext
<1>2. CASE Redemption!GrantStep
  BY <1>2 DEF Redemption!ExchangeNext
<1>3. CASE Restart /\ Redemption!LoseRequests
  <2>1. RestartController => Redemption!RestartController
    BY DEF RestartController, RelayRestart, WallClock, durableVars, Redemption!RestartController,
       Redemption!RelayRestart, Redemption!WallClock, Redemption!durableVars
  <2> QED BY <1>3, <2>1 DEF Restart, Redemption!GrantRestart, Redemption!ExchangeNext
<1>4. CASE UNCHANGED allVars
  BY <1>4 DEF allVars, vars, controllerVars, clockVars, durableVars, relayVars, grantVars,
     Redemption!exchangeVars, Redemption!controllerVars, Redemption!clockVars,
     Redemption!durableVars, Redemption!relayVars, Redemption!grantVars, Redemption!tableVars,
     Redemption!sessionVars, Redemption!appVars, Redemption!recordVars, Redemption!openVars
<1> QED BY <1>1, <1>2, <1>3, <1>4 DEF AgentNext

(* Every behaviour of the agent is one of the exchange in its environment: *)
(* what is shown of the exchange by itself holds of it inside the agent.   *)
THEOREM ImplementsExchange == AgentSpec => Redemption!ExchangeSpec
  BY AgentInitImplements, AgentStepImplements, AgentInvariance, PTL
  DEF AgentSpec, Redemption!ExchangeSpec

=============================================================================
