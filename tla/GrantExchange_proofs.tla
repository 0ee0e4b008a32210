------------------------ MODULE GrantExchange_proofs ------------------------
(***************************************************************************)
(* Proofs about GrantExchange and GrantAnchor, for any number of sessions, *)
(* challenges and grants, any skew, lifetime and stale limit, with and     *)
(* without faults.                                                         *)
(***************************************************************************)
EXTENDS GrantAnchor, TLAPS

(* Challenges are drawn once, and one that was consumed has left the table; *)
(* a session redeems one at a time.                                        *)
ChallengesDrawn ==
  /\ \A x \in pending : x.cnonce \in issued /\ x.cnonce \notin consumed
  /\ \A s \in Session : \A x, y \in work[s] : x = y /\ x.cnonce \in issued
  /\ consumed \subseteq issued

(* A redemption that has come past its record is on durable storage.       *)
RecordedFirst ==
  StorageFaults \/ /\ opened \subseteq audited
                   /\ \A s \in Session : step[s] = "actuate" => \A x \in work[s] : x.cnonce \in audited

ExchangeInv == ExchangeTypeOK /\ ChallengesDrawn /\ RecordedFirst

-----------------------------------------------------------------------------
LEMMA ExchangeInitially == ExchangeInit => ExchangeInv
<1> SUFFICES ASSUME ExchangeInit PROVE ExchangeInv
  OBVIOUS
<1> USE StateAssumption DEF ExchangeInit, GrantInit
<1>1. ControllerTypeOK
  <2>1. RelayTypeOK /\ synced \in BOOLEAN /\ lockdown \in BOOLEAN
    BY DEF ControllerInit, RelayInit, RelayTypeOK
  <2>2. gatewayTime \in 1..MaxTime + 1 /\ clock \in Nat /\ lastSync \in Nat
        /\ saving = {} /\ syncFile \in Nat
    BY DEF ControllerInit, WallClock
  <2> QED BY <2>1, <2>2 DEF ControllerInit, ControllerTypeOK
<1>2. GrantTypeOK /\ ChallengesDrawn /\ RecordedFirst
  BY DEF GrantTypeOK, ChallengesDrawn, RecordedFirst
<1> QED BY <1>1, <1>2 DEF ExchangeInv, ExchangeTypeOK

(* What the relay's calls, the environment and a restart leave well-typed. *)
LEMMA RelayCallKeepsType ==
  ASSUME RelayTypeOK,
         \/ Pulse \/ Hold \/ Release \/ RelayRestart
         \/ \E i \in PulseId : PulseTimerFires(i)
  PROVE  RelayTypeOK'
  BY DEF RelayTypeOK, Pulse, Hold, Release, RelayRestart, PulseTimerFires

LEMMA EnvironmentKeepsType ==
  ASSUME ControllerTypeOK, Environment \/ RestartController
  PROVE  ControllerTypeOK'
<1> USE StateAssumption DEF ControllerTypeOK, RelayTypeOK
<1>1. CASE PassTime /\ UNCHANGED <<durableVars, relayVars>>
  BY <1>1 DEF PassTime, durableVars, relayVars
<1>2. CASE \E ts \in 1..gatewayTime : SyncFromGateway(ts) /\ UNCHANGED <<durableVars, relayVars>>
  BY <1>2 DEF SyncFromGateway, durableVars, relayVars
<1>3. CASE SaveSync /\ UNCHANGED relayVars
  BY <1>3 DEF SaveSync, relayVars
<1>4. ASSUME UNCHANGED <<clockVars, relayVars>>,
             \/ \E latched \in BOOLEAN : SetLockdown(latched)
             \/ \E k \in Key : ApplyRepair(k) \/ ApplyRepairUnwritten(k)
             \/ MergeConfig
      PROVE  ControllerTypeOK'
  BY <1>4 DEF SetLockdown, ApplyRepair, ApplyRepairUnwritten, MergeConfig, clockVars, relayVars
<1>5. CASE /\ Pulse \/ Hold \/ Release \/ \E i \in PulseId : PulseTimerFires(i)
           /\ UNCHANGED <<clockVars, durableVars>>
  <2>1. RelayTypeOK'
    BY <1>5, RelayCallKeepsType
  <2> QED BY <1>5, <2>1 DEF clockVars, durableVars
<1>6. CASE RestartController
  <2>1. RelayTypeOK'
    BY <1>6, RelayCallKeepsType DEF RestartController
  <2>2. clock' \in Nat
    BY <1>6 DEF RestartController, WallClock
  <2> QED BY <1>6, <2>1, <2>2 DEF RestartController, durableVars
<1> QED BY <1>1, <1>2, <1>3, <1>4, <1>5, <1>6 DEF Environment

LEMMA OpenStep ==
  ASSUME ExchangeInv, NEW g \in Grants, HandleOpen(g)
  PROVE  ExchangeInv'
<1> USE DEF ExchangeInv, ExchangeTypeOK, GrantTypeOK
<1> PICK c \in Cnonce \ issued :
      /\ issued' = issued \cup {c}
      /\ pending' = {x \in pending : clock =< x.exp + Skew}
                      \cup {[cnonce |-> c, grant |-> g, exp |-> ChallengeEnd]}
  BY DEF HandleOpen
<1>1. UNCHANGED <<controllerVars, sessionVars, proofs, recordVars, consumed, openVars>>
  BY DEF HandleOpen
<1>2. ControllerTypeOK'
  BY <1>1 DEF ControllerTypeOK, RelayTypeOK, controllerVars, clockVars, durableVars, relayVars
<1>3. [cnonce |-> c, grant |-> g, exp |-> ChallengeEnd] \in Exchange
  BY GrantAssumption DEF Exchange, ChallengeEnd, ControllerTypeOK
<1>4. GrantTypeOK'
  BY <1>1, <1>3 DEF HandleOpen, sessionVars, recordVars, openVars
<1>5. ChallengesDrawn'
  BY <1>1 DEF ChallengesDrawn, sessionVars
<1>6. RecordedFirst'
  BY <1>1 DEF RecordedFirst, sessionVars, recordVars, openVars
<1> QED BY <1>2, <1>4, <1>5, <1>6

LEMMA SignStep == ASSUME ExchangeInv, SignProof PROVE ExchangeInv'
<1> USE DEF ExchangeInv, ExchangeTypeOK, GrantTypeOK
<1>1. UNCHANGED <<controllerVars, tableVars, sessionVars, issued, recordVars, consumed, openVars>>
  BY DEF SignProof
<1>2. proofs' \subseteq Proof
  BY DEF SignProof, Proof, ControllerTypeOK
<1>3. ControllerTypeOK'
  BY <1>1 DEF ControllerTypeOK, RelayTypeOK, controllerVars, clockVars, durableVars, relayVars
<1>4. GrantTypeOK' /\ ChallengesDrawn' /\ RecordedFirst'
  BY <1>1, <1>2 DEF ChallengesDrawn, RecordedFirst, tableVars, sessionVars, recordVars, openVars
<1> QED BY <1>3, <1>4

LEMMA CheckStep ==
  ASSUME ExchangeInv, NEW s \in Session, NEW p \in proofs, CheckProof(s, p)
  PROVE  ExchangeInv'
<1> USE DEF ExchangeInv, ExchangeTypeOK, GrantTypeOK
<1> PICK x \in pending : work' = [work EXCEPT ![s] = {x}]
  BY DEF CheckProof
<1>1. /\ step' = [step EXCEPT ![s] = "consume"]
      /\ UNCHANGED <<controllerVars, tableVars, appVars, recordVars, consumed, openVars>>
  BY DEF CheckProof
<1>2. ControllerTypeOK'
  BY <1>1 DEF ControllerTypeOK, RelayTypeOK, controllerVars, clockVars, durableVars, relayVars
<1>3. GrantTypeOK'
  BY <1>1 DEF tableVars, appVars, recordVars, openVars
<1>4. ChallengesDrawn'
  BY <1>1 DEF ChallengesDrawn, tableVars, appVars
<1>5. RecordedFirst'
  BY <1>1 DEF RecordedFirst, recordVars, openVars
<1> QED BY <1>2, <1>3, <1>4, <1>5

(* A session that was also past the lookup consumes the challenge again:   *)
(* it stays out of the table.                                              *)
LEMMA ConsumeStep == ASSUME ExchangeInv, NEW s \in Session, Consume(s) PROVE ExchangeInv'
<1> USE DEF ExchangeInv, ExchangeTypeOK, GrantTypeOK
<1> PICK x \in work[s] :
      /\ pending' = {y \in pending : y.cnonce # x.cnonce}
      /\ used' = {u \in used : u.cnonce # x.cnonce}
                   \cup {[cnonce |-> x.cnonce, until |-> x.exp + Skew]}
      /\ consumed' = consumed \cup {x.cnonce}
  BY DEF Consume
<1>1. /\ step' = [step EXCEPT ![s] = "record"]
      /\ UNCHANGED <<controllerVars, work, appVars, recordVars, openVars>>
  BY DEF Consume
<1>2. ControllerTypeOK'
  BY <1>1 DEF ControllerTypeOK, RelayTypeOK, controllerVars, clockVars, durableVars, relayVars
<1>3. x \in Exchange /\ x.cnonce \in Cnonce /\ x.exp + Skew \in Nat
  BY StateAssumption DEF Exchange
<1>4. GrantTypeOK'
  BY <1>1, <1>3 DEF appVars, recordVars, openVars, UsedEntry
<1>5. ChallengesDrawn'
  BY <1>1 DEF ChallengesDrawn, appVars
<1>6. RecordedFirst'
  BY <1>1 DEF RecordedFirst, recordVars, openVars
<1> QED BY <1>2, <1>4, <1>5, <1>6

LEMMA RecordStep == ASSUME ExchangeInv, NEW s \in Session, RecordRedeemed(s) PROVE ExchangeInv'
<1> USE DEF ExchangeInv, ExchangeTypeOK, GrantTypeOK
<1> PICK x \in work[s] :
      audited' \in {audited \cup {x.cnonce}} \cup (IF StorageFaults THEN {audited} ELSE {})
  BY DEF RecordRedeemed
<1>1. /\ step' = [step EXCEPT ![s] = "actuate"]
      /\ UNCHANGED <<controllerVars, tableVars, work, appVars, answered, denials, consumed, openVars>>
  BY DEF RecordRedeemed
<1>2. ControllerTypeOK'
  BY <1>1 DEF ControllerTypeOK, RelayTypeOK, controllerVars, clockVars, durableVars, relayVars
<1>3. x.cnonce \in Cnonce
  BY DEF Exchange
<1>4. GrantTypeOK'
  BY <1>1, <1>3 DEF tableVars, appVars, openVars
<1>5. ChallengesDrawn'
  BY <1>1 DEF ChallengesDrawn, tableVars, appVars
<1>6. CASE StorageFaults
  BY <1>2, <1>4, <1>5, <1>6 DEF RecordedFirst
<1>7. CASE ~StorageFaults
  <2>1. audited' = audited \cup {x.cnonce} /\ UNCHANGED opened
    BY <1>1, <1>7 DEF openVars
  <2>2. \A y \in work[s] : y = x
    BY DEF ChallengesDrawn
  <2>3. RecordedFirst'
    BY <1>1, <1>7, <2>1, <2>2 DEF RecordedFirst
  <2> QED BY <1>2, <1>4, <1>5, <2>3
<1> QED BY <1>6, <1>7

LEMMA ActuateStep == ASSUME ExchangeInv, NEW s \in Session, Actuate(s) PROVE ExchangeInv'
<1> USE DEF ExchangeInv, ExchangeTypeOK, GrantTypeOK
<1> PICK x \in work[s] :
      /\ answered' = answered \cup {x.cnonce}
      /\ \/ /\ Pulse
            /\ opened' = opened \cup {x.cnonce}
            /\ reopened' = reopened \cup ({x.cnonce} \cap opened)
            /\ UNCHANGED denials
         \/ /\ RelayFaults \/ PulseRefused
            /\ denials' = denials \cup {x.cnonce}
            /\ UNCHANGED <<relayVars, openVars>>
  BY DEF Actuate
<1>1. /\ step[s] = "actuate"
      /\ step' = [step EXCEPT ![s] = "idle"]
      /\ work' = [work EXCEPT ![s] = {}]
      /\ UNCHANGED <<clockVars, durableVars, tableVars, appVars, audited, consumed>>
  BY DEF Actuate
<1>2. RelayTypeOK'
  BY RelayCallKeepsType DEF ControllerTypeOK, RelayTypeOK, relayVars
<1>3. ControllerTypeOK'
  BY <1>1, <1>2 DEF ControllerTypeOK, clockVars, durableVars
<1>4. x.cnonce \in Cnonce
  BY DEF Exchange
<1>5. GrantTypeOK'
  BY <1>1, <1>4 DEF tableVars, appVars, openVars
<1>6. ChallengesDrawn'
  BY <1>1 DEF ChallengesDrawn, tableVars, appVars
<1>7. RecordedFirst'
  BY <1>1 DEF RecordedFirst, openVars
<1> QED BY <1>3, <1>5, <1>6, <1>7

LEMMA ExchangeStep ==
  ASSUME ExchangeInv, [ExchangeNext]_exchangeVars
  PROVE  ExchangeInv'
<1>1. CASE GrantStep
  BY <1>1, OpenStep, SignStep, CheckStep, ConsumeStep, RecordStep, ActuateStep
     DEF GrantStep, Redeem
<1>2. CASE GrantRestart
  <2>1. ControllerTypeOK'
    BY <1>2, EnvironmentKeepsType DEF GrantRestart, ExchangeInv, ExchangeTypeOK
  <2>2. GrantTypeOK' /\ ChallengesDrawn' /\ RecordedFirst'
    BY <1>2 DEF GrantRestart, LoseRequests, ExchangeInv, ExchangeTypeOK, GrantTypeOK,
       ChallengesDrawn, RecordedFirst, appVars, recordVars, openVars
  <2> QED BY <2>1, <2>2 DEF ExchangeInv, ExchangeTypeOK
<1>3. CASE Environment
  <2>1. ControllerTypeOK'
    BY <1>3, EnvironmentKeepsType DEF ExchangeInv, ExchangeTypeOK
  <2>2. UNCHANGED grantVars
    BY <1>3 DEF Environment
  <2>3. GrantTypeOK' /\ ChallengesDrawn' /\ RecordedFirst'
    BY <2>2 DEF ExchangeInv, ExchangeTypeOK, GrantTypeOK, ChallengesDrawn, RecordedFirst,
       grantVars, tableVars, sessionVars, appVars, recordVars, openVars
  <2> QED BY <2>1, <2>3 DEF ExchangeInv, ExchangeTypeOK
<1>4. CASE UNCHANGED exchangeVars
  BY <1>4 DEF exchangeVars, ExchangeInv, ExchangeTypeOK, ControllerTypeOK, RelayTypeOK,
     GrantTypeOK, ChallengesDrawn, RecordedFirst, controllerVars, clockVars, durableVars,
     relayVars, grantVars, tableVars, sessionVars, appVars, recordVars, openVars
<1> QED BY <1>1, <1>2, <1>3, <1>4 DEF ExchangeNext

THEOREM ExchangeInvariance == ExchangeSpec => []ExchangeInv
  BY ExchangeInitially, ExchangeStep, PTL DEF ExchangeSpec

-----------------------------------------------------------------------------
(* The gate never opens on a grant whose redemption is not on durable      *)
(* storage, wherever the process dies and however many requests are being  *)
(* worked on (OnRedeemed: recorded, then actuated).                        *)
THEOREM OpensAreAudited == ExchangeSpec => []AuditedBeforeOpen
<1>1. ExchangeInv => AuditedBeforeOpen
  BY DEF ExchangeInv, RecordedFirst, AuditedBeforeOpen
<1> QED BY <1>1, ExchangeInvariance, PTL

(* Only a proof that passes the checks begins a redemption, of a challenge *)
(* that is in the table.                                                   *)
LEMMA AcceptedByCheck ==
  ASSUME ExchangeInv, [ExchangeNext]_exchangeVars,
         NEW s \in Session, step[s] = "idle", step'[s] = "consume"
  PROVE  \E x \in pending : work'[s] = {x} /\ GrantValid(x.grant) /\ ~Stale
<1> USE DEF ExchangeInv, ExchangeTypeOK, GrantTypeOK
<1>1. CASE GrantStep
  <2>1. ASSUME NEW g \in Grants, HandleOpen(g) PROVE FALSE
    BY <2>1 DEF HandleOpen, sessionVars
  <2>2. CASE SignProof
    BY <2>2 DEF SignProof, sessionVars
  <2>3. ASSUME NEW t \in Session, NEW p \in proofs, CheckProof(t, p)
        PROVE  \E x \in pending : work'[s] = {x} /\ GrantValid(x.grant) /\ ~Stale
    <3>1. t = s
      BY <2>3 DEF CheckProof
    <3> QED BY <2>3, <3>1 DEF CheckProof
  <2>4. ASSUME NEW t \in Session, Redeem(t) PROVE FALSE
    BY <2>4 DEF Redeem, Consume, RecordRedeemed, Actuate
  <2> QED BY <1>1, <2>1, <2>2, <2>3, <2>4 DEF GrantStep
<1>2. CASE GrantRestart
  BY <1>2 DEF GrantRestart, LoseRequests
<1>3. CASE Environment
  BY <1>3 DEF Environment, grantVars, sessionVars
<1>4. CASE UNCHANGED exchangeVars
  BY <1>4 DEF exchangeVars, grantVars, sessionVars
<1> QED BY <1>1, <1>2, <1>3, <1>4 DEF ExchangeNext

(* Once a challenge has been consumed, no request is accepted on it: the   *)
(* table forgets, the process restarts, and it is still not drawn again.   *)
THEOREM ConsumedStaysConsumed == ExchangeSpec => NoReplayOnceConsumed
<1>1. ASSUME ExchangeInv, [ExchangeNext]_exchangeVars
      PROVE  [\A s \in Session : step[s] = "idle" /\ step'[s] = "consume" =>
                \A x \in work'[s] : x.cnonce \notin consumed]_exchangeVars
  BY <1>1, AcceptedByCheck DEF ExchangeInv, ChallengesDrawn
<1> QED BY <1>1, ExchangeInvariance, PTL DEF ExchangeSpec, NoReplayOnceConsumed

-----------------------------------------------------------------------------
(* The latest time heard: unless it was taken back or not written, it is   *)
(* in memory, and in the file whenever no sync waits to be written.        *)
AnchorKept ==
  /\ newest \in Nat /\ anchorLost \in BOOLEAN
  /\ saving \subseteq {lastSync}
  /\ ~anchorLost => lastSync = newest /\ (saving = {} => syncFile = newest)

LEMMA AnchorInitially == AnchorInit => AnchorKept
<1> SUFFICES ASSUME AnchorInit PROVE AnchorKept
  OBVIOUS
<1>1. lastSync = 0 /\ saving = {} /\ syncFile = 0 /\ newest = 0
  BY DEF AnchorInit, ExchangeInit, ControllerInit
<1>2. anchorLost \in BOOLEAN
  BY DEF AnchorInit
<1> QED BY <1>1, <1>2 DEF AnchorKept

(* How a step may change what was heard and what is written of it.         *)
LEMMA AnchorSteps ==
  ASSUME saving \subseteq {lastSync}, [ExchangeNext]_exchangeVars
  PROVE  \/ UNCHANGED <<lastSync, saving, syncFile>>
         \/ \E ts \in Nat : /\ saving = {} /\ saving' = {ts} /\ lastSync' = ts
                            /\ UNCHANGED syncFile
         \/ /\ saving # {} /\ saving' = {} /\ UNCHANGED lastSync
            /\ (saving = {syncFile'}) \/ DiskFaults
            /\ syncFile' \in saving \cup {syncFile}
         \/ /\ saving' = {} /\ lastSync' = syncFile /\ ~synced' /\ UNCHANGED syncFile
<1> USE DEF clockVars, durableVars, controllerVars
<1>1. CASE GrantStep
  BY <1>1 DEF GrantStep, Redeem, HandleOpen, SignProof, CheckProof, Consume, RecordRedeemed, Actuate
<1>2. CASE GrantRestart
  BY <1>2 DEF GrantRestart, RestartController
<1>3. CASE Environment
  <2>1. CASE SaveSync
    BY <2>1 DEF SaveSync
  <2>2. ASSUME NEW ts \in 1..gatewayTime, SyncFromGateway(ts), UNCHANGED durableVars
        PROVE  \E t \in Nat : /\ saving = {} /\ saving' = {t} /\ lastSync' = t
                              /\ UNCHANGED syncFile
    BY <2>2 DEF SyncFromGateway
  <2> QED BY <1>3, <2>1, <2>2 DEF Environment, PassTime, SetLockdown, ApplyRepair,
             ApplyRepairUnwritten, MergeConfig
<1>4. CASE UNCHANGED exchangeVars
  BY <1>4 DEF exchangeVars
<1> QED BY <1>1, <1>2, <1>3, <1>4 DEF ExchangeNext

LEMMA AnchorStep ==
  ASSUME ExchangeInv, AnchorKept, [AnchorNext]_historyVars
  PROVE  AnchorKept'
<1>1. CASE UNCHANGED historyVars
  BY <1>1 DEF historyVars, exchangeVars, controllerVars, clockVars, durableVars, AnchorKept
<1>2. CASE AnchorNext
  <2> USE <1>2 DEF AnchorNext, Remember, AnchorKept, Heard, SaveEnded, SaveLost
  <2>0. lastSync \in Nat /\ syncFile \in Nat
    BY DEF ExchangeInv, ExchangeTypeOK, ControllerTypeOK
  <2>1. CASE UNCHANGED <<lastSync, saving, syncFile>>
    BY <2>1
  <2>2. ASSUME NEW ts \in Nat, saving = {}, saving' = {ts}, lastSync' = ts, UNCHANGED syncFile
        PROVE  AnchorKept'
    BY <2>0, <2>2
  <2>3. CASE /\ saving # {} /\ saving' = {} /\ UNCHANGED lastSync
             /\ (saving = {syncFile'}) \/ DiskFaults
             /\ syncFile' \in saving \cup {syncFile}
    <3>1. saving = {lastSync} /\ UNCHANGED newest
      BY <2>3
    <3>2. ASSUME ~anchorLost' PROVE lastSync' = newest' /\ syncFile' = newest'
      <4>1. saving = {syncFile'}
        BY <2>3, <3>2
      <4>2. syncFile' = lastSync
        BY <3>1, <4>1
      <4>3. lastSync = newest
        BY <2>3, <3>1, <3>2, <4>2
      <4> QED BY <2>3, <3>1, <4>2, <4>3
    <3> QED BY <2>3, <3>1, <3>2
  <2>4. CASE saving' = {} /\ lastSync' = syncFile /\ ~synced' /\ UNCHANGED syncFile
    <3>1. UNCHANGED newest /\ anchorLost' \in BOOLEAN
      BY <2>4
    <3>2. CASE saving = {}
      BY <2>4, <3>1, <3>2
    <3>3. ASSUME saving # {}, ~anchorLost' PROVE syncFile = newest
      <4>1. saving = {syncFile} /\ saving = {lastSync}
        BY <2>4, <3>3
      <4> QED BY <2>4, <3>3, <4>1
    <3> QED BY <2>4, <3>1, <3>2, <3>3
  <2> QED BY <2>1, <2>2, <2>3, <2>4, AnchorSteps
<1> QED BY <1>1, <1>2

(* A grant that had run out by the latest time that the controller ever    *)
(* heard from the gateway opens nothing, whatever the wall clock reads     *)
(* after a power cut, for any skew and any stale limit; unless that time   *)
(* could not be written, a crash came before it was written, or an earlier *)
(* one took it back (Synced.SyncFromGateway, clock.Stale).                 *)
THEOREM ExpiredStaysExpired == AnchorSpec => ExpiredBySyncRefused
<1>1. AnchorInit => ExchangeInv /\ AnchorKept
  BY ExchangeInitially, AnchorInitially DEF AnchorInit
<1>2. [AnchorNext]_historyVars => [ExchangeNext]_exchangeVars
  BY DEF AnchorNext, historyVars
<1>3. ASSUME ExchangeInv, AnchorKept, [AnchorNext]_historyVars
      PROVE  (ExchangeInv /\ AnchorKept)'
  BY <1>2, <1>3, ExchangeStep, AnchorStep
<1>4. ASSUME ExchangeInv, AnchorKept, [AnchorNext]_historyVars
      PROVE  [\A s \in Session : step[s] = "idle" /\ step'[s] = "consume" =>
                \A x \in work'[s] : anchorLost \/ newest =< x.grant.exp + Skew]_historyVars
  <2> SUFFICES ASSUME NEW s \in Session, step[s] = "idle", step'[s] = "consume",
                      NEW x \in work'[s], ~anchorLost
               PROVE  newest =< x.grant.exp + Skew
    OBVIOUS
  <2>1. x \in pending /\ GrantValid(x.grant) /\ ~Stale
    BY <1>2, <1>4, AcceptedByCheck
  <2>2. x.grant.exp \in Nat /\ clock \in Nat /\ lastSync \in Nat /\ Skew \in Nat
    BY <1>4, <2>1, GrantAssumption, StateAssumption
       DEF ExchangeInv, ExchangeTypeOK, GrantTypeOK, ControllerTypeOK, Exchange
  <2>3. newest = lastSync
    BY <1>4 DEF AnchorKept
  <2> QED BY <2>1, <2>2, <2>3 DEF GrantValid, Stale
<1> QED BY <1>1, <1>3, <1>4, PTL DEF AnchorSpec, ExpiredBySyncRefused

=============================================================================
