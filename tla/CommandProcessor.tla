-------------------------- MODULE CommandProcessor --------------------------
(***************************************************************************)
(* The controller's processing of signed gateway commands: verification    *)
(* (command.Verify), the persistent nonce store (noncestore.Store),        *)
(* execution against the relay and the state store, the acknowledgement    *)
(* and the recorded events (command.Processor).                            *)
(*                                                                         *)
(* One goroutine (transport.Runner) connects and feeds Process, so there   *)
(* is at most one command at work, in `job` until it takes effect and in   *)
(* `finishing` while the handler has more to do.  Running beside it are    *)
(* the timers: the hold_max timer of the last `hold` and the relay's pulse *)
(* timers.  The process may die between any two steps.                     *)
(*                                                                         *)
(* The network keeps every envelope ever signed in `sent` and delivers any *)
(* of them late, again, or never: over a session, which begins by syncing  *)
(* the clock, or to the long-poll fallback, which does not sync.           *)
(***************************************************************************)
EXTENDS ControllerState, FiniteSets

CONSTANTS
  Nonce,         (* command nonces                                         *)
  NoNonce,       (* "none"                                                 *)
  Commands,      (* the commands the gateway sends in this instance        *)
  Addressing,    (* whom it addresses: this device?  an access point it serves? *)
  TTL,           (* the validities (exp - iat) it signs them with          *)
  MaxWindow,     (* wire.MaxCommandWindowSeconds                           *)
  Capacity,      (* noncestore.Capacity                                    *)
  MaxEnvelopes,  (* bound on the envelopes in the network                  *)
  LongPoll,      (* may the runner fall back to polling for commands?      *)
  HardwareFaults (* may a relay call return an error?                      *)

Actuating == {"open", "hold", "close"}                  \* wire.NeedsAccessPoint
LockdownAllowed == {"lift", "ping", "config", "repair"}
AllCommands == Actuating \cup LockdownAllowed \cup {"lockdown", "other"}

ASSUME CommandAssumption ==
  /\ NoNonce \notin Nonce
  /\ Commands \subseteq AllCommands
  /\ Addressing \subseteq [mine : BOOLEAN, served : BOOLEAN]
  /\ TTL \subseteq Nat
  /\ MaxWindow \in Nat
  /\ Capacity \in Nat
  /\ MaxEnvelopes \in Nat
  /\ LongPoll \in BOOLEAN
  /\ HardwareFaults \in BOOLEAN

VARIABLES
  connected,  (* is a gateway session up? (runWS)                          *)
  sent,       (* envelopes in the network                                  *)
  nonces,     (* Store.m: the remembered nonces, in memory                 *)
  nonceFile,  (* nonces.json                                               *)
  job,        (* envelopes Process has accepted and not yet carried out    *)
  finishing,  (* commands that took effect and are not yet answered        *)
  holdTimer,  (* nonce of the hold whose release timer runs, or NoNonce    *)
  firing,     (* holds whose timer has expired, its function still to run  *)
  acks,       (* cmd.ack results produced                                  *)
  events,     (* events recorded                                           *)
  (* history variables *)
  executed,   (* nonces whose command was carried out                      *)
  repeated,   (* nonces whose command was carried out again                *)
  prunedAt,   (* the latest clock reading at which nonces were pruned      *)
  regressed   (* has the clock ever stepped back behind prunedAt?          *)

storeVars == <<nonces, nonceFile, prunedAt>>
timerVars == <<holdTimer, firing>>
onceVars == <<executed, repeated>>
outVars == <<acks, events>>
commandVars == <<connected, sent, storeVars, job, finishing, timerVars, outVars,
                 onceVars, regressed>>
vars == <<controllerVars, commandVars>>

-----------------------------------------------------------------------------
(* `mine`, `served`: is it addressed to this device, at an access point it *)
(* serves; `nextKey` is the payload of repair.                             *)
Envelope == [cmd : AllCommands, nonce : Nonce, iat : Nat, exp : Nat,
             key : Key \cup {Forged}, mine : BOOLEAN, served : BOOLEAN,
             nextKey : Key]

Remembered == [nonce : Nonce, keepUntil : Nat]

Result == {"opened", "held", "closed", "ok", "denied", "error"}
EventKind == {"opened", "closed", "denied"}
Ack == [nonce : Nonce, result : Result]
Event == [kind : EventKind, ref : Nonce \cup {NoNonce}]

TypeOK ==
  /\ ControllerTypeOK
  /\ connected \in BOOLEAN
  /\ sent \subseteq Envelope
  /\ nonces \subseteq Remembered
  /\ nonceFile \subseteq Remembered
  /\ job \subseteq Envelope
  /\ finishing \subseteq Envelope
  /\ holdTimer \in Nonce \cup {NoNonce}
  /\ firing \subseteq Nonce
  /\ acks \subseteq Ack
  /\ events \subseteq Event
  /\ executed \subseteq Nonce
  /\ repeated \subseteq Nonce
  /\ prunedAt \in Nat
  /\ regressed \in BOOLEAN

Init ==
  /\ ControllerInit
  /\ connected = FALSE
  /\ sent = {} /\ nonces = {} /\ nonceFile = {}
  /\ job = {} /\ finishing = {} /\ holdTimer = NoNonce /\ firing = {}
  /\ acks = {} /\ events = {}
  /\ executed = {} /\ repeated = {}
  /\ prunedAt = 0 /\ regressed = FALSE

-----------------------------------------------------------------------------
(* The gateway and the network.                                            *)

SignCommand ==
  /\ Cardinality(sent) < MaxEnvelopes
  /\ \E c \in Commands, n \in Nonce \ {e.nonce : e \in sent}, ttl \in TTL,
        k, next \in Key, to \in Addressing :
       /\ c # "repair" => next = k
       /\ sent' = sent \cup
            {[cmd |-> c, nonce |-> n, iat |-> gatewayTime, exp |-> gatewayTime + ttl,
              key |-> k, mine |-> to.mine, served |-> to.served, nextKey |-> next]}
  /\ UNCHANGED <<controllerVars, connected, storeVars, job, finishing, timerVars, outVars,
                 onceVars, regressed>>

(* A copy altered on the way carries a signature that verifies under no    *)
(* key, and keeps the nonce.                                               *)
Tamper ==
  /\ Cardinality(sent) < MaxEnvelopes
  /\ \E e \in sent : sent' = sent \cup {[e EXCEPT !.key = Forged]}
  /\ UNCHANGED <<controllerVars, connected, storeVars, job, finishing, timerVars, outVars,
                 onceVars, regressed>>

-----------------------------------------------------------------------------
(* Verification.                                                           *)

InWindow(e) ==
  /\ e.iat =< e.exp
  /\ e.exp - e.iat =< MaxWindow
  /\ clock >= e.iat - Skew
  /\ clock =< e.exp + Skew

Seen(n) == \E r \in nonces : r.nonce = n

Addressed(e) == e.mine /\ (e.cmd \in Actuating => e.served)

(* Mutant: the matrix allows opens.                                        *)
OpensPermitted(e) == lockdown => e.cmd \in LockdownAllowed \cup {"open"}

LockdownPermits(e) == lockdown => e.cmd \in LockdownAllowed

Verifies(e) ==
  /\ e.key = pinnedKey
  /\ Addressed(e)
  /\ InWindow(e)
  /\ ~Seen(e.nonce)
  /\ LockdownPermits(e)

(* What the store keeps of an envelope: its nonce, until its window ends.  *)
Horizon(e) == [nonce |-> e.nonce, keepUntil |-> e.exp + Skew]

(* Store.Mark first forgets the nonces whose horizon has passed.           *)
Live == {r \in nonces : ~(r.keepUntil < clock)}

StoreFull == Cardinality(Live) >= Capacity

AckAndRecord(n, result, kinds) ==
  /\ acks' = acks \cup {[nonce |-> n, result |-> result]}
  /\ events' = events \cup {[kind |-> k, ref |-> n] : k \in kinds}

Deny(e) ==
  /\ AckAndRecord(e.nonce, "denied", {"denied"})
  /\ UNCHANGED <<controllerVars, connected, sent, job, finishing, timerVars, onceVars, regressed>>

(* The runner's goroutine does one thing at a time: it has executed the    *)
(* last envelope, and written down the last sync, before it goes on.       *)
RunnerFree == job = {} /\ finishing = {} /\ saving = {}

Delivered(e) ==
  /\ e \in sent
  /\ connected \/ LongPoll
  /\ RunnerFree

RejectCommand(e) ==
  /\ Delivered(e)
  /\ ~Verifies(e)
  /\ Deny(e)
  /\ UNCHANGED storeVars

(* Mark could not remember the nonce: full of live nonces, or not written. *)
(* What it pruned stays pruned in memory.                                  *)
MarkFails(e) ==
  /\ Delivered(e)
  /\ Verifies(e)
  /\ StoreFull \/ DiskFaults
  /\ nonces' = Live
  /\ prunedAt' = IF clock > prunedAt THEN clock ELSE prunedAt
  /\ UNCHANGED nonceFile
  /\ Deny(e)

AcceptCommand(e) ==
  /\ Delivered(e)
  /\ Verifies(e)
  /\ ~StoreFull
  /\ nonces' = Live \cup {Horizon(e)}
  /\ nonceFile' = nonces'
  /\ prunedAt' = IF clock > prunedAt THEN clock ELSE prunedAt
  /\ job' = {e}
  /\ UNCHANGED <<controllerVars, connected, sent, finishing, timerVars, outVars,
                 onceVars, regressed>>

-----------------------------------------------------------------------------
(* Execution.  Finish(e, ...) ends Process for the accepted envelope e.    *)

Finish(e, result, kinds) ==
  /\ AckAndRecord(e.nonce, result, kinds)
  /\ job' = job \ {e}
  /\ finishing' = finishing \ {e}

CarriedOut(e) ==
  /\ executed' = executed \cup {e.nonce}
  /\ repeated' = IF e.nonce \in executed THEN repeated \cup {e.nonce} ELSE repeated

(* The command had no effect: a relay error, a state file not written.     *)
Fail(e) ==
  /\ Finish(e, "error", {"denied"})
  /\ UNCHANGED <<clockVars, durableVars, relayVars, connected, sent, storeVars, onceVars, regressed>>

ExecOpen(e) ==
  /\ e \in job /\ e.cmd = "open"
  /\ \/ /\ Pulse
        /\ CarriedOut(e)
        /\ Finish(e, "opened", {"opened"})
        /\ UNCHANGED <<clockVars, durableVars, connected, sent, storeVars, regressed>>
     \/ (HardwareFaults \/ PulseRefused) /\ Fail(e)
  /\ UNCHANGED timerVars

(* Mutant: the release timer is left out.                                  *)
ExecHoldUnscheduled(e) ==
  /\ e \in job /\ e.cmd = "hold"
  /\ Hold
  /\ CarriedOut(e)
  /\ Finish(e, "held", {"opened"})
  /\ UNCHANGED <<clockVars, durableVars, connected, sent, storeVars, regressed, timerVars>>

ExecHold(e) ==
  /\ e \in job /\ e.cmd = "hold"
  /\ \/ /\ Hold
        /\ CarriedOut(e)
        /\ job' = job \ {e}
        /\ finishing' = finishing \cup {e}
        /\ UNCHANGED <<clockVars, durableVars, connected, sent, storeVars, outVars, regressed>>
     \/ HardwareFaults /\ Fail(e)
  /\ UNCHANGED timerVars

(* scheduleRelease: stopping a timer that has already expired does not     *)
(* stop the function it started, so `firing` stays as it is.               *)
ScheduleRelease(e) ==
  /\ e \in finishing /\ e.cmd = "hold"
  /\ holdTimer' = e.nonce
  /\ Finish(e, "held", {"opened"})
  /\ UNCHANGED <<controllerVars, connected, sent, storeVars, firing, onceVars, regressed>>

(* cancelRelease comes first, whatever Release then answers.               *)
ExecClose(e) ==
  /\ e \in job /\ e.cmd = "close"
  /\ holdTimer' = NoNonce
  /\ \/ /\ Release
        /\ CarriedOut(e)
        /\ Finish(e, "closed", {"closed"})
        /\ UNCHANGED <<clockVars, durableVars, connected, sent, storeVars, regressed>>
     \/ HardwareFaults /\ Fail(e)
  /\ UNCHANGED firing

ExecLockdown(e) ==
  /\ e \in job /\ e.cmd \in {"lockdown", "lift"}
  /\ \/ /\ SetLockdown(e.cmd = "lockdown")
        /\ CarriedOut(e)
        /\ Finish(e, "ok", {})
        /\ UNCHANGED <<clockVars, relayVars, connected, sent, storeVars, regressed>>
     \/ DiskFaults /\ Fail(e)
  /\ UNCHANGED timerVars

(* ping: the clock is set, then the sync is written, then it is answered.  *)
ExecPing(e) ==
  /\ e \in job /\ e.cmd = "ping"
  /\ SyncFromGateway(e.iat)
  /\ regressed' = (regressed \/ clock' < prunedAt)
  /\ CarriedOut(e)
  /\ job' = job \ {e}
  /\ finishing' = finishing \cup {e}
  /\ UNCHANGED <<durableVars, relayVars, connected, sent, storeVars, timerVars, outVars>>

FinishPing(e) ==
  /\ e \in finishing /\ e.cmd = "ping"
  /\ SaveSync
  /\ Finish(e, "ok", {})
  /\ UNCHANGED <<relayVars, connected, sent, storeVars, timerVars, onceVars, regressed>>

(* A repair that could not be written is answered as failed, and the next  *)
(* key is pinned all the same until a restart.  One that names no usable   *)
(* key changes nothing.  Mutant: it is not written and answered as done.   *)
ExecRepairUnwritten(e) ==
  /\ e \in job /\ e.cmd = "repair"
  /\ ApplyRepairUnwritten(e.nextKey)
  /\ CarriedOut(e)
  /\ Finish(e, "ok", {})
  /\ UNCHANGED <<clockVars, relayVars, connected, sent, storeVars, regressed, timerVars>>

ExecRepair(e) ==
  /\ e \in job /\ e.cmd = "repair"
  /\ \/ /\ \/ ApplyRepair(e.nextKey) /\ Finish(e, "ok", {})
           \/ ApplyRepairUnwritten(e.nextKey) /\ Finish(e, "error", {"denied"})
        /\ CarriedOut(e)
        /\ UNCHANGED <<clockVars, relayVars, connected, sent, storeVars, regressed>>
     \/ Fail(e)
  /\ UNCHANGED timerVars

(* config merges timer durations, which the model leaves open; the write   *)
(* takes the rest of the state with it.  A command of an unknown name      *)
(* changes nothing at all.                                                 *)
ExecConfig(e) ==
  /\ e \in job /\ e.cmd = "config"
  /\ \/ /\ MergeConfig
        /\ CarriedOut(e)
        /\ Finish(e, "ok", {})
        /\ UNCHANGED <<clockVars, relayVars, connected, sent, storeVars, regressed>>
     \/ Fail(e)
  /\ UNCHANGED timerVars

ExecUnknown(e) ==
  /\ e \in job /\ e.cmd = "other"
  /\ Fail(e)
  /\ UNCHANGED timerVars

Execute(e) ==
  \/ ExecOpen(e) \/ ExecHold(e) \/ ScheduleRelease(e) \/ ExecClose(e)
  \/ ExecLockdown(e) \/ ExecPing(e) \/ FinishPing(e) \/ ExecRepair(e)
  \/ ExecConfig(e) \/ ExecUnknown(e)

-----------------------------------------------------------------------------
(* Timers, the gateway connection, time and process death.                 *)

HoldTimerExpires ==
  /\ holdTimer # NoNonce
  /\ firing' = firing \cup {holdTimer}
  /\ holdTimer' = NoNonce
  /\ UNCHANGED <<controllerVars, connected, sent, storeVars, job, finishing, outVars,
                 onceVars, regressed>>

(* Mutant: the function gives up when the processor has no timer, as it    *)
(* has once that timer expired.                                            *)
HoldTimerGivesUp(n) ==
  /\ n \in firing
  /\ firing' = firing \ {n}
  /\ IF holdTimer # NoNonce THEN Release ELSE UNCHANGED relayVars
  /\ UNCHANGED <<clockVars, durableVars, connected, sent, storeVars, job, finishing, holdTimer,
                 outVars, onceVars, regressed>>

(* The function the timer started.  It does not look at which hold is in   *)
(* force, and a release that fails is not tried again.                     *)
HoldTimerReleases(n) ==
  /\ n \in firing
  /\ firing' = firing \ {n}
  /\ \/ /\ Release
        /\ events' = events \cup {[kind |-> "closed", ref |-> NoNonce]}
     \/ /\ HardwareFaults
        /\ UNCHANGED <<relayVars, events>>
  /\ UNCHANGED <<clockVars, durableVars, connected, sent, storeVars, job, finishing, holdTimer,
                 acks, onceVars, regressed>>

PulseEnds ==
  /\ \E i \in PulseId : PulseTimerFires(i)
  /\ UNCHANGED <<clockVars, durableVars, commandVars>>

(* runWS: a (re)connection syncs the clock to the challenge's iat.  The    *)
(* goroutine that connects is the one that runs Process.                   *)
Connect ==
  /\ ~connected
  /\ RunnerFree
  /\ connected' = TRUE
  /\ SyncFromGateway(gatewayTime)
  /\ regressed' = (regressed \/ clock' < prunedAt)
  /\ UNCHANGED <<durableVars, relayVars, sent, storeVars, job, finishing, timerVars,
                 outVars, onceVars>>

SaveConnectSync ==
  /\ finishing = {}
  /\ SaveSync
  /\ UNCHANGED <<relayVars, commandVars>>

Disconnect ==
  /\ connected
  /\ connected' = FALSE
  /\ UNCHANGED <<controllerVars, sent, storeVars, job, finishing, timerVars,
                 outVars, onceVars, regressed>>

Tick ==
  /\ PassTime
  /\ UNCHANGED <<durableVars, relayVars, commandVars>>

(* noncestore.Open.  Mutant: it starts empty.                              *)
NothingRead == {}

OpenNonces == nonceFile

(* Memory is lost; the state file and the nonce file are read back.        *)
Restart ==
  /\ RestartController
  /\ connected' = FALSE
  /\ regressed' = (regressed \/ clock' < prunedAt)
  /\ nonces' = OpenNonces
  /\ job' = {} /\ finishing' = {} /\ holdTimer' = NoNonce /\ firing' = {}
  /\ UNCHANGED <<sent, nonceFile, prunedAt, outVars, onceVars>>

ProcessCommand ==
  \/ \E e \in sent : RejectCommand(e) \/ MarkFails(e) \/ AcceptCommand(e)
  \/ \E e \in job \cup finishing : Execute(e)

CommandStep ==
  \/ SignCommand
  \/ Tamper
  \/ ProcessCommand
  \/ HoldTimerExpires
  \/ \E n \in Nonce : HoldTimerReleases(n)
  \/ PulseEnds
  \/ Connect
  \/ SaveConnectSync
  \/ Disconnect
  \/ Tick

Next == CommandStep \/ Restart

Spec == Init /\ [][Next]_vars

-----------------------------------------------------------------------------
(* A signed command is carried out at most once, however often and however *)
(* late the network delivers it and wherever the process dies: the nonce   *)
(* is durable before the relay moves (Verify, noncestore.Mark).  The       *)
(* nonce store forgets by the clock, so this is promised only as long as   *)
(* the clock has not stepped back behind the last pruning.                 *)
AtMostOnce == regressed \/ repeated = {}

(* Why AtMostOnce holds: the inductive invariant behind it.  A signed      *)
(* nonce belongs to one envelope; while its command is at work, or was     *)
(* carried out, memory and the file both remember it, unless a pruning has *)
(* seen the end of the envelope's window; and as long as the clock has not *)
(* stepped back behind that pruning, the window check rejects it then.     *)
Signed == {e \in sent : e.key \in Key}

Spent == executed \cup {e.nonce : e \in job \cup finishing}

UniqueNonces == \A e, f \in Signed : e.nonce = f.nonce => e = f

WorkIsSigned ==
  /\ job \cup finishing \subseteq Signed
  /\ executed \subseteq {e.nonce : e \in Signed}

SpentRemembered ==
  \A e \in Signed : e.nonce \in Spent =>
    \/ Horizon(e) \in nonces \cap nonceFile
    \/ e.exp + Skew < prunedAt

ClockNotBehind == regressed \/ prunedAt =< clock

WorkIsFresh == regressed \/ \A e \in job : e.nonce \notin executed

OnceInv ==
  /\ UniqueNonces
  /\ WorkIsSigned
  /\ SpentRemembered
  /\ ClockNotBehind
  /\ WorkIsFresh
  /\ AtMostOnce

(* No nonce is forgotten while its envelope would still pass the window    *)
(* check, not even to make room, and not by a crash (noncestore.Mark,      *)
(* Open).                                                                  *)
NoLiveNonceForgotten ==
  [][\A r \in nonces : clock =< r.keepUntil => r \in nonces']_vars

(* While lockdown is latched no command makes the relay open: Verify       *)
(* checks the latch before execute acts on it, and only a later command    *)
(* of the same goroutine could latch it in between.                        *)
LockdownRefusesCommands ==
  [][ lockdown /\ (job # job' \/ finishing # finishing') =>
        relay' = relay \/ relay' = "idle" ]_vars

(* The latch survives restarts and ends only by a `lift` signed with the   *)
(* pinned key.  The pinned key changes only by a `repair` signed with the  *)
(* key pinned then, or by a restart, which takes back the key of the file: *)
(* and that happens only when the repair that pinned it was answered as    *)
(* failed.  So the old key is not trusted again once a repair has been     *)
(* acknowledged, whatever fails or restarts; and the file never gets a key *)
(* that is not pinned (state.mutate, ApplyRepair, Open).                   *)
AnsweredAsFailed ==
  \E e \in sent : /\ e.cmd = "repair" /\ e.nextKey = pinnedKey
                  /\ [nonce |-> e.nonce, result |-> "error"] \in acks

DurableStateGuarded ==
  [][ /\ lockdown /\ ~lockdown' => \E e \in job : e.cmd = "lift" /\ e.key = pinnedKey
      /\ pinnedKey' # pinnedKey =>
           \/ \E e \in job : /\ e.cmd = "repair" /\ e.key = pinnedKey
                             /\ e.nextKey = pinnedKey'
           \/ pinnedKey' = keyFile /\ AnsweredAsFailed
      /\ keyFile' # keyFile => keyFile' = pinnedKey' ]_vars

(* A gate that is latched open always has something on its way to release  *)
(* it: a running timer, an expired one whose function has yet to run, or   *)
(* the hold command that is about to start one (scheduleRelease).          *)
HeldGateHasRelease ==
  relay = "held" => \/ \E e \in finishing : e.cmd = "hold"
                    \/ holdTimer # NoNonce
                    \/ firing # {}

(* Hence a held gate is released in the end, without any further command.  *)
HoldIsReleased == relay = "held" ~> relay # "held"
=============================================================================
