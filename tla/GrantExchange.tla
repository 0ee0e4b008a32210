---------------------------- MODULE GrantExchange ----------------------------
(***************************************************************************)
(* Offline redemption of gateway-signed grants on a controller: the        *)
(* exchange table (grants.Exchange), the handlers of the LAN listener and  *)
(* the BLE sessions, which all drive that one table, and what the agent    *)
(* does with a redeemed grant (Agent.OnRedeemed).                          *)
(*                                                                         *)
(* Each session handles one proof at a time: it takes a snapshot of the    *)
(* controller and checks the proof against it, consumes the challenge,     *)
(* records the redemption, moves the relay and answers.  Other sessions,   *)
(* the clock, the gateway's commands and process death come in between.    *)
(*                                                                         *)
(* A grant is a record of what the checks read from it: who signed it, its *)
(* validity, the times inside its weekly windows, and whether it names     *)
(* this device and the requested access point.  A proof that is denied     *)
(* changes nothing, whatever the reason: denials by HandleProof are not    *)
(* steps of the model.                                                     *)
(***************************************************************************)
EXTENDS ControllerState, FiniteSets

CONSTANTS
  Session,       (* requests the controller can be working on at a time      *)
  Cnonce,        (* challenge nonces: bounds how many challenges are issued  *)
  Grants,        (* the grants that apps hold                                *)
  CnonceTTL,     (* wire.CnonceTTLSeconds                                    *)
  StaleLimit,    (* wire.StaleClockLimitSeconds                              *)
  MaxProofs,     (* bound on the proofs that apps sign                       *)
  StorageFaults, (* may recording fail on both partition and overflow log?   *)
  RelayFaults    (* may the relay return an error?                           *)

Grant == [key : Key \cup {Forged}, iat : Nat, exp : Nat,
          hours : SUBSET Nat, covers : BOOLEAN]

ASSUME GrantAssumption ==
  /\ \A g \in Grants : /\ DOMAIN g = {"key", "iat", "exp", "hours", "covers"}
                       /\ g.key \in Key \cup {Forged}
                       /\ g.iat \in Nat /\ g.exp \in Nat
                       /\ g.hours \subseteq Nat /\ g.covers \in BOOLEAN
  /\ CnonceTTL \in Nat
  /\ StaleLimit \in Nat
  /\ MaxProofs \in Nat
  /\ StorageFaults \in BOOLEAN
  /\ RelayFaults \in BOOLEAN

VARIABLES
  pending,   (* Exchange.pending                                            *)
  used,      (* Exchange.used                                               *)
  issued,    (* cnonces ever drawn: 128 random bits are not drawn twice     *)
  proofs,    (* proofs the apps have signed; each may be sent again         *)
  step,      (* where each session's request stands                         *)
  work,      (* the exchange each session is redeeming: none or one         *)
  audited,   (* cnonces with a grant_redeemed record on durable storage     *)
  answered,  (* cnonces whose grant.result said "opened"                    *)
  denials,   (* cnonces with a `denied` event: the relay did not move       *)
  (* history variables *)
  consumed,  (* cnonces whose challenge some request has consumed           *)
  opened,    (* cnonces whose redemption moved the relay                    *)
  reopened   (* cnonces whose redemption moved the relay again              *)

tableVars == <<pending, used>>
sessionVars == <<step, work>>
appVars == <<issued, proofs>>
recordVars == <<audited, answered, denials>>
openVars == <<opened, reopened>>
grantVars == <<tableVars, sessionVars, appVars, recordVars, consumed, openVars>>
exchangeVars == <<controllerVars, grantVars>>

Exchange == [cnonce : Cnonce, grant : Grants, exp : Nat]
UsedEntry == [cnonce : Cnonce, until : Nat]
Proof == [cnonce : Cnonce, ts : Nat, fits : BOOLEAN]

GrantTypeOK ==
  /\ pending \subseteq Exchange
  /\ used \subseteq UsedEntry
  /\ issued \subseteq Cnonce
  /\ proofs \subseteq Proof
  /\ step \in [Session -> {"idle", "consume", "record", "actuate"}]
  /\ work \in [Session -> SUBSET Exchange]
  /\ audited \subseteq Cnonce /\ answered \subseteq Cnonce /\ denials \subseteq Cnonce
  /\ consumed \subseteq Cnonce
  /\ opened \subseteq Cnonce /\ reopened \subseteq Cnonce

GrantInit ==
  /\ pending = {} /\ used = {} /\ issued = {} /\ proofs = {}
  /\ step = [s \in Session |-> "idle"]
  /\ work = [s \in Session |-> {}]
  /\ audited = {} /\ answered = {} /\ denials = {}
  /\ consumed = {} /\ opened = {} /\ reopened = {}

-----------------------------------------------------------------------------
(* grant.open: draw a challenge, after dropping what has expired (gcLocked).*)

ChallengeEnd == clock + CnonceTTL

HandleOpen(g) ==
  /\ \E c \in Cnonce \ issued :
       /\ issued' = issued \cup {c}
       /\ pending' = {x \in pending : clock =< x.exp + Skew}
                       \cup {[cnonce |-> c, grant |-> g, exp |-> ChallengeEnd]}
  /\ used' = {u \in used : clock =< u.until}
  /\ UNCHANGED <<controllerVars, sessionVars, proofs, recordVars, consumed, openVars>>

(* The app answers a challenge.  `fits` stands for what HandleProof checks *)
(* of the proof alone: its grant_id, its access point, its signature.      *)
SignProof ==
  /\ Cardinality(proofs) < MaxProofs
  /\ \E c \in issued, fits \in BOOLEAN :
       proofs' = proofs \cup {[cnonce |-> c, ts |-> gatewayTime, fits |-> fits]}
  /\ UNCHANGED <<controllerVars, tableVars, sessionVars, issued, recordVars, consumed, openVars>>

-----------------------------------------------------------------------------
(* grant.proof.                                                            *)

(* clock.Stale: two-sided.  Mutant: the one-sided check it replaced.       *)
StaleForward == lastSync = 0 \/ clock - lastSync > StaleLimit

Stale ==
  \/ lastSync = 0
  \/ clock - lastSync < 0
  \/ clock - lastSync > StaleLimit

GrantValid(g) ==
  /\ g.key = pinnedKey
  /\ clock >= g.iat - Skew
  /\ clock =< g.exp + Skew
  /\ g.covers
  /\ clock \in g.hours

ProofValid(p, x) ==
  /\ p.fits
  /\ clock =< x.exp
  /\ p.ts >= clock - Skew
  /\ p.ts =< clock + Skew

(* The snapshot (GrantEnv), the lookup and the eleven checks.              *)
(* Mutant: step 2, lockdown, is left out.                                  *)
CheckProofUnlocked(s, p) ==
  /\ step[s] = "idle"
  /\ p \in proofs
  /\ ~Stale
  /\ \E x \in pending :
       /\ x.cnonce = p.cnonce
       /\ GrantValid(x.grant)
       /\ ProofValid(p, x)
       /\ work' = [work EXCEPT ![s] = {x}]
  /\ step' = [step EXCEPT ![s] = "consume"]
  /\ UNCHANGED <<controllerVars, tableVars, appVars, recordVars, consumed, openVars>>

CheckProof(s, p) ==
  /\ step[s] = "idle"
  /\ p \in proofs
  /\ ~Stale
  /\ ~lockdown
  /\ \E x \in pending :
       /\ x.cnonce = p.cnonce
       /\ GrantValid(x.grant)
       /\ ProofValid(p, x)
       /\ work' = [work EXCEPT ![s] = {x}]
  /\ step' = [step EXCEPT ![s] = "consume"]
  /\ UNCHANGED <<controllerVars, tableVars, appVars, recordVars, consumed, openVars>>

(* Mutants: the challenge stays pending; the redemption is not recorded    *)
(* before the relay moves.                                                 *)
ConsumeStaysPending(s) ==
  /\ step[s] = "consume"
  /\ \E x \in work[s] :
       /\ used' = {u \in used : u.cnonce # x.cnonce}
                    \cup {[cnonce |-> x.cnonce, until |-> x.exp + Skew]}
       /\ consumed' = consumed \cup {x.cnonce}
  /\ step' = [step EXCEPT ![s] = "record"]
  /\ UNCHANGED <<controllerVars, pending, work, appVars, recordVars, openVars>>

ConsumeUnrecorded(s) ==
  /\ step[s] = "consume"
  /\ \E x \in work[s] :
       /\ pending' = {y \in pending : y.cnonce # x.cnonce}
       /\ used' = {u \in used : u.cnonce # x.cnonce}
                    \cup {[cnonce |-> x.cnonce, until |-> x.exp + Skew]}
       /\ consumed' = consumed \cup {x.cnonce}
  /\ step' = [step EXCEPT ![s] = "actuate"]
  /\ UNCHANGED <<controllerVars, work, appVars, recordVars, openVars>>

(* It is not looked up again: a session that was also past the lookup      *)
(* consumes the challenge as well.                                         *)
Consume(s) ==
  /\ step[s] = "consume"
  /\ \E x \in work[s] :
       /\ pending' = {y \in pending : y.cnonce # x.cnonce}
       /\ used' = {u \in used : u.cnonce # x.cnonce}
                    \cup {[cnonce |-> x.cnonce, until |-> x.exp + Skew]}
       /\ consumed' = consumed \cup {x.cnonce}
  /\ step' = [step EXCEPT ![s] = "record"]
  /\ UNCHANGED <<controllerVars, work, appVars, recordVars, openVars>>

(* The reserved partition, or else the overflow log, or else the redemption*)
(* goes on unrecorded.                                                     *)
RecordRedeemed(s) ==
  /\ step[s] = "record"
  /\ \E x \in work[s] :
       audited' \in {audited \cup {x.cnonce}} \cup (IF StorageFaults THEN {audited} ELSE {})
  /\ step' = [step EXCEPT ![s] = "actuate"]
  /\ UNCHANGED <<controllerVars, tableVars, work, appVars, answered, denials, consumed, openVars>>

(* The pulse; then the answer, which says "opened" whatever came of it.    *)
(* Mutant: a refused pulse is waited for.                                  *)
ActuateWaiting(s) ==
  /\ step[s] = "actuate"
  /\ Pulse
  /\ \E x \in work[s] :
       /\ opened' = opened \cup {x.cnonce}
       /\ reopened' = reopened \cup ({x.cnonce} \cap opened)
       /\ answered' = answered \cup {x.cnonce}
  /\ step' = [step EXCEPT ![s] = "idle"]
  /\ work' = [work EXCEPT ![s] = {}]
  /\ UNCHANGED <<clockVars, durableVars, tableVars, appVars, audited, denials, consumed>>

Actuate(s) ==
  /\ step[s] = "actuate"
  /\ \E x \in work[s] :
       /\ answered' = answered \cup {x.cnonce}
       /\ \/ /\ Pulse
             /\ opened' = opened \cup {x.cnonce}
             /\ reopened' = reopened \cup ({x.cnonce} \cap opened)
             /\ UNCHANGED denials
          \/ /\ RelayFaults \/ PulseRefused
             /\ denials' = denials \cup {x.cnonce}
             /\ UNCHANGED <<relayVars, openVars>>
  /\ step' = [step EXCEPT ![s] = "idle"]
  /\ work' = [work EXCEPT ![s] = {}]
  /\ UNCHANGED <<clockVars, durableVars, tableVars, appVars, audited, consumed>>

Redeem(s) == Consume(s) \/ RecordRedeemed(s) \/ Actuate(s)

GrantStep ==
  \/ \E g \in Grants : HandleOpen(g)
  \/ SignProof
  \/ \E s \in Session, p \in proofs : CheckProof(s, p)
  \/ \E s \in Session : Redeem(s)

(* The exchange table and the requests are in memory; the records and what *)
(* is outside the controller are not.                                      *)
LoseRequests ==
  /\ pending' = {} /\ used' = {}
  /\ step' = [s \in Session |-> "idle"]
  /\ work' = [s \in Session |-> {}]
  /\ UNCHANGED <<appVars, recordVars, consumed, openVars>>

GrantRestart ==
  /\ RestartController
  /\ LoseRequests

-----------------------------------------------------------------------------
(* The exchange by itself: the gateway's commands and the clock are an     *)
(* environment that may do anything those modules can do.  A ping may      *)
(* carry any time up to the gateway's, as it may have been delayed.        *)

Environment ==
  /\ \/ PassTime /\ UNCHANGED <<durableVars, relayVars>>
     \/ \E ts \in 1..gatewayTime : SyncFromGateway(ts) /\ UNCHANGED <<durableVars, relayVars>>
     \/ SaveSync /\ UNCHANGED relayVars
     \/ /\ saving = {}
        /\ \/ \E latched \in BOOLEAN : SetLockdown(latched)
           \/ \E k \in Key : ApplyRepair(k) \/ ApplyRepairUnwritten(k)
           \/ MergeConfig
        /\ UNCHANGED <<clockVars, relayVars>>
     \/ (Pulse \/ Hold \/ Release) /\ UNCHANGED <<clockVars, durableVars>>
     \/ \E i \in PulseId : PulseTimerFires(i) /\ UNCHANGED <<clockVars, durableVars>>
  /\ UNCHANGED grantVars

ExchangeInit == ControllerInit /\ GrantInit

ExchangeNext == GrantStep \/ GrantRestart \/ Environment

(* A request that has been accepted runs to its end, and timers fire.  The *)
(* fairness of requests is strong only because PulseId is a bound: pulses  *)
(* of commands may take the last identity again and again, while the code  *)
(* has no such bound and never waits for one.                              *)
ExchangeFairness ==
  /\ \A s \in Session : SF_exchangeVars(Redeem(s))
  /\ \A i \in PulseId : WF_exchangeVars(PulseTimerFires(i) /\ UNCHANGED <<clockVars, durableVars, grantVars>>)

ExchangeSpec == ExchangeInit /\ [][ExchangeNext]_exchangeVars

-----------------------------------------------------------------------------
ExchangeTypeOK == ControllerTypeOK /\ GrantTypeOK

(* OnRedeemed: the gate never opens on a grant whose redemption is not on  *)
(* durable storage, wherever the process dies.  Types are right.           *)
AuditedBeforeOpen == ExchangeTypeOK /\ (StorageFaults \/ opened \subseteq audited)

(* Once a challenge has been consumed, no request is accepted on it: not   *)
(* after the table forgot it (gcLocked), not after a restart, not with the *)
(* same proof and not with a new one.                                      *)
NoReplayOnceConsumed ==
  [][\A s \in Session : step[s] = "idle" /\ step'[s] = "consume" =>
       \A x \in work'[s] : x.cnonce \notin consumed]_exchangeVars

(* Every accepted proof is answered, though the gate be held open.         *)
AcceptedIsAnswered == \A s \in Session : step[s] # "idle" ~> step[s] = "idle"

(* A challenge is single-use (HandleProof: "On success the pending entry   *)
(* is consumed (single-use)").                                             *)
RedeemedOnce == reopened = {}
=============================================================================
