----------------------------- MODULE Controller -----------------------------
(***************************************************************************)
(* One controller as the agent assembles it (agent.New, Agent.Run): the    *)
(* command processor with its timers, fed by the gateway transport, and    *)
(* the offline-grant exchange, fed by the LAN listener and the BLE         *)
(* sessions, over one clock, one state store and one relay.                *)
(***************************************************************************)
EXTENDS CommandProcessor

CONSTANTS Session, Cnonce, Grants, CnonceTTL, StaleLimit, MaxProofs, StorageFaults

VARIABLES pending, used, issued, proofs, step, work, audited, answered, denials,
          consumed, opened, reopened

Redemption == INSTANCE GrantExchange WITH RelayFaults <- HardwareFaults

grantVars == <<pending, used, issued, proofs, step, work, audited, answered, denials,
               consumed, opened, reopened>>
allVars == <<vars, grantVars>>

AgentInit == Init /\ Redemption!GrantInit

AgentNext ==
  \/ CommandStep /\ UNCHANGED grantVars
  \/ Redemption!GrantStep /\ UNCHANGED commandVars
  \/ Restart /\ Redemption!LoseRequests

AgentSpec == AgentInit /\ [][AgentNext]_allVars

(* The runtime runs the timers, and the goroutine that executes a command  *)
(* is never blocked for good, whatever the offline exchange does           *)
(* meanwhile; nothing is assumed of the exchange, of the gateway, of the   *)
(* network or of time.                                                     *)
FairAgentSpec ==
  /\ AgentSpec
  /\ WF_allVars((\E e \in job \cup finishing : Execute(e)) /\ UNCHANGED grantVars)
  /\ WF_allVars(HoldTimerExpires /\ UNCHANGED grantVars)
  /\ \A n \in Nonce : WF_allVars(HoldTimerReleases(n) /\ UNCHANGED grantVars)

-----------------------------------------------------------------------------
(* A gate held open stays held until a `close` command, the release timer  *)
(* or a restart ends the hold: no pulse, of a command or of a grant, and   *)
(* no pulse timer of either, cuts it short (relay.Mock, shared by          *)
(* Processor.execute and Agent.OnRedeemed).                                *)
HoldEndsOnPurpose ==
  [][ relay = "held" /\ relay' # "held" =>
        \/ \E e \in job : e.cmd = "close"
        \/ firing' # firing
        \/ Restart ]_allVars

(* Once lockdown is latched and the redemptions that were accepted before  *)
(* it have run out, nothing opens the gate and no redemption is accepted   *)
(* until it is lifted, not even across a restart.                          *)
RequestsDone == \A s \in Session : step[s] = "idle"

LockdownQuiesces ==
  [][ lockdown /\ RequestsDone =>
        /\ relay' \in {relay, "idle"}
        /\ RequestsDone' ]_allVars
=============================================================================
