-------------------------------- MODULE Relay --------------------------------
(***************************************************************************)
(* The actuation seam of the controller: relay.Mock, the relay the agent   *)
(* installs unless a hardware driver is supplied.  Every Pulse starts a    *)
(* background timer of its own that nothing ever cancels; the timer        *)
(* returns the relay to idle if it finds it pulsing.                       *)
(*                                                                         *)
(* Durations are abstracted: a running timer may fire at any time, in any  *)
(* order (the `config` command may change pulse_ms between two pulses).    *)
(***************************************************************************)
EXTENDS Integers

CONSTANTS
  PulseId,  (* identities for pulses whose timer still runs: bounds their number *)
  NoPulse   (* "no pulse yet"                                                    *)

ASSUME RelayAssumption == NoPulse \notin PulseId

VARIABLES
  relay,        (* Mock.state                                        *)
  pulseTimers,  (* pulses whose AfterFunc has not run yet            *)
  currentPulse  (* history: the pulse most recently asked for        *)

relayVars == <<relay, pulseTimers, currentPulse>>

RelayTypeOK ==
  /\ relay \in {"idle", "pulsing", "held"}
  /\ pulseTimers \subseteq PulseId
  /\ currentPulse \in PulseId \cup {NoPulse}

RelayInit ==
  /\ relay = "idle"
  /\ pulseTimers = {}
  /\ currentPulse = NoPulse

-----------------------------------------------------------------------------
(* The calls.  A failed call (a hardware error, or Pulse while held)       *)
(* leaves the relay as it is: UNCHANGED relayVars at the caller.           *)

PulseRefused == relay = "held"

Pulse ==
  \E i \in PulseId \ pulseTimers :
    /\ ~PulseRefused
    /\ relay' = "pulsing"
    /\ pulseTimers' = pulseTimers \cup {i}
    /\ currentPulse' = i

Hold ==
  /\ relay' = "held"
  /\ UNCHANGED <<pulseTimers, currentPulse>>

Release ==
  /\ relay' = "idle"
  /\ UNCHANGED <<pulseTimers, currentPulse>>

(* Mutant: the timer does not look at the relay's state.                   *)
PulseTimerReleases(i) ==
  /\ i \in pulseTimers
  /\ relay' = "idle"
  /\ pulseTimers' = pulseTimers \ {i}
  /\ UNCHANGED currentPulse

(* The AfterFunc of pulse i: it looks only at the relay's state.           *)
PulseTimerFires(i) ==
  /\ i \in pulseTimers
  /\ relay' = IF relay = "pulsing" THEN "idle" ELSE relay
  /\ pulseTimers' = pulseTimers \ {i}
  /\ UNCHANGED currentPulse

(* A restarted process builds a new Mock; its predecessor's timers died.   *)
RelayRestart ==
  /\ relay' = "idle"
  /\ pulseTimers' = {}
  /\ currentPulse' = NoPulse
=============================================================================
