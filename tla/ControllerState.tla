--------------------------- MODULE ControllerState ---------------------------
(***************************************************************************)
(* What the command processor, the offline-grant exchange and the gateway  *)
(* transport of one controller share: the gateway-synced clock             *)
(* (clock.Synced), the durable state store (state.Store) and the relay.    *)
(*                                                                         *)
(* `clock` is what Clock.Now() returns.  `gatewayTime` is the gateway's    *)
(* own clock, which the controller only learns from timestamps it is sent. *)
(* Both advance together; they differ by whatever the last sync, or the    *)
(* wall clock found at boot, left between them.                            *)
(*                                                                         *)
(* The state file is written as a whole, by state.mutate, and read at      *)
(* boot.  Memory and file agree on the lockdown latch whenever mutate has  *)
(* returned; they may differ in the pinned key, after a repair that could  *)
(* not be written, and in the last sync, until it is written.              *)
(***************************************************************************)
EXTENDS Relay

CONSTANTS
  Key,       (* gateway signing keys                                   *)
  Forged,    (* the "key" of a document no gateway key has signed      *)
  Skew,      (* wire.ClockSkewSeconds                                  *)
  MaxTime,   (* bound: the last second of gateway time that is modelled *)
  DiskFaults (* may a write of the state or nonce file fail?           *)

ASSUME StateAssumption ==
  /\ Forged \notin Key
  /\ Skew \in Nat
  /\ MaxTime \in Nat
  /\ DiskFaults \in BOOLEAN

VARIABLES
  gatewayTime,
  clock,      (* Synced.Now()                                          *)
  synced,     (* Synced.synced: has this run heard from the gateway?   *)
  lastSync,   (* Synced.base = Synced.LastGatewaySync(); 0 = never     *)
  saving,     (* a sync that is in memory and still to be written      *)
  lockdown,   (* persisted.Lockdown, in memory and in the file         *)
  pinnedKey,  (* persisted.Pairing.GatewayPubkey, in memory            *)
  keyFile,    (* the same in the file                                  *)
  syncFile    (* persisted.LastGatewaySync                             *)

clockVars == <<gatewayTime, clock, synced, lastSync, saving>>
durableVars == <<lockdown, pinnedKey, keyFile, syncFile>>
controllerVars == <<clockVars, durableVars, relayVars>>

(* What the wall clock of a board without a battery may read at boot.      *)
WallClock == 0..MaxTime

ControllerTypeOK ==
  /\ gatewayTime \in 1..MaxTime + 1
  /\ clock \in Nat
  /\ synced \in BOOLEAN
  /\ lastSync \in Nat
  /\ saving \subseteq Nat
  /\ lockdown \in BOOLEAN
  /\ pinnedKey \in Key
  /\ keyFile \in Key
  /\ syncFile \in Nat
  /\ RelayTypeOK

(* A paired controller that has never been connected.                      *)
ControllerInit ==
  /\ gatewayTime = 1
  /\ clock \in WallClock
  /\ synced = FALSE
  /\ lastSync = 0 /\ saving = {} /\ syncFile = 0
  /\ lockdown = FALSE
  /\ pinnedKey \in Key
  /\ keyFile = pinnedKey
  /\ RelayInit

-----------------------------------------------------------------------------
PassTime ==
  /\ gatewayTime =< MaxTime
  /\ gatewayTime' = gatewayTime + 1
  /\ clock' = clock + 1
  /\ UNCHANGED <<synced, lastSync, saving>>

(* SyncFromGateway: in memory first.  The timestamp is believed as it      *)
(* stands: nothing keeps the clock from moving backward.                   *)
SyncFromGateway(ts) ==
  /\ saving = {}
  /\ clock' = ts
  /\ synced' = TRUE
  /\ lastSync' = ts
  /\ saving' = {ts}
  /\ UNCHANGED gatewayTime

(* The rest of it, after the clock's mutex was released; a failure is only *)
(* logged.                                                                 *)
SaveSync ==
  /\ \E ts \in saving :
       \/ syncFile' = ts /\ keyFile' = pinnedKey
       \/ DiskFaults /\ UNCHANGED <<syncFile, keyFile>>
  /\ saving' = {}
  /\ UNCHANGED <<gatewayTime, clock, synced, lastSync, lockdown, pinnedKey>>

(* A write of the file takes with it what is in memory of the rest.        *)
SetLockdown(latched) ==
  /\ lockdown' = latched
  /\ keyFile' = pinnedKey
  /\ UNCHANGED <<pinnedKey, syncFile>>

MergeConfig ==
  /\ keyFile' = pinnedKey
  /\ UNCHANGED <<lockdown, pinnedKey, syncFile>>

ApplyRepair(next) ==
  /\ pinnedKey' = next
  /\ keyFile' = next
  /\ UNCHANGED <<lockdown, syncFile>>

(* The write failed.  mutate puts back the copy it took of the state, but  *)
(* that copy points to the same Pairing: the next key stays in memory.     *)
ApplyRepairUnwritten(next) ==
  /\ DiskFaults
  /\ pinnedKey' = next
  /\ UNCHANGED <<lockdown, keyFile, syncFile>>

(* Process death and agent.New: the state file is read back, the clock     *)
(* falls back to the wall clock until the next sync, the relay is idle.    *)
RestartController ==
  /\ clock' \in WallClock
  /\ synced' = FALSE
  /\ lastSync' = syncFile
  /\ pinnedKey' = keyFile
  /\ saving' = {}
  /\ UNCHANGED <<gatewayTime, lockdown, keyFile, syncFile>>
  /\ RelayRestart

=============================================================================
