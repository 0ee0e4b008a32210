----------------------------- MODULE GrantAnchor -----------------------------
(***************************************************************************)
(* GrantExchange with a memory of what the gateway has told the controller,*)
(* to say what a restart must not forget.  The two history variables       *)
(* follow the steps of the exchange and hinder none of them.               *)
(***************************************************************************)
EXTENDS GrantExchange

VARIABLES
  newest,    (* the latest gateway time that any run has heard              *)
  anchorLost (* was it taken back by an earlier one, or is it not written?  *)

historyVars == <<exchangeVars, newest, anchorLost>>

Heard == saving = {} /\ saving' # {}
SaveEnded == saving # {} /\ saving' = {}

(* The write failed, or the process died before it.                        *)
SaveLost ==
  /\ SaveEnded
  /\ saving # {syncFile'}
  /\ DiskFaults \/ ~synced'

Remember ==
  /\ newest' = IF Heard /\ lastSync' > newest THEN lastSync' ELSE newest
  /\ anchorLost' = \/ Heard /\ lastSync' < newest
                   \/ SaveLost
                   \/ anchorLost /\ ~(SaveEnded /\ syncFile' = newest)

AnchorInit == ExchangeInit /\ newest = 0 /\ anchorLost = FALSE

AnchorNext == ExchangeNext /\ Remember

AnchorSpec == AnchorInit /\ [][AnchorNext]_historyVars

FairAnchorSpec == AnchorSpec /\ ExchangeFairness

-----------------------------------------------------------------------------
(* A grant that had run out by the latest time that this run or any run    *)
(* before it heard from the gateway opens nothing, whatever the wall clock *)
(* says after a power cut: the sync is written before the runner goes on,  *)
(* read back at boot, and clock.Stale refuses a clock behind it (events.md *)
(* "Clock after a power cut").  Excepted, until the file has the latest    *)
(* time again, is one that could not be written, that a crash cut off      *)
(* before it was, or that an earlier timestamp of the gateway took back.   *)
ExpiredBySyncRefused ==
  [][\A s \in Session : step[s] = "idle" /\ step'[s] = "consume" =>
       \A x \in work'[s] : anchorLost \/ newest =< x.grant.exp + Skew]_historyVars
=============================================================================
