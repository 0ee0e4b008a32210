--------------------------- MODULE DatabaseClock ---------------------------
(***************************************************************************)
(* What the statements of the Workers backend read besides rows: now(),    *)
(* the time at which their transaction began, and null.                    *)
(***************************************************************************)
EXTENDS Naturals

CONSTANTS
    Null,      \* SQL null: no time, no threshold, no limit
    MaxTime    \* bound: the clock

ASSUME ClockAssumption == Null \notin Nat /\ MaxTime \in Nat

Time == 0 .. MaxTime

VARIABLE now   \* the clock of the database

=============================================================================
