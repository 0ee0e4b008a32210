---------------------------- MODULE MCEventQueue ----------------------------
(* Instances of EventQueue for TLC.                                        *)
EXTENDS EventQueue

CONSTANTS e1, e2, e3, d1, d2

MCEvent == {e1, e2, e3}
MCDrainer1 == {d1}
MCDrainer2 == {d1, d2}
=============================================================================
