---------------------------- MODULE MCController ----------------------------
(* Instances of Controller for TLC.                                        *)
EXTENDS Controller

CONSTANTS n1, n2, k1, s1, c1

MCNonce2 == {n1, n2}
MCKey1 == {k1}
MCTTL == {1}
MCHere == {[mine |-> TRUE, served |-> TRUE]}
MCSession == {s1}
MCCnonce == {c1}
MCGrants == {[key |-> k1, iat |-> 1, exp |-> 5, hours |-> 0..10, covers |-> TRUE]}
=============================================================================
