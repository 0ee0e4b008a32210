------------------------- MODULE MCCommandProcessor -------------------------
(* Instances of CommandProcessor for TLC.                                  *)
EXTENDS CommandProcessor, TLC

CONSTANTS n1, n2, k1, k2

MCNonce2 == {n1, n2}
MCKey2 == {k1, k2}
MCTTL == {0}

(* Addressed to this device at an access point it serves.                  *)
MCHere == {[mine |-> TRUE, served |-> TRUE]}

(* Nonces are interchangeable, and so are keys: no definition tells two of *)
(* either apart.                                                           *)
MCSymmetry == Permutations(MCNonce2) \cup Permutations(MCKey2)
=============================================================================
