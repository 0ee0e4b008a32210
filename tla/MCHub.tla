------------------------------- MODULE MCHub --------------------------------
(* Instances of Hub for TLC.                                               *)
EXTENDS Hub

CONSTANTS n1, n2, s1, s2

MCNonce1 == {n1}
MCNonce2 == {n1, n2}
MCSession2 == {s1, s2}
=============================================================================
