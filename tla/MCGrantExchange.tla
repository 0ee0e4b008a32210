--------------------------- MODULE MCGrantExchange ---------------------------
(* Instances of GrantExchange, with its history, for TLC.                  *)
EXTENDS GrantAnchor

CONSTANTS s1, s2, c1, k1

MCSession2 == {s1, s2}
MCCnonce1 == {c1}
MCKey1 == {k1}

(* A grant for every hour of the run, one whose windows and validity end   *)
(* early, one that no gateway has signed, one for another device.          *)
Always(k) == [key |-> k, iat |-> 1, exp |-> 5, hours |-> 0..10, covers |-> TRUE]
Early == [key |-> k1, iat |-> 1, exp |-> 1, hours |-> 0..3, covers |-> TRUE]
Elsewhere == [key |-> k1, iat |-> 1, exp |-> 5, hours |-> 0..10, covers |-> FALSE]

MCGrants1 == {Always(k1)}
MCGrants3 == {Always(k1), Always(Forged), Early, Elsewhere}
=============================================================================
