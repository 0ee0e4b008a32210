----------------------------- MODULE MCOpenPath -----------------------------
(* An instance of OpenPath: an admin, a member and a visitor at one gate;   *)
(* the member and the visitor each send the messages below.                 *)
EXTENDS OpenPath, TLC

CONSTANTS ana, bo, vi, m1, m2, m3

Symmetry == Permutations(Req)

MCMember == {ana, bo}
MCAdmin == {ana}
MCVisitor == {vi}
MCMsg == {m1, m2, m3}
MCSender == [m \in MCMsg |-> IF m = m1 THEN bo ELSE vi]
MCCommand == [m \in MCMsg |-> IF m = m3 THEN "close" ELSE "open"]

MCDelivery == {<<m1, m2>>, <<m2, m1, m3>>}

=============================================================================
