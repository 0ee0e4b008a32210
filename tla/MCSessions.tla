----------------------------- MODULE MCSessions -----------------------------
(* Small instances of Sessions. *)
EXTENDS Sessions, TLC

(* People and requests in flight are interchangeable. *)
Symmetry == Permutations(User) \cup Permutations(Req)

=============================================================================
