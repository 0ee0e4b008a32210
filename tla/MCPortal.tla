------------------------------ MODULE MCPortal ------------------------------
(* Two of everything; of two tabs one makes two calls at a time. *)
EXTENDS Portal, TLC

CONSTANTS t1, t2, c1, c2

MCSlots == t1 :> {c1, c2} @@ t2 :> {c1}
=============================================================================
