----------------------------- MODULE MCTenancy -----------------------------
(* A small instance of Tenancy: two people with a number, two locations,    *)
(* two gates, two grants.                                                   *)
EXTENDS Tenancy, TLC

CONSTANTS ana, bo, p1

MCOffer == {<<ana, "member", NoPhone>>, <<bo, "owner", p1>>}

(* A late entry of an inspection, a service with both thresholds, and one   *)
(* with a date only.                                                        *)
MCEntry ==
    {[kind |-> "inspection", performed |-> 0, dueAt |-> Null, dueOn |-> Null],
     [kind |-> "service", performed |-> 1, dueAt |-> 8, dueOn |-> 2],
     [kind |-> "service", performed |-> 0, dueAt |-> Null, dueOn |-> 1]}

(* Requests in flight, locations, gates or grants, and keys are             *)
(* interchangeable.  As a behaviour is of one part, the parts share the     *)
(* names of their requests, and of gates and grants.                        *)
Symmetry ==
    Permutations(Req) \cup Permutations(Location) \cup Permutations(Gate) \cup Permutations(Key)

=============================================================================
