---------------------------- MODULE MeteredGate ----------------------------
(***************************************************************************)
(* What the limits of a gate promise to those who set them: the opens of   *)
(* one window stay within every limit, and nobody opens twice within one   *)
(* cooldown.  OpenPath implements this gate.                               *)
(***************************************************************************)
EXTENDS Naturals, Functions

CONSTANTS Member, Admin, Visitor, HourCap, AcctCap, MemberQuota, LocQuota

Subject == Member \cup Visitor
Limited == Subject \ Admin

VARIABLES opened, cooling

Init == opened = [s \in Subject |-> 0] /\ cooling = {}

Total(people) == SumFunctionOnSet(opened, people)

(* Owners and admins are exempt from the quotas, not from the rate limits. *)
Within ==
    /\ \A s \in Subject : opened[s] <= HourCap
    /\ \A s \in Limited : opened[s] <= MemberQuota
    /\ Total(Subject) <= AcctCap
    /\ Total(Limited) <= LocQuota

(* The gate opens once for each of some people, none of them cooling down. *)
Open(people) ==
    /\ people # {}
    /\ people \cap cooling = {}
    /\ opened' = [s \in Subject |-> opened[s] + IF s \in people THEN 1 ELSE 0]
    /\ cooling' = cooling \cup people
    /\ Within'

CooldownElapses(s) ==
    /\ s \in cooling
    /\ cooling' = cooling \ {s}
    /\ UNCHANGED opened

Next ==
    \/ \E people \in SUBSET Subject : Open(people)
    \/ \E s \in Subject : CooldownElapses(s)

Spec == Init /\ [][Next]_<<opened, cooling>>

=============================================================================
