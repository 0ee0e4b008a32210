---------------------------- MODULE SessionEras ----------------------------
(***************************************************************************)
(* Sessions with the history of password changes: era[u] counts those of   *)
(* u, begun[f] is the era in which the family f of refresh tokens began.   *)
(***************************************************************************)
EXTENDS Sessions

CONSTANT MaxEra    \* bound: password changes of one user

VARIABLES era, begun

Changing(r) == IF req[r].op = "reset" THEN reset[req[r].key] ELSE req[r].user

PasswordChange(r) ==
    /\ ResetCommit(r) \/ UpdateCommit(r)
    /\ era[Changing(r)] < MaxEra
    /\ era' = [era EXCEPT ![Changing(r)] = @ + 1]
    /\ begun' = begun

(* Any other step; a family that begins is of its user's present era. *)
OtherStep ==
    /\ Next
    /\ \A r \in Req : req[r].op \in {"reset", "update"} /\ req'[r] # req[r] => Abort(r)
    /\ era' = era
    /\ begun' = [f \in Tok |-> IF f > minted /\ f <= minted' /\ token'[f].family = f
                                 THEN era[token'[f].user] ELSE begun[f]]

ErasSpec ==
    /\ Init /\ era = [u \in User |-> 0] /\ begun = [f \in Tok |-> 0]
    /\ [][OtherStep \/ \E r \in Req : PasswordChange(r)]_<<vars, era, begun>>

(* What routes/auth.ts says of a password change: any logged-in sessions    *)
(* elsewhere are killed.  A refresh token that works belongs to a session   *)
(* that began under the password of now.                                    *)
SessionsEndWithPassword ==
    \A t \in Tok : Live(t) => begun[token[t].family] = era[token[t].user]

=============================================================================
