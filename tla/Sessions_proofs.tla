--------------------------- MODULE Sessions_proofs ---------------------------
(***************************************************************************)
(* Proofs about Sessions, for any number of people, requests and tokens.   *)
(* The inductive invariant has a part for each table: the rows of          *)
(* refresh_tokens, the locks on reset tokens, and the administrators with  *)
(* the advisory lock their mutations hold.                                 *)
(***************************************************************************)
EXTENDS Sessions, TLAPS

(* The rows of refresh_tokens: the minted ones belong to a user and to a    *)
(* family that is not younger, and of a family at most one works.           *)
TokensHeld ==
    /\ minted \in 0 .. MaxTok
    /\ token \in [Tok -> TokenRow]
    /\ \A t \in Tok : IF t <= minted THEN token[t].user \in User /\ token[t].family \in 1 .. t
                                     ELSE token[t] = NoToken
    /\ \A s, t \in Tok : Live(s) /\ Live(t) /\ token[s].family = token[t].family => s = t

(* The rows a request is about to revoke have been minted; a request that   *)
(* resets a password holds the lock of its token, which is unused.          *)
RequestsHeld ==
    /\ req \in [Req -> Request]
    /\ \A r \in Req : req[r].op \in {"revoke", "reset", "update", "mutate"}
                         => req[r].snap \in SUBSET (1 .. minted)
    /\ reset \in [Reset -> User \cup {NoUser}]
    /\ resetLock \in [Reset -> Req \cup {NoReq}]
    /\ \A r \in Req : req[r].op = "reset" => resetLock[req[r].key] = r /\ reset[req[r].key] # NoUser

(* A request that changes a user holds the lock of administration, and as   *)
(* long as it does its actor is an admin, or changes nobody else, and       *)
(* somebody other than its target remains an admin who can sign in.         *)
ActiveAdmin(u) == users[u].admin /\ users[u].status = "active"

AdminsHeld ==
    /\ users \in [User -> UserRow]
    /\ mail \subseteq User
    /\ adminLock \in Req \cup {NoReq}
    /\ claimed \in BOOLEAN
    /\ wins \in 0 .. 1
    /\ \A u \in User : users[u].status = "none" => ~users[u].admin
    /\ ~claimed => wins = 0 /\ \A u \in User : ~users[u].admin
    /\ claimed => \E u \in User : ActiveAdmin(u)
    /\ \A r \in Req :
        /\ req[r].op \in {"gated", "mutate"} => claimed
        /\ req[r].op = "mutate" =>
            /\ adminLock = r
            /\ users[req[r].target].status # "none"
            /\ req[r].target # req[r].actor => LiveAdmin(req[r].actor)
            /\ req[r].change \in {"disable", "revoke"}
                  => \E u \in User \ {req[r].target} : ActiveAdmin(u)

SessionsInv == TokensHeld /\ RequestsHeld /\ AdminsHeld

(* No family without a working token has one after the step. *)
NoneRevived ==
    \A t \in Tok : t <= minted /\ LiveIn(token[t].family) = {}
                      => \A s \in Tok : token'[s].family = token[t].family => ~Live(s)'

-----------------------------------------------------------------------------
(* Revoking rows, issuing a row in a new family, and rotating a working row *)
(* keep the table in order and revive no family.                            *)
LEMMA RevokeKeeps ==
    ASSUME TokensHeld, NEW S \in SUBSET (1 .. minted), minted' = minted, token' = Revoke(S)
    PROVE  TokensHeld' /\ NoneRevived
<1> USE BoundsAssumption
<1>1. S \subseteq Tok
  BY DEF Tok, TokensHeld
<1>2. \A t \in Tok : token'[t] = IF t \in S THEN [token[t] EXCEPT !.state = "revoked"] ELSE token[t]
  BY DEF Revoke
<1>3. \A t \in Tok : /\ token'[t] \in TokenRow
                     /\ token'[t].user = token[t].user
                     /\ token'[t].family = token[t].family
                     /\ token'[t].state = "live" => token[t].state = "live"
  <2> SUFFICES ASSUME NEW t \in Tok
               PROVE  /\ token'[t] \in TokenRow
                      /\ token'[t].user = token[t].user
                      /\ token'[t].family = token[t].family
                      /\ token'[t].state = "live" => token[t].state = "live"
    OBVIOUS
  <2>1. token[t] \in TokenRow
    BY DEF TokensHeld
  <2> QED BY <1>2, <2>1 DEF TokenRow
<1>4. \A t \in Tok : t > minted => token'[t] = token[t]
  <2>1. minted \in Nat
    BY DEF TokensHeld
  <2>2. \A t \in S : t <= minted
    BY <2>1
  <2> SUFFICES ASSUME NEW t \in Tok, t > minted
               PROVE  token'[t] = token[t]
    OBVIOUS
  <2>3. t \in Nat
    BY DEF Tok
  <2>4. t \notin S
    BY <2>1, <2>2, <2>3
  <2> QED BY <1>2, <2>4
<1>5. TokensHeld'
  <2>1. token' \in [Tok -> TokenRow]
    BY <1>3 DEF Revoke
  <2>2. ASSUME NEW t \in Tok
        PROVE  IF t <= minted THEN token'[t].user \in User /\ token'[t].family \in 1 .. t
                              ELSE token'[t] = NoToken
    BY <1>3, <1>4 DEF TokensHeld, Tok
  <2> QED BY <1>3, <2>1, <2>2 DEF TokensHeld, Live
<1>6. NoneRevived
  BY <1>3 DEF NoneRevived, LiveIn, Live
<1> QED BY <1>5, <1>6

LEMMA IssueKeeps ==
    ASSUME TokensHeld, NEW u \in User, Issue(u, 0, token)
    PROVE  TokensHeld' /\ NoneRevived
<1> DEFINE new == minted + 1
<1> USE BoundsAssumption
<1>1. minted < MaxTok /\ new \in Tok /\ minted' = new
  BY DEF Issue, TokensHeld, Tok
<1>2. token' = [token EXCEPT ![new] = [user |-> u, family |-> new, state |-> "live"]]
  BY DEF Issue
<1>3. token'[new] = [user |-> u, family |-> new, state |-> "live"]
  BY <1>1, <1>2 DEF TokensHeld
<1>4. \A t \in Tok \ {new} : token'[t] = token[t]
  BY <1>1, <1>2 DEF TokensHeld
<1>5. \A t \in Tok \ {new} : token[t].family # new
  BY <1>1 DEF TokensHeld, Tok, NoToken
<1>6. TokensHeld'
  <2>1. token' \in [Tok -> TokenRow]
    BY <1>1, <1>2 DEF TokensHeld, TokenRow
  <2>2. ASSUME NEW t \in Tok
        PROVE  IF t <= minted' THEN token'[t].user \in User /\ token'[t].family \in 1 .. t
                               ELSE token'[t] = NoToken
    BY <1>1, <1>3, <1>4 DEF TokensHeld, Tok
  <2>3. ASSUME NEW s \in Tok, NEW t \in Tok, Live(s)', Live(t)', token'[s].family = token'[t].family
        PROVE  s = t
    BY <1>3, <1>4, <1>5, <2>3 DEF TokensHeld, Live
  <2> QED BY <1>1, <2>1, <2>2, <2>3 DEF TokensHeld, Tok
<1>7. NoneRevived
  <2> SUFFICES ASSUME NEW t \in Tok, t <= minted, LiveIn(token[t].family) = {},
                      NEW s \in Tok, token'[s].family = token[t].family
               PROVE  ~Live(s)'
    BY DEF NoneRevived
  <2>1. t # new
    BY DEF TokensHeld
  <2>2. token[t].family # new
    BY <1>5, <2>1
  <2>3. s # new
    BY <1>3, <2>2
  <2> QED BY <1>4, <2>3 DEF LiveIn, Live
<1> QED BY <1>6, <1>7

LEMMA RotateKeeps ==
    ASSUME TokensHeld, NEW old \in Tok, Live(old),
           Issue(token[old].user, token[old].family, Revoke({old}))
    PROVE  TokensHeld' /\ NoneRevived
<1> DEFINE new == minted + 1
<1> USE BoundsAssumption
<1>1. /\ minted < MaxTok /\ new \in Tok /\ minted' = new
      /\ old <= minted /\ old # new
      /\ token[old].user \in User /\ token[old].family \in 1 .. minted
  BY DEF Issue, TokensHeld, Tok, Live, NoToken
<1>2. token' = [Revoke({old}) EXCEPT
                  ![new] = [user |-> token[old].user, family |-> token[old].family, state |-> "live"]]
  <2>1. token[old].family # 0
    BY <1>1 DEF TokensHeld
  <2> QED BY <2>1 DEF Issue
<1>3. token'[new] = [user |-> token[old].user, family |-> token[old].family, state |-> "live"]
  BY <1>1, <1>2 DEF Revoke
<1>4. token'[old] = [token[old] EXCEPT !.state = "revoked"]
  BY <1>1, <1>2 DEF Revoke
<1>5. \A t \in Tok \ {old, new} : token'[t] = token[t]
  BY <1>1, <1>2 DEF Revoke
<1>6. TokensHeld'
  <2>1. token' \in [Tok -> TokenRow]
    <3>1. \A t \in Tok : token'[t] \in TokenRow
      <4>1. \A t \in Tok : token[t] \in TokenRow
        BY DEF TokensHeld
      <4>2. token'[new] \in TokenRow /\ token'[old] \in TokenRow
        BY <1>1, <1>3, <1>4, <4>1 DEF TokenRow, TokensHeld
      <4> QED BY <1>5, <4>1, <4>2
    <3>2. token' = [t \in Tok |-> token'[t]]
      BY <1>2 DEF Revoke
    <3> QED BY <3>1, <3>2
  <2>2. ASSUME NEW t \in Tok
        PROVE  IF t <= minted' THEN token'[t].user \in User /\ token'[t].family \in 1 .. t
                               ELSE token'[t] = NoToken
    <3>1. CASE t = new
      BY <1>1, <1>3, <3>1 DEF TokensHeld, Tok
    <3>2. CASE t = old
      <4>1. token[t] \in TokenRow /\ token[t].user \in User /\ token[t].family \in 1 .. t
        BY <1>1, <3>2 DEF TokensHeld
      <4>2. token'[t].user = token[t].user /\ token'[t].family = token[t].family
        BY <1>4, <3>2, <4>1 DEF TokenRow
      <4> QED BY <1>1, <3>2, <4>1, <4>2 DEF TokensHeld, Tok
    <3>3. CASE t \notin {old, new}
      BY <1>1, <1>5, <3>3 DEF TokensHeld, Tok
    <3> QED BY <3>1, <3>2, <3>3
  <2>3. ASSUME NEW s \in Tok, NEW t \in Tok, Live(s)', Live(t)', token'[s].family = token'[t].family
        PROVE  s = t
    <3>1. s # old /\ t # old
      BY <1>1, <1>4, <2>3 DEF Live, TokensHeld, TokenRow
    <3>2. \A v \in Tok \ {old, new} : Live(v) => token[v].family # token[old].family
      BY DEF TokensHeld
    <3> QED BY <1>3, <1>5, <2>3, <3>1, <3>2 DEF TokensHeld, Live
  <2> QED BY <1>1, <2>1, <2>2, <2>3 DEF TokensHeld, Tok
<1>7. NoneRevived
  <2> SUFFICES ASSUME NEW t \in Tok, t <= minted, LiveIn(token[t].family) = {},
                      NEW s \in Tok, token'[s].family = token[t].family
               PROVE  ~Live(s)'
    BY DEF NoneRevived
  <2>1. token[t].family # token[old].family
    BY DEF LiveIn
  <2>2. s # new
    BY <1>3, <2>1
  <2>3. CASE s = old
    BY <1>4, <2>3 DEF Live, TokensHeld, TokenRow
  <2>4. CASE s # old
    BY <1>5, <2>2, <2>4 DEF LiveIn, Live
  <2> QED BY <2>3, <2>4
<1> QED BY <1>6, <1>7

-----------------------------------------------------------------------------
LEMMA SessionsInitially == Init => SessionsInv
<1> SUFFICES ASSUME Init PROVE SessionsInv
  OBVIOUS
<1> USE BoundsAssumption, NullsAssumption DEF Init
<1>1. TokensHeld
  BY DEF TokensHeld, TokenRow, NoToken, Tok, Live
<1>2. RequestsHeld
  BY DEF RequestsHeld, Request, Idle
<1>3. AdminsHeld
  <2>1. wins \in 0 .. 1
    OBVIOUS
  <2> QED BY <2>1 DEF AdminsHeld, UserRow, Status, NoRow, Idle
<1> QED BY <1>1, <1>2, <1>3 DEF SessionsInv

(* The rows of refresh_tokens: who issues, who rotates, who revokes. *)
LEMMA TokensStep ==
    ASSUME SessionsInv, [Next]_vars
    PROVE  TokensHeld' /\ NoneRevived
<1>0. ASSUME token' = token, minted' = minted
     PROVE  TokensHeld' /\ NoneRevived
  BY <1>0 DEF SessionsInv, TokensHeld, NoneRevived, LiveIn, Live
<1> USE BoundsAssumption, NullsAssumption DEF SessionsInv
<1>1. ASSUME NEW r \in Req, NEW u \in User, LoginCheck(r, u)
     PROVE  TokensHeld' /\ NoneRevived
  BY <1>1, <1>0 DEF LoginCheck
<1>2. ASSUME NEW r \in Req, LoginIssue(r)
     PROVE  TokensHeld' /\ NoneRevived
  <2>1. req[r].user \in User
    BY <1>2 DEF LoginIssue, RequestsHeld, Request, Idle
  <2> QED BY <1>2, <2>1, IssueKeeps DEF LoginIssue
<1>3. ASSUME NEW r \in Req, NEW t \in Tok, RefreshReused(r, t)
     PROVE  TokensHeld' /\ NoneRevived
  BY <1>3, <1>0 DEF RefreshReused
<1>4. ASSUME NEW r \in Req, NEW t \in Tok, RefreshDetect(r, t)
     PROVE  TokensHeld' /\ NoneRevived
  BY <1>4, <1>0 DEF RefreshDetect
<1>5. ASSUME NEW r \in Req, NEW t \in Tok, Logout(r, t)
     PROVE  TokensHeld' /\ NoneRevived
  BY <1>5, <1>0 DEF Logout
<1>6. ASSUME NEW r \in Req, RefreshRotate(r)
     PROVE  TokensHeld' /\ NoneRevived
  <2>1. req[r].tok \in Tok
    BY <1>6 DEF RefreshRotate, RequestsHeld, Request, Idle
  <2> QED BY <1>6, <2>1, RotateKeeps DEF RefreshRotate, StillGood
<1>7. ASSUME NEW r \in Req, RefreshRefused(r)
     PROVE  TokensHeld' /\ NoneRevived
  BY <1>7, <1>0 DEF RefreshRefused
<1>8. ASSUME NEW r \in Req, RevokeCommit(r)
     PROVE  TokensHeld' /\ NoneRevived
  BY <1>8, RevokeKeeps DEF RevokeCommit, RequestsHeld
<1>9. ASSUME NEW r \in Req, NEW k \in Reset, ResetBegin(r, k)
     PROVE  TokensHeld' /\ NoneRevived
  BY <1>9, <1>0 DEF ResetBegin
<1>10. ASSUME NEW r \in Req, ResetCommit(r)
     PROVE  TokensHeld' /\ NoneRevived
  BY <1>10, RevokeKeeps DEF ResetCommit, RequestsHeld
<1>11. ASSUME NEW r \in Req, NEW u \in User, UpdateBegin(r, u)
     PROVE  TokensHeld' /\ NoneRevived
  BY <1>11, <1>0 DEF UpdateBegin
<1>12. ASSUME NEW r \in Req, UpdateCommit(r)
     PROVE  TokensHeld' /\ NoneRevived
  BY <1>12, RevokeKeeps DEF UpdateCommit, RequestsHeld
<1>13. ASSUME NEW r \in Req, NEW u \in User, ClaimCheck(r, u)
     PROVE  TokensHeld' /\ NoneRevived
  BY <1>13, <1>0 DEF ClaimCheck
<1>14. ASSUME NEW r \in Req, NEW u \in User, AdminGate(r, u)
     PROVE  TokensHeld' /\ NoneRevived
  BY <1>14, <1>0 DEF AdminGate
<1>15. ASSUME NEW r \in Req, Claim(r)
     PROVE  TokensHeld' /\ NoneRevived
  BY <1>15, <1>0 DEF Claim
<1>16. ASSUME NEW r \in Req, NEW x \in User, NEW c \in Change, AdminMutate(r, x, c)
     PROVE  TokensHeld' /\ NoneRevived
  BY <1>16, <1>0 DEF AdminMutate
<1>17. ASSUME NEW r \in Req, AdminCommit(r)
     PROVE  TokensHeld' /\ NoneRevived
  BY <1>17, <1>0, RevokeKeeps DEF AdminCommit, RequestsHeld
<1>18. ASSUME NEW r \in Req, Abort(r)
     PROVE  TokensHeld' /\ NoneRevived
  BY <1>18, <1>0 DEF Abort
<1>19. ASSUME NEW t \in Tok, RefreshExpired(t)
     PROVE  TokensHeld' /\ NoneRevived
  <2>1. {t} \in SUBSET (1 .. minted)
    BY <1>19 DEF RefreshExpired, TokensHeld, Tok, Live, NoToken
  <2> QED BY <1>19, <2>1, RevokeKeeps DEF RefreshExpired
<1>20. ASSUME NEW k \in Reset, ExpireReset(k)
     PROVE  TokensHeld' /\ NoneRevived
  BY <1>20, <1>0 DEF ExpireReset
<1>21. ASSUME NEW u \in User, NEW k \in Reset, Forgot(u, k)
     PROVE  TokensHeld' /\ NoneRevived
  BY <1>21, <1>0 DEF Forgot
<1>22. ASSUME NEW u \in User, Register(u)
     PROVE  TokensHeld' /\ NoneRevived
  BY <1>22, IssueKeeps DEF Register
<1>23. ASSUME NEW u \in User, VerifyEmail(u)
     PROVE  TokensHeld' /\ NoneRevived
  BY <1>23, <1>0 DEF VerifyEmail
<1>24. ASSUME NEW u \in User, GoogleSignIn(u)
     PROVE  TokensHeld' /\ NoneRevived
  BY <1>24, IssueKeeps DEF GoogleSignIn
<1>25. CASE UNCHANGED vars
  BY <1>25, <1>0 DEF vars
<1> QED BY <1>1, <1>2, <1>3, <1>4, <1>5, <1>6, <1>7, <1>8, <1>9, <1>10, <1>11, <1>12, <1>13,
   <1>14, <1>15, <1>16, <1>17, <1>18, <1>19, <1>20, <1>21, <1>22, <1>23, <1>24, <1>25 DEF
   Next, UserNext, AdminNext

(* Requests in flight and the locks on reset tokens. *)
LEMMA RequestsStep ==
    ASSUME SessionsInv, [Next]_vars
    PROVE  RequestsHeld'
<1> USE BoundsAssumption, NullsAssumption DEF SessionsInv
<1>0. minted' \in Nat /\ minted \in Nat /\ minted <= minted'
  <2>1. minted \in Nat
    BY DEF TokensHeld
  <2>2. minted' = minted \/ minted' = minted + 1
    BY DEF vars, Next, UserNext, AdminNext, Issue, LoginCheck, LoginIssue, RefreshReused, RefreshDetect, Logout, RefreshRotate, RefreshRefused, RevokeCommit, ResetBegin, ResetCommit, UpdateBegin, UpdateCommit, ClaimCheck, AdminGate, Claim, AdminMutate, AdminCommit, Abort, RefreshExpired, ExpireReset, Forgot, Register, VerifyEmail, GoogleSignIn
  <2> QED BY <2>1, <2>2
<1>1. ASSUME NEW r \in Req, NEW u \in User, LoginCheck(r, u)
     PROVE  RequestsHeld'
  BY <1>0, <1>1 DEF RequestsHeld, Request, Idle, LoginCheck, Free, Begin
<1>2. ASSUME NEW r \in Req, LoginIssue(r)
     PROVE  RequestsHeld'
  BY <1>0, <1>2 DEF RequestsHeld, Request, Idle, LoginIssue, Finish
<1>3. ASSUME NEW r \in Req, NEW t \in Tok, RefreshReused(r, t)
     PROVE  RequestsHeld'
  BY <1>0, <1>3 DEF RequestsHeld, Request, Idle, RefreshReused, Free, LiveIn, Begin,
     TokensHeld, Tok, NoToken, Live, LiveOf
<1>4. ASSUME NEW r \in Req, NEW t \in Tok, RefreshDetect(r, t)
     PROVE  RequestsHeld'
  BY <1>0, <1>4 DEF RequestsHeld, Request, Idle, RefreshDetect, Free, Begin
<1>5. ASSUME NEW r \in Req, NEW t \in Tok, Logout(r, t)
     PROVE  RequestsHeld'
  BY <1>0, <1>5 DEF RequestsHeld, Request, Idle, Logout, Free, LiveIn, Begin, TokensHeld,
     Tok, NoToken, Live, LiveOf
<1>6. ASSUME NEW r \in Req, RefreshRotate(r)
     PROVE  RequestsHeld'
  BY <1>0, <1>6 DEF RequestsHeld, Request, Idle, RefreshRotate, Finish
<1>7. ASSUME NEW r \in Req, RefreshRefused(r)
     PROVE  RequestsHeld'
  BY <1>0, <1>7 DEF RequestsHeld, Request, Idle, RefreshRefused, Finish
<1>8. ASSUME NEW r \in Req, RevokeCommit(r)
     PROVE  RequestsHeld'
  BY <1>0, <1>8 DEF RequestsHeld, Request, Idle, RevokeCommit, Finish
<1>9. ASSUME NEW r \in Req, NEW k \in Reset, ResetBegin(r, k)
     PROVE  RequestsHeld'
  BY <1>0, <1>9 DEF RequestsHeld, Request, Idle, ResetBegin, Free, ResetUsable, Begin,
     LiveOf, TokensHeld, Tok, NoToken, Live, LiveIn
<1>10. ASSUME NEW r \in Req, ResetCommit(r)
     PROVE  RequestsHeld'
  BY <1>0, <1>10 DEF RequestsHeld, Request, Idle, ResetCommit, Finish
<1>11. ASSUME NEW r \in Req, NEW u \in User, UpdateBegin(r, u)
     PROVE  RequestsHeld'
  BY <1>0, <1>11 DEF RequestsHeld, Request, Idle, UpdateBegin, Free, Begin, LiveOf,
     TokensHeld, Tok, NoToken, Live, LiveIn
<1>12. ASSUME NEW r \in Req, UpdateCommit(r)
     PROVE  RequestsHeld'
  BY <1>0, <1>12 DEF RequestsHeld, Request, Idle, UpdateCommit, Finish
<1>13. ASSUME NEW r \in Req, NEW u \in User, ClaimCheck(r, u)
     PROVE  RequestsHeld'
  BY <1>0, <1>13 DEF RequestsHeld, Request, Idle, ClaimCheck, Free, AdminExists, Begin
<1>14. ASSUME NEW r \in Req, NEW u \in User, AdminGate(r, u)
     PROVE  RequestsHeld'
  BY <1>0, <1>14 DEF RequestsHeld, Request, Idle, AdminGate, Free, Begin
<1>15. ASSUME NEW r \in Req, Claim(r)
     PROVE  RequestsHeld'
  BY <1>0, <1>15 DEF RequestsHeld, Request, Idle, Claim, Finish
<1>16. ASSUME NEW r \in Req, NEW x \in User, NEW c \in Change, AdminMutate(r, x, c)
     PROVE  RequestsHeld'
  BY <1>0, <1>16 DEF RequestsHeld, Request, Idle, AdminMutate, Begin, LiveOf, Finish,
     TokensHeld, Tok, NoToken, Live, LiveIn
<1>17. ASSUME NEW r \in Req, AdminCommit(r)
     PROVE  RequestsHeld'
  BY <1>0, <1>17 DEF RequestsHeld, Request, Idle, AdminCommit, Finish
<1>18. ASSUME NEW r \in Req, Abort(r)
     PROVE  RequestsHeld'
  BY <1>0, <1>18 DEF RequestsHeld, Request, Idle, Abort, Free, Finish
<1>19. ASSUME NEW t \in Tok, RefreshExpired(t)
     PROVE  RequestsHeld'
  BY <1>0, <1>19 DEF RequestsHeld, Request, Idle, RefreshExpired
<1>20. ASSUME NEW k \in Reset, ExpireReset(k)
     PROVE  RequestsHeld'
  BY <1>0, <1>20 DEF RequestsHeld, Request, Idle, ExpireReset
<1>21. ASSUME NEW u \in User, NEW k \in Reset, Forgot(u, k)
     PROVE  RequestsHeld'
  BY <1>0, <1>21 DEF RequestsHeld, Request, Idle, Forgot
<1>22. ASSUME NEW u \in User, Register(u)
     PROVE  RequestsHeld'
  BY <1>0, <1>22 DEF RequestsHeld, Request, Idle, Register
<1>23. ASSUME NEW u \in User, VerifyEmail(u)
     PROVE  RequestsHeld'
  BY <1>0, <1>23 DEF RequestsHeld, Request, Idle, VerifyEmail
<1>24. ASSUME NEW u \in User, GoogleSignIn(u)
     PROVE  RequestsHeld'
  BY <1>0, <1>24 DEF RequestsHeld, Request, Idle, GoogleSignIn
<1>25. CASE UNCHANGED vars
  BY <1>25 DEF vars, RequestsHeld
<1> QED BY <1>1, <1>2, <1>3, <1>4, <1>5, <1>6, <1>7, <1>8, <1>9, <1>10, <1>11, <1>12, <1>13,
   <1>14, <1>15, <1>16, <1>17, <1>18, <1>19, <1>20, <1>21, <1>22, <1>23, <1>24, <1>25 DEF
   Next, UserNext, AdminNext

(* A step that leaves administrators, claims and the lock alone, and        *)
(* disables nobody.                                                         *)
LEMMA AdminsKept ==
    ASSUME AdminsHeld, users' \in [User -> UserRow], mail' \subseteq User,
           UNCHANGED <<adminLock, claimed, wins>>,
           \A u \in User : /\ users'[u].admin = users[u].admin
                           /\ users[u].status = "active" => users'[u].status = "active"
                           /\ users'[u].status = "disabled" => users[u].status = "disabled"
                           /\ users'[u].status = "none" => users[u].status = "none",
           \A r \in Req : req'[r].op \in {"gated", "mutate"} => req'[r] = req[r],
           RequestsHeld
    PROVE  AdminsHeld'
<1>1. \A u \in User : ActiveAdmin(u) => ActiveAdmin(u)'
  BY DEF ActiveAdmin
<1>2. \A u \in User : LiveAdmin(u) => LiveAdmin(u)'
  BY DEF LiveAdmin
<1>3. ASSUME NEW r \in Req, req'[r].op = "mutate"
      PROVE  req'[r] = req[r] /\ req[r].actor \in User
  BY <1>3 DEF RequestsHeld, Request, Idle
<1>4. \A r \in Req : req[r].op = "mutate" => req[r].target \in User
  BY DEF RequestsHeld, Request, Idle
<1> QED BY <1>1, <1>2, <1>3, <1>4 DEF AdminsHeld


(* Administrators and the advisory lock. *)
LEMMA AdminsStep ==
    ASSUME SessionsInv, [Next]_vars
    PROVE  AdminsHeld'
<1> USE BoundsAssumption, NullsAssumption DEF SessionsInv
<1>1. ASSUME NEW r \in Req, NEW u \in User, LoginCheck(r, u)
     PROVE  AdminsHeld'
  BY <1>1 DEF RequestsHeld, AdminsHeld, ActiveAdmin, LiveAdmin, UserRow, Status, LoginCheck,
     Free, Begin
<1>2. ASSUME NEW r \in Req, LoginIssue(r)
     PROVE  AdminsHeld'
  BY <1>2 DEF RequestsHeld, AdminsHeld, ActiveAdmin, LiveAdmin, UserRow, Status, LoginIssue,
     Finish, Idle
<1>3. ASSUME NEW r \in Req, NEW t \in Tok, RefreshReused(r, t)
     PROVE  AdminsHeld'
  BY <1>3 DEF RequestsHeld, AdminsHeld, ActiveAdmin, LiveAdmin, UserRow, Status,
     RefreshReused, Free, Begin
<1>4. ASSUME NEW r \in Req, NEW t \in Tok, RefreshDetect(r, t)
     PROVE  AdminsHeld'
  BY <1>4 DEF RequestsHeld, AdminsHeld, ActiveAdmin, LiveAdmin, UserRow, Status,
     RefreshDetect, Free, Begin
<1>5. ASSUME NEW r \in Req, NEW t \in Tok, Logout(r, t)
     PROVE  AdminsHeld'
  BY <1>5 DEF RequestsHeld, AdminsHeld, ActiveAdmin, LiveAdmin, UserRow, Status, Logout,
     Free, Begin
<1>6. ASSUME NEW r \in Req, RefreshRotate(r)
     PROVE  AdminsHeld'
  BY <1>6 DEF RequestsHeld, AdminsHeld, ActiveAdmin, LiveAdmin, UserRow, Status,
     RefreshRotate, Finish, Idle
<1>7. ASSUME NEW r \in Req, RefreshRefused(r)
     PROVE  AdminsHeld'
  BY <1>7 DEF RequestsHeld, AdminsHeld, ActiveAdmin, LiveAdmin, UserRow, Status,
     RefreshRefused, Finish, Idle
<1>8. ASSUME NEW r \in Req, RevokeCommit(r)
     PROVE  AdminsHeld'
  BY <1>8 DEF RequestsHeld, AdminsHeld, ActiveAdmin, LiveAdmin, UserRow, Status,
     RevokeCommit, Finish, Idle
<1>9. ASSUME NEW r \in Req, NEW k \in Reset, ResetBegin(r, k)
     PROVE  AdminsHeld'
  BY <1>9 DEF RequestsHeld, AdminsHeld, ActiveAdmin, LiveAdmin, UserRow, Status, ResetBegin,
     Free, ResetUsable, Begin
<1>10. ASSUME NEW r \in Req, ResetCommit(r)
     PROVE  AdminsHeld'
  <2>1. users' \in [User -> UserRow] /\ mail' \subseteq User
    BY <1>10 DEF AdminsHeld, UserRow, Status, ResetCommit, SetPassword, NoRow
  <2>2. \A u0 \in User : /\ users'[u0].admin = users[u0].admin
                         /\ users[u0].status = "active" => users'[u0].status = "active"
                         /\ users'[u0].status = "disabled" => users[u0].status = "disabled"
                         /\ users'[u0].status = "none" => users[u0].status = "none"
    BY <1>10 DEF AdminsHeld, UserRow, Status, ResetCommit, SetPassword, NoRow, Known
  <2>3. \A q \in Req : req'[q].op \in {"gated", "mutate"} => req'[q] = req[q]
    BY <1>10 DEF RequestsHeld, ResetCommit, Finish, Idle
  <2>4. UNCHANGED <<adminLock, claimed, wins>>
    BY <1>10 DEF ResetCommit
  <2> QED BY <2>1, <2>2, <2>3, <2>4, AdminsKept
<1>11. ASSUME NEW r \in Req, NEW u \in User, UpdateBegin(r, u)
     PROVE  AdminsHeld'
  BY <1>11 DEF RequestsHeld, AdminsHeld, ActiveAdmin, LiveAdmin, UserRow, Status,
     UpdateBegin, Free, Begin
<1>12. ASSUME NEW r \in Req, UpdateCommit(r)
     PROVE  AdminsHeld'
  <2>1. users' \in [User -> UserRow] /\ mail' \subseteq User
    BY <1>12 DEF AdminsHeld, UserRow, Status, UpdateCommit, SetPassword, NoRow
  <2>2. \A u0 \in User : /\ users'[u0].admin = users[u0].admin
                         /\ users[u0].status = "active" => users'[u0].status = "active"
                         /\ users'[u0].status = "disabled" => users[u0].status = "disabled"
                         /\ users'[u0].status = "none" => users[u0].status = "none"
    BY <1>12 DEF AdminsHeld, UserRow, Status, UpdateCommit, SetPassword, NoRow, Known
  <2>3. \A q \in Req : req'[q].op \in {"gated", "mutate"} => req'[q] = req[q]
    BY <1>12 DEF RequestsHeld, UpdateCommit, Finish, Idle
  <2>4. UNCHANGED <<adminLock, claimed, wins>>
    BY <1>12 DEF UpdateCommit
  <2> QED BY <2>1, <2>2, <2>3, <2>4, AdminsKept
<1>13. ASSUME NEW r \in Req, NEW u \in User, ClaimCheck(r, u)
     PROVE  AdminsHeld'
  BY <1>13 DEF RequestsHeld, AdminsHeld, ActiveAdmin, LiveAdmin, UserRow, Status,
     ClaimCheck, Free, AdminExists, Begin
<1>14. ASSUME NEW r \in Req, NEW u \in User, AdminGate(r, u)
     PROVE  AdminsHeld'
  BY <1>14 DEF RequestsHeld, AdminsHeld, ActiveAdmin, LiveAdmin, UserRow, Status, AdminGate,
     Free, Begin
<1>15. ASSUME NEW r \in Req, Claim(r)
     PROVE  AdminsHeld'
  <2>1. CASE ~ClaimWins(req[r].user)
    BY <1>15, <2>1 DEF RequestsHeld, AdminsHeld, ActiveAdmin, LiveAdmin, Claim, Finish, Idle
  <2>2. CASE ClaimWins(req[r].user)
    <3>0. PICK u \in User : u = req[r].user
      BY <1>15 DEF Claim, RequestsHeld, Request, Idle
    <3>1. users[u].status = "active" /\ ~claimed
      BY <2>2, <3>0 DEF ClaimWins
    <3>2. users' = [users EXCEPT ![u].admin = TRUE] /\ claimed' = TRUE /\ wins' = 1
      BY <1>15, <2>2, <3>0, <3>1 DEF Claim, AdminsHeld
    <3>3. users' \in [User -> UserRow] /\ ActiveAdmin(u)'
      <4>1. users[u] \in UserRow
        BY <3>1 DEF AdminsHeld
      <4>2. [users[u] EXCEPT !.admin = TRUE] \in UserRow
        BY <4>1 DEF UserRow
      <4>3. users' = [users EXCEPT ![u] = [users[u] EXCEPT !.admin = TRUE]]
        BY <3>2
      <4>4. users'[u] = [users[u] EXCEPT !.admin = TRUE]
        BY <3>1, <4>3 DEF AdminsHeld
      <4>5. users'[u].admin /\ users'[u].status = "active"
        BY <3>1, <4>1, <4>4 DEF UserRow
      <4>6. users' \in [User -> UserRow]
        BY <3>1, <4>2, <4>3 DEF AdminsHeld
      <4> QED BY <4>5, <4>6 DEF ActiveAdmin
    <3>4. \A q \in Req : req'[q].op \notin {"gated", "mutate"}
      <4>1. \A q \in Req : req[q].op \notin {"gated", "mutate"}
        BY <3>1 DEF AdminsHeld
      <4> QED BY <1>15, <4>1 DEF RequestsHeld, Claim, Finish, Idle
    <3>5. UNCHANGED <<mail, adminLock>>
      BY <1>15 DEF Claim
    <3> QED BY <3>1, <3>2, <3>3, <3>4, <3>5 DEF AdminsHeld
  <2> QED BY <2>1, <2>2
<1>16. ASSUME NEW r \in Req, NEW x \in User, NEW c \in Change, AdminMutate(r, x, c)
     PROVE  AdminsHeld'
  BY <1>16 DEF RequestsHeld, AdminsHeld, ActiveAdmin, LiveAdmin, UserRow, Status,
     AdminMutate, MutationAllowed, Visible, Known, OtherAdmins, Begin, Finish, Idle
<1>17. ASSUME NEW r \in Req, AdminCommit(r)
     PROVE  AdminsHeld'
  <2> DEFINE x == req[r].target
             change == req[r].change
  <2>1. /\ adminLock = r /\ claimed /\ x \in User /\ change \in Change
        /\ adminLock' = NoReq /\ UNCHANGED <<mail, claimed, wins>>
        /\ users' = [users EXCEPT ![x] = Changed(users[x], change)]
    BY <1>17 DEF AdminCommit, RequestsHeld, AdminsHeld, Request, Idle
  <2>2. \A q \in Req : req'[q].op # "mutate" /\ (req'[q].op = "gated" => req[q].op = "gated")
    <3>1. req' = [req EXCEPT ![r] = Idle] /\ req \in [Req -> Request]
      BY <1>17 DEF AdminCommit, RequestsHeld, Finish
    <3>2. \A q \in Req \ {r} : req[q].op # "mutate"
      BY <2>1 DEF AdminsHeld
    <3> QED BY <3>1, <3>2 DEF Idle
  <2>3. Changed(users[x], change) \in UserRow
    <3>1. users[x] \in UserRow
      BY <2>1 DEF AdminsHeld
    <3>2. CASE change = "enable"
      BY <3>1, <3>2 DEF Changed, UserRow, Status
    <3>3. CASE change = "disable"
      BY <3>1, <3>3 DEF Changed, UserRow, Status
    <3>4. CASE change = "grant"
      BY <3>1, <3>4 DEF Changed, UserRow, Status
    <3>5. CASE change = "revoke"
      BY <3>1, <3>5 DEF Changed, UserRow, Status
    <3> QED BY <2>1, <3>2, <3>3, <3>4, <3>5 DEF Change
  <2>4. users' \in [User -> UserRow]
    BY <2>1, <2>3 DEF AdminsHeld
  <2>5. \E u \in User : ActiveAdmin(u)'
    <3>1. CASE change \in {"disable", "revoke"}
      <4>1. PICK u \in User \ {x} : ActiveAdmin(u)
        BY <1>17, <3>1 DEF AdminCommit, AdminsHeld
      <4>2. users'[u] = users[u]
        BY <2>1, <4>1 DEF AdminsHeld
      <4> QED BY <4>1, <4>2 DEF ActiveAdmin
    <3>2. CASE change \in {"enable", "grant"}
      <4>1. PICK u \in User : ActiveAdmin(u)
        BY <2>1 DEF AdminsHeld
      <4>2. CASE u = x
        BY <2>1, <3>2, <4>1, <4>2 DEF ActiveAdmin, Changed, AdminsHeld, UserRow
      <4>3. CASE u # x
        BY <2>1, <4>1, <4>3 DEF ActiveAdmin, AdminsHeld
      <4> QED BY <4>2, <4>3
    <3> QED BY <2>1, <3>1, <3>2 DEF Change
  <2>6. \A u \in User : users'[u].status = "none" => ~users'[u].admin
    <3>1. users[x].status # "none" /\ users[x] \in UserRow
      BY <1>17, <2>1 DEF AdminCommit, AdminsHeld
    <3>2. Changed(users[x], change).status # "none"
      BY <2>1, <3>1 DEF Changed, Change, UserRow
    <3> QED BY <2>1, <3>2 DEF AdminsHeld
  <2> QED BY <2>1, <2>2, <2>4, <2>5, <2>6 DEF AdminsHeld
<1>18. ASSUME NEW r \in Req, Abort(r)
     PROVE  AdminsHeld'
  BY <1>18 DEF RequestsHeld, AdminsHeld, ActiveAdmin, LiveAdmin, UserRow, Status, Abort,
     Free, Finish, Idle
<1>19. ASSUME NEW t \in Tok, RefreshExpired(t)
     PROVE  AdminsHeld'
  BY <1>19 DEF RequestsHeld, AdminsHeld, ActiveAdmin, LiveAdmin, UserRow, Status,
     RefreshExpired
<1>20. ASSUME NEW k \in Reset, ExpireReset(k)
     PROVE  AdminsHeld'
  BY <1>20 DEF RequestsHeld, AdminsHeld, ActiveAdmin, LiveAdmin, UserRow, Status,
     ExpireReset
<1>21. ASSUME NEW u \in User, NEW k \in Reset, Forgot(u, k)
     PROVE  AdminsHeld'
  BY <1>21 DEF RequestsHeld, AdminsHeld, ActiveAdmin, LiveAdmin, UserRow, Status, Forgot,
     Known
<1>22. ASSUME NEW u \in User, Register(u)
     PROVE  AdminsHeld'
  <2>1. users' \in [User -> UserRow] /\ mail' \subseteq User
    BY <1>22 DEF AdminsHeld, UserRow, Status, Register, SetPassword, NoRow
  <2>2. \A u0 \in User : /\ users'[u0].admin = users[u0].admin
                         /\ users[u0].status = "active" => users'[u0].status = "active"
                         /\ users'[u0].status = "disabled" => users[u0].status = "disabled"
                         /\ users'[u0].status = "none" => users[u0].status = "none"
    BY <1>22 DEF AdminsHeld, UserRow, Status, Register, SetPassword, NoRow, Known
  <2>3. \A q \in Req : req'[q].op \in {"gated", "mutate"} => req'[q] = req[q]
    BY <1>22 DEF RequestsHeld, Register, Finish, Idle
  <2>4. UNCHANGED <<adminLock, claimed, wins>>
    BY <1>22 DEF Register
  <2> QED BY <2>1, <2>2, <2>3, <2>4, AdminsKept
<1>23. ASSUME NEW u \in User, VerifyEmail(u)
     PROVE  AdminsHeld'
  <2>1. users' \in [User -> UserRow] /\ mail' \subseteq User
    BY <1>23 DEF AdminsHeld, UserRow, Status, VerifyEmail, SetPassword, NoRow
  <2>2. \A u0 \in User : /\ users'[u0].admin = users[u0].admin
                         /\ users[u0].status = "active" => users'[u0].status = "active"
                         /\ users'[u0].status = "disabled" => users[u0].status = "disabled"
                         /\ users'[u0].status = "none" => users[u0].status = "none"
    BY <1>23 DEF AdminsHeld, UserRow, Status, VerifyEmail, SetPassword, NoRow, Known
  <2>3. \A q \in Req : req'[q].op \in {"gated", "mutate"} => req'[q] = req[q]
    BY <1>23 DEF RequestsHeld, VerifyEmail, Finish, Idle
  <2>4. UNCHANGED <<adminLock, claimed, wins>>
    BY <1>23 DEF VerifyEmail
  <2> QED BY <2>1, <2>2, <2>3, <2>4, AdminsKept
<1>24. ASSUME NEW u \in User, GoogleSignIn(u)
     PROVE  AdminsHeld'
  <2>1. users' \in [User -> UserRow] /\ mail' \subseteq User
    BY <1>24 DEF AdminsHeld, UserRow, Status, GoogleSignIn, SetPassword, NoRow
  <2>2. \A u0 \in User : /\ users'[u0].admin = users[u0].admin
                         /\ users[u0].status = "active" => users'[u0].status = "active"
                         /\ users'[u0].status = "disabled" => users[u0].status = "disabled"
                         /\ users'[u0].status = "none" => users[u0].status = "none"
    BY <1>24 DEF AdminsHeld, UserRow, Status, GoogleSignIn, SetPassword, NoRow, Known
  <2>3. \A q \in Req : req'[q].op \in {"gated", "mutate"} => req'[q] = req[q]
    BY <1>24 DEF RequestsHeld, GoogleSignIn, Finish, Idle
  <2>4. UNCHANGED <<adminLock, claimed, wins>>
    BY <1>24 DEF GoogleSignIn
  <2> QED BY <2>1, <2>2, <2>3, <2>4, AdminsKept
<1>25. CASE UNCHANGED vars
  BY <1>25 DEF vars, AdminsHeld, ActiveAdmin, LiveAdmin
<1> QED BY <1>1, <1>2, <1>3, <1>4, <1>5, <1>6, <1>7, <1>8, <1>9, <1>10, <1>11, <1>12, <1>13,
   <1>14, <1>15, <1>16, <1>17, <1>18, <1>19, <1>20, <1>21, <1>22, <1>23, <1>24, <1>25 DEF
   Next, UserNext, AdminNext

THEOREM SessionsInvariance == Spec => []SessionsInv
<1>1. SessionsInv /\ [Next]_vars => SessionsInv'
  BY TokensStep, RequestsStep, AdminsStep DEF SessionsInv
<1> QED BY <1>1, SessionsInitially, PTL DEF Spec

-----------------------------------------------------------------------------
(* However refreshes of one token, logouts and reuse detection interleave,  *)
(* a family never has two refresh tokens that work (POST /refresh).         *)
THEOREM OneLiveTokenPerFamily == Spec => []OneLivePerFamily
<1>1. SessionsInv => OneLivePerFamily
  <2> SUFFICES ASSUME SessionsInv PROVE OneLivePerFamily
    OBVIOUS
  <2>1. \A r, s \in Req : r # s /\ req[r].op = "reset" /\ req[s].op = "reset" => req[r].key # req[s].key
    BY DEF SessionsInv, RequestsHeld
  <2>2. SessionsTypeOK
    BY <2>1 DEF SessionsInv, TokensHeld, RequestsHeld, AdminsHeld, SessionsTypeOK
  <2> QED BY <2>2 DEF SessionsInv, TokensHeld, OneLivePerFamily
<1> QED BY <1>1, SessionsInvariance, PTL

(* A refresh that passed its first transaction before a logout does not     *)
(* revive the session in the second.                                        *)
THEOREM NoSessionRevived == Spec => NoResurrection
<1>1. SessionsInv /\ [Next]_vars => [NoneRevived]_vars
  BY TokensStep
<1>2. [][NoneRevived]_vars => NoResurrection
  BY PTL DEF NoResurrection, NoneRevived
<1> QED BY <1>1, <1>2, SessionsInvariance, PTL DEF Spec

(* Once the instance is claimed somebody who can sign in administers it,    *)
(* and one claim at most has won (lockAdminMutation, claim_platform_admin). *)
THEOREM AnAdminRemains == Spec => []LastAdmin
<1>1. SessionsInv => LastAdmin
  BY DEF SessionsInv, AdminsHeld, ActiveAdmin, LastAdmin
<1> QED BY <1>1, SessionsInvariance, PTL

(* Whoever changes another user's row is an admin at that moment, although  *)
(* adminGate looked earlier.                                                *)
THEOREM ActorsAreAdmins == Spec => []AuthorityHeld
<1>1. SessionsInv => AuthorityHeld
  BY DEF SessionsInv, AdminsHeld, AuthorityHeld
<1> QED BY <1>1, SessionsInvariance, PTL

=============================================================================
