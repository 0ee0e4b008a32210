------------------------------ MODULE Sessions ------------------------------
(***************************************************************************)
(* Sign-in, sessions and platform administration of the Workers backend:   *)
(* routes/auth.ts, the user mutations of routes/admin.ts and               *)
(* middleware/auth.ts, over the tables users, refresh_tokens,              *)
(* password_reset_tokens and email_verification_tokens.                    *)
(*                                                                         *)
(* Every handler runs its statements in READ COMMITTED transactions.  A    *)
(* handler whose reads and writes another request can come between is two  *)
(* actions, the request waiting in req[r].  An UPDATE that revokes tokens  *)
(* works on the rows of its own snapshot: a row inserted after the         *)
(* statement began is not among them, however long it waits for locks.     *)
(***************************************************************************)
EXTENDS Naturals

CONSTANTS
    User,       \* the people; a user's e-mail address is the user
    Req,        \* requests that can be in flight together
    NoUser,     \* no user: the owner of a row that does not exist
    NoReq,      \* no request: the holder of a free lock
    MaxTok,     \* bound: refresh tokens ever minted
    MaxReset    \* bound: unused password-reset links at one time

ASSUME BoundsAssumption == MaxTok \in Nat /\ MaxReset \in Nat
ASSUME NullsAssumption == NoUser \notin User /\ NoReq \notin Req

Tok == 1 .. MaxTok
Reset == 1 .. MaxReset
Change == {"enable", "disable", "grant", "revoke"}
Idle == [op |-> "idle"]

VARIABLES
    users,      \* row of users (and profiles, oauth_identities) per person
    minted,     \* number of refresh tokens minted so far
    token,      \* row of refresh_tokens per token
    reset,      \* the user an unused, unexpired password_reset_tokens row is for
    resetLock,  \* FOR UPDATE locks on reset tokens: the request holding one
    mail,       \* users with an unused email_verification_token
    adminLock,  \* the advisory lock lintel:admin_mutation
    claimed,    \* the admin_claimed row of instance_settings
    wins,       \* history: how many claims have succeeded
    req         \* the requests between two of their steps

vars == <<users, minted, token, reset, resetLock, mail, adminLock, claimed, wins, req>>

(* pw: the user has a password_hash. *)
NoRow == [status |-> "none", admin |-> FALSE, pw |-> FALSE]

NoToken == [user |-> NoUser, family |-> 0, state |-> "none"]

(* revoked_at is null; rotation sets replaced_by and revoked_at together. *)
Live(t) == token[t].state = "live"

LiveOf(u) == {t \in Tok : Live(t) /\ token[t].user = u}

LiveIn(f) == {t \in Tok : Live(t) /\ token[t].family = f}

Known(u) == users[u].status # "none"

(* issueTokens: one row more, in a new family or in the one it continues.  *)
Issue(u, family, rows) ==
    LET t == minted + 1 IN
    /\ minted < MaxTok
    /\ minted' = t
    /\ token' = [rows EXCEPT ![t] = [user |-> u,
                                     family |-> IF family = 0 THEN t ELSE family,
                                     state |-> "live"]]

(* update refresh_tokens set revoked_at = now() where ... and revoked_at is *)
(* null: of the rows of the statement's snapshot, those still live.         *)
Revoke(snap) == [t \in Tok |-> IF t \in snap THEN [token[t] EXCEPT !.state = "revoked"] ELSE token[t]]

Init ==
    /\ users = [u \in User |-> NoRow]
    /\ minted = 0
    /\ token = [t \in Tok |-> NoToken]
    /\ reset = [k \in Reset |-> NoUser]
    /\ resetLock = [k \in Reset |-> NoReq]
    /\ mail = {}
    /\ adminLock = NoReq
    /\ claimed = FALSE
    /\ wins = 0
    /\ req = [r \in Req |-> Idle]

Free(r) == req[r].op = "idle"

Begin(r, rec) == req' = [req EXCEPT ![r] = rec]

Finish(r) == req' = [req EXCEPT ![r] = Idle]

-----------------------------------------------------------------------------
(* POST /register: email_taken unless the address is new. *)
Register(u) ==
    /\ ~Known(u)
    /\ users' = [users EXCEPT ![u] = [NoRow EXCEPT !.status = "active", !.pw = TRUE]]
    /\ mail' = mail \cup {u}
    /\ Issue(u, 0, token)
    /\ UNCHANGED <<reset, resetLock, adminLock, claimed, wins, req>>

(* POST /login: the row is read and the hash compared, then tokens are      *)
(* issued; nothing locks the row in between.                                *)
LoginCheck(r, u) ==
    /\ Free(r)
    /\ users[u].pw
    /\ users[u].status = "active"
    /\ Begin(r, [op |-> "login", user |-> u])
    /\ UNCHANGED <<users, minted, token, reset, resetLock, mail, adminLock, claimed, wins>>

LoginIssue(r) ==
    /\ req[r].op = "login"
    /\ Issue(req[r].user, 0, token)
    /\ Finish(r)
    /\ UNCHANGED <<users, reset, resetLock, mail, adminLock, claimed, wins>>

(* POST /refresh, first transaction: a token that was rotated or revoked    *)
(* revokes its family, one past its expires_at itself; a good one goes on.  *)
(* An UPDATE that finds no row to revoke changes nothing.                   *)
RefreshReused(r, t) ==
    /\ Free(r)
    /\ ~Live(t)
    /\ LiveIn(token[t].family) # {}
    /\ Begin(r, [op |-> "revoke", snap |-> LiveIn(token[t].family)])
    /\ UNCHANGED <<users, minted, token, reset, resetLock, mail, adminLock, claimed, wins>>

RefreshExpired(t) ==
    /\ Live(t)
    /\ token' = Revoke({t})
    /\ UNCHANGED <<users, minted, reset, resetLock, mail, adminLock, claimed, wins, req>>

RefreshDetect(r, t) ==
    /\ Free(r)
    /\ Live(t)
    /\ Begin(r, [op |-> "rotate", tok |-> t])
    /\ UNCHANGED <<users, minted, token, reset, resetLock, mail, adminLock, claimed, wins>>

(* Mutant of StillGood: the second transaction trusts the first. *)
StillGoodUnchecked(t) == t \in Tok

(* The second transaction reads the row again, locked, and rotates it; the  *)
(* user must be active.                                                     *)
StillGood(t) == Live(t)

RefreshRotate(r) ==
    LET t == req[r].tok IN
    /\ req[r].op = "rotate"
    /\ StillGood(t)
    /\ users[token[t].user].status = "active"
    /\ Issue(token[t].user, token[t].family, Revoke({t}))
    /\ Finish(r)
    /\ UNCHANGED <<users, reset, resetLock, mail, adminLock, claimed, wins>>

RefreshRefused(r) ==
    LET t == req[r].tok IN
    /\ req[r].op = "rotate"
    /\ ~StillGood(t) \/ users[token[t].user].status # "active"
    /\ Finish(r)
    /\ UNCHANGED <<users, minted, token, reset, resetLock, mail, adminLock, claimed, wins>>

(* POST /logout revokes the family of the token it is given. *)
Logout(r, t) ==
    /\ Free(r)
    /\ LiveIn(token[t].family) # {}
    /\ Begin(r, [op |-> "revoke", snap |-> LiveIn(token[t].family)])
    /\ UNCHANGED <<users, minted, token, reset, resetLock, mail, adminLock, claimed, wins>>

(* The revoking UPDATE of a logout or of a reused token ends and commits. *)
RevokeCommit(r) ==
    /\ req[r].op = "revoke"
    /\ token' = Revoke(req[r].snap)
    /\ Finish(r)
    /\ UNCHANGED <<users, minted, reset, resetLock, mail, adminLock, claimed, wins>>

-----------------------------------------------------------------------------
(* POST /forgot-password: one more link. *)
Forgot(u, k) ==
    /\ Known(u)
    /\ reset[k] = NoUser
    /\ reset' = [reset EXCEPT ![k] = u]
    /\ UNCHANGED <<users, minted, token, resetLock, mail, adminLock, claimed, wins, req>>

(* POST /reset-password: the token's row is locked, unused and in time; the *)
(* revoking UPDATE takes its snapshot; the whole commits in ResetCommit.    *)
ResetUsable(k) == resetLock[k] = NoReq /\ reset[k] # NoUser

ResetBegin(r, k) ==
    /\ Free(r)
    /\ ResetUsable(k)
    /\ resetLock' = [resetLock EXCEPT ![k] = r]
    /\ Begin(r, [op |-> "reset", key |-> k, snap |-> LiveOf(reset[k])])
    /\ UNCHANGED <<users, minted, token, reset, mail, adminLock, claimed, wins>>

SetPassword(u) == users' = [users EXCEPT ![u].pw = TRUE]

ResetCommit(r) ==
    LET k == req[r].key IN
    /\ req[r].op = "reset"
    /\ SetPassword(reset[k])
    /\ reset' = [reset EXCEPT ![k] = NoUser]
    /\ resetLock' = [resetLock EXCEPT ![k] = NoReq]
    /\ token' = Revoke(req[r].snap)
    /\ Finish(r)
    /\ UNCHANGED <<minted, mail, adminLock, claimed, wins>>

(* POST /update-password behind requireAuth: the current password is        *)
(* compared, then the hash is replaced and the user's tokens are revoked.   *)
UpdateBegin(r, u) ==
    /\ Free(r)
    /\ users[u].status = "active"
    /\ users[u].pw
    /\ Begin(r, [op |-> "update", user |-> u, snap |-> LiveOf(u)])
    /\ UNCHANGED <<users, minted, token, reset, resetLock, mail, adminLock, claimed, wins>>

UpdateCommit(r) ==
    /\ req[r].op = "update"
    /\ SetPassword(req[r].user)
    /\ token' = Revoke(req[r].snap)
    /\ Finish(r)
    /\ UNCHANGED <<minted, reset, resetLock, mail, adminLock, claimed, wins>>

(* POST /verify-email: the token is used once, and makes the user active. *)
VerifyEmail(u) ==
    /\ u \in mail
    /\ mail' = mail \ {u}
    /\ users' = [users EXCEPT ![u].status = "active"]
    /\ UNCHANGED <<minted, token, reset, resetLock, adminLock, claimed, wins, req>>

(* GET /google/callback: the identity is found, linked by e-mail or made,   *)
(* and the user is active afterwards, whatever the status was.              *)
GoogleSignIn(u) ==
    /\ users' = [users EXCEPT ![u].status = "active"]
    /\ Issue(u, 0, token)
    /\ UNCHANGED <<reset, resetLock, mail, adminLock, claimed, wins, req>>

-----------------------------------------------------------------------------
(* POST /admin/claim: the state is read, then claim_platform_admin decides  *)
(* under its own advisory lock.                                             *)
AdminExists == \E u \in User : users[u].admin

ClaimCheck(r, u) ==
    /\ Free(r)
    /\ users[u].status = "active"
    /\ ~AdminExists
    /\ ~claimed
    /\ Begin(r, [op |-> "claim", user |-> u])
    /\ UNCHANGED <<users, minted, token, reset, resetLock, mail, adminLock, claimed, wins>>

ClaimWins(u) == ~AdminExists /\ ~claimed /\ users[u].status = "active"

Claim(r) ==
    LET u == req[r].user IN
    /\ req[r].op = "claim"
    /\ IF ClaimWins(u)
       THEN /\ users' = [users EXCEPT ![u].admin = TRUE]
            /\ claimed' = TRUE
            /\ wins' = wins + 1
       ELSE UNCHANGED <<users, claimed, wins>>
    /\ Finish(r)
    /\ UNCHANGED <<minted, token, reset, resetLock, mail, adminLock>>

(* requireAuth and adminGate: the live row says admin and not disabled. *)
LiveAdmin(u) == users[u].admin /\ users[u].status # "disabled"

AdminGate(r, a) ==
    /\ Free(r)
    /\ users[a].status = "active"
    /\ users[a].admin
    /\ Begin(r, [op |-> "gated", actor |-> a])
    /\ UNCHANGED <<users, minted, token, reset, resetLock, mail, adminLock, claimed, wins>>

(* Mutant of Visible: the update runs without row security. *)
VisibleToAnyone(a) == IF a \in User THEN User ELSE {}

(* PATCH /admin/users/:id and POST .../platform-admin.  lockAdminMutation   *)
(* is held from here to the commit.  Row security shows the actor every     *)
(* row while the actor is an admin now, and only its own row otherwise.     *)
Visible(a) == IF LiveAdmin(a) THEN User ELSE {a}

(* Mutant of OtherAdmins: a disabled admin counts as one. *)
OtherAdminsDisabledToo(a, x) == {u \in Visible(a) \ {x} : users[u].admin}

OtherAdmins(a, x) ==
    {u \in Visible(a) \ {x} : users[u].admin /\ users[u].status = "active"}

MutationAllowed(a, x, change) ==
    /\ x \in Visible(a)
    /\ Known(x)
    /\ change = "disable" => x # a
    /\ change \in {"disable", "revoke"} /\ users[x].admin => OtherAdmins(a, x) # {}

AdminMutate(r, x, change) ==
    LET a == req[r].actor IN
    /\ req[r].op = "gated"
    /\ adminLock = NoReq
    /\ IF MutationAllowed(a, x, change)
       THEN /\ adminLock' = r
            /\ Begin(r, [op |-> "mutate", actor |-> a, target |-> x, change |-> change,
                         snap |-> LiveOf(x)])
       ELSE Finish(r) /\ UNCHANGED adminLock
    /\ UNCHANGED <<users, minted, token, reset, resetLock, mail, claimed, wins>>

Changed(row, change) ==
    CASE change = "enable"  -> [row EXCEPT !.status = "active"]
      [] change = "disable" -> [row EXCEPT !.status = "disabled"]
      [] change = "grant"   -> [row EXCEPT !.admin = TRUE]
      [] change = "revoke"  -> [row EXCEPT !.admin = FALSE]

AdminCommit(r) ==
    LET q == req[r] IN
    /\ q.op = "mutate"
    /\ users' = [users EXCEPT ![q.target] = Changed(@, q.change)]
    /\ token' = IF q.change = "disable" THEN Revoke(q.snap) ELSE token
    /\ adminLock' = NoReq
    /\ Finish(r)
    /\ UNCHANGED <<minted, reset, resetLock, mail, claimed, wins>>

-----------------------------------------------------------------------------
(* A reset token passes its expires_at. *)
ExpireReset(k) ==
    /\ reset[k] # NoUser
    /\ resetLock[k] = NoReq
    /\ reset' = [reset EXCEPT ![k] = NoUser]
    /\ UNCHANGED <<users, minted, token, resetLock, mail, adminLock, claimed, wins, req>>

(* A Worker is stopped in the middle of a request: open transactions roll   *)
(* back, locks are released.                                                *)
Abort(r) ==
    /\ ~Free(r)
    /\ Finish(r)
    /\ resetLock' = [k \in Reset |-> IF resetLock[k] = r THEN NoReq ELSE resetLock[k]]
    /\ adminLock' = IF adminLock = r THEN NoReq ELSE adminLock
    /\ UNCHANGED <<users, minted, token, reset, mail, claimed, wins>>

UserNext(r) ==
    \/ \E u \in User : LoginCheck(r, u) \/ UpdateBegin(r, u)
    \/ LoginIssue(r)
    \/ \E t \in Tok : RefreshReused(r, t) \/ RefreshDetect(r, t) \/ Logout(r, t)
    \/ RefreshRotate(r)
    \/ RefreshRefused(r)
    \/ RevokeCommit(r)
    \/ \E k \in Reset : ResetBegin(r, k)
    \/ ResetCommit(r)
    \/ UpdateCommit(r)

AdminNext(r) ==
    \/ \E u \in User : ClaimCheck(r, u) \/ AdminGate(r, u)
    \/ Claim(r)
    \/ \E x \in User, c \in Change : AdminMutate(r, x, c)
    \/ AdminCommit(r)

Next ==
    \/ \E r \in Req : UserNext(r) \/ AdminNext(r) \/ Abort(r)
    \/ \E t \in Tok : RefreshExpired(t)
    \/ \E k \in Reset : ExpireReset(k) \/ \E u \in User : Forgot(u, k)
    \/ \E u \in User : Register(u) \/ VerifyEmail(u) \/ GoogleSignIn(u)

Spec == Init /\ [][Next]_vars

-----------------------------------------------------------------------------
Status == {"none", "active", "disabled"}

UserRow == [status : Status, admin : BOOLEAN, pw : BOOLEAN]

TokenRow == [user : User \cup {NoUser}, family : 0 .. MaxTok,
             state : {"none", "live", "revoked"}]

Request ==
    {Idle}
    \cup [op : {"login"}, user : User]
    \cup [op : {"rotate"}, tok : Tok]
    \cup [op : {"revoke"}, snap : SUBSET Tok]
    \cup [op : {"reset"}, key : Reset, snap : SUBSET Tok]
    \cup [op : {"update"}, user : User, snap : SUBSET Tok]
    \cup [op : {"claim"}, user : User]
    \cup [op : {"gated"}, actor : User]
    \cup [op : {"mutate"}, actor : User, target : User, change : Change, snap : SUBSET Tok]

(* Rows, requests and locks have the shape the tables and handlers give     *)
(* them, and rows beyond the minted ones are blank.                         *)
SessionsTypeOK ==
    /\ users \in [User -> UserRow]
    /\ minted \in 0 .. MaxTok
    /\ token \in [Tok -> TokenRow]
    /\ \A t \in Tok : IF t <= minted THEN token[t].user \in User /\ token[t].family \in 1 .. t
                                      ELSE token[t] = NoToken
    /\ reset \in [Reset -> User \cup {NoUser}]
    /\ \A r, s \in Req : r # s /\ req[r].op = "reset" /\ req[s].op = "reset" => req[r].key # req[s].key
    /\ resetLock \in [Reset -> Req \cup {NoReq}]
    /\ mail \subseteq User
    /\ adminLock \in Req \cup {NoReq}
    /\ claimed \in BOOLEAN
    /\ wins \in Nat
    /\ req \in [Req -> Request]

(* However refreshes of one token, logouts and reuse detection interleave,  *)
(* a family never has two refresh tokens that work: rotation reads the row  *)
(* again under its lock (POST /refresh).  Types and locks are right.        *)
OneLivePerFamily ==
    /\ SessionsTypeOK
    /\ \A s, t \in Tok : Live(s) /\ Live(t) /\ token[s].family = token[t].family => s = t

(* A family whose last working token was revoked never has one again: a     *)
(* refresh that passed the first transaction before a logout cannot revive  *)
(* the session in the second.                                               *)
NoResurrection ==
    [][\A t \in Tok : t <= minted /\ LiveIn(token[t].family) = {}
                         => \A s \in Tok : token'[s].family = token[t].family => ~Live(s)']_vars

(* Once the instance is claimed it has an admin who can sign in, whatever   *)
(* admins revoke or disable one another at the same time (lockAdminMutation *)
(* and the checks of routes/admin.ts); of all the claims that passed the    *)
(* first check only one ever wins.                                          *)
LastAdmin ==
    /\ claimed => \E u \in User : users[u].admin /\ users[u].status = "active"
    /\ wins <= 1

(* adminGate reads the actor's row before the transaction.  An actor who    *)
(* was demoted or disabled since changes nobody else's row: the change is   *)
(* made under the lock, by someone who is an admin at that moment.          *)
AuthorityHeld ==
    \A r \in Req : req[r].op = "mutate" /\ req[r].target # req[r].actor => LiveAdmin(req[r].actor)

=============================================================================
