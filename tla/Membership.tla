----------------------------- MODULE Membership -----------------------------
(***************************************************************************)
(* Who belongs to an account and whose a phone number is, in the Workers   *)
(* backend: the invites of routes/accounts.ts, registration in             *)
(* routes/auth.ts, routes/phones.ts with its verification challenges, and  *)
(* the OTP limits of lib/rate-limit.ts, within one hour.                   *)
(*                                                                         *)
(* A request is one READ COMMITTED transaction: it begins by the statement *)
(* that locks the row it turns on, and what it writes appears when it      *)
(* commits.  A row that another transaction has locked is waited for;      *)
(* a cycle of waiting transactions is broken by Abort.                     *)
(***************************************************************************)
EXTENDS Naturals, FiniteSets

CONSTANTS
    User,        \* the people; a user's e-mail address is the user
    Founder,     \* who registered the account and is its owner
    Phone,       \* phone numbers
    Invite,      \* invites to the account
    Offer,       \* bound: the invites that are made: user, role and number
    Req,         \* requests that can be in flight together
    NoPhone, NoUser,
    StartCap,    \* OTP_START_MAX_PER_HOUR, per user
    VerifyCap,   \* OTP_VERIFY_MAX_PER_HOUR, per phone row
    MaxAttempts, \* VERIFICATION_MAX_ATTEMPTS, per challenge
    MaxPhones,   \* trigger profile_phone_numbers_max_phones
    MaxRows      \* bound: phone rows ever made of one user and number

ASSUME PeopleAssumption ==
    Founder \in User /\ NoUser \notin User /\ NoPhone \notin Phone
ASSUME CapsAssumption ==
    StartCap \in Nat /\ VerifyCap \in Nat /\ MaxAttempts \in Nat /\ MaxPhones \in Nat /\ MaxRows \in Nat \ {0}

Role == {"owner", "member"}

ASSUME OfferAssumption == Offer \subseteq User \X Role \X (Phone \cup {NoPhone})

Line == User \X Phone      \* a number on somebody's profile

VARIABLES
    known,      \* users that are registered
    member,     \* account_members: role of a user, or "none"
    invite,     \* account_invites
    phone,      \* profile_phone_numbers: row per user and number
    code,       \* phone_verification_codes: attempts at a pending challenge
    starts,     \* otp_start counter per user
    tries,      \* otp_verify counter of the present phone row
    guesses,    \* history: wrong codes compared, per user
    granted,    \* history: times an invite has made somebody a member
    req         \* the requests between two of their steps

vars == <<known, member, invite, phone, code, starts, tries, guesses, granted, req>>
people == <<known, member, invite, granted>>
numbers == <<phone, code, starts, tries, guesses>>

NoInvite == [state |-> "none", user |-> NoUser, role |-> "none", phone |-> NoPhone]
NoRow == [state |-> "none", id |-> 0]
NoCode == MaxAttempts + 1
Idle == [op |-> "idle"]

Init ==
    /\ known = {Founder}
    /\ member = [u \in User |-> IF u = Founder THEN "owner" ELSE "none"]
    /\ invite = [i \in Invite |-> NoInvite]
    /\ phone = [l \in Line |-> NoRow]
    /\ code = [l \in Line |-> NoCode]
    /\ starts = [u \in User |-> 0]
    /\ tries = [l \in Line |-> 0]
    /\ guesses = [u \in User |-> 0]
    /\ granted = [i \in Invite |-> 0]
    /\ req = [r \in Req |-> Idle]

Free(r) == req[r].op = "idle"

Begin(r, rec) == req' = [req EXCEPT ![r] = rec]

Finish(r) == req' = [req EXCEPT ![r] = Idle]

HasRow(l) == phone[l].state # "none"

Verified(l) == phone[l].state = "verified"

(* Row locks: an upsert or a delete holds the phone row, a matched code its *)
(* challenge and the row's otp_verify counter, an accept its invite.        *)
RowFree(l) == \A q \in Req : req[q].op \in {"add", "delete"} => req[q].line # l

CodeFree(l) == \A q \in Req : req[q].op = "matched" => req[q].line # l

(* Mutant of InviteFree: the invite is read without FOR UPDATE. *)
InviteFreeUnlocked(i) == i \in Invite

InviteFree(i) == \A q \in Req : req[q].op \in {"accept", "register"} => req[q].invite # i

-----------------------------------------------------------------------------
(* POST /accounts/:id/invites, by an owner or admin (row security).         *)
CreateInvite(i, offer) ==
    /\ invite[i].state = "none"
    /\ \E a \in User : member[a] = "owner"
    /\ invite' = [invite EXCEPT ![i] = [state |-> "open", user |-> offer[1], role |-> offer[2],
                                       phone |-> offer[3]]]
    /\ UNCHANGED <<known, member, granted, numbers, req>>

(* An invite passes its expires_at, seven days on. *)
ExpireInvite(i) ==
    /\ invite[i].state = "open"
    /\ invite' = [invite EXCEPT ![i].state = "expired"]
    /\ UNCHANGED <<known, member, granted, numbers, req>>

(* POST /accounts/invites/:token/accept by the invited user, and POST       *)
(* /register with an invite_token by somebody new: the invite is locked and *)
(* must be open.  The number typed, if any, agrees with the invite's.       *)
InviteBegin(r, i, op, p) ==
    /\ Free(r)
    /\ invite[i].state = "open"
    /\ InviteFree(i)
    /\ (op = "register") = (invite[i].user \notin known)
    /\ NoPhone \in {p, invite[i].phone} \/ p = invite[i].phone
    /\ Begin(r, [op |-> op, invite |-> i, phone |-> IF p = NoPhone THEN invite[i].phone ELSE p])
    /\ UNCHANGED <<people, numbers>>

Join(u, role) == member' = [member EXCEPT ![u] = role]

UseInvite(i) ==
    /\ invite' = [invite EXCEPT ![i].state = "used"]
    /\ granted' = [granted EXCEPT ![i] = @ + 1]

RowsOf(u) == {l \in Line : l[1] = u /\ HasRow(l)}

(* insert into profile_phone_numbers ... on conflict: the trigger counts    *)
(* the rows before the conflict is seen.                                    *)
MayUpsert(l) ==
    /\ Cardinality(RowsOf(l[1])) < MaxPhones
    /\ HasRow(l) \/ phone[l].id < MaxRows

Linked(l) == IF HasRow(l) THEN phone[l] ELSE [state |-> "pending", id |-> phone[l].id + 1]

(* consumeOtpStartLimit, then app.phone_verification_start.                 *)
(* A new challenge begins with no attempts; a new row with no tries.        *)
Challenge(l) ==
    /\ starts' = [starts EXCEPT ![l[1]] = @ + 1]
    /\ code' = [code EXCEPT ![l] = 0]

LinkRow(l) ==
    /\ phone' = [phone EXCEPT ![l] = Linked(l)]
    /\ tries' = IF HasRow(l) THEN tries ELSE [tries EXCEPT ![l] = 0]

(* The acceptance: membership, the invite used, the number linked           *)
(* unverified; a challenge if the budget allows, the acceptance anyway.     *)
AcceptCommit(r) ==
    LET i == req[r].invite
        u == invite[i].user
        l == <<u, req[r].phone>> IN
    /\ req[r].op = "accept"
    /\ Join(u, invite[i].role)
    /\ UseInvite(i)
    /\ Finish(r)
    /\ IF req[r].phone = NoPhone
       THEN UNCHANGED <<phone, code, starts, tries>>
       ELSE /\ RowFree(l)
            /\ MayUpsert(l)
            /\ LinkRow(l)
            /\ IF ~Verified(l) /\ starts[u] < StartCap
               THEN CodeFree(l) /\ Challenge(l)
               ELSE UNCHANGED <<code, starts>>
    /\ UNCHANGED <<known, guesses>>

(* profile_phone_numbers_verified_unique. *)
Taken(l) == \E u \in User \ {l[1]} : Verified(<<u, l[2]>>)

VerifiedNow(l) == [phone EXCEPT ![l] = [state |-> "verified", id |-> Linked(l).id]]

(* A registration verifies the number that was typed; a number that is      *)
(* somebody's already fails it.                                             *)
RegisterCommit(r) ==
    LET i == req[r].invite
        u == invite[i].user
        l == <<u, req[r].phone>> IN
    /\ req[r].op = "register"
    /\ u \notin known
    /\ known' = known \cup {u}
    /\ Join(u, invite[i].role)
    /\ UseInvite(i)
    /\ Finish(r)
    /\ IF req[r].phone = NoPhone THEN UNCHANGED phone ELSE ~Taken(l) /\ phone' = VerifiedNow(l)
    /\ UNCHANGED <<code, starts, tries, guesses>>

(* POST /register without an invite: the user owns an account of its own.   *)
Register(u, p) ==
    LET l == <<u, p>> IN
    /\ u \notin known
    /\ known' = known \cup {u}
    /\ IF p = NoPhone THEN UNCHANGED phone ELSE ~Taken(l) /\ phone' = VerifiedNow(l)
    /\ UNCHANGED <<member, invite, granted, code, starts, tries, guesses, req>>

-----------------------------------------------------------------------------
(* POST /me/phones: the upsert locks the number's row ...                   *)
AddBegin(r, l) ==
    /\ Free(r)
    /\ l[1] \in known
    /\ MayUpsert(l)
    /\ RowFree(l)
    /\ Begin(r, [op |-> "add", line |-> l])
    /\ UNCHANGED <<people, numbers>>

(* ... and one that is not verified gets a challenge, or is refused.        *)
AddCommit(r) ==
    LET l == req[r].line IN
    /\ req[r].op = "add"
    /\ Verified(l) \/ (starts[l[1]] < StartCap /\ CodeFree(l))
    /\ LinkRow(l)
    /\ IF Verified(l) THEN UNCHANGED <<code, starts>> ELSE Challenge(l)
    /\ Finish(r)
    /\ UNCHANGED <<people, guesses>>

(* POST /me/phones/:id/verify: the row is read ...                          *)
VerifyRead(r, l) ==
    /\ Free(r)
    /\ phone[l].state = "pending"
    /\ Begin(r, [op |-> "verify", line |-> l, id |-> phone[l].id])
    /\ UNCHANGED <<people, numbers>>

(* The row may be gone, or made anew, by now. *)
SameRow(r) == HasRow(req[r].line) /\ phone[req[r].line].id = req[r].id

(* ... an attempt is charged to it, and phone_verification_consume compares *)
(* the code, holding the challenge: without one, or with one that is worn   *)
(* out, only the charge remains.                                            *)
VerifyBlocked(r) ==
    LET l == req[r].line IN
    /\ req[r].op = "verify"
    /\ CodeFree(l)
    /\ ~SameRow(r) \/ tries[l] >= VerifyCap \/ code[l] >= MaxAttempts
    /\ tries' = IF SameRow(r) /\ tries[l] < VerifyCap THEN [tries EXCEPT ![l] = @ + 1] ELSE tries
    /\ Finish(r)
    /\ UNCHANGED <<people, phone, code, starts, guesses>>

MayCompare(r) ==
    LET l == req[r].line IN
    /\ req[r].op = "verify"
    /\ CodeFree(l)
    /\ SameRow(r)
    /\ tries[l] < VerifyCap
    /\ code[l] < MaxAttempts

(* Mutant of Missed: the failure branch throws inside the transaction. *)
MissedRolledBack(l) == code[l] + 0

Missed(l) == code[l] + 1

VerifyWrong(r) ==
    LET l == req[r].line IN
    /\ MayCompare(r)
    /\ tries' = [tries EXCEPT ![l] = @ + 1]
    /\ code' = [code EXCEPT ![l] = Missed(l)]
    /\ guesses' = [guesses EXCEPT ![l[1]] = @ + 1]
    /\ Finish(r)
    /\ UNCHANGED <<people, phone, starts>>

VerifyRight(r) ==
    LET l == req[r].line IN
    /\ MayCompare(r)
    /\ tries' = [tries EXCEPT ![l] = @ + 1]
    /\ Begin(r, [op |-> "matched", line |-> l])
    /\ UNCHANGED <<people, phone, code, starts, guesses>>

(* The right code verifies the number, unless it is somebody else's by now; *)
(* then the challenge stays.                                                *)
VerifyCommit(r) ==
    LET l == req[r].line IN
    /\ req[r].op = "matched"
    /\ RowFree(l)
    /\ IF Taken(l)
       THEN UNCHANGED <<phone, code>>
       ELSE phone' = VerifiedNow(l) /\ code' = [code EXCEPT ![l] = NoCode]
    /\ Finish(r)
    /\ UNCHANGED <<people, starts, tries, guesses>>

(* A challenge passes its expires_at, ten minutes on. *)
ExpireCode(l) ==
    /\ code[l] # NoCode
    /\ CodeFree(l)
    /\ code' = [code EXCEPT ![l] = NoCode]
    /\ UNCHANGED <<people, phone, starts, tries, guesses, req>>

(* DELETE /me/phones/:id: the row, then by cascade its challenge.           *)
DeleteBegin(r, l) ==
    /\ Free(r)
    /\ HasRow(l)
    /\ RowFree(l)
    /\ Begin(r, [op |-> "delete", line |-> l])
    /\ UNCHANGED <<people, numbers>>

DeleteCommit(r) ==
    LET l == req[r].line IN
    /\ req[r].op = "delete"
    /\ CodeFree(l)
    /\ phone' = [phone EXCEPT ![l].state = "none"]
    /\ code' = [code EXCEPT ![l] = NoCode]
    /\ Finish(r)
    /\ UNCHANGED <<people, starts, tries, guesses>>

(* A request is refused or dies half-way, or is the victim of a deadlock:   *)
(* what it wrote is gone, the attempt it was charged included.              *)
Abort(r) ==
    /\ ~Free(r)
    /\ tries' = IF req[r].op = "matched" THEN [tries EXCEPT ![req[r].line] = @ - 1] ELSE tries
    /\ Finish(r)
    /\ UNCHANGED <<people, phone, code, starts, guesses>>

Next ==
    \/ \E i \in Invite, offer \in Offer : CreateInvite(i, offer)
    \/ \E i \in Invite : ExpireInvite(i)
    \/ \E u \in User, p \in Phone \cup {NoPhone} : Register(u, p)
    \/ \E l \in Line : ExpireCode(l)
    \/ \E r \in Req :
        \/ \E i \in Invite, op \in {"accept", "register"}, p \in Phone \cup {NoPhone} :
                InviteBegin(r, i, op, p)
        \/ AcceptCommit(r) \/ RegisterCommit(r)
        \/ \E l \in Line : AddBegin(r, l) \/ VerifyRead(r, l) \/ DeleteBegin(r, l)
        \/ AddCommit(r)
        \/ VerifyBlocked(r) \/ VerifyWrong(r) \/ VerifyRight(r) \/ VerifyCommit(r)
        \/ DeleteCommit(r) \/ Abort(r)

Spec == Init /\ [][Next]_vars

-----------------------------------------------------------------------------
(* Rows, requests and locks have the shape the tables and handlers give     *)
(* them: at most one transaction holds a number's row, a challenge belongs  *)
(* to a number that is not verified, a number is verified for one person.   *)
MembershipTypeOK ==
    /\ known \subseteq User
    /\ member \in [User -> Role \cup {"none"}]
    /\ \A u \in User : member[u] # "none" => u \in known
    /\ \A l \in Line : phone[l].state \in {"none", "pending", "verified"} /\ phone[l].id \in 0 .. MaxRows
    /\ \A l \in Line : code[l] # NoCode => code[l] \in 0 .. MaxAttempts /\ phone[l].state = "pending"
    /\ \A l, k \in Line : Verified(l) /\ Verified(k) /\ l[2] = k[2] => l = k
    /\ starts \in [User -> 0 .. StartCap]
    /\ tries \in [Line -> 0 .. VerifyCap]
    /\ \A q, r \in Req : q # r /\ req[q].op \in {"add", "delete"} /\ req[r].op \in {"add", "delete"}
                            => req[q].line # req[r].line

(* An invite makes somebody a member at most once, however often it is      *)
(* redeemed at the same time: an old invite never gives a role back that a  *)
(* later one has changed (SELECT ... FOR UPDATE).                           *)
GrantedOnce == \A i \in Invite : granted[i] <= 1

(* Within the hour nobody gets more wrong guesses than the challenges that  *)
(* were charged to them allow, whatever they delete, add again, or send at  *)
(* the same time (phones.ts: failures must not roll the attempt back).      *)
GuessesBounded == \A u \in User : guesses[u] <= starts[u] * MaxAttempts

=============================================================================
