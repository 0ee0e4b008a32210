--------------------------- MODULE Tenancy_proofs ---------------------------
(***************************************************************************)
(* Proofs about what the members of an account change beside one another,  *)
(* for any number of people, places, gates, grants and requests: one part  *)
(* after the other, and their composition at the end.                      *)
(***************************************************************************)
EXTENDS Tenancy, FiniteSetTheorems, TLAPS

(***************************************************************************)
(* Membership.  The inductive invariant says what a request may rely on    *)
(* between the statement that locks a row and its commit: the invite has   *)
(* made nobody a member yet, the number's row and the matched challenge    *)
(* are as they were.                                                       *)
(***************************************************************************)

Accepting == {"accept", "register"}

RequestsTyped ==
    /\ req = [r \in Req |-> req[r]]
    /\ \A r \in Req :
        /\ req[r].op \in {"idle", "add", "delete", "verify", "matched"} \cup Accepting
        /\ req[r].op \in Accepting => req[r].invite \in Invite /\ req[r].phone \in Phone \cup {NoPhone}
        /\ req[r].op \in {"add", "delete", "verify", "matched"} => req[r].line \in Line

InviteRow == [state : {"none", "open", "expired", "used"}, user : User \cup {NoUser},
              role : Role \cup {"none"}, phone : Phone \cup {NoPhone}]

(* An invite that is being accepted is locked, and has made nobody a member. *)
InvitesHeld ==
    /\ invite \in [Invite -> InviteRow]
    /\ granted \in [Invite -> Nat]
    /\ \A i \in Invite :
        /\ invite[i].state # "none" => invite[i].user \in User /\ invite[i].role \in Role
        /\ granted[i] = IF invite[i].state = "used" THEN 1 ELSE 0
    /\ \A r \in Req : req[r].op \in Accepting =>
        /\ invite[req[r].invite].state \in {"open", "expired"}
        /\ req[r].op = "accept" => invite[req[r].invite].user \in known
    /\ \A q, r \in Req : q # r /\ req[q].op \in Accepting /\ req[r].op \in Accepting
          => req[q].invite # req[r].invite

PeopleTyped ==
    /\ known \subseteq User
    /\ member \in [User -> Role \cup {"none"}]
    /\ \A u \in User : member[u] # "none" => u \in known

(* Whoever is not registered has no number; a row is locked by one request; *)
(* the row and the charge of a matched challenge stay until its commit.     *)
NumbersHeld ==
    /\ phone \in [Line -> [state : {"none", "pending", "verified"}, id : 0 .. MaxRows]]
    /\ code \in [Line -> Nat]
    /\ starts \in [User -> 0 .. StartCap]
    /\ tries \in [Line -> 0 .. VerifyCap]
    /\ \A l \in Line :
        /\ code[l] # NoCode => code[l] \in 0 .. MaxAttempts /\ phone[l].state = "pending"
        /\ l[1] \notin known => phone[l] = NoRow
    /\ \A l, k \in Line : Verified(l) /\ Verified(k) /\ l[2] = k[2] => l = k
    /\ \A r \in Req :
        /\ req[r].op = "add" => req[r].line[1] \in known
                             /\ (HasRow(req[r].line) \/ phone[req[r].line].id < MaxRows)
        /\ req[r].op = "matched" => HasRow(req[r].line) /\ tries[req[r].line] >= 1
    /\ \A q, r \in Req : q # r =>
        /\ req[q].op \in {"add", "delete"} /\ req[r].op \in {"add", "delete"} => req[q].line # req[r].line
        /\ req[q].op = "matched" /\ req[r].op = "matched" => req[q].line # req[r].line

MembershipInv == RequestsTyped /\ InvitesHeld /\ PeopleTyped /\ NumbersHeld

-----------------------------------------------------------------------------
LEMMA MembershipInitially == Init => MembershipInv
<1> SUFFICES ASSUME Init PROVE MembershipInv
  OBVIOUS
<1> USE PeopleAssumption, CapsAssumption DEF Init
<1>1. RequestsTyped
  BY DEF RequestsTyped, Idle, Accepting
<1>2. InvitesHeld
  BY DEF InvitesHeld, Idle, Accepting, NoInvite, InviteRow
<1>3. PeopleTyped
  BY DEF PeopleTyped, Role
<1>4. NumbersHeld
  BY DEF NumbersHeld, Idle, NoRow, NoCode, HasRow, Verified
<1> QED BY <1>1, <1>2, <1>3, <1>4 DEF MembershipInv

(* A line is known by its person and its number. *)
LEMMA LineParts ==
    /\ \A u \in User, p \in Phone : <<u, p>> \in Line /\ <<u, p>>[1] = u /\ <<u, p>>[2] = p
    /\ \A l, k \in Line : l[1] \in User /\ l[2] \in Phone /\ (l[1] = k[1] /\ l[2] = k[2] => l = k)
    /\ \A l \in Line : l = <<l[1], l[2]>>
  BY DEF Line

(* Committing the acceptance of an invite uses it and frees its lock; no    *)
(* other request holds the invite, so that it is counted once.              *)
LEMMA UsingKeepsInvites ==
    ASSUME RequestsTyped, InvitesHeld, NEW r \in Req, req[r].op \in Accepting,
           UseInvite(req[r].invite), Finish(r), known \subseteq known'
    PROVE  InvitesHeld'
<1> DEFINE i == req[r].invite
<1>1. /\ i \in Invite
      /\ invite[i].state # "used"
      /\ invite[i] \in InviteRow
  BY DEF RequestsTyped, InvitesHeld
<1>2. /\ req' = [req EXCEPT ![r] = Idle]
      /\ req'[r].op = "idle"
      /\ \A q \in Req : q # r => req'[q] = req[q]
  BY DEF RequestsTyped, Finish, Idle
<1>3. \A q \in Req : req'[q].op \in Accepting =>
         q # r /\ req'[q] = req[q] /\ req[q].invite # i /\ req[q].invite \in Invite
  BY <1>2 DEF RequestsTyped, InvitesHeld, Accepting
<1> HIDE DEF i
<1>4. /\ invite' = [invite EXCEPT ![i] = [invite[i] EXCEPT !.state = "used"]]
      /\ granted' = [granted EXCEPT ![i] = granted[i] + 1]
  BY DEF UseInvite, i
<1>5. /\ [invite[i] EXCEPT !.state = "used"] \in InviteRow
      /\ [invite[i] EXCEPT !.state = "used"].state = "used"
      /\ [invite[i] EXCEPT !.state = "used"].user = invite[i].user
      /\ [invite[i] EXCEPT !.state = "used"].role = invite[i].role
  BY <1>1 DEF InviteRow
<1>6. /\ invite' \in [Invite -> InviteRow]
      /\ granted' \in [Invite -> Nat]
      /\ \A j \in Invite : j # i => invite'[j] = invite[j] /\ granted'[j] = granted[j]
      /\ invite'[i].state = "used" /\ granted'[i] = 1
      /\ invite'[i].user = invite[i].user /\ invite'[i].role = invite[i].role
  BY <1>1, <1>4, <1>5 DEF InvitesHeld
<1>7. invite[i].state # "none"
  BY DEF InvitesHeld, i
<1>8. \A j \in Invite :
        /\ invite'[j].state # "none" => invite'[j].user \in User /\ invite'[j].role \in Role
        /\ granted'[j] = IF invite'[j].state = "used" THEN 1 ELSE 0
  BY <1>1, <1>6, <1>7 DEF InvitesHeld
<1>9. \A q \in Req : req'[q].op \in Accepting =>
        /\ invite'[req'[q].invite].state \in {"open", "expired"}
        /\ req'[q].op = "accept" => invite'[req'[q].invite].user \in known'
  BY <1>3, <1>6 DEF InvitesHeld
<1>10. \A q, s \in Req : q # s /\ req'[q].op \in Accepting /\ req'[s].op \in Accepting
          => req'[q].invite # req'[s].invite
  BY <1>3 DEF InvitesHeld
<1> QED BY <1>6, <1>8, <1>9, <1>10 DEF InvitesHeld

(* Verifying a number that is nobody else's leaves each number with at most *)
(* one person.                                                              *)
LEMMA VerifyingKeepsOne ==
    ASSUME NumbersHeld, NEW l \in Line, ~Taken(l), phone' = VerifiedNow(l),
           HasRow(l) \/ phone[l].id < MaxRows
    PROVE  /\ phone' \in [Line -> [state : {"none", "pending", "verified"}, id : 0 .. MaxRows]]
           /\ phone' = [phone EXCEPT ![l] = phone'[l]]
           /\ phone'[l].state = "verified"
           /\ \A m, k \in Line : Verified(m)' /\ Verified(k)' /\ m[2] = k[2] => m = k
<1> USE CapsAssumption
<1>1. Linked(l).id \in 0 .. MaxRows
  BY DEF NumbersHeld, Linked, HasRow
<1>2. phone' = [phone EXCEPT ![l] = [state |-> "verified", id |-> Linked(l).id]]
  BY DEF VerifiedNow
<1>3. \A k \in Line : Verified(k) /\ k[2] = l[2] => k = l
  BY LineParts DEF Taken
<1>4. \A k \in Line : Verified(k)' => Verified(k) \/ k = l
  BY <1>2 DEF Verified, NumbersHeld
<1>5. phone' \in [Line -> [state : {"none", "pending", "verified"}, id : 0 .. MaxRows]]
  BY <1>1, <1>2 DEF NumbersHeld
<1>6. phone' = [phone EXCEPT ![l] = phone'[l]] /\ phone'[l].state = "verified"
  BY <1>2 DEF NumbersHeld
<1>7. \A m, k \in Line : Verified(m)' /\ Verified(k)' /\ m[2] = k[2] => m = k
  BY <1>3, <1>4 DEF NumbersHeld
<1> QED BY <1>5, <1>6, <1>7

(* Every step, action by action. *)
LEMMA MembershipStep ==
    ASSUME MembershipInv, [Next]_vars
    PROVE  MembershipInv'
<1> USE PeopleAssumption, CapsAssumption
<1>1. ASSUME NEW i \in Invite, NEW offer \in Offer, CreateInvite(i, offer)
     PROVE  MembershipInv'
  <2>1. RequestsTyped'
    BY <1>1, OfferAssumption DEF MembershipInv, RequestsTyped, CreateInvite, numbers,
       InvitesHeld, InviteRow, Accepting
  <2>2. InvitesHeld'
    BY <1>1, OfferAssumption DEF MembershipInv, RequestsTyped, InvitesHeld, PeopleTyped,
       Accepting, InviteRow, CreateInvite, numbers
  <2>3. PeopleTyped'
    BY <1>1, OfferAssumption DEF MembershipInv, PeopleTyped, InvitesHeld, RequestsTyped,
       Accepting, InviteRow, CreateInvite, numbers, Role
  <2>4. NumbersHeld'
    BY <1>1, OfferAssumption DEF MembershipInv, RequestsTyped, PeopleTyped, NumbersHeld,
       CreateInvite, numbers, NoCode, HasRow, Verified, NoRow, Idle
  <2> QED BY <2>1, <2>2, <2>3, <2>4 DEF MembershipInv
<1>2. ASSUME NEW i \in Invite, ExpireInvite(i)
     PROVE  MembershipInv'
  <2>1. RequestsTyped'
    BY <1>2 DEF MembershipInv, RequestsTyped, ExpireInvite, numbers, InvitesHeld, InviteRow,
       Accepting
  <2>2. InvitesHeld'
    BY <1>2 DEF MembershipInv, RequestsTyped, InvitesHeld, PeopleTyped, Accepting,
       InviteRow, ExpireInvite, numbers
  <2>3. PeopleTyped'
    BY <1>2 DEF MembershipInv, PeopleTyped, InvitesHeld, RequestsTyped, Accepting,
       InviteRow, ExpireInvite, numbers
  <2>4. NumbersHeld'
    BY <1>2 DEF MembershipInv, RequestsTyped, PeopleTyped, NumbersHeld, ExpireInvite,
       numbers, NoCode, HasRow, Verified, NoRow, Idle
  <2> QED BY <2>1, <2>2, <2>3, <2>4 DEF MembershipInv
<1>3. ASSUME NEW u \in User, NEW p \in Phone \cup {NoPhone}, Register(u, p)
     PROVE  MembershipInv'
  <2>1. RequestsTyped'
    BY <1>3 DEF MembershipInv, RequestsTyped, Register, Taken, Verified, VerifiedNow,
       Linked, HasRow, InvitesHeld, InviteRow, Accepting
  <2>2. InvitesHeld'
    BY <1>3 DEF MembershipInv, RequestsTyped, InvitesHeld, PeopleTyped, Accepting,
       InviteRow, Register, Taken, Verified, VerifiedNow, Linked, HasRow
  <2>3. PeopleTyped'
    BY <1>3 DEF MembershipInv, PeopleTyped, InvitesHeld, RequestsTyped, Accepting,
       InviteRow, Register, Taken, Verified, VerifiedNow, Linked, HasRow
  <2>4. NumbersHeld'
    <3>1. CASE p = NoPhone
      BY <1>3, <3>1 DEF MembershipInv, PeopleTyped, NumbersHeld, RequestsTyped, Register, HasRow, Verified
    <3>2. CASE p # NoPhone
      <4> DEFINE l == <<u, p>>
      <4>1. l \in Line /\ l[1] = u
        BY <3>2, LineParts
      <4> HIDE DEF l
      <4>2. u \notin known /\ known' = known \cup {u} /\ ~Taken(l) /\ phone' = VerifiedNow(l)
        BY <1>3, <3>2 DEF Register, l
      <4>3. NumbersHeld /\ phone[l] = NoRow
        BY <4>1, <4>2 DEF MembershipInv, NumbersHeld
      <4>4. UNCHANGED <<code, starts, tries, req>>
        BY <1>3 DEF Register
      <4>5. /\ phone' \in [Line -> [state : {"none", "pending", "verified"}, id : 0 .. MaxRows]]
            /\ phone' = [phone EXCEPT ![l] = phone'[l]]
            /\ phone'[l].state = "verified"
            /\ \A m, k \in Line : Verified(m)' /\ Verified(k)' /\ m[2] = k[2] => m = k
        BY <4>1, <4>2, <4>3, VerifyingKeepsOne DEF NoRow
      <4>6. \A k \in Line : (k # l => phone'[k] = phone[k]) /\ (HasRow(k) => HasRow(k)')
        BY <4>5, <4>3 DEF HasRow, NumbersHeld
      <4>7. \A k \in Line : /\ code[k] # NoCode => code[k] \in 0 .. MaxAttempts /\ phone'[k].state = "pending"
                            /\ k[1] \notin known' => phone'[k] = NoRow
        BY <4>1, <4>2, <4>3, <4>6 DEF NumbersHeld, NoRow
      <4>8. \A q \in Req :
              (/\ req[q].op = "add" => /\ req[q].line[1] \in known
                                       /\ HasRow(req[q].line) \/ phone[req[q].line].id < MaxRows
               /\ req[q].op = "matched" => HasRow(req[q].line) /\ tries[req[q].line] >= 1)'
        <5>1. RequestsTyped
          BY DEF MembershipInv
        <5> QED BY <5>1, <4>1, <4>2, <4>3, <4>4, <4>6 DEF NumbersHeld, RequestsTyped
      <4> QED BY <4>3, <4>4, <4>5, <4>7, <4>8 DEF NumbersHeld
    <3> QED BY <3>1, <3>2
  <2> QED BY <2>1, <2>2, <2>3, <2>4 DEF MembershipInv
<1>4. ASSUME NEW l \in Line, ExpireCode(l)
     PROVE  MembershipInv'
  <2>1. RequestsTyped'
    BY <1>4 DEF MembershipInv, RequestsTyped, ExpireCode, CodeFree, people, InvitesHeld,
       InviteRow, Accepting
  <2>2. InvitesHeld'
    BY <1>4 DEF MembershipInv, RequestsTyped, InvitesHeld, PeopleTyped, Accepting,
       InviteRow, ExpireCode, CodeFree, people
  <2>3. PeopleTyped'
    BY <1>4 DEF MembershipInv, PeopleTyped, InvitesHeld, RequestsTyped, Accepting,
       InviteRow, ExpireCode, CodeFree, people
  <2>4. NumbersHeld'
    BY <1>4 DEF MembershipInv, RequestsTyped, PeopleTyped, NumbersHeld, ExpireCode,
       CodeFree, people, NoCode, HasRow, Verified, NoRow, Idle
  <2> QED BY <2>1, <2>2, <2>3, <2>4 DEF MembershipInv
<1>5. ASSUME NEW r \in Req, NEW i \in Invite, NEW op \in {"accept", "register"},
            NEW p \in Phone \cup {NoPhone}, InviteBegin(r, i, op, p)
     PROVE  MembershipInv'
  <2>1. RequestsTyped'
    BY <1>5 DEF MembershipInv, RequestsTyped, InviteBegin, Free, InviteFree, Begin, people,
       numbers, InvitesHeld, InviteRow, Accepting
  <2>2. InvitesHeld'
    BY <1>5 DEF MembershipInv, RequestsTyped, InvitesHeld, PeopleTyped, Accepting,
       InviteRow, InviteBegin, Free, InviteFree, Begin, people, numbers
  <2>3. PeopleTyped'
    BY <1>5 DEF MembershipInv, PeopleTyped, InvitesHeld, RequestsTyped, Accepting,
       InviteRow, InviteBegin, Free, InviteFree, Begin, people, numbers
  <2>4. NumbersHeld'
    BY <1>5 DEF MembershipInv, RequestsTyped, PeopleTyped, NumbersHeld, InviteBegin, Free,
       InviteFree, Begin, people, numbers, NoCode, HasRow, Verified, NoRow, Idle
  <2> QED BY <2>1, <2>2, <2>3, <2>4 DEF MembershipInv
<1>6. ASSUME NEW r \in Req, AcceptCommit(r)
     PROVE  MembershipInv'
  <2>1. RequestsTyped'
    BY <1>6 DEF MembershipInv, RequestsTyped, AcceptCommit, Join, UseInvite, Finish, Idle,
       RowFree, MayUpsert, RowsOf, HasRow, LinkRow, Linked, Verified, CodeFree, Challenge,
       InvitesHeld, InviteRow, Accepting
  <2>2. InvitesHeld'
    BY <1>6, UsingKeepsInvites DEF MembershipInv, AcceptCommit, Accepting
  <2>3. PeopleTyped'
    BY <1>6 DEF MembershipInv, PeopleTyped, InvitesHeld, RequestsTyped, Accepting,
       InviteRow, AcceptCommit, Join, UseInvite, Finish, Idle, RowFree, MayUpsert, RowsOf,
       HasRow, LinkRow, Linked, Verified, CodeFree, Challenge
  <2>4. NumbersHeld'
    <3> DEFINE u == invite[req[r].invite].user
    <3>1. /\ u \in User /\ u \in known
          /\ req[r].phone \in Phone \cup {NoPhone}
          /\ req' = [req EXCEPT ![r] = Idle]
          /\ \A q \in Req : q # r => req'[q] = req[q]
          /\ req'[r].op = "idle"
          /\ UNCHANGED known
      BY <1>6 DEF MembershipInv, RequestsTyped, InvitesHeld, InviteRow, Accepting, AcceptCommit, Finish, Idle
    <3>2. NumbersHeld /\ RequestsTyped
      BY DEF MembershipInv
    <3>3. CASE req[r].phone = NoPhone
      <4>1. UNCHANGED <<phone, code, starts, tries>>
        BY <1>6, <3>3 DEF AcceptCommit
      <4> HIDE DEF u
      <4> QED BY <3>1, <3>2, <4>1 DEF NumbersHeld, RequestsTyped, HasRow, Verified
    <3>4. CASE req[r].phone # NoPhone
      <4> DEFINE l == <<u, req[r].phone>>
      <4>1. l \in Line /\ l[1] = u
        BY <3>1, <3>4, LineParts
      <4>2. /\ RowFree(l) /\ (HasRow(l) \/ phone[l].id < MaxRows) /\ LinkRow(l)
            /\ \/ ~Verified(l) /\ starts[u] < StartCap /\ Challenge(l)
               \/ UNCHANGED <<code, starts>>
        BY <1>6, <3>4 DEF AcceptCommit, MayUpsert
      <4> HIDE DEF l, u
      <4>3. /\ phone' = [phone EXCEPT ![l] = Linked(l)]
            /\ Linked(l) \in [state : {"pending", "verified"}, id : 0 .. MaxRows]
            /\ HasRow(l) => Linked(l) = phone[l]
            /\ ~Verified(l) => Linked(l).state = "pending"
            /\ ~HasRow(l) => Linked(l).state = "pending"
        BY <3>2, <4>1, <4>2 DEF LinkRow, Linked, HasRow, Verified, NumbersHeld
      <4>4. \A k \in Line : /\ k # l => phone'[k] = phone[k] /\ tries'[k] = tries[k]
                            /\ HasRow(k) => HasRow(k)' /\ phone'[k] = phone[k] /\ tries'[k] = tries[k]
                            /\ Verified(k)' => Verified(k)
        BY <3>2, <4>1, <4>2, <4>3 DEF NumbersHeld, HasRow, Verified, LinkRow
      <4>5. /\ phone' \in [Line -> [state : {"none", "pending", "verified"}, id : 0 .. MaxRows]]
            /\ tries' \in [Line -> 0 .. VerifyCap]
        BY <3>2, <4>1, <4>2, <4>3 DEF NumbersHeld, LinkRow
      <4>6. code' \in [Line -> Nat] /\ starts' \in [User -> 0 .. StartCap]
        BY <3>1, <3>2, <4>1, <4>2 DEF NumbersHeld, Challenge
      <4>7. \A k \in Line : /\ code'[k] # NoCode => code'[k] \in 0 .. MaxAttempts /\ phone'[k].state = "pending"
                            /\ k[1] \notin known' => phone'[k] = NoRow
        <5>1. ASSUME NEW k \in Line, k # l
              PROVE  code'[k] = code[k] /\ phone'[k] = phone[k]
          BY <3>2, <4>2, <4>4, <5>1 DEF NumbersHeld, Challenge
        <5>2. code'[l] # NoCode => code'[l] \in 0 .. MaxAttempts /\ phone'[l].state = "pending"
          BY <3>2, <4>1, <4>2, <4>3 DEF NumbersHeld, Challenge, HasRow
        <5> QED BY <3>1, <3>2, <4>1, <5>1, <5>2 DEF NumbersHeld
      <4>8. \A m, k \in Line : Verified(m)' /\ Verified(k)' /\ m[2] = k[2] => m = k
        BY <3>2, <4>4 DEF NumbersHeld
      <4>9. \A q \in Req :
              (/\ req[q].op = "add" => /\ req[q].line[1] \in known
                                       /\ HasRow(req[q].line) \/ phone[req[q].line].id < MaxRows
               /\ req[q].op = "matched" => HasRow(req[q].line) /\ tries[req[q].line] >= 1)'
        BY <3>1, <3>2, <4>2, <4>4 DEF NumbersHeld, RequestsTyped, RowFree
      <4> QED BY <3>1, <3>2, <4>5, <4>6, <4>7, <4>8, <4>9 DEF NumbersHeld, RequestsTyped
    <3> QED BY <3>3, <3>4
  <2> QED BY <2>1, <2>2, <2>3, <2>4 DEF MembershipInv
<1>7. ASSUME NEW r \in Req, RegisterCommit(r)
     PROVE  MembershipInv'
  <2>1. RequestsTyped'
    BY <1>7 DEF MembershipInv, RequestsTyped, RegisterCommit, Join, UseInvite, Finish, Idle,
       Taken, Verified, VerifiedNow, Linked, HasRow, InvitesHeld, InviteRow, Accepting
  <2>2. InvitesHeld'
    BY <1>7, UsingKeepsInvites DEF MembershipInv, RegisterCommit, Accepting
  <2>3. PeopleTyped'
    BY <1>7 DEF MembershipInv, PeopleTyped, InvitesHeld, RequestsTyped, Accepting,
       InviteRow, RegisterCommit, Join, UseInvite, Finish, Idle, Taken, Verified,
       VerifiedNow, Linked, HasRow
  <2>4. NumbersHeld'
    <3> DEFINE u == invite[req[r].invite].user
    <3>1. /\ u \in User /\ u \notin known /\ known' = known \cup {u}
          /\ req[r].phone \in Phone \cup {NoPhone}
          /\ req' = [req EXCEPT ![r] = Idle]
          /\ UNCHANGED <<code, starts, tries>>
      BY <1>7 DEF MembershipInv, RequestsTyped, InvitesHeld, InviteRow, Accepting, RegisterCommit, Finish
    <3>2. CASE req[r].phone = NoPhone
      <4>1. UNCHANGED phone
        BY <1>7, <3>2 DEF RegisterCommit
      <4> QED BY <3>1, <4>1 DEF MembershipInv, NumbersHeld, RequestsTyped, Idle, HasRow, Verified
    <3>3. CASE req[r].phone # NoPhone
      <4> DEFINE l == <<u, req[r].phone>>
      <4>1. l \in Line /\ l[1] = u
        BY <3>1, <3>3, LineParts
      <4>2. ~Taken(l) /\ phone' = VerifiedNow(l)
        BY <1>7, <3>3 DEF RegisterCommit
      <4> HIDE DEF l, u
      <4>3. NumbersHeld /\ RequestsTyped /\ phone[l] = NoRow
        BY <3>1, <4>1 DEF MembershipInv, NumbersHeld
      <4>4. /\ phone' \in [Line -> [state : {"none", "pending", "verified"}, id : 0 .. MaxRows]]
            /\ phone' = [phone EXCEPT ![l] = phone'[l]]
            /\ phone'[l].state = "verified"
            /\ \A m, k \in Line : Verified(m)' /\ Verified(k)' /\ m[2] = k[2] => m = k
        BY <4>1, <4>2, <4>3, VerifyingKeepsOne DEF NoRow
      <4>5. \A k \in Line : HasRow(k) => HasRow(k)'
        BY <4>4 DEF HasRow, NumbersHeld
      <4>6. \A k \in Line : k # l => phone'[k] = phone[k]
        BY <4>4 DEF NumbersHeld
      <4>7. \A q \in Req : q # r => req'[q] = req[q]
        BY <3>1, <4>3 DEF RequestsTyped
      <4>8. req'[r].op = "idle"
        BY <3>1, <4>3 DEF RequestsTyped, Idle
      <4>9. \A k \in Line : /\ code[k] # NoCode => code[k] \in 0 .. MaxAttempts /\ phone'[k].state = "pending"
                            /\ k[1] \notin known' => phone'[k] = NoRow
        BY <3>1, <4>1, <4>3, <4>6 DEF NumbersHeld, NoRow
      <4>10. \A q \in Req :
              (/\ req[q].op = "add" => /\ req[q].line[1] \in known
                                       /\ HasRow(req[q].line) \/ phone[req[q].line].id < MaxRows
               /\ req[q].op = "matched" => HasRow(req[q].line) /\ tries[req[q].line] >= 1)'
        BY <3>1, <4>1, <4>3, <4>5, <4>6, <4>7, <4>8 DEF NumbersHeld, RequestsTyped
      <4> QED BY <3>1, <4>3, <4>4, <4>7, <4>8, <4>9, <4>10 DEF NumbersHeld
    <3> QED BY <3>2, <3>3
  <2> QED BY <2>1, <2>2, <2>3, <2>4 DEF MembershipInv
<1>8. ASSUME NEW r \in Req, NEW l \in Line, AddBegin(r, l)
     PROVE  MembershipInv'
  <2>1. RequestsTyped'
    BY <1>8 DEF MembershipInv, RequestsTyped, AddBegin, Free, MayUpsert, RowsOf, HasRow,
       RowFree, Begin, people, numbers, InvitesHeld, InviteRow, Accepting
  <2>2. InvitesHeld'
    BY <1>8 DEF MembershipInv, RequestsTyped, InvitesHeld, PeopleTyped, Accepting,
       InviteRow, AddBegin, Free, MayUpsert, RowsOf, HasRow, RowFree, Begin, people, numbers
  <2>3. PeopleTyped'
    BY <1>8 DEF MembershipInv, PeopleTyped, InvitesHeld, RequestsTyped, Accepting,
       InviteRow, AddBegin, Free, MayUpsert, RowsOf, HasRow, RowFree, Begin, people, numbers
  <2>4. NumbersHeld'
    BY <1>8 DEF MembershipInv, RequestsTyped, PeopleTyped, NumbersHeld, AddBegin, Free,
       MayUpsert, RowsOf, HasRow, RowFree, Begin, people, numbers, NoCode, Verified, NoRow,
       Idle
  <2> QED BY <2>1, <2>2, <2>3, <2>4 DEF MembershipInv
<1>9. ASSUME NEW r \in Req, NEW l \in Line, VerifyRead(r, l)
     PROVE  MembershipInv'
  <2>1. RequestsTyped'
    BY <1>9 DEF MembershipInv, RequestsTyped, VerifyRead, Free, Begin, people, numbers,
       InvitesHeld, InviteRow, Accepting
  <2>2. InvitesHeld'
    BY <1>9 DEF MembershipInv, RequestsTyped, InvitesHeld, PeopleTyped, Accepting,
       InviteRow, VerifyRead, Free, Begin, people, numbers
  <2>3. PeopleTyped'
    BY <1>9 DEF MembershipInv, PeopleTyped, InvitesHeld, RequestsTyped, Accepting,
       InviteRow, VerifyRead, Free, Begin, people, numbers
  <2>4. NumbersHeld'
    BY <1>9 DEF MembershipInv, RequestsTyped, PeopleTyped, NumbersHeld, VerifyRead, Free,
       Begin, people, numbers, NoCode, HasRow, Verified, NoRow, Idle
  <2> QED BY <2>1, <2>2, <2>3, <2>4 DEF MembershipInv
<1>10. ASSUME NEW r \in Req, NEW l \in Line, DeleteBegin(r, l)
     PROVE  MembershipInv'
  <2>1. RequestsTyped'
    BY <1>10 DEF MembershipInv, RequestsTyped, DeleteBegin, Free, HasRow, RowFree, Begin,
       people, numbers, InvitesHeld, InviteRow, Accepting
  <2>2. InvitesHeld'
    BY <1>10 DEF MembershipInv, RequestsTyped, InvitesHeld, PeopleTyped, Accepting,
       InviteRow, DeleteBegin, Free, HasRow, RowFree, Begin, people, numbers
  <2>3. PeopleTyped'
    BY <1>10 DEF MembershipInv, PeopleTyped, InvitesHeld, RequestsTyped, Accepting,
       InviteRow, DeleteBegin, Free, HasRow, RowFree, Begin, people, numbers
  <2>4. NumbersHeld'
    BY <1>10 DEF MembershipInv, RequestsTyped, PeopleTyped, NumbersHeld, DeleteBegin, Free,
       HasRow, RowFree, Begin, people, numbers, NoCode, Verified, NoRow, Idle
  <2> QED BY <2>1, <2>2, <2>3, <2>4 DEF MembershipInv
<1>11. ASSUME NEW r \in Req, AddCommit(r)
     PROVE  MembershipInv'
  <2>1. RequestsTyped'
    BY <1>11 DEF MembershipInv, RequestsTyped, AddCommit, Verified, CodeFree, LinkRow,
       Linked, HasRow, Challenge, Finish, Idle, people, InvitesHeld, InviteRow, Accepting
  <2>2. InvitesHeld'
    BY <1>11 DEF MembershipInv, RequestsTyped, InvitesHeld, PeopleTyped, Accepting,
       InviteRow, AddCommit, Verified, CodeFree, LinkRow, Linked, HasRow, Challenge, Finish,
       Idle, people
  <2>3. PeopleTyped'
    BY <1>11 DEF MembershipInv, PeopleTyped, InvitesHeld, RequestsTyped, Accepting,
       InviteRow, AddCommit, Verified, CodeFree, LinkRow, Linked, HasRow, Challenge, Finish,
       Idle, people
  <2>4. NumbersHeld'
    BY <1>11 DEF MembershipInv, RequestsTyped, PeopleTyped, NumbersHeld, AddCommit,
       Verified, CodeFree, LinkRow, Linked, HasRow, Challenge, Finish, Idle, people, NoCode,
       NoRow
  <2> QED BY <2>1, <2>2, <2>3, <2>4 DEF MembershipInv
<1>12. ASSUME NEW r \in Req, VerifyBlocked(r)
     PROVE  MembershipInv'
  <2>1. RequestsTyped'
    BY <1>12 DEF MembershipInv, RequestsTyped, VerifyBlocked, CodeFree, SameRow, HasRow,
       Finish, Idle, people, InvitesHeld, InviteRow, Accepting
  <2>2. InvitesHeld'
    BY <1>12 DEF MembershipInv, RequestsTyped, InvitesHeld, PeopleTyped, Accepting,
       InviteRow, VerifyBlocked, CodeFree, SameRow, HasRow, Finish, Idle, people
  <2>3. PeopleTyped'
    BY <1>12 DEF MembershipInv, PeopleTyped, InvitesHeld, RequestsTyped, Accepting,
       InviteRow, VerifyBlocked, CodeFree, SameRow, HasRow, Finish, Idle, people
  <2>4. NumbersHeld'
    BY <1>12 DEF MembershipInv, RequestsTyped, PeopleTyped, NumbersHeld, VerifyBlocked,
       CodeFree, SameRow, HasRow, Finish, Idle, people, NoCode, Verified, NoRow
  <2> QED BY <2>1, <2>2, <2>3, <2>4 DEF MembershipInv
<1>13. ASSUME NEW r \in Req, VerifyWrong(r)
     PROVE  MembershipInv'
  <2>1. RequestsTyped'
    BY <1>13 DEF MembershipInv, RequestsTyped, VerifyWrong, MayCompare, CodeFree, SameRow,
       HasRow, Missed, Finish, Idle, people, InvitesHeld, InviteRow, Accepting
  <2>2. InvitesHeld'
    BY <1>13 DEF MembershipInv, RequestsTyped, InvitesHeld, PeopleTyped, Accepting,
       InviteRow, VerifyWrong, MayCompare, CodeFree, SameRow, HasRow, Missed, Finish, Idle,
       people
  <2>3. PeopleTyped'
    BY <1>13 DEF MembershipInv, PeopleTyped, InvitesHeld, RequestsTyped, Accepting,
       InviteRow, VerifyWrong, MayCompare, CodeFree, SameRow, HasRow, Missed, Finish, Idle,
       people
  <2>4. NumbersHeld'
    BY <1>13 DEF MembershipInv, RequestsTyped, PeopleTyped, NumbersHeld, VerifyWrong,
       MayCompare, CodeFree, SameRow, HasRow, Missed, Finish, Idle, people, NoCode,
       Verified, NoRow
  <2> QED BY <2>1, <2>2, <2>3, <2>4 DEF MembershipInv
<1>14. ASSUME NEW r \in Req, VerifyRight(r)
     PROVE  MembershipInv'
  <2>1. RequestsTyped'
    BY <1>14 DEF MembershipInv, RequestsTyped, VerifyRight, MayCompare, CodeFree, SameRow,
       HasRow, Begin, people, InvitesHeld, InviteRow, Accepting
  <2>2. InvitesHeld'
    BY <1>14 DEF MembershipInv, RequestsTyped, InvitesHeld, PeopleTyped, Accepting,
       InviteRow, VerifyRight, MayCompare, CodeFree, SameRow, HasRow, Begin, people
  <2>3. PeopleTyped'
    BY <1>14 DEF MembershipInv, PeopleTyped, InvitesHeld, RequestsTyped, Accepting,
       InviteRow, VerifyRight, MayCompare, CodeFree, SameRow, HasRow, Begin, people
  <2>4. NumbersHeld'
    BY <1>14 DEF MembershipInv, RequestsTyped, PeopleTyped, NumbersHeld, VerifyRight,
       MayCompare, CodeFree, SameRow, HasRow, Begin, people, NoCode, Verified, NoRow, Idle
  <2> QED BY <2>1, <2>2, <2>3, <2>4 DEF MembershipInv
<1>15. ASSUME NEW r \in Req, VerifyCommit(r)
     PROVE  MembershipInv'
  <2>1. RequestsTyped'
    BY <1>15 DEF MembershipInv, RequestsTyped, VerifyCommit, RowFree, Taken, Verified,
       VerifiedNow, Linked, HasRow, Finish, Idle, people, InvitesHeld, InviteRow, Accepting
  <2>2. InvitesHeld'
    BY <1>15 DEF MembershipInv, RequestsTyped, InvitesHeld, PeopleTyped, Accepting,
       InviteRow, VerifyCommit, RowFree, Taken, Verified, VerifiedNow, Linked, HasRow,
       Finish, Idle, people
  <2>3. PeopleTyped'
    BY <1>15 DEF MembershipInv, PeopleTyped, InvitesHeld, RequestsTyped, Accepting,
       InviteRow, VerifyCommit, RowFree, Taken, Verified, VerifiedNow, Linked, HasRow,
       Finish, Idle, people
  <2>4. NumbersHeld'
    <3> DEFINE l == req[r].line
    <3>1. /\ l \in Line /\ HasRow(l)
          /\ req' = [req EXCEPT ![r] = Idle]
          /\ \A q \in Req : q # r => req'[q] = req[q]
          /\ req'[r].op = "idle"
          /\ UNCHANGED <<known, starts, tries>>
      BY <1>15 DEF MembershipInv, RequestsTyped, NumbersHeld, VerifyCommit, Finish, Idle, people
    <3>2. NumbersHeld /\ RequestsTyped
      BY DEF MembershipInv
    <3>3. CASE Taken(l)
      <4>1. UNCHANGED <<phone, code>>
        BY <1>15, <3>3 DEF VerifyCommit
      <4> HIDE DEF l
      <4> QED BY <3>1, <3>2, <4>1 DEF NumbersHeld, RequestsTyped, HasRow, Verified
    <3>4. CASE ~Taken(l)
      <4>1. phone' = VerifiedNow(l) /\ code' = [code EXCEPT ![l] = NoCode]
        BY <1>15, <3>4 DEF VerifyCommit
      <4> HIDE DEF l
      <4>2. /\ phone' \in [Line -> [state : {"none", "pending", "verified"}, id : 0 .. MaxRows]]
            /\ phone' = [phone EXCEPT ![l] = phone'[l]]
            /\ phone'[l].state = "verified"
            /\ \A m, k \in Line : Verified(m)' /\ Verified(k)' /\ m[2] = k[2] => m = k
        BY <3>1, <3>2, <3>4, <4>1, VerifyingKeepsOne
      <4>3. \A k \in Line : (k # l => phone'[k] = phone[k] /\ code'[k] = code[k]) /\ (HasRow(k) => HasRow(k)')
        BY <3>2, <4>1, <4>2 DEF NumbersHeld, HasRow
      <4>4. code' \in [Line -> Nat] /\ code'[l] = NoCode
        BY <3>1, <3>2, <4>1 DEF NumbersHeld, NoCode
      <4>5. \A k \in Line : /\ code'[k] # NoCode => code'[k] \in 0 .. MaxAttempts /\ phone'[k].state = "pending"
                            /\ k[1] \notin known' => phone'[k] = NoRow
        BY <3>1, <3>2, <4>3, <4>4 DEF NumbersHeld, NoRow, HasRow
      <4>6. \A q \in Req :
              (/\ req[q].op = "add" => /\ req[q].line[1] \in known
                                       /\ HasRow(req[q].line) \/ phone[req[q].line].id < MaxRows
               /\ req[q].op = "matched" => HasRow(req[q].line) /\ tries[req[q].line] >= 1)'
        BY <3>1, <3>2, <4>3 DEF NumbersHeld, RequestsTyped, HasRow
      <4> QED BY <3>1, <3>2, <4>2, <4>4, <4>5, <4>6 DEF NumbersHeld, RequestsTyped
    <3> QED BY <3>3, <3>4
  <2> QED BY <2>1, <2>2, <2>3, <2>4 DEF MembershipInv
<1>16. ASSUME NEW r \in Req, DeleteCommit(r)
     PROVE  MembershipInv'
  <2>1. RequestsTyped'
    BY <1>16 DEF MembershipInv, RequestsTyped, DeleteCommit, CodeFree, Finish, Idle, people,
       InvitesHeld, InviteRow, Accepting
  <2>2. InvitesHeld'
    BY <1>16 DEF MembershipInv, RequestsTyped, InvitesHeld, PeopleTyped, Accepting,
       InviteRow, DeleteCommit, CodeFree, Finish, Idle, people
  <2>3. PeopleTyped'
    BY <1>16 DEF MembershipInv, PeopleTyped, InvitesHeld, RequestsTyped, Accepting,
       InviteRow, DeleteCommit, CodeFree, Finish, Idle, people
  <2>4. NumbersHeld'
    BY <1>16 DEF MembershipInv, RequestsTyped, PeopleTyped, NumbersHeld, DeleteCommit,
       CodeFree, Finish, Idle, people, NoCode, HasRow, Verified, NoRow
  <2> QED BY <2>1, <2>2, <2>3, <2>4 DEF MembershipInv
<1>17. ASSUME NEW r \in Req, Abort(r)
     PROVE  MembershipInv'
  <2>1. RequestsTyped'
    BY <1>17 DEF MembershipInv, RequestsTyped, Abort, Free, Finish, Idle, people,
       InvitesHeld, InviteRow, Accepting
  <2>2. InvitesHeld'
    BY <1>17 DEF MembershipInv, RequestsTyped, InvitesHeld, PeopleTyped, Accepting,
       InviteRow, Abort, Free, Finish, Idle, people
  <2>3. PeopleTyped'
    BY <1>17 DEF MembershipInv, PeopleTyped, InvitesHeld, RequestsTyped, Accepting,
       InviteRow, Abort, Free, Finish, Idle, people
  <2>4. NumbersHeld'
    BY <1>17 DEF MembershipInv, RequestsTyped, PeopleTyped, NumbersHeld, Abort, Free,
       Finish, Idle, people, NoCode, HasRow, Verified, NoRow
  <2> QED BY <2>1, <2>2, <2>3, <2>4 DEF MembershipInv
<1>18. CASE UNCHANGED vars
  BY <1>18 DEF vars, MembershipInv, RequestsTyped, InvitesHeld, PeopleTyped, NumbersHeld, HasRow, Verified
<1> QED BY <1>1, <1>2, <1>3, <1>4, <1>5, <1>6, <1>7, <1>8, <1>9, <1>10, <1>11, <1>12, <1>13, <1>14,
   <1>15, <1>16, <1>17, <1>18 DEF Next

THEOREM MembershipInvariance == Spec => []MembershipInv
  BY MembershipInitially, MembershipStep, PTL DEF Spec

-----------------------------------------------------------------------------
(* Rows and locks keep their shape, for any number of people, numbers and   *)
(* requests in flight: a challenge belongs to a number that is not verified *)
(* and a number is verified for one person only.                            *)
THEOREM MembershipTypeCorrect == Spec => []MembershipTypeOK
<1>1. MembershipInv => MembershipTypeOK
  BY DEF MembershipInv, PeopleTyped, NumbersHeld, MembershipTypeOK
<1> QED BY <1>1, MembershipInvariance, PTL

(* However many redemptions of one invite are in flight, it makes somebody  *)
(* a member at most once (accounts.ts: SELECT ... FOR UPDATE).              *)
THEOREM InvitesGrantOnce == Spec => []GrantedOnce
<1>1. MembershipInv => GrantedOnce
  BY DEF MembershipInv, InvitesHeld, GrantedOnce
<1> QED BY <1>1, MembershipInvariance, PTL

-----------------------------------------------------------------------------
(* The guesses that are left: the wrong codes that the pending challenges   *)
(* of a person still take.                                                  *)
GuessesLeft(u) == {a \in Phone \X (0 .. MaxAttempts - 1) : code[<<u, a[1]>>] <= a[2]}

(* What was guessed and what may yet be guessed was charged: a challenge    *)
(* brings MaxAttempts guesses, and one that goes takes along what is left.  *)
GuessesCharged ==
    /\ guesses \in [User -> Nat]
    /\ \A u \in User : /\ IsFiniteSet(GuessesLeft(u))
                       /\ guesses[u] + Cardinality(GuessesLeft(u)) <= starts[u] * MaxAttempts

LEMMA GuessesInitially == Init => GuessesCharged
<1> SUFFICES ASSUME Init PROVE GuessesCharged
  OBVIOUS
<1>1. \A u \in User : GuessesLeft(u) = {}
  BY CapsAssumption DEF Init, GuessesLeft, NoCode, Line
<1>2. \A u \in User : guesses[u] = 0 /\ starts[u] = 0
  BY DEF Init
<1>3. guesses \in [User -> Nat]
  BY DEF Init
<1>4. 0 * MaxAttempts = 0
  BY CapsAssumption
<1>5. \A u \in User : IsFiniteSet(GuessesLeft(u)) /\ Cardinality(GuessesLeft(u)) = 0
  BY <1>1, FS_EmptySet
<1>6. \A u \in User : guesses[u] + Cardinality(GuessesLeft(u)) <= starts[u] * MaxAttempts
  BY <1>2, <1>4, <1>5
<1> QED BY <1>3, <1>5, <1>6 DEF GuessesCharged

(* A step that starts no challenge and takes no wrong code leaves no more   *)
(* guesses than there were.                                                 *)
LEMMA FewerGuesses ==
    ASSUME GuessesCharged, code \in [Line -> Nat], code' \in [Line -> Nat], starts \in [User -> Nat],
           \A l \in Line : code'[l] >= code[l], UNCHANGED <<guesses, starts>>
    PROVE  GuessesCharged'
<1> SUFFICES ASSUME NEW u \in User
             PROVE  /\ IsFiniteSet(GuessesLeft(u))'
                    /\ guesses[u] + Cardinality(GuessesLeft(u)') <= starts[u] * MaxAttempts
  BY DEF GuessesCharged
<1> DEFINE L == GuessesLeft(u)
           K == GuessesLeft(u)'
<1>1. K \subseteq L
  <2> SUFFICES ASSUME NEW a \in Phone \X (0 .. MaxAttempts - 1), code'[<<u, a[1]>>] <= a[2]
               PROVE  code[<<u, a[1]>>] <= a[2]
    BY DEF GuessesLeft
  <2>1. a[1] \in Phone /\ a[2] \in Nat
    BY CapsAssumption
  <2>2. <<u, a[1]>> \in Line
    BY <2>1 DEF Line
  <2>3. code[<<u, a[1]>>] \in Nat /\ code'[<<u, a[1]>>] \in Nat /\ code'[<<u, a[1]>>] >= code[<<u, a[1]>>]
    BY <2>2
  <2> QED BY <2>1, <2>3
<1>2. IsFiniteSet(L) /\ guesses[u] \in Nat /\ guesses[u] + Cardinality(L) <= starts[u] * MaxAttempts
  BY DEF GuessesCharged
<1> HIDE DEF L, K
<1>3. IsFiniteSet(K) /\ Cardinality(K) <= Cardinality(L) /\ Cardinality(K) \in Nat /\ Cardinality(L) \in Nat
  BY <1>1, <1>2, FS_Subset, FS_CardinalityType
<1>4. starts[u] * MaxAttempts \in Nat
  BY CapsAssumption
<1> QED BY <1>2, <1>3, <1>4 DEF K

(* A wrong code uses one of the guesses that were left. *)
LEMMA OneGuessTaken ==
    ASSUME GuessesCharged, code \in [Line -> Nat], starts \in [User -> Nat],
           NEW l \in Line, code[l] < MaxAttempts, code' = [code EXCEPT ![l] = Missed(l)],
           guesses' = [guesses EXCEPT ![l[1]] = @ + 1], UNCHANGED starts
    PROVE  GuessesCharged'
<1> DEFINE v == l[1]
           a == <<l[2], code[l]>>
<1> USE CapsAssumption
<1>1. v \in User /\ l[2] \in Phone /\ l = <<v, l[2]>> /\ code[l] \in 0 .. MaxAttempts - 1
  BY LineParts
<1>2. guesses' \in [User -> Nat]
  BY <1>1 DEF GuessesCharged
<1>3. ASSUME NEW u \in User, u # v
      PROVE  GuessesLeft(u)' = GuessesLeft(u) /\ guesses'[u] = guesses[u]
  <2>1. \A p \in Phone : <<u, p>> \in Line /\ <<u, p>> # l
    BY <1>3, LineParts
  <2>2. \A p \in Phone : code'[<<u, p>>] = code[<<u, p>>]
    BY <2>1
  <2> QED BY <1>1, <1>3, <2>2 DEF GuessesLeft, GuessesCharged
<1>4. GuessesLeft(v)' = GuessesLeft(v) \ {a} /\ a \in GuessesLeft(v)
  <2>1. a \in GuessesLeft(v)
    BY <1>1 DEF GuessesLeft
  <2>2. \A b \in Phone \X (0 .. MaxAttempts - 1) :
          code'[<<v, b[1]>>] <= b[2] <=> code[<<v, b[1]>>] <= b[2] /\ b # a
    <3> TAKE b \in Phone \X (0 .. MaxAttempts - 1)
    <3>1. b[1] \in Phone /\ b[2] \in Nat /\ b = <<b[1], b[2]>>
      OBVIOUS
    <3>2. CASE b[1] = l[2]
      <4>1. <<v, b[1]>> = l
        BY <1>1, <3>2
      <4>2. code'[l] = code[l] + 1 /\ code[l] \in Nat
        BY DEF Missed
      <4> QED BY <3>1, <3>2, <4>1, <4>2
    <3>3. CASE b[1] # l[2]
      <4>1. <<v, b[1]>> \in Line /\ <<v, b[1]>> # l
        BY <1>1, <3>1, <3>3, LineParts
      <4>2. code'[<<v, b[1]>>] = code[<<v, b[1]>>]
        BY <4>1
      <4> QED BY <3>1, <3>3, <4>2
    <3> QED BY <3>2, <3>3
  <2> QED BY <2>1, <2>2 DEF GuessesLeft
<1>5. guesses'[v] = guesses[v] + 1 /\ guesses[v] \in Nat
  BY <1>1 DEF GuessesCharged
<1> HIDE DEF a, v
<1>6. /\ IsFiniteSet(GuessesLeft(v)')
      /\ guesses'[v] + Cardinality(GuessesLeft(v)') <= starts[v] * MaxAttempts
  <2>1. IsFiniteSet(GuessesLeft(v)) /\ guesses[v] + Cardinality(GuessesLeft(v)) <= starts[v] * MaxAttempts
    BY <1>1 DEF GuessesCharged
  <2>2. Cardinality(GuessesLeft(v)) \in Nat
    BY <2>1, FS_CardinalityType
  <2>3. IsFiniteSet(GuessesLeft(v)') /\ Cardinality(GuessesLeft(v)') = Cardinality(GuessesLeft(v)) - 1
    BY <1>4, <2>1, FS_RemoveElement
  <2>4. starts[v] * MaxAttempts \in Nat
    BY <1>1
  <2> QED BY <1>5, <2>1, <2>2, <2>3, <2>4
<1>7. \A u \in User : /\ IsFiniteSet(GuessesLeft(u)')
                      /\ guesses'[u] + Cardinality(GuessesLeft(u)') <= starts[u] * MaxAttempts
  BY <1>3, <1>6 DEF GuessesCharged
<1> QED BY <1>2, <1>7 DEF GuessesCharged

(* A challenge is charged, and brings MaxAttempts guesses at most. *)
LEMMA ChallengeCharged ==
    ASSUME GuessesCharged, code \in [Line -> Nat], starts \in [User -> Nat],
           NEW l \in Line, Challenge(l), UNCHANGED guesses
    PROVE  GuessesCharged'
<1> DEFINE v == l[1]
           New == {l[2]} \X (0 .. MaxAttempts - 1)
<1> USE CapsAssumption
<1>1. v \in User /\ l[2] \in Phone /\ l = <<v, l[2]>>
  BY LineParts
<1>2. starts' = [starts EXCEPT ![v] = starts[v] + 1] /\ code' = [code EXCEPT ![l] = 0]
  BY DEF Challenge
<1>3. ASSUME NEW u \in User, u # v
      PROVE  GuessesLeft(u)' = GuessesLeft(u) /\ starts'[u] = starts[u]
  <2>1. \A p \in Phone : <<u, p>> \in Line /\ <<u, p>> # l
    BY <1>3, LineParts
  <2>2. \A p \in Phone : code'[<<u, p>>] = code[<<u, p>>]
    BY <1>2, <2>1
  <2> QED BY <1>2, <1>3, <2>2 DEF GuessesLeft
<1>4. GuessesLeft(v)' \subseteq GuessesLeft(v) \cup New
  <2> SUFFICES ASSUME NEW b \in Phone \X (0 .. MaxAttempts - 1), code'[<<v, b[1]>>] <= b[2], b[1] # l[2]
               PROVE  code[<<v, b[1]>>] <= b[2]
    BY DEF GuessesLeft
  <2>1. <<v, b[1]>> \in Line /\ <<v, b[1]>> # l
    BY <1>1, LineParts
  <2> QED BY <1>2, <2>1
<1>5. IsFiniteSet(New) /\ Cardinality(New) = MaxAttempts
  <2>1. IsFiniteSet({l[2]}) /\ Cardinality({l[2]}) = 1
    BY FS_Singleton
  <2>2. IsFiniteSet(0 .. MaxAttempts - 1) /\ Cardinality(0 .. MaxAttempts - 1) = MaxAttempts
    <3>1. 0 \in Int /\ MaxAttempts - 1 \in Int
      OBVIOUS
    <3>2. /\ IsFiniteSet(0 .. MaxAttempts - 1)
          /\ Cardinality(0 .. MaxAttempts - 1) = IF 0 > MaxAttempts - 1 THEN 0 ELSE MaxAttempts - 1 - 0 + 1
      BY <3>1, FS_Interval
    <3> QED BY <3>2
  <2>3. IsFiniteSet(New) /\ Cardinality(New) = 1 * Cardinality(0 .. MaxAttempts - 1)
    BY <2>1, <2>2, FS_Product
  <2> QED BY <2>2, <2>3
<1> HIDE DEF New, v
<1>6. /\ IsFiniteSet(GuessesLeft(v)')
      /\ guesses[v] + Cardinality(GuessesLeft(v)') <= starts'[v] * MaxAttempts
  <2> DEFINE L == GuessesLeft(v)
             K == GuessesLeft(v)'
             U == L \cup New
  <2>1. /\ IsFiniteSet(L) /\ guesses[v] \in Nat
        /\ guesses[v] + Cardinality(L) <= starts[v] * MaxAttempts
    BY <1>1 DEF GuessesCharged
  <2> HIDE DEF L, K
  <2>2. Cardinality(L) \in Nat
    BY <2>1, FS_CardinalityType
  <2>3. IsFiniteSet(U) /\ Cardinality(U) = Cardinality(L) + Cardinality(New) - Cardinality(L \cap New)
    BY <1>5, <2>1, FS_Union
  <2>4. IsFiniteSet(L \cap New) /\ Cardinality(L \cap New) \in Nat
    BY <2>1, FS_Intersection, FS_CardinalityType
  <2>5. Cardinality(U) <= Cardinality(L) + MaxAttempts /\ Cardinality(U) \in Nat
    BY <1>5, <2>2, <2>3, <2>4, FS_CardinalityType
  <2>6. K \subseteq U
    BY <1>4 DEF K, L
  <2>7. IsFiniteSet(K) /\ Cardinality(K) <= Cardinality(U) /\ Cardinality(K) \in Nat
    BY <2>3, <2>6, FS_Subset, FS_CardinalityType
  <2>8. /\ starts[v] \in Nat
        /\ (starts[v] + 1) * MaxAttempts = starts[v] * MaxAttempts + MaxAttempts
        /\ starts[v] * MaxAttempts \in Nat
    BY <1>1
  <2>9. starts'[v] = starts[v] + 1
    BY <1>1, <1>2
  <2>10. guesses[v] + Cardinality(K) <= (starts[v] + 1) * MaxAttempts
    BY <2>1, <2>2, <2>5, <2>7, <2>8
  <2> QED BY <2>7, <2>9, <2>10 DEF K
<1>7. \A u \in User : /\ IsFiniteSet(GuessesLeft(u)')
                      /\ guesses[u] + Cardinality(GuessesLeft(u)') <= starts'[u] * MaxAttempts
  BY <1>3, <1>6 DEF GuessesCharged
<1> QED BY <1>7 DEF GuessesCharged

LEMMA GuessesStep ==
    ASSUME MembershipInv, GuessesCharged, [Next]_vars
    PROVE  GuessesCharged'
<1>1. code \in [Line -> Nat] /\ code' \in [Line -> Nat] /\ starts \in [User -> Nat]
  <2>1. MembershipInv'
    BY MembershipStep
  <2> QED BY <2>1, CapsAssumption DEF MembershipInv, NumbersHeld
<1>2. ASSUME \A l \in Line : code'[l] >= code[l], UNCHANGED <<guesses, starts>>
      PROVE  GuessesCharged'
  BY <1>1, <1>2, FewerGuesses
<1>3. ASSUME UNCHANGED <<guesses, starts, code>>
      PROVE  GuessesCharged'
  <2>1. \A l \in Line : code'[l] >= code[l]
    BY <1>1, <1>3
  <2> QED BY <1>2, <1>3, <2>1
<1>4. ASSUME NEW l \in Line, code' = [code EXCEPT ![l] = NoCode], UNCHANGED <<guesses, starts>>
      PROVE  GuessesCharged'
  <2>1. \A k \in Line : code'[k] >= code[k]
    BY <1>1, <1>4, CapsAssumption DEF MembershipInv, NumbersHeld, NoCode
  <2> QED BY <1>2, <1>4, <2>1
<1>5. CASE \/ \E i \in Invite, offer \in Offer : CreateInvite(i, offer)
           \/ \E i \in Invite : ExpireInvite(i)
           \/ \E u \in User, p \in Phone \cup {NoPhone} : Register(u, p)
  <2>1. UNCHANGED <<guesses, starts, code>>
    BY <1>5 DEF CreateInvite, ExpireInvite, Register, numbers
  <2> QED BY <1>3, <2>1
<1>6. ASSUME NEW l \in Line, ExpireCode(l) PROVE GuessesCharged'
  BY <1>4, <1>6 DEF ExpireCode
<1>7. ASSUME NEW r \in Req,
             \/ \E i \in Invite, op \in {"accept", "register"}, p \in Phone \cup {NoPhone} :
                    InviteBegin(r, i, op, p)
             \/ \E l \in Line : AddBegin(r, l) \/ VerifyRead(r, l) \/ DeleteBegin(r, l)
             \/ RegisterCommit(r) \/ VerifyBlocked(r) \/ VerifyRight(r) \/ Abort(r)
      PROVE  GuessesCharged'
  <2>1. UNCHANGED <<guesses, starts, code>>
    BY <1>7 DEF InviteBegin, AddBegin, VerifyRead, DeleteBegin, RegisterCommit, VerifyBlocked,
       VerifyRight, Abort, numbers
  <2> QED BY <1>3, <2>1
<1>8. ASSUME NEW r \in Req, AcceptCommit(r) PROVE GuessesCharged'
  <2> DEFINE l == <<invite[req[r].invite].user, req[r].phone>>
  <2>1. UNCHANGED guesses
    BY <1>8 DEF AcceptCommit
  <2>2. CASE UNCHANGED <<code, starts>>
    BY <1>3, <2>1, <2>2
  <2>3. CASE ~UNCHANGED <<code, starts>>
    <3>1. req[r].phone # NoPhone /\ Challenge(l)
      BY <1>8, <2>3 DEF AcceptCommit
    <3>2. req[r].op = "accept"
      BY <1>8 DEF AcceptCommit
    <3>3. req[r].invite \in Invite /\ req[r].phone \in Phone \cup {NoPhone}
      BY <3>2 DEF MembershipInv, RequestsTyped, Accepting
    <3>4. invite[req[r].invite].state # "none"
      BY <3>2 DEF MembershipInv, InvitesHeld, Accepting
    <3>5. invite[req[r].invite].user \in User
      BY <3>3, <3>4 DEF MembershipInv, InvitesHeld
    <3>6. l \in Line
      BY <3>1, <3>3, <3>5, LineParts
    <3> QED BY <1>1, <2>1, <3>1, <3>6, ChallengeCharged
  <2> QED BY <2>2, <2>3
<1>9. ASSUME NEW r \in Req, AddCommit(r) PROVE GuessesCharged'
  <2>1. UNCHANGED guesses /\ req[r].line \in Line
    BY <1>9 DEF AddCommit, MembershipInv, RequestsTyped
  <2>2. UNCHANGED <<code, starts>> \/ Challenge(req[r].line)
    BY <1>9 DEF AddCommit
  <2> QED BY <1>1, <1>3, <2>1, <2>2, ChallengeCharged
<1>10. ASSUME NEW r \in Req, VerifyWrong(r) PROVE GuessesCharged'
  <2>1. req[r].line \in Line
    BY <1>10 DEF VerifyWrong, MayCompare, MembershipInv, RequestsTyped
  <2>2. /\ code[req[r].line] < MaxAttempts
        /\ code' = [code EXCEPT ![req[r].line] = Missed(req[r].line)]
        /\ guesses' = [guesses EXCEPT ![req[r].line[1]] = @ + 1]
        /\ UNCHANGED starts
    BY <1>10 DEF VerifyWrong, MayCompare
  <2> QED BY <1>1, <2>1, <2>2, OneGuessTaken
<1>11. ASSUME NEW r \in Req, VerifyCommit(r) \/ DeleteCommit(r) PROVE GuessesCharged'
  <2>1. req[r].line \in Line /\ UNCHANGED <<guesses, starts>>
    BY <1>11 DEF VerifyCommit, DeleteCommit, MembershipInv, RequestsTyped
  <2>2. UNCHANGED code \/ code' = [code EXCEPT ![req[r].line] = NoCode]
    BY <1>11 DEF VerifyCommit, DeleteCommit
  <2> QED BY <1>3, <1>4, <2>1, <2>2
<1>12. CASE UNCHANGED vars
  BY <1>3, <1>12 DEF vars
<1> QED BY <1>5, <1>6, <1>7, <1>8, <1>9, <1>10, <1>11, <1>12 DEF Next

LEMMA ChargedBounds == MembershipInv /\ GuessesCharged => GuessesBounded
<1> SUFFICES ASSUME MembershipInv, GuessesCharged, NEW u \in User
             PROVE  guesses[u] <= starts[u] * MaxAttempts
  BY DEF GuessesBounded
<1>1. /\ guesses[u] \in Nat /\ starts[u] * MaxAttempts \in Nat
      /\ guesses[u] + Cardinality(GuessesLeft(u)) <= starts[u] * MaxAttempts
  BY CapsAssumption DEF GuessesCharged, MembershipInv, NumbersHeld
<1>2. Cardinality(GuessesLeft(u)) \in Nat
  BY FS_CardinalityType DEF GuessesCharged
<1> QED BY <1>1, <1>2

(* For any number of people, numbers and requests, whatever is deleted,     *)
(* added again or sent at the same time: nobody gets more wrong guesses     *)
(* than the challenges that were charged to them allow (phones.ts).         *)
THEOREM GuessesAreCharged == Spec => []GuessesBounded
  BY ChargedBounds, MembershipInitially, MembershipStep, GuessesInitially, GuessesStep, PTL DEF Spec

-----------------------------------------------------------------------------
(***************************************************************************)
(* Places.  The inductive invariant says who holds which row while a       *)
(* request is between two of its steps: a location that is being deleted   *)
(* is held by nobody else, a device that is being claimed is unpaired and  *)
(* claimed by nobody else.                                                 *)
(***************************************************************************)

Deleting == {"delete", "keep", "drop"}
Sharing == {"quota", "register"}

WorkTyped ==
    /\ work = [r \in Worker |-> work[r]]
    /\ \A r \in Worker :
        /\ work[r].op \in {"idle", "create", "claim", "override"} \cup Deleting \cup Sharing
        /\ work[r].op \in {"create"} \cup Deleting \cup Sharing => work[r].at \in Location
        /\ work[r].op = "quota" => work[r].patch \in Patch(Quota)
        /\ work[r].op \in {"register", "claim"} => work[r].device \in Device
        /\ work[r].op = "claim" => work[r].key \in Key \cup {NoKey}
        /\ work[r].op = "override" => work[r].next \in [Override -> Value]

(* The locks a request holds on the account and on locations. *)
LocationsHeld ==
    /\ location \subseteq Location
    /\ account \in BOOLEAN
    /\ location # {} => account
    /\ \A r \in Worker :
        /\ work[r].op = "create" => account
        /\ work[r].op \in Deleting \cup Sharing => work[r].at \in location
    /\ \A r, q \in Worker :
        /\ r # q /\ work[r].op \in Deleting /\ work[q].op \in Deleting \cup Sharing
              => work[q].at # work[r].at
        /\ work[r].op \in Deleting /\ work[q].op = "claim"
              => device[work[q].device].at # work[r].at

QuotasTyped ==
    /\ quota \in [Location -> [Quota -> Value]]
    /\ asked \in [Location -> [Quota -> Value]]
    /\ QuotasKept
    /\ \A l \in Location \ location : quota[l] = NoQuotas

DeviceRow == [at : Location \cup {NoLocation}, status : {"none", "unpaired", "active"},
              key : Key \cup {NoKey}]

DevicesHeld ==
    /\ device \in [Device -> DeviceRow]
    /\ pairings \in [Device -> Nat]
    /\ \A d \in Device :
        /\ \/ device[d] = NoDevice
           \/ /\ device[d].at \in location
              /\ device[d].status \in {"unpaired", "active"}
              /\ device[d].status = "unpaired" => device[d].key = NoKey
        /\ device[d].status = "unpaired" => pairings[d] = 0
        /\ pairings[d] <= 1
    /\ \A r \in Worker :
        /\ work[r].op = "claim" => device[work[r].device].status = "unpaired"
        /\ work[r].op = "register" => device[work[r].device] = NoDevice /\ pairings[work[r].device] = 0
    /\ \A r, q \in Worker : r # q =>
        /\ work[r].op = "claim" /\ work[q].op = "claim" => work[r].device # work[q].device
        /\ work[r].op = "register" /\ work[q].op = "register" => work[r].device # work[q].device

OverridesConfirmed ==
    /\ override \in [Override -> Value]
    /\ KillSwitchConfirmed
    /\ \A r \in Worker : work[r].op = "override" =>
        \A f \in Override : work[r].next[f] = 0 => f \in work[r].zeroed \cup confirmed

PlacesInv == WorkTyped /\ LocationsHeld /\ QuotasTyped /\ DevicesHeld /\ OverridesConfirmed

-----------------------------------------------------------------------------
LEMMA PatchFields ==
    ASSUME NEW F, NEW p \in Patch(F)
    PROVE  DOMAIN p \subseteq F /\ \A f \in DOMAIN p : p[f] \in Value
  BY DEF Patch

LEMMA NoQuotasTyped == NoQuotas \in [Quota -> Value]
  BY DEF NoQuotas, Value

LEMMA PlacesInitially == PlacesInit => PlacesInv
<1> SUFFICES ASSUME PlacesInit PROVE PlacesInv
  OBVIOUS
<1> USE PlacesAssumption DEF PlacesInit
<1>1. WorkTyped
  BY DEF WorkTyped, NoWork, Deleting, Sharing
<1>2. LocationsHeld
  BY DEF LocationsHeld, NoWork, Deleting, Sharing
<1>3. QuotasTyped
  BY NoQuotasTyped DEF QuotasTyped, QuotasKept
<1>4. DevicesHeld
  BY DEF DevicesHeld, NoWork, NoDevice, DeviceRow, Deleting
<1>5. OverridesConfirmed
  BY DEF OverridesConfirmed, KillSwitchConfirmed, NoWork, Value
<1> QED BY <1>1, <1>2, <1>3, <1>4, <1>5 DEF PlacesInv

(* Every step, action by action. *)
LEMMA PlacesStep ==
    ASSUME PlacesInv, [PlacesNext]_placeVars
    PROVE  PlacesInv'
<1> USE PlacesAssumption
<1>1. ASSUME NEW r \in Worker, NEW l \in Location, CreateBegin(r, l)
     PROVE  PlacesInv'
  <2>1. WorkTyped'
    BY <1>1 DEF PlacesInv, WorkTyped, Deleting, Sharing, CreateBegin, Spare, Doing, TakeUp,
       tenancy, quotas, devices, overrides
  <2>2. LocationsHeld'
    BY <1>1 DEF PlacesInv, WorkTyped, LocationsHeld, DevicesHeld, Deleting, Sharing,
       CreateBegin, Spare, Doing, TakeUp, tenancy, quotas, devices, overrides
  <2>3. QuotasTyped'
    BY <1>1, NoQuotasTyped DEF PlacesInv, WorkTyped, LocationsHeld, QuotasTyped, QuotasKept,
       CreateBegin, Spare, Doing, TakeUp, tenancy, quotas, devices, overrides
  <2>4. DevicesHeld'
    BY <1>1 DEF PlacesInv, WorkTyped, LocationsHeld, DevicesHeld, Deleting, Sharing,
       DeviceRow, NoDevice, CreateBegin, Spare, Doing, TakeUp, tenancy, quotas, devices,
       overrides
  <2>5. OverridesConfirmed'
    BY <1>1 DEF PlacesInv, WorkTyped, OverridesConfirmed, KillSwitchConfirmed, CreateBegin,
       Spare, Doing, TakeUp, tenancy, quotas, devices, overrides
  <2> QED BY <2>1, <2>2, <2>3, <2>4, <2>5 DEF PlacesInv
<1>2. ASSUME NEW r \in Worker, NEW l \in Location, DropBegin(r, l)
     PROVE  PlacesInv'
  <2>1. WorkTyped'
    BY <1>2 DEF PlacesInv, WorkTyped, Deleting, Sharing, DropBegin, Spare, Unshared, Doing,
       TakeUp, tenancy, quotas, devices, overrides
  <2>2. LocationsHeld'
    BY <1>2 DEF PlacesInv, WorkTyped, LocationsHeld, DevicesHeld, Deleting, Sharing,
       DropBegin, Spare, Unshared, Doing, TakeUp, tenancy, quotas, devices, overrides
  <2>3. QuotasTyped'
    BY <1>2, NoQuotasTyped DEF PlacesInv, WorkTyped, LocationsHeld, QuotasTyped, QuotasKept,
       DropBegin, Spare, Unshared, Doing, TakeUp, tenancy, quotas, devices, overrides
  <2>4. DevicesHeld'
    BY <1>2 DEF PlacesInv, WorkTyped, LocationsHeld, DevicesHeld, Deleting, Sharing,
       DeviceRow, NoDevice, DropBegin, Spare, Unshared, Doing, TakeUp, tenancy, quotas,
       devices, overrides
  <2>5. OverridesConfirmed'
    BY <1>2 DEF PlacesInv, WorkTyped, OverridesConfirmed, KillSwitchConfirmed, DropBegin,
       Spare, Unshared, Doing, TakeUp, tenancy, quotas, devices, overrides
  <2> QED BY <2>1, <2>2, <2>3, <2>4, <2>5 DEF PlacesInv
<1>3. ASSUME NEW r \in Worker, CreateCommit(r)
     PROVE  PlacesInv'
  <2>1. WorkTyped'
    BY <1>3 DEF PlacesInv, WorkTyped, Deleting, Sharing, CreateCommit, Leave, NoWork,
       quotas, devices, overrides
  <2>2. LocationsHeld'
    BY <1>3 DEF PlacesInv, WorkTyped, LocationsHeld, DevicesHeld, Deleting, Sharing,
       CreateCommit, Leave, NoWork, quotas, devices, overrides
  <2>3. QuotasTyped'
    BY <1>3, NoQuotasTyped DEF PlacesInv, WorkTyped, LocationsHeld, QuotasTyped, QuotasKept,
       CreateCommit, Leave, NoWork, quotas, devices, overrides
  <2>4. DevicesHeld'
    BY <1>3 DEF PlacesInv, WorkTyped, LocationsHeld, DevicesHeld, Deleting, Sharing,
       DeviceRow, NoDevice, CreateCommit, Leave, NoWork, quotas, devices, overrides
  <2>5. OverridesConfirmed'
    BY <1>3 DEF PlacesInv, WorkTyped, OverridesConfirmed, KillSwitchConfirmed, CreateCommit,
       Leave, NoWork, quotas, devices, overrides
  <2> QED BY <2>1, <2>2, <2>3, <2>4, <2>5 DEF PlacesInv
<1>4. ASSUME NEW r \in Worker, DropCount(r)
     PROVE  PlacesInv'
  <2>1. WorkTyped'
    BY <1>4 DEF PlacesInv, WorkTyped, Deleting, Sharing, DropCount, TakeUp, Remaining,
       tenancy, quotas, devices, overrides
  <2>2. LocationsHeld'
    BY <1>4 DEF PlacesInv, WorkTyped, LocationsHeld, DevicesHeld, Deleting, Sharing,
       DropCount, TakeUp, Remaining, tenancy, quotas, devices, overrides
  <2>3. QuotasTyped'
    BY <1>4, NoQuotasTyped DEF PlacesInv, WorkTyped, LocationsHeld, QuotasTyped, QuotasKept,
       DropCount, TakeUp, Remaining, tenancy, quotas, devices, overrides
  <2>4. DevicesHeld'
    BY <1>4 DEF PlacesInv, WorkTyped, LocationsHeld, DevicesHeld, Deleting, Sharing,
       DeviceRow, NoDevice, DropCount, TakeUp, Remaining, tenancy, quotas, devices,
       overrides
  <2>5. OverridesConfirmed'
    BY <1>4 DEF PlacesInv, WorkTyped, OverridesConfirmed, KillSwitchConfirmed, DropCount,
       TakeUp, Remaining, tenancy, quotas, devices, overrides
  <2> QED BY <2>1, <2>2, <2>3, <2>4, <2>5 DEF PlacesInv
<1>5. ASSUME NEW r \in Worker, KeepCommit(r)
     PROVE  PlacesInv'
  <2>1. WorkTyped'
    BY <1>5 DEF PlacesInv, WorkTyped, Deleting, Sharing, KeepCommit, Gone, NoQuotas,
       NoDevice, Leave, NoWork, overrides
  <2>2. LocationsHeld'
    BY <1>5 DEF PlacesInv, WorkTyped, LocationsHeld, DevicesHeld, Deleting, Sharing,
       KeepCommit, Gone, NoQuotas, NoDevice, Leave, NoWork, overrides
  <2>3. QuotasTyped'
    <3>1. quota' = [l \in Location |-> IF l \in {work[r].at} THEN NoQuotas ELSE quota[l]]
      BY <1>5 DEF KeepCommit, Gone
    <3>2. asked' = [l \in Location |-> IF l \in {work[r].at} THEN NoQuotas ELSE asked[l]]
      BY <1>5 DEF KeepCommit, Gone
    <3>3. location' = location \ {work[r].at}
      BY <1>5 DEF KeepCommit, Gone
    <3>4. QuotasTyped
      BY DEF PlacesInv
    <3> QED BY <3>1, <3>2, <3>3, <3>4, NoQuotasTyped DEF QuotasTyped, QuotasKept
  <2>4. DevicesHeld'
    BY <1>5 DEF PlacesInv, WorkTyped, LocationsHeld, DevicesHeld, Deleting, Sharing,
       DeviceRow, NoDevice, KeepCommit, Gone, NoQuotas, Leave, NoWork, overrides
  <2>5. OverridesConfirmed'
    BY <1>5 DEF PlacesInv, WorkTyped, OverridesConfirmed, KillSwitchConfirmed, KeepCommit,
       Gone, NoQuotas, NoDevice, Leave, NoWork, overrides
  <2> QED BY <2>1, <2>2, <2>3, <2>4, <2>5 DEF PlacesInv
<1>6. ASSUME NEW r \in Worker, DropAccount(r)
     PROVE  PlacesInv'
  <2>1. WorkTyped'
    BY <1>6 DEF PlacesInv, WorkTyped, Deleting, Sharing, DropAccount, Doing, Remaining,
       Unshared, Gone, NoQuotas, NoDevice, Leave, NoWork, overrides
  <2>2. LocationsHeld'
    <3>1. /\ location' = {} /\ account' = FALSE
          /\ work' = [work EXCEPT ![r] = NoWork]
      BY <1>6 DEF DropAccount, Gone, Leave
    <3>2. ASSUME NEW q \in Worker, q # r
          PROVE  work[q].op \notin {"create"} \cup Deleting \cup Sharing
      <4>1. work[q].op # "create"
        BY <1>6 DEF DropAccount, Doing
      <4>2. CASE work[q].op \in Deleting \cup Sharing /\ work[q].at = work[r].at
        BY <1>6, <3>2, <4>2 DEF PlacesInv, LocationsHeld, DropAccount, Deleting
      <4>3. CASE work[q].op \in Deleting \cup Sharing /\ work[q].at # work[r].at
        BY <1>6, <4>3 DEF PlacesInv, LocationsHeld, DropAccount, Remaining, Unshared, Doing,
           Deleting, Sharing
      <4> QED BY <4>1, <4>2, <4>3 DEF Deleting, Sharing
    <3>3. \A q \in Worker : work'[q].op \notin {"create"} \cup Deleting \cup Sharing
      BY <3>1, <3>2 DEF PlacesInv, WorkTyped, NoWork, Deleting, Sharing
    <3> QED BY <3>1, <3>3 DEF LocationsHeld, Deleting
  <2>3. QuotasTyped'
    <3>1. quota' = [l \in Location |-> IF l \in location THEN NoQuotas ELSE quota[l]]
      BY <1>6 DEF DropAccount, Gone
    <3>2. asked' = [l \in Location |-> IF l \in location THEN NoQuotas ELSE asked[l]]
      BY <1>6 DEF DropAccount, Gone
    <3>3. location' = location \ location
      BY <1>6 DEF DropAccount, Gone
    <3>4. QuotasTyped
      BY DEF PlacesInv
    <3> QED BY <3>1, <3>2, <3>3, <3>4, NoQuotasTyped DEF QuotasTyped, QuotasKept
  <2>4. DevicesHeld'
    BY <1>6 DEF PlacesInv, WorkTyped, LocationsHeld, DevicesHeld, Deleting, Sharing,
       DeviceRow, NoDevice, DropAccount, Doing, Remaining, Unshared, Gone, NoQuotas, Leave,
       NoWork, overrides
  <2>5. OverridesConfirmed'
    BY <1>6 DEF PlacesInv, WorkTyped, OverridesConfirmed, KillSwitchConfirmed, DropAccount,
       Doing, Remaining, Unshared, Gone, NoQuotas, NoDevice, Leave, NoWork, overrides
  <2> QED BY <2>1, <2>2, <2>3, <2>4, <2>5 DEF PlacesInv
<1>7. ASSUME NEW r \in Worker, NEW l \in Location, NEW patch \in Patch(Quota), QuotaBegin(r, l, patch)
     PROVE  PlacesInv'
  <2>1. WorkTyped'
    BY <1>7, PatchFields DEF PlacesInv, WorkTyped, Deleting, Sharing, QuotaBegin, Spare,
       Doing, TakeUp, tenancy, quotas, devices, overrides
  <2>2. LocationsHeld'
    BY <1>7, PatchFields DEF PlacesInv, WorkTyped, LocationsHeld, DevicesHeld, Deleting,
       Sharing, QuotaBegin, Spare, Doing, TakeUp, tenancy, quotas, devices, overrides
  <2>3. QuotasTyped'
    BY <1>7, PatchFields, NoQuotasTyped DEF PlacesInv, WorkTyped, LocationsHeld,
       QuotasTyped, QuotasKept, QuotaBegin, Spare, Doing, TakeUp, tenancy, quotas, devices,
       overrides
  <2>4. DevicesHeld'
    BY <1>7, PatchFields DEF PlacesInv, WorkTyped, LocationsHeld, DevicesHeld, Deleting,
       Sharing, DeviceRow, NoDevice, QuotaBegin, Spare, Doing, TakeUp, tenancy, quotas,
       devices, overrides
  <2>5. OverridesConfirmed'
    BY <1>7, PatchFields DEF PlacesInv, WorkTyped, OverridesConfirmed, KillSwitchConfirmed,
       QuotaBegin, Spare, Doing, TakeUp, tenancy, quotas, devices, overrides
  <2> QED BY <2>1, <2>2, <2>3, <2>4, <2>5 DEF PlacesInv
<1>8. ASSUME NEW r \in Worker, QuotaCommit(r)
     PROVE  PlacesInv'
  <2>1. WorkTyped'
    BY <1>8, PatchFields DEF PlacesInv, WorkTyped, Deleting, Sharing, QuotaCommit, Patched,
       Leave, NoWork, tenancy, devices, overrides
  <2>2. LocationsHeld'
    BY <1>8, PatchFields DEF PlacesInv, WorkTyped, LocationsHeld, DevicesHeld, Deleting,
       Sharing, QuotaCommit, Patched, Leave, NoWork, tenancy, devices, overrides
  <2>3. QuotasTyped'
    BY <1>8, PatchFields, NoQuotasTyped DEF PlacesInv, WorkTyped, LocationsHeld,
       QuotasTyped, QuotasKept, QuotaCommit, Patched, Leave, NoWork, tenancy, devices,
       overrides
  <2>4. DevicesHeld'
    BY <1>8, PatchFields DEF PlacesInv, WorkTyped, LocationsHeld, DevicesHeld, Deleting,
       Sharing, DeviceRow, NoDevice, QuotaCommit, Patched, Leave, NoWork, tenancy, devices,
       overrides
  <2>5. OverridesConfirmed'
    BY <1>8, PatchFields DEF PlacesInv, WorkTyped, OverridesConfirmed, KillSwitchConfirmed,
       QuotaCommit, Patched, Leave, NoWork, tenancy, devices, overrides
  <2> QED BY <2>1, <2>2, <2>3, <2>4, <2>5 DEF PlacesInv
<1>9. ASSUME NEW r \in Worker, NEW l \in Location, NEW d \in Device, DeviceBegin(r, l, d)
     PROVE  PlacesInv'
  <2>1. WorkTyped'
    BY <1>9 DEF PlacesInv, WorkTyped, Deleting, Sharing, DeviceBegin, Spare, Doing,
       NoDevice, TakeUp, tenancy, quotas, devices, overrides
  <2>2. LocationsHeld'
    BY <1>9 DEF PlacesInv, WorkTyped, LocationsHeld, DevicesHeld, Deleting, Sharing,
       DeviceBegin, Spare, Doing, NoDevice, TakeUp, tenancy, quotas, devices, overrides
  <2>3. QuotasTyped'
    BY <1>9, NoQuotasTyped DEF PlacesInv, WorkTyped, LocationsHeld, QuotasTyped, QuotasKept,
       DeviceBegin, Spare, Doing, NoDevice, TakeUp, tenancy, quotas, devices, overrides
  <2>4. DevicesHeld'
    BY <1>9 DEF PlacesInv, WorkTyped, LocationsHeld, DevicesHeld, Deleting, Sharing,
       DeviceRow, NoDevice, DeviceBegin, Spare, Doing, TakeUp, tenancy, quotas, devices,
       overrides
  <2>5. OverridesConfirmed'
    BY <1>9 DEF PlacesInv, WorkTyped, OverridesConfirmed, KillSwitchConfirmed, DeviceBegin,
       Spare, Doing, NoDevice, TakeUp, tenancy, quotas, devices, overrides
  <2> QED BY <2>1, <2>2, <2>3, <2>4, <2>5 DEF PlacesInv
<1>10. ASSUME NEW r \in Worker, DeviceCommit(r)
     PROVE  PlacesInv'
  <2>1. WorkTyped'
    BY <1>10 DEF PlacesInv, WorkTyped, Deleting, Sharing, DeviceCommit, Leave, NoWork,
       tenancy, quotas, overrides
  <2>2. LocationsHeld'
    BY <1>10 DEF PlacesInv, WorkTyped, LocationsHeld, DevicesHeld, Deleting, Sharing,
       DeviceCommit, Leave, NoWork, tenancy, quotas, overrides
  <2>3. QuotasTyped'
    BY <1>10, NoQuotasTyped DEF PlacesInv, WorkTyped, LocationsHeld, QuotasTyped,
       QuotasKept, DeviceCommit, Leave, NoWork, tenancy, quotas, overrides
  <2>4. DevicesHeld'
    BY <1>10 DEF PlacesInv, WorkTyped, LocationsHeld, DevicesHeld, Deleting, Sharing,
       DeviceRow, NoDevice, DeviceCommit, Leave, NoWork, tenancy, quotas, overrides
  <2>5. OverridesConfirmed'
    BY <1>10 DEF PlacesInv, WorkTyped, OverridesConfirmed, KillSwitchConfirmed,
       DeviceCommit, Leave, NoWork, tenancy, quotas, overrides
  <2> QED BY <2>1, <2>2, <2>3, <2>4, <2>5 DEF PlacesInv
<1>11. ASSUME NEW r \in Worker, NEW d \in Device, NEW k \in Key \cup {NoKey}, ClaimBegin(r, d, k)
     PROVE  PlacesInv'
  <2>1. WorkTyped'
    BY <1>11 DEF PlacesInv, WorkTyped, Deleting, Sharing, ClaimBegin, Spare, DeviceFree,
       Doing, TakeUp, tenancy, quotas, devices, overrides
  <2>2. LocationsHeld'
    BY <1>11 DEF PlacesInv, WorkTyped, LocationsHeld, DevicesHeld, Deleting, Sharing,
       ClaimBegin, Spare, DeviceFree, Doing, TakeUp, tenancy, quotas, devices, overrides
  <2>3. QuotasTyped'
    BY <1>11, NoQuotasTyped DEF PlacesInv, WorkTyped, LocationsHeld, QuotasTyped,
       QuotasKept, ClaimBegin, Spare, DeviceFree, Doing, TakeUp, tenancy, quotas, devices,
       overrides
  <2>4. DevicesHeld'
    BY <1>11 DEF PlacesInv, WorkTyped, LocationsHeld, DevicesHeld, Deleting, Sharing,
       DeviceRow, NoDevice, ClaimBegin, Spare, DeviceFree, Doing, TakeUp, tenancy, quotas,
       devices, overrides
  <2>5. OverridesConfirmed'
    BY <1>11 DEF PlacesInv, WorkTyped, OverridesConfirmed, KillSwitchConfirmed, ClaimBegin,
       Spare, DeviceFree, Doing, TakeUp, tenancy, quotas, devices, overrides
  <2> QED BY <2>1, <2>2, <2>3, <2>4, <2>5 DEF PlacesInv
<1>12. ASSUME NEW r \in Worker, ClaimCommit(r)
     PROVE  PlacesInv'
  <2>1. WorkTyped'
    BY <1>12 DEF PlacesInv, WorkTyped, Deleting, Sharing, ClaimCommit, Leave, NoWork,
       tenancy, quotas, overrides
  <2>2. LocationsHeld'
    BY <1>12 DEF PlacesInv, WorkTyped, LocationsHeld, DevicesHeld, Deleting, Sharing,
       ClaimCommit, Leave, NoWork, tenancy, quotas, overrides
  <2>3. QuotasTyped'
    BY <1>12, NoQuotasTyped DEF PlacesInv, WorkTyped, LocationsHeld, QuotasTyped,
       QuotasKept, ClaimCommit, Leave, NoWork, tenancy, quotas, overrides
  <2>4. DevicesHeld'
    BY <1>12 DEF PlacesInv, WorkTyped, LocationsHeld, DevicesHeld, Deleting, Sharing,
       DeviceRow, NoDevice, ClaimCommit, Leave, NoWork, tenancy, quotas, overrides
  <2>5. OverridesConfirmed'
    BY <1>12 DEF PlacesInv, WorkTyped, OverridesConfirmed, KillSwitchConfirmed, ClaimCommit,
       Leave, NoWork, tenancy, quotas, overrides
  <2> QED BY <2>1, <2>2, <2>3, <2>4, <2>5 DEF PlacesInv
<1>13. ASSUME NEW r \in Worker, NEW patch \in Patch(Override), NEW confirm \in BOOLEAN, OverrideBegin(r, patch, confirm)
     PROVE  PlacesInv'
  <2>1. WorkTyped'
    BY <1>13, PatchFields DEF PlacesInv, WorkTyped, Deleting, Sharing, OverrideBegin, Spare,
       MaySet, TakeUp, tenancy, quotas, devices, overrides, OverridesConfirmed
  <2>2. LocationsHeld'
    BY <1>13, PatchFields DEF PlacesInv, WorkTyped, LocationsHeld, DevicesHeld, Deleting,
       Sharing, OverrideBegin, Spare, MaySet, TakeUp, tenancy, quotas, devices, overrides
  <2>3. QuotasTyped'
    BY <1>13, PatchFields, NoQuotasTyped DEF PlacesInv, WorkTyped, LocationsHeld,
       QuotasTyped, QuotasKept, OverrideBegin, Spare, MaySet, TakeUp, tenancy, quotas,
       devices, overrides
  <2>4. DevicesHeld'
    BY <1>13, PatchFields DEF PlacesInv, WorkTyped, LocationsHeld, DevicesHeld, Deleting,
       Sharing, DeviceRow, NoDevice, OverrideBegin, Spare, MaySet, TakeUp, tenancy, quotas,
       devices, overrides
  <2>5. OverridesConfirmed'
    BY <1>13, PatchFields DEF PlacesInv, WorkTyped, OverridesConfirmed, KillSwitchConfirmed,
       OverrideBegin, Spare, MaySet, TakeUp, tenancy, quotas, devices, overrides
  <2> QED BY <2>1, <2>2, <2>3, <2>4, <2>5 DEF PlacesInv
<1>14. ASSUME NEW r \in Worker, OverrideCommit(r)
     PROVE  PlacesInv'
  <2>1. WorkTyped'
    BY <1>14 DEF PlacesInv, WorkTyped, Deleting, Sharing, OverrideCommit, Leave, NoWork,
       tenancy, quotas, devices
  <2>2. LocationsHeld'
    BY <1>14 DEF PlacesInv, WorkTyped, LocationsHeld, DevicesHeld, Deleting, Sharing,
       OverrideCommit, Leave, NoWork, tenancy, quotas, devices
  <2>3. QuotasTyped'
    BY <1>14, NoQuotasTyped DEF PlacesInv, WorkTyped, LocationsHeld, QuotasTyped,
       QuotasKept, OverrideCommit, Leave, NoWork, tenancy, quotas, devices
  <2>4. DevicesHeld'
    BY <1>14 DEF PlacesInv, WorkTyped, LocationsHeld, DevicesHeld, Deleting, Sharing,
       DeviceRow, NoDevice, OverrideCommit, Leave, NoWork, tenancy, quotas, devices
  <2>5. OverridesConfirmed'
    BY <1>14 DEF PlacesInv, WorkTyped, OverridesConfirmed, KillSwitchConfirmed,
       OverrideCommit, Leave, NoWork, tenancy, quotas, devices
  <2> QED BY <2>1, <2>2, <2>3, <2>4, <2>5 DEF PlacesInv
<1>15. ASSUME NEW r \in Worker, AbortWork(r)
     PROVE  PlacesInv'
  <2>1. WorkTyped'
    BY <1>15 DEF PlacesInv, WorkTyped, Deleting, Sharing, AbortWork, Spare, Leave, NoWork,
       tenancy, quotas, devices, overrides
  <2>2. LocationsHeld'
    BY <1>15 DEF PlacesInv, WorkTyped, LocationsHeld, DevicesHeld, Deleting, Sharing,
       AbortWork, Spare, Leave, NoWork, tenancy, quotas, devices, overrides
  <2>3. QuotasTyped'
    BY <1>15, NoQuotasTyped DEF PlacesInv, WorkTyped, LocationsHeld, QuotasTyped,
       QuotasKept, AbortWork, Spare, Leave, NoWork, tenancy, quotas, devices, overrides
  <2>4. DevicesHeld'
    BY <1>15 DEF PlacesInv, WorkTyped, LocationsHeld, DevicesHeld, Deleting, Sharing,
       DeviceRow, NoDevice, AbortWork, Spare, Leave, NoWork, tenancy, quotas, devices,
       overrides
  <2>5. OverridesConfirmed'
    BY <1>15 DEF PlacesInv, WorkTyped, OverridesConfirmed, KillSwitchConfirmed, AbortWork,
       Spare, Leave, NoWork, tenancy, quotas, devices, overrides
  <2> QED BY <2>1, <2>2, <2>3, <2>4, <2>5 DEF PlacesInv
<1>16. CASE UNCHANGED placeVars
  BY <1>16 DEF placeVars, PlacesInv, WorkTyped, LocationsHeld, QuotasTyped, DevicesHeld,
     OverridesConfirmed, QuotasKept, KillSwitchConfirmed
<1> QED BY <1>1, <1>2, <1>3, <1>4, <1>5, <1>6, <1>7, <1>8, <1>9, <1>10, <1>11, <1>12, <1>13, <1>14,
   <1>15, <1>16 DEF PlacesNext

THEOREM PlacesInvariance == PlacesSpec => []PlacesInv
  BY PlacesInitially, PlacesStep, PTL DEF PlacesSpec

-----------------------------------------------------------------------------
(* What belongs to a location or to the account is there only while they    *)
(* are, for any number of locations and requests in flight (DELETE          *)
(* /locations/:id beside everything that refers to the row).                *)
THEOREM PlacesTypeCorrect == PlacesSpec => []PlacesTypeOK
<1>1. PlacesInv => PlacesTypeOK
  BY DEF PlacesInv, LocationsHeld, QuotasTyped, DevicesHeld, DeviceRow, OverridesConfirmed, PlacesTypeOK
<1> QED BY <1>1, PlacesInvariance, PTL

(* However many controllers present one claim token at the same time, one   *)
(* of them is paired (POST /devices/claim).                                 *)
THEOREM ClaimPairsOnce == PlacesSpec => []PairedOnce
<1>1. PlacesInv => PairedOnce
  BY DEF PlacesInv, DevicesHeld, PairedOnce
<1> QED BY <1>1, PlacesInvariance, PTL

(* Each quota is what its last PATCH asked for, whatever other PATCHes of   *)
(* the row came between the read and the write.                             *)
THEOREM QuotasAreKept == PlacesSpec => []QuotasKept
<1>1. PlacesInv => QuotasKept
  BY DEF PlacesInv, QuotasTyped
<1> QED BY <1>1, PlacesInvariance, PTL

(* An override of 0 is never the result of overlapping PATCHes of which     *)
(* none confirmed the kill switch.                                          *)
THEOREM KillSwitchIsConfirmed == PlacesSpec => []KillSwitchConfirmed
<1>1. PlacesInv => KillSwitchConfirmed
  BY DEF PlacesInv, OverridesConfirmed
<1> QED BY <1>1, PlacesInvariance, PTL

-----------------------------------------------------------------------------
(***************************************************************************)
(* Gates.  What is there belongs to what is there, meters count the log,   *)
(* a meter has one service entry's thresholds, and a gate that is due      *)
(* stays due.                                                              *)
(***************************************************************************)

Commands == {"open", "close"}

(* A command has a number of its own and began in the past; an entry being  *)
(* made holds its gate, and the movement it has read was the meter's.       *)
TxHeld ==
    /\ tx = [r \in Txn |-> tx[r]]
    /\ begun \in [ops : Nat, events : Nat]
    /\ \A r \in Txn :
        /\ tx[r].op \in {"idle", "create", "log", "event"}
        /\ tx[r].op = "create" => placed /\ tx[r].gate \in Gate \ gates
        /\ tx[r].op = "log" => /\ tx[r].id \in 1 .. begun.ops /\ tx[r].gate \in Gate
                               /\ tx[r].command \in Commands /\ tx[r].ts \in 0 .. now
        /\ tx[r].op = "event" => /\ tx[r].id \in 1 .. begun.events /\ tx[r].gate \in gates
                                 /\ tx[r].reading \in 0 .. meter[tx[r].gate].movement
                                 /\ tx[r].entry \in Entry
    /\ \A q, r \in Txn : q # r =>
        /\ tx[q].op = "create" /\ tx[r].op = "create" => tx[q].gate # tx[r].gate
        /\ tx[q].op = "log" /\ tx[r].op = "log" => tx[q].id # tx[r].id
        /\ tx[q].op = "event" /\ tx[r].op = "event" => tx[q].id # tx[r].id

(* A row has the number of its command, and that of none still at work. *)
LogsHeld ==
    /\ IsFiniteSet(logs)
    /\ \A l \in logs : l.id \in 1 .. begun.ops /\ l.ts \in 0 .. now
    /\ \A l \in logs, r \in Txn : tx[r].op = "log" => l.id # tx[r].id

EventsHeld ==
    /\ \A e \in events : e.id \in 1 .. begun.events /\ e.reading \in Nat
    /\ \A e \in events, r \in Txn : tx[r].op = "event" => e.id # tx[r].id

MetersHeld == meter = [g \in Gate |-> meter[g]]

GatesInv == GatesTypeOK /\ MetersHeld /\ TxHeld /\ LogsHeld /\ EventsHeld /\ MetersCount /\ OneService

-----------------------------------------------------------------------------
LEMMA GatesInitially == GatesInit => GatesInv
<1> SUFFICES ASSUME GatesInit PROVE GatesInv
  OBVIOUS
<1> USE GatesAssumption, ClockAssumption DEF GatesInit
<1>1. GatesTypeOK
  BY DEF GatesTypeOK, Time
<1>2. TxHeld
  BY DEF TxHeld, NoTx
<1>3. LogsHeld /\ EventsHeld /\ MetersHeld
  BY FS_EmptySet DEF LogsHeld, EventsHeld, MetersHeld
<1>4. MetersCount /\ OneService
  BY DEF MetersCount, OneService
<1> QED BY <1>1, <1>2, <1>3, <1>4 DEF GatesInv

(* While no row changes, gateRows stay right, with a later clock as well. *)
LEMMA RowsStay ==
    ASSUME GatesInv, UNCHANGED gateRows, now' \in Time, now' >= now
    PROVE  GatesTypeOK' /\ MetersCount' /\ OneService'
<1>1. GatesTypeOK'
  <2>1. \A l \in logs : l.ts <= now'
    BY GatesAssumption, ClockAssumption DEF GatesInv, LogsHeld, GatesTypeOK, Time
  <2> QED BY <2>1 DEF GatesInv, GatesTypeOK, gateRows
<1>2. MetersCount'
  BY DEF GatesInv, MetersCount, LogsOf, gateRows
<1>3. OneService'
  BY DEF GatesInv, OneService, gateRows
<1> QED BY <1>1, <1>2, <1>3

(* A request that begins or ends without a row leaves everything right.     *)
LEMMA BeginsKeep ==
    ASSUME GatesInv, NEW r \in Txn, NEW g \in Gate,
           \/ GateBegin(r, g)
           \/ \E command \in Commands : LogBegin(r, g, command)
           \/ \E entry \in Entry : EventBegin(r, g, entry)
           \/ AbortTx(r)
    PROVE  GatesInv'
<1> USE GatesAssumption, ClockAssumption
<1>1. UNCHANGED gateRows /\ UNCHANGED now
  BY DEF GateBegin, LogBegin, EventBegin, AbortTx
<1>2. GatesTypeOK' /\ MetersCount' /\ OneService' /\ MetersHeld'
  BY <1>1, RowsStay DEF GatesInv, GatesTypeOK, MetersHeld, Time, gateRows
<1>3. \A q \in Txn : q # r => tx'[q] = tx[q]
  BY DEF GatesInv, TxHeld, GateBegin, LogBegin, EventBegin, AbortTx, StartTx, EndTx
<1>4. tx' = [q \in Txn |-> tx'[q]]
  BY DEF GatesInv, TxHeld, GateBegin, LogBegin, EventBegin, AbortTx, StartTx, EndTx
<1>5. meter[g] \in Meter => meter[g].movement \in Nat
  BY DEF Meter
<1>6. CASE GateBegin(r, g)
  <2>1. /\ tx'[r] = [op |-> "create", gate |-> g] /\ begun' = begun
        /\ placed /\ g \notin gates
        /\ \A q \in Txn : tx[q].op = "create" => tx[q].gate # g
    BY <1>6 DEF GateBegin, StartTx, GatesInv, TxHeld, Working
  <2>2. TxHeld'
    BY <1>1, <1>3, <1>4, <2>1 DEF GatesInv, TxHeld, gateRows
  <2>3. LogsHeld' /\ EventsHeld'
    BY <1>1, <1>3, <2>1 DEF GatesInv, LogsHeld, EventsHeld, gateRows
  <2> QED BY <1>2, <2>2, <2>3 DEF GatesInv
<1>7. ASSUME NEW command \in Commands, LogBegin(r, g, command)
      PROVE  GatesInv'
  <2>1. /\ tx'[r] = [op |-> "log", id |-> begun.ops + 1, gate |-> g, command |-> command, ts |-> now]
        /\ begun' \in [ops : Nat, events : Nat]
        /\ begun'.ops = begun.ops + 1 /\ begun'.events = begun.events
    BY <1>7 DEF LogBegin, StartTx, GatesInv, TxHeld
  <2>2. TxHeld'
    BY <1>1, <1>3, <1>4, <2>1 DEF GatesInv, TxHeld, GatesTypeOK, Time, gateRows
  <2>3. LogsHeld' /\ EventsHeld'
    BY <1>1, <1>3, <2>1 DEF GatesInv, TxHeld, LogsHeld, EventsHeld, gateRows
  <2> QED BY <1>2, <2>2, <2>3 DEF GatesInv
<1>8. ASSUME NEW entry \in Entry, EventBegin(r, g, entry)
      PROVE  GatesInv'
  <2>1. /\ tx'[r] = [op |-> "event", id |-> begun.events + 1, gate |-> g,
                     reading |-> meter[g].movement, entry |-> entry]
        /\ begun' \in [ops : Nat, events : Nat]
        /\ begun'.ops = begun.ops /\ begun'.events = begun.events + 1
        /\ g \in gates
    BY <1>8 DEF EventBegin, StartTx, GatesInv, TxHeld
  <2>2. meter[g].movement \in Nat
    BY <1>5, <2>1 DEF GatesInv, GatesTypeOK
  <2>3. TxHeld'
    BY <1>1, <1>3, <1>4, <2>1, <2>2 DEF GatesInv, TxHeld, gateRows
  <2>4. LogsHeld' /\ EventsHeld'
    BY <1>1, <1>3, <2>1 DEF GatesInv, TxHeld, LogsHeld, EventsHeld, gateRows
  <2> QED BY <1>2, <2>3, <2>4 DEF GatesInv
<1>9. CASE AbortTx(r)
  <2>1. tx'[r].op = "idle" /\ begun' = begun
    BY <1>9 DEF AbortTx, EndTx, NoTx, GatesInv, TxHeld
  <2>2. TxHeld'
    BY <1>1, <1>3, <1>4, <2>1 DEF GatesInv, TxHeld, gateRows
  <2>3. LogsHeld' /\ EventsHeld'
    BY <1>1, <1>3, <2>1 DEF GatesInv, LogsHeld, EventsHeld, gateRows
  <2> QED BY <1>2, <2>2, <2>3 DEF GatesInv
<1> QED BY <1>6, <1>7, <1>8, <1>9

(* A gate that is made has a meter at nought, and no log yet.               *)
LEMMA CreateKeeps ==
    ASSUME GatesInv, NEW r \in Txn, GateCommit(r)
    PROVE  GatesInv'
<1> USE GatesAssumption, ClockAssumption
<1> DEFINE g == tx[r].gate
<1>1. /\ g \in Gate \ gates /\ placed
      /\ gates' = gates \cup {g}
      /\ \A q \in Txn : q # r => tx'[q] = tx[q] /\ (tx[q].op = "create" => tx[q].gate # g)
      /\ tx' = [q \in Txn |-> tx'[q]] /\ tx'[r].op = "idle"
      /\ UNCHANGED <<placed, logs, events, now, begun>>
  BY DEF GatesInv, TxHeld, GateCommit, EndTx, NoTx
<1>2. meter' = [meter EXCEPT ![g] = NewMeter]
  BY DEF GateCommit
<1> HIDE DEF g
<1>3. /\ meter' = [h \in Gate |-> meter'[h]]
      /\ meter'[g] = NewMeter
      /\ \A h \in Gate : h # g => meter'[h] = meter[h]
  BY <1>1, <1>2 DEF GatesInv, GatesTypeOK, MetersHeld
<1>4. NewMeter \in Meter
  BY DEF NewMeter, Meter, NatOrNull
<1>5. GatesTypeOK'
  BY <1>1, <1>3, <1>4 DEF GatesInv, GatesTypeOK
<1>6. TxHeld'
  BY <1>1, <1>3 DEF GatesInv, GatesTypeOK, TxHeld
<1>7. LogsHeld' /\ EventsHeld' /\ MetersHeld'
  BY <1>1, <1>3 DEF GatesInv, LogsHeld, EventsHeld, MetersHeld
<1>8. MetersCount'
  <2> DEFINE Of(h, command) == {l \in logs : l.gate = h /\ l.command = command}
  <2>0. \A l \in logs : l.gate # g
    BY <1>1 DEF GatesInv, GatesTypeOK
  <2>1. Of(g, "open") = {} /\ Of(g, "close") = {}
    BY <2>0
  <2>2. /\ NewMeter.opens = 0 /\ NewMeter.closes = 0 /\ NewMeter.movement = 0 /\ NewMeter.lastOp = Null
        /\ Cardinality({}) = 0 /\ PerOp * (0 + 0) = 0
    BY FS_EmptySet DEF NewMeter
  <2>3. \A h : LogsOf(h, "open")' = Of(h, "open") /\ LogsOf(h, "close")' = Of(h, "close")
    BY <1>1 DEF LogsOf
  <2>6. \A h : LogsOf(h, "open") = Of(h, "open") /\ LogsOf(h, "close") = Of(h, "close")
    BY DEF LogsOf
  <2> HIDE DEF Of
  <2> SUFFICES ASSUME NEW h \in gates'
               PROVE  (/\ meter[h].opens = Cardinality(LogsOf(h, "open"))
                       /\ meter[h].closes = Cardinality(LogsOf(h, "close"))
                       /\ meter[h].movement = PerOp * (meter[h].opens + meter[h].closes)
                       /\ \A l \in logs : l.gate = h => meter[h].lastOp # Null /\ meter[h].lastOp >= l.ts
                       /\ meter[h].lastOp # Null => \E l \in logs : l.gate = h /\ l.ts = meter[h].lastOp)'
    BY DEF MetersCount
  <2>4. CASE h = g
    BY <1>1, <1>3, <2>0, <2>1, <2>2, <2>3, <2>4
  <2>5. CASE h \in gates
    <3>1. h # g /\ meter'[h] = meter[h]
      BY <1>1, <1>3, <2>5 DEF GatesInv, GatesTypeOK
    <3>2. /\ meter[h].opens = Cardinality(Of(h, "open"))
          /\ meter[h].closes = Cardinality(Of(h, "close"))
          /\ meter[h].movement = PerOp * (meter[h].opens + meter[h].closes)
          /\ \A l \in logs : l.gate = h => meter[h].lastOp # Null /\ meter[h].lastOp >= l.ts
          /\ meter[h].lastOp # Null => \E l \in logs : l.gate = h /\ l.ts = meter[h].lastOp
      BY <2>5, <2>6 DEF GatesInv, MetersCount
    <3> QED BY <1>1, <2>3, <3>1, <3>2
  <2> QED BY <1>1, <2>4, <2>5
<1>9. OneService'
  BY <1>1, <1>3 DEF GatesInv, GatesTypeOK, OneService, NewMeter
<1> QED BY <1>5, <1>6, <1>7, <1>8, <1>9 DEF GatesInv

(* What one more command makes of a meter.                                  *)
LEMMA MeterAdvances ==
    ASSUME GatesAssumption, ClockAssumption, NEW m \in Meter, NEW command \in Commands, NEW ts \in Nat,
           m.movement = PerOp * (m.opens + m.closes)
    PROVE  LET n == Advanced(m, command, ts) IN
           /\ n \in Meter
           /\ n.opens = m.opens + Count(command, "open")
           /\ n.closes = m.closes + Count(command, "close")
           /\ n.movement = PerOp * (n.opens + n.closes)
           /\ n.movement >= m.movement
           /\ n.lastOp \in Nat /\ n.lastOp >= ts /\ (m.lastOp # Null => n.lastOp >= m.lastOp)
           /\ n.lastOp = ts \/ n.lastOp = m.lastOp
           /\ n.serviced = m.serviced /\ n.baseline = m.baseline
           /\ n.dueAt = m.dueAt /\ n.dueOn = m.dueOn
<1> USE DEF GatesAssumption, ClockAssumption
<1>1. /\ m.movement \in Nat /\ m.opens \in Nat /\ m.closes \in Nat /\ m.lastOp \in NatOrNull
      /\ PerOp \in Nat
  BY DEF Meter
<1>2. /\ Count(command, "open") \in {0, 1} /\ Count(command, "close") \in {0, 1}
      /\ Count(command, "open") + Count(command, "close") = 1
  BY DEF Count, Commands
<1>3. \A a \in Nat : PerOp * (a + 1) = PerOp * a + PerOp
  BY <1>1
<1>4. /\ Later(m.lastOp, ts) \in Nat /\ Later(m.lastOp, ts) >= ts
      /\ m.lastOp # Null => Later(m.lastOp, ts) >= m.lastOp
      /\ Later(m.lastOp, ts) = ts \/ Later(m.lastOp, ts) = m.lastOp
  BY <1>1 DEF Later, NatOrNull
<1> DEFINE n == Advanced(m, command, ts)
<1>5. n = [movement |-> m.movement + PerOp, opens |-> m.opens + Count(command, "open"),
           closes |-> m.closes + Count(command, "close"), lastOp |-> Later(m.lastOp, ts),
           serviced |-> m.serviced, baseline |-> m.baseline, dueAt |-> m.dueAt, dueOn |-> m.dueOn]
  <2>1. m = [movement |-> m.movement, opens |-> m.opens, closes |-> m.closes, lastOp |-> m.lastOp,
             serviced |-> m.serviced, baseline |-> m.baseline, dueAt |-> m.dueAt, dueOn |-> m.dueOn]
    BY DEF Meter
  <2> DEFINE m1 == [m EXCEPT !.movement = @ + PerOp]
             m2 == [m1 EXCEPT !.opens = @ + Count(command, "open")]
             m3 == [m2 EXCEPT !.closes = @ + Count(command, "close")]
  <2>2. m1 = [movement |-> m.movement + PerOp, opens |-> m.opens, closes |-> m.closes, lastOp |-> m.lastOp,
              serviced |-> m.serviced, baseline |-> m.baseline, dueAt |-> m.dueAt, dueOn |-> m.dueOn]
    BY <2>1
  <2> HIDE DEF m1
  <2>3. m2 = [movement |-> m.movement + PerOp, opens |-> m.opens + Count(command, "open"),
              closes |-> m.closes, lastOp |-> m.lastOp,
              serviced |-> m.serviced, baseline |-> m.baseline, dueAt |-> m.dueAt, dueOn |-> m.dueOn]
    BY <2>2
  <2> HIDE DEF m2
  <2>4. m3 = [movement |-> m.movement + PerOp, opens |-> m.opens + Count(command, "open"),
              closes |-> m.closes + Count(command, "close"), lastOp |-> m.lastOp,
              serviced |-> m.serviced, baseline |-> m.baseline, dueAt |-> m.dueAt, dueOn |-> m.dueOn]
    BY <2>3
  <2>5. n = [m3 EXCEPT !.lastOp = Later(@, ts)]
    BY DEF Advanced, m1, m2
  <2> HIDE DEF m3
  <2> QED BY <2>4, <2>5
<1>6. n \in Meter
  BY <1>1, <1>2, <1>4, <1>5 DEF Meter, NatOrNull
<1>7. n.movement = PerOp * (n.opens + n.closes)
  <2>1. n.opens + n.closes = (m.opens + m.closes) + 1 /\ m.opens + m.closes \in Nat
    BY <1>1, <1>2, <1>5
  <2> QED BY <1>3, <1>5, <2>1
<1> HIDE DEF n
<1>8. n.movement >= m.movement
  BY <1>1, <1>5
<1> QED BY <1>4, <1>5, <1>6, <1>7, <1>8 DEF n

(* A command is written as one more row of the log of its gate, or of none. *)
LEMMA LogKeeps ==
    ASSUME GatesInv, NEW r \in Txn, LogCommit(r)
    PROVE  GatesInv'
<1> USE GatesAssumption, ClockAssumption
<1> DEFINE g == tx[r].gate
           c == tx[r].command
           ts == tx[r].ts
           row == [id |-> tx[r].id, gate |-> g, command |-> c, ts |-> ts]
           m == meter[g]
<1>1. /\ g \in Gate /\ c \in Commands /\ ts \in 0 .. now /\ ts \in Nat /\ tx[r].id \in 1 .. begun.ops
      /\ now \in Nat
      /\ \A q \in Txn : q # r => tx'[q] = tx[q] /\ (tx[q].op = "log" => tx[q].id # tx[r].id)
      /\ tx' = [q \in Txn |-> tx'[q]] /\ tx'[r].op = "idle"
      /\ UNCHANGED <<placed, gates, events, now, begun>>
  BY DEF GatesInv, GatesTypeOK, Time, TxHeld, LogCommit, EndTx, NoTx
<1>2. row \notin logs /\ row.gate = g /\ row.command = c /\ row.ts = ts /\ row.id = tx[r].id
  BY DEF GatesInv, LogsHeld, LogCommit
<1>3. CASE g \notin gates
  <2>1. UNCHANGED gateRows
    BY <1>1, <1>3 DEF LogCommit, gateRows
  <2>2. GatesTypeOK' /\ MetersCount' /\ OneService' /\ MetersHeld'
    BY <1>1, <2>1, RowsStay DEF GatesInv, GatesTypeOK, MetersHeld, Time, gateRows
  <2>3. TxHeld' /\ LogsHeld' /\ EventsHeld'
    BY <1>1, <2>1 DEF GatesInv, TxHeld, LogsHeld, EventsHeld, gateRows
  <2> QED BY <2>2, <2>3 DEF GatesInv
<1>4. CASE g \in gates
  <2>1. logs' = logs \cup {row} /\ meter' = [meter EXCEPT ![g] = Advanced(m, c, ts)]
    BY <1>4 DEF LogCommit
  <2>2. m \in Meter /\ m.movement = PerOp * (m.opens + m.closes)
    BY <1>1, <1>4 DEF GatesInv, GatesTypeOK, MetersCount
  <2> HIDE DEF g, c, ts, row, m
  <2>3. /\ meter' = [h \in Gate |-> meter'[h]]
        /\ meter'[g] = Advanced(m, c, ts)
        /\ \A h \in Gate : h # g => meter'[h] = meter[h]
    BY <1>1, <2>1 DEF GatesInv, MetersHeld
  <2>4. /\ meter'[g] \in Meter
        /\ meter'[g].opens = m.opens + Count(c, "open")
        /\ meter'[g].closes = m.closes + Count(c, "close")
        /\ meter'[g].movement = PerOp * (meter'[g].opens + meter'[g].closes)
        /\ meter'[g].movement >= m.movement
        /\ meter'[g].lastOp \in Nat /\ meter'[g].lastOp >= ts
        /\ m.lastOp # Null => meter'[g].lastOp >= m.lastOp
        /\ meter'[g].lastOp = ts \/ meter'[g].lastOp = m.lastOp
        /\ meter'[g].serviced = m.serviced /\ meter'[g].baseline = m.baseline
        /\ meter'[g].dueAt = m.dueAt /\ meter'[g].dueOn = m.dueOn
    BY <1>1, <2>2, <2>3, MeterAdvances
  <2>5. GatesTypeOK'
    BY <1>1, <1>2, <1>4, <2>1, <2>3, <2>4 DEF GatesInv, GatesTypeOK
  <2>6. MetersHeld'
    BY <2>3 DEF MetersHeld
  <2>7. TxHeld'
    <3>1. \A h \in gates : meter[h] \in Meter /\ meter[h].movement \in Nat /\ h \in Gate
      BY DEF GatesInv, GatesTypeOK, Meter
    <3>2. \A h \in gates : meter'[h].movement \in Nat /\ meter'[h].movement >= meter[h].movement
      BY <2>3, <2>4, <3>1 DEF Meter, m
    <3>3. \A q \in Txn : tx'[q].op = "event" => tx'[q].reading \in 0 .. meter'[tx'[q].gate].movement
      BY <1>1, <3>1, <3>2 DEF GatesInv, TxHeld
    <3> QED BY <1>1, <3>3 DEF GatesInv, TxHeld
  <2>8. LogsHeld' /\ EventsHeld'
    <3>1. IsFiniteSet(logs')
      BY <2>1, FS_AddElement DEF GatesInv, LogsHeld
    <3> QED BY <1>1, <1>2, <2>1, <3>1 DEF GatesInv, LogsHeld, EventsHeld
  <2>9. MetersCount'
    <3> DEFINE Of(L, h, k) == {l \in L : l.gate = h /\ l.command = k}
    <3>0. \A h : /\ LogsOf(h, "open") = Of(logs, h, "open") /\ LogsOf(h, "open")' = Of(logs', h, "open")
                 /\ LogsOf(h, "close") = Of(logs, h, "close") /\ LogsOf(h, "close")' = Of(logs', h, "close")
      BY DEF LogsOf
    <3>1. ASSUME NEW h, NEW k
          PROVE  /\ Of(logs', h, k) = IF h = g /\ k = c THEN Of(logs, h, k) \cup {row} ELSE Of(logs, h, k)
                 /\ IsFiniteSet(Of(logs, h, k)) /\ row \notin Of(logs, h, k)
      <4>1. IsFiniteSet(Of(logs, h, k)) /\ row \notin Of(logs, h, k)
        BY <1>2, FS_Subset DEF GatesInv, LogsHeld
      <4> QED BY <1>2, <2>1, <4>1
    <3> HIDE DEF Of
    <3>2. ASSUME NEW k
          PROVE  /\ Cardinality(Of(logs', g, k)) = Cardinality(Of(logs, g, k)) + Count(c, k)
                 /\ Cardinality(Of(logs, g, k)) \in Nat
      <4>1. IsFiniteSet(Of(logs, g, k)) /\ row \notin Of(logs, g, k)
        BY <3>1
      <4>2. Cardinality(Of(logs, g, k)) \in Nat
        BY <4>1, FS_CardinalityType
      <4>3. Cardinality(Of(logs, g, k) \cup {row}) = Cardinality(Of(logs, g, k)) + 1
        BY <4>1, FS_AddElement
      <4>4. CASE k = c
        BY <3>1, <4>2, <4>3, <4>4 DEF Count
      <4>5. CASE k # c
        BY <3>1, <4>2, <4>5 DEF Count
      <4> QED BY <4>4, <4>5
    <3>3. \A h, k : h # g => Of(logs', h, k) = Of(logs, h, k)
      BY <3>1
    <3> SUFFICES ASSUME NEW h \in gates'
                 PROVE  (/\ meter[h].opens = Cardinality(LogsOf(h, "open"))
                         /\ meter[h].closes = Cardinality(LogsOf(h, "close"))
                         /\ meter[h].movement = PerOp * (meter[h].opens + meter[h].closes)
                         /\ \A l \in logs : l.gate = h => meter[h].lastOp # Null /\ meter[h].lastOp >= l.ts
                         /\ meter[h].lastOp # Null => \E l \in logs : l.gate = h /\ l.ts = meter[h].lastOp)'
      BY DEF MetersCount
    <3>4. h \in gates /\ h \in Gate
      BY <1>1 DEF GatesInv, GatesTypeOK
    <3>5. /\ meter[h].opens = Cardinality(LogsOf(h, "open"))
          /\ meter[h].closes = Cardinality(LogsOf(h, "close"))
          /\ meter[h].movement = PerOp * (meter[h].opens + meter[h].closes)
          /\ \A l \in logs : l.gate = h => meter[h].lastOp # Null /\ meter[h].lastOp >= l.ts
          /\ meter[h].lastOp # Null => \E l \in logs : l.gate = h /\ l.ts = meter[h].lastOp
      BY <3>4 DEF GatesInv, MetersCount
    <3>6. CASE h # g
      <4>1. meter'[h] = meter[h] /\ LogsOf(h, "open")' = LogsOf(h, "open") /\ LogsOf(h, "close")' = LogsOf(h, "close")
        BY <2>3, <3>0, <3>3, <3>4, <3>6
      <4> QED BY <1>2, <2>1, <3>5, <3>6, <4>1
    <3>7. CASE h = g
      <4>1. /\ meter'[h].opens = Cardinality(LogsOf(h, "open")')
            /\ meter'[h].closes = Cardinality(LogsOf(h, "close")')
        BY <2>4, <3>0, <3>2, <3>5, <3>7 DEF m
      <4>2. \A l \in logs : l.gate = h => meter'[h].lastOp >= l.ts
        <5> SUFFICES ASSUME NEW l \in logs, l.gate = h PROVE meter'[h].lastOp >= l.ts
          OBVIOUS
        <5>1. m.lastOp # Null /\ m.lastOp >= l.ts /\ m.lastOp \in Nat /\ l.ts \in Nat
          BY <2>2, <3>5, <3>7 DEF m, Meter, NatOrNull, GatesInv, LogsHeld
        <5> QED BY <2>4, <3>7, <5>1
      <4>3. \A l \in logs' : l.gate = h => meter'[h].lastOp >= l.ts
        BY <1>1, <1>2, <2>1, <2>4, <3>7, <4>2
      <4>4. \E l \in logs' : l.gate = h /\ l.ts = meter'[h].lastOp
        BY <1>2, <2>1, <2>4, <3>5, <3>7 DEF m
      <4> QED BY <2>4, <3>7, <4>1, <4>3, <4>4
    <3> QED BY <3>6, <3>7
  <2>10. OneService'
    <3> SUFFICES ASSUME NEW h \in gates'
                 PROVE  (LET n == meter[h] IN
                         \/ n.serviced = Null /\ n.baseline = Null /\ n.dueAt = Null /\ n.dueOn = Null
                         \/ /\ n.baseline <= n.movement
                            /\ \E e \in events :
                                /\ e.gate = h /\ e.entry.kind # "inspection"
                                /\ e.entry.performed = n.serviced /\ e.reading = n.baseline
                                /\ e.entry.dueAt = n.dueAt /\ e.entry.dueOn = n.dueOn)'
      BY DEF OneService
    <3>1. h \in gates /\ h \in Gate
      BY <1>1 DEF GatesInv, GatesTypeOK
    <3> DEFINE n == meter[h]
    <3>2. \/ n.serviced = Null /\ n.baseline = Null /\ n.dueAt = Null /\ n.dueOn = Null
          \/ /\ n.baseline <= n.movement
             /\ \E e \in events :
                 /\ e.gate = h /\ e.entry.kind # "inspection"
                 /\ e.entry.performed = n.serviced /\ e.reading = n.baseline
                 /\ e.entry.dueAt = n.dueAt /\ e.entry.dueOn = n.dueOn
      BY <3>1 DEF GatesInv, OneService
    <3>3. CASE h # g
      BY <1>1, <2>3, <3>1, <3>2, <3>3
    <3>4. CASE h = g
      <4>1. /\ \A e \in events : e.reading \in Nat
            /\ m.movement \in Nat /\ meter'[g].movement \in Nat
        BY <2>2, <2>4 DEF GatesInv, EventsHeld, Meter
      <4>2. CASE n.serviced = Null /\ n.baseline = Null /\ n.dueAt = Null /\ n.dueOn = Null
        BY <2>4, <3>4, <4>2 DEF m
      <4>3. ASSUME NEW e \in events, n.baseline <= n.movement, e.reading = n.baseline,
                   e.gate = h /\ e.entry.kind # "inspection",
                   e.entry.performed = n.serviced,
                   e.entry.dueAt = n.dueAt /\ e.entry.dueOn = n.dueOn
            PROVE  /\ meter'[h].baseline <= meter'[h].movement /\ e \in events'
                   /\ e.entry.performed = meter'[h].serviced /\ e.reading = meter'[h].baseline
                   /\ e.entry.dueAt = meter'[h].dueAt /\ e.entry.dueOn = meter'[h].dueOn
        BY <1>1, <2>4, <3>4, <4>1, <4>3 DEF m
      <4> QED BY <3>2, <4>2, <4>3
    <3> QED BY <3>3, <3>4
  <2> QED BY <2>5, <2>6, <2>7, <2>8, <2>9, <2>10 DEF GatesInv
<1> QED BY <1>3, <1>4

(* What a service makes of a meter.                                         *)
LEMMA MeterAdopts ==
    ASSUME NEW m \in Meter, NEW e, e.entry \in Entry, e.reading \in Nat
    PROVE  LET n == Adopted(m, e) IN
           /\ n \in Meter
           /\ n.opens = m.opens /\ n.closes = m.closes /\ n.movement = m.movement /\ n.lastOp = m.lastOp
           /\ n.serviced = e.entry.performed /\ n.baseline = e.reading
           /\ n.dueAt = e.entry.dueAt /\ n.dueOn = e.entry.dueOn
<1> DEFINE n == Adopted(m, e)
           m1 == [m EXCEPT !.serviced = e.entry.performed]
           m2 == [m1 EXCEPT !.baseline = e.reading]
           m3 == [m2 EXCEPT !.dueAt = e.entry.dueAt]
<1>1. m = [movement |-> m.movement, opens |-> m.opens, closes |-> m.closes, lastOp |-> m.lastOp,
           serviced |-> m.serviced, baseline |-> m.baseline, dueAt |-> m.dueAt, dueOn |-> m.dueOn]
  BY DEF Meter
<1>2. m1 = [movement |-> m.movement, opens |-> m.opens, closes |-> m.closes, lastOp |-> m.lastOp,
            serviced |-> e.entry.performed, baseline |-> m.baseline, dueAt |-> m.dueAt, dueOn |-> m.dueOn]
  BY <1>1
<1> HIDE DEF m1
<1>3. m2 = [movement |-> m.movement, opens |-> m.opens, closes |-> m.closes, lastOp |-> m.lastOp,
            serviced |-> e.entry.performed, baseline |-> e.reading, dueAt |-> m.dueAt, dueOn |-> m.dueOn]
  BY <1>2
<1> HIDE DEF m2
<1>4. m3 = [movement |-> m.movement, opens |-> m.opens, closes |-> m.closes, lastOp |-> m.lastOp,
            serviced |-> e.entry.performed, baseline |-> e.reading, dueAt |-> e.entry.dueAt, dueOn |-> m.dueOn]
  BY <1>3
<1>5. n = [m3 EXCEPT !.dueOn = e.entry.dueOn]
  BY DEF Adopted, m1, m2
<1> HIDE DEF m3
<1>6. n = [movement |-> m.movement, opens |-> m.opens, closes |-> m.closes, lastOp |-> m.lastOp,
           serviced |-> e.entry.performed, baseline |-> e.reading,
           dueAt |-> e.entry.dueAt, dueOn |-> e.entry.dueOn]
  BY <1>4, <1>5
<1>7. e.entry.performed \in Nat /\ e.entry.dueAt \in NatOrNull /\ e.entry.dueOn \in NatOrNull
  BY EntryAssumption DEF NatOrNull
<1> HIDE DEF n
<1>8. n \in Meter
  BY <1>6, <1>7 DEF Meter, NatOrNull
<1> QED BY <1>6, <1>8 DEF n

(* An entry of the maintenance log; all but an inspection take over.        *)
LEMMA EventKeeps ==
    ASSUME GatesInv, NEW r \in Txn, EventCommit(r)
    PROVE  /\ GatesInv'
           /\ \A h \in gates :
                \/ meter'[h] = meter[h]
                \/ \E e \in events' \ events : e.gate = h /\ e.entry.kind # "inspection"
<1> USE GatesAssumption, ClockAssumption
<1> DEFINE e == tx[r]
           g == e.gate
           row == [id |-> e.id, gate |-> g, reading |-> e.reading, entry |-> e.entry]
           m == meter[g]
<1>1. /\ g \in gates /\ g \in Gate /\ m \in Meter /\ m.movement \in Nat
      /\ e.reading \in 0 .. m.movement /\ e.reading \in Nat /\ e.entry \in Entry /\ e.id \in 1 .. begun.events
      /\ \A q \in Txn : q # r => tx'[q] = tx[q] /\ (tx[q].op = "event" => tx[q].id # e.id)
      /\ tx' = [q \in Txn |-> tx'[q]] /\ tx'[r].op = "idle"
      /\ UNCHANGED <<placed, gates, logs, now, begun>>
      /\ events' = events \cup {row}
      /\ meter' = IF Resets(e.entry.kind) THEN [meter EXCEPT ![g] = Adopted(@, e)] ELSE meter
  <2>1. e.op = "event" /\ g \in gates
    BY DEF EventCommit, GatesInv, TxHeld
  <2>2. m \in Meter /\ m.movement \in Nat /\ g \in Gate
    BY <2>1 DEF GatesInv, GatesTypeOK, Meter
  <2>3. e.reading \in 0 .. m.movement /\ e.entry \in Entry /\ e.id \in 1 .. begun.events
    BY <2>1 DEF GatesInv, TxHeld
  <2>4. /\ \A q \in Txn : q # r => tx'[q] = tx[q] /\ (tx[q].op = "event" => tx[q].id # e.id)
        /\ tx' = [q \in Txn |-> tx'[q]] /\ tx'[r].op = "idle"
    BY <2>1 DEF GatesInv, TxHeld, EventCommit, EndTx, NoTx
  <2> QED BY <2>1, <2>2, <2>3, <2>4 DEF EventCommit
<1>2. row \notin events /\ row.gate = g /\ row.entry = e.entry /\ row.reading = e.reading /\ row.id = e.id
  BY DEF GatesInv, EventsHeld, EventCommit
<1> HIDE DEF e, g, row, m
<1>3. /\ meter' = [h \in Gate |-> meter'[h]]
      /\ \A h \in Gate : h # g => meter'[h] = meter[h]
  BY <1>1 DEF GatesInv, MetersHeld
<1>6. \A h : LogsOf(h, "open")' = LogsOf(h, "open") /\ LogsOf(h, "close")' = LogsOf(h, "close")
  BY <1>1 DEF LogsOf
<1>4. CASE ~Resets(e.entry.kind)
  <2>1. meter' = meter
    BY <1>1, <1>4
  <2>2. GatesTypeOK'
    BY <1>1, <1>2, <2>1 DEF GatesInv, GatesTypeOK
  <2>3. MetersHeld' /\ TxHeld' /\ LogsHeld' /\ EventsHeld'
    BY <1>1, <1>2, <2>1 DEF GatesInv, MetersHeld, TxHeld, LogsHeld, EventsHeld
  <2>4. MetersCount'
    BY <1>1, <1>6, <2>1 DEF GatesInv, MetersCount
  <2>5. OneService'
    BY <1>1, <2>1 DEF GatesInv, OneService
  <2> QED BY <2>1, <2>2, <2>3, <2>4, <2>5 DEF GatesInv
<1>5. CASE Resets(e.entry.kind)
  <2>1. meter'[g] = Adopted(m, e)
    BY <1>1, <1>5 DEF GatesInv, MetersHeld, m
  <2>2. /\ meter'[g] \in Meter
        /\ meter'[g].opens = m.opens /\ meter'[g].closes = m.closes
        /\ meter'[g].movement = m.movement /\ meter'[g].lastOp = m.lastOp
        /\ meter'[g].serviced = e.entry.performed /\ meter'[g].baseline = e.reading
        /\ meter'[g].dueAt = e.entry.dueAt /\ meter'[g].dueOn = e.entry.dueOn
    BY <1>1, <2>1, MeterAdopts
  <2>3. row \in events' \ events /\ row.gate = g /\ row.entry.kind # "inspection"
    BY <1>1, <1>2, <1>5 DEF Resets
  <2>4. GatesTypeOK'
    BY <1>1, <1>2, <1>3, <2>2 DEF GatesInv, GatesTypeOK
  <2>5. TxHeld'
    <3>1. \A h \in gates : meter'[h].movement = meter[h].movement
      BY <1>3, <2>2 DEF GatesInv, GatesTypeOK, m
    <3> QED BY <1>1, <3>1 DEF GatesInv, TxHeld
  <2>6. MetersHeld' /\ LogsHeld' /\ EventsHeld'
    BY <1>1, <1>2, <1>3 DEF GatesInv, MetersHeld, LogsHeld, EventsHeld
  <2>7. MetersCount'
    <3>1. \A h \in gates : /\ meter'[h].opens = meter[h].opens /\ meter'[h].closes = meter[h].closes
                            /\ meter'[h].movement = meter[h].movement /\ meter'[h].lastOp = meter[h].lastOp
      BY <1>3, <2>2 DEF GatesInv, GatesTypeOK, m
    <3> QED BY <1>1, <1>6, <3>1 DEF GatesInv, MetersCount
  <2>8. OneService'
    <3>1. \A h \in gates : h # g => meter'[h] = meter[h]
      BY <1>3 DEF GatesInv, GatesTypeOK
    <3>2. meter'[g].baseline <= meter'[g].movement
      BY <1>1, <2>2
    <3> QED BY <1>1, <1>2, <2>2, <2>3, <3>1, <3>2 DEF GatesInv, OneService
  <2> QED BY <1>1, <1>3, <2>3, <2>4, <2>5, <2>6, <2>7, <2>8 DEF GatesInv, GatesTypeOK
<1> QED BY <1>4, <1>5

(* With the placed go all gateRows; a command still under way will fail.      *)
LEMMA DropKeeps == ASSUME GatesInv, DropLocation PROVE GatesInv'
<1> USE GatesAssumption, ClockAssumption
<1>1. /\ \A r \in Txn : tx[r].op \notin {"create", "event"}
      /\ gates' = {} /\ logs' = {} /\ events' = {} /\ meter' = [g \in Gate |-> NoMeter]
      /\ UNCHANGED <<now, begun, tx>>
  BY DEF DropLocation, GatesUnlocked, Working
<1>2. GatesTypeOK'
  BY <1>1 DEF GatesInv, GatesTypeOK
<1>3. TxHeld'
  BY <1>1 DEF GatesInv, TxHeld
<1>4. LogsHeld' /\ EventsHeld' /\ MetersHeld'
  BY <1>1, FS_EmptySet DEF LogsHeld, EventsHeld, MetersHeld
<1>5. MetersCount' /\ OneService'
  BY <1>1 DEF MetersCount, OneService
<1> QED BY <1>2, <1>3, <1>4, <1>5 DEF GatesInv

LEMMA TickKeeps == ASSUME GatesInv, GatesTick PROVE GatesInv'
<1> USE GatesAssumption, ClockAssumption
<1>1. UNCHANGED <<gateRows, begun, tx>> /\ now' \in Time /\ now' >= now /\ now \in Nat /\ now' = now + 1
  BY DEF GatesTick, GatesInv, GatesTypeOK, Time
<1>2. GatesTypeOK' /\ MetersCount' /\ OneService'
  BY <1>1, RowsStay
<1>3. TxHeld' /\ MetersHeld'
  BY <1>1 DEF GatesInv, TxHeld, MetersHeld, gateRows
<1>4. LogsHeld' /\ EventsHeld'
  BY <1>1 DEF GatesInv, LogsHeld, EventsHeld, gateRows
<1> QED BY <1>2, <1>3, <1>4 DEF GatesInv

LEMMA GatesStep == GatesInv /\ [GatesNext]_gateVars => GatesInv'
<1> SUFFICES ASSUME GatesInv, [GatesNext]_gateVars PROVE GatesInv'
  OBVIOUS
<1> USE DEF Commands
<1>1. CASE UNCHANGED gateVars
  <2>1. UNCHANGED <<gateRows, now, begun, tx>>
    BY <1>1 DEF gateVars, gateRows
  <2>2. GatesTypeOK' /\ MetersCount' /\ OneService'
    BY <2>1, RowsStay DEF GatesInv, GatesTypeOK, Time
  <2>3. TxHeld' /\ MetersHeld' /\ LogsHeld' /\ EventsHeld'
    BY <2>1 DEF GatesInv, TxHeld, MetersHeld, LogsHeld, EventsHeld, gateRows
  <2> QED BY <2>2, <2>3 DEF GatesInv
<1>2. ASSUME NEW r \in Txn, NEW g \in Gate,
             \/ GateBegin(r, g)
             \/ \E command \in {"open", "close"} : LogBegin(r, g, command)
             \/ \E entry \in Entry : EventBegin(r, g, entry)
      PROVE  GatesInv'
  BY <1>2, BeginsKeep
<1>3. ASSUME NEW r \in Txn, GateCommit(r) \/ LogCommit(r) \/ EventCommit(r) PROVE GatesInv'
  BY <1>3, CreateKeeps, LogKeeps, EventKeeps
<1>4. ASSUME NEW r \in Txn, AbortTx(r) PROVE GatesInv'
  <2>1. \A g \in Gate : GatesInv'
    BY <1>4, BeginsKeep
  <2>2. CASE Gate = {}
    <3>1. tx[r].op = "idle" \/ tx[r].gate \in Gate
      BY DEF GatesInv, TxHeld, GatesTypeOK
    <3> QED BY <1>4, <2>2, <3>1 DEF AbortTx
  <2> QED BY <2>1, <2>2
<1> QED BY <1>1, <1>2, <1>3, <1>4, DropKeeps, TickKeeps DEF GatesNext

-----------------------------------------------------------------------------
(* For any gates and requests: there is a meter for exactly the gates of    *)
(* the location, and logs and entries speak of gates that are there.        *)
THEOREM GatesTypeCorrect == GatesSpec => []GatesTypeOK
<1>1. GatesInv => GatesTypeOK
  BY DEF GatesInv
<1> QED BY GatesInitially, GatesStep, <1>1, PTL DEF GatesSpec

(* For any number of overlapping commands and entries, a meter counts the   *)
(* commands of its gate and shows one service of the log with all that was  *)
(* entered with it.                                                         *)
THEOREM MetersAreTrue == GatesSpec => []MetersAgree
<1>1. GatesInv => MetersAgree
  BY DEF GatesInv, MetersAgree
<1> QED BY GatesInitially, GatesStep, <1>1, PTL DEF GatesSpec

(* What is due stays so while its thresholds stay, whatever time or the     *)
(* meter do.                                                                *)
LEMMA DueWhileUnserviced ==
    ASSUME GatesAssumption, ClockAssumption,
           NEW m \in Meter, NEW n \in Meter, NEW s \in Nat, NEW t \in Nat, t >= s,
           n.dueAt = m.dueAt, n.dueOn = m.dueOn, n.movement >= m.movement,
           (m.dueOn # Null /\ m.dueOn <= s) \/ MovementLeft(m) = 0
    PROVE  (n.dueOn # Null /\ n.dueOn <= t) \/ MovementLeft(n) = 0
<1>1. /\ m.movement \in Nat /\ n.movement \in Nat /\ m.dueAt \in NatOrNull /\ m.dueOn \in NatOrNull
      /\ Null \notin Nat
  BY DEF Meter, GatesAssumption, ClockAssumption
<1>2. CASE m.dueOn # Null /\ m.dueOn <= s
  BY <1>1, <1>2 DEF NatOrNull
<1>3. CASE MovementLeft(m) = 0
  <2>1. m.dueAt \in Nat /\ m.dueAt <= m.movement
    BY <1>1, <1>3 DEF MovementLeft, NatOrNull
  <2>2. n.dueAt # Null /\ ~(n.dueAt > n.movement)
    BY <1>1, <2>1
  <2> QED BY <2>2 DEF MovementLeft
<1> QED BY <1>2, <1>3

(* For any gates and requests, a gate that is due stays due until something *)
(* other than an inspection is entered for it.                              *)
THEOREM DueStays == GatesSpec => DueUntilServiced
<1> DEFINE Stays == \A g \in gates \cap gates' :
                      DueNow(meter[g]) => \/ DueNow(meter[g])'
                                          \/ \E e \in events' \ events : e.gate = g /\ e.entry.kind # "inspection"
<1>1. GatesInv /\ GatesInv' /\ [GatesNext]_gateVars => [Stays]_gateVars
  <2> SUFFICES ASSUME GatesInv, GatesInv', GatesNext, NEW g \in gates, g \in gates', DueNow(meter[g])
               PROVE  \/ DueNow(meter[g])'
                      \/ \E e \in events' \ events : e.gate = g /\ e.entry.kind # "inspection"
    OBVIOUS
  <2> USE GatesAssumption, ClockAssumption
  <2>1. /\ meter[g] \in Meter /\ meter'[g] \in Meter /\ g \in Gate
        /\ now \in Nat /\ now' \in Nat /\ meter[g].movement \in Nat
    BY DEF GatesInv, GatesTypeOK, Time, Meter
  <2>2. ASSUME now' >= now, meter'[g].dueAt = meter[g].dueAt, meter'[g].dueOn = meter[g].dueOn,
               meter'[g].movement >= meter[g].movement
        PROVE  DueNow(meter[g])'
    <3>1. (meter[g].dueOn # Null /\ meter[g].dueOn <= now) \/ MovementLeft(meter[g]) = 0
      BY DEF DueNow
    <3>2. (meter'[g].dueOn # Null /\ meter'[g].dueOn <= now') \/ MovementLeft(meter'[g]) = 0
      BY <2>1, <2>2, <3>1, DueWhileUnserviced
    <3> QED BY <3>2 DEF DueNow, MovementLeft
  <2>3. ASSUME now' >= now, meter'[g] = meter[g] PROVE DueNow(meter[g])'
    BY <2>1, <2>2, <2>3
  <2>4. ASSUME NEW r \in Txn, NEW h \in Gate,
               \/ GateBegin(r, h)
               \/ \E command \in {"open", "close"} : LogBegin(r, h, command)
               \/ \E entry \in Entry : EventBegin(r, h, entry)
        PROVE  DueNow(meter[g])'
    <3>1. UNCHANGED gateRows /\ now' = now
      BY <2>4 DEF GateBegin, LogBegin, EventBegin
    <3>2. now' >= now /\ meter'[g] = meter[g]
      BY <2>1, <3>1 DEF gateRows
    <3> QED BY <2>3, <3>2
  <2>5. ASSUME NEW r \in Txn, GateCommit(r) PROVE DueNow(meter[g])'
    <3>1. tx[r].gate # g /\ now' = now
      BY <2>5 DEF GatesInv, TxHeld, GateCommit
    <3>2. meter'[g] = meter[g]
      BY <2>1, <2>5, <3>1 DEF GatesInv, MetersHeld, GateCommit
    <3> QED BY <2>1, <2>3, <3>1, <3>2
  <2>6. ASSUME NEW r \in Txn, LogCommit(r) PROVE DueNow(meter[g])'
    <3>1. now' = now /\ tx[r].command \in Commands /\ tx[r].ts \in Nat
      BY <2>1, <2>6 DEF LogCommit, GatesInv, TxHeld
    <3>2. CASE tx[r].gate = g
      <4>1. meter'[g] = Advanced(meter[g], tx[r].command, tx[r].ts)
        BY <2>1, <2>6, <3>2 DEF LogCommit, GatesInv, MetersHeld
      <4>2. meter[g].movement = PerOp * (meter[g].opens + meter[g].closes)
        BY DEF GatesInv, MetersCount
      <4>3. /\ meter'[g].movement >= meter[g].movement
            /\ meter'[g].dueAt = meter[g].dueAt /\ meter'[g].dueOn = meter[g].dueOn
        BY <2>1, <3>1, <4>1, <4>2, MeterAdvances
      <4> QED BY <2>1, <2>2, <3>1, <4>3
    <3>3. CASE tx[r].gate # g
      <4>1. meter'[g] = meter[g]
        BY <2>1, <2>6, <3>3 DEF LogCommit, GatesInv, MetersHeld
      <4> QED BY <2>1, <2>3, <3>1, <4>1
    <3> QED BY <3>2, <3>3
  <2>7. ASSUME NEW r \in Txn, EventCommit(r)
        PROVE  \/ DueNow(meter[g])'
               \/ \E e \in events' \ events : e.gate = g /\ e.entry.kind # "inspection"
    <3>1. now' = now
      BY <2>7 DEF EventCommit
    <3>2. \/ meter'[g] = meter[g]
          \/ \E e \in events' \ events : e.gate = g /\ e.entry.kind # "inspection"
      BY <2>7, EventKeeps
    <3> QED BY <2>1, <2>3, <3>1, <3>2
  <2>8. ASSUME NEW r \in Txn, AbortTx(r) PROVE DueNow(meter[g])'
    BY <2>1, <2>3, <2>8 DEF AbortTx, gateRows
  <2>9. ~DropLocation
    BY DEF DropLocation
  <2>10. CASE GatesTick
    <3>1. meter' = meter /\ now' = now + 1
      BY <2>10 DEF GatesTick, gateRows
    <3>2. now' >= now /\ meter'[g] = meter[g]
      BY <2>1, <3>1
    <3> QED BY <2>3, <3>2
  <2> QED BY <2>4, <2>5, <2>6, <2>7, <2>8, <2>9, <2>10 DEF GatesNext
<1> QED BY <1>1, GatesInitially, GatesStep, PTL DEF GatesSpec, DueUntilServiced

-----------------------------------------------------------------------------
(***************************************************************************)
(* GrantWindows.  A use that may yet be given back is among those that     *)
(* are counted, and a grant is used within its window.                     *)
(***************************************************************************)

(* A call has a time of the clock, and one that has taken a use took it of *)
(* a grant that is there.                                                  *)
CallsRight ==
    \A c \in Call :
        /\ call[c].op \in {"idle", "asked", "found", "taken"}
        /\ call[c].op \in {"asked", "found"} => call[c].ts \in Time
        /\ call[c].op = "taken" => call[c].grant \in Made

(* A grant is used within its window and its number of uses, and counts     *)
(* those that may yet be given back.                                        *)
UsesRight ==
    \A g \in Made :
        LET row == grant[g] IN
        /\ row.max # Null => row.uses <= row.max
        /\ row.last # Null => row.starts <= row.last /\ row.last < row.ends
        /\ Cardinality(Holders(g)) <= row.uses

WindowsInv ==
    /\ grant \in [Grant -> GrantRow \cup {NoGrant}]
    /\ DOMAIN call = Call
    /\ now \in Time
    /\ CallsRight
    /\ UsesRight

LEMMA WindowsInitially == GrantsInit => WindowsInv
<1> SUFFICES ASSUME GrantsInit PROVE WindowsInv
  OBVIOUS
<1>1. Made = {}
  BY DEF GrantsInit, Made, NoGrant
<1>2. now \in Time
  BY ClockAssumption DEF GrantsInit, Time
<1> QED BY <1>1, <1>2 DEF GrantsInit, WindowsInv, CallsRight, UsesRight, NoGrant, NoCall

(* A grant that has been made has a row, and the holders of it are finite. *)
LEMMA MadeRow ==
    ASSUME WindowsInv
    PROVE  /\ \A g \in Made : grant[g] \in GrantRow
           /\ \A g \in Grant \ Made : grant[g] = NoGrant
<1>1. \A g \in Grant : grant[g] \in GrantRow \/ grant[g] = NoGrant
  BY DEF WindowsInv
<1>2. NoGrant.status = "none" /\ \A row \in GrantRow : row.status # "none"
  BY DEF NoGrant, GrantRow
<1> QED BY <1>1, <1>2 DEF Made

LEMMA HoldersFinite == \A g : IsFiniteSet(Holders(g)) /\ Cardinality(Holders(g)) \in Nat
<1> SUFFICES ASSUME NEW g PROVE IsFiniteSet(Holders(g)) /\ Cardinality(Holders(g)) \in Nat
  OBVIOUS
<1>1. Holders(g) \subseteq Call /\ IsFiniteSet(Call)
  BY GrantsAssumption DEF Holders, GrantsAssumption
<1>2. IsFiniteSet(Holders(g))
  BY <1>1, FS_Subset
<1> QED BY <1>2, FS_CardinalityType

(* Counting a use, or giving one back, with the call that has it in hand.  *)
LEMMA WindowsStep ==
    ASSUME WindowsInv, [GrantsNext]_windowVars
    PROVE  WindowsInv'
<1> USE DEF WindowsInv
<1>0. /\ Null \notin Nat /\ Time \subseteq Nat
      /\ \A m \in Uses : m \in Nat \ {0} /\ m # Null
  BY ClockAssumption, GrantsAssumption DEF ClockAssumption, GrantsAssumption, Time
<1>r. /\ \A g \in Made : grant[g] \in GrantRow
      /\ \A g \in Grant \ Made : grant[g] = NoGrant
  BY MadeRow
(* A step that leaves the rows alone and gives no call a grant.            *)
<1>1. ASSUME UNCHANGED grant, DOMAIN call' = Call, now' \in Time, CallsRight',
             \A c \in Call : call'[c].op = "taken" => call[c].op = "taken" /\ call'[c].grant = call[c].grant
      PROVE  WindowsInv'
  <2>1. Made' = Made
    BY <1>1 DEF Made
  <2>2. ASSUME NEW g \in Made PROVE Cardinality(Holders(g)') <= Cardinality(Holders(g))
    <3>1. Holders(g)' \subseteq Holders(g)
      BY <1>1 DEF Holders
    <3> QED BY <3>1, HoldersFinite, FS_Subset
  <2>3. \A g \in Made : Cardinality(Holders(g)) \in Nat /\ Cardinality(Holders(g)') \in Nat
    <3>1. ASSUME NEW g \in Made PROVE Cardinality(Holders(g)') \in Nat
      <4>1. Holders(g)' \subseteq Holders(g)
        BY <1>1 DEF Holders
      <4>2. IsFiniteSet(Holders(g)')
        BY <4>1, HoldersFinite, FS_Subset
      <4> QED BY <4>2, FS_CardinalityType
    <3> QED BY <3>1, HoldersFinite
  <2>4. \A g \in Made : grant[g].uses \in Nat
    BY <1>r DEF GrantRow
  <2>5. UsesRight'
    BY <1>1, <2>1, <2>2, <2>3, <2>4 DEF UsesRight
  <2> QED BY <1>1, <2>5
<1>2. ASSUME NEW g \in Grant, Revoke(g) PROVE WindowsInv'
  <2>1. g \in Made /\ grant[g] \in GrantRow /\ grant[g].status = "active"
    BY <1>2, <1>r DEF Revoke, NoGrant
  <2>2. PICK row : row = [grant[g] EXCEPT !.status = "revoked"]
    OBVIOUS
  <2>3. row \in GrantRow /\ row.uses = grant[g].uses /\ row.max = grant[g].max /\ row.last = grant[g].last
        /\ row.starts = grant[g].starts /\ row.ends = grant[g].ends /\ row.status = "revoked"
    BY <2>1, <2>2 DEF GrantRow
  <2>4. grant' = [grant EXCEPT ![g] = row] /\ UNCHANGED <<now, call>>
    BY <1>2, <2>2 DEF Revoke
  <2>5. Made' = Made
    BY <2>1, <2>3, <2>4 DEF Made
  <2>6. \A h : Holders(h)' = Holders(h)
    BY <2>4 DEF Holders
  <2>7. CallsRight'
    BY <2>4, <2>5 DEF CallsRight
  <2>8. ASSUME NEW h \in Made
        PROVE  /\ grant'[h].max # Null => grant'[h].uses <= grant'[h].max
               /\ grant'[h].last # Null => grant'[h].starts <= grant'[h].last /\ grant'[h].last < grant'[h].ends
               /\ Cardinality(Holders(h)) <= grant'[h].uses
    <3>1. IF h = g THEN grant'[h] = row ELSE grant'[h] = grant[h]
      BY <2>4 DEF Made
    <3> QED BY <3>1, <2>3 DEF UsesRight
  <2>9. UsesRight'
    BY <2>5, <2>6, <2>8 DEF UsesRight
  <2>10. grant' \in [Grant -> GrantRow \cup {NoGrant}]
    BY <2>3, <2>4
  <2> QED BY <2>4, <2>7, <2>9, <2>10
<1>3. ASSUME NEW g \in Grant, NEW from \in Time, NEW until \in Time, NEW most \in Uses \cup {Null},
             GrantAccess(g, from, until, most)
      PROVE  WindowsInv'
  <2>1. PICK row : row = [starts |-> from, ends |-> until, max |-> most, uses |-> 0,
                          status |-> "active", last |-> Null]
    OBVIOUS
  <2>2. row \in GrantRow /\ row.uses = 0 /\ row.max = most /\ row.last = Null /\ row.status = "active"
    BY <2>1 DEF GrantRow
  <2>3. g \notin Made /\ grant' = [grant EXCEPT ![g] = row] /\ UNCHANGED <<now, call>>
    BY <1>3, <2>1 DEF GrantAccess
  <2>4. Made' = Made \cup {g}
    BY <2>2, <2>3 DEF Made
  <2>5. Holders(g) = {} /\ \A h : Holders(h)' = Holders(h)
    BY <2>3 DEF Holders, CallsRight
  <2>6. Cardinality(Holders(g)) = 0
    BY <2>5, FS_EmptySet
  <2>7. CallsRight'
    BY <2>3, <2>4 DEF CallsRight
  <2>8. ASSUME NEW h \in Made'
        PROVE  /\ grant'[h].max # Null => grant'[h].uses <= grant'[h].max
               /\ grant'[h].last # Null => grant'[h].starts <= grant'[h].last /\ grant'[h].last < grant'[h].ends
               /\ Cardinality(Holders(h)) <= grant'[h].uses
    <3>1. CASE h = g
      <4>1. grant'[h] = row
        BY <3>1, <2>3
      <4> QED BY <4>1, <3>1, <2>2, <2>6, <1>0
    <3>2. CASE h # g
      <4>1. grant'[h] = grant[h] /\ h \in Made
        BY <3>2, <2>3, <2>4, <2>8 DEF Made
      <4> QED BY <4>1 DEF UsesRight
    <3> QED BY <3>1, <3>2
  <2>9. UsesRight'
    BY <2>5, <2>8 DEF UsesRight
  <2>10. grant' \in [Grant -> GrantRow \cup {NoGrant}]
    BY <2>2, <2>3
  <2> QED BY <2>3, <2>7, <2>9, <2>10
<1>4. ASSUME NEW c \in Call, Ask(c) \/ Find(c) \/ Refuse(c) \/ Settle(c) PROVE WindowsInv'
  <2>1. UNCHANGED <<grant, now>> /\ Made' = Made /\ DOMAIN call' = Call
    BY <1>4 DEF Ask, Find, Refuse, Settle, Made
  <2>2. /\ call'[c].op \in {"idle", "asked", "found"}
        /\ call'[c].op \in {"asked", "found"} => call'[c].ts \in Time
    BY <1>4 DEF Ask, Find, Refuse, Settle, NoCall, CallsRight
  <2>3. \A d \in Call \ {c} : call'[d] = call[d]
    BY <1>4 DEF Ask, Find, Refuse, Settle
  <2>4. CallsRight'
    BY <2>1, <2>2, <2>3 DEF CallsRight
  <2> QED BY <1>1, <2>1, <2>2, <2>3, <2>4
<1>5. CASE GrantsTick
  <2>1. UNCHANGED <<grant, call>> /\ Made' = Made
    BY <1>5 DEF GrantsTick, Made
  <2>2. now' \in Time
    BY <1>5, ClockAssumption DEF GrantsTick, Time, ClockAssumption
  <2> QED BY <1>1, <2>1, <2>2 DEF CallsRight
<1>6. ASSUME NEW c \in Call, NEW g \in Made, Skip(c, g) PROVE WindowsInv'
  <2>1. UNCHANGED <<grant, now>> /\ Made' = Made /\ DOMAIN call' = Call
    BY <1>6 DEF Skip, Made
  <2>2. call'[c] = [call[c] EXCEPT !.left = @ \ {g}] /\ call[c].op = "found"
    BY <1>6 DEF Skip
  <2>3. call'[c].op = "found" /\ call'[c].ts \in Time
    BY <2>2 DEF CallsRight
  <2>4. \A d \in Call \ {c} : call'[d] = call[d]
    BY <1>6 DEF Skip
  <2>5. CallsRight'
    BY <2>1, <2>3, <2>4 DEF CallsRight
  <2> QED BY <1>1, <2>1, <2>3, <2>4, <2>5
<1>7. ASSUME NEW c \in Call, NEW g \in Made, Consume(c, g) PROVE WindowsInv'
  <2>1. g \in Grant /\ grant[g] \in GrantRow
    BY <1>r DEF Made
  <2>2. PICK t : t = call[c].ts
    OBVIOUS
  <2>3. t \in Time /\ Consumable(g, t) /\ call[c].op = "found"
    BY <1>7, <2>2 DEF Consume, CallsRight
  <2>4. PICK row : row = [grant[g] EXCEPT !.uses = @ + 1, !.last = t]
    OBVIOUS
  <2>5. row \in GrantRow /\ row.uses = grant[g].uses + 1 /\ row.max = grant[g].max /\ row.last = t
        /\ row.starts = grant[g].starts /\ row.ends = grant[g].ends /\ row.status = grant[g].status
    <3>1. grant[g].uses \in Nat /\ grant[g].uses + 1 \in Nat /\ t \in Time \cup {Null}
      BY <2>1, <2>3 DEF GrantRow
    <3>2. row = [grant[g] EXCEPT !.uses = grant[g].uses + 1, !.last = t]
      BY <2>4
    <3> HIDE DEF Consumable
    <3> QED BY <2>1, <3>1, <3>2 DEF GrantRow
  <2>6. grant' = [grant EXCEPT ![g] = row] /\ now' = now /\ call' = [call EXCEPT ![c] = [op |-> "taken", grant |-> g]]
    BY <1>7, <2>2, <2>4 DEF Consume
  <2>7. Made' = Made
    BY <2>1, <2>5, <2>6 DEF Made
  <2>8. CallsRight'
    BY <2>6, <2>7 DEF CallsRight
  <2>9. Holders(g)' = Holders(g) \cup {c} /\ \A h \in Made \ {g} : Holders(h)' = Holders(h)
    BY <2>3, <2>6 DEF Holders
  <2>10. Cardinality(Holders(g)') <= Cardinality(Holders(g)) + 1
    <3>1. Cardinality(Holders(g) \cup {c}) = Cardinality(Holders(g)) \/ Cardinality(Holders(g) \cup {c}) = Cardinality(Holders(g)) + 1
      BY HoldersFinite, FS_AddElement
    <3> QED BY <3>1, <2>9, HoldersFinite
  <2>11. Cardinality(Holders(g)) \in Nat /\ Cardinality(Holders(g)') \in Nat
    <3>1. IsFiniteSet(Holders(g) \cup {c})
      BY HoldersFinite, FS_AddElement
    <3>2. Cardinality(Holders(g)') \in Nat
      BY <3>1, <2>9, FS_CardinalityType
    <3> QED BY <3>2, HoldersFinite
  <2>12. ASSUME NEW h \in Made
         PROVE  /\ grant'[h].max # Null => grant'[h].uses <= grant'[h].max
                /\ grant'[h].last # Null => grant'[h].starts <= grant'[h].last /\ grant'[h].last < grant'[h].ends
                /\ Cardinality(Holders(h)') <= grant'[h].uses
    <3>1. CASE h = g
      <4>1. grant'[h] = row
        BY <3>1, <2>1, <2>6
      <4>2. grant[g].uses \in Nat /\ grant[g].max \in Uses \cup {Null} /\ Cardinality(Holders(g)) <= grant[g].uses
        BY <2>1 DEF GrantRow, UsesRight
      <4>3. row.max # Null => row.uses <= row.max
        BY <1>0, <2>3, <2>5, <4>2 DEF Consumable, UsesLeft
      <4>4. row.starts <= row.last /\ row.last < row.ends
        <5>1. grant[g].starts \in Nat /\ grant[g].ends \in Nat /\ t \in Nat
          BY <1>0, <2>1, <2>3 DEF GrantRow
        <5> QED BY <5>1, <2>3, <2>5 DEF Consumable
      <4>5. Cardinality(Holders(g)') <= row.uses
        BY <2>5, <2>10, <2>11, <4>2
      <4> QED BY <3>1, <4>1, <4>3, <4>4, <4>5
    <3>2. CASE h # g
      <4>1. grant'[h] = grant[h] /\ Holders(h)' = Holders(h)
        BY <3>2, <2>6, <2>9 DEF Made
      <4> QED BY <4>1 DEF UsesRight
    <3> QED BY <3>1, <3>2
  <2>13. UsesRight'
    BY <2>7, <2>12 DEF UsesRight
  <2>14. grant' \in [Grant -> GrantRow \cup {NoGrant}] /\ DOMAIN call' = Call
    BY <2>5, <2>6
  <2> QED BY <2>6, <2>8, <2>13, <2>14
<1>8. ASSUME NEW c \in Call, Refund(c) PROVE WindowsInv'
  <2>1. PICK g : g = call[c].grant
    OBVIOUS
  <2>2. g \in Made /\ g \in Grant /\ grant[g] \in GrantRow /\ call[c].op = "taken"
    BY <1>8, <2>1, <1>r DEF Refund, CallsRight, Made
  <2>3. PICK row : row = Refunded(grant[g])
    OBVIOUS
  <2>4. c \in Holders(g)
    BY <2>1, <2>2 DEF Holders
  <2>5. grant[g].uses \in Nat /\ grant[g].max \in Uses \cup {Null} /\ Cardinality(Holders(g)) <= grant[g].uses
    BY <2>2 DEF GrantRow, UsesRight
  <2>6. Cardinality(Holders(g) \ {c}) = Cardinality(Holders(g)) - 1
    BY <2>4, HoldersFinite, FS_RemoveElement
  <2>7. Cardinality(Holders(g)) \in Nat \ {0}
    <3>1. Holders(g) # {}
      BY <2>4
    <3> QED BY <3>1, HoldersFinite, FS_EmptySet
  <2>8. row \in GrantRow /\ row.uses = grant[g].uses - 1 /\ row.max = grant[g].max /\ row.last = grant[g].last
        /\ row.starts = grant[g].starts /\ row.ends = grant[g].ends /\ row.status = grant[g].status
    <3>1. grant[g].uses > 0
      BY <2>5, <2>7
    <3>2. row = [grant[g] EXCEPT !.uses = grant[g].uses - 1]
      BY <2>3, <3>1 DEF Refunded
    <3>3. grant[g].uses - 1 \in Nat
      BY <2>5, <3>1
    <3> QED BY <2>2, <3>2, <3>3 DEF GrantRow
  <2>9. grant' = [grant EXCEPT ![g] = row] /\ now' = now /\ call' = [call EXCEPT ![c] = NoCall]
    BY <1>8, <2>1, <2>3 DEF Refund
  <2>10. Made' = Made
    BY <2>2, <2>8, <2>9 DEF Made
  <2>11. CallsRight'
    BY <2>9, <2>10 DEF CallsRight, NoCall
  <2>12. Holders(g)' = Holders(g) \ {c} /\ \A h \in Made \ {g} : Holders(h)' = Holders(h)
    BY <2>1, <2>9 DEF Holders, NoCall
  <2>13. ASSUME NEW h \in Made
         PROVE  /\ grant'[h].max # Null => grant'[h].uses <= grant'[h].max
                /\ grant'[h].last # Null => grant'[h].starts <= grant'[h].last /\ grant'[h].last < grant'[h].ends
                /\ Cardinality(Holders(h)') <= grant'[h].uses
    <3>1. CASE h = g
      <4>1. grant'[h] = row
        BY <3>1, <2>2, <2>9
      <4>2. row.max # Null => row.uses <= row.max
        BY <1>0, <2>2, <2>5, <2>8 DEF UsesRight
      <4>3. row.last # Null => row.starts <= row.last /\ row.last < row.ends
        BY <2>2, <2>8 DEF UsesRight
      <4>4. Cardinality(Holders(g)') <= row.uses
        BY <2>5, <2>6, <2>7, <2>8, <2>12
      <4> QED BY <3>1, <4>1, <4>2, <4>3, <4>4
    <3>2. CASE h # g
      <4>1. grant'[h] = grant[h] /\ Holders(h)' = Holders(h)
        BY <3>2, <2>9, <2>12 DEF Made
      <4> QED BY <4>1 DEF UsesRight
    <3> QED BY <3>1, <3>2
  <2>14. UsesRight'
    BY <2>10, <2>13 DEF UsesRight
  <2>15. grant' \in [Grant -> GrantRow \cup {NoGrant}] /\ DOMAIN call' = Call
    BY <2>8, <2>9
  <2> QED BY <2>9, <2>11, <2>14, <2>15
<1>9. CASE UNCHANGED windowVars
  <2>1. UNCHANGED <<grant, now, call>> /\ Made' = Made
    BY <1>9 DEF windowVars, Made
  <2> QED BY <1>1, <2>1 DEF CallsRight
<1> QED BY <1>2, <1>3, <1>4, <1>5, <1>6, <1>7, <1>8, <1>9 DEF GrantsNext

(* What the account sees, what the visitor is offered and what would be    *)
(* counted are one condition.                                              *)
LEMMA ShownIsUsed == WindowsInv => UsedAsShown
<1> SUFFICES ASSUME WindowsInv PROVE UsedAsShown
  OBVIOUS
<1>1. ASSUME NEW g \in Made
      PROVE  /\ (Shown(g) = "active") = Offered(g)
             /\ (Shown(g) = "active") = Consumable(g, now)
  <2>1. grant[g] \in GrantRow
    BY MadeRow
  <2>2. /\ grant[g].status \in {"active", "revoked"}
        /\ grant[g].starts \in Nat /\ grant[g].ends \in Nat /\ now \in Nat
    BY <2>1, ClockAssumption DEF GrantRow, Time, WindowsInv, ClockAssumption
  <2>3. Shown(g) = "active" <=> grant[g].status = "active" /\ UsesLeft(grant[g]) /\ grant[g].starts <= now /\ grant[g].ends > now
    BY <2>2 DEF Shown, EffectiveStatus
  <2> QED BY <2>3 DEF Offered, Consumable
<1> QED BY <1>1 DEF UsedAsShown, WindowsInv, UsesRight

(* An expired or revoked grant never comes back: its window stays behind   *)
(* the clock, and a use that is given back does not make it active.        *)
LEMMA OverStays ==
    ASSUME WindowsInv, [GrantsNext]_windowVars, NEW g \in Made, Shown(g) \in {"expired", "revoked"}
    PROVE  Shown(g)' \notin {"pending", "active"}
<1>1. grant[g] \in GrantRow /\ g \in Grant
  BY MadeRow DEF Made
<1>2. now \in Nat /\ now' \in Nat /\ now <= now'
  <2>1. now \in Nat
    BY ClockAssumption DEF WindowsInv, Time, ClockAssumption
  <2>2. now' = now \/ now' = now + 1
    BY DEF GrantsNext, windowVars, Revoke, GrantAccess, Ask, Find, Refuse, Refund, Settle, Consume, Skip,
       GrantsTick
  <2> QED BY <2>1, <2>2
<1> DEFINE Kept == /\ grant'[g].starts = grant[g].starts /\ grant'[g].ends = grant[g].ends
                   /\ grant[g].status = "revoked" => grant'[g].status = "revoked"
<1>3. Kept
  <2>1. CASE grant'[g] = grant[g]
    BY <2>1
  <2>2. ASSUME NEW h \in Grant, Revoke(h) PROVE Kept
    <3>1. grant' = [grant EXCEPT ![h] = [grant[h] EXCEPT !.status = "revoked"]]
      BY <2>2 DEF Revoke
    <3>2. g # h => grant'[g] = grant[g]
      BY <3>1, <1>1 DEF WindowsInv
    <3>3. g = h => grant'[g] = [grant[g] EXCEPT !.status = "revoked"]
      BY <3>1, <1>1 DEF WindowsInv
    <3> QED BY <3>2, <3>3, <1>1 DEF GrantRow
  <2>3. ASSUME NEW h \in Grant, NEW from \in Time, NEW until \in Time, NEW most \in Uses \cup {Null},
               GrantAccess(h, from, until, most)
        PROVE  grant'[g] = grant[g]
    <3>1. h # g
      BY <2>3 DEF GrantAccess
    <3> QED BY <2>3, <3>1, <1>1 DEF GrantAccess, WindowsInv
  <2>4. ASSUME NEW c \in Call, NEW h \in Made, Consume(c, h) PROVE Kept
    <3>1. PICK t : grant' = [grant EXCEPT ![h] = [grant[h] EXCEPT !.uses = @ + 1, !.last = t]]
      BY <2>4 DEF Consume
    <3>2. g # h => grant'[g] = grant[g]
      BY <3>1, <1>1 DEF WindowsInv
    <3>3. g = h => grant'[g] = [grant[g] EXCEPT !.uses = @ + 1, !.last = t]
      BY <3>1, <1>1 DEF WindowsInv
    <3> QED BY <3>2, <3>3, <1>1 DEF GrantRow
  <2>5. ASSUME NEW c \in Call, Refund(c) PROVE Kept
    <3>1. PICK h : h = call[c].grant
      OBVIOUS
    <3>2. grant' = [grant EXCEPT ![h] = Refunded(grant[h])]
      BY <2>5, <3>1 DEF Refund
    <3>3. g # h => grant'[g] = grant[g]
      BY <3>2, <1>1 DEF WindowsInv
    <3>4. g = h => grant'[g] = Refunded(grant[g])
      BY <3>2, <1>1 DEF WindowsInv
    <3> QED BY <3>3, <3>4, <1>1 DEF GrantRow, Refunded
  <2>6. ASSUME \/ GrantsTick \/ UNCHANGED windowVars
               \/ \E c \in Call : Ask(c) \/ Find(c) \/ Refuse(c) \/ Settle(c)
               \/ \E c \in Call, h \in Made : Skip(c, h)
        PROVE  grant'[g] = grant[g]
    BY <2>6 DEF GrantsTick, windowVars, Ask, Find, Refuse, Settle, Skip
  <2> HIDE DEF Kept
  <2> QED BY <2>1, <2>2, <2>3, <2>4, <2>5, <2>6 DEF GrantsNext
<1>4. grant[g].starts \in Nat /\ grant[g].ends \in Nat /\ grant[g].status \in {"active", "revoked"}
  BY <1>1, ClockAssumption DEF GrantRow, Time, ClockAssumption
<1>5. CASE grant[g].status = "revoked"
  BY <1>3, <1>5 DEF Shown, EffectiveStatus
<1>6. CASE grant[g].status = "active"
  <2>1. grant[g].starts <= now /\ grant[g].ends <= now
    BY <1>2, <1>4, <1>6 DEF Shown, EffectiveStatus
  <2>2. grant'[g].starts <= now' /\ grant'[g].ends <= now' /\ ~(grant'[g].starts > now')
    BY <2>1, <1>2, <1>3, <1>4
  <2> QED BY <2>2 DEF Shown, EffectiveStatus
<1> QED BY <1>4, <1>5, <1>6

(* The page, the visitor's menu and the function that counts a use agree   *)
(* on when a grant is active; the uses counted are at most max_uses, each  *)
(* by a call that began within the window, though it may be charged later  *)
(* (effectiveStatus, getAvailableAccessPoints, app.try_consume_grant).     *)
THEOREM GrantsAreUsedAsShown == GrantsSpec => []UsedAsShown
  BY WindowsInitially, WindowsStep, ShownIsUsed, PTL DEF GrantsSpec

(* A grant that is over by its time or a revocation never shows as pending *)
(* or active again, although uses of it may be given back afterwards.      *)
THEOREM OverStaysOver == GrantsSpec => OverIsOver
<1>1. WindowsInv /\ [GrantsNext]_windowVars =>
        [\A g \in Made : Shown(g) \in {"expired", "revoked"} => Shown(g)' \notin {"pending", "active"}]_windowVars
  BY OverStays
<1> QED BY <1>1, WindowsInitially, WindowsStep, PTL DEF GrantsSpec, OverIsOver

-----------------------------------------------------------------------------
(***************************************************************************)
(* The composition keeps what its parts keep: a step of one part leaves    *)
(* the variables of the others alone, and with them their invariants.  The *)
(* clock, which gates and grants share, ticks alike in both.               *)
(***************************************************************************)

TenancyInv == MembershipInv /\ GuessesCharged /\ PlacesInv /\ GatesInv /\ WindowsInv

LEMMA TenancyInitially == TenancyInit => TenancyInv
  BY MembershipInitially, GuessesInitially, PlacesInitially, GatesInitially, WindowsInitially
     DEF TenancyInit, TenancyInv

(* Seen from the gates, a step of the grants is a tick or nothing. *)
LEMMA GrantsAreTicks ==
    ASSUME GrantsNext, UNCHANGED gateOwn
    PROVE  GatesTick \/ UNCHANGED gateVars
<1>1. UNCHANGED <<placed, gates, meter, logs, events, begun, tx>>
  BY DEF gateOwn, gateRows
<1>2. CASE GrantsTick
  BY <1>1, <1>2 DEF GrantsTick, GatesTick, gateRows
<1>3. CASE ~GrantsTick
  <2>1. now' = now
    BY <1>3 DEF GrantsNext, Revoke, GrantAccess, Ask, Find, Refuse, Refund, Settle, Consume, Skip
  <2> QED BY <1>1, <2>1 DEF gateVars
<1> QED BY <1>2, <1>3

(* And the other way round. *)
LEMMA GatesAreTicks ==
    ASSUME GatesNext, UNCHANGED windowOwn
    PROVE  GrantsTick \/ UNCHANGED windowVars
<1>1. UNCHANGED <<grant, call, askings>>
  BY DEF windowOwn
<1>2. CASE GatesTick
  BY <1>1, <1>2 DEF GrantsTick, GatesTick
<1>3. CASE ~GatesTick
  <2>1. now' = now
    BY <1>3 DEF GatesNext, GateBegin, GateCommit, LogBegin, LogCommit, EventBegin, EventCommit, DropLocation,
       AbortTx
  <2> QED BY <1>1, <2>1 DEF windowVars
<1> QED BY <1>2, <1>3

LEMMA TenancyStep ==
    ASSUME TenancyInv, [TenancyNext]_tenancyVars
    PROVE  TenancyInv'
<1>1. [Next]_vars /\ [PlacesNext]_placeVars
  BY DEF TenancyNext, OfPeople, OfPlaces, OfGates, OfGrants, tenancyVars
<1>2. [GatesNext]_gateVars
  <2>1. CASE OfGates
    BY <2>1 DEF OfGates
  <2>2. CASE OfGrants
    BY <2>2, GrantsAreTicks DEF OfGrants, GatesNext
  <2>3. CASE OfPeople \/ OfPlaces \/ UNCHANGED tenancyVars
    <3>1. UNCHANGED <<placed, gates, meter, logs, events, begun, tx, now>>
      BY <2>3 DEF OfPeople, OfPlaces, tenancyVars, gateOwn, gateRows
    <3> QED BY <3>1 DEF gateVars
  <2> QED BY <2>1, <2>2, <2>3 DEF TenancyNext
<1>3. [GrantsNext]_windowVars
  <2>1. CASE OfGrants
    BY <2>1 DEF OfGrants
  <2>2. CASE OfGates
    BY <2>2, GatesAreTicks DEF OfGates, GrantsNext
  <2>3. CASE OfPeople \/ OfPlaces \/ UNCHANGED tenancyVars
    <3>1. UNCHANGED <<grant, now, call, askings>>
      BY <2>3 DEF OfPeople, OfPlaces, tenancyVars, windowOwn
    <3> QED BY <3>1 DEF windowVars
  <2> QED BY <2>1, <2>2, <2>3 DEF TenancyNext
<1>4. MembershipInv'
  BY <1>1, MembershipStep DEF TenancyInv
<1>5. GuessesCharged'
  BY <1>1, <1>4, GuessesStep DEF TenancyInv
<1>6. PlacesInv'
  BY <1>1, PlacesStep DEF TenancyInv
<1>7. GatesInv'
  BY <1>2, GatesStep DEF TenancyInv
<1>8. WindowsInv'
  BY <1>3, WindowsStep DEF TenancyInv
<1> QED BY <1>4, <1>5, <1>6, <1>7, <1>8 DEF TenancyInv

THEOREM TenancyInvariance == TenancySpec => []TenancyInv
  BY TenancyInitially, TenancyStep, PTL DEF TenancySpec

(* Whatever members change beside one another, rows refer to locations and  *)
(* gates that are there, a lock has one holder and a number is verified for *)
(* one person (migrations: the foreign keys and the partial unique index).  *)
THEOREM TenancyTypeCorrect == TenancySpec => []TenancyTypeOK
<1>1. TenancyInv => MembershipTypeOK
  BY DEF TenancyInv, MembershipInv, PeopleTyped, NumbersHeld, MembershipTypeOK
<1>2. TenancyInv => PlacesTypeOK
  BY DEF TenancyInv, PlacesInv, LocationsHeld, QuotasTyped, DevicesHeld, DeviceRow,
     OverridesConfirmed, PlacesTypeOK
<1>3. TenancyInv => GatesTypeOK
  BY DEF TenancyInv, GatesInv
<1> QED BY <1>1, <1>2, <1>3, TenancyInvariance, PTL DEF TenancyTypeOK

(* What the parts keep by themselves they keep beside one another.          *)
TenancyKept ==
    /\ GrantedOnce /\ GuessesBounded
    /\ PairedOnce /\ QuotasKept /\ KillSwitchConfirmed
    /\ MetersAgree /\ UsedAsShown

THEOREM TenancyKeeps == TenancySpec => []TenancyKept
<1>1. TenancyInv => GrantedOnce
  BY DEF TenancyInv, MembershipInv, InvitesHeld, GrantedOnce
<1>2. TenancyInv => GuessesBounded
  BY ChargedBounds DEF TenancyInv
<1>3. TenancyInv => PairedOnce /\ QuotasKept /\ KillSwitchConfirmed
  BY DEF TenancyInv, PlacesInv, DevicesHeld, PairedOnce, QuotasTyped, OverridesConfirmed
<1>4. TenancyInv => MetersAgree
  BY DEF TenancyInv, GatesInv, MetersAgree
<1>5. TenancyInv => UsedAsShown
  BY ShownIsUsed DEF TenancyInv
<1>6. TenancyInv => TenancyKept
  BY <1>1, <1>2, <1>3, <1>4, <1>5 DEF TenancyKept
<1> QED BY <1>6, TenancyInvariance, PTL

=============================================================================
