---------------------------- MODULE GrantWindows ----------------------------
(***************************************************************************)
(* The temporary grants of one visitor's phone at one gate, over time: how *)
(* routes/access.ts shows them to the account, lib/access-lookup.ts offers *)
(* them to the visitor, and app.try_consume_grant counts their uses.       *)
(*                                                                         *)
(* A use is counted and given back in transactions of their own (OpenPath  *)
(* has what happens between the two).  A call fixes its time when it is    *)
(* made and may have to wait for the lock of the row; the row is then read *)
(* as it has become.                                                       *)
(***************************************************************************)
EXTENDS DatabaseClock, FiniteSets

CONSTANTS
    Grant,      \* grants the visitor may come to have
    Call,       \* messages at work together
    Uses,       \* bound: values of max_uses
    MaxCalls    \* bound: messages that ask for a grant

ASSUME GrantsAssumption ==
    Uses \subseteq Nat \ {0} /\ MaxCalls \in Nat /\ IsFiniteSet(Call)

VARIABLES
    grant,      \* temporary_access_grants
    call,       \* messages between asking for a grant and their commit
    askings     \* bound: such messages so far

windowVars == <<grant, now, call, askings>>

GrantRow == [starts : Time, ends : Time, max : Uses \cup {Null}, uses : Nat,
             status : {"active", "revoked"}, last : Time \cup {Null}]

NoGrant == [status |-> "none"]

NoCall == [op |-> "idle"]

Made == {g \in Grant : grant[g].status # "none"}

GrantsInit ==
    /\ grant = [g \in Grant |-> NoGrant]
    /\ now = 0
    /\ call = [c \in Call |-> NoCall]
    /\ askings = 0

-----------------------------------------------------------------------------
(* max_uses is null or uses_count < max_uses *)
UsesLeft(row) == row.max # Null => row.uses < row.max

(* effectiveStatus: the first that holds. *)
EffectiveStatus(g, t) ==
    IF g.status = "revoked" THEN "revoked"
    ELSE IF ~UsesLeft(g) THEN "exhausted"
    ELSE IF g.starts > t THEN "pending"
    ELSE IF g.ends <= t THEN "expired"
    ELSE "active"

(* GET /grants, as read now. *)
Shown(g) == EffectiveStatus(grant[g], now)

(* getAvailableAccessPoints: the gates in the visitor's menu. *)
Offered(g) ==
    LET row == grant[g] IN
    /\ row.status = "active"
    /\ row.starts <= now /\ row.ends > now
    /\ UsesLeft(row)

(* Mutant of Consumable: a use is counted at the moment the grant ends. *)
ConsumableAtEnd(g, t) ==
    LET row == grant[g] IN
    /\ row.status = "active"
    /\ row.starts <= t /\ row.ends >= t
    /\ UsesLeft(row)

(* app.try_consume_grant at the time of the call. *)
Consumable(g, t) ==
    LET row == grant[g] IN
    /\ row.status = "active"
    /\ row.starts <= t /\ row.ends > t
    /\ UsesLeft(row)

(* A statement locks the rows it has found in the order in which they end. *)
First(left, g) == g \in left /\ \A h \in left : grant[g].ends <= grant[h].ends

-----------------------------------------------------------------------------
(* POST /grants: from now on unless it says otherwise. *)
GrantAccess(g, starts, ends, max) ==
    /\ g \notin Made
    /\ ends > starts
    /\ grant' = [grant EXCEPT ![g] = [starts |-> starts, ends |-> ends, max |-> max, uses |-> 0,
                                      status |-> "active", last |-> Null]]
    /\ UNCHANGED <<now, call, askings>>

(* POST /grants/:id/revoke *)
Revoke(g) ==
    /\ grant[g].status = "active"
    /\ grant' = [grant EXCEPT ![g].status = "revoked"]
    /\ UNCHANGED <<now, call, askings>>

(* tryConsumeGrant is called. *)
Ask(c) ==
    /\ call[c].op = "idle"
    /\ askings < MaxCalls
    /\ askings' = askings + 1
    /\ call' = [call EXCEPT ![c] = [op |-> "asked", ts |-> now]]
    /\ UNCHANGED <<grant, now>>

(* The select finds the grants that can be used as committed by now. *)
Find(c) ==
    /\ call[c].op = "asked"
    /\ call' = [call EXCEPT ![c] = [op |-> "found", ts |-> call[c].ts,
                                   left |-> {g \in Made : Consumable(g, call[c].ts)}]]
    /\ UNCHANGED <<grant, now, askings>>

(* The lock of the first is taken and it can be used still: limit 1. *)
Consume(c, g) ==
    LET t == call[c].ts IN
    /\ call[c].op = "found"
    /\ First(call[c].left, g)
    /\ Consumable(g, t)
    /\ grant' = [grant EXCEPT ![g].uses = @ + 1, ![g].last = t]
    /\ call' = [call EXCEPT ![c] = [op |-> "taken", grant |-> g]]
    /\ UNCHANGED <<now, askings>>

(* It has been used up or revoked meanwhile: on to the next. *)
Skip(c, g) ==
    /\ call[c].op = "found"
    /\ First(call[c].left, g)
    /\ ~Consumable(g, call[c].ts)
    /\ call' = [call EXCEPT ![c].left = @ \ {g}]
    /\ UNCHANGED <<grant, now, askings>>

(* No grant is left: the visitor is told so. *)
Refuse(c) ==
    /\ call[c].op = "found"
    /\ call[c].left = {}
    /\ call' = [call EXCEPT ![c] = NoCall]
    /\ UNCHANGED <<grant, now, askings>>

Refunded(row) == [row EXCEPT !.uses = IF @ > 0 THEN @ - 1 ELSE 0]

(* refundGrantUse, when a limit has denied the command. *)
Refund(c) ==
    /\ call[c].op = "taken"
    /\ grant' = [grant EXCEPT ![call[c].grant] = Refunded(@)]
    /\ call' = [call EXCEPT ![c] = NoCall]
    /\ UNCHANGED <<now, askings>>

(* The command is committed, or its worker dies: the use stays counted.     *)
Settle(c) ==
    /\ call[c].op = "taken"
    /\ call' = [call EXCEPT ![c] = NoCall]
    /\ UNCHANGED <<grant, now, askings>>

GrantsTick == now < MaxTime /\ now' = now + 1 /\ UNCHANGED <<grant, call, askings>>

GrantsNext ==
    \/ \E g \in Grant : Revoke(g)
    \/ \E g \in Grant, starts, ends \in Time, max \in Uses \cup {Null} : GrantAccess(g, starts, ends, max)
    \/ \E c \in Call : Ask(c) \/ Find(c) \/ Refuse(c) \/ Refund(c) \/ Settle(c)
    \/ \E c \in Call, g \in Made : Consume(c, g) \/ Skip(c, g)
    \/ GrantsTick

GrantsSpec == GrantsInit /\ [][GrantsNext]_windowVars

-----------------------------------------------------------------------------
Holders(g) == {c \in Call : call[c].op = "taken" /\ call[c].grant = g}

(* A grant is used as it is shown, by calls that waited for the row as      *)
(* well.  The account sees "active" exactly while the visitor is offered    *)
(* the gate and a press of its button would count: three places that        *)
(* compare the window and the uses agree at every boundary.  It is used     *)
(* within its number of uses, and by calls whose transaction began within   *)
(* its window only: such a call may wait for the row and be charged after   *)
(* the end, when the page shows the grant as expired.  Uses that may yet be *)
(* given back are among those counted, so that none is given back twice.    *)
UsedAsShown ==
    /\ grant \in [Grant -> GrantRow \cup {NoGrant}]
    /\ \A g \in Made :
        /\ (Shown(g) = "active") = Offered(g)
        /\ (Shown(g) = "active") = Consumable(g, now)
        /\ grant[g].max # Null => grant[g].uses <= grant[g].max
        /\ grant[g].last # Null => grant[g].starts <= grant[g].last /\ grant[g].last < grant[g].ends
        /\ Cardinality(Holders(g)) <= grant[g].uses

(* A grant that is shown as expired or revoked is never shown as pending or *)
(* active again, although uses of it may be given back afterwards.          *)
OverIsOver ==
    [][\A g \in Made : Shown(g) \in {"expired", "revoked"} => Shown(g)' \notin {"pending", "active"}]_windowVars

=============================================================================
