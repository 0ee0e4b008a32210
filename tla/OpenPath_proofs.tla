--------------------------- MODULE OpenPath_proofs ---------------------------
(***************************************************************************)
(* Proofs about the open path, for any finite numbers of subjects and      *)
(* requests and any limits: a message is acted on once, the counters are   *)
(* exactly the opens, no use of a grant is lost but by a rollback, and the *)
(* opens are those of a MeteredGate.                                       *)
(*                                                                         *)
(* All rests on the locks.  FlowInv says what a request holds at each      *)
(* stage, and that no two hold the same row or chat; from it follow, one   *)
(* by one, the invariants of messages, counters, uses and limits.          *)
(***************************************************************************)
EXTENDS OpenPath, FiniteSetsExt, FiniteSetTheorems, WellFoundedInduction, TLAPS

-----------------------------------------------------------------------------
(* Sums of functions over finite sets.                                     *)

(* What holds of the empty set, and of a set when it holds of the set       *)
(* without any one of its elements, holds of a finite set.                  *)
LEMMA SubsetInduction ==
    ASSUME NEW S, IsFiniteSet(S), NEW T,
           {} \in T,
           \A s \in SUBSET S : (s # {} /\ \A x \in s : s \ {x} \in T) => s \in T
    PROVE  \A s \in SUBSET S : s \in T
<1> DEFINE Bad == (SUBSET S) \ T
<1>1. SUFFICES ASSUME Bad # {} PROVE FALSE
  OBVIOUS
<1>2. Bad \subseteq FiniteSubsetsOf(S)
  <2>1. \A s \in SUBSET S : IsFiniteSet(s)
    BY FS_Subset
  <2> QED BY <2>1 DEF FiniteSubsetsOf
<1>3. PICK s \in Bad : \A u \in Bad : ~(<<u, s>> \in StrictSubsetOrdering(S))
  <2>1. IsWellFoundedOn(StrictSubsetOrdering(S), FiniteSubsetsOf(S))
    BY FS_StrictSubsetOrderingWellFounded
  <2> HIDE DEF Bad
  <2> QED BY <1>1, <1>2, <2>1, WFMin
<1>4. s \in SUBSET S /\ s \notin T
  OBVIOUS
<1>5. PICK x \in s : s \ {x} \notin T
  BY <1>4
<1>6. s \ {x} \in Bad
  BY <1>4, <1>5
<1>7. <<s \ {x}, s>> \in StrictSubsetOrdering(S)
  BY <1>4, <1>5 DEF StrictSubsetOrdering
<1> QED BY <1>3, <1>6, <1>7

(* The sum of f over s, counted one by one.                                 *)
Units(f, s) == {p \in s \X Nat : p[2] < f[p[1]]}

(* The summands are natural numbers.                                        *)
Counts(f, S) == \A x \in S : f[x] \in Nat

(* As many units as a summand says.                                         *)
Unit(f, x) == {x} \X (0 .. f[x] - 1)

(* A summand is the number of its units.                                    *)
LEMMA UnitFinite ==
    ASSUME NEW f, NEW x, f[x] \in Nat
    PROVE  IsFiniteSet(Unit(f, x)) /\ Cardinality(Unit(f, x)) = f[x]
<1>1. IsFiniteSet({x}) /\ Cardinality({x}) = 1
  BY FS_Singleton
<1>2. IsFiniteSet(0 .. f[x] - 1) /\ Cardinality(0 .. f[x] - 1) = f[x]
  <2>1. 0 \in Int /\ f[x] - 1 \in Int
    OBVIOUS
  <2>2. IsFiniteSet(0 .. f[x] - 1) /\ Cardinality(0 .. f[x] - 1) = IF 0 > f[x] - 1 THEN 0 ELSE (f[x] - 1) - 0 + 1
    BY <2>1, FS_Interval
  <2> QED BY <2>2
<1>3. IsFiniteSet(Unit(f, x)) /\ Cardinality(Unit(f, x)) = 1 * f[x]
  BY <1>1, <1>2, FS_Product DEF Unit
<1> QED BY <1>3

(* The units are those of one element and those of the others.              *)
LEMMA UnitsSplit ==
    ASSUME NEW f, NEW s, NEW x \in s, f[x] \in Nat
    PROVE  /\ Units(f, s) = Units(f, s \ {x}) \cup Unit(f, x)
           /\ Units(f, s \ {x}) \cap Unit(f, x) = {}
<1>1. Units(f, s) \subseteq Units(f, s \ {x}) \cup Unit(f, x)
  BY DEF Units, Unit
<1>2. Unit(f, x) \subseteq Units(f, s)
  BY DEF Units, Unit
<1>3. Units(f, s \ {x}) \subseteq Units(f, s)
  BY DEF Units
<1>4. Units(f, s \ {x}) \cap Unit(f, x) = {}
  BY DEF Units, Unit
<1> QED BY <1>1, <1>2, <1>3, <1>4

(* The units of a finite set are finitely many.                             *)
LEMMA UnitsFinite ==
    ASSUME NEW S, IsFiniteSet(S), NEW f, Counts(f, S)
    PROVE  \A s \in SUBSET S : IsFiniteSet(Units(f, s))
<1> DEFINE T == {s \in SUBSET S : IsFiniteSet(Units(f, s))}
<1>1. {} \in T
  <2>1. Units(f, {}) = {}
    BY DEF Units
  <2> QED BY <2>1, FS_EmptySet
<1>2. ASSUME NEW s \in SUBSET S, s # {}, \A x \in s : s \ {x} \in T PROVE s \in T
  <2>1. PICK x \in s : s \ {x} \in T
    BY <1>2
  <2>2. f[x] \in Nat
    BY <2>1 DEF Counts
  <2>3. IsFiniteSet(Units(f, s \ {x})) /\ IsFiniteSet(Unit(f, x))
    BY <2>1, <2>2, UnitFinite
  <2>4. IsFiniteSet(Units(f, s \ {x}) \cup Unit(f, x))
    BY <2>3, FS_Union
  <2>5. Units(f, s) = Units(f, s \ {x}) \cup Unit(f, x)
    BY <2>1, <2>2, UnitsSplit
  <2> QED BY <2>4, <2>5
<1>3. \A s \in SUBSET S : s \in T
  <2> HIDE DEF T
  <2> QED BY <1>1, <1>2, SubsetInduction
<1> QED BY <1>3

(* Their number grows by a summand with each element.                       *)
LEMMA UnitsStep ==
    ASSUME NEW S, IsFiniteSet(S), NEW f, Counts(f, S), NEW s \in SUBSET S, NEW x \in s
    PROVE  /\ Cardinality(Units(f, s)) = f[x] + Cardinality(Units(f, s \ {x}))
           /\ Cardinality(Units(f, s \ {x})) \in Nat /\ Cardinality(Units(f, s)) \in Nat
<1>1. f[x] \in Nat
  BY DEF Counts
<1>2. IsFiniteSet(Units(f, s \ {x})) /\ IsFiniteSet(Units(f, s))
  <2>1. s \ {x} \in SUBSET S
    OBVIOUS
  <2> QED BY <2>1, UnitsFinite
<1>3. PICK a, b : a = Units(f, s \ {x}) /\ b = Unit(f, x)
  OBVIOUS
<1>4. IsFiniteSet(a) /\ IsFiniteSet(b) /\ a \cap b = {} /\ Units(f, s) = a \cup b /\ Cardinality(b) = f[x]
  BY <1>1, <1>2, <1>3, UnitFinite, UnitsSplit
<1>5. Cardinality(a \cup b) = Cardinality(a) + Cardinality(b) - Cardinality(a \cap b)
  BY <1>4, FS_Union
<1>6. Cardinality(a) \in Nat /\ Cardinality(a \cap b) = 0
  BY <1>4, FS_CardinalityType, FS_EmptySet
<1> QED BY <1>1, <1>3, <1>4, <1>5, <1>6

(* The fold that is SumFunctionOnSet counts the units.                      *)
LEMMA SumCounts ==
    ASSUME NEW S, IsFiniteSet(S), NEW f, Counts(f, S)
    PROVE  SumFunctionOnSet(f, S) = Cardinality(Units(f, S))
<1> DEFINE Some(s) == CHOOSE x \in s : TRUE
           Fold(it, s) == IF s = {} THEN 0 ELSE f[Some(s)] + it[s \ {Some(s)}]
           sum == CHOOSE iter : iter = [s \in SUBSET S |-> Fold(iter, s)]
<1>1. SumFunctionOnSet(f, S) = sum[S]
  BY DEF SumFunctionOnSet, FoldFunctionOnSet, MapThenFoldSet
<1>2. PICK g : g = [s \in SUBSET S |-> Cardinality(Units(f, s))]
  OBVIOUS
<1>3. \A s \in SUBSET S : s # {} => Some(s) \in s
  OBVIOUS
<1> HIDE DEF Some
<1>4. ASSUME NEW s \in SUBSET S PROVE g[s] = Fold(g, s)
  <2>1. CASE s = {}
    <3>1. Units(f, s) = {}
      BY <2>1 DEF Units
    <3> QED BY <2>1, <3>1, <1>2, FS_EmptySet
  <2>2. CASE s # {}
    <3>1. Some(s) \in s /\ s \ {Some(s)} \in SUBSET S
      BY <2>2, <1>3
    <3>2. Cardinality(Units(f, s)) = f[Some(s)] + Cardinality(Units(f, s \ {Some(s)}))
      BY <3>1, UnitsStep
    <3> QED BY <3>1, <3>2, <2>2, <1>2
  <2> QED BY <2>1, <2>2
<1>5. g = [s \in SUBSET S |-> Fold(g, s)]
  <2> HIDE DEF Fold
  <2> QED BY <1>2, <1>4
<1>6. sum = [s \in SUBSET S |-> Fold(sum, s)]
  <2> HIDE DEF Fold
  <2> QED BY <1>5
<1> HIDE DEF sum
<1> DEFINE T == {s \in SUBSET S : sum[s] = g[s]}
<1>7. {} \in T
  BY <1>4, <1>6
<1>8. ASSUME NEW s \in SUBSET S, s # {}, \A x \in s : s \ {x} \in T PROVE s \in T
  <2>1. s \ {Some(s)} \in T
    BY <1>3, <1>8
  <2>2. sum[s] = Fold(sum, s) /\ g[s] = Fold(g, s)
    <3> HIDE DEF Fold
    <3> QED BY <1>4, <1>6
  <2>3. Fold(sum, s) = Fold(g, s)
    BY <2>1
  <2> HIDE DEF Fold
  <2> QED BY <2>2, <2>3
<1>9. \A s \in SUBSET S : s \in T
  <2> HIDE DEF T
  <2> QED BY <1>7, <1>8, SubsetInduction
<1> QED BY <1>1, <1>2, <1>9

(* Sums are added up in any order.                                          *)
LEMMA SumStep ==
    ASSUME NEW S, IsFiniteSet(S), NEW f, Counts(f, S)
    PROVE  /\ SumFunctionOnSet(f, {}) = 0
           /\ SumFunctionOnSet(f, S) \in Nat
           /\ \A x \in S : SumFunctionOnSet(f, S) = f[x] + SumFunctionOnSet(f, S \ {x})
<1>1. SumFunctionOnSet(f, S) = Cardinality(Units(f, S))
  BY SumCounts
<1>2. SumFunctionOnSet(f, {}) = 0
  <2>1. Counts(f, {}) /\ IsFiniteSet({}) /\ Cardinality({}) = 0 /\ Units(f, {}) = {}
    BY FS_EmptySet DEF Counts, Units
  <2> QED BY <2>1, SumCounts
<1>3. SumFunctionOnSet(f, S) \in Nat
  BY <1>1, UnitsFinite, FS_CardinalityType
<1>4. ASSUME NEW x \in S PROVE SumFunctionOnSet(f, S) = f[x] + SumFunctionOnSet(f, S \ {x})
  <2>1. Counts(f, S \ {x}) /\ IsFiniteSet(S \ {x})
    BY FS_RemoveElement DEF Counts
  <2>2. SumFunctionOnSet(f, S \ {x}) = Cardinality(Units(f, S \ {x}))
    BY <2>1, SumCounts
  <2> QED BY <1>1, <2>2, UnitsStep
<1> QED BY <1>2, <1>3, <1>4

(* A sum depends on its summands only.                                      *)
LEMMA SumSame ==
    ASSUME NEW S, IsFiniteSet(S), NEW f, NEW g, Counts(f, S), \A x \in S : g[x] = f[x]
    PROVE  SumFunctionOnSet(g, S) = SumFunctionOnSet(f, S)
<1>1. Counts(g, S) /\ Units(g, S) = Units(f, S)
  BY DEF Counts, Units
<1> QED BY <1>1, SumCounts

(* One summand changes.                                                     *)
LEMMA SumChange ==
    ASSUME NEW S, IsFiniteSet(S), NEW f, NEW g, Counts(f, S), NEW x \in S, g[x] \in Nat,
           \A y \in S \ {x} : g[y] = f[y]
    PROVE  /\ SumFunctionOnSet(g, S) + f[x] = SumFunctionOnSet(f, S) + g[x]
           /\ SumFunctionOnSet(g, S) \in Nat /\ SumFunctionOnSet(f, S) \in Nat
           /\ f[x] <= SumFunctionOnSet(f, S)
<1>1. Counts(g, S) /\ Counts(f, S \ {x}) /\ IsFiniteSet(S \ {x})
  BY FS_RemoveElement DEF Counts
<1>2. SumFunctionOnSet(g, S \ {x}) = SumFunctionOnSet(f, S \ {x}) /\ SumFunctionOnSet(f, S \ {x}) \in Nat
  BY <1>1, SumSame, SumStep
<1>3. /\ SumFunctionOnSet(f, S) = f[x] + SumFunctionOnSet(f, S \ {x})
      /\ SumFunctionOnSet(g, S) = g[x] + SumFunctionOnSet(g, S \ {x})
  BY <1>1, SumStep
<1> QED BY <1>2, <1>3 DEF Counts

(* What holds of the summands holds of the sums.                            *)
LEMMA SumAdd ==
    ASSUME NEW S, IsFiniteSet(S), NEW f, NEW g, NEW h, Counts(f, S), Counts(g, S),
           \A x \in S : h[x] = f[x] + g[x]
    PROVE  SumFunctionOnSet(h, S) = SumFunctionOnSet(f, S) + SumFunctionOnSet(g, S)
<1> DEFINE T == {s \in SUBSET S : SumFunctionOnSet(h, s) = SumFunctionOnSet(f, s) + SumFunctionOnSet(g, s)}
<1>1. \A s \in SUBSET S : IsFiniteSet(s) /\ Counts(f, s) /\ Counts(g, s) /\ Counts(h, s)
  BY FS_Subset DEF Counts
<1>2. {} \in T
  <2>1. SumFunctionOnSet(h, {}) = 0 /\ SumFunctionOnSet(f, {}) = 0 /\ SumFunctionOnSet(g, {}) = 0
    BY <1>1, SumStep
  <2> QED BY <2>1
<1>3. ASSUME NEW s \in SUBSET S, s # {}, \A x \in s : s \ {x} \in T PROVE s \in T
  <2>1. PICK x \in s : s \ {x} \in T
    BY <1>3
  <2>2. s \ {x} \in SUBSET S
    OBVIOUS
  <2>3. /\ SumFunctionOnSet(h, s) = h[x] + SumFunctionOnSet(h, s \ {x})
        /\ SumFunctionOnSet(f, s) = f[x] + SumFunctionOnSet(f, s \ {x})
        /\ SumFunctionOnSet(g, s) = g[x] + SumFunctionOnSet(g, s \ {x})
    BY <1>1, SumStep
  <2>4. SumFunctionOnSet(f, s \ {x}) \in Nat /\ SumFunctionOnSet(g, s \ {x}) \in Nat
    BY <1>1, <2>2, SumStep
  <2>5. f[x] \in Nat /\ g[x] \in Nat /\ h[x] = f[x] + g[x]
    BY DEF Counts
  <2> QED BY <2>1, <2>3, <2>4, <2>5
<1>4. \A s \in SUBSET S : s \in T
  <2> HIDE DEF T
  <2> QED BY <1>2, <1>3, SubsetInduction
<1> QED BY <1>4

(* The sum over a part of a set is no more than that over the set.          *)
LEMMA SumAtMost ==
    ASSUME NEW S, IsFiniteSet(S), NEW f, Counts(f, S), NEW U \in SUBSET S
    PROVE  SumFunctionOnSet(f, U) <= SumFunctionOnSet(f, S)
<1>1. IsFiniteSet(U) /\ Counts(f, U) /\ Units(f, U) \subseteq Units(f, S)
  BY FS_Subset DEF Counts, Units
<1>2. IsFiniteSet(Units(f, S))
  BY UnitsFinite
<1>3. Cardinality(Units(f, U)) <= Cardinality(Units(f, S))
  BY <1>1, <1>2, FS_Subset
<1> QED BY <1>1, <1>3, SumCounts

-----------------------------------------------------------------------------
(* What one request carries, and what requests leave to each other.        *)

(* A request or batch whose transaction is open.                            *)
Tx == [kind : {"request", "batch"}, stage : Stage, subj : Subject \cup {NoSubject},
       todo : Seq(Msg), msg : Msg \cup {NoMsg}, grant : BOOLEAN,
       held : SUBSET Row, base : SUBSET Row, cur : SUBSET Row, wins : SUBSET Win,
       seen : SUBSET Msg, chats : SUBSET Subject, replies : SUBSET Msg,
       barred : SUBSET (Member \cup {NoSubject})]

(* A batch that has committed and sends its replies.                        *)
Replying == [kind : {"reply"}, replies : SUBSET Msg]

(* The account's row, the first of the later rows.                          *)
AcctRow == <<"acct_opens_1h", NoSubject>>

(* Who has locked a later row has locked the account's.                     *)
Ordered(rows) == (\E row \in rows : row[1] # "opens_1h") => AcctRow \in rows

(* A message is won once, a subject's counters are bumped once, and the     *)
(* rows of what is counted are locked.                                      *)
WinsOnce(t) ==
    /\ \A w, x \in t.wins : w.msg = x.msg => w = x
    /\ \A w, x \in t.wins : w.counted /\ x.counted /\ w.subj = x.subj => w = x
    /\ \A w \in t.wins : w.counted => RowsOf(w.subj) \subseteq t.held

(* What a request or a batch carries from stage to stage.                   *)
Carried(t) ==
    /\ IsFiniteSet(t.wins) /\ WinsOnce(t)
    /\ t.base \subseteq t.held /\ Ordered(t.held) /\ Ordered(t.base)
    /\ t.kind = "request" =>
          /\ t.msg = NoMsg /\ ~t.grant /\ t.base = {}
          /\ t.seen = {} /\ t.chats = {} /\ t.replies = {}
          /\ \A w \in t.wins : w.msg = NoMsg
    /\ t.kind = "batch" =>
          /\ \A w \in t.wins : w.msg \in t.seen
          /\ t.msg \in t.seen \cup {NoMsg}
          /\ t.replies \subseteq t.seen
          /\ \A m \in t.seen : Sender[m] \in t.chats

(* What its stage says of it.                                               *)
Staged(t) ==
    /\ t.cur = IF t.stage = "rest" THEN {MemberRow(t.subj)} ELSE {}
    /\ t.cur \subseteq t.held
    /\ t.stage \notin {"next", "command", "commit"} => t.subj \in Subject
    /\ t.grant => t.subj \in Visitor /\ t.stage \in {"open", "close", "member", "rest", "refund"}
    /\ t.stage = "refund" => t.grant
    /\ t.kind = "request" =>
          /\ t.stage \in {"status", "member", "rest", "commit"}
          /\ t.stage # "commit" => t.wins = {}
    /\ t.kind = "batch" =>
          /\ t.stage \notin {"status", "commit"}
          /\ t.stage # "next" =>
                /\ t.msg \in Msg
                /\ \A w \in t.wins : w.msg # t.msg
                /\ \A w \in t.wins : w.counted => RowsOf(w.subj) \subseteq t.base

(* A transaction as the handlers make it.                                   *)
Flow(t) == t \in Tx /\ Carried(t) /\ Staged(t)

(* Two transactions lock different rows and different chats.                *)
Apart(t, u) == t.held \cap u.held = {} /\ t.chats \cap u.chats = {}

(* The lock discipline: every open transaction is as the handlers make it,  *)
(* and any two are apart.                                                   *)
FlowInv ==
    /\ tx \in [Req -> Tx \cup Replying \cup {Idle}]
    /\ barred \subseteq Member \cup {NoSubject}
    /\ \A r \in Active : Flow(tx[r])
    /\ \A r, q \in Active : r # q => Apart(tx[r], tx[q])

-----------------------------------------------------------------------------
(* The kind of a request tells what its record is.                          *)
LEMMA Kinds ==
    ASSUME tx \in [Req -> Tx \cup Replying \cup {Idle}], NEW r \in Req
    PROVE  /\ r \in Active <=> tx[r] \in Tx
           /\ tx[r].kind = "reply" <=> tx[r] \in Replying
           /\ tx[r].kind = "idle" <=> tx[r] = Idle
           /\ r \in Active <=> tx[r].kind \in {"request", "batch"}
<1>1. tx[r] \in Tx \cup Replying \cup {Idle}
  OBVIOUS
<1>2. \A t \in Tx : t.kind \in {"request", "batch"}
  BY DEF Tx
<1>3. \A t \in Replying : t.kind = "reply"
  BY DEF Replying
<1>4. Idle.kind = "idle"
  BY DEF Idle
<1> HIDE DEF Idle
<1> QED BY <1>1, <1>2, <1>3, <1>4 DEF Active

(* Another record for r, that takes no lock of another request.             *)
LEMMA OneMoves ==
    ASSUME FlowInv, NEW r \in Req, NEW u, tx' = [tx EXCEPT ![r] = u], barred' = barred,
           \/ Flow(u) /\ \A q \in Active \ {r} : Apart(u, tx[q])
           \/ u \in Replying \cup {Idle}
    PROVE  FlowInv'
<1>1. u \in Tx \cup Replying \cup {Idle}
  BY DEF Flow
<1>2. tx' \in [Req -> Tx \cup Replying \cup {Idle}]
  BY <1>1 DEF FlowInv
<1>3. /\ \A q \in Req : q # r => tx'[q] = tx[q]
      /\ tx'[r] = u
      /\ DOMAIN tx = Req
  BY DEF FlowInv
<1>4. \A q \in Req : q # r => (q \in Active' <=> q \in Active)
  BY <1>3 DEF Active
<1>5. r \in Active' => Flow(u) /\ \A q \in Active \ {r} : Apart(u, tx[q])
  <2>1. \A t \in Replying : t.kind = "reply"
    BY DEF Replying
  <2>2. Idle.kind = "idle"
    BY DEF Idle
  <2> HIDE DEF Idle
  <2> QED BY <2>1, <2>2, <1>3 DEF Active
<1>6. \A q \in Active' : Flow(tx'[q])
  BY <1>3, <1>4, <1>5 DEF FlowInv, Active
<1>7. \A p, q \in Active' : p # q => Apart(tx'[p], tx'[q])
  <2> SUFFICES ASSUME NEW p \in Active', NEW q \in Active', p # q PROVE Apart(tx'[p], tx'[q])
    OBVIOUS
  <2>1. p \in Req /\ q \in Req
    BY DEF Active
  <2>2. CASE p = r
    BY <2>1, <2>2, <1>3, <1>4, <1>5
  <2>3. CASE q = r
    <3>1. Apart(u, tx[p])
      BY <2>1, <2>3, <1>3, <1>4, <1>5
    <3> QED BY <3>1, <2>1, <2>3, <1>3 DEF Apart
  <2>4. CASE p # r /\ q # r
    BY <2>1, <2>4, <1>3, <1>4 DEF FlowInv
  <2> QED BY <2>2, <2>3, <2>4
<1>8. barred' \subseteq Member \cup {NoSubject}
  BY DEF FlowInv
<1> QED BY <1>2, <1>6, <1>7, <1>8 DEF FlowInv

(* The stage after a message or a request is dealt with.                    *)
Done(t, u) ==
    /\ u.kind = t.kind /\ u.held = t.held /\ u.base = t.base /\ u.wins = t.wins
    /\ u.seen = t.seen /\ u.chats = t.chats /\ u.cur = {} /\ ~u.grant

(* A transaction whose message is dealt with goes on as it should.          *)
LEMMA DealtFlow ==
    ASSUME NEW t, t \in Tx, Carried(t), t.kind = "batch" => t.msg \in Msg
    PROVE  Flow(Dealt(t)) /\ Done(t, Dealt(t))
<1>1. CASE t.kind = "batch"
  <2>1. PICK u : u = Dealt(t)
    OBVIOUS
  <2>2. u = [t EXCEPT !.stage = "next", !.msg = NoMsg, !.subj = NoSubject, !.grant = FALSE,
                   !.cur = {}, !.replies = @ \cup {t.msg}]
    BY <2>1, <1>1 DEF Dealt
  <2>3. u \in Tx
    BY <2>2, <1>1 DEF Tx, Stage
  <2>4. /\ Done(t, u) /\ u.stage = "next" /\ u.msg = NoMsg /\ u.subj = NoSubject
        /\ u.replies = t.replies \cup {t.msg}
    BY <2>2 DEF Tx, Done
  <2>5. Carried(u)
    <3>1. t.msg \in t.seen
      BY <1>1, SubjectsAssumption DEF Carried
    <3> QED BY <3>1, <2>3, <2>4, <1>1 DEF Carried, Done, WinsOnce
  <2>6. Staged(u)
    BY <2>4, <1>1 DEF Staged, Done
  <2> QED BY <2>1, <2>3, <2>4, <2>5, <2>6 DEF Flow
<1>2. CASE t.kind = "request"
  <2>1. PICK u : u = Dealt(t)
    OBVIOUS
  <2>2. u = [t EXCEPT !.stage = "commit", !.cur = {}]
    BY <2>1, <1>2 DEF Dealt
  <2>3. u \in Tx
    BY <2>2, <1>2 DEF Tx, Stage
  <2>4. /\ Done(t, u) /\ u.stage = "commit" /\ u.msg = t.msg
        /\ u.replies = t.replies
    BY <2>2, <1>2 DEF Tx, Done, Carried
  <2>5. Carried(u)
    BY <2>3, <2>4, <1>2 DEF Carried, Done, WinsOnce
  <2>6. Staged(u)
    BY <2>4, <1>2 DEF Staged, Done
  <2> QED BY <2>1, <2>3, <2>4, <2>5, <2>6 DEF Flow
<1> QED BY <1>1, <1>2 DEF Tx

(* After a denial nothing is in hand, but the use to give back.             *)
Undone(t, u) ==
    /\ u.kind = t.kind /\ u.held = t.held /\ u.base = t.base /\ u.wins = t.wins
    /\ u.seen = t.seen /\ u.chats = t.chats /\ u.cur = {}
    /\ u.grant = t.grant /\ (t.grant => u.subj = t.subj)

(* So does one whose open is denied: its grant's use is refunded first.     *)
LEMMA DenialFlow ==
    ASSUME NEW t, t \in Tx, Carried(t),
           t.kind = "batch" =>
               /\ t.msg \in Msg
               /\ \A w \in t.wins : w.msg # t.msg /\ (w.counted => RowsOf(w.subj) \subseteq t.base),
           t.grant => t.subj \in Visitor
    PROVE  Flow(AfterDenial(t)) /\ Undone(t, AfterDenial(t))
<1>1. CASE t.grant
  <2>1. PICK u : u = AfterDenial(t)
    OBVIOUS
  <2>2. u = [t EXCEPT !.stage = "refund", !.cur = {}]
    BY <2>1, <1>1 DEF AfterDenial
  <2>3. u \in Tx
    BY <2>2 DEF Tx, Stage
  <2>4. /\ Undone(t, u) /\ u.stage = "refund" /\ u.msg = t.msg /\ u.subj = t.subj
        /\ u.replies = t.replies
    BY <2>2 DEF Tx, Undone
  <2>5. Carried(u)
    BY <2>3, <2>4, <1>1 DEF Carried, Undone, WinsOnce
  <2>6. Staged(u)
    BY <2>4, <1>1 DEF Staged, Undone, Subject, Carried
  <2> QED BY <2>1, <2>3, <2>4, <2>5, <2>6 DEF Flow
<1>2. CASE ~t.grant
  <2>1. AfterDenial(t) = Dealt(t)
    BY <1>2 DEF AfterDenial
  <2>2. Flow(Dealt(t)) /\ Done(t, Dealt(t))
    BY DealtFlow
  <2>3. PICK u : u = Dealt(t)
    OBVIOUS
  <2> QED BY <2>1, <2>2, <2>3, <1>2 DEF Done, Undone, Flow, Tx
<1> QED BY <1>1, <1>2

(* In the beginning no request is open.                                     *)
LEMMA FlowInit ==
    ASSUME Init PROVE FlowInv
<1>1. tx \in [Req -> {Idle}]
  BY DEF Init
<1>2. Active = {}
  BY <1>1 DEF Active, Idle
<1>3. tx \in [Req -> Tx \cup Replying \cup {Idle}]
  BY <1>1
<1>4. barred \subseteq Member \cup {NoSubject}
  BY DEF Init
<1> QED BY <1>2, <1>3, <1>4 DEF FlowInv

(* The rows of a subject, and their kinds.                                  *)
LEMMA Rows ==
    ASSUME NEW s \in Subject
    PROVE  /\ MemberRow(s) \in Row /\ RowsOf(s) \subseteq Row
           /\ LaterRows(s)[1] = AcctRow /\ AcctRow \in Row
           /\ \A i \in 1 .. 3 : LaterRows(s)[i] \in Row /\ LaterRows(s)[i][1] # "opens_1h"
           /\ MemberRow(s)[1] = "opens_1h"
           /\ RowsOf(s) = {MemberRow(s)} \cup {LaterRows(s)[i] : i \in 1 .. 3}
<1>1. LaterRows(s)[1] = AcctRow /\ LaterRows(s)[2] = <<"opens_1d", s>> /\ LaterRows(s)[3] = <<"loc_opens_1d", NoSubject>>
  BY DEF LaterRows, AcctRow
<1>2. MemberRow(s) \in Row /\ AcctRow \in Row /\ <<"opens_1d", s>> \in Row /\ <<"loc_opens_1d", NoSubject>> \in Row
  BY DEF Row, MemberRow, AcctRow
<1>3. \A i \in 1 .. 3 : i = 1 \/ i = 2 \/ i = 3
  OBVIOUS
<1>4. \A i \in 1 .. 3 : LaterRows(s)[i] \in Row /\ LaterRows(s)[i][1] # "opens_1h"
  BY <1>1, <1>2, <1>3 DEF AcctRow
<1>5. MemberRow(s)[1] = "opens_1h"
  BY DEF MemberRow
<1> HIDE DEF LaterRows, AcctRow, MemberRow
<1> QED BY <1>1, <1>2, <1>4, <1>5 DEF RowsOf

(* A request or a batch begins.                                             *)
LEMMA BegunFlow ==
    ASSUME FlowInv, NEW kind, NEW stage, NEW s, NEW ms,
           \/ kind = "request" /\ stage = "status" /\ s \in Subject /\ ms = <<>>
           \/ kind = "batch" /\ stage = "next" /\ s = NoSubject /\ ms \in Delivery
    PROVE  LET u == Begun(kind, stage, s, ms) IN
           /\ Flow(u) /\ \A q \in Active : Apart(u, tx[q])
           /\ u.kind = kind /\ u.wins = {} /\ u.cur = {} /\ u.seen = {} /\ u.chats = {}
           /\ ~u.grant /\ u.held = {}
<1>1. PICK u : u = Begun(kind, stage, s, ms)
  OBVIOUS
<1>2. ms \in Seq(Msg)
  <2>1. <<>> \in Seq(Msg)
    OBVIOUS
  <2>2. Delivery \subseteq Seq(Msg)
    BY SubjectsAssumption
  <2> QED BY <2>1, <2>2
<1>3. u \in Tx
  BY <1>1, <1>2 DEF Begun, Tx, Stage, FlowInv
<1>4. /\ u.kind = kind /\ u.stage = stage /\ u.subj = s /\ u.msg = NoMsg /\ u.grant = FALSE
      /\ u.held = {} /\ u.base = {} /\ u.cur = {} /\ u.wins = {} /\ u.seen = {}
      /\ u.chats = {} /\ u.replies = {}
  BY <1>1 DEF Begun
<1>5. Carried(u)
  BY <1>4, FS_EmptySet DEF Carried, WinsOnce, Ordered
<1>6. Staged(u)
  BY <1>4 DEF Staged
<1>7. \A q \in Active : Apart(u, tx[q])
  BY <1>4 DEF Apart
<1> QED BY <1>1, <1>3, <1>4, <1>5, <1>6, <1>7 DEF Flow

(* Request r goes on, with locks that nobody else has.                      *)
Moves(r) ==
    /\ tx' = [tx EXCEPT ![r] = tx'[r]] /\ Flow(tx'[r])
    /\ \A q \in Active \ {r} : Apart(tx'[r], tx[q])

(* It goes on with the same messages, and the same hold on its grant.       *)
Goes(t, u) ==
    /\ u.kind = t.kind /\ u.seen = t.seen /\ u.chats = t.chats
    /\ u.grant = t.grant /\ (t.grant => u.subj = t.subj)

(* A step that locks nothing more keeps requests apart.                     *)
LEMMA MoveFlow ==
    ASSUME FlowInv, NEW r \in Active, NEW u, tx' = [tx EXCEPT ![r] = u], Flow(u),
           u.held \subseteq tx[r].held, u.chats \subseteq tx[r].chats
    PROVE  Moves(r) /\ tx'[r] = u
<1>1. tx'[r] = u
  BY DEF FlowInv, Active
<1>2. \A q \in Active \ {r} : Apart(u, tx[q])
  BY DEF FlowInv, Apart
<1> QED BY <1>1, <1>2 DEF Moves

(* The same record but for its stage.                                       *)
LEMMA GotoFlow ==
    ASSUME FlowInv, NEW r \in Active, NEW stage,
           stage = "member", tx[r].stage \in {"open", "status"},
           Goto(r, stage)
    PROVE  LET t == tx[r]
               u == tx'[r] IN
           Moves(r) /\ Goes(t, u) /\ u.wins = t.wins /\ u.cur = t.cur
<1>1. PICK t : t = tx[r]
  OBVIOUS
<1>2. Flow(t) /\ r \in Req
  BY <1>1 DEF FlowInv, Active
<1>3. PICK u : u = [t EXCEPT !.stage = stage]
  OBVIOUS
<1>4. tx' = [tx EXCEPT ![r] = u]
  BY <1>1, <1>3 DEF Goto
<1>5. u \in Tx
  BY <1>2, <1>3 DEF Flow, Tx, Stage
<1>6. /\ u.kind = t.kind /\ u.stage = stage /\ u.subj = t.subj /\ u.msg = t.msg /\ u.grant = t.grant
      /\ u.held = t.held /\ u.base = t.base /\ u.cur = t.cur /\ u.wins = t.wins /\ u.seen = t.seen
      /\ u.chats = t.chats /\ u.replies = t.replies
  BY <1>2, <1>3 DEF Flow, Tx
<1>7. Carried(u)
  BY <1>2, <1>6 DEF Flow, Carried, WinsOnce
<1>8. Staged(u)
  BY <1>1, <1>2, <1>6 DEF Flow, Staged
<1>9. Moves(r) /\ tx'[r] = u
  BY <1>1, <1>4, <1>5, <1>6, <1>7, <1>8, MoveFlow DEF Flow
<1> QED BY <1>1, <1>6, <1>9 DEF Goes

(* The win of a record in a stage that may win.                             *)
WinOf(t, command, counted) ==
    [subj |-> t.subj, msg |-> t.msg, command |-> command, grant |-> t.grant, counted |-> counted]

(* A transaction that has won a command goes on as it should.               *)
LEMMA WinFlow ==
    ASSUME NEW t, Flow(t), t.stage \in {"close", "member", "rest"},
           NEW command \in {"open", "close"}, NEW counted \in BOOLEAN,
           NEW v, v \in Tx, v.wins = t.wins \cup {WinOf(t, command, counted)},
           v.kind = t.kind, v.msg = t.msg, v.grant = t.grant, v.base = t.base, v.seen = t.seen,
           v.chats = t.chats, v.replies = t.replies,
           t.base \subseteq v.held, Ordered(v.held),
           t.held \subseteq v.held \/ v.held = t.base,
           counted => /\ RowsOf(t.subj) \subseteq v.held
                      /\ \A x \in t.wins : x.counted => x.subj # t.subj
    PROVE  /\ WinOf(t, command, counted) \notin t.wins
           /\ Carried(v)
           /\ Flow(Dealt(v)) /\ Done(v, Dealt(v))
<1>1. PICK w : w = WinOf(t, command, counted)
  OBVIOUS
<1>2. w.subj = t.subj /\ w.msg = t.msg /\ w.counted = counted
  BY <1>1 DEF WinOf
<1>3. t.kind \in {"request", "batch"} /\ t.stage # "next" /\ t.stage # "commit"
  BY DEF Flow, Tx
<1>4. t.kind = "request" => t.wins = {} /\ t.msg = NoMsg
  BY <1>3 DEF Flow, Staged, Carried
<1>5. t.kind = "batch" => t.msg \in Msg /\ t.msg \in t.seen /\ \A x \in t.wins : x.msg # t.msg
  BY <1>3, SubjectsAssumption DEF Flow, Staged, Carried
<1>6. \A x \in t.wins : x.msg # t.msg
  BY <1>3, <1>4, <1>5
<1>7. w \notin t.wins
  BY <1>2, <1>6
<1>8. IsFiniteSet(v.wins)
  BY <1>1, FS_AddElement DEF Flow, Carried
<1>9. v.wins = t.wins \cup {w}
  BY <1>1
<1>10. \A x \in t.wins : x.counted => RowsOf(x.subj) \subseteq v.held
  BY <1>3, <1>4 DEF Flow, Staged, Carried, WinsOnce
<1>11. WinsOnce(v)
  <2>1. \A x, y \in t.wins : x.msg = y.msg => x = y
    BY DEF Flow, Carried, WinsOnce
  <2>2. \A x, y \in t.wins : x.counted /\ y.counted /\ x.subj = y.subj => x = y
    BY DEF Flow, Carried, WinsOnce
  <2>3. \A x, y \in v.wins : x.msg = y.msg => x = y
    BY <2>1, <1>2, <1>6, <1>9
  <2>4. \A x, y \in v.wins : x.counted /\ y.counted /\ x.subj = y.subj => x = y
    BY <2>2, <1>2, <1>9
  <2>5. \A x \in v.wins : x.counted => RowsOf(x.subj) \subseteq v.held
    BY <1>2, <1>9, <1>10
  <2> QED BY <2>3, <2>4, <2>5 DEF WinsOnce
<1>12. Carried(v)
  <2>1. v.base \subseteq v.held /\ Ordered(v.held) /\ Ordered(v.base)
    BY DEF Flow, Carried
  <2>2. CASE t.kind = "request"
    BY <2>1, <2>2, <1>2, <1>4, <1>8, <1>9, <1>11 DEF Flow, Carried
  <2>3. CASE t.kind = "batch"
    BY <2>1, <2>3, <1>2, <1>5, <1>8, <1>9, <1>11 DEF Flow, Carried
  <2> QED BY <2>2, <2>3, <1>3
<1>13. Flow(Dealt(v)) /\ Done(v, Dealt(v))
  BY <1>5, <1>12, DealtFlow
<1> QED BY <1>1, <1>3, <1>5, <1>7, <1>12, <1>13

-----------------------------------------------------------------------------
(* The steps of a request.                                                 *)

(* Each step of a request, and what it leaves as it was.                    *)
LEMMA TakeMessageFlow ==
    ASSUME FlowInv, NEW r \in Req, TakeMessage(r)
    PROVE  LET t == tx[r]
               u == tx'[r] IN
           /\ r \in Active /\ Moves(r)
           /\ u.kind = t.kind /\ u.wins = t.wins /\ u.cur = t.cur /\ ~t.grant /\ ~u.grant
           /\ u.seen = t.seen \/ \E m \in Msg : m \notin seen /\ u.seen = t.seen \cup {m}
<1>1. PICK t, m : t = tx[r] /\ m = Head(t.todo)
  OBVIOUS
<1>2. r \in Active /\ t.stage = "next" /\ Flow(t) /\ t.todo # <<>>
  BY <1>1 DEF TakeMessage, At, FlowInv
<1>3. t.todo \in Seq(Msg) /\ t.kind = "batch" /\ ~t.grant /\ t.cur = {}
  BY <1>2 DEF Flow, Tx, Staged
<1>4. m \in Msg /\ Tail(t.todo) \in Seq(Msg) /\ Sender[m] \in Subject
  <2>1. m \in Msg /\ Tail(t.todo) \in Seq(Msg)
    BY <1>1, <1>2, <1>3
  <2> QED BY <2>1, SubjectsAssumption
<1>5. PICK v : v = [t EXCEPT !.todo = Tail(@), !.chats = @ \cup {Sender[m]}]
  OBVIOUS
<1>6. /\ v \in Tx /\ v.kind = t.kind /\ v.stage = "next" /\ v.subj = t.subj /\ v.msg = t.msg
      /\ v.grant = t.grant /\ v.held = t.held /\ v.base = t.base /\ v.cur = t.cur /\ v.wins = t.wins
      /\ v.seen = t.seen /\ v.chats = t.chats \cup {Sender[m]} /\ v.replies = t.replies
  BY <1>2, <1>4, <1>5 DEF Flow, Tx
<1>7. PICK n : n = [v EXCEPT !.seen = @ \cup {m}]
  OBVIOUS
<1>8. /\ n \in Tx /\ n.kind = t.kind /\ n.stage = "next" /\ n.subj = t.subj /\ n.msg = t.msg
      /\ n.grant = t.grant /\ n.held = t.held /\ n.base = t.base /\ n.cur = t.cur /\ n.wins = t.wins
      /\ n.seen = t.seen \cup {m} /\ n.chats = t.chats \cup {Sender[m]} /\ n.replies = t.replies
  BY <1>4, <1>6, <1>7 DEF Tx
<1>9. PICK c : c = [n EXCEPT !.msg = m, !.stage = "command", !.base = t.held]
  OBVIOUS
<1>10. /\ c \in Tx /\ c.kind = t.kind /\ c.stage = "command" /\ c.subj = t.subj /\ c.msg = m
       /\ c.grant = t.grant /\ c.held = t.held /\ c.base = t.held /\ c.cur = t.cur /\ c.wins = t.wins
       /\ c.seen = t.seen \cup {m} /\ c.chats = t.chats \cup {Sender[m]} /\ c.replies = t.replies
  BY <1>2, <1>4, <1>8, <1>9 DEF Tx, Stage, Flow
<1>11. Flow(v)
  <2>1. Carried(v)
    BY <1>2, <1>3, <1>6 DEF Flow, Carried, WinsOnce
  <2>2. Staged(v)
    BY <1>2, <1>3, <1>6 DEF Flow, Staged
  <2> QED BY <2>1, <2>2, <1>6 DEF Flow
<1>12. Flow(n)
  <2>1. Carried(n)
    BY <1>2, <1>3, <1>8 DEF Flow, Carried, WinsOnce
  <2>2. Staged(n)
    BY <1>2, <1>3, <1>8 DEF Flow, Staged
  <2> QED BY <2>1, <2>2, <1>8 DEF Flow
<1>13. m \notin seen \cup t.seen => Flow(c)
  <2> SUFFICES ASSUME m \notin seen \cup t.seen PROVE Flow(c)
    OBVIOUS
  <2>1. Carried(c)
    BY <1>2, <1>3, <1>10 DEF Flow, Carried, WinsOnce
  <2>2. Staged(c)
    <3>1. \A w \in t.wins : w.msg # m
      BY <1>2, <1>3 DEF Flow, Carried
    <3>2. \A w \in t.wins : w.counted => RowsOf(w.subj) \subseteq t.held
      BY <1>2 DEF Flow, Carried, WinsOnce
    <3> QED BY <3>1, <3>2, <1>3, <1>4, <1>10 DEF Staged
  <2> QED BY <2>1, <2>2, <1>10 DEF Flow
<1>14. \/ tx' = [tx EXCEPT ![r] = v]
       \/ m \notin seen \cup t.seen /\ tx' = [tx EXCEPT ![r] = n]
       \/ m \notin seen \cup t.seen /\ tx' = [tx EXCEPT ![r] = c]
  BY <1>1, <1>5, <1>7, <1>9 DEF TakeMessage, Set, Fresh
<1>15. \A q \in Active \ {r} : Sender[m] \notin tx[q].chats
  BY <1>1 DEF TakeMessage
<1>16. \A q \in Active \ {r} : Apart(v, tx[q]) /\ Apart(n, tx[q]) /\ Apart(c, tx[q])
  <2> SUFFICES ASSUME NEW q \in Active \ {r} PROVE Apart(v, tx[q]) /\ Apart(n, tx[q]) /\ Apart(c, tx[q])
    OBVIOUS
  <2>1. Apart(t, tx[q])
    BY <1>1, <1>2 DEF FlowInv
  <2> QED BY <2>1, <1>6, <1>8, <1>10, <1>15 DEF Apart
<1>17. tx'[r] = v \/ (m \notin seen \cup t.seen /\ (tx'[r] = n \/ tx'[r] = c))
  BY <1>14 DEF FlowInv
<1>18. Moves(r)
  <2>1. tx' = [tx EXCEPT ![r] = tx'[r]]
    BY <1>14 DEF FlowInv
  <2>2. Flow(tx'[r])
    BY <1>11, <1>12, <1>13, <1>17
  <2>3. \A q \in Active \ {r} : Apart(tx'[r], tx[q])
    BY <1>16, <1>17
  <2> QED BY <2>1, <2>2, <2>3 DEF Moves
<1>19. tx'[r] = v \/ tx'[r] = n \/ tx'[r] = c
  BY <1>17
<1> QED BY <1>1, <1>2, <1>3, <1>4, <1>6, <1>8, <1>10, <1>17, <1>18

(* A command is taken up, by a grant or as a member.                        *)
LEMMA CommandFlow ==
    ASSUME FlowInv, NEW r \in Req, ConsumeGrant(r) \/ MemberCommand(r)
    PROVE  LET t == tx[r]
               u == tx'[r] IN
           /\ r \in Active /\ Moves(r)
           /\ u.kind = t.kind /\ u.wins = t.wins /\ u.cur = t.cur /\ ~t.grant /\ u.seen = t.seen
           /\ ConsumeGrant(r) => u.grant /\ u.subj \in Visitor
           /\ ConsumeGrant(r) => uses' = [uses EXCEPT ![u.subj] = @ + 1] /\ uses[u.subj] < MaxUses
           /\ MemberCommand(r) => ~u.grant
<1>1. PICK t, s : t = tx[r] /\ s = Sender[tx[r].msg]
  OBVIOUS
<1>2. r \in Active /\ t.stage = "command" /\ Flow(t) /\ Command[t.msg] # "menu"
  BY <1>1 DEF ConsumeGrant, MemberCommand, At, FlowInv
<1>3. t.kind = "batch" /\ ~t.grant /\ t.cur = {} /\ t.msg \in Msg
  BY <1>2 DEF Flow, Tx, Staged
<1>4. Command[t.msg] \in {"open", "close"}
  BY <1>2, <1>3, SubjectsAssumption
<1>5. PICK u : u = IF ConsumeGrant(r) THEN [[t EXCEPT !.subj = s, !.grant = TRUE] EXCEPT !.stage = Command[t.msg]]
                   ELSE [t EXCEPT !.subj = s, !.stage = Command[t.msg]]
  OBVIOUS
<1>6. tx' = [tx EXCEPT ![r] = u]
  <2>1. CASE ConsumeGrant(r)
    <3>1. u = [[t EXCEPT !.subj = s, !.grant = TRUE] EXCEPT !.stage = Command[t.msg]]
      BY <2>1, <1>5
    <3> QED BY <2>1, <3>1, <1>1 DEF ConsumeGrant, Set
  <2>2. CASE ~ConsumeGrant(r)
    <3>1. u = [t EXCEPT !.subj = s, !.stage = Command[t.msg]]
      BY <2>2, <1>5
    <3> QED BY <2>2, <3>1, <1>1 DEF MemberCommand, Set
  <2> QED BY <2>1, <2>2
<1>7. ConsumeGrant(r) => s \in Visitor /\ uses[s] < MaxUses /\ uses' = [uses EXCEPT ![s] = @ + 1]
  BY <1>1 DEF ConsumeGrant, Usable
<1>8. s \in Subject
  BY <1>1, <1>7 DEF MemberCommand, Subject
<1>9. CASE ConsumeGrant(r)
  <2>1. u = [[t EXCEPT !.subj = s, !.grant = TRUE] EXCEPT !.stage = Command[t.msg]]
    BY <1>9, <1>5
  <2>2. u \in Tx
    BY <2>1, <1>2, <1>4, <1>8 DEF Flow, Tx, Stage
  <2>3. /\ u.kind = t.kind /\ u.stage = Command[t.msg] /\ u.subj = s /\ u.msg = t.msg /\ u.grant = TRUE
        /\ u.held = t.held /\ u.base = t.base /\ u.cur = t.cur /\ u.wins = t.wins
        /\ u.seen = t.seen /\ u.chats = t.chats /\ u.replies = t.replies
    BY <2>1, <1>2 DEF Flow, Tx
  <2>4. Carried(u)
    BY <2>3, <1>2, <1>3 DEF Flow, Carried, WinsOnce
  <2>5. Staged(u)
    BY <2>3, <1>2, <1>3, <1>4, <1>7, <1>8, <1>9 DEF Flow, Staged
  <2>6. Moves(r) /\ tx'[r] = u
    BY <2>2, <2>3, <2>4, <2>5, <1>1, <1>2, <1>6, MoveFlow DEF Flow
  <2>7. ~MemberCommand(r)
    <3>1. s \in Visitor /\ s \notin Member
      BY <1>7, <1>9, SubjectsAssumption
    <3> QED BY <3>1, <1>1 DEF MemberCommand
  <2> QED BY <2>3, <2>6, <2>7, <1>1, <1>2, <1>3, <1>7, <1>9
<1>10. CASE ~ConsumeGrant(r)
  <2>1. u = [t EXCEPT !.subj = s, !.stage = Command[t.msg]]
    BY <1>10, <1>5
  <2>2. u \in Tx
    BY <2>1, <1>2, <1>4, <1>8 DEF Flow, Tx, Stage
  <2>3. /\ u.kind = t.kind /\ u.stage = Command[t.msg] /\ u.subj = s /\ u.msg = t.msg /\ u.grant = t.grant
        /\ u.held = t.held /\ u.base = t.base /\ u.cur = t.cur /\ u.wins = t.wins
        /\ u.seen = t.seen /\ u.chats = t.chats /\ u.replies = t.replies
    BY <2>1, <1>2 DEF Flow, Tx
  <2>4. Carried(u)
    BY <2>3, <1>2, <1>3 DEF Flow, Carried, WinsOnce
  <2>5. Staged(u)
    BY <2>3, <1>2, <1>3, <1>4, <1>8 DEF Flow, Staged
  <2>6. Moves(r) /\ tx'[r] = u
    BY <2>2, <2>3, <2>4, <2>5, <1>1, <1>2, <1>6, MoveFlow DEF Flow
  <2> QED BY <2>3, <2>6, <1>1, <1>2, <1>3, <1>10
<1> QED BY <1>9, <1>10

(* A message without a command, and a refund, end the dealing with the      *)
(* message and win nothing.                                                 *)
LEMMA SettleFlow ==
    ASSUME FlowInv, NEW r \in Req, NoCommand(r) \/ RefundGrant(r)
    PROVE  LET t == tx[r]
               u == tx'[r] IN
           /\ r \in Active /\ Moves(r) /\ Done(t, u) /\ t.cur = {}
           /\ NoCommand(r) => ~t.grant
           /\ RefundGrant(r) => t.grant /\ t.subj \in Visitor
<1>1. PICK t : t = tx[r]
  OBVIOUS
<1>2. r \in Active /\ t.stage \in {"command", "refund"} /\ Flow(t) /\ tx' = [tx EXCEPT ![r] = Dealt(t)]
  BY <1>1 DEF NoCommand, RefundGrant, At, FlowInv, Set
<1>3. t.kind = "batch" /\ t.msg \in Msg /\ t.cur = {} /\ t \in Tx /\ Carried(t)
  BY <1>2 DEF Flow, Tx, Staged
<1>4. Flow(Dealt(t)) /\ Done(t, Dealt(t))
  BY <1>3, DealtFlow
<1>5. Moves(r) /\ tx'[r] = Dealt(t)
  BY <1>1, <1>2, <1>4, MoveFlow DEF Done
<1>6. NoCommand(r) => ~t.grant
  BY <1>1, <1>2 DEF NoCommand, At, Flow, Staged
<1>7. RefundGrant(r) => t.grant /\ t.subj \in Visitor
  BY <1>1, <1>2 DEF RefundGrant, At, Flow, Staged
<1> QED BY <1>1, <1>2, <1>3, <1>4, <1>5, <1>6, <1>7

(* A win of t, the request being done with what it won.                     *)
WinsBy(t, u, w) ==
    /\ u.kind = t.kind /\ u.wins = t.wins \cup {w} /\ w \notin t.wins
    /\ u.cur = {} /\ ~u.grant /\ u.seen = t.seen

(* A close wins a command that is not counted.                              *)
LEMMA LogCloseFlow ==
    ASSUME FlowInv, NEW r \in Req, LogClose(r)
    PROVE  LET t == tx[r]
               u == tx'[r] IN
           /\ r \in Active /\ Moves(r) /\ WinsBy(t, u, WinOf(t, "close", FALSE)) /\ t.cur = {}
<1>1. PICK t, v : t = tx[r] /\ v = [t EXCEPT !.wins = @ \cup {WinOf(t, "close", FALSE)}]
  OBVIOUS
<1>2. r \in Active /\ t.stage = "close" /\ Flow(t) /\ tx' = [tx EXCEPT ![r] = Dealt(v)]
  BY <1>1 DEF LogClose, At, FlowInv, Set, Won, WinOf
<1>3. t.cur = {} /\ t \in Tx /\ Carried(t) /\ t.subj \in Subject
  BY <1>2 DEF Flow, Staged
<1>4. WinOf(t, "close", FALSE) \in Win
  BY <1>3 DEF WinOf, Win, Tx
<1>5. /\ v \in Tx /\ v.wins = t.wins \cup {WinOf(t, "close", FALSE)} /\ v.held = t.held
      /\ v.kind = t.kind /\ v.msg = t.msg /\ v.grant = t.grant /\ v.base = t.base /\ v.seen = t.seen
      /\ v.chats = t.chats /\ v.replies = t.replies
  BY <1>1, <1>3, <1>4 DEF Tx
<1>6. t.base \subseteq v.held /\ Ordered(v.held)
  BY <1>3, <1>5 DEF Carried
<1>7. WinOf(t, "close", FALSE) \notin t.wins /\ Flow(Dealt(v)) /\ Done(v, Dealt(v))
  BY <1>2, <1>5, <1>6, WinFlow
<1>8. Moves(r) /\ tx'[r] = Dealt(v)
  <2>1. Dealt(v).held \subseteq t.held /\ Dealt(v).chats \subseteq t.chats
    BY <1>1, <1>2, <1>5, <1>7 DEF Done
  <2>2. r \in Active /\ Flow(Dealt(v)) /\ tx' = [tx EXCEPT ![r] = Dealt(v)]
    BY <1>1, <1>2, <1>5, <1>7
  <2> QED BY <2>1, <2>2, <1>1, MoveFlow
<1> QED BY <1>1, <1>2, <1>3, <1>5, <1>7, <1>8 DEF WinsBy, Done

(* The checks of status and cooldown win nothing and bump nothing.          *)
LEMMA LogOpenFlow ==
    ASSUME FlowInv, NEW r \in Req, LogOpen(r)
    PROVE  LET t == tx[r]
               u == tx'[r] IN
           r \in Active /\ Moves(r) /\ Goes(t, u) /\ u.wins = t.wins /\ u.cur = t.cur
<1>1. PICK t : t = tx[r]
  OBVIOUS
<1>2. r \in Active /\ t.stage \in {"open", "status"} /\ Flow(t)
  BY <1>1 DEF LogOpen, At, FlowInv
<1>3. CASE Denied(r)
  <2>1. tx' = [tx EXCEPT ![r] = AfterDenial(t)]
    BY <1>1, <1>3 DEF LogOpen, Set
  <2>2. t \in Tx /\ Carried(t) /\ t.cur = {} /\ (t.grant => t.subj \in Visitor)
    BY <1>2 DEF Flow, Staged
  <2>3. t.kind = "batch" =>
               /\ t.msg \in Msg
               /\ \A w \in t.wins : w.msg # t.msg /\ (w.counted => RowsOf(w.subj) \subseteq t.base)
    BY <1>2 DEF Flow, Staged
  <2>4. Flow(AfterDenial(t)) /\ Undone(t, AfterDenial(t))
    BY <2>2, <2>3, DenialFlow
  <2>5. Moves(r) /\ tx'[r] = AfterDenial(t)
    BY <2>1, <2>4, <1>1, <1>2, MoveFlow DEF Undone
  <2> QED BY <2>2, <2>4, <2>5, <1>1, <1>2 DEF Undone, Goes
<1>4. CASE ~Denied(r)
  <2>1. Goto(r, "member")
    BY <1>4 DEF LogOpen
  <2> QED BY <2>1, <1>1, <1>2, GotoFlow
<1> QED BY <1>3, <1>4

(* The member's row is bumped and in hand, or nothing is.                   *)
LEMMA BumpMemberFlow ==
    ASSUME FlowInv, NEW r \in Req, BumpMember(r)
    PROVE  LET t == tx[r]
               u == tx'[r]
               row == MemberRow(t.subj) IN
           /\ r \in Active /\ Moves(r) /\ Goes(t, u) /\ u.wins = t.wins /\ t.cur = {}
           /\ t.subj \in Subject
           /\ \/ HasRoom(row, t.subj) /\ counter' = Bumped({row}) /\ u.cur = {row}
              \/ counter' = counter /\ u.cur = {}
<1>1. PICK t, row, v : t = tx[r] /\ row = MemberRow(t.subj) /\ v = [t EXCEPT !.held = @ \cup {row}]
  OBVIOUS
<1>2. r \in Active /\ t.stage = "member" /\ Flow(t) /\ \A q \in Active \ {r} : row \notin tx[q].held
  BY <1>1 DEF BumpMember, At, FlowInv, HeldByOther
<1>3. t \in Tx /\ Carried(t) /\ t.cur = {} /\ t.subj \in Subject /\ (t.grant => t.subj \in Visitor)
  BY <1>2 DEF Flow, Staged
<1>4. row \in Row /\ row[1] = "opens_1h"
  BY <1>1, <1>3, Rows
<1>5. /\ v \in Tx /\ v.wins = t.wins /\ v.held = t.held \cup {row} /\ v.subj = t.subj /\ v.cur = t.cur
      /\ v.kind = t.kind /\ v.msg = t.msg /\ v.grant = t.grant /\ v.base = t.base /\ v.seen = t.seen
      /\ v.chats = t.chats /\ v.replies = t.replies
  BY <1>1, <1>3, <1>4 DEF Tx
<1>6. Carried(v)
  <2>1. Ordered(v.held)
    BY <1>3, <1>4, <1>5 DEF Ordered, Carried
  <2>2. WinsOnce(v)
    BY <1>3, <1>5 DEF Carried, WinsOnce
  <2> QED BY <2>1, <2>2, <1>3, <1>5 DEF Carried
<1>7. t.kind = "batch" =>
               /\ t.msg \in Msg
               /\ \A w \in t.wins : w.msg # t.msg /\ (w.counted => RowsOf(w.subj) \subseteq t.base)
  BY <1>2 DEF Flow, Staged
<1>8. \A q \in Active \ {r} : Apart(v, tx[q])
  <2> SUFFICES ASSUME NEW q \in Active \ {r} PROVE Apart(v, tx[q])
    OBVIOUS
  <2>1. Apart(t, tx[q])
    BY <1>1, <1>2 DEF FlowInv
  <2> QED BY <2>1, <1>2, <1>5 DEF Apart
<1>9. CASE HasRoom(row, t.subj)
  <2>1. PICK u : u = [v EXCEPT !.cur = {row}, !.stage = "rest"]
    OBVIOUS
  <2>2. tx' = [tx EXCEPT ![r] = u] /\ counter' = Bumped({row})
    BY <2>1, <1>1, <1>9 DEF BumpMember, Set
  <2>3. u \in Tx
    BY <2>1, <1>4, <1>5 DEF Tx, Stage
  <2>4. /\ u.kind = t.kind /\ u.stage = "rest" /\ u.subj = t.subj /\ u.msg = t.msg /\ u.grant = t.grant
        /\ u.held = v.held /\ u.base = t.base /\ u.cur = {row} /\ u.wins = t.wins
        /\ u.seen = t.seen /\ u.chats = t.chats /\ u.replies = t.replies
    BY <2>1, <1>5 DEF Tx
  <2>5. Carried(u)
    BY <2>4, <1>5, <1>6 DEF Carried, WinsOnce
  <2>6. Staged(u)
    BY <2>4, <1>1, <1>2, <1>5 DEF Flow, Staged
  <2>7. tx'[r] = u
    BY <2>2 DEF FlowInv
  <2>8. \A q \in Active \ {r} : Apart(u, tx[q])
    BY <2>4, <1>5, <1>8 DEF Apart
  <2>9. Moves(r)
    BY <2>2, <2>3, <2>5, <2>6, <2>7, <2>8 DEF Moves, Flow
  <2> QED BY <2>2, <2>4, <2>7, <2>9, <1>1, <1>2, <1>3, <1>9 DEF Goes
<1>10. CASE ~HasRoom(row, t.subj)
  <2>1. tx' = [tx EXCEPT ![r] = AfterDenial(v)] /\ counter' = counter
    BY <1>1, <1>10 DEF BumpMember, Set
  <2>2. Flow(AfterDenial(v)) /\ Undone(v, AfterDenial(v))
    BY <1>3, <1>5, <1>6, <1>7, DenialFlow
  <2>3. tx'[r] = AfterDenial(v)
    BY <2>1 DEF FlowInv
  <2>4. \A q \in Active \ {r} : Apart(AfterDenial(v), tx[q])
    BY <2>2, <1>8 DEF Apart, Undone
  <2>5. Moves(r)
    BY <2>1, <2>2, <2>3, <2>4 DEF Moves
  <2> QED BY <2>1, <2>2, <2>3, <2>5, <1>1, <1>2, <1>3, <1>5 DEF Goes, Undone
<1> QED BY <1>9, <1>10

(* A degraded open wins a command that is not counted and hands back what   *)
(* it bumped.                                                               *)
LEMMA DegradeFlow ==
    ASSUME FlowInv, NEW r \in Req, Degrade(r)
    PROVE  LET t == tx[r]
               u == tx'[r] IN
           /\ r \in Active /\ Moves(r) /\ WinsBy(t, u, WinOf(t, "open", FALSE))
           /\ counter' = Unbumped(t.cur)
<1>1. PICK t, w : t = tx[r] /\ w = WinOf(t, "open", FALSE)
  OBVIOUS
<1>2. PICK v : v = [[t EXCEPT !.wins = @ \cup {w}] EXCEPT !.held = t.base]
  OBVIOUS
<1>3. r \in Active /\ t.stage \in {"member", "rest"} /\ Flow(t) /\ tx' = [tx EXCEPT ![r] = Dealt(v)]
      /\ counter' = Unbumped(t.cur)
  BY <1>1, <1>2 DEF Degrade, At, FlowInv, Set, Won, WinOf
<1>4. t \in Tx /\ Carried(t) /\ t.subj \in Subject
  BY <1>3 DEF Flow, Staged
<1>5. w \in Win
  BY <1>1, <1>4 DEF WinOf, Win, Tx
<1>6. /\ v \in Tx /\ v.wins = t.wins \cup {w} /\ v.held = t.base
      /\ v.kind = t.kind /\ v.msg = t.msg /\ v.grant = t.grant /\ v.base = t.base /\ v.seen = t.seen
      /\ v.chats = t.chats /\ v.replies = t.replies
  BY <1>2, <1>4, <1>5 DEF Tx
<1>7. t.base \subseteq v.held /\ Ordered(v.held) /\ v.held \subseteq t.held
  BY <1>4, <1>6 DEF Carried
<1>8. w \notin t.wins /\ Flow(Dealt(v)) /\ Done(v, Dealt(v))
  BY <1>1, <1>3, <1>6, <1>7, WinFlow
<1>9. Moves(r) /\ tx'[r] = Dealt(v)
  <2>1. Dealt(v).held \subseteq t.held /\ Dealt(v).chats \subseteq t.chats
    BY <1>1, <1>3, <1>6, <1>7, <1>8 DEF Done
  <2>2. r \in Active /\ Flow(Dealt(v)) /\ tx' = [tx EXCEPT ![r] = Dealt(v)]
    BY <1>1, <1>3, <1>6, <1>7, <1>8
  <2> QED BY <2>1, <2>2, <1>1, MoveFlow
<1> QED BY <1>1, <1>3, <1>6, <1>8, <1>9 DEF WinsBy, Done

(* The rows bumped last.                                                    *)
Later(s) == {LaterRows(s)[i] : i \in 1 .. 3}

(* The other rows are bumped, all with room and out of the cooldown, and    *)
(* the open is counted; or what is in hand is handed back.                  *)
LEMMA BumpRestFlow ==
    ASSUME FlowInv, NEW r \in Req, BumpRest(r)
    PROVE  LET t == tx[r]
               u == tx'[r]
               s == t.subj IN
           /\ r \in Active /\ Moves(r) /\ s \in Subject /\ t.cur = {MemberRow(s)} /\ u.seen = t.seen
           /\ \/ /\ WinsBy(t, u, WinOf(t, "open", TRUE))
                 /\ counter' = Bumped(Later(s))
                 /\ \A i \in 1 .. 3 : HasRoom(LaterRows(s)[i], s)
                 /\ s \notin cooling /\ RowsOf(s) \subseteq u.held
                 /\ \A x \in t.wins : x.counted => x.subj # s
              \/ Goes(t, u) /\ u.wins = t.wins /\ u.cur = {} /\ counter' = Unbumped(t.cur)
<1>1. PICK t, s, row : t = tx[r] /\ s = t.subj /\ row = LaterRows(s)
  OBVIOUS
<1>2. PICK full, touched : /\ full = {i \in 1 .. 3 : ~HasRoom(row[i], s)}
                           /\ touched = {row[i] : i \in {j \in 1 .. 3 : \A k \in full : j <= k}}
  OBVIOUS
<1>3. /\ r \in Active /\ t.stage = "rest" /\ Flow(t) /\ \A q \in Active \ {r} : row[1] \notin tx[q].held
  BY <1>1 DEF BumpRest, At, FlowInv, HeldByOther
<1>4. /\ t \in Tx /\ Carried(t) /\ s \in Subject /\ (t.grant => t.subj \in Visitor)
      /\ t.cur = {MemberRow(s)} /\ MemberRow(s) \in t.held
  BY <1>1, <1>3 DEF Flow, Staged
<1>5. /\ row[1] = AcctRow /\ AcctRow \in Row
      /\ \A i \in 1 .. 3 : row[i] \in Row /\ row[i][1] # "opens_1h"
      /\ RowsOf(s) = {MemberRow(s)} \cup Later(s)
  BY <1>1, <1>4, Rows DEF Later
<1>6. touched \subseteq Row /\ AcctRow \in touched /\ \A x \in touched : x[1] # "opens_1h"
  <2>1. 1 \in {j \in 1 .. 3 : \A k \in full : j <= k}
    BY <1>2
  <2> QED BY <2>1, <1>2, <1>5
<1>7. PICK held : held = t.held \cup touched
  OBVIOUS
<1>8. held \subseteq Row /\ Ordered(held) /\ t.held \subseteq held /\ t.base \subseteq held
  BY <1>4, <1>6, <1>7 DEF Tx, Carried, Ordered
<1>9. \A q \in Active \ {r} : held \cap tx[q].held = {} /\ t.chats \cap tx[q].chats = {}
  <2> SUFFICES ASSUME NEW q \in Active \ {r} PROVE held \cap tx[q].held = {} /\ t.chats \cap tx[q].chats = {}
    OBVIOUS
  <2>1. Apart(t, tx[q]) /\ Ordered(tx[q].held)
    BY <1>1, <1>3 DEF FlowInv, Flow, Carried
  <2>2. AcctRow \notin tx[q].held
    BY <1>3, <1>5
  <2>3. \A x \in tx[q].held : x[1] = "opens_1h"
    BY <2>1, <2>2 DEF Ordered
  <2> QED BY <2>1, <2>3, <1>6, <1>7 DEF Apart
<1>10. t.kind = "batch" =>
               /\ t.msg \in Msg
               /\ \A w \in t.wins : w.msg # t.msg /\ (w.counted => RowsOf(w.subj) \subseteq t.base)
  BY <1>3 DEF Flow, Staged
<1>11. CASE full = {} /\ CooldownClaimed(r, s)
  <2>1. PICK w, v : w = WinOf(t, "open", TRUE) /\ v = [[t EXCEPT !.wins = @ \cup {w}] EXCEPT !.held = @ \cup touched]
    OBVIOUS
  <2>2. tx' = [tx EXCEPT ![r] = Dealt(v)] /\ counter' = Bumped(touched)
    BY <2>1, <1>1, <1>2, <1>11 DEF BumpRest, Set, Won, WinOf
  <2>3. touched = Later(s)
    BY <1>1, <1>2, <1>11 DEF Later
  <2>4. \A i \in 1 .. 3 : HasRoom(row[i], s)
    BY <1>2, <1>11
  <2>5. s \notin cooling /\ \A x \in t.wins : x.counted => x.subj # s
    BY <1>1, <1>11 DEF CooldownClaimed, Cooling
  <2>6. w \in Win
    BY <2>1, <1>1, <1>4 DEF WinOf, Win, Tx
  <2>7. /\ v \in Tx /\ v.wins = t.wins \cup {w} /\ v.held = held
        /\ v.kind = t.kind /\ v.msg = t.msg /\ v.grant = t.grant /\ v.base = t.base /\ v.seen = t.seen
        /\ v.chats = t.chats /\ v.replies = t.replies
    BY <2>1, <2>6, <1>4, <1>7, <1>8 DEF Tx
  <2>8. RowsOf(t.subj) \subseteq v.held
    BY <2>3, <2>7, <1>1, <1>4, <1>5, <1>7
  <2>9. w \notin t.wins /\ Flow(Dealt(v)) /\ Done(v, Dealt(v))
    BY <2>1, <2>5, <2>7, <2>8, <1>1, <1>3, <1>8, WinFlow
  <2>10. tx'[r] = Dealt(v)
    BY <2>2 DEF FlowInv
  <2>11. \A q \in Active \ {r} : Apart(Dealt(v), tx[q])
    BY <2>7, <2>9, <1>9 DEF Apart, Done
  <2>12. Moves(r)
    BY <2>2, <2>9, <2>10, <2>11 DEF Moves
  <2>13. WinsBy(t, Dealt(v), w) /\ Dealt(v).held = v.held /\ Dealt(v).seen = t.seen
    BY <2>7, <2>9 DEF WinsBy, Done
  <2> QED BY <2>1, <2>2, <2>3, <2>4, <2>5, <2>8, <2>10, <2>12, <2>13, <1>1, <1>3, <1>4
<1>12. CASE ~(full = {} /\ CooldownClaimed(r, s))
  <2>1. PICK v : v = [t EXCEPT !.held = @ \cup touched]
    OBVIOUS
  <2>2. tx' = [tx EXCEPT ![r] = AfterDenial(v)] /\ counter' = Unbumped(t.cur)
    BY <2>1, <1>1, <1>2, <1>12 DEF BumpRest, Set, HandBack
  <2>3. /\ v \in Tx /\ v.wins = t.wins /\ v.held = held /\ v.subj = t.subj /\ v.cur = t.cur
        /\ v.kind = t.kind /\ v.msg = t.msg /\ v.grant = t.grant /\ v.base = t.base /\ v.seen = t.seen
        /\ v.chats = t.chats /\ v.replies = t.replies
    BY <2>1, <1>4, <1>7, <1>8 DEF Tx
  <2>4. Carried(v)
    <3>1. WinsOnce(v)
      BY <2>3, <1>4, <1>8 DEF Carried, WinsOnce
    <3> QED BY <3>1, <2>3, <1>4, <1>8 DEF Carried
  <2>5. Flow(AfterDenial(v)) /\ Undone(v, AfterDenial(v))
    BY <2>3, <2>4, <1>4, <1>10, DenialFlow
  <2>6. tx'[r] = AfterDenial(v)
    BY <2>2 DEF FlowInv
  <2>7. \A q \in Active \ {r} : Apart(AfterDenial(v), tx[q])
    BY <2>3, <2>5, <1>9 DEF Apart, Undone
  <2>8. Moves(r)
    BY <2>2, <2>5, <2>6, <2>7 DEF Moves
  <2>9. /\ Goes(t, AfterDenial(v)) /\ AfterDenial(v).wins = t.wins /\ AfterDenial(v).cur = {}
        /\ AfterDenial(v).seen = t.seen
    BY <2>3, <2>5 DEF Goes, Undone
  <2> QED BY <2>2, <2>6, <2>8, <2>9, <1>1, <1>3, <1>4
<1> QED BY <1>11, <1>12

(* A bar is lifted: nothing else of a record changes.                       *)
Alike(t, u) ==
    /\ u.kind = t.kind /\ u.stage = t.stage /\ u.subj = t.subj /\ u.msg = t.msg /\ u.grant = t.grant
    /\ u.held = t.held /\ u.base = t.base /\ u.cur = t.cur /\ u.wins = t.wins /\ u.seen = t.seen
    /\ u.chats = t.chats /\ u.replies = t.replies

(* The end of a bar changes only the marks of the requests.                 *)
LEMMA UnbarFlow ==
    ASSUME FlowInv, NEW s, Unbar(s)
    PROVE  /\ FlowInv'
           /\ Active' = Active
           /\ \A r \in Active : Alike(tx[r], tx'[r])
           /\ \A r \in Req \ Active : tx'[r] = tx[r]
<1>1. \A r \in Req : tx'[r] = IF r \in Active THEN [tx[r] EXCEPT !.barred = @ \ {s}] ELSE tx[r]
  BY DEF Unbar
<1>2. ASSUME NEW r \in Active PROVE Flow(tx'[r]) /\ Alike(tx[r], tx'[r])
  <2>1. PICK t, u : t = tx[r] /\ u = [t EXCEPT !.barred = @ \ {s}]
    OBVIOUS
  <2>2. tx'[r] = u /\ Flow(t)
    BY <2>1, <1>1 DEF Active, FlowInv
  <2>3. u \in Tx /\ Alike(t, u)
    BY <2>1, <2>2 DEF Flow, Tx, Alike
  <2>4. Carried(u)
    BY <2>2, <2>3 DEF Flow, Carried, WinsOnce, Alike
  <2>5. Staged(u)
    BY <2>2, <2>3 DEF Flow, Staged, Alike
  <2> QED BY <2>1, <2>2, <2>3, <2>4, <2>5 DEF Flow
<1>3. Active' = Active
  <2>1. \A r \in Req : r \in Active' <=> tx'[r].kind \in {"request", "batch"}
    BY DEF Active
  <2>2. \A r \in Active : tx'[r].kind = tx[r].kind
    BY <1>2 DEF Alike
  <2>3. \A r \in Req : r \in Active' <=> r \in Active
    BY <2>1, <2>2, <1>1 DEF Active
  <2> QED BY <2>3 DEF Active
<1>4. tx' \in [Req -> Tx \cup Replying \cup {Idle}]
  <2>1. \A r \in Req : tx'[r] \in Tx \cup Replying \cup {Idle}
    BY <1>1, <1>2 DEF FlowInv, Flow
  <2>2. tx' = [r \in Req |-> tx'[r]]
    BY DEF Unbar
  <2> QED BY <2>1, <2>2
<1>5. \A p, q \in Active : p # q => Apart(tx'[p], tx'[q])
  BY <1>2 DEF FlowInv, Apart, Alike
<1>6. barred' \subseteq Member \cup {NoSubject}
  BY DEF FlowInv, Unbar
<1>7. \A r \in Req \ Active : tx'[r] = tx[r]
  BY <1>1
<1>8. FlowInv'
  BY <1>2, <1>3, <1>4, <1>5, <1>6 DEF FlowInv
<1> QED BY <1>2, <1>3, <1>7, <1>8

-----------------------------------------------------------------------------
(* The kinds of steps; the requests stay apart.                            *)

(* A step of a request that stays open.                                     *)
Works(r) ==
    \/ TakeMessage(r) \/ ConsumeGrant(r) \/ MemberCommand(r) \/ NoCommand(r)
    \/ LogClose(r) \/ LogOpen(r) \/ BumpMember(r) \/ BumpRest(r) \/ Degrade(r)
    \/ RefundGrant(r)

(* A message that is recorded was not committed before.                     *)
Recorded(t, u) == u.seen = t.seen \/ \E m \in Msg : m \notin seen /\ u.seen = t.seen \cup {m}

(* What no step of an open transaction changes.                             *)
LEMMA WorkFlow ==
    ASSUME FlowInv, NEW r \in Req, Works(r)
    PROVE  /\ r \in Active /\ Moves(r)
           /\ tx'[r].kind = tx[r].kind /\ Recorded(tx[r], tx'[r])
           /\ UNCHANGED <<cooling, grantless, lost, opened, spent, seen, acted, answered, barred>>
<1>1. CASE TakeMessage(r)
  BY <1>1, TakeMessageFlow DEF TakeMessage, Recorded, limits, grants, logged
<1>2. CASE ConsumeGrant(r) \/ MemberCommand(r)
  BY <1>2, CommandFlow DEF ConsumeGrant, MemberCommand, Recorded, limits, grants, logged
<1>3. CASE NoCommand(r) \/ RefundGrant(r)
  BY <1>3, SettleFlow DEF NoCommand, RefundGrant, Recorded, limits, grants, logged, Done
<1>4. CASE LogClose(r)
  BY <1>4, LogCloseFlow DEF LogClose, Recorded, limits, grants, logged, WinsBy
<1>5. CASE LogOpen(r)
  BY <1>5, LogOpenFlow DEF LogOpen, Recorded, limits, grants, logged, Goes
<1>6. CASE BumpMember(r)
  BY <1>6, BumpMemberFlow DEF BumpMember, Recorded, limits, grants, logged, Goes
<1>7. CASE BumpRest(r)
  BY <1>7, BumpRestFlow DEF BumpRest, Recorded, limits, grants, logged, Goes, WinsBy
<1>8. CASE Degrade(r)
  BY <1>8, DegradeFlow DEF Degrade, Recorded, limits, grants, logged, WinsBy
<1> QED BY <1>1, <1>2, <1>3, <1>4, <1>5, <1>6, <1>7, <1>8 DEF Works

(* A request or batch begins.                                               *)
Begins(r) ==
    /\ r \in Req \ Active
    /\ tx[r] = Idle
    /\ tx' = [tx EXCEPT ![r] = tx'[r]]
    /\ Flow(tx'[r])
    /\ tx'[r].wins = {} /\ tx'[r].cur = {} /\ tx'[r].seen = {} /\ ~tx'[r].grant
    /\ tx'[r].held = {} /\ tx'[r].chats = {}
    /\ UNCHANGED <<counter, cooling, uses, grantless, lost, opened, spent, seen, acted, answered, barred>>

(* A request comes in, or a batch.                                          *)
Starts(r) ==
    \/ \E u \in Member : OpenRequest(r, u) \/ SlackOpen(r, u)
    \/ \E ms \in Delivery : Deliver(r, ms)

(* It begins with nothing in hand and no lock.                              *)
LEMMA StartFlow ==
    ASSUME FlowInv, NEW r \in Req, Starts(r)
    PROVE  Begins(r)
<1>1. tx[r].kind = "idle"
  BY DEF Starts, OpenRequest, SlackOpen, Request, Deliver
<1>2. tx[r] = Idle /\ r \notin Active
  BY <1>1, Kinds DEF FlowInv
<1>3. PICK kind, stage, s, ms :
          /\ \/ kind = "request" /\ stage = "status" /\ s \in Subject /\ ms = <<>>
             \/ kind = "batch" /\ stage = "next" /\ s = NoSubject /\ ms \in Delivery
          /\ tx' = [tx EXCEPT ![r] = Begun(kind, stage, s, ms)]
  BY DEF Starts, OpenRequest, SlackOpen, Request, Deliver, Set, Subject
<1>4. PICK u : u = Begun(kind, stage, s, ms)
  OBVIOUS
<1>5. /\ Flow(u) /\ u.wins = {} /\ u.cur = {} /\ u.seen = {} /\ u.chats = {}
      /\ ~u.grant /\ u.held = {}
  BY <1>3, <1>4, BegunFlow
<1>6. tx' = [tx EXCEPT ![r] = u] /\ tx'[r] = u
  BY <1>3, <1>4 DEF FlowInv
<1>7. UNCHANGED <<counter, cooling, uses, grantless, lost, opened, spent, seen, acted, answered, barred>>
  BY DEF Starts, OpenRequest, SlackOpen, Request, Deliver, limits, grants, logged, bounds
<1> QED BY <1>2, <1>5, <1>6, <1>7 DEF Begins

(* A request is over, or its replies are.                                   *)
Over(r) ==
    /\ r \in Req
    /\ tx' = [tx EXCEPT ![r] = tx'[r]]
    /\ tx'[r] \in Replying \cup {Idle}
    /\ barred' = barred

(* What the end of a transaction, and of its replies, leave of it.          *)
LEMMA OverFlow ==
    ASSUME FlowInv, NEW r \in Req
    PROVE  /\ Commit(r) \/ Abort(r) => r \in Active
           /\ StopReplying(r) \/ (\E m \in Msg : Reply(r, m)) => tx[r] \in Replying /\ r \notin Active
           /\ Commit(r) \/ Abort(r) \/ StopReplying(r) \/ (\E m \in Msg : Reply(r, m)) => Over(r)
           /\ Commit(r) => tx'[r] = IF tx[r].replies = {} THEN Idle ELSE [kind |-> "reply", replies |-> tx[r].replies]
           /\ Abort(r) \/ StopReplying(r) => tx'[r] = Idle
<1>1. Commit(r) \/ Abort(r) => r \in Active
  BY DEF Commit, Abort, At
<1>2. StopReplying(r) \/ (\E m \in Msg : Reply(r, m)) => tx[r] \in Replying /\ r \notin Active
  <2>1. StopReplying(r) \/ (\E m \in Msg : Reply(r, m)) => tx[r].kind = "reply"
    BY DEF StopReplying, Reply
  <2> QED BY <2>1, Kinds DEF FlowInv
<1>3. \A u : tx' = [tx EXCEPT ![r] = u] => tx'[r] = u
  BY DEF FlowInv
<1>4. ASSUME Commit(r)
      PROVE  Over(r) /\ tx'[r] = IF tx[r].replies = {} THEN Idle ELSE [kind |-> "reply", replies |-> tx[r].replies]
  <2>1. PICK u : u = IF tx[r].replies = {} THEN Idle ELSE [kind |-> "reply", replies |-> tx[r].replies]
    OBVIOUS
  <2>2. tx' = [tx EXCEPT ![r] = u] /\ barred' = barred
    BY <2>1, <1>4 DEF Commit, Set
  <2>3. tx[r].replies \subseteq Msg
    BY <1>1, <1>4 DEF FlowInv, Flow, Tx
  <2>4. u \in Replying \cup {Idle}
    BY <2>1, <2>3 DEF Replying
  <2> QED BY <2>1, <2>2, <2>4, <1>3 DEF Over
<1>5. ASSUME Abort(r) \/ StopReplying(r) PROVE Over(r) /\ tx'[r] = Idle
  <2>1. tx' = [tx EXCEPT ![r] = Idle] /\ barred' = barred
    BY <1>5 DEF Abort, StopReplying, Set
  <2> QED BY <2>1, <1>3 DEF Over
<1>6. ASSUME NEW m \in Msg, Reply(r, m) PROVE Over(r)
  <2>1. PICK u : u = IF tx[r].replies = {m} THEN Idle ELSE [tx[r] EXCEPT !.replies = @ \ {m}]
    OBVIOUS
  <2>2. tx' = [tx EXCEPT ![r] = u] /\ barred' = barred
    BY <2>1, <1>6 DEF Reply, Set
  <2>3. tx[r] \in Replying
    BY <1>2, <1>6
  <2>4. u \in Replying \cup {Idle}
    BY <2>1, <2>3 DEF Replying
  <2> QED BY <2>1, <2>2, <2>4, <1>3 DEF Over
<1> QED BY <1>1, <1>2, <1>4, <1>5, <1>6

(* Steps of no request.                                                     *)
Elsewhere ==
    \/ \E s \in Subject : CooldownElapses(s)
    \/ \E v \in Visitor : GrantAccess(v) \/ RevokeGrant(v)
    \/ \E s \in Member \cup {NoSubject} : Bar(s)

(* Every step is of one of these kinds.                                     *)
LEMMA StepKinds ==
    ASSUME Next
    PROVE  \/ \E r \in Req : Starts(r) \/ Works(r) \/ Commit(r) \/ Abort(r) \/ StopReplying(r)
           \/ \E r \in Req, m \in Msg : Reply(r, m)
           \/ \E s \in Member \cup {NoSubject} : Unbar(s)
           \/ Elsewhere
BY DEF Next, TxStep, Starts, Works, Elsewhere

(* The steps outside requests leave requests, counters and logs alone.      *)
LEMMA ElsewhereFlow ==
    ASSUME Elsewhere
    PROVE  /\ UNCHANGED <<counter, uses, lost, opened, spent, seen, acted, answered, tx>>
           /\ barred' \subseteq barred \cup Member \cup {NoSubject}
           /\ cooling' \subseteq cooling
<1>1. CASE \E s \in Subject : CooldownElapses(s)
  BY <1>1 DEF CooldownElapses, grants, logged
<1>2. CASE \E v \in Visitor : GrantAccess(v) \/ RevokeGrant(v)
  BY <1>2 DEF GrantAccess, RevokeGrant, limits, logged
<1>3. CASE \E s \in Member \cup {NoSubject} : Bar(s)
  BY <1>3 DEF Bar, grants, logged, limits
<1> QED BY <1>1, <1>2, <1>3 DEF Elsewhere

(* The lock discipline is kept.                                             *)
LEMMA FlowNext ==
    ASSUME FlowInv, [Next]_vars
    PROVE  FlowInv'
<1>1. ASSUME NEW r \in Req, Starts(r) PROVE FlowInv'
  <2>1. Begins(r)
    BY <1>1, StartFlow
  <2>2. \A q \in Active \ {r} : Apart(tx'[r], tx[q])
    BY <2>1 DEF Begins, Apart
  <2> QED BY <2>1, <2>2, OneMoves DEF Begins
<1>2. ASSUME NEW r \in Req, Works(r) PROVE FlowInv'
  <2>1. Moves(r) /\ barred' = barred
    BY <1>2, WorkFlow
  <2> QED BY <2>1, OneMoves DEF Moves
<1>3. ASSUME NEW r \in Req, Over(r) PROVE FlowInv'
  BY <1>3, OneMoves DEF Over
<1>4. ASSUME NEW s, Unbar(s) PROVE FlowInv'
  BY <1>4, UnbarFlow
<1>5. ASSUME UNCHANGED <<tx>>, barred' \subseteq Member \cup {NoSubject} PROVE FlowInv'
  <2>1. tx' = tx /\ Active' = Active
    BY <1>5 DEF Active
  <2> QED BY <2>1, <1>5 DEF FlowInv
<1>6. CASE Next
  <2>1. ASSUME NEW r \in Req, Commit(r) \/ Abort(r) \/ StopReplying(r) \/ \E m \in Msg : Reply(r, m) PROVE FlowInv'
    BY <2>1, <1>3, OverFlow
  <2>2. ASSUME Elsewhere PROVE FlowInv'
    BY <2>2, <1>5, ElsewhereFlow DEF FlowInv
  <2> QED BY <2>1, <2>2, <1>1, <1>2, <1>4, <1>6, StepKinds
<1>7. CASE UNCHANGED vars
  BY <1>7, <1>5 DEF vars, FlowInv
<1> QED BY <1>6, <1>7

-----------------------------------------------------------------------------
(* Messages are acted on and answered once.                                *)

(* A message is recorded before it is acted on, and in one place at a time: *)
(* in the committed rows, or by the one request that has its sender's chat. *)
MessageInv ==
    /\ seen \subseteq Msg
    /\ acted \in [Msg -> {0, 1}] /\ answered \in [Msg -> {0, 1}]
    /\ \A m \in Msg : acted[m] = 1 \/ answered[m] = 1 => m \in seen
    /\ \A r \in Active : tx[r].seen \cap seen = {}
    /\ \A r \in Req \ Active : tx[r].kind = "reply" =>
          \A m \in tx[r].replies : m \in seen /\ answered[m] = 0
    /\ \A r, q \in Req \ Active : r # q /\ tx[r].kind = "reply" /\ tx[q].kind = "reply" =>
          tx[r].replies \cap tx[q].replies = {}

(* No two open transactions have recorded the same message.                 *)
LEMMA SeenApart ==
    ASSUME FlowInv, NEW r \in Active, NEW q \in Active, r # q
    PROVE  tx[r].seen \cap tx[q].seen = {}
<1>1. Apart(tx[r], tx[q]) /\ Flow(tx[r]) /\ Flow(tx[q])
  BY DEF FlowInv
<1>2. ASSUME NEW p \in Active, Flow(tx[p]) PROVE \A m \in tx[p].seen : Sender[m] \in tx[p].chats
  <2>1. tx[p].kind \in {"request", "batch"}
    BY <1>2 DEF Flow, Tx
  <2> QED BY <2>1, <1>2 DEF Flow, Carried
<1> QED BY <1>1, <1>2 DEF Apart

(* A step that commits and answers nothing.                                 *)
LEMMA MessagesRest ==
    ASSUME FlowInv, MessageInv, NEW r \in Req, tx' = [tx EXCEPT ![r] = tx'[r]],
           UNCHANGED <<seen, acted, answered>>,
           \/ r \in Active' /\ tx'[r].seen \cap seen = {}
           \/ r \notin Active' /\ tx'[r] = Idle
    PROVE  MessageInv'
<1>1. \A q \in Req : q # r => tx'[q] = tx[q] /\ (q \in Active' <=> q \in Active)
  BY DEF FlowInv, Active
<1>2. Idle.kind = "idle"
  BY DEF Idle
<1>3. \A q \in Active' : tx'[q].seen \cap seen' = {}
  BY <1>1 DEF MessageInv, Active
<1>4. \A q \in Req \ Active' : tx'[q].kind = "reply" => q # r
  BY <1>2
<1>5. seen' = seen /\ acted' = acted /\ answered' = answered
  OBVIOUS
<1>6. \A q \in Req \ Active' : tx'[q].kind = "reply" =>
         \A m \in tx'[q].replies : m \in seen' /\ answered'[m] = 0
  BY <1>1, <1>4, <1>5 DEF MessageInv
<1>7. \A p, q \in Req \ Active' : p # q /\ tx'[p].kind = "reply" /\ tx'[q].kind = "reply" =>
          tx'[p].replies \cap tx'[q].replies = {}
  BY <1>1, <1>4 DEF MessageInv
<1> QED BY <1>3, <1>5, <1>6, <1>7 DEF MessageInv

(* A commit acts on messages nobody has acted on.                           *)
LEMMA MessageCommit ==
    ASSUME FlowInv, MessageInv, NEW r \in Req, Commit(r)
    PROVE  MessageInv'
<1>1. PICK t : t = tx[r]
  OBVIOUS
<1>2. r \in Active /\ Flow(t) /\ Over(r) /\ DOMAIN tx = Req
  BY <1>1, OverFlow DEF FlowInv
<1>3. tx'[r] = IF t.replies = {} THEN Idle ELSE [kind |-> "reply", replies |-> t.replies]
  BY <1>1, OverFlow
<1>4. t.seen \subseteq Msg /\ t.replies \subseteq t.seen /\ \A w \in t.wins : w.msg \in t.seen \cup {NoMsg}
  BY <1>2 DEF Flow, Tx, Carried
<1>5. /\ IsFiniteSet(t.wins) /\ \A w, x \in t.wins : w.msg = x.msg => w = x
  BY <1>2 DEF Flow, Carried, WinsOnce
<1>6. seen' = seen \cup t.seen /\ t.seen \cap seen = {} /\ answered' = answered
      /\ acted' = [m \in Msg |-> acted[m] + Cardinality({w \in t.wins : w.msg = m})]
  BY <1>1, <1>2 DEF Commit, MessageInv
<1>7. ASSUME NEW m \in Msg
      PROVE  acted'[m] \in {0, 1} /\ (acted'[m] = 1 => m \in seen')
  <2>1. PICK W : W = {w \in t.wins : w.msg = m}
    OBVIOUS
  <2>2. CASE W = {}
    <3>1. Cardinality(W) = 0 /\ acted'[m] = acted[m] + Cardinality(W)
      BY <2>1, <2>2, <1>6, FS_EmptySet
    <3>2. acted[m] \in {0, 1} /\ (acted[m] = 1 => m \in seen)
      BY DEF MessageInv
    <3> QED BY <3>1, <3>2, <1>6
  <2>3. CASE W # {}
    <3>1. PICK w \in t.wins : w.msg = m
      BY <2>1, <2>3
    <3>2. W = {w}
      BY <3>1, <2>1, <1>5
    <3>3. Cardinality(W) = 1 /\ acted'[m] = acted[m] + Cardinality(W)
      BY <3>2, <2>1, <1>6, FS_Singleton
    <3>4. m \in t.seen /\ m \notin seen
      BY <3>1, <1>4, <1>6, SubjectsAssumption
    <3>5. acted[m] = 0
      BY <3>4 DEF MessageInv
    <3> QED BY <3>3, <3>4, <3>5, <1>6
  <2> QED BY <2>2, <2>3
<1>8. \A q \in Req : q # r => tx'[q] = tx[q] /\ (q \in Active' <=> q \in Active)
  BY <1>2 DEF Over, Active
<1>9. r \notin Active'
  BY <1>3 DEF Active, Idle
<1>10. \A q \in Active' : tx'[q].seen \cap seen' = {}
  <2> SUFFICES ASSUME NEW q \in Active' PROVE tx'[q].seen \cap seen' = {}
    OBVIOUS
  <2>1. q # r /\ q \in Active /\ tx'[q] = tx[q]
    BY <1>8, <1>9 DEF Active
  <2>2. tx[q].seen \cap t.seen = {}
    BY <2>1, <1>1, <1>2, SeenApart
  <2> QED BY <2>1, <2>2, <1>6 DEF MessageInv
<1>11. \A m \in t.replies : m \in seen' /\ answered[m] = 0 /\ m \notin seen
  BY <1>4, <1>6 DEF MessageInv
<1>12. tx'[r].kind = "reply" => tx'[r].replies = t.replies
  BY <1>3 DEF Idle
<1>13. \A q \in Req \ Active' : tx'[q].kind = "reply" =>
          \A m \in tx'[q].replies : m \in seen' /\ answered'[m] = 0
  BY <1>6, <1>8, <1>11, <1>12 DEF MessageInv
<1>14. \A q \in Req \ Active' : q # r /\ tx'[q].kind = "reply" => tx'[q].replies \subseteq seen /\ tx'[q] = tx[q] /\ q \notin Active
  BY <1>8 DEF MessageInv
<1>15. \A p, q \in Req \ Active' : p # q /\ tx'[p].kind = "reply" /\ tx'[q].kind = "reply" =>
          tx'[p].replies \cap tx'[q].replies = {}
  <2> SUFFICES ASSUME NEW p \in Req \ Active', NEW q \in Req \ Active', p # q, tx'[p].kind = "reply", tx'[q].kind = "reply"
               PROVE  tx'[p].replies \cap tx'[q].replies = {}
    OBVIOUS
  <2>1. CASE p = r
    BY <2>1, <1>11, <1>12, <1>14
  <2>2. CASE q = r
    BY <2>2, <1>11, <1>12, <1>14
  <2>3. CASE p # r /\ q # r
    BY <2>3, <1>14 DEF MessageInv
  <2> QED BY <2>1, <2>2, <2>3
<1>16. seen' \subseteq Msg /\ acted' \in [Msg -> {0, 1}] /\ answered' \in [Msg -> {0, 1}]
  <2>1. acted' \in [Msg -> {0, 1}]
    BY <1>6, <1>7
  <2> QED BY <2>1, <1>4, <1>6 DEF MessageInv
<1>17. \A m \in Msg : acted'[m] = 1 \/ answered'[m] = 1 => m \in seen'
  BY <1>6, <1>7 DEF MessageInv
<1> QED BY <1>10, <1>13, <1>15, <1>16, <1>17 DEF MessageInv

(* A reply is the only one to its message.                                  *)
LEMMA MessageReply ==
    ASSUME FlowInv, MessageInv, NEW r \in Req, NEW m \in Msg, Reply(r, m)
    PROVE  MessageInv'
<1>1. tx[r] \in Replying /\ r \notin Active /\ Over(r) /\ DOMAIN tx = Req
  BY OverFlow DEF FlowInv
<1>2. tx' = [tx EXCEPT ![r] = IF tx[r].replies = {m} THEN Idle ELSE [tx[r] EXCEPT !.replies = @ \ {m}]]
      /\ answered' = [answered EXCEPT ![m] = @ + 1] /\ m \in tx[r].replies /\ tx[r].kind = "reply"
      /\ seen' = seen /\ acted' = acted
  BY DEF Reply, Set, logged
<1>3. PICK u : u = IF tx[r].replies = {m} THEN Idle ELSE [tx[r] EXCEPT !.replies = @ \ {m}]
  OBVIOUS
<1>4. u.kind = "idle" \/ (u.kind = "reply" /\ u.replies = tx[r].replies \ {m})
  BY <1>1, <1>3 DEF Replying, Idle
<1>5. tx'[r] = u /\ \A q \in Req : q # r => tx'[q] = tx[q]
  BY <1>1, <1>2, <1>3
<1>6. Active' = Active
  BY <1>1, <1>4, <1>5 DEF Active
<1>7. answered[m] = 0 /\ m \in seen
  BY <1>1, <1>2 DEF MessageInv
<1>8. answered'[m] = 1 /\ \A n \in Msg : n # m => answered'[n] = answered[n]
  BY <1>2, <1>7 DEF MessageInv
<1>9. answered' \in [Msg -> {0, 1}]
  BY <1>2, <1>7 DEF MessageInv
<1>10. \A q \in Req \ Active : q # r /\ tx[q].kind = "reply" => m \notin tx[q].replies
  BY <1>1, <1>2 DEF MessageInv
<1>11. \A q \in Req \ Active : tx'[q].kind = "reply" =>
          /\ tx[q].kind = "reply" /\ m \notin tx'[q].replies
          /\ tx'[q].replies \subseteq tx[q].replies
  BY <1>2, <1>4, <1>5, <1>10
<1>12. \A q \in Req \ Active' : tx'[q].kind = "reply" =>
          \A n \in tx'[q].replies : n \in seen' /\ answered'[n] = 0
  <2> SUFFICES ASSUME NEW q \in Req \ Active, tx'[q].kind = "reply", NEW n \in tx'[q].replies
               PROVE  n \in seen /\ answered'[n] = 0
    BY <1>2, <1>6
  <2>1. n # m /\ n \in tx[q].replies /\ tx[q].kind = "reply"
    BY <1>11
  <2>2. n \in seen /\ answered[n] = 0 /\ n \in Msg
    BY <2>1 DEF MessageInv
  <2> QED BY <2>1, <2>2, <1>8
<1>13. \A p, q \in Req \ Active' : p # q /\ tx'[p].kind = "reply" /\ tx'[q].kind = "reply" =>
          tx'[p].replies \cap tx'[q].replies = {}
  <2> SUFFICES ASSUME NEW p \in Req \ Active, NEW q \in Req \ Active, p # q, tx'[p].kind = "reply", tx'[q].kind = "reply"
               PROVE  tx'[p].replies \cap tx'[q].replies = {}
    BY <1>6
  <2>1. tx[p].replies \cap tx[q].replies = {}
    BY <1>11 DEF MessageInv
  <2> QED BY <2>1, <1>11
<1>14. \A q \in Active' : tx'[q].seen \cap seen' = {}
  BY <1>1, <1>2, <1>5, <1>6 DEF MessageInv, Active
<1>15. \A n \in Msg : acted'[n] = 1 \/ answered'[n] = 1 => n \in seen'
  BY <1>2, <1>7, <1>8 DEF MessageInv
<1> QED BY <1>2, <1>9, <1>12, <1>13, <1>14, <1>15 DEF MessageInv

(* The end of a bar leaves messages alone.                                  *)
LEMMA MessageUnbar ==
    ASSUME FlowInv, MessageInv, NEW s, Unbar(s)
    PROVE  MessageInv'
<1>1. Active' = Active /\ (\A r \in Active : Alike(tx[r], tx'[r])) /\ \A r \in Req \ Active : tx'[r] = tx[r]
  BY UnbarFlow
<1>2. seen' = seen /\ acted' = acted /\ answered' = answered
  BY DEF Unbar, logged
<1>3. \A r \in Active' : tx'[r].seen \cap seen' = {}
  BY <1>1, <1>2 DEF Alike, MessageInv
<1> QED BY <1>1, <1>2, <1>3 DEF MessageInv

(* Messages stay acted on and answered once.                                *)
LEMMA MessageNext ==
    ASSUME FlowInv, MessageInv, [Next]_vars
    PROVE  MessageInv'
<1>1. ASSUME NEW r \in Req, Starts(r) PROVE MessageInv'
  <2>1. Begins(r)
    BY <1>1, StartFlow
  <2>2. r \in Active'
    BY <2>1 DEF Begins, Flow, Tx, Active
  <2> QED BY <2>1, <2>2, MessagesRest DEF Begins
<1>2. ASSUME NEW r \in Req, Works(r) PROVE MessageInv'
  <2>1. /\ r \in Active /\ Moves(r)
        /\ tx'[r].kind = tx[r].kind /\ Recorded(tx[r], tx'[r])
        /\ UNCHANGED <<seen, acted, answered>>
    BY <1>2, WorkFlow
  <2>2. r \in Active'
    BY <2>1 DEF Active
  <2>3. tx'[r].seen \cap seen = {}
    BY <2>1 DEF Recorded, MessageInv
  <2> QED BY <2>1, <2>2, <2>3, MessagesRest DEF Moves
<1>3. ASSUME NEW r \in Req, Abort(r) \/ StopReplying(r) PROVE MessageInv'
  <2>1. tx'[r] = Idle /\ Over(r)
    BY <1>3, OverFlow
  <2>2. UNCHANGED <<seen, acted, answered>>
    BY <1>3 DEF Abort, StopReplying, logged
  <2>3. r \notin Active'
    BY <2>1 DEF Active, Idle
  <2> QED BY <2>1, <2>2, <2>3, MessagesRest DEF Over
<1>4. ASSUME UNCHANGED <<tx, seen, acted, answered>> PROVE MessageInv'
  <2>1. tx' = tx /\ Active' = Active /\ seen' = seen /\ acted' = acted /\ answered' = answered
    BY <1>4 DEF Active
  <2> QED BY <2>1 DEF MessageInv
<1>5. CASE Next
  <2>1. ASSUME Elsewhere PROVE MessageInv'
    BY <2>1, <1>4, ElsewhereFlow
  <2> QED BY <2>1, <1>1, <1>2, <1>3, <1>5, StepKinds, MessageCommit, MessageReply, MessageUnbar
<1>6. CASE UNCHANGED vars
  BY <1>6, <1>4 DEF vars
<1> QED BY <1>5, <1>6

(* In the beginning no message is recorded.                                 *)
LEMMA MessageInit ==
    ASSUME Init PROVE MessageInv
<1>1. tx \in [Req -> {Idle}] /\ Active = {} /\ \A r \in Req : tx[r].kind = "idle"
  BY DEF Init, Active, Idle
<1>2. seen = {} /\ acted = [m \in Msg |-> 0] /\ answered = [m \in Msg |-> 0]
  BY DEF Init
<1> QED BY <1>1, <1>2 DEF MessageInv

(* A message is acted on once and answered at most once, however often and  *)
(* in whatever batches it is delivered (the webhooks' insert ... on         *)
(* conflict): who has recorded it has its sender's chat, until it commits.  *)
THEOREM ActsOnce == Spec => []MessageOnce
<1>1. Init => FlowInv /\ MessageInv
  BY FlowInit, MessageInit
<1>2. FlowInv /\ MessageInv /\ [Next]_vars => FlowInv' /\ MessageInv'
  BY FlowNext, MessageNext
<1>3. MessageInv => MessageOnce
  BY DEF MessageInv, MessageOnce
<1> QED BY <1>1, <1>2, <1>3, PTL DEF Spec

-----------------------------------------------------------------------------
(* Sums over the requests in flight.                                       *)

(* Sums over the requests that are open.                                    *)
LEMMA SumPadded ==
    ASSUME NEW S, IsFiniteSet(S), NEW A \in SUBSET S, NEW f, Counts(f, A), DOMAIN f = A
    PROVE  LET h == [x \in S |-> IF x \in A THEN f[x] ELSE 0] IN
           Counts(h, S) /\ SumFunction(f) = SumFunctionOnSet(h, S)
<1>1. PICK h : h = [x \in S |-> IF x \in A THEN f[x] ELSE 0]
  OBVIOUS
<1>2. Counts(h, S)
  BY <1>1 DEF Counts
<1>3. Units(h, S) = Units(f, A)
  <2>1. \A p \in S \X Nat : p[2] < h[p[1]] <=> (p[1] \in A /\ p[2] < f[p[1]])
    BY <1>1 DEF Counts
  <2> QED BY <2>1 DEF Units
<1>4. IsFiniteSet(A)
  BY FS_Subset
<1>5. SumFunction(f) = SumFunctionOnSet(f, A)
  BY DEF SumFunction
<1> QED BY <1>1, <1>2, <1>3, <1>4, <1>5, SumCounts

(* Sums over A and over B differ in the summand r only.                     *)
DifferIn(r, f, A, g, B, S) ==
    /\ A \subseteq S /\ B \subseteq S /\ r \in S
    /\ Counts(f, A) /\ Counts(g, B) /\ DOMAIN f = A /\ DOMAIN g = B
    /\ \A q \in S \ {r} : (q \in A <=> q \in B) /\ (q \in A => g[q] = f[q])

(* A sum over a set that gains, loses or changes r follows r's summand.     *)
LEMMA SumMoves ==
    ASSUME NEW S, IsFiniteSet(S), NEW A, NEW B, NEW f, NEW g, NEW r, DifferIn(r, f, A, g, B, S)
    PROVE  /\ SumFunction(f) \in Nat /\ SumFunction(g) \in Nat
           /\ SumFunction(g) + (IF r \in A THEN f[r] ELSE 0) = SumFunction(f) + (IF r \in B THEN g[r] ELSE 0)
           /\ (IF r \in A THEN f[r] ELSE 0) <= SumFunction(f)
<1> USE DEF DifferIn
<1>1. PICK h, k : /\ h = [x \in S |-> IF x \in A THEN f[x] ELSE 0]
                  /\ k = [x \in S |-> IF x \in B THEN g[x] ELSE 0]
  OBVIOUS
<1>2. Counts(h, S) /\ SumFunction(f) = SumFunctionOnSet(h, S)
  BY <1>1, SumPadded
<1>3. Counts(k, S) /\ SumFunction(g) = SumFunctionOnSet(k, S)
  BY <1>1, SumPadded
<1>4. k[r] \in Nat /\ \A y \in S \ {r} : k[y] = h[y]
  BY <1>1, <1>3 DEF Counts
<1>5. /\ SumFunctionOnSet(k, S) + h[r] = SumFunctionOnSet(h, S) + k[r]
      /\ SumFunctionOnSet(k, S) \in Nat /\ SumFunctionOnSet(h, S) \in Nat
      /\ h[r] <= SumFunctionOnSet(h, S)
  BY <1>2, <1>4, SumChange
<1>6. h[r] = (IF r \in A THEN f[r] ELSE 0) /\ k[r] = (IF r \in B THEN g[r] ELSE 0)
  BY <1>1
<1> QED BY <1>2, <1>3, <1>5, <1>6

(* The wins of some subjects, counted by subject.                           *)
CountsBySubject(c, W, S) == \A x \in S : c[x] = Cardinality({w \in W : w.subj = x})

(* The wins by subject sum up to the wins.                                  *)
LEMMA SumWins ==
    ASSUME NEW W, IsFiniteSet(W), NEW S, IsFiniteSet(S), NEW c, CountsBySubject(c, W, S)
    PROVE  Counts(c, S) /\ SumFunctionOnSet(c, S) = Cardinality({w \in W : w.subj \in S})
<1> DEFINE Of(s) == {w \in W : w.subj \in s}
           T == {s \in SUBSET S : SumFunctionOnSet(c, s) = Cardinality(Of(s))}
<1>0. \A x \in S : c[x] = Cardinality({w \in W : w.subj = x})
  BY DEF CountsBySubject
<1>1. \A s \in SUBSET S : IsFiniteSet(Of(s))
  BY FS_Subset
<1>2. \A x \in S : Cardinality({w \in W : w.subj = x}) \in Nat /\ IsFiniteSet({w \in W : w.subj = x})
  BY FS_Subset, FS_CardinalityType
<1>3. Counts(c, S)
  BY <1>0, <1>2 DEF Counts
<1>4. \A s \in SUBSET S : IsFiniteSet(s) /\ Counts(c, s)
  BY <1>3, FS_Subset DEF Counts
<1>5. {} \in T
  <2>1. Of({}) = {}
    OBVIOUS
  <2>2. SumFunctionOnSet(c, {}) = 0
    BY <1>4, SumStep
  <2> HIDE DEF Of
  <2> QED BY <2>1, <2>2, FS_EmptySet
<1>6. ASSUME NEW s \in SUBSET S, s # {}, \A x \in s : s \ {x} \in T PROVE s \in T
  <2>1. PICK x \in s : s \ {x} \in T
    BY <1>6
  <2>2. SumFunctionOnSet(c, s) = c[x] + SumFunctionOnSet(c, s \ {x})
    BY <1>4, SumStep
  <2>3. PICK a, b : a = Of(s \ {x}) /\ b = {w \in W : w.subj = x}
    OBVIOUS
  <2>4. Of(s) = a \cup b /\ a \cap b = {}
    BY <2>3
  <2>5. IsFiniteSet(a) /\ IsFiniteSet(b)
    BY <2>3, <1>1, <1>2
  <2>6. Cardinality(a \cup b) = Cardinality(a) + Cardinality(b) - Cardinality(a \cap b)
    BY <2>5, FS_Union
  <2>7. Cardinality(a \cap b) = 0 /\ Cardinality(a) \in Nat /\ Cardinality(b) \in Nat
    BY <2>4, <2>5, FS_EmptySet, FS_CardinalityType
  <2>8. c[x] = Cardinality(b) /\ SumFunctionOnSet(c, s \ {x}) = Cardinality(a)
    BY <2>1, <2>3, <1>0
  <2>9. Cardinality(Of(s)) = Cardinality(a) + Cardinality(b)
    <3> HIDE DEF Of, T
    <3> QED BY <2>4, <2>6, <2>7
  <2>10. SumFunctionOnSet(c, s) = Cardinality(Of(s))
    <3> HIDE DEF Of, T
    <3> QED BY <2>2, <2>7, <2>8, <2>9
  <2> QED BY <2>10
<1>7. S \in T
  <2> HIDE DEF T
  <2> QED BY <1>5, <1>6, SubsetInduction
<1> QED BY <1>3, <1>7

(* A row is the subject's own, or one of all.                               *)
LEMMA RowSubject ==
    ASSUME NEW row \in Row, NEW x \in Subject
    PROVE  /\ row \in RowsOf(x) <=> row[2] \in {NoSubject, x}
           /\ row[2] \in Subject \cup {NoSubject}
           /\ MemberRow(x) \notin Later(x)
<1>1. LaterRows(x)[1] = AcctRow /\ LaterRows(x)[2] = <<"opens_1d", x>> /\ LaterRows(x)[3] = <<"loc_opens_1d", NoSubject>>
  BY DEF LaterRows, AcctRow
<1>2. RowsOf(x) = {<<"opens_1h", x>>, AcctRow, <<"opens_1d", x>>, <<"loc_opens_1d", NoSubject>>}
  <2>1. \A i \in 1 .. 3 : i = 1 \/ i = 2 \/ i = 3
    OBVIOUS
  <2>2. RowsOf(x) = {<<"opens_1h", x>>} \cup {LaterRows(x)[i] : i \in 1 .. 3}
    BY DEF RowsOf, MemberRow
  <2>3. {LaterRows(x)[i] : i \in 1 .. 3} = {LaterRows(x)[1], LaterRows(x)[2], LaterRows(x)[3]}
    BY <2>1
  <2> QED BY <1>1, <2>2, <2>3
<1>3. \/ \E k \in {"opens_1h", "opens_1d"}, s \in Subject : row = <<k, s>>
      \/ \E k \in {"acct_opens_1h", "loc_opens_1d"} : row = <<k, NoSubject>>
  BY DEF Row
<1>4. NoSubject \notin Subject
  BY SubjectsAssumption
<1>5. MemberRow(x) \notin Later(x)
  BY Rows DEF Later
<1> QED BY <1>2, <1>3, <1>4, <1>5 DEF AcctRow

(* The counted wins that bumped a row.                                      *)
Counted(t, row) == {w \in t.wins : w.counted /\ row \in RowsOf(w.subj)}

(* What a transaction has added to a row: its counted wins, and what is in  *)
(* hand.                                                                    *)
LEMMA MadeIs ==
    ASSUME NEW t, Flow(t), NEW row
    PROVE  /\ Made(t, row) = Cardinality(Counted(t, row)) + IF row \in t.cur THEN 1 ELSE 0
           /\ IsFiniteSet(Counted(t, row)) /\ Cardinality(Counted(t, row)) \in Nat
           /\ Made(t, row) \in Nat
<1>1. Made(t, row) = Cardinality(Counted(t, row)) + IF row \in t.cur THEN 1 ELSE 0
  BY DEF Made, Counted
<1>2. IsFiniteSet(t.wins) /\ Counted(t, row) \subseteq t.wins
  BY DEF Flow, Carried, Counted
<1>3. IsFiniteSet(Counted(t, row)) /\ Cardinality(Counted(t, row)) \in Nat
  BY <1>2, FS_Subset, FS_CardinalityType
<1> QED BY <1>1, <1>3

(* What a win adds to a counter.                                            *)
LEMMA MadeByWin ==
    ASSUME NEW t, Flow(t), NEW u, Flow(u), NEW w, WinsBy(t, u, w), w.counted \in BOOLEAN, NEW row
    PROVE  Cardinality(Counted(u, row)) =
             Cardinality(Counted(t, row)) + IF w.counted /\ row \in RowsOf(w.subj) THEN 1 ELSE 0
<1>1. u.wins = t.wins \cup {w} /\ w \notin t.wins
  BY DEF WinsBy
<1>2. IsFiniteSet(Counted(t, row)) /\ Cardinality(Counted(t, row)) \in Nat /\ w \notin Counted(t, row)
  BY <1>1, MadeIs DEF Counted
<1>3. CASE w.counted /\ row \in RowsOf(w.subj)
  <2>1. Counted(u, row) = Counted(t, row) \cup {w}
    BY <1>1, <1>3 DEF Counted
  <2> QED BY <2>1, <1>2, <1>3, FS_AddElement
<1>4. CASE ~(w.counted /\ row \in RowsOf(w.subj))
  <2>1. Counted(u, row) = Counted(t, row)
    BY <1>1, <1>4 DEF Counted
  <2> QED BY <2>1, <1>2, <1>4
<1> QED BY <1>3, <1>4

-----------------------------------------------------------------------------
(* The counters.                                                           *)

(* What open transactions have added to a row.                              *)
InHand(row) == SumFunction([r \in Active |-> Made(tx[r], row)])

(* A counter is what has been opened and what is in hand.                   *)
CounterInv ==
    /\ counter \in [Row -> Nat]
    /\ opened \in [Subject -> Nat]
    /\ \A row \in Row : counter[row] = Opens(row) + InHand(row)

(* What a step of r adds to the counters, r has in hand.                    *)
Balanced(r) ==
    /\ counter' \in [Row -> Int]
    /\ \A row \in Row : counter'[row] + Made(tx[r], row) = counter[row] + Made(tx'[r], row)

(* The opens of a row are a number.                                         *)
LEMMA OpensNat ==
    ASSUME opened \in [Subject -> Nat], NEW row \in Row
    PROVE  Opens(row) \in Nat
<1>1. row[2] \in Subject \cup {NoSubject}
  BY DEF Row
<1>2. IsFiniteSet(Subject) /\ Counts(opened, Subject)
  BY SubjectsAssumption DEF Counts
<1>3. SumFunctionOnSet(opened, Subject) \in Nat
  BY <1>2, SumStep
<1> QED BY <1>1, <1>3 DEF Opens

(* Who wins and bumps nothing has added nothing.                            *)
LEMMA MadeSame ==
    ASSUME NEW t, NEW u, u.wins = t.wins, u.cur = t.cur, NEW row
    PROVE  Made(u, row) = Made(t, row)
BY DEF Made

(* Every step of an open transaction is balanced.                           *)
LEMMA WorkBalance ==
    ASSUME FlowInv, counter \in [Row -> Nat], NEW r \in Req, Works(r)
    PROVE  Balanced(r)
<1>1. PICK t, u : t = tx[r] /\ u = tx'[r]
  OBVIOUS
<1>2. Flow(t) /\ Flow(u) /\ t \in Tx /\ u \in Tx
  BY <1>1, WorkFlow DEF Moves, FlowInv, Flow
<1>3. \A row \in Row : counter[row] \in Nat /\ Made(t, row) \in Nat /\ Made(u, row) \in Nat
  BY <1>2, MadeIs
<1>4. ASSUME counter' = counter, u.wins = t.wins, u.cur = t.cur PROVE Balanced(r)
  <2>1. \A row \in Row : Made(u, row) = Made(t, row)
    BY <1>4, MadeSame
  <2>2. counter' \in [Row -> Int]
    BY <1>4
  <2> QED BY <2>1, <2>2, <1>1, <1>3, <1>4 DEF Balanced
<1>5. CASE TakeMessage(r)
  BY <1>1, <1>4, <1>5, TakeMessageFlow DEF TakeMessage, limits
<1>6. CASE ConsumeGrant(r) \/ MemberCommand(r)
  BY <1>1, <1>4, <1>6, CommandFlow DEF ConsumeGrant, MemberCommand, limits
<1>7. CASE NoCommand(r) \/ RefundGrant(r)
  BY <1>1, <1>4, <1>7, SettleFlow DEF NoCommand, RefundGrant, limits, Done
<1>8. CASE LogOpen(r)
  BY <1>1, <1>4, <1>8, LogOpenFlow DEF LogOpen, limits
<1>9. ASSUME NEW command, NEW rows, rows \in SUBSET Row, WinsBy(t, u, WinOf(t, command, FALSE)),
             counter' = Unbumped(rows), t.cur = rows
      PROVE  Balanced(r)
  <2>1. PICK w : w = WinOf(t, command, FALSE)
    OBVIOUS
  <2>2. w.counted = FALSE /\ w.counted \in BOOLEAN /\ WinsBy(t, u, w)
    BY <2>1, <1>9 DEF WinOf
  <2>3. ASSUME NEW row \in Row PROVE counter'[row] + Made(t, row) = counter[row] + Made(u, row)
    <3>1. Cardinality(Counted(u, row)) = Cardinality(Counted(t, row)) /\ Cardinality(Counted(t, row)) \in Nat
      <4>1. Cardinality(Counted(u, row)) =
                 Cardinality(Counted(t, row)) + IF w.counted /\ row \in RowsOf(w.subj) THEN 1 ELSE 0
        BY <2>2, <1>2, MadeByWin
      <4>2. Cardinality(Counted(t, row)) \in Nat
        BY <1>2, MadeIs
      <4> QED BY <4>1, <4>2, <2>2
    <3>2. Made(u, row) = Cardinality(Counted(u, row))
      BY <1>2, <1>9, MadeIs DEF WinsBy
    <3>3. Made(t, row) = Cardinality(Counted(t, row)) + IF row \in rows THEN 1 ELSE 0
      BY <1>2, <1>9, MadeIs
    <3>4. counter'[row] = counter[row] - IF row \in rows THEN 1 ELSE 0
      BY <1>9 DEF Unbumped
    <3> QED BY <3>1, <3>2, <3>3, <3>4, <1>3
  <2>4. counter' \in [Row -> Int]
    BY <1>9 DEF Unbumped
  <2> QED BY <2>3, <2>4, <1>1 DEF Balanced
<1>10. CASE LogClose(r)
  <2>1. WinsBy(t, u, WinOf(t, "close", FALSE)) /\ t.cur = {}
    BY <1>1, <1>10, LogCloseFlow
  <2>2. counter' = counter
    BY <1>10 DEF LogClose, limits
  <2>3. Unbumped({}) = counter
    BY DEF Unbumped
  <2> QED BY <2>1, <2>2, <2>3, <1>9
<1>11. CASE Degrade(r)
  <2>1. WinsBy(t, u, WinOf(t, "open", FALSE)) /\ counter' = Unbumped(t.cur)
    BY <1>1, <1>11, DegradeFlow
  <2>2. t.cur \in SUBSET Row
    BY <1>2 DEF Tx
  <2> QED BY <2>1, <2>2, <1>9
<1>12. CASE BumpMember(r)
  <2>1. PICK row \in Row : /\ u.wins = t.wins /\ t.cur = {}
                           /\ \/ counter' = Bumped({row}) /\ u.cur = {row}
                              \/ counter' = counter /\ u.cur = {}
    BY <1>1, <1>12, BumpMemberFlow, Rows
  <2>2. CASE counter' = counter /\ u.cur = {}
    BY <2>1, <2>2, <1>4
  <2>3. CASE counter' = Bumped({row}) /\ u.cur = {row}
    <3>1. ASSUME NEW x \in Row PROVE counter'[x] + Made(t, x) = counter[x] + Made(u, x)
      <4>1. Counted(u, x) = Counted(t, x)
        BY <2>1 DEF Counted
      <4>2. Cardinality(Counted(t, x)) \in Nat /\ Made(t, x) = Cardinality(Counted(t, x))
        BY <2>1, <1>2, MadeIs
      <4>3. Made(u, x) = Cardinality(Counted(t, x)) + IF x = row THEN 1 ELSE 0
        BY <4>1, <2>3, <1>2, MadeIs
      <4>4. counter'[x] = counter[x] + IF x = row THEN 1 ELSE 0
        BY <2>3 DEF Bumped
      <4> QED BY <4>2, <4>3, <4>4, <1>3
    <3>2. counter' \in [Row -> Int]
      BY <2>3 DEF Bumped
    <3> QED BY <3>1, <3>2, <1>1 DEF Balanced
  <2> QED BY <2>1, <2>2, <2>3
<1>13. CASE BumpRest(r)
  <2>1. PICK s \in Subject :
           /\ s = t.subj /\ t.cur = {MemberRow(s)}
           /\ \/ WinsBy(t, u, WinOf(t, "open", TRUE)) /\ counter' = Bumped(Later(s))
              \/ u.wins = t.wins /\ u.cur = {} /\ counter' = Unbumped(t.cur)
    BY <1>1, <1>13, BumpRestFlow
  <2>2. CASE WinsBy(t, u, WinOf(t, "open", TRUE)) /\ counter' = Bumped(Later(s))
    <3>1. PICK w : w = WinOf(t, "open", TRUE)
      OBVIOUS
    <3>2. w.counted = TRUE /\ w.counted \in BOOLEAN /\ w.subj = s /\ WinsBy(t, u, w)
      BY <2>1, <2>2, <3>1 DEF WinOf
    <3>3. ASSUME NEW x \in Row PROVE counter'[x] + Made(t, x) = counter[x] + Made(u, x)
      <4>1. Cardinality(Counted(u, x)) = Cardinality(Counted(t, x)) + IF x \in RowsOf(s) THEN 1 ELSE 0
        <5>1. Cardinality(Counted(u, x)) =
                   Cardinality(Counted(t, x)) + IF w.counted /\ x \in RowsOf(w.subj) THEN 1 ELSE 0
          BY <3>2, <1>2, MadeByWin
        <5> QED BY <5>1, <3>2
      <4>2. Made(u, x) = Cardinality(Counted(u, x))
        BY <2>2, <1>2, MadeIs DEF WinsBy
      <4>3. /\ Cardinality(Counted(t, x)) \in Nat
            /\ Made(t, x) = Cardinality(Counted(t, x)) + IF x = MemberRow(s) THEN 1 ELSE 0
        BY <2>1, <1>2, MadeIs
      <4>4. counter'[x] = counter[x] + IF x \in Later(s) THEN 1 ELSE 0
        BY <2>2 DEF Bumped
      <4>5. RowsOf(s) = {MemberRow(s)} \cup Later(s) /\ MemberRow(s) \notin Later(s)
        BY Rows, RowSubject DEF Later
      <4> QED BY <4>1, <4>2, <4>3, <4>4, <4>5, <1>3
    <3>4. counter' \in [Row -> Int]
      BY <2>2 DEF Bumped
    <3> QED BY <3>3, <3>4, <1>1 DEF Balanced
  <2>3. CASE u.wins = t.wins /\ u.cur = {} /\ counter' = Unbumped(t.cur)
    <3>1. ASSUME NEW x \in Row PROVE counter'[x] + Made(t, x) = counter[x] + Made(u, x)
      <4>1. Counted(u, x) = Counted(t, x)
        BY <2>3 DEF Counted
      <4>2. Made(u, x) = Cardinality(Counted(t, x))
        BY <4>1, <2>3, <1>2, MadeIs
      <4>3. /\ Cardinality(Counted(t, x)) \in Nat
            /\ Made(t, x) = Cardinality(Counted(t, x)) + IF x \in t.cur THEN 1 ELSE 0
        BY <1>2, MadeIs
      <4>4. counter'[x] = counter[x] - IF x \in t.cur THEN 1 ELSE 0
        BY <2>3 DEF Unbumped
      <4> QED BY <4>2, <4>3, <4>4, <1>3
    <3>2. counter' \in [Row -> Int]
      BY <2>3 DEF Unbumped
    <3> QED BY <3>1, <3>2, <1>1 DEF Balanced
  <2> QED BY <2>1, <2>2, <2>3
<1> QED BY <1>5, <1>6, <1>7, <1>8, <1>10, <1>11, <1>12, <1>13 DEF Works

(* What r's share of a sum becomes.                                         *)
LEMMA InHandMoves ==
    ASSUME FlowInv, FlowInv', NEW r \in Req, tx' = [tx EXCEPT ![r] = tx'[r]], NEW row \in Row
    PROVE  /\ InHand(row) \in Nat /\ InHand(row)' \in Nat
           /\ InHand(row)' + (IF r \in Active THEN Made(tx[r], row) ELSE 0)
                = InHand(row) + (IF r \in Active' THEN Made(tx'[r], row) ELSE 0)
           /\ (IF r \in Active THEN Made(tx[r], row) ELSE 0) <= InHand(row)
<1>1. PICK f, g : /\ f = [q \in Active |-> Made(tx[q], row)]
                  /\ g = [q \in Active' |-> Made(tx'[q], row)]
  OBVIOUS
<1>2. InHand(row) = SumFunction(f) /\ InHand(row)' = SumFunction(g)
  BY <1>1 DEF InHand
<1>3. Active \in SUBSET Req /\ Active' \in SUBSET Req /\ IsFiniteSet(Req)
  BY SubjectsAssumption DEF Active
<1>4. \A q \in Req \ {r} : tx'[q] = tx[q] /\ (q \in Active <=> q \in Active')
  BY DEF Active, FlowInv
<1>5. Counts(f, Active) /\ DOMAIN f = Active
  <2>1. \A q \in Active : Made(tx[q], row) \in Nat
    BY MadeIs DEF FlowInv
  <2> QED BY <2>1, <1>1 DEF Counts
<1>6. Counts(g, Active') /\ DOMAIN g = Active'
  <2>1. \A q \in Active' : Made(tx'[q], row) \in Nat
    BY MadeIs DEF FlowInv
  <2> QED BY <2>1, <1>1 DEF Counts
<1>7. \A q \in Req \ {r} : q \in Active => g[q] = f[q]
  BY <1>1, <1>4
<1>8. PICK A, B : A = Active /\ B = Active'
  OBVIOUS
<1>9. /\ SumFunction(f) \in Nat /\ SumFunction(g) \in Nat
      /\ SumFunction(g) + (IF r \in A THEN f[r] ELSE 0) = SumFunction(f) + (IF r \in B THEN g[r] ELSE 0)
      /\ (IF r \in A THEN f[r] ELSE 0) <= SumFunction(f)
  <2>1. A \in SUBSET Req /\ B \in SUBSET Req /\ Counts(f, A) /\ Counts(g, B) /\ DOMAIN f = A /\ DOMAIN g = B
    BY <1>3, <1>5, <1>6, <1>8
  <2>2. \A q \in Req \ {r} : (q \in A <=> q \in B) /\ (q \in A => g[q] = f[q])
    BY <1>4, <1>7, <1>8
  <2>3. DifferIn(r, f, A, g, B, Req)
    BY <2>1, <2>2 DEF DifferIn
  <2> QED BY <2>3, <1>3, SumMoves
<1>10. (r \in A => f[r] = Made(tx[r], row)) /\ (r \in B => g[r] = Made(tx'[r], row))
  BY <1>1, <1>8
<1>11. /\ (IF r \in A THEN f[r] ELSE 0) = (IF r \in Active THEN Made(tx[r], row) ELSE 0)
       /\ (IF r \in B THEN g[r] ELSE 0) = (IF r \in Active' THEN Made(tx'[r], row) ELSE 0)
  BY <1>8, <1>10
<1> QED BY <1>2, <1>9, <1>11

(* A step that changes counter, opens and what r has added by the same      *)
(* keeps the counters exact.                                                *)
LEMMA CountersMove ==
    ASSUME FlowInv, FlowInv', CounterInv, NEW r \in Req, tx' = [tx EXCEPT ![r] = tx'[r]],
           counter' \in [Row -> Int], opened' \in [Subject -> Nat],
           \A row \in Row :
              counter'[row] + (IF r \in Active THEN Made(tx[r], row) ELSE 0) + Opens(row)
                = counter[row] + (IF r \in Active' THEN Made(tx'[r], row) ELSE 0) + Opens(row)'
    PROVE  CounterInv'
<1>1. ASSUME NEW row \in Row PROVE counter'[row] = Opens(row)' + InHand(row)' /\ counter'[row] \in Nat
  <2>1. Opens(row) \in Nat
    BY OpensNat DEF CounterInv
  <2>2. Opens(row)' \in Nat
    <3>1. row[2] \in Subject \cup {NoSubject}
      BY DEF Row
    <3>2. IsFiniteSet(Subject) /\ Counts(opened', Subject)
      BY SubjectsAssumption DEF Counts
    <3>3. SumFunctionOnSet(opened', Subject) \in Nat
      BY <3>2, SumStep
    <3>4. Opens(row)' = IF row[2] = NoSubject THEN SumFunctionOnSet(opened', Subject) ELSE opened'[row[2]]
      BY DEF Opens
    <3> QED BY <3>1, <3>3, <3>4
  <2>3. PICK a, b : /\ a = (IF r \in Active THEN Made(tx[r], row) ELSE 0)
                    /\ b = (IF r \in Active' THEN Made(tx'[r], row) ELSE 0)
    OBVIOUS
  <2>4. /\ InHand(row) \in Nat /\ InHand(row)' \in Nat
        /\ InHand(row)' + a = InHand(row) + b
    BY <2>3, InHandMoves
  <2>5. a \in Nat /\ b \in Nat
    <3>1. r \in Active => Flow(tx[r])
      BY DEF FlowInv
    <3>2. r \in Active' => Flow(tx'[r])
      BY DEF FlowInv
    <3> QED BY <3>1, <3>2, <2>3, MadeIs
  <2>6. counter'[row] + a + Opens(row) = counter[row] + b + Opens(row)'
    BY <2>3
  <2>7. counter[row] = Opens(row) + InHand(row) /\ counter[row] \in Nat /\ counter'[row] \in Int
    BY DEF CounterInv
  <2>8. PICK o, p, i, j : o = Opens(row) /\ p = Opens(row)' /\ i = InHand(row) /\ j = InHand(row)'
    OBVIOUS
  <2>9. counter'[row] = p + j /\ p + j \in Nat
    <3>1. /\ o \in Nat /\ p \in Nat /\ i \in Nat /\ j \in Nat
          /\ j + a = i + b /\ counter'[row] + a + o = counter[row] + b + p /\ counter[row] = o + i
      BY <2>1, <2>2, <2>4, <2>6, <2>7, <2>8
    <3>2. counter[row] \in Nat /\ counter'[row] \in Int
      BY <2>7
    <3> QED BY <3>1, <3>2, <2>5
  <2> QED BY <2>8, <2>9
<1>2. counter' \in [Row -> Nat]
  BY <1>1
<1>3. \A row \in Row : counter'[row] = Opens(row)' + InHand(row)'
  BY <1>1
<1> QED BY <1>2, <1>3 DEF CounterInv

(* A commit opens what the request has in hand.                             *)
LEMMA CommitOpens ==
    ASSUME FlowInv, CounterInv, NEW r \in Req, Commit(r)
    PROVE  /\ opened' \in [Subject -> Nat]
           /\ \A row \in Row : Opens(row)' = Opens(row) + Made(tx[r], row)
<1>1. PICK t, W, c :
         /\ t = tx[r] /\ W = {w \in t.wins : w.counted}
         /\ c = [s \in Subject |-> Cardinality({w \in W : w.subj = s})]
  OBVIOUS
<1>2. r \in Active /\ Flow(t) /\ t.stage \in {"commit", "next"}
  BY <1>1 DEF Commit, At, Active, FlowInv
<1>3. IsFiniteSet(W) /\ (\A w \in W : w.subj \in Subject) /\ t.cur = {} /\ IsFiniteSet(Subject)
  <2>1. IsFiniteSet(t.wins) /\ W \subseteq t.wins
    BY <1>1, <1>2 DEF Flow, Carried
  <2>2. \A w \in t.wins : w.subj \in Subject
    BY <1>2 DEF Flow, Tx, Win
  <2> QED BY <2>1, <2>2, <1>1, <1>2, FS_Subset, SubjectsAssumption DEF Flow, Staged
<1>4. \A s \in Subject : {w \in t.wins : w.counted /\ w.subj = s} = {w \in W : w.subj = s}
  BY <1>1
<1>5. \A s \in Subject : c[s] = Cardinality({w \in W : w.subj = s})
  BY <1>1
<1>6. Counts(c, Subject) /\ SumFunctionOnSet(c, Subject) = Cardinality({w \in W : w.subj \in Subject})
  <2>1. CountsBySubject(c, W, Subject)
    BY <1>5 DEF CountsBySubject
  <2> QED BY <2>1, <1>3, SumWins
<1>7. {w \in W : w.subj \in Subject} = W
  BY <1>3
<1>8. opened' = [s \in Subject |-> opened[s] + c[s]]
  <2>1. opened' = [s \in Subject |-> opened[s] + Cardinality({w \in t.wins : w.counted /\ w.subj = s})]
    BY <1>1 DEF Commit
  <2> QED BY <2>1, <1>4, <1>5
<1>9. opened' \in [Subject -> Nat]
  BY <1>6, <1>8 DEF CounterInv, Counts
<1>10. SumFunctionOnSet(opened', Subject) = SumFunctionOnSet(opened, Subject) + Cardinality(W)
  <2>1. Counts(opened, Subject) /\ \A s \in Subject : opened'[s] = opened[s] + c[s]
    BY <1>8 DEF CounterInv, Counts
  <2>2. SumFunctionOnSet(opened', Subject) = SumFunctionOnSet(opened, Subject) + SumFunctionOnSet(c, Subject)
    BY <2>1, <1>3, <1>6, SumAdd
  <2> QED BY <2>2, <1>6, <1>7
<1>11. ASSUME NEW row \in Row PROVE Opens(row)' = Opens(row) + Made(t, row)
  <2>1. Made(t, row) = Cardinality(Counted(t, row)) /\ Cardinality(Counted(t, row)) \in Nat
    BY <1>2, <1>3, MadeIs
  <2>2. Opens(row)' = IF row[2] = NoSubject THEN SumFunctionOnSet(opened', Subject) ELSE opened'[row[2]]
    BY DEF Opens
  <2>3. Opens(row) = IF row[2] = NoSubject THEN SumFunctionOnSet(opened, Subject) ELSE opened[row[2]]
    BY DEF Opens
  <2>4. row[2] \in Subject \cup {NoSubject}
    BY DEF Row
  <2>5. Counted(t, row) = {w \in W : row[2] \in {NoSubject, w.subj}}
    BY <1>1, <1>3, RowSubject DEF Counted
  <2>6. CASE row[2] = NoSubject
    <3>1. Counted(t, row) = W
      BY <2>5, <2>6
    <3> QED BY <3>1, <2>1, <2>2, <2>3, <2>6, <1>10
  <2>7. CASE row[2] # NoSubject
    <3>1. PICK s \in Subject : s = row[2] /\ s # NoSubject
      BY <2>4, <2>7
    <3>2. Counted(t, row) = {w \in W : w.subj = s}
      BY <2>5, <3>1
    <3>3. opened'[s] = opened[s] + Cardinality(Counted(t, row))
      BY <3>2, <1>5, <1>8
    <3> QED BY <3>1, <3>3, <2>1, <2>2, <2>3
  <2> QED BY <2>6, <2>7
<1> QED BY <1>1, <1>9, <1>11

(* The counters stay exact.                                                 *)
LEMMA CounterNext ==
    ASSUME FlowInv, CounterInv, [Next]_vars
    PROVE  CounterInv'
<1> FlowInv'
  BY FlowNext
<1>0. \A row \in Row : counter[row] \in Nat /\ Opens(row) \in Nat
  BY OpensNat DEF CounterInv
<1>1. ASSUME opened' = opened, NEW row \in Row PROVE Opens(row)' = Opens(row)
  BY <1>1 DEF Opens
<1>2. \A r \in Active, row \in Row : Made(tx[r], row) \in Nat
  BY MadeIs DEF FlowInv
<1>3. ASSUME NEW r \in Req, Starts(r) PROVE CounterInv'
  <2>1. Begins(r)
    BY <1>3, StartFlow
  <2>2. counter' = counter /\ opened' = opened /\ r \notin Active /\ tx' = [tx EXCEPT ![r] = tx'[r]]
    BY <2>1 DEF Begins
  <2>3. ASSUME NEW row \in Row PROVE Made(tx'[r], row) = 0
    <3>1. Flow(tx'[r]) /\ tx'[r].wins = {} /\ tx'[r].cur = {}
      BY <2>1 DEF Begins
    <3>2. Counted(tx'[r], row) = {}
      BY <3>1 DEF Counted
    <3> QED BY <3>1, <3>2, MadeIs, FS_EmptySet
  <2>4. \A row \in Row :
              counter'[row] + (IF r \in Active THEN Made(tx[r], row) ELSE 0) + Opens(row)
                = counter[row] + (IF r \in Active' THEN Made(tx'[r], row) ELSE 0) + Opens(row)'
    BY <2>2, <2>3, <1>0, <1>1
  <2>5. counter' \in [Row -> Int] /\ opened' \in [Subject -> Nat]
    BY <2>2 DEF CounterInv
  <2> QED BY <2>2, <2>4, <2>5, CountersMove
<1>4. ASSUME NEW r \in Req, Works(r) PROVE CounterInv'
  <2>1. r \in Active /\ Moves(r) /\ opened' = opened /\ tx'[r].kind = tx[r].kind
    BY <1>4, WorkFlow
  <2>2. r \in Active' /\ tx' = [tx EXCEPT ![r] = tx'[r]]
    BY <2>1 DEF Active, Moves
  <2>3. Balanced(r)
    BY <1>4, WorkBalance DEF CounterInv
  <2>4. \A row \in Row :
              counter'[row] + (IF r \in Active THEN Made(tx[r], row) ELSE 0) + Opens(row)
                = counter[row] + (IF r \in Active' THEN Made(tx'[r], row) ELSE 0) + Opens(row)'
    BY <2>1, <2>2, <2>3, <1>0, <1>1 DEF Balanced
  <2>5. counter' \in [Row -> Int] /\ opened' \in [Subject -> Nat]
    BY <2>1, <2>3 DEF CounterInv, Balanced
  <2> QED BY <2>2, <2>4, <2>5, CountersMove
<1>5. ASSUME NEW r \in Req, Commit(r) PROVE CounterInv'
  <2>1. r \in Active /\ Over(r) /\ tx'[r] \in Replying \cup {Idle} /\ tx' = [tx EXCEPT ![r] = tx'[r]]
    BY <1>5, OverFlow DEF Over
  <2>2. r \notin Active'
    <3>1. tx'[r].kind # "request" /\ tx'[r].kind # "batch"
      BY <2>1 DEF Replying, Idle
    <3> QED BY <3>1 DEF Active
  <2>3. /\ opened' \in [Subject -> Nat]
        /\ \A row \in Row : Opens(row)' = Opens(row) + Made(tx[r], row)
    BY <1>5, CommitOpens
  <2>4. counter' = counter
    BY <1>5 DEF Commit
  <2>5. \A row \in Row :
              counter'[row] + (IF r \in Active THEN Made(tx[r], row) ELSE 0) + Opens(row)
                = counter[row] + (IF r \in Active' THEN Made(tx'[r], row) ELSE 0) + Opens(row)'
    BY <2>1, <2>2, <2>3, <2>4, <1>0, <1>2
  <2> QED BY <2>1, <2>3, <2>4, <2>5, CountersMove DEF CounterInv
<1>6. ASSUME NEW r \in Req, Abort(r) PROVE CounterInv'
  <2>1. r \in Active /\ Over(r) /\ tx'[r] = Idle /\ tx' = [tx EXCEPT ![r] = tx'[r]]
    BY <1>6, OverFlow DEF Over
  <2>2. r \notin Active'
    BY <2>1 DEF Active, Idle
  <2>3. counter' = [row \in Row |-> counter[row] - Made(tx[r], row)] /\ opened' = opened
    BY <1>6 DEF Abort, logged
  <2>4. counter' \in [Row -> Int]
    BY <2>1, <2>3, <1>0, <1>2
  <2>5. \A row \in Row :
              counter'[row] + (IF r \in Active THEN Made(tx[r], row) ELSE 0) + Opens(row)
                = counter[row] + (IF r \in Active' THEN Made(tx'[r], row) ELSE 0) + Opens(row)'
    <3>1. ASSUME NEW row \in Row PROVE counter'[row] + Made(tx[r], row) + Opens(row) = counter[row] + 0 + Opens(row)'
      <4>1. Opens(row)' = Opens(row)
        BY <2>3, <1>1
      <4>2. counter'[row] = counter[row] - Made(tx[r], row)
        BY <2>3
      <4> QED BY <4>1, <4>2, <2>1, <1>0, <1>2
    <3> QED BY <3>1, <2>1, <2>2
  <2> QED BY <2>1, <2>3, <2>4, <2>5, CountersMove DEF CounterInv
<1>7. ASSUME NEW r \in Req, StopReplying(r) \/ \E m \in Msg : Reply(r, m) PROVE CounterInv'
  <2>1. r \notin Active /\ Over(r) /\ tx'[r] \in Replying \cup {Idle} /\ tx' = [tx EXCEPT ![r] = tx'[r]]
    BY <1>7, OverFlow DEF Over
  <2>2. r \notin Active'
    <3>1. tx'[r].kind # "request" /\ tx'[r].kind # "batch"
      BY <2>1 DEF Replying, Idle
    <3> QED BY <3>1 DEF Active
  <2>3. counter' = counter /\ opened' = opened
    BY <1>7 DEF StopReplying, Reply, limits, logged
  <2>4. \A row \in Row :
              counter'[row] + (IF r \in Active THEN Made(tx[r], row) ELSE 0) + Opens(row)
                = counter[row] + (IF r \in Active' THEN Made(tx'[r], row) ELSE 0) + Opens(row)'
    BY <2>1, <2>2, <2>3, <1>0, <1>1
  <2> QED BY <2>1, <2>3, <2>4, CountersMove DEF CounterInv
<1>8. ASSUME counter' = counter, opened' = opened, Active' = Active,
             \A r \in Active, row \in Row : Made(tx'[r], row) = Made(tx[r], row)
      PROVE  CounterInv'
  <2>1. \A row \in Row : InHand(row)' = InHand(row)
    <3> SUFFICES ASSUME NEW row \in Row PROVE InHand(row)' = InHand(row)
      OBVIOUS
    <3>1. [q \in Active' |-> Made(tx'[q], row)] = [q \in Active |-> Made(tx[q], row)]
      BY <1>8
    <3>2. InHand(row)' = SumFunction([q \in Active' |-> Made(tx'[q], row)])
      BY DEF InHand
    <3> QED BY <3>1, <3>2 DEF InHand
  <2>2. \A row \in Row : Opens(row)' = Opens(row)
    BY <1>1, <1>8
  <2>3. \A row \in Row : counter'[row] = Opens(row)' + InHand(row)'
    BY <2>1, <2>2, <1>8 DEF CounterInv
  <2> QED BY <2>3, <1>8 DEF CounterInv
<1>9. ASSUME UNCHANGED <<counter, opened, tx>> PROVE CounterInv'
  <2>1. tx' = tx /\ Active' = Active /\ counter' = counter /\ opened' = opened
    BY <1>9 DEF Active
  <2> QED BY <2>1, <1>8
<1>10. ASSUME NEW s, Unbar(s) PROVE CounterInv'
  <2>1. Active' = Active /\ (\A r \in Active : Alike(tx[r], tx'[r]))
    BY <1>10, UnbarFlow
  <2>2. \A r \in Active, row \in Row : Made(tx'[r], row) = Made(tx[r], row)
    BY <2>1, MadeSame DEF Alike
  <2>3. counter' = counter /\ opened' = opened
    BY <1>10 DEF Unbar, limits, logged
  <2> QED BY <2>1, <2>2, <2>3, <1>8
<1>11. CASE Next
  <2>1. ASSUME Elsewhere PROVE CounterInv'
    BY <2>1, <1>9, ElsewhereFlow
  <2> QED BY <2>1, <1>3, <1>4, <1>5, <1>6, <1>7, <1>10, <1>11, StepKinds
<1>12. CASE UNCHANGED vars
  BY <1>12, <1>9 DEF vars
<1> QED BY <1>11, <1>12

-----------------------------------------------------------------------------
(* The uses of grants.                                                     *)

(* The uses of a grant that open transactions have taken.                   *)
Pending(v) == SumFunction([r \in Active |-> Taken(tx[r], v)])

(* A use is a command made, one in flight, or one that was rolled back.     *)
UseInv ==
    /\ uses \in [Visitor -> 0 .. MaxUses]
    /\ spent \in [Visitor -> Nat] /\ lost \in [Visitor -> Nat]
    /\ \A v \in Visitor : uses[v] = spent[v] + lost[v] + Pending(v)

(* The wins by a grant.                                                     *)
Used(t, v) == {w \in t.wins : w.grant /\ w.subj = v}

(* What a transaction has taken of a grant: its wins by it, and the use for *)
(* the message in work.                                                     *)
LEMMA TakenIs ==
    ASSUME NEW t, Flow(t), NEW v
    PROVE  /\ Taken(t, v) = Cardinality(Used(t, v)) + IF t.grant /\ t.subj = v THEN 1 ELSE 0
           /\ IsFiniteSet(Used(t, v)) /\ Cardinality(Used(t, v)) \in Nat
           /\ Taken(t, v) \in Nat
<1>1. Taken(t, v) = Cardinality(Used(t, v)) + IF t.grant /\ t.subj = v THEN 1 ELSE 0
  BY DEF Taken, Used
<1>2. IsFiniteSet(t.wins) /\ Used(t, v) \subseteq t.wins
  BY DEF Flow, Carried, Used
<1>3. IsFiniteSet(Used(t, v)) /\ Cardinality(Used(t, v)) \in Nat
  BY <1>2, FS_Subset, FS_CardinalityType
<1> QED BY <1>1, <1>3

(* A win made by a grant is a use of it, as the grant in hand was.          *)
LEMMA TakenByWin ==
    ASSUME NEW t, Flow(t), NEW u, Flow(u), NEW command, NEW counted,
           WinsBy(t, u, WinOf(t, command, counted)), NEW v
    PROVE  Taken(u, v) = Taken(t, v)
<1>1. PICK w : w = WinOf(t, command, counted)
  OBVIOUS
<1>2. u.wins = t.wins \cup {w} /\ w \notin t.wins /\ ~u.grant
  BY <1>1 DEF WinsBy
<1>3. w.grant = t.grant /\ w.subj = t.subj /\ t.grant \in BOOLEAN
  BY <1>1 DEF WinOf, Flow, Tx
<1>4. IsFiniteSet(Used(t, v)) /\ Cardinality(Used(t, v)) \in Nat /\ w \notin Used(t, v)
  BY <1>2, TakenIs DEF Used
<1>5. Taken(u, v) = Cardinality(Used(u, v)) /\ Cardinality(Used(u, v)) \in Nat
  BY <1>2, TakenIs
<1>6. CASE t.grant /\ t.subj = v
  <2>1. Used(u, v) = Used(t, v) \cup {w}
    BY <1>2, <1>3, <1>6 DEF Used
  <2>2. Cardinality(Used(u, v)) = Cardinality(Used(t, v)) + 1
    BY <2>1, <1>4, FS_AddElement
  <2>3. Taken(t, v) = Cardinality(Used(t, v)) + 1
    BY <1>6, TakenIs
  <2> QED BY <2>2, <2>3, <1>5
<1>7. CASE ~(t.grant /\ t.subj = v)
  <2>1. Used(u, v) = Used(t, v)
    BY <1>2, <1>3, <1>7 DEF Used
  <2>2. Taken(t, v) = Cardinality(Used(t, v))
    BY <1>4, <1>7, TakenIs
  <2> QED BY <2>1, <2>2, <1>5
<1> QED BY <1>6, <1>7

(* Who wins nothing and keeps its grant has taken what it had.              *)
LEMMA TakenSame ==
    ASSUME NEW t, Flow(t), NEW u, Flow(u), u.wins = t.wins, u.grant = t.grant, t.grant => u.subj = t.subj, NEW v
    PROVE  Taken(u, v) = Taken(t, v)
<1>1. Used(u, v) = Used(t, v)
  BY DEF Used
<1> QED BY <1>1, TakenIs

(* The uses in flight follow those of r.                                    *)
LEMMA PendingMoves ==
    ASSUME FlowInv, FlowInv', NEW r \in Req, tx' = [tx EXCEPT ![r] = tx'[r]], NEW v \in Visitor
    PROVE  /\ Pending(v) \in Nat /\ Pending(v)' \in Nat
           /\ Pending(v)' + (IF r \in Active THEN Taken(tx[r], v) ELSE 0)
                = Pending(v) + (IF r \in Active' THEN Taken(tx'[r], v) ELSE 0)
           /\ (IF r \in Active THEN Taken(tx[r], v) ELSE 0) <= Pending(v)
<1>1. PICK f, g : /\ f = [q \in Active |-> Taken(tx[q], v)]
                  /\ g = [q \in Active' |-> Taken(tx'[q], v)]
  OBVIOUS
<1>2. Pending(v) = SumFunction(f) /\ Pending(v)' = SumFunction(g)
  BY <1>1 DEF Pending
<1>3. Active \in SUBSET Req /\ Active' \in SUBSET Req /\ IsFiniteSet(Req)
  BY SubjectsAssumption DEF Active
<1>4. \A q \in Req \ {r} : tx'[q] = tx[q] /\ (q \in Active <=> q \in Active')
  BY DEF Active, FlowInv
<1>5. Counts(f, Active) /\ DOMAIN f = Active
  <2>1. \A q \in Active : Taken(tx[q], v) \in Nat
    BY TakenIs DEF FlowInv
  <2> QED BY <2>1, <1>1 DEF Counts
<1>6. Counts(g, Active') /\ DOMAIN g = Active'
  <2>1. \A q \in Active' : Taken(tx'[q], v) \in Nat
    BY TakenIs DEF FlowInv
  <2> QED BY <2>1, <1>1 DEF Counts
<1>7. \A q \in Req \ {r} : q \in Active => g[q] = f[q]
  BY <1>1, <1>4
<1>8. PICK A, B : A = Active /\ B = Active'
  OBVIOUS
<1>9. /\ SumFunction(f) \in Nat /\ SumFunction(g) \in Nat
      /\ SumFunction(g) + (IF r \in A THEN f[r] ELSE 0) = SumFunction(f) + (IF r \in B THEN g[r] ELSE 0)
      /\ (IF r \in A THEN f[r] ELSE 0) <= SumFunction(f)
  <2>1. A \in SUBSET Req /\ B \in SUBSET Req /\ Counts(f, A) /\ Counts(g, B) /\ DOMAIN f = A /\ DOMAIN g = B
    BY <1>3, <1>5, <1>6, <1>8
  <2>2. \A q \in Req \ {r} : (q \in A <=> q \in B) /\ (q \in A => g[q] = f[q])
    BY <1>4, <1>7, <1>8
  <2>3. DifferIn(r, f, A, g, B, Req)
    BY <2>1, <2>2 DEF DifferIn
  <2> QED BY <2>3, <1>3, SumMoves
<1>10. (r \in A => f[r] = Taken(tx[r], v)) /\ (r \in B => g[r] = Taken(tx'[r], v))
  BY <1>1, <1>8
<1>11. /\ (IF r \in A THEN f[r] ELSE 0) = (IF r \in Active THEN Taken(tx[r], v) ELSE 0)
       /\ (IF r \in B THEN g[r] ELSE 0) = (IF r \in Active' THEN Taken(tx'[r], v) ELSE 0)
  BY <1>8, <1>10
<1> QED BY <1>2, <1>9, <1>11

(* A use is on the books, lost, or in the hands of a request.               *)
LEMMA UsesMove ==
    ASSUME FlowInv, FlowInv', UseInv, NEW r \in Req, tx' = [tx EXCEPT ![r] = tx'[r]],
           uses' \in [Visitor -> Int], spent' \in [Visitor -> Nat], lost' \in [Visitor -> Nat],
           \A v \in Visitor :
              /\ uses'[v] <= MaxUses
              /\ uses'[v] + (IF r \in Active THEN Taken(tx[r], v) ELSE 0) + spent[v] + lost[v]
                   = uses[v] + (IF r \in Active' THEN Taken(tx'[r], v) ELSE 0) + spent'[v] + lost'[v]
    PROVE  UseInv'
<1>1. ASSUME NEW v \in Visitor PROVE uses'[v] = spent'[v] + lost'[v] + Pending(v)' /\ uses'[v] \in 0 .. MaxUses
  <2>1. PICK a, b : /\ a = (IF r \in Active THEN Taken(tx[r], v) ELSE 0)
                    /\ b = (IF r \in Active' THEN Taken(tx'[r], v) ELSE 0)
    OBVIOUS
  <2>2. /\ Pending(v) \in Nat /\ Pending(v)' \in Nat
        /\ Pending(v)' + a = Pending(v) + b
    BY <2>1, PendingMoves
  <2>3. a \in Nat /\ b \in Nat
    <3>1. r \in Active => Flow(tx[r])
      BY DEF FlowInv
    <3>2. r \in Active' => Flow(tx'[r])
      BY DEF FlowInv
    <3> QED BY <3>1, <3>2, <2>1, TakenIs
  <2>4. PICK i, j : i = Pending(v) /\ j = Pending(v)'
    OBVIOUS
  <2>5. /\ i \in Nat /\ j \in Nat /\ j + a = i + b /\ uses'[v] <= MaxUses
        /\ uses'[v] + a + spent[v] + lost[v] = uses[v] + b + spent'[v] + lost'[v]
        /\ uses[v] = spent[v] + lost[v] + i
    BY <2>1, <2>2, <2>4 DEF UseInv
  <2>6. /\ spent[v] \in Nat /\ lost[v] \in Nat /\ spent'[v] \in Nat /\ lost'[v] \in Nat
        /\ uses[v] \in Nat /\ uses'[v] \in Int /\ MaxUses \in Nat
    BY LimitsAssumption DEF UseInv
  <2>7. uses'[v] = spent'[v] + lost'[v] + j
    BY <2>3, <2>5, <2>6
  <2> QED BY <2>4, <2>5, <2>6, <2>7
<1>2. uses' \in [Visitor -> 0 .. MaxUses]
  BY <1>1
<1>3. \A v \in Visitor : uses'[v] = spent'[v] + lost'[v] + Pending(v)'
  BY <1>1
<1> QED BY <1>2, <1>3 DEF UseInv

(* A step keeps the uses of r, or takes or returns one.                     *)
LEMMA WorkUses ==
    ASSUME FlowInv, FlowInv', UseInv, NEW r \in Req, Works(r)
    PROVE  /\ uses' \in [Visitor -> Int]
           /\ \A v \in Visitor :
                 /\ uses'[v] <= MaxUses
                 /\ uses'[v] + Taken(tx[r], v) = uses[v] + Taken(tx'[r], v)
<1>1. PICK t, u : t = tx[r] /\ u = tx'[r]
  OBVIOUS
<1>2. Flow(t) /\ Flow(u) /\ t \in Tx /\ u \in Tx /\ r \in Active /\ Moves(r)
  BY <1>1, WorkFlow DEF Moves, FlowInv, Flow
<1>3. \A v \in Visitor : /\ uses[v] \in Nat /\ uses[v] <= MaxUses /\ MaxUses \in Nat
                         /\ Taken(t, v) \in Nat /\ Taken(u, v) \in Nat
  BY <1>2, TakenIs, LimitsAssumption DEF UseInv
<1>4. ASSUME uses' = uses, \A v \in Visitor : Taken(u, v) = Taken(t, v)
      PROVE  /\ uses' \in [Visitor -> Int]
             /\ \A v \in Visitor : uses'[v] <= MaxUses /\ uses'[v] + Taken(t, v) = uses[v] + Taken(u, v)
  BY <1>3, <1>4 DEF UseInv
<1>5. ASSUME uses' = uses, u.wins = t.wins, u.grant = t.grant, t.grant => u.subj = t.subj
      PROVE  /\ uses' \in [Visitor -> Int]
             /\ \A v \in Visitor : uses'[v] <= MaxUses /\ uses'[v] + Taken(t, v) = uses[v] + Taken(u, v)
  <2>1. \A v \in Visitor : Taken(u, v) = Taken(t, v)
    BY <1>2, <1>5, TakenSame
  <2> QED BY <2>1, <1>4, <1>5
<1>6. t.grant \in BOOLEAN /\ u.grant \in BOOLEAN
  BY <1>2 DEF Tx
<1>7. CASE TakeMessage(r)
  <2>1. u.wins = t.wins /\ ~t.grant /\ ~u.grant /\ uses' = uses
    BY <1>1, <1>7, TakeMessageFlow DEF TakeMessage, grants
  <2> QED BY <2>1, <1>1, <1>5, <1>6
<1>8. CASE MemberCommand(r)
  <2>1. u.wins = t.wins /\ ~t.grant /\ ~u.grant /\ uses' = uses
    BY <1>1, <1>8, CommandFlow DEF MemberCommand, grants
  <2> QED BY <2>1, <1>1, <1>5, <1>6
<1>9. CASE NoCommand(r)
  <2>1. u.wins = t.wins /\ ~t.grant /\ ~u.grant /\ uses' = uses
    BY <1>1, <1>9, SettleFlow DEF NoCommand, grants, Done
  <2> QED BY <2>1, <1>1, <1>5, <1>6
<1>10. CASE LogOpen(r)
  <2>1. u.wins = t.wins /\ u.grant = t.grant /\ (t.grant => u.subj = t.subj) /\ uses' = uses
    BY <1>1, <1>10, LogOpenFlow DEF LogOpen, grants, Goes
  <2> QED BY <2>1, <1>1, <1>5
<1>11. CASE BumpMember(r)
  <2>1. u.wins = t.wins /\ u.grant = t.grant /\ (t.grant => u.subj = t.subj) /\ uses' = uses
    BY <1>1, <1>11, BumpMemberFlow DEF BumpMember, grants, Goes
  <2> QED BY <2>1, <1>1, <1>5
<1>12. ASSUME NEW command, NEW counted, WinsBy(t, u, WinOf(t, command, counted)), uses' = uses
       PROVE  /\ uses' \in [Visitor -> Int]
              /\ \A v \in Visitor : uses'[v] <= MaxUses /\ uses'[v] + Taken(t, v) = uses[v] + Taken(u, v)
  <2>1. \A v \in Visitor : Taken(u, v) = Taken(t, v)
    BY <1>2, <1>12, TakenByWin
  <2> QED BY <2>1, <1>4, <1>12
<1>13. CASE LogClose(r)
  <2>1. WinsBy(t, u, WinOf(t, "close", FALSE)) /\ uses' = uses
    BY <1>1, <1>13, LogCloseFlow DEF LogClose, grants
  <2> QED BY <2>1, <1>1, <1>12
<1>14. CASE Degrade(r)
  <2>1. WinsBy(t, u, WinOf(t, "open", FALSE)) /\ uses' = uses
    BY <1>1, <1>14, DegradeFlow DEF Degrade, grants
  <2> QED BY <2>1, <1>1, <1>12
<1>15. CASE BumpRest(r)
  <2>1. uses' = uses
    BY <1>15 DEF BumpRest, grants
  <2>2. \/ WinsBy(t, u, WinOf(t, "open", TRUE))
        \/ u.wins = t.wins /\ u.grant = t.grant /\ (t.grant => u.subj = t.subj)
    BY <1>1, <1>15, BumpRestFlow DEF Goes
  <2> QED BY <2>1, <2>2, <1>1, <1>5, <1>12
<1>16. CASE ConsumeGrant(r)
  <2>1. PICK s \in Visitor : s = u.subj
    BY <1>1, <1>16, CommandFlow
  <2>2. /\ u.wins = t.wins /\ ~t.grant /\ u.grant /\ uses[s] < MaxUses
        /\ uses' = [uses EXCEPT ![s] = @ + 1]
    BY <2>1, <1>1, <1>16, CommandFlow
  <2>3. ASSUME NEW v \in Visitor PROVE uses'[v] <= MaxUses /\ uses'[v] + Taken(t, v) = uses[v] + Taken(u, v)
    <3>1. Used(u, v) = Used(t, v)
      BY <2>2 DEF Used
    <3>2. Taken(t, v) = Cardinality(Used(t, v)) /\ Cardinality(Used(t, v)) \in Nat
      BY <2>2, <1>2, TakenIs
    <3>3. Taken(u, v) = Cardinality(Used(t, v)) + IF s = v THEN 1 ELSE 0
      BY <3>1, <2>1, <2>2, <1>2, TakenIs
    <3>4. uses'[v] = uses[v] + IF s = v THEN 1 ELSE 0
      BY <2>1, <2>2, <1>3 DEF UseInv
    <3> QED BY <3>2, <3>3, <3>4, <2>1, <2>2, <1>3
  <2>4. uses' \in [Visitor -> Int]
    BY <2>1, <2>2, <1>3 DEF UseInv
  <2> QED BY <2>3, <2>4, <1>1
<1>17. CASE RefundGrant(r)
  <2>1. PICK s \in Visitor : s = t.subj
    BY <1>1, <1>17, SettleFlow
  <2>2. /\ u.wins = t.wins /\ t.grant /\ ~u.grant
        /\ uses' = [uses EXCEPT ![s] = IF @ > 0 THEN @ - 1 ELSE 0]
    BY <2>1, <1>1, <1>17, SettleFlow DEF RefundGrant, Done
  <2>3. \A v \in Visitor :
           /\ Cardinality(Used(t, v)) \in Nat
           /\ Taken(t, v) = Cardinality(Used(t, v)) + IF s = v THEN 1 ELSE 0
    BY <2>1, <2>2, <1>2, TakenIs
  <2>4. uses[s] > 0
    <3>1. Pending(s) \in Nat /\ Taken(t, s) <= Pending(s)
      BY <2>1, <1>1, <1>2, PendingMoves DEF Moves
    <3>2. Taken(t, s) >= 1
      BY <2>3
    <3>3. uses[s] = spent[s] + lost[s] + Pending(s) /\ spent[s] \in Nat /\ lost[s] \in Nat
      BY DEF UseInv
    <3> QED BY <3>1, <3>2, <3>3, <1>3
  <2>5. ASSUME NEW v \in Visitor PROVE uses'[v] <= MaxUses /\ uses'[v] + Taken(t, v) = uses[v] + Taken(u, v)
    <3>1. Used(u, v) = Used(t, v)
      BY <2>2 DEF Used
    <3>2. Taken(u, v) = Cardinality(Used(t, v))
      BY <3>1, <2>2, <1>2, TakenIs
    <3>3. uses'[v] = uses[v] - IF s = v THEN 1 ELSE 0
      BY <2>1, <2>2, <2>4, <1>3 DEF UseInv
    <3> QED BY <3>2, <3>3, <2>3, <1>3
  <2>6. uses' \in [Visitor -> Int]
    BY <2>1, <2>2, <1>3 DEF UseInv
  <2> QED BY <2>5, <2>6, <1>1
<1> QED BY <1>7, <1>8, <1>9, <1>10, <1>11, <1>13, <1>14, <1>15, <1>16, <1>17 DEF Works

(* The uses stay accounted for.                                             *)
LEMMA UseNext ==
    ASSUME FlowInv, UseInv, [Next]_vars
    PROVE  UseInv'
<1> FlowInv'
  BY FlowNext
<1>1. \A v \in Visitor : uses[v] \in Nat /\ uses[v] <= MaxUses /\ spent[v] \in Nat /\ lost[v] \in Nat
  BY LimitsAssumption DEF UseInv
<1>2. \A r \in Active, v \in Visitor : Taken(tx[r], v) \in Nat
  BY TakenIs DEF FlowInv
<1>3. uses \in [Visitor -> Int] /\ spent \in [Visitor -> Nat] /\ lost \in [Visitor -> Nat]
  BY LimitsAssumption DEF UseInv
<1>4. ASSUME NEW r \in Req, Starts(r) PROVE UseInv'
  <2>1. Begins(r)
    BY <1>4, StartFlow
  <2>2. uses' = uses /\ spent' = spent /\ lost' = lost /\ r \notin Active /\ tx' = [tx EXCEPT ![r] = tx'[r]]
    BY <2>1 DEF Begins
  <2>3. ASSUME NEW v \in Visitor PROVE Taken(tx'[r], v) = 0
    <3>1. Flow(tx'[r]) /\ tx'[r].wins = {} /\ ~tx'[r].grant
      BY <2>1 DEF Begins
    <3>2. Used(tx'[r], v) = {}
      BY <3>1 DEF Used
    <3> QED BY <3>1, <3>2, TakenIs, FS_EmptySet
  <2>4. \A v \in Visitor :
              /\ uses'[v] <= MaxUses
              /\ uses'[v] + (IF r \in Active THEN Taken(tx[r], v) ELSE 0) + spent[v] + lost[v]
                   = uses[v] + (IF r \in Active' THEN Taken(tx'[r], v) ELSE 0) + spent'[v] + lost'[v]
    BY <2>2, <2>3, <1>1
  <2> QED BY <2>2, <2>4, <1>3, UsesMove
<1>5. ASSUME NEW r \in Req, Works(r) PROVE UseInv'
  <2>1. r \in Active /\ Moves(r) /\ spent' = spent /\ lost' = lost /\ tx'[r].kind = tx[r].kind
    BY <1>5, WorkFlow
  <2>2. r \in Active' /\ tx' = [tx EXCEPT ![r] = tx'[r]]
    BY <2>1 DEF Active, Moves
  <2>3. /\ uses' \in [Visitor -> Int]
        /\ \A v \in Visitor :
              /\ uses'[v] <= MaxUses
              /\ uses'[v] + Taken(tx[r], v) = uses[v] + Taken(tx'[r], v)
    BY <1>5, WorkUses
  <2>4. \A v \in Visitor :
              /\ uses'[v] <= MaxUses
              /\ uses'[v] + (IF r \in Active THEN Taken(tx[r], v) ELSE 0) + spent[v] + lost[v]
                   = uses[v] + (IF r \in Active' THEN Taken(tx'[r], v) ELSE 0) + spent'[v] + lost'[v]
    BY <2>1, <2>2, <2>3, <1>1
  <2> QED BY <2>1, <2>2, <2>3, <2>4, <1>3, UsesMove
<1>6. ASSUME NEW r \in Req, Commit(r) PROVE UseInv'
  <2>1. r \in Active /\ Over(r) /\ tx'[r] \in Replying \cup {Idle} /\ tx' = [tx EXCEPT ![r] = tx'[r]]
    BY <1>6, OverFlow DEF Over
  <2>2. r \notin Active'
    <3>1. tx'[r].kind # "request" /\ tx'[r].kind # "batch"
      BY <2>1 DEF Replying, Idle
    <3> QED BY <3>1 DEF Active
  <2>3. Flow(tx[r]) /\ ~tx[r].grant
    BY <2>1, <1>6 DEF Commit, At, FlowInv, Flow, Staged
  <2>4. uses' = uses /\ lost' = lost
        /\ spent' = [v \in Visitor |-> spent[v] + Cardinality(Used(tx[r], v))]
    BY <1>6 DEF Commit, grants, Used
  <2>5. \A v \in Visitor : Taken(tx[r], v) = Cardinality(Used(tx[r], v)) /\ Cardinality(Used(tx[r], v)) \in Nat
    BY <2>3, TakenIs
  <2>6. ASSUME NEW v \in Visitor
        PROVE  /\ uses'[v] <= MaxUses
               /\ uses'[v] + Taken(tx[r], v) + spent[v] + lost[v] = uses[v] + 0 + spent'[v] + lost'[v]
    <3>1. spent'[v] = spent[v] + Taken(tx[r], v) /\ uses'[v] = uses[v] /\ lost'[v] = lost[v]
      BY <2>4, <2>5
    <3> QED BY <3>1, <2>1, <1>1, <1>2
  <2>7. \A v \in Visitor :
              /\ uses'[v] <= MaxUses
              /\ uses'[v] + (IF r \in Active THEN Taken(tx[r], v) ELSE 0) + spent[v] + lost[v]
                   = uses[v] + (IF r \in Active' THEN Taken(tx'[r], v) ELSE 0) + spent'[v] + lost'[v]
    BY <2>1, <2>2, <2>6
  <2>8. spent' \in [Visitor -> Nat]
    BY <2>4, <2>5, <1>1
  <2> QED BY <2>1, <2>4, <2>7, <2>8, <1>3, UsesMove
<1>7. ASSUME NEW r \in Req, Abort(r) PROVE UseInv'
  <2>1. r \in Active /\ Over(r) /\ tx'[r] = Idle /\ tx' = [tx EXCEPT ![r] = tx'[r]]
    BY <1>7, OverFlow DEF Over
  <2>2. r \notin Active'
    BY <2>1 DEF Active, Idle
  <2>3. uses' = uses /\ spent' = spent /\ lost' = [v \in Visitor |-> lost[v] + Taken(tx[r], v)]
    BY <1>7 DEF Abort, logged
  <2>4. lost' \in [Visitor -> Nat]
    BY <2>1, <2>3, <1>1, <1>2
  <2>5. ASSUME NEW v \in Visitor
        PROVE  /\ uses'[v] <= MaxUses
               /\ uses'[v] + Taken(tx[r], v) + spent[v] + lost[v] = uses[v] + 0 + spent'[v] + lost'[v]
    <3>1. lost'[v] = lost[v] + Taken(tx[r], v) /\ uses'[v] = uses[v] /\ spent'[v] = spent[v]
      BY <2>3
    <3> QED BY <3>1, <2>1, <1>1, <1>2
  <2>6. \A v \in Visitor :
              /\ uses'[v] <= MaxUses
              /\ uses'[v] + (IF r \in Active THEN Taken(tx[r], v) ELSE 0) + spent[v] + lost[v]
                   = uses[v] + (IF r \in Active' THEN Taken(tx'[r], v) ELSE 0) + spent'[v] + lost'[v]
    BY <2>1, <2>2, <2>5
  <2> QED BY <2>1, <2>3, <2>4, <2>6, <1>3, UsesMove
<1>8. ASSUME NEW r \in Req, StopReplying(r) \/ \E m \in Msg : Reply(r, m) PROVE UseInv'
  <2>1. r \notin Active /\ Over(r) /\ tx'[r] \in Replying \cup {Idle} /\ tx' = [tx EXCEPT ![r] = tx'[r]]
    BY <1>8, OverFlow DEF Over
  <2>2. r \notin Active'
    <3>1. tx'[r].kind # "request" /\ tx'[r].kind # "batch"
      BY <2>1 DEF Replying, Idle
    <3> QED BY <3>1 DEF Active
  <2>3. uses' = uses /\ spent' = spent /\ lost' = lost
    BY <1>8 DEF StopReplying, Reply, grants, logged
  <2>4. \A v \in Visitor :
              /\ uses'[v] <= MaxUses
              /\ uses'[v] + (IF r \in Active THEN Taken(tx[r], v) ELSE 0) + spent[v] + lost[v]
                   = uses[v] + (IF r \in Active' THEN Taken(tx'[r], v) ELSE 0) + spent'[v] + lost'[v]
    BY <2>1, <2>2, <2>3, <1>1
  <2> QED BY <2>1, <2>3, <2>4, <1>3, UsesMove
<1>9. ASSUME UNCHANGED <<uses, spent, lost>>, Active' = Active,
             \A r \in Active, v \in Visitor : Taken(tx'[r], v) = Taken(tx[r], v)
      PROVE  UseInv'
  <2>1. ASSUME NEW v \in Visitor PROVE Pending(v)' = Pending(v)
    <3>1. [q \in Active' |-> Taken(tx'[q], v)] = [q \in Active |-> Taken(tx[q], v)]
      BY <1>9
    <3>2. Pending(v)' = SumFunction([q \in Active' |-> Taken(tx'[q], v)])
      BY DEF Pending
    <3> QED BY <3>1, <3>2 DEF Pending
  <2>2. \A v \in Visitor : uses'[v] = spent'[v] + lost'[v] + Pending(v)'
    BY <2>1, <1>9 DEF UseInv
  <2> QED BY <2>2, <1>9 DEF UseInv
<1>10. ASSUME UNCHANGED <<uses, spent, lost, tx>> PROVE UseInv'
  <2>1. tx' = tx /\ Active' = Active
    BY <1>10 DEF Active
  <2> QED BY <2>1, <1>9, <1>10
<1>11. ASSUME NEW s, Unbar(s) PROVE UseInv'
  <2>1. Active' = Active /\ (\A r \in Active : Alike(tx[r], tx'[r]) /\ Flow(tx[r]) /\ Flow(tx'[r]))
    BY <1>11, UnbarFlow DEF FlowInv
  <2>2. \A r \in Active, v \in Visitor : Taken(tx'[r], v) = Taken(tx[r], v)
    BY <2>1, TakenSame DEF Alike
  <2>3. UNCHANGED <<uses, spent, lost>>
    BY <1>11 DEF Unbar, grants, logged
  <2> QED BY <2>1, <2>2, <2>3, <1>9
<1>12. CASE Next
  <2>1. ASSUME Elsewhere PROVE UseInv'
    BY <2>1, <1>10, ElsewhereFlow
  <2> QED BY <2>1, <1>4, <1>5, <1>6, <1>7, <1>8, <1>11, <1>12, StepKinds
<1>13. CASE UNCHANGED vars
  BY <1>13, <1>10 DEF vars
<1> QED BY <1>12, <1>13

(* At first nothing is counted and nothing in hand.                         *)
LEMMA NothingInHand ==
    ASSUME Init
    PROVE  /\ \A row \in Row : InHand(row) = 0 /\ Opens(row) = 0
           /\ \A v \in Visitor : Pending(v) = 0
<1>1. Active = {}
  BY DEF Init, Active, Idle
<1>2. ASSUME NEW f, DOMAIN f = {} PROVE SumFunction(f) = 0
  <2>1. IsFiniteSet({}) /\ Counts(f, {})
    BY FS_EmptySet DEF Counts
  <2>2. SumFunctionOnSet(f, {}) = 0
    BY <2>1, SumStep
  <2> QED BY <2>2, <1>2 DEF SumFunction
<1>3. \A row \in Row : InHand(row) = 0
  BY <1>1, <1>2 DEF InHand
<1>4. \A v \in Visitor : Pending(v) = 0
  BY <1>1, <1>2 DEF Pending
<1>5. SumFunctionOnSet(opened, Subject) = 0
  <2>1. IsFiniteSet(Subject) /\ Counts(opened, Subject) /\ \A s \in Subject : opened[s] = 0
    BY SubjectsAssumption DEF Init, Counts
  <2>2. Units(opened, Subject) = {}
    BY <2>1 DEF Units
  <2> QED BY <2>1, <2>2, SumCounts, FS_EmptySet
<1>6. \A row \in Row : Opens(row) = 0
  <2>1. \A row \in Row : row[2] \in Subject \cup {NoSubject}
    BY DEF Row
  <2> QED BY <2>1, <1>5 DEF Opens, Init
<1> QED BY <1>3, <1>4, <1>6

(* In the beginning nothing is counted and nothing used.                    *)
LEMMA CountInit ==
    ASSUME Init PROVE CounterInv /\ UseInv
<1>1. CounterInv
  <2>1. counter = [row \in Row |-> 0] /\ opened = [s \in Subject |-> 0]
    BY DEF Init
  <2> QED BY <2>1, NothingInHand DEF CounterInv
<1>2. UseInv
  <2>1. uses = [v \in Visitor |-> 0] /\ spent = [v \in Visitor |-> 0] /\ lost = [v \in Visitor |-> 0]
    BY DEF Init
  <2> QED BY <2>1, NothingInHand, LimitsAssumption DEF UseInv
<1> QED BY <1>1, <1>2

(* Cooldowns are of subjects, grants of visitors.                           *)
Sets == cooling \subseteq Subject /\ grantless \subseteq Visitor

(* They stay so.                                                            *)
LEMMA SetsNext ==
    ASSUME FlowInv, Sets, [Next]_vars
    PROVE  Sets'
<1>1. ASSUME NEW r \in Req, Starts(r) PROVE Sets'
  BY <1>1, StartFlow DEF Begins, Sets
<1>2. ASSUME NEW r \in Req, Works(r) PROVE Sets'
  BY <1>2, WorkFlow DEF Sets
<1>3. ASSUME NEW r \in Req, Commit(r) PROVE Sets'
  <2>1. \A w \in tx[r].wins : w.subj \in Subject
    <3>1. tx[r] \in Tx
      BY <1>3, OverFlow DEF FlowInv, Flow
    <3>2. tx[r].wins \subseteq Win
      BY <3>1 DEF Tx
    <3> QED BY <3>2 DEF Win
  <2> QED BY <2>1, <1>3 DEF Commit, Sets, grants
<1>4. ASSUME NEW r \in Req, Abort(r) \/ StopReplying(r) \/ \E m \in Msg : Reply(r, m) PROVE Sets'
  BY <1>4 DEF Abort, StopReplying, Reply, Sets, limits, grants
<1>5. ASSUME Elsewhere PROVE Sets'
  BY <1>5 DEF Elsewhere, CooldownElapses, GrantAccess, RevokeGrant, Bar, Sets, limits, grants
<1>6. ASSUME NEW s, Unbar(s) PROVE Sets'
  BY <1>6 DEF Unbar, Sets, limits, grants
<1>7. CASE UNCHANGED vars
  BY <1>7 DEF vars, Sets
<1>8. CASE Next
  BY <1>1, <1>2, <1>3, <1>4, <1>5, <1>6, <1>8, StepKinds
<1> QED BY <1>7, <1>8

(* The inductive invariant of the three theorems on the books.              *)
BooksInv == FlowInv /\ MessageInv /\ CounterInv /\ UseInv /\ Sets

(* It holds always.                                                         *)
LEMMA Books == Spec => []BooksInv
<1>1. Init => BooksInv
  BY FlowInit, MessageInit, CountInit DEF BooksInv, Init, Sets
<1>2. BooksInv /\ [Next]_vars => BooksInv'
  BY FlowNext, MessageNext, CounterNext, UseNext, SetsNext DEF BooksInv
<1> QED BY <1>1, <1>2, PTL DEF Spec

(* The counters are exactly the opens, committed and in hand: denials and   *)
(* degraded opens never consume (checkAndConsumeOpenLimits, handBack).      *)
THEOREM CountsExactly == Spec => []CountersExact
<1>1. BooksInv => CountersExact
  <2> SUFFICES ASSUME BooksInv PROVE CountersExact
    OBVIOUS
  <2>1. ASSUME NEW r \in Active PROVE InFlight(tx[r])
    <3>1. Flow(tx[r])
      BY DEF BooksInv, FlowInv
    <3>2. tx[r].kind \in {"request", "batch"}
      BY <3>1 DEF Flow, Tx
    <3>3. tx[r].stage \in Stage /\ tx[r].subj \in Subject \cup {NoSubject} /\ tx[r].msg \in Msg \cup {NoMsg}
          /\ tx[r].held \subseteq Row /\ tx[r].wins \subseteq Win /\ tx[r].seen \subseteq Msg
      BY <3>1 DEF Flow, Tx
    <3>4. (tx[r].grant => tx[r].subj \in Visitor) /\ tx[r].cur \subseteq tx[r].held /\ tx[r].base \subseteq tx[r].held
      BY <3>1 DEF Flow, Staged, Carried
    <3>5. tx[r].replies \subseteq tx[r].seen /\ {Sender[m] : m \in tx[r].seen} \subseteq tx[r].chats
      BY <3>1, <3>2 DEF Flow, Carried
    <3> QED BY <3>3, <3>4, <3>5 DEF InFlight
  <2>2. \A r, q \in Active : r # q => tx[r].held \cap tx[q].held = {} /\ tx[r].chats \cap tx[q].chats = {}
    BY DEF BooksInv, FlowInv, Apart
  <2>3. OpenPathTypeOK
    BY <2>1, <2>2 DEF BooksInv, CounterInv, UseInv, Sets, MessageInv, FlowInv, OpenPathTypeOK
  <2> QED BY <2>3 DEF CountersExact, BooksInv, CounterInv, InHand
<1> QED BY <1>1, Books, PTL

(* No use of a grant disappears but by a rollback (tryConsumeGrant,         *)
(* refundGrantUse).                                                         *)
THEOREM AccountsForUses == Spec => []UsesAccounted
<1>1. BooksInv => UsesAccounted
  BY DEF BooksInv, UseInv, UsesAccounted, Pending
<1> QED BY <1>1, Books, PTL

-----------------------------------------------------------------------------
(* The limits and the cooldown.                                            *)

(* The wins that count against the limits.                                  *)
CountedWins(t) == {w \in t.wins : w.counted}

(* The subjects that the quotas bind.                                       *)
Limited == Subject \ Admin
(* Their wins.                                                              *)
LimitedWins(t) == {w \in CountedWins(t) : w.subj \in Limited}

(* The caps and quotas of the counters.                                     *)
Caps ==
    /\ \A s \in Subject : counter[<<"opens_1h", s>>] <= HourCap
    /\ counter[AcctRow] <= AcctCap
    /\ \A s \in Limited : counter[<<"opens_1d", s>>] <= MemberQuota

(* The location's row.                                                      *)
LocRow == <<"loc_opens_1d", NoSubject>>

(* Their opens.                                                             *)
LimitedTotal == SumFunctionOnSet(opened, Limited)

(* Counters are within caps and quotas, nobody's win is in its cooldown,    *)
(* and the location's quota has room for all that is won.                   *)
GateInv ==
    /\ Caps
    /\ \A r \in Active : \A w \in CountedWins(tx[r]) : w.subj \notin cooling
    /\ LimitedTotal <= LocQuota
    /\ \A r \in Active : LimitedTotal + Cardinality(LimitedWins(tx[r])) <= LocQuota

(* The rows of the limits by their names.                                   *)
LEMMA KnownRows ==
    /\ \A s \in Subject : <<"opens_1h", s>> \in Row /\ <<"opens_1d", s>> \in Row
    /\ AcctRow \in Row /\ LocRow \in Row
    /\ AcctRow[1] = "acct_opens_1h" /\ LocRow[1] = "loc_opens_1d"
    /\ AcctRow[2] = NoSubject /\ LocRow[2] = NoSubject
    /\ \A s \in Subject : Later(s) = {AcctRow, <<"opens_1d", s>>, LocRow}
<1>1. ASSUME NEW s \in Subject PROVE Later(s) = {AcctRow, <<"opens_1d", s>>, LocRow}
  <2>1. \A i \in 1 .. 3 : i = 1 \/ i = 2 \/ i = 3
    OBVIOUS
  <2>2. LaterRows(s)[1] = AcctRow /\ LaterRows(s)[2] = <<"opens_1d", s>> /\ LaterRows(s)[3] = LocRow
    BY DEF LaterRows, AcctRow, LocRow
  <2> QED BY <2>1, <2>2 DEF Later
<1>2. \A s \in Subject : <<"opens_1h", s>> \in Row /\ <<"opens_1d", s>> \in Row
  BY DEF Row
<1>3. AcctRow \in Row /\ LocRow \in Row
  BY DEF Row, AcctRow, LocRow
<1> QED BY <1>1, <1>2, <1>3 DEF AcctRow, LocRow

(* A limit without room is never raised.                                    *)
LEMMA CapsNoMore ==
    ASSUME Caps, counter \in [Row -> Nat], counter' \in [Row -> Int],
           \A row \in Row : counter'[row] <= counter[row]
    PROVE  Caps'
<1>1. HourCap \in Nat /\ AcctCap \in Nat /\ MemberQuota \in Nat
  BY LimitsAssumption
<1>2. \A row \in Row, n \in Nat : counter[row] <= n => counter'[row] <= n
  OBVIOUS
<1>3. Limited \subseteq Subject
  BY DEF Limited
<1> QED BY <1>1, <1>2, <1>3, KnownRows DEF Caps

(* No step of an open transaction raises a counter over its limit.          *)
LEMMA WorkCaps ==
    ASSUME FlowInv, CounterInv, Caps, NEW r \in Req, Works(r)
    PROVE  Caps'
<1>0. HourCap \in Nat /\ AcctCap \in Nat /\ MemberQuota \in Nat /\ Limited \subseteq Subject
  BY LimitsAssumption DEF Limited
<1>1. counter \in [Row -> Nat]
  BY DEF CounterInv
<1>2. ASSUME counter' = counter PROVE Caps'
  BY <1>2 DEF Caps
<1>3. ASSUME NEW rows, counter' = Unbumped(rows) PROVE Caps'
  <2>1. counter' \in [Row -> Int] /\ \A row \in Row : counter'[row] <= counter[row]
    BY <1>1, <1>3 DEF Unbumped
  <2> QED BY <2>1, <1>1, CapsNoMore
<1>4. CASE BumpMember(r)
  <2>1. PICK s \in Subject : \/ HasRoom(MemberRow(s), s) /\ counter' = Bumped({MemberRow(s)})
                             \/ counter' = counter
    BY <1>4, BumpMemberFlow
  <2>2. CASE HasRoom(MemberRow(s), s) /\ counter' = Bumped({MemberRow(s)})
    <3>1. MemberRow(s) = <<"opens_1h", s>> /\ MemberRow(s)[1] = "opens_1h"
      BY DEF MemberRow
    <3>2. counter[<<"opens_1h", s>>] < HourCap
      BY <3>1, <2>2 DEF HasRoom
    <3>3. \A row \in Row : counter'[row] = counter[row] + IF row = <<"opens_1h", s>> THEN 1 ELSE 0
      BY <3>1, <2>2 DEF Bumped
    <3>4. ASSUME NEW x \in Subject PROVE counter'[<<"opens_1h", x>>] <= HourCap
      <4>1. counter[<<"opens_1h", x>>] <= HourCap /\ <<"opens_1h", x>> \in Row /\ counter[<<"opens_1h", x>>] \in Nat
        BY <1>1, KnownRows DEF Caps
      <4>2. CASE x = s
        BY <4>1, <4>2, <3>2, <3>3, <1>0
      <4>3. CASE x # s
        BY <4>1, <4>3, <3>3
      <4> QED BY <4>2, <4>3
    <3>5. counter'[AcctRow] = counter[AcctRow]
      <4>1. AcctRow # <<"opens_1h", s>> /\ AcctRow \in Row /\ counter[AcctRow] \in Nat
        BY <1>1, KnownRows DEF AcctRow
      <4> QED BY <4>1, <3>3
    <3>6. \A x \in Subject : counter'[<<"opens_1d", x>>] = counter[<<"opens_1d", x>>]
      <4>1. \A x \in Subject : <<"opens_1d", x>> # <<"opens_1h", s>> /\ <<"opens_1d", x>> \in Row
        BY KnownRows
      <4>2. \A x \in Row : x # <<"opens_1h", s>> => counter'[x] = counter[x]
        BY <3>3, <1>1
      <4> QED BY <4>1, <4>2
    <3> QED BY <3>4, <3>5, <3>6, <1>0 DEF Caps
  <2> QED BY <2>1, <2>2, <1>2
<1>5. CASE BumpRest(r)
  <2>1. PICK s \in Subject : \/ counter' = Bumped(Later(s)) /\ \A i \in 1 .. 3 : HasRoom(LaterRows(s)[i], s)
                             \/ counter' = Unbumped(tx[r].cur)
    BY <1>5, BumpRestFlow
  <2>2. CASE counter' = Bumped(Later(s)) /\ \A i \in 1 .. 3 : HasRoom(LaterRows(s)[i], s)
    <3>1. HasRoom(AcctRow, s) /\ HasRoom(<<"opens_1d", s>>, s)
      <4>1. LaterRows(s)[1] = AcctRow /\ LaterRows(s)[2] = <<"opens_1d", s>> /\ 1 \in 1 .. 3 /\ 2 \in 1 .. 3
        BY DEF LaterRows, AcctRow
      <4> QED BY <4>1, <2>2
    <3>2. counter[AcctRow] < AcctCap
      BY <3>1, KnownRows DEF HasRoom
    <3>3. s \in Limited => counter[<<"opens_1d", s>>] < MemberQuota
      BY <3>1 DEF HasRoom, Limited
    <3>4. \A row \in Row : counter'[row] = counter[row] + IF row \in {AcctRow, <<"opens_1d", s>>, LocRow} THEN 1 ELSE 0
      BY <2>2, KnownRows DEF Bumped
    <3>5. \A x \in Subject : counter'[<<"opens_1h", x>>] = counter[<<"opens_1h", x>>]
      <4>1. \A x \in Subject : /\ <<"opens_1h", x>> \notin {AcctRow, <<"opens_1d", s>>, LocRow}
                               /\ <<"opens_1h", x>> \in Row
        BY KnownRows DEF AcctRow, LocRow
      <4>2. \A x \in Row : x \notin {AcctRow, <<"opens_1d", s>>, LocRow} => counter'[x] = counter[x]
        BY <3>4, <1>1
      <4> QED BY <4>1, <4>2
    <3>6. counter'[AcctRow] <= AcctCap
      BY <3>2, <3>4, <1>0, <1>1, KnownRows
    <3>7. ASSUME NEW x \in Limited PROVE counter'[<<"opens_1d", x>>] <= MemberQuota
      <4>1. /\ <<"opens_1d", x>> \in Row /\ counter[<<"opens_1d", x>>] \in Nat
            /\ counter[<<"opens_1d", x>>] <= MemberQuota
        BY <1>0, <1>1, KnownRows DEF Caps
      <4>2. CASE x = s
        BY <4>1, <4>2, <3>3, <3>4, <1>0
      <4>3. CASE x # s
        <5>1. <<"opens_1d", x>> \notin {AcctRow, <<"opens_1d", s>>, LocRow}
          BY <4>3 DEF AcctRow, LocRow
        <5> QED BY <4>1, <5>1, <3>4
      <4> QED BY <4>2, <4>3
    <3> QED BY <3>5, <3>6, <3>7 DEF Caps
  <2> QED BY <2>1, <2>2, <1>3
<1>6. CASE Degrade(r)
  BY <1>6, <1>3, DegradeFlow
<1>7. CASE TakeMessage(r) \/ ConsumeGrant(r) \/ MemberCommand(r) \/ NoCommand(r) \/ LogClose(r) \/ LogOpen(r) \/ RefundGrant(r)
  <2>1. counter' = counter
    BY <1>7 DEF TakeMessage, ConsumeGrant, MemberCommand, NoCommand, LogClose, LogOpen, RefundGrant, limits
  <2> QED BY <2>1, <1>2
<1> QED BY <1>4, <1>5, <1>6, <1>7 DEF Works

(* The counted wins of r stay, or the one of a subject with room is added.  *)
LEMMA WorkWins ==
    ASSUME FlowInv, NEW r \in Req, Works(r)
    PROVE  LET t == tx[r]
               u == tx'[r] IN
           \/ CountedWins(u) = CountedWins(t)
           \/ \E w : /\ CountedWins(u) = CountedWins(t) \cup {w} /\ w \notin CountedWins(t)
                     /\ w.subj \in Subject /\ w.subj \notin cooling
                     /\ HasRoom(LocRow, w.subj)
<1>1. PICK t, u : t = tx[r] /\ u = tx'[r]
  OBVIOUS
<1>2. ASSUME NEW command, WinsBy(t, u, WinOf(t, command, FALSE)) PROVE CountedWins(u) = CountedWins(t)
  BY <1>2 DEF WinsBy, WinOf, CountedWins
<1>3. ASSUME u.wins = t.wins PROVE CountedWins(u) = CountedWins(t)
  BY <1>3 DEF CountedWins
<1>4. CASE TakeMessage(r)
  BY <1>1, <1>3, <1>4, TakeMessageFlow
<1>5. CASE ConsumeGrant(r) \/ MemberCommand(r)
  BY <1>1, <1>3, <1>5, CommandFlow
<1>6. CASE NoCommand(r) \/ RefundGrant(r)
  BY <1>1, <1>3, <1>6, SettleFlow DEF Done
<1>7. CASE LogClose(r)
  BY <1>1, <1>2, <1>7, LogCloseFlow
<1>8. CASE LogOpen(r)
  BY <1>1, <1>3, <1>8, LogOpenFlow
<1>9. CASE BumpMember(r)
  BY <1>1, <1>3, <1>9, BumpMemberFlow
<1>10. CASE Degrade(r)
  BY <1>1, <1>2, <1>10, DegradeFlow
<1>11. CASE BumpRest(r)
  <2>1. PICK s : /\ s = t.subj /\ s \in Subject
                 /\ \/ /\ WinsBy(t, u, WinOf(t, "open", TRUE))
                       /\ \A i \in 1 .. 3 : HasRoom(LaterRows(s)[i], s)
                       /\ s \notin cooling
                    \/ u.wins = t.wins
    BY <1>1, <1>11, BumpRestFlow
  <2>2. CASE WinsBy(t, u, WinOf(t, "open", TRUE)) /\ (\A i \in 1 .. 3 : HasRoom(LaterRows(s)[i], s)) /\ s \notin cooling
    <3>1. PICK w : w = WinOf(t, "open", TRUE)
      OBVIOUS
    <3>2. w.counted = TRUE /\ w.subj = s
      BY <2>1, <3>1 DEF WinOf
    <3>3. CountedWins(u) = CountedWins(t) \cup {w} /\ w \notin CountedWins(t)
      BY <2>2, <3>1, <3>2 DEF WinsBy, CountedWins
    <3>4. HasRoom(LocRow, s)
      <4>1. LaterRows(s)[3] = LocRow /\ 3 \in 1 .. 3
        BY DEF LaterRows, LocRow
      <4> QED BY <4>1, <2>2
    <3> QED BY <3>2, <3>3, <3>4, <2>1, <2>2, <1>1
  <2> QED BY <2>1, <2>2, <1>1, <1>3
<1> QED BY <1>4, <1>5, <1>6, <1>7, <1>8, <1>9, <1>10, <1>11 DEF Works

(* Who has counted wins has the rows of the gate, and nobody else has.      *)
LEMMA OneWinner ==
    ASSUME FlowInv, NEW r \in Active, NEW q \in Active, r # q
    PROVE  CountedWins(tx[r]) = {} \/ CountedWins(tx[q]) = {}
<1>1. ASSUME NEW p \in Active, CountedWins(tx[p]) # {} PROVE LocRow \in tx[p].held
  <2>1. Flow(tx[p])
    BY DEF FlowInv
  <2>2. PICK w \in tx[p].wins : w.counted
    BY <1>1 DEF CountedWins
  <2>3. w.subj \in Subject
    BY <2>1, <2>2 DEF Flow, Tx, Win
  <2>4. RowsOf(w.subj) \subseteq tx[p].held
    BY <2>1, <2>2 DEF Flow, Carried, WinsOnce
  <2>5. LocRow \in RowsOf(w.subj)
    BY <2>3, RowSubject, KnownRows
  <2> QED BY <2>4, <2>5
<1>2. Apart(tx[r], tx[q])
  BY DEF FlowInv
<1> QED BY <1>1, <1>2 DEF Apart

(* The counted wins of a transaction are finitely many, and of subjects.    *)
LEMMA WinsFinite ==
    ASSUME NEW t, Flow(t)
    PROVE  /\ IsFiniteSet(CountedWins(t)) /\ IsFiniteSet(LimitedWins(t))
           /\ Cardinality(CountedWins(t)) \in Nat /\ Cardinality(LimitedWins(t)) \in Nat
           /\ Cardinality(LimitedWins(t)) <= Cardinality(CountedWins(t))
           /\ \A w \in CountedWins(t) : w.subj \in Subject
<1>1. IsFiniteSet(t.wins) /\ CountedWins(t) \subseteq t.wins /\ LimitedWins(t) \subseteq CountedWins(t)
  BY DEF Flow, Carried, CountedWins, LimitedWins
<1>2. IsFiniteSet(CountedWins(t)) /\ IsFiniteSet(LimitedWins(t)) /\ Cardinality(LimitedWins(t)) <= Cardinality(CountedWins(t))
  BY <1>1, FS_Subset
<1>3. t.wins \subseteq Win
  BY DEF Flow, Tx
<1>4. \A w \in CountedWins(t) : w.subj \in Subject
  BY <1>1, <1>3 DEF Win
<1> QED BY <1>2, <1>4, FS_CardinalityType

(* The opens of those with a quota are a number, and no more than all       *)
(* opens.                                                                   *)
LEMMA TotalNat ==
    ASSUME opened \in [Subject -> Nat]
    PROVE  /\ LimitedTotal \in Nat /\ SumFunctionOnSet(opened, Subject) \in Nat
           /\ LimitedTotal <= SumFunctionOnSet(opened, Subject)
<1>1. IsFiniteSet(Subject) /\ Counts(opened, Subject) /\ Limited \in SUBSET Subject
  BY SubjectsAssumption DEF Counts, Limited
<1>2. IsFiniteSet(Limited) /\ Counts(opened, Limited)
  BY <1>1, FS_Subset DEF Counts
<1>3. LimitedTotal \in Nat /\ SumFunctionOnSet(opened, Subject) \in Nat
  BY <1>1, <1>2, SumStep DEF LimitedTotal
<1>4. SumFunctionOnSet(opened, Limited) <= SumFunctionOnSet(opened, Subject)
  BY <1>1, SumAtMost
<1> QED BY <1>3, <1>4 DEF LimitedTotal

(* A location with room for a limited subject has room in its quota.        *)
LEMMA LimitedRoom ==
    ASSUME FlowInv, CounterInv, NEW r \in Active, NEW s \in Limited, HasRoom(LocRow, s)
    PROVE  LimitedTotal + Cardinality(LimitedWins(tx[r])) + 1 <= LocQuota
<1>1. Flow(tx[r]) /\ r \in Req
  BY DEF FlowInv, Active
<1>2. counter[LocRow] < LocQuota
  BY KnownRows DEF HasRoom, Limited
<1>3. counter[LocRow] = SumFunctionOnSet(opened, Subject) + InHand(LocRow) /\ counter[LocRow] \in Nat
  BY KnownRows DEF CounterInv, Opens
<1>4. InHand(LocRow) \in Nat /\ Made(tx[r], LocRow) <= InHand(LocRow)
  <2>1. PICK f : f = [q \in Active |-> Made(tx[q], LocRow)]
    OBVIOUS
  <2>2. \A q \in Active : Made(tx[q], LocRow) \in Nat
    BY MadeIs DEF FlowInv
  <2>3. Counts(f, Active) /\ DOMAIN f = Active /\ f[r] = Made(tx[r], LocRow)
    BY <2>1, <2>2 DEF Counts
  <2>4. IsFiniteSet(Active)
    BY SubjectsAssumption, FS_Subset DEF Active
  <2>5. SumFunctionOnSet(f, Active) \in Nat /\ f[r] <= SumFunctionOnSet(f, Active)
    BY <2>3, <2>4, SumChange DEF Counts
  <2>6. InHand(LocRow) = SumFunctionOnSet(f, Active)
    BY <2>1, <2>3 DEF InHand, SumFunction
  <2> QED BY <2>3, <2>5, <2>6
<1>5. Made(tx[r], LocRow) >= Cardinality(CountedWins(tx[r]))
  <2>1. \A w \in CountedWins(tx[r]) : w.subj \in Subject
    BY <1>1, WinsFinite
  <2>2. Counted(tx[r], LocRow) = CountedWins(tx[r])
    BY <2>1, RowSubject, KnownRows DEF Counted, CountedWins
  <2> QED BY <2>2, <1>1, MadeIs
<1>6. /\ Cardinality(CountedWins(tx[r])) \in Nat /\ Cardinality(LimitedWins(tx[r])) \in Nat
      /\ Cardinality(LimitedWins(tx[r])) <= Cardinality(CountedWins(tx[r]))
  BY <1>1, WinsFinite
<1>7. /\ LimitedTotal \in Nat /\ SumFunctionOnSet(opened, Subject) \in Nat
      /\ LimitedTotal <= SumFunctionOnSet(opened, Subject)
  BY TotalNat DEF CounterInv
<1>8. PICK i, m : i = InHand(LocRow) /\ m = Made(tx[r], LocRow)
  OBVIOUS
<1>9. m \in Nat /\ LocQuota \in Nat
  BY <1>1, <1>8, MadeIs, LimitsAssumption
<1> QED BY <1>2, <1>3, <1>4, <1>5, <1>6, <1>7, <1>8, <1>9

(* A step of an open transaction keeps the limits.                          *)
LEMMA GateWork ==
    ASSUME FlowInv, CounterInv, GateInv, NEW r \in Req, Works(r)
    PROVE  GateInv'
<1>1. /\ r \in Active /\ Moves(r) /\ cooling' = cooling /\ opened' = opened
      /\ tx'[r].kind = tx[r].kind
  BY WorkFlow
<1>2. /\ \A q \in Req : q # r => tx'[q] = tx[q]
      /\ \A q \in Active' : q \in Active
  BY <1>1 DEF Moves, FlowInv, Active
<1>3. Caps'
  BY WorkCaps DEF GateInv
<1>4. LimitedTotal' = LimitedTotal
  BY <1>1 DEF LimitedTotal
<1>5. PICK t, u : t = tx[r] /\ u = tx'[r]
  OBVIOUS
<1>6. \/ CountedWins(u) = CountedWins(t)
      \/ \E w : /\ CountedWins(u) = CountedWins(t) \cup {w} /\ w \notin CountedWins(t)
                /\ w.subj \in Subject /\ w.subj \notin cooling
                /\ HasRoom(LocRow, w.subj)
  BY <1>5, WorkWins
<1>7. \A w \in CountedWins(t) : w.subj \notin cooling
  BY <1>1, <1>5 DEF GateInv
<1>8. \A w \in CountedWins(u) : w.subj \notin cooling
  BY <1>6, <1>7
<1>9. Flow(t) /\ LimitedTotal + Cardinality(LimitedWins(t)) <= LocQuota
  BY <1>1, <1>5 DEF GateInv, FlowInv
<1>10. LimitedTotal + Cardinality(LimitedWins(u)) <= LocQuota
  <2>1. CASE LimitedWins(u) = LimitedWins(t)
    BY <2>1, <1>9
  <2>2. CASE LimitedWins(u) # LimitedWins(t)
    <3>1. PICK w : /\ CountedWins(u) = CountedWins(t) \cup {w} /\ w \notin CountedWins(t)
                   /\ w.subj \in Subject
                   /\ HasRoom(LocRow, w.subj)
      BY <2>2, <1>6 DEF LimitedWins
    <3>2. w.subj \in Limited /\ LimitedWins(u) = LimitedWins(t) \cup {w} /\ w \notin LimitedWins(t)
      BY <3>1, <2>2 DEF LimitedWins
    <3>3. Cardinality(LimitedWins(u)) = Cardinality(LimitedWins(t)) + 1
      BY <3>2, <1>9, WinsFinite, FS_AddElement
    <3>4. LimitedTotal + Cardinality(LimitedWins(t)) + 1 <= LocQuota
      BY <3>1, <3>2, <1>1, <1>5, LimitedRoom
    <3>5. LimitedTotal \in Nat /\ Cardinality(LimitedWins(t)) \in Nat
      BY <1>9, WinsFinite, TotalNat DEF CounterInv
    <3> QED BY <3>3, <3>4, <3>5
  <2> QED BY <2>1, <2>2
<1>11. \A q \in Active' : \A w \in CountedWins(tx'[q]) : w.subj \notin cooling'
  BY <1>1, <1>2, <1>5, <1>8 DEF GateInv, Active
<1>12. \A q \in Active' : LimitedTotal' + Cardinality(LimitedWins(tx'[q])) <= LocQuota
  BY <1>2, <1>4, <1>5, <1>10 DEF GateInv, Active
<1>13. LimitedTotal' <= LocQuota
  BY <1>4 DEF GateInv
<1> QED BY <1>3, <1>11, <1>12, <1>13 DEF GateInv

(* A commit logs the counted wins and starts their cooldowns.               *)
LEMMA CommitWins ==
    ASSUME NEW r \in Req, Commit(r), NEW W, W = CountedWins(tx[r]),
           NEW c, c = [s \in Subject |-> Cardinality({w \in W : w.subj = s})]
    PROVE  /\ opened' = [s \in Subject |-> opened[s] + c[s]]
           /\ cooling' = cooling \cup {w.subj : w \in W}
           /\ counter' = counter
<1>1. \A s \in Subject : {w \in tx[r].wins : w.counted /\ w.subj = s} = {w \in W : w.subj = s}
  BY DEF CountedWins
<1>2. opened' = [s \in Subject |-> opened[s] + Cardinality({w \in tx[r].wins : w.counted /\ w.subj = s})]
  BY DEF Commit
<1>3. \A s \in Subject : c[s] = Cardinality({w \in tx[r].wins : w.counted /\ w.subj = s})
  BY <1>1
<1>4. opened' = [s \in Subject |-> opened[s] + c[s]]
  BY <1>2, <1>3
<1> QED BY <1>4 DEF Commit, CountedWins

(* So does a commit: nobody else has counted wins.                          *)
LEMMA GateCommit ==
    ASSUME FlowInv, CounterInv, GateInv, NEW r \in Req, Commit(r)
    PROVE  GateInv'
<1>1. r \in Active /\ Over(r)
  BY OverFlow
<1>2. r \notin Active'
  <2>1. tx'[r].kind # "request" /\ tx'[r].kind # "batch"
    BY <1>1 DEF Over, Replying, Idle
  <2> QED BY <2>1 DEF Active
<1>3. \A q \in Active' : q \in Active /\ q # r /\ tx'[q] = tx[q]
  BY <1>1, <1>2 DEF Over, FlowInv, Active
<1>4. PICK W, c :
         /\ W = CountedWins(tx[r])
         /\ c = [s \in Subject |-> Cardinality({w \in W : w.subj = s})]
  OBVIOUS
<1>5. Flow(tx[r]) /\ IsFiniteSet(W) /\ \A w \in W : w.subj \in Subject
  BY <1>1, <1>4, WinsFinite DEF FlowInv
<1>6. opened' = [s \in Subject |-> opened[s] + c[s]] /\ cooling' = cooling \cup {w.subj : w \in W}
      /\ counter' = counter
  BY <1>4, CommitWins
<1>7. LimitedTotal' = LimitedTotal + Cardinality(LimitedWins(tx[r]))
  <2>1. IsFiniteSet(Limited) /\ Limited \subseteq Subject /\ Counts(opened, Limited)
    <3>1. IsFiniteSet(Subject) /\ Limited \in SUBSET Subject
      BY SubjectsAssumption DEF Limited
    <3> QED BY <3>1, FS_Subset DEF Counts, CounterInv
  <2>2. CountsBySubject(c, W, Limited)
    BY <2>1, <1>4 DEF CountsBySubject
  <2>3. Counts(c, Limited) /\ SumFunctionOnSet(c, Limited) = Cardinality({w \in W : w.subj \in Limited})
    BY <2>1, <2>2, <1>5, SumWins
  <2>4. {w \in W : w.subj \in Limited} = LimitedWins(tx[r])
    BY <1>4 DEF LimitedWins
  <2>5. \A s \in Limited : opened'[s] = opened[s] + c[s]
    BY <2>1, <1>6
  <2>6. SumFunctionOnSet(opened', Limited) = SumFunctionOnSet(opened, Limited) + SumFunctionOnSet(c, Limited)
    BY <2>1, <2>3, <2>5, SumAdd
  <2>7. LimitedTotal' = SumFunctionOnSet(opened', Limited)
    BY DEF LimitedTotal
  <2> QED BY <2>3, <2>4, <2>6, <2>7 DEF LimitedTotal
<1>8. LimitedTotal' <= LocQuota
  BY <1>1, <1>7 DEF GateInv
<1>9. ASSUME NEW q \in Active, q # r
      PROVE  /\ \A w \in CountedWins(tx[q]) : w.subj \notin cooling'
             /\ LimitedTotal' + Cardinality(LimitedWins(tx[q])) <= LocQuota
  <2>1. Flow(tx[q])
    BY DEF FlowInv
  <2>2. CASE CountedWins(tx[q]) = {}
    <3>1. LimitedWins(tx[q]) = {} /\ Cardinality({}) = 0
      BY <2>2, FS_EmptySet DEF LimitedWins
    <3>2. LimitedTotal' \in Nat
      <4>1. opened' \in [Subject -> Nat]
        BY CommitOpens
      <4>2. IsFiniteSet(Limited) /\ Counts(opened', Limited)
        <5>1. IsFiniteSet(Subject) /\ Limited \in SUBSET Subject
          BY SubjectsAssumption DEF Limited
        <5> QED BY <4>1, <5>1, FS_Subset DEF Counts
      <4>3. SumFunctionOnSet(opened', Limited) \in Nat
        BY <4>2, SumStep
      <4> QED BY <4>3 DEF LimitedTotal
    <3> QED BY <3>1, <3>2, <2>2, <1>8
  <2>3. CASE CountedWins(tx[q]) # {}
    <3>1. W = {}
      BY <2>3, <1>1, <1>4, <1>9, OneWinner
    <3>2. LimitedWins(tx[r]) = {} /\ Cardinality({}) = 0 /\ cooling' = cooling
      BY <3>1, <1>4, <1>6, FS_EmptySet DEF LimitedWins
    <3>3. LimitedTotal' = LimitedTotal
      <4>1. LimitedTotal \in Nat
        BY TotalNat DEF CounterInv
      <4> QED BY <4>1, <3>2, <1>7
    <3> QED BY <3>2, <3>3 DEF GateInv
  <2> QED BY <2>2, <2>3
<1>10. \A q \in Active' : \A w \in CountedWins(tx'[q]) : w.subj \notin cooling'
  BY <1>3, <1>9
<1>11. \A q \in Active' : LimitedTotal' + Cardinality(LimitedWins(tx'[q])) <= LocQuota
  BY <1>3, <1>9
<1>12. Caps'
  BY <1>6 DEF GateInv, Caps
<1> QED BY <1>8, <1>10, <1>11, <1>12 DEF GateInv

(* So does every step.                                                      *)
LEMMA GateNext ==
    ASSUME FlowInv, CounterInv, GateInv, [Next]_vars
    PROVE  GateInv'
<1>1. ASSUME UNCHANGED <<opened>>, cooling' \subseteq cooling,
             counter' \in [Row -> Int], \A row \in Row : counter'[row] <= counter[row],
             \A q \in Active' : CountedWins(tx'[q]) = {} \/ (q \in Active /\ CountedWins(tx'[q]) = CountedWins(tx[q]))
      PROVE  GateInv'
  <2>1. Caps'
    BY <1>1, CapsNoMore DEF GateInv, CounterInv
  <2>2. LimitedTotal' = LimitedTotal /\ LimitedTotal \in Nat /\ LimitedTotal <= LocQuota
    BY <1>1, TotalNat DEF LimitedTotal, CounterInv, GateInv
  <2>3. \A q \in Active' : \A w \in CountedWins(tx'[q]) : w.subj \notin cooling'
    BY <1>1 DEF GateInv
  <2>4. ASSUME NEW q \in Active' PROVE LimitedTotal' + Cardinality(LimitedWins(tx'[q])) <= LocQuota
    <3>1. CASE CountedWins(tx'[q]) = {}
      <4>1. LimitedWins(tx'[q]) = {} /\ Cardinality({}) = 0
        BY <3>1, FS_EmptySet DEF LimitedWins
      <4> QED BY <4>1, <2>2
    <3>2. CASE q \in Active /\ CountedWins(tx'[q]) = CountedWins(tx[q])
      <4>1. LimitedWins(tx'[q]) = LimitedWins(tx[q])
        BY <3>2 DEF LimitedWins
      <4> QED BY <4>1, <3>2, <2>2 DEF GateInv
    <3> QED BY <3>1, <3>2, <1>1
  <2> QED BY <2>1, <2>2, <2>3, <2>4 DEF GateInv
<1>2. ASSUME counter' = counter PROVE counter' \in [Row -> Int] /\ \A row \in Row : counter'[row] <= counter[row]
  BY <1>2 DEF CounterInv
<1>3. ASSUME NEW r \in Req, Starts(r) PROVE GateInv'
  <2>1. Begins(r)
    BY <1>3, StartFlow
  <2>2. \A q \in Req : q # r => tx'[q] = tx[q] /\ (q \in Active' <=> q \in Active)
    BY <2>1 DEF Begins, FlowInv, Active
  <2>3. CountedWins(tx'[r]) = {}
    BY <2>1 DEF Begins, CountedWins
  <2>4. \A q \in Active' : CountedWins(tx'[q]) = {} \/ (q \in Active /\ CountedWins(tx'[q]) = CountedWins(tx[q]))
    BY <2>2, <2>3 DEF Active
  <2> QED BY <2>1, <2>4, <1>1, <1>2 DEF Begins
<1>4. ASSUME NEW r \in Req, Over(r), UNCHANGED <<opened>>, cooling' \subseteq cooling,
             counter' \in [Row -> Int], \A row \in Row : counter'[row] <= counter[row]
      PROVE  GateInv'
  <2>1. r \notin Active'
    <3>1. tx'[r].kind # "request" /\ tx'[r].kind # "batch"
      BY <1>4 DEF Over, Replying, Idle
    <3> QED BY <3>1 DEF Active
  <2>2. \A q \in Active' : q \in Active /\ tx'[q] = tx[q]
    BY <2>1, <1>4 DEF Over, FlowInv, Active
  <2> QED BY <2>2, <1>1, <1>4
<1>5. ASSUME NEW r \in Req, Abort(r) PROVE GateInv'
  <2>1. r \in Active /\ Over(r)
    BY <1>5, OverFlow
  <2>2. counter' = [row \in Row |-> counter[row] - Made(tx[r], row)] /\ opened' = opened /\ cooling' = cooling
    BY <1>5 DEF Abort, logged
  <2>3. \A row \in Row : counter[row] \in Nat /\ Made(tx[r], row) \in Nat
    BY <2>1, MadeIs DEF FlowInv, CounterInv
  <2>4. counter' \in [Row -> Int] /\ \A row \in Row : counter'[row] <= counter[row]
    BY <2>2, <2>3
  <2> QED BY <2>1, <2>2, <2>4, <1>4
<1>6. ASSUME NEW r \in Req, StopReplying(r) \/ \E m \in Msg : Reply(r, m) PROVE GateInv'
  <2>1. Over(r)
    BY <1>6, OverFlow
  <2>2. counter' = counter /\ opened' = opened /\ cooling' = cooling
    BY <1>6 DEF StopReplying, Reply, limits, logged
  <2> QED BY <2>1, <2>2, <1>2, <1>4
<1>7. ASSUME NEW s, Unbar(s) PROVE GateInv'
  <2>1. Active' = Active /\ \A q \in Active : CountedWins(tx'[q]) = CountedWins(tx[q])
    BY <1>7, UnbarFlow DEF Alike, CountedWins
  <2>2. counter' = counter /\ opened' = opened /\ cooling' = cooling
    BY <1>7 DEF Unbar, limits, logged
  <2> QED BY <2>1, <2>2, <1>1, <1>2
<1>8. ASSUME UNCHANGED <<counter, opened, tx>>, cooling' \subseteq cooling PROVE GateInv'
  <2>1. Active' = Active /\ tx' = tx
    BY <1>8 DEF Active
  <2> QED BY <2>1, <1>1, <1>2, <1>8
<1>9. CASE Next
  <2>1. ASSUME Elsewhere PROVE GateInv'
    BY <2>1, <1>8, ElsewhereFlow
  <2> QED BY <2>1, <1>3, <1>5, <1>6, <1>7, <1>9, StepKinds, GateWork, GateCommit
<1>10. CASE UNCHANGED vars
  BY <1>10, <1>8 DEF vars
<1> QED BY <1>9, <1>10

(* In the beginning nothing is opened.                                      *)
LEMMA GateInit ==
    ASSUME Init PROVE GateInv
<1>1. Active = {}
  BY DEF Init, Active, Idle
<1>2. Caps
  <2>1. \A row \in Row : counter[row] = 0
    BY DEF Init
  <2>2. /\ \A s \in Subject : counter[<<"opens_1h", s>>] = 0 /\ counter[<<"opens_1d", s>>] = 0
        /\ counter[AcctRow] = 0
    BY <2>1, KnownRows
  <2>3. HourCap \in Nat /\ AcctCap \in Nat /\ MemberQuota \in Nat
    BY LimitsAssumption
  <2>4. \A s \in Limited : s \in Subject
    BY DEF Limited
  <2>5. \A n \in Nat : 0 <= n
    OBVIOUS
  <2>6. /\ \A s \in Subject : counter[<<"opens_1h", s>>] <= HourCap
        /\ \A s \in Limited : counter[<<"opens_1d", s>>] <= MemberQuota
        /\ counter[AcctRow] <= AcctCap
    BY <2>2, <2>3, <2>4, <2>5
  <2> QED BY <2>6 DEF Caps
<1>3. LimitedTotal <= LocQuota
  <2>1. CounterInv /\ SumFunctionOnSet(opened, Subject) = 0
    <3>1. Opens(AcctRow) = 0
      BY NothingInHand, KnownRows
    <3> QED BY <3>1, CountInit, KnownRows DEF Opens
  <2>2. LimitedTotal \in Nat /\ LimitedTotal <= SumFunctionOnSet(opened, Subject)
    BY <2>1, TotalNat DEF CounterInv
  <2> QED BY <2>1, <2>2, LimitsAssumption
<1> QED BY <1>1, <1>2, <1>3 DEF GateInv

(* The opens that the rows allow are within the limits of the gate.         *)
LEMMA WithinLimits ==
    ASSUME FlowInv, CounterInv, GateInv
    PROVE  Gate!Within
<1>1. ASSUME NEW row \in Row PROVE Opens(row) <= counter[row]
  <2>1. PICK f : f = [q \in Active |-> Made(tx[q], row)]
    OBVIOUS
  <2>2. Counts(f, Active) /\ DOMAIN f = Active
    <3>1. \A q \in Active : Made(tx[q], row) \in Nat
      BY MadeIs DEF FlowInv
    <3> QED BY <3>1, <2>1 DEF Counts
  <2>3. IsFiniteSet(Active)
    BY SubjectsAssumption, FS_Subset DEF Active
  <2>4. InHand(row) \in Nat
    BY <2>1, <2>2, <2>3, SumStep DEF InHand, SumFunction
  <2>5. counter[row] = Opens(row) + InHand(row) /\ Opens(row) \in Nat
    BY OpensNat DEF CounterInv
  <2>6. PICK i, o : i = InHand(row) /\ o = Opens(row)
    OBVIOUS
  <2> QED BY <2>4, <2>5, <2>6
<1>2. opened \in [Subject -> Nat] /\ counter \in [Row -> Nat]
  BY DEF CounterInv
<1>3. HourCap \in Nat /\ AcctCap \in Nat /\ MemberQuota \in Nat /\ LocQuota \in Nat
  BY LimitsAssumption
<1>4. NoSubject \notin Subject /\ Limited \subseteq Subject
  BY SubjectsAssumption DEF Limited
<1>5. ASSUME NEW s \in Subject PROVE opened[s] <= HourCap
  <2>1. <<"opens_1h", s>> \in Row /\ <<"opens_1h", s>>[2] = s /\ s # NoSubject
    BY KnownRows, <1>4
  <2>2. opened[s] <= counter[<<"opens_1h", s>>]
    BY <2>1, <1>1 DEF Opens
  <2>3. counter[<<"opens_1h", s>>] <= HourCap
    BY DEF GateInv, Caps
  <2> QED BY <2>1, <2>2, <2>3, <1>2, <1>3
<1>6. ASSUME NEW s \in Limited PROVE opened[s] <= MemberQuota
  <2>1. <<"opens_1d", s>> \in Row /\ <<"opens_1d", s>>[2] = s /\ s # NoSubject /\ s \in Subject
    BY KnownRows, <1>4
  <2>2. opened[s] <= counter[<<"opens_1d", s>>]
    BY <2>1, <1>1 DEF Opens
  <2>3. counter[<<"opens_1d", s>>] <= MemberQuota
    BY DEF GateInv, Caps
  <2> QED BY <2>1, <2>2, <2>3, <1>2, <1>3
<1>7. SumFunctionOnSet(opened, Subject) <= AcctCap
  <2>1. SumFunctionOnSet(opened, Subject) <= counter[AcctRow] /\ counter[AcctRow] \in Nat
    BY <1>1, <1>2, KnownRows DEF Opens
  <2>2. counter[AcctRow] <= AcctCap
    BY DEF GateInv, Caps
  <2>3. SumFunctionOnSet(opened, Subject) \in Nat
    BY <1>2, TotalNat
  <2> QED BY <2>1, <2>2, <2>3, <1>3
<1>8. SumFunctionOnSet(opened, Limited) <= LocQuota
  BY DEF GateInv, LimitedTotal
<1>9. Gate!Subject = Subject /\ Gate!Limited = Limited
  BY DEF Gate!Subject, Gate!Limited, Subject, Limited
<1>10. \A s \in Gate!Subject : opened[s] <= HourCap
  BY <1>5, <1>9
<1>11. \A s \in Gate!Limited : opened[s] <= MemberQuota
  BY <1>6, <1>9
<1>12. Gate!Total(Gate!Subject) <= AcctCap /\ Gate!Total(Gate!Limited) <= LocQuota
  <2>1. \A people : Gate!Total(people) = SumFunctionOnSet(opened, people)
    BY DEF Gate!Total, Gate!SumFunctionOnSet, Gate!FoldFunctionOnSet, Gate!MapThenFoldSet,
           SumFunctionOnSet, FoldFunctionOnSet, MapThenFoldSet
  <2> QED BY <2>1, <1>7, <1>8, <1>9
<1> QED BY <1>10, <1>11, <1>12 DEF Gate!Within

-----------------------------------------------------------------------------
(* The gate of MeteredGate.                                                *)

(* A commit opens the gate, once for each of the people it lets in.         *)
LEMMA CommitGate ==
    ASSUME FlowInv, CounterInv, GateInv, NEW r \in Req, Commit(r), Gate!Within'
    PROVE  [Gate!Next]_<<opened, cooling>>
<1>1. r \in Active /\ Gate!Subject = Subject
  BY OverFlow DEF Gate!Subject, Subject
<1>2. PICK W, c, people :
         /\ W = CountedWins(tx[r])
         /\ c = [s \in Subject |-> Cardinality({w \in W : w.subj = s})]
         /\ people = {w.subj : w \in W}
  OBVIOUS
<1>3. opened' = [s \in Subject |-> opened[s] + c[s]] /\ cooling' = cooling \cup people
  BY <1>2, CommitWins
<1>4. Flow(tx[r]) /\ \A w \in W : w.subj \in Subject
  BY <1>1, <1>2, WinsFinite DEF FlowInv
<1>5. ASSUME NEW s \in Subject PROVE c[s] = IF s \in people THEN 1 ELSE 0
  <2>1. CASE s \in people
    <3>1. PICK w \in W : w.subj = s
      BY <2>1, <1>2
    <3>2. \A x, y \in W : x.subj = y.subj => x = y
      BY <1>2, <1>4 DEF Flow, Carried, WinsOnce, CountedWins
    <3>3. {x \in W : x.subj = s} = {w} /\ Cardinality({w}) = 1
      BY <3>1, <3>2, FS_Singleton
    <3> QED BY <3>3, <2>1, <1>2
  <2>2. CASE s \notin people
    <3>1. {x \in W : x.subj = s} = {} /\ Cardinality({}) = 0
      BY <2>2, <1>2, FS_EmptySet
    <3> QED BY <3>1, <2>2, <1>2
  <2> QED BY <2>1, <2>2
<1>6. opened' = [s \in Subject |-> opened[s] + IF s \in people THEN 1 ELSE 0]
  BY <1>3, <1>5
<1>7. opened \in [Subject -> Nat]
  BY DEF CounterInv
<1>8. CASE people = {}
  <2>1. opened' = [s \in Subject |-> opened[s] + 0] /\ cooling' = cooling
    BY <1>3, <1>6, <1>8
  <2>2. opened' = opened
    BY <2>1, <1>7
  <2> QED BY <2>1, <2>2
<1>9. CASE people # {}
  <2>1. people \cap cooling = {}
    BY <1>1, <1>2 DEF GateInv
  <2>2. Gate!Open(people)
    BY <2>1, <1>1, <1>3, <1>6, <1>9 DEF Gate!Open
  <2>3. people \in SUBSET Gate!Subject
    BY <1>1, <1>2, <1>4
  <2> QED BY <2>2, <2>3 DEF Gate!Next
<1> QED BY <1>8, <1>9

(* Every step opens the gate, ends a cooldown, or is none of the gate.      *)
LEMMA GateStep ==
    ASSUME FlowInv, CounterInv, GateInv, [Next]_vars, Gate!Within'
    PROVE  [Gate!Next]_<<opened, cooling>>
<1>1. ASSUME NEW r \in Req, Starts(r) \/ Works(r) PROVE UNCHANGED <<opened, cooling>>
  BY <1>1, StartFlow, WorkFlow DEF Begins
<1>2. ASSUME NEW r \in Req, Abort(r) \/ StopReplying(r) \/ \E m \in Msg : Reply(r, m)
      PROVE  UNCHANGED <<opened, cooling>>
  BY <1>2 DEF Abort, StopReplying, Reply, limits, logged
<1>3. ASSUME NEW s, Unbar(s) PROVE UNCHANGED <<opened, cooling>>
  BY <1>3 DEF Unbar, limits, logged
<1>4. ASSUME Elsewhere PROVE [Gate!Next]_<<opened, cooling>>
  <2>1. CASE \E s \in Subject : CooldownElapses(s)
    <3>1. PICK s \in Subject : CooldownElapses(s)
      BY <2>1
    <3>2. Gate!CooldownElapses(s) /\ s \in Gate!Subject
      BY <3>1 DEF CooldownElapses, Gate!CooldownElapses, Gate!Subject, Subject, logged
    <3> QED BY <3>2 DEF Gate!Next
  <2>2. CASE \E v \in Visitor : GrantAccess(v) \/ RevokeGrant(v)
    BY <2>2 DEF GrantAccess, RevokeGrant, limits, logged
  <2>3. CASE \E s \in Member \cup {NoSubject} : Bar(s)
    BY <2>3 DEF Bar, limits, logged
  <2> QED BY <1>4, <2>1, <2>2, <2>3 DEF Elsewhere
<1>5. CASE Next
  BY <1>1, <1>2, <1>3, <1>4, <1>5, StepKinds, CommitGate
<1>6. CASE UNCHANGED vars
  BY <1>6 DEF vars
<1> QED BY <1>5, <1>6

(* The same as an implication.                                              *)
LEMMA WithinWhen == FlowInv /\ CounterInv /\ GateInv => Gate!Within
BY WithinLimits

(* The opens that are logged are those of a gate that keeps its limits and  *)
(* opens for nobody twice within a cooldown (checkAndConsumeOpenLimits).    *)
THEOREM MetersTheGate == Spec => MetersGate
<1> DEFINE Inv == BooksInv /\ GateInv
<1>1. Init => Inv
  BY FlowInit, MessageInit, CountInit, GateInit DEF BooksInv, Init, Sets
<1>2. Inv /\ [Next]_vars => Inv'
  BY FlowNext, MessageNext, CounterNext, UseNext, SetsNext, GateNext DEF BooksInv
<1>3. Inv' => Gate!Within'
  <2>1. Inv => Gate!Within
    BY WithinWhen DEF BooksInv
  <2> QED BY <2>1, PTL
<1>4. Inv /\ Inv' /\ [Next]_vars => [Gate!Next]_<<opened, cooling>>
  BY <1>3, GateStep DEF BooksInv
<1>5. Init => Gate!Init
  BY DEF Init, Gate!Init, Gate!Subject, Subject
<1> HIDE DEF Inv
<1> QED BY <1>1, <1>2, <1>4, <1>5, PTL DEF Spec, MetersGate, Gate!Spec

=============================================================================
