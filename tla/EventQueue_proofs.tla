-------------------------- MODULE EventQueue_proofs --------------------------
(***************************************************************************)
(* Proofs about the controller's event queue, for any number of events,    *)
(* drainers and crashes and any capacities, as long as a write of a log    *)
(* that fails leaves no trace in it.                                       *)
(***************************************************************************)
EXTENDS EventQueue, FiniteSetTheorems, SequenceTheorems, WellFoundedInduction, TLAPS

-----------------------------------------------------------------------------
(* What the operators of the queue return.                                 *)

(* Induction up to N over a set of numbers.                                *)
LEMMA UpTo ==
    ASSUME NEW N \in Nat, NEW T, 0 \in T, \A k \in 0 .. N : k \in T /\ k < N => k + 1 \in T
    PROVE  \A k \in 0 .. N : k \in T
<1> DEFINE B == {k \in 0 .. N : k \notin T}
           D == {0 .. k : k \in B}
<1> SUFFICES ASSUME B # {} PROVE FALSE
  OBVIOUS
<1>1. IsWellFoundedOn(StrictSubsetOrdering(Nat), FiniteSubsetsOf(Nat))
  BY FS_StrictSubsetOrderingWellFounded
<1>2. D \subseteq FiniteSubsetsOf(Nat)
  <2> SUFFICES ASSUME NEW k \in B PROVE 0 .. k \in FiniteSubsetsOf(Nat)
    OBVIOUS
  <2>1. IsFiniteSet(0 .. k)
    BY FS_Interval
  <2>2. 0 .. k \subseteq Nat
    OBVIOUS
  <2> QED BY <2>1, <2>2 DEF FiniteSubsetsOf
<1>3. PICK x \in D : \A y \in D : <<y, x>> \notin StrictSubsetOrdering(Nat)
  <2>1. D # {}
    OBVIOUS
  <2> HIDE DEF D
  <2> QED BY <1>1, <1>2, <2>1, WFMin
<1>4. PICK k \in B : x = 0 .. k
  OBVIOUS
<1>5. k - 1 \in B
  OBVIOUS
<1>6. <<0 .. k - 1, 0 .. k>> \in StrictSubsetOrdering(Nat)
  <2>1. 0 .. k - 1 \subseteq 0 .. k /\ k \in 0 .. k /\ k \notin 0 .. k - 1
    OBVIOUS
  <2>2. 0 .. k - 1 \in SUBSET Nat /\ 0 .. k \in SUBSET Nat
    OBVIOUS
  <2> QED BY <2>1, <2>2 DEF StrictSubsetOrdering
<1> QED BY <1>3, <1>4, <1>5, <1>6

(* A function on 1 .. n is a sequence of length n.                         *)
LEMMA Listing ==
    ASSUME NEW S, NEW n \in Nat, NEW g \in [1 .. n -> S]
    PROVE  g \in Seq(S) /\ Len(g) = n
<1>1. g \in Seq(S)
  BY SeqDef
<1>2. Len(g) \in Nat /\ DOMAIN g = 1 .. Len(g)
  BY <1>1, LenProperties
<1>3. 1 .. n = 1 .. Len(g)
  BY <1>2
<1> QED BY <1>1, <1>2, <1>3

(* Replaying a log whose lines are numbered from 0 gives the lines beyond  *)
(* the cursor.                                                             *)
LEMMA ReplayedOf ==
    ASSUME NEW lines \in Seq(Entry), NEW at \in Int, -1 <= at, at < Len(lines),
           \A i \in DOMAIN lines : lines[i].seq = i - 1
    PROVE  /\ Replayed(lines, at) \in Seq(Entry)
           /\ Len(Replayed(lines, at)) = Len(lines) - (at + 1)
           /\ \A j \in 1 .. Len(lines) - (at + 1) : Replayed(lines, at)[j] = lines[at + 1 + j]
<1> DEFINE N == Len(lines)
           c == at + 1
           Body(f, i) == IF i = 0 THEN <<>>
                         ELSE IF lines[i].seq > at THEN Append(f[i - 1], lines[i]) ELSE f[i - 1]
           read == CHOOSE f : f = [i \in 0 .. N |-> Body(f, i)]
           Beyond(i) == [j \in 1 .. i - c |-> lines[c + j]]
<1>1. N \in Nat /\ c \in 0 .. N /\ DOMAIN lines = 1 .. N
  OBVIOUS
<1>2. PICK f : f = [i \in 0 .. N |-> IF i <= c THEN <<>> ELSE Beyond(i)]
  OBVIOUS
<1>3. \A i \in 0 .. N : i > c => Beyond(i) \in Seq(Entry) /\ Len(Beyond(i)) = i - c
  <2> SUFFICES ASSUME NEW i \in 0 .. N, i > c PROVE Beyond(i) \in Seq(Entry) /\ Len(Beyond(i)) = i - c
    OBVIOUS
  <2>1. i - c \in Nat /\ \A j \in 1 .. i - c : lines[c + j] \in Entry
    BY <1>1
  <2>2. Beyond(i) \in [1 .. i - c -> Entry]
    BY <2>1
  <2> HIDE DEF Beyond
  <2> QED BY <2>1, <2>2, Listing
<1>4. ASSUME NEW i \in 0 .. N PROVE f[i] = Body(f, i)
  <2>1. CASE i = 0
    BY <2>1, <1>1, <1>2
  <2>2. CASE i # 0
    <3>1. i \in 1 .. N /\ lines[i].seq = i - 1 /\ lines[i] \in Entry
      BY <2>2, <1>1
    <3>2. CASE i <= c
      BY <3>1, <3>2, <1>1, <1>2
    <3>3. CASE i = c + 1
      <4>1. f[i - 1] = <<>> /\ f[i] = Beyond(i)
        BY <3>1, <3>3, <1>1, <1>2
      <4>2. Beyond(i) = [j \in 1 .. 1 |-> lines[c + j]]
        BY <3>3, <1>1
      <4>3. Beyond(i) = <<lines[i]>>
        <5>1. Beyond(i) = [j \in 1 .. 1 |-> lines[i]]
          BY <4>2, <3>3, <1>1
        <5> HIDE DEF Beyond
        <5> QED BY <5>1
      <4>4. Append(<<>>, lines[i]) = <<lines[i]>>
        OBVIOUS
      <4>5. lines[i].seq > at
        BY <3>1, <3>3
      <4> QED BY <4>1, <4>3, <4>4, <4>5, <2>2
    <3>4. CASE i > c + 1
      <4>1. f[i - 1] = Beyond(i - 1) /\ f[i] = Beyond(i)
        BY <3>1, <3>4, <1>1, <1>2
      <4>2. i - 1 \in 0 .. N /\ i - 1 > c
        BY <3>1, <3>4, <1>1
      <4>3. /\ Beyond(i - 1) \in Seq(Entry) /\ Len(Beyond(i - 1)) = i - 1 - c
            /\ Beyond(i) \in Seq(Entry) /\ Len(Beyond(i)) = i - c
        <5> HIDE DEF Beyond
        <5>1. i > c
          BY <3>4, <3>1, <1>1
        <5> QED BY <1>3, <4>2, <5>1
      <4>4. \A j \in 1 .. i - c : Beyond(i)[j] = lines[c + j]
        OBVIOUS
      <4>5. \A j \in 1 .. i - 1 - c : Beyond(i - 1)[j] = lines[c + j]
        OBVIOUS
      <4> HIDE DEF Beyond
      <4>6. PICK s, t : s = Append(Beyond(i - 1), lines[i]) /\ t = Beyond(i)
        OBVIOUS
      <4>7. s \in Seq(Entry) /\ Len(s) = i - c /\ t \in Seq(Entry) /\ Len(t) = i - c
        BY <4>3, <4>6, <3>1, <1>1
      <4>8. \A j \in 1 .. i - c : s[j] = t[j]
        <5> SUFFICES ASSUME NEW j \in 1 .. i - c PROVE s[j] = t[j]
          OBVIOUS
        <5>1. CASE j = i - c
          <6>1. s[j] = lines[i]
            BY <4>3, <4>6, <5>1, <3>1, <1>1
          <6>2. t[j] = lines[c + j] /\ c + j = i
            BY <4>4, <4>6, <5>1, <3>1, <1>1
          <6> QED BY <6>1, <6>2
        <5>2. CASE j # i - c
          <6>1. j \in 1 .. i - 1 - c
            BY <5>2, <3>1, <1>1
          <6>2. s[j] = Beyond(i - 1)[j]
            BY <4>3, <4>6, <6>1, <3>1
          <6> QED BY <6>1, <6>2, <4>4, <4>5, <4>6
        <5> QED BY <5>1, <5>2
      <4>9. s = t
        BY <4>7, <4>8, SeqEqual
      <4>10. lines[i].seq > at
        BY <3>1, <3>4
      <4> QED BY <4>1, <4>6, <4>9, <4>10, <2>2
    <3> QED BY <3>2, <3>3, <3>4, <1>1
  <2> QED BY <2>1, <2>2
<1>5. f = [i \in 0 .. N |-> Body(f, i)]
  <2> HIDE DEF Body, Beyond
  <2> QED BY <1>2, <1>4
<1>6. read = [i \in 0 .. N |-> Body(read, i)]
  BY <1>5
<1>7. Replayed(lines, at) = read[N]
  BY DEF Replayed
<1> HIDE DEF read, Beyond
<1>8. \A k \in 0 .. N : read[k] = f[k]
  <2> DEFINE T == {k \in 0 .. N : read[k] = f[k]}
  <2>1. 0 \in T
    <3>1. read[0] = Body(read, 0) /\ f[0] = Body(f, 0) /\ 0 \in 0 .. N
      BY <1>1, <1>4, <1>6
    <3> QED BY <3>1
  <2>2. ASSUME NEW k \in 0 .. N, k \in T, k < N PROVE k + 1 \in T
    <3>1. k + 1 \in 0 .. N /\ k + 1 # 0 /\ (k + 1) - 1 = k
      BY <2>2, <1>1
    <3>2. read[k + 1] = Body(read, k + 1) /\ f[k + 1] = Body(f, k + 1)
      <4> HIDE DEF Body
      <4> QED BY <3>1, <1>4, <1>6
    <3>3. Body(read, k + 1) = Body(f, k + 1)
      BY <3>1, <2>2
    <3> HIDE DEF Body
    <3> QED BY <3>1, <3>2, <3>3
  <2> HIDE DEF T
  <2>3. \A k \in 0 .. N : k \in T
    <3> HIDE DEF N
    <3> QED BY <1>1, <2>1, <2>2, UpTo
  <2> QED BY <2>3 DEF T
<1>9. Replayed(lines, at) = f[N]
  BY <1>1, <1>7, <1>8
<1>10. CASE N = c
  <2>1. f[N] = <<>>
    BY <1>10, <1>1, <1>2
  <2> QED BY <2>1, <1>1, <1>9, <1>10
<1>11. CASE N > c
  <2>1. f[N] = Beyond(N)
    BY <1>11, <1>1, <1>2
  <2>2. Beyond(N) \in Seq(Entry) /\ Len(Beyond(N)) = N - c
    <3> HIDE DEF N, c
    <3> QED BY <1>11, <1>1, <1>3
  <2>3. \A j \in 1 .. N - c : Beyond(N)[j] = lines[c + j]
    BY DEF Beyond
  <2> QED BY <2>1, <2>2, <2>3, <1>9
<1>12. N = c \/ N > c
  <2> HIDE DEF N, c, Body
  <2> QED BY <1>1
<1> QED BY <1>10, <1>11, <1>12

(* w is s without its entries numbered n.                                  *)
Fewer(w, s, n) ==
    /\ w \in Seq(Entry)
    /\ \A j \in DOMAIN w : w[j].seq # n /\ \E k \in DOMAIN s : w[j] = s[k]
    /\ \A k \in DOMAIN s : s[k].seq # n => \E j \in DOMAIN w : w[j] = s[k]
    /\ \A j, k \in DOMAIN w : j < k => w[j].seq < w[k].seq

Ascending(s) == \A j, k \in DOMAIN s : j < k => s[j].seq < s[k].seq

LEMMA WithoutOf ==
    ASSUME NEW s \in Seq(Entry), NEW n \in Nat, Ascending(s)
    PROVE  Fewer(Without(s, n), s, n)
<1> USE DEF Ascending
<1>0. DOMAIN s = 1 .. Len(s) /\ Len(s) \in Nat /\ \A k \in 1 .. Len(s) : s[k] \in Entry /\ s[k].seq \in Nat
  <2>1. DOMAIN s = 1 .. Len(s) /\ Len(s) \in Nat /\ \A k \in 1 .. Len(s) : s[k] \in Entry
    OBVIOUS
  <2> QED BY <2>1 DEF Entry
<1>1. CASE ~\E i \in DOMAIN s : s[i].seq = n
  <2>1. Without(s, n) = s
    BY <1>1 DEF Without
  <2> QED BY <2>1, <1>1 DEF Fewer
<1>2. CASE \E i \in DOMAIN s : s[i].seq = n
  <2>1. PICK i \in DOMAIN s : s[i].seq = n
    BY <1>2
  <2>2. \A k \in DOMAIN s : k # i => s[k].seq # n
    BY <2>1, <1>0
  <2>3. \A j \in 1 .. i - 1 : s[j].seq # n
    BY <2>1, <2>2, <1>0
  <2>4. i = CHOOSE k \in DOMAIN s : s[k].seq = n /\ \A j \in 1 .. k - 1 : s[j].seq # n
    BY <2>1, <2>2, <2>3
  <2>5. PICK w : w = RemoveAt(s, i)
    OBVIOUS
  <2>6. Without(s, n) = w
    BY <2>4, <2>5, <1>2 DEF Without
  <2>7. PICK l, r : l = SubSeq(s, 1, i - 1) /\ r = SubSeq(s, i + 1, Len(s))
    OBVIOUS
  <2>8. w = l \o r
    BY <2>5, <2>7 DEF RemoveAt
  <2>9. /\ l \in Seq(Entry) /\ Len(l) = i - 1 /\ \A j \in 1 .. i - 1 : l[j] = s[j]
        /\ r \in Seq(Entry) /\ Len(r) = Len(s) - i /\ \A j \in 1 .. Len(s) - i : r[j] = s[i + j]
    <3>1. i \in 1 .. Len(s) /\ i - 1 \in 0 .. Len(s) /\ i + 1 \in 1 .. Len(s) + 1 /\ Len(s) \in (i + 1) - 1 .. Len(s)
      BY <2>1, <1>0
    <3>2. l \in Seq(Entry) /\ Len(l) = i - 1 /\ \A j \in 1 .. i - 1 : l[j] = s[j]
      <4>1. 1 \in Int /\ i - 1 \in Int /\ \A j \in 1 .. i - 1 : s[j] \in Entry
        BY <3>1, <1>0
      <4>2. /\ l \in Seq(Entry)
            /\ Len(l) = IF 1 <= i - 1 THEN (i - 1) - 1 + 1 ELSE 0
            /\ \A j \in 1 .. (i - 1) - 1 + 1 : l[j] = s[1 + j - 1]
        BY <4>1, <2>7, SubSeqProperties
      <4>3. \A j \in 1 .. i - 1 : 1 + j - 1 = j
        OBVIOUS
      <4> QED BY <4>2, <4>3, <3>1
    <3>3. r \in Seq(Entry) /\ Len(r) = Len(s) - i /\ \A j \in 1 .. Len(s) - i : r[j] = s[i + j]
      <4>1. i + 1 \in Int /\ Len(s) \in Int /\ \A j \in i + 1 .. Len(s) : s[j] \in Entry
        BY <3>1, <1>0
      <4>2. /\ r \in Seq(Entry)
            /\ Len(r) = IF i + 1 <= Len(s) THEN Len(s) - (i + 1) + 1 ELSE 0
            /\ \A j \in 1 .. Len(s) - (i + 1) + 1 : r[j] = s[(i + 1) + j - 1]
        BY <4>1, <2>7, SubSeqProperties
      <4>3. \A j \in 1 .. Len(s) - i : (i + 1) + j - 1 = i + j
        BY <3>1
      <4> QED BY <4>2, <4>3, <3>1, <1>0
    <3> QED BY <3>2, <3>3
  <2>10. w \in Seq(Entry) /\ Len(w) = Len(s) - 1 /\ DOMAIN w = 1 .. Len(s) - 1
    <3>1. w \in Seq(Entry) /\ Len(w) = Len(l) + Len(r)
      BY <2>8, <2>9, ConcatProperties
    <3>2. Len(w) = Len(s) - 1
      BY <3>1, <2>1, <2>9, <1>0
    <3> QED BY <3>1, <3>2, LenProperties
  <2>11. \A j \in 1 .. Len(s) - 1 : w[j] = IF j < i THEN s[j] ELSE s[j + 1]
    <3> SUFFICES ASSUME NEW j \in 1 .. Len(s) - 1 PROVE w[j] = IF j < i THEN s[j] ELSE s[j + 1]
      OBVIOUS
    <3>1. w[j] = IF j <= Len(l) THEN l[j] ELSE r[j - Len(l)]
      BY <2>8, <2>9, <2>1, <1>0, ConcatProperties
    <3>2. CASE j < i
      <4>1. j \in 1 .. i - 1 /\ j <= Len(l)
        BY <3>2, <2>1, <2>9, <1>0
      <4> QED BY <4>1, <3>1, <3>2, <2>9
    <3>3. CASE ~(j < i)
      <4>1. j - Len(l) \in 1 .. Len(s) - i /\ ~(j <= Len(l)) /\ i + (j - Len(l)) = j + 1
        BY <3>3, <2>1, <2>9, <1>0
      <4> QED BY <4>1, <3>1, <3>3, <2>9
    <3> QED BY <3>2, <3>3
  <2>12. \A j \in DOMAIN w : w[j].seq # n /\ \E k \in DOMAIN s : w[j] = s[k]
    <3> SUFFICES ASSUME NEW j \in 1 .. Len(s) - 1 PROVE w[j].seq # n /\ \E k \in DOMAIN s : w[j] = s[k]
      BY <2>10
    <3>1. PICK k : k = IF j < i THEN j ELSE j + 1
      OBVIOUS
    <3>2. k \in 1 .. Len(s) /\ k # i /\ w[j] = s[k]
      BY <3>1, <2>1, <2>11, <1>0
    <3> QED BY <3>2, <2>2, <1>0
  <2>13. \A k \in DOMAIN s : s[k].seq # n => \E j \in DOMAIN w : w[j] = s[k]
    <3> SUFFICES ASSUME NEW k \in 1 .. Len(s), s[k].seq # n PROVE \E j \in DOMAIN w : w[j] = s[k]
      BY <1>0
    <3>1. k # i
      BY <2>1
    <3>2. PICK j : j = IF k < i THEN k ELSE k - 1
      OBVIOUS
    <3>3. j \in 1 .. Len(s) - 1 /\ w[j] = s[k]
      BY <3>1, <3>2, <2>1, <2>11, <1>0
    <3> QED BY <3>3, <2>10
  <2>14. \A j, k \in DOMAIN w : j < k => w[j].seq < w[k].seq
    <3> SUFFICES ASSUME NEW j \in 1 .. Len(s) - 1, NEW k \in 1 .. Len(s) - 1, j < k PROVE w[j].seq < w[k].seq
      BY <2>10
    <3>1. PICK a, b : a = (IF j < i THEN j ELSE j + 1) /\ b = (IF k < i THEN k ELSE k + 1)
      OBVIOUS
    <3>2. a \in 1 .. Len(s) /\ b \in 1 .. Len(s) /\ a < b /\ w[j] = s[a] /\ w[k] = s[b]
      BY <3>1, <2>1, <2>11, <1>0
    <3> QED BY <3>2, <1>0
  <2> QED BY <2>6, <2>10, <2>12, <2>13, <2>14 DEF Fewer
<1> QED BY <1>1, <1>2

LEMMA TailOf ==
    ASSUME NEW s \in Seq(Entry), s # <<>>, Ascending(s)
    PROVE  /\ Fewer(Tail(s), s, Head(s).seq)
           /\ Head(s) = s[1] /\ 1 \in DOMAIN s
           /\ \A j \in DOMAIN Tail(s) : Tail(s)[j].seq > Head(s).seq
           /\ Tail(s) # <<>> => /\ 1 \in DOMAIN Tail(s)
                                /\ \A j \in DOMAIN Tail(s) : Tail(s)[j].seq >= Head(Tail(s)).seq
                                /\ Head(Tail(s)) = Tail(s)[1]
<1> USE DEF Ascending
<1>0. DOMAIN s = 1 .. Len(s) /\ Len(s) \in Nat \ {0} /\ \A k \in 1 .. Len(s) : s[k] \in Entry /\ s[k].seq \in Nat
  <2>1. DOMAIN s = 1 .. Len(s) /\ Len(s) \in Nat \ {0} /\ \A k \in 1 .. Len(s) : s[k] \in Entry
    OBVIOUS
  <2> QED BY <2>1 DEF Entry
<1>1. PICK w : w = Tail(s)
  OBVIOUS
<1>2. w \in Seq(Entry) /\ DOMAIN w = 1 .. Len(s) - 1 /\ \A j \in 1 .. Len(s) - 1 : w[j] = s[j + 1]
  BY <1>0, <1>1
<1>3. Head(s) = s[1] /\ 1 \in 1 .. Len(s)
  BY <1>0
<1>4. \A j, k \in DOMAIN w : j < k => w[j].seq < w[k].seq
  <2> SUFFICES ASSUME NEW j \in 1 .. Len(s) - 1, NEW k \in 1 .. Len(s) - 1, j < k PROVE w[j].seq < w[k].seq
    BY <1>2
  <2>1. j + 1 \in 1 .. Len(s) /\ k + 1 \in 1 .. Len(s) /\ j + 1 < k + 1
    BY <1>0
  <2> QED BY <2>1, <1>0, <1>2
<1>5. \A j \in DOMAIN w : w[j].seq > s[1].seq /\ \E k \in DOMAIN s : w[j] = s[k]
  <2> SUFFICES ASSUME NEW j \in 1 .. Len(s) - 1 PROVE w[j].seq > s[1].seq /\ \E k \in DOMAIN s : w[j] = s[k]
    BY <1>2
  <2>1. j + 1 \in 1 .. Len(s) /\ 1 < j + 1
    BY <1>0
  <2>2. s[1].seq < s[j + 1].seq /\ s[1].seq \in Nat /\ s[j + 1].seq \in Nat
    BY <2>1, <1>0, <1>3
  <2> QED BY <2>1, <2>2, <1>0, <1>2
<1>6. \A k \in DOMAIN s : s[k].seq # s[1].seq => \E j \in DOMAIN w : w[j] = s[k]
  <2> SUFFICES ASSUME NEW k \in 1 .. Len(s), k # 1 PROVE \E j \in DOMAIN w : w[j] = s[k]
    BY <1>0
  <2>1. k - 1 \in 1 .. Len(s) - 1 /\ w[k - 1] = s[k]
    BY <1>0, <1>2
  <2> QED BY <2>1, <1>2
<1>7. \A j \in DOMAIN w : w[j].seq # s[1].seq
  <2> SUFFICES ASSUME NEW j \in DOMAIN w PROVE w[j].seq # s[1].seq
    OBVIOUS
  <2>1. w[j].seq \in Nat /\ s[1].seq \in Nat
    BY <1>0, <1>3, <1>5
  <2> QED BY <2>1, <1>5
<1>8. Fewer(w, s, s[1].seq)
  BY <1>2, <1>4, <1>5, <1>6, <1>7 DEF Fewer
<1>9. w # <<>> => 1 \in DOMAIN w /\ Head(w) = w[1]
  BY <1>2
<1>10. ASSUME w # <<>>, NEW j \in DOMAIN w PROVE w[j].seq >= w[1].seq
  <2>1. w[j].seq \in Nat /\ w[1].seq \in Nat
    <3>1. 1 \in DOMAIN w
      BY <1>9, <1>10
    <3> QED BY <3>1, <1>0, <1>5, <1>10
  <2>2. j = 1 \/ 1 < j
    BY <1>2, <1>10
  <2>3. 1 < j => w[1].seq < w[j].seq
    BY <1>4, <1>9, <1>10
  <2> QED BY <2>1, <2>2, <2>3
<1> QED BY <1>0, <1>1, <1>3, <1>5, <1>8, <1>9, <1>10

-----------------------------------------------------------------------------
(* The invariant.                                                          *)

(* The files: a line of the log has its place for its number, and an event *)
(* that is in a log has happened; the cursors point at lines.              *)
LogRight ==
  \A p \in Part :
    /\ log[p] \in Seq(Entry)
    /\ nextSeq[p] = Len(log[p])
    /\ \A i \in DOMAIN log[p] : log[p][i].seq = i - 1 /\ log[p][i].ev \notin fresh
    /\ cursor[p] =< deliv[p] /\ deliv[p] < Len(log[p])

(* The undelivered entries are lines beyond the cursor, in their order.    *)
EntriesRight ==
  \A p \in Part :
    /\ \A k \in DOMAIN entries[p] :
         /\ entries[p][k].seq > deliv[p] /\ entries[p][k].seq < Len(log[p])
         /\ entries[p][k] = log[p][entries[p][k].seq + 1]
    /\ \A j, k \in DOMAIN entries[p] : j < k => entries[p][j].seq < entries[p][k].seq

(* What was recorded, and neither sent nor dropped, is an undelivered      *)
(* entry if it is a line at all, or else in the overflow log.              *)
RecordedRight ==
  /\ \A ev \in recorded : ev \in overflow \/ \E p \in Part : \E i \in DOMAIN log[p] : log[p][i].ev = ev
  /\ \A p \in Part : \A i \in DOMAIN log[p] :
       log[p][i].ev \in recorded \ (sent \cup dropped) =>
         \E k \in DOMAIN entries[p] : entries[p][k] = log[p][i]

(* A drainer acknowledges in the order of the log: an entry that is still  *)
(* undelivered is before a later one in every batch that has the later one.*)
BatchRight ==
  \A d \in Drainer :
    /\ \A k \in DOMAIN batch[d] :
         /\ batch[d][k].seq < Len(log[batch[d][k].part])
         /\ log[batch[d][k].part][batch[d][k].seq + 1].ev = batch[d][k].ev
         /\ \A j \in DOMAIN entries[batch[d][k].part] :
              entries[batch[d][k].part][j].seq < batch[d][k].seq =>
                \E m \in 1..k - 1 : /\ batch[d][m].part = batch[d][k].part
                                     /\ batch[d][m].seq = entries[batch[d][k].part][j].seq
    /\ toAck[d] =< Len(batch[d])
    /\ \A k \in 1..toAck[d] : batch[d][k].ev \in sent

QueueInv == QueueTypeOK /\ LogRight /\ EntriesRight /\ RecordedRight /\ BatchRight

LEMMA InitQueue == QueueInit => QueueInv
<1> SUFFICES ASSUME QueueInit PROVE QueueInv
  OBVIOUS
<1>1. QueueTypeOK
  BY DEF QueueInit, QueueTypeOK
<1>2. LogRight
  BY DEF QueueInit, LogRight
<1>3. EntriesRight /\ RecordedRight /\ BatchRight
  BY DEF QueueInit, EntriesRight, RecordedRight, BatchRight
<1> QED BY <1>1, <1>2, <1>3 DEF QueueInv

-----------------------------------------------------------------------------
(* Steps of one partition.                                                 *)

(* The entries w of p are undelivered ones; the others are gone.           *)
Remains(p, w, at, gone) ==
    /\ at \in Nat \cup {-1} /\ at >= deliv[p] /\ at < Len(log[p])
    /\ w \in Seq(Entry) /\ Ascending(w)
    /\ \A j \in DOMAIN w : w[j].seq > at /\ \E k \in DOMAIN entries[p] : w[j] = entries[p][k]
    /\ \A k \in DOMAIN entries[p] : entries[p][k].ev \in gone \/ \E j \in DOMAIN w : w[j] = entries[p][k]

(* The log as it is: what is gone is sent or dropped, and what is recorded *)
(* now goes to the overflow log.                                           *)
LEMMA EntriesShrink ==
    ASSUME QueueInv, NEW p \in Part, NEW w, NEW at, NEW gone, Remains(p, w, at, gone),
           UNCHANGED <<log, nextSeq>>, fresh' \subseteq fresh,
           entries' = [entries EXCEPT ![p] = w], deliv' = [deliv EXCEPT ![p] = at],
           \A q \in Part : cursor'[q] = cursor[q] \/ (q = p /\ cursor'[q] <= at),
           cursor' \in [Part -> Nat \cup {-1}],
           gone \subseteq sent' \cup dropped', sent \subseteq sent', dropped \subseteq dropped',
           overflow \subseteq overflow',
           recorded \subseteq recorded', \A ev \in recorded' \ recorded : ev \in overflow' \cap fresh
    PROVE  LogRight' /\ EntriesRight' /\ RecordedRight'
<1> USE DEF QueueInv, Remains
<1>0. /\ entries \in [Part -> Seq(Entry)] /\ deliv \in [Part -> Nat \cup {-1}]
      /\ cursor \in [Part -> Nat \cup {-1}] /\ log \in [Part -> Seq(Entry \cup {Torn})]
  BY DEF QueueTypeOK
<1>1. /\ entries'[p] = w /\ deliv'[p] = at
      /\ \A q \in Part : q # p => entries'[q] = entries[q] /\ deliv'[q] = deliv[q] /\ cursor'[q] = cursor[q]
  BY <1>0
<1>2. LogRight'
  <2> SUFFICES ASSUME NEW q \in Part
               PROVE  /\ log'[q] \in Seq(Entry) /\ nextSeq'[q] = Len(log'[q])
                      /\ \A i \in DOMAIN log'[q] : log'[q][i].seq = i - 1 /\ log'[q][i].ev \notin fresh'
                      /\ cursor'[q] <= deliv'[q] /\ deliv'[q] < Len(log'[q])
    BY DEF LogRight
  <2>1. /\ log[q] \in Seq(Entry) /\ nextSeq[q] = Len(log[q])
        /\ \A i \in DOMAIN log[q] : log[q][i].seq = i - 1 /\ log[q][i].ev \notin fresh
        /\ cursor[q] <= deliv[q] /\ deliv[q] < Len(log[q])
    BY DEF LogRight
  <2>2. CASE q # p
    BY <2>1, <2>2, <1>1
  <2>3. CASE q = p
    <3>1. cursor'[p] <= at
      <4>1. cursor'[p] = cursor[p] \/ cursor'[p] <= at
        OBVIOUS
      <4>2. cursor[p] \in Int /\ deliv[p] \in Int /\ at \in Int
        BY <1>0
      <4> QED BY <4>1, <4>2, <2>1, <2>3
    <3> QED BY <3>1, <2>1, <2>3, <1>1
  <2> QED BY <2>2, <2>3
<1>3. EntriesRight'
  <2> SUFFICES ASSUME NEW q \in Part
               PROVE  /\ \A k \in DOMAIN entries'[q] :
                           /\ entries'[q][k].seq > deliv'[q] /\ entries'[q][k].seq < Len(log'[q])
                           /\ entries'[q][k] = log'[q][entries'[q][k].seq + 1]
                      /\ \A j, k \in DOMAIN entries'[q] : j < k => entries'[q][j].seq < entries'[q][k].seq
    BY DEF EntriesRight
  <2>1. /\ \A k \in DOMAIN entries[q] :
            /\ entries[q][k].seq > deliv[q] /\ entries[q][k].seq < Len(log[q])
            /\ entries[q][k] = log[q][entries[q][k].seq + 1]
        /\ \A j, k \in DOMAIN entries[q] : j < k => entries[q][j].seq < entries[q][k].seq
    BY DEF EntriesRight
  <2>2. CASE q # p
    BY <2>1, <2>2, <1>1
  <2>3. CASE q = p
    <3>1. \A k \in DOMAIN w : w[k].seq > at /\ w[k].seq < Len(log[p]) /\ w[k] = log[p][w[k].seq + 1]
      BY <2>1, <2>3
    <3>2. \A j, k \in DOMAIN w : j < k => w[j].seq < w[k].seq
      BY DEF Ascending
    <3> QED BY <3>1, <3>2, <2>3, <1>1
  <2> QED BY <2>2, <2>3
<1>4. \A ev \in recorded' : ev \in overflow' \/ \E q \in Part : \E i \in DOMAIN log'[q] : log'[q][i].ev = ev
  BY DEF RecordedRight
<1>5. ASSUME NEW q \in Part, NEW i \in DOMAIN log'[q], log'[q][i].ev \in recorded' \ (sent' \cup dropped')
      PROVE  \E k \in DOMAIN entries'[q] : entries'[q][k] = log'[q][i]
  <2>1. log[q][i].ev \notin fresh
    BY <1>5 DEF LogRight
  <2>2. log[q][i].ev \in recorded \ (sent \cup dropped)
    BY <2>1, <1>5
  <2>3. PICK k \in DOMAIN entries[q] : entries[q][k] = log[q][i]
    BY <2>2, <1>5 DEF RecordedRight
  <2>4. CASE q # p
    BY <2>3, <2>4, <1>1
  <2>5. CASE q = p
    <3>1. entries[p][k].ev \notin gone
      BY <2>3, <2>5, <1>5
    <3> QED BY <3>1, <2>3, <2>5, <1>1
  <2> QED BY <2>4, <2>5
<1>6. RecordedRight'
  BY <1>4, <1>5 DEF RecordedRight
<1> QED BY <1>2, <1>3, <1>6

(* A line is appended to the log and to what remains of the entries.       *)
LEMMA EntriesGrow ==
    ASSUME QueueInv, NEW p \in Part, NEW ev \in fresh, NEW w, NEW at, NEW gone, Remains(p, w, at, gone),
           Written(p, ev), fresh' = fresh \ {ev},
           entries' = [entries EXCEPT ![p] = Append(w, NewLine(p, ev))], deliv' = [deliv EXCEPT ![p] = at],
           \A q \in Part : cursor'[q] = cursor[q] \/ (q = p /\ cursor'[q] <= at),
           cursor' \in [Part -> Nat \cup {-1}],
           gone \subseteq sent' \cup dropped', sent \subseteq sent', dropped \subseteq dropped',
           overflow \subseteq overflow', recorded' = recorded \cup {ev}
    PROVE  LogRight' /\ EntriesRight' /\ RecordedRight'
<1> USE DEF QueueInv, Remains
<1>0. /\ entries \in [Part -> Seq(Entry)] /\ deliv \in [Part -> Nat \cup {-1}] /\ nextSeq \in [Part -> Nat]
      /\ cursor \in [Part -> Nat \cup {-1}] /\ log \in [Part -> Seq(Entry \cup {Torn})] /\ fresh \subseteq Event
  BY DEF QueueTypeOK
<1> PICK e : e = NewLine(p, ev)
  OBVIOUS
<1>a. e \in Entry /\ e.seq = nextSeq[p] /\ e.ev = ev
  BY <1>0 DEF NewLine, Entry
<1>b. log[p] \in Seq(Entry) /\ nextSeq[p] = Len(log[p]) /\ Len(log[p]) \in Nat /\ DOMAIN log[p] = 1 .. Len(log[p])
  BY DEF LogRight
<1> PICK l : l = Append(log[p], e)
  OBVIOUS
<1>c. /\ l \in Seq(Entry) /\ Len(l) = Len(log[p]) + 1 /\ DOMAIN l = 1 .. Len(log[p]) + 1
      /\ \A i \in 1 .. Len(log[p]) : l[i] = log[p][i]
      /\ l[Len(log[p]) + 1] = e
  BY <1>a, <1>b
<1> PICK v : v = Append(w, e)
  OBVIOUS
<1>e. Len(w) \in Nat /\ \A k \in 1 .. Len(w) + 1 : k \in 1 .. Len(w) \/ k = Len(w) + 1
  OBVIOUS
<1>d. /\ v \in Seq(Entry) /\ Len(w) \in Nat /\ DOMAIN w = 1 .. Len(w) /\ DOMAIN v = 1 .. Len(w) + 1
      /\ \A i \in 1 .. Len(w) : v[i] = w[i]
      /\ v[Len(w) + 1] = e
  BY <1>a
<1>1. /\ entries'[p] = v /\ deliv'[p] = at /\ log'[p] = l /\ nextSeq'[p] = nextSeq[p] + 1
      /\ \A q \in Part : q # p => /\ entries'[q] = entries[q] /\ deliv'[q] = deliv[q] /\ cursor'[q] = cursor[q]
                                 /\ log'[q] = log[q] /\ nextSeq'[q] = nextSeq[q]
  BY <1>0 DEF Written
<1>2. LogRight'
  <2> SUFFICES ASSUME NEW q \in Part
               PROVE  /\ log'[q] \in Seq(Entry) /\ nextSeq'[q] = Len(log'[q])
                      /\ \A i \in DOMAIN log'[q] : log'[q][i].seq = i - 1 /\ log'[q][i].ev \notin fresh'
                      /\ cursor'[q] <= deliv'[q] /\ deliv'[q] < Len(log'[q])
    BY DEF LogRight
  <2>1. /\ log[q] \in Seq(Entry) /\ nextSeq[q] = Len(log[q])
        /\ \A i \in DOMAIN log[q] : log[q][i].seq = i - 1 /\ log[q][i].ev \notin fresh
        /\ cursor[q] <= deliv[q] /\ deliv[q] < Len(log[q])
    BY DEF LogRight
  <2>2. CASE q # p
    BY <2>1, <2>2, <1>1
  <2>3. CASE q = p
    <3>1. cursor'[p] <= at
      <4>1. cursor'[p] = cursor[p] \/ cursor'[p] <= at
        OBVIOUS
      <4>2. cursor[p] \in Int /\ deliv[p] \in Int /\ at \in Int
        BY <1>0
      <4> QED BY <4>1, <4>2, <2>1, <2>3
    <3>2. at < Len(l)
      BY <1>b, <1>c
    <3>3. \A i \in DOMAIN l : l[i].seq = i - 1 /\ l[i].ev \notin fresh'
      <4> SUFFICES ASSUME NEW i \in 1 .. Len(log[p]) + 1 PROVE l[i].seq = i - 1 /\ l[i].ev \notin fresh'
        BY <1>c
      <4>1. CASE i \in 1 .. Len(log[p])
        BY <4>1, <1>b, <1>c, <2>1, <2>3
      <4>2. CASE i = Len(log[p]) + 1
        BY <4>2, <1>a, <1>b, <1>c
      <4> QED BY <4>1, <4>2, <1>b
    <3> QED BY <3>1, <3>2, <3>3, <2>3, <1>1, <1>b, <1>c
  <2> QED BY <2>2, <2>3
<1>3. EntriesRight'
  <2> SUFFICES ASSUME NEW q \in Part
               PROVE  /\ \A k \in DOMAIN entries'[q] :
                           /\ entries'[q][k].seq > deliv'[q] /\ entries'[q][k].seq < Len(log'[q])
                           /\ entries'[q][k] = log'[q][entries'[q][k].seq + 1]
                      /\ \A j, k \in DOMAIN entries'[q] : j < k => entries'[q][j].seq < entries'[q][k].seq
    BY DEF EntriesRight
  <2>1. /\ \A k \in DOMAIN entries[q] :
            /\ entries[q][k].seq > deliv[q] /\ entries[q][k].seq < Len(log[q])
            /\ entries[q][k] = log[q][entries[q][k].seq + 1]
        /\ \A j, k \in DOMAIN entries[q] : j < k => entries[q][j].seq < entries[q][k].seq
    BY DEF EntriesRight
  <2>2. CASE q # p
    BY <2>1, <2>2, <1>1
  <2>3. CASE q = p
    <3>1. \A k \in DOMAIN w : /\ w[k].seq > at /\ w[k].seq < Len(log[p]) /\ w[k] = log[p][w[k].seq + 1]
                            /\ w[k].seq \in Nat
      <4>1. \A k \in DOMAIN w : w[k] \in Entry
        BY <1>d
      <4> QED BY <4>1, <2>1, <2>3 DEF Entry
    <3>2. \A k \in DOMAIN v : v[k].seq > at /\ v[k].seq < Len(l) /\ v[k] = l[v[k].seq + 1]
      <4> SUFFICES ASSUME NEW k \in 1 .. Len(w) + 1
                   PROVE  v[k].seq > at /\ v[k].seq < Len(l) /\ v[k] = l[v[k].seq + 1]
        BY <1>d
      <4>1. CASE k \in 1 .. Len(w)
        <5>1. v[k] = w[k] /\ w[k].seq + 1 \in 1 .. Len(log[p])
          BY <4>1, <3>1, <1>b, <1>d
        <5> QED BY <5>1, <4>1, <3>1, <1>b, <1>c, <1>d
      <4>2. CASE k = Len(w) + 1
        BY <4>2, <1>a, <1>b, <1>c, <1>d
      <4> QED BY <4>1, <4>2, <1>e
    <3>3. \A j, k \in DOMAIN v : j < k => v[j].seq < v[k].seq
      <4> SUFFICES ASSUME NEW j \in 1 .. Len(w) + 1, NEW k \in 1 .. Len(w) + 1, j < k
                   PROVE  v[j].seq < v[k].seq
        BY <1>d
      <4>0. j \in 1 .. Len(w) /\ v[j] = w[j]
        BY <1>d
      <4>1. CASE k \in 1 .. Len(w)
        BY <4>0, <4>1, <1>d DEF Ascending
      <4>2. CASE k = Len(w) + 1
        BY <4>0, <4>2, <3>1, <1>a, <1>b, <1>d
      <4> QED BY <4>1, <4>2, <1>e
    <3>4. entries'[q] = v /\ deliv'[q] = at /\ log'[q] = l
      BY <2>3, <1>1
    <3> HIDE DEF QueueInv, Remains
    <3> QED BY <3>2, <3>3, <3>4, Zenon
  <2> QED BY <2>2, <2>3
<1>4. ASSUME NEW u \in recorded'
      PROVE  u \in overflow' \/ \E q \in Part : \E i \in DOMAIN log'[q] : log'[q][i].ev = u
  <2>1. CASE u = ev
    <3>1. Len(log[p]) + 1 \in DOMAIN l
      BY <1>b, <1>c
    <3> QED BY <3>1, <2>1, <1>1, <1>a, <1>c
  <2>2. CASE u # ev /\ u \notin overflow'
    <3>1. PICK q \in Part : \E i \in DOMAIN log[q] : log[q][i].ev = u
      BY <2>2, <1>4 DEF RecordedRight
    <3>2. PICK i \in DOMAIN log[q] : log[q][i].ev = u
      BY <3>1
    <3>3. i \in DOMAIN log'[q] /\ log'[q][i] = log[q][i]
      <4>1. CASE q # p
        BY <4>1, <3>2, <1>1
      <4>2. CASE q = p
        <5>1. i \in DOMAIN l /\ l[i] = log[p][i]
          BY <4>2, <3>2, <1>b, <1>c
        <5> QED BY <4>2, <5>1, <1>1
      <4> QED BY <4>1, <4>2
    <3> QED BY <3>2, <3>3
  <2> QED BY <2>1, <2>2
<1>5. ASSUME NEW q \in Part, NEW i \in DOMAIN log'[q], log'[q][i].ev \in recorded' \ (sent' \cup dropped')
      PROVE  \E k \in DOMAIN entries'[q] : entries'[q][k] = log'[q][i]
  <2>1. CASE q # p
    <3>1. log'[q] = log[q] /\ entries'[q] = entries[q] /\ i \in DOMAIN log[q] /\ log[q][i].ev \notin fresh
      BY <2>1, <1>5, <1>1 DEF LogRight
    <3>2. log[q][i].ev \in recorded \ (sent \cup dropped)
      BY <3>1, <1>5
    <3>3. \E k \in DOMAIN entries[q] : entries[q][k] = log[q][i]
      BY <3>1, <3>2 DEF RecordedRight
    <3> QED BY <3>1, <3>3
  <2>2. CASE q = p /\ i = Len(log[p]) + 1
    <3>1. Len(w) + 1 \in DOMAIN v /\ v[Len(w) + 1] = e
      BY <1>d
    <3>2. log'[q][i] = e /\ entries'[q] = v
      BY <2>2, <1>1, <1>c
    <3> QED BY <3>1, <3>2
  <2>3. CASE q = p /\ i \in DOMAIN log[p]
    <3>1. log'[p][i] = log[p][i] /\ log[p][i].ev \notin fresh
      BY <2>3, <1>1, <1>b, <1>c DEF LogRight
    <3>2. log[p][i].ev \in recorded \ (sent \cup dropped) /\ log[p][i].ev \notin gone
      BY <3>1, <2>3, <1>5
    <3>3. PICK k \in DOMAIN entries[p] : entries[p][k] = log[p][i]
      BY <3>2, <2>3 DEF RecordedRight
    <3>4. PICK j \in DOMAIN w : w[j] = entries[p][k]
      BY <3>2, <3>3
    <3>5. j \in DOMAIN v /\ v[j] = w[j]
      BY <1>d
    <3> QED BY <3>1, <3>3, <3>4, <3>5, <2>3, <1>1
  <2>4. q = p => i \in DOMAIN log[p] \/ i = Len(log[p]) + 1
    BY <1>1, <1>5, <1>b, <1>c
  <2> QED BY <2>1, <2>2, <2>3, <2>4
<1>6. RecordedRight'
  BY <1>4, <1>5 DEF RecordedRight
<1> QED BY <1>2, <1>3, <1>6

(* Batches stay right while entries go and lines come.                     *)
LEMMA BatchStays ==
    ASSUME QueueTypeOK, LogRight, BatchRight, UNCHANGED drainVars, sent \subseteq sent',
           log' \in [Part -> Seq(Entry)],
           \A q \in Part : /\ Len(log'[q]) >= Len(log[q])
                           /\ \A i \in 1 .. Len(log[q]) : log'[q][i] = log[q][i],
           \A q \in Part : \A j \in DOMAIN entries'[q] :
               \/ \E k \in DOMAIN entries[q] : entries'[q][j] = entries[q][k]
               \/ entries'[q][j].seq = Len(log[q])
    PROVE  BatchRight'
<1> SUFFICES ASSUME NEW d \in Drainer
             PROVE  /\ \A k \in DOMAIN batch'[d] :
                         /\ batch'[d][k].seq < Len(log'[batch'[d][k].part])
                         /\ log'[batch'[d][k].part][batch'[d][k].seq + 1].ev = batch'[d][k].ev
                         /\ \A j \in DOMAIN entries'[batch'[d][k].part] :
                              entries'[batch'[d][k].part][j].seq < batch'[d][k].seq =>
                                \E m \in 1..k - 1 : /\ batch'[d][m].part = batch'[d][k].part
                                                     /\ batch'[d][m].seq = entries'[batch'[d][k].part][j].seq
                    /\ toAck'[d] <= Len(batch'[d])
                    /\ \A k \in 1..toAck'[d] : batch'[d][k].ev \in sent'
  BY DEF BatchRight
<1>0. batch' = batch /\ toAck' = toAck
  BY DEF drainVars
<1>1. toAck[d] <= Len(batch[d]) /\ \A k \in 1..toAck[d] : batch[d][k].ev \in sent
  BY DEF BatchRight
<1>2. ASSUME NEW k \in DOMAIN batch[d]
      PROVE  /\ batch[d][k].seq < Len(log'[batch[d][k].part])
             /\ log'[batch[d][k].part][batch[d][k].seq + 1].ev = batch[d][k].ev
             /\ \A j \in DOMAIN entries'[batch[d][k].part] :
                  entries'[batch[d][k].part][j].seq < batch[d][k].seq =>
                    \E m \in 1..k - 1 : /\ batch[d][m].part = batch[d][k].part
                                         /\ batch[d][m].seq = entries'[batch[d][k].part][j].seq
  <2>1. PICK p, n : p = batch[d][k].part /\ n = batch[d][k].seq
    OBVIOUS
  <2>2. p \in Part /\ n \in Nat
    <3>1. batch[d] \in Seq(Pending)
      BY DEF QueueTypeOK
    <3>2. batch[d][k] \in Pending
      BY <3>1, <1>2
    <3> QED BY <2>1, <3>2 DEF Pending
  <2>3. /\ n < Len(log[p]) /\ log[p][n + 1].ev = batch[d][k].ev
        /\ \A j \in DOMAIN entries[p] : entries[p][j].seq < n =>
             \E m \in 1..k - 1 : batch[d][m].part = p /\ batch[d][m].seq = entries[p][j].seq
    BY <2>1 DEF BatchRight
  <2>4. Len(log[p]) \in Nat /\ Len(log'[p]) \in Nat /\ Len(log'[p]) >= Len(log[p])
    <3>1. log[p] \in Seq(Entry) /\ log'[p] \in Seq(Entry)
      BY <2>2 DEF LogRight
    <3> QED BY <3>1, <2>2
  <2>5. n < Len(log'[p]) /\ log'[p][n + 1] = log[p][n + 1]
    <3>1. n + 1 \in 1 .. Len(log[p])
      BY <2>2, <2>3, <2>4
    <3> QED BY <3>1, <2>2, <2>3, <2>4
  <2>6. ASSUME NEW j \in DOMAIN entries'[p], entries'[p][j].seq < n
        PROVE  \E m \in 1..k - 1 : batch[d][m].part = p /\ batch[d][m].seq = entries'[p][j].seq
    <3>1. ~(entries'[p][j].seq = Len(log[p]))
      BY <2>2, <2>3, <2>4, <2>6
    <3>2. PICK i \in DOMAIN entries[p] : entries'[p][j] = entries[p][i]
      BY <3>1, <2>2
    <3> QED BY <3>2, <2>3, <2>6
  <2> QED BY <2>1, <2>3, <2>5, <2>6
<1> QED BY <1>0, <1>1, <1>2

-----------------------------------------------------------------------------
(* Recording.                                                              *)

LEMMA NothingChanges ==
    ASSUME QueueInv, UNCHANGED <<entries, nextSeq, deliv, log, cursor, overflow, batch, toAck, fresh, recorded, dropped>>,
           sent \subseteq sent', sent' \subseteq Event, crashes' \in Nat
    PROVE  QueueInv'
<1>1. QueueTypeOK'
  BY DEF QueueInv, QueueTypeOK
<1>2. LogRight' /\ EntriesRight'
  BY DEF QueueInv, LogRight, EntriesRight
<1>3. RecordedRight'
  BY DEF QueueInv, RecordedRight
<1>4. BatchRight'
  BY DEF QueueInv, BatchRight
<1> QED BY <1>1, <1>2, <1>3, <1>4 DEF QueueInv

(* An append that fails leaves no trace.                                   *)
LEMMA NoTrace ==
    ASSUME ~HalfWrites, QueueTypeOK, NEW p \in Part, NEW ev, AppendFails(p, ev)
    PROVE  UNCHANGED <<log, nextSeq>>
<1>1. PICK left \in {<<>>} : log' = [log EXCEPT ![p] = @ \o left]
  BY DEF AppendFails
<1>2. log \in [Part -> Seq(Entry \cup {Torn})]
  BY DEF QueueTypeOK
<1>3. log[p] \o <<>> = log[p]
  BY <1>2, ConcatEmptySeq
<1>4. log' = [log EXCEPT ![p] = log[p]]
  BY <1>1, <1>3
<1> QED BY <1>2, <1>4 DEF AppendFails

(* What is kept when the ring makes room.                                  *)
LEMMA KeptOf ==
    ASSUME QueueInv
    PROVE  Remains("normal", Kept, PastDropped, IF RingFull THEN {Head(entries["normal"]).ev} ELSE {})
<1> PICK s : s = entries["normal"]
  OBVIOUS
<1> PICK at : at = deliv["normal"]
  OBVIOUS
<1>1. "normal" \in Part
  BY DEF Part
<1>2. s \in Seq(Entry) /\ at \in Nat \cup {-1} /\ at < Len(log["normal"]) /\ Len(log["normal"]) \in Nat
  BY <1>1 DEF QueueInv, QueueTypeOK, LogRight
<1>3. /\ \A k \in DOMAIN s : s[k].seq > at /\ s[k].seq < Len(log["normal"]) /\ s[k].seq \in Nat
      /\ Ascending(s)
  <2>1. \A k \in DOMAIN s : s[k] \in Entry
    BY <1>2
  <2>2. \A k \in DOMAIN s : s[k].seq \in Nat
    BY <2>1 DEF Entry
  <2> QED BY <2>2, <1>1 DEF QueueInv, EntriesRight, Ascending
<1>4. CASE ~RingFull
  <2>1. Kept = s /\ PastDropped = at
    BY <1>4 DEF Kept, PastDropped
  <2> QED BY <2>1, <1>2, <1>3, <1>4 DEF Remains
<1>5. CASE RingFull
  <2>1. s # <<>>
    <3>1. Len(s) >= NormalCapacity /\ NormalCapacity \in Nat \ {0}
      BY <1>5, QueueAssumption DEF RingFull
    <3> QED BY <3>1
  <2>2. PICK w, h : w = Tail(s) /\ h = s[1]
    OBVIOUS
  <2>3. /\ Fewer(w, s, h.seq) /\ Head(s) = h /\ 1 \in DOMAIN s
        /\ \A j \in DOMAIN w : w[j].seq > h.seq
        /\ w # <<>> => 1 \in DOMAIN w /\ Head(w) = w[1] /\ \A j \in DOMAIN w : w[j].seq >= Head(w).seq
    BY <1>2, <1>3, <2>1, <2>2, TailOf
  <2>4. Kept = w /\ PastDropped = IF w # <<>> /\ Head(w).seq - 1 > at THEN Head(w).seq - 1 ELSE at
    BY <1>5, <2>2 DEF Kept, PastDropped
  <2>5. \A j \in DOMAIN w : \E k \in DOMAIN s : w[j] = s[k]
    BY <2>3 DEF Fewer
  <2>6. \A j \in DOMAIN w : w[j].seq \in Nat /\ w[j].seq > at /\ w[j].seq < Len(log["normal"])
    BY <2>5, <1>3
  <2>7. PICK past : past = PastDropped
    OBVIOUS
  <2>8. /\ past \in Nat \cup {-1} /\ past >= at /\ past < Len(log["normal"])
        /\ \A j \in DOMAIN w : w[j].seq > past
    <3>1. CASE w # <<>> /\ Head(w).seq - 1 > at
      <4>1. past = Head(w).seq - 1 /\ 1 \in DOMAIN w /\ Head(w) = w[1]
        BY <3>1, <2>3, <2>4, <2>7
      <4>2. Head(w).seq \in Nat /\ Head(w).seq < Len(log["normal"])
        BY <4>1, <2>6
      <4>3. past \in Nat \cup {-1} /\ past >= at /\ past < Len(log["normal"])
        BY <4>1, <4>2, <3>1, <1>2
      <4>4. ASSUME NEW j \in DOMAIN w PROVE w[j].seq > past
        <5>1. w[j].seq >= Head(w).seq /\ w[j].seq \in Nat
          BY <3>1, <2>3, <2>6
        <5> QED BY <5>1, <4>1, <4>2
      <4> QED BY <4>3, <4>4
    <3>2. CASE ~(w # <<>> /\ Head(w).seq - 1 > at)
      <4>1. past = at
        BY <3>2, <2>4, <2>7
      <4> QED BY <4>1, <2>6, <1>2
    <3> QED BY <3>1, <3>2
  <2>9. ASSUME NEW k \in DOMAIN s PROVE s[k].ev \in {h.ev} \/ \E j \in DOMAIN w : w[j] = s[k]
    <3>1. CASE s[k].seq # h.seq
      BY <3>1, <2>3 DEF Fewer
    <3>2. CASE s[k].seq = h.seq
      <4>1. k = 1
        <5>1. k \in Nat /\ k >= 1 /\ (k > 1 => s[1].seq < s[k].seq) /\ s[1].seq \in Nat
          BY <1>2, <1>3, <2>3 DEF Ascending
        <5> QED BY <5>1, <3>2, <2>2
      <4> QED BY <4>1, <2>2
    <3> QED BY <3>1, <3>2
  <2>10. w \in Seq(Entry) /\ Ascending(w)
    BY <2>3 DEF Fewer, Ascending
  <2>11. Remains("normal", w, past, {h.ev})
    BY <2>5, <2>8, <2>9, <2>10 DEF Remains
  <2> QED BY <2>3, <2>4, <2>7, <2>11, <1>5
<1> QED BY <1>4, <1>5

(* An event that is recorded is a line of the log and an entry.            *)
LEMMA LineIsAdded ==
    ASSUME QueueInv, NEW p \in Part, NEW ev \in fresh, NEW w, NEW at, NEW gone, Remains(p, w, at, gone),
           Written(p, ev), fresh' = fresh \ {ev},
           entries' = [entries EXCEPT ![p] = Append(w, NewLine(p, ev))], deliv' = [deliv EXCEPT ![p] = at],
           \A q \in Part : cursor'[q] = cursor[q] \/ (q = p /\ cursor'[q] <= at),
           cursor' \in [Part -> Nat \cup {-1}],
           gone \subseteq dropped', dropped \subseteq dropped', dropped' \subseteq Event,
           recorded' = recorded \cup {ev}, UNCHANGED <<overflow, drainVars, crashes, sent>>
    PROVE  QueueInv'
<1>0. /\ QueueTypeOK /\ LogRight /\ BatchRight
      /\ entries \in [Part -> Seq(Entry)] /\ deliv \in [Part -> Nat \cup {-1}] /\ nextSeq \in [Part -> Nat]
      /\ log \in [Part -> Seq(Entry \cup {Torn})] /\ fresh \subseteq Event /\ recorded \subseteq Event
  BY DEF QueueInv, QueueTypeOK
<1>1. at \in Nat \cup {-1} /\ w \in Seq(Entry) /\ \A j \in DOMAIN w : \E k \in DOMAIN entries[p] : w[j] = entries[p][k]
  BY DEF Remains
<1>2. PICK e : e = NewLine(p, ev)
  OBVIOUS
<1>3. e \in Entry /\ e.seq = Len(log[p])
  BY <1>0, <1>2 DEF NewLine, Entry, LogRight
<1>4. /\ log' = [log EXCEPT ![p] = Append(@, e)] /\ nextSeq' = [nextSeq EXCEPT ![p] = @ + 1]
      /\ entries' = [entries EXCEPT ![p] = Append(w, e)]
  BY <1>2 DEF Written
<1>5. LogRight' /\ EntriesRight' /\ RecordedRight'
  <2>1. gone \subseteq sent' \cup dropped' /\ sent \subseteq sent' /\ overflow \subseteq overflow'
    OBVIOUS
  <2> QED BY <2>1, EntriesGrow
<1>6. log' \in [Part -> Seq(Entry)]
  <2>1. \A q \in Part : log'[q] \in Seq(Entry)
    BY <1>5 DEF LogRight
  <2> QED BY <2>1, <1>0, <1>4
<1>7. \A q \in Part : /\ Len(log'[q]) >= Len(log[q])
                      /\ \A i \in 1 .. Len(log[q]) : log'[q][i] = log[q][i]
  <2> SUFFICES ASSUME NEW q \in Part PROVE /\ Len(log'[q]) >= Len(log[q])
                                            /\ \A i \in 1 .. Len(log[q]) : log'[q][i] = log[q][i]
    OBVIOUS
  <2>1. log[q] \in Seq(Entry) /\ Len(log[q]) \in Nat
    BY <1>0 DEF LogRight
  <2>2. CASE q # p
    BY <2>1, <2>2, <1>0, <1>4
  <2>3. CASE q = p
    <3>1. log'[q] = Append(log[q], e)
      BY <2>3, <1>0, <1>4
    <3> QED BY <3>1, <2>1, <1>3
  <2> QED BY <2>2, <2>3
<1>8. \A q \in Part : \A j \in DOMAIN entries'[q] :
        \/ \E k \in DOMAIN entries[q] : entries'[q][j] = entries[q][k]
        \/ entries'[q][j].seq = Len(log[q])
  <2> SUFFICES ASSUME NEW q \in Part, NEW j \in DOMAIN entries'[q]
               PROVE  \/ \E k \in DOMAIN entries[q] : entries'[q][j] = entries[q][k]
                      \/ entries'[q][j].seq = Len(log[q])
    OBVIOUS
  <2>1. CASE q # p
    BY <2>1, <1>0, <1>4
  <2>2. CASE q = p
    <3>1. entries'[q] = Append(w, e)
      BY <2>2, <1>0, <1>4
    <3>2. Len(w) \in Nat /\ DOMAIN w = 1 .. Len(w)
      BY <1>1
    <3>3. j \in 1 .. Len(w) + 1
      BY <3>1, <3>2, <1>1
    <3>4. CASE j \in DOMAIN w
      <4>1. entries'[q][j] = w[j]
        BY <3>1, <3>2, <3>4, <1>1
      <4> QED BY <4>1, <3>4, <2>2, <1>1
    <3>5. CASE j = Len(w) + 1
      BY <3>1, <3>2, <3>5, <2>2, <1>1, <1>3
    <3> QED BY <3>2, <3>3, <3>4, <3>5
  <2> QED BY <2>1, <2>2
<1>9. BatchRight'
  BY <1>0, <1>6, <1>7, <1>8, BatchStays
<1>10. QueueTypeOK'
  <2>1. entries' \in [Part -> Seq(Entry)]
    <3>1. Append(w, e) \in Seq(Entry)
      BY <1>1, <1>3
    <3> QED BY <3>1, <1>0, <1>4
  <2>2. nextSeq' \in [Part -> Nat] /\ deliv' \in [Part -> Nat \cup {-1}]
    BY <1>0, <1>1, <1>4
  <2>3. log' \in [Part -> Seq(Entry \cup {Torn})]
    <3>1. log[p] \in Seq(Entry \cup {Torn}) /\ e \in Entry \cup {Torn}
      BY <1>0, <1>3
    <3>2. Append(log[p], e) \in Seq(Entry \cup {Torn})
      BY <3>1
    <3> QED BY <3>2, <1>0, <1>4
  <2>4. recorded' \subseteq Event /\ fresh' \subseteq Event
    BY <1>0
  <2>5. UNCHANGED <<overflow, batch, toAck, crashes, sent>>
    BY DEF drainVars
  <2> QED BY <2>1, <2>2, <2>3, <2>4, <2>5, <1>0 DEF QueueTypeOK
<1> QED BY <1>5, <1>9, <1>10 DEF QueueInv

(* An event that is not in the log: it is lost, or in the overflow log.    *)
LEMMA LineIsMissing ==
    ASSUME QueueInv, NEW p \in Part, NEW ev \in fresh, NEW w, NEW at, NEW gone, Remains(p, w, at, gone),
           UNCHANGED <<log, nextSeq>>, fresh' = fresh \ {ev},
           entries' = [entries EXCEPT ![p] = w], deliv' = [deliv EXCEPT ![p] = at],
           \A q \in Part : cursor'[q] = cursor[q] \/ (q = p /\ cursor'[q] <= at),
           cursor' \in [Part -> Nat \cup {-1}],
           gone \subseteq dropped', dropped \subseteq dropped', dropped' \subseteq Event,
           \/ overflow' = overflow \cup {ev} /\ recorded' = recorded \cup {ev}
           \/ UNCHANGED <<overflow, recorded>>,
           UNCHANGED <<drainVars, crashes, sent>>
    PROVE  QueueInv'
<1>0. /\ QueueTypeOK /\ LogRight /\ BatchRight
      /\ entries \in [Part -> Seq(Entry)] /\ deliv \in [Part -> Nat \cup {-1}]
      /\ log \in [Part -> Seq(Entry \cup {Torn})] /\ fresh \subseteq Event /\ recorded \subseteq Event
      /\ overflow \subseteq Event
  BY DEF QueueInv, QueueTypeOK
<1>1. at \in Nat \cup {-1} /\ w \in Seq(Entry) /\ \A j \in DOMAIN w : \E k \in DOMAIN entries[p] : w[j] = entries[p][k]
  BY DEF Remains
<1>2. LogRight' /\ EntriesRight' /\ RecordedRight'
  <2>1. /\ gone \subseteq sent' \cup dropped' /\ sent \subseteq sent' /\ fresh' \subseteq fresh
        /\ overflow \subseteq overflow' /\ recorded \subseteq recorded'
        /\ \A u \in recorded' \ recorded : u \in overflow' \cap fresh
    OBVIOUS
  <2> QED BY <2>1, EntriesShrink
<1>3. log' \in [Part -> Seq(Entry)] /\ \A q \in Part : Len(log'[q]) >= Len(log[q])
  <2>1. \A q \in Part : log[q] \in Seq(Entry) /\ Len(log[q]) \in Nat
    BY <1>0 DEF LogRight
  <2> QED BY <2>1, <1>0
<1>4. \A q \in Part : \A j \in DOMAIN entries'[q] : \E k \in DOMAIN entries[q] : entries'[q][j] = entries[q][k]
  BY <1>0, <1>1
<1>5. BatchRight'
  BY <1>0, <1>3, <1>4, BatchStays
<1>6. QueueTypeOK'
  <2>1. entries' \in [Part -> Seq(Entry)] /\ deliv' \in [Part -> Nat \cup {-1}]
    BY <1>0, <1>1
  <2>2. recorded' \subseteq Event /\ overflow' \subseteq Event /\ fresh' \subseteq Event
    BY <1>0
  <2>3. UNCHANGED <<batch, toAck, crashes, sent, log, nextSeq>>
    BY DEF drainVars
  <2> QED BY <2>1, <2>2, <2>3, <1>0 DEF QueueTypeOK
<1> QED BY <1>2, <1>5, <1>6 DEF QueueInv

LEMMA RecordNormalStep ==
    ASSUME ~HalfWrites, QueueInv, NEW ev \in Event, RecordNormal(ev)
    PROVE  QueueInv'
<1> DEFINE gone == IF RingFull THEN {Head(entries["normal"]).ev} ELSE {}
<1>0. /\ QueueTypeOK /\ "normal" \in Part /\ ev \in fresh
      /\ entries \in [Part -> Seq(Entry)] /\ deliv \in [Part -> Nat \cup {-1}]
      /\ cursor \in [Part -> Nat \cup {-1}]
  BY DEF QueueInv, QueueTypeOK, RecordNormal, Part
<1>1. PICK w, at : w = Kept /\ at = PastDropped
  OBVIOUS
<1>2. Remains("normal", w, at, gone)
  BY <1>1, KeptOf
<1>3. at \in Nat \cup {-1}
  BY <1>2 DEF Remains
<1>4. /\ fresh' = fresh \ {ev} /\ deliv' = [deliv EXCEPT !["normal"] = at]
      /\ \/ cursor' = [cursor EXCEPT !["normal"] = IF at > deliv["normal"] THEN at ELSE @]
         \/ UNCHANGED cursor
      /\ dropped' = IF RingFull THEN dropped \cup {Head(entries["normal"]).ev} ELSE dropped
      /\ UNCHANGED <<overflow, drainVars, crashes, sent>>
  BY <1>1 DEF RecordNormal
<1>5. /\ \A q \in Part : cursor'[q] = cursor[q] \/ (q = "normal" /\ cursor'[q] <= at)
      /\ cursor' \in [Part -> Nat \cup {-1}]
  <2>1. CASE UNCHANGED cursor
    BY <2>1, <1>0
  <2>2. CASE cursor' = [cursor EXCEPT !["normal"] = IF at > deliv["normal"] THEN at ELSE @]
    <3>1. at <= at
      BY <1>3
    <3> QED BY <2>2, <3>1, <1>0, <1>3
  <2> QED BY <2>1, <2>2, <1>4
<1>6. gone \subseteq dropped' /\ dropped \subseteq dropped'
  BY <1>4
<1>7. dropped' \subseteq Event
  <2>1. CASE ~RingFull
    BY <2>1, <1>4 DEF QueueInv, QueueTypeOK
  <2>2. CASE RingFull
    <3>1. entries["normal"] # <<>> /\ entries["normal"] \in Seq(Entry)
      <4>1. Len(entries["normal"]) >= NormalCapacity /\ NormalCapacity \in Nat \ {0}
        BY <2>2, QueueAssumption DEF RingFull
      <4> QED BY <4>1, <1>0
    <3>2. Head(entries["normal"]) \in Entry
      BY <3>1
    <3> QED BY <3>2, <2>2, <1>4 DEF Entry, QueueInv, QueueTypeOK
  <2> QED BY <2>1, <2>2
<1> HIDE DEF gone
<1>8. CASE /\ Written("normal", ev)
           /\ entries' = [entries EXCEPT !["normal"] = Append(Kept, NewLine("normal", ev))]
           /\ recorded' = recorded \cup {ev}
  <2>1. entries' = [entries EXCEPT !["normal"] = Append(w, NewLine("normal", ev))]
    BY <1>1, <1>8
  <2> QED BY <2>1, <1>0, <1>2, <1>4, <1>5, <1>6, <1>7, <1>8, LineIsAdded
<1>9. CASE /\ AppendFails("normal", ev)
           /\ entries' = [entries EXCEPT !["normal"] = Kept]
           /\ UNCHANGED recorded
  <2>1. UNCHANGED <<log, nextSeq>>
    BY <1>0, <1>9, NoTrace
  <2>2. entries' = [entries EXCEPT !["normal"] = w] /\ UNCHANGED <<overflow, recorded>>
    BY <1>1, <1>4, <1>9
  <2> QED BY <2>1, <2>2, <1>0, <1>2, <1>4, <1>5, <1>6, <1>7, LineIsMissing
<1> QED BY <1>8, <1>9 DEF RecordNormal

LEMMA RecordGrantStep ==
    ASSUME ~HalfWrites, QueueInv, NEW ev \in Event, RecordGrant(ev)
    PROVE  QueueInv'
<1>0. /\ QueueTypeOK /\ "grants" \in Part /\ ev \in fresh /\ fresh' = fresh \ {ev}
      /\ entries \in [Part -> Seq(Entry)] /\ deliv \in [Part -> Nat \cup {-1}]
      /\ cursor \in [Part -> Nat \cup {-1}] /\ dropped \subseteq Event
      /\ UNCHANGED <<deliv, cursor, drainVars, crashes, dropped, sent>>
  BY DEF QueueInv, QueueTypeOK, RecordGrant, Part
<1>1. PICK w, at, gone : w = entries["grants"] /\ at = deliv["grants"] /\ gone = {}
  OBVIOUS
<1>2. w \in Seq(Entry) /\ at \in Nat \cup {-1}
  BY <1>0, <1>1
<1>3. Remains("grants", w, at, gone)
  <2>1. at >= deliv["grants"] /\ at < Len(log["grants"])
    BY <1>0, <1>1, <1>2 DEF LogRight, QueueInv
  <2>2. Ascending(w) /\ \A j \in DOMAIN w : w[j].seq > at
    BY <1>0, <1>1 DEF QueueInv, EntriesRight, Ascending
  <2> QED BY <2>1, <2>2, <1>1, <1>2 DEF Remains
<1>4. /\ deliv' = [deliv EXCEPT !["grants"] = at]
      /\ \A q \in Part : cursor'[q] = cursor[q] \/ (q = "grants" /\ cursor'[q] <= at)
      /\ cursor' \in [Part -> Nat \cup {-1}]
      /\ gone \subseteq dropped' /\ dropped \subseteq dropped' /\ dropped' \subseteq Event
  BY <1>0, <1>1
<1>5. CASE /\ Written("grants", ev)
           /\ entries' = [entries EXCEPT !["grants"] = Append(@, NewLine("grants", ev))]
           /\ recorded' = recorded \cup {ev}
           /\ UNCHANGED overflow
  <2>1. entries' = [entries EXCEPT !["grants"] = Append(w, NewLine("grants", ev))]
    BY <1>1, <1>5
  <2>2. UNCHANGED <<overflow, drainVars, crashes, sent>>
    BY <1>0, <1>5
  <2>3. Written("grants", ev) /\ recorded' = recorded \cup {ev}
    BY <1>5
  <2> QED BY <2>1, <2>2, <2>3, <1>0, <1>3, <1>4, LineIsAdded
<1>6. CASE /\ \/ UNCHANGED <<log, nextSeq>>
              \/ AppendFails("grants", ev)
           /\ \/ overflow' = overflow \cup {ev} /\ recorded' = recorded \cup {ev}
              \/ UNCHANGED <<overflow, recorded>>
           /\ UNCHANGED entries
  <2>1. UNCHANGED <<log, nextSeq>>
    BY <1>0, <1>6, NoTrace
  <2>2. entries' = [entries EXCEPT !["grants"] = w]
    BY <1>0, <1>1, <1>6
  <2>3. UNCHANGED <<drainVars, crashes, sent>>
    BY <1>0
  <2>4. \/ overflow' = overflow \cup {ev} /\ recorded' = recorded \cup {ev}
        \/ UNCHANGED <<overflow, recorded>>
    BY <1>6
  <2> QED BY <2>1, <2>2, <2>3, <2>4, <1>0, <1>3, <1>4, LineIsMissing
<1> QED BY <1>5, <1>6 DEF RecordGrant

-----------------------------------------------------------------------------
(* Draining.                                                               *)

(* More is sent, and nothing else that the files or the entries show.      *)
LEMMA MoreIsSent ==
    ASSUME QueueInv, UNCHANGED <<memoryVars, log, cursor, overflow, crashes, fresh, recorded, dropped>>,
           sent \subseteq sent', sent' \subseteq Event,
           batch' \in [Drainer -> Seq(Pending)], toAck' \in [Drainer -> Nat]
    PROVE  QueueTypeOK' /\ LogRight' /\ EntriesRight' /\ RecordedRight'
<1>0. UNCHANGED <<entries, nextSeq, deliv>>
  BY DEF memoryVars
<1>1. QueueTypeOK'
  BY <1>0 DEF QueueInv, QueueTypeOK
<1>2. LogRight' /\ EntriesRight'
  BY <1>0 DEF QueueInv, LogRight, EntriesRight
<1>3. RecordedRight'
  BY <1>0 DEF QueueInv, RecordedRight
<1> QED BY <1>1, <1>2, <1>3

(* One drainer's batch.                                                    *)
BatchOf(d) ==
  /\ \A k \in DOMAIN batch[d] :
       /\ batch[d][k].seq < Len(log[batch[d][k].part])
       /\ log[batch[d][k].part][batch[d][k].seq + 1].ev = batch[d][k].ev
       /\ \A j \in DOMAIN entries[batch[d][k].part] :
            entries[batch[d][k].part][j].seq < batch[d][k].seq =>
              \E m \in 1..k - 1 : /\ batch[d][m].part = batch[d][k].part
                                   /\ batch[d][m].seq = entries[batch[d][k].part][j].seq
  /\ toAck[d] =< Len(batch[d])
  /\ \A k \in 1..toAck[d] : batch[d][k].ev \in sent

LEMMA BatchesOf == BatchRight <=> \A d \in Drainer : BatchOf(d)
BY DEF BatchRight, BatchOf

(* The batches of the others.                                              *)
LEMMA OtherBatches ==
    ASSUME QueueInv, NEW d \in Drainer,
           UNCHANGED <<entries, log>>, sent \subseteq sent',
           \A e \in Drainer \ {d} : batch'[e] = batch[e] /\ toAck'[e] = toAck[e],
           BatchOf(d)'
    PROVE  BatchRight'
<1>1. ASSUME NEW e \in Drainer PROVE BatchOf(e)'
  <2>1. CASE e = d
    BY <2>1
  <2>2. CASE e # d
    <3>1. BatchOf(e) /\ batch'[e] = batch[e] /\ toAck'[e] = toAck[e]
      BY <2>2, BatchesOf DEF QueueInv
    <3> QED BY <3>1 DEF BatchOf
  <2> QED BY <2>1, <2>2
<1> QED BY <1>1 DEF BatchRight, BatchOf

(* What Queue.Drain returns: undelivered entries, each after the earlier   *)
(* ones of its partition.                                                  *)
LEMMA UndeliveredOf ==
    ASSUME QueueInv
    PROVE  /\ Undelivered \in Seq(Pending)
           /\ \A k \in DOMAIN Undelivered : \E p \in Part : \E i \in DOMAIN entries[p] :
                /\ Undelivered[k] = [part |-> p, seq |-> entries[p][i].seq, ev |-> entries[p][i].ev]
                /\ \A j \in 1 .. i - 1 : \E m \in 1 .. k - 1 :
                     Undelivered[m].part = p /\ Undelivered[m].seq = entries[p][j].seq
<1> DEFINE P(p, i) == [part |-> p, seq |-> entries[p][i].seq, ev |-> entries[p][i].ev]
<1>1. PICK g, n : g = AsPending("grants") /\ n = AsPending("normal")
  OBVIOUS
<1>0. PICK G, N : G = Len(entries["grants"]) /\ N = Len(entries["normal"])
  OBVIOUS
<1>2. /\ "grants" \in Part /\ "normal" \in Part
      /\ entries["grants"] \in Seq(Entry) /\ entries["normal"] \in Seq(Entry)
      /\ G \in Nat /\ N \in Nat
      /\ DOMAIN entries["grants"] = 1 .. G /\ DOMAIN entries["normal"] = 1 .. N
  <2>1. "grants" \in Part /\ "normal" \in Part
    BY DEF Part
  <2> QED BY <2>1, <1>0 DEF QueueInv, QueueTypeOK
<1>3. ASSUME NEW p \in Part, NEW i \in DOMAIN entries[p] PROVE P(p, i) \in Pending
  <2>1. entries[p] \in Seq(Entry)
    BY DEF QueueInv, QueueTypeOK
  <2>2. entries[p][i] \in Entry
    BY <2>1
  <2> QED BY <2>2 DEF Entry, Pending
<1>4. g \in Seq(Pending) /\ Len(g) = G /\ \A i \in 1 .. G : g[i] = P("grants", i)
  <2>1. g \in [1 .. G -> Pending] /\ \A i \in 1 .. G : g[i] = P("grants", i)
    BY <1>0, <1>1, <1>2, <1>3 DEF AsPending
  <2> QED BY <2>1, <1>2, Listing
<1>5. n \in Seq(Pending) /\ Len(n) = N /\ \A i \in 1 .. N : n[i] = P("normal", i)
  <2>1. n \in [1 .. N -> Pending] /\ \A i \in 1 .. N : n[i] = P("normal", i)
    BY <1>0, <1>1, <1>2, <1>3 DEF AsPending
  <2> QED BY <2>1, <1>2, Listing
<1> HIDE DEF P
<1>6. PICK all : all = g \o n
  OBVIOUS
<1>7. /\ all \in Seq(Pending) /\ Len(all) = G + N
      /\ \A k \in 1 .. G : all[k] = P("grants", k)
      /\ \A k \in 1 .. N : all[G + k] = P("normal", k)
  <2>1. /\ all \in Seq(Pending) /\ Len(all) = Len(g) + Len(n)
        /\ \A i \in 1 .. Len(g) + Len(n) : all[i] = IF i <= Len(g) THEN g[i] ELSE n[i - Len(g)]
    BY <1>4, <1>5, <1>6, ConcatProperties
  <2>2. ASSUME NEW k \in 1 .. G PROVE all[k] = P("grants", k)
    BY <2>1, <2>2, <1>2, <1>4, <1>5
  <2>3. ASSUME NEW k \in 1 .. N PROVE all[G + k] = P("normal", k)
    <3>1. G + k \in 1 .. G + N /\ ~(G + k <= G) /\ G + k - G = k
      BY <1>2
    <3> QED BY <3>1, <2>1, <1>4, <1>5
  <2> QED BY <2>1, <2>2, <2>3, <1>4, <1>5
<1>8. PICK last : last = IF Len(all) < DrainMax THEN Len(all) ELSE DrainMax
  OBVIOUS
<1>9. last \in 0 .. G + N
  BY <1>2, <1>7, <1>8, QueueAssumption
<1>10. PICK u : u = Undelivered
  OBVIOUS
<1>11. u = SubSeq(all, 1, last)
  BY <1>1, <1>6, <1>8, <1>10 DEF Undelivered
<1>12. u \in Seq(Pending) /\ DOMAIN u = 1 .. last /\ \A k \in 1 .. last : u[k] = all[k]
  <2>1. \A k \in 1 .. last : all[k] \in Pending
    BY <1>2, <1>7, <1>9
  <2>2. u = [k \in 1 .. last |-> all[k]]
    BY <1>2, <1>7, <1>9, <1>11
  <2>3. u \in [1 .. last -> Pending] /\ last \in Nat
    BY <2>1, <2>2, <1>9, <1>2
  <2> QED BY <2>2, <2>3, Listing
<1>13. ASSUME NEW k \in DOMAIN u
       PROVE  \E p \in Part : \E i \in DOMAIN entries[p] :
                /\ u[k] = P(p, i)
                /\ \A j \in 1 .. i - 1 : \E m \in 1 .. k - 1 : u[m] = P(p, j)
  <2>1. k \in 1 .. last /\ k \in 1 .. G + N /\ u[k] = all[k]
    BY <1>2, <1>9, <1>12
  <2>2. CASE k \in 1 .. G
    <3>1. u[k] = P("grants", k)
      BY <2>1, <2>2, <1>7
    <3>2. ASSUME NEW j \in 1 .. k - 1 PROVE u[j] = P("grants", j)
      BY <2>1, <2>2, <1>2, <1>7, <1>9, <1>12
    <3> QED BY <3>1, <3>2, <2>2, <1>2
  <2>3. CASE k \in G + 1 .. G + N
    <3>1. PICK i : i = k - G
      OBVIOUS
    <3>2. i \in 1 .. N /\ k = G + i
      BY <3>1, <2>3, <1>2
    <3>3. u[k] = P("normal", i)
      BY <3>2, <2>1, <1>7
    <3>4. ASSUME NEW j \in 1 .. i - 1 PROVE G + j \in 1 .. k - 1 /\ u[G + j] = P("normal", j)
      <4>1. G + j \in 1 .. k - 1 /\ G + j \in 1 .. last /\ j \in 1 .. N
        BY <3>2, <2>1, <1>2, <1>9
      <4> QED BY <4>1, <1>7, <1>12
    <3> QED BY <3>2, <3>3, <3>4, <1>2
  <2> QED BY <2>1, <2>2, <2>3, <1>2
<1>14. ASSUME NEW p, NEW j PROVE P(p, j).part = p /\ P(p, j).seq = entries[p][j].seq
  BY DEF P
<1>15. ASSUME NEW k \in DOMAIN u
       PROVE  \E p \in Part : \E i \in DOMAIN entries[p] :
                /\ u[k] = [part |-> p, seq |-> entries[p][i].seq, ev |-> entries[p][i].ev]
                /\ \A j \in 1 .. i - 1 : \E m \in 1 .. k - 1 : u[m].part = p /\ u[m].seq = entries[p][j].seq
  <2>1. PICK p \in Part : \E i \in DOMAIN entries[p] :
                /\ u[k] = P(p, i)
                /\ \A j \in 1 .. i - 1 : \E m \in 1 .. k - 1 : u[m] = P(p, j)
    BY <1>13, <1>15
  <2>2. PICK i \in DOMAIN entries[p] :
                /\ u[k] = P(p, i)
                /\ \A j \in 1 .. i - 1 : \E m \in 1 .. k - 1 : u[m] = P(p, j)
    BY <2>1
  <2>3. u[k] = [part |-> p, seq |-> entries[p][i].seq, ev |-> entries[p][i].ev]
    BY <2>2 DEF P
  <2>4. \A j \in 1 .. i - 1 : \E m \in 1 .. k - 1 : u[m].part = p /\ u[m].seq = entries[p][j].seq
    BY <2>2, <1>14
  <2> QED BY <2>3, <2>4
<1> QED BY <1>10, <1>12, <1>15

LEMMA DrainStep ==
    ASSUME QueueInv, NEW d \in Drainer, Drain(d)
    PROVE  QueueInv'
<1>0. /\ batch[d] = <<>> /\ batch' = [batch EXCEPT ![d] = Undelivered]
      /\ UNCHANGED <<memoryVars, log, cursor, overflow, toAck, crashes, historyVars>>
  BY DEF Drain
<1>1. batch \in [Drainer -> Seq(Pending)] /\ toAck \in [Drainer -> Nat] /\ sent \subseteq Event
  BY DEF QueueInv, QueueTypeOK
<1>2. UNCHANGED <<fresh, recorded, dropped, sent>> /\ UNCHANGED <<entries, log>>
  BY <1>0 DEF historyVars, memoryVars
<1>3. PICK u : u = Undelivered
  OBVIOUS
<1>4. /\ u \in Seq(Pending)
      /\ \A k \in DOMAIN u : \E p \in Part : \E i \in DOMAIN entries[p] :
           /\ u[k] = [part |-> p, seq |-> entries[p][i].seq, ev |-> entries[p][i].ev]
           /\ \A j \in 1 .. i - 1 : \E m \in 1 .. k - 1 :
                u[m].part = p /\ u[m].seq = entries[p][j].seq
  BY <1>3, UndeliveredOf
<1>5. /\ batch'[d] = u /\ toAck'[d] = toAck[d] /\ batch' \in [Drainer -> Seq(Pending)]
      /\ \A e \in Drainer \ {d} : batch'[e] = batch[e] /\ toAck'[e] = toAck[e]
  BY <1>0, <1>1, <1>3, <1>4
<1>6. toAck[d] = 0
  <2>1. toAck[d] <= Len(batch[d])
    BY DEF QueueInv, BatchRight
  <2>2. toAck[d] \in Nat /\ Len(<<>>) = 0
    BY <1>1
  <2> QED BY <2>1, <2>2, <1>0
<1>7. ASSUME NEW k \in DOMAIN u
      PROVE  /\ u[k].seq < Len(log[u[k].part])
             /\ log[u[k].part][u[k].seq + 1].ev = u[k].ev
             /\ \A j \in DOMAIN entries[u[k].part] :
                  entries[u[k].part][j].seq < u[k].seq =>
                    \E m \in 1..k - 1 : u[m].part = u[k].part /\ u[m].seq = entries[u[k].part][j].seq
  <2>1. PICK p \in Part : \E i \in DOMAIN entries[p] :
           /\ u[k] = [part |-> p, seq |-> entries[p][i].seq, ev |-> entries[p][i].ev]
           /\ \A j \in 1 .. i - 1 : \E m \in 1 .. k - 1 : u[m].part = p /\ u[m].seq = entries[p][j].seq
    BY <1>4, <1>7
  <2>2. PICK i \in DOMAIN entries[p] :
           /\ u[k] = [part |-> p, seq |-> entries[p][i].seq, ev |-> entries[p][i].ev]
           /\ \A j \in 1 .. i - 1 : \E m \in 1 .. k - 1 : u[m].part = p /\ u[m].seq = entries[p][j].seq
    BY <2>1
  <2>3. u[k].part = p /\ u[k].seq = entries[p][i].seq /\ u[k].ev = entries[p][i].ev
    BY <2>2
  <2>4. /\ entries[p][i].seq < Len(log[p])
        /\ entries[p][i] = log[p][entries[p][i].seq + 1]
        /\ \A j, l \in DOMAIN entries[p] : j < l => entries[p][j].seq < entries[p][l].seq
    BY DEF QueueInv, EntriesRight
  <2>5. /\ DOMAIN entries[p] = 1 .. Len(entries[p]) /\ Len(entries[p]) \in Nat
        /\ \A j \in DOMAIN entries[p] : entries[p][j].seq \in Nat
    <3>1. entries[p] \in Seq(Entry)
      BY DEF QueueInv, QueueTypeOK
    <3>2. \A j \in DOMAIN entries[p] : entries[p][j] \in Entry
      BY <3>1
    <3> QED BY <3>1, <3>2 DEF Entry
  <2>6. ASSUME NEW j \in DOMAIN entries[p], entries[p][j].seq < entries[p][i].seq PROVE j \in 1 .. i - 1
    <3>1. ~(i < j) /\ i # j
      BY <2>4, <2>5, <2>6
    <3> QED BY <3>1, <2>5, <2>6
  <2> QED BY <2>2, <2>3, <2>4, <2>6
<1>8. BatchOf(d)'
  <2>1. toAck'[d] <= Len(u) /\ 1 .. toAck'[d] = {}
    BY <1>4, <1>5, <1>6
  <2> QED BY <2>1, <1>2, <1>5, <1>7 DEF BatchOf
<1>9. BatchRight'
  BY <1>2, <1>5, <1>8, OtherBatches
<1>10. QueueTypeOK' /\ LogRight' /\ EntriesRight' /\ RecordedRight'
  <2>1. toAck' \in [Drainer -> Nat] /\ sent \subseteq sent' /\ sent' \subseteq Event
    BY <1>0, <1>1, <1>2
  <2> QED BY <2>1, <1>0, <1>2, <1>5, MoreIsSent
<1> QED BY <1>9, <1>10 DEF QueueInv

LEMMA WriteOutStep ==
    ASSUME QueueInv, NEW d \in Drainer, WriteOut(d)
    PROVE  QueueInv'
<1>0. /\ batch[d] # <<>> /\ toAck[d] = 0
      /\ UNCHANGED <<memoryVars, log, cursor, overflow, batch, crashes, fresh, recorded, dropped>>
  BY DEF WriteOut
<1>1. PICK n \in {1, Len(batch[d])} :
        /\ toAck' = [toAck EXCEPT ![d] = n]
        /\ sent' = sent \cup {batch[d][i].ev : i \in 1..n}
  BY DEF WriteOut
<1>2. batch \in [Drainer -> Seq(Pending)] /\ toAck \in [Drainer -> Nat] /\ sent \subseteq Event
  BY DEF QueueInv, QueueTypeOK
<1>3. n \in Nat /\ n <= Len(batch[d])
  <2>1. batch[d] \in Seq(Pending)
    BY <1>2
  <2>2. Len(batch[d]) \in Nat /\ Len(batch[d]) # 0
    BY <2>1, <1>0
  <2> QED BY <2>2
<1>4. sent \subseteq sent' /\ sent' \subseteq Event
  <2>1. ASSUME NEW i \in 1 .. n PROVE batch[d][i].ev \in Event
    <3>1. batch[d] \in Seq(Pending) /\ i \in 1 .. Len(batch[d])
      BY <1>2, <1>3
    <3>2. batch[d][i] \in Pending
      BY <3>1
    <3> QED BY <3>2 DEF Pending
  <2> QED BY <2>1, <1>1, <1>2
<1>5. /\ toAck' \in [Drainer -> Nat] /\ toAck'[d] = n
      /\ \A e \in Drainer \ {d} : batch'[e] = batch[e] /\ toAck'[e] = toAck[e]
  BY <1>0, <1>1, <1>2, <1>3
<1>6. UNCHANGED <<entries, log>> /\ batch' = batch
  BY <1>0 DEF memoryVars
<1>7. BatchOf(d)'
  <2>1. BatchOf(d)
    BY BatchesOf DEF QueueInv
  <2>2. \A k \in 1 .. n : batch[d][k].ev \in sent'
    BY <1>1
  <2> QED BY <2>1, <2>2, <1>3, <1>5, <1>6 DEF BatchOf
<1>8. BatchRight'
  BY <1>4, <1>5, <1>6, <1>7, OtherBatches
<1>9. QueueTypeOK' /\ LogRight' /\ EntriesRight' /\ RecordedRight'
  <2>1. batch' \in [Drainer -> Seq(Pending)]
    BY <1>2, <1>6
  <2> QED BY <2>1, <1>0, <1>4, <1>5, MoreIsSent
<1> QED BY <1>8, <1>9 DEF QueueInv

LEMMA GiveUpStep ==
    ASSUME QueueInv, NEW d \in Drainer, GiveUp(d)
    PROVE  QueueInv'
<1>0. /\ toAck[d] = 0 /\ batch' = [batch EXCEPT ![d] = <<>>]
      /\ UNCHANGED <<memoryVars, log, cursor, overflow, toAck, crashes, fresh, recorded, dropped>>
  BY DEF GiveUp
<1>1. PICK n \in {0, Len(batch[d])} : sent' = sent \cup {batch[d][i].ev : i \in 1..n}
  BY DEF GiveUp
<1>2. batch \in [Drainer -> Seq(Pending)] /\ toAck \in [Drainer -> Nat] /\ sent \subseteq Event
  BY DEF QueueInv, QueueTypeOK
<1>3. sent \subseteq sent' /\ sent' \subseteq Event
  <2>1. ASSUME NEW i \in 1 .. n PROVE batch[d][i].ev \in Event
    <3>1. batch[d] \in Seq(Pending) /\ i \in 1 .. Len(batch[d])
      BY <1>2
    <3>2. batch[d][i] \in Pending
      BY <3>1
    <3> QED BY <3>2 DEF Pending
  <2> QED BY <2>1, <1>1, <1>2
<1>4. /\ batch' \in [Drainer -> Seq(Pending)] /\ batch'[d] = <<>> /\ toAck'[d] = 0
      /\ \A e \in Drainer \ {d} : batch'[e] = batch[e] /\ toAck'[e] = toAck[e]
  BY <1>0, <1>2
<1>5. UNCHANGED <<entries, log>>
  BY <1>0 DEF memoryVars
<1>6. BatchOf(d)'
  BY <1>4 DEF BatchOf
<1>7. BatchRight'
  BY <1>3, <1>4, <1>5, <1>6, OtherBatches
<1>8. QueueTypeOK' /\ LogRight' /\ EntriesRight' /\ RecordedRight'
  <2>1. toAck' \in [Drainer -> Nat]
    BY <1>0, <1>2
  <2> QED BY <2>1, <1>0, <1>3, <1>4, MoreIsSent
<1> QED BY <1>7, <1>8 DEF QueueInv

(* What is acknowledged was sent, and is the first of its partition that   *)
(* is undelivered.                                                         *)
LEMMA AckedOf ==
    ASSUME QueueInv, NEW d \in Drainer, toAck[d] > 0, NEW a, a = Head(batch[d]),
           NEW at, at = IF a.seq > deliv[a.part] THEN a.seq ELSE deliv[a.part]
    PROVE  /\ batch[d] \in Seq(Pending) /\ batch[d] # <<>> /\ a = batch[d][1] /\ 1 \in DOMAIN batch[d]
           /\ a \in Pending /\ a.ev \in sent /\ a.seq <= at
           /\ Fewer(Without(entries[a.part], a.seq), entries[a.part], a.seq)
           /\ Remains(a.part, Without(entries[a.part], a.seq), at, {a.ev})
<1>1. /\ batch[d] \in Seq(Pending) /\ toAck[d] \in Nat /\ toAck[d] <= Len(batch[d])
      /\ \A k \in 1..toAck[d] : batch[d][k].ev \in sent
  BY BatchesOf DEF QueueInv, QueueTypeOK, BatchOf
<1>2. batch[d] # <<>> /\ a = batch[d][1] /\ 1 \in DOMAIN batch[d] /\ a \in Pending /\ a.ev \in sent
  <2>1. Len(batch[d]) \in Nat /\ DOMAIN batch[d] = 1 .. Len(batch[d]) /\ 1 \in 1 .. Len(batch[d]) /\ 1 \in 1 .. toAck[d]
    BY <1>1
  <2>2. batch[d] # <<>>
    BY <2>1
  <2>3. a = batch[d][1] /\ batch[d][1] \in Pending
    BY <1>1, <2>1, <2>2
  <2> QED BY <1>1, <2>1, <2>2, <2>3
<1>3. PICK p, n : p = a.part /\ n = a.seq
  OBVIOUS
<1>4. p \in Part /\ n \in Nat
  BY <1>2, <1>3 DEF Pending
<1>5. /\ n < Len(log[p]) /\ log[p][n + 1].ev = a.ev
      /\ \A j \in DOMAIN entries[p] : entries[p][j].seq < n => \E m \in 1 .. 1 - 1 : batch[d][m].part = p
  BY <1>2, <1>3, BatchesOf DEF QueueInv, BatchOf
<1>6. /\ log[p] \in Seq(Entry) /\ deliv[p] \in Nat \cup {-1} /\ deliv[p] < Len(log[p])
      /\ entries[p] \in Seq(Entry) /\ Ascending(entries[p])
      /\ \A k \in DOMAIN entries[p] : /\ entries[p][k].seq > deliv[p] /\ entries[p][k].seq < Len(log[p])
                                      /\ entries[p][k] = log[p][entries[p][k].seq + 1]
  BY <1>4 DEF QueueInv, QueueTypeOK, LogRight, EntriesRight, Ascending
<1>7. PICK w : w = Without(entries[p], n)
  OBVIOUS
<1>8. Fewer(w, entries[p], n)
  BY <1>4, <1>6, <1>7, WithoutOf
<1>9. at \in Nat \cup {-1} /\ at >= deliv[p] /\ at >= n /\ at < Len(log[p])
  <2>1. at = IF n > deliv[p] THEN n ELSE deliv[p]
    BY <1>3
  <2>2. Len(log[p]) \in Nat
    BY <1>6
  <2> QED BY <2>1, <2>2, <1>4, <1>5, <1>6
<1>10. ASSUME NEW j \in DOMAIN w PROVE w[j].seq > at
  <2>1. PICK k \in DOMAIN entries[p] : w[j] = entries[p][k]
    BY <1>8 DEF Fewer
  <2>2. w[j].seq # n /\ w[j].seq > deliv[p]
    BY <2>1, <1>6, <1>8 DEF Fewer
  <2>3. w[j].seq \in Nat
    <3>1. entries[p][k] \in Entry
      BY <2>1, <1>6
    <3> QED BY <2>1, <3>1 DEF Entry
  <2>4. ~(w[j].seq < n)
    BY <2>1, <1>5
  <2> QED BY <2>2, <2>3, <2>4, <1>3, <1>4, <1>6
<1>11. ASSUME NEW k \in DOMAIN entries[p] PROVE entries[p][k].ev \in {a.ev} \/ \E j \in DOMAIN w : w[j] = entries[p][k]
  <2>1. CASE entries[p][k].seq = n
    BY <2>1, <1>5, <1>6
  <2>2. CASE entries[p][k].seq # n
    BY <2>2, <1>8 DEF Fewer
  <2> QED BY <2>1, <2>2
<1>12. Remains(p, w, at, {a.ev})
  <2>1. w \in Seq(Entry) /\ Ascending(w) /\ \A j \in DOMAIN w : \E k \in DOMAIN entries[p] : w[j] = entries[p][k]
    BY <1>8 DEF Fewer, Ascending
  <2> QED BY <2>1, <1>9, <1>10, <1>11 DEF Remains
<1>13. a.seq <= at
  BY <1>3, <1>4, <1>9
<1> QED BY <1>1, <1>2, <1>3, <1>7, <1>8, <1>12, <1>13

LEMMA AckWrittenStep ==
    ASSUME QueueInv, NEW d \in Drainer, AckWritten(d)
    PROVE  QueueInv'
<1>0. PICK a : a = Head(batch[d])
  OBVIOUS
<1>1. PICK at : at = IF a.seq > deliv[a.part] THEN a.seq ELSE deliv[a.part]
  OBVIOUS
<1>2. /\ toAck[d] > 0
      /\ entries' = [entries EXCEPT ![a.part] = Without(@, a.seq)]
      /\ deliv' = [deliv EXCEPT ![a.part] = at]
      /\ \/ cursor' = [cursor EXCEPT ![a.part] = at] /\ batch' = [batch EXCEPT ![d] = Tail(@)]
         \/ UNCHANGED cursor /\ batch' = [batch EXCEPT ![d] = IF toAck[d] = 1 THEN <<>> ELSE Tail(@)]
      /\ toAck' = [toAck EXCEPT ![d] = @ - 1]
      /\ UNCHANGED <<nextSeq, log, overflow, crashes, historyVars>>
  BY <1>0, <1>1 DEF AckWritten
<1>3. PICK p, n, w, gone : p = a.part /\ n = a.seq /\ w = Without(entries[a.part], a.seq) /\ gone = {a.ev}
  OBVIOUS
<1>4. /\ batch[d] \in Seq(Pending) /\ batch[d] # <<>> /\ a = batch[d][1] /\ 1 \in DOMAIN batch[d]
      /\ a \in Pending /\ a.ev \in sent /\ n <= at
      /\ Fewer(w, entries[p], n) /\ Remains(p, w, at, gone)
  BY <1>0, <1>1, <1>2, <1>3, AckedOf
<1>5. /\ entries \in [Part -> Seq(Entry)] /\ deliv \in [Part -> Nat \cup {-1}] /\ cursor \in [Part -> Nat \cup {-1}]
      /\ batch \in [Drainer -> Seq(Pending)] /\ toAck \in [Drainer -> Nat]
      /\ p \in Part /\ n \in Nat /\ at \in Nat \cup {-1}
  BY <1>3, <1>4 DEF QueueInv, QueueTypeOK, Pending, Remains
<1>6. /\ entries' = [entries EXCEPT ![p] = w] /\ deliv' = [deliv EXCEPT ![p] = at]
      /\ UNCHANGED <<fresh, recorded, dropped, sent>>
  BY <1>2, <1>3 DEF historyVars
<1>7. /\ \A q \in Part : cursor'[q] = cursor[q] \/ (q = p /\ cursor'[q] <= at)
      /\ cursor' \in [Part -> Nat \cup {-1}]
  <2>1. CASE UNCHANGED cursor
    BY <2>1, <1>5
  <2>2. CASE cursor' = [cursor EXCEPT ![p] = at]
    <3>1. at <= at
      BY <1>5
    <3> QED BY <2>2, <3>1, <1>5
  <2> QED BY <2>1, <2>2, <1>2, <1>3
<1>8. LogRight' /\ EntriesRight' /\ RecordedRight'
  <2>1. UNCHANGED <<log, nextSeq>> /\ fresh' \subseteq fresh
    BY <1>2, <1>6
  <2>2. gone \subseteq sent' \cup dropped' /\ sent \subseteq sent' /\ dropped \subseteq dropped'
    BY <1>3, <1>4, <1>6
  <2>3. overflow \subseteq overflow' /\ recorded \subseteq recorded' /\ \A ev \in recorded' \ recorded : ev \in overflow' \cap fresh
    BY <1>2, <1>6
  <2> QED BY <2>1, <2>2, <2>3, <1>4, <1>5, <1>6, <1>7, EntriesShrink
<1>9. PICK b : b = Tail(batch[d])
  OBVIOUS
<1>10. /\ b \in Seq(Pending) /\ DOMAIN b = 1 .. Len(batch[d]) - 1 /\ Len(b) = Len(batch[d]) - 1 /\ Len(batch[d]) \in Nat
       /\ DOMAIN batch[d] = 1 .. Len(batch[d])
       /\ \A k \in DOMAIN b : b[k] = batch[d][k + 1]
  BY <1>4, <1>9
<1>11. /\ toAck[d] \in Nat /\ toAck[d] <= Len(batch[d]) /\ \A k \in 1 .. toAck[d] : batch[d][k].ev \in sent
  BY <1>5, BatchesOf DEF QueueInv, BatchOf
<1>12. /\ batch'[d] = b \/ (batch'[d] = <<>> /\ toAck[d] = 1)
       /\ toAck'[d] = toAck[d] - 1
       /\ \A e \in Drainer \ {d} : batch'[e] = batch[e] /\ toAck'[e] = toAck[e]
       /\ batch' \in [Drainer -> Seq(Pending)] /\ toAck' \in [Drainer -> Nat]
  <2>1. toAck[d] - 1 \in Nat
    BY <1>2, <1>11
  <2>2. batch' = [batch EXCEPT ![d] = b] \/ (batch' = [batch EXCEPT ![d] = <<>>] /\ toAck[d] = 1)
    BY <1>2, <1>9
  <2>3. \/ batch'[d] = b /\ batch' \in [Drainer -> Seq(Pending)]
        \/ batch'[d] = <<>> /\ toAck[d] = 1 /\ batch' \in [Drainer -> Seq(Pending)]
    <3>1. CASE batch' = [batch EXCEPT ![d] = b]
      BY <3>1, <1>5, <1>10
    <3>2. CASE batch' = [batch EXCEPT ![d] = <<>>] /\ toAck[d] = 1
      BY <3>2, <1>5
    <3> QED BY <3>1, <3>2, <2>2
  <2>4. \A e \in Drainer \ {d} : batch'[e] = batch[e]
    BY <2>2, <1>5
  <2> QED BY <2>1, <2>3, <2>4, <1>2, <1>5
<1>13. QueueTypeOK'
  <2>1. entries' \in [Part -> Seq(Entry)] /\ deliv' \in [Part -> Nat \cup {-1}]
    BY <1>4, <1>5, <1>6 DEF Fewer
  <2> QED BY <2>1, <1>2, <1>6, <1>7, <1>12 DEF QueueInv, QueueTypeOK
<1>14. \A q \in Part : \A j \in DOMAIN entries'[q] :
         /\ \E k \in DOMAIN entries[q] : entries'[q][j] = entries[q][k]
         /\ q = p => entries'[q][j].seq # n
  BY <1>4, <1>5, <1>6 DEF Fewer
<1>15. log' = log /\ sent' = sent
  BY <1>2, <1>6
<1>16. ASSUME NEW k \in DOMAIN b
       PROVE  /\ b[k].seq < Len(log[b[k].part])
              /\ log[b[k].part][b[k].seq + 1].ev = b[k].ev
              /\ \A j \in DOMAIN entries'[b[k].part] :
                   entries'[b[k].part][j].seq < b[k].seq =>
                     \E m \in 1..k - 1 : b[m].part = b[k].part /\ b[m].seq = entries'[b[k].part][j].seq
  <2>1. k + 1 \in DOMAIN batch[d] /\ b[k] = batch[d][k + 1] /\ k \in Nat
    BY <1>10
  <2>2. PICK q, s : q = b[k].part /\ s = b[k].seq
    OBVIOUS
  <2>3. q \in Part
    <3>1. b[k] \in Pending
      BY <1>10
    <3> QED BY <2>2, <3>1 DEF Pending
  <2>4. /\ s < Len(log[q]) /\ log[q][s + 1].ev = b[k].ev
        /\ \A j \in DOMAIN entries[q] : entries[q][j].seq < s =>
             \E m \in 1 .. k + 1 - 1 : batch[d][m].part = q /\ batch[d][m].seq = entries[q][j].seq
    <3>1. PICK l : l = k + 1
      OBVIOUS
    <3>2. l \in DOMAIN batch[d] /\ q = batch[d][l].part /\ s = batch[d][l].seq /\ b[k].ev = batch[d][l].ev
      BY <3>1, <2>1, <2>2
    <3>3. BatchOf(d)
      BY BatchesOf DEF QueueInv
    <3>4. /\ s < Len(log[q]) /\ log[q][s + 1].ev = batch[d][l].ev
          /\ \A j \in DOMAIN entries[q] : entries[q][j].seq < s =>
               \E m \in 1 .. l - 1 : batch[d][m].part = q /\ batch[d][m].seq = entries[q][j].seq
      <4>1. /\ batch[d][l].seq < Len(log[batch[d][l].part])
            /\ log[batch[d][l].part][batch[d][l].seq + 1].ev = batch[d][l].ev
            /\ \A j \in DOMAIN entries[batch[d][l].part] : entries[batch[d][l].part][j].seq < batch[d][l].seq =>
                 \E m \in 1 .. l - 1 : /\ batch[d][m].part = batch[d][l].part
                                        /\ batch[d][m].seq = entries[batch[d][l].part][j].seq
        BY <3>2, <3>3, Zenon DEF BatchOf
      <4> QED BY <4>1, <3>2
    <3>5. 1 .. l - 1 = 1 .. k + 1 - 1
      BY <3>1, <2>1
    <3>6. b[k].ev = batch[d][l].ev
      BY <3>2
    <3> QED BY <3>4, <3>5, <3>6, Zenon
  <2>5. ASSUME NEW j \in DOMAIN entries'[q], entries'[q][j].seq < s
        PROVE  \E m \in 1 .. k - 1 : b[m].part = q /\ b[m].seq = entries'[q][j].seq
    <3>1. PICK i \in DOMAIN entries[q] : entries'[q][j] = entries[q][i]
      BY <2>3, <1>14
    <3>2. PICK m \in 1 .. k + 1 - 1 : batch[d][m].part = q /\ batch[d][m].seq = entries'[q][j].seq
      BY <3>1, <2>4, <2>5
    <3>3. m # 1
      <4> SUFFICES ASSUME m = 1 PROVE FALSE
        OBVIOUS
      <4>1. q = p /\ entries'[q][j].seq = n
        BY <3>2, <1>3, <1>4
      <4> QED BY <4>1, <2>3, <1>14
    <3>4. m - 1 \in 1 .. k - 1 /\ m - 1 \in DOMAIN b /\ m - 1 + 1 = m
      BY <3>2, <3>3, <2>1, <1>10
    <3>5. b[m - 1] = batch[d][m]
      BY <3>4, <1>10
    <3> QED BY <3>2, <3>4, <3>5
  <2> QED BY <2>2, <2>4, <2>5
<1>17. BatchOf(d)'
  <2>1. CASE batch'[d] = b
    <3>1. toAck'[d] <= Len(b)
      BY <1>10, <1>11, <1>12
    <3>2. ASSUME NEW k \in 1 .. toAck'[d] PROVE b[k].ev \in sent
      <4>1. k + 1 \in 1 .. toAck[d] /\ k \in DOMAIN b
        BY <1>10, <1>11, <1>12
      <4> QED BY <4>1, <1>10, <1>11
    <3> QED BY <2>1, <3>1, <3>2, <1>15, <1>16 DEF BatchOf
  <2>2. CASE batch'[d] = <<>> /\ toAck[d] = 1
    <3>1. toAck'[d] = 0
      BY <2>2, <1>12
    <3> QED BY <2>2, <3>1 DEF BatchOf
  <2> QED BY <2>1, <2>2, <1>12
<1>18. ASSUME NEW e \in Drainer PROVE BatchOf(e)'
  <2>1. CASE e = d
    BY <2>1, <1>17
  <2>2. CASE e # d
    <3>1. BatchOf(e) /\ batch'[e] = batch[e] /\ toAck'[e] = toAck[e] /\ batch[e] \in Seq(Pending)
      BY <2>2, <1>5, <1>12, BatchesOf DEF QueueInv
    <3>2. \A k \in DOMAIN batch[e] : batch[e][k].part \in Part
      <4>1. \A k \in DOMAIN batch[e] : batch[e][k] \in Pending
        BY <3>1
      <4> QED BY <4>1 DEF Pending
    <3>3. ASSUME NEW k \in DOMAIN batch[e]
          PROVE  \A j \in DOMAIN entries'[batch[e][k].part] :
                   entries'[batch[e][k].part][j].seq < batch[e][k].seq =>
                     \E m \in 1..k - 1 : /\ batch[e][m].part = batch[e][k].part
                                          /\ batch[e][m].seq = entries'[batch[e][k].part][j].seq
      <4>1. PICK q, s : q = batch[e][k].part /\ s = batch[e][k].seq
        OBVIOUS
      <4>2. q \in Part
        BY <4>1, <3>2, <3>3
      <4>3. \A j \in DOMAIN entries[q] : entries[q][j].seq < s =>
               \E m \in 1 .. k - 1 : batch[e][m].part = q /\ batch[e][m].seq = entries[q][j].seq
        BY <4>1, <3>1, <3>3 DEF BatchOf
      <4>4. \A j \in DOMAIN entries'[q] : \E i \in DOMAIN entries[q] : entries'[q][j] = entries[q][i]
        BY <4>2, <1>14
      <4>5. \A j \in DOMAIN entries'[q] : entries'[q][j].seq < s =>
               \E m \in 1 .. k - 1 : batch[e][m].part = q /\ batch[e][m].seq = entries'[q][j].seq
        BY <4>3, <4>4
      <4> QED BY <4>1, <4>5
    <3>4. /\ \A k \in DOMAIN batch[e] : /\ batch[e][k].seq < Len(log[batch[e][k].part])
                                       /\ log[batch[e][k].part][batch[e][k].seq + 1].ev = batch[e][k].ev
          /\ toAck[e] <= Len(batch[e])
          /\ \A k \in 1..toAck[e] : batch[e][k].ev \in sent
      BY <3>1 DEF BatchOf
    <3>5. PICK c, t, l : c = batch[e] /\ t = toAck[e] /\ l = log
      OBVIOUS
    <3>6. batch'[e] = c /\ toAck'[e] = t /\ log' = l /\ sent' = sent
      BY <3>1, <3>5, <1>15
    <3>7. /\ \A k \in DOMAIN c :
               /\ c[k].seq < Len(l[c[k].part])
               /\ l[c[k].part][c[k].seq + 1].ev = c[k].ev
               /\ \A j \in DOMAIN entries'[c[k].part] :
                    entries'[c[k].part][j].seq < c[k].seq =>
                      \E m \in 1..k - 1 : /\ c[m].part = c[k].part
                                           /\ c[m].seq = entries'[c[k].part][j].seq
          /\ t <= Len(c)
          /\ \A k \in 1..t : c[k].ev \in sent
      BY <3>3, <3>4, <3>5
    <3> QED BY <3>6, <3>7, Zenon DEF BatchOf
  <2> QED BY <2>1, <2>2
<1>19. BatchRight'
  BY <1>18 DEF BatchRight, BatchOf
<1> QED BY <1>8, <1>13, <1>19 DEF QueueInv

-----------------------------------------------------------------------------
(* Crash and reopening.                                                    *)

(* No line is torn: what is read back is what was written.                 *)
LEMMA IntactOf ==
    ASSUME NEW lines \in Seq(Entry)
    PROVE  IntactPrefix(lines) = lines
<1>1. ASSUME NEW i \in DOMAIN lines PROVE lines[i] # Torn
  <2>1. lines[i] \in Entry
    OBVIOUS
  <2>2. lines[i].seq \in Nat
    BY <2>1 DEF Entry
  <2>3. Torn.seq = -1
    BY DEF Torn
  <2> QED BY <2>2, <2>3
<1> QED BY <1>1 DEF IntactPrefix

LEMMA NextAfterOf ==
    ASSUME NEW lines \in Seq(Entry), \A i \in DOMAIN lines : lines[i].seq = i - 1
    PROVE  NextAfter(lines) = Len(lines)
<1>1. Len(lines) \in Nat /\ DOMAIN lines = 1 .. Len(lines)
  OBVIOUS
<1>2. PICK seqs : seqs = {e.seq + 1 : e \in ToSet(lines)} \cup {0}
  OBVIOUS
<1>3. \A m \in seqs : m \in Nat /\ m <= Len(lines)
  <2>1. ASSUME NEW e \in ToSet(lines) PROVE e.seq + 1 \in Nat /\ e.seq + 1 <= Len(lines)
    <3>1. PICK i \in DOMAIN lines : e = lines[i]
      BY DEF ToSet
    <3> QED BY <3>1, <1>1
  <2> QED BY <2>1, <1>1, <1>2
<1>4. Len(lines) \in seqs
  <2>1. CASE Len(lines) = 0
    BY <2>1, <1>2
  <2>2. CASE Len(lines) # 0
    <3>1. Len(lines) \in DOMAIN lines
      BY <2>2, <1>1
    <3>2. lines[Len(lines)] \in ToSet(lines) /\ lines[Len(lines)].seq = Len(lines) - 1
      BY <3>1 DEF ToSet
    <3>3. lines[Len(lines)].seq + 1 = Len(lines)
      BY <3>2, <1>1
    <3>4. lines[Len(lines)].seq + 1 \in seqs
      BY <3>2, <1>2
    <3> QED BY <3>3, <3>4
  <2> QED BY <2>1, <2>2
<1>5. PICK top : top = CHOOSE n \in seqs : \A m \in seqs : m <= n
  OBVIOUS
<1>6. top \in seqs /\ \A m \in seqs : m <= top
  <2>1. \E n \in seqs : \A m \in seqs : m <= n
    BY <1>3, <1>4
  <2> QED BY <2>1, <1>5, Zenon
<1>7. top = Len(lines)
  BY <1>1, <1>3, <1>4, <1>6
<1> QED BY <1>2, <1>5, <1>7, IntactOf DEF NextAfter

LEMMA MaxSeqOf ==
    ASSUME QueueTypeOK
    PROVE  MaxSeq \in Int
<1>1. cursor["normal"] \in Int /\ cursor["grants"] \in Int
  BY DEF QueueTypeOK, Part
<1>2. \E n \in {cursor[p] : p \in Part} : \A p \in Part : cursor[p] <= n
  BY <1>1 DEF Part
<1>3. MaxSeq \in {cursor[p] : p \in Part}
  BY <1>2, Zenon DEF MaxSeq
<1> QED BY <1>1, <1>3 DEF Part

(* The entries that Open finds.                                            *)
LEMMA RecoveredOf ==
    ASSUME NEW lines \in Seq(Entry), NEW at \in Int, -1 <= at, at < Len(lines),
           \A i \in DOMAIN lines : lines[i].seq = i - 1
    PROVE  /\ Recovered(lines, at) \in Seq(Entry)
           /\ Len(Recovered(lines, at)) = Len(lines) - (at + 1)
           /\ \A j \in 1 .. Len(lines) - (at + 1) :
                Recovered(lines, at)[j] = lines[at + 1 + j] /\ Recovered(lines, at)[j].seq = at + j
           /\ \A i \in DOMAIN lines : lines[i].seq > at => \E j \in DOMAIN Recovered(lines, at) : Recovered(lines, at)[j] = lines[i]
<1>1. PICK r, N : r = Recovered(lines, at) /\ N = Len(lines)
  OBVIOUS
<1>2. r = Replayed(lines, at)
  BY <1>1, IntactOf DEF Recovered
<1>3. N \in Nat /\ DOMAIN lines = 1 .. N
  BY <1>1
<1>4. r \in Seq(Entry) /\ Len(r) = N - (at + 1) /\ \A j \in 1 .. N - (at + 1) : r[j] = lines[at + 1 + j]
  BY <1>1, <1>2, ReplayedOf
<1>5. ASSUME NEW j \in 1 .. N - (at + 1) PROVE r[j].seq = at + j
  <2>1. PICK i : i = at + 1 + j
    OBVIOUS
  <2>2. i \in 1 .. N /\ i - 1 = at + j
    BY <2>1, <1>1, <1>3
  <2>3. lines[i].seq = i - 1
    BY <2>2, <1>3
  <2> QED BY <2>1, <2>2, <2>3, <1>4
<1>6. ASSUME NEW i \in DOMAIN lines, lines[i].seq > at PROVE \E j \in DOMAIN r : r[j] = lines[i]
  <2>1. PICK j : j = i - (1 + at)
    OBVIOUS
  <2>2. i \in 1 .. N /\ i - 1 > at
    BY <1>3, <1>6
  <2>3. j \in 1 .. N - (at + 1) /\ at + 1 + j = i
    <3>1. i \in Int /\ N \in Int /\ at \in Int /\ i <= N /\ i - 1 > at
      BY <2>2, <1>3
    <3>2. i - (1 + at) \in Int /\ i - (1 + at) >= 1 /\ i - (1 + at) <= N - (at + 1) /\ at + 1 + (i - (1 + at)) = i
      BY <3>1
    <3>3. j \in Int /\ j >= 1 /\ j <= N - (at + 1) /\ at + 1 + j = i
      BY <2>1, <3>2
    <3> QED BY <3>1, <3>3
  <2>4. j \in DOMAIN r
    BY <2>3, <1>4
  <2> QED BY <2>3, <2>4, <1>4
<1> QED BY <1>1, <1>4, <1>5, <1>6

LEMMA CrashStep ==
    ASSUME QueueInv, Crash
    PROVE  QueueInv'
<1>0. /\ QueueTypeOK /\ LogRight /\ RecordedRight /\ EntriesRight
      /\ cursor \in [Part -> Nat \cup {-1}] /\ log \in [Part -> Seq(Entry \cup {Torn})]
      /\ fresh \subseteq Event /\ nextSeq \in [Part -> Nat] /\ deliv \in [Part -> Nat \cup {-1}]
      /\ crashes \in Nat
  BY DEF QueueInv, QueueTypeOK
<1>a. PICK left \in [Part -> {<<>>} \cup {<<ev>> : ev \in fresh}], at \in [Part -> -1..MaxSeq] :
      LET ln == [p \in Part |-> log[p] \o [i \in DOMAIN left[p] |-> NewLine(p, left[p][i])]]
      IN  /\ \A p \in Part : at[p] <= cursor[p]
          /\ fresh' = fresh \ UNION {ToSet(left[p]) : p \in Part}
          /\ cursor' = at /\ deliv' = at
          /\ log' = [p \in Part |-> IntactPrefix(ln[p])]
          /\ entries' = [p \in Part |-> Recovered(ln[p], at[p])]
          /\ nextSeq' = [p \in Part |-> NextAfter(ln[p])]
  BY DEF Crash
<1>1. PICK lines :
        /\ lines = [p \in Part |-> log[p] \o [i \in DOMAIN left[p] |-> NewLine(p, left[p][i])]]
        /\ \A p \in Part : at[p] <= cursor[p]
        /\ fresh' = fresh \ UNION {ToSet(left[p]) : p \in Part}
        /\ cursor' = at /\ deliv' = at
        /\ log' = [p \in Part |-> IntactPrefix(lines[p])]
        /\ entries' = [p \in Part |-> Recovered(lines[p], at[p])]
        /\ nextSeq' = [p \in Part |-> NextAfter(lines[p])]
  BY <1>a
<1>2. /\ batch' = [d \in Drainer |-> <<>>] /\ toAck' = [d \in Drainer |-> 0] /\ crashes' = crashes + 1
      /\ UNCHANGED <<overflow, recorded, dropped, sent>>
  BY DEF Crash
<1>3. ASSUME NEW p \in Part
      PROVE  /\ lines[p] \in Seq(Entry) /\ Len(lines[p]) >= Len(log[p])
             /\ \A i \in DOMAIN lines[p] : lines[p][i].seq = i - 1 /\ lines[p][i].ev \notin fresh'
             /\ \A i \in DOMAIN log[p] : i \in DOMAIN lines[p] /\ lines[p][i] = log[p][i]
             /\ \A i \in DOMAIN lines[p] : i \in DOMAIN log[p] \/ i = Len(log[p]) + 1
  <2>1. PICK l : l = log[p]
    OBVIOUS
  <2>2. /\ l \in Seq(Entry) /\ nextSeq[p] = Len(l) /\ Len(l) \in Nat /\ DOMAIN l = 1 .. Len(l)
        /\ \A i \in DOMAIN l : l[i].seq = i - 1 /\ l[i].ev \notin fresh
    BY <1>0, <2>1 DEF LogRight
  <2>3. fresh' \subseteq fresh
    BY <1>1
  <2>4. lines[p] = l \o [i \in DOMAIN left[p] |-> NewLine(p, left[p][i])]
    BY <1>1, <2>1
  <2>5. left[p] = <<>> \/ \E ev \in fresh : left[p] = <<ev>>
    BY <1>1
  <2>6. CASE left[p] = <<>>
    <3>1. [i \in DOMAIN left[p] |-> NewLine(p, left[p][i])] = <<>>
      BY <2>6
    <3>2. lines[p] = l
      BY <3>1, <2>2, <2>4, ConcatEmptySeq
    <3> QED BY <3>2, <2>1, <2>2, <2>3
  <2>7. CASE \E ev \in fresh : left[p] = <<ev>>
    <3>1. PICK ev \in fresh : left[p] = <<ev>>
      BY <2>7
    <3>2. PICK e : e = NewLine(p, ev)
      OBVIOUS
    <3>3. e \in Entry /\ e.seq = Len(l) /\ e.ev = ev
      BY <3>2, <2>2, <1>0 DEF NewLine, Entry
    <3>4. [i \in DOMAIN left[p] |-> NewLine(p, left[p][i])] = <<e>>
      <4>1. DOMAIN left[p] = 1 .. 1 /\ left[p][1] = ev
        BY <3>1
      <4>2. [i \in DOMAIN left[p] |-> NewLine(p, left[p][i])] = [i \in 1 .. 1 |-> e]
        BY <4>1, <3>2
      <4> QED BY <4>2
    <3>5. lines[p] = Append(l, e)
      <4>1. l \o <<e>> = Append(l, e)
        BY <2>2, <3>3
      <4> QED BY <4>1, <3>4, <2>4
    <3>6. ev \notin fresh'
      <4>1. ev \in ToSet(left[p])
        BY <3>1 DEF ToSet
      <4> QED BY <4>1, <1>1
    <3>7. PICK ln : ln = lines[p]
      OBVIOUS
    <3>8. /\ ln \in Seq(Entry) /\ Len(ln) = Len(l) + 1 /\ DOMAIN ln = 1 .. Len(l) + 1
          /\ \A i \in 1 .. Len(l) : ln[i] = l[i]
          /\ ln[Len(l) + 1] = e
      BY <3>3, <3>5, <3>7, <2>2
    <3>9. \A i \in 1 .. Len(l) + 1 : i \in 1 .. Len(l) \/ i = Len(l) + 1
      BY <2>2
    <3>10. \A i \in DOMAIN ln : ln[i].seq = i - 1 /\ ln[i].ev \notin fresh'
      <4>1. \A i \in 1 .. Len(l) : ln[i].seq = i - 1 /\ ln[i].ev \notin fresh'
        BY <3>8, <2>2, <2>3
      <4>2. ln[Len(l) + 1].seq = Len(l) + 1 - 1 /\ ln[Len(l) + 1].ev \notin fresh'
        BY <3>3, <3>6, <3>8, <2>2
      <4> QED BY <4>1, <4>2, <3>8, <3>9
    <3>11. Len(ln) >= Len(l) /\ \A i \in 1 .. Len(l) : i \in DOMAIN ln
      BY <3>8, <2>2
    <3> QED BY <3>7, <3>8, <3>9, <3>10, <3>11, <2>1, <2>2
  <2> QED BY <2>5, <2>6, <2>7
<1>4. ASSUME NEW p \in Part
      PROVE  /\ at[p] \in Nat \cup {-1} /\ at[p] <= cursor[p] /\ at[p] <= deliv[p]
             /\ at[p] < Len(log[p]) /\ at[p] < Len(lines[p])
  <2>1. at[p] \in -1 .. MaxSeq /\ MaxSeq \in Int
    BY <1>0, <1>1, MaxSeqOf
  <2>2. at[p] \in Nat \cup {-1}
    BY <2>1
  <2>3. cursor[p] <= deliv[p] /\ deliv[p] < Len(log[p]) /\ Len(log[p]) \in Nat /\ Len(lines[p]) \in Nat
    BY <1>0, <1>3 DEF LogRight
  <2>4. at[p] <= cursor[p] /\ cursor[p] \in Int /\ deliv[p] \in Int
    BY <1>0, <1>1
  <2> QED BY <2>2, <2>3, <2>4, <1>3
<1>5. ASSUME NEW p \in Part
      PROVE  /\ log'[p] = lines[p] /\ nextSeq'[p] = Len(lines[p])
             /\ cursor'[p] = at[p] /\ deliv'[p] = at[p]
             /\ entries'[p] = Recovered(lines[p], at[p])
  BY <1>1, <1>3, IntactOf, NextAfterOf
<1>6. ASSUME NEW p \in Part
      PROVE  /\ entries'[p] \in Seq(Entry) /\ DOMAIN entries'[p] = 1 .. Len(lines[p]) - (at[p] + 1)
             /\ \A j \in DOMAIN entries'[p] : entries'[p][j] = lines[p][at[p] + 1 + j] /\ entries'[p][j].seq = at[p] + j
             /\ \A i \in DOMAIN lines[p] : lines[p][i].seq > at[p] => \E j \in DOMAIN entries'[p] : entries'[p][j] = lines[p][i]
  <2>1. PICK l, c, r : l = lines[p] /\ c = at[p] /\ r = Recovered(lines[p], at[p])
    OBVIOUS
  <2>2. l \in Seq(Entry) /\ c \in Int /\ -1 <= c /\ c < Len(l) /\ \A i \in DOMAIN l : l[i].seq = i - 1
    BY <2>1, <1>3, <1>4
  <2>3. /\ r \in Seq(Entry) /\ Len(r) = Len(l) - (c + 1)
        /\ \A j \in 1 .. Len(l) - (c + 1) : r[j] = l[c + 1 + j] /\ r[j].seq = c + j
        /\ \A i \in DOMAIN l : l[i].seq > c => \E j \in DOMAIN r : r[j] = l[i]
    BY <2>1, <2>2, RecoveredOf
  <2>4. DOMAIN r = 1 .. Len(l) - (c + 1)
    BY <2>3
  <2>5. entries'[p] = r
    BY <2>1, <1>5
  <2>6. /\ entries'[p] \in Seq(Entry) /\ DOMAIN entries'[p] = 1 .. Len(l) - (c + 1)
        /\ \A j \in DOMAIN entries'[p] : entries'[p][j] = l[c + 1 + j] /\ entries'[p][j].seq = c + j
        /\ \A i \in DOMAIN l : l[i].seq > c => \E j \in DOMAIN entries'[p] : entries'[p][j] = l[i]
    BY <2>3, <2>4, <2>5, Zenon
  <2>7. l = lines[p] /\ c = at[p]
    BY <2>1
  <2> QED BY <2>6, <2>7, Zenon
<1>7. QueueTypeOK'
  <2>1. entries' \in [Part -> Seq(Entry)] /\ deliv' \in [Part -> Nat \cup {-1}] /\ cursor' \in [Part -> Nat \cup {-1}]
    <3>1. DOMAIN entries' = Part /\ DOMAIN deliv' = Part /\ DOMAIN cursor' = Part
      BY <1>1
    <3>2. entries' = [p \in Part |-> entries'[p]] /\ deliv' = [p \in Part |-> at[p]] /\ cursor' = [p \in Part |-> at[p]]
      BY <1>1
    <3> QED BY <3>2, <1>4, <1>6
  <2>2. nextSeq' \in [Part -> Nat] /\ log' \in [Part -> Seq(Entry \cup {Torn})]
    <3>1. nextSeq' = [p \in Part |-> nextSeq'[p]] /\ log' = [p \in Part |-> log'[p]]
      BY <1>1
    <3>2. ASSUME NEW p \in Part PROVE nextSeq'[p] \in Nat
      BY <1>3, <1>5
    <3>3. ASSUME NEW p \in Part PROVE log'[p] \in Seq(Entry \cup {Torn})
      BY <1>3, <1>5
    <3> QED BY <3>1, <3>2, <3>3
  <2>3. batch' \in [Drainer -> Seq(Pending)] /\ toAck' \in [Drainer -> Nat] /\ crashes' \in Nat
    BY <1>0, <1>2
  <2>4. fresh' \subseteq Event
    BY <1>0, <1>1
  <2> QED BY <2>1, <2>2, <2>3, <2>4, <1>0, <1>2 DEF QueueTypeOK
<1>8. LogRight'
  <2>1. ASSUME NEW p \in Part
        PROVE  /\ log'[p] \in Seq(Entry) /\ nextSeq'[p] = Len(log'[p])
               /\ \A i \in DOMAIN log'[p] : log'[p][i].seq = i - 1 /\ log'[p][i].ev \notin fresh'
               /\ cursor'[p] <= deliv'[p] /\ deliv'[p] < Len(log'[p])
    <3>1. at[p] <= at[p]
      BY <1>4
    <3> QED BY <3>1, <1>3, <1>4, <1>5
  <2> QED BY <2>1 DEF LogRight
<1>9. EntriesRight'
  <2>1. ASSUME NEW p \in Part, NEW k \in DOMAIN entries'[p]
        PROVE  /\ entries'[p][k].seq > deliv'[p] /\ entries'[p][k].seq < Len(log'[p])
               /\ entries'[p][k] = log'[p][entries'[p][k].seq + 1]
    <3>1. PICK c, N : c = at[p] /\ N = Len(lines[p])
      OBVIOUS
    <3>2. c \in Nat \cup {-1} /\ N \in Nat /\ k \in 1 .. N - (c + 1)
      <4>1. c \in Nat \cup {-1} /\ lines[p] \in Seq(Entry)
        BY <3>1, <1>3, <1>4
      <4>2. DOMAIN entries'[p] = 1 .. N - (c + 1)
        BY <3>1, <1>6
      <4> QED BY <3>1, <4>1, <4>2
    <3>3. entries'[p][k].seq = c + k /\ entries'[p][k] = lines[p][c + 1 + k]
      BY <3>1, <2>1, <1>6
    <3>4. c + k > c /\ c + k < N /\ c + k + 1 = c + 1 + k
      BY <3>2
    <3> QED BY <3>1, <3>3, <3>4, <1>5
  <2>2. ASSUME NEW p \in Part, NEW j \in DOMAIN entries'[p], NEW k \in DOMAIN entries'[p], j < k
        PROVE  entries'[p][j].seq < entries'[p][k].seq
    <3>1. PICK c, N : c = at[p] /\ N = Len(lines[p])
      OBVIOUS
    <3>2. c \in Nat \cup {-1} /\ N \in Nat /\ k \in 1 .. N - (c + 1) /\ j \in 1 .. N - (c + 1)
      <4>1. c \in Nat \cup {-1} /\ lines[p] \in Seq(Entry)
        BY <3>1, <1>3, <1>4
      <4>2. DOMAIN entries'[p] = 1 .. N - (c + 1)
        BY <3>1, <1>6
      <4> QED BY <3>1, <4>1, <4>2
    <3>3. entries'[p][k].seq = c + k /\ entries'[p][j].seq = c + j
      BY <3>1, <2>2, <1>6
    <3>4. c + j < c + k
      BY <3>2, <2>2
    <3> QED BY <3>3, <3>4
  <2> QED BY <2>1, <2>2 DEF EntriesRight
<1>10. RecordedRight'
  <2>1. ASSUME NEW ev \in recorded', ev \notin overflow'
        PROVE  \E p \in Part : \E i \in DOMAIN log'[p] : log'[p][i].ev = ev
    <3>1. PICK p \in Part : \E i \in DOMAIN log[p] : log[p][i].ev = ev
      BY <2>1, <1>0, <1>2 DEF RecordedRight
    <3>2. PICK i \in DOMAIN log[p] : log[p][i].ev = ev
      BY <3>1
    <3> QED BY <3>2, <1>3, <1>5
  <2>2. ASSUME NEW p \in Part, NEW i \in DOMAIN log'[p], log'[p][i].ev \in recorded' \ (sent' \cup dropped')
        PROVE  \E k \in DOMAIN entries'[p] : entries'[p][k] = log'[p][i]
    <3>0. i \in DOMAIN lines[p] /\ log'[p][i] = lines[p][i] /\ lines[p][i].seq = i - 1
      BY <2>2, <1>3, <1>5
    <3>1. CASE lines[p][i].seq > at[p]
      BY <3>0, <3>1, <1>6
    <3>2. CASE i \in DOMAIN log[p] /\ ~(lines[p][i].seq > at[p])
      <4>1. log[p][i] = lines[p][i] /\ log[p][i].ev \in recorded \ (sent \cup dropped)
        BY <3>0, <3>2, <2>2, <1>2, <1>3
      <4>2. PICK k \in DOMAIN entries[p] : entries[p][k] = log[p][i]
        BY <4>1, <3>2, <1>0 DEF RecordedRight
      <4>3. lines[p][i].seq > deliv[p]
        BY <4>1, <4>2, <1>0 DEF EntriesRight
      <4>4. lines[p][i].seq \in Nat /\ deliv[p] \in Int /\ at[p] \in Int /\ at[p] <= deliv[p]
        <5>1. lines[p][i] \in Entry
          BY <3>0, <1>3
        <5> QED BY <5>1, <1>0, <1>4 DEF Entry
      <4> QED BY <4>3, <4>4, <3>2
    <3>3. CASE i = Len(log[p]) + 1
      <4>1. Len(log[p]) \in Nat /\ at[p] \in Int /\ at[p] < Len(log[p])
        BY <1>0, <1>4 DEF LogRight
      <4>2. lines[p][i].seq > at[p]
        BY <4>1, <3>0, <3>3
      <4> QED BY <4>2, <3>1
    <3> QED BY <3>0, <3>1, <3>2, <3>3, <1>3
  <2> QED BY <2>1, <2>2 DEF RecordedRight
<1>11. BatchRight'
  BY <1>2 DEF BatchRight
<1> QED BY <1>7, <1>8, <1>9, <1>10, <1>11 DEF QueueInv

-----------------------------------------------------------------------------
(* The theorems.                                                           *)

LEMMA NextQueue ==
    ASSUME ~HalfWrites, QueueInv, [QueueNext]_queueVars
    PROVE  QueueInv'
<1>1. ASSUME NEW ev \in Event, RecordNormal(ev) PROVE QueueInv'
  BY <1>1, RecordNormalStep
<1>2. ASSUME NEW ev \in Event, RecordGrant(ev) PROVE QueueInv'
  BY <1>2, RecordGrantStep
<1>3. ASSUME NEW d \in Drainer, Drain(d) PROVE QueueInv'
  BY <1>3, DrainStep
<1>4. ASSUME NEW d \in Drainer, WriteOut(d) PROVE QueueInv'
  BY <1>4, WriteOutStep
<1>5. ASSUME NEW d \in Drainer, GiveUp(d) PROVE QueueInv'
  BY <1>5, GiveUpStep
<1>6. ASSUME NEW d \in Drainer, AckWritten(d) PROVE QueueInv'
  BY <1>6, AckWrittenStep
<1>7. CASE Crash
  BY <1>7, CrashStep
<1>8. CASE UNCHANGED queueVars
  <2>1. UNCHANGED <<entries, nextSeq, deliv, log, cursor, overflow, batch, toAck, fresh, recorded, dropped>>
        /\ sent' = sent /\ crashes' = crashes
    BY <1>8 DEF queueVars, memoryVars, drainVars, historyVars
  <2>2. sent \subseteq sent' /\ sent' \subseteq Event /\ crashes' \in Nat
    BY <2>1 DEF QueueInv, QueueTypeOK
  <2> QED BY <2>1, <2>2, NothingChanges
<1> QED BY <1>1, <1>2, <1>3, <1>4, <1>5, <1>6, <1>7, <1>8 DEF QueueNext

(* An undelivered entry would be found by the next Open.                   *)
LEMMA StillOnFile ==
    ASSUME QueueInv, NEW p \in Part, NEW k \in DOMAIN entries[p]
    PROVE  entries[p][k].ev \in Events(Recovered(log[p], cursor[p]))
<1>1. /\ log[p] \in Seq(Entry) /\ cursor[p] \in Nat \cup {-1} /\ deliv[p] \in Int
      /\ cursor[p] <= deliv[p] /\ deliv[p] < Len(log[p])
      /\ \A i \in DOMAIN log[p] : log[p][i].seq = i - 1
  BY DEF QueueInv, QueueTypeOK, LogRight
<1>2. /\ entries[p][k].seq > deliv[p] /\ entries[p][k].seq < Len(log[p])
      /\ entries[p][k] = log[p][entries[p][k].seq + 1]
  BY DEF QueueInv, EntriesRight
<1>3. entries[p][k].seq \in Nat
  <2>1. entries[p] \in Seq(Entry)
    BY DEF QueueInv, QueueTypeOK
  <2>2. entries[p][k] \in Entry
    BY <2>1
  <2> QED BY <2>2 DEF Entry
<1>4. PICK i : i = entries[p][k].seq + 1
  OBVIOUS
<1>5. i \in DOMAIN log[p] /\ log[p][i] = entries[p][k] /\ log[p][i].seq > cursor[p]
  BY <1>1, <1>2, <1>3, <1>4
<1>6. \E j \in DOMAIN Recovered(log[p], cursor[p]) : Recovered(log[p], cursor[p])[j] = log[p][i]
  <2>1. cursor[p] \in Int /\ -1 <= cursor[p] /\ cursor[p] < Len(log[p])
    BY <1>1
  <2> QED BY <2>1, <1>1, <1>5, RecoveredOf
<1> QED BY <1>5, <1>6 DEF Events

LEMMA KeptUntilSent == QueueInv => NothingLost
<1> SUFFICES ASSUME QueueInv PROVE NothingLost
  OBVIOUS
<1>1. ASSUME NEW ev \in recorded \ (sent \cup dropped), ev \notin overflow
      PROVE  \E p \in Part : \E k \in DOMAIN entries[p] : entries[p][k].ev = ev
  <2>1. PICK p \in Part : \E i \in DOMAIN log[p] : log[p][i].ev = ev
    BY <1>1 DEF QueueInv, RecordedRight
  <2>2. PICK i \in DOMAIN log[p] : log[p][i].ev = ev
    BY <2>1
  <2>3. PICK k \in DOMAIN entries[p] : entries[p][k] = log[p][i]
    BY <2>2, <1>1 DEF QueueInv, RecordedRight
  <2> QED BY <2>2, <2>3
<1>2. ASSUME NEW ev \in recorded \ (sent \cup dropped)
      PROVE  ev \in Durable /\ ev \in overflow \cup UNION {Events(entries[p]) : p \in Part}
  <2>1. CASE ev \in overflow
    BY <2>1 DEF Durable
  <2>2. CASE ev \notin overflow
    <3>1. PICK p \in Part : \E k \in DOMAIN entries[p] : entries[p][k].ev = ev
      BY <2>2, <1>1
    <3>2. ev \in Events(Recovered(log[p], cursor[p]))
      BY <3>1, StillOnFile
    <3>3. ev \in Events(entries[p])
      BY <3>1 DEF Events
    <3> QED BY <3>2, <3>3 DEF Durable
  <2> QED BY <2>1, <2>2
<1>3. ASSUME NEW p \in Part, NEW i \in DOMAIN IntactPrefix(log[p]),
             log[p][i].seq <= cursor[p], log[p][i].ev \in recorded, log[p][i].ev \notin sent \cup dropped
      PROVE  FALSE
  <2>1. log[p] \in Seq(Entry) /\ cursor[p] <= deliv[p] /\ cursor[p] \in Int /\ deliv[p] \in Int
    BY DEF QueueInv, QueueTypeOK, LogRight
  <2>2. i \in DOMAIN log[p]
    BY <2>1, <1>3, IntactOf
  <2>3. PICK k \in DOMAIN entries[p] : entries[p][k] = log[p][i]
    BY <2>2, <1>3 DEF QueueInv, RecordedRight
  <2>4. log[p][i].seq > deliv[p]
    BY <2>3 DEF QueueInv, EntriesRight
  <2>5. log[p][i].seq \in Nat
    <3>1. log[p][i] \in Entry
      BY <2>1, <2>2
    <3> QED BY <3>1 DEF Entry
  <2> QED BY <2>1, <2>4, <2>5, <1>3
<1>4. QueueTypeOK
  BY DEF QueueInv
<1> QED BY <1>2, <1>3, <1>4 DEF NothingLost

LEMMA GrantsOnFile == QueueInv => GrantsNeverDropped
<1> SUFFICES ASSUME QueueInv PROVE GrantsNeverDropped
  OBVIOUS
<1>1. "grants" \in Part
  BY DEF Part
<1> QED BY <1>1, StillOnFile DEF GrantsNeverDropped, Events

(* What events.Queue promises, for any number of events, of drainers that  *)
(* interleave and of deaths of the process, whatever the capacities and    *)
(* whether or not the cursor file could be written: an event that was      *)
(* recorded is written to a transport, or made room in the full ring, or   *)
(* is in memory and in what the next Open finds.  An append that fails may *)
(* not leave its line, or a part of it: with that, the promise is broken.  *)
THEOREM NothingIsLost == ~HalfWrites /\ QueueSpec => []NothingLost
<1> SUFFICES ASSUME ~HalfWrites PROVE QueueSpec => []NothingLost
  OBVIOUS
<1>1. QueueInit => QueueInv
  BY InitQueue
<1>2. QueueInv /\ [QueueNext]_queueVars => QueueInv'
  BY NextQueue
<1>3. QueueInv => NothingLost
  BY KeptUntilSent
<1> QED BY <1>1, <1>2, <1>3, PTL DEF QueueSpec

(* "grant_redeemed events are NEVER dropped before delivery" of the doc    *)
(* comment of events.Queue, under the same assumption; the run             *)
(* queue_torn shows that it fails without it.                              *)
THEOREM GrantsAreKept == ~HalfWrites /\ QueueSpec => []GrantsNeverDropped
<1> SUFFICES ASSUME ~HalfWrites PROVE QueueSpec => []GrantsNeverDropped
  OBVIOUS
<1>1. QueueInit => QueueInv
  BY InitQueue
<1>2. QueueInv /\ [QueueNext]_queueVars => QueueInv'
  BY NextQueue
<1>3. QueueInv => GrantsNeverDropped
  BY GrantsOnFile
<1> QED BY <1>1, <1>2, <1>3, PTL DEF QueueSpec

=============================================================================
