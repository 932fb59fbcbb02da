----------------------------- MODULE DataProofs -----------------------------
(***************************************************************************)
(* Facts about data that the proofs about the engine and the adapter use.  *)
(*                                                                         *)
(* Of lists: what appending to and unlinking from an increasing list of    *)
(* pointers does, what a fold that adds a weight for each position         *)
(* computes, and what laying sequences one after the other returns.        *)
(*                                                                         *)
(* Of the translation: toEngineSpans visits the spans of a delivery in     *)
(* their order, and puts those that fit under the cap into the snapshot of *)
(* their trace, which its first span carries (Conversion).                 *)
(***************************************************************************)
EXTENDS PointerLists, SpanTranslation, SequenceTheorems, FiniteSetTheorems, TLAPS

\* u is s without the element at position k, the gap closed.
Without(u, s, k, n) ==
  \A i \in 1..(n - 1) : u[i] = IF i < k THEN s[i] ELSE s[i + 1]

\* Closing a gap keeps the order and loses exactly the element that was there.
LEMMA WithoutProperties ==
  ASSUME NEW n \in Nat, NEW s \in [1..n -> Nat], NEW k \in 1..n,
         NEW u \in [1..(n - 1) -> Nat], Without(u, s, k, n), Increasing(s)
  PROVE  /\ Increasing(u)
         /\ Range(u) = Range(s) \ {s[k]}
<1>1. \A i, j \in 1..n : i < j => s[i] < s[j]
  BY DEF Increasing
<1>2. ASSUME NEW i \in 1..(n - 1), NEW j \in 1..(n - 1), i < j
      PROVE  u[i] < u[j]
  <2> DEFINE p == IF i < k THEN i ELSE i + 1
             q == IF j < k THEN j ELSE j + 1
  <2>1. p \in 1..n /\ q \in 1..n /\ p < q
    BY <1>2
  <2>2. u[i] = s[p] /\ u[j] = s[q]
    BY DEF Without
  <2> HIDE DEF p, q
  <2> QED
    BY <1>1, <2>1, <2>2
<1>3. Increasing(u)
  BY <1>2 DEF Increasing
<1>4. \A j \in 1..n : j # k => s[j] # s[k]
  BY <1>1
<1>5. \A i \in 1..(n - 1) : \E j \in 1..n : j # k /\ u[i] = s[j]
  BY DEF Without
<1>6. \A j \in 1..n : j < k => \E i \in 1..(n - 1) : u[i] = s[j]
  BY DEF Without
<1>7. \A j \in 1..n : j > k => j - 1 \in 1..(n - 1) /\ u[j - 1] = s[j]
  BY DEF Without
<1>8. \A j \in 1..n : j # k => \E i \in 1..(n - 1) : u[i] = s[j]
  BY <1>6, <1>7
<1>9. Range(s) = {s[j] : j \in 1..n} /\ Range(u) = {u[i] : i \in 1..(n - 1)}
  BY DEF Range
<1>10. Range(u) \subseteq Range(s) \ {s[k]}
  BY <1>4, <1>5, <1>9
<1>11. Range(s) \ {s[k]} \subseteq Range(u)
  BY <1>8, <1>9
<1> QED
  BY <1>3, <1>10, <1>11

\* The second part of a concatenation starts where the first one ends.
LEMMA ConcatAt ==
  ASSUME NEW lo \in Seq(Nat), NEW hi \in Seq(Nat), NEW n \in Nat, NEW k \in Nat,
         k <= n, Len(lo) = k - 1, Len(hi) = n - k
  PROVE  /\ lo \o hi \in Seq(Nat) /\ Len(lo \o hi) = n - 1
         /\ \A i \in 1..(n - 1) :
              (lo \o hi)[i] = IF i < k THEN lo[i] ELSE hi[i - (k - 1)]
<1>1. lo \o hi \in Seq(Nat) /\ Len(lo \o hi) = n - 1
  <2>1. lo \o hi \in Seq(Nat) /\ Len(lo \o hi) = Len(lo) + Len(hi)
    BY ConcatProperties, Zenon
  <2>2. Len(lo) + Len(hi) = n - 1
    OBVIOUS
  <2> QED
    BY <2>1, <2>2, Zenon
<1>2. ASSUME NEW i \in 1..(n - 1)
      PROVE  (lo \o hi)[i] = IF i < k THEN lo[i] ELSE hi[i - (k - 1)]
  <2>1. i \in 1..(Len(lo) + Len(hi))
    OBVIOUS
  <2>2. (lo \o hi)[i] = IF i <= Len(lo) THEN lo[i] ELSE hi[i - Len(lo)]
    BY <2>1, ConcatProperties, Zenon
  <2>3. i <= Len(lo) <=> i < k
    OBVIOUS
  <2> QED
    BY <2>2, <2>3
<1> QED
  BY <1>1, <1>2

\* RemoveAt on sequences is Without on the functions they are.
LEMMA RemoveAtWithout ==
  ASSUME NEW n \in Nat, NEW s \in Seq(Nat), Len(s) = n, NEW k \in 1..n
  PROVE  /\ RemoveAt(s, k) \in Seq(Nat)
         /\ Len(RemoveAt(s, k)) = n - 1
         /\ Without(RemoveAt(s, k), s, k, n)
<1> DEFINE lo == SubSeq(s, 1, k - 1)
           hi == SubSeq(s, k + 1, n)
<1>1. /\ lo \in Seq(Nat) /\ Len(lo) = k - 1
      /\ \A i \in 1..(k - 1) : lo[i] = s[i]
  OBVIOUS
<1>2. /\ hi \in Seq(Nat) /\ Len(hi) = n - k
      /\ \A i \in 1..(n - k) : hi[i] = s[k + i]
  OBVIOUS
<1>3. RemoveAt(s, k) = lo \o hi
  BY DEF RemoveAt
<1> HIDE DEF lo, hi
<1>4. /\ lo \o hi \in Seq(Nat) /\ Len(lo \o hi) = n - 1
      /\ \A i \in 1..(n - 1) :
           (lo \o hi)[i] = IF i < k THEN lo[i] ELSE hi[i - (k - 1)]
  <2>1. k \in Nat /\ k <= n
    OBVIOUS
  <2>2. lo \in Seq(Nat) /\ hi \in Seq(Nat) /\ Len(lo) = k - 1 /\ Len(hi) = n - k
    BY <1>1, <1>2
  <2> QED
    BY <2>1, <2>2, ConcatAt, SMTT(60)
<1>5. ASSUME NEW i \in 1..(n - 1), ~(i < k)
      PROVE  hi[i - (k - 1)] = s[i + 1]
  <2>1. i - (k - 1) \in 1..(n - k) /\ k + (i - (k - 1)) = i + 1
    BY <1>5
  <2> QED
    BY <1>2, <2>1
<1>6. \A i \in 1..(n - 1) : i < k => lo[i] = s[i]
  BY <1>1
<1> QED
  BY <1>3, <1>4, <1>5, <1>6 DEF Without

\* Unlinking the element at a position of an increasing list closes the gap.
LEMMA UnlinkAt ==
  ASSUME NEW S \in SUBSET Nat, NEW s \in Seq(S), Increasing(s), NEW k \in 1..Len(s)
  PROVE  /\ s \in [1..Len(s) -> Nat] /\ Len(s) \in Nat
         /\ Unlink(s, s[k]) \in Seq(Nat) /\ Len(Unlink(s, s[k])) = Len(s) - 1
         /\ Without(Unlink(s, s[k]), s, k, Len(s))
<1> DEFINE r == s[k]
<1>1. s \in Seq(Nat)
  BY SeqMonotonic
<1>2. \E i \in 1..Len(s) : s[i] = r
  OBVIOUS
<1>3. Unlink(s, r) = RemoveAt(s, k)
  <2> DEFINE I == {i \in 1..Len(s) : s[i] = r}
  <2>1. I = {k}
    BY <1>1 DEF Increasing
  <2>2. SelectInSeq(s, LAMBDA v : v = r) = k
    <3>1. k \in Nat
      BY <1>1
    <3>2. Min({k}) = k
      BY <3>1 DEF Min
    <3> QED
      BY <2>1, <3>2 DEF SelectInSeq
  <2>3. Unlink(s, r) = RemoveAt(s, SelectInSeq(s, LAMBDA v : v = r))
    BY <1>2, Zenon DEF Unlink, RemoveFirst
  <2> QED
    BY <2>2, <2>3, Zenon
<1>4. Len(s) \in Nat /\ k \in 1..Len(s) /\ s \in [1..Len(s) -> Nat]
  BY <1>1, LenProperties
<1>5. RemoveAt(s, k) \in Seq(Nat) /\ Len(RemoveAt(s, k)) = Len(s) - 1
      /\ Without(RemoveAt(s, k), s, k, Len(s))
  BY <1>1, <1>4, RemoveAtWithout
<1> QED
  BY <1>3, <1>4, <1>5

\* Without its element r an increasing list is increasing, holds the same other
\* elements and is one shorter; a list that does not hold r is left alone.
LEMMA UnlinkProperties ==
  ASSUME NEW S \in SUBSET Nat, NEW s \in Seq(S), Increasing(s), NEW r
  PROVE  /\ Unlink(s, r) \in Seq(S)
         /\ Increasing(Unlink(s, r))
         /\ Range(Unlink(s, r)) = Range(s) \ {r}
         /\ Len(Unlink(s, r)) = IF r \in Range(s) THEN Len(s) - 1 ELSE Len(s)
<1>1. CASE r \notin Range(s)
  <2>1. ~\E i \in 1..Len(s) : s[i] = r
    BY <1>1 DEF Range
  <2>2. Unlink(s, r) = s
    BY <2>1 DEF Unlink, RemoveFirst
  <2> QED
    BY <1>1, <2>2
<1>2. CASE r \in Range(s)
  <2>1. PICK k \in 1..Len(s) : s[k] = r
    BY <1>2 DEF Range
  <2> DEFINE n == Len(s)
             u == Unlink(s, r)
  <2>2. /\ n \in Nat /\ k \in 1..n /\ s \in [1..n -> Nat]
        /\ u \in Seq(Nat) /\ Len(u) = n - 1 /\ Without(u, s, k, n)
    BY <2>1, UnlinkAt
  <2> HIDE DEF n, u
  <2>3. u \in [1..(n - 1) -> Nat]
    BY <2>2, LenProperties
  <2>4. Increasing(u) /\ Range(u) = Range(s) \ {r}
    <3>1. /\ n \in Nat /\ s \in [1..n -> Nat] /\ k \in 1..n
          /\ u \in [1..(n - 1) -> Nat] /\ Without(u, s, k, n) /\ Increasing(s)
      BY <2>2, <2>3
    <3>2. Increasing(u) /\ Range(u) = Range(s) \ {s[k]}
      BY ONLY <3>1, WithoutProperties, ZenonT(60)
    <3> QED
      BY <2>1, <3>2
  <2>5. Range(u) \subseteq S
    BY <2>4 DEF Range
  <2>6. u \in Seq(S)
    BY <2>2, <2>5, SeqOfRange, SeqMonotonic
  <2> QED
    BY <1>2, <2>2, <2>4, <2>6 DEF u, n
<1> QED
  BY <1>1, <1>2

\* A pointer larger than all of a list's goes to its end.
LEMMA AppendIncreasing ==
  ASSUME NEW S \in SUBSET Nat, NEW s \in Seq(S), Increasing(s),
         NEW r \in S, \A e \in Range(s) : e < r
  PROVE  /\ Append(s, r) \in Seq(S)
         /\ Increasing(Append(s, r))
         /\ Range(Append(s, r)) = Range(s) \cup {r}
         /\ Len(Append(s, r)) = Len(s) + 1
<1>1. \A i \in 1..Len(s) : s[i] < r
  BY DEF Range
<1>2. /\ Append(s, r) \in Seq(S)
      /\ Len(Append(s, r)) = Len(s) + 1
      /\ \A i \in 1..Len(s) : Append(s, r)[i] = s[i]
      /\ Append(s, r)[Len(s) + 1] = r
  OBVIOUS
<1> QED
  BY <1>1, <1>2 DEF Increasing, Range

\* Taking the head off a list without repetition.
LEMMA TailInjective ==
  ASSUME NEW S, NEW s \in Seq(S), s # <<>>, IsInjective(s)
  PROVE  /\ Head(s) \in Range(s) /\ Head(s) \in S
         /\ Tail(s) \in Seq(S)
         /\ IsInjective(Tail(s))
         /\ Range(Tail(s)) = Range(s) \ {Head(s)}
<1> DEFINE n == Len(s)
           t == Tail(s)
<1>1. n \in Nat /\ n >= 1 /\ DOMAIN s = 1..n
  BY EmptySeq, LenProperties
<1>2. /\ t \in Seq(S) /\ Len(t) = n - 1 /\ DOMAIN t = 1..(n - 1)
      /\ \A i \in 1..(n - 1) : t[i] = s[i + 1]
      /\ Head(s) = s[1]
  BY HeadTailProperties, LenProperties
<1>3. s[1] \in S
  BY <1>1, ElementOfSeq
<1> HIDE DEF n, t
<1>4. \A i, j \in 1..n : s[i] = s[j] => i = j
  BY <1>1 DEF IsInjective
<1>5. IsInjective(t)
  <2> SUFFICES ASSUME NEW i \in 1..(n - 1), NEW j \in 1..(n - 1), t[i] = t[j]
               PROVE  i = j
    BY <1>2 DEF IsInjective
  <2>1. i + 1 \in 1..n /\ j + 1 \in 1..n /\ s[i + 1] = s[j + 1]
    BY <1>1, <1>2
  <2>2. i + 1 = j + 1
    BY <1>4, <2>1
  <2> QED
    BY <1>1, <2>2
<1>6. Range(s) = {s[i] : i \in 1..n} /\ Range(t) = {t[i] : i \in 1..(n - 1)}
  BY <1>1, <1>2 DEF Range
<1>7. ASSUME NEW i \in 1..(n - 1)
      PROVE  t[i] \in Range(s) /\ t[i] # s[1]
  <2>1. i + 1 \in 1..n /\ i + 1 # 1 /\ 1 \in 1..n
    BY <1>1
  <2> QED
    BY <1>2, <1>4, <1>6, <2>1
<1>8. ASSUME NEW i \in 1..n, s[i] # s[1]
      PROVE  s[i] \in Range(t)
  <2>1. i - 1 \in 1..(n - 1) /\ (i - 1) + 1 = i
    BY <1>1, <1>8
  <2>2. t[i - 1] = s[i]
    BY <1>2, <2>1
  <2> QED
    BY <1>6, <2>1, <2>2
<1>9. Range(t) = Range(s) \ {s[1]}
  BY <1>6, <1>7, <1>8
<1>10. s[1] \in Range(s)
  BY <1>1, <1>6
<1> QED
  BY <1>2, <1>3, <1>5, <1>9, <1>10 DEF t

\* Appending a new element to a list without repetition.
LEMMA AppendInjectiveList ==
  ASSUME NEW S, NEW s \in Seq(S), IsInjective(s), NEW e \in S, e \notin Range(s)
  PROVE  /\ Append(s, e) \in Seq(S)
         /\ IsInjective(Append(s, e))
         /\ Range(Append(s, e)) = Range(s) \cup {e}
<1> DEFINE n == Len(s)
           t == Append(s, e)
<1>1. n \in Nat /\ DOMAIN s = 1..n
  BY LenProperties
<1>2. /\ t \in Seq(S) /\ DOMAIN t = 1..(n + 1)
      /\ \A i \in 1..n : t[i] = s[i]
      /\ t[n + 1] = e
  BY AppendProperties, LenProperties
<1>3. \A i \in 1..n : s[i] # e
  BY <1>1 DEF Range
<1>4. \A i, j \in 1..n : s[i] = s[j] => i = j
  BY <1>1 DEF IsInjective
<1> HIDE DEF n, t
<1>5. 1..(n + 1) = (1..n) \cup {n + 1}
  BY <1>1
<1>6. IsInjective(t)
  <2> SUFFICES ASSUME NEW i \in 1..(n + 1), NEW j \in 1..(n + 1), t[i] = t[j]
               PROVE  i = j
    BY <1>2 DEF IsInjective
  <2>1. CASE i \in 1..n /\ j \in 1..n
    BY <2>1, <1>2, <1>4
  <2>2. CASE i = n + 1 \/ j = n + 1
    BY <2>2, <1>2, <1>3, <1>5
  <2> QED
    BY <1>5, <2>1, <2>2
<1>7. Range(t) = Range(s) \cup {e}
  BY <1>1, <1>2, <1>5 DEF Range
<1> QED
  BY <1>2, <1>6, <1>7 DEF t

-----------------------------------------------------------------------------
(* Sums.  A fold takes the positions of a list in some order; its value is *)
(* that of a function g on the sets of positions, defined by recursion.    *)
(* The library's induction theorems take an operator, which the provers    *)
(* cannot instantiate: AllNumbers is induction for a set of numbers.       *)

\* A set of numbers that holds 0 and with each number the next holds them all.
LEMMA AllNumbers ==
  ASSUME NEW P \in SUBSET Nat, 0 \in P, \A n \in P : n + 1 \in P
  PROVE  P = Nat
<1> DEFINE T == Nat \ P
<1> SUFFICES ASSUME T # {} PROVE FALSE
  OBVIOUS
<1>1. PICK x \in T : \A y \in T : <<y, x>> \notin OpToRel(<, Nat)
  BY WFMin, NatLessThanWellFounded, Zenon
<1>2. x \in Nat /\ x \notin P /\ x # 0
  BY Zenon
<1>3. x - 1 \in Nat /\ x - 1 < x /\ (x - 1) + 1 = x
  BY <1>2
<1>4. <<x - 1, x>> \in OpToRel(<, Nat)
  BY <1>2, <1>3, Zenon DEF OpToRel
<1>5. x - 1 \notin T
  BY <1>1, <1>4, Zenon
<1>6. x - 1 \in P
  BY <1>3, <1>5, Zenon
<1> QED
  BY <1>2, <1>3, <1>6, Zenon

Pick(s) == CHOOSE x \in s : TRUE

\* What the fold computes of the set s, g of the smaller ones being known.
SumOver(g, w, s) == IF s = {} THEN 0 ELSE w[Pick(s)] + g[s \ {Pick(s)}]

\* Each position has a weight; g sums them, over every set of positions.
Weighing(w, I) == IsFiniteSet(I) /\ w \in [I -> Nat]
Adding(g, I, w) == g = [s \in SUBSET I |-> SumOver(g, w, s)]
Sums(g, I, w) == g \in [SUBSET I -> Nat] /\ Adding(g, I, w)

\* What is picked of a set is in it.
LEMMA Picked == ASSUME NEW s, s # {} PROVE Pick(s) \in s
  BY DEF Pick

\* A set without the picked element is one smaller.
LEMMA Smaller ==
  ASSUME NEW I, IsFiniteSet(I), NEW s \in SUBSET I
  PROVE  /\ Cardinality(s) \in Nat /\ Cardinality(s) <= Cardinality(I) /\ Cardinality(I) \in Nat
         /\ Cardinality(s) = 0 <=> s = {}
         /\ \A x \in s : s \ {x} \in SUBSET I /\ Cardinality(s \ {x}) = Cardinality(s) - 1
<1>1. IsFiniteSet(s)
  BY FS_Subset
<1> QED
  BY <1>1, FS_Subset, FS_EmptySet, FS_RemoveElement, FS_CardinalityType

\* The recursion defines a function: approximate it up to each size.
LEMMA SumsExist ==
  ASSUME NEW I, NEW w, Weighing(w, I)
  PROVE  \E g : Sums(g, I, w)
<1> USE DEF Weighing
<1> DEFINE Upto(n, g) == \A s \in SUBSET I : Cardinality(s) <= n => g[s] = SumOver(g, w, s)
           P == {n \in Nat : \E g \in [SUBSET I -> Nat] : Upto(n, g)}
<1>1. 0 \in P
  <2> DEFINE g == [s \in SUBSET I |-> 0]
  <2>1. g \in [SUBSET I -> Nat]
    OBVIOUS
  <2>2. Upto(0, g)
    BY Smaller DEF SumOver
  <2> QED
    BY <2>1, <2>2
<1>2. ASSUME NEW n \in P PROVE n + 1 \in P
  <2>1. PICK g \in [SUBSET I -> Nat] : Upto(n, g)
    OBVIOUS
  <2> DEFINE h == [s \in SUBSET I |-> SumOver(g, w, s)]
  <2>2. \A s \in SUBSET I : s # {} => Pick(s) \in s /\ Pick(s) \in I /\ s \ {Pick(s)} \in SUBSET I
    BY Picked
  <2>3. h \in [SUBSET I -> Nat]
    <3>1. ASSUME NEW s \in SUBSET I PROVE SumOver(g, w, s) \in Nat
      BY <2>2 DEF SumOver
    <3> QED
      BY <3>1
  <2>4. ASSUME NEW s \in SUBSET I, Cardinality(s) <= n + 1
        PROVE  h[s] = SumOver(h, w, s)
    <3>1. CASE s = {}
      BY <3>1 DEF SumOver
    <3>2. CASE s # {}
      <4> DEFINE t == s \ {Pick(s)}
      <4>1. t \in SUBSET I /\ Cardinality(t) <= n
        BY <2>2, <2>4, <3>2, Smaller
      <4>2. h[t] = g[t]
        BY <2>1, <4>1
      <4> QED
        BY <3>2, <4>2 DEF SumOver
    <3> QED
      BY <3>1, <3>2
  <2>5. Upto(n + 1, h)
    BY <2>4
  <2>6. n + 1 \in Nat
    OBVIOUS
  <2> HIDE DEF Upto, h
  <2> QED
    BY <2>3, <2>5, <2>6
<1>3. P = Nat
  <2> HIDE DEF P
  <2>1. P \in SUBSET Nat
    BY DEF P
  <2> QED
    BY <1>1, <1>2, <2>1, AllNumbers
<1>4. Cardinality(I) \in P
  BY <1>3, Smaller
<1>5. PICK g \in [SUBSET I -> Nat] : Upto(Cardinality(I), g)
  BY <1>4
<1>6. \A s \in SUBSET I : g[s] = SumOver(g, w, s)
  BY <1>5, Smaller
<1> QED
  BY <1>6 DEF Sums, Adding

\* It is the same sum in any order.
LEMMA SumsAdd ==
  ASSUME NEW I, NEW w, Weighing(w, I), NEW g, Sums(g, I, w),
         NEW s \in SUBSET I, NEW e \in I, e \notin s
  PROVE  g[s \cup {e}] = g[s] + w[e]
<1> USE DEF Weighing
<1> DEFINE Adds(t) == \A x \in I \ t : g[t \cup {x}] = g[t] + w[x]
           P == {n \in Nat : \A t \in SUBSET I : Cardinality(t) = n => Adds(t)}
<1>1. /\ g \in [SUBSET I -> Nat] /\ w \in [I -> Nat]
      /\ \A t \in SUBSET I : g[t] = SumOver(g, w, t)
      /\ \A t \in SUBSET I : t # {} => Pick(t) \in t /\ g[t] = w[Pick(t)] + g[t \ {Pick(t)}]
      /\ g[{}] = 0
  <2>1. g \in [SUBSET I -> Nat] /\ \A t \in SUBSET I : g[t] = SumOver(g, w, t)
    BY DEF Sums, Adding
  <2> QED
    BY <2>1, Picked DEF SumOver
<1>2. 0 \in P
  <2> SUFFICES ASSUME NEW x \in I PROVE g[{} \cup {x}] = g[{}] + w[x]
    BY Smaller
  <2>1. {x} \in SUBSET I /\ {x} \ {x} = {} /\ {} \cup {x} = {x} /\ {x} # {}
    OBVIOUS
  <2>2. Pick({x}) = x
    BY <1>1, <2>1
  <2> QED
    BY <1>1, <2>1, <2>2
<1>3. ASSUME NEW n \in P PROVE n + 1 \in P
  <2>1. \A t \in SUBSET I : Cardinality(t) = n => Adds(t)
    OBVIOUS
  <2> SUFFICES ASSUME NEW t \in SUBSET I, Cardinality(t) = n + 1, NEW x \in I \ t
               PROVE  g[t \cup {x}] = g[t] + w[x]
    OBVIOUS
  <2> DEFINE u == t \cup {x}
             y == Pick(u)
             v == t \ {y}
  <2>2. u \in SUBSET I /\ u # {} /\ y \in u /\ g[u] = w[y] + g[u \ {y}]
    BY <1>1
  <2>3. CASE y = x
    <3>1. u \ {y} = t /\ w[x] \in Nat /\ g[t] \in Nat
      BY <1>1, <2>3
    <3>2. g[u] = w[x] + g[t]
      BY <2>2, <2>3, <3>1
    <3> HIDE DEF u, y
    <3>3. g[u] = g[t] + w[x]
      BY <3>1, <3>2
    <3> QED
      BY <3>3 DEF u
  <2>4. CASE y # x
    <3>1. y \in t /\ v \in SUBSET I /\ y \in I \ v /\ x \in I \ v
      BY <2>2, <2>4
    <3>1a. Cardinality(v) = n
      <4> HIDE DEF y
      <4>1. Cardinality(v) = Cardinality(t) - 1
        BY <3>1, Smaller
      <4>2. n \in Nat
        OBVIOUS
      <4> QED
        BY <4>1, <4>2
    <3>2. u \ {y} = v \cup {x} /\ v \cup {y} = t
      BY <2>4, <3>1
    <3>3. g[v \cup {x}] = g[v] + w[x] /\ g[v \cup {y}] = g[v] + w[y]
      BY <2>1, <3>1, <3>1a
    <3>4. g[v] \in Nat /\ w[x] \in Nat /\ w[y] \in Nat
      BY <1>1, <3>1
    <3>5. g[u] = w[y] + (g[v] + w[x]) /\ g[t] = g[v] + w[y]
      BY <2>2, <3>2, <3>3
    <3> HIDE DEF u, y, v
    <3>6. g[u] = g[t] + w[x]
      BY <3>4, <3>5
    <3> QED
      BY <3>6 DEF u
  <2> QED
    BY <2>3, <2>4
<1>4. P = Nat
  <2> HIDE DEF P
  <2>1. P \in SUBSET Nat
    BY DEF P
  <2> QED
    BY <1>2, <1>3, <2>1, AllNumbers
<1> QED
  BY <1>4, Smaller

\* Two weighings agree on I.
SameWeights(v, w, I) == \A i \in I : v[i] = w[i]

\* Two sums over the same weights agree.
LEMMA SumsAgree ==
  ASSUME NEW I, NEW v, Weighing(v, I), NEW f, Adding(f, I, v),
         NEW J, I \subseteq J, NEW w, NEW g, Adding(g, J, w),
         SameWeights(v, w, I)
  PROVE  f[I] = g[I]
<1> USE DEF Weighing, SameWeights
<1> DEFINE P == {n \in Nat : \A s \in SUBSET I : Cardinality(s) = n => f[s] = g[s]}
<1>1. /\ \A s \in SUBSET I : f[s] = SumOver(f, v, s) /\ g[s] = SumOver(g, w, s)
  BY DEF Adding
<1>2. 0 \in P
  BY <1>1, Smaller DEF SumOver
<1>3. ASSUME NEW n \in P PROVE n + 1 \in P
  <2> SUFFICES ASSUME NEW s \in SUBSET I, Cardinality(s) = n + 1 PROVE f[s] = g[s]
    OBVIOUS
  <2> DEFINE x == Pick(s)
  <2>1. s # {} /\ x \in s /\ x \in I
    BY Smaller, Picked
  <2>2. s \ {x} \in SUBSET I /\ Cardinality(s \ {x}) = n
    BY <2>1, Smaller
  <2> QED
    BY <1>1, <2>1, <2>2 DEF SumOver
<1>4. P = Nat
  <2> HIDE DEF P
  <2>1. P \in SUBSET Nat
    BY DEF P
  <2> QED
    BY <1>2, <1>3, <2>1, AllNumbers
<1> QED
  BY <1>4, Smaller

\* The largest of some positions is one of them.
LEMMA MaxIsIn ==
  ASSUME NEW n \in Nat, NEW s \in SUBSET (1..n), s # {}
  PROVE  Max(s) \in s /\ \A y \in s : y <= Max(s)
<1> DEFINE T == {n - x : x \in s}
<1>1. T \subseteq Nat /\ T # {}
  <2>1. \A x \in s : n - x \in Nat
    OBVIOUS
  <2> QED
    BY <2>1
<1>2. PICK t \in T : \A y \in T : <<y, t>> \notin OpToRel(<, Nat)
  <2> HIDE DEF T
  <2> QED
    BY <1>1, WFMin, NatLessThanWellFounded, Zenon
<1>3. PICK x \in s : t = n - x
  BY <1>2
<1>4. ASSUME NEW y \in s PROVE y <= x
  <2>1. n - y \in T /\ n - y \in Nat /\ n - x \in Nat /\ x \in Nat /\ y \in Nat
    OBVIOUS
  <2>2. n - y < n - x => <<n - y, n - x>> \in OpToRel(<, Nat)
    BY <2>1, Zenon DEF OpToRel
  <2> HIDE DEF T
  <2>3. ~(n - y < n - x)
    BY <1>2, <1>3, <2>1, <2>2
  <2> QED
    BY <2>1, <2>3
<1> QED
  BY <1>3, <1>4 DEF Max

-----------------------------------------------------------------------------
(* Sequences laid one after the other.                                     *)

\* Every two elements, the earlier first, are related by R.
Pairwise(s, R) == \A i, j \in DOMAIN s : i < j => <<s[i], s[j]>> \in R

\* The elements of two sequences together.
LEMMA ConcatPairwise ==
  ASSUME NEW S, NEW s \in Seq(S), NEW t \in Seq(S), NEW R,
         Pairwise(s, R), Pairwise(t, R),
         \A x \in Range(s), y \in Range(t) : <<x, y>> \in R
  PROVE  /\ s \o t \in Seq(S) /\ Range(s \o t) = Range(s) \cup Range(t)
         /\ Pairwise(s \o t, R)
<1> DEFINE m == Len(s)
           n == Len(t)
           u == s \o t
<1>1. /\ m \in Nat /\ n \in Nat /\ DOMAIN s = 1..m /\ DOMAIN t = 1..n
      /\ u \in Seq(S) /\ Len(u) = m + n /\ DOMAIN u = 1..(m + n)
      /\ \A i \in 1..(m + n) : u[i] = IF i <= m THEN s[i] ELSE t[i - m]
  BY ConcatProperties, LenProperties
<1> HIDE DEF m, n, u
<1>2. \A i \in 1..(m + n) : (i <= m => i \in 1..m /\ u[i] = s[i])
                         /\ (~(i <= m) => i - m \in 1..n /\ u[i] = t[i - m])
  BY <1>1
<1>3. ASSUME NEW j \in 1..n PROVE j + m \in 1..(m + n) /\ u[j + m] = t[j]
  <2>1. j + m \in 1..(m + n) /\ ~(j + m <= m) /\ (j + m) - m = j
    BY <1>1
  <2> QED
    BY <1>2, <2>1
<1>4. Range(u) = Range(s) \cup Range(t)
  <2>1. Range(u) \subseteq Range(s) \cup Range(t)
    BY <1>1, <1>2 DEF Range
  <2>2. \A i \in 1..m : i \in 1..(m + n) /\ u[i] = s[i]
    BY <1>1
  <2>3. Range(s) \subseteq Range(u)
    BY <1>1, <2>2 DEF Range
  <2>4. Range(t) \subseteq Range(u)
    <3> SUFFICES ASSUME NEW j \in 1..n PROVE t[j] \in Range(u)
      BY <1>1 DEF Range
    <3>1. j + m \in DOMAIN u /\ u[j + m] = t[j]
      BY <1>1, <1>3
    <3> QED
      BY <3>1 DEF Range
  <2> QED
    BY <2>1, <2>3, <2>4
<1>5. ASSUME NEW i \in 1..(m + n), NEW j \in 1..(m + n), i < j
      PROVE  <<u[i], u[j]>> \in R
  <2>1. CASE j <= m
    <3>1. i \in 1..m /\ j \in 1..m /\ u[i] = s[i] /\ u[j] = s[j]
      BY <1>1, <1>2, <1>5, <2>1
    <3> QED
      BY <1>1, <1>5, <3>1 DEF Pairwise
  <2>2. CASE i <= m /\ ~(j <= m)
    BY <1>1, <1>2, <2>2 DEF Range
  <2>3. CASE ~(i <= m)
    <3>1. i - m \in 1..n /\ j - m \in 1..n /\ i - m < j - m /\ u[i] = t[i - m] /\ u[j] = t[j - m]
      BY <1>1, <1>2, <1>5, <2>3
    <3> QED
      BY <1>1, <3>1 DEF Pairwise
  <2> QED
    BY <1>1, <1>5, <2>1, <2>2, <2>3
<1> QED
  BY <1>1, <1>4, <1>5 DEF Pairwise, u

\* The recursion of FlattenSeq defines a function.
LEMMA FlattenSteps ==
  ASSUME NEW ss, NEW n \in Nat, n # 0, Len(ss) = n
  PROVE  \E f : /\ FlattenSeq(ss) = f[n] /\ f[1] = ss[1]
                /\ \A i \in 1..n : i # 1 => f[i] = f[i - 1] \o ss[i]
<1> DEFINE Body(f) == [i \in 1..n |-> IF i = 1 THEN ss[i] ELSE f[i - 1] \o ss[i]]
           flatten == CHOOSE f : f = Body(f)
           P == {k \in Nat : \E g : \A i \in 1..n : i <= k => g[i] = Body(g)[i]}
<1>1. FlattenSeq(ss) = flatten[n]
  BY Zenon DEF FlattenSeq
<1>2. 0 \in P
  OBVIOUS
<1>3. ASSUME NEW k \in P PROVE k + 1 \in P
  <2>1. PICK g : \A i \in 1..n : i <= k => g[i] = Body(g)[i]
    OBVIOUS
  <2> DEFINE h == Body(g)
  <2>2. \A i \in 1..n : i <= k + 1 => h[i] = Body(h)[i]
    BY <2>1
  <2> HIDE DEF h, Body
  <2> QED
    BY <2>2
<1>4. P = Nat
  <2> HIDE DEF P
  <2>1. P \in SUBSET Nat
    BY DEF P
  <2> QED
    BY <1>2, <1>3, <2>1, AllNumbers
<1>5. PICK g : \A i \in 1..n : i <= n => g[i] = Body(g)[i]
  BY <1>4
<1>6. Body(g) = Body(Body(g))
  BY <1>5
<1> HIDE DEF Body
<1>7. flatten = Body(flatten)
  BY <1>6
<1> HIDE DEF flatten
<1>8. flatten[1] = ss[1] /\ \A i \in 1..n : i # 1 => flatten[i] = flatten[i - 1] \o ss[i]
  <2>1. \A i \in 1..n : flatten[i] = IF i = 1 THEN ss[i] ELSE flatten[i - 1] \o ss[i]
    BY <1>7 DEF Body
  <2>2. 1 \in 1..n
    OBVIOUS
  <2>3. flatten[1] = ss[1]
    BY <2>1, <2>2
  <2>4. ASSUME NEW i \in 1..n, i # 1 PROVE flatten[i] = flatten[i - 1] \o ss[i]
    BY <2>1, <2>4
  <2> QED
    BY <2>3, <2>4
<1> QED
  BY <1>1, <1>8

\* What FlattenSeq returns, and how its elements are related.
LEMMA Flattened ==
  ASSUME NEW S, NEW ss \in Seq(Seq(S)), NEW R,
         \A i \in DOMAIN ss : Pairwise(ss[i], R),
         \A i, j \in DOMAIN ss : i < j =>
           \A x \in Range(ss[i]), y \in Range(ss[j]) : <<x, y>> \in R
  PROVE  /\ FlattenSeq(ss) \in Seq(S)
         /\ Range(FlattenSeq(ss)) = UNION {Range(ss[i]) : i \in DOMAIN ss}
         /\ Pairwise(FlattenSeq(ss), R)
<1> DEFINE n == Len(ss)
<1>1. n \in Nat /\ DOMAIN ss = 1..n /\ \A i \in 1..n : ss[i] \in Seq(S)
  BY LenProperties, ElementOfSeq
<1>2. CASE n = 0
  <2>1. ss = <<>> /\ DOMAIN ss = {}
    BY <1>1, <1>2, EmptySeq
  <2>2. FlattenSeq(ss) = <<>>
    BY <1>2, <2>1 DEF FlattenSeq
  <2>3. Range(FlattenSeq(ss)) = {} /\ UNION {Range(ss[i]) : i \in DOMAIN ss} = {}
    BY <2>1, <2>2 DEF Range
  <2> QED
    BY <2>2, <2>3 DEF Pairwise
<1>3. CASE n # 0
  <2>1. PICK f : /\ FlattenSeq(ss) = f[n] /\ f[1] = ss[1]
                 /\ \A i \in 1..n : i # 1 => f[i] = f[i - 1] \o ss[i]
    <3> HIDE DEF n
    <3>1. Len(ss) = n
      BY DEF n
    <3> QED
      BY <1>1, <1>3, <3>1, FlattenSteps
  <2> HIDE DEF n
  <2> DEFINE All(k) == UNION {Range(ss[i]) : i \in 1..k}
             Good(k) == f[k] \in Seq(S) /\ Range(f[k]) = All(k) /\ Pairwise(f[k], R)
             P == {k \in Nat : k + 1 <= n => Good(k + 1)}
  <2>2. 0 \in P
    <3>1. 1..1 = {1} /\ 1 \in 1..n /\ 0 + 1 = 1
      BY <1>1, <1>3
    <3>2. All(1) = Range(ss[1])
      BY <3>1
    <3> QED
      BY <1>1, <2>1, <3>1, <3>2
  <2>3. ASSUME NEW k \in P PROVE k + 1 \in P
    <3> SUFFICES ASSUME (k + 1) + 1 <= n PROVE Good((k + 1) + 1)
      OBVIOUS
    <3> DEFINE m == k + 1
    <3>1. /\ m \in Nat /\ m \in 1..n /\ m + 1 \in 1..n /\ m + 1 # 1 /\ (m + 1) - 1 = m
          /\ 1..(m + 1) = (1..m) \cup {m + 1} /\ \A i \in 1..m : i \in 1..n /\ i < m + 1
      BY <1>1
    <3>2. Good(m)
      BY <1>1
    <3> HIDE DEF m
    <3>3. f[m + 1] = f[m] \o ss[m + 1] /\ ss[m + 1] \in Seq(S) /\ Pairwise(ss[m + 1], R)
      BY <1>1, <2>1, <3>1
    <3>4. \A x \in Range(f[m]), y \in Range(ss[m + 1]) : <<x, y>> \in R
      BY <1>1, <3>1, <3>2
    <3>5. All(m + 1) = All(m) \cup Range(ss[m + 1])
      BY <3>1
    <3>6. /\ f[m + 1] \in Seq(S) /\ Range(f[m + 1]) = Range(f[m]) \cup Range(ss[m + 1])
          /\ Pairwise(f[m + 1], R)
      <4>1. f[m] \in Seq(S) /\ Pairwise(f[m], R)
        BY <3>2
      <4> DEFINE s == f[m]
                 t == ss[m + 1]
      <4> HIDE DEF s, t
      <4>2. /\ s \in Seq(S) /\ t \in Seq(S) /\ Pairwise(s, R) /\ Pairwise(t, R)
            /\ \A x \in Range(s), y \in Range(t) : <<x, y>> \in R
        BY <3>3, <3>4, <4>1 DEF s, t
      <4>3. s \o t \in Seq(S) /\ Range(s \o t) = Range(s) \cup Range(t) /\ Pairwise(s \o t, R)
        BY <4>2, ConcatPairwise, Zenon
      <4> QED
        BY <3>3, <4>3 DEF s, t
    <3>7. Good(m + 1)
      BY <3>2, <3>5, <3>6
    <3> HIDE DEF Good
    <3> QED
      BY <3>7 DEF m
  <2>4. P = Nat
    <3> HIDE DEF P
    <3>1. P \in SUBSET Nat
      BY DEF P
    <3> QED
      BY <2>2, <2>3, <3>1, AllNumbers
  <2>5. Good(n)
    <3>1. n - 1 \in Nat /\ (n - 1) + 1 = n
      BY <1>1, <1>3
    <3> HIDE DEF Good
    <3> QED
      BY <2>4, <3>1
  <2> QED
    BY <1>1, <2>1, <2>5
<1> QED
  BY <1>2, <1>3
\* A list holds elements of its set.
LEMMA ListElements ==
  ASSUME NEW S, NEW o \in Seq(S)
  PROVE  Range(o) \subseteq S
  BY ElementOfSeq, LenProperties DEF Range

\* A list that grew by one, whatever was appended.
LEMMA AppendLength ==
  ASSUME NEW S, NEW o \in Seq(S), NEW x
  PROVE  Len(Append(o, x)) = Len(o) + 1 /\ Range(Append(o, x)) = Range(o) \cup {x}
<1> DEFINE T == S \cup {x}
<1>1. S \subseteq T /\ x \in T
  OBVIOUS
<1> HIDE DEF T
<1>2. o \in Seq(T)
  BY <1>1, SeqMonotonic
<1>3. /\ Len(Append(o, x)) = Len(o) + 1 /\ Append(o, x) \in Seq(T)
      /\ \A i \in 1..Len(o) : Append(o, x)[i] = o[i]
      /\ Append(o, x)[Len(o) + 1] = x
  BY <1>1, <1>2, AppendProperties
<1>4. DOMAIN o = 1..Len(o) /\ DOMAIN Append(o, x) = 1..(Len(o) + 1) /\ Len(o) \in Nat
  BY <1>2, <1>3, LenProperties
<1> QED
  BY <1>3, <1>4 DEF Range

-----------------------------------------------------------------------------
(* Snapshots.                                                              *)

\* The blocks (ResourceSpans with one ScopeSpans) that snapshots are made of,
\* and the snapshots, of the spans in S.
Blocks(S) == [ri : {sp.ri : sp \in S}, si : {sp.si : sp \in S}, spans : Seq(S)]
Snapshots(S) == Seq(Blocks(S))

\* The ids of the spans that blocks hold.
BlockIDs(blocks) == UNION {SpanIDsOf(block.spans) : block \in Range(blocks)}

\* Two spans of different ids, and two blocks that share no span id.
OtherID(S) == {p \in S \X S : p[1].sid # p[2].sid}
OtherIDs(S) ==
  {p \in Blocks(S) \X Blocks(S) : SpanIDsOf(p[1].spans) \cap SpanIDsOf(p[2].spans) = {}}

\* No id occurs twice in blocks.
Apart(S, blocks) ==
  /\ \A block \in Range(blocks) : Pairwise(block.spans, OtherID(S))
  /\ Pairwise(blocks, OtherIDs(S))

\* The ids of a sequence of spans are those of its elements.
LEMMA IDsOfRange ==
  ASSUME NEW s
  PROVE  SpanIDsOf(s) = {sp.sid : sp \in Range(s)}
  BY DEF SpanIDsOf, Range

\* SpansOf lays the spans of the blocks one after the other.
LEMMA SpansOfSnapshot ==
  ASSUME NEW S, NEW blocks \in Snapshots(S)
  PROVE  /\ SpansOf(blocks) \in Seq(S)
         /\ SpanIDsOf(SpansOf(blocks)) = BlockIDs(blocks)
         /\ Apart(S, blocks) => Pairwise(SpansOf(blocks), OtherID(S))
<1> DEFINE ss == [i \in DOMAIN blocks |-> blocks[i].spans]
<1>1. /\ DOMAIN blocks = 1..Len(blocks) /\ Len(blocks) \in Nat
      /\ \A i \in DOMAIN blocks : blocks[i] \in Blocks(S)
  BY LenProperties, ElementOfSeq DEF Snapshots
<1>2. /\ \A i \in DOMAIN blocks : ss[i] = blocks[i].spans /\ ss[i] \in Seq(S)
      /\ ss \in Seq(Seq(S)) /\ DOMAIN ss = DOMAIN blocks
  BY <1>1 DEF Blocks
<1>3. SpansOf(blocks) = FlattenSeq(ss)
  BY DEF SpansOf
<1> HIDE DEF ss
<1>4. \A i \in DOMAIN ss : \A x \in Range(ss[i]) : x \in S
  BY <1>2, ListElements
<1>5. /\ FlattenSeq(ss) \in Seq(S)
      /\ Range(FlattenSeq(ss)) = UNION {Range(ss[i]) : i \in DOMAIN ss}
  <2> DEFINE R == S \X S
  <2>1. \A i \in DOMAIN ss : Pairwise(ss[i], R)
    BY <1>4 DEF Pairwise, Range
  <2>2. \A i, j \in DOMAIN ss : i < j => \A x \in Range(ss[i]), y \in Range(ss[j]) : <<x, y>> \in R
    BY <1>4
  <2> HIDE DEF R
  <2> QED
    BY <1>2, <2>1, <2>2, Flattened
<1>6. SpanIDsOf(SpansOf(blocks)) = BlockIDs(blocks)
  <2>1. SpanIDsOf(SpansOf(blocks)) = {sp.sid : sp \in UNION {Range(ss[i]) : i \in DOMAIN ss}}
    BY <1>3, <1>5, IDsOfRange
  <2>2. BlockIDs(blocks) = UNION {SpanIDsOf(ss[i]) : i \in DOMAIN ss}
    BY <1>2 DEF BlockIDs, Range
  <2>3. \A i \in DOMAIN ss : SpanIDsOf(ss[i]) = {sp.sid : sp \in Range(ss[i])}
    BY IDsOfRange
  <2> QED
    BY <2>1, <2>2, <2>3
<1>7. ASSUME Apart(S, blocks) PROVE Pairwise(FlattenSeq(ss), OtherID(S))
  <2>1. \A i \in DOMAIN ss : Pairwise(ss[i], OtherID(S))
    BY <1>2, <1>7 DEF Apart, Range
  <2>2. ASSUME NEW i \in DOMAIN ss, NEW j \in DOMAIN ss, i < j,
               NEW x \in Range(ss[i]), NEW y \in Range(ss[j])
        PROVE  <<x, y>> \in OtherID(S)
    <3>1. <<blocks[i], blocks[j]>> \in OtherIDs(S)
      BY <1>2, <1>7, <2>2 DEF Apart, Pairwise
    <3>2. SpanIDsOf(ss[i]) \cap SpanIDsOf(ss[j]) = {}
      BY <1>2, <3>1 DEF OtherIDs
    <3>3. x.sid \in SpanIDsOf(ss[i]) /\ y.sid \in SpanIDsOf(ss[j])
      BY IDsOfRange
    <3> QED
      BY <1>4, <3>2, <3>3 DEF OtherID
  <2> QED
    BY <1>2, <2>1, <2>2, Flattened
<1> QED
  BY <1>3, <1>5, <1>6, <1>7

\* Spans with different ids are as many as their ids.
LEMMA AsManyAsIDs ==
  ASSUME NEW S, NEW s \in Seq(S), \A i, j \in DOMAIN s : i < j => s[i].sid # s[j].sid
  PROVE  Cardinality(SpanIDsOf(s)) = Len(s) /\ IsFiniteSet(SpanIDsOf(s))
<1> DEFINE n == Len(s)
           f == [i \in 1..n |-> s[i].sid]
<1>1. n \in Nat /\ DOMAIN s = 1..n
  BY LenProperties
<1> HIDE DEF n
<1>2. f \in Bijection(1..n, SpanIDsOf(s))
  <2>1. f \in [1..n -> SpanIDsOf(s)]
    BY <1>1 DEF SpanIDsOf
  <2>2. \A i, j \in 1..n : f[i] = f[j] => i = j
    <3>1. \A i, j \in 1..n : i < j \/ j < i \/ i = j
      BY <1>1
    <3> QED
      BY <1>1, <3>1
  <2>3. \A id \in SpanIDsOf(s) : \E i \in 1..n : f[i] = id
    BY <1>1 DEF SpanIDsOf
  <2> HIDE DEF f
  <2> QED
    BY <2>1, <2>2, <2>3 DEF Bijection, Injection, Surjection, IsInjective
<1>3. ExistsBijection(1..n, SpanIDsOf(s))
  BY <1>2 DEF ExistsBijection
<1>4. Cardinality(SpanIDsOf(s)) = n
  BY <1>1, <1>3, FS_CountingElements
<1>5. IsFiniteSet(SpanIDsOf(s))
  BY <1>1, <1>3, FS_NatBijection
<1> QED
  BY <1>4, <1>5 DEF n

\* Where AppendToBlock puts a span: at the end of a block, or in a new one.
LEMMA AppendPlaces ==
  ASSUME NEW S, NEW snap \in Snapshots(S), NEW sp
  PROVE  \/ /\ \A at \in DOMAIN snap : ~(snap[at].ri = sp.ri /\ snap[at].si = sp.si)
            /\ AppendToBlock(snap, sp)
                 = Append(snap, [ri |-> sp.ri, si |-> sp.si, spans |-> <<sp>>])
         \/ \E at \in DOMAIN snap :
              /\ snap[at].ri = sp.ri /\ snap[at].si = sp.si
              /\ AppendToBlock(snap, sp) = [snap EXCEPT ![at].spans = Append(snap[at].spans, sp)]
<1> DEFINE I == {i \in 1..Len(snap) : snap[i].ri = sp.ri /\ snap[i].si = sp.si}
           at == IF I # {} THEN Min(I) ELSE 0
<1>1. AppendToBlock(snap, sp) =
        IF at = 0 THEN Append(snap, [ri |-> sp.ri, si |-> sp.si, spans |-> <<sp>>])
        ELSE [snap EXCEPT ![at].spans = Append(snap[at].spans, sp)]
  BY Zenon DEF AppendToBlock, SelectInSeq
<1>2. I # {} => Min(I) \in I
  <2> SUFFICES ASSUME I # {} PROVE Min(I) \in I
    OBVIOUS
  <2>1. I \subseteq Nat
    OBVIOUS
  <2>2. PICK x \in I : \A y \in I : <<y, x>> \notin OpToRel(<, Nat)
    <3> HIDE DEF I
    <3> QED
      BY <2>1, WFMin, NatLessThanWellFounded, Zenon
  <2>3. ASSUME NEW y \in I PROVE x <= y
    <3>1. x \in Nat /\ y \in Nat
      BY <2>1
    <3>2. y < x => <<y, x>> \in OpToRel(<, Nat)
      BY <3>1, Zenon DEF OpToRel
    <3> HIDE DEF I
    <3>3. ~(y < x)
      BY <2>2, <3>2
    <3> QED
      BY <3>1, <3>3
  <2> HIDE DEF I
  <2> QED
    BY <2>2, <2>3 DEF Min
<1>3. DOMAIN snap = 1..Len(snap) /\ \A i \in 1..Len(snap) : i # 0
  BY LenProperties DEF Snapshots
<1>4. CASE I = {}
  <2>1. at = 0 /\ \A i \in DOMAIN snap : ~(snap[i].ri = sp.ri /\ snap[i].si = sp.si)
    BY <1>3, <1>4
  <2> HIDE DEF I, at
  <2> QED
    BY <1>1, <2>1
<1>5. CASE I # {}
  <2>1. at \in I
    BY <1>2, <1>5
  <2>2. at \in DOMAIN snap /\ at # 0 /\ snap[at].ri = sp.ri /\ snap[at].si = sp.si
    BY <1>3, <2>1
  <2> HIDE DEF I, at
  <2> QED
    BY <1>1, <2>2
<1> QED
  BY <1>4, <1>5

\* What AppendToBlock makes of a snapshot.
LEMMA AppendKeepsSnapshot ==
  ASSUME NEW S, NEW snap \in Snapshots(S), NEW sp \in S
  PROVE  LET new == AppendToBlock(snap, sp) IN
         /\ new \in Snapshots(S) /\ new # <<>>
         /\ BlockIDs(new) = BlockIDs(snap) \cup {sp.sid}
         /\ Apart(S, snap) /\ sp.sid \notin BlockIDs(snap) => Apart(S, new)
<1> DEFINE new == AppendToBlock(snap, sp)
           n == Len(snap)
           Wanted == /\ new \in Snapshots(S) /\ new # <<>>
                     /\ BlockIDs(new) = BlockIDs(snap) \cup {sp.sid}
                     /\ Apart(S, snap) /\ sp.sid \notin BlockIDs(snap) => Apart(S, new)
<1> SUFFICES Wanted
  OBVIOUS
<1>1. /\ n \in Nat /\ DOMAIN snap = 1..n /\ \A i \in 1..n : snap[i] \in Blocks(S)
      /\ Range(snap) \subseteq Blocks(S)
  BY LenProperties, ElementOfSeq, ListElements DEF Snapshots
<1>2. \A block \in Blocks(S) : block.spans \in Seq(S)
  BY DEF Blocks
<1> DEFINE single == [ri |-> sp.ri, si |-> sp.si, spans |-> <<sp>>]
<1>3. CASE new = Append(snap, single)
  <2>1. single \in Blocks(S) /\ SpanIDsOf(single.spans) = {sp.sid} /\ Pairwise(single.spans, OtherID(S))
    BY DEF Blocks, SpanIDsOf, Pairwise
  <2> HIDE DEF single
  <2>2. /\ new \in Snapshots(S) /\ new # <<>> /\ DOMAIN new = 1..(n + 1)
        /\ \A i \in 1..n : new[i] = snap[i] /\ new[n + 1] = single
    BY <1>1, <1>3, <2>1, AppendProperties, LenProperties DEF Snapshots
  <2>3. Range(new) = Range(snap) \cup {single}
    BY <1>3, <2>1, AppendLength DEF Snapshots
  <2> HIDE DEF new, n
  <2>4. BlockIDs(new) = BlockIDs(snap) \cup {sp.sid}
    BY <2>1, <2>3 DEF BlockIDs
  <2>5. ASSUME Apart(S, snap), sp.sid \notin BlockIDs(snap) PROVE Apart(S, new)
    <3>1. \A block \in Range(new) : Pairwise(block.spans, OtherID(S))
      BY <2>1, <2>3, <2>5 DEF Apart
    <3>2. ASSUME NEW i \in DOMAIN new, NEW j \in DOMAIN new, i < j
          PROVE  <<new[i], new[j]>> \in OtherIDs(S)
      <4>1. CASE j \in 1..n
        BY <1>1, <2>2, <2>5, <3>2, <4>1 DEF Apart, Pairwise
      <4>2. CASE j = n + 1
        <5>1. i \in 1..n /\ new[i] = snap[i] /\ new[j] = single /\ snap[i] \in Range(snap)
          BY <1>1, <2>2, <3>2, <4>2 DEF Range
        <5>2. SpanIDsOf(snap[i].spans) \subseteq BlockIDs(snap)
          BY <5>1 DEF BlockIDs
        <5> QED
          BY <1>1, <2>1, <2>5, <5>1, <5>2 DEF OtherIDs
      <4> QED
        BY <1>1, <2>2, <4>1, <4>2
    <3> QED
      BY <3>1, <3>2 DEF Apart, Pairwise
  <2> QED
    BY <2>2, <2>4, <2>5
<1>4. ASSUME NEW at \in DOMAIN snap, new = [snap EXCEPT ![at].spans = Append(snap[at].spans, sp)]
      PROVE  Wanted
  <2> DEFINE block == [snap[at] EXCEPT !.spans = Append(snap[at].spans, sp)]
             old == snap[at].spans
  <2>1. /\ old \in Seq(S) /\ block.spans = Append(old, sp) /\ block \in Blocks(S)
        /\ Range(block.spans) = Range(old) \cup {sp}
    <3>1. snap[at] \in Blocks(S)
      BY <1>1
    <3>2. old \in Seq(S)
      BY <3>1 DEF Blocks
    <3>3. Append(old, sp) \in Seq(S)
      BY <3>2, AppendProperties
    <3>4. block.spans = Append(old, sp) /\ block \in Blocks(S)
      BY <3>1, <3>3 DEF Blocks
    <3> QED
      BY <3>2, <3>4, AppendLength
  <2>2. /\ new \in Snapshots(S) /\ DOMAIN new = 1..n /\ at \in 1..n /\ new[at] = block
        /\ \A i \in 1..n : i # at => new[i] = snap[i]
    BY <1>1, <1>4, <2>1 DEF Snapshots
  <2>3. new # <<>>
    BY <2>2
  <2> HIDE DEF new, n, block, old
  <2>4. SpanIDsOf(block.spans) = SpanIDsOf(old) \cup {sp.sid}
    BY <2>1, IDsOfRange
  <2>5. \A i \in 1..n : SpanIDsOf(snap[i].spans) \subseteq BlockIDs(snap)
    BY <1>1 DEF BlockIDs, Range
  <2>6. BlockIDs(new) = BlockIDs(snap) \cup {sp.sid}
    <3>1. BlockIDs(new) = UNION {SpanIDsOf(new[i].spans) : i \in 1..n}
      BY <2>2 DEF BlockIDs, Range
    <3>2. BlockIDs(snap) = UNION {SpanIDsOf(snap[i].spans) : i \in 1..n}
      BY <1>1 DEF BlockIDs, Range
    <3>3. SpanIDsOf(new[at].spans) = SpanIDsOf(snap[at].spans) \cup {sp.sid}
      BY <2>2, <2>4 DEF old
    <3> QED
      BY <2>2, <3>1, <3>2, <3>3
  <2>7. ASSUME Apart(S, snap), sp.sid \notin BlockIDs(snap) PROVE Apart(S, new)
    <3>1. Pairwise(block.spans, OtherID(S))
      <4>1. Pairwise(old, OtherID(S)) /\ sp.sid \notin SpanIDsOf(old)
        BY <1>1, <2>2, <2>5, <2>7 DEF Apart, Range, old
      <4>2. /\ Len(old) \in Nat /\ DOMAIN old = 1..Len(old) /\ DOMAIN block.spans = 1..(Len(old) + 1)
            /\ \A i \in 1..Len(old) : block.spans[i] = old[i] /\ old[i] \in S
            /\ block.spans[Len(old) + 1] = sp
        BY <2>1, AppendProperties, LenProperties, ElementOfSeq
      <4>3. ASSUME NEW i \in DOMAIN block.spans, NEW j \in DOMAIN block.spans, i < j
            PROVE  <<block.spans[i], block.spans[j]>> \in OtherID(S)
        <5>1. CASE j \in 1..Len(old)
          BY <4>1, <4>2, <4>3, <5>1 DEF Pairwise
        <5>2. CASE j = Len(old) + 1
          <6>1. i \in 1..Len(old) /\ block.spans[i] = old[i] /\ block.spans[j] = sp
            BY <4>2, <4>3, <5>2
          <6>2. old[i].sid \in SpanIDsOf(old)
            BY <4>2, <6>1 DEF SpanIDsOf
          <6> QED
            BY <4>1, <4>2, <6>1, <6>2 DEF OtherID
        <5> QED
          BY <4>2, <5>1, <5>2
      <4> QED
        BY <4>3 DEF Pairwise
    <3>2. \A other \in Range(new) : Pairwise(other.spans, OtherID(S))
      BY <1>1, <2>2, <2>7, <3>1 DEF Apart, Range
    <3>3. ASSUME NEW i \in 1..n, NEW j \in 1..n, i < j
          PROVE  <<new[i], new[j]>> \in OtherIDs(S)
      <4>1. <<snap[i], snap[j]>> \in OtherIDs(S)
        BY <1>1, <2>7, <3>3 DEF Apart, Pairwise
      <4>2. SpanIDsOf(snap[i].spans) \cap SpanIDsOf(snap[j].spans) = {}
        BY <4>1 DEF OtherIDs
      <4>3. sp.sid \notin SpanIDsOf(snap[i].spans) /\ sp.sid \notin SpanIDsOf(snap[j].spans)
        BY <2>5, <2>7
      <4>4. /\ SpanIDsOf(new[i].spans) \subseteq SpanIDsOf(snap[i].spans) \cup (IF i = at THEN {sp.sid} ELSE {})
            /\ SpanIDsOf(new[j].spans) \subseteq SpanIDsOf(snap[j].spans) \cup (IF j = at THEN {sp.sid} ELSE {})
        BY <2>2, <2>4 DEF old
      <4>5. i # j
        BY <1>1, <3>3
      <4>6. new[i] \in Blocks(S) /\ new[j] \in Blocks(S)
        BY <1>1, <2>1, <2>2
      <4> QED
        BY <4>2, <4>3, <4>4, <4>5, <4>6 DEF OtherIDs
    <3> QED
      BY <2>2, <3>2, <3>3 DEF Apart, Pairwise
  <2> QED
    BY <2>2, <2>3, <2>6, <2>7
<1> QED
  <2> HIDE DEF Wanted
  <2> QED
    BY <1>3, <1>4, AppendPlaces

-----------------------------------------------------------------------------
(* The loop of toEngineSpans.                                              *)

\* The accumulator before the first span.
NoneVisited(td) ==
  [out |-> <<>>, snap |-> [id \in {td[i].tid : i \in DOMAIN td} |-> <<>>], carriers |-> {}]

\* The accumulators of the loop, one after each span.
Visits(a, td, maxSpans, held) ==
  /\ a[0] = NoneVisited(td)
  /\ \A i \in 1..Len(td) : a[i] = Visit(a[i - 1], td[i], maxSpans, held)

\* What the loop returns with its last accumulator.
Loaded(end) ==
  [i \in DOMAIN end.out |->
     [tid |-> end.out[i].tid, sid |-> end.out[i].sid, kind |-> end.out[i].kind,
      raw |-> IF i \in end.carriers THEN end.snap[end.out[i].tid] ELSE NoRaw]]

\* The fold visits the spans in their order.
LEMMA LoopVisits ==
  ASSUME NEW S, NEW td \in Seq(S), NEW maxSpans, NEW held
  PROVE  \E a : Visits(a, td, maxSpans, held)
                /\ ToEngineSpans(td, maxSpans, held) = Loaded(a[Len(td)])
<1> DEFINE n == Len(td)
           I == DOMAIN td
           Body(g) == [s \in SUBSET I |->
                        IF s = {} THEN NoneVisited(td)
                        ELSE Visit(g[s \ {Max(s)}], td[Max(s)], maxSpans, held)]
           iter == CHOOSE g : g = Body(g)
           P == {k \in Nat : \E g : \A s \in SUBSET I : Cardinality(s) <= k => g[s] = Body(g)[s]}
<1>1. ToEngineSpans(td, maxSpans, held) = Loaded(iter[I])
  BY Zenon DEF ToEngineSpans, FoldLeft, MapThenFoldSet, NoneVisited, Loaded
<1>2. n \in Nat /\ I = 1..n /\ IsFiniteSet(I)
  BY LenProperties, FS_Interval
<1> HIDE DEF n, I
<1>3. ASSUME NEW s \in SUBSET I
      PROVE  /\ s # {} => Max(s) \in s
             /\ Cardinality(s) \in Nat /\ Cardinality(I) \in Nat /\ Cardinality(s) <= Cardinality(I)
             /\ (Cardinality(s) = 0) <=> (s = {})
             /\ \A x \in s : s \ {x} \in SUBSET I /\ Cardinality(s \ {x}) = Cardinality(s) - 1
  <2>1. s # {} => Max(s) \in s
    BY <1>2, MaxIsIn
  <2> HIDE DEF P, iter, Body
  <2>2. Cardinality(s) \in Nat /\ Cardinality(I) \in Nat /\ Cardinality(s) <= Cardinality(I)
    BY <1>2, FS_Subset, FS_CardinalityType, Zenon
  <2>3. (Cardinality(s) = 0) <=> (s = {})
    BY <1>2, Smaller, Zenon
  <2>4. \A x \in s : s \ {x} \in SUBSET I /\ Cardinality(s \ {x}) = Cardinality(s) - 1
    BY <1>2, Smaller, Zenon
  <2> QED
    BY <2>1, <2>2, <2>3, <2>4
<1>4. 0 \in P
  <2> DEFINE g == [s \in SUBSET I |-> NoneVisited(td)]
  <2>1. \A s \in SUBSET I : Cardinality(s) <= 0 => s = {}
    BY <1>3
  <2>2. \A s \in SUBSET I : Cardinality(s) <= 0 => g[s] = Body(g)[s]
    BY <2>1
  <2> HIDE DEF g, Body
  <2> QED
    BY <2>2
<1>5. ASSUME NEW k \in P PROVE k + 1 \in P
  <2>1. PICK g : \A s \in SUBSET I : Cardinality(s) <= k => g[s] = Body(g)[s]
    OBVIOUS
  <2> DEFINE h == Body(g)
  <2>2. ASSUME NEW s \in SUBSET I, Cardinality(s) <= k + 1 PROVE h[s] = Body(h)[s]
    <3>1. CASE s = {}
      BY <3>1
    <3>2. CASE s # {}
      <4>1. s \ {Max(s)} \in SUBSET I /\ Cardinality(s \ {Max(s)}) <= k
        <5>1. Max(s) \in s /\ Cardinality(s) \in Nat /\ k \in Nat
          BY <1>3, <3>2
        <5>2. s \ {Max(s)} \in SUBSET I /\ Cardinality(s \ {Max(s)}) = Cardinality(s) - 1
          BY <1>3, <5>1
        <5> QED
          BY <2>2, <5>1, <5>2
      <4>2. h[s \ {Max(s)}] = g[s \ {Max(s)}]
        BY <2>1, <4>1
      <4> QED
        BY <3>2, <4>2
    <3> QED
      BY <3>1, <3>2
  <2> HIDE DEF h, Body
  <2> QED
    BY <2>2
<1>6. P = Nat
  <2> HIDE DEF P
  <2>1. P \in SUBSET Nat
    BY DEF P
  <2> QED
    BY <1>4, <1>5, <2>1, AllNumbers
<1>7. Cardinality(I) \in P
  <2>1. Cardinality(I) \in Nat
    BY <1>3
  <2> HIDE DEF P
  <2> QED
    BY <1>6, <2>1
<1>8. PICK g : \A s \in SUBSET I : Cardinality(s) <= Cardinality(I) => g[s] = Body(g)[s]
  BY <1>7
<1>9. Body(g) = Body(Body(g))
  <2>1. \A s \in SUBSET I : g[s] = Body(g)[s]
    BY <1>3, <1>8
  <2>2. \A s \in SUBSET I : s # {} => s \ {Max(s)} \in SUBSET I
    OBVIOUS
  <2>3. \A s \in SUBSET I : Body(g)[s] = Body(Body(g))[s]
    BY <2>1, <2>2
  <2> QED
    BY <2>3
<1> HIDE DEF Body
<1>10. iter = Body(iter)
  BY <1>9
<1> HIDE DEF iter
<1> DEFINE a == [i \in 0..n |-> iter[1..i]]
<1>11. \A s \in SUBSET I : iter[s] = IF s = {} THEN NoneVisited(td)
                                     ELSE Visit(iter[s \ {Max(s)}], td[Max(s)], maxSpans, held)
  BY <1>10 DEF Body
<1>12. a[0] = NoneVisited(td)
  <2>1. {} \in SUBSET I /\ 1..0 = {} /\ 0 \in 0..n
    BY <1>2
  <2> QED
    BY <1>11, <2>1
<1>13. ASSUME NEW i \in 1..n PROVE a[i] = Visit(a[i - 1], td[i], maxSpans, held)
  <2>1. 1..i \in SUBSET I /\ 1..i # {} /\ i \in 0..n /\ i - 1 \in 0..n /\ (1..i) \ {i} = 1..(i - 1)
    <3>1. n \in Nat /\ i \in Nat /\ i >= 1 /\ i <= n
      BY <1>2
    <3>2. \A x : x \in 1..i => x \in I
      BY <1>2, <3>1
    <3>3. i \in 1..i /\ i \in 0..n /\ i - 1 \in 0..n
      BY <3>1
    <3>4. (1..i) \ {i} = 1..(i - 1)
      BY <3>1
    <3> QED
      BY <3>2, <3>3, <3>4
  <2>2. Max(1..i) = i
    <3>1. i \in Nat /\ 1..i \in SUBSET (1..i)
      BY <1>2
    <3> DEFINE s == 1..i
    <3>2. s # {} /\ s \in SUBSET (1..i) /\ i \in s
      BY <2>1, <3>1
    <3> HIDE DEF s
    <3>3. Max(s) \in s /\ i <= Max(s)
      BY <3>1, <3>2, MaxIsIn
    <3> QED
      BY <3>1, <3>3 DEF s
  <2> QED
    BY <1>11, <2>1, <2>2
<1>14. a[n] = iter[I]
  BY <1>2
<1> HIDE DEF a
<1> QED
  BY <1>1, <1>12, <1>13, <1>14 DEF Visits, n

-----------------------------------------------------------------------------
(* What a snapshot holds.                                                  *)

\* No two spans of a trace have the same id in a delivery.
IDsDiffer(td) ==
  \A i, j \in DOMAIN td : td[i].tid = td[j].tid /\ td[i].sid = td[j].sid => i = j

\* The carrier of a trace is its first span of the delivery (toEngineSpans).
FirstOfTrace(td, i) == \A j \in 1..(i - 1) : td[j].tid # td[i].tid

\* The ids of the first k spans of a delivery that are of trace id, and how many
\* of them there are.
IDsUpTo(td, k, id) == {td[i].sid : i \in {j \in 1..k : td[j].tid = id}}
Brought(td, k, id) == Cardinality({j \in 1..k : td[j].tid = id})

\* Span i fits under the cap: with those before it and those the engine holds
\* there are fewer than maxSpans. And the ids of the first k that fit.
Fits(td, maxSpans, held, i) ==
  InCap(maxSpans, held[td[i].tid], Brought(td, i - 1, td[i].tid))
FittingIDs(td, maxSpans, held, k, id) ==
  {td[i].sid : i \in {j \in 1..k : td[j].tid = id /\ Fits(td, maxSpans, held, j)}}

\* Under a cap, the engine holds a number of spans of every trace.
Limits(td, maxSpans, held) ==
  maxSpans \in Nat /\ (maxSpans > 0 => \A i \in DOMAIN td : held[td[i].tid] \in Nat)

\* Of n spans all were copied, or so many that the cap is reached, and never
\* more than the cap.
Copied(copied, n, maxSpans, h) ==
  /\ copied \in Nat /\ n \in Nat /\ (maxSpans > 0 => copied <= maxSpans)
  /\ copied = n \/ (maxSpans > 0 /\ copied <= n /\ h + copied >= maxSpans)

\* The snapshot of trace id after k spans.
LoadedTrace(S, snap, td, maxSpans, held, k, id) ==
  /\ snap \in Snapshots(S) /\ Apart(S, snap)
  /\ BlockIDs(snap) = FittingIDs(td, maxSpans, held, k, id)
  /\ snap = <<>> <=> \A i \in 1..k : ~(td[i].tid = id /\ Fits(td, maxSpans, held, i))
  /\ Copied(Cardinality(BlockIDs(snap)), Brought(td, k, id), maxSpans, held[id])

\* The accumulator after k spans.
Loading(S, acc, td, maxSpans, held, k) ==
  /\ acc = [out |-> acc.out, snap |-> acc.snap, carriers |-> acc.carriers]
  /\ acc.out \in Seq([tid : {td[i].tid : i \in DOMAIN td}, sid : {td[i].sid : i \in DOMAIN td},
                      kind : {KindOf(td[i]) : i \in DOMAIN td}])
  /\ Len(acc.out) = k
  /\ \A i \in 1..k : /\ acc.out[i].tid = td[i].tid /\ acc.out[i].sid = td[i].sid
                     /\ acc.out[i].kind = KindOf(td[i])
  /\ acc.snap \in [{td[i].tid : i \in DOMAIN td} -> Snapshots(S)]
  /\ \A id \in {td[i].tid : i \in DOMAIN td} :
       LoadedTrace(S, acc.snap[id], td, maxSpans, held, k, id)
  /\ acc.carriers = {i \in 1..k : FirstOfTrace(td, i) /\ Fits(td, maxSpans, held, i)}

\* As many spans of a trace came, one by one.
LEMMA BroughtGrows ==
  ASSUME NEW td, NEW id, NEW k \in Nat
  PROVE  /\ Brought(td, k, id) \in Nat /\ Brought(td, 0, id) = 0
         /\ td[k + 1].tid = id => Brought(td, k + 1, id) = Brought(td, k, id) + 1
         /\ td[k + 1].tid # id => Brought(td, k + 1, id) = Brought(td, k, id)
         /\ Brought(td, k, id) = 0 <=> \A j \in 1..k : td[j].tid # id
<1> DEFINE J(m) == {j \in 1..m : td[j].tid = id}
<1>1. \A m \in Nat : IsFiniteSet(J(m)) /\ Cardinality(J(m)) \in Nat
  <2> SUFFICES ASSUME NEW m \in Nat PROVE IsFiniteSet(J(m)) /\ Cardinality(J(m)) \in Nat
    OBVIOUS
  <2>1. IsFiniteSet(1..m) /\ J(m) \in SUBSET (1..m)
    BY FS_Interval
  <2> QED
    BY <2>1, FS_Subset, FS_CardinalityType
<1>2. k + 1 \notin J(k) /\ J(k + 1) = IF td[k + 1].tid = id THEN J(k) \cup {k + 1} ELSE J(k)
  OBVIOUS
<1>3. J(0) = {}
  OBVIOUS
<1>4. J(k) = {} <=> \A j \in 1..k : td[j].tid # id
  OBVIOUS
<1>5. \A m : Brought(td, m, id) = Cardinality(J(m))
  BY DEF Brought
<1> HIDE DEF J
<1>6. /\ td[k + 1].tid = id => Cardinality(J(k + 1)) = Cardinality(J(k)) + 1
      /\ td[k + 1].tid # id => Cardinality(J(k + 1)) = Cardinality(J(k))
  BY <1>1, <1>2, FS_AddElement
<1>7. Cardinality(J(0)) = 0 /\ (Cardinality(J(k)) = 0 <=> J(k) = {})
  BY <1>1, <1>3, FS_EmptySet
<1> QED
  BY <1>1, <1>4, <1>5, <1>6, <1>7

\* What was copied is in cap as far as what came is.
LEMMA CopiedInCap ==
  ASSUME NEW maxSpans \in Nat, NEW copied, NEW n, NEW h, maxSpans > 0 => h \in Nat,
         Copied(copied, n, maxSpans, h)
  PROVE  /\ InCap(maxSpans, h, copied) <=> InCap(maxSpans, h, n)
         /\ InCap(maxSpans, h, n) => copied = n /\ Copied(copied + 1, n + 1, maxSpans, h)
         /\ ~InCap(maxSpans, h, n) => Copied(copied, n + 1, maxSpans, h)
<1>1. CASE maxSpans > 0
  BY <1>1 DEF Copied, InCap
<1>2. CASE maxSpans = 0
  BY <1>2 DEF Copied, InCap
<1> QED
  BY <1>1, <1>2

\* Before the loop of toEngineSpans nothing is loaded.
LEMMA NothingLoaded ==
  ASSUME NEW S
  PROVE  <<>> \in Snapshots(S) /\ BlockIDs(<<>>) = {} /\ Apart(S, <<>>)
  BY DEF Snapshots, BlockIDs, Apart, Pairwise, Range

\* The spans of a snapshot are as many as their ids.
LEMMA SnapshotLength ==
  ASSUME NEW S, NEW snap \in Snapshots(S), Apart(S, snap)
  PROVE  Len(SpansOf(snap)) = Cardinality(BlockIDs(snap)) /\ IsFiniteSet(BlockIDs(snap))
<1> DEFINE s == SpansOf(snap)
<1>1. s \in Seq(S) /\ SpanIDsOf(s) = BlockIDs(snap) /\ Pairwise(s, OtherID(S))
  BY SpansOfSnapshot
<1> HIDE DEF s
<1>2. \A i, j \in DOMAIN s : i < j => s[i].sid # s[j].sid
  BY <1>1 DEF Pairwise, OtherID
<1>3. Cardinality(SpanIDsOf(s)) = Len(s) /\ IsFiniteSet(SpanIDsOf(s))
  BY <1>1, <1>2, AsManyAsIDs
<1> QED
  BY <1>1, <1>3 DEF s

\* Whether a span fits is seen from the snapshot of its trace.
LEMMA FitsAsCopied ==
  ASSUME NEW S, NEW td \in Seq(S), NEW maxSpans, NEW held, Limits(td, maxSpans, held),
         NEW k \in Nat, k + 1 \in DOMAIN td, NEW snap,
         LoadedTrace(S, snap, td, maxSpans, held, k, td[k + 1].tid)
  PROVE  /\ InCap(maxSpans, held[td[k + 1].tid], Len(SpansOf(snap))) <=> Fits(td, maxSpans, held, k + 1)
         /\ Fits(td, maxSpans, held, k + 1) => (snap = <<>> <=> FirstOfTrace(td, k + 1))
<1> DEFINE id == td[k + 1].tid
           n == Brought(td, k, id)
           l == Cardinality(BlockIDs(snap))
<1>1. Len(SpansOf(snap)) = l /\ Copied(l, n, maxSpans, held[id]) /\ (k + 1) - 1 = k
  BY SnapshotLength DEF LoadedTrace
<1>2. maxSpans \in Nat /\ (maxSpans > 0 => held[id] \in Nat)
  BY DEF Limits
<1>3. Fits(td, maxSpans, held, k + 1) <=> InCap(maxSpans, held[id], n)
  BY <1>1 DEF Fits
<1>4. n = 0 <=> FirstOfTrace(td, k + 1)
  <2>1. FirstOfTrace(td, k + 1) <=> \A j \in 1..k : td[j].tid # id
    BY <1>1 DEF FirstOfTrace
  <2>2. n = 0 <=> \A j \in 1..k : td[j].tid # id
    BY BroughtGrows, Zenon
  <2> QED
    BY <2>1, <2>2
<1>5. snap = <<>> => l = 0
  BY NothingLoaded, FS_EmptySet
<1>6. FirstOfTrace(td, k + 1) => snap = <<>>
  BY <1>1 DEF FirstOfTrace, LoadedTrace
<1> HIDE DEF id, n, l
<1>7. (InCap(maxSpans, held[id], l) <=> InCap(maxSpans, held[id], n))
        /\ (InCap(maxSpans, held[id], n) => l = n)
  BY <1>1, <1>2, CopiedInCap
<1> QED
  BY <1>1, <1>3, <1>4, <1>5, <1>6, <1>7 DEF id

\* A span of another trace leaves the snapshot as it is.
LEMMA OtherTraceLoads ==
  ASSUME NEW S, NEW td \in Seq(S), NEW maxSpans, NEW held, NEW k \in Nat, NEW id,
         td[k + 1].tid # id, NEW snap, LoadedTrace(S, snap, td, maxSpans, held, k, id)
  PROVE  LoadedTrace(S, snap, td, maxSpans, held, k + 1, id)
<1>1. \A i : i \in 1..(k + 1) <=> i \in 1..k \/ i = k + 1
  OBVIOUS
<1>2. FittingIDs(td, maxSpans, held, k + 1, id) = FittingIDs(td, maxSpans, held, k, id)
  BY <1>1 DEF FittingIDs
<1>3. Brought(td, k + 1, id) = Brought(td, k, id)
  BY BroughtGrows
<1> QED
  BY <1>1, <1>2, <1>3 DEF LoadedTrace

\* A span of the trace joins its snapshot if it fits.
LEMMA TraceLoads ==
  ASSUME NEW S, NEW td \in Seq(S), IDsDiffer(td), NEW maxSpans, NEW held,
         Limits(td, maxSpans, held), NEW k \in Nat, k + 1 \in DOMAIN td, NEW snap,
         LoadedTrace(S, snap, td, maxSpans, held, k, td[k + 1].tid)
  PROVE  LoadedTrace(S, IF Fits(td, maxSpans, held, k + 1) THEN AppendToBlock(snap, td[k + 1])
                        ELSE snap,
                     td, maxSpans, held, k + 1, td[k + 1].tid)
<1> DEFINE sp == td[k + 1]
           id == sp.tid
           n == Brought(td, k, id)
           l == Cardinality(BlockIDs(snap))
           new == AppendToBlock(snap, sp)
<1>1. /\ snap \in Snapshots(S) /\ Apart(S, snap) /\ IsFiniteSet(BlockIDs(snap))
      /\ BlockIDs(snap) = FittingIDs(td, maxSpans, held, k, id)
      /\ Copied(l, n, maxSpans, held[id]) /\ (k + 1) - 1 = k
  BY SnapshotLength DEF LoadedTrace
<1>2. maxSpans \in Nat /\ (maxSpans > 0 => held[id] \in Nat)
  BY DEF Limits
<1>3. Fits(td, maxSpans, held, k + 1) <=> InCap(maxSpans, held[id], n)
  BY <1>1 DEF Fits
<1>4. Brought(td, k + 1, id) = n + 1
  BY BroughtGrows
<1>5. \A i : i \in 1..(k + 1) <=> i \in 1..k \/ i = k + 1
  OBVIOUS
<1>6. sp \in S /\ DOMAIN td = 1..Len(td) /\ \A i \in 1..k : i \in DOMAIN td /\ i # k + 1
  BY LenProperties, ElementOfSeq
<1>7. sp.sid \notin BlockIDs(snap)
  BY <1>1, <1>6 DEF IDsDiffer, FittingIDs
<1>8. CASE Fits(td, maxSpans, held, k + 1)
  <2>1. FittingIDs(td, maxSpans, held, k + 1, id) = FittingIDs(td, maxSpans, held, k, id) \cup {sp.sid}
    BY <1>5, <1>8 DEF FittingIDs
  <2>2. /\ new \in Snapshots(S) /\ new # <<>> /\ Apart(S, new)
        /\ BlockIDs(new) = BlockIDs(snap) \cup {sp.sid}
    BY <1>1, <1>6, <1>7, AppendKeepsSnapshot
  <2>3. ~ \A i \in 1..(k + 1) : ~(td[i].tid = id /\ Fits(td, maxSpans, held, i))
    BY <1>5, <1>8
  <2> HIDE DEF new, n, id, sp, l
  <2>4. Cardinality(BlockIDs(new)) = l + 1
    BY <1>1, <1>7, <2>2, FS_AddElement DEF l
  <2>5. Copied(l + 1, n + 1, maxSpans, held[id])
    BY <1>1, <1>2, <1>3, <1>8, CopiedInCap
  <2>6. LoadedTrace(S, new, td, maxSpans, held, k + 1, id)
    BY <1>1, <1>4, <2>1, <2>2, <2>3, <2>4, <2>5 DEF LoadedTrace
  <2> QED
    BY <1>8, <2>6 DEF new, id, sp
<1>9. CASE ~Fits(td, maxSpans, held, k + 1)
  <2>1. FittingIDs(td, maxSpans, held, k + 1, id) = FittingIDs(td, maxSpans, held, k, id)
    BY <1>5, <1>9 DEF FittingIDs
  <2>2. (\A i \in 1..(k + 1) : ~(td[i].tid = id /\ Fits(td, maxSpans, held, i)))
          <=> \A i \in 1..k : ~(td[i].tid = id /\ Fits(td, maxSpans, held, i))
    BY <1>5, <1>9
  <2> HIDE DEF n, l
  <2>3. Copied(l, n + 1, maxSpans, held[id])
    BY <1>1, <1>2, <1>3, <1>9, CopiedInCap
  <2>4. LoadedTrace(S, snap, td, maxSpans, held, k + 1, id)
    BY <1>1, <1>4, <2>1, <2>2, <2>3 DEF LoadedTrace, l
  <2> QED
    BY <1>9, <2>4
<1> QED
  BY <1>8, <1>9

\* An iteration of the loop of toEngineSpans adds a span that fits to the snapshot
\* of its trace, and makes it the carrier when it is the first one.
LEMMA VisitLoads ==
  ASSUME NEW S, NEW td \in Seq(S), IDsDiffer(td), NEW maxSpans, NEW held,
         Limits(td, maxSpans, held), NEW k \in Nat, k + 1 \in DOMAIN td,
         NEW acc, Loading(S, acc, td, maxSpans, held, k)
  PROVE  Loading(S, Visit(acc, td[k + 1], maxSpans, held), td, maxSpans, held, k + 1)
<1> DEFINE sp == td[k + 1]
           ids == {td[i].tid : i \in DOMAIN td}
           Outs == [tid : ids, sid : {td[i].sid : i \in DOMAIN td},
                    kind : {KindOf(td[i]) : i \in DOMAIN td}]
           o == [tid |-> sp.tid, sid |-> sp.sid, kind |-> KindOf(sp)]
           out == Append(acc.out, o)
           snap == acc.snap[sp.tid]
           fits == Fits(td, maxSpans, held, k + 1)
           new == IF fits THEN AppendToBlock(snap, sp) ELSE snap
           next == Visit(acc, sp, maxSpans, held)
<1>1. /\ Len(td) \in Nat /\ DOMAIN td = 1..Len(td) /\ k + 1 \in 1..Len(td)
      /\ sp.tid \in ids /\ \A i \in 1..k : i \in DOMAIN td
      /\ 1..(k + 1) = (1..k) \cup {k + 1} /\ k + 1 \notin 1..k
  BY LenProperties
<1>2. LoadedTrace(S, snap, td, maxSpans, held, k, sp.tid) /\ acc.snap \in [ids -> Snapshots(S)]
  BY <1>1 DEF Loading
<1>3. InCap(maxSpans, held[sp.tid], Len(SpansOf(snap))) <=> fits
  BY <1>2, FitsAsCopied
<1>4. fits => (snap = <<>> <=> FirstOfTrace(td, k + 1))
  BY <1>2, FitsAsCopied
<1>5. LoadedTrace(S, new, td, maxSpans, held, k + 1, sp.tid)
  BY <1>2, TraceLoads
<1> DEFINE snaps == [acc.snap EXCEPT ![sp.tid] = new]
           carriers == IF fits /\ snap = <<>> THEN acc.carriers \cup {Len(out)} ELSE acc.carriers
<1>6. next = [out |-> out, snap |-> snaps, carriers |-> carriers]
  <2>1. CASE fits
    <3>1. next = [out |-> out,
                  snap |-> [acc.snap EXCEPT ![sp.tid] = AppendToBlock(acc.snap[sp.tid], sp)],
                  carriers |-> IF snap = <<>> THEN acc.carriers \cup {Len(out)} ELSE acc.carriers]
      BY <1>3, <2>1 DEF Visit
    <3> QED
      BY <2>1, <3>1
  <2>2. CASE ~fits
    <3>1. next = [acc EXCEPT !.out = out]
      BY <1>3, <2>2 DEF Visit
    <3>2. snaps = acc.snap
      BY <1>1, <1>2, <2>2
    <3>3. acc = [out |-> acc.out, snap |-> acc.snap, carriers |-> acc.carriers]
      BY DEF Loading
    <3> HIDE DEF next, out, snaps
    <3>4. next = [out |-> out, snap |-> acc.snap, carriers |-> acc.carriers]
      BY <3>1, <3>3
    <3> QED
      BY <2>2, <3>2, <3>4
  <2> QED
    BY <2>1, <2>2
<1> HIDE DEF next, out, o, snaps, carriers
<1>7. next.out = out /\ next.snap = snaps /\ next.carriers = carriers
  BY <1>6
<1>8. /\ out \in Seq(Outs) /\ Len(out) = k + 1 /\ out[k + 1] = o
      /\ \A i \in 1..k : out[i] = acc.out[i]
  <2>1. acc.out \in Seq(Outs) /\ Len(acc.out) = k
    BY DEF Loading
  <2>2. o \in Outs
    BY <1>1 DEF o
  <2> HIDE DEF Outs
  <2> QED
    BY <2>1, <2>2, AppendProperties DEF out
<1>9. \A i \in 1..(k + 1) : /\ out[i].tid = td[i].tid /\ out[i].sid = td[i].sid
                            /\ out[i].kind = KindOf(td[i])
  <2>1. \A i \in 1..k : /\ out[i].tid = td[i].tid /\ out[i].sid = td[i].sid
                        /\ out[i].kind = KindOf(td[i])
    BY <1>8 DEF Loading
  <2>2. /\ out[k + 1].tid = td[k + 1].tid /\ out[k + 1].sid = td[k + 1].sid
        /\ out[k + 1].kind = KindOf(td[k + 1])
    BY <1>8 DEF o
  <2> HIDE DEF sp, ids, Outs, snap, fits, new
  <2> QED
    BY <1>1, <2>1, <2>2
<1>10. /\ snaps \in [ids -> Snapshots(S)] /\ snaps[sp.tid] = new
       /\ \A id \in ids : id # sp.tid => snaps[id] = acc.snap[id]
  <2>1. new \in Snapshots(S)
    BY <1>5 DEF LoadedTrace
  <2> HIDE DEF snap, sp, ids, fits, new
  <2> QED
    BY <1>1, <1>2, <2>1 DEF snaps
<1>11. ASSUME NEW id \in ids
       PROVE  LoadedTrace(S, snaps[id], td, maxSpans, held, k + 1, id)
  <2>1. CASE id = sp.tid
    <3> HIDE DEF snap, sp, ids, fits, new
    <3> QED
      BY <1>5, <1>10, <2>1
  <2>2. CASE id # sp.tid
    <3>1. LoadedTrace(S, acc.snap[id], td, maxSpans, held, k, id)
      BY DEF Loading
    <3>2. LoadedTrace(S, acc.snap[id], td, maxSpans, held, k + 1, id)
      BY <2>2, <3>1, OtherTraceLoads
    <3> HIDE DEF snap, sp, ids, fits, new
    <3> QED
      BY <1>10, <2>2, <3>2
  <2> QED
    BY <2>1, <2>2
<1>12. carriers = {i \in 1..(k + 1) : FirstOfTrace(td, i) /\ Fits(td, maxSpans, held, i)}
  <2>1. acc.carriers = {i \in 1..k : FirstOfTrace(td, i) /\ Fits(td, maxSpans, held, i)}
    BY DEF Loading
  <2> HIDE DEF snap, sp, ids, new
  <2>2. carriers = IF fits /\ FirstOfTrace(td, k + 1) THEN acc.carriers \cup {k + 1} ELSE acc.carriers
    BY <1>4, <1>8 DEF carriers
  <2> QED
    BY <1>1, <2>1, <2>2
<1> HIDE DEF sp, snap, fits, new
<1>13. Loading(S, next, td, maxSpans, held, k + 1)
  BY <1>6, <1>7, <1>8, <1>9, <1>10, <1>11, <1>12 DEF Loading
<1> QED
  BY <1>13 DEF next, sp

\* If the first span of a trace does not fit, none does.
LEMMA FirstFits ==
  ASSUME NEW S, NEW td \in Seq(S), NEW maxSpans, NEW held, Limits(td, maxSpans, held),
         NEW i \in DOMAIN td, FirstOfTrace(td, i), ~Fits(td, maxSpans, held, i), NEW k
  PROVE  FittingIDs(td, maxSpans, held, k, td[i].tid) = {}
<1> DEFINE id == td[i].tid
<1>1. DOMAIN td = 1..Len(td) /\ Len(td) \in Nat /\ i - 1 \in Nat
  BY LenProperties
<1>2. Brought(td, i - 1, id) = 0
  BY <1>1, BroughtGrows DEF FirstOfTrace
<1>3. maxSpans \in Nat /\ maxSpans > 0 /\ held[id] \in Nat /\ held[id] >= maxSpans
  BY <1>2 DEF Fits, InCap, Limits
<1>4. ASSUME NEW j \in 1..k, td[j].tid = id PROVE ~Fits(td, maxSpans, held, j)
  <2>1. j - 1 \in Nat
    OBVIOUS
  <2>2. Brought(td, j - 1, id) \in Nat
    BY <2>1, BroughtGrows
  <2> HIDE DEF id
  <2> QED
    BY <1>3, <1>4, <2>2 DEF Fits, InCap
<1> QED
  BY <1>4 DEF FittingIDs

\* After each span, the loop has loaded the spans so far.
LEMMA LoopLoads ==
  ASSUME NEW S, NEW td \in Seq(S), IDsDiffer(td), NEW maxSpans, NEW held,
         Limits(td, maxSpans, held)
  PROVE  \E a : /\ Visits(a, td, maxSpans, held)
                /\ ToEngineSpans(td, maxSpans, held) = Loaded(a[Len(td)])
                /\ \A k \in 0..Len(td) : Loading(S, a[k], td, maxSpans, held, k)
<1> DEFINE n == Len(td)
           spans == ToEngineSpans(td, maxSpans, held)
           ids == {td[i].tid : i \in DOMAIN td}
           Loads(x, k) == Loading(S, x, td, maxSpans, held, k)
<1>1. PICK a : Visits(a, td, maxSpans, held) /\ spans = Loaded(a[n])
  BY LoopVisits
<1>2. n \in Nat /\ DOMAIN td = 1..n
  BY LenProperties
<1> DEFINE P == {k \in Nat : k <= n => Loads(a[k], k)}
<1>3. 0 \in P
  <2>1. a[0] = NoneVisited(td) /\ 1..0 = {}
    BY <1>1 DEF Visits
  <2>2. \A id \in ids : LoadedTrace(S, <<>>, td, maxSpans, held, 0, id)
    <3> SUFFICES ASSUME NEW id \in ids PROVE LoadedTrace(S, <<>>, td, maxSpans, held, 0, id)
      OBVIOUS
    <3>1. Brought(td, 0, id) = 0
      BY BroughtGrows
    <3>2. FittingIDs(td, maxSpans, held, 0, id) = {} /\ Copied(0, 0, maxSpans, held[id])
      BY <2>1 DEF FittingIDs, Copied, Limits
    <3>3. Cardinality(BlockIDs(<<>>)) = 0
      BY NothingLoaded, FS_EmptySet
    <3> QED
      BY <2>1, <3>1, <3>2, <3>3, NothingLoaded DEF LoadedTrace
  <2>3. Loads(NoneVisited(td), 0)
    BY <2>1, <2>2, NothingLoaded DEF NoneVisited, Loading
  <2> QED
    BY <2>1, <2>3
<1> HIDE DEF n, spans
<1>4. ASSUME NEW k \in P PROVE k + 1 \in P
  <2> SUFFICES ASSUME k + 1 <= n PROVE Loads(a[k + 1], k + 1)
    OBVIOUS
  <2>1. k \in Nat /\ k + 1 \in 1..n /\ (k + 1) - 1 = k /\ Loads(a[k], k)
    BY <1>2
  <2>2. a[k + 1] = Visit(a[k], td[k + 1], maxSpans, held)
    BY <1>1, <2>1 DEF Visits, n
  <2> QED
    BY <1>2, <2>1, <2>2, VisitLoads
<1>5. P = Nat
  <2> HIDE DEF P
  <2>1. P \in SUBSET Nat
    BY DEF P
  <2> QED
    BY <1>3, <1>4, <2>1, AllNumbers
<1>6. \A k \in 0..n : Loading(S, a[k], td, maxSpans, held, k)
  <2> SUFFICES ASSUME NEW k \in 0..n PROVE Loads(a[k], k)
    OBVIOUS
  <2>1. k \in Nat /\ k <= n
    BY <1>2
  <2>2. k \in P
    BY <1>5, <2>1, Zenon
  <2> QED
    BY <2>1, <2>2
<1> QED
  BY <1>1, <1>6 DEF n, spans

\* The engine spans of a delivery: one for each span, and the first of each
\* trace carries the snapshot of those that fit, at most as many as the cap
\* (toEngineSpans).
LEMMA Conversion ==
  ASSUME NEW S, NEW td \in Seq(S), IDsDiffer(td), NEW maxSpans, NEW held,
         Limits(td, maxSpans, held)
  PROVE  LET spans == ToEngineSpans(td, maxSpans, held) IN
         /\ spans \in Seq(Range(spans)) /\ DOMAIN spans = 1..Len(td)
         /\ \A i \in 1..Len(td) :
              /\ spans[i].tid = td[i].tid /\ spans[i].sid = td[i].sid /\ spans[i].kind = KindOf(td[i])
              /\ spans[i].raw \in Snapshots(S) /\ Apart(S, spans[i].raw)
              /\ BlockIDs(spans[i].raw) =
                   IF FirstOfTrace(td, i) THEN FittingIDs(td, maxSpans, held, Len(td), td[i].tid)
                   ELSE {}
              /\ maxSpans > 0 => Cardinality(BlockIDs(spans[i].raw)) <= maxSpans
<1> DEFINE n == Len(td)
           spans == ToEngineSpans(td, maxSpans, held)
           ids == {td[i].tid : i \in DOMAIN td}
<1>1. PICK a : /\ Visits(a, td, maxSpans, held) /\ spans = Loaded(a[n])
               /\ \A k \in 0..n : Loading(S, a[k], td, maxSpans, held, k)
  BY LoopLoads
<1>2. n \in Nat /\ DOMAIN td = 1..n
  BY LenProperties
<1> HIDE DEF n, spans
<1>3. Loading(S, a[n], td, maxSpans, held, n)
  BY <1>1, <1>2
<1> DEFINE end == a[n]
<1> HIDE DEF end
<1>4. /\ DOMAIN end.out = 1..n
      /\ \A i \in 1..n : /\ end.out[i].tid = td[i].tid /\ end.out[i].sid = td[i].sid
                         /\ end.out[i].kind = KindOf(td[i])
      /\ \A id \in ids : /\ end.snap[id] \in Snapshots(S) /\ Apart(S, end.snap[id])
                         /\ BlockIDs(end.snap[id]) = FittingIDs(td, maxSpans, held, n, id)
                         /\ maxSpans > 0 => Cardinality(BlockIDs(end.snap[id])) <= maxSpans
      /\ end.carriers = {i \in 1..n : FirstOfTrace(td, i) /\ Fits(td, maxSpans, held, i)}
  <2>1. Loading(S, end, td, maxSpans, held, n)
    BY <1>3 DEF end
  <2>2. DOMAIN end.out = 1..n
    BY <2>1, LenProperties DEF Loading
  <2> QED
    BY <2>1, <2>2 DEF Loading, LoadedTrace, Copied
<1>5. spans = Loaded(end)
  BY <1>1 DEF end
<1>6. ASSUME NEW i \in 1..n
      PROVE  /\ spans[i].tid = td[i].tid /\ spans[i].sid = td[i].sid /\ spans[i].kind = KindOf(td[i])
             /\ spans[i].raw \in Snapshots(S) /\ Apart(S, spans[i].raw)
             /\ BlockIDs(spans[i].raw) =
                  IF FirstOfTrace(td, i) THEN FittingIDs(td, maxSpans, held, n, td[i].tid) ELSE {}
             /\ maxSpans > 0 => Cardinality(BlockIDs(spans[i].raw)) <= maxSpans
  <2>1. /\ spans[i].tid = td[i].tid /\ spans[i].sid = td[i].sid /\ spans[i].kind = KindOf(td[i])
        /\ spans[i].raw = IF i \in end.carriers THEN end.snap[td[i].tid] ELSE NoRaw
    BY <1>4, <1>5 DEF Loaded
  <2>2. td[i].tid \in ids
    BY <1>2
  <2>3. FirstOfTrace(td, i) /\ ~Fits(td, maxSpans, held, i)
          => FittingIDs(td, maxSpans, held, n, td[i].tid) = {}
    BY <1>2, FirstFits
  <2>4. i \in end.carriers <=> FirstOfTrace(td, i) /\ Fits(td, maxSpans, held, i)
    BY <1>4
  <2>5. Cardinality(BlockIDs(NoRaw)) = 0 /\ maxSpans \in Nat
    BY NothingLoaded, FS_EmptySet DEF NoRaw, Limits
  <2>6. maxSpans > 0 => Cardinality(BlockIDs(spans[i].raw)) <= maxSpans
    BY <1>4, <2>1, <2>2, <2>5
  <2> QED
    BY <1>4, <2>1, <2>2, <2>3, <2>4, <2>6, NothingLoaded DEF NoRaw
<1>7. spans \in Seq(Range(spans)) /\ DOMAIN spans = 1..n
  <2>1. DOMAIN spans = 1..n /\ spans = [i \in 1..n |-> spans[i]]
    BY <1>4, <1>5 DEF Loaded
  <2>2. \A i \in 1..n : spans[i] \in Range(spans)
    BY <2>1 DEF Range
  <2>3. spans \in [1..n -> Range(spans)]
    BY <2>1, <2>2
  <2> QED
    BY <1>2, <2>1, <2>3
<1> QED
  BY <1>6, <1>7 DEF n, spans

-----------------------------------------------------------------------------
(* What fromEngineSpans makes of spans that carry snapshots.               *)

\* The ids in the snapshots that the spans of a trace carry.
CarriedBy(spans) == UNION {BlockIDs(spans[x].raw) : x \in DOMAIN spans}

\* No id is in the snapshots twice.
Packed(S, spans) ==
  /\ \A x \in DOMAIN spans : spans[x].raw \in Snapshots(S) /\ Apart(S, spans[x].raw)
  /\ \A x, y \in DOMAIN spans :
       x < y => BlockIDs(spans[x].raw) \cap BlockIDs(spans[y].raw) = {}

\* The spans in the snapshots are as many as their ids.
LEMMA EmissionIDs ==
  ASSUME NEW S, NEW T, NEW u \in Seq(T), Packed(S, u)
  PROVE  LET out == SpansOf(FromEngineSpans(u)) IN
         /\ FromEngineSpans(u) \in Snapshots(S)
         /\ out \in Seq(S) /\ Pairwise(out, OtherID(S))
         /\ SpanIDsOf(out) = CarriedBy(u)
         /\ Len(out) = Cardinality(CarriedBy(u)) /\ IsFiniteSet(CarriedBy(u))
<1> DEFINE ss == [x \in DOMAIN u |-> u[x].raw]
           blocks == FlattenSeq(ss)
<1>1. DOMAIN u = 1..Len(u) /\ Len(u) \in Nat
  BY LenProperties
<1>2. /\ \A x \in DOMAIN u : ss[x] = u[x].raw /\ ss[x] \in Seq(Blocks(S))
      /\ ss \in Seq(Seq(Blocks(S))) /\ DOMAIN ss = DOMAIN u
  BY <1>1 DEF Packed, Snapshots
<1>3. FromEngineSpans(u) = blocks
  BY DEF FromEngineSpans
<1> HIDE DEF ss
<1>4. \A x \in DOMAIN ss : \A b \in Range(ss[x]) :
        /\ b \in Blocks(S) /\ SpanIDsOf(b.spans) \subseteq BlockIDs(ss[x])
        /\ Pairwise(b.spans, OtherID(S))
  <2>1. \A x \in DOMAIN ss : Range(ss[x]) \subseteq Blocks(S)
    BY <1>2, ListElements
  <2> QED
    BY <1>2, <2>1 DEF BlockIDs, Packed, Apart
<1>5. \A x \in DOMAIN ss : Pairwise(ss[x], OtherIDs(S))
  BY <1>2 DEF Packed, Apart
<1>6. ASSUME NEW x \in DOMAIN ss, NEW y \in DOMAIN ss, x < y,
             NEW a \in Range(ss[x]), NEW b \in Range(ss[y])
      PROVE  <<a, b>> \in OtherIDs(S)
  <2>1. BlockIDs(ss[x]) \cap BlockIDs(ss[y]) = {}
    BY <1>2, <1>6 DEF Packed
  <2> QED
    BY <1>4, <2>1 DEF OtherIDs
<1>7. /\ blocks \in Seq(Blocks(S)) /\ Pairwise(blocks, OtherIDs(S))
      /\ Range(blocks) = UNION {Range(ss[x]) : x \in DOMAIN ss}
  BY <1>2, <1>5, <1>6, Flattened
<1> HIDE DEF blocks
<1>8. Apart(S, blocks)
  BY <1>4, <1>7 DEF Apart
<1>9. BlockIDs(blocks) = CarriedBy(u)
  <2>1. BlockIDs(blocks) = UNION {BlockIDs(ss[x]) : x \in DOMAIN ss}
    BY <1>7 DEF BlockIDs
  <2> QED
    BY <1>2, <2>1 DEF CarriedBy
<1>10. /\ SpansOf(blocks) \in Seq(S) /\ Pairwise(SpansOf(blocks), OtherID(S))
       /\ SpanIDsOf(SpansOf(blocks)) = CarriedBy(u)
  BY <1>7, <1>8, <1>9, SpansOfSnapshot DEF Snapshots
<1>11. Len(SpansOf(blocks)) = Cardinality(CarriedBy(u)) /\ IsFiniteSet(CarriedBy(u))
  BY <1>7, <1>8, <1>9, SnapshotLength DEF Snapshots
<1>12. blocks \in Snapshots(S)
  BY <1>7 DEF Snapshots
<1> QED
  BY <1>3, <1>10, <1>11, <1>12
\* A span that carries other ids than the trace joins it.
LEMMA PackedGrows ==
  ASSUME NEW S, NEW T, NEW u \in Seq(T), Packed(S, u),
         NEW s \in T, s.raw \in Snapshots(S), Apart(S, s.raw),
         BlockIDs(s.raw) \cap CarriedBy(u) = {}
  PROVE  /\ Packed(S, Append(u, s))
         /\ CarriedBy(Append(u, s)) = CarriedBy(u) \cup BlockIDs(s.raw)
         /\ SpanIDsOf(Append(u, s)) = SpanIDsOf(u) \cup {s.sid}
<1> DEFINE v == Append(u, s)
           n == Len(u)
<1>1. /\ n \in Nat /\ DOMAIN u = 1..n /\ DOMAIN v = 1..(n + 1) /\ v[n + 1] = s
      /\ \A x \in 1..n : v[x] = u[x]
  <2>1. v \in Seq(T) /\ Len(v) = n + 1 /\ v[n + 1] = s /\ \A x \in 1..n : v[x] = u[x]
    BY AppendProperties
  <2> QED
    BY <2>1, LenProperties
<1>2. 1..(n + 1) = (1..n) \cup {n + 1} /\ n + 1 \notin 1..n
  BY <1>1
<1> HIDE DEF v, n
<1>3. CarriedBy(v) = CarriedBy(u) \cup BlockIDs(s.raw)
  BY <1>1, <1>2 DEF CarriedBy
<1>4. SpanIDsOf(v) = SpanIDsOf(u) \cup {s.sid}
  BY <1>1, <1>2 DEF SpanIDsOf
<1>5. \A x \in DOMAIN v : v[x].raw \in Snapshots(S) /\ Apart(S, v[x].raw)
  BY <1>1, <1>2 DEF Packed
<1>6. ASSUME NEW x \in DOMAIN v, NEW y \in DOMAIN v, x < y
      PROVE  BlockIDs(v[x].raw) \cap BlockIDs(v[y].raw) = {}
  <2>1. x \in 1..n /\ v[x] = u[x]
    BY <1>1, <1>6
  <2>2. CASE y \in 1..n
    BY <1>1, <1>6, <2>1, <2>2 DEF Packed
  <2>3. CASE y = n + 1
    <3>1. BlockIDs(u[x].raw) \subseteq CarriedBy(u)
      BY <1>1, <2>1 DEF CarriedBy
    <3> QED
      BY <1>1, <2>1, <2>3, <3>1
  <2> QED
    BY <1>1, <1>2, <2>2, <2>3
<1> QED
  BY <1>3, <1>4, <1>5, <1>6 DEF v, Packed

\* What the spans carry, if all of it are spans, is no more than the spans.
LEMMA NoMoreThanSpans ==
  ASSUME NEW T, NEW u \in Seq(T), NEW C, C \subseteq SpanIDsOf(u)
  PROVE  Cardinality(C) <= Len(u)
<1>1. Len(u) \in Nat /\ DOMAIN u = 1..Len(u)
  BY LenProperties
<1>2. CASE C = {}
  BY <1>1, <1>2, FS_EmptySet
<1>3. CASE C # {}
  <2>1. PICK e : e \in C
    BY <1>3
  <2> DEFINE f == [x \in 1..Len(u) |-> IF u[x].sid \in C THEN u[x].sid ELSE e]
  <2>2. f \in [1..Len(u) -> C]
    BY <2>1
  <2>3. ASSUME NEW y \in C PROVE \E x \in 1..Len(u) : f[x] = y
    <3>1. PICK x \in DOMAIN u : u[x].sid = y
      BY DEF SpanIDsOf
    <3> QED
      BY <1>1, <3>1
  <2>4. ExistsSurjection(1..Len(u), C)
    <3> HIDE DEF f
    <3>1. f \in Surjection(1..Len(u), C)
      BY <2>2, <2>3 DEF Surjection
    <3> QED
      BY <3>1 DEF ExistsSurjection
  <2> QED
    BY <1>1, <2>4, FS_SurjCardinalityBound
<1> QED
  BY <1>2, <1>3

-----------------------------------------------------------------------------
(* The ids of a delivery.                                                  *)

\* uniqueTraceIDs adds the trace id of a span, unless it has it; what it has
\* after each span.
WithID(ids, sp) == IF sp.tid \in Range(ids) THEN ids ELSE Append(ids, sp.tid)
CollectsIDs(a, td) == a[0] = <<>> /\ \A i \in 1..Len(td) : a[i] = WithID(a[i - 1], td[i])

\* The fold visits the spans in their order.
LEMMA UniqueVisits ==
  ASSUME NEW S, NEW td \in Seq(S)
  PROVE  \E a : CollectsIDs(a, td) /\ UniqueTraceIDs(td) = a[Len(td)]
<1> DEFINE n == Len(td)
           I == DOMAIN td
           Body(g) == [s \in SUBSET I |->
                        IF s = {} THEN <<>>
                        ELSE WithID(g[s \ {Max(s)}], td[Max(s)])]
           iter == CHOOSE g : g = Body(g)
           P == {k \in Nat : \E g : \A s \in SUBSET I : Cardinality(s) <= k => g[s] = Body(g)[s]}
<1>1. UniqueTraceIDs(td) = iter[I]
  BY Zenon DEF UniqueTraceIDs, FoldLeft, MapThenFoldSet, WithID
<1>2. n \in Nat /\ I = 1..n /\ IsFiniteSet(I)
  BY LenProperties, FS_Interval
<1> HIDE DEF n, I
<1>3. ASSUME NEW s \in SUBSET I
      PROVE  /\ s # {} => Max(s) \in s
             /\ Cardinality(s) \in Nat /\ Cardinality(I) \in Nat /\ Cardinality(s) <= Cardinality(I)
             /\ (Cardinality(s) = 0) <=> (s = {})
             /\ \A x \in s : s \ {x} \in SUBSET I /\ Cardinality(s \ {x}) = Cardinality(s) - 1
  <2>1. s # {} => Max(s) \in s
    BY <1>2, MaxIsIn
  <2> HIDE DEF P, iter, Body
  <2>2. Cardinality(s) \in Nat /\ Cardinality(I) \in Nat /\ Cardinality(s) <= Cardinality(I)
    BY <1>2, FS_Subset, FS_CardinalityType, Zenon
  <2>3. (Cardinality(s) = 0) <=> (s = {})
    BY <1>2, Smaller, Zenon
  <2>4. \A x \in s : s \ {x} \in SUBSET I /\ Cardinality(s \ {x}) = Cardinality(s) - 1
    BY <1>2, Smaller, Zenon
  <2> QED
    BY <2>1, <2>2, <2>3, <2>4
<1>4. 0 \in P
  <2> DEFINE g == [s \in SUBSET I |-> <<>>]
  <2>1. \A s \in SUBSET I : Cardinality(s) <= 0 => s = {}
    BY <1>3
  <2>2. \A s \in SUBSET I : Cardinality(s) <= 0 => g[s] = Body(g)[s]
    BY <2>1
  <2> HIDE DEF g, Body
  <2> QED
    BY <2>2
<1>5. ASSUME NEW k \in P PROVE k + 1 \in P
  <2>1. PICK g : \A s \in SUBSET I : Cardinality(s) <= k => g[s] = Body(g)[s]
    OBVIOUS
  <2> DEFINE h == Body(g)
  <2>2. ASSUME NEW s \in SUBSET I, Cardinality(s) <= k + 1 PROVE h[s] = Body(h)[s]
    <3>1. CASE s = {}
      BY <3>1
    <3>2. CASE s # {}
      <4>1. s \ {Max(s)} \in SUBSET I /\ Cardinality(s \ {Max(s)}) <= k
        <5>1. Max(s) \in s /\ Cardinality(s) \in Nat /\ k \in Nat
          BY <1>3, <3>2
        <5>2. s \ {Max(s)} \in SUBSET I /\ Cardinality(s \ {Max(s)}) = Cardinality(s) - 1
          BY <1>3, <5>1
        <5> QED
          BY <2>2, <5>1, <5>2
      <4>2. h[s \ {Max(s)}] = g[s \ {Max(s)}]
        BY <2>1, <4>1
      <4> QED
        BY <3>2, <4>2
    <3> QED
      BY <3>1, <3>2
  <2> HIDE DEF h, Body
  <2> QED
    BY <2>2
<1>6. P = Nat
  <2> HIDE DEF P
  <2>1. P \in SUBSET Nat
    BY DEF P
  <2> QED
    BY <1>4, <1>5, <2>1, AllNumbers
<1>7. Cardinality(I) \in P
  <2>1. Cardinality(I) \in Nat
    BY <1>3
  <2> HIDE DEF P
  <2> QED
    BY <1>6, <2>1
<1>8. PICK g : \A s \in SUBSET I : Cardinality(s) <= Cardinality(I) => g[s] = Body(g)[s]
  BY <1>7
<1>9. Body(g) = Body(Body(g))
  <2>1. \A s \in SUBSET I : g[s] = Body(g)[s]
    BY <1>3, <1>8
  <2>2. \A s \in SUBSET I : s # {} => s \ {Max(s)} \in SUBSET I
    OBVIOUS
  <2>3. \A s \in SUBSET I : Body(g)[s] = Body(Body(g))[s]
    BY <2>1, <2>2
  <2> QED
    BY <2>3
<1> HIDE DEF Body
<1>10. iter = Body(iter)
  BY <1>9
<1> HIDE DEF iter
<1> DEFINE a == [i \in 0..n |-> iter[1..i]]
<1>11. \A s \in SUBSET I : iter[s] = IF s = {} THEN <<>>
                                     ELSE WithID(iter[s \ {Max(s)}], td[Max(s)])
  BY <1>10 DEF Body
<1>12. a[0] = <<>>
  <2>1. {} \in SUBSET I /\ 1..0 = {} /\ 0 \in 0..n
    BY <1>2
  <2> QED
    BY <1>11, <2>1
<1>13. ASSUME NEW i \in 1..n PROVE a[i] = WithID(a[i - 1], td[i])
  <2>1. 1..i \in SUBSET I /\ 1..i # {} /\ i \in 0..n /\ i - 1 \in 0..n /\ (1..i) \ {i} = 1..(i - 1)
    <3>1. n \in Nat /\ i \in Nat /\ i >= 1 /\ i <= n
      BY <1>2
    <3>2. \A x : x \in 1..i => x \in I
      BY <1>2, <3>1
    <3>3. i \in 1..i /\ i \in 0..n /\ i - 1 \in 0..n
      BY <3>1
    <3>4. (1..i) \ {i} = 1..(i - 1)
      BY <3>1
    <3> QED
      BY <3>2, <3>3, <3>4
  <2>2. Max(1..i) = i
    <3>1. i \in Nat /\ 1..i \in SUBSET (1..i)
      BY <1>2
    <3> DEFINE s == 1..i
    <3>2. s # {} /\ s \in SUBSET (1..i) /\ i \in s
      BY <2>1, <3>1
    <3> HIDE DEF s
    <3>3. Max(s) \in s /\ i <= Max(s)
      BY <3>1, <3>2, MaxIsIn
    <3> QED
      BY <3>1, <3>3 DEF s
  <2> QED
    BY <1>11, <2>1, <2>2
<1>14. a[n] = iter[I]
  BY <1>2
<1> HIDE DEF a
<1> QED
  BY <1>1, <1>12, <1>13, <1>14 DEF CollectsIDs, n

\* Every span of the delivery has its trace id there.
LEMMA EveryIDIsThere ==
  ASSUME NEW S, NEW td \in Seq(S)
  PROVE  \A i \in 1..Len(td) : td[i].tid \in Range(UniqueTraceIDs(td))
<1> DEFINE n == Len(td)
           ids == {td[i].tid : i \in 1..n}
<1>1. PICK a : CollectsIDs(a, td) /\ UniqueTraceIDs(td) = a[n]
  BY UniqueVisits
<1>2. n \in Nat /\ DOMAIN td = 1..n
  BY LenProperties
<1> DEFINE Good(k) == a[k] \in Seq(ids) /\ \A i \in 1..k : td[i].tid \in Range(a[k])
           P == {k \in Nat : k <= n => Good(k)}
<1>3. 0 \in P
  <2>1. a[0] = <<>> /\ 1..0 = {}
    BY <1>1 DEF CollectsIDs
  <2> HIDE DEF ids
  <2>2. a[0] \in Seq(ids)
    BY <2>1
  <2> QED
    BY <2>1, <2>2
<1> HIDE DEF n
<1>4. ASSUME NEW k \in P PROVE k + 1 \in P
  <2> SUFFICES ASSUME k + 1 <= n PROVE Good(k + 1)
    OBVIOUS
  <2>1. k \in Nat /\ k + 1 \in 1..n /\ (k + 1) - 1 = k /\ Good(k)
    BY <1>2
  <2>2. a[k + 1] = WithID(a[k], td[k + 1]) /\ td[k + 1].tid \in ids
    BY <1>1, <2>1 DEF CollectsIDs, n
  <2>3. 1..(k + 1) = (1..k) \cup {k + 1}
    BY <2>1
  <2> HIDE DEF ids
  <2>4. CASE td[k + 1].tid \in Range(a[k])
    BY <2>1, <2>2, <2>3, <2>4 DEF WithID
  <2>5. CASE td[k + 1].tid \notin Range(a[k])
    <3>1. a[k + 1] = Append(a[k], td[k + 1].tid)
      BY <2>2, <2>5 DEF WithID
    <3>2. a[k + 1] \in Seq(ids)
      BY <2>1, <2>2, <3>1, AppendProperties
    <3>3. Range(a[k + 1]) = Range(a[k]) \cup {td[k + 1].tid}
      BY <2>1, <3>1, AppendLength
    <3> QED
      BY <2>1, <2>3, <3>2, <3>3
  <2> QED
    BY <2>4, <2>5
<1>5. P = Nat
  <2> HIDE DEF P
  <2>1. P \in SUBSET Nat
    BY DEF P
  <2> QED
    BY <1>3, <1>4, <2>1, AllNumbers
<1>6. Good(n)
  <2>1. n \in P
    <3> HIDE DEF P
    <3> QED
      BY <1>2, <1>5
  <2> QED
    BY <1>2, <2>1
<1> QED
  BY <1>1, <1>6 DEF n
=============================================================================
