----------------------------- MODULE OrderProofs -----------------------------
(***************************************************************************)
(* What the proofs about the storage engine use of its loops and of its    *)
(* orders: induction over the steps of a loop, and the sequences that      *)
(* Ranked, InKeyOrder and Picked make of a finite set.                     *)
(***************************************************************************)
EXTENDS Relations, FiniteSetTheorems, WellFoundedInduction, TLAPS

\* Induction over the steps of a loop: `S' holds the steps at which a fact is true.
LEMMA LoopInduction ==
    ASSUME NEW n \in Nat, NEW S, 0 \in S, \A i \in 0..(n - 1) : i \in S => i + 1 \in S
    PROVE  0..n \subseteq S
<1> DEFINE T == {i \in 0..n : i \notin S}
           R == {pair \in Nat \X Nat : pair[1] < pair[2]}
<1>1. SUFFICES ASSUME T # {} PROVE FALSE
  OBVIOUS
<1>2. T \subseteq Nat
  OBVIOUS
<1>3. IsWellFoundedOn(R, Nat)
  BY NatLessThanWellFounded DEF OpToRel
<1>4. PICK x \in T : \A y \in T : <<y, x>> \notin R
  <2> HIDE DEF R, T
  <2> QED
    BY <1>1, <1>2, <1>3, WFMin
<1>5. x \in Nat /\ x # 0 /\ x - 1 \in 0..(n - 1)
  BY <1>2
<1>6. <<x - 1, x>> \in R
  BY <1>5
<1>7. x - 1 \notin T
  <2> HIDE DEF R, T
  <2> QED
    BY <1>4, <1>6
<1> QED
  BY <1>5, <1>7

\* Every set of numbers that is not empty has a smallest one.
LEMMA SmallestOf ==
    ASSUME NEW S \in SUBSET Nat, S # {}
    PROVE  \E n \in S : \A m \in S : n <= m
<1> DEFINE R == {pair \in Nat \X Nat : pair[1] < pair[2]}
<1>1. IsWellFoundedOn(R, Nat)
  BY NatLessThanWellFounded DEF OpToRel
<1>2. PICK n \in S : \A m \in S : <<m, n>> \notin R
  <2> HIDE DEF R
  <2> QED
    BY <1>1, WFMin
<1>3. \A m \in S : ~(m < n)
  BY <1>2
<1> QED
  BY <1>3

\* `before' says of each member of `S' which others come before it.
IsOrder(S, before) ==
    /\ before \in [S -> SUBSET S]
    /\ \A x \in S : x \notin before[x]
    /\ \A x, y, z \in S : x \in before[y] /\ y \in before[z] => x \in before[z]
    /\ \A x, y \in S : x # y => x \in before[y] \/ y \in before[x]

\* Ranked lists every member of the set once, each after those that come before it.
LEMMA RankedOrder ==
    ASSUME NEW S, IsFiniteSet(S), NEW before, IsOrder(S, before)
    PROVE  /\ Cardinality(S) \in Nat
           /\ Ranked(before) \in [1..Cardinality(S) -> S]
           /\ \A m, n \in 1..Cardinality(S) :
                m < n => Ranked(before)[m] \in before[Ranked(before)[n]]
           /\ \A m, n \in 1..Cardinality(S) : Ranked(before)[m] = Ranked(before)[n] => m = n
           /\ \A x \in S : \E n \in 1..Cardinality(S) : Ranked(before)[n] = x
<1> DEFINE size == Cardinality(S)
           rank == [x \in S |-> Cardinality(before[x]) + 1]
<1>1. size \in Nat /\ DOMAIN before = S
  BY FS_CardinalityType DEF IsOrder
<1>2. ASSUME NEW x \in S
      PROVE  IsFiniteSet(before[x]) /\ Cardinality(before[x]) \in Nat /\ rank[x] \in 1..size
  <2>1. before[x] \in SUBSET (S \ {x}) /\ before[x] \in SUBSET S
    BY DEF IsOrder
  <2>2. IsFiniteSet(S \ {x}) /\ Cardinality(S \ {x}) = size - 1
    BY FS_RemoveElement
  <2>3. IsFiniteSet(before[x]) /\ Cardinality(before[x]) <= size - 1
    BY <2>1, <2>2, FS_Subset
  <2>4. Cardinality(before[x]) \in Nat
    BY <2>3, FS_CardinalityType
  <2> QED
    BY <1>1, <2>3, <2>4
<1>3. ASSUME NEW x \in S, NEW y \in S, x \in before[y]
      PROVE  rank[x] < rank[y]
  <2>1. before[x] \in SUBSET before[y] /\ before[x] # before[y]
    BY <1>3 DEF IsOrder
  <2>2. Cardinality(before[x]) <= Cardinality(before[y])
        /\ Cardinality(before[y]) # Cardinality(before[x])
    BY <2>1, <1>2, FS_Subset
  <2> QED
    BY <2>2, <1>2
<1>4. rank \in Injection(S, 1..size)
  <2>1. rank \in [S -> 1..size]
    BY <1>2
  <2>2. \A x, y \in S : rank[x] = rank[y] => x = y
    BY <1>2, <1>3 DEF IsOrder
  <2> QED
    BY <2>1, <2>2 DEF Injection, IsInjective
<1>5. rank \in Surjection(S, 1..size)
  <2>1. IsFiniteSet(1..size) /\ Cardinality(1..size) = size
    BY <1>1, FS_Interval
  <2> QED
    BY <2>1, <1>4, FS_Injection
<1>6. \A n \in 1..size : \E x \in S : rank[x] = n
  BY <1>5 DEF Surjection
<1>7. \A n \in 1..size : Ranked(before)[n] \in S /\ rank[Ranked(before)[n]] = n
  <2> TAKE n \in 1..size
  <2>1. Ranked(before)[n] = CHOOSE x \in S : Cardinality(before[x]) = n - 1
    BY <1>1 DEF Ranked
  <2>2. \E x \in S : Cardinality(before[x]) = n - 1
    BY <1>2, <1>6
  <2> QED
    BY <2>1, <2>2, <1>2
<1>8. Ranked(before) \in [1..size -> S]
  BY <1>1, <1>7 DEF Ranked
<1> HIDE DEF rank
<1>9. \A x, y \in S : rank[x] < rank[y] => x \in before[y]
  <2> TAKE x, y \in S
  <2>1. CASE y \in before[x]
    BY <2>1, <1>3, <1>2
  <2> QED
    BY <2>1, <1>2 DEF IsOrder
<1>10. \A x \in S : \E n \in 1..size : Ranked(before)[n] = x
  <2> TAKE x \in S
  <2>1. rank[x] \in 1..size
    BY <1>2
  <2>2. rank[Ranked(before)[rank[x]]] = rank[x] /\ Ranked(before)[rank[x]] \in S
    BY <2>1, <1>7
  <2>3. \A y \in S : rank[y] = rank[x] => y = x
    BY <1>4 DEF Injection, IsInjective
  <2> QED
    BY <2>1, <2>2, <2>3
<1> QED
  BY <1>1, <1>7, <1>8, <1>9, <1>10

\* Positions are listed in their own order.
LEMMA AscendingOrder ==
    ASSUME NEW I \in SUBSET Int, IsFiniteSet(I)
    PROVE  /\ Cardinality(I) \in Nat
           /\ Ascending(I) \in [1..Cardinality(I) -> I]
           /\ \A m, n \in 1..Cardinality(I) : m < n => Ascending(I)[m] < Ascending(I)[n]
           /\ \A m, n \in 1..Cardinality(I) : Ascending(I)[m] = Ascending(I)[n] => m = n
           /\ \A i \in I : \E n \in 1..Cardinality(I) : Ascending(I)[n] = i
<1> DEFINE before == [i \in I |-> {j \in I : j < i}]
<1>1. IsOrder(I, before)
  BY DEF IsOrder
<1>2. \A i, j \in I : i \in before[j] => i < j
  OBVIOUS
<1>3. Ascending(I) = Ranked(before)
  BY DEF Ascending
<1> HIDE DEF before
<1>4. /\ Cardinality(I) \in Nat
      /\ Ranked(before) \in [1..Cardinality(I) -> I]
      /\ \A m, n \in 1..Cardinality(I) :
           m < n => Ranked(before)[m] \in before[Ranked(before)[n]]
      /\ \A m, n \in 1..Cardinality(I) : Ranked(before)[m] = Ranked(before)[n] => m = n
      /\ \A i \in I : \E n \in 1..Cardinality(I) : Ranked(before)[n] = i
  BY <1>1, RankedOrder
<1> QED
  BY <1>2, <1>3, <1>4

\* The positions in a finite sequence are finitely many.
LEMMA PositionsFinite ==
    ASSUME NEW n \in Nat, NEW I \in SUBSET (1..n)
    PROVE  IsFiniteSet(I) /\ Cardinality(I) \in Nat /\ I \in SUBSET Int
<1>1. IsFiniteSet(1..n)
  BY FS_Interval
<1>2. IsFiniteSet(I)
  BY <1>1, FS_Subset
<1>3. Cardinality(I) \in Nat
  BY <1>2, FS_CardinalityType
<1> QED
  BY <1>2, <1>3

\* Picked keeps what is at the positions it is given, and the order it is in.
LEMMA PickedIs ==
    ASSUME NEW seq, NEW n \in Nat, DOMAIN seq = 1..n, NEW I \in SUBSET (1..n)
    PROVE  /\ Cardinality(I) \in Nat
           /\ DOMAIN Picked(seq, I) = 1..Cardinality(I)
           /\ \A m \in 1..Cardinality(I) :
                Ascending(I)[m] \in I /\ Picked(seq, I)[m] = seq[Ascending(I)[m]]
           /\ \A i \in I : \E m \in 1..Cardinality(I) :
                Ascending(I)[m] = i /\ Picked(seq, I)[m] = seq[i]
           /\ \A l, m \in 1..Cardinality(I) : Ascending(I)[l] = Ascending(I)[m] => l = m
  BY PositionsFinite, AscendingOrder DEF Picked

\* What is picked from a sequence of members of a set is one, and is in the range.
LEMMA PickedSeq ==
    ASSUME NEW S, NEW seq \in Seq(S), NEW I \in SUBSET (DOMAIN seq)
    PROVE  /\ Picked(seq, I) \in Seq(S)
           /\ Len(Picked(seq, I)) = Cardinality(I)
           /\ Range(Picked(seq, I)) = {seq[i] : i \in I}
<1> DEFINE p == Picked(seq, I)
<1>1. DOMAIN seq = 1..Len(seq) /\ Len(seq) \in Nat
  OBVIOUS
<1>2. /\ Cardinality(I) \in Nat /\ DOMAIN p = 1..Cardinality(I)
      /\ \A m \in 1..Cardinality(I) : Ascending(I)[m] \in I /\ p[m] = seq[Ascending(I)[m]]
      /\ \A i \in I : \E m \in 1..Cardinality(I) : p[m] = seq[i]
  BY <1>1, PickedIs
<1>3. p \in [1..Cardinality(I) -> S]
  <2>1. p = [m \in 1..Cardinality(I) |-> seq[Ascending(I)[m]]]
    BY DEF Picked
  <2> HIDE DEF p
  <2>2. \A m \in 1..Cardinality(I) : seq[Ascending(I)[m]] \in S
    BY <1>1, <1>2
  <2> QED
    BY <2>1, <2>2
<1> HIDE DEF p
<1>4. p \in Seq(S) /\ Len(p) = Cardinality(I)
  BY <1>2, <1>3
<1>5. Range(p) = {seq[i] : i \in I}
  BY <1>2 DEF Range
<1> QED
  BY <1>4, <1>5 DEF p

\* A function on the first numbers is a sequence.
LEMMA FunctionIsSeq ==
    ASSUME NEW n \in Nat, NEW S, NEW f \in [1..n -> S]
    PROVE  f \in Seq(S) /\ Len(f) = n
  OBVIOUS

\* The elements of a part of a sequence.
LEMMA PartRange ==
    ASSUME NEW S, NEW seq \in Seq(S), NEW a \in Nat, NEW b \in Nat,
           1 <= a, b <= Len(seq), a <= b + 1
    PROVE  \A x : x \in Range(SubSeq(seq, a, b)) <=> \E i \in a..b : x = seq[i]
<1>1. /\ SubSeq(seq, a, b) \in Seq(S)
      /\ Len(SubSeq(seq, a, b)) = b - a + 1
      /\ \A i \in 1..(b - a + 1) : SubSeq(seq, a, b)[i] = seq[a + i - 1]
  OBVIOUS
<1>2. DOMAIN SubSeq(seq, a, b) = 1..(b - a + 1)
  BY <1>1
<1>3. \A i \in a..b : i - a + 1 \in 1..(b - a + 1) /\ a + (i - a + 1) - 1 = i
  OBVIOUS
<1>4. \A i \in 1..(b - a + 1) : a + i - 1 \in a..b
  OBVIOUS
<1>5. \A i \in a..b : seq[i] = SubSeq(seq, a, b)[i - a + 1]
  BY <1>1, <1>3
<1>6. \A i \in 1..(b - a + 1) : SubSeq(seq, a, b)[i] \in {seq[j] : j \in a..b}
  BY <1>1, <1>4
<1>7. \A i \in a..b : seq[i] \in {SubSeq(seq, a, b)[j] : j \in 1..(b - a + 1)}
  BY <1>3, <1>5
<1> QED
  BY <1>2, <1>6, <1>7 DEF Range

\* The elements of two sequences put together.
LEMMA JoinRange ==
    ASSUME NEW S, NEW a \in Seq(S), NEW b \in Seq(S)
    PROVE  Range(a \o b) = Range(a) \cup Range(b)
<1>1. /\ a \o b \in Seq(S)
      /\ Len(a \o b) = Len(a) + Len(b)
      /\ \A i \in 1..Len(a) : (a \o b)[i] = a[i]
      /\ \A i \in 1..Len(b) : (a \o b)[Len(a) + i] = b[i]
  OBVIOUS
<1>2. /\ DOMAIN (a \o b) = 1..(Len(a) + Len(b)) /\ DOMAIN a = 1..Len(a) /\ DOMAIN b = 1..Len(b)
      /\ Len(a) \in Nat /\ Len(b) \in Nat
  BY <1>1
<1>3. \A i \in 1..(Len(a) + Len(b)) : i \in 1..Len(a) \/ (i - Len(a) \in 1..Len(b) /\ i = Len(a) + (i - Len(a)))
  BY <1>2
<1>4. \A i \in 1..Len(a) : i \in 1..(Len(a) + Len(b))
  BY <1>2
<1>5. \A i \in 1..Len(b) : Len(a) + i \in 1..(Len(a) + Len(b))
  BY <1>2
<1>6. ASSUME NEW x \in Range(a \o b) PROVE x \in Range(a) \cup Range(b)
  <2>1. PICK i \in 1..(Len(a) + Len(b)) : x = (a \o b)[i]
    BY <1>2, <1>6 DEF Range
  <2>2. CASE i \in 1..Len(a)
    BY <2>1, <2>2, <1>1, <1>2 DEF Range
  <2>3. CASE i - Len(a) \in 1..Len(b) /\ i = Len(a) + (i - Len(a))
    <3>1. x = b[i - Len(a)]
      BY <2>1, <2>3, <1>1
    <3> QED
      BY <3>1, <2>3, <1>2 DEF Range
  <2> QED
    BY <2>2, <2>3, <1>3
<1>7. ASSUME NEW i \in 1..Len(a) PROVE a[i] \in Range(a \o b)
  BY <1>1, <1>2, <1>4 DEF Range
<1>8. ASSUME NEW i \in 1..Len(b) PROVE b[i] \in Range(a \o b)
  BY <1>1, <1>2, <1>5 DEF Range
<1>9. Range(a) = {a[i] : i \in 1..Len(a)} /\ Range(b) = {b[i] : i \in 1..Len(b)}
  BY <1>2 DEF Range
<1> QED
  BY <1>6, <1>7, <1>8, <1>9

\* A list of the first numbers that is no longer than they are has each of them once.
LEMMA ListedOnce ==
    ASSUME NEW n \in Nat, NEW f \in [1..n -> 1..n], \A x \in 1..n : \E i \in 1..n : f[i] = x
    PROVE  \A i, j \in 1..n : f[i] = f[j] => i = j
<1>1. IsFiniteSet(1..n)
  BY FS_Interval
<1>2. f \in Surjection(1..n, 1..n)
  BY DEF Surjection
<1>3. f \in Injection(1..n, 1..n)
  BY <1>1, <1>2, FS_Surjection
<1> QED
  BY <1>3 DEF Injection, IsInjective

\* A set listed once each by the members of a finite set is as large as it.
LEMMA SameSize ==
    ASSUME NEW S, IsFiniteSet(S), NEW T, NEW f,
           \A x \in S : f[x] \in T,
           \A x, y \in S : f[x] = f[y] => x = y,
           \A y \in T : \E x \in S : f[x] = y
    PROVE  IsFiniteSet(T) /\ Cardinality(T) = Cardinality(S) /\ Cardinality(S) \in Nat
<1> DEFINE g == [x \in S |-> f[x]]
<1>1. g \in Bijection(S, T)
  BY DEF Bijection, Injection, Surjection, IsInjective
<1>2. ExistsBijection(S, T)
  BY <1>1 DEF ExistsBijection
<1> QED
  BY <1>2, FS_Bijection, FS_CardinalityType

\* A sequence cut in two, with an element put at the end of the first part.
FirstAndAdded(m, r, b, p) == m \o SubSeq(r, 1, b) \o <<p>>
LastPart(r, b) == SubSeq(r, b + 1, Len(r))
MovesAlong(P, m, r, p, u, v) ==
    /\ u \in Seq(P) /\ v \in Seq(P)
    /\ Len(u) + Len(v) = Len(m) + Len(r) + 1
    /\ Range(u) \cup Range(v) = Range(m) \cup Range(r) \cup {p}

\* Cutting a sequence and adding an element moves positions along and loses none.
LEMMA CutAndAdded ==
    ASSUME NEW P, NEW m \in Seq(P), NEW r \in Seq(P), NEW b \in 0..Len(r), NEW p \in P
    PROVE  MovesAlong(P, m, r, p, FirstAndAdded(m, r, b, p), LastPart(r, b))
<1> DEFINE first == SubSeq(r, 1, b)
           last == SubSeq(r, b + 1, Len(r))
           one == <<p>>
           mf == m \o first
<1>1. /\ first \in Seq(P) /\ Len(first) = b /\ last \in Seq(P) /\ Len(last) = Len(r) - b
      /\ one \in Seq(P) /\ Len(one) = 1 /\ Range(one) = {p}
  <2>1. b \in Nat /\ Len(r) \in Nat /\ b <= Len(r)
    OBVIOUS
  <2>2. first \in Seq(P) /\ Len(first) = b
    BY <2>1
  <2>3. last \in Seq(P) /\ Len(last) = Len(r) - b
    BY <2>1
  <2>4. one \in Seq(P) /\ Len(one) = 1
    OBVIOUS
  <2>5. Range(one) = {p}
    BY DEF Range
  <2> HIDE DEF first, last, one
  <2> QED
    BY <2>2, <2>3, <2>4, <2>5
<1>2. Range(first) \cup Range(last) = Range(r)
  <2>0. b \in Nat /\ b + 1 \in Nat /\ Len(r) \in Nat /\ b <= Len(r) /\ 1 <= b + 1
    OBVIOUS
  <2>1. \A x : x \in Range(first) <=> \E i \in 1..b : x = r[i]
    BY <2>0, PartRange
  <2>2. \A x : x \in Range(last) <=> \E i \in (b + 1)..Len(r) : x = r[i]
    BY <2>0, PartRange
  <2>3. 1..Len(r) = (1..b) \cup ((b + 1)..Len(r)) /\ DOMAIN r = 1..Len(r)
    OBVIOUS
  <2> HIDE DEF first, last
  <2>4. \A x : x \in Range(r) <=> \E i \in 1..Len(r) : x = r[i]
    BY <2>3 DEF Range
  <2>5. \A x : (\E i \in 1..Len(r) : x = r[i])
            <=> (\E i \in 1..b : x = r[i]) \/ (\E i \in (b + 1)..Len(r) : x = r[i])
    BY <2>3
  <2> QED
    BY <2>1, <2>2, <2>4, <2>5
<1> HIDE DEF first, last, one
<1>0. \A x, y \in Seq(P) : x \o y \in Seq(P) /\ Len(x \o y) = Len(x) + Len(y)
  OBVIOUS
<1>3. mf \in Seq(P) /\ Len(mf) = Len(m) + b
  BY <1>0, <1>1
<1>4. Range(mf) = Range(m) \cup Range(first)
  BY <1>1, JoinRange
<1> HIDE DEF mf
<1>5. mf \o one \in Seq(P) /\ Len(mf \o one) = Len(m) + b + 1
  <2>1. mf \o one \in Seq(P) /\ Len(mf \o one) = Len(mf) + Len(one)
    BY <1>0, <1>1, <1>3
  <2>2. Len(m) \in Nat /\ b \in Nat
    OBVIOUS
  <2> QED
    BY <1>1, <1>3, <2>1, <2>2
<1>6. Range(mf \o one) = Range(mf) \cup Range(one)
  BY <1>1, <1>3, JoinRange
<1>7. Len(mf \o one) + Len(last) = Len(m) + Len(r) + 1
  BY <1>1, <1>5
<1>8. Range(mf \o one) \cup Range(last) = Range(m) \cup Range(r) \cup {p}
  BY <1>1, <1>2, <1>4, <1>6
<1>9. FirstAndAdded(m, r, b, p) = mf \o one /\ LastPart(r, b) = last
  BY DEF mf, first, last, one, FirstAndAdded, LastPart
<1> QED
  BY <1>1, <1>5, <1>7, <1>8, <1>9 DEF MovesAlong

\* The sizes of a union of disjoint sets and of what a subset leaves.
LEMMA DisjointUnion ==
    ASSUME NEW S, NEW T, IsFiniteSet(S), IsFiniteSet(T), \A x \in S : x \notin T
    PROVE  /\ IsFiniteSet(S \cup T) /\ Cardinality(S \cup T) = Cardinality(S) + Cardinality(T)
           /\ Cardinality(S) \in Nat /\ Cardinality(T) \in Nat
<1>1. S \cap T = {}
  OBVIOUS
<1>2. Cardinality(S \cap T) = 0
  BY <1>1, FS_EmptySet
<1>3. IsFiniteSet(S \cup T)
      /\ Cardinality(S \cup T) = Cardinality(S) + Cardinality(T) - Cardinality(S \cap T)
  BY FS_Union
<1>4. Cardinality(S) \in Nat /\ Cardinality(T) \in Nat
  BY FS_CardinalityType
<1> QED
  BY <1>2, <1>3, <1>4

\* What a subset leaves of a finite set is counted by the difference.
LEMMA SubsetLeaves ==
    ASSUME NEW S, IsFiniteSet(S), NEW T \in SUBSET S
    PROVE  /\ IsFiniteSet(T) /\ IsFiniteSet(S \ T)
           /\ Cardinality(S \ T) = Cardinality(S) - Cardinality(T)
           /\ Cardinality(S) \in Nat /\ Cardinality(T) \in Nat
<1>1. S \cap T = T
  OBVIOUS
<1>2. IsFiniteSet(T) /\ IsFiniteSet(S \ T)
  BY FS_Subset
<1>3. Cardinality(S \ T) = Cardinality(S) - Cardinality(T)
  BY <1>1, FS_Difference
<1>4. Cardinality(S) \in Nat /\ Cardinality(T) \in Nat
  BY <1>2, FS_CardinalityType
<1> QED
  BY <1>2, <1>3, <1>4

-----------------------------------------------------------------------------
(* Keys. *)

\* Keys of one length compare column by column, and any two do.
LEMMA KeysCompare ==
    ASSUME NEW n \in Nat, NEW K \in SUBSET [1..n -> Int]
    PROVE  IsOrder(K, [k \in K |-> {j \in K : KeyLess(j, k)}])
<1>1. ASSUME NEW k \in K PROVE ~KeyLess(k, k)
  BY DEF KeyLess
<1>2. ASSUME NEW a \in K, NEW b \in K, NEW c \in K, KeyLess(a, b), KeyLess(b, c)
      PROVE  KeyLess(a, c)
  <2>1. PICK i \in 1..n : a[i] < b[i] /\ \A l \in 1..(i - 1) : a[l] = b[l]
    BY <1>2 DEF KeyLess
  <2>2. PICK j \in 1..n : b[j] < c[j] /\ \A l \in 1..(j - 1) : b[l] = c[l]
    BY <1>2 DEF KeyLess
  <2>3. PICK m \in 1..n : m = IF i < j THEN i ELSE j
    OBVIOUS
  <2>4. a[m] < c[m]
    BY <2>1, <2>2, <2>3
  <2>5. \A l \in 1..(m - 1) : a[l] = c[l]
    BY <2>1, <2>2, <2>3
  <2> QED
    BY <2>4, <2>5 DEF KeyLess
<1>3. ASSUME NEW a \in K, NEW b \in K, a # b
      PROVE  KeyLess(a, b) \/ KeyLess(b, a)
  <2> DEFINE D == {l \in 1..n : a[l] # b[l]}
  <2>1. D # {} /\ D \in SUBSET Nat
    <3>1. ASSUME \A l \in 1..n : a[l] = b[l] PROVE FALSE
      BY <1>3, <3>1
    <3>2. PICK l \in 1..n : a[l] # b[l]
      BY <3>1
    <3>3. l \in D
      BY <3>2
    <3> QED
      BY <3>3
  <2>2. PICK i \in D : \A m \in D : i <= m
    BY <2>1, SmallestOf
  <2>3. \A l \in 1..(i - 1) : a[l] = b[l]
    BY <2>2
  <2>4. a[i] < b[i] \/ b[i] < a[i]
    OBVIOUS
  <2>5. a[i] < b[i] => KeyLess(a, b)
    BY <2>3 DEF KeyLess
  <2>6. b[i] < a[i] => KeyLess(b, a)
    BY <2>3 DEF KeyLess
  <2> QED
    BY <2>4, <2>5, <2>6
<1> QED
  BY <1>1, <1>2, <1>3 DEF IsOrder

\* A finite set of keys in key order: each key once, and no other.
LEMMA KeyOrder ==
    ASSUME NEW n \in Nat, NEW K \in SUBSET [1..n -> Int], IsFiniteSet(K)
    PROVE  /\ Cardinality(K) \in Nat
           /\ InKeyOrder(K) \in [1..Cardinality(K) -> K]
           /\ \A l, m \in 1..Cardinality(K) : InKeyOrder(K)[l] = InKeyOrder(K)[m] => l = m
           /\ \A k \in K : \E m \in 1..Cardinality(K) : InKeyOrder(K)[m] = k
  BY KeysCompare, RankedOrder DEF InKeyOrder

\* Members told apart by a key compare as their keys do.
LEMMA ByKeyOrder ==
    ASSUME NEW n \in Nat, NEW P, NEW key \in [P -> [1..n -> Int]],
           \A p, q \in P : key[p] = key[q] => p = q,
           NEW before, before = [p \in P |-> {q \in P : KeyLess(key[q], key[p])}]
    PROVE  IsOrder(P, before)
<1> DEFINE K == {key[p] : p \in P}
           less == [k \in K |-> {j \in K : KeyLess(j, k)}]
<1>1. K \in SUBSET [1..n -> Int]
  OBVIOUS
<1>2. IsOrder(K, less)
  BY <1>1, KeysCompare
<1>3. \A p, q \in P : key[q] \in less[key[p]] <=> KeyLess(key[q], key[p])
  OBVIOUS
<1>4. \A p \in P : key[p] \in K
  OBVIOUS
<1> HIDE DEF K, less
<1>5. \A p \in P : ~KeyLess(key[p], key[p])
  BY <1>2, <1>3, <1>4 DEF IsOrder
<1>6. \A p, q, r \in P : KeyLess(key[p], key[q]) /\ KeyLess(key[q], key[r]) => KeyLess(key[p], key[r])
  BY <1>2, <1>3, <1>4 DEF IsOrder
<1>7. \A p, q \in P : p # q => KeyLess(key[p], key[q]) \/ KeyLess(key[q], key[p])
  BY <1>2, <1>3, <1>4 DEF IsOrder
<1> QED
  BY <1>5, <1>6, <1>7 DEF IsOrder

=============================================================================
