----------------------------- MODULE BookLemmas -----------------------------
(***************************************************************************)
(* What the books of the contracts are made of: histories of checkpoints,  *)
(* and sums over finite sets.                                              *)
(***************************************************************************)
EXTENDS Checkpoints, FiniteSetTheorems, WellFoundedInduction, Functions, TLAPS

-----------------------------------------------------------------------------
(* Histories of any length: which checkpoint a past block is read from,    *)
(* and what a write changes and leaves alone.                              *)

\* A history is a sequence of pairs of numbers, and only the empty one has no
\* last checkpoint.
LEMMA HistoryShape ==
    ASSUME NEW h \in Histories
    PROVE  /\ h \in Seq(Checkpoint)
           /\ Len(h) \in Nat /\ DOMAIN h = 1..Len(h)
           /\ \A i \in DOMAIN h : h[i].fromBlock \in Nat /\ h[i].stake \in Nat
           /\ h # <<>> => Len(h) \in 1..Len(h)
<1>1. h \in Seq(Checkpoint) /\ Len(h) \in Nat /\ DOMAIN h = 1..Len(h)
  BY DEF Histories
<1>2. \A i \in DOMAIN h : h[i] \in Checkpoint
  BY <1>1
<1>3. \A c \in Checkpoint : c.fromBlock \in Nat /\ c.stake \in Nat
  BY DEF Checkpoint
<1>4. h # <<>> => Len(h) \in 1..Len(h)
  BY <1>1
<1> QED BY <1>1, <1>2, <1>3, <1>4

\* Among the checkpoints known at a block there is a latest one.
LEMMA LatestKnown ==
    ASSUME NEW h \in Histories, NEW b \in Nat, KnownAt(h, b) # {}
    PROVE  /\ LatestOf(KnownAt(h, b)) \in KnownAt(h, b)
           /\ \A j \in KnownAt(h, b) : j <= LatestOf(KnownAt(h, b))
<1> DEFINE K == KnownAt(h, b)
           Distances == {n \in Nat : \E i \in K : n = Len(h) - i}
<1>1. K \subseteq 1..Len(h) /\ Len(h) \in Nat
  BY DEF KnownAt, Histories
<1>2. Distances \subseteq Nat /\ Distances # {}
  <2>1. PICK i \in K : TRUE
    OBVIOUS
  <2>2. Len(h) - i \in Nat
    BY <1>1, <2>1
  <2> QED BY <2>1, <2>2
<1>3. \E n \in Distances : \A m \in Distances : ~(<<m, n>> \in OpToRel(<, Nat))
  <2> HIDE DEF Distances
  <2> QED BY <1>2, NatLessThanWellFounded, WFMin
<1>4. PICK n \in Distances : \A m \in Distances : ~(m < n)
  BY <1>2, <1>3 DEF OpToRel
<1>5. PICK i \in K : n = Len(h) - i
  OBVIOUS
<1>6. \A j \in K : j <= i
  <2> SUFFICES ASSUME NEW j \in K PROVE j <= i
    OBVIOUS
  <2>1. Len(h) - j \in Distances
    BY <1>1
  <2> QED BY <2>1, <1>1, <1>4, <1>5
<1> QED BY <1>6 DEF LatestOf

\* The stake before a block is that of the checkpoint i when i is known at the
\* block and nothing after i is.
LEMMA PriorIsAt ==
    ASSUME NEW h \in Histories, NEW b \in Nat, NEW i \in DOMAIN h,
           h[i].fromBlock <= b,
           \A j \in DOMAIN h : j > i => ~(h[j].fromBlock <= b)
    PROVE  PriorAt(h, b) = h[i].stake
<1> DEFINE K == KnownAt(h, b)
<1>1. DOMAIN h = 1..Len(h) /\ Len(h) \in Nat
  BY DEF Histories
<1>2. i \in K
  BY DEF KnownAt
<1>3. LatestOf(K) \in K /\ \A j \in K : j <= LatestOf(K)
  BY <1>2, LatestKnown
<1>4. LatestOf(K) = i
  <2> DEFINE m == LatestOf(K)
  <2>1. m \in DOMAIN h /\ h[m].fromBlock <= b
    BY <1>3 DEF KnownAt
  <2>2. i <= m
    BY <1>2, <1>3
  <2> HIDE DEF m
  <2>3. ~(m > i)
    BY <2>1
  <2>4. m = i
    BY <1>1, <2>1, <2>2, <2>3
  <2> QED BY <2>4 DEF m
<1> QED BY <1>2, <1>4 DEF PriorAt

-----------------------------------------------------------------------------
(* Writing. *)

\* A write leaves a history of checkpoints.
LEMMA WriteType ==
    ASSUME NEW h \in Histories, NEW b \in Nat, NEW s \in Nat
    PROVE  Write(h, b, s) \in Histories
<1>1. [fromBlock |-> b, stake |-> s] \in Checkpoint
  BY DEF Checkpoint
<1> QED BY <1>1 DEF Write, WrittenAt, Histories

\* What the history is after a write: the newest checkpoint is of this block
\* and the older ones are what they were.
LEMMA WriteResult ==
    ASSUME NEW h \in Histories, NEW b \in Nat, NEW s \in Nat
    PROVE  LET g == Write(h, b, s)
           IN  /\ Len(g) \in Nat \ {0} /\ DOMAIN g = 1..Len(g)
               /\ g[Len(g)] = [fromBlock |-> b, stake |-> s]
               /\ \A i \in 1..(Len(g) - 1) : i \in DOMAIN h /\ g[i] = h[i]
               /\ \A i \in DOMAIN h : i >= Len(g) => h[i].fromBlock = b
<1> DEFINE c == [fromBlock |-> b, stake |-> s]
<1>0. Len(h) \in Nat /\ DOMAIN h = 1..Len(h) /\ h \in Seq(Checkpoint) /\ c \in Checkpoint
  BY DEF Histories, Checkpoint
<1>1. CASE WrittenAt(h, b)
  <2>1. h # <<>> /\ h[Len(h)].fromBlock = b /\ Write(h, b, s) = [h EXCEPT ![Len(h)] = c]
    BY <1>1 DEF Write, WrittenAt
  <2>2. Len(h) \in 1..Len(h)
    BY <1>0, <2>1
  <2>3. [h EXCEPT ![Len(h)] = c] \in Seq(Checkpoint) /\ Len([h EXCEPT ![Len(h)] = c]) = Len(h)
    BY <1>0, <2>2
  <2> DEFINE g == Write(h, b, s)
  <2>4. Len(g) = Len(h) /\ DOMAIN g = 1..Len(h) /\ g[Len(h)] = c
    BY <1>0, <2>1, <2>2, <2>3
  <2>5. \A i \in 1..(Len(h) - 1) : i \in DOMAIN h /\ g[i] = h[i]
    <3> SUFFICES ASSUME NEW i \in 1..(Len(h) - 1)
                 PROVE  i \in DOMAIN h /\ g[i] = h[i]
      OBVIOUS
    <3>1. i \in 1..Len(h) /\ i # Len(h)
      BY <2>2
    <3> QED BY <1>0, <2>1, <3>1
  <2>6. \A i \in DOMAIN h : i >= Len(h) => h[i].fromBlock = b
    <3>1. \A i \in DOMAIN h : i >= Len(h) => i = Len(h)
      BY <1>0
    <3> QED BY <2>1, <3>1
  <2> HIDE DEF g
  <2>7. Len(h) \in Nat \ {0}
    BY <1>0, <2>2
  <2>8. /\ Len(g) \in Nat \ {0} /\ DOMAIN g = 1..Len(g)
        /\ g[Len(g)] = c
        /\ \A i \in 1..(Len(g) - 1) : i \in DOMAIN h /\ g[i] = h[i]
        /\ \A i \in DOMAIN h : i >= Len(g) => h[i].fromBlock = b
    BY <2>4, <2>5, <2>6, <2>7
  <2> QED BY <2>8 DEF g
<1>2. CASE ~WrittenAt(h, b)
  <2>1. Write(h, b, s) = Append(h, c)
    BY <1>2 DEF Write
  <2> QED BY <1>0, <2>1
<1> QED BY <1>1, <1>2

\* Writing at a block not before the newest checkpoint keeps a history sorted
\* and up to that block.
LEMMA WriteSorted ==
    ASSUME NEW h \in Histories, NEW b \in Nat, NEW s \in Nat,
           SortedHistory(h), \A i \in DOMAIN h : h[i].fromBlock <= b
    PROVE  /\ SortedHistory(Write(h, b, s))
           /\ \A i \in DOMAIN Write(h, b, s) : Write(h, b, s)[i].fromBlock <= b
<1> DEFINE g == Write(h, b, s)
<1>1. /\ Len(g) \in Nat \ {0} /\ DOMAIN g = 1..Len(g)
      /\ g[Len(g)] = [fromBlock |-> b, stake |-> s]
      /\ \A i \in 1..(Len(g) - 1) : i \in DOMAIN h /\ g[i] = h[i]
  BY WriteResult
<1>0. Len(h) \in Nat /\ DOMAIN h = 1..Len(h) /\ \A i \in DOMAIN h : h[i].fromBlock \in Nat
  BY HistoryShape
<1>2. \A i \in 1..(Len(g) - 1) : g[i].fromBlock < b
  <2> SUFFICES ASSUME NEW i \in 1..(Len(g) - 1) PROVE g[i].fromBlock < b
    OBVIOUS
  <2>1. i \in DOMAIN h /\ g[i] = h[i]
    BY <1>1
  <2>2. CASE WrittenAt(h, b)
    <3>1. h # <<>> /\ h[Len(h)].fromBlock = b /\ Len(g) = Len(h)
      BY <2>2, <1>0 DEF Write, WrittenAt, Histories
    <3> QED BY <2>1, <3>1, <1>0, <1>1, SMTT(30) DEF SortedHistory
  <2>3. CASE ~WrittenAt(h, b)
    <3>1. h # <<>> /\ h[Len(h)].fromBlock # b
      BY <2>1, <2>3, <1>0 DEF WrittenAt
    <3>2. h[Len(h)].fromBlock < b
      BY <3>1, <2>1, <1>0
    <3>3. i = Len(h) \/ h[i].fromBlock < h[Len(h)].fromBlock
      BY <2>1, <1>0 DEF SortedHistory
    <3> QED BY <2>1, <3>2, <3>3, <1>0
  <2> QED BY <2>2, <2>3
<1> HIDE DEF g
<1>3. SortedHistory(g)
  <2> SUFFICES ASSUME NEW i \in DOMAIN g, NEW j \in DOMAIN g, i < j
               PROVE  g[i].fromBlock < g[j].fromBlock
    BY DEF SortedHistory
  <2>1. CASE j = Len(g)
    BY <2>1, <1>1, <1>2
  <2>2. CASE j # Len(g)
    BY <2>2, <1>1 DEF SortedHistory
  <2> QED BY <2>1, <2>2
<1>4. \A i \in DOMAIN g : g[i].fromBlock <= b
  BY <1>1
<1> QED BY <1>3, <1>4 DEF g

\* A write at a block changes nothing of what the history says of the blocks
\* before it.
LEMMA WriteKeepsPast ==
    ASSUME NEW h \in Histories, NEW b \in Nat, NEW s \in Nat, NEW p \in Nat, p < b
    PROVE  PriorAt(Write(h, b, s), p) = PriorAt(h, p)
<1> DEFINE g == Write(h, b, s)
<1>1. /\ Len(g) \in Nat \ {0} /\ DOMAIN g = 1..Len(g)
      /\ g[Len(g)] = [fromBlock |-> b, stake |-> s]
      /\ \A i \in 1..(Len(g) - 1) : i \in DOMAIN h /\ g[i] = h[i]
      /\ \A i \in DOMAIN h : i >= Len(g) => h[i].fromBlock = b
  BY WriteResult
<1>2. Len(h) \in Nat /\ DOMAIN h = 1..Len(h)
  BY DEF Histories
<1>3. KnownAt(g, p) = KnownAt(h, p) /\ KnownAt(h, p) \subseteq 1..(Len(g) - 1)
  <2> HIDE DEF g
  <2> QED BY <1>1, <1>2 DEF KnownAt
<1>4. CASE KnownAt(h, p) = {}
  BY <1>3, <1>4 DEF PriorAt
<1>5. CASE KnownAt(h, p) # {}
  <2>1. LatestOf(KnownAt(h, p)) \in KnownAt(h, p)
    BY <1>5, LatestKnown
  <2>2. g[LatestOf(KnownAt(h, p))] = h[LatestOf(KnownAt(h, p))]
    BY <2>1, <1>1, <1>3
  <2> QED BY <2>2, <1>3, <1>5 DEF PriorAt
<1> QED BY <1>4, <1>5

\* The stake of a history at a block is a natural number, and so is its last.
LEMMA StakesAreNumbers ==
    ASSUME NEW h \in Histories, NEW b \in Nat
    PROVE  PriorAt(h, b) \in Nat /\ LastStake(h) \in Nat
<1>1. DOMAIN h = 1..Len(h) /\ Len(h) \in Nat /\ \A i \in DOMAIN h : h[i].stake \in Nat
  BY HistoryShape
<1>2. KnownAt(h, b) # {} => LatestOf(KnownAt(h, b)) \in DOMAIN h
  BY LatestKnown DEF KnownAt
<1>3. h # <<>> => Len(h) \in DOMAIN h
  BY <1>1 DEF Histories
<1> QED BY <1>1, <1>2, <1>3 DEF PriorAt, LastStake

-----------------------------------------------------------------------------
(* Sums.  SumFunctionOnSet is a fold, defined by recursion on the set; the *)
(* induction theorems of the library take an operator as parameter and     *)
(* cannot be instantiated here, so each induction is an argument about a   *)
(* minimal counterexample: StrictSubsetOrdering is well founded on the     *)
(* subsets of a finite set.                                                *)

\* A set of subsets of a finite set has a minimal member.
LEMMA MinimalSubset ==
    ASSUME NEW S, IsFiniteSet(S), NEW B \in SUBSET (SUBSET S), B # {}
    PROVE  \E m \in B : \A n \in B : n \subseteq m => n = m
<1>1. IsWellFoundedOn(StrictSubsetOrdering(S), FiniteSubsetsOf(S))
  BY FS_StrictSubsetOrderingWellFounded
<1>2. B \subseteq FiniteSubsetsOf(S)
  BY FS_FiniteSubsetsOfFinite
<1>3. PICK m \in B : \A n \in B : ~ (<<n, m>> \in StrictSubsetOrdering(S))
  BY <1>1, <1>2, WFMin
<1> QED
  BY <1>3 DEF StrictSubsetOrdering

\* A set of numbers has a least one: it indexes initial segments.
LEMMA MinimalNumber ==
    ASSUME NEW B \in SUBSET Nat, B # {}
    PROVE  \E m \in B : \A n \in B : m <= n
<1>1. PICK k \in B : TRUE
  OBVIOUS
<1> DEFINE D == {1..n : n \in {i \in B : i <= k}}
<1>2. IsFiniteSet(1..k)
  BY <1>1, FS_Interval
<1>3. D \in SUBSET (SUBSET (1..k)) /\ D # {}
  BY <1>1
<1>4. PICK e \in D : \A d \in D : d \subseteq e => d = e
  <2> DEFINE I == 1..k
  <2>1. IsFiniteSet(I) /\ D \in SUBSET (SUBSET I) /\ D # {}
    BY <1>2, <1>3
  <2> HIDE DEF D, I
  <2>2. \E m \in D : \A n \in D : n \subseteq m => n = m
    BY <2>1, MinimalSubset
  <2> QED BY <2>2
<1>5. PICK m \in B : m <= k /\ e = 1..m
  BY <1>4
<1>6. ASSUME NEW n \in B, n < m
      PROVE  FALSE
  <2>1. 1..n \in D /\ 1..n \subseteq e
    BY <1>5, <1>6
  <2>2. m \in e /\ m \notin 1..n
    BY <1>5, <1>6
  <2> QED BY <1>4, <2>1, <2>2
<1> QED BY <1>6

\* The recursion of the fold, for a function g on the subsets of S.
Pick(s) == CHOOSE x \in s : TRUE

Obeys(g, f, s) == g[s] = IF s = {} THEN 0 ELSE f[Pick(s)] + g[s \ {Pick(s)}]

IsSum(g, f, S) ==
    g \in [SUBSET S -> Int] /\ \A s \in SUBSET S : Obeys(g, f, s)

\* The element with which the fold begins.
LEMMA PickIn == ASSUME NEW s, s # {} PROVE Pick(s) \in s
BY DEF Pick

\* There is a function that is computed by the recursion of the fold: by
\* induction on the size of the subsets it is right for.
LEMMA SumExists ==
    ASSUME NEW S, IsFiniteSet(S), NEW f, \A x \in S : f[x] \in Int
    PROVE  \E g : IsSum(g, f, S)
<1> DEFINE Upto(g, n) == /\ g \in [SUBSET S -> Int]
                         /\ \A s \in SUBSET S : Cardinality(s) <= n => Obeys(g, f, s)
           Bad == {n \in Nat : ~ \E g : Upto(g, n)}
<1>0. \A s \in SUBSET S : IsFiniteSet(s) /\ Cardinality(s) \in Nat
                          /\ Cardinality(s) <= Cardinality(S)
                          /\ (Cardinality(s) = 0 <=> s = {})
  BY FS_Subset, FS_EmptySet, FS_CardinalityType
<1>1. 0 \notin Bad
  <2> DEFINE g == [s \in SUBSET S |-> 0]
  <2>1. Upto(g, 0)
    BY <1>0 DEF Obeys
  <2> QED BY <2>1
<1>2. ASSUME NEW n \in Nat, n \notin Bad
      PROVE  n + 1 \notin Bad
  <2>1. PICK g : Upto(g, n)
    BY <1>2
  <2> DEFINE h == [s \in SUBSET S |->
                      IF s = {} THEN 0 ELSE f[Pick(s)] + g[s \ {Pick(s)}]]
  <2>2. h \in [SUBSET S -> Int]
    <3>1. ASSUME NEW s \in SUBSET S, s # {}
          PROVE  f[Pick(s)] + g[s \ {Pick(s)}] \in Int
      <4>1. Pick(s) \in S /\ s \ {Pick(s)} \in SUBSET S
        BY <3>1, PickIn
      <4> QED BY <2>1, <4>1
    <3>2. \A s \in SUBSET S :
              (IF s = {} THEN 0 ELSE f[Pick(s)] + g[s \ {Pick(s)}]) \in Int
      BY <3>1, SMTT(30)
    <3> QED BY <3>2
  <2>3. ASSUME NEW s \in SUBSET S, Cardinality(s) <= n + 1
        PROVE  Obeys(h, f, s)
    <3>1. CASE s = {}
      BY <3>1 DEF Obeys
    <3>2. CASE s # {}
      <4> DEFINE t == s \ {Pick(s)}
      <4>1. t \in SUBSET S /\ Cardinality(t) <= n
        BY <1>0, <2>3, <3>2, PickIn, FS_RemoveElement
      <4>2. Obeys(g, f, t)
        BY <2>1, <4>1
      <4>3. h[t] = g[t]
        BY <4>1, <4>2 DEF Obeys
      <4>4. h[s] = f[Pick(s)] + g[t]
        BY <3>2
      <4> HIDE DEF h
      <4> QED BY <3>2, <4>3, <4>4 DEF Obeys
    <3> QED BY <3>1, <3>2
  <2>4. Upto(h, n + 1)
    BY <2>2, <2>3
  <2> QED BY <2>4
<1>3. Bad = {}
  <2> SUFFICES ASSUME Bad # {} PROVE FALSE
    OBVIOUS
  <2>0. Bad \in SUBSET Nat
    OBVIOUS
  <2>1. PICK m \in Bad : \A n \in Bad : m <= n
    <3> HIDE DEF Bad
    <3> QED BY <2>0, MinimalNumber
  <2>2. m # 0 /\ m \in Nat
    BY <1>1, <2>0
  <2>3. m - 1 \in Nat /\ m - 1 \notin Bad
    <3> HIDE DEF Bad
    <3> QED BY <2>1, <2>2
  <2>4. (m - 1) + 1 = m
    BY <2>2
  <2> HIDE DEF Bad
  <2> QED BY <1>2, <2>3, <2>4
<1>4. Cardinality(S) \in Nat
  BY FS_CardinalityType
<1>5. PICK g : Upto(g, Cardinality(S))
  BY <1>3, <1>4
<1> QED BY <1>0, <1>5 DEF IsSum

\* The recursion determines its value, whatever larger set it is started on.
LEMMA SumUnique ==
    ASSUME NEW S, IsFiniteSet(S), NEW f, NEW T, NEW g, NEW h,
           \A s \in SUBSET S : Obeys(g, f, s),
           \A s \in SUBSET T : Obeys(h, f, s),
           S \subseteq T
    PROVE  g[S] = h[S]
<1> DEFINE Bad == {s \in SUBSET S : g[s] # h[s]}
<1> SUFFICES ASSUME Bad # {} PROVE FALSE
  OBVIOUS
<1>1. PICK m \in Bad : \A n \in Bad : n \subseteq m => n = m
  <2>1. Bad \in SUBSET (SUBSET S)
    OBVIOUS
  <2> HIDE DEF Bad
  <2> QED BY <2>1, MinimalSubset
<1>2. m \in SUBSET S /\ m \in SUBSET T /\ m # {}
  BY DEF Obeys
<1> DEFINE t == m \ {Pick(m)}
<1>3. t \in SUBSET S /\ t \notin Bad
  BY <1>1, <1>2, PickIn
<1>4. g[t] = h[t]
  BY <1>3
<1>5. g[m] = f[Pick(m)] + g[t] /\ h[m] = f[Pick(m)] + h[t]
  BY <1>2 DEF Obeys
<1> QED BY <1>4, <1>5

\* SumFunctionOnSet is that value.
LEMMA SumIs ==
    ASSUME NEW S, IsFiniteSet(S), NEW f, \A x \in S : f[x] \in Int,
           NEW g, IsSum(g, f, S)
    PROVE  SumFunctionOnSet(f, S) = g[S]
<1> DEFINE Unfold(h) == [s \in SUBSET S |->
                            IF s = {} THEN 0 ELSE f[Pick(s)] + h[s \ {Pick(s)}]]
           c == CHOOSE h : h = Unfold(h)
<1>1. g = Unfold(g)
  BY DEF IsSum, Obeys
<1>2. c = Unfold(c)
  <2> HIDE DEF Unfold
  <2> QED BY <1>1
<1>3. \A s \in SUBSET S : Obeys(c, f, s)
  <2> HIDE DEF c
  <2> QED BY <1>2 DEF Obeys
<1>4. SumFunctionOnSet(f, S) = c[S]
  BY DEF SumFunctionOnSet, FoldFunctionOnSet, MapThenFoldSet, Pick
<1>5. c[S] = g[S]
  <2> HIDE DEF c
  <2> QED BY <1>3, SumUnique DEF IsSum
<1> QED BY <1>4, <1>5

-----------------------------------------------------------------------------
(* The sum of the empty set, and of a set with one element taken out. *)

\* The empty sum.
LEMMA SumEmpty == ASSUME NEW f PROVE SumFunctionOnSet(f, {}) = 0
<1>1. IsFiniteSet({}) /\ \A x \in {} : f[x] \in Int
  BY FS_EmptySet
<1>2. PICK g : IsSum(g, f, {})
  BY <1>1, SumExists
<1> QED BY <1>1, <1>2, SumIs DEF IsSum, Obeys

\* The step of the recursion.
LEMMA SumPick ==
    ASSUME NEW S, IsFiniteSet(S), NEW f, \A x \in S : f[x] \in Int, S # {}
    PROVE  /\ SumFunctionOnSet(f, S) \in Int
           /\ SumFunctionOnSet(f, S) = f[Pick(S)] + SumFunctionOnSet(f, S \ {Pick(S)})
<1> DEFINE T == S \ {Pick(S)}
<1>1. PICK g : IsSum(g, f, S)
  BY SumExists
<1>2. IsFiniteSet(T) /\ T \subseteq S /\ \A x \in T : f[x] \in Int
  BY FS_Difference
<1>3. PICK h : IsSum(h, f, T)
  BY <1>2, SumExists
<1>4. SumFunctionOnSet(f, S) = g[S] /\ SumFunctionOnSet(f, T) = h[T]
  <2> HIDE DEF T
  <2> QED BY <1>1, <1>2, <1>3, SumIs
<1>5. h[T] = g[T]
  <2> HIDE DEF T
  <2> QED BY <1>1, <1>2, <1>3, SumUnique DEF IsSum
<1>6. g[S] = f[Pick(S)] + g[T] /\ g[S] \in Int
  BY <1>1 DEF IsSum, Obeys
<1> QED BY <1>4, <1>5, <1>6

\* A sum of integers is one.
LEMMA SumType ==
    ASSUME NEW S, IsFiniteSet(S), NEW f, \A x \in S : f[x] \in Int
    PROVE  SumFunctionOnSet(f, S) \in Int
<1>1. CASE S = {}
  BY <1>1, SumEmpty
<1>2. CASE S # {}
  BY <1>2, SumPick
<1> QED BY <1>1, <1>2

\* Any element may be taken first, not only the picked one.
LEMMA SumRemove ==
    ASSUME NEW S, IsFiniteSet(S), NEW f, \A x \in S : f[x] \in Int, NEW x \in S
    PROVE  SumFunctionOnSet(f, S) = f[x] + SumFunctionOnSet(f, S \ {x})
<1> DEFINE Sum(s) == SumFunctionOnSet(f, s)
           Good(s) == \A y \in s : Sum(s) = f[y] + Sum(s \ {y})
           Bad == {s \in SUBSET S : ~ Good(s)}
<1> SUFFICES ASSUME Bad # {} PROVE FALSE
  OBVIOUS
<1>1. PICK m \in Bad : \A n \in Bad : n \subseteq m => n = m
  <2>1. Bad \in SUBSET (SUBSET S)
    OBVIOUS
  <2> HIDE DEF Bad
  <2> QED BY <2>1, MinimalSubset
<1>2. m \in SUBSET S /\ ~ Good(m)
  OBVIOUS
<1>3. ASSUME NEW n \in SUBSET S, n \subseteq m, n # m
      PROVE  Good(n)
  <2>1. n \notin Bad
    <3> HIDE DEF Bad
    <3> QED BY <1>1, <1>3
  <2> QED BY <2>1
<1>4. PICK y \in m : Sum(m) # f[y] + Sum(m \ {y})
  BY <1>2
<1> DEFINE p == Pick(m)
           r == m \ {p}
           q == m \ {y}
           b == m \ {p, y}
<1>5. p \in m
  BY <1>4, PickIn
<1>6. \A s \in SUBSET S : IsFiniteSet(s) /\ (\A z \in s : f[z] \in Int) /\ Sum(s) \in Int
  <2>1. \A s \in SUBSET S : IsFiniteSet(s) /\ (\A z \in s : f[z] \in Int)
    BY FS_Subset
  <2> QED BY <2>1, SumType
<1>7. Sum(m) = f[p] + Sum(r)
  BY <1>2, <1>4, <1>6, SumPick
<1>8. p # y
  BY <1>4, <1>7
<1>9. Good(r) /\ Good(q)
  BY <1>2, <1>3, <1>4, <1>5
<1>10. r \ {y} = b /\ q \ {p} = b /\ y \in r /\ p \in q
  BY <1>4, <1>5, <1>8
<1>11. Sum(r) = f[y] + Sum(b)
  BY <1>9, <1>10
<1>12. Sum(q) = f[p] + Sum(b)
  BY <1>9, <1>10
<1>13. f[p] \in Int /\ f[y] \in Int /\ Sum(b) \in Int
  <2>1. b \in SUBSET S
    BY <1>2
  <2> QED BY <1>2, <1>4, <1>5, <1>6, <2>1
<1> HIDE DEF Sum, p, r, q, b
<1> QED BY <1>4, <1>7, <1>11, <1>12, <1>13 DEF q

\* The sum of a function is that over its domain.
LEMMA SumOfFunction ==
    ASSUME NEW f PROVE SumFunction(f) = SumFunctionOnSet(f, DOMAIN f)
BY DEF SumFunction

-----------------------------------------------------------------------------
(* Induction, with the good sets as a set, so that it can be instantiated. *)

\* What holds of the empty set and is kept by adding an element of S holds of S.
LEMMA GrowingSets ==
    ASSUME NEW S, IsFiniteSet(S), NEW G, {} \in G,
           \A t \in SUBSET S : \A x \in S \ t : t \in G => t \cup {x} \in G
    PROVE  S \in G
<1> DEFINE Bad == {s \in SUBSET S : s \notin G}
<1> SUFFICES ASSUME Bad # {} PROVE FALSE
  BY DEF Bad
<1>1. PICK m \in Bad : \A n \in Bad : n \subseteq m => n = m
  <2>1. Bad \in SUBSET (SUBSET S)
    OBVIOUS
  <2> HIDE DEF Bad
  <2> QED BY <2>1, MinimalSubset
<1>2. PICK x \in m : TRUE
  OBVIOUS
<1> DEFINE t == m \ {x}
<1>3. t \in SUBSET S /\ t \notin Bad /\ x \in S \ t /\ t \cup {x} = m
  BY <1>1, <1>2
<1> QED BY <1>3

\* One element more.
LEMMA SumAddElement ==
    ASSUME NEW S, IsFiniteSet(S), NEW f, \A x \in S : f[x] \in Int,
           NEW T \in SUBSET S, NEW x \in S \ T
    PROVE  /\ SumFunctionOnSet(f, T) \in Int
           /\ SumFunctionOnSet(f, T \cup {x}) = f[x] + SumFunctionOnSet(f, T)
<1> DEFINE U == T \cup {x}
<1>1. IsFiniteSet(T) /\ IsFiniteSet(U)
  BY FS_Subset
<1>2. SumFunctionOnSet(f, T) \in Int
  BY <1>1, SumType
<1>3. U \ {x} = T /\ x \in U /\ \A y \in U : f[y] \in Int
  OBVIOUS
<1>4. SumFunctionOnSet(f, U) = f[x] + SumFunctionOnSet(f, U \ {x})
  <2> HIDE DEF U
  <2> QED BY <1>1, <1>3, SumRemove
<1> QED BY <1>2, <1>3, <1>4

\* A sum grows with its terms.
LEMMA SumOrder ==
    ASSUME NEW S, IsFiniteSet(S), NEW f, \A x \in S : f[x] \in Int,
           NEW g, \A x \in S : g[x] \in Int /\ f[x] <= g[x]
    PROVE  SumFunctionOnSet(f, S) <= SumFunctionOnSet(g, S)
<1> DEFINE G == {s \in SUBSET S : SumFunctionOnSet(f, s) <= SumFunctionOnSet(g, s)}
<1>1. {} \in G
  BY SumEmpty
<1>2. ASSUME NEW t \in SUBSET S, NEW x \in S \ t, t \in G
      PROVE  t \cup {x} \in G
  <2>1. /\ SumFunctionOnSet(f, t) \in Int /\ SumFunctionOnSet(g, t) \in Int
        /\ SumFunctionOnSet(f, t \cup {x}) = f[x] + SumFunctionOnSet(f, t)
        /\ SumFunctionOnSet(g, t \cup {x}) = g[x] + SumFunctionOnSet(g, t)
    BY SumAddElement
  <2> QED BY <1>2, <2>1
<1>3. S \in G
  <2> HIDE DEF G
  <2> QED BY <1>1, <1>2, GrowingSets
<1> QED BY <1>3

\* A sum depends on its terms on S only.
LEMMA SumSame ==
    ASSUME NEW S, IsFiniteSet(S), NEW f, \A x \in S : f[x] \in Int,
           NEW g, \A x \in S : f[x] = g[x]
    PROVE  SumFunctionOnSet(f, S) = SumFunctionOnSet(g, S)
<1>1. \A x \in S : /\ g[x] \in Int /\ f[x] <= g[x] /\ g[x] <= f[x]
  OBVIOUS
<1>2. /\ SumFunctionOnSet(f, S) <= SumFunctionOnSet(g, S)
      /\ SumFunctionOnSet(g, S) <= SumFunctionOnSet(f, S)
  BY <1>1, SumOrder
<1>3. SumFunctionOnSet(f, S) \in Int /\ SumFunctionOnSet(g, S) \in Int
  BY <1>1, SumType
<1> QED BY <1>2, <1>3

\* Nothing sums to nothing.
LEMMA SumZero ==
    ASSUME NEW S, IsFiniteSet(S), NEW f, \A x \in S : f[x] = 0
    PROVE  SumFunctionOnSet(f, S) = 0
<1>0. \A y \in S : f[y] \in Int
  OBVIOUS
<1> DEFINE G == {s \in SUBSET S : SumFunctionOnSet(f, s) = 0}
<1>1. {} \in G
  BY SumEmpty
<1>2. ASSUME NEW t \in SUBSET S, NEW x \in S \ t, t \in G
      PROVE  t \cup {x} \in G
  <2>1. SumFunctionOnSet(f, t \cup {x}) = f[x] + SumFunctionOnSet(f, t)
    BY <1>0, SumAddElement
  <2> QED BY <1>2, <2>1
<1>3. S \in G
  <2> HIDE DEF G
  <2> QED BY <1>1, <1>2, GrowingSets
<1> QED BY <1>3

\* A sum of naturals is one, and no term exceeds it.
LEMMA SumOfNats ==
    ASSUME NEW S, IsFiniteSet(S), NEW f, \A x \in S : f[x] \in Nat
    PROVE  /\ SumFunctionOnSet(f, S) \in Nat
           /\ \A x \in S : f[x] <= SumFunctionOnSet(f, S)
<1>0. \A x \in S : f[x] \in Int
  OBVIOUS
<1> DEFINE G == {s \in SUBSET S : SumFunctionOnSet(f, s) \in Nat}
<1>1. {} \in G
  BY SumEmpty
<1>2. ASSUME NEW t \in SUBSET S, NEW x \in S \ t, t \in G
      PROVE  t \cup {x} \in G
  <2>1. SumFunctionOnSet(f, t \cup {x}) = f[x] + SumFunctionOnSet(f, t)
    BY <1>0, SumAddElement
  <2>2. f[x] + SumFunctionOnSet(f, t) \in Nat
    BY <1>2
  <2> QED BY <2>1, <2>2
<1>3. \A s \in SUBSET S : s \in G
  <2> SUFFICES ASSUME NEW s \in SUBSET S PROVE s \in G
    OBVIOUS
  <2>1. IsFiniteSet(s)
    BY FS_Subset
  <2>2. \A t \in SUBSET s : \A x \in s \ t : t \in G => t \cup {x} \in G
    BY <1>2
  <2> HIDE DEF G
  <2> QED BY <1>1, <2>1, <2>2, GrowingSets
<1>4. ASSUME NEW x \in S
      PROVE  f[x] <= SumFunctionOnSet(f, S)
  <2>1. SumFunctionOnSet(f, S) = f[x] + SumFunctionOnSet(f, S \ {x})
    BY <1>0, SumRemove
  <2>2. SumFunctionOnSet(f, S \ {x}) \in Nat
    BY <1>3
  <2> QED BY <2>1, <2>2
<1> QED BY <1>3, <1>4

\* One term changes: every book entry of the contracts is of this form.
LEMMA SumChange ==
    ASSUME NEW S, IsFiniteSet(S), NEW f, \A x \in S : f[x] \in Int,
           NEW x \in S, NEW g, g[x] \in Int, \A y \in S \ {x} : g[y] = f[y]
    PROVE  SumFunctionOnSet(g, S) = SumFunctionOnSet(f, S) - f[x] + g[x]
<1> DEFINE T == S \ {x}
<1>1. IsFiniteSet(T)
  BY FS_Difference
<1>2. \A y \in S : g[y] \in Int
  OBVIOUS
<1>3. SumFunctionOnSet(f, T) = SumFunctionOnSet(g, T) /\ SumFunctionOnSet(f, T) \in Int
  <2>1. \A y \in T : f[y] \in Int /\ f[y] = g[y]
    OBVIOUS
  <2> HIDE DEF T
  <2> QED BY <1>1, <2>1, SumSame, SumType
<1>4. /\ SumFunctionOnSet(f, S) = f[x] + SumFunctionOnSet(f, T)
      /\ SumFunctionOnSet(g, S) = g[x] + SumFunctionOnSet(g, T)
  BY <1>2, SumRemove
<1> HIDE DEF T
<1> QED BY <1>3, <1>4

\* The sum of sums.
LEMMA SumPlus ==
    ASSUME NEW S, IsFiniteSet(S), NEW f, \A x \in S : f[x] \in Int,
           NEW g, \A x \in S : g[x] \in Int, NEW h, \A x \in S : h[x] = f[x] + g[x]
    PROVE  SumFunctionOnSet(h, S) = SumFunctionOnSet(f, S) + SumFunctionOnSet(g, S)
<1>0. \A x \in S : h[x] \in Int
  OBVIOUS
<1> DEFINE G == {s \in SUBSET S : SumFunctionOnSet(h, s) =
                     SumFunctionOnSet(f, s) + SumFunctionOnSet(g, s)}
<1>1. {} \in G
  BY SumEmpty
<1>2. ASSUME NEW t \in SUBSET S, NEW x \in S \ t, t \in G
      PROVE  t \cup {x} \in G
  <2>1. ASSUME NEW k, \A y \in S : k[y] \in Int
        PROVE  /\ SumFunctionOnSet(k, t) \in Int
               /\ SumFunctionOnSet(k, t \cup {x}) = k[x] + SumFunctionOnSet(k, t)
    BY ONLY IsFiniteSet(S), <2>1, t \in SUBSET S, x \in S \ t, SumAddElement
  <2>2. /\ SumFunctionOnSet(f, t) \in Int
        /\ SumFunctionOnSet(f, t \cup {x}) = f[x] + SumFunctionOnSet(f, t)
    BY <2>1
  <2>3. /\ SumFunctionOnSet(g, t) \in Int
        /\ SumFunctionOnSet(g, t \cup {x}) = g[x] + SumFunctionOnSet(g, t)
    BY <2>1
  <2>4. SumFunctionOnSet(h, t \cup {x}) = h[x] + SumFunctionOnSet(h, t)
    BY <1>0, <2>1
  <2>5. f[x] \in Int /\ g[x] \in Int /\ h[x] = f[x] + g[x]
    OBVIOUS
  <2>6. SumFunctionOnSet(h, t) = SumFunctionOnSet(f, t) + SumFunctionOnSet(g, t)
    BY <1>2
  <2>7. SumFunctionOnSet(h, t \cup {x}) =
            SumFunctionOnSet(f, t \cup {x}) + SumFunctionOnSet(g, t \cup {x})
    BY <2>2, <2>3, <2>4, <2>5, <2>6
  <2> QED BY <2>7
<1>3. S \in G
  <2> HIDE DEF G
  <2> QED BY <1>1, <1>2, GrowingSets
<1> QED BY <1>3

\* Terms that are zero may be left out.
LEMMA SumOnPart ==
    ASSUME NEW S, IsFiniteSet(S), NEW T \in SUBSET S, NEW f, NEW g,
           \A x \in T : f[x] \in Int /\ g[x] = f[x],
           \A x \in S \ T : g[x] = 0
    PROVE  SumFunctionOnSet(g, S) = SumFunctionOnSet(f, T)
<1> DEFINE G == {s \in SUBSET S : SumFunctionOnSet(g, s) = SumFunctionOnSet(f, s \cap T)}
<1>0. /\ \A x \in S : g[x] \in Int
      /\ \A x \in T : f[x] \in Int
      /\ IsFiniteSet(T)
  BY FS_Subset
<1>1. {} \in G
  <2>1. {} \cap T = {}
    OBVIOUS
  <2> QED BY <2>1, SumEmpty
<1>2. ASSUME NEW t \in SUBSET S, NEW x \in S \ t, t \in G
      PROVE  t \cup {x} \in G
  <2>1. SumFunctionOnSet(g, t \cup {x}) = g[x] + SumFunctionOnSet(g, t)
    BY <1>0, SumAddElement
  <2>2. CASE x \in T
    <3>1. (t \cup {x}) \cap T = (t \cap T) \cup {x}
      BY <2>2
    <3>2. t \cap T \in SUBSET T /\ x \in T \ (t \cap T)
      BY <2>2
    <3>3. SumFunctionOnSet(f, (t \cap T) \cup {x}) = f[x] + SumFunctionOnSet(f, t \cap T)
      <4>1. ASSUME NEW U \in SUBSET T, NEW y \in T \ U
            PROVE  SumFunctionOnSet(f, U \cup {y}) = f[y] + SumFunctionOnSet(f, U)
        BY ONLY <1>0, <4>1, SumAddElement
      <4> QED BY <3>2, <4>1
    <3>4. g[x] = f[x]
      BY <2>2
    <3>5. SumFunctionOnSet(g, t) = SumFunctionOnSet(f, t \cap T)
      BY <1>2
    <3>6. SumFunctionOnSet(g, t \cup {x}) = SumFunctionOnSet(f, (t \cup {x}) \cap T)
      BY <2>1, <3>1, <3>3, <3>4, <3>5
    <3> QED BY <3>6
  <2>3. CASE x \notin T
    <3>1. (t \cup {x}) \cap T = t \cap T /\ g[x] = 0
      BY <2>3
    <3>2. SumFunctionOnSet(g, t) \in Int
      BY <1>0, SumAddElement
    <3>3. SumFunctionOnSet(g, t) = SumFunctionOnSet(f, t \cap T)
      BY <1>2
    <3>4. SumFunctionOnSet(g, t \cup {x}) = SumFunctionOnSet(f, (t \cup {x}) \cap T)
      <4>1. SumFunctionOnSet(g, t \cup {x}) = SumFunctionOnSet(g, t)
        BY <2>1, <3>1, <3>2
      <4>2. SumFunctionOnSet(f, (t \cup {x}) \cap T) = SumFunctionOnSet(f, t \cap T)
        BY <3>1
      <4> QED BY <3>3, <4>1, <4>2
    <3> QED BY <3>4
  <2> QED BY <2>2, <2>3
<1>3. S \in G
  <2> HIDE DEF G
  <2> QED BY <1>1, <1>2, GrowingSets
<1>4. S \cap T = T
  OBVIOUS
<1> QED BY <1>3, <1>4

\* Terms may be indexed by other things, one by one.
LEMMA SumInjected ==
    ASSUME NEW C, IsFiniteSet(C), NEW D, IsFiniteSet(D), NEW m \in [C -> D],
           \A i, j \in C : m[i] = m[j] => i = j,
           NEW f, NEW g,
           \A i \in C : f[i] \in Int /\ g[m[i]] = f[i],
           \A d \in D : (\A i \in C : m[i] # d) => g[d] = 0
    PROVE  SumFunctionOnSet(f, C) = SumFunctionOnSet(g, D)
<1> DEFINE Image(s) == {m[i] : i \in s}
           G == {s \in SUBSET C : SumFunctionOnSet(f, s) = SumFunctionOnSet(g, Image(s))}
<1>0. /\ \A i \in C : f[i] \in Int
      /\ \A d \in D : g[d] \in Int
      /\ \A s \in SUBSET C : Image(s) \in SUBSET D
  OBVIOUS
<1>1. {} \in G
  <2>1. Image({}) = {}
    OBVIOUS
  <2> QED BY <2>1, SumEmpty
<1>2. ASSUME NEW t \in SUBSET C, NEW x \in C \ t, t \in G
      PROVE  t \cup {x} \in G
  <2>1. SumFunctionOnSet(f, t \cup {x}) = f[x] + SumFunctionOnSet(f, t)
    BY <1>0, SumAddElement
  <2>2. Image(t \cup {x}) = Image(t) \cup {m[x]} /\ m[x] \in D \ Image(t)
    OBVIOUS
  <2>3. SumFunctionOnSet(g, Image(t) \cup {m[x]}) = g[m[x]] + SumFunctionOnSet(g, Image(t))
    <3>1. ASSUME NEW U \in SUBSET D, NEW y \in D \ U
          PROVE  SumFunctionOnSet(g, U \cup {y}) = g[y] + SumFunctionOnSet(g, U)
      BY ONLY IsFiniteSet(D), \A z \in D : g[z] \in Int, <3>1, SumAddElement
    <3>2. Image(t) \in SUBSET D
      BY <1>0
    <3> QED BY <2>2, <3>1, <3>2
  <2> QED BY <1>2, <2>1, <2>2, <2>3
<1>3. C \in G
  <2> HIDE DEF G
  <2> QED BY <1>1, <1>2, GrowingSets
<1>4. SumFunctionOnSet(g, D) = SumFunctionOnSet(g, Image(C))
  <2>1. \A d \in Image(C) : g[d] \in Int /\ g[d] = g[d]
    BY <1>0
  <2>2. \A d \in D \ Image(C) : g[d] = 0
    OBVIOUS
  <2> QED BY <1>0, <2>1, <2>2, SumOnPart
<1> QED BY <1>3, <1>4

\* A table of X by D: its rows and their sums, its columns and theirs.
IsTable(X, D, row, column, rows, columns) ==
    /\ \A x \in X, d \in D : row[x][d] \in Int /\ column[d][x] = row[x][d]
    /\ \A x \in X : rows[x] = SumFunctionOnSet(row[x], D)
    /\ \A d \in D : columns[d] = SumFunctionOnSet(column[d], X)

\* A table adds up to the same by rows and by columns.
LEMMA SumExchange ==
    ASSUME NEW X, IsFiniteSet(X), NEW D, IsFiniteSet(D), NEW row, NEW column,
           NEW rows, NEW columns, IsTable(X, D, row, column, rows, columns)
    PROVE  SumFunctionOnSet(rows, X) = SumFunctionOnSet(columns, D)
<1> USE DEF IsTable
<1> DEFINE upto == [s \in SUBSET X |-> [d \in D |-> SumFunctionOnSet(column[d], s)]]
           G == {s \in SUBSET X : SumFunctionOnSet(rows, s) = SumFunctionOnSet(upto[s], D)}
<1>0. \A x \in X, d \in D : column[d][x] \in Int
  OBVIOUS
<1>1. \A x \in X : rows[x] \in Int
  BY SumType
<1>2. \A s \in SUBSET X, d \in D : upto[s][d] \in Int
  <2> SUFFICES ASSUME NEW s \in SUBSET X, NEW d \in D
               PROVE  SumFunctionOnSet(column[d], s) \in Int
    OBVIOUS
  <2>1. IsFiniteSet(s) /\ \A x \in s : column[d][x] \in Int
    BY <1>0, FS_Subset
  <2> QED BY <2>1, SumType
<1>3. {} \in G
  <2>1. \A d \in D : upto[{}][d] = 0
    BY SumEmpty
  <2> HIDE DEF upto
  <2>2. SumFunctionOnSet(upto[{}], D) = 0
    BY <2>1, SumZero
  <2> QED BY <2>2, SumEmpty
<1>4. ASSUME NEW t \in SUBSET X, NEW x \in X \ t, t \in G
      PROVE  t \cup {x} \in G
  <2>1. SumFunctionOnSet(rows, t \cup {x}) = rows[x] + SumFunctionOnSet(rows, t)
    BY <1>1, SumAddElement
  <2>2. \A d \in D : upto[t \cup {x}][d] = row[x][d] + upto[t][d]
    <3> SUFFICES ASSUME NEW d \in D
                 PROVE  SumFunctionOnSet(column[d], t \cup {x}) =
                            row[x][d] + SumFunctionOnSet(column[d], t)
      OBVIOUS
    <3>1. SumFunctionOnSet(column[d], t \cup {x}) =
              column[d][x] + SumFunctionOnSet(column[d], t)
      BY <1>0, SumAddElement
    <3> QED BY <3>1
  <2> HIDE DEF upto
  <2>3. \A d \in D : row[x][d] \in Int /\ upto[t][d] \in Int
    BY <1>2
  <2>4. SumFunctionOnSet(upto[t \cup {x}], D) =
            SumFunctionOnSet(row[x], D) + SumFunctionOnSet(upto[t], D)
    <3>1. ASSUME NEW h, NEW k, NEW l,
                 \A d \in D : k[d] \in Int /\ l[d] \in Int /\ h[d] = k[d] + l[d]
          PROVE  SumFunctionOnSet(h, D) = SumFunctionOnSet(k, D) + SumFunctionOnSet(l, D)
      BY ONLY IsFiniteSet(D), <3>1, SumPlus
    <3> DEFINE h == upto[t \cup {x}]
               k == row[x]
               l == upto[t]
    <3>2. \A d \in D : k[d] \in Int /\ l[d] \in Int /\ h[d] = k[d] + l[d]
      BY <2>2, <2>3
    <3>3. SumFunctionOnSet(h, D) = SumFunctionOnSet(k, D) + SumFunctionOnSet(l, D)
      <4> HIDE DEF h, k, l
      <4> QED BY <3>1, <3>2
    <3> QED BY <3>3
  <2>5. SumFunctionOnSet(rows, t \cup {x}) = SumFunctionOnSet(upto[t \cup {x}], D)
    <3>1. rows[x] = SumFunctionOnSet(row[x], D)
      OBVIOUS
    <3>2. SumFunctionOnSet(rows, t) = SumFunctionOnSet(upto[t], D)
      BY <1>4
    <3> QED BY <2>1, <2>4, <3>1, <3>2
  <2>6. t \cup {x} \in SUBSET X
    OBVIOUS
  <2> QED BY <2>5, <2>6
<1>5. X \in G
  <2> HIDE DEF G
  <2> QED BY <1>3, <1>4, GrowingSets
<1>6. \A d \in D : upto[X][d] \in Int /\ upto[X][d] = columns[d]
  <2>1. \A d \in D : upto[X][d] = columns[d]
    OBVIOUS
  <2> QED BY <1>2, <2>1
<1>7. SumFunctionOnSet(upto[X], D) = SumFunctionOnSet(columns, D)
  <2> HIDE DEF upto
  <2> QED BY <1>6, SumSame
<1>8. SumFunctionOnSet(rows, X) = SumFunctionOnSet(upto[X], D)
  BY <1>5
<1> QED BY <1>7, <1>8

\* Equal terms.
LEMMA SumConstant ==
    ASSUME NEW S, IsFiniteSet(S), NEW c \in Int, NEW f, \A x \in S : f[x] = c
    PROVE  SumFunctionOnSet(f, S) = c * Cardinality(S)
<1> DEFINE G == {s \in SUBSET S : SumFunctionOnSet(f, s) = c * Cardinality(s)}
<1>0. \A x \in S : f[x] \in Int
  OBVIOUS
<1>1. {} \in G
  BY SumEmpty, FS_EmptySet
<1>2. ASSUME NEW t \in SUBSET S, NEW x \in S \ t, t \in G
      PROVE  t \cup {x} \in G
  <2>1. SumFunctionOnSet(f, t \cup {x}) = f[x] + SumFunctionOnSet(f, t)
    BY <1>0, SumAddElement
  <2>2. IsFiniteSet(t)
    BY FS_Subset
  <2>3. Cardinality(t \cup {x}) = Cardinality(t) + 1 /\ Cardinality(t) \in Nat
    BY <2>2, FS_AddElement, FS_CardinalityType
  <2>4. c * (Cardinality(t) + 1) = c + c * Cardinality(t)
    BY <2>3
  <2> QED BY <1>2, <2>1, <2>3, <2>4
<1>3. S \in G
  <2> HIDE DEF G
  <2> QED BY <1>1, <1>2, GrowingSets
<1> QED BY <1>3
=============================================================================
