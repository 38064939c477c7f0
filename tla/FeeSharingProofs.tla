-------------------------- MODULE FeeSharingProofs --------------------------
(***************************************************************************)
(* What a staker can do with any list of tokens, any pages and any         *)
(* checkpoints to begin at: a call goes through its tokens one by one, and *)
(* every one of these steps leaves each token's account sound (settled     *)
(* once, nothing forgotten, only blocks that are over) and pays for its    *)
(* progress out of the budget.  On the other side no fee that comes in is  *)
(* lost between checkpoints.                                               *)
(***************************************************************************)
EXTENDS FeeSharingCollector, BookLemmas

-----------------------------------------------------------------------------
(* Numbers. *)

LEMMA MinOf ==
    ASSUME NEW S \in SUBSET Nat, S # {}
    PROVE  Min(S) \in S /\ \A n \in S : Min(S) <= n
<1>1. \E m \in S : \A n \in S : m <= n
  BY MinimalNumber
<1> QED BY <1>1 DEF Min

LEMMA MaxOf ==
    ASSUME NEW b \in Nat, NEW S \in SUBSET (0..b), S # {}
    PROVE  Max(S) \in S /\ \A n \in S : n <= Max(S)
<1> DEFINE B == {b - n : n \in S}
<1>1. B \in SUBSET Nat /\ B # {}
  OBVIOUS
<1> HIDE DEF B
<1>2. PICK m \in B : \A n \in B : m <= n
  BY <1>1, MinimalNumber
<1>3. PICK k \in S : m = b - k
  BY <1>2 DEF B
<1>4. \A n \in S : n <= k
  <2> SUFFICES ASSUME NEW n \in S PROVE n <= k
    OBVIOUS
  <2>1. b - k <= b - n
    BY <1>2, <1>3 DEF B
  <2>2. n \in Nat /\ k \in Nat
    OBVIOUS
  <2> QED BY <2>1, <2>2
<1>5. \E x \in S : \A y \in S : x >= y
  BY <1>4
<1>6. Max(S) \in S /\ \A n \in S : Max(S) >= n
  BY <1>5 DEF Max
<1> QED BY <1>6

LEMMA TokensFinite == IsFiniteSet(Tokens)
BY FeeAssumption, FS_Union DEF Tokens

-----------------------------------------------------------------------------
(* A fold over a sequence stays where each of its steps stays.  What a fold *)
(* takes next of a set is top[s], and `step` is what it does, both as       *)
(* functions, so that the lemmas can be instantiated.                       *)

TakesFrom(top, S) == IsFiniteSet(S) /\ \A s \in SUBSET S : s # {} => top[s] \in s

StepsIn(step, G, S) == step \in [G -> [S -> G]]

Folded(g, top, step, begun, s) ==
    IF s = {} THEN begun ELSE step[g[s \ {top[s]}]][top[s]]

IsFold(g, top, step, begun, G, S) ==
    g \in [SUBSET S -> G] /\ \A s \in SUBSET S : g[s] = Folded(g, top, step, begun, s)

\* As long as c stays in G, it is the fold.
FoldsWithin(c, top, step, begun, G, S) ==
    /\ c[{}] = begun
    /\ \A s \in SUBSET S : s # {} /\ c[s \ {top[s]}] \in G =>
                             c[s] = step[c[s \ {top[s]}]][top[s]]

LEMMA FoldExists ==
    ASSUME NEW S, NEW top, TakesFrom(top, S), NEW G, NEW begun \in G,
           NEW step, StepsIn(step, G, S)
    PROVE  \E g : IsFold(g, top, step, begun, G, S)
<1> USE DEF TakesFrom, StepsIn
<1> DEFINE D == SUBSET S
           Upto(g, m) == /\ g \in [D -> G]
                         /\ \A s \in D : Cardinality(s) <= m =>
                                g[s] = Folded(g, top, step, begun, s)
           Bad == {m \in Nat : ~ \E g : Upto(g, m)}
<1>0. \A s \in D : IsFiniteSet(s) /\ Cardinality(s) \in Nat
                   /\ Cardinality(s) <= Cardinality(S)
                   /\ (Cardinality(s) = 0 <=> s = {})
  BY FS_Subset, FS_EmptySet, FS_CardinalityType
<1>1. 0 \notin Bad
  <2> DEFINE g == [s \in D |-> begun]
  <2>1. g \in [D -> G]
    OBVIOUS
  <2>2. \A s \in D : Cardinality(s) <= 0 => g[s] = Folded(g, top, step, begun, s)
    <3>1. \A s \in D : Cardinality(s) <= 0 => s = {}
      BY <1>0
    <3> QED BY <3>1 DEF Folded
  <2> QED BY <2>1, <2>2
<1>2. ASSUME NEW m \in Nat, m \notin Bad
      PROVE  m + 1 \notin Bad
  <2>1. PICK g : Upto(g, m)
    BY <1>2
  <2> DEFINE h == [s \in D |-> Folded(g, top, step, begun, s)]
  <2>2. h \in [D -> G]
    <3>1. ASSUME NEW s \in D
          PROVE  Folded(g, top, step, begun, s) \in G
      <4>1. CASE s = {}
        BY <4>1 DEF Folded
      <4>2. CASE s # {}
        <5>1. top[s] \in S /\ s \ {top[s]} \in D
          BY <4>2
        <5>2. g[s \ {top[s]}] \in G
          BY <2>1, <5>1
        <5>3. \A c \in G, x \in S : step[c][x] \in G
          OBVIOUS
        <5>4. step[g[s \ {top[s]}]][top[s]] \in G
          BY <5>1, <5>2, <5>3
        <5>5. Folded(g, top, step, begun, s) = step[g[s \ {top[s]}]][top[s]]
          BY <4>2 DEF Folded
        <5> QED BY <5>4, <5>5
      <4> QED BY <4>1, <4>2
    <3> QED BY <3>1
  <2>3. ASSUME NEW s \in D, Cardinality(s) <= m + 1
        PROVE  h[s] = Folded(h, top, step, begun, s)
    <3>1. CASE s = {}
      BY <3>1 DEF Folded
    <3>2. CASE s # {}
      <4> DEFINE t == s \ {top[s]}
      <4>0. t \in D /\ top[s] \in s
        BY <3>2
      <4>1. Cardinality(t) <= m
        <5>1. Cardinality(t) = Cardinality(s) - 1
          BY <1>0, <4>0, FS_RemoveElement
        <5> QED BY <1>0, <2>3, <5>1
      <4>2. g[t] = Folded(g, top, step, begun, t)
        BY <2>1, <4>0, <4>1
      <4>3. h[t] = g[t]
        BY <4>0, <4>2
      <4>4. h[s] = step[g[t]][top[s]]
        BY <3>2 DEF Folded
      <4> HIDE DEF h
      <4> QED BY <3>2, <4>3, <4>4 DEF Folded
    <3> QED BY <3>1, <3>2
  <2>4. Upto(h, m + 1)
    BY <2>2, <2>3
  <2> QED BY <2>4
<1>3. Bad = {}
  <2> SUFFICES ASSUME Bad # {} PROVE FALSE
    OBVIOUS
  <2>0. Bad \in SUBSET Nat
    OBVIOUS
  <2>1. PICK m \in Bad : \A k \in Bad : m <= k
    <3> HIDE DEF Bad
    <3> QED BY <2>0, MinimalNumber
  <2>2. m # 0 /\ m \in Nat
    BY <1>1, <2>0
  <2>3. m - 1 \in Nat /\ m - 1 \notin Bad
    <3> HIDE DEF Bad
    <3> QED BY <2>1, <2>2
  <2>4. (m - 1) + 1 = m
    BY <2>2
  <2> HIDE DEF Bad
  <2> QED BY <1>2, <2>3, <2>4
<1>4. Cardinality(S) \in Nat
  BY FS_CardinalityType
<1>5. PICK g : Upto(g, Cardinality(S))
  BY <1>3, <1>4
<1> QED BY <1>0, <1>5 DEF IsFold

\* What follows the recursion is in G: by the size of the set.
LEMMA FoldStays ==
    ASSUME NEW S, NEW top, TakesFrom(top, S), NEW G, NEW begun \in G,
           NEW step, StepsIn(step, G, S), NEW c, FoldsWithin(c, top, step, begun, G, S)
    PROVE  c[S] \in G
<1> USE DEF TakesFrom, StepsIn, FoldsWithin
<1> DEFINE Bad == {s \in SUBSET S : c[s] \notin G}
<1> SUFFICES ASSUME Bad # {} PROVE FALSE
  OBVIOUS
<1>1. PICK m \in Bad : \A t \in Bad : t \subseteq m => t = m
  <2>1. Bad \in SUBSET (SUBSET S)
    OBVIOUS
  <2> HIDE DEF Bad
  <2> QED BY <2>1, MinimalSubset
<1>2. m \in SUBSET S /\ m # {} /\ top[m] \in m
  OBVIOUS
<1>3. m \ {top[m]} \in SUBSET S /\ m \ {top[m]} \notin Bad
  BY <1>1, <1>2
<1>4. c[m \ {top[m]}] \in G
  BY <1>3
<1>5. c[m] = step[c[m \ {top[m]}]][top[m]] /\ top[m] \in S
  BY <1>2, <1>4
<1>6. c[m] \in G
  <2>1. \A x \in G, i \in S : step[x][i] \in G
    OBVIOUS
  <2> QED BY <1>4, <1>5, <2>1
<1> QED BY <1>6

\* The set of indexes of a sequence is taken from the last one on.
LastOf(seq) == [s \in SUBSET (DOMAIN seq) |-> Max(s)]

LEMMA IndexesFromLast ==
    ASSUME NEW T, NEW seq \in Seq(T)
    PROVE  TakesFrom(LastOf(seq), DOMAIN seq)
<1>1. Len(seq) \in Nat /\ DOMAIN seq = 1..Len(seq)
  OBVIOUS
<1>2. IsFiniteSet(DOMAIN seq)
  BY <1>1, FS_Interval
<1>3. ASSUME NEW s \in SUBSET (DOMAIN seq), s # {}
      PROVE  Max(s) \in s
  <2>1. s \in SUBSET (0..Len(seq))
    <3>1. \A i \in DOMAIN seq : i \in 0..Len(seq)
      BY <1>1
    <3> QED BY <3>1
  <2> QED BY <1>1, <1>3, <2>1, MaxOf
<1> QED BY <1>2, <1>3 DEF TakesFrom, LastOf

LEMMA RbtcClaimedStays ==
    ASSUME NEW T, NEW seq \in Seq(T), NEW user, NEW G, NEW begun \in G,
           \A c \in G, i \in DOMAIN seq : ClaimRbtc(user, c, seq[i]) \in G
    PROVE  RbtcClaimed(user, begun, seq) \in G
<1> DEFINE S == DOMAIN seq
           top == LastOf(seq)
           step == [c \in G |-> [i \in S |-> ClaimRbtc(user, c, seq[i])]]
           Unfold(g) == [s \in SUBSET S |->
                            IF s = {} THEN begun
                            ELSE ClaimRbtc(user, g[s \ {Max(s)}], seq[Max(s)])]
           c == CHOOSE g : g = Unfold(g)
<1>1. TakesFrom(top, S) /\ StepsIn(step, G, S)
  BY IndexesFromLast DEF StepsIn
<1>2. \A x \in G, i \in S : step[x][i] = ClaimRbtc(user, x, seq[i])
  OBVIOUS
<1>3. \A s \in SUBSET S : s # {} => top[s] = Max(s) /\ Max(s) \in S
  BY <1>1 DEF TakesFrom, LastOf
<1> HIDE DEF step, top
<1>4. PICK g : IsFold(g, top, step, begun, G, S)
  <2> HIDE DEF S
  <2> QED BY <1>1, FoldExists
<1>5. \A s \in SUBSET S : g[s] = IF s = {} THEN begun
                                ELSE ClaimRbtc(user, g[s \ {Max(s)}], seq[Max(s)])
  BY <1>2, <1>3, <1>4, ZenonT(40) DEF IsFold, Folded
<1>6. g = Unfold(g)
  BY <1>4, <1>5 DEF IsFold
<1>7. c = Unfold(c)
  <2> HIDE DEF Unfold
  <2> QED BY <1>6
<1>8. RbtcClaimed(user, begun, seq) = c[S]
  BY DEF RbtcClaimed, FoldLeft, MapThenFoldSet
<1>9. \A s \in SUBSET S :
          c[s] = IF s = {} THEN begun ELSE ClaimRbtc(user, c[s \ {Max(s)}], seq[Max(s)])
  <2> HIDE DEF c
  <2> QED BY <1>7
<1> HIDE DEF c, Unfold
<1>10. FoldsWithin(c, top, step, begun, G, S)
  <2>1. c[{}] = begun
    BY <1>9
  <2>2. ASSUME NEW s \in SUBSET S, s # {}, c[s \ {top[s]}] \in G
        PROVE  c[s] = step[c[s \ {top[s]}]][top[s]]
    <3>1. top[s] = Max(s) /\ Max(s) \in S
      BY <1>3, <2>2
    <3>2. c[s] = ClaimRbtc(user, c[s \ {Max(s)}], seq[Max(s)])
      BY <1>9, <2>2
    <3> QED BY <1>2, <2>2, <3>1, <3>2
  <2> QED BY <2>1, <2>2 DEF FoldsWithin
<1>11. c[S] \in G
  <2> HIDE DEF S
  <2> QED BY <1>1, <1>10, FoldStays
<1> QED BY <1>8, <1>11

LEMMA OthersClaimedStays ==
    ASSUME NEW T, NEW seq \in Seq(T), NEW user, NEW G, NEW begun \in G,
           \A c \in G, i \in DOMAIN seq : ClaimOther(user, c, seq[i]) \in G
    PROVE  OthersClaimed(user, begun, seq) \in G
<1> DEFINE S == DOMAIN seq
           top == LastOf(seq)
           step == [c \in G |-> [i \in S |-> ClaimOther(user, c, seq[i])]]
           Unfold(g) == [s \in SUBSET S |->
                            IF s = {} THEN begun
                            ELSE ClaimOther(user, g[s \ {Max(s)}], seq[Max(s)])]
           c == CHOOSE g : g = Unfold(g)
<1>1. TakesFrom(top, S) /\ StepsIn(step, G, S)
  BY IndexesFromLast DEF StepsIn
<1>2. \A x \in G, i \in S : step[x][i] = ClaimOther(user, x, seq[i])
  OBVIOUS
<1>3. \A s \in SUBSET S : s # {} => top[s] = Max(s) /\ Max(s) \in S
  BY <1>1 DEF TakesFrom, LastOf
<1> HIDE DEF step, top
<1>4. PICK g : IsFold(g, top, step, begun, G, S)
  <2> HIDE DEF S
  <2> QED BY <1>1, FoldExists
<1>5. \A s \in SUBSET S : g[s] = IF s = {} THEN begun
                                ELSE ClaimOther(user, g[s \ {Max(s)}], seq[Max(s)])
  BY <1>2, <1>3, <1>4, ZenonT(40) DEF IsFold, Folded
<1>6. g = Unfold(g)
  BY <1>4, <1>5 DEF IsFold
<1>7. c = Unfold(c)
  <2> HIDE DEF Unfold
  <2> QED BY <1>6
<1>8. OthersClaimed(user, begun, seq) = c[S]
  BY DEF OthersClaimed, FoldLeft, MapThenFoldSet
<1>9. \A s \in SUBSET S :
          c[s] = IF s = {} THEN begun ELSE ClaimOther(user, c[s \ {Max(s)}], seq[Max(s)])
  <2> HIDE DEF c
  <2> QED BY <1>7
<1> HIDE DEF c, Unfold
<1>10. FoldsWithin(c, top, step, begun, G, S)
  <2>1. c[{}] = begun
    BY <1>9
  <2>2. ASSUME NEW s \in SUBSET S, s # {}, c[s \ {top[s]}] \in G
        PROVE  c[s] = step[c[s \ {top[s]}]][top[s]]
    <3>1. top[s] = Max(s) /\ Max(s) \in S
      BY <1>3, <2>2
    <3>2. c[s] = ClaimOther(user, c[s \ {Max(s)}], seq[Max(s)])
      BY <1>9, <2>2
    <3> QED BY <1>2, <2>2, <3>1, <3>2
  <2> QED BY <2>1, <2>2 DEF FoldsWithin
<1>11. c[S] \in G
  <2> HIDE DEF S
  <2> QED BY <1>1, <1>10, FoldStays
<1> QED BY <1>8, <1>11

LEMMA SkippedClaimedStays ==
    ASSUME NEW T, NEW seq \in Seq(T), NEW user, NEW G, NEW begun \in G,
           \A c \in G, i \in DOMAIN seq : ClaimSkipped(user, c, seq[i]) \in G
    PROVE  SkippedClaimed(user, begun, seq) \in G
<1> DEFINE S == DOMAIN seq
           top == LastOf(seq)
           step == [c \in G |-> [i \in S |-> ClaimSkipped(user, c, seq[i])]]
           Unfold(g) == [s \in SUBSET S |->
                            IF s = {} THEN begun
                            ELSE ClaimSkipped(user, g[s \ {Max(s)}], seq[Max(s)])]
           c == CHOOSE g : g = Unfold(g)
<1>1. TakesFrom(top, S) /\ StepsIn(step, G, S)
  BY IndexesFromLast DEF StepsIn
<1>2. \A x \in G, i \in S : step[x][i] = ClaimSkipped(user, x, seq[i])
  OBVIOUS
<1>3. \A s \in SUBSET S : s # {} => top[s] = Max(s) /\ Max(s) \in S
  BY <1>1 DEF TakesFrom, LastOf
<1> HIDE DEF step, top
<1>4. PICK g : IsFold(g, top, step, begun, G, S)
  <2> HIDE DEF S
  <2> QED BY <1>1, FoldExists
<1>5. \A s \in SUBSET S : g[s] = IF s = {} THEN begun
                                ELSE ClaimSkipped(user, g[s \ {Max(s)}], seq[Max(s)])
  BY <1>2, <1>3, <1>4, ZenonT(40) DEF IsFold, Folded
<1>6. g = Unfold(g)
  BY <1>4, <1>5 DEF IsFold
<1>7. c = Unfold(c)
  <2> HIDE DEF Unfold
  <2> QED BY <1>6
<1>8. SkippedClaimed(user, begun, seq) = c[S]
  BY DEF SkippedClaimed, FoldLeft, MapThenFoldSet
<1>9. \A s \in SUBSET S :
          c[s] = IF s = {} THEN begun ELSE ClaimSkipped(user, c[s \ {Max(s)}], seq[Max(s)])
  <2> HIDE DEF c
  <2> QED BY <1>7
<1> HIDE DEF c, Unfold
<1>10. FoldsWithin(c, top, step, begun, G, S)
  <2>1. c[{}] = begun
    BY <1>9
  <2>2. ASSUME NEW s \in SUBSET S, s # {}, c[s \ {top[s]}] \in G
        PROVE  c[s] = step[c[s \ {top[s]}]][top[s]]
    <3>1. top[s] = Max(s) /\ Max(s) \in S
      BY <1>3, <2>2
    <3>2. c[s] = ClaimSkipped(user, c[s \ {Max(s)}], seq[Max(s)])
      BY <1>9, <2>2
    <3> QED BY <1>2, <2>2, <3>1, <3>2
  <2> QED BY <2>1, <2>2 DEF FoldsWithin
<1>11. c[S] \in G
  <2> HIDE DEF S
  <2> QED BY <1>1, <1>10, FoldStays
<1> QED BY <1>8, <1>11


-----------------------------------------------------------------------------
(* The account of a user with a token: the first n checkpoints are done,    *)
(* each in one page or given up.                                            *)

Pages(pages, n) ==
    \A k \in DOMAIN pages : /\ pages[k].from < pages[k].to
                            /\ pages[k].to <= n
                            /\ Len(pages[k].shares) = pages[k].to - pages[k].from

Follow(pages) ==
    \A i, j \in DOMAIN pages : i < j => pages[i].to <= pages[j].from

Complete(pages, given, n) ==
    \A i \in 1..n : \/ i \in given
                    \/ \E k \in DOMAIN pages : i \in (pages[k].from + 1)..pages[k].to

Account(n, pages, given) ==
    /\ n \in Nat
    /\ pages \in Seq(Settlements)
    /\ given \subseteq 1..n
    /\ Pages(pages, n)
    /\ Follow(pages)
    /\ Complete(pages, given, n)

\* One more page, which begins where the account ends.
LEMMA AccountSettled ==
    ASSUME NEW n, NEW pages, NEW given, Account(n, pages, given),
           NEW page \in Settlements, page.from = n, n < page.to,
           Len(page.shares) = page.to - page.from
    PROVE  Account(page.to, Append(pages, page), given)
<1> DEFINE longer == Append(pages, page)
<1>0. /\ n \in Nat /\ pages \in Seq(Settlements) /\ given \subseteq 1..n
      /\ page.from \in Nat /\ page.to \in Nat
  BY DEF Account, Settlements
<1>1. /\ longer \in Seq(Settlements)
      /\ DOMAIN pages = 1..Len(pages) /\ Len(pages) \in Nat
      /\ DOMAIN longer = 1..(Len(pages) + 1)
      /\ \A k \in DOMAIN pages : longer[k] = pages[k]
      /\ longer[Len(pages) + 1] = page
  BY <1>0
<1> HIDE DEF longer
<1>2. \A k \in DOMAIN longer : k \in DOMAIN pages \/ k = Len(pages) + 1
  BY <1>1
<1>3. \A k \in DOMAIN pages : pages[k].from \in Nat /\ pages[k].to \in Nat
  <2>1. \A k \in DOMAIN pages : pages[k] \in Settlements
    BY <1>0
  <2> QED BY <2>1 DEF Settlements
<1>4. Pages(pages, n) /\ Follow(pages) /\ Complete(pages, given, n)
  BY DEF Account
<1>5. Pages(longer, page.to)
  <2> SUFFICES ASSUME NEW k \in DOMAIN longer
               PROVE  /\ longer[k].from < longer[k].to
                      /\ longer[k].to <= page.to
                      /\ Len(longer[k].shares) = longer[k].to - longer[k].from
    BY DEF Pages
  <2>1. CASE k \in DOMAIN pages
    BY <1>0, <1>1, <1>3, <1>4, <2>1 DEF Pages
  <2>2. CASE k = Len(pages) + 1
    BY <1>0, <1>1, <2>2
  <2> QED BY <1>2, <2>1, <2>2
<1>6. Follow(longer)
  <2> SUFFICES ASSUME NEW i \in DOMAIN longer, NEW j \in DOMAIN longer, i < j
               PROVE  longer[i].to <= longer[j].from
    BY DEF Follow
  <2>1. i \in DOMAIN pages
    BY <1>1
  <2>2. CASE j \in DOMAIN pages
    BY <1>1, <1>4, <2>1, <2>2 DEF Follow
  <2>3. CASE j = Len(pages) + 1
    BY <1>0, <1>1, <1>3, <1>4, <2>1, <2>3 DEF Pages
  <2> QED BY <1>2, <2>2, <2>3
<1>7. Complete(longer, given, page.to)
  <2> SUFFICES ASSUME NEW i \in 1..page.to
               PROVE  \/ i \in given
                      \/ \E k \in DOMAIN longer : i \in (longer[k].from + 1)..longer[k].to
    BY DEF Complete
  <2>1. CASE i \in 1..n
    <3>1. CASE i \in given
      BY <3>1
    <3>2. CASE i \notin given
      <4>1. PICK k \in DOMAIN pages : i \in (pages[k].from + 1)..pages[k].to
        BY <1>4, <2>1, <3>2 DEF Complete
      <4>2. k \in DOMAIN longer /\ longer[k] = pages[k]
        BY <1>1
      <4> QED BY <4>1, <4>2
    <3> QED BY <3>1, <3>2
  <2>2. CASE i \notin 1..n
    <3>1. i \in (page.from + 1)..page.to
      BY <1>0, <2>2
    <3>2. Len(pages) + 1 \in DOMAIN longer
      BY <1>1
    <3> QED BY <1>1, <3>1, <3>2
  <2> QED BY <2>1, <2>2
<1>8. given \subseteq 1..page.to
  BY <1>0
<1> QED BY <1>0, <1>1, <1>5, <1>6, <1>7, <1>8 DEF Account, longer

\* What comes next is given up.
LEMMA AccountSkipped ==
    ASSUME NEW n, NEW pages, NEW given, Account(n, pages, given),
           NEW m \in Nat, n <= m
    PROVE  Account(m, pages, given \cup ((n + 1)..m))
<1>0. n \in Nat /\ pages \in Seq(Settlements) /\ given \subseteq 1..n
  BY DEF Account
<1>1. Pages(pages, n) /\ Follow(pages) /\ Complete(pages, given, n)
  BY DEF Account
<1>2. \A k \in DOMAIN pages : pages[k].from \in Nat /\ pages[k].to \in Nat
  <2>1. \A k \in DOMAIN pages : pages[k] \in Settlements
    BY <1>0
  <2> QED BY <2>1 DEF Settlements
<1>3. Pages(pages, m)
  BY <1>0, <1>1, <1>2 DEF Pages
<1>4. Complete(pages, given \cup ((n + 1)..m), m)
  <2> SUFFICES ASSUME NEW i \in 1..m, i \notin given, i \notin (n + 1)..m
               PROVE  \E k \in DOMAIN pages : i \in (pages[k].from + 1)..pages[k].to
    BY DEF Complete
  <2>1. i \in 1..n
    BY <1>0
  <2> QED BY <1>1, <2>1 DEF Complete
<1>5. given \cup ((n + 1)..m) \subseteq 1..m
  BY <1>0
<1> QED BY <1>0, <1>1, <1>3, <1>4, <1>5 DEF Account

\* In every state the account of each user with each token is in order.
Accounts == \A u \in Users, t \in Tokens :
                Account(processedCheckpoints[u][t], settled[u][t], skipped[u][t])

AccountTypes ==
    /\ processedCheckpoints \in [Users -> [Tokens -> Nat]]
    /\ settled \in [Users -> [Tokens -> Seq(Settlements)]]
    /\ skipped \in [Users -> [Tokens -> SUBSET Nat]]

LEMMA AccountsMean ==
    ASSUME AccountTypes
    PROVE  Accounts <=> SettledExactlyOnce /\ SettledIsPast
<1>1. \A u \in Users, t \in Tokens :
          processedCheckpoints[u][t] \in Nat /\ settled[u][t] \in Seq(Settlements)
  BY DEF AccountTypes
<1>2. ASSUME Accounts PROVE SettledOnce
  BY <1>2 DEF Accounts, Account, Follow, SettledOnce
<1>3. ASSUME Accounts PROVE NothingForgotten
  BY <1>3 DEF Accounts, Account, Complete, NothingForgotten
<1>4. ASSUME Accounts PROVE SettledIsPast
  BY <1>4 DEF Accounts, Account, Pages, SettledIsPast
<1>5. ASSUME SettledOnce, NothingForgotten, SettledIsPast PROVE Accounts
  <2> SUFFICES ASSUME NEW u \in Users, NEW t \in Tokens
               PROVE  Account(processedCheckpoints[u][t], settled[u][t], skipped[u][t])
    BY DEF Accounts
  <2>1. Follow(settled[u][t])
    BY <1>5 DEF SettledOnce, Follow
  <2>2. Complete(settled[u][t], skipped[u][t], processedCheckpoints[u][t])
    BY <1>5 DEF NothingForgotten, Complete
  <2>3. Pages(settled[u][t], processedCheckpoints[u][t])
    BY <1>5 DEF SettledIsPast, Pages
  <2>4. skipped[u][t] \subseteq 1..processedCheckpoints[u][t]
    BY <1>5 DEF SettledIsPast
  <2> QED BY <1>1, <2>1, <2>2, <2>3, <2>4 DEF Account
<1> QED BY <1>2, <1>3, <1>4, <1>5 DEF SettledExactlyOnce

-----------------------------------------------------------------------------
(* What a page holds. *)

LEMMA CheckpointTypes ==
    ASSUME TypeOK, NEW t \in Tokens
    PROVE  /\ tokenCheckpoints[t] \in Seq(TokenCheckpoints)
           /\ Len(tokenCheckpoints[t]) \in Nat
           /\ DOMAIN tokenCheckpoints[t] = 1..Len(tokenCheckpoints[t])
           /\ \A i \in 1..Len(tokenCheckpoints[t]) :
                 /\ tokenCheckpoints[t][i].block \in Nat
                 /\ tokenCheckpoints[t][i].numTokens \in Nat \ {0}
                 /\ tokenCheckpoints[t][i].totalWeightedStake \in Nat \ {0}
                 /\ \A u \in Users : tokenCheckpoints[t][i].stakes[u] \in Nat
<1>1. tokenCheckpoints[t] \in Seq(TokenCheckpoints)
  BY DEF TypeOK
<1>2. \A i \in 1..Len(tokenCheckpoints[t]) : tokenCheckpoints[t][i] \in TokenCheckpoints
  BY <1>1
<1>3. \A s \in Snapshots, u \in Users : s[u] \in Nat
  BY FeeAssumption DEF Stakers
<1>4. \A cp \in TokenCheckpoints :
          /\ cp.block \in Nat
          /\ cp.numTokens \in Nat \ {0}
          /\ cp.totalWeightedStake \in Nat \ {0}
          /\ \A u \in Users : cp.stakes[u] \in Nat
  BY <1>3 DEF TokenCheckpoints
<1> QED BY <1>1, <1>2, <1>4

\* Where a page ends: at a checkpoint of a block that is over.
LEMMA EndIsPast ==
    ASSUME TypeOK, CheckpointsInOrder, NEW t \in Tokens,
           NEW start \in Nat, NEW max \in Nat \ {0}
    PROVE  /\ EndOfRange(t, start, max) \in 0..Len(tokenCheckpoints[t])
           /\ EndOfRange(t, start, max) > 0 =>
                 tokenCheckpoints[t][EndOfRange(t, start, max)].block < block
<1> DEFINE cps == tokenCheckpoints[t]
           end == Min({start + max, Len(cps)})
<1>0. /\ Len(cps) \in Nat /\ DOMAIN cps = 1..Len(cps)
      /\ \A i \in 1..Len(cps) : cps[i].block \in Nat
      /\ cps = <<>> <=> Len(cps) = 0
      /\ block \in Nat
  BY CheckpointTypes DEF TypeOK
<1>1. CASE cps = <<>>
  BY <1>0, <1>1 DEF EndOfRange
<1>2. CASE cps # <<>>
  <2>1. end \in {start + max, Len(cps)} /\ end <= Len(cps)
    <3>1. {start + max, Len(cps)} \in SUBSET Nat
      BY <1>0
    <3> QED BY <3>1, MinOf
  <2>2. end \in 1..Len(cps)
    BY <1>0, <1>2, <2>1
  <2>3. EndOfRange(t, start, max) = IF cps[end].block = block THEN end - 1 ELSE end
    BY <1>2 DEF EndOfRange, PastBlock
  <2> HIDE DEF end
  <2>4. \A i \in 1..Len(cps) : cps[i].block <= block
    BY <1>0 DEF CheckpointsInOrder
  <2>5. \A i, j \in 1..Len(cps) : i < j => cps[i].block < cps[j].block
    BY <1>0 DEF CheckpointsInOrder
  <2> HIDE DEF cps
  <2>6. CASE cps[end].block = block
    <3>1. end - 1 > 0 => cps[end - 1].block < cps[end].block
      BY <1>0, <2>2, <2>5
    <3> QED BY <1>0, <2>2, <2>3, <2>6, <3>1 DEF cps
  <2>7. CASE cps[end].block # block
    BY <1>0, <2>2, <2>3, <2>4, <2>7 DEF cps
  <2> QED BY <2>6, <2>7
<1> QED BY <1>1, <1>2

LEMMA EndIsInt ==
    ASSUME TypeOK, CheckpointsInOrder, NEW t \in Tokens,
           NEW start \in Nat, NEW max \in Nat \ {0}
    PROVE  EndOfRange(t, start, max) \in Int
<1>1. EndOfRange(t, start, max) \in 0..Len(tokenCheckpoints[t])
  BY EndIsPast
<1> QED BY <1>1, CheckpointTypes

LEMMA ShareIsNat ==
    ASSUME NEW a \in Nat, NEW b \in Nat, NEW c \in Nat \ {0}
    PROVE  (a * b) \div c \in Nat
<1>1. a * b \in Nat
  OBVIOUS
<1>2. \A p \in Nat : p \div c \in Nat
  OBVIOUS
<1> QED BY <1>1, <1>2

\* The page from `start` to `end`.
LEMMA PageIs ==
    ASSUME TypeOK, CheckpointsInOrder, NEW u \in Users, NEW t \in Tokens,
           NEW start \in Nat, NEW max \in Nat \ {0}
    PROVE  /\ Page(u, t, start, max).from = start
           /\ Page(u, t, start, max).to = EndOfRange(t, start, max)
           /\ EndOfRange(t, start, max) <= start => Amount(Page(u, t, start, max)) = 0
           /\ EndOfRange(t, start, max) > start =>
                 /\ Page(u, t, start, max) \in Settlements
                 /\ Len(Page(u, t, start, max).shares) = EndOfRange(t, start, max) - start
<1> DEFINE cps == tokenCheckpoints[t]
           end == EndOfRange(t, start, max)
           share(k) == ShareOf(cps[start + k], StakeUsed(u, cps, start, start + k))
           shares == [k \in 1..(end - start) |-> share(k)]
<1>0. end \in 0..Len(cps) /\ Len(cps) \in Nat
  BY EndIsPast, CheckpointTypes
<1>1. /\ Page(u, t, start, max) = [from |-> start, to |-> end, shares |-> shares]
  BY DEF Page
<1>2. ASSUME NEW k \in 1..(end - start)
      PROVE  share(k) \in Nat
  <2> DEFINE Same == {j \in (start + 1)..(start + k) : cps[j].lockDate = cps[start + k].lockDate}
  <2>1. start + k \in Same /\ Same \in SUBSET Nat
    BY <1>0
  <2>2. Min(Same) \in (start + 1)..(start + k)
    <3>1. \A j \in Same : j \in (start + 1)..(start + k)
      OBVIOUS
    <3>2. Min(Same) \in Same
      <4> HIDE DEF Same
      <4> QED BY <2>1, MinOf
    <3> QED BY <3>1, <3>2
  <2>3. Min(Same) \in 1..Len(cps) /\ start + k \in 1..Len(cps)
    <3> HIDE DEF Same, end, cps
    <3> QED BY <1>0, <2>2
  <2>4. /\ cps[start + k].numTokens \in Nat
        /\ cps[start + k].totalWeightedStake \in Nat \ {0}
        /\ cps[Min(Same)].stakes[u] \in Nat
    BY <2>3, CheckpointTypes
  <2>5. share(k) = (cps[start + k].numTokens * cps[Min(Same)].stakes[u])
                       \div cps[start + k].totalWeightedStake
    BY DEF ShareOf, StakeUsed
  <2> HIDE DEF share, Same, cps
  <2> QED BY <2>4, <2>5, ShareIsNat
<1> HIDE DEF share
<1>3. ASSUME end <= start
      PROVE  Amount(Page(u, t, start, max)) = 0
  <2>1. 1..(end - start) = {}
    BY <1>0, <1>3
  <2>2. DOMAIN shares = {}
    BY <2>1
  <2>3. Amount(Page(u, t, start, max)) = SumFunctionOnSet(shares, DOMAIN shares)
    BY <1>1 DEF Amount, SumFunction
  <2> HIDE DEF shares
  <2> QED BY <2>2, <2>3, SumEmpty
<1>4. ASSUME end > start
      PROVE  /\ Page(u, t, start, max) \in Settlements
             /\ Len(Page(u, t, start, max).shares) = end - start
  <2>1. end - start \in Nat /\ end \in Nat
    BY <1>0, <1>4
  <2>2. shares \in Seq(Nat) /\ Len(shares) = end - start
    <3> HIDE DEF end
    <3> QED BY <1>2, <2>1
  <2> HIDE DEF shares, end
  <2> QED BY <1>1, <2>1, <2>2 DEF Settlements
<1>5. Page(u, t, start, max).from = start /\ Page(u, t, start, max).to = end
  BY <1>1
<1> QED BY <1>3, <1>4, <1>5

\* A page without fees that makes no progress has nothing to settle.
LEMMA PaysOnlyAhead ==
    ASSUME TypeOK, CheckpointsInOrder, NEW u \in Users, NEW t \in Tokens,
           NEW start \in Nat, NEW max \in Nat \ {0},
           Amount(Page(u, t, start, max)) # 0
    PROVE  EndOfRange(t, start, max) > start
<1>1. EndOfRange(t, start, max) \in Int
  BY EndIsInt
<1> QED BY <1>1, PageIs

-----------------------------------------------------------------------------
(* What a call has done so far. *)

Calls == [processed : [Tokens -> Nat], pages : [Tokens -> Seq(Settlements)],
          skipped : [Tokens -> SUBSET Nat], budget : Nat, reverted : BOOLEAN]

IsPast(t, n) == n \in 1..Len(tokenCheckpoints[t]) /\ tokenCheckpoints[t][n].block < block

\* The account of the user is in order as the call leaves it, it was moved to
\* a past checkpoint only, and what was given up before still is.
Orderly(user, t, n, pages, given) ==
    /\ Account(n, pages, given)
    /\ n = processedCheckpoints[user][t] \/ IsPast(t, n)
    /\ skipped[user][t] \subseteq given

InOrder(user, c) ==
    /\ c \in Calls
    /\ \A t \in Tokens : Orderly(user, t, c.processed[t], c.pages[t], c.skipped[t])

\* The checkpoints gone through, without those given up.
Gone(user, t, n, given) ==
    n - processedCheckpoints[user][t] - Cardinality(given \ skipped[user][t])

Work(user, c) == [t \in Tokens |-> Gone(user, t, c.processed[t], c.skipped[t])]

WorkDone(user, c) == SumFunctionOnSet(Work(user, c), Tokens)

WithinBudget(user, c, max) == c.reverted \/ WorkDone(user, c) + c.budget <= max

Sound(user, max) == {c \in Calls : InOrder(user, c) /\ WithinBudget(user, c, max)}

LEMMA GoneIsInt ==
    ASSUME TypeOK, NEW user \in Users, NEW t \in Tokens,
           NEW n, NEW pages, NEW given, Account(n, pages, given)
    PROVE  /\ IsFiniteSet(given \ skipped[user][t])
           /\ Cardinality(given \ skipped[user][t]) \in Nat
           /\ Gone(user, t, n, given) \in Int
<1>1. n \in Nat /\ given \subseteq 1..n
  BY DEF Account
<1>2. IsFiniteSet(given)
  <2> DEFINE I == 1..n
  <2>1. IsFiniteSet(I) /\ given \subseteq I
    BY <1>1, FS_Interval
  <2> HIDE DEF I
  <2> QED BY <2>1, FS_Subset
<1>3. IsFiniteSet(given \ skipped[user][t])
  BY <1>2, FS_Difference
<1>4. Cardinality(given \ skipped[user][t]) \in Nat
  BY <1>3, FS_CardinalityType
<1>5. processedCheckpoints[user][t] \in Nat
  BY DEF TypeOK
<1> QED BY <1>1, <1>3, <1>4, <1>5 DEF Gone

LEMMA WorkIsInt ==
    ASSUME TypeOK, NEW user \in Users, NEW c, InOrder(user, c)
    PROVE  /\ \A t \in Tokens : Work(user, c)[t] \in Int
           /\ WorkDone(user, c) \in Int
<1>1. \A t \in Tokens : Work(user, c)[t] \in Int
  BY GoneIsInt DEF Work, InOrder, Orderly
<1> QED BY <1>1, TokensFinite, SumType DEF WorkDone

\* One token changes, for so much work.
LEMMA WorkChanges ==
    ASSUME TypeOK, NEW user \in Users, NEW c, InOrder(user, c), NEW d, InOrder(user, d),
           NEW t \in Tokens,
           \A s \in Tokens \ {t} : d.processed[s] = c.processed[s] /\ d.skipped[s] = c.skipped[s]
    PROVE  WorkDone(user, d) = WorkDone(user, c) - Work(user, c)[t] + Work(user, d)[t]
<1>1. \A s \in Tokens \ {t} : Work(user, d)[s] = Work(user, c)[s]
  BY DEF Work
<1>2. /\ \A s \in Tokens : Work(user, c)[s] \in Int
      /\ Work(user, d)[t] \in Int
  BY WorkIsInt
<1> DEFINE f == Work(user, c)
           g == Work(user, d)
<1> HIDE DEF f, g
<1>3. SumFunctionOnSet(g, Tokens) = SumFunctionOnSet(f, Tokens) - f[t] + g[t]
  <2>1. \A s \in Tokens : f[s] \in Int
    BY <1>2 DEF f
  <2>2. g[t] \in Int
    BY <1>2 DEF g
  <2>3. \A s \in Tokens \ {t} : g[s] = f[s]
    BY <1>1 DEF f, g
  <2> QED BY <2>1, <2>2, <2>3, TokensFinite, SumChange
<1> QED BY <1>3 DEF WorkDone, f, g

\* A page is settled: the account moves to its end, for as much work.
LEMMA SettleIs ==
    ASSUME NEW c \in Calls, NEW t \in Tokens, NEW page \in Settlements
    PROVE  /\ Settle(c, t, page) \in Calls
           /\ Settle(c, t, page).processed = [c.processed EXCEPT ![t] = page.to]
           /\ Settle(c, t, page).pages = [c.pages EXCEPT ![t] = Append(c.pages[t], page)]
           /\ Settle(c, t, page).skipped = c.skipped
           /\ Settle(c, t, page).budget = c.budget
           /\ Settle(c, t, page).reverted = c.reverted
<1>1. page.to \in Nat
  BY DEF Settlements
<1>2. c.pages \in [Tokens -> Seq(Settlements)] /\ c.processed \in [Tokens -> Nat]
  BY DEF Calls
<1>3. Append(c.pages[t], page) \in Seq(Settlements)
  BY <1>2
<1> DEFINE p == [c.processed EXCEPT ![t] = page.to]
           g == [c.pages EXCEPT ![t] = Append(c.pages[t], page)]
<1>4. Settle(c, t, page) = [c EXCEPT !.processed = p, !.pages = g]
  BY DEF Settle, Calls
<1>5. p \in [Tokens -> Nat] /\ g \in [Tokens -> Seq(Settlements)]
  BY <1>1, <1>2, <1>3
<1> HIDE DEF p, g
<1>6. LET d == [c EXCEPT !.processed = p, !.pages = g]
      IN  /\ d \in Calls /\ d.processed = p /\ d.pages = g /\ d.skipped = c.skipped
          /\ d.budget = c.budget /\ d.reverted = c.reverted
  BY <1>5 DEF Calls
<1>7. /\ Settle(c, t, page) \in Calls
      /\ Settle(c, t, page).processed = p
      /\ Settle(c, t, page).pages = g
      /\ Settle(c, t, page).skipped = c.skipped
      /\ Settle(c, t, page).budget = c.budget
      /\ Settle(c, t, page).reverted = c.reverted
  BY <1>4, <1>6
<1> QED BY <1>7 DEF p, g

LEMMA SettleAdvances ==
    ASSUME TypeOK, NEW user \in Users, NEW c, InOrder(user, c), NEW t \in Tokens,
           NEW page \in Settlements, page.from = c.processed[t], page.from < page.to,
           Len(page.shares) = page.to - page.from, IsPast(t, page.to)
    PROVE  /\ InOrder(user, Settle(c, t, page))
           /\ WorkDone(user, Settle(c, t, page)) = WorkDone(user, c) + (page.to - page.from)
<1> DEFINE d == Settle(c, t, page)
<1>0. c \in Calls
  BY DEF InOrder
<1>1. /\ d \in Calls
      /\ d.processed = [c.processed EXCEPT ![t] = page.to]
      /\ d.pages = [c.pages EXCEPT ![t] = Append(c.pages[t], page)]
      /\ d.skipped = c.skipped
  BY <1>0, SettleIs
<1>2. /\ c.processed \in [Tokens -> Nat] /\ c.pages \in [Tokens -> Seq(Settlements)]
      /\ page.from \in Nat /\ page.to \in Nat
  BY <1>0 DEF Calls, Settlements
<1> HIDE DEF d
<1>3. \A s \in Tokens : Orderly(user, s, c.processed[s], c.pages[s], c.skipped[s])
  BY DEF InOrder
<1>4. Orderly(user, t, page.to, Append(c.pages[t], page), c.skipped[t])
  <2>1. Account(c.processed[t], c.pages[t], c.skipped[t]) /\ skipped[user][t] \subseteq c.skipped[t]
    BY <1>3 DEF Orderly
  <2>2. Account(page.to, Append(c.pages[t], page), c.skipped[t])
    BY <2>1, AccountSettled
  <2> QED BY <2>1, <2>2 DEF Orderly
<1>5. ASSUME NEW s \in Tokens
      PROVE  Orderly(user, s, d.processed[s], d.pages[s], d.skipped[s])
  <2>1. CASE s = t
    BY <1>1, <1>2, <1>4, <2>1
  <2>2. CASE s # t
    BY <1>1, <1>2, <1>3, <2>2
  <2> QED BY <2>1, <2>2
<1>6. InOrder(user, d)
  BY <1>1, <1>5 DEF InOrder
<1>7. WorkDone(user, d) = WorkDone(user, c) - Work(user, c)[t] + Work(user, d)[t]
  <2>1. \A s \in Tokens \ {t} : d.processed[s] = c.processed[s] /\ d.skipped[s] = c.skipped[s]
    BY <1>1, <1>2
  <2> QED BY <1>6, <2>1, WorkChanges
<1>8. Work(user, d)[t] = Work(user, c)[t] + (page.to - page.from)
  <2>1. d.processed[t] = page.to /\ d.skipped[t] = c.skipped[t]
    BY <1>1, <1>2
  <2>2. Cardinality(c.skipped[t] \ skipped[user][t]) \in Nat /\ processedCheckpoints[user][t] \in Nat
    BY <1>3, GoneIsInt DEF Orderly, TypeOK
  <2>3. /\ Work(user, d)[t] = page.to - processedCheckpoints[user][t]
                                      - Cardinality(c.skipped[t] \ skipped[user][t])
        /\ Work(user, c)[t] = page.from - processedCheckpoints[user][t]
                                      - Cardinality(c.skipped[t] \ skipped[user][t])
    BY <2>1 DEF Work, Gone
  <2> QED BY <1>2, <2>2, <2>3
<1>9. WorkDone(user, c) \in Int /\ Work(user, c)[t] \in Int
  BY WorkIsInt
<1>10. WorkDone(user, d) = WorkDone(user, c) + (page.to - page.from)
  BY <1>2, <1>7, <1>8, <1>9
<1> QED BY <1>6, <1>10 DEF d

\* The checkpoints before a first one with a stake are given up: no work.
Skipping(c, t, from) ==
    [c EXCEPT !.processed[t] = SkipTo(c, t, from),
              !.skipped[t] = @ \cup ((c.processed[t] + 1)..(from - 1))]

LEMMA SkipToIs ==
    ASSUME NEW c \in Calls, NEW t \in Tokens, NEW from \in Nat \ {0}
    PROVE  /\ SkipTo(c, t, from) \in Nat
           /\ c.processed[t] \in Nat
           /\ SkipTo(c, t, from) = IF from - 1 > c.processed[t] THEN from - 1 ELSE c.processed[t]
           /\ Max({from, c.processed[t]}) = IF from > c.processed[t] THEN from ELSE c.processed[t]
<1>1. c.processed[t] \in Nat
  BY DEF Calls
<1>2. ASSUME NEW a \in Nat, NEW b \in Nat
      PROVE  Max({a, b}) = IF a > b THEN a ELSE b
  <2>1. {a, b} \in SUBSET (0..(a + b))
    OBVIOUS
  <2>2. Max({a, b}) \in {a, b} /\ \A n \in {a, b} : n <= Max({a, b})
    <3>1. a + b \in Nat
      OBVIOUS
    <3> QED BY <2>1, <3>1, MaxOf
  <2> QED BY <2>2
<1>3. from - 1 \in Nat /\ from \in Nat
  OBVIOUS
<1>4. Max({from - 1, c.processed[t]}) = IF from - 1 > c.processed[t] THEN from - 1 ELSE c.processed[t]
  BY <1>1, <1>2, <1>3
<1>5. Max({from, c.processed[t]}) = IF from > c.processed[t] THEN from ELSE c.processed[t]
  BY <1>1, <1>2, <1>3
<1> QED BY <1>1, <1>3, <1>4, <1>5 DEF SkipTo

GivenUp(c, t, m) == c.skipped[t] \cup ((c.processed[t] + 1)..m)

LEMMA SkippingIs ==
    ASSUME NEW c \in Calls, NEW t \in Tokens, NEW from \in Nat \ {0}
    PROVE  /\ Skipping(c, t, from) \in Calls
           /\ Skipping(c, t, from).processed = [c.processed EXCEPT ![t] = SkipTo(c, t, from)]
           /\ Skipping(c, t, from).pages = c.pages
           /\ Skipping(c, t, from).skipped =
                  [c.skipped EXCEPT ![t] = GivenUp(c, t, SkipTo(c, t, from))]
           /\ Skipping(c, t, from).budget = c.budget
           /\ Skipping(c, t, from).reverted = c.reverted
<1>1. /\ SkipTo(c, t, from) \in Nat
      /\ c.processed[t] \in Nat
      /\ SkipTo(c, t, from) = IF from - 1 > c.processed[t] THEN from - 1 ELSE c.processed[t]
  BY SkipToIs
<1>2. (c.processed[t] + 1)..(from - 1) = (c.processed[t] + 1)..SkipTo(c, t, from)
  BY <1>1
<1>3. c.skipped \in [Tokens -> SUBSET Nat] /\ c.processed \in [Tokens -> Nat]
  BY DEF Calls
<1>4. GivenUp(c, t, SkipTo(c, t, from)) \in SUBSET Nat
  BY <1>1, <1>3 DEF GivenUp
<1> DEFINE p == [c.processed EXCEPT ![t] = SkipTo(c, t, from)]
           k == [c.skipped EXCEPT ![t] = GivenUp(c, t, SkipTo(c, t, from))]
<1>5. Skipping(c, t, from) = [c EXCEPT !.processed = p, !.skipped = k]
  <2>1. Skipping(c, t, from) =
            [c EXCEPT !.processed = p,
                      !.skipped = [c.skipped EXCEPT ![t] = c.skipped[t] \cup
                                       ((c.processed[t] + 1)..(from - 1))]]
    BY DEF Skipping, Calls
  <2> QED BY <1>2, <2>1 DEF GivenUp
<1>6. p \in [Tokens -> Nat] /\ k \in [Tokens -> SUBSET Nat]
  BY <1>1, <1>3, <1>4
<1> HIDE DEF p, k
<1>7. LET d == [c EXCEPT !.processed = p, !.skipped = k]
      IN  /\ d \in Calls /\ d.processed = p /\ d.pages = c.pages /\ d.skipped = k
          /\ d.budget = c.budget /\ d.reverted = c.reverted
  BY <1>6 DEF Calls
<1>8. /\ Skipping(c, t, from) \in Calls
      /\ Skipping(c, t, from).processed = p
      /\ Skipping(c, t, from).pages = c.pages
      /\ Skipping(c, t, from).skipped = k
      /\ Skipping(c, t, from).budget = c.budget
      /\ Skipping(c, t, from).reverted = c.reverted
  BY <1>5, <1>7
<1> QED BY <1>8 DEF p, k

LEMMA MoreGivenUp ==
    ASSUME NEW given, IsFiniteSet(given), NEW n \in Nat, NEW m \in Nat, n <= m,
           \A i \in given : i \in 1..n
    PROVE  Cardinality(given \cup ((n + 1)..m)) = Cardinality(given) + (m - n)
<1> DEFINE I == (n + 1)..m
<1>1. IsFiniteSet(I) /\ Cardinality(I) = m - n
  <2>1. n + 1 \in Int /\ m \in Int
    OBVIOUS
  <2>2. IsFiniteSet(I) /\ Cardinality(I) = IF n + 1 > m THEN 0 ELSE m - (n + 1) + 1
    BY <2>1, FS_Interval
  <2> HIDE DEF I
  <2> QED BY <2>2
<1>2. given \cap I = {}
  OBVIOUS
<1>3. Cardinality(given) \in Nat
  BY FS_CardinalityType
<1> HIDE DEF I
<1>4. Cardinality(given \cup I) = Cardinality(given) + Cardinality(I) - Cardinality(given \cap I)
  BY <1>1, FS_Union
<1>5. Cardinality(given \cap I) = 0
  BY <1>2, FS_EmptySet
<1>6. Cardinality(given \cup I) = Cardinality(given) + (m - n)
  BY <1>1, <1>3, <1>4, <1>5
<1> QED BY <1>6 DEF I

LEMMA SkippingAdvances ==
    ASSUME TypeOK, CheckpointsInOrder, NEW user \in Users, NEW c, InOrder(user, c),
           NEW t \in Tokens, NEW from \in 2..Len(tokenCheckpoints[t])
    PROVE  /\ InOrder(user, Skipping(c, t, from))
           /\ WorkDone(user, Skipping(c, t, from)) = WorkDone(user, c)
<1> DEFINE d == Skipping(c, t, from)
           m == SkipTo(c, t, from)
           n == c.processed[t]
           more == GivenUp(c, t, m)
<1>0. c \in Calls /\ from \in Nat \ {0} /\ Len(tokenCheckpoints[t]) \in Nat
  BY CheckpointTypes DEF InOrder
<1>1. /\ d \in Calls /\ d.pages = c.pages
      /\ d.processed = [c.processed EXCEPT ![t] = m]
      /\ d.skipped = [c.skipped EXCEPT ![t] = more]
  BY <1>0, SkippingIs
<1> HIDE DEF n
<1>2. /\ c.processed \in [Tokens -> Nat] /\ c.skipped \in [Tokens -> SUBSET Nat]
      /\ n \in Nat /\ m \in Nat
      /\ m = IF from - 1 > n THEN from - 1 ELSE n
  BY <1>0, SkipToIs DEF Calls, n
<1>3. \A s \in Tokens : Orderly(user, s, c.processed[s], c.pages[s], c.skipped[s])
  BY DEF InOrder
<1>4. /\ Account(n, c.pages[t], c.skipped[t])
      /\ n = processedCheckpoints[user][t] \/ IsPast(t, n)
      /\ skipped[user][t] \subseteq c.skipped[t]
  BY <1>3 DEF Orderly, n
<1>4a. more = c.skipped[t] \cup ((n + 1)..m)
  BY DEF GivenUp, n
<1> HIDE DEF d, m, more
<1>5. Account(m, c.pages[t], more)
  <2>1. n <= m
    BY <1>0, <1>2
  <2>2. Account(m, c.pages[t], c.skipped[t] \cup ((n + 1)..m))
    BY <1>2, <1>4, <2>1, AccountSkipped
  <2> QED BY <1>4a, <2>2
<1>6. m = n \/ IsPast(t, m)
  <2>1. CASE m = from - 1
    <3>1. from - 1 \in 1..Len(tokenCheckpoints[t]) /\ from \in 1..Len(tokenCheckpoints[t])
      BY <1>0
    <3>2. \A i \in 1..Len(tokenCheckpoints[t]) : tokenCheckpoints[t][i].block \in Nat
      BY CheckpointTypes
    <3>3. tokenCheckpoints[t][from - 1].block < tokenCheckpoints[t][from].block
      <4>1. \A i, j \in DOMAIN tokenCheckpoints[t] :
                i < j => tokenCheckpoints[t][i].block < tokenCheckpoints[t][j].block
        BY DEF CheckpointsInOrder
      <4>2. DOMAIN tokenCheckpoints[t] = 1..Len(tokenCheckpoints[t])
        BY CheckpointTypes
      <4>3. from - 1 < from
        BY <1>0
      <4> QED BY <3>1, <4>1, <4>2, <4>3
    <3>4. tokenCheckpoints[t][from].block <= block /\ block \in Nat
      BY <3>1, CheckpointTypes DEF CheckpointsInOrder, TypeOK
    <3>5. tokenCheckpoints[t][from - 1].block < block
      BY <3>1, <3>2, <3>3, <3>4, SMTT(30)
    <3> QED BY <2>1, <3>1, <3>5 DEF IsPast
  <2> QED BY <1>2, <2>1
<1>7. Orderly(user, t, m, c.pages[t], more)
  BY <1>4, <1>5, <1>4a, <1>6 DEF Orderly
<1>8. ASSUME NEW s \in Tokens
      PROVE  Orderly(user, s, d.processed[s], d.pages[s], d.skipped[s])
  <2>1. CASE s = t
    BY <1>1, <1>2, <1>7, <2>1
  <2>2. CASE s # t
    BY <1>1, <1>2, <1>3, <2>2
  <2> QED BY <2>1, <2>2
<1>9. InOrder(user, d)
  BY <1>1, <1>8 DEF InOrder
<1>10. WorkDone(user, d) = WorkDone(user, c) - Work(user, c)[t] + Work(user, d)[t]
  <2>1. \A s \in Tokens \ {t} : d.processed[s] = c.processed[s] /\ d.skipped[s] = c.skipped[s]
    BY <1>1, <1>2
  <2> QED BY <1>9, <2>1, WorkChanges
<1>11. Work(user, d)[t] = Work(user, c)[t]
  <2> DEFINE old == c.skipped[t] \ skipped[user][t]
  <2>0. c.skipped[t] \subseteq 1..n
    BY <1>4 DEF Account
  <2>1. more \ skipped[user][t] = old \cup ((n + 1)..m)
    BY <1>2, <1>4, <1>4a, <2>0
  <2>2. IsFiniteSet(old) /\ Cardinality(old) \in Nat
    BY <1>4, GoneIsInt
  <2>3. Cardinality(old \cup ((n + 1)..m)) = Cardinality(old) + (m - n)
    <3>1. \A i \in old : i \in 1..n
      BY <2>0
    <3>2. n <= m
      BY <1>0, <1>2
    <3> HIDE DEF old
    <3> QED BY <1>2, <2>2, <3>1, <3>2, MoreGivenUp
  <2>4. /\ Work(user, d)[t] = m - processedCheckpoints[user][t] - Cardinality(old \cup ((n + 1)..m))
        /\ Work(user, c)[t] = n - processedCheckpoints[user][t] - Cardinality(old)
    <3>1. d.processed[t] = m /\ d.skipped[t] = more
      BY <1>1, <1>2
    <3> QED BY <2>1, <3>1 DEF Work, Gone, n
  <2>5. processedCheckpoints[user][t] \in Nat /\ n \in Nat /\ m \in Nat
    BY <1>2 DEF TypeOK
  <2> HIDE DEF old
  <2> QED BY <2>2, <2>3, <2>4, <2>5
<1>12. WorkDone(user, c) \in Int /\ Work(user, c)[t] \in Int
  BY WorkIsInt
<1>13. WorkDone(user, d) = WorkDone(user, c)
  BY <1>10, <1>11, <1>12
<1> QED BY <1>9, <1>13 DEF d

\* What a withdrawal from c may come to: an orderly call with the same budget,
\* and no more work than from the checkpoint it begins at to the page's end.
Advanced(user, c, t, a) ==
    /\ InOrder(user, a)
    /\ a.budget = c.budget
    /\ a.reverted \/ EndOfRange(t, c.processed[t], c.budget) < c.processed[t]
         \/ WorkDone(user, a) <= WorkDone(user, c)
                + (EndOfRange(t, c.processed[t], c.budget) - c.processed[t])

\* Reverting changes nothing else.
LEMMA RevertKeepsOrder ==
    ASSUME NEW user, NEW c, InOrder(user, c)
    PROVE  /\ InOrder(user, [c EXCEPT !.reverted = TRUE])
           /\ [c EXCEPT !.reverted = TRUE].budget = c.budget
           /\ [c EXCEPT !.reverted = TRUE].reverted
<1> DEFINE d == [c EXCEPT !.reverted = TRUE]
<1>1. c \in Calls
  BY DEF InOrder
<1>2. /\ d \in Calls /\ d.processed = c.processed /\ d.pages = c.pages
      /\ d.skipped = c.skipped /\ d.budget = c.budget /\ d.reverted
  BY <1>1 DEF Calls
<1> HIDE DEF d
<1>3. InOrder(user, d)
  BY <1>2 DEF InOrder
<1> QED BY <1>2, <1>3 DEF d

LEMMA SettlingAdvances ==
    ASSUME TypeOK, CheckpointsInOrder, NEW user \in Users, NEW c, InOrder(user, c),
           NEW t \in Tokens, c.budget # 0,
           EndOfRange(t, c.processed[t], c.budget) > c.processed[t]
    PROVE  Advanced(user, c, t, Settle(c, t, Page(user, t, c.processed[t], c.budget)))
<1> DEFINE start == c.processed[t]
           end == EndOfRange(t, start, c.budget)
           page == Page(user, t, start, c.budget)
<1>0. c \in Calls /\ start \in Nat /\ c.budget \in Nat \ {0}
  BY DEF InOrder, Calls
<1>1. /\ end \in 0..Len(tokenCheckpoints[t])
      /\ end > 0 => tokenCheckpoints[t][end].block < block
      /\ Len(tokenCheckpoints[t]) \in Nat
  BY <1>0, EndIsPast, CheckpointTypes
<1>2. /\ page \in Settlements /\ page.from = start /\ page.to = end
      /\ Len(page.shares) = page.to - page.from
  BY <1>0, PageIs
<1>3. IsPast(t, page.to) /\ page.from < page.to
  BY <1>0, <1>1, <1>2 DEF IsPast
<1> HIDE DEF page, end
<1>4. /\ InOrder(user, Settle(c, t, page))
      /\ WorkDone(user, Settle(c, t, page)) = WorkDone(user, c) + (page.to - page.from)
  BY <1>2, <1>3, SettleAdvances
<1>5. Settle(c, t, page).budget = c.budget
  BY <1>0, <1>2, SettleIs
<1>6. WorkDone(user, Settle(c, t, page)) \in Int
  BY <1>4, WorkIsInt
<1> QED BY <1>2, <1>4, <1>5, <1>6 DEF Advanced, page, end

LEMMA StayingAdvances ==
    ASSUME TypeOK, CheckpointsInOrder, NEW user \in Users, NEW c, InOrder(user, c),
           NEW t \in Tokens, c.budget # 0
    PROVE  Advanced(user, c, t, c)
<1>1. WorkDone(user, c) \in Int
  BY WorkIsInt
<1>2. c.processed[t] \in Nat /\ c.budget \in Nat \ {0}
  BY DEF InOrder, Calls
<1>3. EndOfRange(t, c.processed[t], c.budget) \in Int
  BY <1>2, EndIsInt
<1> QED BY <1>1, <1>2, <1>3 DEF Advanced

LEMMA WithdrawnAdvances ==
    ASSUME TypeOK, CheckpointsInOrder, NEW user \in Users, NEW c, InOrder(user, c),
           NEW t \in Tokens, c.budget # 0
    PROVE  Advanced(user, c, t, Withdrawn(user, c, t))
<1> DEFINE start == c.processed[t]
           end == EndOfRange(t, start, c.budget)
           page == Page(user, t, start, c.budget)
<1>0. start \in Nat /\ c.budget \in Nat \ {0}
  BY DEF InOrder, Calls
<1>1. page.from = start /\ page.to = end /\ end \in Int
  <2>1. end \in Int
    BY <1>0, EndIsInt
  <2> QED BY <1>0, <2>1, PageIs
<1> DEFINE Refused == \/ Amount(page) = 0 /\ page.to <= page.from
                      \/ Amount(page) > 0 /\ t = Rbtc
<1>2. Withdrawn(user, c, t) = IF Refused THEN [c EXCEPT !.reverted = TRUE]
                              ELSE Settle(c, t, page)
  BY DEF Withdrawn
<1>3. CASE Refused
  <2>1. Withdrawn(user, c, t) = [c EXCEPT !.reverted = TRUE]
    BY <1>2, <1>3
  <2> QED BY <2>1, RevertKeepsOrder DEF Advanced
<1>4. CASE ~Refused
  <2>1. Withdrawn(user, c, t) = Settle(c, t, page)
    <3> HIDE DEF Refused, page
    <3> QED BY <1>2, <1>4
  <2>2. end > start
    <3>1. CASE Amount(page) # 0
      BY <1>0, <3>1, PaysOnlyAhead
    <3>2. CASE Amount(page) = 0
      <4>1. ~(page.to <= page.from)
        BY <1>4, <3>2
      <4> HIDE DEF page, end
      <4> QED BY <1>0, <1>1, <4>1
    <3> QED BY <3>1, <3>2
  <2> QED BY <2>1, <2>2, SettlingAdvances
<1> QED BY <1>3, <1>4

LEMMA RbtcWithdrawnAdvances ==
    ASSUME TypeOK, CheckpointsInOrder, NEW user \in Users, NEW c, InOrder(user, c),
           NEW t \in Tokens, c.budget # 0
    PROVE  Advanced(user, c, t, RbtcWithdrawn(user, c, t))
<1> DEFINE page == Page(user, t, c.processed[t], c.budget)
<1>0. c.processed[t] \in Nat /\ c.budget \in Nat \ {0}
  BY DEF InOrder, Calls
<1>1. CASE Amount(page) > 0
  <2>1. RbtcWithdrawn(user, c, t) = Settle(c, t, page)
    BY <1>1 DEF RbtcWithdrawn
  <2>2. Amount(page) # 0
    BY <1>1
  <2>3. EndOfRange(t, c.processed[t], c.budget) > c.processed[t]
    BY <1>0, <2>2, PaysOnlyAhead
  <2> QED BY <2>1, <2>3, SettlingAdvances
<1>2. CASE ~(Amount(page) > 0)
  <2>1. RbtcWithdrawn(user, c, t) = c
    BY <1>2 DEF RbtcWithdrawn
  <2> QED BY <2>1, StayingAdvances
<1> QED BY <1>1, <1>2

\* What is used is taken from the budget.
LEMMA SpendIsSound ==
    ASSUME TypeOK, NEW user \in Users, NEW max \in Nat, NEW a, InOrder(user, a),
           NEW used \in Int,
           a.reverted \/ used < 0 \/ WorkDone(user, a) + (a.budget - used) <= max
    PROVE  Spend(a, used) \in Sound(user, max)
<1>0. a \in Calls /\ a.budget \in Nat
  BY DEF InOrder, Calls
<1>1. CASE used < 0 \/ used > a.budget
  <2>1. Spend(a, used) = [a EXCEPT !.reverted = TRUE]
    BY <1>1 DEF Spend
  <2>2. Spend(a, used).reverted /\ InOrder(user, Spend(a, used))
    BY <2>1, RevertKeepsOrder
  <2> QED BY <2>2 DEF Sound, InOrder, WithinBudget
<1>2. CASE ~(used < 0 \/ used > a.budget)
  <2> DEFINE d == [a EXCEPT !.budget = a.budget - used]
  <2>1. Spend(a, used) = d
    BY <1>2 DEF Spend, LessBudget
  <2>2. a.budget - used \in Nat
    BY <1>0, <1>2
  <2>3. /\ d \in Calls /\ d.processed = a.processed /\ d.pages = a.pages
        /\ d.skipped = a.skipped /\ d.budget = a.budget - used /\ d.reverted = a.reverted
    BY <1>0, <2>2 DEF Calls
  <2> HIDE DEF d
  <2>4. InOrder(user, d)
    BY <2>3 DEF InOrder
  <2>5. WorkDone(user, d) = WorkDone(user, a)
    BY <2>3 DEF WorkDone, Work
  <2>6. WithinBudget(user, d, max)
    BY <1>2, <2>3, <2>5 DEF WithinBudget
  <2> QED BY <2>1, <2>3, <2>4, <2>6 DEF Sound
<1> QED BY <1>1, <1>2

LEMMA RevertIsSound ==
    ASSUME NEW user, NEW max, NEW c, InOrder(user, c)
    PROVE  [c EXCEPT !.reverted = TRUE] \in Sound(user, max)
BY RevertKeepsOrder DEF Sound, InOrder, WithinBudget

LEMMA BegunIsSound ==
    ASSUME TypeOK, Accounts, NEW user \in Users, NEW max \in Nat
    PROVE  Begun(user, max) \in Sound(user, max)
<1> DEFINE c == Begun(user, max)
<1>1. /\ c \in Calls
      /\ c.processed = processedCheckpoints[user] /\ c.pages = settled[user]
      /\ c.skipped = skipped[user] /\ c.budget = max
  BY DEF TypeOK, Begun, Calls
<1> HIDE DEF c
<1>2. InOrder(user, c)
  BY <1>1 DEF InOrder, Orderly, Accounts
<1>3. \A t \in Tokens : Work(user, c)[t] = 0
  <2> SUFFICES ASSUME NEW t \in Tokens PROVE Work(user, c)[t] = 0
    OBVIOUS
  <2>1. c.skipped[t] \ skipped[user][t] = {}
    BY <1>1
  <2>2. Cardinality(c.skipped[t] \ skipped[user][t]) = 0
    BY <2>1, FS_EmptySet
  <2>3. processedCheckpoints[user][t] \in Nat
    BY DEF TypeOK
  <2> QED BY <1>1, <2>2, <2>3 DEF Work, Gone
<1>4. WorkDone(user, c) = 0
  BY <1>3, TokensFinite, SumZero DEF WorkDone
<1> QED BY <1>1, <1>2, <1>4 DEF Sound, WithinBudget, c

\* A regular withdrawal, whatever it does.
LEMMA RegularIsSound ==
    ASSUME TypeOK, CheckpointsInOrder, NEW user \in Users, NEW max \in Nat,
           NEW c \in Sound(user, max), NEW t \in Tokens, NEW after,
           c.budget # 0 => Advanced(user, c, t, after)
    PROVE  Regular(user, c, t, after) \in Sound(user, max)
<1>0. InOrder(user, c) /\ WithinBudget(user, c, max)
  BY DEF Sound
<1>1. CASE c.budget = 0 \/ c.reverted
  BY <1>1 DEF Regular
<1>2. CASE ~(c.budget = 0 \/ c.reverted)
  <2> DEFINE used == EndOfRange(t, c.processed[t], c.budget) - c.processed[t]
  <2>1. Regular(user, c, t, after) = Spend(after, used)
    BY <1>2 DEF Regular, UsedBy
  <2>2. c.processed[t] \in Nat /\ c.budget \in Nat \ {0}
    BY <1>0, <1>2 DEF InOrder, Calls
  <2>3. EndOfRange(t, c.processed[t], c.budget) \in Int
    BY <2>2, EndIsInt
  <2>4. InOrder(user, after) /\ after.budget = c.budget
    BY <1>2 DEF Advanced
  <2>5. WorkDone(user, c) + c.budget <= max
    BY <1>0, <1>2 DEF WithinBudget
  <2>6. WorkDone(user, c) \in Int /\ WorkDone(user, after) \in Int
    BY <1>0, <2>4, WorkIsInt
  <2>7. after.reverted \/ used < 0 \/ WorkDone(user, after) <= WorkDone(user, c) + used
    BY <1>2, <2>2, <2>3 DEF Advanced
  <2>8. used \in Int
    BY <2>2, <2>3
  <2> HIDE DEF used
  <2>9. after.reverted \/ used < 0 \/ WorkDone(user, after) + (after.budget - used) <= max
    BY <2>2, <2>4, <2>5, <2>6, <2>7, <2>8
  <2> QED BY <2>1, <2>4, <2>8, <2>9, SpendIsSound
<1> QED BY <1>1, <1>2

LEMMA ClaimRbtcIsSound ==
    ASSUME TypeOK, CheckpointsInOrder, NEW user \in Users, NEW max \in Nat,
           NEW c \in Sound(user, max), NEW t \in Tokens
    PROVE  ClaimRbtc(user, c, t) \in Sound(user, max)
<1>0. InOrder(user, c)
  BY DEF Sound
<1>1. CASE t \notin RbtcTokens
  BY <1>0, <1>1, RevertIsSound DEF ClaimRbtc
<1>2. CASE t \in RbtcTokens
  <2>1. c.budget # 0 => Advanced(user, c, t, RbtcWithdrawn(user, c, t))
    BY <1>0, RbtcWithdrawnAdvances
  <2>2. Regular(user, c, t, RbtcWithdrawn(user, c, t)) \in Sound(user, max)
    BY <2>1, RegularIsSound
  <2> QED BY <1>2, <2>2 DEF ClaimRbtc
<1> QED BY <1>1, <1>2

LEMMA ClaimOtherIsSound ==
    ASSUME TypeOK, CheckpointsInOrder, NEW user \in Users, NEW max \in Nat,
           NEW c \in Sound(user, max), NEW t \in Tokens
    PROVE  ClaimOther(user, c, t) \in Sound(user, max)
<1>1. c.budget # 0 => Advanced(user, c, t, Withdrawn(user, c, t))
  BY WithdrawnAdvances DEF Sound
<1> QED BY <1>1, RegularIsSound DEF ClaimOther

LEMMA ClaimSkippedIsSound ==
    ASSUME TypeOK, CheckpointsInOrder, NEW user \in Users, NEW max \in Nat,
           NEW c \in Sound(user, max), NEW item,
           item.token \in Tokens, item.from \in 2..Len(tokenCheckpoints[item.token])
    PROVE  ClaimSkipped(user, c, item) \in Sound(user, max)
<1> DEFINE t == item.token
           from == item.from
           start == Max({from, c.processed[t]})
           d == Skipping(c, t, from)
           after == IF t \in RbtcTokens THEN RbtcWithdrawn(user, d, t) ELSE Withdrawn(user, d, t)
           end == EndOfRange(t, d.processed[t], d.budget)
           used == end - start
<1>0. /\ InOrder(user, c) /\ WithinBudget(user, c, max)
      /\ c \in Calls /\ c.budget \in Nat /\ c.processed \in [Tokens -> Nat]
      /\ c.processed[t] \in Nat
      /\ t \in Tokens /\ from \in Nat \ {0}
  BY CheckpointTypes DEF Sound, InOrder, Calls
<1>1. ClaimSkipped(user, c, item) =
          IF c.budget = 0 \/ c.reverted THEN c
          ELSE IF used < 0 THEN [c EXCEPT !.reverted = TRUE]
          ELSE Spend(after, used + 1)
  BY DEF ClaimSkipped, Skipping, UsedBy
<1>2. CASE c.budget = 0 \/ c.reverted
  BY <1>1, <1>2
<1>3. CASE ~(c.budget = 0 \/ c.reverted) /\ used < 0
  <2>1. ClaimSkipped(user, c, item) = [c EXCEPT !.reverted = TRUE]
    <3> HIDE DEF used, after
    <3> QED BY <1>1, <1>3
  <2> QED BY <1>0, <2>1, RevertIsSound
<1>4. CASE ~(c.budget = 0 \/ c.reverted) /\ ~(used < 0)
  <2>1. ClaimSkipped(user, c, item) = Spend(after, used + 1)
    <3> HIDE DEF used, after
    <3> QED BY <1>1, <1>4
  <2>2. /\ d.processed = [c.processed EXCEPT ![t] = SkipTo(c, t, from)]
        /\ d.budget = c.budget
    BY <1>0, SkippingIs, ZenonT(40)
  <2>3. /\ SkipTo(c, t, from) \in Nat
        /\ SkipTo(c, t, from) = IF from - 1 > c.processed[t] THEN from - 1 ELSE c.processed[t]
        /\ start = IF from > c.processed[t] THEN from ELSE c.processed[t]
    BY <1>0, SkipToIs
  <2>4. InOrder(user, d) /\ WorkDone(user, d) = WorkDone(user, c)
    BY <1>0, SkippingAdvances
  <2>5. d.budget # 0 /\ d.processed[t] = SkipTo(c, t, from)
    BY <1>0, <1>4, <2>2
  <2> HIDE DEF d, start
  <2>6. Advanced(user, d, t, after)
    <3>1. Advanced(user, d, t, RbtcWithdrawn(user, d, t))
      BY <1>0, <2>4, <2>5, RbtcWithdrawnAdvances
    <3>2. Advanced(user, d, t, Withdrawn(user, d, t))
      BY <1>0, <2>4, <2>5, WithdrawnAdvances
    <3> QED BY <3>1, <3>2
  <2>7. end \in Int
    BY <1>0, <2>2, <2>3, <2>5, EndIsInt
  <2> HIDE DEF end, after
  <2>8. /\ InOrder(user, after) /\ after.budget = c.budget
        /\ \/ after.reverted \/ end < d.processed[t]
           \/ WorkDone(user, after) <= WorkDone(user, c) + (end - d.processed[t])
    BY <2>2, <2>4, <2>6 DEF Advanced, end
  <2>9. WorkDone(user, c) + c.budget <= max
    BY <1>0, <1>4 DEF WithinBudget
  <2>10. WorkDone(user, c) \in Int /\ WorkDone(user, after) \in Int
    BY <1>0, <2>8, WorkIsInt
  <2>11. start \in Nat /\ d.processed[t] \in Nat /\ d.processed[t] <= start
         /\ start <= d.processed[t] + 1
    BY <1>0, <2>3, <2>5
  <2>12. used \in Int /\ used >= 0
    BY <1>4, <2>7, <2>11
  <2>13. after.reverted \/ used + 1 < 0 \/ WorkDone(user, after) + (after.budget - (used + 1)) <= max
    <3> DEFINE w == WorkDone(user, after)
               v == WorkDone(user, c)
               p == d.processed[t]
               b == c.budget
    <3>1. /\ w \in Int /\ v \in Int /\ p \in Nat /\ b \in Nat /\ start \in Nat /\ end \in Int
          /\ start <= p + 1 /\ p <= start /\ end - start >= 0 /\ v + b <= max
      BY <1>0, <2>7, <2>9, <2>10, <2>11, <2>12
    <3>2. after.reverted \/ end < p \/ w <= v + (end - p)
      BY <2>8
    <3>3. after.budget = b
      BY <2>8
    <3> HIDE DEF w, v, p, b, used
    <3>4. ~after.reverted => w + (b - ((end - start) + 1)) <= max
      BY <3>1, <3>2
    <3> QED BY <3>3, <3>4 DEF w, used
  <2>14. used + 1 \in Int
    BY <2>12
  <2> HIDE DEF used
  <2> QED BY <2>1, <2>8, <2>13, <2>14, SpendIsSound
<1> QED BY <1>2, <1>3, <1>4

\* What is asked of claimAllCollectedFees is done soundly from first to last.
LEMMA CallIsSound ==
    ASSUME TypeOK, CheckpointsInOrder, Accounts, NEW user \in Users, NEW max \in Nat,
           NEW request \in Requests, NEW r, NEW o, NEW s,
           r = RbtcClaimed(user, Begun(user, max), request.rbtc),
           o = OthersClaimed(user, r, request.other),
           s = SkippedClaimed(user, o, request.skipped),
           \A i \in DOMAIN request.skipped : ValidFrom(user, o, request.skipped[i])
    PROVE  s \in Sound(user, max)
<1> DEFINE G == Sound(user, max)
           Items == [token : Tokens, from : Nat]
<1>1. /\ request.rbtc \in Seq(Tokens) /\ request.other \in Seq(Tokens)
      /\ request.skipped \in Seq(Items)
  BY FeeAssumption
<1>2. Begun(user, max) \in G
  BY BegunIsSound
<1>3. \A c \in G, t \in Tokens : ClaimRbtc(user, c, t) \in G /\ ClaimOther(user, c, t) \in G
  BY ClaimRbtcIsSound, ClaimOtherIsSound
<1>4. \A c \in G, i \in DOMAIN request.skipped : ClaimSkipped(user, c, request.skipped[i]) \in G
  <2> SUFFICES ASSUME NEW c \in G, NEW i \in DOMAIN request.skipped
               PROVE  ClaimSkipped(user, c, request.skipped[i]) \in G
    OBVIOUS
  <2> DEFINE item == request.skipped[i]
  <2>1. item \in Items
    <3> HIDE DEF Items
    <3> QED BY <1>1
  <2>2. item.token \in Tokens /\ item.from \in Nat
    BY <2>1
  <2>3. ValidFrom(user, o, item)
    OBVIOUS
  <2> HIDE DEF item
  <2>4. item.from \in 2..Len(tokenCheckpoints[item.token])
    <3>1. Len(tokenCheckpoints[item.token]) \in Nat
      BY <2>2, CheckpointTypes
    <3> QED BY <2>2, <2>3, <3>1 DEF ValidFrom
  <2>5. ClaimSkipped(user, c, item) \in Sound(user, max)
    BY <2>2, <2>4, ClaimSkippedIsSound
  <2> QED BY <2>5 DEF item
<1> HIDE DEF G, Items
<1>5. r \in G
  <2>1. \A i \in DOMAIN request.rbtc : request.rbtc[i] \in Tokens
    BY <1>1
  <2>2. \A c \in G, i \in DOMAIN request.rbtc : ClaimRbtc(user, c, request.rbtc[i]) \in G
    BY <1>3, <2>1
  <2> QED BY <1>1, <1>2, <2>2, RbtcClaimedStays
<1>6. o \in G
  <2>1. \A i \in DOMAIN request.other : request.other[i] \in Tokens
    BY <1>1
  <2>2. \A c \in G, i \in DOMAIN request.other : ClaimOther(user, c, request.other[i]) \in G
    BY <1>3, <2>1
  <2> QED BY <1>1, <1>5, <2>2, OthersClaimedStays
<1>7. s \in G
  BY <1>1, <1>4, <1>6, SkippedClaimedStays
<1> QED BY <1>7 DEF G

-----------------------------------------------------------------------------
(* The steps of the collector. *)

\* A call that does not revert leaves its user's accounts in order.
LEMMA DoneKeepsInv ==
    ASSUME FeeInv, NEW user \in Users, NEW c, InOrder(user, c), Done(user, c)
    PROVE  FeeInv'
<1>0. /\ TypeOK /\ FeesAccounted /\ CheckpointsInOrder /\ Accounts
      /\ UNCHANGED <<feeVars, chainVars>>
      /\ c \in Calls
  BY AccountsMean DEF FeeInv, TypeOK, AccountTypes, Done, InOrder
<1>1. /\ processedCheckpoints' = [processedCheckpoints EXCEPT ![user] = c.processed]
      /\ settled' = [settled EXCEPT ![user] = c.pages]
      /\ skipped' = [skipped EXCEPT ![user] = c.skipped]
      /\ c.processed \in [Tokens -> Nat]
      /\ c.pages \in [Tokens -> Seq(Settlements)]
      /\ c.skipped \in [Tokens -> SUBSET Nat]
  BY <1>0 DEF Done, Calls
<1>2. AccountTypes
  BY <1>0 DEF TypeOK, AccountTypes
<1>3. AccountTypes'
  BY <1>1, <1>2 DEF AccountTypes
<1>4. /\ \A u \in Users, t \in Tokens :
            /\ processedCheckpoints'[u][t] = IF u = user THEN c.processed[t]
                                             ELSE processedCheckpoints[u][t]
            /\ settled'[u][t] = IF u = user THEN c.pages[t] ELSE settled[u][t]
            /\ skipped'[u][t] = IF u = user THEN c.skipped[t] ELSE skipped[u][t]
  BY <1>1, <1>2 DEF AccountTypes
<1>5. \A t \in Tokens : Orderly(user, t, c.processed[t], c.pages[t], c.skipped[t])
  BY DEF InOrder
<1>6. ASSUME NEW u \in Users, NEW t \in Tokens
      PROVE  /\ Account(processedCheckpoints'[u][t], settled'[u][t], skipped'[u][t])
             /\ processedCheckpoints'[u][t] <= Len(tokenCheckpoints[t])
  <2>1. CASE u = user
    <3>1. Account(c.processed[t], c.pages[t], c.skipped[t])
      BY <1>5 DEF Orderly
    <3>2. c.processed[t] <= Len(tokenCheckpoints[t])
      <4>1. c.processed[t] = processedCheckpoints[user][t] \/ IsPast(t, c.processed[t])
        BY <1>5 DEF Orderly
      <4>2. processedCheckpoints[user][t] <= Len(tokenCheckpoints[t])
        BY <1>0 DEF TypeOK
      <4>3. Len(tokenCheckpoints[t]) \in Nat
        BY <1>0, CheckpointTypes
      <4> QED BY <4>1, <4>2, <4>3 DEF IsPast
    <3> QED BY <1>4, <2>1, <3>1, <3>2
  <2>2. CASE u # user
    <3>1. Account(processedCheckpoints[u][t], settled[u][t], skipped[u][t])
      BY <1>0 DEF Accounts
    <3>2. processedCheckpoints[u][t] <= Len(tokenCheckpoints[t])
      BY <1>0 DEF TypeOK
    <3> QED BY <1>4, <2>2, <3>1, <3>2
  <2> QED BY <2>1, <2>2
<1>7. Accounts'
  <2>1. \A u \in Users, t \in Tokens :
            Account(processedCheckpoints'[u][t], settled'[u][t], skipped'[u][t])
    BY <1>6
  <2> QED BY <2>1 DEF Accounts
<1>8. TypeOK'
  <2>1. \A u \in Users, t \in Tokens :
            processedCheckpoints'[u][t] <= Len(tokenCheckpoints'[t])
    BY <1>0, <1>6 DEF feeVars
  <2> QED BY <1>0, <1>3, <2>1 DEF TypeOK, AccountTypes, feeVars, chainVars
<1>9. FeesAccounted' /\ CheckpointsInOrder'
  BY <1>0 DEF FeesAccounted, CheckpointsInOrder, feeVars, chainVars
<1>10. SettledExactlyOnce' /\ SettledIsPast'
  <2>1. AccountTypes' => (Accounts' <=> SettledExactlyOnce' /\ SettledIsPast')
    BY AccountsMean, PTL
  <2> QED BY <1>3, <1>7, <2>1
<1> QED BY <1>8, <1>9, <1>10 DEF FeeInv

LEMMA WithdrawKeepsInv ==
    ASSUME FeeInv, NEW user \in Claimers, NEW t \in Tokens, NEW max \in MaxCheckpointArgs,
           Withdraw(user, t, max)
    PROVE  FeeInv'
<1>0. user \in Users /\ max \in Nat \ {0} /\ TypeOK /\ CheckpointsInOrder /\ Accounts
  BY FeeAssumption, AccountsMean DEF FeeInv, TypeOK, AccountTypes, Withdraw
<1>1. InOrder(user, Begun(user, max))
  BY <1>0, BegunIsSound DEF Sound
<1>2. Begun(user, max).budget # 0
  BY <1>0 DEF Begun
<1>3. InOrder(user, Withdrawn(user, Begun(user, max), t))
  BY <1>0, <1>1, <1>2, WithdrawnAdvances DEF Advanced
<1> QED BY <1>0, <1>3, DoneKeepsInv DEF Withdraw

LEMMA ClaimAllKeepsInv ==
    ASSUME FeeInv, NEW user \in Claimers, NEW request \in Requests,
           NEW max \in MaxCheckpointArgs, ClaimAllCollectedFees(user, request, max)
    PROVE  FeeInv'
<1>0. user \in Users /\ max \in Nat /\ TypeOK /\ CheckpointsInOrder /\ Accounts
  BY FeeAssumption, AccountsMean DEF FeeInv, TypeOK, AccountTypes
<1>1. PICK r, o, s :
          /\ r = RbtcClaimed(user, Begun(user, max), request.rbtc)
          /\ o = OthersClaimed(user, r, request.other)
          /\ s = SkippedClaimed(user, o, request.skipped)
          /\ \A i \in DOMAIN request.skipped : ValidFrom(user, o, request.skipped[i])
          /\ Done(user, s)
  BY DEF ClaimAllCollectedFees
<1>2. InOrder(user, s)
  BY <1>0, <1>1, CallIsSound DEF Sound
<1> QED BY <1>0, <1>1, <1>2, DoneKeepsInv

LEMMA NextBlockKeepsInv ==
    ASSUME FeeInv, NextBlock
    PROVE  FeeInv'
<1>0. /\ TypeOK /\ CheckpointsInOrder
      /\ block' = block + 1 /\ stakes' \in Snapshots
      /\ UNCHANGED <<feeVars, claimVars>>
  BY DEF FeeInv, NextBlock
<1>1. PICK e \in Elapsed : now' = now + e
  BY DEF NextBlock
<1>2. now' \in Nat /\ now <= now' /\ now \in Nat /\ block \in Nat \ {0} /\ block' \in Nat \ {0}
  BY <1>0, <1>1, FeeAssumption DEF TypeOK
<1>3. TypeOK'
  <2>1. lastFeeWithdrawalTime' \in [Tokens -> 0..now']
    <3>1. lastFeeWithdrawalTime \in [Tokens -> 0..now]
      BY <1>0 DEF TypeOK
    <3>2. \A n \in 0..now : n \in 0..now'
      BY <1>2
    <3> QED BY <1>0, <3>1, <3>2 DEF feeVars
  <2> QED BY <1>0, <1>2, <2>1 DEF TypeOK, feeVars, claimVars
<1>4. FeesAccounted' /\ SettledExactlyOnce' /\ SettledIsPast'
  BY <1>0 DEF FeeInv, FeesAccounted, SettledExactlyOnce, SettledOnce, NothingForgotten,
              SettledIsPast, feeVars, claimVars
<1>5. CheckpointsInOrder'
  <2> SUFFICES ASSUME NEW t \in Tokens
               PROVE  LET cps == tokenCheckpoints[t] IN
                        /\ \A i, j \in DOMAIN cps : i < j => cps[i].block < cps[j].block
                        /\ \A i \in DOMAIN cps : i <= cps[i].block /\ cps[i].block <= block'
                        /\ cps # <<>> /\ Last(cps).block = block' =>
                               lastFeeWithdrawalTime[t] = now'
    BY <1>0 DEF CheckpointsInOrder, feeVars
  <2> DEFINE cps == tokenCheckpoints[t]
  <2>1. /\ cps \in Seq(TokenCheckpoints) /\ Len(cps) \in Nat /\ DOMAIN cps = 1..Len(cps)
        /\ \A i \in 1..Len(cps) : cps[i].block \in Nat
    BY <1>0, CheckpointTypes
  <2>2. /\ \A i, j \in DOMAIN cps : i < j => cps[i].block < cps[j].block
        /\ \A i \in DOMAIN cps : i <= cps[i].block /\ cps[i].block <= block
    BY <1>0 DEF CheckpointsInOrder
  <2> HIDE DEF cps
  <2>3. \A i \in DOMAIN cps : i <= cps[i].block /\ cps[i].block < block'
    BY <1>0, <1>2, <2>1, <2>2
  <2>4. cps # <<>> => Last(cps).block < block'
    BY <2>1, <2>3 DEF Last
  <2>5. \A i \in DOMAIN cps : i <= cps[i].block /\ cps[i].block <= block'
    BY <1>2, <2>1, <2>3
  <2>6. ~(cps # <<>> /\ Last(cps).block = block')
    BY <1>2, <2>4
  <2> QED BY <2>2, <2>5, <2>6 DEF cps
<1> QED BY <1>3, <1>4, <1>5 DEF FeeInv

\* A sum over a sequence with one more member.
LEMMA SumAppended ==
    ASSUME NEW f, NEW g, NEW n \in Nat, \A i \in 1..n : f[i] \in Int /\ g[i] = f[i],
           g[n + 1] \in Int
    PROVE  SumFunctionOnSet(g, 1..(n + 1)) = SumFunctionOnSet(f, 1..n) + g[n + 1]
<1> DEFINE I == 1..n
           J == 1..(n + 1)
           x == n + 1
<1>1. IsFiniteSet(I) /\ IsFiniteSet(J)
  BY FS_Interval
<1>2. I \in SUBSET J /\ x \in J \ I /\ J = I \cup {x}
  OBVIOUS
<1>3. \A i \in J : g[i] \in Int
  OBVIOUS
<1>4. \A i \in I : f[i] \in Int /\ f[i] = g[i]
  OBVIOUS
<1> HIDE DEF I, J, x
<1>5. /\ SumFunctionOnSet(g, I) \in Int
      /\ SumFunctionOnSet(g, I \cup {x}) = g[x] + SumFunctionOnSet(g, I)
  BY <1>1, <1>2, <1>3, SumAddElement
<1>6. SumFunctionOnSet(f, I) = SumFunctionOnSet(g, I)
  BY <1>1, <1>4, SumSame
<1>7. g[x] \in Int
  BY <1>2, <1>3
<1>8. SumFunctionOnSet(g, J) = SumFunctionOnSet(f, I) + g[x]
  BY <1>2, <1>5, <1>6, <1>7
<1> QED BY <1>8 DEF I, J, x

Fees(cps) == SumFunction([i \in DOMAIN cps |-> cps[i].numTokens])

LEMMA FeesAreInt ==
    ASSUME NEW cps \in Seq(TokenCheckpoints)
    PROVE  Fees(cps) \in Int
<1> DEFINE f == [i \in DOMAIN cps |-> cps[i].numTokens]
           I == DOMAIN cps
<1>1. IsFiniteSet(I)
  <2>1. Len(cps) \in Nat /\ I = 1..Len(cps)
    OBVIOUS
  <2> QED BY <2>1, FS_Interval
<1>2. \A i \in I : f[i] \in Int
  <2>1. \A i \in I : cps[i] \in TokenCheckpoints
    OBVIOUS
  <2> QED BY <2>1 DEF TokenCheckpoints
<1>3. Fees(cps) = SumFunctionOnSet(f, I)
  BY DEF Fees, SumFunction
<1> HIDE DEF f, I
<1> QED BY <1>1, <1>2, <1>3, SumType

LEMMA FeesAppended ==
    ASSUME NEW cps \in Seq(TokenCheckpoints), NEW cp \in TokenCheckpoints
    PROVE  Fees(Append(cps, cp)) = Fees(cps) + cp.numTokens
<1> DEFINE n == Len(cps)
           f == [i \in DOMAIN cps |-> cps[i].numTokens]
           g == [i \in DOMAIN Append(cps, cp) |-> Append(cps, cp)[i].numTokens]
<1>1. /\ n \in Nat /\ DOMAIN cps = 1..n /\ DOMAIN Append(cps, cp) = 1..(n + 1)
      /\ \A i \in 1..n : cps[i] \in TokenCheckpoints /\ Append(cps, cp)[i] = cps[i]
      /\ Append(cps, cp)[n + 1] = cp
  OBVIOUS
<1>2. \A k \in TokenCheckpoints : k.numTokens \in Int
  BY DEF TokenCheckpoints
<1> HIDE DEF n
<1>3. /\ DOMAIN f = 1..n /\ DOMAIN g = 1..(n + 1)
      /\ \A i \in 1..n : f[i] = cps[i].numTokens /\ g[i] = Append(cps, cp)[i].numTokens
      /\ g[n + 1] = Append(cps, cp)[n + 1].numTokens
  BY <1>1
<1>4. Fees(cps) = SumFunctionOnSet(f, 1..n) /\ Fees(Append(cps, cp)) = SumFunctionOnSet(g, 1..(n + 1))
  BY <1>3 DEF Fees, SumFunction
<1> HIDE DEF f, g
<1>5. \A i \in 1..n : f[i] \in Int /\ g[i] = f[i]
  BY <1>1, <1>2, <1>3
<1>6. g[n + 1] = cp.numTokens /\ g[n + 1] \in Int
  BY <1>1, <1>2, <1>3
<1>7. SumFunctionOnSet(g, 1..(n + 1)) = SumFunctionOnSet(f, 1..n) + g[n + 1]
  BY <1>1, <1>5, <1>6, SumAppended
<1> QED BY <1>4, <1>6, <1>7

\* A checkpoint that is due is not the second one of its block: the last one
\* was written at another time.
LEMMA DueIsNew ==
    ASSUME TypeOK, CheckpointsInOrder, NEW t \in Tokens, IsDue(t)
    PROVE  ~(tokenCheckpoints[t] # <<>> /\ Last(tokenCheckpoints[t]).block = block)
<1> SUFFICES ASSUME tokenCheckpoints[t] # <<>>, Last(tokenCheckpoints[t]).block = block
             PROVE  FALSE
  OBVIOUS
<1>1. lastFeeWithdrawalTime[t] = now
  BY DEF CheckpointsInOrder
<1>2. now \in Nat
  BY DEF TypeOK
<1>3. now - now >= FEE_WITHDRAWAL_INTERVAL
  BY <1>1 DEF IsDue
<1> QED BY <1>2, <1>3, FeeAssumption

LEMMA AddCheckpointKeepsInv ==
    ASSUME FeeInv, NEW token \in Tokens, NEW amount \in Amounts, AddCheckpoint(token, amount)
    PROVE  FeeInv'
<1>0. /\ TypeOK /\ CheckpointsInOrder /\ FeesAccounted
      /\ UNCHANGED <<claimVars, chainVars>>
      /\ amount \in Nat \ {0}
      /\ received' = [received EXCEPT ![token] = @ + amount]
  BY FeeAssumption DEF FeeInv, AddCheckpoint
<1>1. /\ received \in [Tokens -> Nat] /\ unprocessedAmount \in [Tokens -> Nat]
      /\ tokenCheckpoints \in [Tokens -> Seq(TokenCheckpoints)]
      /\ lastFeeWithdrawalTime \in [Tokens -> 0..now]
      /\ now \in Nat /\ block \in Nat \ {0} /\ stakes \in Snapshots
  BY <1>0 DEF TypeOK
<1>2. /\ received' \in [Tokens -> Nat]
      /\ received'[token] = received[token] + amount
      /\ \A t \in Tokens \ {token} : received'[t] = received[t]
  BY <1>0, <1>1
<1>3. \A t \in Tokens : received[t] = unprocessedAmount[t] + Fees(tokenCheckpoints[t])
  BY <1>0 DEF FeesAccounted, Fees
<1>4. CASE IsDue(token)
  <2> DEFINE cps == tokenCheckpoints[token]
             cp == [block |-> block, lockDate |-> LockDate(now),
                    totalWeightedStake |-> VoluntaryWeightedStake,
                    numTokens |-> unprocessedAmount[token] + amount, stakes |-> stakes]
             longer == Append(cps, cp)
  <2>1. /\ VoluntaryWeightedStake > 0
        /\ tokenCheckpoints' = [tokenCheckpoints EXCEPT ![token] =
               WriteTokenCheckpoint(cps, unprocessedAmount[token] + amount)]
        /\ unprocessedAmount' = [unprocessedAmount EXCEPT ![token] = 0]
        /\ lastFeeWithdrawalTime' = [lastFeeWithdrawalTime EXCEPT ![token] = now]
    BY <1>1, <1>4 DEF AddCheckpoint
  <2>2. cp \in TokenCheckpoints
    <3>1. VoluntaryWeightedStake \in Nat \ {0}
      <4>1. \A u \in Users : stakes[u] \in Nat
        BY <1>1, FeeAssumption DEF Stakers
      <4>2. SumFunctionOnSet(stakes, Users) \in Nat
        BY <4>1, FeeAssumption, SumOfNats
      <4> QED BY <2>1, <4>2 DEF VoluntaryWeightedStake
    <3>2. LockDate(now) \in Nat
      <4>1. TWO_WEEKS \in Nat \ {0} /\ now \in Nat
        BY <1>1, FeeAssumption
      <4>2. now \div TWO_WEEKS \in Nat
        BY <4>1
      <4>3. \A n \in Nat : n * TWO_WEEKS \in Nat
        BY <4>1
      <4> QED BY <4>2, <4>3 DEF LockDate
    <3>3. unprocessedAmount[token] + amount \in Nat \ {0}
      BY <1>0, <1>1
    <3> QED BY <1>1, <3>1, <3>2, <3>3 DEF TokenCheckpoints
  <2>3. WriteTokenCheckpoint(cps, unprocessedAmount[token] + amount) = longer
    BY <1>0, <1>4, DueIsNew DEF WriteTokenCheckpoint
  <2>4. cp.block = block /\ cp.numTokens = unprocessedAmount[token] + amount
    OBVIOUS
  <2>5. cps \in Seq(TokenCheckpoints)
    BY <1>1
  <2> HIDE DEF cp
  <2>6. /\ longer \in Seq(TokenCheckpoints) /\ Len(longer) = Len(cps) + 1
        /\ DOMAIN longer = 1..(Len(cps) + 1)
        /\ \A i \in 1..Len(cps) : longer[i] = cps[i]
        /\ longer[Len(cps) + 1] = cp
        /\ Len(cps) \in Nat
    BY <2>2, <2>5
  <2>7. Fees(longer) = Fees(cps) + cp.numTokens /\ Fees(cps) \in Int
    BY <2>2, <2>5, FeesAppended, FeesAreInt
  <2> HIDE DEF longer
  <2>8. /\ tokenCheckpoints' \in [Tokens -> Seq(TokenCheckpoints)]
        /\ tokenCheckpoints'[token] = longer
        /\ \A t \in Tokens \ {token} : tokenCheckpoints'[t] = tokenCheckpoints[t]
    BY <1>1, <2>1, <2>3, <2>6
  <2>9. /\ unprocessedAmount' \in [Tokens -> Nat]
        /\ unprocessedAmount'[token] = 0
        /\ \A t \in Tokens \ {token} : unprocessedAmount'[t] = unprocessedAmount[t]
    BY <1>1, <2>1
  <2>10. /\ lastFeeWithdrawalTime' \in [Tokens -> 0..now]
         /\ lastFeeWithdrawalTime'[token] = now
         /\ \A t \in Tokens \ {token} : lastFeeWithdrawalTime'[t] = lastFeeWithdrawalTime[t]
    BY <1>1, <2>1
  <2>11. TypeOK'
    <3>1. \A u \in Users, t \in Tokens :
              processedCheckpoints[u][t] <= Len(tokenCheckpoints'[t])
      <4> SUFFICES ASSUME NEW u \in Users, NEW t \in Tokens
                   PROVE  processedCheckpoints[u][t] <= Len(tokenCheckpoints'[t])
        OBVIOUS
      <4>1. processedCheckpoints[u][t] <= Len(tokenCheckpoints[t])
            /\ processedCheckpoints[u][t] \in Nat
        BY <1>0 DEF TypeOK
      <4> QED BY <2>6, <2>8, <4>1
    <3> QED BY <1>0, <1>2, <2>8, <2>9, <2>10, <3>1 DEF TypeOK, claimVars, chainVars
  <2>12. FeesAccounted'
    <3>1. \A t \in Tokens : received'[t] = unprocessedAmount'[t] + Fees(tokenCheckpoints'[t])
      <4>1. received'[token] = 0 + Fees(longer)
        <5>1. received[token] = unprocessedAmount[token] + Fees(cps)
          BY <1>3
        <5>2. unprocessedAmount[token] \in Nat /\ amount \in Nat
          BY <1>0, <1>1
        <5> HIDE DEF cps
        <5> QED BY <1>2, <2>4, <2>7, <5>1, <5>2
      <4>2. received'[token] = unprocessedAmount'[token] + Fees(tokenCheckpoints'[token])
        BY <2>8, <2>9, <4>1
      <4>3. \A t \in Tokens \ {token} :
                received'[t] = unprocessedAmount'[t] + Fees(tokenCheckpoints'[t])
        BY <1>2, <1>3, <2>8, <2>9
      <4> QED BY <4>2, <4>3
    <3> QED BY <3>1 DEF FeesAccounted, Fees
  <2>13. CheckpointsInOrder'
    <3> DEFINE Fine(t, c) ==
                 /\ \A i, j \in DOMAIN c : i < j => c[i].block < c[j].block
                 /\ \A i \in DOMAIN c : i <= c[i].block /\ c[i].block <= block
                 /\ c # <<>> /\ Last(c).block = block => lastFeeWithdrawalTime'[t] = now
    <3>1. \A t \in Tokens \ {token} : Fine(t, tokenCheckpoints[t])
      BY <1>0, <2>10 DEF CheckpointsInOrder
    <3>2. Fine(token, longer)
      <4>1. /\ \A i, j \in 1..Len(cps) : i < j => cps[i].block < cps[j].block
            /\ \A i \in 1..Len(cps) : i <= cps[i].block /\ cps[i].block <= block
            /\ \A i \in 1..Len(cps) : cps[i].block \in Nat
        BY <1>0, CheckpointTypes DEF CheckpointsInOrder
      <4>2. Len(cps) > 0 => cps[Len(cps)].block < block
        <5>1. ASSUME Len(cps) > 0 PROVE cps # <<>> /\ Last(cps) = cps[Len(cps)]
          BY <5>1 DEF Last
        <5>2. Len(cps) > 0 => cps[Len(cps)].block # block
          BY <1>0, <1>4, <5>1, DueIsNew
        <5>3. Len(cps) > 0 => Len(cps) \in 1..Len(cps)
          BY <2>6
        <5>4. Len(cps) > 0 => cps[Len(cps)].block <= block /\ cps[Len(cps)].block \in Nat
          <6> HIDE DEF cps
          <6> QED BY <4>1, <5>3
        <5> HIDE DEF cps
        <5> QED BY <1>1, <5>2, <5>4
      <4> HIDE DEF cps
      <4>3. \A i \in 1..Len(cps) : i <= cps[i].block /\ cps[i].block < block
        <5> SUFFICES ASSUME NEW i \in 1..Len(cps) PROVE i <= cps[i].block /\ cps[i].block < block
          OBVIOUS
        <5>1. Len(cps) \in 1..Len(cps)
          BY <2>6
        <5>2. i < Len(cps) => cps[i].block < cps[Len(cps)].block
          BY <4>1, <5>1
        <5>3. cps[Len(cps)].block < block /\ cps[Len(cps)].block \in Nat /\ cps[i].block \in Nat
          BY <2>6, <4>1, <4>2, <5>1
        <5>4. i = Len(cps) \/ i < Len(cps)
          BY <2>6
        <5> QED BY <1>1, <4>1, <5>2, <5>3, <5>4, SMTT(30)
      <4>4. ASSUME NEW i \in DOMAIN longer, NEW j \in DOMAIN longer, i < j
            PROVE  longer[i].block < longer[j].block
        <5>1. i \in 1..Len(cps)
          BY <2>6, <4>4
        <5>2. CASE j \in 1..Len(cps)
          BY <2>6, <4>1, <4>4, <5>1, <5>2
        <5>3. CASE j = Len(cps) + 1
          BY <2>4, <2>6, <4>3, <5>1, <5>3
        <5> QED BY <2>6, <5>2, <5>3
      <4>5. ASSUME NEW i \in DOMAIN longer
            PROVE  i <= longer[i].block /\ longer[i].block <= block
        <5>1. CASE i \in 1..Len(cps)
          BY <2>6, <4>1, <5>1
        <5>2. CASE i = Len(cps) + 1
          <6>1. Len(cps) + 1 <= block
            <7>1. CASE Len(cps) = 0
              BY <1>1, <7>1
            <7>2. CASE Len(cps) # 0
              <8>1. Len(cps) \in 1..Len(cps)
                BY <2>6, <7>2
              <8>2. Len(cps) <= cps[Len(cps)].block /\ cps[Len(cps)].block < block
                    /\ cps[Len(cps)].block \in Nat
                BY <4>1, <4>3, <8>1
              <8> QED BY <1>1, <2>6, <8>2
            <7> QED BY <7>1, <7>2
          <6> QED BY <1>1, <2>4, <2>6, <5>2, <6>1
        <5> QED BY <2>6, <5>1, <5>2
      <4>6. lastFeeWithdrawalTime'[token] = now
        BY <2>10
      <4> QED BY <4>4, <4>5, <4>6
    <3>3. \A t \in Tokens : Fine(t, tokenCheckpoints'[t])
      <4> HIDE DEF Fine
      <4> QED BY <2>8, <3>1, <3>2
    <3> QED BY <1>0, <3>3 DEF CheckpointsInOrder, chainVars
  <2>14. SettledExactlyOnce' /\ SettledIsPast'
    BY <1>0 DEF FeeInv, SettledExactlyOnce, SettledOnce, NothingForgotten, SettledIsPast, claimVars
  <2> QED BY <2>11, <2>12, <2>13, <2>14 DEF FeeInv
<1>5. CASE ~IsDue(token)
  <2>1. /\ unprocessedAmount' = [unprocessedAmount EXCEPT ![token] = @ + amount]
        /\ tokenCheckpoints' = tokenCheckpoints
        /\ lastFeeWithdrawalTime' = lastFeeWithdrawalTime
    BY <1>5 DEF AddCheckpoint
  <2>2. /\ unprocessedAmount' \in [Tokens -> Nat]
        /\ unprocessedAmount'[token] = unprocessedAmount[token] + amount
        /\ \A t \in Tokens \ {token} : unprocessedAmount'[t] = unprocessedAmount[t]
    BY <1>0, <1>1, <2>1
  <2>3. TypeOK'
    BY <1>0, <1>2, <2>1, <2>2 DEF TypeOK, claimVars, chainVars
  <2>4. FeesAccounted'
    <3>1. \A t \in Tokens : received'[t] = unprocessedAmount'[t] + Fees(tokenCheckpoints[t])
      <4>1. received'[token] = unprocessedAmount'[token] + Fees(tokenCheckpoints[token])
        <5>1. Fees(tokenCheckpoints[token]) \in Int
          BY <1>1, FeesAreInt
        <5>2. received[token] = unprocessedAmount[token] + Fees(tokenCheckpoints[token])
          BY <1>3
        <5>3. unprocessedAmount[token] \in Nat /\ amount \in Nat
          BY <1>0, <1>1
        <5> QED BY <1>2, <2>2, <5>1, <5>2, <5>3
      <4>2. \A t \in Tokens \ {token} :
                received'[t] = unprocessedAmount'[t] + Fees(tokenCheckpoints[t])
        BY <1>2, <1>3, <2>2
      <4> QED BY <4>1, <4>2
    <3> QED BY <2>1, <3>1 DEF FeesAccounted, Fees
  <2>5. CheckpointsInOrder' /\ SettledExactlyOnce' /\ SettledIsPast'
    BY <1>0, <2>1 DEF FeeInv, CheckpointsInOrder, SettledExactlyOnce, SettledOnce,
                      NothingForgotten, SettledIsPast, claimVars, chainVars
  <2> QED BY <2>3, <2>4, <2>5 DEF FeeInv
<1> QED BY <1>4, <1>5

-----------------------------------------------------------------------------
(* Theorems. *)

\* At the beginning nothing has come in and nobody has claimed.
LEMMA InitIsInv == Init => FeeInv
<1> SUFFICES ASSUME Init PROVE FeeInv
  OBVIOUS
<1>1. /\ \A t \in Tokens : tokenCheckpoints[t] = <<>> /\ unprocessedAmount[t] = 0
                           /\ received[t] = 0
      /\ \A u \in Users, t \in Tokens : /\ processedCheckpoints[u][t] = 0
                                        /\ settled[u][t] = <<>>
                                        /\ skipped[u][t] = {}
  BY DEF Init
<1>2. TypeOK
  <2>1. now \in Nat
    BY FeeAssumption DEF Init
  <2>2. \A u \in Users, t \in Tokens : processedCheckpoints[u][t] <= Len(tokenCheckpoints[t])
    BY <1>1
  <2>3. lastFeeWithdrawalTime \in [Tokens -> 0..now]
    BY <2>1 DEF Init
  <2> QED BY <2>1, <2>2, <2>3 DEF Init, TypeOK
<1>3. FeesAccounted
  <2> SUFFICES ASSUME NEW t \in Tokens
               PROVE  received[t] = unprocessedAmount[t] + Fees(tokenCheckpoints[t])
    BY DEF FeesAccounted, Fees
  <2>1. Fees(<<>>) = 0
    <3> DEFINE f == [i \in DOMAIN <<>> |-> <<>>[i].numTokens]
    <3>1. DOMAIN f = {}
      OBVIOUS
    <3>2. Fees(<<>>) = SumFunctionOnSet(f, DOMAIN f)
      BY DEF Fees, SumFunction
    <3> HIDE DEF f
    <3> QED BY <3>1, <3>2, SumEmpty
  <2> QED BY <1>1, <2>1
<1>4. CheckpointsInOrder
  BY <1>1 DEF CheckpointsInOrder
<1>5. SettledExactlyOnce /\ SettledIsPast
  BY <1>1 DEF SettledExactlyOnce, SettledOnce, NothingForgotten, SettledIsPast
<1> QED BY <1>2, <1>3, <1>4, <1>5 DEF FeeInv

LEMMA StepKeepsInv ==
    ASSUME FeeInv, [Next]_vars
    PROVE  FeeInv'
<1>1. CASE NextBlock
  BY <1>1, NextBlockKeepsInv
<1>2. CASE \E amount \in Amounts :
              \/ \E token \in Tokens : TransferTokens(token, amount)
              \/ TransferRBTC(amount)
              \/ WithdrawFees(amount)
  <2>1. Rbtc \in Tokens
    BY FeeAssumption DEF Tokens
  <2>2. \E amount \in Amounts, token \in Tokens : AddCheckpoint(token, amount)
    BY <1>2, <2>1 DEF TransferTokens, TransferRBTC, WithdrawFees
  <2> QED BY <2>2, AddCheckpointKeepsInv
<1>3. CASE \E user \in Claimers, max \in MaxCheckpointArgs, token \in Tokens :
              Withdraw(user, token, max)
  BY <1>3, WithdrawKeepsInv
<1>4. CASE \E user \in Claimers, max \in MaxCheckpointArgs, request \in Requests :
              ClaimAllCollectedFees(user, request, max)
  BY <1>4, ClaimAllKeepsInv
<1>5. CASE UNCHANGED vars
  BY <1>5 DEF FeeInv, TypeOK, FeesAccounted, SettledExactlyOnce, SettledOnce,
              NothingForgotten, CheckpointsInOrder, SettledIsPast,
              vars, feeVars, claimVars, chainVars
<1> QED BY <1>1, <1>2, <1>3, <1>4, <1>5 DEF Next

\* The invariant holds for any stakers and tokens, any stakes a block may end
\* with, any amounts, pages, requests and length of the chain: the types, what
\* comes in, the order of the checkpoints, and the account of every staker.
THEOREM FeeBooksAreInvariant == Spec => []FeeInv
<1>1. FeeInv /\ [Next]_vars => FeeInv'
  BY StepKeepsInv
<1> QED BY InitIsInv, <1>1, PTL DEF Spec

\* All that ever came in of a token is in exactly one of its checkpoints or
\* waits unprocessed.
THEOREM FeesStayAccounted == Spec => []FeesAccounted
<1>1. FeeInv => FeesAccounted
  BY DEF FeeInv
<1> QED BY <1>1, FeeBooksAreInvariant, PTL

\* Whoever mixes the ways of withdrawing, every checkpoint he is past was
\* settled for him once or given up by him.
THEOREM EachCheckpointOnce == Spec => []SettledExactlyOnce
<1>1. FeeInv => SettledExactlyOnce
  BY DEF FeeInv
<1> QED BY <1>1, FeeBooksAreInvariant, PTL

\* What getNextPositiveUserCheckpoint finds.
LEMMA AdviceIs ==
    ASSUME TypeOK, NEW u \in Users, NEW t \in Tokens,
           NEW startFrom \in Nat, NEW limit \in Nat \ {0},
           NextPositive(u, t, startFrom, limit).hasFees
    PROVE  LET advice == NextPositive(u, t, startFrom, limit)
               n == advice.checkpointNum
               processed == processedCheckpoints[u][t]
           IN  /\ n \in (processed + 1)..Len(tokenCheckpoints[t])
               /\ Positive(u, t, n)
               /\ \A i \in (startFrom + 1)..(n - 1) : i > processed => ~Positive(u, t, i)
               /\ advice.hasSkipped => n > processed + 1
<1> DEFINE p == processedCheckpoints[u][t]
           total == Len(tokenCheckpoints[t])
           begin == Max({startFrom, p})
           end == Min({begin + limit, total})
           found == {i \in begin..(end - 1) : Positive(u, t, i + 1)}
           advice == NextPositive(u, t, startFrom, limit)
<1>1. p \in Nat /\ total \in Nat
  BY CheckpointTypes DEF TypeOK
<1>2. begin = IF startFrom > p THEN startFrom ELSE p
  <2> HIDE DEF p
  <2>1. {startFrom, p} \in SUBSET (0..(startFrom + p)) /\ startFrom + p \in Nat
    BY <1>1
  <2>2. begin \in {startFrom, p} /\ \A n \in {startFrom, p} : n <= begin
    BY <2>1, MaxOf
  <2> QED BY <1>1, <2>2
<1> HIDE DEF begin
<1>3. begin \in Nat /\ begin >= p
  BY <1>1, <1>2
<1>4. end \in Nat /\ end <= total
  <2> HIDE DEF total
  <2>1. {begin + limit, total} \in SUBSET Nat
    BY <1>1, <1>3
  <2>2. end \in {begin + limit, total} /\ \A n \in {begin + limit, total} : end <= n
    BY <2>1, MinOf
  <2> QED BY <1>1, <1>3, <2>2
<1> HIDE DEF end
<1>5. advice = IF p >= total THEN Advice(total, FALSE, FALSE)
               ELSE IF found = {} THEN Advice(end, end > p, FALSE)
               ELSE Advice(CheckpointNum(Min(found)), Min(found) > p, TRUE)
  BY DEF NextPositive, begin, end
<1>6. found # {} /\ advice = Advice(Min(found) + 1, Min(found) > p, TRUE)
  <2> HIDE DEF found, p, total
  <2>1. advice.hasFees
    OBVIOUS
  <2> HIDE DEF advice
  <2> QED BY <1>5, <2>1 DEF Advice, CheckpointNum
<1>7. found \in SUBSET Nat
  BY <1>3, <1>4
<1>8. Min(found) \in found /\ \A i \in found : Min(found) <= i
  <2> HIDE DEF found
  <2> QED BY <1>6, <1>7, MinOf
<1>9. PICK m \in found : m = Min(found)
  BY <1>8
<1>10. /\ m \in Nat /\ m >= begin /\ m < end /\ Positive(u, t, m + 1)
       /\ \A i \in found : m <= i
  BY <1>3, <1>4, <1>8, <1>9
<1>11. ASSUME NEW i \in (startFrom + 1)..m, i > p PROVE ~Positive(u, t, i)
  <2>1. i \in Nat /\ i - 1 \in begin..(end - 1) /\ i - 1 < m
    BY <1>1, <1>2, <1>4, <1>10, <1>11
  <2>2. CASE Positive(u, t, i)
    <3>1. i = (i - 1) + 1
      BY <2>1
    <3>2. i - 1 \in found
      BY <2>1, <2>2, <3>1
    <3> HIDE DEF found
    <3> QED BY <1>10, <2>1, <3>2
  <2> QED BY <2>2
<1>12. advice.checkpointNum = m + 1 /\ advice.hasSkipped = (m > p)
  <2> HIDE DEF found, advice, p
  <2> QED BY <1>6, <1>9 DEF Advice
<1>13. m + 1 \in (p + 1)..total
  <2> HIDE DEF p, total
  <2> QED BY <1>1, <1>3, <1>4, <1>10
<1>14. \A i \in (startFrom + 1)..((m + 1) - 1) : i > p => ~Positive(u, t, i)
  BY <1>10, <1>11
<1>15. m > p => m + 1 > p + 1
  BY <1>1, <1>10
<1> HIDE DEF advice, p, total
<1>16. /\ advice.checkpointNum \in (p + 1)..total
       /\ Positive(u, t, advice.checkpointNum)
       /\ \A i \in (startFrom + 1)..(advice.checkpointNum - 1) : i > p => ~Positive(u, t, i)
       /\ advice.hasSkipped => advice.checkpointNum > p + 1
  BY <1>10, <1>12, <1>13, <1>14, <1>15
<1> QED BY <1>16 DEF advice, p, total

\* A page that begins with a checkpoint of a block that is over reaches it,
\* and goes no further than the budget.
LEMMA EndReaches ==
    ASSUME TypeOK, NEW t \in Tokens, NEW from \in 1..Len(tokenCheckpoints[t]),
           tokenCheckpoints[t][from].block < block, NEW max \in Nat \ {0}
    PROVE  EndOfRange(t, from - 1, max) \in from..((from - 1) + max)
<1> DEFINE cps == tokenCheckpoints[t]
           end == Min({(from - 1) + max, Len(cps)})
<1>1. Len(cps) \in Nat /\ cps # <<>> /\ from \in Nat /\ block \in Nat
      /\ cps[from].block \in Nat
  BY CheckpointTypes DEF TypeOK
<1>2. end \in Nat /\ end >= from /\ end <= (from - 1) + max
  <2>1. {(from - 1) + max, Len(cps)} \in SUBSET Nat
    BY <1>1
  <2> HIDE DEF cps
  <2>2. /\ end \in {(from - 1) + max, Len(cps)}
        /\ \A n \in {(from - 1) + max, Len(cps)} : end <= n
    BY <2>1, MinOf
  <2> QED BY <1>1, <2>2 DEF cps
<1>3. EndOfRange(t, from - 1, max) = IF cps[end].block = block THEN end - 1 ELSE end
  BY <1>1 DEF EndOfRange, PastBlock
<1> HIDE DEF end
<1>4. cps[end].block = block => end # from
  BY <1>1
<1> QED BY <1>1, <1>2, <1>3, <1>4

\* The claim of a checkpoint of a block that is over, ahead of what the user is
\* past, does not revert, and gives up what lies between.
LEMMA ClaimIsAccepted ==
    ASSUME TypeOK, CheckpointsInOrder, Accounts,
           NEW u \in Users, NEW t \in Tokens, NEW budget \in Nat \ {0},
           NEW from \in 2..Len(tokenCheckpoints[t]), from > processedCheckpoints[u][t],
           tokenCheckpoints[t][from].block < block
    PROVE  LET c == ClaimSkipped(u, Begun(u, budget), [token |-> t, from |-> from])
           IN  /\ ~c.reverted
               /\ c.skipped[t] \subseteq
                      skipped[u][t] \cup ((processedCheckpoints[u][t] + 1)..(from - 1))
<1> DEFINE b == Begun(u, budget)
           d == Skipping(b, t, from)
           after == IF t \in RbtcTokens THEN RbtcWithdrawn(u, d, t) ELSE Withdrawn(u, d, t)
           start == Max({from, b.processed[t]})
           used == EndOfRange(t, d.processed[t], d.budget) - start
           p == processedCheckpoints[u][t]
           page == Page(u, t, d.processed[t], d.budget)
           given == skipped[u][t] \cup ((p + 1)..(from - 1))
<1>0. from \in Nat \ {0} /\ from \in 1..Len(tokenCheckpoints[t]) /\ from - 1 \in Nat /\ p \in Nat
  BY CheckpointTypes DEF TypeOK
<1>1. /\ b \in Calls /\ b.processed = processedCheckpoints[u] /\ b.skipped = skipped[u]
      /\ b.budget = budget /\ ~b.reverted
  BY BegunIsSound DEF Begun, Sound, InOrder
<1> HIDE DEF b
<1>2. /\ d \in Calls /\ d.budget = budget /\ ~d.reverted
      /\ d.processed = [b.processed EXCEPT ![t] = SkipTo(b, t, from)]
      /\ d.skipped = [b.skipped EXCEPT ![t] = GivenUp(b, t, SkipTo(b, t, from))]
  BY <1>0, <1>1, SkippingIs
<1>3. SkipTo(b, t, from) = from - 1 /\ start = from
  <2>1. /\ SkipTo(b, t, from) = IF from - 1 > b.processed[t] THEN from - 1 ELSE b.processed[t]
        /\ start = IF from > b.processed[t] THEN from ELSE b.processed[t]
    BY <1>0, <1>1, SkipToIs
  <2> HIDE DEF start
  <2> QED BY <1>0, <1>1, <2>1
<1>4. d.processed[t] = from - 1 /\ d.skipped[t] = given
  BY <1>1, <1>2, <1>3 DEF TypeOK, GivenUp
<1>5. ClaimSkipped(u, b, [token |-> t, from |-> from]) =
          IF b.budget = 0 \/ b.reverted THEN b
          ELSE IF used < 0 THEN [b EXCEPT !.reverted = TRUE]
          ELSE Spend(after, used + 1)
  BY DEF ClaimSkipped, Skipping, UsedBy
<1> HIDE DEF d, start, given
<1>6. EndOfRange(t, from - 1, budget) \in from..((from - 1) + budget)
  BY <1>0, EndReaches
<1>7. used \in Nat /\ used + 1 <= budget
  BY <1>0, <1>2, <1>3, <1>4, <1>6
<1>8. /\ page.from = from - 1 /\ page.to = EndOfRange(t, from - 1, budget)
      /\ page \in Settlements
  <2>1. EndOfRange(t, from - 1, budget) > from - 1
    BY <1>0, <1>6
  <2> QED BY <1>0, <1>2, <1>4, <2>1, PageIs
<1> HIDE DEF page
<1>9. ASSUME NEW c, c = d \/ c = Settle(d, t, page)
      PROVE  ~c.reverted /\ c.budget = budget /\ c.skipped = d.skipped
  BY <1>2, <1>9 DEF Settle, Calls
<1>10. after = d \/ after = Settle(d, t, page)
  <2>1. CASE t \in RbtcTokens
    BY <2>1 DEF RbtcWithdrawn, page
  <2>2. CASE t \notin RbtcTokens
    <3>1. t # Rbtc /\ ~(page.to <= page.from)
      BY <1>0, <1>6, <1>8, <2>2, FeeAssumption
    <3> QED BY <2>2, <3>1 DEF Withdrawn, page
  <2> QED BY <2>1, <2>2
<1> HIDE DEF after
<1>11. ~after.reverted /\ after.budget = budget /\ after.skipped[t] = given
  BY <1>4, <1>9, <1>10
<1> HIDE DEF used
<1>12. ClaimSkipped(u, b, [token |-> t, from |-> from]) = Spend(after, used + 1)
  BY <1>1, <1>5, <1>7
<1>13. Spend(after, used + 1) = [after EXCEPT !.budget = LessBudget(after, used + 1)]
  BY <1>7, <1>11 DEF Spend
<1>14. LET c == [after EXCEPT !.budget = LessBudget(after, used + 1)]
       IN  ~c.reverted /\ c.skipped[t] = given
  <2>1. Settle(d, t, page) \in Calls
    BY <1>2, <1>8, SettleIs
  <2>2. after \in Calls
    BY <1>2, <1>10, <2>1
  <2> QED BY <1>11, <2>2 DEF Calls
<1> QED BY <1>12, <1>13, <1>14 DEF b, given

\* The advice of getNextPositiveUserCheckpoint, searched for in pages of any
\* length, is accepted: the claim from a checkpoint that it names, and that was
\* written before this block, does not revert, with whatever budget, and gives
\* up no checkpoint with a stake.
THEOREM AdviceStaysAccepted == Spec => []AdviceIsAccepted
<1>1. ASSUME FeeInv PROVE AdviceIsAccepted
  <2> SUFFICES ASSUME NEW u \in Users, NEW t \in Tokens,
                      NEW budget \in MaxCheckpointArgs \ {0},
                      NEW limit \in MaxCheckpointArgs \ {0},
                      NEW startFrom \in 0..Len(tokenCheckpoints[t]),
                      \A i \in (processedCheckpoints[u][t] + 1)..startFrom : ~Positive(u, t, i),
                      NextPositive(u, t, startFrom, limit).hasFees,
                      NextPositive(u, t, startFrom, limit).hasSkipped,
                      NEW n, n = NextPositive(u, t, startFrom, limit).checkpointNum,
                      tokenCheckpoints[t][n].block < block,
                      NEW item, item = [token |-> t, from |-> n],
                      NEW claimed, claimed = ClaimSkipped(u, Begun(u, budget), item)
               PROVE  /\ ValidFrom(u, Begun(u, budget), item)
                      /\ ~claimed.reverted
                      /\ \A i \in claimed.skipped[t] \ skipped[u][t] : ~Positive(u, t, i)
    BY DEF AdviceIsAccepted
  <2> DEFINE p == processedCheckpoints[u][t]
             len == Len(tokenCheckpoints[t])
  <2>0. TypeOK /\ CheckpointsInOrder /\ Accounts
    BY <1>1, AccountsMean DEF FeeInv, TypeOK, AccountTypes
  <2>1. p \in Nat /\ len \in Nat /\ startFrom \in Nat
        /\ budget \in Nat \ {0} /\ limit \in Nat \ {0}
    BY <2>0, CheckpointTypes, FeeAssumption DEF TypeOK
  <2>2. /\ n \in (p + 1)..len
        /\ Positive(u, t, n)
        /\ \A i \in (startFrom + 1)..(n - 1) : i > p => ~Positive(u, t, i)
        /\ n > p + 1
    BY <2>0, <2>1, AdviceIs
  <2>3. n \in 2..len /\ n > p
    BY <2>1, <2>2
  <2>4. \A i \in (p + 1)..(n - 1) : ~Positive(u, t, i)
    <3> SUFFICES ASSUME NEW i \in (p + 1)..(n - 1) PROVE ~Positive(u, t, i)
      OBVIOUS
    <3>1. i \in (p + 1)..startFrom \/ (i \in (startFrom + 1)..(n - 1) /\ i > p)
      BY <2>1, <2>3
    <3> QED BY <2>2, <3>1
  <2>5. ValidFrom(u, Begun(u, budget), item)
    <3>1. Begun(u, budget).processed[t] = p
      BY DEF Begun
    <3>2. ~Positive(u, t, n - 1)
      BY <2>1, <2>2, <2>4
    <3> QED BY <2>2, <2>3, <3>1, <3>2 DEF ValidFrom
  <2>6. ~claimed.reverted /\ claimed.skipped[t] \subseteq skipped[u][t] \cup ((p + 1)..(n - 1))
    BY <2>0, <2>1, <2>3, ClaimIsAccepted
  <2> QED BY <2>4, <2>5, <2>6
<1>2. FeeInv => AdviceIsAccepted
  BY <1>1
<1> QED BY <1>2, FeeBooksAreInvariant, PTL

LEMMA DoneIsPast ==
    ASSUME TypeOK, NEW user \in Users, NEW c, InOrder(user, c), Done(user, c)
    PROVE  MovesToPast
<1> SUFFICES ASSUME NEW u \in Users, NEW t \in Tokens,
                    processedCheckpoints'[u][t] # processedCheckpoints[u][t]
             PROVE  tokenCheckpoints[t][processedCheckpoints'[u][t]].block < block
  BY DEF MovesToPast
<1>1. /\ processedCheckpoints' = [processedCheckpoints EXCEPT ![user] = c.processed]
      /\ processedCheckpoints \in [Users -> [Tokens -> Nat]]
  BY DEF TypeOK, Done
<1>2. u = user /\ processedCheckpoints'[u] = c.processed
  BY <1>1
<1>3. c.processed[t] = processedCheckpoints[user][t] \/ IsPast(t, c.processed[t])
  BY DEF InOrder, Orderly
<1> QED BY <1>2, <1>3 DEF IsPast

\* Nobody is paid by a stake that can still change: a step that moves a
\* staker's account moves it to a checkpoint of a block that is over.
THEOREM PastBlocksOnly == Spec => OnlyPastBlocks
<1>1. ASSUME FeeInv, [Next]_vars PROVE MovesToPast
  <2>0. TypeOK /\ CheckpointsInOrder /\ Accounts
    BY <1>1, AccountsMean DEF FeeInv, TypeOK, AccountTypes
  <2>1. CASE UNCHANGED processedCheckpoints
    BY <2>1 DEF MovesToPast
  <2>2. ASSUME NEW user \in Claimers, NEW max \in MaxCheckpointArgs, NEW t \in Tokens,
               Withdraw(user, t, max)
        PROVE  MovesToPast
    <3>0. user \in Users /\ max \in Nat \ {0}
      BY <2>2, FeeAssumption DEF Withdraw
    <3>1. InOrder(user, Begun(user, max)) /\ Begun(user, max).budget # 0
      BY <2>0, <3>0, BegunIsSound DEF Sound, Begun
    <3>2. InOrder(user, Withdrawn(user, Begun(user, max), t))
      BY <2>0, <3>0, <3>1, WithdrawnAdvances DEF Advanced
    <3> QED BY <2>0, <2>2, <3>0, <3>2, DoneIsPast DEF Withdraw
  <2>3. ASSUME NEW user \in Claimers, NEW max \in MaxCheckpointArgs,
               NEW request \in Requests, ClaimAllCollectedFees(user, request, max)
        PROVE  MovesToPast
    <3>0. user \in Users /\ max \in Nat
      BY FeeAssumption
    <3>1. PICK r, o, s :
              /\ r = RbtcClaimed(user, Begun(user, max), request.rbtc)
              /\ o = OthersClaimed(user, r, request.other)
              /\ s = SkippedClaimed(user, o, request.skipped)
              /\ \A i \in DOMAIN request.skipped : ValidFrom(user, o, request.skipped[i])
              /\ Done(user, s)
      BY <2>3 DEF ClaimAllCollectedFees
    <3>2. InOrder(user, s)
      BY <2>0, <3>0, <3>1, CallIsSound DEF Sound
    <3> QED BY <2>0, <3>0, <3>1, <3>2, DoneIsPast
  <2>4. CASE NextBlock
    BY <2>1, <2>4 DEF NextBlock, claimVars
  <2>5. ASSUME NEW amount, NEW token, AddCheckpoint(token, amount)
        PROVE  UNCHANGED processedCheckpoints
    BY <2>5 DEF AddCheckpoint, claimVars
  <2>6. CASE \E amount \in Amounts :
                \/ \E token \in Tokens : TransferTokens(token, amount)
                \/ TransferRBTC(amount)
                \/ WithdrawFees(amount)
    BY <2>1, <2>5, <2>6 DEF TransferTokens, TransferRBTC, WithdrawFees
  <2>7. CASE UNCHANGED vars
    BY <2>1, <2>7 DEF vars, claimVars
  <2> QED BY <1>1, <2>2, <2>3, <2>4, <2>6, <2>7 DEF Next
<1>2. FeeInv /\ [Next]_vars => [MovesToPast]_vars
  BY <1>1
<1>3. Spec => [][MovesToPast]_vars
  BY <1>2, FeeBooksAreInvariant, PTL DEF Spec
<1> QED BY <1>3 DEF OnlyPastBlocks

\* A call goes through no more checkpoints than its caller allowed, over all
\* tokens and ways of withdrawing together.
THEOREM BudgetIsKept == Spec => BudgetKept
<1>1. ASSUME FeeInv PROVE WithinCall
  <2> SUFFICES ASSUME NEW u \in Claimers, NEW request \in Requests,
                      NEW max \in MaxCheckpointArgs,
                      ClaimAllCollectedFees(u, request, max)
               PROVE  SumFunction([t \in Tokens |-> NewlySettled(u, t)]) <= max
    BY DEF WithinCall
  <2>0. u \in Users /\ max \in Nat /\ TypeOK /\ CheckpointsInOrder /\ Accounts
    BY <1>1, AccountsMean, FeeAssumption DEF FeeInv, TypeOK, AccountTypes
  <2>1. PICK r, o, s :
            /\ r = RbtcClaimed(u, Begun(u, max), request.rbtc)
            /\ o = OthersClaimed(u, r, request.other)
            /\ s = SkippedClaimed(u, o, request.skipped)
            /\ \A i \in DOMAIN request.skipped : ValidFrom(u, o, request.skipped[i])
            /\ Done(u, s)
    BY DEF ClaimAllCollectedFees
  <2>2. InOrder(u, s) /\ WithinBudget(u, s, max)
    BY <2>0, <2>1, CallIsSound DEF Sound
  <2>3. WorkDone(u, s) <= max
    <3>1. WorkDone(u, s) + s.budget <= max
      BY <2>1, <2>2 DEF WithinBudget, Done
    <3>2. WorkDone(u, s) \in Int /\ s.budget \in Nat
      BY <2>0, <2>2, WorkIsInt DEF InOrder, Calls
    <3> QED BY <2>0, <3>1, <3>2
  <2>4. processedCheckpoints'[u] = s.processed /\ skipped'[u] = s.skipped
    BY <2>0, <2>1 DEF Done, TypeOK
  <2>5. [t \in Tokens |-> NewlySettled(u, t)] = Work(u, s)
    BY <2>4 DEF NewlySettled, Work, Gone
  <2>6. SumFunction(Work(u, s)) = WorkDone(u, s)
    BY DEF SumFunction, WorkDone, Work
  <2> QED BY <2>3, <2>5, <2>6
<1>2. FeeInv /\ [Next]_vars => [WithinCall]_vars
  BY <1>1
<1>3. Spec => [][WithinCall]_vars
  BY <1>2, FeeBooksAreInvariant, PTL DEF Spec
<1> QED BY <1>3 DEF BudgetKept
=============================================================================
