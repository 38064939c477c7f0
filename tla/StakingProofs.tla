---------------------------- MODULE StakingProofs ----------------------------
(***************************************************************************)
(* Every operation leaves each page of the book well formed, its histories *)
(* sorted, and what they say of the past as it was; freezing keeps         *)
(* everything in its place because it pauses; and every operation books    *)
(* what it moves in all five histories of a page, so that the books add    *)
(* up now, add up at every block that is over, and can be paid out.        *)
(*                                                                         *)
(* The second half is laid out as the contract is: arithmetic of dates and *)
(* weights, the figures of one page, what each helper and each operation   *)
(* does to them, the book as a whole, its past, and the votes read from it.*)
(***************************************************************************)
EXTENDS Staking, BookLemmas

\* A history may become another within a block: what it said of the blocks
\* before stays, and it is sorted as before.
Advances(h, g) ==
    /\ g \in Histories
    /\ HistoryOK(g)
    /\ PastKept(h, g)

PageAdvances(p, q) ==
    /\ q \in Pages
    /\ Advances(p.total, q.total)
    /\ Advances(p.vested, q.vested)
    /\ \A a \in Accounts : Advances(p.staked[a], q.staked[a])
    /\ \A x \in Delegatees : Advances(p.delegated[x], q.delegated[x])

PageOK(p) == PageAdvances(p, p)

\* A page and its parts have their types.
LEMMA PageShape ==
    ASSUME NEW p \in Pages
    PROVE  /\ p.total \in Histories /\ p.vested \in Histories
           /\ \A a \in Accounts : p.staked[a] \in Histories
           /\ \A x \in Delegatees : p.delegated[x] \in Histories
           /\ \A a \in Accounts : p.delegates[a] \in Delegatees
BY DEF Pages

\* Advancing twice in a block is advancing.
LEMMA AdvancesTransitive ==
    ASSUME block \in Nat \ {0}, NEW p, NEW q, NEW r,
           PageAdvances(p, q), PageAdvances(q, r)
    PROVE  PageAdvances(p, r)
<1>1. ASSUME NEW h, NEW g, NEW k, Advances(h, g), Advances(g, k)
      PROVE  Advances(h, k)
  BY <1>1 DEF Advances, PastKept
<1> QED BY <1>1 DEF PageAdvances

\* A write at this block advances a history.
LEMMA WriteAdvances ==
    ASSUME block \in Nat \ {0}, NEW h \in Histories, HistoryOK(h), NEW s \in Nat
    PROVE  Advances(h, Write(h, block, s))
<1>1. Write(h, block, s) \in Histories
  BY WriteType
<1>2. HistoryOK(Write(h, block, s))
  BY WriteSorted DEF HistoryOK
<1>3. PastKept(h, Write(h, block, s))
  <2>1. \A b \in 0..(block - 1) : b \in Nat /\ b < block
    OBVIOUS
  <2> QED BY <2>1, WriteKeepsPast DEF PastKept
<1> QED BY <1>1, <1>2, <1>3 DEF Advances

\* What stays as it is advances too.
LEMMA SameAdvances ==
    ASSUME NEW h \in Histories, HistoryOK(h)
    PROVE  Advances(h, h)
BY DEF Advances, PastKept

\* A page whose histories are each kept or written at this block advances.
LEMMA PageWithWrites ==
    ASSUME block \in Nat \ {0}, NEW p, PageOK(p), NEW q \in Pages,
           q.total = p.total \/ \E s \in Nat : q.total = Write(p.total, block, s),
           q.vested = p.vested \/ \E s \in Nat : q.vested = Write(p.vested, block, s),
           \A a \in Accounts : \/ q.staked[a] = p.staked[a]
                               \/ \E s \in Nat : q.staked[a] = Write(p.staked[a], block, s),
           \A x \in Delegatees : \/ q.delegated[x] = p.delegated[x]
                                 \/ \E s \in Nat : q.delegated[x] = Write(p.delegated[x], block, s)
    PROVE  PageAdvances(p, q)
<1>1. /\ p \in Pages /\ HistoryOK(p.total) /\ HistoryOK(p.vested)
      /\ \A a \in Accounts : HistoryOK(p.staked[a])
      /\ \A x \in Delegatees : HistoryOK(p.delegated[x])
  BY DEF PageOK, PageAdvances, Advances
<1>2. ASSUME NEW h \in Histories, HistoryOK(h), NEW g,
             g = h \/ \E s \in Nat : g = Write(h, block, s)
      PROVE  Advances(h, g)
  BY <1>2, WriteAdvances, SameAdvances
<1>3. Advances(p.total, q.total) /\ Advances(p.vested, q.vested)
  BY <1>1, <1>2, PageShape
<1>4. \A a \in Accounts : Advances(p.staked[a], q.staked[a])
  BY <1>1, <1>2, PageShape
<1>5. \A x \in Delegatees : Advances(p.delegated[x], q.delegated[x])
  BY <1>1, <1>2, PageShape
<1> QED BY <1>3, <1>4, <1>5 DEF PageAdvances

-----------------------------------------------------------------------------
(* The operations on a page. *)

\* The last stake of each history of a page is a number.
LEMMA PageStakes ==
    ASSUME NEW p \in Pages
    PROVE  /\ LastStake(p.total) \in Nat /\ LastStake(p.vested) \in Nat
           /\ \A a \in Accounts : LastStake(p.staked[a]) \in Nat
           /\ \A x \in Delegatees : LastStake(p.delegated[x]) \in Nat
BY PageShape, StakesAreNumbers

\* What a page is after its stake histories of an account are replaced.
PutStake(p, a, total, staked, vested) ==
    [p EXCEPT !.total = total, !.staked[a] = staked, !.vested = vested]

LEMMA PutStakeResult ==
    ASSUME NEW p \in Pages, NEW a \in Accounts,
           NEW t \in Histories, NEW s \in Histories, NEW v \in Histories
    PROVE  LET q == PutStake(p, a, t, s, v)
           IN  /\ q \in Pages
               /\ q.total = t /\ q.vested = v
               /\ q.staked = [p.staked EXCEPT ![a] = s]
               /\ q.delegated = p.delegated /\ q.delegates = p.delegates
<1> DEFINE q == PutStake(p, a, t, s, v)
<1>1. q \in Pages
  BY DEF PutStake, Pages
<1>2. q.total = t
  BY DEF PutStake, Pages
<1>3. q.vested = v
  BY DEF PutStake, Pages
<1>4. q.staked = [p.staked EXCEPT ![a] = s]
  BY DEF PutStake, Pages
<1>5. q.delegated = p.delegated
  BY DEF PutStake, Pages
<1>6. q.delegates = p.delegates
  BY DEF PutStake, Pages
<1> QED BY <1>1, <1>2, <1>3, <1>4, <1>5, <1>6

\* Writing the stake histories of an account at this block advances the page
\* and names no delegatee.
LEMMA PutStakeAdvances ==
    ASSUME block \in Nat \ {0}, NEW p, PageOK(p), NEW a \in Accounts,
           NEW i \in Nat, NEW j \in Nat, NEW v,
           v = p.vested \/ \E k \in Nat : v = Write(p.vested, block, k)
    PROVE  LET q == PutStake(p, a, Write(p.total, block, i), Write(p.staked[a], block, j), v)
           IN  PageAdvances(p, q) /\ q.delegates = p.delegates
<1> DEFINE t == Write(p.total, block, i)
           s == Write(p.staked[a], block, j)
           q == PutStake(p, a, t, s, v)
<1>1. p \in Pages
  BY DEF PageOK, PageAdvances
<1>2. t \in Histories /\ s \in Histories /\ v \in Histories
  BY <1>1, PageShape, WriteType
<1> HIDE DEF t, s
<1>3. /\ q \in Pages
      /\ q.total = t /\ q.vested = v
      /\ q.staked = [p.staked EXCEPT ![a] = s]
      /\ q.delegated = p.delegated /\ q.delegates = p.delegates
  BY <1>1, <1>2, PutStakeResult
<1> HIDE DEF q
<1>4. \A b \in Accounts : q.staked[b] = IF b = a THEN s ELSE p.staked[b]
  BY <1>1, <1>3 DEF Pages
<1>5. \E k \in Nat : t = Write(p.total, block, k)
  BY DEF t
<1>6. \E k \in Nat : s = Write(p.staked[a], block, k)
  BY DEF s
<1>7. PageAdvances(p, q)
  <2>1. \A b \in Accounts : \/ q.staked[b] = p.staked[b]
                            \/ \E k \in Nat : q.staked[b] = Write(p.staked[b], block, k)
    BY <1>4, <1>6
  <2>2. \A x \in Delegatees : q.delegated[x] = p.delegated[x]
    BY <1>3
  <2>3. \/ q.total = p.total
        \/ \E k \in Nat : q.total = Write(p.total, block, k)
    BY <1>3, <1>5
  <2>4. \/ q.vested = p.vested
        \/ \E k \in Nat : q.vested = Write(p.vested, block, k)
    BY <1>3
  <2> QED BY <1>3, <2>1, <2>2, <2>3, <2>4, PageWithWrites
<1> QED BY <1>3, <1>7 DEF q, t, s

\* Adding a stake advances the page.
LEMMA IncreaseStakeAdvances ==
    ASSUME block \in Nat \ {0}, NEW p, PageOK(p), NEW a \in Accounts, NEW n \in Nat
    PROVE  /\ PageAdvances(p, IncreaseStake(p, a, n))
           /\ IncreaseStake(p, a, n).delegates = p.delegates
<1>1. p \in Pages
  BY DEF PageOK, PageAdvances
<1>2. /\ LastStake(p.total) + n \in Nat /\ LastStake(p.staked[a]) + n \in Nat
      /\ LastStake(p.vested) + n \in Nat
  BY <1>1, PageStakes
<1> DEFINE v == IF a \in Vestings THEN Increase(p.vested, n) ELSE p.vested
<1>3. v = p.vested \/ \E k \in Nat : v = Write(p.vested, block, k)
  BY <1>2 DEF Increase
<1>4. IncreaseStake(p, a, n) =
          PutStake(p, a, Write(p.total, block, LastStake(p.total) + n),
                         Write(p.staked[a], block, LastStake(p.staked[a]) + n), v)
  BY DEF IncreaseStake, PutStake, Increase
<1> HIDE DEF v
<1> QED BY <1>2, <1>3, <1>4, PutStakeAdvances, SMTT(30)

\* Taking out a stake that is there advances the page.
LEMMA DecreaseStakeAdvances ==
    ASSUME block \in Nat \ {0}, NEW p, PageOK(p), NEW a \in Accounts, NEW n \in Nat,
           CanDecrease(p, a, n)
    PROVE  /\ PageAdvances(p, DecreaseStake(p, a, n))
           /\ DecreaseStake(p, a, n).delegates = p.delegates
<1>1. p \in Pages
  BY DEF PageOK, PageAdvances
<1>2. /\ LastStake(p.total) - n \in Nat /\ LastStake(p.staked[a]) - n \in Nat
      /\ a \in Vestings => LastStake(p.vested) - n \in Nat
  BY <1>1, PageStakes DEF CanDecrease
<1> DEFINE v == IF a \in Vestings THEN Decrease(p.vested, n) ELSE p.vested
<1>3. v = p.vested \/ \E k \in Nat : v = Write(p.vested, block, k)
  BY <1>2 DEF Decrease
<1>4. DecreaseStake(p, a, n) =
          PutStake(p, a, Write(p.total, block, LastStake(p.total) - n),
                         Write(p.staked[a], block, LastStake(p.staked[a]) - n), v)
  BY DEF DecreaseStake, PutStake, Decrease
<1> HIDE DEF v
<1> QED BY <1>2, <1>3, <1>4, PutStakeAdvances

\* Writing the stake delegated to an address advances the page.
LEMMA WriteDelegatedAdvances ==
    ASSUME block \in Nat \ {0}, NEW p, PageOK(p), NEW x \in Delegatees, NEW n \in Nat
    PROVE  LET q == [p EXCEPT !.delegated[x] = Write(p.delegated[x], block, n)]
           IN  PageAdvances(p, q) /\ q.delegates = p.delegates
<1> DEFINE g == Write(p.delegated[x], block, n)
           q == [p EXCEPT !.delegated[x] = g]
<1>1. p \in Pages
  BY DEF PageOK, PageAdvances
<1>2. g \in Histories
  BY <1>1, PageShape, WriteType
<1> HIDE DEF g
<1>3. q \in Pages
  BY <1>1, <1>2 DEF Pages
<1>4. q.total = p.total /\ q.vested = p.vested
  BY <1>1 DEF Pages
<1>5. q.staked = p.staked /\ q.delegates = p.delegates
  BY <1>1 DEF Pages
<1>6. q.delegated = [p.delegated EXCEPT ![x] = g]
  BY <1>1 DEF Pages
<1> HIDE DEF q
<1>7. \A y \in Delegatees : q.delegated[y] = IF y = x THEN g ELSE p.delegated[y]
  BY <1>1, <1>6 DEF Pages
<1>8. PageAdvances(p, q)
  BY <1>3, <1>4, <1>5, <1>7, PageWithWrites DEF g
<1> QED BY <1>5, <1>8 DEF q, g

LEMMA IncreaseDelegateAdvances ==
    ASSUME block \in Nat \ {0}, NEW p, PageOK(p), NEW x \in Delegatees, NEW n \in Nat
    PROVE  PageAdvances(p, IncreaseDelegate(p, x, n))
<1>1. LastStake(p.delegated[x]) + n \in Nat
  BY PageStakes DEF PageOK, PageAdvances
<1>2. IncreaseDelegate(p, x, n) =
          [p EXCEPT !.delegated[x] = Write(p.delegated[x], block, LastStake(p.delegated[x]) + n)]
  BY DEF IncreaseDelegate, Increase
<1> QED BY <1>1, <1>2, WriteDelegatedAdvances

LEMMA DecreaseDelegateAdvances ==
    ASSUME block \in Nat \ {0}, NEW p, PageOK(p), NEW x \in Delegatees, NEW n \in Nat
    PROVE  PageAdvances(p, DecreaseDelegate(p, x, n))
<1> DEFINE m == IF LastStake(p.delegated[x]) > n THEN LastStake(p.delegated[x]) - n ELSE 0
<1>1. m \in Nat
  BY PageStakes DEF PageOK, PageAdvances
<1>2. DecreaseDelegate(p, x, n) = [p EXCEPT !.delegated[x] = Write(p.delegated[x], block, m)]
  BY DEF DecreaseDelegate
<1> HIDE DEF m
<1> QED BY <1>1, <1>2, WriteDelegatedAdvances

\* Naming a delegatee touches no history.
LEMMA NameDelegateAdvances ==
    ASSUME block \in Nat \ {0}, NEW p, PageOK(p), NEW a \in Accounts, NEW x \in Delegatees
    PROVE  PageAdvances(p, [p EXCEPT !.delegates[a] = x])
<1> DEFINE q == [p EXCEPT !.delegates[a] = x]
<1>1. p \in Pages
  BY DEF PageOK, PageAdvances
<1>2. q \in Pages
  BY <1>1 DEF Pages
<1>3. q.total = p.total /\ q.vested = p.vested
  BY <1>1 DEF Pages
<1>4. q.staked = p.staked /\ q.delegated = p.delegated
  BY <1>1 DEF Pages
<1> HIDE DEF q
<1>5. PageAdvances(p, q)
  BY <1>2, <1>3, <1>4, PageWithWrites
<1> QED BY <1>5 DEF q

\* A page that was advanced to is well formed.
LEMMA AdvancedIsOK ==
    ASSUME NEW p, NEW q, PageAdvances(p, q)
    PROVE  PageOK(q)
BY DEF PageOK, PageAdvances, Advances, PastKept

\* Moving a delegated stake advances the page.
LEMMA RedelegateAdvances ==
    ASSUME block \in Nat \ {0}, NEW p, PageOK(p), NEW a \in Accounts,
           NEW x \in Delegatees, NEW m \in Nat, NEW n \in Nat
    PROVE  PageAdvances(p, Redelegate(p, a, x, m, n))
<1> DEFINE q == [p EXCEPT !.delegates[a] = x]
           r == DecreaseDelegate(q, p.delegates[a], m)
<1>1. p.delegates[a] \in Delegatees
  BY PageShape DEF PageOK, PageAdvances
<1>2. PageAdvances(p, q)
  BY NameDelegateAdvances
<1>3. Redelegate(p, a, x, m, n) = IncreaseDelegate(r, x, n)
  BY DEF Redelegate
<1> HIDE DEF q
<1>4. PageAdvances(q, r)
  BY <1>1, <1>2, AdvancedIsOK, DecreaseDelegateAdvances
<1> HIDE DEF r
<1>5. PageAdvances(r, IncreaseDelegate(r, x, n))
  BY <1>4, AdvancedIsOK, IncreaseDelegateAdvances
<1>6. PageAdvances(p, r)
  BY <1>2, <1>4, AdvancesTransitive
<1> QED BY <1>3, <1>5, <1>6, AdvancesTransitive

\* A stake at a lock date, with the choice of its delegatee, advances the page.
LEMMA StakeOnPageAdvances ==
    ASSUME block \in Nat \ {0}, NEW p, PageOK(p), NEW a \in Accounts,
           NEW n \in Nat, NEW x \in Delegatees
    PROVE  PageAdvances(p, StakeOnPage(p, a, n, x))
<1> DEFINE q == IncreaseStake(p, a, n)
           before == LastStake(p.staked[a])
<1>1. PageAdvances(p, q)
  BY IncreaseStakeAdvances
<1>2. before \in Nat /\ before + n \in Nat
  BY PageStakes DEF PageOK, PageAdvances
<1>3. StakeOnPage(p, a, n, x) = IF p.delegates[a] = x THEN IncreaseDelegate(q, x, n)
                                ELSE Redelegate(q, a, x, before, before + n)
  BY DEF StakeOnPage
<1> HIDE DEF q, before
<1>4. PageOK(q)
  BY <1>1, AdvancedIsOK
<1>5. PageAdvances(q, StakeOnPage(p, a, n, x))
  BY <1>2, <1>3, <1>4, IncreaseDelegateAdvances, RedelegateAdvances
<1> QED BY <1>1, <1>5, AdvancesTransitive

\* Withdrawing a stake that is there advances the page.
LEMMA WithdrawFromPageAdvances ==
    ASSUME block \in Nat \ {0}, NEW p, PageOK(p), NEW a \in Accounts, NEW n \in Nat,
           CanDecrease(p, a, n)
    PROVE  PageAdvances(p, WithdrawFromPage(p, a, n))
<1> DEFINE q == DecreaseStake(p, a, n)
<1>1. p.delegates[a] \in Delegatees
  BY PageShape DEF PageOK, PageAdvances
<1>2. PageAdvances(p, q)
  BY DecreaseStakeAdvances
<1>3. WithdrawFromPage(p, a, n) = DecreaseDelegate(q, p.delegates[a], n)
  BY DEF WithdrawFromPage
<1> HIDE DEF q
<1>4. PageAdvances(q, DecreaseDelegate(q, p.delegates[a], n))
  BY <1>1, <1>2, AdvancedIsOK, DecreaseDelegateAdvances
<1> QED BY <1>2, <1>3, <1>4, AdvancesTransitive

\* The two pages an extension moves a stake between both advance.
LEMMA MoveOutAdvances ==
    ASSUME block \in Nat \ {0}, NEW p, PageOK(p), NEW a \in Accounts, NEW n \in Nat,
           CanDecrease(p, a, n), NEW x \in Delegatees, NEW y \in Delegatees
    PROVE  PageAdvances(p,
               DecreaseDelegate([DecreaseStake(p, a, n) EXCEPT !.delegates[a] = y], x, n))
<1> DEFINE q == DecreaseStake(p, a, n)
           r == [q EXCEPT !.delegates[a] = y]
<1>1. PageAdvances(p, q)
  BY DecreaseStakeAdvances
<1> HIDE DEF q
<1>2. PageAdvances(q, r)
  BY <1>1, AdvancedIsOK, NameDelegateAdvances
<1> HIDE DEF r
<1>3. PageAdvances(r, DecreaseDelegate(r, x, n))
  BY <1>2, AdvancedIsOK, DecreaseDelegateAdvances
<1>4. PageAdvances(p, r)
  BY <1>1, <1>2, AdvancesTransitive
<1>5. PageAdvances(p, DecreaseDelegate(r, x, n))
  BY <1>3, <1>4, AdvancesTransitive
<1> QED BY <1>5 DEF r, q

LEMMA MoveInAdvances ==
    ASSUME block \in Nat \ {0}, NEW p, PageOK(p), NEW a \in Accounts, NEW n \in Nat,
           NEW x \in Delegatees
    PROVE  PageAdvances(p,
               IncreaseDelegate([IncreaseStake(p, a, n) EXCEPT !.delegates[a] = x], x, n))
<1> DEFINE q == IncreaseStake(p, a, n)
           r == [q EXCEPT !.delegates[a] = x]
<1>1. PageAdvances(p, q)
  BY IncreaseStakeAdvances
<1> HIDE DEF q
<1>2. PageAdvances(q, r)
  BY <1>1, AdvancedIsOK, NameDelegateAdvances
<1> HIDE DEF r
<1>3. PageAdvances(r, IncreaseDelegate(r, x, n))
  BY <1>2, AdvancedIsOK, IncreaseDelegateAdvances
<1>4. PageAdvances(p, r)
  BY <1>1, <1>2, AdvancesTransitive
<1>5. PageAdvances(p, IncreaseDelegate(r, x, n))
  BY <1>3, <1>4, AdvancesTransitive
<1> QED BY <1>5 DEF r, q

-----------------------------------------------------------------------------
(* The operations on the book. *)

BookAdvances(b, c) ==
    /\ c \in [Dates -> Pages]
    /\ \A d \in Dates : PageAdvances(b[d], c[d])

\* Every page is well formed, and a frozen contract is paused.
StakingInv ==
    /\ block \in Nat \ {0}
    /\ book \in [Dates -> Pages]
    /\ \A d \in Dates : PageOK(book[d])
    /\ now \in Nat
    /\ FrozenIsPaused

\* A book that gives every page anew advances when its pages do.
LEMMA PagesAdvance ==
    ASSUME NEW b, NEW c, c = [d \in Dates |-> c[d]],
           \A d \in Dates : PageAdvances(b[d], c[d])
    PROVE  BookAdvances(b, c)
BY DEF BookAdvances, PageAdvances

LEMMA StakeAdvances ==
    ASSUME StakingInv, NEW sender \in Accounts, NEW a \in Accounts, NEW x \in Named,
           NEW amount \in Amounts, NEW until \in Times, Stake(sender, amount, until, a, x)
    PROVE  BookAdvances(book, book')
<1> DEFINE d == Capped(LockDate(until))
<1>1. /\ d \in Dates
      /\ book' = [book EXCEPT ![d] = StakeOnPage(@, a, amount, x)]
  BY DEF Stake
<1> HIDE DEF d
<1>2. amount \in Nat /\ x \in Delegatees
  BY StakingAssumption DEF Named
<1>3. PageAdvances(book[d], StakeOnPage(book[d], a, amount, x))
  BY <1>1, <1>2, StakeOnPageAdvances DEF StakingInv
<1>4. StakeOnPage(book[d], a, amount, x) \in Pages
  BY <1>3 DEF PageAdvances
<1>5. book' \in [Dates -> Pages]
  BY <1>1, <1>4 DEF StakingInv
<1>6. ASSUME NEW e \in Dates
      PROVE  PageAdvances(book[e], book'[e])
  <2>1. CASE e = d
    BY <1>1, <1>3, <2>1 DEF StakingInv
  <2>2. CASE e # d
    <3>1. book'[e] = book[e]
      BY <1>1, <2>2 DEF StakingInv
    <3> QED BY <3>1 DEF StakingInv, PageOK
  <2> QED BY <2>1, <2>2
<1> QED BY <1>5, <1>6 DEF BookAdvances

\* The lock dates are finitely many.
LEMMA DatesFinite == IsFiniteSet(Dates)
<1>1. MaxTime + MAX_DURATION \in Nat
  BY StakingAssumption
<1>2. IsFiniteSet(0..(MaxTime + MAX_DURATION))
  BY <1>1, FS_Interval
<1>3. Dates \subseteq 0..(MaxTime + MAX_DURATION)
  BY DEF Dates
<1> QED BY <1>2, <1>3, FS_Subset

LEMMA StakeByScheduleAdvances ==
    ASSUME StakingInv, NEW sender \in Accounts, NEW a \in Accounts, NEW x \in Named,
           NEW amount \in Amounts, NEW schedule \in Schedules,
           StakeBySchedule(sender, amount, schedule, a, x)
    PROVE  BookAdvances(book, book')
<1> DEFINE start == LockDate(now + schedule.cliff)
           end   == LockDate(now + schedule.duration)
           D     == {d \in Dates : d \in start..end /\ (d - start) % schedule.interval = 0}
           part  == amount \div Cardinality(D)
           first == amount - part * (Cardinality(D) - 1)
           PartOf(d) == IF d = start THEN first ELSE part
           F(d) == IF d \in D THEN StakeOnPage(book[d], a, PartOf(d), x) ELSE book[d]
<1>1. /\ \A d \in D : PartOf(d) > 0
      /\ book' = [d \in Dates |-> F(d)]
  BY DEF StakeBySchedule
<1>2. amount \in Nat /\ x \in Delegatees
  BY StakingAssumption DEF Named
<1>3. ASSUME NEW d \in Dates
      PROVE  PageAdvances(book[d], F(d))
  <2>1. CASE d \in D
    <3> DEFINE n == Cardinality(D)
    <3>1. IsFiniteSet(D)
      BY DatesFinite, FS_Subset
    <3>2. n \in Nat /\ n # 0
      BY <3>1, <2>1, FS_CardinalityType, FS_EmptySet
    <3>3. PartOf(d) > 0
      BY <1>1, <2>1
    <3> HIDE DEF D
    <3>4. part \in Nat
      BY <1>2, <3>2
    <3> HIDE DEF n
    <3>5. PartOf(d) \in Nat
      <4>1. part * (Cardinality(D) - 1) \in Int
        BY <3>2, <3>4 DEF n
      <4>2. first \in Int
        BY <1>2, <4>1
      <4> HIDE DEF first, part, start
      <4> QED BY <3>3, <3>4, <4>2
    <3> HIDE DEF PartOf
    <3>6. PageAdvances(book[d], StakeOnPage(book[d], a, PartOf(d), x))
      BY <1>2, <3>5, StakeOnPageAdvances DEF StakingInv
    <3> QED BY <2>1, <3>6
  <2>2. CASE d \notin D
    BY <2>2 DEF StakingInv, PageOK
  <2> QED BY <2>1, <2>2
<1>4. book' = [d \in Dates |-> F(d)]
  BY <1>1
<1> HIDE DEF F
<1> QED BY <1>3, <1>4, PagesAdvance

LEMMA ExtendAdvances ==
    ASSUME StakingInv, NEW a \in Accounts, NEW previousLock, NEW until,
           ExtendStakingDuration(a, previousLock, until)
    PROVE  BookAdvances(book, book')
<1> DEFINE from   == LockDate(previousLock)
           to     == Capped(LockDate(until))
           amount == PriorAt(book[from].staked[a], block - 1)
           before == book[from].delegates[a]
           after  == IF book[to].delegates[a] = NoAddress THEN before
                     ELSE book[to].delegates[a]
           left == DecreaseDelegate(
                       [DecreaseStake(book[from], a, amount) EXCEPT !.delegates[a] = NoAddress],
                       before, amount)
           grown == IncreaseDelegate(
                       [IncreaseStake(book[to], a, amount) EXCEPT !.delegates[a] = after],
                       after, amount)
<1>1. /\ from \in Dates /\ to \in Dates
      /\ from < to
      /\ CanDecrease(book[from], a, amount)
      /\ book' = [book EXCEPT ![from] = left, ![to] = grown]
  BY DEF ExtendStakingDuration
<1>2. from # to
  <2> HIDE DEF from, to
  <2>1. from \in Int /\ to \in Int
    BY <1>1 DEF Dates
  <2> QED BY <1>1, <2>1
<1> HIDE DEF from, to
<1>3. book[from] \in Pages /\ book[to] \in Pages
  BY <1>1 DEF StakingInv
<1>4. before \in Delegatees /\ after \in Delegatees /\ NoAddress \in Delegatees
  BY <1>3, PageShape, StakingAssumption
<1>5. amount \in Nat
  <2>1. block - 1 \in Nat
    BY DEF StakingInv
  <2> QED BY <1>3, <2>1, PageShape, StakesAreNumbers
<1> HIDE DEF before, after, amount
<1>6. PageAdvances(book[from], left)
  BY <1>1, <1>4, <1>5, MoveOutAdvances DEF StakingInv
<1>7. PageAdvances(book[to], grown)
  BY <1>1, <1>4, <1>5, MoveInAdvances DEF StakingInv
<1> HIDE DEF left, grown
<1>8. book' \in [Dates -> Pages]
  BY <1>1, <1>6, <1>7 DEF StakingInv, PageAdvances
<1>9. ASSUME NEW d \in Dates
      PROVE  PageAdvances(book[d], book'[d])
  <2>1. CASE d = from
    BY <1>1, <1>2, <1>6, <2>1 DEF StakingInv
  <2>2. CASE d = to
    BY <1>1, <1>2, <1>7, <2>2 DEF StakingInv
  <2>3. CASE d # from /\ d # to
    <3>1. book'[d] = book[d]
      BY <1>1, <2>3 DEF StakingInv
    <3> QED BY <3>1 DEF StakingInv, PageOK
  <2> QED BY <2>1, <2>2, <2>3
<1> QED BY <1>8, <1>9 DEF BookAdvances

\* What a staker had at the last block's end is a number.
LEMMA PriorBalanceIsNumber ==
    ASSUME StakingInv, NEW a \in Accounts, NEW d \in Dates
    PROVE  PriorAt(book[d].staked[a], block - 1) \in Nat /\ Balance(d, a) \in Nat
<1>1. block - 1 \in Nat /\ book[d] \in Pages
  BY DEF StakingInv
<1> QED BY <1>1, PageShape, StakesAreNumbers DEF Balance

LEMMA WithdrawAdvances ==
    ASSUME StakingInv, NEW a \in Accounts, NEW amount \in Nat, NEW until,
           Withdraw(a, amount, until)
    PROVE  BookAdvances(book, book')
<1> DEFINE date  == AdjustDate(until)
           taken == IF IsNoWithdrawal(a, amount) THEN 0 ELSE amount
           next  == NextWithdrawal(a, date)
           F(e)  == CASE e = date /\ taken > 0 -> WithdrawFromPage(book[e], a, taken)
                      [] e = date + TWO_WEEKS /\ next > 0 -> WithdrawFromPage(book[e], a, next)
                      [] OTHER -> book[e]
<1>1. /\ date \in Dates
      /\ taken > 0 => MayWithdraw(date, a, taken)
      /\ next > 0 => MayWithdraw(date + TWO_WEEKS, a, next)
      /\ book' = [e \in Dates |-> F(e)]
  BY DEF Withdraw
<1>2. taken \in Nat
  OBVIOUS
<1>3. next \in Nat
  BY PriorBalanceIsNumber DEF NextWithdrawal
<1> HIDE DEF date, taken, next
<1>4. ASSUME NEW e \in Dates
      PROVE  PageAdvances(book[e], F(e))
  <2>1. CASE e = date /\ taken > 0
    <3>1. PageAdvances(book[e], WithdrawFromPage(book[e], a, taken))
      BY <1>1, <1>2, <2>1, WithdrawFromPageAdvances DEF StakingInv, MayWithdraw
    <3>2. e # date + TWO_WEEKS
      BY <2>1, StakingAssumption DEF Dates
    <3> QED BY <2>1, <3>1, <3>2
  <2>2. CASE e = date + TWO_WEEKS /\ next > 0
    <3>1. PageAdvances(book[e], WithdrawFromPage(book[e], a, next))
      BY <1>1, <1>3, <2>2, WithdrawFromPageAdvances DEF StakingInv, MayWithdraw
    <3>2. e # date
      BY <1>1, <2>2, StakingAssumption DEF Dates
    <3> QED BY <2>2, <3>1, <3>2
  <2>3. CASE ~(e = date /\ taken > 0) /\ ~(e = date + TWO_WEEKS /\ next > 0)
    BY <2>3 DEF StakingInv, PageOK
  <2> QED BY <2>1, <2>2, <2>3
<1>5. book' = [e \in Dates |-> F(e)]
  BY <1>1
<1> HIDE DEF F
<1> QED BY <1>4, <1>5, PagesAdvance

LEMMA CancelAdvances ==
    ASSUME StakingInv, NEW v \in TeamVestings, NEW I, CancelDates(v, I)
    PROVE  BookAdvances(book, book')
<1> DEFINE C == {i \in I : StakeToCancel(v, i) > 0}
           P(d) == CHOOSE i \in C : LockDate(i) = d
           F(d) == IF \E i \in C : LockDate(i) = d
                   THEN WithdrawFromPage(book[d], v, StakeToCancel(v, P(d)))
                   ELSE book[d]
<1>1. /\ \A i \in C : MayWithdraw(LockDate(i), v, StakeToCancel(v, i))
      /\ book' = [d \in Dates |-> F(d)]
  BY DEF CancelDates
<1>2. v \in Accounts
  BY StakingAssumption DEF Accounts
<1>3. \A i : StakeToCancel(v, i) \in Nat
  BY <1>2, PriorBalanceIsNumber DEF StakeToCancel
<1> HIDE DEF C
<1>4. ASSUME NEW d \in Dates
      PROVE  PageAdvances(book[d], F(d))
  <2>1. CASE \E i \in C : LockDate(i) = d
    <3>1. P(d) \in C /\ LockDate(P(d)) = d
      BY <2>1
    <3> HIDE DEF P
    <3>2. CanDecrease(book[d], v, StakeToCancel(v, P(d)))
      BY <1>1, <3>1 DEF MayWithdraw
    <3>3. PageAdvances(book[d], WithdrawFromPage(book[d], v, StakeToCancel(v, P(d))))
      BY <1>2, <1>3, <3>2, WithdrawFromPageAdvances DEF StakingInv
    <3> QED BY <2>1, <3>3
  <2>2. CASE ~ \E i \in C : LockDate(i) = d
    BY <2>2 DEF StakingInv, PageOK
  <2> QED BY <2>1, <2>2
<1>5. book' = [d \in Dates |-> F(d)]
  BY <1>1
<1> HIDE DEF F
<1> QED BY <1>4, <1>5, PagesAdvance

LEMMA DelegateAdvances ==
    ASSUME StakingInv, NEW a \in Accounts, NEW x \in Named, NEW lockDate,
           Delegate(a, x, lockDate)
    PROVE  BookAdvances(book, book')
<1> DEFINE D == {d \in DelegatedWith(a, lockDate) :
                    Balance(d, a) > 0 /\ book[d].delegates[a] # x}
           F(d) == IF d \in D THEN Redelegate(book[d], a, x, Balance(d, a), Balance(d, a))
                   ELSE book[d]
<1>1. book' = [d \in Dates |-> F(d)]
  BY DEF Delegate
<1>2. x \in Delegatees
  BY DEF Named
<1> HIDE DEF D
<1>3. ASSUME NEW d \in Dates
      PROVE  PageAdvances(book[d], F(d))
  <2>1. Balance(d, a) \in Nat
    BY PriorBalanceIsNumber
  <2>2. PageAdvances(book[d], Redelegate(book[d], a, x, Balance(d, a), Balance(d, a)))
    BY <1>2, <2>1, RedelegateAdvances DEF StakingInv
  <2>3. PageAdvances(book[d], book[d])
    BY DEF StakingInv, PageOK
  <2> QED BY <2>2, <2>3
<1> HIDE DEF F
<1> QED BY <1>1, <1>3, PagesAdvance

-----------------------------------------------------------------------------
(* The transactions. *)

\* No step takes the chain back, and what it does to the book is to advance it.
LEMMA StepAdvances ==
    ASSUME StakingInv, [Next]_vars
    PROVE  /\ BookAdvances(book, book')
           /\ block' \in Nat /\ block' >= block
           /\ now' \in Nat
<1> DEFINE Kept == block' = block /\ now' = now
           Goal == /\ BookAdvances(book, book')
                   /\ block' \in Nat /\ block' >= block
                   /\ now' \in Nat
<1>0. Kept /\ BookAdvances(book, book') => Goal
  BY DEF StakingInv
<1>1. book' = book => BookAdvances(book, book')
  BY DEF BookAdvances, StakingInv, PageOK
<1>2. ASSUME NEW sender \in Accounts, NEW a \in Accounts, NEW x \in Named,
             NEW amount \in Amounts, NEW until \in Times, Stake(sender, amount, until, a, x)
      PROVE  Goal
  <2>1. Kept
    BY <1>2 DEF Stake
  <2> QED BY <1>0, <1>2, <2>1, StakeAdvances
<1>3. ASSUME NEW sender \in Accounts, NEW a \in Accounts, NEW x \in Named,
             NEW amount \in Amounts, NEW schedule \in Schedules,
             StakeBySchedule(sender, amount, schedule, a, x)
      PROVE  Goal
  <2>1. Kept
    BY <1>3 DEF StakeBySchedule
  <2> QED BY <1>0, <1>3, <2>1, StakeByScheduleAdvances
<1>4. ASSUME NEW a \in Accounts, NEW from \in Times, NEW to \in Times,
             ExtendStakingDuration(a, from, to)
      PROVE  Goal
  <2>1. Kept
    BY <1>4 DEF ExtendStakingDuration
  <2> QED BY <1>0, <1>4, <2>1, ExtendAdvances
<1>5. ASSUME NEW a \in Accounts, NEW until \in Times,
             NEW amount \in (Withdrawals \cup {Balance(AdjustDate(until), a)}) \ {0},
             Withdraw(a, amount, until)
      PROVE  Goal
  <2>1. Kept
    BY <1>5 DEF Withdraw
  <2>2. AdjustDate(until) \in Dates
    BY <1>5 DEF Withdraw
  <2>3. amount \in Nat
    BY <2>2, PriorBalanceIsNumber, StakingAssumption
  <2> QED BY <1>0, <1>5, <2>1, <2>3, WithdrawAdvances
<1>6. ASSUME NEW v \in TeamVestings, NEW from \in Times, CancelTeamVesting(v, from)
      PROVE  Goal
  <2>1. Kept
    BY <1>6 DEF CancelTeamVesting
  <2>2. \E I : CancelDates(v, I)
    BY <1>6 DEF CancelTeamVesting
  <2> QED BY <1>0, <2>1, <2>2, CancelAdvances
<1>7. ASSUME NEW v \in TeamVestings, GovernanceWithdrawVesting(v)
      PROVE  Goal
  <2>1. Kept
    BY <1>7 DEF GovernanceWithdrawVesting
  <2>2. \E I : CancelDates(v, I)
    BY <1>7 DEF GovernanceWithdrawVesting
  <2> QED BY <1>0, <2>1, <2>2, CancelAdvances
<1>8. ASSUME NEW a \in Accounts, NEW x \in Named, NEW d \in Dates, Delegate(a, x, d)
      PROVE  Goal
  <2>1. Kept
    BY <1>8 DEF Delegate
  <2> QED BY <1>0, <1>8, <2>1, DelegateAdvances
<1>9. ASSUME \/ \E pause \in BOOLEAN : PauseUnpause(pause)
             \/ \E freeze \in BOOLEAN : FreezeUnfreeze(freeze)
             \/ UnlockAllTokens
             \/ \E scaling \in Scalings : SetWeightScaling(scaling)
             \/ \E limit \in IterationLimits : SetMaxVestingWithdrawIterations(limit)
             \/ UNCHANGED vars
      PROVE  Goal
  BY <1>0, <1>1, <1>9 DEF PauseUnpause, FreezeUnfreeze, UnlockAllTokens, SetWeightScaling,
     SetMaxVestingWithdrawIterations, vars
<1>10. ASSUME \E elapsed \in Elapsed : NextBlock(elapsed)
       PROVE  Goal
  <2>1. PICK elapsed \in Elapsed : NextBlock(elapsed)
    BY <1>10
  <2>2. block' = block + 1 /\ now' = now + elapsed /\ book' = book /\ elapsed \in Nat
    BY <2>1, StakingAssumption DEF NextBlock
  <2> QED BY <1>1, <2>2 DEF StakingInv
<1> HIDE DEF Goal
<1>11. Goal
  BY <1>2, <1>3, <1>4, <1>5, <1>6, <1>7, <1>8, <1>9, <1>10 DEF Next
<1> QED BY <1>11 DEF Goal

\* A page well formed at a block is so at every later one.
LEMMA StaysOK ==
    ASSUME StakingInv, BookAdvances(book, book'),
           block' \in Nat, block' >= block, NEW d \in Dates
    PROVE  PageOK(book[d])'
<1>1. ASSUME NEW h \in Histories, HistoryOK(h)
      PROVE  SortedHistory(h) /\ \A i \in DOMAIN h : h[i].fromBlock <= block'
  <2>1. \A i \in DOMAIN h : h[i].fromBlock \in Nat
    BY HistoryShape
  <2> QED BY <1>1, <2>1 DEF HistoryOK, StakingInv
<1> DEFINE q == book'[d]
           Good(h) == /\ h \in Histories
                      /\ SortedHistory(h) /\ \A i \in DOMAIN h : h[i].fromBlock <= block'
<1>2. /\ q \in Pages
      /\ Good(q.total) /\ Good(q.vested)
      /\ \A a \in Accounts : Good(q.staked[a])
      /\ \A x \in Delegatees : Good(q.delegated[x])
  BY <1>1 DEF BookAdvances, PageAdvances, Advances
<1> QED BY <1>2 DEF PageOK, PageAdvances, Advances, HistoryOK, PastKept

LEMMA InitOK == Init => StakingInv
<1> SUFFICES ASSUME Init
             PROVE  StakingInv
  OBVIOUS
<1>1. <<>> \in Histories /\ HistoryOK(<<>>)
  BY DEF Histories, HistoryOK, SortedHistory
<1>2. NoAddress \in Delegatees
  BY StakingAssumption
<1>3. EmptyPage \in Pages
  BY <1>1, <1>2 DEF EmptyPage, Pages
<1>4. book \in [Dates -> Pages] /\ \A d \in Dates : book[d] = EmptyPage
  BY <1>3 DEF Init
<1>5. PageOK(EmptyPage)
  BY <1>1, <1>3 DEF PageOK, PageAdvances, Advances, PastKept, EmptyPage
<1> QED BY <1>4, <1>5 DEF Init, StakingInv, FrozenIsPaused

\* A frozen contract stays paused, and while it is frozen nothing moves.
LEMMA FrozenStep ==
    ASSUME FrozenIsPaused, [Next]_vars
    PROVE  /\ FrozenIsPaused'
           /\ frozen => UNCHANGED <<book, held, collected>>
<1> DEFINE Goal == /\ frozen' => paused'
                   /\ frozen => UNCHANGED <<book, held, collected>>
<1>1. frozen => paused
  BY DEF FrozenIsPaused
<1>2. ASSUME ~frozen, UNCHANGED switches
      PROVE  Goal
  BY <1>2 DEF switches
<1>3. ASSUME ~paused, UNCHANGED switches
      PROVE  Goal
  BY <1>1, <1>3 DEF switches
<1>4. ASSUME NEW sender \in Accounts, NEW a \in Accounts, NEW x \in Named,
             NEW amount \in Amounts, NEW until \in Times, Stake(sender, amount, until, a, x)
      PROVE  Goal
  BY <1>2, <1>4 DEF Stake
<1>5. ASSUME NEW sender \in Accounts, NEW a \in Accounts, NEW x \in Named,
             NEW amount \in Amounts, NEW schedule \in Schedules,
             StakeBySchedule(sender, amount, schedule, a, x)
      PROVE  Goal
  BY <1>2, <1>5 DEF StakeBySchedule
<1>6. ASSUME NEW a \in Accounts, NEW from \in Times, NEW to \in Times,
             ExtendStakingDuration(a, from, to)
      PROVE  Goal
  BY <1>2, <1>6 DEF ExtendStakingDuration
<1>7. ASSUME NEW a \in Accounts, NEW until \in Times,
             NEW amount \in (Withdrawals \cup {Balance(AdjustDate(until), a)}) \ {0},
             Withdraw(a, amount, until)
      PROVE  Goal
  BY <1>2, <1>7 DEF Withdraw
<1>8. ASSUME NEW v \in TeamVestings, NEW from \in Times, CancelTeamVesting(v, from)
      PROVE  Goal
  BY <1>2, <1>8 DEF CancelTeamVesting
<1>9. ASSUME NEW v \in TeamVestings, GovernanceWithdrawVesting(v)
      PROVE  Goal
  BY <1>2, <1>9 DEF GovernanceWithdrawVesting
<1>10. ASSUME NEW a \in Accounts, NEW x \in Named, NEW d \in Dates, Delegate(a, x, d)
      PROVE  Goal
  BY <1>3, <1>10 DEF Delegate
<1>11. ASSUME \/ \E pause \in BOOLEAN : PauseUnpause(pause)
              \/ \E freeze \in BOOLEAN : FreezeUnfreeze(freeze)
              \/ UnlockAllTokens
              \/ \E scaling \in Scalings : SetWeightScaling(scaling)
              \/ \E limit \in IterationLimits : SetMaxVestingWithdrawIterations(limit)
              \/ \E elapsed \in Elapsed : NextBlock(elapsed)
              \/ UNCHANGED vars
       PROVE  Goal
  <2>1. CASE \E pause \in BOOLEAN : PauseUnpause(pause)
    BY <2>1 DEF PauseUnpause
  <2>2. CASE \E freeze \in BOOLEAN : FreezeUnfreeze(freeze)
    BY <1>1, <2>2 DEF FreezeUnfreeze, PausedAfter
  <2>3. CASE UnlockAllTokens
    BY <1>1, <2>3 DEF UnlockAllTokens
  <2>4. CASE \E scaling \in Scalings : SetWeightScaling(scaling)
    BY <2>4 DEF SetWeightScaling
  <2>5. CASE \E limit \in IterationLimits : SetMaxVestingWithdrawIterations(limit)
    BY <2>5 DEF SetMaxVestingWithdrawIterations
  <2>6. CASE \E elapsed \in Elapsed : NextBlock(elapsed)
    BY <1>1, <2>6 DEF NextBlock, switches
  <2>7. CASE UNCHANGED vars
    BY <1>1, <2>7 DEF vars, switches
  <2> QED BY <1>11, <2>1, <2>2, <2>3, <2>4, <2>5, <2>6, <2>7
<1> HIDE DEF Goal
<1>12. Goal
  BY <1>4, <1>5, <1>6, <1>7, <1>8, <1>9, <1>10, <1>11 DEF Next
<1> QED BY <1>12 DEF Goal, FrozenIsPaused

LEMMA NextOK ==
    ASSUME StakingInv, [Next]_vars
    PROVE  StakingInv'
<1>1. BookAdvances(book, book') /\ block' \in Nat /\ block' >= block /\ now' \in Nat
  BY StepAdvances
<1>2. \A d \in Dates : PageOK(book[d])'
  BY <1>1, StaysOK
<1>3. FrozenIsPaused'
  BY FrozenStep DEF StakingInv
<1>4. block' \in Nat \ {0}
  BY <1>1 DEF StakingInv
<1> QED BY <1>1, <1>2, <1>3, <1>4 DEF StakingInv, BookAdvances

\* The inductive invariant: every page is well formed at its block, and a
\* frozen contract is paused.
THEOREM StakingInvariant == Spec => []StakingInv
<1>1. StakingInv /\ [Next]_vars => StakingInv'
  BY NextOK
<1> QED BY <1>1, InitOK, PTL DEF Spec

\* However stakes are added, moved, delegated, withdrawn and cancelled, every
\* history the voting power and the fee shares are searched in is sorted.
THEOREM SearchedHistoriesAreSorted == Spec => []HistoriesSorted
<1>1. StakingInv => HistoriesSorted
  BY DEF StakingInv, HistoriesSorted, PageOK, PageAdvances, Advances
<1> QED BY <1>1, StakingInvariant, PTL

\* What a history says of a block that is over, no transaction changes: the
\* voting power of a proposal's start block and the shares of a past fee
\* withdrawal are settled.
THEOREM PastPowerIsSettled == Spec => PastIsFixed
<1>1. StakingInv /\ [Next]_vars =>
          [\A d \in Dates :
              /\ PastKept(book[d].total, book'[d].total)
              /\ PastKept(book[d].vested, book'[d].vested)
              /\ \A a \in Accounts : PastKept(book[d].staked[a], book'[d].staked[a])
              /\ \A x \in Delegatees :
                    PastKept(book[d].delegated[x], book'[d].delegated[x])]_vars
  BY StepAdvances DEF BookAdvances, PageAdvances, Advances
<1> QED BY <1>1, StakingInvariant, PTL DEF Spec, PastIsFixed

\* Freezing stops delegations as well, though delegate() does not ask for it,
\* because a frozen contract is always paused.
THEOREM FreezingStopsAll == Spec => FrozenMovesNothing
<1>1. StakingInv /\ [Next]_vars => [frozen => UNCHANGED <<book, held, collected>>]_vars
  BY FrozenStep DEF StakingInv
<1> QED BY <1>1, StakingInvariant, PTL DEF Spec, FrozenMovesNothing

-----------------------------------------------------------------------------
(* Arithmetic. *)

\* What the quotient and the remainder are.
LEMMA Division ==
    ASSUME NEW n \in Int, NEW m \in Nat \ {0}
    PROVE  /\ n \div m \in Int /\ n % m \in 0..(m - 1)
           /\ n = m * (n \div m) + (n % m)
OBVIOUS

\* A quotient between bounds.
LEMMA QuotientBounds ==
    ASSUME NEW n \in Int, NEW m \in Nat \ {0}, NEW k \in Int
    PROVE  /\ m * k <= n => k <= n \div m
           /\ n < m * k => n \div m < k
<1> DEFINE q == n \div m
           r == n % m
<1>1. q \in Int /\ r \in Int /\ 0 <= r /\ r < m /\ n = m * q + r
  BY Division
<1> HIDE DEF q, r
<1>2. ASSUME m * k <= n, q < k
      PROVE  FALSE
  <2>1. q + 1 <= k
    BY <1>1, <1>2
  <2>2. m * (q + 1) <= m * k
    BY <1>1, <2>1
  <2> QED BY <1>1, <1>2, <2>2
<1>3. ASSUME n < m * k, k <= q
      PROVE  FALSE
  <2>1. m * k <= m * q
    BY <1>1, <1>3
  <2> QED BY <1>1, <1>3, <2>1
<1>4. (m * k <= n => k <= q) /\ (n < m * k => q < k)
  BY <1>1, <1>2, <1>3
<1> QED BY <1>4 DEF q

\* The lock date of a time is the last one not after it.
LEMMA LockDateIs ==
    ASSUME NEW t \in Nat
    PROVE  /\ LockDate(t) \in Nat /\ LockDate(t) % TWO_WEEKS = 0
           /\ LockDate(t) <= t /\ t < LockDate(t) + TWO_WEEKS
           /\ \A d \in Nat : d % TWO_WEEKS = 0 /\ d <= t /\ t < d + TWO_WEEKS
                                 => d = LockDate(t)
<1> DEFINE q == t \div TWO_WEEKS
<1>0. TWO_WEEKS \in Nat \ {0}
  BY StakingAssumption
<1>1. q \in Int /\ t % TWO_WEEKS \in 0..(TWO_WEEKS - 1)
      /\ t = TWO_WEEKS * q + (t % TWO_WEEKS)
  BY <1>0, Division
<1> HIDE DEF q
<1>2. LockDate(t) = TWO_WEEKS * q
  BY <1>0, <1>1 DEF LockDate, q
<1>3. q >= 0
  <2>1. TWO_WEEKS * 0 <= t
    BY <1>0
  <2> QED BY <1>0, <2>1, QuotientBounds DEF q
<1>4. (TWO_WEEKS * q) % TWO_WEEKS = 0
  BY <1>0, <1>1
<1>5. ASSUME NEW d \in Nat, d % TWO_WEEKS = 0, d <= t, t < d + TWO_WEEKS
      PROVE  d = TWO_WEEKS * q
  <2> DEFINE k == d \div TWO_WEEKS
  <2>1. k \in Int /\ d = TWO_WEEKS * k
    BY <1>0, <1>5, Division
  <2> HIDE DEF k
  <2>2. k <= q
    BY <1>0, <1>5, <2>1, QuotientBounds DEF q
  <2>3. t < TWO_WEEKS * (k + 1)
    BY <1>0, <1>5, <2>1
  <2>4. q < k + 1
    BY <1>0, <2>1, <2>3, QuotientBounds DEF q
  <2>5. k = q
    BY <1>1, <2>1, <2>2, <2>4
  <2> QED BY <2>1, <2>5
<1>6. TWO_WEEKS * q \in Nat
  BY <1>0, <1>1, <1>3
<1> QED BY <1>0, <1>1, <1>2, <1>4, <1>5, <1>6

\* The sum of multiples is one.
LEMMA Multiples ==
    ASSUME NEW m \in Nat \ {0}, NEW i \in Int, NEW j \in Int, i % m = 0, j % m = 0
    PROVE  (i + j) % m = 0 /\ (i - j) % m = 0
<1> DEFINE k == i \div m
           l == j \div m
<1>1. k \in Int /\ l \in Int /\ i = m * k /\ j = m * l
  BY Division
<1> HIDE DEF k, l
<1>2. i + j = m * (k + l) /\ i - j = m * (k - l)
  BY <1>1
<1>3. \A n \in Int : (m * n) % m = 0
  OBVIOUS
<1> QED BY <1>1, <1>2, <1>3

\* Lock dates grow with time.
LEMMA LockDateMonotone ==
    ASSUME NEW s \in Nat, NEW t \in Nat, s <= t
    PROVE  LockDate(s) <= LockDate(t)
<1> DEFINE q == s \div TWO_WEEKS
           r == t \div TWO_WEEKS
<1>0. TWO_WEEKS \in Nat \ {0}
  BY StakingAssumption
<1>1. q \in Int /\ r \in Int /\ TWO_WEEKS * q <= s
  BY <1>0, Division
<1>2. q <= r
  <2> HIDE DEF q
  <2> QED BY <1>0, <1>1, QuotientBounds
<1> HIDE DEF q, r
<1>3. TWO_WEEKS * q <= TWO_WEEKS * r
  BY <1>0, <1>1, <1>2
<1> QED BY <1>0, <1>1, <1>3 DEF LockDate, q, r

\* The latest lock date is MAX_DURATION after the one of today.
LEMMA LatestLockIs ==
    ASSUME now \in Nat
    PROVE  LatestLock = LockDate(now) + MAX_DURATION
<1>0. TWO_WEEKS \in Nat \ {0} /\ MAX_DURATION \in Nat /\ MAX_DURATION % TWO_WEEKS = 0
  BY StakingAssumption
<1> DEFINE d == LockDate(now) + MAX_DURATION
           t == now + MAX_DURATION
<1>1. LockDate(now) \in Nat /\ LockDate(now) % TWO_WEEKS = 0
      /\ LockDate(now) <= now /\ now < LockDate(now) + TWO_WEEKS
  BY LockDateIs
<1>2. d \in Nat /\ t \in Nat /\ d % TWO_WEEKS = 0 /\ d <= t /\ t < d + TWO_WEEKS
  <2>1. d % TWO_WEEKS = 0
    BY <1>0, <1>1, Multiples
  <2> QED BY <1>0, <1>1, <2>1
<1> HIDE DEF d
<1>3. d = LockDate(t)
  <2> HIDE DEF t
  <2> QED BY <1>2, LockDateIs
<1> QED BY <1>3 DEF LatestLock, d

\* A date of the book is its own lock date, and a lock date in reach is in it.
LEMMA DatesAreLockDates ==
    /\ \A d \in Dates : d \in Nat /\ d % TWO_WEEKS = 0 /\ LockDate(d) = d
    /\ \A t \in Nat : t <= MaxTime + MAX_DURATION => LockDate(t) \in Dates
<1>0. TWO_WEEKS \in Nat \ {0} /\ MAX_DURATION \in Nat /\ MaxTime \in Nat
  BY StakingAssumption
<1>1. ASSUME NEW d \in Dates
      PROVE  d \in Nat /\ d % TWO_WEEKS = 0 /\ LockDate(d) = d
  <2>1. d \in Nat /\ d % TWO_WEEKS = 0 /\ d <= d /\ d < d + TWO_WEEKS
    BY <1>0 DEF Dates
  <2> QED BY <2>1, LockDateIs
<1>2. ASSUME NEW t \in Nat, t <= MaxTime + MAX_DURATION
      PROVE  LockDate(t) \in Dates
  BY <1>0, <1>2, LockDateIs DEF Dates
<1> QED BY <1>1, <1>2

-----------------------------------------------------------------------------
(* The figures of a page: what its accounts have staked, and what is       *)
(* delegated to its delegatees.                                            *)

Stakes(p) == [a \in Accounts |-> LastStake(p.staked[a])]
Votes(p)  == [x \in Delegatees |-> LastStake(p.delegated[x])]

\* What of the stakes s account a gives to x when y(a) is its delegatee.
Share(s, y, a, x) == IF y[a] = x /\ x # NoAddress THEN s[a] ELSE 0
Shares(s, y, x)   == [a \in Accounts |-> Share(s, y, a, x)]

PageAddsUp(p) ==
    /\ LastStake(p.total) = SumFunctionOnSet(Stakes(p), Accounts)
    /\ LastStake(p.vested) = SumFunctionOnSet(Stakes(p), Vestings)
    /\ \A x \in Delegatees :
          Votes(p)[x] = SumFunctionOnSet(Shares(Stakes(p), p.delegates, x), Accounts)
    /\ \A a \in Accounts : Stakes(p)[a] > 0 => p.delegates[a] # NoAddress

\* Page q is p with account a's stake booked anew as n, delegated to y.
Rebooked(p, q, a, n, y) ==
    /\ n \in Nat /\ y \in Delegatees
    /\ n > 0 => y # NoAddress
    /\ q \in Pages
    /\ Stakes(q) = [Stakes(p) EXCEPT ![a] = n]
    /\ q.delegates = [p.delegates EXCEPT ![a] = y]
    /\ LastStake(q.total) = LastStake(p.total) - Stakes(p)[a] + n
    /\ LastStake(q.vested) =
           IF a \in Vestings THEN LastStake(p.vested) - Stakes(p)[a] + n
           ELSE LastStake(p.vested)
    /\ \A x \in Delegatees :
          Votes(q)[x] = Votes(p)[x] - Share(Stakes(p), p.delegates, a, x)
                                    + Share(Stakes(q), q.delegates, a, x)

\* The figures are numbers.
LEMMA FiguresAreNumbers ==
    ASSUME NEW p \in Pages
    PROVE  /\ Stakes(p) \in [Accounts -> Nat] /\ Votes(p) \in [Delegatees -> Nat]
           /\ LastStake(p.total) \in Nat /\ LastStake(p.vested) \in Nat
           /\ p.delegates \in [Accounts -> Delegatees]
BY PageStakes DEF Stakes, Votes, Pages

LEMMA FiniteBook ==
    /\ IsFiniteSet(Accounts) /\ IsFiniteSet(Vestings) /\ IsFiniteSet(Delegatees)
    /\ IsFiniteSet(Dates) /\ Vestings \subseteq Accounts
<1>1. IsFiniteSet(Accounts)
  BY BookAssumption, FS_Union DEF Accounts
<1> QED BY <1>1, BookAssumption, DatesFinite DEF Accounts

\* Booking one account anew keeps the page in balance.
LEMMA RebookedAddsUp ==
    ASSUME NEW p \in Pages, PageAddsUp(p), NEW a \in Accounts, NEW n, NEW y,
           NEW q, Rebooked(p, q, a, n, y)
    PROVE  PageAddsUp(q)
<1> DEFINE s == Stakes(p)
           t == Stakes(q)
<1>1. q \in Pages /\ n \in Nat /\ y \in Delegatees
  BY DEF Rebooked
<1>2. s \in [Accounts -> Nat] /\ t \in [Accounts -> Nat] /\ t = [s EXCEPT ![a] = n]
      /\ p.delegates \in [Accounts -> Delegatees]
      /\ q.delegates = [p.delegates EXCEPT ![a] = y]
  BY <1>1, FiguresAreNumbers DEF Rebooked
<1> HIDE DEF s, t
<1>3. /\ \A b \in Accounts : s[b] \in Int
      /\ t[a] = n /\ t[a] \in Int /\ \A b \in Accounts \ {a} : t[b] = s[b]
  BY <1>1, <1>2
<1>4. SumFunctionOnSet(t, Accounts) = SumFunctionOnSet(s, Accounts) - s[a] + t[a]
  BY <1>3, FiniteBook, SumChange
<1>5. LastStake(q.total) = SumFunctionOnSet(t, Accounts)
  BY <1>3, <1>4 DEF Rebooked, PageAddsUp, s
<1>6. LastStake(q.vested) = SumFunctionOnSet(t, Vestings)
  <2>1. CASE a \in Vestings
    <3>1. \A b \in Vestings : s[b] \in Int
      BY <1>3, FiniteBook
    <3>2. \A b \in Vestings \ {a} : t[b] = s[b]
      BY <1>3, FiniteBook
    <3>3. SumFunctionOnSet(t, Vestings) = SumFunctionOnSet(s, Vestings) - s[a] + t[a]
      BY <1>3, <2>1, <3>1, <3>2, FiniteBook, SumChange
    <3> QED BY <1>3, <2>1, <3>3 DEF Rebooked, PageAddsUp, s
  <2>2. CASE a \notin Vestings
    <3>1. \A b \in Vestings : s[b] \in Int /\ s[b] = t[b]
      BY <1>3, <2>2, FiniteBook
    <3>2. SumFunctionOnSet(s, Vestings) = SumFunctionOnSet(t, Vestings)
      BY <3>1, FiniteBook, SumSame
    <3> QED BY <2>2, <3>2 DEF Rebooked, PageAddsUp, s
  <2> QED BY <2>1, <2>2
<1>7. ASSUME NEW x \in Delegatees
      PROVE  Votes(q)[x] = SumFunctionOnSet(Shares(t, q.delegates, x), Accounts)
  <2> DEFINE f == Shares(s, p.delegates, x)
             g == Shares(t, q.delegates, x)
  <2>1. /\ \A b \in Accounts : f[b] \in Int
        /\ f[a] = Share(s, p.delegates, a, x) /\ g[a] = Share(t, q.delegates, a, x)
        /\ g[a] \in Int
    BY <1>3 DEF Shares, Share
  <2>2. \A b \in Accounts \ {a} : g[b] = f[b]
    BY <1>2, <1>3 DEF Shares, Share
  <2> HIDE DEF f, g
  <2>3. SumFunctionOnSet(g, Accounts) = SumFunctionOnSet(f, Accounts) - f[a] + g[a]
    BY <2>1, <2>2, FiniteBook, SumChange
  <2>4. Votes(p)[x] = SumFunctionOnSet(f, Accounts)
    BY DEF PageAddsUp, f, s
  <2>5. Votes(q)[x] = Votes(p)[x] - f[a] + g[a]
    BY <2>1 DEF Rebooked, s, t
  <2> QED BY <2>3, <2>4, <2>5 DEF g
<1>8. ASSUME NEW b \in Accounts, t[b] > 0
      PROVE  q.delegates[b] # NoAddress
  <2>1. CASE b = a
    BY <1>2, <1>3, <1>8, <2>1 DEF Rebooked
  <2>2. CASE b # a
    BY <1>2, <1>3, <1>8, <2>2 DEF PageAddsUp, s
  <2> QED BY <2>1, <2>2
<1> QED BY <1>5, <1>6, <1>7, <1>8 DEF PageAddsUp, t

\* A page in balance has what it is asked to give: an account's stake is
\* covered by the total and by its delegatee's votes, and address(0) has none.
LEMMA StakesAreCovered ==
    ASSUME NEW p \in Pages, PageAddsUp(p), NEW a \in Accounts
    PROVE  /\ Stakes(p)[a] <= LastStake(p.total)
           /\ a \in Vestings => Stakes(p)[a] <= LastStake(p.vested)
           /\ Stakes(p)[a] <= Votes(p)[p.delegates[a]]
           /\ Votes(p)[NoAddress] = 0
<1> DEFINE s == Stakes(p)
           x == p.delegates[a]
<1>1. s \in [Accounts -> Nat] /\ x \in Delegatees /\ NoAddress \in Delegatees
  BY FiguresAreNumbers, StakingAssumption
<1>2. s[a] <= LastStake(p.total)
  BY <1>1, FiniteBook, SumOfNats DEF PageAddsUp
<1>3. ASSUME a \in Vestings
      PROVE  s[a] <= LastStake(p.vested)
  <2>1. \A b \in Vestings : s[b] \in Nat
    BY <1>1, FiniteBook
  <2> HIDE DEF s
  <2>2. s[a] <= SumFunctionOnSet(s, Vestings)
    BY <1>3, <2>1, FiniteBook, SumOfNats
  <2> QED BY <2>2 DEF PageAddsUp, s
<1>4. Votes(p)[NoAddress] = 0
  <2> DEFINE f == Shares(s, p.delegates, NoAddress)
  <2>1. \A b \in Accounts : f[b] = 0
    BY DEF Shares, Share
  <2> HIDE DEF f
  <2>2. SumFunctionOnSet(f, Accounts) = 0
    BY <2>1, FiniteBook, SumZero
  <2> QED BY <1>1, <2>2 DEF PageAddsUp, f
<1>5. s[a] <= Votes(p)[x]
  <2>1. CASE x = NoAddress
    <3>1. ~ (s[a] > 0)
      BY <2>1 DEF PageAddsUp
    <3> QED BY <1>1, <1>4, <2>1, <3>1
  <2>2. CASE x # NoAddress
    <3> DEFINE f == Shares(s, p.delegates, x)
    <3>1. f[a] = s[a] /\ \A b \in Accounts : f[b] \in Nat
      BY <1>1, <2>2 DEF Shares, Share
    <3> HIDE DEF f
    <3>2. f[a] <= SumFunctionOnSet(f, Accounts)
      BY <3>1, FiniteBook, SumOfNats
    <3> QED BY <1>1, <3>1, <3>2 DEF PageAddsUp, f
  <2> QED BY <2>1, <2>2
<1> QED BY <1>2, <1>3, <1>4, <1>5

-----------------------------------------------------------------------------
(* What the operations do to the figures. *)

\* The last stake is the one written.
LEMMA LastWritten ==
    ASSUME NEW h \in Histories, NEW b \in Nat, NEW s \in Nat
    PROVE  LastStake(Write(h, b, s)) = s
<1> DEFINE g == Write(h, b, s)
<1>1. /\ Len(g) \in Nat \ {0} /\ DOMAIN g = 1..Len(g)
      /\ g[Len(g)] = [fromBlock |-> b, stake |-> s]
  BY WriteResult
<1>2. g \in Histories
  BY WriteType
<1> HIDE DEF g
<1>3. g # <<>>
  BY <1>1, <1>2 DEF Histories
<1> QED BY <1>1, <1>3 DEF LastStake, g

\* Page q is p with i in total, j of account a and k of the vesting contracts.
StakePut(p, q, a, i, j, k) ==
    /\ q \in Pages
    /\ LastStake(q.total) = i /\ LastStake(q.vested) = k
    /\ Stakes(q) = [Stakes(p) EXCEPT ![a] = j]
    /\ Votes(q) = Votes(p) /\ q.delegates = p.delegates

LEMMA PutStakeFigures ==
    ASSUME block \in Nat, NEW p \in Pages, NEW a \in Accounts,
           NEW i \in Nat, NEW j \in Nat, NEW v \in Histories
    PROVE  StakePut(p, PutStake(p, a, Write(p.total, block, i),
                                Write(p.staked[a], block, j), v), a, i, j, LastStake(v))
<1> DEFINE t == Write(p.total, block, i)
           s == Write(p.staked[a], block, j)
           q == PutStake(p, a, t, s, v)
<1>1. t \in Histories /\ s \in Histories
  BY PageShape, WriteType
<1>2. LastStake(t) = i /\ LastStake(s) = j
  BY PageShape, LastWritten
<1> HIDE DEF t, s
<1>3. /\ q \in Pages
      /\ q.total = t /\ q.vested = v
      /\ q.staked = [p.staked EXCEPT ![a] = s]
      /\ q.delegated = p.delegated /\ q.delegates = p.delegates
  BY <1>1, PutStakeResult
<1> HIDE DEF q
<1>4. \A b \in Accounts : q.staked[b] = IF b = a THEN s ELSE p.staked[b]
  BY <1>3 DEF Pages
<1>5. Stakes(q) = [Stakes(p) EXCEPT ![a] = j]
  BY <1>2, <1>4 DEF Stakes
<1>6. Votes(q) = Votes(p)
  BY <1>3 DEF Votes
<1> QED BY <1>2, <1>3, <1>5, <1>6 DEF q, t, s, StakePut

LEMMA IncreaseStakeFigures ==
    ASSUME block \in Nat, NEW p \in Pages, NEW a \in Accounts, NEW n \in Nat
    PROVE  LET q == IncreaseStake(p, a, n)
           IN  /\ q \in Pages
               /\ LastStake(q.total) = LastStake(p.total) + n
               /\ LastStake(q.vested) = IF a \in Vestings THEN LastStake(p.vested) + n
                                        ELSE LastStake(p.vested)
               /\ Stakes(q) = [Stakes(p) EXCEPT ![a] = Stakes(p)[a] + n]
               /\ Votes(q) = Votes(p) /\ q.delegates = p.delegates
<1> DEFINE i == LastStake(p.total) + n
           j == LastStake(p.staked[a]) + n
           k == IF a \in Vestings THEN LastStake(p.vested) + n ELSE LastStake(p.vested)
           v == IF a \in Vestings THEN Write(p.vested, block, k) ELSE p.vested
<1>1. i \in Nat /\ j \in Nat /\ k \in Nat /\ j = Stakes(p)[a] + n
  BY PageStakes DEF Stakes
<1>2. v \in Histories /\ LastStake(v) = k
  BY <1>1, PageShape, WriteType, LastWritten
<1>3. IncreaseStake(p, a, n) =
          PutStake(p, a, Write(p.total, block, i), Write(p.staked[a], block, j), v)
  BY DEF IncreaseStake, PutStake, Increase
<1> HIDE DEF v, i, j, k
<1>4. StakePut(p, PutStake(p, a, Write(p.total, block, i), Write(p.staked[a], block, j), v),
               a, i, j, LastStake(v))
  BY <1>1, <1>2, PutStakeFigures
<1>5. StakePut(p, IncreaseStake(p, a, n), a, i, j, k)
  BY <1>2, <1>3, <1>4
<1> QED BY <1>1, <1>5 DEF StakePut, i, k

LEMMA DecreaseStakeFigures ==
    ASSUME block \in Nat, NEW p \in Pages, NEW a \in Accounts, NEW n \in Nat,
           CanDecrease(p, a, n)
    PROVE  LET q == DecreaseStake(p, a, n)
           IN  /\ q \in Pages
               /\ LastStake(q.total) = LastStake(p.total) - n
               /\ LastStake(q.vested) = IF a \in Vestings THEN LastStake(p.vested) - n
                                        ELSE LastStake(p.vested)
               /\ Stakes(q) = [Stakes(p) EXCEPT ![a] = Stakes(p)[a] - n]
               /\ Stakes(p)[a] - n \in Nat
               /\ Votes(q) = Votes(p) /\ q.delegates = p.delegates
<1> DEFINE i == LastStake(p.total) - n
           j == LastStake(p.staked[a]) - n
           k == IF a \in Vestings THEN LastStake(p.vested) - n ELSE LastStake(p.vested)
           v == IF a \in Vestings THEN Write(p.vested, block, k) ELSE p.vested
<1>1. i \in Nat /\ j \in Nat /\ k \in Nat /\ j = Stakes(p)[a] - n
  BY PageStakes DEF Stakes, CanDecrease
<1>2. v \in Histories /\ LastStake(v) = k
  BY <1>1, PageShape, WriteType, LastWritten
<1>3. DecreaseStake(p, a, n) =
          PutStake(p, a, Write(p.total, block, i), Write(p.staked[a], block, j), v)
  BY DEF DecreaseStake, PutStake, Decrease
<1> HIDE DEF v, i, j, k
<1>4. StakePut(p, PutStake(p, a, Write(p.total, block, i), Write(p.staked[a], block, j), v),
               a, i, j, LastStake(v))
  BY <1>1, <1>2, PutStakeFigures
<1>5. StakePut(p, DecreaseStake(p, a, n), a, i, j, k)
  BY <1>2, <1>3, <1>4
<1> QED BY <1>1, <1>5 DEF StakePut, i, k

\* What does not touch the delegated stakes of a page leaves its other figures.
SameStakes(p, q) ==
    /\ q \in Pages
    /\ LastStake(q.total) = LastStake(p.total) /\ LastStake(q.vested) = LastStake(p.vested)
    /\ Stakes(q) = Stakes(p)

LEMMA WriteDelegatedFigures ==
    ASSUME block \in Nat, NEW p \in Pages, NEW x \in Delegatees, NEW n \in Nat
    PROVE  LET q == [p EXCEPT !.delegated[x] = Write(p.delegated[x], block, n)]
           IN  /\ SameStakes(p, q) /\ q.delegates = p.delegates
               /\ Votes(q) = [Votes(p) EXCEPT ![x] = n]
<1> DEFINE g == Write(p.delegated[x], block, n)
           q == [p EXCEPT !.delegated[x] = g]
<1>1. g \in Histories /\ LastStake(g) = n
  BY PageShape, WriteType, LastWritten
<1> HIDE DEF g
<1>2. q \in Pages
  BY <1>1 DEF Pages
<1>3. q.total = p.total /\ q.vested = p.vested
  BY DEF Pages
<1>4. q.staked = p.staked /\ q.delegates = p.delegates
  BY DEF Pages
<1>5. q.delegated = [p.delegated EXCEPT ![x] = g]
  BY DEF Pages
<1> HIDE DEF q
<1>6. \A y \in Delegatees : q.delegated[y] = IF y = x THEN g ELSE p.delegated[y]
  BY <1>5 DEF Pages
<1>7. Votes(q) = [Votes(p) EXCEPT ![x] = n]
  BY <1>1, <1>6 DEF Votes
<1>8. SameStakes(p, q)
  BY <1>2, <1>3, <1>4 DEF SameStakes, Stakes
<1> QED BY <1>4, <1>7, <1>8 DEF q, g

LEMMA IncreaseDelegateFigures ==
    ASSUME block \in Nat, NEW p \in Pages, NEW x \in Delegatees, NEW n \in Nat
    PROVE  LET q == IncreaseDelegate(p, x, n)
           IN  /\ SameStakes(p, q) /\ q.delegates = p.delegates
               /\ Votes(q) = [Votes(p) EXCEPT ![x] = Votes(p)[x] + n]
<1> DEFINE m == LastStake(p.delegated[x]) + n
<1>1. m \in Nat /\ m = Votes(p)[x] + n
  BY PageStakes DEF Votes
<1>2. IncreaseDelegate(p, x, n) = [p EXCEPT !.delegated[x] = Write(p.delegated[x], block, m)]
  BY DEF IncreaseDelegate, Increase
<1> HIDE DEF m
<1> QED BY <1>1, <1>2, WriteDelegatedFigures

LEMMA DecreaseDelegateFigures ==
    ASSUME block \in Nat, NEW p \in Pages, NEW x \in Delegatees, NEW n \in Nat,
           n <= Votes(p)[x]
    PROVE  LET q == DecreaseDelegate(p, x, n)
           IN  /\ SameStakes(p, q) /\ q.delegates = p.delegates
               /\ Votes(q) = [Votes(p) EXCEPT ![x] = Votes(p)[x] - n]
<1> DEFINE m == IF LastStake(p.delegated[x]) > n THEN LastStake(p.delegated[x]) - n ELSE 0
<1>1. m \in Nat /\ m = Votes(p)[x] - n
  BY PageStakes DEF Votes
<1>2. DecreaseDelegate(p, x, n) = [p EXCEPT !.delegated[x] = Write(p.delegated[x], block, m)]
  BY DEF DecreaseDelegate
<1> HIDE DEF m
<1> QED BY <1>1, <1>2, WriteDelegatedFigures

LEMMA NameDelegateFigures ==
    ASSUME NEW p \in Pages, NEW a \in Accounts, NEW x \in Delegatees
    PROVE  LET q == [p EXCEPT !.delegates[a] = x]
           IN  /\ SameStakes(p, q) /\ Votes(q) = Votes(p)
               /\ q.delegates = [p.delegates EXCEPT ![a] = x]
<1> DEFINE q == [p EXCEPT !.delegates[a] = x]
<1>1. q \in Pages
  BY DEF Pages
<1>2. q.total = p.total /\ q.vested = p.vested
  BY DEF Pages
<1>3. q.staked = p.staked /\ q.delegated = p.delegated
  BY DEF Pages
<1>4. q.delegates = [p.delegates EXCEPT ![a] = x]
  BY DEF Pages
<1> HIDE DEF q
<1>5. SameStakes(p, q) /\ Votes(q) = Votes(p)
  BY <1>1, <1>2, <1>3 DEF SameStakes, Stakes, Votes
<1> QED BY <1>4, <1>5 DEF q

\* Moving a delegated stake takes what was given before and gives what is given now.
LEMMA RedelegateFigures ==
    ASSUME block \in Nat, NEW p \in Pages, NEW a \in Accounts, NEW x \in Delegatees,
           NEW m \in Nat, NEW n \in Nat, m <= Votes(p)[p.delegates[a]],
           p.delegates[a] # x
    PROVE  LET q == Redelegate(p, a, x, m, n)
           IN  /\ SameStakes(p, q)
               /\ q.delegates = [p.delegates EXCEPT ![a] = x]
               /\ \A y \in Delegatees :
                     Votes(q)[y] = IF y = x THEN Votes(p)[y] + n
                                   ELSE IF y = p.delegates[a] THEN Votes(p)[y] - m
                                   ELSE Votes(p)[y]
<1> DEFINE old == p.delegates[a]
           q == [p EXCEPT !.delegates[a] = x]
           r == DecreaseDelegate(q, old, m)
           z == IncreaseDelegate(r, x, n)
<1>1. Redelegate(p, a, x, m, n) = z /\ old \in Delegatees
  BY FiguresAreNumbers DEF Redelegate
<1>2. /\ SameStakes(p, q) /\ Votes(q) = Votes(p)
      /\ q.delegates = [p.delegates EXCEPT ![a] = x]
  BY NameDelegateFigures
<1> HIDE DEF q, old
<1>3. /\ SameStakes(q, r) /\ r.delegates = q.delegates
      /\ Votes(r) = [Votes(q) EXCEPT ![old] = Votes(q)[old] - m]
  BY <1>1, <1>2, DecreaseDelegateFigures DEF SameStakes, old
<1> HIDE DEF r
<1>4. /\ SameStakes(r, z) /\ z.delegates = r.delegates
      /\ Votes(z) = [Votes(r) EXCEPT ![x] = Votes(r)[x] + n]
  <2>1. r \in Pages
    BY <1>3 DEF SameStakes
  <2> QED BY <2>1, IncreaseDelegateFigures
<1> HIDE DEF z
<1>5. SameStakes(p, z)
  BY <1>2, <1>3, <1>4 DEF SameStakes
<1>6. Votes(p) \in [Delegatees -> Nat]
  BY FiguresAreNumbers
<1>7. \A y \in Delegatees :
          Votes(z)[y] = IF y = x THEN Votes(p)[y] + n
                        ELSE IF y = old THEN Votes(p)[y] - m
                        ELSE Votes(p)[y]
  <2>1. old # x
    BY DEF old
  <2> QED BY <1>1, <1>2, <1>3, <1>4, <1>6, <2>1
<1> QED BY <1>1, <1>2, <1>3, <1>4, <1>5, <1>7 DEF old

-----------------------------------------------------------------------------
(* Every operation on a page books one account anew. *)

\* A stake at a lock date.
LEMMA StakeOnPageRebooks ==
    ASSUME block \in Nat, NEW p \in Pages, PageAddsUp(p), NEW a \in Accounts,
           NEW n \in Nat, NEW x \in Named
    PROVE  Rebooked(p, StakeOnPage(p, a, n, x), a, Stakes(p)[a] + n, x)
<1> DEFINE g == IncreaseStake(p, a, n)
           s == Stakes(p)[a]
           q == StakeOnPage(p, a, n, x)
<1>0. /\ x \in Delegatees /\ x # NoAddress /\ s \in Nat /\ s + n \in Nat
      /\ Stakes(p) \in [Accounts -> Nat] /\ Votes(p) \in [Delegatees -> Nat]
      /\ LastStake(p.total) \in Nat /\ LastStake(p.vested) \in Nat
      /\ p.delegates \in [Accounts -> Delegatees]
  BY FiguresAreNumbers DEF Named
<1>1. /\ g \in Pages
      /\ LastStake(g.total) = LastStake(p.total) + n
      /\ LastStake(g.vested) = IF a \in Vestings THEN LastStake(p.vested) + n
                               ELSE LastStake(p.vested)
      /\ Stakes(g) = [Stakes(p) EXCEPT ![a] = s + n]
      /\ Votes(g) = Votes(p) /\ g.delegates = p.delegates
  BY IncreaseStakeFigures
<1>2. s <= Votes(p)[p.delegates[a]]
      /\ (p.delegates[a] = NoAddress => s = 0)
  <2>1. p.delegates[a] = NoAddress => ~ (s > 0)
    BY DEF PageAddsUp
  <2> QED BY <1>0, <2>1, StakesAreCovered
<1>3. q = IF p.delegates[a] = x THEN IncreaseDelegate(g, x, n)
          ELSE Redelegate(g, a, x, s, s + n)
  BY DEF StakeOnPage, Stakes
<1> HIDE DEF g, q, s
<1>4. /\ SameStakes(g, q)
      /\ q.delegates = [p.delegates EXCEPT ![a] = x]
      /\ \A y \in Delegatees :
            Votes(q)[y] = Votes(p)[y] - (IF y = p.delegates[a] /\ y # NoAddress THEN s ELSE 0)
                                      + (IF y = x THEN s + n ELSE 0)
  <2>1. CASE p.delegates[a] = x
    <3>1. /\ SameStakes(g, q) /\ q.delegates = g.delegates
          /\ Votes(q) = [Votes(g) EXCEPT ![x] = Votes(g)[x] + n]
      BY <1>0, <1>1, <1>3, <2>1, IncreaseDelegateFigures
    <3>2. q.delegates = [p.delegates EXCEPT ![a] = x]
      BY <1>0, <1>1, <2>1, <3>1
    <3> QED BY <1>0, <1>1, <2>1, <3>1, <3>2
  <2>2. CASE p.delegates[a] # x
    <3>1. /\ SameStakes(g, q)
          /\ q.delegates = [g.delegates EXCEPT ![a] = x]
          /\ \A y \in Delegatees :
                Votes(q)[y] = IF y = x THEN Votes(g)[y] + (s + n)
                              ELSE IF y = g.delegates[a] THEN Votes(g)[y] - s
                              ELSE Votes(g)[y]
      BY <1>0, <1>1, <1>2, <1>3, <2>2, RedelegateFigures
    <3> QED BY <1>0, <1>1, <1>2, <2>2, <3>1
  <2> QED BY <2>1, <2>2
<1>5. /\ Stakes(q) = [Stakes(p) EXCEPT ![a] = s + n]
      /\ LastStake(q.total) = LastStake(p.total) - Stakes(p)[a] + (s + n)
      /\ LastStake(q.vested) =
             IF a \in Vestings THEN LastStake(p.vested) - Stakes(p)[a] + (s + n)
             ELSE LastStake(p.vested)
      /\ q \in Pages
  BY <1>0, <1>1, <1>4 DEF SameStakes, s
<1>6. ASSUME NEW y \in Delegatees
      PROVE  Votes(q)[y] = Votes(p)[y] - Share(Stakes(p), p.delegates, a, y)
                                       + Share(Stakes(q), q.delegates, a, y)
  <2>1. Share(Stakes(p), p.delegates, a, y) =
            IF y = p.delegates[a] /\ y # NoAddress THEN s ELSE 0
    BY DEF Share, s
  <2>2. Share(Stakes(q), q.delegates, a, y) = IF y = x THEN s + n ELSE 0
    BY <1>0, <1>4, <1>5 DEF Share
  <2> QED BY <1>4, <2>1, <2>2
<1> QED BY <1>0, <1>4, <1>5, <1>6 DEF Rebooked, q, s

\* A withdrawal, whoever the stake is delegated to.
LEMMA WithdrawRebooks ==
    ASSUME block \in Nat, NEW p \in Pages, PageAddsUp(p), NEW a \in Accounts,
           NEW n \in Nat, CanDecrease(p, a, n)
    PROVE  Rebooked(p, WithdrawFromPage(p, a, n), a, Stakes(p)[a] - n, p.delegates[a])
<1> DEFINE g == DecreaseStake(p, a, n)
           s == Stakes(p)[a]
           x == p.delegates[a]
           q == WithdrawFromPage(p, a, n)
<1>0. /\ x \in Delegatees /\ s \in Nat
      /\ Stakes(p) \in [Accounts -> Nat] /\ Votes(p) \in [Delegatees -> Nat]
      /\ LastStake(p.total) \in Nat /\ LastStake(p.vested) \in Nat
      /\ p.delegates \in [Accounts -> Delegatees]
  BY FiguresAreNumbers
<1>1. /\ g \in Pages
      /\ LastStake(g.total) = LastStake(p.total) - n
      /\ LastStake(g.vested) = IF a \in Vestings THEN LastStake(p.vested) - n
                               ELSE LastStake(p.vested)
      /\ Stakes(g) = [Stakes(p) EXCEPT ![a] = s - n]
      /\ s - n \in Nat
      /\ Votes(g) = Votes(p) /\ g.delegates = p.delegates
  BY DecreaseStakeFigures
<1>2. /\ s <= Votes(p)[x]
      /\ x = NoAddress => s = 0
  <2>1. x = NoAddress => ~ (s > 0)
    BY DEF PageAddsUp
  <2> QED BY <1>0, <2>1, StakesAreCovered
<1>3. q = DecreaseDelegate(g, x, n)
  BY DEF WithdrawFromPage
<1> HIDE DEF g, q, s, x
<1>4. n <= Votes(g)[x]
  BY <1>0, <1>1, <1>2
<1>5. /\ SameStakes(g, q) /\ q.delegates = g.delegates
      /\ Votes(q) = [Votes(g) EXCEPT ![x] = Votes(g)[x] - n]
  BY <1>0, <1>1, <1>3, <1>4, DecreaseDelegateFigures
<1>6. /\ Stakes(q) = [Stakes(p) EXCEPT ![a] = s - n]
      /\ LastStake(q.total) = LastStake(p.total) - Stakes(p)[a] + (s - n)
      /\ LastStake(q.vested) =
             IF a \in Vestings THEN LastStake(p.vested) - Stakes(p)[a] + (s - n)
             ELSE LastStake(p.vested)
      /\ q \in Pages
  BY <1>0, <1>1, <1>5 DEF SameStakes, s
<1>7. q.delegates = [p.delegates EXCEPT ![a] = x]
  BY <1>0, <1>1, <1>5 DEF x
<1>8. ASSUME NEW y \in Delegatees
      PROVE  Votes(q)[y] = Votes(p)[y] - Share(Stakes(p), p.delegates, a, y)
                                       + Share(Stakes(q), q.delegates, a, y)
  <2>1. Share(Stakes(p), p.delegates, a, y) = IF y = x /\ y # NoAddress THEN s ELSE 0
    BY DEF Share, s, x
  <2>2. Share(Stakes(q), q.delegates, a, y) = IF y = x /\ y # NoAddress THEN s - n ELSE 0
    BY <1>0, <1>6, <1>7 DEF Share
  <2>3. Votes(q)[y] = IF y = x THEN Votes(p)[y] - n ELSE Votes(p)[y]
    BY <1>0, <1>1, <1>5
  <2> QED BY <1>0, <1>1, <1>2, <2>1, <2>2, <2>3
<1>9. s - n > 0 => x # NoAddress
  BY <1>0, <1>1, <1>2
<1> QED BY <1>0, <1>1, <1>6, <1>7, <1>8, <1>9 DEF Rebooked, q, s, x

\* The page an extension leaves.
LEMMA MoveOutRebooks ==
    ASSUME block \in Nat, NEW p \in Pages, PageAddsUp(p), NEW a \in Accounts,
           NEW n \in Nat, n = Stakes(p)[a]
    PROVE  Rebooked(p, DecreaseDelegate([DecreaseStake(p, a, n) EXCEPT !.delegates[a] = NoAddress],
                                        p.delegates[a], n),
                    a, 0, NoAddress)
<1> DEFINE g == DecreaseStake(p, a, n)
           x == p.delegates[a]
           r == [g EXCEPT !.delegates[a] = NoAddress]
           q == DecreaseDelegate(r, x, n)
<1>0. /\ x \in Delegatees /\ NoAddress \in Delegatees
      /\ Stakes(p) \in [Accounts -> Nat] /\ Votes(p) \in [Delegatees -> Nat]
      /\ LastStake(p.total) \in Nat /\ LastStake(p.vested) \in Nat
      /\ p.delegates \in [Accounts -> Delegatees]
  BY FiguresAreNumbers, StakingAssumption
<1>1. /\ CanDecrease(p, a, n)
      /\ n <= Votes(p)[x]
      /\ x = NoAddress => n = 0
  <2>1. x = NoAddress => ~ (n > 0)
    BY DEF PageAddsUp
  <2>2. /\ LastStake(p.staked[a]) = n
        /\ n <= LastStake(p.total) /\ (a \in Vestings => n <= LastStake(p.vested))
        /\ n <= Votes(p)[x]
    BY StakesAreCovered DEF Stakes
  <2>3. CanDecrease(p, a, n)
    BY <1>0, <2>2 DEF CanDecrease
  <2> QED BY <1>0, <2>1, <2>2, <2>3
<1>2. /\ g \in Pages
      /\ LastStake(g.total) = LastStake(p.total) - n
      /\ LastStake(g.vested) = IF a \in Vestings THEN LastStake(p.vested) - n
                               ELSE LastStake(p.vested)
      /\ Stakes(g) = [Stakes(p) EXCEPT ![a] = Stakes(p)[a] - n]
      /\ Votes(g) = Votes(p) /\ g.delegates = p.delegates
  BY <1>1, DecreaseStakeFigures
<1> HIDE DEF g
<1>3. /\ SameStakes(g, r) /\ Votes(r) = Votes(g)
      /\ r.delegates = [g.delegates EXCEPT ![a] = NoAddress]
  BY <1>0, <1>2, NameDelegateFigures
<1> HIDE DEF r, x
<1>4. r \in Pages /\ n <= Votes(r)[x]
  BY <1>1, <1>2, <1>3 DEF SameStakes
<1>5. /\ SameStakes(r, q) /\ q.delegates = r.delegates
      /\ Votes(q) = [Votes(r) EXCEPT ![x] = Votes(r)[x] - n]
  BY <1>0, <1>4, DecreaseDelegateFigures
<1> HIDE DEF q
<1>6. /\ Stakes(q) = [Stakes(p) EXCEPT ![a] = 0]
      /\ LastStake(q.total) = LastStake(p.total) - Stakes(p)[a] + 0
      /\ LastStake(q.vested) =
             IF a \in Vestings THEN LastStake(p.vested) - Stakes(p)[a] + 0
             ELSE LastStake(p.vested)
      /\ q \in Pages
  <2>1. Stakes(q) = Stakes(g) /\ q \in Pages
        /\ LastStake(q.total) = LastStake(g.total) /\ LastStake(q.vested) = LastStake(g.vested)
    BY <1>3, <1>5 DEF SameStakes
  <2>2. Stakes(p)[a] - Stakes(p)[a] = 0
    BY <1>0
  <2>3. Stakes(g) = [Stakes(p) EXCEPT ![a] = 0]
    BY <1>2, <2>2
  <2>4. LastStake(p.total) - n + 0 = LastStake(p.total) - n
        /\ LastStake(p.vested) - n + 0 = LastStake(p.vested) - n
    BY <1>0
  <2> QED BY <1>2, <2>1, <2>3, <2>4
<1>7. q.delegates = [p.delegates EXCEPT ![a] = NoAddress]
  BY <1>2, <1>3, <1>5
<1>8. ASSUME NEW y \in Delegatees
      PROVE  Votes(q)[y] = Votes(p)[y] - Share(Stakes(p), p.delegates, a, y)
                                       + Share(Stakes(q), q.delegates, a, y)
  <2>1. Share(Stakes(p), p.delegates, a, y) = IF y = x /\ y # NoAddress THEN n ELSE 0
    BY DEF Share, x
  <2>2. Share(Stakes(q), q.delegates, a, y) = 0
    BY <1>0, <1>6, <1>7 DEF Share
  <2>3. Votes(q)[y] = IF y = x THEN Votes(p)[y] - n ELSE Votes(p)[y]
    BY <1>0, <1>2, <1>3, <1>5
  <2> QED BY <1>0, <1>1, <2>1, <2>2, <2>3
<1> QED BY <1>0, <1>6, <1>7, <1>8 DEF Rebooked, q, r, g, x

\* The page an extension comes to.
LEMMA MoveInRebooks ==
    ASSUME block \in Nat, NEW p \in Pages, PageAddsUp(p), NEW a \in Accounts,
           NEW n \in Nat, NEW x \in Named, p.delegates[a] \in {NoAddress, x}
    PROVE  Rebooked(p, IncreaseDelegate([IncreaseStake(p, a, n) EXCEPT !.delegates[a] = x], x, n),
                    a, Stakes(p)[a] + n, x)
<1> DEFINE g == IncreaseStake(p, a, n)
           s == Stakes(p)[a]
           r == [g EXCEPT !.delegates[a] = x]
           q == IncreaseDelegate(r, x, n)
<1>0. /\ x \in Delegatees /\ x # NoAddress /\ s \in Nat /\ s + n \in Nat
      /\ Stakes(p) \in [Accounts -> Nat] /\ Votes(p) \in [Delegatees -> Nat]
      /\ LastStake(p.total) \in Nat /\ LastStake(p.vested) \in Nat
      /\ p.delegates \in [Accounts -> Delegatees]
  BY FiguresAreNumbers DEF Named
<1>1. p.delegates[a] = NoAddress => s = 0
  <2>1. p.delegates[a] = NoAddress => ~ (s > 0)
    BY DEF PageAddsUp
  <2> QED BY <1>0, <2>1
<1>2. /\ g \in Pages
      /\ LastStake(g.total) = LastStake(p.total) + n
      /\ LastStake(g.vested) = IF a \in Vestings THEN LastStake(p.vested) + n
                               ELSE LastStake(p.vested)
      /\ Stakes(g) = [Stakes(p) EXCEPT ![a] = s + n]
      /\ Votes(g) = Votes(p) /\ g.delegates = p.delegates
  BY IncreaseStakeFigures
<1> HIDE DEF g, s
<1>3. /\ SameStakes(g, r) /\ Votes(r) = Votes(g)
      /\ r.delegates = [g.delegates EXCEPT ![a] = x]
  BY <1>0, <1>2, NameDelegateFigures
<1> HIDE DEF r
<1>4. r \in Pages
  BY <1>3 DEF SameStakes
<1>5. /\ SameStakes(r, q) /\ q.delegates = r.delegates
      /\ Votes(q) = [Votes(r) EXCEPT ![x] = Votes(r)[x] + n]
  BY <1>0, <1>4, IncreaseDelegateFigures
<1> HIDE DEF q
<1>6. /\ Stakes(q) = [Stakes(p) EXCEPT ![a] = s + n]
      /\ LastStake(q.total) = LastStake(p.total) - Stakes(p)[a] + (s + n)
      /\ LastStake(q.vested) =
             IF a \in Vestings THEN LastStake(p.vested) - Stakes(p)[a] + (s + n)
             ELSE LastStake(p.vested)
      /\ q \in Pages
  BY <1>0, <1>2, <1>3, <1>5 DEF SameStakes, s
<1>7. q.delegates = [p.delegates EXCEPT ![a] = x]
  BY <1>2, <1>3, <1>5
<1>8. ASSUME NEW y \in Delegatees
      PROVE  Votes(q)[y] = Votes(p)[y] - Share(Stakes(p), p.delegates, a, y)
                                       + Share(Stakes(q), q.delegates, a, y)
  <2>1. Share(Stakes(p), p.delegates, a, y) =
            IF y = p.delegates[a] /\ y # NoAddress THEN s ELSE 0
    BY DEF Share, s
  <2>2. Share(Stakes(q), q.delegates, a, y) = IF y = x THEN s + n ELSE 0
    BY <1>0, <1>6, <1>7 DEF Share
  <2>3. Votes(q)[y] = IF y = x THEN Votes(p)[y] + n ELSE Votes(p)[y]
    BY <1>0, <1>2, <1>3, <1>5
  <2> QED BY <1>0, <1>1, <2>1, <2>2, <2>3
<1> QED BY <1>0, <1>6, <1>7, <1>8 DEF Rebooked, q, r, g, s

\* Another delegatee for the whole stake.
LEMMA RedelegateRebooks ==
    ASSUME block \in Nat, NEW p \in Pages, PageAddsUp(p), NEW a \in Accounts,
           NEW n \in Nat, n = Stakes(p)[a], NEW x \in Named, p.delegates[a] # x
    PROVE  Rebooked(p, Redelegate(p, a, x, n, n), a, n, x)
<1> DEFINE q == Redelegate(p, a, x, n, n)
<1>0. /\ x \in Delegatees /\ x # NoAddress
      /\ Stakes(p) \in [Accounts -> Nat] /\ Votes(p) \in [Delegatees -> Nat]
      /\ LastStake(p.total) \in Nat /\ LastStake(p.vested) \in Nat
      /\ p.delegates \in [Accounts -> Delegatees]
  BY FiguresAreNumbers DEF Named
<1>1. /\ n <= Votes(p)[p.delegates[a]]
      /\ p.delegates[a] = NoAddress => n = 0
  <2>1. p.delegates[a] = NoAddress => ~ (n > 0)
    BY DEF PageAddsUp
  <2> QED BY <1>0, <2>1, StakesAreCovered
<1>2. /\ SameStakes(p, q)
      /\ q.delegates = [p.delegates EXCEPT ![a] = x]
      /\ \A y \in Delegatees :
            Votes(q)[y] = IF y = x THEN Votes(p)[y] + n
                          ELSE IF y = p.delegates[a] THEN Votes(p)[y] - n
                          ELSE Votes(p)[y]
  BY <1>0, <1>1, RedelegateFigures
<1> HIDE DEF q
<1>3. Stakes(q) = Stakes(p) /\ Stakes(p) = [Stakes(p) EXCEPT ![a] = n]
  BY <1>0, <1>2 DEF SameStakes
<1>4. ASSUME NEW y \in Delegatees
      PROVE  Votes(q)[y] = Votes(p)[y] - Share(Stakes(p), p.delegates, a, y)
                                       + Share(Stakes(q), q.delegates, a, y)
  <2>1. Share(Stakes(p), p.delegates, a, y) =
            IF y = p.delegates[a] /\ y # NoAddress THEN n ELSE 0
    BY DEF Share
  <2>2. Share(Stakes(q), q.delegates, a, y) = IF y = x THEN n ELSE 0
    BY <1>0, <1>2, <1>3 DEF Share
  <2> QED BY <1>0, <1>1, <1>2, <2>1, <2>2
<1> QED BY <1>0, <1>2, <1>3, <1>4 DEF Rebooked, SameStakes, q

-----------------------------------------------------------------------------
(* The book. *)

Totals(b) == [d \in Dates |-> LastStake(b[d].total)]
TotalOf(b) == SumFunctionOnSet(Totals(b), Dates)

\* A page is kept, or one account is booked anew; a stake grows in reach only.
MayChange(d, p, q) ==
    \/ q = p
    \/ \E a \in Accounts, n \in Nat, y \in Delegatees :
          /\ Rebooked(p, q, a, n, y)
          /\ n > Stakes(p)[a] => d <= LatestLock

\* What a transaction may do to the book, with so many tokens coming.
BookChanges(c, change) ==
    /\ \A d \in Dates : MayChange(d, book[d], c[d])
    /\ TotalOf(c) = TotalOf(book) + change

\* Every page is in balance, the tokens are those of all pages, and no stake
\* is out of reach.
BalanceInv ==
    /\ StakingInv
    /\ \A d \in Dates : PageAddsUp(book[d])
    /\ held = TotalOf(book)
    /\ StakesInReach
    /\ now <= MaxTime

\* The parts of the invariant in terms of a page.
LEMMA BalanceOfPage ==
    ASSUME BalanceInv, NEW d \in Dates
    PROVE  /\ block \in Nat \ {0} /\ now \in Nat
           /\ book[d] \in Pages /\ PageOK(book[d]) /\ PageAddsUp(book[d])
           /\ Totals(book)[d] \in Nat
           /\ \A a \in Accounts : Balance(d, a) = Stakes(book[d])[a]
<1>1. book[d] \in Pages
  BY DEF BalanceInv, StakingInv
<1> QED BY <1>1, FiguresAreNumbers DEF BalanceInv, StakingInv, Totals, Balance, Stakes

LEMMA TotalsAreNumbers ==
    ASSUME BalanceInv
    PROVE  /\ \A d \in Dates : Totals(book)[d] \in Int
           /\ TotalOf(book) \in Nat
<1>1. \A d \in Dates : Totals(book)[d] \in Nat
  BY BalanceOfPage
<1> QED BY <1>1, FiniteBook, SumOfNats DEF TotalOf

\* The latest lock date is a number not before today's.
LEMMA ReachIsNumber ==
    ASSUME now \in Nat
    PROVE  LatestLock \in Nat
<1>1. LockDate(now) \in Nat
  BY LockDateIs
<1> QED BY <1>1, LatestLockIs, StakingAssumption

\* Booking anew moves the total of the page by the difference.
LEMMA TotalMoves ==
    ASSUME NEW p \in Pages, NEW q, NEW a \in Accounts, NEW n, NEW y, Rebooked(p, q, a, n, y)
    PROVE  /\ LastStake(p.total) \in Nat /\ LastStake(q.total) \in Nat
           /\ Stakes(p)[a] \in Nat /\ n \in Nat
           /\ LastStake(q.total) = LastStake(p.total) + (n - Stakes(p)[a])
<1>1. q \in Pages /\ n \in Nat
  BY DEF Rebooked
<1>2. LastStake(p.total) \in Nat /\ LastStake(q.total) \in Nat /\ Stakes(p)[a] \in Nat
  BY <1>1, FiguresAreNumbers
<1> QED BY <1>1, <1>2 DEF Rebooked

\* One page changes.
LEMMA OneDateChanges ==
    ASSUME BalanceInv, NEW c, NEW d \in Dates, NEW k \in Int,
           LastStake(c[d].total) = LastStake(book[d].total) + k,
           \A e \in Dates \ {d} : c[e] = book[e]
    PROVE  TotalOf(c) = TotalOf(book) + k
<1> DEFINE f == Totals(book)
           g == Totals(c)
<1>1. f[d] \in Int /\ g[d] = f[d] + k /\ \A e \in Dates \ {d} : g[e] = f[e]
  BY TotalsAreNumbers DEF Totals
<1>2. \A e \in Dates : f[e] \in Int
  BY TotalsAreNumbers
<1> HIDE DEF f, g
<1>3. SumFunctionOnSet(g, Dates) = SumFunctionOnSet(f, Dates) - f[d] + g[d]
  BY <1>1, <1>2, FiniteBook, SumChange
<1>4. SumFunctionOnSet(f, Dates) \in Int
  BY <1>2, FiniteBook, SumType
<1> QED BY <1>1, <1>3, <1>4 DEF TotalOf, f, g

\* Two pages change.
LEMMA TwoDatesChange ==
    ASSUME BalanceInv, NEW c, NEW d \in Dates, NEW e \in Dates, d # e,
           NEW k \in Int, NEW l \in Int,
           LastStake(c[d].total) = LastStake(book[d].total) + k,
           LastStake(c[e].total) = LastStake(book[e].total) + l,
           \A i \in Dates \ {d, e} : c[i] = book[i]
    PROVE  TotalOf(c) = TotalOf(book) + (k + l)
<1> DEFINE f == Totals(book)
           h == [f EXCEPT ![d] = f[d] + k]
           g == Totals(c)
<1>1. \A i \in Dates : f[i] \in Int
  BY TotalsAreNumbers
<1>2. h[d] = f[d] + k /\ \A i \in Dates \ {d} : h[i] = f[i]
  BY DEF Totals
<1>3. g[d] = f[d] + k /\ g[e] = f[e] + l /\ \A i \in Dates \ {d, e} : g[i] = f[i]
  BY DEF Totals
<1> HIDE DEF f, g, h
<1>4. /\ \A i \in Dates : h[i] \in Int
      /\ g[e] = h[e] + l /\ g[e] \in Int /\ \A i \in Dates \ {e} : g[i] = h[i]
  BY <1>1, <1>2, <1>3
<1>5. SumFunctionOnSet(h, Dates) = SumFunctionOnSet(f, Dates) - f[d] + h[d]
  BY <1>1, <1>2, <1>4, FiniteBook, SumChange
<1>6. SumFunctionOnSet(g, Dates) = SumFunctionOnSet(h, Dates) - h[e] + g[e]
  BY <1>4, FiniteBook, SumChange
<1>7. SumFunctionOnSet(f, Dates) \in Int
  BY <1>1, FiniteBook, SumType
<1> QED BY <1>1, <1>2, <1>4, <1>5, <1>6, <1>7 DEF TotalOf, f, g

LEMMA StakeChanges ==
    ASSUME BalanceInv, NEW sender \in Accounts, NEW a \in Accounts, NEW x \in Named,
           NEW amount \in Amounts, NEW until \in Times, Stake(sender, amount, until, a, x)
    PROVE  BookChanges(book', amount)
<1> DEFINE d == Capped(LockDate(until))
           p == book[d]
           s == Stakes(p)[a]
           q == StakeOnPage(p, a, amount, x)
<1>0. amount \in Nat /\ until \in Nat /\ LockDate(until) \in Nat /\ x \in Delegatees
  BY StakingAssumption, LockDateIs DEF Named
<1>1. /\ d \in Dates
      /\ book' = [book EXCEPT ![d] = q]
  BY DEF Stake
<1>2. d <= LatestLock
  BY <1>0, ReachIsNumber DEF Capped, BalanceInv, StakingInv
<1> HIDE DEF d
<1>3. book \in [Dates -> Pages] /\ p \in Pages /\ PageAddsUp(p) /\ block \in Nat
  BY <1>1, BalanceOfPage DEF BalanceInv, StakingInv
<1>4. Rebooked(p, q, a, s + amount, x)
  BY <1>0, <1>3, StakeOnPageRebooks
<1> HIDE DEF p, q
<1>5. s \in Nat /\ LastStake(p.total) \in Nat
      /\ LastStake(q.total) = LastStake(p.total) + (s + amount - s)
  <2> DEFINE n == s + amount
  <2>1. Rebooked(p, q, a, n, x)
    BY <1>4
  <2> HIDE DEF n
  <2>2. Stakes(p)[a] \in Nat /\ LastStake(p.total) \in Nat
        /\ LastStake(q.total) = LastStake(p.total) + (n - Stakes(p)[a])
    BY <1>3, <2>1, TotalMoves
  <2> QED BY <1>0, <2>2 DEF n
<1>6. book'[d] = q /\ \A e \in Dates \ {d} : book'[e] = book[e]
  BY <1>1, <1>3
<1>7. TotalOf(book') = TotalOf(book) + amount
  <2>1. LastStake(book'[d].total) = LastStake(book[d].total) + amount
    <3>1. s + amount - s = amount
      BY <1>0, <1>5
    <3> QED BY <1>5, <1>6, <3>1 DEF p
  <2>2. amount \in Int /\ d \in Dates
    BY <1>0, <1>1
  <2> HIDE DEF s
  <2> QED BY <1>6, <2>1, <2>2, OneDateChanges
<1>8. \A e \in Dates : MayChange(e, book[e], book'[e])
  <2>1. MayChange(d, p, q)
    <3>1. s + amount \in Nat
      BY <1>0, <1>5
    <3> HIDE DEF s
    <3> QED BY <1>0, <1>2, <1>4, <3>1 DEF MayChange
  <2> QED BY <1>6, <2>1 DEF MayChange, p
<1> QED BY <1>7, <1>8 DEF BookChanges

\* The parts of a schedule are the amount: what the division leaves is in the first.
LEMMA PartsAddUp ==
    ASSUME NEW D, IsFiniteSet(D), NEW start \in D, NEW amount \in Nat, NEW f,
           NEW part \in Int,
           f[start] = amount - part * (Cardinality(D) - 1),
           \A d \in D \ {start} : f[d] = part
    PROVE  SumFunctionOnSet(f, D) = amount
<1> DEFINE E == D \ {start}
<1>1. IsFiniteSet(E) /\ Cardinality(E) = Cardinality(D) - 1 /\ Cardinality(D) \in Nat
  BY FS_RemoveElement, FS_CardinalityType
<1>2. part * (Cardinality(D) - 1) \in Int
  BY <1>1
<1>3. \A d \in D : f[d] \in Int
  BY <1>2
<1>4. SumFunctionOnSet(f, D) = f[start] + SumFunctionOnSet(f, E)
  BY <1>3, SumRemove
<1>5. SumFunctionOnSet(f, E) = part * Cardinality(E)
  <2>1. \A d \in E : f[d] = part
    OBVIOUS
  <2> HIDE DEF E
  <2> QED BY <1>1, <2>1, SumConstant
<1> QED BY <1>1, <1>2, <1>4, <1>5

LEMMA StakeByScheduleChanges ==
    ASSUME BalanceInv, NEW sender \in Accounts, NEW a \in Accounts, NEW x \in Named,
           NEW amount \in Amounts, NEW schedule \in Schedules,
           StakeBySchedule(sender, amount, schedule, a, x)
    PROVE  BookChanges(book', amount)
<1> DEFINE start == LockDate(now + schedule.cliff)
           end   == LockDate(now + schedule.duration)
           D     == {d \in Dates : d \in start..end /\ (d - start) % schedule.interval = 0}
           part  == amount \div Cardinality(D)
           first == amount - part * (Cardinality(D) - 1)
           PartOf(d) == IF d = start THEN first ELSE part
           F(d) == IF d \in D THEN StakeOnPage(book[d], a, PartOf(d), x) ELSE book[d]
<1>1. /\ schedule.duration <= MAX_DURATION /\ schedule.interval > 0
      /\ start <= end
      /\ \A d \in D : PartOf(d) > 0
      /\ book' = [d \in Dates |-> F(d)]
  BY DEF StakeBySchedule
<1>2. /\ amount \in Nat /\ x \in Delegatees
      /\ schedule.cliff \in Nat /\ schedule.duration \in Nat /\ schedule.interval \in Nat
      /\ now \in Nat /\ block \in Nat /\ book \in [Dates -> Pages]
      /\ MAX_DURATION \in Nat /\ MaxTime \in Nat /\ now <= MaxTime
  BY StakingAssumption, BookAssumption DEF Named, BalanceInv, StakingInv
<1>3. end \in Nat /\ start \in Nat /\ end <= LatestLock
      /\ start % TWO_WEEKS = 0 /\ end <= MaxTime + MAX_DURATION
  <2>1. /\ now + schedule.cliff \in Nat /\ now + schedule.duration \in Nat
        /\ now + MAX_DURATION \in Nat
        /\ now + schedule.duration <= now + MAX_DURATION
    BY <1>1, <1>2
  <2>2. end <= LatestLock
    BY <2>1, LockDateMonotone DEF LatestLock
  <2>3. end <= now + schedule.duration /\ end \in Nat /\ start \in Nat /\ start % TWO_WEEKS = 0
    BY <2>1, LockDateIs
  <2> HIDE DEF start, end
  <2> QED BY <1>1, <1>2, <2>2, <2>3
<1>4. start \in D
  <2>1. (start - start) % schedule.interval = 0
    BY <1>1, <1>2, <1>3
  <2>2. start \in Dates
    <3> HIDE DEF start, end
    <3> QED BY <1>1, <1>2, <1>3 DEF Dates
  <2> HIDE DEF start, end
  <2> QED BY <1>1, <1>3, <2>1, <2>2
<1>5. \A d \in D : d \in Dates /\ d <= LatestLock
  <2>1. LatestLock \in Nat
    BY <1>2, ReachIsNumber
  <2> HIDE DEF start, end
  <2> QED BY <1>3, <2>1
<1>6. D \subseteq Dates
  OBVIOUS
<1>7. IsFiniteSet(D)
  BY <1>6, DatesFinite, FS_Subset
<1> HIDE DEF D, start, end
<1>8. part \in Int /\ first \in Int
  <2> DEFINE n == Cardinality(D)
  <2>1. n \in Nat /\ n # 0
    BY <1>4, <1>7, FS_CardinalityType, FS_EmptySet
  <2> HIDE DEF n
  <2>2. (amount \div n) \in Int
    BY <1>2, <2>1
  <2>3. (amount \div n) * (n - 1) \in Int
    BY <2>1, <2>2
  <2> QED BY <1>2, <2>2, <2>3 DEF n
<1>9. \A d \in D : PartOf(d) \in Nat
  <2> HIDE DEF part, first
  <2> QED BY <1>1, <1>8
<1> DEFINE parts == [d \in Dates |-> IF d \in D THEN PartOf(d) ELSE 0]
<1>10. SumFunctionOnSet(parts, Dates) = amount
  <2> DEFINE f == [d \in D |-> PartOf(d)]
  <2>1. f[start] = amount - part * (Cardinality(D) - 1)
    BY <1>4
  <2>2. \A d \in D \ {start} : f[d] = part
    OBVIOUS
  <2>3. \A d \in D : f[d] \in Int /\ parts[d] = f[d]
    BY <1>6, <1>9
  <2>4. \A d \in Dates \ D : parts[d] = 0
    OBVIOUS
  <2> HIDE DEF f, parts, part
  <2>5. SumFunctionOnSet(f, D) = amount
    BY <1>2, <1>4, <1>7, <1>8, <2>1, <2>2, PartsAddUp
  <2>6. SumFunctionOnSet(parts, Dates) = SumFunctionOnSet(f, D)
    BY <1>6, <2>3, <2>4, DatesFinite, SumOnPart
  <2> QED BY <2>5, <2>6
<1> HIDE DEF PartOf
<1>11. ASSUME NEW d \in D
       PROVE  /\ MayChange(d, book[d], F(d))
              /\ LastStake(F(d).total) = LastStake(book[d].total) + PartOf(d)
  <2> DEFINE p == book[d]
             q == StakeOnPage(p, a, PartOf(d), x)
             s == Stakes(p)[a]
  <2>1. /\ p \in Pages /\ PageAddsUp(p) /\ PartOf(d) \in Nat /\ d <= LatestLock
    BY <1>5, <1>9, BalanceOfPage
  <2>2. Rebooked(p, q, a, s + PartOf(d), x)
    BY <1>2, <2>1, StakeOnPageRebooks
  <2>3. F(d) = q
    OBVIOUS
  <2> HIDE DEF p, q, F
  <2>4. s \in Nat /\ LastStake(p.total) \in Nat /\ s + PartOf(d) \in Nat
        /\ LastStake(q.total) = LastStake(p.total) + (s + PartOf(d) - s)
    BY <2>1, <2>2, TotalMoves
  <2>5. s + PartOf(d) - s = PartOf(d)
    BY <2>1, <2>4
  <2>6. MayChange(d, p, q)
    <3> HIDE DEF s
    <3> QED BY <1>2, <2>1, <2>2, <2>4 DEF MayChange
  <2> QED BY <2>3, <2>4, <2>5, <2>6 DEF p
<1>12. \A d \in Dates \ D : F(d) = book[d]
  OBVIOUS
<1>13. \A d \in Dates : MayChange(d, book[d], book'[d]) /\ book'[d] = F(d)
  <2>1. \A d \in Dates : book'[d] = F(d)
    BY <1>1
  <2> HIDE DEF F
  <2> QED BY <1>11, <1>12, <2>1 DEF MayChange
<1>14. TotalOf(book') = TotalOf(book) + SumFunctionOnSet(parts, Dates)
  <2> DEFINE f == Totals(book)
             g == Totals(book')
  <2>1. \A d \in Dates : f[d] \in Int
    BY TotalsAreNumbers
  <2>2. \A d \in Dates : parts[d] \in Int
    BY <1>9
  <2>3. \A d \in Dates : g[d] = f[d] + parts[d]
    <3>1. ASSUME NEW d \in Dates
          PROVE  g[d] = f[d] + parts[d]
      <4>1. g[d] = LastStake(F(d).total) /\ f[d] = LastStake(book[d].total)
        BY <1>13 DEF Totals
      <4>2. CASE d \in D
        <5>1. parts[d] = PartOf(d)
          BY <4>2
        <5> HIDE DEF F, parts, f, g
        <5> QED BY <1>11, <4>1, <4>2, <5>1
      <4>3. CASE d \notin D
        <5>1. parts[d] = 0 /\ F(d) = book[d]
          BY <4>3
        <5> HIDE DEF F, parts, f, g
        <5> QED BY <2>1, <4>1, <5>1
      <4> QED BY <4>2, <4>3
    <3> QED BY <3>1
  <2> HIDE DEF f, g, parts
  <2>4. SumFunctionOnSet(g, Dates) = SumFunctionOnSet(f, Dates) + SumFunctionOnSet(parts, Dates)
    BY <2>1, <2>2, <2>3, DatesFinite, SumPlus
  <2> QED BY <2>4 DEF TotalOf, f, g
<1> HIDE DEF F, parts
<1> QED BY <1>10, <1>13, <1>14 DEF BookChanges

\* The stake at the end of the last block is the stake, if it was not changed in this one.
LEMMA FreshIsLast ==
    ASSUME NEW b \in Nat \ {0}, NEW h \in Histories, ~ WrittenAt(h, b),
           \A i \in DOMAIN h : h[i].fromBlock <= b
    PROVE  PriorAt(h, b - 1) = LastStake(h)
<1>1. /\ Len(h) \in Nat /\ DOMAIN h = 1..Len(h) /\ b - 1 \in Nat
      /\ \A i \in DOMAIN h : h[i].fromBlock \in Nat
  BY HistoryShape
<1>2. CASE h = <<>>
  <2>1. DOMAIN h = {}
    BY <1>2
  <2> QED BY <1>2, <2>1 DEF PriorAt, KnownAt, LastStake
<1>3. CASE h # <<>>
  <2> DEFINE i == Len(h)
  <2>1. i \in DOMAIN h
    BY <1>3, HistoryShape
  <2>2. h[i].fromBlock # b
    BY <1>3 DEF WrittenAt
  <2>3. h[i].fromBlock <= b - 1
    BY <1>1, <2>1, <2>2
  <2>4. \A j \in DOMAIN h : j > i => ~(h[j].fromBlock <= b - 1)
    BY <1>1
  <2>5. PriorAt(h, b - 1) = h[i].stake
    <3> HIDE DEF i
    <3> QED BY <1>1, <2>1, <2>3, <2>4, PriorIsAt
  <2> QED BY <1>3, <2>5 DEF LastStake
<1> QED BY <1>2, <1>3

\* The stake of this block so far is the stake.
LEMMA NowIsLast ==
    ASSUME NEW b \in Nat, NEW h \in Histories, \A i \in DOMAIN h : h[i].fromBlock <= b
    PROVE  PriorAt(h, b) = LastStake(h)
<1>1. Len(h) \in Nat /\ DOMAIN h = 1..Len(h)
  BY HistoryShape
<1>2. CASE h = <<>>
  <2>1. DOMAIN h = {}
    BY <1>2
  <2> QED BY <1>2, <2>1 DEF PriorAt, KnownAt, LastStake
<1>3. CASE h # <<>>
  <2> DEFINE i == Len(h)
  <2>1. i \in DOMAIN h
    BY <1>3, HistoryShape
  <2>2. \A j \in DOMAIN h : j > i => ~(h[j].fromBlock <= b)
    BY <1>1
  <2>3. PriorAt(h, b) = h[i].stake
    <3> HIDE DEF i
    <3> QED BY <2>1, <2>2, PriorIsAt
  <2> QED BY <1>3, <2>3 DEF LastStake
<1> QED BY <1>2, <1>3

LEMMA FreshStake ==
    ASSUME BalanceInv, NEW d \in Dates, NEW a \in Accounts, ~ StakedInBlock(d, a)
    PROVE  PriorAt(book[d].staked[a], block - 1) = Stakes(book[d])[a]
<1>1. /\ block \in Nat \ {0} /\ book[d] \in Pages /\ PageOK(book[d])
  BY BalanceOfPage
<1>2. book[d].staked[a] \in Histories
  BY <1>1, PageShape
<1>3. \A i \in DOMAIN book[d].staked[a] : book[d].staked[a][i].fromBlock <= block
  BY <1>1 DEF PageOK, PageAdvances, Advances, HistoryOK
<1>4. ~ WrittenAt(book[d].staked[a], block)
  BY DEF StakedInBlock
<1> HIDE DEF StakedInBlock
<1> QED BY <1>1, <1>2, <1>3, <1>4, FreshIsLast DEF Stakes

LEMMA ExtendChanges ==
    ASSUME BalanceInv, NEW a \in Accounts, NEW previousLock \in Times, NEW until \in Times,
           ExtendStakingDuration(a, previousLock, until)
    PROVE  BookChanges(book', 0)
<1> DEFINE from   == LockDate(previousLock)
           to     == Capped(LockDate(until))
           amount == PriorAt(book[from].staked[a], block - 1)
           before == book[from].delegates[a]
           after  == IF book[to].delegates[a] = NoAddress THEN before
                     ELSE book[to].delegates[a]
           left == DecreaseDelegate(
                       [DecreaseStake(book[from], a, amount) EXCEPT !.delegates[a] = NoAddress],
                       before, amount)
           grown == IncreaseDelegate(
                       [IncreaseStake(book[to], a, amount) EXCEPT !.delegates[a] = after],
                       after, amount)
<1>1. /\ from \in Dates /\ to \in Dates
      /\ ~ StakedInBlock(from, a)
      /\ from < to
      /\ amount > 0
      /\ book' = [book EXCEPT ![from] = left, ![to] = grown]
  BY DEF ExtendStakingDuration, FreshDate
<1>2. from # to /\ to <= LatestLock
  <2>1. LockDate(until) \in Nat /\ LatestLock \in Nat
    BY StakingAssumption, LockDateIs, ReachIsNumber DEF BalanceInv, StakingInv
  <2>2. to <= LatestLock
    BY <2>1 DEF Capped
  <2> HIDE DEF from, to
  <2>3. from \in Int /\ to \in Int
    BY <1>1 DEF Dates
  <2> QED BY <1>1, <2>2, <2>3
<1> HIDE DEF from, to
<1>3. /\ book \in [Dates -> Pages] /\ block \in Nat
      /\ book[from] \in Pages /\ PageAddsUp(book[from])
      /\ book[to] \in Pages /\ PageAddsUp(book[to])
  BY <1>1, BalanceOfPage DEF BalanceInv, StakingInv
<1>4. amount = Stakes(book[from])[a] /\ amount \in Nat
  BY <1>1, <1>3, FreshStake, FiguresAreNumbers
<1> HIDE DEF amount
<1>5. before \in Named
  <2>1. before # NoAddress
    BY <1>1, <1>3, <1>4 DEF PageAddsUp
  <2> QED BY <1>3, <2>1, FiguresAreNumbers DEF Named
<1>6. after \in Named /\ book[to].delegates[a] \in {NoAddress, after}
  BY <1>3, <1>5, FiguresAreNumbers DEF Named
<1> HIDE DEF after
<1>7. Rebooked(book[from], left, a, 0, NoAddress)
  BY <1>3, <1>4, MoveOutRebooks
<1> HIDE DEF before
<1> DEFINE n == Stakes(book[to])[a] + amount
<1>8. Rebooked(book[to], grown, a, n, after)
  BY <1>3, <1>4, <1>6, MoveInRebooks
<1> HIDE DEF left, grown
<1>9. /\ book'[from] = left /\ book'[to] = grown
      /\ \A d \in Dates \ {from, to} : book'[d] = book[d]
  BY <1>1, <1>2, <1>3
<1>10. /\ LastStake(left.total) = LastStake(book[from].total) + (0 - amount)
  BY <1>3, <1>4, <1>7, TotalMoves
<1>11. /\ n \in Nat /\ Stakes(book[to])[a] \in Nat /\ LastStake(book[to].total) \in Nat
       /\ LastStake(grown.total) = LastStake(book[to].total) + (n - Stakes(book[to])[a])
  <2> HIDE DEF n
  <2> QED BY <1>3, <1>8, TotalMoves
<1>12. LastStake(grown.total) = LastStake(book[to].total) + amount
  BY <1>4, <1>11
<1>13. TotalOf(book') = TotalOf(book) + ((0 - amount) + amount)
  <2>1. 0 - amount \in Int /\ amount \in Int
    BY <1>4
  <2>2. LastStake(book'[from].total) = LastStake(book[from].total) + (0 - amount)
        /\ LastStake(book'[to].total) = LastStake(book[to].total) + amount
    BY <1>9, <1>10, <1>12
  <2> DEFINE k == 0 - amount
  <2> HIDE DEF k, n
  <2>3. k \in Int /\ LastStake(book'[from].total) = LastStake(book[from].total) + k
    BY <2>1, <2>2 DEF k
  <2>4. TotalOf(book') = TotalOf(book) + (k + amount)
    <3>1. from \in Dates /\ to \in Dates /\ from # to
      BY <1>1, <1>2
    <3>2. \A i \in Dates \ {from, to} : book'[i] = book[i]
      BY <1>9
    <3>3. LastStake(book'[to].total) = LastStake(book[to].total) + amount /\ amount \in Int
      BY <2>1, <2>2
    <3> QED BY <2>3, <3>1, <3>2, <3>3, TwoDatesChange
  <2> QED BY <2>4 DEF k
<1>14. MayChange(from, book[from], left)
  <2>1. ~ (0 > Stakes(book[from])[a])
    BY <1>4
  <2>2. NoAddress \in Delegatees /\ 0 \in Nat
    BY StakingAssumption
  <2> QED BY <1>7, <2>1, <2>2 DEF MayChange
<1>15. MayChange(to, book[to], grown)
  <2>1. after \in Delegatees
    BY <1>6 DEF Named
  <2> HIDE DEF n
  <2> QED BY <1>2, <1>8, <1>11, <2>1 DEF MayChange
<1>16. \A d \in Dates : MayChange(d, book[d], book'[d])
  BY <1>9, <1>14, <1>15 DEF MayChange
<1>17. (0 - amount) + amount = 0
  BY <1>4
<1> QED BY <1>13, <1>16, <1>17 DEF BookChanges

\* A withdrawal from a page: the total moves by what is taken, and nothing grows.
LEMMA WithdrawnPage ==
    ASSUME BalanceInv, NEW d \in Dates, NEW a \in Accounts, NEW n \in Nat,
           CanDecrease(book[d], a, n)
    PROVE  LET q == WithdrawFromPage(book[d], a, n)
           IN  /\ MayChange(d, book[d], q)
               /\ LastStake(q.total) = LastStake(book[d].total) + (0 - n)
<1> DEFINE p == book[d]
           s == Stakes(p)[a]
           q == WithdrawFromPage(p, a, n)
           m == s - n
           y == p.delegates[a]
<1>1. p \in Pages /\ PageAddsUp(p) /\ block \in Nat
  BY BalanceOfPage
<1>2. s \in Nat /\ y \in Delegatees
  BY <1>1, FiguresAreNumbers
<1>3. Rebooked(p, q, a, m, y)
  BY <1>1, WithdrawRebooks
<1> HIDE DEF p, q, m, y
<1>4. m \in Nat /\ LastStake(p.total) \in Nat
      /\ LastStake(q.total) = LastStake(p.total) + (m - s)
  BY <1>1, <1>3, TotalMoves
<1>5. ~ (m > s) /\ m - s = 0 - n
  BY <1>2 DEF m
<1>6. MayChange(d, p, q)
  <2> HIDE DEF s
  <2>1. ~ (m > Stakes(p)[a])
    BY <1>5 DEF s
  <2> QED BY <1>2, <1>3, <1>4, <2>1 DEF MayChange
<1> QED BY <1>4, <1>5, <1>6 DEF p, q

LEMMA WithdrawChanges ==
    ASSUME BalanceInv, NEW a \in Accounts, NEW amount \in Nat, NEW until,
           Withdraw(a, amount, until)
    PROVE  \E change \in Int : BookChanges(book', change) /\ held' = held + change
<1> DEFINE date  == AdjustDate(until)
           taken == IF IsNoWithdrawal(a, amount) THEN 0 ELSE amount
           next  == NextWithdrawal(a, date)
           F(e)  == CASE e = date /\ taken > 0 -> WithdrawFromPage(book[e], a, taken)
                      [] e = date + TWO_WEEKS /\ next > 0 -> WithdrawFromPage(book[e], a, next)
                      [] OTHER -> book[e]
<1>1. /\ date \in Dates
      /\ taken > 0 => MayWithdraw(date, a, taken)
      /\ next > 0 => MayWithdraw(date + TWO_WEEKS, a, next)
      /\ book' = [e \in Dates |-> F(e)]
      /\ held' = held - taken - next
  BY DEF Withdraw
<1>2. taken \in Nat
  OBVIOUS
<1>3. next \in Nat /\ (next > 0 => date + TWO_WEEKS \in Dates)
  BY PriorBalanceIsNumber DEF NextWithdrawal, BalanceInv
<1> HIDE DEF date, taken, next
<1>4. date # date + TWO_WEEKS
  BY <1>1, StakingAssumption DEF Dates
<1>5. \A e \in Dates : book'[e] = F(e)
  BY <1>1
<1>6. ASSUME taken > 0
      PROVE  LET q == F(date)
             IN  /\ MayChange(date, book[date], q)
                 /\ LastStake(q.total) = LastStake(book[date].total) + (0 - taken)
  <2>1. F(date) = WithdrawFromPage(book[date], a, taken)
    BY <1>4, <1>6
  <2>2. CanDecrease(book[date], a, taken)
    BY <1>1, <1>6 DEF MayWithdraw
  <2> HIDE DEF F
  <2> QED BY <1>1, <1>2, <2>1, <2>2, WithdrawnPage
<1> DEFINE later == date + TWO_WEEKS
<1>7. ASSUME next > 0
      PROVE  LET q == F(later)
             IN  /\ MayChange(later, book[later], q)
                 /\ LastStake(q.total) = LastStake(book[later].total) + (0 - next)
  <2>1. F(later) = WithdrawFromPage(book[later], a, next)
    BY <1>4, <1>7
  <2>2. CanDecrease(book[later], a, next)
    BY <1>1, <1>7 DEF MayWithdraw
  <2>3. later \in Dates
    BY <1>3, <1>7
  <2> HIDE DEF F, later
  <2> QED BY <1>3, <2>1, <2>2, <2>3, WithdrawnPage
<1>8. \A e \in Dates : e # date /\ e # later => F(e) = book[e]
  OBVIOUS
<1>9. (~ (taken > 0) => F(date) = book[date]) /\ (~ (next > 0) => F(later) = book[later])
  BY <1>4
<1>10. date # later /\ (next > 0 => later \in Dates)
  BY <1>3, <1>4
<1> HIDE DEF F, later
<1>11. \A e \in Dates : MayChange(e, book[e], book'[e])
  BY <1>1, <1>5, <1>6, <1>7, <1>8, <1>9 DEF MayChange
<1> DEFINE k == 0 - taken
           l == 0 - next
<1>12. k \in Int /\ l \in Int
  BY <1>2, <1>3
<1>13. TotalOf(book) \in Nat /\ LastStake(book[date].total) \in Nat
  <2>1. Totals(book)[date] \in Nat
    BY <1>1, BalanceOfPage
  <2> QED BY <1>1, <2>1, TotalsAreNumbers DEF Totals
<1>14. TotalOf(book') = TotalOf(book) + (k + l)
  <2>1. LastStake(book'[date].total) = LastStake(book[date].total) + k
    <3>1. CASE taken > 0
      BY <1>1, <1>5, <1>6, <3>1
    <3>2. CASE ~ (taken > 0)
      <4>1. k = 0
        BY <1>2, <3>2
      <4> HIDE DEF k
      <4> QED BY <1>1, <1>5, <1>9, <1>13, <3>2, <4>1
    <3> QED BY <3>1, <3>2
  <2>2. CASE next > 0
    <3>1. LastStake(book'[later].total) = LastStake(book[later].total) + l
      BY <1>5, <1>7, <1>10, <2>2
    <3>2. \A e \in Dates \ {date, later} : book'[e] = book[e]
      BY <1>5, <1>8
    <3> HIDE DEF k, l
    <3> QED BY <1>1, <1>10, <1>12, <2>1, <2>2, <3>1, <3>2, TwoDatesChange
  <2>3. CASE ~ (next > 0)
    <3>1. \A e \in Dates \ {date} : book'[e] = book[e]
      BY <1>5, <1>8, <1>9, <2>3
    <3>2. l = 0
      BY <1>3, <2>3
    <3> HIDE DEF k, l
    <3>3. TotalOf(book') = TotalOf(book) + k
      BY <1>1, <1>12, <2>1, <3>1, OneDateChanges
    <3> QED BY <1>12, <3>2, <3>3
  <2> QED BY <2>2, <2>3
<1>15. held' = held + (k + l)
  <2>1. held \in Nat
    BY TotalsAreNumbers DEF BalanceInv
  <2> QED BY <1>1, <1>2, <1>3, <2>1
<1>16. k + l \in Int
  BY <1>12
<1> HIDE DEF k, l
<1> QED BY <1>11, <1>14, <1>15, <1>16 DEF BookChanges

\* Less than one multiple away is none.
LEMMA SmallMultiple ==
    ASSUME NEW m \in Nat \ {0}, NEW n \in Int, n % m = 0, n < m, -m < n
    PROVE  n = 0
<1> DEFINE k == n \div m
<1>1. k \in Int /\ n = m * k
  BY Division
<1> HIDE DEF k
<1>2. ASSUME k >= 1
      PROVE  FALSE
  <2>1. m * 1 <= m * k
    BY <1>1, <1>2
  <2> QED BY <1>1, <2>1
<1>3. ASSUME k <= -1
      PROVE  FALSE
  <2>1. m * k <= m * (-1)
    BY <1>1, <1>3
  <2> QED BY <1>1, <2>1
<1>4. k = 0
  BY <1>1, <1>2, <1>3
<1> QED BY <1>1, <1>4

\* The dates a cancellation from a date has before it.
ScheduleFrom(v, from) == {i \in from..ScheduleOf[v].end : (i - from) % TWO_WEEKS = 0}

\* A page ends within the schedule: at its end, if none is left, and else a
\* whole number of periods after it began.
LEMMA PageEnds ==
    ASSUME NEW v \in Vestings, NEW from \in Nat, maxVestingWithdrawIterations \in Nat
    PROVE  /\ AdjustedEnd(v, from) \in Int
           /\ AdjustedEnd(v, from) <= ScheduleOf[v].end
           /\ IF NotCompleted(v, from)
              THEN AdjustedEnd(v, from) =
                       from + TWO_WEEKS * (maxVestingWithdrawIterations - 1)
              ELSE AdjustedEnd(v, from) = ScheduleOf[v].end
<1>1. TWO_WEEKS \in Nat /\ ScheduleOf[v].end \in Nat
  BY StakingAssumption, BookAssumption
<1>2. TWO_WEEKS * (maxVestingWithdrawIterations - 1) \in Int
  BY <1>1
<1> QED BY <1>1, <1>2 DEF AdjustedEnd, NotCompleted

\* A page has dates of the schedule only.
LEMMA PageInSchedule ==
    ASSUME NEW v \in Vestings, NEW from \in Nat, maxVestingWithdrawIterations \in Nat
    PROVE  PageDates(v, from) \subseteq ScheduleFrom(v, from)
<1>1. ScheduleOf[v].end \in Nat
  BY BookAssumption
<1> QED BY <1>1, PageEnds DEF PageDates, ScheduleFrom

\* The page and what is before the next one are all there is, so none is left
\* out where one page ends and the next begins.
LEMMA ScheduleByPages ==
    ASSUME NEW v \in Vestings, NEW from \in Nat,
           maxVestingWithdrawIterations \in Nat \ {0}
    PROVE  /\ NotCompleted(v, from) =>
                  NextStartFrom(v, from) \in Nat /\ NextStartFrom(v, from) > from
           /\ ScheduleFrom(v, from) = PageDates(v, from) \cup
                  (IF NotCompleted(v, from)
                   THEN ScheduleFrom(v, NextStartFrom(v, from)) ELSE {})
<1> DEFINE m == TWO_WEEKS
           end == ScheduleOf[v].end
           last == AdjustedEnd(v, from)
           next == NextStartFrom(v, from)
           width == m * maxVestingWithdrawIterations
<1>0. m \in Nat \ {0} /\ end \in Nat
  BY StakingAssumption, BookAssumption
<1>1. CASE ~NotCompleted(v, from)
  <2>1. last = end
    BY <1>1, PageEnds
  <2> QED BY <1>1, <2>1 DEF PageDates, ScheduleFrom
<1>2. CASE NotCompleted(v, from)
  <2>1. /\ last \in Int /\ last <= end
        /\ last = from + m * (maxVestingWithdrawIterations - 1)
    BY <1>2, PageEnds
  <2>2. next = last + m
    BY DEF NextStartFrom
  <2>3. width \in Nat /\ width >= m /\ width % m = 0
    <3>1. \A n \in Nat \ {0}, k \in Nat \ {0} : n * k \in Nat /\ n * k >= n /\ (n * k) % n = 0
      OBVIOUS
    <3> QED BY <1>0, <3>1
  <2>4. m * (maxVestingWithdrawIterations - 1) = width - m
    BY <1>0
  <2> HIDE DEF last, next, width
  <2>5. next = from + width /\ next \in Nat /\ next > from /\ last = next - m
    BY <1>0, <2>1, <2>2, <2>3, <2>4
  <2> HIDE DEF m, end
  <2>6. ASSUME NEW i \in from..end, (i - from) % m = 0, ~(i <= last)
        PROVE  i \in next..end /\ (i - next) % m = 0
    <3>1. i \in Int /\ i - from \in Int /\ (i - from) - width = i - next
      BY <1>0, <2>3, <2>5, <2>6
    <3>2. (i - next) % m = 0
      <4> DEFINE k == i - from
      <4>1. k \in Int /\ k % m = 0 /\ k - width = i - next
        BY <2>6, <3>1
      <4> HIDE DEF k
      <4>2. (k - width) % m = 0
        <5>1. m \in Nat \ {0} /\ width \in Int /\ width % m = 0 /\ k \in Int /\ k % m = 0
          BY <1>0, <2>3, <4>1
        <5> QED BY ONLY <5>1, Multiples
      <4> QED BY <4>1, <4>2
    <3>3. ASSUME i < next
          PROVE  FALSE
      <4>1. i - next \in Int /\ i - next < m /\ -m < i - next /\ i - next # 0
        BY <1>0, <2>1, <2>5, <2>6, <3>1, <3>3
      <4> QED BY <1>0, <3>2, <4>1, SmallMultiple
    <3> QED BY <1>0, <2>5, <2>6, <3>1, <3>2, <3>3
  <2>7. ASSUME NEW i \in next..end, (i - next) % m = 0
        PROVE  i \in from..end /\ (i - from) % m = 0
    <3>1. i \in Int /\ i - next \in Int /\ (i - next) + width = i - from
      BY <1>0, <2>3, <2>5, <2>7
    <3>2. ((i - next) + width) % m = 0
      BY <1>0, <2>3, <2>7, <3>1, Multiples
    <3> QED BY <1>0, <2>5, <2>7, <3>1, <3>2
  <2>8. PageDates(v, from) = {i \in from..last : (i - from) % m = 0}
    BY DEF PageDates, last, m
  <2>9. /\ ScheduleFrom(v, from) = {i \in from..end : (i - from) % m = 0}
        /\ ScheduleFrom(v, next) = {i \in next..end : (i - next) % m = 0}
    BY DEF ScheduleFrom, m, end
  <2>10. ScheduleFrom(v, from) = PageDates(v, from) \cup ScheduleFrom(v, next)
    <3>1. \A i : i \in from..end => i \in Int
      OBVIOUS
    <3>2. \A i : i \in from..last <=> i \in Int /\ from <= i /\ i <= last
      BY <2>1
    <3>3. \A i : i \in from..end <=> i \in Int /\ from <= i /\ i <= end
      BY <1>0
    <3>4. \A i \in from..last : i \in from..end
      BY <1>0, <2>1, <3>2, <3>3
    <3>5. \A i \in from..end : i <= last => i \in from..last
      BY <3>2, <3>3
    <3> QED BY <2>6, <2>7, <2>8, <2>9, <3>4, <3>5
  <2> QED BY <1>2, <2>5, <2>10 DEF next
<1> QED BY <1>1, <1>2

\* Page after page, a cancellation visits every date of the schedule, whatever
\* the length of the pages.
LEMMA PagesVisitAll ==
    ASSUME NEW v \in Vestings, maxVestingWithdrawIterations \in Nat \ {0},
           NEW from \in Nat
    PROVE  DatesFrom(v)[from] = ScheduleFrom(v, from)
<1> DEFINE D == DatesFrom(v)
           H(f, n) == PageDates(v, n) \cup
                          (IF NotCompleted(v, n) THEN f[NextStartFrom(v, n)] ELSE {})
           g == [n \in Nat |-> ScheduleFrom(v, n)]
           end == ScheduleOf[v].end
<1>0. end \in Nat
  BY BookAssumption
<1>1. \A n \in Nat : ScheduleFrom(v, n) = H(g, n)
  BY ScheduleByPages
<1>2. D = CHOOSE f : f = [n \in Nat |-> H(f, n)]
  BY DEF DatesFrom
<1>3. g = [n \in Nat |-> H(g, n)]
  BY <1>1
<1> HIDE DEF D, g, H
<1>4. D = [n \in Nat |-> H(D, n)]
  BY <1>2, <1>3
<1>5. \A n \in Nat : D[n] = PageDates(v, n) \cup
                         (IF NotCompleted(v, n) THEN D[NextStartFrom(v, n)] ELSE {})
  BY <1>4 DEF H
<1> DEFINE Wrong == {n \in Nat : D[n] # ScheduleFrom(v, n)}
           Left == {end - n : n \in Wrong}
<1>6. ASSUME NEW n \in Wrong
      PROVE  /\ NotCompleted(v, n)
             /\ NextStartFrom(v, n) \in Wrong
             /\ NextStartFrom(v, n) > n
  BY <1>5, ScheduleByPages
<1>7. ASSUME NEW n \in Wrong
      PROVE  end - n \in Nat
  <2>1. n \in Nat /\ NotCompleted(v, n)
    BY <1>6
  <2>2. TWO_WEEKS * (maxVestingWithdrawIterations - 1) \in Nat
    <3>1. \A i \in Nat \ {0}, k \in Nat \ {0} : i * (k - 1) \in Nat
      OBVIOUS
    <3> QED BY <3>1, StakingAssumption
  <2>3. AdjustedEnd(v, n) \in Int /\ AdjustedEnd(v, n) >= n
    BY <2>1, <2>2, PageEnds
  <2>4. AdjustedEnd(v, n) < end
    BY <2>1 DEF NotCompleted
  <2> QED BY <1>0, <2>1, <2>3, <2>4
<1>8. ASSUME Wrong # {}
      PROVE  FALSE
  <2>1. Left \in SUBSET Nat /\ Left # {}
    BY <1>7, <1>8
  <2>2. PICK k \in Left : \A l \in Left : k <= l
    BY <2>1, MinimalNumber
  <2>3. PICK n \in Wrong : k = end - n
    BY <2>2
  <2>4. end - NextStartFrom(v, n) \in Left
    BY <1>6
  <2>5. n \in Nat /\ NextStartFrom(v, n) \in Nat /\ NextStartFrom(v, n) > n
    BY <1>6
  <2>6. end - n <= end - NextStartFrom(v, n)
    BY <2>2, <2>3, <2>4
  <2> QED BY <1>0, <2>5, <2>6
<1> QED BY <1>8 DEF D

\* A cancellation takes each stake of the dates it visits once: they are whole
\* periods apart, so no two of them have the same lock date.
LEMMA CancelChanges ==
    ASSUME BalanceInv, NEW v \in TeamVestings, NEW start \in Nat, NEW I,
           I \subseteq ScheduleFrom(v, start), CancelDates(v, I)
    PROVE  \E change \in Int : BookChanges(book', change) /\ held' = held + change
<1> DEFINE C == {i \in I : StakeToCancel(v, i) > 0}
           P(d) == CHOOSE i \in C : LockDate(i) = d
           F(d) == IF \E i \in C : LockDate(i) = d
                   THEN WithdrawFromPage(book[d], v, StakeToCancel(v, P(d)))
                   ELSE book[d]
           f == [i \in C |-> StakeToCancel(v, i)]
           g == [d \in Dates |-> IF \E i \in C : LockDate(i) = d
                                 THEN StakeToCancel(v, P(d)) ELSE 0]
<1>1. /\ \A i \in C : MayWithdraw(LockDate(i), v, StakeToCancel(v, i))
      /\ book' = [d \in Dates |-> F(d)]
      /\ held' = held - SumFunction(f)
  BY DEF CancelDates
<1>2. v \in Accounts /\ v \in Vestings
  BY StakingAssumption DEF Accounts
<1>3. \A i : StakeToCancel(v, i) \in Nat
  BY <1>2, PriorBalanceIsNumber DEF StakeToCancel, BalanceInv
<1>4. TWO_WEEKS \in Nat \ {0} /\ ScheduleOf[v].end \in Nat
  BY <1>2, StakingAssumption, BookAssumption
<1>5. \A i \in C : /\ i \in start..ScheduleOf[v].end /\ i \in Nat
                   /\ (i - start) % TWO_WEEKS = 0
                   /\ StakeToCancel(v, i) > 0
  BY <1>4 DEF ScheduleFrom
<1>6. IsFiniteSet(C)
  <2>1. C \subseteq start..ScheduleOf[v].end
    BY <1>5
  <2>2. IsFiniteSet(start..ScheduleOf[v].end)
    BY <1>4, FS_Interval
  <2> HIDE DEF C
  <2> QED BY <2>1, <2>2, FS_Subset
<1> HIDE DEF C
<1>7. ASSUME NEW i \in C
      PROVE  LockDate(i) \in Dates
  <2>1. i \in Nat /\ AdjustDate(i) \in Dates
    BY <1>5 DEF StakeToCancel
  <2>2. /\ LockDate(i) \in Nat /\ LockDate(i) <= i /\ i < LockDate(i) + TWO_WEEKS
        /\ LockDate(i) % TWO_WEEKS = 0
    BY <2>1, LockDateIs
  <2>3. LockDate(i) <= AdjustDate(i)
    BY <1>4, <2>1, <2>2 DEF AdjustDate
  <2>4. MaxTime + MAX_DURATION \in Nat
    BY StakingAssumption
  <2> QED BY <2>1, <2>2, <2>3, <2>4 DEF Dates
<1>8. ASSUME NEW i \in C, NEW j \in C, LockDate(i) = LockDate(j)
      PROVE  i = j
  <2>1. i \in Nat /\ j \in Nat /\ (i - start) % TWO_WEEKS = 0 /\ (j - start) % TWO_WEEKS = 0
    BY <1>5
  <2>2. /\ LockDate(i) \in Nat /\ LockDate(i) <= i /\ i < LockDate(i) + TWO_WEEKS
        /\ LockDate(i) <= j /\ j < LockDate(i) + TWO_WEEKS
    BY <1>8, <2>1, LockDateIs
  <2> DEFINE k == i - start
             l == j - start
  <2>3. (k - l) % TWO_WEEKS = 0
    <3>1. k \in Int /\ l \in Int /\ k % TWO_WEEKS = 0 /\ l % TWO_WEEKS = 0
      BY <2>1
    <3> HIDE DEF k, l
    <3> QED BY <1>4, <3>1, Multiples
  <2>4. k - l \in Int /\ k - l < TWO_WEEKS /\ -TWO_WEEKS < k - l
    BY <1>4, <2>1, <2>2
  <2>5. k - l = 0
    <3> HIDE DEF k, l
    <3> QED BY <1>4, <2>3, <2>4, SmallMultiple
  <2> QED BY <2>1, <2>5
<1>9. \A i \in C : P(LockDate(i)) = i
  <2> SUFFICES ASSUME NEW i \in C
               PROVE  P(LockDate(i)) = i
    OBVIOUS
  <2>1. P(LockDate(i)) \in C /\ LockDate(P(LockDate(i))) = LockDate(i)
    OBVIOUS
  <2> HIDE DEF P
  <2> QED BY <1>8, <2>1
<1> HIDE DEF P
<1>10. SumFunction(f) = SumFunctionOnSet(g, Dates)
  <2> DEFINE m == [i \in C |-> LockDate(i)]
  <2>1. m \in [C -> Dates]
    BY <1>7
  <2>2. \A i, j \in C : m[i] = m[j] => i = j
    BY <1>8
  <2>3. \A i \in C : f[i] \in Int /\ g[m[i]] = f[i]
    BY <1>3, <1>7, <1>9
  <2>4. \A d \in Dates : (\A i \in C : m[i] # d) => g[d] = 0
    OBVIOUS
  <2>5. SumFunction(f) = SumFunctionOnSet(f, C)
    BY SumOfFunction
  <2> HIDE DEF f, g, m
  <2> QED BY <1>6, <2>1, <2>2, <2>3, <2>4, <2>5, DatesFinite, SumInjected
<1>11. ASSUME NEW d \in Dates
       PROVE  /\ MayChange(d, book[d], F(d))
              /\ LastStake(F(d).total) \in Int
              /\ LastStake(book[d].total) = LastStake(F(d).total) + g[d]
              /\ g[d] \in Int
  <2>0. LastStake(book[d].total) \in Nat
    BY BalanceOfPage DEF Totals
  <2>1. CASE \E i \in C : LockDate(i) = d
    <3>1. PICK i \in C : LockDate(i) = d
      BY <2>1
    <3> DEFINE n == StakeToCancel(v, i)
               q == WithdrawFromPage(book[d], v, n)
    <3>2. F(d) = q /\ g[d] = n
      BY <1>9, <3>1
    <3>3. n \in Nat /\ CanDecrease(book[d], v, n)
      BY <1>1, <1>3, <3>1 DEF MayWithdraw
    <3>4. /\ MayChange(d, book[d], q)
          /\ LastStake(q.total) = LastStake(book[d].total) + (0 - n)
      <4> HIDE DEF n
      <4> QED BY <1>2, <3>3, WithdrawnPage
    <3> HIDE DEF F, g, n, q
    <3> QED BY <2>0, <3>2, <3>3, <3>4
  <2>2. CASE ~ \E i \in C : LockDate(i) = d
    <3>1. F(d) = book[d] /\ g[d] = 0
      BY <2>2
    <3> HIDE DEF F, g
    <3> QED BY <2>0, <3>1 DEF MayChange
  <2> QED BY <2>1, <2>2
<1>12. \A d \in Dates : book'[d] = F(d)
  BY <1>1
<1> DEFINE change == 0 - SumFunctionOnSet(g, Dates)
<1> HIDE DEF F, f, g
<1>13. TotalOf(book) = TotalOf(book') + SumFunctionOnSet(g, Dates)
  <2> DEFINE h == Totals(book)
             t == Totals(book')
  <2>1. /\ \A d \in Dates : t[d] \in Int
        /\ \A d \in Dates : g[d] \in Int
        /\ \A d \in Dates : h[d] = t[d] + g[d]
    BY <1>11, <1>12 DEF Totals
  <2> HIDE DEF h, t
  <2>2. SumFunctionOnSet(h, Dates) = SumFunctionOnSet(t, Dates) + SumFunctionOnSet(g, Dates)
    BY <2>1, DatesFinite, SumPlus
  <2> QED BY <2>2 DEF TotalOf, h, t
<1>14. /\ SumFunctionOnSet(g, Dates) \in Int /\ TotalOf(book') \in Int
  <2>1. \A d \in Dates : Totals(book')[d] \in Int
    BY <1>11, <1>12 DEF Totals
  <2>2. \A d \in Dates : g[d] \in Int
    BY <1>11
  <2> QED BY <2>1, <2>2, DatesFinite, SumType DEF TotalOf
<1>15. held \in Nat /\ held = TotalOf(book)
  BY TotalsAreNumbers DEF BalanceInv
<1>16. change \in Int /\ TotalOf(book') = TotalOf(book) + change /\ held' = held + change
  BY <1>1, <1>10, <1>13, <1>14, <1>15
<1>17. \A d \in Dates : MayChange(d, book[d], book'[d])
  BY <1>11, <1>12
<1> HIDE DEF change
<1> QED BY <1>16, <1>17 DEF BookChanges

LEMMA DelegateChanges ==
    ASSUME BalanceInv, NEW a \in Accounts, NEW x \in Named, NEW lockDate,
           Delegate(a, x, lockDate)
    PROVE  BookChanges(book', 0)
<1> DEFINE D == {d \in DelegatedWith(a, lockDate) :
                    Balance(d, a) > 0 /\ book[d].delegates[a] # x}
           F(d) == IF d \in D THEN Redelegate(book[d], a, x, Balance(d, a), Balance(d, a))
                   ELSE book[d]
<1>1. book' = [d \in Dates |-> F(d)]
  BY DEF Delegate
<1>2. x \in Delegatees
  BY DEF Named
<1>3. \A d \in D : book[d].delegates[a] # x
  OBVIOUS
<1> HIDE DEF D
<1>4. ASSUME NEW d \in Dates
      PROVE  /\ MayChange(d, book[d], F(d))
             /\ LastStake(F(d).total) = LastStake(book[d].total)
  <2>1. CASE d \in D
    <3> DEFINE p == book[d]
               n == Balance(d, a)
               q == Redelegate(p, a, x, n, n)
    <3>1. /\ p \in Pages /\ PageAddsUp(p) /\ block \in Nat /\ n = Stakes(p)[a]
      BY BalanceOfPage
    <3>2. n \in Nat
      BY <3>1, FiguresAreNumbers
    <3>3. F(d) = q /\ p.delegates[a] # x
      BY <1>3, <2>1
    <3> HIDE DEF F, n, p
    <3>4. Rebooked(p, q, a, n, x)
      BY <3>1, <3>2, <3>3, RedelegateRebooks
    <3> HIDE DEF q
    <3>5. /\ LastStake(p.total) \in Nat
          /\ LastStake(q.total) = LastStake(p.total) + (n - Stakes(p)[a])
      BY <3>1, <3>4, TotalMoves
    <3>6. n - Stakes(p)[a] = 0
      BY <3>1, <3>2
    <3>7. LastStake(q.total) = LastStake(p.total)
      BY <3>5, <3>6
    <3>8. MayChange(d, p, q)
      <4>1. ~ (n > Stakes(p)[a])
        BY <3>1, <3>2
      <4> QED BY <1>2, <3>2, <3>4, <4>1 DEF MayChange
    <3> QED BY <3>3, <3>7, <3>8 DEF p
  <2>2. CASE d \notin D
    BY <2>2 DEF MayChange
  <2> QED BY <2>1, <2>2
<1>5. \A d \in Dates : book'[d] = F(d)
  BY <1>1
<1> HIDE DEF F
<1>6. TotalOf(book') = TotalOf(book)
  <2> DEFINE f == Totals(book)
             g == Totals(book')
  <2>1. \A d \in Dates : f[d] \in Int /\ f[d] = g[d]
    BY <1>4, <1>5, TotalsAreNumbers DEF Totals
  <2> HIDE DEF f, g
  <2> QED BY <2>1, DatesFinite, SumSame DEF TotalOf, f, g
<1>7. TotalOf(book) + 0 = TotalOf(book)
  BY TotalsAreNumbers
<1> QED BY <1>4, <1>5, <1>6, <1>7 DEF BookChanges

-----------------------------------------------------------------------------
(* The invariant of the book. *)

\* What a transaction does to the book keeps it in balance and in reach.
LEMMA ChangeKeepsBalance ==
    ASSUME BalanceInv, StakingInv', NEW change, BookChanges(book', change),
           held' = held + change, now' >= now, now' <= MaxTime
    PROVE  BalanceInv'
<1>1. now \in Nat /\ now' \in Nat /\ book' \in [Dates -> Pages]
  BY DEF BalanceInv, StakingInv
<1>2. \A d \in Dates : PageAddsUp(book'[d])
  <2> SUFFICES ASSUME NEW d \in Dates
               PROVE  PageAddsUp(book'[d])
    OBVIOUS
  <2>1. book[d] \in Pages /\ PageAddsUp(book[d]) /\ MayChange(d, book[d], book'[d])
    BY BalanceOfPage DEF BookChanges
  <2> QED BY <2>1, RebookedAddsUp DEF MayChange
<1>3. held' = TotalOf(book')
  BY DEF BookChanges, BalanceInv
<1>4. ASSUME NEW d \in Dates
      PROVE  d <= LatestLock => d <= LatestLock'
  <2> DEFINE s == now + MAX_DURATION
             t == now' + MAX_DURATION
  <2>0. now' >= now /\ MAX_DURATION \in Nat
    BY StakingAssumption
  <2>1. s \in Nat /\ t \in Nat /\ s <= t
    <3>1. \A i, j, k \in Nat : i <= j => i + k \in Nat /\ j + k \in Nat /\ i + k <= j + k
      OBVIOUS
    <3>2. now \in Nat /\ now' \in Nat /\ now <= now'
      BY ONLY <1>1, <2>0
    <3> QED BY ONLY <2>0, <3>1, <3>2
  <2> HIDE DEF s, t
  <2>2. LockDate(s) <= LockDate(t) /\ LockDate(s) \in Nat /\ LockDate(t) \in Nat /\ d \in Nat
    BY <2>1, LockDateMonotone, LockDateIs, DatesAreLockDates
  <2>3. d <= LockDate(s) => d <= LockDate(t)
    BY <2>2
  <2> QED BY <2>3 DEF LatestLock, s, t
<1>5. ASSUME NEW d \in Dates, NEW a \in Accounts, Stakes(book'[d])[a] > 0
      PROVE  d <= LatestLock'
  <2>1. /\ book[d] \in Pages /\ MayChange(d, book[d], book'[d])
        /\ Balance(d, a) = Stakes(book[d])[a]
        /\ Stakes(book[d]) \in [Accounts -> Nat]
    BY BalanceOfPage, FiguresAreNumbers DEF BookChanges
  <2>2. Balance(d, a) > 0 => d <= LatestLock
    BY DEF BalanceInv, StakesInReach
  <2>3. CASE book'[d] = book[d]
    BY <1>4, <1>5, <2>1, <2>2, <2>3
  <2>4. ASSUME NEW e \in Accounts, NEW n \in Nat, NEW y \in Delegatees,
               Rebooked(book[d], book'[d], e, n, y),
               n > Stakes(book[d])[e] => d <= LatestLock
        PROVE  d <= LatestLock
    <3>1. Stakes(book'[d]) = [Stakes(book[d]) EXCEPT ![e] = n]
      BY <2>4 DEF Rebooked
    <3>2. CASE a = e
      <4>1. n > 0
        BY <1>5, <2>1, <3>1, <3>2
      <4>2. n > Stakes(book[d])[e] \/ Stakes(book[d])[e] > 0
        BY <2>1, <4>1
      <4> QED BY <2>1, <2>2, <2>4, <3>2, <4>2
    <3>3. CASE a # e
      BY <1>5, <2>1, <2>2, <3>1, <3>3
    <3> QED BY <3>2, <3>3
  <2> QED BY <1>4, <2>1, <2>3, <2>4 DEF MayChange
<1>6. StakesInReach'
  <2>1. \A d \in Dates, a \in Accounts : Balance(d, a)' = Stakes(book'[d])[a]
    BY DEF Balance, Stakes
  <2> QED BY <1>5, <2>1 DEF StakesInReach
<1> QED BY <1>2, <1>3, <1>6 DEF BalanceInv

\* The clock runs on its own: a step that is not a block keeps block and time,
\* and a new block keeps the book.
LEMMA ClockStep ==
    ASSUME BalanceInv, [Next]_vars
    PROVE  \/ block' = block /\ now' = now
           \/ /\ block' = block + 1 /\ now' \in Nat /\ now' >= now /\ now' <= MaxTime
              /\ UNCHANGED <<book, held, collected, switches>>
<1> DEFINE Kept == block' = block /\ now' = now
           Ticked == /\ block' = block + 1 /\ now' \in Nat /\ now' >= now /\ now' <= MaxTime
                     /\ UNCHANGED <<book, held, collected, switches>>
<1>1. ASSUME \E elapsed \in Elapsed : NextBlock(elapsed)
      PROVE  Ticked
  <2>1. PICK elapsed \in Elapsed : NextBlock(elapsed)
    BY <1>1
  <2>2. elapsed \in Nat /\ now \in Nat
    BY StakingAssumption DEF BalanceInv, StakingInv
  <2> QED BY <2>1, <2>2 DEF NextBlock
<1>2. ASSUME NEW sender \in Accounts, NEW a \in Accounts, NEW x \in Named,
             NEW amount \in Amounts, NEW until \in Times, Stake(sender, amount, until, a, x)
      PROVE  Kept
  BY <1>2 DEF Stake
<1>3. ASSUME NEW sender \in Accounts, NEW a \in Accounts, NEW x \in Named,
             NEW amount \in Amounts, NEW schedule \in Schedules,
             StakeBySchedule(sender, amount, schedule, a, x)
      PROVE  Kept
  BY <1>3 DEF StakeBySchedule
<1>4. ASSUME NEW a \in Accounts, NEW from \in Times, NEW to \in Times,
             ExtendStakingDuration(a, from, to)
      PROVE  Kept
  BY <1>4 DEF ExtendStakingDuration
<1>5. ASSUME NEW a \in Accounts, NEW until \in Times, NEW amount, Withdraw(a, amount, until)
      PROVE  Kept
  BY <1>5 DEF Withdraw
<1>6. ASSUME NEW v \in TeamVestings, NEW from \in Times, CancelTeamVesting(v, from)
      PROVE  Kept
  BY <1>6 DEF CancelTeamVesting
<1>7. ASSUME NEW v \in TeamVestings, GovernanceWithdrawVesting(v)
      PROVE  Kept
  BY <1>7 DEF GovernanceWithdrawVesting
<1>8. ASSUME NEW a \in Accounts, NEW x \in Named, NEW d \in Dates, Delegate(a, x, d)
      PROVE  Kept
  BY <1>8 DEF Delegate
<1>9. ASSUME \/ \E pause \in BOOLEAN : PauseUnpause(pause)
             \/ \E freeze \in BOOLEAN : FreezeUnfreeze(freeze)
             \/ UnlockAllTokens
             \/ \E scaling \in Scalings : SetWeightScaling(scaling)
             \/ \E limit \in IterationLimits : SetMaxVestingWithdrawIterations(limit)
             \/ UNCHANGED vars
      PROVE  Kept
  BY <1>9 DEF PauseUnpause, FreezeUnfreeze, UnlockAllTokens, SetWeightScaling,
     SetMaxVestingWithdrawIterations, vars
<1> HIDE DEF Kept, Ticked
<1>10. Kept \/ Ticked
  BY <1>1, <1>2, <1>3, <1>4, <1>5, <1>6, <1>7, <1>8, <1>9 DEF Next
<1> QED BY <1>10 DEF Kept, Ticked

\* Every step keeps the book in balance.
LEMMA BalanceStep ==
    ASSUME BalanceInv, maxVestingWithdrawIterations \in Nat, [Next]_vars
    PROVE  BalanceInv'
<1> DEFINE Goal == \E change \in Int : BookChanges(book', change) /\ held' = held + change
<1>0. ASSUME book' = book, held' = held
      PROVE  Goal
  <2>1. held \in Nat /\ TotalOf(book) \in Nat
    BY TotalsAreNumbers DEF BalanceInv
  <2>2. TotalOf(book') = TotalOf(book) + 0 /\ held' = held + 0 /\ 0 \in Int
    BY <1>0, <2>1
  <2>3. \A d \in Dates : MayChange(d, book[d], book'[d])
    BY <1>0 DEF MayChange
  <2> QED BY <2>2, <2>3 DEF BookChanges
<1>1. Amounts \subseteq Int /\ held \in Nat
  BY StakingAssumption, TotalsAreNumbers DEF BalanceInv
<1>2. ASSUME NEW sender \in Accounts, NEW a \in Accounts, NEW x \in Named,
             NEW amount \in Amounts, NEW until \in Times, Stake(sender, amount, until, a, x)
      PROVE  Goal
  <2>1. held' = held + amount
    BY <1>2 DEF Stake
  <2> QED BY <1>1, <1>2, <2>1, StakeChanges
<1>3. ASSUME NEW sender \in Accounts, NEW a \in Accounts, NEW x \in Named,
             NEW amount \in Amounts, NEW schedule \in Schedules,
             StakeBySchedule(sender, amount, schedule, a, x)
      PROVE  Goal
  <2>1. held' = held + amount
    BY <1>3 DEF StakeBySchedule
  <2> QED BY <1>1, <1>3, <2>1, StakeByScheduleChanges
<1>4. ASSUME NEW a \in Accounts, NEW from \in Times, NEW to \in Times,
             ExtendStakingDuration(a, from, to)
      PROVE  Goal
  <2>1. held' = held + 0 /\ 0 \in Int
    BY <1>1, <1>4 DEF ExtendStakingDuration
  <2> QED BY <1>4, <2>1, ExtendChanges
<1>5. ASSUME NEW a \in Accounts, NEW until \in Times,
             NEW amount \in (Withdrawals \cup {Balance(AdjustDate(until), a)}) \ {0},
             Withdraw(a, amount, until)
      PROVE  Goal
  <2>1. AdjustDate(until) \in Dates
    BY <1>5 DEF Withdraw
  <2>2. amount \in Nat
    BY <2>1, PriorBalanceIsNumber, StakingAssumption DEF BalanceInv
  <2> QED BY <1>5, <2>2, WithdrawChanges
<1>6. ASSUME NEW v \in TeamVestings, NEW from \in Times, CancelTeamVesting(v, from)
      PROVE  Goal
  <2> DEFINE start == IF from >= ScheduleOf[v].first THEN from ELSE ScheduleOf[v].first
  <2>1. CancelDates(v, PageDates(v, start))
    BY <1>6 DEF CancelTeamVesting
  <2>2. start \in Nat /\ v \in Vestings
    BY StakingAssumption, BookAssumption
  <2> HIDE DEF start
  <2>3. PageDates(v, start) \subseteq ScheduleFrom(v, start)
    BY <2>2, PageInSchedule
  <2> QED BY <2>1, <2>2, <2>3, CancelChanges
<1>7. ASSUME NEW v \in TeamVestings, GovernanceWithdrawVesting(v)
      PROVE  Goal
  <2>1. /\ CancelDates(v, DatesFrom(v)[ScheduleOf[v].first])
        /\ maxVestingWithdrawIterations > 0
    BY <1>7 DEF GovernanceWithdrawVesting
  <2>2. ScheduleOf[v].first \in Nat /\ v \in Vestings
    BY StakingAssumption, BookAssumption
  <2>3. DatesFrom(v)[ScheduleOf[v].first] = ScheduleFrom(v, ScheduleOf[v].first)
    BY <2>1, <2>2, PagesVisitAll
  <2> QED BY <2>1, <2>2, <2>3, CancelChanges
<1>8. ASSUME NEW a \in Accounts, NEW x \in Named, NEW d \in Dates, Delegate(a, x, d)
      PROVE  Goal
  <2>1. held' = held + 0 /\ 0 \in Int
    BY <1>1, <1>8 DEF Delegate
  <2> QED BY <1>8, <2>1, DelegateChanges
<1>9. ASSUME \/ \E pause \in BOOLEAN : PauseUnpause(pause)
             \/ \E freeze \in BOOLEAN : FreezeUnfreeze(freeze)
             \/ UnlockAllTokens
             \/ \E scaling \in Scalings : SetWeightScaling(scaling)
             \/ \E limit \in IterationLimits : SetMaxVestingWithdrawIterations(limit)
             \/ \E elapsed \in Elapsed : NextBlock(elapsed)
             \/ UNCHANGED vars
      PROVE  Goal
  <2>1. book' = book /\ held' = held
    BY <1>9 DEF PauseUnpause, FreezeUnfreeze, UnlockAllTokens, SetWeightScaling,
       SetMaxVestingWithdrawIterations, NextBlock, vars
  <2> QED BY <1>0, <2>1
<1> HIDE DEF Goal
<1>10. Goal
  BY <1>2, <1>3, <1>4, <1>5, <1>6, <1>7, <1>8, <1>9 DEF Next
<1>11. PICK change \in Int : BookChanges(book', change) /\ held' = held + change
  BY <1>10 DEF Goal
<1>12. now' >= now /\ now' <= MaxTime
  <2>1. now \in Nat /\ now <= MaxTime
    BY DEF BalanceInv, StakingInv
  <2> QED BY <2>1, ClockStep
<1>13. StakingInv'
  BY NextOK DEF BalanceInv
<1> QED BY <1>11, <1>12, <1>13, ChangeKeepsBalance

\* The empty book is in balance.
LEMMA BalanceInit == Init => BalanceInv
<1> SUFFICES ASSUME Init
             PROVE  BalanceInv
  OBVIOUS
<1>1. StakingInv
  BY InitOK
<1>2. \A d \in Dates : book[d] = EmptyPage
  BY DEF Init
<1>3. /\ LastStake(EmptyPage.total) = 0 /\ LastStake(EmptyPage.vested) = 0
      /\ \A a \in Accounts : Stakes(EmptyPage)[a] = 0
      /\ \A x \in Delegatees : Votes(EmptyPage)[x] = 0
  BY DEF EmptyPage, Stakes, Votes, LastStake
<1>4. PageAddsUp(EmptyPage)
  <2> DEFINE s == Stakes(EmptyPage)
             y == EmptyPage.delegates
  <2>1. \A a \in Vestings : s[a] = 0
    BY <1>3, FiniteBook
  <2>2. SumFunctionOnSet(s, Accounts) = 0
    BY <1>3, FiniteBook, SumZero
  <2>3. SumFunctionOnSet(s, Vestings) = 0
    <3> HIDE DEF s
    <3> QED BY <2>1, FiniteBook, SumZero
  <2>4. \A x \in Delegatees : SumFunctionOnSet(Shares(s, y, x), Accounts) = 0
    <3> SUFFICES ASSUME NEW x \in Delegatees
                 PROVE  SumFunctionOnSet(Shares(s, y, x), Accounts) = 0
      OBVIOUS
    <3>1. \A a \in Accounts : Shares(s, y, x)[a] = 0
      <4> HIDE DEF s, y
      <4> QED BY <1>3 DEF Shares, Share, s
    <3> HIDE DEF s, y
    <3> QED BY <3>1, FiniteBook, SumZero
  <2>5. \A a \in Accounts : ~ (s[a] > 0)
    BY <1>3
  <2> HIDE DEF s, y
  <2> QED BY <1>3, <2>2, <2>3, <2>4, <2>5 DEF PageAddsUp, s, y
<1>5. held = TotalOf(book)
  <2>1. \A d \in Dates : Totals(book)[d] = 0
    BY <1>2, <1>3 DEF Totals
  <2>2. TotalOf(book) = 0
    BY <2>1, DatesFinite, SumZero DEF TotalOf
  <2> QED BY <2>2 DEF Init
<1>6. StakesInReach
  <2>1. ASSUME NEW d \in Dates, NEW a \in Accounts
        PROVE  ~ (Balance(d, a) > 0)
    BY <1>2, <1>3 DEF Balance, Stakes
  <2> QED BY <2>1 DEF StakesInReach
<1>7. now <= MaxTime
  BY StakingAssumption DEF Init
<1> QED BY <1>1, <1>2, <1>4, <1>5, <1>6, <1>7 DEF BalanceInv

-----------------------------------------------------------------------------
(* What the histories say of the past. *)

\* The votes of all addresses are the stake of all accounts: a table of who
\* gives what to whom, added up by rows and by columns.
LEMMA VotesAreTotal ==
    ASSUME NEW p \in Pages, PageAddsUp(p)
    PROVE  SumFunctionOnSet(Votes(p), Delegatees) = LastStake(p.total)
<1> DEFINE s == Stakes(p)
           y == p.delegates
           row == [x \in Delegatees |-> Shares(s, y, x)]
           column == [a \in Accounts |-> [x \in Delegatees |-> Share(s, y, a, x)]]
<1>1. s \in [Accounts -> Nat] /\ y \in [Accounts -> Delegatees]
  BY FiguresAreNumbers
<1>2. \A a \in Accounts : s[a] > 0 => y[a] # NoAddress
  BY DEF PageAddsUp
<1>3. \A x \in Delegatees : Votes(p)[x] = SumFunctionOnSet(row[x], Accounts)
  BY DEF PageAddsUp
<1>4. LastStake(p.total) = SumFunctionOnSet(s, Accounts)
  BY DEF PageAddsUp
<1> HIDE DEF s, y
<1>5. \A x \in Delegatees, a \in Accounts :
          row[x][a] \in Int /\ column[a][x] = row[x][a]
  BY <1>1 DEF Shares, Share
<1>6. ASSUME NEW a \in Accounts
      PROVE  s[a] = SumFunctionOnSet(column[a], Delegatees)
  <2> DEFINE f == column[a]
             x == y[a]
  <2>1. x \in Delegatees /\ \A z \in Delegatees : f[z] \in Int
    BY <1>1, <1>5
  <2>2. f[x] = s[a]
    BY <1>1, <1>2 DEF Share
  <2>3. \A z \in Delegatees \ {x} : f[z] = 0
    BY <1>1 DEF Share
  <2> HIDE DEF f, x
  <2>4. SumFunctionOnSet(f, Delegatees) = f[x] + SumFunctionOnSet(f, Delegatees \ {x})
    BY <2>1, FiniteBook, SumRemove
  <2>5. SumFunctionOnSet(f, Delegatees \ {x}) = 0
    <3>1. IsFiniteSet(Delegatees \ {x})
      BY FiniteBook, FS_Difference
    <3> QED BY <2>3, <3>1, SumZero
  <2>6. s[a] \in Nat
    BY <1>1
  <2> QED BY <2>2, <2>4, <2>5, <2>6 DEF f
<1> HIDE DEF row, column
<1>7. SumFunctionOnSet(Votes(p), Delegatees) = SumFunctionOnSet(s, Accounts)
  <2>1. IsFiniteSet(Delegatees) /\ IsFiniteSet(Accounts)
    BY FiniteBook
  <2>2. IsTable(Delegatees, Accounts, row, column, Votes(p), s)
    BY <1>3, <1>5, <1>6 DEF IsTable
  <2> QED BY <2>1, <2>2, SumExchange
<1> QED BY <1>4, <1>7

\* Once a block is over, its histories agree about it.
LEMMA PastStep ==
    ASSUME BalanceInv, PastAddsUp, [Next]_vars
    PROVE  PastAddsUp'
<1> DEFINE SumOf(h, X, b) == SumFunction([x \in X |-> PriorAt(h[x], b)])
           Agrees(p, b) == /\ SumOf(p.delegated, Delegatees, b) = PriorAt(p.total, b)
                           /\ SumOf(p.staked, Vestings, b) = PriorAt(p.vested, b)
<1>1. \A d \in Dates, b \in 0..(block - 1) : Agrees(book[d], b)
  BY DEF PastAddsUp
<1>2. block \in Nat \ {0} /\ Vestings \subseteq Accounts
  BY FiniteBook DEF BalanceInv, StakingInv
<1>3. ASSUME NEW d \in Dates, NEW b \in 0..(block - 1)
      PROVE  Agrees(book'[d], b)
  <2> DEFINE p == book[d]
             q == book'[d]
  <2>1. PageAdvances(p, q)
    BY StepAdvances DEF BalanceInv, BookAdvances
  <2> HIDE DEF p, q
  <2>2. ASSUME NEW h, NEW g, Advances(h, g)
        PROVE  PriorAt(g, b) = PriorAt(h, b)
    BY <2>2 DEF Advances, PastKept
  <2>3. /\ PriorAt(q.total, b) = PriorAt(p.total, b)
        /\ PriorAt(q.vested, b) = PriorAt(p.vested, b)
        /\ \A x \in Delegatees : PriorAt(q.delegated[x], b) = PriorAt(p.delegated[x], b)
        /\ \A a \in Accounts : PriorAt(q.staked[a], b) = PriorAt(p.staked[a], b)
    BY <2>1, <2>2 DEF PageAdvances
  <2>4. [x \in Delegatees |-> PriorAt(q.delegated[x], b)] =
            [x \in Delegatees |-> PriorAt(p.delegated[x], b)]
    BY <2>3
  <2>5. [v \in Vestings |-> PriorAt(q.staked[v], b)] =
            [v \in Vestings |-> PriorAt(p.staked[v], b)]
    BY <1>2, <2>3
  <2>6. Agrees(p, b)
    BY <1>1 DEF p
  <2>7. Agrees(q, b)
    BY <2>3, <2>4, <2>5, <2>6
  <2> QED BY <2>7 DEF q
<1>4. ASSUME NEW d \in Dates
      PROVE  Agrees(book[d], block)
  <2> DEFINE p == book[d]
  <2>1. p \in Pages /\ PageAddsUp(p) /\ PageOK(p)
    BY BalanceOfPage
  <2> HIDE DEF p
  <2>2. ASSUME NEW h, Advances(h, h)
        PROVE  PriorAt(h, block) = LastStake(h)
    BY <1>2, <2>2, NowIsLast DEF Advances, HistoryOK
  <2>3. /\ PriorAt(p.total, block) = LastStake(p.total)
        /\ PriorAt(p.vested, block) = LastStake(p.vested)
        /\ \A x \in Delegatees : PriorAt(p.delegated[x], block) = LastStake(p.delegated[x])
        /\ \A a \in Accounts : PriorAt(p.staked[a], block) = LastStake(p.staked[a])
    BY <2>1, <2>2 DEF PageOK, PageAdvances
  <2>4. SumOf(p.delegated, Delegatees, block) = LastStake(p.total)
    <3>1. [x \in Delegatees |-> PriorAt(p.delegated[x], block)] = Votes(p)
      BY <2>3 DEF Votes
    <3>2. SumFunction(Votes(p)) = SumFunctionOnSet(Votes(p), Delegatees)
      BY SumOfFunction DEF Votes
    <3> QED BY <2>1, <3>1, <3>2, VotesAreTotal
  <2>5. SumOf(p.staked, Vestings, block) = LastStake(p.vested)
    <3> DEFINE f == [v \in Vestings |-> PriorAt(p.staked[v], block)]
    <3>1. SumFunction(f) = SumFunctionOnSet(f, Vestings)
      BY SumOfFunction
    <3>2. \A v \in Vestings : f[v] \in Int /\ f[v] = Stakes(p)[v]
      BY <1>2, <2>1, <2>3, FiguresAreNumbers DEF Stakes
    <3> HIDE DEF f
    <3>3. SumFunctionOnSet(f, Vestings) = SumFunctionOnSet(Stakes(p), Vestings)
      BY <3>2, FiniteBook, SumSame
    <3>4. SumFunction(f) = LastStake(p.vested)
      BY <2>1, <3>1, <3>3 DEF PageAddsUp
    <3> QED BY <3>4 DEF f
  <2>6. Agrees(p, block)
    BY <2>3, <2>4, <2>5
  <2> QED BY <2>6 DEF p
<1> HIDE DEF Agrees
<1>5. \A d \in Dates, b \in 0..(block' - 1) : Agrees(book'[d], b)
  <2>1. CASE block' = block
    BY <1>3, <2>1
  <2>2. CASE block' = block + 1 /\ book' = book
    <3>1. \A b \in 0..(block' - 1) : b \in 0..(block - 1) \/ b = block
      BY <1>2, <2>2
    <3> QED BY <1>1, <1>4, <2>2, <3>1
  <2> QED BY <2>1, <2>2, ClockStep
<1> QED BY <1>5 DEF PastAddsUp, Agrees

\* The switches of the contract keep their types, and so do the fees it collects.
SwitchesOK ==
    /\ collected \in Nat
    /\ paused \in BOOLEAN /\ frozen \in BOOLEAN /\ allUnlocked \in BOOLEAN
    /\ weightScaling \in 1..9
    /\ maxVestingWithdrawIterations \in Nat

\* A product of naturals is monotone.
LEMMA ProductGrows ==
    ASSUME NEW i \in Nat, NEW j \in Nat, NEW k \in Nat, i <= j
    PROVE  i * k \in Nat /\ i * k <= j * k
OBVIOUS

\* A weight is at most ten times the unit.
LEMMA WeightBounds ==
    ASSUME NEW d \in Nat, NEW s \in Nat, HasWeight(d, s)
    PROVE  Weight(d, s) \in Nat /\ Weight(d, s) <= 10 * WEIGHT_FACTOR
<1> DEFINE x == MAX_DURATION - (d - s)
           square == MAX_DURATION * MAX_DURATION
           A == MAX_VOTING_WEIGHT * WEIGHT_FACTOR
           y == square - x * x
<1>0. /\ MAX_DURATION \in Nat \ {0} /\ WEIGHT_FACTOR \in Nat \ {0}
      /\ MAX_VOTING_WEIGHT \in Nat /\ MAX_VOTING_WEIGHT <= 9
  BY StakingAssumption, BookAssumption
<1>1. x \in Nat /\ x <= MAX_DURATION
  BY <1>0 DEF HasWeight
<1>2. square \in Nat \ {0}
  BY <1>0
<1>3. x * x \in Nat /\ x * x <= square
  <2> HIDE DEF x
  <2>1. x * x <= MAX_DURATION * x
    BY <1>0, <1>1, ProductGrows
  <2>2. x * MAX_DURATION <= MAX_DURATION * MAX_DURATION
    BY <1>0, <1>1, ProductGrows
  <2> QED BY <1>0, <1>1, <2>1, <2>2
<1> HIDE DEF x, square
<1>4. y \in Nat /\ y <= square
  BY <1>2, <1>3
<1>5. A \in Nat /\ A <= 9 * WEIGHT_FACTOR
  BY <1>0, ProductGrows
<1> HIDE DEF y, A
<1>6. A * y \in Nat /\ A * y <= square * A
  <2>1. y * A \in Nat /\ y * A <= square * A
    BY <1>2, <1>4, <1>5, ProductGrows
  <2> QED BY <1>4, <1>5, <2>1
<1>7. A * y < square * (A + 1)
  <2>1. square * (A + 1) = square * A + square
    BY <1>2, <1>5
  <2>2. square * A \in Nat
    BY <1>2, <1>5
  <2> QED BY <1>2, <1>6, <2>1, <2>2
<1>8. (A * y) \div square < A + 1 /\ 0 <= (A * y) \div square /\ (A * y) \div square \in Int
  <2> DEFINE n == A * y
  <2>1. n \in Int /\ n < square * (A + 1) /\ square * 0 <= n /\ A + 1 \in Int
    BY <1>2, <1>5, <1>6, <1>7
  <2> HIDE DEF n
  <2>2. n \div square < A + 1
    BY <1>2, <2>1, QuotientBounds
  <2>3. 0 <= n \div square
    BY <1>2, <2>1, QuotientBounds
  <2>4. n \div square \in Int
    BY <1>2, <2>1, Division
  <2> QED BY <2>2, <2>3, <2>4 DEF n
<1>9. Weight(d, s) = WEIGHT_FACTOR + (A * y) \div square
  BY DEF Weight, A, y, x, square
<1> QED BY <1>0, <1>5, <1>8, <1>9

\* A punishment takes less than the stake.
LEMMA PunishedIsLess ==
    ASSUME now \in Nat, weightScaling \in 1..9, NEW amount \in Nat, NEW d \in Dates,
           HasWeight(d, LockDate(now))
    PROVE  /\ Punished(amount, d) \in Nat
           /\ amount > 0 => Punished(amount, d) < amount
<1> DEFINE w == Weight(d, LockDate(now))
           n == amount * w * weightScaling
           q == n \div WEIGHT_FACTOR
<1>0. WEIGHT_FACTOR \in Nat \ {0}
  BY StakingAssumption
<1>1. w \in Nat /\ w <= 10 * WEIGHT_FACTOR
  BY LockDateIs, DatesAreLockDates, WeightBounds
<1> HIDE DEF w
<1>2. n \in Nat /\ n <= WEIGHT_FACTOR * (90 * amount)
  <2> DEFINE u == 10 * WEIGHT_FACTOR
  <2>1. u \in Nat /\ w <= u
    BY <1>0, <1>1
  <2>2. w * amount \in Nat /\ w * amount <= u * amount
    <3> HIDE DEF u
    <3> QED BY <1>1, <2>1, ProductGrows
  <2> DEFINE k == w * amount
  <2>3. weightScaling * k \in Nat /\ weightScaling * k <= 9 * k
    <3> HIDE DEF k
    <3> QED BY <2>2, ProductGrows DEF k
  <2>4. n = weightScaling * k
    BY <1>1
  <2>5. 9 * (u * amount) = WEIGHT_FACTOR * (90 * amount)
    BY <1>0
  <2>6. u * amount \in Nat
    BY <1>0
  <2> HIDE DEF n, u
  <2>7. 9 * k <= 9 * (u * amount)
    BY <2>2, <2>6
  <2>8. 9 * k \in Nat
    BY <2>2
  <2>9. WEIGHT_FACTOR * (90 * amount) \in Nat
    BY <1>0
  <2> HIDE DEF k
  <2> QED BY <2>3, <2>4, <2>5, <2>6, <2>7, <2>8, <2>9
<1> HIDE DEF n
<1>3. q \in Int /\ 0 <= q /\ q < 90 * amount + 1
  <2>1. WEIGHT_FACTOR * (90 * amount + 1) = WEIGHT_FACTOR * (90 * amount) + WEIGHT_FACTOR
        /\ WEIGHT_FACTOR * (90 * amount) \in Nat
    BY <1>0
  <2>2. n \in Int /\ n < WEIGHT_FACTOR * (90 * amount + 1) /\ WEIGHT_FACTOR * 0 <= n
    BY <1>0, <1>2, <2>1
  <2>3. 90 * amount + 1 \in Int
    OBVIOUS
  <2>4. q \in Int
    BY <1>0, <2>2, Division
  <2>5. 0 <= q
    BY <1>0, <2>2, QuotientBounds
  <2>6. q < 90 * amount + 1
    BY <1>0, <2>2, <2>3, QuotientBounds
  <2> QED BY <2>4, <2>5, <2>6
<1>4. Punished(amount, d) = q \div 100
  BY DEF Punished, q, n, w
<1> HIDE DEF q
<1>5. q \div 100 \in Nat /\ (amount > 0 => q \div 100 < amount)
  BY <1>3
<1> QED BY <1>4, <1>5

\* A fee is taken of an early withdrawal only, and it is a number; what the
\* administration sets is of its type.
LEMMA SwitchesStep ==
    ASSUME BalanceInv, SwitchesOK, [Next]_vars
    PROVE  SwitchesOK'
<1> DEFINE Goal == SwitchesOK'
<1>1. ASSUME UNCHANGED switches, collected' \in Nat
      PROVE  Goal
  BY <1>1 DEF SwitchesOK, switches
<1>2. collected \in Nat /\ now \in Nat /\ weightScaling \in 1..9
  BY DEF SwitchesOK, BalanceInv, StakingInv
<1>3. ASSUME NEW sender \in Accounts, NEW a \in Accounts, NEW x \in Named,
             NEW amount \in Amounts, NEW until \in Times, Stake(sender, amount, until, a, x)
      PROVE  Goal
  BY <1>1, <1>2, <1>3 DEF Stake
<1>4. ASSUME NEW sender \in Accounts, NEW a \in Accounts, NEW x \in Named,
             NEW amount \in Amounts, NEW schedule \in Schedules,
             StakeBySchedule(sender, amount, schedule, a, x)
      PROVE  Goal
  BY <1>1, <1>2, <1>4 DEF StakeBySchedule
<1>5. ASSUME NEW a \in Accounts, NEW from \in Times, NEW to \in Times,
             ExtendStakingDuration(a, from, to)
      PROVE  Goal
  BY <1>1, <1>2, <1>5 DEF ExtendStakingDuration
<1>6. ASSUME NEW a \in Accounts, NEW until \in Times,
             NEW amount \in (Withdrawals \cup {Balance(AdjustDate(until), a)}) \ {0},
             Withdraw(a, amount, until)
      PROVE  Goal
  <2> DEFINE d     == AdjustDate(until)
             taken == IF IsNoWithdrawal(a, amount) THEN 0 ELSE amount
             fee   == IF taken > 0 /\ EarlyExit(d) THEN Punished(taken, d) ELSE 0
  <2>1. /\ d \in Dates
        /\ taken > 0 /\ EarlyExit(d) => HasWeight(d, LockDate(now))
        /\ collected' = collected + fee
        /\ UNCHANGED switches
    BY <1>6 DEF Withdraw
  <2>2. taken \in Nat
    BY <2>1, PriorBalanceIsNumber, StakingAssumption DEF BalanceInv
  <2> HIDE DEF taken, d
  <2>3. fee \in Nat
    BY <1>2, <2>1, <2>2, PunishedIsLess
  <2> HIDE DEF fee
  <2> QED BY <1>1, <1>2, <2>1, <2>3
<1>7. ASSUME NEW v \in TeamVestings, NEW from \in Times, CancelTeamVesting(v, from)
      PROVE  Goal
  BY <1>1, <1>2, <1>7 DEF CancelTeamVesting
<1>8. ASSUME NEW v \in TeamVestings, GovernanceWithdrawVesting(v)
      PROVE  Goal
  BY <1>1, <1>2, <1>8 DEF GovernanceWithdrawVesting
<1>9. ASSUME NEW a \in Accounts, NEW x \in Named, NEW d \in Dates, Delegate(a, x, d)
      PROVE  Goal
  BY <1>1, <1>2, <1>9 DEF Delegate
<1>10. ASSUME \/ \E pause \in BOOLEAN : PauseUnpause(pause)
              \/ \E freeze \in BOOLEAN : FreezeUnfreeze(freeze)
              \/ UnlockAllTokens
              \/ \E scaling \in Scalings : SetWeightScaling(scaling)
              \/ \E limit \in IterationLimits : SetMaxVestingWithdrawIterations(limit)
              \/ \E elapsed \in Elapsed : NextBlock(elapsed)
              \/ UNCHANGED vars
       PROVE  Goal
  <2>1. CASE \E pause \in BOOLEAN : PauseUnpause(pause)
    BY <2>1 DEF PauseUnpause, SwitchesOK
  <2>2. CASE \E freeze \in BOOLEAN : FreezeUnfreeze(freeze)
    <3>1. PICK freeze \in BOOLEAN : FreezeUnfreeze(freeze)
      BY <2>2
    <3>2. (paused \/ freeze) \in BOOLEAN
      OBVIOUS
    <3> QED BY <3>1, <3>2 DEF FreezeUnfreeze, SwitchesOK, PausedAfter
  <2>3. CASE UnlockAllTokens
    BY <2>3 DEF UnlockAllTokens, SwitchesOK
  <2>4. CASE \E scaling \in Scalings : SetWeightScaling(scaling)
    BY <2>4, StakingAssumption DEF SetWeightScaling, SwitchesOK
  <2>5. CASE \E limit \in IterationLimits : SetMaxVestingWithdrawIterations(limit)
    BY <2>5, StakingAssumption DEF SetMaxVestingWithdrawIterations, SwitchesOK
  <2>6. CASE \E elapsed \in Elapsed : NextBlock(elapsed)
    BY <1>1, <1>2, <2>6 DEF NextBlock
  <2>7. CASE UNCHANGED vars
    BY <1>1, <1>2, <2>7 DEF vars
  <2> QED BY <1>10, <2>1, <2>2, <2>3, <2>4, <2>5, <2>6, <2>7
<1> HIDE DEF Goal
<1>11. Goal
  BY <1>3, <1>4, <1>5, <1>6, <1>7, <1>8, <1>9, <1>10 DEF Next
<1> QED BY <1>11 DEF Goal

\* The inductive invariant of the books.
BookKept == BalanceInv /\ PastAddsUp /\ SwitchesOK

LEMMA BookKeptInit == Init => BookKept
<1> SUFFICES ASSUME Init
             PROVE  BookKept
  OBVIOUS
<1>1. PastAddsUp
  <2>1. \A b \in Nat : PriorAt(<<>>, b) = 0
    BY DEF PriorAt, KnownAt
  <2>2. ASSUME NEW X, IsFiniteSet(X), NEW f, f = [x \in X |-> 0]
        PROVE  SumFunction(f) = 0
    <3>1. SumFunction(f) = SumFunctionOnSet(f, X)
      BY <2>2, SumOfFunction
    <3>2. \A x \in X : f[x] = 0
      BY <2>2
    <3> QED BY <2>2, <3>1, <3>2, SumZero
  <2>3. ASSUME NEW d \in Dates, NEW b \in 0..(block - 1)
        PROVE  /\ SumFunction([x \in Delegatees |-> PriorAt(book[d].delegated[x], b)]) =
                      PriorAt(book[d].total, b)
               /\ SumFunction([v \in Vestings |-> PriorAt(book[d].staked[v], b)]) =
                      PriorAt(book[d].vested, b)
    <3>1. b \in Nat /\ book[d] = EmptyPage
      BY DEF Init
    <3>2. PriorAt(book[d].total, b) = 0 /\ PriorAt(book[d].vested, b) = 0
      BY <2>1, <3>1 DEF EmptyPage
    <3>3. [x \in Delegatees |-> PriorAt(book[d].delegated[x], b)] = [x \in Delegatees |-> 0]
      BY <2>1, <3>1 DEF EmptyPage
    <3>4. [v \in Vestings |-> PriorAt(book[d].staked[v], b)] = [v \in Vestings |-> 0]
      BY <2>1, <3>1, FiniteBook DEF EmptyPage
    <3> QED BY <2>2, <3>2, <3>3, <3>4, FiniteBook
  <2> QED BY <2>3 DEF PastAddsUp
<1>2. SwitchesOK
  <2>1. paused \in BOOLEAN /\ frozen \in BOOLEAN /\ allUnlocked \in BOOLEAN
    BY Zenon DEF Init
  <2>2. /\ collected \in Nat
        /\ weightScaling \in 1..9
        /\ maxVestingWithdrawIterations \in Nat
    BY SMT DEF Init
  <2> QED BY <2>1, <2>2 DEF SwitchesOK
<1> QED BY <1>1, <1>2, BalanceInit DEF BookKept

LEMMA BooksStayKept == Spec => []BookKept
<1>1. BookKept /\ [Next]_vars => BookKept'
  BY BalanceStep, PastStep, SwitchesStep DEF BookKept, SwitchesOK
<1> QED BY <1>1, BookKeptInit, PTL DEF Spec

-----------------------------------------------------------------------------
(* What follows from the invariant. *)

LEMMA KeptIsTyped == BookKept => TypeOK
<1> SUFFICES ASSUME BookKept
             PROVE  TypeOK
  OBVIOUS
<1>1. held \in Nat
  BY TotalsAreNumbers DEF BookKept, BalanceInv
<1> QED BY <1>1 DEF TypeOK, BookKept, SwitchesOK, BalanceInv, StakingInv

LEMMA KeptAddsUp == BookKept => BooksAddUp
<1> SUFFICES ASSUME BookKept
             PROVE  BooksAddUp
  OBVIOUS
<1>0. BalanceInv
  BY DEF BookKept
<1>1. ASSUME NEW d \in Dates
      PROVE  LET balances == [a \in Accounts |-> LastStake(book[d].staked[a])]
             IN  /\ LastStake(book[d].total) = SumFunction(balances)
                 /\ LastStake(book[d].vested) = SumFunctionOnSet(balances, Vestings)
  <2>1. PageAddsUp(book[d])
    BY <1>0, BalanceOfPage
  <2>2. SumFunction(Stakes(book[d])) = SumFunctionOnSet(Stakes(book[d]), Accounts)
    BY SumOfFunction DEF Stakes
  <2>3. Stakes(book[d]) = [a \in Accounts |-> LastStake(book[d].staked[a])]
    BY DEF Stakes
  <2> QED BY <2>1, <2>2, <2>3 DEF PageAddsUp
<1>2. held = SumFunction([d \in Dates |-> LastStake(book[d].total)])
  <2>1. held = SumFunctionOnSet(Totals(book), Dates)
    BY <1>0 DEF BalanceInv, TotalOf
  <2>2. SumFunction(Totals(book)) = SumFunctionOnSet(Totals(book), Dates)
    BY SumOfFunction DEF Totals
  <2> QED BY <2>1, <2>2 DEF Totals
<1>3. ASSUME NEW d \in Dates, NEW x \in Delegatees
      PROVE  LastStake(book[d].delegated[x]) =
                 SumFunction([a \in {b \in Accounts : book[d].delegates[b] = x /\ x # NoAddress} |->
                                 LastStake(book[d].staked[a])])
  <2> DEFINE p == book[d]
             T == {b \in Accounts : p.delegates[b] = x /\ x # NoAddress}
             f == [a \in T |-> LastStake(p.staked[a])]
             g == Shares(Stakes(p), p.delegates, x)
  <2>1. p \in Pages /\ PageAddsUp(p)
    BY <1>0, BalanceOfPage
  <2>2. LastStake(p.delegated[x]) = SumFunctionOnSet(g, Accounts)
    <3>1. Votes(p)[x] = LastStake(p.delegated[x])
      BY DEF Votes
    <3>2. Votes(p)[x] = SumFunctionOnSet(g, Accounts)
      BY <2>1 DEF PageAddsUp
    <3> QED BY <3>1, <3>2
  <2>3. T \in SUBSET Accounts
    OBVIOUS
  <2>4. \A a \in T : f[a] \in Int /\ g[a] = f[a]
    <3>1. \A a \in Accounts : Stakes(p)[a] = LastStake(p.staked[a]) /\ Stakes(p)[a] \in Nat
      BY <2>1, FiguresAreNumbers DEF Stakes
    <3> QED BY <3>1 DEF Shares, Share
  <2>5. \A a \in Accounts \ T : g[a] = 0
    BY DEF Shares, Share
  <2>6. SumFunction(f) = SumFunctionOnSet(f, T)
    BY SumOfFunction
  <2> HIDE DEF f, g, T
  <2>7. SumFunctionOnSet(g, Accounts) = SumFunctionOnSet(f, T)
    BY <2>3, <2>4, <2>5, FiniteBook, SumOnPart
  <2> QED BY <2>2, <2>6, <2>7 DEF f, T
<1>4. StakesAddUp
  BY <1>1, <1>2 DEF StakesAddUp
<1>5. DelegationsAddUp
  BY <1>3 DEF DelegationsAddUp
<1> QED BY <1>4, <1>5 DEF BooksAddUp

LEMMA KeptIsWithdrawable == BookKept => StakesAreWithdrawable
<1> SUFFICES ASSUME BookKept, NEW d \in Dates, NEW a \in Accounts,
                    Balance(d, a) > 0, ~ StakedInBlock(d, a)
             PROVE  /\ MayWithdraw(d, a, Balance(d, a))
                    /\ held >= Balance(d, a)
                    /\ now < d => /\ HasWeight(d, LockDate(now))
                                  /\ Punished(Balance(d, a), d) < Balance(d, a)
  BY DEF StakesAreWithdrawable
<1> DEFINE p == book[d]
           n == Stakes(p)[a]
<1>0. BalanceInv /\ SwitchesOK
  BY DEF BookKept
<1>1. /\ p \in Pages /\ PageAddsUp(p) /\ now \in Nat
      /\ Balance(d, a) = n
  BY <1>0, BalanceOfPage
<1>2. n \in Nat /\ LastStake(p.total) \in Nat
  BY <1>1, FiguresAreNumbers
<1>3. MayWithdraw(d, a, n)
  <2>1. PriorAt(p.staked[a], block - 1) = n
    BY <1>0, FreshStake
  <2>2. n = LastStake(p.staked[a])
    BY DEF Stakes
  <2>3. n <= LastStake(p.total) /\ (a \in Vestings => n <= LastStake(p.vested))
    BY <1>1, StakesAreCovered
  <2> HIDE DEF n
  <2>4. LastStake(p.vested) \in Nat
    BY <1>1, FiguresAreNumbers
  <2> QED BY <1>2, <2>1, <2>2, <2>3, <2>4 DEF MayWithdraw, CanDecrease
<1>4. held >= n
  <2>1. \A e \in Dates : Totals(book)[e] \in Nat
    BY <1>0, BalanceOfPage
  <2>2. Totals(book)[d] <= TotalOf(book) /\ TotalOf(book) \in Nat
    BY <2>1, DatesFinite, SumOfNats DEF TotalOf
  <2>3. Totals(book)[d] = LastStake(p.total) /\ n <= LastStake(p.total) /\ held = TotalOf(book)
    BY <1>0, <1>1, StakesAreCovered DEF Totals, BalanceInv
  <2> QED BY <1>2, <2>2, <2>3
<1>5. ASSUME now < d
      PROVE  HasWeight(d, LockDate(now)) /\ Punished(n, d) < n
  <2>1. d <= LatestLock
    BY <1>0 DEF BalanceInv, StakesInReach
  <2>2. LatestLock = LockDate(now) + MAX_DURATION
    BY <1>1, LatestLockIs
  <2>3. LockDate(now) \in Nat /\ LockDate(now) <= now /\ d \in Nat
    BY <1>1, LockDateIs, DatesAreLockDates
  <2>4. HasWeight(d, LockDate(now))
    BY <1>1, <1>5, <2>1, <2>2, <2>3, StakingAssumption DEF HasWeight
  <2>5. n > 0
    BY <1>1
  <2> HIDE DEF n
  <2> QED BY <1>0, <1>1, <1>2, <2>4, <2>5, PunishedIsLess DEF SwitchesOK
<1> QED BY <1>1, <1>3, <1>4, <1>5

-----------------------------------------------------------------------------
(* Votes and weighted stakes.  What is rounded down part by part is no more *)
(* than the sum rounded down once.                                          *)

\* The parts' quotients and the quotient of the sum.
LEMMA FloorsWithin ==
    ASSUME NEW S, IsFiniteSet(S), NEW w \in Nat, NEW m \in Nat \ {0},
           NEW f, NEW g, \A x \in S : f[x] \in Nat /\ g[x] = (f[x] * w) \div m
    PROVE  /\ \A x \in S : g[x] \in Int
           /\ SumFunctionOnSet(g, S) \in Int
           /\ SumFunctionOnSet(g, S) <= (SumFunctionOnSet(f, S) * w) \div m
<1>0. \A x \in S : f[x] \in Int
  OBVIOUS
<1>1. \A x \in S : f[x] \in Int /\ g[x] \in Int /\ m * g[x] <= f[x] * w
  <2> SUFFICES ASSUME NEW x \in S
               PROVE  f[x] \in Int /\ g[x] \in Int /\ m * g[x] <= f[x] * w
    OBVIOUS
  <2>1. ASSUME NEW n \in Int
        PROVE  n \div m \in Int /\ m * (n \div m) <= n
    BY Division, <2>1
  <2>2. f[x] * w \in Int
    OBVIOUS
  <2> QED BY <2>1, <2>2
<1> DEFINE G == {s \in SUBSET S : m * SumFunctionOnSet(g, s) <= SumFunctionOnSet(f, s) * w}
<1>2. {} \in G
  <2>1. SumFunctionOnSet(g, {}) = 0 /\ SumFunctionOnSet(f, {}) = 0
    BY SumEmpty
  <2> QED BY <2>1
<1>3. ASSUME NEW t \in SUBSET S, NEW x \in S \ t, t \in G
      PROVE  t \cup {x} \in G
  <2>1. /\ SumFunctionOnSet(g, t) \in Int
        /\ SumFunctionOnSet(g, t \cup {x}) = g[x] + SumFunctionOnSet(g, t)
    BY <1>1, SumAddElement
  <2>2. /\ SumFunctionOnSet(f, t) \in Int
        /\ SumFunctionOnSet(f, t \cup {x}) = f[x] + SumFunctionOnSet(f, t)
    BY <1>0, SumAddElement
  <2>3. ASSUME NEW i \in Int, NEW j \in Int, NEW k \in Int, NEW l \in Int,
               m * i <= j * w, m * k <= l * w
        PROVE  m * (i + k) <= (j + l) * w
    BY ONLY <2>3, m \in Nat, w \in Nat
  <2>4. m * SumFunctionOnSet(g, t) <= SumFunctionOnSet(f, t) * w
    BY <1>3
  <2>5. g[x] \in Int /\ f[x] \in Int /\ m * g[x] <= f[x] * w
    BY <1>1
  <2>6. m * (g[x] + SumFunctionOnSet(g, t)) <= (f[x] + SumFunctionOnSet(f, t)) * w
    BY <2>1, <2>2, <2>3, <2>4, <2>5
  <2>7. t \cup {x} \in SUBSET S
    OBVIOUS
  <2> QED BY <2>1, <2>2, <2>6, <2>7
<1> HIDE DEF G
<1>4. S \in G
  BY <1>2, <1>3, GrowingSets
<1>5. SumFunctionOnSet(g, S) \in Int /\ SumFunctionOnSet(f, S) \in Int
  BY <1>1, SumType
<1>6. m * SumFunctionOnSet(g, S) <= SumFunctionOnSet(f, S) * w
  BY <1>4 DEF G
<1>7. SumFunctionOnSet(f, S) * w \in Int
  BY <1>5
<1> QED BY <1>1, <1>5, <1>6, <1>7, QuotientBounds

\* The lock dates that count at a time are finitely many and have a weight.
LEMMA LockDatesHaveWeights ==
    ASSUME NEW time \in Nat
    PROVE  /\ IsFiniteSet(LockDates(time)) /\ LockDates(time) \subseteq Dates
           /\ \A d \in LockDates(time) : Weight(d, LockDate(time)) \in Nat
<1>1. LockDates(time) \subseteq Dates /\ IsFiniteSet(LockDates(time))
  BY DatesFinite, FS_Subset DEF LockDates
<1>2. ASSUME NEW d \in LockDates(time)
      PROVE  Weight(d, LockDate(time)) \in Nat
  <2>1. d \in Nat /\ LockDate(time) \in Nat /\ d \in LockDate(time)..(LockDate(time) + MAX_DURATION)
    BY <1>1, LockDateIs, DatesAreLockDates DEF LockDates
  <2>2. HasWeight(d, LockDate(time))
    BY <2>1, StakingAssumption DEF HasWeight
  <2> QED BY <2>1, <2>2, WeightBounds
<1> QED BY <1>1, <1>2

\* Who holds s[x][d] for lock date d, of a total of t[d], has together no more
\* weighted stake than the total has.
HoldTogether(X, s, t, time) ==
    \A d \in LockDates(time) :
        /\ \A x \in X : s[x][d] \in Nat
        /\ t[d] = SumFunctionOnSet([x \in X |-> s[x][d]], X)

PowerOfOne(s, x, time) ==
    SumFunctionOnSet([d \in LockDates(time) |-> PowerOf(s[x][d], d, time)], LockDates(time))

LEMMA PowersWithin ==
    ASSUME NEW time \in Nat, NEW X, IsFiniteSet(X), NEW s, NEW t,
           HoldTogether(X, s, t, time)
    PROVE  SumFunctionOnSet([x \in X |-> PowerOfOne(s, x, time)], X) <=
               SumFunctionOnSet([d \in LockDates(time) |-> PowerOf(t[d], d, time)],
                                LockDates(time))
<1> DEFINE D == LockDates(time)
           row == [x \in X |-> [d \in D |-> PowerOf(s[x][d], d, time)]]
           column == [d \in D |-> [x \in X |-> PowerOf(s[x][d], d, time)]]
           rows == [x \in X |-> PowerOfOne(s, x, time)]
           columns == [d \in D |-> SumFunctionOnSet(column[d], X)]
           powers == [d \in D |-> PowerOf(t[d], d, time)]
<1>1. IsFiniteSet(D) /\ \A d \in D : Weight(d, LockDate(time)) \in Nat
  BY LockDatesHaveWeights
<1>2. ASSUME NEW d \in D
      PROVE  /\ \A x \in X : column[d][x] \in Int
             /\ columns[d] \in Int /\ powers[d] \in Int /\ columns[d] <= powers[d]
  <2> DEFINE w == Weight(d, LockDate(time))
             f == [x \in X |-> s[x][d]]
             g == column[d]
  <2>1. w \in Nat /\ WEIGHT_FACTOR \in Nat \ {0}
    BY <1>1, StakingAssumption
  <2>2. /\ \A x \in X : f[x] \in Nat
        /\ t[d] = SumFunctionOnSet(f, X)
    BY DEF HoldTogether
  <2>3. \A x \in X : g[x] = (f[x] * w) \div WEIGHT_FACTOR
    BY DEF PowerOf
  <2>4. powers[d] = (t[d] * w) \div WEIGHT_FACTOR /\ columns[d] = SumFunctionOnSet(g, X)
    BY DEF PowerOf
  <2> HIDE DEF w, f, g, columns, powers
  <2>5. /\ \A x \in X : g[x] \in Int
        /\ SumFunctionOnSet(g, X) \in Int
        /\ SumFunctionOnSet(g, X) <= (SumFunctionOnSet(f, X) * w) \div WEIGHT_FACTOR
    BY <2>1, <2>2, <2>3, FloorsWithin
  <2>6. SumFunctionOnSet(f, X) \in Int
    BY <2>2, SumType
  <2>7. powers[d] \in Int
    <3>1. t[d] * w \in Int
      BY <2>1, <2>2, <2>6
    <3> QED BY <2>1, <2>4, <3>1, Division
  <2>8. \A x \in X : column[d][x] \in Int
    BY <2>5 DEF g
  <2> QED BY <2>2, <2>4, <2>5, <2>7, <2>8
<1>3. IsTable(X, D, row, column, rows, columns)
  <2>1. \A x \in X, d \in D : row[x][d] \in Int /\ column[d][x] = row[x][d]
    BY <1>2
  <2>2. \A x \in X : rows[x] = SumFunctionOnSet(row[x], D)
    BY DEF PowerOfOne
  <2>3. \A d \in D : columns[d] = SumFunctionOnSet(column[d], X)
    OBVIOUS
  <2> HIDE DEF D, row, column, rows, columns
  <2> QED BY <2>1, <2>2, <2>3 DEF IsTable
<1>4. SumFunctionOnSet(columns, D) <= SumFunctionOnSet(powers, D)
  <2> HIDE DEF D, column, columns, powers
  <2> QED BY <1>1, <1>2, SumOrder
<1>5. SumFunctionOnSet(rows, X) = SumFunctionOnSet(columns, D)
  <2> HIDE DEF D, row, column, rows, columns
  <2> QED BY <1>1, <1>3, SumExchange
<1> QED BY <1>4, <1>5

\* At any past block the votes of all addresses are within the total, and the
\* weighted stakes of the vesting contracts within the weighted vesting stake.
LEMMA KeptVotesWithin == BookKept => VotesWithinTotal
<1> SUFFICES ASSUME BookKept, NEW b \in 0..(block - 1), NEW time \in {d \in Dates : d <= now}
             PROVE  /\ SumFunction([x \in Delegatees |-> PriorVotes(x, b, time)])
                           <= PriorTotalVotingPower(b, time)
                    /\ SumFunction([v \in Vestings |-> PriorWeightedStake(v, b, time)])
                           <= PriorVestingWeightedStake(b, time)
  BY DEF VotesWithinTotal
<1> DEFINE D == LockDates(time)
           votes == [x \in Delegatees |-> [d \in D |-> PriorAt(book[d].delegated[x], b)]]
           total == [d \in D |-> PriorAt(book[d].total, b)]
           stakes == [v \in Vestings |-> [d \in D |-> PriorAt(book[d].staked[v], b)]]
           vested == [d \in D |-> PriorAt(book[d].vested, b)]
<1>0. BalanceInv /\ PastAddsUp
  BY DEF BookKept
<1>1. b \in Nat /\ time \in Nat /\ D \subseteq Dates
  BY <1>0, DatesAreLockDates, LockDatesHaveWeights DEF BalanceInv, StakingInv
<1>2. ASSUME NEW d \in Dates
      PROVE  /\ \A x \in Delegatees : PriorAt(book[d].delegated[x], b) \in Nat
             /\ \A v \in Vestings : PriorAt(book[d].staked[v], b) \in Nat
  <2>1. book[d] \in Pages
    BY <1>0, BalanceOfPage
  <2>2. /\ \A x \in Delegatees : book[d].delegated[x] \in Histories
        /\ \A v \in Vestings : book[d].staked[v] \in Histories
    BY <2>1, FiniteBook DEF Pages
  <2> QED BY <1>1, <2>2, StakesAreNumbers
<1>3. HoldTogether(Delegatees, votes, total, time)
  <2> SUFFICES ASSUME NEW d \in D
               PROVE  /\ \A x \in Delegatees : votes[x][d] \in Nat
                      /\ total[d] = SumFunctionOnSet([x \in Delegatees |-> votes[x][d]], Delegatees)
    BY DEF HoldTogether
  <2> DEFINE f == [x \in Delegatees |-> PriorAt(book[d].delegated[x], b)]
  <2>1. d \in Dates
    BY <1>1
  <2>2. SumFunction(f) = total[d]
    BY <1>0, <2>1 DEF PastAddsUp
  <2>3. SumFunction(f) = SumFunctionOnSet(f, Delegatees)
    BY SumOfFunction
  <2>4. [x \in Delegatees |-> votes[x][d]] = f
    OBVIOUS
  <2>5. \A x \in Delegatees : votes[x][d] \in Nat
    BY <1>2, <2>1
  <2> QED BY <2>2, <2>3, <2>4, <2>5
<1>4. HoldTogether(Vestings, stakes, vested, time)
  <2> SUFFICES ASSUME NEW d \in D
               PROVE  /\ \A v \in Vestings : stakes[v][d] \in Nat
                      /\ vested[d] = SumFunctionOnSet([v \in Vestings |-> stakes[v][d]], Vestings)
    BY DEF HoldTogether
  <2> DEFINE f == [v \in Vestings |-> PriorAt(book[d].staked[v], b)]
  <2>1. d \in Dates
    BY <1>1
  <2>2. SumFunction(f) = vested[d]
    BY <1>0, <2>1 DEF PastAddsUp
  <2>3. SumFunction(f) = SumFunctionOnSet(f, Vestings)
    BY SumOfFunction
  <2>4. [v \in Vestings |-> stakes[v][d]] = f
    OBVIOUS
  <2>5. \A v \in Vestings : stakes[v][d] \in Nat
    BY <1>2, <2>1
  <2> QED BY <2>2, <2>3, <2>4, <2>5
<1>5. ASSUME NEW X, IsFiniteSet(X), NEW s, NEW t, HoldTogether(X, s, t, time)
      PROVE  SumFunction([x \in X |-> SumFunction([d \in D |-> PowerOf(s[x][d], d, time)])]) <=
                 SumFunction([d \in D |-> PowerOf(t[d], d, time)])
  <2>1. \A x \in X : SumFunction([d \in D |-> PowerOf(s[x][d], d, time)]) = PowerOfOne(s, x, time)
    BY SumOfFunction DEF PowerOfOne
  <2>2. [x \in X |-> SumFunction([d \in D |-> PowerOf(s[x][d], d, time)])] =
            [x \in X |-> PowerOfOne(s, x, time)]
    BY <2>1
  <2>3. SumFunction([x \in X |-> PowerOfOne(s, x, time)]) =
            SumFunctionOnSet([x \in X |-> PowerOfOne(s, x, time)], X)
    BY SumOfFunction
  <2>4. SumFunction([d \in D |-> PowerOf(t[d], d, time)]) =
            SumFunctionOnSet([d \in D |-> PowerOf(t[d], d, time)], D)
    BY SumOfFunction
  <2>5. SumFunctionOnSet([x \in X |-> PowerOfOne(s, x, time)], X) <=
            SumFunctionOnSet([d \in D |-> PowerOf(t[d], d, time)], D)
    BY <1>1, <1>5, PowersWithin
  <2> HIDE DEF D
  <2> QED BY <2>2, <2>3, <2>4, <2>5
<1>6. SumFunction([x \in Delegatees |-> PriorVotes(x, b, time)]) <= PriorTotalVotingPower(b, time)
  <2>1. ASSUME NEW x \in Delegatees
        PROVE  PriorVotes(x, b, time) =
                   SumFunction([d \in D |-> PowerOf(votes[x][d], d, time)])
    <3>1. [d \in D |-> PowerOf(PriorAt(book[d].delegated[x], b), d, time)] =
              [d \in D |-> PowerOf(votes[x][d], d, time)]
      OBVIOUS
    <3> QED BY <3>1 DEF PriorVotes
  <2>2. PriorTotalVotingPower(b, time) = SumFunction([d \in D |-> PowerOf(total[d], d, time)])
    <3>1. [d \in D |-> PowerOf(PriorAt(book[d].total, b), d, time)] =
              [d \in D |-> PowerOf(total[d], d, time)]
      OBVIOUS
    <3> QED BY <3>1 DEF PriorTotalVotingPower
  <2> HIDE DEF votes, total, D
  <2>3. [x \in Delegatees |-> PriorVotes(x, b, time)] =
            [x \in Delegatees |-> SumFunction([d \in D |-> PowerOf(votes[x][d], d, time)])]
    BY <2>1
  <2> QED BY <1>3, <1>5, <2>2, <2>3, FiniteBook
<1>7. SumFunction([v \in Vestings |-> PriorWeightedStake(v, b, time)])
          <= PriorVestingWeightedStake(b, time)
  <2>1. ASSUME NEW v \in Vestings
        PROVE  PriorWeightedStake(v, b, time) =
                   SumFunction([d \in D |-> PowerOf(stakes[v][d], d, time)])
    <3>1. [d \in D |-> PowerOf(PriorAt(book[d].staked[v], b), d, time)] =
              [d \in D |-> PowerOf(stakes[v][d], d, time)]
      OBVIOUS
    <3> QED BY <3>1 DEF PriorWeightedStake
  <2>2. PriorVestingWeightedStake(b, time) = SumFunction([d \in D |-> PowerOf(vested[d], d, time)])
    <3>1. [d \in D |-> PowerOf(PriorAt(book[d].vested, b), d, time)] =
              [d \in D |-> PowerOf(vested[d], d, time)]
      OBVIOUS
    <3> QED BY <3>1 DEF PriorVestingWeightedStake
  <2> HIDE DEF stakes, vested, D
  <2>3. [v \in Vestings |-> PriorWeightedStake(v, b, time)] =
            [v \in Vestings |-> SumFunction([d \in D |-> PowerOf(stakes[v][d], d, time)])]
    BY <2>1
  <2> QED BY <1>4, <1>5, <2>2, <2>3, FiniteBook
<1> QED BY <1>6, <1>7

-----------------------------------------------------------------------------
(* The theorems about the books. *)

LEMMA KeptIsInvariant == BookKept => BooksInv
<1> SUFFICES ASSUME BookKept
             PROVE  BooksInv
  OBVIOUS
<1>0. BalanceInv
  BY DEF BookKept
<1>1. StakesHaveDelegatees
  <2> SUFFICES ASSUME NEW d \in Dates, NEW a \in Accounts, Balance(d, a) > 0
               PROVE  book[d].delegates[a] # NoAddress
    BY DEF StakesHaveDelegatees
  <2>1. PageAddsUp(book[d])
    BY <1>0, BalanceOfPage
  <2>2. Stakes(book[d])[a] = Balance(d, a)
    BY DEF Stakes, Balance
  <2> QED BY <2>1, <2>2 DEF PageAddsUp
<1>2. TypeOK /\ BooksAddUp
  BY KeptIsTyped, KeptAddsUp
<1> QED BY <1>1, <1>2 DEF BooksInv, BookKept, BalanceInv

\* The books, with what makes them inductive: every variable has its type and
\* no stake is negative, the five histories and the tokens agree, no stake is
\* without a delegatee or beyond the reach of a weight, and the histories
\* agree about every block that is over.
THEOREM BooksAreInvariant == Spec => []BooksInv
<1>1. BookKept => BooksInv
  BY KeptIsInvariant
<1> QED BY <1>1, BooksStayKept, PTL

\* Every variable of the staking contract keeps its type: whatever is staked,
\* extended, withdrawn, cancelled or delegated, no stake, total or vote is negative.
THEOREM StakingTypeCorrect == Spec => []TypeOK
<1>1. BookKept => TypeOK
  BY KeptIsTyped
<1> QED BY <1>1, BooksStayKept, PTL

\* The books add up, the votes of all addresses stay within the total voting
\* power at every past block, and whoever has a stake can take it out.
THEOREM BooksStaySound == Spec => []StakingBooks
<1>1. BookKept => StakingBooks
  BY KeptAddsUp, KeptVotesWithin, KeptIsWithdrawable DEF StakingBooks
<1> QED BY <1>1, BooksStayKept, PTL

\* A cancellation empties every date of a schedule that begins at a lock date,
\* unless the stake of that date was changed in this block.
LEMMA CancellationEmpties ==
    ASSUME BalanceInv, maxVestingWithdrawIterations \in Nat,
           NEW v \in TeamVestings, GovernanceWithdrawVesting(v),
           ScheduleOf[v].first % TWO_WEEKS = 0,
           NEW d \in Dates, d \in ScheduleOf[v].first..ScheduleOf[v].end,
           ~ StakedInBlock(d, v)
    PROVE  LastStake(book'[d].staked[v]) = 0
<1> DEFINE start == ScheduleOf[v].first
           end == ScheduleOf[v].end
           I == ScheduleFrom(v, start)
           C == {i \in I : StakeToCancel(v, i) > 0}
           P == CHOOSE i \in C : LockDate(i) = d
           p == book[d]
           n == Stakes(p)[v]
<1>1. /\ \A i \in C : MayWithdraw(LockDate(i), v, StakeToCancel(v, i))
      /\ book'[d] = IF \E i \in C : LockDate(i) = d
                    THEN WithdrawFromPage(p, v, StakeToCancel(v, P)) ELSE p
  <2>1. /\ CancelDates(v, DatesFrom(v)[start])
        /\ maxVestingWithdrawIterations > 0
    BY DEF GovernanceWithdrawVesting
  <2>2. start \in Nat /\ v \in Vestings
    BY StakingAssumption, BookAssumption
  <2>3. CancelDates(v, I)
    BY <2>1, <2>2, PagesVisitAll
  <2> QED BY <2>3 DEF CancelDates
<1>2. v \in Accounts /\ v \in Vestings
  BY StakingAssumption DEF Accounts
<1>3. /\ TWO_WEEKS \in Nat \ {0} /\ start \in Nat /\ end \in Nat
      /\ start % TWO_WEEKS = 0 /\ d % TWO_WEEKS = 0
      /\ d \in Nat /\ start <= d /\ d <= end /\ LockDate(d) = d
  BY <1>2, StakingAssumption, BookAssumption, DatesAreLockDates
<1>4. /\ p \in Pages /\ PageAddsUp(p) /\ block \in Nat
  BY BalanceOfPage
<1>5. n \in Nat /\ n = LastStake(p.staked[v])
  BY <1>2, <1>4, FiguresAreNumbers DEF Stakes
<1>6. StakeToCancel(v, d) = n
  <2>1. AdjustDate(d) = d
    BY <1>3 DEF AdjustDate
  <2> QED BY <1>2, <2>1, FreshStake DEF StakeToCancel
<1> HIDE DEF n, p
<1>7. d \in I
  <2>1. (d - start) % TWO_WEEKS = 0
    BY <1>3, Multiples
  <2> QED BY <1>3, <2>1 DEF ScheduleFrom
<1>8. ASSUME NEW i \in C, LockDate(i) = d
      PROVE  i = d
  <2>1. i \in Nat /\ (i - start) % TWO_WEEKS = 0
    BY <1>3 DEF ScheduleFrom
  <2>2. ((i - start) + start) % TWO_WEEKS = 0
    BY <1>3, <2>1, Multiples
  <2>3. (i - start) + start = i
    BY <1>3, <2>1
  <2>4. i % TWO_WEEKS = 0
    BY <2>2, <2>3
  <2>5. LockDate(i) = i
    <3>1. ASSUME NEW t \in Nat, t % TWO_WEEKS = 0
          PROVE  LockDate(t) = t
      <4>1. t < t + TWO_WEEKS /\ t <= t
        BY <1>3
      <4> QED BY <3>1, <4>1, LockDateIs
    <3> QED BY <2>1, <2>4, <3>1
  <2> QED BY <1>8, <2>5
<1> HIDE DEF I
<1>9. CASE n = 0
  <2>1. ~ \E i \in C : LockDate(i) = d
    BY <1>6, <1>8, <1>9
  <2>2. book'[d] = p
    BY <1>1, <2>1
  <2> QED BY <1>5, <1>9, <2>2
<1>10. CASE n > 0
  <2>1. d \in C /\ LockDate(d) = d
    BY <1>3, <1>6, <1>7, <1>10
  <2>2. P = d
    BY <1>8, <2>1
  <2> HIDE DEF C, P
  <2>3. book'[d] = WithdrawFromPage(p, v, n)
    BY <1>1, <1>6, <2>1, <2>2
  <2>4. CanDecrease(p, v, n)
    BY <1>1, <1>6, <2>1 DEF MayWithdraw, p
  <2>5. Rebooked(p, book'[d], v, n - n, p.delegates[v])
    <3>1. Rebooked(p, WithdrawFromPage(p, v, n), v, Stakes(p)[v] - n, p.delegates[v])
      BY <1>2, <1>4, <1>5, <2>4, WithdrawRebooks
    <3> QED BY <2>3, <3>1 DEF n
  <2>6. Stakes(book'[d])[v] = n - n
    BY <1>2, <1>4, <2>5, FiguresAreNumbers DEF Rebooked
  <2>7. Stakes(book'[d])[v] = LastStake(book'[d].staked[v])
    BY <1>2 DEF Stakes
  <2> QED BY <1>5, <2>6, <2>7
<1> QED BY <1>5, <1>9, <1>10

\* A cancellation by the governance, in pages of any length, leaves nothing on
\* any date of a schedule but what was staked there in its own block: for schedules that begin at a
\* lock date, as VestingLogic's startDate does and with it every cliff of whole
\* periods.
THEOREM CancellationLeavesNothing ==
    ASSUME \A v \in TeamVestings : ScheduleOf[v].first % TWO_WEEKS = 0
    PROVE  Spec => CancelledIsEmpty
<1>1. BookKept /\ [Next]_vars =>
          [\A v \in TeamVestings : GovernanceWithdrawVesting(v) =>
              \A d \in Dates :
                  d \in ScheduleOf[v].first..ScheduleOf[v].end /\ ~StakedInBlock(d, v) =>
                      LastStake(book'[d].staked[v]) = 0]_vars
  BY CancellationEmpties DEF BookKept, SwitchesOK
<1> QED BY <1>1, BooksStayKept, PTL DEF Spec, CancelledIsEmpty
=============================================================================
