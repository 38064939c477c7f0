------------------------------- MODULE Staking -------------------------------
(***************************************************************************)
(* The SOV staking contract (governance/Staking/modules): who has how much *)
(* staked until which lock date, whom each stake is delegated to, and the  *)
(* histories from which past voting power and fee shares are computed.     *)
(*                                                                         *)
(* Every mapping of the contract is keyed by lock date, so a lock date has *)
(* one page of the book: its total, the stake of each account, the stake   *)
(* delegated to each address, the part staked by vesting contracts, and    *)
(* each account's delegatee.  A transaction is one action; what reverts    *)
(* changes nothing and is no step.  Time is counted from kickoffTS.  Who   *)
(* is owner, admin or pauser is left out: their actions may always happen. *)
(***************************************************************************)
EXTENDS Checkpoints, FiniteSets, Functions

CONSTANTS
    Users,            \* ordinary accounts
    Vestings,         \* vesting contracts, registered before they stake
    NoAddress,        \* address(0)
    ScheduleOf,       \* vesting |-> first (startDate + cliff) and end (endDate)
    TeamVestings,     \* those the governance may cancel
    TWO_WEEKS,
    MAX_DURATION,     \* a multiple of TWO_WEEKS
    MAX_VOTING_WEIGHT,
    WEIGHT_FACTOR,
    Delegatees,       \* all addresses stakes may be delegated to
    Amounts,          \* amounts asked to be staked
    Withdrawals,      \* amounts asked to be withdrawn, besides all
    Times,            \* dates asked for
    Schedules,        \* cliff, duration and interval asked of stakeBySchedule
    Scalings,         \* weight scalings the owner may set
    IterationLimits,  \* what setMaxVestingWithdrawIterations may set
    AdminCalls,       \* which of "pause", "freeze" and "unlock" are called
    Elapsed,          \* how long blocks take
    MaxStaked,        \* bound: nobody stakes beyond this total
    MaxBlock,         \* bound: the chain stops here
    MaxTime

Accounts == Users \cup Vestings
Dates    == {d \in 0..(MaxTime + MAX_DURATION) : d % TWO_WEEKS = 0}

ASSUME StakingAssumption ==
    /\ NoAddress \notin Accounts
    /\ Accounts \cup {NoAddress} \subseteq Delegatees
    /\ TWO_WEEKS \in Nat \ {0}
    /\ MAX_DURATION \in Nat \ {0}
    /\ MAX_DURATION % TWO_WEEKS = 0
    /\ MAX_VOTING_WEIGHT \in Nat
    /\ WEIGHT_FACTOR \in Nat \ {0}
    /\ Amounts \subseteq Nat \ {0}
    /\ Withdrawals \subseteq Nat \ {0}
    /\ Times \subseteq Nat
    /\ Scalings \subseteq 1..9
    /\ IterationLimits \subseteq Nat \ {0}
    /\ AdminCalls \subseteq {"pause", "freeze", "unlock"}
    /\ Elapsed \subseteq Nat
    /\ MaxTime \in Nat
    /\ MaxBlock \in Nat
    /\ MaxStaked \in Nat
    /\ TeamVestings \subseteq Vestings

\* What the books need besides: addresses are finitely many, schedules are
\* given in numbers, and MAX_VOTING_WEIGHT is the 9 of the contract or less, so
\* that a punishment is never the whole stake.
ASSUME BookAssumption ==
    /\ IsFiniteSet(Users) /\ IsFiniteSet(Vestings) /\ IsFiniteSet(Delegatees)
    /\ MAX_VOTING_WEIGHT \in 0..9
    /\ Schedules \subseteq [cliff : Nat, duration : Nat, interval : Nat]
    /\ ScheduleOf \in [Vestings -> [first : Nat, end : Nat]]

VARIABLES
    book,           \* lock date |-> its page
    held,           \* SOV held for stakers
    collected,      \* SOV handed to the FeeSharingCollector
    paused,
    frozen,
    allUnlocked,
    weightScaling,
    maxVestingWithdrawIterations,
    block,          \* block.number
    now             \* block.timestamp

switches == <<paused, frozen, allUnlocked, weightScaling, maxVestingWithdrawIterations>>
vars == <<book, held, collected, switches, block, now>>

Pages == [total     : Histories,
          staked    : [Accounts -> Histories],
          delegated : [Delegatees -> Histories],
          vested    : Histories,
          delegates : [Accounts -> Delegatees]]

EmptyPage == [total     |-> <<>>,
              staked    |-> [a \in Accounts |-> <<>>],
              delegated |-> [x \in Delegatees |-> <<>>],
              vested    |-> <<>>,
              delegates |-> [a \in Accounts |-> NoAddress]]

Init ==
    /\ book = [d \in Dates |-> EmptyPage]
    /\ held = 0
    /\ collected = 0
    /\ paused = FALSE
    /\ frozen = FALSE
    /\ allUnlocked = FALSE
    /\ weightScaling = 3
    /\ maxVestingWithdrawIterations = 0
    /\ block = 1
    /\ now = 0

-----------------------------------------------------------------------------
(* Dates and weights. *)

LockDate(t) == (t \div TWO_WEEKS) * TWO_WEEKS

\* The first lock date at or after t.
AdjustDate(t) == IF LockDate(t) = t THEN t ELSE LockDate(t) + TWO_WEEKS

LatestLock == LockDate(now + MAX_DURATION)

\* What capping a lock date means, and the form a slip would give it.
Uncapped(until) == until
Capped(until) == IF until > LatestLock THEN LatestLock ELSE until

\* Only a date at most MAX_DURATION ahead has a weight.
HasWeight(date, start) == date >= start /\ date - start <= MAX_DURATION
Weight(date, start) ==
    LET x == MAX_DURATION - (date - start)
        square == MAX_DURATION * MAX_DURATION
    IN  WEIGHT_FACTOR
        + (MAX_VOTING_WEIGHT * WEIGHT_FACTOR * (square - x * x)) \div square

Punished(amount, until) ==
    ((amount * Weight(until, LockDate(now)) * weightScaling) \div WEIGHT_FACTOR) \div 100

-----------------------------------------------------------------------------
(* One page.  A history grows or shrinks by a stake at this block. *)

Balance(d, a) == IF d \in Dates THEN LastStake(book[d].staked[a]) ELSE 0

StakedInBlock(d, a) == d \in Dates /\ WrittenAt(book[d].staked[a], block)

Increase(h, amount) == Write(h, block, LastStake(h) + amount)
Decrease(h, amount) == Write(h, block, LastStake(h) - amount)

\* Total, user and vesting stake are subtracted with a check.
NoUnderflowCheck(page, a, amount) == TRUE
CanDecrease(page, a, amount) ==
    /\ LastStake(page.total) >= amount
    /\ LastStake(page.staked[a]) >= amount
    /\ a \in Vestings => LastStake(page.vested) >= amount

\* The total, the account and, for a vesting contract, the vesting stake move
\* together; a slip leaves one of them behind.
IncreaseUnvested(page, a, amount) ==
    [page EXCEPT !.total = Increase(@, amount), !.staked[a] = Increase(@, amount)]
IncreaseStake(page, a, amount) ==
    [page EXCEPT !.total = Increase(@, amount),
                 !.staked[a] = Increase(@, amount),
                 !.vested = IF a \in Vestings THEN Increase(@, amount) ELSE @]

DecreaseStake(page, a, amount) ==
    [page EXCEPT !.total = Decrease(@, amount),
                 !.staked[a] = Decrease(@, amount),
                 !.vested = IF a \in Vestings THEN Decrease(@, amount) ELSE @]

IncreaseDelegate(page, x, amount) ==
    [page EXCEPT !.delegated[x] = Increase(@, amount)]

\* Delegated stake stops at zero instead of reverting; a slip would keep it.
KeepDelegate(page, x, amount) == page
DecreaseDelegate(page, x, amount) ==
    [page EXCEPT !.delegated[x] =
        Write(@, block, IF LastStake(@) > amount THEN LastStake(@) - amount ELSE 0)]

\* The stake of a is moved to the delegatee `to`, with what it had before.
Redelegate(page, a, to, before, after) ==
    IncreaseDelegate(
        DecreaseDelegate([page EXCEPT !.delegates[a] = to], page.delegates[a], before),
        to, after)

-----------------------------------------------------------------------------
(* Staking. *)

\* Only its holder may name another delegatee for a stake.
MayNameDelegatee(sender, a, current, delegatee) ==
    current # delegatee =>
        \/ sender = a
        \/ delegatee = a /\ current = NoAddress

\* A date whose stake has not changed in this block; a slip takes any.
AnyDate(d, a) == TRUE
FreshDate(d, a) == ~StakedInBlock(d, a)

StakeOnPage(page, a, amount, delegatee) ==
    LET grown  == IncreaseStake(page, a, amount)
        before == LastStake(page.staked[a])
    IN  IF page.delegates[a] = delegatee
        THEN IncreaseDelegate(grown, delegatee, amount)
        ELSE Redelegate(grown, a, delegatee, before, before + amount)

\* The block of the last stake is compared at the date asked for, and only
\* then is a date too far ahead replaced by the latest.
Stake(sender, amount, until, a, delegatee) ==
    LET asked == LockDate(until)
        d     == Capped(asked)
    IN  /\ ~paused /\ ~frozen
        /\ held + amount <= MaxStaked
        /\ asked > now
        /\ FreshDate(asked, a)
        /\ d \in Dates
        /\ MayNameDelegatee(sender, a, book[d].delegates[a], delegatee)
        /\ book' = [book EXCEPT ![d] = StakeOnPage(@, a, amount, delegatee)]
        /\ held' = held + amount
        /\ UNCHANGED <<collected, switches, block, now>>

\* Equal parts at regular dates, the first with what the division leaves.
StakeBySchedule(sender, amount, schedule, a, delegatee) ==
    LET start == LockDate(now + schedule.cliff)
        end   == LockDate(now + schedule.duration)
        D     == {d \in Dates : d \in start..end /\ (d - start) % schedule.interval = 0}
        part  == amount \div Cardinality(D)
        first == amount - part * (Cardinality(D) - 1)
        PartOf(d) == IF d = start THEN first ELSE part
    IN  /\ ~paused /\ ~frozen
        /\ held + amount <= MaxStaked
        /\ schedule.duration <= MAX_DURATION
        /\ schedule.interval > 0 /\ schedule.interval % TWO_WEEKS = 0
        /\ start <= end
        /\ delegatee # a => sender = a
        /\ \A d \in D :
              /\ PartOf(d) > 0
              /\ d > now
              /\ FreshDate(d, a)
              /\ MayNameDelegatee(sender, a, book[d].delegates[a], delegatee)
        /\ book' = [d \in Dates |->
                       IF d \in D THEN StakeOnPage(book[d], a, PartOf(d), delegatee)
                       ELSE book[d]]
        /\ held' = held + amount
        /\ UNCHANGED <<collected, switches, block, now>>

\* The whole stake moves to a later date, and with it its delegatee, unless
\* the holder already has one there.
ExtendStakingDuration(a, previousLock, until) ==
    LET from   == LockDate(previousLock)
        to     == Capped(LockDate(until))
        amount == PriorAt(book[from].staked[a], block - 1)
        before == book[from].delegates[a]
        after  == IF book[to].delegates[a] = NoAddress THEN before
                  ELSE book[to].delegates[a]
    IN  /\ ~paused /\ ~frozen
        /\ from \in Dates /\ to \in Dates
        /\ FreshDate(from, a)
        /\ from < to
        /\ amount > 0
        /\ CanDecrease(book[from], a, amount)
        /\ book' = [book EXCEPT
              ![from] = DecreaseDelegate(
                            [DecreaseStake(@, a, amount) EXCEPT !.delegates[a] = NoAddress],
                            before, amount),
              ![to]   = IncreaseDelegate(
                            [IncreaseStake(@, a, amount) EXCEPT !.delegates[a] = after],
                            after, amount)]
        /\ UNCHANGED <<held, collected, switches, block, now>>

-----------------------------------------------------------------------------
(* Withdrawing. *)

WithdrawFromPage(page, a, amount) ==
    DecreaseDelegate(DecreaseStake(page, a, amount), page.delegates[a], amount)

\* The one token a vesting contract believes to have at an empty date.
IsNoWithdrawal(a, amount) == amount = 1 /\ a \in Vestings

\* A vesting contract takes its next stake too, once that is unlocked: dates
\* two weeks apart, asked for every four.
NextWithdrawal(a, d) ==
    IF a \in Vestings /\ now >= d + TWO_WEEKS /\ d + TWO_WEEKS \in Dates
    THEN LET stake == PriorAt(book[d + TWO_WEEKS].staked[a], block - 1)
         IN  IF IsNoWithdrawal(a, stake) THEN 0 ELSE stake
    ELSE 0

MayWithdraw(d, a, amount) ==
    /\ amount <= PriorAt(book[d].staked[a], block - 1)
    /\ CanDecrease(book[d], a, amount)

EarlyExit(d) == now < d /\ ~allUnlocked

Withdraw(a, amount, until) ==
    LET d     == AdjustDate(until)
        taken == IF IsNoWithdrawal(a, amount) THEN 0 ELSE amount
        next  == NextWithdrawal(a, d)
        fee   == IF taken > 0 /\ EarlyExit(d) THEN Punished(taken, d) ELSE 0
    IN  /\ ~frozen
        /\ d \in Dates
        /\ FreshDate(d, a)
        /\ taken > 0 => MayWithdraw(d, a, taken)
        /\ taken > 0 /\ EarlyExit(d) => HasWeight(d, LockDate(now))
        /\ next > 0 => MayWithdraw(d + TWO_WEEKS, a, next)
        /\ book' = [e \in Dates |->
              CASE e = d /\ taken > 0            -> WithdrawFromPage(book[e], a, taken)
                [] e = d + TWO_WEEKS /\ next > 0 -> WithdrawFromPage(book[e], a, next)
                [] OTHER                         -> book[e]]
        /\ held' = held - taken - next
        /\ collected' = collected + fee
        /\ UNCHANGED <<switches, block, now>>

\* A cancellation goes through the dates of a schedule in pages of at most
\* maxVestingWithdrawIterations.  (0 - 1 wraps round, and TWO_WEEKS times that,
\* added to `from`, is the date before it here as there.)
AdjustedEnd(v, from) ==
    LET last == from + TWO_WEEKS * (maxVestingWithdrawIterations - 1)
    IN  IF ScheduleOf[v].end < last THEN ScheduleOf[v].end ELSE last

NextStartFrom(v, from) == AdjustedEnd(v, from) + TWO_WEEKS

\* Whether dates are left after a page; the slip takes the last for done.
LastIsDone(v, from) == NextStartFrom(v, from) < ScheduleOf[v].end
NotCompleted(v, from) == AdjustedEnd(v, from) < ScheduleOf[v].end

PageDates(v, from) ==
    {i \in from..AdjustedEnd(v, from) : (i - from) % TWO_WEEKS = 0}

\* The loop of governanceWithdrawVesting: page after page until one completes.
DatesFrom(v) ==
    LET dates[from \in Nat] ==
            PageDates(v, from) \cup
                (IF NotCompleted(v, from) THEN dates[NextStartFrom(v, from)] ELSE {})
    IN  dates

\* The stake is looked up at the lock date after i and taken from the one
\* before it; they are the same for a schedule that begins at a lock date.
StakeToCancel(v, i) ==
    IF AdjustDate(i) \in Dates
    THEN PriorAt(book[AdjustDate(i)].staked[v], block - 1) ELSE 0

CancelDates(v, I) ==
    LET C == {i \in I : StakeToCancel(v, i) > 0}
    IN  /\ \A i \in C : MayWithdraw(LockDate(i), v, StakeToCancel(v, i))
        /\ book' = [d \in Dates |->
              IF \E i \in C : LockDate(i) = d
              THEN WithdrawFromPage(book[d], v,
                       StakeToCancel(v, CHOOSE i \in C : LockDate(i) = d))
              ELSE book[d]]
        /\ held' = held - SumFunction([i \in C |-> StakeToCancel(v, i)])

CancelTeamVesting(v, startFrom) ==
    LET from == IF startFrom >= ScheduleOf[v].first THEN startFrom
                ELSE ScheduleOf[v].first
    IN  /\ ~frozen
        /\ CancelDates(v, PageDates(v, from))
        /\ UNCHANGED <<collected, switches, block, now>>

\* With no iterations allowed the loop would not end.
GovernanceWithdrawVesting(v) ==
    /\ ~frozen
    /\ maxVestingWithdrawIterations > 0
    /\ CancelDates(v, DatesFrom(v)[ScheduleOf[v].first])
    /\ UNCHANGED <<collected, switches, block, now>>

-----------------------------------------------------------------------------
(* Delegating. *)

\* The next dates of a vesting contract follow: two weeks on, and four when
\* its schedule ends there.
DelegatedWith(a, d) ==
    {d} \cup {e \in {d + TWO_WEEKS, d + 2 * TWO_WEEKS} :
                a \in Vestings /\ (e = d + TWO_WEEKS \/ e = ScheduleOf[a].end)}

Delegate(a, delegatee, lockDate) ==
    LET D == {d \in DelegatedWith(a, lockDate) :
                 Balance(d, a) > 0 /\ book[d].delegates[a] # delegatee}
    IN  /\ ~paused
        /\ FreshDate(lockDate, a)
        /\ a \in Users => D # {}
        /\ book' = [d \in Dates |->
              IF d \in D
              THEN Redelegate(book[d], a, delegatee, Balance(d, a), Balance(d, a))
              ELSE book[d]]
        /\ UNCHANGED <<held, collected, switches, block, now>>

-----------------------------------------------------------------------------
(* Administration. *)

PauseUnpause(pause) ==
    /\ "pause" \in AdminCalls
    /\ ~frozen
    /\ paused' = pause
    /\ UNCHANGED <<book, held, collected, frozen, allUnlocked, weightScaling,
                   maxVestingWithdrawIterations, block, now>>

\* Freezing pauses, unfreezing leaves the pause; a slip would only freeze.
PausedAsBefore(freeze) == paused
PausedAfter(freeze) == paused \/ freeze

FreezeUnfreeze(freeze) ==
    /\ "freeze" \in AdminCalls
    /\ freeze # frozen
    /\ paused' = PausedAfter(freeze)
    /\ frozen' = freeze
    /\ UNCHANGED <<book, held, collected, allUnlocked, weightScaling,
                   maxVestingWithdrawIterations, block, now>>

UnlockAllTokens ==
    /\ "unlock" \in AdminCalls
    /\ ~frozen
    /\ allUnlocked' = TRUE
    /\ UNCHANGED <<book, held, collected, paused, frozen, weightScaling,
                   maxVestingWithdrawIterations, block, now>>

SetWeightScaling(scaling) ==
    /\ ~frozen
    /\ weightScaling' = scaling
    /\ UNCHANGED <<book, held, collected, paused, frozen, allUnlocked,
                   maxVestingWithdrawIterations, block, now>>

SetMaxVestingWithdrawIterations(limit) ==
    /\ ~frozen
    /\ maxVestingWithdrawIterations' = limit
    /\ UNCHANGED <<book, held, collected, paused, frozen, allUnlocked,
                   weightScaling, block, now>>

NextBlock(elapsed) ==
    /\ block < MaxBlock
    /\ now + elapsed <= MaxTime
    /\ block' = block + 1
    /\ now' = now + elapsed
    /\ UNCHANGED <<book, held, collected, switches>>

\* address(0) stands for the staker when staking, and cannot be delegated to.
Named == Delegatees \ {NoAddress}

Next ==
    \/ \E sender, a \in Accounts, x \in Named, amount \in Amounts, until \in Times :
          Stake(sender, amount, until, a, x)
    \/ \E sender, a \in Accounts, x \in Named, amount \in Amounts, schedule \in Schedules :
          StakeBySchedule(sender, amount, schedule, a, x)
    \/ \E a \in Accounts, from, to \in Times : ExtendStakingDuration(a, from, to)
    \/ \E a \in Accounts, until \in Times :
          \E amount \in (Withdrawals \cup {Balance(AdjustDate(until), a)}) \ {0} :
              Withdraw(a, amount, until)
    \/ \E v \in TeamVestings, from \in Times : CancelTeamVesting(v, from)
    \/ \E v \in TeamVestings : GovernanceWithdrawVesting(v)
    \/ \E a \in Accounts, x \in Named, d \in Dates : Delegate(a, x, d)
    \/ \E pause \in BOOLEAN : PauseUnpause(pause)
    \/ \E freeze \in BOOLEAN : FreezeUnfreeze(freeze)
    \/ UnlockAllTokens
    \/ \E scaling \in Scalings : SetWeightScaling(scaling)
    \/ \E limit \in IterationLimits : SetMaxVestingWithdrawIterations(limit)
    \/ \E elapsed \in Elapsed : NextBlock(elapsed)

Spec == Init /\ [][Next]_vars

\* Blocks keep coming.
FairSpec == Spec /\ WF_<<block, now>>(\E elapsed \in Elapsed : NextBlock(elapsed))

-----------------------------------------------------------------------------
(* What the other contracts read. *)

LockDates(time) == {d \in Dates : d \in LockDate(time)..(LockDate(time) + MAX_DURATION)}

PowerOf(stake, d, time) == (stake * Weight(d, LockDate(time))) \div WEIGHT_FACTOR

PriorVotes(x, atBlock, time) ==
    SumFunction([d \in LockDates(time) |->
        PowerOf(PriorAt(book[d].delegated[x], atBlock), d, time)])

PriorTotalVotingPower(atBlock, time) ==
    SumFunction([d \in LockDates(time) |->
        PowerOf(PriorAt(book[d].total, atBlock), d, time)])

PriorWeightedStake(a, atBlock, time) ==
    SumFunction([d \in LockDates(time) |->
        PowerOf(PriorAt(book[d].staked[a], atBlock), d, time)])

PriorVestingWeightedStake(atBlock, time) ==
    SumFunction([d \in LockDates(time) |->
        PowerOf(PriorAt(book[d].vested, atBlock), d, time)])

-----------------------------------------------------------------------------
(* Properties. *)

\* Every variable has its type: no stake is ever negative.
TypeOK ==
    /\ book \in [Dates -> Pages]
    /\ held \in Nat
    /\ collected \in Nat
    /\ paused \in BOOLEAN
    /\ frozen \in BOOLEAN
    /\ allUnlocked \in BOOLEAN
    /\ weightScaling \in 1..9
    /\ maxVestingWithdrawIterations \in Nat
    /\ block \in Nat \ {0}
    /\ now \in Nat

\* On every page the total is what the accounts have staked, the vesting
\* stake is what the vesting contracts have, and the contract holds the SOV
\* of all of them.
StakesAddUp ==
    /\ \A d \in Dates :
          LET balances == [a \in Accounts |-> LastStake(book[d].staked[a])]
          IN  /\ LastStake(book[d].total) = SumFunction(balances)
              /\ LastStake(book[d].vested) = SumFunctionOnSet(balances, Vestings)
    /\ held = SumFunction([d \in Dates |-> LastStake(book[d].total)])

\* The stake delegated to an address is what the accounts that chose it have
\* staked, so address(0) has none, and the subtraction that stops at zero
\* instead of reverting never loses a difference.
DelegationsAddUp ==
    \A d \in Dates, x \in Delegatees :
        LastStake(book[d].delegated[x]) =
            SumFunction([a \in {b \in Accounts : book[d].delegates[b] = x /\ x # NoAddress} |->
                            LastStake(book[d].staked[a])])

\* The five histories and the tokens agree: through partial, combined and
\* cancelled withdrawals, extensions and delegations, no stake is left without
\* its tokens, no token without its stake, and no vote without a stake.
BooksAddUp == StakesAddUp /\ DelegationsAddUp

\* The histories are sorted by block, as the binary search needs them, and
\* say nothing of blocks to come.
HistoryOK(h) ==
    /\ SortedHistory(h)
    /\ \A i \in DOMAIN h : h[i].fromBlock <= block

HistoriesSorted ==
    \A d \in Dates :
        /\ HistoryOK(book[d].total)
        /\ HistoryOK(book[d].vested)
        /\ \A a \in Accounts : HistoryOK(book[d].staked[a])
        /\ \A x \in Delegatees : HistoryOK(book[d].delegated[x])

\* What a history says of a past block never changes again: the votes a
\* proposal counts and the fees a staker is due are settled when their block
\* is over, whatever is staked, moved or withdrawn later.
PastKept(h, g) ==
    h # g => \A b \in 0..(block - 1) : PriorAt(g, b) = PriorAt(h, b)

PastIsFixed ==
    [][\A d \in Dates :
          /\ PastKept(book[d].total, book'[d].total)
          /\ PastKept(book[d].vested, book'[d].vested)
          /\ \A a \in Accounts : PastKept(book[d].staked[a], book'[d].staked[a])
          /\ \A x \in Delegatees :
                PastKept(book[d].delegated[x], book'[d].delegated[x])]_vars

\* At every past block, and for any lock date, the votes of all delegatees together
\* are no more than the total voting power quorum and majority are taken of,
\* and the weighted stakes of the vesting contracts, less roundings, are the
\* weighted vesting stake that fees are withheld for.
VotesWithinTotal ==
    \A b \in 0..(block - 1), time \in {d \in Dates : d <= now} :
        /\ SumFunction([x \in Delegatees |-> PriorVotes(x, b, time)])
                <= PriorTotalVotingPower(b, time)
        /\ SumFunction([v \in Vestings |-> PriorWeightedStake(v, b, time)])
                <= PriorVestingWeightedStake(b, time)

\* Whoever has a stake can take all of it out unless it was changed in this
\* very block or withdrawals are frozen: no subtraction underflows, no weight
\* is missing, and the punishment leaves something.
StakesAreWithdrawable ==
    \A d \in Dates, a \in Accounts :
        Balance(d, a) > 0 /\ ~StakedInBlock(d, a) =>
            /\ MayWithdraw(d, a, Balance(d, a))
            /\ held >= Balance(d, a)
            /\ now < d => /\ HasWeight(d, LockDate(now))
                          /\ Punished(Balance(d, a), d) < Balance(d, a)

\* The books of the contract: what adds up, what is counted and what can be taken out.
StakingBooks == BooksAddUp /\ VotesWithinTotal /\ StakesAreWithdrawable

\* No stake is without a delegatee: the votes of all addresses are the total.
StakesHaveDelegatees ==
    \A d \in Dates, a \in Accounts :
        Balance(d, a) > 0 => book[d].delegates[a] # NoAddress

\* No stake is locked for longer than MAX_DURATION, however it came there.
StakesInReach ==
    \A d \in Dates, a \in Accounts : Balance(d, a) > 0 => d <= LatestLock

\* The histories agree about every block that is over: the delegated stakes
\* add up to the total, those of the vesting contracts to the vesting stake.
PastAddsUp ==
    \A d \in Dates, b \in 0..(block - 1) :
        /\ SumFunction([x \in Delegatees |-> PriorAt(book[d].delegated[x], b)]) =
               PriorAt(book[d].total, b)
        /\ SumFunction([v \in Vestings |-> PriorAt(book[d].staked[v], b)]) =
               PriorAt(book[d].vested, b)

\* What makes the books inductive.
BooksInv ==
    /\ TypeOK
    /\ BooksAddUp
    /\ StakesHaveDelegatees
    /\ StakesInReach
    /\ PastAddsUp
    /\ now <= MaxTime

\* While the contract is frozen no stake moves, no delegation changes and no
\* token leaves, although delegate() itself only asks for the pause.
FrozenMovesNothing ==
    [][frozen => UNCHANGED <<book, held, collected>>]_vars

FrozenIsPaused == frozen => paused

\* Once the governance has withdrawn a team vesting, nothing is left on any
\* date of its schedule but what was staked there in the same block.
CancelledIsEmpty ==
    [][\A v \in TeamVestings : GovernanceWithdrawVesting(v) =>
          \A d \in Dates :
              d \in ScheduleOf[v].first..ScheduleOf[v].end /\ ~StakedInBlock(d, v) =>
                  LastStake(book'[d].staked[v]) = 0]_vars
=============================================================================
