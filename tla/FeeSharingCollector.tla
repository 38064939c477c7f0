------------------------- MODULE FeeSharingCollector -------------------------
(***************************************************************************)
(* The fees of the protocol, shared among SOV stakers                      *)
(* (governance/FeeSharingCollector).  What is received of a token in two   *)
(* days becomes one checkpoint with the voluntary stake of its time; each  *)
(* staker goes through the checkpoints in pages and takes a share.         *)
(*                                                                         *)
(* The staking contract is seen through its weighted stakes: `stakes` is   *)
(* the snapshot at the end of the previous block, any member of Snapshots, *)
(* and a checkpoint keeps the one it was written with, from which the      *)
(* contract can ask for a user's weighted stake again.                     *)
(***************************************************************************)
EXTENDS Integers, SequencesExt

CONSTANTS
    Users,
    Vestings,                 \* stakers that are vesting contracts
    RbtcTokens,               \* RBTC_DUMMY_ADDRESS_FOR_CHECKPOINT, iWRBTC
    OtherTokens,              \* SOV, ZUSD, ...
    Rbtc,                     \* RBTC_DUMMY_ADDRESS_FOR_CHECKPOINT
    FEE_WITHDRAWAL_INTERVAL,
    TWO_WEEKS,                \* of the staking contract's lock dates
    Snapshots,                \* weighted stakes a block may end with
    Amounts,                  \* amounts received
    Requests,                 \* what claimAllCollectedFees is asked
    MaxCheckpointArgs,        \* _maxCheckpoints of a call
    Elapsed,                  \* how long blocks take
    Claimers,                 \* bound: the users who claim at all
    MaxReceived,              \* bound: what comes in of one token
    MaxBlock                  \* bound: the chain stops here

Stakers == Users \cup Vestings
Tokens  == RbtcTokens \cup OtherTokens

ASSUME FeeAssumption ==
    /\ Rbtc \in RbtcTokens
    /\ FEE_WITHDRAWAL_INTERVAL \in Nat \ {0}
    /\ TWO_WEEKS \in Nat \ {0}
    /\ Snapshots \subseteq [Stakers -> Nat]
    /\ Amounts \subseteq Nat \ {0}
    /\ MaxCheckpointArgs \subseteq Nat
    /\ Claimers \subseteq Users
    /\ Elapsed \subseteq Nat
    /\ IsFiniteSet(Users) /\ IsFiniteSet(RbtcTokens) /\ IsFiniteSet(OtherTokens)
    /\ Requests \subseteq [rbtc : Seq(Tokens), other : Seq(Tokens),
                           skipped : Seq([token : Tokens, from : Nat])]

VARIABLES
    tokenCheckpoints,       \* token |-> its checkpoints
    unprocessedAmount,      \* token |-> received since the newest one
    lastFeeWithdrawalTime,
    processedCheckpoints,   \* user |-> token |-> how many are settled
    received,               \* token |-> all that ever came in
    settled,                \* user |-> token |-> the pages gone through
    skipped,                \* user |-> token |-> checkpoints given up
    stakes,
    block,
    now

feeVars   == <<tokenCheckpoints, unprocessedAmount, lastFeeWithdrawalTime, received>>
claimVars == <<processedCheckpoints, settled, skipped>>
chainVars == <<stakes, block, now>>
vars      == <<feeVars, claimVars, chainVars>>

\* Lock dates are never 0, the value the cache of a claim begins with.
LockDate(t) == (t \div TWO_WEEKS) * TWO_WEEKS

Init ==
    /\ tokenCheckpoints = [t \in Tokens |-> <<>>]
    /\ unprocessedAmount = [t \in Tokens |-> 0]
    /\ lastFeeWithdrawalTime = [t \in Tokens |-> 0]
    /\ processedCheckpoints = [u \in Users |-> [t \in Tokens |-> 0]]
    /\ received = [t \in Tokens |-> 0]
    /\ settled = [u \in Users |-> [t \in Tokens |-> <<>>]]
    /\ skipped = [u \in Users |-> [t \in Tokens |-> {}]]
    /\ stakes \in Snapshots
    /\ block = 1
    /\ now = TWO_WEEKS + FEE_WITHDRAWAL_INTERVAL

NextBlock ==
    /\ block < MaxBlock
    /\ block' = block + 1
    /\ \E t \in Elapsed : now' = now + t
    /\ stakes' \in Snapshots
    /\ UNCHANGED <<feeVars, claimVars>>

-----------------------------------------------------------------------------
(* Receiving. *)

VoluntaryWeightedStake == SumFunctionOnSet(stakes, Users)

\* A second checkpoint in one block takes the place of the first.
WriteTokenCheckpoint(cps, numTokens) ==
    LET cp == [block |-> block, lockDate |-> LockDate(now),
               totalWeightedStake |-> VoluntaryWeightedStake,
               numTokens |-> numTokens, stakes |-> stakes]
    IN  IF cps # <<>> /\ Last(cps).block = block
        THEN [cps EXCEPT ![Len(cps)] = cp]
        ELSE Append(cps, cp)

\* When a checkpoint is due; the slip forgets that time goes by.
AlwaysDue(token) == TRUE
IsDue(token) == now - lastFeeWithdrawalTime[token] >= FEE_WITHDRAWAL_INTERVAL

AddCheckpoint(token, amount) ==
    /\ received[token] + amount <= MaxReceived
    /\ received' = [received EXCEPT ![token] = @ + amount]
    /\ IF IsDue(token)
       THEN /\ VoluntaryWeightedStake > 0
            /\ tokenCheckpoints' = [tokenCheckpoints EXCEPT ![token] =
                   WriteTokenCheckpoint(@, unprocessedAmount[token] + amount)]
            /\ unprocessedAmount' = [unprocessedAmount EXCEPT ![token] = 0]
            /\ lastFeeWithdrawalTime' = [lastFeeWithdrawalTime EXCEPT ![token] = now]
       ELSE /\ unprocessedAmount' = [unprocessedAmount EXCEPT ![token] = @ + amount]
            /\ UNCHANGED <<tokenCheckpoints, lastFeeWithdrawalTime>>
    /\ UNCHANGED <<claimVars, chainVars>>

\* WRBTC is unwrapped and counted as RBTC.
TransferTokens(token, amount) == token # Rbtc /\ AddCheckpoint(token, amount)
TransferRBTC(amount) == AddCheckpoint(Rbtc, amount)

\* withdrawFees and withdrawFeesAMM: nothing withdrawn leaves no checkpoint.
WithdrawFees(amount) == AddCheckpoint(Rbtc, amount)

-----------------------------------------------------------------------------
(* What a page of checkpoints gives. *)

\* Checkpoints are counted from 1: a page from..to settles from + 1 to `to`.
\* One written in this very block waits, as its stakes cannot be read yet;
\* the slip does not wait.
AnyBlock(cps, end) == end
PastBlock(cps, end) == IF cps[end].block = block THEN end - 1 ELSE end

EndOfRange(token, start, max) ==
    LET cps == tokenCheckpoints[token]
    IN  IF cps = <<>> THEN 0 ELSE PastBlock(cps, Min({start + max, Len(cps)}))

\* The weighted stake read for the first checkpoint of a page with a lock date
\* is used for all others with that date.
StakeUsed(user, cps, start, i) ==
    cps[Min({j \in (start + 1)..i : cps[j].lockDate = cps[i].lockDate})].stakes[user]

ShareOf(cp, stake) == (cp.numTokens * stake) \div cp.totalWeightedStake

Page(user, token, start, max) ==
    LET cps == tokenCheckpoints[token]
        end == EndOfRange(token, start, max)
    IN  [from |-> start, to |-> end,
         shares |-> [k \in 1..(end - start) |->
                        ShareOf(cps[start + k], StakeUsed(user, cps, start, start + k))]]

Amount(page) == SumFunction(page.shares)

Positive(user, token, i) == tokenCheckpoints[token][i].stakes[user] > 0

\* Arrays count from 0, checkpoints from 1; the slip returns the index.
IndexFromZero(index) == index
CheckpointNum(index) == index + 1

Advice(checkpointNum, hasSkipped, hasFees) ==
    [checkpointNum |-> checkpointNum, hasSkipped |-> hasSkipped, hasFees |-> hasFees]

\* Where a user (no vesting contract) may claim from: the first checkpoint he
\* has a stake at, of the `max` (not 0) that follow startFrom and what he is
\* past; with none among them, where to go on searching.
NextPositive(user, token, startFrom, max) ==
    LET processed == processedCheckpoints[user][token]
        total == Len(tokenCheckpoints[token])
        begin == Max({startFrom, processed})
        end == Min({begin + max, total})
        found == {i \in begin..(end - 1) : Positive(user, token, i + 1)}
    IN  IF processed >= total THEN Advice(total, FALSE, FALSE)
        ELSE IF found = {} THEN Advice(end, end > processed, FALSE)
        ELSE Advice(CheckpointNum(Min(found)), Min(found) > processed, TRUE)

-----------------------------------------------------------------------------
(* Claiming.  A call works through its tokens with a budget of checkpoints; *)
(* c is what it has done so far.                                           *)

\* A settled page is recorded; slips forget it or record one too many.
SettleForgotten(c, token, page) == [c EXCEPT !.pages[token] = Append(@, page)]
SettleOneMore(c, token, page) ==
    [c EXCEPT !.processed[token] = page.to + 1, !.pages[token] = Append(@, page)]
Settle(c, token, page) ==
    [c EXCEPT !.processed[token] = page.to, !.pages[token] = Append(@, page)]

\* _withdraw: a page without fees is settled too, but no progress reverts.
\* RBTC is no contract that could be asked to transfer.
Withdrawn(user, c, token) ==
    LET page == Page(user, token, c.processed[token], c.budget)
    IN  IF \/ Amount(page) = 0 /\ page.to <= page.from
           \/ Amount(page) > 0 /\ token = Rbtc
        THEN [c EXCEPT !.reverted = TRUE]
        ELSE Settle(c, token, page)

\* _withdrawRbtcToken: a page without fees is left as it is.
RbtcWithdrawn(user, c, token) ==
    LET page == Page(user, token, c.processed[token], c.budget)
    IN  IF Amount(page) > 0 THEN Settle(c, token, page) ELSE c

\* The checkpoints used are taken from the budget; a slip returns the budget.
KeepBudget(c, used) == c.budget
LessBudget(c, used) == c.budget - used

Spend(c, used) ==
    IF used < 0 \/ used > c.budget THEN [c EXCEPT !.reverted = TRUE]
    ELSE [c EXCEPT !.budget = LessBudget(c, used)]

UsedBy(user, c, token, from) ==
    EndOfRange(token, c.processed[token], c.budget) - from

Regular(user, c, token, after) ==
    IF c.budget = 0 \/ c.reverted THEN c
    ELSE Spend(after, UsedBy(user, c, token, c.processed[token]))

ClaimRbtc(user, c, token) ==
    IF token \notin RbtcTokens THEN [c EXCEPT !.reverted = TRUE]
    ELSE Regular(user, c, token, RbtcWithdrawn(user, c, token))

ClaimOther(user, c, token) == Regular(user, c, token, Withdrawn(user, c, token))

\* Everything before a checkpoint is given up for good.
SkipTo(c, token, from) == Max({from - 1, c.processed[token]})

ClaimSkipped(user, c, item) ==
    LET start == Max({item.from, c.processed[item.token]})
        given == (c.processed[item.token] + 1)..(item.from - 1)
        d == [c EXCEPT !.processed[item.token] = SkipTo(c, item.token, item.from),
                       !.skipped[item.token] = @ \cup given]
        after == IF item.token \in RbtcTokens THEN RbtcWithdrawn(user, d, item.token)
                 ELSE Withdrawn(user, d, item.token)
        used == UsedBy(user, d, item.token, start)
    IN  IF c.budget = 0 \/ c.reverted THEN c
        ELSE IF used < 0 THEN [c EXCEPT !.reverted = TRUE]
        ELSE Spend(after, used + 1)

\* A user may begin where his stake begins, after a checkpoint without it.
ValidFrom(user, c, item) ==
    /\ item.from > 1
    /\ item.from > c.processed[item.token]
    /\ item.from <= Len(tokenCheckpoints[item.token])
    /\ ~Positive(user, item.token, item.from - 1)
    /\ Positive(user, item.token, item.from)

Begun(user, max) ==
    [processed |-> processedCheckpoints[user], pages |-> settled[user],
     skipped |-> skipped[user], budget |-> max, reverted |-> FALSE]

Done(user, c) ==
    /\ ~c.reverted
    /\ processedCheckpoints' = [processedCheckpoints EXCEPT ![user] = c.processed]
    /\ settled' = [settled EXCEPT ![user] = c.pages]
    /\ skipped' = [skipped EXCEPT ![user] = c.skipped]
    /\ UNCHANGED <<feeVars, chainVars>>

Withdraw(user, token, max) ==
    /\ max > 0
    /\ Done(user, Withdrawn(user, Begun(user, max), token))

\* Token by token.
RbtcClaimed(user, begun, tokens) ==
    FoldLeft(LAMBDA c, t : ClaimRbtc(user, c, t), begun, tokens)
OthersClaimed(user, begun, tokens) ==
    FoldLeft(LAMBDA c, t : ClaimOther(user, c, t), begun, tokens)
SkippedClaimed(user, begun, items) ==
    FoldLeft(LAMBDA c, i : ClaimSkipped(user, c, i), begun, items)

ClaimAllCollectedFees(user, request, max) ==
    LET r == RbtcClaimed(user, Begun(user, max), request.rbtc)
        o == OthersClaimed(user, r, request.other)
        s == SkippedClaimed(user, o, request.skipped)
    IN  /\ \A i \in DOMAIN request.skipped : ValidFrom(user, o, request.skipped[i])
        /\ Done(user, s)

Next ==
    \/ NextBlock
    \/ \E amount \in Amounts :
          \/ \E token \in Tokens : TransferTokens(token, amount)
          \/ TransferRBTC(amount)
          \/ WithdrawFees(amount)
    \/ \E user \in Claimers, max \in MaxCheckpointArgs :
          \/ \E token \in Tokens : Withdraw(user, token, max)
          \/ \E request \in Requests : ClaimAllCollectedFees(user, request, max)

Spec == Init /\ [][Next]_vars

-----------------------------------------------------------------------------
(* Properties. *)

TokenCheckpoints ==
    [block : Nat, lockDate : Nat, totalWeightedStake : Nat \ {0},
     numTokens : Nat \ {0}, stakes : Snapshots]

Settlements == [from : Nat, to : Nat, shares : Seq(Nat)]

\* Every variable has its type.
TypeOK ==
    /\ tokenCheckpoints \in [Tokens -> Seq(TokenCheckpoints)]
    /\ unprocessedAmount \in [Tokens -> Nat]
    /\ lastFeeWithdrawalTime \in [Tokens -> 0..now]
    /\ received \in [Tokens -> Nat]
    /\ processedCheckpoints \in [Users -> [Tokens -> Nat]]
    /\ settled \in [Users -> [Tokens -> Seq(Settlements)]]
    /\ skipped \in [Users -> [Tokens -> SUBSET Nat]]
    /\ \A u \in Users, t \in Tokens : processedCheckpoints[u][t] <= Len(tokenCheckpoints[t])
    /\ stakes \in Snapshots
    /\ block \in Nat \ {0}
    /\ now \in Nat

\* Whatever ever came in of a token is in exactly one of its checkpoints or
\* waits for the next one: the interval between checkpoints and the overwriting
\* of a checkpoint of the same block neither lose nor double a fee.  (What is
\* then paid out of a checkpoint is SharesFollowStake's question.)
FeesAccounted ==
    \A t \in Tokens :
        received[t] = unprocessedAmount[t]
            + SumFunction([i \in DOMAIN tokenCheckpoints[t] |-> tokenCheckpoints[t][i].numTokens])

\* No checkpoint is settled twice for a user, through whichever of the four
\* ways of withdrawing, and in pages of whatever length.
SettledOnce ==
    \A u \in Users, t \in Tokens : \A i, j \in DOMAIN settled[u][t] :
        i < j => settled[u][t][i].to <= settled[u][t][j].from

\* A checkpoint that a user is past was settled for him, or he gave it up.
NothingForgotten ==
    \A u \in Users, t \in Tokens : \A i \in 1..processedCheckpoints[u][t] :
        \/ i \in skipped[u][t]
        \/ \E k \in DOMAIN settled[u][t] : i \in (settled[u][t][k].from + 1)..settled[u][t][k].to

\* Every checkpoint a user is past was settled once, or given up: the four
\* ways of withdrawing agree on what is done, whoever mixes them.
SettledExactlyOnce == SettledOnce /\ NothingForgotten

\* Checkpoints are in the order of their blocks, one for a block at most, and
\* the one of this block was written now.
CheckpointsInOrder ==
    \A t \in Tokens : LET cps == tokenCheckpoints[t] IN
        /\ \A i, j \in DOMAIN cps : i < j => cps[i].block < cps[j].block
        /\ \A i \in DOMAIN cps : i <= cps[i].block /\ cps[i].block <= block
        /\ cps # <<>> /\ Last(cps).block = block => lastFeeWithdrawalTime[t] = now

\* What is settled, with a share for each checkpoint, or given up lies before
\* the next checkpoint to be processed.
SettledIsPast ==
    \A u \in Users, t \in Tokens :
        /\ skipped[u][t] \subseteq 1..processedCheckpoints[u][t]
        /\ \A k \in DOMAIN settled[u][t] :
              /\ settled[u][t][k].from < settled[u][t][k].to
              /\ settled[u][t][k].to <= processedCheckpoints[u][t]
              /\ Len(settled[u][t][k].shares) = settled[u][t][k].to - settled[u][t][k].from

\* What makes accounting and settling inductive.
FeeInv ==
    /\ TypeOK
    /\ FeesAccounted
    /\ SettledExactlyOnce
    /\ CheckpointsInOrder
    /\ SettledIsPast

\* Whoever searches on from page to page, as getNextPositiveUserCheckpoint
\* tells him, and passes the checkpoint with fees it then names to
\* claimAllCollectedFees is not refused, neither by its check of the checkpoint
\* nor by the subtraction of what he is past, for any budget, and gives up no
\* checkpoint he has a stake at.  One case is excepted: a checkpoint written in
\* this very block is advised, but the claim of it reverts until the next.
AdviceIsAccepted ==
    \A u \in Users, t \in Tokens, budget, limit \in MaxCheckpointArgs \ {0} :
        LET cps == tokenCheckpoints[t]
            processed == processedCheckpoints[u][t]
        IN  \A startFrom \in 0..Len(cps) :
                LET advice == NextPositive(u, t, startFrom, limit)
                    item == [token |-> t, from |-> advice.checkpointNum]
                    claimed == ClaimSkipped(u, Begun(u, budget), item)
                IN  /\ \A i \in (processed + 1)..startFrom : ~Positive(u, t, i)
                    /\ advice.hasFees /\ advice.hasSkipped
                    /\ cps[advice.checkpointNum].block < block
                    => /\ ValidFrom(u, Begun(u, budget), item)
                       /\ ~claimed.reverted
                       /\ \A i \in claimed.skipped[t] \ skipped[u][t] : ~Positive(u, t, i)

MovesToPast ==
    \A u \in Users, t \in Tokens :
        processedCheckpoints'[u][t] # processedCheckpoints[u][t] =>
            tokenCheckpoints[t][processedCheckpoints'[u][t]].block < block

\* Only checkpoints of blocks that are over are settled or given up, so that
\* nobody is paid by a stake that can still change.
OnlyPastBlocks == [][MovesToPast]_vars

NewlySettled(u, t) ==
    processedCheckpoints'[u][t] - processedCheckpoints[u][t]
        - Cardinality(skipped'[u][t] \ skipped[u][t])

WithinCall ==
    \A u \in Claimers, request \in Requests, max \in MaxCheckpointArgs :
        ClaimAllCollectedFees(u, request, max) =>
            SumFunction([t \in Tokens |-> NewlySettled(u, t)]) <= max

\* A call goes through no more checkpoints than its caller allowed, over all
\* tokens and ways of withdrawing together: what keeps it within a block's gas.
BudgetKept == [][WithinCall]_vars

\* "Because both values are subject to change, they may be different on each
\* fee withdrawal": each share is by the stake at its own checkpoint.
SharesFollowStake ==
    \A u \in Users, t \in Tokens : \A k \in DOMAIN settled[u][t] :
        LET page == settled[u][t][k]
        IN  \A i \in (page.from + 1)..page.to :
                LET cp == tokenCheckpoints[t][i]
                IN  page.shares[i - page.from] = ShareOf(cp, cp.stakes[u])
=============================================================================
