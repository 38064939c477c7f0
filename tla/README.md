# Verification of the Sovryn smart contracts

TLA+ modules that model the Sovryn contracts under `src/contracts` and the
scripts under `src/scripts` with which they are deployed and operated, TLC
configurations that check them on small instances, and proofs, checked by
TLAPS, that hold for every instance.  `PROJECT.json` maps each definition to
the lines it stands for.

Run from this directory: `tlc -config Timelock.cfg Timelock.tla`, `tlapm
GovernorProofs.tla`.

## 1. The system

Sovryn is a lending and margin trading protocol on RSK with a token, SOV, whose
holders govern it ("Bitocracy").  The contracts are Solidity; a transaction runs
alone and to its end or reverts without a trace.  What makes them hard is not
threads but *long legal sequences*: state written in one block is read weeks
later by another contract, and many actors choose the order of calls.

The operators deploy and run them with Python scripts.  A script is *not*
atomic: it sends transactions of the operator's account one after the other,
and most of what it does is only submitted to a multisig wallet, where it waits
until other owners confirm it, or proposed to a governor.  The script can die
half-way, is run again from its beginning, and roles move from the wallet to the
timelocks while transactions are still pending.

```
   SOV holders --stake/delegate--> Staking <--stakeBySchedule-- Vesting contracts
        |                            |  ^                            ^
        | vote                       |  | reads past stakes          | created by
        v                            v  |                            |
   GovernorAlpha --getPriorVotes-----+  FeeSharingCollector     VestingRegistry
        |                            |      ^
   queue/execute/cancel              |      | fees
        v                            |      |
    Timelock --calls--> every owned contract: lending protocol, loan pools, ...
                            ^
    operator --runs--> scripts --submit--> MultiSigWallet <--confirm-- its owners
                          |                    ^
                          +--transactions of the operator's own account
```

| Component | State | Operations | Interacts with | Hard behaviour | What makes it correct |
|---|---|---|---|---|---|
| Timelock | admin, pendingAdmin, delay, queued hashes | queue, cancel, execute, setDelay, setPendingAdmin, acceptAdmin | governor; calls any target, itself included | settings change while transactions are queued | no call runs that was not public for the minimum delay; settings change only so |
| GovernorAlpha | proposals, receipts, latest proposal per proposer, guardian | propose, castVote, queue, execute, cancel, guardian's four | Timelock, Staking | hashes shared by proposals, handover of the timelock, power read at a past block | only voted calls run; states follow the lifecycle; a queued call stays available |
| Staking | histories per lock date: total, user, delegatee, vesting; delegatees; switches | stake, stakeBySchedule, extend, delegate, withdraw, cancel team vesting, pause, freeze, ... | SOV, FeeSharingCollector, vesting contracts; read by all governance | one stake in up to five histories; saturating, checked and unchecked arithmetic; rounding | books add up to tokens; past never changes; votes within total; stakes can be withdrawn |
| Staking checkpoints and search | arrays of (block, stake) | write in this block, read at a past block | used by everything above | overwrite or append; search boundaries | sorted; the search returns the stake at the block, and ends |
| FeeSharingCollector | per token checkpoints of fees, processed count per user, unprocessed amount | transferTokens, withdrawFees, withdraw(ToRBTC/StartingFrom), claims | Staking, protocol, pools | claims in pages, cached stake, withdrawal interval | every fee is paid at most once and by weight |
| StakingRewards | start/stop block, per staker last withdrawal and accumulated | collectReward, stop, setBlock | Staking | ranges, restart times | a reward is paid once |
| Vesting, TeamVesting, FourYearVesting | start, end, cliff, duration | stakeTokens, delegate, withdraw, collectDividends, migrate | Staking, FeeSharingCollector | date loops of four weeks over lock dates of two | all dates of the schedule are reached |
| Vesting registries, factory | vestings per owner, code, type | create, stake, transfer ownership | Vesting, Staking | duplicates, former registries | a vesting is registered once |
| OriginInvestorsClaim | investors' amounts, flags | append, setup finalised, claim | VestingRegistry, SOV | claim before or after the cliff | claims are covered, paid once |
| DevelopmentFund | release schedule, owners, status | init, withdraw, change schedule, change owner, expire | SOV | partial last release, handover | schedule adds up to the tokens held |
| Escrow, EscrowReward | status, balances, deposits, reward | deposit, hold, withdraw by multisig, return, withdraw | SOV, LockedSOV | deposit limit, four phases | every depositor gets all back |
| LockedSOV | locked and unlocked balances, vesting settings, migration | deposit, withdraw, createVestingAndStake, migrate | VestingRegistry, escrow, mining | migration to a new contract | balances add up to tokens |
| LiquidityMining | pools, users' amount, debt, reward | add, update, deposit, withdraw, claim, emergency | LockedSOV, pool tokens | blocks with and without bonus, pools updated late | rewards are split by share |
| MultiSigWallet | owners, required, transactions, confirmations | submit, confirm, revoke, execute, owners' changes | any; the scripts | owners change while transactions are pending; failed calls can be tried again for ever | nothing is made twice; the quorum stays reachable; owners change only by a quorum of owners |
| Operation scripts | none of their own: slots, balances and allowances of contracts | send, submit, propose, check | wallet, governors, all contracts | calls made up now and executed later; crash and repetition; hand-overs with calls pending | they end as they read, fail only where they say so, and cannot touch what was handed over |
| Deployment scripts | the same | deploy, set up, hand over | all contracts | order of deployments, former and present contracts | as above |
| MultiSigKeyHolders | key holders | add, remove, quorum | its deployment script | - | - |
| Loan pools | balances, tokenPrice, assets lent | mint, burn, borrow, marginTrade | lending protocol | interest settled before and after calls | tokens are backed by assets |
| Lending protocol | loans, lender and loan interest, sets of loans | open, close, liquidate, roll over, deposit and withdraw collateral | pools, feeds, swaps | partial closings, interest by time | interest and collateral are conserved |
| Affiliates, Swaps, Feeds, Mixins, Proxies, Guards | referrers, sets, selectors | small | the protocol | - | - |

Hazards with their lines are in `PROJECT.json`.

## 2. Modules

| Module | Extends | What it is |
|---|---|---|
| `Timelock` | | the timelock; its actions are also building blocks for the governor |
| `ProposalLifecycle` | | abstract specification: what a proposal's reported state may do |
| `GovernorAlpha` | `Timelock` | the governor composed with the timelock it administers |
| `MCGovernorAlpha` | `GovernorAlpha` | voters, powers and proposals for TLC |
| `GovernorProofs` | `GovernorAlpha`, `BookLemmas` | the theorems of timelock and governor, with the refinement |
| `Checkpoints` | | one history: writing, and what it says of a block |
| `BookLemmas` | `Checkpoints` | lemmas for all proofs: histories (sorted, unchanged past) and sums over finite sets |
| `CheckpointSearch` | `Checkpoints` | the binary search, one action per branch of the loop |
| `MCCheckpointSearch`, `CheckpointSearchProofs` | | its instance and theorems |
| `Staking` | `Checkpoints` | the staking contract |
| `FeeSharingCollector` | | the fees, their checkpoints and claims |
| `MCFeeSharingCollector`, `FeeSharingProofs` | `FeeSharingCollector` | its instance and theorems |
| `MCStaking`, `StakingProofs` | `Staking` | its instances and theorems |
| `LoanBooks` | | the books of one pool's loans and the steps operations on them are made of |
| `Lending` | `LoanBooks` | the pool and every operation on its loans |
| `MCLending`, `LendingProofs` | `Lending` | its instance, and the theorems on the books of loans |
| `PoolProofs` | `LendingProofs` | the theorems on the price of an iToken and on the interest deposited for loans |
| `MultiSigWallet` | | the wallet: transactions, confirmations, owners, quorum |
| `ScriptSteps` | | what a contract is to a script, calls, and the steps scripts are made of |
| `LoanTokenScripts`, `ProtocolScripts`, `StakingScripts`, `AMMScripts`, `GovernanceScripts`, `AssetScripts`, `TaskScripts`, `SipScripts` | each the one before, `ScriptSteps` | the functions of `scripts/contractInteraction`, `scripts/sip` and `scripts/governance`, one operator each |
| `RedeployScripts`, `DeployScripts`, `ReleaseScripts` | `ScriptSteps`, instances of `SipScripts` | the former tool box; the deployment scripts; the hand-over to governance, a release and the tests after it |
| `Operations` | `ScriptSteps`, `MultiSigWallet` | the operator, the wallet's owners and the timelocks, step by step |
| `MCOperations` | `Operations`, all scripts | the jobs that are run |
| `OperationsProofs` | `Operations` | the theorems of the wallet, and that the operation of the scripts implements it |

**Timelock.**  A queued transaction is the record of the call and its eta (the
hash of all five arguments).  Targets are symbols, but a call of the timelock
to itself (`setDelay`, `setPendingAdmin`) does what the code does.  The module
keeps, besides the contract's own state, when each transaction was queued and
which calls were made: they only serve the properties.  `block.timestamp` is
`now`; `Tick` moves it by any amount.

**GovernorAlpha.**  A proposal is the struct, with the votes per voter as its
receipts.  `State` is `state()`, in the same order of tests, and needs the
block and the time; all guards are in terms of it, as in the code.  Proposed
actions are sequences of calls without eta (`Proposable`); queueing gives them
an eta, and the loops over actions of `queue`, `execute` and `cancel` are set
operations of one step, since the call is atomic and any failure reverts it
all.  Voting power is external to the governor: `NextBlock` fixes the powers of
the block that ends to any of `Powers`, and both votes and thresholds read past
blocks.  Who is not the governor or the guardian may become admin of the
timelock when the guardian hands it over; `OtherAdmin` then queues, cancels and
executes freely.

**ProposalLifecycle.**  Its only variable is the sequence of states the governor
reports.  `GovernorAlpha` implements it under `states <- reported states`.  The
clock may close a vote, and expire a queued proposal, for all proposals at once;
a transaction moves one.

**Checkpoints, CheckpointSearch.**  The contract has one array-and-counter pair
per history and one copy of the write and the search for each; they are the same
code four times over, and one module each here.  The write overwrites the newest
checkpoint when it was written in this block, and appends otherwise.  `PriorAt`
says what a history means at a block without any search; the search is checked,
and proved, to return it.

**Staking.**  All mappings are keyed by lock date, so a lock date has one *page*
(total, stakes, delegated stakes, vesting stake, delegatees).  A transaction is
one action, also when it loops over dates (`stakeBySchedule`, `delegate` of a
vesting, `cancelTeamVesting`): a loop that reverts at one date has no effect at
all, and the dates it visits are different.  A cancellation visits the schedule in
runs of at most `maxVestingWithdrawIterations` dates: `PageDates` are those of one
`cancelTeamVesting`, and `governanceWithdrawVesting` asks for the next from where
`NextStartFrom` says, until `NotCompleted` is false.  Reads of `getPrior...` at
`block - 1` are `PriorAt`.  Names keep those of the contract where there is one.

**FeeSharingCollector.**  A token has a sequence of checkpoints, each with the
snapshot of weighted stakes it was written under (external: the staking contract
is asked again for it, at `blockNumber - 1`).  A claim is one action that folds
its lists of tokens over a record of what it has done so far: processed
checkpoints, budget, or a revert.  `settled` and `skipped` are history: the pages
a user went through and what he gave up.  `NextPositive` is the bounded search of
`getNextPositiveUserCheckpoint`, from the checkpoint asked for or the processed ones.

**LoanBooks, Lending.**  The books of one pool (loans with their interest, the
lender's totals, tokens held, fees, the pool's cash) are one record, and the
internal functions of the code are operators from books to books, in the order in
which the code calls them.  A `require` that fails clears `ok`, and a call whose
books are not ok does not happen: it reverted.  This keeps the early effects of a
function visible to its later steps (a closing settles interest, swaps, settles
again, pays, closes) within one action.  The exchange trades at the price of the
feeds, which moves with time; percentages are of 100; an hour is a step of the
clock and a day is two.  `late` is history: some loan was once open beyond its end; so is `books.twice`:
one closing settled its interest twice (see the findings).  So is `rounded`: what the
deposit of an opening or a rollover was rounded down by, and the term that a reduction
takes off a loan, in parts of a token of which `DAY` make one.  Interest is deposited loan by
loan, each rounded down, and paid out of `owedTotal` for all of them, so at the end
`owedTotal` may be short by the parts that were dropped; `rounded` is what
the properties on interest allow for.

**MultiSigWallet.**  Every function and modifier of the contract.  A transaction is
a call of the wallet to itself, which changes owners or quorum at once, or a call
to another contract, whose success the caller of the action decides.  A call that
fails leaves the transaction not executed, as the code's `try` through
`external_call` does.  `executions` are the `Execution` events in their order; a
transaction is `executed` when there is one of it, so that making it again would show.

**ScriptSteps and the script modules.**  A contract is a set of storage slots, of
which only those that scripts write or calls need appear, with balances and
allowances.  What is not written yet holds `Initially`: the state before the
scripts, in which the wallet owns the contracts.  A *call* says who may make it,
what it needs, which slots it writes, what it moves and which allowances it uses;
a role is read when the call is made.  A *script* is a sequence of steps: a
transaction of the account, a submission to the wallet, a step of the wallet's own
(confirm, revoke, execute), a proposal, a check, or an exception.  An `if` of the
script reads the chain when the script gets there; everything else of the script
is as it is in the code, in its order.  Amounts are small numbers (`Funds`); what
a third contract pays out for what it got (a swap, a redemption) is that it pays.
Scripts that fail whatever the contracts are in are modelled as they are, with
`Raise` at the line where they stop.

**Operations.**  One action per step of a script, and one per confirmation of
another owner, retry, execution by a timelock, crash and rerun.  `attempts` stamps
the addresses of new contracts with the run of the script that deployed them, and
a submission with the run that submitted it.  A proposal, once made, is executed
at some time with all its calls or none: how it gets there is `GovernorAlpha`.

## 3. Runs

| Run | Instance | Shows |
|---|---|---|
| `timelock` | one admin and a rival, times to 5, three calls | calls were public for the minimum delay, settings were announced |
| `governor_voting` | two voters, two proposals, blocks to 6 | the inductive invariant; quorum and majority, lifecycle refinement, calls of queued proposals are in the timelock and in the window in which it runs them |
| `governor_handover` | one proposal, two voters between whom power moves, a vote of two blocks, guardian and a second admin | the same guarantees when the timelock is handed over; votes counted within the power of the start block |
| `governor_double_cancel` | as voting | *violated*: canceling twice takes a call of another queued proposal |
| `checkpoint_search` | all sorted histories up to the bound, all blocks | the search is right and ends |
| `staking_users` | two accounts, two lock dates, odd amounts, scaling 9, blocks to 2; pause, freeze, unlock | books and delegations add up, votes never exceed the total with rounding, what is staked can be withdrawn; histories sorted, past fixed, frozen means frozen |
| `staking_vesting` | one vesting contract, schedule, cancellation at once or in runs of one and two dates | the inductive invariant of the books; books with vesting stakes, cancel leaves nothing |
| `fee_sharing` | two tokens, blocks to 4, one user claims what two share | the inductive invariant; fees are accounted for, settled once, in budget; a claim from the checkpoint the contract advises goes through and forfeits nothing |
| `fee_sharing_cached_stake` | as `fee_sharing` | *violated*: shares follow the stake at each checkpoint |
| `lending` | one supplier, two loans (Torque or trade), days of two steps, times to 4, two prices, five calls | the inductive invariant; books of loans, interest, collateral and fees add up; deposits last but for roundings; loans on time can be repaid; an iToken never loses worth |
| `lending_late` | as `lending` | *violated*: what is left of the deposits lasts for every loan to its end, also when another is late |
| `operations` | 365 different jobs: every script alone; scripts that die and are run again; scripts that follow each other, in a good order and in a bad one; wallets with late, unordered and repeated confirmations | scripts end as they read and fail only where they are known to; nothing touches what was handed over; the wallet keeps its quorum, makes nothing twice and changes owners by a quorum of them |

**Bounds and why they are enough.**  All are `CONSTANTS` in the configurations.

 - `MaxTime`, `MaxEtaSlack`, `MaxCalls` (timelock): a transaction needs delay +
   grace period from queue to expiry, with delays 1 and 2 and a grace period of
   1; time 5 lets a delay be changed by an executed transaction, and another be
   queued under the old one and executed under the new.
 - `MaxBlock` 6 and `MaxProposals` 2: one block of delay and one of voting
   leave room for two proposals that overlap, are queued with the same or with
   different eta, are canceled twice, and expire.  In the handover run, with one proposal,
   two blocks of voting: two votes in different blocks, after the power moved.
 - `MaxBlock` 4, `MaxReceived`, `Claimers` (fees): three checkpoints of each
   token that are over, so pages of one and three, a skip over two, and one
   checkpoint of the block itself; users do not touch each other's claims, so one
   that claims is enough.
 - `MaxStaked` 10 and lock dates two apart: two stakes are enough for
   partial withdrawal, for two accounts with one delegatee, and for an extension
   onto an existing stake.  `MaxBlock` 2 in `staking_users` lets every operation
   meet what was written in its own block or in an earlier one; that longer
   histories stay sorted and fixed is proved.  `MAX_DURATION` of two periods has a date in the middle of the
   weight curve, one at its end and, with extension, one beyond.  `IterationLimits` {1, 2} for a
   schedule of two dates: one run for each date, or both in one; schedules and runs
   of any length are proved (`PagesVisitAll`).
 - The weights are the contract's formula with its own factors (9 and 10).
   Amounts are chosen so that divisions round (5 for votes) or come out (10).
 - `MaxCalls` 5, `MaxTime` 4 (lending): a deposit, two loans, and two calls that
   close, liquidate, extend or roll over; a term is two or three steps of at most four, so a loan
   ends, may stay open, and is rolled over late, and a day of two steps makes interest
   per step a fraction that deposits and payments round.  The amounts (36 of principal, 57 of
   collateral, prices of 8 and 10) make a fall of the price start a partial
   liquidation, and make every division round.  A rate of 10 in a hundred a day (of
   5 or 10 after a rollover) stands for a short time at the real rates.  `reduceLoanDuration` is only
   asked for the interest of whole steps of the clock: in between, the code rounds away less than
   the interest of a second, the model would round away that of a step.
 - `Funds` 10 (operations): a script moves 1 to 5 of it, so that two submissions of
   the same payment are covered and 12 are not, which makes a call of the wallet fail and
   wait.  The wallet has three owners, a quorum of two, two people who may become
   owners and `MAX_OWNER_COUNT` 4, so its limit is met.  One rerun is enough for a
   script to leave two generations of contracts and submissions; two cosigners are
   enough for confirmations in any order.  Scripts meet two pools where the code
   has a list, of which the steps for each are alike.
 - Symmetry is used for loans in `lending`, and for accounts only in `staking_users`,
   where the properties and constants treat them alike; no run with liveness has it.

**Fairness.**  `CheckpointSearch` has weak fairness on each step of the search: a
call runs to its end or reverts, it does not stop halfway.  `Staking.FairSpec`
has weak fairness on `NextBlock`: blocks keep coming.  Nobody is assumed to call
anything, so no liveness of users' operations is claimed.

Deadlock is not checked: a contract that nobody may or wants to call stops, and
bounded time ends.

**Findings.**  The violated runs are disagreements of code and documentation;
`PROJECT.json` quotes both.  (1) `cancel` accepts a canceled proposal and
withdraws its calls from the timelock again; an equal call that another proposal
has queued since, with the same eta, goes with them, and that proposal can no
longer be executed.  (2) The interest of
a loan that is open beyond its end is paid to its lender out of what was
deposited for other loans, so `owedTotal` stops being what it is documented to be,
and without enough other fees and deposits a repayment reverts until the late loan
is rolled over.  (3) A
claim of fees over several checkpoints with one lock date pays all of them by
the stake at the first, so that the amount depends on how a user pages.

A fourth the proofs found, no run shows it: `_closeWithSwap` settles its interest
before the swap, and once more after it when `loanCloseAmountLessInterest == 0`
(`LoanClosingsShared.sol:411`, whose comment at `:412` names the condition it means:
`swapAmount != loanLocal.collateral && !returnTokenIsCollateral`).  It is also 0 when the
refund of interest covers all of what is closed, as of a Torque loan that was extended
until its deposit exceeds its principal.  Returning loan tokens, or when the swap
yields more than `paySwapExcessToBorrowerThreshold`, such a closing reverts; returning collateral, with proceeds no greater than the threshold, both amounts are
taken off the lender's `principalTotal`, and loan tokens are added to an amount of
collateral to be withdrawn.  The amounts are dust.  The properties say what holds
of all books and what only of those without such a closing (`~books.twice`).

**What the scripts showed.**  Read against each other and against the contracts of
this commit, a number of scripts stop where their author did not mean them to; the
model has them stop at that line, and `operations` checks that no other does.

 - Names that are not defined: `deployTradingRebatesUsingLockedSOV`,
   `deployAffiliate` (`protocol.py:262`) and `deployAffiliateWithZeroFeesPercent` (`:365`), after
   some of their transactions are out, and with the latter the whole release
   `deploy_to_mainnet_0921.py`; `updateRolesOnDevelopmentFund` and the two
   withdrawals from the funds (`acct`); `upgradeAggregator`; `deploy_escrow`.
 - Keys that the contract lists lack off a development chain: `deploy_multisig`,
   `deploy_multisig_keyholders` (`timelockOwner`), `deploy_affiliates`.
 - Calls with too few or too many arguments: `testV1Converter` (`amm.py:148`),
   `deploy_protocol.py:21`.
 - Contracts and files that moved: `Staking` as one contract (`deploy_sov.py:64`,
   `deploy_staking_logic.py:29`, `deploy_test_orig_claim.py`, parts of
   `staking_vesting.py`), the ABIs that
   `redeploy_after_bzx_update.py` reads from its own directory.

Others run through and leave something other than their words say: trading and
lending are separate modules of a beacon now, so
`replaceLoanTokenLogicOnAllContracts`, which registers the lending module again,
leaves the LM beacon without one for trading, while
`tasks/update_loan_token_logic.py:5` speaks of all of the logic;
`updateVestingRegAddr` sets the logic contract where its comment names the proxy;
`deploy_upgradable_vesting_registry` leaves registry and proxy with the deployer;
`deploy_claim_read` makes the staking proxy its own implementation;
`fix_four_year_vesting_checkpoints` adds the stakes once more whenever it is run again;
`replaceOwnerOnMultisig` ignores the owner it is given, and the wallet's
`replaceOwner` accepts the zero address, which `addOwner` refuses.
`transfer...OwnershipToGovernance` of a proxy hands over its owner but not its
`proxyOwner`: roles and settings are then the timelock's, the implementation stays
with the wallet (`HandOverIsFinal` is about the former).  The three parts of the
hand-over in `contract_interaction.py` are run in the order their comments ask for.

Four jobs run calls that the contracts refuse, and `NothingFails` allows just these to
fail (the `fails` of a job); everything around them still has to succeed.
`addLiquidityV1FromMultisigUsingWrapper` has its approval commented out
(`amm.py:237`): alone it submits an addition that nobody approved, after
`tokenApproveFromMS` it works, and the former one of
`redeploy_after_bzx_update.py` still approves first.  The former `testBorrow` sends RBTC along
with collateral of any token (`redeploy_after_bzx_update.py:357`), which the pool refuses for
all but WRBTC.  Two swaps of the wallet submitted before either is confirmed share one
approval, as the second script reads the allowance of the first (`amm.py:49`).  And if the wallet
removes itself from the admins of `LockedSOV` before the timelock was added, the addition fails.

A script that pays is not run again after a crash by any job: its payment would be submitted
twice, and made twice if the owners confirm both.  Nothing in the scripts prevents it, and no
property says otherwise; `EndsAsWritten` is about reruns of scripts that set modules, settings
and roles.

## 4. Proofs

All proofs are for every value of the constants that meets the named assumptions:
`AddressAssumption` and `DelayAssumption` of the timelock; `GovernorAssumption`, and
`PowerAssumption`, that the votes Staking reports are within its total (which
`BooksStaySound` proves of Staking); `WrittenAssumption` of the search;
`StakingAssumption` and `BookAssumption`; `FeeAssumption`; `LoanAssumption` and
`PoolAssumption`; `WalletAssumption` and `CallsAssumption`.  They say that
addresses are finitely many, amounts are numbers, percentages are no more than
100 and periods are not 0.  The bounds of the runs are constants too, so the
theorems hold for any bound.

**Sums** (`BookLemmas`).  The books of four components are stated with sums over
accounts, tokens or loans, which are folds.  The induction theorems of the library
take an operator as a parameter and cannot be instantiated here, but
induction can be had otherwise: the subsets of a finite set are well founded, so
a set of subsets that has a counterexample has a minimal one.  The fold is shown
to exist and to be unique that way, and from its recursion follow the facts that are cited
everywhere: a sum changes by what one entry changes (`SumChange`), is
monotone, splits, and can be exchanged with another (`SumExchange`).  The same
argument over initial segments of the naturals does for folds of sequences
(`FoldExists`, `FoldStays` of `FeeSharingProofs`).

*Timelock* (`GovernorProofs`).  That each call was public for the minimum delay
is not inductive: an execution only knows that eta has passed, not when the
transaction was queued.  The invariant adds `QueuedInAdvance` (what is queued
was queued at least the minimum delay before its eta, whatever the delay is set
to since) and `PendingWasAnnounced` (who is pending admin was named by a call
that was made).  `EveryCallWasPublic`, `SettingsChangeInPublic`
and `DelayStaysInBounds` follow.

*Governor* (`GovernorProofs`).  `GovernorInv` joins the timelock's invariant
with what ties a proposal to it: `QueuedAfterVoting` (an eta is set only when
the voting is over, and so the votes are final), `VotingTakesABlock`,
`ExecutedIsFinal`, and that what the governor had executed belongs to executed
proposals that passed, or is the guardian's setPendingAdmin.  From it:
`CallsAreVoted`, the timelock's guarantees under the governor, and
`GovernorImplementsLifecycle`, where each action is shown to move one reported
state along an edge, or none, and a block to move only along the clock's edges.
Three more guarantees needed conjuncts of their own:

 - `OneProposalAtATime`: `propose` only looks at the proposer's latest proposal, so
   `LiveOnesAreLatest`: whatever is pending or active is the latest of its proposer.
 - `VotesStayWithinPower`: votes are added one by one, so `ReceiptsAddUp` (the counts
   are the sums of the receipts) and `ReceiptsHoldPriorVotes` (each receipt holds
   the power of its voter at the start block, which is past and stays).
 - `QueuedCallsAreKept`: `WaitingIsQueued`, `SharedIsTakenAway` and
   `AdminIsHandedOver` say of every call of a queued proposal that it is queued, or
   that a canceled proposal shared it, or that another admin may have removed it.
   The execution of one proposal cannot take the call of another: queueing a call
   that is queued reverts.  That the timelock would run it, from eta to the end of the
   grace period, compares two boundaries: the governor reports `Expired` at
   `eta + GRACE_PERIOD`, when the timelock still executes.

*Search* (`CheckpointSearchProofs`).  The loop invariant `BoundsHoldAnswer`
(`BoundsKeepAnswer`): the checkpoint that holds the answer lies between lower and
upper, within the history (`IndexesStayInHistory`).  Both branches keep it because the history is
sorted, and when lower = upper it is the answer.

*Staking* (`StakingProofs`, `BookLemmas`).  One argument does for all
operations: `PageAdvances` says that a page grows out of another by writes at
the current block.  Such a page stays well formed (`PageOK`: typed, sorted, no
later than the block) and says the same of past blocks.  Each action is shown
to advance every page; then sortedness (`SearchedHistoriesAreSorted`) and the
settled past (`PastPowerIsSettled`) follow once, not per action.
`FreezingStopsAll` rests on `FrozenIsPaused`.  Together with `SearchIsCorrect`:
what any vote or fee reads of a past block is what was staked then.

The books (`BooksAreInvariant`, `BooksStaySound`) need more than they say.
`StakingBooks` claims that stakes, votes and tokens add up, that votes stay within
the total power and that every stake can be withdrawn.  `BooksInv` adds: who has
a stake has a delegatee (`StakesHaveDelegatees`, or a withdrawal finds nobody to take the votes
from); a stake lies no further off than `MAX_DURATION` (`StakesInReach`, or
its weight is undefined); and the histories agree on every past block
(`PastAddsUp`), by which the votes of all delegatees, each rounded down, are at
most the rounded total.  Saturating subtractions of the code never saturate in
these books; that is why `StakingTypeCorrect` holds.  `CancellationLeavesNothing`:
`governanceWithdrawVesting` empties each date of a schedule that begins at a lock date,
as those of `Vesting` do; the theorem says nothing of others.  It rests on `PagesVisitAll`:
the runs of dates it goes through, each from where the one before said, are together
all dates of the schedule.  A run and what is
before the next one are all there is (`ScheduleByPages`), and the next one begins later, so a
run from which dates were missed would be followed by another such run, and there
is no last one.

*Fees* (`FeeSharingProofs`).  `FeeInv` adds to types, accounting and
`SettledExactlyOnce`: checkpoints are of different blocks, in order, not ahead of the
clock (`CheckpointsInOrder`), and what is settled is past (`SettledIsPast`).  The
code would overwrite a checkpoint of its own block; `DueIsNew` shows that this
never happens, as the interval between two is not 0.  A claim is a fold over
lists, so every property is shown of one step (a token's pages, a list's next
entry) and carried along the fold: each step leaves the account of every token
sound and pays from the budget for its progress.  `FeesStayAccounted` compares what was
received with what the checkpoints hold and what is unprocessed; what users take
out is the subject of `EachCheckpointOnce`.
`AdviceStaysAccepted`: whoever searches on from page to page and claims from the
checkpoint with fees that he is told is not reverted, neither by the check of the
checkpoint nor by an unsigned subtraction, and gives up none that he has a stake at.  It excepts a checkpoint
of the current block: the search names it, and the claim of it reverts
(`FeeSharingCollector.sol:531`) until the next block.

*Lending* (`LendingProofs`).  `LoanInv` is inductive: types (no total, deposit or balance goes
below zero), `LenderTotalsAddUp`, `CollateralAccounted`, `NoTokensStuck` (the loan
tokens held are no more than fees and unpaid interest), `ClosedLoansAreEmpty` and
`OpenLoansAreOwed`.  The last two keep the others: a closing divides by
the principal, and an opening begins with an empty loan.  An operation is a chain of
steps from books to books, of which each may clear `ok`.  So each step has two
lemmas.  Its *shape*: books that are ok afterwards were ok before, which goes
backwards from the end of an operation, which happened, to its beginning.  Its
*effect* on books that stay ok, which goes forwards: what it does to one loan,
to the lender, and to `Free` (tokens held less fees) and `Spare` (loan tokens that are
neither fee nor interest).  At the end of an operation, the change of one
loan is the change of the sums over loans.  Closing by swap, with its branches,
is what most of the proof is about, and it showed the fourth finding above.

*Token price* (`PoolProofs`).  `TokensKeepTheirWorth`: no step lowers
`tokenPrice`.  The price is a quotient of quotients, rounded down twice, so prices are
not compared operation by operation.  What the pool has in cash and in principal
lent is its `Worth`; with the interest that would be paid if it were settled now it is
`Due`.  Of each step of an operation a lemma says how it moves the worth: principal
and cash are exchanged (`Pays`), and interest is paid out no less than what was
due.  So every call on a loan leaves the pool worth at least what was due
(`Enriches`), the supply is what it was, and a greater dividend has no smaller
quotient.  `mint` and `burn` change both: the tokens minted, and the assets paid for those
burnt, are rounded down, and `SuppliersPrice` shows from the products that the
price after is no less.  When a block passes, more interest is due
(`TickPrice`); the price leaves it out only in the block of the last settling, which
is never ahead (`SettledInPast`).  A loan whose collateral is worth less than
it owes counts in full, in the code as in the theorem.

*Interest* (`PoolProofs`).  `DepositsLastOnTime`, `InterestStaysAccounted` and
`LoansStayRepayable` need more than `LoanInv`.  A loan *promises* interest: its `owedPerDay`
for the time from the last payment to its end.  `InterestInv` says, of the time in which no
loan is late, that `owedTotal` and, if no closing settled twice, the loan tokens in hand that
are no fee (`Free`) each cover all promises (in parts of a token, plus `rounded`), and that `Free`
falls short of `owedTotal` by no more than `rounded`.  A payment takes from both what it takes off
the promises, rounded down.  An opening or a rollover promises `rounded` parts more than it
deposits, a reduction withdraws as many more than it takes off, and an extension rounds the
other way.  A closing takes the loan's promise off and refunds no more than that.
None of the hypotheses can go: without `rounded` TLC finds a counterexample as soon
as a day has two steps; without `~late` the finding `lending_late` is one; and
a closing that settles twice pays loan tokens out as if they were collateral.

That `LoansCanBeRepaid` holds goes the other way round than the rest: not what follows if
a step is ok, but that it is.  Settling pays the interest that is due, then
the lender's fee, then the refund, each out of what is held.  `InterestInv` bounds the first and the last
together by what was deposited, if the fees make up for what was rounded off; the
hypothesis says that they do.  An operation rounds off less than one unit of the loan token, where
fees are a part of all interest; but whoever withdraws all fees takes that reserve
away, and the theorem says nothing until new fees make up for it.

*Wallet and operations* (`OperationsProofs`).  `WalletInv` is inductive: the owners are at least one
and at most `MAX_OWNER_COUNT`, the quorum is between one and their number, what is confirmed
or made was submitted, and no two `executions` are of one transaction.  One hard step is
`removeOwner`, which must lower the quorum when it would exceed the owners left:
cardinalities of sets with one owner more or less.  The other is that every way to an
execution, also by confirming late or trying again, asks for `notExecuted`
(`LogGrows`, `LogStays`).  `OwnersNeedQuorum` looks at the first change of the owners or their
quorum (`FirstChangeIsConfirmed`): it was made when owners and quorum were still the first
ones, so with a quorum of them; and of a transaction that is executed nobody can revoke his
confirmation, so those confirmations are there ever after.

`OperationsImplementWallet` is the refinement of the composition: whatever `Jobs` are run,
every step of `Operations` is a step of `WalletSpec` or leaves the wallet alone, so both
properties hold of the operation too (`OperatedWalletStaysUsable`, `OperationsNeedQuorum`), with
any scripts, order of confirmations, crash and rerun.  `JobsAssumption` says what the jobs have
to be: sequences, whose submissions are calls to the wallet itself or are in `ForeignCalls`
under their script, step and attempt; TLC evaluates it for the jobs of the run.  The invariant
is `OperatorOK`: the operator is at a step of a script of the job, and no script was started
more often than the job allows, which is what bounds the attempts a submission carries.

**Only model-checked.**

 - `NothingFails`, `EndsAsWritten` and `HandOverIsFinal`: they are facts about the scripts that
   there are, with their arguments and the contracts they begin with, and false of other values
   of `Jobs`: a script that uses a role which is not its contract's owner can undo a hand-over.
   The first two also compare folds over the steps of a script, which would need induction.
 - `SearchEnds`, as liveness under fairness is out of the prover's reach.

## 5. Not modelled

 - In `Staking`: who is owner, admin or pauser (their calls may always happen,
   which allows more than the code); `setVestingStakes`; registration of vesting
   contracts in the middle of their life, code hashes; `migrate` and
   `setNewStakingContract`; token balances and allowances of callers;
   `governanceWithdraw`, which no deployed contract calls.  uint96 and uint32
   widths: amounts are bounded by the supply of SOV, far below 2^96, apart from
   the slash listed as a hazard.
 - In `GovernorAlpha`: signatures (`castVoteBySig` is `castVote` of the signer),
   values in RBTC and what the called contracts do, reentrant calls of them.
 - In `Lending`: who may call, several pools, collateral tokens and lenders of one
   protocol (their fees and tokens share balances), SOV rewards and affiliates,
   transfers of iTokens and their profit checkpoints, flash loans, the curve of
   interest rates (any of `Rates` and `RolloverRates`), slippage and limits of swaps, pausing.
 - Among the scripts: functions that only read and print; dispatchers (`main`,
   `pause_unpause`, `update_loan_token_logic`, `airdrop_distribution`, ...) which call
   what is modelled, one line of it uncommented at a time; distributions and other
   scripts whose transactions are commented out; `swapTest`, which exercises a test
   exchange; `interaction_escrow.py`, which has a syntax error (`elif:` in
   `depositRewardByMultisig`) and cannot be loaded; `uniswap/deploy_pool.py`, whose
   call to the exchange is good for an hour after it was submitted, and
   `move_funds.py`: the operators' model has no clock; `extendStakingCron.py`, whose
   dates hang on the remainder of a floating point division; testing of affiliates in
   `deploy_loanToken.py`.
 - `StakingRewards`, `Vesting`, its registries, `OriginInvestorsClaim`,
   `DevelopmentFund`, `Escrow`, `LockedSOV`, `LiquidityMining`, `Affiliates`: what
   they keep for their users.  The effort went into what others rest on: governance,
   staking, fees, lending, the wallet and the scripts that reach everything.  These
   contracts are read by no other and each would need properties and an instance of
   its own; what the scripts set in them (owners, admins, funds, pools) is modelled.
   The hazards found while reading them are listed in `PROJECT.json` without a
   property.
 - Selectors one by one, delegatecall, reentrancy.
 - The components with status `not_modelled` in `PROJECT.json`, with reasons.

## 6. Plan

What was built, in its order: the timelock and the governor with its lifecycle;
checkpoints, search and staking; fees; a pool with its loans; the wallet, the
scripts and their operation.  What is left, in the order of its worth:

 1. `Vesting` composed with `Staking`: the loops of delegate and withdraw over dates,
    an unaligned start, a second `stakeTokens`, `setVestingStakes`.
 2. `Escrow`, `LockedSOV`, `DevelopmentFund`, `OriginInvestorsClaim`,
    `StakingRewards`, `LiquidityMining`: conservation of tokens and rewards.
 3. Two pools that share the protocol's balances; transfers of iTokens; `Affiliates`.
 4. A composition of `Staking` and `GovernorAlpha` in which `NextBlock` no longer picks
    powers: they are what `PriorVotes` gives; and of `Operations` with
    `GovernorAlpha` for the way of a proposal.
