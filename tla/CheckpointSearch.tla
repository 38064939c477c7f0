-------------------------- MODULE CheckpointSearch --------------------------
(***************************************************************************)
(* The binary search with which the staking contract reads a history at a  *)
(* past block (_getPriorUserStakeByDate and its three copies for delegated,*)
(* total and vesting stake), statement by statement: early answers for an  *)
(* empty history, the newest and the oldest checkpoint, then the loop.     *)
(* lower and upper are the code's indexes plus one, as in Checkpoints.     *)
(***************************************************************************)
EXTENDS Checkpoints

CONSTANTS
    Written,   \* the histories that may be searched
    MaxBlock   \* bound: the last block asked for

ASSUME WrittenAssumption ==
    /\ MaxBlock \in Nat
    /\ \A h \in Written : h \in Histories /\ SortedHistory(h)

VARIABLES
    history,      \* the checkpoints searched
    blockNumber,  \* the block asked for
    pc,           \* "begin", "search" or "done"
    lower,
    upper,
    answer        \* the stake returned

searchVars == <<history, blockNumber, pc, lower, upper, answer>>

SearchInit ==
    /\ history \in Written
    /\ blockNumber \in 0..MaxBlock
    /\ pc = "begin"
    /\ lower = 0
    /\ upper = 0
    /\ answer = 0

Return(stake) ==
    /\ pc' = "done"
    /\ answer' = stake
    /\ UNCHANGED <<history, blockNumber, lower, upper>>

ReturnNone ==
    /\ pc = "begin"
    /\ history = <<>>
    /\ Return(0)

ReturnNewest ==
    /\ pc = "begin"
    /\ history # <<>>
    /\ history[Len(history)].fromBlock <= blockNumber
    /\ Return(history[Len(history)].stake)

\* What this test would be if it forgot the checkpoint of the block itself.
NoneSoEarly == history[1].fromBlock >= blockNumber
NoneYet == history[1].fromBlock > blockNumber

ReturnBeforeFirst ==
    /\ pc = "begin"
    /\ history # <<>>
    /\ history[Len(history)].fromBlock > blockNumber
    /\ NoneYet
    /\ Return(0)

\* The newest checkpoint; the other form reads past it.
PastLast == Len(history) + 1
LastIndex == Len(history)

StartLoop ==
    /\ pc = "begin"
    /\ history # <<>>
    /\ history[Len(history)].fromBlock > blockNumber
    /\ ~NoneYet
    /\ pc' = "search"
    /\ lower' = 1
    /\ upper' = LastIndex
    /\ UNCHANGED <<history, blockNumber, answer>>

\* The middle is rounded up; rounded down it may stay where it is.
RoundedDown == lower + (upper - lower) \div 2
Center == upper - (upper - lower) \div 2

\* The bounds after a comparison; the other form loses a checkpoint.
PastCenter == Center + 1
FromCenter == Center

Found ==
    /\ pc = "search"
    /\ upper > lower
    /\ history[Center].fromBlock = blockNumber
    /\ Return(history[Center].stake)

SearchAbove ==
    /\ pc = "search"
    /\ upper > lower
    /\ history[Center].fromBlock < blockNumber
    /\ lower' = FromCenter
    /\ UNCHANGED <<history, blockNumber, pc, upper, answer>>

SearchBelow ==
    /\ pc = "search"
    /\ upper > lower
    /\ history[Center].fromBlock > blockNumber
    /\ upper' = Center - 1
    /\ UNCHANGED <<history, blockNumber, pc, lower, answer>>

ReturnLower ==
    /\ pc = "search"
    /\ upper <= lower
    /\ Return(history[lower].stake)

SearchNext ==
    \/ ReturnNone
    \/ ReturnNewest
    \/ ReturnBeforeFirst
    \/ StartLoop
    \/ Found
    \/ SearchAbove
    \/ SearchBelow
    \/ ReturnLower

\* A call runs to its end or is reverted with everything it did.
SearchSpec == SearchInit /\ [][SearchNext]_searchVars /\ WF_searchVars(SearchNext)

-----------------------------------------------------------------------------
(* Properties. *)

\* Every variable has its type, and the loop never leaves the history: an
\* index out of it would read a checkpoint that was never written.
SearchTypeOK ==
    /\ history \in Written
    /\ blockNumber \in 0..MaxBlock
    /\ pc \in {"begin", "search", "done"}
    /\ pc = "search" => lower \in 1..Len(history) /\ upper \in 1..Len(history)
    /\ answer \in Nat

\* The loop keeps the answer between its bounds: the checkpoint at lower is
\* known at the block and none beyond upper is.
BoundsHoldAnswer ==
    pc = "search" =>
        /\ lower <= upper
        /\ history[lower].fromBlock <= blockNumber
        /\ \A i \in DOMAIN history : i > upper => history[i].fromBlock > blockNumber

\* Whatever block is asked for, the search returns the stake of the last
\* checkpoint at or before it, or nothing when there is none.
AnswerIsPriorStake ==
    pc = "done" => answer = PriorAt(history, blockNumber)

SearchInv == SearchTypeOK /\ BoundsHoldAnswer /\ AnswerIsPriorStake

\* The search ends.
SearchEnds == <>(pc = "done")
=============================================================================
