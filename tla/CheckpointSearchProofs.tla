----------------------- MODULE CheckpointSearchProofs -----------------------
(***************************************************************************)
(* The binary search gives the stake of the latest checkpoint at or before *)
(* the block asked for, for every sorted history of any length.            *)
(***************************************************************************)
EXTENDS CheckpointSearch, BookLemmas

\* No index is lost: the middle lies above the lower bound and not above the
\* upper one, so each comparison brings the bounds closer together.
LEMMA CenterBetween ==
    ASSUME lower \in Nat, upper \in Nat, lower < upper
    PROVE  Center \in Nat /\ lower < Center /\ Center <= upper
<1>1. (upper - lower) \div 2 \in Nat /\ (upper - lower) \div 2 < upper - lower
  OBVIOUS
<1> QED BY <1>1 DEF Center

\* The bounds hold the answer at every step, for every sorted history and every
\* block, so the search reads nothing that was not written and returns what
\* the reference definition says.
THEOREM SearchInvariant == SearchSpec => []SearchInv
<1> USE DEF SearchInv
<1>1. SearchInit => SearchInv
  BY DEF SearchInit, SearchTypeOK, BoundsHoldAnswer, AnswerIsPriorStake
<1>2. SearchInv /\ [SearchNext]_searchVars => SearchInv'
  <2> SUFFICES ASSUME SearchInv, [SearchNext]_searchVars PROVE SearchInv'
    OBVIOUS
  <2>0. /\ history \in Histories /\ SortedHistory(history) /\ blockNumber \in Nat
        /\ Len(history) \in Nat /\ DOMAIN history = 1..Len(history)
        /\ \A i \in DOMAIN history : history[i].fromBlock \in Nat /\ history[i].stake \in Nat
        /\ history # <<>> => Len(history) \in 1..Len(history)
    BY WrittenAssumption, HistoryShape DEF SearchTypeOK
  <2> USE DEF SearchTypeOK, BoundsHoldAnswer, AnswerIsPriorStake
  <2>1. CASE ReturnNone
    <3>1. KnownAt(history, blockNumber) = {}
      BY <2>0, <2>1 DEF ReturnNone, KnownAt
    <3> QED BY <2>1, <3>1 DEF ReturnNone, Return, PriorAt
  <2>2. CASE ReturnNewest
    <3>1. PriorAt(history, blockNumber) = history[Len(history)].stake
      BY <2>0, <2>2, PriorIsAt DEF ReturnNewest
    <3> QED BY <2>0, <2>2, <3>1 DEF ReturnNewest, Return
  <2>3. CASE ReturnBeforeFirst
    <3>1. \A i \in DOMAIN history : ~(history[i].fromBlock <= blockNumber)
      <4>1. 1 \in DOMAIN history /\ history[1].fromBlock > blockNumber
        BY <2>0, <2>3 DEF ReturnBeforeFirst, NoneYet
      <4>2. \A i \in DOMAIN history : i = 1 \/ history[1].fromBlock < history[i].fromBlock
        BY <2>0, <4>1 DEF SortedHistory
      <4> QED BY <2>0, <4>1, <4>2
    <3>2. KnownAt(history, blockNumber) = {}
      BY <3>1 DEF KnownAt
    <3> QED BY <2>3, <3>2 DEF ReturnBeforeFirst, Return, PriorAt
  <2>4. CASE StartLoop
    BY <2>0, <2>4 DEF StartLoop, NoneYet, LastIndex
  <2>5. CASE Found
    <3>1. Center \in DOMAIN history
      BY <2>0, <2>5, CenterBetween DEF Found
    <3>2. \A j \in DOMAIN history : j > Center => ~(history[j].fromBlock <= blockNumber)
      BY <2>0, <2>5, <3>1 DEF Found, SortedHistory
    <3>3. PriorAt(history, blockNumber) = history[Center].stake
      <4>1. history[Center].fromBlock <= blockNumber
        BY <2>0, <2>5 DEF Found
      <4> QED BY <2>0, <3>1, <3>2, <4>1, PriorIsAt
    <3> QED BY <2>0, <2>5, <3>1, <3>3 DEF Found, Return
  <2>6. CASE SearchAbove
    <3>1. lower < Center /\ Center <= upper /\ Center \in DOMAIN history
      BY <2>0, <2>6, CenterBetween DEF SearchAbove
    <3> QED BY <2>0, <2>6, <3>1 DEF SearchAbove, FromCenter
  <2>7. CASE SearchBelow
    <3>1. lower < Center /\ Center <= upper /\ Center \in DOMAIN history
      BY <2>0, <2>7, CenterBetween DEF SearchBelow
    <3>2. \A i \in DOMAIN history : i > Center - 1 => history[i].fromBlock > blockNumber
      <4>1. \A i \in DOMAIN history : i = Center \/ i < Center
                \/ history[Center].fromBlock < history[i].fromBlock
        BY <2>0, <3>1 DEF SortedHistory
      <4>2. history[Center].fromBlock \in Nat /\ history[Center].fromBlock > blockNumber
        BY <2>0, <2>7, <3>1 DEF SearchBelow
      <4> SUFFICES ASSUME NEW i \in DOMAIN history, i > Center - 1
                   PROVE  history[i].fromBlock > blockNumber
        OBVIOUS
      <4>3. ~(i < Center)
        BY <2>0, <3>1
      <4>4. CASE i = Center
        BY <4>2, <4>4
      <4>5. CASE history[Center].fromBlock < history[i].fromBlock
        BY <2>0, <4>2, <4>5
      <4> QED BY <4>1, <4>3, <4>4, <4>5
    <3>3. lower \in 1..Len(history) /\ Center - 1 \in 1..Len(history) /\ lower <= Center - 1
      BY <2>0, <2>7, <3>1 DEF SearchBelow
    <3> QED BY <2>7, <3>2, <3>3 DEF SearchBelow
  <2>8. CASE ReturnLower
    <3>1. lower \in DOMAIN history /\ history[lower].fromBlock <= blockNumber
          /\ \A j \in DOMAIN history : j > lower => ~(history[j].fromBlock <= blockNumber)
      BY <2>0, <2>8 DEF ReturnLower
    <3>2. PriorAt(history, blockNumber) = history[lower].stake
      BY <2>0, <3>1, PriorIsAt
    <3> QED BY <2>0, <2>8, <3>1, <3>2 DEF ReturnLower, Return
  <2>9. CASE UNCHANGED searchVars
    BY <2>9 DEF searchVars
  <2> QED BY <2>1, <2>2, <2>3, <2>4, <2>5, <2>6, <2>7, <2>8, <2>9 DEF SearchNext
<1> QED BY <1>1, <1>2, PTL DEF SearchSpec

\* The search answers as the reference definition does, whatever the history.
THEOREM SearchIsCorrect == SearchSpec => []AnswerIsPriorStake
<1>1. SearchInv => AnswerIsPriorStake
  BY DEF SearchInv
<1> QED BY <1>1, SearchInvariant, PTL

\* Between any two steps the lower bound is a checkpoint known at the block and
\* nothing above the upper bound is: the search never loses the answer.
THEOREM BoundsKeepAnswer == SearchSpec => []BoundsHoldAnswer
<1>1. SearchInv => BoundsHoldAnswer
  BY DEF SearchInv
<1> QED BY <1>1, SearchInvariant, PTL

\* The indexes of _getPriorUserStakeByDate stay within the history, so that it
\* reads no checkpoint that was never written.
THEOREM IndexesStayInHistory == SearchSpec => []SearchTypeOK
<1>1. SearchInv => SearchTypeOK
  BY DEF SearchInv
<1> QED BY <1>1, SearchInvariant, PTL
=============================================================================
