---------------------------- MODULE Checkpoints ----------------------------
(***************************************************************************)
(* The histories the staking contract keeps (governance/Staking/modules/   *)
(* shared/CheckpointsShared.sol): sequences of checkpoints, each saying    *)
(* which stake holds from which block on, written at the current block and *)
(* read at past ones.  The four kinds of history (user, delegatee, vesting *)
(* and total stake) are written by the same code, repeated.                *)
(*                                                                         *)
(* Index i of the mapping is element i + 1 here.  The code reads the       *)
(* element before the first of an empty history as a checkpoint of zeros:  *)
(* nCheckpoints - 1 wraps around to an index that was never written.       *)
(***************************************************************************)
EXTENDS Naturals, Sequences

Checkpoint == [fromBlock : Nat, stake : Nat]
Histories  == Seq(Checkpoint)

LastStake(h) == IF h = <<>> THEN 0 ELSE h[Len(h)].stake

WrittenAt(h, block) == h # <<>> /\ h[Len(h)].fromBlock = block

\* What a slip in the test for the current block would do.
AlwaysAppend(h, block, stake) ==
    Append(h, [fromBlock |-> block, stake |-> stake])
AlwaysOverwrite(h, block, stake) ==
    IF h # <<>> THEN [h EXCEPT ![Len(h)].stake = stake]
    ELSE <<[fromBlock |-> block, stake |-> stake]>>

\* The stake from `block` on: the checkpoint of this block is overwritten.
Write(h, block, stake) ==
    IF WrittenAt(h, block)
    THEN [h EXCEPT ![Len(h)] = [fromBlock |-> block, stake |-> stake]]
    ELSE Append(h, [fromBlock |-> block, stake |-> stake])

-----------------------------------------------------------------------------
(* Reading. *)

SortedHistory(h) ==
    \A i, j \in DOMAIN h : i < j => h[i].fromBlock < h[j].fromBlock

KnownAt(h, block) == {i \in DOMAIN h : h[i].fromBlock <= block}

LatestOf(I) == CHOOSE i \in I : \A j \in I : j <= i

\* The stake that held at `block`: the answer the binary search is to give
\* (CheckpointSearch is that search).
PriorAt(h, block) ==
    IF KnownAt(h, block) = {} THEN 0
    ELSE h[LatestOf(KnownAt(h, block))].stake
=============================================================================
