------------------------- MODULE MCCheckpointSearch -------------------------
(* Every sorted history of up to five checkpoints over seven blocks, and a *)
(* search at each block; the stakes tell the checkpoints apart.            *)
EXTENDS CheckpointSearch, FiniteSets

Blocks == 1..6

SearchedHistories ==
    {[i \in 1..Cardinality(S) |->
        [fromBlock |-> CHOOSE b \in S : Cardinality({c \in S : c <= b}) = i,
         stake |-> 10 * i]] : S \in {T \in SUBSET Blocks : Cardinality(T) <= 5}}
=============================================================================
