-------------------------- MODULE ProposalLifecycle --------------------------
(***************************************************************************)
(* What GovernorAlpha promises about a proposal: the ProposalState that    *)
(* state(id) reports (GovernorAlpha.sol:113-122, 596-647) only moves along *)
(* these edges.  A transaction moves one proposal; a new block may move    *)
(* any number of them.  Canceled, Defeated, Expired and Executed are never *)
(* left, except that the guardian may still cancel what is not executed.   *)
(***************************************************************************)

CONSTANT Ids          \* the ids proposals may get

VARIABLE state        \* state[id], "None" before the proposal exists

ProposalStates == {"Pending", "Active", "Canceled", "Defeated",
                   "Succeeded", "Queued", "Expired", "Executed"}

ClockEdges == {<<"Pending", "Active">>, <<"Active", "Defeated">>,
               <<"Active", "Succeeded">>, <<"Queued", "Expired">>}

TransactionEdges ==
    {<<"None", "Pending">>, <<"Succeeded", "Queued">>, <<"Queued", "Executed">>}
    \cup {<<s, "Canceled">> : s \in ProposalStates \ {"Executed"}}

Init == state = [id \in Ids |-> "None"]

Clock ==
    /\ state' \in [Ids -> ProposalStates \cup {"None"}]
    /\ \A id \in Ids :
          state'[id] = state[id] \/ <<state[id], state'[id]>> \in ClockEdges

Transaction(id) ==
    \E new \in ProposalStates :
        /\ <<state[id], new>> \in TransactionEdges
        /\ state' = [state EXCEPT ![id] = new]

Next == Clock \/ \E id \in Ids : Transaction(id)

Spec == Init /\ [][Next]_state
=============================================================================
