--------------------------- MODULE MCGovernorAlpha ---------------------------
(***************************************************************************)
(* Two voters, a guardian and a governor, in two settings.                 *)
(***************************************************************************)
EXTENDS GovernorAlpha, TLC

CONSTANTS gov, guard, v1, v2, t1

MCAddresses == {gov, guard}
Other(t)    == [kind |-> "other", arg |-> t]

(* Voting: the voting power moves between two voters from block to block,  *)
(* the majority is counted in whole hundreds of votes, the proposals share *)
(* a call, and the delay may change.                                       *)
VotingVoters == {v1, v2}
VotingPowers ==
    {[votes |-> (v1 :> 100 @@ v2 :> 150), total |-> 250],
     [votes |-> (v1 :> 199 @@ v2 :> 1), total |-> 200]}
VotingProposable ==
    {<<Other(t1)>>, <<Other(t1), [kind |-> "setDelay", arg |-> 2]>>}

(* Handover: power moves from v1 to v2 and back while they vote in two      *)
(* blocks; the timelock's admin may become the guard, who then uses the     *)
(* timelock without the governor, and may hand it back.                     *)
HandoverVoters == {v1, v2}
HandoverPowers ==
    {[votes |-> (v1 :> 200 @@ v2 :> 0), total |-> 200],
     [votes |-> (v1 :> 50 @@ v2 :> 150), total |-> 200]}
HandoverProposable ==
    {<<[kind |-> "setPendingAdmin", arg |-> guard], Other(t1)>>}
HandoverAdminArgs == {gov, guard}
=============================================================================
