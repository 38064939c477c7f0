---------------------------- MODULE GovernorAlpha ----------------------------
(***************************************************************************)
(* contracts/governance/GovernorAlpha.sol with the Timelock it drives: the *)
(* proposals, their votes, the guardian, and everybody who calls them.     *)
(*                                                                         *)
(* The staking contract is seen through getPriorVotes and                  *)
(* getPriorTotalVotingPower: powerAt[b] is the voting power at the end of  *)
(* block b, any member of Powers.  Only past blocks can be read; powerAt    *)
(* keeps those that still can be asked for.                                *)
(***************************************************************************)
EXTENDS Timelock

CONSTANTS
    Governor,               \* the governor's own address
    InitialGuardian,        \* guardian_ of the constructor
    Voters,                 \* accounts with voting power: they propose and vote
    Powers,                 \* voting power: [votes : [Voters -> Nat], total : Nat]
    Proposable,             \* the sequences of calls that are proposed
    proposalMaxOperations,
    votingDelay,
    votingPeriod,
    quorumPercentageVotes,
    majorityPercentageVotes,
    BlockTimes,             \* seconds from one block to the next
    MaxBlock,               \* bound: the chain stops here
    MaxProposals            \* bound on the number of proposals

ASSUME GovernorAssumption ==
    /\ Governor \in Addresses
    /\ InitialGuardian \in Addresses
    /\ Powers # {}
    /\ Powers \subseteq [votes : [Voters -> Nat], total : Nat]
    /\ Proposable \subseteq Seq(Calls)
    /\ votingDelay \in Nat /\ votingPeriod \in Nat \ {0}
    /\ quorumPercentageVotes \in Nat /\ majorityPercentageVotes \in Nat
    /\ BlockTimes \subseteq Nat
    /\ MaxBlock \in Nat /\ MaxProposals \in Nat
    /\ GRACE_PERIOD > 0

\* Staking's votes never exceed its total (VotesWithinTotal of Staking).
ASSUME PowerAssumption ==
    /\ IsFiniteSet(Voters)
    /\ \A power \in Powers : SumFunction(power.votes) <= power.total

VARIABLES
    block,              \* block.number
    powerAt,            \* staking, at the end of each past block
    guardian,
    proposals,          \* proposals[id] for id in 1..proposalCount
    latestProposalIds   \* 0: the voter never proposed

governorVars == <<guardian, proposals, latestProposalIds>>
chainVars    == <<now, block, powerAt>>
vars         == <<chainVars, timelockVars, governorVars>>

Receipt == [hasVoted : BOOLEAN, support : BOOLEAN, votes : Nat]

\* startTime is left out (powerAt stands for the power at that time), and so
\* is majorityPercentage, which nothing reads.
Proposal ==
    [startBlock : Nat, endBlock : Nat, forVotes : Nat, againstVotes : Nat,
     quorum : Nat, eta : Nat, canceled : BOOLEAN, executed : BOOLEAN,
     proposer : Voters, actions : Seq(Calls), receipts : [Voters -> Receipt]]

Init ==
    /\ now = 1
    /\ block = 1
    /\ powerAt \in [{0} -> Powers]
    /\ guardian = InitialGuardian
    /\ proposals = <<>>
    /\ latestProposalIds = [v \in Voters |-> 0]
    /\ TimelockInit

-----------------------------------------------------------------------------
(* The state of a proposal. *)

Passed(p) ==
    /\ p.forVotes > ((p.forVotes + p.againstVotes) \div 100) * majorityPercentageVotes
    /\ p.forVotes + p.againstVotes >= p.quorum

\* The end of the grace period as the governor counts it; Timelock's InWindow
\* has its own.
GraceIsOver(p) == now >= p.eta + GRACE_PERIOD

\* state(): the first condition that holds decides.
State(p) ==
    IF p.canceled THEN "Canceled"
    ELSE IF block <= p.startBlock THEN "Pending"
    ELSE IF block <= p.endBlock THEN "Active"
    ELSE IF ~Passed(p) THEN "Defeated"
    ELSE IF p.eta = 0 THEN "Succeeded"
    ELSE IF p.executed THEN "Executed"
    ELSE IF GraceIsOver(p) THEN "Expired"
    ELSE "Queued"

\* The transactions of a proposal's actions with this eta.
TransactionsOf(p, eta) ==
    [i \in DOMAIN p.actions |-> [call |-> p.actions[i], eta |-> eta]]

-----------------------------------------------------------------------------
(* The operations. *)

proposalThreshold == powerAt[block - 1].total \div 100

NoActiveProposal(voter) ==
    latestProposalIds[voter] # 0 =>
        State(proposals[latestProposalIds[voter]]) # "Active"

NoLiveProposal(voter) ==
    latestProposalIds[voter] # 0 =>
        State(proposals[latestProposalIds[voter]]) \notin {"Active", "Pending"}

IdBeforeIncrement(count) == count + 2
NextId(count) == count + 1

Propose(voter) ==
    \E actions \in Proposable :
        /\ Len(proposals) < MaxProposals
        /\ powerAt[block - 1].votes[voter] > proposalThreshold
        /\ Len(actions) \in 1..proposalMaxOperations
        /\ NoLiveProposal(voter)
        /\ proposals' = Append(proposals,
             [startBlock |-> block + votingDelay,
              endBlock |-> block + votingDelay + votingPeriod,
              forVotes |-> 0, againstVotes |-> 0,
              quorum |-> quorumPercentageVotes * proposalThreshold,
              eta |-> 0, canceled |-> FALSE, executed |-> FALSE,
              proposer |-> voter, actions |-> actions,
              receipts |-> [v \in Voters |-> [hasVoted |-> FALSE, support |-> FALSE,
                                              votes |-> 0]]])
        /\ latestProposalIds' = [latestProposalIds EXCEPT ![voter] = NextId(Len(proposals))]
        /\ UNCHANGED <<chainVars, timelockVars, guardian>>

VoteUntilQueued(p) == State(p) \in {"Active", "Defeated", "Succeeded"}
MayVote(p) == State(p) = "Active"

LatestVotes(p, voter) == powerAt[block - 1].votes[voter]
PriorVotes(p, voter) == powerAt[p.startBlock].votes[voter]

CountVote(p, voter, support) ==
    LET votes == PriorVotes(p, voter)
    IN  [p EXCEPT !.forVotes = IF support THEN @ + votes ELSE @,
                  !.againstVotes = IF support THEN @ ELSE @ + votes,
                  !.receipts[voter] = [hasVoted |-> TRUE, support |-> support,
                                       votes |-> votes]]

\* castVote, and castVoteBySig for the signatory.
CastVote(voter, id) ==
    \E support \in BOOLEAN :
        /\ MayVote(proposals[id])
        /\ ~proposals[id].receipts[voter].hasVoted
        /\ proposals' = [proposals EXCEPT ![id] = CountVote(@, voter, support)]
        /\ UNCHANGED <<chainVars, timelockVars, guardian, latestProposalIds>>

\* _queueOrRevert: no action of the proposal may be queued at this eta yet,
\* so a proposal that holds the same action twice cannot be queued.
QueueOrIgnore(txs) == IsInjective(txs)
NotQueuedYet(txs) ==
    IsInjective(txs) /\ Range(txs) \cap queuedTransactions = {}

QueueProposal(id) ==
    LET eta == now + delay
        txs == TransactionsOf(proposals[id], eta)
    IN  /\ State(proposals[id]) = "Succeeded"
        /\ NotQueuedYet(txs)
        /\ QueueTransactions(Governor, txs)
        /\ proposals' = [proposals EXCEPT ![id] = [@ EXCEPT !.eta = eta]]
        /\ UNCHANGED <<chainVars, guardian, latestProposalIds>>

ForgetExecution(p) == p
MarkExecuted(p) == [p EXCEPT !.executed = TRUE]

ExecuteProposal(id) ==
    /\ State(proposals[id]) = "Queued"
    /\ ExecuteTransactions(Governor, TransactionsOf(proposals[id], proposals[id].eta))
    /\ proposals' = [proposals EXCEPT ![id] = MarkExecuted(@)]
    /\ UNCHANGED <<chainVars, guardian, latestProposalIds>>

CancelProposal(caller, id) ==
    /\ State(proposals[id]) # "Executed"
    /\ caller = guardian
    /\ CancelTransactions(Governor, TransactionsOf(proposals[id], proposals[id].eta))
    /\ proposals' = [proposals EXCEPT ![id] = [@ EXCEPT !.canceled = TRUE]]
    /\ UNCHANGED <<chainVars, guardian, latestProposalIds>>

AcceptTimelockAdmin(caller) ==
    /\ caller = guardian
    /\ AcceptAdmin(Governor)
    /\ UNCHANGED <<chainVars, governorVars>>

Abdicate(caller) ==
    /\ caller = guardian
    /\ guardian' = NoAddress
    /\ UNCHANGED <<chainVars, timelockVars, proposals, latestProposalIds>>

SetPendingAdminTx(newPendingAdmin, eta) ==
    <<[call |-> [kind |-> "setPendingAdmin", arg |-> newPendingAdmin], eta |-> eta]>>

QueueSetTimelockPendingAdmin(caller) ==
    \E newPendingAdmin \in AdminArgs, slack \in 0..MaxEtaSlack :
        /\ RoomForACall
        /\ caller = guardian
        /\ QueueTransactions(Governor, SetPendingAdminTx(newPendingAdmin, now + delay + slack))
        /\ UNCHANGED <<chainVars, governorVars>>

ExecuteSetTimelockPendingAdmin(caller) ==
    \E tx \in queuedTransactions :
        /\ caller = guardian
        /\ tx.call.kind = "setPendingAdmin"
        /\ ExecuteTransactions(Governor, SetPendingAdminTx(tx.call.arg, tx.eta))
        /\ UNCHANGED <<chainVars, governorVars>>

\* Any other address uses the timelock itself: it takes over the timelock
\* once named pending admin, and then queues, cancels and executes.
OtherAdmin(caller) ==
    /\ caller # Governor
    /\ Queue(caller) \/ Cancel(caller) \/ Execute(caller) \/ AcceptAdmin(caller)
    /\ UNCHANGED <<chainVars, governorVars>>

StartBlocks == {p.startBlock : p \in Range(proposals)}

\* The next block: the clock moves and staking's power settles for this one.
NextBlock ==
    /\ block < MaxBlock
    /\ block' = block + 1
    /\ \E seconds \in BlockTimes : now' = now + seconds
    /\ \E power \in Powers :
          powerAt' = [b \in (StartBlocks \cap 0..block) \cup {block} |->
                         IF b = block THEN power ELSE powerAt[b]]
    /\ UNCHANGED <<timelockVars, governorVars>>

Next ==
    \/ NextBlock
    \/ \E voter \in Voters : Propose(voter)
    \/ \E voter \in Voters, id \in DOMAIN proposals : CastVote(voter, id)
    \/ \E id \in DOMAIN proposals : QueueProposal(id) \/ ExecuteProposal(id)
    \/ \E caller \in Addresses :
          \/ \E id \in DOMAIN proposals : CancelProposal(caller, id)
          \/ AcceptTimelockAdmin(caller)
          \/ Abdicate(caller)
          \/ QueueSetTimelockPendingAdmin(caller)
          \/ ExecuteSetTimelockPendingAdmin(caller)
          \/ OtherAdmin(caller)

Spec == Init /\ [][Next]_vars

-----------------------------------------------------------------------------
(* Properties. *)

\* The type of the state; the power of every past block stays readable.
TypeOK ==
    /\ TimelockTypeOK
    /\ now > 0
    /\ block \in Nat \ {0}
    /\ powerAt \in [DOMAIN powerAt -> Powers]
    /\ DOMAIN powerAt = (StartBlocks \cap 0..(block - 1)) \cup {block - 1}
    /\ guardian \in Addresses \cup {NoAddress}
    /\ proposals \in Seq(Proposal)
    /\ latestProposalIds \in [Voters -> 0..Len(proposals)]

stateOf == [id \in 1..MaxProposals |->
               IF id \in DOMAIN proposals THEN State(proposals[id]) ELSE "None"]

\* state() only moves along the edges of ProposalLifecycle: in particular a
\* vote, a timelock operation or a change of the delay never moves a proposal
\* whose voting is over, and what is executed stays executed.
Lifecycle ==
    INSTANCE ProposalLifecycle WITH
        Ids <- 1..MaxProposals, state <- stateOf

ProposalsFollowLifecycle == Lifecycle!Spec

\* "one live proposal per proposer" (GovernorAlpha.sol:241-252): no proposer
\* has two proposals that are pending or active at the same time.
OneLiveProposalPerProposer ==
    \A i, j \in DOMAIN proposals :
        /\ i # j
        /\ {State(proposals[i]), State(proposals[j])} \subseteq {"Pending", "Active"}
        => proposals[i].proposer # proposals[j].proposer

\* The votes counted on a proposal never exceed the voting power there was at
\* its start block, however stakes moved afterwards (_castVote).
VotesWithinTotalPower ==
    \A id \in DOMAIN proposals :
        LET p == proposals[id]
        IN  State(p) \notin {"Pending", "Canceled"} =>
                p.forVotes + p.againstVotes <= powerAt[p.startBlock].total

\* Whatever the governor has the timelock do was voted: it belongs to an
\* executed proposal that passed and was not canceled.  The one exception is
\* the guardian's __executeSetTimelockPendingAdmin.
EveryCallWasVoted ==
    \A c \in made :
        c.by = Governor /\ c.call.kind # "setPendingAdmin" =>
            \E id \in DOMAIN proposals :
                LET p == proposals[id]
                IN  /\ p.executed /\ Passed(p) /\ ~p.canceled
                    /\ c.call \in Range(p.actions) /\ c.eta = p.eta

\* What a proposal has queued once it has an eta.
OwnTransactions(p) == Range(TransactionsOf(p, p.eta))

\* The ways a queued transaction is lost without its proposal: the guardian
\* runs or ran a setPendingAdmin, or cancels a proposal that shares it.
TakenAway(tx) ==
    \/ tx.call.kind = "setPendingAdmin"
    \/ \E c \in made : c.call.kind = "setPendingAdmin"
    \/ \E other \in DOMAIN proposals :
          proposals[other].canceled /\ tx \in OwnTransactions(proposals[other])

\* What the governor reports Queued the timelock is ready to run: each action
\* is in its queue, and once its eta is reached it is in the timelock's window
\* too, so that execute() does not revert for either reason.  Both contracts
\* have their own end of the grace period (GovernorAlpha.sol:641, Timelock.sol
\* executeTransaction), and the eta is that of the delay at queueing, whatever
\* the delay became.  Only the guardian (who may cancel a canceled proposal
\* with the same action and eta, or run a setPendingAdmin) or another admin
\* can take an action away.
Runnable(tx) == tx \in queuedTransactions /\ (now >= tx.eta => InWindow(tx))

QueuedActionsAvailable ==
    \A id \in DOMAIN proposals :
        State(proposals[id]) = "Queued" =>
            \A tx \in OwnTransactions(proposals[id]) :
                Runnable(tx) \/ TakenAway(tx)

\* "Enqueue a proposal and everyone of its calls", "Cancel a proposal by
\* looping and cancelling everyone of its calls" (GovernorAlpha.sol:306, 379):
\* what is canceled is the proposal's own, so a queued proposal keeps its calls.
QueuedProposalKeepsItsCalls ==
    \A id \in DOMAIN proposals :
        State(proposals[id]) = "Queued" =>
            Range(TransactionsOf(proposals[id], proposals[id].eta)) \subseteq queuedTransactions

-----------------------------------------------------------------------------
(* The inductive invariant of GovernorProofs. *)

\* A proposal's voting takes at least one block.
VotingTakesABlock ==
    \A id \in DOMAIN proposals : proposals[id].startBlock < proposals[id].endBlock

\* The executed flag is only set on what state() reports Executed from then on.
ExecutedIsFinal ==
    \A id \in DOMAIN proposals :
        proposals[id].executed => State(proposals[id]) = "Executed"

\* Only a proposal whose voting is over has an eta, so that the end of voting
\* never finds it queued already.
QueuedAfterVoting ==
    \A id \in DOMAIN proposals :
        proposals[id].eta # 0 => block > proposals[id].endBlock

\* A proposal that is pending or active is the last one of its proposer: the
\* one that propose() looks at.
LiveOnesAreLatest ==
    \A id \in DOMAIN proposals :
        State(proposals[id]) \in {"Pending", "Active"} =>
            latestProposalIds[proposals[id].proposer] = id

\* The votes on a proposal are those of its receipts, and a receipt holds the
\* voter's power at the start block: nobody is counted twice.
ReceiptsAddUp ==
    \A id \in DOMAIN proposals :
        LET p == proposals[id]
            receiptVotes == [v \in Voters |-> p.receipts[v].votes]
        IN  p.forVotes + p.againstVotes = SumFunction(receiptVotes)

ReceiptsHoldPriorVotes ==
    \A id \in DOMAIN proposals : \A v \in Voters :
        LET p == proposals[id]
        IN  IF p.receipts[v].hasVoted
            THEN block > p.startBlock /\ p.receipts[v].votes = PriorVotes(p, v)
            ELSE p.receipts[v].votes = 0

\* A proposal that was queued and is still to be executed.
Waiting(p) == p.eta # 0 /\ ~p.executed

\* What waits is in the queue or was taken away; what two waiting proposals
\* share was taken away, since neither queues what the other has queued; and
\* the governor is no longer admin only by a setPendingAdmin.
WaitingIsQueued ==
    \A id \in DOMAIN proposals :
        Waiting(proposals[id]) =>
            \A tx \in OwnTransactions(proposals[id]) :
                tx \in queuedTransactions \/ TakenAway(tx)

SharedIsTakenAway ==
    \A a, b \in DOMAIN proposals :
        a # b /\ Waiting(proposals[a]) /\ Waiting(proposals[b]) =>
            \A tx \in OwnTransactions(proposals[a]) \cap OwnTransactions(proposals[b]) :
                TakenAway(tx)

AdminIsHandedOver ==
    admin # Governor /\ (\E id \in DOMAIN proposals : proposals[id].eta # 0) =>
        \E c \in made : c.call.kind = "setPendingAdmin"

GovernorInv ==
    /\ TimelockInv
    /\ TypeOK
    /\ Len(proposals) <= MaxProposals
    /\ VotingTakesABlock
    /\ QueuedAfterVoting
    /\ ExecutedIsFinal
    /\ EveryCallWasVoted
    /\ LiveOnesAreLatest
    /\ ReceiptsAddUp
    /\ ReceiptsHoldPriorVotes
    /\ WaitingIsQueued
    /\ SharedIsTakenAway
    /\ AdminIsHandedOver
=============================================================================
