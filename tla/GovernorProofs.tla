--------------------------- MODULE GovernorProofs ---------------------------
(***************************************************************************)
(* Two inductive invariants and a refinement.  TimelockInv holds initially *)
(* and every operation of the timelock, whoever calls it and with whatever *)
(* sequence of transactions, preserves it; its lemmas are stated for any   *)
(* sequence, so that the governor's can cite them.  GovernorInv is         *)
(* inductive, and GovernorAlpha implements ProposalLifecycle, for every    *)
(* number of voters and proposals, every voting power, every percentage    *)
(* and every length of voting.                                             *)
(***************************************************************************)
EXTENDS GovernorAlpha, BookLemmas

(* The timelock *)

LEMMA RangeOfTransactions ==
    ASSUME NEW txs \in Seq(Transactions)
    PROVE  Range(txs) \subseteq Transactions
BY DEF Range

LEMMA TimelockInitInv ==
    ASSUME now \in Nat, TimelockInit
    PROVE  TimelockInv
BY AddressAssumption, DelayAssumption
   DEF TimelockInit, TimelockInv, TimelockTypeOK, QueuedInAdvance,
       PendingWasAnnounced, CallsWerePublic, SettingsWereAnnounced

LEMMA ClockStepInv ==
    ASSUME TimelockInv, now' \in Nat, UNCHANGED timelockVars
    PROVE  TimelockInv'
BY DEF timelockVars, TimelockInv, TimelockTypeOK, QueuedInAdvance, Announced,
       PendingWasAnnounced, CallsWerePublic, SettingsWereAnnounced

\* What QueuedInAdvance needs of an eta: queueTransaction asks for the delay
\* in force, which is at least the minimum.
LEMMA QueueStepInv ==
    ASSUME TimelockInv, UNCHANGED now,
           NEW caller, NEW txs \in Seq(Transactions),
           QueueTransactions(caller, txs)
    PROVE  TimelockInv'
<1> USE DEF TimelockInv
<1>1. /\ queuedTransactions' = queuedTransactions \cup Range(txs)
      /\ UNCHANGED <<admin, pendingAdmin, delay, made>>
  BY DEF QueueTransactions
<1>2. queuedTransactions' \subseteq Transactions
  BY <1>1, RangeOfTransactions DEF TimelockTypeOK
<1>3. announcedAt' \in [queuedTransactions' -> Nat]
  BY DEF QueueTransactions, TimelockTypeOK
<1>4. TimelockTypeOK'
  BY <1>1, <1>2, <1>3 DEF TimelockTypeOK
<1>5. QueuedInAdvance'
  <2> SUFFICES ASSUME NEW tx \in queuedTransactions'
               PROVE  tx.eta >= announcedAt'[tx] + MINIMUM_DELAY
    BY DEF QueuedInAdvance
  <2>1. CASE tx \in queuedTransactions
    BY <2>1 DEF QueueTransactions, QueuedInAdvance
  <2>2. CASE tx \notin queuedTransactions
    <3>1. tx \in Range(txs) /\ announcedAt'[tx] = now /\ tx.eta \in Nat
      BY <1>1, <1>2, <2>2 DEF QueueTransactions, Transactions
    <3>2. tx.eta >= now + delay
      BY <3>1 DEF QueueTransactions, EtaSatisfiesDelay
    <3> QED
      BY <3>1, <3>2, DelayAssumption DEF TimelockTypeOK
  <2> QED
    BY <2>1, <2>2
<1>6. PendingWasAnnounced' /\ CallsWerePublic' /\ SettingsWereAnnounced'
  BY <1>1 DEF PendingWasAnnounced, CallsWerePublic,
              SettingsWereAnnounced, Announced
<1> QED
  BY <1>4, <1>5, <1>6

LEMMA CancelStepInv ==
    ASSUME TimelockInv,  UNCHANGED now,
           NEW caller, NEW txs \in Seq(Transactions),
           CancelTransactions(caller, txs)
    PROVE  TimelockInv'
<1> USE DEF TimelockInv
<1>1. /\ queuedTransactions' \subseteq queuedTransactions
      /\ announcedAt' = [tx \in queuedTransactions' |-> announcedAt[tx]]
      /\ UNCHANGED <<admin, pendingAdmin, delay, made>>
  BY DEF CancelTransactions, Restrict
<1>2. TimelockTypeOK' /\ QueuedInAdvance'
  BY <1>1 DEF TimelockTypeOK, QueuedInAdvance
<1>3. PendingWasAnnounced' /\ CallsWerePublic' /\ SettingsWereAnnounced'
  BY <1>1 DEF PendingWasAnnounced, CallsWerePublic,
              SettingsWereAnnounced, Announced
<1> QED
  BY <1>2, <1>3

LEMMA ExecuteStepInv ==
    ASSUME TimelockInv, UNCHANGED now,
           NEW caller, NEW txs \in Seq(Transactions),
           ExecuteTransactions(caller, txs)
    PROVE  TimelockInv'
<1> DEFINE Made(tx) == [call |-> tx.call, eta |-> tx.eta,
                        announced |-> announcedAt[tx], at |-> now, by |-> caller]
<1> USE DEF TimelockInv
<1>1. /\ queuedTransactions' \subseteq queuedTransactions
      /\ announcedAt' = [tx \in queuedTransactions' |-> announcedAt[tx]]
      /\ made' = made \cup {Made(tx) : tx \in Range(txs)}
      /\ UNCHANGED admin
  BY DEF ExecuteTransactions, Restrict
\* Each call now made was queued, is in its window, and was public in time.
<1>2. ASSUME NEW tx \in Range(txs)
      PROVE  /\ Made(tx) \in MadeCalls
             /\ now >= announcedAt[tx] + MINIMUM_DELAY
             /\ tx.eta <= now /\ now <= tx.eta + GRACE_PERIOD
             /\ CallSucceeds(tx.call)
  <2>1. tx \in queuedTransactions /\ InWindow(tx) /\ CallSucceeds(tx.call)
    BY DEF ExecuteTransactions
  <2>2. tx \in Transactions /\ announcedAt[tx] \in Nat /\ now \in Nat
    BY <2>1 DEF TimelockTypeOK
  <2>3. tx.eta >= announcedAt[tx] + MINIMUM_DELAY
    BY <2>1 DEF QueuedInAdvance
  <2>4. caller \in Addresses
    BY DEF ExecuteTransactions, TimelockTypeOK
  <2>5. Made(tx) \in MadeCalls
    BY <2>2, <2>4 DEF Transactions, MadeCalls
  <2>6. /\ now >= announcedAt[tx] + MINIMUM_DELAY
        /\ tx.eta <= now /\ now <= tx.eta + GRACE_PERIOD
    BY <2>1, <2>2, <2>3, DelayAssumption DEF InWindow, Transactions
  <2> QED
    BY <2>1, <2>5, <2>6
<1>3. ASSUME NEW tx \in Range(txs)
      PROVE  \E c \in made' : /\ c.call = tx.call
                              /\ c.at >= c.announced + MINIMUM_DELAY
  <2>1. Made(tx) \in made'
    BY <1>1
  <2>2. Made(tx).call = tx.call /\ Made(tx).at >= Made(tx).announced + MINIMUM_DELAY
    BY <1>2
  <2> QED
    BY <2>1, <2>2
\* The last call of a kind that changes a setting is one of those made.
<1>4. ASSUME NEW kind, NEW old, NEW new, Sets(txs, kind, old, new), new # old
      PROVE  \E tx \in Range(txs) : tx.call.kind = kind /\ tx.call.arg = new
  BY <1>4 DEF Sets, Range
<1>5. ASSUME NEW kind, NEW value, Announced(kind, value)
      PROVE  Announced(kind, value)'
  BY <1>1, <1>5 DEF Announced
<1>6. delay' # delay => /\ Announced("setDelay", delay)'
                        /\ delay' \in MINIMUM_DELAY..MAXIMUM_DELAY
  <2> SUFFICES ASSUME delay' # delay
               PROVE  /\ Announced("setDelay", delay)'
                      /\ delay' \in MINIMUM_DELAY..MAXIMUM_DELAY
    OBVIOUS
  <2>1. PICK tx \in Range(txs) : tx.call.kind = "setDelay" /\ tx.call.arg = delay'
    BY <1>4 DEF ExecuteTransactions
  <2>2. delay' \in MINIMUM_DELAY..MAXIMUM_DELAY
    BY <2>1, <1>2 DEF CallSucceeds
  <2> QED
    BY <2>1, <2>2, <1>3 DEF Announced
<1>7. pendingAdmin' # pendingAdmin => /\ Announced("setPendingAdmin", pendingAdmin)'
                                      /\ pendingAdmin' \in Addresses
  <2> SUFFICES ASSUME pendingAdmin' # pendingAdmin
               PROVE  /\ Announced("setPendingAdmin", pendingAdmin)'
                      /\ pendingAdmin' \in Addresses
    OBVIOUS
  <2>1. PICK tx \in Range(txs) : /\ tx.call.kind = "setPendingAdmin"
                                 /\ tx.call.arg = pendingAdmin'
    BY <1>4 DEF ExecuteTransactions
  <2>2. tx.call \in Calls
    BY RangeOfTransactions DEF Transactions
  <2>3. pendingAdmin' \in Addresses
    BY <2>1, <2>2, AddressAssumption DEF Calls, SetDelayCalls, SetPendingAdminCalls, OtherCalls
  <2> QED
    BY <2>1, <2>3, <1>3 DEF Announced
<1>8. TimelockTypeOK'
  BY <1>1, <1>2, <1>6, <1>7 DEF TimelockTypeOK
<1>9. QueuedInAdvance'
  BY <1>1 DEF QueuedInAdvance
<1>10. PendingWasAnnounced' /\ SettingsWereAnnounced'
  BY <1>1, <1>5, <1>6, <1>7 DEF PendingWasAnnounced, SettingsWereAnnounced
<1>11. CallsWerePublic'
  BY <1>1, <1>2 DEF CallsWerePublic
<1> QED
  BY <1>8, <1>9, <1>10, <1>11

LEMMA AcceptAdminStepInv ==
    ASSUME TimelockInv, UNCHANGED now,
           NEW caller \in Addresses, AcceptAdmin(caller)
    PROVE  TimelockInv'
<1> USE DEF TimelockInv
<1>1. /\ admin' = pendingAdmin /\ admin' \in Addresses
      /\ pendingAdmin' = NoAddress
      /\ UNCHANGED <<delay, queuedTransactions, announcedAt, made>>
  BY DEF AcceptAdmin, MayAcceptAdmin
<1>2. TimelockTypeOK' /\ QueuedInAdvance' /\ CallsWerePublic'
  BY <1>1 DEF TimelockTypeOK, QueuedInAdvance, CallsWerePublic
<1>3. PendingWasAnnounced' /\ SettingsWereAnnounced'
  BY <1>1, AddressAssumption
     DEF PendingWasAnnounced, SettingsWereAnnounced, Announced
<1> QED
  BY <1>2, <1>3

-----------------------------------------------------------------------------

LEMMA TimelockNextInv ==
    ASSUME TimelockInv, [TimelockNext]_<<now, timelockVars>>
    PROVE  TimelockInv'
<1>1. CASE Tick
  BY <1>1, ClockStepInv DEF Tick, TimelockInv, TimelockTypeOK
<1>2. CASE UNCHANGED <<now, timelockVars>>
  BY <1>2, ClockStepInv DEF TimelockInv, TimelockTypeOK
<1>3. ASSUME NEW caller \in Addresses, UNCHANGED now, Queue(caller)
      PROVE  TimelockInv'
  <2>1. PICK call \in Calls, ahead \in 0..(delay + MaxEtaSlack) :
           QueueTransactions(caller, <<[call |-> call, eta |-> now + ahead]>>)
    BY <1>3 DEF Queue
  <2>2. <<[call |-> call, eta |-> now + ahead]>> \in Seq(Transactions)
    BY DelayAssumption DEF Transactions, TimelockInv, TimelockTypeOK
  <2> QED
    BY <1>3, <2>1, <2>2, QueueStepInv
<1>4. ASSUME NEW caller \in Addresses, UNCHANGED now, Cancel(caller)
      PROVE  TimelockInv'
  <2>1. PICK tx \in queuedTransactions : CancelTransactions(caller, <<tx>>)
    BY <1>4 DEF Cancel
  <2>2. <<tx>> \in Seq(Transactions)
    BY DEF TimelockInv, TimelockTypeOK
  <2> QED
    BY <1>4, <2>1, <2>2, CancelStepInv
<1>5. ASSUME NEW caller \in Addresses, UNCHANGED now, Execute(caller)
      PROVE  TimelockInv'
  <2>1. PICK tx \in queuedTransactions : ExecuteTransactions(caller, <<tx>>)
    BY <1>5 DEF Execute
  <2>2. <<tx>> \in Seq(Transactions)
    BY DEF TimelockInv, TimelockTypeOK
  <2> QED
    BY <1>5, <2>1, <2>2, ExecuteStepInv
<1> QED
  BY <1>1, <1>2, <1>3, <1>4, <1>5, AcceptAdminStepInv DEF TimelockNext

\* The inductive invariant of the timelock alone.
THEOREM TimelockInvariant == TimelockSpec => []TimelockInv
<1>1. TimelockStart => TimelockInv
  BY TimelockInitInv DEF TimelockStart
<1>2. TimelockInv /\ [TimelockNext]_<<now, timelockVars>> => TimelockInv'
  BY TimelockNextInv
<1> QED
  BY <1>1, <1>2, PTL DEF TimelockSpec

\* The state keeps its type; above all the delay stays between its bounds,
\* whatever setDelay is asked for and by whichever calls.
THEOREM DelayStaysInBounds == TimelockSpec => []TimelockTypeOK
BY TimelockInvariant, PTL DEF TimelockInv

\* Every call the timelock makes was public for at least the minimum delay,
\* for any delays, addresses, targets and clock (Timelock.sol:52-54).
THEOREM EveryCallWasPublic == TimelockSpec => []CallsWerePublic
BY TimelockInvariant, PTL DEF TimelockInv

\* Nobody becomes admin, and the delay does not change, but by a call the
\* timelock made and that was public in time.
THEOREM SettingsChangeInPublic == TimelockSpec => []SettingsWereAnnounced
BY TimelockInvariant, PTL DEF TimelockInv

(* The governor *)

LEMMA TransactionsOfType ==
    ASSUME NEW p \in Proposal, NEW eta \in Nat
    PROVE  TransactionsOf(p, eta) \in Seq(Transactions)
<1>1. p.actions \in Seq(Calls)
  BY DEF Proposal
<1>2. PICK n \in Nat : DOMAIN p.actions = 1..n
  BY <1>1
<1> QED
  BY <1>1, <1>2 DEF TransactionsOf, Transactions

LEMMA PendingAdminTxType ==
    ASSUME NEW a \in AdminArgs, NEW eta \in Nat
    PROVE  SetPendingAdminTx(a, eta) \in Seq(Transactions)
BY DEF SetPendingAdminTx, Transactions, Calls, SetPendingAdminCalls

\* The steps of the system as its parts see them: the timelock's invariant is
\* kept by whatever the governor and the others do with it.
LEMMA TimelockPart ==
    ASSUME GovernorInv, [Next]_vars
    PROVE  TimelockInv'
<1> USE DEF GovernorInv
<1>0. now \in Nat /\ delay \in Nat
  BY DelayAssumption DEF TypeOK, TimelockTypeOK
<1> UNCHANGED timelockVars /\ UNCHANGED now => TimelockInv'
  BY <1>0, ClockStepInv
<1>1. CASE NextBlock
  BY <1>0, <1>1, ClockStepInv, GovernorAssumption DEF NextBlock
<1>2. ASSUME NEW id \in DOMAIN proposals,
             QueueProposal(id) \/ ExecuteProposal(id) \/ \E caller : CancelProposal(caller, id)
      PROVE  TimelockInv'
  <2>1. proposals[id] \in Proposal /\ proposals[id].eta \in Nat /\ now + delay \in Nat
    <3>1. proposals[id] \in Proposal
      BY DEF TypeOK
    <3> QED
      BY <1>0, <3>1 DEF Proposal
  <2>2. CASE QueueProposal(id)
    <3>1. QueueTransactions(Governor, TransactionsOf(proposals[id], now + delay))
      BY <2>2 DEF QueueProposal
    <3>2. UNCHANGED now
      BY <2>2 DEF QueueProposal, chainVars
    <3> QED
      BY <2>1, <3>1, <3>2, TransactionsOfType, QueueStepInv
  <2>3. CASE ExecuteProposal(id)
    <3>1. ExecuteTransactions(Governor, TransactionsOf(proposals[id], proposals[id].eta))
      BY <2>3 DEF ExecuteProposal
    <3>2. UNCHANGED now
      BY <2>3 DEF ExecuteProposal, chainVars
    <3> QED
      BY <2>1, <3>1, <3>2, TransactionsOfType, ExecuteStepInv
  <2>4. ASSUME NEW caller, CancelProposal(caller, id)
        PROVE  TimelockInv'
    <3>1. CancelTransactions(Governor, TransactionsOf(proposals[id], proposals[id].eta))
      BY <2>4 DEF CancelProposal
    <3>2. UNCHANGED now
      BY <2>4 DEF CancelProposal, chainVars
    <3> QED
      BY <2>1, <3>1, <3>2, TransactionsOfType, CancelStepInv
  <2> QED
    BY <1>2, <2>2, <2>3, <2>4
<1>3. ASSUME NEW caller \in Addresses, QueueSetTimelockPendingAdmin(caller)
      PROVE  TimelockInv'
  <2>1. PICK a \in AdminArgs, slack \in 0..MaxEtaSlack :
           QueueTransactions(Governor, SetPendingAdminTx(a, now + delay + slack))
    BY <1>3 DEF QueueSetTimelockPendingAdmin
  <2>2. now + delay + slack \in Nat /\ UNCHANGED now
    BY <1>0, <1>3, DelayAssumption DEF QueueSetTimelockPendingAdmin, chainVars
  <2> QED
    BY <2>1, <2>2, PendingAdminTxType, QueueStepInv
<1>4. ASSUME NEW caller \in Addresses, ExecuteSetTimelockPendingAdmin(caller)
      PROVE  TimelockInv'
  <2>1. PICK tx \in queuedTransactions :
           /\ tx.call.kind = "setPendingAdmin"
           /\ ExecuteTransactions(Governor, SetPendingAdminTx(tx.call.arg, tx.eta))
    BY <1>4 DEF ExecuteSetTimelockPendingAdmin
  <2>2. tx.eta \in Nat /\ tx.call \in Calls
    BY DEF TypeOK, TimelockTypeOK, Transactions
  <2>3. tx.call.arg \in AdminArgs
    BY <2>1, <2>2 DEF Calls, SetDelayCalls, SetPendingAdminCalls, OtherCalls
  <2> QED
    BY <1>4, <2>1, <2>2, <2>3, PendingAdminTxType, ExecuteStepInv
       DEF ExecuteSetTimelockPendingAdmin, chainVars
<1>5. ASSUME NEW caller \in Addresses, OtherAdmin(caller)
      PROVE  TimelockInv'
  BY <1>5, TimelockNextInv DEF OtherAdmin, chainVars, TimelockNext
<1>6. CASE \E voter \in Voters : Propose(voter)
  BY <1>6 DEF Propose, chainVars
<1>7. CASE \E voter \in Voters, id \in DOMAIN proposals : CastVote(voter, id)
  BY <1>7 DEF CastVote, chainVars
<1>8. ASSUME NEW caller \in Addresses, AcceptTimelockAdmin(caller) \/ Abdicate(caller)
      PROVE  TimelockInv'
  BY <1>8, AcceptAdminStepInv, GovernorAssumption
     DEF AcceptTimelockAdmin, Abdicate, chainVars
<1>9. CASE UNCHANGED vars
  BY <1>9 DEF vars, chainVars
<1> QED
  BY <1>1, <1>2, <1>3, <1>4, <1>5, <1>6, <1>7, <1>8, <1>9 DEF Next

-----------------------------------------------------------------------------
(* How a step changes the proposals. *)

\* A transaction that changes proposal id leaves the clock alone, and turns
\* the proposal into one of the same proposer, window and actions.
SameProposal(p, q) ==
    /\ q.startBlock = p.startBlock /\ q.endBlock = p.endBlock
    /\ q.proposer = p.proposer /\ q.actions = p.actions

\* No votes are counted, or those of one voter who had not voted yet.
SameVotes(p, q) ==
    /\ q.forVotes = p.forVotes /\ q.againstVotes = p.againstVotes
    /\ q.receipts = p.receipts

OneVoteCounted(p, q) ==
    \E voter \in Voters, support \in BOOLEAN :
        /\ ~p.receipts[voter].hasVoted
        /\ block > p.startBlock
        /\ q = CountVote(p, voter, support)

LEMMA ProposeChange ==
    ASSUME TypeOK, NEW voter \in Voters, Propose(voter)
    PROVE  \E p \in Proposal :
              /\ proposals' = Append(proposals, p)
              /\ p.startBlock = block + votingDelay
              /\ p.endBlock = block + votingDelay + votingPeriod
              /\ ~p.canceled /\ ~p.executed /\ p.eta = 0
              /\ p.proposer = voter
              /\ p.forVotes = 0 /\ p.againstVotes = 0
              /\ p.receipts = [v \in Voters |-> [hasVoted |-> FALSE, support |-> FALSE,
                                                votes |-> 0]]
              /\ Len(proposals) < MaxProposals
<1>1. PICK actions \in Proposable :
         /\ Len(proposals) < MaxProposals
         /\ proposals' = Append(proposals,
             [startBlock |-> block + votingDelay,
              endBlock |-> block + votingDelay + votingPeriod,
              forVotes |-> 0, againstVotes |-> 0,
              quorum |-> quorumPercentageVotes * proposalThreshold,
              eta |-> 0, canceled |-> FALSE, executed |-> FALSE,
              proposer |-> voter, actions |-> actions,
              receipts |-> [v \in Voters |-> [hasVoted |-> FALSE, support |-> FALSE,
                                              votes |-> 0]]])
  BY DEF Propose
<1>2. actions \in Seq(Calls)
  BY GovernorAssumption
<1>3. quorumPercentageVotes * proposalThreshold \in Nat
  <2>1. powerAt[block - 1] \in Powers
    BY DEF TypeOK
  <2>2. powerAt[block - 1].total \in Nat
    BY <2>1, GovernorAssumption
  <2>3. proposalThreshold \in Nat
    BY <2>2 DEF proposalThreshold
  <2> QED
    BY <2>3, GovernorAssumption
<1>4. [v \in Voters |-> [hasVoted |-> FALSE, support |-> FALSE,
                         votes |-> 0]] \in [Voters -> Receipt]
  BY DEF Receipt
<1> DEFINE p == [startBlock |-> block + votingDelay,
              endBlock |-> block + votingDelay + votingPeriod,
              forVotes |-> 0, againstVotes |-> 0,
              quorum |-> quorumPercentageVotes * proposalThreshold,
              eta |-> 0, canceled |-> FALSE, executed |-> FALSE,
              proposer |-> voter, actions |-> actions,
              receipts |-> [v \in Voters |-> [hasVoted |-> FALSE, support |-> FALSE,
                                              votes |-> 0]]]
<1>5. p \in Proposal
  BY <1>2, <1>3, <1>4, GovernorAssumption, SMTT(30) DEF Proposal, TypeOK
<1> QED
  BY <1>1, <1>5

LEMMA VoteChange ==
    ASSUME TypeOK, NEW voter \in Voters, NEW id \in DOMAIN proposals, CastVote(voter, id)
    PROVE  \E q \in Proposal :
              /\ proposals' = [proposals EXCEPT ![id] = q]
              /\ SameProposal(proposals[id], q)
              /\ q.canceled = proposals[id].canceled
              /\ q.eta = proposals[id].eta
              /\ q.executed = proposals[id].executed
              /\ State(proposals[id]) = "Active"
              /\ OneVoteCounted(proposals[id], q)
<1> DEFINE p == proposals[id]
           votes == PriorVotes(p, voter)
<1>1. PICK support \in BOOLEAN :
        /\ MayVote(p)
        /\ ~p.receipts[voter].hasVoted
        /\ proposals' = [proposals EXCEPT ![id] = CountVote(p, voter, support)]
  BY DEF CastVote
<1>2. p \in Proposal
  BY DEF TypeOK
<1>3. State(p) = "Active"
  BY <1>1 DEF MayVote
<1>4. block > p.startBlock
  BY <1>2, <1>3 DEF State, TypeOK, Proposal
<1>5. p.startBlock \in DOMAIN powerAt
  <2>1. p.startBlock \in StartBlocks
    BY DEF StartBlocks, Range
  <2>2. p.startBlock \in 0..(block - 1)
    BY <1>2, <1>4 DEF TypeOK, Proposal
  <2> QED
    BY <2>1, <2>2 DEF TypeOK
<1>6. votes \in Nat
  <2>1. powerAt[p.startBlock] \in Powers
    BY <1>5 DEF TypeOK
  <2> QED
    BY <2>1, GovernorAssumption DEF PriorVotes
<1>7. [hasVoted |-> TRUE, support |-> support, votes |-> votes] \in Receipt
  BY <1>6 DEF Receipt, TypeOK
<1>8. CountVote(p, voter, support) \in Proposal
  <2> DEFINE forVotes     == IF support THEN p.forVotes + votes ELSE p.forVotes
             againstVotes == IF support THEN p.againstVotes ELSE p.againstVotes + votes
             receipt      == [hasVoted |-> TRUE, support |-> support,
                              votes |-> votes]
             receipts     == [p.receipts EXCEPT ![voter] = receipt]
  <2>1. CountVote(p, voter, support) =
          [p EXCEPT !.forVotes = forVotes, !.againstVotes = againstVotes,
                    !.receipts = receipts]
    BY DEF CountVote
  <2>2. forVotes \in Nat /\ againstVotes \in Nat
    BY <1>2, <1>6 DEF Proposal
  <2>3. receipts \in [Voters -> Receipt]
    BY <1>2, <1>7 DEF Proposal
  <2> HIDE DEF forVotes, againstVotes, receipts
  <2> QED
    BY <1>2, <2>1, <2>2, <2>3 DEF Proposal
<1>9. LET q == CountVote(p, voter, support)
      IN  /\ SameProposal(p, q) /\ q.eta = p.eta
          /\ q.canceled = p.canceled /\ q.executed = p.executed
  BY <1>2 DEF SameProposal, Proposal, CountVote
<1>10. OneVoteCounted(p, CountVote(p, voter, support))
  BY <1>1, <1>4 DEF OneVoteCounted
<1> QED
  BY <1>1, <1>3, <1>8, <1>9, <1>10

LEMMA QueueChange ==
    ASSUME GovernorInv, NEW id \in DOMAIN proposals, QueueProposal(id)
    PROVE  \E q \in Proposal :
              /\ proposals' = [proposals EXCEPT ![id] = q]
              /\ SameProposal(proposals[id], q)
              /\ ~proposals[id].executed
              /\ State(proposals[id]) = "Succeeded"
              /\ State(q) = "Queued"
              /\ ~q.executed
              /\ SameVotes(proposals[id], q)
<1> DEFINE p == proposals[id]
           q == [p EXCEPT !.eta = now + delay]
<1>1. p \in Proposal /\ now \in Nat \ {0} /\ delay \in Nat
  BY DelayAssumption DEF GovernorInv, TypeOK, TimelockTypeOK
<1>2. State(p) = "Succeeded" /\ proposals' = [proposals EXCEPT ![id] = q]
  BY DEF QueueProposal
<1>3. ~p.executed
  BY <1>2 DEF GovernorInv, ExecutedIsFinal
<1>4. q \in Proposal /\ SameProposal(p, q) /\ SameVotes(p, q)
  BY <1>1, SMTT(30) DEF Proposal, SameProposal, SameVotes
<1>5. State(q) = "Queued"
  <2>1. /\ ~p.canceled /\ ~(block <= p.startBlock) /\ ~(block <= p.endBlock)
        /\ Passed(p)
    BY <1>2 DEF State
  <2>2. Passed(q) <=> Passed(p)
    BY <1>1 DEF Passed, Proposal
  <2>3. /\ q.canceled = p.canceled /\ q.executed = p.executed /\ q.eta = now + delay
        /\ q.startBlock = p.startBlock /\ q.endBlock = p.endBlock
    BY <1>1 DEF Proposal
  <2>4. q.eta # 0 /\ ~(now >= q.eta + GRACE_PERIOD)
    BY <1>1, <2>3, DelayAssumption, GovernorAssumption, SMTT(30)
  <2> QED
    BY <1>3, <2>1, <2>2, <2>3, <2>4 DEF State, GraceIsOver
<1>6. ~q.executed
  BY <1>1, <1>3 DEF Proposal
<1> QED
  BY <1>2, <1>3, <1>4, <1>5, <1>6

LEMMA ExecuteChange ==
    ASSUME TypeOK, NEW id \in DOMAIN proposals, ExecuteProposal(id)
    PROVE  \E q \in Proposal :
              /\ proposals' = [proposals EXCEPT ![id] = q]
              /\ SameProposal(proposals[id], q)
              /\ q.eta = proposals[id].eta
              /\ q.executed /\ Passed(q) /\ ~q.canceled
              /\ State(proposals[id]) = "Queued"
              /\ State(q) = "Executed"
              /\ SameVotes(proposals[id], q)
<1> DEFINE p == proposals[id]
           q == MarkExecuted(p)
<1>1. p \in Proposal
  BY DEF TypeOK
<1>2. State(p) = "Queued" /\ proposals' = [proposals EXCEPT ![id] = q]
  BY DEF ExecuteProposal
<1>3. /\ q \in Proposal /\ SameProposal(p, q) /\ SameVotes(p, q)
      /\ q.eta = p.eta /\ q.executed
  BY <1>1 DEF Proposal, SameProposal, SameVotes, MarkExecuted
<1>4. State(q) = "Executed" /\ Passed(q) /\ ~q.canceled
  BY <1>1, <1>2 DEF State, Passed, Proposal, MarkExecuted
<1> QED
  BY <1>2, <1>3, <1>4

LEMMA CancelChange ==
    ASSUME GovernorInv, NEW caller, NEW id \in DOMAIN proposals, CancelProposal(caller, id)
    PROVE  \E q \in Proposal :
              /\ proposals' = [proposals EXCEPT ![id] = q]
              /\ SameProposal(proposals[id], q)
              /\ ~q.executed
              /\ q.eta = proposals[id].eta
              /\ State(proposals[id]) # "Executed"
              /\ State(q) = "Canceled"
              /\ SameVotes(proposals[id], q)
              /\ q.canceled
<1> DEFINE p == proposals[id]
           q == [p EXCEPT !.canceled = TRUE]
<1>1. p \in Proposal
  BY DEF GovernorInv, TypeOK
<1>2. State(p) # "Executed" /\ proposals' = [proposals EXCEPT ![id] = q]
  BY DEF CancelProposal
<1>3. /\ q \in Proposal /\ SameProposal(p, q) /\ SameVotes(p, q)
      /\ q.eta = p.eta /\ q.canceled
  BY <1>1 DEF Proposal, SameProposal, SameVotes
<1>4. ~q.executed
  BY <1>1, <1>2 DEF GovernorInv, ExecutedIsFinal, Proposal
<1>5. State(q) = "Canceled"
  BY <1>1 DEF State, Proposal
<1> QED
  BY <1>2, <1>3, <1>4, <1>5

-----------------------------------------------------------------------------
(* Every step, seen from the proposals. *)

\* A transaction: the clock stands still, and one proposal is created or
\* moved along a TransactionEdge, or none changes its state.
Created(p) ==
    /\ proposals' = Append(proposals, p)
    /\ Len(proposals) < MaxProposals
    /\ p.startBlock = block + votingDelay
    /\ p.endBlock = block + votingDelay + votingPeriod
    /\ ~p.canceled /\ ~p.executed /\ p.eta = 0
    /\ p.forVotes = 0 /\ p.againstVotes = 0
    /\ p.receipts = [v \in Voters |-> [hasVoted |-> FALSE, support |-> FALSE, votes |-> 0]]
    /\ NoLiveProposal(p.proposer)
    /\ latestProposalIds' = [latestProposalIds EXCEPT ![p.proposer] = NextId(Len(proposals))]

Moved(id, q) ==
    /\ proposals' = [proposals EXCEPT ![id] = q]
    /\ SameProposal(proposals[id], q)
    /\ State(proposals[id]) # "Executed"
    /\ q.executed => State(q) = "Executed"
    /\ q.eta # 0 => block > q.endBlock
    /\ q.eta = proposals[id].eta \/ State(proposals[id]) = "Succeeded"
    /\ SameVotes(proposals[id], q) \/ OneVoteCounted(proposals[id], q)
    /\ UNCHANGED latestProposalIds
    /\ \/ State(q) = State(proposals[id])
       \/ <<State(proposals[id]), State(q)>> \in Lifecycle!TransactionEdges

LEMMA StepChange ==
    ASSUME GovernorInv, [Next]_vars
    PROVE  \/ NextBlock
           \/ UNCHANGED <<now, block, powerAt>> /\ UNCHANGED <<proposals, latestProposalIds>>
           \/ /\ UNCHANGED <<now, block, powerAt>>
              /\ \E p \in Proposal : Created(p)
           \/ /\ UNCHANGED <<now, block, powerAt>>
              /\ \E id \in DOMAIN proposals : \E q \in Proposal : Moved(id, q)
<1> DEFINE Still == UNCHANGED <<now, block, powerAt>>
<1> USE DEF GovernorInv
<1>1. ASSUME NEW voter \in Voters, Propose(voter)
      PROVE  Still /\ \E p \in Proposal : Created(p)
  BY <1>1, ProposeChange, ZenonT(40) DEF Propose, chainVars, Created
<1>2. ASSUME NEW voter \in Voters, NEW id \in DOMAIN proposals, CastVote(voter, id)
      PROVE  Still /\ \E q \in Proposal : Moved(id, q)
  <2>1. PICK q \in Proposal :
              /\ proposals' = [proposals EXCEPT ![id] = q]
              /\ SameProposal(proposals[id], q)
              /\ q.canceled = proposals[id].canceled
              /\ q.eta = proposals[id].eta
              /\ q.executed = proposals[id].executed
              /\ State(proposals[id]) = "Active"
              /\ OneVoteCounted(proposals[id], q)
    BY <1>2, VoteChange
  <2>2. State(q) = "Active"
    BY <2>1 DEF State, SameProposal
  <2>3. ~q.executed /\ (q.eta # 0 => block > q.endBlock)
    BY <2>1 DEF ExecutedIsFinal, QueuedAfterVoting, SameProposal
  <2> QED
    BY <1>2, <2>1, <2>2, <2>3 DEF CastVote, chainVars, Moved
<1>3. ASSUME NEW id \in DOMAIN proposals, QueueProposal(id)
      PROVE  Still /\ \E q \in Proposal : Moved(id, q)
  <2>1. PICK q \in Proposal :
              /\ proposals' = [proposals EXCEPT ![id] = q]
              /\ SameProposal(proposals[id], q)
              /\ ~proposals[id].executed
              /\ State(proposals[id]) = "Succeeded"
              /\ State(q) = "Queued"
              /\ ~q.executed
              /\ SameVotes(proposals[id], q)
    BY <1>3, QueueChange
  <2>2. block > q.endBlock
    <3>1. ~(block <= q.endBlock)
      BY <2>1 DEF State
    <3>2. block \in Nat /\ q.endBlock \in Nat
      BY DEF TypeOK, Proposal
    <3> QED
      BY <3>1, <3>2
  <2> QED
    BY <1>3, <2>1, <2>2 DEF QueueProposal, chainVars, Moved, Lifecycle!TransactionEdges
<1>4. ASSUME NEW id \in DOMAIN proposals, ExecuteProposal(id)
      PROVE  Still /\ \E q \in Proposal : Moved(id, q)
  <2>1. PICK q \in Proposal :
              /\ proposals' = [proposals EXCEPT ![id] = q]
              /\ SameProposal(proposals[id], q)
              /\ q.eta = proposals[id].eta
              /\ State(proposals[id]) = "Queued"
              /\ State(q) = "Executed"
              /\ SameVotes(proposals[id], q)
    BY <1>4, ExecuteChange
  <2>2. q.eta # 0 => block > q.endBlock
    BY <2>1 DEF SameProposal, QueuedAfterVoting
  <2> QED
    BY <1>4, <2>1, <2>2 DEF ExecuteProposal, chainVars, Moved, Lifecycle!TransactionEdges
<1>5. ASSUME NEW caller, NEW id \in DOMAIN proposals, CancelProposal(caller, id)
      PROVE  Still /\ \E q \in Proposal : Moved(id, q)
  <2>1. PICK q \in Proposal :
              /\ proposals' = [proposals EXCEPT ![id] = q]
              /\ SameProposal(proposals[id], q)
              /\ ~q.executed
              /\ q.eta = proposals[id].eta
              /\ State(proposals[id]) # "Executed"
              /\ State(q) = "Canceled"
              /\ SameVotes(proposals[id], q)
    BY <1>5, CancelChange
  <2>2. State(proposals[id]) \in Lifecycle!ProposalStates
    BY DEF State, Lifecycle!ProposalStates
  <2>3. q.eta # 0 => block > q.endBlock
    BY <2>1 DEF SameProposal, QueuedAfterVoting
  <2> QED
    BY <1>5, <2>1, <2>2, <2>3 DEF CancelProposal, chainVars, Moved, Lifecycle!TransactionEdges
<1>6. ASSUME NEW caller \in Addresses,
             \/ AcceptTimelockAdmin(caller) \/ Abdicate(caller)
             \/ QueueSetTimelockPendingAdmin(caller)
             \/ ExecuteSetTimelockPendingAdmin(caller)
             \/ OtherAdmin(caller)
      PROVE  Still /\ UNCHANGED <<proposals, latestProposalIds>>
  BY <1>6 DEF AcceptTimelockAdmin, Abdicate, QueueSetTimelockPendingAdmin,
              ExecuteSetTimelockPendingAdmin, OtherAdmin, chainVars, governorVars
<1>7. CASE UNCHANGED vars
  BY <1>7 DEF vars, chainVars, governorVars
<1> HIDE DEF GovernorInv
<1> QED
  BY <1>1, <1>2, <1>3, <1>4, <1>5, <1>6, <1>7 DEF Next

LEMMA StartBlocksCreated ==
    ASSUME TypeOK, NEW p \in Proposal, Created(p)
    PROVE  /\ Len(proposals') = Len(proposals) + 1
           /\ proposals' \in Seq(Proposal)
           /\ \A id \in DOMAIN proposals : id \in DOMAIN proposals' /\ proposals'[id] = proposals[id]
           /\ DOMAIN proposals' = DOMAIN proposals \cup {Len(proposals')}
           /\ proposals'[Len(proposals')] = p
           /\ StartBlocks' = StartBlocks \cup {p.startBlock}
<1>1. proposals \in Seq(Proposal) /\ proposals' = Append(proposals, p)
  BY DEF TypeOK, Created
<1>2. /\ Len(proposals') = Len(proposals) + 1
      /\ proposals' \in Seq(Proposal)
      /\ \A id \in DOMAIN proposals : id \in DOMAIN proposals' /\ proposals'[id] = proposals[id]
      /\ DOMAIN proposals' = DOMAIN proposals \cup {Len(proposals')}
      /\ proposals'[Len(proposals')] = p
  BY <1>1
<1>3. StartBlocks' = StartBlocks \cup {p.startBlock}
  BY <1>2 DEF StartBlocks, Range
<1> QED
  BY <1>2, <1>3

LEMMA StartBlocksMoved ==
    ASSUME TypeOK, NEW id \in DOMAIN proposals, NEW q \in Proposal, Moved(id, q)
    PROVE  /\ proposals' \in Seq(Proposal)
           /\ Len(proposals') = Len(proposals)
           /\ DOMAIN proposals' = DOMAIN proposals
           /\ proposals'[id] = q
           /\ \A other \in DOMAIN proposals \ {id} : proposals'[other] = proposals[other]
           /\ StartBlocks' = StartBlocks
<1>1. proposals \in Seq(Proposal) /\ proposals' = [proposals EXCEPT ![id] = q]
  BY DEF TypeOK, Moved
<1>2. /\ proposals' \in Seq(Proposal)
      /\ Len(proposals') = Len(proposals)
      /\ DOMAIN proposals' = DOMAIN proposals
      /\ proposals'[id] = q
      /\ \A other \in DOMAIN proposals \ {id} : proposals'[other] = proposals[other]
  BY <1>1
<1>3. \A i \in DOMAIN proposals : proposals'[i].startBlock = proposals[i].startBlock
  BY <1>2 DEF Moved, SameProposal
<1>4. StartBlocks' = StartBlocks
  BY <1>2, <1>3 DEF StartBlocks, Range
<1> QED
  BY <1>2, <1>4

LEMMA TypePart ==
    ASSUME GovernorInv, [Next]_vars
    PROVE  TypeOK'
<1> USE DEF GovernorInv
<1>1. TimelockTypeOK'
  BY TimelockPart DEF TimelockInv
<1>2. guardian' \in Addresses \cup {NoAddress}
  <2>1. CASE UNCHANGED guardian
    BY <2>1 DEF TypeOK
  <2>2. CASE guardian' = NoAddress
    BY <2>2
  <2> QED
    BY <2>1, <2>2
       DEF Next, vars, governorVars, NextBlock, Propose, CastVote, QueueProposal,
           ExecuteProposal, CancelProposal, AcceptTimelockAdmin, Abdicate,
           QueueSetTimelockPendingAdmin, ExecuteSetTimelockPendingAdmin, OtherAdmin
<1>3. latestProposalIds' \in [Voters -> 0..Len(proposals')]
  <2>1. CASE \E voter \in Voters : Propose(voter)
    <3>1. PICK voter \in Voters : Propose(voter)
      BY <2>1
    <3>2. PICK p \in Proposal : Created(p)
      BY <3>1, ProposeChange, ZenonT(40) DEF Created, Propose
    <3>3. Len(proposals') = Len(proposals) + 1 /\ Len(proposals) \in Nat
      BY <3>2, StartBlocksCreated DEF TypeOK
    <3>4. latestProposalIds' = [latestProposalIds EXCEPT ![voter] = Len(proposals) + 1]
      BY <3>1 DEF Propose, NextId
    <3> QED
      BY <3>3, <3>4 DEF TypeOK
  <2>2. CASE ~\E voter \in Voters : Propose(voter)
    <3>1. UNCHANGED latestProposalIds
      BY <2>2
         DEF Next, vars, governorVars, NextBlock, CastVote, QueueProposal,
             ExecuteProposal, CancelProposal, AcceptTimelockAdmin, Abdicate,
             QueueSetTimelockPendingAdmin, ExecuteSetTimelockPendingAdmin, OtherAdmin
    <3>2. Len(proposals') >= Len(proposals) /\ Len(proposals') \in Nat /\ Len(proposals) \in Nat
      BY StepChange, StartBlocksCreated, StartBlocksMoved
         DEF TypeOK, NextBlock, governorVars
    <3> QED
      BY <3>1, <3>2 DEF TypeOK
  <2> QED
    BY <2>1, <2>2
<1>4. CASE NextBlock
  <2>1. now' > 0 /\ block' = block + 1 /\ UNCHANGED proposals
    BY <1>4, GovernorAssumption DEF NextBlock, TypeOK, TimelockTypeOK, governorVars
  <2>2. PICK power \in Powers :
          powerAt' = [b \in (StartBlocks \cap 0..block) \cup {block} |->
                         IF b = block THEN power ELSE powerAt[b]]
    BY <1>4 DEF NextBlock
  <2>3. StartBlocks' = StartBlocks
    BY <2>1 DEF StartBlocks
  <2>4. ASSUME NEW b \in StartBlocks \cap 0..block, b # block
        PROVE  powerAt[b] \in Powers
    <3>1. b \in 0..(block - 1)
      BY <2>4 DEF TypeOK
    <3> QED
      BY <3>1 DEF TypeOK
  <2>5. powerAt' \in [DOMAIN powerAt' -> Powers]
    BY <2>2, <2>4
  <2>6. block' \in Nat \ {0} /\ block' - 1 = block
    BY <2>1 DEF TypeOK
  <2>7. DOMAIN powerAt' = (StartBlocks' \cap 0..(block' - 1)) \cup {block' - 1}
    BY <2>2, <2>3, <2>6
  <2>8. proposals' \in Seq(Proposal)
    BY <2>1 DEF TypeOK
  <2> QED
    BY <1>1, <1>2, <1>3, <2>1, <2>5, <2>6, <2>7, <2>8 DEF TypeOK
<1>5. CASE UNCHANGED <<now, block, powerAt>> /\ UNCHANGED proposals
  BY <1>1, <1>2, <1>3, <1>5 DEF TypeOK, StartBlocks
<1>6. ASSUME UNCHANGED <<now, block, powerAt>>, NEW p \in Proposal, Created(p)
      PROVE  TypeOK'
  <2>1. proposals' \in Seq(Proposal) /\ StartBlocks' = StartBlocks \cup {p.startBlock}
    BY <1>6, StartBlocksCreated
  <2>2. p.startBlock \notin 0..(block - 1)
    BY <1>6, GovernorAssumption DEF Created, TypeOK
  <2>3. StartBlocks' \cap 0..(block - 1) = StartBlocks \cap 0..(block - 1)
    BY <2>1, <2>2
  <2> QED
    BY <1>1, <1>2, <1>3, <1>6, <2>1, <2>3 DEF TypeOK
<1>7. ASSUME UNCHANGED <<now, block, powerAt>>,
             NEW id \in DOMAIN proposals, NEW q \in Proposal, Moved(id, q)
      PROVE  TypeOK'
  BY <1>1, <1>2, <1>3, <1>7, StartBlocksMoved DEF TypeOK
<1> QED
  BY <1>4, <1>5, <1>6, <1>7, StepChange

LEMMA VotingPart ==
    ASSUME GovernorInv, [Next]_vars
    PROVE  Len(proposals') <= MaxProposals /\ VotingTakesABlock' /\ QueuedAfterVoting'
<1> USE DEF GovernorInv
<1>1. CASE NextBlock \/ (UNCHANGED <<now, block, powerAt>> /\ UNCHANGED proposals)
  <2>1. UNCHANGED proposals /\ (block' = block \/ block' = block + 1)
    BY <1>1 DEF NextBlock, governorVars
  <2>2. \A id \in DOMAIN proposals : proposals[id].endBlock \in Nat
    <3>1. \A id \in DOMAIN proposals : proposals[id] \in Proposal
      BY DEF TypeOK
    <3> QED
      BY <3>1 DEF Proposal
  <2> QED
    BY <2>1, <2>2 DEF VotingTakesABlock, QueuedAfterVoting, TypeOK
<1>2. ASSUME UNCHANGED block, NEW p \in Proposal, Created(p)
      PROVE  Len(proposals') <= MaxProposals /\ VotingTakesABlock' /\ QueuedAfterVoting'
  <2>1. p.startBlock < p.endBlock
    BY <1>2, GovernorAssumption DEF Created, TypeOK
  <2>2. Len(proposals') <= MaxProposals
    <3>1. Len(proposals') = Len(proposals) + 1 /\ Len(proposals) < MaxProposals
      BY <1>2, StartBlocksCreated DEF Created
    <3>2. Len(proposals) \in Nat
      BY DEF TypeOK
    <3> QED
      BY <3>1, <3>2, GovernorAssumption
  <2> QED
    BY <1>2, <2>1, <2>2, StartBlocksCreated
       DEF VotingTakesABlock, QueuedAfterVoting, Created
<1>3. ASSUME UNCHANGED block,
             NEW id \in DOMAIN proposals, NEW q \in Proposal, Moved(id, q)
      PROVE  Len(proposals') <= MaxProposals /\ VotingTakesABlock' /\ QueuedAfterVoting'
  <2>1. q.startBlock < q.endBlock
    BY <1>3 DEF Moved, SameProposal, VotingTakesABlock
  <2> QED
    BY <1>3, <2>1, StartBlocksMoved DEF VotingTakesABlock, QueuedAfterVoting, Moved
<1> QED
  BY <1>1, <1>2, <1>3, StepChange

\* A new block moves a proposal along ClockEdges: time only runs out.
LEMMA ClockMoves ==
    ASSUME GovernorInv, NextBlock, NEW id \in DOMAIN proposals
    PROVE  /\ proposals' = proposals
           /\ \/ State(proposals[id])' = State(proposals[id])
              \/ <<State(proposals[id]), State(proposals[id])'>> \in Lifecycle!ClockEdges
<1> DEFINE p == proposals[id]
<1>1. /\ proposals' = proposals
      /\ block' = block + 1 /\ now' >= now
      /\ block \in Nat /\ now \in Nat /\ now' \in Nat
  BY GovernorAssumption, SMTT(30)
     DEF GovernorInv, NextBlock, governorVars, TypeOK, TimelockTypeOK
<1>2. p \in Proposal /\ p.startBlock < p.endBlock
  BY DEF GovernorInv, TypeOK, VotingTakesABlock
<1>3. /\ p.startBlock \in Nat /\ p.endBlock \in Nat /\ p.eta \in Nat
      /\ GRACE_PERIOD \in Nat
  BY <1>2, DelayAssumption DEF Proposal
<1>4. Passed(p)' <=> Passed(p)
  BY <1>1 DEF Passed
<1>5. State(p)' = IF p.canceled THEN "Canceled"
                  ELSE IF block' <= p.startBlock THEN "Pending"
                  ELSE IF block' <= p.endBlock THEN "Active"
                  ELSE IF ~Passed(p) THEN "Defeated"
                  ELSE IF p.eta = 0 THEN "Succeeded"
                  ELSE IF p.executed THEN "Executed"
                  ELSE IF now' >= p.eta + GRACE_PERIOD THEN "Expired"
                  ELSE "Queued"
  BY <1>1, <1>4 DEF State, GraceIsOver
<1> DEFINE Goal == \/ State(p)' = State(p)
                   \/ <<State(p), State(p)'>> \in Lifecycle!ClockEdges
<1> SUFFICES Goal
  BY <1>1
<1> HIDE DEF p
<1>6. CASE p.canceled
  BY <1>5, <1>6 DEF State
<1>7. CASE ~p.canceled /\ block <= p.endBlock
  <2>1. p.eta = 0
    BY <1>1, <1>2, <1>3, <1>7 DEF GovernorInv, QueuedAfterVoting, p
  <2>2. block' <= p.startBlock => block <= p.startBlock
    BY <1>1, <1>3
  <2>3. block <= p.startBlock => block' <= p.endBlock
    BY <1>1, <1>2, <1>3
  <2> QED
    BY <1>5, <1>7, <2>1, <2>2, <2>3 DEF State, Lifecycle!ClockEdges
<1>8. CASE ~p.canceled /\ ~(block <= p.endBlock)
  <2>1. ~(block <= p.startBlock) /\ ~(block' <= p.startBlock) /\ ~(block' <= p.endBlock)
    BY <1>1, <1>2, <1>3, <1>8
  <2>2. now >= p.eta + GRACE_PERIOD => now' >= p.eta + GRACE_PERIOD
    BY <1>1, <1>3
  <2> QED
    BY <1>5, <1>8, <2>1, <2>2 DEF State, GraceIsOver, Lifecycle!ClockEdges
<1> QED
  BY <1>6, <1>7, <1>8

LEMMA ExecutedPart ==
    ASSUME GovernorInv, [Next]_vars
    PROVE  ExecutedIsFinal'
<1> USE DEF GovernorInv
<1>1. CASE NextBlock
  <2> SUFFICES ASSUME NEW id \in DOMAIN proposals, proposals[id].executed
               PROVE  State(proposals[id])' = "Executed"
    BY <1>1 DEF ExecutedIsFinal, NextBlock, governorVars
  <2>1. State(proposals[id]) = "Executed"
    BY DEF ExecutedIsFinal
  <2> QED
    BY <1>1, <2>1, ClockMoves DEF Lifecycle!ClockEdges
<1>2. CASE UNCHANGED <<now, block, powerAt>> /\ UNCHANGED proposals
  BY <1>2 DEF ExecutedIsFinal, State, Passed
<1>3. ASSUME UNCHANGED <<now, block, powerAt>>, NEW p \in Proposal, Created(p)
      PROVE  ExecutedIsFinal'
  BY <1>3, StartBlocksCreated DEF ExecutedIsFinal, State, Passed, Created
<1>4. ASSUME UNCHANGED <<now, block, powerAt>>,
             NEW id \in DOMAIN proposals, NEW q \in Proposal, Moved(id, q)
      PROVE  ExecutedIsFinal'
  <2> SUFFICES ASSUME NEW i \in DOMAIN proposals, proposals'[i].executed
               PROVE  State(proposals[i])' = "Executed"
    BY <1>4, StartBlocksMoved DEF ExecutedIsFinal
  <2>1. CASE i = id
    <3>1. proposals'[i] = q /\ State(q) = "Executed"
      BY <1>4, <2>1, StartBlocksMoved DEF Moved
    <3> QED
      BY <1>4, <3>1 DEF State, Passed
  <2>2. CASE i # id
    <3>1. proposals'[i] = proposals[i]
      BY <1>4, <2>2, StartBlocksMoved
    <3>2. State(proposals[i]) = "Executed"
      BY <3>1 DEF ExecutedIsFinal
    <3> QED
      BY <1>4, <3>1, <3>2 DEF State, Passed
  <2> QED
    BY <2>1, <2>2
<1> QED
  BY <1>1, <1>2, <1>3, <1>4, StepChange

\* What is executed is left alone by every later step.
LEMMA ExecutedStays ==
    ASSUME GovernorInv, [Next]_vars, NEW id \in DOMAIN proposals, proposals[id].executed
    PROVE  id \in DOMAIN proposals' /\ proposals'[id] = proposals[id]
<1>1. State(proposals[id]) = "Executed"
  BY DEF GovernorInv, ExecutedIsFinal
<1> TypeOK
  BY DEF GovernorInv
<1>2. ASSUME NEW other \in DOMAIN proposals, NEW q \in Proposal, Moved(other, q)
      PROVE  id \in DOMAIN proposals' /\ proposals'[id] = proposals[id]
  <2>1. other # id
    BY <1>1, <1>2 DEF Moved
  <2> QED
    BY <1>2, <2>1, StartBlocksMoved
<1>3. ASSUME NEW p \in Proposal, Created(p)
      PROVE  id \in DOMAIN proposals' /\ proposals'[id] = proposals[id]
  BY <1>3, StartBlocksCreated
<1> QED
  BY <1>2, <1>3, StepChange DEF NextBlock, governorVars

\* What a step adds to the calls made.
LEMMA NewCalls ==
    ASSUME GovernorInv, [Next]_vars, NEW c \in made' \ made, c.by = Governor,
           c.call.kind # "setPendingAdmin"
    PROVE  \E id \in DOMAIN proposals :
              /\ ExecuteProposal(id)
              /\ c.call \in Range(proposals[id].actions)
              /\ c.eta = proposals[id].eta
<1>1. ASSUME NEW caller, NEW txs, ExecuteTransactions(caller, txs)
      PROVE  \E tx \in Range(txs) : c.call = tx.call /\ c.eta = tx.eta /\ c.by = caller
  BY <1>1 DEF ExecuteTransactions
<1>2. ASSUME NEW caller, NEW txs,
             QueueTransactions(caller, txs) \/ CancelTransactions(caller, txs) \/ AcceptAdmin(caller)
      PROVE  FALSE
  BY <1>2 DEF QueueTransactions, CancelTransactions, AcceptAdmin
<1>3. ASSUME NEW caller, OtherAdmin(caller)
      PROVE  FALSE
  BY <1>1, <1>2, <1>3 DEF OtherAdmin, Queue, Cancel, Execute
<1>4. ASSUME NEW caller, ExecuteSetTimelockPendingAdmin(caller)
      PROVE  FALSE
  <2>1. PICK tx \in queuedTransactions :
          /\ tx.call.kind = "setPendingAdmin"
          /\ ExecuteTransactions(Governor, SetPendingAdminTx(tx.call.arg, tx.eta))
    BY <1>4 DEF ExecuteSetTimelockPendingAdmin
  <2>2. PICK t \in Range(SetPendingAdminTx(tx.call.arg, tx.eta)) : c.call = t.call
    BY <1>1, <2>1
  <2>3. t.call.kind = "setPendingAdmin"
    BY <2>2 DEF SetPendingAdminTx, Range
  <2> QED
    BY <2>2, <2>3
<1>5. ASSUME NEW id \in DOMAIN proposals, ExecuteProposal(id)
      PROVE  c.call \in Range(proposals[id].actions) /\ c.eta = proposals[id].eta
  <2>1. PICK tx \in Range(TransactionsOf(proposals[id], proposals[id].eta)) :
          c.call = tx.call /\ c.eta = tx.eta
    BY <1>1, <1>5 DEF ExecuteProposal
  <2>2. PICK i \in DOMAIN proposals[id].actions :
          tx = [call |-> proposals[id].actions[i], eta |-> proposals[id].eta]
    BY DEF TransactionsOf, Range
  <2> QED
    BY <2>1, <2>2 DEF Range
<1>6. ASSUME UNCHANGED timelockVars
      PROVE  FALSE
  BY <1>6 DEF timelockVars
<1> QED
  BY <1>2, <1>3, <1>4, <1>5, <1>6
     DEF Next, vars, NextBlock, Propose, CastVote, QueueProposal, CancelProposal,
         AcceptTimelockAdmin, Abdicate, QueueSetTimelockPendingAdmin

LEMMA VotedPart ==
    ASSUME GovernorInv, [Next]_vars
    PROVE  EveryCallWasVoted'
<1> SUFFICES ASSUME NEW c \in made', c.by = Governor, c.call.kind # "setPendingAdmin"
             PROVE  \E id \in DOMAIN proposals' :
                        /\ proposals'[id].executed /\ Passed(proposals'[id])
                        /\ ~proposals'[id].canceled
                        /\ c.call \in Range(proposals'[id].actions)
                        /\ c.eta = proposals'[id].eta
  BY DEF EveryCallWasVoted, Passed
<1>1. CASE c \in made
  <2>1. PICK id \in DOMAIN proposals :
           /\ proposals[id].executed /\ Passed(proposals[id]) /\ ~proposals[id].canceled
           /\ c.call \in Range(proposals[id].actions) /\ c.eta = proposals[id].eta
    BY <1>1 DEF GovernorInv, EveryCallWasVoted
  <2> QED
    BY <2>1, ExecutedStays
<1>2. CASE c \notin made
  <2>1. PICK id \in DOMAIN proposals :
              /\ ExecuteProposal(id)
              /\ c.call \in Range(proposals[id].actions)
              /\ c.eta = proposals[id].eta
    BY <1>2, NewCalls
  <2>2. PICK q \in Proposal :
              /\ proposals' = [proposals EXCEPT ![id] = q]
              /\ SameProposal(proposals[id], q)
              /\ q.eta = proposals[id].eta
              /\ q.executed /\ Passed(q) /\ ~q.canceled
    BY <2>1, ExecuteChange DEF GovernorInv
  <2>3. id \in DOMAIN proposals' /\ proposals'[id] = q
    BY <2>2
  <2> QED
    BY <2>1, <2>2, <2>3 DEF SameProposal
<1> QED
  BY <1>1, <1>2

\* No step leads back to a pending or active proposal, and only a proposer
\* whose last proposal is over makes another.
LEMMA LivePart ==
    ASSUME GovernorInv, [Next]_vars
    PROVE  LiveOnesAreLatest'
<1> DEFINE Live(p) == State(p) \in {"Pending", "Active"}
           Latest(p) == latestProposalIds[p.proposer]
<1>0. \A id \in DOMAIN proposals : Live(proposals[id]) => Latest(proposals[id]) = id
  BY DEF GovernorInv, LiveOnesAreLatest
<1> TypeOK
  BY DEF GovernorInv
<1>1. CASE NextBlock
  <2>1. UNCHANGED <<proposals, latestProposalIds>>
    BY <1>1 DEF NextBlock, governorVars
  <2> SUFFICES ASSUME NEW id \in DOMAIN proposals, State(proposals[id])' \in {"Pending", "Active"}
               PROVE  Latest(proposals[id]) = id
    BY <2>1 DEF LiveOnesAreLatest
  <2>2. Live(proposals[id])
    BY <1>1, ClockMoves DEF Lifecycle!ClockEdges
  <2> QED
    BY <1>0, <2>2
<1>2. CASE UNCHANGED <<now, block, powerAt>> /\ UNCHANGED <<proposals, latestProposalIds>>
  BY <1>0, <1>2 DEF LiveOnesAreLatest, State, Passed
<1>3. ASSUME UNCHANGED <<now, block, powerAt>>, NEW p \in Proposal, Created(p)
      PROVE  LiveOnesAreLatest'
  <2>1. p.proposer \in Voters /\ latestProposalIds \in [Voters -> 0..Len(proposals)]
    BY DEF Proposal, TypeOK
  <2>2. /\ latestProposalIds' = [latestProposalIds EXCEPT ![p.proposer] = Len(proposals')]
        /\ NoLiveProposal(p.proposer)
    BY <1>3, StartBlocksCreated DEF Created, NextId
  <2>3. ASSUME NEW i \in DOMAIN proposals, State(proposals[i])' \in {"Pending", "Active"}
        PROVE  Latest(proposals[i])' = i
    <3>1. proposals'[i] = proposals[i] /\ proposals[i] \in Proposal /\ i # 0
      BY <1>3, StartBlocksCreated DEF TypeOK
    <3>2. Live(proposals[i])
      BY <1>3, <2>3, <3>1 DEF State, Passed
    <3>3. Latest(proposals[i]) = i
      BY <1>0, <3>2
    <3>4. proposals[i].proposer # p.proposer
      BY <2>2, <3>1, <3>2, <3>3 DEF NoLiveProposal
    <3> QED
      BY <2>1, <2>2, <3>1, <3>3, <3>4 DEF Proposal
  <2>4. Latest(p)' = Len(proposals')
    BY <2>1, <2>2
  <2> QED
    BY <1>3, <2>3, <2>4, StartBlocksCreated DEF LiveOnesAreLatest
<1>4. ASSUME UNCHANGED <<now, block, powerAt>>,
             NEW id \in DOMAIN proposals, NEW q \in Proposal, Moved(id, q)
      PROVE  LiveOnesAreLatest'
  <2> SUFFICES ASSUME NEW i \in DOMAIN proposals, State(proposals[i])' \in {"Pending", "Active"}
               PROVE  Latest(proposals[i])' = i
    BY <1>4, StartBlocksMoved DEF LiveOnesAreLatest
  <2>1. proposals'[i].proposer = proposals[i].proposer /\ UNCHANGED latestProposalIds
    BY <1>4, StartBlocksMoved DEF Moved, SameProposal
  <2>2. Live(proposals[i])
    <3>1. CASE i # id
      BY <1>4, <3>1, StartBlocksMoved DEF State, Passed
    <3>2. CASE i = id
      <4>1. State(q) \in {"Pending", "Active"}
        BY <1>4, <3>2, StartBlocksMoved DEF State, Passed
      <4>2. State(proposals[id]) # "None"
        BY DEF State
      <4> QED
        BY <1>4, <3>2, <4>1, <4>2 DEF Moved, Lifecycle!TransactionEdges
    <3> QED
      BY <3>1, <3>2
  <2> QED
    BY <1>0, <2>1, <2>2
<1> QED
  BY <1>1, <1>2, <1>3, <1>4, StepChange

LEMMA ReceiptsType ==
    ASSUME NEW p \in Proposal, NEW v \in Voters
    PROVE  p.receipts[v].votes \in Nat /\ p.receipts[v].hasVoted \in BOOLEAN
<1>1. p.receipts \in [Voters -> Receipt]
  BY DEF Proposal
<1>2. p.receipts[v] \in Receipt
  BY <1>1
<1> QED
  BY <1>2 DEF Receipt

\* A vote adds the voter's power at the start block to the votes and to the
\* voter's receipt.
LEMMA CountedVote ==
    ASSUME NEW p \in Proposal, NEW voter \in Voters, NEW support \in BOOLEAN,
           PriorVotes(p, voter) \in Nat
    PROVE  LET q == CountVote(p, voter, support)
           IN  /\ q.forVotes + q.againstVotes =
                      p.forVotes + p.againstVotes + PriorVotes(p, voter)
               /\ q.receipts[voter].hasVoted
               /\ q.receipts[voter].votes = PriorVotes(p, voter)
               /\ \A v \in Voters \ {voter} : q.receipts[v] = p.receipts[v]
<1>1. p.forVotes \in Nat /\ p.againstVotes \in Nat /\ p.receipts \in [Voters -> Receipt]
  BY DEF Proposal
<1> DEFINE q == CountVote(p, voter, support)
<1>2. /\ q.forVotes = IF support THEN p.forVotes + PriorVotes(p, voter) ELSE p.forVotes
      /\ q.againstVotes = IF support THEN p.againstVotes
                                     ELSE p.againstVotes + PriorVotes(p, voter)
      /\ q.receipts = [p.receipts EXCEPT ![voter] =
                          [hasVoted |-> TRUE, support |-> support,
                           votes |-> PriorVotes(p, voter)]]
  BY DEF Proposal, CountVote
<1>3. q.forVotes + q.againstVotes = p.forVotes + p.againstVotes + PriorVotes(p, voter)
  BY <1>1, <1>2
<1>4. /\ q.receipts[voter] = [hasVoted |-> TRUE, support |-> support,
                              votes |-> PriorVotes(p, voter)]
      /\ \A v \in Voters \ {voter} : q.receipts[v] = p.receipts[v]
  BY <1>1, <1>2
<1> QED
  BY <1>3, <1>4

\* The power at the start block of a proposal whose voting began is known, and
\* does not change any more.
LEMMA PriorVotesKnown ==
    ASSUME TypeOK, NEW id \in DOMAIN proposals, block > proposals[id].startBlock
    PROVE  /\ powerAt[proposals[id].startBlock] \in Powers
           /\ \A v \in Voters : PriorVotes(proposals[id], v) \in Nat
           /\ NextBlock => powerAt'[proposals[id].startBlock] = powerAt[proposals[id].startBlock]
<1> DEFINE b == proposals[id].startBlock
<1>1. b \in StartBlocks
  BY DEF StartBlocks, Range
<1>2. proposals[id] \in Proposal
  BY DEF TypeOK
<1>3. b \in 0..(block - 1) /\ b \in 0..block /\ b # block /\ block \in Nat
  <2>1. b \in Nat /\ block \in Nat /\ block > b
    BY <1>2 DEF TypeOK, Proposal
  <2> HIDE DEF b
  <2> QED
    BY <2>1
<1>4. b \in DOMAIN powerAt /\ powerAt[b] \in Powers
  BY <1>1, <1>3 DEF TypeOK
<1>5. \A v \in Voters : PriorVotes(proposals[id], v) \in Nat
  BY <1>4, GovernorAssumption DEF PriorVotes
<1>6. ASSUME NextBlock
      PROVE  powerAt'[b] = powerAt[b]
  BY <1>1, <1>3, <1>6 DEF NextBlock
<1> QED
  BY <1>4, <1>5, <1>6

\* The books of one proposal, and how a step keeps them.
Counted(p) ==
    p.forVotes + p.againstVotes = SumFunction([v \in Voters |-> p.receipts[v].votes])

HoldsPriorVotes(p) ==
    \A v \in Voters :
        IF p.receipts[v].hasVoted
        THEN block > p.startBlock /\ p.receipts[v].votes = PriorVotes(p, v)
        ELSE p.receipts[v].votes = 0

LEMMA VoteKeepsCount ==
    ASSUME TypeOK, NEW id \in DOMAIN proposals, NEW q \in Proposal,
           OneVoteCounted(proposals[id], q), SameProposal(proposals[id], q),
           Counted(proposals[id]), HoldsPriorVotes(proposals[id])
    PROVE  Counted(q) /\ HoldsPriorVotes(q)
<1> DEFINE p == proposals[id]
           f == [v \in Voters |-> p.receipts[v].votes]
           g == [v \in Voters |-> q.receipts[v].votes]
<1>0. p \in Proposal
  BY DEF TypeOK
<1>1. PICK voter \in Voters, support \in BOOLEAN :
         ~p.receipts[voter].hasVoted /\ block > p.startBlock /\ q = CountVote(p, voter, support)
  BY DEF OneVoteCounted
<1>2. PriorVotes(p, voter) \in Nat
  BY <1>1, PriorVotesKnown
<1>3. /\ q.forVotes + q.againstVotes = p.forVotes + p.againstVotes + PriorVotes(p, voter)
      /\ q.receipts[voter].hasVoted
      /\ q.receipts[voter].votes = PriorVotes(p, voter)
      /\ \A v \in Voters \ {voter} : q.receipts[v] = p.receipts[v]
  BY <1>0, <1>1, <1>2, CountedVote
<1>4. p.receipts[voter].votes = 0
  BY <1>1 DEF HoldsPriorVotes
<1>5. HoldsPriorVotes(q)
  BY <1>1, <1>3 DEF HoldsPriorVotes, PriorVotes, SameProposal
<1>6. Counted(q)
  <2>1. \A v \in Voters : f[v] \in Nat /\ f[v] \in Int /\ g[v] \in Int
    BY <1>0, ReceiptsType
  <2>2. /\ f[voter] = 0 /\ g[voter] = PriorVotes(p, voter)
        /\ \A v \in Voters \ {voter} : g[v] = f[v]
    BY <1>3, <1>4
  <2>3. DOMAIN f = Voters /\ DOMAIN g = Voters
    OBVIOUS
  <2>4. SumFunction(f) = SumFunctionOnSet(f, Voters) /\ SumFunction(g) = SumFunctionOnSet(g, Voters)
    BY <2>3, SumOfFunction
  <2> HIDE DEF f, g
  <2>5. /\ SumFunctionOnSet(g, Voters) = SumFunctionOnSet(f, Voters) - f[voter] + g[voter]
        /\ SumFunctionOnSet(f, Voters) \in Int
    BY <2>1, <2>2, PowerAssumption, SumChange, SumType
  <2>6. p.forVotes + p.againstVotes = SumFunctionOnSet(f, Voters)
    BY <2>4 DEF Counted, f
  <2>7. q.forVotes + q.againstVotes = SumFunctionOnSet(g, Voters)
    BY <1>2, <1>3, <2>2, <2>5, <2>6
  <2> QED
    BY <2>4, <2>7 DEF Counted, g
<1> QED
  BY <1>5, <1>6

LEMMA ReceiptsPart ==
    ASSUME GovernorInv, [Next]_vars
    PROVE  ReceiptsAddUp' /\ ReceiptsHoldPriorVotes'
<1> TypeOK
  BY DEF GovernorInv
<1>0. \A id \in DOMAIN proposals : Counted(proposals[id]) /\ HoldsPriorVotes(proposals[id])
  BY DEF GovernorInv, ReceiptsAddUp, ReceiptsHoldPriorVotes, Counted, HoldsPriorVotes
<1> SUFFICES \A id \in DOMAIN proposals' :
                 Counted(proposals[id])' /\ HoldsPriorVotes(proposals[id])'
  BY DEF ReceiptsAddUp, ReceiptsHoldPriorVotes, Counted, HoldsPriorVotes
<1>1. CASE NextBlock
  <2> SUFFICES ASSUME NEW id \in DOMAIN proposals
               PROVE  HoldsPriorVotes(proposals[id])'
    BY <1>0, <1>1 DEF NextBlock, governorVars, Counted
  <2>1. UNCHANGED proposals /\ block' > block /\ block \in Nat /\ block' \in Nat
    BY <1>1 DEF NextBlock, governorVars, TypeOK
  <2>2. proposals[id].startBlock \in Nat
    <3>1. proposals[id] \in Proposal
      BY DEF TypeOK
    <3> QED
      BY <3>1 DEF Proposal
  <2>3. block > proposals[id].startBlock =>
            powerAt'[proposals[id].startBlock] = powerAt[proposals[id].startBlock]
    BY <1>1, PriorVotesKnown
  <2> QED
    BY <1>0, <2>1, <2>2, <2>3 DEF HoldsPriorVotes, PriorVotes
<1>2. CASE UNCHANGED <<now, block, powerAt>> /\ UNCHANGED <<proposals, latestProposalIds>>
  BY <1>0, <1>2 DEF Counted, HoldsPriorVotes, PriorVotes
<1>3. ASSUME UNCHANGED <<now, block, powerAt>>, NEW p \in Proposal, Created(p)
      PROVE  \A id \in DOMAIN proposals' :
                 Counted(proposals[id])' /\ HoldsPriorVotes(proposals[id])'
  <2>1. HoldsPriorVotes(p) /\ p.forVotes + p.againstVotes = 0
    BY <1>3 DEF Created, HoldsPriorVotes
  <2> DEFINE f == [v \in Voters |-> p.receipts[v].votes]
             zero == [v \in Voters |-> 0]
  <2>2. SumFunction(f) = 0
    <3>1. f = zero
      BY <1>3 DEF Created
    <3>2. SumFunction(zero) = SumFunctionOnSet(zero, Voters)
      BY SumOfFunction
    <3>3. SumFunctionOnSet(zero, Voters) = 0
      BY PowerAssumption, SumZero
    <3> QED
      BY <3>1, <3>2, <3>3
  <2>3. Counted(p)
    BY <2>1, <2>2 DEF Counted
  <2> QED
    BY <1>0, <1>3, <2>1, <2>3, StartBlocksCreated DEF Counted, HoldsPriorVotes, PriorVotes
<1>4. ASSUME UNCHANGED <<now, block, powerAt>>,
             NEW id \in DOMAIN proposals, NEW q \in Proposal, Moved(id, q)
      PROVE  \A i \in DOMAIN proposals' :
                 Counted(proposals[i])' /\ HoldsPriorVotes(proposals[i])'
  <2>1. Counted(q) /\ HoldsPriorVotes(q)
    <3>1. CASE SameVotes(proposals[id], q)
      BY <1>0, <1>4, <3>1
         DEF Counted, HoldsPriorVotes, PriorVotes, SameVotes, Moved, SameProposal
    <3>2. CASE OneVoteCounted(proposals[id], q)
      BY <1>0, <1>4, <3>2, VoteKeepsCount DEF Moved
    <3> QED
      BY <1>4, <3>1, <3>2 DEF Moved
  <2> QED
    BY <1>0, <1>4, <2>1, StartBlocksMoved DEF Counted, HoldsPriorVotes, PriorVotes
<1> QED
  BY <1>1, <1>2, <1>3, <1>4, StepChange

\* No more votes than there is voting power: each receipt is at most, and so
\* their sum is at most, the power at the start block.
LEMMA VotesAreBounded ==
    ASSUME GovernorInv
    PROVE  VotesWithinTotalPower
<1> TypeOK
  BY DEF GovernorInv
<1> SUFFICES ASSUME NEW id \in DOMAIN proposals,
                    State(proposals[id]) \notin {"Pending", "Canceled"}
             PROVE  proposals[id].forVotes + proposals[id].againstVotes
                        <= powerAt[proposals[id].startBlock].total
  BY DEF VotesWithinTotalPower
<1> DEFINE p == proposals[id]
           f == [v \in Voters |-> p.receipts[v].votes]
           power == powerAt[p.startBlock]
           g == power.votes
<1>0. p \in Proposal
  BY DEF TypeOK
<1>1. block > p.startBlock
  BY <1>0 DEF State, TypeOK, Proposal
<1>2. power \in Powers /\ \A v \in Voters : PriorVotes(p, v) \in Nat
  BY <1>1, PriorVotesKnown
<1>3. g \in [Voters -> Nat] /\ power.total \in Nat /\ SumFunction(g) <= power.total
  BY <1>2, GovernorAssumption, PowerAssumption
<1>4. \A v \in Voters : f[v] \in Int /\ g[v] \in Int /\ f[v] <= g[v]
  <2> SUFFICES ASSUME NEW v \in Voters
               PROVE  f[v] \in Int /\ g[v] \in Int /\ f[v] <= g[v]
    OBVIOUS
  <2>1. f[v] \in Nat /\ g[v] \in Nat
    BY <1>0, <1>3, ReceiptsType
  <2>2. f[v] = 0 \/ f[v] = g[v]
    BY DEF GovernorInv, ReceiptsHoldPriorVotes, PriorVotes
  <2> QED
    BY <2>1, <2>2
<1>5. SumFunction(f) = SumFunctionOnSet(f, Voters) /\ SumFunction(g) = SumFunctionOnSet(g, Voters)
  BY <1>3, SumOfFunction
<1>6. p.forVotes + p.againstVotes = SumFunction(f)
  BY DEF GovernorInv, ReceiptsAddUp
<1> HIDE DEF f, g
<1>7. /\ SumFunctionOnSet(f, Voters) <= SumFunctionOnSet(g, Voters)
      /\ SumFunctionOnSet(f, Voters) \in Int /\ SumFunctionOnSet(g, Voters) \in Int
  BY <1>4, PowerAssumption, SumOrder, SumType
<1> QED
  BY <1>3, <1>5, <1>6, <1>7 DEF p, power

-----------------------------------------------------------------------------
(* What waits to be executed is in the timelock's queue. *)

\* The transactions of a proposal are those of its actions and eta.
LEMMA SameTransactions ==
    ASSUME NEW p, NEW q, p.actions = q.actions, p.eta = q.eta
    PROVE  OwnTransactions(p) = OwnTransactions(q)
BY DEF OwnTransactions, TransactionsOf

\* A proposal that has an eta got it by queue() in this step, or had it before;
\* what was executed or canceled before still is.
LEMMA EtaChange ==
    ASSUME GovernorInv, [Next]_vars, NEW id \in DOMAIN proposals', proposals'[id].eta # 0
    PROVE  /\ id \in DOMAIN proposals
           /\ \/ QueueProposal(id)
              \/ /\ proposals[id].eta # 0
                 /\ OwnTransactions(proposals'[id]) = OwnTransactions(proposals[id])
                 /\ proposals[id].executed => proposals'[id].executed
<1> TypeOK
  BY DEF GovernorInv
<1> DEFINE Kept == /\ proposals[id].eta # 0
                   /\ OwnTransactions(proposals'[id]) = OwnTransactions(proposals[id])
<1>1. id \in DOMAIN proposals
  <2>1. ASSUME NEW p \in Proposal, Created(p)
        PROVE  id \in DOMAIN proposals
    BY <2>1, StartBlocksCreated DEF Created
  <2>2. ASSUME NEW i \in DOMAIN proposals, NEW q \in Proposal, Moved(i, q)
        PROVE  id \in DOMAIN proposals
    BY <2>2, StartBlocksMoved
  <2> QED
    BY <2>1, <2>2, StepChange DEF NextBlock, governorVars
<1>2. proposals[id].executed => proposals'[id].executed
  BY <1>1, ExecutedStays
<1>3. CASE proposals'[id] = proposals[id]
  BY <1>1, <1>2, <1>3
<1>4. CASE proposals'[id] # proposals[id]
  <2>1. ASSUME NEW q \in Proposal, proposals' = [proposals EXCEPT ![id] = q],
               SameProposal(proposals[id], q), q.eta = proposals[id].eta
        PROVE  Kept
    <3>1. proposals'[id] = q
      BY <1>1, <2>1
    <3>2. q.actions = proposals[id].actions
      BY <2>1 DEF SameProposal
    <3> QED
      BY <2>1, <3>1, <3>2, SameTransactions
  <2>2. ASSUME NEW voter \in Voters, NEW i \in DOMAIN proposals, CastVote(voter, i)
        PROVE  Kept
    <3>1. i = id
      BY <1>1, <1>4, <2>2 DEF CastVote
    <3> QED
      BY <2>1, <2>2, <3>1, VoteChange
  <2>3. ASSUME NEW i \in DOMAIN proposals, QueueProposal(i)
        PROVE  QueueProposal(id)
    BY <1>1, <1>4, <2>3 DEF QueueProposal
  <2>4. ASSUME NEW i \in DOMAIN proposals, ExecuteProposal(i)
        PROVE  Kept
    <3>1. i = id
      BY <1>1, <1>4, <2>4 DEF ExecuteProposal
    <3> QED
      BY <2>1, <2>4, <3>1, ExecuteChange
  <2>5. ASSUME NEW caller, NEW i \in DOMAIN proposals, CancelProposal(caller, i)
        PROVE  Kept
    <3>1. i = id
      BY <1>1, <1>4, <2>5 DEF CancelProposal
    <3> QED
      BY <2>1, <2>5, <3>1, CancelChange
  <2>6. ASSUME NEW voter \in Voters, Propose(voter)
        PROVE  FALSE
    <3>1. PICK p \in Proposal : proposals' = Append(proposals, p)
      BY <2>6, ProposeChange
    <3> QED
      BY <1>1, <1>4, <3>1 DEF TypeOK
  <2>7. proposals' # proposals
    BY <1>4
  <2> QED
    BY <1>1, <1>2, <2>2, <2>3, <2>4, <2>5, <2>6, <2>7
       DEF Next, vars, governorVars, NextBlock, AcceptTimelockAdmin, Abdicate,
           QueueSetTimelockPendingAdmin, ExecuteSetTimelockPendingAdmin, OtherAdmin
<1> QED
  BY <1>3, <1>4

\* A canceled proposal stays as it is, but for canceling it again.
LEMMA CanceledStays ==
    ASSUME GovernorInv, [Next]_vars, NEW id \in DOMAIN proposals, proposals[id].canceled
    PROVE  /\ id \in DOMAIN proposals' /\ proposals'[id].canceled
           /\ OwnTransactions(proposals'[id]) = OwnTransactions(proposals[id])
<1> TypeOK
  BY DEF GovernorInv
<1>1. State(proposals[id]) = "Canceled"
  BY DEF State
<1>2. ASSUME NEW p \in Proposal, Created(p)
      PROVE  id \in DOMAIN proposals' /\ proposals'[id] = proposals[id]
  BY <1>2, StartBlocksCreated
<1>3. ASSUME NEW i \in DOMAIN proposals, NEW q \in Proposal, Moved(i, q)
      PROVE  /\ id \in DOMAIN proposals' /\ proposals'[id].canceled
             /\ OwnTransactions(proposals'[id]) = OwnTransactions(proposals[id])
  <2>1. CASE i # id
    BY <1>3, <2>1, StartBlocksMoved
  <2>2. CASE i = id
    <3>1. State(q) = "Canceled"
      BY <1>1, <1>3, <2>2 DEF Moved, Lifecycle!TransactionEdges
    <3>2. q.canceled
      BY <3>1 DEF State
    <3>3. q.eta = proposals[id].eta /\ q.actions = proposals[id].actions
      BY <1>1, <1>3, <2>2 DEF Moved, SameProposal
    <3> QED
      BY <1>3, <2>2, <3>2, <3>3, SameTransactions, StartBlocksMoved
  <2> QED
    BY <2>1, <2>2
<1>4. CASE NextBlock
  BY <1>4 DEF NextBlock, governorVars
<1> QED
  BY <1>2, <1>3, <1>4, StepChange

\* The timelock's calls are never forgotten.
LEMMA MadeGrows ==
    ASSUME [Next]_vars
    PROVE  made \subseteq made'
<1>1. ASSUME NEW caller, NEW txs,
             \/ QueueTransactions(caller, txs) \/ CancelTransactions(caller, txs)
             \/ ExecuteTransactions(caller, txs) \/ AcceptAdmin(caller)
      PROVE  made \subseteq made'
  BY <1>1 DEF QueueTransactions, CancelTransactions, ExecuteTransactions, AcceptAdmin
<1>2. ASSUME NEW caller, OtherAdmin(caller)
      PROVE  made \subseteq made'
  BY <1>1, <1>2 DEF OtherAdmin, Queue, Cancel, Execute
<1>3. UNCHANGED timelockVars => made \subseteq made'
  BY DEF timelockVars
<1> QED
  BY <1>1, <1>2, <1>3
     DEF Next, vars, NextBlock, Propose, CastVote, QueueProposal, ExecuteProposal,
         CancelProposal, AcceptTimelockAdmin, Abdicate, QueueSetTimelockPendingAdmin,
         ExecuteSetTimelockPendingAdmin

LEMMA TakenAwayStays ==
    ASSUME GovernorInv, [Next]_vars, NEW tx, TakenAway(tx)
    PROVE  TakenAway(tx)'
<1>1. CASE \E c \in made : c.call.kind = "setPendingAdmin"
  BY <1>1, MadeGrows DEF TakenAway
<1>2. ASSUME NEW other \in DOMAIN proposals, proposals[other].canceled,
             tx \in OwnTransactions(proposals[other])
      PROVE  TakenAway(tx)'
  <2>1. /\ other \in DOMAIN proposals' /\ proposals'[other].canceled
        /\ tx \in OwnTransactions(proposals'[other])
    BY <1>2, CanceledStays
  <2> QED
    BY <2>1 DEF TakenAway, OwnTransactions, TransactionsOf
<1> QED
  BY <1>1, <1>2 DEF TakenAway

\* How a transaction leaves the queue.
LEMMA LeavesQueue ==
    ASSUME GovernorInv, [Next]_vars, NEW tx \in queuedTransactions \ queuedTransactions'
    PROVE  \/ \E id \in DOMAIN proposals :
                 ExecuteProposal(id) /\ tx \in OwnTransactions(proposals[id])
           \/ \E id \in DOMAIN proposals, caller \in Addresses :
                 CancelProposal(caller, id) /\ tx \in OwnTransactions(proposals[id])
           \/ tx.call.kind = "setPendingAdmin"
           \/ admin # Governor
<1>1. ASSUME NEW caller, NEW txs, QueueTransactions(caller, txs) \/ AcceptAdmin(caller)
      PROVE  FALSE
  BY <1>1 DEF QueueTransactions, AcceptAdmin
<1>2. ASSUME NEW caller, NEW txs, CancelTransactions(caller, txs) \/ ExecuteTransactions(caller, txs)
      PROVE  caller = admin /\ tx \in Range(txs)
  BY <1>2 DEF CancelTransactions, ExecuteTransactions
<1>3. ASSUME NEW caller, OtherAdmin(caller)
      PROVE  admin # Governor
  <2>1. caller # Governor /\ (Cancel(caller) \/ Execute(caller))
    BY <1>1, <1>3 DEF OtherAdmin, Queue
  <2> QED
    BY <1>2, <2>1 DEF Cancel, Execute
<1>4. ASSUME NEW caller, ExecuteSetTimelockPendingAdmin(caller)
      PROVE  tx.call.kind = "setPendingAdmin"
  <2>1. PICK t \in queuedTransactions :
          ExecuteTransactions(Governor, SetPendingAdminTx(t.call.arg, t.eta))
    BY <1>4 DEF ExecuteSetTimelockPendingAdmin
  <2>2. tx \in Range(SetPendingAdminTx(t.call.arg, t.eta))
    BY <1>2, <2>1
  <2> QED
    BY <2>2 DEF SetPendingAdminTx, Range
<1>5. ASSUME NEW id \in DOMAIN proposals, ExecuteProposal(id)
      PROVE  tx \in OwnTransactions(proposals[id])
  BY <1>2, <1>5 DEF ExecuteProposal, OwnTransactions
<1>6. ASSUME NEW id \in DOMAIN proposals, NEW caller, CancelProposal(caller, id)
      PROVE  tx \in OwnTransactions(proposals[id])
  BY <1>2, <1>6 DEF CancelProposal, OwnTransactions
<1>7. ~UNCHANGED timelockVars
  BY DEF timelockVars
<1> QED
  BY <1>1, <1>3, <1>4, <1>5, <1>6, <1>7
     DEF Next, vars, NextBlock, Propose, CastVote, QueueProposal,
         AcceptTimelockAdmin, Abdicate, QueueSetTimelockPendingAdmin

\* queue() asks that none of the transactions is queued yet, and queues them.
LEMMA Enqueued ==
    ASSUME TypeOK, NEW id \in DOMAIN proposals, QueueProposal(id)
    PROVE  /\ OwnTransactions(proposals'[id]) \subseteq queuedTransactions'
           /\ OwnTransactions(proposals'[id]) \cap queuedTransactions = {}
           /\ \A other \in DOMAIN proposals \ {id} : proposals'[other] = proposals[other]
           /\ DOMAIN proposals' = DOMAIN proposals
           /\ UNCHANGED admin /\ admin = Governor
<1> DEFINE txs == TransactionsOf(proposals[id], now + delay)
           q == [proposals[id] EXCEPT !.eta = now + delay]
<1>1. /\ NotQueuedYet(txs) /\ QueueTransactions(Governor, txs)
      /\ proposals' = [proposals EXCEPT ![id] = q]
  BY DEF QueueProposal
<1>2. proposals[id] \in Proposal /\ proposals'[id] = q
  BY <1>1 DEF TypeOK
<1>3. q.eta = now + delay /\ q.actions = proposals[id].actions
  BY <1>2 DEF Proposal
<1> HIDE DEF q
<1>4. OwnTransactions(proposals'[id]) = Range(txs)
  BY <1>2, <1>3 DEF OwnTransactions, TransactionsOf
<1> HIDE DEF txs
<1>5. Range(txs) \subseteq queuedTransactions' /\ Range(txs) \cap queuedTransactions = {}
  BY <1>1 DEF NotQueuedYet, QueueTransactions
<1>6. UNCHANGED admin /\ admin = Governor
  BY <1>1 DEF QueueTransactions
<1> QED
  BY <1>1, <1>4, <1>5, <1>6

\* While a proposal waits, what was queued and is not taken away stays queued.
LEMMA StaysQueued ==
    ASSUME GovernorInv, [Next]_vars, NEW id \in DOMAIN proposals,
           Waiting(proposals[id]), ~proposals'[id].executed,
           NEW tx \in OwnTransactions(proposals[id]), tx \in queuedTransactions
    PROVE  tx \in queuedTransactions' \/ TakenAway(tx)'
<1> SUFFICES ASSUME tx \notin queuedTransactions' PROVE TakenAway(tx)'
  OBVIOUS
<1> TypeOK
  BY DEF GovernorInv
<1>1. ASSUME NEW other \in DOMAIN proposals, ExecuteProposal(other),
             tx \in OwnTransactions(proposals[other])
      PROVE  TakenAway(tx)'
  <2>1. Waiting(proposals[other])
    BY <1>1 DEF ExecuteProposal, State, Waiting
  <2>2. PICK q \in Proposal : proposals' = [proposals EXCEPT ![other] = q] /\ q.executed
    BY <1>1, ExecuteChange
  <2>3. other # id
    BY <2>2
  <2>4. TakenAway(tx)
    BY <1>1, <2>1, <2>3 DEF GovernorInv, SharedIsTakenAway
  <2> QED
    BY <2>4, TakenAwayStays
<1>2. ASSUME NEW other \in DOMAIN proposals, NEW caller, CancelProposal(caller, other),
             tx \in OwnTransactions(proposals[other])
      PROVE  TakenAway(tx)'
  <2>1. PICK q \in Proposal :
              /\ proposals' = [proposals EXCEPT ![other] = q]
              /\ SameProposal(proposals[other], q)
              /\ q.eta = proposals[other].eta
              /\ q.canceled
    BY <1>2, CancelChange
  <2>2. other \in DOMAIN proposals' /\ proposals'[other] = q
    BY <2>1
  <2>3. tx \in OwnTransactions(q)
    BY <1>2, <2>1, SameTransactions DEF SameProposal
  <2> QED
    BY <2>1, <2>2, <2>3 DEF TakenAway, OwnTransactions, TransactionsOf
<1>3. CASE tx.call.kind = "setPendingAdmin"
  BY <1>3 DEF TakenAway
<1>4. CASE admin # Governor
  <2>1. TakenAway(tx)
    BY <1>4 DEF GovernorInv, AdminIsHandedOver, Waiting, TakenAway
  <2> QED
    BY <2>1, TakenAwayStays
<1> QED
  BY <1>1, <1>2, <1>3, <1>4, LeavesQueue

LEMMA QueuePart ==
    ASSUME GovernorInv, [Next]_vars
    PROVE  WaitingIsQueued'
<1> SUFFICES ASSUME NEW id \in DOMAIN proposals',
                    proposals'[id].eta # 0, ~proposals'[id].executed,
                    NEW tx \in OwnTransactions(proposals'[id])
             PROVE  tx \in queuedTransactions' \/ TakenAway(tx)'
  BY DEF WaitingIsQueued, Waiting, OwnTransactions, TransactionsOf
<1>1. id \in DOMAIN proposals
  BY EtaChange
<1>2. CASE QueueProposal(id)
  BY <1>1, <1>2, Enqueued DEF GovernorInv
<1>3. CASE /\ proposals[id].eta # 0
           /\ OwnTransactions(proposals'[id]) = OwnTransactions(proposals[id])
           /\ proposals[id].executed => proposals'[id].executed
  <2>1. Waiting(proposals[id]) /\ tx \in OwnTransactions(proposals[id])
    BY <1>3 DEF Waiting
  <2>2. tx \in queuedTransactions \/ TakenAway(tx)
    BY <1>1, <2>1 DEF GovernorInv, WaitingIsQueued
  <2> QED
    BY <1>1, <2>1, <2>2, StaysQueued, TakenAwayStays
<1> QED
  BY <1>2, <1>3, EtaChange

LEMMA SharedPart ==
    ASSUME GovernorInv, [Next]_vars
    PROVE  SharedIsTakenAway'
<1> DEFINE WaitingAfter(i) == proposals'[i].eta # 0 /\ ~proposals'[i].executed
<1> SUFFICES ASSUME NEW a \in DOMAIN proposals', NEW b \in DOMAIN proposals', a # b,
                    WaitingAfter(a), WaitingAfter(b),
                    NEW tx \in OwnTransactions(proposals'[a]),
                    tx \in OwnTransactions(proposals'[b])
             PROVE  TakenAway(tx)'
  BY DEF SharedIsTakenAway, Waiting, OwnTransactions, TransactionsOf
<1>0. a \in DOMAIN proposals /\ b \in DOMAIN proposals
  BY EtaChange
\* One of the two is queued by this step: the other had not queued tx.
<1>1. ASSUME NEW i \in DOMAIN proposals, NEW j \in DOMAIN proposals, i # j, QueueProposal(i),
             tx \in OwnTransactions(proposals'[i]), tx \in OwnTransactions(proposals'[j]),
             WaitingAfter(j)
      PROVE  TakenAway(tx)'
  <2>1. proposals'[j] = proposals[j] /\ tx \notin queuedTransactions
    BY <1>1, Enqueued DEF GovernorInv
  <2>2. Waiting(proposals[j]) /\ tx \in OwnTransactions(proposals[j])
    BY <1>1, <2>1 DEF Waiting
  <2>3. TakenAway(tx)
    BY <2>1, <2>2 DEF GovernorInv, WaitingIsQueued
  <2> QED
    BY <2>3, TakenAwayStays
<1>2. CASE ~QueueProposal(a) /\ ~QueueProposal(b)
  <2>1. \A i \in {a, b} : Waiting(proposals[i]) /\ tx \in OwnTransactions(proposals[i])
    BY <1>2, EtaChange DEF Waiting
  <2>2. TakenAway(tx)
    BY <1>0, <2>1 DEF GovernorInv, SharedIsTakenAway
  <2> QED
    BY <2>2, TakenAwayStays
<1> QED
  BY <1>0, <1>1, <1>2

LEMMA HandOverPart ==
    ASSUME GovernorInv, [Next]_vars
    PROVE  AdminIsHandedOver'
<1> DEFINE Handed == \E c \in made : c.call.kind = "setPendingAdmin"
<1> SUFFICES ASSUME admin' # Governor, NEW id \in DOMAIN proposals', proposals'[id].eta # 0
             PROVE  Handed'
  BY DEF AdminIsHandedOver
<1>0. Handed => Handed'
  BY MadeGrows
<1>1. CASE admin' = admin
  <2>1. ~QueueProposal(id)
    BY <1>1, EtaChange, Enqueued DEF GovernorInv
  <2>2. id \in DOMAIN proposals /\ proposals[id].eta # 0
    BY <2>1, EtaChange
  <2> QED
    BY <1>0, <1>1, <2>2 DEF GovernorInv, AdminIsHandedOver
<1>2. CASE admin' # admin
  <2>1. pendingAdmin = admin'
    <3>1. ASSUME NEW caller, AcceptAdmin(caller)
          PROVE  pendingAdmin = admin'
      BY <3>1 DEF AcceptAdmin, MayAcceptAdmin
    <3>2. ASSUME NEW caller, NEW txs,
                 \/ QueueTransactions(caller, txs) \/ CancelTransactions(caller, txs)
                 \/ ExecuteTransactions(caller, txs)
          PROVE  FALSE
      BY <1>2, <3>2 DEF QueueTransactions, CancelTransactions, ExecuteTransactions
    <3>3. ASSUME NEW caller, OtherAdmin(caller)
          PROVE  pendingAdmin = admin'
      BY <3>1, <3>2, <3>3 DEF OtherAdmin, Queue, Cancel, Execute
    <3>4. ~UNCHANGED timelockVars
      BY <1>2 DEF timelockVars
    <3> QED
      BY <3>1, <3>2, <3>3, <3>4
         DEF Next, vars, NextBlock, Propose, CastVote, QueueProposal, ExecuteProposal,
             CancelProposal, AcceptTimelockAdmin, Abdicate, QueueSetTimelockPendingAdmin,
             ExecuteSetTimelockPendingAdmin
  <2>2. admin' \in Addresses
    BY TypePart DEF TypeOK, TimelockTypeOK
  <2>3. Announced("setPendingAdmin", pendingAdmin)
    BY <2>1, <2>2, AddressAssumption DEF GovernorInv, TimelockInv, PendingWasAnnounced
  <2> QED
    BY <1>0, <2>3 DEF Announced
<1> QED
  BY <1>1, <1>2

-----------------------------------------------------------------------------

LEMMA GovernorInitInv == Init => GovernorInv
<1> SUFFICES ASSUME Init PROVE GovernorInv
  OBVIOUS
<1>1. TimelockInv
  BY TimelockInitInv DEF Init
<1>2. proposals = <<>> /\ DOMAIN proposals = {} /\ Len(proposals) = 0
  BY DEF Init
<1>3. TypeOK
  <2>1. StartBlocks = {}
    BY <1>2 DEF StartBlocks, Range
  <2>2. powerAt \in [DOMAIN powerAt -> Powers] /\ DOMAIN powerAt = {block - 1} /\ block = 1
    BY DEF Init
  <2>3. guardian \in Addresses /\ now > 0 /\ latestProposalIds \in [Voters -> 0..Len(proposals)]
    BY <1>2, GovernorAssumption DEF Init
  <2> QED
    BY <1>1, <1>2, <2>1, <2>2, <2>3 DEF TypeOK, TimelockInv
<1>4. EveryCallWasVoted
  BY DEF Init, TimelockInit, EveryCallWasVoted
<1> QED
  BY <1>1, <1>2, <1>3, <1>4, GovernorAssumption
     DEF GovernorInv, VotingTakesABlock, QueuedAfterVoting, ExecutedIsFinal,
         LiveOnesAreLatest, ReceiptsAddUp, ReceiptsHoldPriorVotes, WaitingIsQueued,
         SharedIsTakenAway, AdminIsHandedOver

\* The inductive invariant of the governor and its timelock.
THEOREM GovernorInvariant == Spec => []GovernorInv
<1>1. GovernorInv /\ [Next]_vars => GovernorInv'
  BY TimelockPart, TypePart, VotingPart, ExecutedPart, VotedPart, LivePart,
     ReceiptsPart, QueuePart, SharedPart, HandOverPart DEF GovernorInv
<1> QED
  BY <1>1, GovernorInitInv, PTL DEF Spec

\* TypeOK for every value of the constants.
THEOREM TypeCorrect == Spec => []TypeOK
BY GovernorInvariant, PTL DEF GovernorInv

\* The governor has the timelock do only what a passed, not canceled and now
\* executed proposal asks for (or the guardian's setPendingAdmin).
THEOREM CallsAreVoted == Spec => []EveryCallWasVoted
BY GovernorInvariant, PTL DEF GovernorInv

\* No proposer has two live proposals, for any number of voters and proposals
\* and any length of voting.
THEOREM OneProposalAtATime == Spec => []OneLiveProposalPerProposer
<1>1. GovernorInv => OneLiveProposalPerProposer
  BY DEF GovernorInv, LiveOnesAreLatest, OneLiveProposalPerProposer
<1> QED
  BY <1>1, GovernorInvariant, PTL

\* However the voting power moves from block to block, the votes counted on a
\* proposal stay within the power there was at its start.
THEOREM VotesStayWithinPower == Spec => []VotesWithinTotalPower
BY GovernorInvariant, VotesAreBounded, PTL

\* A queued proposal finds its calls in the timelock's queue, unless they were
\* taken away in one of the named ways, and, from its eta on, in the window in
\* which the timelock runs them.
THEOREM QueuedCallsAreKept == Spec => []QueuedActionsAvailable
<1>1. GovernorInv => QueuedActionsAvailable
  <2> SUFFICES ASSUME GovernorInv, NEW id \in DOMAIN proposals,
                      State(proposals[id]) = "Queued",
                      NEW tx \in OwnTransactions(proposals[id])
               PROVE  Runnable(tx) \/ TakenAway(tx)
    BY DEF QueuedActionsAvailable
  <2>1. Waiting(proposals[id]) /\ ~GraceIsOver(proposals[id])
    BY DEF State, Waiting
  <2>2. tx \in queuedTransactions \/ TakenAway(tx)
    BY <2>1 DEF GovernorInv, WaitingIsQueued
  <2>3. tx.eta = proposals[id].eta /\ tx.eta \in Nat /\ now \in Nat
    <3>1. proposals[id] \in Proposal /\ now \in Nat
      BY DEF GovernorInv, TypeOK, TimelockTypeOK
    <3>2. PICK i \in DOMAIN TransactionsOf(proposals[id], proposals[id].eta) :
             tx = TransactionsOf(proposals[id], proposals[id].eta)[i]
      BY DEF OwnTransactions, Range
    <3>3. tx.eta = proposals[id].eta
      BY <3>2 DEF TransactionsOf
    <3> QED
      BY <3>1, <3>3 DEF Proposal
  \* The timelock's window ends after the governor's grace period.
  <2>4. now >= tx.eta => InWindow(tx)
    BY <2>1, <2>3, GovernorAssumption, DelayAssumption DEF GraceIsOver, InWindow
  <2> QED
    BY <2>2, <2>4 DEF Runnable
<1> QED
  BY <1>1, GovernorInvariant, PTL

\* In the whole system as well, nobody becomes admin of the timelock and the
\* delay does not change but by a call that was public in time.
THEOREM GovernedSettingsChangeInPublic == Spec => []SettingsWereAnnounced
BY GovernorInvariant, PTL DEF GovernorInv, TimelockInv

LEMMA StepRefines ==
    ASSUME GovernorInv, [Next]_vars
    PROVE  [Lifecycle!Next]_stateOf
<1> DEFINE Ids == 1..MaxProposals
<1>0. DOMAIN proposals \subseteq Ids /\ DOMAIN proposals = 1..Len(proposals) /\ Len(proposals) \in Nat
  BY GovernorAssumption DEF GovernorInv, TypeOK
<1>1. \A p : State(p) \in Lifecycle!ProposalStates
  BY DEF State, Lifecycle!ProposalStates
<1>2. CASE NextBlock
  <2>1. proposals' = proposals
    BY <1>2 DEF NextBlock, governorVars
  <2>2. stateOf' \in [Ids -> Lifecycle!ProposalStates \cup {"None"}]
    BY DEF stateOf, State, Lifecycle!ProposalStates
  <2>3. ASSUME NEW id \in Ids
        PROVE  \/ stateOf'[id] = stateOf[id]
               \/ <<stateOf[id], stateOf'[id]>> \in Lifecycle!ClockEdges
    <3>1. CASE id \in DOMAIN proposals
      <4>1. stateOf[id] = State(proposals[id]) /\ stateOf'[id] = State(proposals[id])'
        BY <2>1, <3>1 DEF stateOf
      <4> QED
        BY <1>2, <3>1, <4>1, ClockMoves
    <3>2. CASE id \notin DOMAIN proposals
      BY <2>1, <3>2 DEF stateOf
    <3> QED
      BY <3>1, <3>2
  <2> QED
    BY <2>2, <2>3 DEF Lifecycle!Next, Lifecycle!Clock
<1>3. CASE UNCHANGED <<now, block, powerAt>> /\ UNCHANGED proposals
  BY <1>3 DEF stateOf, State, Passed, GraceIsOver
<1>4. ASSUME UNCHANGED <<now, block, powerAt>>, NEW p \in Proposal, Created(p)
      PROVE  Lifecycle!Next
  <2> DEFINE id == Len(proposals) + 1
  <2>1. id \in Ids /\ id \notin DOMAIN proposals
    BY <1>0, <1>4, GovernorAssumption DEF Created
  <2>2. /\ DOMAIN proposals' = DOMAIN proposals \cup {id}
        /\ proposals'[id] = p
        /\ \A i \in DOMAIN proposals : proposals'[i] = proposals[i]
    BY <1>4, StartBlocksCreated DEF GovernorInv
  <2>3. State(p) = "Pending"
    <3>1. ~p.canceled /\ p.startBlock = block + votingDelay /\ block \in Nat
      BY <1>4 DEF Created, GovernorInv, TypeOK
    <3>2. block <= p.startBlock
      BY <3>1, GovernorAssumption
    <3> QED
      BY <3>1, <3>2 DEF State
  <2>4. stateOf[id] = "None" /\ stateOf' = [stateOf EXCEPT ![id] = "Pending"]
    <3>2. stateOf[id] = "None"
      BY <2>1 DEF stateOf
    <3>3. stateOf' = [i \in Ids |-> IF i \in DOMAIN proposals' THEN State(proposals[i])' ELSE "None"]
      BY DEF stateOf
    <3>4. ASSUME NEW i \in Ids
          PROVE  stateOf'[i] = IF i = id THEN "Pending" ELSE stateOf[i]
      BY <1>4, <2>1, <2>2, <2>3, <3>3 DEF stateOf, State, Passed, GraceIsOver
    <3> QED
      BY <2>1, <3>2, <3>3, <3>4 DEF stateOf
  <2>5. <<stateOf[id], "Pending">> \in Lifecycle!TransactionEdges
    BY <2>4 DEF Lifecycle!TransactionEdges
  <2> QED
    BY <2>1, <2>4, <2>5
       DEF Lifecycle!Next, Lifecycle!Transaction, Lifecycle!ProposalStates
<1>5. ASSUME UNCHANGED <<now, block, powerAt>>,
             NEW id \in DOMAIN proposals, NEW q \in Proposal, Moved(id, q)
      PROVE  [Lifecycle!Next]_stateOf
  <2>1. /\ DOMAIN proposals' = DOMAIN proposals
        /\ proposals'[id] = q
        /\ \A i \in DOMAIN proposals \ {id} : proposals'[i] = proposals[i]
    BY <1>5, StartBlocksMoved DEF GovernorInv
  <2>2. id \in Ids /\ stateOf[id] = State(proposals[id])
    BY <1>0 DEF stateOf
  <2>3. stateOf' = [stateOf EXCEPT ![id] = State(q)]
    <3>1. ASSUME NEW i \in Ids
          PROVE  stateOf'[i] = IF i = id THEN State(q) ELSE stateOf[i]
      <4>1. CASE i = id
        BY <1>5, <2>1, <2>2, <4>1 DEF stateOf, State, Passed, GraceIsOver
      <4>2. CASE i # id
        BY <1>5, <2>1, <2>2, <4>2 DEF stateOf, State, Passed, GraceIsOver
      <4> QED
        BY <4>1, <4>2
    <3>2. stateOf' = [i \in Ids |-> IF i \in DOMAIN proposals' THEN State(proposals[i])' ELSE "None"]
      BY DEF stateOf
    <3> HIDE DEF Ids
    <3> QED
      BY <2>2, <3>1, <3>2 DEF stateOf, Ids
  <2>4. CASE State(q) = State(proposals[id])
    <3>1. stateOf' = stateOf
      BY <2>2, <2>3, <2>4 DEF stateOf
    <3> QED
      BY <3>1
  <2>5. CASE <<State(proposals[id]), State(q)>> \in Lifecycle!TransactionEdges
    BY <1>1, <2>2, <2>3, <2>5 DEF Lifecycle!Next, Lifecycle!Transaction
  <2> QED
    BY <1>5, <2>4, <2>5 DEF Moved
<1> QED
  BY <1>2, <1>3, <1>4, <1>5, StepChange

\* GovernorAlpha implements ProposalLifecycle: the states that state() reports
\* only move along its edges.
THEOREM GovernorImplementsLifecycle == Spec => ProposalsFollowLifecycle
<1>1. Init => Lifecycle!Init
  BY DEF Init, Lifecycle!Init, stateOf
<1>2. GovernorInv /\ [Next]_vars => [Lifecycle!Next]_stateOf
  BY StepRefines
<1> QED
  BY <1>1, <1>2, GovernorInvariant, PTL DEF Spec, ProposalsFollowLifecycle, Lifecycle!Spec
=============================================================================
