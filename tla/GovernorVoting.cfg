SPECIFICATION Spec
CONSTANTS
    gov = gov
    guard = guard
    v1 = v1
    v2 = v2
    t1 = t1
    Addresses <- MCAddresses
    NoAddress = none
    InitialAdmin = gov
    InitialDelay = 1
    DelayArgs = {2}
    AdminArgs = {}
    Targets = {t1}
    GRACE_PERIOD = 1
    MINIMUM_DELAY = 1
    MAXIMUM_DELAY = 2
    MaxTime = 20
    MaxEtaSlack = 0
    MaxCalls = 2
    Governor = gov
    InitialGuardian = guard
    Voters <- VotingVoters
    Powers <- VotingPowers
    Proposable <- VotingProposable
    proposalMaxOperations = 2
    votingDelay = 1
    votingPeriod = 1
    quorumPercentageVotes = 50
    majorityPercentageVotes = 50
    BlockTimes = {1}
    MaxBlock = 6
    MaxProposals = 2
INVARIANTS
    GovernorInv
    OneLiveProposalPerProposer
    EveryCallWasVoted
    QueuedActionsAvailable
PROPERTIES
    ProposalsFollowLifecycle
CHECK_DEADLOCK FALSE
