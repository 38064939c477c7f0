\* One user claims in pages what two users and a vesting contract share.
SPECIFICATION Spec
CONSTANTS
    alice = alice
    bob = bob
    vest = vest
    rbtc = rbtc
    sov = sov
    Users <- MCUsers
    Vestings <- MCVestings
    RbtcTokens <- MCRbtcTokens
    OtherTokens <- MCOtherTokens
    Rbtc = rbtc
    FEE_WITHDRAWAL_INTERVAL = 1
    TWO_WEEKS = 2
    Snapshots <- MCSnapshots
    Amounts = {2}
    Requests <- MCRequests
    MaxCheckpointArgs = {1, 3}
    Elapsed = {1}
    Claimers <- MCClaimers
    MaxReceived = 6
    MaxBlock = 4
INVARIANTS
    FeeInv
    FeesAccounted
    SettledExactlyOnce
    AdviceIsAccepted
PROPERTIES
    OnlyPastBlocks
    BudgetKept
CHECK_DEADLOCK FALSE
