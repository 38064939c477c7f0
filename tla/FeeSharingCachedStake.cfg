\* Pages of checkpoints with one lock date are paid by the stake at the first.
SPECIFICATION Spec
CONSTANTS
    alice = alice
    bob = bob
    vest = vest
    rbtc = rbtc
    sov = sov
    Users <- MCUsers
    Vestings <- MCVestings
    RbtcTokens <- MCRbtcTokens
    OtherTokens <- MCOtherTokens
    Rbtc = rbtc
    FEE_WITHDRAWAL_INTERVAL = 1
    TWO_WEEKS = 2
    Snapshots <- MCSnapshots
    Amounts = {2}
    Requests <- MCRequests
    MaxCheckpointArgs = {1, 3}
    Elapsed = {1}
    Claimers <- MCClaimers
    MaxReceived = 6
    MaxBlock = 4
INVARIANT
    SharesFollowStake
CHECK_DEADLOCK FALSE
