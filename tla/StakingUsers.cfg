\* Two accounts stake for themselves and each other, extend, delegate, withdraw, in odd
\* stakes that round, under a contract that is paused and frozen.
SPECIFICATION Spec
CONSTANTS
    alice = alice
    bob = bob
    vest = vest
    none = none
    Users <- UserAccounts
    Vestings <- NoVestings
    NoAddress = none
    ScheduleOf <- NoSchedule
    TeamVestings <- NoVestings
    TWO_WEEKS = 2
    MAX_DURATION = 4
    MAX_VOTING_WEIGHT = 9
    WEIGHT_FACTOR = 10
    Delegatees <- UserDelegatees
    Amounts = {5}
    Withdrawals = {5}
    Times <- UserTimes
    Schedules <- NoVestings
    Scalings = {9}
    IterationLimits = {}
    AdminCalls = {"pause", "freeze", "unlock"}
    Elapsed = {1, 2}
    MaxStaked = 10
    MaxBlock = 2
    MaxTime = 2
INVARIANTS
    StakingBooks
    HistoriesSorted
PROPERTIES
    PastIsFixed
    FrozenMovesNothing
SYMMETRY Symmetric
CHECK_DEADLOCK FALSE
