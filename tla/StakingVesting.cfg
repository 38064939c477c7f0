\* A vesting contract stakes by schedule, delegates and withdraws, or is cancelled.
SPECIFICATION Spec
CONSTANTS
    alice = alice
    bob = bob
    vest = vest
    none = none
    Users <- NoUsers
    Vestings <- OneVesting
    NoAddress = none
    ScheduleOf <- VestingSchedule
    TeamVestings <- OneVesting
    TWO_WEEKS = 2
    MAX_DURATION = 4
    MAX_VOTING_WEIGHT = 9
    WEIGHT_FACTOR = 10
    Delegatees <- VestingDelegatees
    Amounts = {4}
    Withdrawals = {1}
    Times <- VestingTimes
    Schedules <- VestingSchedules
    Scalings = {}
    IterationLimits = {1, 2}
    AdminCalls = {}
    Elapsed = {2}
    MaxStaked = 4
    MaxBlock = 3
    MaxTime = 4
INVARIANTS
    BooksInv
    StakingBooks
PROPERTY
    CancelledIsEmpty
CHECK_DEADLOCK FALSE
