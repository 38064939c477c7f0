SPECIFICATION TimelockSpec
CONSTANTS
    Addresses = {gov, other}
    NoAddress = none
    InitialAdmin = gov
    InitialDelay = 2
    DelayArgs = {0, 1}
    AdminArgs = {gov, other}
    Targets = {t1}
    GRACE_PERIOD = 1
    MINIMUM_DELAY = 1
    MAXIMUM_DELAY = 2
    MaxTime = 5
    MaxEtaSlack = 1
    MaxCalls = 3
INVARIANTS
    TimelockTypeOK
    CallsWerePublic
    SettingsWereAnnounced
CHECK_DEADLOCK FALSE
