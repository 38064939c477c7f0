SPECIFICATION Spec
CONSTANTS
    StandardPools <- TwoPools
    Funds = 10
    Jobs <- Catalogue
    Accounts <- People
    NoAddress = "none"
    InitialOwners <- WalletOwners
    InitialRequired = 2
    MAX_OWNER_COUNT = 4
    ForeignCalls <- Submissions
INVARIANTS
    WalletInv
    OwnersChangeByQuorum
    NothingFails
    EndsAsWritten
PROPERTIES
    HandOverIsFinal
CHECK_DEADLOCK FALSE
