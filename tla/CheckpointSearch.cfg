\* Every search of every small history; a finished search stays finished.
SPECIFICATION SearchSpec
CONSTANTS
    Written <- SearchedHistories
    MaxBlock = 7
INVARIANTS
    SearchTypeOK
    BoundsHoldAnswer
    AnswerIsPriorStake
PROPERTY
    SearchEnds
CHECK_DEADLOCK FALSE
