SPECIFICATION Spec
CONSTANTS
    carol = carol
    l1 = l1
    l2 = l2
    Suppliers <- MCSuppliers
    LoanIds <- MCLoanIds
    Borrows <- MCBorrows
    Trades <- MCTrades
    DAY = 2
    HOUR = 1
    MONTH = 3
    maxLoanTerm = 3
    lendingFeePercent = 10
    tradingFeePercent = 1
    borrowingFeePercent = 1
    liquidationIncentivePercent = 5
    liquidationSurplus = 5
    maintenanceMargin = 15
    rolloverBaseReward = 8
    rolloverFlexFeePercent = 1
    TINY_AMOUNT = 2
    paySwapExcessToBorrowerThreshold = 1
    PRECISION = 10
    WEI = 10
    initialPrice = 10
    Dust = 10
    Deposits = {100}
    Burns = {45}
    minInitialMargin = 20
    Rates = {10}
    RolloverRates = {5, 10}
    Adjustments = {30}
    Extensions = {4}
    Reductions = {1, 2}
    Buffers = {1}
    Prices = {8, 10}
    MaxCalls = 5
    MaxTime = 4
SYMMETRY Symmetry
INVARIANTS
    LoanInv
    LenderTotalsAddUp
    CollateralAccounted
    InterestAccounted
    OwedTotalLastsOnTime
    LoansCanBeRepaid
PROPERTY
    TokenPriceNeverDrops
CHECK_DEADLOCK FALSE
