-------------------------- MODULE LoanTokenScripts --------------------------
(***************************************************************************)
(* scripts/contractInteraction/loan_tokens.py: lending and trading with    *)
(* the operator's account or with the multisig, the settings of a pool,    *)
(* its logic behind a beacon, and the hand-over of the pools.              *)
(***************************************************************************)
EXTENDS ScriptSteps

\* A pool is a LoanToken that delegates to a LoanTokenLogicProxy, which asks
\* its beacon for the module of a function; a paused beacon names none.
Delegates(pool, group) ==
    {Is(pool, "target", "", "LoanTokenLogicProxy"), Is(pool, "beacon", "", BeaconOf(pool)),
     IsNot(BeaconOf(pool), "paused", "", "yes"), Serves(BeaconOf(pool), group)}
Trading(pool) == Needing(Call(pool, {"anyone"}), Delegates(pool, "trading"))
PoolSetting(pool, key, item, value, by) ==
    Needing(Set(pool, key, item, value, by), Delegates(pool, "settings"))
OwnerOrAdmin == {"owner", "admin"}
OwnerOrPauser == {"owner", "pauser"}

\* marginTrade and borrow take the deposit from whoever calls.
openLoan(pool, token, from, amount) ==
    Pulling(Writing(Trading(pool), "sovrynProtocol", "loan", from, "open"),
            token, from, pool, amount)
closeWithSwap(from) ==
    Needing(Set("sovrynProtocol", "loan", from, "closed", {"anyone"}),
            {Is("sovrynProtocol", "loan", from, "open")})

-----------------------------------------------------------------------------
\* These scripts call the pool through the interface of LoanTokenLogicStandard,
\* which has neither mint and burn nor the settings at this commit: where they get
\* to such a call they stop with an exception of the interpreter.
lendToPool(pool, token, amount) ==
    << If(Short(token, Operator, pool, amount), Do(Approve(token, Operator, pool, amount))), Raise >>
lendToPoolWithMS(pool, token, amount) ==
    << If(Short(token, Wallet, pool, amount), Queue(Approve(token, Wallet, pool, amount))), Raise >>
removeFromPool == << Raise >>
removeFromPoolWithMS == << Raise >>
testTokenBurning(pool, token) == << Do(Approve(token, Operator, pool, 1)), Raise >>
testTradeOpeningAndClosing(pool, token, amount) ==
    << If(Short(token, Operator, pool, amount), Do(Approve(token, Operator, pool, amount))),
       Do(openLoan(pool, token, Operator, amount)), Do(closeWithSwap(Operator)) >>
testTradeOpeningAndClosingWithCollateral(pool, collateral, amount) ==
    testTradeOpeningAndClosing(pool, collateral, amount)
goSOVLongWithMS(amount) ==
    << If(Short("SOV", Wallet, "iRBTC", amount), Queue(Approve("SOV", Wallet, "iRBTC", amount))),
       Queue(openLoan("iRBTC", "SOV", Wallet, amount)) >>
withdrawRBTCFromLoanTokenTo == << Raise >>
withdrawRBTCFromIWRBTC == withdrawRBTCFromLoanTokenTo
\* WRBTC is never approved here.
testBorrow(pool, collateral, deposit) ==
    (IF collateral = "WRBTC" THEN << >>
     ELSE << If(Short(collateral, Operator, pool, deposit),
                Do(Approve(collateral, Operator, pool, deposit))) >>)
    \o << Do(openLoan(pool, collateral, Operator, deposit)) >>
borrowRBTCWithMultisigUsingSOV(deposit, receiver) ==
    << If(Short("SOV", Wallet, "iRBTC", deposit), Queue(Approve("SOV", Wallet, "iRBTC", deposit))),
       Queue(Moving(openLoan("iRBTC", "SOV", Wallet, deposit), "WRBTC", "iRBTC", receiver, 1)) >>
testSwapsExternal(from, to, amount) ==
    << Do(Approve(from, Operator, "sovrynProtocol", amount)),
       Do(Moving(Pulling(Needing(Call("sovrynProtocol", {"anyone"}),
                                 {IsNot("sovrynProtocol", "paused", "", "yes")}),
                         from, Operator, "sovrynProtocol", amount),
                 to, "sovrynProtocol", Operator, amount)) >>
wrappedIntegrationTest(pool, token, collateral) ==
    testTradeOpeningAndClosing(pool, token, 2) \o lendToPool(pool, token, 2)
    \o removeFromPool
    \o testTradeOpeningAndClosingWithCollateral(pool, collateral, 1)
    \o testBorrow(pool, collateral, 1) \o testSwapsExternal(token, collateral, 2)

-----------------------------------------------------------------------------
LoanParams(pool, kind, collateral, margin) ==
    PoolSetting(pool, kind, collateral, margin, OwnerOrAdmin)
setupTorqueLoanParams(pool, collateral, margin) ==
    << Queue(LoanParams(pool, "torqueParams", collateral, margin)) >>
setupMarginLoanParams(collateral, pool) ==
    << Queue(LoanParams(pool, "marginParams", collateral, "20%")) >>
setupMarginLoanParamsMinInitialMargin(collateral, pool, margin) ==
    << Queue(LoanParams(pool, "marginParams", collateral, margin)) >>
setupLoanParamsForCollaterals == << Raise >>
setTransactionLimits(pool, token, limit) ==
    << Queue(PoolSetting(pool, "transactionLimit", token, limit, OwnerOrAdmin)) >>
triggerEmergencyStop(pool, on) ==
    << Queue(PoolSetting(pool, "functionPause", "marginTrade", on, OwnerOrPauser)) >>
setPoolPauser(pool, pauser) == << Queue(PoolSetting(pool, "pauser", "", pauser, Owned)) >>
disableLoanParams(pool, collateral) ==
    << Queue(Writing(LoanParams(pool, "marginParams", collateral, "disabled"),
                     pool, "torqueParams", collateral, "disabled")) >>
setAdminOnLoanToken(pool, admin) == << Queue(PoolSetting(pool, "admin", "", admin, Owned)) >>
setAdminOnLoanTokenWithWallet(pool, admin) ==
    << Do(PoolSetting(pool, "admin", "", admin, Owned)) >>

-----------------------------------------------------------------------------
BeaconLM == "LoanTokenLogicBeaconLM"
BeaconWrbtc == "LoanTokenLogicBeaconWrbtc"
Pools == Append(StandardPools, "iRBTC")

\* Functions that a module of this name had and has no more are served no longer.
Register(beacon, module) == Set(beacon, "module", module, "new", Owned)
\* setBeaconAddress is a function of the LoanTokenLogicProxy a pool delegates to.
SetBeacon(pool) ==
    Needing(OwnerSets(pool, "beacon", BeaconOf(pool)),
            {Is(pool, "target", "", "LoanTokenLogicProxy")})
SetTarget(pool) == OwnerSets(pool, "target", "LoanTokenLogicProxy")
\* getTarget of a function the module is taken to have: marginTrade, setAdmin.
Registered(beacon, group) == Expect(Serves(beacon, group))

\* The pools delegate to a logic contract of their own when this script runs.
deployNewLoanTokenLogicFirstTime ==
    << Deploy("LoanTokenLogicProxy"), Deploy(BeaconLM), Deploy(BeaconWrbtc),
       Deploy("LoanTokenLogicLM"),
       Do(Register(BeaconLM, "LoanTokenLogicLM")), Registered(BeaconLM, "trading"),
       Deploy("LoanTokenSettingsLowerAdmin"),
       Do(Register(BeaconLM, "LoanTokenSettingsLowerAdmin")),
       Registered(BeaconLM, "settings"),
       Deploy("LoanTokenLogicWrbtc"),
       Do(Register(BeaconWrbtc, "LoanTokenLogicWrbtc")),
       Registered(BeaconWrbtc, "trading"),
       Do(Register(BeaconWrbtc, "LoanTokenSettingsLowerAdmin")),
       Registered(BeaconWrbtc, "settings") >>
    \o ForEach(Pools, LAMBDA pool : << Queue(SetBeacon(pool)) >>)
    \o ForEach(Pools, LAMBDA pool : << Queue(SetTarget(pool)) >>)
    \o << Do(TransferOwnership(BeaconLM, Wallet)), Do(TransferOwnership(BeaconWrbtc, Wallet)) >>
replaceLoanTokenLogicOnAllContracts ==
    << Deploy("LoanTokenLogicLM"), Queue(Register(BeaconLM, "LoanTokenLogicLM")),
       Deploy("LoanTokenSettingsLowerAdmin"),
       Queue(Register(BeaconLM, "LoanTokenSettingsLowerAdmin")),
       Deploy("LoanTokenLogicWrbtc"), Queue(Register(BeaconWrbtc, "LoanTokenLogicWrbtc")),
       Queue(Register(BeaconWrbtc, "LoanTokenSettingsLowerAdmin")) >>
replaceLoanTokenSettingsLowerAdmin ==
    << Deploy("LoanTokenSettingsLowerAdmin"),
       Queue(Register(BeaconLM, "LoanTokenSettingsLowerAdmin")),
       Queue(Register(BeaconWrbtc, "LoanTokenSettingsLowerAdmin")) >>
replaceLoanTokenLogic(pool) == << Queue(SetTarget(pool)) >>

Pause(at, by) == Needing(Set(at, "paused", "", "yes", by), {IsNot(at, "paused", "", "yes")})
Unpause(at, by) == Needing(Set(at, "paused", "", "no", by), {Is(at, "paused", "", "yes")})
pauseAllLoanTokens == << Queue(Pause(BeaconLM, OwnerOrPauser)), Queue(Pause(BeaconWrbtc, OwnerOrPauser)) >>
unpauseAllLoanTokens ==
    << Queue(Unpause(BeaconLM, OwnerOrPauser)), Queue(Unpause(BeaconWrbtc, OwnerOrPauser)) >>

-----------------------------------------------------------------------------
transferBeaconOwnershipToGovernance ==
    << Queue(TransferOwnership(BeaconLM, "TimelockOwner")),
       Queue(TransferOwnership(BeaconWrbtc, "TimelockOwner")) >>
transferLoanTokenAdminRoleToGovernance ==
    ForEach(Pools, LAMBDA pool :
        << Queue(PoolSetting(pool, "admin", "", "TimelockAdmin", Owned)) >>)
transferLoanTokenOwnershipToGovernance ==
    ForEach(Pools, LAMBDA pool : << Queue(TransferOwnership(pool, "TimelockOwner")) >>)

\* The new pool is initialised and set up by its deployer, and stays his.
deployLoanToken(pool, token, collateral) ==
    << Deploy("LoanTokenLogicProxy"), Deploy(pool),
       Do(SetTarget(pool)), \* by the constructor, which takes the owner to be
       Do(OwnerSets(pool, "asset", token)),
       Do(SetBeacon(pool)),
       Do(PoolSetting(pool, "demandCurve", "", "set", OwnerOrAdmin)),
       Do(LoanParams(pool, "marginParams", collateral, "20%")),
       Do(LoanParams(pool, "torqueParams", collateral,
                     IF collateral = "SOV" THEN "200%" ELSE "50%")),
       Queue(Needing(Set("sovrynProtocol", "pool", pool, token, OwnerOrAdmin),
                     {IsNot("sovrynProtocol", "paused", "", "yes")})) >>
=============================================================================
