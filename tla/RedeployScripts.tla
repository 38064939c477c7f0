--------------------------- MODULE RedeployScripts ---------------------------
(***************************************************************************)
(* scripts/deployment/redeploy_after_bzx_update.py: the tool box the       *)
(* operators used before pools had beacons.  A pool delegates straight to  *)
(* one logic contract here, and the operator's account still holds roles   *)
(* of the pools.  Functions that contractInteraction/ took over unchanged  *)
(* are named with their definition there (Now).                            *)
(***************************************************************************)
EXTENDS ScriptSteps

Now == INSTANCE SipScripts

OldPools == <<"iDOC", "iUSDT", "iBPro">>
\* The functions of the AMM read their ABIs from where they were before they moved
\* to ABIs/, and stop before anything else.
AbiMoved == << Raise >>
setTarget(pool, logic) == OwnerSets(pool, "target", logic)
\* A setting of the contract a pool delegates to, for the pool's owner.
Settings == "LoanTokenSettingsLowerAdmin"

\* Calls LoanToken by functions that only its logic has, or the logic by functions
\* that moved to the settings module, stop with an exception of the interpreter.
setupLoanTokenRates == << Raise >>
lendToPool(pool, token, amount) == Now!lendToPool(pool, token, amount)
removeFromPool == Now!removeFromPool
testTokenBurning(pool, token) == Now!testTokenBurning(pool, token)
liquidate(token, loan) == Now!liquidate(token, loan)
\* marginTrade gets seven of the eight arguments it takes here.
testTradeOpeningAndClosing(pool, token, amount) ==
    << If(Short(token, Operator, pool, amount), Do(Approve(token, Operator, pool, amount))), Raise >>
testTradeOpeningAndClosingWithCollateral == << Raise >>
\* Sends the deposit in RBTC as well: WRBTC is made of it, and with any other token
\* the protocol refuses the RBTC it is handed on.
testBorrow(pool, collateral, deposit) ==
    LET borrow == Writing(Now!Trading(pool), "sovrynProtocol", "loan", Operator, "open")
    IN  IF collateral = "WRBTC"
        THEN << Do(Minting(Burning(borrow, "RBTC", Operator, deposit), "WRBTC", pool, deposit)) >>
        ELSE << If(Short(collateral, Operator, pool, deposit),
                   Do(Approve(collateral, Operator, pool, deposit))),
                Do(Needing(borrow, {Never})) >>
\* Appends to a list it never makes.
setupTorqueLoanParams == << Raise >>
rollover(loan) == Now!rollover(loan)
replaceLoanClosings == Now!replaceLoanClosings
transferOwner(at, to) == Now!transferOwner(at, to)
acceptOwnershipWithMultisig(at) == AbiMoved \o Now!acceptOwnershipWithMultisig(at)
buyWRBTC == Now!buyWRBTC(1)
\* Names a contract that is not in the repository any more.
mintEarlyAccessTokens == << Raise >>
setTransactionLimits == << Raise >>
\* Takes the pool's logic away for the time of the call, and puts it back.
setTransactionLimitsOld(pool, token, limit, logic) ==
    << Do(setTarget(pool, Settings)),
       Do(Needing(Set(pool, "transactionLimit", token, limit, Owned),
                  {Is(pool, "target", "", Settings)})),
       Do(setTarget(pool, logic)) >>
setupMarginLoanParams == << Raise >>
\* Only approves: the conversion is commented out.
swapTokens(from, amount) ==
    AbiMoved \o << If(Short(from, Operator, "swapNetwork", amount),
          Do(Approve(from, Operator, "swapNetwork", amount))) >>
deployMultisig == << Deploy("new multisig") >>
updateOracleAddress(oracle) == << Do(OwnerSets("PriceFeedsMOC", "mocOracle", oracle)) >>
addLiquidity(converter, reserve, amount) == AbiMoved \o Now!addLiquidity(converter, reserve, amount)
setupLoanParamsForCollaterals == Now!setupLoanParamsForCollaterals
updatePriceFeedToRSKOracle == Now!updatePriceFeedToRSKOracle
updatePriceFeedToMOCOracle == Now!updatePriceFeedToMOCOracle

-----------------------------------------------------------------------------
\* Registers a module deployed before.
replaceSwapsExternal == << Queue(Now!replaceContract("SwapsExternal")) >>
redeploySwapsExternal == Now!redeploySwapsExternal
replaceLoanOpenings == Now!replaceLoanOpenings
replaceSwapsUser == Now!ReplaceModule("SwapsUser")
replaceSwapsImplSovrynSwap == Now!replaceSwapsImplSovrynSwap
replaceLoanTokenLogic(pool, logic) == << Queue(setTarget(pool, logic)) >>
replaceLoanTokenLogicOnAllContracts ==
    << Deploy("LoanTokenLogicStandard") >>
    \o ForEach(OldPools, LAMBDA pool : replaceLoanTokenLogic(pool, "LoanTokenLogicStandard"))
    \o << Deploy("LoanTokenLogicWrbtc") >> \o replaceLoanTokenLogic("iRBTC", "LoanTokenLogicWrbtc")
updateContracts ==
    replaceSwapsImplSovrynSwap \o replaceSwapsUser \o replaceLoanOpenings
    \o replaceLoanTokenLogicOnAllContracts
replaceProtocolSettings == Now!replaceProtocolSettings
replaceLoanSettings == Now!replaceLoanSettings
replaceLoanMaintenance == Now!replaceLoanMaintenance
\* main()
redeployAfterUpdate ==
    replaceProtocolSettings \o replaceLoanOpenings \o replaceLoanMaintenance
    \o replaceLoanTokenLogicOnAllContracts \o redeploySwapsExternal \o replaceLoanClosings

addOwnerToMultisig(new) == Now!addOwnerToMultisig(new)
governorAcceptAdmin(timelock, governor) == Now!governorAcceptAdmin(timelock, governor)
setEarlyAccessToken == << Raise >>
createProposalSIP005 ==
    Now!Draft("GovernorOwner", << Set("VestingRegistry", "approved", "CSOV", "SOV", Owned) >>)
createProposalSIP006 == Now!Draft("GovernorOwner", Now!Signal)
createProposalSIP008 == Now!Draft("GovernorOwner", Now!Signal)
createProposalSIP0014 ==
    Now!Draft("GovernorOwner",
        << Moving(Call("GovernorVaultOwner", Owned), "SOV", "GovernorVaultOwner", Wallet, 1) >>)
createProposalSIP0015 == Now!Draft("GovernorAdmin", Now!Signal)
createProposalSIP0016 == Now!Draft("GovernorOwner", << Now!NewStakingLogic("StakingLogic2") >>)
queueProposal(id) == Now!queueProposal(id)
executeProposal(id) == Now!executeProposal(id)
setLendingFee(fee) == Now!setLendingFee(fee)
setTradingFee(fee) == Now!setTradingFee(fee)
setBorrowingFee(fee) == Now!setBorrowingFee(fee)
setSupportedToken(token) == Now!setSupportedToken(token)
triggerEmergencyStop == << Raise >>
setPauser == << Raise >>

-----------------------------------------------------------------------------
sendFromMultisigToVesting(amount) == << Queue(Transfer("RBTC", Wallet, "VestingRegistry", amount)) >>
sendFromMultisig(receiver, amount) == Now!sendFromMultisig(receiver, amount)
mintNFT(nft, receiver) == AbiMoved \o Now!mintNFT(nft, receiver)
\* Sends the sum of the claims, once the contract is deployed and has any.
transferSOVtoOriginInvestorsClaim(totalAmount) ==
    << If(IsNot("OriginInvestorsClaim", "totalAmount", "", "0"),
          Queue(Transfer("SOV", Wallet, "OriginInvestorsClaim", totalAmount))) >>
createVesting(tokenOwner) ==
    << Queue(Set("VestingRegistry", "vesting", tokenOwner, "created", {"owner", "admins"})) >>
transferSOVtoVestingRegistry(amount) == << Queue(Transfer("SOV", Wallet, "VestingRegistry", amount)) >>
transferSOVtoVestingRegistry2(amount) == << Queue(Transfer("SOV", Wallet, "VestingRegistry2", amount)) >>
\* The vesting is looked up when the script runs; the registry stakes its own tokens.
stakeTokens2(tokenOwner, amount) ==
    << Expect(Is("VestingRegistry", "vesting", tokenOwner, "created")),
       Queue(Moving(Writing(Call("VestingRegistry", {"owner", "admins"}),
                            "Staking", "stake", tokenOwner, "staked"),
                    "SOV", "VestingRegistry", "Staking", amount)) >>
transferSOVtoTokenSender(amount) == << Queue(Transfer("SOV", Wallet, "TokenSender", amount)) >>
transferSOVtoScriptAccount(amount) == << Queue(Transfer("SOV", Wallet, Operator, amount)) >>
sendSOVFromVestingRegistry == Now!sendSOVFromVestingRegistry
executeOnMultisig(tx) == Now!executeOnMultisig(tx)
addLiquidityV1(converter, a, b, amount) ==
    AbiMoved \o Now!addLiquidityV1(converter, a, b, amount)
addLiquidityV1UsingWrapper(converter, token, amount) ==
    AbiMoved \o Now!addLiquidityV1UsingWrapper(converter, token, amount)
testV1Converter(converter, a, b) ==
    addLiquidityV1(converter, a, b, 1) \o addLiquidityV1UsingWrapper(converter, b, 1)
addLiquidityV1FromMultisigUsingWrapper(converter, token, amount) ==
    AbiMoved \o << Queue(Approve(token, Wallet, Now!Wrapper, amount)),
                   Queue(Now!AddThroughWrapper(converter, token, Wallet, amount)) >>
removeLiquidityV1toMultisigUsingWrapper(converter, token, amount) ==
    AbiMoved \o Now!removeLiquidityV1toMultisigUsingWrapper(converter, token, amount)
=============================================================================
