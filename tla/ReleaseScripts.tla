---------------------------- MODULE ReleaseScripts ----------------------------
(***************************************************************************)
(* What is run around a release: the hand-over of the system to governance *)
(* in contractInteraction/contract_interaction.py, whose three parts are   *)
(* to follow each other; the release deploy_to_mainnet_0921.py; and        *)
(* run_test_after_deployments.py, which repeats the trades of              *)
(* loan_tokens.py on the pools that were deployed.                         *)
(***************************************************************************)
EXTENDS ScriptSteps

Now == INSTANCE SipScripts

\* First the admins, then the guardian, and the owners last: a contract of which
\* governance is the owner takes neither from the wallet any more.
governanceTransferStep1 ==
    Now!transferProtocolAdminRoleToGovernance \o Now!transferLoanTokenAdminRoleToGovernance
    \o Now!transferLockedSOVOwnershipToGovernance \o Now!addVestingRegistryGovernanceAdmin
guardiansTransfer(testnet) == Now!setNewContractGuardian(testnet)
governanceTransferStep2 ==
    Now!transferProtocolOwnershipToGovernance \o Now!transferBeaconOwnershipToGovernance
    \o Now!transferLoanTokenOwnershipToGovernance \o Now!transferOracleOwnershipToGovernance
    \o Now!transferLiquidityMiningOwnershipToGovernance \o Now!removeExchequerFromLockedSOVAdmin
    \o Now!transferStakingRewardsOwnershipToGovernance
    \o Now!transferVestingRegistryOwnershipToGovernance

\* Its first part ends with an exception, so that nothing after it is run.
deployToMainnet0921 ==
    Now!deployAffiliateWithZeroFeesPercent \o Now!replaceLoanTokenLogicOnAllContracts
    \o Now!replaceSwapsImplSovrynSwap \o Now!replaceProtocolSettings
    \o Now!setTradingRebateRewardsBasisPoint("9000") \o Now!setDefaultRebatesPercentage("50%")
    \o Now!deployOracleV1Pool("SOV") \o Now!setSupportedToken("SOV")
    \o ForEach(<<"iXUSD", "iRBTC", "iBPro", "iDOC">>,
               LAMBDA pool : Now!setupTorqueLoanParams(pool, "SOV", "200 ether"))

-----------------------------------------------------------------------------
(* The tests after a deployment, with the interface that has no mint either. *)

lendToPool(pool, token, amount) == Now!lendToPool(pool, token, amount)
lendToPoolWithMS(pool, token, amount) == Now!lendToPoolWithMS(pool, token, amount)
removeFromPool == Now!removeFromPool
testTokenBurning(pool, token) == Now!testTokenBurning(pool, token)
testTradeOpeningAndClosing(pool, token, amount) ==
    Now!testTradeOpeningAndClosing(pool, token, amount)
testTradeOpeningAndClosingWithCollateral(pool, collateral, amount) ==
    Now!testTradeOpeningAndClosingWithCollateral(pool, collateral, amount)
testBorrow(pool, collateral, deposit) == Now!testBorrow(pool, collateral, deposit)
testSwapsExternal(from, to, amount) == Now!testSwapsExternal(from, to, amount)
\* What the checks between the parts find wrong is printed at the end.
wrappedIntegrationTest(pool, token, collateral) ==
    testTradeOpeningAndClosing(pool, token, 2) \o lendToPool(pool, token, 2) \o removeFromPool
    \o testTradeOpeningAndClosingWithCollateral(pool, collateral, 1)
    \o testBorrow(pool, collateral, 1) \o testSwapsExternal(token, collateral, 2)
=============================================================================
