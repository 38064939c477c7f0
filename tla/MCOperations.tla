---------------------------- MODULE MCOperations ----------------------------
(***************************************************************************)
(* Every script, with arguments of a small instance, alone; and the jobs   *)
(* in which scripts meet a crash, the other owners of the wallet, the      *)
(* hand-over to the timelocks or each other.                               *)
(***************************************************************************)
EXTENDS Operations, SipScripts
Deployment == INSTANCE DeployScripts
Old == INSTANCE RedeployScripts
Release == INSTANCE ReleaseScripts

TwoPools == <<"iDOC", "iXUSD">>
WalletOwners == {"acct", "cosigner", "third"}
People == WalletOwners \cup {"dora", "erin"}
\* A submission is known by its script, the step and how often the script was run.
Submissions == [script : 1..5, step : 1..120, attempt : 0..1]

\* One script, whose transactions the cosigner confirms in their order.
Calm(script) ==
    [scripts |-> <<script>>, chain |-> FirstChain, cosigners |-> {"cosigner"},
     inOrder |-> TRUE, reruns |-> 0, retries |-> FALSE, stops |-> FALSE, fails |-> {}]
Each(scripts, Job(_)) == [i \in DOMAIN scripts |-> Job(scripts[i])]
Stopping(script) == [Calm(script) EXCEPT !.stops = TRUE]
Failing(step, script) == [Calm(script) EXCEPT !.fails = {<<1, step>>}]
\* The same from contracts that are set up in another way than at first.
From(slots, job_) == [job_ EXCEPT !.chain.slots = slots]
Owner(at, account) == Slot(at, "owner", "") :> account

-----------------------------------------------------------------------------
Lending ==
    << goSOVLongWithMS(2), testBorrow("iXUSD", "SOV", 2),
       borrowRBTCWithMultisigUsingSOV(2, "receiver"), testSwapsExternal("SOV", "XUSD", 2),
       testTradeOpeningAndClosing("iRBTC", "SOV", 2),
       setupTorqueLoanParams("iXUSD", "SOV", "50%"), setupMarginLoanParams("SOV", "iXUSD"),
       setupMarginLoanParamsMinInitialMargin("SOV", "iXUSD", "10%"),
       setTransactionLimits("iXUSD", "SOV", "5"), triggerEmergencyStop("iXUSD", "yes"),
       setPoolPauser("iXUSD", Wallet), disableLoanParams("iXUSD", "SOV"),
       setAdminOnLoanToken("iXUSD", "TimelockAdmin"), replaceLoanTokenLogicOnAllContracts,
       replaceLoanTokenSettingsLowerAdmin, replaceLoanTokenLogic("iXUSD"),
       pauseAllLoanTokens, transferBeaconOwnershipToGovernance,
       transferLoanTokenAdminRoleToGovernance, transferLoanTokenOwnershipToGovernance,
       deployLoanToken("iMYNT", "MYNT", "SOV"),
       testTradeOpeningAndClosingWithCollateral("iXUSD", "SOV", 2) >>
StoppingLending ==
    << lendToPool("iXUSD", "XUSD", 2), lendToPoolWithMS("iXUSD", "XUSD", 2), removeFromPool,
       removeFromPoolWithMS, testTokenBurning("iXUSD", "XUSD"), withdrawRBTCFromIWRBTC,
       wrappedIntegrationTest("iXUSD", "XUSD", "SOV"), setupLoanParamsForCollaterals,
       deployNewLoanTokenLogicFirstTime >>

Protocols ==
    << liquidate("XUSD", "loan"), rollover("loan"), replaceLoanClosings, replaceSwapsExternal,
       replaceLoanOpenings, replaceLoanSettings, replaceProtocolSettings, replaceAffiliates,
       replaceLoanMaintenance, redeploySwapsExternal, replaceSwapsImplSovrynSwap,
       setLendingFee("10%"), setTradingFee("0.15%"), setBorrowingFee("0.09%"),
       setSwapExternalFee("0.1%"), setAffiliateFeePercent("5%"),
       setAffiliateTradingTokenFeePercent("20%"), setMinReferralsToPayout("3"),
       setFeesController("TimelockAdmin"), withdrawFees("XUSD"), withdrawFeesAMM("XUSD", "ConverterXUSD"),
       setSupportedTokens("XUSD", "SOV", "yes"), setSupportedToken("XUSD"),
       deployConversionFeeSharingToWRBTC, deployFeeSharingCollectorProxy,
       setDefaultRebatesPercentage("10%"), setTradingRebateRewardsBasisPoint("9000"),
       WhitelistConverter("ConverterXUSD", "yes"),
       withdrawWRBTCFromFeeSharingCollectorProxy(Wallet, 2), setRolloverFlexFeePercent("0.1%"),
       setRolloverBaseReward("1"), depositCollateral("SOV", 2),
       setDefaultPathConversion("BTC/USD", "path"), removeDefaultPathConversion("BTC/USD"),
       transferProtocolAdminRoleToGovernance, transferProtocolOwnershipToGovernance,
       setPauser(Wallet), setAdmin(Wallet) >>
StoppingProtocols ==
    << deployAffiliate, deployAffiliateWithZeroFeesPercent, deployTradingRebatesUsingLockedSOV >>

Stakings ==
    << sendSOVFromVestingRegistry, vestingRegistryAddAdmin("dora", "VestingRegistry3"),
       vestingRegistryRemoveAdmin("dora", "VestingRegistry3"),
       cancelTeamVestingsOfAccount(<<"vesting 1", "vesting 2">>), addVestingAdmin("dora"),
       removeVestingAdmin("dora"), setMaxVestingWithdrawIterations("20"), createVesting("dora"),
       transferSOVtoVestingRegistry(Registry, 2), upgradeStakingRewards, setAverageBlockTime("30"),
       setBlockForStakingRewards, setHistoricalBlockForStakingRewards("June"),
       setStakingModulesProxy, upgradeStakingModulesProxy, deployStakingModulesProxy,
       addStakingModule("WeightedStakingModule"), removeStakingModule("StakingVestingModule"),
       upgradeVestingRegistry, updateVestingRegAddr, updateAddresses, stakeTokens(2),
       withdrawStakes(2, Operator), pauseOrUnpauseStaking("yes"),
       freezeOrUnfreezeStakingWithdawal("yes"), addStakingPauser("dora"),
       removeStakingPauser(Wallet), transferStakingOwnershipToGovernance,
       transferStakingRewardsOwnershipToGovernance, addVestingRegistryGovernanceAdmin,
       transferVestingRegistryOwnershipToGovernance, stopStakingRewards,
       addVestingCodeHash("VestingLogic"), registerVestingToVestingCreationAndTypes("vesting 1") >>
StoppingStakings ==
    << replaceStakingModule("StakingStakeModule"), pauseOrUnPauseBFStaking,
       governanceDirectWithdrawVesting, updateRolesOnDevelopmentFund,
       withdrawDevFundTokensByUnlockedTokenOwner, withdrawAdoptionFundTokensByUnlockedTokenOwner >>

Swaps ==
    << swapTokens("SOV", "XUSD", 1, TRUE), swapTokens("WRBTC", "XUSD", 1, TRUE),
       swapTokens("SOV", "XUSD", 1, FALSE), swapTokensWithMultisig("SOV", "XUSD", 2, TRUE),
       swapTokensWithMultisig("WRBTC", "XUSD", 2, TRUE), swapTokensWithMultisig("SOV", "XUSD", 2, FALSE),
       addLiquidityWithMS("ConverterXUSD", "XUSD", 2), addLiquidityV1("ConverterSOV", "WRBTC", "SOV", 2),
       addLiquidityV1FromMS("ConverterSOV", "WRBTC", "SOV", 2),
       addLiquidityV1UsingWrapper("ConverterSOV", "SOV", 2),
       addLiquidityV2UsingWrapper("ConverterXUSD", "XUSD", 2),
       removeLiquidityV1toMultisigUsingWrapper("ConverterSOV", "SOV", 2),
       removeLiquidityV2toMultisig("ConverterXUSD", "pool token", "XUSD", 2),
       setOracleOnV1Converter("ConverterSOV", "oracle"), setConversionFee("ConverterSOV", "0.3%"),
       setProtocolFee("20%"), transferOwnershipAMMContractsToGovernance("ConverterSOV", "TimelockOwner"),
       transferAMMOwnershipToGovernance >>

StoppingSwaps == << testV1Converter("ConverterSOV", "WRBTC", "SOV") >>

Ownerships ==
    << LockedSOVAdmin("dora", "yes"), removeExchequerFromLockedSOVAdmin,
       transferLockedSOVOwnershipToGovernance, sendFromMultisig("receiver", 2),
       sendTokensFromMultisig("SOV", "receiver", 2), replaceOwnerOnMultisig("third", "dora"),
       addOwnerToMultisig("dora"), removeOwnerFromMultisig("third"),
       transferOwnershipFromMultisig("XUSD", "TimelockOwner"), transferSOVtoTokenSender(2),
       transferXUSDtoTokenSender(2), transferToTokenSender("DLLR", 2),
       transferSOVtoAccount("receiver", 2) >>

Assets ==
    << buyWRBTC(2), buyWRBTCWithMS(2), transferTokensFromWallet("SOV", "receiver", 2),
       sendToWatcher("WRBTC", 2), tokenApproveFromMS("SOV", "receiver", 2),
       sendMYNTFromMultisigToFeeSharingCollector(2),
       redeemFromAggregator("XUSDAggregatorProxy", "XUSD", "USDT", 2),
       redeemFromAggregatorWithMS("XUSDAggregatorProxy", "XUSD", "USDT", 2),
       redeemBTCWithXUSD(2), mintAggregatedToken("XUSDAggregatorProxy", "XUSD", "USDT", 2),
       mintAggregatedTokenWithMS("XUSDAggregatorProxy", "XUSD", "USDT", 2),
       setWrapperOnLM, setLockedSOV("LockedSOV"), addPoolsToLM(<<"pool token 1", "pool token 2">>),
       addMOCPoolToken, transferSOVtoLM(2), transferLiquidityMiningOwnershipToGovernance,
       upgradeLiquidityMiningLogic, updatePriceFeedToMOCOracle, updateOracleAddress("oracle"),
       setPriceFeed("SOV", "feed"), deployOracleV1Pool("MYNT"), setV1SOVPoolOracleAddress("oracle"),
       transferOracleOwnershipToGovernance, stopBondingCurve, openSellOrder, openBuyOrder,
       withdrawSovFromMyntReserved(2) >>
StoppingAssets == << increaseAllowanceFromMS, setLiquidityMiningAddressOnAllContracts >>

Tasks ==
    << withdrawRBTCFromWatcher(2, "receiver"), withdrawTokensFromWatcher("SOV", 2, "receiver"),
       depositToLockedSOV(2, "receiver"), deployFeeSharingCollector, openTrove(2),
       distributeMissedFees, withdrawRBTCFromFastBTCBiDi(2, "receiver"),
       transferRBTCFromFastBTCOffRampToOnRamp(2), setMaxTransferSatoshi("max"),
       setMinTransferSatoshi("min"), addFastBTCPauser("dora"), removeFastBTCPauser(Wallet),
       addGuard("dora"), revokeAdmin("dora"),
       addFeeStructure("1", "0.2%") \o setCurrentFeeStructure("1"), setNonBech32Prefixes,
       setFeeAndMinPerToken("SOV", "fee"), allowToken("SOV"), sendTokensToETHFromMultisig("SOV", 2),
       sendTokensFromWallet("SOV", 2), sendTokensFromWalletFromSepolia("SOV", 2),
       sendAggregatedTokensFromExchequer("XUSDAggregatorProxy", "XUSD", "USDT", 2),
       sendAggregatedTokensFromWallet("XUSDAggregatorProxy", "XUSD", "USDT", 2),
       setNewContractGuardian(TRUE), setNewContractGuardian(FALSE),
       registerVestings(<<"vesting 1", "vesting 2">>), bootstrappingMYNT(2), replenishWatcher(2),
       setBlockCron >>
Rows == << <<"dora", 2>>, <<"erin", 1>> >>
\* The operator's account as these scripts want it: owner of the contract they set,
\* admin of the registry and the sender, with an approval given before.
OperatorsSlots ==
    Owner(Feeds, Operator) @@ Owner("nft", Operator) @@ Owner(Registry, Operator)
    @@ Owner(Sender, Operator) @@ Owner("RBTCWrapperProxy", Operator) @@ Owner("iXUSD", Operator)
    @@ Owner("FISH", Operator) @@ Slot("ConverterSOV", "newOwner", "") :> Wallet
    @@ Slot("TimelockOwner", "pendingAdmin", "") :> "GovernorOwner"
    @@ Slot("GovernorOwner", "proposal", "1") :> "Succeeded"
    @@ Slot("GovernorAdmin", "proposal", "1") :> "Succeeded"
    @@ Slot("GovernorOwner", "proposal", "2") :> "Queued"
    @@ Slot(FastBTC, "pausers", Wallet) :> "yes"
OperatorsGrants ==
    <<"XUSD", Operator, "ConverterXUSD">> :> 2 @@ <<"SOV", Wallet, "bridge">> :> 2
OperatorsScripts ==
    << updatePriceFeedToRSKOracle, mintNFT("nft", "receiver"), createVestings(Rows),
       sendDirectSOV(Rows), sendDirectXUSD(Rows), GenericTokenSenderAddAdmin("dora"),
       GenericTokenSenderRemoveAdmin("dora"), withdrawFromRBTCWrapperProxy("SOV", "receiver", 2),
       setAdminOnLoanTokenWithWallet("iXUSD", Wallet), transferOwner("FISH", Wallet),
       acceptOwnershipWithMultisig("ConverterSOV"), pauseProtocolModules,
       governorAcceptAdmin("TimelockOwner", "GovernorOwner"), queueProposal("1"),
       queueProposalAdmin("1"), executeProposal("2"), cancelProposal("GovernorAdmin", "1"),
       addLiquidity("ConverterXUSD", "XUSD", 2), pauseBiDiFastBTC, freezeBiDiFastBTC,
       sendTokensFromBridgeETHMultisig("SOV", 2) >>
PausedSlots ==
    Slot(BeaconLM, "paused", "") :> "yes" @@ Slot(BeaconWrbtc, "paused", "") :> "yes"
    @@ Slot(Protocol, "paused", "") :> "yes" @@ Slot(FastBTC, "pausers", Wallet) :> "yes"
    @@ Slot(FastBTC, "paused", "") :> "yes" @@ Slot(FastBTC, "frozen", "") :> "yes"
AfterPause ==
    << unpauseAllLoanTokens, unpauseProtocolModules, unpauseBiDiFastBTC, unfreezeBiDiFastBTC >>
StoppingOperators ==
    << transferSOVtoTokenSender(0), transferSOVtoAccount("", 2), send_DLLR("receiver", 2),
       upgradeAggregator("ETHAggregatorProxy", "logic") >>

\* The proposals need what governance had when they were made: the contracts of the
\* calls belong to the timelock that makes them.
Governed(at, timelock) == Slot(at, "owner", "") :> timelock
BeforeTheSips ==
    Governed("VestingRegistry", "TimelockOwner") @@ Governed("GovernorVaultOwner", "TimelockOwner")
    @@ Governed(Staking, "TimelockOwner") @@ Slot(Staking, "proxyOwner", "") :> "TimelockOwner"
    @@ Slot("AdoptionFund", "unlockedTokenOwner", "") :> "TimelockOwner"
    @@ Slot("DevelopmentFund", "unlockedTokenOwner", "") :> "TimelockOwner"
Sips ==
    << createProposalSIP0005, createProposalSIP0006, createProposalSIP0008, createProposalSIP0014,
       createProposalSIP0015, createProposalSIP0016, createProposalSIP0017, createProposalSIP0018,
       createProposalSIP0019, createProposalSIP0020, createProposalSIP0024, createProposalSIP0030,
       createProposalSIP0035, createProposalSIP0037, createProposalSIP0038, createProposalSIP0039,
       createProposalSIP0031, createProposalSIP0041, createProposalSIP0042, createProposalSIP0043,
       createProposalSIP0044, createProposalSIP0048, createProposalSIP0049, createProposalSIP0050,
       createProposalSIP0056, createProposalSIP0060, createProposalSIP0065,
       createProposalSIP000(NewStakingLogic(ModulesProxy)),
       stakeForVotes(2) >>

\* A pool of the time before the beacons, which the operator still owns.
OldSlots ==
    Owner("iDOC", Operator) @@ Slot("iDOC", "target", "") :> "LoanTokenLogicStandard"
    @@ Owner("PriceFeedsMOC", Operator) @@ Owner("PriceFeeds", Operator)
    @@ Slot("VestingRegistry", "vesting", "dora") :> "created"
OldScripts ==
    << Old!liquidate("XUSD", "loan"), Old!testBorrow("iXUSD", "WRBTC", 2), Old!rollover("loan"),
       Old!replaceLoanClosings, Old!buyWRBTC, Old!deployMultisig,
       Old!updatePriceFeedToMOCOracle, Old!replaceSwapsExternal, Old!redeploySwapsExternal,
       Old!updateContracts, Old!replaceLoanSettings, Old!redeployAfterUpdate,
       Old!addOwnerToMultisig("dora"), Old!createProposalSIP005, Old!createProposalSIP006,
       Old!createProposalSIP008, Old!createProposalSIP0014, Old!createProposalSIP0015,
       Old!createProposalSIP0016, Old!setLendingFee("10%"), Old!setTradingFee("0.15%"),
       Old!setBorrowingFee("0.09%"), Old!setSupportedToken("XUSD"), Old!sendFromMultisigToVesting(2),
       Old!sendFromMultisig("receiver", 2), Old!transferSOVtoOriginInvestorsClaim(2),
       Old!createVesting("erin"), Old!transferSOVtoVestingRegistry(2),
       Old!transferSOVtoVestingRegistry2(2),
       Old!transferSOVtoTokenSender(2), Old!transferSOVtoScriptAccount(2),
       Old!sendSOVFromVestingRegistry >>
OldOperatorsScripts ==
    << Old!transferOwner("iDOC", Wallet), Old!updateOracleAddress("oracle"),
       Old!setTransactionLimitsOld("iDOC", "SOV", "5", "LoanTokenLogicStandard"),
       Old!updatePriceFeedToRSKOracle, Old!stakeTokens2("dora", 2) >>
StoppingOldScripts ==
    << Old!setupLoanTokenRates, Old!lendToPool("iXUSD", "XUSD", 2), Old!removeFromPool,
       Old!testTokenBurning("iXUSD", "XUSD"), Old!testTradeOpeningAndClosing("iXUSD", "SOV", 2),
       Old!testTradeOpeningAndClosingWithCollateral, Old!setupTorqueLoanParams,
       Old!acceptOwnershipWithMultisig("ConverterSOV"), Old!mintEarlyAccessTokens,
       Old!setTransactionLimits, Old!setupMarginLoanParams, Old!swapTokens("SOV", 2),
       Old!addLiquidity("ConverterXUSD", "XUSD", 2), Old!setupLoanParamsForCollaterals,
       Old!setEarlyAccessToken, Old!triggerEmergencyStop, Old!setPauser,
       Old!mintNFT("nft", "receiver"), Old!testV1Converter("ConverterSOV", "WRBTC", "SOV"),
       Old!addLiquidityV1FromMultisigUsingWrapper("ConverterSOV", "SOV", 2),
       Old!removeLiquidityV1toMultisigUsingWrapper("ConverterSOV", "SOV", 2) >>

-----------------------------------------------------------------------------
Deployments ==
    << Deployment!deployTokens(TRUE), Deployment!deployWRBTC, Deployment!deployProtocol(TRUE),
       Deployment!deployMoCMockup, Deployment!deployGovernance(Wallet), Deployment!deployStakingRewards,
       Deployment!deployVestingRegistry3, Deployment!deployUpgradableVestingRegistry,
       Deployment!deployClaim, Deployment!deployGenericTokenSender,
       Deployment!deployLiquidityMining(TRUE), Deployment!addETHPoolToken, Deployment!updateAllPools,
       Deployment!lend, Deployment!deployFourYearVesting, Deployment!addTestETHPoolToken,
       Deployment!addFISHtoken, Deployment!addBRZtoken, Deployment!upgradeLiquidityMiningLogic,
       Deployment!deployLiquidityMiningLogic, Deployment!deployTokenSender,
       Deployment!deployLockedSOV, Deployment!deployVestingCreator,
       Deployment!fixVestingCheckpoints(<<"date 1", "date 2">>),
       Deployment!deployTestClaimIsolated(Rows, Rows), Deployment!deployEthMultisig,
       Deployment!deployPoolFromAccount(2, 2), Deployment!deployESOV >>
StoppingDeployments ==
    << Deployment!deployProtocolAlone, Deployment!deployEverything(TRUE), Deployment!deployAffiliates(FALSE),
       Deployment!deployMultisigAlone, Deployment!deployMultisigKeyHolders, Deployment!deployStakingLogic,
       Deployment!deploySOV(FALSE), Deployment!deploySOVTest(TRUE),
       Deployment!testDeployment("iSUSD", "SUSD", 0), Deployment!addLoanToken("iMYNT", "MYNT"),
       Deployment!add_xusd, Deployment!deployEscrow, Deployment!createOneVesting,
       Deployment!deployTestClaim, Deployment!loadInvestorsCopy, Release!deployToMainnet0921 >>
Releases ==
    << Release!testTradeOpeningAndClosing("iXUSD", "SOV", 2),
       Release!testTradeOpeningAndClosingWithCollateral("iXUSD", "SOV", 2),
       Release!testBorrow("iXUSD", "SOV", 2), Release!testSwapsExternal("SOV", "XUSD", 2) >>
StoppingReleases ==
    << Release!lendToPool("iXUSD", "XUSD", 2), Release!lendToPoolWithMS("iXUSD", "XUSD", 2),
       Release!removeFromPool, Release!testTokenBurning("iXUSD", "XUSD"),
       Release!wrappedIntegrationTest("iXUSD", "XUSD", "SOV") >>
\* What the deployer still owns when these scripts follow the ones above.
DeployersSlots ==
    Owner("sovrynProtocol", Operator) @@ Owner("VestingRegistry", Operator) @@ Owner(Registry, Operator)
    @@ Owner("OriginInvestorsClaim", Operator) @@ Owner("SOV", Operator)
    @@ Owner(Deployment!FourYearFactory, Operator) @@ Slot(Staking, "proxyOwner", "") :> Operator
    @@ Slot("sovrynProtocol", "module", "ProtocolSettings") :> "new"
    @@ Owner(Deployment!Creator, Operator)
    @@ Slot("VestingRegistry2", "admins", Deployment!Creator) :> "yes"
\* The wallet has paid the registry of the claims.
DeployersFunds == <<"SOV", "VestingRegistry2">> :> 3
FollowingDeployments ==
    << Deployment!deployMultisig,
       Deployment!loadInvestors(<<"chunk 1", "chunk 2">>, 3, FALSE), Deployment!completeClaim(0),
       Deployment!handOverClaim, Deployment!deployClaimAndRead,
       Deployment!createVestingMigrations("vesting 1"), Deployment!createFourYearVestings(<< <<"dora", 4>> >>),
       Deployment!addToRegistry("vesting 1"), Deployment!redeployTestClaim(0),
       Deployment!deployVestings(Rows) >>
StoppingFollowing ==
    << Deployment!deployAffiliates(TRUE), Deployment!continueVestings(Rows, Rows),
       Deployment!deployLoanToken("iSUSD", "SUSD", "LoanTokenLogicStandard", TRUE, FALSE) >>

-----------------------------------------------------------------------------
\* Scripts after which nothing is wrong when they were run again from their
\* beginning: the modules, the settings and the roles.
Repeatable ==
    << replaceLoanClosings, deployConversionFeeSharingToWRBTC, replaceLoanTokenLogicOnAllContracts,
       upgradeStakingModulesProxy, transferLoanTokenAdminRoleToGovernance, setNewContractGuardian(TRUE),
       stopBondingCurve, updateAddresses, upgradeLiquidityMiningLogic,
       deployFeeSharingCollectorProxy, transferOracleOwnershipToGovernance,
       Deployment!deployLiquidityMining(FALSE), Deployment!deployStakingRewards >>
Again(script) == [Calm(script) EXCEPT !.reruns = 1]

\* The wallet confirms in any order, by two owners, and tries again what failed.
Loose(scripts) ==
    [scripts |-> scripts, chain |-> FirstChain, cosigners |-> {"cosigner", "third"},
     inOrder |-> FALSE, reruns |-> 0, retries |-> TRUE, stops |-> FALSE, fails |-> {}]
HandOvers ==
    << << setAdminOnLoanToken("iXUSD", Wallet), transferLoanTokenAdminRoleToGovernance >>,
       << setPoolPauser("iXUSD", Wallet), transferLoanTokenOwnershipToGovernance >>,
       << replaceLoanTokenLogicOnAllContracts, transferBeaconOwnershipToGovernance >>,
       << replaceProtocolSettings, setPauser(Wallet), transferProtocolOwnershipToGovernance >>,
       << setAdmin(Wallet), transferProtocolOwnershipToGovernance, transferProtocolAdminRoleToGovernance >>,
       << setWrapperOnLM, transferLiquidityMiningOwnershipToGovernance >>,
       << stopStakingRewards, setAverageBlockTime("30"), transferStakingRewardsOwnershipToGovernance >>,
       << transferVestingRegistryOwnershipToGovernance, addVestingAdmin("dora"), createProposalSIP0024 >> >>
Owners(op, old, new, n) == << Ask("owners", [op |-> op, old |-> old, new |-> new, n |-> n]) >>
\* The owners of the wallet change while calls are pending: owners who come, leave or
\* give way to each other after they confirmed, the operator among them.
OwnersCome ==
    << << sendFromMultisig("receiver", 2), removeOwnerFromMultisig("third"), addOwnerToMultisig("dora"),
          removeOwnerFromMultisig("cosigner") >>,
       << removeOwnerFromMultisig("third"), addOwnerToMultisig("third"), addOwnerToMultisig("dora"),
          sendFromMultisig("receiver", 2) >>,
       << addOwnerToMultisig("dora"), addOwnerToMultisig("erin"), replaceOwnerOnMultisig("third", "erin"),
          sendTokensFromMultisig("SOV", "receiver", 2) >>,
       << Owners("changeRequirement", "none", "none", 3), removeOwnerFromMultisig("third"),
          removeOwnerFromMultisig("cosigner"), sendFromMultisig("receiver", 2) >>,
       << Owners("changeRequirement", "none", "none", 1), addOwnerToMultisig("dora"),
          sendTokensFromMultisig("SOV", "receiver", 12), sendFromMultisig("receiver", 2) >>,
       << Owners("changeRequirement", "none", "none", 1), addOwnerToMultisig("dora"),
          replaceOwnerOnMultisig("dora", "erin"), Owners("changeRequirement", "none", "none", 2),
          removeOwnerFromMultisig("third") >>,
       << Owners("changeRequirement", "none", "none", 4), replaceOwnerOnMultisig("third", "dora"),
          addOwnerToMultisig("dora"), removeOwnerFromMultisig("dora") >>,
       << sendFromMultisig("receiver", 2), removeOwnerFromMultisig(Operator),
          Owners("replaceOwner", "third", "none", 0), transferXUSDtoTokenSender(2), setLendingFee("10%") >> >>
\* The operator takes back what he confirmed, confirms again, and tries again what failed.
SecondThoughts ==
    << << sendFromMultisig("receiver", 2), revokeConfirmationMS(1), sendFromMultisig("receiver", 3),
          confirmWithMS(1), executeOnMultisig(2) >>,
       << addOwnerToMultisig("dora"), sendFromMultisig("receiver", 2), revokeConfirmationMS(1) >>,
       << sendTokensFromMultisig("SOV", "receiver", 12), transferTokensFromWallet("SOV", Wallet, 3),
          executeOnMultisig(1) >>,
       << sendTokensFromMultisig("SOV", "receiver", 12), removeOwnerFromMultisig(Operator),
          revokeConfirmationMS(1) >>,
       << sendFromMultisig("receiver", 2), revokeConfirmationMS(1),
          Old!addOwnerToMultisig("dora"), confirmMultipleTxsWithMS(<<1, 2>>) >>,
       << governorAcceptAdmin("TimelockOwner", "GovernorOwner"), Old!executeOnMultisig(1) >> >>
\* What is paused and unpaused, frozen and unfrozen, in another order than submitted.
OnAndOff ==
    << << pauseOrUnpauseStaking("yes"), pauseOrUnpauseStaking("no"), freezeOrUnfreezeStakingWithdawal("yes"),
          stakeTokens(2) >>,
       << pauseAllLoanTokens, unpauseAllLoanTokens >>,
       << addStakingPauser("dora"), removeStakingPauser("dora"), transferStakingOwnershipToGovernance >> >>
LooseJobs == Each(HandOvers \o OwnersCome \o SecondThoughts \o OnAndOff, Loose)

\* Scripts one after the other, the second of which needs what the wallet did for the first
\* by the time its own transactions are confirmed.
InSequence ==
    << << buyWRBTCWithMS(2), swapTokensWithMultisig("WRBTC", "XUSD", 2, TRUE) >>,
       << addLiquidityV1FromMS("ConverterSOV", "WRBTC", "SOV", 2),
          removeLiquidityV1toMultisigUsingWrapper("ConverterSOV", "SOV", 2) >>,
       << tokenApproveFromMS("SOV", Wrapper, 2),
          addLiquidityV1FromMultisigUsingWrapper("ConverterSOV", "SOV", 2) >>,
       << swapTokensWithMultisig("SOV", "XUSD", 2, FALSE), swapTokensWithMultisig("SOV", "XUSD", 2, TRUE) >>,
       << LockedSOVAdmin("TimelockAdmin", "yes"), removeExchequerFromLockedSOVAdmin >>,
       << pauseAllLoanTokens, unpauseAllLoanTokens, transferLoanTokenOwnershipToGovernance >>,
       << addOwnerToMultisig("dora"), sendFromMultisig("receiver", 2), removeOwnerFromMultisig("third") >>,
       << deployConversionFeeSharingToWRBTC, replaceProtocolSettings, setFeesController("TimelockAdmin"),
          transferProtocolOwnershipToGovernance >>,
       << deployFeeSharingCollectorProxy, updateAddresses, transferStakingOwnershipToGovernance >>,
       << updateAddresses, createProposalSIP0024, transferVestingRegistryOwnershipToGovernance >>,
       << Release!governanceTransferStep1, Release!guardiansTransfer(TRUE),
          Release!governanceTransferStep2 >> >>
Sequenced(scripts) == [Calm(<< >>) EXCEPT !.scripts = scripts]

\* The calls that the contracts refuse, or refuse in one of the orders: one that
\* nobody approved; RBTC that nobody asked for; an admin that removed itself before it
\* named another; and a swap whose script found the allowance of an earlier one,
\* approved and not yet spent.
Refused ==
    << Failing(1, addLiquidityV1FromMultisigUsingWrapper("ConverterSOV", "SOV", 2)),
       Failing(2, Old!testBorrow("iXUSD", "SOV", 2)),
       [Sequenced(<< removeExchequerFromLockedSOVAdmin, transferLockedSOVOwnershipToGovernance >>)
           EXCEPT !.fails = {<<2, 1>>}],
       [Sequenced(<< swapTokensWithMultisig("SOV", "XUSD", 2, TRUE),
                     swapTokensWithMultisig("SOV", "XUSD", 2, TRUE) >>)
           EXCEPT !.fails = {<<2, 2>>}] >>

Catalogue ==
    Each(Lending, Calm) \o Each(StoppingLending, Stopping) \o Each(Protocols, Calm)
    \o Each(StoppingProtocols, Stopping) \o Each(Stakings, Calm) \o Each(StoppingStakings, Stopping)
    \o Each(Swaps, Calm) \o Each(Ownerships, Calm) \o Each(Assets, Calm)
    \o Each(StoppingSwaps \o StoppingOperators, Stopping)
    \o Each(OperatorsScripts, LAMBDA script :
                [From(OperatorsSlots, Calm(script)) EXCEPT !.chain.grants = OperatorsGrants])
    \o Each(AfterPause, LAMBDA script : From(PausedSlots, Calm(script)))
    \o Each(StoppingAssets, Stopping) \o Each(Tasks, Calm)
    \o Each(Sips, LAMBDA script : From(BeforeTheSips, Calm(script)))
    \o Each(OldScripts, Calm)
    \o Each(OldOperatorsScripts, LAMBDA script : From(OldSlots, Calm(script)))
    \o Each(StoppingOldScripts, Stopping)
    \o Each(Deployments, Calm) \o Each(StoppingDeployments, Stopping)
    \o Each(FollowingDeployments, LAMBDA script :
                [From(DeployersSlots, Calm(script)) EXCEPT !.chain.funds = DeployersFunds])
    \o Each(StoppingFollowing, LAMBDA script : From(DeployersSlots, Stopping(script)))
    \o Each(Releases, Calm) \o Each(StoppingReleases, Stopping)
    \o Each(Repeatable, Again)
    \o << From(OldSlots, Again(Old!setTransactionLimitsOld("iDOC", "SOV", "5", "LoanTokenLogicStandard"))) >>
    \o Each(InSequence, Sequenced) \o Refused \o LooseJobs
=============================================================================
