--------------------------- MODULE ProtocolScripts ---------------------------
(***************************************************************************)
(* scripts/contractInteraction/protocol.py: the modules of the lending     *)
(* protocol, its settings, fees and pause, and its hand-over.              *)
(***************************************************************************)
EXTENDS LoanTokenScripts

Protocol == "sovrynProtocol"
Collector == "FeeSharingCollectorProxy"

\* Modules are registered by the protocol's owner, paused or not; the settings
\* are for owner and admin (role in AdminOrOwner) and closed while paused.
replaceContract(module) == Set(Protocol, "module", module, "new", Owned)
Unpaused == {IsNot(Protocol, "paused", "", "yes")}
Setting(key, item, value) == Needing(Set(Protocol, key, item, value, OwnerOrAdmin), Unpaused)

liquidate(token, loan) ==
    << If(IsNot(Protocol, "loan", loan, "healthy"), Do(Approve(token, Operator, Protocol, 1))),
       If(IsNot(Protocol, "loan", loan, "healthy"),
          Do(Needing(Pulling(Set(Protocol, "loan", loan, "healthy", {"anyone"}),
                             token, Operator, Protocol, 1), Unpaused))) >>
rollover(loan) == << Do(Needing(Set(Protocol, "loan", loan, "rolled over", {"anyone"}), Unpaused)) >>

ReplaceModule(module) == << Deploy(module), Queue(replaceContract(module)) >>
replaceLoanClosings ==
    ReplaceModule("LoanClosingsLiquidation") \o ReplaceModule("LoanClosingsRollover")
    \o ReplaceModule("LoanClosingsWith")
replaceSwapsExternal == ReplaceModule("SwapsExternal")
replaceLoanOpenings == ReplaceModule("LoanOpenings")
replaceLoanSettings == ReplaceModule("LoanSettings")
replaceProtocolSettings == ReplaceModule("ProtocolSettings")
replaceAffiliates == ReplaceModule("Affiliates")
replaceLoanMaintenance == ReplaceModule("LoanMaintenance")
redeploySwapsExternal == ReplaceModule("SwapsExternal")
replaceSwapsImplSovrynSwap ==
    << Deploy("SwapsImplSovrynSwap"), Queue(Setting("swapsImpl", "", "SwapsImplSovrynSwap")) >>

QueueSetting(key, value) == << Queue(Setting(key, "", value)) >>
setLendingFee(fee) == QueueSetting("lendingFeePercent", fee)
setTradingFee(fee) == QueueSetting("tradingFeePercent", fee)
setBorrowingFee(fee) == QueueSetting("borrowingFeePercent", fee)
setSwapExternalFee(fee) == QueueSetting("swapExternalFeePercent", fee)
setAffiliateFeePercent(fee) == QueueSetting("affiliateFeePercent", fee)
setAffiliateTradingTokenFeePercent(fee) == QueueSetting("affiliateTradingTokenFeePercent", fee)
setMinReferralsToPayout(count) == QueueSetting("minReferralsToPayout", count)

AffiliatesDeployed ==
    replaceAffiliates
    \o QueueSetting("protocolAddress", Protocol) \o QueueSetting("sovTokenAddress", "SOV")
    \o QueueSetting("lockedSOVAddress", "LockedSOV")
AffiliateFees(tradingTokenFee, fee) ==
    setMinReferralsToPayout("3")
    \o setAffiliateTradingTokenFeePercent(tradingTokenFee) \o setAffiliateFeePercent(fee)
ModulesThatPayAffiliates ==
    replaceLoanClosings \o replaceLoanOpenings \o replaceLoanMaintenance
    \o redeploySwapsExternal \o replaceLoanSettings
\* Prints a name it never binds, after four of its fifteen transactions.
deployAffiliate ==
    AffiliatesDeployed \o << Raise >>
    \o AffiliateFees("20%", "5%") \o ModulesThatPayAffiliates \o replaceLoanTokenLogicOnAllContracts
\* Its last step is a function of loan_tokens.py that this file does not import.
deployAffiliateWithZeroFeesPercent ==
    AffiliatesDeployed \o AffiliateFees("0%", "0%") \o ModulesThatPayAffiliates \o << Raise >>

setFeesController(controller) == QueueSetting("feesController", controller)
\* The collector may withdraw while it is the fees controller.
withdrawFees(token) ==
    << Do(Needing(Moving(Call(Collector, {"anyone"}), token, Protocol, Collector, 1),
                  Unpaused \cup {IsNot(Protocol, "feesController", "", "other")})) >>
withdrawFeesAMM(token, converter) ==
    << Do(Needing(Moving(Call(Collector, {"anyone"}), token, converter, Collector, 1),
                  {IsNot(Collector, "whitelisted", converter, "no")})) >>
setSupportedTokens(a, b, supported) ==
    << Queue(Writing(Setting("supported", a, supported), Protocol, "supported", b, supported)) >>
setSupportedToken(token) == setSupportedTokens(token, token, "yes")

SetImplementation(proxy, logic) == Set(proxy, "implementation", "", logic, {"proxyOwner"})
deployConversionFeeSharingToWRBTC ==
    << Deploy("FeeSharingCollector"),
       Queue(SetImplementation(Collector, "FeeSharingCollector")) >>
    \o replaceProtocolSettings \o redeploySwapsExternal \o setFeesController(Collector)

\* The constructor of a proxy makes the deployer its proxy owner too.
DeployProxy(proxy) == Do(Writing(New(proxy), proxy, "proxyOwner", "", Operator))
SetProxyOwner(proxy, to) == Set(proxy, "proxyOwner", "", to, {"proxyOwner"})
deployFeeSharingCollectorProxy ==
    << DeployProxy(Collector), Do(SetProxyOwner(Collector, Wallet)),
       Do(TransferOwnership(Collector, Wallet)) >>

setDefaultRebatesPercentage(percent) == QueueSetting("rebatePercent", percent)
setTradingRebateRewardsBasisPoint(points) == QueueSetting("rebateRewardsBasisPoint", points)
\* Its first statement names two variables of another module: contracts and acct.
deployTradingRebatesUsingLockedSOV ==
    << Raise >> \o setDefaultRebatesPercentage("10%") \o ModulesThatPayAffiliates
    \o setTradingRebateRewardsBasisPoint("9000")

Toggle(from, to) ==
    Needing(Set(Protocol, "paused", "", to, OwnerOrPauser), {Is(Protocol, "paused", "", from)})
pauseProtocolModules == << Queue(Toggle("no", "yes")) >>
unpauseProtocolModules == << Queue(Toggle("yes", "no")) >>

WhitelistConverter(converter, value) ==
    << Queue(Set(Collector, "whitelisted", converter, value, Owned)) >>
withdrawWRBTCFromFeeSharingCollectorProxy(receiver, amount) ==
    << Queue(Moving(Call(Collector, Owned), "WRBTC", Collector, receiver, amount)) >>
setRolloverFlexFeePercent(percent) == QueueSetting("rolloverFlexFeePercent", percent)
setRolloverBaseReward(reward) == QueueSetting("rolloverBaseReward", reward)
depositCollateral(token, amount) ==
    << If(Short(token, Operator, Protocol, amount), Do(Approve(token, Operator, Protocol, amount))),
       Do(Needing(Pulling(Call(Protocol, {"anyone"}), token, Operator, Protocol, amount), Unpaused)) >>
setDefaultPathConversion(pair, path) == << Queue(Setting("defaultPath", pair, path)) >>
removeDefaultPathConversion(pair) ==
    << Queue(Needing(Setting("defaultPath", pair, "none"),
                     {IsNot(Protocol, "defaultPath", pair, "none")})) >>

RoleOfProtocol(role, to) == << Queue(Set(Protocol, role, "", to, Owned)) >>
transferProtocolAdminRoleToGovernance == RoleOfProtocol("admin", "TimelockAdmin")
transferProtocolOwnershipToGovernance == RoleOfProtocol("owner", "TimelockOwner")
setPauser(pauser) == RoleOfProtocol("pauser", pauser)
setAdmin(admin) == RoleOfProtocol("admin", admin)
=============================================================================
