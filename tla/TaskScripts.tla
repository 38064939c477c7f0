----------------------------- MODULE TaskScripts -----------------------------
(***************************************************************************)
(* scripts/contractInteraction/misc.py, fastbtc.py, bridge-multisig/ and   *)
(* tasks/: the bridges, the fee collector, the guardian, the hand-over of  *)
(* the AMM and the distribution of tokens from a list.                     *)
(***************************************************************************)
EXTENDS AssetScripts

\* A call of the multisig's owner-only function that pays a recipient.
Paying(at, token, to, amount) == << Queue(Moving(Call(at, Owned), token, at, to, amount)) >>
withdrawRBTCFromWatcher(amount, to) == Paying("Watcher", "RBTC", to, amount)
withdrawTokensFromWatcher(token, amount, to) == Paying("Watcher", token, to, amount)
\* The deposit is only accepted by the contract; anyone may make it.
depositToLockedSOV(amount, recipient) ==
    << Queue(Approve("SOV", Wallet, "LockedSOV", amount)),
       Queue(Pulling(Set("LockedSOV", "locked", recipient, "yes", {"anyone"}),
                     "SOV", Wallet, "LockedSOV", amount)) >>
deployFeeSharingCollector ==
    << Deploy("FeeSharingCollector"), Queue(SetImplementation(Collector, "FeeSharingCollector")) >>
openTrove(amount) ==
    << Do(Minting(Moving(Call("borrowerOperations", {"anyone"}), "RBTC", Operator,
                         "borrowerOperations", amount), "ZUSD", Operator, amount)) >>
transferTokens(token, amount) ==
    << Queue(Approve(token, Wallet, Collector, amount)), Queue(transferToCollector(token, amount)) >>
distributeMissedFees ==
    transferTokens("SOV", 1) \o transferTokens("ZUSD", 1)
    \o << Queue(Transfer("RBTC", Wallet, Collector, 1)) >>

-----------------------------------------------------------------------------
FastBTC == "FastBTCBiDi"
withdrawRBTCFromFastBTCBiDi(amount, to) == Paying(FastBTC, "RBTC", to, amount)
transferRBTCFromFastBTCOffRampToOnRamp(amount) == Paying(FastBTC, "RBTC", "FastBTC", amount)
FastBTCSets(key, item, value) == << Queue(Set(FastBTC, key, item, value, Owned)) >>
setMaxTransferSatoshi(limit) == FastBTCSets("maxTransfer", "", limit)
setMinTransferSatoshi(limit) == FastBTCSets("minTransfer", "", limit)
addFastBTCPauser(account) == FastBTCSets("pausers", account, "yes")
removeFastBTCPauser(account) == FastBTCSets("pausers", account, "no")
addGuard(account) == FastBTCSets("guards", account, "yes")
revokeAdmin(account) == FastBTCSets("admins", account, "no")
addFeeStructure(index, fee) == FastBTCSets("feeStructure", index, fee)
setCurrentFeeStructure(index) ==
    << Queue(Needing(Set(FastBTC, "currentFeeStructure", "", index, Owned),
                     {IsNot(FastBTC, "feeStructure", index, "none")})) >>
setNonBech32Prefixes == << Queue(OwnerSets("BTCAddressValidator", "prefixes", "1, 3")) >>
\* Pausers pause and freeze; what is so already reverts.
FastBTCIs(key, to) == Needing(Set(FastBTC, key, "", to, {"pausers"}), {IsNot(FastBTC, key, "", to)})
pauseBiDiFastBTC == << Queue(FastBTCIs("paused", "yes")) >>
unpauseBiDiFastBTC == << Queue(FastBTCIs("paused", "no")) >>
freezeBiDiFastBTC == << Queue(FastBTCIs("frozen", "yes")) >>
unfreezeBiDiFastBTC == << Queue(FastBTCIs("frozen", "no")) >>
\* On the mainnet the pauser of staking is changed by a proposal.
setNewContractGuardian(testnet) ==
    ForEach(Pools, LAMBDA pool : setPoolPauser(pool, "ContractsGuardian"))
    \o ForEach(<<BeaconLM, BeaconWrbtc, Protocol>>, LAMBDA at :
               << Queue(Set(at, "pauser", "", "ContractsGuardian", Owned)) >>)
    \o (IF testnet THEN addStakingPauser("ContractsGuardian") \o removeStakingPauser(Wallet)
        ELSE << >>)
    \o addFastBTCPauser("ContractsGuardian") \o removeFastBTCPauser(Wallet)

-----------------------------------------------------------------------------
\* The bridge has a multisig of its own, which the operator owns as well.
setFeeAndMinPerToken(token, fee) == << Queue(OwnerSets("AllowTokens", token, fee)) >>
allowToken(token) == << Queue(OwnerSets("AllowTokens", token, "allowed")) >>
receiveTokensAt(token, from, amount) == Pulling(Call("bridge", {"anyone"}), token, from, "bridge", amount)
sendTokensToETHFromMultisig(token, amount) ==
    << Queue(Approve(token, Wallet, "bridge", amount)),
       Queue(receiveTokensAt(token, Wallet, amount)) >>
sendTokensFromWallet(token, amount) ==
    << Do(Approve(token, Operator, "bridge", amount)), Do(receiveTokensAt(token, Operator, amount)) >>
sendTokensFromWalletFromSepolia(token, amount) == sendTokensFromWallet(token, amount)
\* Nothing is approved here: the multisig has approved the bridge before.
sendTokensFromBridgeETHMultisig(token, amount) == << Queue(receiveTokensAt(token, Wallet, amount)) >>
redeemToBridge(aggregator, mAsset, token, from, amount) ==
    redeem(aggregator, mAsset, token, from, "bridge", amount)
sendAggregatedTokensFromExchequer(aggregator, mAsset, token, amount) ==
    << Queue(redeemToBridge(aggregator, mAsset, token, Wallet, amount)) >>
sendAggregatedTokensFromWallet(aggregator, mAsset, token, amount) ==
    << Do(redeemToBridge(aggregator, mAsset, token, Operator, amount)) >>

-----------------------------------------------------------------------------
(* tasks/                                                                   *)

transferAMMOwnership(contracts, to) ==
    ForEach(contracts, LAMBDA at : transferOwnershipAMMContractsToGovernance(at, to))
transferAMMOwnershipToGovernance ==
    transferAMMOwnership(<<Network, "SwapSettings">>, "TimelockAdmin")
    \o transferAMMOwnership(
           <<"ConverterDOC", "ConverterUSDT", "ConverterBPRO", "ConverterBNBs", "ConverterMOC",
             "ConverterXUSD", "ConverterSOV", "ConverterETHs", "ConverterFISH", "ConverterMYNT",
             "ConverterRIF">>, "TimelockOwner")
    \o transferAMMOwnership(
           <<"BProOracle", "MOCPoolOracle", "SOVPoolOracle", "ETHPoolOracle", "BNBPoolOracle",
             "XUSDPoolOracle", "FishPoolOracle", "RIFPoolOracle", "MYNTPoolOracle">>,
           "TimelockAdmin")
    \o transferAMMOwnership(<<"ContractRegistry", "ConverterFactory">>, "TimelockOwner")
    \o transferAMMOwnership(
           <<"ConversionPathFinder", "ConverterUpgrader", "ConverterRegistryData",
             "OracleWhitelist", Wrapper>>, "TimelockAdmin")
\* Chunks of the listed vestings that the registry already knows.
registerVestings(vestings) ==
    ForEach(vestings, LAMBDA vesting :
        << If(IsNot(Registry, "isVesting", vesting, "no"),
              registerVestingToVestingCreationAndTypes(vesting)[1]) >>)
\* Amount and receiver are commented out, so nothing of it runs.
send_DLLR(receiver, amount) ==
    << Raise >> \o redeemFromAggregatorWithMS("XUSDAggregatorProxy", "XUSD", "DLLR", amount)
    \o sendTokensFromMultisig("DLLR", receiver, amount)
bootstrappingMYNT(amount) == sendMYNTFromMultisigToFeeSharingCollector(amount)
replenishWatcher(amount) == sendTokensFromMultisig("XUSD", "Watcher", amount)
\* setBlock for the current interval, unless it is set.
setBlockCron == << If(IsNot(Rewards, "block", "current", "set"), setBlockForStakingRewards[1]) >>

-----------------------------------------------------------------------------
(* Lists: a sequence of <<receiver, amount>> rows.                          *)

Sender == "GenericTokenSender"
GenericTokenSenderAddAdmin(admin) == << Do(Set(Sender, "admins", admin, "yes", Owned)) >>
GenericTokenSenderRemoveAdmin(admin) == << Do(Set(Sender, "admins", admin, "no", Owned)) >>
Total(list) == FoldSeq(LAMBDA row, sum : row[2] + sum, 0, list)
Credits(token, list) ==
    [account \in {<<token, list[i][1]>> : i \in DOMAIN list} |->
        Total(SelectSeq(list, LAMBDA row : row[1] = account[2]))]
\* transferTokensUsingList pays every row or none.
transferTokensUsingList(token, list) ==
    [Call(Sender, OwnerOrAdmins) EXCEPT !.debits = <<token, Sender>> :> Total(list),
                                        !.credits = Credits(token, list)]
sendDirect(token, list) == << Do(transferTokensUsingList(token, list)) >>
sendDirectSOV(list) == sendDirect("SOV", list)
sendDirectXUSD(list) == sendDirect("XUSD", list)
VestingOf(receiver) == "vesting of " \o receiver
\* One row after the other: the vesting is created unless it exists, and staked for.
createVestings(list) ==
    ForEach(list, LAMBDA row :
        << Do(Set(Registry, "vesting", row[1], "created", OwnerOrAdmins)),
           If(Short("SOV", Operator, VestingOf(row[1]), row[2]),
              Do(Approve("SOV", Operator, VestingOf(row[1]), row[2]))),
           Do([Pulling(Set(Staking, "stake", VestingOf(row[1]), "staked", {"anyone"}),
                       "SOV", Operator, VestingOf(row[1]), row[2])
                  EXCEPT !.credits = <<"SOV", Staking>> :> row[2]]) >>)
=============================================================================
