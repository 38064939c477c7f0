---------------------------- MODULE AssetScripts ----------------------------
(***************************************************************************)
(* scripts/contractInteraction/token.py, aggregator.py, liquidity_mining.py*)
(* prices.py, bondingcurve.py and mynt.py: tokens, aggregated tokens,      *)
(* liquidity mining, price feeds and the MYNT bonding curve.               *)
(***************************************************************************)
EXTENDS GovernanceScripts

buyWRBTC(amount) == << Do(deposit(Operator, amount)) >>
\* Passes the contract object where an address goes; the call is the same.
buyWRBTCWithMS(amount) == << Queue(deposit(Wallet, amount)) >>
mintNFT(nft, receiver) == << Do(Minting(Call(nft, Owned), nft, receiver, 1)) >>
transferTokensFromWallet(token, receiver, amount) ==
    << Do(Transfer(token, Operator, receiver, amount)) >>
sendToWatcher(token, amount) ==
    (IF token = "WRBTC" THEN buyWRBTC(amount) ELSE << >>)
    \o transferTokensFromWallet(token, "WatcherContract", amount)
tokenApproveFromMS(token, receiver, amount) == << Queue(Approve(token, Wallet, receiver, amount)) >>
\* Encodes increaseAllowance, which TestToken does not have.
increaseAllowanceFromMS == << Raise >>
\* feeSharing.transferTokens pulls from the caller.
transferToCollector(token, amount) ==
    Pulling(Call(Collector, {"anyone"}), token, Wallet, Collector, amount)
\* Too small a balance is only reported.
sendMYNTFromMultisigToFeeSharingCollector(amount) ==
    << If(Short("MYNT", Wallet, Collector, amount),
          Queue(Approve("MYNT", Wallet, Collector, amount))),
       Queue(transferToCollector("MYNT", amount)) >>

-----------------------------------------------------------------------------
\* The aggregator holds the assets that back the token it mints.
redeem(aggregator, mAsset, token, from, to, amount) ==
    Burning(Moving(Call(aggregator, {"anyone"}), token, aggregator, to, amount),
            mAsset, from, amount)
redeemFromAggregator(aggregator, mAsset, token, amount) ==
    << Do(redeem(aggregator, mAsset, token, Operator, Operator, amount)) >>
redeemFromAggregatorWithMsTo(aggregator, mAsset, token, amount, to) ==
    << Queue(redeem(aggregator, mAsset, token, Wallet, to, amount)) >>
redeemFromAggregatorWithMS(aggregator, mAsset, token, amount) ==
    redeemFromAggregatorWithMsTo(aggregator, mAsset, token, amount, Wallet)
redeemFreeDocWithMS(amount) ==
    << Queue([Pulling(Call("MoneyOnChain", {"anyone"}), "DoC", Wallet, "MoneyOnChain", amount)
                 EXCEPT !.credits = (<<"RBTC", Wallet>> :> amount) @@ @]) >>
redeemBTCWithXUSD(amount) ==
    redeemFromAggregatorWithMS("XUSDAggregatorProxy", "XUSD", "DoC", amount)
    \o tokenApproveFromMS("DoC", "MoneyOnChain", amount) \o redeemFreeDocWithMS(amount)
mintAggregated(aggregator, mAsset, token, from, amount) ==
    Minting(Pulling(Call(aggregator, {"anyone"}), token, from, aggregator, amount),
            mAsset, from, amount)
mintAggregatedToken(aggregator, mAsset, token, amount) ==
    << Do(Approve(token, Operator, aggregator, amount)),
       Do(mintAggregated(aggregator, mAsset, token, Operator, amount)) >>
mintAggregatedTokenWithMS(aggregator, mAsset, token, amount) ==
    << If(Short(token, Wallet, aggregator, amount), Queue(Approve(token, Wallet, aggregator, amount))),
       Queue(mintAggregated(aggregator, mAsset, token, Wallet, amount)) >>
\* Reads an ABI that is not there; it would upgrade with a transaction of its own
\* and submit the receipt as call data.
upgradeAggregator(aggregator, logic) == << Raise, Do(SetImplementation(aggregator, logic)), Raise >>

-----------------------------------------------------------------------------
Mining == "LiquidityMiningProxy"
MiningSets(key, item, value) == Set(Mining, key, item, value, OwnerOrAdmins)
\* Encodes a setter that LoanTokenLogicLM does not have at this commit.
setLiquidityMiningAddress == << Raise >>
setLiquidityMiningAddressOnAllContracts ==
    ForEach(Pools, LAMBDA pool : setLiquidityMiningAddress)
setWrapperOnLM == << Queue(MiningSets("wrapper", "", Wrapper)) >>
setLockedSOV(locked) == << Queue(MiningSets("lockedSOV", "", locked)) >>
add(poolToken) == Needing(MiningSets("pool", poolToken, "listed"),
                          {IsNot(Mining, "pool", poolToken, "listed")})
addAmmPoolTokenToLM(poolToken) == << Queue(add(poolToken)) >>
addPoolsToLM(poolTokens) ==
    ForEach(poolTokens, addAmmPoolTokenToLM)
    \o << Queue(Set(Mining, "updated", "", "yes", {"anyone"})) >>
addMOCPoolToken ==
    addAmmPoolTokenToLM("(WR)BTC/MOC")
    \o << Queue(MiningSets("points", "LiquidityMiningConfigToken", "remaining")) >>
transferSOVtoLM(amount) == << Queue(Transfer("SOV", Wallet, Mining, amount)) >>
transferLiquidityMiningOwnershipToGovernance == << Queue(TransferOwnership(Mining, "TimelockOwner")) >>
upgradeLiquidityMiningLogic ==
    << Deploy("LiquidityMining"), Queue(SetImplementation(Mining, "LiquidityMining")) >>

-----------------------------------------------------------------------------
Feeds == "PriceFeeds"
setFeed(token, feed) == OwnerSets(Feeds, token, feed)
\* Sets the feed itself, where the other one goes through the multisig.
updatePriceFeedToRSKOracle ==
    << Deploy("new RSK feed"), Do(setFeed("WRBTC", "new RSK feed")) >>
updatePriceFeedToMOCOracle == << Deploy("new MoC feed"), Queue(setFeed("WRBTC", "new MoC feed")) >>
updateOracleAddressAt(feed, oracle) == << Queue(OwnerSets(feed, "mocOracle", oracle)) >>
updateOracleAddress(oracle) == updateOracleAddressAt("PriceFeedsMOC", oracle)
setPriceFeed(token, feed) == << Queue(setFeed(token, feed)) >>
deployOracleV1Pool(token) ==
    << Deploy("new pool feed"), Queue(setFeed(token, "new pool feed")) >>
setV1SOVPoolOracleAddress(oracle) ==
    << Queue(OwnerSets("SOVPriceFeedOnProtocol", "v1PoolOracle", oracle)) >>
transferOracleOwnershipToGovernance ==
    ForEach(<<Feeds, "BProPriceFeeds", "PriceFeedsMOC", "PriceFeedRSKOracle",
              "MOCPriceFeedsV1Pool", "SOVPriceFeeds", "ETHsPriceFeeds", "BNBsPriceFeeds",
              "FISHPriceFeeds", "RIFPriceFeeds", "MYNTPriceFeeds">>,
            LAMBDA feed : << Queue(TransferOwnership(feed, "TimelockAdmin")) >>)

-----------------------------------------------------------------------------
\* Aragon's ACL: the manager of a permission revokes it.
RevokeAnyone(permission) == Set("ACL", permission, "anyone", "revoked", Owned)
stopBondingCurve ==
    << Queue(RevokeAnyone("openSellOrder")), Queue(RevokeAnyone("openBuyOrder")) >>
Order(kind) == Needing(Set("MyntController", kind, Operator, "open", {"anyone"}),
                       {IsNot("ACL", kind, "anyone", "revoked")})
openSellOrder == << Do(Order("openSellOrder")) >>
openBuyOrder == << Do(Order("openBuyOrder")) >>
withdrawSovFromMyntReserved(amount) ==
    << Queue(Moving(Call("MyntTreasury", Owned), "SOV", "MyntTreasury",
                    "MyntFixedRateConverter", amount)) >>
=============================================================================
