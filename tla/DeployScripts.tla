---------------------------- MODULE DeployScripts ----------------------------
(***************************************************************************)
(* scripts/deployment/, scripts/fouryearvesting/ and                       *)
(* scripts/addLoanToken/: the deployment of the protocol, the pools, the   *)
(* governance, the vesting registries and the claims, by the operator's    *)
(* account, which hands over at the end or does not.                       *)
(***************************************************************************)
EXTENDS ScriptSteps

Now == INSTANCE SipScripts
Protocol == "sovrynProtocol"

\* A module of the protocol, deployed and registered by the protocol's owner.
Module(name) == << Deploy(name), Do(Now!replaceContract(name)) >>
\* The setters of the protocol are functions of the module ProtocolSettings.
Setting(key, value) ==
    << Do(Needing(Now!Setting(key, "", value),
                  {IsNot(Protocol, "module", "ProtocolSettings", "none")})) >>
\* The constructor of a token gives its first supply to the deployer.
DeployToken(token, supply) == << Do(Minting(New(token), token, Operator, supply)) >>
DeployProxy(proxy, logic) ==
    << Deploy(logic), Do(Writing(New(proxy), proxy, "proxyOwner", "", Operator)),
       Do(Now!SetImplementation(proxy, logic)) >>
HandOver(at, to) == << Do(TransferOwnership(at, to)) >>
HandOverProxy(proxy, to) == << Do(Now!SetProxyOwner(proxy, to)) >>
AddAdmin(at, admin) == << Do(Set(at, "admins", admin, "yes", Owned)) >>

-----------------------------------------------------------------------------
deployTokens(development) ==
    DeployToken("SUSD", 3) \o << Deploy("WRBTC") >>
    \o (IF development THEN << Do(Now!deposit(Operator, 1)),
                               Do(Minting(Call("SUSD", Owned), "SUSD", Operator, 1)) >>
        ELSE << >>)
deployWRBTC == << Deploy("WRBTC"), Do(Now!deposit(Operator, 1)) >>
deployProtocol(development) ==
    << Deploy(Protocol), Deploy("PriceFeedsMoC"), Deploy("PriceFeeds"),
       Do(OwnerSets("PriceFeeds", "WRBTC", "PriceFeedsMoC")) >>
    \o Module("ProtocolSettings") \o Setting("sovTokenAddress", "SOV")
    \o << Deploy("SwapsImplSovrynSwap") >>
    \o (IF development THEN << Deploy("TestSovrynSwap") >>
                            \o Setting("contractRegistry", "TestSovrynSwap")
        ELSE << >>)
    \o Setting("supported", "SUSD, WRBTC") \o Setting("priceFeeds", "PriceFeeds")
    \o Setting("swapsImpl", "SwapsImplSovrynSwap") \o Setting("feesController", Operator)
    \o Setting("wrbtcToken", "WRBTC") \o Setting("protocolTokenAddress", Protocol)
    \o Setting("protocolAddress", Protocol)
    \o Module("LoanSettings") \o Module("LoanOpenings") \o Module("LoanMaintenance")
    \o << Deploy("LoanClosingsLiquidation"), Deploy("LoanClosingsRollover"),
          Do(Now!replaceContract("LoanClosingsLiquidation")),
          Do(Now!replaceContract("LoanClosingsRollover")) >>
    \o Module("LoanClosingsWith") \o Module("Affiliates")
\* main() calls deployProtocol with one of the four arguments it takes.
deployProtocolAlone == << Raise >>

\* The pool is known to the protocol before its parameters are set up, through an
\* interface that has no setupLoanParams at this commit.
deployLoanToken(pool, token, logic, redeployed, multisig) ==
    (IF redeployed THEN << Deploy(logic) >> ELSE << >>)
    \o << Deploy(pool), Do(Writing(OwnerSets(pool, "asset", token), pool, "target", "", logic)),
          If(Is(Protocol, "owner", "", Operator),
             Do(Needing(Set(Protocol, "pool", pool, token, {"owner", "admin"}),
                        {IsNot(Protocol, "module", "ProtocolSettings", "none"),
                         IsNot(Protocol, "paused", "", "yes")}))),
          If(IsNot(Protocol, "owner", "", Operator),
             IF multisig THEN Queue(Now!Setting("pool", pool, token)) ELSE Raise),
          Raise >>
setupLoanTokenRates == << Raise >>
deployLoanTokens == deployLoanToken("iSUSD", "SUSD", "LoanTokenLogicStandard", TRUE, FALSE)
\* marginTrade gets seven of the eight arguments it takes.
testDeployment(pool, token, value) ==
    (IF value = 0 THEN << Do(Approve(token, Operator, pool, 1)) >> ELSE << >>) \o << Raise >>

Mockup(at) == << Deploy(at), Do(Set(at, "value", "", "set", {"anyone"})) >>
deployMoCMockup == Mockup("PriceFeedsMoCMockup")
deployRSKMockup == Mockup("PriceFeedRSKOracleMockup")
deployBProPriceFeedMockup == Mockup("BProPriceFeedMockup")
deployEverything(development) ==
    deployTokens(development) \o DeployToken("SOV", 3)
    \o deployMoCMockup \o deployRSKMockup \o deployBProPriceFeedMockup
    \o deployProtocol(development)
    \o << Deploy("LockedSOVMockup") >> \o Setting("lockedSOVAddress", "LockedSOVMockup")
    \o deployLoanTokens
\* Affiliates of a development chain; elsewhere the script stops for a wrong key.
deployAffiliates(development) ==
    IF ~development THEN << Raise >>
    ELSE Module("Affiliates") \o Setting("sovTokenAddress", "SOV")
         \o Setting("lockedSOVAddress", "LockedSOVMockup") \o deployLoanTokens

-----------------------------------------------------------------------------
deployMultisig == << Deploy("new multisig") >> \o HandOver(Protocol, "new multisig")
\* main() reads the protocol's address under a key the file does not have.
deployMultisigAlone == << Raise >>
deployMultisigKeyHolders == << Raise >>
\* The timelock's admin is the deployer until the call that is queued here offers the
\* timelock to its governor, which the guardian accepts.
DeployTimelock(timelock, governor, guardian) ==
    << Do(Writing(New(timelock), timelock, "admin", "", Operator)),
       Do(Writing(New(governor), governor, "guardian", "", guardian)),
       Do(Set(timelock, "queued", "setPendingAdmin", governor, {"admin"})) >>
deployGovernance(guardian) ==
    DeployTimelock("TimelockOwner", "GovernorOwner", guardian)
    \o DeployTimelock("TimelockAdmin", "GovernorAdmin", guardian)
\* Names the contract Staking, which is a set of modules at this commit.
deployStakingLogic == << Raise >>
deploySOV(mainnet) ==
    (IF mainnet THEN << >> ELSE DeployToken("cSOV1", 3) \o DeployToken("cSOV2", 3))
    \o DeployToken("SOV", 3) \o << Raise >>
deploySOVTest(mainnet) == deploySOV(mainnet)

deployStakingRewards ==
    LET rewards == Now!Rewards IN
    DeployProxy(rewards, "StakingRewards")
    \o << Do(Needing(OwnerSets(rewards, "initialized", "yes"),
                     {Is(rewards, "initialized", "", "none")})) >>
    \o HandOverProxy(rewards, Wallet) \o HandOver(rewards, Wallet)
DeployFactory == << Deploy("VestingLogic"), Deploy("VestingFactory") >>
deployVestingRegistry3 ==
    DeployFactory \o << Deploy("VestingRegistry3") >>
    \o HandOver("VestingFactory", "VestingRegistry3") \o HandOver("VestingRegistry3", Wallet)
\* Registry and proxy stay the deployer's: both transfers are commented out.
deployUpgradableVestingRegistry ==
    LET registry == Now!Registry IN
    DeployFactory \o DeployProxy(registry, "VestingRegistryLogic")
    \o << Do(Needing(OwnerSets(registry, "initialized", "yes"),
                     {Is(registry, "initialized", "", "none")})) >>
    \o AddAdmin(registry, Wallet)
    \o << Deploy("VestingCreator") >> \o HandOver("VestingCreator", Wallet)
    \o AddAdmin(registry, "VestingCreator") \o AddAdmin(registry, "LockedSOV")
    \o HandOver("VestingFactory", registry)

\* One row after the other: a vesting, and the stake that the registry pays for.
VestingRows(kind, rows) ==
    ForEach(rows, LAMBDA row :
        << Do(Set("VestingRegistry", kind, row[1], "created", {"owner", "admins"})),
           Do(Moving(Writing(Call("VestingRegistry", {"owner", "admins"}),
                             "Staking", "stake", kind \o row[1], "staked"),
                     "SOV", "VestingRegistry", "Staking", row[2])) >>)
\* The registry has the tokens of the team; those of the other owners are sent.
continueVestings(team, owners) ==
    VestingRows("team vesting ", team)
    \o << Do(Transfer("SOV", Operator, "VestingRegistry", Now!Total(owners))) >>
    \o VestingRows("vesting ", owners) \o << Raise >> \* the balance before was never read

-----------------------------------------------------------------------------
(* The claims of the origin investors, in four scripts.                     *)

Claim == "OriginInvestorsClaim"
deployClaim ==
    DeployFactory \o << Deploy("VestingRegistry2") >>
    \o HandOver("VestingFactory", "VestingRegistry2")
    \o << Deploy(Claim) >> \o AddAdmin("VestingRegistry2", Claim)
\* The list is appended in chunks until the contract is told that it is complete.
appendInvestorsList(chunk) ==
    << Do(Needing(Set(Claim, "listed", chunk, "yes", {"owner", "admins"}),
                  {IsNot(Claim, "initialized", "", "yes")})) >>
\* On a test chain the script funds the claims; otherwise the multisig does.
loadInvestors(chunks, total, mainnet) ==
    ForEach(chunks, appendInvestorsList)
    \o (IF mainnet THEN << >>
        ELSE << If(Poor("SOV", Operator, total), Do(Minting(Call("SOV", Owned), "SOV", Operator, total))),
                If(Poor("SOV", Claim, total), Do(Transfer("SOV", Operator, Claim, total))) >>)
\* Needs the contract to have what the investors may claim; nothing moves yet.
completeClaim(total) ==
    << Do(Needing(Moving(Set(Claim, "initialized", "", "yes", {"owner", "admins"}),
                         "SOV", Claim, Claim, total),
                  {IsNot(Claim, "initialized", "", "yes")})) >>
handOverClaim == HandOver(Claim, Wallet)
\* Makes the proxy of Staking its own implementation, and returns.
deployClaimAndRead == << Do(Now!SetImplementation("Staking", "Staking")) >>

deployGenericTokenSender ==
    << Deploy(Now!Sender) >> \o AddAdmin(Now!Sender, Operator) \o HandOver(Now!Sender, Wallet)
createVestingMigrations(vesting) ==
    << Do(Set(Now!Registry, "vestingType", vesting, "registered", {"owner", "admins"})) >>
deployLiquidityMining(testnet) ==
    LET mining == Now!Mining IN
    << Deploy("LockedSOV") >> \o DeployProxy(mining, "LiquidityMining")
    \o << Do(Needing(Writing(OwnerSets(mining, "initialized", "yes"), mining, "lockedSOV", "",
                             "LockedSOV"),
                     {Is(mining, "initialized", "", "none")})),
          Deploy("LiquidityMiningConfigToken"),
          Do(Now!add("(WR)BTC/SOV")), Do(Now!add("LiquidityMiningConfigToken")) >>
    \o AddAdmin(mining, Wallet) \o HandOverProxy(mining, Wallet) \o HandOver(mining, Wallet)
    \o (IF testnet THEN << Do(Transfer("SOV", Operator, mining, 1)) >> ELSE << >>)
addETHPoolToken ==
    Now!addAmmPoolTokenToLM("(WR)BTC/ETH")
    \o << Queue(Now!MiningSets("points", "LiquidityMiningConfigToken", "remaining")) >>
updateAllPools == << Queue(Set(Now!Mining, "updated", "", "yes", {"anyone"})) >>
\* Two deposits of one approval, the second one into liquidity mining as well.
lend ==
    << Do(Approve("DoC", Operator, "iDOC", 2)) >>
    \o ForEach(<<1, 2>>, LAMBDA i :
        << Do(Minting(Pulling(Needing(Call("iDOC", {"anyone"}),
                                      Now!Delegates("iDOC", "lending")),
                              "DoC", Operator, "iDOC", 1), "iDOC", Operator, 1)) >>)

FourYearFactory == "FourYearVestingFactory"
deployFourYearVesting == << Deploy("FourYearVestingLogic"), Deploy(FourYearFactory) >>
\* A vesting of 39 periods stakes for 18 of them at a time: the script calls
\* stakeTokens, which pulls that part, until nothing remains.
Parts(amount) ==
    LET first == (amount * 18) \div 39
        second == ((amount - first) * 18) \div 21
    IN << first, second, amount - first - second >>
createFourYearVestings(list) ==
    ForEach(list, LAMBDA row :
        LET vesting == "four year vesting of " \o row[1] IN
        << Do(Writing([Call(FourYearFactory, Owned) EXCEPT !.creates = {vesting}],
                      vesting, "owner", "", Wallet)),
           Do(Approve("SOV", Operator, vesting, row[2])) >>
        \o ForEach(Parts(row[2]), LAMBDA part :
               << Do([Pulling(Call(vesting, {"anyone"}), "SOV", Operator, vesting, part)
                         EXCEPT !.credits = <<"SOV", "Staking">> :> part]) >>))
addToRegistry(vesting) ==
    << Do(Needing(Set(Now!Registry, "fourYearVesting", vesting, "registered", {"owner", "admins"}),
                  {IsNot(Now!Registry, "fourYearVesting", vesting, "registered")})) >>

-----------------------------------------------------------------------------
\* The new token is supported by the protocol before its pool exists, and its feed
\* is set only after a pool that cannot be set up.
addLoanToken(pool, token) ==
    << Queue(Now!Setting("supported", token, "yes")) >>
    \o deployLoanToken(pool, token, "LoanTokenLogicStandard", FALSE, TRUE)
add_xusd == deployLoanToken("iXUSD", "XUSD", "LoanTokenLogicStandard", FALSE, TRUE)
-----------------------------------------------------------------------------
(* Liquidity mining, vestings, test claims, the escrow; Uniswap, with a     *)
(* token eSOV and a wallet on Ethereum.                                     *)

addTestETHPoolToken == Now!addAmmPoolTokenToLM("(WR)BTC/ETH")
addFISHtoken == Now!addAmmPoolTokenToLM("(WR)BTC/FISH")
addBRZtoken == Now!addAmmPoolTokenToLM("XUSD/BRZ")
upgradeLiquidityMiningLogic == Now!upgradeLiquidityMiningLogic
deployLiquidityMiningLogic == << Deploy("LiquidityMining") >>
deployTokenSender == << Deploy(Now!Sender) >>
deployLockedSOV ==
    << Do(Writing([Call("LockedSOV", {"anyone"}) EXCEPT !.creates = {"LockedSOV"}],
                  "LockedSOV", "admins", Wallet, "yes")) >>
\* Prints a variable that is not defined, before it deploys.
deployEscrow == << Raise >>

\* The registry has to know the creator, whose every owner of tokens comes once.
Creator == "OrigingVestingCreator"
deployVestingCreator == << Deploy(Creator) >>
createVestingAndStake(tokenOwner, amount) ==
    Moving(Needing(Writing(Set(Creator, "processed", tokenOwner, "yes", Owned),
                           "VestingRegistry2", "vesting", tokenOwner, "created"),
                   {IsNot(Creator, "processed", tokenOwner, "yes"),
                    Is("VestingRegistry2", "admins", Creator, "yes")}),
           "SOV", "VestingRegistry2", "Staking", amount)
deployVestings(rows) == ForEach(rows, LAMBDA row : << Do(createVestingAndStake(row[1], row[2])) >>)
\* The owner of the tokens is the empty string, which is no address.
createOneVesting == << Raise >>
\* Each date occurs once, so that no sum is read before another one of the same date
\* is written.  A script that is run again adds the stakes again.
fixVestingCheckpoints(lockDates) ==
    ForEach(lockDates, LAMBDA date :
        << Queue(Needing(Set("Staking", "vestingStakes", date, "with four year vestings",
                             {"owner", "admins"}), Now!NotFrozen)) >>)

\* Everything anew, and the deployer keeps it.
deployTestClaimIsolated(team, owners) ==
    DeployToken("SOV", 10) \o DeployFactory \o << Deploy("VestingRegistry"), Deploy(Claim) >>
    \o AddAdmin("VestingRegistry", Claim) \o HandOver("VestingFactory", "VestingRegistry")
    \o << Do(OwnerSets("VestingRegistry", "lockedAmount", "of one account")),
          Do(OwnerSets("VestingRegistry", "blacklist", "one account")),
          Do(Transfer("SOV", Operator, "VestingRegistry", Now!Total(team))) >>
    \o VestingRows("team vesting ", team)
    \o << Do(Transfer("SOV", Operator, "VestingRegistry", Now!Total(owners))) >>
    \o VestingRows("vesting ", owners)
\* Names the contract Staking before it deploys anything.
deployTestClaim == << Raise >>
redeployTestClaim(total) == completeClaim(total)
\* Looks for an ABI in an address.
loadInvestorsCopy == << Raise >>

deployESOV == DeployToken("eSOV", 3)
deployEthMultisig == << Deploy("ethMultisig") >>
addLiquidityETH(from, eth, eSOV) ==
    Minting(Moving(Pulling(Call("UniswapV2Router02", {"anyone"}),
                           "eSOV", from, "UniswapV2Router02", eSOV),
                   "ETH", from, "UniswapV2Router02", eth),
            "UniswapV2eSOVPool", from, 1)
deployPoolFromAccount(eth, eSOV) ==
    << If(Short("eSOV", Operator, "UniswapV2Router02", eSOV),
          Do(Approve("eSOV", Operator, "UniswapV2Router02", eSOV))),
       Do(addLiquidityETH(Operator, eth, eSOV)) >>
=============================================================================
