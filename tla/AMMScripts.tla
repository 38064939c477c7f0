----------------------------- MODULE AMMScripts -----------------------------
(***************************************************************************)
(* scripts/contractInteraction/amm.py: swaps and liquidity of the AMM,     *)
(* with the operator's account, the multisig or the RBTC wrapper, and the  *)
(* settings and hand-over of its contracts.  The AMM itself is external:   *)
(* a swap or a deposit pulls what it was approved and pays what it owes.   *)
(***************************************************************************)
EXTENDS StakingScripts

Network == "swapNetwork"
Wrapper == "RBTCWrapperProxy"
PoolToken(converter) == "anchor of " \o converter

\* convertByPath, for a caller who approved the network.
Swap(from, to, caller, amount) ==
    Moving(Pulling(Call(Network, {"anyone"}), from, caller, Network, amount),
           to, Network, caller, amount)
\* WRBTC is bought with RBTC, one for one.
deposit(from, amount) == Minting(Burning(Call("WRBTC", {"anyone"}), "RBTC", from, amount),
                                 "WRBTC", from, amount)
AddTo(converter, a, b, caller, amount) ==
    Minting([Pulling(Pulling(Call(converter, {"anyone"}), a, caller, converter, amount),
                     b, caller, converter, amount)
                EXCEPT !.spends = (<<a, caller, converter>> :> amount)
                                  @@ (<<b, caller, converter>> :> amount)],
            PoolToken(converter), caller, amount)
\* The wrapper takes RBTC with the call and pulls the second token.
AddThroughWrapper(converter, token, caller, amount) ==
    Minting([Moving(Pulling(Call(Wrapper, {"anyone"}), token, caller, Wrapper, amount),
                    "RBTC", caller, converter, amount)
                EXCEPT !.credits = (<<token, converter>> :> amount)
                                   @@ (<<"RBTC", converter>> :> amount)],
            PoolToken(converter), caller, amount)

-----------------------------------------------------------------------------
\* A swap is made only when the network's price is `enough` for the minimum asked for;
\* what is approved before it is read stays approved.
OnlyWhen(enough, steps) == IF enough THEN steps ELSE << >>
swapTokens(from, to, amount, enough) ==
    (IF from = "WRBTC" THEN << Do(deposit(Operator, amount)) >> ELSE << >>)
    \o << If(Short(from, Operator, Network, amount), Do(Approve(from, Operator, Network, 10 * amount))) >>
    \o OnlyWhen(enough, << Do(Swap(from, to, Operator, amount)) >>)
swapTokensWithMultisig(from, to, amount, enough) ==
    IF from = "WRBTC"
    THEN OnlyWhen(enough,
             << Queue(Moving(Moving(Call(Wrapper, {"anyone"}), "RBTC", Wallet, Network, amount),
                             to, Network, Wallet, amount)) >>)
    ELSE << If(Short(from, Wallet, Network, amount), Queue(Approve(from, Wallet, Network, amount))) >>
         \o OnlyWhen(enough, << Queue(Swap(from, to, Wallet, amount)) >>)
addLiquidity(converter, reserve, amount) ==
    << Do(Minting(Pulling(Call(converter, {"anyone"}), reserve, Operator, converter, amount),
                  PoolToken(converter), Operator, amount)) >>
\* A slip: the account approves what the wallet is to pay.
ApprovedByAccount(converter, reserve, amount) ==
    << Do(Approve(reserve, Operator, converter, amount)),
       Queue(Minting(Pulling(Call(converter, {"anyone"}), reserve, Wallet, converter, amount),
                     PoolToken(converter), Wallet, amount)) >>
addLiquidityWithMS(converter, reserve, amount) ==
    << Queue(Approve(reserve, Wallet, converter, amount)),
       Queue(Minting(Pulling(Call(converter, {"anyone"}), reserve, Wallet, converter, amount),
                     PoolToken(converter), Wallet, amount)) >>
addLiquidityV1(converter, a, b, amount) ==
    << Do(Approve(a, Operator, converter, amount)), Do(Approve(b, Operator, converter, amount)),
       Do(AddTo(converter, a, b, Operator, amount)) >>
addLiquidityV1FromMS(converter, a, b, amount) ==
    << Queue(Approve(a, Wallet, converter, amount)), Queue(Approve(b, Wallet, converter, amount)),
       Queue(AddTo(converter, a, b, Wallet, amount)) >>
addLiquidityV1UsingWrapper(converter, token, amount) ==
    << Do(Approve(token, Operator, Wrapper, amount)),
       Do(AddThroughWrapper(converter, token, Operator, amount)) >>
addLiquidityV2UsingWrapper(converter, token, amount) ==
    << Do(Approve(token, Operator, Wrapper, amount)),
       Do(Minting([Pulling(Call(Wrapper, {"anyone"}), token, Operator, Wrapper, amount)
                      EXCEPT !.credits = <<token, converter>> :> amount],
                  PoolToken(converter), Operator, amount)) >>
\* Leaves out the wrapper where it calls addLiquidityV1UsingWrapper.
testV1Converter(converter, a, b) == addLiquidityV1(converter, a, b, 1) \o << Raise >>
\* The approval is made up, but its submission is commented out.
addLiquidityV1FromMultisigUsingWrapper(converter, token, amount) ==
    << Queue(AddThroughWrapper(converter, token, Wallet, amount)) >>
removeLiquidityV1toMultisigUsingWrapper(converter, token, amount) ==
    << Queue(Approve(PoolToken(converter), Wallet, Wrapper, amount)),
       Queue([Moving(Moving(Call(Wrapper, {"anyone"}), token, converter, Wallet, amount),
                     "RBTC", converter, Wallet, amount)
                 EXCEPT !.debits = (<<PoolToken(converter), Wallet>> :> amount) @@ @,
                        !.spends = <<PoolToken(converter), Wallet, Wrapper>> :> amount]) >>
removeLiquidityV2toMultisig(converter, poolToken, token, amount) ==
    << Queue(Burning(Moving(Call(converter, {"anyone"}), token, converter, Wallet, amount),
                     poolToken, Wallet, amount)) >>
withdrawFromRBTCWrapperProxy(token, to, amount) ==
    << Do(Moving(Call(Wrapper, Owned), token, Wrapper, to, amount)) >>

-----------------------------------------------------------------------------
setOracleOnV1Converter(converter, oracle) == << Queue(OwnerSets(converter, "oracle", oracle)) >>
setConversionFee(converter, fee) == << Queue(OwnerSets(converter, "conversionFee", fee)) >>
setProtocolFee(fee) == << Queue(OwnerSets("SwapSettings", "protocolFee", fee)) >>
\* Owned hands over in two steps: the new owner must accept.
Offer(at, to) == Needing(OwnerSets(at, "newOwner", to), {IsNot(at, "owner", "", to)})
Accept(at, by) == Writing(Set(at, "owner", "", by, {"newOwner"}), at, "newOwner", "", "none")
\* The registry must know the contract by its name, and the multisig must own it.
transferOwnershipAMMContractsToGovernance(at, to) ==
    << Expect(IsNot("ContractRegistry", "entry", at, "other")),
       Expect(Is(at, "owner", "", Wallet)), Queue(Offer(at, to)) >>
=============================================================================
