----------------------------- MODULE SipScripts -----------------------------
(***************************************************************************)
(* scripts/sip/sip_interaction.py and scripts/governance/: the improvement *)
(* proposals (SIPs) put to a governor, whose timelock makes their calls    *)
(* all together or not at all.                                             *)
(***************************************************************************)
EXTENDS TaskScripts

TimelockOf(governor) == IF governor = "GovernorOwner" THEN "TimelockOwner" ELSE "TimelockAdmin"
\* A step of kind "propose": the timelock of `governor` is to make these calls.
createProposal(governor, calls) ==
    << [kind |-> "propose", call |-> [governor |-> governor, calls |-> calls], when |-> {}] >>
\* Most old scripts print the calls and leave createProposal out.
Draft(governor, calls) ==
    << [kind |-> "draft", call |-> [governor |-> governor, calls |-> calls], when |-> {}] >>
\* A proposal of no effect: a vote on a text calls name() or symbol() of SOV.
Signal == << Call("SOV", {"anyone"}) >>

createProposalSIP0005 ==
    createProposal("GovernorOwner",
        << Set("VestingRegistry", "approved", "CSOV", "SOV", Owned) >>)
createProposalSIP0006 == createProposal("GovernorOwner", Signal)
createProposalSIP0008 == createProposal("GovernorOwner", Signal)
\* The vault pays out to the multisig.
createProposalSIP0014 ==
    createProposal("GovernorOwner",
        << Moving(Call("GovernorVaultOwner", Owned), "SOV", "GovernorVaultOwner", Wallet, 1) >>)
createProposalSIP0015 == createProposal("GovernorAdmin", Signal)
NewStakingLogic(logic) == SetImplementation(Staking, logic)
createProposalSIP0016 == createProposal("GovernorOwner", << NewStakingLogic("StakingLogic2") >>)
createProposalSIP0017 == createProposal("GovernorAdmin", Signal)
createProposalSIP0018 == createProposal("GovernorAdmin", Signal)
createProposalSIP0019 == createProposal("GovernorOwner", Signal)
createProposalSIP0020 ==
    Draft("GovernorOwner",
        << NewStakingLogic("StakingLogic3"), StakingSetting("admins", Wallet, "yes") >>)
createProposalSIP0024 == Draft("GovernorOwner", Signal)
createProposalSIP0030 ==
    Draft("GovernorOwner",
        << NewStakingLogic("StakingLogic4"), StakingSetting("feeSharing", "", Collector),
           StakingSetting("vestingRegistry", "", Registry) >>)
createProposalSIP0035 == Draft("GovernorOwner", Signal)
createProposalSIP0037 == createProposal("GovernorOwner", Signal)
createProposalSIP0038 == createProposal("GovernorAdmin", Signal)
createProposalSIP0039 == createProposal("GovernorAdmin", Signal)
createProposalSIP0031 == Draft("GovernorAdmin", Signal)
createProposalSIP0041 == Draft("GovernorAdmin", Signal)
createProposalSIP0042 ==
    Draft("GovernorOwner",
        << NewStakingLogic("StakingLogic5"), StakingSetting("pausers", Wallet, "yes") >>)
createProposalSIP0043 == Draft("GovernorOwner", << NewStakingLogic("StakingLogic6") >>)
createProposalSIP0044 == Draft("GovernorOwner", << NewStakingLogic("StakingLogic7") >>)
createProposalSIP0048 == createProposal("GovernorAdmin", Signal)
\* The modules are added by a function of the new implementation.
AddModules ==
    Needing(RegisteredModule("all", "registered"),
            {Is(Staking, "implementation", "", ModulesProxy),
             IsNot(Staking, "module", "all", "registered")})
createProposalSIP0049 == Draft("GovernorOwner", << NewStakingLogic(ModulesProxy), AddModules >>)
createProposalSIP0050 ==
    << Expect(IsNot("StakingLogic8", "code", "", "none")) >>
    \o Draft("GovernorOwner", << NewStakingLogic("StakingLogic8") >>)
createProposalSIP0056 == createProposal("GovernorOwner", Signal)
createProposalSIP0060 == createProposal("GovernorAdmin", Signal)
\* Both funds pay the timelock, which sends the sum on to the multisig.
ByUnlockedTokenOwner(fund, amount) ==
    Moving(Call(fund, {"unlockedTokenOwner"}), "SOV", fund, "TimelockOwner", amount)
createProposalSIP0065 ==
    createProposal("GovernorOwner",
        << ByUnlockedTokenOwner("AdoptionFund", 1), ByUnlockedTokenOwner("DevelopmentFund", 2),
           Transfer("SOV", "TimelockOwner", Wallet, 3) >>)

\* scripts/governance/
createProposalSIP000(call) == createProposal("GovernorOwner", << call >>)
stakeForVotes(amount) == stakeTokens(amount)
=============================================================================
