--------------------------- MODULE StakingScripts ---------------------------
(***************************************************************************)
(* scripts/contractInteraction/staking_vesting.py: staking and its         *)
(* modules, vesting registries, rewards and the development fund.          *)
(***************************************************************************)
EXTENDS ProtocolScripts

Staking == "Staking"
Registry == "VestingRegistryProxy"
Rewards == "StakingRewardsProxy"
ModulesProxy == "StakingModulesProxy"
NotFrozen == {IsNot(Staking, "frozen", "", "yes")}
StakingSetting(key, item, value) == Needing(Set(Staking, key, item, value, Owned), NotFrozen)
OwnerOrAdmins == {"owner", "admins"}

sendSOVFromVestingRegistry ==
    << Queue(Moving(Call("VestingRegistry", Owned), "SOV", "VestingRegistry", Wallet, 1)) >>
AdminOf(registry, admin, value) == << Queue(Set(registry, "admins", admin, value, Owned)) >>
vestingRegistryAddAdmin(admin, registry) == AdminOf(registry, admin, "yes")
vestingRegistryRemoveAdmin(admin, registry) == AdminOf(registry, admin, "no")
\* Only vestings that the wallet owns, as read when the script runs, are cancelled.
cancelTeamVestingsOfAccount(vestings) ==
    ForEach(vestings, LAMBDA vesting :
        << If(Is(vesting, "owner", "", Wallet),
              Queue(Needing(Set(Staking, "cancelled", vesting, "yes", OwnerOrAdmins), NotFrozen))) >>)
addVestingAdmin(admin) == AdminOf(Registry, admin, "yes")
removeVestingAdmin(admin) == AdminOf(Registry, admin, "no")
setMaxVestingWithdrawIterations(count) ==
    << Queue(Needing(Set(Staking, "maxVestingWithdrawIterations", "", count, OwnerOrAdmins),
                     NotFrozen)) >>
createVesting(tokenOwner) ==
    << Queue(Set("VestingRegistry", "vesting", tokenOwner, "created", OwnerOrAdmins)) >>
transferSOVtoVestingRegistry(registry, amount) == << Queue(Transfer("SOV", Wallet, registry, amount)) >>

UpgradeProxy(proxy, logic) == << Deploy(logic), Queue(SetImplementation(proxy, logic)) >>
upgradeStakingRewards == UpgradeProxy(Rewards, "StakingRewards")
setAverageBlockTime(time) == << Queue(OwnerSets(Rewards, "averageBlockTime", time)) >>
setBlockForStakingRewards == << Do(Set(Rewards, "block", "current", "set", {"anyone"})) >>
setHistoricalBlockForStakingRewards(date) == << Do(Set(Rewards, "block", date, "set", {"anyone"})) >>

\* Staking delegates to ModulesProxy, which finds the module of a function in the
\* storage of Staking: replacing it keeps the modules.
setStakingModulesProxy == << Queue(SetImplementation(Staking, ModulesProxy)) >>
upgradeStakingModulesProxy == << DeployProxy(ModulesProxy) >> \o setStakingModulesProxy
deployStakingModulesProxy == << DeployProxy(ModulesProxy) >>
RegisteredModule(module, value) ==
    Set(Staking, "module", module, value, {"proxyOwner"})
\* A module that clashes with a registered one is not added.
addStakingModule(module) ==
    << Deploy(module),
       If(IsNot(Staking, "module", module, "registered"),
          Queue(Needing(RegisteredModule(module, "registered"),
                        {IsNot(Staking, "module", module, "registered")}))) >>
\* Calls replaceModule with one argument of the two it takes.
replaceStakingModule(module) == << Deploy(module), Raise >>
removeStakingModule(module) ==
    << Queue(RegisteredModule(module, "removed")) >>

upgradeVestingRegistry == UpgradeProxy(Registry, "VestingRegistryLogic")
\* Takes the address of VestingRegistryLogic, not that of the proxy.
updateVestingRegAddr ==
    << Queue(StakingSetting("vestingRegistry", "", "VestingRegistryLogic")) >>
updateAddresses ==
    << Queue(StakingSetting("vestingRegistry", "", Registry)),
        Queue(StakingSetting("feeSharing", "", Collector)) >>

stakeTokens(amount) ==
    << Do(Approve("SOV", Operator, Staking, amount)),
       Do(Needing(Pulling(Set(Staking, "stake", Operator, "staked", {"anyone"}),
                          "SOV", Operator, Staking, amount),
                  NotFrozen \cup {IsNot(Staking, "paused", "", "yes")})) >>
withdrawStakes(amount, receiver) ==
    << Do(Moving(Needing(Set(Staking, "stake", Operator, "withdrawn", {"anyone"}), NotFrozen),
                 "SOV", Staking, receiver, amount)) >>

OwnerOrPausers == {"owner", "pausers"}
pauseOrUnpauseStaking(flag) ==
    << Queue(Needing(Set(Staking, "paused", "", flag, OwnerOrPausers), NotFrozen)) >>
\* Names the contract Staking, which is a set of modules at this commit.
pauseOrUnPauseBFStaking == << Raise >>
\* To freeze is to pause as well; to unfreeze is not to unpause.
Freeze(flag) ==
    Needing(Set(Staking, "frozen", "", flag, OwnerOrPausers), {IsNot(Staking, "frozen", "", flag)})
freezeOrUnfreezeStakingWithdawal(flag) ==
    << Queue(IF flag = "yes" THEN Writing(Freeze(flag), Staking, "paused", "", "yes")
             ELSE Freeze(flag)) >>
StakingPauser(pauser, value) == << Queue(StakingSetting("pausers", pauser, value)) >>
addStakingPauser(pauser) == StakingPauser(pauser, "yes")
removeStakingPauser(pauser) == StakingPauser(pauser, "no")

\* Encodes a function that interface.IStaking does not have.
governanceDirectWithdrawVesting == << Raise >>

transferStakingOwnershipToGovernance == << Queue(StakingSetting("admins", "TimelockAdmin", "yes")) >>
transferStakingRewardsOwnershipToGovernance == << Queue(TransferOwnership(Rewards, "TimelockAdmin")) >>
addVestingRegistryGovernanceAdmin == AdminOf(Registry, "TimelockAdmin", "yes")
transferVestingRegistryOwnershipToGovernance == << Queue(TransferOwnership(Registry, "TimelockOwner")) >>
stopStakingRewards ==
    << Queue(Needing(OwnerSets(Rewards, "stopped", "yes"), {IsNot(Rewards, "stopped", "", "yes")})) >>
addVestingCodeHash(logic) ==
    << Queue(Needing(Set(Staking, "codeHash", logic, "known", OwnerOrAdmins), NotFrozen)) >>
registerVestingToVestingCreationAndTypes(vesting) ==
    << Queue(Set(Registry, "vestingType", vesting, "registered", OwnerOrAdmins)) >>

\* All three name acct, which is conf.acct in this module.
updateRolesOnDevelopmentFund == << Raise >>
withdrawDevFundTokensByUnlockedTokenOwner == << Raise >>
withdrawAdoptionFundTokensByUnlockedTokenOwner == << Raise >>
=============================================================================
