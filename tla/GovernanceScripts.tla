-------------------------- MODULE GovernanceScripts --------------------------
(***************************************************************************)
(* scripts/contractInteraction/governance.py, ownership.py and             *)
(* multisig.py: what the operator does to proposals, to the owner of a     *)
(* contract and to the multisig wallet, which holds the tokens and most    *)
(* roles.  A step of kind "owners" is a call of the wallet to itself; one  *)
(* of kind "confirm", "revoke" or "execute" is the operator's own call     *)
(* of the wallet, about the latest transaction of another script's step.   *)
(***************************************************************************)
EXTENDS AMMScripts

\* The state of a proposal, as the governor's functions need it.
Proposal(governor, id, from, to) ==
    Needing(Set(governor, "proposal", id, to, {"anyone"}), {Is(governor, "proposal", id, from)})
\* __acceptAdmin: the guardian lets the governor take the timelock it was offered.
AcceptAdmin(timelock, governor) ==
    Needing(Writing(Writing(Call(governor, {"guardian"}), timelock, "admin", "", governor),
                    timelock, "pendingAdmin", "", "none"),
            {Is(timelock, "pendingAdmin", "", governor)})
governorAcceptAdmin(timelock, governor) == << Queue(AcceptAdmin(timelock, governor)) >>
queueProposal(id) == << Do(Proposal("GovernorOwner", id, "Succeeded", "Queued")) >>
queueProposalAdmin(id) == << Do(Proposal("GovernorAdmin", id, "Succeeded", "Queued")) >>
executeProposal(id) == << Do(Proposal("GovernorOwner", id, "Queued", "Executed")) >>
\* Guarded by the guardian; an executed proposal cannot be cancelled.
cancelProposal(governor, id) ==
    << Expect(Is(governor, "guardian", "", Wallet)),
       Queue(Needing(Set(governor, "proposal", id, "Canceled", {"guardian"}),
                     {IsNot(governor, "proposal", id, "Executed")})) >>
\* The admins of LockedSOV have no owner above them: one of them adds or removes another.
LockedSOVAdmin(account, flag) ==
    << Queue(Needing(Set("LockedSOV", "admins", account, flag, {"admins"}),
                     {IsNot("LockedSOV", "admins", account, flag)})) >>
removeExchequerFromLockedSOVAdmin == LockedSOVAdmin(Wallet, "no")
transferLockedSOVOwnershipToGovernance == LockedSOVAdmin("TimelockAdmin", "yes")

transferOwner(at, to) == << Do(TransferOwnership(at, to)) >>
acceptOwnershipWithMultisig(at) == << Queue(Accept(at, Wallet)) >>

-----------------------------------------------------------------------------
Ask(kind, argument) == [kind |-> kind, call |-> argument, when |-> {}]
OwnersCall(op, old, new) == Ask("owners", [op |-> op, old |-> old, new |-> new, n |-> 0])

sendFromMultisig(receiver, amount) == << Queue(Transfer("RBTC", Wallet, receiver, amount)) >>
sendTokensFromMultisig(token, receiver, amount) ==
    << Queue(Transfer(token, Wallet, receiver, amount)) >>
deployMultisig == << Deploy("new multisig") >>
executeOnMultisig(tx) == << Ask("execute", tx) >>
confirmWithMS(tx) == << Ask("confirm", tx) >>
revokeConfirmationMS(tx) == << Ask("revoke", tx) >>
confirmMultipleTxsWithMS(txs) == ForEach(txs, confirmWithMS)
replaceOwnerOnMultisig(old, new) == << OwnersCall("replaceOwner", old, new) >>
addOwnerToMultisig(new) == << OwnersCall("addOwner", "none", new) >>
removeOwnerFromMultisig(old) == << OwnersCall("removeOwner", old, "none") >>
transferOwnershipFromMultisig(at, to) == << Queue(TransferOwnership(at, to)) >>
ToTokenSender(token, amount) == << Queue(Transfer(token, Wallet, "GenericTokenSender", amount)) >>
\* SOV is sent only in a positive amount; the other tokens in any.
transferSOVtoTokenSender(amount) ==
    IF amount <= 0 THEN << Raise >> ELSE ToTokenSender("SOV", amount)
transferXUSDtoTokenSender(amount) == ToTokenSender("XUSD", amount)
transferToTokenSender(currency, amount) == ToTokenSender(currency, amount)
transferSOVtoAccount(receiver, amount) ==
    IF amount <= 0 \/ receiver = "" THEN << Raise >>
    ELSE << Queue(Transfer("SOV", Wallet, receiver, amount)) >>
=============================================================================
