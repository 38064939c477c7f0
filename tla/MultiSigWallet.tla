--------------------------- MODULE MultiSigWallet ---------------------------
(***************************************************************************)
(* contracts/multisig/MultiSigWallet.sol: the wallet that holds the        *)
(* exchequer's tokens and most roles.  An owner submits a call, which      *)
(* confirms it too; the confirmation that completes the quorum makes the   *)
(* call at once.  A call that fails leaves the transaction as it was, for  *)
(* any owner who confirmed it to try again.  The wallet changes its owners *)
(* and their quorum by calls to itself.                                    *)
(***************************************************************************)
EXTENDS Integers, Sequences, FiniteSets

CONSTANTS
    Accounts,        \* who may be an owner
    NoAddress,       \* the zero address
    InitialOwners,   \* what the constructor is given
    InitialRequired,
    MAX_OWNER_COUNT,
    ForeignCalls     \* the calls to other contracts that owners submit

VARIABLES
    owners,
    required,
    transactions,    \* transaction id -> the call
    executions,      \* the Execution events: the ids of the transactions made, in their order
    confirmations    \* pairs of an id and an account

walletVars == <<owners, required, transactions, executions, confirmations>>

\* The transactions with executed = true.
executed == {executions[i] : i \in DOMAIN executions}

validRequirement(ownerCount, n) ==
    ownerCount <= MAX_OWNER_COUNT /\ n <= ownerCount /\ n # 0 /\ ownerCount # 0

ASSUME WalletAssumption ==
    /\ IsFiniteSet(Accounts) /\ NoAddress \notin Accounts
    /\ MAX_OWNER_COUNT \in Nat
    /\ InitialOwners \subseteq Accounts /\ InitialRequired \in Nat
    /\ validRequirement(Cardinality(InitialOwners), InitialRequired)

Addresses == Accounts \cup {NoAddress}
\* The calls of the wallet to itself: old is the owner that leaves, new the one
\* that comes, n the new quorum.
OwnersCalls ==
    [op : {"addOwner", "removeOwner", "replaceOwner", "changeRequirement"},
     old : Addresses, new : Addresses, n : Nat]

ASSUME CallsAssumption == ForeignCalls \cap OwnersCalls = {}
-----------------------------------------------------------------------------
\* constructor
WalletInit ==
    /\ owners = InitialOwners
    /\ required = InitialRequired
    /\ transactions = << >>
    /\ executions = << >>
    /\ confirmations = {}

\* The call of the wallet to itself does not revert.  replaceOwner does not ask
\* whether the new owner is the zero address.
Accepts(call) ==
    LET count == Cardinality(owners) IN
    CASE call.op = "addOwner" ->
            call.new \notin owners /\ call.new # NoAddress /\ validRequirement(count + 1, required)
      [] call.op = "removeOwner" ->
            call.old \in owners /\ (required > count - 1 => validRequirement(count - 1, count - 1))
      [] call.op = "replaceOwner" -> call.old \in owners /\ call.new \notin owners
      [] call.op = "changeRequirement" -> validRequirement(count, call.n)

addOwner(call) == owners' = owners \cup {call.new} /\ UNCHANGED required
\* The quorum follows when too few owners are left for it; a slip would leave it.
QuorumKept(call) == owners' = owners \ {call.old} /\ UNCHANGED required
removeOwner(call) ==
    /\ owners' = owners \ {call.old}
    /\ required' = IF required > Cardinality(owners) - 1 THEN Cardinality(owners) - 1 ELSE required
replaceOwner(call) == owners' = (owners \ {call.old}) \cup {call.new} /\ UNCHANGED required
changeRequirement(call) == required' = call.n /\ UNCHANGED owners

\* Only the confirmations of those who are owners now count.
isConfirmed(id, given) ==
    Cardinality({owner \in owners : <<id, owner>> \in given}) >= required

\* What a call of the wallet to itself does, where it does not revert.
OwnersCallDone(call) ==
    \/ call.op = "addOwner" /\ addOwner(call)
    \/ call.op = "removeOwner" /\ removeOwner(call)
    \/ call.op = "replaceOwner" /\ replaceOwner(call)
    \/ call.op = "changeRequirement" /\ changeRequirement(call)

\* external_call; `succeeds` is whether the foreign contract accepts the call.
external_call(id, call, succeeds) ==
    \/ /\ call \in OwnersCalls /\ Accepts(call)
       /\ OwnersCallDone(call)
       /\ executions' = Append(executions, id)
    \/ /\ call \notin OwnersCalls /\ succeeds
       /\ executions' = Append(executions, id)
       /\ UNCHANGED <<owners, required>>
    \/ /\ IF call \in OwnersCalls THEN ~Accepts(call) ELSE ~succeeds
       /\ UNCHANGED <<owners, required, executions>>

\* The part of executeTransaction behind its modifiers, with the confirmations given.
ExecuteIfConfirmed(id, call, given, succeeds) ==
    \/ isConfirmed(id, given) /\ external_call(id, call, succeeds)
    \/ ~isConfirmed(id, given) /\ UNCHANGED <<owners, required, executions>>

\* A slip: the submission is not a confirmation.
OnlySubmitted(sender, call, succeeds) ==
    /\ sender \in owners
    /\ transactions' = Append(transactions, call)
    /\ UNCHANGED <<owners, required, executions, confirmations>>
submitTransaction(sender, call, succeeds) ==
    LET id == Len(transactions) + 1 IN
    /\ sender \in owners
    /\ transactions' = Append(transactions, call)
    /\ confirmations' = confirmations \cup {<<id, sender>>}
    /\ ExecuteIfConfirmed(id, call, confirmations', succeeds)

\* The modifiers of the functions.  A confirmation executes the transaction, so it
\* reverts as well where that has been executed.
MayConfirm(sender, id) ==
    sender \in owners /\ id \in DOMAIN transactions \ executed /\ <<id, sender>> \notin confirmations
\* A slip: what was executed is not asked for.
EverConfirmed(sender, id) ==
    sender \in owners /\ id \in DOMAIN transactions /\ <<id, sender>> \in confirmations
HasConfirmed(sender, id) ==
    sender \in owners /\ id \in DOMAIN transactions \ executed /\ <<id, sender>> \in confirmations

confirmTransaction(sender, id, succeeds) ==
    /\ MayConfirm(sender, id)
    /\ confirmations' = confirmations \cup {<<id, sender>>}
    /\ ExecuteIfConfirmed(id, transactions[id], confirmations', succeeds)
    /\ UNCHANGED transactions

revokeConfirmation(sender, id) ==
    /\ HasConfirmed(sender, id)
    /\ confirmations' = confirmations \ {<<id, sender>>}
    /\ UNCHANGED <<owners, required, transactions, executions>>

executeTransaction(sender, id, succeeds) ==
    /\ HasConfirmed(sender, id) \* its modifiers are those of revokeConfirmation
    /\ ExecuteIfConfirmed(id, transactions[id], confirmations, succeeds)
    /\ UNCHANGED <<transactions, confirmations>>

WalletNext ==
    \E sender \in Accounts, succeeds \in BOOLEAN :
        \/ \E call \in OwnersCalls \cup ForeignCalls : submitTransaction(sender, call, succeeds)
        \/ \E id \in DOMAIN transactions :
               \/ confirmTransaction(sender, id, succeeds)
               \/ revokeConfirmation(sender, id)
               \/ executeTransaction(sender, id, succeeds)

WalletSpec == WalletInit /\ [][WalletNext]_walletVars

-----------------------------------------------------------------------------
\* The quorum is one that the number of owners can reach: whatever owners are added,
\* removed and replaced by transactions confirmed before or after each other, the
\* wallet neither locks itself (required > owners) nor opens (required = 0).  The zero
\* address can be one of the owners, by replaceOwner.  And no transaction is made
\* without having been submitted, or twice: neither by the confirmations that follow,
\* nor by the owners who try again what failed.
WalletInv ==
    /\ owners \subseteq Addresses
    /\ required \in 1..Cardinality(owners)
    /\ Cardinality(owners) <= MAX_OWNER_COUNT
    /\ transactions \in Seq(OwnersCalls \cup ForeignCalls)
    /\ executions \in Seq(DOMAIN transactions)
    /\ \A i, j \in DOMAIN executions : executions[i] = executions[j] => i = j
    /\ confirmations \subseteq (DOMAIN transactions) \X Addresses

\* The owners and their quorum are the first ones, until a transaction about them was
\* made that as many of the first owners as were required have confirmed, and have not
\* revoked since: neither owners who came later, nor a smaller quorum, nor a
\* confirmation that was withdrawn is behind the first change.
OwnersChangeByQuorum ==
    \/ owners = InitialOwners /\ required = InitialRequired
    \/ \E id \in executed :
           /\ transactions[id] \in OwnersCalls
           /\ Cardinality({a \in InitialOwners : <<id, a>> \in confirmations}) >= InitialRequired
=============================================================================
