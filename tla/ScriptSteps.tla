----------------------------- MODULE ScriptSteps -----------------------------
(***************************************************************************)
(* The vocabulary of the operation scripts (scripts/): a script is a       *)
(* sequence of steps.  A step is a transaction of the operator's account   *)
(* (acct), a transaction submitted to the multisig wallet, which its       *)
(* owners confirm and execute later, or a check that raises an exception.  *)
(* What a transaction does to the contracts is a call: who may make it,    *)
(* what it needs, which storage slots it writes and which tokens it moves. *)
(***************************************************************************)
EXTENDS Integers, Sequences, SequencesExt, TLC

CONSTANTS
    StandardPools,  \* the pools behind LoanTokenLogicBeaconLM, a sequence
    Funds           \* what the account, the wallet and each contract start with

Operator == "acct"
Wallet == "multisig"
Funded == {"acct", "multisig", "sovrynProtocol", "iRBTC", "iDOC", "swapNetwork", "ConverterXUSD",
           "ConverterSOV", "XUSDAggregatorProxy", "FeeSharingCollectorProxy", "Staking",
           "VestingRegistry", "RBTCWrapperProxy", "GenericTokenSender", "Watcher", "FastBTCBiDi",
           "MyntTreasury", "GovernorVaultOwner", "AdoptionFund", "DevelopmentFund"}

-----------------------------------------------------------------------------
(* Contracts: storage slots, token balances and allowances, all sparse.     *)

Slot(at, key, item) == <<at, key, item>>
Nothing == [x \in {} |-> 0]

BeaconOf(pool) ==
    IF pool = "iRBTC" THEN "LoanTokenLogicBeaconWrbtc" ELSE "LoanTokenLogicBeaconLM"

\* What a slot holds before any script has written it.
Initially(at, key, item) ==
    CASE key \in {"owner", "proxyOwner", "guardian"} -> Wallet
      [] key = "pausers" /\ item = Wallet -> "yes"
      [] at = "LockedSOV" /\ key = "admins" /\ item = Wallet -> "yes"
      [] key = "paused" -> "no"
      [] key = "target" -> "LoanTokenLogicProxy"
      [] key = "beacon" -> BeaconOf(at)
      [] OTHER -> "as deployed"

Read(chain, slot) ==
    IF slot \in DOMAIN chain.slots THEN chain.slots[slot]
    ELSE IF slot[1] \in chain.fresh THEN "none" ELSE Initially(slot[1], slot[2], slot[3])

\* Nobody has any of a token that was just deployed.
Balance(chain, account) ==
    IF account \in DOMAIN chain.funds THEN chain.funds[account]
    ELSE IF account[1] \notin chain.fresh /\ account[2] \in Funded THEN Funds ELSE 0

Allowance(chain, grant) ==
    IF grant \in DOMAIN chain.grants THEN chain.grants[grant] ELSE 0

\* A beacon finds the module of a function by the lists that the modules give
\* when they are registered, each under its own name.  At this commit trading and
\* lending are modules of their own; one that was registered before has both.
BeaconModules == {"LoanTokenLogicLM", "LoanTokenLogicWrbtc", "LoanTokenSettingsLowerAdmin"}
Lists(module, version) ==
    CASE version = "none" -> {}
      [] module = "LoanTokenSettingsLowerAdmin" -> {"settings"}
      [] version = "as deployed" -> {"trading", "lending"}
      [] module = "LoanTokenLogicLM" -> {"lending"}
      [] module = "LoanTokenLogicWrbtc" -> {"trading"}
Served(chain, beacon, group) ==
    \E module \in BeaconModules :
        group \in Lists(module, Read(chain, Slot(beacon, "module", module)))

Holds(chain, condition) ==
    CASE condition.kind = "serves" -> Served(chain, condition.beacon, condition.group)
      [] condition.kind = "is" -> Read(chain, condition.slot) = condition.value
      [] condition.kind = "not" -> Read(chain, condition.slot) # condition.value
      [] condition.kind = "short" -> Allowance(chain, condition.grant) < condition.amount
      [] condition.kind = "poor" -> Balance(chain, condition.account) < condition.amount
      [] condition.kind = "never" -> FALSE

Serves(beacon, group) == [kind |-> "serves", beacon |-> beacon, group |-> group]
Is(at, key, item, value) == [kind |-> "is", slot |-> Slot(at, key, item), value |-> value]
IsNot(at, key, item, value) == [kind |-> "not", slot |-> Slot(at, key, item), value |-> value]
Short(token, owner, spender, amount) ==
    [kind |-> "short", grant |-> <<token, owner, spender>>, amount |-> amount]
\* What a call needs that no state of the contracts gives it.
Never == [kind |-> "never"]
Poor(token, owner, amount) == [kind |-> "poor", account |-> <<token, owner>>, amount |-> amount]

-----------------------------------------------------------------------------
(* Calls.                                                                   *)

\* The function of a contract that the named roles may call.
Call(at, by) ==
    [at |-> at, by |-> by, needs |-> {}, writes |-> Nothing, creates |-> {},
     debits |-> Nothing, credits |-> Nothing, spends |-> Nothing, grants |-> Nothing,
     wallet |-> "no"]
Needing(call, conditions) == [call EXCEPT !.needs = @ \cup conditions]
Writing(call, at, key, item, value) ==
    [call EXCEPT !.writes = (Slot(at, key, item) :> value) @@ @]
Owned == {"owner"}

Set(at, key, item, value, by) == Writing(Call(at, by), at, key, item, value)
OwnerSets(at, key, value) == Set(at, key, "", value, Owned)
TransferOwnership(at, to) == OwnerSets(at, "owner", to)

\* A contract the operator deploys: all its storage is new, and it is his.
New(at) == Writing([Call(at, {"anyone"}) EXCEPT !.creates = {at}], at, "owner", "", Operator)

\* ERC20: approve replaces the allowance; transfer and transferFrom.
Approve(token, owner, spender, amount) ==
    [Call(token, {"anyone"}) EXCEPT !.grants = <<token, owner, spender>> :> amount]
Moving(call, token, from, to, amount) ==
    [call EXCEPT !.debits = (<<token, from>> :> amount) @@ @,
                 !.credits = (<<token, to>> :> amount) @@ @]
Transfer(token, from, to, amount) == Moving(Call(token, {"anyone"}), token, from, to, amount)
Pulling(call, token, from, to, amount) ==
    [Moving(call, token, from, to, amount) EXCEPT !.spends = <<token, from, to>> :> amount]
Minting(call, token, to, amount) == [call EXCEPT !.credits = (<<token, to>> :> amount) @@ @]
Burning(call, token, from, amount) == [call EXCEPT !.debits = (<<token, from>> :> amount) @@ @]

AnyoneAuthorised(chain, caller, call) == TRUE \* a slip
Authorised(chain, caller, call) ==
    \E role \in call.by :
        \/ role = "anyone"
        \/ Read(chain, Slot(call.at, role, "")) = caller
        \/ Read(chain, Slot(call.at, role, caller)) = "yes"

\* The call does not revert.
Succeeds(chain, caller, call) ==
    /\ Authorised(chain, caller, call)
    /\ \A condition \in call.needs : Holds(chain, condition)
    /\ \A account \in DOMAIN call.debits : Balance(chain, account) >= call.debits[account]
    /\ \A grant \in DOMAIN call.spends : Allowance(chain, grant) >= call.spends[grant]

At(f, x) == IF x \in DOMAIN f THEN f[x] ELSE 0

\* The contracts after a call that succeeds.
After(chain, call) ==
    [slots |-> call.writes @@
               [s \in {t \in DOMAIN chain.slots : t[1] \notin call.creates} |-> chain.slots[s]],
     fresh |-> chain.fresh \cup call.creates,
     funds |-> [a \in DOMAIN call.debits \cup DOMAIN call.credits |->
                    Balance(chain, a) - At(call.debits, a) + At(call.credits, a)] @@ chain.funds,
     grants |-> call.grants @@ [g \in DOMAIN call.spends |->
                    Allowance(chain, g) - call.spends[g]] @@ chain.grants]

-----------------------------------------------------------------------------
(* Steps.                                                                   *)

Step(kind, call) == [kind |-> kind, call |-> call, when |-> {}]
Do(call) == Step("do", call)            \* a transaction of acct
Queue(call) == Step("queue", call)      \* sendWithMultisig: submitTransaction only
Deploy(at) == Do(New(at))
\* if ...: steps, with the condition read when the script gets there.
If(condition, step) == [step EXCEPT !.when = {condition}]
\* assert, or if not ...: raise Exception(...)
Expect(condition) == Step("expect", Needing(Call("", {"anyone"}), {condition}))
\* An exception of the interpreter that no state of the contracts avoids.
Raise == Step("raise", Call("", {}))

ForEach(sequence, Steps(_)) == FlattenSeq([i \in 1..Len(sequence) |-> Steps(sequence[i])])

FirstChain == [slots |-> Nothing, fresh |-> {}, funds |-> Nothing, grants |-> Nothing]
=============================================================================
