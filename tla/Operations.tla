----------------------------- MODULE Operations -----------------------------
(***************************************************************************)
(* The operation of the system: an operator runs scripts, one after the    *)
(* other, with an account that owns the multisig wallet together with      *)
(* others.  What a script submits to the wallet happens when another owner *)
(* confirms it, while the script goes on; a proposal happens when its      *)
(* timelock executes it.  A script can die between two transactions, and   *)
(* the operator starts it again from its beginning.                        *)
(***************************************************************************)
EXTENDS ScriptSteps, MultiSigWallet

CONSTANT
    Jobs  \* what is run: a sequence of records
          \* [scripts: a sequence of scripts, chain: the contracts before,
          \*  cosigners: the owners who confirm, inOrder: whether in the order of the
          \*  transactions, reruns: how often a script that died is run again,
          \*  retries: whether a call that failed is tried again,
          \*  stops: whether an exception is to end the last script,
          \*  fails: the <<script, step>> whose calls the contracts can refuse]

VARIABLES
    job,        \* the one of Jobs that is run
    chain,      \* the contracts: see FirstChain
    operator,   \* [script, pc, status]: where the operator is
    attempts,   \* script -> how often it was started again
    proposals   \* the set of <<script, step>> proposed and not executed

vars == <<job, chain, operator, attempts, proposals, walletVars>>

\* What the scripts submit are calls that the wallet knows: to itself, or to another
\* contract by a step of a script in one of its runs.
ASSUME JobsAssumption ==
    /\ Operator \in Accounts
    /\ \A i \in DOMAIN Jobs :
           LET scripts == Jobs[i].scripts IN
           /\ scripts \in Seq(Range(scripts)) /\ scripts # << >>
           /\ Jobs[i].reruns \in Nat
           /\ \A s \in DOMAIN scripts :
                  /\ scripts[s] \in Seq(Range(scripts[s]))
                  /\ \A pc \in DOMAIN scripts[s] :
                         /\ scripts[s][pc].kind = "owners" => scripts[s][pc].call \in OwnersCalls
                         /\ scripts[s][pc].kind = "queue" =>
                                \A attempt \in 0 .. Jobs[i].reruns :
                                    [script |-> s, step |-> pc, attempt |-> attempt] \in ForeignCalls

Scripts == job.scripts
StepOf(at) == Scripts[at.script][at.step]

\* The address of a contract deployed by a script is that of its last run.
Stamped(call, attempt) ==
    [call EXCEPT !.writes = [slot \in DOMAIN @ |->
        IF @[slot] = "new" THEN "new" \o ToString(attempt) ELSE @[slot]]]

\* A transaction of the wallet to another contract is known by the step that
\* submitted it.
ForeignCall(call) == Stamped(StepOf(call).call, call.attempt)
Accepted(id) ==
    \/ transactions[id] \in OwnersCalls
    \/ Succeeds(chain, Wallet, ForeignCall(transactions[id]))
\* What an execution by the wallet does to the contracts.
ChainAfterWallet ==
    chain' = IF executions' = executions THEN chain
             ELSE LET call == transactions'[Last(executions')]
                  IN IF call \in OwnersCalls THEN chain ELSE After(chain, ForeignCall(call))

-----------------------------------------------------------------------------
Init ==
    /\ \E i \in DOMAIN Jobs : job = Jobs[i]
    /\ chain = job.chain
    /\ operator = [script |-> 1, pc |-> 1, status |-> "running"]
    /\ attempts = [script \in DOMAIN Scripts |-> 0]
    /\ proposals = {}
    /\ WalletInit

Script == Scripts[operator.script]
Current == Script[operator.pc]
Here == [script |-> operator.script, step |-> operator.pc]
Running == operator.status = "running" /\ operator.pc <= Len(Script)
AtStep(kind) == Running /\ Current.kind = kind /\ \A c \in Current.when : Holds(chain, c)
Advance == operator' = [operator EXCEPT !.pc = @ + 1]
Stop(status) == operator' = [operator EXCEPT !.status = status]

\* The body of an if whose condition does not hold.
Skip ==
    /\ Running /\ \E c \in Current.when : ~Holds(chain, c)
    /\ Advance
    /\ UNCHANGED <<job, chain, attempts, proposals, walletVars>>

\* A transaction of the operator's account; when it reverts, the script ends.
Transact ==
    LET call == Stamped(Current.call, attempts[operator.script]) IN
    /\ AtStep("do")
    /\ \/ /\ Succeeds(chain, Operator, call)
          /\ chain' = After(chain, call)
          /\ Advance
       \/ /\ ~Succeeds(chain, Operator, call)
          /\ Stop("reverted")
          /\ UNCHANGED chain
    /\ UNCHANGED <<job, attempts, proposals, walletVars>>

\* sendWithMultisig; the call itself waits for the quorum.
Submit ==
    /\ \/ AtStep("queue")
          /\ submitTransaction(Operator,
                 [script |-> operator.script, step |-> operator.pc,
                  attempt |-> attempts[operator.script]], TRUE)
       \/ AtStep("owners") /\ submitTransaction(Operator, Current.call, TRUE)
    /\ Advance
    /\ ChainAfterWallet
    /\ UNCHANGED <<job, attempts, proposals>>

\* What the wallet's modifiers refuse: a call by an owner who is none any more, or
\* about a transaction that is not as the operator takes it to be.
WalletReverts ==
    /\ \/ (AtStep("queue") \/ AtStep("owners")) /\ Operator \notin owners
       \/ AtStep("confirm") /\ ~MayConfirm(Operator, Current.call)
       \/ (AtStep("revoke") \/ AtStep("execute")) /\ ~HasConfirmed(Operator, Current.call)
    /\ Stop("reverted")
    /\ UNCHANGED <<job, chain, attempts, proposals, walletVars>>

\* The scripts about a transaction of the wallet.
ConfirmStep ==
    /\ AtStep("confirm")
    /\ confirmTransaction(Operator, Current.call, Accepted(Current.call))
    /\ Advance
    /\ ChainAfterWallet
    /\ UNCHANGED <<job, attempts, proposals>>
RevokeStep ==
    /\ AtStep("revoke")
    /\ revokeConfirmation(Operator, Current.call)
    /\ Advance
    /\ UNCHANGED <<job, chain, attempts, proposals>>
ExecuteStep ==
    /\ AtStep("execute")
    /\ executeTransaction(Operator, Current.call, Accepted(Current.call))
    /\ Advance
    /\ ChainAfterWallet
    /\ UNCHANGED <<job, attempts, proposals>>

Check ==
    /\ \/ AtStep("expect")
          /\ IF \A c \in Current.call.needs : Holds(chain, c) THEN Advance ELSE Stop("raised")
       \/ AtStep("raise") /\ Stop("raised")
    /\ UNCHANGED <<job, chain, attempts, proposals, walletVars>>

Propose ==
    /\ \/ AtStep("propose") /\ proposals' = proposals \cup {Here}
       \/ AtStep("draft") /\ UNCHANGED proposals
    /\ Advance
    /\ UNCHANGED <<job, chain, attempts, walletVars>>

NextScript ==
    /\ operator.status = "running" /\ operator.pc > Len(Script)
    /\ operator.script < Len(Scripts)
    /\ operator' = [operator EXCEPT !.script = @ + 1, !.pc = 1]
    /\ UNCHANGED <<job, chain, attempts, proposals, walletVars>>

-----------------------------------------------------------------------------
\* The process of the script dies, after one of its transactions and before the next.
Crash ==
    /\ Running /\ operator.pc > 1
    /\ attempts[operator.script] < job.reruns
    /\ Stop("crashed")
    /\ UNCHANGED <<job, chain, attempts, proposals, walletVars>>
Rerun ==
    /\ operator.status = "crashed"
    /\ operator' = [operator EXCEPT !.pc = 1, !.status = "running"]
    /\ attempts' = [attempts EXCEPT ![operator.script] = @ + 1]
    /\ UNCHANGED <<job, chain, proposals, walletVars>>

\* confirmMultipleTxsWithMS confirms a range of transactions one by one; single
\* ones are confirmed in any order.
Confirm(owner, id) ==
    /\ owner \in job.cosigners
    /\ job.inOrder => \A earlier \in 1 .. id - 1 : ~MayConfirm(owner, earlier)
    /\ confirmTransaction(owner, id, Accepted(id))
    /\ ChainAfterWallet
    /\ UNCHANGED <<job, operator, attempts, proposals>>
\* A transaction that has the quorum and failed is executed by hand.
Retry(owner, id) ==
    /\ job.retries
    /\ executeTransaction(owner, id, Accepted(id))
    /\ ChainAfterWallet
    /\ UNCHANGED <<job, operator, attempts, proposals>>

\* The timelock of the governor makes all calls of the proposal, or none; the way of
\* a proposal to that point is the subject of GovernorAlpha.
Timelocks == {"TimelockOwner", "TimelockAdmin"}
AllMade(proposal, from) ==
    LET timelock == IF proposal.governor = "GovernorOwner" THEN "TimelockOwner" ELSE "TimelockAdmin"
    IN FoldLeft(LAMBDA result, call :
                    IF result.succeeds /\ Succeeds(result.chain, timelock, call)
                    THEN [result EXCEPT !.chain = After(@, call)]
                    ELSE [succeeds |-> FALSE, chain |-> from],
                [succeeds |-> TRUE, chain |-> from], proposal.calls)
Made(at) == AllMade(StepOf(at).call, chain)
ExecuteProposal(at) ==
    /\ Made(at).succeeds
    /\ chain' = Made(at).chain
    /\ proposals' = proposals \ {at}
    /\ UNCHANGED <<job, operator, attempts, walletVars>>

Next ==
    \/ Skip \/ Transact \/ Submit \/ WalletReverts \/ ConfirmStep \/ RevokeStep \/ ExecuteStep
    \/ Check \/ Propose \/ NextScript \/ Crash \/ Rerun
    \/ \E owner \in Accounts, id \in DOMAIN transactions : Confirm(owner, id) \/ Retry(owner, id)
    \/ \E at \in proposals : ExecuteProposal(at)

Spec == Init /\ [][Next]_vars

-----------------------------------------------------------------------------
(* What the jobs are to leave behind.                                       *)

\* A script as its author reads it: what it submits happens at once.
Done(script, attempt, from) ==
    FoldLeft(LAMBDA result, step :
        LET call == Stamped(step.call, attempt)
            by == IF step.kind = "do" THEN Operator ELSE Wallet
        IN CASE result.stopped \/ (\E c \in step.when : ~Holds(result.chain, c)) -> result
             [] step.kind \in {"do", "queue"} ->
                    IF Succeeds(result.chain, by, call)
                    THEN [result EXCEPT !.chain = After(@, call)]
                    ELSE [result EXCEPT !.stopped = (step.kind = "do")]
             [] step.kind = "propose" -> [result EXCEPT !.chain = AllMade(step.call, @).chain]
             [] step.kind = "expect" ->
                    [result EXCEPT !.stopped = \E c \in step.call.needs : ~Holds(result.chain, c)]
             [] step.kind = "raise" -> [result EXCEPT !.stopped = TRUE]
             [] OTHER -> result,
        [chain |-> from, stopped |-> FALSE], script)
Written ==
    FoldLeft(LAMBDA from, i : Done(Scripts[i], attempts[i], from).chain,
             job.chain, [i \in 1 .. operator.script |-> i])

Settled ==
    /\ operator.status \in {"raised", "reverted"} \/ operator.pc > Len(Script)
    /\ operator.script = Len(Scripts)
    /\ \A owner \in job.cosigners, id \in DOMAIN transactions : ~MayConfirm(owner, id)
    /\ proposals = {}

Undisturbed == job.inOrder /\ job.reruns = 0
KnownToFail(call) == call \notin OwnersCalls /\ <<call.script, call.step>> \in job.fails

\* When nothing disturbs a script and another owner confirms its transactions in
\* their order, however late, nothing it does fails: the tokens it moves were
\* approved before, each contract is still or already the one the call needs, the
\* caller has the role, and what was read when the call was made up still holds when the
\* call is made.  Only the scripts known to stop raise an exception, and only the
\* calls known to fail do.
NothingFails ==
    Undisturbed =>
        /\ operator.status = "reverted" => <<operator.script, operator.pc>> \in job.fails
        /\ operator.status = "raised" => job.stops
        /\ \A id \in DOMAIN transactions :
               isConfirmed(id, confirmations) => id \in executed \/ KnownToFail(transactions[id])
        /\ \A at \in proposals : Made(at).succeeds

\* Whenever the other owner confirms, the contracts end as the script reads; and so
\* they do, with the modules of its last run, when a script that sets modules,
\* settings or roles died and was run again from its beginning.  A script that pays
\* is not run again by the jobs: its payments would be submitted twice.
EndsAsWritten == job.inOrder /\ job.fails = {} /\ Settled => chain = Written

HandedOver(contract) == Read(chain, Slot(contract, "owner", "")) \in Timelocks
Governing == {"owner", "admin", "pauser", "target", "beacon", "module"}
\* Once a contract belongs to a timelock, its roles and its logic change only by a
\* proposal, whatever the wallet still has to execute from before.
HandOverIsFinal ==
    [][\A slot \in DOMAIN chain'.slots :
           slot[2] \in Governing /\ HandedOver(slot[1]) /\ Read(chain', slot) # Read(chain, slot)
               => \E at \in proposals : at \notin proposals']_vars
=============================================================================
