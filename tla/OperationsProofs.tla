-------------------------- MODULE OperationsProofs --------------------------
(***************************************************************************)
(* Theorems of MultiSigWallet: whatever accounts, calls and quorum, the    *)
(* wallet never locks itself or opens, makes no transaction twice, and     *)
(* changes its owners by a quorum of them.                                 *)
(* And of Operations: whatever scripts are run and wherever they die, all  *)
(* that they and the owners do to the wallet is a step of the wallet.      *)
(***************************************************************************)
EXTENDS Operations, FiniteSetTheorems, TLAPS

USE WalletAssumption

OwnersOK ==
    /\ owners \subseteq Addresses
    /\ required \in 1..Cardinality(owners)
    /\ Cardinality(owners) <= MAX_OWNER_COUNT
BooksOK ==
    /\ transactions \in Seq(OwnersCalls \cup ForeignCalls)
    /\ executions \in Seq(DOMAIN transactions)
    /\ \A i, j \in DOMAIN executions : executions[i] = executions[j] => i = j
    /\ confirmations \subseteq (DOMAIN transactions) \X Addresses

LEMMA InvParts == WalletInv <=> OwnersOK /\ BooksOK
BY DEF WalletInv, OwnersOK, BooksOK

LEMMA AddressesFinite == IsFiniteSet(Addresses)
BY FS_AddElement DEF Addresses

LEMMA OwnersFinite ==
    ASSUME OwnersOK
    PROVE  IsFiniteSet(owners) /\ Cardinality(owners) \in Nat
BY AddressesFinite, FS_Subset, FS_CardinalityType DEF OwnersOK

\* A call of the wallet to itself that is accepted leaves a quorum its owners can reach.
LEMMA AddKeeps ==
    ASSUME OwnersOK, NEW call \in OwnersCalls, call.op = "addOwner", Accepts(call), addOwner(call)
    PROVE  OwnersOK'
<1>1. IsFiniteSet(owners) /\ Cardinality(owners) \in Nat
  BY OwnersFinite
<1>2. call.new \in Addresses /\ call.new \notin owners
      /\ validRequirement(Cardinality(owners) + 1, required)
  BY DEF OwnersCalls, Accepts
<1>3. owners' = owners \cup {call.new} /\ required' = required
  BY DEF addOwner
<1>4. Cardinality(owners') = Cardinality(owners) + 1
  BY <1>1, <1>2, <1>3, FS_AddElement
<1> QED
  BY <1>1, <1>2, <1>3, <1>4 DEF OwnersOK, validRequirement

LEMMA RemoveKeeps ==
    ASSUME OwnersOK, NEW call \in OwnersCalls, call.op = "removeOwner", Accepts(call), removeOwner(call)
    PROVE  OwnersOK'
<1>1. IsFiniteSet(owners) /\ Cardinality(owners) \in Nat
  BY OwnersFinite
<1>2. call.old \in owners
      /\ (required > Cardinality(owners) - 1
              => validRequirement(Cardinality(owners) - 1, Cardinality(owners) - 1))
  BY DEF Accepts
<1>3. owners' = owners \ {call.old}
  BY DEF removeOwner
<1>4. Cardinality(owners') = Cardinality(owners) - 1
  BY <1>1, <1>2, <1>3, FS_RemoveElement
<1>5. required' = IF required > Cardinality(owners) - 1 THEN Cardinality(owners) - 1 ELSE required
  BY DEF removeOwner
<1> QED
  BY <1>1, <1>2, <1>3, <1>4, <1>5 DEF OwnersOK, validRequirement

LEMMA ReplaceKeeps ==
    ASSUME OwnersOK, NEW call \in OwnersCalls, call.op = "replaceOwner", Accepts(call), replaceOwner(call)
    PROVE  OwnersOK'
<1>1. IsFiniteSet(owners) /\ Cardinality(owners) \in Nat
  BY OwnersFinite
<1>2. call.new \in Addresses /\ call.old \in owners /\ call.new \notin owners
  BY DEF OwnersCalls, Accepts
<1>3. owners' = (owners \ {call.old}) \cup {call.new} /\ required' = required
  BY DEF replaceOwner
<1>4. IsFiniteSet(owners \ {call.old}) /\ Cardinality(owners \ {call.old}) = Cardinality(owners) - 1
  BY <1>1, <1>2, FS_RemoveElement
<1>5. Cardinality((owners \ {call.old}) \cup {call.new}) = Cardinality(owners \ {call.old}) + 1
  BY <1>2, <1>4, FS_AddElement
<1>6. Cardinality(owners') = Cardinality(owners)
  BY <1>1, <1>3, <1>4, <1>5
<1> QED
  BY <1>2, <1>3, <1>6 DEF OwnersOK

LEMMA ChangeKeeps ==
    ASSUME OwnersOK, NEW call \in OwnersCalls, call.op = "changeRequirement", Accepts(call),
           changeRequirement(call)
    PROVE  OwnersOK'
<1>1. Cardinality(owners) \in Nat /\ call.n \in Nat
  BY OwnersFinite DEF OwnersCalls
<1>2. validRequirement(Cardinality(owners), call.n)
  BY DEF Accepts
<1> QED
  BY <1>1, <1>2 DEF changeRequirement, OwnersOK, validRequirement

LEMMA OwnersCallKeeps ==
    ASSUME OwnersOK, NEW call \in OwnersCalls, Accepts(call), OwnersCallDone(call)
    PROVE  OwnersOK'
BY AddKeeps, RemoveKeeps, ReplaceKeeps, ChangeKeeps DEF OwnersCallDone

\* The quorum is the condition of an execution, and only this transaction is executed.
Executes(id, given) ==
    \/ UNCHANGED <<owners, required, executions>>
    \/ executions' = Append(executions, id) /\ isConfirmed(id, given)

LEMMA ExecutionKeeps ==
    ASSUME OwnersOK, NEW id, NEW call, NEW given, NEW succeeds,
           ExecuteIfConfirmed(id, call, given, succeeds)
    PROVE  /\ OwnersOK'
           /\ Executes(id, given)
           /\ call \notin OwnersCalls => UNCHANGED <<owners, required>>
<1>1. ASSUME UNCHANGED <<owners, required>>
      PROVE  OwnersOK'
  BY <1>1 DEF OwnersOK
<1>2. ASSUME ~isConfirmed(id, given), UNCHANGED <<owners, required, executions>>
      PROVE  /\ OwnersOK' /\ Executes(id, given) /\ UNCHANGED <<owners, required>>
  BY <1>1, <1>2 DEF Executes
<1>3. ASSUME isConfirmed(id, given), external_call(id, call, succeeds)
      PROVE  /\ OwnersOK' /\ Executes(id, given)
             /\ call \notin OwnersCalls => UNCHANGED <<owners, required>>
  <2>1. CASE call \in OwnersCalls /\ Accepts(call) /\ OwnersCallDone(call)
                /\ executions' = Append(executions, id)
    BY <1>3, <2>1, OwnersCallKeeps DEF Executes
  <2>2. CASE call \notin OwnersCalls /\ executions' = Append(executions, id)
                /\ UNCHANGED <<owners, required>>
    BY <1>1, <1>3, <2>2 DEF Executes
  <2>3. CASE UNCHANGED <<owners, required, executions>>
    BY <1>1, <2>3 DEF Executes
  <2> QED BY <1>3, <2>1, <2>2, <2>3 DEF external_call
<1> QED BY <1>2, <1>3 DEF ExecuteIfConfirmed

\* One more transaction in the log of those made.
LEMMA LogGrows ==
    ASSUME NEW S, NEW log \in Seq(S), NEW T, S \subseteq T, NEW id \in T,
           \A i \in DOMAIN log : log[i] # id,
           \A i, j \in DOMAIN log : log[i] = log[j] => i = j,
           NEW longer, longer = Append(log, id)
    PROVE  /\ longer \in Seq(T)
           /\ \A i, j \in DOMAIN longer : longer[i] = longer[j] => i = j
           /\ {longer[i] : i \in DOMAIN longer} = {log[i] : i \in DOMAIN log} \cup {id}
<1> DEFINE n == Len(log)
<1>1. n \in Nat /\ DOMAIN log = 1..n /\ \A i \in 1..n : log[i] \in S
  OBVIOUS
<1>2. /\ DOMAIN longer = 1..(n + 1) /\ Len(longer) = n + 1
      /\ longer[n + 1] = id
      /\ \A i \in 1..n : longer[i] = log[i]
  BY <1>1
<1>3. \A i \in 1..(n + 1) : i \in 1..n \/ i = n + 1
  BY <1>1
<1>4. 1..n \subseteq 1..(n + 1) /\ n + 1 \in 1..(n + 1)
  BY <1>1
<1>5. longer \in Seq(T)
  <2>1. log \in Seq(T)
    BY <1>1
  <2> QED BY <2>1
<1> HIDE DEF n
<1>6. \A i, j \in DOMAIN longer : longer[i] = longer[j] => i = j
  BY <1>1, <1>2, <1>3
<1>7. {longer[i] : i \in DOMAIN longer} = {log[i] : i \in DOMAIN log} \cup {id}
  BY <1>1, <1>2, <1>3, <1>4
<1> QED BY <1>5, <1>6, <1>7

\* A log of the same transactions, of which there are more.
LEMMA LogStays ==
    ASSUME NEW S, NEW log \in Seq(S), NEW T, S \subseteq T
    PROVE  log \in Seq(T)
OBVIOUS

-----------------------------------------------------------------------------
\* The result of a step of the wallet: the invariant; nothing of what was submitted or
\* executed is lost; what was executed keeps its confirmations; and the owners change
\* only by the execution of a call about them, with a quorum.
ConfirmedBy(id) == {owner \in owners : <<id, owner>> \in confirmations'}
StepOK ==
    /\ WalletInv'
    /\ executed \subseteq executed'
    /\ \A id \in DOMAIN transactions :
           id \in DOMAIN transactions' /\ transactions'[id] = transactions[id]
    /\ \A id \in executed, a \in Addresses :
           <<id, a>> \in confirmations => <<id, a>> \in confirmations'
    /\ \/ UNCHANGED <<owners, required>>
       \/ \E id \in executed' :
              transactions'[id] \in OwnersCalls /\ Cardinality(ConfirmedBy(id)) >= required

\* What a step keeps that submits nothing new but for the last transaction, confirms
\* and perhaps executes.
LEMMA ExecutionIsStep ==
    ASSUME WalletInv, NEW id \in DOMAIN transactions', id \notin executed,
           transactions' \in Seq(OwnersCalls \cup ForeignCalls),
           DOMAIN transactions \subseteq DOMAIN transactions',
           \A x \in DOMAIN transactions : transactions'[x] = transactions[x],
           confirmations \subseteq confirmations',
           confirmations' \subseteq (DOMAIN transactions') \X Addresses,
           NEW succeeds, ExecuteIfConfirmed(id, transactions'[id], confirmations', succeeds)
    PROVE  StepOK
<1>1. OwnersOK /\ BooksOK
  BY InvParts
<1>2. /\ OwnersOK'
      /\ Executes(id, confirmations')
      /\ transactions'[id] \notin OwnersCalls => UNCHANGED <<owners, required>>
  BY <1>1, ExecutionKeeps
<1>3. CASE UNCHANGED <<owners, required, executions>>
  <2>1. executions \in Seq(DOMAIN transactions)
    BY <1>1 DEF BooksOK
  <2>2. executions \in Seq(DOMAIN transactions')
    BY <2>1, LogStays
  <2>3. BooksOK'
    BY <1>1, <1>3, <2>2 DEF BooksOK
  <2>4. executed' = executed
    BY <1>3 DEF executed
  <2>5. WalletInv'
    BY <1>2, <2>3 DEF WalletInv, OwnersOK, BooksOK
  <2> QED BY <1>3, <2>4, <2>5 DEF StepOK
<1>4. CASE executions' = Append(executions, id) /\ isConfirmed(id, confirmations')
  <2>1. /\ executions \in Seq(DOMAIN transactions)
        /\ \A i, j \in DOMAIN executions : executions[i] = executions[j] => i = j
    BY <1>1 DEF BooksOK
  <2>2. \A i \in DOMAIN executions : executions[i] # id
    BY DEF executed
  <2>3. /\ executions' \in Seq(DOMAIN transactions')
        /\ \A i, j \in DOMAIN executions' : executions'[i] = executions'[j] => i = j
        /\ executed' = executed \cup {id}
    <3> DEFINE log == executions
               longer == executions'
               S == DOMAIN transactions
               T == DOMAIN transactions'
    <3>1. /\ log \in Seq(S) /\ S \subseteq T /\ id \in T
          /\ \A i \in DOMAIN log : log[i] # id
          /\ \A i, j \in DOMAIN log : log[i] = log[j] => i = j
      BY <2>1, <2>2
    <3>2. longer = Append(log, id)
      BY <1>4
    <3>3. executed = {log[i] : i \in DOMAIN log}
      BY DEF executed
    <3>4. executed' = {longer[i] : i \in DOMAIN longer}
      BY DEF executed
    <3> HIDE DEF log, longer, S, T
    <3>5. /\ longer \in Seq(T)
          /\ \A i, j \in DOMAIN longer : longer[i] = longer[j] => i = j
          /\ {longer[i] : i \in DOMAIN longer} = {log[i] : i \in DOMAIN log} \cup {id}
      BY ONLY <3>1, <3>2, LogGrows
    <3> QED BY <3>3, <3>4, <3>5 DEF T, longer
  <2>4. BooksOK'
    BY <2>3 DEF BooksOK
  <2>5. WalletInv'
    BY <1>2, <2>4 DEF WalletInv, OwnersOK, BooksOK
  <2>6. Cardinality(ConfirmedBy(id)) >= required
    BY <1>4 DEF isConfirmed, ConfirmedBy
  <2> QED BY <1>2, <2>3, <2>5, <2>6 DEF StepOK
<1> QED BY <1>2, <1>3, <1>4 DEF Executes

LEMMA SubmitKeeps ==
    ASSUME WalletInv, NEW sender \in Accounts, NEW call \in OwnersCalls \cup ForeignCalls,
           NEW succeeds \in BOOLEAN, submitTransaction(sender, call, succeeds)
    PROVE  StepOK
<1> DEFINE id == Len(transactions) + 1
<1>1. BooksOK
  BY InvParts
<1>2. /\ transactions' = Append(transactions, call)
      /\ confirmations' = confirmations \cup {<<id, sender>>}
      /\ ExecuteIfConfirmed(id, call, confirmations', succeeds)
  BY DEF submitTransaction
<1>3. /\ transactions' \in Seq(OwnersCalls \cup ForeignCalls)
      /\ DOMAIN transactions' = DOMAIN transactions \cup {id}
      /\ transactions'[id] = call
      /\ \A x \in DOMAIN transactions : transactions'[x] = transactions[x]
      /\ id \notin DOMAIN transactions
  BY <1>1, <1>2 DEF BooksOK
<1> HIDE DEF id
<1>4. id \notin executed
  BY <1>1, <1>3 DEF executed, BooksOK
<1>5. confirmations' \subseteq (DOMAIN transactions') \X Addresses
  BY <1>1, <1>2, <1>3 DEF BooksOK, Addresses
<1>6. /\ id \in DOMAIN transactions' /\ DOMAIN transactions \subseteq DOMAIN transactions'
      /\ confirmations \subseteq confirmations'
      /\ ExecuteIfConfirmed(id, transactions'[id], confirmations', succeeds)
  <2>1. /\ id \in DOMAIN transactions' /\ DOMAIN transactions \subseteq DOMAIN transactions'
        /\ confirmations \subseteq confirmations'
    BY <1>2, <1>3
  <2>2. transactions'[id] = call /\ ExecuteIfConfirmed(id, call, confirmations', succeeds)
    BY <1>2, <1>3
  <2> QED BY ONLY <2>1, <2>2
<1> QED
  BY <1>3, <1>4, <1>5, <1>6, ExecutionIsStep

LEMMA ConfirmKeeps ==
    ASSUME WalletInv, NEW sender \in Accounts, NEW id \in DOMAIN transactions,
           NEW succeeds \in BOOLEAN, confirmTransaction(sender, id, succeeds)
    PROVE  StepOK
<1>1. BooksOK
  BY InvParts
<1>2. /\ transactions' = transactions
      /\ confirmations' = confirmations \cup {<<id, sender>>}
      /\ ExecuteIfConfirmed(id, transactions[id], confirmations', succeeds)
      /\ id \notin executed
  BY DEF confirmTransaction, MayConfirm
<1>3. confirmations' \subseteq (DOMAIN transactions') \X Addresses
  BY <1>1, <1>2 DEF BooksOK, Addresses
<1>4. transactions' \in Seq(OwnersCalls \cup ForeignCalls)
  BY <1>1, <1>2 DEF BooksOK
<1> QED
  BY <1>2, <1>3, <1>4, ExecutionIsStep

LEMMA RevokeKeeps ==
    ASSUME WalletInv, NEW sender \in Accounts, NEW id \in DOMAIN transactions,
           revokeConfirmation(sender, id)
    PROVE  StepOK
<1>1. /\ confirmations' = confirmations \ {<<id, sender>>} /\ id \notin executed
      /\ UNCHANGED <<owners, required, transactions, executions>>
  BY DEF revokeConfirmation, HasConfirmed
<1>2. WalletInv' /\ executed' = executed
  BY <1>1 DEF WalletInv, executed
<1>3. \A x \in executed, a \in Addresses :
          <<x, a>> \in confirmations => <<x, a>> \in confirmations'
  BY <1>1
<1> QED
  BY <1>1, <1>2, <1>3 DEF StepOK

LEMMA ExecuteKeeps ==
    ASSUME WalletInv, NEW sender \in Accounts, NEW id \in DOMAIN transactions,
           NEW succeeds \in BOOLEAN, executeTransaction(sender, id, succeeds)
    PROVE  StepOK
<1>1. BooksOK
  BY InvParts
<1>2. /\ transactions' = transactions /\ confirmations' = confirmations
      /\ ExecuteIfConfirmed(id, transactions[id], confirmations, succeeds)
      /\ id \notin executed
  BY DEF executeTransaction, HasConfirmed
<1>3. /\ confirmations' \subseteq (DOMAIN transactions') \X Addresses
      /\ transactions' \in Seq(OwnersCalls \cup ForeignCalls)
  BY <1>1, <1>2 DEF BooksOK
<1> QED
  BY <1>2, <1>3, ExecutionIsStep

LEMMA WalletStep ==
    ASSUME WalletInv, [WalletNext]_walletVars
    PROVE  StepOK
<1>1. ASSUME UNCHANGED walletVars PROVE StepOK
  BY <1>1 DEF walletVars, StepOK, WalletInv, executed
<1>2. ASSUME WalletNext PROVE StepOK
  BY <1>2, SubmitKeeps, ConfirmKeeps, RevokeKeeps, ExecuteKeeps DEF WalletNext
<1> QED
  BY <1>1, <1>2

\* The first change of the owners has the quorum of the first owners, and keeps it.
LEMMA FirstChangeIsConfirmed ==
    ASSUME WalletInv, OwnersChangeByQuorum, [WalletNext]_walletVars
    PROVE  OwnersChangeByQuorum'
<1>1. StepOK
  BY WalletStep
<1> DEFINE By(id) == {a \in InitialOwners : <<id, a>> \in confirmations}
<1>2. \A id : IsFiniteSet(By(id)')
  <2>1. IsFiniteSet(InitialOwners)
    BY FS_Subset
  <2>2. \A id : By(id)' \subseteq InitialOwners
    OBVIOUS
  <2> QED BY <2>1, <2>2, FS_Subset
<1>3. ASSUME NEW id \in executed, transactions[id] \in OwnersCalls,
             Cardinality(By(id)) >= InitialRequired
      PROVE  OwnersChangeByQuorum'
  <2>1. id \in executed' /\ transactions'[id] = transactions[id]
    <3>1. id \in DOMAIN transactions
      BY DEF WalletInv, executed
    <3> QED BY <1>1, <3>1 DEF StepOK
  <2>2. By(id) \subseteq By(id)'
    BY <1>1 DEF StepOK, Addresses
  <2>3. /\ Cardinality(By(id)) \in Nat /\ Cardinality(By(id)') \in Nat
        /\ Cardinality(By(id)) <= Cardinality(By(id)')
    <3>1. IsFiniteSet(By(id)')
      BY <1>2
    <3> HIDE DEF By
    <3> QED BY <2>2, <3>1, FS_Subset, FS_CardinalityType
  <2>4. Cardinality(By(id)') >= InitialRequired
    <3>1. InitialRequired \in Nat
      OBVIOUS
    <3> HIDE DEF By
    <3> QED BY <1>3, <2>3, <3>1
  <2>5. transactions'[id] \in OwnersCalls
    BY <1>3, <2>1
  <2>6. \E x \in executed' :
            /\ transactions'[x] \in OwnersCalls
            /\ Cardinality({a \in InitialOwners : <<x, a>> \in confirmations'}) >= InitialRequired
    BY <2>1, <2>4, <2>5
  <2> QED BY <2>6 DEF OwnersChangeByQuorum, OwnersCalls, Addresses
<1>4. ASSUME owners = InitialOwners, required = InitialRequired
      PROVE  OwnersChangeByQuorum'
  <2>1. CASE UNCHANGED <<owners, required>>
    BY <1>4, <2>1 DEF OwnersChangeByQuorum
  <2>2. CASE \E id \in executed' :
                 transactions'[id] \in OwnersCalls /\ Cardinality(ConfirmedBy(id)) >= required
    BY <1>4, <2>2 DEF OwnersChangeByQuorum, ConfirmedBy
  <2> QED BY <1>1, <2>1, <2>2 DEF StepOK
<1> QED BY <1>3, <1>4 DEF OwnersChangeByQuorum

-----------------------------------------------------------------------------
\* However its owners come, leave and change their quorum, by transactions in any
\* order, the wallet keeps between one and all of its owners as the quorum, and it
\* makes no transaction that was not submitted, and none twice.
THEOREM QuorumReachable == WalletSpec => []WalletInv
<1>1. WalletInit => WalletInv
  <2> SUFFICES ASSUME WalletInit
               PROVE  WalletInv
    OBVIOUS
  <2>1. Cardinality(InitialOwners) \in Nat
    BY FS_Subset, FS_CardinalityType
  <2>2. OwnersOK
    BY <2>1 DEF WalletInit, OwnersOK, validRequirement, Addresses
  <2>3. BooksOK
    BY DEF WalletInit, BooksOK
  <2> QED BY <2>2, <2>3, InvParts
<1>2. WalletInv /\ [WalletNext]_walletVars => WalletInv'
  BY WalletStep DEF StepOK
<1> QED
  BY <1>1, <1>2, PTL DEF WalletSpec

\* The owners and their quorum are the first ones until a transaction about them was
\* made that a quorum of the first owners has confirmed and nobody can revoke any
\* more: whoever comes later, and whatever quorum they set.
THEOREM OwnersNeedQuorum == WalletSpec => []OwnersChangeByQuorum
<1>1. WalletInit => OwnersChangeByQuorum
  BY DEF WalletInit, OwnersChangeByQuorum
<1>2. WalletInv /\ OwnersChangeByQuorum /\ [WalletNext]_walletVars => OwnersChangeByQuorum'
  BY FirstChangeIsConfirmed
<1> QED
  BY <1>1, <1>2, QuorumReachable, PTL DEF WalletSpec
-----------------------------------------------------------------------------
\* Where an operator can be: at a step of a script of the job, which was started again
\* no more often than it may be.
Statuses == {"running", "crashed", "raised", "reverted"}
OperatorOK ==
    /\ \E i \in DOMAIN Jobs : job = Jobs[i]
    /\ operator \in [script : DOMAIN Scripts, pc : Nat \ {0}, status : Statuses]
    /\ attempts \in [DOMAIN Scripts -> 0 .. job.reruns]
    /\ operator.status = "crashed" => attempts[operator.script] < job.reruns

LEMMA ScriptsAreSequences ==
    ASSUME OperatorOK
    PROVE  /\ Len(Scripts) \in Nat \ {0} /\ DOMAIN Scripts = 1 .. Len(Scripts)
           /\ job.reruns \in Nat
           /\ \A s \in DOMAIN Scripts :
                  Len(Scripts[s]) \in Nat /\ DOMAIN Scripts[s] = 1 .. Len(Scripts[s])
<1>1. PICK i \in DOMAIN Jobs : job = Jobs[i]
  BY DEF OperatorOK
<1>2. Scripts \in Seq(Range(Scripts)) /\ Scripts # << >> /\ job.reruns \in Nat
  BY <1>1, JobsAssumption DEF Scripts
<1>3. \A s \in DOMAIN Scripts : Scripts[s] \in Seq(Range(Scripts[s]))
  BY <1>1, JobsAssumption DEF Scripts
<1>4. Len(Scripts) \in Nat /\ DOMAIN Scripts = 1 .. Len(Scripts) /\ Len(Scripts) # 0
  BY <1>2
<1> QED
  BY <1>2, <1>3, <1>4

LEMMA FirstStep ==
    ASSUME Init
    PROVE  OperatorOK
<1>1. PICK i \in DOMAIN Jobs : job = Jobs[i]
  BY DEF Init
<1>2. Scripts \in Seq(Range(Scripts)) /\ Scripts # << >> /\ job.reruns \in Nat
  BY <1>1, JobsAssumption DEF Scripts
<1>3. 1 \in DOMAIN Scripts
  BY <1>2
<1> QED
  BY <1>1, <1>2, <1>3 DEF Init, OperatorOK, Statuses

LEMMA OperatorStep ==
    ASSUME OperatorOK, [Next]_vars
    PROVE  OperatorOK'
<1>1. /\ Len(Scripts) \in Nat \ {0} /\ DOMAIN Scripts = 1 .. Len(Scripts)
      /\ job.reruns \in Nat
  BY ScriptsAreSequences
<1>2. job' = job /\ Scripts' = Scripts
  BY DEF Next, vars, Skip, Transact, Submit, WalletReverts, ConfirmStep, RevokeStep, ExecuteStep,
         Check, Propose, NextScript, Crash, Rerun, Confirm, Retry, ExecuteProposal, Scripts
<1>3. ASSUME operator' = operator, attempts' = attempts
      PROVE  OperatorOK'
  BY <1>2, <1>3 DEF OperatorOK
<1>4. ASSUME NEW status \in Statuses, Stop(status), attempts' = attempts,
             status = "crashed" => attempts[operator.script] < job.reruns
      PROVE  OperatorOK'
  BY <1>2, <1>4 DEF Stop, OperatorOK
<1>5. ASSUME operator.status = "running", Advance, attempts' = attempts
      PROVE  OperatorOK'
  BY <1>2, <1>5 DEF Advance, OperatorOK, Statuses
<1>6. ASSUME NextScript PROVE OperatorOK'
  <2>1. operator.script + 1 \in DOMAIN Scripts
    BY <1>1, <1>6 DEF NextScript, OperatorOK
  <2>2. operator \in [script : DOMAIN Scripts, pc : Nat \ {0}, status : Statuses]
    BY DEF OperatorOK
  <2>3. operator' = [script |-> operator.script + 1, pc |-> 1, status |-> "running"]
    BY <1>6, <2>2 DEF NextScript
  <2>4. attempts' = attempts
    BY <1>6 DEF NextScript
  <2> QED
    BY <1>2, <2>1, <2>3, <2>4 DEF OperatorOK, Statuses
<1>7. ASSUME Rerun PROVE OperatorOK'
  <2>1. attempts[operator.script] + 1 \in 0 .. job.reruns
    BY <1>1, <1>7 DEF Rerun, OperatorOK
  <2>2. operator \in [script : DOMAIN Scripts, pc : Nat \ {0}, status : Statuses]
    BY DEF OperatorOK
  <2>3. operator' = [script |-> operator.script, pc |-> 1, status |-> "running"]
    BY <1>7, <2>2 DEF Rerun
  <2>4. attempts' \in [DOMAIN Scripts -> 0 .. job.reruns]
    BY <1>7, <2>1 DEF Rerun, OperatorOK
  <2> QED
    BY <1>2, <2>2, <2>3, <2>4 DEF OperatorOK, Statuses
<1>8. ASSUME Crash PROVE OperatorOK'
  BY <1>4, <1>8 DEF Crash, Statuses
<1>9. ASSUME Transact \/ WalletReverts \/ Check PROVE OperatorOK'
  BY <1>4, <1>5, <1>9 DEF Transact, WalletReverts, Check, AtStep, Running, Statuses
<1>10. ASSUME Skip \/ Submit \/ ConfirmStep \/ RevokeStep \/ ExecuteStep \/ Propose
       PROVE OperatorOK'
  BY <1>5, <1>10 DEF Skip, Submit, ConfirmStep, RevokeStep, ExecuteStep, Propose, AtStep, Running
<1>11. ASSUME \/ UNCHANGED vars
              \/ \E owner \in Accounts, id \in DOMAIN transactions : Confirm(owner, id) \/ Retry(owner, id)
              \/ \E at \in proposals : ExecuteProposal(at)
       PROVE OperatorOK'
  BY <1>3, <1>11 DEF vars, Confirm, Retry, ExecuteProposal
<1> QED
  BY <1>6, <1>7, <1>8, <1>9, <1>10, <1>11 DEF Next

\* A submission by a script is one of the calls the wallet knows.
LEMMA SubmitIsWalletStep ==
    ASSUME OperatorOK, Submit
    PROVE  WalletNext
<1>1. PICK i \in DOMAIN Jobs : job = Jobs[i]
  BY DEF OperatorOK
<1>2. operator.script \in DOMAIN Scripts /\ operator.pc \in DOMAIN Script
  <2>1. operator.script \in DOMAIN Scripts /\ operator.pc \in Nat \ {0} /\ operator.pc <= Len(Script)
    BY DEF Submit, AtStep, Running, OperatorOK
  <2>2. Len(Script) \in Nat /\ DOMAIN Script = 1 .. Len(Script)
    BY <2>1, ScriptsAreSequences DEF Script
  <2> QED
    BY <2>1, <2>2
<1>3. Operator \in Accounts
  BY JobsAssumption
<1>4. ASSUME AtStep("queue")
      PROVE  [script |-> operator.script, step |-> operator.pc,
              attempt |-> attempts[operator.script]] \in ForeignCalls
  <2>1. Current.kind = "queue" /\ attempts[operator.script] \in 0 .. job.reruns
    BY <1>2, <1>4 DEF AtStep, OperatorOK
  <2> QED
    BY <1>1, <1>2, <2>1, JobsAssumption DEF Current, Script, Scripts
<1>5. ASSUME AtStep("owners")
      PROVE  Current.call \in OwnersCalls
  BY <1>1, <1>2, <1>5, JobsAssumption DEF AtStep, Current, Script, Scripts
<1>6. \E call \in OwnersCalls \cup ForeignCalls : submitTransaction(Operator, call, TRUE)
  BY <1>4, <1>5 DEF Submit
<1> QED
  BY <1>3, <1>6 DEF WalletNext

LEMMA OperationsStep ==
    ASSUME OperatorOK, [Next]_vars
    PROVE  [WalletNext]_walletVars
<1>1. ASSUME UNCHANGED vars PROVE UNCHANGED walletVars
  BY <1>1 DEF vars
<1>2. ASSUME \/ Skip \/ Transact \/ WalletReverts \/ Check \/ Propose \/ NextScript
             \/ Crash \/ Rerun \/ \E at \in proposals : ExecuteProposal(at)
      PROVE  UNCHANGED walletVars
  BY <1>2 DEF Skip, Transact, WalletReverts, Check, Propose, NextScript, Crash, Rerun, ExecuteProposal
<1>3. \A id : Accepted(id) \in BOOLEAN
  BY DEF Accepted
<1>4. Operator \in Accounts
  BY JobsAssumption
<1>5. ASSUME ConfirmStep \/ RevokeStep \/ ExecuteStep
      PROVE  WalletNext
  <2>1. Current.call \in DOMAIN transactions
    BY <1>5 DEF ConfirmStep, RevokeStep, ExecuteStep, confirmTransaction, revokeConfirmation,
                executeTransaction, MayConfirm, HasConfirmed
  <2> QED
    BY <1>3, <1>4, <1>5, <2>1 DEF ConfirmStep, RevokeStep, ExecuteStep, WalletNext
<1>6. ASSUME NEW owner \in Accounts, NEW id \in DOMAIN transactions,
             Confirm(owner, id) \/ Retry(owner, id)
      PROVE  WalletNext
  BY <1>3, <1>6 DEF Confirm, Retry, WalletNext
<1> QED
  BY <1>1, <1>2, <1>5, <1>6, SubmitIsWalletStep DEF Next

\* Whatever scripts are run, in whatever order they are confirmed, wherever they die and are
\* run again: what happens to the wallet is what MultiSigWallet lets its owners do.
THEOREM OperationsImplementWallet == Spec => WalletSpec
<1>1. Init => WalletInit
  BY DEF Init
<1>2. Init => OperatorOK
  BY FirstStep
<1>3. OperatorOK /\ [Next]_vars => OperatorOK'
  BY OperatorStep
<1>4. OperatorOK /\ [Next]_vars => [WalletNext]_walletVars
  BY OperationsStep
<1> QED
  BY <1>1, <1>2, <1>3, <1>4, PTL DEF Spec, WalletSpec

\* No script, and no order of confirmations, brings the wallet to a quorum its owners
\* cannot reach or to books of a transaction that nobody submitted.
THEOREM OperatedWalletStaysUsable == Spec => []WalletInv
BY OperationsImplementWallet, QuorumReachable, PTL

\* No script and no operator who confirms, revokes and tries again changes the owners
\* without a quorum of those that were there before any of it.
THEOREM OperationsNeedQuorum == Spec => []OwnersChangeByQuorum
BY OperationsImplementWallet, OwnersNeedQuorum, PTL
=============================================================================
