------------------------------ MODULE Timelock ------------------------------
(***************************************************************************)
(* contracts/governance/Timelock.sol: a queue of announced calls that its  *)
(* admin may run once their eta is reached and until the grace period ends.*)
(*                                                                         *)
(* A call made by the timelock to itself (setDelay, setPendingAdmin)       *)
(* changes the timelock; any other call only matters by having been made.  *)
(* The admin is a contract that may make several calls in one transaction, *)
(* so an action takes a sequence of transactions; a call that reverts      *)
(* reverts them all, and is therefore not a step.                          *)
(***************************************************************************)
EXTENDS Naturals, Sequences, FiniteSets, Functions

CONSTANTS
    Addresses,       \* accounts and contracts that may be admin
    NoAddress,       \* address(0)
    InitialAdmin,    \* admin_ of the constructor
    InitialDelay,    \* delay_ of the constructor
    DelayArgs,       \* arguments proposed to setDelay, legal or not
    AdminArgs,       \* arguments proposed to setPendingAdmin
    Targets,         \* calls to other contracts
    GRACE_PERIOD,
    MINIMUM_DELAY,
    MAXIMUM_DELAY,
    MaxTime,         \* bound: the clock stops here
    MaxEtaSlack,     \* bound: how far beyond the delay an eta is asked
    MaxCalls         \* bound: nobody queues one call more beyond so many
                     \* calls queued and made (GovernorAlpha's queue() may)

ASSUME AddressAssumption ==
    /\ NoAddress \notin Addresses
    /\ InitialAdmin \in Addresses
    /\ AdminArgs \subseteq Addresses

ASSUME DelayAssumption ==
    /\ GRACE_PERIOD \in Nat
    /\ MINIMUM_DELAY \in Nat
    /\ MAXIMUM_DELAY \in Nat
    /\ DelayArgs \subseteq Nat
    /\ InitialDelay \in MINIMUM_DELAY..MAXIMUM_DELAY
    /\ MaxTime \in Nat
    /\ MaxEtaSlack \in Nat
    /\ MaxCalls \in Nat

VARIABLES
    now,                 \* block.timestamp
    admin,
    pendingAdmin,
    delay,
    queuedTransactions,  \* the transactions whose flag is set
    announcedAt,         \* history: when each queued transaction was queued
    made                 \* history: the calls the timelock has made

timelockVars ==
    <<admin, pendingAdmin, delay, queuedTransactions, announcedAt, made>>

SetDelayCalls        == [kind : {"setDelay"}, arg : DelayArgs]
SetPendingAdminCalls == [kind : {"setPendingAdmin"}, arg : AdminArgs]
OtherCalls           == [kind : {"other"}, arg : Targets]
Calls == SetDelayCalls \cup SetPendingAdminCalls \cup OtherCalls

Transactions == [call : Calls, eta : Nat]
MadeCalls    == [call : Calls, eta : Nat, announced : Nat, at : Nat, by : Addresses]

TimelockInit ==
    /\ admin = InitialAdmin
    /\ pendingAdmin = NoAddress
    /\ delay = InitialDelay
    /\ queuedTransactions = {}
    /\ announcedAt = <<>>
    /\ made = {}

-----------------------------------------------------------------------------
(* The operations. *)

\* What the operations ask, and the forms a slip would give these guards.
NoDelayCheck(tx) == TRUE
EtaSatisfiesDelay(tx) == tx.eta >= now + delay

AfterEta(tx) == now > tx.eta /\ now <= tx.eta + GRACE_PERIOD
InWindow(tx) == now >= tx.eta /\ now <= tx.eta + GRACE_PERIOD

NoBoundsCheck(call) == TRUE
CallSucceeds(call) ==
    call.kind = "setDelay" => call.arg \in MINIMUM_DELAY..MAXIMUM_DELAY

AnyoneAccepts(caller) == TRUE
MayAcceptAdmin(caller) == caller = pendingAdmin

\* `new` is what the last call of this kind in txs sets, `old` if none does.
Sets(txs, kind, old, new) ==
    \/ /\ \A i \in DOMAIN txs : txs[i].call.kind # kind
       /\ new = old
    \/ \E i \in DOMAIN txs :
          /\ txs[i].call.kind = kind
          /\ \A j \in DOMAIN txs : j > i => txs[j].call.kind # kind
          /\ new = txs[i].call.arg

\* Queueing again what is queued leaves its flag, and its announcement.
QueueTransactions(caller, txs) ==
    /\ caller = admin
    /\ \A tx \in Range(txs) : EtaSatisfiesDelay(tx)
    /\ queuedTransactions' = queuedTransactions \cup Range(txs)
    /\ announcedAt' = [tx \in queuedTransactions' |->
                          IF tx \in queuedTransactions THEN announcedAt[tx] ELSE now]
    /\ UNCHANGED <<admin, pendingAdmin, delay, made>>

CancelTransactions(caller, txs) ==
    /\ caller = admin
    /\ queuedTransactions' = queuedTransactions \ Range(txs)
    /\ announcedAt' = Restrict(announcedAt, queuedTransactions')
    /\ UNCHANGED <<admin, pendingAdmin, delay, made>>

\* The flag is cleared before the call: a transaction runs once per queueing.
ExecuteTransactions(caller, txs) ==
    /\ caller = admin
    /\ IsInjective(txs)
    /\ \A tx \in Range(txs) :
          tx \in queuedTransactions /\ InWindow(tx) /\ CallSucceeds(tx.call)
    /\ queuedTransactions' = queuedTransactions \ Range(txs)
    /\ announcedAt' = Restrict(announcedAt, queuedTransactions')
    /\ Sets(txs, "setDelay", delay, delay')
    /\ Sets(txs, "setPendingAdmin", pendingAdmin, pendingAdmin')
    /\ made' = made \cup {[call |-> tx.call, eta |-> tx.eta,
                           announced |-> announcedAt[tx], at |-> now, by |-> caller] :
                          tx \in Range(txs)}
    /\ UNCHANGED admin

AcceptAdmin(caller) ==
    /\ MayAcceptAdmin(caller)
    /\ admin' = caller
    /\ pendingAdmin' = NoAddress
    /\ UNCHANGED <<delay, queuedTransactions, announcedAt, made>>

-----------------------------------------------------------------------------
(* The timelock alone: anyone calls it, one transaction at a time.  (Its   *)
(* admin in a whole system is GovernorAlpha, which EXTENDS this module.)   *)

TimelockStart == now = 0 /\ TimelockInit

RoomForACall == Cardinality(queuedTransactions) + Cardinality(made) < MaxCalls

Queue(caller) ==
    /\ RoomForACall
    /\ \E call \in Calls, ahead \in 0..(delay + MaxEtaSlack) :
          QueueTransactions(caller, <<[call |-> call, eta |-> now + ahead]>>)

Cancel(caller) ==
    \E tx \in queuedTransactions : CancelTransactions(caller, <<tx>>)

Execute(caller) ==
    \E tx \in queuedTransactions : ExecuteTransactions(caller, <<tx>>)

Tick ==
    /\ now < MaxTime
    /\ now' = now + 1
    /\ UNCHANGED timelockVars

TimelockNext ==
    \/ Tick
    \/ /\ UNCHANGED now
       /\ \E caller \in Addresses :
             Queue(caller) \/ Cancel(caller) \/ Execute(caller) \/ AcceptAdmin(caller)

TimelockSpec == TimelockStart /\ [][TimelockNext]_<<now, timelockVars>>

-----------------------------------------------------------------------------
(* Properties. *)

\* The type of the timelock's state; the delay stays within its bounds
\* whatever setDelay is asked (Timelock.sol:139-149).
TimelockTypeOK ==
    /\ now \in Nat
    /\ admin \in Addresses
    /\ pendingAdmin \in Addresses \cup {NoAddress}
    /\ delay \in MINIMUM_DELAY..MAXIMUM_DELAY
    /\ queuedTransactions \subseteq Transactions
    /\ announcedAt \in [queuedTransactions -> Nat]
    /\ made \subseteq MadeCalls

\* "Anytime the Timelock contract makes a function call, it must be the case
\* that the function call was first made public by having been publicly added
\* to the queue at least 3 hours prior" (Timelock.sol:52-54), whatever
\* setDelay, cancellations and repeated queueing happened in between.
CallsWerePublic ==
    \A c \in made : c.at >= c.announced + MINIMUM_DELAY

\* A call of this kind with this argument was made, and was public in time.
Announced(kind, value) ==
    \E c \in made : /\ c.call.kind = kind /\ c.call.arg = value
                    /\ c.at >= c.announced + MINIMUM_DELAY

\* The admin and the delay are those of the constructor until the timelock
\* itself makes a call that was public for the minimum delay and sets them:
\* nobody becomes admin and nobody shortens the warning unannounced.
SettingsWereAnnounced ==
    /\ admin # InitialAdmin => Announced("setPendingAdmin", admin)
    /\ delay # InitialDelay => Announced("setDelay", delay)

\* What is queued can only run after the minimum delay: the strengthening
\* that makes CallsWerePublic inductive, checked by the run as well.
QueuedInAdvance ==
    \A tx \in queuedTransactions : tx.eta >= announcedAt[tx] + MINIMUM_DELAY

\* Only the timelock itself names a pending admin.
PendingWasAnnounced ==
    pendingAdmin # NoAddress => Announced("setPendingAdmin", pendingAdmin)

TimelockInv ==
    /\ TimelockTypeOK
    /\ QueuedInAdvance
    /\ PendingWasAnnounced
    /\ CallsWerePublic
    /\ SettingsWereAnnounced
=============================================================================
