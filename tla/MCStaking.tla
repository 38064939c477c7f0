------------------------------ MODULE MCStaking ------------------------------
(* Small instances of the staking contract. *)
EXTENDS Staking, TLC

CONSTANTS alice, bob, vest, none

NoVestings == {}
NoSchedule == <<>>

\* Dates are even; a stake is locked for up to two of them.
UserAccounts == {alice, bob}
UserTimes == {3, 6}

OneUser == {alice}
UserDelegatees == {alice, bob, none}

NoUsers == {}
OneVesting == {vest}
VestingDelegatees == {vest, bob, none}
VestingSchedule == vest :> [first |-> 2, end |-> 4]
VestingSchedules == {[cliff |-> 2, duration |-> 4, interval |-> 2]}
VestingTimes == {2, 4, 6}

Symmetric == Permutations(UserAccounts)
=============================================================================
