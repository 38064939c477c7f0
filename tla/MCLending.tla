------------------------------- MODULE MCLending -------------------------------
(* One supplier and two loans; a day costs 10 in a hundred, or 5 once rolled over. *)
EXTENDS Lending, TLC

CONSTANTS carol, l1, l2

MCSuppliers == {carol}
MCLoanIds   == {l1, l2}

Ask(w, d, c) == [withdraw |-> w, duration |-> d, collateral |-> c]
Trade(l, c, x) == [loanToken |-> l, collateral |-> c, leverage |-> x]

MCBorrows == {Ask(36, 2, 57)}
MCTrades  == {Trade(28, 0, 1)}
Symmetry == Permutations(MCLoanIds)
===============================================================================
