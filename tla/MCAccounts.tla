----------------------------- MODULE MCAccounts -----------------------------
(* Accounts on a small instance: one address that is free at first.        *)
EXTENDS Accounts, TLC

CONSTANTS e1, e2, b1, p1, p2, q1, q2

Symmetry == Permutations(Requests)

===========================================================================
