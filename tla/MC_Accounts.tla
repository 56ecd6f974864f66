------------------------------ MODULE MC_Accounts -----------------------------
(***************************************************************************)
(* Instances of Accounts for TLC.                                           *)
(***************************************************************************)
EXTENDS Accounts, TLC

CONSTANTS t1, t2, t3, a1, a2, e1, e2, c1, k1, m1

Symmetry == Permutations(Tasks) \cup Permutations(AccountIds) \cup Permutations(Emails)
=============================================================================
