----------------------------- MODULE MCAccounts -----------------------------
(* Model-checking instance of Accounts.                                    *)
EXTENDS Accounts, TLC

Symmetry == Permutations(Users \ {Founder}) \cup Permutations(Procs)
=============================================================================
