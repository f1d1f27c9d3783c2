---------------------------- MODULE MCApprovals ----------------------------
(* Model-checking instance of Approvals.                                   *)
EXTENDS Approvals, TLC

Symmetry == Permutations(Procs) \cup Permutations(Bodies)
=============================================================================
