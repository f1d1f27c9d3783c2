---------------------------- MODULE MCAuditChain ----------------------------
(* Model-checking instance of AuditChain.                                  *)
EXTENDS AuditChain, TLC

Symmetry == Permutations(Procs) \cup Permutations(Contents)
=============================================================================
