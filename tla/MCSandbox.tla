----------------------------- MODULE MCSandbox -----------------------------
(* Model-checking instance of Sandbox: templates with one to three         *)
(* criteria; the policy as it is, one that holds everything for a human,   *)
(* and one that refuses answers and evidence.                              *)
EXTENDS Sandbox

MCChosen == {cloud_migration, compliance_evidence, blank}

MCSettings == {[rule |-> "ALLOW", ceiling |-> 2], [rule |-> "ALLOW", ceiling |-> 0],
               [rule |-> "DENY", ceiling |-> 2]}
=============================================================================
