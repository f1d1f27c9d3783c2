-------------------------------- MODULE MCApi --------------------------------
(* Model-checking instance of Api.                                         *)
EXTENDS Api, TLC

Symmetry == Permutations(Procs) \cup Permutations(Streams)
=============================================================================
