-------------------------- MODULE MCRoomExecution --------------------------
(* Model-checking instance of RoomExecution.                               *)
EXTENDS RoomExecution, TLC

Symmetry == Permutations(Orgs) \cup Permutations(Criteria) \cup Permutations(Procs)
=============================================================================
