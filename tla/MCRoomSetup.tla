---------------------------- MODULE MCRoomSetup ----------------------------
(* Model-checking instance of RoomSetup.                                   *)
EXTENDS RoomSetup, TLC

Symmetry == Permutations(Orgs \ {Creator}) \cup Permutations(Invites) \cup Permutations(Procs)
=============================================================================
