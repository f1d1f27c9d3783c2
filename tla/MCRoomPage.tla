----------------------------- MODULE MCRoomPage -----------------------------
(* Model-checking instance of RoomPage.                                    *)
EXTENDS RoomPage, TLC

Symmetry == Permutations(Orgs)
=============================================================================
