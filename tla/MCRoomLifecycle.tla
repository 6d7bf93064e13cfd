--------------------------- MODULE MCRoomLifecycle ---------------------------
(* Instances of RoomLifecycle and RoomRefinement for TLC.  Commands of one kind are alike.     *)
EXTENDS RoomRefinement, TLC

CommandSymmetry ==
  Permutations(Sessions) \cup Permutations(Launches) \cup Permutations(Stops)
=============================================================================
