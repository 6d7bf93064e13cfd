------------------------------ MODULE MCLiveReply ------------------------------
(* Instances of LiveReply for TLC.  Messages are alike.                     *)
EXTENDS LiveReply, TLC

MessageSymmetry == Permutations(Messages)
=============================================================================
