--------------------------- MODULE MCOutboxDispatch ---------------------------
(* Instances of OutboxDispatch for TLC.  Sessions are alike.                *)
EXTENDS OutboxDispatch, TLC

SessionSymmetry == Permutations(Sessions)
=============================================================================
