--------------------------- MODULE RoomRefinement ---------------------------
(***************************************************************************)
(* The services implement the abstract room: the mapping reads the phase   *)
(* of the channel and the watched room off the tables.                     *)
(***************************************************************************)
EXTENDS RoomLifecycle

\* The member of a set that has one, None for the empty set.
TheOne(S) == IF S = {} THEN None ELSE CHOOSE s \in S : TRUE

PhaseOfChannel == IF Active = {} THEN "IDLE" ELSE state[TheOne(Active)]

R == INSTANCE Room WITH
       phase   <- PhaseOfChannel,
       current <- TheOne(Active),
       decided <- {s \in Sessions : state[s] = "DECIDED"},
       watched <- TheOne(Watching)

\* Every step of the services, the scheduler, a failing call or a crash is a
\* step of the abstract room or leaves it alone: one room at a time, opened
\* only when there is none, launched, abandoned and discarded only from the
\* phase that allows it, and never reopened.
ImplementsRoom == R!Spec
=============================================================================
