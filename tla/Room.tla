-------------------------------- MODULE Room --------------------------------
(***************************************************************************)
(* What the orchestrator promises of its one channel, without commands,    *)
(* tables or failures: at any time the channel has no room (IDLE) or one   *)
(* room that is PREPARED or RUNNING; rooms that were decided stay decided; *)
(* and at most one room is watched by the planning mode.  This is the      *)
(* IDLE -> PREPARED -> RUNNING -> DECIDED machine of                       *)
(* docs/developer/COMMAND_SPEC.md with the two backward steps the services *)
(* take when they compensate: a launch is abandoned, a start is discarded. *)
(***************************************************************************)
CONSTANTS Sessions, None

VARIABLES
  phase,     \* "IDLE", "PREPARED" or "RUNNING": the state of the channel
  current,   \* the room it is about, None when IDLE
  decided,   \* the rooms that were ended
  watched    \* the room whose thread is watched, or None

vars == <<phase, current, decided, watched>>

TypeInvariant ==
  /\ phase \in {"IDLE", "PREPARED", "RUNNING"}
  /\ current \in Sessions \cup {None}
  /\ decided \subseteq Sessions
  /\ watched \in Sessions \cup {None}

Init ==
  /\ phase = "IDLE"
  /\ current = None
  /\ decided = {}
  /\ watched = None

Open(s) ==
  /\ phase = "IDLE" /\ s \notin decided
  /\ phase' = "PREPARED"
  /\ current' = s
  /\ UNCHANGED <<decided, watched>>

\* A start that failed withdraws its room, and what watched it.
Discard ==
  /\ phase = "PREPARED"
  /\ phase' = "IDLE"
  /\ current' = None
  /\ watched' = IF watched = current THEN None ELSE watched
  /\ UNCHANGED decided

Launch ==
  /\ phase = "PREPARED"
  /\ phase' = "RUNNING"
  /\ UNCHANGED <<current, decided, watched>>

\* A launch that failed gives the room back.
Abandon ==
  /\ phase = "RUNNING"
  /\ phase' = "PREPARED"
  /\ UNCHANGED <<current, decided, watched>>

Decide ==
  /\ phase \in {"PREPARED", "RUNNING"}
  /\ decided' = decided \cup {current}
  /\ phase' = "IDLE"
  /\ current' = None
  /\ UNCHANGED watched

\* The room that is watched is the current one, or, when a stop overtakes the
\* start, one that was already decided.
Watch(s) ==
  /\ watched = None
  /\ s = current \/ s \in decided
  /\ watched' = s
  /\ UNCHANGED <<phase, current, decided>>

Unwatch ==
  /\ watched # None
  /\ watched' = None
  /\ UNCHANGED <<phase, current, decided>>

Next ==
  \/ \E s \in Sessions : Open(s) \/ Watch(s)
  \/ Discard \/ Launch \/ Abandon \/ Decide \/ Unwatch

Spec == Init /\ [][Next]_vars
=============================================================================
