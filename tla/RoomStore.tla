------------------------------ MODULE RoomStore ------------------------------
(***************************************************************************)
(* The SQLite tables of the orchestrator and the SQL statements its        *)
(* repositories run on them.  One statement is one atomic step: the        *)
(* repositories use no transaction, so whatever a service does with two    *)
(* statements can be interleaved with the rest of the program.             *)
(*                                                                         *)
(* A session row is named after the /room start command that inserts it    *)
(* (its UUID is fresh), so Sessions is also the set of start commands.     *)
(* The program is configured with one start channel; every row here is a   *)
(* row of that channel.  A deleted row has the values of Init again.       *)
(***************************************************************************)
EXTENDS Naturals, Sequences, FiniteSets

CONSTANT Sessions      \* the session rows that can ever be inserted

VARIABLES
  state,         \* room_sessions.state, or "ABSENT" when there is no row
  startThread,   \* room_sessions.start_thread_ts: the PENDING marker or a thread
  launchThread,  \* room_sessions.launch_thread_ts: NULL, the PENDING marker, a thread
  briefings,     \* the sessions that have a room_briefings row
  rounds,        \* the round_no values of the session's room_worker_rounds rows
  watch,         \* the session's room_watch_targets row: "NONE", "ON", or its off_reason
  overdue,       \* the sessions whose watch target has ttl_expires_at <= now
  outbox         \* the events enqueued for the session, oldest first

sessionTable == <<state, startThread, launchThread>>
watchTable   == <<watch, overdue>>
tables       == <<state, startThread, launchThread, briefings, rounds,
                  watch, overdue, outbox>>

SessionStates == {"PREPARED", "RUNNING", "DECIDED"}
OffReasons    == {"LAUNCH", "MANUAL", "TTL"}
ModeEvents    == {"ON", "OFF", "QUESTION"}

StoreTypeOK ==
  /\ state \in [Sessions -> SessionStates \cup {"ABSENT"}]
  /\ startThread \in [Sessions -> {"PENDING", "BOUND"}]
  /\ launchThread \in [Sessions -> {"NULL", "PENDING", "BOUND"}]
  /\ briefings \subseteq Sessions
  /\ rounds \in [Sessions -> SUBSET (Nat \ {0})]
  /\ watch \in [Sessions -> OffReasons \cup {"NONE", "ON"}]
  /\ overdue \subseteq Sessions
  /\ outbox \in [Sessions -> Seq(ModeEvents)]

StoreInit ==
  /\ state = [s \in Sessions |-> "ABSENT"]
  /\ startThread = [s \in Sessions |-> "PENDING"]
  /\ launchThread = [s \in Sessions |-> "NULL"]
  /\ briefings = {}
  /\ rounds = [s \in Sessions |-> {}]
  /\ watch = [s \in Sessions |-> "NONE"]
  /\ overdue = {}
  /\ outbox = [s \in Sessions |-> <<>>]

-----------------------------------------------------------------------------
(* What the SELECTs and the WHERE clauses look at.                          *)

IsActive(s) == state[s] \in {"PREPARED", "RUNNING"}
Active      == {s \in Sessions : IsActive(s)}
Watching    == {s \in Sessions : watch[s] = "ON"}

\* The partial unique indexes: one PREPARED or RUNNING session and one ON
\* watch target per channel.
NoUniqueIndex    == TRUE                             \* faulty variant
MayInsertSession == Active = {}
MayInsertWatch   == Watching = {}

IsPrepared(s)  == state[s] = "PREPARED"
IsRunning(s)   == state[s] = "RUNNING"
IsWatched(s)   == watch[s] = "ON"
RowExists(s)   == state[s] # "ABSENT"

-----------------------------------------------------------------------------
(* The statements that write.  Their WHERE clause is the caller's guard.    *)

InsertPreparedSession(s) ==
  /\ state' = [state EXCEPT ![s] = "PREPARED"]
  /\ UNCHANGED <<startThread, launchThread, briefings, rounds, watch, overdue, outbox>>

UpdateStartThread(s) ==
  /\ startThread' = [startThread EXCEPT ![s] = "BOUND"]
  /\ UNCHANGED <<state, launchThread, briefings, rounds, watch, overdue, outbox>>

ClaimPreparedSession(s) ==
  /\ state' = [state EXCEPT ![s] = "RUNNING"]
  /\ UNCHANGED <<startThread, launchThread, briefings, rounds, watch, overdue, outbox>>

UpdateLaunchThread(s, ts) ==
  /\ launchThread' = [launchThread EXCEPT ![s] = ts]
  /\ UNCHANGED <<state, startThread, briefings, rounds, watch, overdue, outbox>>

\* Faulty variant: the launch columns are not cleared.
ReleaseKeepingThread(s) ==
  /\ state' = [state EXCEPT ![s] = "PREPARED"]
  /\ UNCHANGED <<startThread, launchThread, briefings, rounds, watch, overdue, outbox>>

ReleaseLaunchClaim(s) ==
  /\ state' = [state EXCEPT ![s] = "PREPARED"]
  /\ launchThread' = [launchThread EXCEPT ![s] = "NULL"]
  /\ UNCHANGED <<startThread, briefings, rounds, watch, overdue, outbox>>

UpdateToDecided(s) ==
  /\ state' = [state EXCEPT ![s] = "DECIDED"]
  /\ UNCHANGED <<startThread, launchThread, briefings, rounds, watch, overdue, outbox>>

\* Deleting a session cascades to every table that references it.
DeleteSession(s) ==
  /\ state' = [state EXCEPT ![s] = "ABSENT"]
  /\ startThread' = [startThread EXCEPT ![s] = "PENDING"]
  /\ launchThread' = [launchThread EXCEPT ![s] = "NULL"]
  /\ briefings' = briefings \ {s}
  /\ rounds' = [rounds EXCEPT ![s] = {}]
  /\ watch' = [watch EXCEPT ![s] = "NONE"]
  /\ overdue' = overdue \ {s}
  /\ outbox' = [outbox EXCEPT ![s] = <<>>]

InsertBriefing(s) ==
  /\ briefings' = briefings \cup {s}
  /\ UNCHANGED <<sessionTable, rounds, watch, overdue, outbox>>

\* The latest round number of a session (0 without a row), as a singleton, and
\* the number after it.
LatestRoundNo(s) == {m \in rounds[s] \cup {0} : \A k \in rounds[s] : k <= m}
LatestAgain(s)   == LatestRoundNo(s)                 \* faulty variant
NextRoundNo(s)   == {m + 1 : m \in LatestRoundNo(s)}

InsertRound(s, n) ==
  /\ rounds' = [rounds EXCEPT ![s] = @ \cup {n}]
  /\ UNCHANGED <<sessionTable, briefings, watch, overdue, outbox>>

DeleteRound(s, n) ==
  /\ rounds' = [rounds EXCEPT ![s] = @ \ {n}]
  /\ UNCHANGED <<sessionTable, briefings, watch, overdue, outbox>>

InsertWatchTarget(s) ==
  /\ watch' = [watch EXCEPT ![s] = "ON"]
  /\ UNCHANGED <<sessionTable, briefings, rounds, overdue, outbox>>

TurnOffWatchTarget(s, reason) ==
  /\ watch' = [watch EXCEPT ![s] = reason]
  /\ overdue' = overdue \ {s}
  /\ UNCHANGED <<sessionTable, briefings, rounds, outbox>>

EnqueueEvent(s, event) ==
  /\ outbox' = [outbox EXCEPT ![s] = Append(@, event)]
  /\ UNCHANGED <<sessionTable, briefings, rounds, watch, overdue>>

\* A thread message is counted and pushes ttl_expires_at into the future.
IncrementMessageCount(s) ==
  /\ overdue' = overdue \ {s}
  /\ UNCHANGED <<sessionTable, briefings, rounds, watch, outbox>>

\* Time passes the ttl_expires_at of a target.
TtlPasses(s) ==
  /\ overdue' = overdue \cup {s}
  /\ UNCHANGED <<sessionTable, briefings, rounds, watch, outbox>>
=============================================================================
