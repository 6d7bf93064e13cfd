----------------------------- MODULE ProcessLife -----------------------------
(***************************************************************************)
(* The process over its lifetimes, with the database file that outlives it:*)
(* connect, run every migration script, start Slack and the schedulers,    *)
(* serve, shut down; to be killed at any moment, also between two          *)
(* statements of a script; and to start again on what is left.             *)
(***************************************************************************)
EXTENDS Shutdown, Migrations

CONSTANT MaxRestarts     \* bound on the number of restarts

ASSUME RestartAssumption == MaxRestarts \in Nat

VARIABLE restarts        \* the restarts so far

allVars == <<vars, dbVars, restarts>>

\* A call of initializePersistence: the first await of bootstrap.
Migrating == Alive /\ ~Migrated

ProcessInit ==
  /\ Init
  /\ MigrationInit
  /\ restarts = 0

\* A process that ends loses its connection.
KeepsConnection == IF Alive' THEN UNCHANGED dbVars ELSE Disconnect

-----------------------------------------------------------------------------

\* The next statement of the scripts.
MigrateStep == Migrating /\ Migrate /\ UNCHANGED <<vars, restarts>>

\* A statement fails in SQLite (disk full, file locked): bootstrap rejects and
\* the process exits with code 1.
MigrationFails ==
  /\ Migrating
  /\ End("failure") /\ UNCHANGED <<runnerVars, worldVars, restarts>>
  /\ Disconnect

\* The process at work, once it has its database.
Run ==
  /\ Migrated
  /\ ProcessStep
  /\ KeepsConnection /\ UNCHANGED restarts

\* SIGINT or SIGTERM: begins the shutdown, or ends a process that has not
\* registered its handlers yet.
Interrupt == Signal /\ KeepsConnection /\ UNCHANGED restarts

\* SIGKILL, power, or an error nobody caught.
Killed ==
  /\ Alive
  /\ End("killed") /\ UNCHANGED <<runnerVars, worldVars, restarts>>
  /\ Disconnect

\* Commands, events and schedulers change the rows while the database is open.
Serve ==
  /\ Alive /\ Migrated /\ spc # "app.start" /\ database = "open"
  /\ ServicesWrite
  /\ UNCHANGED <<vars, restarts>>

\* Whoever runs the process starts it again.
Restart ==
  /\ ~Alive /\ restarts < MaxRestarts
  /\ restarts' = restarts + 1
  /\ timers' = {} /\ promises' = {} /\ active' = [r \in Runners |-> 0]
  /\ flights' = {} /\ database' = "open"
  /\ spc' = "app.start" /\ next' = 1 /\ awaited' = {} /\ exit' = "none" /\ inHand' = {}
  /\ Reconnect

\* The process has ended and stays so.
Exited == ~Alive /\ UNCHANGED allVars

ProcessNext ==
  \/ MigrateStep \/ MigrationFails \/ Run \/ Interrupt \/ Killed \/ Serve
  \/ Restart \/ Exited

ProcessSpec == ProcessInit /\ [][ProcessNext]_allVars

InProcess(A) == Migrated /\ A /\ KeepsConnection /\ UNCHANGED restarts

\* Runs and flights settle, and so do the calls of shutdown: each await of
\* theirs returns, fails or times out.
ProcessFairSpec ==
  /\ ProcessSpec
  /\ WF_allVars(InProcess(ShutdownStep))
  /\ \A r \in Runners : WF_allVars(InProcess(RunSettles(r)))
  /\ \A m \in Messages : WF_allVars(InProcess(FlightEnds(m)))

-----------------------------------------------------------------------------
(* Properties.                                                              *)

ProcessTypeOK ==
  /\ TypeOK /\ MigrationTypeOK
  /\ restarts \in 0..MaxRestarts

Serving == Alive /\ Migrated

\* Whatever database a start finds, of whichever release and wherever in a
\* script the process before it was killed: when Slack and the schedulers start,
\* every table and every unique index is there, with no rows that contradict one,
\* off_reason takes MANUAL, foreign keys are on, nothing is left of a rebuild, and
\* nothing waits for a commit.
ServingSchema ==
  Serving =>
    /\ db = disk /\ ~tx /\ fk
    /\ db.tables = Schema /\ db.indexes = Indexes /\ db.manual
    /\ db.twice = {} /\ Cardinality(OnRows(db.watch)) <= 1
    /\ db.messages \subseteq DOMAIN db.watch

\* No number of restarts, each of which copies and drops two tables, loses a row
\* or changes one, nor leaves one that was deleted.
RowsSurvive == Migrated => Content(db) = logical

\* No start, on one of the initial databases or on what the processes before it
\* left, finds a database on which a script cannot be applied: a process that was
\* killed in the middle of one does not keep the next from starting.
EveryStartApplies == Migrating => StatementApplies
=============================================================================
