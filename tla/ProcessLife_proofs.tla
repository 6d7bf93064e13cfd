--------------------------- MODULE ProcessLife_proofs ---------------------------
(***************************************************************************)
(* Theorems about ProcessLife: for any number of runners, flights, targets *)
(* and restarts, and for every one of the initial databases.               *)
(*                                                                         *)
(* The two halves have an invariant each.  ShutdownInv says how far the    *)
(* shutdown has come and what it leaves behind; ScriptInv says, statement  *)
(* by statement, what the scripts have made of the committed database and, *)
(* in a transaction, by how much the connection is ahead of it.            *)
(***************************************************************************)
EXTENDS ProcessLife, TLAPS, FiniteSetTheorems, SequenceTheorems

-----------------------------------------------------------------------------
(* The invariant of the process.                                            *)

\* A runner has a run in progress exactly while its promise is set.
PromiseIsRun == \A r \in Runners : active[r] = IF r \in promises THEN 1 ELSE 0

Booting == spc \in {"app.start", "schedulers"}

\* Before the signal nothing is stopped; before the schedulers nothing runs.
NothingStoppedYet ==
  /\ spc \in {"app.start", "schedulers", "up"} => next = 1 /\ inHand = {} /\ awaited = {}
  /\ Booting => timers = {} /\ promises = {}

\* The runners behind the shutdown have neither an interval nor a promise; the
\* one it waits for has no interval, so its promise is its last.
RunnersBehind ==
  /\ \A r \in Runners : r < next => r \notin timers \cup promises
  /\ spc = "await" => next \notin timers
  /\ spc \in {"stop", "await"} => next \in Runners

\* From the queue's stop() on, the flights of the signal are among those waited
\* for, and from the return of it on they are over.
FlightsBehind ==
  /\ spc = "flights" => inHand \cap flights \subseteq awaited
  /\ spc \in {"app.stop", "close", "exit"} => inHand \cap flights = {}
  /\ database = "closed" => spc = "exit"

ShutdownInv ==
  /\ TypeOK
  /\ PromiseIsRun /\ NothingStoppedYet /\ RunnersBehind /\ FlightsBehind

-----------------------------------------------------------------------------
(* The invariant of the scripts.                                            *)

AtMostOneOn(rows) == \A t, u \in OnRows(rows) : t = u

\* What every start can cope with, and what it will make of the rows.
Startable(d) ==
  /\ d.tables \subseteq Schema
  /\ d.twice = {}
  /\ d.watchNew = NoRows /\ d.outboxNew = {}
  /\ d.messages \subseteq DOMAIN d.watch
  /\ NewestOn(d.watch) = logical.watch
  /\ d.messages = logical.messages
  /\ WithoutSummaries(d.outbox) = logical.outbox

\* What the statements before place p have made of a database.
Made(d, p) ==
  /\ p >= 3 => "sessions" \in d.tables
  /\ p >= 4 => "active" \in d.indexes
  /\ p >= 5 => "briefings" \in d.tables
  /\ p >= 6 => "rounds" \in d.tables
  /\ p >= 7 => ~d.plain
  /\ p >= 8 => "round" \in d.indexes
  /\ p >= 9 => "watch" \in d.tables
  /\ p >= 10 => "thread" \in d.indexes
  /\ p >= 11 => "messages" \in d.tables
  /\ p >= 12 => "message" \in d.indexes
  /\ p >= 13 => d.tables = Schema
  /\ p >= 14 => AtMostOneOn(d.watch)
  /\ p >= 15 => d.indexes = Indexes
  /\ p >= 24 => d.manual
  /\ p >= 32 => WithoutSummaries(d.outbox) = d.outbox

\* How far the connection's database d is ahead of the committed one at place p,
\* while the watch targets are rebuilt and while the outbox is.
WatchAhead(d, p) ==
  /\ p = 17 => d = disk
  /\ p = 18 => d = [disk EXCEPT !.tables = @ \cup {"watch_new"}]
  /\ p = 19 => d = [disk EXCEPT !.tables = @ \cup {"watch_new"}, !.watchNew = disk.watch]
  /\ p = 20 => d = [disk EXCEPT !.tables = (@ \ {"watch"}) \cup {"watch_new"},
                                !.indexes = @ \ {"thread", "on"},
                                !.watch = NoRows, !.watchNew = disk.watch]
  /\ p = 21 => d = [disk EXCEPT !.indexes = @ \ {"thread", "on"}, !.manual = TRUE]
  /\ p = 22 => d = [disk EXCEPT !.indexes = @ \ {"on"}, !.manual = TRUE]
  /\ p = 23 => d = [disk EXCEPT !.manual = TRUE]

OutboxAhead(d, p) ==
  /\ p = 27 => d = disk
  /\ p = 28 => d = [disk EXCEPT !.tables = @ \cup {"outbox_new"}]
  /\ p = 29 => d = [disk EXCEPT !.tables = @ \cup {"outbox_new"},
                                !.outboxNew = WithoutSummaries(disk.outbox)]
  /\ p = 30 => d = [disk EXCEPT !.tables = (@ \ {"outbox"}) \cup {"outbox_new"},
                                !.outbox = {},
                                !.outboxNew = WithoutSummaries(disk.outbox)]
  /\ p = 31 => d = [disk EXCEPT !.outbox = WithoutSummaries(disk.outbox)]

\* A transaction is open from BEGIN to COMMIT and only then the connection may
\* be ahead; the watch targets are rebuilt with foreign keys off.
Connection ==
  /\ ~tx => db = disk
  /\ Alive => (tx <=> mpc \in 17..23 \cup 27..31)
  /\ ~Alive => ~tx
  /\ tx => WatchAhead(db, mpc) /\ OutboxAhead(db, mpc)
  /\ Alive /\ mpc \in 16..23 => ~fk
  /\ Alive /\ mpc = 33 => fk

ScriptInv ==
  /\ MigrationTypeOK
  /\ Startable(disk) /\ Made(disk, mpc) /\ Connection

ProcessInv == ShutdownInv /\ ScriptInv /\ restarts \in 0..MaxRestarts

-----------------------------------------------------------------------------
(* The process.                                                             *)

\* The process comes up with nothing begun.
LEMMA ShutdownInit == Init => ShutdownInv
  BY ShutdownAssumption
  DEF Init, ShutdownInv, TypeOK, PromiseIsRun, NothingStoppedYet, RunnersBehind,
      FlightsBehind, Booting, Runners

\* A process that ends, in whatever way, leaves everything as it was.
LEMMA EndKeepsShutdown ==
  ASSUME NEW how \in {"success", "failure", "signal", "killed"},
         ShutdownInv, End(how), UNCHANGED <<runnerVars, worldVars>>
  PROVE  ShutdownInv'
  BY DEF End, runnerVars, worldVars, ShutdownInv, TypeOK, PromiseIsRun,
         NothingStoppedYet, RunnersBehind, FlightsBehind, Booting

\* A run begins and ends with its promise, and only while the interval is set.
LEMMA RunKeepsShutdown ==
  ASSUME NEW r \in Runners, ShutdownInv, RunStarts(r) \/ RunSettles(r)
  PROVE  ShutdownInv'
<1> USE DEF ShutdownInv, worldVars, stopVars
<1>1. /\ timers' = timers
      /\ UNCHANGED <<flights, database, spc, next, awaited, exit, inHand>>
  BY DEF RunStarts, RunSettles, RunIfIdle, RunEnds
<1>2. CASE RunStarts(r)
  <2>1. r \in timers /\ r \notin promises
    BY <1>2 DEF RunStarts, RunIfIdle
  <2>2. promises' = promises \cup {r} /\ active' = [active EXCEPT ![r] = @ + 1]
    BY <1>2 DEF RunStarts, RunIfIdle
  <2>3. active[r] = 0
    BY <2>1 DEF PromiseIsRun
  <2>4. TypeOK' /\ PromiseIsRun'
    BY <1>1, <2>2, <2>3 DEF TypeOK, PromiseIsRun
  <2>5. ~Booting
    BY <2>1 DEF NothingStoppedYet
  <2>6. NothingStoppedYet' /\ FlightsBehind' /\ RunnersBehind'
    BY <1>1, <2>1, <2>2, <2>5
    DEF NothingStoppedYet, FlightsBehind, RunnersBehind, Booting
  <2> QED BY <2>4, <2>6
<1>3. CASE RunSettles(r)
  <2>1. active[r] > 0 /\ active' = [active EXCEPT ![r] = @ - 1]
    BY <1>3 DEF RunSettles, RunEnds
  <2>2. promises' = promises \ {r}
    BY <1>3 DEF RunSettles, RunEnds
  <2>3. active[r] = 1
    BY <2>1 DEF TypeOK
  <2>4. TypeOK' /\ PromiseIsRun'
    BY <1>1, <2>1, <2>2, <2>3 DEF TypeOK, PromiseIsRun
  <2>5. NothingStoppedYet' /\ FlightsBehind' /\ RunnersBehind'
    BY <1>1, <2>2 DEF NothingStoppedYet, FlightsBehind, RunnersBehind, Booting
  <2> QED BY <2>4, <2>5
<1> QED BY <1>2, <1>3

\* A flight that begins is none of those the shutdown has to wait for.
LEMMA FlightKeepsShutdown ==
  ASSUME NEW m \in Messages, ShutdownInv, FlightBegins(m) \/ FlightEnds(m)
  PROVE  ShutdownInv'
<1> USE DEF ShutdownInv, runnerVars, stopVars
<1>1. UNCHANGED <<timers, promises, active, database, spc, next, awaited, exit, inHand>>
  BY DEF FlightBegins, FlightEnds
<1>2. flights' \subseteq flights \/ (m \notin inHand /\ flights' = flights \cup {m})
  BY DEF FlightBegins, FlightEnds
<1>3. inHand \cap flights' \subseteq inHand \cap flights
  BY <1>2
<1>4. flights' \subseteq Messages
  BY <1>2 DEF TypeOK
<1>5. FlightsBehind'
  BY <1>1, <1>3 DEF FlightsBehind
<1>6. TypeOK' /\ PromiseIsRun' /\ NothingStoppedYet' /\ RunnersBehind'
  BY <1>1, <1>4 DEF TypeOK, PromiseIsRun, NothingStoppedYet, RunnersBehind, Booting
<1> QED BY <1>5, <1>6

\* Bootstrap and the signal.
LEMMA BootKeepsShutdown ==
  ASSUME ShutdownInv, StartApp \/ StartSchedulers \/ Signal
  PROVE  ShutdownInv'
<1> USE DEF runnerVars, worldVars
<1>1. CASE StartApp
  <2>1. CASE Goto("schedulers")
    BY <1>1, <2>1 DEF StartApp, At, Goto, ShutdownInv, TypeOK, PromiseIsRun,
       NothingStoppedYet, RunnersBehind, FlightsBehind, Booting
  <2>2. CASE End("failure")
    BY <1>1, <2>2, EndKeepsShutdown DEF StartApp
  <2> QED BY <1>1, <2>1, <2>2 DEF StartApp
<1>2. CASE StartSchedulers
  <2>1. spc = "schedulers" /\ spc' = "up"
    BY <1>2 DEF StartSchedulers, At, Goto
  <2>2. timers' = Runners /\ promises' = Runners /\ active' = [r \in Runners |-> 1]
    BY <1>2 DEF StartSchedulers
  <2>3. UNCHANGED <<flights, database, next, awaited, exit, inHand>>
    BY <1>2 DEF StartSchedulers, Goto
  <2>4. next = 1
    BY <2>1 DEF ShutdownInv, NothingStoppedYet
  <2>5. TypeOK' /\ PromiseIsRun'
    BY <2>1, <2>2, <2>3 DEF ShutdownInv, TypeOK, PromiseIsRun
  <2>6. RunnersBehind'
    BY <2>1, <2>3, <2>4 DEF RunnersBehind, Runners
  <2>7. NothingStoppedYet' /\ FlightsBehind'
    BY <2>1, <2>3 DEF ShutdownInv, NothingStoppedYet, FlightsBehind, Booting
  <2> QED BY <2>5, <2>6, <2>7 DEF ShutdownInv
<1>3. CASE Signal
  <2>1. CASE spc = "up" /\ spc' = "stop" /\ inHand' = flights /\ UNCHANGED <<next, awaited, exit>>
    <3>1. next = 1 /\ 1 \in Runners
      BY <2>1, ShutdownAssumption DEF ShutdownInv, NothingStoppedYet, Runners
    <3> QED
      BY <1>3, <2>1, <3>1 DEF Signal, ShutdownInv, TypeOK, PromiseIsRun,
         NothingStoppedYet, RunnersBehind, FlightsBehind, Booting
  <2>2. CASE End("signal")
    BY <1>3, <2>2, EndKeepsShutdown DEF Signal
  <2> QED BY <1>3, <2>1, <2>2 DEF Signal, At
<1> QED BY <1>1, <1>2, <1>3

\* The shutdown goes past a runner only when that has neither interval nor
\* promise, and past the queue only when the flights of the signal are over.
LEMMA StepKeepsShutdown ==
  ASSUME ShutdownInv, ShutdownStep
  PROVE  ShutdownInv'
<1> USE DEF runnerVars, worldVars, At
<1>a. RunnerCount \in Nat \ {0} /\ Runners = 1..RunnerCount
  BY ShutdownAssumption DEF Runners
<1>1. ASSUME next \in Runners, AfterRunner,
             timers' \subseteq timers, next \notin timers' \cup promises,
             UNCHANGED <<promises, active, flights, database>>,
             spc \in {"stop", "await"}
      PROVE  ShutdownInv'
  <2>1. next' = next + 1 /\ UNCHANGED <<awaited, exit, inHand>>
    BY <1>1 DEF AfterRunner
  <2>2. spc' \in {"queue", "stop"} /\ (spc' = "stop" => next' \in Runners)
    BY <1>1, <1>a DEF AfterRunner
  <2>3. TypeOK' /\ PromiseIsRun'
    BY <1>1, <1>a, <2>1, <2>2 DEF ShutdownInv, TypeOK, PromiseIsRun
  <2>4. RunnersBehind'
    BY <1>1, <1>a, <2>1, <2>2 DEF ShutdownInv, RunnersBehind
  <2>5. NothingStoppedYet' /\ FlightsBehind'
    BY <1>1, <2>1, <2>2 DEF ShutdownInv, NothingStoppedYet, FlightsBehind, Booting
  <2> QED BY <2>3, <2>4, <2>5 DEF ShutdownInv
<1>2. CASE StopRunner
  <2>1. spc = "stop" /\ next \in Runners
    BY <1>2 DEF StopRunner, ShutdownInv, RunnersBehind
  <2>2. timers' = timers \ {next} /\ UNCHANGED <<promises, active, flights, database>>
    BY <1>2 DEF StopRunner
  <2>3. CASE next \in promises
    <3>1. Goto("await")
      BY <1>2, <2>3 DEF StopRunner
    <3> QED
      BY <2>1, <2>2, <3>1 DEF Goto, ShutdownInv, TypeOK, PromiseIsRun,
         NothingStoppedYet, RunnersBehind, FlightsBehind, Booting
  <2>4. CASE next \notin promises
    BY <1>1, <1>2, <2>1, <2>2, <2>4 DEF StopRunner
  <2> QED BY <2>3, <2>4
<1>3. CASE RunnerStopped
  BY <1>1, <1>3 DEF RunnerStopped, ShutdownInv, RunnersBehind
<1>4. CASE StopQueue
  BY <1>4 DEF StopQueue, ShutdownInv, TypeOK, PromiseIsRun,
     NothingStoppedYet, RunnersBehind, FlightsBehind, Booting
<1>5. CASE QueueStopped
  BY <1>5 DEF QueueStopped, Goto, ShutdownInv, TypeOK, PromiseIsRun,
     NothingStoppedYet, RunnersBehind, FlightsBehind, Booting
<1>6. CASE StopApp
  <2>1. CASE Goto("close")
    BY <1>6, <2>1 DEF StopApp, Goto, ShutdownInv, TypeOK, PromiseIsRun,
       NothingStoppedYet, RunnersBehind, FlightsBehind, Booting
  <2>2. CASE End("failure")
    BY <1>6, <2>2, EndKeepsShutdown DEF StopApp
  <2> QED BY <1>6, <2>1, <2>2 DEF StopApp
<1>7. CASE CloseDatabase
  <2>1. CASE database' = "closed" /\ Goto("exit")
    BY <1>7, <2>1 DEF CloseDatabase, Goto, ShutdownInv, TypeOK, PromiseIsRun,
       NothingStoppedYet, RunnersBehind, FlightsBehind, Booting
  <2>2. CASE UNCHANGED database /\ End("failure")
    BY <1>7, <2>2, EndKeepsShutdown DEF CloseDatabase
  <2> QED BY <1>7, <2>1, <2>2 DEF CloseDatabase
<1>8. CASE Exit
  BY <1>8, EndKeepsShutdown DEF Exit
<1> QED BY <1>2, <1>3, <1>4, <1>5, <1>6, <1>7, <1>8 DEF ShutdownStep

\* A process that is started again is like the first.
LEMMA RestartKeepsShutdown == Restart => ShutdownInv'
  BY ShutdownAssumption
  DEF Restart, ShutdownInv, TypeOK, PromiseIsRun, NothingStoppedYet, RunnersBehind,
      FlightsBehind, Booting, Runners

\* Every step of the process over its lifetimes.
LEMMA NextKeepsShutdown ==
  ASSUME ShutdownInv, [ProcessNext]_allVars
  PROVE  ShutdownInv'
<1>1. CASE UNCHANGED vars
  BY <1>1 DEF vars, runnerVars, worldVars, stopVars, ShutdownInv, TypeOK, PromiseIsRun,
     NothingStoppedYet, RunnersBehind, FlightsBehind, Booting
<1>2. CASE MigrationFails \/ Killed
  BY <1>2, EndKeepsShutdown DEF MigrationFails, Killed
<1>3. CASE Run
  BY <1>3, BootKeepsShutdown, StepKeepsShutdown, RunKeepsShutdown, FlightKeepsShutdown
  DEF Run, ProcessStep
<1>4. CASE Interrupt
  BY <1>4, BootKeepsShutdown DEF Interrupt
<1>5. CASE Restart
  BY <1>5, RestartKeepsShutdown
<1>6. MigrateStep \/ Serve \/ Exited \/ UNCHANGED allVars => UNCHANGED vars
  BY DEF MigrateStep, Serve, Exited, allVars
<1> QED BY <1>1, <1>2, <1>3, <1>4, <1>5, <1>6 DEF ProcessNext

-----------------------------------------------------------------------------
(* The scripts, statement by statement.                                     *)

\* The unique indexes and their tables.
LEMMA IndexFacts ==
  /\ IndexesOf["sessions"] = {"active"} /\ IndexesOf["briefings"] = {}
  /\ IndexesOf["rounds"] = {"round"} /\ IndexesOf["watch"] = {"thread", "on"}
  /\ IndexesOf["messages"] = {"message"} /\ IndexesOf["outbox"] = {}
  /\ Indexes = {"active", "round", "thread", "on", "message"}
<1>1. /\ IndexesOf["sessions"] = {"active"} /\ IndexesOf["briefings"] = {}
      /\ IndexesOf["rounds"] = {"round"} /\ IndexesOf["watch"] = {"thread", "on"}
      /\ IndexesOf["messages"] = {"message"} /\ IndexesOf["outbox"] = {}
  BY DEF IndexesOf, Schema
<1>2. Schema = {"sessions", "briefings", "rounds", "watch", "messages", "outbox"}
  BY DEF Schema
<1>3. Indexes = UNION {IndexesOf[t] : t \in Schema}
  BY DEF Indexes
<1> HIDE DEF IndexesOf
<1>4. Indexes = {"active", "round", "thread", "on", "message"}
  BY <1>1, <1>2, <1>3
<1> QED BY <1>1, <1>4

Ops == {"fk on", "fk off", "table", "index", "drop index", "dedupe", "begin", "create",
        "copy", "drop", "rename", "commit"}
Statements == Ops \X (Schema \cup {"active", "round", "thread", "message", "on"})

\* Two pieces of a script, one after the other.
LEMMA Pieces ==
  ASSUME NEW s \in Seq(Statements), NEW t \in Seq(Statements)
  PROVE  /\ s \o t \in Seq(Statements) /\ Len(s \o t) = Len(s) + Len(t)
         /\ \A i \in 1..Len(s) : (s \o t)[i] = s[i]
         /\ \A i \in 1..Len(t) : (s \o t)[Len(s) + i] = t[i]
<1> DEFINE u == s \o t
<1>1. /\ u \in Seq(Statements) /\ Len(u) = Len(s) + Len(t)
      /\ \A i \in 1..Len(s) + Len(t) : u[i] = IF i <= Len(s) THEN s[i] ELSE t[i - Len(s)]
  BY ConcatProperties, Zenon
<1>0. Len(s) \in Nat /\ Len(t) \in Nat
  OBVIOUS
<1> HIDE DEF u
<1>2. \A i \in 1..Len(s) : u[i] = s[i]
  BY <1>0, <1>1
<1>3. \A i \in 1..Len(t) : u[Len(s) + i] = t[i]
  <2> TAKE i \in 1..Len(t)
  <2>1. /\ Len(s) + i \in 1..Len(s) + Len(t) /\ ~(Len(s) + i <= Len(s))
        /\ (Len(s) + i) - Len(s) = i
    BY <1>0
  <2> QED BY <1>1, <2>1
<1> QED BY <1>1, <1>2, <1>3 DEF u

\* A tuple of statements is a sequence of them.
LEMMA FourteenStatements ==
  ASSUME NEW a \in Statements, NEW b \in Statements, NEW c \in Statements,
         NEW d \in Statements, NEW e \in Statements, NEW f \in Statements,
         NEW g \in Statements, NEW h \in Statements, NEW i \in Statements,
         NEW j \in Statements, NEW k \in Statements, NEW l \in Statements,
         NEW m \in Statements, NEW n \in Statements
  PROVE  <<a, b, c, d, e, f, g, h, i, j, k, l, m, n>> \in Seq(Statements)
  OBVIOUS

LEMMA SixStatements ==
  ASSUME NEW a \in Statements, NEW b \in Statements, NEW c \in Statements,
         NEW d \in Statements, NEW e \in Statements, NEW f \in Statements
  PROVE  <<a, b, c, d, e, f>> \in Seq(Statements)
  OBVIOUS

LEMMA TwoStatements ==
  ASSUME NEW a \in Statements, NEW b \in Statements
  PROVE  <<a, b>> \in Seq(Statements)
  OBVIOUS

LEMMA CreateStatements ==
  /\ CreateScript \in Seq(Statements) /\ Len(CreateScript) = 14
  /\ CreateScript[1] = <<"fk on", "sessions">> /\ CreateScript[2] = <<"table", "sessions">>
  /\ CreateScript[3] = <<"index", "active">> /\ CreateScript[4] = <<"table", "briefings">>
  /\ CreateScript[5] = <<"table", "rounds">> /\ CreateScript[6] = <<"drop index", "round">>
  /\ CreateScript[7] = <<"index", "round">> /\ CreateScript[8] = <<"table", "watch">>
  /\ CreateScript[9] = <<"index", "thread">> /\ CreateScript[10] = <<"table", "messages">>
  /\ CreateScript[11] = <<"index", "message">> /\ CreateScript[12] = <<"table", "outbox">>
  /\ CreateScript[13] = <<"dedupe", "watch">> /\ CreateScript[14] = <<"index", "on">>
<1>1. /\ <<"fk on", "sessions">> \in Statements /\ <<"table", "sessions">> \in Statements
      /\ <<"index", "active">> \in Statements /\ <<"table", "briefings">> \in Statements
      /\ <<"table", "rounds">> \in Statements /\ <<"drop index", "round">> \in Statements
      /\ <<"index", "round">> \in Statements /\ <<"table", "watch">> \in Statements
      /\ <<"index", "thread">> \in Statements /\ <<"table", "messages">> \in Statements
      /\ <<"index", "message">> \in Statements /\ <<"table", "outbox">> \in Statements
      /\ <<"dedupe", "watch">> \in Statements /\ <<"index", "on">> \in Statements
  BY DEF Statements, Ops, Schema
<1>2. CreateScript \in Seq(Statements)
  BY <1>1, FourteenStatements, Zenon DEF CreateScript
<1> QED BY <1>2 DEF CreateScript

LEMMA RebuildStatements ==
  ASSUME NEW t \in Schema
  PROVE  /\ RebuildScript(t) \in Seq(Statements) /\ Len(RebuildScript(t)) = 6
         /\ RebuildScript(t)[1] = <<"fk off", t>> /\ RebuildScript(t)[2] = <<"begin", t>>
         /\ RebuildScript(t)[3] = <<"create", t>> /\ RebuildScript(t)[4] = <<"copy", t>>
         /\ RebuildScript(t)[5] = <<"drop", t>> /\ RebuildScript(t)[6] = <<"rename", t>>
         /\ EndScript(t) \in Seq(Statements) /\ Len(EndScript(t)) = 2
         /\ EndScript(t)[1] = <<"commit", t>> /\ EndScript(t)[2] = <<"fk on", t>>
<1>1. /\ <<"fk off", t>> \in Statements /\ <<"begin", t>> \in Statements
      /\ <<"create", t>> \in Statements /\ <<"copy", t>> \in Statements
      /\ <<"drop", t>> \in Statements /\ <<"rename", t>> \in Statements
      /\ <<"commit", t>> \in Statements /\ <<"fk on", t>> \in Statements
  BY DEF Statements, Ops
<1>2. RebuildScript(t) \in Seq(Statements) /\ EndScript(t) \in Seq(Statements)
  BY <1>1, SixStatements, TwoStatements, Zenon DEF RebuildScript, EndScript
<1> QED BY <1>2 DEF RebuildScript, EndScript

LEMMA RestoreStatements ==
  /\ RestoreIndexes \in Seq(Statements) /\ Len(RestoreIndexes) = 2
  /\ RestoreIndexes[1] = <<"index", "thread">> /\ RestoreIndexes[2] = <<"index", "on">>
<1>1. <<"index", "thread">> \in Statements /\ <<"index", "on">> \in Statements
  BY DEF Statements, Ops
<1>2. RestoreIndexes \in Seq(Statements)
  BY <1>1 DEF RestoreIndexes
<1> QED BY <1>2 DEF RestoreIndexes

LEMMA ScriptStatements ==
  /\ Len(Script) = 32
  /\ Script[1] = <<"fk on", "sessions">> /\ Script[2] = <<"table", "sessions">>
  /\ Script[3] = <<"index", "active">> /\ Script[4] = <<"table", "briefings">>
  /\ Script[5] = <<"table", "rounds">> /\ Script[6] = <<"drop index", "round">>
  /\ Script[7] = <<"index", "round">> /\ Script[8] = <<"table", "watch">>
  /\ Script[9] = <<"index", "thread">> /\ Script[10] = <<"table", "messages">>
  /\ Script[11] = <<"index", "message">> /\ Script[12] = <<"table", "outbox">>
  /\ Script[13] = <<"dedupe", "watch">> /\ Script[14] = <<"index", "on">>
  /\ Script[15] = <<"fk off", "watch">> /\ Script[16] = <<"begin", "watch">>
  /\ Script[17] = <<"create", "watch">> /\ Script[18] = <<"copy", "watch">>
  /\ Script[19] = <<"drop", "watch">> /\ Script[20] = <<"rename", "watch">>
  /\ Script[21] = <<"index", "thread">> /\ Script[22] = <<"index", "on">>
  /\ Script[23] = <<"commit", "watch">> /\ Script[24] = <<"fk on", "watch">>
  /\ Script[25] = <<"fk off", "outbox">> /\ Script[26] = <<"begin", "outbox">>
  /\ Script[27] = <<"create", "outbox">> /\ Script[28] = <<"copy", "outbox">>
  /\ Script[29] = <<"drop", "outbox">> /\ Script[30] = <<"rename", "outbox">>
  /\ Script[31] = <<"commit", "outbox">> /\ Script[32] = <<"fk on", "outbox">>
<1> DEFINE watch == RebuildScript("watch")
           endWatch == EndScript("watch")
           outbox == RebuildScript("outbox")
           endOutbox == EndScript("outbox")
           p2 == CreateScript \o watch
           p3 == p2 \o RestoreIndexes
           p4 == p3 \o endWatch
           p5 == p4 \o outbox
           p6 == p5 \o endOutbox
<1>a. "watch" \in Schema /\ "outbox" \in Schema
  BY DEF Schema
<1>b. /\ watch \in Seq(Statements) /\ Len(watch) = 6
      /\ outbox \in Seq(Statements) /\ Len(outbox) = 6
      /\ endWatch \in Seq(Statements) /\ Len(endWatch) = 2
      /\ endOutbox \in Seq(Statements) /\ Len(endOutbox) = 2
  BY <1>a, RebuildStatements, Zenon
<1>0. Script = p6
  BY DEF Script
<1> HIDE DEF watch, endWatch, outbox, endOutbox
<1>2. /\ p2 \in Seq(Statements) /\ Len(p2) = 20
      /\ \A i \in 1..14 : p2[i] = CreateScript[i]
      /\ \A i \in 1..6 : p2[14 + i] = watch[i]
  <2>1. CreateScript \in Seq(Statements) /\ Len(CreateScript) = 14 /\ watch \in Seq(Statements) /\ Len(watch) = 6
    BY CreateStatements, <1>b, Zenon
  <2>2. /\ p2 \in Seq(Statements) /\ Len(p2) = Len(CreateScript) + Len(watch)
        /\ \A i \in 1..Len(CreateScript) : p2[i] = CreateScript[i]
        /\ \A i \in 1..Len(watch) : p2[Len(CreateScript) + i] = watch[i]
    BY <2>1, Pieces, Zenon
  <2> HIDE DEF p2
  <2> QED BY <2>1, <2>2
<1> HIDE DEF p2
<1>3. /\ p3 \in Seq(Statements) /\ Len(p3) = 22
      /\ \A i \in 1..20 : p3[i] = p2[i]
      /\ \A i \in 1..2 : p3[20 + i] = RestoreIndexes[i]
  <2>1. p2 \in Seq(Statements) /\ Len(p2) = 20 /\ RestoreIndexes \in Seq(Statements) /\ Len(RestoreIndexes) = 2
    BY RestoreStatements, <1>2, Zenon
  <2>2. /\ p3 \in Seq(Statements) /\ Len(p3) = Len(p2) + Len(RestoreIndexes)
        /\ \A i \in 1..Len(p2) : p3[i] = p2[i]
        /\ \A i \in 1..Len(RestoreIndexes) : p3[Len(p2) + i] = RestoreIndexes[i]
    BY <2>1, Pieces, Zenon
  <2> HIDE DEF p3
  <2> QED BY <2>1, <2>2
<1> HIDE DEF p3
<1>4. /\ p4 \in Seq(Statements) /\ Len(p4) = 24
      /\ \A i \in 1..22 : p4[i] = p3[i]
      /\ \A i \in 1..2 : p4[22 + i] = endWatch[i]
  <2>1. p3 \in Seq(Statements) /\ Len(p3) = 22 /\ endWatch \in Seq(Statements) /\ Len(endWatch) = 2
    BY <1>b, <1>3, Zenon
  <2>2. /\ p4 \in Seq(Statements) /\ Len(p4) = Len(p3) + Len(endWatch)
        /\ \A i \in 1..Len(p3) : p4[i] = p3[i]
        /\ \A i \in 1..Len(endWatch) : p4[Len(p3) + i] = endWatch[i]
    BY <2>1, Pieces, Zenon
  <2> HIDE DEF p4
  <2> QED BY <2>1, <2>2
<1> HIDE DEF p4
<1>5. /\ p5 \in Seq(Statements) /\ Len(p5) = 30
      /\ \A i \in 1..24 : p5[i] = p4[i]
      /\ \A i \in 1..6 : p5[24 + i] = outbox[i]
  <2>1. p4 \in Seq(Statements) /\ Len(p4) = 24 /\ outbox \in Seq(Statements) /\ Len(outbox) = 6
    BY <1>b, <1>4, Zenon
  <2>2. /\ p5 \in Seq(Statements) /\ Len(p5) = Len(p4) + Len(outbox)
        /\ \A i \in 1..Len(p4) : p5[i] = p4[i]
        /\ \A i \in 1..Len(outbox) : p5[Len(p4) + i] = outbox[i]
    BY <2>1, Pieces, Zenon
  <2> HIDE DEF p5
  <2> QED BY <2>1, <2>2
<1> HIDE DEF p5
<1>6. /\ p6 \in Seq(Statements) /\ Len(p6) = 32
      /\ \A i \in 1..30 : p6[i] = p5[i]
      /\ \A i \in 1..2 : p6[30 + i] = endOutbox[i]
  <2>1. p5 \in Seq(Statements) /\ Len(p5) = 30 /\ endOutbox \in Seq(Statements) /\ Len(endOutbox) = 2
    BY <1>b, <1>5, Zenon
  <2>2. /\ p6 \in Seq(Statements) /\ Len(p6) = Len(p5) + Len(endOutbox)
        /\ \A i \in 1..Len(p5) : p6[i] = p5[i]
        /\ \A i \in 1..Len(endOutbox) : p6[Len(p5) + i] = endOutbox[i]
    BY <2>1, Pieces, Zenon
  <2> HIDE DEF p6
  <2> QED BY <2>1, <2>2
<1> HIDE DEF p6
<1>7. \A i \in 1..14 : Script[i] = CreateScript[i]
  <2> TAKE i \in 1..14
  <2>1. i \in 1..20 /\ i \in 1..22 /\ i \in 1..24 /\ i \in 1..30
    OBVIOUS
  <2>2. p6[i] = p5[i]
    BY <2>1, <1>6
  <2>3. p5[i] = p4[i]
    BY <2>1, <1>5
  <2>4. p4[i] = p3[i]
    BY <2>1, <1>4
  <2>5. p3[i] = p2[i]
    BY <2>1, <1>3
  <2> QED BY <1>0, <1>2, <2>2, <2>3, <2>4, <2>5, Zenon
<1>8. \A i \in 1..6 : Script[14 + i] = watch[i]
  <2> TAKE i \in 1..6
  <2>1. 14 + i \in 1..20 /\ 14 + i \in 1..22 /\ 14 + i \in 1..24 /\ 14 + i \in 1..30
    OBVIOUS
  <2>2. p6[14 + i] = p5[14 + i]
    BY <2>1, <1>6
  <2>3. p5[14 + i] = p4[14 + i]
    BY <2>1, <1>5
  <2>4. p4[14 + i] = p3[14 + i]
    BY <2>1, <1>4
  <2>5. p3[14 + i] = p2[14 + i]
    BY <2>1, <1>3
  <2> QED BY <1>0, <1>2, <2>2, <2>3, <2>4, <2>5, Zenon
<1>9. \A i \in 1..2 : Script[20 + i] = RestoreIndexes[i]
  <2> TAKE i \in 1..2
  <2>1. 20 + i \in 1..22 /\ 20 + i \in 1..24 /\ 20 + i \in 1..30
    OBVIOUS
  <2>2. p6[20 + i] = p5[20 + i]
    BY <2>1, <1>6
  <2>3. p5[20 + i] = p4[20 + i]
    BY <2>1, <1>5
  <2>4. p4[20 + i] = p3[20 + i]
    BY <2>1, <1>4
  <2> QED BY <1>0, <1>3, <2>2, <2>3, <2>4, Zenon
<1>10. \A i \in 1..2 : Script[22 + i] = endWatch[i]
  <2> TAKE i \in 1..2
  <2>1. 22 + i \in 1..24 /\ 22 + i \in 1..30
    OBVIOUS
  <2>2. p6[22 + i] = p5[22 + i]
    BY <2>1, <1>6
  <2>3. p5[22 + i] = p4[22 + i]
    BY <2>1, <1>5
  <2> QED BY <1>0, <1>4, <2>2, <2>3, Zenon
<1>11. \A i \in 1..6 : Script[24 + i] = outbox[i]
  <2> TAKE i \in 1..6
  <2>1. 24 + i \in 1..30
    OBVIOUS
  <2>2. p6[24 + i] = p5[24 + i]
    BY <2>1, <1>6
  <2> QED BY <1>0, <1>5, <2>2, Zenon
<1>12. \A i \in 1..2 : Script[30 + i] = endOutbox[i]
  BY <1>0, <1>6, Zenon
<1>13. Len(Script) = 32
  BY <1>0, <1>6
<1>14. /\ Script[1] = CreateScript[1] /\ Script[2] = CreateScript[2]
       /\ Script[3] = CreateScript[3] /\ Script[4] = CreateScript[4]
       /\ Script[5] = CreateScript[5] /\ Script[6] = CreateScript[6]
       /\ Script[7] = CreateScript[7] /\ Script[8] = CreateScript[8]
       /\ Script[9] = CreateScript[9] /\ Script[10] = CreateScript[10]
       /\ Script[11] = CreateScript[11] /\ Script[12] = CreateScript[12]
       /\ Script[13] = CreateScript[13] /\ Script[14] = CreateScript[14]
  BY <1>7
<1>15. /\ Script[15] = watch[1] /\ Script[16] = watch[2]
       /\ Script[17] = watch[3] /\ Script[18] = watch[4]
       /\ Script[19] = watch[5] /\ Script[20] = watch[6]
  BY <1>8
<1>16. /\ Script[21] = RestoreIndexes[1] /\ Script[22] = RestoreIndexes[2]
       /\ Script[23] = endWatch[1] /\ Script[24] = endWatch[2]
  BY <1>9, <1>10
<1>17. /\ Script[25] = outbox[1] /\ Script[26] = outbox[2]
       /\ Script[27] = outbox[3] /\ Script[28] = outbox[4]
       /\ Script[29] = outbox[5] /\ Script[30] = outbox[6]
       /\ Script[31] = endOutbox[1] /\ Script[32] = endOutbox[2]
  BY <1>11, <1>12
<1>18. /\ Script[15] = <<"fk off", "watch">> /\ Script[16] = <<"begin", "watch">>
       /\ Script[17] = <<"create", "watch">> /\ Script[18] = <<"copy", "watch">>
       /\ Script[19] = <<"drop", "watch">> /\ Script[20] = <<"rename", "watch">>
       /\ Script[23] = <<"commit", "watch">> /\ Script[24] = <<"fk on", "watch">>
  BY <1>a, <1>15, <1>16, RebuildStatements, ZenonT(30) DEF watch, endWatch
<1>19. /\ Script[25] = <<"fk off", "outbox">> /\ Script[26] = <<"begin", "outbox">>
       /\ Script[27] = <<"create", "outbox">> /\ Script[28] = <<"copy", "outbox">>
       /\ Script[29] = <<"drop", "outbox">> /\ Script[30] = <<"rename", "outbox">>
       /\ Script[31] = <<"commit", "outbox">> /\ Script[32] = <<"fk on", "outbox">>
  BY <1>a, <1>17, RebuildStatements, ZenonT(30) DEF outbox, endOutbox
<1> QED
  BY <1>13, <1>14, <1>16, <1>18, <1>19, CreateStatements, RestoreStatements, ZenonT(30)

\* The next statement, by its place.
StatementIs(op, name) == Script[mpc][1] = op /\ Script[mpc][2] = name

LEMMA StatementByPlace ==
  /\ mpc = 1 => StatementIs("fk on", "sessions")
  /\ mpc = 2 => StatementIs("table", "sessions")
  /\ mpc = 3 => StatementIs("index", "active")
  /\ mpc = 4 => StatementIs("table", "briefings")
  /\ mpc = 5 => StatementIs("table", "rounds")
  /\ mpc = 6 => StatementIs("drop index", "round")
  /\ mpc = 7 => StatementIs("index", "round")
  /\ mpc = 8 => StatementIs("table", "watch")
  /\ mpc = 9 => StatementIs("index", "thread")
  /\ mpc = 10 => StatementIs("table", "messages")
  /\ mpc = 11 => StatementIs("index", "message")
  /\ mpc = 12 => StatementIs("table", "outbox")
  /\ mpc = 13 => StatementIs("dedupe", "watch")
  /\ mpc = 14 => StatementIs("index", "on")
  /\ mpc = 15 => StatementIs("fk off", "watch")
  /\ mpc = 16 => StatementIs("begin", "watch")
  /\ mpc = 17 => StatementIs("create", "watch")
  /\ mpc = 18 => StatementIs("copy", "watch")
  /\ mpc = 19 => StatementIs("drop", "watch")
  /\ mpc = 20 => StatementIs("rename", "watch")
  /\ mpc = 21 => StatementIs("index", "thread")
  /\ mpc = 22 => StatementIs("index", "on")
  /\ mpc = 23 => StatementIs("commit", "watch")
  /\ mpc = 24 => StatementIs("fk on", "watch")
  /\ mpc = 25 => StatementIs("fk off", "outbox")
  /\ mpc = 26 => StatementIs("begin", "outbox")
  /\ mpc = 27 => StatementIs("create", "outbox")
  /\ mpc = 28 => StatementIs("copy", "outbox")
  /\ mpc = 29 => StatementIs("drop", "outbox")
  /\ mpc = 30 => StatementIs("rename", "outbox")
  /\ mpc = 31 => StatementIs("commit", "outbox")
  /\ mpc = 32 => StatementIs("fk on", "outbox")
<1>0. ASSUME NEW op, NEW name, Script[mpc] = <<op, name>>
      PROVE  StatementIs(op, name)
  BY <1>0 DEF StatementIs
<1>1. mpc = 1 => StatementIs("fk on", "sessions")
  BY <1>0, ScriptStatements, ZenonT(30)
<1>2. mpc = 2 => StatementIs("table", "sessions")
  BY <1>0, ScriptStatements, ZenonT(30)
<1>3. mpc = 3 => StatementIs("index", "active")
  BY <1>0, ScriptStatements, ZenonT(30)
<1>4. mpc = 4 => StatementIs("table", "briefings")
  BY <1>0, ScriptStatements, ZenonT(30)
<1>5. mpc = 5 => StatementIs("table", "rounds")
  BY <1>0, ScriptStatements, ZenonT(30)
<1>6. mpc = 6 => StatementIs("drop index", "round")
  BY <1>0, ScriptStatements, ZenonT(30)
<1>7. mpc = 7 => StatementIs("index", "round")
  BY <1>0, ScriptStatements, ZenonT(30)
<1>8. mpc = 8 => StatementIs("table", "watch")
  BY <1>0, ScriptStatements, ZenonT(30)
<1>9. mpc = 9 => StatementIs("index", "thread")
  BY <1>0, ScriptStatements, ZenonT(30)
<1>10. mpc = 10 => StatementIs("table", "messages")
  BY <1>0, ScriptStatements, ZenonT(30)
<1>11. mpc = 11 => StatementIs("index", "message")
  BY <1>0, ScriptStatements, ZenonT(30)
<1>12. mpc = 12 => StatementIs("table", "outbox")
  BY <1>0, ScriptStatements, ZenonT(30)
<1>13. mpc = 13 => StatementIs("dedupe", "watch")
  BY <1>0, ScriptStatements, ZenonT(30)
<1>14. mpc = 14 => StatementIs("index", "on")
  BY <1>0, ScriptStatements, ZenonT(30)
<1>15. mpc = 15 => StatementIs("fk off", "watch")
  BY <1>0, ScriptStatements, ZenonT(30)
<1>16. mpc = 16 => StatementIs("begin", "watch")
  BY <1>0, ScriptStatements, ZenonT(30)
<1>17. mpc = 17 => StatementIs("create", "watch")
  BY <1>0, ScriptStatements, ZenonT(30)
<1>18. mpc = 18 => StatementIs("copy", "watch")
  BY <1>0, ScriptStatements, ZenonT(30)
<1>19. mpc = 19 => StatementIs("drop", "watch")
  BY <1>0, ScriptStatements, ZenonT(30)
<1>20. mpc = 20 => StatementIs("rename", "watch")
  BY <1>0, ScriptStatements, ZenonT(30)
<1>21. mpc = 21 => StatementIs("index", "thread")
  BY <1>0, ScriptStatements, ZenonT(30)
<1>22. mpc = 22 => StatementIs("index", "on")
  BY <1>0, ScriptStatements, ZenonT(30)
<1>23. mpc = 23 => StatementIs("commit", "watch")
  BY <1>0, ScriptStatements, ZenonT(30)
<1>24. mpc = 24 => StatementIs("fk on", "watch")
  BY <1>0, ScriptStatements, ZenonT(30)
<1>25. mpc = 25 => StatementIs("fk off", "outbox")
  BY <1>0, ScriptStatements, ZenonT(30)
<1>26. mpc = 26 => StatementIs("begin", "outbox")
  BY <1>0, ScriptStatements, ZenonT(30)
<1>27. mpc = 27 => StatementIs("create", "outbox")
  BY <1>0, ScriptStatements, ZenonT(30)
<1>28. mpc = 28 => StatementIs("copy", "outbox")
  BY <1>0, ScriptStatements, ZenonT(30)
<1>29. mpc = 29 => StatementIs("drop", "outbox")
  BY <1>0, ScriptStatements, ZenonT(30)
<1>30. mpc = 30 => StatementIs("rename", "outbox")
  BY <1>0, ScriptStatements, ZenonT(30)
<1>31. mpc = 31 => StatementIs("commit", "outbox")
  BY <1>0, ScriptStatements, ZenonT(30)
<1>32. mpc = 32 => StatementIs("fk on", "outbox")
  BY <1>0, ScriptStatements, ZenonT(30)
<1> QED
  BY <1>1, <1>2, <1>3, <1>4, <1>5, <1>6, <1>7, <1>8, <1>9, <1>10,
     <1>11, <1>12, <1>13, <1>14, <1>15, <1>16, <1>17, <1>18, <1>19, <1>20,
     <1>21, <1>22, <1>23, <1>24, <1>25, <1>26, <1>27, <1>28, <1>29, <1>30,
     <1>31, <1>32, Zenon

\* Where in the scripts a statement of each kind stands, and on what.
LEMMA StatementAt ==
  ASSUME mpc \in 1..33
  PROVE  /\ NextIs("fk on") <=> mpc \in {1, 24, 32}
         /\ NextIs("fk off") <=> mpc \in {15, 25}
         /\ NextIs("table") <=> mpc \in {2, 4, 5, 8, 10, 12}
         /\ NextIs("index") <=> mpc \in {3, 7, 9, 11, 14, 21, 22}
         /\ NextIs("drop index") <=> mpc \in {6}
         /\ NextIs("dedupe") <=> mpc \in {13}
         /\ NextIs("begin") <=> mpc \in {16, 26}
         /\ NextIs("create") <=> mpc \in {17, 27}
         /\ NextIs("copy") <=> mpc \in {18, 28}
         /\ NextIs("drop") <=> mpc \in {19, 29}
         /\ NextIs("rename") <=> mpc \in {20, 30}
         /\ NextIs("commit") <=> mpc \in {23, 31}
         /\ mpc \in {1, 2} => TableAt = "sessions"
         /\ mpc \in {3} => TableAt = "active"
         /\ mpc \in {4} => TableAt = "briefings"
         /\ mpc \in {5} => TableAt = "rounds"
         /\ mpc \in {6, 7} => TableAt = "round"
         /\ mpc \in {8, 13, 15, 16, 17, 18, 19, 20, 23, 24} => TableAt = "watch"
         /\ mpc \in {9, 21} => TableAt = "thread"
         /\ mpc \in {10} => TableAt = "messages"
         /\ mpc \in {11} => TableAt = "message"
         /\ mpc \in {12, 25, 26, 27, 28, 29, 30, 31, 32} => TableAt = "outbox"
         /\ mpc \in {14, 22} => TableAt = "on"
         /\ IndexAt = TableAt
         /\ Migrated <=> mpc = 33
<1>0. IndexAt = TableAt
  BY DEF IndexAt, TableAt
<1>1. CASE mpc = 33
  <2>1. Len(Script) = 32
    BY ScriptStatements, Zenon
  <2>2. Migrated
    BY <1>1, <2>1 DEF Migrated
  <2> QED BY <1>0, <1>1, <2>2 DEF NextIs
<1>2. CASE mpc \in 1..32
  <2> DEFINE op == Script[mpc][1]
             name == Script[mpc][2]
  <2>1. ~Migrated
    <3>1. Len(Script) = 32
      BY ScriptStatements, Zenon
    <3> QED BY <1>2, <3>1 DEF Migrated
  <2>2. TableAt = name /\ \A o : NextIs(o) <=> op = o
    BY <2>1, Zenon DEF NextIs, TableAt
  <2> DEFINE Is(o, t) == op = o /\ name = t
  <2>3. /\ mpc = 1 => Is("fk on", "sessions")
        /\ mpc = 2 => Is("table", "sessions")
        /\ mpc = 3 => Is("index", "active")
        /\ mpc = 4 => Is("table", "briefings")
        /\ mpc = 5 => Is("table", "rounds")
        /\ mpc = 6 => Is("drop index", "round")
        /\ mpc = 7 => Is("index", "round")
        /\ mpc = 8 => Is("table", "watch")
        /\ mpc = 9 => Is("index", "thread")
        /\ mpc = 10 => Is("table", "messages")
        /\ mpc = 11 => Is("index", "message")
        /\ mpc = 12 => Is("table", "outbox")
        /\ mpc = 13 => Is("dedupe", "watch")
        /\ mpc = 14 => Is("index", "on")
        /\ mpc = 15 => Is("fk off", "watch")
        /\ mpc = 16 => Is("begin", "watch")
        /\ mpc = 17 => Is("create", "watch")
        /\ mpc = 18 => Is("copy", "watch")
        /\ mpc = 19 => Is("drop", "watch")
        /\ mpc = 20 => Is("rename", "watch")
        /\ mpc = 21 => Is("index", "thread")
        /\ mpc = 22 => Is("index", "on")
        /\ mpc = 23 => Is("commit", "watch")
        /\ mpc = 24 => Is("fk on", "watch")
        /\ mpc = 25 => Is("fk off", "outbox")
        /\ mpc = 26 => Is("begin", "outbox")
        /\ mpc = 27 => Is("create", "outbox")
        /\ mpc = 28 => Is("copy", "outbox")
        /\ mpc = 29 => Is("drop", "outbox")
        /\ mpc = 30 => Is("rename", "outbox")
        /\ mpc = 31 => Is("commit", "outbox")
        /\ mpc = 32 => Is("fk on", "outbox")
    BY StatementByPlace, ZenonT(30) DEF StatementIs
  <2> HIDE DEF op, name
  <2>a. mpc \in {1, 2, 3, 4, 5, 6, 7, 8, 9, 10, 11, 12, 13, 14, 15, 16,
                 17, 18, 19, 20, 21, 22, 23, 24, 25, 26, 27, 28, 29, 30, 31, 32}
    BY <1>2
  <2>4. /\ op = "fk on" <=> mpc \in {1, 24, 32}
        /\ op = "fk off" <=> mpc \in {15, 25}
        /\ op = "table" <=> mpc \in {2, 4, 5, 8, 10, 12}
        /\ op = "index" <=> mpc \in {3, 7, 9, 11, 14, 21, 22}
        /\ op = "drop index" <=> mpc \in {6}
        /\ op = "dedupe" <=> mpc \in {13}
        /\ op = "begin" <=> mpc \in {16, 26}
        /\ op = "create" <=> mpc \in {17, 27}
        /\ op = "copy" <=> mpc \in {18, 28}
        /\ op = "drop" <=> mpc \in {19, 29}
        /\ op = "rename" <=> mpc \in {20, 30}
        /\ op = "commit" <=> mpc \in {23, 31}
    <3>1. op = "fk on" <=> mpc \in {1, 24, 32}
      BY <2>3, <2>a
    <3>2. op = "fk off" <=> mpc \in {15, 25}
      BY <2>3, <2>a
    <3>3. op = "table" <=> mpc \in {2, 4, 5, 8, 10, 12}
      BY <2>3, <2>a
    <3>4. op = "index" <=> mpc \in {3, 7, 9, 11, 14, 21, 22}
      BY <2>3, <2>a
    <3>5. op = "drop index" <=> mpc \in {6}
      BY <2>3, <2>a
    <3>6. op = "dedupe" <=> mpc \in {13}
      BY <2>3, <2>a
    <3>7. op = "begin" <=> mpc \in {16, 26}
      BY <2>3, <2>a
    <3>8. op = "create" <=> mpc \in {17, 27}
      BY <2>3, <2>a
    <3>9. op = "copy" <=> mpc \in {18, 28}
      BY <2>3, <2>a
    <3>10. op = "drop" <=> mpc \in {19, 29}
      BY <2>3, <2>a
    <3>11. op = "rename" <=> mpc \in {20, 30}
      BY <2>3, <2>a
    <3>12. op = "commit" <=> mpc \in {23, 31}
      BY <2>3, <2>a
    <3> QED BY <3>1, <3>2, <3>3, <3>4, <3>5, <3>6, <3>7, <3>8, <3>9, <3>10, <3>11, <3>12, Zenon
  <2>5. /\ mpc \in {1, 2} => name = "sessions"
        /\ mpc \in {3} => name = "active"
        /\ mpc \in {4} => name = "briefings"
        /\ mpc \in {5} => name = "rounds"
        /\ mpc \in {6, 7} => name = "round"
        /\ mpc \in {8, 13, 15, 16, 17, 18, 19, 20, 23, 24} => name = "watch"
        /\ mpc \in {9, 21} => name = "thread"
        /\ mpc \in {10} => name = "messages"
        /\ mpc \in {11} => name = "message"
        /\ mpc \in {12, 25, 26, 27, 28, 29, 30, 31, 32} => name = "outbox"
        /\ mpc \in {14, 22} => name = "on"
    <3>1. mpc \in {1, 2} => name = "sessions"
      BY <2>3
    <3>2. mpc \in {3} => name = "active"
      BY <2>3
    <3>3. mpc \in {4} => name = "briefings"
      BY <2>3
    <3>4. mpc \in {5} => name = "rounds"
      BY <2>3
    <3>5. mpc \in {6, 7} => name = "round"
      BY <2>3
    <3>6. mpc \in {8, 13, 15, 16, 17, 18, 19, 20, 23, 24} => name = "watch"
      BY <2>3
    <3>7. mpc \in {9, 21} => name = "thread"
      BY <2>3
    <3>8. mpc \in {10} => name = "messages"
      BY <2>3
    <3>9. mpc \in {11} => name = "message"
      BY <2>3
    <3>10. mpc \in {12, 25, 26, 27, 28, 29, 30, 31, 32} => name = "outbox"
      BY <2>3
    <3>11. mpc \in {14, 22} => name = "on"
      BY <2>3
    <3> QED BY <3>1, <3>2, <3>3, <3>4, <3>5, <3>6, <3>7, <3>8, <3>9, <3>10, <3>11, Zenon
  <2> HIDE DEF Is
  <2>6. ~(mpc = 33)
    BY <1>2
  <2> QED BY <1>0, <2>1, <2>2, <2>4, <2>5, <2>6, ZenonT(30)
<1>3. mpc \in 1..32 \/ mpc = 33
  OBVIOUS
<1> QED BY <1>1, <1>2, <1>3, ZenonT(30)

-----------------------------------------------------------------------------
(* Rows of watch targets.                                                   *)

LEMMA TargetRowsType ==
  ASSUME NEW rows
  PROVE  rows \in TargetRows <=> DOMAIN rows \subseteq Targets /\ rows \in [DOMAIN rows -> Statuses]
  BY DEF TargetRows

\* Deduplicating leaves one ON target at most and changes nothing where there
\* is no more than one, so doing it again changes nothing.
LEMMA NewestOnFacts ==
  ASSUME NEW rows \in TargetRows
  PROVE  /\ NewestOn(rows) \in TargetRows /\ DOMAIN NewestOn(rows) = DOMAIN rows
         /\ AtMostOneOn(NewestOn(rows))
         /\ AtMostOneOn(rows) => NewestOn(rows) = rows
<1>1. DOMAIN rows \subseteq Targets /\ rows \in [DOMAIN rows -> Statuses]
  BY TargetRowsType
<1>2. DOMAIN NewestOn(rows) = DOMAIN rows
  BY DEF NewestOn
<1>3. NewestOn(rows) \in TargetRows
  BY <1>1, <1>2, TargetRowsType DEF NewestOn, Statuses
<1>4. AtMostOneOn(NewestOn(rows))
  <2> SUFFICES ASSUME NEW t \in OnRows(NewestOn(rows)), NEW u \in OnRows(NewestOn(rows))
               PROVE  t = u
    BY DEF AtMostOneOn
  <2>1. t \in OnRows(rows) /\ u \in OnRows(rows)
    BY <1>2 DEF OnRows, NewestOn
  <2>2. ~(u > t) /\ ~(t > u)
    BY <1>2, <2>1 DEF OnRows, NewestOn
  <2>3. t \in Nat /\ u \in Nat
    BY <1>1, <2>1, TargetsAssumption DEF OnRows
  <2> QED BY <2>2, <2>3
<1>5. ASSUME AtMostOneOn(rows)
      PROVE  NewestOn(rows) = rows
  <2>1. ASSUME NEW t \in DOMAIN rows
        PROVE  NewestOn(rows)[t] = rows[t]
    <3>1. CASE \E u \in OnRows(rows) : u > t
      <4>1. PICK u \in OnRows(rows) : u > t
        BY <3>1
      <4>2. u \in Nat /\ t \in Nat
        BY <1>1, TargetsAssumption DEF OnRows
      <4>3. t \notin OnRows(rows)
        BY <1>5, <4>1, <4>2 DEF AtMostOneOn
      <4> QED BY <1>1, <3>1, <4>3 DEF NewestOn, OnRows, Statuses
    <3>2. CASE ~\E u \in OnRows(rows) : u > t
      BY <3>2 DEF NewestOn
    <3> QED BY <3>1, <3>2
  <2> QED BY <1>1, <1>2, <2>1 DEF NewestOn
<1> QED BY <1>2, <1>3, <1>4, <1>5

\* What the unique index asks for.
LEMMA AtMostOneIsCounted ==
  ASSUME NEW rows, AtMostOneOn(rows)
  PROVE  Cardinality(OnRows(rows)) <= 1
<1>1. CASE OnRows(rows) = {}
  <2>1. Cardinality(OnRows(rows)) = 0
    BY <1>1, FS_EmptySet, Zenon
  <2> QED BY <2>1
<1>2. CASE OnRows(rows) # {}
  <2>1. PICK t : t \in OnRows(rows)
    BY <1>2
  <2>2. OnRows(rows) = {t}
    BY <2>1 DEF AtMostOneOn
  <2>3. Cardinality(OnRows(rows)) = 1
    BY <2>2, FS_Singleton, Zenon
  <2> QED BY <2>3
<1> QED BY <1>1, <1>2

\* The table or the index of the next statement.
LEMMA NameAt ==
  ASSUME mpc \in 1..33
  PROVE  /\ mpc = 2 => TableAt = "sessions"
         /\ mpc = 4 => TableAt = "briefings"
         /\ mpc = 5 => TableAt = "rounds"
         /\ mpc \in {8, 18, 19, 20} => TableAt = "watch"
         /\ mpc = 10 => TableAt = "messages"
         /\ mpc \in {12, 28, 29, 30} => TableAt = "outbox"
         /\ mpc = 3 => IndexAt = "active"
         /\ mpc = 7 => IndexAt = "round"
         /\ mpc \in {9, 21} => IndexAt = "thread"
         /\ mpc = 11 => IndexAt = "message"
         /\ mpc \in {14, 22} => IndexAt = "on"
<1>1. /\ mpc \in {1, 2} => TableAt = "sessions"
      /\ mpc \in {3} => TableAt = "active"
      /\ mpc \in {4} => TableAt = "briefings"
      /\ mpc \in {5} => TableAt = "rounds"
      /\ mpc \in {6, 7} => TableAt = "round"
      /\ mpc \in {8, 13, 15, 16, 17, 18, 19, 20, 23, 24} => TableAt = "watch"
      /\ mpc \in {9, 21} => TableAt = "thread"
      /\ mpc \in {10} => TableAt = "messages"
      /\ mpc \in {11} => TableAt = "message"
      /\ mpc \in {12, 25, 26, 27, 28, 29, 30, 31, 32} => TableAt = "outbox"
      /\ mpc \in {14, 22} => TableAt = "on"
      /\ IndexAt = TableAt
  BY StatementAt, ZenonT(30)
<1> QED BY <1>1

LEMMA ScriptLength == Len(Script) = 32
  BY ScriptStatements, Zenon

\* A statement of a start in progress, the process going on.
Stepping ==
  /\ Alive /\ Alive'
  /\ mpc' = mpc + 1 /\ UNCHANGED logical

\* The invariant in the form the steps use: nothing is ahead outside of the
\* transactions.
LEMMA OutsideTransaction ==
  ASSUME ScriptInv, Alive, mpc \in 1..16 \cup 24..26 \cup 32..33
  PROVE  ~tx /\ db = disk
  BY DEF ScriptInv, Connection

LEMMA InTransaction ==
  ASSUME ScriptInv, Alive, mpc \in 17..23 \cup 27..31
  PROVE  tx /\ WatchAhead(db, mpc) /\ OutboxAhead(db, mpc)
  BY DEF ScriptInv, Connection

\* Most statements of a rebuild leave nothing that those after them need on disk.
LEMMA NothingNewMade ==
  ASSUME NEW d, Made(d, mpc), mpc \in {1} \cup 15..22 \cup 24..30 \cup {32}
  PROVE  Made(d, mpc + 1)
  BY DEF Made

\* PRAGMA foreign_keys.
LEMMA PragmaKeepsScript ==
  ASSUME ScriptInv, Stepping, SetForeignKeys, mpc \in 1..33
  PROVE  ScriptInv'
<1>1. mpc \in {1, 15, 24, 25, 32}
  BY StatementAt DEF SetForeignKeys
<1>2. ~tx
  BY <1>1, OutsideTransaction DEF Stepping
<1>3. /\ UNCHANGED <<db, disk, tx, logical>> /\ mpc' = mpc + 1
      /\ fk' = NextIs("fk on")
  BY <1>2 DEF SetForeignKeys, Stepping
<1>4. fk' \in BOOLEAN /\ (mpc \in {1, 24, 32} => fk') /\ (mpc \in {15, 25} => ~fk')
  BY <1>3, StatementAt DEF NextIs
<1>5. \/ mpc = 1 /\ mpc' = 2
      \/ mpc = 15 /\ mpc' = 16
      \/ mpc = 24 /\ mpc' = 25
      \/ mpc = 25 /\ mpc' = 26
      \/ mpc = 32 /\ mpc' = 33
  BY <1>1 DEF Stepping
<1>6. MigrationTypeOK' /\ Startable(disk)'
  <2>1. mpc' \in 1..(Len(Script) + 1)
    BY <1>5, ScriptLength
  <2>2. UNCHANGED <<db, disk, tx, logical>> /\ fk' \in BOOLEAN
    BY <1>3, <1>4
  <2> QED BY <2>1, <2>2, Zenon DEF ScriptInv, MigrationTypeOK, Startable
<1>7. Made(disk, mpc)'
  <2>1. UNCHANGED disk /\ Made(disk, mpc)
    BY <1>3 DEF ScriptInv
  <2>2. Made(disk, mpc + 1)
    BY <1>1, <2>1, NothingNewMade
  <2>3. Made(disk', mpc')
    BY <1>3, <2>1, <2>2, Zenon
  <2> QED BY <2>3 DEF Made
<1>8. Connection'
  <2>1. mpc' \notin 17..23 \cup 27..31
    BY <1>5
  <2>2. /\ mpc' \in 16..23 => ~fk'
        /\ mpc' = 33 => fk'
    BY <1>4, <1>5
  <2>3. mpc \in 1..16 \cup 24..26 \cup 32..33
    BY <1>1
  <2>4. UNCHANGED <<db, disk, tx>> /\ db = disk
    BY <1>3, <2>3, OutsideTransaction DEF Stepping
  <2> QED BY <1>2, <2>1, <2>2, <2>4, Zenon DEF Connection, Stepping
<1> QED BY <1>6, <1>7, <1>8 DEF ScriptInv


\* A statement outside of a transaction is committed; what it does has to agree
\* with the place it comes to.
LEMMA AutocommitKeepsScript ==
  ASSUME ScriptInv, Stepping, mpc \in 2..14, NEW d, Write(d),
         d \in Databases, Startable(d), Made(d, mpc + 1)
  PROVE  ScriptInv'
<1>1. ~tx /\ db' = d /\ disk' = d /\ UNCHANGED <<fk, tx, logical>> /\ mpc' = mpc + 1
  BY OutsideTransaction DEF Write, Stepping
<1>2. MigrationTypeOK'
  <2>1. mpc' \in 1..33
    BY <1>1
  <2> QED BY <1>1, <2>1, ScriptLength DEF ScriptInv, MigrationTypeOK
<1>3. Startable(disk)' /\ Made(disk, mpc)'
  <2>1. Made(disk', mpc')
    BY <1>1, Zenon
  <2>2. Startable(disk)'
    BY <1>1, Zenon DEF Startable
  <2> QED BY <2>1, <2>2 DEF Made
<1>4. Connection'
  <2>1. mpc' \notin 16..23 /\ mpc' \notin 17..23 \cup 27..31 /\ mpc' # 33
    BY <1>1
  <2> QED BY <1>1, <2>1, Zenon DEF Connection, Stepping
<1> QED BY <1>2, <1>3, <1>4 DEF ScriptInv

\* What a statement of 001, 002 or 003 finds.
LEMMA BeforeRebuild ==
  ASSUME ScriptInv, Stepping, mpc \in 2..14
  PROVE  db = disk /\ db \in Databases /\ Startable(db) /\ Made(db, mpc)
  BY OutsideTransaction DEF Stepping, ScriptInv, MigrationTypeOK

\* CREATE TABLE IF NOT EXISTS.
LEMMA TableKeepsScript ==
  ASSUME ScriptInv, Stepping, CreateMissingTable, mpc \in 1..33
  PROVE  ScriptInv'
<1>1. mpc \in {2, 4, 5, 8, 10, 12}
  BY StatementAt DEF CreateMissingTable
<1>2. /\ mpc = 2 => TableAt = "sessions"
      /\ mpc = 4 => TableAt = "briefings"
      /\ mpc = 5 => TableAt = "rounds"
      /\ mpc = 8 => TableAt = "watch"
      /\ mpc = 10 => TableAt = "messages"
      /\ mpc = 12 => TableAt = "outbox"
  BY NameAt, ZenonT(30)
<1>3. db = disk /\ db \in Databases /\ Startable(db) /\ Made(db, mpc)
  BY <1>1, BeforeRebuild
<1> DEFINE manual == db.manual /\ (TableAt = "watch" => "watch" \in db.tables)
           d == [db EXCEPT !.tables = @ \cup {TableAt}, !.manual = manual]
<1>4. Write(d)
  BY <1>3 DEF CreateMissingTable, Databases
<1>5. TableAt \in Schema /\ manual \in BOOLEAN
  BY <1>1, <1>2, <1>3 DEF Schema, Databases
<1> HIDE DEF manual
<1>6. /\ d.tables = db.tables \cup {TableAt}
      /\ d.indexes = db.indexes /\ d.plain = db.plain /\ d.twice = db.twice
      /\ d.watch = db.watch /\ d.watchNew = db.watchNew /\ d.messages = db.messages
      /\ d.outbox = db.outbox /\ d.outboxNew = db.outboxNew
  BY <1>3 DEF Databases
<1>7. d \in Databases
  BY <1>3, <1>5 DEF Databases, Tables
<1> HIDE DEF d
<1>8. Startable(d)
  BY <1>3, <1>5, <1>6 DEF Startable
<1>9. Made(d, mpc + 1)
  <2>1. mpc = 12 => d.tables = Schema
    BY <1>2, <1>3, <1>5, <1>6 DEF Made, Startable, Schema
  <2> QED BY <1>1, <1>2, <1>3, <1>6, <2>1 DEF Made
<1> QED BY <1>1, <1>4, <1>7, <1>8, <1>9, AutocommitKeepsScript

\* DROP INDEX.
LEMMA DropIndexKeepsScript ==
  ASSUME ScriptInv, Stepping, DropIndex, mpc \in 1..33
  PROVE  ScriptInv'
<1>1. mpc = 6
  BY StatementAt DEF DropIndex
<1>2. IndexAt = "round"
  BY <1>1, StatementAt
<1>3. db = disk /\ db \in Databases /\ Startable(db) /\ Made(db, mpc)
  BY <1>1, BeforeRebuild
<1> DEFINE d == [db EXCEPT !.indexes = @ \ {"round"}, !.plain = FALSE]
<1>4. Write(d)
  BY <1>2 DEF DropIndex
<1>5. /\ d.indexes = db.indexes \ {"round"} /\ d.plain = FALSE
      /\ d.tables = db.tables /\ d.twice = db.twice
      /\ d.watch = db.watch /\ d.watchNew = db.watchNew /\ d.messages = db.messages
      /\ d.outbox = db.outbox /\ d.outboxNew = db.outboxNew
  BY <1>3 DEF Databases
<1>6. d \in Databases
  BY <1>3 DEF Databases
<1> HIDE DEF d
<1>7. Startable(d) /\ Made(d, mpc + 1)
  BY <1>1, <1>3, <1>5 DEF Startable, Made
<1> QED BY <1>1, <1>4, <1>6, <1>7, AutocommitKeepsScript

\* The UPDATE of 003.
LEMMA DedupeKeepsScript ==
  ASSUME ScriptInv, Stepping, Dedupe, mpc \in 1..33
  PROVE  ScriptInv'
<1>1. mpc = 13
  BY StatementAt DEF Dedupe
<1>2. db = disk /\ db \in Databases /\ Startable(db) /\ Made(db, mpc)
  BY <1>1, BeforeRebuild
<1> DEFINE d == [db EXCEPT !.watch = NewestOn(@)]
<1>3. Write(d)
  BY DEF Dedupe
<1>4. /\ NewestOn(db.watch) \in TargetRows /\ DOMAIN NewestOn(db.watch) = DOMAIN db.watch
      /\ AtMostOneOn(NewestOn(db.watch))
      /\ NewestOn(NewestOn(db.watch)) = NewestOn(db.watch)
  BY <1>2, NewestOnFacts DEF Databases
<1>5. /\ d.watch = NewestOn(db.watch)
      /\ d.tables = db.tables /\ d.indexes = db.indexes /\ d.plain = db.plain
      /\ d.twice = db.twice /\ d.watchNew = db.watchNew /\ d.messages = db.messages
      /\ d.outbox = db.outbox /\ d.outboxNew = db.outboxNew
  BY <1>2 DEF Databases
<1>6. d \in Databases
  BY <1>2, <1>4 DEF Databases
<1> HIDE DEF d
<1>7. Startable(d)
  BY <1>2, <1>4, <1>5 DEF Startable
<1>8. Made(d, mpc + 1)
  BY <1>1, <1>2, <1>4, <1>5 DEF Made
<1> QED BY <1>1, <1>3, <1>6, <1>7, <1>8, AutocommitKeepsScript

\* CREATE UNIQUE INDEX makes the index, unless one that is not unique has its name.
LEMMA IndexMade ==
  ASSUME CreateIndex, db \in Databases, IndexAt = "round" => ~db.plain
  PROVE  Write([db EXCEPT !.indexes = @ \cup {IndexAt}])
<1>1. CASE NameTaken(IndexAt)
  <2>1. IndexAt \in db.indexes
    BY <1>1 DEF NameTaken
  <2>2. [db EXCEPT !.indexes = @ \cup {IndexAt}] = db
    BY <2>1 DEF Databases
  <2> QED BY <1>1, <2>2, Zenon DEF CreateIndex
<1>2. CASE ~NameTaken(IndexAt)
  BY <1>2 DEF CreateIndex
<1> QED BY <1>1, <1>2

\* The unique indexes of 001, 002 and 003.
LEMMA FirstIndexKeepsScript ==
  ASSUME ScriptInv, Stepping, CreateIndex, mpc \in {3, 7, 9, 11, 14}
  PROVE  ScriptInv'
<1>0. mpc \in 1..33
  OBVIOUS
<1>1. /\ mpc = 3 => IndexAt = "active"
      /\ mpc = 7 => IndexAt = "round"
      /\ mpc = 9 => IndexAt = "thread"
      /\ mpc = 11 => IndexAt = "message"
      /\ mpc = 14 => IndexAt = "on"
  BY <1>0, NameAt, ZenonT(30)
<1>2. db = disk /\ db \in Databases /\ Startable(db) /\ Made(db, mpc)
  BY BeforeRebuild
<1> DEFINE d == [db EXCEPT !.indexes = @ \cup {IndexAt}]
<1>3. Write(d)
  <2>1. IndexAt = "round" => ~db.plain
    BY <1>1, <1>2 DEF Made
  <2> QED BY <1>2, <2>1, IndexMade
<1>4. IndexAt \in Indexes
  BY <1>1, IndexFacts
<1>5. /\ d.indexes = db.indexes \cup {IndexAt}
      /\ d.tables = db.tables /\ d.plain = db.plain /\ d.twice = db.twice
      /\ d.watch = db.watch /\ d.watchNew = db.watchNew /\ d.messages = db.messages
      /\ d.outbox = db.outbox /\ d.outboxNew = db.outboxNew
  BY <1>2 DEF Databases
<1>6. d \in Databases
  BY <1>2, <1>4 DEF Databases
<1> HIDE DEF d
<1>7. Startable(d)
  BY <1>2, <1>5 DEF Startable
<1>8. Made(d, mpc + 1)
  <2>1. mpc = 14 => d.indexes = Indexes
    <3>1. d.indexes \subseteq Indexes
      BY <1>6 DEF Databases
    <3> QED BY <1>1, <1>2, <1>5, <3>1, IndexFacts DEF Made
  <2> QED BY <1>1, <1>2, <1>5, <2>1 DEF Made
<1> QED BY <1>3, <1>6, <1>7, <1>8, AutocommitKeepsScript

\* BEGIN.
LEMMA BeginKeepsScript ==
  ASSUME ScriptInv, Stepping, Begin, mpc \in 1..33
  PROVE  ScriptInv'
<1>1. mpc \in {16, 26}
  BY StatementAt DEF Begin
<1>2. ~tx /\ db = disk
  BY <1>1, OutsideTransaction DEF Stepping
<1>3. tx' = TRUE /\ UNCHANGED <<db, disk, fk, logical>>
  BY DEF Begin, Stepping
<1>4. (mpc = 16 /\ mpc' = 17) \/ (mpc = 26 /\ mpc' = 27)
  BY <1>1 DEF Stepping
<1>5. MigrationTypeOK'
  <2>1. mpc' \in 1..(Len(Script) + 1)
    BY <1>4, ScriptLength
  <2> QED BY <1>3, <2>1, Zenon DEF ScriptInv, MigrationTypeOK
<1>6. Startable(disk)' /\ Made(disk, mpc)'
  <2>1. Startable(disk)'
    BY <1>3, Zenon DEF ScriptInv, Startable
  <2>2. Made(disk, mpc + 1)
    BY <1>1, NothingNewMade DEF ScriptInv
  <2> QED BY <1>3, <2>1, <2>2 DEF Made, Stepping
<1>7. WatchAhead(db, mpc)' /\ OutboxAhead(db, mpc)'
  BY <1>2, <1>3, <1>4 DEF WatchAhead, OutboxAhead
<1>8. Connection'
  <2>1. mpc' \in 17..23 \cup 27..31 /\ mpc' # 33
    BY <1>4
  <2>2. mpc' \in 16..23 => ~fk
    BY <1>4 DEF ScriptInv, Connection, Stepping
  <2> QED BY <1>3, <1>7, <2>1, <2>2, Zenon DEF Connection, Stepping
<1> QED BY <1>5, <1>6, <1>8 DEF ScriptInv

\* A statement in a transaction commits nothing; what it does has to agree with
\* the place it comes to.
LEMMA WriteInTransaction ==
  ASSUME ScriptInv, Stepping, NEW d, Write(d), d \in Databases,
         mpc \in 17..22 \cup 27..30, WatchAhead(d, mpc + 1), OutboxAhead(d, mpc + 1)
  PROVE  ScriptInv'
<1>1. tx /\ db' = d /\ UNCHANGED <<disk, fk, tx, logical>> /\ mpc' = mpc + 1
  BY InTransaction DEF Write, Stepping
<1>2. /\ mpc' \in 17..23 \cup 27..31 /\ mpc' # 33
      /\ mpc' \in 16..23 => mpc \in 16..23
  BY DEF Stepping
<1>3. MigrationTypeOK'
  <2>1. mpc' \in 1..(Len(Script) + 1)
    BY <1>2, ScriptLength
  <2> QED BY <1>1, <2>1, Zenon DEF ScriptInv, MigrationTypeOK
<1>4. Startable(disk)' /\ Made(disk, mpc)'
  <2>1. UNCHANGED disk /\ Made(disk, mpc)
    BY <1>1 DEF ScriptInv
  <2>2. Made(disk, mpc + 1)
    BY <2>1, NothingNewMade
  <2>3. Startable(disk)'
    BY <1>1, Zenon DEF ScriptInv, Startable
  <2> QED BY <1>1, <2>1, <2>2, <2>3 DEF Made
<1>5. WatchAhead(db, mpc)' /\ OutboxAhead(db, mpc)'
  <2>1. WatchAhead(db', mpc') /\ OutboxAhead(db', mpc') /\ UNCHANGED disk
    BY <1>1, Zenon
  <2>2. WatchAhead(db, mpc)'
    BY <2>1 DEF WatchAhead
  <2>3. OutboxAhead(db, mpc)'
    BY <2>1 DEF OutboxAhead
  <2> QED BY <2>2, <2>3
<1>6. Connection'
  <2>1. mpc' \in 16..23 => ~fk
    BY <1>2 DEF ScriptInv, Connection, Stepping
  <2> QED BY <1>1, <1>2, <1>5, <2>1, Zenon DEF Connection, Stepping
<1> QED BY <1>3, <1>4, <1>6 DEF ScriptInv

\* How far ahead the connection is after each statement of the two rebuilds.
LEMMA NextAhead ==
  ASSUME NEW d, mpc \in 17..22 \cup 27..30,
         /\ mpc = 17 => d = [disk EXCEPT !.tables = @ \cup {"watch_new"}]
         /\ mpc = 18 => d = [disk EXCEPT !.tables = @ \cup {"watch_new"},
                                         !.watchNew = disk.watch]
         /\ mpc = 19 => d = [disk EXCEPT !.tables = (@ \ {"watch"}) \cup {"watch_new"},
                                         !.indexes = @ \ {"thread", "on"},
                                         !.watch = NoRows, !.watchNew = disk.watch]
         /\ mpc = 20 => d = [disk EXCEPT !.indexes = @ \ {"thread", "on"}, !.manual = TRUE]
         /\ mpc = 21 => d = [disk EXCEPT !.indexes = @ \ {"on"}, !.manual = TRUE]
         /\ mpc = 22 => d = [disk EXCEPT !.manual = TRUE]
         /\ mpc = 27 => d = [disk EXCEPT !.tables = @ \cup {"outbox_new"}]
         /\ mpc = 28 => d = [disk EXCEPT !.tables = @ \cup {"outbox_new"},
                                         !.outboxNew = WithoutSummaries(disk.outbox)]
         /\ mpc = 29 => d = [disk EXCEPT !.tables = (@ \ {"outbox"}) \cup {"outbox_new"},
                                         !.outbox = {},
                                         !.outboxNew = WithoutSummaries(disk.outbox)]
         /\ mpc = 30 => d = [disk EXCEPT !.outbox = WithoutSummaries(disk.outbox)]
  PROVE  WatchAhead(d, mpc + 1) /\ OutboxAhead(d, mpc + 1)
<1>1. /\ mpc + 1 = 18 => mpc = 17
      /\ mpc + 1 = 19 => mpc = 18
      /\ mpc + 1 = 20 => mpc = 19
      /\ mpc + 1 = 21 => mpc = 20
      /\ mpc + 1 = 22 => mpc = 21
      /\ mpc + 1 = 23 => mpc = 22
      /\ mpc + 1 = 28 => mpc = 27
      /\ mpc + 1 = 29 => mpc = 28
      /\ mpc + 1 = 30 => mpc = 29
      /\ mpc + 1 = 31 => mpc = 30
      /\ mpc + 1 # 17 /\ mpc + 1 # 27
  OBVIOUS
<1>2. WatchAhead(d, mpc + 1)
  BY <1>1, ZenonT(30) DEF WatchAhead
<1>3. OutboxAhead(d, mpc + 1)
  BY <1>1, ZenonT(30) DEF OutboxAhead
<1> QED BY <1>2, <1>3

\* CREATE TABLE of a rebuild.
LEMMA CreateKeepsScript ==
  ASSUME ScriptInv, Stepping, CreateNewTable, mpc \in 1..33
  PROVE  ScriptInv'
<1>1. mpc \in {17, 27}
  BY StatementAt DEF CreateNewTable
<1>2. /\ db \in Databases /\ disk \in Databases
      /\ disk.watchNew = NoRows /\ disk.outboxNew = {}
  BY DEF ScriptInv, MigrationTypeOK, Startable
<1>3. db = disk
  BY <1>1, InTransaction DEF Stepping, WatchAhead, OutboxAhead
<1>4. CASE mpc = 17
  <2> DEFINE d == [db EXCEPT !.tables = @ \cup {"watch_new"}, !.watchNew = NoRows]
  <2>1. TableAt = "watch"
    BY <1>4, StatementAt
  <2>2. Write(d)
    BY <2>1 DEF CreateNewTable
  <2>3. d = [disk EXCEPT !.tables = @ \cup {"watch_new"}]
    BY <1>2, <1>3 DEF Databases
  <2>4. d \in Databases
    BY <1>2, <1>3, <2>3 DEF Databases, Tables
  <2> HIDE DEF d
  <2> QED BY <1>4, <2>2, <2>3, <2>4, NextAhead, WriteInTransaction
<1>5. CASE mpc = 27
  <2> DEFINE d == [db EXCEPT !.tables = @ \cup {"outbox_new"}, !.outboxNew = {}]
  <2>1. TableAt = "outbox"
    BY <1>5, StatementAt
  <2>2. Write(d)
    BY <2>1 DEF CreateNewTable
  <2>3. d = [disk EXCEPT !.tables = @ \cup {"outbox_new"}]
    BY <1>2, <1>3 DEF Databases
  <2>4. d \in Databases
    BY <1>2, <1>3, <2>3 DEF Databases, Tables
  <2> HIDE DEF d
  <2> QED BY <1>5, <2>2, <2>3, <2>4, NextAhead, WriteInTransaction
<1> QED BY <1>1, <1>4, <1>5

\* INSERT ... SELECT.
LEMMA CopyKeepsScript ==
  ASSUME ScriptInv, Stepping, CopyRows, mpc \in 1..33
  PROVE  ScriptInv'
<1>1. mpc \in {18, 28}
  BY StatementAt DEF CopyRows
<1>2. db \in Databases /\ disk \in Databases
  BY DEF ScriptInv, MigrationTypeOK
<1>3. CASE mpc = 18
  <2> DEFINE d == [db EXCEPT !.watchNew = db.watch]
  <2>1. db = [disk EXCEPT !.tables = @ \cup {"watch_new"}]
    BY <1>3, InTransaction DEF Stepping, WatchAhead
  <2>2. TableAt = "watch"
    BY <1>3, StatementAt
  <2>3. Write(d)
    BY <2>2 DEF CopyRows
  <2>4. d = [disk EXCEPT !.tables = @ \cup {"watch_new"}, !.watchNew = disk.watch]
    BY <1>2, <2>1 DEF Databases
  <2>5. d \in Databases
    BY <1>2 DEF Databases
  <2> HIDE DEF d
  <2> QED BY <1>3, <2>3, <2>4, <2>5, NextAhead, WriteInTransaction
<1>4. CASE mpc = 28
  <2> DEFINE d == [db EXCEPT !.outboxNew = WithoutSummaries(db.outbox)]
  <2>1. db = [disk EXCEPT !.tables = @ \cup {"outbox_new"}]
    BY <1>4, InTransaction DEF Stepping, OutboxAhead
  <2>2. TableAt = "outbox"
    BY <1>4, StatementAt
  <2>3. Write(d)
    BY <2>2 DEF CopyRows
  <2>4. d = [disk EXCEPT !.tables = @ \cup {"outbox_new"},
                         !.outboxNew = WithoutSummaries(disk.outbox)]
    BY <1>2, <2>1 DEF Databases
  <2>5. d \in Databases
    BY <1>2 DEF Databases, WithoutSummaries
  <2> HIDE DEF d
  <2> QED BY <1>4, <2>3, <2>4, <2>5, NextAhead, WriteInTransaction
<1> QED BY <1>1, <1>3, <1>4

\* DROP TABLE; foreign keys are off, so the messages of the targets stay.
LEMMA DropKeepsScript ==
  ASSUME ScriptInv, Stepping, DropOldTable, mpc \in 1..33
  PROVE  ScriptInv'
<1>1. mpc \in {19, 29}
  BY StatementAt DEF DropOldTable
<1>2. /\ db \in Databases /\ disk \in Databases
      /\ disk.tables = Schema /\ NoRows \in TargetRows
  <2>1. NoRows \in TargetRows
    BY TargetRowsType DEF NoRows
  <2> QED BY <1>1, <2>1 DEF ScriptInv, MigrationTypeOK, Made
<1>3. CASE mpc = 19
  <2> DEFINE d == [db EXCEPT !.tables = @ \ {"watch"}, !.indexes = @ \ {"thread", "on"},
                             !.watch = NoRows, !.messages = IF fk THEN {} ELSE @]
  <2>1. /\ db = [disk EXCEPT !.tables = @ \cup {"watch_new"}, !.watchNew = disk.watch]
        /\ ~fk
    BY <1>3, InTransaction DEF Stepping, WatchAhead, ScriptInv, Connection
  <2>2. TableAt = "watch"
    BY <1>3, StatementAt
  <2>3. Write(d)
    BY <2>2, IndexFacts DEF DropOldTable
  <2>4. d = [disk EXCEPT !.tables = (@ \ {"watch"}) \cup {"watch_new"},
                         !.indexes = @ \ {"thread", "on"},
                         !.watch = NoRows, !.watchNew = disk.watch]
    BY <1>2, <2>1, ZenonT(30) DEF Databases
  <2>5. d \in Databases
    BY <1>2, <2>1, ZenonT(30) DEF Databases
  <2> HIDE DEF d
  <2> QED BY <1>3, <2>3, <2>4, <2>5, NextAhead, WriteInTransaction
<1>4. CASE mpc = 29
  <2> DEFINE d == [db EXCEPT !.tables = @ \ {"outbox"}, !.outbox = {}]
  <2>1. db = [disk EXCEPT !.tables = @ \cup {"outbox_new"},
                          !.outboxNew = WithoutSummaries(disk.outbox)]
    BY <1>4, InTransaction DEF Stepping, OutboxAhead
  <2>2. TableAt = "outbox"
    BY <1>4, StatementAt
  <2>3. Write(d)
    BY <2>2 DEF DropOldTable
  <2>4. d = [disk EXCEPT !.tables = (@ \ {"outbox"}) \cup {"outbox_new"},
                         !.outbox = {},
                         !.outboxNew = WithoutSummaries(disk.outbox)]
    BY <1>2, <2>1 DEF Databases
  <2>5. d \in Databases
    BY <1>2 DEF Databases
  <2> HIDE DEF d
  <2> QED BY <1>4, <2>3, <2>4, <2>5, NextAhead, WriteInTransaction
<1> QED BY <1>1, <1>3, <1>4

\* ALTER TABLE ... RENAME.
LEMMA RenameKeepsScript ==
  ASSUME ScriptInv, Stepping, RenameNewTable, mpc \in 1..33
  PROVE  ScriptInv'
<1>1. mpc \in {20, 30}
  BY StatementAt DEF RenameNewTable
<1>2. /\ db \in Databases /\ disk \in Databases /\ disk.tables = Schema
      /\ disk.watchNew = NoRows /\ disk.outboxNew = {}
      /\ NoRows \in TargetRows
  <2>1. NoRows \in TargetRows
    BY TargetRowsType DEF NoRows
  <2> QED BY <1>1, <2>1 DEF ScriptInv, MigrationTypeOK, Made, Startable
<1>3. CASE mpc = 20
  <2> DEFINE d == [db EXCEPT !.tables = (@ \ {"watch_new"}) \cup {"watch"},
                             !.watch = db.watchNew, !.watchNew = NoRows, !.manual = TRUE]
  <2>1. db = [disk EXCEPT !.tables = (@ \ {"watch"}) \cup {"watch_new"},
                          !.indexes = @ \ {"thread", "on"},
                          !.watch = NoRows, !.watchNew = disk.watch]
    BY <1>3, InTransaction DEF Stepping, WatchAhead
  <2>2. TableAt = "watch"
    BY <1>3, StatementAt
  <2>3. Write(d)
    BY <2>2 DEF RenameNewTable
  <2>4. (((disk.tables \ {"watch"}) \cup {"watch_new"}) \ {"watch_new"}) \cup {"watch"} = disk.tables
    BY <1>2 DEF Schema
  <2>5. d = [disk EXCEPT !.indexes = @ \ {"thread", "on"}, !.manual = TRUE]
    BY <1>2, <2>1, <2>4 DEF Databases
  <2>6. d \in Databases
    BY <1>2, <2>5 DEF Databases
  <2> HIDE DEF d
  <2> QED BY <1>3, <2>3, <2>5, <2>6, NextAhead, WriteInTransaction
<1>4. CASE mpc = 30
  <2> DEFINE d == [db EXCEPT !.tables = (@ \ {"outbox_new"}) \cup {"outbox"},
                             !.outbox = db.outboxNew, !.outboxNew = {}]
  <2>1. db = [disk EXCEPT !.tables = (@ \ {"outbox"}) \cup {"outbox_new"},
                          !.outbox = {},
                          !.outboxNew = WithoutSummaries(disk.outbox)]
    BY <1>4, InTransaction DEF Stepping, OutboxAhead
  <2>2. TableAt = "outbox"
    BY <1>4, StatementAt
  <2>3. Write(d)
    BY <2>2 DEF RenameNewTable
  <2>4. (((disk.tables \ {"outbox"}) \cup {"outbox_new"}) \ {"outbox_new"}) \cup {"outbox"}
          = disk.tables
    BY <1>2 DEF Schema
  <2>5. d = [disk EXCEPT !.outbox = WithoutSummaries(disk.outbox)]
    BY <1>2, <2>1, <2>4 DEF Databases
  <2>6. d \in Databases
    BY <1>2, <2>5 DEF Databases, WithoutSummaries
  <2> HIDE DEF d
  <2> QED BY <1>4, <2>3, <2>5, <2>6, NextAhead, WriteInTransaction
<1> QED BY <1>1, <1>3, <1>4

\* The indexes that went with the table of watch targets.
LEMMA RestoreKeepsScript ==
  ASSUME ScriptInv, Stepping, CreateIndex, mpc \in {21, 22}
  PROVE  ScriptInv'
<1>1. (mpc = 21 => IndexAt = "thread") /\ (mpc = 22 => IndexAt = "on")
  <2>1. mpc \in 1..33
    OBVIOUS
  <2> QED BY <2>1, NameAt, ZenonT(30)
<1>2. db \in Databases /\ disk \in Databases /\ disk.indexes = Indexes
  BY DEF ScriptInv, MigrationTypeOK, Made
<1> DEFINE d == [db EXCEPT !.indexes = @ \cup {IndexAt}]
<1>3. Write(d)
  <2>1. IndexAt # "round"
    BY <1>1
  <2> QED BY <1>2, <2>1, IndexMade
<1>4. d \in Databases
  <2>1. IndexAt \in Indexes
    BY <1>1, IndexFacts
  <2> QED BY <1>2, <2>1 DEF Databases
<1>5. CASE mpc = 21
  <2>1. db = [disk EXCEPT !.indexes = @ \ {"thread", "on"}, !.manual = TRUE]
    BY <1>5, InTransaction DEF Stepping, WatchAhead
  <2>2. (disk.indexes \ {"thread", "on"}) \cup {"thread"} = disk.indexes \ {"on"}
    BY <1>2, IndexFacts
  <2>3. d = [disk EXCEPT !.indexes = @ \ {"on"}, !.manual = TRUE]
    BY <1>1, <1>2, <1>5, <2>1, <2>2 DEF Databases
  <2> HIDE DEF d
  <2> QED BY <1>3, <1>4, <1>5, <2>3, NextAhead, WriteInTransaction
<1>6. CASE mpc = 22
  <2>1. db = [disk EXCEPT !.indexes = @ \ {"on"}, !.manual = TRUE]
    BY <1>6, InTransaction DEF Stepping, WatchAhead
  <2>2. (disk.indexes \ {"on"}) \cup {"on"} = disk.indexes
    BY <1>2, IndexFacts
  <2>3. d = [disk EXCEPT !.manual = TRUE]
    BY <1>1, <1>2, <1>6, <2>1, <2>2 DEF Databases
  <2> HIDE DEF d
  <2> QED BY <1>3, <1>4, <1>6, <2>3, NextAhead, WriteInTransaction
<1> QED BY <1>5, <1>6

\* CREATE UNIQUE INDEX, wherever.
LEMMA IndexKeepsScript ==
  ASSUME ScriptInv, Stepping, CreateIndex, mpc \in 1..33
  PROVE  ScriptInv'
<1>1. mpc \in {3, 7, 9, 11, 14} \/ mpc \in {21, 22}
  BY StatementAt DEF CreateIndex
<1> QED BY <1>1, FirstIndexKeepsScript, RestoreKeepsScript, Zenon

\* COMMIT.
LEMMA CommitKeepsScript ==
  ASSUME ScriptInv, Stepping, Commit, mpc \in 1..33
  PROVE  ScriptInv'
<1>1. mpc \in {23, 31}
  BY StatementAt DEF Commit
<1>2. db \in Databases /\ disk \in Databases /\ Startable(disk) /\ Made(disk, mpc)
  BY DEF ScriptInv, MigrationTypeOK
<1>3. tx' = FALSE /\ disk' = db /\ UNCHANGED <<db, fk, logical>>
  BY DEF Commit, Stepping
<1>4. (mpc = 23 /\ mpc' = 24) \/ (mpc = 31 /\ mpc' = 32)
  BY <1>1 DEF Stepping
<1>5. MigrationTypeOK'
  <2>1. mpc' \in 1..(Len(Script) + 1)
    BY <1>4, ScriptLength
  <2> QED BY <1>3, <2>1, Zenon DEF ScriptInv, MigrationTypeOK
<1>6. Startable(disk)' /\ Made(disk, mpc)'
  <2>1. CASE mpc = 23
    <3>1. db = [disk EXCEPT !.manual = TRUE]
      BY <2>1, InTransaction DEF Stepping, WatchAhead
    <3>2. /\ db.manual /\ db.tables = disk.tables /\ db.indexes = disk.indexes
          /\ db.plain = disk.plain /\ db.twice = disk.twice
          /\ db.watch = disk.watch /\ db.watchNew = disk.watchNew
          /\ db.messages = disk.messages
          /\ db.outbox = disk.outbox /\ db.outboxNew = disk.outboxNew
      BY <1>2, <3>1 DEF Databases
    <3>3. Startable(disk)'
      BY <1>2, <1>3, <3>2 DEF Startable
    <3>4. Made(disk, mpc)'
      BY <1>2, <1>3, <1>4, <2>1, <3>2 DEF Made
    <3> QED BY <3>3, <3>4
  <2>2. CASE mpc = 31
    <3>1. db = [disk EXCEPT !.outbox = WithoutSummaries(disk.outbox)]
      BY <2>2, InTransaction DEF Stepping, OutboxAhead
    <3>2. /\ db.manual = disk.manual /\ db.tables = disk.tables /\ db.indexes = disk.indexes
          /\ db.plain = disk.plain /\ db.twice = disk.twice
          /\ db.watch = disk.watch /\ db.watchNew = disk.watchNew
          /\ db.messages = disk.messages
          /\ db.outbox = WithoutSummaries(disk.outbox) /\ db.outboxNew = disk.outboxNew
      BY <1>2, <3>1 DEF Databases
    <3>3. WithoutSummaries(WithoutSummaries(disk.outbox)) = WithoutSummaries(disk.outbox)
      BY DEF WithoutSummaries
    <3>4. Startable(disk)'
      BY <1>2, <1>3, <3>2, <3>3 DEF Startable
    <3>5. Made(disk, mpc)'
      BY <1>2, <1>3, <1>4, <2>2, <3>2, <3>3 DEF Made
    <3> QED BY <3>4, <3>5
  <2> QED BY <1>1, <2>1, <2>2
<1>7. Connection'
  <2>1. mpc' \notin 16..23 /\ mpc' \notin 17..23 \cup 27..31 /\ mpc' # 33
    BY <1>4
  <2> QED BY <1>3, <2>1, Zenon DEF Connection, Stepping
<1> QED BY <1>5, <1>6, <1>7 DEF ScriptInv

\* The next statement, whichever it is.
LEMMA MigrateKeepsScript ==
  ASSUME ScriptInv, Alive, MigrateStep
  PROVE  ScriptInv'
<1>1. mpc \in 1..33
  BY ScriptLength DEF ScriptInv, MigrationTypeOK
<1>2. Stepping
  BY DEF MigrateStep, Migrate, Stepping, vars, stopVars, Alive
<1> QED
  BY <1>1, <1>2, PragmaKeepsScript, TableKeepsScript, DropIndexKeepsScript,
     DedupeKeepsScript, IndexKeepsScript, BeginKeepsScript, CreateKeepsScript,
     CopyKeepsScript, DropKeepsScript, RenameKeepsScript, CommitKeepsScript
  DEF MigrateStep, Migrate
-----------------------------------------------------------------------------
(* The rows that the services write.                                        *)

\* The database a process serves with: all that was to be kept is there.
LogicalRows == [watch : TargetRows, messages : SUBSET Targets, outbox : SUBSET Events]

LEMMA ServingDatabase ==
  ASSUME ScriptInv, Alive, mpc = 33
  PROVE  /\ ~tx /\ fk /\ db = disk /\ db \in Databases
         /\ db.tables = Schema /\ db.indexes = Indexes /\ db.manual /\ db.twice = {}
         /\ AtMostOneOn(db.watch) /\ db.watch \in TargetRows
         /\ db.messages \subseteq DOMAIN db.watch
         /\ WithoutSummaries(db.outbox) = db.outbox
         /\ logical.watch = db.watch /\ logical.messages = db.messages
         /\ logical.outbox = db.outbox
         /\ logical \in LogicalRows
<1>1. ~tx /\ db = disk
  BY OutsideTransaction
<1>2. db \in Databases /\ Startable(db) /\ Made(db, mpc) /\ fk
  BY <1>1 DEF ScriptInv, MigrationTypeOK, Connection
<1>3. AtMostOneOn(db.watch) /\ WithoutSummaries(db.outbox) = db.outbox
  BY <1>2 DEF Made
<1>4. db.watch \in TargetRows
  BY <1>2 DEF Databases
<1>5. NewestOn(db.watch) = db.watch
  BY <1>3, <1>4, NewestOnFacts
<1> QED
  BY <1>1, <1>2, <1>3, <1>4, <1>5
  DEF Startable, Made, ScriptInv, MigrationTypeOK, LogicalRows

LEMMA ServiceWritesKeepScript ==
  ASSUME ScriptInv, Alive, Alive', mpc = 33,
         NEW rows \in TargetRows, NEW messages \in SUBSET DOMAIN rows,
         NEW events \in SUBSET Events,
         AtMostOneOn(rows), WithoutSummaries(events) = events, NEW wanted,
         wanted \in LogicalRows,
         wanted.watch = rows, wanted.messages = messages, wanted.outbox = events,
         ServiceWrites(rows, messages, events, wanted)
  PROVE  ScriptInv'
<1> DEFINE d == [db EXCEPT !.watch = rows, !.messages = messages, !.outbox = events]
<1>1. ~tx /\ fk /\ db = disk /\ db \in Databases
  BY ServingDatabase
<1>2. db' = d /\ disk' = d /\ UNCHANGED <<fk, tx, mpc>> /\ logical' = wanted
  BY <1>1 DEF ServiceWrites, Write
<1>3. messages \subseteq Targets
  BY TargetRowsType
<1>4. d \in Databases
  BY <1>1, <1>3 DEF Databases
<1>5. /\ d.watch = rows /\ d.messages = messages /\ d.outbox = events
      /\ d.tables = db.tables /\ d.indexes = db.indexes /\ d.manual = db.manual
      /\ d.plain = db.plain /\ d.twice = db.twice
      /\ d.watchNew = db.watchNew /\ d.outboxNew = db.outboxNew
  BY <1>1 DEF Databases
<1> HIDE DEF d
<1>6. MigrationTypeOK'
  <2>1. mpc' \in 1..(Len(Script) + 1)
    BY <1>2 DEF ScriptInv, MigrationTypeOK
  <2> QED BY <1>2, <1>4, <2>1, Zenon DEF ScriptInv, MigrationTypeOK, LogicalRows
<1>7. Startable(disk)'
  <2>1. NewestOn(rows) = rows
    BY NewestOnFacts
  <2>2. /\ db.tables = Schema /\ db.twice = {}
        /\ db.watchNew = NoRows /\ db.outboxNew = {}
    BY <1>1, ServingDatabase DEF ScriptInv, Startable
  <2> QED BY <1>2, <1>5, <2>1, <2>2 DEF Startable
<1>8. Made(disk, mpc)'
  <2>1. Made(db, mpc)
    BY <1>1 DEF ScriptInv
  <2>2. Made(d, mpc)
    BY <1>5, <2>1 DEF Made
  <2> QED BY <1>2, <2>2 DEF Made
<1>9. Connection'
  <2>1. mpc' = 33 /\ mpc' \notin 17..23 \cup 27..31 /\ mpc' \notin 16..23
    BY <1>2
  <2> QED BY <1>1, <1>2, <2>1, Zenon DEF Connection
<1> QED BY <1>6, <1>7, <1>8, <1>9 DEF ScriptInv

\* The database does not change while the process goes on without it.
LEMMA IdleKeepsScript ==
  ASSUME ScriptInv, UNCHANGED dbVars, Alive' <=> Alive
  PROVE  ScriptInv'
<1>1. UNCHANGED <<db, disk, fk, tx, mpc, logical>>
  BY DEF dbVars, databaseVars
<1>2. MigrationTypeOK' /\ Startable(disk)'
  BY <1>1, ZenonT(30) DEF ScriptInv, MigrationTypeOK, Startable
<1>3. Made(disk, mpc)'
  BY <1>1 DEF ScriptInv, Made
<1>4. Connection'
  <2>1. WatchAhead(db, mpc)' = WatchAhead(db, mpc) /\ OutboxAhead(db, mpc)' = OutboxAhead(db, mpc)
    BY <1>1, Zenon DEF WatchAhead, OutboxAhead
  <2> QED BY <1>1, <2>1, Zenon DEF ScriptInv, Connection
<1> QED BY <1>2, <1>3, <1>4 DEF ScriptInv

\* A new target is the only ON one; one that is turned off, or deleted, leaves
\* none behind; and no row is inserted twice.
LEMMA ServicesKeepScript ==
  ASSUME ScriptInv, Alive, Alive', mpc = 33, ServicesWrite
  PROVE  ScriptInv'
<1>0. CASE \E index \in Indexes \ {"on"} : InsertAgain(index)
  <2>1. PICK index \in Indexes : InsertAgain(index)
    BY <1>0
  <2>2. db.indexes = Indexes /\ db \in Databases /\ ~tx /\ db = disk
    BY ServingDatabase
  <2>3. [db EXCEPT !.twice = @ \cup ({index} \ db.indexes)] = db
    <3>1. db.twice \cup ({index} \ db.indexes) = db.twice
      BY <2>2
    <3> QED BY <2>2, <3>1 DEF Databases
  <2>4. UNCHANGED dbVars
    BY <2>1, <2>2, <2>3 DEF InsertAgain, Write, dbVars, databaseVars
  <2> QED BY <2>4, IdleKeepsScript
<1> SUFFICES ASSUME NEW t \in Targets,
                    TurnOn(t) \/ TurnOff(t) \/ StoreMessage(t) \/ DeleteSession(t)
             PROVE  ScriptInv'
  BY <1>0 DEF ServicesWrite
<1>2. /\ fk /\ db.indexes = Indexes /\ db.manual /\ AtMostOneOn(db.watch)
      /\ db.watch \in TargetRows /\ db.messages \subseteq DOMAIN db.watch
      /\ WithoutSummaries(db.outbox) = db.outbox /\ db.outbox \subseteq Events
      /\ logical.watch = db.watch /\ logical.messages = db.messages
      /\ logical.outbox = db.outbox
      /\ logical \in LogicalRows
  <2>1. db.outbox \subseteq Events
    BY ServingDatabase DEF Databases
  <2> QED BY <2>1, ServingDatabase
<1>3. DOMAIN db.watch \subseteq Targets /\ db.watch \in [DOMAIN db.watch -> Statuses]
  BY <1>2, TargetRowsType
<1> DEFINE more == db.outbox \cup {<<t, "MODE">>}
<1>4. more \in SUBSET Events /\ WithoutSummaries(more) = more
  BY <1>2 DEF Events, WithoutSummaries
<1>5. ASSUME NEW status \in Statuses
      PROVE  /\ With(db.watch, t, status) \in TargetRows
             /\ DOMAIN With(db.watch, t, status) = DOMAIN db.watch \cup {t}
  <2>1. /\ DOMAIN With(db.watch, t, status) = DOMAIN db.watch \cup {t}
        /\ With(db.watch, t, status) \in [DOMAIN db.watch \cup {t} -> Statuses]
    BY <1>3 DEF With
  <2>2. DOMAIN db.watch \cup {t} \subseteq Targets
    BY <1>3
  <2> QED BY <2>1, <2>2, TargetRowsType
<1>6. CASE TurnOn(t)
  <2> DEFINE rows == With(db.watch, t, "ON")
             wanted == [logical EXCEPT !.watch = With(@, t, "ON"), !.outbox = @ \cup {<<t, "MODE">>}]
  <2>1. ServiceWrites(rows, db.messages, more, wanted) /\ OnRows(db.watch) = {}
    BY <1>2, <1>6, IndexFacts DEF TurnOn
  <2>2. rows \in TargetRows /\ DOMAIN rows = DOMAIN db.watch \cup {t}
    BY <1>5 DEF Statuses
  <2>3. AtMostOneOn(rows)
    <3>1. \A u \in OnRows(rows) : u = t
      BY <2>1 DEF OnRows, With
    <3> QED BY <3>1 DEF AtMostOneOn
  <2>4. db.messages \in SUBSET DOMAIN rows
    BY <1>2, <2>2
  <2>5. /\ wanted \in LogicalRows
        /\ wanted.watch = rows /\ wanted.messages = db.messages /\ wanted.outbox = more
    BY <1>2, <1>4, <2>2 DEF LogicalRows
  <2> HIDE DEF rows, more, wanted
  <2> QED BY <1>4, <2>1, <2>2, <2>3, <2>4, <2>5, ServiceWritesKeepScript
<1>7. CASE TurnOff(t)
  <2> DEFINE rows == With(db.watch, t, "OFF")
             wanted == [logical EXCEPT !.watch = With(@, t, "OFF"), !.outbox = @ \cup {<<t, "MODE">>}]
  <2>1. ServiceWrites(rows, db.messages, more, wanted) /\ t \in OnRows(db.watch)
    BY <1>7 DEF TurnOff
  <2>2. rows \in TargetRows /\ DOMAIN rows = DOMAIN db.watch \cup {t}
    BY <1>5 DEF Statuses
  <2>3. AtMostOneOn(rows)
    <3>1. \A u \in OnRows(rows) : u \in OnRows(db.watch)
      BY <2>1 DEF OnRows, With
    <3> QED BY <1>2, <3>1 DEF AtMostOneOn
  <2>4. db.messages \in SUBSET DOMAIN rows
    BY <1>2, <2>2
  <2>5. /\ wanted \in LogicalRows
        /\ wanted.watch = rows /\ wanted.messages = db.messages /\ wanted.outbox = more
    BY <1>2, <1>4, <2>2 DEF LogicalRows
  <2> HIDE DEF rows, more, wanted
  <2> QED BY <1>4, <2>1, <2>2, <2>3, <2>4, <2>5, ServiceWritesKeepScript
<1>8. CASE StoreMessage(t)
  <2> DEFINE messages == db.messages \cup {t}
             wanted == [logical EXCEPT !.messages = @ \cup {t}]
  <2>1. ServiceWrites(db.watch, messages, db.outbox, wanted) /\ t \in OnRows(db.watch)
    BY <1>8 DEF StoreMessage
  <2>2. messages \in SUBSET DOMAIN db.watch
    BY <1>2, <2>1 DEF OnRows
  <2>3. /\ wanted \in LogicalRows
        /\ wanted.watch = db.watch /\ wanted.messages = messages /\ wanted.outbox = db.outbox
    BY <1>2 DEF LogicalRows
  <2> HIDE DEF messages, wanted
  <2> QED BY <1>2, <2>1, <2>2, <2>3, ServiceWritesKeepScript
<1>9. CASE DeleteSession(t)
  <2> DEFINE rows == Without(db.watch, t)
             messages == db.messages \ {t}
             events == WithoutEvents(db.outbox, t)
             wanted == [logical EXCEPT !.watch = Without(@, t), !.messages = @ \ {t},
                                       !.outbox = WithoutEvents(@, t)]
  <2>1. ServiceWrites(rows, messages, events, wanted)
    BY <1>2, <1>9 DEF DeleteSession
  <2>2. DOMAIN rows = DOMAIN db.watch \ {t} /\ rows \in [DOMAIN db.watch \ {t} -> Statuses]
    BY <1>3 DEF Without
  <2>3. rows \in TargetRows
    BY <1>3, <2>2, TargetRowsType
  <2>4. AtMostOneOn(rows)
    <3>1. \A u \in OnRows(rows) : u \in OnRows(db.watch)
      BY <2>2 DEF OnRows, Without
    <3> QED BY <1>2, <3>1 DEF AtMostOneOn
  <2>5. messages \in SUBSET DOMAIN rows
    BY <1>2, <2>2
  <2>6. events \in SUBSET Events /\ WithoutSummaries(events) = events
    BY <1>2 DEF WithoutEvents, WithoutSummaries
  <2>7. /\ wanted \in LogicalRows
        /\ wanted.watch = rows /\ wanted.messages = messages /\ wanted.outbox = events
    BY <1>2, <2>3, <2>6 DEF LogicalRows
  <2> HIDE DEF rows, messages, events, wanted
  <2> QED BY <2>1, <2>3, <2>4, <2>5, <2>6, <2>7, ServiceWritesKeepScript
<1> QED BY <1>6, <1>7, <1>8, <1>9

-----------------------------------------------------------------------------
(* The lifetimes.                                                           *)

\* Every database a start may find at first is one it can cope with.
LEMMA ReleaseLeft ==
  ASSUME NEW v \in 1..5, NEW d \in LeftByRelease(v)
  PROVE  /\ d \in Databases /\ d.tables \subseteq Schema /\ d.twice = {}
         /\ d.watchNew = NoRows /\ d.outboxNew = {} /\ d.messages \subseteq DOMAIN d.watch
<1> DEFINE targets == IF v < 2 THEN {} ELSE {1, 2} \cap Targets
           summary == IF v < 5 THEN {{"MODE", "SUMMARY"}} ELSE {}
           made == Indexes \ (IF v < 2 THEN {"thread", "message", "on"}
                                ELSE IF v < 3 THEN {"on"} ELSE {})
           TableSets == {IF v < 2 THEN FirstTables ELSE Schema}
           IndexSets == {made, made \ {"round"}}
           RowSets == [targets -> Statuses]
           MessageSets == SUBSET targets
           OutboxSets == {targets \X kinds : kinds \in {{"MODE"}} \cup summary}
<1>1. d \in [tables : TableSets, indexes : IndexSets, plain : BOOLEAN, twice : {{}},
             manual : {v >= 4}, watch : RowSets, watchNew : {NoRows},
             messages : MessageSets, outbox : OutboxSets, outboxNew : {{}}]
  BY DEF LeftByRelease
<1>2. targets \subseteq Targets
  OBVIOUS
<1>3. \A tables \in TableSets : tables \subseteq Schema
  BY DEF FirstTables, Schema
<1>4. \A indexes \in IndexSets : indexes \subseteq Indexes
  OBVIOUS
<1>5. \A outbox \in OutboxSets : outbox \subseteq Events
  <2> SUFFICES ASSUME NEW kinds \in {{"MODE"}} \cup summary
               PROVE  targets \X kinds \subseteq Events
    OBVIOUS
  <2>1. kinds \subseteq {"MODE", "SUMMARY"}
    OBVIOUS
  <2> HIDE DEF targets
  <2> QED BY <1>2, <2>1 DEF Events
<1>6. \A rows \in RowSets : rows \in TargetRows /\ DOMAIN rows = targets
  <2> SUFFICES ASSUME NEW rows \in RowSets
               PROVE  rows \in TargetRows /\ DOMAIN rows = targets
    OBVIOUS
  <2> HIDE DEF targets
  <2>1. DOMAIN rows = targets /\ rows \in [targets -> Statuses]
    OBVIOUS
  <2> QED BY <1>2, <2>1, TargetRowsType
<1>7. \A messages \in MessageSets : messages \subseteq targets
  OBVIOUS
<1>8. (v >= 4) \in BOOLEAN
  OBVIOUS
<1>9. NoRows \in TargetRows
  BY TargetRowsType DEF NoRows
<1> HIDE DEF targets, summary, made, TableSets, IndexSets, RowSets, MessageSets, OutboxSets
<1>10. /\ d = [tables |-> d.tables, indexes |-> d.indexes, plain |-> d.plain,
               twice |-> d.twice, manual |-> d.manual,
               watch |-> d.watch, watchNew |-> d.watchNew, messages |-> d.messages,
               outbox |-> d.outbox, outboxNew |-> d.outboxNew]
       /\ d.tables \in TableSets /\ d.indexes \in IndexSets /\ d.plain \in BOOLEAN
       /\ d.twice \in {{}} /\ d.manual \in {v >= 4} /\ d.watch \in RowSets
       /\ d.watchNew \in {NoRows} /\ d.messages \in MessageSets
       /\ d.outbox \in OutboxSets /\ d.outboxNew \in {{}}
  BY <1>1, Zenon
<1>11. /\ d.tables \subseteq Schema /\ d.indexes \subseteq Indexes /\ d.twice = {}
       /\ d.watch \in TargetRows /\ DOMAIN d.watch = targets
       /\ d.watchNew = NoRows /\ d.messages \subseteq targets
       /\ d.outbox \subseteq Events /\ d.outboxNew = {}
  BY <1>3, <1>4, <1>5, <1>6, <1>7, <1>10, Zenon
<1>12. d.manual \in BOOLEAN
  BY <1>8, <1>10, Zenon
<1>13. d \in Databases
  <2>1. /\ d.tables \in SUBSET Tables /\ d.indexes \in SUBSET Indexes
        /\ d.twice \in SUBSET (Indexes \ {"on"}) /\ d.watchNew \in TargetRows
        /\ d.messages \in SUBSET Targets
        /\ d.outbox \in SUBSET Events /\ d.outboxNew \in SUBSET Events
    BY <1>2, <1>9, <1>11 DEF Tables
  <2> QED BY <1>10, <1>11, <1>12, <2>1, Zenon DEF Databases
<1> QED BY <1>11, <1>13

LEMMA ScriptInit ==
  ASSUME MigrationInit, Alive
  PROVE  ScriptInv
<1>1. PICK d \in InitialDatabases : db = d
  BY DEF MigrationInit
<1>2. /\ disk = db /\ fk = FALSE /\ tx = FALSE /\ mpc = 1
      /\ logical = [watch |-> NewestOn(db.watch), messages |-> db.messages,
                    outbox |-> WithoutSummaries(db.outbox)]
  BY DEF MigrationInit
<1>3. NoRows \in TargetRows
  BY TargetRowsType DEF NoRows
<1>4. /\ db \in Databases /\ db.tables \subseteq Schema /\ db.twice = {}
      /\ db.watchNew = NoRows /\ db.outboxNew = {} /\ db.messages \subseteq DOMAIN db.watch
  <2>1. CASE d = Fresh
    BY <1>1, <1>3, <2>1 DEF Fresh, Databases, Tables, Indexes
  <2>2. ASSUME NEW v \in 1..5, d \in LeftByRelease(v)
        PROVE  <1>4
    BY <1>1, <2>2, ReleaseLeft
  <2> QED BY <1>1, <2>1, <2>2 DEF InitialDatabases
<1>5. /\ NewestOn(db.watch) \in TargetRows
      /\ db.messages \in SUBSET Targets /\ WithoutSummaries(db.outbox) \in SUBSET Events
  BY <1>4, NewestOnFacts DEF Databases, WithoutSummaries
<1>6. MigrationTypeOK
  <2>1. logical \in [watch : TargetRows, messages : SUBSET Targets, outbox : SUBSET Events]
    BY <1>2, <1>5
  <2>2. mpc \in 1..(Len(Script) + 1)
    BY <1>2, ScriptLength
  <2>3. fk \in BOOLEAN /\ tx \in BOOLEAN
    BY <1>2
  <2> QED BY <1>2, <1>4, <2>1, <2>2, <2>3, Zenon DEF MigrationTypeOK
<1>7. Startable(disk)
  BY <1>2, <1>4 DEF Startable
<1>8. Made(disk, mpc) /\ Connection
  BY <1>2 DEF Made, Connection
<1> QED BY <1>6, <1>7, <1>8 DEF ScriptInv

\* A process that ends leaves what it had committed.
LEMMA DisconnectKeepsScript ==
  ASSUME ScriptInv, Disconnect, ~Alive'
  PROVE  ScriptInv'
<1>1. db' = disk /\ fk' = FALSE /\ tx' = FALSE /\ UNCHANGED <<disk, mpc, logical>>
  BY DEF Disconnect
<1>2. MigrationTypeOK'
  BY <1>1, Zenon DEF ScriptInv, MigrationTypeOK
<1>3. Startable(disk)' /\ Made(disk, mpc)'
  BY <1>1 DEF ScriptInv, Startable, Made
<1>4. Connection'
  BY <1>1, Zenon DEF Connection
<1> QED BY <1>2, <1>3, <1>4 DEF ScriptInv

\* The next process begins with the first statement.
LEMMA ReconnectKeepsScript ==
  ASSUME ScriptInv, ~Alive, Reconnect
  PROVE  ScriptInv'
<1>1. mpc' = 1 /\ UNCHANGED <<db, disk, fk, tx, logical>>
  BY DEF Reconnect, databaseVars
<1>2. ~tx /\ db = disk
  BY DEF ScriptInv, Connection
<1>3. MigrationTypeOK'
  <2>1. mpc' \in 1..(Len(Script) + 1)
    BY <1>1, ScriptLength
  <2> QED BY <1>1, <2>1, Zenon DEF ScriptInv, MigrationTypeOK
<1>4. Startable(disk)'
  BY <1>1 DEF ScriptInv, Startable
<1>5. Made(disk, mpc)' /\ Connection'
  BY <1>1, <1>2 DEF Made, Connection
<1> QED BY <1>3, <1>4, <1>5 DEF ScriptInv

\* Every step of the process over its lifetimes.
LEMMA NextKeepsScript ==
  ASSUME ScriptInv, [ProcessNext]_allVars
  PROVE  ScriptInv'
<1>1. CASE MigrateStep
  BY <1>1, MigrateKeepsScript DEF MigrateStep, Migrating
<1>2. CASE MigrationFails \/ Killed
  <2>1. Disconnect /\ ~Alive'
    BY <1>2 DEF MigrationFails, Killed, End, Alive
  <2> QED BY <2>1, DisconnectKeepsScript
<1>3. ASSUME KeepsConnection, Alive' => Alive, ~Alive' => Alive
      PROVE  ScriptInv'
  <2>1. CASE Alive'
    BY <1>3, <2>1, IdleKeepsScript DEF KeepsConnection
  <2>2. CASE ~Alive'
    BY <1>3, <2>2, DisconnectKeepsScript DEF KeepsConnection
  <2> QED BY <2>1, <2>2
<1>4. CASE Run
  <2>1. Alive
    BY <1>4 DEF Run, ProcessStep, StartApp, StartSchedulers, ShutdownStep, StopRunner,
       RunnerStopped, StopQueue, QueueStopped, StopApp, CloseDatabase, Exit, RunStarts,
       RunSettles, FlightBegins, FlightEnds, At
  <2> QED BY <1>3, <1>4, <2>1 DEF Run
<1>5. CASE Interrupt
  BY <1>3, <1>5 DEF Interrupt, Signal, At
<1>6. CASE Serve
  <2>1. mpc = 33
    BY <1>6, ScriptLength DEF Serve, Migrated, ScriptInv, MigrationTypeOK
  <2>2. Alive /\ Alive' /\ ServicesWrite
    BY <1>6 DEF Serve, vars, stopVars, Alive
  <2> QED BY <2>1, <2>2, ServicesKeepScript
<1>7. CASE Restart
  BY <1>7, ReconnectKeepsScript DEF Restart
<1>8. CASE Exited \/ UNCHANGED allVars
  <2>1. UNCHANGED dbVars /\ UNCHANGED exit
    BY <1>8 DEF Exited, allVars, vars, stopVars
  <2> QED BY <2>1, IdleKeepsScript DEF Alive
<1> QED BY <1>1, <1>2, <1>4, <1>5, <1>6, <1>7, <1>8 DEF ProcessNext
-----------------------------------------------------------------------------
(* The theorems.                                                            *)

LEMMA ProcessInvariant == ProcessSpec => []ProcessInv
<1>1. ProcessInit => ProcessInv
  <2> SUFFICES ASSUME ProcessInit PROVE ProcessInv
    OBVIOUS
  <2>1. ShutdownInv
    BY ShutdownInit DEF ProcessInit
  <2>2. Alive
    BY DEF ProcessInit, Init, Alive
  <2>3. ScriptInv
    BY <2>2, ScriptInit DEF ProcessInit
  <2>4. restarts \in 0..MaxRestarts
    BY RestartAssumption DEF ProcessInit
  <2> QED BY <2>1, <2>3, <2>4 DEF ProcessInv
<1>2. ProcessInv /\ [ProcessNext]_allVars => ProcessInv'
  <2> SUFFICES ASSUME ProcessInv, [ProcessNext]_allVars PROVE ProcessInv'
    OBVIOUS
  <2>1. ShutdownInv' /\ ScriptInv'
    BY NextKeepsShutdown, NextKeepsScript DEF ProcessInv
  <2>2. restarts' = restarts \/ (restarts < MaxRestarts /\ restarts' = restarts + 1)
    BY DEF ProcessNext, MigrateStep, MigrationFails, Run, Interrupt, Killed, Serve, Restart,
           Exited, allVars
  <2>3. restarts' \in 0..MaxRestarts
    BY <2>2, RestartAssumption DEF ProcessInv
  <2> QED BY <2>1, <2>3 DEF ProcessInv
<1> QED BY <1>1, <1>2, PTL DEF ProcessSpec

\* All that the processes and the database file can ever hold.
THEOREM ProcessTypes == ProcessSpec => []ProcessTypeOK
<1>1. ProcessInv => ProcessTypeOK
  BY DEF ProcessInv, ShutdownInv, ScriptInv, ProcessTypeOK
<1> QED BY <1>1, ProcessInvariant, PTL

\* Whatever number of runners the shutdown has gone past, none of them runs or has
\* an interval left, although the others still run: no scheduler finds the
\* database closed (OpenClawIntervalRunner.stop, the order of shutdown in app.ts).
THEOREM RunnersStayStopped == ProcessSpec => []StoppedStaysQuiet
<1>1. ProcessInv => StoppedStaysQuiet
  BY DEF ProcessInv, ShutdownInv, PromiseIsRun, RunnersBehind, StoppedStaysQuiet
<1> QED BY <1>1, ProcessInvariant, PTL

\* The live replies under way when the signal came are over before the database
\* is closed, however many begin meanwhile (LiveReplyQueue.stop).
THEOREM SignalledRepliesFinish == ProcessSpec => []RepliesInHandFinish
<1>1. ProcessInv => RepliesInHandFinish
  <2>1. ProcessInv /\ database = "closed" => inHand \cap flights = {}
    BY DEF ProcessInv, ShutdownInv, FlightsBehind
  <2> QED BY <2>1 DEF RepliesInHandFinish
<1> QED BY <1>1, ProcessInvariant, PTL

\* A process that serves has every table and every unique index of the schema, no
\* rows that contradict one, and the foreign keys on, whatever database it found and
\* wherever in a script those before it were killed (initializePersistence).
THEOREM ServesOnCompleteSchema == ProcessSpec => []ServingSchema
<1>1. ProcessInv => ServingSchema
  <2> SUFFICES ASSUME ProcessInv, Serving
               PROVE  /\ db = disk /\ ~tx /\ fk
                      /\ db.tables = Schema /\ db.indexes = Indexes /\ db.manual
                      /\ db.twice = {} /\ Cardinality(OnRows(db.watch)) <= 1
                      /\ db.messages \subseteq DOMAIN db.watch
    BY DEF ServingSchema
  <2>1. Alive /\ mpc = 33 /\ ScriptInv
    BY ScriptLength DEF Serving, Migrated, ProcessInv, ScriptInv, MigrationTypeOK
  <2>2. AtMostOneOn(db.watch)
    BY <2>1, ServingDatabase
  <2>3. Cardinality(OnRows(db.watch)) <= 1
    BY <2>2, AtMostOneIsCounted
  <2> QED BY <2>1, <2>3, ServingDatabase
<1> QED BY <1>1, ProcessInvariant, PTL

\* No number of starts, kills and failing statements loses, changes or brings back
\* a row: once the scripts are through, the database holds the rows that the
\* services left there (004 and 005 copy and drop two tables at every start).
THEOREM RowsAreKept == ProcessSpec => []RowsSurvive
<1>1. ProcessInv => RowsSurvive
  <2> SUFFICES ASSUME ProcessInv, Migrated PROVE Content(db) = logical
    BY DEF RowsSurvive
  <2>1. mpc = 33 /\ ScriptInv
    BY ScriptLength DEF Migrated, ProcessInv, ScriptInv, MigrationTypeOK
  <2>2. db = disk
    BY <2>1 DEF ScriptInv, Connection
  <2>3. db \in Databases /\ Startable(db) /\ Made(db, mpc) /\ logical \in LogicalRows
    BY <2>1, <2>2 DEF ScriptInv, MigrationTypeOK, LogicalRows
  <2>4. AtMostOneOn(db.watch) /\ WithoutSummaries(db.outbox) = db.outbox
    BY <2>1, <2>3 DEF Made
  <2>5. NewestOn(db.watch) = db.watch
    BY <2>3, <2>4, NewestOnFacts DEF Databases
  <2>6. /\ logical.watch = db.watch /\ logical.messages = db.messages
        /\ logical.outbox = db.outbox
    BY <2>3, <2>4, <2>5 DEF Startable
  <2> QED BY <2>3, <2>6 DEF Content, LogicalRows
<1> QED BY <1>1, ProcessInvariant, PTL

\* The tables there are while one of them is rebuilt.
LEMMA TablesOfRebuild ==
  ASSUME ScriptInv, Alive
  PROVE  /\ mpc \in {18, 19} => db.tables = Schema \cup {"watch_new"}
         /\ mpc = 20 => db.tables = (Schema \ {"watch"}) \cup {"watch_new"}
         /\ mpc \in {28, 29} => db.tables = Schema \cup {"outbox_new"}
         /\ mpc = 30 => db.tables = (Schema \ {"outbox"}) \cup {"outbox_new"}
         /\ mpc \in {21, 22} => db.tables = Schema /\ db.watch = disk.watch
                                /\ db.twice = disk.twice
<1>1. disk \in Databases /\ (mpc \in 18..22 \cup 28..30 => disk.tables = Schema)
  BY DEF ScriptInv, MigrationTypeOK, Made
<1>2. mpc \in 18..22 \cup 28..30 => WatchAhead(db, mpc) /\ OutboxAhead(db, mpc)
  BY InTransaction
<1>3. CASE mpc = 18
  <2>1. db = [disk EXCEPT !.tables = @ \cup {"watch_new"}]
    BY <1>2, <1>3 DEF WatchAhead
  <2> QED BY <1>1, <1>3, <2>1 DEF Databases
<1>4. CASE mpc = 19
  <2>1. db = [disk EXCEPT !.tables = @ \cup {"watch_new"}, !.watchNew = disk.watch]
    BY <1>2, <1>4 DEF WatchAhead
  <2> QED BY <1>1, <1>4, <2>1 DEF Databases
<1>5. CASE mpc = 20
  <2>1. db = [disk EXCEPT !.tables = (@ \ {"watch"}) \cup {"watch_new"},
                          !.indexes = @ \ {"thread", "on"},
                          !.watch = NoRows, !.watchNew = disk.watch]
    BY <1>2, <1>5 DEF WatchAhead
  <2> QED BY <1>1, <1>5, <2>1 DEF Databases
<1>6. CASE mpc = 21
  <2>1. db = [disk EXCEPT !.indexes = @ \ {"thread", "on"}, !.manual = TRUE]
    BY <1>2, <1>6 DEF WatchAhead
  <2> QED BY <1>1, <1>6, <2>1 DEF Databases
<1>7. CASE mpc = 22
  <2>1. db = [disk EXCEPT !.indexes = @ \ {"on"}, !.manual = TRUE]
    BY <1>2, <1>7 DEF WatchAhead
  <2> QED BY <1>1, <1>7, <2>1 DEF Databases
<1>8. CASE mpc = 28
  <2>1. db = [disk EXCEPT !.tables = @ \cup {"outbox_new"}]
    BY <1>2, <1>8 DEF OutboxAhead
  <2> QED BY <1>1, <1>8, <2>1 DEF Databases
<1>9. CASE mpc = 29
  <2>1. db = [disk EXCEPT !.tables = @ \cup {"outbox_new"},
                          !.outboxNew = WithoutSummaries(disk.outbox)]
    BY <1>2, <1>9 DEF OutboxAhead
  <2> QED BY <1>1, <1>9, <2>1 DEF Databases
<1>10. CASE mpc = 30
  <2>1. db = [disk EXCEPT !.tables = (@ \ {"outbox"}) \cup {"outbox_new"},
                          !.outbox = {},
                          !.outboxNew = WithoutSummaries(disk.outbox)]
    BY <1>2, <1>10 DEF OutboxAhead
  <2> QED BY <1>1, <1>10, <2>1 DEF Databases
<1> QED BY <1>3, <1>4, <1>5, <1>6, <1>7, <1>8, <1>9, <1>10

\* A unique index finds its table, and no rows that contradict it.
LEMMA IndexApplies ==
  ASSUME ScriptInv, Alive, mpc \in {3, 7, 9, 11, 14, 21, 22}
  PROVE  /\ \E t \in db.tables \cap Schema : IndexAt \in IndexesOf[t]
         /\ IndexAt = "on" => Cardinality(OnRows(db.watch)) <= 1
         /\ db.twice = {}
<1>1. /\ mpc = 3 => IndexAt = "active"
      /\ mpc = 7 => IndexAt = "round"
      /\ mpc \in {9, 21} => IndexAt = "thread"
      /\ mpc = 11 => IndexAt = "message"
      /\ mpc \in {14, 22} => IndexAt = "on"
  <2>1. mpc \in 1..33
    OBVIOUS
  <2> QED BY <2>1, NameAt, ZenonT(30)
<1>2. Startable(disk) /\ Made(disk, mpc)
  BY DEF ScriptInv
<1>3. db.watch = disk.watch /\ db.twice = {} /\ db.tables = disk.tables
  <2>1. CASE mpc \in {21, 22}
    BY <1>2, <2>1, TablesOfRebuild DEF Startable, Made
  <2>2. CASE mpc \in {3, 7, 9, 11, 14}
    BY <1>2, <2>2, OutsideTransaction DEF Startable
  <2> QED BY <2>1, <2>2
<1>4. IndexAt = "on" => Cardinality(OnRows(db.watch)) <= 1
  <2>1. ASSUME IndexAt = "on"
        PROVE  mpc \in {14, 22}
    BY <1>1, <2>1
  <2>2. mpc \in {14, 22} => AtMostOneOn(db.watch)
    BY <1>2, <1>3 DEF Made
  <2> QED BY <2>1, <2>2, AtMostOneIsCounted
<1>5. \E t \in db.tables \cap Schema : IndexAt \in IndexesOf[t]
  <2>1. /\ mpc = 3 => "sessions" \in db.tables
        /\ mpc = 7 => "rounds" \in db.tables
        /\ mpc \in {9, 14, 21, 22} => "watch" \in db.tables
        /\ mpc = 11 => "messages" \in db.tables
    BY <1>2, <1>3 DEF Made, Schema
  <2>2. /\ "sessions" \in Schema /\ "rounds" \in Schema
        /\ "watch" \in Schema /\ "messages" \in Schema
    BY DEF Schema
  <2> QED BY <1>1, <2>1, <2>2, IndexFacts
<1> QED BY <1>3, <1>4, <1>5

\* Every statement of every start finds a database it can be applied to: no kill,
\* wherever it came, keeps the program from starting again on one of the initial
\* databases.
THEOREM ScriptsAlwaysApply == ProcessSpec => []EveryStartApplies
<1>1. ProcessInv => EveryStartApplies
  <2> SUFFICES ASSUME ProcessInv, Alive, ~Migrated PROVE StatementApplies
    BY DEF EveryStartApplies, Migrating
  <2>1. ScriptInv /\ mpc \in 1..33
    BY ScriptLength DEF ProcessInv, ScriptInv, MigrationTypeOK
  <2>2. Made(disk, mpc)
    BY <2>1 DEF ScriptInv
  <2>3. mpc \in {17, 27} => NewOf(TableAt) \notin db.tables
    <3>1. ASSUME mpc \in {17, 27} PROVE db = disk
      BY <2>1, <3>1, InTransaction DEF WatchAhead, OutboxAhead
    <3>2. mpc \in {17, 27} => disk.tables = Schema
      BY <2>2 DEF Made
    <3>3. NewOf(TableAt) \in {"watch_new", "outbox_new"}
      BY DEF NewOf
    <3> QED BY <3>1, <3>2, <3>3 DEF Schema
  <2>4. mpc \in {18, 28} => {TableAt, NewOf(TableAt)} \subseteq db.tables
    <3>1. (mpc = 18 => TableAt = "watch") /\ (mpc = 28 => TableAt = "outbox")
      BY <2>1, NameAt, Zenon
    <3> QED BY <2>1, <3>1, TablesOfRebuild DEF Schema, NewOf
  <2>5. mpc \in {19, 29} => TableAt \in db.tables
    <3>1. (mpc = 19 => TableAt = "watch") /\ (mpc = 29 => TableAt = "outbox")
      BY <2>1, NameAt, Zenon
    <3> QED BY <2>1, <3>1, TablesOfRebuild DEF Schema
  <2>6. mpc \in {20, 30} => TableAt \notin db.tables /\ NewOf(TableAt) \in db.tables
    <3>1. (mpc = 20 => TableAt = "watch") /\ (mpc = 30 => TableAt = "outbox")
      BY <2>1, NameAt, Zenon
    <3> QED BY <2>1, <3>1, TablesOfRebuild DEF Schema, NewOf
  <2>7. mpc \in {13} => "watch" \in db.tables
    BY <2>1, <2>2, OutsideTransaction DEF Made, Schema
  <2>8. mpc \in {16, 26} => ~tx
    BY <2>1, OutsideTransaction
  <2>9. mpc \in {23, 31} => tx
    BY <2>1, InTransaction
  <2>10. NextIs("index") =>
           /\ \E t \in db.tables \cap Schema : IndexAt \in IndexesOf[t]
           /\ IndexAt = "on" => Cardinality(OnRows(db.watch)) <= 1
           /\ NameTaken(IndexAt) \/ IndexAt \notin db.twice
    <3>1. NextIs("index") => mpc \in {3, 7, 9, 11, 14, 21, 22}
      BY <2>1, StatementAt
    <3>2. IndexAt \notin {}
      OBVIOUS
    <3> QED BY <2>1, <3>1, <3>2, IndexApplies
  <2> QED
    BY <2>1, <2>3, <2>4, <2>5, <2>6, <2>7, <2>8, <2>9, <2>10, StatementAt, ZenonT(30)
    DEF StatementApplies
<1> QED BY <1>1, ProcessInvariant, PTL
=============================================================================
