------------------------------- MODULE Shutdown -------------------------------
(***************************************************************************)
(* The process around the services: bootstrap, the interval runners of the *)
(* schedulers, and the shutdown that a signal begins while runs and live   *)
(* replies are under way.  The runners are stopped one after another, so   *)
(* the later ones go on running meanwhile; then the live reply queue, then *)
(* Slack, then the database.                                               *)
(*                                                                         *)
(* A run of a scheduler is opaque here (RoomLifecycle, QuestionTrigger and *)
(* OutboxDispatch look inside), as is a flight of the live reply queue     *)
(* (LiveReply).  Both end: every call they await settles or times out.     *)
(***************************************************************************)
EXTENDS Naturals, FiniteSets

CONSTANTS
  RunnerCount,   \* the interval runners, stopped in the order 1..RunnerCount
  Messages       \* names of the flights (the retry of a task is another one)

ASSUME ShutdownAssumption == RunnerCount \in Nat \ {0}

Runners == 1..RunnerCount

VARIABLES
  timers,    \* the runners whose interval is set
  promises,  \* the runners whose runningPromise is set
  active,    \* the number of task executions in progress, per runner
  flights,   \* the flights of the live reply queue in progress
  database,  \* "open" or "closed"
  spc,       \* bootstrap and shutdown: the call about to be made
  next,      \* the runner that shutdown stops next
  awaited,   \* the flights the queue's stop() is waiting for
  exit,      \* "none", or how the process ended
  inHand     \* history: the flights that were under way when the signal came

runnerVars == <<timers, promises, active>>
worldVars  == <<flights, database>>
stopVars   == <<spc, next, awaited, exit, inHand>>
vars       == <<runnerVars, worldVars, stopVars>>

TypeOK ==
  /\ timers \subseteq Runners
  /\ promises \subseteq Runners
  /\ active \in [Runners -> 0..1]
  /\ flights \subseteq Messages
  /\ database \in {"open", "closed"}
  /\ spc \in {"app.start", "schedulers", "up", "stop", "await", "queue",
              "flights", "app.stop", "close", "exit"}
  /\ next \in 1..(RunnerCount + 1)
  /\ awaited \subseteq Messages
  /\ exit \in {"none", "success", "failure", "signal", "killed"}
  /\ inHand \subseteq Messages

Init ==
  /\ timers = {}
  /\ promises = {}
  /\ active = [r \in Runners |-> 0]
  /\ flights = {}
  /\ database = "open"
  /\ spc = "app.start"
  /\ next = 1
  /\ awaited = {}
  /\ exit = "none"
  /\ inHand = {}

Alive == exit = "none"
At(label) == Alive /\ spc = label

Goto(label) == spc' = label /\ UNCHANGED <<next, awaited, exit, inHand>>
End(how)    == exit' = how /\ UNCHANGED <<spc, next, awaited, inHand>>

-----------------------------------------------------------------------------
(* OpenClawIntervalRunner.                                                  *)

\* Faulty variant: the interval does not ask whether a run is in progress.
RunAnyway(r) ==
  /\ r \in timers /\ active[r] < 2
  /\ promises' = promises \cup {r}
  /\ active' = [active EXCEPT ![r] = @ + 1]
  /\ UNCHANGED timers

\* The interval of r fires; a run is started if none is in progress.
RunIfIdle(r) ==
  /\ r \in timers /\ r \notin promises
  /\ promises' = promises \cup {r}
  /\ active' = [active EXCEPT ![r] = @ + 1]
  /\ UNCHANGED timers

\* Faulty variant: a run leaves its promise behind.
RunEndsUnnoticed(r) ==
  /\ active[r] > 0
  /\ active' = [active EXCEPT ![r] = @ - 1]
  /\ UNCHANGED <<promises, timers>>

\* The task of a run settles; an error goes to onError, which only logs it.
RunEnds(r) ==
  /\ active[r] > 0
  /\ active' = [active EXCEPT ![r] = @ - 1]
  /\ promises' = promises \ {r}
  /\ UNCHANGED timers

-----------------------------------------------------------------------------
(* Bootstrap (app.ts).                                                      *)

StartApp ==
  /\ At("app.start")
  /\ Goto("schedulers") \/ End("failure")
  /\ UNCHANGED <<runnerVars, worldVars>>

\* startOpenClawSchedulers runs each task at once; the signal handlers are
\* registered in the same step.
StartSchedulers ==
  /\ At("schedulers")
  /\ timers' = Runners
  /\ promises' = Runners
  /\ active' = [r \in Runners |-> 1]
  /\ Goto("up")
  /\ UNCHANGED worldVars

\* The first signal begins the shutdown, later ones are ignored; without the
\* handlers the process is killed.
Signal ==
  /\ \/ /\ At("up")
        /\ spc' = "stop" /\ inHand' = flights
        /\ UNCHANGED <<next, awaited, exit>>
     \/ /\ At("app.start") \/ At("schedulers")
        /\ End("signal")
  /\ UNCHANGED <<runnerVars, worldVars>>

-----------------------------------------------------------------------------
(* Shutdown.                                                                *)

\* The next runner, or the queue after the last one.
AfterRunner ==
  /\ next' = next + 1
  /\ spc' = IF next = RunnerCount THEN "queue" ELSE "stop"
  /\ UNCHANGED <<awaited, exit, inHand>>

\* Faulty variant: the interval stays set.
StopKeepingTimer ==
  /\ At("stop")
  /\ IF next \in promises THEN Goto("await") ELSE AfterRunner
  /\ UNCHANGED <<runnerVars, worldVars>>

\* stop() of a runner clears its interval and awaits the run in progress.
StopRunner ==
  /\ At("stop")
  /\ timers' = timers \ {next}
  /\ IF next \in promises THEN Goto("await") ELSE AfterRunner
  /\ UNCHANGED <<promises, active, worldVars>>

RunnerStopped ==
  /\ At("await") /\ next \notin promises
  /\ AfterRunner
  /\ UNCHANGED <<runnerVars, worldVars>>

\* Faulty variant: the flights are not waited for.
StopQueueAtOnce ==
  /\ At("queue")
  /\ Goto("app.stop")
  /\ UNCHANGED <<runnerVars, worldVars>>

\* stop() of the live reply queue awaits the flights it finds registered.
StopQueue ==
  /\ At("queue")
  /\ awaited' = flights
  /\ spc' = "flights"
  /\ UNCHANGED <<next, exit, inHand, runnerVars, worldVars>>

QueueStopped ==
  /\ At("flights") /\ awaited \cap flights = {}
  /\ Goto("app.stop")
  /\ UNCHANGED <<runnerVars, worldVars>>

\* A failing stop ends the process with code 1.
StopApp ==
  /\ At("app.stop")
  /\ Goto("close") \/ End("failure")
  /\ UNCHANGED <<runnerVars, worldVars>>

CloseDatabase ==
  /\ At("close")
  /\ \/ database' = "closed" /\ Goto("exit")
     \/ UNCHANGED database /\ End("failure")
  /\ UNCHANGED <<runnerVars, flights>>

Exit ==
  /\ At("exit")
  /\ End("success")
  /\ UNCHANGED <<runnerVars, worldVars>>

ShutdownStep ==
  \/ StopRunner \/ RunnerStopped \/ StopQueue \/ QueueStopped
  \/ StopApp \/ CloseDatabase \/ Exit

-----------------------------------------------------------------------------
(* Flights; those that begin after the queue's stop() may outlive it.  They *)
(* need not wait for Slack: a message that is being stored and a retry      *)
(* timer still begin one after app.stop().                                  *)

FlightBegins(m) ==
  /\ Alive /\ spc # "app.start" /\ m \notin flights \cup inHand \cup awaited
  /\ flights' = flights \cup {m}
  /\ UNCHANGED <<database, runnerVars, stopVars>>

FlightEnds(m) ==
  /\ Alive /\ m \in flights
  /\ flights' = flights \ {m}
  /\ UNCHANGED <<database, runnerVars, stopVars>>

\* Steps of a runner in the running process.
RunStarts(r) == Alive /\ RunIfIdle(r) /\ UNCHANGED <<worldVars, stopVars>>
RunSettles(r) == Alive /\ RunEnds(r) /\ UNCHANGED <<worldVars, stopVars>>

\* All that the running process does, the signals apart.
ProcessStep ==
  \/ StartApp \/ StartSchedulers \/ ShutdownStep
  \/ \E r \in Runners : RunStarts(r) \/ RunSettles(r)
  \/ \E m \in Messages : FlightBegins(m) \/ FlightEnds(m)

-----------------------------------------------------------------------------
(* Properties.                                                              *)

\* Once shutdown has gone past a runner it stays quiet, while the later ones
\* still run; so no scheduler finds the database closed.
StoppedStaysQuiet ==
  \A r \in Runners : r < next => active[r] = 0 /\ r \notin timers

\* The live replies that were under way when the signal came are finished
\* before the database is closed, although new ones begin meanwhile.
RepliesInHandFinish ==
  database = "closed" => flights \cap inHand = {}

ShuttingDown == spc \notin {"app.start", "schedulers", "up"}

\* A shutdown that has begun ends: no await of it waits for a run or a flight
\* that never comes to an end, nor for ever new ones.
ShutdownEnds == ShuttingDown ~> exit # "none"
=============================================================================
