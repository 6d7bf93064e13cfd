------------------------------- MODULE LiveReply -------------------------------
(***************************************************************************)
(* From a thread message to the reply: the event handler stores the        *)
(* message, counts it and hands it to the in-memory retry queue, whose     *)
(* tasks run one after another for a session.  A task asks whether the     *)
(* thread is still watched, asks OpenClaw for an answer, asks again, and   *)
(* posts.  OpenClaw need not answer: the chat adapter gives up after its   *)
(* request timeout.  The first failure posts a notice; failures are        *)
(* retried after a delay, MaxRetries times.  Shutdown stops the queue      *)
(* while Slack events still arrive (the Slack app is stopped afterwards).  *)
(*                                                                         *)
(* One session and its thread: tasks of different sessions share nothing   *)
(* but the shutdown.  A flight is the promise chain of one run of a task;  *)
(* a message has at most one at a time, so it is named after the message.  *)
(* Left out: what messages say beyond having a text or not, the filters    *)
(* that drop bot and subtype messages before any of this, and process      *)
(* death (which loses the queue).                                          *)
(***************************************************************************)
EXTENDS Naturals, Sequences, FiniteSets

CONSTANTS
  Messages,     \* the user messages of the thread
  Copies,       \* how many times Slack may deliver the event of a message
  None,         \* no flight
  MaxRetries,   \* OPENCLAW_LIVE_REPLY_MAX_RETRIES
  MaxFaults     \* bound: failing calls in a behaviour

ASSUME LiveReplyAssumption ==
  /\ IsFiniteSet(Messages) /\ None \notin Messages
  /\ Copies \in Nat /\ MaxRetries \in Nat /\ MaxFaults \in Nat

Deliveries == Messages \X (1..Copies)

VARIABLES
  watch,      \* the watch target: "ON", "OFF", or "GONE" with its session
  stored,     \* messages with a room_thread_messages row
  count,      \* message_count of the watch target
  hpc,        \* per delivery: the call the event handler is about to make
  queued,     \* tasksByKey
  retries,    \* retryCount of a task
  noticed,    \* tasks with noticeSent
  timers,     \* tasks whose retry timer is armed
  fpc,        \* per flight: the call it is about to make
  after,      \* the flight a waiting flight is chained to
  last,       \* sessionFlights: the registered flight of the session
  spc,        \* stop(): "running", "awaiting" the flights, "stopped"
  awaited,    \* the flight stop() is waiting for
  faults,     \* number of failed calls so far
  uncounted,  \* history: stored messages whose count or enqueueing failed
  entered,    \* history: the messages in the order they were enqueued
  answered,   \* history: the messages in the order replies were posted
  notices,    \* history: number of failure notices per message
  attempts,   \* history: number of runs per message
  late,       \* history: number of replies posted after planning mode ended
  cleared     \* history: the tasks that were alive when stop() began

ingestVars  == <<watch, stored, count, hpc>>
taskVars    == <<queued, retries, noticed, timers>>
flightVars  == <<fpc, after, last>>
stopVars    == <<spc, awaited, cleared>>
historyVars == <<uncounted, entered, answered, notices, attempts, late>>
vars == <<ingestVars, taskVars, flightVars, stopVars, faults, historyVars>>

TypeOK ==
  /\ watch \in {"ON", "OFF", "GONE"}
  /\ stored \subseteq Messages
  /\ count \in 0..Cardinality(Messages)
  /\ hpc \in [Deliveries -> {"idle", "insert", "count", "done"}]
  /\ queued \subseteq Messages
  /\ retries \in [Messages -> 0..MaxRetries]
  /\ noticed \subseteq Messages
  /\ timers \subseteq Messages
  /\ fpc \in [Messages -> {"none", "waiting", "check", "complete", "recheck", "post", "notice"}]
  /\ after \in [Messages -> Messages \cup {None}]
  /\ last \in Messages \cup {None}
  /\ spc \in {"running", "awaiting", "stopped"}
  /\ awaited \in Messages \cup {None}
  /\ faults \in 0..MaxFaults
  /\ uncounted \subseteq Messages
  /\ entered \in Seq(Messages) /\ answered \in Seq(Messages)
  /\ notices \in [Messages -> Nat] /\ attempts \in [Messages -> Nat] /\ late \in Nat
  /\ cleared \subseteq Messages

Init ==
  /\ watch = "ON"
  /\ stored = {}
  /\ count = 0
  /\ hpc = [d \in Deliveries |-> "idle"]
  /\ queued = {}
  /\ retries = [m \in Messages |-> 0]
  /\ noticed = {}
  /\ timers = {}
  /\ fpc = [m \in Messages |-> "none"]
  /\ after = [m \in Messages |-> None]
  /\ last = None
  /\ spc = "running"
  /\ awaited = None
  /\ faults = 0
  /\ uncounted = {}
  /\ entered = <<>>
  /\ answered = <<>>
  /\ notices = [m \in Messages |-> 0]
  /\ attempts = [m \in Messages |-> 0]
  /\ late = 0
  /\ cleared = {}

InFlight(m) == fpc[m] # "none"
Running(m)  == fpc[m] \notin {"none", "waiting"}

-----------------------------------------------------------------------------
(* Flights (runWithSessionSingleFlight).                                    *)

\* A flight of m is chained to the registered one and registered in its place.
ChainFlight(m) ==
  /\ fpc' = [fpc EXCEPT ![m] = "waiting"]
  /\ after' = [after EXCEPT ![m] = last]
  /\ last' = m

\* Faulty variant: a flight that ends unregisters whatever is registered.
SettleClearing(m) ==
  /\ fpc' = [fpc EXCEPT ![m] = "none"]
  /\ after' = [k \in Messages |-> IF after[k] = m THEN None ELSE after[k]]
  /\ last' = None

\* The flight of m settles: those chained to it may begin, and it unregisters
\* itself if no later flight has taken its place.
Settle(m) ==
  /\ fpc' = [fpc EXCEPT ![m] = "none"]
  /\ after' = [k \in Messages |-> IF after[k] = m THEN None ELSE after[k]]
  /\ last' = IF last = m THEN None ELSE last

\* cleanupTask: a task that stop() has dropped already has no timer to clear.
Cleanup(m) ==
  /\ queued' = queued \ {m}
  /\ timers' = IF m \in queued THEN timers \ {m} ELSE timers

-----------------------------------------------------------------------------
(* The event handler and IngestRoomThreadMessageService.                    *)

IngestFrame == UNCHANGED <<watch, stopVars, faults, answered, late, notices, attempts>>
QueueUntouched == UNCHANGED <<taskVars, flightVars, entered>>

IngestFind(d) ==
  /\ hpc[d] = "idle"
  /\ hpc' = [hpc EXCEPT ![d] = IF watch = "ON" THEN "insert" ELSE "done"]
  /\ UNCHANGED <<stored, count, uncounted>> /\ QueueUntouched /\ IngestFrame

\* Faulty variant: a redelivered message is taken for a new one.
InsertAlways(d) ==
  /\ hpc[d] = "insert"
  /\ stored' = stored \cup {d[1]}
  /\ hpc' = [hpc EXCEPT ![d] = "count"]
  /\ UNCHANGED <<count, uncounted>> /\ QueueUntouched /\ IngestFrame

\* INSERT OR IGNORE: a known message is a duplicate; without the target the
\* foreign key fails and the handler throws.
IngestInsert(d) ==
  /\ hpc[d] = "insert"
  /\ IF watch # "GONE" /\ d[1] \notin stored
     THEN stored' = stored \cup {d[1]} /\ hpc' = [hpc EXCEPT ![d] = "count"]
     ELSE hpc' = [hpc EXCEPT ![d] = "done"] /\ UNCHANGED stored
  /\ UNCHANGED <<count, uncounted>> /\ QueueUntouched /\ IngestFrame

\* enqueue: a task that is known is left alone; a new one gets a flight.
Enqueue(m) ==
  IF m \in queued
  THEN QueueUntouched
  ELSE /\ queued' = queued \cup {m}
       /\ retries' = [retries EXCEPT ![m] = 0]
       /\ noticed' = noticed \ {m}
       /\ UNCHANGED timers
       /\ ChainFlight(m)
       /\ entered' = Append(entered, m)

\* incrementMessageCount; the handler then enqueues the task, unless the message
\* has no text to answer.  It throws when the target was turned off since the
\* handler found it.
IngestCount(d) ==
  /\ hpc[d] = "count"
  /\ hpc' = [hpc EXCEPT ![d] = "done"]
  /\ IF watch = "ON"
     THEN count' = count + 1 /\ (Enqueue(d[1]) \/ QueueUntouched) /\ UNCHANGED uncounted
     ELSE uncounted' = uncounted \cup {d[1]} /\ UNCHANGED count /\ QueueUntouched
  /\ UNCHANGED stored /\ IngestFrame

IngestStep(d) == IngestFind(d) \/ IngestInsert(d) \/ IngestCount(d)

-----------------------------------------------------------------------------
(* Running a task (LiveReplyToRoomThreadService.processTask in a flight).   *)

TaskFrame == UNCHANGED <<ingestVars, stopVars, uncounted, entered>>
NoTaskChange == UNCHANGED taskVars
StayInFlight(m, label) == fpc' = [fpc EXCEPT ![m] = label] /\ UNCHANGED <<after, last>>

\* The flight's turn has come; stop() may have dropped its task.
Begin(m) ==
  /\ fpc[m] = "waiting" /\ after[m] = None
  /\ IF m \in queued
     THEN StayInFlight(m, "check") /\ attempts' = [attempts EXCEPT ![m] = @ + 1]
     ELSE Settle(m) /\ UNCHANGED attempts
  /\ NoTaskChange /\ TaskFrame /\ UNCHANGED <<faults, answered, late, notices>>

\* Faulty variant: the lookup ignores the status of the target.
CheckTargetExists(m, label, next) ==
  /\ fpc[m] = label
  /\ IF watch # "GONE"
     THEN StayInFlight(m, next) /\ NoTaskChange
     ELSE Settle(m) /\ Cleanup(m) /\ UNCHANGED <<retries, noticed>>
  /\ TaskFrame /\ UNCHANGED <<faults, answered, late, notices, attempts>>

\* isPlanningModeOn, before the answer and before the post.
CheckWatch(m, label, next) ==
  /\ fpc[m] = label
  /\ IF watch = "ON"
     THEN StayInFlight(m, next) /\ NoTaskChange
     ELSE Settle(m) /\ Cleanup(m) /\ UNCHANGED <<retries, noticed>>
  /\ TaskFrame /\ UNCHANGED <<faults, answered, late, notices, attempts>>

\* OpenClaw answers in time with a text.
Complete(m) ==
  /\ fpc[m] = "complete"
  /\ StayInFlight(m, "recheck")
  /\ NoTaskChange /\ TaskFrame /\ UNCHANGED <<faults, answered, late, notices, attempts>>

\* A reply reaches the thread.
Reply(m) ==
  /\ answered' = Append(answered, m)
  /\ late' = IF watch = "ON" THEN late ELSE late + 1

Post(m) ==
  /\ fpc[m] = "post"
  /\ Reply(m)
  /\ Settle(m) /\ Cleanup(m)
  /\ TaskFrame /\ UNCHANGED <<retries, noticed, faults, notices, attempts>>

\* Faulty variant: one attempt too many.
RescheduleLate(m) ==
  /\ IF retries[m] > MaxRetries
     THEN Cleanup(m) /\ UNCHANGED retries
     ELSE /\ retries' = [retries EXCEPT ![m] = @ + 1]
          /\ timers' = timers \cup {m} /\ UNCHANGED queued
  /\ Settle(m)

\* Faulty variant: giving up forgets to drop the task.
RescheduleKeeping(m) ==
  /\ IF retries[m] >= MaxRetries
     THEN UNCHANGED <<queued, timers, retries>>
     ELSE /\ retries' = [retries EXCEPT ![m] = @ + 1]
          /\ timers' = timers \cup {m} /\ UNCHANGED queued
  /\ Settle(m)

\* The end of handleFailure: give up, or arm the retry timer - on the state it
\* holds, whether or not stop() has dropped the task meanwhile.
Reschedule(m) ==
  /\ IF retries[m] >= MaxRetries
     THEN Cleanup(m) /\ UNCHANGED retries
     ELSE /\ retries' = [retries EXCEPT ![m] = @ + 1]
          /\ timers' = timers \cup {m} /\ UNCHANGED queued
  /\ Settle(m)

\* Faulty variant: every failure posts a notice.
NoticeAgain(m) ==
  IF m \in queued
  THEN StayInFlight(m, "notice") /\ NoTaskChange
  ELSE Settle(m) /\ NoTaskChange

HandleFailure(m) ==
  IF m \notin queued THEN Settle(m) /\ NoTaskChange
  ELSE IF m \in noticed THEN Reschedule(m) /\ UNCHANGED noticed
  ELSE StayInFlight(m, "notice") /\ NoTaskChange

\* onFirstFailure never throws: a notice that cannot be posted is logged.
Notice(m) ==
  /\ fpc[m] = "notice"
  /\ notices' = [notices EXCEPT ![m] = @ + 1]
  /\ noticed' = noticed \cup {m}
  /\ Reschedule(m)
  /\ TaskFrame /\ UNCHANGED <<faults, answered, late, attempts>>

\* The request timer aborts the call to OpenClaw.
CompleteTimesOut(m) ==
  /\ fpc[m] = "complete"
  /\ HandleFailure(m)
  /\ TaskFrame /\ UNCHANGED <<faults, answered, late, notices, attempts>>

\* The steps that come about without an answer of OpenClaw.
FlightStep(m) ==
  \/ Begin(m)
  \/ CheckWatch(m, "check", "complete") \/ CompleteTimesOut(m)
  \/ CheckWatch(m, "recheck", "post") \/ Post(m)
  \/ Notice(m)

\* Faulty variant: the retry does not queue behind the session's other tasks.
TimerJumpsQueue(m) ==
  /\ m \in timers
  /\ timers' = timers \ {m}
  /\ IF m \in queued
     THEN fpc' = [fpc EXCEPT ![m] = "waiting"] /\ last' = m /\ UNCHANGED after
     ELSE UNCHANGED flightVars
  /\ UNCHANGED <<queued, retries, noticed, faults, answered, late, notices, attempts>> /\ TaskFrame

TimerFires(m) ==
  /\ m \in timers
  /\ timers' = timers \ {m}
  /\ IF m \in queued THEN ChainFlight(m) ELSE UNCHANGED flightVars
  /\ UNCHANGED <<queued, retries, noticed, faults, answered, late, notices, attempts>> /\ TaskFrame

-----------------------------------------------------------------------------
(* Failing calls, the end of planning mode, shutdown.                       *)

\* A call of a task fails; a post may have reached Slack all the same.
TaskFails(m) ==
  /\ fpc[m] \in {"check", "complete", "recheck", "post"}
  /\ faults < MaxFaults /\ faults' = faults + 1
  /\ HandleFailure(m)
  /\ \/ UNCHANGED <<answered, late>>
     \/ fpc[m] = "post" /\ Reply(m)
  /\ TaskFrame /\ UNCHANGED <<notices, attempts>>

\* A database call of the event handler fails, the second after or before its
\* UPDATE.
IngestFails(d) ==
  /\ hpc[d] \in {"insert", "count"}
  /\ faults < MaxFaults /\ faults' = faults + 1
  /\ hpc' = [hpc EXCEPT ![d] = "done"]
  /\ \/ UNCHANGED count
     \/ hpc[d] = "count" /\ watch = "ON" /\ count' = count + 1
  /\ uncounted' = IF hpc[d] = "count" THEN uncounted \cup {d[1]} ELSE uncounted
  /\ QueueUntouched
  /\ UNCHANGED <<watch, stored, stopVars, answered, late, notices, attempts>>

\* A stop, a launch or the TTL turns planning mode off, or a start that rolls
\* back deletes the session with its target and messages.
WatchEnds ==
  /\ watch = "ON"
  /\ \/ watch' = "OFF" /\ UNCHANGED <<stored, count, uncounted>>
     \/ watch' = "GONE" /\ stored' = {} /\ count' = 0 /\ uncounted' = {}
  /\ QueueUntouched /\ UNCHANGED <<hpc, stopVars, faults, answered, late, notices, attempts>>

\* stop(), up to its await: one flight per session is registered, the last.
\* Without one the await is over before anything else runs.
StopBegin ==
  /\ spc = "running"
  /\ spc' = IF last = None THEN "stopped" ELSE "awaiting"
  /\ timers' = timers \ queued
  /\ queued' = {}
  /\ awaited' = last
  /\ cleared' = queued
  /\ UNCHANGED <<ingestVars, retries, noticed, flightVars, faults, historyVars>>

\* stop(), after its await.
StopEnd ==
  /\ spc = "awaiting"
  /\ ~InFlight(awaited)
  /\ spc' = "stopped"
  /\ last' = None
  /\ UNCHANGED <<ingestVars, taskVars, fpc, after, awaited, cleared, faults, historyVars>>

\* Nothing is left to do but to exit: the only state in which the process may
\* come to rest.
AtRest ==
  /\ spc = "stopped" /\ timers = {}
  /\ \A m \in Messages : ~InFlight(m)
  /\ \A d \in Deliveries : hpc[d] = "done"
  /\ UNCHANGED vars

Next ==
  \/ \E d \in Deliveries : IngestStep(d) \/ IngestFails(d)
  \/ \E m \in Messages : FlightStep(m) \/ Complete(m) \/ TimerFires(m) \/ TaskFails(m)
  \/ WatchEnds
  \/ StopBegin \/ StopEnd \/ AtRest

Spec == Init /\ [][Next]_vars

\* Database and Slack calls settle and timers fire, the request timer among
\* them; that OpenClaw ever answers is not assumed.
FairSpec == Spec /\ \A m \in Messages : WF_vars(FlightStep(m)) /\ WF_vars(TimerFires(m))

-----------------------------------------------------------------------------
(* Properties.                                                              *)

\* Until stop() has returned, one task of the session runs at a time, retries
\* included.
SingleFlightUntilStopped ==
  spc # "stopped" => \A k, m \in Messages : Running(k) /\ Running(m) => k = m

\* No task is stuck: one that is not finished has a flight or an armed timer.
TaskHasDriver == \A m \in queued : InFlight(m) \/ m \in timers

Replies(m) == Cardinality({i \in 1..Len(answered) : answered[i] = m})

\* However often Slack delivers a message, it is run MaxRetries + 1 times at
\* most, the user sees at most one failure notice for it, and one reply unless a
\* post reached Slack and was reported as failed.
BoundedEffort ==
  \A m \in Messages :
    attempts[m] <= MaxRetries + 1 /\ notices[m] <= 1 /\ Replies(m) <= 1 + faults

PositionOf(m) == CHOOSE i \in 1..Len(entered) : entered[i] = m

\* Whatever fails, times out or is skipped, the messages answered at their first
\* attempt are answered in the order in which they were enqueued.
RepliesInOrder ==
  spc # "stopped" =>
    \A i, j \in 1..Len(answered) :
      i < j /\ attempts[answered[i]] = 1 /\ attempts[answered[j]] = 1
        => PositionOf(answered[i]) < PositionOf(answered[j])

\* Planning mode may end between the second look at the target and the post.  As
\* flights are serial, at most one reply slips through, retries included.
OneLateReply == spc # "stopped" => late <= 1

BeingCounted == {d \in Deliveries : hpc[d] = "count"}

\* message_count counts the stored messages, but for those whose increment is
\* under way or failed.
CountMatchesMessages ==
  watch # "GONE" =>
    /\ count <= Cardinality(stored)
    /\ Cardinality(stored) <= count + Cardinality(BeingCounted) + Cardinality(uncounted)

\* stop() waits for the registered flight only.  That drains every task that
\* was alive when it began, because flights are chained.
StopDrainsOldTasks ==
  spc = "stopped" => \A m \in cleared : ~InFlight(m)

\* Every task ends: with a reply, skipped, given up or dropped by stop().
TaskEnds == \A m \in Messages : m \in queued ~> m \notin queued

-----------------------------------------------------------------------------
(* What the comments say and the code does not do in every interleaving.    *)

\* roomLiveReplyRetryQueue.ts:86 - the tasks of a session run one after
\* another.  stop() forgets the flight of a message that came while it waited,
\* so the next message runs beside it.
SingleFlight == \A k, m \in Messages : Running(k) /\ Running(m) => k = m
=============================================================================
