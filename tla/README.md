# slack-room-orchestrator: TLA+ models, checks and proofs

The orchestrator is one Node.js process that runs a Slack slash command
(`/room start | launch | stop | help`) over an SQLite database. It keeps at most one
"room" per start channel, watches the room's thread in *planning mode*, answers the
messages of that thread through OpenClaw, and exports mode events through an outbox
to an NDJSON file. This directory holds TLA+ models of that program, the TLC
configurations that check them on small instances, and proofs checked by TLAPS.

Source paths below are relative to `src/` (so `src/services/...` is the program's
own source directory).

## 1. Inventory

JavaScript runs one callback at a time, so nothing is preemptive; but **every
`await` is a point where everything else may run**. No repository method uses a
transaction: what a service does with two statements can be interleaved with all
other services. That, partial failure between two awaits, and process death between
two statements are what is hard here.

| Component | State it keeps | Operations | Talks to | What makes it correct |
| --- | --- | --- | --- | --- |
| SQLite tables (`migrations/`, `repositories/`) | `room_sessions`, `room_briefings`, `room_worker_rounds`, `room_watch_targets`, `room_thread_messages`, `openclaw_event_outbox` | single INSERT/UPDATE/DELETE statements with guarding WHERE clauses; partial unique indexes; cascades | everything | one active session and one ON target per channel |
| start service (`startRoomSessionService.ts`) | `currentStartThreadTs` | find, reserve, bind thread, kickoff, briefing, mode ON; catch: delete the reservation | Slack, repositories, planning mode | a failed start leaves nothing that blocks the channel; never deletes a room that moved on |
| launch service (`launchRoomSessionService.ts`) | `createdRoundNo` | find, check, claim, metadata, round, thread, sync, mode OFF; catch: delete the round, release the claim | same | one launch per session; success keeps its round; an abandoned launch leaves no residue |
| stop service (`stopRoomSessionService.ts`) | - | find, mode OFF, DECIDED | planning mode | DECIDED is final; planning mode is off |
| planning mode (`manageRoomModeService.ts`) | - | turn on + ON event; find, turn off + OFF event | watch targets, outbox | exactly one OFF event per target |
| TTL expiry (`expireRoomModeService.ts`) | the batch of a run | scan; decide, turn off, announce each target | same | overdue rooms are closed; active ones are not |
| outbox dispatcher (`dispatchOpenclawOutboxService.ts`, `openclawEventFileAdapter.ts`) | the batch of a run | claim, append, mark dispatched / mark retry | outbox, file | at least once; duplicates only after a failure; order |
| message ingestion (`ingestRoomThreadMessageService.ts`, `roomThreadEventHandler.ts`) | - | find target, insert if absent, count and extend TTL, hand over | live reply | each message once |
| live reply (`liveReplyToRoomThreadService.ts`, `roomLiveReplyRetryQueue.ts`) | `tasksByKey`, `sessionFlights`, timers | enqueue, run, fail, retry, give up, stop | OpenClaw, Slack | one task at a time, in order, bounded retries, every task ends, clean stop |
| question trigger (`emitQuestionTriggerService.ts`) | the batch of a run | scan and claim the due targets, enqueue an event each | watch targets, outbox | one question per interval, at most one after OFF; no lost claim stops the scheduler |
| interval runner, shutdown (`openClawIntervalRunner.ts`, `app.ts`) | `timer`, `runningPromise` | start, run if idle, stop; signal, stop runners - queue - Slack - database | all schedulers, live reply queue | never two runs at once; what was stopped stays quiet; a shutdown ends |
| slash ack/response (`roomSlashCommandBinding.ts`, `roomSlashResponseController.ts`) | response state | ack once, processing notice, replace or delete, help button | Slack, command handler | what the user is shown is what the tables say; no notice stays for ever |
| router, handler, validator | - | parse, dispatch, normalise errors | services | answers are the domain errors |
| migrations (`runAllMigrations.ts`, `sqliteClient.ts`, `migrations/*.sql`) | schema, rows | run every script again at every start | SQLite | any number of runs, cut short anywhere, keep the rows and restore the indexes |
| chat adapter (`openclawChatCompletionsAdapter.ts`) | request timer | one request, aborted after a timeout | OpenClaw | a request ends |
| Slack adapters, event factory, messages, logger, configuration, worker stub | - | external calls, formatting | - | not modelled: seen by their callers as an await that answers or throws |

`PROJECT.json` lists the components with their status and the hazards at their lines.

## 2. Modules

    RoomStore                tables and statements (no Next of its own)
      RoomLifecycle          start, launch, stop, planning mode, TTL scheduler, faults, crash
        RoomLifecycle_proofs theorems (TLAPS)
        RoomRefinement       RoomLifecycle implements Room
          RoomRefinement_proofs  that it does, for all values of the constants (TLAPS)
            RoomSafety_proofs    the other safety properties of RoomLifecycle (TLAPS)
          MCRoomLifecycle    symmetry for TLC
        QuestionTrigger      the question scheduler beside all of RoomLifecycle
          QuestionTrigger_proofs   (TLAPS, on RoomSafety_proofs)
        SlashResponse        what the user sees of the commands, around all of RoomLifecycle
          SlashResponse_proofs     (TLAPS, on RoomSafety_proofs)
    Room                     abstract: IDLE / PREPARED / RUNNING / DECIDED and the watched room
    OutboxDispatch           event outbox, dispatcher, file      (MCOutboxDispatch, OutboxDispatch_proofs)
    LiveReply                ingestion, retry queue, stop()      (MCLiveReply, LiveReply_proofs)
    Shutdown                 interval runners, bootstrap, signal, order of the stop calls
    Migrations               the SQL scripts and the rows they rebuild
      ProcessLife            Shutdown and Migrations: lifetimes, kills, restarts
        ProcessLife_proofs   theorems about all three (TLAPS)

**RoomStore.** One variable per column that a guard reads; one operator per
statement. `MayInsertSession` and `MayInsertWatch` are the partial unique indexes
(`migrations/001_init.sql`, `003_...sql`). A session row is named after the start
command that inserts it. The program is configured with one start channel, so all
rows belong to it. Times are abstracted to the one question asked of them: `overdue`
is the set of sessions whose ON target has `ttl_expires_at <= now`. `outbox` keeps the
mode events of each session in the order of their INSERTs.

**RoomLifecycle.** Each command is a process whose `pc` names the awaited call it is
about to make; a step is that call together with the synchronous code up to the next
await. Two awaits are folded into one step where nothing else can tell them apart
(a Slack call followed by the UPDATE that uses it; reading the latest round and
inserting the next one, which `LaunchExclusive` justifies). `HandlerOf` says where
an exception of the current call is caught: the catch block of start (`"rollback"`),
of launch (`"undo"` then `"release"`), the swallowed errors of the thread sync, or
nowhere. `CallFails` is a call that throws without writing, `ReadBackFails` a write
that took effect and whose read back throws (the repositories write and re-read),
`ExpireFails` the same for the scheduler, `Crash` the death of the process: tables
stay, commands and runs are gone. `turnOffPlanningRoomMode` is one set of actions
(`ModeFindOn`, `ModeTurnOff`, `ModeAnnounceOff`) taken by launch and stop. Two history
variables keep the exceptions of the properties honest: `overlapped` (sessions some
command found while their start was running) and `lost` (sessions for which a fault
or crash hit a compensating write, a read back or the OFF event).

**Room** is what the commands promise of the channel without commands or tables, and
**RoomRefinement** maps the tables to it. The abstract `Watch` step also admits a
decided room: that is what the code does when a stop overtakes a start (section 4, item 1).

**OutboxDispatch** has its own, finer picture of the outbox: the pending rows that are
due and those put off, in dispatch order, the file, and the dispatcher's batch. Any
service is `EnqueueEvent`; the rollback of a start is `DeleteSession` with its cascade.

**LiveReply** is one session's thread. A delivery of a Slack event is a small process
(find, insert, count + enqueue); a task run is a *flight*, the promise chain of
`runWithSessionSingleFlight`, with the flight it is chained to (`after`) and the
registered one (`last`). `StopBegin` and `StopEnd` are the two halves of `stop()`;
messages keep arriving in between because the Slack app is stopped after the queue
(`src/app.ts:364-365`). A request to OpenClaw ends in one of three ways: an answer, a failure, or
the request timer of the chat adapter (`CompleteTimesOut`); nothing makes OpenClaw answer. The
watch target is looked at before the request and again before the post, so planning mode may end
between the second look and the post: `late` counts those replies.

**QuestionTrigger** composes the second scheduler with `RoomLifecycle`: its steps leave
the commands alone, and `RestMoves` is any step of theirs (a process death also ends the
run). `asked` is the set of targets whose `last_question_triggered_at` is younger than the
interval; `QuestionIntervalPasses` removes one. The run's cutoff is fixed when it begins,
so a target that becomes due later is not in its batch and the WHERE clause of the claim
asks the same question as that of the SELECT. `QuestionEnqueue` does not look at the target
again, as the code does not. A run that finds a deleted row behind its claim, or whose call
fails, is over (`RunLost`).

**SlashResponse** puts the Slack binding around every step of `RoomLifecycle`. `Receive` parses
the text (`ParseRoomCommand`) and acknowledges with the first notice; only a command that is
acknowledged runs (`Handle`), and `FollowUp` deletes its notice or replaces it by the error.
`AckFails` and `FollowUpFails` are the calls to Slack that throw, each with and without having
reached Slack, `HelpClicked` the button that error notices carry, `Die` a process death that
leaves a notice standing. `broken` is the history of commands it happened to.

**Shutdown** is the running process around them; it has steps, no specification of its own. A run of a scheduler and a flight of the reply
queue are opaque: they begin and end. `StopRunner` and `RunnerStopped` are the two halves
of a runner's `stop()`, `StopQueue` and `QueueStopped` those of the queue's, and the runners
that come later in the loop go on firing meanwhile. `Signal` covers a second signal (ignored)
and one before the handlers are registered (the process is killed). That a runner
has one run in progress at most (`active` is 0 or 1 in the type invariant) is what the scheduler
actions of the other modules take for granted.

**Migrations** has `Script`, the statements of the scripts in order, one for each CREATE TABLE and
each unique index, and one action per kind of statement. The schema is the six tables and the five
unique indexes that the services rely on (`IndexesOf`): one active session of a channel, one round
of a number, one watch target of a thread, one row of a message, one ON target of a channel. The
two of the watch targets go with the table that 004 drops; `RestoreIndexes` are the statements that
bring them back. `db` is what the connection sees and `disk` what is committed; a process that ends
leaves `disk`. `StatementApplies` is what SQLite would refuse: creating a table that exists,
dropping one that does not, a unique index without its table or over rows that contradict it. Two
ON targets of the channel are seen in the rows; for the other four indexes `twice` records that a
row was inserted again (`InsertAgain`) while the index was missing.
`logical` keeps the rows that ought to be there. `InitialDatabases` are a fresh file and what
releases with one to five scripts can have left, surplus ON targets, summary events and the
non-unique index of the rounds, which 001 replaces, included.

**ProcessLife** composes `Shutdown` and `Migrations`: every start connects and runs all scripts
before Slack and the schedulers start; the process may be killed between any two statements
(`Killed`), a statement may fail (`MigrationFails`), the services change rows while it serves
(`Serve`), and whoever runs the process starts it again (`Restart`).

Definitions marked "faulty variant" are not used by any specification. Each one is a
plausible bug of the definition after it; `PROJECT.json` pairs them with the property
that must catch it, so every property is known to be able to fail.

## 3. Runs

Every run checks deadlock. `LiveReply` has an explicit resting action (`AtRest`), so a
state where a message is stuck would be reported. `RoomLifecycle`, what is built on it, and
`OutboxDispatch` never come to rest because the schedulers scan again; `ProcessLife` has `Exited`
for the process that is gone for good.

| Run | Instance | Shows |
| --- | --- | --- |
| `lifecycle_races` | 2 starts, 2 launches, 1 stop, no faults | TypeOK, AtMostOneActive, AtMostOneWatching, LaunchExclusive, LaunchedKeepsRound, SuccessClosesWatch, DecidedIsFinal |
| `lifecycle_faults` | 1 start, 2 launches, 1 stop, 2 faults, 1 crash | PreparedIsClean, RunningHasLaunch, OffAnnouncedOnce, FailedStartLeavesNothing, ImplementsRoom |
| `outbox_delivery` | 2 sessions with 2 events, batch 2, 2 faults, 1 crash, fair | TypeOK, NothingLost, DuplicatesNeedFailure, FirstDeliveriesInOrder, PendingIsDispatched |
| `live_reply_queue` | 3 messages, 1 retry, 3 faults | TypeOK, SingleFlightUntilStopped, TaskHasDriver, RepliesInOrder, StopDrainsOldTasks, OneLateReply |
| `live_reply_delivery` | 2 messages delivered twice, 1 retry, 2 faults, fair | BoundedEffort (which bounds replies, attempts and failure notices of a message), CountMatchesMessages, TaskEnds |
| `question_trigger` | 1 start, 1 launch, 1 stop, 1 fault, 1 question interval, fair schedulers | QuestionTypeOK, QuestionsArePaced, OneLateQuestion, QuestionIsAsked, OverdueIsClosed |
| `slash_response` | 1 start, 1 launch, 1 stop, 1 fault, 1 crash, fair | ShownIsTrue, NoticeResolves |
| `process_life` | 3 runners, 2 flights, 3 watch targets, 2 restarts, fair | ProcessTypeOK, StoppedStaysQuiet, RepliesInHandFinish, ServingSchema, RowsSurvive, EveryStartApplies, ShutdownEnds |

**Bounds and why they are enough.** Commands are the only unbounded set of actors.
Two starts and two launches give every pairwise race; a third of a kind can only meet
the same unique index or conditional UPDATE. One stop suffices where several actors
end a session, because the TTL scheduler is a second one. Two faults let a call fail and its compensation fail as
well; one crash cuts any combination short. Three messages are needed for the promise
chain: one running, one waiting, one registered last; one retry gives both branches of
the retry limit. For the outbox, two events per session are the least that can be out
of order and a batch of two the least that can be aborted half way. One question interval gives two
questions to a room, one before and one after OFF or both; one room is enough because the
watch-target index allows one ON target per channel, so a batch has one target. Three runners
are the program's own number (expiry, question, outbox), which are all stopped in turn. Three watch targets give the two that an old release may have left ON
in one channel and one that the services add; two restarts let a start be cut short, the next one
too, and a third find what they left, on every one of the initial databases. In `slash_response`
a command of each kind suffices because `lifecycle_races` has the races between commands of one
kind; the one fault can hit a call of a service or one to Slack. Symmetry is used in
safety runs only; commands of a kind, sessions and messages are interchangeable.

**Fairness.** `QuestionTrigger!QuestionFairSpec` asks weak fairness of the steps of the question
scheduler and of the expiry scheduler: the interval keeps firing (`setInterval`) and every
promise they await settles (SQLite answers or throws, the Slack call is a step that ends). No
fairness is assumed of users, messages, faults or time passing. `SlashResponse!SlashFairSpec` asks that while
commands are in progress one of them moves on: which one is left to the event loop.
`ProcessLife!ProcessFairSpec` asks that a run, a flight and the calls of the shutdown settle: the first two are bounded for the same
reasons, and nothing is asked of the timers or of a signal. `OutboxDispatch!FairSpec`
asks it of the dispatcher, and that a retry time comes. `LiveReply!FairSpec` asks that awaited
promises settle and armed timers fire. It does not ask OpenClaw to answer: the timer that aborts
the request is enough. The rest are local or SDK calls.

**What some properties do not say.** `DecidedIsFinal` is about the session's state: a second stop that
decides a decided session again changes nothing it could see; the repeated announcement it might
make is `OffAnnouncedOnce`. `FirstDeliveriesInOrder` holds while no call failed; an event that was
put off may be overtaken. `QuestionsArePaced` bounds the questions from above;
that a due target gets its turn is `QuestionIsAsked`, which asserts the claim, not the event.

## 4. What the code does not do

Four runs state what a document or a comment of the repository says and show a
behaviour of the code that contradicts it. `PROJECT.json` quotes the lines.

1. `StopClosesRoom`: a stop that overtakes the end of a start answers success and
   leaves an ON watch target for a DECIDED session; the next start of the channel is
   refused by the watch-target index until the TTL closes it.
2. `LaunchAnswerMatchesState`: a launch reports RUNNING for a session decided meanwhile.
3. `LaunchRollbackRestoresPlanning`: a launch that fails while announcing OFF returns the
   session to PREPARED with planning mode off.
4. `SingleFlight`: flights registered while `stop()` waits are forgotten, and the next
   message of the session runs beside them.

The models have the neighbouring behaviours too, without a run of their own: a launch
that overtakes the end of a start (`LaunchEnsureReady` needs the briefing only), a
message that arrives between the scheduler's SELECT and its UPDATE (`ExpireDecide` and
`ExpireTurnOff` do not look at `overdue` again), the loser of two concurrent stops that is
answered with an internal error (`StopDecide`), and a retry timer armed after `stop()`
has cleared the queue (`Reschedule`).

The safety properties of section 3 are stated around these: `SuccessClosesWatch` holds
for every session whose start had returned, `SingleFlightUntilStopped` until `stop()` returns.

## 5. Proofs

Every safety property that a run checks is a theorem as well, for any sets of commands,
sessions, runners and targets and any number of faults, crashes and restarts, where the runs
take two or three of each. Every inductive invariant was first checked by TLC on the instances of
section 3 (that of `LiveReply` with its chain among the sequences without repetition, since TLC cannot
enumerate all of them). A proof module can be run by TLC with the `.cfg` of its component and the
invariant's name under INVARIANTS.

**Assumptions.** The rooms need only `CommandsAssumption` (the kinds of commands are disjoint and
`None` is no session) and `BoundsAssumption` (the bounds are numbers); the questions
`IntervalsAssumption`, the outbox `OutboxAssumption` (a batch has room for an event), the process
`ShutdownAssumption`, `TargetsAssumption` and `RestartAssumption`, each of the same kind.
`LiveReplyAssumption` also says that `Messages` is finite, because the
theorems about `message_count` count the stored messages. Sets of sessions and commands may be
infinite.

### Rooms

`RoomLifecycle_proofs`:

- `TypeCorrect`: `Spec => []TypeOK`. `TypeOK` is not inductive alone: launches, stops and
  the scheduler dereference `tgt[c]` and `xcur`, which are sessions only while they run.
  `TypeInv` adds `TargetKnown` and `CursorKnown`. One lemma per command kind, one step
  per action.
- `OneActiveSession`, `OneWatchTarget`: `TableSteps` reduces every step to what it does to
  one row of `state` (`SessionStep`) and one of `watch` (`WatchStep`). The invariants
  are then inductive together with `TypeInv`: an inactive row only becomes active by an
  INSERT that met the unique index.
- `OneLaunchPerSession`: needs `CoreOwns` (the session of a launch between claim and
  answer is RUNNING or DECIDED, so no conditional claim matches it) and `NotYetInserted`
  (a start that has not reserved has no row, so a fresh INSERT does not touch a session
  somebody works on).
- `DecidedForever`: from the same invariant, no `SessionStep` applies to a DECIDED row.

`RoomSafety_proofs` has three groups. In each, lemmas first condense what a step does to one launch,
one start or one finder (a launch or stop) to a handful of moves, so that the invariants are not
argued action by action.

- `LaunchKeepsItsRound`, `RunningWasLaunched`, `PreparedCarriesNothing` rest on *ownership*: from its
  claim to its answer, and for good once that was success, a session has one owner among the launches
  (`OwnerOfRunning`). `StepRounds` shows that only an owner adds or removes a round or gives the session
  back, but for the rollback of a start, which deletes a PREPARED session with all it has. `RoundInv` then says which rounds a session has at each program counter of its owner
  (`RoundNumbers`, `RoundHeld`, `OnlyItsRound`) and that one without an owner has none
  (`NoStrayRound`), except for what `lost` records.
- `FailedStartIsUndone`, `SuccessEndsPlanning`: a session that was found before its start returned
  is in `overlapped` (`FoundIsOverlapped`), and a start knows of its thread unless a read back failed
  (`ThreadKnown`). A rollback whose DELETE matches no row therefore met somebody else's launch or
  a fault. The properties are strengthened to be inductive: `NothingLeftActive` speaks of every active
  state, `ClosedWatch` also of a command that is still announcing.
- `OneOffEvent`: turning a target off entitles one command, or the scheduler, to announce it.
  `AnnounceOnce` says that the one entitled and the OFF event exclude each other and that there is
  at most one of either; `NothingToWatch`, that the target of a session is not ON before its start
  turns it on, so it never is a second time.

`RoomRefinement_proofs` proves from the same assumptions that the services implement the abstract
room, `RoomImplementsAbstractRoom: Spec => ImplementsRoom`:

- `StepRows` reduces every step, of services, schedulers, faults and crashes, to seven kinds of
  change of one row (`RowStep`), each with the guard under which the code makes it: reserved,
  claimed, released, ended, deleted, watched, no longer watched.
- `Mapped`: with one active session and one ON target at most (`OneInv`), `CHOOSE` in the mapping
  picks that row, so the mapped variables are known in each case.
- Two more facts are needed. `NotYetInserted`: a reservation is of a new row, hence not of a
  decided one (the abstract `Open` never reopens a room). `HasRow`: a start that is past its
  reservation still has its row, so what it watches is the current room or a decided one. Only
  the start's own rollback deletes it, and that is its last step (`StartTryEntered`).
- `StepRefines` maps each kind of change to one action of `Room`.

### The question scheduler and the notices

Both compose their own steps with those of the room, so both first show that the invariants above
survive them: a step is one of the room's, or leaves alone what the invariant speaks of, or appends a
question (`RoomMoves`, `RoomStays`; `AnswerInvMoves`, `AnswerInvStays`).

- `QuestionTrigger_proofs`: `QuestionsKeepPace`, `OneQuestionIsLate`, `QuestionTypes`. A claim is a
  promise of one question (`Committed`), so `PaceInv` counts questions and promises together:
  `TurnSteps` reduces every step to taking up, asking, passing an interval or neither. A question
  after OFF needs a promise made while the target was ON, and no promise is made after OFF
  (`LateInv`), which rests on `AnnounceOnce`.
- `SlashResponse_proofs`: `UsersAreToldTheTruth` is `ShownIsTrue`. `AnswerInv` is about the room
  only: a command that answered success is over and its effect stands (`SuccessHasEffect`; of a start,
  because `StartsBuild` lists what exists at each call and only the start's own rollback deletes it,
  `NextKeepsRows`; of a launch, by ownership; of a stop, because DECIDED is final), and one that
  answered an error has left nothing (`ErrorHasNoResidue`, from `NothingLeftActive` and
  `RunningHasLaunch`). `NoticeFollows` ties a notice to the answer of its own command.
  `RoomStaysSafe` restates the room's main properties for the composition.
- Both compositions implement `Room` as well (`QuestionsLeaveTheRoom`, `CommandsImplementRoom`): each of
  their steps is a step of the room, for which the refinement above has the abstract action, or
  changes neither `state` nor `watch` and so is a stutter.

### The outbox

`OutboxDispatch_proofs`: `NoEventIsLost`, `DuplicatesArePaidFor`, `DeliveredInOrder`, `OutboxTypes`.
The lemmas about `Without` (what is left of a sequence of rows when some go) come first: it keeps the order, the
rows that stay and no others, and drops the length by those that went. It counts instead of using
`SelectSeq`, of which the provers know nothing.

- `RowsInv`: a row is in one place, stems from an enqueue, and is dispatched only after its line.
- `PaidFor` is the inductive form of the bound on duplicates: an event that is in the file and may
  still be sent (`Redo`) counts as if its second line were there, because the failed call or crash
  that left it pending is counted as well.
- `OrderInv`, as long as no call failed: nothing is put off, and table, batch and file each come in
  an order in which an event follows all earlier ones of its session (`Before`).

### Ingestion and live replies

`LiveReply_proofs`, with `ReplyInv` in four parts:

- `IngestInv` (`CountIsTrue`): a message is entered and counted at most once, whatever is redelivered.
- `TaskInv` (`NoTaskIsStuck`, `EffortIsBounded`): what a task has used up at each point of its life.
  The property bounds totals; `TaskOk` says how many attempts are spent at each `fpc`, so that the
  bound holds when the last one is over.
- `ChainInv` (`OneTaskAtATime`): until `stop()` returns, the flights form one chain, each
  registered behind the one before, and only its first has begun. It is an existential over
  sequences: that two flights do not run together would not survive the end of one without it. The
  chain also carries two orders: first runs stand in it as their messages were enqueued, and of the tasks that were
  alive when `stop()` began none stands behind the flight that `stop()` awaits.
- `QueueInv` (`AnsweredInOrder`, `StopDrains`, `OneReplySlipsThrough`): what was answered comes before
  what is still due (`AnswersFirst`); before `stop()` returns, the late reply is that of the one flight
  past its second look (`LateInv`).

### The process

`ProcessLife_proofs`, with `ProcessInv` in two parts:

- `ShutdownInv` (`RunnersStayStopped`, `SignalledRepliesFinish`, `ProcessTypes`): the promise of a runner is its run
  (`PromiseIsRun`), so awaiting it is enough; what the shutdown has passed is quiet at every later
  step, not only at the last (`RunnersBehind`, `FlightsBehind`).
- `ScriptInv` (`ServesOnCompleteSchema`, `RowsAreKept`, `ScriptsAlwaysApply`): `Startable` describes
  every database file that a process can leave, wherever it was killed, and holds of `disk` at all
  times, hence for any number of restarts; `Made` says what the statements so far have made of it,
  and `WatchAhead` and `OutboxAhead` by how much the connection is ahead of it inside the two
  transactions (`Connection`).

**Model-checked only:** the liveness properties `OverdueIsClosed`, `QuestionIsAsked`,
`PendingIsDispatched`, `TaskEnds`, `NoticeResolves` and `ShutdownEnds`, because liveness under fairness and
ENABLED are out of the prover's reach. That the code violates the four properties of section 4 is
shown by TLC's counterexamples. No module uses a RECURSIVE operator.

## 6. Abstractions

- One start channel, as the program is configured; the launch channel only appears in
  messages.
- Texts, payloads, ids and timestamps are not modelled; the TTL and retry delays are
  nondeterministic (they may pass at any step).
- Awaits that write no table and whose failure is swallowed (kickoff, launch and TTL notices) are
  left out; they add no interleaving that a neighbouring await does not have.
- The scheduler's batch is not limited in `RoomLifecycle`: the channel has at most one ON
  target, so no limit cuts it.
- In `LiveReply` the count and the hand-over to the queue are one step: the code between
  them is synchronous but for the read back, whose failure is `IngestFails`.
- `LiveReply` leaves out process death, which loses the whole queue, and OpenClaw's own
  conversation state.
- `SlashResponse` leaves out the stop notice in the thread, whose failure is swallowed, and the
  flags of the response controller that make each call once: the binding makes each call once
  anyway.
- `Migrations` keeps all tables and unique indexes, one channel, and the rows the scripts could damage
  (watch targets, the messages and events that refer to them). Indexes that are not unique are left
  out: they change no answer. The UNIQUE of `event_id` is part of its table. It starts from databases
  whose last process was not in the middle of a script; the kills and restarts of `ProcessLife` then
  reach those that were.
- The initial databases include one whose index of the rounds is not unique, but none in which a
  session then has two rounds of one number: 001 drops that index and does nothing about such rows
  (`001_init.sql:45-48`), so it would stop there at every start. `EveryStartApplies` says nothing of it.

**Not modelled.** The Slack adapters and the OpenClaw bot client are single SDK calls: their callers
model them as an await that answers or throws. The worker stub builds three fixed candidates, whose
text is left out with the others. The event factory, the messages, the logger and the configuration are
pure functions of their arguments or read the environment once; no property is about their output.

## 7. Plan

Done: RoomStore, RoomLifecycle, Room with its refinement and the proof of it, OutboxDispatch,
LiveReply, QuestionTrigger, SlashResponse, Shutdown, Migrations, ProcessLife, and the proofs of
all their safety properties. Left, in this order:

1. Proofs: an abstract queue that `OutboxDispatch` implements.
2. A composition of LiveReply and RoomLifecycle through the watch target (replies after
   OFF, TTL extension by the count).
3. An abstract "never two runs" scheduler that the schedulers of the other modules and
   the runners of `Shutdown` both refine.

The twelve runs are kept few on purpose: a new module takes the place of a run whose
questions it can ask as well, as `question_trigger` does with the liveness of the expiry.

## 8. Running

    tlc -workers 2 -config lifecycle_races.cfg MCRoomLifecycle.tla
    for m in RoomLifecycle RoomRefinement RoomSafety QuestionTrigger SlashResponse \
             OutboxDispatch LiveReply ProcessLife; do tlapm ${m}_proofs.tla; done

The largest runs have about a million distinct states and take one to two minutes;
the proofs take from half a minute to a few minutes each.
