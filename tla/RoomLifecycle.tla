---------------------------- MODULE RoomLifecycle ----------------------------
(***************************************************************************)
(* The life of a room: the /room start, /room launch and /room stop        *)
(* services, the planning-mode service both of the last two call, and the  *)
(* scheduler that expires planning mode.  All of them run in one Node.js   *)
(* process; every await of a repository or Slack call is a point where the *)
(* others may run, so each command is a process with a program counter     *)
(* that moves by one awaited call.  What runs between two awaits is one    *)
(* step.  A call may fail, before or after its statement took effect       *)
(* (several repository methods write a row and then read it back), and the *)
(* process may die and restart, which keeps the tables only.               *)
(*                                                                         *)
(* Left out: the text of messages, and the awaits that write no table and  *)
(* whose failure is swallowed (kickoff notice, launch notice, TTL notice): *)
(* they add interleavings already present at the neighbouring awaits.      *)
(***************************************************************************)
EXTENDS RoomStore

CONSTANTS
  Launches,     \* the /room launch commands
  Stops,        \* the /room stop commands
  None,         \* no session
  MaxFaults,    \* bound: failing calls in a behaviour
  MaxCrashes    \* bound: process deaths in a behaviour

ASSUME CommandsAssumption ==
  /\ Sessions \cap Launches = {}
  /\ Sessions \cap Stops = {}
  /\ Launches \cap Stops = {}
  /\ None \notin Sessions

ASSUME BoundsAssumption == MaxFaults \in Nat /\ MaxCrashes \in Nat

Starts   == Sessions
Commands == Starts \cup Launches \cup Stops

VARIABLES
  pc,           \* the awaited call a command is about to make
  result,       \* its answer; while a start rolls back, the answer to come
  tgt,          \* the session a launch or stop found
  threadBound,  \* the starts whose currentStartThreadTs is the real thread
  roundNo,      \* createdRoundNo of a launch, 0 for null
  xpc,          \* the expire scheduler: "idle" or the call it is about to make
  xbatch,       \* targets of its batch that are still to be processed
  xcur,         \* the target it is processing
  faults,       \* number of failed calls so far
  crashes,      \* number of process deaths so far
  overlapped,   \* history: sessions some command found while their start ran
  lost          \* history: sessions for which a fault or crash lost a
                \* compensating write or the OFF event

commandVars   == <<pc, result, tgt, threadBound, roundNo>>
schedulerVars == <<xpc, xbatch, xcur>>
boundVars     == <<faults, crashes>>
historyVars   == <<overlapped, lost>>
vars == <<tables, commandVars, schedulerVars, boundVars, historyVars>>

StartTry   == {"bind", "briefing", "watch", "announce"}
LaunchTry  == {"meta", "round", "launchThread", "findOn", "turnOff", "offEvent"}
LaunchCore == LaunchTry \cup {"sync", "undo", "release"}
StartPCs   == StartTry \cup {"idle", "reserve", "rollback", "done"}
LaunchPCs  == LaunchCore \cup {"idle", "ready", "claim", "done"}
StopPCs    == {"idle", "findOn", "turnOff", "offEvent", "decide", "done"}
ExpirePCs  == {"idle", "load", "decide", "turnOff", "offEvent"}
Answers    == {"OK", "ROOM_ALREADY_RUNNING", "ROOM_NO_ACTIVE_SESSION",
               "ROOM_INVALID_STATE_TRANSITION", "ROOM_INTERNAL_ERROR", "CRASHED"}

TypeOK ==
  /\ StoreTypeOK
  /\ pc \in [Commands -> StartPCs \cup LaunchPCs \cup StopPCs]
  /\ \A c \in Commands :
       pc[c] \in IF c \in Starts THEN StartPCs
                 ELSE IF c \in Launches THEN LaunchPCs ELSE StopPCs
  /\ result \in [Commands -> Answers \cup {"pending"}]
  /\ tgt \in [Launches \cup Stops -> Sessions \cup {None}]
  /\ threadBound \subseteq Starts
  /\ roundNo \in [Launches -> Nat]
  /\ xpc \in ExpirePCs
  /\ xbatch \subseteq Sessions
  /\ xcur \in Sessions \cup {None}
  /\ faults \in Nat
  /\ crashes \in Nat
  /\ overlapped \subseteq Sessions
  /\ lost \subseteq Sessions

Init ==
  /\ StoreInit
  /\ pc = [c \in Commands |-> "idle"]
  /\ result = [c \in Commands |-> "pending"]
  /\ tgt = [c \in Launches \cup Stops |-> None]
  /\ threadBound = {}
  /\ roundNo = [l \in Launches |-> 0]
  /\ xpc = "idle"
  /\ xbatch = {}
  /\ xcur = None
  /\ faults = 0
  /\ crashes = 0
  /\ overlapped = {}
  /\ lost = {}

-----------------------------------------------------------------------------
(* Control of a command.                                                    *)

SessionOf(c)  == IF c \in Starts THEN c ELSE tgt[c]
InFlight(c)   == pc[c] \notin {"idle", "done"}
At(c, label)  == pc[c] = label

Goto(c, label) ==
  /\ pc' = [pc EXCEPT ![c] = label]
  /\ UNCHANGED result

Answer(c, r) ==
  /\ pc' = [pc EXCEPT ![c] = "done"]
  /\ result' = [result EXCEPT ![c] = r]

\* Faulty variant: a launch that has no round yet is not rolled back.
HandlerForgettingClaim(c) ==
  CASE c \in Starts /\ pc[c] \in StartTry -> "rollback"
    [] c \in Launches /\ pc[c] \in LaunchTry ->
         IF roundNo[c] = 0 THEN "done" ELSE "undo"
    [] pc[c] = "sync" -> "findOn"
    [] pc[c] = "undo" -> "release"
    [] OTHER -> "done"

\* Where an exception thrown by the current call is caught: the catch block of
\* start, the one of launch (which deletes the round it knows of first), the
\* swallowed failure of the launch thread sync and of the round cleanup, or
\* nowhere.
HandlerOf(c) ==
  CASE c \in Starts /\ pc[c] \in StartTry -> "rollback"
    [] c \in Launches /\ pc[c] \in LaunchTry ->
         IF roundNo[c] = 0 THEN "release" ELSE "undo"
    [] pc[c] = "sync" -> "findOn"
    [] pc[c] = "undo" -> "release"
    [] OTHER -> "done"

\* The current call of c throws: an error the catch blocks keep (the failures
\* of the sync and of a start's rollback are only logged).
Throw(c, error) ==
  /\ pc' = [pc EXCEPT ![c] = HandlerOf(c)]
  /\ result' = IF pc[c] \in {"sync", "rollback"} THEN result
               ELSE [result EXCEPT ![c] = error]

ThrowInternal(c) == Throw(c, "ROOM_INTERNAL_ERROR")

\* A launch or stop has found session s; s is overlapped if its start still runs.
Found(c, s) ==
  /\ tgt' = [tgt EXCEPT ![c] = s]
  /\ overlapped' = IF InFlight(s) THEN overlapped \cup {s} ELSE overlapped

\* What no step of a command changes unless it says so.
Frame == UNCHANGED <<schedulerVars, boundVars, lost>>

-----------------------------------------------------------------------------
(* /room start (StartRoomSessionService.execute).                           *)

StartFrame == Frame /\ UNCHANGED <<tgt, roundNo, overlapped>>

StartFind(a) ==
  /\ At(a, "idle")
  /\ IF Active # {} THEN Answer(a, "ROOM_ALREADY_RUNNING") ELSE Goto(a, "reserve")
  /\ UNCHANGED <<tables, threadBound>> /\ StartFrame

\* The INSERT may still meet the unique index: another start got there first.
StartReserve(a) ==
  /\ At(a, "reserve")
  /\ IF MayInsertSession
     THEN InsertPreparedSession(a) /\ Goto(a, "bind")
     ELSE Answer(a, "ROOM_ALREADY_RUNNING") /\ UNCHANGED tables
  /\ UNCHANGED threadBound /\ StartFrame

\* createThread and the UPDATE: two awaits, one step, because the Slack call
\* writes no table and fails into the same handler.  currentStartThreadTs is
\* assigned once the UPDATE has returned.
StartBindThread(a) ==
  /\ At(a, "bind")
  /\ IF IsPrepared(a)
     THEN /\ UpdateStartThread(a) /\ Goto(a, "briefing")
          /\ threadBound' = threadBound \cup {a}
     ELSE ThrowInternal(a) /\ UNCHANGED <<tables, threadBound>>
  /\ StartFrame

\* The foreign key holds: only this start can delete its own session.
StartSaveBriefing(a) ==
  /\ At(a, "briefing")
  /\ InsertBriefing(a)
  /\ Goto(a, "watch")
  /\ UNCHANGED threadBound /\ StartFrame

\* turnOnPlanningRoomMode, first await.  It uses the session read at the bind.
StartTurnOnWatch(a) ==
  /\ At(a, "watch")
  /\ IF MayInsertWatch
     THEN InsertWatchTarget(a) /\ Goto(a, "announce")
     ELSE Throw(a, "ROOM_ALREADY_RUNNING") /\ UNCHANGED tables
  /\ UNCHANGED threadBound /\ StartFrame

\* turnOnPlanningRoomMode, second await.
StartAnnounceOn(a) ==
  /\ At(a, "announce")
  /\ EnqueueEvent(a, "ON")
  /\ Answer(a, "OK")
  /\ UNCHANGED threadBound /\ StartFrame

DeleteAnyState(a) ==                                  \* faulty variant
  startThread[a] = (IF a \in threadBound THEN "BOUND" ELSE "PENDING")

\* deleteReservedPreparedSession with the thread the start knows of, then with
\* the PENDING marker.
DeleteOnlyPending(a) ==                               \* faulty variant
  IsPrepared(a) /\ startThread[a] = "PENDING"

MayDeleteReserved(a) ==
  /\ IsPrepared(a)
  /\ \/ startThread[a] = (IF a \in threadBound THEN "BOUND" ELSE "PENDING")
     \/ startThread[a] = "PENDING"

StartRollback(a) ==
  /\ At(a, "rollback")
  /\ IF MayDeleteReserved(a) THEN DeleteSession(a) ELSE UNCHANGED tables
  /\ Goto(a, "done")
  /\ UNCHANGED threadBound /\ StartFrame

StartStep(a) ==
  \/ StartFind(a) \/ StartReserve(a) \/ StartBindThread(a)
  \/ StartSaveBriefing(a) \/ StartTurnOnWatch(a) \/ StartAnnounceOn(a)
  \/ StartRollback(a)

-----------------------------------------------------------------------------
(* /room launch (LaunchRoomSessionService.execute).                         *)

LaunchFrame == Frame /\ UNCHANGED <<tgt, threadBound, overlapped>>

\* ensureActiveSession, ensureLaunchableState and the start thread check run on
\* the row just read.
LaunchFind(l) ==
  /\ At(l, "idle")
  /\ \/ /\ Active = {}
        /\ Answer(l, "ROOM_NO_ACTIVE_SESSION")
        /\ UNCHANGED <<tgt, overlapped>>
     \/ \E s \in Active :
          /\ Found(l, s)
          /\ IF IsPrepared(s) /\ startThread[s] = "BOUND"
             THEN Goto(l, "ready")
             ELSE Answer(l, "ROOM_INVALID_STATE_TRANSITION")
  /\ UNCHANGED <<tables, threadBound, roundNo>> /\ Frame

LaunchEnsureReady(l) ==
  /\ At(l, "ready")
  /\ IF tgt[l] \in briefings
     THEN Goto(l, "claim")
     ELSE Answer(l, "ROOM_INVALID_STATE_TRANSITION")
  /\ UNCHANGED <<tables, roundNo>> /\ LaunchFrame

ClaimAnyActive(l) ==                                  \* faulty variant
  /\ At(l, "claim")
  /\ IF IsActive(tgt[l])
     THEN ClaimPreparedSession(tgt[l]) /\ Goto(l, "meta")
     ELSE Answer(l, "ROOM_INVALID_STATE_TRANSITION") /\ UNCHANGED tables
  /\ UNCHANGED roundNo /\ LaunchFrame

LaunchClaim(l) ==
  /\ At(l, "claim")
  /\ IF IsPrepared(tgt[l])
     THEN ClaimPreparedSession(tgt[l]) /\ Goto(l, "meta")
     ELSE Answer(l, "ROOM_INVALID_STATE_TRANSITION") /\ UNCHANGED tables
  /\ UNCHANGED roundNo /\ LaunchFrame

LaunchReserveMetadata(l) ==
  /\ At(l, "meta")
  /\ IF IsRunning(tgt[l])
     THEN UpdateLaunchThread(tgt[l], "PENDING") /\ Goto(l, "round")
     ELSE ThrowInternal(l) /\ UNCHANGED tables
  /\ UNCHANGED roundNo /\ LaunchFrame

\* findLatestBySessionId and createRound: two awaits, one step, because the
\* claim keeps every other writer of this session's rounds away (LaunchExclusive).
LaunchCreateRound(l) ==
  /\ At(l, "round")
  /\ \E n \in NextRoundNo(tgt[l]) :
       /\ InsertRound(tgt[l], n)
       /\ roundNo' = [roundNo EXCEPT ![l] = n]
  /\ Goto(l, "launchThread")
  /\ LaunchFrame

LaunchCreateThread(l) ==
  /\ At(l, "launchThread")
  /\ Goto(l, "sync")
  /\ UNCHANGED <<tables, roundNo>> /\ LaunchFrame

SyncEndsLaunch(l) ==                                  \* faulty variant
  /\ At(l, "sync")
  /\ IF IsRunning(tgt[l])
     THEN UpdateLaunchThread(tgt[l], "BOUND") /\ Goto(l, "findOn")
     ELSE Answer(l, "OK") /\ UNCHANGED tables
  /\ UNCHANGED roundNo /\ LaunchFrame

\* Best effort: an UPDATE that matches no RUNNING row is only logged.
LaunchSyncThread(l) ==
  /\ At(l, "sync")
  /\ Goto(l, "findOn")
  /\ IF IsRunning(tgt[l])
     THEN UpdateLaunchThread(tgt[l], "BOUND")
     ELSE UNCHANGED tables
  /\ UNCHANGED roundNo /\ LaunchFrame

\* The catch block, first await: delete the round this launch created.
LaunchUndoRound(l) ==
  /\ At(l, "undo")
  /\ DeleteRound(tgt[l], roundNo[l])
  /\ Goto(l, "release")
  /\ UNCHANGED roundNo /\ LaunchFrame

ReleaseAnyState(l) ==                                 \* faulty variant
  /\ At(l, "release")
  /\ ReleaseLaunchClaim(tgt[l])
  /\ Goto(l, "done")
  /\ UNCHANGED roundNo /\ LaunchFrame

\* The catch block, second await: rollbackLaunchClaim, whose own failure is the
\* one reported; either way the user sees an internal error.
LaunchRelease(l) ==
  /\ At(l, "release")
  /\ IF IsRunning(tgt[l]) THEN ReleaseLaunchClaim(tgt[l]) ELSE UNCHANGED tables
  /\ Goto(l, "done")
  /\ UNCHANGED roundNo /\ LaunchFrame

-----------------------------------------------------------------------------
(* turnOffPlanningRoomMode (ManageRoomModeService), called by launch and    *)
(* stop: three awaits and a second read of the row that was turned off.     *)

ModeFrame == Frame /\ UNCHANGED <<tgt, threadBound, roundNo, overlapped>>

ReasonOf(c)   == IF c \in Launches THEN "LAUNCH" ELSE "MANUAL"

\* What the caller does when planning mode is off.
AfterModeOff(c) == IF c \in Launches THEN Answer(c, "OK") ELSE Goto(c, "decide")

ModeFindOn(c) ==
  /\ At(c, "findOn")
  /\ IF IsWatched(tgt[c]) THEN Goto(c, "turnOff") ELSE AfterModeOff(c)
  /\ UNCHANGED tables /\ ModeFrame

TurnOffAnyStatus(c) ==                                \* faulty variant
  /\ At(c, "turnOff")
  /\ TurnOffWatchTarget(tgt[c], ReasonOf(c))
  /\ Goto(c, "offEvent")
  /\ ModeFrame

\* UPDATE ... WHERE status = 'ON': no row means somebody else turned it off.
ModeTurnOff(c) ==
  /\ At(c, "turnOff")
  /\ IF IsWatched(tgt[c])
     THEN TurnOffWatchTarget(tgt[c], ReasonOf(c)) /\ Goto(c, "offEvent")
     ELSE AfterModeOff(c) /\ UNCHANGED tables
  /\ ModeFrame

\* The re-read and the INSERT into the outbox both fail when a start's rollback
\* has deleted the session, and the rows that depend on it, in between.
ModeAnnounceOff(c) ==
  /\ At(c, "offEvent")
  /\ IF RowExists(tgt[c])
     THEN EnqueueEvent(tgt[c], "OFF") /\ AfterModeOff(c)
     ELSE ThrowInternal(c) /\ UNCHANGED tables
  /\ ModeFrame

ModeStep(c) == ModeFindOn(c) \/ ModeTurnOff(c) \/ ModeAnnounceOff(c)

LaunchStep(l) ==
  \/ LaunchFind(l) \/ LaunchEnsureReady(l) \/ LaunchClaim(l)
  \/ LaunchReserveMetadata(l) \/ LaunchCreateRound(l) \/ LaunchCreateThread(l)
  \/ LaunchSyncThread(l) \/ ModeStep(l) \/ LaunchUndoRound(l) \/ LaunchRelease(l)

-----------------------------------------------------------------------------
(* /room stop (StopRoomSessionService.execute).                             *)

StopFind(p) ==
  /\ At(p, "idle")
  /\ \/ /\ Active = {}
        /\ Answer(p, "ROOM_NO_ACTIVE_SESSION")
        /\ UNCHANGED <<tgt, overlapped>>
     \/ \E s \in Active : Found(p, s) /\ Goto(p, "findOn")
  /\ UNCHANGED <<tables, threadBound, roundNo>> /\ Frame

StopDecide(p) ==
  /\ At(p, "decide")
  /\ IF IsActive(tgt[p])
     THEN UpdateToDecided(tgt[p]) /\ Answer(p, "OK")
     ELSE ThrowInternal(p) /\ UNCHANGED tables
  /\ ModeFrame

StopStep(p) == StopFind(p) \/ ModeStep(p) \/ StopDecide(p)

-----------------------------------------------------------------------------
(* The expire scheduler (ExpireRoomModeService.execute), one run at a time. *)

ExpireFrame == UNCHANGED <<commandVars, boundVars, historyVars>>

NextTarget ==
  /\ xbatch' = xbatch \ {xcur}
  /\ xcur' = None
  /\ xpc' = IF xbatch \ {xcur} = {} THEN "idle" ELSE "load"

AbortBatch == xpc' = "idle" /\ xbatch' = {} /\ xcur' = None

ExpireScan ==
  /\ xpc = "idle"
  /\ xbatch' = overdue
  /\ xpc' = IF overdue = {} THEN "idle" ELSE "load"
  /\ UNCHANGED <<tables, xcur>> /\ ExpireFrame

LoadSkippingDecided ==                                \* faulty variant
  /\ xpc = "load"
  /\ \E s \in xbatch :
       IF IsActive(s)
       THEN xpc' = "decide" /\ xcur' = s /\ UNCHANGED xbatch
       ELSE /\ xbatch' = xbatch \ {s}
            /\ xpc' = IF xbatch \ {s} = {} THEN "idle" ELSE "load"
            /\ UNCHANGED xcur
  /\ UNCHANGED tables /\ ExpireFrame

\* findById picks the branch; a vanished session took its target with it, so
\* turning that target off finds no row.
ExpireLoad ==
  /\ xpc = "load"
  /\ \E s \in xbatch :
       IF RowExists(s)
       THEN /\ xpc' = IF IsActive(s) THEN "decide" ELSE "turnOff"
            /\ xcur' = s
            /\ UNCHANGED xbatch
       ELSE /\ xbatch' = xbatch \ {s}
            /\ xpc' = IF xbatch \ {s} = {} THEN "idle" ELSE "load"
            /\ UNCHANGED xcur
  /\ UNCHANGED tables /\ ExpireFrame

\* finalizeSessionForTtl: when the UPDATE finds the session no longer active it
\* reloads it; DECIDED by somebody else is as good, anything else aborts the run.
ExpireDecide ==
  /\ xpc = "decide"
  /\ \/ /\ IsActive(xcur)
        /\ UpdateToDecided(xcur)
        /\ xpc' = "turnOff" /\ UNCHANGED <<xbatch, xcur>>
     \/ /\ ~IsActive(xcur) /\ RowExists(xcur)
        /\ xpc' = "turnOff" /\ UNCHANGED <<tables, xbatch, xcur>>
     \/ /\ ~RowExists(xcur)
        /\ AbortBatch /\ UNCHANGED tables
  /\ ExpireFrame

ExpireTurnOff ==
  /\ xpc = "turnOff"
  /\ IF IsWatched(xcur)
     THEN TurnOffWatchTarget(xcur, "TTL") /\ xpc' = "offEvent" /\ UNCHANGED <<xbatch, xcur>>
     ELSE NextTarget /\ UNCHANGED tables
  /\ ExpireFrame

ExpireAnnounceOff ==
  /\ xpc = "offEvent"
  /\ EnqueueEvent(xcur, "OFF")
  /\ NextTarget
  /\ ExpireFrame

ExpireStep ==
  \/ ExpireScan \/ ExpireLoad \/ ExpireDecide \/ ExpireTurnOff \/ ExpireAnnounceOff

-----------------------------------------------------------------------------
(* Messages and time; failing calls; the process dying.                     *)

NoCommandMoves == UNCHANGED <<commandVars, schedulerVars, boundVars, historyVars>>

\* IngestRoomThreadMessageService refreshes the TTL of the target it found ON.
MessageArrives(s) ==
  /\ IsWatched(s) /\ s \in overdue
  /\ IncrementMessageCount(s)
  /\ NoCommandMoves

TimePasses(s) ==
  /\ IsWatched(s) /\ s \notin overdue
  /\ TtlPasses(s)
  /\ NoCommandMoves

FaultFrame == /\ faults < MaxFaults
              /\ faults' = faults + 1
              /\ UNCHANGED <<tgt, threadBound, roundNo, crashes, overlapped>>

\* The call a command is at throws without having written.
CallFails(c) ==
  /\ pc[c] # "done"
  /\ ThrowInternal(c)
  /\ lost' = IF pc[c] \in {"rollback", "undo", "release", "offEvent"}
             THEN lost \cup {SessionOf(c)} ELSE lost
  /\ FaultFrame /\ UNCHANGED <<tables, schedulerVars>>

\* The write took effect and the read back throws.  The service cannot tell:
\* start does not know its reservation or thread, launch not its round, and
\* nobody enqueues the OFF event.
WriteOf(c) ==
  \/ At(c, "reserve") /\ MayInsertSession /\ InsertPreparedSession(c)
  \/ At(c, "bind") /\ IsPrepared(c) /\ UpdateStartThread(c)
  \/ At(c, "briefing") /\ InsertBriefing(c)
  \/ At(c, "watch") /\ MayInsertWatch /\ InsertWatchTarget(c)
  \/ At(c, "meta") /\ IsRunning(tgt[c]) /\ UpdateLaunchThread(tgt[c], "PENDING")
  \/ At(c, "round") /\ \E n \in NextRoundNo(tgt[c]) : InsertRound(tgt[c], n)
  \/ At(c, "sync") /\ IsRunning(tgt[c]) /\ UpdateLaunchThread(tgt[c], "BOUND")
  \/ At(c, "turnOff") /\ IsWatched(tgt[c]) /\ TurnOffWatchTarget(tgt[c], ReasonOf(c))
  \/ At(c, "decide") /\ IsActive(tgt[c]) /\ UpdateToDecided(tgt[c])

ReadBackFails(c) ==
  /\ WriteOf(c)
  /\ ThrowInternal(c)
  /\ lost' = IF pc[c] \in {"reserve", "bind", "round", "turnOff"}
             THEN lost \cup {SessionOf(c)} ELSE lost
  /\ FaultFrame /\ UNCHANGED schedulerVars

\* A failing call ends the scheduler's run; the next interval scans again.
ExpireFails ==
  /\ xpc # "idle"
  /\ AbortBatch
  /\ \/ /\ UNCHANGED tables
        /\ lost' = IF xpc = "offEvent" THEN lost \cup {xcur} ELSE lost
     \/ /\ xpc = "turnOff" /\ IsWatched(xcur)
        /\ TurnOffWatchTarget(xcur, "TTL")
        /\ lost' = lost \cup {xcur}
  /\ FaultFrame /\ UNCHANGED <<pc, result>>

\* Death and restart: the tables survive, the commands and the scheduler's run
\* do not.  Shutdown closes the database under commands it does not wait for,
\* which is the same.
Crash ==
  /\ crashes < MaxCrashes
  /\ crashes' = crashes + 1
  /\ pc' = [c \in Commands |-> IF InFlight(c) THEN "done" ELSE pc[c]]
  /\ result' = [c \in Commands |-> IF InFlight(c) THEN "CRASHED" ELSE result[c]]
  /\ lost' = lost \cup {SessionOf(c) : c \in {d \in Commands : At(d, "offEvent")}}
                  \cup (IF xpc = "offEvent" THEN {xcur} ELSE {})
  /\ AbortBatch
  /\ UNCHANGED <<tables, tgt, threadBound, roundNo, faults, overlapped>>

Next ==
  \/ \E a \in Starts : StartStep(a)
  \/ \E l \in Launches : LaunchStep(l)
  \/ \E p \in Stops : StopStep(p)
  \/ ExpireStep
  \/ \E s \in Sessions : MessageArrives(s) \/ TimePasses(s)
  \/ \E c \in Commands : CallFails(c) \/ ReadBackFails(c)
  \/ ExpireFails
  \/ Crash

Spec == Init /\ [][Next]_vars

-----------------------------------------------------------------------------
(* Safety.                                                                  *)

\* The channel has one active session at most, whatever starts race (the check
\* before the reservation is stale by the time of the INSERT).
AtMostOneActive == \A s, t \in Active : s = t

\* The channel has one ON watch target at most.
AtMostOneWatching == \A s, t \in Watching : s = t

\* Between its claim and its answer a launch is alone on its session: no second
\* launch claims it, stop and expiry only ever end it.
LaunchExclusive ==
  \A k, l \in Launches :
    /\ pc[k] \in LaunchCore /\ pc[l] \in LaunchCore
    /\ tgt[k] = tgt[l]
    => k = l

\* A session offered to launch carries nothing of a launch that was undone, and
\* no launch still works on it, unless a fault hit the clean-up.
PreparedIsClean ==
  \A s \in Sessions : IsPrepared(s) =>
    /\ launchThread[s] = "NULL"
    /\ rounds[s] # {} => s \in lost
    /\ ~\E l \in Launches : pc[l] \in LaunchCore /\ tgt[l] = s

\* A launch that answered success has its round, in a session that still exists
\* and never goes back to PREPARED.
LaunchedKeepsRound ==
  \A l \in Launches : result[l] = "OK" =>
    /\ roundNo[l] \in rounds[tgt[l]]
    /\ state[tgt[l]] \in {"RUNNING", "DECIDED"}

\* A session is RUNNING on behalf of a launch: one in progress, one that
\* succeeded, or one a crash or a failing rollback cut short.
RunningHasLaunch ==
  \A s \in Sessions : IsRunning(s) =>
    \E l \in Launches :
      /\ tgt[l] = s
      /\ pc[l] \in LaunchCore \/ result[l] \in {"OK", "CRASHED"} \/ s \in lost

\* A start that answered an error has left no reservation that blocks the
\* channel, unless another command found the session meanwhile or a fault hit
\* the read back or the rollback.
FailedStartLeavesNothing ==
  \A a \in Starts :
    /\ At(a, "done") /\ result[a] \in {"ROOM_ALREADY_RUNNING", "ROOM_INTERNAL_ERROR"}
    /\ IsPrepared(a)
    => a \in overlapped \cup lost

\* A launch or stop that answered success has closed planning mode, provided
\* the start of that session had returned before the command looked it up.
SuccessClosesWatch ==
  \A c \in Launches \cup Stops :
    result[c] = "OK" /\ tgt[c] \notin overlapped => ~IsWatched(tgt[c])

OffEvents(s) == {i \in 1..Len(outbox[s]) : outbox[s][i] = "OFF"}

AnnouncingOff(s) ==
  \/ \E c \in Launches \cup Stops : At(c, "offEvent") /\ tgt[c] = s
  \/ xpc = "offEvent" /\ xcur = s

\* Of a launch, a stop and the TTL that all turn the same target off, exactly
\* one announces it: never two OFF events, and one unless a fault or crash fell
\* between the UPDATE and the INSERT.
OffAnnouncedOnce ==
  \A s \in Sessions :
    /\ Cardinality(OffEvents(s)) <= 1
    /\ watch[s] \in OffReasons => OffEvents(s) # {} \/ AnnouncingOff(s) \/ s \in lost

\* DECIDED is final: no rollback, late launch or expiry revives or deletes a
\* session that was ended.
DecidedIsFinal ==
  [][\A s \in Sessions : state[s] = "DECIDED" => state'[s] = "DECIDED"]_vars

-----------------------------------------------------------------------------
(* What the documents say and the code does not do in every interleaving.   *)

\* COMMAND_SPEC: /room stop ends the session and turns planning mode off.  A
\* stop that overtakes the start of its session finds no ON target to turn off;
\* the start then inserts one for the session that was stopped.
StopClosesRoom ==
  \A p \in Stops : result[p] = "OK" => ~IsWatched(tgt[p])

\* Standards 2.5: the answer to a command does not contradict the persisted
\* state.  A launch answers success for a session that was decided meanwhile.
LaunchAnswerMatchesState ==
  [][\A l \in Launches :
       result[l] = "pending" /\ result'[l] = "OK" => state'[tgt[l]] = "RUNNING"]_vars

\* Standards 2.5: a failure after the claim is compensated.  A launch that fails
\* after it turned planning mode off gives the session back without it.
LaunchRollbackRestoresPlanning ==
  \A l \in Launches :
    /\ At(l, "done") /\ result[l] = "ROOM_INTERNAL_ERROR"
    /\ tgt[l] \in Sessions /\ IsPrepared(tgt[l])
    => watch[tgt[l]] # "LAUNCH"

-----------------------------------------------------------------------------
(* Liveness.                                                                *)

\* A watch target that is overdue does not stay so: it is closed, or a message
\* refreshes it.
OverdueIsClosed ==
  \A s \in Sessions : s \in overdue ~> s \notin overdue
=============================================================================
