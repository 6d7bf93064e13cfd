------------------------- MODULE SlashResponse_proofs -------------------------
(* What the user of /room is told is true, for any number of commands,      *)
(* faults and crashes.  The room's part says what the answer of a command   *)
(* that is over stands for: success for an effect that lasts, an error for  *)
(* nothing left behind.  The notices' part says that a notice follows the   *)
(* answer of its own command.  The room's part is an invariant of           *)
(* RoomLifecycle and is proved there first.                                 *)
EXTENDS SlashResponse, RoomSafety_proofs

-----------------------------------------------------------------------------
(* The rows of a session are only deleted by the rollback of its own start. *)

RowsKept(s) ==
  /\ RowExists(s) => RowExists(s)'
  /\ startThread[s] = "BOUND" => startThread'[s] = "BOUND"
  /\ s \in briefings => s \in briefings'
  /\ watch[s] # "NONE" => watch'[s] # "NONE"

LEMMA StatementKeepsRows ==
  ASSUME StoreTypeOK, NEW s \in Sessions,
         \/ UNCHANGED tables
         \/ InsertPreparedSession(s) \/ UpdateStartThread(s) \/ ClaimPreparedSession(s)
         \/ \E ts \in {"PENDING", "BOUND"} : UpdateLaunchThread(s, ts)
         \/ ReleaseLaunchClaim(s) \/ UpdateToDecided(s) \/ InsertBriefing(s)
         \/ \E n \in Nat : InsertRound(s, n) \/ DeleteRound(s, n)
         \/ InsertWatchTarget(s) \/ \E r \in OffReasons : TurnOffWatchTarget(s, r)
         \/ \E e \in ModeEvents : EnqueueEvent(s, e)
         \/ IncrementMessageCount(s) \/ TtlPasses(s)
  PROVE  \A t \in Sessions : RowsKept(t)
<1> USE DEF tables, sessionTable, RowsKept, RowExists
<1>1. /\ state \in [Sessions -> SessionStates \cup {"ABSENT"}]
      /\ startThread \in [Sessions -> {"PENDING", "BOUND"}]
      /\ watch \in [Sessions -> OffReasons \cup {"NONE", "ON"}]
  BY DEF StoreTypeOK
<1>2. CASE UNCHANGED <<state, startThread, briefings, watch>>
  BY <1>2
<1>3. CASE \/ InsertPreparedSession(s) \/ ClaimPreparedSession(s) \/ ReleaseLaunchClaim(s)
           \/ UpdateToDecided(s) \/ UpdateStartThread(s) \/ InsertBriefing(s)
  BY <1>1, <1>3 DEF InsertPreparedSession, ClaimPreparedSession, ReleaseLaunchClaim, UpdateToDecided,
     UpdateStartThread, InsertBriefing
<1>4. CASE InsertWatchTarget(s) \/ \E r \in OffReasons : TurnOffWatchTarget(s, r)
  BY <1>1, <1>4 DEF InsertWatchTarget, TurnOffWatchTarget, OffReasons
<1> QED
  BY <1>2, <1>3, <1>4 DEF UpdateLaunchThread, InsertRound, DeleteRound, EnqueueEvent,
     IncrementMessageCount, TtlPasses

LEMMA StartKeepsRows ==
  ASSUME TypeInv, NEW a \in Starts, StartStep(a)
  PROVE  \A t \in Sessions : RowsKept(t) \/ (t = a /\ pc[t] = "rollback")
<1> USE StatementKeepsRows DEF TypeInv, Starts
<1>1. CASE StartRollback(a)
  <2>1. CASE UNCHANGED tables
    BY <2>1
  <2>2. CASE DeleteSession(a)
    BY <1>1, <2>2 DEF StartRollback, DeleteSession, RowsKept, RowExists, At, StoreTypeOK
  <2> QED BY <1>1, <2>1, <2>2 DEF StartRollback
<1>2. CASE StartFind(a) \/ StartReserve(a) \/ StartBindThread(a) \/ StartSaveBriefing(a)
  BY <1>2 DEF StartFind, StartReserve, StartBindThread, StartSaveBriefing
<1>3. CASE StartTurnOnWatch(a) \/ StartAnnounceOn(a)
  BY <1>3 DEF StartTurnOnWatch, StartAnnounceOn, ModeEvents
<1> QED BY <1>1, <1>2, <1>3 DEF StartStep

LEMMA FinderKeepsRows ==
  ASSUME TypeInv, NEW c \in Finders, ModeStep(c) \/ LaunchStep(c) \/ StopStep(c)
  PROVE  \A t \in Sessions : RowsKept(t)
<1> USE StatementKeepsRows DEF TypeInv
<1>1. InFlight(c) => tgt[c] \in Sessions
  BY DEF ControlInv, TargetKnown, Finders
<1>2. ReasonOf(c) \in OffReasons
  BY DEF ReasonOf, OffReasons
<1>3. CASE ModeStep(c)
  BY <1>1, <1>2, <1>3 DEF ModeStep, ModeFindOn, ModeTurnOff, ModeAnnounceOff, InFlight, At, ModeEvents
<1>4. CASE StopStep(c) /\ ~ModeStep(c)
  BY <1>1, <1>4 DEF StopStep, StopFind, StopDecide, InFlight, At
<1>5. CASE LaunchFind(c) \/ LaunchEnsureReady(c) \/ LaunchClaim(c) \/ LaunchReserveMetadata(c)
  BY <1>1, <1>5 DEF LaunchFind, LaunchEnsureReady, LaunchClaim, LaunchReserveMetadata, InFlight, At
<1>6. CASE LaunchCreateRound(c) \/ LaunchUndoRound(c)
  <2>1. \/ InsertRound(tgt[c], roundNo'[c]) /\ UNCHANGED <<state, startThread, briefings, watch>>
        \/ UNCHANGED <<state, startThread, briefings, watch>>
    BY <1>6 DEF LaunchCreateRound, LaunchUndoRound, InsertRound, DeleteRound, sessionTable
  <2> QED BY <2>1 DEF RowsKept, RowExists
<1>7. CASE LaunchCreateThread(c) \/ LaunchSyncThread(c) \/ LaunchRelease(c)
  BY <1>1, <1>7 DEF LaunchCreateThread, LaunchSyncThread, LaunchRelease, InFlight, At
<1> QED BY <1>3, <1>4, <1>5, <1>6, <1>7 DEF LaunchStep

LEMMA NextKeepsRows ==
  ASSUME TypeInv, [Next]_vars
  PROVE  \A t \in Sessions : RowsKept(t) \/ pc[t] = "rollback"
<1>1. CASE UNCHANGED tables
  BY <1>1, StatementKeepsRows DEF TypeInv, RowsKept, RowExists, tables
<1>2. CASE ExpireStep \/ ExpireFails
  <2>1. xpc \in {"decide", "turnOff", "offEvent"} => xcur \in Sessions
    BY DEF TypeInv, ControlInv, CursorKnown
  <2>2. \/ UNCHANGED tables
        \/ /\ xcur \in Sessions
           /\ \/ UpdateToDecided(xcur)
              \/ \E r \in OffReasons : TurnOffWatchTarget(xcur, r)
              \/ \E e \in ModeEvents : EnqueueEvent(xcur, e)
    BY <1>2, <2>1 DEF ExpireStep, ExpireScan, ExpireLoad, ExpireDecide, ExpireTurnOff, ExpireAnnounceOff,
       ExpireFails, OffReasons, ModeEvents
  <2> QED BY <1>1, <2>2, StatementKeepsRows DEF TypeInv
<1>3. CASE \E s \in Sessions : MessageArrives(s) \/ TimePasses(s)
  BY <1>3, StatementKeepsRows DEF MessageArrives, TimePasses, TypeInv
<1>4. ASSUME NEW c \in Commands, CallFails(c) \/ ReadBackFails(c)
      PROVE  \A t \in Sessions : RowsKept(t)
  <2>1. CASE CallFails(c)
    BY <2>1, StatementKeepsRows DEF CallFails, TypeInv, RowsKept, RowExists, tables
  <2>2. CASE ReadBackFails(c)
    <3>1. pc[c] \in PCsOf(c)
      BY DEF TypeInv, ControlInv, PCsOf
    <3>2. pc[c] \in {"reserve", "bind", "briefing", "watch"} => c \in Sessions
      BY <3>1 DEF PCsOf, LaunchPCs, LaunchCore, LaunchTry, StopPCs, Starts
    <3>3. pc[c] \in {"meta", "sync", "turnOff", "decide"} => tgt[c] \in Sessions
      BY <3>1 DEF PCsOf, StartPCs, StartTry, Commands, TypeInv, ControlInv, TargetKnown, InFlight
    <3>4. ReasonOf(c) \in OffReasons
      BY DEF ReasonOf, OffReasons
    <3>5. CASE At(c, "round")
      <4>1. UNCHANGED <<state, startThread, briefings, watch>>
        BY <2>2, <3>5 DEF ReadBackFails, WriteOf, At, InsertRound, sessionTable
      <4> QED BY <4>1 DEF RowsKept, RowExists
    <3>6. CASE ~At(c, "round")
      BY <2>2, <3>2, <3>3, <3>4, <3>6, StatementKeepsRows DEF ReadBackFails, WriteOf, At, TypeInv
    <3> QED BY <3>5, <3>6
  <2> QED BY <1>4, <2>1, <2>2
<1>5. CASE UNCHANGED vars \/ Crash
  BY <1>1, <1>5 DEF vars, Crash
<1>6. ASSUME NEW l \in Launches, LaunchStep(l) PROVE \A t \in Sessions : RowsKept(t)
  BY <1>6, FinderKeepsRows DEF Finders
<1>7. ASSUME NEW p \in Stops, StopStep(p) PROVE \A t \in Sessions : RowsKept(t)
  BY <1>7, FinderKeepsRows DEF Finders
<1> QED BY <1>2, <1>3, <1>4, <1>5, <1>6, <1>7, StartKeepsRows DEF Next

-----------------------------------------------------------------------------
(* A command is moved by its own steps and failures, and by a crash; what a *)
(* command that is over answered, and the session it found, stay.           *)

Untouched(c) == /\ pc'[c] = pc[c] /\ result'[c] = result[c]
                /\ c \in Finders => tgt'[c] = tgt[c]

LEMMA CommandMoves ==
  ASSUME TypeInv, NEW c \in Commands,
         CommandStep(c) \/ CallFails(c) \/ ReadBackFails(c)
  PROVE  pc[c] # "done" /\ \A d \in Commands \ {c} : Untouched(d)
<1> USE DEF Goto, Answer, Throw, ThrowInternal, At
<1>1. /\ pc \in [Commands -> StartPCs \cup LaunchPCs \cup StopPCs] /\ DOMAIN result = Commands
      /\ tgt \in [Finders -> Sessions \cup {None}]
  BY DEF TypeInv, ControlInv, Finders
<1>2. CASE StartStep(c)
  BY <1>1, <1>2 DEF StartStep, StartFind, StartReserve, StartBindThread, StartSaveBriefing,
     StartTurnOnWatch, StartAnnounceOn, StartRollback, StartFrame, Untouched
<1>3. CASE ModeStep(c)
  BY <1>1, <1>3 DEF ModeStep, ModeFindOn, ModeTurnOff, ModeAnnounceOff, AfterModeOff, ModeFrame, Untouched
<1>4. CASE LaunchStep(c) /\ ~ModeStep(c)
  BY <1>1, <1>4 DEF LaunchStep, LaunchFind, LaunchEnsureReady, LaunchClaim, LaunchReserveMetadata,
     LaunchCreateRound, LaunchCreateThread, LaunchSyncThread, LaunchUndoRound, LaunchRelease,
     LaunchFrame, Found, Untouched
<1>5. CASE StopStep(c) /\ ~ModeStep(c)
  BY <1>1, <1>5 DEF StopStep, StopFind, StopDecide, ModeFrame, Found, Untouched
<1>6. CASE CallFails(c)
  BY <1>1, <1>6 DEF CallFails, FaultFrame, Untouched
<1>7. CASE ReadBackFails(c)
  BY <1>1, <1>7 DEF ReadBackFails, WriteOf, FaultFrame, Untouched
<1> QED BY <1>2, <1>3, <1>4, <1>5, <1>6, <1>7 DEF CommandStep

LEMMA RestMoves ==
  ASSUME \/ UNCHANGED vars \/ ExpireStep \/ ExpireFails
         \/ \E s \in Sessions : MessageArrives(s) \/ TimePasses(s)
  PROVE  \A c \in Commands : Untouched(c)
<1>1. UNCHANGED <<pc, result, tgt>>
  BY DEF vars, commandVars, ExpireStep, ExpireScan, ExpireLoad, ExpireDecide, ExpireTurnOff,
     ExpireAnnounceOff, ExpireFrame, ExpireFails, FaultFrame, MessageArrives, TimePasses, NoCommandMoves
<1> QED BY <1>1 DEF Untouched

LEMMA CrashMoves ==
  ASSUME Crash, NEW c \in Commands
  PROVE  IF InFlight(c) THEN pc'[c] = "done" /\ result'[c] = "CRASHED" ELSE Untouched(c)
BY DEF Crash, InFlight, Untouched

\* Every step of the room is one of these.
LEMMA Movers ==
  ASSUME [Next]_vars
  PROVE  \/ \E c \in Commands : CommandStep(c) \/ CallFails(c) \/ ReadBackFails(c)
         \/ Crash
         \/ UNCHANGED vars \/ ExpireStep \/ ExpireFails
         \/ \E s \in Sessions : MessageArrives(s) \/ TimePasses(s)
BY DEF Next, CommandStep, Commands

-----------------------------------------------------------------------------
(* The answer of a start.  Success is answered at the end of a construction *)
(* of which nothing is undone any more.                                     *)

StartAnswers == {"pending", "OK", "ROOM_ALREADY_RUNNING", "ROOM_INTERNAL_ERROR", "CRASHED"}

\* What is built when a start is at a call, or has answered success.
Bound(a)    == pc[a] \in {"briefing", "watch", "announce"} \/ result[a] = "OK"
Briefed(a)  == pc[a] \in {"watch", "announce"} \/ result[a] = "OK"
TurnedOnBy(a) == pc[a] = "announce" \/ result[a] = "OK"

StartsBuild ==
  \A a \in Starts :
    /\ result[a] \in StartAnswers
    /\ result[a] = "OK" => pc[a] = "done"
    /\ Bound(a) => RowExists(a) /\ startThread[a] = "BOUND"
    /\ Briefed(a) => a \in briefings
    /\ TurnedOnBy(a) => watch[a] # "NONE"

LEMMA OwnStartBuilds ==
  ASSUME RefInv, StartsBuild, NEW a \in Starts, StartStep(a)
  PROVE  /\ result'[a] \in StartAnswers
         /\ result'[a] = "OK" => pc'[a] = "done"
         /\ Bound(a)' => RowExists(a)' /\ startThread'[a] = "BOUND"
         /\ Briefed(a)' => a \in briefings'
         /\ TurnedOnBy(a)' => watch'[a] # "NONE"
<1> USE CommandsAssumption DEF Starts, Commands, At, Goto, Answer, Throw, ThrowInternal,
      tables, sessionTable, Bound, Briefed, TurnedOnBy, StartAnswers
<1>1. /\ pc \in [Commands -> StartPCs \cup LaunchPCs \cup StopPCs] /\ DOMAIN result = Commands
      /\ state \in [Sessions -> SessionStates \cup {"ABSENT"}]
      /\ startThread \in [Sessions -> {"PENDING", "BOUND"}]
      /\ watch \in [Sessions -> OffReasons \cup {"NONE", "ON"}]
  BY DEF RefInv, OneInv, TypeInv, ControlInv, StoreTypeOK
<1>2. pc[a] \in StartTry => HandlerOf(a) = "rollback" /\ RowExists(a)
  BY DEF HandlerOf, LaunchTry, StartTry, RefInv, HasRow
<1>3. /\ result[a] \in StartAnswers
      /\ result[a] = "OK" => pc[a] = "done"
      /\ Bound(a) => RowExists(a) /\ startThread[a] = "BOUND"
      /\ Briefed(a) => a \in briefings
      /\ TurnedOnBy(a) => watch[a] # "NONE"
  BY DEF StartsBuild
<1> HIDE DEF StartsBuild
<1>4. CASE StartFind(a)
  BY <1>1, <1>3, <1>4 DEF StartFind
<1>5. CASE StartReserve(a)
  BY <1>1, <1>3, <1>5 DEF StartReserve
<1>6. CASE StartBindThread(a)
  BY <1>1, <1>2, <1>3, <1>6 DEF StartBindThread, UpdateStartThread, StartTry, RowExists
<1>7. CASE StartSaveBriefing(a)
  BY <1>1, <1>2, <1>3, <1>7 DEF StartSaveBriefing, InsertBriefing, StartTry, RowExists
<1>8. CASE StartTurnOnWatch(a)
  BY <1>1, <1>2, <1>3, <1>8 DEF StartTurnOnWatch, InsertWatchTarget, StartTry, RowExists
<1>9. CASE StartAnnounceOn(a)
  BY <1>1, <1>3, <1>9 DEF StartAnnounceOn, EnqueueEvent, RowExists
<1>10. CASE StartRollback(a)
  BY <1>1, <1>3, <1>10 DEF StartRollback
<1> QED
  BY <1>4, <1>5, <1>6, <1>7, <1>8, <1>9, <1>10 DEF StartStep

LEMMA NextStartsBuild ==
  ASSUME RefInv, StartsBuild, [Next]_vars
  PROVE  StartsBuild'
<1> SUFFICES ASSUME NEW a \in Starts
             PROVE  /\ result'[a] \in StartAnswers
                    /\ result'[a] = "OK" => pc'[a] = "done"
                    /\ Bound(a)' => RowExists(a)' /\ startThread'[a] = "BOUND"
                    /\ Briefed(a)' => a \in briefings'
                    /\ TurnedOnBy(a)' => watch'[a] # "NONE"
  BY DEF StartsBuild
<1>1. TypeInv /\ a \in Sessions /\ a \in Commands
  BY DEF RefInv, OneInv, Starts, Commands
<1>2. /\ result[a] \in StartAnswers
      /\ result[a] = "OK" => pc[a] = "done"
      /\ Bound(a) => RowExists(a) /\ startThread[a] = "BOUND"
      /\ Briefed(a) => a \in briefings
      /\ TurnedOnBy(a) => watch[a] # "NONE"
  BY DEF StartsBuild
<1>3. RowsKept(a) \/ pc[a] = "rollback"
  BY <1>1, NextKeepsRows
<1>4. CASE Untouched(a)
  BY <1>2, <1>3, <1>4 DEF Untouched, Bound, Briefed, TurnedOnBy, RowsKept
<1>5. CASE pc'[a] \in {"rollback", "done"} /\ result'[a] # "OK" /\ result'[a] \in StartAnswers
  BY <1>5 DEF Bound, Briefed, TurnedOnBy
<1>6. ASSUME NEW c \in Commands, CommandStep(c) \/ CallFails(c) \/ ReadBackFails(c), c # a
      PROVE  Untouched(a)
  BY <1>1, <1>6, CommandMoves
<1>7. CASE CommandStep(a)
  <2>1. StartStep(a)
    BY <1>7, CommandsAssumption DEF CommandStep, Starts
  <2> QED BY <2>1, OwnStartBuilds
<1>8. CASE CallFails(a) \/ ReadBackFails(a)
  <2>1. pc[a] # "done" /\ pc[a] \in StartPCs
    BY <1>1, <1>8, CommandMoves DEF TypeInv, ControlInv, Starts
  <2>2. HandlerOf(a) \in {"rollback", "done"}
    BY <2>1 DEF HandlerOf, StartPCs, StartTry, LaunchTry
  <2>3. pc'[a] = HandlerOf(a) /\ result'[a] \in {result[a], "ROOM_INTERNAL_ERROR"}
    BY <1>1, <1>8 DEF CallFails, ReadBackFails, ThrowInternal, Throw, TypeInv, ControlInv
  <2> QED BY <1>2, <1>5, <2>1, <2>2, <2>3 DEF StartAnswers
<1>9. CASE Crash
  BY <1>1, <1>4, <1>5, <1>9, CrashMoves DEF StartAnswers
<1> QED
  BY <1>1, <1>4, <1>6, <1>7, <1>8, <1>9, Movers, RestMoves

-----------------------------------------------------------------------------
(* The answer of a stop: the session it ended is DECIDED for good.          *)

StopsDecide == \A p \in Stops : result[p] = "OK" => state[tgt[p]] = "DECIDED"

LEMMA DecidedStays ==
  ASSUME TypeInv, NotYetInserted, [Next]_vars, NEW s \in Sessions, state[s] = "DECIDED"
  PROVE  state'[s] = "DECIDED"
<1>1. state \in [Sessions -> SessionStates \cup {"ABSENT"}]
  BY DEF TypeInv, StoreTypeOK
<1>2. ~SessionStep(s)
  BY DEF SessionStep, IsPrepared, IsRunning, IsActive, NotYetInserted, Starts, At
<1>3. \A t \in Sessions : SessionStep(t) /\ t # s => state'[s] = state[s]
  BY <1>1 DEF SessionStep
<1> QED BY <1>2, <1>3, TableSteps

LEMMA NextStopsDecide ==
  ASSUME RefInv, FinderProgress, StopsDecide, [Next]_vars
  PROVE  StopsDecide'
<1> SUFFICES ASSUME NEW p \in Stops, result'[p] = "OK"
             PROVE  state'[tgt'[p]] = "DECIDED"
  BY DEF StopsDecide
<1>1. TypeInv /\ NotYetInserted /\ p \in Commands /\ p \in Finders
  BY DEF RefInv, OneInv, Commands, Finders
<1>2. result[p] = "OK" => pc[p] = "done" /\ tgt[p] \in Sessions
  BY <1>1 DEF FinderProgress
<1>3. CASE Untouched(p)
  BY <1>1, <1>2, <1>3, DecidedStays DEF Untouched, StopsDecide
<1>4. ASSUME NEW c \in Commands, CommandStep(c) \/ CallFails(c) \/ ReadBackFails(c), c # p
      PROVE  Untouched(p)
  BY <1>1, <1>4, CommandMoves
<1>5. CASE CallFails(p) \/ ReadBackFails(p)
  <2>1. result'[p] \in {result[p], "ROOM_INTERNAL_ERROR"} /\ pc[p] # "done"
    BY <1>1, <1>5, CommandMoves DEF CallFails, ReadBackFails, ThrowInternal, Throw, TypeInv, ControlInv
  <2> QED BY <1>2, <2>1
<1>6. CASE CommandStep(p)
  <2> USE DEF Goto, Answer, Throw, ThrowInternal, At
  <2>1. StopStep(p) /\ pc[p] # "done" /\ result[p] # "OK"
    BY <1>1, <1>2, <1>6, CommandMoves, CommandsAssumption DEF CommandStep, Starts
  <2>2. DOMAIN result = Commands /\ state \in [Sessions -> SessionStates \cup {"ABSENT"}]
    BY <1>1 DEF TypeInv, ControlInv, StoreTypeOK
  <2>3. p \notin Launches
    BY CommandsAssumption
  <2>4. ~ModeStep(p)
    BY <1>1, <2>1, <2>2, <2>3 DEF ModeStep, ModeFindOn, ModeTurnOff, ModeAnnounceOff, AfterModeOff
  <2>5. ~StopFind(p)
    BY <1>1, <2>1, <2>2 DEF StopFind
  <2>6. StopDecide(p) /\ IsActive(tgt[p])
    BY <1>1, <2>1, <2>2, <2>4, <2>5 DEF StopStep, StopDecide
  <2>7. tgt[p] \in Sessions
    BY <1>1, <2>6 DEF StopDecide, TypeInv, ControlInv, TargetKnown, InFlight
  <2> QED BY <2>2, <2>6, <2>7 DEF StopDecide, UpdateToDecided, ModeFrame
<1>7. CASE Crash
  BY <1>1, <1>3, <1>7, CrashMoves
<1> QED
  BY <1>1, <1>3, <1>4, <1>5, <1>6, <1>7, Movers, RestMoves

-----------------------------------------------------------------------------
(* The room's part of the invariant, and what it says of an answer.         *)

AnswerInv ==
  LaunchInv /\ FoundInv /\ RoundInv /\ NothingLeftActive /\ StartsBuild /\ StopsDecide

LEMMA AnswerInvInit == Init => AnswerInv
<1> SUFFICES ASSUME Init PROVE AnswerInv
  OBVIOUS
<1>1. \A c \in Commands : pc[c] = "idle" /\ result[c] = "pending"
  BY DEF Init
<1>2. \A c \in Finders : tgt[c] = None /\ c \in Commands
  BY DEF Init, Finders, Commands
<1>3. /\ \A s \in Sessions : state[s] = "ABSENT" /\ startThread[s] = "PENDING" /\ rounds[s] = {}
      /\ \A s \in Sessions : watch[s] = "NONE"
      /\ \A l \in Launches : roundNo[l] = 0
  BY DEF Init, StoreInit
<1>4. TypeInv /\ AtMostOneActive /\ AtMostOneWatching
  BY <1>3, InitTypeInv DEF AtMostOneActive, AtMostOneWatching, Active, IsActive, Watching
<1>5. LaunchInv
  BY <1>1, <1>3, <1>4 DEF LaunchInv, NotYetInserted, CoreOwns, LaunchExclusive, LaunchCore, LaunchTry, Starts,
     Commands
<1>6. RefInv
  BY <1>1, <1>4, <1>5 DEF LaunchInv, RefInv, OneInv, HasRow, StartTry, Starts, Commands
<1>7. FoundInv
  BY <1>1, <1>2, <1>3, <1>6, CommandsAssumption
     DEF FoundInv, RunningHasLaunch, IsRunning, FinderProgress, FoundIsOverlapped, ThreadKnown, Starts
<1>8. RoundInv
  BY <1>1, <1>2, <1>3, <1>6
     DEF RoundInv, OwnInv, LaunchProgress, OwnerOfRunning, Owns, RoundNumbers, RoundHeld, NoStrayRound,
         OnlyItsRound, WithRound, LaunchCore, LaunchTry, Finders
<1>9. NothingLeftActive /\ StartsBuild /\ StopsDecide
  BY <1>1, <1>2 DEF NothingLeftActive, StartsBuild, StopsDecide, StartAnswers, Bound, Briefed, TurnedOnBy, At,
     Starts, Commands
<1> QED BY <1>5, <1>7, <1>8, <1>9 DEF AnswerInv

LEMMA AnswerInvMoves ==
  ASSUME AnswerInv, [Next]_vars
  PROVE  AnswerInv'
<1>1. LaunchInv' /\ OneInv' /\ HasRow'
  BY NextLaunchInv, NextOneInv, HasRowKept DEF AnswerInv, LaunchInv, FoundInv, RefInv
<1>2. RefInv'
  BY <1>1 DEF RefInv, LaunchInv
<1>3. OwnInv'
  BY <1>2, NextOwnInv DEF AnswerInv, RoundInv, OwnInv
<1>4. RoundInv'
  BY <1>3, NextRoundInv DEF AnswerInv, RoundInv
<1>5. RunningHasLaunch'
  BY NextRunningHasLaunch DEF AnswerInv, RoundInv, FoundInv
<1>6. FoundInv'
  BY <1>2, <1>5, NextFoundInv DEF AnswerInv
<1>7. NothingLeftActive' /\ StartsBuild' /\ StopsDecide'
  BY NextNothingLeftActive, NextStartsBuild, NextStopsDecide DEF AnswerInv, FoundInv
<1> QED BY <1>1, <1>4, <1>6, <1>7 DEF AnswerInv

\* A failing call of the binding counts as a fault and leaves the room alone.
LEMMA AnswerInvStays ==
  ASSUME AnswerInv, SlashFault, RoomFrame
  PROVE  AnswerInv'
<1>1. /\ UNCHANGED <<state, startThread, launchThread, briefings, rounds, watch, overdue, outbox>>
      /\ UNCHANGED <<pc, result, tgt, threadBound, roundNo, xpc, xbatch, xcur, overlapped, lost, crashes>>
  BY DEF RoomFrame, tables, commandVars, schedulerVars, historyVars
<1>2. faults' \in Nat
  BY DEF SlashFault, AnswerInv, LaunchInv, TypeInv, ControlInv
<1>3. TypeInv'
  <2>1. StoreTypeOK'
    BY <1>1 DEF AnswerInv, LaunchInv, TypeInv, StoreTypeOK
  <2>2. ControlInv'
    BY <1>1, <1>2 DEF AnswerInv, LaunchInv, TypeInv, ControlInv, TargetKnown, CursorKnown, InFlight
  <2> QED BY <2>1, <2>2 DEF TypeInv
<1>4. LaunchInv'
  BY <1>1, <1>3 DEF AnswerInv, LaunchInv, NotYetInserted, CoreOwns, LaunchExclusive
<1>5. RefInv'
  BY <1>1, <1>3, <1>4 DEF AnswerInv, FoundInv, RefInv, OneInv, LaunchInv, HasRow, RowExists, AtMostOneActive,
     AtMostOneWatching, Active, IsActive, Watching
<1>6. FoundInv'
  <2>1. RunningHasLaunch' /\ FinderProgress'
    BY <1>1 DEF AnswerInv, FoundInv, RunningHasLaunch, IsRunning, FinderProgress
  <2>2. FoundIsOverlapped' /\ ThreadKnown'
    BY <1>1 DEF AnswerInv, FoundInv, FoundIsOverlapped, ThreadKnown
  <2> QED BY <1>5, <2>1, <2>2 DEF FoundInv
<1>7. RoundInv'
  <2>1. LaunchProgress' /\ OwnerOfRunning'
    BY <1>1 DEF AnswerInv, RoundInv, OwnInv, LaunchProgress, OwnerOfRunning, Owns
  <2>2. RoundNumbers' /\ RoundHeld' /\ NoStrayRound' /\ OnlyItsRound'
    BY <1>1 DEF AnswerInv, RoundInv, RoundNumbers, RoundHeld, NoStrayRound, OnlyItsRound
  <2> QED BY <1>5, <2>1, <2>2 DEF RoundInv, OwnInv
<1>8. NothingLeftActive' /\ StopsDecide'
  BY <1>1 DEF AnswerInv, NothingLeftActive, StopsDecide, IsActive, At
<1>9. StartsBuild'
  BY <1>1 DEF AnswerInv, StartsBuild, Bound, Briefed, TurnedOnBy, RowExists
<1> QED BY <1>4, <1>6, <1>7, <1>8, <1>9 DEF AnswerInv

\* A command that answered success is over, and its effect is in the tables.
LEMMA SuccessHasEffect ==
  ASSUME AnswerInv, NEW c \in Commands, result[c] = "OK"
  PROVE  pc[c] = "done" /\ EffectOf(c)
<1>1. CASE c \in Starts
  <2>1. /\ pc[c] = "done" /\ RowExists(c) /\ startThread[c] = "BOUND"
        /\ c \in briefings /\ watch[c] # "NONE"
    BY <1>1 DEF AnswerInv, StartsBuild, Bound, Briefed, TurnedOnBy
  <2>2. c \notin Launches
    BY <1>1, CommandsAssumption DEF Starts
  <2>3. EffectOf(c) = (RowExists(c) /\ startThread[c] = "BOUND" /\ c \in briefings /\ watch[c] # "NONE")
    BY <1>1, <2>2 DEF EffectOf
  <2> QED BY <2>1, <2>3
<1>2. CASE c \in Launches
  <2>1. pc[c] = "done" /\ state[tgt[c]] \in {"RUNNING", "DECIDED"} /\ roundNo[c] \in rounds[tgt[c]]
    BY <1>2 DEF AnswerInv, RoundInv, OwnInv, LaunchProgress, OwnerOfRunning, Owns, RoundHeld
  <2> QED BY <1>2, <2>1, CommandsAssumption DEF EffectOf, Starts
<1>3. CASE c \in Stops
  <2>1. pc[c] = "done" /\ state[tgt[c]] = "DECIDED"
    BY <1>3 DEF AnswerInv, FoundInv, FinderProgress, Finders, StopsDecide
  <2> QED BY <1>3, <2>1, CommandsAssumption DEF EffectOf, Starts
<1> QED BY <1>1, <1>2, <1>3 DEF Commands

\* A command that answered an error has left nothing.
LEMMA ErrorHasNoResidue ==
  ASSUME AnswerInv, NEW c \in Commands, pc[c] = "done", result[c] \in Errors
  PROVE  ~ResidueOf(c)
<1>1. CASE c \in Starts
  <2>1. result[c] \in {"ROOM_ALREADY_RUNNING", "ROOM_INTERNAL_ERROR"}
    BY <1>1 DEF AnswerInv, StartsBuild, StartAnswers, Errors, Answers
  <2>2. IsPrepared(c) => c \in overlapped \cup lost
    BY <1>1, <2>1 DEF AnswerInv, NothingLeftActive, IsActive, IsPrepared, At
  <2>3. c \notin Launches
    BY <1>1, CommandsAssumption DEF Starts
  <2>4. ResidueOf(c) = (IsPrepared(c) /\ c \notin overlapped \cup lost)
    BY <1>1, <2>3 DEF ResidueOf
  <2> QED BY <2>2, <2>4
<1>2. CASE c \in Launches
  <2> SUFFICES ASSUME tgt[c] \in Sessions, IsRunning(tgt[c]), tgt[c] \notin lost
               PROVE  \E k \in Launches \ {c} : tgt[k] = tgt[c]
    BY <1>2, CommandsAssumption DEF ResidueOf, Starts
  <2>1. PICK k \in Launches :
          /\ tgt[k] = tgt[c]
          /\ pc[k] \in LaunchCore \/ result[k] \in {"OK", "CRASHED"} \/ tgt[c] \in lost
    BY DEF AnswerInv, FoundInv, RunningHasLaunch
  <2>2. k # c
    BY <2>1 DEF LaunchCore, LaunchTry, Errors
  <2> QED BY <2>1, <2>2
<1>3. CASE c \in Stops
  BY <1>3, CommandsAssumption DEF ResidueOf, Starts
<1> QED BY <1>1, <1>2, <1>3 DEF Commands

-----------------------------------------------------------------------------
(* The notices' part.  A command runs behind its processing notice only, so *)
(* a command without a notice has not begun; and what replaces that notice  *)
(* is the answer of a command that is over, which is final.                 *)

Notices == {"none", "processing", "help", "invalid", "NOTHING_TO_STOP", "gone", "pending", "CRASHED"}
             \cup Errors

NoticeTypes ==
  /\ rpc \in [Commands -> {"new", "handling", "closed"}]
  /\ shown \in [Commands -> Notices]

NoticeFollows(c) ==
  /\ rpc[c] = "handling" => shown[c] = "processing"
  /\ shown[c] = "none" => pc[c] = "idle"
  /\ shown[c] = "gone" => pc[c] = "done" /\ result[c] = "OK"
  /\ shown[c] \in Errors \cup {"NOTHING_TO_STOP"} => pc[c] = "done" /\ result[c] \in Errors

SlashInv == AnswerInv /\ NoticeTypes /\ \A c \in Commands : NoticeFollows(c)

LEMMA SlashInvInit == SlashInit => SlashInv
<1> SUFFICES ASSUME SlashInit PROVE SlashInv
  OBVIOUS
<1>1. AnswerInv
  BY AnswerInvInit DEF SlashInit
<1>2. NoticeTypes
  BY DEF SlashInit, NoticeTypes, Notices
<1>3. \A c \in Commands : NoticeFollows(c)
  BY DEF SlashInit, Init, NoticeFollows, Errors, Answers
<1> QED BY <1>1, <1>2, <1>3 DEF SlashInv

\* What the steps of the program are to the room.
LEMMA SlashSteps ==
  ASSUME [SlashNext]_slashVars
  PROVE  [Next]_vars \/ (SlashFault /\ RoomFrame)
<1>1. CASE UNCHANGED slashVars
  BY <1>1 DEF slashVars
<1>2. CASE SchedulerMoves \/ Die
  BY <1>2 DEF SchedulerMoves, Die, Next
<1>3. ASSUME NEW c \in Commands, CommandStep(c) PROVE Next
  BY <1>3 DEF CommandStep, Next
<1>4. ASSUME NEW c \in Commands, Handle(c) \/ HandlerFails(c) PROVE Next
  BY <1>3, <1>4 DEF Handle, HandlerFails, Next
<1>5. ASSUME NEW c \in Commands,
             Receive(c) \/ AckFails(c) \/ FollowUp(c) \/ FollowUpFails(c) \/ HelpClicked(c)
      PROVE  UNCHANGED vars \/ (SlashFault /\ RoomFrame)
  BY <1>5 DEF Receive, AckFails, FollowUp, FollowUpFails, HelpClicked
<1> QED BY <1>1, <1>2, <1>4, <1>5 DEF SlashNext, Respond

LEMMA SlashRoom ==
  ASSUME SlashInv, [SlashNext]_slashVars
  PROVE  AnswerInv'
BY SlashSteps, AnswerInvMoves, AnswerInvStays DEF SlashInv

\* A step of the room in which no command gets a new notice: what a command
\* that is over answered is final, and a command that has no notice does not
\* begin.
LEMMA NoticesStay ==
  ASSUME NEW c \in Commands, NoticeFollows(c), UNCHANGED <<rpc, shown>>,
         \/ Untouched(c)
         \/ rpc[c] = "handling"
  PROVE  NoticeFollows(c)'
BY DEF NoticeFollows, Untouched, Errors, Answers

\* A notice that is not one of an answer says nothing of the command, if it is
\* not the absence of a notice.
LEMMA NoticeOfFollowUp ==
  ASSUME NEW c \in Commands, pc[c] = "done", result[c] \in Answers \cup {"pending"}
  PROVE  /\ FollowUpNotice(c) \in Notices \ {"none", "processing"}
         /\ FollowUpNotice(c) = "gone" => result[c] = "OK"
         /\ FollowUpNotice(c) \in Errors \cup {"NOTHING_TO_STOP"} => result[c] \in Errors
BY DEF FollowUpNotice, Notices, Errors, Answers

LEMMA NextNotices ==
  ASSUME SlashInv, [SlashNext]_slashVars
  PROVE  NoticeTypes' /\ \A c \in Commands : NoticeFollows(c)'
<1> DEFINE Good == NoticeTypes' /\ \A c \in Commands : NoticeFollows(c)'
<1>1. /\ rpc \in [Commands -> {"new", "handling", "closed"}]
      /\ shown \in [Commands -> Notices]
      /\ \A c \in Commands : NoticeFollows(c)
  BY DEF SlashInv, NoticeTypes
<1>2. TypeInv /\ result \in [Commands -> Answers \cup {"pending"}]
  BY DEF SlashInv, AnswerInv, LaunchInv, TypeInv, ControlInv
<1>3. ASSUME UNCHANGED <<rpc, shown>>, \A c \in Commands : Untouched(c) \/ rpc[c] = "handling"
      PROVE  Good
  BY <1>1, <1>3, NoticesStay DEF NoticeTypes
<1>4. ASSUME NEW c \in Commands, Handle(c) \/ HandlerFails(c)
      PROVE  Good
  <2>1. /\ rpc[c] = "handling" /\ UNCHANGED <<rpc, shown>>
        /\ CommandStep(c) \/ CallFails(c) \/ ReadBackFails(c)
    BY <1>4 DEF Handle, HandlerFails, responseVars
  <2>2. \A d \in Commands \ {c} : Untouched(d)
    BY <1>2, <2>1, CommandMoves
  <2> QED BY <1>3, <2>1, <2>2
<1>5. CASE SchedulerMoves
  <2>1. UNCHANGED <<rpc, shown>> /\ \A c \in Commands : Untouched(c)
    BY <1>5, RestMoves DEF SchedulerMoves, responseVars
  <2> QED BY <1>3, <2>1
<1>6. CASE UNCHANGED slashVars
  <2>1. UNCHANGED <<rpc, shown>> /\ \A c \in Commands : Untouched(c)
    BY <1>6, RestMoves DEF slashVars, responseVars
  <2> QED BY <1>3, <2>1
<1>7. CASE Die
  <2>1. /\ Crash /\ UNCHANGED shown
        /\ rpc' = [c \in Commands |-> IF rpc[c] = "handling" THEN "closed" ELSE rpc[c]]
    BY <1>7 DEF Die
  <2>2. NoticeTypes'
    BY <1>1, <2>1 DEF NoticeTypes
  <2>3. ASSUME NEW c \in Commands PROVE NoticeFollows(c)'
    <3>1. IF InFlight(c) THEN pc'[c] = "done" /\ result'[c] = "CRASHED" ELSE Untouched(c)
      BY <2>1, CrashMoves
    <3>2. rpc'[c] # "handling" /\ shown'[c] = shown[c] /\ NoticeFollows(c)
      BY <1>1, <2>1
    <3>3. CASE InFlight(c)
      BY <3>2, <3>3 DEF NoticeFollows, InFlight
    <3>4. CASE Untouched(c)
      BY <3>2, <3>4 DEF NoticeFollows, Untouched
    <3> QED BY <3>1, <3>3, <3>4
  <2> QED BY <2>2, <2>3
\* What the binding does to one command, while the room stands still.
<1>8. ASSUME NEW c \in Commands, UNCHANGED <<pc, result>>,
             \A d \in Commands \ {c} : rpc'[d] = rpc[d] /\ shown'[d] = shown[d],
             NoticeTypes', NoticeFollows(c)'
      PROVE  Good
  <2>1. \A d \in Commands \ {c} : NoticeFollows(d)'
    BY <1>1, <1>8 DEF NoticeFollows
  <2> QED BY <1>8, <2>1
<1>9. ASSUME NEW c \in Commands,
             Receive(c) \/ AckFails(c) \/ FollowUp(c) \/ FollowUpFails(c) \/ HelpClicked(c)
      PROVE  Good
  <2>1. UNCHANGED <<pc, result>>
    BY <1>9 DEF Receive, AckFails, FollowUp, FollowUpFails, HelpClicked, RoomFrame, vars, commandVars
  <2>2. NoticeFollows(c)
    BY <1>1
  <2>3. CASE Receive(c)
    <3>1. PICK kind \in {KindOf(c), "help", "invalid"} :
            /\ shown' = [shown EXCEPT ![c] = AckNotice(kind)]
            /\ rpc' = [rpc EXCEPT ![c] = IF kind = KindOf(c) THEN "handling" ELSE "closed"]
      BY <2>3 DEF Receive, Show
    <3>2. AckNotice(kind) \in {"processing", "help", "invalid"}
      BY <3>1 DEF AckNotice
    <3>3. KindOf(c) \in {"start", "launch", "stop"}
      BY DEF KindOf
    <3>4. kind = KindOf(c) => AckNotice(kind) = "processing"
      BY <3>3 DEF AckNotice
    <3>5. NoticeTypes'
      BY <1>1, <3>1, <3>2 DEF NoticeTypes, Notices
    <3>6. NoticeFollows(c)'
      BY <1>1, <3>1, <3>2, <3>4 DEF NoticeFollows, Errors, Answers
    <3> QED BY <1>1, <1>8, <2>1, <3>1, <3>5, <3>6
  <2>4. CASE AckFails(c)
    <3>1. /\ rpc' = [rpc EXCEPT ![c] = "closed"]
          /\ shown' = shown \/ shown' = [shown EXCEPT ![c] = "processing"]
      <4>1. AckNotice(KindOf(c)) = "processing"
        BY DEF AckNotice, KindOf
      <4> QED BY <2>4, <4>1 DEF AckFails, Close, Show
    <3>2. NoticeTypes'
      BY <1>1, <3>1 DEF NoticeTypes, Notices
    <3>3. NoticeFollows(c)'
      BY <1>1, <2>1, <2>2, <3>1 DEF NoticeFollows, Errors, Answers
    <3> QED BY <1>1, <1>8, <2>1, <3>1, <3>2, <3>3
  <2>5. CASE FollowUp(c) \/ FollowUpFails(c)
    <3>1. /\ rpc[c] = "handling" /\ pc[c] = "done"
          /\ rpc' = [rpc EXCEPT ![c] = "closed"]
          /\ shown' = shown \/ shown' = [shown EXCEPT ![c] = FollowUpNotice(c)]
      BY <2>5 DEF FollowUp, FollowUpFails, Close, Show, At
    <3>2. /\ FollowUpNotice(c) \in Notices \ {"none", "processing"}
          /\ FollowUpNotice(c) = "gone" => result[c] = "OK"
          /\ FollowUpNotice(c) \in Errors \cup {"NOTHING_TO_STOP"} => result[c] \in Errors
      BY <1>2, <3>1, NoticeOfFollowUp
    <3>3. NoticeTypes'
      BY <1>1, <3>1, <3>2 DEF NoticeTypes
    <3>4. NoticeFollows(c)'
      BY <1>1, <2>1, <2>2, <3>1, <3>2 DEF NoticeFollows
    <3> QED BY <1>1, <1>8, <2>1, <3>1, <3>3, <3>4
  <2>6. CASE HelpClicked(c)
    <3>1. /\ shown[c] \in HasButton /\ rpc' = rpc
          /\ shown' = [shown EXCEPT ![c] = "help"]
      BY <2>6 DEF HelpClicked, Show
    <3>2. NoticeTypes'
      BY <1>1, <3>1 DEF NoticeTypes, Notices
    <3>3. NoticeFollows(c)'
      BY <1>1, <2>1, <2>2, <3>1 DEF NoticeFollows, HasButton, Errors, Answers
    <3> QED BY <1>1, <1>8, <2>1, <3>1, <3>2, <3>3
  <2> QED BY <1>9, <2>3, <2>4, <2>5, <2>6
<1> QED BY <1>4, <1>5, <1>6, <1>7, <1>9 DEF SlashNext, Respond

\* Commands, services and notices never leave the invariant: an answer stands
\* for what the tables hold, and a notice for the answer of its own command.
THEOREM SlashInvariant == SlashSpec => []SlashInv
<1>1. SlashInv /\ [SlashNext]_slashVars => SlashInv'
  BY SlashRoom, NextNotices DEF SlashInv
<1> QED BY <1>1, SlashInvInit, PTL DEF SlashSpec

\* The user of /room is told the truth: a notice that disappeared stands for an
\* effect that is in the tables and stays there, an error for a command that
\* left nothing unless somebody else or a fault is the reason, and without a
\* notice nothing was done.
THEOREM UsersAreToldTheTruth == SlashSpec => []ShownIsTrue
<1>1. SlashInv => ShownIsTrue
  <2> SUFFICES ASSUME SlashInv, NEW c \in Commands
               PROVE  /\ shown[c] = "gone" => EffectOf(c)
                      /\ shown[c] \in Errors \cup {"NOTHING_TO_STOP"} => ~ResidueOf(c)
                      /\ shown[c] = "none" => At(c, "idle")
    BY DEF ShownIsTrue
  <2>1. NoticeFollows(c) /\ AnswerInv
    BY DEF SlashInv
  <2>2. shown[c] = "gone" => EffectOf(c)
    BY <2>1, SuccessHasEffect DEF NoticeFollows
  <2>3. shown[c] \in Errors \cup {"NOTHING_TO_STOP"} => ~ResidueOf(c)
    BY <2>1, ErrorHasNoResidue DEF NoticeFollows
  <2> QED BY <2>1, <2>2, <2>3 DEF NoticeFollows, At
<1> QED BY <1>1, SlashInvariant, PTL

\* The binding takes nothing away from what the room promises: its failing
\* calls, its notices and its acknowledgements leave the tables as the services
\* made them.
THEOREM RoomStaysSafe ==
  SlashSpec => [](/\ AtMostOneActive /\ AtMostOneWatching /\ LaunchExclusive
                  /\ LaunchedKeepsRound /\ RunningHasLaunch /\ FailedStartLeavesNothing)
<1>1. SlashInv => /\ AtMostOneActive /\ AtMostOneWatching /\ LaunchExclusive
                  /\ LaunchedKeepsRound /\ RunningHasLaunch /\ FailedStartLeavesNothing
  <2> SUFFICES ASSUME SlashInv
               PROVE  /\ AtMostOneActive /\ AtMostOneWatching /\ LaunchExclusive
                      /\ LaunchedKeepsRound /\ RunningHasLaunch /\ FailedStartLeavesNothing
    OBVIOUS
  <2>1. AtMostOneActive /\ AtMostOneWatching /\ LaunchExclusive /\ RunningHasLaunch
    BY DEF SlashInv, AnswerInv, LaunchInv, FoundInv, RefInv, OneInv
  <2>2. LaunchedKeepsRound
    BY DEF SlashInv, AnswerInv, RoundInv, OwnInv, OwnerOfRunning, Owns, RoundHeld, LaunchedKeepsRound
  <2>3. FailedStartLeavesNothing
    BY DEF SlashInv, AnswerInv, NothingLeftActive, FailedStartLeavesNothing, IsActive, IsPrepared
  <2> QED BY <2>1, <2>2, <2>3
<1> QED BY <1>1, SlashInvariant, PTL

\* With the binding around them the services still implement the abstract room:
\* no acknowledgement, notice or failing call to Slack opens, launches, ends or
\* reopens one.
THEOREM CommandsImplementRoom == SlashSpec => ImplementsRoom
<1>1. ASSUME RefInv, RefInv', [SlashNext]_slashVars PROVE [R!Next]_(R!vars)
  <2>1. CASE [Next]_vars
    BY <1>1, <2>1, StepRefines
  <2>2. CASE UNCHANGED <<state, watch>>
    BY <2>2 DEF R!vars, PhaseOfChannel, Active, IsActive, Watching
  <2> QED BY <1>1, <2>1, <2>2, SlashSteps DEF RoomFrame, tables
<1>2. SlashInv => RefInv
  BY DEF SlashInv, AnswerInv, FoundInv
<1>3. SlashInit => R!Init
  BY InitRefines DEF SlashInit
<1> QED BY <1>1, <1>2, <1>3, SlashInvariant, PTL DEF SlashSpec, ImplementsRoom, R!Spec
=============================================================================
