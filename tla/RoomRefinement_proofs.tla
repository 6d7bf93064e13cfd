------------------------ MODULE RoomRefinement_proofs ------------------------
(* RoomLifecycle implements Room, for any number of commands, faults and    *)
(* crashes.  Each step is reduced to what it does to one row of the tables, *)
(* and each kind of row step is an action of the abstract room.             *)
EXTENDS RoomRefinement, RoomLifecycle_proofs

-----------------------------------------------------------------------------
(* What one step does to the state and the watch target of one row.         *)

Reserved(s)  == /\ At(s, "reserve") /\ MayInsertSession
                /\ state' = [state EXCEPT ![s] = "PREPARED"] /\ UNCHANGED watch
Claimed(s)   == IsPrepared(s) /\ state' = [state EXCEPT ![s] = "RUNNING"] /\ UNCHANGED watch
Released(s)  == IsRunning(s) /\ state' = [state EXCEPT ![s] = "PREPARED"] /\ UNCHANGED watch
Ended(s)     == IsActive(s) /\ state' = [state EXCEPT ![s] = "DECIDED"] /\ UNCHANGED watch
Deleted(s)   == /\ At(s, "rollback") /\ pc'[s] = "done" /\ IsPrepared(s)
                /\ state' = [state EXCEPT ![s] = "ABSENT"]
                /\ watch' = [watch EXCEPT ![s] = "NONE"]
WatchedOn(s) == /\ At(s, "watch") /\ MayInsertWatch
                /\ watch' = [watch EXCEPT ![s] = "ON"] /\ UNCHANGED state
WatchedOff(s) == /\ IsWatched(s) /\ UNCHANGED state
                 /\ \E r \in OffReasons : watch' = [watch EXCEPT ![s] = r]

RowStep(s) ==
  \/ Reserved(s) \/ Claimed(s) \/ Released(s) \/ Ended(s) \/ Deleted(s)
  \/ WatchedOn(s) \/ WatchedOff(s)

RowsChange == UNCHANGED <<state, watch>> \/ \E s \in Sessions : RowStep(s)

\* A start reserves its row, watches it, or deletes it when it rolls back.
LEMMA StartRows ==
  ASSUME TypeInv, NEW a \in Starts, StartStep(a)
  PROVE  RowsChange
  <1> USE DEF Starts, RowsChange, RowStep
  <1>1. CASE StartReserve(a)
    BY <1>1 DEF StartReserve, InsertPreparedSession, tables, Reserved
  <1>2. CASE StartTurnOnWatch(a)
    BY <1>2 DEF StartTurnOnWatch, InsertWatchTarget, tables, sessionTable, WatchedOn
  <1>3. CASE StartRollback(a)
    BY <1>3 DEF StartRollback, DeleteSession, MayDeleteReserved, tables, Deleted, Goto,
         TypeInv, ControlInv, Commands
  <1>4. CASE StartFind(a) \/ StartBindThread(a) \/ StartSaveBriefing(a) \/ StartAnnounceOn(a)
    BY <1>4 DEF StartFind, StartBindThread, StartSaveBriefing, StartAnnounceOn, tables,
         UpdateStartThread, InsertBriefing, EnqueueEvent, sessionTable
  <1> QED
    BY <1>1, <1>2, <1>3, <1>4 DEF StartStep

\* Turning planning mode off touches the watch target only.
LEMMA ModeRows ==
  ASSUME TypeInv, NEW c \in Launches \cup Stops, ModeStep(c)
  PROVE  RowsChange
  <1>1. tgt[c] \in Sessions
    BY DEF TypeInv, ControlInv, TargetKnown, InFlight, ModeStep, ModeFindOn, ModeTurnOff,
           ModeAnnounceOff, At
  <1> QED
    BY <1>1 DEF ModeStep, ModeFindOn, ModeTurnOff, ModeAnnounceOff, tables, RowsChange, RowStep,
         WatchedOff, ReasonOf, OffReasons, TurnOffWatchTarget, EnqueueEvent, sessionTable

\* A launch claims its session and may give it back.
LEMMA LaunchRows ==
  ASSUME TypeInv, NEW l \in Launches, LaunchStep(l)
  PROVE  RowsChange
  <1> USE DEF RowsChange, RowStep
  <1>1. ~At(l, "idle") /\ ~At(l, "done") => tgt[l] \in Sessions
    BY DEF TypeInv, ControlInv, TargetKnown, InFlight, At
  <1>2. CASE LaunchClaim(l)
    BY <1>1, <1>2 DEF LaunchClaim, ClaimPreparedSession, tables, Claimed, At
  <1>3. CASE LaunchRelease(l)
    BY <1>1, <1>3 DEF LaunchRelease, ReleaseLaunchClaim, tables, Released, At
  <1>4. CASE \/ LaunchFind(l) \/ LaunchEnsureReady(l) \/ LaunchReserveMetadata(l)
             \/ LaunchCreateRound(l) \/ LaunchCreateThread(l) \/ LaunchSyncThread(l)
             \/ LaunchUndoRound(l)
    BY <1>4 DEF LaunchFind, LaunchEnsureReady, LaunchReserveMetadata, LaunchCreateRound,
         LaunchCreateThread, LaunchSyncThread, LaunchUndoRound, tables, sessionTable,
         UpdateLaunchThread, InsertRound, DeleteRound
  <1> QED
    BY <1>2, <1>3, <1>4, ModeRows DEF LaunchStep

\* A stop decides its session.
LEMMA StopRows ==
  ASSUME TypeInv, NEW p \in Stops, StopStep(p)
  PROVE  RowsChange
  <1>1. CASE StopFind(p)
    BY <1>1 DEF StopFind, tables, RowsChange
  <1>2. CASE StopDecide(p)
    <2>1. tgt[p] \in Sessions
      BY <1>2 DEF TypeInv, ControlInv, TargetKnown, InFlight, StopDecide, At
    <2> QED
      BY <1>2, <2>1 DEF StopDecide, UpdateToDecided, tables, RowsChange, RowStep, Ended
  <1> QED
    BY <1>1, <1>2, ModeRows DEF StopStep

\* So does the expiry scheduler.
LEMMA ExpireRows ==
  ASSUME TypeInv, ExpireStep \/ ExpireFails
  PROVE  RowsChange
  <1> USE DEF RowsChange, RowStep, OffReasons, tables, sessionTable, TurnOffWatchTarget
  <1>1. xpc \in {"decide", "turnOff", "offEvent"} => xcur \in Sessions
    BY DEF TypeInv, ControlInv, CursorKnown
  <1>2. CASE ExpireDecide
    BY <1>1, <1>2 DEF ExpireDecide, UpdateToDecided, Ended
  <1>3. CASE ExpireTurnOff
    BY <1>1, <1>3 DEF ExpireTurnOff, WatchedOff
  <1>4. CASE ExpireScan \/ ExpireLoad \/ ExpireAnnounceOff
    BY <1>4 DEF ExpireScan, ExpireLoad, ExpireAnnounceOff, EnqueueEvent
  <1>5. CASE ExpireFails
    BY <1>1, <1>5 DEF ExpireFails, WatchedOff
  <1> QED
    BY <1>2, <1>3, <1>4, <1>5 DEF ExpireStep

\* A failing call changes no row, or the one its statement wrote.
LEMMA FaultRows ==
  ASSUME TypeInv, NEW c \in Commands, CallFails(c) \/ ReadBackFails(c)
  PROVE  RowsChange
  <1> USE CommandsAssumption DEF RowsChange, RowStep, OffReasons, tables, sessionTable
  <1>1. CASE CallFails(c)
    BY <1>1 DEF CallFails
  <1>2. CASE ReadBackFails(c)
    <2>1. pc[c] \in PCsOf(c)
      BY DEF TypeInv, ControlInv, PCsOf
    <2>2. pc[c] \in {"reserve", "watch"} => c \in Sessions
      BY <2>1 DEF PCsOf, LaunchPCs, LaunchCore, LaunchTry, StopPCs, Starts
    <2>3. pc[c] \in {"meta", "sync", "turnOff", "decide"} => tgt[c] \in Sessions
      BY <2>1 DEF PCsOf, StartPCs, StartTry, Commands, TypeInv, ControlInv, TargetKnown, InFlight
    <2>4. WriteOf(c)
      BY <1>2 DEF ReadBackFails
    <2> QED
      BY <2>2, <2>3, <2>4 DEF WriteOf, At, ReasonOf, InsertPreparedSession, UpdateStartThread,
           InsertBriefing, InsertWatchTarget, UpdateLaunchThread, InsertRound,
           TurnOffWatchTarget, UpdateToDecided, Reserved, Ended, WatchedOn, WatchedOff
  <1> QED
    BY <1>1, <1>2

\* Every step changes one row at most, in one of the seven ways.
LEMMA StepRows ==
  ASSUME TypeInv, [Next]_vars
  PROVE  RowsChange
  <1>1. CASE UNCHANGED vars \/ Crash
    BY <1>1 DEF vars, tables, Crash, RowsChange
  <1>2. CASE \E s \in Sessions : MessageArrives(s) \/ TimePasses(s)
    BY <1>2 DEF MessageArrives, TimePasses, IncrementMessageCount, TtlPasses, sessionTable,
         RowsChange
  <1> QED
    BY <1>1, <1>2, StartRows, LaunchRows, StopRows, ExpireRows, FaultRows DEF Next

-----------------------------------------------------------------------------
(* A start that goes on after its reservation still has its row.            *)

HasRow == \A a \in Starts : pc[a] \in StartTry => RowExists(a)

\* A start gets there by its INSERT only.
LEMMA StartTryEntered ==
  ASSUME TypeInv, [Next]_vars, NEW a \in Starts, pc'[a] \in StartTry
  PROVE  pc[a] \in StartTry \/ state'[a] = "PREPARED"
  <1> USE CommandsAssumption DEF Goto, Answer, Throw, ThrowInternal, TypeInv, ControlInv,
        Starts, Commands, At, StartTry
  <1>1. ASSUME NEW b \in Starts, StartStep(b) PROVE pc[a] \in StartTry \/ state'[a] = "PREPARED"
    <2>1. HandlerOf(b) = "done" \/ HandlerOf(b) = "rollback" \/ b \notin Sessions
      BY HandlerType DEF PCsOf, HandlerOf, StartPCs
    <2>2. state \in [Sessions -> SessionStates \cup {"ABSENT"}]
      BY DEF StoreTypeOK
    <2> QED
      BY <1>1, <2>1, <2>2 DEF StartStep, StartFind, StartReserve, StartBindThread,
           StartSaveBriefing, StartTurnOnWatch, StartAnnounceOn, StartRollback,
           InsertPreparedSession
  <1>2. ASSUME NEW c \in Launches \cup Stops, ModeStep(c) PROVE pc'[a] = pc[a]
    BY <1>2 DEF ModeStep, ModeFindOn, ModeTurnOff, ModeAnnounceOff, AfterModeOff
  <1>3. ASSUME NEW l \in Launches, LaunchStep(l) PROVE pc'[a] = pc[a]
    BY <1>2, <1>3 DEF LaunchStep, LaunchFind, LaunchEnsureReady, LaunchClaim,
         LaunchReserveMetadata, LaunchCreateRound, LaunchCreateThread, LaunchSyncThread,
         LaunchUndoRound, LaunchRelease
  <1>4. ASSUME NEW p \in Stops, StopStep(p) PROVE pc'[a] = pc[a]
    BY <1>2, <1>4 DEF StopStep, StopFind, StopDecide
  <1>5. ASSUME NEW c \in Commands, CallFails(c) \/ ReadBackFails(c)
        PROVE  pc[a] \in StartTry
    <2>1. CASE c = a
      <3>1. HandlerOf(c) \in {"done", "rollback"}
        BY <2>1 DEF HandlerOf, LaunchTry, LaunchCore, PCsOf, StartPCs
      <3> QED
        BY <1>5, <2>1, <3>1 DEF CallFails, ReadBackFails
    <2>2. CASE c # a
      BY <1>5, <2>2 DEF CallFails, ReadBackFails
    <2> QED BY <2>1, <2>2
  <1>6. CASE Crash
    BY <1>6 DEF Crash, InFlight
  <1>7. CASE \/ UNCHANGED vars \/ ExpireStep \/ ExpireFails
             \/ \E s \in Sessions : MessageArrives(s) \/ TimePasses(s)
    BY <1>7 DEF vars, commandVars, ExpireStep, ExpireScan, ExpireLoad, ExpireDecide,
         ExpireTurnOff, ExpireAnnounceOff, ExpireFrame, ExpireFails, MessageArrives,
         TimePasses, NoCommandMoves
  <1> QED
    BY <1>1, <1>3, <1>4, <1>5, <1>6, <1>7 DEF Next

\* The row of a start that goes on is there: only its own rollback deletes it.
LEMMA HasRowKept ==
  ASSUME TypeInv, HasRow, [Next]_vars
  PROVE  HasRow'
  <1> SUFFICES ASSUME NEW a \in Starts, pc'[a] \in StartTry PROVE state'[a] # "ABSENT"
    BY DEF HasRow, RowExists
  <1>1. CASE pc[a] \in StartTry
    <2>1. state[a] # "ABSENT" /\ a \in Sessions
      BY <1>1 DEF HasRow, RowExists, Starts
    <2>2. CASE UNCHANGED <<state, watch>>
      BY <2>1, <2>2
    <2>3. ASSUME NEW s \in Sessions, RowStep(s) PROVE state'[a] # "ABSENT"
      BY <2>1, <2>3 DEF RowStep, Reserved, Claimed, Released, Ended, Deleted, WatchedOn,
           WatchedOff, StartTry, TypeInv, StoreTypeOK
    <2> QED
      BY <2>2, <2>3, StepRows DEF RowsChange
  <1>2. CASE state'[a] = "PREPARED"
    BY <1>2
  <1> QED
    BY <1>1, <1>2, StartTryEntered

-----------------------------------------------------------------------------
(* The mapping.                                                             *)

\* TheOne of the sets the mapping meets.
LEMMA TheOneOf ==
  /\ TheOne({}) = None
  /\ \A s : TheOne({s}) = s
  BY DEF TheOne

MappedActive(s)   == Active = {s} /\ TheOne(Active) = s /\ PhaseOfChannel = state[s]
MappedIdle        == Active = {} /\ TheOne(Active) = None /\ PhaseOfChannel = "IDLE"

\* What the mapped variables are when a row is active, watched, or none is.
Mapping ==
  /\ \A s \in Sessions : IsActive(s) => MappedActive(s)
  /\ (\A s \in Sessions : ~IsActive(s)) => MappedIdle
  /\ \A s \in Sessions : IsWatched(s) => Watching = {s} /\ TheOne(Watching) = s
  /\ (\A s \in Sessions : ~IsWatched(s)) => Watching = {} /\ TheOne(Watching) = None

\* One active row and one ON target at most determine the mapped variables.
LEMMA Mapped == OneInv => Mapping
  <1> SUFFICES ASSUME OneInv PROVE Mapping
    OBVIOUS
  <1>1. ASSUME NEW s \in Sessions, IsActive(s) PROVE MappedActive(s)
    <2>1. Active = {s}
      BY <1>1 DEF OneInv, AtMostOneActive, Active
    <2> QED
      BY <2>1, TheOneOf DEF MappedActive, PhaseOfChannel
  <1>2. ASSUME \A s \in Sessions : ~IsActive(s) PROVE MappedIdle
    <2>1. Active = {}
      BY <1>2 DEF Active
    <2> QED
      BY <2>1, TheOneOf DEF MappedIdle, PhaseOfChannel
  <1>3. ASSUME NEW s \in Sessions, IsWatched(s)
        PROVE  Watching = {s} /\ TheOne(Watching) = s
    <2>1. Watching = {s}
      BY <1>3 DEF OneInv, AtMostOneWatching, Watching, IsWatched
    <2> QED
      BY <2>1, TheOneOf
  <1>4. ASSUME \A s \in Sessions : ~IsWatched(s)
        PROVE  Watching = {} /\ TheOne(Watching) = None
    <2>1. Watching = {}
      BY <1>4 DEF Watching, IsWatched
    <2> QED
      BY <2>1, TheOneOf
  <1> QED
    BY <1>1, <1>2, <1>3, <1>4 DEF Mapping

-----------------------------------------------------------------------------
(* The refinement.                                                          *)

RefInv == OneInv /\ NotYetInserted /\ HasRow

\* The invariant of the refinement.
LEMMA SpecRefInv == Spec => []RefInv
  <1>1. Init => HasRow
    BY DEF Init, HasRow, StartTry, Starts, Commands
  <1>2. TypeInv /\ HasRow /\ [Next]_vars => HasRow'
    BY HasRowKept
  <1>3. OneInv => TypeInv
    BY DEF OneInv
  <1>4. Spec => []HasRow
    BY <1>1, <1>2, <1>3, SpecOneInv, PTL DEF Spec
  <1> QED
    BY <1>4, SpecOneInv, SpecLaunchInv, PTL DEF RefInv, LaunchInv

\* The empty tables are a channel without a room.
LEMMA InitRefines == Init => R!Init
  <1> SUFFICES ASSUME Init PROVE R!Init
    OBVIOUS
  <1>1. Active = {} /\ Watching = {} /\ {s \in Sessions : state[s] = "DECIDED"} = {}
    BY DEF Init, StoreInit, Active, IsActive, Watching
  <1> QED
    BY <1>1, TheOneOf DEF R!Init, PhaseOfChannel

\* Each way to change a row is an action of the abstract room.
LEMMA StepRefines ==
  ASSUME RefInv, RefInv', [Next]_vars
  PROVE  [R!Next]_(R!vars)
  <1> DEFINE Decided == {s \in Sessions : state[s] = "DECIDED"}
  <1>1. Mapping /\ Mapping'
    BY Mapped, PTL DEF RefInv
  <1>2. state \in [Sessions -> SessionStates \cup {"ABSENT"}]
    BY DEF RefInv, OneInv, TypeInv, StoreTypeOK
  <1>3. CASE UNCHANGED <<state, watch>>
    BY <1>3 DEF R!vars, PhaseOfChannel, Active, IsActive, Watching
  <1>4. UNCHANGED state => UNCHANGED <<PhaseOfChannel, TheOne(Active), Decided>>
    BY DEF PhaseOfChannel, Active, IsActive
  <1>5. UNCHANGED watch => UNCHANGED TheOne(Watching)
    BY DEF Watching
  <1>6. ASSUME NEW s \in Sessions, RowStep(s) PROVE R!Next
    <2> USE <1>2, <1>6
    <2>1. CASE Reserved(s)
      <3>1. state[s] = "ABSENT" /\ \A t \in Sessions : ~IsActive(t)
        BY <2>1 DEF Reserved, RefInv, NotYetInserted, Starts, At, MayInsertSession, Active
      <3>2. MappedIdle /\ s \notin Decided
        BY <1>1, <3>1 DEF Mapping
      <3>3. MappedActive(s)' /\ state'[s] = "PREPARED" /\ Decided' = Decided
        BY <1>1, <2>1, <3>1 DEF Mapping, Reserved, IsActive
      <3>4. R!Open(s)
        BY <1>5, <2>1, <3>2, <3>3 DEF R!Open, Reserved, MappedIdle, MappedActive
      <3> QED
        BY <3>4 DEF R!Next
    <2>2. CASE Claimed(s) \/ Released(s)
      <3>1. MappedActive(s) /\ MappedActive(s)' /\ Decided' = Decided
        BY <1>1, <2>2 DEF Mapping, Claimed, Released, IsActive, IsPrepared, IsRunning
      <3>2. R!Launch \/ R!Abandon
        BY <1>5, <2>2, <3>1 DEF R!Launch, R!Abandon, Claimed, Released, MappedActive,
             IsPrepared, IsRunning
      <3> QED
        BY <3>2 DEF R!Next
    <2>3. CASE Ended(s)
      <3>1. MappedActive(s) /\ Decided' = Decided \cup {s}
        BY <1>1, <2>3 DEF Mapping, Ended
      <3>2. MappedIdle'
        <4>1. \A t \in Sessions : ~IsActive(t)'
          BY <2>3, <3>1 DEF Ended, MappedActive, Active, IsActive
        <4> QED
          BY <1>1, <4>1 DEF Mapping
      <3>3. R!Decide
        BY <1>5, <2>3, <3>1, <3>2 DEF R!Decide, Ended, IsActive, MappedActive, MappedIdle
      <3> QED
        BY <3>3 DEF R!Next
    <2>4. CASE Deleted(s)
      <3>1. MappedActive(s) /\ state[s] = "PREPARED" /\ Decided' = Decided
        BY <1>1, <2>4 DEF Mapping, Deleted, IsActive, IsPrepared
      <3>2. MappedIdle'
        <4>1. \A t \in Sessions : ~IsActive(t)'
          BY <2>4, <3>1 DEF Deleted, MappedActive, Active, IsActive
        <4> QED
          BY <1>1, <4>1 DEF Mapping
      <3>3. TheOne(Watching)' = IF TheOne(Watching) = s THEN None ELSE TheOne(Watching)
        <4>1. watch \in [Sessions -> OffReasons \cup {"NONE", "ON"}]
          BY DEF RefInv, OneInv, TypeInv, StoreTypeOK
        <4>2. Watching' = Watching \ {s}
          BY <2>4, <4>1 DEF Deleted, Watching
        <4>3. CASE Watching = {}
          BY <4>2, <4>3, TheOneOf
        <4>4. ASSUME NEW t \in Sessions, IsWatched(t)
              PROVE  TheOne(Watching)' = IF TheOne(Watching) = s THEN None ELSE TheOne(Watching)
          <5>1. Watching = {t} /\ TheOne(Watching) = t
            BY <1>1, <4>4 DEF Mapping
          <5>2. CASE t = s
            BY <4>2, <5>1, <5>2, TheOneOf
          <5>3. CASE t # s
            <6>1. Watching' = {t}
              BY <4>2, <5>1, <5>3
            <6> QED
              BY <5>1, <5>3, <6>1, TheOneOf
          <5> QED
            BY <5>2, <5>3
        <4> QED
          BY <4>3, <4>4 DEF Watching, IsWatched
      <3>4. R!Discard
        BY <3>1, <3>2, <3>3 DEF R!Discard, MappedActive, MappedIdle
      <3> QED
        BY <3>4 DEF R!Next
    <2>5. CASE WatchedOn(s)
      <3>1. TheOne(Watching) = None /\ TheOne(Watching)' = s
        <4>1. \A t \in Sessions : ~IsWatched(t)
          BY <2>5 DEF WatchedOn, MayInsertWatch, Watching, IsWatched
        <4>2. IsWatched(s)'
          BY <2>5 DEF WatchedOn, IsWatched, RefInv, OneInv, TypeInv, StoreTypeOK
        <4> QED
          BY <1>1, <4>1, <4>2 DEF Mapping
      <3>2. s = TheOne(Active) \/ s \in Decided
        <4>1. state[s] # "ABSENT"
          BY <2>5 DEF WatchedOn, At, RefInv, HasRow, RowExists, Starts, StartTry
        <4>2. IsActive(s) => s = TheOne(Active)
          BY <1>1 DEF Mapping, MappedActive
        <4> QED
          BY <4>1, <4>2 DEF SessionStates, IsActive
      <3>3. R!Watch(s)
        BY <1>4, <2>5, <3>1, <3>2 DEF R!Watch, WatchedOn
      <3> QED
        BY <3>3 DEF R!Next
    <2>6. CASE WatchedOff(s)
      <3>1. TheOne(Watching) # None
        BY <1>1, <2>6, CommandsAssumption DEF Mapping, WatchedOff
      <3>2. TheOne(Watching)' = None
        <4>1. \A t \in Sessions : ~IsWatched(t)'
          <5> TAKE t \in Sessions
          <5>1. PICK r \in OffReasons : watch' = [watch EXCEPT ![s] = r]
            BY <2>6 DEF WatchedOff
          <5>2. watch \in [Sessions -> OffReasons \cup {"NONE", "ON"}]
            BY DEF RefInv, OneInv, TypeInv, StoreTypeOK
          <5>3. t # s => watch[t] # "ON"
            BY <2>6 DEF WatchedOff, RefInv, OneInv, AtMostOneWatching, Watching, IsWatched
          <5> QED
            BY <5>1, <5>2, <5>3 DEF IsWatched, OffReasons
        <4> QED
          BY <1>1, <4>1 DEF Mapping
      <3>3. R!Unwatch
        BY <1>4, <2>6, <3>1, <3>2 DEF R!Unwatch, WatchedOff
      <3> QED
        BY <3>3 DEF R!Next
    <2> QED
      BY <2>1, <2>2, <2>3, <2>4, <2>5, <2>6 DEF RowStep
  <1> QED
    BY <1>3, <1>6, StepRows DEF RowsChange, RefInv, OneInv

\* For any number of commands, faults and crashes, what the services do to the
\* channel is what the abstract room allows: one room at a time, launched,
\* abandoned and discarded only from the phase for it, and never reopened.
THEOREM RoomImplementsAbstractRoom == Spec => ImplementsRoom
  <1>1. RefInv /\ RefInv' /\ [Next]_vars => [R!Next]_(R!vars)
    BY StepRefines
  <1> QED
    BY <1>1, InitRefines, SpecRefInv, PTL DEF Spec, ImplementsRoom, R!Spec
=============================================================================
