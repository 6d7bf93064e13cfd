------------------------ MODULE RoomLifecycle_proofs ------------------------
(* Theorems about RoomLifecycle for any number of commands, faults and      *)
(* crashes.                                                                 *)
EXTENDS RoomLifecycle, TLAPS

-----------------------------------------------------------------------------
(* The statements preserve the types of the tables.                         *)

LEMMA StatementTypes ==
  ASSUME StoreTypeOK, NEW s \in Sessions,
         \/ UNCHANGED tables
         \/ InsertPreparedSession(s)
         \/ UpdateStartThread(s)
         \/ ClaimPreparedSession(s)
         \/ \E ts \in {"PENDING", "BOUND"} : UpdateLaunchThread(s, ts)
         \/ ReleaseLaunchClaim(s)
         \/ UpdateToDecided(s)
         \/ InsertBriefing(s)
         \/ InsertWatchTarget(s)
         \/ \E reason \in OffReasons : TurnOffWatchTarget(s, reason)
         \/ IncrementMessageCount(s)
         \/ TtlPasses(s)
  PROVE  StoreTypeOK'
  <1> USE DEF StoreTypeOK, SessionStates, OffReasons, tables, sessionTable
  <1>1. CASE UNCHANGED tables
    BY <1>1
  <1>2. CASE InsertPreparedSession(s)
    BY <1>2 DEF InsertPreparedSession
  <1>3. CASE UpdateStartThread(s)
    BY <1>3 DEF UpdateStartThread
  <1>4. CASE ClaimPreparedSession(s)
    BY <1>4 DEF ClaimPreparedSession
  <1>5. CASE \E ts \in {"PENDING", "BOUND"} : UpdateLaunchThread(s, ts)
    BY <1>5 DEF UpdateLaunchThread
  <1>6. CASE ReleaseLaunchClaim(s)
    BY <1>6 DEF ReleaseLaunchClaim
  <1>7. CASE UpdateToDecided(s)
    BY <1>7 DEF UpdateToDecided
  <1>8. CASE InsertBriefing(s)
    BY <1>8 DEF InsertBriefing
  <1>9. CASE InsertWatchTarget(s)
    BY <1>9 DEF InsertWatchTarget
  <1>10. CASE \E reason \in OffReasons : TurnOffWatchTarget(s, reason)
    BY <1>10 DEF TurnOffWatchTarget
  <1>11. CASE IncrementMessageCount(s)
    BY <1>11 DEF IncrementMessageCount
  <1>12. CASE TtlPasses(s)
    BY <1>12 DEF TtlPasses
  <1> QED
    BY <1>1, <1>2, <1>3, <1>4, <1>5, <1>6, <1>7, <1>8, <1>9, <1>10, <1>11, <1>12

LEMMA EnqueueType ==
  ASSUME StoreTypeOK, NEW s \in Sessions, NEW e \in ModeEvents, EnqueueEvent(s, e)
  PROVE  StoreTypeOK'
  <1>1. outbox' \in [Sessions -> Seq(ModeEvents)]
    <2>1. Append(outbox[s], e) \in Seq(ModeEvents)
      BY DEF StoreTypeOK
    <2> QED
      BY <2>1 DEF StoreTypeOK, EnqueueEvent
  <1> QED
    BY <1>1 DEF StoreTypeOK, EnqueueEvent, sessionTable

LEMMA DeleteType ==
  ASSUME StoreTypeOK, NEW s \in Sessions, DeleteSession(s)
  PROVE  StoreTypeOK'
  <1>1. outbox' \in [Sessions -> Seq(ModeEvents)]
    <2>1. <<>> \in Seq(ModeEvents)
      OBVIOUS
    <2> QED
      BY <2>1 DEF StoreTypeOK, DeleteSession
  <1>2. rounds' \in [Sessions -> SUBSET (Nat \ {0})]
    BY DEF StoreTypeOK, DeleteSession
  <1> QED
    BY <1>1, <1>2 DEF StoreTypeOK, DeleteSession

LEMMA NextRoundNoType ==
  ASSUME StoreTypeOK, NEW s \in Sessions, NEW n \in NextRoundNo(s)
  PROVE  n \in Nat \ {0}
  BY DEF StoreTypeOK, NextRoundNo, LatestRoundNo

LEMMA RoundTypes ==
  ASSUME StoreTypeOK, NEW s \in Sessions, NEW n \in Nat,
         \/ n # 0 /\ InsertRound(s, n)
         \/ DeleteRound(s, n)
  PROVE  StoreTypeOK'
  <1>1. CASE n # 0 /\ InsertRound(s, n)
    <2>1. rounds[s] \cup {n} \in SUBSET (Nat \ {0})
      BY <1>1 DEF StoreTypeOK
    <2>2. rounds' \in [Sessions -> SUBSET (Nat \ {0})]
      BY <1>1, <2>1 DEF StoreTypeOK, InsertRound
    <2> QED
      BY <1>1, <2>2 DEF StoreTypeOK, InsertRound, sessionTable
  <1>2. CASE DeleteRound(s, n)
    <2>1. rounds[s] \ {n} \in SUBSET (Nat \ {0})
      BY DEF StoreTypeOK
    <2>2. rounds' \in [Sessions -> SUBSET (Nat \ {0})]
      BY <1>2, <2>1 DEF StoreTypeOK, DeleteRound
    <2> QED
      BY <1>2, <2>2 DEF StoreTypeOK, DeleteRound, sessionTable
  <1> QED
    BY <1>1, <1>2

-----------------------------------------------------------------------------
(* Type correctness.  TypeOK alone is not inductive: a launch or stop uses  *)
(* tgt[c], and the scheduler xcur, as a session, which both are only while  *)
(* the command or the scheduler's run is in progress.                       *)

TargetKnown ==
  \A c \in Launches \cup Stops : InFlight(c) => tgt[c] \in Sessions

CursorKnown ==
  xpc \in {"decide", "turnOff", "offEvent"} => xcur \in Sessions

\* TypeOK without the tables, and what makes it inductive.
ControlInv ==
  /\ pc \in [Commands -> StartPCs \cup LaunchPCs \cup StopPCs]
  /\ \A c \in Commands :
       pc[c] \in IF c \in Starts THEN StartPCs
                 ELSE IF c \in Launches THEN LaunchPCs ELSE StopPCs
  /\ result \in [Commands -> Answers \cup {"pending"}]
  /\ tgt \in [Launches \cup Stops -> Sessions \cup {None}]
  /\ threadBound \subseteq Starts
  /\ roundNo \in [Launches -> Nat]
  /\ xpc \in ExpirePCs
  /\ xbatch \subseteq Sessions
  /\ xcur \in Sessions \cup {None}
  /\ faults \in Nat
  /\ crashes \in Nat
  /\ overlapped \subseteq Sessions
  /\ lost \subseteq Sessions
  /\ TargetKnown
  /\ CursorKnown

TypeInv == StoreTypeOK /\ ControlInv

LEMMA TypeInvImpliesTypeOK == TypeInv => TypeOK
  BY DEF TypeInv, ControlInv, TypeOK

LEMMA InitTypeInv == Init => TypeInv
  <1> SUFFICES ASSUME Init PROVE TypeInv
    OBVIOUS
  <1> USE DEF Init, StoreInit
  <1>1. StoreTypeOK
    BY DEF StoreTypeOK
  <1>2. TargetKnown /\ CursorKnown
    BY DEF TargetKnown, CursorKnown, InFlight, Commands, Starts
  <1>3. ControlInv
    BY <1>2 DEF ControlInv, Commands, Starts, Answers, StartPCs, LaunchPCs, StopPCs, ExpirePCs
  <1> QED
    BY <1>1, <1>3 DEF TypeInv

\* The program counters of a command.
PCsOf(c) == IF c \in Starts THEN StartPCs
            ELSE IF c \in Launches THEN LaunchPCs ELSE StopPCs

\* An exception is caught at a program counter of the command that threw it.
LEMMA HandlerType ==
  ASSUME ControlInv, NEW c \in Commands
  PROVE  HandlerOf(c) \in PCsOf(c)
  <1> USE CommandsAssumption DEF ControlInv, Commands, Starts, PCsOf, StartPCs,
        LaunchPCs, StopPCs, StartTry, LaunchTry, LaunchCore
  <1>1. CASE c \in Starts
    <2>1. pc[c] \in StartPCs
      BY <1>1
    <2>2. CASE pc[c] \in StartTry
      <3>1. HandlerOf(c) = "rollback"
        BY <1>1, <2>2 DEF HandlerOf
      <3> QED BY <1>1, <3>1
    <2>3. CASE pc[c] \notin StartTry
      <3>1. HandlerOf(c) = "done"
        BY <1>1, <2>1, <2>3 DEF HandlerOf
      <3> QED BY <1>1, <3>1
    <2> QED BY <2>2, <2>3
  <1>2. CASE c \in Launches
    <2>1. c \notin Starts /\ pc[c] \in LaunchPCs
      BY <1>2
    <2>2. HandlerOf(c) \in {"release", "undo", "findOn", "done"}
      BY <2>1 DEF HandlerOf
    <2> QED BY <1>2, <2>1, <2>2
  <1>3. CASE c \in Stops
    <2>1. c \notin Starts /\ c \notin Launches /\ pc[c] \in StopPCs
      BY <1>3
    <2>2. pc[c] # "sync" /\ pc[c] # "undo"
      BY <2>1
    <2>3. HandlerOf(c) = "done"
      BY <2>1, <2>2 DEF HandlerOf
    <2> QED BY <2>1, <2>3
  <1> QED
    BY <1>1, <1>2, <1>3

-----------------------------------------------------------------------------
(* The actions preserve TypeInv, one group of actions per lemma.            *)

LEMMA StartTypeInv ==
  ASSUME TypeInv, NEW a \in Starts, StartStep(a)
  PROVE  TypeInv'
  <1> USE CommandsAssumption DEF TypeInv
  <1>0. a \in Sessions /\ a \in Commands
    BY DEF Starts, Commands
  <1>1. StoreTypeOK'
    BY <1>0, StatementTypes, EnqueueType, DeleteType
       DEF StartStep, StartFind, StartReserve, StartBindThread, StartSaveBriefing,
           StartTurnOnWatch, StartAnnounceOn, StartRollback, ModeEvents
  <1>2. ControlInv'
    <2> USE <1>0 DEF ControlInv, TargetKnown, CursorKnown, Starts, Commands, InFlight, At,
          Goto, Answer, StartFrame, Frame, StartPCs, Answers, schedulerVars,
          boundVars, StartTry
    <2>1. CASE StartFind(a)
      BY <2>1 DEF StartFind
    <2>2. CASE StartReserve(a)
      BY <2>2 DEF StartReserve
    <2>3. CASE StartBindThread(a)
      BY <2>3, HandlerType DEF StartBindThread, ThrowInternal, Throw, PCsOf
    <2>4. CASE StartSaveBriefing(a)
      BY <2>4 DEF StartSaveBriefing
    <2>5. CASE StartTurnOnWatch(a)
      BY <2>5, HandlerType DEF StartTurnOnWatch, Throw, PCsOf
    <2>6. CASE StartAnnounceOn(a)
      BY <2>6 DEF StartAnnounceOn
    <2>7. CASE StartRollback(a)
      BY <2>7 DEF StartRollback
    <2> QED
      BY <2>1, <2>2, <2>3, <2>4, <2>5, <2>6, <2>7 DEF StartStep
  <1> QED
    BY <1>1, <1>2

LEMMA ModeTypeInv ==
  ASSUME TypeInv, NEW c \in Launches \cup Stops, ModeStep(c)
  PROVE  TypeInv'
  <1> USE CommandsAssumption DEF TypeInv
  <1>0. tgt[c] \in Sessions /\ c \in Commands /\ c \notin Starts
    BY DEF ControlInv, TargetKnown, InFlight, ModeStep, ModeFindOn, ModeTurnOff,
           ModeAnnounceOff, At, Commands, Starts
  <1>1. StoreTypeOK'
    BY <1>0, StatementTypes, EnqueueType
       DEF ModeStep, ModeFindOn, ModeTurnOff, ModeAnnounceOff, ModeEvents, OffReasons,
           ReasonOf
  <1>2. ControlInv'
    <2> USE <1>0 DEF ControlInv, TargetKnown, CursorKnown, Commands, InFlight, At,
          Goto, Answer, ModeFrame, Frame, LaunchPCs, LaunchCore, LaunchTry, StopPCs,
          Answers, schedulerVars, boundVars, AfterModeOff
    <2>1. CASE ModeFindOn(c)
      BY <2>1 DEF ModeFindOn
    <2>2. CASE ModeTurnOff(c)
      BY <2>2 DEF ModeTurnOff
    <2>3. CASE ModeAnnounceOff(c)
      BY <2>3, HandlerType DEF ModeAnnounceOff, ThrowInternal, Throw, PCsOf
    <2> QED
      BY <2>1, <2>2, <2>3 DEF ModeStep
  <1> QED
    BY <1>1, <1>2

LEMMA LaunchTypeInv ==
  ASSUME TypeInv, NEW l \in Launches, LaunchStep(l)
  PROVE  TypeInv'
  <1> USE CommandsAssumption DEF TypeInv
  <1>0. l \in Commands /\ l \notin Starts
    BY DEF Commands, Starts
  <1> DEFINE Later == \/ LaunchEnsureReady(l) \/ LaunchClaim(l)
                      \/ LaunchReserveMetadata(l) \/ LaunchCreateRound(l)
                      \/ LaunchCreateThread(l) \/ LaunchSyncThread(l)
                      \/ LaunchUndoRound(l) \/ LaunchRelease(l)
  <1>1. CASE LaunchFind(l)
    <2>1. StoreTypeOK'
      BY <1>1 DEF LaunchFind, tables, StoreTypeOK
    <2>2. ControlInv'
      BY <1>0, <1>1
         DEF LaunchFind, ControlInv, TargetKnown, CursorKnown, Commands, InFlight, At,
             Goto, Answer, Found, Frame, LaunchPCs, Answers, schedulerVars, boundVars, Active
    <2> QED BY <2>1, <2>2
  <1>2. CASE Later
    <2>0. tgt[l] \in Sessions
      BY <1>2 DEF ControlInv, TargetKnown, InFlight, At, LaunchEnsureReady, LaunchClaim,
           LaunchReserveMetadata, LaunchCreateRound, LaunchCreateThread,
           LaunchSyncThread, LaunchUndoRound, LaunchRelease
    <2>1. StoreTypeOK'
      <3>1. CASE LaunchCreateRound(l)
        BY <2>0, <3>1, NextRoundNoType, RoundTypes DEF LaunchCreateRound
      <3>2. CASE LaunchUndoRound(l)
        <4>1. roundNo[l] \in Nat
          BY DEF ControlInv
        <4> QED BY <2>0, <3>2, <4>1, RoundTypes DEF LaunchUndoRound
      <3>3. CASE ~LaunchCreateRound(l) /\ ~LaunchUndoRound(l)
        BY <1>2, <2>0, <3>3, StatementTypes
           DEF LaunchEnsureReady, LaunchClaim, LaunchReserveMetadata,
               LaunchCreateThread, LaunchSyncThread, LaunchRelease
      <3> QED BY <3>1, <3>2, <3>3
    <2>2. ControlInv'
      <3> USE <1>0, <2>0 DEF ControlInv, TargetKnown, CursorKnown, Commands, InFlight, At,
            Goto, Answer, LaunchFrame, Frame, LaunchPCs, LaunchCore, LaunchTry,
            Answers, schedulerVars, boundVars
      <3>1. CASE LaunchEnsureReady(l)
        BY <3>1 DEF LaunchEnsureReady
      <3>2. CASE LaunchClaim(l)
        BY <3>2 DEF LaunchClaim
      <3>3. CASE LaunchReserveMetadata(l)
        BY <3>3, HandlerType DEF LaunchReserveMetadata, ThrowInternal, Throw, PCsOf
      <3>4. CASE LaunchCreateRound(l)
        BY <3>4, NextRoundNoType DEF LaunchCreateRound
      <3>5. CASE LaunchCreateThread(l)
        BY <3>5 DEF LaunchCreateThread
      <3>6. CASE LaunchSyncThread(l)
        BY <3>6 DEF LaunchSyncThread
      <3>7. CASE LaunchUndoRound(l)
        BY <3>7 DEF LaunchUndoRound
      <3>8. CASE LaunchRelease(l)
        BY <3>8 DEF LaunchRelease
      <3> QED
        BY <1>2, <3>1, <3>2, <3>3, <3>4, <3>5, <3>6, <3>7, <3>8
    <2> QED BY <2>1, <2>2
  <1> QED
    BY <1>1, <1>2, ModeTypeInv DEF LaunchStep

LEMMA StopTypeInv ==
  ASSUME TypeInv, NEW p \in Stops, StopStep(p)
  PROVE  TypeInv'
  <1> USE CommandsAssumption DEF TypeInv
  <1>0. p \in Commands /\ p \notin Starts /\ p \notin Launches
    BY DEF Commands, Starts
  <1> USE <1>0 DEF ControlInv, TargetKnown, CursorKnown, Commands, InFlight, At, Goto,
        Answer, Frame, StopPCs, Answers, schedulerVars, boundVars
  <1>1. CASE StopFind(p)
    <2>1. StoreTypeOK'
      BY <1>1 DEF StopFind, tables, StoreTypeOK
    <2>2. ControlInv'
      BY <1>1 DEF StopFind, Found, Active
    <2> QED BY <2>1, <2>2
  <1>2. CASE StopDecide(p)
    <2>1. tgt[p] \in Sessions
      BY <1>2 DEF StopDecide
    <2>2. StoreTypeOK'
      BY <1>2, <2>1, StatementTypes DEF StopDecide
    <2>3. ControlInv'
      BY <1>2, HandlerType DEF StopDecide, ThrowInternal, Throw, PCsOf, ModeFrame
    <2> QED BY <2>2, <2>3
  <1> QED
    BY <1>1, <1>2, ModeTypeInv DEF StopStep

LEMMA ExpireTypeInv ==
  ASSUME TypeInv, ExpireStep
  PROVE  TypeInv'
  <1> USE DEF TypeInv
  <1>1. StoreTypeOK'
    <2>1. CASE ExpireScan \/ ExpireLoad
      BY <2>1 DEF ExpireScan, ExpireLoad, tables, StoreTypeOK
    <2>2. CASE ExpireDecide \/ ExpireTurnOff \/ ExpireAnnounceOff
      <3>1. xcur \in Sessions
        BY <2>2 DEF ControlInv, CursorKnown, ExpireDecide, ExpireTurnOff, ExpireAnnounceOff
      <3> QED
        BY <2>2, <3>1, StatementTypes, EnqueueType
           DEF ExpireDecide, ExpireTurnOff, ExpireAnnounceOff, OffReasons, ModeEvents
    <2> QED
      BY <2>1, <2>2 DEF ExpireStep
  <1>2. ControlInv'
    <2>1. /\ UNCHANGED <<commandVars, boundVars, historyVars>>
          /\ xpc' \in ExpirePCs
          /\ xbatch' \subseteq Sessions
          /\ xcur' \in Sessions \cup {None}
          /\ CursorKnown'
      BY DEF ControlInv, StoreTypeOK, CursorKnown, ExpireStep, ExpireScan, ExpireLoad,
             ExpireDecide, ExpireTurnOff, ExpireAnnounceOff, ExpireFrame, NextTarget,
             AbortBatch, ExpirePCs
    <2> QED
      BY <2>1 DEF ControlInv, TargetKnown, InFlight, commandVars, boundVars, historyVars
  <1> QED
    BY <1>1, <1>2

LEMMA FaultTypeInv ==
  ASSUME TypeInv, NEW c \in Commands, CallFails(c) \/ ReadBackFails(c)
  PROVE  TypeInv'
  <1> USE CommandsAssumption DEF TypeInv
  <1>1. pc[c] \in PCsOf(c) /\ SessionOf(c) \in Sessions \cup {None}
    BY DEF ControlInv, PCsOf, SessionOf, Commands, Starts
  <1>2. pc[c] \notin {"idle", "done"} => SessionOf(c) \in Sessions
    BY DEF ControlInv, SessionOf, Commands, Starts, TargetKnown, InFlight
  <1>3. StoreTypeOK'
    <2>1. CASE CallFails(c)
      BY <2>1 DEF CallFails, tables, StoreTypeOK
    <2>2. CASE ReadBackFails(c)
      <3>1. CASE At(c, "round")
        <4>1. c \in Launches /\ SessionOf(c) = tgt[c]
          BY <1>1, <3>1 DEF At, PCsOf, SessionOf, StartPCs, StartTry, StopPCs, Commands, Starts
        <4>2. \E n \in NextRoundNo(tgt[c]) : InsertRound(tgt[c], n)
          BY <2>2, <3>1 DEF ReadBackFails, WriteOf, At
        <4> QED
          BY <1>2, <3>1, <4>1, <4>2, NextRoundNoType, RoundTypes DEF At
      <3>2. CASE At(c, "reserve") \/ At(c, "bind") \/ At(c, "briefing") \/ At(c, "watch")
        <4>1. c \in Sessions
          BY <1>1, <3>2 DEF At, PCsOf, LaunchPCs, LaunchCore, LaunchTry, StopPCs, Starts
        <4> QED
          BY <2>2, <3>2, <4>1, StatementTypes DEF ReadBackFails, WriteOf, At
      <3>3. CASE At(c, "meta") \/ At(c, "sync") \/ At(c, "turnOff") \/ At(c, "decide")
        <4>1. tgt[c] \in Sessions
          BY <1>1, <1>2, <3>3 DEF At, PCsOf, StartPCs, StartTry, SessionOf
        <4> QED
          BY <2>2, <3>3, <4>1, StatementTypes DEF ReadBackFails, WriteOf, At, ReasonOf, OffReasons
      <3> QED
        BY <2>2, <3>1, <3>2, <3>3 DEF ReadBackFails, WriteOf
    <2> QED
      BY <2>1, <2>2
  <1>4. pc[c] \notin {"idle", "done"} => lost' \subseteq Sessions
    BY <1>2 DEF CallFails, ReadBackFails, ControlInv
  <1>5. lost' \subseteq Sessions
    <2>1. CASE pc[c] \in {"idle", "done"}
      BY <2>1 DEF CallFails, ReadBackFails, WriteOf, At, ControlInv
    <2> QED BY <1>4, <2>1
  <1>6. /\ pc' = [pc EXCEPT ![c] = HandlerOf(c)]
        /\ result' \in [Commands -> Answers \cup {"pending"}]
        /\ faults' \in Nat
        /\ UNCHANGED <<tgt, threadBound, roundNo, crashes, overlapped, schedulerVars>>
    BY DEF CallFails, ReadBackFails, ThrowInternal, Throw, FaultFrame, ControlInv, Answers
  <1>7. pc[c] = "idle" => HandlerOf(c) = "done"
    BY DEF HandlerOf, StartTry, LaunchTry
  <1>8. ControlInv'
    BY <1>5, <1>6, <1>7, HandlerType
       DEF ControlInv, TargetKnown, CursorKnown, InFlight, schedulerVars, PCsOf, CallFails,
           ReadBackFails, WriteOf, At, Commands
  <1> QED
    BY <1>3, <1>8

LEMMA ExpireFailsTypeInv ==
  ASSUME TypeInv, ExpireFails
  PROVE  TypeInv'
  <1> USE DEF TypeInv
  <1>1. xpc \in {"turnOff", "offEvent"} => xcur \in Sessions
    BY DEF ControlInv, CursorKnown
  <1>2. StoreTypeOK'
    BY <1>1, StatementTypes DEF ExpireFails, OffReasons, tables, StoreTypeOK
  <1>3. ControlInv'
    BY <1>1 DEF ExpireFails, ControlInv, AbortBatch, FaultFrame, ExpirePCs, TargetKnown,
         CursorKnown, InFlight
  <1> QED
    BY <1>2, <1>3

LEMMA CrashTypeInv ==
  ASSUME TypeInv, Crash
  PROVE  TypeInv'
  <1> USE CommandsAssumption DEF TypeInv
  <1>1. StoreTypeOK'
    BY DEF Crash, tables, StoreTypeOK
  <1>2. \A c \in Commands : pc'[c] = (IF InFlight(c) THEN "done" ELSE pc[c])
    BY DEF Crash
  <1>3. \A c \in Commands : "done" \in PCsOf(c)
    BY DEF PCsOf, StartPCs, LaunchPCs, StopPCs
  <1>4. /\ \A c \in Commands : pc'[c] \in PCsOf(c)
        /\ pc' \in [Commands -> StartPCs \cup LaunchPCs \cup StopPCs]
    BY <1>2, <1>3 DEF Crash, ControlInv, PCsOf
  <1>5. \A c \in Commands : At(c, "offEvent") => SessionOf(c) \in Sessions
    BY DEF At, ControlInv, TargetKnown, InFlight, Commands, Starts, SessionOf
  <1>6. lost' \subseteq Sessions
    BY <1>5 DEF Crash, ControlInv, CursorKnown
  <1>7. result' \in [Commands -> Answers \cup {"pending"}]
    BY DEF Crash, ControlInv, Answers
  <1>8. crashes' \in Nat /\ xpc' = "idle" /\ xbatch' = {} /\ xcur' = None
    BY DEF Crash, ControlInv, AbortBatch
  <1>9. TargetKnown'
    BY <1>2 DEF Crash, ControlInv, TargetKnown, InFlight, Commands
  <1>10. ControlInv'
    BY <1>4, <1>6, <1>7, <1>8, <1>9 DEF Crash, ControlInv, CursorKnown, PCsOf, ExpirePCs
  <1> QED
    BY <1>1, <1>10

LEMMA NextTypeInv == TypeInv /\ [Next]_vars => TypeInv'
  <1> SUFFICES ASSUME TypeInv, [Next]_vars PROVE TypeInv'
    OBVIOUS
  <1>1. CASE UNCHANGED vars
    BY <1>1 DEF TypeInv, StoreTypeOK, ControlInv, TargetKnown, CursorKnown, InFlight, vars,
         tables, commandVars, schedulerVars, boundVars, historyVars
  <1>2. ASSUME NEW s \in Sessions, MessageArrives(s) \/ TimePasses(s) PROVE TypeInv'
    <2>1. StoreTypeOK'
      BY <1>2, StatementTypes DEF MessageArrives, TimePasses, TypeInv
    <2>2. ControlInv'
      BY <1>2 DEF MessageArrives, TimePasses, TypeInv, NoCommandMoves, ControlInv, TargetKnown,
           CursorKnown, InFlight, commandVars, schedulerVars, boundVars, historyVars
    <2> QED BY <2>1, <2>2 DEF TypeInv
  <1> QED
    BY <1>1, <1>2, StartTypeInv, LaunchTypeInv, StopTypeInv, ExpireTypeInv, FaultTypeInv,
       ExpireFailsTypeInv, CrashTypeInv DEF Next

\* The tables and the control state always have their types; in particular a
\* launch or stop in progress works on a session, never on None.
THEOREM TypeCorrect == Spec => []TypeOK
  <1>1. Spec => []TypeInv
    BY InitTypeInv, NextTypeInv, PTL DEF Spec
  <1> QED
    BY <1>1, TypeInvImpliesTypeOK, PTL

-----------------------------------------------------------------------------
(* What one step can do to the state of a session and to its watch target.  *)

SessionStep(s) ==
  \/ /\ At(s, "reserve") /\ pc'[s] \notin {"idle", "reserve"}
     /\ MayInsertSession /\ state' = [state EXCEPT ![s] = "PREPARED"]
  \/ IsPrepared(s) /\ state' = [state EXCEPT ![s] = "RUNNING"]
  \/ /\ \E k \in Launches : pc[k] \in LaunchCore /\ tgt[k] = s /\ pc'[k] = "done"
     /\ IsRunning(s) /\ state' = [state EXCEPT ![s] = "PREPARED"]
  \/ IsActive(s) /\ state' = [state EXCEPT ![s] = "DECIDED"]
  \/ IsPrepared(s) /\ state' = [state EXCEPT ![s] = "ABSENT"]

WatchStep(s) ==
  \/ MayInsertWatch /\ watch' = [watch EXCEPT ![s] = "ON"]
  \/ \E r \in OffReasons \cup {"NONE"} : watch' = [watch EXCEPT ![s] = r]

LEMMA StartSteps ==
  ASSUME TypeInv, NEW a \in Starts, StartStep(a)
  PROVE  /\ UNCHANGED state \/ \E s \in Sessions : SessionStep(s)
         /\ UNCHANGED watch \/ \E s \in Sessions : WatchStep(s)
  <1> USE DEF Starts, SessionStep, WatchStep
  <1>1. CASE StartReserve(a)
    BY <1>1 DEF StartReserve, InsertPreparedSession, tables, Goto, TypeInv, ControlInv, Commands
  <1>2. CASE StartTurnOnWatch(a)
    BY <1>2 DEF StartTurnOnWatch, InsertWatchTarget, tables, sessionTable
  <1>3. CASE StartRollback(a)
    BY <1>3 DEF StartRollback, DeleteSession, MayDeleteReserved, tables
  <1>4. CASE StartFind(a) \/ StartBindThread(a) \/ StartSaveBriefing(a) \/ StartAnnounceOn(a)
    BY <1>4 DEF StartFind, StartBindThread, StartSaveBriefing, StartAnnounceOn, tables,
         UpdateStartThread, InsertBriefing, EnqueueEvent, sessionTable
  <1> QED
    BY <1>1, <1>2, <1>3, <1>4 DEF StartStep

LEMMA ModeSteps ==
  ASSUME TypeInv, NEW c \in Launches \cup Stops, ModeStep(c)
  PROVE  /\ UNCHANGED state
         /\ UNCHANGED watch \/ \E s \in Sessions : WatchStep(s)
  <1>1. tgt[c] \in Sessions
    BY DEF TypeInv, ControlInv, TargetKnown, InFlight, ModeStep, ModeFindOn, ModeTurnOff,
           ModeAnnounceOff, At
  <1> QED
    BY <1>1 DEF ModeStep, ModeFindOn, ModeTurnOff, ModeAnnounceOff, tables, WatchStep, ReasonOf,
         OffReasons, TurnOffWatchTarget, EnqueueEvent, sessionTable

LEMMA LaunchSteps ==
  ASSUME TypeInv, NEW l \in Launches, LaunchStep(l)
  PROVE  /\ UNCHANGED state \/ \E s \in Sessions : SessionStep(s)
         /\ UNCHANGED watch \/ \E s \in Sessions : WatchStep(s)
  <1>1. CASE LaunchClaim(l)
    <2>1. tgt[l] \in Sessions
      BY <1>1 DEF TypeInv, ControlInv, TargetKnown, InFlight, LaunchClaim, At
    <2> QED
      BY <1>1, <2>1 DEF LaunchClaim, ClaimPreparedSession, tables, SessionStep
  <1>2. CASE LaunchRelease(l)
    <2>1. tgt[l] \in Sessions
      BY <1>2 DEF TypeInv, ControlInv, TargetKnown, InFlight, LaunchRelease, At
    <2> QED
      BY <1>2, <2>1 DEF LaunchRelease, ReleaseLaunchClaim, tables, SessionStep, At, Goto,
           LaunchCore, TypeInv, ControlInv, Commands
  <1>3. CASE \/ LaunchFind(l) \/ LaunchEnsureReady(l) \/ LaunchReserveMetadata(l)
             \/ LaunchCreateRound(l) \/ LaunchCreateThread(l) \/ LaunchSyncThread(l)
             \/ LaunchUndoRound(l)
    BY <1>3 DEF LaunchFind, LaunchEnsureReady, LaunchReserveMetadata, LaunchCreateRound,
         LaunchCreateThread, LaunchSyncThread, LaunchUndoRound, tables, sessionTable,
         UpdateLaunchThread, InsertRound, DeleteRound
  <1> QED
    BY <1>1, <1>2, <1>3, ModeSteps DEF LaunchStep

LEMMA StopSteps ==
  ASSUME TypeInv, NEW p \in Stops, StopStep(p)
  PROVE  /\ UNCHANGED state \/ \E s \in Sessions : SessionStep(s)
         /\ UNCHANGED watch \/ \E s \in Sessions : WatchStep(s)
  <1>1. CASE StopFind(p)
    BY <1>1 DEF StopFind, tables
  <1>2. CASE StopDecide(p)
    <2>1. tgt[p] \in Sessions
      BY <1>2 DEF TypeInv, ControlInv, TargetKnown, InFlight, StopDecide, At
    <2> QED
      BY <1>2, <2>1 DEF StopDecide, UpdateToDecided, tables, SessionStep
  <1> QED
    BY <1>1, <1>2, ModeSteps DEF StopStep

LEMMA ExpireSteps ==
  ASSUME TypeInv, ExpireStep \/ ExpireFails
  PROVE  /\ UNCHANGED state \/ \E s \in Sessions : SessionStep(s)
         /\ UNCHANGED watch \/ \E s \in Sessions : WatchStep(s)
  <1> USE DEF SessionStep, WatchStep, OffReasons, tables, sessionTable, TurnOffWatchTarget
  <1>1. xpc \in {"decide", "turnOff", "offEvent"} => xcur \in Sessions
    BY DEF TypeInv, ControlInv, CursorKnown
  <1>2. CASE ExpireDecide
    BY <1>1, <1>2 DEF ExpireDecide, UpdateToDecided
  <1>3. CASE ExpireTurnOff
    BY <1>1, <1>3 DEF ExpireTurnOff
  <1>4. CASE ExpireScan \/ ExpireLoad \/ ExpireAnnounceOff
    BY <1>4 DEF ExpireScan, ExpireLoad, ExpireAnnounceOff, EnqueueEvent
  <1>5. CASE ExpireFails
    BY <1>1, <1>5 DEF ExpireFails
  <1> QED
    BY <1>2, <1>3, <1>4, <1>5 DEF ExpireStep

LEMMA FaultSteps ==
  ASSUME TypeInv, NEW c \in Commands, CallFails(c) \/ ReadBackFails(c)
  PROVE  /\ UNCHANGED state \/ \E s \in Sessions : SessionStep(s)
         /\ UNCHANGED watch \/ \E s \in Sessions : WatchStep(s)
  <1> USE CommandsAssumption DEF SessionStep, WatchStep, OffReasons, tables, sessionTable
  <1>1. CASE CallFails(c)
    BY <1>1 DEF CallFails
  <1>2. CASE ReadBackFails(c)
    <2>1. pc[c] \in PCsOf(c)
      BY DEF TypeInv, ControlInv, PCsOf
    <2>2. pc[c] \in {"reserve", "watch"} => c \in Sessions
      BY <2>1 DEF PCsOf, LaunchPCs, LaunchCore, LaunchTry, StopPCs, Starts
    <2>3. pc[c] \in {"meta", "sync", "turnOff", "decide"} => tgt[c] \in Sessions
      BY <2>1 DEF PCsOf, StartPCs, StartTry, Commands, TypeInv, ControlInv, TargetKnown, InFlight
    <2>4. WriteOf(c)
      BY <1>2 DEF ReadBackFails
    <2>5. pc[c] = "reserve" => pc'[c] = "done"
      <3>1. pc[c] = "reserve" => HandlerOf(c) = "done"
        BY DEF HandlerOf, StartTry, LaunchTry
      <3> QED
        BY <1>2, <3>1 DEF ReadBackFails, ThrowInternal, Throw, TypeInv, ControlInv
    <2> QED
      BY <2>2, <2>3, <2>4, <2>5 DEF WriteOf, At, ReasonOf, InsertPreparedSession, UpdateStartThread,
           InsertBriefing, InsertWatchTarget, UpdateLaunchThread, InsertRound,
           TurnOffWatchTarget, UpdateToDecided
  <1> QED
    BY <1>1, <1>2

LEMMA TableSteps ==
  ASSUME TypeInv, [Next]_vars
  PROVE  /\ UNCHANGED state \/ \E s \in Sessions : SessionStep(s)
         /\ UNCHANGED watch \/ \E s \in Sessions : WatchStep(s)
  <1>1. CASE UNCHANGED vars \/ Crash
    BY <1>1 DEF vars, tables, Crash
  <1>2. CASE \E s \in Sessions : MessageArrives(s) \/ TimePasses(s)
    BY <1>2 DEF MessageArrives, TimePasses, IncrementMessageCount, TtlPasses, sessionTable
  <1> QED
    BY <1>1, <1>2, StartSteps, LaunchSteps, StopSteps, ExpireSteps, FaultSteps DEF Next

-----------------------------------------------------------------------------
(* The channel has one active session and one ON watch target.              *)

OneInv == TypeInv /\ AtMostOneActive /\ AtMostOneWatching

LEMMA NextOneInv == OneInv /\ [Next]_vars => OneInv'
  <1> SUFFICES ASSUME OneInv, [Next]_vars PROVE OneInv'
    OBVIOUS
  <1>1. TypeInv /\ TypeInv'
    BY NextTypeInv DEF OneInv
  <1>2. AtMostOneActive'
    <2>1. CASE UNCHANGED state
      BY <2>1 DEF OneInv, AtMostOneActive, Active, IsActive
    <2>2. ASSUME NEW s \in Sessions, SessionStep(s) PROVE AtMostOneActive'
      <3>1. \A t \in Sessions : t # s => state'[t] = state[t]
        BY <1>1, <2>2 DEF SessionStep, TypeInv, StoreTypeOK
      <3>2. Active = {} \/ IsActive(s)
        BY <2>2 DEF SessionStep, MayInsertSession, IsActive, IsPrepared, IsRunning
      <3>3. \A t \in Active' : t = s
        BY <3>1, <3>2 DEF OneInv, AtMostOneActive, Active, IsActive
      <3> QED
        BY <3>3 DEF AtMostOneActive
    <2> QED
      BY <1>1, <2>1, <2>2, TableSteps
  <1>3. AtMostOneWatching'
    <2>1. CASE UNCHANGED watch
      BY <2>1 DEF OneInv, AtMostOneWatching, Watching
    <2>2. ASSUME NEW s \in Sessions, WatchStep(s) PROVE AtMostOneWatching'
      <3>1. \A t \in Sessions : t # s => watch'[t] = watch[t]
        BY <1>1, <2>2 DEF WatchStep, TypeInv, StoreTypeOK
      <3>2. Watching = {} \/ watch'[s] # "ON"
        BY <1>1, <2>2 DEF WatchStep, MayInsertWatch, OffReasons, TypeInv, StoreTypeOK
      <3> QED
        BY <3>1, <3>2 DEF OneInv, AtMostOneWatching, Watching
    <2> QED
      BY <1>1, <2>1, <2>2, TableSteps
  <1> QED
    BY <1>1, <1>2, <1>3 DEF OneInv

LEMMA SpecOneInv == Spec => []OneInv
  <1>1. Init => OneInv
    BY InitTypeInv DEF OneInv, Init, StoreInit, AtMostOneActive, Active, IsActive,
         AtMostOneWatching, Watching
  <1> QED
    BY <1>1, NextOneInv, PTL DEF Spec

\* However many starts race, the channel never has two active sessions: every
\* INSERT meets the unique index and no other statement activates a session.
THEOREM OneActiveSession == Spec => []AtMostOneActive
  BY SpecOneInv, PTL DEF OneInv

\* Nor two ON watch targets, whatever orphan a stop that overtook a start left.
THEOREM OneWatchTarget == Spec => []AtMostOneWatching
  BY SpecOneInv, PTL DEF OneInv

-----------------------------------------------------------------------------
(* DECIDED is final and a launch owns its session.  The row of a start that *)
(* has not reserved does not exist yet; the session of a launch between its *)
(* claim and its answer is RUNNING or DECIDED, so no second claim finds it. *)

NotYetInserted ==
  \A a \in Starts : pc[a] \in {"idle", "reserve"} => state[a] = "ABSENT"

CoreOwns ==
  \A l \in Launches : pc[l] \in LaunchCore => state[tgt[l]] \in {"RUNNING", "DECIDED"}

LaunchInv == TypeInv /\ NotYetInserted /\ CoreOwns /\ LaunchExclusive

\* No start returns to a program counter before its reservation.
LEMMA StartPcSteps ==
  ASSUME TypeInv, [Next]_vars, NEW a \in Starts, pc'[a] \in {"idle", "reserve"}
  PROVE  pc[a] \in {"idle", "reserve"}
  <1> USE CommandsAssumption DEF Goto, Answer, Throw, ThrowInternal, TypeInv, ControlInv,
        Starts, Commands, At
  <1>1. ASSUME NEW b \in Starts, StartStep(b) PROVE pc[a] \in {"idle", "reserve"}
    <2>1. HandlerOf(b) = "done" \/ HandlerOf(b) = "rollback" \/ b \notin Sessions
      BY HandlerType DEF PCsOf, HandlerOf, StartPCs, StartTry
    <2> QED
      BY <1>1, <2>1 DEF StartStep, StartFind, StartReserve, StartBindThread,
           StartSaveBriefing, StartTurnOnWatch, StartAnnounceOn, StartRollback
  <1>2. ASSUME NEW c \in Launches \cup Stops, ModeStep(c) PROVE pc'[a] = pc[a]
    BY <1>2 DEF ModeStep, ModeFindOn, ModeTurnOff, ModeAnnounceOff, AfterModeOff
  <1>3. ASSUME NEW l \in Launches, LaunchStep(l) PROVE pc'[a] = pc[a]
    BY <1>2, <1>3 DEF LaunchStep, LaunchFind, LaunchEnsureReady, LaunchClaim,
         LaunchReserveMetadata, LaunchCreateRound, LaunchCreateThread, LaunchSyncThread,
         LaunchUndoRound, LaunchRelease
  <1>4. ASSUME NEW p \in Stops, StopStep(p) PROVE pc'[a] = pc[a]
    BY <1>2, <1>4 DEF StopStep, StopFind, StopDecide
  <1>5. ASSUME NEW c \in Commands, CallFails(c) \/ ReadBackFails(c)
        PROVE  pc[a] \in {"idle", "reserve"}
    <2>1. CASE c = a
      <3>1. HandlerOf(c) \in {"done", "rollback"}
        BY <2>1 DEF HandlerOf, LaunchTry, StartTry, LaunchCore, PCsOf, StartPCs
      <3> QED
        BY <1>5, <2>1, <3>1 DEF CallFails, ReadBackFails
    <2>2. CASE c # a
      BY <1>5, <2>2 DEF CallFails, ReadBackFails
    <2> QED BY <2>1, <2>2
  <1>6. CASE Crash
    BY <1>6 DEF Crash, InFlight
  <1>7. CASE \/ UNCHANGED vars \/ ExpireStep \/ ExpireFails
             \/ \E s \in Sessions : MessageArrives(s) \/ TimePasses(s)
    BY <1>7 DEF vars, commandVars, ExpireStep, ExpireScan, ExpireLoad, ExpireDecide,
         ExpireTurnOff, ExpireAnnounceOff, ExpireFrame, ExpireFails, MessageArrives,
         TimePasses, NoCommandMoves
  <1> QED
    BY <1>1, <1>3, <1>4, <1>5, <1>6, <1>7 DEF Next

\* A launch enters its core by its claim only, with the session it found, and
\* stays with it.
LEMMA LaunchPcSteps ==
  ASSUME TypeInv, [Next]_vars, NEW l \in Launches, pc'[l] \in LaunchCore
  PROVE  /\ tgt'[l] = tgt[l]
         /\ \/ pc[l] \in LaunchCore
            \/ /\ IsPrepared(tgt[l]) /\ tgt[l] \in Sessions
               /\ state' = [state EXCEPT ![tgt[l]] = "RUNNING"]
               /\ \A k \in Launches : k # l => pc'[k] = pc[k]
  <1> USE CommandsAssumption DEF Goto, Answer, Throw, ThrowInternal, TypeInv, ControlInv,
        Starts, Commands, At
  <1>1. ASSUME NEW a \in Starts, StartStep(a) PROVE pc'[l] = pc[l] /\ tgt' = tgt
    BY <1>1 DEF StartStep, StartFind, StartReserve, StartBindThread,
           StartSaveBriefing, StartTurnOnWatch, StartAnnounceOn, StartRollback, StartFrame
  <1>2. ASSUME NEW c \in Launches \cup Stops, ModeStep(c)
        PROVE  tgt' = tgt /\ pc[l] \in LaunchCore
    BY <1>2 DEF ModeStep, ModeFindOn, ModeTurnOff, ModeAnnounceOff, AfterModeOff, ModeFrame,
         LaunchCore, LaunchTry
  <1>3. ASSUME NEW k \in Launches, LaunchFind(k)
        PROVE  tgt'[l] = tgt[l] /\ pc[l] \in LaunchCore
    BY <1>3 DEF LaunchFind, Found, LaunchCore, LaunchTry
  <1>4. ASSUME NEW k \in Launches,
               \/ LaunchEnsureReady(k) \/ LaunchReserveMetadata(k)
               \/ LaunchCreateRound(k) \/ LaunchCreateThread(k) \/ LaunchSyncThread(k)
               \/ LaunchUndoRound(k) \/ LaunchRelease(k)
        PROVE  tgt' = tgt /\ pc[l] \in LaunchCore
    BY <1>4 DEF LaunchEnsureReady, LaunchReserveMetadata, LaunchCreateRound,
         LaunchCreateThread, LaunchSyncThread, LaunchUndoRound, LaunchRelease, LaunchFrame,
         LaunchCore, LaunchTry
  <1>5. ASSUME NEW k \in Launches, LaunchClaim(k), k # l
        PROVE  tgt' = tgt /\ pc[l] \in LaunchCore
    BY <1>5 DEF LaunchClaim, LaunchFrame
  <1>6. ASSUME LaunchClaim(l)
        PROVE  /\ tgt' = tgt /\ IsPrepared(tgt[l]) /\ tgt[l] \in Sessions
               /\ state' = [state EXCEPT ![tgt[l]] = "RUNNING"]
               /\ \A k \in Launches : k # l => pc'[k] = pc[k]
    BY <1>6 DEF LaunchClaim, LaunchFrame, ClaimPreparedSession, LaunchCore, LaunchTry,
         TargetKnown, InFlight
  <1>7. ASSUME NEW p \in Stops, StopFind(p) \/ StopDecide(p)
        PROVE  tgt'[l] = tgt[l] /\ pc'[l] = pc[l]
    BY <1>7 DEF StopFind, StopDecide, Found, ModeFrame
  <1>8. ASSUME NEW c \in Commands, CallFails(c) \/ ReadBackFails(c)
        PROVE  tgt' = tgt /\ pc[l] \in LaunchCore
    <2>1. CASE c = l
      <3>1. pc[l] \notin LaunchCore => HandlerOf(c) = "done"
        BY <2>1 DEF HandlerOf, LaunchCore
      <3> QED
        BY <1>8, <2>1, <3>1 DEF CallFails, ReadBackFails, FaultFrame, LaunchCore, LaunchTry
    <2>2. CASE c # l
      BY <1>8, <2>2 DEF CallFails, ReadBackFails, FaultFrame
    <2> QED BY <2>1, <2>2
  <1>9. CASE Crash
    BY <1>9 DEF Crash, InFlight, LaunchCore, LaunchTry
  <1>10. CASE \/ UNCHANGED vars \/ ExpireStep \/ ExpireFails
              \/ \E s \in Sessions : MessageArrives(s) \/ TimePasses(s)
    BY <1>10 DEF vars, commandVars, ExpireStep, ExpireScan, ExpireLoad, ExpireDecide,
         ExpireTurnOff, ExpireAnnounceOff, ExpireFrame, ExpireFails, MessageArrives,
         TimePasses, NoCommandMoves, FaultFrame
  <1>11. ASSUME NEW k \in Launches, LaunchStep(k)
         PROVE  \/ tgt'[l] = tgt[l] /\ pc[l] \in LaunchCore
                \/ LaunchClaim(l)
    BY <1>2, <1>3, <1>4, <1>5, <1>11 DEF LaunchStep
  <1> QED
    BY <1>1, <1>2, <1>6, <1>7, <1>8, <1>9, <1>10, <1>11 DEF Next, StopStep

LEMMA NextLaunchInv == LaunchInv /\ [Next]_vars => LaunchInv'
  <1> SUFFICES ASSUME LaunchInv, [Next]_vars PROVE LaunchInv'
    OBVIOUS
  <1>1. TypeInv /\ TypeInv'
    BY NextTypeInv DEF LaunchInv
  <1>2. UNCHANGED state \/ \E s \in Sessions : SessionStep(s)
    BY <1>1, TableSteps
  <1>3. ASSUME NEW s \in Sessions, SessionStep(s), NEW t \in Sessions, t # s
        PROVE  state'[t] = state[t]
    BY <1>1, <1>3 DEF SessionStep, TypeInv, StoreTypeOK
  <1>4. NotYetInserted'
    <2> SUFFICES ASSUME NEW a \in Starts, pc'[a] \in {"idle", "reserve"}
                 PROVE  state'[a] = "ABSENT"
      BY DEF NotYetInserted
    <2>1. a \in Sessions /\ state[a] = "ABSENT"
      BY <1>1, StartPcSteps DEF Starts, LaunchInv, NotYetInserted
    <2>2. ~SessionStep(a)
      BY <2>1 DEF SessionStep, IsPrepared, IsRunning, IsActive
    <2> QED
      BY <1>2, <1>3, <2>1, <2>2
  <1>5. CoreOwns'
    <2> SUFFICES ASSUME NEW l \in Launches, pc'[l] \in LaunchCore
                 PROVE  state'[tgt'[l]] \in {"RUNNING", "DECIDED"}
      BY DEF CoreOwns
    <2>1. CASE pc[l] \in LaunchCore
      <3> DEFINE s == tgt[l]
      <3>1. tgt'[l] = s /\ s \in Sessions /\ state[s] \in {"RUNNING", "DECIDED"}
        BY <1>1, <2>1, LaunchPcSteps DEF LaunchInv, CoreOwns, TypeInv, ControlInv, TargetKnown,
             InFlight, LaunchCore, LaunchTry
      <3>2. CASE SessionStep(s)
        <4>1. ~(At(s, "reserve") /\ MayInsertSession)
          BY <3>1 DEF LaunchInv, NotYetInserted, Starts, At
        <4>2. \A k \in Launches : pc[k] \in LaunchCore /\ tgt[k] = s => k = l
          BY <2>1 DEF LaunchInv, LaunchExclusive
        <4>3. pc'[l] # "done"
          BY DEF LaunchCore, LaunchTry
        <4>4. state' = [state EXCEPT ![s] = "DECIDED"]
          BY <3>1, <3>2, <4>1, <4>2, <4>3 DEF SessionStep, IsPrepared
        <4> QED
          BY <1>1, <3>1, <4>4 DEF TypeInv, StoreTypeOK
      <3> QED
        BY <1>2, <1>3, <3>1, <3>2
    <2>2. CASE pc[l] \notin LaunchCore
      <3>1. /\ tgt'[l] = tgt[l] /\ tgt[l] \in Sessions
            /\ state' = [state EXCEPT ![tgt[l]] = "RUNNING"]
        BY <1>1, <2>2, LaunchPcSteps
      <3> QED
        BY <1>1, <3>1 DEF TypeInv, StoreTypeOK
    <2> QED
      BY <2>1, <2>2
  <1>6. LaunchExclusive'
    <2> SUFFICES ASSUME NEW k \in Launches, NEW l \in Launches,
                        pc'[k] \in LaunchCore, pc'[l] \in LaunchCore, tgt'[k] = tgt'[l]
                 PROVE  k = l
      BY DEF LaunchExclusive
    <2>1. tgt[k] = tgt[l]
      BY <1>1, LaunchPcSteps
    <2>2. CASE pc[k] \in LaunchCore /\ pc[l] \in LaunchCore
      BY <2>1, <2>2 DEF LaunchInv, LaunchExclusive
    <2>3. CASE pc[k] \in LaunchCore /\ pc[l] \notin LaunchCore
      <3>1. state[tgt[k]] # "PREPARED"
        BY <2>3 DEF LaunchInv, CoreOwns
      <3> QED
        BY <1>1, <2>1, <2>3, <3>1, LaunchPcSteps DEF IsPrepared
    <2>4. CASE pc[k] \notin LaunchCore
      <3>1. IsPrepared(tgt[k]) /\ (k # l => pc'[l] = pc[l])
        BY <1>1, <2>4, LaunchPcSteps
      <3>2. k # l => state[tgt[l]] # "PREPARED"
        BY <3>1 DEF LaunchInv, CoreOwns
      <3> QED
        BY <2>1, <3>1, <3>2 DEF IsPrepared
    <2> QED
      BY <2>2, <2>3, <2>4
  <1> QED
    BY <1>1, <1>4, <1>5, <1>6 DEF LaunchInv

LEMMA SpecLaunchInv == Spec => []LaunchInv
  <1>1. Init => LaunchInv
    BY InitTypeInv
       DEF LaunchInv, Init, StoreInit, NotYetInserted, CoreOwns, LaunchExclusive, Commands,
           Starts, LaunchCore, LaunchTry
  <1> QED
    BY <1>1, NextLaunchInv, PTL DEF Spec

\* However many launches race, one at most is past its claim on a session, so
\* nobody else numbers its rounds, binds its thread or undoes its claim.
THEOREM OneLaunchPerSession == Spec => []LaunchExclusive
  BY SpecLaunchInv, PTL DEF LaunchInv

\* No rollback of a start or launch, no late claim and no reservation changes
\* the row of a session that a stop or the TTL has decided.
THEOREM DecidedForever == Spec => DecidedIsFinal
  <1>1. ASSUME LaunchInv, [Next]_vars
        PROVE  [\A s \in Sessions : state[s] = "DECIDED" => state'[s] = "DECIDED"]_vars
    <2> SUFFICES ASSUME NEW t \in Sessions, state[t] = "DECIDED" PROVE state'[t] = "DECIDED"
      OBVIOUS
    <2>1. ~SessionStep(t)
      BY <1>1 DEF SessionStep, IsPrepared, IsRunning, IsActive, LaunchInv, NotYetInserted,
           Starts, At
    <2>2. \A s \in Sessions : SessionStep(s) /\ s # t => state'[t] = state[t]
      BY <1>1 DEF SessionStep, LaunchInv, TypeInv, StoreTypeOK
    <2> QED
      BY <1>1, <2>1, <2>2, TableSteps DEF LaunchInv
  <1> QED
    BY <1>1, SpecLaunchInv, PTL DEF Spec, DecidedIsFinal
=============================================================================
