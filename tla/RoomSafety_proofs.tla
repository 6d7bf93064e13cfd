-------------------------- MODULE RoomSafety_proofs --------------------------
(* The other safety properties of RoomLifecycle, for any number of          *)
(* commands, faults and crashes: what a launch owns, what a failed start    *)
(* leaves behind, and the closing of planning mode.                         *)
EXTENDS RoomRefinement_proofs, FiniteSetTheorems

Finders == Launches \cup Stops

-----------------------------------------------------------------------------
(* What one step does to a launch: its control, its session and the rounds  *)
(* of its session.  Each way is a condensed action of LaunchStep, or of a   *)
(* failing call of a launch.                                                *)

Keeps(l) == /\ pc'[l] = pc[l] /\ result'[l] = result[l]
            /\ tgt'[l] = tgt[l] /\ roundNo'[l] = roundNo[l]

Stays(l) == /\ tgt'[l] = tgt[l] /\ roundNo'[l] = roundNo[l]
            /\ result'[l] \in {result[l], "ROOM_INTERNAL_ERROR"}

\* It looks for a session and at what it found.
Looks(l) ==
  /\ pc[l] \in {"idle", "ready", "claim"} /\ pc'[l] \in {"ready", "claim", "done"}
  /\ pc[l] # "idle" => tgt'[l] = tgt[l]
  /\ roundNo'[l] = roundNo[l] /\ result'[l] \in {result[l]} \cup (Answers \ {"OK", "CRASHED"})
  /\ UNCHANGED <<state, rounds>>

Claims(l) ==
  /\ pc[l] = "claim" /\ pc'[l] = "meta" /\ Stays(l)
  /\ IsPrepared(tgt[l]) /\ state' = [state EXCEPT ![tgt[l]] = "RUNNING"]
  /\ UNCHANGED rounds

\* It moves on, with the round it has or does not have yet.
GoesOn(l) ==
  /\ \/ pc[l] = "meta" /\ pc'[l] = "round"
     \/ /\ pc[l] \in {"launchThread", "sync", "findOn", "turnOff"}
        /\ pc'[l] \in {"sync", "findOn", "turnOff", "offEvent"}
  /\ Stays(l) /\ UNCHANGED <<state, rounds>>

Numbers(l) ==
  /\ pc[l] = "round" /\ pc'[l] = "launchThread"
  /\ tgt'[l] = tgt[l] /\ result'[l] = result[l]
  /\ roundNo'[l] # 0 /\ rounds' = [rounds EXCEPT ![tgt[l]] = @ \cup {roundNo'[l]}]
  /\ UNCHANGED state

\* It throws into its catch block, having or not having written.
Fails(l) ==
  /\ pc[l] \in LaunchTry /\ pc'[l] = IF roundNo[l] = 0 THEN "release" ELSE "undo"
  /\ Stays(l) /\ UNCHANGED state
  /\ \/ UNCHANGED rounds
     \/ /\ pc[l] = "round" /\ tgt[l] \in lost'
        /\ \E n \in Nat : rounds' = [rounds EXCEPT ![tgt[l]] = @ \cup {n}]

Undoes(l) ==
  /\ pc[l] = "undo" /\ pc'[l] = "release" /\ Stays(l) /\ UNCHANGED state
  /\ \/ rounds' = [rounds EXCEPT ![tgt[l]] = @ \ {roundNo[l]}]
     \/ UNCHANGED rounds /\ tgt[l] \in lost'

Succeeds(l) ==
  /\ pc[l] \in {"findOn", "turnOff", "offEvent"} /\ pc'[l] = "done"
  /\ tgt'[l] = tgt[l] /\ roundNo'[l] = roundNo[l] /\ result'[l] = "OK"
  /\ UNCHANGED <<state, rounds>>

GivesBack(l) ==
  /\ pc[l] = "release" /\ pc'[l] = "done" /\ Stays(l) /\ UNCHANGED rounds
  /\ \/ IsRunning(tgt[l]) /\ state' = [state EXCEPT ![tgt[l]] = "PREPARED"]
     \/ UNCHANGED state /\ (IsRunning(tgt[l]) => tgt[l] \in lost')

Acts(l) == \/ Looks(l) \/ Claims(l) \/ GoesOn(l) \/ Numbers(l) \/ Fails(l)
           \/ Undoes(l) \/ Succeeds(l) \/ GivesBack(l)

LaunchActs(l) == Acts(l) /\ \A k \in Launches \ {l} : Keeps(k)

\* A crash cuts every launch in progress.
Cut(l) == /\ pc'[l] = "done" /\ result'[l] = "CRASHED"
          /\ tgt'[l] = tgt[l] /\ roundNo'[l] = roundNo[l]

AllCut == /\ UNCHANGED <<state, rounds>>
          /\ \A l \in Launches : IF InFlight(l) THEN Cut(l) ELSE Keeps(l)

\* Everybody else: no session is claimed or given back, and the rounds of a
\* session that is deleted go with it.
Elsewhere ==
  /\ \A l \in Launches : Keeps(l)
  /\ \A s \in Sessions : state[s] = "RUNNING" => state'[s] \in {"RUNNING", "DECIDED"}
  /\ \A s \in Sessions : state'[s] = "RUNNING" => state[s] = "RUNNING"
  /\ \A s \in Sessions : state'[s] = "PREPARED" => state[s] \in {"PREPARED", "ABSENT"}
  /\ \/ UNCHANGED rounds
     \/ \E s \in Sessions : IsPrepared(s) /\ rounds' = [rounds EXCEPT ![s] = {}]

RoundStep == Elsewhere \/ AllCut \/ \E l \in Launches : LaunchActs(l)

\* A start touches no launch, and no round but those of a session it deletes.
LEMMA StartRoundStep ==
  ASSUME RefInv, NEW a \in Starts, StartStep(a)
  PROVE  Elsewhere
  <1> USE CommandsAssumption DEF Starts, Elsewhere, Keeps, RefInv, OneInv, TypeInv, Commands,
        Goto, Answer, Throw, ThrowInternal, StartFrame, Frame
  <1>1. pc \in [Commands -> StartPCs \cup LaunchPCs \cup StopPCs] /\ DOMAIN result = Commands
    BY DEF ControlInv
  <1>2. state \in [Sessions -> SessionStates \cup {"ABSENT"}]
    BY DEF StoreTypeOK
  <1>3. CASE StartReserve(a)
    <2>1. state[a] = "ABSENT"
      BY <1>3 DEF StartReserve, NotYetInserted, At
    <2> QED
      BY <1>1, <1>2, <1>3, <2>1 DEF StartReserve, InsertPreparedSession, tables
  <1>4. CASE StartRollback(a)
    BY <1>1, <1>2, <1>4 DEF StartRollback, DeleteSession, MayDeleteReserved, IsPrepared, tables
  <1>5. CASE \/ StartFind(a) \/ StartBindThread(a) \/ StartSaveBriefing(a)
             \/ StartTurnOnWatch(a) \/ StartAnnounceOn(a)
    BY <1>1, <1>5 DEF StartFind, StartBindThread, StartSaveBriefing, StartAnnounceOn,
         StartTurnOnWatch, tables, UpdateStartThread, InsertBriefing, EnqueueEvent,
         InsertWatchTarget, sessionTable
  <1> QED
    BY <1>3, <1>4, <1>5 DEF StartStep

\* The first three awaits of a launch, the claim among them, and those of its
\* try block before planning mode.
LEMMA LaunchRoundStep ==
  ASSUME RefInv, NEW l \in Launches, LaunchStep(l), ~ModeStep(l)
  PROVE  LaunchActs(l)
  <1> USE CommandsAssumption DEF Starts, Commands, At, Goto, Answer, Throw, ThrowInternal,
        LaunchFrame, Frame, LaunchActs, Acts, Keeps, Stays, tables
  <1>1. /\ pc \in [Commands -> StartPCs \cup LaunchPCs \cup StopPCs]
        /\ DOMAIN result = Commands /\ DOMAIN tgt = Finders /\ DOMAIN roundNo = Launches
    BY DEF RefInv, OneInv, TypeInv, ControlInv, Finders
  <1>2. l \in Commands /\ l \in Finders /\ Launches \subseteq Commands /\ Launches \subseteq Finders
    BY DEF Finders
  <1>3. pc[l] \in LaunchTry => HandlerOf(l) = IF roundNo[l] = 0 THEN "release" ELSE "undo"
    BY DEF HandlerOf, LaunchTry
  <1>4. ~At(l, "idle") /\ ~At(l, "done") => tgt[l] \in Sessions
    BY DEF RefInv, OneInv, TypeInv, ControlInv, TargetKnown, InFlight
  <1>5. CASE LaunchFind(l)
    BY <1>1, <1>2, <1>5 DEF LaunchFind, Found, Looks, Answers
  <1>6. CASE LaunchEnsureReady(l)
    BY <1>1, <1>2, <1>6 DEF LaunchEnsureReady, Looks, Answers
  <1>7. CASE LaunchClaim(l)
    BY <1>1, <1>2, <1>7 DEF LaunchClaim, ClaimPreparedSession, Looks, Claims, Answers
  <1>8. CASE LaunchReserveMetadata(l)
    BY <1>1, <1>2, <1>3, <1>8 DEF LaunchReserveMetadata, UpdateLaunchThread, GoesOn, Fails, LaunchTry
  <1>9. CASE LaunchCreateRound(l)
    <2>1. PICK n \in NextRoundNo(tgt[l]) :
             InsertRound(tgt[l], n) /\ roundNo' = [roundNo EXCEPT ![l] = n]
      BY <1>9 DEF LaunchCreateRound
    <2>2. n \in Nat \ {0}
      BY <1>4, <1>9, NextRoundNoType DEF LaunchCreateRound, RefInv, OneInv, TypeInv
    <2> QED
      BY <1>1, <1>2, <1>9, <2>1, <2>2 DEF LaunchCreateRound, InsertRound, sessionTable, Numbers
  <1>10. CASE LaunchCreateThread(l) \/ LaunchSyncThread(l)
    BY <1>1, <1>2, <1>10 DEF LaunchCreateThread, LaunchSyncThread, UpdateLaunchThread, GoesOn
  <1>11. CASE LaunchUndoRound(l)
    BY <1>1, <1>2, <1>11 DEF LaunchUndoRound, DeleteRound, sessionTable, Undoes
  <1>12. CASE LaunchRelease(l)
    BY <1>1, <1>2, <1>12 DEF LaunchRelease, ReleaseLaunchClaim, GivesBack
  <1> QED
    BY <1>5, <1>6, <1>7, <1>8, <1>9, <1>10, <1>11, <1>12 DEF LaunchStep

\* Planning mode, for a launch.
LEMMA ModeRoundStep ==
  ASSUME RefInv, NEW c \in Finders, ModeStep(c)
  PROVE  IF c \in Launches THEN LaunchActs(c) ELSE Elsewhere
  <1> USE CommandsAssumption DEF Starts, Commands, At, Goto, Answer, Throw, ThrowInternal,
        ModeFrame, Frame, AfterModeOff, Finders
  <1>1. /\ pc \in [Commands -> StartPCs \cup LaunchPCs \cup StopPCs]
        /\ DOMAIN result = Commands /\ DOMAIN tgt = Finders /\ DOMAIN roundNo = Launches
    BY DEF RefInv, OneInv, TypeInv, ControlInv
  <1>2. UNCHANGED <<state, rounds>>
    BY DEF ModeStep, ModeFindOn, ModeTurnOff, ModeAnnounceOff, tables, TurnOffWatchTarget,
       EnqueueEvent, sessionTable
  <1>3. CASE c \in Launches
    <2>1. At(c, "offEvent") =>
            HandlerOf(c) = IF roundNo[c] = 0 THEN "release" ELSE "undo"
      BY <1>3 DEF HandlerOf, LaunchTry
    <2>2. \A k \in Launches \ {c} : Keeps(k)
      BY <1>1, <1>3 DEF ModeStep, ModeFindOn, ModeTurnOff, ModeAnnounceOff, Keeps
    <2>3. Acts(c)
      BY <1>1, <1>2, <1>3, <2>1
         DEF ModeStep, ModeFindOn, ModeTurnOff, ModeAnnounceOff, Acts, Stays, GoesOn, Succeeds,
             Fails, LaunchTry
    <2> QED
      BY <1>3, <2>2, <2>3 DEF LaunchActs
  <1>4. CASE c \notin Launches
    BY <1>1, <1>2, <1>4 DEF ModeStep, ModeFindOn, ModeTurnOff, ModeAnnounceOff, Elsewhere, Keeps
  <1> QED
    BY <1>3, <1>4

\* A stop touches no launch and no round.
LEMMA StopRoundStep ==
  ASSUME RefInv, NEW p \in Stops, StopStep(p)
  PROVE  Elsewhere
  <1> USE CommandsAssumption DEF Starts, Commands, At, Goto, Answer, Throw, ThrowInternal,
        ModeFrame, Frame, Elsewhere, Keeps, Finders
  <1>1. /\ pc \in [Commands -> StartPCs \cup LaunchPCs \cup StopPCs]
        /\ DOMAIN result = Commands /\ DOMAIN tgt = Finders
        /\ state \in [Sessions -> SessionStates \cup {"ABSENT"}]
    BY DEF RefInv, OneInv, TypeInv, ControlInv, StoreTypeOK
  <1>2. CASE StopFind(p)
    BY <1>1, <1>2 DEF StopFind, Found, tables
  <1>3. CASE StopDecide(p)
    BY <1>1, <1>3 DEF StopDecide, UpdateToDecided, tables
  <1> QED
    BY <1>2, <1>3, ModeRoundStep DEF StopStep

\* Nor do the scheduler, a message or the time.
LEMMA ExpireRoundStep ==
  ASSUME RefInv,
         \/ ExpireStep \/ ExpireFails
         \/ \E s \in Sessions : MessageArrives(s) \/ TimePasses(s)
  PROVE  Elsewhere
  <1>1. UNCHANGED commandVars /\ UNCHANGED rounds
    BY DEF ExpireStep, ExpireScan, ExpireLoad, ExpireDecide, ExpireTurnOff, ExpireAnnounceOff,
       ExpireFrame, ExpireFails, FaultFrame, MessageArrives, TimePasses, NoCommandMoves, tables,
       UpdateToDecided, TurnOffWatchTarget, EnqueueEvent, IncrementMessageCount, TtlPasses,
       commandVars
  <1>2. \/ UNCHANGED state
        \/ IsActive(xcur) /\ state' = [state EXCEPT ![xcur] = "DECIDED"]
    BY DEF ExpireStep, ExpireScan, ExpireLoad, ExpireDecide, ExpireTurnOff, ExpireAnnounceOff,
       ExpireFails, MessageArrives, TimePasses, tables, sessionTable,
       UpdateToDecided, TurnOffWatchTarget, EnqueueEvent, IncrementMessageCount, TtlPasses
  <1>3. state \in [Sessions -> SessionStates \cup {"ABSENT"}]
    BY DEF RefInv, OneInv, TypeInv, StoreTypeOK
  <1> QED
    BY <1>1, <1>2, <1>3 DEF Elsewhere, Keeps, commandVars

\* A failing call.
LEMMA FaultRoundStep ==
  ASSUME RefInv, NEW c \in Commands, CallFails(c) \/ ReadBackFails(c)
  PROVE  IF c \in Launches THEN LaunchActs(c) ELSE Elsewhere
  <1> USE CommandsAssumption DEF Starts, At, Throw, ThrowInternal, FaultFrame
  <1>1. /\ pc \in [Commands -> StartPCs \cup LaunchPCs \cup StopPCs]
        /\ DOMAIN result = Commands /\ Launches \subseteq Commands
        /\ state \in [Sessions -> SessionStates \cup {"ABSENT"}]
    BY DEF RefInv, OneInv, TypeInv, ControlInv, StoreTypeOK, Commands
  <1>2. /\ pc' = [pc EXCEPT ![c] = HandlerOf(c)] /\ tgt' = tgt /\ roundNo' = roundNo
        /\ result' = result \/ result' = [result EXCEPT ![c] = "ROOM_INTERNAL_ERROR"]
    BY DEF CallFails, ReadBackFails
  <1>3. \A k \in Launches \ {c} : Keeps(k)
    BY <1>1, <1>2 DEF Keeps
  <1>4. CASE c \in Launches
    <2> SUFFICES Acts(c)
      BY <1>3, <1>4 DEF LaunchActs
    <2>1. pc[c] \in LaunchPCs /\ c \notin Starts /\ SessionOf(c) = tgt[c]
      BY <1>4 DEF RefInv, OneInv, TypeInv, ControlInv, Commands, SessionOf
    <2>2. Stays(c) /\ pc'[c] = HandlerOf(c)
      BY <1>1, <1>2, <1>4 DEF Stays
    <2>3. CASE CallFails(c)
      <3>1. UNCHANGED <<state, rounds>> /\ pc[c] # "done"
            /\ (pc[c] \in {"undo", "release"} => tgt[c] \in lost')
        BY <2>1, <2>3 DEF CallFails, tables
      <3>2. CASE pc[c] \in {"idle", "ready", "claim"}
        <4>1. HandlerOf(c) = "done"
          BY <2>1, <3>2 DEF HandlerOf, LaunchTry
        <4> QED
          BY <2>2, <3>1, <3>2, <4>1 DEF Stays, Acts, Looks, Answers
      <3>3. CASE pc[c] \in LaunchTry
        <4>1. HandlerOf(c) = IF roundNo[c] = 0 THEN "release" ELSE "undo"
          BY <1>4, <2>1, <3>3 DEF HandlerOf, LaunchTry
        <4> QED
          BY <2>2, <3>1, <3>3, <4>1 DEF Acts, Fails
      <3>4. CASE pc[c] = "sync"
        <4>1. HandlerOf(c) = "findOn"
          BY <2>1, <3>4 DEF HandlerOf, LaunchTry
        <4> QED
          BY <2>2, <3>1, <3>4, <4>1 DEF Acts, GoesOn
      <3>5. CASE pc[c] = "undo"
        <4>1. HandlerOf(c) = "release"
          BY <2>1, <3>5 DEF HandlerOf, LaunchTry
        <4> QED
          BY <2>2, <3>1, <3>5, <4>1 DEF Acts, Undoes
      <3>6. CASE pc[c] = "release"
        <4>1. HandlerOf(c) = "done"
          BY <2>1, <3>6 DEF HandlerOf, LaunchTry
        <4> QED
          BY <2>2, <3>1, <3>6, <4>1 DEF Acts, GivesBack
      <3> QED
        BY <2>1, <3>1, <3>2, <3>3, <3>4, <3>5, <3>6 DEF LaunchPCs, LaunchCore
    <2>4. CASE ReadBackFails(c)
      <3>1. UNCHANGED state
        BY <2>1, <2>4 DEF ReadBackFails, WriteOf, LaunchPCs, LaunchCore, LaunchTry,
           UpdateLaunchThread, InsertRound, TurnOffWatchTarget, sessionTable
      <3>2. CASE pc[c] = "sync"
        <4>1. HandlerOf(c) = "findOn"
          BY <2>1, <3>2 DEF HandlerOf, LaunchTry
        <4>2. UNCHANGED rounds
          BY <2>4, <3>2 DEF ReadBackFails, WriteOf, UpdateLaunchThread
        <4> QED
          BY <2>2, <3>1, <3>2, <4>1, <4>2 DEF Acts, GoesOn
      <3>3. CASE pc[c] = "round"
        <4>1. HandlerOf(c) = IF roundNo[c] = 0 THEN "release" ELSE "undo"
          BY <1>4, <2>1, <3>3 DEF HandlerOf, LaunchTry
        <4>2. tgt[c] \in Sessions
          BY <1>4, <3>3 DEF RefInv, OneInv, TypeInv, ControlInv, TargetKnown, InFlight
        <4>3. PICK n \in NextRoundNo(tgt[c]) : InsertRound(tgt[c], n)
          BY <2>4, <3>3 DEF ReadBackFails, WriteOf
        <4>4. n \in Nat
          BY <4>2, NextRoundNoType DEF RefInv, OneInv, TypeInv
        <4>5. tgt[c] \in lost'
          BY <2>1, <2>4, <3>3 DEF ReadBackFails
        <4> QED
          BY <2>2, <3>1, <3>3, <4>1, <4>3, <4>4, <4>5 DEF Acts, Fails, InsertRound, LaunchTry
      <3>4. CASE pc[c] \in {"meta", "turnOff"}
        <4>1. HandlerOf(c) = IF roundNo[c] = 0 THEN "release" ELSE "undo"
          BY <1>4, <2>1, <3>4 DEF HandlerOf, LaunchTry
        <4>2. UNCHANGED rounds
          BY <2>4, <3>4 DEF ReadBackFails, WriteOf, UpdateLaunchThread, TurnOffWatchTarget
        <4> QED
          BY <2>2, <3>1, <3>4, <4>1, <4>2 DEF Acts, Fails, LaunchTry
      <3> QED
        BY <2>1, <2>4, <3>2, <3>3, <3>4 DEF ReadBackFails, WriteOf, LaunchPCs, LaunchCore, LaunchTry
    <2> QED
      BY <2>3, <2>4
  <1>5. CASE c \notin Launches
    <2>1. pc[c] \in StartPCs \cup StopPCs
      BY <1>5 DEF RefInv, OneInv, TypeInv, ControlInv, Commands
    <2>2. UNCHANGED rounds
      BY <2>1 DEF CallFails, ReadBackFails, WriteOf, tables, StartPCs, StartTry, StopPCs,
         InsertPreparedSession, UpdateStartThread, InsertBriefing, InsertWatchTarget,
         UpdateLaunchThread, TurnOffWatchTarget, UpdateToDecided
    <2>3. c \in Sessions /\ pc[c] = "reserve" => state[c] = "ABSENT"
      BY DEF RefInv, NotYetInserted
    <2>4. \/ UNCHANGED state
          \/ /\ c \in Sessions /\ pc[c] = "reserve"
             /\ state' = [state EXCEPT ![c] = "PREPARED"]
          \/ IsActive(tgt[c]) /\ state' = [state EXCEPT ![tgt[c]] = "DECIDED"]
      <3>1. pc[c] = "reserve" => c \in Sessions
        BY <1>5 DEF RefInv, OneInv, TypeInv, ControlInv, Commands, StopPCs
      <3> QED
        BY <2>1, <3>1 DEF CallFails, ReadBackFails, WriteOf, tables, sessionTable, StartPCs, StartTry, StopPCs,
         InsertPreparedSession, UpdateStartThread, InsertBriefing, InsertWatchTarget,
         UpdateLaunchThread, TurnOffWatchTarget, UpdateToDecided
    <2> QED
      BY <1>1, <1>3, <1>5, <2>2, <2>3, <2>4 DEF Elsewhere
  <1> QED
    BY <1>4, <1>5

\* Every step is one of these.
LEMMA StepRounds ==
  ASSUME RefInv, [Next]_vars
  PROVE  RoundStep
  <1> USE DEF RoundStep
  <1>1. CASE UNCHANGED vars
    BY <1>1 DEF vars, tables, commandVars, Elsewhere, Keeps
  <1>2. CASE Crash
    BY <1>2 DEF Crash, AllCut, Cut, Keeps, tables, Commands
  <1>3. ASSUME NEW l \in Launches, LaunchStep(l) PROVE RoundStep
    BY <1>3, LaunchRoundStep, ModeRoundStep DEF Finders
  <1>4. ASSUME NEW c \in Commands, CallFails(c) \/ ReadBackFails(c) PROVE RoundStep
    BY <1>4, FaultRoundStep
  <1> QED
    BY <1>1, <1>2, <1>3, <1>4, StartRoundStep, StopRoundStep, ExpireRoundStep DEF Next

-----------------------------------------------------------------------------
(* A launch owns its session from its claim to its answer, and for good     *)
(* once that was success: nobody else claims the session, gives it back or  *)
(* deletes it, and its round stays.                                         *)

Owns(l) == pc[l] \in LaunchCore \/ result[l] = "OK"

LaunchProgress ==
  \A l \in Launches :
    /\ pc[l] = "idle" => tgt[l] = None
    /\ result[l] \in {"OK", "CRASHED"} => pc[l] = "done"
    /\ Owns(l) => tgt[l] \in Sessions

OwnerOfRunning ==
  /\ \A l \in Launches : Owns(l) => state[tgt[l]] \in {"RUNNING", "DECIDED"}
  /\ \A k, l \in Launches : Owns(k) /\ Owns(l) /\ tgt[k] = tgt[l] => k = l

\* Where a launch knows the number of its round, and where it has none yet; at
\* "release" either is possible.
WithRound    == {"launchThread", "sync", "findOn", "turnOff", "offEvent", "undo"}
WithoutRound == {"idle", "ready", "claim", "meta", "round"}

RoundNumbers ==
  \A l \in Launches :
    /\ pc[l] \in WithRound => roundNo[l] # 0
    /\ pc[l] \in WithoutRound => roundNo[l] = 0

RoundHeld ==
  \A l \in Launches :
    pc[l] \in WithRound \/ result[l] = "OK" => roundNo[l] \in rounds[tgt[l]]

\* A session nobody owns has no round, and one that is being launched has the
\* round of that launch and no other, unless a clean-up or a read back failed.
NoStrayRound ==
  \A s \in Sessions : state[s] \in {"ABSENT", "PREPARED"} /\ s \notin lost => rounds[s] = {}

OnlyItsRound ==
  \A l \in Launches : pc[l] \in LaunchCore /\ tgt[l] \notin lost =>
    rounds[tgt[l]] = IF pc[l] \in WithRound THEN {roundNo[l]} ELSE {}

OwnInv == RefInv /\ LaunchProgress /\ OwnerOfRunning

RoundInv == OwnInv /\ RoundNumbers /\ RoundHeld /\ NoStrayRound /\ OnlyItsRound

\* What is noted of a session, and of the thread of a start, stays noted.
LEMMA HistoryGrows ==
  ASSUME [Next]_vars
  PROVE  lost \subseteq lost' /\ overlapped \subseteq overlapped' /\ threadBound \subseteq threadBound'
  <1> DEFINE Grows == /\ lost \subseteq lost' /\ overlapped \subseteq overlapped'
                      /\ threadBound \subseteq threadBound'
  <1> USE DEF StartFrame, LaunchFrame, ModeFrame, Frame, ExpireFrame, FaultFrame, historyVars,
        commandVars, NoCommandMoves, Found
  <1>1. ASSUME NEW a \in Starts, StartStep(a) PROVE Grows
    BY <1>1 DEF StartStep, StartFind, StartReserve, StartBindThread, StartSaveBriefing,
       StartTurnOnWatch, StartAnnounceOn, StartRollback
  <1>2. ASSUME NEW c \in Finders, ModeStep(c) PROVE Grows
    BY <1>2 DEF ModeStep, ModeFindOn, ModeTurnOff, ModeAnnounceOff
  <1>3. ASSUME NEW l \in Launches, LaunchStep(l) PROVE Grows
    BY <1>2, <1>3 DEF LaunchStep, LaunchFind, LaunchEnsureReady, LaunchClaim,
       LaunchReserveMetadata, LaunchCreateRound, LaunchCreateThread, LaunchSyncThread,
       LaunchUndoRound, LaunchRelease, Finders
  <1>4. ASSUME NEW p \in Stops, StopStep(p) PROVE Grows
    BY <1>2, <1>4 DEF StopStep, StopFind, StopDecide, Finders
  <1>5. CASE ExpireStep
    BY <1>5 DEF ExpireStep, ExpireScan, ExpireLoad, ExpireDecide, ExpireTurnOff,
       ExpireAnnounceOff
  <1>6. CASE ExpireFails \/ Crash \/ \E c \in Commands : CallFails(c) \/ ReadBackFails(c)
    BY <1>6 DEF ExpireFails, Crash, CallFails, ReadBackFails
  <1>7. CASE UNCHANGED vars \/ \E s \in Sessions : MessageArrives(s) \/ TimePasses(s)
    BY <1>7 DEF vars, MessageArrives, TimePasses
  <1> QED
    BY <1>1, <1>3, <1>4, <1>5, <1>6, <1>7 DEF Next

\* Ownership: only a claim of a PREPARED session starts it, and a session that
\* is owned is never PREPARED.
LEMMA NextOwnInv ==
  ASSUME OwnInv, [Next]_vars
  PROVE  LaunchProgress' /\ OwnerOfRunning'
  <1> USE DEF Owns, LaunchCore, LaunchTry
  <1>1. RoundStep /\ state \in [Sessions -> SessionStates \cup {"ABSENT"}]
    BY StepRounds DEF OwnInv, RefInv, OneInv, TypeInv, StoreTypeOK
  <1>2. LaunchProgress /\ OwnerOfRunning
    BY DEF OwnInv
  <1>3. CASE Elsewhere
    <2>1. \A s \in Sessions : state[s] \in {"RUNNING", "DECIDED"} => state'[s] \in {"RUNNING", "DECIDED"}
      <3> SUFFICES ASSUME NEW s \in Sessions, state[s] = "DECIDED" PROVE state'[s] = "DECIDED"
        BY <1>3 DEF Elsewhere
      <3>1. ~SessionStep(s)
        BY DEF SessionStep, IsPrepared, IsRunning, IsActive, OwnInv, RefInv, NotYetInserted,
           Starts, At
      <3>2. \A t \in Sessions : SessionStep(t) /\ t # s => state'[s] = state[s]
        BY <1>1 DEF SessionStep
      <3> QED
        BY <3>1, <3>2, TableSteps DEF OwnInv, RefInv, OneInv
    <2> QED
      BY <1>2, <1>3, <2>1 DEF Elsewhere, Keeps, LaunchProgress, OwnerOfRunning
  <1>4. CASE AllCut
    BY <1>2, <1>4 DEF AllCut, Cut, Keeps, InFlight, LaunchProgress, OwnerOfRunning
  <1>5. ASSUME NEW l \in Launches, LaunchActs(l)
        PROVE  LaunchProgress' /\ OwnerOfRunning'
    <2>1. Acts(l) /\ \A k \in Launches \ {l} : Keeps(k)
      BY <1>5 DEF LaunchActs
    <2>2. tgt[l] \in Sessions \/ pc[l] \in {"idle", "done"}
      BY DEF OwnInv, RefInv, OneInv, TypeInv, ControlInv, TargetKnown, InFlight
    <2>3. LaunchProgress'
      BY <1>2, <2>1, <2>2 DEF Keeps, LaunchProgress, Acts, Looks, Claims, GoesOn, Numbers, Fails, Undoes,
         Succeeds, GivesBack, Stays
    <2>4. CASE Claims(l)
      BY <1>1, <1>2, <2>1, <2>2, <2>4 DEF Claims, Keeps, Stays, LaunchProgress, OwnerOfRunning, IsPrepared
    <2>5. CASE GivesBack(l)
      BY <1>1, <1>2, <2>1, <2>2, <2>5 DEF GivesBack, Keeps, Stays, LaunchProgress, OwnerOfRunning, IsRunning
    <2>6. CASE Looks(l)
      BY <1>1, <1>2, <2>1, <2>6 DEF Looks, Keeps, LaunchProgress, OwnerOfRunning
    <2>7. CASE GoesOn(l) \/ Numbers(l) \/ Fails(l) \/ Undoes(l) \/ Succeeds(l)
      BY <1>1, <1>2, <2>1, <2>7 DEF GoesOn, Numbers, Fails, Undoes, Succeeds, Keeps, Stays,
         LaunchProgress, OwnerOfRunning
    <2> QED
      BY <2>1, <2>3, <2>4, <2>5, <2>6, <2>7 DEF Acts
  <1> QED
    BY <1>1, <1>3, <1>4, <1>5 DEF RoundStep

LEMMA SpecOwnInv == Spec => []OwnInv
  <1>1. Init => LaunchProgress /\ OwnerOfRunning
    BY DEF Init, LaunchProgress, OwnerOfRunning, Owns, LaunchCore, LaunchTry, Commands
  <1>2. OwnInv /\ RefInv' /\ [Next]_vars => OwnInv'
    BY NextOwnInv DEF OwnInv
  <1> QED
    BY <1>1, <1>2, SpecRefInv, PTL DEF Spec, OwnInv

-----------------------------------------------------------------------------
(* Rounds.                                                                  *)

\* A step of somebody else: the rounds of an owned session stay as they are.
LEMMA ElsewhereRounds ==
  ASSUME RoundInv, [Next]_vars, Elsewhere
  PROVE  RoundNumbers' /\ RoundHeld' /\ NoStrayRound' /\ OnlyItsRound'
  <1>1. /\ rounds \in [Sessions -> SUBSET (Nat \ {0})] /\ lost \subseteq lost'
        /\ \A l \in Launches : Keeps(l)
    BY HistoryGrows DEF RoundInv, OwnInv, RefInv, OneInv, TypeInv, StoreTypeOK, Elsewhere
  <1>2. \A l \in Launches : Owns(l) => rounds'[tgt[l]] = rounds[tgt[l]]
    <2> SUFFICES ASSUME NEW l \in Launches, Owns(l) PROVE rounds'[tgt[l]] = rounds[tgt[l]]
      OBVIOUS
    <2>1. ~IsPrepared(tgt[l]) /\ tgt[l] \in Sessions
      BY DEF RoundInv, OwnInv, OwnerOfRunning, LaunchProgress, IsPrepared
    <2> QED
      BY <1>1, <2>1 DEF Elsewhere
  <1>3. RoundNumbers' /\ RoundHeld' /\ OnlyItsRound'
    BY <1>1, <1>2 DEF Keeps, RoundInv, RoundNumbers, RoundHeld, OnlyItsRound, Owns, WithRound,
       LaunchCore, LaunchTry
  <1>4. NoStrayRound'
    <2> SUFFICES ASSUME NEW s \in Sessions, state'[s] \in {"ABSENT", "PREPARED"}, s \notin lost'
                 PROVE  rounds'[s] = {}
      BY DEF NoStrayRound
    <2>1. CASE state[s] \in {"ABSENT", "PREPARED"}
      <3>1. rounds[s] = {}
        BY <1>1, <2>1 DEF RoundInv, NoStrayRound
      <3> QED
        BY <1>1, <3>1 DEF Elsewhere
    <2>2. CASE state[s] \notin {"ABSENT", "PREPARED"}
      <3>1. state[s] = "DECIDED"
        BY <2>2 DEF Elsewhere, RoundInv, OwnInv, RefInv, OneInv, TypeInv, StoreTypeOK, SessionStates
      <3>2. ~SessionStep(s)
        BY <3>1 DEF SessionStep, IsPrepared, IsRunning, IsActive, RoundInv, OwnInv, RefInv,
           NotYetInserted, Starts, At
      <3>3. \A t \in Sessions : SessionStep(t) /\ t # s => state'[s] = state[s]
        BY DEF SessionStep, RoundInv, OwnInv, RefInv, OneInv, TypeInv, StoreTypeOK
      <3>4. state'[s] = "DECIDED"
        BY <3>1, <3>2, <3>3, TableSteps DEF RoundInv, OwnInv, RefInv, OneInv
      <3> QED
        BY <3>4
    <2> QED
      BY <2>1, <2>2
  <1> QED
    BY <1>3, <1>4

\* A step of a launch: it writes and deletes rounds of the session it owns.
LEMMA LaunchRounds ==
  ASSUME RoundInv, [Next]_vars, NEW l \in Launches, LaunchActs(l)
  PROVE  RoundNumbers' /\ RoundHeld' /\ NoStrayRound' /\ OnlyItsRound'
  <1> USE DEF Owns, WithRound, WithoutRound, LaunchCore, LaunchTry, Keeps, Stays
  <1>1. /\ rounds \in [Sessions -> SUBSET (Nat \ {0})] /\ lost \subseteq lost'
        /\ state \in [Sessions -> SessionStates \cup {"ABSENT"}]
        /\ Acts(l) /\ \A k \in Launches \ {l} : Keeps(k)
    BY HistoryGrows DEF RoundInv, OwnInv, RefInv, OneInv, TypeInv, StoreTypeOK, LaunchActs
  <1>2. /\ pc[l] \in LaunchCore \cup {"claim"} => tgt[l] \in Sessions
        /\ pc[l] \in LaunchPCs /\ roundNo[l] \in Nat
        /\ result[l] = "OK" => pc[l] = "done"
        /\ pc[l] \in LaunchCore => state[tgt[l]] \in {"RUNNING", "DECIDED"}
    BY CommandsAssumption
       DEF RoundInv, OwnInv, RefInv, OneInv, TypeInv, ControlInv, TargetKnown, InFlight,
       LaunchProgress, OwnerOfRunning, Commands, Starts
  <1>3. \A k \in Launches \ {l} : Owns(k) =>
          /\ tgt[k] \in Sessions
          /\ pc[l] \in LaunchCore => tgt[k] # tgt[l]
          /\ pc[l] = "claim" /\ pc'[l] = "meta" => tgt[k] # tgt[l]
    BY <1>1 DEF RoundInv, OwnInv, LaunchProgress, OwnerOfRunning, Acts, Looks, Claims, GoesOn, Numbers, Fails,
       Undoes, Succeeds, GivesBack, IsPrepared
  <1>4. RoundNumbers /\ RoundHeld /\ NoStrayRound /\ OnlyItsRound
    BY DEF RoundInv
  <1>5. RoundNumbers'
    BY <1>1, <1>4 DEF RoundNumbers, Acts, Looks, Claims, GoesOn, Numbers, Fails, Undoes, Succeeds, GivesBack
  <1>6. \A k \in Launches \ {l} : Owns(k) => rounds'[tgt[k]] = rounds[tgt[k]]
    BY <1>1, <1>3 DEF Acts, Looks, Claims, GoesOn, Numbers, Fails, Undoes, Succeeds, GivesBack
  <1>7. RoundHeld'
    <2>1. ASSUME NEW k \in Launches \ {l}, pc'[k] \in WithRound \/ result'[k] = "OK"
          PROVE  roundNo'[k] \in rounds'[tgt'[k]]
      BY <1>1, <1>4, <1>6, <2>1 DEF RoundHeld
    <2>2. ASSUME pc'[l] \in WithRound \/ result'[l] = "OK"
          PROVE  roundNo'[l] \in rounds'[tgt'[l]]
      BY <1>1, <1>2, <1>4, <2>2 DEF RoundHeld, RoundNumbers, Acts, Looks, Claims, GoesOn, Numbers,
         Fails, Undoes, Succeeds, GivesBack
    <2> QED
      BY <2>1, <2>2 DEF RoundHeld
  <1>8. OnlyItsRound'
    <2>1. ASSUME NEW k \in Launches \ {l}, pc'[k] \in LaunchCore, tgt'[k] \notin lost'
          PROVE  rounds'[tgt'[k]] = IF pc'[k] \in WithRound THEN {roundNo'[k]} ELSE {}
      BY <1>1, <1>4, <1>6, <2>1 DEF OnlyItsRound
    <2>2. ASSUME pc'[l] \in LaunchCore, tgt'[l] \notin lost'
          PROVE  rounds'[tgt'[l]] = IF pc'[l] \in WithRound THEN {roundNo'[l]} ELSE {}
      <3>1. CASE Claims(l)
        BY <1>1, <1>2, <1>4, <2>2, <3>1 DEF Claims, NoStrayRound, IsPrepared
      <3>2. CASE Numbers(l)
        BY <1>1, <1>2, <1>4, <2>2, <3>2 DEF Numbers, OnlyItsRound
      <3>3. CASE Undoes(l)
        BY <1>1, <1>2, <1>4, <2>2, <3>3, ZenonT(30) DEF Undoes, OnlyItsRound
      <3>4. CASE Fails(l)
        BY <1>1, <1>2, <1>4, <2>2, <3>4 DEF Fails, OnlyItsRound, RoundNumbers
      <3>5. CASE Looks(l) \/ GoesOn(l) \/ Succeeds(l) \/ GivesBack(l)
        BY <1>1, <1>2, <1>4, <2>2, <3>5 DEF Looks, GoesOn, Succeeds, GivesBack, OnlyItsRound
      <3> QED
        BY <1>1, <3>1, <3>2, <3>3, <3>4, <3>5 DEF Acts
    <2> QED
      BY <2>1, <2>2 DEF OnlyItsRound
  <1>9. NoStrayRound'
    <2> SUFFICES ASSUME NEW s \in Sessions, state'[s] \in {"ABSENT", "PREPARED"}, s \notin lost'
                 PROVE  rounds'[s] = {}
      BY DEF NoStrayRound
    <2>1. CASE state[s] \in {"ABSENT", "PREPARED"}
      <3>1. rounds[s] = {} /\ (pc[l] \in LaunchCore => s # tgt[l])
        BY <1>1, <1>2, <1>4, <2>1 DEF NoStrayRound
      <3> QED
        BY <1>1, <1>2, <3>1 DEF Acts, Looks, Claims, GoesOn, Numbers, Fails, Undoes, Succeeds, GivesBack
    <2>2. CASE state[s] \notin {"ABSENT", "PREPARED"}
      <3>1. pc[l] = "release" /\ s = tgt[l] /\ UNCHANGED rounds
        BY <1>1, <1>2, <2>2 DEF Acts, Looks, Claims, GoesOn, Numbers, Fails, Undoes, Succeeds, GivesBack
      <3> QED
        BY <1>1, <1>4, <3>1 DEF OnlyItsRound
    <2> QED
      BY <2>1, <2>2
  <1> QED
    BY <1>5, <1>7, <1>8, <1>9

LEMMA NextRoundInv ==
  ASSUME RoundInv, [Next]_vars
  PROVE  RoundNumbers' /\ RoundHeld' /\ NoStrayRound' /\ OnlyItsRound'
  <1>1. CASE AllCut
    BY <1>1, HistoryGrows
       DEF AllCut, Cut, Keeps, InFlight, RoundInv, OwnInv, LaunchProgress, RoundNumbers, RoundHeld, NoStrayRound,
           OnlyItsRound, WithRound, WithoutRound, LaunchCore, LaunchTry
  <1> QED
    BY <1>1, StepRounds, ElsewhereRounds, LaunchRounds DEF RoundStep, RoundInv, OwnInv

LEMMA SpecRoundInv == Spec => []RoundInv
  <1>1. Init => RoundNumbers /\ RoundHeld /\ NoStrayRound /\ OnlyItsRound
    BY DEF Init, StoreInit, RoundNumbers, RoundHeld, NoStrayRound, OnlyItsRound, WithRound,
       LaunchCore, LaunchTry, Commands
  <1>2. RoundInv /\ OwnInv' /\ [Next]_vars => RoundInv'
    BY NextRoundInv DEF RoundInv
  <1> QED
    BY <1>1, <1>2, SpecOwnInv, PTL DEF Spec, RoundInv

\* A launch that answered success keeps its round, and its session is never
\* given back: nobody else undoes a round of a session that is owned.
THEOREM LaunchKeepsItsRound == Spec => []LaunchedKeepsRound
  <1>1. RoundInv => LaunchedKeepsRound
    BY DEF RoundInv, OwnInv, OwnerOfRunning, Owns, RoundHeld, LaunchedKeepsRound
  <1> QED
    BY <1>1, SpecRoundInv, PTL

\* A RUNNING session was claimed, and its launch is still at it, has succeeded
\* or was cut short.
LEMMA NextRunningHasLaunch ==
  ASSUME OwnInv, RunningHasLaunch, [Next]_vars
  PROVE  RunningHasLaunch'
  <1> SUFFICES ASSUME NEW s \in Sessions, state'[s] = "RUNNING"
               PROVE  \E l \in Launches :
                        /\ tgt'[l] = s
                        /\ pc'[l] \in LaunchCore \/ result'[l] \in {"OK", "CRASHED"} \/ s \in lost'
    BY DEF RunningHasLaunch, IsRunning
  <1> USE DEF Keeps, Stays, LaunchCore, LaunchTry
  <1>1. RoundStep /\ lost \subseteq lost' /\ state \in [Sessions -> SessionStates \cup {"ABSENT"}]
    BY StepRounds, HistoryGrows DEF OwnInv, RefInv, OneInv, TypeInv, StoreTypeOK
  <1>2. CASE state[s] = "RUNNING"
    <2>1. PICK k \in Launches :
            /\ tgt[k] = s
            /\ pc[k] \in LaunchCore \/ result[k] \in {"OK", "CRASHED"} \/ s \in lost
      BY <1>2 DEF RunningHasLaunch, IsRunning
    <2>2. result[k] \in {"OK", "CRASHED"} => pc[k] = "done"
      BY DEF OwnInv, LaunchProgress
    <2>3. CASE Keeps(k)
      BY <1>1, <2>1, <2>3
    <2>4. CASE InFlight(k) /\ Cut(k)
      BY <2>1, <2>4 DEF Cut
    <2>5. CASE Acts(k)
      <3>1. pc[k] # "idle" /\ pc[k] # "done"
        BY <2>1, <2>5, CommandsAssumption
           DEF OwnInv, LaunchProgress, Acts, Looks, Claims, GoesOn, Numbers, Fails, Undoes,
               Succeeds, GivesBack
      <3>2. CASE GivesBack(k)
        BY <1>1, <1>2, <2>1, <3>2 DEF GivesBack, IsRunning
      <3>3. CASE ~GivesBack(k)
        BY <1>1, <2>1, <2>2, <2>5, <3>1, <3>3
           DEF Acts, Looks, Claims, GoesOn, Numbers, Fails, Undoes, Succeeds
      <3> QED
        BY <3>2, <3>3
    <2> QED
      BY <1>1, <2>3, <2>4, <2>5 DEF RoundStep, Elsewhere, AllCut, LaunchActs
  <1>3. CASE state[s] # "RUNNING"
    <2>1. PICK l \in Launches : Acts(l)
      BY <1>1, <1>3 DEF RoundStep, Elsewhere, AllCut, LaunchActs
    <2>2. Claims(l) /\ tgt[l] = s
      BY <1>1, <1>3, <2>1 DEF Acts, Looks, Claims, GoesOn, Numbers, Fails, Undoes, Succeeds, GivesBack
    <2> QED
      BY <2>2 DEF Claims
  <1> QED
    BY <1>2, <1>3

\* RUNNING is never the state of a session nobody launched, or of one whose
\* launch was refused: what keeps a session RUNNING after a launch that did not
\* succeed is a crash or a failed clean-up.
THEOREM RunningWasLaunched == Spec => []RunningHasLaunch
  <1>1. Init => RunningHasLaunch
    BY DEF Init, StoreInit, RunningHasLaunch, IsRunning
  <1> QED
    BY <1>1, NextRunningHasLaunch, SpecOwnInv, PTL DEF Spec

-----------------------------------------------------------------------------
(* The launch columns.                                                      *)

NoLaunchThread ==
  \A s \in Sessions : state[s] \in {"ABSENT", "PREPARED"} => launchThread[s] = "NULL"

\* They are written while the session is RUNNING and cleared with its claim.
LEMMA NextNoLaunchThread ==
  ASSUME RefInv, NoLaunchThread, [Next]_vars
  PROVE  NoLaunchThread'
  <1> USE DEF NoLaunchThread, IsRunning, IsActive
  <1>1. /\ state \in [Sessions -> SessionStates \cup {"ABSENT"}]
        /\ launchThread \in [Sessions -> {"NULL", "PENDING", "BOUND"}]
    BY DEF RefInv, OneInv, TypeInv, StoreTypeOK
  <1>2. CASE UNCHANGED <<state, launchThread>>
    BY <1>2
  <1>3. ASSUME NEW s \in Sessions,
               \/ InsertPreparedSession(s) /\ state[s] = "ABSENT"
               \/ ClaimPreparedSession(s)
               \/ \E ts \in {"PENDING", "BOUND"} : IsRunning(s) /\ UpdateLaunchThread(s, ts)
               \/ ReleaseLaunchClaim(s) \/ UpdateToDecided(s) \/ DeleteSession(s)
        PROVE  NoLaunchThread'
    BY <1>1, <1>3 DEF InsertPreparedSession, ClaimPreparedSession, UpdateLaunchThread,
       ReleaseLaunchClaim, UpdateToDecided, DeleteSession
  <1>4. \A a \in Starts : At(a, "reserve") => state[a] = "ABSENT"
    BY DEF RefInv, NotYetInserted, At
  <1>5. \A c \in Finders : InFlight(c) => tgt[c] \in Sessions
    BY DEF RefInv, OneInv, TypeInv, ControlInv, TargetKnown, Finders
  <1> USE DEF tables, sessionTable, UpdateStartThread, InsertBriefing, InsertRound, DeleteRound,
        InsertWatchTarget, TurnOffWatchTarget, EnqueueEvent
  <1>6. ASSUME NEW a \in Starts, StartStep(a) PROVE NoLaunchThread'
    BY <1>2, <1>3, <1>4, <1>6
       DEF StartStep, StartFind, StartReserve, StartBindThread, StartSaveBriefing,
           StartTurnOnWatch, StartAnnounceOn, StartRollback, Starts
  <1>7. ASSUME NEW c \in Finders, ModeStep(c) PROVE NoLaunchThread'
    BY <1>2, <1>7 DEF ModeStep, ModeFindOn, ModeTurnOff, ModeAnnounceOff
  <1>8. ASSUME NEW l \in Launches, LaunchStep(l) PROVE NoLaunchThread'
    BY <1>2, <1>3, <1>5, <1>7, <1>8
       DEF LaunchStep, LaunchFind, LaunchEnsureReady, LaunchClaim, LaunchReserveMetadata,
           LaunchCreateRound, LaunchCreateThread, LaunchSyncThread, LaunchUndoRound,
           LaunchRelease, Finders, InFlight, At
  <1>9. ASSUME NEW p \in Stops, StopStep(p) PROVE NoLaunchThread'
    BY <1>2, <1>3, <1>5, <1>7, <1>9 DEF StopStep, StopFind, StopDecide, Finders, InFlight, At
  <1>10. CASE ExpireStep \/ ExpireFails
    <2>1. xpc = "decide" => xcur \in Sessions
      BY DEF RefInv, OneInv, TypeInv, ControlInv, CursorKnown
    <2> QED
      BY <1>2, <1>3, <1>10, <2>1 DEF ExpireStep, ExpireScan, ExpireLoad, ExpireDecide, ExpireTurnOff,
         ExpireAnnounceOff, ExpireFails
  <1>11. ASSUME NEW c \in Commands, CallFails(c) \/ ReadBackFails(c) PROVE NoLaunchThread'
    <2>1. pc[c] \in PCsOf(c)
      BY DEF RefInv, OneInv, TypeInv, ControlInv, PCsOf
    <2>2. /\ pc[c] = "reserve" => c \in Starts
          /\ pc[c] \in {"meta", "sync", "decide"} => c \in Finders
      BY <2>1, CommandsAssumption DEF PCsOf, LaunchPCs, LaunchCore, LaunchTry, StopPCs, StartPCs,
         StartTry, Starts, Commands, Finders
    <2> QED
      BY <1>2, <1>3, <1>4, <1>5, <1>11, <2>2
         DEF CallFails, ReadBackFails, WriteOf, At, InFlight, Starts
  <1>12. CASE \/ UNCHANGED vars \/ Crash
              \/ \E s \in Sessions : MessageArrives(s) \/ TimePasses(s)
    BY <1>2, <1>12 DEF vars, Crash, MessageArrives, TimePasses, IncrementMessageCount, TtlPasses
  <1> QED
    BY <1>6, <1>8, <1>9, <1>10, <1>11, <1>12 DEF Next

\* What /room launch is offered is as /room start left it: an undone launch has
\* taken its thread and its round away, or a fault hit the clean-up.
THEOREM PreparedCarriesNothing == Spec => []PreparedIsClean
  <1>1. Init => NoLaunchThread
    BY DEF Init, StoreInit, NoLaunchThread
  <1>2. RoundInv /\ NoLaunchThread => PreparedIsClean
    BY DEF RoundInv, OwnInv, OwnerOfRunning, Owns, NoStrayRound, NoLaunchThread,
       PreparedIsClean, IsPrepared
  <1> QED
    BY <1>1, <1>2, NextNoLaunchThread, SpecRefInv, SpecRoundInv, PTL DEF Spec

-----------------------------------------------------------------------------
(* What one step does to a start: its control, the thread of its row and    *)
(* whether its target is turned on.                                         *)

NeverTurnedOn(a) == watch'[a] = "ON" => watch[a] = "ON"

StartKeeps(a) ==
  /\ pc'[a] = pc[a] /\ result'[a] = result[a] /\ NeverTurnedOn(a)
  /\ startThread'[a] = startThread[a]

\* It looks for an active session, and meets one; or it reserves its row.
Begins(a) ==
  /\ pc[a] \in {"idle", "reserve"} /\ pc'[a] \in {"reserve", "bind", "done"}
  /\ pc'[a] = "done" => UNCHANGED state \/ a \in lost'
  /\ startThread'[a] = startThread[a] /\ UNCHANGED watch

\* It goes on, with its thread bound and its target turned on at last.
Proceeds(a) ==
  /\ result'[a] = result[a]
  /\ \/ /\ pc[a] = "bind" /\ pc'[a] = "briefing" /\ a \in threadBound' /\ UNCHANGED watch
     \/ pc[a] = "briefing" /\ pc'[a] = "watch" /\ UNCHANGED <<startThread, watch>>
     \/ pc[a] = "watch" /\ pc'[a] = "announce" /\ UNCHANGED startThread

Returns(a) == /\ pc[a] = "announce" /\ pc'[a] = "done" /\ result'[a] = "OK"
              /\ UNCHANGED <<startThread, watch>>

\* It throws into its catch block, having or not having written.
StartFails(a) ==
  /\ pc[a] \in StartTry /\ pc'[a] = "rollback"
  /\ startThread'[a] = startThread[a] \/ a \in lost'
  /\ pc[a] = "watch" \/ NeverTurnedOn(a)

\* It rolls back: its row is deleted, or the DELETE finds none or fails.
RollsBack(a) ==
  /\ pc[a] = "rollback" /\ pc'[a] = "done" /\ NeverTurnedOn(a)
  /\ \/ state'[a] = "ABSENT" /\ startThread'[a] = "PENDING"
     \/ /\ UNCHANGED <<state, startThread>>
        /\ MayDeleteReserved(a) => a \in lost'

StartCut(a) == /\ pc'[a] = "done" /\ result'[a] = "CRASHED" /\ UNCHANGED <<startThread, watch>>

StartMove(a) ==
  \/ StartKeeps(a) \/ Begins(a) \/ Proceeds(a) \/ Returns(a) \/ StartFails(a)
  \/ RollsBack(a) \/ StartCut(a)

\* A start is moved by its own steps and failures, and by a crash.
LEMMA OwnStartMove ==
  ASSUME RefInv, NEW a \in Starts, StartStep(a)
  PROVE  \A b \in Starts : StartMove(b)
  <1> USE CommandsAssumption DEF Starts, Commands, At, Goto, Answer, Throw, ThrowInternal,
        StartMove, tables, sessionTable, NeverTurnedOn
  <1>1. /\ pc \in [Commands -> StartPCs \cup LaunchPCs \cup StopPCs] /\ DOMAIN result = Commands
        /\ state \in [Sessions -> SessionStates \cup {"ABSENT"}]
        /\ startThread \in [Sessions -> {"PENDING", "BOUND"}]
        /\ watch \in [Sessions -> OffReasons \cup {"NONE", "ON"}]
        /\ result[a] \in Answers \cup {"pending"} /\ threadBound \subseteq Starts
    BY DEF RefInv, OneInv, TypeInv, ControlInv, StoreTypeOK
  <1>2. pc[a] \in StartTry => HandlerOf(a) = "rollback"
    BY DEF HandlerOf, LaunchTry, StartTry
  <1>3. ASSUME NEW b \in Starts, b # a PROVE StartKeeps(b)
    BY <1>1, <1>3 DEF StartKeeps, StartStep, StartFind, StartReserve, StartBindThread,
       StartSaveBriefing, StartTurnOnWatch, StartAnnounceOn, StartRollback,
       InsertPreparedSession, UpdateStartThread, InsertBriefing, InsertWatchTarget,
       EnqueueEvent, DeleteSession
  <1>4. CASE StartFind(a)
    BY <1>1, <1>3, <1>4 DEF StartFind, Begins, StartKeeps
  <1>5. CASE StartReserve(a)
    BY <1>1, <1>3, <1>5 DEF StartReserve, Begins, InsertPreparedSession
  <1>6. CASE StartBindThread(a)
    BY <1>1, <1>2, <1>3, <1>6 DEF StartBindThread, Proceeds, UpdateStartThread, StartFails, StartTry
  <1>7. CASE StartSaveBriefing(a)
    BY <1>1, <1>3, <1>7 DEF StartSaveBriefing, Proceeds, InsertBriefing
  <1>8. CASE StartTurnOnWatch(a)
    BY <1>1, <1>2, <1>3, <1>8 DEF StartTurnOnWatch, Proceeds, InsertWatchTarget, StartFails, StartTry
  <1>9. CASE StartAnnounceOn(a)
    BY <1>1, <1>3, <1>9 DEF StartAnnounceOn, Returns, EnqueueEvent
  <1>10. CASE StartRollback(a)
    BY <1>1, <1>3, <1>10 DEF StartRollback, RollsBack, DeleteSession
  <1> QED
    BY <1>4, <1>5, <1>6, <1>7, <1>8, <1>9, <1>10 DEF StartStep

LEMMA FaultStartMove ==
  ASSUME RefInv, NEW c \in Commands, CallFails(c) \/ ReadBackFails(c)
  PROVE  \A b \in Starts : StartMove(b)
  <1> USE CommandsAssumption DEF Starts, At, Throw, ThrowInternal, StartMove, tables,
        sessionTable, NeverTurnedOn
  <1>1. /\ pc \in [Commands -> StartPCs \cup LaunchPCs \cup StopPCs] /\ DOMAIN result = Commands
        /\ state \in [Sessions -> SessionStates \cup {"ABSENT"}]
        /\ startThread \in [Sessions -> {"PENDING", "BOUND"}]
        /\ watch \in [Sessions -> OffReasons \cup {"NONE", "ON"}]
        /\ pc[c] \in PCsOf(c) /\ Sessions \subseteq Commands
    BY DEF RefInv, OneInv, TypeInv, ControlInv, StoreTypeOK, PCsOf, Commands
  <1>2. pc' = [pc EXCEPT ![c] = HandlerOf(c)]
    BY DEF CallFails, ReadBackFails
  <1>3. ASSUME NEW b \in Starts, b # c PROVE StartKeeps(b)
    <2>1. pc'[b] = pc[b] /\ result'[b] = result[b]
      BY <1>1, <1>2, <1>3 DEF CallFails, ReadBackFails
    <2>2. pc[c] \in {"bind", "watch"} => c \in Sessions
      BY <1>1 DEF PCsOf, LaunchPCs, LaunchCore, LaunchTry, StopPCs
    <2>3. watch'[b] = "ON" => watch[b] = "ON"
      BY <1>1, <1>3, <2>2 DEF CallFails, ReadBackFails, WriteOf, InsertPreparedSession, UpdateStartThread,
         InsertBriefing, InsertWatchTarget, UpdateLaunchThread, InsertRound, TurnOffWatchTarget,
         UpdateToDecided, ReasonOf
    <2>4. startThread'[b] = startThread[b]
      BY <1>1, <1>3, <2>2 DEF CallFails, ReadBackFails, WriteOf, InsertPreparedSession, UpdateStartThread,
         InsertBriefing, InsertWatchTarget, UpdateLaunchThread, InsertRound, TurnOffWatchTarget,
         UpdateToDecided
    <2> QED
      BY <2>1, <2>3, <2>4 DEF StartKeeps
  <1>4. ASSUME c \in Starts PROVE StartMove(c)
    <2> USE <1>4
    <2>1. pc[c] \in StartPCs /\ SessionOf(c) = c /\ pc'[c] = HandlerOf(c)
      BY <1>1, <1>2 DEF PCsOf, SessionOf
    <2>2. CASE pc[c] \in StartTry
      <3>1. HandlerOf(c) = "rollback"
        BY <2>2 DEF HandlerOf, LaunchTry, StartTry
      <3>2. startThread'[c] = startThread[c] \/ c \in lost'
        BY <2>1, <2>2 DEF CallFails, ReadBackFails, WriteOf, StartTry, UpdateStartThread, InsertBriefing,
           InsertWatchTarget
      <3>3. pc[c] = "watch" \/ watch' = watch
        BY <2>2 DEF CallFails, ReadBackFails, WriteOf, StartTry, UpdateStartThread, InsertBriefing
      <3> QED
        BY <2>1, <2>2, <3>1, <3>2, <3>3 DEF StartFails
    <2>3. CASE pc[c] \notin StartTry
      <3>1. HandlerOf(c) = "done"
        BY <2>1, <2>3 DEF HandlerOf, StartPCs, LaunchTry
      <3>2. result' = result \/ result'[c] = "ROOM_INTERNAL_ERROR"
        BY <1>1 DEF CallFails, ReadBackFails
      <3>3. CASE CallFails(c)
        <4>1. pc[c] = "rollback" => c \in lost'
          BY <2>1, <3>3 DEF CallFails
        <4>2. pc[c] # "rollback" => result'[c] = "ROOM_INTERNAL_ERROR"
          BY <1>1, <2>1, <3>3 DEF CallFails, StartPCs, StartTry
        <4> QED
          BY <2>1, <2>3, <3>1, <3>3, <4>1, <4>2 DEF CallFails, StartPCs, Begins, RollsBack
      <3>4. CASE ReadBackFails(c)
        <4>1. pc[c] = "reserve" /\ InsertPreparedSession(c)
          BY <2>1, <2>3, <3>4 DEF ReadBackFails, WriteOf, StartPCs, StartTry
        <4>2. result'[c] = "ROOM_INTERNAL_ERROR" /\ c \in lost'
          BY <1>1, <2>1, <3>4, <4>1 DEF ReadBackFails
        <4> QED
          BY <2>1, <3>1, <4>1, <4>2 DEF Begins, InsertPreparedSession
      <3> QED
        BY <3>3, <3>4
    <2> QED
      BY <2>2, <2>3
  <1> QED
    BY <1>3, <1>4

LEMMA StartMoves ==
  ASSUME RefInv, [Next]_vars
  PROVE  \A a \in Starts : StartMove(a)
  <1> USE CommandsAssumption DEF Starts, Commands, At, Goto, Answer, Throw, ThrowInternal, tables,
        sessionTable, NeverTurnedOn, TurnOffWatchTarget, EnqueueEvent, ReasonOf
  <1>1. /\ pc \in [Commands -> StartPCs \cup LaunchPCs \cup StopPCs] /\ DOMAIN result = Commands
        /\ startThread \in [Sessions -> {"PENDING", "BOUND"}]
        /\ watch \in [Sessions -> OffReasons \cup {"NONE", "ON"}]
    BY DEF RefInv, OneInv, TypeInv, ControlInv, StoreTypeOK
  <1>2. ASSUME NEW c \in Finders, ModeStep(c) PROVE \A a \in Starts : StartKeeps(a)
    BY <1>1, <1>2 DEF ModeStep, ModeFindOn, ModeTurnOff, ModeAnnounceOff, AfterModeOff, StartKeeps,
       Finders
  <1>3. ASSUME NEW l \in Launches, LaunchStep(l) PROVE \A a \in Starts : StartKeeps(a)
    BY <1>1, <1>2, <1>3 DEF LaunchStep, LaunchFind, LaunchEnsureReady, LaunchClaim, Finders,
       LaunchReserveMetadata, LaunchCreateRound, LaunchCreateThread, LaunchSyncThread,
       LaunchUndoRound, LaunchRelease, StartKeeps, ClaimPreparedSession, UpdateLaunchThread,
       InsertRound, DeleteRound, ReleaseLaunchClaim
  <1>4. ASSUME NEW p \in Stops, StopStep(p) PROVE \A a \in Starts : StartKeeps(a)
    BY <1>1, <1>2, <1>4 DEF StopStep, StopFind, StopDecide, StartKeeps, UpdateToDecided, Finders
  <1>5. CASE \/ UNCHANGED vars \/ ExpireStep \/ ExpireFails
             \/ \E s \in Sessions : MessageArrives(s) \/ TimePasses(s)
    <2>1. UNCHANGED <<pc, result, startThread>>
      BY <1>5 DEF vars, commandVars, ExpireStep, ExpireScan, ExpireLoad, ExpireDecide, ExpireTurnOff,
         ExpireAnnounceOff, ExpireFrame, ExpireFails, MessageArrives, TimePasses, NoCommandMoves,
         UpdateToDecided, IncrementMessageCount, TtlPasses
    <2>2. watch' = watch \/ watch' = [watch EXCEPT ![xcur] = "TTL"]
      BY <1>5 DEF vars, ExpireStep, ExpireScan, ExpireLoad, ExpireDecide, ExpireTurnOff,
         ExpireAnnounceOff, ExpireFails, MessageArrives, TimePasses,
         UpdateToDecided, IncrementMessageCount, TtlPasses
    <2>3. \A a \in Starts : StartKeeps(a)
      BY <1>1, <2>1, <2>2 DEF StartKeeps
    <2> QED
      BY <2>3 DEF StartMove
  <1>6. CASE Crash
    BY <1>6 DEF Crash, InFlight, StartMove, StartKeeps, StartCut
  <1> QED
    BY <1>2, <1>3, <1>4, <1>5, <1>6, OwnStartMove, FaultStartMove DEF Next, StartMove

-----------------------------------------------------------------------------
(* What one step does to a launch or stop on its way to closing planning    *)
(* mode.                                                                    *)

FinderKeeps(c) == pc'[c] = pc[c] /\ result'[c] = result[c] /\ tgt'[c] = tgt[c]

\* It looks up the active session, which is noted if its start still runs.
Searches(c) ==
  /\ pc[c] = "idle" /\ pc'[c] \in {"ready", "findOn", "done"}
  /\ result'[c] = "OK" => result[c] = "OK"
  /\ \/ tgt'[c] = tgt[c]
     \/ tgt'[c] \in Active /\ (InFlight(tgt'[c]) => tgt'[c] \in overlapped')
  /\ UNCHANGED <<tables, lost>>

\* It is before planning mode, or gives up on it.
Works(c) ==
  /\ pc[c] \notin {"idle", "done"} /\ pc'[c] \notin {"idle", "offEvent", "decide"}
  /\ tgt'[c] = tgt[c] /\ (result'[c] = "OK" => result[c] = "OK")

\* It finds planning mode off or turns it off, and ends.
Closes(c) ==
  /\ pc[c] \in {"findOn", "turnOff", "offEvent", "decide"}
  /\ pc'[c] \in {"offEvent", "decide", "done"} /\ tgt'[c] = tgt[c]
  /\ result'[c] = "OK" => result[c] = "OK" \/ pc'[c] = "done"
  /\ IF pc[c] \in {"findOn", "turnOff"} THEN watch'[tgt[c]] # "ON" ELSE UNCHANGED watch

FinderMove(c) == FinderKeeps(c) \/ Searches(c) \/ Works(c) \/ Closes(c)

FinderMoved(c) == FinderMove(c) /\ \A d \in Finders \ {c} : FinderKeeps(d)

LEMMA LaunchFinderMove ==
  ASSUME RefInv, NEW l \in Launches, LaunchStep(l), ~ModeStep(l)
  PROVE  FinderMoved(l)
  <1> USE CommandsAssumption DEF Commands, At, Goto, Answer, Throw, ThrowInternal, Finders,
        FinderMoved, FinderMove, LaunchFrame, Frame
  <1>1. /\ pc \in [Commands -> StartPCs \cup LaunchPCs \cup StopPCs]
        /\ DOMAIN result = Commands /\ DOMAIN tgt = Finders
    BY DEF RefInv, OneInv, TypeInv, ControlInv
  <1>2. CASE LaunchFind(l)
    BY <1>1, <1>2 DEF LaunchFind, Found, Searches, FinderKeeps, tables
  <1>3. CASE LaunchReserveMetadata(l)
    <2>1. pc[l] = "meta" => HandlerOf(l) \in {"release", "undo"}
      BY DEF HandlerOf, LaunchTry, Starts
    <2> QED
      BY <1>1, <1>3, <2>1 DEF LaunchReserveMetadata, Works, FinderKeeps
  <1>4. CASE \/ LaunchEnsureReady(l) \/ LaunchClaim(l) \/ LaunchCreateRound(l)
             \/ LaunchCreateThread(l) \/ LaunchSyncThread(l) \/ LaunchUndoRound(l)
             \/ LaunchRelease(l)
    BY <1>1, <1>4 DEF LaunchEnsureReady, LaunchClaim, LaunchCreateRound, LaunchCreateThread,
       LaunchSyncThread, LaunchUndoRound, LaunchRelease, Works, FinderKeeps
  <1> QED
    BY <1>2, <1>3, <1>4 DEF LaunchStep

LEMMA ModeFinderMove ==
  ASSUME RefInv, NEW c \in Finders, ModeStep(c)
  PROVE  FinderMoved(c)
  <1> USE CommandsAssumption DEF Commands, At, Goto, Answer, Throw, ThrowInternal, Finders,
        FinderMoved, FinderMove, ModeFrame, Frame, AfterModeOff, IsWatched
  <1>1. /\ pc \in [Commands -> StartPCs \cup LaunchPCs \cup StopPCs]
        /\ DOMAIN result = Commands /\ DOMAIN tgt = Finders
        /\ watch \in [Sessions -> OffReasons \cup {"NONE", "ON"}]
    BY DEF RefInv, OneInv, TypeInv, ControlInv, StoreTypeOK
  <1>2. tgt[c] \in Sessions
    BY DEF RefInv, OneInv, TypeInv, ControlInv, TargetKnown, InFlight, ModeStep, ModeFindOn,
       ModeTurnOff, ModeAnnounceOff
  <1>3. CASE ModeFindOn(c)
    <2>1. pc'[c] \in {"turnOff", "decide", "done"} /\ (result'[c] = "OK" => pc'[c] = "done" \/ result[c] = "OK")
      BY <1>1, <1>3 DEF ModeFindOn
    <2>2. UNCHANGED <<watch, tgt, overlapped>>
      BY <1>3 DEF ModeFindOn, tables
    <2>3. \A d \in Finders \ {c} : FinderKeeps(d)
      BY <1>1, <1>3 DEF ModeFindOn, FinderKeeps
    <2> QED
      BY <1>1, <1>3, <2>1, <2>2, <2>3 DEF ModeFindOn, Works, Closes
  <1>4. CASE ModeTurnOff(c)
    BY <1>1, <1>2, <1>4 DEF ModeTurnOff, TurnOffWatchTarget, ReasonOf, tables, Closes, FinderKeeps
  <1>5. CASE ModeAnnounceOff(c)
    <2>1. pc[c] = "offEvent" => HandlerOf(c) \in {"release", "undo", "done"}
      BY DEF HandlerOf, LaunchTry, Starts
    <2> QED
      BY <1>1, <1>5, <2>1 DEF ModeAnnounceOff, EnqueueEvent, tables, Closes, Works, FinderKeeps
  <1> QED
    BY <1>3, <1>4, <1>5 DEF ModeStep

LEMMA StopFinderMove ==
  ASSUME RefInv, NEW p \in Stops, StopStep(p)
  PROVE  FinderMoved(p)
  <1> USE CommandsAssumption DEF Commands, At, Goto, Answer, Throw, ThrowInternal, Finders,
        FinderMoved, FinderMove, ModeFrame, Frame
  <1>1. /\ pc \in [Commands -> StartPCs \cup LaunchPCs \cup StopPCs]
        /\ DOMAIN result = Commands /\ DOMAIN tgt = Finders
    BY DEF RefInv, OneInv, TypeInv, ControlInv
  <1>2. CASE StopFind(p)
    BY <1>1, <1>2 DEF StopFind, Found, Searches, FinderKeeps, tables
  <1>3. CASE StopDecide(p)
    <2>1. pc[p] = "decide" => HandlerOf(p) = "done"
      BY DEF HandlerOf, LaunchTry, Starts
    <2> QED
      BY <1>1, <1>3, <2>1 DEF StopDecide, UpdateToDecided, tables, Closes, FinderKeeps
  <1> QED
    BY <1>2, <1>3, ModeFinderMove DEF StopStep

LEMMA FaultFinderMove ==
  ASSUME RefInv, NEW c \in Commands, CallFails(c) \/ ReadBackFails(c)
  PROVE  \A d \in Finders : FinderMove(d)
  <1> USE CommandsAssumption DEF Throw, ThrowInternal, FaultFrame, FinderMove
  <1>1. /\ pc \in [Commands -> StartPCs \cup LaunchPCs \cup StopPCs]
        /\ DOMAIN result = Commands /\ pc[c] \in PCsOf(c)
        /\ pc' = [pc EXCEPT ![c] = HandlerOf(c)] /\ UNCHANGED <<tgt, overlapped>>
        /\ result' = result \/ result' = [result EXCEPT ![c] = "ROOM_INTERNAL_ERROR"]
        /\ Finders \subseteq Commands
    BY DEF RefInv, OneInv, TypeInv, ControlInv, PCsOf, CallFails, ReadBackFails, Commands, Finders
  <1>2. \A d \in Finders \ {c} : FinderKeeps(d)
    BY <1>1 DEF FinderKeeps
  <1>3. ASSUME c \in Finders PROVE FinderMove(c)
    <2>1. /\ pc'[c] = HandlerOf(c) /\ tgt'[c] = tgt[c] /\ (result'[c] = "OK" => result[c] = "OK")
          /\ pc[c] # "done"
      BY <1>1, <1>3 DEF CallFails, ReadBackFails, WriteOf, At
    <2>2. CASE pc[c] = "idle"
      <3>1. HandlerOf(c) = "done"
        BY <2>2 DEF HandlerOf, LaunchTry, StartTry
      <3>2. UNCHANGED <<tables, lost>>
        BY <2>2 DEF CallFails, ReadBackFails, WriteOf, At
      <3> QED
        BY <2>1, <2>2, <3>1, <3>2 DEF Searches
    <2>3. CASE pc[c] # "idle"
      <3>1. HandlerOf(c) \notin {"idle", "offEvent", "decide"}
        BY <1>3 DEF HandlerOf, LaunchTry, Finders, Starts
      <3> QED
        BY <2>1, <2>3, <3>1 DEF Works
    <2> QED
      BY <2>2, <2>3
  <1> QED
    BY <1>1, <1>2, <1>3

LEMMA FinderMoves ==
  ASSUME RefInv, [Next]_vars
  PROVE  \A c \in Finders : FinderMove(c)
  <1> USE CommandsAssumption DEF Starts, Commands, Finders
  <1>1. /\ pc \in [Commands -> StartPCs \cup LaunchPCs \cup StopPCs] /\ DOMAIN result = Commands
    BY DEF RefInv, OneInv, TypeInv, ControlInv
  <1>2. ASSUME NEW a \in Starts, StartStep(a)
        PROVE  \A c \in Finders : FinderKeeps(c)
    BY <1>1, <1>2 DEF StartStep, StartFind, StartReserve, StartBindThread, StartSaveBriefing,
       StartTurnOnWatch, StartAnnounceOn, StartRollback, StartFrame, Goto, Answer, Throw,
       ThrowInternal, FinderKeeps
  <1>3. CASE \/ UNCHANGED vars \/ ExpireStep \/ ExpireFails
             \/ \E s \in Sessions : MessageArrives(s) \/ TimePasses(s)
    <2>1. UNCHANGED <<pc, result, tgt, overlapped>>
      BY <1>3 DEF vars, commandVars, historyVars, ExpireStep, ExpireScan, ExpireLoad, ExpireDecide, ExpireTurnOff,
         ExpireAnnounceOff, ExpireFrame, ExpireFails, FaultFrame, MessageArrives, TimePasses, NoCommandMoves
    <2> QED
      BY <2>1 DEF FinderMove, FinderKeeps
  <1>4. CASE Crash
    BY <1>4 DEF Crash, InFlight, FinderMove, FinderKeeps, Works
  <1>5. ASSUME NEW l \in Launches, LaunchStep(l)
        PROVE  FinderMoved(l)
    BY <1>5, LaunchFinderMove, ModeFinderMove
  <1> QED
    BY <1>2, <1>3, <1>4, <1>5, StopFinderMove, FaultFinderMove DEF Next, FinderMoved, FinderMove

-----------------------------------------------------------------------------
(* What a start that failed leaves behind, and what a launch or stop that   *)
(* succeeded has closed.                                                    *)

\* Success ends a launch or stop, on the session it found.
FinderProgress ==
  \A c \in Finders : result[c] = "OK" => pc[c] = "done" /\ tgt[c] \in Sessions

\* A session that was found while its start was running is noted.
FoundIsOverlapped ==
  \A c \in Finders : tgt[c] \in Sessions /\ pc[tgt[c]] # "done" => tgt[c] \in overlapped

\* A start knows that its thread is bound, unless the read back failed.
ThreadKnown ==
  \A a \in Starts : startThread[a] = "BOUND" => a \in threadBound \cup lost

FoundInv == RefInv /\ RunningHasLaunch /\ FinderProgress /\ FoundIsOverlapped /\ ThreadKnown

\* FailedStartLeavesNothing for every active state: what was launched meanwhile
\* was found.
NothingLeftActive ==
  \A a \in Starts :
    /\ At(a, "done") /\ result[a] \in {"ROOM_ALREADY_RUNNING", "ROOM_INTERNAL_ERROR"}
    /\ IsActive(a)
    => a \in overlapped \cup lost

\* SuccessClosesWatch from the moment the target is off.
ClosedWatch ==
  \A c \in Finders :
    /\ result[c] = "OK" \/ pc[c] \in {"offEvent", "decide"}
    /\ tgt[c] \notin overlapped
    => ~IsWatched(tgt[c])

LEMMA NextFoundInv ==
  ASSUME FoundInv, RefInv', RunningHasLaunch', [Next]_vars
  PROVE  FoundInv'
  <1>1. /\ \A c \in Finders : FinderMove(c)
        /\ \A a \in Starts : StartMove(a)
        /\ lost \subseteq lost' /\ overlapped \subseteq overlapped'
        /\ threadBound \subseteq threadBound'
    BY FinderMoves, StartMoves, HistoryGrows DEF FoundInv
  <1>2. \A c \in Finders : InFlight(c) => tgt[c] \in Sessions
    BY DEF FoundInv, RefInv, OneInv, TypeInv, ControlInv, TargetKnown, Finders
  <1>3. FinderProgress'
    BY <1>1, <1>2 DEF FoundInv, FinderProgress, FinderMove, FinderKeeps, Searches, Works,
       Closes, InFlight
  <1>4. FoundIsOverlapped'
    <2> SUFFICES ASSUME NEW c \in Finders, tgt'[c] \in Sessions, pc'[tgt'[c]] # "done"
                 PROVE  tgt'[c] \in overlapped'
      BY DEF FoundIsOverlapped
    <2> DEFINE s == tgt'[c]
    <2>1. pc[s] # "done"
      BY <1>1 DEF Starts, StartMove, StartKeeps, Begins, Proceeds, Returns, StartFails, StartTry,
         RollsBack, StartCut
    <2>2. CASE tgt[c] = s
      BY <1>1, <2>1, <2>2 DEF FoundInv, FoundIsOverlapped
    <2>3. CASE tgt[c] # s
      <3>1. state[s] # "ABSENT" /\ (InFlight(s) => s \in overlapped')
        BY <1>1, <2>3 DEF FinderMove, FinderKeeps, Searches, Works, Closes, Active, IsActive
      <3>2. pc[s] # "idle"
        BY <3>1 DEF FoundInv, RefInv, NotYetInserted, Starts
      <3> QED
        BY <2>1, <3>1, <3>2 DEF InFlight
    <2> QED
      BY <2>2, <2>3
  <1>5. ThreadKnown'
    BY <1>1 DEF FoundInv, ThreadKnown, StartMove, StartKeeps, Begins, Proceeds, Returns,
       StartFails, RollsBack, StartCut
  <1> QED
    BY <1>3, <1>4, <1>5 DEF FoundInv

LEMMA SpecFoundInv == Spec => []FoundInv
  <1>1. Init => FinderProgress /\ FoundIsOverlapped /\ ThreadKnown
    BY CommandsAssumption DEF Init, StoreInit, FinderProgress, FoundIsOverlapped, ThreadKnown,
       Commands, Finders, Starts
  <1> QED
    BY <1>1, NextFoundInv, SpecRefInv, RunningWasLaunched, PTL DEF Spec, FoundInv

LEMMA NextNothingLeftActive ==
  ASSUME FoundInv, NothingLeftActive, [Next]_vars
  PROVE  NothingLeftActive'
  <1> SUFFICES ASSUME NEW a \in Starts, pc'[a] = "done",
                      result'[a] \in {"ROOM_ALREADY_RUNNING", "ROOM_INTERNAL_ERROR"},
                      state'[a] \in {"PREPARED", "RUNNING"}
               PROVE  a \in overlapped' \cup lost'
    BY DEF NothingLeftActive, IsActive, At
  <1>1. /\ StartMove(a) /\ lost \subseteq lost' /\ overlapped \subseteq overlapped'
        /\ a \in Sessions /\ state \in [Sessions -> SessionStates \cup {"ABSENT"}]
        /\ startThread \in [Sessions -> {"PENDING", "BOUND"}]
    BY StartMoves, HistoryGrows DEF FoundInv, RefInv, OneInv, TypeInv, StoreTypeOK, Starts
  <1>2. CASE pc[a] = "done"
    <2>1. result'[a] = result[a]
      BY <1>1, <1>2 DEF StartMove, StartKeeps, Begins, Proceeds, Returns, StartFails, StartTry,
         RollsBack, StartCut
    <2>2. IsActive(a)
      <3>1. ~SessionStep(a) \/ IsActive(a)
        BY <1>2 DEF SessionStep, IsActive, IsPrepared, IsRunning, At
      <3>2. \A s \in Sessions : s # a /\ SessionStep(s) => state'[a] = state[a]
        BY <1>1 DEF SessionStep
      <3> QED
        BY <3>1, <3>2, TableSteps DEF IsActive, FoundInv, RefInv, OneInv
    <2> QED
      BY <1>1, <1>2, <2>1, <2>2 DEF NothingLeftActive, At
  <1>3. CASE pc[a] \in {"idle", "reserve"}
    <2>1. state[a] = "ABSENT"
      BY <1>3 DEF FoundInv, RefInv, NotYetInserted
    <2> QED
      BY <1>1, <1>3, <2>1 DEF StartMove, StartKeeps, Begins, Proceeds, Returns, StartFails,
         RollsBack, StartCut
  <1>4. CASE pc[a] \notin {"idle", "reserve", "done"}
    <2>1. RollsBack(a)
      BY <1>1, <1>4 DEF StartMove, StartKeeps, Begins, Proceeds, Returns, StartFails, StartCut
    <2>2. state'[a] = state[a] /\ (MayDeleteReserved(a) => a \in lost')
      BY <2>1 DEF RollsBack
    <2>3. CASE IsRunning(a)
      <3>1. PICK l \in Launches : tgt[l] = a
        BY <1>1, <2>3 DEF FoundInv, RunningHasLaunch
      <3>2. a \in overlapped
        BY <1>1, <1>4, <3>1 DEF FoundInv, FoundIsOverlapped, Finders
      <3> QED
        BY <1>1, <3>2
    <2>4. CASE IsPrepared(a) /\ ~MayDeleteReserved(a)
      <3>1. startThread[a] = "BOUND" /\ a \notin threadBound
        BY <1>1, <2>4 DEF MayDeleteReserved
      <3> QED
        BY <1>1, <3>1 DEF FoundInv, ThreadKnown
    <2> QED
      BY <2>2, <2>3, <2>4 DEF IsRunning, IsPrepared
  <1> QED
    BY <1>2, <1>3, <1>4

\* A /room start that answered an error does not block the channel: what keeps
\* its reservation is another command that found it meanwhile, or a fault in
\* the INSERT's or the thread's read back or in the rollback itself.
THEOREM FailedStartIsUndone == Spec => []FailedStartLeavesNothing
  <1>1. Init => NothingLeftActive
    BY DEF Init, NothingLeftActive, At, Starts, Commands
  <1>2. NothingLeftActive => FailedStartLeavesNothing
    BY DEF NothingLeftActive, FailedStartLeavesNothing, IsActive, IsPrepared
  <1> QED
    BY <1>1, <1>2, NextNothingLeftActive, SpecFoundInv, PTL DEF Spec

LEMMA NextClosedWatch ==
  ASSUME FoundInv, ClosedWatch, [Next]_vars
  PROVE  ClosedWatch'
  <1> SUFFICES ASSUME NEW c \in Finders,
                      result'[c] = "OK" \/ pc'[c] \in {"offEvent", "decide"},
                      tgt'[c] \notin overlapped'
               PROVE  watch'[tgt'[c]] # "ON"
    BY DEF ClosedWatch, IsWatched
  <1>1. FinderMove(c) /\ overlapped \subseteq overlapped' /\ \A a \in Starts : StartMove(a)
    BY FinderMoves, StartMoves, HistoryGrows DEF FoundInv
  <1>2. result[c] = "OK" => pc[c] = "done" /\ tgt[c] \in Sessions
    BY DEF FoundInv, FinderProgress
  <1>3. CASE FinderKeeps(c)
    <2>1. tgt[c] \in Sessions /\ tgt'[c] = tgt[c]
      BY <1>2, <1>3 DEF FinderKeeps, FoundInv, RefInv, OneInv, TypeInv, ControlInv, TargetKnown, InFlight,
         Finders
    <2>2. watch[tgt[c]] # "ON"
      BY <1>1, <1>3 DEF FinderKeeps, ClosedWatch, IsWatched
    <2>3. pc[tgt[c]] = "done"
      BY <1>1, <2>1 DEF FoundInv, FoundIsOverlapped
    <2> QED
      BY <1>1, <2>1, <2>2, <2>3 DEF Starts, StartMove, StartKeeps, Begins, Proceeds, Returns, StartFails,
         RollsBack, StartCut, NeverTurnedOn
  <1>4. CASE Closes(c)
    BY <1>1, <1>4 DEF Closes, ClosedWatch, IsWatched
  <1>5. CASE Searches(c) \/ Works(c)
    BY <1>2, <1>5 DEF Searches, Works
  <1> QED
    BY <1>1, <1>3, <1>4, <1>5 DEF FinderMove

\* Success of a launch or stop means planning mode is off and stays off: the
\* start of the session it found had returned, so nobody turns it on again.
THEOREM SuccessEndsPlanning == Spec => []SuccessClosesWatch
  <1>1. Init => ClosedWatch
    BY DEF Init, ClosedWatch, Finders, Commands
  <1>2. ClosedWatch => SuccessClosesWatch
    BY DEF ClosedWatch, SuccessClosesWatch, Finders
  <1> QED
    BY <1>1, <1>2, NextClosedWatch, SpecFoundInv, PTL DEF Spec

-----------------------------------------------------------------------------
(* The OFF event.  Turning a target off is what entitles to announce it, to *)
(* one command or to the scheduler, and the target is never ON again.       *)

Closers(s)  == {c \in Finders : At(c, "offEvent") /\ tgt[c] = s}
Expiring(s) == xpc = "offEvent" /\ xcur = s

LEMMA OffEventsAppend ==
  ASSUME NEW s \in Sessions, NEW e, outbox[s] \in Seq(ModeEvents),
         outbox'[s] = Append(outbox[s], e)
  PROVE  OffEvents(s)' = IF e = "OFF" THEN OffEvents(s) \cup {Len(outbox[s]) + 1}
                         ELSE OffEvents(s)
  <1>1. /\ Len(outbox'[s]) = Len(outbox[s]) + 1 /\ Len(outbox[s]) \in Nat
        /\ \A i \in 1..Len(outbox[s]) : outbox'[s][i] = outbox[s][i]
        /\ outbox'[s][Len(outbox[s]) + 1] = e
    OBVIOUS
  <1>2. \A i : i \in 1..(Len(outbox[s]) + 1) <=> i \in 1..Len(outbox[s]) \/ i = Len(outbox[s]) + 1
    BY <1>1
  <1> QED
    BY <1>1, <1>2 DEF OffEvents

\* What one step does to the target of a session and to its announcement.
SameClosers(s) == Closers(s)' = Closers(s) /\ Expiring(s)' = Expiring(s)
SameTarget(s)  == watch'[s] = watch[s] /\ OffEvents(s)' = OffEvents(s)

TurnedOn(s) == /\ pc[s] = "watch" /\ pc'[s] # "watch"
               /\ OffEvents(s)' = OffEvents(s) /\ SameClosers(s)

TurnedOff(s) ==
  /\ watch[s] = "ON" /\ watch'[s] \in OffReasons /\ OffEvents(s)' = OffEvents(s)
  /\ \/ Expiring(s)' = Expiring(s) /\ \E c \in Finders : Closers(s)' = Closers(s) \cup {c}
     \/ Closers(s)' = Closers(s) /\ Expiring(s)'
     \/ SameClosers(s) /\ s \in lost'

Announced(s) ==
  /\ watch'[s] = watch[s] /\ \E i : OffEvents(s)' = OffEvents(s) \cup {i}
  /\ \/ Expiring(s)' = Expiring(s) /\ \E c \in Closers(s) : Closers(s)' = Closers(s) \ {c}
     \/ Closers(s)' = Closers(s) /\ Expiring(s) /\ ~Expiring(s)'

\* Nobody will announce it any more.
Dropped(s) ==
  /\ SameTarget(s) /\ Closers(s)' \subseteq Closers(s) /\ (Expiring(s)' => Expiring(s))
  /\ state[s] = "ABSENT" \/ s \in lost'

Gone(s) == watch'[s] = "NONE" /\ OffEvents(s)' = {} /\ SameClosers(s)

AnnounceStep(s) ==
  \/ SameTarget(s) /\ SameClosers(s)
  \/ TurnedOn(s) \/ TurnedOff(s) \/ Announced(s) \/ Dropped(s) \/ Gone(s)

LEMMA StartAnnounceStep ==
  ASSUME RefInv, NEW a \in Starts, StartStep(a), NEW s \in Sessions
  PROVE  AnnounceStep(s)
  <1> USE CommandsAssumption DEF Starts, AnnounceStep, SameTarget, tables, sessionTable
  <1>1. /\ pc \in [Commands -> StartPCs \cup LaunchPCs \cup StopPCs] /\ a \in Commands
        /\ watch \in [Sessions -> OffReasons \cup {"NONE", "ON"}]
        /\ outbox \in [Sessions -> Seq(ModeEvents)]
        /\ \A c \in Finders : c # a /\ c \in Commands
    BY DEF RefInv, OneInv, TypeInv, ControlInv, StoreTypeOK, Commands, Finders
  <1>2. SameClosers(s)
    <2>1. \A c \in Finders : pc'[c] = pc[c] /\ tgt'[c] = tgt[c]
      BY <1>1 DEF StartStep, StartFind, StartReserve, StartBindThread, StartSaveBriefing,
         StartTurnOnWatch, StartAnnounceOn, StartRollback, StartFrame, Goto, Answer, Throw,
         ThrowInternal, Finders
    <2>2. UNCHANGED <<xpc, xcur>>
      BY DEF StartStep, StartFind, StartReserve, StartBindThread, StartSaveBriefing,
         StartTurnOnWatch, StartAnnounceOn, StartRollback, StartFrame, Frame, schedulerVars
    <2> QED
      BY <2>1, <2>2 DEF SameClosers, Closers, Expiring, At
  <1>3. UNCHANGED outbox => OffEvents(s)' = OffEvents(s)
    BY DEF OffEvents
  <1>4. CASE \/ StartFind(a) \/ StartReserve(a) \/ StartBindThread(a) \/ StartSaveBriefing(a)
    BY <1>2, <1>3, <1>4
       DEF StartFind, StartReserve, StartBindThread, StartSaveBriefing, InsertPreparedSession,
           UpdateStartThread, InsertBriefing
  <1>5. CASE StartTurnOnWatch(a)
    <2>1. CASE s = a /\ MayInsertWatch
      BY <1>1, <1>2, <1>3, <1>5, <2>1 DEF StartTurnOnWatch, InsertWatchTarget, TurnedOn, At, Goto
    <2>2. CASE s # a \/ ~MayInsertWatch
      BY <1>1, <1>2, <1>3, <1>5, <2>2 DEF StartTurnOnWatch, InsertWatchTarget
    <2> QED
      BY <2>1, <2>2
  <1>6. CASE StartAnnounceOn(a)
    <2>1. OffEvents(s)' = OffEvents(s)
      <3>1. CASE s = a
        <4>1. outbox'[s] = Append(outbox[s], "ON")
          BY <1>1, <1>6, <3>1 DEF StartAnnounceOn, EnqueueEvent
        <4> QED
          BY <1>1, <4>1, OffEventsAppend
      <3>2. CASE s # a
        BY <1>1, <1>6, <3>2 DEF StartAnnounceOn, EnqueueEvent, OffEvents
      <3> QED
        BY <3>1, <3>2
    <2> QED
      BY <1>2, <1>6, <2>1 DEF StartAnnounceOn, EnqueueEvent
  <1>7. CASE StartRollback(a)
    <2>1. CASE s = a /\ MayDeleteReserved(a)
      <3>1. watch'[s] = "NONE" /\ outbox'[s] = <<>>
        BY <1>1, <1>7, <2>1 DEF StartRollback, DeleteSession
      <3>2. OffEvents(s)' = {}
        BY <3>1 DEF OffEvents
      <3> QED
        BY <1>2, <3>1, <3>2 DEF Gone
    <2>2. CASE s # a \/ ~MayDeleteReserved(a)
      <3>1. watch'[s] = watch[s] /\ outbox'[s] = outbox[s]
        BY <1>1, <1>7, <2>2 DEF StartRollback, DeleteSession
      <3> QED
        BY <1>2, <3>1 DEF OffEvents
    <2> QED
      BY <2>1, <2>2
  <1> QED
    BY <1>4, <1>5, <1>6, <1>7 DEF StartStep

LEMMA ModeAnnounceStep ==
  ASSUME RefInv, NEW c \in Finders, ModeStep(c), NEW s \in Sessions
  PROVE  AnnounceStep(s)
  <1> USE CommandsAssumption DEF AnnounceStep, SameTarget, SameClosers, tables, sessionTable, ModeFrame, Frame,
        schedulerVars, Commands, Goto, Answer, AfterModeOff, At
  <1>1. /\ pc \in [Commands -> StartPCs \cup LaunchPCs \cup StopPCs] /\ c \in Commands
        /\ Finders \subseteq Commands
        /\ watch \in [Sessions -> OffReasons \cup {"NONE", "ON"}]
        /\ outbox \in [Sessions -> Seq(ModeEvents)] /\ tgt[c] \in Sessions
    BY DEF RefInv, OneInv, TypeInv, ControlInv, StoreTypeOK, Finders, TargetKnown, InFlight, ModeStep,
       ModeFindOn, ModeTurnOff, ModeAnnounceOff
  <1>2. UNCHANGED <<tgt, xpc, xcur>> /\ Expiring(s)' = Expiring(s)
    BY DEF ModeStep, ModeFindOn, ModeTurnOff, ModeAnnounceOff, Expiring
  <1>3. \A d \in Finders \ {c} : pc'[d] = pc[d]
    BY <1>1 DEF ModeStep, ModeFindOn, ModeTurnOff, ModeAnnounceOff, Throw, ThrowInternal
  <1>4. UNCHANGED outbox => OffEvents(s)' = OffEvents(s)
    BY DEF OffEvents
  <1>5. (pc'[c] = "offEvent" <=> pc[c] = "offEvent") \/ tgt[c] # s => Closers(s)' = Closers(s)
    BY <1>2, <1>3 DEF Closers
  <1>6. CASE ModeFindOn(c)
    <2>1. pc[c] # "offEvent" /\ pc'[c] # "offEvent"
      BY <1>1, <1>6 DEF ModeFindOn
    <2> QED
      BY <1>2, <1>4, <1>5, <1>6, <2>1 DEF ModeFindOn
  <1>7. CASE ModeTurnOff(c)
    <2>1. CASE ~IsWatched(tgt[c])
      <3>1. pc[c] # "offEvent" /\ pc'[c] # "offEvent"
        BY <1>1, <1>7, <2>1 DEF ModeTurnOff
      <3> QED
        BY <1>2, <1>4, <1>5, <1>7, <2>1, <3>1 DEF ModeTurnOff
    <2>2. CASE IsWatched(tgt[c]) /\ tgt[c] = s
      <3>1. /\ pc'[c] = "offEvent" /\ watch'[s] \in OffReasons /\ watch[s] = "ON"
            /\ UNCHANGED outbox
        BY <1>1, <1>7, <2>2 DEF ModeTurnOff, TurnOffWatchTarget, ReasonOf, OffReasons, IsWatched
      <3>2. Closers(s)' = Closers(s) \cup {c}
        BY <1>2, <1>3, <2>2, <3>1 DEF Closers
      <3> QED
        BY <1>2, <1>4, <3>1, <3>2 DEF TurnedOff
    <2>3. CASE IsWatched(tgt[c]) /\ tgt[c] # s
      BY <1>1, <1>2, <1>4, <1>5, <1>7, <2>3 DEF ModeTurnOff, TurnOffWatchTarget
    <2> QED
      BY <2>1, <2>2, <2>3
  <1>8. CASE ModeAnnounceOff(c)
    <2>1. pc[c] = "offEvent" /\ pc'[c] # "offEvent"
      <3>1. pc[c] = "offEvent" => HandlerOf(c) \in {"release", "undo", "done"}
        BY DEF HandlerOf, LaunchTry, Starts, Finders
      <3> QED
        BY <1>1, <1>8, <3>1 DEF ModeAnnounceOff, Throw, ThrowInternal
    <2>2. CASE tgt[c] # s
      <3>1. watch'[s] = watch[s] /\ outbox'[s] = outbox[s]
        BY <1>1, <1>8, <2>2 DEF ModeAnnounceOff, EnqueueEvent
      <3> QED
        BY <1>2, <1>5, <2>2, <3>1 DEF OffEvents
    <2>3. CASE tgt[c] = s
      <3>1. c \in Closers(s) /\ Closers(s)' = Closers(s) \ {c}
        BY <1>2, <1>3, <2>1, <2>3 DEF Closers
      <3>2. CASE RowExists(s)
        <4>1. watch'[s] = watch[s] /\ outbox'[s] = Append(outbox[s], "OFF")
          BY <1>1, <1>8, <2>3, <3>2 DEF ModeAnnounceOff, EnqueueEvent
        <4>2. OffEvents(s)' = OffEvents(s) \cup {Len(outbox[s]) + 1}
          BY <1>1, <4>1, OffEventsAppend
        <4> QED
          BY <1>2, <3>1, <4>1, <4>2 DEF Announced
      <3>3. CASE ~RowExists(s)
        BY <1>2, <1>4, <1>8, <2>3, <3>1, <3>3 DEF ModeAnnounceOff, Dropped, RowExists
      <3> QED
        BY <3>2, <3>3
    <2> QED
      BY <2>2, <2>3
  <1> QED
    BY <1>6, <1>7, <1>8 DEF ModeStep

\* A launch before planning mode and a stop after it leave the targets alone.
LEMMA FinderAnnounceStep ==
  ASSUME RefInv, NEW c \in Finders, NEW s \in Sessions,
         \/ c \in Launches /\ LaunchStep(c)
         \/ c \in Stops /\ StopStep(c)
  PROVE  AnnounceStep(s)
  <1> USE CommandsAssumption DEF Finders, Commands, At, Goto, Answer, Throw, ThrowInternal,
        tables, sessionTable
  <1>1. /\ pc \in [Commands -> StartPCs \cup LaunchPCs \cup StopPCs] /\ DOMAIN tgt = Finders
    BY DEF RefInv, OneInv, TypeInv, ControlInv
  <1>2. CASE ModeStep(c)
    BY <1>2, ModeAnnounceStep
  <1>3. CASE ~ModeStep(c)
    <2>1. UNCHANGED <<watch, outbox, xpc, xcur>>
      BY <1>3 DEF LaunchStep, LaunchFind, LaunchEnsureReady, LaunchClaim, LaunchReserveMetadata,
         LaunchCreateRound, LaunchCreateThread, LaunchSyncThread, LaunchUndoRound, LaunchRelease,
         StopStep, StopFind, StopDecide, ClaimPreparedSession, UpdateLaunchThread, InsertRound,
         DeleteRound, ReleaseLaunchClaim, UpdateToDecided, LaunchFrame, ModeFrame, Frame,
         schedulerVars
    <2>2. pc[c] # "offEvent" /\ pc'[c] # "offEvent"
      <3>1. pc[c] \in {"meta", "decide"} => HandlerOf(c) \in {"release", "undo", "done"}
        BY DEF HandlerOf, Starts, StartTry
      <3>2. CASE c \in Launches
        BY <1>1, <1>3, <3>1, <3>2 DEF LaunchStep, LaunchFind, LaunchEnsureReady, LaunchClaim, LaunchReserveMetadata,
           LaunchCreateRound, LaunchCreateThread, LaunchSyncThread, LaunchUndoRound, LaunchRelease,
           StopStep
      <3>3. CASE c \notin Launches
        BY <1>1, <1>3, <3>1, <3>3 DEF StopStep, StopFind, StopDecide
      <3> QED
        BY <3>2, <3>3
    <2>3. \A d \in Finders \ {c} : pc'[d] = pc[d] /\ tgt'[d] = tgt[d]
      BY <1>1, <1>3 DEF LaunchStep, LaunchFind, LaunchEnsureReady, LaunchClaim, LaunchReserveMetadata,
         LaunchCreateRound, LaunchCreateThread, LaunchSyncThread, LaunchUndoRound, LaunchRelease,
         StopStep, StopFind, StopDecide, Found, LaunchFrame, ModeFrame
    <2> QED
      BY <2>1, <2>2, <2>3 DEF AnnounceStep, SameTarget, SameClosers, OffEvents, Closers, Expiring
  <1> QED
    BY <1>2, <1>3

LEMMA ExpireAnnounceStep ==
  ASSUME RefInv, ExpireStep, NEW s \in Sessions
  PROVE  AnnounceStep(s)
  <1> USE DEF AnnounceStep, SameTarget, SameClosers, tables, sessionTable, Expiring
  <1>1. /\ watch \in [Sessions -> OffReasons \cup {"NONE", "ON"}]
        /\ outbox \in [Sessions -> Seq(ModeEvents)]
        /\ xpc \in {"decide", "turnOff", "offEvent"} => xcur \in Sessions
    BY DEF RefInv, OneInv, TypeInv, ControlInv, StoreTypeOK, CursorKnown
  <1>2. Closers(s)' = Closers(s)
    BY DEF ExpireStep, ExpireScan, ExpireLoad, ExpireDecide, ExpireTurnOff, ExpireAnnounceOff,
       ExpireFrame, commandVars, Closers, At
  <1>3. UNCHANGED outbox => OffEvents(s)' = OffEvents(s)
    BY DEF OffEvents
  <1>4. CASE ExpireScan \/ ExpireLoad \/ ExpireDecide
    BY <1>2, <1>3, <1>4 DEF ExpireScan, ExpireLoad, ExpireDecide, UpdateToDecided, AbortBatch
  <1>5. CASE ExpireTurnOff
    BY <1>1, <1>2, <1>3, <1>5 DEF ExpireTurnOff, TurnOffWatchTarget, NextTarget, TurnedOff, OffReasons,
       IsWatched
  <1>6. CASE ExpireAnnounceOff
    <2>1. ~Expiring(s)' /\ watch' = watch /\ (Expiring(s) <=> xcur = s)
      BY <1>6 DEF ExpireAnnounceOff, NextTarget, EnqueueEvent
    <2>2. CASE xcur = s
      <3>1. outbox'[s] = Append(outbox[s], "OFF")
        BY <1>1, <1>6, <2>2 DEF ExpireAnnounceOff, EnqueueEvent
      <3>2. OffEvents(s)' = OffEvents(s) \cup {Len(outbox[s]) + 1}
        BY <1>1, <3>1, OffEventsAppend
      <3> QED
        BY <1>2, <2>1, <2>2, <3>2 DEF Announced
    <2>3. CASE xcur # s
      <3>1. outbox'[s] = outbox[s]
        BY <1>1, <1>6, <2>3 DEF ExpireAnnounceOff, EnqueueEvent
      <3> QED
        BY <1>2, <2>1, <2>3, <3>1 DEF OffEvents
    <2> QED
      BY <2>2, <2>3
  <1> QED
    BY <1>4, <1>5, <1>6 DEF ExpireStep

\* A fault or a crash between the UPDATE and the INSERT loses the event, and is
\* noted.
LEMMA FaultAnnounceStep ==
  ASSUME RefInv, NEW s \in Sessions,
         \/ \E c \in Commands : CallFails(c) \/ ReadBackFails(c)
         \/ ExpireFails \/ Crash
  PROVE  AnnounceStep(s)
  <1> USE CommandsAssumption DEF AnnounceStep, SameTarget, SameClosers, tables, sessionTable
  <1>1. /\ pc \in [Commands -> StartPCs \cup LaunchPCs \cup StopPCs]
        /\ Finders \subseteq Commands /\ (\A c \in Finders : c \notin Starts /\ SessionOf(c) = tgt[c])
        /\ watch \in [Sessions -> OffReasons \cup {"NONE", "ON"}]
    BY DEF RefInv, OneInv, TypeInv, ControlInv, StoreTypeOK, Finders, Commands, Starts, SessionOf
  <1>2. /\ UNCHANGED outbox /\ UNCHANGED tgt /\ OffEvents(s)' = OffEvents(s)
    BY DEF CallFails, ReadBackFails, WriteOf, ExpireFails, Crash, FaultFrame, InsertPreparedSession,
       UpdateStartThread, InsertBriefing, InsertWatchTarget, UpdateLaunchThread, InsertRound,
       TurnOffWatchTarget, UpdateToDecided, OffEvents
  <1>3. ASSUME NEW c \in Commands, CallFails(c) \/ ReadBackFails(c) PROVE AnnounceStep(s)
    <2>1. pc' = [pc EXCEPT ![c] = HandlerOf(c)] /\ HandlerOf(c) # "offEvent"
      BY <1>3 DEF CallFails, ReadBackFails, Throw, ThrowInternal, HandlerOf
    <2>2. Expiring(s)' = Expiring(s)
      BY <1>3 DEF CallFails, ReadBackFails, schedulerVars, Expiring
    <2>3. Closers(s)' = Closers(s) \ {c}
      BY <1>1, <1>2, <2>1 DEF Closers, At
    <2>4. CASE c \in Closers(s)
      <3>1. CallFails(c) /\ s \in lost' /\ UNCHANGED watch
        BY <1>1, <1>3, <2>4 DEF Closers, At, CallFails, ReadBackFails, WriteOf
      <3> QED
        BY <1>2, <2>2, <2>3, <3>1 DEF Dropped
    <2>5. CASE c \notin Closers(s)
      <3>1. SameClosers(s)
        BY <2>2, <2>3, <2>5
      <3>2. CASE watch'[s] = watch[s]
        BY <1>2, <3>1, <3>2
      <3>3. CASE watch'[s] # watch[s]
        <4>1. WriteOf(c)
          BY <1>3, <3>3 DEF CallFails, ReadBackFails
        <4>2. \/ At(c, "watch") /\ c = s
              \/ /\ At(c, "turnOff") /\ IsWatched(s) /\ tgt[c] = s /\ c \in Finders
                 /\ watch'[s] \in OffReasons
          <5>1. pc[c] \in PCsOf(c)
            BY DEF RefInv, OneInv, TypeInv, ControlInv, PCsOf
          <5>2. pc[c] = "turnOff" => c \in Finders
            BY <5>1 DEF PCsOf, StartPCs, StartTry, Commands, Finders
          <5>3. \/ At(c, "watch") /\ InsertWatchTarget(c)
                \/ At(c, "turnOff") /\ IsWatched(tgt[c]) /\ TurnOffWatchTarget(tgt[c], ReasonOf(c))
            BY <3>3, <4>1 DEF WriteOf, InsertPreparedSession, UpdateStartThread, InsertBriefing, UpdateLaunchThread,
               InsertRound, UpdateToDecided
          <5> QED
            BY <1>1, <3>3, <5>2, <5>3 DEF InsertWatchTarget, TurnOffWatchTarget, ReasonOf, OffReasons, At
        <4>3. CASE At(c, "watch") /\ c = s
          <5>1. HandlerOf(c) # "watch"
            BY DEF HandlerOf
          <5> QED
            BY <1>1, <1>2, <2>1, <3>1, <4>3, <5>1 DEF TurnedOn, At
        <4>4. CASE /\ At(c, "turnOff") /\ IsWatched(s) /\ tgt[c] = s /\ c \in Finders
                   /\ watch'[s] \in OffReasons
          <5>1. s \in lost'
            BY <1>1, <1>3, <3>3, <4>4 DEF CallFails, ReadBackFails, At
          <5> QED
            BY <1>2, <3>1, <4>4, <5>1 DEF TurnedOff, IsWatched
        <4> QED
          BY <4>2, <4>3, <4>4
      <3> QED
        BY <3>2, <3>3
    <2> QED
      BY <2>4, <2>5
  <1>4. CASE ExpireFails
    <2>1. Closers(s)' = Closers(s) /\ ~Expiring(s)'
      BY <1>2, <1>4 DEF ExpireFails, Closers, At, AbortBatch, Expiring
    <2>2. CASE UNCHANGED tables
      BY <1>2, <1>4, <2>1, <2>2 DEF ExpireFails, Dropped, Expiring
    <2>3. CASE xpc = "turnOff" /\ IsWatched(xcur) /\ TurnOffWatchTarget(xcur, "TTL") /\ xcur \in lost'
      <3>1. ~Expiring(s)
        BY <2>3 DEF Expiring
      <3> QED
        BY <1>1, <1>2, <2>1, <2>3, <3>1 DEF TurnOffWatchTarget, TurnedOff, IsWatched, OffReasons, Expiring
    <2> QED
      BY <1>4, <2>2, <2>3 DEF ExpireFails
  <1>5. CASE Crash
    <2>1. Closers(s)' = {} /\ ~Expiring(s)' /\ UNCHANGED watch
      BY <1>1, <1>5 DEF Crash, AbortBatch, Closers, Expiring, At, InFlight
    <2>2. Closers(s) # {} \/ Expiring(s) => s \in lost'
      <3>1. Expiring(s) => s \in lost'
        BY <1>5 DEF Crash, Expiring
      <3>2. ASSUME NEW c \in Closers(s) PROVE s \in lost'
        BY <1>1, <1>5, <3>2 DEF Crash, Closers, At
      <3> QED
        BY <3>1, <3>2
    <2> QED
      BY <1>2, <2>1, <2>2 DEF Dropped, Expiring
  <1> QED
    BY <1>3, <1>4, <1>5

LEMMA AnnounceSteps ==
  ASSUME RefInv, [Next]_vars, NEW s \in Sessions
  PROVE  AnnounceStep(s)
  <1>1. CASE UNCHANGED vars \/ \E t \in Sessions : MessageArrives(t) \/ TimePasses(t)
    <2>1. UNCHANGED <<watch, outbox, pc, tgt, xpc, xcur>>
      BY <1>1 DEF vars, tables, commandVars, schedulerVars, MessageArrives, TimePasses, NoCommandMoves,
         IncrementMessageCount, TtlPasses
    <2> QED
      BY <2>1 DEF AnnounceStep, SameTarget, SameClosers, OffEvents, Closers, Expiring, At
  <1> QED
    BY <1>1, StartAnnounceStep, FinderAnnounceStep, ExpireAnnounceStep, FaultAnnounceStep
       DEF Next, Finders

-----------------------------------------------------------------------------

\* A start that has not turned its target on, and a row that does not exist,
\* have none.
NotYetWatched == {"idle", "reserve", "bind", "briefing", "watch"}

NothingToWatch ==
  \A s \in Sessions : pc[s] \in NotYetWatched \/ state[s] = "ABSENT" => watch[s] = "NONE"

\* The right to announce is taken once, from an ON target, and given up once.
AnnounceOnce ==
  \A s \in Sessions :
    /\ pc[s] \in NotYetWatched \/ watch[s] = "ON" =>
         OffEvents(s) = {} /\ Closers(s) = {} /\ ~Expiring(s)
    /\ Closers(s) # {} \/ Expiring(s) => OffEvents(s) = {}
    /\ Expiring(s) => Closers(s) = {}
    /\ \A c, d \in Closers(s) : c = d
    /\ \A i, j \in OffEvents(s) : i = j
    /\ watch[s] \in OffReasons =>
         OffEvents(s) # {} \/ Closers(s) # {} \/ Expiring(s) \/ s \in lost

OffInv == RefInv /\ NothingToWatch /\ AnnounceOnce

LEMMA NextNothingToWatch ==
  ASSUME RefInv, NothingToWatch, [Next]_vars
  PROVE  NothingToWatch'
  <1> SUFFICES ASSUME NEW s \in Sessions, pc'[s] \in NotYetWatched \/ state'[s] = "ABSENT"
               PROVE  watch'[s] = "NONE"
    BY DEF NothingToWatch
  <1>1. /\ StartMove(s) /\ RowsChange
        /\ state \in [Sessions -> SessionStates \cup {"ABSENT"}]
        /\ watch \in [Sessions -> OffReasons \cup {"NONE", "ON"}]
    BY StartMoves, StepRows DEF RefInv, OneInv, TypeInv, StoreTypeOK, Starts
  <1>2. /\ pc[s] \in NotYetWatched => watch[s] = "NONE"
        /\ state[s] = "ABSENT" => watch[s] = "NONE"
        /\ pc[s] = "watch" => state[s] # "ABSENT"
    BY DEF NothingToWatch, RefInv, HasRow, RowExists, Starts, StartTry
  <1>3. CASE pc'[s] \in NotYetWatched
    <2>1. pc[s] \in NotYetWatched /\ NeverTurnedOn(s)
      BY <1>1, <1>3 DEF StartMove, StartKeeps, Begins, Proceeds, Returns, StartFails, RollsBack, StartCut,
         NotYetWatched, NeverTurnedOn
    <2> QED
      BY <1>1, <1>2, <2>1 DEF RowsChange, RowStep, Reserved, Claimed, Released, Ended, Deleted, WatchedOn,
         WatchedOff, NeverTurnedOn, IsWatched
  <1>4. CASE state'[s] = "ABSENT"
    BY <1>1, <1>2, <1>4 DEF RowsChange, RowStep, Reserved, Claimed, Released, Ended, Deleted, WatchedOn,
       WatchedOff, At, IsWatched, OffReasons, SessionStates
  <1> QED
    BY <1>3, <1>4

LEMMA NextAnnounceOnce ==
  ASSUME OffInv, [Next]_vars
  PROVE  AnnounceOnce'
  <1> SUFFICES ASSUME NEW s \in Sessions
               PROVE
    /\ pc'[s] \in NotYetWatched \/ watch'[s] = "ON" =>
         OffEvents(s)' = {} /\ Closers(s)' = {} /\ ~Expiring(s)'
    /\ Closers(s)' # {} \/ Expiring(s)' => OffEvents(s)' = {}
    /\ Expiring(s)' => Closers(s)' = {}
    /\ \A c, d \in Closers(s)' : c = d
    /\ \A i, j \in OffEvents(s)' : i = j
    /\ watch'[s] \in OffReasons =>
         OffEvents(s)' # {} \/ Closers(s)' # {} \/ Expiring(s)' \/ s \in lost'
    BY DEF AnnounceOnce
  <1>1. AnnounceStep(s) /\ lost \subseteq lost'
    BY AnnounceSteps, HistoryGrows DEF OffInv
  <1>2. pc'[s] \in NotYetWatched => pc[s] \in NotYetWatched
    <2>1. StartMove(s)
      BY StartMoves DEF OffInv, Starts
    <2> QED
      BY <2>1 DEF StartMove, StartKeeps, Begins, Proceeds, Returns, StartFails, RollsBack, StartCut,
         NotYetWatched
  <1>3. pc[s] \in NotYetWatched \/ state[s] = "ABSENT" => watch[s] = "NONE"
    BY DEF OffInv, NothingToWatch
  <1>4. /\ pc[s] \in NotYetWatched \/ watch[s] = "ON" =>
             OffEvents(s) = {} /\ Closers(s) = {} /\ ~Expiring(s)
        /\ Closers(s) # {} \/ Expiring(s) => OffEvents(s) = {}
        /\ Expiring(s) => Closers(s) = {}
        /\ \A c, d \in Closers(s) : c = d
        /\ \A i, j \in OffEvents(s) : i = j
        /\ watch[s] \in OffReasons =>
             OffEvents(s) # {} \/ Closers(s) # {} \/ Expiring(s) \/ s \in lost
    BY DEF OffInv, AnnounceOnce
  <1> USE DEF SameTarget, SameClosers
  <1>5. CASE SameTarget(s) /\ SameClosers(s)
    BY <1>1, <1>2, <1>4, <1>5
  <1>6. CASE TurnedOn(s)
    <2>1. pc[s] \in NotYetWatched
      BY <1>6 DEF TurnedOn, NotYetWatched
    <2>2. watch'[s] \notin OffReasons
      BY <1>3, <1>6, <2>1, StepRows
         DEF TurnedOn, RowsChange, RowStep, Reserved, Claimed, Released, Ended, Deleted, WatchedOn,
             WatchedOff, IsWatched, OffReasons, OffInv, RefInv, OneInv, TypeInv, StoreTypeOK
    <2> QED
      BY <1>4, <1>6, <2>1, <2>2 DEF TurnedOn
  <1>7. CASE TurnedOff(s)
    BY <1>2, <1>3, <1>4, <1>7 DEF TurnedOff, OffReasons
  <1>8. CASE Announced(s)
    BY <1>2, <1>4, <1>8 DEF Announced
  <1>9. CASE Dropped(s)
    BY <1>1, <1>2, <1>3, <1>4, <1>9 DEF Dropped, OffReasons
  <1>10. CASE Gone(s)
    BY <1>2, <1>4, <1>10 DEF Gone, OffReasons
  <1> QED
    BY <1>1, <1>5, <1>6, <1>7, <1>8, <1>9, <1>10 DEF AnnounceStep

LEMMA SpecOffInv == Spec => []OffInv
  <1>1. Init => NothingToWatch /\ AnnounceOnce
    <2> SUFFICES ASSUME Init PROVE NothingToWatch /\ AnnounceOnce
      OBVIOUS
    <2>1. \A s \in Sessions : OffEvents(s) = {} /\ Closers(s) = {} /\ ~Expiring(s)
      BY DEF Init, StoreInit, OffEvents, Closers, Expiring, At, Finders, Commands
    <2> QED
      BY <2>1 DEF Init, StoreInit, NothingToWatch, AnnounceOnce, OffReasons
  <1>2. OffInv /\ RefInv' /\ [Next]_vars => OffInv'
    BY NextNothingToWatch, NextAnnounceOnce DEF OffInv
  <1> QED
    BY <1>1, <1>2, SpecRefInv, PTL DEF Spec, OffInv

\* Whoever closes the planning mode of a session, a launch, a stop or the TTL,
\* the room hears of it once: a second OFF event is impossible, and none at all
\* takes a fault or a crash between the UPDATE and the INSERT.
THEOREM OneOffEvent == Spec => []OffAnnouncedOnce
  <1>1. ASSUME OffInv PROVE OffAnnouncedOnce
    <2> SUFFICES ASSUME NEW s \in Sessions
                 PROVE  /\ Cardinality(OffEvents(s)) <= 1
                        /\ watch[s] \in OffReasons =>
                             OffEvents(s) # {} \/ AnnouncingOff(s) \/ s \in lost
      BY DEF OffAnnouncedOnce
    <2>1. AnnouncingOff(s) <=> Closers(s) # {} \/ Expiring(s)
      BY DEF AnnouncingOff, Closers, Expiring, Finders
    <2>2. Cardinality(OffEvents(s)) <= 1
      <3>1. CASE OffEvents(s) = {}
        BY <3>1, FS_EmptySet
      <3>2. ASSUME NEW i \in OffEvents(s) PROVE Cardinality(OffEvents(s)) <= 1
        <4>1. OffEvents(s) = {i}
          BY <1>1, <3>2 DEF OffInv, AnnounceOnce
        <4>2. Cardinality({i}) = 1
          BY FS_Singleton, Zenon
        <4> QED
          BY <4>1, <4>2
      <3> QED
        BY <3>1, <3>2
    <2> QED
      BY <1>1, <2>1, <2>2 DEF OffInv, AnnounceOnce
  <1> QED
    BY <1>1, SpecOffInv, PTL
=============================================================================
