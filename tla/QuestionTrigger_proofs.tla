------------------------ MODULE QuestionTrigger_proofs ------------------------
(***************************************************************************)
(* Theorems about QuestionTrigger: for any commands, any number of failing *)
(* calls, crashes and question intervals.                                  *)
(*                                                                         *)
(* Neither bound on questions is inductive.  A target that was claimed is  *)
(* as good as asked, because from the claim to the event the run looks at  *)
(* nothing but the session row: both proofs count it together with the     *)
(* events.  That a claim comes before every OFF event is a fact about the  *)
(* room, OffInv of RoomSafety_proofs, which therefore is shown to hold     *)
(* beside the question scheduler as well.                                  *)
(***************************************************************************)
EXTENDS QuestionTrigger, RoomSafety_proofs

-----------------------------------------------------------------------------
(* The outbox beside the question scheduler.                                *)

\* What a step of the rest of the program does to the events of a session.
OutboxStep(s) ==
  \/ outbox'[s] = outbox[s]
  \/ \E e \in {"ON", "OFF"} : outbox'[s] = Append(outbox[s], e)
  \/ outbox'[s] = <<>>

LEMMA EnqueueStep ==
  ASSUME StoreTypeOK, NEW t \in Sessions, NEW e \in {"ON", "OFF"}, EnqueueEvent(t, e), NEW s \in Sessions
  PROVE  OutboxStep(s)
<1>1. outbox' = [outbox EXCEPT ![t] = Append(@, e)] /\ outbox \in [Sessions -> Seq(ModeEvents)]
  BY DEF EnqueueEvent, StoreTypeOK
<1>2. CASE s = t
  BY <1>1, <1>2 DEF OutboxStep
<1>3. CASE s # t
  BY <1>1, <1>3 DEF OutboxStep
<1> QED BY <1>2, <1>3

LEMMA StartOutboxStep ==
  ASSUME TypeInv, NEW a \in Starts, StartStep(a), NEW s \in Sessions
  PROVE  OutboxStep(s)
<1> USE DEF Starts, tables, TypeInv
<1>1. CASE StartAnnounceOn(a)
  BY <1>1, EnqueueStep DEF StartAnnounceOn
<1>2. CASE StartRollback(a)
  <2>1. \/ outbox' = outbox
        \/ outbox' = [outbox EXCEPT ![a] = <<>>] /\ outbox \in [Sessions -> Seq(ModeEvents)]
    BY <1>2 DEF StartRollback, DeleteSession, StoreTypeOK
  <2>2. CASE s = a
    BY <2>1, <2>2 DEF OutboxStep
  <2>3. CASE s # a
    BY <2>1, <2>3 DEF OutboxStep
  <2> QED BY <2>2, <2>3
<1>3. CASE \/ StartFind(a) \/ StartReserve(a) \/ StartBindThread(a)
           \/ StartSaveBriefing(a) \/ StartTurnOnWatch(a)
  <2>1. outbox' = outbox
    BY <1>3 DEF StartFind, StartReserve, StartBindThread, StartSaveBriefing, StartTurnOnWatch,
       InsertPreparedSession, UpdateStartThread, InsertBriefing, InsertWatchTarget
  <2> QED BY <2>1 DEF OutboxStep
<1> QED BY <1>1, <1>2, <1>3 DEF StartStep

LEMMA ModeOutboxStep ==
  ASSUME TypeInv, NEW c \in Launches \cup Stops, ModeStep(c), NEW s \in Sessions
  PROVE  OutboxStep(s)
<1> USE DEF tables, TypeInv
<1>1. CASE ModeAnnounceOff(c)
  <2>1. tgt[c] \in Sessions
    BY <1>1 DEF ModeAnnounceOff, ControlInv, TargetKnown, InFlight, At
  <2>2. EnqueueEvent(tgt[c], "OFF") \/ outbox' = outbox
    BY <1>1 DEF ModeAnnounceOff
  <2> QED BY <2>1, <2>2, EnqueueStep DEF OutboxStep
<1>2. CASE ModeFindOn(c) \/ ModeTurnOff(c)
  <2>1. outbox' = outbox
    BY <1>2 DEF ModeFindOn, ModeTurnOff, TurnOffWatchTarget
  <2> QED BY <2>1 DEF OutboxStep
<1> QED BY <1>1, <1>2 DEF ModeStep

LEMMA OutboxSteps ==
  ASSUME TypeInv, [Next]_vars, NEW s \in Sessions
  PROVE  OutboxStep(s)
<1> USE DEF tables, TypeInv
<1>1. ASSUME outbox' = outbox PROVE OutboxStep(s)
  BY <1>1 DEF OutboxStep
<1>2. ASSUME NEW l \in Launches, LaunchStep(l) PROVE OutboxStep(s)
  <2>1. \/ outbox' = outbox
        \/ ModeStep(l)
    BY <1>2 DEF LaunchStep, LaunchFind, LaunchEnsureReady, LaunchClaim, LaunchReserveMetadata,
       LaunchCreateRound, LaunchCreateThread, LaunchSyncThread, LaunchUndoRound, LaunchRelease,
       ClaimPreparedSession, UpdateLaunchThread, InsertRound, DeleteRound, ReleaseLaunchClaim
  <2> QED BY <1>1, <2>1, ModeOutboxStep
<1>3. ASSUME NEW p \in Stops, StopStep(p) PROVE OutboxStep(s)
  <2>1. outbox' = outbox \/ ModeStep(p)
    BY <1>3 DEF StopStep, StopFind, StopDecide, UpdateToDecided
  <2> QED BY <1>1, <2>1, ModeOutboxStep
<1>4. CASE ExpireStep
  <2>1. \/ outbox' = outbox
        \/ EnqueueEvent(xcur, "OFF") /\ xcur \in Sessions
    BY <1>4 DEF ExpireStep, ExpireScan, ExpireLoad, ExpireDecide, ExpireTurnOff, ExpireAnnounceOff,
       UpdateToDecided, TurnOffWatchTarget, ControlInv, CursorKnown
  <2> QED BY <1>1, <2>1, EnqueueStep
<1>5. CASE UNCHANGED vars \/ \E t \in Sessions : MessageArrives(t) \/ TimePasses(t)
  BY <1>1, <1>5 DEF vars, MessageArrives, TimePasses, IncrementMessageCount, TtlPasses
<1>6. ASSUME NEW c \in Commands, CallFails(c) \/ ReadBackFails(c) PROVE OutboxStep(s)
  BY <1>1, <1>6 DEF CallFails, ReadBackFails, WriteOf, InsertPreparedSession, UpdateStartThread,
     InsertBriefing, InsertWatchTarget, UpdateLaunchThread, InsertRound, TurnOffWatchTarget,
     UpdateToDecided
<1>7. CASE ExpireFails \/ Crash
  BY <1>1, <1>7 DEF ExpireFails, Crash, TurnOffWatchTarget
<1> QED BY <1>2, <1>3, <1>4, <1>5, <1>6, <1>7, StartOutboxStep DEF Next

-----------------------------------------------------------------------------
(* Events of a session, and what an event more does to them.                *)

LEMMA QuestionsAppend ==
  ASSUME NEW s \in Sessions, NEW e, outbox[s] \in Seq(ModeEvents),
         outbox'[s] = Append(outbox[s], e)
  PROVE  /\ Questions(s)' = IF e = "QUESTION" THEN Questions(s) \cup {Len(outbox[s]) + 1}
                            ELSE Questions(s)
         /\ AfterOff(s)' \subseteq IF e = "QUESTION" THEN AfterOff(s) \cup {Len(outbox[s]) + 1}
                                   ELSE AfterOff(s)
<1> DEFINE n == Len(outbox[s]) + 1
<1>1. /\ Len(outbox'[s]) = n /\ Len(outbox[s]) \in Nat /\ n \in Nat
      /\ \A i \in 1..Len(outbox[s]) : outbox'[s][i] = outbox[s][i]
      /\ outbox'[s][n] = e
  OBVIOUS
<1>2. \A i : i \in 1..n <=> i \in 1..Len(outbox[s]) \/ i = n
  BY <1>1
<1>3. Questions(s)' = IF e = "QUESTION" THEN Questions(s) \cup {n} ELSE Questions(s)
  BY <1>1, <1>2 DEF Questions
<1>4. OffEvents(s)' = IF e = "OFF" THEN OffEvents(s) \cup {n} ELSE OffEvents(s)
  BY OffEventsAppend
<1>5. \A i \in Questions(s) : i \in 1..Len(outbox[s]) /\ ~(n < i)
  BY <1>1 DEF Questions
<1>6. ASSUME NEW i \in AfterOff(s)', i \in Questions(s) PROVE i \in AfterOff(s)
  <2>1. PICK j \in OffEvents(s)' : j < i
    BY DEF AfterOff
  <2>2. j # n
    BY <1>5, <1>6, <2>1
  <2> QED BY <1>4, <1>6, <2>1, <2>2 DEF AfterOff
<1>7. AfterOff(s)' \subseteq Questions(s)'
  BY DEF AfterOff
<1> HIDE DEF n
<1> QED BY <1>3, <1>6, <1>7 DEF n

LEMMA QuestionsFinite ==
  ASSUME NEW s \in Sessions, outbox[s] \in Seq(ModeEvents)
  PROVE  /\ IsFiniteSet(Questions(s)) /\ Cardinality(Questions(s)) \in Nat
         /\ IsFiniteSet(AfterOff(s)) /\ Cardinality(AfterOff(s)) \in Nat
<1>1. 1 \in Int /\ Len(outbox[s]) \in Int
  OBVIOUS
<1>2. IsFiniteSet(1..Len(outbox[s]))
  BY <1>1, FS_Interval, Zenon
<1>3. Questions(s) \in SUBSET (1..Len(outbox[s])) /\ AfterOff(s) \in SUBSET Questions(s)
  BY DEF Questions, AfterOff
<1>4. IsFiniteSet(Questions(s))
  BY <1>2, <1>3, FS_Subset, Zenon
<1>5. IsFiniteSet(AfterOff(s))
  BY <1>3, <1>4, FS_Subset, Zenon
<1> QED BY <1>4, <1>5, FS_CardinalityType, Zenon

-----------------------------------------------------------------------------
(* The invariant.                                                           *)

RoomInv == LaunchInv /\ OffInv

RunTypes ==
  /\ asked \subseteq Sessions
  /\ qpc \in {"idle", "claim", "reread", "load", "enqueue"}
  /\ qbatch \subseteq Sessions
  /\ qclaimed \subseteq Sessions
  /\ qcur \in Sessions \cup {None}
  /\ qpc = "idle" => qbatch = {} /\ qclaimed = {}
  /\ qpc = "claim" => qbatch # {}
  /\ qpc = "load" => qclaimed # {}
  /\ qpc \in {"reread", "enqueue"} <=> qcur # None
  /\ intervals \in [Sessions -> 0..MaxIntervals]

\* A target is claimed once in a run.
RunInv ==
  /\ qbatch \cap qclaimed = {}
  /\ qpc = "reread" => qcur \in qbatch
  /\ qpc = "enqueue" => qcur \in qclaimed

\* The run has claimed the target and is bound to ask it.
Committed(s) == s \in qclaimed \/ (qpc = "reread" /\ qcur = s)

\* What was asked and is bound to be asked was paid for by the first turn and
\* the intervals that passed.
PaceInv ==
  \A s \in Sessions :
    Cardinality(Questions(s)) + (IF Committed(s) THEN 1 ELSE 0)
      <= intervals[s] + (IF s \in asked THEN 1 ELSE 0)

LateInv ==
  \A s \in Sessions :
    /\ Cardinality(AfterOff(s)) <= 1
    /\ Committed(s) => AfterOff(s) = {}

QuestionInv == RoomInv /\ RunTypes /\ RunInv /\ PaceInv /\ LateInv

-----------------------------------------------------------------------------
(* What a step does to the question of one target.                          *)

SameTurn(s) == (s \in asked' <=> s \in asked) /\ intervals'[s] = intervals[s]

\* The rest of the program, or a step of the run that at most gives up.
Otherwise(s) == OutboxStep(s) /\ (Committed(s)' => Committed(s)) /\ SameTurn(s)

TakesUp(s) ==
  /\ outbox'[s] = outbox[s] /\ Due(s) /\ ~Committed(s)
  /\ s \in asked' /\ intervals'[s] = intervals[s]

Asks(s) ==
  /\ outbox'[s] = Append(outbox[s], "QUESTION")
  /\ Committed(s) /\ ~Committed(s)' /\ SameTurn(s)

Passes(s) ==
  /\ outbox'[s] = outbox[s] /\ (Committed(s)' <=> Committed(s))
  /\ s \in asked /\ s \notin asked' /\ intervals'[s] = intervals[s] + 1

TurnStep(s) == Otherwise(s) \/ TakesUp(s) \/ Asks(s) \/ Passes(s)

LEMMA RestTurn ==
  ASSUME QuestionInv, RestMoves, NEW s \in Sessions
  PROVE  TurnStep(s)
<1>1. OutboxStep(s)
  BY OutboxSteps DEF RestMoves, QuestionInv, RoomInv, LaunchInv
<1>2. asked' = asked /\ intervals' = intervals
  BY DEF RestMoves
<1>3. Committed(s)' => Committed(s)
  BY DEF RestMoves, RunLost, runVars, Committed
<1> QED BY <1>1, <1>2, <1>3 DEF TurnStep, Otherwise, SameTurn

LEMMA RunTurn ==
  ASSUME QuestionInv, QuestionStep \/ QuestionFails, NEW s \in Sessions
  PROVE  TurnStep(s)
<1> USE DEF tables
<1>0. None \notin Sessions
  BY CommandsAssumption
<1>1. ASSUME outbox' = outbox, asked' = asked, intervals' = intervals, Committed(s)' => Committed(s)
      PROVE  TurnStep(s)
  BY <1>1 DEF TurnStep, Otherwise, SameTurn, OutboxStep
<1>2. CASE QuestionScan \/ QuestionFails
  <2>1. Committed(s)' => Committed(s)
    BY <1>2, <1>0 DEF QuestionScan, QuestionFails, ClaimNext, RunLost, Committed
  <2> QED BY <1>1, <1>2, <2>1 DEF QuestionScan, QuestionFails
<1>3. CASE QuestionClaim
  <2>1. qpc = "claim" /\ UNCHANGED <<outbox, intervals>>
    BY <1>3 DEF QuestionClaim
  <2>2. PICK t \in qbatch :
          IF Due(t)
          THEN /\ asked' = asked \cup {t}
               /\ qpc' = "reread" /\ qcur' = t
               /\ UNCHANGED <<qbatch, qclaimed>>
          ELSE ClaimNext(qbatch \ {t}, qclaimed) /\ UNCHANGED asked
    BY <1>3 DEF QuestionClaim
  <2>3. CASE Due(t) /\ s = t
    <3>1. ~Committed(s)
      BY <2>1, <2>2, <2>3 DEF Committed, QuestionInv, RunInv
    <3> QED BY <2>1, <2>2, <2>3, <3>1 DEF TurnStep, TakesUp
  <2>4. CASE Due(t) /\ s # t
    <3>1. (Committed(s)' => Committed(s)) /\ SameTurn(s)
      BY <2>1, <2>2, <2>4 DEF Committed, SameTurn
    <3> QED BY <2>1, <3>1 DEF TurnStep, Otherwise, OutboxStep
  <2>5. CASE ~Due(t)
    <3>1. Committed(s)' => Committed(s)
      BY <2>2, <2>5, <1>0 DEF ClaimNext, Committed
    <3> QED BY <1>1, <2>1, <2>2, <2>5, <3>1
  <2> QED BY <2>3, <2>4, <2>5
<1>4. CASE QuestionReread
  <2>1. qpc = "reread" /\ UNCHANGED <<outbox, asked, intervals>>
    BY <1>4 DEF QuestionReread
  <2>2. Committed(s)' => Committed(s)
    BY <1>0, <1>4 DEF QuestionReread, ClaimNext, RunLost, Committed
  <2> QED BY <1>1, <2>1, <2>2
<1>5. CASE QuestionLoad
  <2>1. UNCHANGED <<outbox, asked, intervals>>
    BY <1>5 DEF QuestionLoad
  <2>2. Committed(s)' => Committed(s)
    BY <1>0, <1>5 DEF QuestionLoad, ClaimNext, Committed
  <2> QED BY <1>1, <2>1, <2>2
<1>6. CASE QuestionEnqueue
  <2>1. qpc = "enqueue" /\ qcur \in qclaimed /\ UNCHANGED <<asked, intervals>>
    BY <1>6 DEF QuestionEnqueue, QuestionInv, RunInv
  <2>2. CASE ~RowExists(qcur)
    <3>1. RunLost /\ outbox' = outbox
      BY <1>6, <2>2 DEF QuestionEnqueue
    <3>2. ~Committed(s)'
      BY <1>0, <3>1 DEF RunLost, Committed
    <3> QED BY <1>1, <2>1, <3>1, <3>2
  <2>3. CASE RowExists(qcur)
    <3>1. EnqueueEvent(qcur, "QUESTION") /\ ClaimNext({}, qclaimed \ {qcur})
      BY <1>6, <2>3 DEF QuestionEnqueue
    <3>2. Committed(s)' <=> s \in qclaimed \ {qcur}
      BY <1>0, <3>1 DEF ClaimNext, Committed
    <3>3. outbox' = [outbox EXCEPT ![qcur] = Append(@, "QUESTION")] /\ outbox \in [Sessions -> Seq(ModeEvents)]
      BY <3>1 DEF EnqueueEvent, QuestionInv, RoomInv, LaunchInv, TypeInv, StoreTypeOK
    <3>4. CASE s = qcur
      <4>1. Committed(s) /\ ~Committed(s)' /\ outbox'[s] = Append(outbox[s], "QUESTION")
        BY <2>1, <3>2, <3>3, <3>4 DEF Committed
      <4> QED BY <2>1, <4>1 DEF TurnStep, Asks, SameTurn
    <3>5. CASE s # qcur
      <4>1. (Committed(s)' => Committed(s)) /\ outbox'[s] = outbox[s]
        BY <3>2, <3>3, <3>5 DEF Committed
      <4> QED BY <2>1, <4>1 DEF TurnStep, Otherwise, SameTurn, OutboxStep
    <3> QED BY <3>4, <3>5
  <2> QED BY <2>2, <2>3
<1> QED BY <1>2, <1>3, <1>4, <1>5, <1>6 DEF QuestionStep

LEMMA TurnSteps ==
  ASSUME QuestionInv, [QuestionNext]_allVars, NEW s \in Sessions
  PROVE  TurnStep(s)
<1>1. CASE UNCHANGED allVars
  <2>1. UNCHANGED <<outbox, asked, intervals, qpc, qclaimed, qcur>>
    BY <1>1 DEF allVars, vars, tables, questionVars, runVars
  <2>2. Committed(s)' <=> Committed(s)
    BY <2>1 DEF Committed
  <2> QED BY <2>1, <2>2 DEF TurnStep, Otherwise, SameTurn, OutboxStep
<1>2. ASSUME NEW t \in Sessions, QuestionIntervalPasses(t) PROVE TurnStep(s)
  <2>1. /\ t \in asked /\ asked' = asked \ {t} /\ intervals' = [intervals EXCEPT ![t] = @ + 1]
        /\ intervals \in [Sessions -> 0..MaxIntervals]
        /\ UNCHANGED <<outbox, qpc, qclaimed, qcur>>
    BY <1>2 DEF QuestionIntervalPasses, tables, runVars, QuestionInv, RunTypes
  <2>2. Committed(s)' <=> Committed(s)
    BY <2>1 DEF Committed
  <2>3. CASE s = t
    BY <2>1, <2>2, <2>3 DEF TurnStep, Passes
  <2>4. CASE s # t
    <3>1. SameTurn(s)
      BY <2>1, <2>4 DEF SameTurn
    <3> QED BY <2>1, <2>2, <3>1 DEF TurnStep, Otherwise, OutboxStep
  <2> QED BY <2>3, <2>4
<1> QED BY <1>1, <1>2, RestTurn, RunTurn DEF QuestionNext

-----------------------------------------------------------------------------
(* The room: a step of the run enqueues a question or lets it alone.        *)

LEMMA RoomMoves ==
  ASSUME RoomInv, [Next]_vars
  PROVE  RoomInv'
<1>1. LaunchInv' /\ OneInv' /\ HasRow'
  BY NextLaunchInv, NextOneInv, HasRowKept DEF RoomInv, LaunchInv, OffInv, RefInv
<1>2. RefInv'
  BY <1>1 DEF RefInv, LaunchInv
<1>3. NothingToWatch' /\ AnnounceOnce'
  BY NextNothingToWatch, NextAnnounceOnce DEF RoomInv, OffInv
<1> QED BY <1>1, <1>2, <1>3 DEF RoomInv, OffInv

LEMMA RoomStays ==
  ASSUME RoomInv, UNCHANGED <<sessionTable, briefings, rounds, watch, overdue>>,
         UNCHANGED <<commandVars, schedulerVars, historyVars, crashes>>, faults' \in Nat,
         outbox' = outbox \/ \E s \in Sessions : outbox' = [outbox EXCEPT ![s] = Append(@, "QUESTION")]
  PROVE  RoomInv'
<1> USE DEF sessionTable, commandVars, schedulerVars, historyVars
<1>1. UNCHANGED <<state, startThread, launchThread, briefings, rounds, watch, overdue, pc, result, tgt,
                  threadBound, roundNo, xpc, xbatch, xcur, overlapped, lost, crashes>>
  OBVIOUS
<1>2. StoreTypeOK /\ ControlInv
  BY DEF RoomInv, LaunchInv, TypeInv
<1>3. outbox' \in [Sessions -> Seq(ModeEvents)]
  <2>1. outbox \in [Sessions -> Seq(ModeEvents)]
    BY <1>2 DEF StoreTypeOK
  <2>2. ASSUME NEW s \in Sessions, outbox' = [outbox EXCEPT ![s] = Append(@, "QUESTION")]
        PROVE  outbox' \in [Sessions -> Seq(ModeEvents)]
    <3>1. Append(outbox[s], "QUESTION") \in Seq(ModeEvents)
      BY <2>1 DEF ModeEvents
    <3> QED BY <2>1, <2>2, <3>1
  <2> QED BY <2>1, <2>2
<1>4. StoreTypeOK'
  BY <1>1, <1>2, <1>3 DEF StoreTypeOK
<1>5. ControlInv'
  BY <1>1, <1>2 DEF ControlInv, TargetKnown, CursorKnown, InFlight
<1>6. \A s \in Sessions : OffEvents(s)' = OffEvents(s)
  <2> SUFFICES ASSUME NEW s \in Sessions PROVE OffEvents(s)' = OffEvents(s)
    OBVIOUS
  <2>1. outbox[s] \in Seq(ModeEvents)
    BY <1>2 DEF StoreTypeOK
  <2>2. outbox'[s] = outbox[s] \/ outbox'[s] = Append(outbox[s], "QUESTION")
    BY <1>2 DEF StoreTypeOK
  <2>3. CASE outbox'[s] = outbox[s]
    BY <2>3 DEF OffEvents
  <2>4. CASE outbox'[s] = Append(outbox[s], "QUESTION")
    <3>1. OffEvents(s)' = IF "QUESTION" = "OFF" THEN OffEvents(s) \cup {Len(outbox[s]) + 1}
                          ELSE OffEvents(s)
      BY <2>1, <2>4, OffEventsAppend, Zenon
    <3> QED BY <3>1
  <2> QED BY <2>2, <2>3, <2>4
<1>7. AtMostOneActive' /\ AtMostOneWatching'
  BY <1>1 DEF RoomInv, OffInv, RefInv, OneInv, AtMostOneActive, AtMostOneWatching, Active, IsActive,
     Watching
<1>8. NotYetInserted' /\ CoreOwns' /\ LaunchExclusive' /\ HasRow'
  BY <1>1 DEF RoomInv, LaunchInv, OffInv, RefInv, NotYetInserted, CoreOwns, LaunchExclusive, HasRow,
     RowExists
<1>9. NothingToWatch'
  BY <1>1 DEF RoomInv, OffInv, NothingToWatch
<1>10. AnnounceOnce'
  <2>1. \A s \in Sessions : Closers(s)' = Closers(s) /\ Expiring(s)' = Expiring(s)
    BY <1>1 DEF Closers, Expiring, At
  <2> QED BY <1>1, <1>6, <2>1 DEF RoomInv, OffInv, AnnounceOnce
<1> QED BY <1>4, <1>5, <1>7, <1>8, <1>9, <1>10
        DEF RoomInv, LaunchInv, OffInv, RefInv, OneInv, TypeInv

LEMMA NextRoom ==
  ASSUME QuestionInv, [QuestionNext]_allVars
  PROVE  RoomInv'
<1> USE DEF tables
<1>1. CASE RestMoves
  BY <1>1, RoomMoves DEF RestMoves, QuestionInv
<1>2. CASE UNCHANGED allVars
  BY <1>2, RoomMoves DEF allVars, QuestionInv
<1>3. faults \in Nat
  BY DEF QuestionInv, RoomInv, LaunchInv, TypeInv, ControlInv
<1>4. CASE QuestionScan \/ QuestionClaim \/ QuestionReread \/ QuestionLoad
  BY <1>3, <1>4, RoomStays
     DEF QuestionScan, QuestionClaim, QuestionReread, QuestionLoad, RoomFrame, boundVars, QuestionInv,
         sessionTable
<1>5. CASE QuestionEnqueue
  <2>1. qcur \in Sessions
    BY <1>5 DEF QuestionEnqueue, QuestionInv, RunInv, RunTypes
  <2>2. /\ UNCHANGED <<sessionTable, briefings, rounds, watch, overdue>>
        /\ outbox' = outbox \/ outbox' = [outbox EXCEPT ![qcur] = Append(@, "QUESTION")]
    BY <1>5 DEF QuestionEnqueue, EnqueueEvent, sessionTable
  <2>3. UNCHANGED <<commandVars, schedulerVars, historyVars, crashes>> /\ faults' = faults
    BY <1>5 DEF QuestionEnqueue, RoomFrame, boundVars
  <2> QED BY <1>3, <2>1, <2>2, <2>3, RoomStays DEF QuestionInv
<1>6. CASE QuestionFails
  <2>1. UNCHANGED <<tables, commandVars, schedulerVars, historyVars, crashes>> /\ faults' = faults + 1
    BY <1>6 DEF QuestionFails, FaultFrame, commandVars, historyVars
  <2>2. faults' \in Nat
    BY <1>3, <2>1
  <2> QED BY <2>1, <2>2, RoomStays DEF QuestionInv, sessionTable
<1>7. CASE \E s \in Sessions : QuestionIntervalPasses(s)
  BY <1>3, <1>7, RoomStays DEF QuestionIntervalPasses, RoomFrame, boundVars, QuestionInv, sessionTable
<1> QED BY <1>1, <1>2, <1>4, <1>5, <1>6, <1>7 DEF QuestionNext, QuestionStep

-----------------------------------------------------------------------------
(* The run.                                                                 *)

\* Where a run goes on from what it is left with.
LEMMA ClaimNextFacts ==
  ASSUME NEW batch \in SUBSET Sessions, NEW claimed \in SUBSET Sessions, batch \cap claimed = {},
         ClaimNext(batch, claimed)
  PROVE  /\ qbatch' = batch /\ qclaimed' = claimed /\ qcur' = None
         /\ qpc' \in {"idle", "claim", "load"}
         /\ qpc' = "idle" => batch = {} /\ claimed = {}
         /\ qpc' = "claim" => batch # {}
         /\ qpc' = "load" => claimed # {}
  BY DEF ClaimNext

\* The part of RunTypes and RunInv that is about the run alone.
RunOk ==
  /\ qpc \in {"idle", "claim", "reread", "load", "enqueue"}
  /\ qbatch \subseteq Sessions /\ qclaimed \subseteq Sessions
  /\ qcur \in Sessions \cup {None}
  /\ qpc = "idle" => qbatch = {} /\ qclaimed = {}
  /\ qpc = "claim" => qbatch # {}
  /\ qpc = "load" => qclaimed # {}
  /\ qpc \in {"reread", "enqueue"} <=> qcur # None
  /\ RunInv

LEMMA ClaimNextOk ==
  ASSUME NEW batch \in SUBSET Sessions, NEW claimed \in SUBSET Sessions, batch \cap claimed = {},
         ClaimNext(batch, claimed)
  PROVE  RunOk'
  BY ClaimNextFacts DEF RunOk, RunInv

LEMMA RunLostOk ==
  ASSUME RunLost
  PROVE  RunOk'
  BY DEF RunLost, RunOk, RunInv

LEMMA NextRun ==
  ASSUME QuestionInv, [QuestionNext]_allVars
  PROVE  RunOk'
<1>0. RunOk /\ None \notin Sessions
  BY CommandsAssumption DEF QuestionInv, RunTypes, RunOk
<1>1. ASSUME UNCHANGED runVars PROVE RunOk'
  BY <1>0, <1>1 DEF runVars, RunOk, RunInv
<1>2. CASE RestMoves \/ UNCHANGED allVars \/ QuestionFails \/ \E s \in Sessions : QuestionIntervalPasses(s)
  BY <1>1, <1>2, RunLostOk DEF RestMoves, allVars, questionVars, QuestionFails, QuestionIntervalPasses
<1>3. CASE QuestionScan
  <2>1. ClaimNext({s \in Sessions : Due(s)}, {})
    BY <1>3 DEF QuestionScan
  <2> QED BY <2>1, ClaimNextOk
<1>4. CASE QuestionClaim
  <2>1. PICK t \in qbatch :
          IF Due(t)
          THEN qpc' = "reread" /\ qcur' = t /\ UNCHANGED <<qbatch, qclaimed>>
          ELSE ClaimNext(qbatch \ {t}, qclaimed)
    BY <1>4 DEF QuestionClaim
  <2>2. CASE Due(t)
    BY <1>0, <2>1, <2>2 DEF RunOk, RunInv
  <2>3. CASE ~Due(t)
    <3>1. ClaimNext(qbatch \ {t}, qclaimed) /\ (qbatch \ {t}) \cap qclaimed = {}
      BY <1>0, <2>1, <2>3 DEF RunOk, RunInv
    <3> QED BY <1>0, <3>1, ClaimNextOk DEF RunOk
  <2> QED BY <2>2, <2>3
<1>5. CASE QuestionReread
  <2>1. qcur \in qbatch /\ qbatch \cap qclaimed = {} /\ qbatch \subseteq Sessions /\ qclaimed \subseteq Sessions
    BY <1>0, <1>5 DEF QuestionReread, RunOk, RunInv
  <2>2. CASE RowExists(qcur)
    <3>1. ClaimNext(qbatch \ {qcur}, qclaimed \cup {qcur})
      BY <1>5, <2>2 DEF QuestionReread
    <3>2. (qbatch \ {qcur}) \cap (qclaimed \cup {qcur}) = {} /\ qclaimed \cup {qcur} \subseteq Sessions
      BY <2>1
    <3> QED BY <2>1, <3>1, <3>2, ClaimNextOk
  <2>3. CASE ~RowExists(qcur)
    BY <1>5, <2>3, RunLostOk DEF QuestionReread
  <2> QED BY <2>2, <2>3
<1>6. CASE QuestionLoad
  <2>1. PICK s \in qclaimed :
          IF RowExists(s)
          THEN qpc' = "enqueue" /\ qcur' = s /\ UNCHANGED <<qbatch, qclaimed>>
          ELSE ClaimNext({}, qclaimed \ {s})
    BY <1>6 DEF QuestionLoad
  <2>2. CASE RowExists(s)
    BY <1>0, <2>1, <2>2 DEF RunOk, RunInv
  <2>3. CASE ~RowExists(s)
    BY <1>0, <2>1, <2>3, ClaimNextOk DEF RunOk
  <2> QED BY <2>2, <2>3
<1>7. CASE QuestionEnqueue
  <2>1. ClaimNext({}, qclaimed \ {qcur}) \/ RunLost
    BY <1>7 DEF QuestionEnqueue
  <2>2. qclaimed \ {qcur} \subseteq Sessions
    BY <1>0 DEF RunOk
  <2> QED BY <2>1, <2>2, ClaimNextOk, RunLostOk
<1> QED BY <1>2, <1>3, <1>4, <1>5, <1>6, <1>7 DEF QuestionNext, QuestionStep

LEMMA NextTurns ==
  ASSUME QuestionInv, [QuestionNext]_allVars
  PROVE  asked' \subseteq Sessions /\ intervals' \in [Sessions -> 0..MaxIntervals]
<1>1. /\ asked \subseteq Sessions /\ intervals \in [Sessions -> 0..MaxIntervals]
      /\ qbatch \subseteq Sessions
  BY DEF QuestionInv, RunTypes
<1>2. CASE RestMoves \/ UNCHANGED allVars \/ QuestionFails
  BY <1>1, <1>2 DEF RestMoves, allVars, questionVars, QuestionFails
<1>3. CASE QuestionStep
  BY <1>1, <1>3 DEF QuestionStep, QuestionScan, QuestionClaim, QuestionReread, QuestionLoad, QuestionEnqueue
<1>4. ASSUME NEW s \in Sessions, QuestionIntervalPasses(s)
      PROVE  asked' \subseteq Sessions /\ intervals' \in [Sessions -> 0..MaxIntervals]
  <2>1. /\ intervals[s] < MaxIntervals /\ asked' = asked \ {s}
        /\ intervals' = [intervals EXCEPT ![s] = @ + 1]
    BY <1>4 DEF QuestionIntervalPasses
  <2>2. intervals[s] + 1 \in 0..MaxIntervals
    BY <1>1, <2>1, IntervalsAssumption
  <2> QED BY <1>1, <2>1, <2>2
<1> QED BY <1>2, <1>3, <1>4 DEF QuestionNext

-----------------------------------------------------------------------------
(* Paid for, and late once.                                                 *)

LEMMA NextPace ==
  ASSUME QuestionInv, [QuestionNext]_allVars, RoomInv', NEW s \in Sessions
  PROVE  Cardinality(Questions(s)') + (IF Committed(s)' THEN 1 ELSE 0)
           <= intervals'[s] + (IF s \in asked' THEN 1 ELSE 0)
<1> DEFINE count == Cardinality(Questions(s))
           count2 == Cardinality(Questions(s)')
           owed == IF Committed(s) THEN 1 ELSE 0
           owed2 == IF Committed(s)' THEN 1 ELSE 0
           turn == IF s \in asked THEN 1 ELSE 0
           turn2 == IF s \in asked' THEN 1 ELSE 0
<1>1. /\ outbox[s] \in Seq(ModeEvents) /\ outbox'[s] \in Seq(ModeEvents)
      /\ intervals[s] \in Nat /\ intervals'[s] \in Nat
  <2>1. intervals' \in [Sessions -> 0..MaxIntervals]
    BY NextTurns
  <2> QED BY <2>1, IntervalsAssumption
          DEF QuestionInv, RunTypes, RoomInv, LaunchInv, TypeInv, StoreTypeOK
<1>2. IsFiniteSet(Questions(s)) /\ count \in Nat
  BY <1>1, QuestionsFinite
<1>3. count + owed <= intervals[s] + turn
  BY DEF QuestionInv, PaceInv
<1>4. TurnStep(s)
  BY TurnSteps
<1>5. CASE Otherwise(s)
  <2>1. count2 <= count /\ count2 \in Nat
    <3>1. CASE outbox'[s] = outbox[s]
      <4>1. Questions(s)' = Questions(s)
        BY <3>1 DEF Questions
      <4> QED BY <1>2, <4>1
    <3>2. ASSUME NEW e \in {"ON", "OFF"}, outbox'[s] = Append(outbox[s], e)
          PROVE  count2 <= count /\ count2 \in Nat
      <4>1. e # "QUESTION"
        OBVIOUS
      <4>2. Questions(s)' = Questions(s)
        BY <1>1, <3>2, <4>1, QuestionsAppend, Zenon
      <4> QED BY <1>2, <4>2
    <3>3. CASE outbox'[s] = <<>>
      <4>1. Questions(s)' = {}
        BY <3>3 DEF Questions
      <4>2. count2 = 0
        BY <4>1, FS_EmptySet, Zenon
      <4> QED BY <1>2, <4>2
    <3> QED BY <1>5, <3>1, <3>2, <3>3 DEF Otherwise, OutboxStep
  <2>2. owed2 <= owed /\ owed2 \in {0, 1} /\ owed \in {0, 1} /\ turn2 = turn /\ turn \in {0, 1}
        /\ intervals'[s] = intervals[s]
    BY <1>5 DEF Otherwise, SameTurn
  <2> HIDE DEF count, count2, owed, owed2, turn, turn2
  <2>3. count2 + owed2 <= intervals[s] + turn
    BY <1>1, <1>2, <1>3, <2>1, <2>2
  <2> QED BY <2>2, <2>3 DEF count2, owed2, turn2, turn
<1>6. CASE TakesUp(s)
  <2>1. Questions(s)' = Questions(s)
    BY <1>6 DEF TakesUp, Questions
  <2>2. owed = 0 /\ owed2 \in {0, 1} /\ turn = 0 /\ turn2 = 1 /\ count2 = count
        /\ intervals'[s] = intervals[s]
    BY <1>6, <2>1 DEF TakesUp, Due
  <2> HIDE DEF count, count2, owed, owed2, turn, turn2
  <2>3. count2 + owed2 <= intervals[s] + turn2
    BY <1>1, <1>2, <1>3, <2>2
  <2> QED BY <2>2, <2>3 DEF count2, owed2, turn2
<1>7. CASE Asks(s)
  <2>1. Questions(s)' = Questions(s) \cup {Len(outbox[s]) + 1}
    <3>1. Questions(s)' = IF "QUESTION" = "QUESTION" THEN Questions(s) \cup {Len(outbox[s]) + 1}
                          ELSE Questions(s)
      BY <1>1, <1>7, QuestionsAppend, Zenon DEF Asks
    <3> QED BY <3>1
  <2>2. count2 = IF Len(outbox[s]) + 1 \in Questions(s) THEN count ELSE count + 1
    BY <1>2, <2>1, FS_AddElement, Zenon
  <2>3. count2 \in Nat /\ count2 <= count + 1
    BY <1>2, <2>2
  <2>4. owed = 1 /\ owed2 = 0 /\ turn2 = turn /\ turn \in {0, 1} /\ intervals'[s] = intervals[s]
    BY <1>7 DEF Asks, SameTurn
  <2> HIDE DEF count, count2, owed, owed2, turn, turn2
  <2>5. count2 + owed2 <= intervals[s] + turn
    BY <1>1, <1>2, <1>3, <2>3, <2>4
  <2> QED BY <2>4, <2>5 DEF count2, owed2, turn2, turn
<1>8. CASE Passes(s)
  <2>1. Questions(s)' = Questions(s)
    BY <1>8 DEF Passes, Questions
  <2>2. owed2 = owed /\ owed \in {0, 1} /\ turn = 1 /\ turn2 = 0 /\ count2 = count
        /\ intervals'[s] = intervals[s] + 1
    BY <1>8, <2>1 DEF Passes
  <2> HIDE DEF count, count2, owed, owed2, turn, turn2
  <2>3. count2 + owed2 <= (intervals[s] + 1) + turn2
    BY <1>1, <1>2, <1>3, <2>2
  <2> QED BY <2>2, <2>3 DEF count2, owed2, turn2
<1> QED BY <1>4, <1>5, <1>6, <1>7, <1>8 DEF TurnStep

LEMMA NextLate ==
  ASSUME QuestionInv, [QuestionNext]_allVars, NEW s \in Sessions
  PROVE  /\ Cardinality(AfterOff(s)') <= 1
         /\ Committed(s)' => AfterOff(s)' = {}
<1>1. outbox[s] \in Seq(ModeEvents)
  BY DEF QuestionInv, RoomInv, LaunchInv, TypeInv, StoreTypeOK
<1>2. /\ IsFiniteSet(AfterOff(s)) /\ Cardinality(AfterOff(s)) \in Nat
      /\ Cardinality(AfterOff(s)) <= 1 /\ (Committed(s) => AfterOff(s) = {})
  BY <1>1, QuestionsFinite DEF QuestionInv, LateInv
<1>3. ASSUME NEW e, e # "QUESTION", outbox'[s] = Append(outbox[s], e)
      PROVE  AfterOff(s)' \subseteq AfterOff(s)
  BY <1>1, <1>3, QuestionsAppend, Zenon
<1>4. outbox'[s] = outbox[s] => AfterOff(s)' = AfterOff(s)
  BY DEF AfterOff, Questions, OffEvents
<1>5. outbox'[s] = <<>> => AfterOff(s)' = {}
  BY DEF AfterOff, Questions
<1>6. CASE Otherwise(s)
  <2>1. AfterOff(s)' \in SUBSET AfterOff(s)
    BY <1>3, <1>4, <1>5, <1>6 DEF Otherwise, OutboxStep
  <2>2. IsFiniteSet(AfterOff(s)') /\ Cardinality(AfterOff(s)') <= Cardinality(AfterOff(s))
    BY <1>2, <2>1, FS_Subset, Zenon
  <2>3. Cardinality(AfterOff(s)') \in Nat
    BY <2>2, FS_CardinalityType, Zenon
  <2>4. Cardinality(AfterOff(s)') <= 1
    BY <1>2, <2>2, <2>3
  <2>5. Committed(s)' => AfterOff(s)' = {}
    BY <1>2, <1>6, <2>1 DEF Otherwise
  <2> QED BY <2>4, <2>5
<1>7. CASE TakesUp(s)
  <2>1. OffEvents(s) = {}
    BY <1>7 DEF TakesUp, Due, IsWatched, QuestionInv, RoomInv, OffInv, AnnounceOnce
  <2>2. AfterOff(s)' = {}
    BY <1>4, <1>7, <2>1 DEF TakesUp, AfterOff
  <2> QED BY <2>2, FS_EmptySet
<1>8. CASE Asks(s)
  <2>1. AfterOff(s)' \subseteq {Len(outbox[s]) + 1}
    <3>1. AfterOff(s)' \subseteq IF "QUESTION" = "QUESTION" THEN AfterOff(s) \cup {Len(outbox[s]) + 1}
                                 ELSE AfterOff(s)
      BY <1>1, <1>8, QuestionsAppend, Zenon DEF Asks
    <3> QED BY <1>2, <1>8, <3>1 DEF Asks
  <2> DEFINE n == Len(outbox[s]) + 1
  <2>2. IsFiniteSet({n}) /\ Cardinality({n}) = 1 /\ AfterOff(s)' \in SUBSET {n}
    BY <2>1, FS_Singleton, Zenon
  <2>3. Cardinality(AfterOff(s)') <= 1
    BY <2>2, FS_Subset, Zenon
  <2> QED BY <1>8, <2>3 DEF Asks
<1>9. CASE Passes(s)
  BY <1>2, <1>4, <1>9, Zenon DEF Passes
<1> QED BY <1>6, <1>7, <1>8, <1>9, TurnSteps DEF TurnStep

-----------------------------------------------------------------------------
(* The theorems.                                                            *)

LEMMA QuestionInvInit == QuestionInit => QuestionInv
<1> SUFFICES ASSUME QuestionInit PROVE QuestionInv
  OBVIOUS
<1> USE DEF QuestionInit
<1>1. LaunchInv /\ OneInv /\ HasRow
  BY InitTypeInv DEF Init, StoreInit, LaunchInv, OneInv, AtMostOneActive, AtMostOneWatching, Active,
     IsActive, Watching, NotYetInserted, CoreOwns, LaunchExclusive, LaunchCore, LaunchTry, Commands,
     HasRow, StartTry, Starts
<1>2. \A s \in Sessions : OffEvents(s) = {} /\ Closers(s) = {} /\ ~Expiring(s)
  BY DEF Init, StoreInit, OffEvents, Closers, Expiring, At, Finders, Commands
<1>3. NothingToWatch /\ AnnounceOnce
  BY <1>2 DEF Init, StoreInit, NothingToWatch, AnnounceOnce, OffReasons
<1>4. RoomInv
  BY <1>1, <1>3 DEF RoomInv, OffInv, RefInv, LaunchInv
<1>5. RunTypes /\ RunInv
  BY IntervalsAssumption, CommandsAssumption DEF RunTypes, RunInv
<1>6. \A s \in Sessions : Questions(s) = {} /\ AfterOff(s) = {} /\ ~Committed(s)
  BY DEF Init, StoreInit, Questions, AfterOff, Committed
<1>7. Cardinality({}) = 0
  BY FS_EmptySet, Zenon
<1>8. PaceInv /\ LateInv
  BY <1>6, <1>7 DEF PaceInv, LateInv
<1> QED BY <1>4, <1>5, <1>8 DEF QuestionInv

\* The room with the question scheduler beside it never leaves the invariant
\* from which its types and the pace of its questions follow.
THEOREM QuestionInvariant == QuestionSpec => []QuestionInv
<1>1. QuestionInv /\ [QuestionNext]_allVars => QuestionInv'
  <2> SUFFICES ASSUME QuestionInv, [QuestionNext]_allVars PROVE QuestionInv'
    OBVIOUS
  <2>1. RoomInv'
    BY NextRoom
  <2>2. RunTypes' /\ RunInv'
    BY NextRun, NextTurns DEF RunOk, RunTypes
  <2>3. PaceInv' /\ LateInv'
    BY <2>1, NextPace, NextLate DEF PaceInv, LateInv
  <2> QED BY <2>1, <2>2, <2>3 DEF QuestionInv
<1> QED BY <1>1, QuestionInvInit, PTL DEF QuestionSpec

\* The room keeps its types beside the question scheduler, and the scheduler
\* is where its batch lets it be: it never claims from an empty batch.
THEOREM QuestionTypes == QuestionSpec => []QuestionTypeOK
<1>1. QuestionInv => QuestionTypeOK
  BY TypeInvImpliesTypeOK DEF QuestionInv, RoomInv, LaunchInv, RunTypes, QuestionTypeOK
<1> QED BY <1>1, QuestionInvariant, PTL

\* A room gets one question at first and one for each interval that passes,
\* whatever fails between the claim and the event.
THEOREM QuestionsKeepPace == QuestionSpec => []QuestionsArePaced
<1>1. QuestionInv => QuestionsArePaced
  <2> SUFFICES ASSUME QuestionInv, NEW s \in Sessions
               PROVE  Cardinality(Questions(s)) <= 1 + intervals[s]
    BY DEF QuestionsArePaced
  <2> DEFINE count == Cardinality(Questions(s))
             owed == IF Committed(s) THEN 1 ELSE 0
             turn == IF s \in asked THEN 1 ELSE 0
  <2>1. outbox[s] \in Seq(ModeEvents) /\ intervals[s] \in Nat
    BY IntervalsAssumption DEF QuestionInv, RunTypes, RoomInv, LaunchInv, TypeInv, StoreTypeOK
  <2>2. count \in Nat
    BY <2>1, QuestionsFinite
  <2>3. count + owed <= intervals[s] + turn /\ owed \in {0, 1} /\ turn \in {0, 1}
    BY DEF QuestionInv, PaceInv
  <2> HIDE DEF count, owed, turn
  <2>4. count <= 1 + intervals[s]
    BY <2>1, <2>2, <2>3
  <2> QED BY <2>4 DEF count
<1> QED BY <1>1, QuestionInvariant, PTL

\* After its OFF event a room is asked once more at most: by a run that claimed
\* the target while it was ON.
THEOREM OneQuestionIsLate == QuestionSpec => []OneLateQuestion
<1>1. QuestionInv => OneLateQuestion
  BY DEF QuestionInv, LateInv, OneLateQuestion
<1> QED BY <1>1, QuestionInvariant, PTL

\* The question scheduler beside them does not keep the services from
\* implementing the abstract room: it writes events and claims only.
THEOREM QuestionsLeaveTheRoom == QuestionSpec => ImplementsRoom
<1>1. ASSUME RefInv, RefInv', [QuestionNext]_allVars PROVE [R!Next]_(R!vars)
  <2>1. CASE [Next]_vars
    BY <1>1, <2>1, StepRefines
  <2>2. CASE UNCHANGED <<state, watch>>
    BY <2>2 DEF R!vars, PhaseOfChannel, Active, IsActive, Watching
  <2>3. [Next]_vars \/ UNCHANGED <<state, watch>>
    <3> USE DEF tables, sessionTable
    <3>1. CASE RestMoves \/ UNCHANGED allVars
      BY <3>1 DEF RestMoves, allVars
    <3>2. CASE QuestionStep
      BY <3>2 DEF QuestionStep, QuestionScan, QuestionClaim, QuestionReread, QuestionLoad,
         QuestionEnqueue, EnqueueEvent
    <3>3. CASE QuestionFails \/ \E s \in Sessions : QuestionIntervalPasses(s)
      BY <3>3 DEF QuestionFails, QuestionIntervalPasses
    <3> QED BY <1>1, <3>1, <3>2, <3>3 DEF QuestionNext
  <2> QED BY <2>1, <2>2, <2>3
<1>2. QuestionInv => RefInv
  BY DEF QuestionInv, RoomInv, OffInv
<1>3. QuestionInit => R!Init
  BY InitRefines DEF QuestionInit
<1> QED BY <1>1, <1>2, <1>3, QuestionInvariant, PTL DEF QuestionSpec, ImplementsRoom, R!Spec
=============================================================================
