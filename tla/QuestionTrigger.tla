--------------------------- MODULE QuestionTrigger ---------------------------
(***************************************************************************)
(* The question scheduler beside the life of a room.  A run selects the ON *)
(* targets whose last question is older than the interval, claims all of   *)
(* them, and only then enqueues a ROOM_QUESTION_TRIGGER event for each, so *)
(* a start, launch, stop or the expiry may come between any two of its     *)
(* calls.  A new target has had no question and is due at once.            *)
(*                                                                         *)
(* The run's cutoff time is fixed at its start; a target that becomes due  *)
(* later is not in its batch, so the claim asks nothing else.              *)
(***************************************************************************)
EXTENDS RoomLifecycle

CONSTANT MaxIntervals    \* bound: question intervals that pass for a target

ASSUME IntervalsAssumption == MaxIntervals \in Nat

VARIABLES
  asked,       \* the targets whose last question is younger than the interval
  qpc,         \* the question scheduler: "idle" or the call it is about to make
  qbatch,      \* the due targets that are still to be claimed
  qclaimed,    \* the claimed targets that still get no event
  qcur,        \* the target it is claiming or asking
  intervals    \* history: question intervals that passed, per target

runVars      == <<qpc, qbatch, qclaimed, qcur>>
questionVars == <<asked, runVars, intervals>>
allVars      == <<vars, questionVars>>

QuestionTypeOK ==
  /\ TypeOK
  /\ asked \subseteq Sessions
  /\ qpc \in {"idle", "claim", "reread", "load", "enqueue"}
  /\ qbatch \subseteq Sessions
  /\ qclaimed \subseteq Sessions
  /\ qcur \in Sessions \cup {None}
  /\ qpc = "idle" => qbatch = {} /\ qclaimed = {}
  /\ qpc = "claim" => qbatch # {}
  /\ qpc = "load" => qclaimed # {}
  /\ qpc \in {"reread", "enqueue"} <=> qcur # None
  /\ intervals \in [Sessions -> 0..MaxIntervals]

QuestionInit ==
  /\ Init
  /\ asked = {}
  /\ qpc = "idle"
  /\ qbatch = {}
  /\ qclaimed = {}
  /\ qcur = None
  /\ intervals = [s \in Sessions |-> 0]

-----------------------------------------------------------------------------
(* A run (EmitQuestionTriggerService.execute).                              *)

RoomFrame == UNCHANGED <<commandVars, schedulerVars, boundVars, historyVars>>

\* Faulty variant: a target that was turned off is due as well.
DueInAnyStatus(s) == watch[s] # "NONE" /\ s \notin asked

\* The WHERE clause of the SELECT and, again, of the claiming UPDATE.
Due(s) == IsWatched(s) /\ s \notin asked

\* Faulty variant: a run that failed is still taken for the running one.
RunStuck == qpc' = "claim" /\ qbatch' = {} /\ qclaimed' = {} /\ qcur' = None

RunLost == qpc' = "idle" /\ qbatch' = {} /\ qclaimed' = {} /\ qcur' = None

\* The next target to claim or, when all are, the next one to ask.
ClaimNext(batch, claimed) ==
  /\ qbatch' = batch
  /\ qclaimed' = claimed
  /\ qcur' = None
  /\ qpc' = IF batch # {} THEN "claim" ELSE IF claimed # {} THEN "load" ELSE "idle"

QuestionScan ==
  /\ qpc = "idle"
  /\ ClaimNext({s \in Sessions : Due(s)}, {})
  /\ UNCHANGED <<tables, asked, intervals>> /\ RoomFrame

\* Faulty variant: the time of the question is not recorded.
ClaimForgetting ==
  /\ qpc = "claim"
  /\ \E s \in qbatch :
       IF Due(s)
       THEN /\ qpc' = "reread" /\ qcur' = s
            /\ UNCHANGED <<asked, qbatch, qclaimed>>
       ELSE ClaimNext(qbatch \ {s}, qclaimed) /\ UNCHANGED asked
  /\ UNCHANGED <<tables, intervals>> /\ RoomFrame

\* claimQuestionTriggerIfDue: an UPDATE that matches no row claims nothing.
QuestionClaim ==
  /\ qpc = "claim"
  /\ \E s \in qbatch :
       IF Due(s)
       THEN /\ asked' = asked \cup {s}
            /\ qpc' = "reread" /\ qcur' = s
            /\ UNCHANGED <<qbatch, qclaimed>>
       ELSE ClaimNext(qbatch \ {s}, qclaimed) /\ UNCHANGED asked
  /\ UNCHANGED <<tables, intervals>> /\ RoomFrame

\* The claimed row is read back; it throws when the rollback of a start has
\* deleted it, and the whole run ends.
QuestionReread ==
  /\ qpc = "reread"
  /\ IF RowExists(qcur)
     THEN ClaimNext(qbatch \ {qcur}, qclaimed \cup {qcur})
     ELSE RunLost
  /\ UNCHANGED <<tables, asked, intervals>> /\ RoomFrame

\* A session that is gone is skipped.
QuestionLoad ==
  /\ qpc = "load"
  /\ \E s \in qclaimed :
       IF RowExists(s)
       THEN qpc' = "enqueue" /\ qcur' = s /\ UNCHANGED <<qbatch, qclaimed>>
       ELSE ClaimNext({}, qclaimed \ {s})
  /\ UNCHANGED <<tables, asked, intervals>> /\ RoomFrame

\* The status of the target is not looked at again.  Without the session the
\* foreign key fails and the run ends.
QuestionEnqueue ==
  /\ qpc = "enqueue"
  /\ IF RowExists(qcur)
     THEN EnqueueEvent(qcur, "QUESTION") /\ ClaimNext({}, qclaimed \ {qcur})
     ELSE RunLost /\ UNCHANGED tables
  /\ UNCHANGED <<asked, intervals>> /\ RoomFrame

QuestionStep ==
  QuestionScan \/ QuestionClaim \/ QuestionReread \/ QuestionLoad \/ QuestionEnqueue

-----------------------------------------------------------------------------
(* Time, failing calls, and the rest of the program.                        *)

QuestionIntervalPasses(s) ==
  /\ s \in asked /\ intervals[s] < MaxIntervals
  /\ asked' = asked \ {s}
  /\ intervals' = [intervals EXCEPT ![s] = @ + 1]
  /\ UNCHANGED <<tables, runVars>> /\ RoomFrame

\* A failing call ends the run: what it has claimed and not yet enqueued gets
\* no question until the next interval.
QuestionFails ==
  /\ qpc # "idle"
  /\ RunLost
  /\ UNCHANGED <<tables, asked, intervals>>
  /\ FaultFrame /\ UNCHANGED <<pc, result, schedulerVars, lost>>

\* The rest of the program moves; a process death ends the run as well.
RestMoves ==
  /\ Next
  /\ IF crashes' = crashes THEN UNCHANGED runVars ELSE RunLost
  /\ UNCHANGED <<asked, intervals>>

QuestionNext ==
  \/ RestMoves
  \/ QuestionStep
  \/ \E s \in Sessions : QuestionIntervalPasses(s)
  \/ QuestionFails

QuestionSpec == QuestionInit /\ [][QuestionNext]_allVars

\* Both intervals keep firing and what their runs await settles.
QuestionFairSpec ==
  /\ QuestionSpec
  /\ WF_allVars(QuestionStep)
  /\ WF_allVars(ExpireStep /\ UNCHANGED questionVars)

-----------------------------------------------------------------------------
(* Properties.                                                              *)

Questions(s) == {i \in 1..Len(outbox[s]) : outbox[s][i] = "QUESTION"}

\* A room is asked once at first and once more for each interval that passes,
\* whatever fails, restarts or is deleted under the run.
QuestionsArePaced ==
  \A s \in Sessions : Cardinality(Questions(s)) <= 1 + intervals[s]

AfterOff(s) == {i \in Questions(s) : \E j \in OffEvents(s) : j < i}

\* A question may follow the OFF event of its room, because the run looked at
\* the target before it was turned off; that happens once at most, however many
\* intervals pass afterwards.
OneLateQuestion == \A s \in Sessions : Cardinality(AfterOff(s)) <= 1

\* A watched room that is due is claimed in the end, or no longer watched: no
\* failed run and no claim that was lost to a deleted row stops the scheduler.
QuestionIsAsked ==
  \A s \in Sessions : Due(s) ~> ~Due(s)
=============================================================================
