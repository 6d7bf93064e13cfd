---------------------------- MODULE LiveReply_proofs ----------------------------
(***************************************************************************)
(* Theorems about LiveReply: for any number of messages, deliveries,       *)
(* retries and failing calls.                                              *)
(*                                                                         *)
(* The invariant, ReplyInv, has these parts.  IngestInv: whatever Slack    *)
(* redelivers, a message is counted and enqueued once.  TaskInv: what a    *)
(* task has behind it, told from where its flight stands.  ChainInv: until *)
(* stop() has returned, the flights are the links of one chain, of which   *)
(* only the first runs and the last is registered.  StopInv: the tasks     *)
(* that stop() drops end with the flight it awaits.  LateInv: who replied  *)
(* late left no other that may.  OrderInv: of the messages at their first  *)
(* attempt, the answered ones entered before those in flight.              *)
(***************************************************************************)
EXTENDS LiveReply, TLAPS, FiniteSetTheorems

-----------------------------------------------------------------------------
(* The event handler.                                                       *)

Entered == {entered[i] : i \in 1..Len(entered)}

CountedOnce ==
  /\ \A d \in Deliveries : hpc[d] = "count" =>
       d[1] \notin Entered \cup uncounted /\ (watch # "GONE" => d[1] \in stored)
  /\ \A d, e \in Deliveries : hpc[d] = "count" /\ hpc[e] = "count" /\ d[1] = e[1] => d = e
  /\ watch # "GONE" => Entered \cup uncounted \subseteq stored

EnteredOnce == \A i, j \in 1..Len(entered) : entered[i] = entered[j] => i = j

CountFits ==
  /\ watch = "GONE" => count = 0
  /\ watch # "GONE" =>
       /\ count + Cardinality(BeingCounted) <= Cardinality(stored)
       /\ Cardinality(stored) <= count + Cardinality(BeingCounted) + Cardinality(uncounted)

IngestInv == CountedOnce /\ EnteredOnce /\ CountFits

-----------------------------------------------------------------------------
(* A task.                                                                  *)

\* A message that was not enqueued has left no trace in the queue.
NotYet(m) ==
  /\ m \notin queued \cup timers \cup noticed
  /\ fpc[m] = "none" /\ attempts[m] = 0 /\ notices[m] = 0 /\ Replies(m) = 0

\* A run is counted when it begins, a retry when it is scheduled.
EffortSoFar(m) ==
  /\ fpc[m] = "waiting" \/ m \in timers => attempts[m] = retries[m]
  /\ Running(m) => attempts[m] = retries[m] + 1
  /\ attempts[m] <= retries[m] + 1
  /\ notices[m] = IF m \in noticed THEN 1 ELSE 0
  /\ fpc[m] = "notice" => m \notin noticed
  /\ m \in queued \/ InFlight(m) => Replies(m) <= faults
  /\ Replies(m) <= 1 + faults
  /\ Replies(m) > 0 => attempts[m] > 0

TaskOk(m) ==
  /\ m \notin Entered => NotYet(m)
  /\ EffortSoFar(m)
  /\ m \in timers => ~InFlight(m) /\ retries[m] > 0
  /\ Running(m) => after[m] = None
  /\ m \in queued => InFlight(m) \/ m \in timers

TaskInv == \A m \in Messages : TaskOk(m)

-----------------------------------------------------------------------------
(* The chain of flights, and stop().                                        *)

\* The flights in the order in which they may run.
IsChain(q) ==
  /\ \A i, j \in 1..Len(q) : q[i] = q[j] => i = j
  /\ \A m \in Messages : InFlight(m) <=> \E i \in 1..Len(q) : q[i] = m
  /\ \A i \in 1..Len(q) : after[q[i]] = IF i = 1 THEN None ELSE q[i - 1]
  /\ last = IF q = <<>> THEN None ELSE q[Len(q)]

\* stop() waits for the last of the flights it has to drain.
AwaitedIsLast(q) ==
  spc = "awaiting" =>
    \A i \in 1..Len(q) : q[i] \in cleared => \E j \in i..Len(q) : q[j] = awaited

FirstRun(m) == retries[m] = 0 /\ fpc[m] \in {"waiting", "check", "complete", "recheck", "post"}

\* The flights at their first attempt are in the order of their messages.
InOrder(q) ==
  \A i, j \in 1..Len(q) :
    i < j /\ FirstRun(q[i]) /\ FirstRun(q[j]) => PositionOf(q[i]) < PositionOf(q[j])

StopInv ==
  /\ spc = "running" => cleared = {} /\ \A m \in Messages : InFlight(m) => m \in queued
  /\ cleared \cap queued = {} /\ cleared \subseteq Entered
  /\ spc = "awaiting" => awaited \in cleared
  /\ StopDrainsOldTasks

\* The answers so far come before the answers that are still due.
AnswersFirst ==
  spc # "stopped" =>
    \A i \in 1..Len(answered), m \in Messages :
      attempts[answered[i]] = 1 /\ FirstRun(m) => PositionOf(answered[i]) < PositionOf(m)

LateInv ==
  /\ watch = "ON" => late = 0
  /\ spc # "stopped" => late <= 1 /\ (late = 1 => \A m \in Messages : fpc[m] # "post")

OrderInv ==
  /\ \A i \in 1..Len(answered) : answered[i] \in Entered /\ attempts[answered[i]] > 0
  /\ AnswersFirst /\ RepliesInOrder

QueueInv == StopInv /\ LateInv /\ OrderInv

ChainInv ==
  spc # "stopped" => \E q \in Seq(Messages) : IsChain(q) /\ AwaitedIsLast(q) /\ InOrder(q)
-----------------------------------------------------------------------------
(* Types.  That count stays within the number of messages follows from      *)
(* CountFits; all the rest does not depend on it.                           *)

Types ==
  /\ watch \in {"ON", "OFF", "GONE"}
  /\ stored \subseteq Messages
  /\ count \in Nat
  /\ hpc \in [Deliveries -> {"idle", "insert", "count", "done"}]
  /\ queued \subseteq Messages
  /\ retries \in [Messages -> 0..MaxRetries]
  /\ noticed \subseteq Messages
  /\ timers \subseteq Messages
  /\ fpc \in [Messages -> {"none", "waiting", "check", "complete", "recheck", "post", "notice"}]
  /\ after \in [Messages -> Messages \cup {None}]
  /\ last \in Messages \cup {None}
  /\ spc \in {"running", "awaiting", "stopped"}
  /\ awaited \in Messages \cup {None}
  /\ faults \in 0..MaxFaults
  /\ uncounted \subseteq Messages
  /\ entered \in Seq(Messages) /\ answered \in Seq(Messages)
  /\ notices \in [Messages -> Nat] /\ attempts \in [Messages -> Nat] /\ late \in Nat
  /\ cleared \subseteq Messages

LEMMA DeliveryType == ASSUME NEW d \in Deliveries PROVE d[1] \in Messages
  BY DEF Deliveries

LEMMA TypesInit == Init => Types
  BY LiveReplyAssumption DEF Init, Types

LEMMA ChainFlightTypes ==
  ASSUME Types, NEW m \in Messages, ChainFlight(m)
  PROVE  /\ fpc' \in [Messages -> {"none", "waiting", "check", "complete", "recheck", "post", "notice"}]
         /\ after' \in [Messages -> Messages \cup {None}]
         /\ last' \in Messages \cup {None}
  BY DEF Types, ChainFlight

LEMMA SettleTypes ==
  ASSUME Types, NEW m \in Messages, Settle(m)
  PROVE  /\ fpc' \in [Messages -> {"none", "waiting", "check", "complete", "recheck", "post", "notice"}]
         /\ after' \in [Messages -> Messages \cup {None}]
         /\ last' \in Messages \cup {None}
  BY DEF Types, Settle

LEMMA StayTypes ==
  ASSUME Types, NEW m \in Messages,
         NEW label \in {"check", "complete", "recheck", "post", "notice"}, StayInFlight(m, label)
  PROVE  /\ fpc' \in [Messages -> {"none", "waiting", "check", "complete", "recheck", "post", "notice"}]
         /\ after' \in [Messages -> Messages \cup {None}]
         /\ last' \in Messages \cup {None}
  BY DEF Types, StayInFlight

LEMMA IngestTypes ==
  ASSUME Types, NEW d \in Deliveries, IngestStep(d) \/ IngestFails(d)
  PROVE  Types'
<1> USE DEF QueueUntouched, IngestFrame, taskVars, flightVars, stopVars
<1>0. d[1] \in Messages
  BY DeliveryType
<1>1. CASE IngestFind(d)
  BY <1>1 DEF IngestFind, Types
<1>2. CASE IngestInsert(d)
  BY <1>0, <1>2 DEF IngestInsert, Types
<1>3. CASE IngestCount(d)
  <2>1. /\ UNCHANGED <<watch, stored, spc, awaited, cleared, faults, answered, late, notices,
                       attempts, timers>>
        /\ hpc' = [hpc EXCEPT ![d] = "done"]
        /\ count' \in {count, count + 1} /\ uncounted' \in {uncounted, uncounted \cup {d[1]}}
        /\ Enqueue(d[1]) \/ QueueUntouched
    BY <1>3 DEF IngestCount, Enqueue
  <2>2. CASE QueueUntouched
    <3>1. count' \in Nat /\ uncounted' \subseteq Messages
      BY <1>0, <2>1 DEF Types
    <3>2. hpc' \in [Deliveries -> {"idle", "insert", "count", "done"}]
      BY <2>1 DEF Types
    <3> QED BY <2>1, <2>2, <3>1, <3>2 DEF Types
  <2>3. CASE Enqueue(d[1]) /\ d[1] \notin queued
    <3>1. /\ queued' = queued \cup {d[1]} /\ retries' = [retries EXCEPT ![d[1]] = 0]
          /\ noticed' = noticed \ {d[1]} /\ ChainFlight(d[1])
          /\ entered' = Append(entered, d[1])
      BY <2>3 DEF Enqueue
    <3>2. entered' \in Seq(Messages)
      BY <1>0, <3>1 DEF Types
    <3>3. retries' \in [Messages -> 0..MaxRetries]
      BY <1>0, <3>1, LiveReplyAssumption DEF Types
    <3>4. count' \in Nat /\ uncounted' \subseteq Messages
      BY <1>0, <2>1 DEF Types
    <3>5. queued' \subseteq Messages /\ noticed' \subseteq Messages
      BY <1>0, <3>1 DEF Types
    <3>6. hpc' \in [Deliveries -> {"idle", "insert", "count", "done"}]
      BY <2>1 DEF Types
    <3> QED BY <1>0, <2>1, <3>1, <3>2, <3>3, <3>4, <3>5, <3>6, ChainFlightTypes DEF Types
  <2> QED BY <2>1, <2>2, <2>3 DEF Enqueue
<1>4. CASE IngestFails(d)
  <2>1. count' \in Nat
    BY <1>4 DEF IngestFails, Types
  <2>2. uncounted' \subseteq Messages
    BY <1>0, <1>4 DEF IngestFails, Types
  <2>4. faults' \in 0..MaxFaults
    <3>1. faults \in 0..MaxFaults /\ faults < MaxFaults /\ faults' = faults + 1
      BY <1>4 DEF IngestFails, Types
    <3> QED BY <3>1, LiveReplyAssumption
  <2>3. hpc' \in [Deliveries -> {"idle", "insert", "count", "done"}]
    BY <1>4 DEF IngestFails, Types
  <2> QED BY <1>4, <2>1, <2>2, <2>3, <2>4 DEF IngestFails, Types
<1> QED BY <1>1, <1>2, <1>3, <1>4 DEF IngestStep

LEMMA RescheduleTypes ==
  ASSUME Types, NEW m \in Messages, Reschedule(m)
  PROVE  /\ queued' \subseteq Messages /\ timers' \subseteq Messages
         /\ retries' \in [Messages -> 0..MaxRetries]
         /\ Settle(m)
<1>1. retries' \in [Messages -> 0..MaxRetries]
  <2>1. CASE retries[m] >= MaxRetries
    BY <2>1 DEF Types, Reschedule
  <2>2. CASE ~(retries[m] >= MaxRetries)
    <3>1. retries' = [retries EXCEPT ![m] = @ + 1] /\ retries[m] \in 0..MaxRetries
      BY <2>2 DEF Types, Reschedule
    <3>2. retries[m] + 1 \in 0..MaxRetries
      BY <2>2, <3>1, LiveReplyAssumption
    <3> QED BY <3>1, <3>2 DEF Types
  <2> QED BY <2>1, <2>2
<1>2. queued' \subseteq Messages /\ timers' \subseteq Messages
  BY DEF Types, Reschedule, Cleanup
<1> QED BY <1>1, <1>2 DEF Reschedule

LEMMA HandleFailureTypes ==
  ASSUME Types, NEW m \in Messages, HandleFailure(m)
  PROVE  /\ queued' \subseteq Messages /\ timers' \subseteq Messages /\ noticed' \subseteq Messages
         /\ retries' \in [Messages -> 0..MaxRetries]
         /\ Settle(m) \/ StayInFlight(m, "notice")
<1>1. CASE m \notin queued \/ m \notin noticed
  BY <1>1 DEF HandleFailure, NoTaskChange, taskVars, Types, Reschedule
<1>2. CASE m \in queued /\ m \in noticed
  BY <1>2, RescheduleTypes DEF HandleFailure, Types
<1> QED BY <1>1, <1>2

LEMMA ReplyTypes ==
  ASSUME Types, NEW m \in Messages, Reply(m) \/ UNCHANGED <<answered, late>>
  PROVE  answered' \in Seq(Messages) /\ late' \in Nat
<1>1. CASE Reply(m)
  <2>1. answered' = Append(answered, m) /\ (late' = late \/ late' = late + 1)
    BY <1>1 DEF Reply
  <2>2. answered \in Seq(Messages) /\ late \in Nat
    BY DEF Types
  <2>3. late' \in Nat
    BY <2>1, <2>2
  <2>4. answered' \in Seq(Messages)
    BY <2>1, <2>2
  <2> QED BY <2>3, <2>4
<1>2. CASE UNCHANGED <<answered, late>>
  BY <1>2 DEF Types
<1> QED BY <1>1, <1>2

LEMMA TaskTypes ==
  ASSUME Types, NEW m \in Messages,
         FlightStep(m) \/ Complete(m) \/ TimerFires(m) \/ TaskFails(m)
  PROVE  Types'
<1> USE DEF TaskFrame, NoTaskChange, taskVars, ingestVars, stopVars, flightVars
<1>1. CASE Begin(m)
  <2>1. attempts' \in [Messages -> Nat]
    <3>1. attempts \in [Messages -> Nat]
      BY DEF Types
    <3>2. attempts' = [attempts EXCEPT ![m] = @ + 1] \/ attempts' = attempts
      BY <1>1 DEF Begin
    <3> QED BY <3>1, <3>2
  <2>2. Settle(m) \/ StayInFlight(m, "check")
    BY <1>1 DEF Begin
  <2> QED BY <1>1, <2>1, <2>2, SettleTypes, StayTypes DEF Begin, Types
<1>2. ASSUME NEW label, NEW next \in {"complete", "post"}, CheckWatch(m, label, next)
      PROVE  Types'
  <2>1. Settle(m) \/ StayInFlight(m, next)
    BY <1>2 DEF CheckWatch
  <2>2. queued' \subseteq Messages /\ timers' \subseteq Messages
    BY <1>2 DEF CheckWatch, Cleanup, Types
  <2>3. UNCHANGED <<retries, noticed>>
    BY <1>2 DEF CheckWatch
  <2> QED BY <1>2, <2>1, <2>2, <2>3, SettleTypes, StayTypes DEF CheckWatch, Types
<1>3. CASE Complete(m)
  BY <1>3, StayTypes DEF Complete, Types
<1>4. CASE Post(m)
  <2>1. Settle(m) /\ Reply(m)
    BY <1>4 DEF Post
  <2>2. queued' \subseteq Messages /\ timers' \subseteq Messages
    BY <1>4 DEF Post, Cleanup, Types
  <2>3. UNCHANGED <<retries, noticed, faults, notices, attempts>> /\ TaskFrame
    BY <1>4 DEF Post
  <2> QED BY <2>1, <2>2, <2>3, SettleTypes, ReplyTypes DEF Types
<1>5. CASE Notice(m)
  <2>1. notices' \in [Messages -> Nat] /\ noticed' \subseteq Messages
    BY <1>5 DEF Notice, Types
  <2>2. Reschedule(m) /\ TaskFrame /\ UNCHANGED <<faults, answered, late, attempts>>
    BY <1>5 DEF Notice
  <2> QED BY <2>1, <2>2, RescheduleTypes, SettleTypes DEF Types
<1>6. CASE CompleteTimesOut(m)
  <2>1. HandleFailure(m) /\ TaskFrame /\ UNCHANGED <<faults, answered, late, notices, attempts>>
    BY <1>6 DEF CompleteTimesOut
  <2> QED BY <2>1, HandleFailureTypes, SettleTypes, StayTypes DEF Types
<1>7. CASE TaskFails(m)
  <2>1. /\ HandleFailure(m) /\ TaskFrame /\ UNCHANGED <<notices, attempts>>
        /\ Reply(m) \/ UNCHANGED <<answered, late>>
    BY <1>7 DEF TaskFails
  <2>2. faults' \in 0..MaxFaults
    BY <1>7, LiveReplyAssumption DEF TaskFails, Types
  <2> QED BY <2>1, <2>2, HandleFailureTypes, SettleTypes, StayTypes, ReplyTypes DEF Types
<1>8. CASE TimerFires(m)
  <2>1. timers' = timers \ {m} /\ (ChainFlight(m) \/ UNCHANGED <<fpc, after, last>>)
    BY <1>8 DEF TimerFires
  <2> QED BY <1>8, <2>1, ChainFlightTypes DEF TimerFires, Types
<1> QED BY <1>1, <1>2, <1>3, <1>4, <1>5, <1>6, <1>7, <1>8 DEF FlightStep

LEMMA StopTypes ==
  ASSUME Types, WatchEnds \/ StopBegin \/ StopEnd \/ AtRest \/ UNCHANGED vars
  PROVE  Types'
<1> USE DEF QueueUntouched, taskVars, flightVars, ingestVars, stopVars, historyVars, vars
<1>1. CASE WatchEnds
  BY <1>1, SMTT(30) DEF WatchEnds, Types
<1>2. CASE StopBegin
  BY <1>2 DEF StopBegin, Types
<1>3. CASE StopEnd
  BY <1>3 DEF StopEnd, Types
<1>4. CASE AtRest \/ UNCHANGED vars
  BY <1>4 DEF AtRest, Types
<1> QED BY <1>1, <1>2, <1>3, <1>4

LEMMA NextTypes == ASSUME Types, [Next]_vars PROVE Types'
  BY IngestTypes, TaskTypes, StopTypes DEF Next
-----------------------------------------------------------------------------
(* The event handler.                                                       *)

\* The messages entered so far, before and after another one.
LEMMA EnteredStep ==
  ASSUME Types, NEW m \in Messages, entered' = Append(entered, m)
  PROVE  /\ Entered' = Entered \cup {m}
         /\ EnteredOnce /\ m \notin Entered => EnteredOnce'
         /\ Len(entered') = Len(entered) + 1 /\ Len(entered) \in Nat
         /\ \A i \in 1..Len(entered) : entered'[i] = entered[i]
         /\ entered'[Len(entered) + 1] = m
<1>1. /\ Len(entered') = Len(entered) + 1 /\ Len(entered) \in Nat
      /\ \A i \in 1..Len(entered) : entered'[i] = entered[i]
      /\ entered'[Len(entered) + 1] = m
  BY DEF Types
<1>2. Entered' = Entered \cup {m}
  <2>1. ASSUME NEW x \in Entered' PROVE x \in Entered \cup {m}
    <3>1. PICK i \in 1..(Len(entered) + 1) : x = entered'[i]
      BY <1>1, <2>1 DEF Entered
    <3>2. CASE i = Len(entered) + 1
      BY <1>1, <3>1, <3>2
    <3>3. CASE i # Len(entered) + 1
      <4>1. i \in 1..Len(entered)
        BY <1>1, <3>3
      <4> QED BY <1>1, <3>1, <4>1 DEF Entered
    <3> QED BY <3>2, <3>3
  <2>2. ASSUME NEW x \in Entered PROVE x \in Entered'
    <3>1. PICK i \in 1..Len(entered) : x = entered[i]
      BY <2>2 DEF Entered
    <3>2. i \in 1..(Len(entered) + 1) /\ x = entered'[i]
      BY <1>1, <3>1
    <3> QED BY <1>1, <3>2 DEF Entered
  <2>3. m \in Entered'
    <3>1. Len(entered) + 1 \in 1..(Len(entered) + 1)
      BY <1>1
    <3> QED BY <1>1, <3>1 DEF Entered
  <2> QED BY <2>1, <2>2, <2>3
<1>3. ASSUME EnteredOnce, m \notin Entered PROVE EnteredOnce'
  <2> SUFFICES ASSUME NEW i \in 1..(Len(entered) + 1), NEW j \in 1..(Len(entered) + 1),
                      entered'[i] = entered'[j]
               PROVE  i = j
    BY <1>1 DEF EnteredOnce
  <2>1. \A k \in 1..Len(entered) : entered'[k] = entered[k] /\ entered[k] # m
    BY <1>1, <1>3 DEF Entered
  <2>2. CASE i = Len(entered) + 1 \/ j = Len(entered) + 1
    <3>1. \A k \in 1..(Len(entered) + 1) : k \in 1..Len(entered) \/ k = Len(entered) + 1
      BY <1>1
    <3> QED BY <1>1, <2>1, <2>2, <3>1
  <2>3. CASE i \in 1..Len(entered) /\ j \in 1..Len(entered)
    BY <1>3, <2>1, <2>3 DEF EnteredOnce
  <2>4. \A k \in 1..(Len(entered) + 1) : k \in 1..Len(entered) \/ k = Len(entered) + 1
    BY <1>1
  <2> QED BY <2>2, <2>3, <2>4
<1> QED BY <1>1, <1>2, <1>3

\* Removing a delivery from, or adding one to, those being counted.
LEMMA FiniteCounts ==
  ASSUME Types
  PROVE  /\ IsFiniteSet(stored) /\ Cardinality(stored) \in Nat
         /\ IsFiniteSet(uncounted) /\ Cardinality(uncounted) \in Nat
         /\ IsFiniteSet(BeingCounted) /\ Cardinality(BeingCounted) \in Nat
         /\ Cardinality(stored) <= Cardinality(Messages) /\ Cardinality(Messages) \in Nat
<1>1. IsFiniteSet(Messages)
  BY LiveReplyAssumption
<1>2. IsFiniteSet(1..Copies)
  <2>1. 1 \in Int /\ Copies \in Int
    BY LiveReplyAssumption
  <2> QED BY <2>1, FS_Interval, Zenon
<1>3. IsFiniteSet(Deliveries)
  BY <1>1, <1>2, FS_Product, Zenon DEF Deliveries
<1>4. stored \in SUBSET Messages /\ uncounted \in SUBSET Messages
      /\ BeingCounted \in SUBSET Deliveries
  BY DEF Types, BeingCounted
<1>5. /\ IsFiniteSet(stored) /\ IsFiniteSet(uncounted) /\ IsFiniteSet(BeingCounted)
      /\ Cardinality(stored) <= Cardinality(Messages)
  BY <1>1, <1>3, <1>4, FS_Subset, Zenon
<1> QED BY <1>1, <1>5, FS_CardinalityType, Zenon

LEMMA CountingStep ==
  ASSUME Types, NEW d \in Deliveries, NEW label \in {"idle", "insert", "count", "done"},
         hpc' = [hpc EXCEPT ![d] = label]
  PROVE  Cardinality(BeingCounted') =
           IF hpc[d] = "count"
           THEN IF label = "count" THEN Cardinality(BeingCounted)
                                   ELSE Cardinality(BeingCounted) - 1
           ELSE IF label = "count" THEN Cardinality(BeingCounted) + 1
                                   ELSE Cardinality(BeingCounted)
<1>1. BeingCounted' = {e \in Deliveries : (e = d /\ label = "count")
                                           \/ (e # d /\ hpc[e] = "count")}
  BY DEF BeingCounted, Types
<1>2. IsFiniteSet(BeingCounted)
  BY FiniteCounts
<1>3. CASE hpc[d] = "count"
  <2>1. d \in BeingCounted
    BY <1>3 DEF BeingCounted
  <2>2. CASE label = "count"
    <3>1. BeingCounted' = BeingCounted
      BY <1>1, <1>3, <2>2 DEF BeingCounted
    <3> QED BY <1>3, <2>2, <3>1, Zenon
  <2>3. CASE label # "count"
    <3>1. BeingCounted' = BeingCounted \ {d}
      BY <1>1, <2>3 DEF BeingCounted
    <3>2. Cardinality(BeingCounted \ {d}) = Cardinality(BeingCounted) - 1
      BY <1>2, <2>1, FS_RemoveElement, Zenon
    <3> QED BY <1>3, <2>3, <3>1, <3>2, Zenon
  <2> QED BY <2>2, <2>3
<1>4. CASE hpc[d] # "count"
  <2>1. d \notin BeingCounted
    BY <1>4 DEF BeingCounted
  <2>2. CASE label = "count"
    <3>1. BeingCounted' = BeingCounted \cup {d}
      BY <1>1, <2>2 DEF BeingCounted
    <3>2. Cardinality(BeingCounted \cup {d}) = Cardinality(BeingCounted) + 1
      BY <1>2, <2>1, FS_AddElement, Zenon
    <3> QED BY <1>4, <2>2, <3>1, <3>2, Zenon
  <2>3. CASE label # "count"
    <3>1. BeingCounted' = BeingCounted
      BY <1>1, <1>4, <2>3 DEF BeingCounted
    <3> QED BY <1>4, <2>3, <3>1, Zenon
  <2> QED BY <2>2, <2>3
<1> QED BY <1>3, <1>4

\* Another message is stored, or another one not counted.
LEMMA OneMore ==
  ASSUME NEW S, IsFiniteSet(S), NEW x, x \notin S
  PROVE  Cardinality(S \cup {x}) = Cardinality(S) + 1
  BY FS_AddElement, Zenon
LEMMA IngestInit == Init => IngestInv
<1> SUFFICES ASSUME Init PROVE IngestInv
  OBVIOUS
<1>1. Entered = {} /\ EnteredOnce
  BY DEF Init, Entered, EnteredOnce
<1>2. CountedOnce
  BY <1>1 DEF Init, CountedOnce
<1>3. CountFits
  <2>1. BeingCounted = {} /\ stored = {} /\ uncounted = {} /\ count = 0 /\ watch = "ON"
    BY DEF Init, BeingCounted
  <2>2. Cardinality({}) = 0
    BY FS_EmptySet, Zenon
  <2> QED BY <2>1, <2>2 DEF CountFits
<1> QED BY <1>1, <1>2, <1>3 DEF IngestInv

\* A step of one delivery keeps the others where they are.
LEMMA CountedStep ==
  ASSUME Types, CountedOnce, NEW d \in Deliveries,
         NEW label \in {"idle", "insert", "count", "done"},
         hpc' = [hpc EXCEPT ![d] = label], watch' = watch,
         Entered' \cup uncounted' \subseteq Entered \cup uncounted \cup {d[1]},
         \/ /\ hpc[d] # "count" /\ label # "count"
            /\ stored' = stored /\ Entered' = Entered /\ uncounted' = uncounted
         \/ /\ hpc[d] = "count" /\ label # "count" /\ stored' = stored
         \/ /\ d[1] \notin stored /\ watch # "GONE" /\ stored' = stored \cup {d[1]}
            /\ Entered' = Entered /\ uncounted' = uncounted
  PROVE  CountedOnce'
<1>1. \A e \in Deliveries : hpc'[e] = IF e = d THEN label ELSE hpc[e]
  BY DEF Types
<1>2. CASE hpc[d] # "count" /\ label # "count" /\ stored' = stored
           /\ Entered' = Entered /\ uncounted' = uncounted
  <2>1. \A e \in Deliveries : hpc'[e] = "count" => hpc[e] = "count"
    BY <1>1, <1>2
  <2> QED BY <1>2, <2>1 DEF CountedOnce
<1>3. CASE hpc[d] = "count" /\ label # "count" /\ stored' = stored
  <2>1. \A e \in Deliveries : hpc'[e] = "count" => hpc[e] = "count" /\ e # d
    BY <1>1, <1>3
  <2>2. \A e \in Deliveries : hpc'[e] = "count" => e[1] # d[1]
    BY <1>3, <2>1 DEF CountedOnce
  <2>3. \A e \in Deliveries : hpc'[e] = "count" => e[1] \notin Entered' \cup uncounted'
    BY <2>1, <2>2 DEF CountedOnce
  <2>4. watch # "GONE" => d[1] \in stored
    BY <1>3 DEF CountedOnce
  <2>5. watch' # "GONE" => Entered' \cup uncounted' \subseteq stored'
    BY <1>3, <2>4 DEF CountedOnce
  <2> QED BY <1>3, <2>1, <2>3, <2>5 DEF CountedOnce
<1>4. CASE /\ d[1] \notin stored /\ watch # "GONE" /\ stored' = stored \cup {d[1]}
           /\ Entered' = Entered /\ uncounted' = uncounted
  <2>1. \A e \in Deliveries : hpc[e] = "count" => e[1] # d[1]
    BY <1>4 DEF CountedOnce
  <2>2. d[1] \notin Entered \cup uncounted
    BY <1>4 DEF CountedOnce
  <2>3. \A e \in Deliveries : hpc'[e] = "count" => e = d \/ hpc[e] = "count"
    BY <1>1
  <2>4. \A e, f \in Deliveries : hpc'[e] = "count" /\ hpc'[f] = "count" /\ e[1] = f[1] => e = f
    BY <2>1, <2>3 DEF CountedOnce
  <2>5. \A e \in Deliveries : hpc'[e] = "count" =>
          e[1] \notin Entered' \cup uncounted' /\ e[1] \in stored'
    BY <1>4, <2>2, <2>3 DEF CountedOnce
  <2>6. Entered' \cup uncounted' \subseteq stored'
    BY <1>4 DEF CountedOnce
  <2> QED BY <2>4, <2>5, <2>6 DEF CountedOnce
<1> QED BY <1>2, <1>3, <1>4

\* What the handler does for one delivery, seen from the counters.
LEMMA CountFitsStep ==
  ASSUME Types, CountedOnce, CountFits, NEW d \in Deliveries,
         NEW label \in {"idle", "insert", "count", "done"},
         hpc' = [hpc EXCEPT ![d] = label], watch' = watch,
         \/ /\ hpc[d] # "count" /\ label # "count" /\ UNCHANGED <<stored, uncounted, count>>
         \/ /\ hpc[d] # "count" /\ label = "count" /\ watch # "GONE" /\ d[1] \notin stored
            /\ stored' = stored \cup {d[1]} /\ UNCHANGED <<uncounted, count>>
         \/ /\ hpc[d] = "count" /\ label # "count" /\ stored' = stored
            /\ watch = "ON" /\ count' = count + 1 /\ uncounted' = uncounted
         \/ /\ hpc[d] = "count" /\ label # "count" /\ stored' = stored
            /\ uncounted' = uncounted \cup {d[1]}
            /\ count' = count \/ (watch = "ON" /\ count' = count + 1)
  PROVE  CountFits'
<1> DEFINE being == Cardinality(BeingCounted)
           missed == Cardinality(uncounted)
           kept == Cardinality(stored)
<1>1. /\ being \in Nat /\ missed \in Nat /\ kept \in Nat /\ count \in Nat
      /\ IsFiniteSet(stored) /\ IsFiniteSet(uncounted)
  BY FiniteCounts DEF Types
<1>2. being' = IF hpc[d] = "count" THEN (IF label = "count" THEN being ELSE being - 1)
                                   ELSE (IF label = "count" THEN being + 1 ELSE being)
  BY CountingStep
<1>3. CASE /\ hpc[d] # "count" /\ label # "count" /\ UNCHANGED <<stored, uncounted, count>>
  <2>1. being' = being /\ missed' = missed /\ kept' = kept
    BY <1>2, <1>3
  <2> HIDE DEF being, missed, kept
  <2> QED BY <1>3, <2>1 DEF CountFits, being, missed, kept
<1>4. CASE /\ hpc[d] # "count" /\ label = "count" /\ watch # "GONE" /\ d[1] \notin stored
           /\ stored' = stored \cup {d[1]} /\ UNCHANGED <<uncounted, count>>
  <2>1. kept' = kept + 1
    BY <1>1, <1>4, OneMore, Zenon
  <2>2. being' = being + 1 /\ missed' = missed
    BY <1>2, <1>4
  <2>3. count + being <= kept /\ kept <= count + being + missed
    BY <1>4 DEF CountFits
  <2> HIDE DEF being, missed, kept
  <2>4. count' + being' <= kept' /\ kept' <= count' + being' + missed'
    BY <1>1, <1>4, <2>1, <2>2, <2>3
  <2> QED BY <1>4, <2>4 DEF CountFits, being, missed, kept
<1>5. CASE /\ hpc[d] = "count" /\ label # "count" /\ stored' = stored
           /\ watch = "ON" /\ count' = count + 1 /\ uncounted' = uncounted
  <2>1. being' = being - 1 /\ missed' = missed /\ kept' = kept
    BY <1>2, <1>5
  <2>2. count + being <= kept /\ kept <= count + being + missed
    BY <1>5 DEF CountFits
  <2> HIDE DEF being, missed, kept
  <2>3. count' + being' <= kept' /\ kept' <= count' + being' + missed'
    BY <1>1, <1>5, <2>1, <2>2
  <2> QED BY <1>5, <2>3 DEF CountFits, being, missed, kept
<1>6. CASE /\ hpc[d] = "count" /\ label # "count" /\ stored' = stored
           /\ uncounted' = uncounted \cup {d[1]}
           /\ count' = count \/ (watch = "ON" /\ count' = count + 1)
  <2>1. d[1] \notin uncounted
    BY <1>6 DEF CountedOnce
  <2>2. missed' = missed + 1
    BY <1>1, <1>6, <2>1, OneMore, Zenon
  <2>3. being' = being - 1 /\ kept' = kept
    BY <1>2, <1>6
  <2>4. watch # "GONE" => count + being <= kept /\ kept <= count + being + missed
    BY DEF CountFits
  <2>5. watch = "GONE" => count' = 0
    BY <1>6 DEF CountFits
  <2> HIDE DEF being, missed, kept
  <2>6. watch # "GONE" => count' + being' <= kept' /\ kept' <= count' + being' + missed'
    BY <1>1, <1>6, <2>2, <2>3, <2>4
  <2> QED BY <2>5, <2>6 DEF CountFits, being, missed, kept
<1> QED BY <1>3, <1>4, <1>5, <1>6

LEMMA IngestKeepsIngest ==
  ASSUME Types, IngestInv, NEW d \in Deliveries, IngestStep(d) \/ IngestFails(d)
  PROVE  IngestInv'
<1> USE DEF IngestInv, QueueUntouched, IngestFrame
<1>0. d[1] \in Messages
  BY DeliveryType
<1>1. CASE IngestFind(d)
  <2>1. PICK label \in {"insert", "done"} : hpc' = [hpc EXCEPT ![d] = label]
    BY <1>1 DEF IngestFind
  <2>2. /\ hpc[d] # "count" /\ watch' = watch
        /\ UNCHANGED <<stored, count, uncounted, entered>>
    BY <1>1 DEF IngestFind
  <2>3. Entered' = Entered /\ EnteredOnce'
    BY <2>2 DEF Entered, EnteredOnce
  <2> QED BY <2>1, <2>2, <2>3, CountedStep, CountFitsStep
<1>2. CASE IngestInsert(d)
  <2>1. hpc[d] # "count" /\ watch' = watch /\ UNCHANGED <<count, uncounted, entered>>
    BY <1>2 DEF IngestInsert
  <2>2. Entered' = Entered /\ EnteredOnce'
    BY <2>1 DEF Entered, EnteredOnce
  <2>3. CASE watch # "GONE" /\ d[1] \notin stored
    <3>1. stored' = stored \cup {d[1]} /\ hpc' = [hpc EXCEPT ![d] = "count"]
      BY <1>2, <2>3 DEF IngestInsert
    <3> QED BY <2>1, <2>2, <2>3, <3>1, CountedStep, CountFitsStep
  <2>4. CASE ~(watch # "GONE" /\ d[1] \notin stored)
    <3>1. stored' = stored /\ hpc' = [hpc EXCEPT ![d] = "done"]
      BY <1>2, <2>4 DEF IngestInsert
    <3> QED BY <2>1, <2>2, <3>1, CountedStep, CountFitsStep
  <2> QED BY <2>3, <2>4
<1>3. CASE IngestCount(d)
  <2>1. /\ hpc[d] = "count" /\ watch' = watch /\ stored' = stored
        /\ hpc' = [hpc EXCEPT ![d] = "done"]
    BY <1>3 DEF IngestCount
  <2>2. d[1] \notin Entered \cup uncounted
    BY <2>1 DEF CountedOnce
  <2>3. CASE watch = "ON"
    <3>1. count' = count + 1 /\ uncounted' = uncounted
      BY <1>3, <2>3 DEF IngestCount
    <3>2. entered' = entered \/ entered' = Append(entered, d[1])
      BY <1>3, <2>3 DEF IngestCount, Enqueue
    <3>3. EnteredOnce' /\ Entered' \subseteq Entered \cup {d[1]}
      <4>1. CASE entered' = entered
        BY <4>1 DEF EnteredOnce, Entered
      <4>2. CASE entered' = Append(entered, d[1])
        BY <1>0, <2>2, <4>2, EnteredStep
      <4> QED BY <3>2, <4>1, <4>2
    <3> QED BY <2>1, <2>3, <3>1, <3>3, CountedStep, CountFitsStep
  <2>4. CASE watch # "ON"
    <3>1. count' = count /\ uncounted' = uncounted \cup {d[1]} /\ entered' = entered
      BY <1>3, <2>4 DEF IngestCount
    <3>2. Entered' = Entered /\ EnteredOnce'
      BY <3>1 DEF Entered, EnteredOnce
    <3> QED BY <2>1, <3>1, <3>2, CountedStep, CountFitsStep
  <2> QED BY <2>3, <2>4
<1>4. CASE IngestFails(d)
  <2>1. /\ hpc[d] \in {"insert", "count"} /\ hpc' = [hpc EXCEPT ![d] = "done"]
        /\ watch' = watch /\ stored' = stored /\ entered' = entered
        /\ count' = count \/ (hpc[d] = "count" /\ watch = "ON" /\ count' = count + 1)
        /\ uncounted' = IF hpc[d] = "count" THEN uncounted \cup {d[1]} ELSE uncounted
    BY <1>4 DEF IngestFails
  <2>2. Entered' = Entered /\ EnteredOnce'
    BY <2>1 DEF Entered, EnteredOnce
  <2>3. CASE hpc[d] = "count"
    BY <2>1, <2>2, <2>3, CountedStep, CountFitsStep
  <2>4. CASE hpc[d] # "count"
    BY <2>1, <2>2, <2>4, CountedStep, CountFitsStep
  <2> QED BY <2>3, <2>4
<1> QED BY <1>1, <1>2, <1>3, <1>4 DEF IngestStep

\* The other steps change nothing of it, but that the target may end.
LEMMA OthersKeepIngest ==
  ASSUME IngestInv, UNCHANGED <<watch, stored, count, hpc, uncounted, entered>> \/ WatchEnds
  PROVE  IngestInv'
<1>1. UNCHANGED <<hpc, entered>>
  BY DEF WatchEnds, QueueUntouched
<1>2. Entered' = Entered /\ EnteredOnce' /\ BeingCounted' = BeingCounted
  BY <1>1 DEF Entered, EnteredOnce, BeingCounted, IngestInv
<1>3. CASE UNCHANGED <<watch, stored, count, uncounted>>
  BY <1>1, <1>2, <1>3 DEF IngestInv, CountedOnce, CountFits
<1>4. CASE WatchEnds /\ watch' = "OFF"
  <2>1. UNCHANGED <<stored, count, uncounted>> /\ watch = "ON"
    BY <1>4 DEF WatchEnds
  <2> QED BY <1>1, <1>2, <1>4, <2>1 DEF IngestInv, CountedOnce, CountFits
<1>5. CASE WatchEnds /\ watch' = "GONE"
  <2>1. stored' = {} /\ count' = 0 /\ uncounted' = {}
    BY <1>5 DEF WatchEnds
  <2> QED BY <1>1, <1>2, <1>5, <2>1 DEF IngestInv, CountedOnce, CountFits
<1> QED BY <1>3, <1>4, <1>5 DEF WatchEnds
-----------------------------------------------------------------------------
(* A task.                                                                  *)

LEMMA RepliesType == ASSUME Types, NEW m \in Messages PROVE Replies(m) \in Nat
<1>1. Len(answered) \in Nat
  BY DEF Types
<1>2. IsFiniteSet(1..Len(answered))
  <2>1. 1 \in Int /\ Len(answered) \in Int
    BY <1>1
  <2> QED BY <2>1, FS_Interval, Zenon
<1>3. {i \in 1..Len(answered) : answered[i] = m} \in SUBSET (1..Len(answered))
  OBVIOUS
<1>4. IsFiniteSet({i \in 1..Len(answered) : answered[i] = m})
  BY <1>2, <1>3, FS_Subset, Zenon
<1> QED BY <1>4, FS_CardinalityType, Zenon DEF Replies

LEMMA RepliesStep ==
  ASSUME Types, NEW k \in Messages, answered' = Append(answered, k), NEW m \in Messages
  PROVE  Replies(m)' = IF m = k THEN Replies(m) + 1 ELSE Replies(m)
<1> DEFINE before == {i \in 1..Len(answered) : answered[i] = m}
           now == {i \in 1..Len(answered') : answered'[i] = m}
<1>1. /\ Len(answered) \in Nat /\ Len(answered') = Len(answered) + 1
      /\ \A i \in 1..Len(answered) : answered'[i] = answered[i]
      /\ answered'[Len(answered) + 1] = k
  <2>1. answered \in Seq(Messages)
    BY DEF Types
  <2> QED BY <2>1
<1>2. IsFiniteSet(before) /\ Len(answered) + 1 \notin before
  <2>1. 1 \in Int /\ Len(answered) \in Int
    BY <1>1
  <2>2. IsFiniteSet(1..Len(answered))
    BY <2>1, FS_Interval, Zenon
  <2>3. before \in SUBSET (1..Len(answered))
    OBVIOUS
  <2>4. IsFiniteSet(before)
    BY <2>2, <2>3, FS_Subset, Zenon
  <2>5. Len(answered) + 1 \notin 1..Len(answered)
    BY <1>1
  <2> QED BY <2>4, <2>5
<1>3. CASE m = k
  <2>1. now = before \cup {Len(answered) + 1}
    BY <1>1, <1>3
  <2>2. Cardinality(now) = Cardinality(before) + 1
    BY <1>2, <2>1, FS_AddElement, Zenon
  <2> QED BY <1>3, <2>2 DEF Replies
<1>4. CASE m # k
  <2>1. now = before
    BY <1>1, <1>4
  <2> QED BY <1>4, <2>1 DEF Replies
<1> QED BY <1>3, <1>4

LEMMA TaskInit == Init => TaskInv
<1> SUFFICES ASSUME Init, NEW m \in Messages PROVE TaskOk(m)
  BY DEF TaskInv
<1>1. answered = <<>> /\ Len(answered) = 0
  BY DEF Init
<1>2. {i \in 1..Len(answered) : answered[i] = m} = {}
  BY <1>1
<1>3. Replies(m) = 0
  BY <1>2, FS_EmptySet, Zenon DEF Replies
<1> QED BY <1>3, LiveReplyAssumption DEF Init, TaskOk, NotYet, EffortSoFar, Running, InFlight

\* The numbers that EffortSoFar compares.
LEMMA EffortTypes ==
  ASSUME Types, NEW m \in Messages
  PROVE  /\ Replies(m) \in Nat /\ faults \in Nat /\ attempts[m] \in Nat /\ notices[m] \in Nat
         /\ retries[m] \in Nat
<1>1. Replies(m) \in Nat
  BY RepliesType
<1>2. faults \in 0..MaxFaults /\ retries[m] \in 0..MaxRetries
  BY DEF Types
<1>3. attempts[m] \in Nat /\ notices[m] \in Nat
  BY DEF Types
<1> QED BY <1>1, <1>2, <1>3, LiveReplyAssumption

LEMMA EffortTypesNext ==
  ASSUME Types', NEW m \in Messages
  PROVE  faults' \in Nat /\ attempts'[m] \in Nat /\ retries'[m] \in Nat
<1>2. faults' \in 0..MaxFaults /\ retries'[m] \in 0..MaxRetries
  BY DEF Types
<1>3. attempts'[m] \in Nat
  BY DEF Types
<1> QED BY <1>2, <1>3, LiveReplyAssumption

\* A task that a step is not about.
LEMMA OtherTask ==
  ASSUME NEW k \in Messages, TaskOk(k), Types, Types',
         fpc'[k] = fpc[k], attempts'[k] = attempts[k], retries'[k] = retries[k],
         notices'[k] = notices[k], after'[k] \in {after[k], None},
         Replies(k)' = Replies(k), faults <= faults',
         k \in Entered => k \in Entered',
         k \in noticed' <=> k \in noticed,
         k \in timers' => k \in timers,
         k \in queued' => k \in queued /\ (k \in timers => k \in timers')
  PROVE  TaskOk(k)'
<1> USE DEF InFlight, Running
<1>1. Replies(k) \in Nat /\ faults \in Nat /\ faults' \in Nat
  BY EffortTypes, EffortTypesNext
<1>2. k \notin Entered' => NotYet(k)'
  BY DEF TaskOk, NotYet
<1>3. EffortSoFar(k)'
  <2> SUFFICES /\ fpc'[k] = "waiting" \/ k \in timers' => attempts'[k] = retries'[k]
               /\ Running(k)' => attempts'[k] = retries'[k] + 1
               /\ attempts'[k] <= retries'[k] + 1
               /\ notices'[k] = IF k \in noticed' THEN 1 ELSE 0
               /\ fpc'[k] = "notice" => k \notin noticed'
               /\ k \in queued' \/ InFlight(k)' => Replies(k)' <= faults'
               /\ Replies(k)' <= 1 + faults'
               /\ Replies(k)' > 0 => attempts'[k] > 0
    BY DEF EffortSoFar
  <2> QED BY <1>1 DEF TaskOk, EffortSoFar
<1>4. k \in timers' => ~InFlight(k)' /\ retries'[k] > 0
  BY DEF TaskOk
<1>5. Running(k)' => after'[k] = None
  BY DEF TaskOk
<1>6. k \in queued' => InFlight(k)' \/ k \in timers'
  BY DEF TaskOk
<1> QED BY <1>2, <1>3, <1>4, <1>5, <1>6 DEF TaskOk

\* The others when the flight of m goes on, or settles.
LEMMA SettleOthers ==
  ASSUME Types, NEW m \in Messages, Settle(m) \/ (\E l : StayInFlight(m, l)) \/ ChainFlight(m),
         NEW k \in Messages, k # m
  PROVE  fpc'[k] = fpc[k] /\ after'[k] \in {after[k], None}
  BY DEF Types, Settle, StayInFlight, ChainFlight

\* The end of a failed run.
LEMMA RescheduleTask ==
  ASSUME Types, NEW m \in Messages, Reschedule(m)
  PROVE  /\ \A k \in Messages : k # m =>
              /\ retries'[k] = retries[k]
              /\ k \in timers' <=> k \in timers
              /\ k \in queued' <=> k \in queued
         /\ Settle(m)
         /\ \/ /\ retries'[m] = retries[m] /\ m \notin queued'
               /\ m \in timers' => m \in timers /\ m \notin queued
            \/ /\ retries'[m] = retries[m] + 1 /\ m \in timers'
               /\ m \in queued' <=> m \in queued
<1>1. CASE retries[m] >= MaxRetries
  BY <1>1 DEF Reschedule, Cleanup, Types
<1>2. CASE ~(retries[m] >= MaxRetries)
  BY <1>2 DEF Reschedule, Types
<1> QED BY <1>1, <1>2

\* A run ends for good, or with its retry timer armed.
RunEnds(m) ==
  /\ Settle(m) /\ noticed' \ {m} = noticed \ {m}
  /\ \A k \in Messages : k # m =>
       /\ retries'[k] = retries[k]
       /\ k \in timers' <=> k \in timers
       /\ k \in queued' <=> k \in queued
  /\ \/ retries'[m] = retries[m] /\ m \notin queued' /\ m \notin timers'
     \/ retries'[m] = retries[m] + 1 /\ m \in timers' /\ (m \in queued' => m \in queued)

\* A failed run ends, or goes on to post its notice.
LEMMA FailureTask ==
  ASSUME Types, NEW m \in Messages, TaskOk(m), Running(m), HandleFailure(m)
  PROVE  /\ noticed' = noticed
         /\ RunEnds(m) \/ (StayInFlight(m, "notice") /\ m \notin noticed /\ NoTaskChange)
<1>0. m \notin timers
  BY DEF TaskOk, Running, InFlight
<1>1. CASE m \notin queued \/ m \notin noticed
  BY <1>0, <1>1 DEF HandleFailure, RunEnds, NoTaskChange, taskVars
<1>2. CASE m \in queued /\ m \in noticed
  BY <1>0, <1>2, RescheduleTask DEF HandleFailure, RunEnds
<1> QED BY <1>1, <1>2

LEMMA RunEndsTask ==
  ASSUME Types, Types', NEW m \in Messages, TaskOk(m), Running(m), RunEnds(m),
         UNCHANGED <<entered, attempts>>, faults <= faults',
         notices'[m] = IF m \in noticed' THEN 1 ELSE 0,
         \/ Replies(m)' = Replies(m)
         \/ Replies(m)' = Replies(m) + 1 /\ (m \in queued' => faults' = faults + 1)
  PROVE  TaskOk(m)'
<1> USE DEF InFlight, Running
<1>1. /\ Replies(m) \in Nat /\ faults \in Nat /\ faults' \in Nat /\ attempts[m] \in Nat
      /\ retries[m] \in Nat /\ retries'[m] \in Nat
  BY EffortTypes, EffortTypesNext
<1>2. fpc'[m] = "none" /\ Entered' = Entered
  BY DEF RunEnds, Settle, Types, Entered
<1>3. m \in Entered
  BY DEF TaskOk, NotYet
<1>4. /\ attempts[m] = retries[m] + 1 /\ Replies(m) <= faults
  BY DEF TaskOk, EffortSoFar
<1>5. EffortSoFar(m)'
  <2> SUFFICES /\ fpc'[m] = "waiting" \/ m \in timers' => attempts'[m] = retries'[m]
               /\ Running(m)' => attempts'[m] = retries'[m] + 1
               /\ attempts'[m] <= retries'[m] + 1
               /\ notices'[m] = IF m \in noticed' THEN 1 ELSE 0
               /\ fpc'[m] = "notice" => m \notin noticed'
               /\ m \in queued' \/ InFlight(m)' => Replies(m)' <= faults'
               /\ Replies(m)' <= 1 + faults'
               /\ Replies(m)' > 0 => attempts'[m] > 0
    BY DEF EffortSoFar
  <2>1. m \in queued' => Replies(m)' <= faults'
    BY <1>1, <1>4
  <2>2. Replies(m)' <= 1 + faults'
    BY <1>1, <1>4
  <2>3. attempts'[m] = attempts[m] /\ attempts'[m] > 0
    BY <1>1, <1>4
  <2>4. m \in timers' => attempts'[m] = retries'[m]
    BY <1>4, <2>3 DEF RunEnds
  <2>5. attempts'[m] <= retries'[m] + 1
    BY <1>1, <1>4, <2>3 DEF RunEnds
  <2> QED BY <1>2, <2>1, <2>2, <2>3, <2>4, <2>5
<1>6. m \in timers' => retries'[m] > 0
  BY <1>1 DEF RunEnds
<1> QED BY <1>2, <1>3, <1>5, <1>6 DEF TaskOk, RunEnds

\* The run goes on with its next call.
LEMMA RunGoesOnTask ==
  ASSUME Types, Types', NEW m \in Messages, TaskOk(m), Running(m),
         NEW label \in {"check", "complete", "recheck", "post", "notice"}, StayInFlight(m, label),
         label = "notice" => m \notin noticed, NoTaskChange,
         UNCHANGED <<entered, attempts, notices>>, faults <= faults',
         \/ Replies(m)' = Replies(m)
         \/ Replies(m)' = Replies(m) + 1 /\ faults' = faults + 1
  PROVE  TaskOk(m)'
<1> USE DEF InFlight, Running
<1>1. /\ Replies(m) \in Nat /\ faults \in Nat /\ faults' \in Nat /\ attempts[m] \in Nat
      /\ retries[m] \in Nat
  BY EffortTypes, EffortTypesNext
<1>2. fpc'[m] = label /\ after'[m] = None /\ Entered' = Entered /\ m \in Entered
  BY DEF StayInFlight, Types, Entered, TaskOk, NotYet
<1>3. UNCHANGED <<queued, retries, noticed, timers>>
  BY DEF NoTaskChange, taskVars
<1>4. /\ attempts[m] = retries[m] + 1 /\ Replies(m) <= faults
      /\ notices[m] = (IF m \in noticed THEN 1 ELSE 0) /\ m \notin timers
  BY DEF TaskOk, EffortSoFar
<1>5. EffortSoFar(m)'
  <2> SUFFICES /\ fpc'[m] = "waiting" \/ m \in timers' => attempts'[m] = retries'[m]
               /\ Running(m)' => attempts'[m] = retries'[m] + 1
               /\ attempts'[m] <= retries'[m] + 1
               /\ notices'[m] = IF m \in noticed' THEN 1 ELSE 0
               /\ fpc'[m] = "notice" => m \notin noticed'
               /\ m \in queued' \/ InFlight(m)' => Replies(m)' <= faults'
               /\ Replies(m)' <= 1 + faults'
               /\ Replies(m)' > 0 => attempts'[m] > 0
    BY DEF EffortSoFar
  <2>1. Replies(m)' <= faults' /\ Replies(m)' <= 1 + faults'
    BY <1>1, <1>4
  <2> QED BY <1>1, <1>2, <1>3, <1>4, <2>1
<1> QED BY <1>2, <1>3, <1>4, <1>5 DEF TaskOk

TaskStep(m) == FlightStep(m) \/ Complete(m) \/ TimerFires(m) \/ TaskFails(m)

\* What every step of one task leaves to the others.
LEMMA TaskStepOthers ==
  ASSUME Types, NEW m \in Messages, TaskOk(m), TaskStep(m)
  PROVE  /\ Settle(m) \/ (\E l : StayInFlight(m, l)) \/ ChainFlight(m) \/ UNCHANGED flightVars
         /\ UNCHANGED <<entered, ingestVars, stopVars, uncounted>>
         /\ \A k \in Messages : k # m =>
              /\ attempts'[k] = attempts[k] /\ retries'[k] = retries[k]
              /\ notices'[k] = notices[k] /\ (k \in noticed' <=> k \in noticed)
              /\ k \in timers' <=> k \in timers
              /\ k \in queued' <=> k \in queued
         /\ faults' \in {faults, faults + 1}
         /\ UNCHANGED <<answered, late>> \/ Reply(m)
<1> USE DEF TaskFrame, NoTaskChange, taskVars
<1>1. CASE Begin(m)
  <2>1. \A k \in Messages : k # m => attempts'[k] = attempts[k]
    BY <1>1 DEF Begin, Types
  <2> QED BY <1>1, <2>1 DEF Begin
<1>2. ASSUME NEW label, NEW next, CheckWatch(m, label, next)
      PROVE  /\ Settle(m) \/ (\E l : StayInFlight(m, l))
             /\ UNCHANGED <<entered, ingestVars, stopVars, uncounted, attempts, retries, noticed,
                            notices, faults, answered, late>>
             /\ \A k \in Messages : k # m => (k \in timers' <=> k \in timers)
                                             /\ (k \in queued' <=> k \in queued)
  BY <1>2 DEF CheckWatch, Cleanup
<1>3. CASE Complete(m)
  BY <1>3 DEF Complete
<1>4. CASE Post(m)
  BY <1>4 DEF Post, Cleanup
<1>5. CASE Notice(m)
  <2>1. \A k \in Messages : k # m => notices'[k] = notices[k] /\ (k \in noticed' <=> k \in noticed)
    BY <1>5 DEF Notice, Types
  <2>2. Reschedule(m)
    BY <1>5 DEF Notice
  <2> QED BY <1>5, <2>1, <2>2, RescheduleTask DEF Notice
<1>6. ASSUME fpc[m] \in {"check", "complete", "recheck", "post"}, HandleFailure(m)
      PROVE  /\ Settle(m) \/ (\E l : StayInFlight(m, l))
             /\ noticed' = noticed
             /\ \A k \in Messages : k # m =>
                  /\ retries'[k] = retries[k]
                  /\ k \in timers' <=> k \in timers
                  /\ k \in queued' <=> k \in queued
  <2>1. Running(m)
    BY <1>6 DEF Running
  <2> QED BY <1>6, <2>1, FailureTask DEF RunEnds
<1>7. CASE CompleteTimesOut(m)
  BY <1>6, <1>7 DEF CompleteTimesOut
<1>8. CASE TaskFails(m)
  BY <1>6, <1>8 DEF TaskFails
<1>9. CASE TimerFires(m)
  BY <1>9 DEF TimerFires
<1> QED BY <1>1, <1>2, <1>3, <1>4, <1>5, <1>7, <1>8, <1>9 DEF FlightStep, TaskStep

LEMMA TaskStepKeepsOthers ==
  ASSUME Types, Types', NEW m \in Messages, TaskOk(m), TaskStep(m),
         NEW k \in Messages, k # m, TaskOk(k)
  PROVE  TaskOk(k)'
<1>1. fpc'[k] = fpc[k] /\ after'[k] \in {after[k], None}
  BY TaskStepOthers, SettleOthers DEF flightVars
<1>2. Replies(k)' = Replies(k)
  <2>1. CASE Reply(m)
    <3>1. answered' = Append(answered, m)
      BY <2>1 DEF Reply
    <3> QED BY <3>1, RepliesStep
  <2>2. CASE UNCHANGED <<answered, late>>
    BY <2>2 DEF Replies
  <2> QED BY <2>1, <2>2, TaskStepOthers
<1>3. faults <= faults'
  BY TaskStepOthers, EffortTypes
<1>4. Entered' = Entered
  BY TaskStepOthers DEF Entered
<1> QED BY <1>1, <1>2, <1>3, <1>4, TaskStepOthers, OtherTask

LEMMA TaskStepKeepsOwn ==
  ASSUME Types, Types', NEW m \in Messages, TaskOk(m), TaskStep(m)
  PROVE  TaskOk(m)'
<1> USE DEF TaskFrame, NoTaskChange, taskVars
<1>0. /\ entered' = entered /\ Entered' = Entered /\ faults <= faults'
      /\ fpc \in [Messages -> {"none", "waiting", "check", "complete", "recheck", "post", "notice"}]
  <2>1. entered' = entered /\ faults' \in {faults, faults + 1}
    BY TaskStepOthers
  <2>2. faults <= faults'
    BY <2>1, EffortTypes
  <2>3. Entered' = Entered
    BY <2>1 DEF Entered
  <2>4. fpc \in [Messages -> {"none", "waiting", "check", "complete", "recheck", "post", "notice"}]
    BY DEF Types
  <2> QED BY <2>1, <2>2, <2>3, <2>4
<1>1. CASE Begin(m) /\ m \in queued
  <2>1. /\ fpc[m] = "waiting" /\ after[m] = None /\ StayInFlight(m, "check")
        /\ attempts' = [attempts EXCEPT ![m] = @ + 1]
        /\ UNCHANGED <<queued, retries, noticed, timers, answered, faults, notices>>
    BY <1>1 DEF Begin
  <2>2. fpc'[m] = "check" /\ after'[m] = None /\ attempts'[m] = attempts[m] + 1
    BY <2>1 DEF StayInFlight, Types
  <2>3. Replies(m)' = Replies(m)
    BY <2>1 DEF Replies
  <2>4. /\ attempts[m] = retries[m] /\ Replies(m) <= faults /\ m \in Entered /\ m \notin timers
        /\ notices[m] = IF m \in noticed THEN 1 ELSE 0
    BY <2>1 DEF TaskOk, NotYet, EffortSoFar, InFlight
  <2>5. EffortSoFar(m)'
    <3> SUFFICES /\ fpc'[m] = "waiting" \/ m \in timers' => attempts'[m] = retries'[m]
                 /\ Running(m)' => attempts'[m] = retries'[m] + 1
                 /\ attempts'[m] <= retries'[m] + 1
                 /\ notices'[m] = IF m \in noticed' THEN 1 ELSE 0
                 /\ fpc'[m] = "notice" => m \notin noticed'
                 /\ m \in queued' \/ InFlight(m)' => Replies(m)' <= faults'
                 /\ Replies(m)' <= 1 + faults'
                 /\ Replies(m)' > 0 => attempts'[m] > 0
      BY DEF EffortSoFar
    <3> QED BY <2>1, <2>2, <2>3, <2>4, EffortTypes
  <2> QED BY <1>0, <2>1, <2>2, <2>4, <2>5 DEF TaskOk, InFlight
<1>2. CASE Begin(m) /\ m \notin queued
  <2>1. /\ fpc[m] = "waiting" /\ Settle(m)
        /\ UNCHANGED <<queued, retries, noticed, timers, answered, faults, notices, attempts>>
    BY <1>2 DEF Begin
  <2>2. fpc'[m] = "none"
    BY <2>1 DEF Settle, Types
  <2>3. Replies(m)' = Replies(m)
    BY <2>1 DEF Replies
  <2>4. m \in Entered /\ m \notin timers
    BY <2>1 DEF TaskOk, NotYet, InFlight
  <2>5. EffortSoFar(m)'
    BY <1>2, <2>1, <2>2, <2>3, <2>4 DEF TaskOk, EffortSoFar, Running, InFlight
  <2> QED BY <1>0, <1>2, <2>1, <2>2, <2>4, <2>5 DEF TaskOk, InFlight, Running
<1>3. ASSUME NEW label \in {"check", "recheck"}, NEW next \in {"complete", "post"},
             CheckWatch(m, label, next)
      PROVE  TaskOk(m)'
  <2>1. Running(m) /\ UNCHANGED <<attempts, notices, answered>>
    BY <1>3 DEF CheckWatch, Running
  <2>2. Replies(m)' = Replies(m)
    BY <2>1 DEF Replies
  <2>3. CASE StayInFlight(m, next) /\ NoTaskChange
    BY <1>0, <2>1, <2>2, <2>3, RunGoesOnTask
  <2>4. CASE Settle(m) /\ Cleanup(m) /\ UNCHANGED <<retries, noticed>>
    <3>1. m \notin timers /\ notices[m] = IF m \in noticed THEN 1 ELSE 0
      BY <2>1 DEF TaskOk, EffortSoFar, Running, InFlight
    <3>2. RunEnds(m)
      BY <2>4, <3>1 DEF RunEnds, Cleanup
    <3> QED BY <1>0, <2>1, <2>2, <2>4, <3>1, <3>2, RunEndsTask
  <2> QED BY <1>3, <2>3, <2>4 DEF CheckWatch
<1>4. CASE Complete(m)
  <2>1. /\ Running(m) /\ StayInFlight(m, "recheck") /\ NoTaskChange
        /\ UNCHANGED <<attempts, notices, answered>>
    BY <1>4 DEF Complete, Running
  <2>2. Replies(m)' = Replies(m)
    BY <2>1 DEF Replies
  <2> QED BY <1>0, <2>1, <2>2, RunGoesOnTask
<1>5. CASE Post(m)
  <2>1. /\ Running(m) /\ UNCHANGED <<attempts, notices, retries, noticed>>
        /\ answered' = Append(answered, m) /\ Settle(m) /\ Cleanup(m)
    BY <1>5 DEF Post, Running, Reply
  <2>2. Replies(m)' = Replies(m) + 1
    BY <2>1, RepliesStep
  <2>3. m \notin timers /\ notices[m] = IF m \in noticed THEN 1 ELSE 0
    BY <2>1 DEF TaskOk, EffortSoFar, Running, InFlight
  <2>4. RunEnds(m) /\ m \notin queued'
    BY <2>1, <2>3 DEF RunEnds, Cleanup
  <2> QED BY <1>0, <2>1, <2>2, <2>3, <2>4, RunEndsTask
<1>6. CASE Notice(m)
  <2>1. /\ Running(m) /\ fpc[m] = "notice" /\ UNCHANGED <<attempts, answered>>
        /\ notices' = [notices EXCEPT ![m] = @ + 1] /\ noticed' = noticed \cup {m}
        /\ Reschedule(m)
    BY <1>6 DEF Notice, Running
  <2>2. Replies(m)' = Replies(m)
    BY <2>1 DEF Replies
  <2>3. m \notin timers /\ notices[m] = 0
    BY <2>1 DEF TaskOk, EffortSoFar, Running, InFlight
  <2>4. notices'[m] = 1
    BY <2>1, <2>3 DEF Types
  <2>5. RunEnds(m)
    BY <2>1, <2>3, RescheduleTask DEF RunEnds
  <2> QED BY <1>0, <2>1, <2>2, <2>4, <2>5, RunEndsTask
<1>7. ASSUME fpc[m] \in {"check", "complete", "recheck", "post"}, HandleFailure(m),
             UNCHANGED <<attempts, notices>>,
             \/ Replies(m)' = Replies(m)
             \/ Replies(m)' = Replies(m) + 1 /\ faults' = faults + 1
      PROVE  TaskOk(m)'
  <2>1. Running(m)
    BY <1>7 DEF Running
  <2>2. notices[m] = IF m \in noticed THEN 1 ELSE 0
    BY DEF TaskOk, EffortSoFar
  <2>3. CASE RunEnds(m)
    BY <1>0, <1>7, <2>1, <2>2, <2>3, FailureTask, RunEndsTask
  <2>4. CASE StayInFlight(m, "notice") /\ m \notin noticed /\ NoTaskChange
    BY <1>0, <1>7, <2>1, <2>4, RunGoesOnTask
  <2> QED BY <1>7, <2>1, <2>3, <2>4, FailureTask
<1>8. CASE CompleteTimesOut(m)
  <2>1. Replies(m)' = Replies(m)
    BY <1>8 DEF CompleteTimesOut, Replies
  <2> QED BY <1>7, <1>8, <2>1 DEF CompleteTimesOut
<1>9. CASE TaskFails(m)
  <2>1. CASE answered' = answered
    <3>1. Replies(m)' = Replies(m)
      BY <2>1 DEF Replies
    <3> QED BY <1>7, <1>9, <3>1 DEF TaskFails
  <2>2. CASE answered' = Append(answered, m)
    <3>1. Replies(m)' = Replies(m) + 1
      BY <2>2, RepliesStep
    <3> QED BY <1>7, <1>9, <3>1 DEF TaskFails
  <2> QED BY <1>9, <2>1, <2>2 DEF TaskFails, Reply
<1>10. CASE TimerFires(m)
  <2>1. /\ m \in timers /\ timers' = timers \ {m}
        /\ IF m \in queued THEN ChainFlight(m) ELSE UNCHANGED flightVars
        /\ UNCHANGED <<queued, retries, noticed, faults, answered, notices, attempts>>
    BY <1>10 DEF TimerFires
  <2>2. Replies(m)' = Replies(m)
    BY <2>1 DEF Replies
  <2>3. fpc[m] = "none" /\ attempts[m] = retries[m] /\ m \in Entered
    BY <2>1 DEF TaskOk, NotYet, EffortSoFar, InFlight
  <2>4. fpc'[m] = IF m \in queued THEN "waiting" ELSE "none"
    BY <2>1, <2>3 DEF ChainFlight, flightVars, Types
  <2>5. EffortSoFar(m)'
    BY <2>1, <2>2, <2>3, <2>4 DEF TaskOk, EffortSoFar, Running, InFlight
  <2> QED BY <1>0, <2>1, <2>3, <2>4, <2>5 DEF TaskOk, InFlight, Running
<1> QED BY <1>1, <1>2, <1>3, <1>4, <1>5, <1>6, <1>8, <1>9, <1>10 DEF FlightStep, TaskStep

\* The event handler hands a message over, or leaves the queue alone.
LEMMA IngestQueue ==
  ASSUME Types, CountedOnce, NEW d \in Deliveries, IngestStep(d) \/ IngestFails(d)
  PROVE  /\ \/ UNCHANGED <<taskVars, flightVars, entered>>
            \/ Enqueue(d[1]) /\ d[1] \notin Entered /\ watch = "ON"
         /\ UNCHANGED <<watch, stopVars, answered, late, notices, attempts>>
         /\ faults' \in {faults, faults + 1}
<1>1. CASE IngestCount(d)
  BY <1>1 DEF IngestCount, CountedOnce, QueueUntouched, IngestFrame
<1>2. CASE IngestFind(d) \/ IngestInsert(d) \/ IngestFails(d)
  BY <1>2 DEF IngestFind, IngestInsert, IngestFails, QueueUntouched, IngestFrame
<1> QED BY <1>1, <1>2 DEF IngestStep

\* A message that is enqueued was not before, and is the next in the chain.
LEMMA EnqueueNew ==
  ASSUME Types, NEW m \in Messages, TaskOk(m), m \notin Entered, Enqueue(m)
  PROVE  /\ queued' = queued \cup {m} /\ noticed' = noticed /\ timers' = timers
         /\ retries' = [retries EXCEPT ![m] = 0] /\ ChainFlight(m)
         /\ entered' = Append(entered, m) /\ NotYet(m)
<1>1. NotYet(m)
  BY DEF TaskOk
<1>2. m \notin queued /\ m \notin noticed
  BY <1>1 DEF NotYet
<1>3. noticed \ {m} = noticed
  BY <1>2
<1> QED BY <1>1, <1>2, <1>3 DEF Enqueue

LEMMA IngestKeepsTasks ==
  ASSUME Types, Types', CountedOnce, TaskInv,
         NEW d \in Deliveries, IngestStep(d) \/ IngestFails(d)
  PROVE  TaskInv'
<1> SUFFICES ASSUME NEW k \in Messages PROVE TaskOk(k)'
  BY DEF TaskInv
<1>0. TaskOk(k) /\ d[1] \in Messages
  BY DeliveryType DEF TaskInv
<1>1. UNCHANGED <<answered, attempts, notices>> /\ Replies(k)' = Replies(k)
  BY IngestQueue DEF Replies
<1>2. faults <= faults'
  BY IngestQueue, EffortTypes
<1>3. CASE UNCHANGED <<taskVars, flightVars, entered>>
  <2>1. Entered' = Entered
    BY <1>3 DEF Entered
  <2> QED BY <1>0, <1>1, <1>2, <1>3, <2>1, OtherTask DEF taskVars, flightVars
<1>4. ASSUME Enqueue(d[1]), d[1] \notin Entered
      PROVE  TaskOk(k)'
  <2>1. /\ queued' = queued \cup {d[1]} /\ noticed' = noticed /\ timers' = timers
        /\ retries' = [retries EXCEPT ![d[1]] = 0] /\ ChainFlight(d[1])
        /\ entered' = Append(entered, d[1]) /\ NotYet(d[1])
    BY <1>0, <1>4, EnqueueNew DEF TaskInv
  <2>2. Entered' = Entered \cup {d[1]}
    BY <1>0, <2>1, EnteredStep
  <2>3. CASE k # d[1]
    <3>1. fpc'[k] = fpc[k] /\ after'[k] \in {after[k], None}
      BY <1>0, <2>1, <2>3, SettleOthers
    <3>2. retries'[k] = retries[k]
      BY <1>0, <2>1, <2>3 DEF Types
    <3> QED BY <1>0, <1>1, <1>2, <2>1, <2>2, <2>3, <3>1, <3>2, OtherTask
  <2>4. CASE k = d[1]
    <3>1. fpc'[k] = "waiting" /\ retries'[k] = 0
      BY <1>0, <2>1, <2>4 DEF ChainFlight, Types
    <3>2. /\ attempts'[k] = 0 /\ notices'[k] = 0 /\ Replies(k)' = 0
          /\ k \notin timers' \cup noticed'
      BY <1>1, <2>1, <2>4 DEF NotYet
    <3>3. EffortSoFar(k)'
      BY <3>1, <3>2, EffortTypesNext DEF EffortSoFar, Running
    <3> QED BY <2>2, <2>4, <3>1, <3>2, <3>3 DEF TaskOk, Running, InFlight
  <2> QED BY <2>3, <2>4
<1> QED BY <1>3, <1>4, IngestQueue

LEMMA StopKeepsTasks ==
  ASSUME Types, Types', TaskInv, WatchEnds \/ StopBegin \/ StopEnd \/ AtRest \/ UNCHANGED vars
  PROVE  TaskInv'
<1> SUFFICES ASSUME NEW k \in Messages PROVE TaskOk(k)'
  BY DEF TaskInv
<1> USE DEF QueueUntouched, ingestVars, taskVars, flightVars, historyVars, vars
<1>1. /\ UNCHANGED <<fpc, after, retries, noticed, notices, attempts, answered, entered, faults>>
      /\ \/ queued' = queued /\ timers' = timers
         \/ queued' = {} /\ timers' \subseteq timers
  BY DEF WatchEnds, StopBegin, StopEnd, AtRest
<1>2. Replies(k)' = Replies(k) /\ Entered' = Entered
  BY <1>1 DEF Replies, Entered
<1>3. faults <= faults'
  BY <1>1, EffortTypes
<1> QED BY <1>1, <1>2, <1>3, OtherTask DEF TaskInv

LEMMA NextTasks ==
  ASSUME Types, Types', CountedOnce, TaskInv, [Next]_vars
  PROVE  TaskInv'
<1>1. ASSUME NEW m \in Messages, TaskStep(m)
      PROVE  TaskInv'
  <2> SUFFICES ASSUME NEW k \in Messages PROVE TaskOk(k)'
    BY DEF TaskInv
  <2>1. TaskOk(m) /\ TaskOk(k)
    BY DEF TaskInv
  <2> QED BY <1>1, <2>1, TaskStepKeepsOwn, TaskStepKeepsOthers
<1> QED BY <1>1, IngestKeepsTasks, StopKeepsTasks DEF Next, TaskStep
-----------------------------------------------------------------------------
(* The chain of flights.                                                    *)

LEMMA ChainAppend ==
  ASSUME Types, NEW m \in Messages, ~InFlight(m), ChainFlight(m),
         NEW q \in Seq(Messages), IsChain(q)
  PROVE  IsChain(Append(q, m))'
<1> DEFINE r == Append(q, m)
<1>1. /\ Len(q) \in Nat /\ Len(r) = Len(q) + 1 /\ r # <<>>
      /\ \A i \in 1..Len(q) : r[i] = q[i] /\ q[i] \in Messages
      /\ r[Len(q) + 1] = m
  OBVIOUS
<1>2. \A i \in 1..Len(q) : q[i] # m
  BY DEF IsChain
<1>3. /\ \A k \in Messages : fpc'[k] = IF k = m THEN "waiting" ELSE fpc[k]
      /\ \A k \in Messages : after'[k] = IF k = m THEN last ELSE after[k]
      /\ last' = m
  BY DEF ChainFlight, Types
<1> HIDE DEF r
<1>4. \A i, j \in 1..Len(r) : r[i] = r[j] => i = j
  <2> SUFFICES ASSUME NEW i \in 1..Len(r), NEW j \in 1..Len(r), r[i] = r[j] PROVE i = j
    OBVIOUS
  <2>1. \A a, b \in 1..Len(q) : q[a] = q[b] => a = b
    BY DEF IsChain
  <2> QED BY <1>1, <1>2, <2>1
<1>5. ASSUME NEW k \in Messages
      PROVE  fpc'[k] # "none" <=> \E i \in 1..Len(r) : r[i] = k
  <2>1. (fpc[k] # "none") <=> \E i \in 1..Len(q) : q[i] = k
    BY DEF IsChain, InFlight
  <2>2. CASE k = m
    <3>1. Len(q) + 1 \in 1..Len(r)
      BY <1>1
    <3> QED BY <1>1, <1>3, <2>2, <3>1
  <2>3. CASE k # m
    <3>1. ASSUME NEW i \in 1..Len(r), r[i] = k PROVE i \in 1..Len(q) /\ q[i] = k
      BY <1>1, <2>3, <3>1
    <3>2. ASSUME NEW i \in 1..Len(q), q[i] = k PROVE i \in 1..Len(r) /\ r[i] = k
      BY <1>1, <3>2
    <3> QED BY <1>3, <2>1, <2>3, <3>1, <3>2
  <2> QED BY <2>2, <2>3
<1>6. ASSUME NEW i \in 1..Len(r)
      PROVE  after'[r[i]] = IF i = 1 THEN None ELSE r[i - 1]
  <2>1. CASE i = Len(q) + 1
    <3>1. after'[r[i]] = last
      BY <1>1, <1>3, <2>1
    <3>2. last = IF q = <<>> THEN None ELSE q[Len(q)]
      BY DEF IsChain
    <3>3. q = <<>> <=> Len(q) = 0
      OBVIOUS
    <3>4. i # 1 => Len(q) \in 1..Len(q) /\ i - 1 = Len(q)
      BY <1>1, <2>1
    <3> QED BY <1>1, <2>1, <3>1, <3>2, <3>3, <3>4
  <2>2. CASE i # Len(q) + 1
    <3>1. i \in 1..Len(q)
      BY <1>1, <2>2
    <3>2. after'[r[i]] = after[q[i]] /\ r[i] = q[i]
      BY <1>1, <1>2, <1>3, <3>1
    <3>3. after[q[i]] = IF i = 1 THEN None ELSE q[i - 1]
      BY <3>1 DEF IsChain
    <3>4. i # 1 => i - 1 \in 1..Len(q)
      BY <1>1, <3>1
    <3> QED BY <1>1, <3>2, <3>3, <3>4
  <2> QED BY <2>1, <2>2
<1>7. last' = r[Len(r)]
  BY <1>1, <1>3
<1>8. IsChain(r)'
  BY <1>1, <1>4, <1>5, <1>6, <1>7 DEF IsChain, InFlight
<1> QED BY <1>8 DEF r

\* The flight whose turn has come is the first of the chain.
LEMMA FirstOfChain ==
  ASSUME Types, NEW m \in Messages, InFlight(m), after[m] = None,
         NEW q \in Seq(Messages), IsChain(q)
  PROVE  q # <<>> /\ q[1] = m
<1>1. PICK i \in 1..Len(q) : q[i] = m
  BY DEF IsChain
<1>2. i # 1 => after[m] = q[i - 1] /\ i - 1 \in 1..Len(q)
  BY <1>1 DEF IsChain
<1>3. i # 1 => q[i - 1] \in Messages
  BY <1>2
<1>4. i = 1
  BY <1>2, <1>3, LiveReplyAssumption
<1> QED BY <1>1, <1>4

LEMMA TailFacts ==
  ASSUME NEW q \in Seq(Messages), q # <<>>
  PROVE  /\ Tail(q) \in Seq(Messages) /\ Len(q) \in Nat /\ Len(q) >= 1
         /\ Len(Tail(q)) = Len(q) - 1
         /\ \A i \in 1..Len(Tail(q)) : Tail(q)[i] = q[i + 1] /\ i + 1 \in 1..Len(q)
  OBVIOUS

LEMMA ChainTail ==
  ASSUME Types, NEW m \in Messages, InFlight(m), after[m] = None, Settle(m),
         NEW q \in Seq(Messages), IsChain(q)
  PROVE  IsChain(Tail(q))'
<1> DEFINE r == Tail(q)
<1>0. q # <<>> /\ q[1] = m
  BY FirstOfChain
<1>1. /\ r \in Seq(Messages) /\ Len(q) \in Nat /\ Len(q) >= 1 /\ Len(r) = Len(q) - 1
      /\ \A i \in 1..Len(r) : r[i] = q[i + 1] /\ i + 1 \in 1..Len(q)
  BY <1>0, TailFacts
<1>2. \A i, j \in 1..Len(q) : q[i] = q[j] => i = j
  BY DEF IsChain
<1>3. /\ \A k \in Messages : fpc'[k] = IF k = m THEN "none" ELSE fpc[k]
      /\ \A k \in Messages : after'[k] = IF after[k] = m THEN None ELSE after[k]
      /\ last' = IF last = m THEN None ELSE last
  BY DEF Settle, Types
<1> HIDE DEF r
<1>4. \A i, j \in 1..Len(r) : r[i] = r[j] => i = j
  BY <1>1, <1>2
<1>5. ASSUME NEW k \in Messages
      PROVE  fpc'[k] # "none" <=> \E i \in 1..Len(r) : r[i] = k
  <2>1. (fpc[k] # "none") <=> \E i \in 1..Len(q) : q[i] = k
    BY DEF IsChain, InFlight
  <2>2. CASE k = m
    <3>1. \A i \in 1..Len(r) : q[i + 1] # q[1]
      BY <1>1, <1>2
    <3> QED BY <1>0, <1>1, <1>3, <2>2, <3>1
  <2>3. CASE k # m
    <3>1. ASSUME NEW i \in 1..Len(q), q[i] = k PROVE i - 1 \in 1..Len(r) /\ r[i - 1] = k
      BY <1>0, <1>1, <2>3, <3>1
    <3> QED BY <1>1, <1>3, <2>1, <2>3, <3>1
  <2> QED BY <2>2, <2>3
<1>6. ASSUME NEW i \in 1..Len(r)
      PROVE  after'[r[i]] = IF i = 1 THEN None ELSE r[i - 1]
  <2>1. r[i] = q[i + 1] /\ i + 1 \in 1..Len(q) /\ i + 1 # 1 /\ (i + 1) - 1 = i
    BY <1>1
  <2>2. after[r[i]] = q[i]
    BY <2>1 DEF IsChain
  <2>3. r[i] \in Messages
    BY <1>1
  <2>4. i \in 1..Len(q)
    BY <1>1
  <2>5. i # 1 => q[i] # m
    BY <1>0, <1>1, <1>2, <2>4
  <2>6. i # 1 => r[i - 1] = q[i]
    BY <1>1
  <2> QED BY <1>0, <1>3, <2>2, <2>3, <2>5, <2>6
<1>7. last' = IF r = <<>> THEN None ELSE r[Len(r)]
  <2>1. last = q[Len(q)]
    BY <1>0 DEF IsChain
  <2>2. r = <<>> <=> Len(q) = 1
    BY <1>1
  <2>3. Len(q) # 1 => q[Len(q)] # q[1] /\ r[Len(r)] = q[Len(q)]
    BY <1>1, <1>2
  <2> QED BY <1>0, <1>3, <2>1, <2>2, <2>3
<1>8. IsChain(r)'
  BY <1>4, <1>5, <1>6, <1>7 DEF IsChain, InFlight
<1> QED BY <1>8 DEF r

LEMMA ChainSame ==
  ASSUME NEW q, IsChain(q), UNCHANGED <<after, last>>,
         \A k \in Messages : InFlight(k)' <=> InFlight(k)
  PROVE  IsChain(q)'
  BY DEF IsChain
-----------------------------------------------------------------------------
(* Positions.                                                               *)

LEMMA PositionIs ==
  ASSUME EnteredOnce, NEW i \in 1..Len(entered)
  PROVE  PositionOf(entered[i]) = i
<1>1. \A j \in 1..Len(entered) : entered[j] = entered[i] => j = i
  BY DEF EnteredOnce
<1>2. \E j \in 1..Len(entered) : entered[j] = entered[i]
  OBVIOUS
<1> QED BY <1>1, <1>2, Zenon DEF PositionOf

LEMMA PositionStep ==
  ASSUME Types, EnteredOnce, NEW m \in Messages, m \notin Entered, entered' = Append(entered, m)
  PROVE  /\ \A k \in Entered : PositionOf(k)' = PositionOf(k) /\ PositionOf(k) \in 1..Len(entered)
         /\ PositionOf(m)' = Len(entered) + 1 /\ Len(entered) \in Nat
<1>1. /\ EnteredOnce' /\ Len(entered') = Len(entered) + 1 /\ Len(entered) \in Nat
      /\ \A i \in 1..Len(entered) : entered'[i] = entered[i]
      /\ entered'[Len(entered) + 1] = m
  BY EnteredStep
<1>2. ASSUME NEW k, NEW i \in 1..Len(entered'), entered'[i] = k
      PROVE  PositionOf(k)' = i
  <2>1. \A j \in 1..Len(entered') : entered'[j] = k => j = i
    BY <1>1, <1>2 DEF EnteredOnce
  <2> QED BY <1>2, <2>1, Zenon DEF PositionOf
<1>3. ASSUME NEW k \in Entered
      PROVE  PositionOf(k)' = PositionOf(k) /\ PositionOf(k) \in 1..Len(entered)
  <2>1. PICK i \in 1..Len(entered) : entered[i] = k
    BY DEF Entered
  <2>2. PositionOf(k) = i
    BY <2>1, PositionIs
  <2>3. i \in 1..Len(entered') /\ entered'[i] = k
    BY <1>1, <2>1
  <2>4. PositionOf(k)' = i
    BY <1>2, <2>3
  <2> QED BY <2>1, <2>2, <2>4
<1>4. PositionOf(m)' = Len(entered) + 1
  <2>1. Len(entered) + 1 \in 1..Len(entered')
    BY <1>1
  <2> QED BY <1>1, <1>2, <2>1
<1> QED BY <1>1, <1>3, <1>4

LEMMA PositionSame == ASSUME UNCHANGED entered, NEW k PROVE PositionOf(k)' = PositionOf(k)
  BY DEF PositionOf

-----------------------------------------------------------------------------
(* What a step of a task means for the flights and the answers.             *)

\* A flight is added to the chain, goes on, or settles when its turn has come.
LEMMA TaskStepFlight ==
  ASSUME Types, NEW m \in Messages, TaskOk(m), TaskStep(m)
  PROVE  \/ InFlight(m) /\ after[m] = None /\ Settle(m)
         \/ InFlight(m) /\ \E l \in {"check", "complete", "recheck", "post", "notice"} :
                              StayInFlight(m, l)
         \/ ~InFlight(m) /\ m \in queued /\ retries[m] > 0 /\ retries' = retries /\ ChainFlight(m)
         \/ UNCHANGED flightVars /\ retries' = retries
<1>1. CASE Begin(m)
  BY <1>1 DEF Begin, InFlight
<1>2. CASE Running(m) /\ (Settle(m) \/ \E l \in {"check", "complete", "recheck", "post", "notice"} :
                              StayInFlight(m, l))
  BY <1>2 DEF Running, InFlight, TaskOk
<1>3. CASE TimerFires(m)
  BY <1>3 DEF TimerFires, TaskOk
<1>4. ASSUME Running(m), HandleFailure(m)
      PROVE  Settle(m) \/ StayInFlight(m, "notice")
  BY <1>4, FailureTask DEF RunEnds
<1>5. CASE CheckWatch(m, "check", "complete") \/ CheckWatch(m, "recheck", "post")
  BY <1>2, <1>5 DEF CheckWatch, Running
<1>6. CASE Complete(m) \/ Post(m) \/ Notice(m)
  BY <1>2, <1>6 DEF Complete, Post, Notice, Reschedule, Running
<1>7. CASE CompleteTimesOut(m) \/ TaskFails(m)
  <2>1. Running(m) /\ HandleFailure(m)
    BY <1>7 DEF CompleteTimesOut, TaskFails, Running
  <2> QED BY <1>2, <1>4, <2>1
<1> QED BY <1>1, <1>3, <1>5, <1>6, <1>7 DEF TaskStep, FlightStep

\* No step but the enqueueing makes a run a first one.
LEMMA TaskStepFirstRun ==
  ASSUME Types, Types', NEW m \in Messages, TaskOk(m), TaskStep(m), NEW k \in Messages, FirstRun(k)'
  PROVE  FirstRun(k)
<1>1. CASE k # m
  <2>1. fpc'[k] = fpc[k] /\ retries'[k] = retries[k]
    BY <1>1, TaskStepOthers, SettleOthers DEF flightVars
  <2> QED BY <2>1 DEF FirstRun
<1>2. CASE k = m
  <2>1. retries'[m] = 0 /\ fpc'[m] \in {"waiting", "check", "complete", "recheck", "post"}
    BY <1>2 DEF FirstRun
  <2>2. CASE Settle(m)
    BY <2>1, <2>2 DEF Settle, Types
  <2>3. CASE ~InFlight(m) /\ retries[m] > 0 /\ retries' = retries
    BY <2>1, <2>3
  <2>4. CASE UNCHANGED flightVars /\ retries' = retries
    BY <1>2, <2>4 DEF FirstRun, flightVars
  <2>5. CASE \E l \in {"check", "complete", "recheck", "post", "notice"} : StayInFlight(m, l)
    <3>1. CASE Begin(m)
      BY <1>2, <2>1, <3>1 DEF Begin, FirstRun, NoTaskChange, taskVars
    <3>2. CASE CheckWatch(m, "check", "complete") \/ CheckWatch(m, "recheck", "post")
      BY <1>2, <2>1, <3>2 DEF CheckWatch, FirstRun, NoTaskChange, taskVars
    <3>3. CASE Complete(m)
      BY <1>2, <2>1, <3>3 DEF Complete, FirstRun, NoTaskChange, taskVars
    <3>4. CASE Post(m) \/ Notice(m)
      <4>1. Settle(m)
        BY <3>4 DEF Post, Notice, Reschedule
      <4> QED BY <2>2, <4>1
    <3>5. CASE CompleteTimesOut(m) \/ TaskFails(m)
      <4>1. Running(m) /\ HandleFailure(m)
        BY <3>5 DEF CompleteTimesOut, TaskFails, Running
      <4>2. CASE StayInFlight(m, "notice")
        BY <2>1, <4>2 DEF StayInFlight, Types
      <4> QED BY <2>2, <4>1, <4>2, FailureTask DEF RunEnds
    <3>6. CASE TimerFires(m)
      <4>1. retries' = retries /\ retries[m] > 0
        BY <3>6 DEF TimerFires, TaskOk
      <4> QED BY <2>1, <4>1
    <3> QED BY <3>1, <3>2, <3>3, <3>4, <3>5, <3>6 DEF TaskStep, FlightStep
  <2> QED BY <2>2, <2>3, <2>4, <2>5, TaskStepFlight
<1> QED BY <1>1, <1>2

\* A reply comes from a flight that was to post, and that has done so.
LEMMA TaskStepReply ==
  ASSUME Types, NEW m \in Messages, TaskOk(m), TaskStep(m)
  PROVE  \/ UNCHANGED <<answered, late>>
         \/ /\ Reply(m) /\ fpc[m] = "post" /\ attempts' = attempts
            /\ fpc'[m] \in {"none", "notice"}
<1>1. CASE Post(m)
  BY <1>1 DEF Post, Settle, Types
<1>2. CASE TaskFails(m)
  <2>1. Running(m) /\ HandleFailure(m) /\ attempts' = attempts
    BY <1>2 DEF TaskFails, Running
  <2>2. fpc'[m] \in {"none", "notice"}
    BY <2>1, FailureTask DEF RunEnds, Settle, StayInFlight, Types
  <2> QED BY <1>2, <2>1, <2>2 DEF TaskFails
<1>3. CASE ~TaskFails(m) /\ ~Post(m)
  BY <1>3 DEF TaskStep, FlightStep, Begin, CheckWatch, Complete, CompleteTimesOut, Notice, TimerFires
<1> QED BY <1>1, <1>2, <1>3

\* A flight is about to post only if the thread was watched.
LEMMA TaskStepPost ==
  ASSUME Types, NEW m \in Messages, TaskOk(m), TaskStep(m), NEW k \in Messages, fpc'[k] = "post"
  PROVE  fpc[k] = "post" \/ watch = "ON"
<1>1. CASE k # m
  BY <1>1, TaskStepOthers, SettleOthers DEF flightVars
<1>2. CASE k = m
  <2>1. CASE Settle(m) \/ ChainFlight(m)
    BY <1>2, <2>1 DEF Settle, ChainFlight, Types
  <2>2. CASE UNCHANGED flightVars
    BY <1>2, <2>2 DEF flightVars
  <2>3. ASSUME NEW l, StayInFlight(m, l) PROVE l = "post"
    BY <1>2, <2>3 DEF StayInFlight, Types
  <2>4. CASE Begin(m) \/ Complete(m) \/ Post(m) \/ Notice(m) \/ TimerFires(m)
    BY <2>1, <2>2, <2>3, <2>4 DEF Begin, Complete, Post, Notice, Reschedule, TimerFires
  <2>5. CASE CheckWatch(m, "check", "complete") \/ CheckWatch(m, "recheck", "post")
    BY <2>1, <2>3, <2>5 DEF CheckWatch
  <2>6. CASE CompleteTimesOut(m) \/ TaskFails(m)
    <3>1. Running(m) /\ HandleFailure(m)
      BY <2>6 DEF CompleteTimesOut, TaskFails, Running
    <3> QED BY <2>1, <2>3, <3>1, FailureTask DEF RunEnds
  <2> QED BY <2>4, <2>5, <2>6 DEF TaskStep, FlightStep
<1> QED BY <1>1, <1>2

\* A run is counted once.
LEMMA TaskStepAttempts ==
  ASSUME Types, NEW m \in Messages, TaskOk(m), TaskStep(m), NEW k \in Messages, attempts[k] > 0
  PROVE  attempts'[k] > 0 /\ (attempts'[k] = 1 => attempts[k] = 1)
<1>1. attempts[k] \in Nat
  BY EffortTypes
<1>2. CASE Begin(m)
  <2>1. attempts'[k] = attempts[k] \/ attempts'[k] = attempts[k] + 1
    BY <1>2 DEF Begin, Types
  <2> QED BY <1>1, <2>1
<1>3. CASE ~Begin(m)
  <2>1. attempts' = attempts
    BY <1>3 DEF TaskStep, FlightStep, CheckWatch, Complete, Post, CompleteTimesOut, Notice,
                TimerFires, TaskFails
  <2> QED BY <2>1
<1> QED BY <1>2, <1>3
-----------------------------------------------------------------------------
(* The chain, in the order of the messages.                                 *)

ReplyInv == Types /\ IngestInv /\ TaskInv /\ QueueInv /\ ChainInv

LEMMA ChainMembers ==
  ASSUME Types, TaskInv, NEW q \in Seq(Messages), IsChain(q), NEW i \in 1..Len(q)
  PROVE  q[i] \in Messages /\ InFlight(q[i]) /\ q[i] \in Entered
<1>1. q[i] \in Messages
  OBVIOUS
<1>2. InFlight(q[i])
  BY <1>1 DEF IsChain
<1> QED BY <1>1, <1>2 DEF TaskInv, TaskOk, NotYet, InFlight

\* Of the chain, what is in order stays so when it loses its head or grows by a
\* flight that is no first run, or the first run of the latest message.
LEMMA OrderSame ==
  ASSUME NEW q \in Seq(Messages), InOrder(q),
         \A k \in Messages : FirstRun(k)' => FirstRun(k),
         \A i \in 1..Len(q) : PositionOf(q[i])' = PositionOf(q[i])
  PROVE  InOrder(q)'
<1>1. \A i \in 1..Len(q) : q[i] \in Messages
  OBVIOUS
<1> SUFFICES ASSUME NEW i \in 1..Len(q), NEW j \in 1..Len(q),
                    i < j /\ FirstRun(q[i])' /\ FirstRun(q[j])'
             PROVE  PositionOf(q[i])' < PositionOf(q[j])'
  BY DEF InOrder
<1>2. FirstRun(q[i]) /\ FirstRun(q[j])
  BY <1>1
<1>3. PositionOf(q[i]) < PositionOf(q[j])
  BY <1>2 DEF InOrder
<1> QED BY <1>3

LEMMA OrderTail ==
  ASSUME NEW q \in Seq(Messages), q # <<>>, InOrder(q), AwaitedIsLast(q)
  PROVE  InOrder(Tail(q)) /\ AwaitedIsLast(Tail(q))
<1> DEFINE r == Tail(q)
<1>1. /\ Len(q) \in Nat /\ Len(r) = Len(q) - 1
      /\ \A i \in 1..Len(r) : r[i] = q[i + 1] /\ i + 1 \in 1..Len(q)
  BY TailFacts
<1> HIDE DEF r
<1>2. InOrder(r)
  <2> SUFFICES ASSUME NEW i \in 1..Len(r), NEW j \in 1..Len(r),
                      i < j /\ FirstRun(r[i]) /\ FirstRun(r[j])
               PROVE  PositionOf(r[i]) < PositionOf(r[j])
    BY DEF InOrder
  <2>1. i + 1 < j + 1
    BY <1>1
  <2> QED BY <1>1, <2>1 DEF InOrder
<1>3. AwaitedIsLast(r)
  <2> SUFFICES ASSUME spc = "awaiting", NEW i \in 1..Len(r), r[i] \in cleared
               PROVE  \E j \in i..Len(r) : r[j] = awaited
    BY DEF AwaitedIsLast
  <2>1. i + 1 \in 1..Len(q) /\ q[i + 1] \in cleared
    BY <1>1
  <2>2. PICK j \in (i + 1)..Len(q) : q[j] = awaited
    BY <2>1 DEF AwaitedIsLast
  <2>3. j - 1 \in i..Len(r) /\ r[j - 1] = q[j]
    BY <1>1
  <2> QED BY <2>2, <2>3
<1> QED BY <1>2, <1>3 DEF r

LEMMA OrderAppend ==
  ASSUME NEW q \in Seq(Messages), InOrder(q)', AwaitedIsLast(q), NEW m \in Messages,
         UNCHANGED stopVars, m \notin cleared,
         \A i \in 1..Len(q) : FirstRun(m)' => PositionOf(q[i])' < PositionOf(m)'
  PROVE  InOrder(Append(q, m))' /\ AwaitedIsLast(Append(q, m))'
<1> DEFINE r == Append(q, m)
<1>1. /\ Len(q) \in Nat /\ Len(r) = Len(q) + 1 /\ r[Len(q) + 1] = m
      /\ \A i \in 1..Len(q) : r[i] = q[i]
  OBVIOUS
<1> HIDE DEF r
<1>2. InOrder(r)'
  <2> SUFFICES ASSUME NEW i \in 1..Len(r), NEW j \in 1..Len(r),
                      i < j /\ FirstRun(r[i])' /\ FirstRun(r[j])'
               PROVE  PositionOf(r[i])' < PositionOf(r[j])'
    BY DEF InOrder
  <2>1. i \in 1..Len(q) /\ r[i] = q[i]
    BY <1>1
  <2>2. CASE j = Len(q) + 1
    <3>1. r[j] = m
      BY <1>1, <2>2
    <3>2. FirstRun(m)' => PositionOf(q[i])' < PositionOf(m)'
      BY <2>1
    <3> QED BY <2>1, <3>1, <3>2
  <2>3. CASE j # Len(q) + 1
    <3>1. j \in 1..Len(q) /\ r[j] = q[j]
      BY <1>1, <2>3
    <3> QED BY <2>1, <3>1 DEF InOrder
  <2> QED BY <2>2, <2>3
<1>3. AwaitedIsLast(r)'
  <2> SUFFICES ASSUME spc' = "awaiting", NEW i \in 1..Len(r), r[i] \in cleared'
               PROVE  \E j \in i..Len(r) : r[j] = awaited'
    BY DEF AwaitedIsLast
  <2>1. spc = "awaiting" /\ cleared' = cleared /\ awaited' = awaited
    BY DEF stopVars
  <2>2. i \in 1..Len(q) /\ q[i] \in cleared
    BY <1>1, <2>1
  <2>3. PICK j \in i..Len(q) : q[j] = awaited
    BY <2>1, <2>2 DEF AwaitedIsLast
  <2>4. j \in i..Len(r) /\ r[j] = q[j]
    BY <1>1, <2>2
  <2> QED BY <2>1, <2>3, <2>4
<1> QED BY <1>2, <1>3 DEF r

LEMMA TaskStepChain ==
  ASSUME ReplyInv, Types', NEW m \in Messages, TaskStep(m)
  PROVE  ChainInv'
<1> SUFFICES ASSUME spc' # "stopped"
             PROVE  \E r \in Seq(Messages) : IsChain(r)' /\ AwaitedIsLast(r)' /\ InOrder(r)'
  BY DEF ChainInv
<1>1. Types /\ TaskOk(m) /\ TaskInv
  BY DEF ReplyInv, TaskInv
<1>2. UNCHANGED stopVars /\ UNCHANGED entered
  BY <1>1, TaskStepOthers
<1>3. PICK q \in Seq(Messages) : IsChain(q) /\ AwaitedIsLast(q) /\ InOrder(q)
  BY <1>2 DEF ReplyInv, ChainInv, stopVars
<1>4. \A k \in Messages : FirstRun(k)' => FirstRun(k)
  BY <1>1, TaskStepFirstRun
<1>5. \A k : PositionOf(k)' = PositionOf(k)
  BY <1>2, PositionSame
<1>6. InOrder(q)'
  BY <1>3, <1>4, <1>5, OrderSame
<1>7. \A r : AwaitedIsLast(r) => AwaitedIsLast(r)'
  BY <1>2 DEF AwaitedIsLast, stopVars
<1>8. CASE InFlight(m) /\ after[m] = None /\ Settle(m)
  <2>1. q # <<>> /\ IsChain(Tail(q))'
    BY <1>1, <1>3, <1>8, ChainTail, FirstOfChain
  <2>2. Tail(q) \in Seq(Messages)
    BY <2>1, TailFacts
  <2>3. InOrder(Tail(q)) /\ AwaitedIsLast(Tail(q))
    BY <1>3, <2>1, OrderTail
  <2>4. InOrder(Tail(q))'
    BY <1>4, <1>5, <2>2, <2>3, OrderSame
  <2> QED BY <1>7, <2>1, <2>2, <2>3, <2>4
<1>9. CASE InFlight(m) /\ \E l \in {"check", "complete", "recheck", "post", "notice"} :
                           StayInFlight(m, l)
  <2>1. UNCHANGED <<after, last>> /\ \A k \in Messages : InFlight(k)' <=> InFlight(k)
    BY <1>1, <1>9 DEF StayInFlight, InFlight, Types
  <2> QED BY <1>3, <1>6, <1>7, <2>1, ChainSame
<1>10. CASE ~InFlight(m) /\ m \in queued /\ retries[m] > 0 /\ retries' = retries /\ ChainFlight(m)
  <2>1. IsChain(Append(q, m))'
    BY <1>1, <1>3, <1>10, ChainAppend
  <2>2. ~FirstRun(m)'
    BY <1>10 DEF FirstRun
  <2>3. m \notin cleared
    BY <1>10 DEF ReplyInv, QueueInv, StopInv
  <2>4. InOrder(Append(q, m))' /\ AwaitedIsLast(Append(q, m))'
    BY <1>2, <1>3, <1>6, <2>2, <2>3, OrderAppend
  <2>5. Append(q, m) \in Seq(Messages)
    OBVIOUS
  <2> QED BY <2>1, <2>4, <2>5
<1>11. CASE UNCHANGED flightVars
  <2>1. UNCHANGED <<after, last>> /\ \A k \in Messages : InFlight(k)' <=> InFlight(k)
    BY <1>11 DEF flightVars, InFlight
  <2> QED BY <1>3, <1>6, <1>7, <2>1, ChainSame
<1> QED BY <1>1, <1>8, <1>9, <1>10, <1>11, TaskStepFlight

\* What the handler hands over is the first run of the latest message.
LEMMA EnqueueFirstRun ==
  ASSUME Types, NEW m \in Messages, retries' = [retries EXCEPT ![m] = 0], ChainFlight(m),
         NEW k \in Messages, k # m
  PROVE  FirstRun(k)' <=> FirstRun(k)
  BY DEF FirstRun, ChainFlight, Types

LEMMA IngestChain ==
  ASSUME ReplyInv, Types', NEW d \in Deliveries, IngestStep(d) \/ IngestFails(d)
  PROVE  ChainInv'
<1> SUFFICES ASSUME spc' # "stopped"
             PROVE  \E r \in Seq(Messages) : IsChain(r)' /\ AwaitedIsLast(r)' /\ InOrder(r)'
  BY DEF ChainInv
<1>1. Types /\ CountedOnce /\ EnteredOnce /\ TaskInv /\ d[1] \in Messages
  BY DeliveryType DEF ReplyInv, IngestInv
<1>2. UNCHANGED stopVars
  BY <1>1, IngestQueue
<1>3. PICK q \in Seq(Messages) : IsChain(q) /\ AwaitedIsLast(q) /\ InOrder(q)
  BY <1>2 DEF ReplyInv, ChainInv, stopVars
<1>4. CASE UNCHANGED <<taskVars, flightVars, entered>>
  <2>1. UNCHANGED <<after, last>> /\ \A k \in Messages : InFlight(k)' <=> InFlight(k)
    BY <1>4 DEF flightVars, InFlight
  <2>2. \A k \in Messages : FirstRun(k)' => FirstRun(k)
    BY <1>4 DEF flightVars, taskVars, FirstRun
  <2>3. \A k : PositionOf(k)' = PositionOf(k)
    BY <1>4, PositionSame
  <2>4. InOrder(q)'
    BY <1>3, <2>2, <2>3, OrderSame
  <2>5. AwaitedIsLast(q)'
    BY <1>2, <1>3 DEF AwaitedIsLast, stopVars
  <2> QED BY <1>3, <2>1, <2>4, <2>5, ChainSame
<1>5. ASSUME Enqueue(d[1]), d[1] \notin Entered
      PROVE  \E r \in Seq(Messages) : IsChain(r)' /\ AwaitedIsLast(r)' /\ InOrder(r)'
  <2> DEFINE m == d[1]
  <2>1. /\ retries' = [retries EXCEPT ![m] = 0] /\ ChainFlight(m)
        /\ entered' = Append(entered, m) /\ NotYet(m)
    BY <1>1, <1>5, EnqueueNew DEF TaskInv
  <2>2. ~InFlight(m)
    BY <2>1 DEF NotYet, InFlight
  <2>3. IsChain(Append(q, m))'
    BY <1>1, <1>3, <2>1, <2>2, ChainAppend
  <2>4. /\ \A k \in Entered : PositionOf(k)' = PositionOf(k) /\ PositionOf(k) \in 1..Len(entered)
        /\ PositionOf(m)' = Len(entered) + 1 /\ Len(entered) \in Nat
    BY <1>1, <1>5, <2>1, PositionStep
  <2>5. \A i \in 1..Len(q) : q[i] \in Entered /\ q[i] \in Messages /\ q[i] # m
    BY <1>1, <1>3, <1>5, ChainMembers
  <2>6. InOrder(q)'
    <3> SUFFICES ASSUME NEW i \in 1..Len(q), NEW j \in 1..Len(q),
                        i < j /\ FirstRun(q[i])' /\ FirstRun(q[j])'
                 PROVE  PositionOf(q[i])' < PositionOf(q[j])'
      BY DEF InOrder
    <3>1. FirstRun(q[i]) /\ FirstRun(q[j])
      BY <1>1, <2>1, <2>5, EnqueueFirstRun
    <3>2. PositionOf(q[i]) < PositionOf(q[j])
      BY <1>3, <3>1 DEF InOrder
    <3> QED BY <2>4, <2>5, <3>2
  <2>7. \A i \in 1..Len(q) : PositionOf(q[i])' < PositionOf(m)'
    BY <2>4, <2>5
  <2>8. m \notin cleared
    BY <1>5 DEF ReplyInv, QueueInv, StopInv
  <2>9. InOrder(Append(q, m))' /\ AwaitedIsLast(Append(q, m))'
    BY <1>1, <1>2, <1>3, <2>6, <2>7, <2>8, OrderAppend
  <2>10. Append(q, m) \in Seq(Messages)
    BY <1>1
  <2> QED BY <2>3, <2>9, <2>10
<1> QED BY <1>1, <1>4, <1>5, IngestQueue

LEMMA StopChain ==
  ASSUME ReplyInv, Types', WatchEnds \/ StopBegin \/ StopEnd \/ AtRest \/ UNCHANGED vars
  PROVE  ChainInv'
<1> SUFFICES ASSUME spc' # "stopped"
             PROVE  \E r \in Seq(Messages) : IsChain(r)' /\ AwaitedIsLast(r)' /\ InOrder(r)'
  BY DEF ChainInv
<1> USE DEF QueueUntouched, taskVars, flightVars, ingestVars, stopVars, historyVars, vars
<1>1. UNCHANGED <<fpc, after, last, retries, entered>> /\ spc # "stopped"
  BY DEF WatchEnds, StopBegin, StopEnd, AtRest
<1>2. PICK q \in Seq(Messages) : IsChain(q) /\ AwaitedIsLast(q) /\ InOrder(q)
  BY <1>1 DEF ReplyInv, ChainInv
<1>3. IsChain(q)'
  BY <1>1, <1>2, ChainSame DEF InFlight
<1>4. InOrder(q)'
  <2>1. \A k \in Messages : FirstRun(k)' => FirstRun(k)
    BY <1>1 DEF FirstRun
  <2>2. \A k : PositionOf(k)' = PositionOf(k)
    BY <1>1, PositionSame
  <2> QED BY <1>2, <2>1, <2>2, OrderSame
<1>5. AwaitedIsLast(q)'
  <2>1. CASE StopBegin
    <3>1. awaited' = last
      BY <2>1 DEF StopBegin
    <3>2. ASSUME NEW i \in 1..Len(q) PROVE Len(q) \in i..Len(q) /\ q[Len(q)] = last
      <4>1. q # <<>>
        OBVIOUS
      <4> QED BY <1>2, <4>1 DEF IsChain
    <3> QED BY <3>1, <3>2 DEF AwaitedIsLast
  <2>2. CASE ~StopBegin
    <3>1. UNCHANGED <<spc, awaited, cleared>>
      BY <2>2 DEF WatchEnds, StopEnd, AtRest
    <3> QED BY <1>2, <3>1 DEF AwaitedIsLast
  <2> QED BY <2>1, <2>2
<1> QED BY <1>3, <1>4, <1>5

LEMMA NextChain ==
  ASSUME ReplyInv, Types', [Next]_vars
  PROVE  ChainInv'
  BY TaskStepChain, IngestChain, StopChain DEF Next, TaskStep
-----------------------------------------------------------------------------
(* What follows from the chain: one flight runs at a time, replies are in   *)
(* order, and stop() waits for all it has dropped.                          *)

\* Two flights whose turn has come are the same.
LEMMA OneTurn ==
  ASSUME ReplyInv, spc # "stopped", NEW k \in Messages, NEW m \in Messages,
         Running(k), Running(m)
  PROVE  k = m
<1>1. PICK q \in Seq(Messages) : IsChain(q)
  BY DEF ReplyInv, ChainInv
<1>2. InFlight(k) /\ after[k] = None /\ InFlight(m) /\ after[m] = None
  BY DEF ReplyInv, TaskInv, TaskOk, Running, InFlight
<1>3. q[1] = k /\ q[1] = m
  BY <1>1, <1>2, FirstOfChain DEF ReplyInv
<1> QED BY <1>3

\* The flight whose turn has come is due before every other first run.
LEMMA TurnIsNext ==
  ASSUME ReplyInv, spc # "stopped", NEW m \in Messages, NEW k \in Messages, k # m,
         Running(m), FirstRun(m), FirstRun(k)
  PROVE  PositionOf(m) < PositionOf(k)
<1>1. PICK q \in Seq(Messages) : IsChain(q) /\ InOrder(q)
  BY DEF ReplyInv, ChainInv
<1>2. InFlight(m) /\ after[m] = None /\ InFlight(k)
  BY DEF ReplyInv, TaskInv, TaskOk, Running, InFlight, FirstRun
<1>3. q[1] = m /\ q # <<>>
  BY <1>1, <1>2, FirstOfChain DEF ReplyInv
<1>4. PICK i \in 1..Len(q) : q[i] = k
  BY <1>1, <1>2 DEF IsChain
<1>5. 1 < i /\ 1 \in 1..Len(q)
  BY <1>3, <1>4
<1> QED BY <1>1, <1>3, <1>4, <1>5 DEF InOrder

LEMMA TaskStepStop ==
  ASSUME ReplyInv, Types', NEW m \in Messages, TaskStep(m)
  PROVE  StopInv'
<1>1. Types /\ TaskOk(m) /\ StopInv
  BY DEF ReplyInv, TaskInv, QueueInv
<1>2. UNCHANGED stopVars /\ Entered' = Entered
  BY <1>1, TaskStepOthers DEF Entered
<1>3. queued' \subseteq queued
  <2> SUFFICES ASSUME NEW k \in queued' PROVE k \in queued
    OBVIOUS
  <2>1. k \in Messages
    BY DEF Types
  <2>2. CASE k # m
    BY <1>1, <2>1, <2>2, TaskStepOthers
  <2>3. CASE k = m
    <3>1. ASSUME Running(m), HandleFailure(m) PROVE m \in queued' => m \in queued
      BY <1>1, <3>1, FailureTask DEF RunEnds, NoTaskChange, taskVars
    <3>2. CASE Begin(m) \/ Complete(m) \/ TimerFires(m)
      BY <2>3, <3>2 DEF Begin, Complete, TimerFires, NoTaskChange, taskVars
    <3>3. CASE CheckWatch(m, "check", "complete") \/ CheckWatch(m, "recheck", "post") \/ Post(m)
      BY <2>3, <3>3 DEF CheckWatch, Post, Cleanup, NoTaskChange, taskVars
    <3>4. CASE Notice(m)
      BY <1>1, <2>3, <3>4 DEF Notice, Reschedule, Cleanup
    <3>5. CASE CompleteTimesOut(m) \/ TaskFails(m)
      BY <2>3, <3>1, <3>5 DEF CompleteTimesOut, TaskFails, Running
    <3> QED BY <3>2, <3>3, <3>4, <3>5 DEF TaskStep, FlightStep
  <2> QED BY <2>2, <2>3
  \* While the queue runs, a flight of the chain has its task: one that is done
  \* with leaves both.
<1>4. ASSUME spc = "running", NEW k \in Messages, InFlight(k)'
      PROVE  k \in queued'
  <2>1. CASE k # m
    <3>1. InFlight(k)
      BY <1>1, <1>4, <2>1, TaskStepOthers, SettleOthers DEF InFlight, flightVars
    <3>2. k \in queued
      BY <1>1, <1>4, <3>1 DEF StopInv
    <3> QED BY <1>1, <2>1, <3>2, TaskStepOthers
  <2>2. CASE k = m
    <3>1. CASE Settle(m)
      BY <1>1, <1>4, <2>2, <3>1 DEF Settle, InFlight, Types
    <3>2. CASE ~Settle(m)
      <4>1. CASE TimerFires(m)
        <5>1. m \in queued
          BY <1>1, <1>4, <2>2, <4>1 DEF TimerFires, TaskOk, InFlight, flightVars
        <5> QED BY <2>2, <4>1, <5>1 DEF TimerFires
      <4>2. CASE ~TimerFires(m)
        <5>1. InFlight(m)
          BY <3>2, <4>2 DEF TaskStep, FlightStep, Begin, CheckWatch, Complete, Post, Notice,
                CompleteTimesOut, TaskFails, InFlight
        <5>2. m \in queued
          BY <1>1, <1>4, <5>1 DEF StopInv
        <5>3. queued' = queued
          <6>1. ASSUME Running(m), HandleFailure(m) PROVE queued' = queued
            BY <1>1, <3>2, <6>1, FailureTask DEF RunEnds, NoTaskChange, taskVars
          <6>2. CASE CompleteTimesOut(m) \/ TaskFails(m)
            BY <6>1, <6>2 DEF CompleteTimesOut, TaskFails, Running
          <6>3. CASE ~CompleteTimesOut(m) /\ ~TaskFails(m)
            BY <3>2, <4>2, <6>3 DEF TaskStep, FlightStep, Begin, CheckWatch, Complete, Post, Notice,
                  Reschedule, NoTaskChange, taskVars
          <6> QED BY <6>2, <6>3
        <5> QED BY <2>2, <5>2, <5>3
      <4> QED BY <4>1, <4>2
    <3> QED BY <3>1, <3>2
  <2> QED BY <2>1, <2>2
<1>5. StopDrainsOldTasks'
  <2> SUFFICES ASSUME spc' = "stopped", NEW k \in cleared' PROVE ~InFlight(k)'
    BY DEF StopDrainsOldTasks
  <2>1. spc = "stopped" /\ k \in cleared /\ k \in Messages /\ ~InFlight(k)
    BY <1>1, <1>2 DEF StopInv, StopDrainsOldTasks, stopVars, Types
  <2>2. k \notin queued
    BY <1>1, <2>1 DEF StopInv
  <2>3. CASE k # m
    BY <1>1, <2>1, <2>3, TaskStepOthers, SettleOthers DEF InFlight, flightVars
  <2>4. CASE k = m
    <3>1. UNCHANGED flightVars
      BY <1>1, <2>1, <2>2, <2>4, TaskStepFlight
    <3> QED BY <2>1, <3>1 DEF flightVars, InFlight
  <2> QED BY <2>3, <2>4
<1>6. cleared' \cap queued' = {} /\ cleared' \subseteq Entered'
  BY <1>1, <1>2, <1>3 DEF StopInv, stopVars
<1>7. spc' = "running" => cleared' = {} /\ \A k \in Messages : InFlight(k)' => k \in queued'
  BY <1>1, <1>2, <1>4 DEF StopInv, stopVars
<1>8. spc' = "awaiting" => awaited' \in cleared'
  BY <1>1, <1>2 DEF StopInv, stopVars
<1> QED BY <1>5, <1>6, <1>7, <1>8 DEF StopInv

LEMMA IngestStop ==
  ASSUME ReplyInv, Types', NEW d \in Deliveries, IngestStep(d) \/ IngestFails(d)
  PROVE  StopInv'
<1>1. Types /\ CountedOnce /\ TaskInv /\ d[1] \in Messages /\ StopInv
  BY DeliveryType DEF ReplyInv, IngestInv, QueueInv
<1>2. UNCHANGED <<spc, awaited, cleared>>
  BY <1>1, IngestQueue DEF stopVars
<1>3. CASE UNCHANGED <<taskVars, flightVars, entered>>
  <2>1. UNCHANGED <<fpc, queued, entered>> /\ Entered' = Entered
    BY <1>3 DEF taskVars, flightVars, Entered
  <2> QED BY <1>1, <1>2, <2>1 DEF StopInv, StopDrainsOldTasks, InFlight
<1>4. ASSUME Enqueue(d[1]), d[1] \notin Entered
      PROVE  StopInv'
  <2> DEFINE m == d[1]
  <2>1. queued' = queued \cup {m} /\ ChainFlight(m) /\ entered' = Append(entered, m)
    BY <1>1, <1>4, EnqueueNew DEF TaskInv
  <2>2. Entered' = Entered \cup {m}
    BY <1>1, <2>1, EnteredStep
  <2>3. \A k \in Messages : InFlight(k)' <=> InFlight(k) \/ k = m
    BY <1>1, <2>1 DEF ChainFlight, InFlight, Types
  <2>4. m \notin cleared /\ cleared \subseteq Messages
    BY <1>1, <1>4 DEF StopInv, Types
  <2> HIDE DEF m
  <2>5. spc' = "running" => cleared' = {} /\ \A k \in Messages : InFlight(k)' => k \in queued'
    BY <1>1, <1>2, <2>1, <2>3 DEF StopInv
  <2>6. StopDrainsOldTasks'
    BY <1>1, <1>2, <2>3, <2>4 DEF StopInv, StopDrainsOldTasks
  <2>7. cleared' \cap queued' = {} /\ cleared' \subseteq Entered'
    BY <1>1, <1>2, <2>1, <2>2, <2>4 DEF StopInv
  <2> QED BY <1>1, <1>2, <2>5, <2>6, <2>7 DEF StopInv
<1> QED BY <1>1, <1>3, <1>4, IngestQueue

LEMMA StopStop ==
  ASSUME ReplyInv, Types', WatchEnds \/ StopBegin \/ StopEnd \/ AtRest \/ UNCHANGED vars
  PROVE  StopInv'
<1> USE DEF QueueUntouched, taskVars, flightVars, ingestVars, stopVars, historyVars, vars
<1>1. Types /\ TaskInv /\ StopInv
  BY DEF ReplyInv, QueueInv
<1>2. CASE StopBegin
  <2>1. /\ spc = "running" /\ spc' = IF last = None THEN "stopped" ELSE "awaiting"
        /\ queued' = {} /\ awaited' = last /\ cleared' = queued /\ fpc' = fpc /\ entered' = entered
    BY <1>2 DEF StopBegin
  <2>2. PICK q \in Seq(Messages) : IsChain(q)
    BY <2>1 DEF ReplyInv, ChainInv
  <2>3. Entered' = Entered
    BY <2>1 DEF Entered
  <2>4. queued \subseteq Entered
    BY <1>1 DEF TaskInv, TaskOk, NotYet, Types
  <2>5. last # None => last \in queued
    <3>1. last # None => q # <<>> /\ last = q[Len(q)] /\ Len(q) \in 1..Len(q)
      BY <2>2 DEF IsChain
    <3>2. last # None => InFlight(last)
      BY <1>1, <2>2, <3>1, ChainMembers
    <3> QED BY <1>1, <2>1, <3>2 DEF StopInv, Types
  <2>6. last = None => \A k \in Messages : ~InFlight(k)
    <3>1. last = None => q = <<>>
      <4>1. q # <<>> => Len(q) \in 1..Len(q) /\ last = q[Len(q)]
        BY <2>2 DEF IsChain
      <4>2. q # <<>> => last \in Messages
        BY <4>1
      <4> QED BY <4>2, LiveReplyAssumption
    <3>2. q = <<>> => \A i \in 1..Len(q) : FALSE
      OBVIOUS
    <3> QED BY <2>2, <3>1, <3>2 DEF IsChain
  <2>7. StopDrainsOldTasks'
    BY <1>1, <2>1, <2>6 DEF StopDrainsOldTasks, InFlight, Types
  <2> QED BY <2>1, <2>3, <2>4, <2>5, <2>7 DEF StopInv
<1>3. CASE StopEnd
  <2>1. /\ spc = "awaiting" /\ ~InFlight(awaited) /\ spc' = "stopped"
        /\ UNCHANGED <<fpc, queued, cleared, entered>>
    BY <1>3 DEF StopEnd
  <2>2. PICK q \in Seq(Messages) : IsChain(q) /\ AwaitedIsLast(q)
    BY <2>1 DEF ReplyInv, ChainInv
  <2>3. ASSUME NEW k \in cleared PROVE ~InFlight(k)
    <3>1. SUFFICES ASSUME InFlight(k) PROVE FALSE
      OBVIOUS
    <3>2. PICK i \in 1..Len(q) : q[i] = k
      BY <1>1, <2>2, <3>1 DEF IsChain, Types
    <3>3. PICK j \in i..Len(q) : q[j] = awaited
      BY <2>1, <2>2, <3>2 DEF AwaitedIsLast
    <3>4. j \in 1..Len(q)
      BY <3>2, <3>3
    <3> QED BY <1>1, <2>1, <2>2, <3>3, <3>4, ChainMembers
  <2>4. Entered' = Entered
    BY <2>1 DEF Entered
  <2> QED BY <1>1, <2>1, <2>3, <2>4 DEF StopInv, StopDrainsOldTasks, InFlight
<1>4. CASE WatchEnds \/ AtRest \/ UNCHANGED vars
  <2>1. UNCHANGED <<spc, cleared, queued, fpc, awaited, entered>>
    BY <1>4 DEF WatchEnds, AtRest
  <2>2. Entered' = Entered
    BY <2>1 DEF Entered
  <2> QED BY <1>1, <2>1, <2>2 DEF StopInv, StopDrainsOldTasks, InFlight
<1> QED BY <1>2, <1>3, <1>4

LEMMA NextStop == ASSUME ReplyInv, Types', [Next]_vars PROVE StopInv'
  BY TaskStepStop, IngestStop, StopStop DEF Next, TaskStep

LEMMA NextLate ==
  ASSUME ReplyInv, Types', [Next]_vars
  PROVE  LateInv'
<1> USE DEF QueueUntouched, taskVars, flightVars, ingestVars, stopVars, historyVars, vars
<1>1. Types /\ TaskInv /\ LateInv /\ CountedOnce
  BY DEF ReplyInv, QueueInv, IngestInv
<1>2. ASSUME NEW m \in Messages, TaskStep(m)
      PROVE  LateInv'
  <2>1. TaskOk(m) /\ watch' = watch /\ spc' = spc
    BY <1>1, <1>2, TaskStepOthers DEF TaskInv
  <2>2. CASE UNCHANGED <<answered, late>>
    <3>1. ASSUME NEW k \in Messages, late' = 1, spc # "stopped" PROVE fpc'[k] # "post"
      BY <1>1, <1>2, <2>1, <2>2, <3>1, TaskStepPost DEF LateInv
    <3> QED BY <1>1, <2>1, <2>2, <3>1 DEF LateInv
  <2>3. CASE Reply(m) /\ fpc[m] = "post" /\ fpc'[m] \in {"none", "notice"}
    <3>1. late \in Nat /\ late' = IF watch = "ON" THEN late ELSE late + 1
      BY <1>1, <2>3 DEF Reply, Types
    <3>2. spc # "stopped" => late = 0
      BY <1>1, <2>3, <3>1 DEF LateInv
    <3>3. ASSUME NEW k \in Messages, spc # "stopped", late' = 1 PROVE fpc'[k] # "post"
      <4>1. CASE k = m
        BY <2>3, <4>1
      <4>2. CASE k # m
        <5>1. Running(m) /\ ~Running(k)
          BY <2>3, <3>3, <4>2, OneTurn DEF Running
        <5>2. fpc'[k] = fpc[k]
          BY <1>1, <1>2, <2>1, <4>2, TaskStepOthers, SettleOthers
        <5> QED BY <5>1, <5>2 DEF Running
      <4> QED BY <4>1, <4>2
    <3>4. watch' = "ON" => late' = 0
      BY <1>1, <2>1, <3>1 DEF LateInv
    <3>5. spc' # "stopped" => late' <= 1
      BY <2>1, <3>1, <3>2
    <3> QED BY <2>1, <3>3, <3>4, <3>5 DEF LateInv
  <2> QED BY <1>1, <1>2, <2>1, <2>2, <2>3, TaskStepReply
<1>3. ASSUME NEW d \in Deliveries, IngestStep(d) \/ IngestFails(d)
      PROVE  LateInv'
  <2>1. UNCHANGED <<watch, spc, late>>
    BY <1>1, <1>3, IngestQueue
  <2>2. \A k \in Messages : fpc'[k] = "post" => fpc[k] = "post"
    <3>1. CASE UNCHANGED fpc
      BY <3>1
    <3>2. CASE Enqueue(d[1]) /\ d[1] \notin Entered
      <4>1. d[1] \in Messages
        BY DeliveryType
      <4>2. ChainFlight(d[1])
        BY <1>1, <3>2, <4>1, EnqueueNew DEF TaskInv
      <4> QED BY <1>1, <4>1, <4>2 DEF ChainFlight, Types
    <3> QED BY <1>1, <1>3, <3>1, <3>2, IngestQueue
  <2> QED BY <1>1, <2>1, <2>2 DEF LateInv
<1>4. CASE WatchEnds \/ StopBegin \/ StopEnd \/ AtRest \/ UNCHANGED vars
  <2>1. /\ UNCHANGED <<fpc, late>> /\ (watch' = "ON" => watch = "ON")
        /\ spc' # "stopped" => spc # "stopped"
    BY <1>4 DEF WatchEnds, StopBegin, StopEnd, AtRest
  <2> QED BY <1>1, <2>1 DEF LateInv
<1> QED BY <1>2, <1>3, <1>4 DEF Next, TaskStep

LEMMA AnsweredStep ==
  ASSUME Types, NEW m \in Messages, answered' = Append(answered, m)
  PROVE  /\ Len(answered) \in Nat /\ Len(answered') = Len(answered) + 1
         /\ \A i \in 1..Len(answered) : answered'[i] = answered[i]
         /\ answered'[Len(answered) + 1] = m
  BY DEF Types

LEMMA TaskStepOrder ==
  ASSUME ReplyInv, Types', NEW m \in Messages, TaskStep(m)
  PROVE  OrderInv'
<1>1. Types /\ TaskOk(m) /\ OrderInv
  BY DEF ReplyInv, TaskInv, QueueInv
<1>2. Entered' = Entered /\ spc' = spc /\ \A k : PositionOf(k)' = PositionOf(k)
  BY <1>1, TaskStepOthers, PositionSame DEF Entered, stopVars
<1>3. \A i \in 1..Len(answered) : answered[i] \in Messages
  BY <1>1 DEF Types
<1>4. \A k \in Messages : attempts[k] > 0 => attempts'[k] > 0 /\ (attempts'[k] = 1 => attempts[k] = 1)
  BY <1>1, TaskStepAttempts
<1>5. \A k \in Messages : FirstRun(k)' => FirstRun(k)
  BY <1>1, TaskStepFirstRun
<1>6. CASE UNCHANGED <<answered, late>>
  <2>1. \A i \in 1..Len(answered) : answered[i] \in Entered' /\ attempts'[answered[i]] > 0
    BY <1>1, <1>2, <1>3, <1>4 DEF OrderInv
  <2>2. \A i \in 1..Len(answered) : attempts'[answered[i]] = 1 => attempts[answered[i]] = 1
    BY <1>1, <1>3, <1>4 DEF OrderInv
  <2>3. AnswersFirst'
    BY <1>1, <1>2, <1>5, <1>6, <2>2 DEF OrderInv, AnswersFirst
  <2>4. RepliesInOrder'
    BY <1>1, <1>2, <1>6, <2>2 DEF OrderInv, RepliesInOrder
  <2> QED BY <1>6, <2>1, <2>3, <2>4 DEF OrderInv
<1>7. CASE Reply(m) /\ fpc[m] = "post" /\ attempts' = attempts /\ fpc'[m] \in {"none", "notice"}
  <2>1. answered' = Append(answered, m)
    BY <1>7 DEF Reply
  <2>2. /\ Len(answered) \in Nat /\ Len(answered') = Len(answered) + 1
        /\ \A i \in 1..Len(answered) : answered'[i] = answered[i]
        /\ answered'[Len(answered) + 1] = m
    BY <1>1, <2>1, AnsweredStep
  <2>3. m \in Entered /\ Running(m) /\ attempts[m] = retries[m] + 1
    BY <1>1, <1>7 DEF TaskOk, NotYet, EffortSoFar, Running
  <2>4. attempts[m] > 0 /\ (attempts[m] = 1 => FirstRun(m))
    BY <1>1, <1>7, <2>3, EffortTypes DEF FirstRun
  <2>5. \A i \in 1..Len(answered') : answered'[i] \in Entered' /\ attempts'[answered'[i]] > 0
    <3> SUFFICES ASSUME NEW i \in 1..Len(answered')
                 PROVE  answered'[i] \in Entered' /\ attempts'[answered'[i]] > 0
      OBVIOUS
    <3>1. CASE i \in 1..Len(answered)
      BY <1>1, <1>2, <1>7, <2>2, <3>1 DEF OrderInv
    <3>2. CASE i = Len(answered) + 1
      BY <1>2, <1>7, <2>2, <2>3, <2>4, <3>2
    <3> QED BY <2>2, <3>1, <3>2
  <2>6. AnswersFirst'
    <3> SUFFICES ASSUME spc # "stopped", NEW i \in 1..Len(answered'), NEW k \in Messages,
                        attempts'[answered'[i]] = 1, FirstRun(k)'
                 PROVE  PositionOf(answered[i])' < PositionOf(k)'
      BY <1>2 DEF AnswersFirst
    <3>1. CASE i \in 1..Len(answered)
      <4>1. answered'[i] = answered[i] /\ attempts[answered[i]] = 1 /\ FirstRun(k)
        BY <1>5, <1>7, <2>2, <3>1
      <4>2. PositionOf(answered[i]) < PositionOf(k)
        BY <1>1, <3>1, <4>1 DEF OrderInv, AnswersFirst
      <4> QED BY <1>2, <4>1, <4>2
    <3>2. CASE i = Len(answered) + 1
      <4>1. k # m
        BY <1>7 DEF FirstRun
      <4>2. PositionOf(m) < PositionOf(k)
        BY <1>5, <1>7, <2>2, <2>3, <2>4, <3>2, <4>1, TurnIsNext
      <4> QED BY <1>2, <2>2, <3>2, <4>2
    <3> QED BY <2>2, <3>1, <3>2
  <2>7. RepliesInOrder'
    <3> SUFFICES ASSUME spc # "stopped", NEW i \in 1..Len(answered'), NEW j \in 1..Len(answered'),
                        i < j, attempts'[answered'[i]] = 1, attempts'[answered'[j]] = 1
                 PROVE  PositionOf(answered[i])' < PositionOf(answered[j])'
      BY <1>2 DEF RepliesInOrder
    <3>1. i \in 1..Len(answered) /\ answered'[i] = answered[i] /\ attempts[answered[i]] = 1
      BY <1>7, <2>2
    <3>2. CASE j \in 1..Len(answered)
      BY <1>1, <1>2, <1>7, <2>2, <3>1, <3>2 DEF OrderInv, RepliesInOrder
    <3>3. CASE j = Len(answered) + 1
      <4>1. FirstRun(m)
        BY <1>7, <2>2, <2>4, <3>3
      <4>2. PositionOf(answered[i]) < PositionOf(m)
        BY <1>1, <3>1, <4>1 DEF OrderInv, AnswersFirst
      <4> QED BY <1>2, <2>2, <3>1, <3>3, <4>2
    <3> QED BY <2>2, <3>2, <3>3
  <2> QED BY <2>5, <2>6, <2>7 DEF OrderInv
<1> QED BY <1>1, <1>6, <1>7, TaskStepReply

LEMMA IngestOrder ==
  ASSUME ReplyInv, Types', NEW d \in Deliveries, IngestStep(d) \/ IngestFails(d)
  PROVE  OrderInv'
<1>1. Types /\ CountedOnce /\ EnteredOnce /\ TaskInv /\ OrderInv /\ d[1] \in Messages
  BY DeliveryType DEF ReplyInv, IngestInv, QueueInv
<1>2. UNCHANGED <<spc, answered, attempts>>
  BY <1>1, IngestQueue DEF stopVars
<1>3. CASE UNCHANGED <<taskVars, flightVars, entered>>
  <2>1. Entered' = Entered /\ \A k : PositionOf(k)' = PositionOf(k)
    BY <1>3, PositionSame DEF Entered
  <2>2. \A k \in Messages : FirstRun(k)' => FirstRun(k)
    BY <1>3 DEF flightVars, taskVars, FirstRun
  <2> QED BY <1>1, <1>2, <2>1, <2>2 DEF OrderInv, AnswersFirst, RepliesInOrder
<1>4. ASSUME Enqueue(d[1]), d[1] \notin Entered
      PROVE  OrderInv'
  <2> DEFINE m == d[1]
  <2>1. /\ retries' = [retries EXCEPT ![m] = 0] /\ ChainFlight(m)
        /\ entered' = Append(entered, m)
    BY <1>1, <1>4, EnqueueNew DEF TaskInv
  <2>2. /\ \A k \in Entered : PositionOf(k)' = PositionOf(k) /\ PositionOf(k) \in 1..Len(entered)
        /\ PositionOf(m)' = Len(entered) + 1 /\ Len(entered) \in Nat /\ Entered' = Entered \cup {m}
    BY <1>1, <1>4, <2>1, PositionStep, EnteredStep
  <2>3. \A i \in 1..Len(answered) : answered[i] \in Entered /\ attempts[answered[i]] > 0
    BY <1>1 DEF OrderInv
  <2>4. \A k \in Messages : k # m /\ FirstRun(k)' => FirstRun(k) /\ k \in Entered
    <3> SUFFICES ASSUME NEW k \in Messages, k # m, FirstRun(k)' PROVE FirstRun(k) /\ k \in Entered
      OBVIOUS
    <3>1. FirstRun(k)
      BY <1>1, <2>1, EnqueueFirstRun
    <3>2. fpc[k] # "none"
      BY <3>1 DEF FirstRun
    <3> QED BY <1>1, <3>1, <3>2 DEF TaskInv, TaskOk, NotYet
  <2> HIDE DEF m
  <2>5. AnswersFirst'
    <3> SUFFICES ASSUME spc # "stopped", NEW i \in 1..Len(answered), NEW k \in Messages,
                        attempts[answered[i]] = 1, FirstRun(k)'
                 PROVE  PositionOf(answered[i])' < PositionOf(k)'
      BY <1>2 DEF AnswersFirst
    <3>1. CASE k = m
      BY <1>2, <2>2, <2>3, <3>1
    <3>2. CASE k # m
      <4>1. FirstRun(k) /\ k \in Entered
        BY <2>4, <3>2
      <4>2. PositionOf(answered[i]) < PositionOf(k)
        BY <1>1, <4>1 DEF OrderInv, AnswersFirst
      <4> QED BY <1>2, <2>2, <2>3, <4>1, <4>2
    <3> QED BY <3>1, <3>2
  <2>6. RepliesInOrder'
    <3> SUFFICES ASSUME spc # "stopped", NEW i \in 1..Len(answered), NEW j \in 1..Len(answered),
                        i < j, attempts[answered[i]] = 1, attempts[answered[j]] = 1
                 PROVE  PositionOf(answered[i])' < PositionOf(answered[j])'
      BY <1>2 DEF RepliesInOrder
    <3>1. PositionOf(answered[i]) < PositionOf(answered[j])
      BY <1>1 DEF OrderInv, RepliesInOrder
    <3> QED BY <1>2, <2>2, <2>3, <3>1
  <2>7. \A i \in 1..Len(answered') : answered'[i] \in Entered' /\ attempts'[answered'[i]] > 0
    BY <1>2, <2>2, <2>3
  <2> QED BY <2>5, <2>6, <2>7 DEF OrderInv
<1> QED BY <1>1, <1>3, <1>4, IngestQueue

LEMMA StopOrder ==
  ASSUME ReplyInv, Types', WatchEnds \/ StopBegin \/ StopEnd \/ AtRest \/ UNCHANGED vars
  PROVE  OrderInv'
<1> USE DEF QueueUntouched, taskVars, flightVars, ingestVars, stopVars, historyVars, vars
<1>1. /\ UNCHANGED <<fpc, retries, entered, answered, attempts>>
      /\ spc' # "stopped" => spc # "stopped"
  BY DEF WatchEnds, StopBegin, StopEnd, AtRest
<1>2. Entered' = Entered /\ \A k : PositionOf(k)' = PositionOf(k)
  BY <1>1, PositionSame DEF Entered
<1>3. \A k : FirstRun(k)' <=> FirstRun(k)
  BY <1>1 DEF FirstRun
<1>4. OrderInv
  BY DEF ReplyInv, QueueInv
<1> QED BY <1>1, <1>2, <1>3, <1>4 DEF OrderInv, AnswersFirst, RepliesInOrder

LEMMA NextOrder == ASSUME ReplyInv, Types', [Next]_vars PROVE OrderInv'
  BY TaskStepOrder, IngestOrder, StopOrder DEF Next, TaskStep
-----------------------------------------------------------------------------
(* The invariant, and what follows from it.                                 *)

LEMMA NextIngest == ASSUME Types, IngestInv, [Next]_vars PROVE IngestInv'
<1> USE DEF ingestVars, historyVars, vars
<1>1. ASSUME NEW m \in Messages, FlightStep(m) \/ Complete(m) \/ TimerFires(m) \/ TaskFails(m)
      PROVE  UNCHANGED <<watch, stored, count, hpc, uncounted, entered>>
  BY <1>1 DEF FlightStep, Begin, CheckWatch, Complete, Post, Notice, CompleteTimesOut, TimerFires,
              TaskFails, TaskFrame
<1>2. CASE StopBegin \/ StopEnd \/ AtRest \/ UNCHANGED vars
  BY <1>2, OthersKeepIngest DEF StopBegin, StopEnd, AtRest
<1> QED BY <1>1, <1>2, IngestKeepsIngest, OthersKeepIngest DEF Next

LEMMA ReplyInit == Init => ReplyInv
<1> SUFFICES ASSUME Init PROVE ReplyInv
  OBVIOUS
<1>1. Types /\ IngestInv /\ TaskInv
  BY TypesInit, IngestInit, TaskInit
<1>2. QueueInv
  BY DEF Init, QueueInv, StopInv, StopDrainsOldTasks, LateInv, OrderInv, AnswersFirst,
         RepliesInOrder, InFlight
<1>3. ChainInv
  <2>1. <<>> \in Seq(Messages) /\ Len(<<>>) = 0
    OBVIOUS
  <2>2. IsChain(<<>>) /\ AwaitedIsLast(<<>>) /\ InOrder(<<>>)
    BY DEF Init, IsChain, AwaitedIsLast, InOrder, InFlight
  <2> QED BY <2>1, <2>2 DEF ChainInv
<1> QED BY <1>1, <1>2, <1>3 DEF ReplyInv

LEMMA ReplyNext == ReplyInv /\ [Next]_vars => ReplyInv'
<1> SUFFICES ASSUME ReplyInv, [Next]_vars PROVE ReplyInv'
  OBVIOUS
<1>1. Types /\ Types'
  BY NextTypes DEF ReplyInv
<1>2. IngestInv' /\ TaskInv'
  BY <1>1, NextIngest, NextTasks DEF ReplyInv, IngestInv
<1>3. QueueInv'
  BY <1>1, NextStop, NextLate, NextOrder DEF QueueInv
<1> QED BY <1>1, <1>2, <1>3, NextChain DEF ReplyInv

LEMMA ReplyInvariant == Spec => []ReplyInv
  BY ReplyInit, ReplyNext, PTL DEF Spec

\* message_count is never more than the stored messages, a task is never retried
\* more than MaxRetries times, and what is queued, running or awaited are tasks of
\* the thread.
THEOREM LiveReplyTypes == Spec => []TypeOK
<1>1. ReplyInv => TypeOK
  <2> SUFFICES ASSUME ReplyInv PROVE TypeOK
    OBVIOUS
  <2>1. Types /\ CountFits
    BY DEF ReplyInv, IngestInv
  <2>2. /\ Cardinality(stored) \in Nat /\ Cardinality(BeingCounted) \in Nat
        /\ Cardinality(stored) <= Cardinality(Messages) /\ Cardinality(Messages) \in Nat
    BY <2>1, FiniteCounts
  <2>3. count \in Nat
    BY <2>1 DEF Types
  <2>4. count <= Cardinality(Messages)
    BY <2>1, <2>2, <2>3 DEF CountFits
  <2>5. count \in 0..Cardinality(Messages)
    BY <2>2, <2>3, <2>4
  <2> QED BY <2>1, <2>5 DEF TypeOK, Types
<1> QED BY <1>1, ReplyInvariant, PTL

\* roomLiveReplyRetryQueue.ts: until stop() has returned, the session's tasks run
\* one at a time, their retries included, because every run is chained to the
\* flight registered before it and only the first of the chain may begin.
THEOREM OneTaskAtATime == Spec => []SingleFlightUntilStopped
<1>1. ReplyInv => SingleFlightUntilStopped
  BY OneTurn DEF SingleFlightUntilStopped
<1> QED BY <1>1, ReplyInvariant, PTL

\* No task of the queue is forgotten: as long as it is known, it has a flight or
\* an armed timer, whatever fails and whenever stop() comes.
THEOREM NoTaskIsStuck == Spec => []TaskHasDriver
<1>1. ReplyInv => TaskHasDriver
  BY DEF ReplyInv, TaskInv, TaskOk, TaskHasDriver, Types
<1> QED BY <1>1, ReplyInvariant, PTL

\* However often Slack delivers a message, OpenClaw is asked MaxRetries + 1 times
\* at most, one notice is posted, and each reply but one cost a failed call.
THEOREM EffortIsBounded == Spec => []BoundedEffort
<1>1. ReplyInv => BoundedEffort
  <2> SUFFICES ASSUME ReplyInv, NEW m \in Messages
               PROVE  attempts[m] <= MaxRetries + 1 /\ notices[m] <= 1 /\ Replies(m) <= 1 + faults
    BY DEF BoundedEffort
  <2>1. Types /\ EffortSoFar(m)
    BY DEF ReplyInv, TaskInv, TaskOk
  <2>2. attempts[m] \in Nat /\ retries[m] \in 0..MaxRetries
    BY <2>1 DEF Types
  <2>3. attempts[m] <= MaxRetries + 1
    BY <2>1, <2>2, LiveReplyAssumption DEF EffortSoFar
  <2> QED BY <2>1, <2>3 DEF EffortSoFar
<1> QED BY <1>1, ReplyInvariant, PTL

\* The first attempts are answered in the order in which their messages were
\* enqueued, whatever is retried, skipped or dropped between them.
THEOREM AnsweredInOrder == Spec => []RepliesInOrder
<1>1. ReplyInv => RepliesInOrder
  BY DEF ReplyInv, QueueInv, OrderInv
<1> QED BY <1>1, ReplyInvariant, PTL

\* Once planning mode is off, one reply at most reaches the thread before stop()
\* returns: that of the flight that was past its second look at the target.
THEOREM OneReplySlipsThrough == Spec => []OneLateReply
<1>1. ReplyInv => OneLateReply
  BY DEF ReplyInv, QueueInv, LateInv, OneLateReply
<1> QED BY <1>1, ReplyInvariant, PTL

\* message_count is the number of the stored messages, up to the increments that
\* are under way or failed; a redelivery is counted once.
THEOREM CountIsTrue == Spec => []CountMatchesMessages
<1>1. ReplyInv => CountMatchesMessages
  <2> SUFFICES ASSUME ReplyInv, watch # "GONE"
               PROVE  /\ count <= Cardinality(stored)
                      /\ Cardinality(stored)
                           <= count + Cardinality(BeingCounted) + Cardinality(uncounted)
    BY DEF CountMatchesMessages
  <2>1. Types /\ CountFits
    BY DEF ReplyInv, IngestInv
  <2>2. /\ Cardinality(stored) \in Nat /\ Cardinality(BeingCounted) \in Nat /\ count \in Nat
    BY <2>1, FiniteCounts DEF Types
  <2> QED BY <2>1, <2>2 DEF CountFits
<1> QED BY <1>1, ReplyInvariant, PTL

\* stop() awaits one flight, the registered one, and yet none of the tasks that
\* were alive when it began is in flight when it returns.
THEOREM StopDrains == Spec => []StopDrainsOldTasks
<1>1. ReplyInv => StopDrainsOldTasks
  BY DEF ReplyInv, QueueInv, StopInv
<1> QED BY <1>1, ReplyInvariant, PTL
=============================================================================
