---------------------------- MODULE OutboxDispatch ----------------------------
(***************************************************************************)
(* The event outbox: services enqueue rows, the dispatch scheduler reads a *)
(* batch of pending rows, appends each to the NDJSON file and marks it     *)
(* dispatched, or pushes its next attempt into the future when one of the  *)
(* two calls fails.  Reading a batch changes no row, so a crash between    *)
(* the append and the mark sends the event again.  Meanwhile a start that  *)
(* rolls back deletes its session and, by cascade, the rows of its events. *)
(*                                                                         *)
(* The dispatch order (available_at, then created_at) is kept as two       *)
(* sequences: rows that are due, and rows whose retry time is still to     *)
(* come, which become due in the order they were put off because the delay *)
(* is a constant.  Left out: retry_count and last_error, which no          *)
(* condition reads, and a clock that goes backwards.                       *)
(***************************************************************************)
EXTENDS Naturals, Sequences, FiniteSets, SequencesExt

CONSTANTS
  Sessions,     \* the sessions events are about
  MaxEvents,    \* bound: events enqueued for a session
  BatchSize,    \* LIMIT of the batch
  MaxFaults,    \* bound: failing calls in a behaviour
  MaxCrashes    \* bound: process deaths in a behaviour

ASSUME OutboxAssumption ==
  /\ MaxEvents \in Nat /\ BatchSize \in Nat \ {0}
  /\ MaxFaults \in Nat /\ MaxCrashes \in Nat

\* The n-th event enqueued for session s.
EventsOf(s) == {s} \X (1..MaxEvents)
Events == Sessions \X (1..MaxEvents)

VARIABLES
  enqueued,     \* the number of events enqueued for a session so far
  deleted,      \* the sessions whose row was deleted
  dispatched,   \* the events whose row is DISPATCHED
  due,          \* the PENDING events with available_at <= now, in order
  putOff,       \* the PENDING events with available_at > now, in order
  file,         \* the lines of the NDJSON file
  dpc,          \* the dispatcher: "idle" or the call it is about to make
  batch,        \* the items of its batch it has not finished, the current first
  faults,       \* number of failed calls so far
  crashes       \* number of process deaths so far

tableVars      == <<enqueued, deleted, dispatched, due, putOff>>
dispatcherVars == <<dpc, batch>>
vars == <<tableVars, file, dispatcherVars, faults, crashes>>

\* What is left of a sequence of rows, in their order, when some are gone.
Without(rows, gone) ==
  LET kept == {i \in 1..Len(rows) : rows[i] \notin gone}
      Place(i) == Cardinality({j \in kept : j <= i})
  IN  [n \in 1..Cardinality(kept) |-> rows[CHOOSE i \in kept : Place(i) = n]]

Pending    == ToSet(due) \cup ToSet(putOff)
IsPending(e) == e \in Pending
Item       == Head(batch)

TypeOK ==
  /\ enqueued \in [Sessions -> 0..MaxEvents]
  /\ deleted \subseteq Sessions
  /\ dispatched \subseteq Events
  /\ due \in Seq(Events) /\ putOff \in Seq(Events)
  /\ Len(due) + Len(putOff) = Cardinality(Pending)
  /\ Pending \cap dispatched = {}
  /\ file \in Seq(Events)
  /\ dpc \in {"idle", "append", "mark", "retry"}
  /\ batch \in Seq(Events)
  /\ dpc = "idle" <=> batch = <<>>
  /\ faults \in Nat /\ crashes \in Nat

Init ==
  /\ enqueued = [s \in Sessions |-> 0]
  /\ deleted = {}
  /\ dispatched = {}
  /\ due = <<>>
  /\ putOff = <<>>
  /\ file = <<>>
  /\ dpc = "idle"
  /\ batch = <<>>
  /\ faults = 0
  /\ crashes = 0

-----------------------------------------------------------------------------
(* The rest of the program: events come, sessions go, time passes.          *)

\* Faulty variant: the newest row comes first.
EnqueueFirst(s) ==
  /\ enqueued[s] < MaxEvents /\ s \notin deleted
  /\ enqueued' = [enqueued EXCEPT ![s] = @ + 1]
  /\ due' = <<<<s, enqueued[s] + 1>>>> \o due
  /\ UNCHANGED <<deleted, dispatched, putOff, file, dispatcherVars, faults, crashes>>

\* enqueueEvent: a row that is due at once, after all that already are.
EnqueueEvent(s) ==
  /\ enqueued[s] < MaxEvents /\ s \notin deleted
  /\ enqueued' = [enqueued EXCEPT ![s] = @ + 1]
  /\ due' = Append(due, <<s, enqueued[s] + 1>>)
  /\ UNCHANGED <<deleted, dispatched, putOff, file, dispatcherVars, faults, crashes>>

\* A start's rollback deletes the session; the foreign key deletes its events.
DeleteSession(s) ==
  /\ enqueued[s] > 0 /\ s \notin deleted
  /\ deleted' = deleted \cup {s}
  /\ due' = Without(due, EventsOf(s))
  /\ putOff' = Without(putOff, EventsOf(s))
  /\ dispatched' = dispatched \ EventsOf(s)
  /\ UNCHANGED <<enqueued, file, dispatcherVars, faults, crashes>>

RetryTimeComes ==
  /\ putOff # <<>>
  /\ due' = Append(due, Head(putOff))
  /\ putOff' = Tail(putOff)
  /\ UNCHANGED <<enqueued, deleted, dispatched, file, dispatcherVars, faults, crashes>>

-----------------------------------------------------------------------------
(* The dispatcher (DispatchOpenclawOutboxService.execute).                  *)

DispatchFrame == UNCHANGED <<enqueued, deleted, faults, crashes>>

NextItem ==
  /\ batch' = Tail(batch)
  /\ dpc' = IF Tail(batch) = <<>> THEN "idle" ELSE "append"

AbortBatch == batch' = <<>> /\ dpc' = "idle"

\* Faulty variant: a batch is taken out of the table when it is read.
ClaimRemoving ==
  /\ dpc = "idle"
  /\ batch' = SubSeq(due, 1, IF Len(due) < BatchSize THEN Len(due) ELSE BatchSize)
  /\ due' = SubSeq(due, Len(batch') + 1, Len(due))
  /\ dpc' = IF batch' = <<>> THEN "idle" ELSE "append"
  /\ UNCHANGED <<dispatched, putOff, file>> /\ DispatchFrame

\* claimPendingEvents: the first BatchSize rows that are due.  No row changes.
ClaimPendingEvents ==
  /\ dpc = "idle"
  /\ batch' = SubSeq(due, 1, IF Len(due) < BatchSize THEN Len(due) ELSE BatchSize)
  /\ dpc' = IF batch' = <<>> THEN "idle" ELSE "append"
  /\ UNCHANGED <<dispatched, due, putOff, file>> /\ DispatchFrame

AppendEvent ==
  /\ dpc = "append"
  /\ file' = Append(file, Item)
  /\ dpc' = "mark"
  /\ UNCHANGED <<batch, dispatched, due, putOff>> /\ DispatchFrame

\* Faulty variant: the row stays PENDING.
MarkNothing ==
  /\ dpc = "mark"
  /\ NextItem
  /\ UNCHANGED <<due, putOff, dispatched, file>> /\ DispatchFrame

\* markDispatched throws when the row is no longer there; that is handled like
\* a failed append.
MarkDispatched ==
  /\ dpc = "mark"
  /\ IF IsPending(Item)
     THEN /\ dispatched' = dispatched \cup {Item}
          /\ due' = Without(due, {Item}) /\ putOff' = Without(putOff, {Item})
          /\ NextItem
     ELSE dpc' = "retry" /\ UNCHANGED <<batch, dispatched, due, putOff>>
  /\ UNCHANGED file /\ DispatchFrame

\* Faulty variant: a failure is recorded as if the event had been delivered.
RetryGivingUp ==
  /\ dpc = "retry"
  /\ IF IsPending(Item)
     THEN /\ dispatched' = dispatched \cup {Item}
          /\ due' = Without(due, {Item}) /\ putOff' = Without(putOff, {Item})
          /\ NextItem
     ELSE AbortBatch /\ UNCHANGED <<dispatched, due, putOff>>
  /\ UNCHANGED file /\ DispatchFrame

\* Faulty variant: the retry is a new row beside the old one.
RetryCopying ==
  /\ dpc = "retry"
  /\ IF IsPending(Item)
     THEN putOff' = Append(putOff, Item) /\ NextItem /\ UNCHANGED due
     ELSE AbortBatch /\ UNCHANGED <<due, putOff>>
  /\ UNCHANGED <<dispatched, file>> /\ DispatchFrame

\* markRetry, in the catch block: its own failure ends the run, with the rest
\* of the batch untouched.
MarkRetry ==
  /\ dpc = "retry"
  /\ IF IsPending(Item)
     THEN /\ due' = Without(due, {Item})
          /\ putOff' = Append(Without(putOff, {Item}), Item)
          /\ NextItem
     ELSE AbortBatch /\ UNCHANGED <<due, putOff>>
  /\ UNCHANGED <<dispatched, file>> /\ DispatchFrame

DispatchStep == ClaimPendingEvents \/ AppendEvent \/ MarkDispatched \/ MarkRetry

-----------------------------------------------------------------------------
(* Failing calls and the process dying.                                     *)

Fault ==
  /\ faults < MaxFaults
  /\ faults' = faults + 1
  /\ UNCHANGED <<tableVars, crashes>>

\* The append fails, before or after the line reached the file.
AppendFails ==
  /\ dpc = "append"
  /\ file' \in {file, Append(file, Item)}
  /\ dpc' = "retry"
  /\ UNCHANGED batch /\ Fault

\* The UPDATE of markDispatched fails.
MarkFails ==
  /\ dpc = "mark"
  /\ dpc' = "retry"
  /\ UNCHANGED <<batch, file>> /\ Fault

\* The UPDATE of markRetry fails.  (A failing SELECT of the batch changes
\* nothing: the run ends before it began.)
RunFails ==
  /\ dpc = "retry"
  /\ AbortBatch
  /\ UNCHANGED file /\ Fault

Crash ==
  /\ crashes < MaxCrashes
  /\ crashes' = crashes + 1
  /\ AbortBatch
  /\ UNCHANGED <<tableVars, file, faults>>

Next ==
  \/ \E s \in Sessions : EnqueueEvent(s) \/ DeleteSession(s)
  \/ RetryTimeComes
  \/ DispatchStep
  \/ AppendFails \/ MarkFails \/ RunFails
  \/ Crash

Spec == Init /\ [][Next]_vars

\* The interval keeps firing, awaited promises settle and time passes.
FairSpec == Spec /\ WF_vars(DispatchStep) /\ WF_vars(RetryTimeComes)

-----------------------------------------------------------------------------
(* Properties.                                                              *)

Enqueued(e)  == e[2] <= enqueued[e[1]]
InFile(e)    == e \in ToSet(file)

\* At least once, the safety half: no row says DISPATCHED unless its line is in
\* the file, and no row is lost - what was enqueued for a session that still
\* exists is pending or in the file.
NothingLost ==
  \A e \in Events :
    Enqueued(e) /\ e[1] \notin deleted =>
      \/ e \in dispatched /\ InFile(e)
      \/ IsPending(e)

\* A duplicate line is paid for by a failed call or a crash: the single-flight
\* scheduler sends nothing twice by itself, not even when the session of an
\* item is deleted under the batch.
DuplicatesNeedFailure ==
  Len(file) <= Cardinality(ToSet(file)) + faults + crashes

\* Without a failed call the events of a session reach the file in the order
\* they were enqueued (mode ON before mode OFF), whatever crashes and deletions
\* interrupt the batches.  A failed call may break the order: the event is put
\* off and the next one overtakes it.
FirstDeliveriesInOrder ==
  faults = 0 =>
    \A i \in 1..Len(file) : \A n \in 1..(file[i][2] - 1) :
      \E j \in 1..(i - 1) : file[j] = <<file[i][1], n>>

\* At least once, the liveness half: a pending event is dispatched, unless its
\* session is deleted.  In particular neither an aborted batch nor an event
\* that keeps being put off starves the others.
PendingIsDispatched ==
  \A e \in Events : IsPending(e) ~> e \in dispatched \/ e[1] \in deleted
=============================================================================
