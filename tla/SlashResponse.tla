---------------------------- MODULE SlashResponse ----------------------------
(***************************************************************************)
(* What the user of /room sees of a command.  The Slack binding parses the *)
(* text, acknowledges with one ephemeral notice and returns; help and      *)
(* invalid commands end there.  A start, launch or stop then runs in the   *)
(* background behind a "processing" notice, which is deleted when the      *)
(* command has succeeded and replaced by the error text when it has        *)
(* failed.  Each of these calls may fail, reaching Slack or not, nothing   *)
(* retries them, and a process death leaves the notice as it stands.       *)
(*                                                                         *)
(* The module composes this with every step of RoomLifecycle: the notices  *)
(* follow the services and must not tell the user anything the tables do   *)
(* not say.  Left out: the wording, and the stop notice in the thread,     *)
(* whose failure is swallowed.                                             *)
(***************************************************************************)
EXTENDS RoomLifecycle

VARIABLES
  rpc,      \* per command: "new", "handling" (acknowledged), "closed"
  shown,    \* per command: the ephemeral notice the user sees: "none",
            \* "processing", "help", "invalid", "NOTHING_TO_STOP", an error, or
            \* "gone" when it was deleted
  broken    \* history: commands whose ack or follow-up failed or was cut short

responseVars == <<rpc, shown, broken>>
slashVars    == <<vars, responseVars>>

-----------------------------------------------------------------------------
(* The router.                                                              *)

Words == {"start", "launch", "stop", "help", "other"}

\* The lower-cased words of a command text.  More than two are as good as two.
Texts == UNION {[1..n -> Words] : n \in 0..2}

\* No command takes an argument.
ParseRoomCommand(tokens) ==
  IF Len(tokens) = 1 /\ tokens[1] # "other" THEN tokens[1] ELSE "invalid"

ParsedKinds == {ParseRoomCommand(text) : text \in Texts}

KindOf(c) == IF c \in Starts THEN "start" ELSE IF c \in Launches THEN "launch" ELSE "stop"

-----------------------------------------------------------------------------
(* Notices.                                                                 *)

Errors == Answers \ {"OK", "CRASHED"}

\* The notices that carry the help button.
HasButton == {"invalid", "NOTHING_TO_STOP"} \cup Errors

AckNotice(kind) == IF kind \in {"help", "invalid"} THEN kind ELSE "processing"

\* The follow-up: delete_original on success, else the error text, which for a
\* stop without a session is a hint of its own.
FollowUpNotice(c) ==
  CASE result[c] = "OK" -> "gone"
    [] c \in Stops /\ result[c] = "ROOM_NO_ACTIVE_SESSION" -> "NOTHING_TO_STOP"
    [] OTHER -> result[c]

Show(c, notice) == shown' = [shown EXCEPT ![c] = notice]
Close(c)        == rpc' = [rpc EXCEPT ![c] = "closed"]

SlashInit ==
  /\ Init
  /\ rpc = [c \in Commands |-> "new"]
  /\ shown = [c \in Commands |-> "none"]
  /\ broken = {}

-----------------------------------------------------------------------------
(* The binding (bindRoomCommand) and the response controller.               *)

SlashFault == faults < MaxFaults /\ faults' = faults + 1
RoomFrame  == UNCHANGED <<tables, commandVars, schedulerVars, crashes, historyVars>>

\* The user types a text; the ack shows the first notice.  A command that is
\* not what the text parses to never comes to be.
Receive(c) ==
  /\ rpc[c] = "new"
  /\ \E kind \in ParsedKinds \cap {KindOf(c), "help", "invalid"} :
       /\ Show(c, AckNotice(kind))
       /\ rpc' = [rpc EXCEPT ![c] = IF kind = KindOf(c) THEN "handling" ELSE "closed"]
  /\ UNCHANGED <<vars, broken>>

\* ackOnce throws: the command does not run, though Slack may show its notice.
\* For help and invalid commands, which run nothing, it makes no difference.
AckFails(c) ==
  /\ rpc[c] = "new"
  /\ Close(c) /\ broken' = broken \cup {c}
  /\ UNCHANGED shown \/ Show(c, AckNotice(KindOf(c)))
  /\ SlashFault /\ RoomFrame

\* The handler runs the service behind the notice, an await at a time.
CommandStep(c) ==
  \/ c \in Starts /\ StartStep(c)
  \/ c \in Launches /\ LaunchStep(c)
  \/ c \in Stops /\ StopStep(c)

Handle(c) ==
  /\ rpc[c] = "handling"
  /\ CommandStep(c)
  /\ UNCHANGED responseVars

HandlerFails(c) ==
  /\ rpc[c] = "handling"
  /\ CallFails(c) \/ ReadBackFails(c)
  /\ UNCHANGED responseVars

\* Faulty variant: a failed command is only logged.
FollowUpOnSuccess(c) ==
  /\ rpc[c] = "handling" /\ At(c, "done")
  /\ IF result[c] = "OK" THEN Show(c, "gone") ELSE UNCHANGED shown
  /\ Close(c)
  /\ UNCHANGED <<vars, broken>>

\* deleteOriginalBestEffort or replaceOriginalOnce.
FollowUp(c) ==
  /\ rpc[c] = "handling" /\ At(c, "done")
  /\ Show(c, FollowUpNotice(c))
  /\ Close(c)
  /\ UNCHANGED <<vars, broken>>

\* The failure of a follow-up is only logged.
FollowUpFails(c) ==
  /\ rpc[c] = "handling" /\ At(c, "done")
  /\ UNCHANGED shown \/ Show(c, FollowUpNotice(c))
  /\ Close(c) /\ broken' = broken \cup {c}
  /\ SlashFault /\ RoomFrame

\* The help button replaces the notice it is attached to; a click that fails
\* changes nothing.
HelpClicked(c) ==
  /\ shown[c] \in HasButton
  /\ Show(c, "help")
  /\ UNCHANGED <<vars, rpc, broken>>

\* What goes on besides the commands.
SchedulerMoves ==
  /\ ExpireStep \/ ExpireFails \/ \E s \in Sessions : MessageArrives(s) \/ TimePasses(s)
  /\ UNCHANGED responseVars

\* The process dies with the commands in progress; their notices stay.
Die ==
  /\ Crash
  /\ rpc' = [c \in Commands |-> IF rpc[c] = "handling" THEN "closed" ELSE rpc[c]]
  /\ broken' = broken \cup {c \in Commands : rpc[c] = "handling"}
  /\ UNCHANGED shown

\* runRoomCommandAfterAck.
Respond(c) == Handle(c) \/ FollowUp(c)

SlashNext ==
  \/ \E c \in Commands :
       \/ Receive(c) \/ AckFails(c)
       \/ Respond(c) \/ HandlerFails(c) \/ FollowUpFails(c)
       \/ HelpClicked(c)
  \/ SchedulerMoves
  \/ Die

SlashSpec == SlashInit /\ [][SlashNext]_slashVars

\* Awaited calls settle: while commands are in progress, one of them moves on.
SlashFairSpec == SlashSpec /\ WF_slashVars(\E c \in Commands : Respond(c))

-----------------------------------------------------------------------------
(* Properties.                                                              *)

\* What a success leaves behind, whatever other commands, the scheduler and
\* failing calls do from then on.
EffectOf(c) ==
  CASE c \in Starts ->
         RowExists(c) /\ startThread[c] = "BOUND" /\ c \in briefings /\ watch[c] # "NONE"
    [] c \in Launches ->
         state[tgt[c]] \in {"RUNNING", "DECIDED"} /\ roundNo[c] \in rounds[tgt[c]]
    [] OTHER -> state[tgt[c]] = "DECIDED"

\* What a failure may leave behind only if another command found the session
\* meanwhile, or a fault or a crash hit the compensation.
ResidueOf(c) ==
  CASE c \in Starts   -> IsPrepared(c) /\ c \notin overlapped \cup lost
    [] c \in Launches ->
         /\ tgt[c] \in Sessions /\ IsRunning(tgt[c]) /\ tgt[c] \notin lost
         /\ \A k \in Launches \ {c} : tgt[k] # tgt[c]
    [] OTHER -> FALSE

\* The user is told the truth.  A notice that disappeared stands for a command
\* whose effect is in the tables and stays there; an error stands for a command
\* that left nothing; and nothing was done for a user who saw no notice at all.
ShownIsTrue ==
  \A c \in Commands :
    /\ shown[c] = "gone" => EffectOf(c)
    /\ shown[c] \in Errors \cup {"NOTHING_TO_STOP"} => ~ResidueOf(c)
    /\ shown[c] = "none" => At(c, "idle")

\* No command keeps the user waiting: its processing notice goes away, unless
\* its ack or follow-up failed or the process died.
NoticeResolves ==
  \A c \in Commands : shown[c] = "processing" ~> shown[c] # "processing" \/ c \in broken
=============================================================================
