------------------------------ MODULE Migrations ------------------------------
(***************************************************************************)
(* The SQL scripts that bring the database up to date.  There is no record *)
(* of what was applied: every start of the process runs all of them again, *)
(* so each must be harmless on a database that has it.  Two of them rebuild*)
(* a table in a transaction with foreign keys off: copy it to a new table, *)
(* drop the old one, rename.  The process may die between any two          *)
(* statements, which leaves what was committed.                            *)
(*                                                                         *)
(* Of the schema the model keeps all tables and all unique indexes.  Of the*)
(* rows it keeps what the scripts could damage: the watch targets with     *)
(* their status, the messages that refer to them and the events in the     *)
(* outbox; of all others only whether two of them contradict an index.     *)
(***************************************************************************)
EXTENDS Naturals, Sequences, FiniteSets

CONSTANT Targets     \* the watch targets there may ever be, by created_at

ASSUME TargetsAssumption == Targets \subseteq Nat

VARIABLES
  db,       \* the database as the connection sees it
  disk,     \* the database as committed
  fk,       \* PRAGMA foreign_keys of the connection
  tx,       \* the connection is in a transaction
  mpc,      \* the next statement of Script; its length + 1 when done
  logical   \* history: the rows that the services and users have put there

databaseVars == <<db, disk, fk, tx>>
dbVars       == <<databaseVars, mpc, logical>>

Schema     == {"sessions", "briefings", "rounds", "watch", "messages", "outbox"}
Tables     == Schema \cup {"watch_new", "outbox_new"}

\* The unique indexes: one active session of a channel, one round of a number
\* in a session, one watch target of a thread, one row of a message, and one ON
\* target of a channel.
IndexesOf ==
  [t \in Schema |->
     CASE t = "sessions" -> {"active"}
       [] t = "rounds"   -> {"round"}
       [] t = "watch"    -> {"thread", "on"}
       [] t = "messages" -> {"message"}
       [] OTHER          -> {}]

Indexes    == UNION {IndexesOf[t] : t \in Schema}
Events     == Targets \X {"MODE", "SUMMARY"}   \* of the target's session
Statuses   == {"ON", "OFF"}

\* Rows of a table of watch targets: from the ids that have a row to the status.
TargetRows == UNION {[S -> Statuses] : S \in SUBSET Targets}
NoRows     == [t \in {} |-> "OFF"]
OnRows(rows) == {t \in DOMAIN rows : rows[t] = "ON"}

Databases ==
  [tables : SUBSET Tables, indexes : SUBSET Indexes,
   plain : BOOLEAN,                  \* the name of "round" is of a non-unique index
   twice : SUBSET (Indexes \ {"on"}),\* indexes that two rows contradict
   manual : BOOLEAN,                 \* off_reason may be MANUAL
   watch : TargetRows, watchNew : TargetRows,
   messages : SUBSET Targets,        \* targets that messages refer to
   outbox : SUBSET Events, outboxNew : SUBSET Events]

-----------------------------------------------------------------------------
(* The databases a start may find.                                          *)

Fresh ==
  [tables |-> {}, indexes |-> {}, plain |-> FALSE, twice |-> {}, manual |-> FALSE,
   watch |-> NoRows, watchNew |-> NoRows,
   messages |-> {}, outbox |-> {}, outboxNew |-> {}]

FirstTables == {"sessions", "briefings", "rounds"}

\* Left by a release that had the scripts up to number v: 002 came with the
\* watch targets, before 003 a channel could have several that are ON, before 005
\* there were summary events.  The index of the rounds, which 001 replaces, may
\* have been one that is not unique; no session of it is taken to have two rounds
\* of one number, for 001 does nothing about them.
LeftByRelease(v) ==
  LET targets == IF v < 2 THEN {} ELSE {1, 2} \cap Targets
      summary == IF v < 5 THEN {{"MODE", "SUMMARY"}} ELSE {}
      made    == Indexes \ (IF v < 2 THEN {"thread", "message", "on"}
                             ELSE IF v < 3 THEN {"on"} ELSE {})
  IN {d \in [tables : {IF v < 2 THEN FirstTables ELSE Schema},
              indexes : {made, made \ {"round"}}, plain : BOOLEAN, twice : {{}},
              manual : {v >= 4},
              watch : [targets -> Statuses], watchNew : {NoRows},
              messages : SUBSET targets,
              outbox : {targets \X kinds : kinds \in {{"MODE"}} \cup summary},
              outboxNew : {{}}] :
        /\ d.plain <=> "round" \notin d.indexes
        /\ v >= 3 => Cardinality(OnRows(d.watch)) <= 1}

InitialDatabases == {Fresh} \cup UNION {LeftByRelease(v) : v \in 1..5}

WithoutSummaries(events) == {e \in events : e[2] # "SUMMARY"}

-----------------------------------------------------------------------------
(* The scripts, in the order of their file names.                           *)

\* Faulty variant: the pragma comes after BEGIN.
RebuildPragmaInside(table) ==
  << <<"begin", table>>, <<"fk off", table>>, <<"create", table>>, <<"copy", table>>,
     <<"drop", table>>, <<"rename", table>> >>

\* 004 and 005 up to the RENAME.
RebuildScript(table) ==
  << <<"fk off", table>>, <<"begin", table>>, <<"create", table>>, <<"copy", table>>,
     <<"drop", table>>, <<"rename", table>> >>

EndScript(table) == << <<"commit", table>>, <<"fk on", table>> >>

\* Faulty variant: 004 forgets one of the indexes that went with the table.
RestoreOnIndex == << <<"index", "on">> >>

RestoreIndexes == << <<"index", "thread">>, <<"index", "on">> >>

\* Connecting sets the pragma; 001, 002 and 003.
CreateScript ==
  << <<"fk on", "sessions">>,
     <<"table", "sessions">>, <<"index", "active">>, <<"table", "briefings">>,
     <<"table", "rounds">>, <<"drop index", "round">>, <<"index", "round">>,
     <<"table", "watch">>, <<"index", "thread">>, <<"table", "messages">>,
     <<"index", "message">>, <<"table", "outbox">>,
     <<"dedupe", "watch">>, <<"index", "on">> >>

Script ==
  CreateScript \o RebuildScript("watch") \o RestoreIndexes \o EndScript("watch")
  \o RebuildScript("outbox") \o EndScript("outbox")

Migrated == mpc > Len(Script)
NextIs(op) == ~Migrated /\ Script[mpc][1] = op
TableAt  == Script[mpc][2]     \* or the index
IndexAt  == Script[mpc][2]
NewOf(table) == IF table = "watch" THEN "watch_new" ELSE "outbox_new"

\* A statement outside a transaction is committed at once.
Write(d) ==
  /\ db' = d
  /\ disk' = IF tx THEN disk ELSE d
  /\ UNCHANGED <<fk, tx>>

-----------------------------------------------------------------------------
(* The statements.                                                          *)

\* The pragma does nothing in a transaction.
SetForeignKeys ==
  /\ NextIs("fk on") \/ NextIs("fk off")
  /\ fk' = IF tx THEN fk ELSE NextIs("fk on")
  /\ UNCHANGED <<db, disk, tx>>

\* CREATE TABLE IF NOT EXISTS; 002 creates the watch targets without MANUAL.
CreateMissingTable ==
  /\ NextIs("table")
  /\ Write([db EXCEPT !.tables = @ \cup {TableAt},
                      !.manual = @ /\ (TableAt = "watch" => "watch" \in db.tables)])

\* 001 drops the index of the rounds, of either kind.
DropIndex ==
  /\ NextIs("drop index")
  /\ Write([db EXCEPT !.indexes = @ \ {IndexAt}, !.plain = FALSE])

\* The newest ON target of the channel stays ON.
NewestOn(rows) ==
  [t \in DOMAIN rows |->
     IF \E u \in OnRows(rows) : u > t THEN "OFF" ELSE rows[t]]

Dedupe ==
  /\ NextIs("dedupe")
  /\ Write([db EXCEPT !.watch = NewestOn(@)])

\* There is an index of that name, unique or not.
NameTaken(index) == index \in db.indexes \/ (index = "round" /\ db.plain)

\* CREATE UNIQUE INDEX IF NOT EXISTS.
CreateIndex ==
  /\ NextIs("index")
  /\ Write(IF NameTaken(IndexAt) THEN db ELSE [db EXCEPT !.indexes = @ \cup {IndexAt}])

\* Faulty variant: the scripts forget their BEGIN.
BeginNothing ==
  /\ NextIs("begin")
  /\ UNCHANGED databaseVars

Begin ==
  /\ NextIs("begin")
  /\ tx' = TRUE
  /\ UNCHANGED <<db, disk, fk>>

CreateNewTable ==
  /\ NextIs("create")
  /\ Write(IF TableAt = "watch"
           THEN [db EXCEPT !.tables = @ \cup {"watch_new"}, !.watchNew = NoRows]
           ELSE [db EXCEPT !.tables = @ \cup {"outbox_new"}, !.outboxNew = {}])

\* The outbox is copied without the summary events.
CopyRows ==
  /\ NextIs("copy")
  /\ Write(IF TableAt = "watch"
           THEN [db EXCEPT !.watchNew = db.watch]
           ELSE [db EXCEPT !.outboxNew = WithoutSummaries(db.outbox)])

\* The indexes go with the table.  With foreign keys on, the messages of the
\* dropped targets would go, too.
DropOldTable ==
  /\ NextIs("drop")
  /\ Write(IF TableAt = "watch"
           THEN [db EXCEPT !.tables = @ \ {"watch"}, !.indexes = @ \ IndexesOf["watch"],
                           !.watch = NoRows, !.messages = IF fk THEN {} ELSE @]
           ELSE [db EXCEPT !.tables = @ \ {"outbox"}, !.outbox = {}])

RenameNewTable ==
  /\ NextIs("rename")
  /\ Write(IF TableAt = "watch"
           THEN [db EXCEPT !.tables = (@ \ {"watch_new"}) \cup {"watch"},
                           !.watch = db.watchNew, !.watchNew = NoRows, !.manual = TRUE]
           ELSE [db EXCEPT !.tables = (@ \ {"outbox_new"}) \cup {"outbox"},
                           !.outbox = db.outboxNew, !.outboxNew = {}])

Commit ==
  /\ NextIs("commit")
  /\ tx' = FALSE
  /\ disk' = db
  /\ UNCHANGED <<db, fk>>

\* What SQLite asks of the next statement.
StatementApplies ==
  /\ NextIs("create") => NewOf(TableAt) \notin db.tables
  /\ NextIs("copy")   => {TableAt, NewOf(TableAt)} \subseteq db.tables
  /\ NextIs("drop")   => TableAt \in db.tables
  /\ NextIs("rename") => TableAt \notin db.tables /\ NewOf(TableAt) \in db.tables
  /\ NextIs("dedupe") => "watch" \in db.tables
  /\ NextIs("index")  =>
       /\ \E t \in db.tables \cap Schema : IndexAt \in IndexesOf[t]
       /\ IndexAt = "on" => Cardinality(OnRows(db.watch)) <= 1
       /\ NameTaken(IndexAt) \/ IndexAt \notin db.twice
  /\ NextIs("begin")  => ~tx
  /\ NextIs("commit") => tx \/ db = disk

Migrate ==
  /\ StatementApplies
  /\ \/ SetForeignKeys \/ CreateMissingTable \/ DropIndex \/ Dedupe \/ CreateIndex
     \/ Begin \/ CreateNewTable \/ CopyRows \/ DropOldTable \/ RenameNewTable \/ Commit
  /\ mpc' = mpc + 1
  /\ UNCHANGED logical

\* The connection is gone; a transaction in progress is rolled back.
Disconnect ==
  /\ db' = disk /\ fk' = FALSE /\ tx' = FALSE
  /\ UNCHANGED <<disk, mpc, logical>>

\* The next process connects.
Reconnect == mpc' = 1 /\ UNCHANGED <<databaseVars, logical>>

-----------------------------------------------------------------------------
(* What the services do to the rows while the process serves.               *)

Content(d) == [watch |-> d.watch, messages |-> d.messages, outbox |-> d.outbox]

\* The same change to the database and to the rows that ought to be there.
ServiceWrites(watch, messages, outbox, wanted) ==
  /\ Write([db EXCEPT !.watch = watch, !.messages = messages, !.outbox = outbox])
  /\ logical' = wanted
  /\ UNCHANGED mpc

Without(rows, t) == [u \in DOMAIN rows \ {t} |-> rows[u]]
WithoutEvents(events, t) == {e \in events : e[1] # t}
With(rows, t, status) == [u \in DOMAIN rows \cup {t} |-> IF u = t THEN status ELSE rows[u]]

\* createWatchTargetOn and its event; only the index keeps a second ON row out.
TurnOn(t) ==
  /\ t \notin DOMAIN db.watch /\ \A u \in DOMAIN db.watch : u < t
  /\ "on" \in db.indexes => OnRows(db.watch) = {}
  /\ ServiceWrites(With(db.watch, t, "ON"), db.messages, db.outbox \cup {<<t, "MODE">>},
       [logical EXCEPT !.watch = With(@, t, "ON"), !.outbox = @ \cup {<<t, "MODE">>}])

\* turnOffWatchTarget, for a /room stop with the reason MANUAL.
TurnOff(t) ==
  /\ t \in OnRows(db.watch) /\ db.manual
  /\ ServiceWrites(With(db.watch, t, "OFF"), db.messages, db.outbox \cup {<<t, "MODE">>},
       [logical EXCEPT !.watch = With(@, t, "OFF"), !.outbox = @ \cup {<<t, "MODE">>}])

StoreMessage(t) ==
  /\ t \in OnRows(db.watch)
  /\ ServiceWrites(db.watch, db.messages \cup {t}, db.outbox,
       [logical EXCEPT !.messages = @ \cup {t}])

\* The rollback of a start deletes the session; the foreign keys take its watch
\* target, its messages and events along, if they are on.
DeleteSession(t) ==
  /\ t \in OnRows(db.watch)
  /\ ServiceWrites(IF fk THEN Without(db.watch, t) ELSE db.watch,
       IF fk THEN db.messages \ {t} ELSE db.messages,
       IF fk THEN WithoutEvents(db.outbox, t) ELSE db.outbox,
       [logical EXCEPT !.watch = Without(@, t), !.messages = @ \ {t},
                       !.outbox = WithoutEvents(@, t)])

\* An INSERT of a row that is there already: a second start, the round of a
\* launch, the target of a thread, a message that Slack delivers again.  Only the
\* index keeps it out.
InsertAgain(index) ==
  /\ Write([db EXCEPT !.twice = @ \cup ({index} \ db.indexes)])
  /\ UNCHANGED <<mpc, logical>>

ServicesWrite ==
  \/ \E t \in Targets : TurnOn(t) \/ TurnOff(t) \/ StoreMessage(t) \/ DeleteSession(t)
  \/ \E index \in Indexes \ {"on"} : InsertAgain(index)

-----------------------------------------------------------------------------

MigrationTypeOK ==
  /\ db \in Databases /\ disk \in Databases
  /\ fk \in BOOLEAN /\ tx \in BOOLEAN
  /\ mpc \in 1..(Len(Script) + 1)
  /\ logical \in [watch : TargetRows, messages : SUBSET Targets, outbox : SUBSET Events]

\* Of an older database, all but the surplus ON targets and the summary events
\* is to be kept.
MigrationInit ==
  /\ db \in InitialDatabases
  /\ disk = db
  /\ fk = FALSE /\ tx = FALSE
  /\ mpc = 1
  /\ logical = [watch |-> NewestOn(db.watch), messages |-> db.messages,
                outbox |-> WithoutSummaries(db.outbox)]
=============================================================================
