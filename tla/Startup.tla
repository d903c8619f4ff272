-------------------------------- MODULE Startup --------------------------------
(****************************************************************************)
(* init_db.initialize_database: tables and their migrations, accounts and   *)
(* the audit backfill, demonstration data; run by every server process      *)
(* before it serves its first page (app._init_db_once) and by               *)
(* "python init_db.py".                                                     *)
(*                                                                          *)
(* One action is one statement, or several of one transaction that nobody   *)
(* can see in between.  A CREATE or ALTER outside a transaction is          *)
(* committed at once; the first INSERT or UPDATE of a connection opens the  *)
(* transaction, which takes SQLite's one write lock.                        *)
(****************************************************************************)
EXTENDS Naturals, Sequences, FiniteSets

CONSTANTS
    Processes,    \* server processes and runs of the script
    NoProcess,    \* the write lock is free
    Earlier,      \* databases of earlier versions that may be found
    Faults        \* subset of {"crash", "ioError"}

\* The tables in the order of their creation.  "Others" are the remaining ones.
SCHEMA == <<"Users", "Clients", "Projects", "DecisionLog", "ChangeHistory", "Others">>
Tables == {"Users", "Clients", "Projects", "DecisionLog", "ChangeHistory", "Others"}

\* The columns that were added to them later.  "userColumns" (clientId, plainPassword)
\* and "otherColumns" may stay empty or have a constant default; the rest are completed
\* for the rows that are there.
ColumnsOf ==
    [Users |-> {"userColumns"}, Clients |-> {}, Projects |-> {"updatedAt"},
     DecisionLog |-> {"decisionAuthor"}, ChangeHistory |-> {"decisionId", "changeAuthor"},
     Others |-> {"otherColumns"}]
Columns == {"userColumns", "updatedAt", "decisionAuthor", "decisionId", "changeAuthor",
            "otherColumns"}

\* Rows without a value: of an updatedAt, of an author, of the decision that their
\* description names, or of a decision that their description does not name.
Gaps == {"updatedAt", "decisionAuthor", "changeAuthor", "decisionId", "unnamedDecision"}

SEED_USERS == <<"manager", "architect", "client">>
SeedUsers  == {SEED_USERS[k] : k \in DOMAIN SEED_USERS}

VARIABLES
    disk,      \* the committed database
    tx,        \* the database as the open write transaction sees it
    lock,      \* the process whose transaction holds the write lock
    drawing,   \* the demonstration drawing is in the drawings directory
    pc,        \* the next statement of each process
    next       \* seed_users: the index of the next account

vars == <<disk, tx, lock, drawing, pc, next>>

\* tables, columns: those that exist; gaps: the values that some row lacks; users: the
\* seeded accounts; demos, drawings: copies of the demonstration client and of its
\* drawing's row; linked: the account "client" belongs to a demonstration client;
\* office: there are clients that the office has created.
Database ==
    [tables : SUBSET Tables, columns : SUBSET Columns, gaps : SUBSET Gaps,
     users : SUBSET SeedUsers, demos : Nat, drawings : Nat,
     linked : BOOLEAN, office : BOOLEAN]

FreshDatabase ==
    [tables |-> {}, columns |-> {}, gaps |-> {}, users |-> {}, demos |-> 0,
     drawings |-> 0, linked |-> FALSE, office |-> FALSE]

\* Earlier versions lacked tables, and columns of the tables they had; the rows of a
\* table that lacks a column have no value for it.
LegacyDatabases ==
    {d \in [tables : SUBSET Tables, columns : SUBSET Columns, gaps : SUBSET Gaps,
            users : SUBSET SeedUsers, demos : {0}, drawings : {0}, linked : {FALSE},
            office : BOOLEAN] :
        /\ \A t \in Tables \ d.tables : (d.columns \cup d.gaps) \cap ColumnsOf[t] = {}
        /\ d.gaps \cap d.columns = {}
        /\ "unnamedDecision" \in d.gaps =>
               "ChangeHistory" \in d.tables /\ "decisionId" \notin d.columns
        /\ "Users" \notin d.tables => d.users = {}
        /\ "Clients" \notin d.tables => ~d.office}

ASSUME StartupAssumption ==
    /\ IsFiniteSet(Processes)
    /\ NoProcess \notin Processes
    /\ Earlier \subseteq LegacyDatabases
    /\ Faults \subseteq {"crash", "ioError"}

\* The statements of initialize_database, in order.
TableSteps == {"createTables", "checkProjects", "alterProjects", "stampProjects",
               "alterOthers", "commitTables"}
UserSteps  == {"probeUser", "insertUser", "checkDecisionLog", "alterDecisionLog",
               "checkChangeHistory", "alterBoth", "alterDecisionId", "alterChangeAuthor",
               "backfill", "commitUsers"}
DemoSteps  == {"insertDemo", "writeDrawing", "insertDrawing", "commitDemo"}
Running    == TableSteps \cup UserSteps \cup {"countClients"} \cup DemoSteps

\* The statements before which a process may be in a write transaction.
MayHold == {"alterOthers", "commitTables"} \cup UserSteps \cup (DemoSteps \ {"insertDemo"})

\* Types; and the lock belongs to a process that is inside a transaction.
TypeOK ==
    /\ disk \in Database
    /\ tx \in Database
    /\ lock \in Processes \cup {NoProcess}
    /\ drawing \in BOOLEAN
    /\ pc \in [Processes -> Running \cup {"down", "failed", "ready"}]
    /\ next \in [Processes -> 1 .. Len(SEED_USERS) + 1]
    /\ \A p \in Processes : pc[p] = "insertUser" => next[p] \in DOMAIN SEED_USERS
    /\ lock # NoProcess => pc[lock] \in MayHold

\* A new file, or a database of an earlier version.
Init ==
    /\ disk \in {FreshDatabase} \cup Earlier
    /\ tx = FreshDatabase
    /\ lock = NoProcess
    /\ drawing = FALSE
    /\ pc = [p \in Processes |-> "down"]
    /\ next = [p \in Processes |-> 1]
--------------------------------------------------------------------------------
(* Transactions. *)

MayWrite(p) == lock \in {NoProcess, p}

View(p) == IF lock = p THEN tx ELSE disk

\* An INSERT or UPDATE.
Write(p, database) ==
    /\ MayWrite(p)
    /\ tx' = database
    /\ lock' = p
    /\ UNCHANGED <<disk, drawing>>

\* A CREATE or ALTER: part of the open transaction, or committed at once.
Define(p, database) ==
    /\ MayWrite(p)
    /\ IF lock = p THEN tx' = database /\ UNCHANGED disk
                   ELSE disk' = database /\ UNCHANGED tx
    /\ UNCHANGED <<lock, drawing>>

Read == UNCHANGED <<disk, tx, lock, drawing>>

GoTo(p, step) == pc' = [pc EXCEPT ![p] = step]

Commit(p) ==
    /\ disk' = View(p)
    /\ lock' = NoProcess
    /\ UNCHANGED <<tx, drawing>>

\* Mutant: the transaction is committed when its connection is closed.
CommittedAnyway(p) == View(p)

\* close without commit: what the transaction wrote is gone, and the lock is free.
RolledBack(p) == disk

\* Mutant: an exception skips the close.
LockKept(p) == lock

LockAfterClose(p) == IF lock = p THEN NoProcess ELSE lock

Abandon(p) ==
    /\ disk' = RolledBack(p)
    /\ lock' = LockAfterClose(p)
    /\ next' = [next EXCEPT ![p] = 1]
    /\ UNCHANGED <<tx, drawing>>

\* An exception: app.main shows an error and the next page load tries again.
Fail(p) == Abandon(p) /\ GoTo(p, "failed")
--------------------------------------------------------------------------------
(* create_tables. *)

\* The server starts, or a page load finds that the last attempt failed.
Start(p) ==
    /\ pc[p] \in {"down", "failed"}
    /\ GoTo(p, "createTables")
    /\ next' = [next EXCEPT ![p] = 1]
    /\ Read

\* CREATE TABLE IF NOT EXISTS, one after another.
CreateTable(p) ==
    /\ pc[p] = "createTables"
    /\ \/ /\ \E k \in DOMAIN SCHEMA :
               /\ SCHEMA[k] \notin disk.tables
               /\ \A j \in DOMAIN SCHEMA : j < k => SCHEMA[j] \in disk.tables
               /\ Define(p, [disk EXCEPT !.tables = @ \cup {SCHEMA[k]},
                                         !.columns = @ \cup ColumnsOf[SCHEMA[k]]])
          /\ UNCHANGED pc
       \/ /\ disk.tables = Tables
          /\ GoTo(p, "checkProjects")
          /\ Read
    /\ UNCHANGED next

\* Mutant: the rows are completed only when the column has just been added.
OnlyIfAdded(columns) ==
    IF "updatedAt" \in columns THEN "alterOthers" ELSE "alterProjects"

AfterProjects(columns) ==
    IF "updatedAt" \in columns THEN "stampProjects" ELSE "alterProjects"

AfterDecisionLog(columns) ==
    IF "decisionAuthor" \in columns THEN "checkChangeHistory" ELSE "alterDecisionLog"

\* The table is looked at once for both of its columns.
AfterChangeHistory(columns) ==
    CASE {"decisionId", "changeAuthor"} \subseteq columns -> "backfill"
      [] columns \cap {"decisionId", "changeAuthor"} = {} -> "alterBoth"
      [] OTHER -> IF "decisionId" \in columns THEN "alterChangeAuthor" ELSE "alterDecisionId"

\* _table_columns: where a process that finds these columns goes on.
AfterCheck(columns) ==
    [checkProjects      |-> AfterProjects(columns),
     checkDecisionLog   |-> AfterDecisionLog(columns),
     checkChangeHistory |-> AfterChangeHistory(columns)]

CheckSteps == {"checkProjects", "checkDecisionLog", "checkChangeHistory"}

CheckColumns(p) ==
    /\ pc[p] \in CheckSteps
    /\ GoTo(p, AfterCheck(View(p).columns)[pc[p]])
    /\ UNCHANGED next
    /\ Read

\* ALTER TABLE ... ADD COLUMN: the column, and the statement that follows.
Alterations ==
    [alterProjects     |-> [column |-> "updatedAt",      then |-> "stampProjects"],
     alterDecisionLog  |-> [column |-> "decisionAuthor", then |-> "checkChangeHistory"],
     alterBoth         |-> [column |-> "decisionId",     then |-> "alterChangeAuthor"],
     alterDecisionId   |-> [column |-> "decisionId",     then |-> "backfill"],
     alterChangeAuthor |-> [column |-> "changeAuthor",   then |-> "backfill"]]

\* It raises if another process was faster.
AlterTable(p, step) ==
    /\ pc[p] = step
    /\ LET column == Alterations[step].column
       IN  \/ /\ column \notin View(p).columns
              /\ Define(p, [View(p) EXCEPT !.columns = @ \cup {column}])
              /\ GoTo(p, Alterations[step].then)
              /\ UNCHANGED next
           \/ /\ column \in View(p).columns
              /\ MayWrite(p)
              /\ Fail(p)

\* UPDATE Projects SET updatedAt: opens the transaction, whatever it changes.
StampProjects(p) ==
    /\ pc[p] = "stampProjects"
    /\ Write(p, [View(p) EXCEPT !.gaps = @ \ {"updatedAt"}])
    /\ GoTo(p, "alterOthers")
    /\ UNCHANGED next

\* The remaining migrations of create_tables, inside that transaction.
AlterOthers(p) ==
    /\ pc[p] = "alterOthers"
    /\ Define(p, [View(p) EXCEPT !.columns = @ \cup {"userColumns", "otherColumns"}])
    /\ GoTo(p, "commitTables")
    /\ UNCHANGED next

CommitTables(p) ==
    /\ pc[p] = "commitTables"
    /\ Commit(p)
    /\ GoTo(p, "probeUser")
    /\ UNCHANGED next
--------------------------------------------------------------------------------
(* seed_users. *)

Account(p) == SEED_USERS[next[p]]

\* SELECT 1 FROM Users WHERE username = ?
ProbeUser(p) ==
    /\ pc[p] = "probeUser"
    /\ \/ /\ next[p] > Len(SEED_USERS)
          /\ GoTo(p, "checkDecisionLog")
          /\ UNCHANGED next
       \/ /\ next[p] <= Len(SEED_USERS)
          /\ IF Account(p) \in View(p).users
             THEN next' = [next EXCEPT ![p] = @ + 1] /\ UNCHANGED pc
             ELSE GoTo(p, "insertUser") /\ UNCHANGED next
    /\ Read

\* INSERT INTO Users: the username is UNIQUE.
InsertUser(p) ==
    /\ pc[p] = "insertUser"
    /\ \/ /\ Account(p) \notin View(p).users
          /\ Write(p, [View(p) EXCEPT !.users = @ \cup {Account(p)}])
          /\ next' = [next EXCEPT ![p] = @ + 1]
          /\ GoTo(p, "probeUser")
       \/ /\ Account(p) \in View(p).users
          /\ MayWrite(p)
          /\ Fail(p)

\* The audit columns get the architect (who is there, whether found or just created)
\* where they have no value, and the decision that the description names.  Rows whose
\* description does not name one keep none.
Backfill(p) ==
    /\ pc[p] = "backfill"
    /\ Write(p, [View(p) EXCEPT !.gaps = @ \ {"decisionAuthor", "changeAuthor", "decisionId"}])
    /\ GoTo(p, "commitUsers")
    /\ UNCHANGED next

CommitUsers(p) ==
    /\ pc[p] = "commitUsers"
    /\ Commit(p)
    /\ GoTo(p, "countClients")
    /\ UNCHANGED next
--------------------------------------------------------------------------------
(* seed_demo_data. *)

\* Mutant: the guard is lost.
AlwaysEmpty(database) == TRUE

NoClients(database) == database.demos = 0 /\ ~database.office

\* SELECT COUNT( * ) FROM Clients: the answer is used several statements later.
CountClients(p) ==
    /\ pc[p] = "countClients"
    /\ GoTo(p, IF NoClients(disk) THEN "insertDemo" ELSE "ready")
    /\ UNCHANGED next
    /\ Read

\* The client, its projects and their rows, and the link of the account "client".
InsertDemo(p) ==
    /\ pc[p] = "insertDemo"
    /\ Write(p, [View(p) EXCEPT !.demos = @ + 1, !.linked = TRUE])
    /\ GoTo(p, "writeDrawing")
    /\ UNCHANGED next

\* The file is written while the transaction is open and survives its rollback.
WriteDrawing(p) ==
    /\ pc[p] = "writeDrawing"
    /\ drawing' = TRUE
    /\ GoTo(p, "insertDrawing")
    /\ UNCHANGED <<disk, tx, lock, next>>

InsertDrawing(p) ==
    /\ pc[p] = "insertDrawing"
    /\ Write(p, [View(p) EXCEPT !.drawings = @ + 1])
    /\ GoTo(p, "commitDemo")
    /\ UNCHANGED next

CommitDemo(p) ==
    /\ pc[p] = "commitDemo"
    /\ Commit(p)
    /\ GoTo(p, "ready")
    /\ UNCHANGED next
--------------------------------------------------------------------------------
(* The server at work, and what can go wrong. *)

\* The office creates its first client.
OfficeCreates(p) ==
    /\ pc[p] = "ready"
    /\ lock = NoProcess
    /\ disk' = [disk EXCEPT !.office = TRUE]
    /\ UNCHANGED <<tx, lock, drawing, pc, next>>

\* The office deletes its last client.  (A demonstration client has projects and is
\* never deleted.)
OfficeDeletes(p) ==
    /\ pc[p] = "ready"
    /\ lock = NoProcess
    /\ disk' = [disk EXCEPT !.office = FALSE]
    /\ UNCHANGED <<tx, lock, drawing, pc, next>>

\* Mutant: a write waits for the lock as long as it takes.
NeverBusy(p) == FALSE

\* The lock is another process's: after the busy timeout the statement raises.
Busy(p) == ~MayWrite(p)

\* The statements that need the lock and may not have it yet.
FirstWrites == {"createTables", "stampProjects", "insertUser", "backfill", "insertDemo"}
               \cup DOMAIN Alterations

LockTimeout(p) ==
    /\ pc[p] \in FirstWrites
    /\ Busy(p)
    /\ Fail(p)

\* Any statement, or the writing of the file, may fail.
StatementFails(p) ==
    /\ "ioError" \in Faults
    /\ pc[p] \in Running
    /\ Fail(p)

\* The process stops; its transaction is rolled back.
Crash(p) ==
    /\ "crash" \in Faults
    /\ pc[p] \notin {"down"}
    /\ Abandon(p)
    /\ GoTo(p, "down")
--------------------------------------------------------------------------------
\* initialize_database moves on by itself.
Advance(p) ==
    \/ CreateTable(p)
    \/ CheckColumns(p)
    \/ \E step \in DOMAIN Alterations : AlterTable(p, step)
    \/ StampProjects(p)
    \/ AlterOthers(p)
    \/ CommitTables(p)
    \/ ProbeUser(p)
    \/ InsertUser(p)
    \/ Backfill(p)
    \/ CommitUsers(p)
    \/ CountClients(p)
    \/ InsertDemo(p)
    \/ WriteDrawing(p)
    \/ InsertDrawing(p)
    \/ CommitDemo(p)
    \/ LockTimeout(p)

Next ==
    \E p \in Processes :
        \/ Start(p) \/ Advance(p) \/ OfficeCreates(p) \/ OfficeDeletes(p)
        \/ StatementFails(p) \/ Crash(p)

Spec == Init /\ [][Next]_vars

\* A thread keeps running, and a busy timeout passes.
FairSpec == Spec /\ \A p \in Processes : WF_vars(Advance(p))
--------------------------------------------------------------------------------
(* Properties *)

\* A server that serves pages has every table with every column and every seeded
\* account, and its rows have their values but for the historic changes whose
\* description does not name their decision; whatever earlier starts were stopped at,
\* and whatever version the database comes from.
ReadyComplete ==
    (\E p \in Processes : pc[p] = "ready") =>
        /\ disk.tables = Tables /\ disk.columns = Columns
        /\ disk.gaps \subseteq {"unnamedDecision"}
        /\ disk.users = SeedUsers

\* Demonstration data is there as a whole or not at all, the account "client" is
\* linked to it, and its drawing's row has its file.
DemoWhole ==
    /\ disk.drawings = disk.demos
    /\ disk.demos > 0 => disk.linked /\ drawing

\* The count that decides about the demonstration data is stale when it is used:
\* processes that start together may insert it once each, but never more, and one
\* process alone inserts it once at most, however often it is started again.
DemoBounded == disk.demos <= Cardinality(Processes)

\* Every start ends: the page is served or the error is shown.
StartEnds == \A p \in Processes : (pc[p] \in Running) ~> (pc[p] \notin Running)
================================================================================
