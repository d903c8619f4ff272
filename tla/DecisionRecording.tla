--------------------------- MODULE DecisionRecording ---------------------------
(****************************************************************************)
(* Requirement 15 as the code runs it: views/decision_management.py and     *)
(* models/decision_entry_session.py (the screen),                           *)
(* controllers/decision_controller.py (the handler),                        *)
(* DBRepository.save_decision_with_history (the transaction) and            *)
(* database.py (connections, and the trace callback that writes every SQL   *)
(* statement to SQLQueryLog through a SECOND connection).                   *)
(*                                                                          *)
(* One action is one SQL statement or one run of the trace callback before  *)
(* it.  SQLite has one write lock for the whole database: a transaction     *)
(* takes it with its first INSERT and keeps it to its end, and a writer     *)
(* that finds it taken waits for the busy timeout and then fails.           *)
(*                                                                          *)
(* A submission of the form has a script run, and a thread, of its own.     *)
(* With Streamlit's fastReruns (on unless configured) the architect's next  *)
(* click starts its run at once; the earlier run is told to stop, which it  *)
(* does at its next access to the page or the session state.  So its        *)
(* controller call runs to the end and marks the DecisionEntrySession,      *)
(* which all runs of the session share.                                     *)
(****************************************************************************)
EXTENDS Naturals, Sequences

CONSTANTS
    Sessions,         \* browser sessions, each of an architect of its own
    Submissions,      \* submissions of the form (bounds a run of TLC)
    SessionOf,        \* [Submissions -> Sessions]
    Projects,         \* rows of Projects (none is ever deleted)
    Texts,            \* what can be typed; a retry may repeat a text
    Nobody,           \* the write lock is free; no form yet
    Faults            \* subset of {"crash", "ioError"}

ASSUME RecordingAssumption ==
    /\ SessionOf \in [Submissions -> Sessions]
    /\ Nobody \notin Submissions
    /\ Faults \subseteq {"crash", "ioError"}

VARIABLES
    disk,        \* the committed rows of the three tables
    tx,          \* the rows as the open write transaction sees them
    lock,        \* the submission whose transaction holds the write lock
    entry,       \* status of each session's current DecisionEntrySession
    form,        \* what was submitted
    pc,          \* the next statement of each submission's run
    result,      \* what its save_decision returned
    mine,        \* the run's DecisionEntrySession is its session's current one
    traced,      \* the trace callback for the next statement has returned
    logged       \* statements of the run that are in SQLQueryLog

vars == <<disk, tx, lock, entry, form, pc, result, mine, traced, logged>>

EntryStatus == {"Draft", "Invalid", "Saving", "Recorded", "SaveFailed", "Closed"}

\* The statements of one call of save_decision, in order; each of the two reads
\* has a connection of its own, the rest is one transaction.
ReadSteps == {"getUser", "getProject"}
TxSteps   == {"insertDecision", "insertChange", "readDecision", "readChange",
              "logActivity", "commit"}
Steps     == ReadSteps \cup TxSteps

NextStep ==
    [getUser        |-> "getProject",   getProject   |-> "insertDecision",
     insertDecision |-> "insertChange", insertChange |-> "readDecision",
     readDecision   |-> "readChange",   readChange   |-> "logActivity",
     logActivity    |-> "commit"]

\* What save_decision says to the view; "none" before, or after an exception.
Results == {"Recorded", "Invalid", "SaveFailed"}

DecisionRow == [project : Projects, author : Sessions, text : Texts]
ChangeRow   == [decision : Nat \ {0}, project : Projects, author : Sessions]
Tables      == [decisions : Seq(DecisionRow), changes : Seq(ChangeRow),
                activity : Seq(Nat \ {0})]

Empty == [decisions |-> <<>>, changes |-> <<>>, activity |-> <<>>]

Form   == [project : Projects, text : Texts, blank : BOOLEAN]
NoForm == [project |-> Nobody, text |-> Nobody, blank |-> TRUE]

TypeOK ==
    /\ disk \in Tables
    /\ tx \in Tables
    /\ lock \in Submissions \cup {Nobody}
    /\ entry \in [Sessions -> EntryStatus]
    /\ form \in [Submissions -> Form \cup {NoForm}]
    /\ pc \in [Submissions -> Steps \cup {"new", "mark", "done"}]
    /\ result \in [Submissions -> Results \cup {"none"}]
    /\ mine \in [Submissions -> BOOLEAN]
    /\ traced \in [Submissions -> BOOLEAN]
    /\ logged \in [Submissions -> SUBSET Steps]

Init ==
    /\ disk = Empty
    /\ tx = Empty
    /\ lock = Nobody
    /\ entry = [s \in Sessions |-> "Draft"]
    /\ form = [r \in Submissions |-> NoForm]
    /\ pc = [r \in Submissions |-> "new"]
    /\ result = [r \in Submissions |-> "none"]
    /\ mine = [r \in Submissions |-> FALSE]
    /\ traced = [r \in Submissions |-> FALSE]
    /\ logged = [r \in Submissions |-> {}]
--------------------------------------------------------------------------------
(* The screen. *)

\* The form is submitted: return_to_draft, begin_saving, then save_decision.  No
\* status but Closed blocks it: neither Saving, of a run that still saves or that
\* an exception ended, nor that run itself.
Submit(r) ==
    LET s == SessionOf[r]
    IN  /\ pc[r] = "new"
        /\ entry[s] # "Closed"
        /\ \E f \in Form : form' = [form EXCEPT ![r] = f]
        /\ entry' = [entry EXCEPT ![s] = "Saving"]
        /\ mine' = [mine EXCEPT ![r] = TRUE]
        /\ pc' = [pc EXCEPT ![r] = "getUser"]
        /\ UNCHANGED <<disk, tx, lock, result, traced, logged>>

\* save_decision has returned: mark_recorded, mark_invalid or mark_save_failed on
\* the entry object the run began with, whatever its status is by now.
Mark(r) ==
    /\ pc[r] = "mark"
    /\ entry' = [entry EXCEPT ![SessionOf[r]] = IF mine[r] THEN result[r] ELSE @]
    /\ pc' = [pc EXCEPT ![r] = "done"]
    /\ UNCHANGED <<disk, tx, lock, form, result, mine, traced, logged>>

\* The button that ends the entry, shown when the decision is recorded.
Close(s) ==
    /\ entry[s] = "Recorded"
    /\ entry' = [entry EXCEPT ![s] = "Closed"]
    /\ UNCHANGED <<disk, tx, lock, form, pc, result, mine, traced, logged>>

\* The button that starts a new entry after that: a new object, so a run still on
\* its way marks one that nobody looks at.
StartNew(s) ==
    /\ entry[s] = "Closed"
    /\ entry' = [entry EXCEPT ![s] = "Draft"]
    /\ mine' = [r \in Submissions |-> mine[r] /\ SessionOf[r] # s]
    /\ UNCHANGED <<disk, tx, lock, form, pc, result, traced, logged>>

\* save_decision ends: it returns an answer, or raises ("none") past the marks.
Finish(r, answer) ==
    /\ result' = [result EXCEPT ![r] = answer]
    /\ pc' = [pc EXCEPT ![r] = IF answer = "none" THEN "done" ELSE "mark"]
    /\ traced' = [traced EXCEPT ![r] = FALSE]
    /\ logged' = [logged EXCEPT ![r] = {}]
    /\ UNCHANGED <<entry, form, mine>>
--------------------------------------------------------------------------------
(* _record_sql_query: called by SQLite before a statement runs. *)

\* COMMIT is not a relevant statement.
Traceable(r) == pc[r] \in Steps \ {"commit"} /\ ~traced[r]

\* The INSERT into SQLQueryLog, committed at once: the write lock was free.
TraceLogged(r) ==
    /\ Traceable(r)
    /\ lock = Nobody
    /\ logged' = [logged EXCEPT ![r] = @ \cup {pc[r]}]
    /\ traced' = [traced EXCEPT ![r] = TRUE]
    /\ UNCHANGED <<disk, tx, lock, entry, form, pc, result, mine>>

\* Mutant: the log connection waits as long as it takes.
NeverBusy(r) == FALSE

\* The lock is taken, by another transaction or by the one whose statement is
\* being logged: the busy timeout passes and the exception is swallowed.
BusyTimeout(r) == lock # Nobody

TraceLost(r) ==
    /\ Traceable(r)
    /\ BusyTimeout(r)
    /\ traced' = [traced EXCEPT ![r] = TRUE]
    /\ UNCHANGED <<disk, tx, lock, entry, form, pc, result, mine, logged>>

\* Statement step runs next: its trace callback has returned.
Runs(r, step) == pc[r] = step /\ (step # "commit" => traced[r])

Continue(r) ==
    /\ pc' = [pc EXCEPT ![r] = NextStep[pc[r]]]
    /\ traced' = [traced EXCEPT ![r] = FALSE]
    /\ UNCHANGED <<entry, form, result, mine, logged>>
--------------------------------------------------------------------------------
(* DecisionController.save_decision. *)

\* _validate_actor: an architect's account is never changed or deleted, so the
\* row is the one of the login; then the text must not be blank.
GetUser(r) ==
    /\ Runs(r, "getUser")
    /\ \/ ~form[r].blank /\ Continue(r)
       \/ form[r].blank /\ Finish(r, "Invalid")
    /\ UNCHANGED <<disk, tx, lock>>

\* The project comes from a list and no project is ever deleted.
GetProject(r) ==
    /\ Runs(r, "getProject")
    /\ Continue(r)
    /\ UNCHANGED <<disk, tx, lock>>
--------------------------------------------------------------------------------
(* save_decision_with_history: one connection_scope. *)

\* The transaction of r holds the write lock or can have it.
MayWrite(r) == lock \in {Nobody, r}

\* The rows as the transaction of r sees them.
View(r) == IF lock = r THEN tx ELSE disk

\* A write: the rows change for this transaction only.
Write(r, rows) ==
    /\ MayWrite(r)
    /\ tx' = rows
    /\ lock' = r
    /\ Continue(r)
    /\ UNCHANGED disk

\* The decision that r asks to record.
DecisionOf(r) == [project |-> form[r].project, author |-> SessionOf[r],
                  text |-> form[r].text]

InsertDecision(r) ==
    /\ Runs(r, "insertDecision")
    /\ Write(r, [View(r) EXCEPT !.decisions = Append(@, DecisionOf(r))])

\* Mutant: the row count of the table as it was before the INSERT.
DecisionIdBefore(r) == Len(disk.decisions)

\* cursor.lastrowid, the id given to change.decision_id and to the activity log.
DecisionId(r) == Len(View(r).decisions)

InsertChange(r) ==
    LET row == [decision |-> DecisionId(r), project |-> form[r].project,
                author |-> SessionOf[r]]
    IN  /\ Runs(r, "insertChange")
        /\ Write(r, [View(r) EXCEPT !.changes = Append(@, row)])

\* The two SELECTs of createdAt.
ReadBack(r) ==
    /\ Runs(r, "readDecision") \/ Runs(r, "readChange")
    /\ Continue(r)
    /\ UNCHANGED <<disk, tx, lock>>

LogActivity(r) ==
    /\ Runs(r, "logActivity")
    /\ Write(r, [View(r) EXCEPT !.activity = Append(@, DecisionId(r))])

\* Mutant: the connection is closed without a commit.
NotCommitted(r) == disk

\* COMMIT: what the transaction wrote is in the tables.
Committed(r) == View(r)

\* commit, close; save_decision reports success.
Commit(r) ==
    /\ Runs(r, "commit")
    /\ disk' = Committed(r)
    /\ lock' = Nobody
    /\ Finish(r, "Recorded")
    /\ UNCHANGED tx

\* Mutant: commit moved from the try block to the finally block.
CommittedAnyway(r) == View(r)

\* rollback: what the transaction wrote is gone.
RolledBack(r) == disk

\* Mutant: the connection is not closed when the rollback is done.
LockKept(r) == lock

\* close: the lock is free, if it was this transaction's.
LockAfterClose(r) == IF lock = r THEN Nobody ELSE lock

\* A sqlite3.Error inside connection_scope: rollback, close, ActionResult.fail
\* with state save_failed.
SaveFails(r) ==
    /\ disk' = RolledBack(r)
    /\ lock' = LockAfterClose(r)
    /\ Finish(r, "SaveFailed")
    /\ UNCHANGED tx

\* The INSERT waited for the lock of another transaction for too long.
LockTimeout(r) ==
    /\ Runs(r, "insertDecision")
    /\ ~MayWrite(r)
    /\ SaveFails(r)
--------------------------------------------------------------------------------
(* Faults. *)

\* A statement fails: sqlite3.Error inside the transaction is handled, one from
\* the two reads before it leaves the controller, and the entry is not marked.
StatementFails(r) ==
    /\ "ioError" \in Faults
    /\ \/ /\ \E step \in TxSteps : Runs(r, step)
          /\ SaveFails(r)
       \/ /\ \E step \in ReadSteps : Runs(r, step)
          /\ Finish(r, "none")
          /\ UNCHANGED <<disk, tx, lock>>

\* The server stops: the runs, the screens and the uncommitted rows are gone.
Crash ==
    /\ "crash" \in Faults
    /\ lock' = Nobody
    /\ entry' = [s \in Sessions |-> "Draft"]
    /\ pc' = [r \in Submissions |-> IF pc[r] = "new" THEN "new" ELSE "done"]
    /\ mine' = [r \in Submissions |-> FALSE]
    /\ traced' = [r \in Submissions |-> FALSE]
    /\ logged' = [r \in Submissions |-> {}]
    /\ UNCHANGED <<disk, tx, form, result>>
--------------------------------------------------------------------------------
\* The run of r moves on by itself.
Advance(r) ==
    \/ TraceLogged(r)
    \/ TraceLost(r)
    \/ GetUser(r)
    \/ GetProject(r)
    \/ InsertDecision(r)
    \/ InsertChange(r)
    \/ ReadBack(r)
    \/ LogActivity(r)
    \/ Commit(r)
    \/ LockTimeout(r)
    \/ Mark(r)

Next ==
    \/ \E r \in Submissions : Submit(r) \/ Advance(r) \/ StatementFails(r)
    \/ \E s \in Sessions : Close(s) \/ StartNew(s)
    \/ Crash

Spec == Init /\ [][Next]_vars

\* A run's thread keeps running, and a busy timeout passes.
FairSpec == Spec /\ \A r \in Submissions : WF_vars(Advance(r))
--------------------------------------------------------------------------------
(* Properties *)

\* What became of a submission, in the tables.
Outcome(r) ==
    IF pc[r] = "new" THEN "new"
    ELSE IF pc[r] \in Steps THEN "open"
    ELSE IF result[r] = "Recorded" THEN "stored" ELSE "dropped"

Ledger == INSTANCE DecisionLedger WITH
    Author <- SessionOf, decisions <- disk.decisions, changes <- disk.changes,
    activity <- disk.activity, outcome <- [r \in Submissions |-> Outcome(r)]

\* save_decision is atomic: run by run, whatever overlaps, fails or stops, a
\* submission leaves one row in each of the three tables, of its own fields, or
\* none; save_decision reports success exactly when it left them.
ImplementsLedger == Ledger!Spec

\* A committed decision has its history entry and its activity entry, whatever
\* statement fails and whenever the server stops.
Paired == Ledger!Paired

\* The screen never says Recorded (or Closed) out of nothing: a submission made
\* through this very entry was recorded, and its decision is in the table.  (Which
\* of several overlapping submissions, the screen does not say.)
ScreenBacked ==
    \A s \in Sessions : entry[s] \in {"Recorded", "Closed"} =>
        \E r \in Submissions :
            /\ SessionOf[r] = s /\ mine[r] /\ result[r] = "Recorded"
            /\ \E i \in DOMAIN disk.decisions : disk.decisions[i] = DecisionOf(r)

\* The write lock of the whole database never outlives the transaction that
\* took it.
LockInsideTransaction ==
    lock # Nobody => pc[lock] \in TxSteps \ {"insertDecision"}

\* Every save ends, although the trace callback of a transaction waits for the
\* lock its own thread holds, and the runs of one session wait for each other's.
SaveEnds == \A r \in Submissions : (pc[r] # "new") ~> (pc[r] = "done")

\* Every statement that a handler has executed is in SQLQueryLog.
EveryStatementLogged ==
    \A r \in Submissions : pc[r] = "commit" => logged[r] = Steps \ {"commit"}
================================================================================
