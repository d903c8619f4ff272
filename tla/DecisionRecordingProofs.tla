------------------------ MODULE DecisionRecordingProofs ------------------------
(****************************************************************************)
(* DecisionRecording for any number of architects, projects, texts and      *)
(* submissions, however their runs overlap, with statements that fail and   *)
(* crashes: the invariant of the open transaction, and from it atomicity,   *)
(* what the screen may say and the implementation of DecisionLedger.        *)
(****************************************************************************)
EXTENDS DecisionRecording, SequenceTheorems, TLAPS

\* The row of ChangeHistory that goes with the decision of r.
ChangeOf(r) == [decision |-> Len(disk.decisions) + 1,
                project |-> form[r].project, author |-> SessionOf[r]]

\* The steps of a transaction that has written something.
OpenSteps == TxSteps \ {"insertDecision"}

\* The lock and the open transactions are the same thing.
LockInv ==
    /\ \A r \in Submissions : pc[r] \in OpenSteps => lock = r
    /\ \A r \in Submissions : lock = r => pc[r] \in OpenSteps

\* What the open transaction sees: the committed rows and its own, as far as it got.
TxInv ==
    \A r \in Submissions : lock = r =>
        /\ tx.decisions = Append(disk.decisions, DecisionOf(r))
        /\ tx.changes = IF pc[r] = "insertChange" THEN disk.changes
                        ELSE Append(disk.changes, ChangeOf(r))
        /\ tx.activity = IF pc[r] = "commit"
                         THEN Append(disk.activity, Len(disk.decisions) + 1)
                         ELSE disk.activity

\* A run works for a submitted form, past the validation for a text that is not
\* blank, and has a result when it is about to mark it.
RunInv ==
    \A r \in Submissions :
        /\ pc[r] \in Steps => form[r] \in Form
        /\ pc[r] \in Steps \cup {"new"} => result[r] = "none"
        /\ pc[r] \in Steps \ {"getUser"} => ~form[r].blank
        /\ pc[r] = "mark" => result[r] \in Results

StoredDecision(r) == \E i \in DOMAIN disk.decisions : disk.decisions[i] = DecisionOf(r)

\* What save_decision reported as recorded is in the table.
StoredInv == \A r \in Submissions : result[r] = "Recorded" => StoredDecision(r)

\* Recorded, and Closed after it, come from a run of the session's current entry.
EntryInv ==
    \A s \in Sessions : entry[s] \in {"Recorded", "Closed"} =>
        \E r \in Submissions : SessionOf[r] = s /\ mine[r] /\ result[r] = "Recorded"

IInv ==
    /\ TypeOK
    /\ LockInv
    /\ TxInv
    /\ RunInv
    /\ StoredInv
    /\ EntryInv
    /\ Paired

--------------------------------------------------------------------------------
LEMMA InitIInv == ASSUME RecordingAssumption, Init PROVE IInv
<1>1. Empty \in Tables
  BY DEF Empty, Tables
<1>2. TypeOK
  BY <1>1, RecordingAssumption DEF Init, TypeOK, EntryStatus, Steps
<1>3. LockInv /\ TxInv
  BY RecordingAssumption DEF RecordingAssumption, Init, LockInv, TxInv, OpenSteps, TxSteps
<1>4. RunInv /\ StoredInv /\ EntryInv
  BY DEF Init, RunInv, StoredInv, EntryInv, Steps, ReadSteps, TxSteps
<1>5. Paired
  BY DEF Init, Paired, Ledger!Paired, Empty
<1>6. QED BY <1>2, <1>3, <1>4, <1>5 DEF IInv

\* Facts that survive when tables and forms stay.
LEMMA SameRows ==
    ASSUME IInv, UNCHANGED <<disk, form>>
    PROVE  /\ Paired'
           /\ \A r \in Submissions : StoredDecision(r)' = StoredDecision(r)
BY DEF IInv, Paired, Ledger!Paired, StoredDecision, DecisionOf

\* A submission: its run begins, whatever other runs of the session are at.
LEMMA SubmitIInv ==
    ASSUME RecordingAssumption, IInv, NEW r \in Submissions, Submit(r)
    PROVE  IInv'
<1> USE DEF IInv
<1> DEFINE s == SessionOf[r]
<1>1. PICK f \in Form : form' = [form EXCEPT ![r] = f]
  BY DEF Submit
<1>2. /\ pc[r] = "new" /\ lock # r /\ result[r] = "none" /\ s \in Sessions
      /\ UNCHANGED <<disk, tx, lock, result, traced, logged>>
  BY RecordingAssumption DEF RecordingAssumption, Submit, TypeOK, LockInv, RunInv, OpenSteps, TxSteps
<1>3. /\ form'[r] = f /\ pc'[r] = "getUser" /\ entry'[s] = "Saving"
      /\ \A q \in Submissions : q # r => /\ form'[q] = form[q]
                                         /\ pc'[q] = pc[q]
      /\ \A t \in Sessions : t # s => entry'[t] = entry[t]
      /\ \A q \in Submissions : mine[q] => mine'[q]
  BY <1>1, <1>2 DEF Submit, TypeOK
<1>4. TypeOK'
  BY <1>1, <1>2 DEF Submit, TypeOK, Steps, ReadSteps, EntryStatus
<1>5. LockInv'
  BY <1>2, <1>3 DEF LockInv, OpenSteps, TxSteps
<1>6. TxInv'
  BY <1>2, <1>3 DEF TxInv, DecisionOf, ChangeOf
<1>7. RunInv'
  BY <1>2, <1>3 DEF RunInv, Steps, ReadSteps, TxSteps
<1>8. StoredInv'
  BY <1>2, <1>3 DEF StoredInv, StoredDecision, DecisionOf
<1>9. EntryInv'
  BY <1>2, <1>3 DEF EntryInv
<1>10. Paired'
  BY <1>2 DEF Paired, Ledger!Paired
<1>11. QED BY <1>4, <1>5, <1>6, <1>7, <1>8, <1>9, <1>10

\* The marks: a run shows what its save_decision returned, on its own entry.
LEMMA MarkIInv ==
    ASSUME RecordingAssumption, IInv, NEW r \in Submissions, Mark(r)
    PROVE  IInv'
<1> USE DEF IInv
<1> DEFINE s == SessionOf[r]
<1>1. /\ pc[r] = "mark" /\ pc'[r] = "done" /\ s \in Sessions /\ result[r] \in Results
      /\ UNCHANGED <<disk, tx, lock, form, result, mine, traced, logged>>
      /\ \A q \in Submissions : q # r => pc'[q] = pc[q]
      /\ \A t \in Sessions : t # s => entry'[t] = entry[t]
      /\ entry'[s] = IF mine[r] THEN result[r] ELSE entry[s]
  BY RecordingAssumption DEF RecordingAssumption, Mark, TypeOK, RunInv
<1>2. TypeOK'
  BY <1>1 DEF Mark, TypeOK, Results, EntryStatus
<1>3. LockInv' /\ TxInv'
  BY <1>1 DEF LockInv, TxInv, DecisionOf, ChangeOf, OpenSteps, TxSteps
<1>4. RunInv'
  BY <1>1 DEF RunInv, Steps, ReadSteps, TxSteps
<1>5. EntryInv'
  BY <1>1 DEF EntryInv, Results
<1>6. StoredInv' /\ Paired'
  BY <1>1, SameRows DEF StoredInv
<1>7. QED BY <1>2, <1>3, <1>4, <1>5, <1>6

\* Closing keeps the run that the screen rests on; a new entry rests on none.
LEMMA ButtonIInv == ASSUME IInv, NEW s \in Sessions, Close(s) \/ StartNew(s) PROVE IInv'
<1> USE DEF IInv
<1>1. UNCHANGED <<disk, tx, lock, form, pc, result, traced, logged>>
  BY DEF Close, StartNew
<1>2. \/ entry[s] = "Recorded" /\ entry' = [entry EXCEPT ![s] = "Closed"] /\ mine' = mine
      \/ /\ entry' = [entry EXCEPT ![s] = "Draft"]
         /\ mine' = [r \in Submissions |-> mine[r] /\ SessionOf[r] # s]
  BY DEF Close, StartNew
<1>3. TypeOK'
  BY <1>1, <1>2 DEF TypeOK, EntryStatus
<1>4. LockInv' /\ TxInv' /\ RunInv'
  BY <1>1 DEF LockInv, TxInv, RunInv, DecisionOf, ChangeOf
<1>5. EntryInv'
  BY <1>1, <1>2 DEF EntryInv, TypeOK
<1>6. StoredInv' /\ Paired'
  BY <1>1, SameRows DEF StoredInv
<1>7. QED BY <1>3, <1>4, <1>5, <1>6

\* The trace callback, and the statements that read: the run moves on outside a
\* transaction or inside one, and nothing else changes.
LEMMA TraceIInv ==
    ASSUME IInv, NEW r \in Submissions, TraceLogged(r) \/ TraceLost(r)
    PROVE  IInv'
<1> USE DEF IInv
<1>1. UNCHANGED <<disk, tx, lock, entry, form, pc, result, mine>>
  BY DEF TraceLogged, TraceLost
<1>2. traced' = [traced EXCEPT ![r] = TRUE]
  BY DEF TraceLogged, TraceLost
<1>3. logged' = logged \/ logged' = [logged EXCEPT ![r] = logged[r] \cup {pc[r]}]
  BY DEF TraceLogged, TraceLost
<1>4. pc[r] \in Steps
  BY DEF TraceLogged, TraceLost, Traceable
<1>5. logged' \in [Submissions -> SUBSET Steps]
  BY <1>3, <1>4 DEF TypeOK
<1>6. TypeOK'
  BY <1>1, <1>2, <1>5 DEF TypeOK
<1>7. LockInv' /\ TxInv' /\ RunInv' /\ EntryInv'
  BY <1>1 DEF LockInv, TxInv, RunInv, EntryInv, DecisionOf, ChangeOf
<1>8. StoredInv' /\ Paired'
  BY <1>1, SameRows DEF StoredInv
<1>9. QED BY <1>6, <1>7, <1>8

LEMMA ReadIInv ==
    ASSUME IInv, NEW r \in Submissions, Continue(r), UNCHANGED <<disk, tx, lock>>,
           pc[r] \in ReadSteps \cup {"readDecision", "readChange"},
           pc[r] = "getUser" => ~form[r].blank
    PROVE  IInv'
<1> USE DEF IInv
<1>1. /\ UNCHANGED <<disk, tx, lock, entry, form, result, mine, logged>>
      /\ pc'[r] = NextStep[pc[r]] /\ pc'[r] \in Steps
      /\ \A q \in Submissions : q # r => pc'[q] = pc[q]
  BY DEF Continue, TypeOK, NextStep, Steps, ReadSteps, TxSteps
<1>2. TypeOK'
  BY <1>1 DEF TypeOK, Continue
<1>3. LockInv'
  BY <1>1 DEF LockInv, NextStep, ReadSteps, TxSteps, OpenSteps
<1>4. TxInv'
  <2>1. \A q \in Submissions : lock = q => (pc'[q] = "insertChange" <=> pc[q] = "insertChange")
                                           /\ (pc'[q] = "commit" <=> pc[q] = "commit")
    BY <1>1 DEF LockInv, NextStep, ReadSteps, TxSteps, OpenSteps
  <2>2. QED BY <1>1, <2>1 DEF TxInv, DecisionOf, ChangeOf
<1>5. RunInv'
  <2>1. pc[r] \in Steps /\ ~form[r].blank
    BY DEF RunInv, Steps, ReadSteps, TxSteps
  <2>2. QED BY <1>1, <2>1 DEF RunInv, Steps, ReadSteps, TxSteps
<1>6. EntryInv'
  BY <1>1 DEF EntryInv
<1>7. StoredInv' /\ Paired'
  BY <1>1, SameRows DEF StoredInv
<1>8. QED BY <1>2, <1>3, <1>4, <1>5, <1>6, <1>7

\* A write of the transaction: the lock is taken or kept, one table grows.
LEMMA WriteKeeps ==
    ASSUME RecordingAssumption, IInv, NEW r \in Submissions, NEW rows \in Tables,
           Write(r, rows),
           pc[r] \in {"insertDecision", "insertChange", "logActivity"}
    PROVE  /\ TypeOK' /\ LockInv' /\ RunInv' /\ StoredInv' /\ EntryInv' /\ Paired'
           /\ lock' = r /\ tx' = rows /\ UNCHANGED <<disk, form>>
           /\ pc'[r] = NextStep[pc[r]]
<1> USE DEF IInv
<1>1. /\ UNCHANGED <<disk, entry, form, result, mine, logged>>
      /\ tx' = rows /\ lock' = r /\ lock \in {Nobody, r}
      /\ pc'[r] = NextStep[pc[r]] /\ pc'[r] \in OpenSteps
      /\ \A q \in Submissions : q # r => pc'[q] = pc[q]
  BY DEF Write, MayWrite, Continue, TypeOK, NextStep, TxSteps, OpenSteps
<1>2. TypeOK'
  <2>1. pc' = [pc EXCEPT ![r] = NextStep[pc[r]]] /\ traced' = [traced EXCEPT ![r] = FALSE]
    BY DEF Write, Continue
  <2>2. NextStep[pc[r]] \in Steps
    BY <1>1 DEF Steps, OpenSteps
  <2>3. /\ pc' \in [Submissions -> Steps \cup {"new", "mark", "done"}]
        /\ traced' \in [Submissions -> BOOLEAN]
    BY <2>1, <2>2 DEF TypeOK
  <2>4. QED BY <1>1, <2>3 DEF TypeOK
<1>3. LockInv'
  BY <1>1, RecordingAssumption DEF RecordingAssumption, LockInv
<1>4. RunInv'
  <2>1. pc[r] \in Steps \ {"getUser"}
    BY DEF Steps, TxSteps
  <2>2. QED BY <1>1, <2>1 DEF RunInv, Steps, ReadSteps, TxSteps, OpenSteps
<1>5. EntryInv'
  BY <1>1 DEF EntryInv
<1>6. StoredInv' /\ Paired'
  BY <1>1, SameRows DEF StoredInv
<1>7. QED BY <1>1, <1>2, <1>3, <1>4, <1>5, <1>6

\* The rows a run adds are rows of the tables.
LEMMA OwnRows ==
    ASSUME RecordingAssumption, IInv, NEW r \in Submissions, pc[r] \in Steps
    PROVE  /\ DecisionOf(r) \in DecisionRow
           /\ ChangeOf(r) \in ChangeRow
           /\ Len(disk.decisions) \in Nat
BY LenProperties DEF RecordingAssumption, IInv, TypeOK, RunInv, DecisionOf, ChangeOf,
                     DecisionRow, ChangeRow, Form, Tables

\* The INSERT into DecisionLog opens the transaction on the committed rows.
LEMMA InsertDecisionIInv ==
    ASSUME RecordingAssumption, IInv, NEW r \in Submissions, InsertDecision(r)
    PROVE  IInv'
<1> USE DEF IInv
<1> DEFINE rows == [disk EXCEPT !.decisions = Append(@, DecisionOf(r))]
<1>1. pc[r] = "insertDecision" /\ lock # r
  BY DEF InsertDecision, Runs, LockInv, OpenSteps
<1>2. Write(r, rows)
  BY <1>1 DEF InsertDecision, View, DecisionOf
<1>3. rows \in Tables
  <2>1. Append(disk.decisions, DecisionOf(r)) \in Seq(DecisionRow)
    BY <1>1, RecordingAssumption, OwnRows, AppendProperties DEF TypeOK, Tables, Steps, TxSteps
  <2>2. QED BY <2>1 DEF TypeOK, Tables
<1>4. /\ TypeOK' /\ LockInv' /\ RunInv' /\ StoredInv' /\ EntryInv' /\ Paired'
      /\ lock' = r /\ tx' = rows /\ UNCHANGED <<disk, form>>
      /\ pc'[r] = "insertChange"
  BY <1>1, <1>2, <1>3, WriteKeeps DEF NextStep
<1>5. /\ rows.decisions = Append(disk.decisions, DecisionOf(r))
      /\ rows.changes = disk.changes /\ rows.activity = disk.activity
  BY DEF TypeOK, Tables
<1>6. TxInv'
  BY <1>4, <1>5 DEF TxInv, DecisionOf
<1>7. QED BY <1>4, <1>6

\* The INSERT into ChangeHistory gets the id of the decision.
LEMMA InsertChangeIInv ==
    ASSUME RecordingAssumption, IInv, NEW r \in Submissions, InsertChange(r)
    PROVE  IInv'
<1> USE DEF IInv
<1> DEFINE rows == [tx EXCEPT !.changes = Append(@, ChangeOf(r))]
<1>1. pc[r] = "insertChange" /\ lock = r
  BY DEF InsertChange, Runs, LockInv, OpenSteps, TxSteps
<1>2. /\ tx.decisions = Append(disk.decisions, DecisionOf(r))
      /\ tx.changes = disk.changes /\ tx.activity = disk.activity
  BY <1>1 DEF TxInv
<1>3. Len(tx.decisions) = Len(disk.decisions) + 1
  BY <1>1, <1>2, RecordingAssumption, OwnRows, AppendProperties DEF TypeOK, Tables, Steps,
                                                             TxSteps
<1>4. Write(r, rows)
  BY <1>1, <1>3 DEF InsertChange, View, DecisionId, ChangeOf
<1>5. rows \in Tables
  <2>1. Append(tx.changes, ChangeOf(r)) \in Seq(ChangeRow)
    BY <1>1, RecordingAssumption, OwnRows, AppendProperties DEF TypeOK, Tables, Steps, TxSteps
  <2>2. QED BY <2>1 DEF TypeOK, Tables
<1>6. /\ TypeOK' /\ LockInv' /\ RunInv' /\ StoredInv' /\ EntryInv' /\ Paired'
      /\ lock' = r /\ tx' = rows /\ UNCHANGED <<disk, form>>
      /\ pc'[r] = "readDecision"
  BY <1>1, <1>4, <1>5, WriteKeeps DEF NextStep
<1>7. /\ rows.changes = Append(disk.changes, ChangeOf(r))
      /\ rows.decisions = tx.decisions /\ rows.activity = tx.activity
  BY <1>2 DEF TypeOK, Tables
<1>8. TxInv'
  BY <1>2, <1>6, <1>7 DEF TxInv, DecisionOf, ChangeOf
<1>9. QED BY <1>6, <1>8

\* The INSERT into ActivityLog completes the rows of the transaction.
LEMMA LogActivityIInv ==
    ASSUME RecordingAssumption, IInv, NEW r \in Submissions, LogActivity(r)
    PROVE  IInv'
<1> USE DEF IInv
<1> DEFINE id   == Len(disk.decisions) + 1
           rows == [tx EXCEPT !.activity = Append(@, id)]
<1>1. pc[r] = "logActivity" /\ lock = r
  BY DEF LogActivity, Runs, LockInv, OpenSteps, TxSteps
<1>2. /\ tx.decisions = Append(disk.decisions, DecisionOf(r))
      /\ tx.changes = Append(disk.changes, ChangeOf(r)) /\ tx.activity = disk.activity
  BY <1>1 DEF TxInv
<1>3. Len(tx.decisions) = id /\ id \in Nat \ {0}
  BY <1>1, <1>2, RecordingAssumption, OwnRows, AppendProperties DEF TypeOK, Tables, Steps,
                                                             TxSteps
<1>4. Write(r, rows)
  BY <1>1, <1>3 DEF LogActivity, View, DecisionId
<1>5. rows \in Tables
  <2>1. Append(tx.activity, id) \in Seq(Nat \ {0})
    BY <1>3, AppendProperties DEF TypeOK, Tables
  <2>2. QED BY <2>1 DEF TypeOK, Tables
<1>6. /\ TypeOK' /\ LockInv' /\ RunInv' /\ StoredInv' /\ EntryInv' /\ Paired'
      /\ lock' = r /\ tx' = rows /\ UNCHANGED <<disk, form>>
      /\ pc'[r] = "commit"
  BY <1>1, <1>4, <1>5, WriteKeeps DEF NextStep
<1>7. /\ rows.activity = Append(disk.activity, id)
      /\ rows.decisions = tx.decisions /\ rows.changes = tx.changes
  BY <1>2 DEF TypeOK, Tables
<1>8. TxInv'
  BY <1>2, <1>6, <1>7 DEF TxInv, DecisionOf, ChangeOf
<1>9. QED BY <1>6, <1>8

\* A run that ends: it has a result or an exception, the lock is not its own any
\* more, and the screen is as it was.
LEMMA FinishKeeps ==
    ASSUME RecordingAssumption, IInv, NEW r \in Submissions,
           NEW answer \in Results \cup {"none"},
           pc[r] \in Steps, Finish(r, answer), lock' = LockAfterClose(r), tx' = tx
    PROVE  /\ LockInv' /\ RunInv' /\ EntryInv'
           /\ disk' \in Tables => TypeOK'
           /\ disk' = disk => TxInv'
           /\ lock' # r /\ form' = form /\ form[r] \in Form
           /\ pc'[r] \in {"mark", "done"} /\ result'[r] = answer
           /\ \A q \in Submissions : q # r => pc'[q] = pc[q] /\ result'[q] = result[q]
<1> USE DEF IInv
<1>1. /\ pc'[r] = IF answer = "none" THEN "done" ELSE "mark"
      /\ result'[r] = answer
      /\ UNCHANGED <<entry, form, mine>>
      /\ \A q \in Submissions : q # r => pc'[q] = pc[q] /\ result'[q] = result[q]
  BY DEF Finish, TypeOK
<1>2. lock' # r /\ \A q \in Submissions : q # r => (lock' = q <=> lock = q)
  BY RecordingAssumption DEF LockAfterClose, RecordingAssumption
<1>3. LockInv'
  BY <1>1, <1>2 DEF LockInv, OpenSteps, TxSteps
<1>4. form[r] \in Form /\ result[r] = "none"
  BY DEF RunInv
<1>5. RunInv'
  BY <1>1, <1>4 DEF RunInv, Steps, ReadSteps, TxSteps, Results
<1>6. EntryInv'
  BY <1>1, <1>4 DEF EntryInv
<1>7. ASSUME disk' \in Tables PROVE TypeOK'
  <2>1. /\ result' \in [Submissions -> Results \cup {"none"}]
        /\ pc' \in [Submissions -> Steps \cup {"new", "mark", "done"}]
        /\ traced' \in [Submissions -> BOOLEAN]
        /\ logged' \in [Submissions -> SUBSET Steps]
    BY DEF Finish, TypeOK
  <2>2. lock' \in Submissions \cup {Nobody}
    BY DEF LockAfterClose, TypeOK
  <2>3. QED BY <1>1, <1>7, <2>1, <2>2 DEF TypeOK
<1>8. ASSUME disk' = disk PROVE TxInv'
  BY <1>1, <1>2, <1>8 DEF TxInv, DecisionOf, ChangeOf
<1>9. QED BY <1>1, <1>2, <1>3, <1>4, <1>5, <1>6, <1>7, <1>8

\* The run gives up: the rows on disk are those before it began.
LEMMA GiveUpIInv ==
    ASSUME RecordingAssumption, IInv, NEW r \in Submissions,
           NEW answer \in {"Invalid", "SaveFailed", "none"},
           pc[r] \in Steps, Finish(r, answer), disk' = disk, lock' = LockAfterClose(r),
           tx' = tx
    PROVE  IInv'
<1>1. answer \in Results \cup {"none"} /\ answer # "Recorded" /\ disk \in Tables
  BY DEF Results, IInv, TypeOK
<1>2. /\ LockInv' /\ RunInv' /\ EntryInv' /\ TypeOK' /\ TxInv' /\ form' = form
      /\ result'[r] = answer
      /\ \A q \in Submissions : q # r => result'[q] = result[q]
  BY <1>1, FinishKeeps
<1>3. Paired' /\ \A q \in Submissions : StoredDecision(q)' = StoredDecision(q)
  BY <1>2, SameRows
<1>4. StoredInv'
  BY <1>1, <1>2, <1>3 DEF IInv, StoredInv
<1>5. QED BY <1>2, <1>3, <1>4 DEF IInv

\* COMMIT: the transaction's rows are on disk, three tables at once.
LEMMA CommitIInv ==
    ASSUME RecordingAssumption, IInv, NEW r \in Submissions, Commit(r)
    PROVE  IInv' /\ disk'.decisions = Append(disk.decisions, DecisionOf(r))
                 /\ disk'.changes = Append(disk.changes, ChangeOf(r))
                 /\ disk'.activity = Append(disk.activity, Len(disk.decisions) + 1)
<1> USE DEF IInv
<1>1. pc[r] = "commit" /\ lock = r /\ pc[r] \in Steps
  BY DEF Commit, Runs, LockInv, OpenSteps, TxSteps, Steps
<1>2. disk' = tx /\ lock' = LockAfterClose(r) /\ Finish(r, "Recorded") /\ tx' = tx
  BY <1>1 DEF Commit, Committed, View, LockAfterClose
<1>3. /\ disk'.decisions = Append(disk.decisions, DecisionOf(r))
      /\ disk'.changes = Append(disk.changes, ChangeOf(r))
      /\ disk'.activity = Append(disk.activity, Len(disk.decisions) + 1)
  BY <1>1, <1>2 DEF TxInv
<1>4. /\ LockInv' /\ RunInv' /\ EntryInv' /\ TypeOK' /\ lock' # r /\ form' = form
      /\ form[r] \in Form
      /\ \A q \in Submissions : q # r => result'[q] = result[q]
  BY <1>1, <1>2, FinishKeeps DEF TypeOK, Results
<1>5. TxInv'
  <2>1. \A q \in Submissions : lock' # q
    BY <1>1, <1>2, RecordingAssumption DEF LockAfterClose, RecordingAssumption
  <2>2. QED BY <2>1 DEF TxInv
<1>6. /\ Len(disk'.decisions) = Len(disk.decisions) + 1
      /\ \A i \in DOMAIN disk.decisions : disk'.decisions[i] = disk.decisions[i]
      /\ disk'.decisions[Len(disk.decisions) + 1] = DecisionOf(r)
      /\ DOMAIN disk'.decisions = 1 .. (Len(disk.decisions) + 1)
      /\ DOMAIN disk.decisions = 1 .. Len(disk.decisions) /\ Len(disk.decisions) \in Nat
  BY <1>1, <1>3, RecordingAssumption, OwnRows, AppendProperties, LenProperties
     DEF TypeOK, Tables
<1>7. StoredInv'
  <2>1. \A q \in Submissions : DecisionOf(q)' = DecisionOf(q)
    BY <1>4 DEF DecisionOf
  <2>2. \A q \in Submissions : StoredDecision(q) => StoredDecision(q)'
    BY <1>6, <2>1 DEF StoredDecision
  <2>3. StoredDecision(r)'
    <3>1. Len(disk.decisions) + 1 \in DOMAIN disk'.decisions
      BY <1>6
    <3>2. QED BY <1>6, <2>1, <3>1 DEF StoredDecision
  <2>4. QED BY <1>4, <2>2, <2>3 DEF StoredInv
<1>8. Paired'
  <2>1. /\ Len(disk'.changes) = Len(disk.changes) + 1
        /\ \A i \in 1 .. Len(disk.changes) : disk'.changes[i] = disk.changes[i]
        /\ disk'.changes[Len(disk.changes) + 1] = ChangeOf(r)
    BY <1>1, <1>3, RecordingAssumption, OwnRows, AppendProperties, LenProperties
       DEF TypeOK, Tables
  <2>2. /\ Len(disk'.activity) = Len(disk.activity) + 1
        /\ \A i \in 1 .. Len(disk.activity) : disk'.activity[i] = disk.activity[i]
        /\ disk'.activity[Len(disk.activity) + 1] = Len(disk.decisions) + 1
    BY <1>3, <1>6, AppendProperties, LenProperties DEF TypeOK, Tables
  <2>3. /\ Len(disk.changes) = Len(disk.decisions) /\ Len(disk.activity) = Len(disk.decisions)
        /\ \A i \in 1 .. Len(disk.decisions) :
             /\ disk.changes[i] = [decision |-> i, project |-> disk.decisions[i].project,
                                   author |-> disk.decisions[i].author]
             /\ disk.activity[i] = i
    BY <1>6 DEF Paired, Ledger!Paired
  <2>4. ChangeOf(r) = [decision |-> Len(disk.decisions) + 1,
                       project |-> DecisionOf(r).project, author |-> DecisionOf(r).author]
    BY DEF ChangeOf, DecisionOf
  <2>5. ASSUME NEW i \in 1 .. (Len(disk.decisions) + 1)
        PROVE  /\ disk'.changes[i] = [decision |-> i, project |-> disk'.decisions[i].project,
                                      author |-> disk'.decisions[i].author]
               /\ disk'.activity[i] = i
    <3>1. CASE i \in 1 .. Len(disk.decisions)
      BY <1>6, <2>1, <2>2, <2>3, <3>1
    <3>2. CASE i = Len(disk.decisions) + 1
      BY <1>6, <2>1, <2>2, <2>3, <2>4, <3>2
    <3>3. QED BY <1>6, <3>1, <3>2
  <2>6. QED BY <1>6, <2>1, <2>2, <2>3, <2>5 DEF Paired, Ledger!Paired
<1>9. QED BY <1>3, <1>4, <1>5, <1>7, <1>8

\* After a crash only the committed rows are left, and what was reported.
LEMMA CrashIInv == ASSUME RecordingAssumption, IInv, Crash PROVE IInv'
<1> USE DEF IInv
<1>1. /\ lock' = Nobody /\ UNCHANGED <<disk, tx, form, result>>
      /\ \A s \in Sessions : entry'[s] = "Draft"
      /\ \A r \in Submissions : pc'[r] = IF pc[r] = "new" THEN "new" ELSE "done"
  BY DEF Crash
<1>2. TypeOK'
  BY DEF Crash, TypeOK, EntryStatus, Steps
<1>3. LockInv' /\ TxInv'
  BY <1>1, RecordingAssumption DEF RecordingAssumption, LockInv, TxInv, OpenSteps, TxSteps
<1>4. RunInv'
  BY <1>1 DEF RunInv, Steps, ReadSteps, TxSteps
<1>5. EntryInv'
  BY <1>1 DEF EntryInv
<1>6. StoredInv' /\ Paired'
  BY <1>1, SameRows DEF StoredInv
<1>7. QED BY <1>2, <1>3, <1>4, <1>5, <1>6

\* A run that cannot save: LockTimeout, or a statement of the transaction fails.
LEMMA SaveFailsIInv ==
    ASSUME RecordingAssumption, IInv, NEW r \in Submissions, pc[r] \in Steps, SaveFails(r)
    PROVE  IInv' /\ disk' = disk
BY GiveUpIInv DEF SaveFails, RolledBack

\* A run that ends before its transaction, without the lock.
LEMMA EarlyEndIInv ==
    ASSUME RecordingAssumption, IInv, NEW r \in Submissions, pc[r] \in ReadSteps,
           NEW answer \in {"Invalid", "none"}, Finish(r, answer),
           UNCHANGED <<disk, tx, lock>>
    PROVE  IInv'
<1>1. lock # r
  BY DEF IInv, LockInv, OpenSteps, TxSteps, ReadSteps
<1>2. lock' = LockAfterClose(r) /\ pc[r] \in Steps
  BY <1>1 DEF LockAfterClose, Steps
<1>3. QED BY <1>2, GiveUpIInv

LEMMA StutterIInv == ASSUME IInv, UNCHANGED vars PROVE IInv'
BY DEF IInv, vars, TypeOK, LockInv, TxInv, RunInv, StoredInv, StoredDecision, EntryInv,
       Paired, Ledger!Paired, DecisionOf, ChangeOf

\* One step of one run.
LEMMA AdvanceIInv ==
    ASSUME RecordingAssumption, IInv, NEW r \in Submissions, Advance(r)
    PROVE  IInv'
<1>1. CASE TraceLogged(r) \/ TraceLost(r)
  BY <1>1, TraceIInv
<1>2. CASE GetUser(r)
  <2>1. CASE ~form[r].blank /\ Continue(r)
    BY <1>2, <2>1, ReadIInv DEF GetUser, Runs, ReadSteps
  <2>2. CASE Finish(r, "Invalid")
    BY <1>2, <2>2, EarlyEndIInv DEF GetUser, Runs, ReadSteps
  <2>3. QED BY <1>2, <2>1, <2>2 DEF GetUser
<1>3. CASE GetProject(r)
  BY <1>3, ReadIInv DEF GetProject, Runs, ReadSteps
<1>4. CASE ReadBack(r)
  BY <1>4, ReadIInv DEF ReadBack, Runs
<1>5. CASE InsertDecision(r) \/ InsertChange(r) \/ LogActivity(r)
  BY <1>5, InsertDecisionIInv, InsertChangeIInv, LogActivityIInv
<1>6. CASE Commit(r)
  BY <1>6, CommitIInv
<1>7. CASE LockTimeout(r)
  BY <1>7, SaveFailsIInv DEF LockTimeout, Runs, Steps, TxSteps
<1>8. CASE Mark(r)
  BY <1>8, MarkIInv
<1>9. QED BY <1>1, <1>2, <1>3, <1>4, <1>5, <1>6, <1>7, <1>8 DEF Advance

LEMMA FailsIInv ==
    ASSUME RecordingAssumption, IInv, NEW r \in Submissions, StatementFails(r)
    PROVE  IInv'
<1>1. CASE \E step \in TxSteps : Runs(r, step) /\ SaveFails(r)
  BY <1>1, SaveFailsIInv DEF Runs, Steps
<1>2. CASE /\ \E step \in ReadSteps : Runs(r, step)
           /\ Finish(r, "none")
           /\ UNCHANGED <<disk, tx, lock>>
  BY <1>2, EarlyEndIInv DEF Runs
<1>3. QED BY <1>1, <1>2 DEF StatementFails

LEMMA StepIInv == ASSUME RecordingAssumption, IInv, [Next]_vars PROVE IInv'
<1>1. CASE \E r \in Submissions : Submit(r) \/ Advance(r) \/ StatementFails(r)
  BY <1>1, SubmitIInv, AdvanceIInv, FailsIInv
<1>2. CASE \E s \in Sessions : Close(s) \/ StartNew(s)
  BY <1>2, ButtonIInv
<1>3. CASE Crash
  BY <1>3, CrashIInv
<1>4. CASE UNCHANGED vars
  BY <1>4, StutterIInv
<1>5. QED BY <1>1, <1>2, <1>3, <1>4 DEF Next

LEMMA IInvAlways == Spec => []IInv
<1>1. Init => IInv
  BY InitIInv, RecordingAssumption
<1>2. IInv /\ [Next]_vars => IInv'
  BY StepIInv, RecordingAssumption
<1>3. QED BY <1>1, <1>2, PTL DEF Spec

--------------------------------------------------------------------------------
\* Tables, screens and runs keep their types.
THEOREM RecordingTypeCorrect == Spec => []TypeOK
<1>1. IInv => TypeOK
  BY DEF IInv
<1>2. QED BY <1>1, IInvAlways, PTL

\* Requirement 15's rule: a saved decision is never left without its entry in the
\* change history, nor without its entry in the activity log.
THEOREM DecisionsPaired == Spec => []Paired
<1>1. IInv => Paired
  BY DEF IInv
<1>2. QED BY <1>1, IInvAlways, PTL

\* When the screen says Recorded or Closed, a decision submitted through its entry
\* is in the tables, however the session's runs overlap.
THEOREM ScreenIsBacked == Spec => []ScreenBacked
<1>1. IInv => ScreenBacked
  BY DEF IInv, EntryInv, StoredInv, StoredDecision, ScreenBacked
<1>2. QED BY <1>1, IInvAlways, PTL

\* The write lock is held by a run inside its transaction, or by nobody.
THEOREM LockNeverLeaks == Spec => []LockInsideTransaction
<1>1. IInv => LockInsideTransaction
  BY DEF IInv, TypeOK, LockInv, OpenSteps, LockInsideTransaction
<1>2. QED BY <1>1, IInvAlways, PTL
--------------------------------------------------------------------------------
(* The handler implements the ledger: COMMIT is the step in which the decision *)
(* is recorded; every other step of a run is invisible or gives up.            *)

Outcomes == [r \in Submissions |-> Outcome(r)]

\* A step that leaves the tables alone and one run's outcome to become another.
LEMMA Unmoved ==
    ASSUME NEW r \in Submissions, pc'[r] = pc[r], result'[r] = result[r]
    PROVE  Outcome(r)' = Outcome(r)
BY DEF Outcome

LEMMA OneMoves ==
    ASSUME NEW r \in Submissions, NEW o, Outcome(r)' = o,
           \A q \in Submissions : q # r => pc'[q] = pc[q] /\ result'[q] = result[q]
    PROVE  Outcomes' = [Outcomes EXCEPT ![r] = o]
<1>1. \A q \in Submissions : q # r => Outcome(q)' = Outcome(q)
  BY Unmoved
<1>2. QED BY <1>1 DEF Outcomes

LEMMA SubmitRefines ==
    ASSUME IInv, NEW r \in Submissions, Submit(r)
    PROVE  Ledger!Submit(r)
<1>1. /\ pc[r] = "new" /\ pc'[r] = "getUser" /\ disk' = disk
      /\ \A q \in Submissions : q # r => /\ pc'[q] = pc[q] /\ result'[q] = result[q]
                                         /\ form'[q] = form[q]
  BY DEF IInv, TypeOK, Submit
<1>2. Outcome(r) = "new" /\ Outcome(r)' = "open"
  BY <1>1 DEF Outcome, Steps, ReadSteps
<1>3. Outcomes' = [Outcomes EXCEPT ![r] = "open"]
  BY <1>1, <1>2, OneMoves
<1>4. QED BY <1>1, <1>2, <1>3 DEF Ledger!Submit, Ledger!Settle, Outcomes

LEMMA GiveUpRefines ==
    ASSUME IInv, NEW r \in Submissions, pc[r] \in Steps, disk' = disk,
           NEW answer \in {"Invalid", "SaveFailed", "none"}, Finish(r, answer)
    PROVE  Ledger!GiveUp(r)
<1>1. /\ pc'[r] \in {"mark", "done"} /\ result'[r] = answer /\ form' = form
      /\ \A q \in Submissions : q # r => pc'[q] = pc[q] /\ result'[q] = result[q]
  BY DEF IInv, TypeOK, Finish
<1>2. Outcome(r) = "open" /\ Outcome(r)' = "dropped"
  BY <1>1 DEF Outcome, Steps, ReadSteps, TxSteps
<1>3. Outcomes' = [Outcomes EXCEPT ![r] = "dropped"]
  BY <1>1, <1>2, OneMoves
<1>4. QED BY <1>1, <1>2, <1>3 DEF Ledger!GiveUp, Ledger!Settle, Outcomes

LEMMA CommitRefines ==
    ASSUME RecordingAssumption, IInv, NEW r \in Submissions, Commit(r)
    PROVE  Ledger!Record(r)
<1>1. pc[r] = "commit" /\ pc[r] \in Steps /\ ~form[r].blank
  BY DEF IInv, RunInv, Commit, Runs, Steps, ReadSteps, TxSteps
<1>2. /\ disk'.decisions = Append(disk.decisions, DecisionOf(r))
      /\ disk'.changes = Append(disk.changes, ChangeOf(r))
      /\ disk'.activity = Append(disk.activity, Len(disk.decisions) + 1)
  BY CommitIInv
<1>3. Len(disk'.decisions) = Len(disk.decisions) + 1
  BY <1>1, <1>2, RecordingAssumption, OwnRows, AppendProperties DEF IInv, TypeOK, Tables
<1>4. /\ pc'[r] = "mark" /\ result'[r] = "Recorded" /\ form' = form
      /\ \A q \in Submissions : q # r => pc'[q] = pc[q] /\ result'[q] = result[q]
  BY DEF IInv, TypeOK, Commit, Finish
<1>5. Outcome(r) = "open" /\ Outcome(r)' = "stored"
  BY <1>1, <1>4 DEF Outcome, Steps, ReadSteps, TxSteps
<1>6. Outcomes' = [Outcomes EXCEPT ![r] = "stored"]
  BY <1>4, <1>5, OneMoves
<1>7. QED BY <1>1, <1>2, <1>3, <1>4, <1>5, <1>6
          DEF Ledger!Record, Ledger!Settle, Outcomes, DecisionOf, ChangeOf

\* Steps of which the ledger sees nothing.
LEMMA InvisibleStep ==
    ASSUME IInv, UNCHANGED <<disk, form>>,
           \A r \in Submissions : Outcome(r)' = Outcome(r)
    PROVE  UNCHANGED Ledger!vars
<1>1. Outcomes' = Outcomes
  BY DEF Outcomes
<1>2. QED BY <1>1 DEF Ledger!vars, Outcomes

LEMMA ContinueIsInvisible ==
    ASSUME IInv, NEW r \in Submissions, Continue(r), disk' = disk,
           pc[r] \in Steps \ {"commit"}
    PROVE  UNCHANGED Ledger!vars
<1>1. /\ pc'[r] \in Steps /\ result' = result /\ form' = form
      /\ \A q \in Submissions : q # r => pc'[q] = pc[q]
  BY DEF IInv, TypeOK, Continue, NextStep, Steps, ReadSteps, TxSteps
<1>2. Outcome(r)' = "open" /\ Outcome(r) = "open"
  BY <1>1 DEF Outcome, Steps, ReadSteps, TxSteps
<1>3. \A q \in Submissions : Outcome(q)' = Outcome(q)
  BY <1>1, <1>2, Unmoved
<1>4. QED BY <1>1, <1>3, InvisibleStep

LEMMA MarkIsInvisible ==
    ASSUME IInv, NEW r \in Submissions, Mark(r)
    PROVE  UNCHANGED Ledger!vars
<1>1. /\ pc[r] = "mark" /\ pc'[r] = "done" /\ result' = result /\ UNCHANGED <<disk, form>>
      /\ \A q \in Submissions : q # r => pc'[q] = pc[q]
  BY DEF IInv, TypeOK, Mark
<1>2. Outcome(r)' = Outcome(r)
  BY <1>1 DEF Outcome, Steps, ReadSteps, TxSteps
<1>3. \A q \in Submissions : Outcome(q)' = Outcome(q)
  BY <1>1, <1>2, Unmoved
<1>4. QED BY <1>1, <1>3, InvisibleStep

LEMMA CrashRefines ==
    ASSUME IInv, Crash
    PROVE  Ledger!Lose
<1>1. /\ UNCHANGED <<disk, form, result>>
      /\ \A r \in Submissions : pc'[r] = IF pc[r] = "new" THEN "new" ELSE "done"
  BY DEF Crash
<1>2. ASSUME NEW r \in Submissions
      PROVE  Outcome(r)' = IF Outcome(r) = "open" THEN "dropped" ELSE Outcome(r)
  <2>1. pc[r] \in Steps \cup {"new", "mark", "done"}
    BY DEF IInv, TypeOK
  <2>2. CASE pc[r] \in Steps
    <3>1. result[r] = "none" /\ pc[r] # "new"
      BY <2>2 DEF IInv, RunInv, Steps, ReadSteps, TxSteps
    <3>2. QED BY <1>1, <2>2, <3>1 DEF Outcome, Steps, ReadSteps, TxSteps
  <2>3. CASE pc[r] \in {"new", "mark", "done"}
    BY <1>1, <2>3 DEF Outcome, Steps, ReadSteps, TxSteps
  <2>4. QED BY <2>1, <2>2, <2>3
<1>3. QED BY <1>1, <1>2 DEF Ledger!Lose

LEMMA StepRefines ==
    ASSUME RecordingAssumption, IInv, [Next]_vars
    PROVE  [Ledger!Next]_(Ledger!vars)
<1>1. ASSUME NEW r \in Submissions, Submit(r)
      PROVE  Ledger!Next
  BY <1>1, SubmitRefines DEF Ledger!Next
<1>2. ASSUME NEW r \in Submissions, Advance(r)
      PROVE  [Ledger!Next]_(Ledger!vars)
  <2>1. CASE Commit(r)
    BY <2>1, CommitRefines DEF Ledger!Next
  <2>2. CASE LockTimeout(r)
    BY <2>2, GiveUpRefines DEF LockTimeout, SaveFails, RolledBack, Runs, Steps, TxSteps,
                               Ledger!Next
  <2>3. CASE GetUser(r)
    <3>1. CASE Continue(r)
      BY <2>3, <3>1, ContinueIsInvisible DEF GetUser, Runs, Steps, ReadSteps
    <3>2. CASE Finish(r, "Invalid")
      BY <2>3, <3>2, GiveUpRefines DEF GetUser, Runs, Steps, ReadSteps, Ledger!Next
    <3>3. QED BY <2>3, <3>1, <3>2 DEF GetUser
  <2>4. CASE TraceLogged(r) \/ TraceLost(r)
    <3>1. UNCHANGED <<disk, form, pc, result>>
      BY <2>4 DEF TraceLogged, TraceLost
    <3>2. QED BY <3>1, Unmoved, InvisibleStep
  <2>5. CASE \/ GetProject(r) \/ InsertDecision(r) \/ InsertChange(r) \/ ReadBack(r)
             \/ LogActivity(r)
    <3>1. Continue(r) /\ disk' = disk /\ pc[r] \in Steps \ {"commit"}
      BY <2>5 DEF GetProject, InsertDecision, InsertChange, ReadBack, LogActivity, Write,
                  Runs, Steps, ReadSteps, TxSteps
    <3>2. QED BY <3>1, ContinueIsInvisible
  <2>6. CASE Mark(r)
    BY <2>6, MarkIsInvisible
  <2>7. QED BY <1>2, <2>1, <2>2, <2>3, <2>4, <2>5, <2>6 DEF Advance
<1>3. ASSUME NEW r \in Submissions, StatementFails(r)
      PROVE  Ledger!Next
  <2>1. pc[r] \in Steps
    BY <1>3 DEF StatementFails, Runs, Steps
  <2>2. disk' = disk /\ (Finish(r, "SaveFailed") \/ Finish(r, "none"))
    BY <1>3 DEF StatementFails, SaveFails, RolledBack
  <2>3. QED BY <2>1, <2>2, GiveUpRefines DEF Ledger!Next
<1>4. ASSUME NEW s \in Sessions, Close(s) \/ StartNew(s)
      PROVE  UNCHANGED Ledger!vars
  <2>1. UNCHANGED <<disk, form, pc, result>>
    BY <1>4 DEF Close, StartNew
  <2>2. QED BY <2>1, Unmoved, InvisibleStep
<1>5. CASE Crash
  BY <1>5, CrashRefines DEF Ledger!Next
<1>6. CASE UNCHANGED vars
  <2>1. UNCHANGED <<disk, form, pc, result>>
    BY <1>6 DEF vars
  <2>2. QED BY <2>1, Unmoved, InvisibleStep
<1>7. QED BY <1>1, <1>2, <1>3, <1>4, <1>5, <1>6 DEF Next

\* save_decision is atomic: whatever fails, stops or overlaps, the tables behave
\* as if every submission were recorded in one step, once, or not at all.
THEOREM RecordingImplementsLedger == Spec => ImplementsLedger
<1>1. Init => Ledger!Init
  BY DEF Init, Ledger!Init, Empty, Outcome
<1>2. IInv /\ [Next]_vars => [Ledger!Next]_(Ledger!vars)
  BY StepRefines, RecordingAssumption
<1>3. QED BY <1>1, <1>2, IInvAlways, PTL DEF Spec, Ledger!Spec, ImplementsLedger
================================================================================
