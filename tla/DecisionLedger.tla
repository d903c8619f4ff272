----------------------------- MODULE DecisionLedger ----------------------------
(****************************************************************************)
(* What Requirement 15 promises of the tables: a submitted decision, its    *)
(* entry in the change history and its entry in the activity log are stored *)
(* in ONE step, once, or not at all.  DecisionRecording implements it.      *)
(****************************************************************************)
EXTENDS Naturals, Sequences

CONSTANTS
    Submissions,    \* the form's submissions, each with an identity of its own
    Author          \* [Submissions -> architects]

VARIABLES
    decisions,   \* table DecisionLog: row i has decisionId i
    changes,     \* table ChangeHistory
    activity,    \* ids of the decisions that have a row in ActivityLog
    form,        \* what was submitted: project, text, is the text blank
    outcome      \* what became of each submission

vars == <<decisions, changes, activity, form, outcome>>

Outcomes == {"new", "open", "stored", "dropped"}

Init ==
    /\ decisions = <<>>
    /\ changes = <<>>
    /\ activity = <<>>
    /\ outcome = [r \in Submissions |-> "new"]

Settle(r, from, to) ==
    /\ outcome[r] = from
    /\ outcome' = [outcome EXCEPT ![r] = to]

\* The architect submits the form: its fields are those of r from now on.
Submit(r) ==
    /\ Settle(r, "new", "open")
    /\ \A q \in Submissions \ {r} : form'[q] = form[q]
    /\ UNCHANGED <<decisions, changes, activity>>

\* The decision is saved: one row in each table, of the fields submitted.
Record(r) ==
    /\ Settle(r, "open", "stored")
    /\ ~form[r].blank
    /\ decisions' = Append(decisions, [project |-> form[r].project,
                                       author |-> Author[r], text |-> form[r].text])
    /\ changes' = Append(changes, [decision |-> Len(decisions'),
                                   project |-> form[r].project, author |-> Author[r]])
    /\ activity' = Append(activity, Len(decisions'))
    /\ UNCHANGED form

\* The decision is refused or cannot be saved: nothing is stored.
GiveUp(r) ==
    /\ Settle(r, "open", "dropped")
    /\ UNCHANGED <<decisions, changes, activity, form>>

\* The server restarts: what was not stored is not going to be.
Lose ==
    /\ outcome' = [r \in Submissions |-> IF outcome[r] = "open" THEN "dropped"
                                                                ELSE outcome[r]]
    /\ UNCHANGED <<decisions, changes, activity, form>>

Next ==
    \/ \E r \in Submissions : Submit(r) \/ Record(r) \/ GiveUp(r)
    \/ Lose

Spec == Init /\ [][Next]_vars
--------------------------------------------------------------------------------
\* Every decision has exactly one entry in the change history, of the same
\* project and architect, and exactly one in the activity log.
Paired ==
    /\ Len(changes) = Len(decisions)
    /\ Len(activity) = Len(decisions)
    /\ \A i \in DOMAIN decisions :
         /\ changes[i] = [decision |-> i, project |-> decisions[i].project,
                          author |-> decisions[i].author]
         /\ activity[i] = i
================================================================================
