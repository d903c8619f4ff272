----------------------------- MODULE ChangeApproval ----------------------------
(****************************************************************************)
(* Changes and meetings that wait for the client:                           *)
(* ArchitectController.document_change and                                  *)
(* CustomerController.schedule_meeting create them,                         *)
(* ClientController.decide_change and confirm_meeting settle them.          *)
(*                                                                          *)
(* A handler is one script thread of the portal.  A client has one account  *)
(* and may be logged in with it in several browsers; and in one browser     *)
(* too a second click starts a thread of its own while the controller of    *)
(* the first still runs (Streamlit's fastReruns, on unless configured), so  *)
(* any number of handlers act for one client at once.  Every repository     *)
(* call has a connection of its own, so they interleave between the calls;  *)
(* a handler works on the row it read first, and its UPDATE names the row   *)
(* by id alone.                                                             *)
(****************************************************************************)
EXTENDS Naturals, Sequences

CONSTANTS
    Clients,      \* clients with a project: delete_client refuses them
    Handlers,     \* script threads of the portal
    ClientOf,     \* [Handlers -> Clients]: User.client_id of the account it acts for
    Projects,     \* rows of Projects; never deleted, their client never changes
    OwnerOf,      \* [Projects -> Clients]: Projects.clientId
    None,         \* no row, no client
    MaxRows       \* bound: rows of Changes, and of Meetings

ASSUME ApprovalAssumption ==
    /\ ClientOf \in [Handlers -> Clients]
    /\ OwnerOf \in [Projects -> Clients]
    /\ None \notin Clients \cup Projects
    /\ MaxRows \in Nat

VARIABLES
    changes,     \* table Changes: row i has changeId i
    meetings,    \* table Meetings
    pc,          \* the next repository call of each handler
    asked,       \* the id and the verdict it was called with
    seen         \* the row it read first

vars == <<changes, meetings, pc, asked, seen>>

Verdicts == {"Approved", "Rejected"}

ChangeRow  == [project : Projects, status : {"Pending"} \cup Verdicts,
               decidedBy : Clients \cup {None}]
MeetingRow == [project : Projects, status : {"Proposed", "Confirmed"}]

Calls == {"getChange", "getChangeProject", "setChangeDecision",
          "getMeeting", "getMeetingProject", "confirmMeeting"}

\* An id of no row comes from a page that is out of date or from another caller.
Ids     == 1 .. MaxRows + 1
Asked   == [id : Ids, verdict : Verdicts]
Nothing == [id |-> 0]

\* The calls before which a handler holds a row of Changes, or of Meetings.
HoldsChange  == {"getChangeProject", "setChangeDecision"}
HoldsMeeting == {"getMeetingProject", "confirmMeeting"}

TypeOK ==
    /\ changes \in Seq(ChangeRow) /\ Len(changes) <= MaxRows
    /\ meetings \in Seq(MeetingRow) /\ Len(meetings) <= MaxRows
    /\ pc \in [Handlers -> Calls \cup {"idle"}]
    /\ asked \in [Handlers -> Asked \cup {Nothing}]
    /\ seen \in [Handlers -> ChangeRow \cup MeetingRow \cup {None}]
    /\ \A s \in Handlers :
         /\ pc[s] # "idle" => asked[s] \in Asked
         /\ pc[s] \in HoldsChange => seen[s] \in ChangeRow
         /\ pc[s] \in HoldsMeeting => seen[s] \in MeetingRow

Init ==
    /\ changes = <<>>
    /\ meetings = <<>>
    /\ pc = [s \in Handlers |-> "idle"]
    /\ asked = [s \in Handlers |-> Nothing]
    /\ seen = [s \in Handlers |-> None]
--------------------------------------------------------------------------------
(* The office. *)

\* document_change: get_project finds the project, create_project_change inserts.
DocumentChange(p) ==
    /\ Len(changes) < MaxRows
    /\ changes' = Append(changes, [project |-> p, status |-> "Pending",
                                   decidedBy |-> None])
    /\ UNCHANGED <<meetings, pc, asked, seen>>

\* schedule_meeting, whose handler is in CustomerFile, inserts a proposal.
ProposeMeeting(p) ==
    /\ Len(meetings) < MaxRows
    /\ meetings' = Append(meetings, [project |-> p, status |-> "Proposed"])
    /\ UNCHANGED <<changes, pc, asked, seen>>
--------------------------------------------------------------------------------
(* The portal. *)

\* decide_change or confirm_meeting is called; permission and the linked client
\* are those of the account.  A meeting can only be approved.
Call(s, first, verdicts) ==
    /\ pc[s] = "idle"
    /\ \E id \in Ids, v \in verdicts :
         asked' = [asked EXCEPT ![s] = [id |-> id, verdict |-> v]]
    /\ pc' = [pc EXCEPT ![s] = first]
    /\ UNCHANGED <<changes, meetings, seen>>

Request(s) == Call(s, "getChange", Verdicts) \/ Call(s, "getMeeting", {"Approved"})

Continue(s, next) == pc' = [pc EXCEPT ![s] = next]

\* The handler returns, with success, with a failure or with an exception.
Return(s) ==
    /\ pc' = [pc EXCEPT ![s] = "idle"]
    /\ asked' = [asked EXCEPT ![s] = Nothing]
    /\ seen' = [seen EXCEPT ![s] = None]

\* Mutant: the row is looked up again and not kept.
ForgetRow(s, row) == seen

RememberRow(s, row) == [seen EXCEPT ![s] = row]

\* get_change or get_meeting: SELECT by id; no row ends the handler.
ReadRow(s, table, next) ==
    \/ /\ asked[s].id \in DOMAIN table
       /\ seen' = RememberRow(s, table[asked[s].id])
       /\ Continue(s, next)
       /\ UNCHANGED asked
    \/ /\ asked[s].id \notin DOMAIN table
       /\ Return(s)

GetChange(s) ==
    /\ pc[s] = "getChange"
    /\ ReadRow(s, changes, "getChangeProject")
    /\ UNCHANGED <<changes, meetings>>

GetMeeting(s) ==
    /\ pc[s] = "getMeeting"
    /\ ReadRow(s, meetings, "getMeetingProject")
    /\ UNCHANGED <<changes, meetings>>

\* Mutant: the row's project is not compared with the client.
AnyProject(s) == TRUE

\* The project of the row belongs to the handler's client.
Own(s) == OwnerOf[seen[s].project] = ClientOf[s]

\* Mutant: the status of the row is not looked at.
AnyStatus(s) == TRUE

\* The change awaits approval, as the row read in GetChange has it.
Awaits(s) == seen[s].status = "Pending"

\* get_project, then the guards.
CheckChange(s) ==
    /\ pc[s] = "getChangeProject"
    /\ \/ Own(s) /\ Awaits(s) /\ Continue(s, "setChangeDecision")
          /\ UNCHANGED <<asked, seen>>
       \/ ~(Own(s) /\ Awaits(s)) /\ Return(s)
    /\ UNCHANGED <<changes, meetings>>

CheckMeeting(s) ==
    /\ pc[s] = "getMeetingProject"
    /\ \/ Own(s) /\ Continue(s, "confirmMeeting") /\ UNCHANGED <<asked, seen>>
       \/ ~Own(s) /\ Return(s)
    /\ UNCHANGED <<changes, meetings>>

\* set_change_decision: UPDATE ... WHERE changeId = ?, whatever the status is now.
SetChangeDecision(s) ==
    /\ pc[s] = "setChangeDecision"
    /\ changes' = [changes EXCEPT ![asked[s].id].status = asked[s].verdict,
                                  ![asked[s].id].decidedBy = ClientOf[s]]
    /\ Return(s)
    /\ UNCHANGED meetings

\* confirm_meeting: UPDATE ... WHERE meetingId = ?; confirming twice is harmless.
ConfirmMeeting(s) ==
    /\ pc[s] = "confirmMeeting"
    /\ meetings' = [meetings EXCEPT ![asked[s].id].status = "Confirmed"]
    /\ Return(s)
    /\ UNCHANGED changes

\* A write waits for the database's lock too long: the exception leaves the
\* controller and the page shows an error.
LockTimeout(s) ==
    /\ pc[s] \in {"setChangeDecision", "confirmMeeting"}
    /\ Return(s)
    /\ UNCHANGED <<changes, meetings>>

\* The server stops: the handlers are gone, the tables are not.
Crash ==
    /\ pc' = [s \in Handlers |-> "idle"]
    /\ asked' = [s \in Handlers |-> Nothing]
    /\ seen' = [s \in Handlers |-> None]
    /\ UNCHANGED <<changes, meetings>>
--------------------------------------------------------------------------------
\* The handler of s moves on by itself.
Advance(s) ==
    \/ GetChange(s)
    \/ CheckChange(s)
    \/ SetChangeDecision(s)
    \/ GetMeeting(s)
    \/ CheckMeeting(s)
    \/ ConfirmMeeting(s)
    \/ LockTimeout(s)

Next ==
    \/ \E p \in Projects : DocumentChange(p) \/ ProposeMeeting(p)
    \/ \E s \in Handlers : Request(s) \/ Advance(s)
    \/ Crash

Spec == Init /\ [][Next]_vars
--------------------------------------------------------------------------------
(* Properties *)

Decided(i)   == i \in DOMAIN changes /\ changes[i].status \in Verdicts
Confirmed(i) == i \in DOMAIN meetings /\ meetings[i].status = "Confirmed"

\* A change is decided by the account of its own client, and by nobody else.
DecidedByOwner ==
    \A i \in DOMAIN changes :
        changes[i].decidedBy = IF Decided(i) THEN OwnerOf[changes[i].project] ELSE None

\* Handlers that hold change i as they saw it, pending.
LateDecisions(i) ==
    {s \in Handlers : pc[s] \in HoldsChange /\ asked[s].id = i /\ Awaits(s)}

\* A decision is overturned only by handlers that read the change before it was
\* decided: no handler joins them afterwards, and every new decision uses one up.
OverturnsRunOut ==
    [][\A i \in DOMAIN changes : Decided(i) =>
         /\ LateDecisions(i)' \subseteq LateDecisions(i)
         /\ changes'[i] # changes[i] => LateDecisions(i)' # LateDecisions(i)]_vars

\* A meeting becomes confirmed only in a handler of its own client, and is never
\* a proposal again.
MeetingsConfirmedByOwner ==
    [][\A i \in DOMAIN meetings : meetings'[i] # meetings[i] =>
         /\ ~Confirmed(i) /\ Confirmed(i)'
         /\ \E s \in Handlers :
              pc[s] = "confirmMeeting" /\ asked[s].id = i
                /\ ClientOf[s] = OwnerOf[meetings[i].project]]_vars
================================================================================
