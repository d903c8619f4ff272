----------------------------- MODULE ClientRecords -----------------------------
(****************************************************************************)
(* The rows of the Clients and Projects tables and the lifecycles of the    *)
(* two business objects (models/client.py, models/project.py, init_db.py).  *)
(*                                                                          *)
(* A client is reduced to what Requirement 1 distinguishes: its lifecycle   *)
(* status, its phone and its e-mail (already normalised; two e-mails that   *)
(* differ only in case are one member of Emails).  Ids are AUTOINCREMENT    *)
(* numbers: 1, 2, 3, ... and never given twice.                             *)
(****************************************************************************)
EXTENDS Naturals

CONSTANTS
    MaxClients,    \* bound: ids the Clients table gives out
    MaxProjects,   \* bound: ids the Projects table gives out
    Phones,        \* normalised phone numbers
    Emails,        \* normalised e-mail addresses
    None           \* no phone, no e-mail

ASSUME RecordsAssumption ==
    /\ MaxClients \in Nat
    /\ MaxProjects \in Nat
    /\ None \notin Phones \cup Emails

ClientId  == 1 .. MaxClients
ProjectId == 1 .. MaxProjects

\* ClientStatus; "Absent" is a row that does not exist (never or no longer).
ClientStatus == {"Active", "Archived"}
NoClient     == [status |-> "Absent", phone |-> None, email |-> None]
ClientRow    == {NoClient} \cup [status : ClientStatus, phone : Phones, email : Emails]

ProjectStatus == {"Active", "OnHold", "Completed"}
NoProject     == [owner |-> 0, status |-> "Absent"]
ProjectRow    == {NoProject} \cup [owner : ClientId, status : ProjectStatus]

\* Project.available_next_statuses: work is paused, resumed and completed;
\* Completed has no successor.
AvailableNextStatuses ==
    [Active    |-> {"OnHold", "Completed"},
     OnHold    |-> {"Active", "Completed"},
     Completed |-> {}]

\* Mutant: any other status will do.
AnyOtherStatus(from, to) == from # to

\* Project.can_transition_to (a transition to the same status is refused too).
CanTransitionTo(from, to) == to \in AvailableNextStatuses[from]

\* Rows of table cs that hold phone p (find_client_by_phone) or e-mail e
\* (find_client_by_email), and rows of table ps linked to client c.
PhoneHolders(cs, p) == {c \in ClientId : cs[c].phone = p}
EmailHolders(cs, e) == {c \in ClientId : cs[c].email = e}
ProjectsOf(ps, c)   == {p \in ProjectId : ps[p].owner = c}

\* What a table says of one row.
IsPresent(cs, c)  == cs[c].status # "Absent"
IsActive(cs, c)   == cs[c].status = "Active"
IsArchived(cs, c) == cs[c].status = "Archived"
================================================================================
