----------------------------- MODULE ClientRegistry ----------------------------
(****************************************************************************)
(* What the digital client file promises (Requirement 1), with every        *)
(* operation as ONE atomic step whose rules hold at the moment it takes     *)
(* effect.  CustomerFile is the implementation: a handler of several        *)
(* database calls, with no transaction around them.                         *)
(****************************************************************************)
EXTENDS ClientRecords

VARIABLES
    clients,      \* ClientId  -> ClientRow
    clientSeq,    \* the last client id given
    projects,     \* ProjectId -> ProjectRow
    projectSeq    \* the last project id given

vars == <<clients, clientSeq, projects, projectSeq>>

TypeOK ==
    /\ clients \in [ClientId -> ClientRow]
    /\ clientSeq \in 0 .. MaxClients
    /\ projects \in [ProjectId -> ProjectRow]
    /\ projectSeq \in 0 .. MaxProjects

Init ==
    /\ clients = [c \in ClientId |-> NoClient]
    /\ clientSeq = 0
    /\ projects = [p \in ProjectId |-> NoProject]
    /\ projectSeq = 0

\* No client other than c has phone p or e-mail e.
Unused(p, e, c) ==
    /\ PhoneHolders(clients, p) \subseteq {c}
    /\ EmailHolders(clients, e) \subseteq {c}

\* A new client has a phone and an e-mail that no client has.
CreateClient(p, e) ==
    /\ clientSeq < MaxClients
    /\ Unused(p, e, 0)
    /\ clientSeq' = clientSeq + 1
    /\ clients' = [clients EXCEPT ![clientSeq'] =
                        [status |-> "Active", phone |-> p, email |-> e]]
    /\ UNCHANGED <<projects, projectSeq>>

\* The details of an active client change; it stays active.
UpdateClient(c, p, e) ==
    /\ IsActive(clients, c)
    /\ Unused(p, e, c)
    /\ clients' = [clients EXCEPT ![c] = [status |-> "Active", phone |-> p, email |-> e]]
    /\ UNCHANGED <<clientSeq, projects, projectSeq>>

\* A client with a history is archived ...
ArchiveClient(c) ==
    /\ IsActive(clients, c)
    /\ ProjectsOf(projects, c) # {}
    /\ clients' = [clients EXCEPT ![c].status = "Archived"]
    /\ UNCHANGED <<clientSeq, projects, projectSeq>>

\* ... and one without is deleted.
DeleteClient(c) ==
    /\ IsActive(clients, c)
    /\ ProjectsOf(projects, c) = {}
    /\ clients' = [clients EXCEPT ![c] = NoClient]
    /\ UNCHANGED <<clientSeq, projects, projectSeq>>

\* A project begins Active, linked to an active client.
LinkProject(c) ==
    /\ IsActive(clients, c)
    /\ projectSeq < MaxProjects
    /\ projectSeq' = projectSeq + 1
    /\ projects' = [projects EXCEPT ![projectSeq'] = [owner |-> c, status |-> "Active"]]
    /\ UNCHANGED <<clients, clientSeq>>

\* The status of an active client's project follows the project lifecycle.
SetProjectStatus(p, st) ==
    /\ p <= projectSeq
    /\ IsActive(clients, projects[p].owner)
    /\ CanTransitionTo(projects[p].status, st)
    /\ projects' = [projects EXCEPT ![p].status = st]
    /\ UNCHANGED <<clients, clientSeq, projectSeq>>

Next ==
    \/ \E p \in Phones, e \in Emails : CreateClient(p, e)
    \/ \E c \in ClientId, p \in Phones, e \in Emails : UpdateClient(c, p, e)
    \/ \E c \in ClientId : ArchiveClient(c) \/ DeleteClient(c) \/ LinkProject(c)
    \/ \E p \in ProjectId, st \in ProjectStatus : SetProjectStatus(p, st)

Spec == Init /\ [][Next]_vars
--------------------------------------------------------------------------------
\* Two clients never share a phone or an e-mail.
DetailsUnique ==
    \A c, d \in ClientId :
        (c # d /\ IsPresent(clients, c) /\ IsPresent(clients, d)) =>
            /\ clients[c].phone # clients[d].phone
            /\ clients[c].email # clients[d].email

\* Exactly the ids given out can be in use, and a project's client exists.
TablesConsistent ==
    /\ \A c \in ClientId : IsPresent(clients, c) => c <= clientSeq
    /\ \A p \in ProjectId : p <= projectSeq <=> projects[p] # NoProject
    /\ \A p \in ProjectId : p <= projectSeq => IsPresent(clients, projects[p].owner)

\* An archived client is a client with a history.
ArchivedHasHistory ==
    \A c \in ClientId : IsArchived(clients, c) => ProjectsOf(projects, c) # {}

\* An archived client's record is read-only and archiving is not undone.
ArchivedIsFrozen ==
    [][\A c \in ClientId : IsArchived(clients, c) => clients'[c] = clients[c]]_vars

\* No project is added to an archived client, and none of its projects changes
\* status.
ArchivedProjectsFrozen ==
    [][\A c \in ClientId, p \in ProjectId :
        (IsArchived(clients, c) /\ projects'[p].owner = c) =>
            projects'[p] = projects[p]]_vars

\* A completed project is never reopened and no project changes its client.
CompletedIsFinal ==
    [][\A p \in ProjectId :
        p <= projectSeq =>
            /\ projects[p].status = "Completed" => projects'[p] = projects[p]
            /\ projects'[p].owner = projects[p].owner]_vars

\* A deleted client stays deleted: its id is never given to another.
DeletedStaysDeleted ==
    [][\A c \in ClientId :
        (c <= clientSeq /\ ~IsPresent(clients, c)) => ~IsPresent(clients', c)]_vars
================================================================================
