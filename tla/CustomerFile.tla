------------------------------ MODULE CustomerFile -----------------------------
(****************************************************************************)
(* Requirement 1 as the code runs it: controllers/customer_controller.py    *)
(* (create, update, delete/archive, link project, project status, meeting), *)
(* ManagerController.send_reminder_to_client and                            *)
(* ClientController.submit_inquiry over repositories/db_repository.py.      *)
(*                                                                          *)
(* Every click starts a run of the page in a script thread, which calls the *)
(* controller: a handler.  Handlers of several browsers run side by side,   *)
(* and so do those of one browser, because a click does not wait for the    *)
(* run before it.  A repository method opens a connection of its own, so    *)
(* ONE call is one atomic read or one transaction, and one action here;     *)
(* nothing is held between two calls of a handler.  pc[s] names the next    *)
(* call of handler s, frame[s] holds its local variables.                   *)
(****************************************************************************)
EXTENDS ClientRecords, Permissions, FiniteSets

CONSTANTS
    Handlers,        \* script threads: what may be in progress at a time
    RoleOf,          \* the role of the user for whom a handler runs
    Ops,             \* the operations users request in this instance
    Faults,          \* subset of {"crash", "lockTimeout"}
    Usernames,       \* login names
    StaffUsernames,  \* the accounts seed_users creates
    Candidates,      \* e-mail -> the names tried for it: base, base2, base3, ...
    MaxProbe         \* bound: names tried for one e-mail

\* The operations, and the permission each requires.
Operations == {"create", "update", "delete", "link", "status", "meeting", "remind",
               "inquire"}

PermissionFor ==
    [create  |-> "ManageClients",     update  |-> "ManageClients",
     delete  |-> "ManageClients",     link    |-> "ManageClients",
     status  |-> "ManageClients",     meeting |-> "ScheduleMeetings",
     remind  |-> "SendReminders",     inquire |-> "SubmitInquiry"]

ASSUME FileAssumption ==
    /\ RoleOf \in [Handlers -> Roles]
    /\ Ops \subseteq Operations
    /\ Faults \subseteq {"crash", "lockTimeout"}
    /\ StaffUsernames \subseteq Usernames
    /\ MaxProbe \in Nat \ {0}
    /\ Candidates \in [Emails -> [1 .. MaxProbe -> Usernames]]

ASSUME HandlersAssumption == IsFiniteSet(Handlers)

VARIABLES
    clients, clientSeq,      \* table Clients and its AUTOINCREMENT counter
    projects, projectSeq,    \* table Projects and its counter
    account,                 \* table Users: name -> linked client, 0 if none
    meetings,                \* projects with a row in Meetings
    inquiries, reminders,    \* clients with a row in Inquiries, in Reminders
    activity,                \* table ActivityLog: <<action, entity id>>
    pc, frame                \* the handlers

dbVars == <<clients, clientSeq, projects, projectSeq, account, meetings,
            inquiries, reminders, activity>>
vars   == <<dbVars, pc, frame>>

\* How a handler ends: nothing requested yet, ActionResult.ok, ActionResult.fail,
\* or an exception that leaves the controller (app.py turns it into a message).
Finished == {"idle", "ok", "refused", "raised"}

ReadSteps  == {"getClient", "checkPhone", "checkEmail", "probeUsername",
               "countProjects", "getProject"}
WriteSteps == {"insertClient", "insertUser", "updateClient", "archiveClient",
               "deleteClient", "insertProject", "writeProjectStatus",
               "insertMeeting", "insertReminder", "insertInquiry"}

\* Local variables: op on client c and project p, with phone ph, e-mail em, status st.
Frame(op, c, p, ph, em, st) ==
    [op |-> op, client |-> c, project |-> p, phone |-> ph, email |-> em,
     status |-> st, probe |-> 0]

NoFrame == Frame("none", 0, 0, None, None, "none")

Frames == [op : Operations \cup {"none"}, client : 0 .. MaxClients,
           project : 0 .. MaxProjects, phone : Phones \cup {None},
           email : Emails \cup {None},
           status : ClientStatus \cup ProjectStatus \cup {"none"},
           probe : 0 .. MaxProbe]

ActivityEntries ==
    ({"create_client", "update_client", "archive_client"} \X ClientId)
      \cup ({"create_project", "update_project_status"} \X ProjectId)

TablesOK ==
    /\ clients \in [ClientId -> ClientRow]
    /\ clientSeq \in 0 .. MaxClients
    /\ projects \in [ProjectId -> ProjectRow]
    /\ projectSeq \in 0 .. MaxProjects
    /\ account \in [Usernames -> 0 .. MaxClients]
    /\ meetings \subseteq ProjectId
    /\ inquiries \subseteq ClientId
    /\ reminders \subseteq ClientId
    /\ activity \subseteq ActivityEntries

HandlersOK ==
    /\ pc \in [Handlers -> Finished \cup ReadSteps \cup WriteSteps]
    /\ frame \in [Handlers -> Frames]

TypeOK == TablesOK /\ HandlersOK

\* The database after create_tables and seed_users; no handler is running.
Init ==
    /\ clients = [c \in ClientId |-> NoClient]
    /\ clientSeq = 0
    /\ projects = [p \in ProjectId |-> NoProject]
    /\ projectSeq = 0
    /\ account = [u \in Usernames |-> 0]
    /\ meetings = {}
    /\ inquiries = {}
    /\ reminders = {}
    /\ activity = {}
    /\ pc = [s \in Handlers |-> "idle"]
    /\ frame = [s \in Handlers |-> NoFrame]
--------------------------------------------------------------------------------
(* Control: how a handler moves on, and how it ends. *)

Goto(s, step) == pc' = [pc EXCEPT ![s] = step]

Finish(s, outcome) ==
    /\ pc' = [pc EXCEPT ![s] = outcome]
    /\ frame' = [frame EXCEPT ![s] = NoFrame]

\* A request reaches the controller: require_permission, then the first call.
Request(s, f, step) ==
    /\ pc[s] \in Finished
    /\ f.op \in Ops
    /\ HasPermission(RoleOf[s], PermissionFor[f.op])
    /\ frame' = [frame EXCEPT ![s] = f]
    /\ Goto(s, step)
    /\ UNCHANGED dbVars

\* A role without the permission, or (forms with text fields) details that the
\* validation service refuses: ActionResult.fail before any call.
RequestRefused(s) ==
    /\ pc[s] \in Finished
    /\ \E op \in Ops :
         \/ ~HasPermission(RoleOf[s], PermissionFor[op])
         \/ op \notin {"delete", "status"}
    /\ Finish(s, "refused")
    /\ UNCHANGED dbVars
--------------------------------------------------------------------------------
(* Requests.  A client or project id comes from a list the user was shown    *)
(* at some time, so it is any id given out so far.                           *)

\* Creations that have not reached their INSERT yet.
PendingCreates ==
    {s \in Handlers : frame[s].op = "create" /\ frame[s].client = 0}

RequestCreate(s) ==
    /\ clientSeq + Cardinality(PendingCreates) < MaxClients
    /\ \E p \in Phones, e \in Emails :
         Request(s, Frame("create", 0, 0, p, e, "none"), "checkPhone")

RequestUpdate(s) ==
    \E c \in 1 .. clientSeq, p \in Phones, e \in Emails :
        Request(s, Frame("update", c, 0, p, e, "none"), "getClient")

RequestDelete(s) ==
    \E c \in 1 .. clientSeq :
        Request(s, Frame("delete", c, 0, None, None, "none"), "getClient")

\* Links that have not reached their INSERT yet.
PendingLinks == {s \in Handlers : frame[s].op = "link"}

RequestLink(s) ==
    /\ projectSeq + Cardinality(PendingLinks) < MaxProjects
    /\ \E c \in 1 .. clientSeq :
         Request(s, Frame("link", c, 0, None, None, "none"), "getClient")

RequestStatus(s) ==
    \E c \in 1 .. clientSeq, p \in 1 .. projectSeq, st \in ProjectStatus :
        Request(s, Frame("status", c, p, None, None, st), "getClient")

RequestMeeting(s) ==
    \E c \in 1 .. clientSeq, p \in 1 .. projectSeq :
        Request(s, Frame("meeting", c, p, None, None, "none"), "getClient")

RequestReminder(s) ==
    \E c \in 1 .. clientSeq :
        Request(s, Frame("remind", c, 0, None, None, "none"), "getClient")

\* A portal user acts for the client its account was linked to at login, and the
\* login outlives the account (AppSession): any id given out, deleted ones too.
RequestInquiry(s) ==
    \E c \in 1 .. clientSeq :
        Request(s, Frame("inquire", c, 0, None, None, "none"), "insertInquiry")
--------------------------------------------------------------------------------
(* Reads shared by the handlers. *)

\* The call that follows get_client.
AfterGetClient ==
    [update |-> "checkPhone", delete |-> "countProjects", link |-> "insertProject",
     status |-> "getProject", meeting |-> "getProject", remind |-> "insertReminder"]

\* Mutant: the status read for the later write-back is not kept.
ForgetStatusRead(f) == f

\* update_client keeps existing.status and writes it back at the end.
RememberRead(f) ==
    IF f.op = "update" THEN [f EXCEPT !.status = clients[f.client].status] ELSE f

\* Mutant: _ensure_active is forgotten.
AnyClientUsable(op, c) == IsPresent(clients, c)

\* Every handler refuses a missing client, and every handler but the reminder an
\* archived one.
Usable(op, c) ==
    \/ IsActive(clients, c)
    \/ IsArchived(clients, c) /\ op = "remind"

\* get_client and the two guards behind it.
GetClient(s) ==
    LET f == frame[s]
    IN  /\ pc[s] = "getClient"
        /\ \/ /\ Usable(f.op, f.client)
              /\ frame' = [frame EXCEPT ![s] = RememberRead(f)]
              /\ Goto(s, AfterGetClient[f.op])
           \/ ~Usable(f.op, f.client) /\ Finish(s, "refused")
        /\ UNCHANGED dbVars

\* Mutant: the check looks at the wrong row when a client keeps its details.
TakenByAnyoneElse(holders, excluded) == holders # {} /\ excluded = 0

\* _check_duplicate_client looks at the first row the SELECT returns, the one
\* with the lowest id, and lets the client keep its own details.
TakenByOther(holders, excluded) ==
    \E first \in holders : first # excluded /\ \A c \in holders : first <= c

CheckPhone(s) ==
    LET taken == TakenByOther(PhoneHolders(clients, frame[s].phone), frame[s].client)
    IN  /\ pc[s] = "checkPhone"
        /\ \/ taken /\ Finish(s, "refused")
           \/ ~taken /\ Goto(s, "checkEmail") /\ UNCHANGED frame
        /\ UNCHANGED dbVars

CheckEmail(s) ==
    LET taken == TakenByOther(EmailHolders(clients, frame[s].email), frame[s].client)
    IN  /\ pc[s] = "checkEmail"
        /\ \/ taken /\ Finish(s, "refused")
           \/ /\ ~taken
              /\ Goto(s, IF frame[s].op = "create" THEN "insertClient" ELSE "updateClient")
              /\ UNCHANGED frame
        /\ UNCHANGED dbVars
--------------------------------------------------------------------------------
(* create_client: the row, then the login account. *)

\* Mutant: a rowid without AUTOINCREMENT, one more than the largest in use.
ReusedClientId ==
    CHOOSE c \in ClientId :
        /\ \A d \in ClientId : IsPresent(clients, d) => d < c
        /\ c = 1 \/ IsPresent(clients, c - 1)

\* AUTOINCREMENT: one more than the largest id ever given.
NextClientId == clientSeq + 1

InsertClient(s) ==
    LET c == NextClientId
    IN  /\ pc[s] = "insertClient"
        /\ clientSeq < MaxClients
        /\ clientSeq' = c
        /\ clients' = [clients EXCEPT ![c] = [status |-> "Active",
                                              phone |-> frame[s].phone,
                                              email |-> frame[s].email]]
        /\ activity' = activity \cup {<<"create_client", c>>}
        /\ frame' = [frame EXCEPT ![s].client = c, ![s].probe = 1]
        /\ Goto(s, "probeUsername")
        /\ UNCHANGED <<projects, projectSeq, account, meetings, inquiries, reminders>>

NameInUse(u) == u \in StaffUsernames \/ account[u] # 0

Candidate(s) == Candidates[frame[s].email][frame[s].probe]

\* Mutant: the suffix is not incremented.
SameCandidate(k) == k

\* suffix += 1
NextCandidate(k) == k + 1

\* One turn of the loop of _generate_unique_username.
ProbeUsername(s) ==
    /\ pc[s] = "probeUsername"
    /\ \/ /\ NameInUse(Candidate(s))
          /\ frame[s].probe < MaxProbe
          /\ frame' = [frame EXCEPT ![s].probe = NextCandidate(frame[s].probe)]
          /\ UNCHANGED pc
       \/ /\ ~NameInUse(Candidate(s))
          /\ Goto(s, "insertUser")
          /\ UNCHANGED frame
    /\ UNCHANGED dbVars

\* Users.username is UNIQUE and Users.clientId a foreign key: a name taken or a
\* client deleted since is an IntegrityError, which nothing catches.
InsertUser(s) ==
    LET accepted == ~NameInUse(Candidate(s)) /\ IsPresent(clients, frame[s].client)
    IN  /\ pc[s] = "insertUser"
        /\ \/ /\ accepted
              /\ account' = [account EXCEPT ![Candidate(s)] = frame[s].client]
              /\ Finish(s, "ok")
           \/ ~accepted /\ UNCHANGED account /\ Finish(s, "raised")
        /\ UNCHANGED <<clients, clientSeq, projects, projectSeq, meetings,
                       inquiries, reminders, activity>>
--------------------------------------------------------------------------------
(* update_client, delete_client. *)

\* Mutant: INSERT OR REPLACE instead of UPDATE.
Upsert(c, row) == [clients EXCEPT ![c] = row]

\* UPDATE Clients ... WHERE clientId = c: no row, no effect, and no error.
UpdateRow(c, row) ==
    IF IsPresent(clients, c) THEN [clients EXCEPT ![c] = row] ELSE clients

\* All the columns are written, the status read at the start among them.
UpdateClient(s) ==
    LET c == frame[s].client
    IN  /\ pc[s] = "updateClient"
        /\ clients' = UpdateRow(c, [status |-> frame[s].status,
                                    phone |-> frame[s].phone,
                                    email |-> frame[s].email])
        /\ activity' = activity \cup {<<"update_client", c>>}
        /\ Finish(s, "ok")
        /\ UNCHANGED <<clientSeq, projects, projectSeq, account, meetings,
                       inquiries, reminders>>

\* Mutant: the WHERE clause is lost and every project of the office counts.
EveryProject(c) == {p \in ProjectId : projects[p] # NoProject}

\* count_projects_for_client counts the projects of every status.
CountedProjects(c) == ProjectsOf(projects, c)

CountProjects(s) ==
    LET c == frame[s].client
    IN  /\ pc[s] = "countProjects"
        /\ \/ CountedProjects(c) # {} /\ Goto(s, "archiveClient")
           \/ CountedProjects(c) = {} /\ Goto(s, "deleteClient")
        /\ UNCHANGED <<dbVars, frame>>

\* Mutant: the entry is written in a transaction of its own, which did not run.
NoEntry(c) == {}

\* The row of ActivityLog that archive_client adds.
ArchiveEntry(c) == {<<"archive_client", c>>}

ArchiveClient(s) ==
    LET c == frame[s].client
    IN  /\ pc[s] = "archiveClient"
        /\ clients' = UpdateRow(c, [clients[c] EXCEPT !.status = "Archived"])
        /\ activity' = activity \cup ArchiveEntry(c)
        /\ Finish(s, "ok")
        /\ UNCHANGED <<clientSeq, projects, projectSeq, account, meetings,
                       inquiries, reminders>>

\* Mutant: foreign_keys is off, as it is by default in SQLite.
Unenforced(c) == FALSE

\* A row of Projects, Inquiries or Reminders refers to client c.
Referenced(c) ==
    \/ ProjectsOf(projects, c) # {}
    \/ c \in inquiries \cup reminders

\* Mutant: the two DELETEs are two transactions.
AccountsKeptWhenRefused(c) ==
    [u \in Usernames |-> IF account[u] = c THEN 0 ELSE account[u]]

\* DELETE FROM Users WHERE clientId = c, kept only if the client's row goes too:
\* closing the connection without commit undoes it.
AccountsAfterDelete(c) ==
    IF Referenced(c) THEN account
    ELSE [u \in Usernames |-> IF account[u] = c THEN 0 ELSE account[u]]

\* Both DELETEs in one transaction; a row that still refers to the client is an
\* IntegrityError, which nothing catches.
DeleteClient(s) ==
    LET c == frame[s].client
    IN  /\ pc[s] = "deleteClient"
        /\ account' = AccountsAfterDelete(c)
        /\ \/ Referenced(c) /\ UNCHANGED clients /\ Finish(s, "raised")
           \/ /\ ~Referenced(c)
              /\ clients' = [clients EXCEPT ![c] = NoClient]
              /\ Finish(s, "ok")
        /\ UNCHANGED <<clientSeq, projects, projectSeq, meetings, inquiries,
                       reminders, activity>>
--------------------------------------------------------------------------------
(* link_project_to_client, update_project_status, schedule_meeting. *)

InsertProject(s) ==
    LET c == frame[s].client
        p == projectSeq + 1
    IN  /\ pc[s] = "insertProject"
        /\ projectSeq < MaxProjects
        /\ \/ /\ IsPresent(clients, c)
              /\ projectSeq' = p
              /\ projects' = [projects EXCEPT ![p] = [owner |-> c, status |-> "Active"]]
              /\ activity' = activity \cup {<<"create_project", p>>}
              /\ Finish(s, "ok")
           \/ /\ ~IsPresent(clients, c)
              /\ UNCHANGED <<projects, projectSeq, activity>>
              /\ Finish(s, "raised")
        /\ UNCHANGED <<clients, clientSeq, account, meetings, inquiries, reminders>>

\* get_project, then: the project is the selected client's, and the requested
\* status is a legal next one.
GetProject(s) ==
    LET p == frame[s].project
        usable == /\ projects[p].owner = frame[s].client
                  /\ frame[s].op = "status" =>
                       CanTransitionTo(projects[p].status, frame[s].status)
    IN  /\ pc[s] = "getProject"
        /\ \/ /\ usable
              /\ Goto(s, IF frame[s].op = "status" THEN "writeProjectStatus"
                                                   ELSE "insertMeeting")
              /\ UNCHANGED frame
           \/ ~usable /\ Finish(s, "refused")
        /\ UNCHANGED dbVars

\* UPDATE Projects SET status WHERE projectId: the row exists, because no
\* operation deletes a project.  (The read that follows only feeds the answer.)
WriteProjectStatus(s) ==
    LET p == frame[s].project
    IN  /\ pc[s] = "writeProjectStatus"
        /\ projects' = [projects EXCEPT ![p].status = frame[s].status]
        /\ activity' = activity \cup {<<"update_project_status", p>>}
        /\ Finish(s, "ok")
        /\ UNCHANGED <<clients, clientSeq, projectSeq, account, meetings,
                       inquiries, reminders>>

InsertMeeting(s) ==
    /\ pc[s] = "insertMeeting"
    /\ meetings' = meetings \cup {frame[s].project}
    /\ Finish(s, "ok")
    /\ UNCHANGED <<clients, clientSeq, projects, projectSeq, account, inquiries,
                   reminders, activity>>
--------------------------------------------------------------------------------
(* send_reminder_to_client, submit_inquiry: one INSERT whose foreign key must  *)
(* still find the client.                                                      *)

InsertReminder(s) ==
    LET c == frame[s].client
    IN  /\ pc[s] = "insertReminder"
        /\ \/ /\ IsPresent(clients, c)
              /\ reminders' = reminders \cup {c}
              /\ Finish(s, "ok")
           \/ ~IsPresent(clients, c) /\ UNCHANGED reminders /\ Finish(s, "raised")
        /\ UNCHANGED <<clients, clientSeq, projects, projectSeq, account, meetings,
                       inquiries, activity>>

InsertInquiry(s) ==
    LET c == frame[s].client
    IN  /\ pc[s] = "insertInquiry"
        /\ \/ /\ IsPresent(clients, c)
              /\ inquiries' = inquiries \cup {c}
              /\ Finish(s, "ok")
           \/ ~IsPresent(clients, c) /\ UNCHANGED inquiries /\ Finish(s, "raised")
        /\ UNCHANGED <<clients, clientSeq, projects, projectSeq, account, meetings,
                       reminders, activity>>
--------------------------------------------------------------------------------
(* Failures. *)

\* The write lock is held for longer than the busy timeout of sqlite3.connect, by
\* another handler or by a part of the system outside this module (saving a
\* decision or a report): "database is locked" leaves the controller.
LockTimeout(s) ==
    /\ "lockTimeout" \in Faults
    /\ pc[s] \in WriteSteps
    /\ Finish(s, "raised")
    /\ UNCHANGED dbVars

\* The server process stops: every running handler is lost where it stands, the
\* committed rows stay.
Crash ==
    /\ "crash" \in Faults
    /\ \E s \in Handlers : pc[s] \notin Finished
    /\ pc' = [s \in Handlers |-> "idle"]
    /\ frame' = [s \in Handlers |-> NoFrame]
    /\ UNCHANGED dbVars
--------------------------------------------------------------------------------
\* A user asks for an operation.
NewRequest(s) ==
    \/ RequestRefused(s)
    \/ RequestCreate(s)
    \/ RequestUpdate(s)
    \/ RequestDelete(s)
    \/ RequestLink(s)
    \/ RequestStatus(s)
    \/ RequestMeeting(s)
    \/ RequestReminder(s)
    \/ RequestInquiry(s)

\* Handler s makes its next call.
Advance(s) ==
    \/ GetClient(s)
    \/ CheckPhone(s)
    \/ CheckEmail(s)
    \/ InsertClient(s)
    \/ ProbeUsername(s)
    \/ InsertUser(s)
    \/ UpdateClient(s)
    \/ CountProjects(s)
    \/ ArchiveClient(s)
    \/ DeleteClient(s)
    \/ InsertProject(s)
    \/ GetProject(s)
    \/ WriteProjectStatus(s)
    \/ InsertMeeting(s)
    \/ InsertReminder(s)
    \/ InsertInquiry(s)

Next ==
    \/ \E s \in Handlers : NewRequest(s) \/ Advance(s) \/ LockTimeout(s)
    \/ Crash

Spec == Init /\ [][Next]_vars

\* A thread that runs a handler keeps running; users need not ask for anything.
FairSpec == Spec /\ \A s \in Handlers : WF_vars(Advance(s))
--------------------------------------------------------------------------------
(* Invariants *)

\* No row refers to a row that is gone, whatever two handlers do to the same
\* client: projects, accounts, inquiries and reminders keep their client,
\* meetings their project.
ReferentialIntegrity ==
    /\ \A p \in ProjectId : projects[p] # NoProject => IsPresent(clients, projects[p].owner)
    /\ \A u \in Usernames : account[u] # 0 => IsPresent(clients, account[u])
    /\ \A c \in inquiries \cup reminders : IsPresent(clients, c)
    /\ \A p \in meetings : projects[p] # NoProject

\* A client never gets two login accounts, even when it is deleted and other
\* clients are created while its account is being provisioned.
OneAccountPerClient ==
    \A u, v \in Usernames : (account[u] = account[v] /\ account[u] # 0) => u = v

\* delete_client decides on a project count that may be stale, yet it never
\* archives a client that has no project.
ArchivedHasHistory ==
    \A c \in ClientId : IsArchived(clients, c) => ProjectsOf(projects, c) # {}

\* The handlers whose user may create and update clients.
OfficeHandlers == {s \in Handlers : HasPermission(RoleOf[s], "ManageClients")}

\* The duplicate check is not atomic with the write, but it bounds the damage:
\* never more clients with one phone, or one e-mail, than handlers of the office that
\* may run at a time.
SharingBounded ==
    /\ \A p \in Phones :
         Cardinality(PhoneHolders(clients, p)) <= Cardinality(OfficeHandlers)
    /\ \A e \in Emails :
         Cardinality(EmailHolders(clients, e)) <= Cardinality(OfficeHandlers)

\* Whatever the tables show happened is in the activity log: every project and
\* every client was created, every archived client was archived, and a project
\* that is not Active was updated.
AuditTrail ==
    /\ \A c \in ClientId :
         /\ IsPresent(clients, c) => <<"create_client", c>> \in activity
         /\ IsArchived(clients, c) => <<"archive_client", c>> \in activity
    /\ \A p \in ProjectId :
         /\ projects[p] # NoProject => <<"create_project", p>> \in activity
         /\ projects[p].status \in {"OnHold", "Completed"} =>
                <<"update_project_status", p>> \in activity

(* Action properties *)

\* A deleted client stays deleted: no late update or archive brings its row
\* back and its id is never given to another client.
DeletedStaysDeleted ==
    [][\A c \in ClientId :
        (c <= clientSeq /\ ~IsPresent(clients, c)) => ~IsPresent(clients', c)]_vars

\* An account disappears only in the step that deletes its client: a deletion
\* that the foreign keys refuse takes nothing away.
AccountGoesWithClient ==
    [][\A u \in Usernames :
        (account[u] # 0 /\ account'[u] # account[u]) =>
            ~IsPresent(clients', account[u])]_vars

\* The history of the office is kept: a client with a project is never deleted,
\* and a project keeps its client for ever.
HistoryKept ==
    [][\A p \in ProjectId : projects[p] # NoProject =>
            /\ projects'[p].owner = projects[p].owner
            /\ IsPresent(clients', projects[p].owner)]_vars

\* Handlers that saw client c active and will write back all its columns, and
\* handlers that found their new status legal for project p.
LateUpdates(c) ==
    {s \in Handlers : frame[s].op = "update" /\ frame[s].client = c /\ pc[s] # "getClient"}

LateStatusWrites(p) ==
    {s \in Handlers : pc[s] = "writeProjectStatus" /\ frame[s].project = p}

\* Archiving is undone, or an archived record changed, only by updates that were
\* under way: while the client is archived no update becomes one of them, and every
\* change of the record uses one up.
UnarchivingRunsOut ==
    [][\A c \in ClientId : IsArchived(clients, c) =>
            /\ LateUpdates(c)' \subseteq LateUpdates(c)
            /\ clients'[c] # clients[c] => LateUpdates(c)' # LateUpdates(c)]_vars

\* A completed project is reopened only by handlers that read it before: while it
\* is completed no other gets past the check, and every change uses one up.
ReopeningRunsOut ==
    [][\A p \in ProjectId : projects[p].status = "Completed" =>
            /\ LateStatusWrites(p)' \subseteq LateStatusWrites(p)
            /\ projects'[p] # projects[p] => LateStatusWrites(p)' # LateStatusWrites(p)]_vars

(* Liveness *)

\* Every handler ends, whatever the others do.  The search for a free username has no
\* bound of its own: it ends because only finitely many clients are created while it
\* runs, although each of them may take the very name it was going to look at.
HandlerFinishes ==
    \A s \in Handlers : (pc[s] \notin Finished) ~> (pc[s] \in Finished)
--------------------------------------------------------------------------------
(* What Requirement 1 promises, as ClientRegistry states it. *)

Registry == INSTANCE ClientRegistry

\* The handlers implement the atomic operations.
ImplementsRegistry == Registry!Spec

\* No two clients share a phone or an e-mail.
DetailsUnique == Registry!DetailsUnique

\* An archived client's record is never changed, nor made active again.
ArchivedIsFrozen == Registry!ArchivedIsFrozen

\* A completed project is not reopened.
CompletedIsFinal == Registry!CompletedIsFinal
================================================================================
