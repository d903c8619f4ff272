------------------------------- MODULE AppSession ------------------------------
(****************************************************************************)
(* The browser sessions in front of CustomerFile: what st.session_state     *)
(* keeps from one run of app.py to the next (app.py, views/login_form.py,   *)
(* controllers/auth_controller.py, the delete dialog of                     *)
(* views/customer_management.py and the portal's use of User.client_id).    *)
(*                                                                          *)
(* The User object is read from the table once, at login; nothing reads it  *)
(* again while the session lasts, not even after its client and its account *)
(* are deleted.  A click starts a run of the page at once, in a script      *)
(* thread of its own: the controller that an earlier run has called goes on *)
(* (a handler of CustomerFile), but that run ends where it next touches the *)
(* page or the session state.                                               *)
(****************************************************************************)
EXTENDS CustomerFile

CONSTANTS
    Browsers,     \* browser sessions
    BrowserOf,    \* [Handlers -> Browsers]; bound: calls that one has in progress
    BrowserRole   \* the role that each logs in with

ASSUME BrowserAssumption ==
    /\ BrowserOf \in [Handlers -> Browsers]
    /\ BrowserRole \in [Browsers -> Roles]
    /\ \A s \in Handlers : RoleOf[s] = BrowserRole[BrowserOf[s]]

VARIABLES
    user,      \* session_state["user"]
    pending,   \* session_state["pending_delete_client_id"], 0 if there is none
    latest     \* the deletion that the current run of the page waits for, or None

sessionVars == <<user, pending, latest>>
appVars     == <<vars, sessionVars>>

\* The cached User is reduced to its name and its client_id (0: none of this module's
\* clients).  Of the accounts of seed_users, "client" may belong to the demonstration
\* client, whose rows are not among these either.
NoUser     == [name |-> None, client |-> 0]
SeededUser == [name |-> "seeded", client |-> 0]
Users      == {NoUser, SeededUser} \cup [name : Usernames, client : ClientId]

AppTypeOK ==
    /\ TypeOK
    /\ user \in [Browsers -> Users]
    /\ pending \in [Browsers -> 0 .. MaxClients]
    /\ latest \in [Browsers -> Handlers \cup {None}]

AppInit ==
    /\ Init
    /\ user = [b \in Browsers |-> NoUser]
    /\ pending = [b \in Browsers |-> 0]
    /\ latest = [b \in Browsers |-> None]

LoggedIn(b) == user[b] # NoUser

\* A click: the run it starts is the current one.  It calls the deletion s, or
\* (None) something else, whose end changes nothing in session_state.
Click(b, s) == latest' = [latest EXCEPT ![b] = s]
--------------------------------------------------------------------------------
\* Mutant: a name without a row logs in, too.
AnyNameRow(b) == {[name |-> u, client |-> account[u]] : u \in Usernames}

\* The row find_user_by_username returns, for an account of the browser's role.
UserRow(b) ==
    {SeededUser} \cup
    {[name |-> u, client |-> account[u]] :
        u \in {v \in Usernames : account[v] # 0 /\ BrowserRole[b] = "Client"}}

Login(b) ==
    /\ ~LoggedIn(b)
    /\ \E row \in UserRow(b) : user' = [user EXCEPT ![b] = row]
    /\ Click(b, None)
    /\ UNCHANGED <<vars, pending>>

\* The log-out button clears the user, the page and the last report.  The pending
\* deletion is not among them: the next login of this browser still finds it.
Logout(b) ==
    /\ LoggedIn(b)
    /\ user' = [user EXCEPT ![b] = NoUser]
    /\ Click(b, None)
    /\ UNCHANGED <<vars, pending>>

\* The management section, with its delete button and the dialog, is shown of a
\* client that is active when the page is rendered.
Shown(b, c) == LoggedIn(b) /\ BrowserRole[b] = "OfficeManager" /\ IsActive(clients, c)

AskDelete(b) ==
    /\ "delete" \in Ops
    /\ \E c \in ClientId \ {pending[b]} :
         Shown(b, c) /\ pending' = [pending EXCEPT ![b] = c]
    /\ Click(b, None)
    /\ UNCHANGED <<vars, user>>

CancelDelete(b) ==
    /\ pending[b] # 0 /\ Shown(b, pending[b])
    /\ pending' = [pending EXCEPT ![b] = 0]
    /\ Click(b, None)
    /\ UNCHANGED <<vars, user>>

\* Confirming calls CustomerController.delete_client.
ConfirmDelete(s) ==
    LET b == BrowserOf[s]
    IN  /\ pending[b] # 0 /\ Shown(b, pending[b])
        /\ RequestDelete(s) /\ frame'[s].client = pending[b]
        /\ Click(b, s)
        /\ UNCHANGED <<user, pending>>

\* ClientController.submit_inquiry takes the client from the cached user.
SendInquiry(s) ==
    LET b == BrowserOf[s]
    IN  /\ user[b].client # 0
        /\ RequestInquiry(s) /\ frame'[s].client = user[b].client
        /\ Click(b, None)
        /\ UNCHANGED <<user, pending>>

\* The other forms of the office and the portal.
SubmitForm(s) ==
    /\ LoggedIn(BrowserOf[s])
    /\ \/ RequestRefused(s)
       \/ RequestCreate(s)
       \/ RequestUpdate(s)
       \/ RequestLink(s)
       \/ RequestStatus(s)
       \/ RequestMeeting(s)
       \/ RequestReminder(s)
    /\ Click(BrowserOf[s], None)
    /\ UNCHANGED <<user, pending>>

\* delete_client has returned: the dialog is taken away whatever the answer was, if
\* its run is still the current one.  An exception passes it by.
DialogAfter(s, outcome) ==
    IF /\ frame[s].op = "delete" /\ outcome \in {"ok", "refused"}
       /\ latest[BrowserOf[s]] = s
    THEN [pending EXCEPT ![BrowserOf[s]] = 0] ELSE pending

AfterRun(s) == [b \in Browsers |-> IF latest[b] = s THEN None ELSE latest[b]]

RunHandler(s) ==
    /\ Advance(s) \/ LockTimeout(s)
    /\ pending' = DialogAfter(s, pc'[s])
    /\ latest' = IF pc'[s] \in Finished THEN AfterRun(s) ELSE latest
    /\ UNCHANGED user

\* The server process stops, with or without a handler running: the session
\* states were in its memory.
ServerStops ==
    /\ "crash" \in Faults
    /\ \/ Crash
       \/ (\A s \in Handlers : pc[s] \in Finished) /\ UNCHANGED vars
    /\ user' = [b \in Browsers |-> NoUser]
    /\ pending' = [b \in Browsers |-> 0]
    /\ latest' = [b \in Browsers |-> None]

AppNext ==
    \/ \E b \in Browsers : Login(b) \/ Logout(b) \/ AskDelete(b) \/ CancelDelete(b)
    \/ \E s \in Handlers :
         ConfirmDelete(s) \/ SendInquiry(s) \/ SubmitForm(s) \/ RunHandler(s)
    \/ ServerStops

AppSpec == AppInit /\ [][AppNext]_appVars
--------------------------------------------------------------------------------
\* Browser b works with an account that was deleted, or whose name went to a
\* different client, after it logged in.
Ghost(b) == user[b].client # 0 /\ account[user[b].name] # user[b].client

\* Nothing ends the session of a deleted account, and nothing reads the account
\* again; what keeps it from acting on anything is that its client is gone for
\* good: the client has no row, no project (so no drawing, change or meeting to
\* see or decide) and no inquiry, even when the account's name is given again.
GhostsPowerless ==
    \A b \in Browsers : Ghost(b) =>
        /\ ~IsPresent(clients, user[b].client)
        /\ ProjectsOf(projects, user[b].client) = {}
        /\ user[b].client \notin inquiries \cup reminders
================================================================================
