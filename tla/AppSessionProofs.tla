--------------------------- MODULE AppSessionProofs ----------------------------
(****************************************************************************)
(* The sessions take the handlers of the client file through steps of       *)
(* CustomerFile's specification, so what is proved there holds here, and    *)
(* a login that outlived its account can act on nothing.                    *)
(****************************************************************************)
EXTENDS AppSession, CustomerFileProofs

\* A login remembers a client whose id was given out.  The account still leads to
\* that client, or the client is gone.
LoginsOK ==
    \A b \in Browsers : user[b].client # 0 =>
        /\ user[b].name \in Usernames
        /\ user[b].client \in ClientId
        /\ user[b].client <= clientSeq
        /\ account[user[b].name] # user[b].client => ~IsPresent(clients, user[b].client)

\* The inductive invariant of the sessions and the client file together.
AppInv == FileInv /\ AppTypeOK /\ LoginsOK

\* A step of a browser is a step of the client file or leaves it alone.
LEMMA AppStep == [AppNext]_appVars => [Next]_vars
<1>1. ASSUME NEW b \in Browsers, Login(b) \/ Logout(b) \/ AskDelete(b) \/ CancelDelete(b)
      PROVE  UNCHANGED vars
  BY <1>1 DEF Login, Logout, AskDelete, CancelDelete
<1>2. ASSUME NEW s \in Handlers, ConfirmDelete(s) \/ SendInquiry(s) \/ SubmitForm(s)
      PROVE  Next
  BY <1>2 DEF ConfirmDelete, SendInquiry, SubmitForm, Next, NewRequest
<1>3. ASSUME NEW s \in Handlers, RunHandler(s) PROVE Next
  BY <1>3 DEF RunHandler, Next
<1>4. ServerStops => [Next]_vars
  BY DEF ServerStops, Next
<1>5. UNCHANGED appVars => UNCHANGED vars
  BY DEF appVars
<1>6. QED BY <1>1, <1>2, <1>3, <1>4, <1>5 DEF AppNext

\* The id counter never goes back.
LEMMA CounterGrows ==
    ASSUME FileInv, [Next]_vars
    PROVE  clientSeq \in Nat /\ clientSeq' \in Nat /\ clientSeq <= clientSeq'
<1>1. clientSeq \in Nat
  BY RecordsAssumption DEF FileInv, ControlInv, TypeOK, TablesOK
<1>2. CASE QuietStep
  BY <1>1, <1>2 DEF QuietStep, dbVars
<1>3. ASSUME NEW s \in Handlers, InsertClient(s) PROVE clientSeq' = clientSeq + 1
  BY <1>3 DEF InsertClient, NextClientId
<1>4. ASSUME NEW s \in Handlers,
             \/ InsertUser(s) \/ UpdateClient(s) \/ ArchiveClient(s) \/ DeleteClient(s)
             \/ InsertProject(s) \/ WriteProjectStatus(s) \/ InsertMeeting(s)
             \/ InsertReminder(s) \/ InsertInquiry(s)
      PROVE  UNCHANGED clientSeq
  BY <1>4 DEF InsertUser, UpdateClient, ArchiveClient, DeleteClient, InsertProject,
     WriteProjectStatus, InsertMeeting, InsertReminder, InsertInquiry
<1>5. QED BY <1>1, <1>2, <1>3, <1>4, WriteCases

\* While the login stays, a step of the client file keeps what it knows true.
LEMMA LoginKept ==
    ASSUME FileInv, [Next]_vars, NEW b \in Browsers, LoginsOK,
           user'[b] = user[b], user[b].client # 0
    PROVE  /\ user'[b].name \in Usernames
           /\ user'[b].client \in ClientId
           /\ user'[b].client <= clientSeq'
           /\ account'[user'[b].name] # user'[b].client => ~IsPresent(clients', user'[b].client)
<1> DEFINE u == user[b].name
           c == user[b].client
<1>1. u \in Usernames /\ c \in ClientId /\ c <= clientSeq
      /\ (account[u] # c => ~IsPresent(clients, c))
  BY DEF LoginsOK
<1>2. c <= clientSeq'
  BY <1>1, CounterGrows DEF ClientId
<1>3. ASSUME account'[u] # c, IsPresent(clients', c) PROVE FALSE
  <2>1. CASE account[u] = c
    <3>1. account'[u] # account[u]
      BY <1>3, <2>1
    <3>2. ~IsPresent(clients', account[u]) \/ account[u] = 0
      BY <1>1, <3>1, AccountOrigin DEF FileInv
    <3>3. QED BY <1>3, <2>1, <3>2
  <2>2. CASE account[u] # c
    BY <1>1, <1>3, <2>2, RowsStayGone
  <2>3. QED BY <2>1, <2>2
<1>4. QED BY <1>1, <1>2, <1>3

\* What a login reads is true when it reads it.
LEMMA LoginReads ==
    ASSUME FileInv, NEW b \in Browsers, NEW row \in UserRow(b)
    PROVE  /\ row \in Users
           /\ row.client # 0 =>
                /\ row.name \in Usernames
                /\ row.client \in ClientId
                /\ row.client <= clientSeq
                /\ account[row.name] = row.client
<1>1. account \in [Usernames -> 0 .. MaxClients]
  BY DEF FileInv, ControlInv, TypeOK, TablesOK
<1>2. CASE row = SeededUser
  BY <1>2 DEF Users, SeededUser
<1>3. CASE row # SeededUser
  <2>1. PICK u \in Usernames : account[u] # 0 /\ row = [name |-> u, client |-> account[u]]
    BY <1>3 DEF UserRow
  <2>2. account[u] \in ClientId
    BY <1>1, <2>1, RecordsAssumption DEF ClientId
  <2>3. IsPresent(clients, account[u])
    BY <2>1 DEF FileInv, ReferentialIntegrity
  <2>4. account[u] <= clientSeq
    BY <2>2, <2>3 DEF FileInv, ControlInv, CountersOK
  <2>5. QED BY <2>1, <2>2, <2>4 DEF Users
<1>4. QED BY <1>2, <1>3

\* The caches hold users, client ids and handlers.
LEMMA CachesTyped ==
    ASSUME AppInv, [AppNext]_appVars, FileInv'
    PROVE  /\ user' \in [Browsers -> Users]
           /\ pending' \in [Browsers -> 0 .. MaxClients]
           /\ latest' \in [Browsers -> Handlers \cup {None}]
<1> USE DEF Click
<1>1. /\ user \in [Browsers -> Users] /\ pending \in [Browsers -> 0 .. MaxClients]
      /\ latest \in [Browsers -> Handlers \cup {None}]
  BY DEF AppInv, AppTypeOK
<1>2. NoUser \in Users /\ 0 \in 0 .. MaxClients /\ ClientId \subseteq 0 .. MaxClients
  BY RecordsAssumption DEF Users, ClientId
<1>3. ASSUME NEW b \in Browsers,
             Login(b) \/ Logout(b) \/ AskDelete(b) \/ CancelDelete(b)
      PROVE  latest' \in [Browsers -> Handlers \cup {None}]
  BY <1>1, <1>3 DEF Login, Logout, AskDelete, CancelDelete
<1>4. ASSUME NEW b \in Browsers, Login(b)
      PROVE  user' \in [Browsers -> Users] /\ pending' = pending
  BY <1>1, <1>4, LoginReads DEF Login, AppInv
<1>5. ASSUME NEW b \in Browsers, Logout(b)
      PROVE  user' \in [Browsers -> Users] /\ pending' = pending
  BY <1>1, <1>2, <1>5 DEF Logout
<1>6. ASSUME NEW b \in Browsers, AskDelete(b) \/ CancelDelete(b)
      PROVE  user' = user /\ pending' \in [Browsers -> 0 .. MaxClients]
  BY <1>1, <1>2, <1>6 DEF AskDelete, CancelDelete
<1>7. ASSUME NEW s \in Handlers, ConfirmDelete(s) \/ SendInquiry(s) \/ SubmitForm(s)
      PROVE  /\ user' = user /\ pending' = pending
             /\ latest' \in [Browsers -> Handlers \cup {None}]
  BY <1>1, <1>7 DEF ConfirmDelete, SendInquiry, SubmitForm
<1>8. ASSUME NEW s \in Handlers, RunHandler(s)
      PROVE  /\ user' = user
             /\ latest' \in [Browsers -> Handlers \cup {None}]
             /\ pending' \in [Browsers -> 0 .. MaxClients]
  BY <1>1, <1>2, <1>8 DEF RunHandler, DialogAfter, AfterRun
<1>9. CASE ServerStops
  BY <1>2, <1>9 DEF ServerStops
<1>10. CASE UNCHANGED appVars
  BY <1>1, <1>10 DEF appVars, sessionVars
<1>11. QED
  BY <1>1, <1>3, <1>4, <1>5, <1>6, <1>7, <1>8, <1>9, <1>10 DEF AppNext

\* A browser's user stays, is read from the table, or is cleared.
LEMMA UserOrigin ==
    ASSUME AppInv, [AppNext]_appVars, NEW b \in Browsers
    PROVE  \/ user'[b] = user[b]
           \/ user'[b] = NoUser
           \/ user'[b] \in UserRow(b) /\ UNCHANGED vars
<1>1. user \in [Browsers -> Users]
  BY DEF AppInv, AppTypeOK
<1>2. ASSUME NEW c \in Browsers, Login(c)
      PROVE  user'[b] = user[b] \/ (user'[b] \in UserRow(b) /\ UNCHANGED vars)
  BY <1>1, <1>2 DEF Login
<1>3. ASSUME NEW c \in Browsers, Logout(c) PROVE user'[b] = user[b] \/ user'[b] = NoUser
  BY <1>1, <1>3 DEF Logout
<1>4. ASSUME NEW c \in Browsers, AskDelete(c) \/ CancelDelete(c) PROVE user' = user
  BY <1>4 DEF AskDelete, CancelDelete
<1>5. ASSUME NEW s \in Handlers,
             ConfirmDelete(s) \/ SendInquiry(s) \/ SubmitForm(s) \/ RunHandler(s)
      PROVE  user' = user
  BY <1>5 DEF ConfirmDelete, SendInquiry, SubmitForm, RunHandler
<1>6. ServerStops => user'[b] = NoUser
  BY DEF ServerStops
<1>7. UNCHANGED appVars => user' = user
  BY DEF appVars, sessionVars
<1>8. QED BY <1>2, <1>3, <1>4, <1>5, <1>6, <1>7 DEF AppNext

\* Every step of the application preserves the invariant.
LEMMA StepApp == AppInv /\ [AppNext]_appVars => AppInv'
<1> SUFFICES ASSUME AppInv, [AppNext]_appVars PROVE AppInv'
  OBVIOUS
<1>1. FileInv /\ LoginsOK /\ [Next]_vars
  BY AppStep DEF AppInv
<1>2. FileInv'
  BY <1>1, StepFile
<1>3. AppTypeOK'
  BY <1>2, CachesTyped DEF AppTypeOK, FileInv, ControlInv
<1>4. ASSUME NEW b \in Browsers, user'[b].client # 0
      PROVE  /\ user'[b].name \in Usernames
             /\ user'[b].client \in ClientId
             /\ user'[b].client <= clientSeq'
             /\ account'[user'[b].name] # user'[b].client =>
                    ~IsPresent(clients', user'[b].client)
  <2>1. CASE user'[b] = user[b]
    BY <1>1, <1>4, <2>1, LoginKept
  <2>2. CASE user'[b] = NoUser
    BY <1>4, <2>2 DEF NoUser
  <2>3. CASE user'[b] \in UserRow(b) /\ UNCHANGED vars
    BY <1>1, <1>4, <2>3, LoginReads DEF vars, dbVars
  <2>4. QED BY <2>1, <2>2, <2>3, UserOrigin
<1>5. LoginsOK'
  BY <1>4 DEF LoginsOK
<1>6. QED BY <1>2, <1>3, <1>5 DEF AppInv

\* Nobody is logged in at the start.
LEMMA InitApp == AppInit => AppInv
<1> SUFFICES ASSUME AppInit PROVE AppInv
  OBVIOUS
<1>1. FileInv
  BY InitFile DEF AppInit
<1>2. AppTypeOK
  BY <1>1, RecordsAssumption DEF AppInit, AppTypeOK, FileInv, ControlInv, Users
<1>3. LoginsOK
  BY DEF AppInit, LoginsOK, NoUser
<1>4. QED BY <1>1, <1>2, <1>3 DEF AppInv

\* The invariant holds throughout.
LEMMA AppInvariance == AppSpec => []AppInv
  BY InitApp, StepApp, PTL DEF AppSpec

\* The sessions behave as CustomerFile says, whatever they cache: every property
\* proved of the client file holds of the application.
THEOREM SessionsImplementFile == AppSpec => Spec
<1>1. AppInit => Init
  BY DEF AppInit
<1>2. QED BY <1>1, AppStep, PTL DEF AppSpec, Spec

\* The session caches keep their types, and the tables behind them theirs.
THEOREM SessionsTyped == AppSpec => []AppTypeOK
<1>1. AppInv => AppTypeOK
  BY DEF AppInv
<1>2. QED BY <1>1, AppInvariance, PTL

\* A login that outlived its account finds nothing to act on, for any number of
\* sessions and clients, also when the account's name belongs to someone else.
THEOREM GhostLoginsArePowerless == AppSpec => []GhostsPowerless
<1>1. ASSUME AppInv, NEW b \in Browsers, Ghost(b)
      PROVE  /\ ~IsPresent(clients, user[b].client)
             /\ ProjectsOf(projects, user[b].client) = {}
             /\ user[b].client \notin inquiries \cup reminders
  <2>1. user[b].client \in ClientId /\ ~IsPresent(clients, user[b].client)
    BY <1>1 DEF AppInv, LoginsOK, Ghost
  <2>2. ASSUME NEW p \in ProjectId, projects[p].owner = user[b].client PROVE FALSE
    <3>1. projects[p] # NoProject
      BY <2>1, <2>2 DEF NoProject, ClientId
    <3>2. QED BY <1>1, <2>1, <2>2, <3>1 DEF AppInv, FileInv, ReferentialIntegrity
  <2>3. user[b].client \notin inquiries \cup reminders
    BY <1>1, <2>1 DEF AppInv, FileInv, ReferentialIntegrity
  <2>4. QED BY <2>1, <2>2, <2>3 DEF ProjectsOf
<1>2. AppInv => GhostsPowerless
  BY <1>1 DEF GhostsPowerless
<1>3. QED BY <1>2, AppInvariance, PTL
================================================================================
