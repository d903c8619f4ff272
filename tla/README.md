# RokitnaSystem: a TLA+ verification

RokitnaSystem is the office system of an architecture studio: a Streamlit server, controllers over
one repository class, one SQLite file. This directory
models the parts of it that keep state, checks them with TLC and proves what matters most with
TLAPS. Source paths below are relative to the repository.

## 1. The system

Every repository method opens a connection of its own (`database.py`, `connection_scope`), runs
its statements in one transaction and closes it. So between two repository calls of one handler
*nothing* is held, and handlers interleave call by call. SQLite has one
write lock; a statement that waits for it longer than the busy timeout (5 s) raises
`database is locked`. Exceptions that a controller does not catch end in `app.py` `_route`,
which shows an error. A crash loses the handlers and keeps the committed rows.

The unit of concurrency is the *handler*: one controller call in one script thread. A browser
session may have several. `requirements.txt` asks for streamlit 1.33 or newer and
`.streamlit/config.toml` leaves `runner.fastReruns` at its default, on: a click starts a new run of
the script in a new thread at once, and tells the old one to stop, which it does where it next
touches the page or the session state. A controller call in progress touches neither, so it goes on
to its end beside the new run, and what the old run does before it next touches the page
(`entry.mark_recorded`, say) is done, too. The 5 s that every traced statement of a transaction
waits (section 6) make such overlaps easy. So all modules quantify over handlers, and no guard waits
for a browser's earlier handler to return. (In `Reports` a manager is a page in its current run. A
run that was overtaken ends the call it is in and shows nothing, so what it leaves is what a manager
who logged out leaves.)

| Component | State | Operations that change it | What is hard | What makes it correct |
|---|---|---|---|---|
| Client file (`customer_controller.py`, Requirement 1) | Clients, Projects, Users, Meetings, ActivityLog | create, update, delete or archive, link project, project status, schedule meeting | check-then-act over several transactions; stale rows written back; client committed before its account | references, one account per client, archived and completed are final, the log explains the tables |
| Permissions (`utils/permissions.py`) | none (a constant map) | none | none | consulted before any call |
| Manager oversight (`manager_controller.py`) | Reminders | reminders to clients and to architects | the client may be deleted between check and INSERT | no dangling reminder |
| Client portal (`client_controller.py`) | Inquiries, Changes, Meetings | submit inquiry, decide change, confirm meeting | two clicks, or two logins of one account; a row checked in one call and updated in another | only the owner decides; how often a decision can be overturned |
| Professional decisions (`decision_controller.py`, Requirement 15) | DecisionLog, ChangeHistory, ActivityLog, the entry session of the screen | save decision, close, start anew | three rows and a failing statement between any two; a submission beside an earlier one, on the same entry | together, once, or not at all; Recorded is not shown out of nothing |
| SQL query log (`database.py`) | SQLQueryLog | a trace callback per statement | it writes through a second connection while its own thread may hold the lock | the log is complete (it is not, see section 6); saving still ends |
| Start-up (`init_db.py`, `app._init_db_once`) | the schema, accounts, demonstration data, a file | create tables, migrate, seed | several processes at once; a stop anywhere; old databases | a server that serves pages has a complete database |
| Management reports (`report_controller.py`, Requirement 20) | Reports, exported files | generate, save, export | several reads without a snapshot; marked saved before the INSERT; one file name per type | what is shown is stored; no project without its client's name; exports of different types apart |
| Architect workspace (`architect_controller.py`) | Drawings, FieldNotes, Changes, the drawings directory | document change, upload drawing, add note | a file and its row are two steps; same name, same file | a listed drawing is on the disk, whole, until its name comes again; clients see their own |
| Login and page routing (`app.py`, `auth_controller.py`) | the session | login, logout | the user object outlives its row | a stale login finds nothing to act on |
| Validation and hashing | none | none | none | not modelled, section 7 |
| Logging, `inspect_rokitna_db.py`, the diagram generators | none | none | none | not modelled: nothing depends on their output |

Components meet in four places: the tables (a client deleted while others refer to it), the write
lock, the permission map, and the account that links a portal user to a client. The hazards, each
at its line, are listed in `PROJECT.json`.

## 2. Modules

| Module | Models |
|---|---|
| `Permissions` | role -> permissions, `require_permission` |
| `ClientRecords` | rows of Clients and Projects, their statuses and legal transitions |
| `ClientRegistry` | abstract: what Requirement 1 promises, every operation atomic |
| `CustomerFile` | the handlers call by call, over `ClientRecords` and `Permissions`; instantiates `ClientRegistry` |
| `MCCustomerFile` | instances of it: roles, usernames, symmetry |
| `DecisionLedger` | abstract: a submission leaves a decision with its two companions in one step, or nothing |
| `DecisionRecording`, `MCDecisionRecording` | the screen, the handler and its transaction statement by statement, the trace callback and the lock; instantiates `DecisionLedger` |
| `ChangeApproval`, `MCChangeApproval` | changes and meetings that wait for the client |
| `AppSession`, `MCAppSession` | login, log-out, the cached user and the delete dialog, composed with `CustomerFile` |
| `Reports`, `MCReports` | both reports and their CSV files, composed with `CustomerFile` |
| `ProjectFiles`, `MCProjectFiles` | drawings (file and row), field notes, and what the portal hands out |
| `Startup`, `MCStartup` | `initialize_database`, run by several processes, on new and on earlier databases |
| `*Proofs` | the theorems of section 5 |

**CustomerFile.** One variable per table; `clientSeq` and `projectSeq` are the AUTOINCREMENT
counters. `pc[s]` is the next repository call of handler thread `s`, `frame[s]` its local variables. One
action is one repository call *with the guards behind it* up to the next call: `GetClient` is
`get_client` and the two early returns, `CheckPhone`/`CheckEmail` are the two halves of
`_check_duplicate_client`, `InsertClient` is the whole transaction of `create_client` (row and
activity entry), `DeleteClient` both DELETEs and the foreign keys that may refuse the second. A
request names any id given out so far, because the page it comes from may be out of date; a
project of another client exercises the ownership guard. `Init` is the database after
`create_tables` and `seed_users`. `activity` is a set of (action, id); rows inserted by
`seed_demo_data` have no entry, so `AuditTrail` speaks of rows that handlers made. Phones,
e-mails and usernames are values compared for equality only; all e-mails of an instance lead to
the same base username, the worst case for the search for a free one. `MaxClients`, `MaxProjects`
and `MaxProbe` bound the ids and the names tried.

**DecisionRecording.** `disk` is the committed database, `tx` what the open write transaction
sees, `lock` who holds the write lock. Before a statement runs, the trace callback logs it
(`TraceLogged`) or finds the lock taken and gives up after the timeout (`TraceLost`); the same
lock is taken by the first INSERT and freed by commit, rollback or close. The state is indexed by
*submissions* of the form (`SessionOf` says by whose browser; the set bounds a run): each has its own
`pc`, and nothing keeps a second one of a browser from starting while the first is anywhere. Texts
may repeat, so a retry may be of the very text whose save failed. `entry` is the status of the
browser's `DecisionEntrySession`, which its submissions share: `Submit` sets it to Saving whatever it
was, `Mark` is what the view does with the result, on the object the run began with (`mine`; after
`StartNew` it is another). Accounts and projects never disappear, so `_validate_actor` and the
project lookup fail only on invalid input, which is the blank form.

**ChangeApproval.** A handler is one call of the portal; a client's account may have any number at once
(`ClientOf`), of one browser or of several. `ReadRow` is `get_change`
or `get_meeting`, `CheckChange` is `get_project` and the guards on the row read *before*,
`SetChangeDecision` the UPDATE, which names the row by id alone. `MaxRows` bounds each table; an id
beyond it stands for an unknown one. Projects are never deleted nor given away (`HistoryKept`).

**Startup.** A database is abstracted to the tables that exist, the columns that later versions added
(one name stands for the columns one migration adds alike), the kinds of values that some row lacks
(`gaps`), the seeded accounts, and the copies of the demonstration data. DDL outside a transaction is
committed at once; the first INSERT or UPDATE opens the transaction. Tables are created one by one,
in the order of the schema. The initial states are an empty file and the databases in `Earlier`:
`LegacyDatabases` says what those may be, namely any tables missing, any later columns of the others
missing, and gaps where a column is. `Users.clientId`, `plainPassword` and `Reports.criteria` may stay
NULL, and the other new columns of `Others` have a constant default; `Projects`, `DecisionLog` and
`ChangeHistory` are filled in afterwards. The last of these is best effort
(`init_db.py:350-365`): a historic change whose description names no decision is the gap
`unnamedDecision`, and `Backfill` leaves it. `OfficeCreates` and `OfficeDeletes` let a running server
create its first client and delete its last meanwhile, which is what the count in `seed_demo_data`
looks at.

**AppSession** extends `CustomerFile`: every action is one of its actions with an input that the
browser restricts, or a change of the browser's session state alone. `user[b]` is the User object read
at login, cut down to its name and client; `pending[b]` the client whose deletion waits for the second
click. An inquiry takes the client from the cached user, a deletion from the dialog. Handlers belong to
browsers by `BrowserOf`, several to one, and outlive log-out; `latest[b]` is the deletion that the
current run waits for, if any, and only that one takes the dialog away when it returns, because a run
that was overtaken never gets there. `Crash` and an idle restart lose every session. Log-out keeps the pending
deletion, as the code does. For this, `RequestInquiry` of `CustomerFile` accepts every client id ever
given out. The page key is left out: it only selects what is rendered.

**Reports** extends `CustomerFile` with sessions of managers whose handlers read its tables call by
call: active projects, the sections, the client names (management report only), the INSERT, the
read-back. Milestones, payment requests, payments and alerts are written by the seeds alone, and
changes are read by one call, so these reads are one step, `GetSections`. `shown` is `last_report`.
A report on the page is exported again at each rendering: open (which truncates), two writes through
the file's buffer, read. A second writer of the same file overwrites from its own offset as far as
it reaches, so `WritePart` keeps any part of what another one wrote. `contested` remembers that
another session exported the type meanwhile; no guard reads it. `MaxReports` bounds the ids.

**ProjectFiles** numbers the uploads; `content` says which parts of which uploads a file holds, and
writing works as in `Reports`. `CleanName` is `_safe_file_name`, an arbitrary map from names to
cleaned names, so that several may collide; `StoredPath` pairs it with the project. `overwritten` is
a history variable. `MaxUploads` bounds the uploads. `get_project` always finds the project, because
none is ever deleted, and rows and files are never deleted either.

Modules that are proved about, and all they extend, have no RECURSIVE operator: the search for a
username, the only loop, is a state machine step per turn.

## 3. Runs

Distinct states are TLC's.

| Run | Instance | Shows | States |
|---|---|---|---|
| `Lifecycle` | 2 office handlers, 2 clients, 1 project, crashes and timeouts | the tables' invariants, the audit trail, final deletion, under every interleaving of create, update, delete, link, status, remind; what a late writer can undo, and how often | 775 k |
| `Duplicates` | 2 office handlers, 3 clients, 2 phones, 2 e-mails | never more clients with one phone or one e-mail than office handlers at once | 1.3 M |
| `Serial` | 1 office handler and a portal handler, 2 clients, 1 project, every operation | as long as no two office handlers overlap they implement `ClientRegistry`, while inquiries refuse deletions in between | 535 k |
| `Search` | 2 office handlers, 3 clients, creations and deletions, 5 names, fairness | every handler ends, although each takes names the other is searching for | 138 k |
| `Portal` | an office browser with 2 handlers and a portal browser, 2 clients, 1 project, log-out, timeouts, crashes | a login that outlived its account finds nothing | 840 k |
| `Decisions` | 2 architects, one with 2 submissions that may overlap and one text for all, failing statements, crashes, fairness | refinement of `DecisionLedger`, Recorded never out of nothing, lock discipline, every save ends | 185 k |
| `Approval` | 2 clients with 3 handlers, 2 projects, 1 row per table | owners decide and confirm; each handler under way overturns a decision at most once | 37 k |
| `Start` | a server and the script, crashes, failing statements, 433 initial databases, fairness | complete when ready, demonstration data whole and bounded, every start ends | 58 k |
| `Reports` | 2 managers, 2 reports, 1 office handler, 1 client, 1 project, crashes, timeouts, disk errors | what is shown is stored, projects are named, exports of one type only meet each other | 345 k |
| `Files` | 2 uploading threads, 2 clients with a project each, 3 names of which 2 collide, 3 uploads, crashes, disk errors, timeouts | own content only; listed drawings are there, whole, until overwritten | 326 k |
| `UnarchiveRace`, `QueryLogGap` | the smallest instance that shows it | violations, section 6 | |

Why the bounds are enough. The races of `CustomerFile` need two handlers, a client and a second
one that competes for its id, details or username; `Lifecycle` gives one phone and one e-mail so
that every pair of creations competes, `Duplicates` a third client so that more duplicates than
handlers could appear, `Serial` a portal whose inquiries come between a deletion's count and its
DELETE, `Search` a third client and its name so that the other handler can take a name twice while one
searches. `Decisions` has two submissions of one browser, which may overlap on one entry or follow each
other as a retry, and one of another architect who competes for the lock. In `ChangeApproval` every
handler touches one row, so rows are independent and one of each suffices; the three handlers are two
of one client and one stranger. Two starting processes are one that commits and one that acts on what
it read before; `MCStartup` gives every newer table each of its old forms or none. `Reports` needs two
managers for one file, two rows so that one could show the other's, and one handler of the client
file: the managers only read its tables, and `ProjectsNamed` turns on one deletion between two reads.
`Files` needs two writers of one file, a third upload over a finished one, and a name of one project in
the other. Every safety property and refinement of the passing runs is also proved for every value of
the constants (section 5), so the bounds matter only for liveness. Symmetry is used only in runs
without liveness, over handlers of one role and browser and over details that are compared for
equality.

`CHECK_DEADLOCK` is switched off only in `QueryLogGap`, whose single submission may be used up.

## 4. Fairness

Weak fairness of `Advance` for each handler, submission or process, nothing else, and only in `Search`,
`Decisions` and `Start`: the server's thread that runs a handler keeps running, and a busy timeout
passes. Users owe nothing (`Request`, `Submit`, `Start`, logins and clicks are not fair), nothing must
fail, and nobody is promised the lock: `SaveEnds` and `StartEnds` hold because a waiter gives up.
`HandlerFinishes` holds because a name that another handler takes first costs one more turn of the
search, and only finitely many clients are created during it.

## 5. Proofs

Assumptions are those on the constants only: `RecordsAssumption`, `FileAssumption`,
`HandlersAssumption` (finitely many handlers, so that they can be counted), `BrowserAssumption`,
`RecordingAssumption`, `ApprovalAssumption`, `StartupAssumption`, `ReportsAssumption`,
`FilesAssumption` (and the finiteness or typing they state). TLC evaluates them in every run. Some theorems have a hypothesis besides, stated in them:
`OneOffice`, at most one handler whose user may manage clients (portal handlers are any number), that
is, no two office calls overlap, of two managers or of two clicks of one; the run `Serial` instantiates
it. It is what the code needs and does not ensure: section 6 says what happens without it.

| Module | Proved for every value of the constants |
|---|---|
| `ClientRegistryProofs` | details unique, archived and completed final, in the abstract registry |
| `CustomerFileProofs` | `TypeOK`, `ReferentialIntegrity`, `ArchivedHasHistory`, `AuditTrail`, `OneAccountPerClient`, `AccountGoesWithClient`, `HistoryKept`, `DeletedStaysDeleted`, `SharingBounded`, `UnarchivingRunsOut`, `ReopeningRunsOut`; under `OneOffice`: `CustomerFile` implements `ClientRegistry`, `DetailsUnique`, `ArchivedIsFrozen`, `CompletedIsFinal` |
| `DecisionRecordingProofs` | `TypeOK`, `Paired`, `ScreenBacked`, `LockInsideTransaction`, and that `DecisionRecording` implements `DecisionLedger` |
| `ChangeApprovalProofs` | `TypeOK`, `DecidedByOwner`, `OverturnsRunOut`, `MeetingsConfirmedByOwner` |
| `StartupProofs` | `TypeOK`, `ReadyComplete`, `DemoWhole`, `DemoBounded` |
| `AppSessionProofs` | `AppSpec` implies `CustomerFile`'s `Spec`; `AppTypeOK`, `GhostsPowerless` |
| `ReportsProofs` | `ReportsSpec` implies `CustomerFile`'s `Spec`; `ReportsTypeOK`, `ShownIsStored`, `ProjectsNamed`, `ExportsApart` |
| `ProjectFilesProofs` | `TypeOK`, `OwnContentOnly`, `DrawingsKept` |

The arguments:

- *CustomerFile.* `TypeOK` is not inductive: a handler's variables must fit the call it is at, so
  `ControlInv` adds what each `pc` value says of the frame: which ids it holds were given out, and
  that the counters are ahead of the rows. `FileInv` conjoins the properties, which need each other,
  with `ProvisioningOK`: a client that is about to get its account has none, and one handler works
  for it. A client with no row and an id given out can only be one that was deleted, and
  the foreign keys make deletion exclude every reference; `ArchivedHasHistory` survives the stale
  count because the count can be wrong in one direction only: projects are never deleted.
- *Duplicates.* `SharingBounded` counts, and its invariant `SharingInv` counts without numbers. The
  `Claims` on a phone or an e-mail are the clients that have it and those that an update which passed
  the check is about to give it to; `Fits` says that they can be mapped, no two to the same, to
  office handlers *other than* those with a creation that passed the check. A check that
  passes either found nobody (then the claims are the updates under way, one per handler) or found
  the client itself. An INSERT makes a new claim, and its handler, no longer a creator,
  is the place for it. `OperationOrigin` and `Permitted` say that all these handlers are the
  office's. `FitsCardinality` turns the mapping into the bound.
- *Late writers.* The UPDATE of a client and that of a project's status look at no status, so what was
  final can be undone. `UnarchivingRunsOut` and `ReopeningRunsOut` say by whom: while a client is
  archived (a project completed), the set of handlers that passed the check only shrinks, and every
  change takes one away. `OverturnsRunOut` says the same of a client's decision. They are the part of
  the truth about these races that holds for any number of handlers.
- *No two office handlers at once.* `Current` says that what a handler has read is still true: its client is
  active, a client about to be deleted has no project, a project's status allows the change, the name
  found is free. It is inductive under `OneOffice` because a step of another handler is a portal's,
  which only adds inquiries (`PortalStep`). With `SharingInv`, where one office handler leaves room for
  one claim, every write finds what the registry's atomic operation demands: `StepRegistry` maps each
  transaction to its operation and everything else, a deletion refused by a foreign key included, to a
  stutter.
- *DecisionRecording.* `LockInv` says that the lock and an open transaction are the same thing;
  `TxInv` gives `tx` as the committed rows plus what the statements so far appended. A commit is
  then exactly one step of the ledger, an end without one gives the submission up, and everything else
  is a stutter: the ledger follows each submission by its identity, so overlaps and equal texts do not
  matter. `StoredInv` (what was reported saved is in the table) and `EntryInv` (an entry that says
  Recorded or Closed was marked by a submission of its own) carry `ScreenBacked`.
- *ChangeApproval.* `HolderInv`: the row a handler holds agrees with the table on project and owner,
  which never change, and past the guards it is the client's own and was pending. The status may be
  stale, and then the handler is one of `LateDecisions`.
- *Startup.* `Known` says which part of the database is complete when a process has reached a
  statement. Neither a start nor the office takes away tables, columns, values or accounts (`Grows`),
  so it stays true for a process that waits while others commit; `Open` relates the open transaction to the committed database; `CountInv` adds the
  processes that saw no client to the copies already there.
- *AppSession.* Every step is a step of `CustomerFile` or leaves it alone, so all that is proved of
  the client file holds behind the login. A cached user's client had an account; if the name no
  longer leads to it, the account went in the transaction that deleted the client
  (`AccountGoesWithClient`), and a deleted client's row and references never come back
  (`RowsStayGone`, `ReferentialIntegrity`).
- *Reports.* A project a handler has read is in the table and stays with its owner (`HistoryKept`),
  and a client with a project has a row, so the names read later contain the owner of every project
  read earlier; the other order would not do. Ids of rows come from the handler's own connection and
  grow. While an export is not contested, its file holds exactly what it wrote.
- *ProjectFiles.* `ContentOK`: a file holds parts of uploads whose path it is, so the path alone
  decides whose content it is. `UploadOK` and `RowOK` follow an upload through open, the writes and
  the row: unless a rival touched the file, it holds what the handler wrote so far; a row's upload is
  at work in no thread.

**Only model-checked**: liveness (`HandlerFinishes`, `SaveEnds`, `StartEnds`),
which rests on fairness and `ENABLED` and is out of the prover's reach. Every invariant, action
property and refinement of the passing runs is a theorem. What follows from a refinement or another
invariant of the same run is proved and not checked again: `Paired` (from the ledger),
`CompletedIsFinal` and `ArchivedIsFrozen` under `OneOffice` (from the registry), and `HistoryKept`.
The violations of section 6 are TLC's.

## 6. Where the code and its documentation disagree

| Run | What the code does |
|---|---|
| `UnarchiveRace` | `update_client` writes back the status it read before the client was archived: it is active again |
| `QueryLogGap` | inside a transaction the query log waits for the lock of its own thread, gives up after 5 s and drops the entry: everything after the first write is missing, and every such statement costs the timeout |

Seen in the models but without a run of their own. Against a comment or a docstring:

- the duplicate check and the INSERT are separate transactions and no column is UNIQUE, so two creations
  that overlap store the same phone, although `customer_controller.py:5` says duplicates are rejected
  (`SharingBounded` bounds it);
- the UPDATE of a project's status has no condition on the old one, so a change that was checked before
  the project was completed reopens it, against `models/project.py:18-19` (`ReopeningRunsOut` bounds it);
- a client is committed before its account: a crash, a timeout, or a second creation that takes the
  username in between (the UNIQUE constraint then raises out of the controller) leaves a client that
  nobody can log in for, against `customer_controller.py:362-364`, and nothing repairs it;
- inquiries and reminders refer to a client, too, so that deleting one without projects may raise a
  foreign key error, where `db_repository.py:388` says that nothing but the account refers to it;
- a submission that overlaps a later one marks their common entry Recorded after the later one was
  refused or failed, against the transition named at `views/decision_management.py:138`. What is stored
  is right (`ImplementsLedger`); which submission the screen speaks of is not.

And what nothing in the repository speaks about: a project
can be linked to a client that was archived since the check; two handlers of one client may decide one
change differently, the later one wins, at most once for each handler under way; two processes that
start together on an empty database insert the demonstration data once each, and one of them may fail
with "duplicate column" or a UNIQUE violation and succeed at the next page load; historic changes whose
description names no decision keep none; two sessions that show reports of one type may be handed each
other's CSV, or a mixture; a second upload of a drawing's name replaces the content behind the first
row, and one that fails leaves it truncated; a report is marked `Saved` before its row is written
(`report_controller.py:217`), while `models/report.py:112` says after: harmless, since a report whose
INSERT fails is never shown; the dialog of a pending deletion is shown to the next user of the browser.

## 7. Not modelled

- *Validation and hashing.* Pure functions of one string: regular expressions and library calls,
  which the handler models abstract to "accepted" or "refused". (A comment,
  `services/validation_service.py:15-16`, speaks of 9-10 digits where the pattern accepts 9 to 15
  characters.)
- *Manager oversight.* Reminders to clients are in `CustomerFile`; a reminder to the architects is
  one INSERT that refers to nothing, and the lists only read.
- *SQL query log.* Writing it is in `DecisionRecording`; reading and clearing it, and the log rows of
  the other handlers' statements, are not, since nothing depends on them.
- *Page routing.* The page key only selects what is rendered; every controller checks permissions
  again, which `CustomerFile` has.
- *Reading pages*, wording, layout and logging; `inspect_rokitna_db.py` and the diagram generators,
  which are no part of the running system; SQLite's internal locking below one write lock and
  committed snapshots.

What is left to prove: nothing the passing runs check except liveness.
