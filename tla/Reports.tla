--------------------------------- MODULE Reports -------------------------------
(****************************************************************************)
(* Requirement 20: controllers/report_controller.py,                        *)
(* views/report_dashboard.py and DBRepository.save_report, running beside   *)
(* the handlers of the client file, whose tables a report reads.            *)
(*                                                                          *)
(* A report is collected in several calls, each with a connection of its    *)
(* own and nothing that holds them together; it is written to the table     *)
(* Reports and, at every rendering of the page, exported to a CSV file      *)
(* named by its type that all sessions share.                               *)
(*                                                                          *)
(* A manager is a browser's page in its current run.  A run that the next   *)
(* click has overtaken (AppSession) still ends the call it is in, but shows *)
(* nothing: its row is like one of a manager who has logged out since, and  *)
(* its export is one of another session.                                    *)
(*                                                                          *)
(* Milestones, payment requests, payments and alerts are written by the     *)
(* seeds alone: the calls that read them see the same rows at any time and  *)
(* are one step here.                                                       *)
(****************************************************************************)
EXTENDS CustomerFile

CONSTANTS
    Managers,      \* sessions on the reports page, beside the handlers of CustomerFile
    Nothing,       \* no report
    MaxReports,    \* bound: ids the Reports table gives out
    DiskFails      \* whether writing or reading a CSV file may fail

ReportTypes == {"ManagementReport", "FinancialReport"}
ReportId    == 1 .. MaxReports

ASSUME ReportsAssumption ==
    /\ MaxReports \in Nat
    /\ DiskFails \in BOOLEAN
    /\ Nothing \notin [id : ReportId, type : ReportTypes, unnamed : SUBSET ProjectId]

VARIABLES
    reports, reportSeq,   \* table Reports: id -> type; its AUTOINCREMENT counter
    exports,              \* the CSV files: name -> the parts of reports they hold
    stage, draft,         \* the next call of each manager session, and its variables
    shown,                \* session_state["last_report"]
    contested             \* history: another session exported this type meanwhile

reportVars == <<reports, reportSeq, exports, stage, draft, shown, contested>>
allVars    == <<vars, reportVars>>

\* What a session displays: the row's id, and the projects it prints with a dash
\* where the client's name belongs.
Report == [id : ReportId, type : ReportTypes, unnamed : SUBSET ProjectId]

\* Local variables: active_projects, client_names and cursor.lastrowid.
NoDraft == [type |-> "none", projects |-> {}, named |-> {}, row |-> 0]
Drafts  == [type : ReportTypes \cup {"none"}, projects : SUBSET ProjectId,
            named : SUBSET ClientId, row : 0 .. MaxReports]

Collecting == {"getProjects", "getSections", "listClients", "insertReport", "readBack"}
Exporting  == {"writeHead", "writeTail", "readExport"}

\* A file is written through a buffer: what fits first, and the rest at the end.
Parts == ReportId \X {"head", "tail"}
Whole(id) == {<<id, "head">>, <<id, "tail">>}

\* Mutant: one file for all reports.
OneFile(type) == "ManagementReport"

\* EXPORTS_DIR / f"{report.report_type.value}.csv"
FilePath(type) == type

ReportsTypeOK ==
    /\ TypeOK
    /\ reports \in [ReportId -> ReportTypes \cup {"none"}]
    /\ reportSeq \in 0 .. MaxReports
    /\ exports \in [ReportTypes -> SUBSET Parts]
    /\ stage \in [Managers -> {"idle"} \cup Collecting \cup Exporting]
    /\ draft \in [Managers -> Drafts]
    /\ shown \in [Managers -> Report \cup {Nothing}]
    /\ contested \in [Managers -> BOOLEAN]

ReportsInit ==
    /\ Init
    /\ reports = [r \in ReportId |-> "none"]
    /\ reportSeq = 0
    /\ exports = [f \in ReportTypes |-> {}]
    /\ stage = [m \in Managers |-> "idle"]
    /\ draft = [m \in Managers |-> NoDraft]
    /\ shown = [m \in Managers |-> Nothing]
    /\ contested = [m \in Managers |-> FALSE]
--------------------------------------------------------------------------------
(* Generating a report. *)

\* Mutant: the names are looked up before the projects.
NamesFirst(type) ==
    [requested   |-> IF type = "ManagementReport" THEN "listClients" ELSE "getProjects",
     listClients |-> "getProjects",
     getProjects |-> "getSections",
     getSections |-> "insertReport"]

\* The order of the calls; only the management report prints client names.
CallAfter(type) ==
    [requested   |-> "getProjects",
     getProjects |-> "getSections",
     getSections |-> IF type = "ManagementReport" THEN "listClients" ELSE "insertReport",
     listClients |-> "insertReport"]

GoOn(m, type, call) == stage' = [stage EXCEPT ![m] = CallAfter(type)[call]]

\* The button, with a criterion chosen.
GenerateReport(m) ==
    /\ stage[m] = "idle"
    /\ reportSeq + Cardinality({n \in Managers : stage[n] \in Collecting \ {"readBack"}})
         < MaxReports
    /\ \E type \in ReportTypes :
         /\ draft' = [draft EXCEPT ![m] = [NoDraft EXCEPT !.type = type]]
         /\ GoOn(m, type, "requested")
    /\ UNCHANGED <<vars, reports, reportSeq, exports, shown, contested>>

\* The button without a criterion: a message, and the report shown so far is gone.
MissingCriteria(m) ==
    /\ stage[m] = "idle"
    /\ shown' = [shown EXCEPT ![m] = Nothing]
    /\ UNCHANGED <<vars, reports, reportSeq, exports, stage, draft, contested>>

\* find_active_projects.
GetActiveProjects(m) ==
    /\ stage[m] = "getProjects"
    /\ draft' = [draft EXCEPT ![m].projects =
                    {p \in ProjectId : projects[p].status = "Active"}]
    /\ GoOn(m, draft[m].type, "getProjects")
    /\ UNCHANGED <<vars, reports, reportSeq, exports, shown, contested>>

\* Milestones, payment requests, payments, alerts and changes of these projects.
GetSections(m) ==
    /\ stage[m] = "getSections"
    /\ GoOn(m, draft[m].type, "getSections")
    /\ UNCHANGED <<vars, reports, reportSeq, exports, draft, shown, contested>>

\* _client_name_map
ListClients(m) ==
    /\ stage[m] = "listClients"
    /\ draft' = [draft EXCEPT ![m].named = {c \in ClientId : IsPresent(clients, c)}]
    /\ GoOn(m, draft[m].type, "listClients")
    /\ UNCHANGED <<vars, reports, reportSeq, exports, shown, contested>>

\* The report is marked saved and its row inserted.
InsertReport(m) ==
    LET r == reportSeq + 1
    IN  /\ stage[m] = "insertReport"
        /\ reportSeq < MaxReports
        /\ reportSeq' = r
        /\ reports' = [reports EXCEPT ![r] = draft[m].type]
        /\ draft' = [draft EXCEPT ![m].row = r]
        /\ stage' = [stage EXCEPT ![m] = "readBack"]
        /\ UNCHANGED <<vars, exports, shown, contested>>

\* Mutant: SELECT MAX(reportId).
LatestRow(m) == reportSeq

\* Mutant: the report does not learn its id.
NoRowId(m) == 0

\* cursor.lastrowid is the row this connection inserted.
LastRowId(m) == draft[m].row

\* client_names.get(p.client_id, "-") of every row of the projects section.
Unnamed(d) ==
    IF d.type = "ManagementReport"
    THEN {p \in d.projects : projects[p].owner \notin d.named} ELSE {}

\* The id and the timestamp are read back and the report goes to the page.
ShowReport(m) ==
    /\ stage[m] = "readBack"
    /\ shown' = [shown EXCEPT ![m] = [id |-> LastRowId(m), type |-> draft[m].type,
                                      unnamed |-> Unnamed(draft[m])]]
    /\ stage' = [stage EXCEPT ![m] = "idle"]
    /\ draft' = [draft EXCEPT ![m] = NoDraft]
    /\ UNCHANGED <<vars, reports, reportSeq, exports, contested>>
--------------------------------------------------------------------------------
(* Exporting the report shown: at every rendering of the page, after the button *)
(* and after every other click on it.                                           *)

\* Session m touches the file of this type while the others export theirs.
Disturbs(m, type) ==
    contested' = [n \in Managers |->
        \/ n # m /\ contested[n]
        \/ n # m /\ stage[n] \in Exporting /\ shown[n].type = type
        \/ n = m /\ stage[m] # "idle" /\ contested[m]]

\* open(file_path, "w") truncates it.
OpenExport(m) ==
    /\ stage[m] = "idle" /\ shown[m] # Nothing
    /\ exports' = [exports EXCEPT ![FilePath(shown[m].type)] = {}]
    /\ stage' = [stage EXCEPT ![m] = "writeHead"]
    /\ Disturbs(m, shown[m].type)
    /\ UNCHANGED <<vars, reports, reportSeq, draft, shown>>

\* Every writer writes from its own offset: what another one wrote is overwritten
\* as far as the new rows reach, all of it, some or nothing.
WritePart(m, part) ==
    LET path == FilePath(shown[m].type)
        own  == exports[path] \cap Whole(shown[m].id)
    IN  /\ \E left \in SUBSET (exports[path] \ Whole(shown[m].id)) :
             exports' = [exports EXCEPT ![path] = own \cup left \cup {<<shown[m].id, part>>}]
        /\ Disturbs(m, shown[m].type)
        /\ UNCHANGED <<vars, reports, reportSeq, draft, shown>>

WriteHead(m) ==
    /\ stage[m] = "writeHead"
    /\ WritePart(m, "head")
    /\ stage' = [stage EXCEPT ![m] = "writeTail"]

WriteTail(m) ==
    /\ stage[m] = "writeTail"
    /\ WritePart(m, "tail")
    /\ stage' = [stage EXCEPT ![m] = "readExport"]

\* The download button is given what the file holds now.
ReadExport(m) ==
    /\ stage[m] = "readExport"
    /\ stage' = [stage EXCEPT ![m] = "idle"]
    /\ UNCHANGED <<vars, reports, reportSeq, exports, draft, shown, contested>>
--------------------------------------------------------------------------------
(* Leaving the page, and failures. *)

\* The log-out button clears last_report.
LogoutManager(m) ==
    /\ stage[m] = "idle" /\ shown[m] # Nothing
    /\ shown' = [shown EXCEPT ![m] = Nothing]
    /\ UNCHANGED <<vars, reports, reportSeq, exports, stage, draft, contested>>

\* "database is locked", or no right to write the file: the exception passes the
\* page by; the report shown before stays, and a file just opened stays as it is.
ReportRaises(m) ==
    /\ \/ "lockTimeout" \in Faults /\ stage[m] = "insertReport"
       \/ DiskFails /\ stage[m] \in Exporting
    /\ stage' = [stage EXCEPT ![m] = "idle"]
    /\ draft' = [draft EXCEPT ![m] = NoDraft]
    /\ UNCHANGED <<vars, reports, reportSeq, exports, shown, contested>>

\* The server process stops: rows and files stay as they are.
ReportsCrash ==
    /\ "crash" \in Faults
    /\ \/ Crash
       \/ (\A s \in Handlers : pc[s] \in Finished) /\ UNCHANGED vars
    /\ stage' = [m \in Managers |-> "idle"]
    /\ draft' = [m \in Managers |-> NoDraft]
    /\ shown' = [m \in Managers |-> Nothing]
    /\ UNCHANGED <<reports, reportSeq, exports, contested>>

ManagerStep(m) ==
    \/ GenerateReport(m)
    \/ MissingCriteria(m)
    \/ GetActiveProjects(m)
    \/ GetSections(m)
    \/ ListClients(m)
    \/ InsertReport(m)
    \/ ShowReport(m)
    \/ OpenExport(m)
    \/ WriteHead(m)
    \/ WriteTail(m)
    \/ ReadExport(m)
    \/ LogoutManager(m)
    \/ ReportRaises(m)

\* The handlers of the client file go on meanwhile.
FileStep ==
    /\ \E s \in Handlers : NewRequest(s) \/ Advance(s) \/ LockTimeout(s)
    /\ UNCHANGED reportVars

ReportsNext ==
    \/ \E m \in Managers : ManagerStep(m)
    \/ FileStep
    \/ ReportsCrash

ReportsSpec == ReportsInit /\ [][ReportsNext]_allVars
--------------------------------------------------------------------------------
\* A report marked saved is saved: what a session shows has a row of its own with
\* its type, although the report is marked before an INSERT that may fail, and no
\* two sessions show the same row.
ShownIsStored ==
    \A m \in Managers : shown[m] # Nothing =>
        /\ reports[shown[m].id] = shown[m].type
        /\ \A n \in Managers \ {m} : shown[n] # Nothing => shown[n].id # shown[m].id

\* The clients are read after the projects and not together with them, while the
\* office deletes clients, yet no project is printed without its client's name.
ProjectsNamed ==
    \A m \in Managers : shown[m] # Nothing => shown[m].unnamed = {}

\* The file a session is about to hand out is its own report, whole, unless
\* another session exported a report of that type since it opened the file:
\* reports of different types never get in each other's way.
ExportsApart ==
    \A m \in Managers : (stage[m] = "readExport" /\ ~contested[m]) =>
        exports[FilePath(shown[m].type)] = Whole(shown[m].id)
================================================================================
