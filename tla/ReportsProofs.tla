----------------------------- MODULE ReportsProofs -----------------------------
(****************************************************************************)
(* What the reports page guarantees for every number of manager sessions,   *)
(* reports, clients and projects, while the client file changes under it.   *)
(****************************************************************************)
EXTENDS Reports, CustomerFileProofs

ReportTablesOK ==
    /\ reports \in [ReportId -> ReportTypes \cup {"none"}]
    /\ reportSeq \in 0 .. MaxReports
    /\ exports \in [ReportTypes -> SUBSET Parts]

ManagersOK ==
    /\ stage \in [Managers -> {"idle"} \cup Collecting \cup Exporting]
    /\ draft \in [Managers -> Drafts]
    /\ shown \in [Managers -> Report \cup {Nothing}]
    /\ contested \in [Managers -> BOOLEAN]

\* What the local variables of a generation hold at its steps: projects that are
\* there, once the clients are read the name of each of their clients, and at the
\* end a row of the report's type.
DraftOK(m) ==
    /\ stage[m] \in Collecting => draft[m].type \in ReportTypes
    /\ stage[m] \in Collecting => \A p \in draft[m].projects : projects[p] # NoProject
    /\ stage[m] = "listClients" => draft[m].type = "ManagementReport"
    /\ (stage[m] \in {"insertReport", "readBack"} /\ draft[m].type = "ManagementReport") =>
           \A p \in draft[m].projects : projects[p].owner \in draft[m].named
    /\ stage[m] = "readBack" =>
           draft[m].row \in 1 .. reportSeq /\ reports[draft[m].row] = draft[m].type

\* What a session shows is stored and complete; a session exports what it shows.
PageOK(m) ==
    /\ shown[m] # Nothing =>
           /\ shown[m].id \in 1 .. reportSeq
           /\ reports[shown[m].id] = shown[m].type
           /\ shown[m].unnamed = {}
    /\ stage[m] \in Exporting => shown[m] # Nothing

\* The rows a session inserted and has, or is about to have, on its page.
RowsOf(m) ==
    {r \in ReportId : \/ shown[m] # Nothing /\ r = shown[m].id
                      \/ stage[m] = "readBack" /\ r = draft[m].row}

RowsApart == \A m, n \in Managers : m # n => RowsOf(m) \cap RowsOf(n) = {}

\* The file of an export that nobody disturbed, step by step.
FileOK(m) ==
    (stage[m] \in Exporting /\ ~contested[m]) =>
        exports[FilePath(shown[m].type)] =
            (CASE stage[m] = "writeHead"  -> {}
               [] stage[m] = "writeTail"  -> {<<shown[m].id, "head">>}
               [] stage[m] = "readExport" -> Whole(shown[m].id))

PageInv ==
    /\ FileInv
    /\ ReportTablesOK
    /\ ManagersOK
    /\ \A m \in Managers : DraftOK(m) /\ PageOK(m)
    /\ RowsApart
    /\ \A m \in Managers : FileOK(m)

\* A step of a manager leaves the client file and the other sessions alone.
LEMMA ManagerAlone ==
    ASSUME ManagersOK, NEW m \in Managers, ManagerStep(m)
    PROVE  /\ UNCHANGED vars
           /\ \A n \in Managers \ {m} :
                stage'[n] = stage[n] /\ draft'[n] = draft[n] /\ shown'[n] = shown[n]
<1>1. CASE GenerateReport(m) \/ MissingCriteria(m) \/ GetActiveProjects(m) \/ GetSections(m)
  BY <1>1 DEF ManagersOK, GenerateReport, MissingCriteria, GetActiveProjects, GetSections, GoOn
<1>2. CASE ListClients(m) \/ InsertReport(m) \/ ShowReport(m) \/ OpenExport(m)
  BY <1>2 DEF ManagersOK, ListClients, InsertReport, ShowReport, OpenExport, GoOn
<1>3. CASE WriteHead(m) \/ WriteTail(m) \/ ReadExport(m) \/ LogoutManager(m) \/ ReportRaises(m)
  BY <1>3 DEF ManagersOK, WriteHead, WriteTail, WritePart, ReadExport, LogoutManager,
     ReportRaises
<1>4. QED BY <1>1, <1>2, <1>3 DEF ManagerStep

\* A step of the reports page or beside it is a step of the client file or leaves
\* it alone.
LEMMA PageStep == ManagersOK /\ [ReportsNext]_allVars => [Next]_vars
<1>1. ManagersOK /\ (\E m \in Managers : ManagerStep(m)) => UNCHANGED vars
  BY ManagerAlone
<1>2. FileStep => Next
  BY DEF FileStep, Next
<1>3. ReportsCrash => [Next]_vars
  BY DEF ReportsCrash, Next
<1>4. UNCHANGED allVars => UNCHANGED vars
  BY DEF allVars
<1>5. QED BY <1>1, <1>2, <1>3, <1>4 DEF ReportsNext

\* The types of the table and the files.
LEMMA TablesTyped ==
    ASSUME PageInv, [ReportsNext]_allVars
    PROVE  ReportTablesOK'
<1> USE DEF PageInv, ReportTablesOK
<1>1. ASSUME NEW m \in Managers, InsertReport(m) PROVE ReportTablesOK'
  <2>1. draft[m].type \in ReportTypes
    BY <1>1 DEF InsertReport, DraftOK, Collecting
  <2>2. reportSeq + 1 \in 0 .. MaxReports
    BY <1>1, ReportsAssumption DEF InsertReport
  <2>3. QED BY <1>1, <2>1, <2>2 DEF InsertReport
<1>2. ASSUME NEW m \in Managers, OpenExport(m) PROVE ReportTablesOK'
  BY <1>2 DEF OpenExport
<1>3. ASSUME NEW m \in Managers, WriteHead(m) \/ WriteTail(m) PROVE ReportTablesOK'
  <2>1. PICK part \in {"head", "tail"} : WritePart(m, part)
    BY <1>3 DEF WriteHead, WriteTail
  <2>2. shown[m] \in Report
    BY <1>3 DEF PageOK, ManagersOK, WriteHead, WriteTail, Exporting
  <2>3. <<shown[m].id, part>> \in Parts /\ shown[m].type \in ReportTypes
    BY <2>2 DEF Report, Parts
  <2>4. QED BY <2>1, <2>3 DEF WritePart, FilePath
<1>4. ASSUME NEW m \in Managers,
             \/ GenerateReport(m) \/ MissingCriteria(m) \/ GetActiveProjects(m)
             \/ GetSections(m) \/ ListClients(m) \/ ShowReport(m) \/ ReadExport(m)
             \/ LogoutManager(m) \/ ReportRaises(m)
      PROVE  ReportTablesOK'
  BY <1>4 DEF GenerateReport, MissingCriteria, GetActiveProjects, GetSections, ListClients,
     ShowReport, ReadExport, LogoutManager, ReportRaises
<1>5. FileStep \/ ReportsCrash \/ UNCHANGED allVars => ReportTablesOK'
  BY DEF FileStep, ReportsCrash, allVars, reportVars
<1>6. QED BY <1>1, <1>2, <1>3, <1>4, <1>5 DEF ReportsNext, ManagerStep

\* The calls follow one another in an order that reads the clients for the
\* management report only, and last.
LEMMA CallOrder ==
    ASSUME NEW type \in ReportTypes
    PROVE  /\ CallAfter(type)["requested"] = "getProjects"
           /\ CallAfter(type)["getProjects"] = "getSections"
           /\ CallAfter(type)["getSections"] =
                  IF type = "ManagementReport" THEN "listClients" ELSE "insertReport"
           /\ CallAfter(type)["listClients"] = "insertReport"
  BY DEF CallAfter

\* What the collecting steps of a generation establish for their own session.
LEMMA CollectStep ==
    ASSUME PageInv, NEW m \in Managers,
           \/ GenerateReport(m) \/ GetActiveProjects(m) \/ GetSections(m) \/ ListClients(m)
    PROVE  ManagersOK' /\ DraftOK(m)' /\ PageOK(m)' /\ UNCHANGED <<vars, reports, reportSeq, shown>>
<1> USE DEF ManagersOK, DraftOK, PageOK, Collecting, Exporting, vars, dbVars
<1>1. /\ stage \in [Managers -> {"idle"} \cup Collecting \cup Exporting]
      /\ draft[m] \in Drafts /\ draft \in [Managers -> Drafts]
  BY DEF PageInv
<1>2. CASE GenerateReport(m)
  <2>1. PICK type \in ReportTypes :
               /\ draft' = [draft EXCEPT ![m] = [NoDraft EXCEPT !.type = type]]
               /\ GoOn(m, type, "requested")
    BY <1>2 DEF GenerateReport
  <2>2. [NoDraft EXCEPT !.type = type] \in Drafts
    BY ReportsAssumption DEF NoDraft, Drafts
  <2>3. stage' = [stage EXCEPT ![m] = "getProjects"]
    BY <2>1, CallOrder DEF GoOn
  <2>4. ManagersOK'
    BY <1>1, <1>2, <2>1, <2>2, <2>3 DEF PageInv, GenerateReport
  <2>5. DraftOK(m)'
    BY <1>1, <2>1, <2>2, <2>3 DEF NoDraft
  <2>6. PageOK(m)' /\ UNCHANGED <<vars, reports, reportSeq, shown>>
    BY <1>1, <1>2, <2>3 DEF PageInv, GenerateReport
  <2>7. QED BY <2>4, <2>5, <2>6
<1>3. CASE GetActiveProjects(m)
  <2> DEFINE active == {p \in ProjectId : projects[p].status = "Active"}
  <2>1. draft[m].type \in ReportTypes
    BY <1>3 DEF PageInv, GetActiveProjects
  <2>2. stage' = [stage EXCEPT ![m] = "getSections"]
    BY <1>3, <2>1, CallOrder DEF GetActiveProjects, GoOn
  <2>3. [draft[m] EXCEPT !.projects = active] \in Drafts
    BY <1>1 DEF Drafts
  <2>4. draft' = [draft EXCEPT ![m] = [draft[m] EXCEPT !.projects = active]]
    BY <1>1, <1>3 DEF GetActiveProjects
  <2>5. \A p \in active : projects[p] # NoProject
    BY DEF NoProject
  <2>6. ManagersOK'
    BY <1>1, <1>3, <2>2, <2>3, <2>4 DEF PageInv, GetActiveProjects
  <2>7. draft'[m].type = draft[m].type /\ draft'[m].projects = active
    BY <1>1, <2>4 DEF Drafts
  <2>8. DraftOK(m)'
    BY <1>1, <1>3, <2>1, <2>2, <2>5, <2>7 DEF GetActiveProjects
  <2>9. PageOK(m)' /\ UNCHANGED <<vars, reports, reportSeq, shown>>
    BY <1>1, <1>3, <2>2 DEF PageInv, GetActiveProjects
  <2>10. QED BY <2>6, <2>8, <2>9
<1>4. CASE GetSections(m)
  <2>1. draft[m].type \in ReportTypes
    BY <1>4 DEF PageInv, GetSections
  <2>2. stage' = [stage EXCEPT ![m] = IF draft[m].type = "ManagementReport"
                                      THEN "listClients" ELSE "insertReport"]
    BY <1>4, <2>1, CallOrder DEF GetSections, GoOn
  <2>3. UNCHANGED <<draft, vars, reports, reportSeq, shown, contested>>
    BY <1>4 DEF GetSections
  <2>4. ManagersOK'
    BY <1>1, <2>2, <2>3 DEF PageInv
  <2>5. DraftOK(m)'
    BY <1>1, <1>4, <2>1, <2>2, <2>3 DEF PageInv, GetSections
  <2>6. PageOK(m)'
    BY <1>1, <2>2, <2>3 DEF PageInv
  <2>7. QED BY <2>3, <2>4, <2>5, <2>6
<1>5. CASE ListClients(m)
  <2> DEFINE present == {c \in ClientId : IsPresent(clients, c)}
  <2>1. draft[m].type = "ManagementReport"
    BY <1>5 DEF PageInv, ListClients
  <2>2. stage' = [stage EXCEPT ![m] = "insertReport"]
    BY <1>5, <2>1, CallOrder DEF ListClients, GoOn, ReportTypes
  <2>3. [draft[m] EXCEPT !.named = present] \in Drafts
    BY <1>1 DEF Drafts
  <2>4. draft' = [draft EXCEPT ![m] = [draft[m] EXCEPT !.named = present]]
    BY <1>1, <1>5 DEF ListClients
  <2>5. UNCHANGED <<vars, reports, reportSeq, shown, contested>>
    BY <1>5 DEF ListClients
  <2>6. ManagersOK'
    BY <1>1, <2>2, <2>3, <2>4, <2>5 DEF PageInv
  <2>7. /\ draft'[m].type = draft[m].type /\ draft'[m].projects = draft[m].projects
        /\ draft'[m].named = present
    BY <1>1, <2>4 DEF Drafts
  <2>8. \A p \in draft[m].projects : projects[p].owner \in present
    <3> SUFFICES ASSUME NEW p \in draft[m].projects PROVE projects[p].owner \in present
      OBVIOUS
    <3>1. p \in ProjectId /\ projects[p] # NoProject
      BY <1>1, <1>5 DEF PageInv, Drafts, ListClients
    <3>2. projects[p] \in ProjectRow
      BY <3>1 DEF PageInv, FileInv, ControlInv, TypeOK, TablesOK
    <3>3. projects[p].owner \in ClientId
      BY <3>1, <3>2 DEF ProjectRow
    <3>4. QED BY <3>1, <3>3 DEF PageInv, FileInv, ReferentialIntegrity
  <2>9. DraftOK(m)'
    BY <1>1, <1>5, <2>1, <2>2, <2>5, <2>7, <2>8 DEF PageInv, ListClients, ReportTypes
  <2>10. PageOK(m)'
    BY <1>1, <2>2, <2>5 DEF PageInv
  <2>11. QED BY <2>5, <2>6, <2>9, <2>10
<1>6. QED BY <1>2, <1>3, <1>4, <1>5

\* The INSERT gives a row of the report's type, with an id nobody holds.
LEMMA InsertStep ==
    ASSUME PageInv, NEW m \in Managers, InsertReport(m)
    PROVE  /\ ManagersOK' /\ DraftOK(m)' /\ PageOK(m)'
           /\ reportSeq' = reportSeq + 1
           /\ \A r \in 1 .. reportSeq : reports'[r] = reports[r]
           /\ draft'[m].row = reportSeq + 1
           /\ stage'[m] = "readBack" /\ shown' = shown
           /\ UNCHANGED vars
<1> USE DEF ManagersOK, DraftOK, PageOK, Collecting, Exporting, vars, dbVars
<1> DEFINE r == reportSeq + 1
<1>1. /\ stage[m] = "insertReport" /\ r \in ReportId /\ reportSeq' = r
      /\ reports' = [reports EXCEPT ![r] = draft[m].type]
      /\ stage' = [stage EXCEPT ![m] = "readBack"]
      /\ UNCHANGED <<vars, exports, shown, contested>>
  BY ReportsAssumption DEF PageInv, ReportTablesOK, InsertReport, ReportId
<1>2. /\ stage \in [Managers -> {"idle"} \cup Collecting \cup Exporting]
      /\ draft[m] \in Drafts /\ draft \in [Managers -> Drafts]
      /\ reports \in [ReportId -> ReportTypes \cup {"none"}]
      /\ draft[m].type \in ReportTypes /\ reportSeq \in Nat /\ reportSeq < MaxReports
  BY <1>1, ReportsAssumption DEF PageInv, ReportTablesOK, InsertReport
<1>3. [draft[m] EXCEPT !.row = r] \in Drafts
  BY <1>1, <1>2 DEF Drafts, ReportId
<1>4. draft' = [draft EXCEPT ![m] = [draft[m] EXCEPT !.row = r]]
  BY <1>2 DEF InsertReport
<1>5. ManagersOK'
  BY <1>1, <1>2, <1>3, <1>4 DEF PageInv
<1>6. /\ draft'[m].type = draft[m].type /\ draft'[m].projects = draft[m].projects
      /\ draft'[m].named = draft[m].named /\ draft'[m].row = r
  BY <1>2, <1>4 DEF Drafts
<1>7. reports'[r] = draft[m].type /\ \A q \in 1 .. reportSeq : reports'[q] = reports[q]
  BY <1>1, <1>2 DEF ReportId
<1>8. DraftOK(m)'
  BY <1>1, <1>2, <1>6, <1>7 DEF PageInv
<1>9. PageOK(m)'
  BY <1>1, <1>2, <1>7 DEF PageInv
<1>10. QED BY <1>1, <1>2, <1>5, <1>6, <1>7, <1>8, <1>9

\* The page gets the row the session inserted, and no project without a name.
LEMMA ShowStep ==
    ASSUME PageInv, NEW m \in Managers, ShowReport(m)
    PROVE  /\ ManagersOK' /\ DraftOK(m)' /\ PageOK(m)'
           /\ shown'[m].id = draft[m].row /\ stage'[m] = "idle"
           /\ UNCHANGED <<vars, reports, reportSeq>>
<1> USE DEF ManagersOK, DraftOK, PageOK, Collecting, Exporting
<1> DEFINE page == [id |-> draft[m].row, type |-> draft[m].type, unnamed |-> Unnamed(draft[m])]
<1>1. /\ stage[m] = "readBack" /\ stage' = [stage EXCEPT ![m] = "idle"]
      /\ draft' = [draft EXCEPT ![m] = NoDraft]
      /\ shown' = [shown EXCEPT ![m] = page]
      /\ UNCHANGED <<vars, reports, reportSeq, exports, contested>>
  BY DEF ShowReport, LastRowId
<1>2. /\ stage \in [Managers -> {"idle"} \cup Collecting \cup Exporting]
      /\ draft[m] \in Drafts /\ draft \in [Managers -> Drafts]
      /\ shown \in [Managers -> Report \cup {Nothing}]
      /\ draft[m].type \in ReportTypes
      /\ draft[m].row \in 1 .. reportSeq /\ reports[draft[m].row] = draft[m].type
      /\ reportSeq \in 0 .. MaxReports
  BY <1>1 DEF PageInv, ReportTablesOK
<1>3. Unnamed(draft[m]) = {}
  BY <1>1, <1>2 DEF PageInv, Unnamed
<1>4. page \in Report /\ page # Nothing
  BY <1>2, <1>3, ReportsAssumption DEF Report, ReportId
<1>5. NoDraft \in Drafts
  BY ReportsAssumption DEF NoDraft, Drafts
<1>6. ManagersOK'
  BY <1>1, <1>2, <1>4, <1>5 DEF PageInv
<1>7. PageOK(m)'
  BY <1>1, <1>2, <1>3
<1>8. QED BY <1>1, <1>2, <1>6, <1>7

\* The steps on the page leave the rows alone, and what is shown stays or goes.
LEMMA ViewStep ==
    ASSUME PageInv, NEW m \in Managers,
           \/ MissingCriteria(m) \/ OpenExport(m) \/ WriteHead(m) \/ WriteTail(m)
           \/ ReadExport(m) \/ LogoutManager(m) \/ ReportRaises(m)
    PROVE  /\ ManagersOK' /\ DraftOK(m)' /\ PageOK(m)'
           /\ shown'[m] \in {shown[m], Nothing} /\ stage'[m] \in {"idle"} \cup Exporting
           /\ UNCHANGED <<vars, reports, reportSeq>>
<1> USE DEF ManagersOK, DraftOK, PageOK, Collecting, Exporting
<1>1. /\ stage \in [Managers -> {"idle"} \cup Collecting \cup Exporting]
      /\ draft \in [Managers -> Drafts] /\ NoDraft \in Drafts
      /\ shown \in [Managers -> Report \cup {Nothing}]
      /\ contested \in [Managers -> BOOLEAN]
  BY ReportsAssumption DEF PageInv, NoDraft, Drafts
<1>2. CASE MissingCriteria(m) \/ LogoutManager(m) \/ ReadExport(m)
  BY <1>1, <1>2 DEF PageInv, MissingCriteria, LogoutManager, ReadExport
<1>3. CASE ReportRaises(m)
  BY <1>1, <1>3 DEF PageInv, ReportRaises
<1>4. ASSUME NEW type, Disturbs(m, type)
      PROVE  contested' \in [Managers -> BOOLEAN]
  BY <1>4 DEF Disturbs
<1>5. CASE OpenExport(m)
  BY <1>1, <1>4, <1>5 DEF PageInv, OpenExport
<1>6. CASE WriteHead(m) \/ WriteTail(m)
  BY <1>1, <1>4, <1>6 DEF PageInv, WriteHead, WriteTail, WritePart
<1>7. QED BY <1>2, <1>3, <1>5, <1>6

\* A step of one session keeps what the others know: rows and projects stay.
LEMMA OthersKept ==
    ASSUME PageInv, [Next]_vars, NEW n \in Managers,
           stage'[n] = stage[n], draft'[n] = draft[n], shown'[n] = shown[n],
           reportSeq' \in Nat, reportSeq <= reportSeq',
           \A r \in 1 .. reportSeq : reports'[r] = reports[r]
    PROVE  DraftOK(n)' /\ PageOK(n)'
<1>1. DraftOK(n) /\ PageOK(n) /\ draft[n] \in Drafts /\ reportSeq \in Nat
  BY ReportsAssumption DEF PageInv, ManagersOK, ReportTablesOK
<1>2. ProjectsStay /\ draft[n].projects \subseteq ProjectId
  BY <1>1, ProjectsNeverGo DEF PageInv, FileInv, Drafts
<1>3. PageOK(n)'
  BY <1>1 DEF PageOK
<1>4. stage[n] \in Collecting =>
        \A p \in draft[n].projects :
            projects'[p] # NoProject /\ projects'[p].owner = projects[p].owner
  BY <1>1, <1>2 DEF DraftOK, ProjectsStay
<1>5. DraftOK(n)'
  BY <1>1, <1>4 DEF DraftOK, Collecting
<1>6. QED BY <1>3, <1>5

\* The file sessions move on and no manager does, or the process stops.
LEMMA BesideStep ==
    ASSUME PageInv, FileStep \/ ReportsCrash \/ UNCHANGED allVars
    PROVE  /\ ManagersOK' /\ RowsApart' /\ \A n \in Managers : DraftOK(n)' /\ PageOK(n)'
           /\ \A n \in Managers : FileOK(n)'
<1>1. CASE ReportsCrash
  <2>1. /\ stage' = [n \in Managers |-> "idle"] /\ shown' = [n \in Managers |-> Nothing]
        /\ draft' = [n \in Managers |-> NoDraft] /\ contested' = contested
    BY <1>1 DEF ReportsCrash
  <2>2. NoDraft \in Drafts
    BY ReportsAssumption DEF NoDraft, Drafts
  <2>3. ManagersOK'
    BY <2>1, <2>2 DEF PageInv, ManagersOK
  <2>4. \A n \in Managers : DraftOK(n)' /\ PageOK(n)' /\ FileOK(n)' /\ RowsOf(n)' = {}
    BY <2>1 DEF DraftOK, PageOK, FileOK, RowsOf, Collecting, Exporting
  <2>5. QED BY <2>3, <2>4 DEF RowsApart
<1>2. CASE FileStep \/ UNCHANGED allVars
  <2>1. UNCHANGED reportVars
    BY <1>2 DEF FileStep, allVars
  <2>2. [Next]_vars
    BY <1>2, PageStep DEF PageInv, ReportsNext
  <2>3. reportSeq \in Nat
    BY ReportsAssumption DEF PageInv, ReportTablesOK
  <2>4. \A n \in Managers : DraftOK(n)' /\ PageOK(n)'
    BY <2>1, <2>2, <2>3, OthersKept DEF reportVars
  <2>5. ManagersOK'
    BY <2>1 DEF PageInv, ManagersOK, reportVars
  <2>6. \A n \in Managers : RowsOf(n)' = RowsOf(n)
    BY <2>1 DEF RowsOf, reportVars
  <2>7. RowsApart'
    BY <2>6 DEF PageInv, RowsApart
  <2>8. \A n \in Managers : FileOK(n)'
    BY <2>1 DEF PageInv, FileOK, reportVars
  <2>9. QED BY <2>4, <2>5, <2>7, <2>8
<1>3. QED BY <1>1, <1>2

\* A manager's step gives its session at most the row it inserts.
LEMMA ManagerRows ==
    ASSUME PageInv, NEW m \in Managers, ManagerStep(m)
    PROVE  /\ ManagersOK' /\ DraftOK(m)' /\ PageOK(m)'
           /\ reportSeq' \in Nat /\ reportSeq <= reportSeq'
           /\ \A r \in 1 .. reportSeq : reports'[r] = reports[r]
           /\ \A r \in RowsOf(m)' : r \in RowsOf(m) \/ r = reportSeq + 1
<1>1. reportSeq \in Nat
  BY ReportsAssumption DEF PageInv, ReportTablesOK
<1>2. CASE GenerateReport(m) \/ GetActiveProjects(m) \/ GetSections(m) \/ ListClients(m)
  <2>1. stage'[m] # "readBack"
    <3>1. ASSUME stage[m] \in Collecting PROVE draft[m].type \in ReportTypes
      BY <3>1 DEF PageInv, DraftOK
    <3>2. stage \in [Managers -> {"idle"} \cup Collecting \cup Exporting]
      BY DEF PageInv, ManagersOK
    <3>3. QED
      BY <1>2, <3>1, <3>2, CallOrder DEF GenerateReport, GetActiveProjects, GetSections,
         ListClients, GoOn, Collecting
  <2>2. QED BY <1>1, <1>2, <2>1, CollectStep DEF RowsOf
<1>3. CASE InsertReport(m)
  BY <1>1, <1>3, InsertStep DEF RowsOf
<1>4. CASE ShowReport(m)
  <2>1. stage[m] = "readBack"
    BY <1>4 DEF ShowReport
  <2>2. QED BY <1>1, <1>4, <2>1, ShowStep DEF RowsOf
<1>5. CASE \/ MissingCriteria(m) \/ OpenExport(m) \/ WriteHead(m) \/ WriteTail(m)
           \/ ReadExport(m) \/ LogoutManager(m) \/ ReportRaises(m)
  BY <1>1, <1>5, ViewStep DEF RowsOf, Exporting
<1>6. QED BY <1>2, <1>3, <1>4, <1>5 DEF ManagerStep

\* No two sessions ever hold one row.
LEMMA StepRows ==
    ASSUME PageInv, NEW m \in Managers, ManagerStep(m)
    PROVE  ManagersOK' /\ RowsApart' /\ \A n \in Managers : DraftOK(n)' /\ PageOK(n)'
<1>1. [Next]_vars
  BY PageStep DEF PageInv, ReportsNext
<1>2. \A n \in Managers \ {m} :
        /\ stage'[n] = stage[n] /\ draft'[n] = draft[n] /\ shown'[n] = shown[n]
        /\ RowsOf(n)' = RowsOf(n)
  BY ManagerAlone DEF PageInv, RowsOf
<1>3. \A n \in Managers : DraftOK(n)' /\ PageOK(n)'
  BY <1>1, <1>2, ManagerRows, OthersKept
<1>4. \A n \in Managers : \A r \in RowsOf(n) : r \in 1 .. reportSeq
  BY DEF PageInv, DraftOK, PageOK, RowsOf
<1>5. reportSeq + 1 \notin 1 .. reportSeq
  BY ReportsAssumption DEF PageInv, ReportTablesOK
<1>6. ASSUME NEW n \in Managers \ {m} PROVE RowsOf(m)' \cap RowsOf(n)' = {}
  BY <1>2, <1>4, <1>5, <1>6, ManagerRows DEF PageInv, RowsApart
<1>7. ASSUME NEW k \in Managers, NEW n \in Managers, k # n
      PROVE  RowsOf(k)' \cap RowsOf(n)' = {}
  <2>1. CASE k = m
    BY <1>6, <1>7, <2>1
  <2>2. CASE n = m
    BY <1>6, <1>7, <2>2
  <2>3. CASE k # m /\ n # m
    BY <1>2, <1>7, <2>3 DEF PageInv, RowsApart
  <2>4. QED BY <2>1, <2>2, <2>3
<1>8. QED BY <1>3, <1>7, ManagerRows DEF RowsApart

\* What a session that exports knows of its file: another session that writes a
\* file of the type is noticed, one that writes the other type's is elsewhere.
LEMMA StepFiles ==
    ASSUME PageInv, NEW m \in Managers, ManagerStep(m), NEW n \in Managers
    PROVE  FileOK(n)'
<1> USE DEF FileOK, Exporting, FilePath
<1>1. /\ stage \in [Managers -> {"idle"} \cup Collecting \cup Exporting]
      /\ shown \in [Managers -> Report \cup {Nothing}]
      /\ exports \in [ReportTypes -> SUBSET Parts]
      /\ FileOK(n)
      /\ \A k \in Managers : stage[k] \in Exporting => shown[k] # Nothing
  BY DEF PageInv, ManagersOK, ReportTablesOK, PageOK
<1>2. \A k \in Managers : shown[k] # Nothing => shown[k].type \in ReportTypes
  BY <1>1 DEF Report
<1>3. CASE \/ GenerateReport(m) \/ GetActiveProjects(m) \/ GetSections(m) \/ ListClients(m)
           \/ InsertReport(m) \/ ShowReport(m) \/ MissingCriteria(m) \/ ReadExport(m)
           \/ LogoutManager(m) \/ ReportRaises(m)
  <2>1. UNCHANGED <<exports, contested>>
    BY <1>3 DEF GenerateReport, GetActiveProjects, GetSections, ListClients, InsertReport,
       ShowReport, MissingCriteria, ReadExport, LogoutManager, ReportRaises
  <2>2. n # m => stage'[n] = stage[n] /\ shown'[n] = shown[n]
    BY ManagerAlone DEF PageInv
  <2>3. stage'[m] \notin Exporting
    <3>1. ASSUME stage[m] \in Collecting PROVE draft[m].type \in ReportTypes
      BY <3>1 DEF PageInv, DraftOK
    <3>2. QED
      BY <1>1, <1>3, <3>1, CallOrder DEF GenerateReport, GetActiveProjects, GetSections,
         ListClients, InsertReport, ShowReport, MissingCriteria, ReadExport, LogoutManager,
         ReportRaises, GoOn, Collecting
  <2>4. QED BY <1>1, <2>1, <2>2, <2>3
<1>4. CASE OpenExport(m)
  <2>1. /\ stage[m] = "idle" /\ shown[m] # Nothing /\ shown' = shown
        /\ exports' = [exports EXCEPT ![shown[m].type] = {}]
        /\ stage' = [stage EXCEPT ![m] = "writeHead"] /\ Disturbs(m, shown[m].type)
    BY <1>4 DEF OpenExport
  <2>2. CASE n = m
    BY <1>1, <1>2, <2>1, <2>2
  <2>3. CASE n # m
    <3>1. stage'[n] = stage[n]
      BY <1>1, <2>1, <2>3
    <3>2. contested'[n] = (contested[n] \/ (stage[n] \in Exporting /\ shown[n].type = shown[m].type))
      BY <2>1, <2>3 DEF Disturbs
    <3>3. shown[n].type # shown[m].type => exports'[shown[n].type] = exports[shown[n].type]
             \/ shown[n] = Nothing
      BY <1>1, <1>2, <2>1
    <3>4. QED BY <1>1, <2>1, <3>1, <3>2, <3>3
  <2>4. QED BY <2>2, <2>3
<1>5. CASE WriteHead(m) \/ WriteTail(m)
  <2>1. PICK part \in {"head", "tail"} :
          /\ WritePart(m, part)
          /\ part = "head" => stage[m] = "writeHead" /\ stage' = [stage EXCEPT ![m] = "writeTail"]
          /\ part = "tail" => stage[m] = "writeTail" /\ stage' = [stage EXCEPT ![m] = "readExport"]
    BY <1>5 DEF WriteHead, WriteTail
  <2>2. shown' = shown /\ Disturbs(m, shown[m].type)
    BY <2>1 DEF WritePart
  <2>3. PICK left \in SUBSET (exports[shown[m].type] \ Whole(shown[m].id)) :
          exports' = [exports EXCEPT ![shown[m].type] =
                        (exports[shown[m].type] \cap Whole(shown[m].id)) \cup left
                          \cup {<<shown[m].id, part>>}]
    BY <2>1 DEF WritePart
  <2>4. shown[m].type \in ReportTypes
    BY <1>1, <1>2, <2>1
  <2>5. CASE n = m
    <3>1. ASSUME ~contested'[m] PROVE ~contested[m]
      BY <1>1, <2>1, <2>2, <3>1 DEF Disturbs
    <3>2. CASE contested'[m]
      BY <2>5, <3>2
    <3>3. CASE ~contested'[m] /\ part = "head"
      <4>1. exports[shown[m].type] = {}
        BY <1>1, <2>1, <2>5, <3>1, <3>3
      <4>2. exports'[shown[m].type] = {<<shown[m].id, "head">>}
        BY <1>1, <2>3, <2>4, <3>3, <4>1
      <4>3. stage'[m] = "writeTail"
        BY <1>1, <2>1, <3>3
      <4>4. QED BY <2>2, <2>5, <4>2, <4>3
    <3>4. CASE ~contested'[m] /\ part = "tail"
      <4>1. exports[shown[m].type] = {<<shown[m].id, "head">>}
        BY <1>1, <2>1, <2>5, <3>1, <3>4
      <4>2. exports'[shown[m].type] = Whole(shown[m].id)
        BY <1>1, <2>3, <2>4, <3>4, <4>1 DEF Whole
      <4>3. stage'[m] = "readExport"
        BY <1>1, <2>1, <3>4
      <4>4. QED BY <2>2, <2>5, <4>2, <4>3
    <3>5. QED BY <2>1, <3>2, <3>3, <3>4
  <2>6. CASE n # m
    <3>1. stage'[n] = stage[n]
      BY <1>1, <2>1, <2>6
    <3>2. contested'[n] = (contested[n] \/ (stage[n] \in Exporting /\ shown[n].type = shown[m].type))
      BY <2>2, <2>6 DEF Disturbs
    <3>3. shown[n].type # shown[m].type => exports'[shown[n].type] = exports[shown[n].type]
             \/ shown[n] = Nothing
      BY <1>1, <1>2, <2>3, <2>4
    <3>4. QED BY <1>1, <2>2, <3>1, <3>2, <3>3
  <2>7. QED BY <2>5, <2>6
<1>6. QED BY <1>3, <1>4, <1>5 DEF ManagerStep

\* Every step preserves the invariant.
LEMMA StepPage == PageInv /\ [ReportsNext]_allVars => PageInv'
<1> SUFFICES ASSUME PageInv, [ReportsNext]_allVars PROVE PageInv'
  OBVIOUS
<1>1. FileInv'
  BY PageStep, StepFile DEF PageInv
<1>2. ReportTablesOK'
  BY TablesTyped
<1>3. CASE \E m \in Managers : ManagerStep(m)
  BY <1>1, <1>2, <1>3, StepRows, StepFiles DEF PageInv
<1>4. CASE FileStep \/ ReportsCrash \/ UNCHANGED allVars
  BY <1>1, <1>2, <1>4, BesideStep DEF PageInv
<1>5. QED BY <1>3, <1>4 DEF ReportsNext

\* No report, nobody on the page.
LEMMA InitPage == ReportsInit => PageInv
<1> SUFFICES ASSUME ReportsInit PROVE PageInv
  OBVIOUS
<1>1. FileInv
  BY InitFile DEF ReportsInit
<1>2. ReportTablesOK
  BY ReportsAssumption DEF ReportsInit, ReportTablesOK
<1>3. ManagersOK
  BY ReportsAssumption DEF ReportsInit, ManagersOK, NoDraft, Drafts
<1>4. \A m \in Managers : DraftOK(m) /\ PageOK(m) /\ FileOK(m) /\ RowsOf(m) = {}
  BY DEF ReportsInit, DraftOK, PageOK, FileOK, RowsOf, Collecting, Exporting
<1>5. QED BY <1>1, <1>2, <1>3, <1>4 DEF PageInv, RowsApart

\* The invariant holds throughout.
LEMMA PageInvariance == ReportsSpec => []PageInv
  BY InitPage, StepPage, PTL DEF ReportsSpec

\* The reports page does nothing to the client file: every property proved of its
\* handlers holds while reports are generated and exported beside them.
THEOREM ReportsImplementFile == ReportsSpec => Spec
<1>1. ReportsInit => Init
  BY DEF ReportsInit
<1>2. PageInv /\ [ReportsNext]_allVars => [Next]_vars
  BY PageStep DEF PageInv
<1>3. QED BY <1>1, <1>2, PageInvariance, PTL DEF ReportsSpec, Spec

\* The reports page keeps the types of its tables, files and sessions.
THEOREM ReportsTyped == ReportsSpec => []ReportsTypeOK
<1>1. PageInv => ReportsTypeOK
  BY DEF PageInv, ReportsTypeOK, FileInv, ControlInv, ReportTablesOK, ManagersOK
<1>2. QED BY <1>1, PageInvariance, PTL

\* Whatever fails and whoever else generates reports, the report a session shows
\* is in the table under its id, and in no other session.
THEOREM ShownReportsStored == ReportsSpec => []ShownIsStored
<1>1. ASSUME PageInv, NEW m \in Managers, shown[m] # Nothing
      PROVE  /\ reports[shown[m].id] = shown[m].type
             /\ \A n \in Managers \ {m} : shown[n] # Nothing => shown[n].id # shown[m].id
  <2>1. \A n \in Managers : shown[n] # Nothing => shown[n].id \in RowsOf(n)
    BY <1>1 DEF PageInv, ManagersOK, RowsOf, Report
  <2>2. QED BY <1>1, <2>1 DEF PageInv, PageOK, RowsApart
<1>2. PageInv => ShownIsStored
  BY <1>1 DEF ShownIsStored
<1>3. QED BY <1>2, PageInvariance, PTL

\* Reading projects and clients at different times costs no report a client's
\* name, for any number of sessions that create, link and delete meanwhile.
THEOREM ReportedProjectsNamed == ReportsSpec => []ProjectsNamed
<1>1. PageInv => ProjectsNamed
  BY DEF PageInv, PageOK, ProjectsNamed
<1>2. QED BY <1>1, PageInvariance, PTL

\* An export no other session of its type disturbed is whole when it is read.
THEOREM UndisturbedExports == ReportsSpec => []ExportsApart
<1>1. PageInv => ExportsApart
  BY DEF PageInv, FileOK, ExportsApart, Exporting
<1>2. QED BY <1>1, PageInvariance, PTL
================================================================================
