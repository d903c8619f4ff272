------------------------------ MODULE ProjectFiles -----------------------------
(****************************************************************************)
(* The architect's studio (controllers/architect_controller.py,             *)
(* views/architect_workspace.py): drawings, a file under drawings/ and a    *)
(* row of table Drawings that leads to it, and field notes.  The client's   *)
(* portal (views/client_portal.py) hands out the files behind the rows of   *)
(* the client's projects.                                                   *)
(*                                                                          *)
(* The file is written before the row and nothing ties the two together; a  *)
(* file with the same project and the same cleaned name is written over.    *)
(* An upload whose run the architect's next click overtakes goes on to its  *)
(* row, so two runs of one browser count as two architects.                 *)
(* Rows and files are never deleted, so a portal may read the rows at one   *)
(* time and a file later: it finds what it would find reading both at once. *)
(****************************************************************************)
EXTENDS Naturals

CONSTANTS
    Architects,    \* script threads of architects
    Projects,      \* the projects there are (none is ever deleted)
    Clients,       \* their owners
    OwnerOf,       \* Projects.clientId, which no operation changes
    FileNames,     \* names of files as the browser sends them
    SafeNames,     \* and what _safe_file_name leaves of them
    SafeName,      \* FileNames -> SafeNames; several names may give one
    NoFile,        \* no file
    Faults,        \* subset of {"crash", "ioError", "lockTimeout"}
    MaxUploads     \* bound: uploads

ASSUME FilesAssumption ==
    /\ OwnerOf \in [Projects -> Clients]
    /\ SafeName \in [FileNames -> SafeNames]
    /\ NoFile \notin Projects \X SafeNames
    /\ Faults \subseteq {"crash", "ioError", "lockTimeout"}
    /\ MaxUploads \in Nat

VARIABLES
    uploads,     \* how many uploads were started; upload u is the u-th
    origin,      \* the project and the cleaned name of each upload
    onDisk,      \* the files in drawings/
    content,     \* what they hold: parts of uploads
    drawings,    \* table Drawings: project, file and upload of each row
    notes,       \* projects with a row in FieldNotes
    stage,       \* the next call of each thread
    job,         \* and the upload it works on
    overwritten  \* history: uploads whose file another one opened or wrote since

diskVars == <<onDisk, content, overwritten>>
vars     == <<uploads, origin, diskVars, drawings, notes, stage, job>>

UploadId == 1 .. MaxUploads
Files    == Projects \X SafeNames
Parts    == UploadId \X {"head", "tail"}
Whole(u) == {<<u, "head">>, <<u, "tail">>}

\* The thread works on no upload.
NoUpload == 0

Drawing == [project : Projects, path : Files, upload : UploadId]

UploadCalls == {"openFile", "writeHead", "writeTail", "insertDrawing"}

TypeOK ==
    /\ uploads \in 0 .. MaxUploads
    /\ origin \in [UploadId -> Files \cup {NoFile}]
    /\ onDisk \subseteq Files
    /\ content \in [Files -> SUBSET Parts]
    /\ drawings \subseteq Drawing
    /\ notes \subseteq Projects
    /\ stage \in [Architects -> {"idle"} \cup UploadCalls]
    /\ job \in [Architects -> {NoUpload} \cup UploadId]
    /\ overwritten \subseteq UploadId

Init ==
    /\ uploads = 0
    /\ origin = [u \in UploadId |-> NoFile]
    /\ onDisk = {}
    /\ content = [f \in Files |-> {}]
    /\ drawings = {}
    /\ notes = {}
    /\ stage = [a \in Architects |-> "idle"]
    /\ job = [a \in Architects |-> NoUpload]
    /\ overwritten = {}
--------------------------------------------------------------------------------
\* Mutant: the name is not prefixed with the project's id.
NameOnly(p, name) == <<CHOOSE q \in Projects : TRUE, name>>

\* DRAWINGS_DIR / f"p{project_id}_{safe_name}"
StoredPath(p, name) == <<p, name>>

\* The file of upload u.
PathOf(u) == StoredPath(origin[u][1], origin[u][2])

\* Mutant: the row first, then the file.
RowFirst ==
    [upload        |-> "insertDrawing", insertDrawing |-> "openFile",
     openFile      |-> "writeHead",     writeHead     |-> "writeTail",
     writeTail     |-> "idle"]

\* upload_drawing: the file, through a buffer, and then its row.
CallAfter ==
    [upload        |-> "openFile",      openFile      |-> "writeHead",
     writeHead     |-> "writeTail",     writeTail     |-> "insertDrawing",
     insertDrawing |-> "idle"]

\* Thread a moves on; at its end it lets the upload go.
GoOn(a, call) ==
    /\ stage' = [stage EXCEPT ![a] = CallAfter[call]]
    /\ job' = [job EXCEPT ![a] = IF CallAfter[call] = "idle" THEN NoUpload ELSE job[a]]

\* Mutant: the name is used as the browser sends it.
RawName(name) == name

\* _safe_file_name
CleanName(name) == SafeName[name]

\* An architect uploads a file of any name for any project.  (get_project finds the
\* project: none is ever deleted.)
UploadDrawing(a) ==
    /\ stage[a] = "idle" /\ uploads < MaxUploads
    /\ uploads' = uploads + 1
    /\ \E p \in Projects, name \in FileNames :
         origin' = [origin EXCEPT ![uploads + 1] = <<p, CleanName(name)>>]
    /\ stage' = [stage EXCEPT ![a] = CallAfter["upload"]]
    /\ job' = [job EXCEPT ![a] = uploads + 1]
    /\ UNCHANGED <<diskVars, drawings, notes>>

\* The other uploads for the project and the name of upload u.
Rivals(u) == {v \in 1 .. uploads \ {u} : origin[v] = origin[u]}

\* mkdir, and open(..., "wb"), which truncates.
OpenFile(a) ==
    LET u == job[a]
    IN  /\ stage[a] = "openFile"
        /\ onDisk' = onDisk \cup {PathOf(u)}
        /\ content' = [content EXCEPT ![PathOf(u)] = {}]
        /\ overwritten' = (overwritten \ {u}) \cup Rivals(u)
        /\ GoOn(a, "openFile")
        /\ UNCHANGED <<uploads, origin, drawings, notes>>

\* A writer has an offset of its own: what another one wrote is overwritten as far
\* as this write reaches, all of it, some or nothing.
WritePart(u, part) ==
    LET old == content[PathOf(u)]
    IN  /\ \E left \in SUBSET (old \ Whole(u)) :
             content' = [content EXCEPT ![PathOf(u)] =
                            (old \cap Whole(u)) \cup left \cup {<<u, part>>}]
        /\ overwritten' = overwritten \cup Rivals(u)

WriteHead(a) ==
    /\ stage[a] = "writeHead"
    /\ WritePart(job[a], "head")
    /\ GoOn(a, "writeHead")
    /\ UNCHANGED <<uploads, origin, onDisk, drawings, notes>>

WriteTail(a) ==
    /\ stage[a] = "writeTail"
    /\ WritePart(job[a], "tail")
    /\ GoOn(a, "writeTail")
    /\ UNCHANGED <<uploads, origin, onDisk, drawings, notes>>

\* create_drawing
InsertDrawing(a) ==
    LET u == job[a]
    IN  /\ stage[a] = "insertDrawing"
        /\ drawings' = drawings \cup {[project |-> origin[u][1], path |-> PathOf(u),
                                        upload |-> u]}
        /\ GoOn(a, "insertDrawing")
        /\ UNCHANGED <<uploads, origin, diskVars, notes>>

\* add_field_note: one INSERT, for a project that is there.
AddFieldNote(a) ==
    /\ stage[a] = "idle"
    /\ \E p \in Projects : notes' = notes \cup {p}
    /\ UNCHANGED <<uploads, origin, diskVars, drawings, stage, job>>

\* The disk or the database refuses: the exception ends the handler, and what is
\* in the file by then stays.
Raise(a) ==
    /\ \/ "ioError" \in Faults /\ stage[a] \in {"openFile", "writeHead", "writeTail"}
       \/ "lockTimeout" \in Faults /\ stage[a] = "insertDrawing"
    /\ stage' = [stage EXCEPT ![a] = "idle"]
    /\ job' = [job EXCEPT ![a] = NoUpload]
    /\ UNCHANGED <<uploads, origin, diskVars, drawings, notes>>

\* The server process stops.
Crash ==
    /\ "crash" \in Faults
    /\ stage' = [a \in Architects |-> "idle"]
    /\ job' = [a \in Architects |-> NoUpload]
    /\ UNCHANGED <<uploads, origin, diskVars, drawings, notes>>

Next ==
    \/ \E a \in Architects :
         \/ UploadDrawing(a)
         \/ OpenFile(a)
         \/ WriteHead(a)
         \/ WriteTail(a)
         \/ InsertDrawing(a)
         \/ AddFieldNote(a)
         \/ Raise(a)
    \/ Crash

Spec == Init /\ [][Next]_vars
--------------------------------------------------------------------------------
\* list_drawings_by_client: the rows of the client's projects, whose files the
\* portal hands out.
DrawingsOf(c) == {d \in drawings : OwnerOf[d.project] = c}

\* What the portal of client c hands out now.
Served(c) == UNION {content[d.path] : d \in {e \in DrawingsOf(c) : e.path \in onDisk}}

\* No client is handed anything that was uploaded for another client's project,
\* whatever the files are called and whichever uploads fail or overlap.
OwnContentOnly ==
    \A c \in Clients : \A part \in Served(c) : OwnerOf[origin[part[1]][1]] = c

\* A drawing in the table can be downloaded: its file is there, and it is the file
\* that was uploaded, whole, until the same name is uploaded for the same project.
DrawingsKept ==
    \A d \in drawings :
        /\ d.path \in onDisk
        /\ d.upload \notin overwritten => content[d.path] = Whole(d.upload)
================================================================================
