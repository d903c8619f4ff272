--------------------------- MODULE ProjectFilesProofs --------------------------
(****************************************************************************)
(* What drawings guarantee for every number of architects, projects, names  *)
(* and uploads.                                                             *)
(****************************************************************************)
EXTENDS ProjectFiles, TLAPS

\* Sessions work on uploads of their own.
JobsOK ==
    /\ \A a \in Architects : stage[a] # "idle" => job[a] \in 1 .. uploads
    /\ \A a, b \in Architects :
         (stage[a] # "idle" /\ stage[b] # "idle" /\ job[a] = job[b]) => a = b

\* Every upload has a file of its project; a file holds parts of its own uploads.
ContentOK ==
    /\ \A u \in 1 .. uploads : origin[u] \in Files
    /\ \A f \in Files : \A part \in content[f] :
         part[1] \in 1 .. uploads /\ origin[part[1]] = f

\* How far the file of an upload in work has come, if no other wrote it.
UploadOK(a) ==
    /\ stage[a] \in {"writeHead", "writeTail", "insertDrawing"} => origin[job[a]] \in onDisk
    /\ job[a] \notin overwritten =>
           /\ stage[a] = "writeHead" => content[origin[job[a]]] = {}
           /\ stage[a] = "writeTail" => content[origin[job[a]]] = {<<job[a], "head">>}
           /\ stage[a] = "insertDrawing" => content[origin[job[a]]] = Whole(job[a])

\* A row belongs to an upload that is done, and leads to its file.
RowOK(d) ==
    /\ d.upload \in 1 .. uploads
    /\ d.path = origin[d.upload] /\ d.project = origin[d.upload][1]
    /\ d.path \in onDisk
    /\ \A a \in Architects : stage[a] # "idle" => job[a] # d.upload
    /\ d.upload \notin overwritten => content[d.path] = Whole(d.upload)

FilesInv ==
    /\ TypeOK
    /\ JobsOK
    /\ ContentOK
    /\ \A a \in Architects : UploadOK(a)
    /\ \A d \in drawings : RowOK(d)

\* The path of an upload is its project and its cleaned name.
LEMMA PathIsOrigin ==
    ASSUME FilesInv, NEW u \in 1 .. uploads
    PROVE  PathOf(u) = origin[u] /\ origin[u] \in Files /\ origin[u][1] \in Projects
           /\ u \in UploadId
<1>1. origin[u] \in Files
  BY DEF FilesInv, ContentOK
<1>2. u \in UploadId
  BY FilesAssumption DEF FilesInv, TypeOK, UploadId
<1>3. QED BY <1>1, <1>2 DEF PathOf, StoredPath, Files

\* Overwritten uploads are uploads.
LEMMA RivalsTyped ==
    ASSUME FilesInv, NEW u
    PROVE  Rivals(u) \subseteq UploadId /\ overwritten \subseteq UploadId
<1>1. uploads \in 0 .. MaxUploads /\ overwritten \subseteq UploadId
  BY DEF FilesInv, TypeOK
<1>2. ASSUME NEW v \in 1 .. uploads PROVE v \in UploadId
  BY <1>1, FilesAssumption DEF UploadId
<1>3. QED BY <1>1, <1>2 DEF Rivals

\* What a handler's next call leaves of its session and of the others.
LEMMA CallStep ==
    ASSUME FilesInv, NEW a \in Architects, NEW call \in UploadCalls, stage[a] = call,
           GoOn(a, call)
    PROVE  /\ stage'[a] = CallAfter[call]
           /\ call # "insertDrawing" => job'[a] = job[a] /\ stage'[a] # "idle"
           /\ call = "insertDrawing" => stage'[a] = "idle"
           /\ \A b \in Architects \ {a} : stage'[b] = stage[b] /\ job'[b] = job[b]
           /\ stage' \in [Architects -> {"idle"} \cup UploadCalls]
           /\ job' \in [Architects -> {NoUpload} \cup UploadId]
  BY DEF FilesInv, TypeOK, GoOn, CallAfter, UploadCalls, NoUpload

\* A new upload has an id, and so parts, that no file and no row knows.
LEMMA UploadStep ==
    ASSUME FilesInv, NEW a \in Architects, UploadDrawing(a)
    PROVE  FilesInv'
<1> DEFINE u == uploads + 1
<1>1. PICK p \in Projects, name \in FileNames :
             origin' = [origin EXCEPT ![u] = <<p, CleanName(name)>>]
  BY DEF UploadDrawing
<1>2. /\ stage[a] = "idle" /\ uploads' = u /\ u \in UploadId
      /\ stage' = [stage EXCEPT ![a] = "openFile"] /\ job' = [job EXCEPT ![a] = u]
      /\ UNCHANGED <<onDisk, content, overwritten, drawings, notes>>
  BY FilesAssumption DEF FilesInv, TypeOK, UploadDrawing, CallAfter, diskVars, UploadId
<1>3. <<p, CleanName(name)>> \in Files
  BY <1>1, FilesAssumption DEF Files, CleanName
<1>4. /\ origin \in [UploadId -> Files \cup {NoFile}] /\ uploads \in Nat
      /\ stage \in [Architects -> {"idle"} \cup UploadCalls]
      /\ job \in [Architects -> {NoUpload} \cup UploadId]
  BY FilesAssumption DEF FilesInv, TypeOK
<1>5. \A v \in 1 .. uploads : origin'[v] = origin[v] /\ v # u /\ v \in 1 .. u
  BY <1>1, <1>4
<1>6. TypeOK'
  BY <1>1, <1>2, <1>3, <1>4, FilesAssumption DEF FilesInv, TypeOK, UploadCalls, UploadId
<1>7. JobsOK'
  BY <1>2, <1>4, <1>5 DEF FilesInv, JobsOK
<1>8. ContentOK'
  <2>1. \A v \in 1 .. u : origin'[v] \in Files
    BY <1>1, <1>2, <1>3, <1>4 DEF FilesInv, ContentOK
  <2>2. \A f \in Files : \A part \in content'[f] :
          part[1] \in 1 .. u /\ origin'[part[1]] = f
    BY <1>2, <1>5 DEF FilesInv, ContentOK
  <2>3. QED BY <1>2, <2>1, <2>2 DEF ContentOK
<1>9. ASSUME NEW b \in Architects PROVE UploadOK(b)'
  <2>1. CASE b = a
    BY <1>2, <1>4, <2>1 DEF UploadOK
  <2>2. CASE b # a
    BY <1>2, <1>4, <1>5, <2>2 DEF FilesInv, UploadOK, JobsOK
  <2>3. QED BY <2>1, <2>2
<1>10. ASSUME NEW d \in drawings PROVE RowOK(d)'
  BY <1>2, <1>4, <1>5 DEF FilesInv, RowOK
<1>11. QED BY <1>2, <1>6, <1>7, <1>8, <1>9, <1>10 DEF FilesInv

\* What a step that opens or writes the file of upload u needs to keep the rest:
\* it touches no other file and notices every upload of this one.
LEMMA FileStep ==
    ASSUME FilesInv, NEW a \in Architects, NEW call \in {"openFile", "writeHead", "writeTail"},
           stage[a] = call, GoOn(a, call),
           NEW old \in SUBSET Parts,
           content' = [content EXCEPT ![origin[job[a]]] = old],
           \A part \in old : part[1] \in 1 .. uploads /\ origin[part[1]] = origin[job[a]],
           onDisk' = onDisk \cup {origin[job[a]]},
           overwritten' \subseteq UploadId,
           overwritten \ {job[a]} \subseteq overwritten',
           Rivals(job[a]) \subseteq overwritten',
           UploadOK(a)',
           UNCHANGED <<uploads, origin, drawings, notes>>
    PROVE  FilesInv'
<1> DEFINE u == job[a]
<1>1. u \in 1 .. uploads /\ u \in UploadId /\ origin[u] \in Files
  BY PathIsOrigin DEF FilesInv, JobsOK
<1>2. /\ stage'[a] # "idle" /\ job'[a] = u /\ stage' \in [Architects -> {"idle"} \cup UploadCalls]
      /\ job' \in [Architects -> {NoUpload} \cup UploadId]
      /\ \A b \in Architects \ {a} : stage'[b] = stage[b] /\ job'[b] = job[b]
  BY CallStep DEF UploadCalls
<1>3. content \in [Files -> SUBSET Parts] /\ onDisk \subseteq Files
  BY DEF FilesInv, TypeOK
<1>4. TypeOK'
  BY <1>1, <1>2, <1>3 DEF FilesInv, TypeOK
<1>5. JobsOK'
  BY <1>2 DEF FilesInv, JobsOK
<1>6. ContentOK'
  BY <1>1, <1>3 DEF FilesInv, ContentOK
<1>7. ASSUME NEW v \in 1 .. uploads, v # u, v \notin overwritten'
      PROVE  v \notin overwritten /\ content'[origin[v]] = content[origin[v]]
  <2>1. v \notin Rivals(u)
    BY <1>7
  <2>2. origin[v] # origin[u]
    BY <1>7, <2>1 DEF Rivals
  <2>3. QED BY <1>3, <1>7, <2>2
<1>8. ASSUME NEW b \in Architects PROVE UploadOK(b)'
  <2>1. CASE b # a /\ stage[b] # "idle"
    <3>1. job[b] \in 1 .. uploads /\ job[b] # u
      BY <2>1 DEF FilesInv, JobsOK
    <3>2. QED BY <1>2, <1>7, <2>1, <3>1 DEF FilesInv, UploadOK
  <2>2. CASE b # a /\ stage[b] = "idle"
    BY <1>2, <2>2 DEF UploadOK
  <2>3. QED BY <2>1, <2>2
<1>9. ASSUME NEW d \in drawings PROVE RowOK(d)'
  <2>1. RowOK(d) /\ d.upload # u
    BY DEF FilesInv, RowOK
  <2>2. QED BY <1>2, <1>7, <2>1 DEF RowOK
<1>10. QED BY <1>4, <1>5, <1>6, <1>8, <1>9 DEF FilesInv

\* Opening empties the file and clears what happened to it before.
LEMMA OpenStep ==
    ASSUME FilesInv, NEW a \in Architects, OpenFile(a)
    PROVE  FilesInv'
<1> DEFINE u == job[a]
<1>1. stage[a] = "openFile" /\ u \in 1 .. uploads /\ PathOf(u) = origin[u] /\ u \in UploadId
      /\ origin[u] \in Files
  BY PathIsOrigin DEF FilesInv, JobsOK, OpenFile
<1>2. /\ onDisk' = onDisk \cup {origin[u]} /\ content' = [content EXCEPT ![origin[u]] = {}]
      /\ overwritten' = (overwritten \ {u}) \cup Rivals(u)
      /\ GoOn(a, "openFile") /\ UNCHANGED <<uploads, origin, drawings, notes>>
  BY <1>1 DEF OpenFile
<1>3. stage'[a] = "writeHead" /\ job'[a] = u
  BY <1>1, <1>2, CallStep DEF UploadCalls, CallAfter
<1>4. content'[origin[u]] = {}
  BY <1>1, <1>2 DEF FilesInv, TypeOK
<1>5. UploadOK(a)'
  BY <1>2, <1>3, <1>4 DEF UploadOK
<1>6. /\ overwritten' \subseteq UploadId /\ overwritten \ {u} \subseteq overwritten'
      /\ Rivals(u) \subseteq overwritten'
  BY <1>2, RivalsTyped
<1> DEFINE empty == {}
<1>7. /\ empty \in SUBSET Parts /\ content' = [content EXCEPT ![origin[u]] = empty]
      /\ \A q \in empty : q[1] \in 1 .. uploads /\ origin[q[1]] = origin[u]
  BY <1>2
<1>8. QED BY <1>1, <1>2, <1>5, <1>6, <1>7, FileStep

\* A part is added to whatever the others left.
LEMMA WriteStep ==
    ASSUME FilesInv, NEW a \in Architects, WriteHead(a) \/ WriteTail(a)
    PROVE  FilesInv'
<1> DEFINE u == job[a]
           old == content[origin[u]]
<1>1. PICK call \in {"writeHead", "writeTail"} :
        /\ stage[a] = call /\ GoOn(a, call)
        /\ WritePart(u, IF call = "writeHead" THEN "head" ELSE "tail")
        /\ UNCHANGED <<uploads, origin, onDisk, drawings, notes>>
  BY DEF WriteHead, WriteTail
<1> DEFINE part == IF call = "writeHead" THEN "head" ELSE "tail"
<1>2. /\ u \in 1 .. uploads /\ PathOf(u) = origin[u] /\ u \in UploadId /\ origin[u] \in Files
      /\ origin[u] \in onDisk
  BY <1>1, PathIsOrigin DEF FilesInv, JobsOK, UploadOK
<1>3. PICK left \in SUBSET (old \ Whole(u)) :
        /\ content' = [content EXCEPT ![origin[u]] = (old \cap Whole(u)) \cup left \cup {<<u, part>>}]
        /\ overwritten' = overwritten \cup Rivals(u)
  BY <1>1, <1>2 DEF WritePart
<1> DEFINE new == (old \cap Whole(u)) \cup left \cup {<<u, part>>}
<1>4. old \in SUBSET Parts /\ content'[origin[u]] = new
  BY <1>2, <1>3 DEF FilesInv, TypeOK
<1>5. new \in SUBSET Parts
  BY <1>2, <1>4 DEF Parts
<1>6. \A q \in new : q[1] \in 1 .. uploads /\ origin[q[1]] = origin[u]
  BY <1>2 DEF FilesInv, ContentOK
<1>7. stage'[a] = CallAfter[call] /\ job'[a] = u
  BY <1>1, CallStep DEF UploadCalls
<1>8. ASSUME u \notin overwritten'
      PROVE  /\ call = "writeHead" => new = {<<u, "head">>}
             /\ call = "writeTail" => new = Whole(u)
  <2>1. u \notin overwritten
    BY <1>3, <1>8
  <2>2. /\ call = "writeHead" => old = {}
        /\ call = "writeTail" => old = {<<u, "head">>}
    BY <1>1, <2>1 DEF FilesInv, UploadOK
  <2>3. QED BY <2>2 DEF Whole
<1>9. UploadOK(a)'
  <2>1. origin'[u] = origin[u] /\ onDisk' = onDisk
    BY <1>1
  <2>2. CASE call = "writeHead"
    <3>1. stage'[a] = "writeTail"
      BY <1>7, <2>2 DEF CallAfter
    <3>2. QED BY <1>2, <1>4, <1>7, <1>8, <2>1, <2>2, <3>1 DEF UploadOK
  <2>3. CASE call = "writeTail"
    <3>1. stage'[a] = "insertDrawing"
      BY <1>7, <2>3 DEF CallAfter
    <3>2. QED BY <1>2, <1>4, <1>7, <1>8, <2>1, <2>3, <3>1 DEF UploadOK
  <2>4. QED BY <2>2, <2>3
<1>10. overwritten' \subseteq UploadId
  BY <1>3, RivalsTyped
<1>11. onDisk' = onDisk \cup {origin[u]} /\ overwritten \ {u} \subseteq overwritten'
       /\ Rivals(u) \subseteq overwritten'
  BY <1>1, <1>2, <1>3
<1>12. QED BY <1>1, <1>3, <1>5, <1>6, <1>9, <1>10, <1>11, FileStep

\* The row leads to the file that was written.
LEMMA RowStep ==
    ASSUME FilesInv, NEW a \in Architects, InsertDrawing(a)
    PROVE  FilesInv'
<1> DEFINE u == job[a]
           row == [project |-> origin[u][1], path |-> origin[u], upload |-> u]
<1>1. /\ stage[a] = "insertDrawing" /\ u \in 1 .. uploads /\ PathOf(u) = origin[u]
      /\ u \in UploadId /\ origin[u] \in Files /\ origin[u][1] \in Projects
  BY PathIsOrigin DEF FilesInv, JobsOK, InsertDrawing
<1>2. /\ drawings' = drawings \cup {row} /\ GoOn(a, "insertDrawing")
      /\ UNCHANGED <<uploads, origin, onDisk, content, overwritten, notes>>
  BY <1>1 DEF InsertDrawing, diskVars
<1>3. /\ stage'[a] = "idle" /\ stage' \in [Architects -> {"idle"} \cup UploadCalls]
      /\ job' \in [Architects -> {NoUpload} \cup UploadId]
      /\ \A b \in Architects \ {a} : stage'[b] = stage[b] /\ job'[b] = job[b]
  BY <1>1, <1>2, CallStep DEF UploadCalls
<1>4. TypeOK'
  BY <1>1, <1>2, <1>3 DEF FilesInv, TypeOK, Drawing
<1>5. JobsOK' /\ ContentOK' /\ \A b \in Architects : UploadOK(b)'
  BY <1>2, <1>3 DEF FilesInv, JobsOK, ContentOK, UploadOK
<1>6. ASSUME NEW d \in drawings PROVE RowOK(d)'
  BY <1>2, <1>3 DEF FilesInv, RowOK
<1>7. ASSUME NEW d, d = row PROVE RowOK(d)'
  <2>1. d.upload = u /\ d.path = origin[u] /\ d.project = origin[u][1]
    BY <1>7
  <2>2. \A b \in Architects : stage'[b] # "idle" => job'[b] # u
    BY <1>1, <1>3 DEF FilesInv, JobsOK
  <2>3. origin[u] \in onDisk /\ (u \notin overwritten => content[origin[u]] = Whole(u))
    BY <1>1 DEF FilesInv, UploadOK
  <2>4. QED BY <1>1, <1>2, <2>1, <2>2, <2>3 DEF RowOK
<1>8. ASSUME NEW d \in drawings' PROVE RowOK(d)'
  BY <1>2, <1>6, <1>7
<1>9. QED BY <1>4, <1>5, <1>8 DEF FilesInv

\* Sessions that stop working leave files and rows as they are.
LEMMA StopStep ==
    ASSUME FilesInv,
           stage' \in [Architects -> {"idle"} \cup UploadCalls],
           job' \in [Architects -> {NoUpload} \cup UploadId],
           \A a \in Architects :
               stage'[a] = "idle" \/ (stage'[a] = stage[a] /\ job'[a] = job[a]),
           notes' \subseteq Projects,
           UNCHANGED <<uploads, origin, onDisk, content, overwritten, drawings>>
    PROVE  FilesInv'
<1>1. TypeOK'
  BY DEF FilesInv, TypeOK
<1>2. JobsOK' /\ ContentOK'
  BY DEF FilesInv, JobsOK, ContentOK
<1>3. ASSUME NEW a \in Architects PROVE UploadOK(a)'
  BY DEF FilesInv, UploadOK
<1>4. ASSUME NEW d \in drawings PROVE RowOK(d)'
  BY DEF FilesInv, RowOK
<1>5. QED BY <1>1, <1>2, <1>3, <1>4 DEF FilesInv

\* Every step preserves the invariant.
LEMMA StepFiles == FilesInv /\ [Next]_vars => FilesInv'
<1> SUFFICES ASSUME FilesInv, [Next]_vars PROVE FilesInv'
  OBVIOUS
<1>1. /\ stage \in [Architects -> {"idle"} \cup UploadCalls]
      /\ job \in [Architects -> {NoUpload} \cup UploadId] /\ notes \subseteq Projects
  BY DEF FilesInv, TypeOK
<1>2. ASSUME NEW a \in Architects, UploadDrawing(a) \/ OpenFile(a) \/ InsertDrawing(a)
      PROVE  FilesInv'
  BY <1>2, UploadStep, OpenStep, RowStep
<1>3. ASSUME NEW a \in Architects, WriteHead(a) \/ WriteTail(a) PROVE FilesInv'
  BY <1>3, WriteStep
<1>4. ASSUME NEW a \in Architects, AddFieldNote(a) \/ Raise(a) PROVE FilesInv'
  <2>1. /\ stage' \in [Architects -> {"idle"} \cup UploadCalls]
        /\ job' \in [Architects -> {NoUpload} \cup UploadId]
        /\ \A b \in Architects :
             stage'[b] = "idle" \/ (stage'[b] = stage[b] /\ job'[b] = job[b])
    BY <1>1, <1>4 DEF AddFieldNote, Raise
  <2>2. notes' \subseteq Projects
        /\ UNCHANGED <<uploads, origin, onDisk, content, overwritten, drawings>>
    BY <1>1, <1>4 DEF AddFieldNote, Raise, diskVars
  <2>3. QED BY <2>1, <2>2, StopStep
<1>5. CASE Crash
  BY <1>1, <1>5, StopStep DEF Crash, diskVars
<1>6. CASE UNCHANGED vars
  BY <1>1, <1>6, StopStep DEF vars, diskVars
<1>7. QED BY <1>2, <1>3, <1>4, <1>5, <1>6 DEF Next

\* No file, no row, no upload.
LEMMA InitFiles == Init => FilesInv
<1> SUFFICES ASSUME Init PROVE FilesInv
  OBVIOUS
<1>1. TypeOK
  BY FilesAssumption DEF Init, TypeOK
<1>2. JobsOK /\ ContentOK
  BY DEF Init, JobsOK, ContentOK
<1>3. \A a \in Architects : UploadOK(a)
  BY DEF Init, UploadOK
<1>4. QED BY <1>1, <1>2, <1>3 DEF Init, FilesInv

\* The invariant holds throughout.
LEMMA FilesInvariance == Spec => []FilesInv
  BY InitFiles, StepFiles, PTL DEF Spec

\* The studio keeps the types of its tables, files and sessions.
THEOREM StudioTyped == Spec => []TypeOK
<1>1. FilesInv => TypeOK
  BY DEF FilesInv
<1>2. QED BY <1>1, FilesInvariance, PTL

\* The portal hands a client only what was uploaded for the client's projects, for
\* every number of clients, projects, uploads and names that clean to the same.
THEOREM ContentStaysOwn == Spec => []OwnContentOnly
<1>1. ASSUME FilesInv, NEW c \in Clients, NEW part \in Served(c)
      PROVE  OwnerOf[origin[part[1]][1]] = c
  <2>1. PICK d \in drawings : OwnerOf[d.project] = c /\ part \in content[d.path]
    BY <1>1 DEF Served, DrawingsOf
  <2>2. d.path \in Files /\ d.path = origin[d.upload] /\ d.project = origin[d.upload][1]
    BY <1>1, <2>1 DEF FilesInv, TypeOK, RowOK, Drawing
  <2>3. origin[part[1]] = d.path
    BY <1>1, <2>1, <2>2 DEF FilesInv, ContentOK
  <2>4. QED BY <2>1, <2>2, <2>3
<1>2. FilesInv => OwnContentOnly
  BY <1>1 DEF OwnContentOnly
<1>3. QED BY <1>2, FilesInvariance, PTL

\* A drawing in the table is on the disk, whole, until its name is uploaded for its
\* project again, although file and row are written in two steps.
THEOREM DrawingsAreKept == Spec => []DrawingsKept
<1>1. FilesInv => DrawingsKept
  BY DEF FilesInv, RowOK, DrawingsKept
<1>2. QED BY <1>1, FilesInvariance, PTL
================================================================================
