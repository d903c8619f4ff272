--------------------------- MODULE CustomerFileProofs --------------------------
(****************************************************************************)
(* What the handlers of the client file guarantee however they interleave,  *)
(* crash or run into lock timeouts, for every number of handlers, clients,  *)
(* projects and names.                                                      *)
(****************************************************************************)
EXTENDS CustomerFile, FiniteSetTheorems, WellFoundedInduction, TLAPS

\* The steps a handler of each operation goes through.
StepsOf ==
    [none    |-> Finished,
     create  |-> {"checkPhone", "checkEmail", "insertClient", "probeUsername", "insertUser"},
     update  |-> {"getClient", "checkPhone", "checkEmail", "updateClient"},
     delete  |-> {"getClient", "countProjects", "archiveClient", "deleteClient"},
     link    |-> {"getClient", "insertProject"},
     status  |-> {"getClient", "getProject", "writeProjectStatus"},
     meeting |-> {"getClient", "getProject", "insertMeeting"},
     remind  |-> {"getClient", "insertReminder"},
     inquire |-> {"insertInquiry"}]

\* The local variables a handler has set when it stands at its step.
FrameOK(s) ==
    /\ pc[s] \in StepsOf[frame[s].op]
    /\ frame[s].op \in {"create", "update"} =>
           frame[s].phone \in Phones /\ frame[s].email \in Emails
    /\ frame[s].op \notin {"none", "create"} => frame[s].client \in ClientId
    /\ frame[s].op = "create" /\ pc[s] \notin {"probeUsername", "insertUser"} =>
           frame[s].client = 0
    /\ pc[s] \in {"probeUsername", "insertUser"} =>
           frame[s].client \in ClientId /\ frame[s].probe \in 1 .. MaxProbe
    /\ frame[s].op \in {"status", "meeting"} => frame[s].project \in ProjectId
    /\ frame[s].op = "status" => frame[s].status \in ProjectStatus
    /\ frame[s].op = "update" /\ pc[s] # "getClient" => frame[s].status = "Active"

\* What earlier reads of the handler established and no other handler can undo,
\* because no operation deletes a project or changes its owner.
ReadsHold(s) ==
    /\ pc[s] = "archiveClient" => ProjectsOf(projects, frame[s].client) # {}
    /\ pc[s] \in {"writeProjectStatus", "insertMeeting"} =>
           projects[frame[s].project] # NoProject

\* Rows exist only for ids given out; every project id given out has its row.
CountersOK ==
    /\ \A c \in ClientId : IsPresent(clients, c) => c <= clientSeq
    /\ \A p \in ProjectId : p <= projectSeq <=> projects[p] # NoProject

\* Types and control: the first part of the inductive invariant.
ControlInv ==
    /\ TypeOK
    /\ CountersOK
    /\ \A s \in Handlers : FrameOK(s) /\ ReadsHold(s)

LEMMA NoFrameType == NoFrame \in Frames
  BY RecordsAssumption, FileAssumption DEF NoFrame, Frame, Frames, Operations

\* Setting one local variable of a frame leaves a frame.
LEMMA FrameUpdate ==
    ASSUME NEW f \in Frames
    PROVE  /\ \A k \in 0 .. MaxProbe : [f EXCEPT !.probe = k] \in Frames
           /\ \A st \in ClientStatus : [f EXCEPT !.status = st] \in Frames
           /\ \A c \in ClientId, k \in 0 .. MaxProbe :
                 [f EXCEPT !.client = c, !.probe = k] \in Frames
<1>1. ClientId \subseteq 0 .. MaxClients
  BY RecordsAssumption DEF ClientId
<1>2. \A k \in 0 .. MaxProbe : [f EXCEPT !.probe = k] \in Frames
  BY DEF Frames
<1>3. \A st \in ClientStatus : [f EXCEPT !.status = st] \in Frames
  BY DEF Frames
<1>4. \A c \in ClientId : [f EXCEPT !.client = c] \in Frames
  BY <1>1 DEF Frames
<1>5. \A c \in ClientId, k \in 0 .. MaxProbe :
        [[f EXCEPT !.client = c] EXCEPT !.probe = k] \in Frames
  BY <1>4 DEF Frames
<1>6. QED BY <1>2, <1>3, <1>5

\* The database is empty and no handler runs.
LEMMA InitControl == Init => ControlInv
  BY RecordsAssumption, FileAssumption DEF Init, ControlInv, TypeOK, TablesOK, HandlersOK,
     CountersOK, FrameOK, ReadsHold, StepsOf, NoFrame, Frame, Frames, Operations, Finished,
     ClientRow, ProjectRow, IsPresent, NoClient, NoProject, ClientId, ProjectId

\* A handler that ends leaves no local variables.
LEMMA FinishControl ==
    ASSUME pc \in [Handlers -> Finished \cup ReadSteps \cup WriteSteps],
           frame \in [Handlers -> Frames],
           NEW s \in Handlers, NEW o \in Finished, Finish(s, o)
    PROVE  /\ pc' \in [Handlers -> Finished \cup ReadSteps \cup WriteSteps]
           /\ frame' \in [Handlers -> Frames]
           /\ FrameOK(s)' /\ ReadsHold(s)'
           /\ \A t \in Handlers \ {s} : pc'[t] = pc[t] /\ frame'[t] = frame[t]
  BY NoFrameType DEF Finish, FrameOK, ReadsHold, StepsOf, NoFrame, Frame, Finished, Operations

\* A request sets the frame the handler starts from.
LEMMA RequestControl ==
    ASSUME ControlInv, NEW s \in Handlers, NewRequest(s)
    PROVE  ControlInv'
<1> USE DEF ControlInv
<1>1. CASE RequestRefused(s)
  <2>1. Finish(s, "refused") /\ UNCHANGED dbVars
    BY <1>1 DEF RequestRefused
  <2>2. TypeOK' /\ CountersOK'
    BY <2>1, FinishControl DEF TypeOK, TablesOK, HandlersOK, CountersOK, dbVars, Finished
  <2>3. FrameOK(s)' /\ ReadsHold(s)'
    BY <2>1, FinishControl DEF TypeOK, TablesOK, HandlersOK, Finished
  <2>4. \A t \in Handlers \ {s} : FrameOK(t)' /\ ReadsHold(t)'
    BY <2>1, FinishControl DEF TypeOK, TablesOK, HandlersOK, Finished, FrameOK, ReadsHold, dbVars
  <2>5. QED BY <2>2, <2>3, <2>4
<1>2. ASSUME NEW f \in Frames, NEW step \in ReadSteps \cup WriteSteps, Request(s, f, step),
             step \in StepsOf[f.op],
             step \in {"getClient", "checkPhone", "insertInquiry"},
             f.op \in {"create", "update"} => f.phone \in Phones /\ f.email \in Emails,
             f.op \notin {"none", "create"} => f.client \in ClientId,
             f.op = "create" => f.client = 0,
             f.op \in {"status", "meeting"} => f.project \in ProjectId,
             f.op = "status" => f.status \in ProjectStatus,
             f.op = "update" => step = "getClient"
      PROVE  ControlInv'
  <2>1. /\ frame' = [frame EXCEPT ![s] = f]
        /\ pc' = [pc EXCEPT ![s] = step]
        /\ UNCHANGED dbVars
    BY <1>2 DEF Request, Goto
  <2>2. TypeOK' /\ CountersOK'
    BY <2>1 DEF TypeOK, TablesOK, HandlersOK, CountersOK, dbVars
  <2>3. FrameOK(s)' /\ ReadsHold(s)'
    BY <2>1, <1>2 DEF TypeOK, TablesOK, HandlersOK, FrameOK, ReadsHold
  <2>4. \A t \in Handlers \ {s} : FrameOK(t)' /\ ReadsHold(t)'
    BY <2>1 DEF TypeOK, TablesOK, HandlersOK, FrameOK, ReadsHold, dbVars
  <2>5. QED BY <2>2, <2>3, <2>4
<1> USE DEF NoFrame, Frame, Frames, Operations, StepsOf, ReadSteps, WriteSteps, ClientId,
        ProjectId, ProjectStatus
<1>3. CASE RequestCreate(s)
  <2>1. PICK p \in Phones, e \in Emails :
               Request(s, Frame("create", 0, 0, p, e, "none"), "checkPhone")
    BY <1>3 DEF RequestCreate
  <2> DEFINE f == Frame("create", 0, 0, p, e, "none")
  <2>2. f \in Frames
    BY <2>1, RecordsAssumption, FileAssumption DEF TypeOK, TablesOK, HandlersOK
  <2>3. QED BY <1>2, <2>1, <2>2
<1>4. CASE RequestUpdate(s)
  <2>1. PICK c \in 1 .. clientSeq, p \in Phones, e \in Emails :
               Request(s, Frame("update", c, 0, p, e, "none"), "getClient")
    BY <1>4 DEF RequestUpdate
  <2> DEFINE f == Frame("update", c, 0, p, e, "none")
  <2>2. f \in Frames
    BY <2>1, RecordsAssumption, FileAssumption DEF TypeOK, TablesOK, HandlersOK
  <2>3. c \in ClientId
    BY <2>1, RecordsAssumption DEF TypeOK, TablesOK, HandlersOK
  <2>4. QED BY <1>2, <2>1, <2>2, <2>3
<1>5. CASE RequestDelete(s)
  <2>1. PICK c \in 1 .. clientSeq :
               Request(s, Frame("delete", c, 0, None, None, "none"), "getClient")
    BY <1>5 DEF RequestDelete
  <2> DEFINE f == Frame("delete", c, 0, None, None, "none")
  <2>2. f \in Frames
    BY <2>1, RecordsAssumption, FileAssumption DEF TypeOK, TablesOK, HandlersOK
  <2>3. c \in ClientId
    BY <2>1, RecordsAssumption DEF TypeOK, TablesOK, HandlersOK
  <2>4. QED BY <1>2, <2>1, <2>2, <2>3
<1>6. CASE RequestLink(s)
  <2>1. PICK c \in 1 .. clientSeq :
               Request(s, Frame("link", c, 0, None, None, "none"), "getClient")
    BY <1>6 DEF RequestLink
  <2> DEFINE f == Frame("link", c, 0, None, None, "none")
  <2>2. f \in Frames
    BY <2>1, RecordsAssumption, FileAssumption DEF TypeOK, TablesOK, HandlersOK
  <2>3. c \in ClientId
    BY <2>1, RecordsAssumption DEF TypeOK, TablesOK, HandlersOK
  <2>4. QED BY <1>2, <2>1, <2>2, <2>3
<1>7. CASE RequestStatus(s)
  <2>1. PICK c \in 1 .. clientSeq, p \in 1 .. projectSeq, st \in ProjectStatus :
               Request(s, Frame("status", c, p, None, None, st), "getClient")
    BY <1>7 DEF RequestStatus
  <2> DEFINE f == Frame("status", c, p, None, None, st)
  <2>2. f \in Frames
    BY <2>1, RecordsAssumption, FileAssumption DEF TypeOK, TablesOK, HandlersOK
  <2>3. c \in ClientId /\ p \in ProjectId
    BY <2>1, RecordsAssumption DEF TypeOK, TablesOK, HandlersOK
  <2>4. QED BY <1>2, <2>1, <2>2, <2>3
<1>8. CASE RequestMeeting(s)
  <2>1. PICK c \in 1 .. clientSeq, p \in 1 .. projectSeq :
               Request(s, Frame("meeting", c, p, None, None, "none"), "getClient")
    BY <1>8 DEF RequestMeeting
  <2> DEFINE f == Frame("meeting", c, p, None, None, "none")
  <2>2. f \in Frames
    BY <2>1, RecordsAssumption, FileAssumption DEF TypeOK, TablesOK, HandlersOK
  <2>3. c \in ClientId /\ p \in ProjectId
    BY <2>1, RecordsAssumption DEF TypeOK, TablesOK, HandlersOK
  <2>4. QED BY <1>2, <2>1, <2>2, <2>3
<1>9. CASE RequestReminder(s)
  <2>1. PICK c \in 1 .. clientSeq :
               Request(s, Frame("remind", c, 0, None, None, "none"), "getClient")
    BY <1>9 DEF RequestReminder
  <2> DEFINE f == Frame("remind", c, 0, None, None, "none")
  <2>2. f \in Frames
    BY <2>1, RecordsAssumption, FileAssumption DEF TypeOK, TablesOK, HandlersOK
  <2>3. c \in ClientId
    BY <2>1, RecordsAssumption DEF TypeOK, TablesOK, HandlersOK
  <2>4. QED BY <1>2, <2>1, <2>2, <2>3
<1>10. CASE RequestInquiry(s)
  <2>1. PICK c \in 1 .. clientSeq :
               Request(s, Frame("inquire", c, 0, None, None, "none"), "insertInquiry")
    BY <1>10 DEF RequestInquiry
  <2> DEFINE f == Frame("inquire", c, 0, None, None, "none")
  <2>2. f \in Frames
    BY <2>1, RecordsAssumption, FileAssumption DEF TypeOK, TablesOK, HandlersOK
  <2>3. c \in ClientId
    BY <2>1, RecordsAssumption DEF TypeOK, TablesOK, HandlersOK
  <2>4. QED BY <1>2, <2>1, <2>2, <2>3
<1>11. QED
  BY <1>1, <1>3, <1>4, <1>5, <1>6, <1>7, <1>8, <1>9, <1>10 DEF NewRequest

\* Projects only appear; they never go away or change hands.
ProjectsStay ==
    \A p \in ProjectId : projects[p] # NoProject =>
        projects'[p] # NoProject /\ projects'[p].owner = projects[p].owner

\* A step of one handler preserves the invariant when it does so for that handler, and
\* takes no project away.
LEMMA OneHandler ==
    ASSUME ControlInv, NEW s \in Handlers, TypeOK', CountersOK', ProjectsStay,
           FrameOK(s)', ReadsHold(s)',
           \A t \in Handlers \ {s} : pc'[t] = pc[t] /\ frame'[t] = frame[t]
    PROVE  ControlInv'
<1>1. ASSUME NEW t \in Handlers \ {s} PROVE FrameOK(t)'
  BY <1>1 DEF ControlInv, FrameOK
<1>2. ASSUME NEW t \in Handlers \ {s} PROVE ReadsHold(t)'
  <2>1. pc'[t] = pc[t] /\ frame'[t] = frame[t] /\ FrameOK(t) /\ ReadsHold(t)
    BY DEF ControlInv
  <2>2. frame[t].op \in Operations \cup {"none"}
    BY DEF ControlInv, TypeOK, TablesOK, HandlersOK, Frames
  <2>3. CASE pc[t] = "archiveClient"
    <3>1. frame[t].op = "delete"
      BY <2>1, <2>2, <2>3 DEF FrameOK, StepsOf, Operations, Finished
    <3>2. frame[t].client \in ClientId /\ ProjectsOf(projects, frame[t].client) # {}
      BY <2>1, <2>3, <3>1 DEF FrameOK, ReadsHold
    <3>3. ProjectsOf(projects, frame[t].client) \subseteq ProjectsOf(projects', frame[t].client)
      BY <3>2 DEF ProjectsOf, ProjectsStay, NoProject, ClientId
    <3>4. QED BY <2>1, <2>3, <3>2, <3>3 DEF ReadsHold
  <2>4. CASE pc[t] \in {"writeProjectStatus", "insertMeeting"}
    <3>1. frame[t].op \in {"status", "meeting"}
      BY <2>1, <2>2, <2>4 DEF FrameOK, StepsOf, Operations, Finished
    <3>2. frame[t].project \in ProjectId
      BY <2>1, <3>1 DEF FrameOK
    <3>3. QED BY <2>1, <2>4, <3>2 DEF ReadsHold, ProjectsStay
  <2>5. QED BY <2>1, <2>3, <2>4 DEF ReadsHold
<1>3. QED BY <1>1, <1>2 DEF ControlInv

\* A handler whose read fails a guard ends.
LEMMA ReadFinish ==
    ASSUME ControlInv, NEW s \in Handlers, UNCHANGED dbVars, NEW o \in Finished, Finish(s, o)
    PROVE  ControlInv'
<1>1. TypeOK'
  BY FinishControl DEF ControlInv, TypeOK, TablesOK, HandlersOK, dbVars
<1>2. CountersOK' /\ ProjectsStay
  BY DEF ControlInv, CountersOK, dbVars, ProjectsStay
<1>3. QED BY <1>1, <1>2, FinishControl, OneHandler DEF ControlInv, TypeOK, TablesOK, HandlersOK

\* A handler that reads and goes on changes nothing but its own variables.
LEMMA ReadGoto ==
    ASSUME ControlInv, NEW s \in Handlers, UNCHANGED dbVars,
           NEW step \in ReadSteps \cup WriteSteps, NEW f \in Frames,
           pc' = [pc EXCEPT ![s] = step], frame' = [frame EXCEPT ![s] = f],
           FrameOK(s)', ReadsHold(s)'
    PROVE  ControlInv'
<1>1. TypeOK'
  BY DEF ControlInv, TypeOK, TablesOK, HandlersOK, dbVars
<1>2. CountersOK' /\ ProjectsStay
  BY DEF ControlInv, CountersOK, dbVars, ProjectsStay
<1>3. QED BY <1>1, <1>2, OneHandler DEF ControlInv, TypeOK, TablesOK, HandlersOK

\* get_client: the client is there and may be worked on, or the handler ends.
LEMMA GetClientControl ==
    ASSUME ControlInv, NEW s \in Handlers, GetClient(s)
    PROVE  ControlInv'
<1> DEFINE f == RememberRead(frame[s])
           step == AfterGetClient[frame[s].op]
<1>1. /\ pc \in [Handlers -> Finished \cup ReadSteps \cup WriteSteps]
      /\ frame \in [Handlers -> Frames]
      /\ frame[s] \in Frames /\ FrameOK(s)
  BY DEF ControlInv, TypeOK, TablesOK, HandlersOK
<1>2. UNCHANGED dbVars /\ pc[s] = "getClient"
  BY DEF GetClient
<1>3. CASE Finish(s, "refused")
  BY <1>2, <1>3, ReadFinish DEF Finished
<1>4. CASE /\ IsActive(clients, frame[s].client) \/ frame[s].op = "remind"
           /\ frame' = [frame EXCEPT ![s] = f]
           /\ pc' = [pc EXCEPT ![s] = step]
  <2>1. frame[s].op \in {"update", "delete", "link", "status", "meeting", "remind"}
    BY <1>1, <1>2 DEF FrameOK, StepsOf, Frames, Operations, Finished
  <2>2. /\ step \in StepsOf[frame[s].op]
        /\ step \in {"checkPhone", "countProjects", "insertProject", "getProject",
                    "insertReminder"}
    BY <2>1 DEF AfterGetClient, StepsOf
  <2>3. f \in Frames
    <3>1. CASE frame[s].op = "update"
      BY <1>1, <1>4, <3>1, FrameUpdate DEF RememberRead, IsActive, ClientStatus
    <3>2. CASE frame[s].op # "update"
      BY <1>1, <3>2 DEF RememberRead
    <3>3. QED BY <3>1, <3>2
  <2>4. /\ f.op = frame[s].op /\ f.client = frame[s].client /\ f.phone = frame[s].phone
        /\ f.email = frame[s].email /\ f.project = frame[s].project
        /\ f.op = "update" => f.status = "Active"
        /\ f.op # "update" => f.status = frame[s].status
    BY <1>1, <1>4, <2>1 DEF RememberRead, IsActive, Frames
  <2>5. /\ frame[s].op = "update" => frame[s].phone \in Phones /\ frame[s].email \in Emails
        /\ frame[s].client \in ClientId
        /\ frame[s].op \in {"status", "meeting"} => frame[s].project \in ProjectId
        /\ frame[s].op = "status" => frame[s].status \in ProjectStatus
    BY <1>1, <2>1 DEF FrameOK
  <2>6. pc'[s] = step /\ frame'[s] = f
    BY <1>1, <1>4
  <2> HIDE DEF f, step
  <2>7. FrameOK(s)'
    BY <2>1, <2>2, <2>4, <2>5, <2>6 DEF FrameOK
  <2>8. ReadsHold(s)'
    BY <2>2, <2>6 DEF ReadsHold
  <2>9. step \in ReadSteps \cup WriteSteps
    BY <2>2 DEF ReadSteps, WriteSteps
  <2>10. QED BY <1>2, <1>4, <2>3, <2>7, <2>8, <2>9, ReadGoto DEF f, step
<1>5. QED BY <1>3, <1>4 DEF GetClient, Usable, Goto

\* The other reads.
LEMMA ReadControl ==
    ASSUME ControlInv, NEW s \in Handlers,
           \/ CheckPhone(s) \/ CheckEmail(s) \/ ProbeUsername(s)
           \/ CountProjects(s) \/ GetProject(s)
    PROVE  ControlInv'
<1>1. UNCHANGED dbVars
  BY DEF CheckPhone, CheckEmail, ProbeUsername, CountProjects, GetProject
<1>2. ASSUME NEW o \in Finished, Finish(s, o) PROVE ControlInv'
  BY <1>1, <1>2, ReadFinish
<1>3. ASSUME NEW step \in ReadSteps \cup WriteSteps, NEW f \in Frames,
             pc' = [pc EXCEPT ![s] = step], frame' = [frame EXCEPT ![s] = f],
             FrameOK(s)', ReadsHold(s)'
      PROVE ControlInv'
  BY <1>1, <1>3, ReadGoto
<1>4. /\ pc \in [Handlers -> Finished \cup ReadSteps \cup WriteSteps]
      /\ frame \in [Handlers -> Frames]
      /\ FrameOK(s) /\ ReadsHold(s)
  BY DEF ControlInv, TypeOK, TablesOK, HandlersOK
<1>5. frame[s] \in Frames /\ frame = [frame EXCEPT ![s] = frame[s]]
  BY <1>4
<1>6. "refused" \in Finished
  BY DEF Finished
<1> USE <1>4, <1>5, <1>6 DEF Frames, Operations, StepsOf, ReadSteps, WriteSteps, Finished
<1>7. CASE CheckPhone(s)
  <2>1. CASE Finish(s, "refused")
    BY <1>2, <2>1
  <2>2. CASE Goto(s, "checkEmail") /\ UNCHANGED frame
    <3>1. FrameOK(s)' /\ ReadsHold(s)'
      BY <1>7, <2>2 DEF CheckPhone, FrameOK, ReadsHold, Goto
    <3>2. QED BY <1>3, <2>2, <3>1 DEF Goto
  <2>3. QED BY <1>7, <2>1, <2>2 DEF CheckPhone
<1>8. CASE CheckEmail(s)
  <2> DEFINE step == IF frame[s].op = "create" THEN "insertClient" ELSE "updateClient"
  <2>1. CASE Finish(s, "refused")
    BY <1>2, <2>1
  <2>2. CASE Goto(s, step) /\ UNCHANGED frame
    <3>1. FrameOK(s)' /\ ReadsHold(s)'
      BY <1>8, <2>2 DEF CheckEmail, FrameOK, ReadsHold, Goto
    <3>2. QED BY <1>3, <2>2, <3>1 DEF Goto
  <2>3. QED BY <1>8, <2>1, <2>2 DEF CheckEmail
<1>9. CASE ProbeUsername(s)
  <2>1. frame[s].probe \in 1 .. MaxProbe /\ pc[s] = "probeUsername"
    BY <1>9 DEF ProbeUsername, FrameOK
  <2>2. CASE /\ frame[s].probe < MaxProbe
             /\ frame' = [frame EXCEPT ![s].probe = NextCandidate(frame[s].probe)]
             /\ UNCHANGED pc
    <3> DEFINE f == [frame[s] EXCEPT !.probe = frame[s].probe + 1]
    <3>1. f \in Frames /\ frame' = [frame EXCEPT ![s] = f] /\ f.probe \in 1 .. MaxProbe
      <4>1. frame[s].probe + 1 \in 0 .. MaxProbe
        BY <2>1, <2>2, FileAssumption
      <4>2. f \in Frames
        BY <4>1, FrameUpdate
      <4>3. QED BY <2>1, <2>2, <4>2, FileAssumption DEF NextCandidate
    <3>2. FrameOK(s)' /\ ReadsHold(s)'
      BY <2>1, <2>2, <3>1 DEF FrameOK, ReadsHold
    <3>3. pc' = [pc EXCEPT ![s] = pc[s]]
      BY <2>2
    <3>4. QED BY <1>3, <2>1, <3>1, <3>2, <3>3
  <2>3. CASE Goto(s, "insertUser") /\ UNCHANGED frame
    <3>1. FrameOK(s)' /\ ReadsHold(s)'
      BY <2>1, <2>3 DEF FrameOK, ReadsHold, Goto
    <3>2. QED BY <1>3, <2>3, <3>1 DEF Goto
  <2>4. QED BY <1>9, <2>2, <2>3 DEF ProbeUsername
<1>10. CASE CountProjects(s)
  <2>1. UNCHANGED frame /\ pc[s] = "countProjects"
    BY <1>10 DEF CountProjects
  <2>2. CASE CountedProjects(frame[s].client) # {} /\ Goto(s, "archiveClient")
    <3>1. FrameOK(s)' /\ ReadsHold(s)'
      <4>1. pc'[s] = "archiveClient" /\ frame'[s] = frame[s]
        BY <2>1, <2>2 DEF Goto
      <4>2. frame[s].op = "delete"
        BY <2>1 DEF FrameOK
      <4>3. FrameOK(s)'
        BY <4>1, <4>2 DEF FrameOK
      <4>4. ReadsHold(s)'
        BY <1>1, <2>2, <4>1 DEF ReadsHold, CountedProjects, dbVars, ProjectsOf
      <4>5. QED BY <4>3, <4>4
    <3>2. QED BY <1>3, <2>1, <2>2, <3>1 DEF Goto
  <2>3. CASE Goto(s, "deleteClient")
    <3>1. FrameOK(s)' /\ ReadsHold(s)'
      BY <1>1, <2>1, <2>3 DEF FrameOK, ReadsHold, Goto
    <3>2. QED BY <1>3, <2>1, <2>3, <3>1 DEF Goto
  <2>4. QED BY <1>10, <2>2, <2>3 DEF CountProjects
<1>11. CASE GetProject(s)
  <2> DEFINE p == frame[s].project
             step == IF frame[s].op = "status" THEN "writeProjectStatus" ELSE "insertMeeting"
  <2>1. CASE Finish(s, "refused")
    BY <1>2, <2>1
  <2>2. CASE /\ projects[p].owner = frame[s].client
             /\ Goto(s, step) /\ UNCHANGED frame
    <3>1. projects[p] # NoProject
      BY <1>11, <2>2 DEF GetProject, FrameOK, NoProject, ClientId
    <3>2. FrameOK(s)' /\ ReadsHold(s)'
      BY <1>1, <1>11, <2>2, <3>1 DEF GetProject, FrameOK, ReadsHold, Goto, dbVars
    <3>3. QED BY <1>3, <2>2, <3>2 DEF Goto
  <2>3. QED BY <1>11, <2>1, <2>2 DEF GetProject
<1>12. QED BY <1>7, <1>8, <1>9, <1>10, <1>11

\* A transaction that ends its handler.
LEMMA WriteFinish ==
    ASSUME ControlInv, NEW s \in Handlers, NEW o \in Finished, Finish(s, o),
           TablesOK', CountersOK', ProjectsStay
    PROVE  ControlInv'
<1>1. TypeOK'
  BY FinishControl DEF ControlInv, TypeOK, HandlersOK
<1>2. QED BY <1>1, FinishControl, OneHandler DEF ControlInv, TypeOK, HandlersOK

\* A transaction that leaves the projects and the clients alone.
LEMMA SideControl ==
    ASSUME ControlInv, NEW s \in Handlers,
           InsertUser(s) \/ InsertMeeting(s) \/ InsertReminder(s) \/ InsertInquiry(s)
    PROVE  ControlInv'
<1>1. CountersOK' /\ ProjectsStay
  BY DEF ControlInv, CountersOK, ProjectsStay, InsertUser, InsertMeeting, InsertReminder,
     InsertInquiry
<1>2. FrameOK(s) /\ frame[s] \in Frames /\ TablesOK
  BY DEF ControlInv, TypeOK, HandlersOK
<1>3. PICK o \in Finished : Finish(s, o)
  BY DEF InsertUser, InsertMeeting, InsertReminder, InsertInquiry, Finished
<1>4. frame[s].op \in Operations \cup {"none"}
  BY <1>2 DEF Frames
<1>5. TablesOK'
  <2>1. CASE InsertUser(s)
    BY <1>2, <2>1, RecordsAssumption DEF InsertUser, FrameOK, TablesOK, ClientId
  <2>2. CASE InsertMeeting(s)
    BY <1>2, <1>4, <2>2 DEF InsertMeeting, FrameOK, TablesOK, StepsOf, Operations, Finished
  <2>3. CASE InsertReminder(s)
    BY <1>2, <1>4, <2>3 DEF InsertReminder, FrameOK, TablesOK, StepsOf, Operations, Finished
  <2>4. CASE InsertInquiry(s)
    BY <1>2, <1>4, <2>4 DEF InsertInquiry, FrameOK, TablesOK, StepsOf, Operations, Finished
  <2>5. QED BY <2>1, <2>2, <2>3, <2>4
<1>6. QED BY <1>1, <1>3, <1>5, WriteFinish

\* The row is inserted under a fresh id and the handler goes on with the account.
LEMMA InsertClientControl ==
    ASSUME ControlInv, NEW s \in Handlers, InsertClient(s)
    PROVE  ControlInv'
<1> DEFINE c == clientSeq + 1
           f == [frame[s] EXCEPT !.client = c, !.probe = 1]
<1>1. /\ TablesOK /\ CountersOK /\ FrameOK(s) /\ frame[s] \in Frames
      /\ pc \in [Handlers -> Finished \cup ReadSteps \cup WriteSteps]
      /\ frame \in [Handlers -> Frames]
  BY DEF ControlInv, TypeOK, HandlersOK
<1>2. c \in ClientId
  BY <1>1, RecordsAssumption DEF InsertClient, TablesOK, ClientId
<1>3. frame[s].op = "create"
  BY <1>1 DEF InsertClient, FrameOK, StepsOf, Frames, Operations, Finished
<1>4. frame[s].phone \in Phones /\ frame[s].email \in Emails
  BY <1>1, <1>3 DEF FrameOK
<1>5. TablesOK'
  BY <1>1, <1>2, <1>4 DEF InsertClient, NextClientId, TablesOK, ClientRow, ClientStatus,
     ClientId, ActivityEntries
<1>6. CountersOK' /\ ProjectsStay
  <2>1. clientSeq' = c /\ clientSeq \in Nat /\ UNCHANGED <<projects, projectSeq>>
    BY <1>1, RecordsAssumption DEF InsertClient, NextClientId, TablesOK
  <2>2. \A d \in ClientId : d # c => clients'[d] = clients[d]
    BY <1>1 DEF InsertClient, NextClientId, TablesOK
  <2>3. ASSUME NEW d \in ClientId, IsPresent(clients', d) PROVE d <= clientSeq'
    <3>1. CASE d = c
      BY <2>1, <3>1
    <3>2. CASE d # c
      BY <1>1, <2>1, <2>2, <2>3, <3>2 DEF IsPresent, CountersOK, ClientId
    <3>3. QED BY <3>1, <3>2
  <2>4. QED BY <1>1, <2>1, <2>3 DEF CountersOK, ProjectsStay
<1>7. f \in Frames
  <2>1. 1 \in 0 .. MaxProbe
    BY FileAssumption
  <2> HIDE DEF c
  <2>2. \A d \in ClientId, k \in 0 .. MaxProbe :
          [frame[s] EXCEPT !.client = d, !.probe = k] \in Frames
    BY <1>1, FrameUpdate, Zenon
  <2>3. QED BY <1>2, <2>1, <2>2, Zenon
<1>8. frame' = [frame EXCEPT ![s] = f] /\ pc' = [pc EXCEPT ![s] = "probeUsername"]
  BY <1>1 DEF InsertClient, NextClientId, Goto
<1>9. f.op = "create" /\ f.client = c /\ f.probe = 1 /\ f.phone = frame[s].phone
      /\ f.email = frame[s].email
  BY <1>1, <1>3 DEF Frames
<1>10. pc'[s] = "probeUsername" /\ frame'[s] = f
  BY <1>1, <1>8
<1> HIDE DEF f
<1>11. FrameOK(s)' /\ ReadsHold(s)'
  BY <1>2, <1>4, <1>9, <1>10, FileAssumption DEF FrameOK, ReadsHold, StepsOf
<1>12. TypeOK'
  BY <1>1, <1>5, <1>7, <1>8 DEF TypeOK, HandlersOK, ReadSteps
<1>13. \A t \in Handlers \ {s} : pc'[t] = pc[t] /\ frame'[t] = frame[t]
  BY <1>1, <1>8
<1>14. QED BY <1>6, <1>11, <1>12, <1>13, OneHandler

\* update_client and archive_client rewrite a row that exists or none at all.
LEMMA RowControl ==
    ASSUME ControlInv, NEW s \in Handlers, UpdateClient(s) \/ ArchiveClient(s)
    PROVE  ControlInv'
<1> DEFINE c == frame[s].client
<1>1. FrameOK(s) /\ frame[s] \in Frames /\ TablesOK /\ CountersOK
  BY DEF ControlInv, TypeOK, HandlersOK
<1>2. frame[s].op \in {"update", "delete"} /\ (UpdateClient(s) => frame[s].op = "update")
  BY <1>1 DEF UpdateClient, ArchiveClient, FrameOK, StepsOf, Frames, Operations, Finished
<1>3. c \in ClientId
  BY <1>1, <1>2 DEF FrameOK
<1>4. PICK row \in ClientRow :
        clients' = UpdateRow(c, row) \/ (~IsPresent(clients, c) /\ clients' = clients)
  <2>1. CASE UpdateClient(s)
    <3>1. frame[s].phone \in Phones /\ frame[s].email \in Emails /\ frame[s].status = "Active"
      BY <1>1, <1>2, <2>1 DEF FrameOK, UpdateClient
    <3>2. QED BY <2>1, <3>1 DEF UpdateClient, ClientRow, ClientStatus
  <2>2. CASE ArchiveClient(s) /\ IsPresent(clients, c)
    <3>1. clients[c] \in [status : ClientStatus, phone : Phones, email : Emails]
      BY <1>1, <1>3, <2>2 DEF TablesOK, ClientRow, IsPresent, NoClient
    <3>2. [clients[c] EXCEPT !.status = "Archived"] \in ClientRow
      BY <3>1 DEF ClientRow, ClientStatus
    <3>3. QED BY <2>2, <3>2 DEF ArchiveClient
  <2>3. CASE ArchiveClient(s) /\ ~IsPresent(clients, c)
    BY <2>3 DEF ArchiveClient, UpdateRow, ClientRow
  <2>4. QED BY <2>1, <2>2, <2>3
<1>5. clients' \in [ClientId -> ClientRow]
  BY <1>1, <1>3, <1>4 DEF TablesOK, UpdateRow
<1>6. \A d \in ClientId : IsPresent(clients', d) => IsPresent(clients, d)
  BY <1>1, <1>3, <1>4 DEF TablesOK, UpdateRow, IsPresent
<1>7. TablesOK'
  BY <1>1, <1>3, <1>5 DEF TablesOK, UpdateClient, ArchiveClient, ArchiveEntry, ActivityEntries
<1>8. CountersOK' /\ ProjectsStay
  BY <1>1, <1>6 DEF CountersOK, ProjectsStay, UpdateClient, ArchiveClient
<1>9. Finish(s, "ok") /\ "ok" \in Finished
  BY DEF UpdateClient, ArchiveClient, Finished
<1>10. QED BY <1>7, <1>8, <1>9, WriteFinish

\* delete_client removes the row and its account, or neither.
LEMMA DeleteControl ==
    ASSUME ControlInv, NEW s \in Handlers, DeleteClient(s)
    PROVE  ControlInv'
<1>1. TablesOK /\ CountersOK
  BY DEF ControlInv, TypeOK
<1>2. PICK o \in Finished : Finish(s, o)
  BY DEF DeleteClient, Finished
<1>3. AccountsAfterDelete(frame[s].client) \in [Usernames -> 0 .. MaxClients]
  BY <1>1, RecordsAssumption DEF TablesOK, AccountsAfterDelete
<1>4. TablesOK'
  BY <1>1, <1>3 DEF DeleteClient, TablesOK, ClientRow
<1>5. CountersOK' /\ ProjectsStay
  BY <1>1 DEF DeleteClient, TablesOK, CountersOK, ProjectsStay, IsPresent, NoClient
<1>6. QED BY <1>2, <1>4, <1>5, WriteFinish

\* A project is added, or one that exists changes its status.
LEMMA ProjectControl ==
    ASSUME ControlInv, NEW s \in Handlers, InsertProject(s) \/ WriteProjectStatus(s)
    PROVE  ControlInv'
<1>1. TablesOK /\ CountersOK /\ FrameOK(s) /\ ReadsHold(s) /\ frame[s] \in Frames
  BY DEF ControlInv, TypeOK, HandlersOK
<1>2. PICK o \in Finished : Finish(s, o)
  BY DEF InsertProject, WriteProjectStatus, Finished
<1>3. CASE InsertProject(s)
  <2>1. frame[s].client \in ClientId
    BY <1>1, <1>3 DEF InsertProject, FrameOK, StepsOf, Frames, Operations, Finished
  <2>2. projectSeq + 1 \in ProjectId
    BY <1>1, <1>3, RecordsAssumption DEF InsertProject, TablesOK, ProjectId
  <2>3. TablesOK'
    BY <1>1, <1>3, <2>1, <2>2 DEF InsertProject, TablesOK, ProjectRow, ProjectStatus,
       ActivityEntries, ProjectId
  <2>4. ASSUME IsPresent(clients, frame[s].client) PROVE CountersOK' /\ ProjectsStay
    <3> DEFINE row == [owner |-> frame[s].client, status |-> "Active"]
               p == projectSeq + 1
    <3>1. /\ projects' = [projects EXCEPT ![p] = row] /\ projectSeq' = p
          /\ UNCHANGED <<clients, clientSeq>>
      BY <1>3, <2>4 DEF InsertProject
    <3>2. row # NoProject /\ p \in ProjectId /\ projectSeq \in Nat
      BY <1>1, <2>1, <2>2 DEF NoProject, ClientId, TablesOK
    <3>3. projects[p] = NoProject
      BY <1>1, <3>2 DEF CountersOK
    <3> HIDE DEF row
    <3>4. \A q \in ProjectId : q <= p <=> (q <= projectSeq \/ q = p)
      BY <3>2 DEF ProjectId
    <3>5. \A q \in ProjectId : projects'[q] = IF q = p THEN row ELSE projects[q]
      BY <1>1, <3>1 DEF TablesOK
    <3> HIDE DEF p
    <3>6. \A q \in ProjectId : q <= projectSeq' <=> projects'[q] # NoProject
      BY <1>1, <3>1, <3>2, <3>4, <3>5 DEF CountersOK
    <3>7. CountersOK'
      BY <1>1, <3>1, <3>6 DEF CountersOK
    <3>8. ProjectsStay
      BY <3>3, <3>5, <3>6 DEF ProjectsStay
    <3>9. QED BY <3>7, <3>8
  <2>5. ASSUME ~IsPresent(clients, frame[s].client) PROVE CountersOK' /\ ProjectsStay
    BY <1>1, <1>3, <2>5 DEF InsertProject, CountersOK, ProjectsStay
  <2>6. CountersOK' /\ ProjectsStay
    BY <2>4, <2>5
  <2>7. QED BY <1>2, <2>3, <2>6, WriteFinish
<1>4. CASE WriteProjectStatus(s)
  <2>1. frame[s].op = "status"
    BY <1>1, <1>4 DEF WriteProjectStatus, FrameOK, StepsOf, Frames, Operations, Finished
  <2>2. frame[s].project \in ProjectId /\ frame[s].status \in ProjectStatus
    BY <1>1, <2>1 DEF FrameOK
  <2>3. projects[frame[s].project] \in [owner : ClientId, status : ProjectStatus]
    BY <1>1, <1>4, <2>2 DEF WriteProjectStatus, ReadsHold, TablesOK, ProjectRow
  <2> DEFINE row == [projects[frame[s].project] EXCEPT !.status = frame[s].status]
  <2>4. /\ row \in [owner : ClientId, status : ProjectStatus]
        /\ row.owner = projects[frame[s].project].owner
    BY <2>2, <2>3
  <2>5. projects' = [projects EXCEPT ![frame[s].project] = row]
    BY <1>4 DEF WriteProjectStatus
  <2> HIDE DEF row
  <2>6. TablesOK'
    BY <1>1, <1>4, <2>2, <2>4, <2>5 DEF WriteProjectStatus, TablesOK, ProjectRow, ActivityEntries
  <2>7. row # NoProject /\ projects[frame[s].project] # NoProject
    BY <2>3, <2>4 DEF NoProject, ClientId
  <2>8. CountersOK' /\ ProjectsStay
    BY <1>1, <1>4, <2>2, <2>4, <2>5, <2>7 DEF WriteProjectStatus, TablesOK, CountersOK,
       ProjectsStay
  <2>9. QED BY <1>2, <2>6, <2>8, WriteFinish
<1>5. QED BY <1>3, <1>4

\* A crash or a lock timeout ends handlers and nothing else.
LEMMA FaultControl ==
    ASSUME ControlInv, Crash \/ (\E s \in Handlers : LockTimeout(s))
    PROVE  ControlInv'
<1>1. CASE Crash
  <2>1. /\ UNCHANGED dbVars
        /\ pc' = [s \in Handlers |-> "idle"] /\ frame' = [s \in Handlers |-> NoFrame]
    BY <1>1 DEF Crash
  <2>2. TypeOK' /\ CountersOK'
    BY <2>1, NoFrameType DEF ControlInv, TypeOK, TablesOK, HandlersOK, CountersOK, dbVars, Finished
  <2>3. \A s \in Handlers : FrameOK(s)' /\ ReadsHold(s)'
    BY <2>1 DEF FrameOK, ReadsHold, NoFrame, Frame, StepsOf, Finished
  <2>4. QED BY <2>2, <2>3 DEF ControlInv
<1>2. ASSUME NEW s \in Handlers, LockTimeout(s) PROVE ControlInv'
  BY <1>2, ReadFinish DEF LockTimeout, Finished
<1>3. QED BY <1>1, <1>2

\* Every step preserves types and control.
LEMMA StepControl == ControlInv /\ [Next]_vars => ControlInv'
<1> SUFFICES ASSUME ControlInv, [Next]_vars PROVE ControlInv'
  OBVIOUS
<1>1. ASSUME NEW s \in Handlers, Advance(s) PROVE ControlInv'
  BY <1>1, GetClientControl, ReadControl, SideControl, InsertClientControl, RowControl,
     DeleteControl, ProjectControl DEF Advance
<1>2. CASE UNCHANGED vars
  BY <1>2 DEF vars, dbVars, ControlInv, TypeOK, TablesOK, HandlersOK, CountersOK, FrameOK,
     ReadsHold
<1>3. QED BY <1>1, <1>2, RequestControl, FaultControl DEF Next

\* Types and control hold throughout.
LEMMA ControlInvariance == Spec => []ControlInv
  BY InitControl, StepControl, PTL DEF Spec

\* Every variable keeps its type, whatever the handlers do.
THEOREM TypeCorrect == Spec => []TypeOK
<1>1. ControlInv => TypeOK
  BY DEF ControlInv
<1>2. QED BY <1>1, ControlInvariance, PTL
--------------------------------------------------------------------------------
(* The safety properties of the client file: no dangling reference, no archived *)
(* client without history, a complete activity log, one account per client, and *)
(* what no step may take away.                                                  *)

\* A new client has no account yet, and only one handler is about to give it one.
ProvisioningOK ==
    LET provisioning == {s \in Handlers : pc[s] \in {"probeUsername", "insertUser"}}
    IN  /\ \A s \in provisioning :
             /\ frame[s].client <= clientSeq
             /\ \A u \in Usernames : account[u] # frame[s].client
        /\ \A s, t \in provisioning : frame[s].client = frame[t].client => s = t

\* The inductive invariant behind the properties of this module.
FileInv ==
    /\ ControlInv
    /\ ReferentialIntegrity
    /\ ArchivedHasHistory
    /\ AuditTrail
    /\ ProvisioningOK
    /\ OneAccountPerClient

\* The steps that leave every table alone.
QuietStep == UNCHANGED dbVars

\* A step commits one of the transactions or leaves the database alone.
LEMMA WriteCases ==
    ASSUME [Next]_vars
    PROVE  \/ QuietStep
           \/ \E s \in Handlers :
                \/ InsertClient(s) \/ InsertUser(s) \/ UpdateClient(s) \/ ArchiveClient(s)
                \/ DeleteClient(s) \/ InsertProject(s) \/ WriteProjectStatus(s)
                \/ InsertMeeting(s) \/ InsertReminder(s) \/ InsertInquiry(s)
<1>1. ASSUME NEW s \in Handlers, NewRequest(s) PROVE QuietStep
  BY <1>1 DEF QuietStep, NewRequest, Request, RequestRefused, RequestCreate, RequestUpdate,
     RequestDelete, RequestLink, RequestStatus, RequestMeeting, RequestReminder,
     RequestInquiry
<1>2. ASSUME NEW s \in Handlers,
             \/ GetClient(s) \/ CheckPhone(s) \/ CheckEmail(s) \/ ProbeUsername(s)
             \/ CountProjects(s) \/ GetProject(s) \/ LockTimeout(s)
      PROVE QuietStep
  BY <1>2 DEF QuietStep, GetClient, CheckPhone, CheckEmail, ProbeUsername, CountProjects,
     GetProject, LockTimeout
<1>3. Crash \/ UNCHANGED vars => QuietStep
  BY DEF QuietStep, Crash, vars
<1>4. QED BY <1>1, <1>2, <1>3 DEF Next, Advance

\* What the tables know when a handler commits its transaction.
LEMMA HandlerFacts ==
    ASSUME ControlInv, NEW s \in Handlers
    PROVE  /\ pc[s] = "insertUser" => frame[s].client \in ClientId
           /\ pc[s] \in {"updateClient", "archiveClient", "deleteClient", "insertProject",
                         "insertReminder", "insertInquiry"} => frame[s].client \in ClientId
           /\ pc[s] = "updateClient" => frame[s].status = "Active"
           /\ pc[s] = "archiveClient" => ProjectsOf(projects, frame[s].client) # {}
           /\ pc[s] \in {"writeProjectStatus", "insertMeeting"} =>
                  frame[s].project \in ProjectId /\ projects[frame[s].project] # NoProject
           /\ pc[s] = "writeProjectStatus" => frame[s].status \in ProjectStatus
<1>1. FrameOK(s) /\ ReadsHold(s) /\ frame[s] \in Frames /\ clientSeq \in 0 .. MaxClients
  BY DEF ControlInv, TypeOK, TablesOK, HandlersOK
<1>2. frame[s].op \in Operations \cup {"none"}
  BY <1>1 DEF Frames
<1>3. pc[s] \in StepsOf[frame[s].op]
  BY <1>1 DEF FrameOK
<1>4. pc[s] \notin Finished => frame[s].op # "none"
  BY <1>3 DEF StepsOf
<1>5. /\ pc[s] = "updateClient" => frame[s].op = "update"
      /\ pc[s] \in {"archiveClient", "deleteClient"} => frame[s].op = "delete"
      /\ pc[s] = "insertProject" => frame[s].op = "link"
      /\ pc[s] = "insertReminder" => frame[s].op = "remind"
      /\ pc[s] = "insertInquiry" => frame[s].op = "inquire"
      /\ pc[s] = "writeProjectStatus" => frame[s].op = "status"
      /\ pc[s] = "insertMeeting" => frame[s].op = "meeting"
  BY <1>2, <1>3 DEF StepsOf, Operations, Finished
<1>6. QED BY <1>1, <1>5, RecordsAssumption DEF FrameOK, ReadsHold

\* A client's row goes only when delete_client finds nothing that refers to it.
LEMMA PresenceKept ==
    ASSUME ControlInv, [Next]_vars, NEW c \in ClientId, IsPresent(clients, c),
           ~IsPresent(clients', c)
    PROVE  \E s \in Handlers : DeleteClient(s) /\ frame[s].client = c /\ ~Referenced(c)
<1>1. clients \in [ClientId -> ClientRow] /\ CountersOK
  BY DEF ControlInv, TypeOK, TablesOK
<1>2. CASE QuietStep
  BY <1>2 DEF QuietStep, dbVars
<1>3. ASSUME NEW s \in Handlers, InsertClient(s) PROVE FALSE
  BY <1>1, <1>3 DEF InsertClient, NextClientId, IsPresent
<1>4. ASSUME NEW s \in Handlers,
             \/ InsertUser(s) \/ InsertProject(s) \/ WriteProjectStatus(s)
             \/ InsertMeeting(s) \/ InsertReminder(s) \/ InsertInquiry(s)
      PROVE FALSE
  BY <1>4 DEF InsertUser, InsertProject, WriteProjectStatus, InsertMeeting, InsertReminder,
     InsertInquiry
<1>5. ASSUME NEW s \in Handlers, UpdateClient(s) PROVE FALSE
  <2>1. frame[s].status = "Active"
    BY <1>5, HandlerFacts DEF UpdateClient
  <2>2. QED BY <1>1, <1>5, <2>1 DEF UpdateClient, UpdateRow, IsPresent
<1>6. ASSUME NEW s \in Handlers, ArchiveClient(s) PROVE FALSE
  BY <1>1, <1>6 DEF ArchiveClient, UpdateRow, IsPresent, ClientRow, NoClient
<1>7. ASSUME NEW s \in Handlers, DeleteClient(s)
      PROVE  frame[s].client = c /\ ~Referenced(c)
  BY <1>1, <1>7 DEF DeleteClient, IsPresent
<1>8. QED BY <1>2, <1>3, <1>4, <1>5, <1>6, <1>7, WriteCases

\* A row of Projects is either an old one with its owner, or one that was just
\* linked to a client that is there.
LEMMA ProjectOrigin ==
    ASSUME ControlInv, [Next]_vars, NEW p \in ProjectId, projects'[p] # NoProject
    PROVE  \/ /\ projects[p] # NoProject
              /\ projects'[p].owner = projects[p].owner
           \/ IsPresent(clients', projects'[p].owner)
<1>1. projects \in [ProjectId -> ProjectRow]
  BY DEF ControlInv, TypeOK, TablesOK
<1>2. CASE QuietStep
  BY <1>2 DEF QuietStep, dbVars
<1>3. ASSUME NEW s \in Handlers,
             \/ InsertClient(s) \/ InsertUser(s) \/ UpdateClient(s) \/ ArchiveClient(s)
             \/ DeleteClient(s) \/ InsertMeeting(s) \/ InsertReminder(s) \/ InsertInquiry(s)
      PROVE UNCHANGED projects
  BY <1>3 DEF InsertClient, InsertUser, UpdateClient, ArchiveClient, DeleteClient,
     InsertMeeting, InsertReminder, InsertInquiry
<1>4. ASSUME NEW s \in Handlers, InsertProject(s)
      PROVE  projects'[p] = projects[p] \/ IsPresent(clients', projects'[p].owner)
  BY <1>1, <1>4 DEF InsertProject
<1>5. ASSUME NEW s \in Handlers, WriteProjectStatus(s)
      PROVE  projects[p] # NoProject /\ projects'[p].owner = projects[p].owner
  <2>1. frame[s].project \in ProjectId /\ projects[frame[s].project] # NoProject
    BY <1>5, HandlerFacts DEF WriteProjectStatus
  <2>2. projects[frame[s].project] \in [owner : ClientId, status : ProjectStatus]
    BY <1>1, <2>1 DEF ProjectRow
  <2>3. QED BY <1>1, <1>5, <2>1, <2>2 DEF WriteProjectStatus
<1>6. QED BY <1>2, <1>3, <1>4, <1>5, WriteCases

\* An account is an old one or one for a client that is there; the name of an
\* old one is never given away.
LEMMA AccountOrigin ==
    ASSUME ControlInv, [Next]_vars, NEW u \in Usernames, account'[u] # account[u]
    PROVE  \/ \E s \in Handlers :
                /\ InsertUser(s) /\ account[u] = 0 /\ account'[u] = frame[s].client
                /\ IsPresent(clients', account'[u])
                /\ \A v \in Usernames \ {u} : account'[v] = account[v]
           \/ \E s \in Handlers :
                DeleteClient(s) /\ account[u] = frame[s].client /\ account'[u] = 0
                /\ ~IsPresent(clients', account[u])
<1>1. account \in [Usernames -> 0 .. MaxClients] /\ clients \in [ClientId -> ClientRow]
  BY DEF ControlInv, TypeOK, TablesOK
<1>2. CASE QuietStep
  BY <1>2 DEF QuietStep, dbVars
<1>3. ASSUME NEW s \in Handlers,
             \/ InsertClient(s) \/ UpdateClient(s) \/ ArchiveClient(s) \/ InsertProject(s)
             \/ WriteProjectStatus(s) \/ InsertMeeting(s) \/ InsertReminder(s)
             \/ InsertInquiry(s)
      PROVE FALSE
  BY <1>3 DEF InsertClient, UpdateClient, ArchiveClient, InsertProject, WriteProjectStatus,
     InsertMeeting, InsertReminder, InsertInquiry
<1>4. ASSUME NEW s \in Handlers, InsertUser(s)
      PROVE  /\ account[u] = 0 /\ account'[u] = frame[s].client
             /\ IsPresent(clients', account'[u])
             /\ \A v \in Usernames \ {u} : account'[v] = account[v]
  BY <1>1, <1>4 DEF InsertUser, NameInUse
<1>5. ASSUME NEW s \in Handlers, DeleteClient(s)
      PROVE  /\ account[u] = frame[s].client /\ account'[u] = 0
             /\ ~IsPresent(clients', account[u])
  <2>1. ~Referenced(frame[s].client) /\ account[u] = frame[s].client /\ account'[u] = 0
    BY <1>5 DEF DeleteClient, AccountsAfterDelete
  <2>2. clients' = [clients EXCEPT ![frame[s].client] = NoClient]
    BY <1>5, <2>1 DEF DeleteClient
  <2>3. frame[s].client \in ClientId
    BY <1>5, HandlerFacts DEF DeleteClient
  <2>4. QED BY <1>1, <2>1, <2>2, <2>3 DEF IsPresent, NoClient
<1>6. QED BY <1>2, <1>3, <1>4, <1>5, WriteCases

\* No step removes a project or gives it to another client.
LEMMA ProjectsNeverGo ==
    ASSUME ControlInv, [Next]_vars
    PROVE  ProjectsStay
<1> SUFFICES ASSUME NEW p \in ProjectId, projects[p] # NoProject
             PROVE  projects'[p] # NoProject /\ projects'[p].owner = projects[p].owner
  BY DEF ProjectsStay
<1>1. projects \in [ProjectId -> ProjectRow] /\ CountersOK /\ projectSeq \in Nat
  BY RecordsAssumption DEF ControlInv, TypeOK, TablesOK
<1>2. CASE QuietStep
  BY <1>2 DEF QuietStep, dbVars
<1>3. ASSUME NEW s \in Handlers,
             \/ InsertClient(s) \/ InsertUser(s) \/ UpdateClient(s) \/ ArchiveClient(s)
             \/ DeleteClient(s) \/ InsertMeeting(s) \/ InsertReminder(s) \/ InsertInquiry(s)
      PROVE UNCHANGED projects
  BY <1>3 DEF InsertClient, InsertUser, UpdateClient, ArchiveClient, DeleteClient,
     InsertMeeting, InsertReminder, InsertInquiry
<1>4. ASSUME NEW s \in Handlers, InsertProject(s) PROVE projects'[p] = projects[p]
  <2>1. p # projectSeq + 1
    BY <1>1 DEF CountersOK, ProjectId
  <2>2. QED BY <1>1, <1>4, <2>1 DEF InsertProject
<1>5. ASSUME NEW s \in Handlers, WriteProjectStatus(s)
      PROVE  projects'[p] # NoProject /\ projects'[p].owner = projects[p].owner
  <2>1. projects[p] \in [owner : ClientId, status : ProjectStatus]
    BY <1>1 DEF ProjectRow
  <2>2. projects'[p].owner = projects[p].owner
    BY <1>1, <1>5, <2>1 DEF WriteProjectStatus
  <2>3. QED BY <2>1, <2>2 DEF NoProject, ClientId
<1>6. QED BY <1>2, <1>3, <1>4, <1>5, WriteCases

\* Projects, accounts, inquiries, reminders and meetings keep what they refer to.
LEMMA StepReferences ==
    ASSUME ControlInv, ReferentialIntegrity, [Next]_vars
    PROVE  ReferentialIntegrity'
<1>1. /\ projects \in [ProjectId -> ProjectRow] /\ account \in [Usernames -> 0 .. MaxClients]
      /\ inquiries \cup reminders \subseteq ClientId /\ meetings \subseteq ProjectId
      /\ projects' \in [ProjectId -> ProjectRow] /\ account' \in [Usernames -> 0 .. MaxClients]
  BY StepControl DEF ControlInv, TypeOK, TablesOK
<1>2. ASSUME NEW p \in ProjectId, projects'[p] # NoProject
      PROVE  IsPresent(clients', projects'[p].owner)
  <2>1. CASE projects[p] # NoProject /\ projects'[p].owner = projects[p].owner
    <3>1. projects[p].owner \in ClientId /\ IsPresent(clients, projects[p].owner)
      BY <1>1, <2>1 DEF ProjectRow, ReferentialIntegrity
    <3>2. p \in ProjectsOf(projects, projects[p].owner)
      BY DEF ProjectsOf
    <3>3. QED BY <2>1, <3>1, <3>2, PresenceKept DEF Referenced
  <2>2. QED BY <1>2, <2>1, ProjectOrigin
<1>3. ASSUME NEW u \in Usernames, account'[u] # 0
      PROVE  IsPresent(clients', account'[u])
  <2>1. CASE account'[u] = account[u]
    <3>1. account[u] \in ClientId /\ IsPresent(clients, account[u])
      BY <1>1, <1>3, <2>1, RecordsAssumption DEF ReferentialIntegrity, ClientId
    <3>2. ASSUME NEW s \in Handlers, DeleteClient(s), frame[s].client = account[u],
                 ~Referenced(account[u])
          PROVE  FALSE
      BY <1>1, <1>3, <2>1, <3>2 DEF DeleteClient, AccountsAfterDelete
    <3>3. QED BY <2>1, <3>1, <3>2, PresenceKept
  <2>2. QED BY <1>3, <2>1, AccountOrigin
<1>4. ASSUME NEW c \in inquiries' \cup reminders' PROVE IsPresent(clients', c)
  <2>1. CASE c \in inquiries \cup reminders
    <3>1. c \in ClientId /\ IsPresent(clients, c) /\ Referenced(c)
      BY <1>1, <2>1 DEF ReferentialIntegrity, Referenced
    <3>2. QED BY <3>1, PresenceKept
  <2>2. CASE c \notin inquiries \cup reminders
    <3>1. CASE QuietStep
      BY <1>4, <2>2, <3>1 DEF QuietStep, dbVars
    <3>2. ASSUME NEW s \in Handlers,
                 \/ InsertClient(s) \/ InsertUser(s) \/ UpdateClient(s) \/ ArchiveClient(s)
                 \/ DeleteClient(s) \/ InsertProject(s) \/ WriteProjectStatus(s)
                 \/ InsertMeeting(s)
          PROVE  FALSE
      BY <1>4, <2>2, <3>2 DEF InsertClient, InsertUser, UpdateClient, ArchiveClient,
         DeleteClient, InsertProject, WriteProjectStatus, InsertMeeting
    <3>3. ASSUME NEW s \in Handlers, InsertReminder(s) \/ InsertInquiry(s)
          PROVE  IsPresent(clients', c)
      BY <1>4, <2>2, <3>3 DEF InsertReminder, InsertInquiry
    <3>4. QED BY <3>1, <3>2, <3>3, WriteCases
  <2>3. QED BY <2>1, <2>2
<1>5. ASSUME NEW p \in meetings' PROVE projects'[p] # NoProject
  <2>1. CASE p \in meetings
    <3>1. p \in ProjectId /\ projects[p] # NoProject
      BY <1>1, <2>1 DEF ReferentialIntegrity
    <3>2. QED BY <3>1, ProjectsNeverGo DEF ProjectsStay
  <2>2. CASE p \notin meetings
    <3>1. CASE QuietStep
      BY <1>5, <2>2, <3>1 DEF QuietStep, dbVars
    <3>2. ASSUME NEW s \in Handlers,
                 \/ InsertClient(s) \/ InsertUser(s) \/ UpdateClient(s) \/ ArchiveClient(s)
                 \/ DeleteClient(s) \/ InsertProject(s) \/ WriteProjectStatus(s)
                 \/ InsertReminder(s) \/ InsertInquiry(s)
          PROVE  FALSE
      BY <1>5, <2>2, <3>2 DEF InsertClient, InsertUser, UpdateClient, ArchiveClient,
         DeleteClient, InsertProject, WriteProjectStatus, InsertReminder, InsertInquiry
    <3>3. ASSUME NEW s \in Handlers, InsertMeeting(s) PROVE projects'[p] # NoProject
      BY <1>5, <2>2, <3>3, HandlerFacts DEF InsertMeeting
    <3>4. QED BY <3>1, <3>2, <3>3, WriteCases
  <2>3. QED BY <2>1, <2>2
<1>6. QED BY <1>2, <1>3, <1>4, <1>5 DEF ReferentialIntegrity

\* Where a client's row and its status come from.
LEMMA ClientOrigin ==
    ASSUME ControlInv, [Next]_vars, NEW c \in ClientId
    PROVE  /\ IsPresent(clients', c) =>
                  IsPresent(clients, c) \/ <<"create_client", c>> \in activity'
           /\ IsArchived(clients', c) =>
                  \/ IsArchived(clients, c)
                  \/ /\ ProjectsOf(projects, c) # {}
                     /\ <<"archive_client", c>> \in activity'
<1>1. clients \in [ClientId -> ClientRow]
  BY DEF ControlInv, TypeOK, TablesOK
<1>2. CASE QuietStep
  BY <1>2 DEF QuietStep, dbVars
<1>3. ASSUME NEW s \in Handlers,
             \/ InsertUser(s) \/ InsertProject(s) \/ WriteProjectStatus(s)
             \/ InsertMeeting(s) \/ InsertReminder(s) \/ InsertInquiry(s)
      PROVE UNCHANGED clients
  BY <1>3 DEF InsertUser, InsertProject, WriteProjectStatus, InsertMeeting, InsertReminder,
     InsertInquiry
<1>4. ASSUME NEW s \in Handlers, InsertClient(s)
      PROVE  clients'[c] = clients[c] \/ (/\ clients'[c].status = "Active"
                                          /\ <<"create_client", c>> \in activity')
  BY <1>1, <1>4 DEF InsertClient
<1>5. ASSUME NEW s \in Handlers, UpdateClient(s)
      PROVE  \/ clients'[c] = clients[c]
             \/ IsPresent(clients, c) /\ clients'[c].status = "Active"
  <2>1. frame[s].status = "Active"
    BY <1>5, HandlerFacts DEF UpdateClient
  <2>2. QED BY <1>1, <1>5, <2>1 DEF UpdateClient, UpdateRow
<1>6. ASSUME NEW s \in Handlers, ArchiveClient(s)
      PROVE  \/ clients'[c] = clients[c]
             \/ /\ IsPresent(clients, c) /\ ProjectsOf(projects, c) # {}
                /\ <<"archive_client", c>> \in activity'
  <2>1. ProjectsOf(projects, frame[s].client) # {}
    BY <1>6, HandlerFacts DEF ArchiveClient
  <2>2. QED BY <1>1, <1>6, <2>1 DEF ArchiveClient, UpdateRow, ArchiveEntry
<1>7. ASSUME NEW s \in Handlers, DeleteClient(s)
      PROVE  clients'[c] = clients[c] \/ clients'[c].status = "Absent"
  BY <1>1, <1>7 DEF DeleteClient, NoClient
<1>8. QED BY <1>2, <1>3, <1>4, <1>5, <1>6, <1>7, WriteCases DEF IsPresent, IsArchived

\* A client is archived only with a project, which stays its project.
LEMMA StepHistory ==
    ASSUME ControlInv, ArchivedHasHistory, [Next]_vars
    PROVE  ArchivedHasHistory'
<1> SUFFICES ASSUME NEW c \in ClientId, IsArchived(clients', c)
             PROVE  ProjectsOf(projects', c) # {}
  BY DEF ArchivedHasHistory
<1>1. PICK p \in ProjectId : projects[p].owner = c
  BY ClientOrigin DEF ArchivedHasHistory, ProjectsOf
<1>2. projects[p] # NoProject
  BY <1>1 DEF NoProject, ClientId
<1>3. projects'[p].owner = c
  BY <1>1, <1>2, ProjectsNeverGo DEF ProjectsStay
<1>4. QED BY <1>3 DEF ProjectsOf

\* Every transaction that changes a row named by the log writes its entry.
LEMMA StepAudit ==
    ASSUME ControlInv, AuditTrail, [Next]_vars
    PROVE  AuditTrail'
<1>1. activity \subseteq activity'
  <2>1. CASE QuietStep
    BY <2>1 DEF QuietStep, dbVars
  <2>2. ASSUME NEW s \in Handlers,
               \/ InsertClient(s) \/ InsertUser(s) \/ UpdateClient(s) \/ ArchiveClient(s)
               \/ DeleteClient(s) \/ InsertProject(s) \/ WriteProjectStatus(s)
               \/ InsertMeeting(s) \/ InsertReminder(s) \/ InsertInquiry(s)
        PROVE  activity \subseteq activity'
    BY <2>2 DEF InsertClient, InsertUser, UpdateClient, ArchiveClient, DeleteClient,
       InsertProject, WriteProjectStatus, InsertMeeting, InsertReminder, InsertInquiry
  <2>3. QED BY <2>1, <2>2, WriteCases
<1>2. ASSUME NEW c \in ClientId
      PROVE  /\ IsPresent(clients', c) => <<"create_client", c>> \in activity'
             /\ IsArchived(clients', c) => <<"archive_client", c>> \in activity'
  BY <1>1, ClientOrigin DEF AuditTrail
<1>3. ASSUME NEW p \in ProjectId
      PROVE  \/ projects'[p] = projects[p]
             \/ /\ <<"create_project", p>> \in activity'
                /\ projects'[p].status = "Active"
             \/ /\ projects[p] # NoProject
                /\ <<"update_project_status", p>> \in activity'
  <2>1. projects \in [ProjectId -> ProjectRow]
    BY DEF ControlInv, TypeOK, TablesOK
  <2>2. CASE QuietStep
    BY <2>2 DEF QuietStep, dbVars
  <2>3. ASSUME NEW s \in Handlers,
               \/ InsertClient(s) \/ InsertUser(s) \/ UpdateClient(s) \/ ArchiveClient(s)
               \/ DeleteClient(s) \/ InsertMeeting(s) \/ InsertReminder(s)
               \/ InsertInquiry(s)
        PROVE  UNCHANGED projects
    BY <2>3 DEF InsertClient, InsertUser, UpdateClient, ArchiveClient, DeleteClient,
       InsertMeeting, InsertReminder, InsertInquiry
  <2>4. ASSUME NEW s \in Handlers, InsertProject(s)
        PROVE  \/ projects'[p] = projects[p]
               \/ /\ <<"create_project", p>> \in activity'
                  /\ projects'[p].status = "Active"
    BY <2>1, <2>4 DEF InsertProject
  <2>5. ASSUME NEW s \in Handlers, WriteProjectStatus(s)
        PROVE  \/ projects'[p] = projects[p]
               \/ /\ projects[p] # NoProject
                  /\ <<"update_project_status", p>> \in activity'
    BY <2>1, <2>5, HandlerFacts DEF WriteProjectStatus
  <2>6. QED BY <2>2, <2>3, <2>4, <2>5, WriteCases
<1>4. ASSUME NEW p \in ProjectId
      PROVE  /\ projects'[p] # NoProject => <<"create_project", p>> \in activity'
             /\ projects'[p].status \in {"OnHold", "Completed"} =>
                    <<"update_project_status", p>> \in activity'
  BY <1>1, <1>3 DEF AuditTrail
<1>5. QED BY <1>2, <1>4 DEF AuditTrail


\* The steps at which a handler holds a client it has not given an account yet.
ProvisioningSteps == {"probeUsername", "insertUser"}

\* Only create_client's INSERT brings a handler to these steps.
LEMMA ProvisioningOrigin ==
    ASSUME ControlInv, [Next]_vars, NEW t \in Handlers, pc'[t] \in ProvisioningSteps
    PROVE  \/ pc[t] \in ProvisioningSteps /\ frame'[t].client = frame[t].client
           \/ InsertClient(t)
<1>1. /\ pc \in [Handlers -> Finished \cup ReadSteps \cup WriteSteps]
      /\ frame \in [Handlers -> Frames]
  BY DEF ControlInv, TypeOK, TablesOK, HandlersOK
<1> USE DEF ProvisioningSteps
<1>2. CASE UNCHANGED vars
  BY <1>2 DEF vars
<1>3. CASE Crash
  BY <1>3 DEF Crash
<1>4. ASSUME NEW s \in Handlers, NEW o \in Finished, Finish(s, o)
      PROVE  pc[t] \in ProvisioningSteps /\ frame'[t].client = frame[t].client
  BY <1>1, <1>4 DEF Finish, Finished
<1>5. ASSUME NEW s \in Handlers,
             NEW step \in (ReadSteps \cup WriteSteps) \ ProvisioningSteps, NEW f,
             Goto(s, step), frame' = [frame EXCEPT ![s] = f]
      PROVE  pc[t] \in ProvisioningSteps /\ frame'[t].client = frame[t].client
  BY <1>1, <1>5 DEF Goto
<1>6. ASSUME NEW s \in Handlers, NewRequest(s)
      PROVE  pc[t] \in ProvisioningSteps /\ frame'[t].client = frame[t].client
  <2>1. CASE RequestRefused(s)
    BY <1>4, <2>1 DEF RequestRefused, Finished
  <2>2. ASSUME NEW f, NEW step \in {"checkPhone", "getClient", "insertInquiry"},
               Request(s, f, step)
        PROVE  pc[t] \in ProvisioningSteps /\ frame'[t].client = frame[t].client
    BY <1>5, <2>2 DEF Request, ReadSteps, WriteSteps
  <2>3. QED
    BY <1>6, <2>1, <2>2 DEF NewRequest, RequestCreate, RequestUpdate, RequestDelete,
       RequestLink, RequestStatus, RequestMeeting, RequestReminder, RequestInquiry
<1>7. ASSUME NEW s \in Handlers, GetClient(s)
      PROVE  pc[t] \in ProvisioningSteps /\ frame'[t].client = frame[t].client
  <2>1. CASE Finish(s, "refused")
    BY <1>4, <2>1 DEF Finished
  <2>2. CASE Goto(s, AfterGetClient[frame[s].op])
    <3>1. frame[s] \in Frames /\ pc[s] \in StepsOf[frame[s].op] /\ pc[s] = "getClient"
      BY <1>1, <1>7 DEF GetClient, ControlInv, FrameOK
    <3>2. frame[s].op \in {"update", "delete", "link", "status", "meeting", "remind"}
      BY <3>1 DEF StepsOf, Frames, Operations, Finished
    <3>3. AfterGetClient[frame[s].op] \notin ProvisioningSteps
      BY <3>2 DEF AfterGetClient
    <3>4. s # t
      BY <1>1, <2>2, <3>3 DEF Goto
    <3>5. pc'[t] = pc[t] /\ frame'[t] = frame[t]
      BY <1>1, <1>7, <3>4 DEF GetClient, Goto, Finish
    <3>6. QED BY <3>5
  <2>3. QED BY <1>7, <2>1, <2>2 DEF GetClient
<1>8. ASSUME NEW s \in Handlers,
             CheckPhone(s) \/ CheckEmail(s) \/ CountProjects(s) \/ GetProject(s)
      PROVE  pc[t] \in ProvisioningSteps /\ frame'[t].client = frame[t].client
  <2>1. frame = [frame EXCEPT ![s] = frame[s]]
    BY <1>1
  <2>2. CASE Finish(s, "refused")
    BY <1>4, <2>2 DEF Finished
  <2>3. CASE UNCHANGED frame
    BY <1>5, <1>8, <2>1, <2>2, <2>3 DEF CheckPhone, CheckEmail, CountProjects, GetProject,
       ReadSteps, WriteSteps
  <2>4. QED
    BY <1>8, <2>2, <2>3 DEF CheckPhone, CheckEmail, CountProjects, GetProject
<1>9. ASSUME NEW s \in Handlers, ProbeUsername(s)
      PROVE  pc[t] \in ProvisioningSteps /\ frame'[t].client = frame[t].client
  <2>1. frame'[t].client = frame[t].client
    BY <1>1, <1>9 DEF ProbeUsername, Goto, Frames
  <2>2. pc[t] \in ProvisioningSteps
    BY <1>1, <1>9 DEF ProbeUsername, Goto
  <2>3. QED BY <2>1, <2>2
<1>10. ASSUME NEW s \in Handlers, InsertClient(s), s # t
       PROVE  pc[t] \in ProvisioningSteps /\ frame'[t].client = frame[t].client
  BY <1>1, <1>10 DEF InsertClient, Goto
<1>11. ASSUME NEW s \in Handlers,
              \/ InsertUser(s) \/ UpdateClient(s) \/ ArchiveClient(s) \/ DeleteClient(s)
              \/ InsertProject(s) \/ WriteProjectStatus(s) \/ InsertMeeting(s)
              \/ InsertReminder(s) \/ InsertInquiry(s) \/ LockTimeout(s)
       PROVE  pc[t] \in ProvisioningSteps /\ frame'[t].client = frame[t].client
  <2>1. PICK o \in Finished : Finish(s, o)
    BY <1>11 DEF InsertUser, UpdateClient, ArchiveClient, DeleteClient, InsertProject,
       WriteProjectStatus, InsertMeeting, InsertReminder, InsertInquiry, LockTimeout, Finished
  <2>2. QED BY <1>4, <2>1
<1>12. QED
  BY <1>2, <1>3, <1>6, <1>7, <1>8, <1>9, <1>10, <1>11 DEF Next, Advance

\* The counter of the Clients table never runs backwards, and a handler that has
\* to provision an account stands at a step of create_client.
LEMMA ProvisioningFacts ==
    ASSUME ControlInv, [Next]_vars
    PROVE  /\ clientSeq \in Nat /\ clientSeq' \in Nat /\ clientSeq <= clientSeq'
           /\ \A t \in Handlers : pc[t] \in ProvisioningSteps => frame[t].client \in ClientId
<1>1. clientSeq \in Nat
  BY RecordsAssumption DEF ControlInv, TypeOK, TablesOK
<1>2. clientSeq' = clientSeq \/ clientSeq' = clientSeq + 1
  <2>1. CASE QuietStep
    BY <2>1 DEF QuietStep, dbVars
  <2>2. ASSUME NEW s \in Handlers,
               \/ InsertClient(s) \/ InsertUser(s) \/ UpdateClient(s) \/ ArchiveClient(s)
               \/ DeleteClient(s) \/ InsertProject(s) \/ WriteProjectStatus(s)
               \/ InsertMeeting(s) \/ InsertReminder(s) \/ InsertInquiry(s)
        PROVE  clientSeq' = clientSeq \/ clientSeq' = clientSeq + 1
    BY <2>2 DEF InsertClient, NextClientId, InsertUser, UpdateClient, ArchiveClient,
       DeleteClient, InsertProject, WriteProjectStatus, InsertMeeting, InsertReminder,
       InsertInquiry
  <2>3. QED BY <2>1, <2>2, WriteCases
<1>3. \A t \in Handlers : pc[t] \in ProvisioningSteps => frame[t].client \in ClientId
  BY DEF ControlInv, FrameOK, ProvisioningSteps
<1>4. QED BY <1>1, <1>2, <1>3

\* A handler that provisions an account is the only one to do so for its client.
LEMMA StepProvisioning ==
    ASSUME ControlInv, ReferentialIntegrity, ProvisioningOK, [Next]_vars
    PROVE  ProvisioningOK'
<1> DEFINE Before == {t \in Handlers : pc[t] \in ProvisioningSteps}
           After  == {t \in Handlers : pc'[t] \in ProvisioningSteps}
<1>1. /\ account \in [Usernames -> 0 .. MaxClients]
      /\ pc \in [Handlers -> Finished \cup ReadSteps \cup WriteSteps]
      /\ frame \in [Handlers -> Frames]
      /\ CountersOK
  BY DEF ControlInv, TypeOK, TablesOK, HandlersOK
<1>2. \A u \in Usernames : account[u] <= clientSeq
  BY <1>1, ProvisioningFacts, RecordsAssumption
     DEF ReferentialIntegrity, CountersOK, ClientId
<1>3. ASSUME NEW t \in After
      PROVE  \/ t \in Before /\ frame'[t].client = frame[t].client
             \/ /\ InsertClient(t) /\ frame'[t].client = clientSeq + 1
                /\ clientSeq' = clientSeq + 1 /\ UNCHANGED account
                /\ \A s \in Handlers \ {t} : pc'[s] = pc[s] /\ frame'[s] = frame[s]
  <2>1. CASE InsertClient(t)
    <3>1. frame[t] \in Frames /\ t \in Handlers
      BY <1>1
    <3>2. frame'[t].client = clientSeq + 1
      BY <1>1, <2>1, <3>1 DEF InsertClient, NextClientId, Frames
    <3>3. QED BY <1>1, <2>1, <3>2 DEF InsertClient, NextClientId, Goto
  <2>2. QED BY <2>1, ProvisioningOrigin
<1>4. \A t \in Before : /\ frame[t].client <= clientSeq /\ frame[t].client \in ClientId
                        /\ \A u \in Usernames : account[u] # frame[t].client
  BY ProvisioningFacts DEF ProvisioningOK, ProvisioningSteps
<1>5. \A s, t \in Before : frame[s].client = frame[t].client => s = t
  BY DEF ProvisioningOK, ProvisioningSteps
<1>6. ASSUME NEW t \in After, NEW u \in Usernames
      PROVE  frame'[t].client <= clientSeq' /\ account'[u] # frame'[t].client
  <2>1. CASE InsertClient(t) /\ frame'[t].client = clientSeq + 1
             /\ clientSeq' = clientSeq + 1 /\ UNCHANGED account
    BY <1>1, <1>2, <2>1, ProvisioningFacts, RecordsAssumption
  <2>2. CASE t \in Before /\ frame'[t].client = frame[t].client
    <3>1. frame'[t].client <= clientSeq'
      BY <1>4, <2>2, ProvisioningFacts DEF ClientId
    <3>2. CASE account'[u] = account[u]
      BY <1>4, <2>2, <3>1, <3>2
    <3>3. ASSUME NEW s \in Handlers, InsertUser(s), account'[u] = frame[s].client
          PROVE  account'[u] # frame'[t].client
      <4>1. s \in Before /\ pc'[s] \in Finished
        BY <1>1, <3>3 DEF InsertUser, Finish, Finished, ProvisioningSteps
      <4>2. s # t
        BY <4>1 DEF Finished, ProvisioningSteps
      <4>3. QED BY <1>5, <2>2, <3>3, <4>1, <4>2
    <3>4. CASE account'[u] = 0
      BY <1>4, <2>2, <3>1, <3>4 DEF ClientId
    <3>5. QED BY <3>1, <3>2, <3>3, <3>4, AccountOrigin
  <2>3. QED BY <1>3, <2>1, <2>2
<1>7. ASSUME NEW s \in After, NEW t \in After, frame'[s].client = frame'[t].client, s # t
      PROVE  FALSE
  <2>1. CASE s \in Before /\ frame'[s].client = frame[s].client
             /\ t \in Before /\ frame'[t].client = frame[t].client
    BY <1>5, <1>7, <2>1
  <2>2. ASSUME NEW a \in After, NEW b \in After, a # b, frame'[a].client = frame'[b].client,
               InsertClient(a), frame'[a].client = clientSeq + 1,
               \A r \in Handlers \ {a} : pc'[r] = pc[r] /\ frame'[r] = frame[r]
        PROVE  FALSE
    <3>1. b \in Before /\ frame'[b].client = frame[b].client
      BY <2>2
    <3>2. frame[b].client <= clientSeq /\ frame[b].client = clientSeq + 1
      BY <1>4, <2>2, <3>1
    <3>3. QED BY <3>2, ProvisioningFacts
  <2> HIDE DEF Before, After
  <2>3. ~InsertClient(s) \/ (s \in Before /\ frame'[s].client = frame[s].client)
    BY <1>3, <1>7, <2>2
  <2>4. ~InsertClient(t) \/ (t \in Before /\ frame'[t].client = frame[t].client)
    BY <1>3, <1>7, <2>2
  <2>5. QED BY <1>3, <2>1, <2>3, <2>4
<1>8. ASSUME NEW t \in After PROVE frame'[t].client <= clientSeq'
  BY <1>3, <1>4, <1>8, ProvisioningFacts DEF ClientId
<1>9. QED BY <1>6, <1>7, <1>8 DEF ProvisioningOK, ProvisioningSteps

\* No second account is made for a client.
LEMMA StepOneAccount ==
    ASSUME ControlInv, ProvisioningOK, OneAccountPerClient, [Next]_vars
    PROVE  OneAccountPerClient'
<1>1. ASSUME NEW u \in Usernames, NEW v \in Usernames, u # v, account'[u] = account'[v],
             account'[u] # 0, account'[u] # account[u]
      PROVE  FALSE
  <2>1. PICK s \in Handlers :
               /\ InsertUser(s) /\ account'[u] = frame[s].client
               /\ account'[v] = account[v]
    BY <1>1, AccountOrigin
  <2>2. account[v] # frame[s].client
    BY <2>1 DEF ProvisioningOK, InsertUser
  <2>3. QED BY <1>1, <2>1, <2>2
<1>2. ASSUME NEW u \in Usernames, NEW v \in Usernames, account'[u] = account'[v],
             account'[u] # 0
      PROVE  u = v
  <2>1. CASE account'[u] = account[u] /\ account'[v] = account[v]
    BY <1>2, <2>1 DEF OneAccountPerClient
  <2>2. QED BY <1>1, <1>2, <2>1
<1>3. QED BY <1>2 DEF OneAccountPerClient

\* The empty database has nothing to lose.
LEMMA InitFile == Init => FileInv
<1> SUFFICES ASSUME Init PROVE FileInv
  OBVIOUS
<1>1. ReferentialIntegrity /\ ArchivedHasHistory /\ AuditTrail
  BY DEF Init, ReferentialIntegrity, ArchivedHasHistory, AuditTrail, IsPresent, IsArchived,
     NoClient, NoProject
<1>2. ProvisioningOK /\ OneAccountPerClient
  BY DEF Init, ProvisioningOK, OneAccountPerClient
<1>3. QED BY <1>1, <1>2, InitControl DEF FileInv

\* Every step preserves the invariant, part by part.
LEMMA StepFile == FileInv /\ [Next]_vars => FileInv'
  BY StepControl, StepReferences, StepHistory, StepAudit, StepProvisioning, StepOneAccount
     DEF FileInv

\* The invariant holds throughout.
LEMMA FileInvariance == Spec => []FileInv
  BY InitFile, StepFile, PTL DEF Spec

\* No row of Projects, Users, Inquiries, Reminders or Meetings refers to a row
\* that is gone, for any number of handlers that delete, link, inquire and remind
\* at the same time.
THEOREM ReferencesHold == Spec => []ReferentialIntegrity
<1>1. FileInv => ReferentialIntegrity
  BY DEF FileInv
<1>2. QED BY <1>1, FileInvariance, PTL

\* delete_client's project count may be stale when archive_client runs, yet an
\* archived client always has a project.
THEOREM ArchivedClientsHaveHistory == Spec => []ArchivedHasHistory
<1>1. FileInv => ArchivedHasHistory
  BY DEF FileInv
<1>2. QED BY <1>1, FileInvariance, PTL

\* Every client and project, every archived client and every project on hold or
\* completed has its entry in the activity log.
THEOREM AuditTrailComplete == Spec => []AuditTrail
<1>1. FileInv => AuditTrail
  BY DEF FileInv
<1>2. QED BY <1>1, FileInvariance, PTL

\* No client ever gets two login accounts.
THEOREM AtMostOneAccount == Spec => []OneAccountPerClient
<1>1. FileInv => OneAccountPerClient
  BY DEF FileInv
<1>2. QED BY <1>1, FileInvariance, PTL

\* An account goes only in the transaction that deletes its client.
THEOREM AccountsGoWithClients == Spec => AccountGoesWithClient
<1>1. ASSUME FileInv, [Next]_vars, NEW u \in Usernames, account[u] # 0,
             account'[u] # account[u]
      PROVE  ~IsPresent(clients', account[u])
  BY <1>1, AccountOrigin DEF FileInv
<1>2. FileInv /\ [Next]_vars =>
        [\A u \in Usernames :
           (account[u] # 0 /\ account'[u] # account[u]) => ~IsPresent(clients', account[u])]_vars
  BY <1>1
<1>3. QED BY <1>2, FileInvariance, PTL DEF Spec, AccountGoesWithClient

\* A client with a project is never deleted, and a project never changes hands.
THEOREM HistoryIsKept == Spec => HistoryKept
<1>1. ASSUME FileInv, [Next]_vars, NEW p \in ProjectId, projects[p] # NoProject
      PROVE  projects'[p].owner = projects[p].owner /\ IsPresent(clients', projects[p].owner)
  BY <1>1, StepReferences, ProjectsNeverGo DEF FileInv, ProjectsStay, ReferentialIntegrity
<1>2. FileInv /\ [Next]_vars =>
        [\A p \in ProjectId : projects[p] # NoProject =>
            /\ projects'[p].owner = projects[p].owner
            /\ IsPresent(clients', projects[p].owner)]_vars
  BY <1>1
<1>3. QED BY <1>2, FileInvariance, PTL DEF Spec, HistoryKept

\* A row that appears is the row of a creation, under the next id: no write to a
\* missing row makes one.
LEMMA NewClientOrigin ==
    ASSUME ControlInv, [Next]_vars, NEW c \in ClientId, ~IsPresent(clients, c),
           IsPresent(clients', c)
    PROVE  \E s \in Handlers : InsertClient(s) /\ c = clientSeq + 1
<1>1. clients \in [ClientId -> ClientRow]
  BY DEF ControlInv, TypeOK, TablesOK
<1>2. CASE QuietStep
  BY <1>2 DEF QuietStep, dbVars
<1>3. ASSUME NEW s \in Handlers,
             \/ InsertUser(s) \/ InsertProject(s) \/ WriteProjectStatus(s)
             \/ InsertMeeting(s) \/ InsertReminder(s) \/ InsertInquiry(s)
      PROVE  FALSE
  BY <1>3 DEF InsertUser, InsertProject, WriteProjectStatus, InsertMeeting,
     InsertReminder, InsertInquiry
<1>4. ASSUME NEW s \in Handlers, InsertClient(s) PROVE c = clientSeq + 1
  BY <1>1, <1>4 DEF InsertClient, NextClientId, IsPresent
<1>5. ASSUME NEW s \in Handlers, UpdateClient(s) \/ ArchiveClient(s) PROVE FALSE
  BY <1>1, <1>5 DEF UpdateClient, ArchiveClient, UpdateRow, IsPresent
<1>6. ASSUME NEW s \in Handlers, DeleteClient(s) PROVE FALSE
  BY <1>1, <1>6 DEF DeleteClient, IsPresent, NoClient
<1>7. QED BY <1>2, <1>3, <1>4, <1>5, <1>6, WriteCases

\* A row that is gone never comes back.
LEMMA RowsStayGone ==
    ASSUME FileInv, [Next]_vars, NEW c \in ClientId, c <= clientSeq,
           ~IsPresent(clients, c), IsPresent(clients', c)
    PROVE  FALSE
<1>1. ControlInv /\ clientSeq \in Nat
  BY RecordsAssumption DEF FileInv, ControlInv, TypeOK, TablesOK
<1>2. c = clientSeq + 1
  BY <1>1, NewClientOrigin
<1>3. QED BY <1>1, <1>2

\* No late update or archive brings a deleted client back, and AUTOINCREMENT
\* never gives its id to another one.
THEOREM DeletionIsFinal == Spec => DeletedStaysDeleted
<1>1. FileInv /\ [Next]_vars =>
        [\A c \in ClientId :
           (c <= clientSeq /\ ~IsPresent(clients, c)) => ~IsPresent(clients', c)]_vars
  BY RowsStayGone
<1>2. QED BY <1>1, FileInvariance, PTL DEF Spec, DeletedStaysDeleted
--------------------------------------------------------------------------------
(* How many clients can share a phone or an e-mail.  The duplicate check and    *)
(* the write are two calls; between them lies at most one claim per handler.   *)

\* Set T is no larger than set W: its members fit into W, one each.
Fits(T, W) == \E f \in [T -> W] : \A x, y \in T : f[x] = f[y] => x = y

\* Fewer members fit into more room.
LEMMA FitsLess ==
    ASSUME NEW T, NEW W, Fits(T, W), NEW T1, NEW W1, T1 \subseteq T, W \subseteq W1
    PROVE  Fits(T1, W1)
<1>1. PICK f \in [T -> W] : \A x, y \in T : f[x] = f[y] => x = y
  BY DEF Fits
<1> DEFINE g == [x \in T1 |-> f[x]]
<1>2. g \in [T1 -> W1] /\ \A x, y \in T1 : g[x] = g[y] => x = y
  BY <1>1
<1>3. QED BY <1>2 DEF Fits

\* A new place makes room for a new member.
LEMMA FitsOneMore ==
    ASSUME NEW T, NEW W, Fits(T, W), NEW x, NEW w, w \notin W
    PROVE  Fits(T \cup {x}, W \cup {w})
<1>1. PICK f \in [T -> W] : \A y, z \in T : f[y] = f[z] => y = z
  BY DEF Fits
<1> DEFINE g == [y \in T \cup {x} |-> IF y \in T THEN f[y] ELSE w]
<1>2. g \in [T \cup {x} -> W \cup {w}]
  BY <1>1
<1>3. \A y, z \in T \cup {x} : g[y] = g[z] => y = z
  BY <1>1
<1>4. QED BY <1>2, <1>3 DEF Fits

\* The values of a function fit into its arguments.
LEMMA FitsValues ==
    ASSUME NEW g, NEW U
    PROVE  Fits({g[s] : s \in U}, U)
<1> DEFINE T == {g[s] : s \in U}
           f == [x \in T |-> CHOOSE s \in U : g[s] = x]
<1>1. \A x \in T : f[x] \in U /\ g[f[x]] = x
  OBVIOUS
<1>2. f \in [T -> U] /\ \A x, y \in T : f[x] = f[y] => x = y
  BY <1>1
<1>3. QED BY <1>2 DEF Fits

\* What fits is no larger.
LEMMA FitsCardinality ==
    ASSUME NEW T, NEW W, Fits(T, W), IsFiniteSet(W)
    PROVE  Cardinality(T) <= Cardinality(W)
<1>1. PICK f \in [T -> W] : \A x, y \in T : f[x] = f[y] => x = y
  BY DEF Fits
<1>2. f \in Injection(T, W)
  BY <1>1 DEF Injection, IsInjective
<1>3. QED BY <1>2, FS_Injection

\* Ids have a least one.
LEMMA LeastClient ==
    ASSUME NEW H, H \subseteq ClientId, H # {}
    PROVE  \E first \in H : \A c \in H : first <= c
<1> DEFINE R == {ss \in Nat \X Nat : ss[1] < ss[2]}
<1>1. IsWellFoundedOn(R, Nat)
  BY NatLessThanWellFounded DEF OpToRel
<1>2. H \subseteq Nat
  BY RecordsAssumption DEF ClientId
<1>3. PICK x \in H : \A y \in H : ~(<<y, x>> \in R)
  BY <1>1, <1>2, WFMin
<1>4. \A y \in H : ~(y < x)
  BY <1>2, <1>3
<1>5. QED BY <1>2, <1>4

\* A step that is no crash belongs to one handler and leaves the others alone.
LEMMA OneMoves ==
    ASSUME ControlInv, [Next]_vars
    PROVE  \/ UNCHANGED vars
           \/ Crash
           \/ \E s \in Handlers :
                /\ NewRequest(s) \/ Advance(s) \/ LockTimeout(s)
                /\ \A t \in Handlers \ {s} : pc'[t] = pc[t] /\ frame'[t] = frame[t]
<1>1. /\ pc \in [Handlers -> Finished \cup ReadSteps \cup WriteSteps]
      /\ frame \in [Handlers -> Frames]
  BY DEF ControlInv, TypeOK, HandlersOK
<1> DEFINE Alone(s) == \A t \in Handlers \ {s} : pc'[t] = pc[t] /\ frame'[t] = frame[t]
<1>2. ASSUME NEW s \in Handlers, NewRequest(s) PROVE Alone(s)
  BY <1>1, <1>2 DEF NewRequest, Request, RequestRefused, RequestCreate, RequestUpdate,
     RequestDelete, RequestLink, RequestStatus, RequestMeeting, RequestReminder,
     RequestInquiry, Goto, Finish
<1>3. ASSUME NEW s \in Handlers,
             \/ GetClient(s) \/ CheckPhone(s) \/ CheckEmail(s) \/ ProbeUsername(s)
             \/ CountProjects(s) \/ GetProject(s) \/ InsertClient(s)
      PROVE  Alone(s)
  BY <1>1, <1>3 DEF GetClient, CheckPhone, CheckEmail, ProbeUsername, CountProjects,
     GetProject, InsertClient, Goto, Finish
<1>4. ASSUME NEW s \in Handlers,
             \/ InsertUser(s) \/ UpdateClient(s) \/ ArchiveClient(s) \/ DeleteClient(s)
             \/ InsertProject(s) \/ WriteProjectStatus(s) \/ InsertMeeting(s)
             \/ InsertReminder(s) \/ InsertInquiry(s) \/ LockTimeout(s)
      PROVE  Alone(s)
  BY <1>1, <1>4 DEF InsertUser, UpdateClient, ArchiveClient, DeleteClient, InsertProject,
     WriteProjectStatus, InsertMeeting, InsertReminder, InsertInquiry, LockTimeout, Finish
<1>5. QED BY <1>2, <1>3, <1>4 DEF Next, Advance

\* What a handler does is what its user may do: the permission is checked before
\* the first call and the operation does not change on the way.
Permitted ==
    \A s \in Handlers :
        frame[s].op # "none" => HasPermission(RoleOf[s], PermissionFor[frame[s].op])

\* The operation of a handler after its step.
LEMMA OperationOrigin ==
    ASSUME ControlInv, NEW s \in Handlers, NewRequest(s) \/ Advance(s) \/ LockTimeout(s)
    PROVE  \/ frame'[s].op \in {"none", frame[s].op}
           \/ HasPermission(RoleOf[s], PermissionFor[frame'[s].op])
<1>1. frame \in [Handlers -> Frames] /\ frame[s] \in Frames
  BY DEF ControlInv, TypeOK, HandlersOK
<1>2. ASSUME NEW o, Finish(s, o) PROVE frame'[s].op = "none"
  BY <1>1, <1>2 DEF Finish, NoFrame, Frame
<1>3. ASSUME NEW f, NEW step, Request(s, f, step)
      PROVE  HasPermission(RoleOf[s], PermissionFor[frame'[s].op])
  <2>1. frame'[s] = f
    BY <1>1, <1>3 DEF Request
  <2>2. QED BY <1>3, <2>1 DEF Request
<1>4. CASE NewRequest(s)
  BY <1>2, <1>3, <1>4 DEF NewRequest, RequestRefused, RequestCreate, RequestUpdate,
     RequestDelete, RequestLink, RequestStatus, RequestMeeting, RequestReminder,
     RequestInquiry
<1>5. CASE \/ CheckPhone(s) \/ CheckEmail(s) \/ CountProjects(s) \/ GetProject(s)
  BY <1>2, <1>5 DEF CheckPhone, CheckEmail, CountProjects, GetProject
<1>6. CASE GetClient(s)
  BY <1>1, <1>2, <1>6 DEF GetClient, RememberRead, Frames
<1>7. CASE ProbeUsername(s) \/ InsertClient(s)
  BY <1>1, <1>7 DEF ProbeUsername, InsertClient, Frames
<1>8. CASE \/ InsertUser(s) \/ UpdateClient(s) \/ ArchiveClient(s) \/ DeleteClient(s)
           \/ InsertProject(s) \/ WriteProjectStatus(s) \/ InsertMeeting(s)
           \/ InsertReminder(s) \/ InsertInquiry(s) \/ LockTimeout(s)
  BY <1>2, <1>8 DEF InsertUser, UpdateClient, ArchiveClient, DeleteClient, InsertProject,
     WriteProjectStatus, InsertMeeting, InsertReminder, InsertInquiry, LockTimeout
<1>9. QED BY <1>4, <1>5, <1>6, <1>7, <1>8 DEF Advance

\* No step lets a user do what its role may not.
LEMMA StepPermitted ==
    ASSUME ControlInv, Permitted, [Next]_vars
    PROVE  Permitted'
<1> SUFFICES ASSUME NEW t \in Handlers, frame'[t].op # "none"
             PROVE  HasPermission(RoleOf[t], PermissionFor[frame'[t].op])
  BY DEF Permitted
<1>1. CASE UNCHANGED vars
  BY <1>1 DEF vars, Permitted
<1>2. CASE Crash
  BY <1>2 DEF Crash, NoFrame, Frame
<1>3. ASSUME NEW s \in Handlers, NewRequest(s) \/ Advance(s) \/ LockTimeout(s),
             \A u \in Handlers \ {s} : pc'[u] = pc[u] /\ frame'[u] = frame[u]
      PROVE  HasPermission(RoleOf[t], PermissionFor[frame'[t].op])
  <2>1. CASE t # s
    BY <1>3, <2>1 DEF Permitted
  <2>2. CASE t = s
    BY <1>3, <2>2, OperationOrigin DEF Permitted
  <2>3. QED BY <2>1, <2>2
<1>4. QED BY <1>1, <1>2, <1>3, OneMoves

\* The two details that must not be shared, and where rows and handlers keep them.
Kinds == {"phone", "email"}

Detail(k, r) == IF k = "phone" THEN r.phone ELSE r.email

Holders(k, d) == {c \in ClientId : Detail(k, clients[c]) = d}

\* The steps a handler takes once its details of kind k have passed the check.
Passed(k) == {"insertClient", "updateClient"} \cup IF k = "phone" THEN {"checkEmail"} ELSE {}

\* Handlers of operation op whose detail d has passed the check and is not written.
Checked(k, d, op) ==
    {s \in Handlers : pc[s] \in Passed(k) /\ frame[s].op = op /\ Detail(k, frame[s]) = d}

\* The clients that have detail d, or get it from an update that is under way.
Claims(k, d) == Holders(k, d) \cup {frame[s].client : s \in Checked(k, d, "update")}

\* Every client that has a detail or is about to has an office handler of its own,
\* not counting those that are about to create one more.
SharingInv ==
    \A k \in Kinds, d \in Phones \cup Emails :
        Fits(Claims(k, d), OfficeHandlers \ Checked(k, d, "create"))

\* Where a handler whose detail has passed the check stood before.
LEMMA CheckedOrigin ==
    ASSUME ControlInv, [Next]_vars, NEW k \in Kinds, NEW s \in Handlers,
           pc'[s] \in Passed(k)
    PROVE  \/ pc[s] \in Passed(k) /\ frame'[s] = frame[s]
           \/ /\ UNCHANGED <<clients, frame>>
              /\ ~TakenByOther(Holders(k, Detail(k, frame[s])), frame[s].client)
              /\ \A t \in Handlers \ {s} : pc'[t] = pc[t]
<1>1. /\ pc \in [Handlers -> Finished \cup ReadSteps \cup WriteSteps]
      /\ frame \in [Handlers -> Frames] /\ frame[s] \in Frames
      /\ FrameOK(s)
  BY DEF ControlInv, TypeOK, HandlersOK
<1>2. pc'[s] \in {"checkEmail", "insertClient", "updateClient"}
  BY DEF Passed
<1>3. CASE UNCHANGED vars
  BY <1>3 DEF vars
<1>4. CASE Crash
  BY <1>2, <1>4 DEF Crash
<1>5. ASSUME NEW t \in Handlers, t # s,
             \A u \in Handlers \ {t} : pc'[u] = pc[u] /\ frame'[u] = frame[u]
      PROVE  pc[s] \in Passed(k) /\ frame'[s] = frame[s]
  BY <1>5
<1>6. ASSUME NEW o \in Finished, Finish(s, o) PROVE FALSE
  BY <1>1, <1>2, <1>6 DEF Finish, Finished
<1>7. CASE NewRequest(s)
  <2>1. ASSUME NEW f, NEW step \in {"checkPhone", "getClient", "insertInquiry"},
               Request(s, f, step)
        PROVE  FALSE
    BY <1>1, <1>2, <2>1 DEF Request, Goto
  <2>2. QED
    BY <1>6, <1>7, <2>1 DEF NewRequest, RequestRefused, RequestCreate, RequestUpdate,
       RequestDelete, RequestLink, RequestStatus, RequestMeeting, RequestReminder,
       RequestInquiry, Finished
<1>8. CASE CheckPhone(s)
  <2>1. /\ ~TakenByOther(PhoneHolders(clients, frame[s].phone), frame[s].client)
        /\ pc' = [pc EXCEPT ![s] = "checkEmail"] /\ UNCHANGED <<clients, frame>>
    BY <1>6, <1>8 DEF CheckPhone, Goto, Finished, dbVars
  <2>2. k = "phone"
    BY <1>1, <2>1 DEF Kinds, Passed
  <2>3. QED BY <1>1, <2>1, <2>2 DEF Holders, Detail, PhoneHolders
<1>9. CASE CheckEmail(s)
  <2>1. /\ ~TakenByOther(EmailHolders(clients, frame[s].email), frame[s].client)
        /\ \E step : pc' = [pc EXCEPT ![s] = step]
        /\ UNCHANGED <<clients, frame>> /\ pc[s] = "checkEmail"
    BY <1>6, <1>9 DEF CheckEmail, Goto, Finished, dbVars
  <2>2. CASE k = "phone"
    BY <2>1, <2>2 DEF Passed
  <2>3. CASE k = "email"
    BY <1>1, <2>1, <2>3 DEF Holders, Detail, EmailHolders
  <2>4. QED BY <2>2, <2>3 DEF Kinds
<1>10. CASE GetClient(s)
  <2>1. frame[s].op \in {"update", "delete", "link", "status", "meeting", "remind"}
    BY <1>1, <1>10 DEF GetClient, FrameOK, StepsOf, Frames, Operations, Finished
  <2>2. AfterGetClient[frame[s].op] \notin {"checkEmail", "insertClient", "updateClient"}
    BY <2>1 DEF AfterGetClient
  <2>3. QED BY <1>1, <1>2, <1>6, <1>10, <2>2 DEF GetClient, Goto, Finished
<1>11. CASE ProbeUsername(s) \/ CountProjects(s) \/ GetProject(s) \/ InsertClient(s)
  BY <1>1, <1>2, <1>6, <1>11 DEF ProbeUsername, CountProjects, GetProject, InsertClient, Goto,
     Finished
<1>12. CASE \/ InsertUser(s) \/ UpdateClient(s) \/ ArchiveClient(s) \/ DeleteClient(s)
            \/ InsertProject(s) \/ WriteProjectStatus(s) \/ InsertMeeting(s)
            \/ InsertReminder(s) \/ InsertInquiry(s) \/ LockTimeout(s)
  BY <1>6, <1>12 DEF InsertUser, UpdateClient, ArchiveClient, DeleteClient, InsertProject,
     WriteProjectStatus, InsertMeeting, InsertReminder, InsertInquiry, LockTimeout, Finished
<1>13. QED
  BY <1>3, <1>4, <1>5, <1>7, <1>8, <1>9, <1>10, <1>11, <1>12, OneMoves DEF Advance

\* A client gets a detail only from a handler whose detail has passed the check.
LEMMA HolderOrigin ==
    ASSUME ControlInv, [Next]_vars, NEW k \in Kinds, NEW d \in Phones \cup Emails,
           NEW c \in Holders(k, d)', c \notin Claims(k, d)
    PROVE  \E s \in Checked(k, d, "create") :
                InsertClient(s) /\ c = clientSeq + 1
<1>1. /\ clients \in [ClientId -> ClientRow] /\ clientSeq \in Nat
      /\ frame \in [Handlers -> Frames]
      /\ c \in ClientId /\ Detail(k, clients'[c]) = d /\ Detail(k, clients[c]) # d
      /\ d # None
  BY RecordsAssumption DEF ControlInv, TypeOK, TablesOK, HandlersOK, Claims, Holders
<1>2. CASE QuietStep
  BY <1>1, <1>2 DEF QuietStep, dbVars
<1>3. ASSUME NEW s \in Handlers,
             \/ InsertUser(s) \/ InsertProject(s) \/ WriteProjectStatus(s)
             \/ InsertMeeting(s) \/ InsertReminder(s) \/ InsertInquiry(s)
      PROVE FALSE
  BY <1>1, <1>3 DEF InsertUser, InsertProject, WriteProjectStatus, InsertMeeting,
     InsertReminder, InsertInquiry
<1>4. ASSUME NEW s \in Handlers, DeleteClient(s) PROVE FALSE
  BY <1>1, <1>4 DEF DeleteClient, Detail, NoClient
<1>5. ASSUME NEW s \in Handlers, ArchiveClient(s) PROVE FALSE
  <2>1. clients'[c] \in {clients[c], [clients[c] EXCEPT !.status = "Archived"]}
    BY <1>1, <1>5 DEF ArchiveClient, UpdateRow
  <2>2. /\ clients[c] \in ClientRow
        /\ [clients[c] EXCEPT !.status = "Archived"].phone = clients[c].phone
        /\ [clients[c] EXCEPT !.status = "Archived"].email = clients[c].email
    BY <1>1 DEF ClientRow, NoClient
  <2>3. QED BY <1>1, <2>1, <2>2 DEF Detail
<1>6. ASSUME NEW s \in Handlers, UpdateClient(s) PROVE FALSE
  <2>1. frame[s].client = c /\ Detail(k, frame[s]) = d /\ pc[s] = "updateClient"
    BY <1>1, <1>6 DEF UpdateClient, UpdateRow, Detail
  <2>2. frame[s].op = "update"
    BY <1>1, <2>1 DEF ControlInv, FrameOK, StepsOf, Frames, Operations, Finished
  <2>3. QED BY <2>1, <2>2 DEF Claims, Checked, Passed
<1>7. ASSUME NEW s \in Handlers, InsertClient(s)
      PROVE  s \in Checked(k, d, "create") /\ c = clientSeq + 1
  <2>1. c = clientSeq + 1 /\ Detail(k, frame[s]) = d /\ pc[s] = "insertClient"
    BY <1>1, <1>7 DEF InsertClient, NextClientId, Detail
  <2>2. frame[s].op = "create"
    BY <1>1, <2>1 DEF ControlInv, FrameOK, StepsOf, Frames, Operations, Finished
  <2>3. QED BY <2>1, <2>2 DEF Checked, Passed
<1>8. QED BY <1>2, <1>3, <1>4, <1>5, <1>6, <1>7, WriteCases

\* Nobody has a detail when the office opens.
LEMMA InitSharing == Init => SharingInv
<1> SUFFICES ASSUME Init, NEW k \in Kinds, NEW d \in Phones \cup Emails
             PROVE  Fits(Claims(k, d), OfficeHandlers \ Checked(k, d, "create"))
  BY DEF SharingInv
<1>1. Holders(k, d) = {} /\ Checked(k, d, "update") = {}
  BY RecordsAssumption DEF Init, Holders, Detail, NoClient, Checked, Passed
<1>2. Claims(k, d) = {}
  BY <1>1 DEF Claims
<1>3. Fits({frame[s] : s \in {}}, {})
  BY FitsValues
<1>4. QED BY <1>2, <1>3, FitsLess

\* The handlers of Checked belong to the office.
LEMMA CheckedInOffice ==
    ASSUME Permitted, NEW k, NEW d, NEW op \in {"create", "update"}
    PROVE  Checked(k, d, op) \subseteq OfficeHandlers
  BY DEF Permitted, Checked, OfficeHandlers, PermissionFor

\* A check that passes finds no client with the detail, or the client itself: then
\* the claims are the updates under way, or what they were before.
LEMMA SharingPassed ==
    ASSUME ControlInv, ControlInv', Permitted', SharingInv,
           NEW k \in Kinds, NEW d \in Phones \cup Emails, NEW s \in Handlers,
           Detail(k, frame[s]) = d, pc'[s] \in Passed(k), UNCHANGED <<clients, frame>>,
           ~TakenByOther(Holders(k, d), frame[s].client),
           \A t \in Handlers \ {s} : pc'[t] = pc[t]
    PROVE  Fits(Claims(k, d)', OfficeHandlers \ Checked(k, d, "create")')
<1>1. /\ Holders(k, d)' = Holders(k, d) /\ Holders(k, d) \subseteq ClientId
      /\ \A op : Checked(k, d, op)' =
            {t \in Handlers : pc'[t] \in Passed(k) /\ frame[t].op = op /\ Detail(k, frame[t]) = d}
  BY DEF Holders, Checked
<1>2. CASE Holders(k, d) = {}
  <2> DEFINE U == Checked(k, d, "update")'
             g == [t \in U |-> frame'[t].client]
  <2>1. Claims(k, d)' = {g[t] : t \in U}
    BY <1>1, <1>2 DEF Claims
  <2>2. U \subseteq OfficeHandlers \ Checked(k, d, "create")'
    <3>1. U \subseteq {t \in Handlers : HasPermission(RoleOf[t], "ManageClients")}
      BY DEF Permitted, Checked, PermissionFor
    <3>2. U \cap Checked(k, d, "create")' = {}
      BY DEF Checked
    <3>3. QED BY <3>1, <3>2 DEF OfficeHandlers
  <2> HIDE DEF U, g
  <2>3. Fits(Claims(k, d)', U)
    BY <2>1, FitsValues
  <2>4. QED BY <2>2, <2>3, FitsLess
<1>3. CASE Holders(k, d) # {}
  <2>1. PICK first \in Holders(k, d) : \A c \in Holders(k, d) : first <= c
    BY <1>1, <1>3, LeastClient
  <2>2. frame[s].client \in Holders(k, d) /\ frame[s].client \in ClientId
    BY <1>1, <2>1 DEF TakenByOther
  <2>3. FrameOK(s)' /\ frame'[s] \in Frames /\ pc'[s] \in {"checkEmail", "insertClient", "updateClient"}
    BY DEF ControlInv, TypeOK, HandlersOK, Passed
  <2>4. frame'[s].op = "update"
    BY <2>2, <2>3 DEF FrameOK, StepsOf, Frames, Operations, Finished, ClientId
  <2>5. Checked(k, d, "create")' \subseteq Checked(k, d, "create")
    BY <1>1, <2>4 DEF Checked
  <2>6. \A t \in Checked(k, d, "update")' : t = s \/ t \in Checked(k, d, "update")
    BY <1>1 DEF Checked
  <2>7. Claims(k, d)' \subseteq Claims(k, d)
    BY <1>1, <2>2, <2>6 DEF Claims
  <2>8. Fits(Claims(k, d), OfficeHandlers \ Checked(k, d, "create"))
    BY DEF SharingInv
  <2>9. Fits(Claims(k, d)', OfficeHandlers \ Checked(k, d, "create")')
    BY <2>5, <2>7, <2>8, FitsLess
  <2>10. QED BY <2>9
<1>4. QED BY <1>2, <1>3

\* A creation turns its claim to come into a client; every other step gives up
\* claims or leaves them.
LEMMA StepSharing ==
    ASSUME ControlInv, Permitted, SharingInv, [Next]_vars
    PROVE  SharingInv'
<1> SUFFICES ASSUME NEW k \in Kinds, NEW d \in Phones \cup Emails
             PROVE  Fits(Claims(k, d)', OfficeHandlers \ Checked(k, d, "create")')
  BY DEF SharingInv, OfficeHandlers
<1> DEFINE Creators == Checked(k, d, "create")
           Room == OfficeHandlers \ Creators
<1>1. ControlInv' /\ Permitted' /\ Fits(Claims(k, d), Room)
  BY StepControl, StepPermitted DEF SharingInv
<1>2. ASSUME NEW s \in Handlers, pc'[s] \in Passed(k), Detail(k, frame'[s]) = d,
             UNCHANGED <<clients, frame>>,
             ~TakenByOther(Holders(k, Detail(k, frame[s])), frame[s].client),
             \A t \in Handlers \ {s} : pc'[t] = pc[t]
      PROVE  Fits(Claims(k, d)', OfficeHandlers \ Checked(k, d, "create")')
  <2>1. Detail(k, frame[s]) = d
    BY <1>2
  <2>2. QED BY <1>1, <1>2, <2>1, SharingPassed
<1>3. ASSUME \A s \in Handlers :
                pc'[s] \in Passed(k) /\ Detail(k, frame'[s]) = d =>
                    pc[s] \in Passed(k) /\ frame'[s] = frame[s]
      PROVE  Fits(Claims(k, d)', OfficeHandlers \ Checked(k, d, "create")')
  <2>1. /\ Checked(k, d, "create")' \subseteq Creators
        /\ {frame'[s].client : s \in Checked(k, d, "update")'} \subseteq Claims(k, d)
    BY <1>3 DEF Checked, Claims
  <2>2. CASE Holders(k, d)' \subseteq Claims(k, d)
    <3>1. Claims(k, d)' \subseteq Claims(k, d)
      BY <2>1, <2>2 DEF Claims
    <3>2. Room \subseteq OfficeHandlers \ Checked(k, d, "create")'
      BY <2>1
    <3> HIDE DEF Room
    <3>3. QED BY <1>1, <3>1, <3>2, FitsLess
  <2>3. ASSUME NEW c \in Holders(k, d)', c \notin Claims(k, d)
        PROVE  Fits(Claims(k, d)', OfficeHandlers \ Checked(k, d, "create")')
    <3>1. PICK s \in Creators : InsertClient(s) /\ c = clientSeq + 1
      BY <2>3, HolderOrigin
    <3>2. Holders(k, d)' \subseteq Claims(k, d) \cup {c}
      BY <3>1, HolderOrigin
    <3>3. Claims(k, d)' \subseteq Claims(k, d) \cup {c}
      BY <2>1, <3>2 DEF Claims
    <3>4. s \notin Checked(k, d, "create")'
      <4>1. pc \in [Handlers -> Finished \cup ReadSteps \cup WriteSteps] /\ s \in Handlers
        BY DEF ControlInv, TypeOK, HandlersOK, Checked
      <4>2. pc'[s] = "probeUsername"
        BY <3>1, <4>1 DEF InsertClient, Goto
      <4>3. QED BY <4>2 DEF Checked, Passed
    <3>5. s \in OfficeHandlers
      BY CheckedInOffice
    <3>6. Room \cup {s} \subseteq OfficeHandlers \ Checked(k, d, "create")'
      BY <2>1, <3>4, <3>5
    <3>7. s \notin Room
      OBVIOUS
    <3> HIDE DEF Room
    <3>8. Fits(Claims(k, d) \cup {c}, Room \cup {s})
      BY <1>1, <3>7, FitsOneMore
    <3>9. QED BY <3>3, <3>6, <3>8, FitsLess
  <2>4. QED BY <2>2, <2>3
<1>4. QED BY <1>2, <1>3, CheckedOrigin

\* The invariant behind the bound holds throughout.
LEMMA SharingInvariance == Spec => [](ControlInv /\ Permitted /\ SharingInv)
<1>1. Init => Permitted
  BY DEF Init, Permitted, NoFrame, Frame
<1>2. ControlInv /\ Permitted /\ SharingInv /\ [Next]_vars =>
          (ControlInv /\ Permitted /\ SharingInv)'
  BY StepControl, StepPermitted, StepSharing
<1>3. QED BY <1>1, <1>2, InitControl, InitSharing, PTL DEF Spec

\* The invariant gives the bound.
LEMMA SharingFollows == SharingInv => SharingBounded
<1> SUFFICES ASSUME SharingInv, NEW k \in Kinds, NEW d \in Phones \cup Emails
             PROVE  Cardinality(Holders(k, d)) <= Cardinality(OfficeHandlers)
  <2>1. \A d : Holders("phone", d) = PhoneHolders(clients, d)
               /\ Holders("email", d) = EmailHolders(clients, d)
    BY DEF Holders, Detail, PhoneHolders, EmailHolders
  <2>2. QED BY <2>1 DEF Kinds, SharingBounded
<1>1. IsFiniteSet(OfficeHandlers)
  BY HandlersAssumption, FS_Subset DEF OfficeHandlers
<1>2. Fits(Claims(k, d), OfficeHandlers \ Checked(k, d, "create"))
  BY DEF SharingInv
<1>3. Fits(Holders(k, d), OfficeHandlers)
  BY <1>2, FitsLess DEF Claims
<1>4. QED BY <1>1, <1>3, FitsCardinality

\* However creations and updates interleave, at most as many clients as the office
\* has handlers share a phone or an e-mail.
THEOREM SharingIsBounded == Spec => []SharingBounded
  BY SharingInvariance, SharingFollows, PTL
--------------------------------------------------------------------------------
(* What handlers that read an old status can still do: an UPDATE looks at no     *)
(* status, so the handlers under way when it changes are the whole exposure.    *)

\* An update that reads the client once it is archived is refused.
LEMMA NoLateUpdate ==
    ASSUME ControlInv, [Next]_vars, NEW c \in ClientId, IsArchived(clients, c),
           NEW s \in LateUpdates(c)'
    PROVE  s \in LateUpdates(c)
<1>1. /\ s \in Handlers /\ frame'[s].op = "update" /\ frame'[s].client = c
      /\ pc'[s] # "getClient"
      /\ pc \in [Handlers -> Finished \cup ReadSteps \cup WriteSteps]
      /\ frame \in [Handlers -> Frames] /\ frame[s] \in Frames /\ FrameOK(s)
  BY DEF LateUpdates, ControlInv, TypeOK, HandlersOK
<1>2. SUFFICES ASSUME ~(pc'[s] = pc[s] /\ frame'[s] = frame[s])
               PROVE  s \in LateUpdates(c)
  BY <1>1 DEF LateUpdates
<1>3. ASSUME NEW o, Finish(s, o) PROVE FALSE
  BY <1>1, <1>3 DEF Finish, NoFrame, Frame
<1>4. CASE NewRequest(s)
  BY <1>1, <1>3, <1>4 DEF NewRequest, Request, RequestRefused, RequestCreate, RequestUpdate,
     RequestDelete, RequestLink, RequestStatus, RequestMeeting, RequestReminder,
     RequestInquiry, Goto, Frame
<1>5. CASE GetClient(s)
  <2>1. Usable(frame[s].op, frame[s].client) /\ frame' = [frame EXCEPT ![s] = RememberRead(frame[s])]
    BY <1>3, <1>5 DEF GetClient
  <2>2. frame[s].op = "update" /\ frame[s].client = c
    BY <1>1, <2>1 DEF RememberRead, Frames
  <2>3. QED BY <2>1, <2>2 DEF Usable, IsActive, IsArchived
<1>6. CASE CheckPhone(s) \/ CheckEmail(s)
  BY <1>1, <1>3, <1>6 DEF CheckPhone, CheckEmail, LateUpdates
<1>7. CASE InsertClient(s) \/ ProbeUsername(s)
  <2>1. frame'[s].op = frame[s].op /\ pc[s] \in {"insertClient", "probeUsername"}
    BY <1>1, <1>7 DEF InsertClient, ProbeUsername, Frames
  <2>2. QED BY <1>1, <2>1 DEF FrameOK, StepsOf
<1>8. CASE CountProjects(s) \/ GetProject(s)
  BY <1>1, <1>3, <1>8 DEF CountProjects, GetProject, FrameOK, StepsOf
<1>9. CASE \/ InsertUser(s) \/ UpdateClient(s) \/ ArchiveClient(s) \/ DeleteClient(s)
           \/ InsertProject(s) \/ WriteProjectStatus(s) \/ InsertMeeting(s)
           \/ InsertReminder(s) \/ InsertInquiry(s) \/ LockTimeout(s)
  BY <1>3, <1>9 DEF InsertUser, UpdateClient, ArchiveClient, DeleteClient, InsertProject,
     WriteProjectStatus, InsertMeeting, InsertReminder, InsertInquiry, LockTimeout
<1>10. ~UNCHANGED vars /\ ~Crash
  BY <1>1, <1>2 DEF vars, Crash, NoFrame, Frame
<1>11. QED
  BY <1>1, <1>2, <1>4, <1>5, <1>6, <1>7, <1>8, <1>9, <1>10, OneMoves DEF Advance

\* The record of an archived client changes only in the UPDATE of update_client.
LEMMA ArchivedChange ==
    ASSUME FileInv, [Next]_vars, NEW c \in ClientId, IsArchived(clients, c),
           clients'[c] # clients[c]
    PROVE  \E s \in LateUpdates(c) : frame'[s] = NoFrame
<1>1. /\ clients \in [ClientId -> ClientRow] /\ clientSeq \in Nat /\ c <= clientSeq
      /\ clients[c].status = "Archived" /\ ControlInv /\ ProjectsOf(projects, c) # {}
      /\ frame \in [Handlers -> Frames]
  BY RecordsAssumption DEF FileInv, ControlInv, TypeOK, TablesOK, HandlersOK, CountersOK,
     IsPresent, IsArchived, ArchivedHasHistory
<1>2. CASE QuietStep
  BY <1>2 DEF QuietStep, dbVars
<1>3. ASSUME NEW s \in Handlers,
             \/ InsertUser(s) \/ InsertProject(s) \/ WriteProjectStatus(s)
             \/ InsertMeeting(s) \/ InsertReminder(s) \/ InsertInquiry(s)
      PROVE  FALSE
  BY <1>3 DEF InsertUser, InsertProject, WriteProjectStatus, InsertMeeting, InsertReminder,
     InsertInquiry
<1>4. ASSUME NEW s \in Handlers, InsertClient(s) PROVE FALSE
  BY <1>1, <1>4 DEF InsertClient, NextClientId, ClientId
<1>5. ASSUME NEW s \in Handlers, ArchiveClient(s) PROVE FALSE
  <2>1. [clients[c] EXCEPT !.status = "Archived"] = clients[c]
    BY <1>1 DEF ClientRow, NoClient
  <2>2. QED BY <1>1, <1>5, <2>1 DEF ArchiveClient, UpdateRow
<1>6. ASSUME NEW s \in Handlers, DeleteClient(s) PROVE FALSE
  BY <1>1, <1>6 DEF DeleteClient, Referenced
<1>7. ASSUME NEW s \in Handlers, UpdateClient(s)
      PROVE  s \in LateUpdates(c) /\ frame'[s] = NoFrame
  <2>1. pc[s] = "updateClient" /\ frame[s].client = c /\ frame'[s] = NoFrame
    BY <1>1, <1>7 DEF UpdateClient, UpdateRow, Finish
  <2>2. frame[s].op = "update"
    BY <1>1, <2>1 DEF ControlInv, FrameOK, StepsOf, Frames, Operations, Finished
  <2>3. QED BY <2>1, <2>2 DEF LateUpdates
<1>8. QED BY <1>2, <1>3, <1>4, <1>5, <1>6, <1>7, WriteCases

\* A status change that reads the project once it is completed is refused.
LEMMA NoLateStatus ==
    ASSUME ControlInv, [Next]_vars, NEW p \in ProjectId, projects[p].status = "Completed",
           NEW s \in LateStatusWrites(p)'
    PROVE  s \in LateStatusWrites(p)
<1>1. /\ s \in Handlers /\ pc'[s] = "writeProjectStatus" /\ frame'[s].project = p
      /\ pc \in [Handlers -> Finished \cup ReadSteps \cup WriteSteps]
      /\ frame \in [Handlers -> Frames] /\ frame[s] \in Frames /\ FrameOK(s)
  BY DEF LateStatusWrites, ControlInv, TypeOK, HandlersOK
<1>2. SUFFICES ASSUME ~(pc'[s] = pc[s] /\ frame'[s] = frame[s])
               PROVE  FALSE
  BY <1>1 DEF LateStatusWrites
<1>3. ASSUME NEW o \in Finished, Finish(s, o) PROVE FALSE
  BY <1>1, <1>3 DEF Finish, Finished
<1>4. ASSUME NEW step, step # "writeProjectStatus", Goto(s, step) PROVE FALSE
  BY <1>1, <1>4 DEF Goto
<1>5. CASE NewRequest(s)
  BY <1>3, <1>4, <1>5 DEF NewRequest, Request, RequestRefused, RequestCreate, RequestUpdate,
     RequestDelete, RequestLink, RequestStatus, RequestMeeting, RequestReminder,
     RequestInquiry, Finished
<1>6. CASE GetClient(s)
  <2>1. frame[s].op \in {"update", "delete", "link", "status", "meeting", "remind"}
    BY <1>1, <1>6 DEF GetClient, FrameOK, StepsOf, Frames, Operations, Finished
  <2>2. AfterGetClient[frame[s].op] # "writeProjectStatus"
    BY <2>1 DEF AfterGetClient
  <2>3. QED BY <1>3, <1>4, <1>6, <2>2 DEF GetClient, Finished
<1>7. CASE GetProject(s)
  <2>1. CASE Finish(s, "refused")
    BY <1>3, <2>1 DEF Finished
  <2>2. CASE ~Finish(s, "refused")
    <3>1. frame[s].project = p /\ frame[s].op = "status"
      BY <1>1, <1>4, <1>7, <2>2 DEF GetProject
    <3>2. CanTransitionTo("Completed", frame[s].status)
      BY <1>7, <2>2, <3>1 DEF GetProject
    <3>3. QED BY <3>2 DEF CanTransitionTo, AvailableNextStatuses
  <2>3. QED BY <2>1, <2>2
<1>8. CASE \/ CheckPhone(s) \/ CheckEmail(s) \/ InsertClient(s) \/ CountProjects(s)
  BY <1>3, <1>4, <1>8 DEF CheckPhone, CheckEmail, InsertClient, CountProjects, Finished
<1>9. CASE ProbeUsername(s)
  BY <1>1, <1>4, <1>9 DEF ProbeUsername
<1>10. CASE \/ InsertUser(s) \/ UpdateClient(s) \/ ArchiveClient(s) \/ DeleteClient(s)
            \/ InsertProject(s) \/ WriteProjectStatus(s) \/ InsertMeeting(s)
            \/ InsertReminder(s) \/ InsertInquiry(s) \/ LockTimeout(s)
  BY <1>3, <1>10 DEF InsertUser, UpdateClient, ArchiveClient, DeleteClient, InsertProject,
     WriteProjectStatus, InsertMeeting, InsertReminder, InsertInquiry, LockTimeout, Finished
<1>11. ~UNCHANGED vars /\ ~Crash
  BY <1>1, <1>2 DEF vars, Crash
<1>12. QED
  BY <1>1, <1>2, <1>5, <1>6, <1>7, <1>8, <1>9, <1>10, <1>11, OneMoves DEF Advance

\* The row of a project that is there changes only in the UPDATE of its status.
LEMMA ProjectChange ==
    ASSUME ControlInv, [Next]_vars, NEW p \in ProjectId, projects[p] # NoProject,
           projects'[p] # projects[p]
    PROVE  \E s \in LateStatusWrites(p) : pc'[s] = "ok"
<1>1. /\ projects \in [ProjectId -> ProjectRow] /\ projectSeq \in Nat /\ p <= projectSeq
      /\ pc \in [Handlers -> Finished \cup ReadSteps \cup WriteSteps]
  BY RecordsAssumption DEF ControlInv, TypeOK, TablesOK, HandlersOK, CountersOK
<1>2. CASE QuietStep
  BY <1>2 DEF QuietStep, dbVars
<1>3. ASSUME NEW s \in Handlers,
             \/ InsertClient(s) \/ InsertUser(s) \/ UpdateClient(s) \/ ArchiveClient(s)
             \/ DeleteClient(s) \/ InsertMeeting(s) \/ InsertReminder(s) \/ InsertInquiry(s)
      PROVE  FALSE
  BY <1>3 DEF InsertClient, InsertUser, UpdateClient, ArchiveClient, DeleteClient,
     InsertMeeting, InsertReminder, InsertInquiry
<1>4. ASSUME NEW s \in Handlers, InsertProject(s) PROVE FALSE
  <2>1. p # projectSeq + 1
    BY <1>1 DEF ProjectId
  <2>2. projects'[p] = projects[p]
    BY <1>1, <1>4, <2>1 DEF InsertProject
  <2>3. QED BY <2>2
<1>5. ASSUME NEW s \in Handlers, WriteProjectStatus(s)
      PROVE  s \in LateStatusWrites(p) /\ pc'[s] = "ok"
  BY <1>1, <1>5 DEF WriteProjectStatus, LateStatusWrites, Finish
<1>6. QED BY <1>2, <1>3, <1>4, <1>5, WriteCases

\* For any number of handlers: an archived client's record is changed, or the client
\* made active again, at most once by each update that was under way when the client
\* was archived, and by no other handler.
THEOREM UnarchivingIsBounded == Spec => UnarchivingRunsOut
<1>1. ASSUME FileInv, [Next]_vars, NEW c \in ClientId, IsArchived(clients, c),
             clients'[c] # clients[c]
      PROVE  LateUpdates(c)' # LateUpdates(c)
  <2>1. PICK s \in LateUpdates(c) : frame'[s] = NoFrame
    BY <1>1, ArchivedChange
  <2>2. s \notin LateUpdates(c)'
    BY <2>1 DEF LateUpdates, NoFrame, Frame
  <2>3. QED BY <2>1, <2>2
<1>2. FileInv /\ [Next]_vars =>
        [\A c \in ClientId : IsArchived(clients, c) =>
            /\ LateUpdates(c)' \subseteq LateUpdates(c)
            /\ clients'[c] # clients[c] => LateUpdates(c)' # LateUpdates(c)]_vars
  BY <1>1, NoLateUpdate DEF FileInv
<1>3. QED BY <1>2, FileInvariance, PTL DEF Spec, UnarchivingRunsOut

\* For any number of handlers: a completed project is reopened only by status changes
\* that had read it before it was completed, each of them once.
THEOREM ReopeningIsBounded == Spec => ReopeningRunsOut
<1>1. ASSUME ControlInv, [Next]_vars, NEW p \in ProjectId, projects[p].status = "Completed",
             projects'[p] # projects[p]
      PROVE  LateStatusWrites(p)' # LateStatusWrites(p)
  <2>1. PICK s \in LateStatusWrites(p) : pc'[s] = "ok"
    BY <1>1, ProjectChange DEF NoProject
  <2>2. s \notin LateStatusWrites(p)'
    BY <2>1 DEF LateStatusWrites
  <2>3. QED BY <2>1, <2>2
<1>2. ControlInv /\ [Next]_vars =>
        [\A p \in ProjectId : projects[p].status = "Completed" =>
            /\ LateStatusWrites(p)' \subseteq LateStatusWrites(p)
            /\ projects'[p] # projects[p] => LateStatusWrites(p)' # LateStatusWrites(p)]_vars
  BY <1>1, NoLateStatus
<1>3. QED BY <1>2, ControlInvariance, PTL DEF Spec, ReopeningRunsOut
--------------------------------------------------------------------------------
(* An office whose handlers do not overlap, beside any number of the portal.  *)

\* At most one handler may be one that manages clients: the clicks of the office wait
\* for one another, whichever browser they come from.
OneOffice == \A s, t \in OfficeHandlers : s = t

\* A portal handler only inquires.
LEMMA PortalInquires ==
    ASSUME Permitted, ControlInv, NEW s \in Handlers, s \notin OfficeHandlers
    PROVE  frame[s].op \in {"none", "inquire"} /\ pc[s] \in Finished \cup {"insertInquiry"}
<1>1. frame[s] \in Frames /\ FrameOK(s) /\ RoleOf[s] \in Roles
  BY FileAssumption DEF ControlInv, TypeOK, HandlersOK
<1>2. frame[s].op \in Operations \cup {"none"}
  BY <1>1 DEF Frames
<1>3. frame[s].op \notin {"none", "inquire"} => RoleOf[s] = "OfficeManager"
  BY <1>1, <1>2 DEF Permitted, Operations, PermissionFor, HasPermission, PERMISSIONS, Roles
<1>4. RoleOf[s] # "OfficeManager"
  BY DEF OfficeHandlers, HasPermission, PERMISSIONS
<1>5. QED BY <1>1, <1>2, <1>3, <1>4 DEF FrameOK, StepsOf

\* A step of a portal handler leaves the registry and the accounts alone.
LEMMA PortalStep ==
    ASSUME Permitted, ControlInv, NEW s \in Handlers, s \notin OfficeHandlers,
           NewRequest(s) \/ Advance(s) \/ LockTimeout(s)
    PROVE  UNCHANGED <<clients, clientSeq, projects, projectSeq, account>>
<1>1. pc[s] \in Finished \cup {"insertInquiry"}
  BY PortalInquires
<1>2. CASE Advance(s)
  BY <1>1, <1>2 DEF Advance, Finished, GetClient, CheckPhone, CheckEmail, InsertClient,
     ProbeUsername, InsertUser, UpdateClient, CountProjects, ArchiveClient, DeleteClient,
     InsertProject, GetProject, WriteProjectStatus, InsertMeeting, InsertReminder,
     InsertInquiry
<1>3. CASE NewRequest(s)
  BY <1>3 DEF NewRequest, Request, RequestRefused, RequestCreate, RequestUpdate,
     RequestDelete, RequestLink, RequestStatus, RequestMeeting, RequestReminder,
     RequestInquiry, dbVars
<1>4. CASE LockTimeout(s)
  BY <1>4 DEF LockTimeout, dbVars
<1>5. QED BY <1>2, <1>3, <1>4

\* What a handler has read is still true: its client is active, a client to be
\* deleted has no project, a project to be changed is the client's and may change,
\* a client that is to get an account is there and the name is free.
Current(s) ==
    /\ frame[s].op \in {"update", "delete", "link", "status", "meeting"} /\ pc[s] # "getClient"
           => IsActive(clients, frame[s].client)
    /\ pc[s] = "deleteClient" => ProjectsOf(projects, frame[s].client) = {}
    /\ pc[s] = "writeProjectStatus" =>
           /\ projects[frame[s].project].owner = frame[s].client
           /\ CanTransitionTo(projects[frame[s].project].status, frame[s].status)
    /\ pc[s] \in {"probeUsername", "insertUser"} => IsPresent(clients, frame[s].client)
    /\ pc[s] = "insertUser" => ~NameInUse(Candidate(s))

\* The invariant under one office handler.
OfficeInv ==
    /\ ControlInv
    /\ Permitted
    /\ SharingInv
    /\ \A s \in Handlers : Current(s)

\* The reads of a handler are true when it has made them.
LEMMA OwnCurrent ==
    ASSUME ControlInv, NEW s \in Handlers, Current(s),
           NewRequest(s) \/ Advance(s) \/ LockTimeout(s)
    PROVE  Current(s)'
<1>1. /\ pc \in [Handlers -> Finished \cup ReadSteps \cup WriteSteps]
      /\ frame \in [Handlers -> Frames] /\ frame[s] \in Frames
      /\ clients \in [ClientId -> ClientRow] /\ FrameOK(s)
  BY DEF ControlInv, TypeOK, TablesOK, HandlersOK
<1>2. ASSUME NEW o \in Finished, Finish(s, o) PROVE Current(s)'
  BY <1>1, <1>2 DEF Finish, Finished, NoFrame, Frame, Current
<1>3. ASSUME NEW f, NEW step, Request(s, f, step),
             \/ step = "getClient"
             \/ f.op \in {"create", "inquire"} /\ step \in {"checkPhone", "insertInquiry"}
      PROVE  Current(s)'
  BY <1>1, <1>3 DEF Request, Goto, Current
<1>4. CASE NewRequest(s)
  BY <1>2, <1>3, <1>4 DEF NewRequest, RequestRefused, RequestCreate, RequestUpdate,
     RequestDelete, RequestLink, RequestStatus, RequestMeeting, RequestReminder,
     RequestInquiry, Frame, Finished
<1>5. CASE GetClient(s)
  <2>1. CASE Finish(s, "refused")
    BY <1>2, <2>1 DEF Finished
  <2>2. CASE /\ Usable(frame[s].op, frame[s].client)
             /\ frame' = [frame EXCEPT ![s] = RememberRead(frame[s])]
             /\ Goto(s, AfterGetClient[frame[s].op])
    <3>1. frame[s].op \in {"update", "delete", "link", "status", "meeting", "remind"}
      BY <1>1, <1>5 DEF GetClient, FrameOK, StepsOf, Frames, Operations, Finished
    <3>2. /\ frame'[s].op = frame[s].op /\ frame'[s].client = frame[s].client
          /\ pc'[s] \in {"checkPhone", "countProjects", "insertProject", "getProject",
                         "insertReminder"}
          /\ UNCHANGED clients
      BY <1>1, <1>5, <2>2, <3>1 DEF GetClient, RememberRead, Goto, AfterGetClient, Frames, dbVars
    <3>3. frame[s].op # "remind" => IsActive(clients, frame[s].client)
      BY <2>2 DEF Usable
    <3>4. QED BY <3>2, <3>3 DEF Current
  <2>3. QED BY <1>5, <2>1, <2>2 DEF GetClient
<1>6. CASE CheckPhone(s) \/ CheckEmail(s)
  <2>1. CASE Finish(s, "refused")
    BY <1>2, <2>1 DEF Finished
  <2>2. CASE UNCHANGED frame /\ ~Finish(s, "refused")
    <3>1. /\ pc'[s] \in {"checkEmail", "insertClient", "updateClient"}
          /\ pc[s] \in {"checkPhone", "checkEmail"} /\ UNCHANGED <<clients, frame>>
      BY <1>1, <1>6, <2>2 DEF CheckPhone, CheckEmail, Goto, dbVars
    <3>2. QED BY <3>1 DEF Current
  <2>3. QED BY <1>6, <2>1, <2>2 DEF CheckPhone, CheckEmail
<1>7. CASE CountProjects(s)
  <2>1. /\ pc'[s] \in {"archiveClient", "deleteClient"} /\ pc[s] = "countProjects"
        /\ pc'[s] = "deleteClient" => ProjectsOf(projects, frame[s].client) = {}
        /\ UNCHANGED <<clients, projects, frame>>
    BY <1>1, <1>7 DEF CountProjects, CountedProjects, Goto, dbVars
  <2>2. QED BY <2>1 DEF Current
<1>8. CASE GetProject(s)
  <2>1. CASE Finish(s, "refused")
    BY <1>2, <2>1 DEF Finished
  <2>2. CASE UNCHANGED frame /\ ~Finish(s, "refused")
    <3>1. /\ pc'[s] \in {"writeProjectStatus", "insertMeeting"} /\ pc[s] = "getProject"
          /\ UNCHANGED <<clients, projects, frame>>
          /\ projects[frame[s].project].owner = frame[s].client
          /\ pc'[s] = "writeProjectStatus" =>
                CanTransitionTo(projects[frame[s].project].status, frame[s].status)
      BY <1>1, <1>8, <2>2 DEF GetProject, Goto, dbVars
    <3>2. QED BY <3>1 DEF Current
  <2>3. QED BY <1>8, <2>1, <2>2 DEF GetProject
<1>9. CASE InsertClient(s)
  <2>1. clientSeq + 1 \in ClientId
    BY <1>9, RecordsAssumption DEF ControlInv, TypeOK, TablesOK, InsertClient, ClientId
  <2>2. frame'[s].op = frame[s].op /\ frame'[s].client = clientSeq + 1
    BY <1>1, <1>9 DEF InsertClient, NextClientId, Frames
  <2>3. frame[s].op = "create"
    BY <1>1, <1>9 DEF InsertClient, FrameOK, StepsOf, Frames, Operations, Finished
  <2>4. IsPresent(clients', clientSeq + 1) /\ pc'[s] = "probeUsername"
    BY <1>1, <1>9, <2>1 DEF InsertClient, NextClientId, IsPresent, Goto
  <2>5. QED BY <2>2, <2>3, <2>4 DEF Current
<1>10. CASE ProbeUsername(s)
  <2>1. /\ frame'[s].op = frame[s].op /\ frame'[s].client = frame[s].client
        /\ UNCHANGED <<clients, account>> /\ pc[s] = "probeUsername"
        /\ \/ pc'[s] = "probeUsername"
           \/ pc'[s] = "insertUser" /\ ~NameInUse(Candidate(s)) /\ UNCHANGED frame
    BY <1>1, <1>10 DEF ProbeUsername, Goto, Frames, dbVars
  <2>2. frame[s].op = "create"
    BY <1>1, <2>1 DEF FrameOK, StepsOf, Frames, Operations, Finished
  <2>3. QED BY <2>1, <2>2 DEF Current, NameInUse, Candidate
<1>11. CASE \/ InsertUser(s) \/ UpdateClient(s) \/ ArchiveClient(s) \/ DeleteClient(s)
            \/ InsertProject(s) \/ WriteProjectStatus(s) \/ InsertMeeting(s)
            \/ InsertReminder(s) \/ InsertInquiry(s) \/ LockTimeout(s)
  BY <1>2, <1>11 DEF InsertUser, UpdateClient, ArchiveClient, DeleteClient, InsertProject,
     WriteProjectStatus, InsertMeeting, InsertReminder, InsertInquiry, LockTimeout, Finished
<1>12. QED
  BY <1>4, <1>5, <1>6, <1>7, <1>8, <1>9, <1>10, <1>11 DEF Advance

\* Nobody else writes what the office's only handler has read.
LEMMA StepCurrent ==
    ASSUME OneOffice, OfficeInv, [Next]_vars
    PROVE  \A s \in Handlers : Current(s)'
<1> SUFFICES ASSUME NEW t \in Handlers PROVE Current(t)'
  OBVIOUS
<1>1. ControlInv /\ Permitted /\ Current(t)
  BY DEF OfficeInv
<1>2. CASE UNCHANGED vars
  BY <1>1, <1>2 DEF vars, dbVars, Current, NameInUse, Candidate
<1>3. CASE Crash
  BY <1>3 DEF Crash, Current, NoFrame, Frame
<1>4. ASSUME NEW s \in Handlers, NewRequest(s) \/ Advance(s) \/ LockTimeout(s),
             \A u \in Handlers \ {s} : pc'[u] = pc[u] /\ frame'[u] = frame[u]
      PROVE  Current(t)'
  <2>1. CASE t = s
    BY <1>1, <1>4, <2>1, OwnCurrent
  <2>2. CASE t # s /\ t \notin OfficeHandlers
    <3>1. pc'[t] = pc[t] /\ frame'[t] = frame[t]
      BY <1>4, <2>2
    <3>2. frame[t].op \in {"none", "inquire"} /\ pc[t] \in Finished \cup {"insertInquiry"}
      BY <1>1, <2>2, PortalInquires
    <3>3. QED BY <3>1, <3>2 DEF Current, Finished
  <2>3. CASE t # s /\ t \in OfficeHandlers
    <3>1. pc'[t] = pc[t] /\ frame'[t] = frame[t]
      BY <1>4, <2>3
    <3>2. UNCHANGED <<clients, projects, account>>
      BY <1>1, <1>4, <2>3, PortalStep DEF OneOffice
    <3>3. QED BY <1>1, <3>1, <3>2 DEF Current, NameInUse, Candidate
  <2>4. QED BY <2>1, <2>2, <2>3
<1>5. QED BY <1>1, <1>2, <1>3, <1>4, OneMoves

\* The invariant holds throughout when the office has one handler.
LEMMA OfficeInvariance ==
    ASSUME OneOffice
    PROVE  Spec => []OfficeInv
<1>1. Init => OfficeInv
  BY InitControl, InitSharing DEF Init, OfficeInv, Permitted, Current, NoFrame, Frame
<1>2. OfficeInv /\ [Next]_vars => OfficeInv'
  BY StepControl, StepPermitted, StepSharing, StepCurrent DEF OfficeInv
<1>3. QED BY <1>1, <1>2, PTL DEF Spec
\* With one office handler a detail has one claim: a client that has it, an update
\* under way, or a creation under way.
LEMMA OneClaim ==
    ASSUME OneOffice, Permitted, SharingInv, NEW k \in Kinds, NEW d \in Phones \cup Emails,
           NEW x \in Claims(k, d)
    PROVE  Claims(k, d) = {x} /\ Checked(k, d, "create") = {}
<1>1. PICK f \in [Claims(k, d) -> OfficeHandlers \ Checked(k, d, "create")] :
             \A y, z \in Claims(k, d) : f[y] = f[z] => y = z
  BY DEF SharingInv, Fits
<1>2. \A y \in Claims(k, d) : f[y] \in OfficeHandlers \ Checked(k, d, "create")
  BY <1>1
<1>3. \A y \in Claims(k, d) : y = x
  BY <1>1, <1>2 DEF OneOffice
<1>4. \A s \in Checked(k, d, "create") : s \in OfficeHandlers
  BY CheckedInOffice
<1>5. Checked(k, d, "create") = {}
  BY <1>2, <1>4 DEF OneOffice
<1>6. QED BY <1>3, <1>5

\* The details a handler is about to write belong to no other client.
LEMMA WrittenUnshared ==
    ASSUME OneOffice, ControlInv, Permitted, SharingInv, NEW s \in Handlers,
           pc[s] \in {"insertClient", "updateClient"}
    PROVE  /\ frame[s].phone \in Phones /\ frame[s].email \in Emails
           /\ PhoneHolders(clients, frame[s].phone) \subseteq {frame[s].client}
           /\ EmailHolders(clients, frame[s].email) \subseteq {frame[s].client}
           /\ pc[s] = "insertClient" => frame[s].client = 0
<1>1. FrameOK(s) /\ frame[s] \in Frames
  BY DEF ControlInv, TypeOK, HandlersOK
<1>2. frame[s].op = (IF pc[s] = "insertClient" THEN "create" ELSE "update")
  BY <1>1 DEF FrameOK, StepsOf, Frames, Operations, Finished
<1>3. frame[s].phone \in Phones /\ frame[s].email \in Emails
  BY <1>1, <1>2 DEF FrameOK
<1>4. ASSUME NEW k \in Kinds
      PROVE  Holders(k, Detail(k, frame[s])) \subseteq {frame[s].client}
  <2> DEFINE d == Detail(k, frame[s])
  <2>1. d \in Phones \cup Emails
    BY <1>3 DEF Detail
  <2>2. s \in Checked(k, d, frame[s].op)
    BY DEF Checked, Passed
  <2>3. CASE pc[s] = "insertClient"
    <3>1. s \in Checked(k, d, "create")
      BY <1>2, <2>2, <2>3
    <3> HIDE DEF d
    <3>2. Claims(k, d) = {}
      BY <2>1, <3>1, OneClaim
    <3>3. QED BY <3>2 DEF Claims, d
  <2>4. CASE pc[s] = "updateClient"
    <3>1. frame[s].client \in Claims(k, d)
      BY <1>2, <2>2, <2>4 DEF Claims
    <3> HIDE DEF d
    <3>2. Claims(k, d) = {frame[s].client}
      BY <2>1, <3>1, OneClaim
    <3>3. QED BY <3>2 DEF Claims, d
  <2>5. QED BY <2>3, <2>4
<1>5. /\ Holders("phone", Detail("phone", frame[s])) = PhoneHolders(clients, frame[s].phone)
      /\ Holders("email", Detail("email", frame[s])) = EmailHolders(clients, frame[s].email)
  BY DEF Holders, Detail, PhoneHolders, EmailHolders
<1>6. pc[s] = "insertClient" => frame[s].client = 0
  BY <1>1, <1>2 DEF FrameOK
<1>7. QED BY <1>3, <1>4, <1>5, <1>6 DEF Kinds

\* No two clients claim one detail.
LEMMA UniqueFollows ==
    ASSUME OneOffice, OfficeInv
    PROVE  DetailsUnique
<1>1. clients \in [ClientId -> ClientRow] /\ Permitted /\ SharingInv
  BY DEF OfficeInv, ControlInv, TypeOK, TablesOK
<1>2. ASSUME NEW k \in Kinds, NEW c \in ClientId, NEW e \in ClientId, c # e,
             IsPresent(clients, c), Detail(k, clients[c]) = Detail(k, clients[e])
      PROVE  FALSE
  <2> DEFINE d == Detail(k, clients[c])
  <2>1. clients[c] \in [status : ClientStatus, phone : Phones, email : Emails]
    BY <1>1, <1>2 DEF ClientRow, IsPresent, NoClient
  <2>2. d \in Phones \cup Emails
    BY <2>1 DEF Detail
  <2>3. c \in Claims(k, d) /\ e \in Claims(k, d)
    BY <1>2 DEF Claims, Holders
  <2> HIDE DEF d
  <2>4. QED BY <1>1, <1>2, <2>2, <2>3, OneClaim
<1>3. /\ "phone" \in Kinds /\ "email" \in Kinds
      /\ \A r : Detail("phone", r) = r.phone /\ Detail("email", r) = r.email
  BY DEF Kinds, Detail
<1>4. QED
  BY <1>2, <1>3 DEF DetailsUnique, Registry!DetailsUnique, Registry!ClientId, Registry!IsPresent,
     ClientId, IsPresent
--------------------------------------------------------------------------------
(* With one office handler the handlers are the atomic operations of the registry. *)

\* create_client's INSERT is the registry's creation ...
LEMMA InsertIsCreate ==
    ASSUME OneOffice, OfficeInv, NEW s \in Handlers, InsertClient(s)
    PROVE  Registry!CreateClient(frame[s].phone, frame[s].email)
           /\ frame[s].phone \in Phones /\ frame[s].email \in Emails
<1>1. pc[s] = "insertClient" /\ ControlInv /\ Permitted /\ SharingInv
  BY DEF InsertClient, OfficeInv
<1>2. Registry!Unused(frame[s].phone, frame[s].email, 0)
  BY <1>1, WrittenUnshared DEF Registry!Unused, Registry!PhoneHolders, Registry!EmailHolders,
     Registry!ClientId, PhoneHolders, EmailHolders, ClientId
<1>3. QED
  BY <1>1, <1>2, WrittenUnshared DEF InsertClient, NextClientId, Registry!CreateClient

\* The client a handler of these operations works on is active.
LEMMA ActiveFact ==
    ASSUME OfficeInv, NEW s \in Handlers,
           pc[s] \in {"updateClient", "archiveClient", "deleteClient", "insertProject",
                      "writeProjectStatus"}
    PROVE  /\ frame[s].client \in ClientId /\ IsActive(clients, frame[s].client)
           /\ IsPresent(clients, frame[s].client)
<1>1. ControlInv /\ FrameOK(s) /\ frame[s] \in Frames /\ Current(s)
  BY DEF OfficeInv, ControlInv, TypeOK, HandlersOK
<1>2. frame[s].op \in {"update", "delete", "link", "status", "meeting"}
  BY <1>1 DEF FrameOK, StepsOf, Frames, Operations, Finished
<1>3. QED BY <1>1, <1>2 DEF FrameOK, Current, IsActive, IsPresent

\* ... and update_client's UPDATE the registry's update.
LEMMA UpdateIsUpdate ==
    ASSUME OneOffice, OfficeInv, NEW s \in Handlers, UpdateClient(s)
    PROVE  Registry!UpdateClient(frame[s].client, frame[s].phone, frame[s].email)
           /\ frame[s].phone \in Phones /\ frame[s].email \in Emails
<1>1. pc[s] = "updateClient" /\ ControlInv /\ Permitted /\ SharingInv
  BY DEF UpdateClient, OfficeInv
<1>2. Registry!Unused(frame[s].phone, frame[s].email, frame[s].client)
  BY <1>1, WrittenUnshared DEF Registry!Unused, Registry!PhoneHolders, Registry!EmailHolders,
     Registry!ClientId, PhoneHolders, EmailHolders, ClientId
<1>3. frame[s].status = "Active"
  BY <1>1, HandlerFacts
<1>4. QED
  BY <1>1, <1>2, <1>3, ActiveFact, WrittenUnshared
     DEF UpdateClient, UpdateRow, Registry!UpdateClient, Registry!IsActive, IsActive

\* Every step of the handlers is a step of the registry, or none.
LEMMA StepRegistry ==
    ASSUME OneOffice, OfficeInv, [Next]_vars
    PROVE  [Registry!Next]_(Registry!vars)
<1>1. ControlInv /\ \A s \in Handlers : Current(s)
  BY DEF OfficeInv
<1>2. CASE QuietStep
  BY <1>2 DEF QuietStep, dbVars, Registry!vars
<1>3. ASSUME NEW s \in Handlers,
             InsertUser(s) \/ InsertMeeting(s) \/ InsertReminder(s) \/ InsertInquiry(s)
      PROVE  UNCHANGED Registry!vars
  BY <1>3 DEF InsertUser, InsertMeeting, InsertReminder, InsertInquiry, Registry!vars
<1>4. ASSUME NEW s \in Handlers, InsertClient(s) PROVE Registry!Next
  BY <1>4, InsertIsCreate DEF Registry!Next
<1>5. ASSUME NEW s \in Handlers, UpdateClient(s) PROVE Registry!Next
  <2>1. frame[s].client \in Registry!ClientId
    BY <1>5, ActiveFact DEF UpdateClient, Registry!ClientId, ClientId
  <2>2. QED BY <1>5, <2>1, UpdateIsUpdate DEF Registry!Next
<1>6. ASSUME NEW s \in Handlers, ArchiveClient(s) PROVE Registry!Next
  <2>1. /\ frame[s].client \in Registry!ClientId
        /\ IsActive(clients, frame[s].client) /\ IsPresent(clients, frame[s].client)
        /\ ProjectsOf(projects, frame[s].client) # {}
    BY <1>1, <1>6, ActiveFact, HandlerFacts DEF ArchiveClient, Registry!ClientId, ClientId
  <2>2. Registry!ArchiveClient(frame[s].client)
    BY <1>6, <2>1 DEF ArchiveClient, UpdateRow, Registry!ArchiveClient, Registry!IsActive,
       Registry!ProjectsOf, Registry!ProjectId, IsActive, ProjectsOf, ProjectId
  <2>3. QED BY <2>1, <2>2 DEF Registry!Next
<1>7. ASSUME NEW s \in Handlers, DeleteClient(s) PROVE [Registry!Next]_(Registry!vars)
  <2>1. CASE Referenced(frame[s].client)
    BY <1>7, <2>1 DEF DeleteClient, Registry!vars
  <2>2. CASE ~Referenced(frame[s].client)
    <3>1. /\ frame[s].client \in Registry!ClientId /\ IsActive(clients, frame[s].client)
          /\ ProjectsOf(projects, frame[s].client) = {}
      BY <1>1, <1>7, <2>2, ActiveFact
         DEF DeleteClient, Current, Registry!ClientId, ClientId
    <3>2. Registry!DeleteClient(frame[s].client)
      BY <1>7, <2>2, <3>1 DEF DeleteClient, Registry!DeleteClient, Registry!IsActive,
         Registry!ProjectsOf, Registry!ProjectId, Registry!NoClient, IsActive, ProjectsOf,
         ProjectId, NoClient
    <3>3. QED BY <3>1, <3>2 DEF Registry!Next
  <2>3. QED BY <2>1, <2>2
<1>8. ASSUME NEW s \in Handlers, InsertProject(s) PROVE Registry!Next
  <2>1. /\ frame[s].client \in Registry!ClientId
        /\ IsActive(clients, frame[s].client) /\ IsPresent(clients, frame[s].client)
    BY <1>8, ActiveFact DEF InsertProject, Registry!ClientId, ClientId
  <2>2. Registry!LinkProject(frame[s].client)
    BY <1>8, <2>1 DEF InsertProject, Registry!LinkProject, Registry!IsActive, IsActive
  <2>3. QED BY <2>1, <2>2 DEF Registry!Next
<1>9. ASSUME NEW s \in Handlers, WriteProjectStatus(s) PROVE Registry!Next
  <2>1. /\ frame[s].project \in ProjectId /\ projects[frame[s].project] # NoProject
        /\ frame[s].status \in ProjectStatus
        /\ IsActive(clients, frame[s].client)
        /\ projects[frame[s].project].owner = frame[s].client
        /\ CanTransitionTo(projects[frame[s].project].status, frame[s].status)
    BY <1>1, <1>9, ActiveFact, HandlerFacts DEF WriteProjectStatus, Current
  <2>2. frame[s].project <= projectSeq
    BY <1>1, <2>1 DEF ControlInv, CountersOK
  <2>3. Registry!SetProjectStatus(frame[s].project, frame[s].status)
    BY <1>9, <2>1, <2>2 DEF WriteProjectStatus, Registry!SetProjectStatus, Registry!IsActive,
       Registry!CanTransitionTo, Registry!AvailableNextStatuses, IsActive, CanTransitionTo,
       AvailableNextStatuses
  <2>4. QED
    BY <2>1, <2>3 DEF Registry!Next, Registry!ProjectId, Registry!ProjectStatus, ProjectId,
       ProjectStatus
<1>10. QED
  BY <1>2, <1>3, <1>4, <1>5, <1>6, <1>7, <1>8, <1>9, WriteCases

\* Requirement 1 is kept by an office of one handler: every handler, with its reads
\* and its write apart, takes effect as one atomic operation of the registry, beside
\* any number of portal handlers and through crashes and lock timeouts.
THEOREM OneOfficeImplementsRegistry ==
    ASSUME OneOffice
    PROVE  Spec => ImplementsRegistry
<1>1. Init => Registry!Init
  BY DEF Init, Registry!Init, Registry!ClientId, Registry!ProjectId, Registry!NoClient,
     Registry!NoProject, ClientId, ProjectId, NoClient, NoProject
<1>2. OfficeInv /\ [Next]_vars => [Registry!Next]_(Registry!vars)
  BY StepRegistry
<1>3. QED BY <1>1, <1>2, OfficeInvariance, PTL DEF Spec, ImplementsRegistry, Registry!Spec

\* With one office handler no two clients share a phone or an e-mail: nobody writes
\* between the duplicate check and the INSERT or UPDATE.
THEOREM OneOfficeKeepsDetailsUnique ==
    ASSUME OneOffice
    PROVE  Spec => []DetailsUnique
<1>1. OfficeInv => DetailsUnique
  BY UniqueFollows
<1>2. QED BY <1>1, OfficeInvariance, PTL

\* With one office handler the record of an archived client is never changed and the
\* client never made active again: the status update_client writes back is the one
\* that is stored.
THEOREM OneOfficeFreezesArchived ==
    ASSUME OneOffice
    PROVE  Spec => ArchivedIsFrozen
<1>1. ASSUME OfficeInv, [Next]_vars, NEW c \in Registry!ClientId,
             Registry!IsArchived(clients, c)
      PROVE  clients'[c] = clients[c]
  <2>1. /\ clients \in [ClientId -> ClientRow] /\ c \in ClientId /\ c <= clientSeq
        /\ clientSeq \in Nat /\ clients[c].status = "Archived"
    BY <1>1, RecordsAssumption DEF OfficeInv, ControlInv, TypeOK, TablesOK, CountersOK,
       Registry!ClientId, ClientId, Registry!IsArchived, IsPresent
  <2>2. CASE UNCHANGED Registry!vars
    BY <2>2 DEF Registry!vars
  <2>3. CASE \E p \in Phones, e \in Emails : Registry!CreateClient(p, e)
    BY <2>1, <2>3 DEF Registry!CreateClient, ClientId
  <2>4. ASSUME NEW d \in Registry!ClientId, NEW p, NEW e,
               \/ Registry!UpdateClient(d, p, e) \/ Registry!ArchiveClient(d)
               \/ Registry!DeleteClient(d) \/ Registry!LinkProject(d)
        PROVE  clients'[c] = clients[c]
    BY <2>1, <2>4 DEF Registry!UpdateClient, Registry!ArchiveClient, Registry!DeleteClient,
       Registry!LinkProject, Registry!IsActive
  <2>5. ASSUME NEW p, NEW st, Registry!SetProjectStatus(p, st)
        PROVE  clients'[c] = clients[c]
    BY <2>5 DEF Registry!SetProjectStatus
  <2>6. QED BY <1>1, <2>2, <2>3, <2>4, <2>5, StepRegistry DEF Registry!Next
<1>2. OfficeInv /\ [Next]_vars =>
        [\A c \in Registry!ClientId :
            Registry!IsArchived(clients, c) => clients'[c] = clients[c]]_(Registry!vars)
  BY <1>1
<1>3. QED
  BY <1>2, OfficeInvariance, PTL DEF Spec, ArchivedIsFrozen, Registry!ArchivedIsFrozen

\* With one office handler a completed project stays completed: nobody completes it
\* between update_project_status's read and its write.
THEOREM OneOfficeFinishesProjects ==
    ASSUME OneOffice
    PROVE  Spec => CompletedIsFinal
<1>1. ASSUME OfficeInv, [Next]_vars, NEW p \in Registry!ProjectId, p <= projectSeq
      PROVE  /\ projects[p].status = "Completed" => projects'[p] = projects[p]
             /\ projects'[p].owner = projects[p].owner
  <2>1. /\ projects \in [ProjectId -> ProjectRow] /\ p \in ProjectId
        /\ projectSeq \in Nat
        /\ projects[p] \in [owner : ClientId, status : ProjectStatus]
    BY <1>1, RecordsAssumption DEF OfficeInv, ControlInv, TypeOK, TablesOK, CountersOK,
       Registry!ProjectId, ProjectId, ProjectRow
  <2>2. CASE UNCHANGED Registry!vars
    BY <2>2 DEF Registry!vars
  <2>3. ASSUME NEW d, NEW x, NEW e,
               \/ Registry!CreateClient(x, e) \/ Registry!UpdateClient(d, x, e)
               \/ Registry!ArchiveClient(d) \/ Registry!DeleteClient(d)
        PROVE  UNCHANGED projects
    BY <2>3 DEF Registry!CreateClient, Registry!UpdateClient, Registry!ArchiveClient,
       Registry!DeleteClient
  <2>4. ASSUME NEW d, Registry!LinkProject(d) PROVE projects'[p] = projects[p]
    BY <1>1, <2>1, <2>4 DEF Registry!LinkProject, ProjectId
  <2>5. ASSUME NEW q \in Registry!ProjectId, NEW st, Registry!SetProjectStatus(q, st)
        PROVE  /\ projects[p].status = "Completed" => projects'[p] = projects[p]
               /\ projects'[p].owner = projects[p].owner
    <3>1. projects[q].status = "Completed" => FALSE
      BY <2>5 DEF Registry!SetProjectStatus, Registry!CanTransitionTo,
         Registry!AvailableNextStatuses
    <3>2. projects' = [projects EXCEPT ![q].status = st]
      BY <2>5 DEF Registry!SetProjectStatus
    <3>3. QED BY <2>1, <3>1, <3>2
  <2>6. QED BY <1>1, <2>2, <2>3, <2>4, <2>5, StepRegistry DEF Registry!Next
<1>2. OfficeInv /\ [Next]_vars =>
        [\A p \in Registry!ProjectId : p <= projectSeq =>
            /\ projects[p].status = "Completed" => projects'[p] = projects[p]
            /\ projects'[p].owner = projects[p].owner]_(Registry!vars)
  BY <1>1
<1>3. QED
  BY <1>2, OfficeInvariance, PTL DEF Spec, CompletedIsFinal, Registry!CompletedIsFinal
================================================================================
