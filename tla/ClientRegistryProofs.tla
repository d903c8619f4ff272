-------------------------- MODULE ClientRegistryProofs -------------------------
(****************************************************************************)
(* What the atomic client file guarantees, for every number of clients,     *)
(* projects, phones and e-mails.                                            *)
(****************************************************************************)
EXTENDS ClientRegistry, TLAPS

\* The inductive invariant: the types, the use of the two id counters and the
\* uniqueness of the details.  TablesConsistent is what makes a fresh id fresh.
RegistryInv == TypeOK /\ TablesConsistent /\ DetailsUnique /\ ArchivedHasHistory

\* The registry starts empty.
LEMMA InitInv == Init => RegistryInv
  BY RecordsAssumption DEF Init, RegistryInv, TypeOK, TablesConsistent, DetailsUnique,
     ArchivedHasHistory, IsPresent, IsArchived, ClientId, ProjectId, ClientRow,
     ProjectRow, NoClient, NoProject

\* Every operation keeps the types.
LEMMA StepType == RegistryInv /\ [Next]_vars => TypeOK'
<1> SUFFICES ASSUME TypeOK, TablesConsistent, [Next]_vars PROVE TypeOK'
  BY DEF RegistryInv
<1> USE RecordsAssumption DEF TypeOK, ClientRow, ClientStatus, ProjectRow, ProjectStatus,
        ClientId, ProjectId
<1>1. ASSUME NEW p \in Phones, NEW e \in Emails, CreateClient(p, e) PROVE TypeOK'
  <2>1. clientSeq' \in ClientId
    BY <1>1 DEF CreateClient
  <2>2. QED BY <1>1, <2>1 DEF CreateClient
<1>2. ASSUME NEW c \in ClientId, NEW p \in Phones, NEW e \in Emails, UpdateClient(c, p, e)
      PROVE TypeOK'
  BY <1>2 DEF UpdateClient
<1>3. ASSUME NEW c \in ClientId, ArchiveClient(c) PROVE TypeOK'
  <2>1. clients[c] # NoClient
    BY <1>3 DEF ArchiveClient, IsActive, NoClient
  <2>2. clients[c] \in [status : {"Active", "Archived"}, phone : Phones, email : Emails]
    BY <2>1
  <2>3. [clients[c] EXCEPT !.status = "Archived"] \in ClientRow
    BY <2>2
  <2>4. QED BY <1>3, <2>3 DEF ArchiveClient
<1>4. ASSUME NEW c \in ClientId, DeleteClient(c) PROVE TypeOK'
  BY <1>4 DEF DeleteClient
<1>5. ASSUME NEW c \in ClientId, LinkProject(c) PROVE TypeOK'
  <2>1. projectSeq' \in ProjectId
    BY <1>5 DEF LinkProject
  <2>2. QED BY <1>5, <2>1 DEF LinkProject
<1>6. ASSUME NEW p \in ProjectId, NEW st \in ProjectStatus, SetProjectStatus(p, st)
      PROVE TypeOK'
  <2>1. projects[p] # NoProject
    BY <1>6 DEF SetProjectStatus, TablesConsistent
  <2>2. [projects[p] EXCEPT !.status = st] \in ProjectRow
    BY <2>1
  <2>3. QED BY <1>6, <2>2 DEF SetProjectStatus
<1>7. CASE UNCHANGED vars
  BY <1>7 DEF vars
<1>8. QED BY <1>1, <1>2, <1>3, <1>4, <1>5, <1>6, <1>7 DEF Next

\* Ids in use are ids given out, and every project has its client: a client with
\* a project is not deleted, and a fresh id is an id no row has.
LEMMA StepTables == RegistryInv /\ [Next]_vars => TablesConsistent'
<1> SUFFICES ASSUME TypeOK, TablesConsistent, [Next]_vars PROVE TablesConsistent'
  BY DEF RegistryInv
<1> USE RecordsAssumption DEF TypeOK, TablesConsistent, IsPresent, IsActive, NoClient,
        NoProject, ClientRow, ClientStatus, ProjectRow, ProjectStatus, ClientId, ProjectId
<1>1. ASSUME NEW p \in Phones, NEW e \in Emails, CreateClient(p, e)
      PROVE TablesConsistent'
  BY <1>1 DEF CreateClient
<1>2. ASSUME NEW c \in ClientId, NEW p \in Phones, NEW e \in Emails, UpdateClient(c, p, e)
      PROVE TablesConsistent'
  BY <1>2 DEF UpdateClient
<1>3. ASSUME NEW c \in ClientId, ArchiveClient(c) PROVE TablesConsistent'
  BY <1>3 DEF ArchiveClient
<1>4. ASSUME NEW c \in ClientId, DeleteClient(c) PROVE TablesConsistent'
  BY <1>4 DEF DeleteClient, ProjectsOf
<1>5. ASSUME NEW c \in ClientId, LinkProject(c) PROVE TablesConsistent'
  BY <1>5 DEF LinkProject
<1>6. ASSUME NEW p \in ProjectId, NEW st \in ProjectStatus, SetProjectStatus(p, st)
      PROVE TablesConsistent'
  BY <1>6 DEF SetProjectStatus
<1>7. CASE UNCHANGED vars
  BY <1>7 DEF vars
<1>8. QED BY <1>1, <1>2, <1>3, <1>4, <1>5, <1>6, <1>7 DEF Next

\* A client is archived while it has a project, and projects stay.
LEMMA StepHistory == RegistryInv /\ [Next]_vars => ArchivedHasHistory'
<1> SUFFICES ASSUME TypeOK, TablesConsistent, ArchivedHasHistory, [Next]_vars,
                    NEW c \in ClientId, IsArchived(clients', c)
             PROVE  ProjectsOf(projects', c) # {}
  BY DEF RegistryInv, ArchivedHasHistory
<1> USE DEF TypeOK, IsArchived, ProjectsOf
<1>1. \A p \in ProjectId : p <= projectSeq => projects'[p].owner = projects[p].owner
  <2> SUFFICES ASSUME NEW p \in ProjectId, p <= projectSeq
               PROVE  projects'[p].owner = projects[p].owner
    OBVIOUS
  <2>1. ASSUME NEW d \in ClientId, LinkProject(d) PROVE projects'[p] = projects[p]
    BY <2>1 DEF LinkProject, ProjectId
  <2>2. ASSUME NEW q \in ProjectId, NEW st \in ProjectStatus, SetProjectStatus(q, st)
        PROVE projects'[p].owner = projects[p].owner
    BY <2>2 DEF SetProjectStatus, ProjectRow, NoProject
  <2>3. QED
    BY <2>1, <2>2 DEF Next, vars, CreateClient, UpdateClient, ArchiveClient, DeleteClient
<1>2. ProjectsOf(projects, c) # {} => ProjectsOf(projects', c) # {}
  <2>1. \A p \in ProjectsOf(projects, c) : p <= projectSeq
    BY DEF TablesConsistent, NoProject, ClientId
  <2>2. QED BY <1>1, <2>1
<1>3. IsArchived(clients, c) \/ ProjectsOf(projects, c) # {}
  BY DEF Next, vars, CreateClient, UpdateClient, ArchiveClient, DeleteClient, LinkProject,
     SetProjectStatus, NoClient
<1>4. QED BY <1>2, <1>3 DEF ArchivedHasHistory

\* A new or changed row gets details that no other row has.
LEMMA StepUnique == RegistryInv /\ [Next]_vars => DetailsUnique'
<1> SUFFICES ASSUME TypeOK, DetailsUnique, [Next]_vars PROVE DetailsUnique'
  BY DEF RegistryInv
<1> USE DEF TypeOK, DetailsUnique, IsPresent
<1>1. ASSUME NEW p \in Phones, NEW e \in Emails, CreateClient(p, e) PROVE DetailsUnique'
  <2>1. clientSeq' \in ClientId
    BY <1>1, RecordsAssumption DEF CreateClient, ClientId
  <2>2. \A d \in ClientId : clients[d].phone # p /\ clients[d].email # e
    BY <1>1 DEF CreateClient, Unused, PhoneHolders, EmailHolders, ClientId
  <2>3. \A d \in ClientId \ {clientSeq'} : clients'[d] = clients[d]
    BY <1>1 DEF CreateClient
  <2>4. clients'[clientSeq'].phone = p /\ clients'[clientSeq'].email = e
    BY <1>1, <2>1 DEF CreateClient
  <2>5. QED BY <2>2, <2>3, <2>4
<1>2. ASSUME NEW c \in ClientId, NEW p \in Phones, NEW e \in Emails, UpdateClient(c, p, e)
      PROVE DetailsUnique'
  BY <1>2 DEF UpdateClient, Unused, PhoneHolders, EmailHolders, IsActive
<1>3. ASSUME NEW c \in ClientId, ArchiveClient(c) PROVE DetailsUnique'
  BY <1>3 DEF ArchiveClient, IsActive
<1>4. ASSUME NEW c \in ClientId, DeleteClient(c) PROVE DetailsUnique'
  BY <1>4 DEF DeleteClient, NoClient
<1>5. ASSUME NEW c \in ClientId, LinkProject(c) PROVE DetailsUnique'
  BY <1>5 DEF LinkProject
<1>6. ASSUME NEW p \in ProjectId, NEW st \in ProjectStatus, SetProjectStatus(p, st)
      PROVE DetailsUnique'
  BY <1>6 DEF SetProjectStatus
<1>7. CASE UNCHANGED vars
  BY <1>7 DEF vars
<1>8. QED BY <1>1, <1>2, <1>3, <1>4, <1>5, <1>6, <1>7 DEF Next

\* The inductive invariant holds throughout.
LEMMA Invariance == Spec => []RegistryInv
<1>1. RegistryInv /\ [Next]_vars => RegistryInv'
  BY StepType, StepTables, StepHistory, StepUnique DEF RegistryInv
<1>2. QED BY InitInv, <1>1, PTL DEF Spec

\* No two clients ever share a phone or an e-mail (the duplicate rule of
\* create_client and update_client).
THEOREM RegistryDetailsUnique == Spec => []DetailsUnique
<1>1. RegistryInv => DetailsUnique
  BY DEF RegistryInv
<1>2. QED BY <1>1, Invariance, PTL

\* An archived client is never changed or made active again.
THEOREM RegistryArchivedIsFrozen == Spec => ArchivedIsFrozen
<1>1. RegistryInv /\ [Next]_vars =>
        [\A c \in ClientId : IsArchived(clients, c) => clients'[c] = clients[c]]_vars
  <2> SUFFICES ASSUME TypeOK, TablesConsistent, Next,
                      NEW c \in ClientId, IsArchived(clients, c)
               PROVE  clients'[c] = clients[c]
    BY DEF RegistryInv
  <2> QED
    BY RecordsAssumption DEF Next, CreateClient, UpdateClient, ArchiveClient, DeleteClient,
       LinkProject, SetProjectStatus, TypeOK, TablesConsistent, IsPresent, IsActive,
       IsArchived, ClientId
<1>2. QED BY <1>1, Invariance, PTL DEF Spec, ArchivedIsFrozen

\* No project is added to an archived client and none of its projects moves.
THEOREM RegistryArchivedProjectsFrozen == Spec => ArchivedProjectsFrozen
<1>1. RegistryInv /\ [Next]_vars =>
        [\A c \in ClientId, p \in ProjectId :
            (IsArchived(clients, c) /\ projects'[p].owner = c) =>
                projects'[p] = projects[p]]_vars
  <2> SUFFICES ASSUME TypeOK, TablesConsistent, Next, NEW c \in ClientId,
                      NEW p \in ProjectId, IsArchived(clients, c), projects'[p].owner = c
               PROVE  projects'[p] = projects[p]
    BY DEF RegistryInv
  <2> USE RecordsAssumption DEF TypeOK, TablesConsistent, IsActive, IsArchived, ClientId,
          ProjectId, ProjectRow, NoProject
  <2>1. ASSUME NEW d \in ClientId, LinkProject(d) PROVE projects'[p] = projects[p]
    BY <2>1 DEF LinkProject
  <2>2. ASSUME NEW q \in ProjectId, NEW st \in ProjectStatus, SetProjectStatus(q, st)
        PROVE projects'[p] = projects[p]
    BY <2>2 DEF SetProjectStatus
  <2>3. QED
    BY <2>1, <2>2 DEF Next, CreateClient, UpdateClient, ArchiveClient, DeleteClient
<1>2. QED BY <1>1, Invariance, PTL DEF Spec, ArchivedProjectsFrozen

\* A completed project is never reopened and no project changes its client.
THEOREM RegistryCompletedIsFinal == Spec => CompletedIsFinal
<1>1. RegistryInv /\ [Next]_vars =>
        [\A p \in ProjectId :
            p <= projectSeq =>
                /\ projects[p].status = "Completed" => projects'[p] = projects[p]
                /\ projects'[p].owner = projects[p].owner]_vars
  <2> SUFFICES ASSUME TypeOK, Next, NEW p \in ProjectId, p <= projectSeq
               PROVE  /\ projects[p].status = "Completed" => projects'[p] = projects[p]
                      /\ projects'[p].owner = projects[p].owner
    BY DEF RegistryInv
  <2> USE RecordsAssumption DEF TypeOK, ProjectId, ProjectRow, NoProject
  <2>1. ASSUME NEW d \in ClientId, LinkProject(d)
        PROVE projects'[p] = projects[p]
    BY <2>1 DEF LinkProject
  <2>2. ASSUME NEW q \in ProjectId, NEW st \in ProjectStatus, SetProjectStatus(q, st)
        PROVE  /\ projects[p].status = "Completed" => projects'[p] = projects[p]
               /\ projects'[p].owner = projects[p].owner
    BY <2>2 DEF SetProjectStatus, CanTransitionTo, AvailableNextStatuses
  <2>3. QED
    BY <2>1, <2>2 DEF Next, CreateClient, UpdateClient, ArchiveClient, DeleteClient
<1>2. QED BY <1>1, Invariance, PTL DEF Spec, CompletedIsFinal
================================================================================
