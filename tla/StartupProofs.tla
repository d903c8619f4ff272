----------------------------- MODULE StartupProofs -----------------------------
(****************************************************************************)
(* Startup for any number of processes that start, fail and crash together: *)
(* what a process has established when it reaches a statement stays true    *)
(* because nobody takes anything away, and a transaction only adds to the   *)
(* committed database.                                                      *)
(****************************************************************************)
EXTENDS Startup, FiniteSetTheorems, TLAPS

Statements == Running \cup {"down", "failed", "ready"}

\* The statements that come after one that has been executed.
AfterTables    == (Running \ {"createTables"}) \cup {"ready"}
AfterColumn    == AfterTables \ {"checkProjects", "alterProjects"}
AfterStamp     == AfterColumn \ {"stampProjects"}
AfterOthers    == AfterStamp \ {"alterOthers"}
AfterUsers     == AfterOthers \ {"commitTables", "probeUser", "insertUser"}
AfterDecisions == AfterUsers \ {"checkDecisionLog", "alterDecisionLog"}
AfterHistory   == AfterDecisions \ {"checkChangeHistory", "alterBoth", "alterDecisionId",
                                    "alterChangeAuthor"}
AfterBackfill  == AfterHistory \ {"backfill"}

\* What a process that is at statement st, with account n next, knows of database d.
Known(d, st, n) ==
    /\ st \in AfterTables => d.tables = Tables
    /\ st \in AfterColumn => "updatedAt" \in d.columns
    /\ st \in AfterStamp => "updatedAt" \notin d.gaps
    /\ st \in AfterOthers => {"userColumns", "otherColumns"} \subseteq d.columns
    /\ \A k \in DOMAIN SEED_USERS : k < n => SEED_USERS[k] \in d.users
    /\ st \in AfterUsers => SeedUsers \subseteq d.users
    /\ st \in AfterDecisions => "decisionAuthor" \in d.columns
    /\ st \in AfterHistory \cup {"alterChangeAuthor"} => "decisionId" \in d.columns
    /\ st \in AfterHistory \cup {"alterDecisionId"} => "changeAuthor" \in d.columns
    /\ st \in AfterBackfill =>
           d.gaps \cap {"decisionAuthor", "changeAuthor", "decisionId"} = {}

\* Database e has what d has, and lacks nothing else.
Grows(d, e) ==
    /\ d.tables \subseteq e.tables /\ d.columns \subseteq e.columns
    /\ e.gaps \subseteq d.gaps
    /\ d.users \subseteq e.users
    /\ d.demos <= e.demos /\ d.drawings <= e.drawings
    /\ d.linked => e.linked

\* The open transaction t of a process at statement st, on the committed database d.
Open(d, t, st) ==
    /\ Grows(d, t)
    /\ t.demos = IF st \in DemoSteps THEN d.demos + 1 ELSE d.demos
    /\ t.drawings = IF st = "commitDemo" THEN d.drawings + 1 ELSE d.drawings
    /\ st \in DemoSteps => t.linked

\* The statements of a transaction that has begun.
MustHold == {"alterOthers", "commitTables", "commitUsers"} \cup (DemoSteps \ {"insertDemo"})

KnowledgeInv == \A p \in Processes : Known(View(p), pc[p], next[p])

LockInv ==
    /\ \A p \in Processes : pc[p] \in MustHold => lock = p
    /\ lock # NoProcess => Open(disk, tx, pc[lock])

DrawingInv ==
    \A p \in Processes : pc[p] \in {"insertDrawing", "commitDemo"} => drawing

\* The processes that found no client.
InDemo == {p \in Processes : pc[p] \in DemoSteps}

CountInv == disk.demos + Cardinality(InDemo) <= Cardinality(Processes)

IInv ==
    /\ TypeOK /\ KnowledgeInv /\ LockInv /\ DrawingInv
    /\ DemoWhole /\ CountInv
--------------------------------------------------------------------------------
\* A record with the columns of a database is one.
LEMMA DatabaseRecord ==
    ASSUME NEW t \in SUBSET Tables, NEW c \in SUBSET Columns, NEW g \in SUBSET Gaps,
           NEW u \in SUBSET SeedUsers, NEW m \in Nat, NEW w \in Nat,
           NEW l \in BOOLEAN, NEW o \in BOOLEAN
    PROVE  [tables |-> t, columns |-> c, gaps |-> g, users |-> u, demos |-> m,
            drawings |-> w, linked |-> l, office |-> o] \in Database
BY DEF Database

LEMMA InitIInv == ASSUME StartupAssumption, Init PROVE IInv
<1>1. FreshDatabase \in Database
  BY DEF FreshDatabase, Database
<1>2. disk \in Database /\ disk.demos = 0 /\ disk.drawings = 0
  <2>1. CASE disk = FreshDatabase
    BY <1>1, <2>1 DEF FreshDatabase
  <2>2. CASE disk \in LegacyDatabases
    <3> DEFINE Old == [tables : SUBSET Tables, columns : SUBSET Columns, gaps : SUBSET Gaps,
                       users : SUBSET SeedUsers, demos : {0}, drawings : {0},
                       linked : {FALSE}, office : BOOLEAN]
    <3>1. disk \in Old
      BY <2>2 DEF LegacyDatabases
    <3>2. /\ disk.tables \in SUBSET Tables /\ disk.columns \in SUBSET Columns
          /\ disk.gaps \in SUBSET Gaps /\ disk.users \in SUBSET SeedUsers
          /\ disk.demos = 0 /\ disk.drawings = 0 /\ disk.linked = FALSE
          /\ disk.office \in BOOLEAN
      BY <3>1
    <3>3. disk = [tables |-> disk.tables, columns |-> disk.columns, gaps |-> disk.gaps,
                  users |-> disk.users, demos |-> disk.demos, drawings |-> disk.drawings,
                  linked |-> disk.linked, office |-> disk.office]
      BY <3>1
    <3> HIDE DEF Old
    <3>4. disk \in Database
      <4>1. disk.demos \in Nat /\ disk.drawings \in Nat
        BY <3>2, SMT
      <4>2. disk.linked \in BOOLEAN
        BY <3>2, Zenon
      <4>3. [tables |-> disk.tables, columns |-> disk.columns, gaps |-> disk.gaps,
             users |-> disk.users, demos |-> disk.demos, drawings |-> disk.drawings,
             linked |-> disk.linked, office |-> disk.office] \in Database
        BY <3>2, <4>1, <4>2, DatabaseRecord
      <4>4. QED BY <3>3, <4>3, Zenon
    <3>5. QED BY <3>2, <3>4
  <2>3. QED BY <2>1, <2>2, StartupAssumption DEF Init, StartupAssumption
<1>3. next \in [Processes -> 1 .. Len(SEED_USERS) + 1]
  BY DEF Init, SEED_USERS
<1>4. TypeOK
  BY <1>1, <1>2, <1>3, StartupAssumption DEF Init, TypeOK
<1>5. KnowledgeInv
  <2> SUFFICES ASSUME NEW p \in Processes PROVE Known(View(p), pc[p], next[p])
    BY DEF KnowledgeInv
  <2>1. pc[p] = "down" /\ next[p] = 1 /\ View(p) = disk
    BY StartupAssumption DEF Init, View
  <2>2. \A k \in DOMAIN SEED_USERS : ~(k < 1)
    BY DEF SEED_USERS
  <2>3. pc[p] \notin AfterTables
    BY <2>1 DEF AfterTables, Running, TableSteps, UserSteps, DemoSteps
  <2>4. QED
    BY <2>1, <2>2, <2>3 DEF Known, AfterColumn, AfterStamp, AfterOthers,
       AfterUsers, AfterDecisions, AfterHistory, AfterBackfill
<1>6. LockInv /\ DrawingInv /\ DemoWhole
  BY <1>2 DEF Init, LockInv, DrawingInv, DemoWhole, MustHold, DemoSteps
<1>7. CountInv
  <2>1. InDemo = {}
    BY DEF Init, InDemo, DemoSteps
  <2>2. Cardinality(InDemo) = 0 /\ Cardinality(Processes) \in Nat
    BY <2>1, StartupAssumption, FS_EmptySet, FS_CardinalityType DEF StartupAssumption
  <2>3. QED BY <1>2, <2>2 DEF CountInv
<1>8. QED BY <1>4, <1>5, <1>6, <1>7 DEF IInv

--------------------------------------------------------------------------------
\* What is known of a database is known of one that has grown.
LEMMA KnownGrows ==
    ASSUME NEW d \in Database, NEW e \in Database, Grows(d, e), NEW st, NEW n,
           Known(d, st, n)
    PROVE  Known(e, st, n)
<1>1. d.tables \subseteq e.tables /\ e.tables \subseteq Tables
  BY DEF Grows, Database
<1>2. QED BY <1>1 DEF Known, Grows

LEMMA GrowsReflexive == ASSUME NEW d \in Database PROVE Grows(d, d)
BY DEF Grows, Database

LEMMA GrowsTransitive ==
    ASSUME NEW d \in Database, NEW e \in Database, NEW f \in Database,
           Grows(d, e), Grows(e, f)
    PROVE  Grows(d, f)
BY DEF Grows, Database

LEMMA ViewType == ASSUME IInv, NEW p \in Processes PROVE View(p) \in Database
BY DEF IInv, TypeOK, View

\* A process moves, within its transaction or outside one: what is left to show of it.
LEMMA Moves ==
    ASSUME StartupAssumption, IInv, NEW p \in Processes, NEW st \in Statements,
           GoTo(p, st),
           next' \in [Processes -> 1 .. Len(SEED_USERS) + 1],
           \A q \in Processes \ {p} : next'[q] = next[q],
           st = "insertUser" => next'[p] \in DOMAIN SEED_USERS,
           disk' \in Database, tx' \in Database,
           drawing' \in BOOLEAN, drawing => drawing',
           st \in {"insertDrawing", "commitDemo"} => drawing',
           Known(View(p)', st, next'[p]),
           Grows(disk, disk'),
           \/ lock' = lock /\ lock \notin {NoProcess, p} /\ UNCHANGED <<disk, tx>>
                /\ st \notin MustHold
           \/ lock \in {NoProcess, p} /\ lock' = p /\ st \in MayHold
                /\ Open(disk', tx', st)
           \/ lock \in {NoProcess, p} /\ lock' = NoProcess /\ st \notin MustHold,
           DemoWhole', CountInv'
    PROVE  IInv'
<1> USE DEF IInv
<1>0. lock \in Processes \cup {NoProcess} /\ NoProcess \notin Processes
  BY StartupAssumption DEF TypeOK, StartupAssumption
<1>1. /\ pc' \in [Processes -> Statements] /\ pc'[p] = st
      /\ \A q \in Processes \ {p} : pc'[q] = pc[q]
  BY DEF GoTo, TypeOK, Statements
<1>2. TypeOK'
  <2>1. lock' \in Processes \cup {NoProcess}
    BY <1>0
  <2>2. lock' # NoProcess => pc'[lock'] \in MayHold
    BY <1>0, <1>1 DEF TypeOK
  <2>3. \A q \in Processes : pc'[q] = "insertUser" => next'[q] \in DOMAIN SEED_USERS
    BY <1>1 DEF TypeOK
  <2>4. QED BY <1>1, <2>1, <2>2, <2>3 DEF TypeOK, Statements
<1>3. KnowledgeInv'
  <2> SUFFICES ASSUME NEW q \in Processes PROVE Known(View(q), pc[q], next[q])'
    BY DEF KnowledgeInv
  <2>1. CASE q = p
    BY <2>1, <1>1
  <2>2. CASE q # p
    <3>1. pc'[q] = pc[q] /\ next'[q] = next[q]
      BY <2>2, <1>1
    <3>2. Known(View(q), pc[q], next[q])
      BY DEF KnowledgeInv
    <3>3. View(q) \in Database /\ View(q)' \in Database
      BY ViewType DEF View
    <3>4. Grows(View(q), View(q)')
      <4>1. CASE lock = q
        <5>1. UNCHANGED <<disk, tx>> /\ lock' = q
          BY <4>1, <2>2, <1>0
        <5>2. View(q)' = View(q)
          BY <4>1, <5>1 DEF View
        <5>3. QED BY <3>3, <5>2, GrowsReflexive
      <4>2. CASE lock # q
        BY <4>2, <2>2, <1>0 DEF View
      <4>3. QED BY <4>1, <4>2
    <3>5. Known(View(q)', pc[q], next[q])
      BY <3>2, <3>3, <3>4, KnownGrows
    <3>6. QED BY <3>1, <3>5
  <2>3. QED BY <2>1, <2>2
<1>4. LockInv'
  <2>1. \A q \in Processes : pc'[q] \in MustHold => lock' = q
    BY <1>0, <1>1 DEF LockInv
  <2>2. lock' # NoProcess => Open(disk', tx', pc'[lock'])
    BY <1>0, <1>1 DEF LockInv
  <2>3. QED BY <2>1, <2>2 DEF LockInv
<1>5. DrawingInv'
  BY <1>1 DEF DrawingInv
<1>6. QED BY <1>2, <1>3, <1>4, <1>5

\* Nobody else begins or commits demonstration data, and p does not begin either.
LEMMA SameCount ==
    ASSUME StartupAssumption, IInv, NEW p \in Processes, NEW st, GoTo(p, st),
           disk'.demos = disk.demos, st \notin DemoSteps \/ pc[p] \in DemoSteps
    PROVE  CountInv'
<1>1. IsFiniteSet(InDemo)
  BY StartupAssumption, FS_Subset DEF InDemo, StartupAssumption
<1>2. InDemo' \subseteq InDemo
  BY DEF InDemo, GoTo, IInv, TypeOK
<1>3. /\ Cardinality(InDemo') <= Cardinality(InDemo)
      /\ Cardinality(InDemo') \in Nat /\ Cardinality(InDemo) \in Nat
      /\ Cardinality(Processes) \in Nat
  BY <1>1, <1>2, StartupAssumption, FS_Subset, FS_CardinalityType DEF StartupAssumption
<1>4. disk.demos \in Nat
  BY DEF IInv, TypeOK, Database
<1>5. QED BY <1>3, <1>4 DEF IInv, CountInv

\* A statement that only reads.
LEMMA ReadMove ==
    ASSUME StartupAssumption, IInv, NEW p \in Processes, NEW st \in Statements,
           GoTo(p, st), Read,
           next' \in [Processes -> 1 .. Len(SEED_USERS) + 1],
           \A q \in Processes \ {p} : next'[q] = next[q],
           st = "insertUser" => next'[p] \in DOMAIN SEED_USERS,
           st \notin MustHold,
           lock = p => st \in UserSteps /\ pc[p] \in UserSteps,
           Known(View(p), st, next'[p]),
           CountInv'
    PROVE  IInv'
<1>1. UNCHANGED <<disk, tx, lock, drawing>> /\ View(p)' = View(p)
  BY DEF Read, View
<1>2. st \notin {"insertDrawing", "commitDemo"}
  BY DEF MustHold, DemoSteps
<1>3. lock = p => st \in MayHold /\ Open(disk', tx', st)
  <2> SUFFICES ASSUME lock = p PROVE st \in MayHold /\ Open(disk, tx, st)
    BY <1>1
  <2>1. Open(disk, tx, pc[p]) /\ lock # NoProcess
    BY StartupAssumption DEF IInv, LockInv, StartupAssumption
  <2>2. st \notin DemoSteps /\ pc[p] \notin DemoSteps
    BY DEF UserSteps, DemoSteps
  <2>3. QED BY <2>1, <2>2 DEF Open, MayHold, DemoSteps
<1>4. Grows(disk, disk') /\ DemoWhole' /\ disk' \in Database /\ tx' \in Database
      /\ drawing' \in BOOLEAN
  BY <1>1, GrowsReflexive DEF IInv, DemoWhole, TypeOK
<1>5. lock \in Processes \cup {NoProcess}
  BY DEF IInv, TypeOK
<1>6. QED BY <1>1, <1>2, <1>3, <1>4, <1>5, Moves

\* An INSERT or UPDATE: the transaction begins or goes on.
LEMMA WriteMove ==
    ASSUME StartupAssumption, IInv, NEW p \in Processes, NEW st \in MayHold,
           NEW d \in Database, GoTo(p, st), Write(p, d),
           next' \in [Processes -> 1 .. Len(SEED_USERS) + 1],
           \A q \in Processes \ {p} : next'[q] = next[q],
           st # "insertUser",
           st # "insertDrawing", st = "commitDemo" => drawing,
           Known(d, st, next'[p]), Open(disk, d, st),
           st \notin DemoSteps \/ pc[p] \in DemoSteps
    PROVE  IInv'
<1>1. /\ UNCHANGED <<disk, drawing>> /\ tx' = d /\ lock' = p
      /\ lock \in {NoProcess, p} /\ View(p)' = d
  BY DEF Write, MayWrite, View
<1>2. st \in Statements
  BY DEF Statements, MayHold, Running, TableSteps
<1>3. CountInv'
  BY <1>1, SameCount
<1>4. Grows(disk, disk') /\ DemoWhole' /\ disk' \in Database /\ drawing' \in BOOLEAN
  BY <1>1, GrowsReflexive DEF IInv, DemoWhole, TypeOK
<1>5. QED BY <1>1, <1>2, <1>3, <1>4, Moves

\* A CREATE or ALTER: part of the transaction, or committed at once.
LEMMA DefineMove ==
    ASSUME StartupAssumption, IInv, NEW p \in Processes, NEW st \in Statements,
           NEW d \in Database, GoTo(p, st), Define(p, d), UNCHANGED next,
           Grows(View(p), d),
           d.demos = View(p).demos, d.drawings = View(p).drawings,
           d.linked = View(p).linked,
           pc[p] \notin DemoSteps, st \notin DemoSteps, st # "insertUser",
           lock = p => st \in MayHold, lock # p => st \notin MustHold,
           Known(d, st, next[p])
    PROVE  IInv'
<1>0. next' \in [Processes -> 1 .. Len(SEED_USERS) + 1] /\ lock \in {NoProcess, p}
      /\ UNCHANGED <<lock, drawing>> /\ drawing' \in BOOLEAN
      /\ disk \in Database /\ tx \in Database /\ p # NoProcess
  BY StartupAssumption DEF IInv, TypeOK, Define, MayWrite, StartupAssumption
<1>1. st \notin {"insertDrawing", "commitDemo"}
  BY DEF DemoSteps
<1>2. CASE lock = p
  <2>1. tx' = d /\ UNCHANGED disk /\ View(p)' = d /\ View(p) = tx
    BY <1>0, <1>2 DEF Define, View
  <2>2. Open(disk, tx, pc[p])
    BY <1>0, <1>2 DEF IInv, LockInv
  <2>3. Grows(disk, d)
    BY <2>1, <2>2, <1>0, GrowsTransitive DEF Open
  <2>4. Open(disk', tx', st)
    BY <2>1, <2>2, <2>3, <1>1 DEF Open, DemoSteps
  <2>5. CountInv' /\ Grows(disk, disk') /\ DemoWhole'
    BY <2>1, <1>0, SameCount, GrowsReflexive DEF IInv, DemoWhole
  <2>6. QED BY <1>0, <1>1, <1>2, <2>1, <2>4, <2>5, Moves
<1>3. CASE lock # p
  <2>1. disk' = d /\ UNCHANGED tx /\ View(p)' = d /\ View(p) = disk /\ lock' = NoProcess
    BY <1>0, <1>3 DEF Define, View
  <2>2. CountInv' /\ Grows(disk, disk')
    BY <2>1, SameCount
  <2>3. DemoWhole'
    BY <2>1, <1>0 DEF IInv, DemoWhole
  <2>4. QED BY <1>0, <1>1, <1>3, <2>1, <2>2, <2>3, Moves
<1>4. QED BY <1>2, <1>3

\* The transaction is committed.
LEMMA CommitMove ==
    ASSUME StartupAssumption, IInv, NEW p \in Processes,
           NEW st \in {"probeUser", "countClients", "ready"},
           pc[p] \in {"commitTables", "commitUsers", "commitDemo"},
           GoTo(p, st), Commit(p), UNCHANGED next, Known(View(p), st, next[p])
    PROVE  IInv'
<1>1. lock = p /\ p # NoProcess
  BY StartupAssumption DEF IInv, LockInv, MustHold, DemoSteps, StartupAssumption
<1>2. /\ disk' = tx /\ lock' = NoProcess /\ UNCHANGED <<tx, drawing>>
      /\ View(p) = tx /\ View(p)' = tx
  BY <1>1 DEF Commit, View
<1>3. Open(disk, tx, pc[p]) /\ disk \in Database /\ tx \in Database
      /\ next \in [Processes -> 1 .. Len(SEED_USERS) + 1] /\ drawing \in BOOLEAN
  BY <1>1 DEF IInv, LockInv, TypeOK
<1>4. st \in Statements /\ st \notin MustHold /\ st \notin DemoSteps
  BY DEF Statements, Running, UserSteps, MustHold, DemoSteps
<1>5. DemoWhole'
  <2>1. disk.demos \in Nat /\ disk.drawings \in Nat
    BY <1>3 DEF Database
  <2>2. tx.demos = tx.drawings
    BY <1>3, <2>1 DEF Open, DemoSteps, IInv, DemoWhole
  <2>3. tx.demos > 0 => tx.linked /\ drawing
    BY <1>3, <2>1 DEF Open, Grows, DemoSteps, IInv, DemoWhole, DrawingInv
  <2>4. QED BY <1>2, <2>2, <2>3 DEF DemoWhole
<1>6. CountInv'
  <2>1. CASE pc[p] = "commitDemo"
    <3>1. InDemo' = InDemo \ {p} /\ p \in InDemo
      BY <1>4, <2>1 DEF InDemo, GoTo, IInv, TypeOK, DemoSteps
    <3>2. IsFiniteSet(InDemo)
      BY StartupAssumption, FS_Subset DEF InDemo, StartupAssumption
    <3>3. Cardinality(InDemo') = Cardinality(InDemo) - 1 /\ Cardinality(InDemo) \in Nat
          /\ Cardinality(Processes) \in Nat
      BY <3>1, <3>2, StartupAssumption, FS_RemoveElement, FS_CardinalityType
         DEF StartupAssumption
    <3>4. disk'.demos = disk.demos + 1 /\ disk.demos \in Nat
      BY <1>2, <1>3, <2>1 DEF Open, DemoSteps, Database
    <3>5. QED BY <3>3, <3>4 DEF IInv, CountInv
  <2>2. CASE pc[p] # "commitDemo"
    <3>1. disk'.demos = disk.demos
      BY <1>2, <1>3, <2>2 DEF Open, DemoSteps
    <3>2. QED BY <1>4, <3>1, SameCount
  <2>3. QED BY <2>1, <2>2
<1>7. QED BY <1>1, <1>2, <1>3, <1>4, <1>5, <1>6, Moves DEF Open

\* The process gives up or stops: its transaction is rolled back.
LEMMA AbandonMove ==
    ASSUME StartupAssumption, IInv, NEW p \in Processes, NEW st \in {"down", "failed"},
           GoTo(p, st), Abandon(p)
    PROVE  IInv'
<1>1. /\ UNCHANGED <<disk, tx, drawing>>
      /\ lock' = IF lock = p THEN NoProcess ELSE lock
      /\ next' = [next EXCEPT ![p] = 1]
  BY DEF Abandon, RolledBack, LockAfterClose
<1>2. /\ disk \in Database /\ tx \in Database /\ drawing \in BOOLEAN
      /\ lock \in Processes \cup {NoProcess} /\ p # NoProcess
      /\ next' \in [Processes -> 1 .. Len(SEED_USERS) + 1] /\ next'[p] = 1
      /\ \A q \in Processes \ {p} : next'[q] = next[q]
  BY <1>1, StartupAssumption DEF IInv, TypeOK, SEED_USERS, StartupAssumption
<1>3. /\ st \in Statements /\ st \notin MustHold /\ st \notin DemoSteps
      /\ st \notin AfterTables
  BY DEF Statements, Running, TableSteps, UserSteps, MustHold, DemoSteps, AfterTables
<1>4. Known(View(p)', st, next'[p])
  BY <1>2, <1>3 DEF Known, AfterColumn, AfterStamp, AfterOthers, AfterUsers,
     AfterDecisions, AfterHistory, AfterBackfill, SEED_USERS
<1>5. CountInv' /\ Grows(disk, disk') /\ DemoWhole'
  BY <1>1, <1>2, <1>3, SameCount, GrowsReflexive DEF IInv, DemoWhole
<1>6. QED BY <1>1, <1>2, <1>3, <1>4, <1>5, Moves

\* The demonstration drawing is written.
LEMMA WriteDrawingMove ==
    ASSUME StartupAssumption, IInv, NEW p \in Processes, WriteDrawing(p)
    PROVE  IInv'
<1>1. /\ pc[p] = "writeDrawing" /\ drawing' = TRUE /\ UNCHANGED <<disk, tx, lock, next>>
      /\ GoTo(p, "insertDrawing") /\ View(p)' = View(p)
  BY DEF WriteDrawing, View
<1>2. lock = p /\ p # NoProcess
  BY <1>1, StartupAssumption DEF IInv, LockInv, MustHold, DemoSteps, StartupAssumption
<1>3. /\ Open(disk, tx, "insertDrawing") /\ disk \in Database /\ tx \in Database
      /\ next \in [Processes -> 1 .. Len(SEED_USERS) + 1]
  BY <1>1, <1>2 DEF IInv, LockInv, TypeOK, Open, DemoSteps
<1>4. "insertDrawing" \in Statements /\ "insertDrawing" \in MayHold
  BY DEF Statements, Running, MayHold, DemoSteps
<1>5. Known(View(p), "insertDrawing", next[p])
  <2>1. Known(View(p), "writeDrawing", next[p])
    BY <1>1 DEF IInv, KnowledgeInv
  <2>2. "writeDrawing" \in AfterBackfill
    BY DEF AfterBackfill, AfterHistory, AfterDecisions, AfterUsers, AfterOthers,
       AfterStamp, AfterColumn, AfterTables, Running, DemoSteps
  <2>3. QED BY <2>1, <2>2 DEF Known, AfterBackfill, AfterHistory, AfterDecisions,
       AfterUsers, AfterOthers, AfterStamp, AfterColumn
<1>6. CountInv' /\ Grows(disk, disk') /\ DemoWhole'
  BY <1>1, <1>3, SameCount, GrowsReflexive DEF IInv, DemoWhole, DemoSteps
<1>7. QED BY <1>1, <1>2, <1>3, <1>4, <1>5, <1>6, Moves

\* The office creates its first client or deletes its last one.
LEMMA OfficeMove ==
    ASSUME StartupAssumption, IInv, NEW p \in Processes,
           OfficeCreates(p) \/ OfficeDeletes(p)
    PROVE  IInv'
<1>1. PICK o \in BOOLEAN : disk' = [disk EXCEPT !.office = o]
  BY DEF OfficeCreates, OfficeDeletes
<1>2. lock = NoProcess /\ UNCHANGED <<tx, lock, drawing, pc, next>>
  BY DEF OfficeCreates, OfficeDeletes
<1>3. /\ disk'.tables = disk.tables /\ disk'.columns = disk.columns
      /\ disk'.gaps = disk.gaps /\ disk'.users = disk.users
      /\ disk'.demos = disk.demos /\ disk'.drawings = disk.drawings
      /\ disk'.linked = disk.linked /\ disk' \in Database
  BY <1>1 DEF IInv, TypeOK, Database
<1>4. TypeOK'
  BY <1>2, <1>3 DEF IInv, TypeOK
<1>5. KnowledgeInv'
  <2> SUFFICES ASSUME NEW q \in Processes PROVE Known(View(q), pc[q], next[q])'
    BY DEF KnowledgeInv
  <2>1. View(q) = disk /\ View(q)' = disk'
    BY <1>2, StartupAssumption DEF View, StartupAssumption
  <2>2. Known(disk, pc[q], next[q])
    BY <2>1 DEF IInv, KnowledgeInv
  <2>3. QED BY <1>2, <1>3, <2>1, <2>2 DEF Known
<1>6. LockInv' /\ DrawingInv' /\ DemoWhole'
  BY <1>2, <1>3 DEF IInv, LockInv, DrawingInv, DemoWhole
<1>7. CountInv'
  BY <1>2, <1>3 DEF IInv, CountInv, InDemo
<1>8. QED BY <1>4, <1>5, <1>6, <1>7 DEF IInv
--------------------------------------------------------------------------------
(* create_tables. *)

\* What holds where a process stands.
LEMMA Here ==
    ASSUME StartupAssumption, IInv, NEW p \in Processes
    PROVE  /\ Known(View(p), pc[p], next[p]) /\ View(p) \in Database
           /\ disk \in Database /\ pc[p] \in Statements
           /\ next \in [Processes -> 1 .. Len(SEED_USERS) + 1]
           /\ lock = p => pc[p] \in MayHold /\ View(p) = tx /\ Open(disk, tx, pc[p])
           /\ lock # p => View(p) = disk
           /\ pc[p] \in MustHold => lock = p
BY ViewType DEF IInv, KnowledgeInv, TypeOK, View, LockInv, Statements, StartupAssumption

LEMMA StartMove ==
    ASSUME StartupAssumption, IInv, NEW p \in Processes, Start(p) PROVE IInv'
<1>1. /\ GoTo(p, "createTables") /\ Read /\ next' = [next EXCEPT ![p] = 1]
      /\ pc[p] \in {"down", "failed"} /\ UNCHANGED disk
  BY DEF Start, Read
<1>2. next' \in [Processes -> 1 .. Len(SEED_USERS) + 1] /\ next'[p] = 1
      /\ \A q \in Processes \ {p} : next'[q] = next[q]
  BY <1>1, Here DEF SEED_USERS
<1>3. lock # p
  BY <1>1, Here DEF MayHold, UserSteps, DemoSteps
<1>4. /\ "createTables" \in Statements /\ "createTables" \notin MustHold
      /\ "createTables" \notin DemoSteps /\ "createTables" \notin AfterTables
  BY DEF Statements, Running, TableSteps, UserSteps, DemoSteps, MustHold, AfterTables
<1>5. Known(View(p), "createTables", next'[p])
  BY <1>2, <1>4 DEF Known, AfterColumn, AfterStamp, AfterOthers, AfterUsers,
     AfterDecisions, AfterHistory, AfterBackfill, SEED_USERS
<1>6. CountInv'
  BY <1>1, <1>4, SameCount
<1>7. QED BY <1>1, <1>2, <1>3, <1>4, <1>5, <1>6, ReadMove

\* A database with one more table, and one with more columns.
LEMMA TableAdded ==
    ASSUME NEW d \in Database, NEW t \in Tables
    PROVE  LET e == [d EXCEPT !.tables = @ \cup {t}, !.columns = @ \cup ColumnsOf[t]]
           IN  /\ e \in Database /\ Grows(d, e)
               /\ e.demos = d.demos /\ e.drawings = d.drawings /\ e.linked = d.linked
<1> DEFINE e == [d EXCEPT !.tables = @ \cup {t}, !.columns = @ \cup ColumnsOf[t]]
<1>0. ColumnsOf[t] \subseteq Columns
  BY DEF ColumnsOf, Columns, Tables
<1>1. d.tables \cup {t} \in SUBSET Tables /\ d.columns \cup ColumnsOf[t] \in SUBSET Columns
  BY <1>0 DEF Database
<1>2. e \in Database
  BY <1>1 DEF Database
<1>3. /\ e.tables = d.tables \cup {t} /\ e.columns = d.columns \cup ColumnsOf[t]
      /\ e.gaps = d.gaps /\ e.users = d.users /\ e.demos = d.demos
      /\ e.drawings = d.drawings /\ e.linked = d.linked
  BY DEF Database
<1>4. d.demos \in Nat /\ d.drawings \in Nat
  BY DEF Database
<1> HIDE DEF e
<1>5. Grows(d, e)
  BY <1>3, <1>4 DEF Grows
<1>6. QED BY <1>2, <1>3, <1>5 DEF e

LEMMA ColumnsAdded ==
    ASSUME NEW d \in Database, NEW c \in SUBSET Columns
    PROVE  LET e == [d EXCEPT !.columns = @ \cup c]
           IN  /\ e \in Database /\ Grows(d, e) /\ e.columns = d.columns \cup c
               /\ e.demos = d.demos /\ e.drawings = d.drawings /\ e.linked = d.linked
<1> DEFINE e == [d EXCEPT !.columns = @ \cup c]
<1>1. d.columns \cup c \in SUBSET Columns
  BY DEF Database
<1>2. e \in Database
  BY <1>1 DEF Database
<1>3. /\ e.tables = d.tables /\ e.columns = d.columns \cup c
      /\ e.gaps = d.gaps /\ e.users = d.users
      /\ e.demos = d.demos /\ e.drawings = d.drawings /\ e.linked = d.linked
  BY DEF Database
<1>4. d.demos \in Nat /\ d.drawings \in Nat
  BY DEF Database
<1> HIDE DEF e
<1>5. Grows(d, e)
  BY <1>3, <1>4 DEF Grows
<1>6. QED BY <1>2, <1>3, <1>5 DEF e

LEMMA CreateTableMove ==
    ASSUME StartupAssumption, IInv, NEW p \in Processes, CreateTable(p) PROVE IInv'
<1>1. pc[p] = "createTables" /\ UNCHANGED next
  BY DEF CreateTable
<1>2. lock # p /\ View(p) = disk
  BY <1>1, Here DEF MayHold, UserSteps, DemoSteps
<1>3. /\ "createTables" \in Statements /\ "createTables" \notin MustHold
      /\ "createTables" \notin DemoSteps /\ "createTables" \notin AfterTables
  BY DEF Statements, Running, TableSteps, UserSteps, DemoSteps, MustHold, AfterTables
<1>4. ASSUME NEW k \in DOMAIN SCHEMA,
             Define(p, [disk EXCEPT !.tables = @ \cup {SCHEMA[k]},
                                    !.columns = @ \cup ColumnsOf[SCHEMA[k]]]),
             UNCHANGED pc
      PROVE  IInv'
  <2> DEFINE t == SCHEMA[k]
  <2> DEFINE d == [disk EXCEPT !.tables = @ \cup {t}, !.columns = @ \cup ColumnsOf[t]]
  <2>1. t \in Tables
    BY DEF SCHEMA, Tables
  <2>2. Define(p, d)
    BY <1>4
  <2> HIDE DEF t
  <2>3. d \in Database /\ Grows(disk, d) /\ d.demos = disk.demos
        /\ d.drawings = disk.drawings /\ d.linked = disk.linked
    BY <2>1, Here, TableAdded
  <2>4. GoTo(p, "createTables")
    BY <1>1, <1>4 DEF GoTo, IInv, TypeOK
  <2>5. Known(d, "createTables", next[p])
    BY <1>1, <1>2, <2>3, Here, KnownGrows
  <2> HIDE DEF d
  <2>6. QED
    BY <1>1, <1>2, <1>3, <2>2, <2>3, <2>4, <2>5, DefineMove
<1>5. ASSUME disk.tables = Tables, GoTo(p, "checkProjects"), Read PROVE IInv'
  <2>1. /\ "checkProjects" \in Statements /\ "checkProjects" \notin MustHold
        /\ "checkProjects" \notin DemoSteps /\ "checkProjects" \notin AfterColumn
    BY DEF Statements, Running, TableSteps, DemoSteps, MustHold, AfterColumn
  <2>2. Known(View(p), "checkProjects", next[p])
    BY <1>1, <1>2, <1>5, <2>1, Here DEF Known, AfterStamp, AfterOthers, AfterUsers,
       AfterDecisions, AfterHistory, AfterBackfill
  <2>3. CountInv'
    BY <1>5, <2>1, SameCount DEF Read
  <2>4. QED BY <1>1, <1>2, <1>5, <2>1, <2>2, <2>3, Here, ReadMove
<1>6. QED BY <1>4, <1>5 DEF CreateTable

\* The columns of a table are looked at.
LEMMA CheckColumnsMove ==
    ASSUME StartupAssumption, IInv, NEW p \in Processes, CheckColumns(p)
    PROVE  IInv'
<1> DEFINE st == AfterCheck(View(p).columns)[pc[p]]
<1>1. pc[p] \in CheckSteps /\ GoTo(p, st) /\ UNCHANGED <<next, disk>> /\ Read
  BY DEF CheckColumns, Read
<1>2. /\ pc[p] = "checkProjects" => st = AfterProjects(View(p).columns)
      /\ pc[p] = "checkDecisionLog" => st = AfterDecisionLog(View(p).columns)
      /\ pc[p] = "checkChangeHistory" => st = AfterChangeHistory(View(p).columns)
  BY DEF AfterCheck
<1> HIDE DEF st
<1>3. Known(View(p), pc[p], next[p])
  BY Here
<1>4. /\ st \in Statements /\ st \notin MustHold /\ st \notin DemoSteps
      /\ st # "insertUser"
      /\ lock = p => st \in UserSteps /\ pc[p] \in UserSteps
      /\ Known(View(p), st, next[p])
  <2>1. CASE pc[p] = "checkProjects"
    <3>1. /\ st \in {"stampProjects", "alterProjects"}
          /\ st = "stampProjects" => "updatedAt" \in View(p).columns
      BY <1>2, <2>1 DEF AfterProjects
    <3>2. lock # p
      BY <2>1, Here DEF MayHold, UserSteps, DemoSteps
    <3>3. Known(View(p), st, next[p])
      BY <1>3, <2>1, <3>1 DEF Known, AfterTables, AfterColumn, AfterStamp, AfterOthers,
         AfterUsers, AfterDecisions, AfterHistory, AfterBackfill, Running, TableSteps
    <3>4. QED BY <3>1, <3>2, <3>3 DEF Statements, Running, TableSteps, DemoSteps, MustHold
  <2>2. CASE pc[p] = "checkDecisionLog"
    <3>1. /\ st \in {"checkChangeHistory", "alterDecisionLog"}
          /\ st = "checkChangeHistory" => "decisionAuthor" \in View(p).columns
      BY <1>2, <2>2 DEF AfterDecisionLog
    <3>2. Known(View(p), st, next[p])
      BY <1>3, <2>2, <3>1 DEF Known, AfterTables, AfterColumn, AfterStamp, AfterOthers,
         AfterUsers, AfterDecisions, AfterHistory, AfterBackfill, Running, UserSteps
    <3>3. QED BY <2>2, <3>1, <3>2 DEF Statements, Running, UserSteps, DemoSteps, MustHold
  <2>3. CASE pc[p] = "checkChangeHistory"
    <3>1. /\ st \in {"backfill", "alterBoth", "alterDecisionId", "alterChangeAuthor"}
          /\ st \in {"backfill", "alterChangeAuthor"} => "decisionId" \in View(p).columns
          /\ st \in {"backfill", "alterDecisionId"} => "changeAuthor" \in View(p).columns
      BY <1>2, <2>3 DEF AfterChangeHistory
    <3>2. Known(View(p), st, next[p])
      BY <1>3, <2>3, <3>1 DEF Known, AfterTables, AfterColumn, AfterStamp, AfterOthers,
         AfterUsers, AfterDecisions, AfterHistory, AfterBackfill, Running, UserSteps
    <3>3. QED BY <2>3, <3>1, <3>2 DEF Statements, Running, UserSteps, DemoSteps, MustHold
  <2>4. QED BY <1>1, <2>1, <2>2, <2>3 DEF CheckSteps
<1>5. CountInv'
  BY <1>1, <1>4, SameCount
<1>6. QED BY <1>1, <1>4, <1>5, Here, ReadMove

LEMMA FailMove ==
    ASSUME StartupAssumption, IInv, NEW p \in Processes, Fail(p) PROVE IInv'
BY AbandonMove DEF Fail

LEMMA AlterTableMove ==
    ASSUME StartupAssumption, IInv, NEW p \in Processes,
           NEW step \in DOMAIN Alterations, AlterTable(p, step)
    PROVE  IInv'
<1>1. CASE Fail(p)
  BY <1>1, FailMove
<1>2. CASE ~Fail(p)
  <2> DEFINE column == Alterations[step].column
  <2> DEFINE st == Alterations[step].then
  <2> DEFINE d == [View(p) EXCEPT !.columns = @ \cup {column}]
  <2>1. pc[p] = step /\ Define(p, d) /\ GoTo(p, st) /\ UNCHANGED next
    BY <1>2 DEF AlterTable
  <2>2. \/ step = "alterProjects" /\ column = "updatedAt" /\ st = "stampProjects"
        \/ step = "alterDecisionLog" /\ column = "decisionAuthor" /\ st = "checkChangeHistory"
        \/ step = "alterBoth" /\ column = "decisionId" /\ st = "alterChangeAuthor"
        \/ step = "alterDecisionId" /\ column = "decisionId" /\ st = "backfill"
        \/ step = "alterChangeAuthor" /\ column = "changeAuthor" /\ st = "backfill"
    BY DEF Alterations
  <2> HIDE DEF column, st
  <2>3. /\ d \in Database /\ Grows(View(p), d) /\ d.demos = View(p).demos
        /\ d.drawings = View(p).drawings /\ d.linked = View(p).linked
        /\ d.columns = View(p).columns \cup {column}
    <3>1. {column} \in SUBSET Columns
      BY <2>2 DEF Columns
    <3>2. View(p) \in Database
      BY Here
    <3>3. QED BY <3>1, <3>2, ColumnsAdded, Zenon
  <2> HIDE DEF d
  <2>4. /\ st \in Statements /\ st \notin MustHold /\ st \notin DemoSteps
        /\ st # "insertUser" /\ pc[p] \notin DemoSteps
    BY <2>1, <2>2 DEF Statements, Running, TableSteps, UserSteps, DemoSteps, MustHold
  <2>5. lock = p => st \in MayHold
    BY <2>1, <2>2, Here DEF MayHold, UserSteps, DemoSteps
  <2>6. Known(d, st, next[p])
    <3>1. Known(d, step, next[p])
      BY <2>1, <2>3, Here, KnownGrows
    <3>2. CASE step = "alterProjects"
      BY <2>2, <2>3, <3>1, <3>2 DEF Known, AfterTables, AfterColumn, AfterStamp,
         AfterOthers, AfterUsers, AfterDecisions, AfterHistory, AfterBackfill, Running,
         TableSteps
    <3>3. CASE step # "alterProjects"
      BY <2>2, <2>3, <3>1, <3>3 DEF Known, AfterTables, AfterColumn, AfterStamp,
         AfterOthers, AfterUsers, AfterDecisions, AfterHistory, AfterBackfill, Running,
         UserSteps
    <3>4. QED BY <3>2, <3>3
  <2>7. QED BY <2>1, <2>3, <2>4, <2>5, <2>6, DefineMove
<1>3. QED BY <1>1, <1>2
--------------------------------------------------------------------------------
(* The transactions. *)

\* Rows get their values; an account, a demonstration client, a drawing is added.
LEMMA GapsFilled ==
    ASSUME NEW d \in Database, NEW g \in SUBSET Gaps
    PROVE  LET e == [d EXCEPT !.gaps = @ \ g]
           IN  /\ e \in Database /\ Grows(d, e)
               /\ e.tables = d.tables /\ e.columns = d.columns
               /\ e.gaps = d.gaps \ g
               /\ e.users = d.users
               /\ e.demos = d.demos /\ e.drawings = d.drawings /\ e.linked = d.linked
<1> DEFINE e == [d EXCEPT !.gaps = @ \ g]
<1>1. d.gaps \ g \in SUBSET Gaps
  BY DEF Database
<1>2. e \in Database
  BY <1>1 DEF Database
<1>3. /\ e.tables = d.tables /\ e.columns = d.columns
      /\ e.gaps = d.gaps \ g /\ e.users = d.users
      /\ e.demos = d.demos /\ e.drawings = d.drawings /\ e.linked = d.linked
  BY DEF Database
<1>4. d.demos \in Nat /\ d.drawings \in Nat
  BY DEF Database
<1> HIDE DEF e
<1>5. Grows(d, e)
  BY <1>3, <1>4 DEF Grows
<1>6. QED BY <1>2, <1>3, <1>5 DEF e

LEMMA UserAdded ==
    ASSUME NEW d \in Database, NEW u \in SeedUsers
    PROVE  LET e == [d EXCEPT !.users = @ \cup {u}]
           IN  /\ e \in Database /\ Grows(d, e)
               /\ e.tables = d.tables /\ e.columns = d.columns
               /\ e.gaps = d.gaps
               /\ e.users = d.users \cup {u}
               /\ e.demos = d.demos /\ e.drawings = d.drawings /\ e.linked = d.linked
<1> DEFINE e == [d EXCEPT !.users = @ \cup {u}]
<1>1. d.users \cup {u} \in SUBSET SeedUsers
  BY DEF Database
<1>2. e \in Database
  BY <1>1 DEF Database
<1>3. /\ e.tables = d.tables /\ e.columns = d.columns
      /\ e.gaps = d.gaps /\ e.users = d.users \cup {u}
      /\ e.demos = d.demos /\ e.drawings = d.drawings /\ e.linked = d.linked
  BY DEF Database
<1>4. d.demos \in Nat /\ d.drawings \in Nat
  BY DEF Database
<1> HIDE DEF e
<1>5. Grows(d, e)
  BY <1>3, <1>4 DEF Grows
<1>6. QED BY <1>2, <1>3, <1>5 DEF e

LEMMA DemoAdded ==
    ASSUME NEW d \in Database
    PROVE  LET e == [d EXCEPT !.demos = @ + 1, !.linked = TRUE]
           IN  /\ e \in Database /\ Grows(d, e)
               /\ e.tables = d.tables /\ e.columns = d.columns
               /\ e.gaps = d.gaps
               /\ e.users = d.users
               /\ e.demos = d.demos + 1 /\ e.drawings = d.drawings /\ e.linked = TRUE
<1> DEFINE e == [d EXCEPT !.demos = @ + 1, !.linked = TRUE]
<1>1. d.demos + 1 \in Nat
  BY DEF Database
<1>2. e \in Database
  BY <1>1 DEF Database
<1>3. /\ e.tables = d.tables /\ e.columns = d.columns
      /\ e.gaps = d.gaps /\ e.users = d.users
      /\ e.demos = d.demos + 1 /\ e.drawings = d.drawings /\ e.linked = TRUE
  BY DEF Database
<1>4. d.demos \in Nat /\ d.drawings \in Nat
  BY DEF Database
<1> HIDE DEF e
<1>5. Grows(d, e)
  BY <1>3, <1>4 DEF Grows
<1>6. QED BY <1>2, <1>3, <1>5 DEF e

LEMMA DrawingAdded ==
    ASSUME NEW d \in Database
    PROVE  LET e == [d EXCEPT !.drawings = @ + 1]
           IN  /\ e \in Database /\ Grows(d, e)
               /\ e.tables = d.tables /\ e.columns = d.columns
               /\ e.gaps = d.gaps
               /\ e.users = d.users
               /\ e.demos = d.demos /\ e.drawings = d.drawings + 1 /\ e.linked = d.linked
<1> DEFINE e == [d EXCEPT !.drawings = @ + 1]
<1>1. d.drawings + 1 \in Nat
  BY DEF Database
<1>2. e \in Database
  BY <1>1 DEF Database
<1>3. /\ e.tables = d.tables /\ e.columns = d.columns
      /\ e.gaps = d.gaps /\ e.users = d.users
      /\ e.demos = d.demos /\ e.drawings = d.drawings + 1 /\ e.linked = d.linked
  BY DEF Database
<1>4. d.demos \in Nat /\ d.drawings \in Nat
  BY DEF Database
<1> HIDE DEF e
<1>5. Grows(d, e)
  BY <1>3, <1>4 DEF Grows
<1>6. QED BY <1>2, <1>3, <1>5 DEF e

\* A write that is no demonstration data, on the transaction as far as it is open.
LEMMA OpenKept ==
    ASSUME StartupAssumption, IInv, NEW p \in Processes, NEW d \in Database,
           NEW st \in Statements \ DemoSteps, pc[p] \notin DemoSteps, Grows(View(p), d),
           d.demos = View(p).demos, d.drawings = View(p).drawings
    PROVE  Open(disk, d, st)
<1>1. CASE lock = p
  <2>1. View(p) = tx /\ Open(disk, tx, pc[p]) /\ tx \in Database
    BY <1>1, Here
  <2>2. Grows(disk, d)
    BY <2>1, Here, GrowsTransitive DEF Open
  <2>3. QED BY <2>1, <2>2 DEF Open, DemoSteps
<1>2. CASE lock # p
  BY <1>2, Here DEF Open, DemoSteps
<1>3. QED BY <1>1, <1>2

LEMMA StampProjectsMove ==
    ASSUME StartupAssumption, IInv, NEW p \in Processes, StampProjects(p) PROVE IInv'
<1> DEFINE d == [View(p) EXCEPT !.gaps = @ \ {"updatedAt"}]
<1>1. pc[p] = "stampProjects" /\ Write(p, d) /\ GoTo(p, "alterOthers") /\ UNCHANGED next
  BY DEF StampProjects
<1>2. /\ d \in Database /\ Grows(View(p), d) /\ d.gaps = View(p).gaps \ {"updatedAt"}
      /\ d.demos = View(p).demos /\ d.drawings = View(p).drawings
  <2>1. {"updatedAt"} \in SUBSET Gaps
    BY DEF Gaps
  <2>2. View(p) \in Database
    BY Here
  <2>3. QED BY <2>1, <2>2, GapsFilled, Zenon
<1> HIDE DEF d
<1>3. /\ "alterOthers" \in Statements \ DemoSteps /\ "alterOthers" \in MayHold
      /\ pc[p] \notin DemoSteps
  BY <1>1 DEF Statements, Running, TableSteps, DemoSteps, MayHold
<1>4. Known(d, "alterOthers", next[p])
  <2>1. Known(d, "stampProjects", next[p])
    BY <1>1, <1>2, Here, KnownGrows
  <2>2. QED BY <1>2, <2>1
     DEF Known, AfterTables, AfterColumn, AfterStamp, AfterOthers, AfterUsers,
     AfterDecisions, AfterHistory, AfterBackfill, Running, TableSteps, UserSteps, DemoSteps
<1>5. Open(disk, d, "alterOthers")
  BY <1>2, <1>3, OpenKept
<1>6. QED BY <1>1, <1>2, <1>3, <1>4, <1>5, Here, WriteMove

LEMMA AlterOthersMove ==
    ASSUME StartupAssumption, IInv, NEW p \in Processes, AlterOthers(p) PROVE IInv'
<1> DEFINE d == [View(p) EXCEPT !.columns = @ \cup {"userColumns", "otherColumns"}]
<1>1. pc[p] = "alterOthers" /\ Define(p, d) /\ GoTo(p, "commitTables") /\ UNCHANGED next
  BY DEF AlterOthers
<1>2. /\ d \in Database /\ Grows(View(p), d)
      /\ d.columns = View(p).columns \cup {"userColumns", "otherColumns"}
      /\ d.demos = View(p).demos /\ d.drawings = View(p).drawings
      /\ d.linked = View(p).linked
  <2>1. {"userColumns", "otherColumns"} \in SUBSET Columns
    BY DEF Columns
  <2>2. View(p) \in Database
    BY Here
  <2>3. QED BY <2>1, <2>2, ColumnsAdded, Zenon
<1> HIDE DEF d
<1>3. /\ "commitTables" \in Statements /\ "commitTables" \notin DemoSteps
      /\ "commitTables" \in MayHold /\ pc[p] \notin DemoSteps /\ pc[p] \in MustHold
  BY <1>1 DEF Statements, Running, TableSteps, DemoSteps, MayHold, MustHold
<1>4. Known(d, "commitTables", next[p])
  <2>1. Known(d, "alterOthers", next[p])
    BY <1>1, <1>2, Here, KnownGrows
  <2>2. QED BY <1>2, <2>1
     DEF Known, AfterTables, AfterColumn, AfterStamp, AfterOthers, AfterUsers,
     AfterDecisions, AfterHistory, AfterBackfill, Running, TableSteps, UserSteps, DemoSteps
<1>5. QED BY <1>1, <1>2, <1>3, <1>4, Here, DefineMove

LEMMA CommitTablesMove ==
    ASSUME StartupAssumption, IInv, NEW p \in Processes, CommitTables(p) PROVE IInv'
<1>1. pc[p] = "commitTables" /\ Commit(p) /\ GoTo(p, "probeUser") /\ UNCHANGED next
  BY DEF CommitTables
<1>2. Known(View(p), "probeUser", next[p])
  <2>1. Known(View(p), "commitTables", next[p])
    BY <1>1, Here
  <2>2. QED BY <2>1
     DEF Known, AfterTables, AfterColumn, AfterStamp, AfterOthers, AfterUsers,
     AfterDecisions, AfterHistory, AfterBackfill, Running, TableSteps, UserSteps, DemoSteps
<1>3. QED BY <1>1, <1>2, CommitMove

LEMMA ProbeUserMove ==
    ASSUME StartupAssumption, IInv, NEW p \in Processes, ProbeUser(p) PROVE IInv'
<1>1. pc[p] = "probeUser" /\ Read /\ UNCHANGED disk /\ Known(View(p), "probeUser", next[p])
  BY Here DEF ProbeUser, Read
<1>2. next[p] \in 1 .. 4 /\ Len(SEED_USERS) = 3 /\ DOMAIN SEED_USERS = 1 .. 3
  BY Here DEF SEED_USERS
<1>3. /\ {"probeUser", "insertUser", "checkDecisionLog"} \subseteq Statements
      /\ {"probeUser", "insertUser", "checkDecisionLog"} \subseteq UserSteps
      /\ {"probeUser", "insertUser", "checkDecisionLog"} \cap (MustHold \cup DemoSteps) = {}
  BY DEF Statements, Running, UserSteps, MustHold, DemoSteps
<1>4. CASE next[p] > Len(SEED_USERS)
  <2>1. GoTo(p, "checkDecisionLog") /\ UNCHANGED next
    BY <1>2, <1>4 DEF ProbeUser
  <2>2. SeedUsers \subseteq View(p).users
    BY <1>1, <1>2, <1>4 DEF Known, SeedUsers
  <2>3. Known(View(p), "checkDecisionLog", next[p])
    BY <1>1, <2>2 DEF Known, AfterTables, AfterColumn, AfterStamp, AfterOthers, AfterUsers,
     AfterDecisions, AfterHistory, AfterBackfill, Running, TableSteps, UserSteps, DemoSteps
  <2>4. CountInv'
    BY <1>1, <1>3, <2>1, SameCount
  <2>5. QED BY <1>1, <1>3, <2>1, <2>3, <2>4, Here, ReadMove
<1>5. CASE next[p] <= Len(SEED_USERS) /\ Account(p) \in View(p).users
  <2>1. next' = [next EXCEPT ![p] = @ + 1] /\ UNCHANGED pc
    BY <1>2, <1>5 DEF ProbeUser
  <2>2. GoTo(p, "probeUser")
    BY <1>1, <2>1 DEF GoTo, IInv, TypeOK
  <2>3. /\ next' \in [Processes -> 1 .. Len(SEED_USERS) + 1] /\ next'[p] = next[p] + 1
        /\ \A q \in Processes \ {p} : next'[q] = next[q]
    BY <1>2, <1>5, <2>1, Here
  <2>4. Known(View(p), "probeUser", next'[p])
    <3>1. SEED_USERS[next[p]] \in View(p).users
      BY <1>5 DEF Account
    <3>2. \A k \in DOMAIN SEED_USERS : k < next[p] + 1 => SEED_USERS[k] \in View(p).users
      <4> SUFFICES ASSUME NEW k \in 1 .. 3, k < next[p] + 1
                   PROVE  SEED_USERS[k] \in View(p).users
        BY <1>2
      <4>1. k < next[p] \/ k = next[p]
        BY <1>2
      <4>2. k < next[p] => SEED_USERS[k] \in View(p).users
        BY <1>1, <1>2 DEF Known
      <4>3. QED BY <3>1, <4>1, <4>2
    <3>3. QED BY <1>1, <2>3, <3>2 DEF Known
  <2>5. CountInv'
    BY <1>1, <1>3, <2>2, SameCount
  <2>6. QED BY <1>1, <1>3, <2>2, <2>3, <2>4, <2>5, ReadMove
<1>6. CASE next[p] <= Len(SEED_USERS) /\ Account(p) \notin View(p).users
  <2>1. GoTo(p, "insertUser") /\ UNCHANGED next
    BY <1>2, <1>6 DEF ProbeUser
  <2>2. next'[p] \in DOMAIN SEED_USERS
    BY <1>2, <1>6, <2>1
  <2>3. Known(View(p), "insertUser", next[p])
    BY <1>1 DEF Known, AfterTables, AfterColumn, AfterStamp, AfterOthers, AfterUsers,
     AfterDecisions, AfterHistory, AfterBackfill, Running, TableSteps, UserSteps, DemoSteps
  <2>4. CountInv'
    BY <1>1, <1>3, <2>1, SameCount
  <2>5. QED BY <1>1, <1>3, <2>1, <2>2, <2>3, <2>4, Here, ReadMove
<1>7. QED BY <1>2, <1>4, <1>5, <1>6

LEMMA InsertUserMove ==
    ASSUME StartupAssumption, IInv, NEW p \in Processes, InsertUser(p) PROVE IInv'
<1>1. CASE Fail(p)
  BY <1>1, FailMove
<1>2. CASE ~Fail(p)
  <2> DEFINE d == [View(p) EXCEPT !.users = @ \cup {Account(p)}]
  <2>1. /\ pc[p] = "insertUser" /\ Write(p, d) /\ GoTo(p, "probeUser")
        /\ next' = [next EXCEPT ![p] = @ + 1]
    BY <1>2 DEF InsertUser
  <2>2. next[p] \in 1 .. 3 /\ DOMAIN SEED_USERS = 1 .. 3 /\ Len(SEED_USERS) = 3
    BY <2>1 DEF IInv, TypeOK, SEED_USERS
  <2>3. /\ next' \in [Processes -> 1 .. Len(SEED_USERS) + 1] /\ next'[p] = next[p] + 1
        /\ \A q \in Processes \ {p} : next'[q] = next[q]
    BY <2>1, <2>2, Here
  <2>4. /\ d \in Database /\ Grows(View(p), d) /\ d.demos = View(p).demos
        /\ d.drawings = View(p).drawings /\ Account(p) \in d.users
    <3>1. Account(p) \in SeedUsers
      BY <2>2 DEF Account, SeedUsers
    <3>2. QED BY <3>1, Here, UserAdded
  <2> HIDE DEF d
  <2>5. /\ "probeUser" \in Statements \ DemoSteps /\ "probeUser" \in MayHold
        /\ pc[p] \notin DemoSteps
    BY <2>1 DEF Statements, Running, UserSteps, DemoSteps, MayHold
  <2>6. Known(d, "probeUser", next'[p])
    <3>1. Known(d, "insertUser", next[p])
      BY <2>1, <2>4, Here, KnownGrows
    <3>2. \A k \in DOMAIN SEED_USERS : k < next[p] + 1 => SEED_USERS[k] \in d.users
      <4> SUFFICES ASSUME NEW k \in 1 .. 3, k < next[p] + 1
                   PROVE  SEED_USERS[k] \in d.users
        BY <2>2
      <4>1. k < next[p] \/ k = next[p]
        BY <2>2
      <4>2. k < next[p] => SEED_USERS[k] \in d.users
        BY <2>2, <3>1 DEF Known
      <4>3. QED BY <2>4, <4>1, <4>2 DEF Account
    <3>3. QED BY <2>3, <3>1, <3>2
       DEF Known, AfterTables, AfterColumn, AfterStamp, AfterOthers, AfterUsers,
     AfterDecisions, AfterHistory, AfterBackfill, Running, TableSteps, UserSteps, DemoSteps
  <2>7. Open(disk, d, "probeUser")
    BY <2>4, <2>5, OpenKept
  <2>8. QED BY <2>1, <2>3, <2>4, <2>5, <2>6, <2>7, WriteMove
<1>3. QED BY <1>1, <1>2

LEMMA BackfillMove ==
    ASSUME StartupAssumption, IInv, NEW p \in Processes, Backfill(p) PROVE IInv'
<1> DEFINE d == [View(p) EXCEPT !.gaps = @ \ {"decisionAuthor", "changeAuthor", "decisionId"}]
<1>1. pc[p] = "backfill" /\ Write(p, d) /\ GoTo(p, "commitUsers") /\ UNCHANGED next
  BY DEF Backfill
<1>2. /\ d \in Database /\ Grows(View(p), d)
      /\ d.gaps = View(p).gaps \ {"decisionAuthor", "changeAuthor", "decisionId"}
      /\ d.demos = View(p).demos /\ d.drawings = View(p).drawings
  <2>1. {"decisionAuthor", "changeAuthor", "decisionId"} \in SUBSET Gaps
    BY DEF Gaps
  <2>2. View(p) \in Database
    BY Here
  <2>3. QED BY <2>1, <2>2, GapsFilled, Zenon
<1> HIDE DEF d
<1>3. /\ "commitUsers" \in Statements \ DemoSteps /\ "commitUsers" \in MayHold
      /\ pc[p] \notin DemoSteps
  BY <1>1 DEF Statements, Running, UserSteps, DemoSteps, MayHold
<1>4. Known(d, "commitUsers", next[p])
  <2>1. Known(d, "backfill", next[p])
    BY <1>1, <1>2, Here, KnownGrows
  <2>2. QED BY <1>2, <2>1
     DEF Known, AfterTables, AfterColumn, AfterStamp, AfterOthers, AfterUsers,
     AfterDecisions, AfterHistory, AfterBackfill, Running, TableSteps, UserSteps, DemoSteps
<1>5. Open(disk, d, "commitUsers")
  BY <1>2, <1>3, OpenKept
<1>6. QED BY <1>1, <1>2, <1>3, <1>4, <1>5, Here, WriteMove

LEMMA CommitUsersMove ==
    ASSUME StartupAssumption, IInv, NEW p \in Processes, CommitUsers(p) PROVE IInv'
<1>1. pc[p] = "commitUsers" /\ Commit(p) /\ GoTo(p, "countClients") /\ UNCHANGED next
  BY DEF CommitUsers
<1>2. Known(View(p), "countClients", next[p])
  <2>1. Known(View(p), "commitUsers", next[p])
    BY <1>1, Here
  <2>2. QED BY <2>1
     DEF Known, AfterTables, AfterColumn, AfterStamp, AfterOthers, AfterUsers,
     AfterDecisions, AfterHistory, AfterBackfill, Running, TableSteps, UserSteps, DemoSteps
<1>3. QED BY <1>1, <1>2, CommitMove
--------------------------------------------------------------------------------
(* seed_demo_data. *)

LEMMA CountClientsMove ==
    ASSUME StartupAssumption, IInv, NEW p \in Processes, CountClients(p) PROVE IInv'
<1>1. pc[p] = "countClients" /\ Read /\ UNCHANGED <<disk, next>>
  BY DEF CountClients, Read
<1>2. lock # p /\ Known(View(p), "countClients", next[p])
  BY <1>1, Here DEF MayHold, UserSteps, DemoSteps
<1>3. PICK st \in {"insertDemo", "ready"} :
        GoTo(p, st) /\ (st = "insertDemo" => NoClients(disk))
  BY DEF CountClients
<1>4. st \in Statements /\ st \notin MustHold /\ st # "insertUser"
  BY DEF Statements, Running, DemoSteps, MustHold
<1>5. Known(View(p), st, next[p])
  <2>1. "countClients" \in AfterBackfill
    BY DEF AfterTables, AfterColumn, AfterStamp, AfterOthers, AfterUsers,
     AfterDecisions, AfterHistory, AfterBackfill, Running, TableSteps, UserSteps, DemoSteps
  <2>2. QED BY <1>2, <2>1 DEF Known, AfterBackfill, AfterHistory, AfterDecisions,
     AfterUsers, AfterOthers, AfterStamp, AfterColumn
<1>6. CountInv'
  <2>1. CASE st = "ready"
    <3>1. st \notin DemoSteps
      BY <2>1 DEF DemoSteps
    <3>2. QED BY <1>1, <1>3, <3>1, SameCount
  <2>2. CASE st = "insertDemo"
    <3>1. disk'.demos = 0
      BY <1>1, <1>3, <2>2 DEF NoClients
    <3>2. InDemo' \subseteq Processes
      BY DEF InDemo
    <3>3. /\ Cardinality(InDemo') <= Cardinality(Processes)
          /\ Cardinality(InDemo') \in Nat /\ Cardinality(Processes) \in Nat
      BY <3>2, StartupAssumption, FS_Subset, FS_CardinalityType DEF StartupAssumption
    <3>4. QED BY <3>1, <3>3 DEF CountInv
  <2>3. QED BY <2>1, <2>2
<1>7. QED BY <1>1, <1>2, <1>3, <1>4, <1>5, <1>6, Here, ReadMove

\* Past the count nothing more is learnt of the tables and accounts.
LEMMA KnownInDemo ==
    ASSUME NEW d, NEW n, NEW before \in DemoSteps, NEW after \in DemoSteps \cup {"ready"},
           Known(d, before, n)
    PROVE  Known(d, after, n)
<1>1. before \in AfterBackfill
  BY DEF AfterTables, AfterColumn, AfterStamp, AfterOthers, AfterUsers,
     AfterDecisions, AfterHistory, AfterBackfill, Running, TableSteps, UserSteps, DemoSteps
<1>2. QED BY <1>1 DEF Known, AfterBackfill, AfterHistory, AfterDecisions,
     AfterUsers, AfterOthers, AfterStamp, AfterColumn

LEMMA InsertDemoMove ==
    ASSUME StartupAssumption, IInv, NEW p \in Processes, InsertDemo(p) PROVE IInv'
<1> DEFINE d == [View(p) EXCEPT !.demos = @ + 1, !.linked = TRUE]
<1>1. pc[p] = "insertDemo" /\ Write(p, d) /\ GoTo(p, "writeDrawing") /\ UNCHANGED next
  BY DEF InsertDemo
<1>2. /\ d \in Database /\ Grows(View(p), d) /\ d.demos = View(p).demos + 1
      /\ d.drawings = View(p).drawings /\ d.linked = TRUE
  BY Here, DemoAdded
<1> HIDE DEF d
<1>3. /\ "writeDrawing" \in DemoSteps /\ "writeDrawing" \in MayHold
      /\ pc[p] \in DemoSteps /\ pc[p] \notin MayHold
  BY <1>1 DEF DemoSteps, MayHold, UserSteps
<1>4. View(p) = disk
  BY <1>3, Here
<1>5. Known(d, "writeDrawing", next[p])
  BY <1>1, <1>2, <1>3, Here, KnownGrows, KnownInDemo
<1>6. Open(disk, d, "writeDrawing")
  BY <1>2, <1>3, <1>4 DEF Open
<1>7. QED BY <1>1, <1>2, <1>3, <1>5, <1>6, Here, WriteMove

LEMMA InsertDrawingMove ==
    ASSUME StartupAssumption, IInv, NEW p \in Processes, InsertDrawing(p) PROVE IInv'
<1> DEFINE d == [View(p) EXCEPT !.drawings = @ + 1]
<1>1. pc[p] = "insertDrawing" /\ Write(p, d) /\ GoTo(p, "commitDemo") /\ UNCHANGED next
  BY DEF InsertDrawing
<1>2. /\ d \in Database /\ Grows(View(p), d) /\ d.demos = View(p).demos
      /\ d.drawings = View(p).drawings + 1 /\ d.linked = View(p).linked
  BY Here, DrawingAdded
<1> HIDE DEF d
<1>3. /\ "commitDemo" \in DemoSteps /\ "commitDemo" \in MayHold /\ pc[p] \in DemoSteps
      /\ pc[p] \in MustHold
  BY <1>1 DEF DemoSteps, MayHold, MustHold
<1>4. View(p) = tx /\ Open(disk, tx, "insertDrawing") /\ tx \in Database
  BY <1>1, <1>3, Here
<1>5. Known(d, "commitDemo", next[p])
  BY <1>1, <1>2, <1>3, Here, KnownGrows, KnownInDemo
<1>6. Open(disk, d, "commitDemo")
  <2>1. Grows(disk, d)
    BY <1>2, <1>4, Here, GrowsTransitive DEF Open
  <2>2. QED BY <1>2, <1>3, <1>4, <2>1 DEF Open, DemoSteps
<1>7. drawing
  BY <1>1 DEF IInv, DrawingInv
<1>8. QED BY <1>1, <1>2, <1>3, <1>5, <1>6, <1>7, Here, WriteMove

LEMMA CommitDemoMove ==
    ASSUME StartupAssumption, IInv, NEW p \in Processes, CommitDemo(p) PROVE IInv'
<1>1. pc[p] = "commitDemo" /\ Commit(p) /\ GoTo(p, "ready") /\ UNCHANGED next
  BY DEF CommitDemo
<1>2. Known(View(p), "ready", next[p])
  BY <1>1, Here, KnownInDemo DEF DemoSteps
<1>3. QED BY <1>1, <1>2, CommitMove
--------------------------------------------------------------------------------
(* Every step. *)

LEMMA AdvanceMove ==
    ASSUME StartupAssumption, IInv, NEW p \in Processes, Advance(p) PROVE IInv'
<1>1. CASE CreateTable(p) \/ StampProjects(p) \/ AlterOthers(p) \/ CommitTables(p)
  BY <1>1, CreateTableMove, StampProjectsMove, AlterOthersMove, CommitTablesMove
<1>2. CASE CheckColumns(p) \/ \E step \in DOMAIN Alterations : AlterTable(p, step)
  BY <1>2, CheckColumnsMove, AlterTableMove
<1>3. CASE ProbeUser(p) \/ InsertUser(p) \/ Backfill(p) \/ CommitUsers(p)
  BY <1>3, ProbeUserMove, InsertUserMove, BackfillMove, CommitUsersMove
<1>4. CASE CountClients(p) \/ InsertDemo(p) \/ WriteDrawing(p) \/ InsertDrawing(p)
             \/ CommitDemo(p)
  BY <1>4, CountClientsMove, InsertDemoMove, WriteDrawingMove, InsertDrawingMove,
     CommitDemoMove
<1>5. CASE LockTimeout(p)
  BY <1>5, FailMove DEF LockTimeout
<1>6. QED BY <1>1, <1>2, <1>3, <1>4, <1>5 DEF Advance

LEMMA NextIInv == ASSUME StartupAssumption, IInv, [Next]_vars PROVE IInv'
<1>1. CASE Next
  <2> SUFFICES ASSUME NEW p \in Processes,
                      \/ Start(p) \/ Advance(p) \/ OfficeCreates(p) \/ OfficeDeletes(p)
                      \/ StatementFails(p) \/ Crash(p)
               PROVE  IInv'
    BY <1>1 DEF Next
  <2>1. CASE Start(p)
    BY <2>1, StartMove
  <2>2. CASE Advance(p)
    BY <2>2, AdvanceMove
  <2>3. CASE OfficeCreates(p) \/ OfficeDeletes(p)
    BY <2>3, OfficeMove
  <2>4. CASE StatementFails(p)
    BY <2>4, FailMove DEF StatementFails
  <2>5. CASE Crash(p)
    BY <2>5, AbandonMove DEF Crash
  <2>6. QED BY <2>1, <2>2, <2>3, <2>4, <2>5
<1>2. CASE UNCHANGED vars
  BY <1>2 DEF vars, IInv, TypeOK, KnowledgeInv, View, LockInv, DrawingInv,
     DemoWhole, CountInv, InDemo
<1>3. QED BY <1>1, <1>2

LEMMA Invariant == Spec => []IInv
<1>1. Init => IInv
  BY StartupAssumption, InitIInv
<1>2. IInv /\ [Next]_vars => IInv'
  BY StartupAssumption, NextIInv
<1>3. QED BY <1>1, <1>2, PTL DEF Spec
--------------------------------------------------------------------------------
(* The theorems. *)

\* The databases, the lock and the processes keep their types, and the lock is held
\* by nobody that is outside a transaction.
THEOREM StartTypeCorrect == Spec => []TypeOK
<1>1. IInv => TypeOK
  BY DEF IInv
<1>2. QED BY <1>1, Invariant, PTL

\* However many processes start together, are stopped and start again: one that
\* serves pages (app._init_db_once has returned) has a complete database, but for the
\* historic changes that name no decision.
THEOREM ReadyIsComplete == Spec => []ReadyComplete
<1>1. ASSUME IInv PROVE ReadyComplete
  <2> SUFFICES ASSUME NEW p \in Processes, pc[p] = "ready"
               PROVE  /\ disk.tables = Tables /\ disk.columns = Columns
                      /\ disk.gaps \subseteq {"unnamedDecision"} /\ disk.users = SeedUsers
    BY DEF ReadyComplete
  <2>1. View(p) = disk /\ disk \in Database
    BY <1>1, StartupAssumption, Here DEF MayHold, UserSteps, DemoSteps
  <2>2. Known(disk, "ready", next[p])
    BY <1>1, <2>1 DEF IInv, KnowledgeInv
  <2>3. "ready" \in AfterBackfill
    BY DEF AfterBackfill, AfterHistory, AfterDecisions, AfterUsers, AfterOthers,
       AfterStamp, AfterColumn, AfterTables
  <2>4. /\ disk.tables = Tables /\ SeedUsers \subseteq disk.users
        /\ {"updatedAt", "userColumns", "otherColumns", "decisionAuthor", "decisionId",
            "changeAuthor"} \subseteq disk.columns
        /\ disk.gaps \cap {"updatedAt", "decisionAuthor", "changeAuthor", "decisionId"} = {}
    BY <2>2, <2>3 DEF Known, AfterBackfill, AfterHistory, AfterDecisions, AfterUsers,
       AfterOthers, AfterStamp, AfterColumn
  <2>5. disk.columns \subseteq Columns /\ disk.gaps \subseteq Gaps
        /\ disk.users \subseteq SeedUsers
    BY <2>1 DEF Database
  <2>6. QED BY <2>4, <2>5 DEF Columns, Gaps
<1>2. QED BY <1>1, Invariant, PTL

\* seed_demo_data is one transaction and its file is written before the row.
THEOREM DemonstrationWhole == Spec => []DemoWhole
<1>1. IInv => DemoWhole
  BY DEF IInv
<1>2. QED BY <1>1, Invariant, PTL

\* The stale count of clients lets every process insert the demonstration data once
\* at most.
THEOREM DemonstrationBounded == Spec => []DemoBounded
<1>1. ASSUME IInv PROVE DemoBounded
  <2>1. IsFiniteSet(InDemo)
    BY StartupAssumption, FS_Subset DEF InDemo, StartupAssumption
  <2>2. Cardinality(InDemo) \in Nat /\ Cardinality(Processes) \in Nat
    BY <2>1, StartupAssumption, FS_CardinalityType DEF StartupAssumption
  <2>3. disk.demos \in Nat
    BY <1>1 DEF IInv, TypeOK, Database
  <2>4. QED BY <1>1, <2>2, <2>3 DEF IInv, CountInv, DemoBounded
<1>2. QED BY <1>1, Invariant, PTL
================================================================================
