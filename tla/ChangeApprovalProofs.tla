-------------------------- MODULE ChangeApprovalProofs -------------------------
(****************************************************************************)
(* ChangeApproval for any number of clients, handlers, projects and rows:   *)
(* the invariant of a handler that holds a row, and from it that only a     *)
(* change's own client decides it, and that a decision is overturned at     *)
(* most once by each handler that had read the change before it was made.   *)
(****************************************************************************)
EXTENDS ChangeApproval, TLAPS

\* The row a handler holds is a row of the table, of the same project, and past
\* the guards it is the client's own and was pending.
HolderInv ==
    \A s \in Handlers :
        /\ pc[s] \in HoldsChange =>
             /\ asked[s].id \in DOMAIN changes
             /\ seen[s].project = changes[asked[s].id].project
        /\ pc[s] \in HoldsMeeting =>
             /\ asked[s].id \in DOMAIN meetings
             /\ seen[s].project = meetings[asked[s].id].project
        /\ pc[s] = "setChangeDecision" => Own(s) /\ Awaits(s)
        /\ pc[s] = "confirmMeeting" => Own(s)

IInv ==
    /\ TypeOK
    /\ DecidedByOwner
    /\ HolderInv

USE DEF HoldsChange, HoldsMeeting
--------------------------------------------------------------------------------
LEMMA InitIInv == ASSUME ApprovalAssumption, Init PROVE IInv
<1>1. TypeOK
  BY ApprovalAssumption DEF Init, TypeOK, Calls
<1>2. DecidedByOwner
  BY DEF Init, DecidedByOwner
<1>3. HolderInv
  BY DEF Init, HolderInv
<1> QED
  BY <1>1, <1>2, <1>3 DEF IInv

\* The office only adds rows.
LEMMA OfficeStep ==
    ASSUME ApprovalAssumption, IInv, NEW p \in Projects,
           DocumentChange(p) \/ ProposeMeeting(p)
    PROVE  IInv'
<1> USE DEF IInv
<1>1. CASE DocumentChange(p)
  <2> DEFINE row == [project |-> p, status |-> "Pending", decidedBy |-> None]
  <2>1. row \in ChangeRow /\ row.status \notin Verdicts
    BY DEF ChangeRow, Verdicts
  <2>2. /\ changes' = Append(changes, row)
        /\ changes \in Seq(ChangeRow) /\ Len(changes) < MaxRows
        /\ UNCHANGED <<meetings, pc, asked, seen>>
    BY <1>1 DEF DocumentChange, TypeOK
  <2>3. /\ changes' \in Seq(ChangeRow) /\ Len(changes') = Len(changes) + 1
        /\ DOMAIN changes = 1 .. Len(changes)
        /\ DOMAIN changes' = 1 .. Len(changes) + 1
        /\ \A i \in DOMAIN changes : changes'[i] = changes[i]
        /\ changes'[Len(changes) + 1] = row
    BY <2>1, <2>2
  <2>4. TypeOK'
    BY <2>2, <2>3, ApprovalAssumption DEF TypeOK
  <2>5. DecidedByOwner'
    BY <2>1, <2>2, <2>3 DEF DecidedByOwner, Decided
  <2>6. HolderInv'
    BY <2>2, <2>3 DEF HolderInv, Own, Awaits
  <2> QED
    BY <2>4, <2>5, <2>6
<1>2. CASE ProposeMeeting(p)
  <2> DEFINE row == [project |-> p, status |-> "Proposed"]
  <2>1. row \in MeetingRow
    BY DEF MeetingRow
  <2>2. /\ meetings' = Append(meetings, row)
        /\ meetings \in Seq(MeetingRow) /\ Len(meetings) < MaxRows
        /\ UNCHANGED <<changes, pc, asked, seen>>
    BY <1>2 DEF ProposeMeeting, TypeOK
  <2>3. /\ meetings' \in Seq(MeetingRow) /\ Len(meetings') = Len(meetings) + 1
        /\ DOMAIN meetings = 1 .. Len(meetings)
        /\ DOMAIN meetings' = 1 .. Len(meetings) + 1
        /\ \A i \in DOMAIN meetings : meetings'[i] = meetings[i]
    BY <2>1, <2>2
  <2>4. TypeOK'
    BY <2>2, <2>3, ApprovalAssumption DEF TypeOK
  <2>5. DecidedByOwner'
    BY <2>2 DEF DecidedByOwner, Decided
  <2>6. HolderInv'
    BY <2>2, <2>3 DEF HolderInv, Own, Awaits
  <2> QED
    BY <2>4, <2>5, <2>6
<1> QED
  BY <1>1, <1>2

\* A handler that returns or is not yet past its first read holds nothing; the
\* tables do not change.
LEMMA ReturnStep ==
    ASSUME ApprovalAssumption, IInv, NEW s \in Handlers, Return(s),
           UNCHANGED <<changes, meetings>>
    PROVE  IInv'
<1> USE DEF IInv
<1>1. TypeOK'
  BY ApprovalAssumption DEF TypeOK, Return, Calls
<1>2. DecidedByOwner'
  BY DEF DecidedByOwner, Decided
<1>3. HolderInv'
  BY DEF TypeOK, HolderInv, Return, Own, Awaits
<1> QED
  BY <1>1, <1>2, <1>3

LEMMA RequestStep ==
    ASSUME ApprovalAssumption, IInv, NEW s \in Handlers, Request(s)
    PROVE  IInv'
<1> USE DEF IInv
<1>1. PICK first \in {"getChange", "getMeeting"}, id \in Ids, v \in Verdicts :
        /\ pc' = [pc EXCEPT ![s] = first]
        /\ asked' = [asked EXCEPT ![s] = [id |-> id, verdict |-> v]]
        /\ UNCHANGED <<changes, meetings, seen>>
  BY DEF Request, Call, Verdicts
<1>2. TypeOK'
  BY <1>1, ApprovalAssumption DEF TypeOK, Calls, Asked
<1>3. DecidedByOwner'
  BY <1>1 DEF DecidedByOwner, Decided
<1>4. HolderInv'
  BY <1>1 DEF TypeOK, HolderInv, Own, Awaits
<1> QED
  BY <1>2, <1>3, <1>4
--------------------------------------------------------------------------------
LEMMA GetChangeStep ==
    ASSUME ApprovalAssumption, IInv, NEW s \in Handlers, GetChange(s)
    PROVE  IInv'
<1> USE DEF IInv
<1>1. CASE Return(s)
  BY <1>1, ReturnStep DEF GetChange
<1>2. CASE ~Return(s)
  <2>1. /\ asked[s].id \in DOMAIN changes
        /\ seen' = [seen EXCEPT ![s] = changes[asked[s].id]]
        /\ pc' = [pc EXCEPT ![s] = "getChangeProject"]
        /\ UNCHANGED <<changes, meetings, asked>>
    BY <1>2 DEF GetChange, ReadRow, RememberRow, Continue
  <2>2. changes[asked[s].id] \in ChangeRow
    BY <2>1 DEF TypeOK
  <2>3. TypeOK'
    BY <2>1, <2>2, ApprovalAssumption DEF TypeOK, Calls, GetChange
  <2>4. DecidedByOwner'
    BY <2>1 DEF DecidedByOwner, Decided
  <2>5. HolderInv'
    BY <2>1 DEF TypeOK, HolderInv, Own, Awaits
  <2> QED
    BY <2>3, <2>4, <2>5
<1> QED
  BY <1>1, <1>2

LEMMA GetMeetingStep ==
    ASSUME ApprovalAssumption, IInv, NEW s \in Handlers, GetMeeting(s)
    PROVE  IInv'
<1> USE DEF IInv
<1>1. CASE Return(s)
  BY <1>1, ReturnStep DEF GetMeeting
<1>2. CASE ~Return(s)
  <2>1. /\ asked[s].id \in DOMAIN meetings
        /\ seen' = [seen EXCEPT ![s] = meetings[asked[s].id]]
        /\ pc' = [pc EXCEPT ![s] = "getMeetingProject"]
        /\ UNCHANGED <<changes, meetings, asked>>
    BY <1>2 DEF GetMeeting, ReadRow, RememberRow, Continue
  <2>2. meetings[asked[s].id] \in MeetingRow
    BY <2>1 DEF TypeOK
  <2>3. TypeOK'
    BY <2>1, <2>2, ApprovalAssumption DEF TypeOK, Calls, GetMeeting
  <2>4. DecidedByOwner'
    BY <2>1 DEF DecidedByOwner, Decided
  <2>5. HolderInv'
    BY <2>1 DEF TypeOK, HolderInv, Own, Awaits
  <2> QED
    BY <2>3, <2>4, <2>5
<1> QED
  BY <1>1, <1>2

\* The guards: the handler returns or goes on to its UPDATE.
LEMMA CheckStep ==
    ASSUME ApprovalAssumption, IInv, NEW s \in Handlers,
           CheckChange(s) \/ CheckMeeting(s)
    PROVE  IInv'
<1> USE DEF IInv
<1>1. CASE Return(s)
  BY <1>1, ReturnStep DEF CheckChange, CheckMeeting
<1>2. CASE ~Return(s)
  <2>1. \/ /\ pc[s] = "getChangeProject" /\ Own(s) /\ Awaits(s)
           /\ pc' = [pc EXCEPT ![s] = "setChangeDecision"]
        \/ /\ pc[s] = "getMeetingProject" /\ Own(s)
           /\ pc' = [pc EXCEPT ![s] = "confirmMeeting"]
    BY <1>2 DEF CheckChange, CheckMeeting, Continue
  <2>2. UNCHANGED <<changes, meetings, asked, seen>>
    BY <1>2 DEF CheckChange, CheckMeeting
  <2>3. TypeOK'
    BY <2>1, <2>2, ApprovalAssumption DEF TypeOK, Calls
  <2>4. DecidedByOwner'
    BY <2>2 DEF DecidedByOwner, Decided
  <2>5. HolderInv'
    BY <2>1, <2>2 DEF TypeOK, HolderInv, Own, Awaits
  <2> QED
    BY <2>3, <2>4, <2>5
<1> QED
  BY <1>1, <1>2
--------------------------------------------------------------------------------
\* What the UPDATE of a change does, and that its row is the client's own.
LEMMA DecisionWritten ==
    ASSUME ApprovalAssumption, IInv, NEW s \in Handlers, SetChangeDecision(s)
    PROVE  LET id == asked[s].id
           IN  /\ id \in DOMAIN changes
               /\ asked[s].verdict \in Verdicts
               /\ OwnerOf[changes[id].project] = ClientOf[s]
               /\ changes' \in Seq(ChangeRow)
               /\ Len(changes') = Len(changes)
               /\ DOMAIN changes' = DOMAIN changes
               /\ changes'[id].status = asked[s].verdict
               /\ changes'[id].decidedBy = ClientOf[s]
               /\ \A i \in DOMAIN changes :
                    /\ i # id => changes'[i] = changes[i]
                    /\ changes'[i].project = changes[i].project
<1> DEFINE id == asked[s].id
           row == [changes[id] EXCEPT !.status = asked[s].verdict,
                                      !.decidedBy = ClientOf[s]]
<1>1. id \in DOMAIN changes /\ OwnerOf[changes[id].project] = ClientOf[s]
  BY DEF IInv, HolderInv, Own, SetChangeDecision
<1>2. asked[s].verdict \in Verdicts /\ changes \in Seq(ChangeRow)
  BY DEF IInv, TypeOK, SetChangeDecision, Asked, Calls
<1>3. changes[id] \in ChangeRow /\ ClientOf[s] \in Clients
  BY <1>1, <1>2, ApprovalAssumption
<1>4. /\ row \in ChangeRow /\ row.status = asked[s].verdict
      /\ row.decidedBy = ClientOf[s] /\ row.project = changes[id].project
  BY <1>2, <1>3 DEF ChangeRow
<1>5. changes' = [changes EXCEPT ![id] = row]
  BY <1>1, <1>2, <1>3 DEF SetChangeDecision, ChangeRow
<1>6. changes' \in Seq(ChangeRow) /\ Len(changes') = Len(changes)
  BY <1>1, <1>2, <1>4, <1>5
<1>7. DOMAIN changes' = DOMAIN changes
  BY <1>5
<1> QED
  BY <1>1, <1>2, <1>4, <1>5, <1>6, <1>7

LEMMA SetChangeDecisionStep ==
    ASSUME ApprovalAssumption, IInv, NEW s \in Handlers, SetChangeDecision(s)
    PROVE  IInv'
<1> USE DEF IInv
<1> DEFINE id == asked[s].id
<1>1. /\ id \in DOMAIN changes /\ asked[s].verdict \in Verdicts
      /\ OwnerOf[changes[id].project] = ClientOf[s]
      /\ changes' \in Seq(ChangeRow) /\ Len(changes') = Len(changes)
      /\ DOMAIN changes' = DOMAIN changes
      /\ changes'[id].status = asked[s].verdict
      /\ changes'[id].decidedBy = ClientOf[s]
      /\ \A i \in DOMAIN changes :
           /\ i # id => changes'[i] = changes[i]
           /\ changes'[i].project = changes[i].project
  BY DecisionWritten
<1>2. Return(s) /\ UNCHANGED meetings /\ pc[s] = "setChangeDecision"
  BY DEF SetChangeDecision
<1>3. TypeOK'
  BY <1>1, <1>2, ApprovalAssumption DEF TypeOK, Return, Calls
<1>4. DecidedByOwner'
  BY <1>1 DEF DecidedByOwner, Decided
<1>5. HolderInv'
  BY <1>1, <1>2 DEF TypeOK, HolderInv, Return, Own, Awaits
<1> QED
  BY <1>3, <1>4, <1>5

LEMMA ConfirmMeetingStep ==
    ASSUME ApprovalAssumption, IInv, NEW s \in Handlers, ConfirmMeeting(s)
    PROVE  IInv'
<1> USE DEF IInv
<1> DEFINE id == asked[s].id
           row == [meetings[id] EXCEPT !.status = "Confirmed"]
<1>1. id \in DOMAIN meetings /\ meetings \in Seq(MeetingRow)
  BY DEF TypeOK, HolderInv, ConfirmMeeting
<1>2. meetings[id] \in MeetingRow
  BY <1>1
<1>3. row \in MeetingRow /\ row.project = meetings[id].project
  BY <1>2 DEF MeetingRow
<1>4. meetings' = [meetings EXCEPT ![id] = row]
  BY <1>1 DEF ConfirmMeeting
<1>5. /\ meetings' \in Seq(MeetingRow) /\ Len(meetings') = Len(meetings)
      /\ DOMAIN meetings' = DOMAIN meetings
      /\ \A i \in DOMAIN meetings : meetings'[i].project = meetings[i].project
  BY <1>1, <1>3, <1>4
<1>6. Return(s) /\ UNCHANGED changes
  BY DEF ConfirmMeeting
<1>7. TypeOK'
  BY <1>5, <1>6, ApprovalAssumption DEF TypeOK, Return, Calls
<1>8. DecidedByOwner'
  BY <1>6 DEF DecidedByOwner, Decided
<1>9. HolderInv'
  BY <1>5, <1>6 DEF TypeOK, HolderInv, Return, Own, Awaits
<1> QED
  BY <1>7, <1>8, <1>9
--------------------------------------------------------------------------------
LEMMA CrashStep == ASSUME ApprovalAssumption, IInv, Crash PROVE IInv'
<1> USE DEF IInv
<1>1. TypeOK'
  BY DEF TypeOK, Crash
<1>2. DecidedByOwner'
  BY DEF DecidedByOwner, Decided, Crash
<1>3. HolderInv'
  BY DEF HolderInv, Crash
<1> QED
  BY <1>1, <1>2, <1>3

LEMMA NextIInv == ASSUME ApprovalAssumption, IInv, [Next]_vars PROVE IInv'
<1>1. CASE UNCHANGED vars
  <2>1. UNCHANGED <<changes, meetings, pc, asked, seen>>
    BY <1>1 DEF vars
  <2> QED
    BY <2>1 DEF IInv, TypeOK, DecidedByOwner, Decided, HolderInv, Own, Awaits
<1>2. CASE \E p \in Projects : DocumentChange(p) \/ ProposeMeeting(p)
  BY <1>2, OfficeStep
<1>3. CASE \E s \in Handlers : Request(s)
  BY <1>3, RequestStep
<1>4. CASE \E s \in Handlers : Advance(s)
  <2> PICK s \in Handlers : Advance(s)
    BY <1>4
  <2>1. CASE GetChange(s)
    BY <2>1, GetChangeStep
  <2>2. CASE CheckChange(s) \/ CheckMeeting(s)
    BY <2>2, CheckStep
  <2>3. CASE SetChangeDecision(s)
    BY <2>3, SetChangeDecisionStep
  <2>4. CASE GetMeeting(s)
    BY <2>4, GetMeetingStep
  <2>5. CASE ConfirmMeeting(s)
    BY <2>5, ConfirmMeetingStep
  <2>6. CASE LockTimeout(s)
    BY <2>6, ReturnStep DEF LockTimeout
  <2> QED
    BY <2>1, <2>2, <2>3, <2>4, <2>5, <2>6 DEF Advance
<1>5. CASE Crash
  BY <1>5, CrashStep
<1> QED
  BY <1>1, <1>2, <1>3, <1>4, <1>5 DEF Next

\* The inductive invariant holds in every state.
LEMMA Invariant == Spec => []IInv
<1>1. Init => IInv
  BY ApprovalAssumption, InitIInv
<1>2. IInv /\ [Next]_vars => IInv'
  BY ApprovalAssumption, NextIInv
<1> QED
  BY <1>1, <1>2, PTL DEF Spec

\* Tables and the handlers' local variables keep their types.
THEOREM ApprovalTypeCorrect == Spec => []TypeOK
<1>1. IInv => TypeOK
  BY DEF IInv
<1> QED
  BY <1>1, Invariant, PTL

\* ClientController.decide_change: only the account of its own client decides a
\* change, whatever id the call names and however the logins interleave.
THEOREM OnlyOwnersDecide == Spec => []DecidedByOwner
<1>1. IInv => DecidedByOwner
  BY DEF IInv
<1> QED
  BY <1>1, Invariant, PTL
--------------------------------------------------------------------------------
\* The steps that leave Changes alone, or only add to it, keep every decision.
LEMMA KeepsDecisions ==
    ASSUME ApprovalAssumption, IInv, [Next]_vars,
           ~(\E s \in Handlers : SetChangeDecision(s))
    PROVE  \A i \in DOMAIN changes : changes'[i] = changes[i]
<1>1. CASE \E p \in Projects : DocumentChange(p)
  BY <1>1 DEF DocumentChange, IInv, TypeOK
<1>2. CASE UNCHANGED changes
  BY <1>2
<1> QED
  BY <1>1, <1>2 DEF Next, vars, ProposeMeeting, Request, Call, Advance, GetChange,
     CheckChange, GetMeeting, CheckMeeting, ConfirmMeeting, LockTimeout, Crash

\* A handler that reads a decided change sees it decided: it does not join those
\* that hold the change pending.
LEMMA NoLateJoiner ==
    ASSUME ApprovalAssumption, IInv, [Next]_vars, NEW i \in DOMAIN changes, Decided(i),
           NEW s \in LateDecisions(i)'
    PROVE  s \in LateDecisions(i)
<1>1. /\ s \in Handlers /\ pc'[s] \in HoldsChange /\ asked'[s].id = i /\ seen'[s].status = "Pending"
      /\ pc \in [Handlers -> Calls \cup {"idle"}]
      /\ asked \in [Handlers -> Asked \cup {Nothing}]
      /\ seen \in [Handlers -> ChangeRow \cup MeetingRow \cup {None}]
      /\ changes[i].status # "Pending"
  BY DEF LateDecisions, Awaits, IInv, TypeOK, Decided, Verdicts
<1>2. SUFFICES ASSUME ~(pc'[s] = pc[s] /\ asked'[s] = asked[s] /\ seen'[s] = seen[s])
               PROVE  s \in LateDecisions(i)
  BY <1>1 DEF LateDecisions, Awaits
<1>3. CASE Crash
  BY <1>1, <1>3 DEF Crash
<1>4. ASSUME NEW t \in Handlers, Request(t) PROVE FALSE
  BY <1>1, <1>2, <1>4 DEF Request, Call
<1>5. ASSUME NEW t \in Handlers, Return(t) PROVE FALSE
  BY <1>1, <1>2, <1>5 DEF Return
<1>6. ASSUME NEW t \in Handlers, GetChange(t), ~Return(t) PROVE FALSE
  BY <1>1, <1>2, <1>6 DEF GetChange, ReadRow, RememberRow, Continue
<1>7. ASSUME NEW t \in Handlers, GetMeeting(t), ~Return(t) PROVE FALSE
  BY <1>1, <1>2, <1>7 DEF GetMeeting, ReadRow, RememberRow, Continue
<1>8. ASSUME NEW t \in Handlers, CheckChange(t), ~Return(t) PROVE s \in LateDecisions(i)
  BY <1>1, <1>2, <1>8 DEF CheckChange, Continue, LateDecisions, Awaits
<1>9. ASSUME NEW t \in Handlers, CheckMeeting(t), ~Return(t) PROVE FALSE
  BY <1>1, <1>2, <1>9 DEF CheckMeeting, Continue
<1>10. Crash \/ \E t \in Handlers : Request(t) \/ Advance(t)
  BY <1>1, <1>2 DEF Next, vars, DocumentChange, ProposeMeeting
<1> QED
  BY <1>3, <1>4, <1>5, <1>6, <1>7, <1>8, <1>9, <1>10 DEF Advance, SetChangeDecision,
     ConfirmMeeting, LockTimeout

\* ClientController.decide_change with any number of logins: a decision is
\* overturned at most once by each handler that had read the change before it was
\* decided, and by no other.
THEOREM OverturnsAreBounded == Spec => OverturnsRunOut
<1>1. ASSUME IInv, [Next]_vars, NEW i \in DOMAIN changes, Decided(i),
             changes'[i] # changes[i]
      PROVE  LateDecisions(i)' # LateDecisions(i)
  <2>1. PICK s \in Handlers : SetChangeDecision(s)
    BY <1>1, KeepsDecisions, ApprovalAssumption
  <2>2. asked[s].id = i
    BY <1>1, <2>1, DecisionWritten, ApprovalAssumption
  <2>3. s \in LateDecisions(i)
    BY <1>1, <2>1, <2>2 DEF SetChangeDecision, IInv, HolderInv, LateDecisions
  <2>4. pc'[s] = "idle"
    BY <1>1, <2>1 DEF SetChangeDecision, Return, IInv, TypeOK
  <2>5. s \notin LateDecisions(i)'
    BY <2>4 DEF LateDecisions
  <2> QED
    BY <2>3, <2>5
<1>2. IInv /\ [Next]_vars =>
        [\A i \in DOMAIN changes : Decided(i) =>
           /\ LateDecisions(i)' \subseteq LateDecisions(i)
           /\ changes'[i] # changes[i] => LateDecisions(i)' # LateDecisions(i)]_vars
  BY <1>1, NoLateJoiner, ApprovalAssumption
<1> QED
  BY <1>2, Invariant, PTL DEF Spec, OverturnsRunOut

\* ClientController.confirm_meeting: a meeting is confirmed by its own client, and
\* for good.
THEOREM OwnersConfirm == Spec => MeetingsConfirmedByOwner
<1> DEFINE Good(i) == meetings'[i] # meetings[i] =>
              /\ ~Confirmed(i) /\ Confirmed(i)'
              /\ \E s \in Handlers :
                   pc[s] = "confirmMeeting" /\ asked[s].id = i
                     /\ ClientOf[s] = OwnerOf[meetings[i].project]
<1>1. ASSUME IInv, [Next]_vars
      PROVE  [\A i \in DOMAIN meetings : Good(i)]_vars
  <2>1. CASE \E s \in Handlers : ConfirmMeeting(s)
    <3> PICK s \in Handlers : ConfirmMeeting(s)
      BY <2>1
    <3> DEFINE id == asked[s].id
    <3>1. /\ id \in DOMAIN meetings /\ meetings \in Seq(MeetingRow)
          /\ ClientOf[s] = OwnerOf[meetings[id].project]
          /\ pc[s] = "confirmMeeting"
      BY <1>1 DEF IInv, TypeOK, HolderInv, Own, ConfirmMeeting
    <3>2. meetings[id] \in MeetingRow
      BY <3>1
    <3>3. /\ DOMAIN meetings' = DOMAIN meetings
          /\ meetings'[id] = [meetings[id] EXCEPT !.status = "Confirmed"]
          /\ \A i \in DOMAIN meetings : i # id => meetings'[i] = meetings[i]
      BY <3>1 DEF ConfirmMeeting
    <3>4. /\ meetings'[id].status = "Confirmed"
          /\ meetings[id].status = "Confirmed" => meetings'[id] = meetings[id]
      BY <3>2, <3>3 DEF MeetingRow
    <3>5. ASSUME NEW i \in DOMAIN meetings PROVE Good(i)
      <4>1. CASE i # id
        BY <3>3, <4>1
      <4>2. CASE i = id
        BY <3>1, <3>3, <3>4, <4>2 DEF Confirmed
      <4> QED
        BY <4>1, <4>2
    <3> QED
      BY <3>5
  <2>2. CASE \E p \in Projects : ProposeMeeting(p)
    <3>1. \A i \in DOMAIN meetings : meetings'[i] = meetings[i]
      BY <1>1, <2>2 DEF ProposeMeeting, IInv, TypeOK
    <3> QED
      BY <3>1
  <2>3. CASE UNCHANGED meetings
    BY <2>3
  <2> QED
    BY <1>1, <2>1, <2>2, <2>3 DEF Next, vars, DocumentChange, Request, Call, Advance,
       GetChange, CheckChange, GetMeeting, CheckMeeting, SetChangeDecision,
       LockTimeout, Crash
<1> QED
  BY <1>1, Invariant, PTL DEF Spec, MeetingsConfirmedByOwner
================================================================================
