------------------------ MODULE Requirement_proofs ------------------------
(***************************************************************************)
(* Proofs about Requirement, for any number of requirements, clients,      *)
(* contents and events.                                                    *)
(***************************************************************************)
EXTENDS Requirement, TLAPS

-----------------------------------------------------------------------------
(* The inductive invariant.  A version token is worth checking only because *)
(* every copy of a row that someone holds is an earlier state of that row:  *)
(* equal tokens then mean equal contents.                                   *)

\* Edits are counted by both tokens, transitions by one.
RevisionBehind == \A r \in Requirements : req[r].revision <= req[r].state_version

\* A row is created whole, at revision and state_version 1 or later.
Created ==
    \A r \in Requirements :
        \/ req[r] = AbsentRow
        \/ /\ req[r].status # "Absent"
           /\ req[r].revision >= 1
           /\ req[r].state_version >= 1

\* content was the content at some revision on the way to row.
PinnedContent(row, revision, content) ==
    /\ revision <= row.revision
    /\ revision = row.revision => content = row.content

\* earlier is a state on the way to row.
Snapshot(row, earlier) ==
    /\ PinnedContent(row, earlier.revision, earlier.content)
    /\ earlier.state_version <= row.state_version
    /\ earlier.state_version = row.state_version => earlier = row

ViewsAreSnapshots ==
    \A c \in Clients, r \in Requirements : Snapshot(req[r], view[c][r].row)

LoadedAreSnapshots ==
    \A c \in Clients, r \in Requirements : Snapshot(req[r], loaded[c][r])

ContextsArePinned ==
    \A ctx \in contexts : PinnedContent(req[ctx.requirement], ctx.revision, ctx.content)

ReportsArePinned ==
    \A e \in DOMAIN sent :
        PinnedContent(req[sent[e].context.requirement], sent[e].context.revision,
                      sent[e].context.content)

\* Evidence names a report, repeats its binding, and an accepted one belongs
\* to a state_version that has been reached.
EvidenceIsReported ==
    \A e \in DOMAIN evidence :
        /\ e \in DOMAIN sent
        /\ evidence[e].requirement = sent[e].context.requirement
        /\ evidence[e].revision = sent[e].context.revision
        /\ evidence[e].accepted_state_version
              <= req[evidence[e].requirement].state_version
        /\ evidence[e].outcome = "accepted" => sent[e].judgement = "ready"

IInv ==
    /\ TypeOK
    /\ RevisionBehind
    /\ Created
    /\ ViewsAreSnapshots
    /\ LoadedAreSnapshots
    /\ ContextsArePinned
    /\ ReportsArePinned
    /\ EvidenceIsReported
    /\ ReadyIsReviewable
    /\ ApprovedContentWasAssessed
-----------------------------------------------------------------------------
(* Lemmas about the operators.                                              *)

\* Adding an entry to a partial function keeps it one.
LEMMA ExtendPartial ==
    ASSUME NEW S, NEW T, NEW f, IsPartial(f, S, T), NEW x \in S, NEW v \in T
    PROVE  /\ IsPartial(Extend(f, x, v), S, T)
           /\ DOMAIN Extend(f, x, v) = DOMAIN f \cup {x}
           /\ Extend(f, x, v)[x] = v
           /\ \A y \in DOMAIN f \ {x} : Extend(f, x, v)[y] = f[y]
BY DEF IsPartial, Extend

\* The tokens of a row and its status, typed.
LEMMA RowFields ==
    ASSUME NEW row \in Row
    PROVE  /\ row.status \in Statuses \cup {"Absent"}
           /\ row.revision \in 0..MaxStateVersion
           /\ row.state_version \in 0..MaxStateVersion
           /\ row.content \in Contents
BY DEF Row

\* A lifecycle step keeps a row a row.
LEMMA MovedRow ==
    ASSUME NEW row \in Row, NEW to \in Statuses, Incrementable(row)
    PROVE  Moved(row, to) \in Row
<1>1. row.state_version + 1 \in 0..MaxStateVersion
  BY RowFields, RequirementAssumption DEF RequirementAssumption, Incrementable
<1> QED
  BY <1>1, RowFields DEF Row, Moved

\* The revision counts edits only, so it stays behind the state_version and
\* an edit keeps a row a row.
LEMMA EditedRow ==
    ASSUME NEW row \in Row, NEW content \in Contents, Incrementable(row),
           row.revision <= row.state_version
    PROVE  Edited(row, content) \in Row
<1>1. /\ row.state_version + 1 \in 0..MaxStateVersion
      /\ row.revision + 1 \in 0..MaxStateVersion
  BY RowFields, RequirementAssumption DEF RequirementAssumption, Incrementable
<1>2. (IF row.status = "Ready" THEN "Discussing" ELSE row.status)
         \in Statuses \cup {"Absent"}
  BY RowFields DEF Statuses
<1> QED
  BY <1>1, <1>2 DEF Row, Edited

\* The audit trail stays a sequence of audit rows when one is appended.
LEMMA AuditedType ==
    ASSUME TypeOK, NEW r \in Requirements, req[r].status # "Absent",
           NEW t \in Transitions \cup {"mark_ready", "edit_demotes_ready"},
           NEW to \in Statuses, NEW id \in Events \cup {None}
    PROVE  Audited(r, t, to, id) \in [Requirements -> Seq(AuditRow)]
<1> DEFINE entry == [transition |-> t, from |-> req[r].status, to |-> to,
                     assessment |-> id, state_version |-> req[r].state_version + 1]
<1>1. req[r] \in Row
  BY DEF TypeOK
<1>2. req[r].status \in Statuses /\ req[r].state_version \in 0..MaxStateVersion
  BY <1>1 DEF Row
<1>3. entry \in AuditRow
  BY <1>2, RequirementAssumption DEF RequirementAssumption, AuditRow
<1>4. audit \in [Requirements -> Seq(AuditRow)]
  BY DEF TypeOK
<1>5. Append(audit[r], entry) \in Seq(AuditRow)
  BY <1>3, <1>4
<1> QED
  BY <1>4, <1>5 DEF Audited
-----------------------------------------------------------------------------
(* Types.  The version tokens stay representable because the revision never *)
(* overtakes the state_version.                                             *)

LEMMA TypeInit == Init => TypeOK /\ RevisionBehind
<1> SUFFICES ASSUME Init PROVE TypeOK /\ RevisionBehind
  OBVIOUS
<1>1. AbsentRow \in Row
  BY RequirementAssumption DEF RequirementAssumption, AbsentRow, Row
<1>2. [row |-> AbsentRow, assessment |-> None] \in View
  BY <1>1 DEF View
<1>3. AbsentRow.revision = 0 /\ AbsentRow.state_version = 0
  BY DEF AbsentRow
<1> QED
  BY <1>1, <1>2, <1>3 DEF Init, TypeOK, RevisionBehind, IsPartial

LEMMA TypeStep == TypeOK /\ RevisionBehind /\ [Next]_vars => (TypeOK /\ RevisionBehind)'
<1> SUFFICES ASSUME TypeOK, RevisionBehind, [Next]_vars
             PROVE  TypeOK' /\ RevisionBehind'
  OBVIOUS
<1> USE RequirementAssumption
<1>a. \A r \in Requirements : req[r] \in Row
  BY DEF TypeOK
<1>1. ASSUME NEW r \in Requirements, CreateRequirement(r)
      PROVE  TypeOK' /\ RevisionBehind'
  <2> DEFINE fresh == [status |-> "Draft", revision |-> 1, state_version |-> 1,
                       content |-> NewContent]
  <2>1. fresh \in Row
    BY DEF RequirementAssumption, Row, Statuses
  <2>2. req' = [req EXCEPT ![r] = fresh]
    BY <1>1 DEF CreateRequirement
  <2>3. req' \in [Requirements -> Row]
    BY <2>1, <2>2 DEF TypeOK
  <2>4. RevisionBehind'
    BY <2>2 DEF TypeOK, RevisionBehind
  <2> QED
    BY <1>1, <2>3, <2>4 DEF CreateRequirement, TypeOK, IsPartial
<1>2. ASSUME NEW c \in Clients, NEW r \in Requirements, NEW id \in Events \cup {None},
             view' = [view EXCEPT ![c][r] = [row |-> req[r], assessment |-> id]],
             UNCHANGED <<req, evidence, audit, loaded, contexts, sent>>
      PROVE  TypeOK' /\ RevisionBehind'
  <2>1. [row |-> req[r], assessment |-> id] \in View
    BY <1>a DEF View
  <2>2. view' \in [Clients -> [Requirements -> View]]
    BY <1>2, <2>1 DEF TypeOK
  <2> QED
    BY <1>2, <2>2 DEF TypeOK, RevisionBehind, IsPartial
<1>3. ASSUME NEW r \in Requirements, NEW to \in Statuses, Incrementable(req[r]),
             req' = [req EXCEPT ![r] = Moved(req[r], to)]
      PROVE  req' \in [Requirements -> Row] /\ RevisionBehind'
  <2>1. Moved(req[r], to) \in Row
    BY <1>a, <1>3, MovedRow
  <2>2. req' \in [Requirements -> Row]
    BY <1>3, <2>1 DEF TypeOK
  <2>3. req[r].revision <= req[r].state_version + 1
    BY <1>a, RowFields DEF RevisionBehind
  <2>4. RevisionBehind'
    BY <1>3, <2>3 DEF TypeOK, RevisionBehind, Moved
  <2> QED
    BY <2>2, <2>4
<1>4. ASSUME NEW c \in Clients, NEW r \in Requirements, NEW t \in Transitions,
             TransitionRequirement(c, r, t)
      PROVE  TypeOK' /\ RevisionBehind'
  <2>1. Target(t) \in Statuses
    BY DEF Target, Statuses
  <2>2. req' \in [Requirements -> Row] /\ RevisionBehind'
    BY <1>3, <1>4, <2>1 DEF TransitionRequirement, TransitionFrom
  <2>3. view[c][r].assessment \in Events \cup {None}
    BY DEF TypeOK, View
  <2>4. audit' \in [Requirements -> Seq(AuditRow)]
    BY <1>4, <2>1, <2>3, AuditedType DEF TransitionRequirement
  <2> QED
    BY <1>4, <2>2, <2>4 DEF TransitionRequirement, TypeOK, IsPartial
<1>5. ASSUME NEW c \in Clients, NEW r \in Requirements, NEW k \in Contents,
             EditRequirement(c, r, k)
      PROVE  TypeOK' /\ RevisionBehind'
  <2>1. Edited(req[r], k) \in Row
    BY <1>a, <1>5, EditedRow DEF EditRequirement, RevisionBehind
  <2>2. req' \in [Requirements -> Row]
    BY <1>5, <2>1 DEF EditRequirement, TypeOK
  <2>3. req[r].revision + 1 <= req[r].state_version + 1
    BY <1>a, RowFields DEF RevisionBehind
  <2>4. RevisionBehind'
    BY <1>5, <2>3 DEF EditRequirement, TypeOK, RevisionBehind, Edited
  <2>5. audit' \in [Requirements -> Seq(AuditRow)]
    <3>1. "Discussing" \in Statuses /\ "edit_demotes_ready" \in Transitions \cup {"mark_ready", "edit_demotes_ready"}
      BY DEF Statuses
    <3> QED
      BY <1>5, <3>1, AuditedType DEF EditRequirement, EditAudited, TypeOK
  <2> QED
    BY <1>5, <2>2, <2>4, <2>5 DEF EditRequirement, TypeOK, IsPartial
<1>6. ASSUME NEW c \in Clients, NEW r \in Requirements, LoadForStart(c, r)
      PROVE  TypeOK' /\ RevisionBehind'
  BY <1>6, <1>a DEF LoadForStart, TypeOK, RevisionBehind, IsPartial
<1>7. ASSUME NEW c \in Clients, NEW r \in Requirements, StartClarification(c, r)
      PROVE  TypeOK' /\ RevisionBehind'
  <2>1. "Discussing" \in Statuses /\ "begin_discussion" \in Transitions
    BY DEF Statuses, Transitions
  <2>2. req' \in [Requirements -> Row] /\ RevisionBehind'
    <3>1. CASE UNCHANGED req
      BY <3>1 DEF TypeOK, RevisionBehind
    <3>2. CASE ~ UNCHANGED req
      BY <1>3, <1>7, <2>1, <3>2 DEF StartClarification, TransitionFrom
    <3> QED
      BY <3>1, <3>2
  <2>3. audit' \in [Requirements -> Seq(AuditRow)]
    BY <1>7, <2>1, AuditedType DEF StartClarification, TypeOK
  <2>4. AbsentRow \in Row
    BY DEF RequirementAssumption, AbsentRow, Row
  <2>5. loaded' \in [Clients -> [Requirements -> Row]]
    BY <1>7, <2>4 DEF StartClarification, TypeOK
  <2>6. [requirement |-> r, revision |-> req[r].revision,
         content |-> loaded[c][r].content] \in Context
    BY <1>a, RowFields DEF TypeOK, Context, Row
  <2>7. contexts' \subseteq Context
    BY <1>7, <2>6 DEF StartClarification, TypeOK
  <2> QED
    BY <1>7, <2>2, <2>3, <2>5, <2>7 DEF StartClarification, TypeOK, IsPartial
<1>8. ASSUME NEW e \in Events, NEW ctx \in contexts, NEW j \in Judgements,
             EmitAssessment(e, ctx, j)
      PROVE  TypeOK' /\ RevisionBehind'
  <2>1. [context |-> ctx, judgement |-> j] \in Report
    BY DEF TypeOK, Report
  <2>2. IsPartial(sent', Events, Report)
    BY <1>8, <2>1, ExtendPartial DEF EmitAssessment, TypeOK
  <2> QED
    BY <1>8, <2>2 DEF EmitAssessment, TypeOK, RevisionBehind, IsPartial
<1>9. ASSUME NEW e \in Events, RecordAssessment(e)
      PROVE  TypeOK' /\ RevisionBehind'
  <2> DEFINE report == sent[e]
             r == report.context.requirement
             reason == Refusal(req[r], report)
             entry == [requirement |-> r, revision |-> report.context.revision,
                       outcome |-> IF reason = "none" THEN "accepted" ELSE "rejected",
                       reason |-> reason,
                       accepted_state_version |->
                           IF reason = "none" THEN req[r].state_version + 1 ELSE 0]
  <2>1. report \in Report
    BY <1>9 DEF RecordAssessment, TypeOK, IsPartial
  <2>2. report.context \in Context
    BY <2>1 DEF Report
  <2>3. r \in Requirements /\ report.context.revision \in Nat
    BY <2>2 DEF Context
  <2>4. reason \in Reasons
    BY DEF Refusal, Reasons
  <2>5. reason = "none" => req[r].status = "Discussing" /\ Incrementable(req[r])
    BY <1>9 DEF RecordAssessment, Refusal
  <2>6. (IF reason = "none" THEN req[r].state_version + 1 ELSE 0) \in 0..MaxStateVersion
    BY <1>a, <2>3, <2>5, RowFields DEF Incrementable, RequirementAssumption
  <2>7. entry \in Record
    BY <2>3, <2>4, <2>6 DEF Record
  <2>8. IsPartial(evidence', Events, Record)
    <3>1. evidence' = Extend(evidence, e, entry)
      BY <1>9 DEF RecordAssessment
    <3> QED
      BY <2>7, <3>1, ExtendPartial DEF TypeOK
  <2>9. "Ready" \in Statuses
    BY DEF Statuses
  <2>10. req' \in [Requirements -> Row] /\ RevisionBehind'
    <3>1. CASE reason = "none"
      BY <1>3, <1>9, <2>3, <2>5, <2>9, <3>1 DEF RecordAssessment
    <3>2. CASE reason # "none"
      BY <1>9, <3>2 DEF RecordAssessment, TypeOK, RevisionBehind
    <3> QED
      BY <3>1, <3>2
  <2>11. audit' \in [Requirements -> Seq(AuditRow)]
    <3>1. CASE reason = "none"
      <4>1. req[r].status # "Absent"
        BY <2>5, <3>1
      <4>2. audit' = Audited(r, "mark_ready", "Ready", e)
        BY <1>9, <3>1 DEF RecordAssessment
      <4> QED
        BY <2>3, <2>9, <4>1, <4>2, AuditedType
    <3>2. CASE reason # "none"
      BY <1>9, <3>2 DEF RecordAssessment, TypeOK
    <3> QED
      BY <3>1, <3>2
  <2> QED
    BY <1>9, <2>8, <2>10, <2>11 DEF RecordAssessment, TypeOK, IsPartial
<1>10. CASE UNCHANGED vars
  BY <1>10 DEF vars, TypeOK, RevisionBehind, IsPartial
<1>11. ASSUME NEW c \in Clients, NEW r \in Requirements,
              ReadRequirement(c, r) \/ \E id \in Events : ReadReviewPacket(c, r, id)
       PROVE  TypeOK' /\ RevisionBehind'
  BY <1>2, <1>11 DEF ReadRequirement, ReadReviewPacket
<1> QED
  BY <1>1, <1>4, <1>5, <1>6, <1>7, <1>8, <1>9, <1>10, <1>11 DEF Next, ServerNext

\* Tables, views and reports keep their types, and no version token outgrows
\* its column, whatever the clients and the agents do.
THEOREM TypeCorrect == Spec => []TypeOK
<1>1. Spec => [](TypeOK /\ RevisionBehind)
  BY TypeInit, TypeStep, PTL DEF Spec
<1> QED
  BY <1>1, PTL
-----------------------------------------------------------------------------
(* Snapshots.                                                               *)

LEMMA SnapshotReflexive == ASSUME NEW row \in Row PROVE Snapshot(row, row)
BY RowFields DEF Snapshot, PinnedContent

LEMMA PinnedAdvances ==
    ASSUME NEW row \in Row, NEW later \in Row, Snapshot(later, row),
           NEW revision \in Nat, NEW content, PinnedContent(row, revision, content)
    PROVE  PinnedContent(later, revision, content)
BY RowFields DEF Snapshot, PinnedContent

LEMMA SnapshotTransitive ==
    ASSUME NEW earlier \in Row, NEW row \in Row, NEW later \in Row,
           Snapshot(row, earlier), Snapshot(later, row)
    PROVE  Snapshot(later, earlier)
BY RowFields DEF Snapshot, PinnedContent

LEMMA MovedIsLater ==
    ASSUME NEW row \in Row, NEW to \in Statuses
    PROVE  Snapshot(Moved(row, to), row)
BY RowFields DEF Snapshot, PinnedContent, Moved

LEMMA EditedIsLater ==
    ASSUME NEW row \in Row, NEW k \in Contents
    PROVE  Snapshot(Edited(row, k), row)
BY RowFields DEF Snapshot, PinnedContent, Edited

\* What one step can do to a row.
RowStep(r) ==
    \/ req'[r] = req[r]
    \/ req[r].status = "Absent" /\ req'[r] = [status |-> "Draft", revision |-> 1,
                                              state_version |-> 1, content |-> NewContent]
    \/ \E to \in Statuses : req[r].status # "Absent" /\ req'[r] = Moved(req[r], to)
    \/ \E k \in Contents : req[r].status # "Absent" /\ req'[r] = Edited(req[r], k)

LEMMA RowSteps ==
    ASSUME TypeOK, [Next]_vars, NEW r \in Requirements
    PROVE  RowStep(r)
<1>1. ASSUME NEW q \in Requirements, CreateRequirement(q) PROVE RowStep(r)
  BY <1>1 DEF CreateRequirement, TypeOK, RowStep
<1>2. ASSUME NEW q \in Requirements, NEW to \in Statuses, req[q].status # "Absent",
             req' = [req EXCEPT ![q] = Moved(req[q], to)]
      PROVE  RowStep(r)
  BY <1>2 DEF TypeOK, RowStep
<1>3. ASSUME NEW c \in Clients, NEW q \in Requirements, NEW t \in Transitions,
             TransitionRequirement(c, q, t)
      PROVE  RowStep(r)
  <2>1. Target(t) \in Statuses
    BY DEF Target, Statuses
  <2> QED
    BY <1>2, <1>3, <2>1 DEF TransitionRequirement
<1>4. ASSUME NEW c \in Clients, NEW q \in Requirements, NEW k \in Contents,
             EditRequirement(c, q, k)
      PROVE  RowStep(r)
  BY <1>4 DEF EditRequirement, TypeOK, RowStep
<1>5. ASSUME NEW c \in Clients, NEW q \in Requirements, StartClarification(c, q)
      PROVE  RowStep(r)
  <2>1. CASE UNCHANGED req
    BY <2>1 DEF RowStep
  <2>2. CASE ~ UNCHANGED req
    <3>1. "Discussing" \in Statuses
      BY DEF Statuses
    <3> QED
      BY <1>2, <1>5, <2>2, <3>1 DEF StartClarification
  <2> QED
    BY <2>1, <2>2
<1>6. ASSUME NEW e \in Events, RecordAssessment(e) PROVE RowStep(r)
  <2> DEFINE q == sent[e].context.requirement
  <2>1. CASE UNCHANGED req
    BY <2>1 DEF RowStep
  <2>2. CASE ~ UNCHANGED req
    <3>1. "Ready" \in Statuses
      BY DEF Statuses
    <3>2. q \in Requirements
      BY <1>6 DEF RecordAssessment, TypeOK, IsPartial, Report, Context
    <3>3. /\ Refusal(req[q], sent[e]) = "none"
          /\ req' = [req EXCEPT ![q] = Moved(req[q], "Ready")]
      BY <1>6, <2>2 DEF RecordAssessment
    <3>4. req[q].status # "Absent"
      BY <3>3 DEF Refusal
    <3> QED
      BY <1>2, <3>1, <3>2, <3>3, <3>4
  <2> QED
    BY <2>1, <2>2
<1>7. UNCHANGED req => RowStep(r)
  BY DEF RowStep
<1> QED
  BY <1>1, <1>3, <1>4, <1>5, <1>6, <1>7
  DEF Next, ServerNext, vars, ReadRequirement, ReadReviewPacket, LoadForStart,
      EmitAssessment

\* Every step leaves every row where it was or at a later state of it, so the
\* old row is a snapshot of the new one.
LEMMA RowsAdvance ==
    ASSUME TypeOK, TypeOK', Created, [Next]_vars, NEW r \in Requirements
    PROVE  Snapshot(req'[r], req[r])
<1>1. req[r] \in Row /\ req'[r] \in Row
  BY DEF TypeOK
<1>2. CASE req'[r] = req[r]
  BY <1>1, <1>2, SnapshotReflexive
<1>3. CASE req[r].status = "Absent" /\ req'[r] = [status |-> "Draft", revision |-> 1,
                                        state_version |-> 1, content |-> NewContent]
  BY <1>3 DEF Created, AbsentRow, Snapshot, PinnedContent
<1>4. ASSUME NEW to \in Statuses, req'[r] = Moved(req[r], to)
      PROVE  Snapshot(req'[r], req[r])
  BY <1>1, <1>4, MovedIsLater
<1>5. ASSUME NEW k \in Contents, req'[r] = Edited(req[r], k)
      PROVE  Snapshot(req'[r], req[r])
  BY <1>1, <1>5, EditedIsLater
<1> QED
  BY <1>2, <1>3, <1>4, <1>5, RowSteps DEF RowStep

LEMMA CreatedStep ==
    ASSUME TypeOK, Created, [Next]_vars
    PROVE  Created'
<1> SUFFICES ASSUME NEW r \in Requirements
             PROVE  \/ req'[r] = AbsentRow
                    \/ /\ req'[r].status # "Absent"
                       /\ req'[r].revision >= 1
                       /\ req'[r].state_version >= 1
  BY DEF Created, AbsentRow
<1>1. req[r] \in Row
  BY DEF TypeOK
<1>2. CASE req'[r] = req[r]
  BY <1>2 DEF Created
<1>3. CASE req'[r] = [status |-> "Draft", revision |-> 1, state_version |-> 1,
                      content |-> NewContent]
  BY <1>3
<1>4. ASSUME NEW to \in Statuses, req[r].status # "Absent", req'[r] = Moved(req[r], to)
      PROVE  req'[r].status # "Absent" /\ req'[r].revision >= 1 /\ req'[r].state_version >= 1
  BY <1>1, <1>4, RowFields DEF Created, Moved, Statuses, AbsentRow
<1>5. ASSUME NEW k \in Contents, req[r].status # "Absent", req'[r] = Edited(req[r], k)
      PROVE  req'[r].status # "Absent" /\ req'[r].revision >= 1 /\ req'[r].state_version >= 1
  BY <1>1, <1>5, RowFields DEF Created, Edited, Statuses, AbsentRow
<1> QED
  BY <1>2, <1>3, <1>4, <1>5, RowSteps DEF RowStep
-----------------------------------------------------------------------------
(* What clients, handlers, agents and evidence hold.                        *)

LEMMA ViewsStep ==
    ASSUME TypeOK, TypeOK', Created, ViewsAreSnapshots, [Next]_vars
    PROVE  ViewsAreSnapshots'
<1> SUFFICES ASSUME NEW c \in Clients, NEW r \in Requirements
             PROVE  Snapshot(req'[r], view'[c][r].row)
  BY DEF ViewsAreSnapshots
<1>1. /\ req[r] \in Row /\ req'[r] \in Row
      /\ view[c][r].row \in Row
  BY DEF TypeOK, View
<1>2. view'[c][r] = view[c][r] \/ view'[c][r].row = req[r]
  <2>1. ASSUME NEW d \in Clients, NEW q \in Requirements, NEW id \in Events \cup {None},
               view' = [view EXCEPT ![d][q] = [row |-> req[q], assessment |-> id]]
        PROVE  view'[c][r] = view[c][r] \/ view'[c][r].row = req[r]
    BY <2>1 DEF TypeOK
  <2>2. CASE UNCHANGED view
    BY <2>2
  <2> QED
    BY <2>1, <2>2
    DEF Next, ServerNext, vars, CreateRequirement, ReadRequirement, ReadReviewPacket,
        TransitionRequirement, EditRequirement, LoadForStart, StartClarification,
        EmitAssessment, RecordAssessment
<1>3. Snapshot(req'[r], req[r])
  BY RowsAdvance
<1>4. Snapshot(req[r], view[c][r].row)
  BY DEF ViewsAreSnapshots
<1> QED
  BY <1>1, <1>2, <1>3, <1>4, SnapshotTransitive

LEMMA LoadedStep ==
    ASSUME TypeOK, TypeOK', Created, LoadedAreSnapshots, [Next]_vars
    PROVE  LoadedAreSnapshots'
<1> SUFFICES ASSUME NEW c \in Clients, NEW r \in Requirements
             PROVE  Snapshot(req'[r], loaded'[c][r])
  BY DEF LoadedAreSnapshots
<1>1. req[r] \in Row /\ req'[r] \in Row /\ loaded[c][r] \in Row
  BY DEF TypeOK
<1>2. \/ loaded'[c][r] = loaded[c][r]
      \/ loaded'[c][r] = req[r]
      \/ loaded'[c][r] = AbsentRow
  <2>1. ASSUME NEW d \in Clients, NEW q \in Requirements,
               LoadForStart(d, q) \/ StartClarification(d, q)
        PROVE  \/ loaded'[c][r] = loaded[c][r]
               \/ loaded'[c][r] = req[r]
               \/ loaded'[c][r] = AbsentRow
    <3>1. \/ loaded' = [loaded EXCEPT ![d][q] = req[q]]
          \/ loaded' = [loaded EXCEPT ![d][q] = AbsentRow]
      BY <2>1 DEF LoadForStart, StartClarification
    <3>2. ASSUME NEW row, loaded' = [loaded EXCEPT ![d][q] = row]
          PROVE  loaded'[c][r] = loaded[c][r] \/ (q = r /\ loaded'[c][r] = row)
      BY <3>2 DEF TypeOK
    <3> QED
      BY <3>1, <3>2
  <2>2. CASE UNCHANGED loaded
    BY <2>2
  <2> QED
    BY <2>1, <2>2
    DEF Next, ServerNext, vars, CreateRequirement, ReadRequirement, ReadReviewPacket,
        TransitionRequirement, EditRequirement, EmitAssessment, RecordAssessment
<1>3. Snapshot(req'[r], req[r])
  BY RowsAdvance
<1>4. Snapshot(req[r], loaded[c][r])
  BY DEF LoadedAreSnapshots
<1>5. Snapshot(req'[r], AbsentRow)
  <2>1. CASE req'[r] = AbsentRow
    BY <1>1, <2>1, SnapshotReflexive
  <2>2. CASE req'[r].revision >= 1 /\ req'[r].state_version >= 1
    BY <1>1, <2>2, RowFields DEF Snapshot, PinnedContent, AbsentRow
  <2> QED
    BY <2>1, <2>2, CreatedStep DEF Created, AbsentRow
<1> QED
  BY <1>1, <1>2, <1>3, <1>4, <1>5, SnapshotTransitive

\* The content pinned for an agent is the content of the revision pinned with
\* it, although the handler read it in an earlier transaction.
LEMMA ContextsStep ==
    ASSUME TypeOK, TypeOK', Created, LoadedAreSnapshots, ContextsArePinned, [Next]_vars
    PROVE  ContextsArePinned'
<1> SUFFICES ASSUME NEW ctx \in contexts'
             PROVE  PinnedContent(req'[ctx.requirement], ctx.revision, ctx.content)
  BY DEF ContextsArePinned
<1>1. ctx \in Context
  BY DEF TypeOK
<1>2. ctx.requirement \in Requirements /\ ctx.revision \in Nat
  BY <1>1 DEF Context
<1>3. req[ctx.requirement] \in Row /\ req'[ctx.requirement] \in Row
  BY <1>2 DEF TypeOK
<1>4. Snapshot(req'[ctx.requirement], req[ctx.requirement])
  BY <1>2, RowsAdvance
<1>5. PinnedContent(req[ctx.requirement], ctx.revision, ctx.content)
  <2>1. CASE ctx \in contexts
    BY <2>1 DEF ContextsArePinned
  <2>2. ASSUME NEW c \in Clients, NEW r \in Requirements, StartClarification(c, r),
               ctx \notin contexts
        PROVE  PinnedContent(req[ctx.requirement], ctx.revision, ctx.content)
    <3>1. ctx = [requirement |-> r, revision |-> req[r].revision,
                 content |-> loaded[c][r].content]
      BY <2>2 DEF StartClarification
    <3>2. /\ req[r].revision = loaded[c][r].revision
          /\ Snapshot(req[r], loaded[c][r])
      BY <2>2 DEF StartClarification, LoadedRevision, LoadedAreSnapshots
    <3>3. req[r].content = loaded[c][r].content
      BY <3>2 DEF Snapshot, PinnedContent
    <3>4. req[r].revision \in Nat
      BY RowFields DEF TypeOK
    <3> QED
      BY <3>1, <3>3, <3>4 DEF PinnedContent
  <2>3. CASE UNCHANGED contexts
    BY <2>1, <2>3
  <2> QED
    BY <2>1, <2>2, <2>3
    DEF Next, ServerNext, vars, CreateRequirement, ReadRequirement, ReadReviewPacket,
        TransitionRequirement, EditRequirement, LoadForStart, EmitAssessment,
        RecordAssessment
<1> QED
  BY <1>2, <1>3, <1>4, <1>5, PinnedAdvances

\* Reports are only added, each with a pinned context.
LEMMA SentSteps ==
    ASSUME TypeOK, [Next]_vars
    PROVE  /\ DOMAIN sent \subseteq DOMAIN sent'
           /\ \A e \in DOMAIN sent : sent'[e] = sent[e]
           /\ \A e \in DOMAIN sent' \ DOMAIN sent : sent'[e].context \in contexts
<1>1. ASSUME NEW e \in Events, NEW ctx \in contexts, NEW j \in Judgements,
             EmitAssessment(e, ctx, j)
      PROVE  /\ DOMAIN sent \subseteq DOMAIN sent'
             /\ \A x \in DOMAIN sent : sent'[x] = sent[x]
             /\ \A x \in DOMAIN sent' \ DOMAIN sent : sent'[x].context \in contexts
  BY <1>1 DEF EmitAssessment, Extend
<1>2. CASE UNCHANGED sent
  BY <1>2
<1> QED
  BY <1>1, <1>2
  DEF Next, ServerNext, vars, CreateRequirement, ReadRequirement, ReadReviewPacket,
      TransitionRequirement, EditRequirement, LoadForStart, StartClarification,
      RecordAssessment

LEMMA ReportsStep ==
    ASSUME TypeOK, TypeOK', Created, ContextsArePinned, ReportsArePinned, [Next]_vars
    PROVE  ReportsArePinned'
<1> SUFFICES ASSUME NEW e \in DOMAIN sent'
             PROVE  PinnedContent(req'[sent'[e].context.requirement],
                                  sent'[e].context.revision, sent'[e].context.content)
  BY DEF ReportsArePinned
<1> DEFINE ctx == sent'[e].context
<1>1. ctx \in Context
  BY DEF TypeOK, IsPartial, Report
<1>2. ctx.requirement \in Requirements /\ ctx.revision \in Nat
  BY <1>1 DEF Context
<1>3. req[ctx.requirement] \in Row /\ req'[ctx.requirement] \in Row
  BY <1>2 DEF TypeOK
<1>4. Snapshot(req'[ctx.requirement], req[ctx.requirement])
  BY <1>2, RowsAdvance
<1>5. PinnedContent(req[ctx.requirement], ctx.revision, ctx.content)
  BY SentSteps DEF ContextsArePinned, ReportsArePinned
<1> QED
  BY <1>2, <1>3, <1>4, <1>5, PinnedAdvances

\* What one step can do to the evidence: nothing, or one new record of a report.
LEMMA EvidenceSteps ==
    ASSUME TypeOK, [Next]_vars
    PROVE  \/ UNCHANGED evidence
           \/ \E e \in Events : RecordAssessment(e)
BY DEF Next, ServerNext, vars, CreateRequirement, ReadRequirement, ReadReviewPacket,
       TransitionRequirement, EditRequirement, LoadForStart, StartClarification,
       EmitAssessment

\* The record RecordAssessment adds for requirement r, and the row it leaves.
Promotes(e, r) ==
    /\ Refusal(req[r], sent[e]) = "none"
    /\ evidence'[e].outcome = "accepted"
    /\ evidence'[e].accepted_state_version = req[r].state_version + 1
    /\ req' = [req EXCEPT ![r] = Moved(req[r], "Ready")]

Refuses(e, r) ==
    /\ evidence'[e].outcome = "rejected"
    /\ evidence'[e].accepted_state_version = 0
    /\ req' = req

Records(e, r) ==
    /\ r = sent[e].context.requirement
    /\ r \in Requirements
    /\ e \in DOMAIN sent /\ e \notin DOMAIN evidence
    /\ sent[e].judgement \in Judgements
    /\ DOMAIN evidence' = DOMAIN evidence \cup {e}
    /\ \A x \in DOMAIN evidence : evidence'[x] = evidence[x]
    /\ evidence'[e].requirement = r
    /\ evidence'[e].revision = sent[e].context.revision
    /\ sent' = sent
    /\ Promotes(e, r) \/ Refuses(e, r)

LEMMA Recorded ==
    ASSUME TypeOK, NEW e \in Events, RecordAssessment(e)
    PROVE  \E r \in Requirements : Records(e, r)
<1>0. PICK r : r = sent[e].context.requirement
  OBVIOUS
<1> DEFINE accepted == Refusal(req[r], sent[e]) = "none"
           entry == [requirement |-> r, revision |-> sent[e].context.revision,
                     outcome |-> IF accepted THEN "accepted" ELSE "rejected",
                     reason |-> Refusal(req[r], sent[e]),
                     accepted_state_version |->
                         IF accepted THEN req[r].state_version + 1 ELSE 0]
<1>1. evidence' = Extend(evidence, e, entry) /\ e \in DOMAIN sent /\ e \notin DOMAIN evidence
  BY <1>0 DEF RecordAssessment, FirstReceipt
<1>2. r \in Requirements /\ sent[e].judgement \in Judgements
  BY <1>0, <1>1 DEF TypeOK, IsPartial, Report, Context
<1>3. /\ DOMAIN evidence' = DOMAIN evidence \cup {e}
      /\ evidence'[e] = entry
      /\ \A x \in DOMAIN evidence : evidence'[x] = evidence[x]
  BY <1>1 DEF Extend
<1>4. IF accepted THEN req' = [req EXCEPT ![r] = Moved(req[r], "Ready")] ELSE req' = req
  BY <1>0 DEF RecordAssessment
<1>5. sent' = sent
  BY DEF RecordAssessment
<1>6. Promotes(e, r) \/ Refuses(e, r)
  BY <1>3, <1>4 DEF Promotes, Refuses
<1>7. Records(e, r)
  BY <1>0, <1>1, <1>2, <1>3, <1>5, <1>6 DEF Records
<1> QED
  BY <1>2, <1>7

\* What EvidenceIsReported says of one record after a step.
ReportedAfter(x) ==
    /\ x \in DOMAIN sent'
    /\ evidence'[x].requirement = sent'[x].context.requirement
    /\ evidence'[x].revision = sent'[x].context.revision
    /\ evidence'[x].accepted_state_version <= req'[evidence'[x].requirement].state_version
    /\ evidence'[x].outcome = "accepted" => sent'[x].judgement = "ready"

LEMMA EvidenceStep ==
    ASSUME TypeOK, TypeOK', Created, EvidenceIsReported, [Next]_vars
    PROVE  EvidenceIsReported'
<1> SUFFICES ASSUME NEW x \in DOMAIN evidence' PROVE ReportedAfter(x)
  BY DEF EvidenceIsReported, ReportedAfter
<1>1. ASSUME x \in DOMAIN evidence, evidence'[x] = evidence[x]
      PROVE  ReportedAfter(x)
  <2>1. evidence[x] \in Record
    BY <1>1 DEF TypeOK, IsPartial
  <2>2. /\ evidence[x].requirement \in Requirements
        /\ evidence[x].accepted_state_version \in 0..MaxStateVersion
    BY <2>1 DEF Record
  <2>3. Snapshot(req'[evidence[x].requirement], req[evidence[x].requirement])
    BY <2>2, RowsAdvance
  <2>4. /\ req[evidence[x].requirement] \in Row
        /\ req'[evidence[x].requirement] \in Row
    BY <2>2 DEF TypeOK
  <2>5. evidence[x].accepted_state_version
           <= req'[evidence[x].requirement].state_version
    BY <1>1, <2>2, <2>3, <2>4, RowFields, RequirementAssumption
    DEF Snapshot, EvidenceIsReported, RequirementAssumption
  <2> QED
    BY <1>1, <2>5, SentSteps DEF EvidenceIsReported, ReportedAfter
<1>2. CASE UNCHANGED evidence
  BY <1>1, <1>2
<1>3. ASSUME NEW e \in Events, NEW r \in Requirements, Records(e, r)
      PROVE  ReportedAfter(x)
  <2>1. CASE x # e
    BY <1>1, <1>3, <2>1 DEF Records
  <2>2. CASE x = e /\ Promotes(e, r)
    <3>1. sent[e].judgement = "ready"
      BY <1>3, <2>2 DEF Records, Promotes, Refusal, Judgements
    <3>2. req'[r].state_version = req[r].state_version + 1
      BY <2>2 DEF TypeOK, Promotes, Moved
    <3>3. req[r].state_version \in Nat
      BY RowFields DEF TypeOK
    <3> QED
      BY <1>3, <2>2, <3>1, <3>2, <3>3 DEF Records, Promotes, ReportedAfter
  <2>3. CASE x = e /\ Refuses(e, r)
    <3>1. req[r].state_version \in 0..MaxStateVersion
      BY RowFields DEF TypeOK
    <3>2. 0 <= req[r].state_version
      BY <3>1
    <3> QED
      BY <1>3, <2>3, <3>2 DEF Records, Refuses, ReportedAfter
  <2> QED
    BY <1>3, <2>1, <2>2, <2>3 DEF Records
<1> QED
  BY <1>2, <1>3, EvidenceSteps, Recorded
-----------------------------------------------------------------------------
(* Ready and Accepted.                                                      *)

\* How a row can be Ready or Accepted after a step: it was so before, an
\* assessment promoted it, or a reviewer accepted a Ready one.
LEMMA ApprovalSteps ==
    ASSUME TypeOK, [Next]_vars, NEW r \in Requirements,
           req'[r].status \in {"Ready", "Accepted"}
    PROVE  \/ req'[r] = req[r]
           \/ \E e \in Events : Records(e, r) /\ Promotes(e, r)
           \/ /\ req[r].status = "Ready"
              /\ req'[r] = Moved(req[r], "Accepted")
<1> DEFINE Goal == \/ req'[r] = req[r]
                   \/ \E e \in Events : Records(e, r) /\ Promotes(e, r)
                   \/ /\ req[r].status = "Ready"
                      /\ req'[r] = Moved(req[r], "Accepted")
<1>1. ASSUME NEW q \in Requirements, CreateRequirement(q) PROVE Goal
  BY <1>1 DEF CreateRequirement, TypeOK
<1>2. ASSUME NEW c \in Clients, NEW q \in Requirements, NEW t \in Transitions,
             TransitionRequirement(c, q, t)
      PROVE  Goal
  <2>1. CASE q = r
    <3>1. req'[r] = Moved(req[r], Target(t)) /\ req[r].status = Source(t)
      BY <1>2, <2>1 DEF TransitionRequirement, TransitionFrom, TypeOK
    <3>2. Target(t) = "Accepted" /\ t = "accept"
      BY <3>1 DEF Moved, Target
    <3> QED
      BY <3>1, <3>2 DEF Source
  <2>2. CASE q # r
    BY <1>2, <2>2 DEF TransitionRequirement, TypeOK
  <2> QED
    BY <2>1, <2>2
<1>3. ASSUME NEW c \in Clients, NEW q \in Requirements, NEW k \in Contents,
             EditRequirement(c, q, k)
      PROVE  Goal
  BY <1>3 DEF EditRequirement, Edited, TypeOK
<1>4. ASSUME NEW c \in Clients, NEW q \in Requirements, StartClarification(c, q)
      PROVE  Goal
  BY <1>4 DEF StartClarification, Moved, TypeOK
<1>5. ASSUME NEW e \in Events, RecordAssessment(e) PROVE Goal
  <2>1. PICK q \in Requirements : Records(e, q)
    BY <1>5, Recorded
  <2>2. CASE Refuses(e, q)
    BY <2>2 DEF Refuses
  <2>3. CASE Promotes(e, q) /\ q = r
    BY <2>1, <2>3
  <2>4. CASE Promotes(e, q) /\ q # r
    BY <2>4 DEF Promotes, TypeOK
  <2> QED
    BY <2>1, <2>2, <2>3, <2>4 DEF Records
<1>6. CASE UNCHANGED req
  BY <1>6
<1> QED
  BY <1>1, <1>2, <1>3, <1>4, <1>5, <1>6
  DEF Next, ServerNext, vars, ReadRequirement, ReadReviewPacket, LoadForStart,
      EmitAssessment

LEMMA ReadyStep ==
    ASSUME TypeOK, TypeOK', EvidenceIsReported, ReadyIsReviewable, [Next]_vars
    PROVE  ReadyIsReviewable'
<1> SUFFICES ASSUME NEW r \in Requirements, req'[r].status = "Ready"
             PROVE  \E id \in DOMAIN evidence' :
                       /\ CurrentReviewAssessment(r, id)'
                       /\ \A other \in DOMAIN evidence' :
                             CurrentReviewAssessment(r, other)' => other = id
  BY DEF ReadyIsReviewable
<1>a. req[r].state_version \in Nat
  BY RowFields DEF TypeOK
<1>1. ASSUME NEW e \in Events, Records(e, r), Promotes(e, r)
      PROVE  \E id \in DOMAIN evidence' :
                /\ CurrentReviewAssessment(r, id)'
                /\ \A other \in DOMAIN evidence' :
                      CurrentReviewAssessment(r, other)' => other = id
  <2>1. /\ req'[r].revision = req[r].revision
        /\ req'[r].state_version = req[r].state_version + 1
    BY <1>1 DEF Promotes, TypeOK, Moved
  <2>2. sent[e].context.revision = req[r].revision
    BY <1>1 DEF Promotes, Refusal
  <2>3. CurrentReviewAssessment(r, e)'
    BY <1>1, <2>1, <2>2 DEF Records, Promotes, CurrentReviewAssessment
  <2>4. ASSUME NEW other \in DOMAIN evidence', CurrentReviewAssessment(r, other)'
        PROVE  other = e
    <3>1. SUFFICES ASSUME other \in DOMAIN evidence PROVE FALSE
      BY <1>1 DEF Records
    <3>2. evidence'[other] = evidence[other]
      BY <1>1, <3>1 DEF Records
    <3>3. /\ evidence[other].requirement = r
          /\ evidence[other].accepted_state_version = req[r].state_version + 1
      BY <2>1, <2>4, <3>2 DEF CurrentReviewAssessment
    <3>4. evidence[other].accepted_state_version <= req[r].state_version
      BY <3>1, <3>3 DEF EvidenceIsReported
    <3> QED
      BY <1>a, <3>3, <3>4
  <2> QED
    BY <1>1, <2>3, <2>4 DEF Records
<1>2. ASSUME req'[r] = req[r]
      PROVE  \E id \in DOMAIN evidence' :
                /\ CurrentReviewAssessment(r, id)'
                /\ \A other \in DOMAIN evidence' :
                      CurrentReviewAssessment(r, other)' => other = id
  <2>1. PICK id \in DOMAIN evidence :
               /\ CurrentReviewAssessment(r, id)
               /\ \A other \in DOMAIN evidence :
                     CurrentReviewAssessment(r, other) => other = id
    BY <1>2 DEF ReadyIsReviewable
  <2>2. CASE UNCHANGED evidence
    BY <1>2, <2>1, <2>2 DEF CurrentReviewAssessment
  <2>3. ASSUME NEW e \in Events, NEW q \in Requirements, Records(e, q)
        PROVE  /\ id \in DOMAIN evidence' /\ CurrentReviewAssessment(r, id)'
               /\ \A other \in DOMAIN evidence' :
                     CurrentReviewAssessment(r, other)' => other = id
    <3>1. id \in DOMAIN evidence' /\ CurrentReviewAssessment(r, id)'
      BY <1>2, <2>1, <2>3 DEF Records, CurrentReviewAssessment
    <3>2. ~ CurrentReviewAssessment(r, e)'
      <4>1. CASE Refuses(e, q)
        BY <4>1 DEF Refuses, CurrentReviewAssessment
      <4>2. CASE Promotes(e, q)
        <5>1. q # r
          BY <1>2, <1>a, <4>2 DEF Promotes, TypeOK, Moved
        <5> QED
          BY <2>3, <5>1 DEF Records, CurrentReviewAssessment
      <4> QED
        BY <2>3, <4>1, <4>2 DEF Records
    <3>3. ASSUME NEW other \in DOMAIN evidence', CurrentReviewAssessment(r, other)'
          PROVE  other = id
      <4>1. other \in DOMAIN evidence /\ evidence'[other] = evidence[other]
        BY <2>3, <3>2, <3>3 DEF Records
      <4> QED
        BY <1>2, <2>1, <3>3, <4>1 DEF CurrentReviewAssessment
    <3> QED
      BY <3>1, <3>3
  <2> QED
    BY <2>2, <2>3, EvidenceSteps, Recorded
<1>3. req'[r] # Moved(req[r], "Accepted")
  BY DEF Moved
<1> QED
  BY <1>1, <1>2, <1>3, ApprovalSteps

\* Evidence is only added.
LEMMA EvidenceKept ==
    ASSUME TypeOK, [Next]_vars, NEW x \in DOMAIN evidence
    PROVE  x \in DOMAIN evidence' /\ evidence'[x] = evidence[x]
<1>1. ASSUME NEW e \in Events, RecordAssessment(e)
      PROVE  x \in DOMAIN evidence' /\ evidence'[x] = evidence[x]
  BY <1>1, Recorded DEF Records
<1> QED
  BY <1>1, EvidenceSteps

\* What ApprovedContentWasAssessed asks of a record, for one content.
Backs(id, r, content) ==
    /\ evidence[id].outcome = "accepted"
    /\ sent[id].context.requirement = r
    /\ sent[id].context.content = content
    /\ sent[id].judgement = "ready"
    /\ content \in WithCriteria

LEMMA ApprovedStep ==
    ASSUME TypeOK, TypeOK', EvidenceIsReported, ReportsArePinned,
           ApprovedContentWasAssessed, [Next]_vars
    PROVE  ApprovedContentWasAssessed'
<1> SUFFICES ASSUME NEW r \in Requirements, req'[r].status \in {"Ready", "Accepted"}
             PROVE  \E id \in DOMAIN evidence' : Backs(id, r, req[r].content)'
  BY DEF ApprovedContentWasAssessed, Backs
<1>1. ASSUME req[r].status \in {"Ready", "Accepted"}, req'[r].content = req[r].content
      PROVE  \E id \in DOMAIN evidence' : Backs(id, r, req[r].content)'
  <2>1. PICK id \in DOMAIN evidence : Backs(id, r, req[r].content)
    BY <1>1 DEF ApprovedContentWasAssessed, Backs
  <2>2. id \in DOMAIN evidence' /\ evidence'[id] = evidence[id]
    BY EvidenceKept
  <2>3. id \in DOMAIN sent /\ sent'[id] = sent[id]
    BY SentSteps DEF EvidenceIsReported
  <2> QED
    BY <1>1, <2>1, <2>2, <2>3 DEF Backs
<1>2. ASSUME NEW e \in Events, Records(e, r), Promotes(e, r)
      PROVE  \E id \in DOMAIN evidence' : Backs(id, r, req[r].content)'
  <2>1. /\ sent[e].context.revision = req[r].revision
        /\ sent[e].judgement = "ready"
        /\ req[r].content \in WithCriteria
    BY <1>2 DEF Records, Promotes, Refusal, Judgements
  <2>2. sent[e].context.content = req[r].content
    BY <1>2, <2>1 DEF Records, ReportsArePinned, PinnedContent
  <2>3. req'[r].content = req[r].content
    BY <1>2 DEF Promotes, TypeOK, Moved
  <2> QED
    BY <1>2, <2>1, <2>2, <2>3 DEF Records, Promotes, Backs
<1>3. CASE req[r].status = "Ready" /\ req'[r] = Moved(req[r], "Accepted")
  BY <1>1, <1>3 DEF Moved
<1> QED
  BY <1>1, <1>2, <1>3, ApprovalSteps
-----------------------------------------------------------------------------
(* The audit trail.                                                         *)

\* What AuditTellsStatus says of one trail, and of the status it leads to.
Chained(rows) ==
    \A i \in 1..Len(rows) :
        /\ rows[i].from = IF i = 1 THEN "Draft" ELSE rows[i - 1].to
        /\ i > 1 => rows[i - 1].state_version < rows[i].state_version
LeadsTo(rows, status) ==
    status = IF rows = << >> THEN "Draft" ELSE rows[Len(rows)].to

\* The trail of a requirement that does not exist is empty, and no audit row is
\* from a generation that has not been reached.
AuditIsOld ==
    \A r \in Requirements :
        /\ req[r].status = "Absent" => audit[r] = << >>
        /\ \A i \in 1..Len(audit[r]) : audit[r][i].state_version <= req[r].state_version

\* Whatever a mark_ready row names is recorded, so a receipt that was recorded
\* before finds its event here.
PromotionsAreRecorded ==
    \A r \in Requirements : \A i \in 1..Len(audit[r]) :
        audit[r][i].transition = "mark_ready" => audit[r][i].assessment \in DOMAIN evidence

AuditInv == AuditIsOld /\ AuditTellsStatus /\ PromotionsAreRecorded /\ PromotesAtMostOnce

LEMMA AppendedRows ==
    ASSUME NEW rows \in Seq(AuditRow), NEW row \in AuditRow
    PROVE  /\ Len(rows) \in Nat
           /\ Append(rows, row) # << >>
           /\ Len(Append(rows, row)) = Len(rows) + 1
           /\ \A i \in 1..Len(rows) : Append(rows, row)[i] = rows[i]
           /\ Append(rows, row)[Len(rows) + 1] = row
           /\ rows = << >> <=> Len(rows) = 0
           /\ \A i \in 1..Len(rows) : rows[i] \in AuditRow
OBVIOUS

\* A chain grows by a row that leaves where it has arrived, in a generation
\* later than all of its own.
LEMMA ChainGrows ==
    ASSUME NEW rows \in Seq(AuditRow), NEW row \in AuditRow,
           Chained(rows), LeadsTo(rows, row.from),
           \A i \in 1..Len(rows) : rows[i].state_version < row.state_version
    PROVE  Chained(Append(rows, row)) /\ LeadsTo(Append(rows, row), row.to)
<1> DEFINE longer == Append(rows, row)
           n == Len(rows)
<1>a. /\ n \in Nat
      /\ longer # << >>
      /\ Len(longer) = n + 1
      /\ \A i \in 1..n : longer[i] = rows[i]
      /\ longer[n + 1] = row
      /\ rows = << >> <=> n = 0
  BY AppendedRows
<1> HIDE DEF longer
<1>1. ASSUME NEW i \in 1..Len(longer)
      PROVE  /\ longer[i].from = IF i = 1 THEN "Draft" ELSE longer[i - 1].to
             /\ i > 1 => longer[i - 1].state_version < longer[i].state_version
  <2>1. CASE i \in 1..n
    BY <1>a, <2>1 DEF Chained
  <2>2. CASE i = n + 1
    <3>1. CASE n = 0
      BY <1>a, <2>2, <3>1 DEF LeadsTo
    <3>2. CASE n > 0
      <4>1. i # 1 /\ i - 1 = n /\ n \in 1..n /\ rows # << >>
        BY <1>a, <2>2, <3>2
      <4>2. longer[i - 1] = rows[n] /\ longer[i] = row
        BY <1>a, <2>2, <4>1
      <4> QED
        BY <4>1, <4>2 DEF LeadsTo
    <3> QED
      BY <1>a, <3>1, <3>2
  <2> QED
    BY <1>a, <2>1, <2>2
<1>2. Chained(longer)
  BY <1>1 DEF Chained
<1>3. LeadsTo(longer, row.to)
  BY <1>a DEF LeadsTo
<1> QED
  BY <1>2, <1>3 DEF longer

\* What a step does that writes row to the trail of r: the row tells the step,
\* and if it names a promotion, the event was not recorded before and is now.
Writes(r, row) ==
    /\ audit' = [audit EXCEPT ![r] = Append(audit[r], row)]
    /\ \A q \in Requirements \ {r} : req'[q] = req[q]
    /\ row.from = req[r].status /\ req[r].status # "Absent"
    /\ row.to = req'[r].status /\ req'[r].status # "Absent"
    /\ row.state_version = req[r].state_version + 1
    /\ row.state_version = req'[r].state_version
    /\ row.transition = "mark_ready" =>
          row.assessment \notin DOMAIN evidence /\ row.assessment \in DOMAIN evidence'

\* What a step does that writes none.
WritesNone ==
    /\ audit' = audit
    /\ \A r \in Requirements : \/ req'[r].status = req[r].status
                               \/ req[r].status = "Absent" /\ req'[r].status = "Draft"

\* The row that Audited appends, when the requirement moves to where it says.
LEMMA AuditedWrites ==
    ASSUME TypeOK, NEW r \in Requirements, req[r].status # "Absent",
           NEW t \in Transitions \cup {"mark_ready", "edit_demotes_ready"},
           NEW to \in Statuses, NEW id \in Events \cup {None},
           audit' = Audited(r, t, to, id),
           NEW new \in Row, req' = [req EXCEPT ![r] = new], new.status = to,
           new.state_version = req[r].state_version + 1,
           t = "mark_ready" => id \notin DOMAIN evidence /\ id \in DOMAIN evidence'
    PROVE  \E row \in AuditRow : Writes(r, row)
<1> DEFINE row == [transition |-> t, from |-> req[r].status, to |-> to,
                   assessment |-> id, state_version |-> req[r].state_version + 1]
<1>1. req[r] \in Row /\ req'[r] = new /\ \A q \in Requirements \ {r} : req'[q] = req[q]
  BY DEF TypeOK
<1>2. row \in AuditRow
  BY <1>1, RequirementAssumption DEF RequirementAssumption, AuditRow, Row
<1>3. to # "Absent"
  BY DEF Statuses
<1>4. audit' = [audit EXCEPT ![r] = Append(audit[r], row)]
  BY DEF Audited
<1>5. Writes(r, row)
  BY <1>1, <1>3, <1>4 DEF Writes
<1> QED
  BY <1>2, <1>5

LEMMA AuditSteps ==
    ASSUME TypeOK, RevisionBehind, [Next]_vars
    PROVE  WritesNone \/ \E r \in Requirements : \E row \in AuditRow : Writes(r, row)
<1> DEFINE Goal == WritesNone \/ \E r \in Requirements : \E row \in AuditRow : Writes(r, row)
<1>a. \A r \in Requirements : req[r] \in Row
  BY DEF TypeOK
<1>b. \A r \in Requirements, to \in Statuses :
         Incrementable(req[r]) => /\ Moved(req[r], to) \in Row
                                  /\ Moved(req[r], to).status = to
                                  /\ Moved(req[r], to).state_version = req[r].state_version + 1
  BY <1>a, MovedRow DEF Moved
<1>1. ASSUME NEW r \in Requirements, CreateRequirement(r) PROVE Goal
  BY <1>1 DEF CreateRequirement, TypeOK, WritesNone
<1>2. ASSUME NEW c \in Clients, NEW r \in Requirements, NEW t \in Transitions,
             TransitionRequirement(c, r, t)
      PROVE  Goal
  <2> DEFINE id == IF t \in ReviewTransitions THEN view[c][r].assessment ELSE None
  <2>1. Target(t) \in Statuses /\ t # "mark_ready"
    BY DEF Target, Statuses, Transitions
  <2>2. id \in Events \cup {None}
    BY DEF TypeOK, View
  <2>3. /\ req[r].status # "Absent" /\ Incrementable(req[r])
        /\ req' = [req EXCEPT ![r] = Moved(req[r], Target(t))]
        /\ audit' = Audited(r, t, Target(t), id)
    BY <1>2 DEF TransitionRequirement, TransitionFrom
  <2> HIDE DEF id
  <2> QED
    BY <1>b, <2>1, <2>2, <2>3, AuditedWrites
<1>3. ASSUME NEW c \in Clients, NEW r \in Requirements, NEW k \in Contents,
             EditRequirement(c, r, k)
      PROVE  Goal
  <2>1. /\ req[r].status # "Absent" /\ Incrementable(req[r])
        /\ req' = [req EXCEPT ![r] = Edited(req[r], k)]
        /\ audit' = EditAudited(r)
    BY <1>3 DEF EditRequirement
  <2>2. Edited(req[r], k) \in Row
    BY <1>a, <2>1, EditedRow DEF RevisionBehind
  <2>3. CASE req[r].status = "Ready"
    <3>1. /\ Edited(req[r], k).status = "Discussing"
          /\ Edited(req[r], k).state_version = req[r].state_version + 1
      BY <2>3 DEF Edited
    <3>2. audit' = Audited(r, "edit_demotes_ready", "Discussing", None)
      BY <2>1, <2>3 DEF EditAudited
    <3>3. /\ "Discussing" \in Statuses
          /\ "edit_demotes_ready" \in Transitions \cup {"mark_ready", "edit_demotes_ready"}
          /\ None \in Events \cup {None}
      BY DEF Statuses
    <3>4. \E row \in AuditRow : Writes(r, row)
      BY <2>1, <2>2, <3>1, <3>2, <3>3, AuditedWrites
    <3> QED
      BY <3>4
  <2>4. CASE req[r].status # "Ready"
    BY <2>1, <2>4 DEF EditAudited, Edited, TypeOK, WritesNone
  <2> QED
    BY <2>3, <2>4
<1>4. ASSUME NEW c \in Clients, NEW r \in Requirements, StartClarification(c, r)
      PROVE  Goal
  <2>1. CASE req[r].status = "Draft"
    <3>1. /\ req[r].status # "Absent" /\ Incrementable(req[r])
          /\ req' = [req EXCEPT ![r] = Moved(req[r], "Discussing")]
          /\ audit' = Audited(r, "begin_discussion", "Discussing", None)
      BY <1>4, <2>1 DEF StartClarification, TransitionFrom
    <3>2. /\ "Discussing" \in Statuses
          /\ "begin_discussion" \in Transitions \cup {"mark_ready", "edit_demotes_ready"}
          /\ None \in Events \cup {None}
      BY DEF Statuses, Transitions
    <3>3. /\ Moved(req[r], "Discussing") \in Row
          /\ Moved(req[r], "Discussing").status = "Discussing"
          /\ Moved(req[r], "Discussing").state_version = req[r].state_version + 1
      BY <1>b, <3>1, <3>2
    <3>4. \E row \in AuditRow : Writes(r, row)
      BY <3>1, <3>2, <3>3, AuditedWrites
    <3> QED
      BY <3>4
  <2>2. CASE req[r].status # "Draft"
    BY <1>4, <2>2 DEF StartClarification, WritesNone
  <2> QED
    BY <2>1, <2>2
<1>5. ASSUME NEW e \in Events, RecordAssessment(e) PROVE Goal
  <2>1. PICK r \in Requirements : Records(e, r)
    BY <1>5, Recorded
  <2>2. CASE Refuses(e, r)
    <3>1. Refusal(req[r], sent[e]) # "none"
      BY <1>5, <2>1, <2>2 DEF RecordAssessment, Records, Refuses, Extend
    <3>2. audit' = audit
      BY <1>5, <2>1, <3>1 DEF RecordAssessment, Records
    <3> QED
      BY <2>2, <3>2 DEF Refuses, WritesNone
  <2>3. CASE Promotes(e, r)
    <3>1. /\ Incrementable(req[r])
          /\ audit' = Audited(r, "mark_ready", "Ready", e)
      BY <1>5, <2>1, <2>3 DEF RecordAssessment, Records, Promotes
    <3>2. req[r].status # "Absent" /\ req' = [req EXCEPT ![r] = Moved(req[r], "Ready")]
      BY <2>3 DEF Promotes, Refusal
    <3>3. e \notin DOMAIN evidence /\ e \in DOMAIN evidence'
      BY <2>1 DEF Records
    <3>4. "Ready" \in Statuses
      BY DEF Statuses
    <3> QED
      BY <1>b, <3>1, <3>2, <3>3, <3>4, AuditedWrites
  <2> QED
    BY <2>1, <2>2, <2>3 DEF Records
<1>6. CASE UNCHANGED <<req, audit>>
  BY <1>6 DEF WritesNone
<1> QED
  BY <1>1, <1>2, <1>3, <1>4, <1>5, <1>6
  DEF Next, ServerNext, vars, ReadRequirement, ReadReviewPacket, LoadForStart,
      EmitAssessment

LEMMA AuditInvStep ==
    ASSUME TypeOK, TypeOK', RevisionBehind, Created, AuditInv, [Next]_vars
    PROVE  AuditInv'
<1>a. \A r \in Requirements : /\ audit[r] \in Seq(AuditRow)
                              /\ req[r] \in Row /\ req'[r] \in Row
  BY DEF TypeOK
<1>b. \A r \in Requirements : req[r].state_version <= req'[r].state_version
  BY RowsAdvance DEF Snapshot
<1>c. DOMAIN evidence \subseteq DOMAIN evidence'
  BY EvidenceKept
<1>d. ASSUME NEW r \in Requirements, NEW i \in 1..Len(audit[r])
      PROVE  /\ audit[r][i].state_version \in Nat
             /\ audit[r][i].state_version <= req[r].state_version
  <2>1. audit[r][i] \in AuditRow
    BY <1>a
  <2>2. audit[r][i].state_version \in Nat
    BY <2>1 DEF AuditRow
  <2> QED
    BY <2>2 DEF AuditInv, AuditIsOld
<1>e. \A r \in Requirements : /\ req[r].state_version \in Nat
                              /\ req'[r].state_version \in Nat
  BY <1>a, RowFields
<1>1. CASE WritesNone
  <2>1. \A r \in Requirements : req'[r].status = "Absent" => req[r].status = "Absent"
    BY <1>1 DEF WritesNone
  <2>2. AuditIsOld'
    BY <1>1, <1>b, <1>d, <1>e, <2>1 DEF WritesNone, AuditInv, AuditIsOld
  <2>3. AuditTellsStatus'
    BY <1>1 DEF WritesNone, AuditInv, AuditTellsStatus, AuditIsOld
  <2>4. PromotionsAreRecorded' /\ PromotesAtMostOnce'
    BY <1>1, <1>c DEF WritesNone, AuditInv, PromotionsAreRecorded, PromotesAtMostOnce
  <2> QED
    BY <2>2, <2>3, <2>4 DEF AuditInv
<1>2. ASSUME NEW r \in Requirements, NEW row \in AuditRow, Writes(r, row)
      PROVE  AuditInv'
  <2> DEFINE n == Len(audit[r])
  <2>a. /\ n \in Nat
        /\ audit'[r] # << >>
        /\ Len(audit'[r]) = n + 1
        /\ \A i \in 1..n : audit'[r][i] = audit[r][i]
        /\ audit'[r][n + 1] = row
    <3>1. audit'[r] = Append(audit[r], row)
      BY <1>2 DEF Writes, TypeOK
    <3> QED
      BY <1>a, <3>1, AppendedRows
  <2>b. \A q \in Requirements \ {r} : audit'[q] = audit[q] /\ req'[q] = req[q]
    BY <1>2 DEF Writes, TypeOK
  <2>c. /\ row.from = req[r].status /\ req[r].status # "Absent"
        /\ row.to = req'[r].status /\ req'[r].status # "Absent"
        /\ row.state_version = req[r].state_version + 1
        /\ row.state_version = req'[r].state_version
        /\ row.transition = "mark_ready" =>
              row.assessment \notin DOMAIN evidence /\ row.assessment \in DOMAIN evidence'
    BY <1>2 DEF Writes
  <2>1. AuditIsOld'
    <3>1. ASSUME NEW i \in 1..Len(audit'[r])
          PROVE  audit'[r][i].state_version <= req'[r].state_version
      <4>1. CASE i = n + 1
        BY <1>e, <2>a, <2>c, <4>1
      <4>2. CASE i \in 1..n
        BY <1>b, <1>d, <1>e, <2>a, <4>2
      <4> QED
        BY <2>a, <4>1, <4>2
    <3> QED
      BY <2>b, <2>c, <3>1 DEF AuditInv, AuditIsOld
  <2>2. AuditTellsStatus'
    <3>1. Chained(audit[r]) /\ LeadsTo(audit[r], req[r].status)
      BY <2>c DEF AuditInv, AuditTellsStatus, Chained, LeadsTo
    <3>2. \A i \in 1..n : audit[r][i].state_version < row.state_version
      BY <1>d, <1>e, <2>c
    <3>3. audit'[r] = Append(audit[r], row)
      BY <1>2 DEF Writes, TypeOK
    <3>4. Chained(audit'[r]) /\ LeadsTo(audit'[r], req'[r].status)
      BY <1>a, <2>c, <3>1, <3>2, <3>3, ChainGrows
    <3> QED
      BY <2>b, <3>4 DEF AuditInv, AuditTellsStatus, Chained, LeadsTo
  <2>3. PromotionsAreRecorded'
    <3>1. ASSUME NEW i \in 1..Len(audit'[r]), audit'[r][i].transition = "mark_ready"
          PROVE  audit'[r][i].assessment \in DOMAIN evidence'
      <4>1. CASE i = n + 1
        BY <2>a, <2>c, <3>1, <4>1
      <4>2. CASE i \in 1..n
        BY <1>c, <2>a, <3>1, <4>2 DEF AuditInv, PromotionsAreRecorded
      <4> QED
        BY <2>a, <4>1, <4>2
    <3> QED
      BY <1>c, <2>b, <3>1 DEF AuditInv, PromotionsAreRecorded
  <2>4. PromotesAtMostOnce'
    <3> DEFINE Old(q, i) == /\ i \in 1..Len(audit[q])
                            /\ audit'[q][i] = audit[q][i]
    <3>1. ASSUME NEW q \in Requirements, NEW i \in 1..Len(audit'[q])
          PROVE  Old(q, i) \/ (q = r /\ i = n + 1 /\ audit'[q][i] = row)
      BY <2>a, <2>b
    <3>2. ASSUME NEW q \in Requirements, NEW i, Old(q, i), audit'[q][i].transition = "mark_ready"
          PROVE  audit'[q][i].assessment \in DOMAIN evidence
      BY <3>2 DEF AuditInv, PromotionsAreRecorded
    <3>3. SUFFICES ASSUME NEW r1 \in Requirements, NEW r2 \in Requirements,
                          NEW i \in 1..Len(audit'[r1]), NEW j \in 1..Len(audit'[r2]),
                          audit'[r1][i].transition = "mark_ready",
                          audit'[r2][j].transition = "mark_ready",
                          audit'[r1][i].assessment = audit'[r2][j].assessment
                   PROVE  <<r1, i>> = <<r2, j>>
      BY DEF PromotesAtMostOnce
    <3>4. CASE Old(r1, i) /\ Old(r2, j)
      BY <3>3, <3>4 DEF AuditInv, PromotesAtMostOnce
    <3>5. CASE Old(r1, i) /\ ~Old(r2, j)
      BY <2>c, <3>1, <3>2, <3>3, <3>5
    <3>6. CASE ~Old(r1, i) /\ Old(r2, j)
      BY <2>c, <3>1, <3>2, <3>3, <3>6
    <3>7. CASE ~Old(r1, i) /\ ~Old(r2, j)
      BY <3>1, <3>3, <3>7
    <3> QED
      BY <3>4, <3>5, <3>6, <3>7
  <2> QED
    BY <2>1, <2>2, <2>3, <2>4 DEF AuditInv
<1> QED
  BY <1>1, <1>2, AuditSteps
-----------------------------------------------------------------------------
(* The theorems.                                                            *)

LEMMA IInvInit == Init => IInv
<1> SUFFICES ASSUME Init PROVE IInv
  OBVIOUS
<1>1. TypeOK /\ RevisionBehind
  BY TypeInit
<1>2. Created
  BY DEF Init, Created
<1>3. Snapshot(AbsentRow, AbsentRow)
  <2>1. AbsentRow \in Row
    BY RequirementAssumption DEF RequirementAssumption, AbsentRow, Row
  <2> QED
    BY <2>1, SnapshotReflexive
<1>4. ViewsAreSnapshots /\ LoadedAreSnapshots
  BY <1>3 DEF Init, ViewsAreSnapshots, LoadedAreSnapshots
<1>5. DOMAIN sent = {} /\ DOMAIN evidence = {} /\ contexts = {}
  BY DEF Init
<1>6. ContextsArePinned /\ ReportsArePinned /\ EvidenceIsReported
  BY <1>5 DEF ContextsArePinned, ReportsArePinned, EvidenceIsReported
<1>7. ReadyIsReviewable /\ ApprovedContentWasAssessed
  BY DEF Init, AbsentRow, ReadyIsReviewable, ApprovedContentWasAssessed
<1> QED
  BY <1>1, <1>2, <1>4, <1>6, <1>7 DEF IInv

LEMMA IInvStep == IInv /\ [Next]_vars => IInv'
<1> SUFFICES ASSUME IInv, [Next]_vars PROVE IInv'
  OBVIOUS
<1> USE DEF IInv
<1>1. TypeOK' /\ RevisionBehind'
  BY TypeStep
<1> QED
  BY <1>1, CreatedStep, ViewsStep, LoadedStep, ContextsStep, ReportsStep, EvidenceStep,
     ReadyStep, ApprovedStep

LEMMA Invariance == Spec => []IInv
BY IInvInit, IInvStep, PTL DEF Spec

\* In every reachable state a Ready requirement has exactly one piece of
\* evidence of its generation, so the reviewer can always decide on it.
THEOREM ReadyCanBeReviewed == Spec => []ReadyIsReviewable
<1>1. IInv => ReadyIsReviewable
  BY DEF IInv
<1> QED
  BY <1>1, Invariance, PTL

\* Nothing is ever Ready or Accepted whose content, field by field, an agent
\* did not judge ready.
THEOREM ApprovalMeansAssessed == Spec => []ApprovedContentWasAssessed
<1>1. IInv => ApprovedContentWasAssessed
  BY DEF IInv
<1> QED
  BY <1>1, Invariance, PTL

\* A reviewer's decision takes effect only on the content the reviewer read,
\* and that is the content the cited evidence is about.
THEOREM DecisionsBind == Spec => DecisionBindsToReviewed
<1> DEFINE A == \A c \in Clients, r \in Requirements, t \in ReviewTransitions :
                  TransitionRequirement(c, r, t) =>
                    LET seen == view[c][r]
                    IN  /\ seen.row.content = req[r].content
                        /\ sent[seen.assessment].context.requirement = r
                        /\ sent[seen.assessment].context.content = req[r].content
                        /\ sent[seen.assessment].judgement = "ready"
<1>1. IInv => A
  <2> SUFFICES ASSUME IInv, NEW c \in Clients, NEW r \in Requirements,
                      NEW t \in ReviewTransitions, TransitionRequirement(c, r, t)
               PROVE  /\ view[c][r].row.content = req[r].content
                      /\ sent[view[c][r].assessment].context.requirement = r
                      /\ sent[view[c][r].assessment].context.content = req[r].content
                      /\ sent[view[c][r].assessment].judgement = "ready"
    OBVIOUS
  <2> DEFINE id == view[c][r].assessment
  <2>1. CurrentReviewAssessment(r, id)
    BY DEF TransitionRequirement
  <2>2. /\ id \in DOMAIN sent
        /\ sent[id].context.requirement = r
        /\ sent[id].context.revision = req[r].revision
        /\ sent[id].judgement = "ready"
    BY <2>1 DEF CurrentReviewAssessment, IInv, EvidenceIsReported
  <2>3. sent[id].context.content = req[r].content
    BY <2>2 DEF IInv, ReportsArePinned, PinnedContent
  <2>4. view[c][r].row = req[r]
    BY DEF TransitionRequirement, ExpectedStateVersion, IInv, ViewsAreSnapshots, Snapshot
  <2> QED
    BY <2>2, <2>3, <2>4
<1>2. IInv => [A]_vars
  BY <1>1
<1> QED
  BY <1>2, Invariance, PTL DEF DecisionBindsToReviewed

\* An edit or a start takes effect only on the very row its author read.
THEOREM NoUpdateIsLost == Spec => NoLostUpdate
<1> DEFINE A == \A c \in Clients, r \in Requirements :
                  (\E k \in Contents : EditRequirement(c, r, k)) \/ StartClarification(c, r)
                    => view[c][r].row = req[r]
<1>1. IInv => A
  BY DEF EditRequirement, StartClarification, ExpectedStateVersion, IInv,
         ViewsAreSnapshots, Snapshot
<1>2. IInv => [A]_vars
  BY <1>1
<1> QED
  BY <1>2, Invariance, PTL DEF NoLostUpdate

LEMMA AuditInvariance == Spec => []AuditInv
<1>1. Init => AuditInv
  BY DEF Init, AbsentRow, AuditInv, AuditIsOld, AuditTellsStatus, PromotionsAreRecorded,
         PromotesAtMostOnce
<1>2. IInv /\ IInv' /\ AuditInv /\ [Next]_vars => AuditInv'
  BY AuditInvStep DEF IInv
<1> QED
  BY <1>1, <1>2, Invariance, PTL DEF Spec

\* The audit trail is the whole status history of every requirement, in the
\* order of its generations and without a gap.
THEOREM AuditIsComplete == Spec => []AuditTellsStatus
<1>1. AuditInv => AuditTellsStatus
  BY DEF AuditInv
<1> QED
  BY <1>1, AuditInvariance, PTL

\* However often an assessment is delivered, it promotes once.
THEOREM PromotionIsOnce == Spec => []PromotesAtMostOnce
<1>1. AuditInv => PromotesAtMostOnce
  BY DEF AuditInv
<1> QED
  BY <1>1, AuditInvariance, PTL
=============================================================================
