---------------------------- MODULE Requirement ----------------------------
(***************************************************************************)
(* The requirement aggregate: the row of table `requirements`, its        *)
(* immutable readiness evidence, its audit trail, and the clients and     *)
(* agents that act on it with what they read earlier.                      *)
(*                                                                         *)
(* Every operation of the store is one PostgreSQL transaction that locks  *)
(* the requirement row (SELECT ... FOR UPDATE), so each is one action.     *)
(* What interleaves are the requests: a browser sends the tokens of the   *)
(* row it once read, the start handler reads the row in one transaction    *)
(* and pins it in another, and an agent's assessment may arrive late,      *)
(* twice, or after the requirement has moved on.  A request that the code  *)
(* refuses changes nothing and is not a step.                              *)
(***************************************************************************)
EXTENDS Integers, Sequences

CONSTANTS
    Requirements,     \* requirement ids
    Contents,         \* values of the six structured fields, taken together
    WithCriteria,     \* the contents with a non-blank acceptance criterion
    NewContent,       \* what Requirement::new starts from: no criteria
    Clients,          \* browsers (and the start handlers working for them)
    Events,           \* ids of requirement.assessed events
    MaxStateVersion,  \* the largest version token a BIGINT column can hold
    None              \* no assessment id

ASSUME RequirementAssumption ==
    /\ WithCriteria \subseteq Contents
    /\ NewContent \in Contents \ WithCriteria
    /\ None \notin Events
    /\ MaxStateVersion \in Nat \ {0}

VARIABLES
    req,        \* [Requirements -> Row]: table requirements
    evidence,   \* [recorded events -> Record]: table readiness_assessments
    audit,      \* [Requirements -> Seq(AuditRow)]: table transition_audit
    view,       \* [Clients -> [Requirements -> View]]: what a browser last read
    loaded,     \* [Clients -> [Requirements -> Row]]: what a start handler read
    contexts,   \* agent contexts pinned by started runs
    sent        \* [emitted events -> Report]: assessments the agents reported

vars == <<req, evidence, audit, view, loaded, contexts, sent>>
-----------------------------------------------------------------------------
Statuses == {"Draft", "Discussing", "Ready", "Accepted", "Rejected"}

\* RequirementTransition: the operations a person asks for by name.
Transitions == {"begin_discussion", "accept", "reject", "request_changes", "reopen"}
ReviewTransitions == {"accept", "reject", "request_changes"}

\* A wire assessment, as the gates tell them apart: verdict Ready without
\* blockers, verdict Ready with blockers, verdict NeedsClarification, and any of
\* them citing a repository outside the session.
Judgements == {"ready", "blocked", "needs_clarification", "unknown_repository"}

\* Why an assessment was refused; "none" when it was accepted.
Reasons == {"none", "unknown_repository", "invalid_transition", "stale_assessment",
            "verdict_not_ready", "blockers_present", "missing_acceptance_criteria"}

\* A row that was never created has status "Absent" and both tokens 0.
Row == [status : Statuses \cup {"Absent"}, revision : 0..MaxStateVersion,
        state_version : 0..MaxStateVersion, content : Contents]
AbsentRow == [status |-> "Absent", revision |-> 0, state_version |-> 0,
              content |-> NewContent]

View == [row : Row, assessment : Events \cup {None}]
Context == [requirement : Requirements, revision : Nat, content : Contents]
Report == [context : Context, judgement : Judgements]
Record == [requirement : Requirements, revision : Nat,
           outcome : {"accepted", "rejected"}, reason : Reasons,
           accepted_state_version : 0..MaxStateVersion]
AuditRow == [transition : Transitions \cup {"mark_ready", "edit_demotes_ready"},
             from : Statuses, to : Statuses,
             assessment : Events \cup {None}, state_version : Nat]

Extend(f, x, v) == [y \in DOMAIN f \cup {x} |-> IF y = x THEN v ELSE f[y]]
-----------------------------------------------------------------------------
(* The domain: north-domain.                                               *)

\* RequirementStatus::can_transition_to
CanTransitionTo(from, to) ==
    <<from, to>> \in {<<"Draft", "Discussing">>, <<"Discussing", "Ready">>,
                      <<"Ready", "Discussing">>, <<"Ready", "Accepted">>,
                      <<"Ready", "Rejected">>, <<"Rejected", "Discussing">>}

\* The source each named operation pins, and where it leads.
Source(t) == CASE t = "begin_discussion" -> "Draft"
               [] t = "reopen" -> "Rejected"
               [] OTHER -> "Ready"
Target(t) == CASE t = "accept" -> "Accepted"
               [] t = "reject" -> "Rejected"
               [] OTHER -> "Discussing"

\* checked_add, then i64::try_from: the next version token can be stored.
IncrementableUnchecked(row) == row.state_version <= MaxStateVersion  \* mutant
Incrementable(row) == row.state_version < MaxStateVersion

\* transition_from, applied when its checks pass: one step of state_version,
\* the revision and the content untouched.
TransitionFrom(row, from, to) ==
    /\ row.status = from
    /\ CanTransitionTo(from, to)
    /\ Incrementable(row)

Moved(row, to) ==
    [status |-> to, revision |-> row.revision,
     state_version |-> row.state_version + 1, content |-> row.content]

\* The citation check and then mark_ready's gates, in the code's order: the
\* first one that fails, or "none".
Refusal(row, report) ==
    IF report.judgement = "unknown_repository" THEN "unknown_repository"
    ELSE IF row.status # "Discussing" THEN "invalid_transition"
    ELSE IF report.context.revision # row.revision THEN "stale_assessment"
    ELSE IF report.judgement = "needs_clarification" THEN "verdict_not_ready"
    ELSE IF report.judgement = "blocked" THEN "blockers_present"
    ELSE IF row.content \notin WithCriteria THEN "missing_acceptance_criteria"
    ELSE "none"

\* apply_edit on a row whose content really changes.
EditedStaysReady(row, content) ==  \* mutant: no demotion
    [row EXCEPT !.content = content, !.revision = @ + 1, !.state_version = @ + 1]
EditedSameRevision(row, content) ==  \* mutant: only state_version moves
    [row EXCEPT !.content = content, !.state_version = @ + 1,
                !.status = IF @ = "Ready" THEN "Discussing" ELSE @]
Edited(row, content) ==
    [status |-> IF row.status = "Ready" THEN "Discussing" ELSE row.status,
     revision |-> row.revision + 1,
     state_version |-> row.state_version + 1, content |-> content]
-----------------------------------------------------------------------------
(* The store: north-persistence.                                           *)

\* current_review_assessment: accepted evidence of exactly this generation.
CurrentReviewAssessment(r, id) ==
    /\ id \in DOMAIN evidence
    /\ evidence[id].requirement = r
    /\ evidence[id].revision = req[r].revision
    /\ evidence[id].accepted_state_version = req[r].state_version
    /\ evidence[id].outcome = "accepted"

\* The optimistic token of a request: the row is still the generation the
\* client read.
AnyStateVersion(c, r) == TRUE  \* mutant
ExpectedStateVersion(c, r) == req[r].state_version = view[c][r].row.state_version

\* The revision from which the start handler assembled the agent context.
AnyRevision(c, r) == TRUE  \* mutant
LoadedRevision(c, r) == req[r].revision = loaded[c][r].revision

\* INSERT INTO transition_audit, next to the UPDATE of the row.
Audited(r, t, to, id) ==
    [audit EXCEPT ![r] = Append(@,
        [transition |-> t, from |-> req[r].status, to |-> to, assessment |-> id,
         state_version |-> req[r].state_version + 1])]

\* Only an edit that demotes leaves an audit row.
EditNotAudited(r) == audit  \* mutant
EditAudited(r) == IF req[r].status = "Ready"
                  THEN Audited(r, "edit_demotes_ready", "Discussing", None)
                  ELSE audit

\* assessment_by_event: the event has not been recorded before.
AnyReceipt(e) == TRUE  \* mutant
FirstReceipt(e) == e \notin DOMAIN evidence

Init ==
    /\ req = [r \in Requirements |-> AbsentRow]
    /\ evidence = << >>
    /\ audit = [r \in Requirements |-> << >>]
    /\ view = [c \in Clients |-> [r \in Requirements |->
                                    [row |-> AbsentRow, assessment |-> None]]]
    /\ loaded = [c \in Clients |-> [r \in Requirements |-> AbsentRow]]
    /\ contexts = {}
    /\ sent = << >>

\* create_requirement
CreateRequirement(r) ==
    /\ req[r].status = "Absent"
    /\ req' = [req EXCEPT ![r] = [status |-> "Draft", revision |-> 1,
                                  state_version |-> 1, content |-> NewContent]]
    /\ UNCHANGED <<evidence, audit, view, loaded, contexts, sent>>

\* A browser reads the requirement (requirement_by_id).
ReadRequirement(c, r) ==
    /\ req[r].status # "Absent"
    /\ view' = [view EXCEPT ![c][r] = [row |-> req[r], assessment |-> None]]
    /\ UNCHANGED <<req, evidence, audit, loaded, contexts, sent>>

\* A browser reads the review packet: only of a Ready requirement, and only
\* with evidence of its current generation.
ReadReviewPacket(c, r, id) ==
    /\ req[r].status = "Ready"
    /\ CurrentReviewAssessment(r, id)
    /\ view' = [view EXCEPT ![c][r] = [row |-> req[r], assessment |-> id]]
    /\ UNCHANGED <<req, evidence, audit, loaded, contexts, sent>>

\* transition_requirement_with_feedback, asked with the tokens in view[c][r].
TransitionRequirement(c, r, t) ==
    LET seen == view[c][r]
    IN  /\ req[r].status # "Absent"
        /\ ExpectedStateVersion(c, r)
        /\ t \in ReviewTransitions => CurrentReviewAssessment(r, seen.assessment)
        /\ TransitionFrom(req[r], Source(t), Target(t))
        /\ req' = [req EXCEPT ![r] = Moved(req[r], Target(t))]
        /\ audit' = Audited(r, t, Target(t),
                            IF t \in ReviewTransitions THEN seen.assessment ELSE None)
        /\ UNCHANGED <<evidence, view, loaded, contexts, sent>>

\* edit_requirement_with_actor.  An edit that changes nothing commits nothing.
EditRequirement(c, r, content) ==
    /\ req[r].status \notin {"Absent", "Accepted", "Rejected"}
    /\ ExpectedStateVersion(c, r)
    /\ content # req[r].content
    /\ Incrementable(req[r])
    /\ req' = [req EXCEPT ![r] = Edited(req[r], content)]
    /\ audit' = EditAudited(r)
    /\ UNCHANGED <<evidence, view, loaded, contexts, sent>>

\* The start handler's first read, from which it assembles the agent context.
LoadForStart(c, r) ==
    /\ req[r].status # "Absent"
    /\ loaded' = [loaded EXCEPT ![c][r] = req[r]]
    /\ UNCHANGED <<req, evidence, audit, view, contexts, sent>>

\* start_clarification, in a later transaction: the client's state_version and
\* the handler's revision must both still be current; a Draft begins
\* discussion; the context is pinned for the agent.
StartClarification(c, r) ==
    /\ req[r].status # "Absent"
    /\ ExpectedStateVersion(c, r)
    /\ LoadedRevision(c, r)
    /\ \/ /\ req[r].status = "Draft"
          /\ TransitionFrom(req[r], "Draft", "Discussing")
          /\ req' = [req EXCEPT ![r] = Moved(req[r], "Discussing")]
          /\ audit' = Audited(r, "begin_discussion", "Discussing", None)
       \/ /\ req[r].status # "Draft"
          /\ UNCHANGED <<req, audit>>
    /\ contexts' = contexts \cup {[requirement |-> r, revision |-> req[r].revision,
                                   content |-> loaded[c][r].content]}
    /\ loaded' = [loaded EXCEPT ![c][r] = AbsentRow]
    /\ UNCHANGED <<evidence, view, sent>>

\* External: an agent working from a pinned context reports its judgement.
EmitAssessment(e, ctx, j) ==
    /\ e \notin DOMAIN sent
    /\ sent' = Extend(sent, e, [context |-> ctx, judgement |-> j])
    /\ UNCHANGED <<req, evidence, audit, view, loaded, contexts>>

\* record_readiness_assessment_with_event_digest: at any time after the report,
\* any number of times.  An event already recorded has no second effect.
RecordAssessment(e) ==
    LET report == sent[e]
        r == report.context.requirement
        reason == Refusal(req[r], report)
        accepted == reason = "none"
    IN  /\ e \in DOMAIN sent
        /\ FirstReceipt(e)
        /\ accepted => Incrementable(req[r])
        /\ evidence' = Extend(evidence, e,
               [requirement |-> r, revision |-> report.context.revision,
                outcome |-> IF accepted THEN "accepted" ELSE "rejected",
                reason |-> reason,
                accepted_state_version |->
                    IF accepted THEN req[r].state_version + 1 ELSE 0])
        /\ IF accepted
           THEN /\ req' = [req EXCEPT ![r] = Moved(req[r], "Ready")]
                /\ audit' = Audited(r, "mark_ready", "Ready", e)
           ELSE UNCHANGED <<req, audit>>
        /\ UNCHANGED <<view, loaded, contexts, sent>>

\* Everything but the agents.
ServerNext ==
    \/ \E r \in Requirements : CreateRequirement(r)
    \/ \E c \in Clients, r \in Requirements :
          \/ ReadRequirement(c, r)
          \/ \E id \in Events : ReadReviewPacket(c, r, id)
          \/ \E t \in Transitions : TransitionRequirement(c, r, t)
          \/ \E k \in Contents : EditRequirement(c, r, k)
          \/ LoadForStart(c, r)
          \/ StartClarification(c, r)
    \/ \E e \in Events : RecordAssessment(e)

Next ==
    \/ ServerNext
    \/ \E e \in Events, ctx \in contexts, j \in Judgements : EmitAssessment(e, ctx, j)

Spec == Init /\ [][Next]_vars
-----------------------------------------------------------------------------
(* Correctness.                                                            *)

IsPartial(f, S, T) == DOMAIN f \subseteq S /\ f \in [DOMAIN f -> T]

\* The shape of the tables, the views and the reports.
TypeOK ==
    /\ req \in [Requirements -> Row]
    /\ IsPartial(evidence, Events, Record)
    /\ audit \in [Requirements -> Seq(AuditRow)]
    /\ view \in [Clients -> [Requirements -> View]]
    /\ loaded \in [Clients -> [Requirements -> Row]]
    /\ contexts \subseteq Context
    /\ IsPartial(sent, Events, Report)

\* A Ready requirement is reviewable: review_packet finds evidence of exactly
\* the current revision and state_version, and there is only one such piece.
\* An edit, a demotion or a second assessment that broke the pairing would
\* leave a Ready requirement nobody can accept, reject or send back.
ReadyIsReviewable ==
    \A r \in Requirements : req[r].status = "Ready" =>
        \E id \in DOMAIN evidence :
            /\ CurrentReviewAssessment(r, id)
            /\ \A other \in DOMAIN evidence :
                  CurrentReviewAssessment(r, other) => other = id

\* What is Ready or Accepted is, field by field, what an agent judged ready:
\* the content pinned in the context of an accepted assessment, with criteria.
\* (The revision number stands for the content only if no path changes one
\* without the other, including the handler that read the row before pinning.)
ApprovedContentWasAssessed ==
    \A r \in Requirements : req[r].status \in {"Ready", "Accepted"} =>
        \E id \in DOMAIN evidence :
            /\ evidence[id].outcome = "accepted"
            /\ sent[id].context.requirement = r
            /\ sent[id].context.content = req[r].content
            /\ sent[id].judgement = "ready"
            /\ req[r].content \in WithCriteria

\* transition_audit tells the whole status history: it starts at Draft, each
\* row leaves from where the previous one arrived, state versions grow, and
\* the last row arrives at the status the requirement has now.
AuditTellsStatus ==
    \A r \in Requirements : req[r].status # "Absent" =>
        LET rows == audit[r]
        IN  /\ \A i \in 1..Len(rows) :
                  /\ rows[i].from = IF i = 1 THEN "Draft" ELSE rows[i - 1].to
                  /\ i > 1 => rows[i - 1].state_version < rows[i].state_version
            /\ req[r].status = IF rows = << >> THEN "Draft" ELSE rows[Len(rows)].to

\* A replayed requirement.assessed event promotes at most once: over the whole
\* history of all requirements it stands in at most one mark_ready row.
PromotesAtMostOnce ==
    \A r1, r2 \in Requirements :
        \A i \in 1..Len(audit[r1]), j \in 1..Len(audit[r2]) :
            /\ audit[r1][i].transition = "mark_ready"
            /\ audit[r2][j].transition = "mark_ready"
            /\ audit[r1][i].assessment = audit[r2][j].assessment
            => <<r1, i>> = <<r2, j>>

\* An accept, reject or request-changes takes effect only on what its author
\* had on screen: the content of the packet read by that client is the
\* current content, and the evidence named judged exactly that content ready.
DecisionBindsToReviewed ==
    [][\A c \in Clients, r \in Requirements, t \in ReviewTransitions :
         TransitionRequirement(c, r, t) =>
            LET seen == view[c][r]
            IN  /\ seen.row.content = req[r].content
                /\ sent[seen.assessment].context.requirement = r
                /\ sent[seen.assessment].context.content = req[r].content
                /\ sent[seen.assessment].judgement = "ready"]_vars

\* No lost update: an edit replaces only content its author has read, and a
\* run that begins discussion starts from the row its requester has read.
NoLostUpdate ==
    [][\A c \in Clients, r \in Requirements :
         (\E k \in Contents : EditRequirement(c, r, k)) \/ StartClarification(c, r) =>
            view[c][r].row = req[r]]_vars
=============================================================================
