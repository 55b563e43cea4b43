---------------------------- MODULE PiReadiness ----------------------------
(***************************************************************************)
(* Requirement with the one agent adapter the daemon ships: the assessment *)
(* on the wire is what PiClarificationAdapter makes of the model's answer,  *)
(* not any assessment the protocol allows.                                  *)
(***************************************************************************)
EXTENDS Requirement

VARIABLE
    responses   \* [emitted events -> Response]: the answers behind the reports

piVars == <<vars, responses>>

\* A parsed answer: a verdict and a list of blockers, some entries blank.  An
\* answer that is not JSON is read as needs_clarification with a blocker.
Response == [verdict : {"ready", "needs_clarification"},
             blockers : SUBSET {"blank", "scope"}]

NoBlockers == "No blockers identified"

\* non_empty_facts: blank entries are dropped, an empty list gets a fallback.
NonEmptyFacts(values, fallback) ==
    LET kept == values \ {"blank"}
    IN  IF kept = {} THEN {fallback} ELSE kept

\* facts_for_response: the assessment event built from an answer.
JudgementOf(response) ==
    LET blockers == NonEmptyFacts(response.blockers, NoBlockers)
    IN  IF response.verdict # "ready" THEN "needs_clarification"
        ELSE IF blockers # {} THEN "blocked" ELSE "ready"

PiReports(e, ctx, response) ==
    /\ EmitAssessment(e, ctx, JudgementOf(response))
    /\ responses' = Extend(responses, e, response)

PiInit == Init /\ responses = << >>

PiNext ==
    \/ ServerNext /\ UNCHANGED responses
    \/ \E e \in Events, ctx \in contexts, a \in Response : PiReports(e, ctx, a)

PiSpec == PiInit /\ [][PiNext]_piVars
-----------------------------------------------------------------------------
\* A current-revision assessment with a Ready verdict, no blockers and
\* acceptance criteria is not refused by the blocker gate: mark_ready reaches
\* that gate only when the status and the revision are right.
CleanAnswerIsNotBlocked ==
    \A e \in DOMAIN evidence :
        /\ responses[e] = [verdict |-> "ready", blockers |-> {}]
        /\ sent[e].context.content \in WithCriteria
        => evidence[e].reason # "blockers_present"
=============================================================================
