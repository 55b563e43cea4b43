--------------------------- MODULE Clarification ---------------------------
(***************************************************************************)
(* Clarification runs of one requirement: who may run, how often, and when *)
(* a run is over.  The server alone decides that, from the run's row in    *)
(* execution_sessions and its attempts in execution_attempts; the daemon   *)
(* executes commands in order and reports facts.                           *)
(*                                                                         *)
(* Each operation of the store is one transaction under a row lock, hence  *)
(* one action.  What interleaves are browsers that start, write and        *)
(* cancel, the retry worker, owners revoking a daemon, the daemon, and the *)
(* events it reported earlier: they arrive in order and once, but as late  *)
(* as they like (module Delivery shows this part).  A request the code     *)
(* refuses changes nothing and is not a step.  An event names its session  *)
(* and no attempt: it is taken for a report on the current one.            *)
(***************************************************************************)
EXTENDS Integers, Sequences, FiniteSetsExt

CONSTANTS
    Messages,     \* requester messages; one starts at most one run, and names it
    Starters,     \* bound: the messages that browsers start runs with
    Daemons,      \* registered daemons, ordered as their ids are
    Capable,      \* those that report the required capabilities
    MaxAttempts,  \* max_attempts, snapshotted into each run
    Revocations   \* BOOLEAN: owners revoke daemons in this instance

NoDaemon == 0

ASSUME ClarificationAssumption ==
    /\ Starters \subseteq Messages
    /\ Daemons \subseteq Nat \ {NoDaemon}
    /\ Capable \subseteq Daemons
    /\ MaxAttempts \in Nat \ {0}
    /\ Revocations \in BOOLEAN

VARIABLES
    run,        \* [Messages -> Row]: table execution_sessions
    attempt,    \* [Messages -> Seq(Attempt)]: table execution_attempts
    commands,   \* [Messages -> Seq(Command)]: every command ever issued, in order
    mapped,     \* [Messages -> SUBSET Messages]: table server_message_command_map
    unknown,    \* [Messages -> Nat]: commands issued when an unknown outcome was reported
    daemon,     \* [Daemons -> status]: table daemon_registrations
    delivered,  \* [Messages -> SUBSET Nat]: commands the daemon's journal has received
    done,       \* [Messages -> Nat]: commands the daemon has finished
    context,    \* [Messages -> Context]: what the daemon retains of the session
    events,     \* [Messages -> Seq(Event)]: reported and not yet projected
    validated   \* runs whose next event has passed validate_daemon_session

serverVars == <<run, attempt, commands, mapped, unknown>>
daemonVars == <<delivered, done, context>>
vars == <<serverVars, daemon, daemonVars, events, validated>>
-----------------------------------------------------------------------------
Terminal == {"Completed", "Failed"}
Open == {"Idle", "Running", "Retrying"}
Classes == {"none", "runtime_failure", "execution_outcome_unknown", "retry_exhausted",
            "owner_unavailable", "cancelled"}

\* owner is daemon_id, current the number in current_attempt_id (0: NULL), runtime
\* and cancel_command whether runtime_id and cancel_command_id are set, class is
\* failure_class.
Row == [state : {"Absent"} \cup Open \cup Terminal, owner : Daemons \cup {NoDaemon},
        runtime : BOOLEAN, attempts : 0..MaxAttempts, current : 0..MaxAttempts,
        cancel_requested : BOOLEAN, cancel_command : BOOLEAN, class : Classes]
AbsentRow == [state |-> "Absent", owner |-> NoDaemon, runtime |-> FALSE, attempts |-> 0,
              current |-> 0, cancel_requested |-> FALSE, cancel_command |-> FALSE,
              class |-> "none"]

\* An attempt is its outcome, a command its kind, an event its type.
Attempt == {"open", "completed", "failed"}
Command == {"start", "resume", "message", "cancel"}
Event == {"started", "completed", "failed", "unknown"}

\* The adapter's context of a session: in_flight is true in memory only.
Contexts == {"none", "retained", "in_flight"}

Executions == {"start", "resume"}
Count(cs, kinds) == Cardinality({i \in 1..Len(cs) : cs[i] \in kinds})
-----------------------------------------------------------------------------
(* The store's transactions.                                               *)

\* choose_eligible_daemon: the first one live, or none.
Eligible == {d \in Capable : daemon[d] = "connected"}
ChooseEligibleDaemon == IF Eligible = {} THEN NoDaemon ELSE Min(Eligible)

\* The run that occupies the requirement's slot.
OccupantsOfSameStart(m) ==  \* mutant: sees only runs of its own start message
    {r \in {m} : run[r].state \in Open}
Occupants(m) == {r \in Messages : run[r].state \in Open}

ExhaustedLate(row) == row.attempts > MaxAttempts  \* mutant: off by one
Exhausted(row) == row.attempts >= MaxAttempts

Issue(m, kind) == commands' = [commands EXCEPT ![m] = Append(@, kind)]

\* A command, its attempt row and the session's counters, in one transaction.
BeginAttempt(m, row, kind) ==
    /\ Issue(m, kind)
    /\ attempt' = [attempt EXCEPT ![m] = Append(@, "open")]
    /\ run' = [run EXCEPT ![m] = [row EXCEPT !.attempts = @ + 1,
                                             !.current = row.attempts + 1]]

\* The assignment of start_clarification: to the daemon chosen, if there is one.
Assign(m, row) ==
    LET d == ChooseEligibleDaemon
    IN  IF d = NoDaemon
        THEN /\ run' = [run EXCEPT ![m] = row]
             /\ UNCHANGED <<attempt, commands>>
        ELSE BeginAttempt(m, [row EXCEPT !.owner = d], "start")

\* start_clarification: a new run when the slot is free and this message has not
\* started one before.
StartNewRun(m) ==
    /\ m \in Starters
    /\ Occupants(m) = {}
    /\ run[m].state = "Absent"
    /\ Assign(m, [AbsentRow EXCEPT !.state = "Idle"])
    /\ UNCHANGED <<mapped, unknown, daemon, daemonVars, events, validated>>

\* start_clarification again, with the message of the run in the slot: an
\* unassigned run gets its daemon now, an assigned one is returned as it is.
StartAgain(m) ==
    /\ run[m].state \in Open
    /\ run[m].owner = NoDaemon
    /\ ~run[m].cancel_requested
    /\ Assign(m, run[m])
    /\ UNCHANGED <<mapped, unknown, daemon, daemonVars, events, validated>>

\* RunRow::into_run refuses a row it cannot show; every operation reads it so.
Phase(row) ==
    CASE row.state \in Terminal -> "terminal"
      [] row.state = "Idle" /\ row.owner = NoDaemon -> "awaiting_assignment"
      [] row.state \in Open /\ row.owner # NoDaemon -> "active"
      [] OTHER -> "invalid"

\* dispatch_clarification_message.  A message already mapped is only sent again.
DispatchMessage(m, message) ==
    /\ Phase(run[m]) = "active"
    /\ ~run[m].cancel_requested
    /\ run[m].current # 0
    /\ message # m
    /\ message \notin mapped[m]
    /\ Issue(m, "message")
    /\ mapped' = [mapped EXCEPT ![m] = @ \cup {message}]
    /\ UNCHANGED <<run, attempt, unknown, daemon, daemonVars, events, validated>>

\* cancel_clarification: the row, and whether a cancel command goes out.
CancelledRowForgets(row) ==  \* mutant: the intent is not persisted
    IF row.current = 0
    THEN [row EXCEPT !.state = "Failed", !.class = "cancelled"]
    ELSE [row EXCEPT !.cancel_command = TRUE]
CancelledRow(row) ==
    IF row.current = 0
    THEN [row EXCEPT !.cancel_requested = TRUE, !.state = "Failed", !.class = "cancelled"]
    ELSE [row EXCEPT !.cancel_requested = TRUE, !.cancel_command = TRUE]
CancelClarification(m) ==
    /\ Phase(run[m]) \in {"awaiting_assignment", "active"}
    /\ run' = [run EXCEPT ![m] = CancelledRow(run[m])]
    /\ IF run[m].current = 0 \/ run[m].cancel_command
       THEN UNCHANGED commands
       ELSE Issue(m, "cancel")
    /\ UNCHANGED <<attempt, mapped, unknown, daemon, daemonVars, events, validated>>
-----------------------------------------------------------------------------
(* project_clarification_event.                                            *)

Rejection(row, type) ==
    IF row.state \in Terminal THEN "session_terminal"
    ELSE IF row.owner = NoDaemon THEN "session_unassigned"
    ELSE IF row.current = 0 THEN "attempt_not_active"
    ELSE IF /\ type = "started"
            /\ row.state # "Idle"
            /\ ~(row.state = "Running" /\ ~row.runtime)
    THEN "session_already_started"
    ELSE "none"

\* What becomes of a run whose current attempt has failed: its state and class.
FailureDecisionUnknownFirst(row, type) ==  \* mutant: swapped order
    IF type = "unknown" THEN <<"Failed", "execution_outcome_unknown">>
    ELSE IF row.cancel_requested THEN <<"Failed", "cancelled">>
    ELSE IF daemon[row.owner] = "revoked" THEN <<"Failed", "owner_unavailable">>
    ELSE IF Exhausted(row) THEN <<"Failed", "retry_exhausted">>
    ELSE <<"Retrying", "runtime_failure">>
FailureDecision(row, type) ==
    IF row.cancel_requested THEN <<"Failed", "cancelled">>
    ELSE IF type = "unknown" THEN <<"Failed", "execution_outcome_unknown">>
    ELSE IF daemon[row.owner] = "revoked" THEN <<"Failed", "owner_unavailable">>
    ELSE IF Exhausted(row) THEN <<"Failed", "retry_exhausted">>
    ELSE <<"Retrying", "runtime_failure">>

FailedRowKeepsAttempt(row, type) ==  \* mutant: missing reset
    [row EXCEPT !.state = FailureDecision(row, type)[1], !.runtime = FALSE,
                !.class = FailureDecision(row, type)[2]]
FailedRow(row, type) ==
    [row EXCEPT !.state = FailureDecision(row, type)[1], !.runtime = FALSE, !.current = 0,
                !.class = FailureDecision(row, type)[2]]

ProjectedRow(row, type) ==
    CASE type = "started" -> [row EXCEPT !.state = "Running", !.runtime = TRUE, !.class = "none"]
      [] type = "completed" -> [row EXCEPT !.state = "Completed", !.current = 0, !.class = "none"]
      [] OTHER -> FailedRow(row, type)

\* validate_daemon_session, in a transaction of its own before the projection; a
\* connection handles one frame at a time.
ValidateEvent(m) ==
    /\ events[m] # << >>
    /\ run[m].owner # NoDaemon
    /\ daemon[run[m].owner] = "connected"
    /\ \A r \in validated : run[r].owner # run[m].owner
    /\ validated' = validated \cup {m}
    /\ UNCHANGED <<serverVars, daemon, daemonVars, events>>

\* The event leaves the daemon's replay buffer with its receipt, accepted or not.
Receive(m) ==
    /\ m \in validated
    /\ validated' = validated \ {m}
    /\ events' = [events EXCEPT ![m] = Tail(@)]
    /\ unknown' = IF Head(events[m]) = "unknown" /\ unknown[m] = 0
                  THEN [unknown EXCEPT ![m] = Len(commands[m])] ELSE unknown

ProjectEvent(m) ==
    /\ Receive(m)
    /\ LET type == Head(events[m])
           row == run[m]
       IN  /\ Rejection(row, type) = "none"
           /\ run' = [run EXCEPT ![m] = ProjectedRow(row, type)]
           /\ attempt' = IF type = "started" THEN attempt
                         ELSE [attempt EXCEPT ![m][row.current] =
                                  IF type = "completed" THEN "completed" ELSE "failed"]
    /\ UNCHANGED <<commands, mapped, daemon, daemonVars>>

RejectEvent(m) ==
    /\ Receive(m)
    /\ Rejection(run[m], Head(events[m])) # "none"
    /\ UNCHANGED <<run, attempt, commands, mapped, daemon, daemonVars>>
-----------------------------------------------------------------------------
(* claim_due_retries.  A due time passes at any moment after it was set.   *)

DueWithoutState(row) ==  \* mutant: any run without an attempt
    row.state \notin {"Absent", "Idle"} /\ row.current = 0
Due(row) == row.state = "Retrying" /\ row.current = 0

ClaimClass(row) ==
    IF row.cancel_requested THEN "cancelled"
    ELSE IF Exhausted(row) THEN "retry_exhausted"
    ELSE IF row.owner = NoDaemon THEN "owner_unavailable"
    ELSE IF daemon[row.owner] = "revoked" THEN "owner_unavailable"
    ELSE "none"

ClaimOfValidOwner(m) ==  \* mutant: leaves the run of a revoked owner alone
    /\ Due(run[m])
    /\ ClaimClass(run[m]) = "none"
    /\ BeginAttempt(m, [run[m] EXCEPT !.state = "Running", !.runtime = FALSE,
                                      !.class = "none"], "resume")
    /\ UNCHANGED <<mapped, unknown, daemon, daemonVars, events, validated>>
ClaimDueRetry(m) ==
    /\ Due(run[m])
    /\ IF ClaimClass(run[m]) = "none"
       THEN BeginAttempt(m, [run[m] EXCEPT !.state = "Running", !.runtime = FALSE,
                                           !.class = "none"], "resume")
       ELSE /\ run' = [run EXCEPT ![m].state = "Failed", ![m].class = ClaimClass(run[m])]
            /\ UNCHANGED <<attempt, commands>>
    /\ UNCHANGED <<mapped, unknown, daemon, daemonVars, events, validated>>
-----------------------------------------------------------------------------
(* Registrations.                                                          *)

ConnectDaemon(d) ==
    /\ daemon[d] = "offline"
    /\ daemon' = [daemon EXCEPT ![d] = "connected"]
    /\ UNCHANGED <<serverVars, daemonVars, events, validated>>

DisconnectDaemon(d) ==
    /\ daemon[d] = "connected"
    /\ daemon' = [daemon EXCEPT ![d] = "offline"]
    /\ UNCHANGED <<serverVars, daemonVars, events, validated>>

\* revoke_daemon: for good.
RevokeDaemon(d) ==
    /\ Revocations
    /\ daemon[d] # "revoked"
    /\ daemon' = [daemon EXCEPT ![d] = "revoked"]
    /\ UNCHANGED <<serverVars, daemonVars, events, validated>>
-----------------------------------------------------------------------------
(* The daemon: a command's facts and the context it leaves.                *)

Result(types, ctx) == [types |-> types, context |-> ctx]

\* PiClarificationAdapter::start, of a start or a resume: the repositories or the
\* agent may fail, the agent asks for more, or it finds the requirement ready.
StartResults(ctx) ==
    {Result(<<"failed">>, c) : c \in {ctx, "in_flight", "retained"}}
      \cup {Result(<<"started">>, "retained"), Result(<<"started", "completed">>, "none")}

ResumeResults(ctx) ==
    IF ctx = "none" THEN {Result(<<"failed">>, ctx)} ELSE StartResults(ctx)

MessageResults(ctx) ==
    IF ctx = "retained"
    THEN {Result(<<"failed">>, "retained"), Result(<< >>, "retained"),
          Result(<<"completed">>, "none")}
    ELSE {Result(<<"failed">>, ctx)}

CancelResults(ctx) ==
    {IF ctx = "retained" THEN Result(<<"completed">>, "none") ELSE Result(<<"failed">>, ctx)}

Results(kind, ctx) ==
    CASE kind = "start" -> StartResults(ctx)
      [] kind = "resume" -> ResumeResults(ctx)
      [] kind = "message" -> MessageResults(ctx)
      [] kind = "cancel" -> CancelResults(ctx)

\* The commands up to `through` are finished, with what the next one reports.
Finish(m, through, result) ==
    /\ done' = [done EXCEPT ![m] = through]
    /\ context' = [context EXCEPT ![m] = result.context]
    /\ events' = [events EXCEPT ![m] = @ \o result.types]
    /\ UNCHANGED <<serverVars, daemon, delivered, validated>>

\* Commands are issued here and sent elsewhere: at once when the owner's connection
\* is live (dispatch_persisted_command), or among the pending ones when it comes
\* back, in either case perhaps ahead of an earlier one.  Nothing makes this happen
\* on a connection that stays up (module Delivery, CommandsArrive).
DeliverCommand(m, i) ==
    /\ i \in 1..Len(commands[m]) \ delivered[m]
    /\ run[m].owner # NoDaemon
    /\ daemon[run[m].owner] = "connected"
    /\ delivered' = [delivered EXCEPT ![m] = @ \cup {i}]
    /\ UNCHANGED <<serverVars, daemon, done, context, events, validated>>

\* Commands that have been received run one at a time and in order.
FinishCommand(m) ==
    /\ done[m] < Len(commands[m])
    /\ done[m] + 1 \in delivered[m]
    /\ \E result \in Results(commands[m][done[m] + 1], context[m]) :
          Finish(m, done[m] + 1, result)

\* A cancellation, always the last command, has reached the daemon while another
\* is queued or running: that one is cut short, or ends by itself, and with its
\* terminal fact the rest is over.  A message that had not begun also leaves the
\* cancellation its own report (module Scheduler shows this part).  No command
\* follows, so the context no longer matters; nor does what a command between the
\* two reports that is received later still, after the end of the run.
InterruptCommand(m) ==
    /\ done[m] + 1 < Len(commands[m])
    /\ {done[m] + 1, Len(commands[m])} \subseteq delivered[m]
    /\ commands[m][Len(commands[m])] = "cancel"
    /\ LET kind == commands[m][done[m] + 1]
           natural == {result.types : result \in Results(kind, context[m])}
           cut == {<<"completed">>}
             \cup (IF kind = "message" THEN {<<"completed", "completed">>} ELSE {})
       IN  \E types \in (natural \ {<< >>, <<"started">>}) \cup cut :
             Finish(m, Len(commands[m]), Result(types, "none"))

\* A crash after dispatch_started: recovery reports an unknown outcome, and what
\* the context file holds is no longer in flight.
CrashDuringCommand(m) ==
    /\ done[m] < Len(commands[m])
    /\ done[m] + 1 \in delivered[m]
    /\ \E c \in {"none", "retained"} :
          /\ c = "none" => context[m] = "none"
          /\ Finish(m, done[m] + 1, Result(<<"unknown">>, c))
-----------------------------------------------------------------------------
Init ==
    /\ run = [m \in Messages |-> AbsentRow]
    /\ attempt = [m \in Messages |-> << >>]
    /\ commands = [m \in Messages |-> << >>]
    /\ mapped = [m \in Messages |-> {}]
    /\ unknown = [m \in Messages |-> 0]
    /\ daemon = [d \in Daemons |-> "offline"]
    /\ delivered = [m \in Messages |-> {}]
    /\ done = [m \in Messages |-> 0]
    /\ context = [m \in Messages |-> "none"]
    /\ events = [m \in Messages |-> << >>]
    /\ validated = {}

Next ==
    \/ \E m \in Messages :
          \/ StartNewRun(m)
          \/ StartAgain(m)
          \/ \E message \in Messages : DispatchMessage(m, message)
          \/ CancelClarification(m)
          \/ ValidateEvent(m)
          \/ ProjectEvent(m)
          \/ RejectEvent(m)
          \/ ClaimDueRetry(m)
          \/ \E i \in 1..Len(commands[m]) : DeliverCommand(m, i)
          \/ FinishCommand(m)
          \/ InterruptCommand(m)
          \/ CrashDuringCommand(m)
    \/ \E d \in Daemons : ConnectDaemon(d) \/ DisconnectDaemon(d) \/ RevokeDaemon(d)

Spec == Init /\ [][Next]_vars

\* The retry worker polls for ever, a command that the daemon received ends, the
\* supervisor reconnects for ever, and a connection that keeps coming back lasts,
\* again and again, for the next event to be taken up.  Nothing is assumed of
\* DeliverCommand.
Fairness ==
    /\ \A m \in Messages :
          /\ WF_vars(ClaimDueRetry(m))
          /\ WF_vars(FinishCommand(m))
          /\ SF_vars(ValidateEvent(m))
          /\ WF_vars(ProjectEvent(m) \/ RejectEvent(m))
    /\ \A d \in Daemons : WF_vars(ConnectDaemon(d))

FairSpec == Spec /\ Fairness
-----------------------------------------------------------------------------
(* Correctness.                                                            *)

\* The shape of the tables, the ledgers and the daemon's side; in particular no
\* run ever gets an attempt beyond its snapshotted budget.
TypeOK ==
    /\ run \in [Messages -> Row]
    /\ \A m \in Messages :
          /\ Len(attempt[m]) \in 0..MaxAttempts
          /\ attempt[m] \in Seq(Attempt)
          /\ commands[m] \in Seq(Command)
          /\ events[m] \in Seq(Event)
          /\ delivered[m] \subseteq 1..Len(commands[m])
          /\ done[m] \in 0..Len(commands[m])
          /\ unknown[m] \in 0..Len(commands[m])
    /\ mapped \in [Messages -> SUBSET Messages]
    /\ daemon \in [Daemons -> {"offline", "connected", "revoked"}]
    /\ context \in [Messages -> Contexts]
    /\ validated \subseteq {m \in Messages : events[m] # << >>}

\* The requirement's slot: at most one of its runs is not over, whatever the
\* order of starts, retries and late events.  (A partial unique index of the
\* database says so too; it is not modelled, so this is the transactions' doing.)
OneRunAtATime == Cardinality({m \in Messages : run[m].state \in Open}) <= 1

\* The attempt ledger: the counter, the attempt rows and the start and resume
\* commands agree, and the only attempt that is open is the current one.
AttemptLedger ==
    \A m \in Messages :
        LET row == run[m]
        IN  /\ row.attempts = Len(attempt[m])
            /\ row.attempts = Count(commands[m], Executions)
            /\ {n \in 1..Len(attempt[m]) : attempt[m][n] = "open"}
                  = {row.current} \ {0}
            /\ row.current # 0 <=>
                  row.state = "Running" \/ (row.state = "Idle" /\ row.owner # NoDaemon)

\* No step leaves a row that into_run cannot show: it would also make the run
\* impossible to cancel, to write to or to start over.
RunsAreReadable == \A m \in Messages : run[m].state # "Absent" => Phase(run[m]) # "invalid"

\* Cancellation prevents future execution attempts: once session.cancel is
\* issued no start or resume follows it, whatever fails or falls due later.
NoExecutionAfterCancel ==
    \A m \in Messages : \A i, j \in 1..Len(commands[m]) :
        i < j /\ commands[m][i] = "cancel" => commands[m][j] \notin Executions

\* What a failed run says of itself is so: a cancelled run was cancelled (and
\* says nothing else), an exhausted one used its budget, an unavailable owner was
\* revoked, and an unknown outcome was reported.
FailureClassIsTrue ==
    \A m \in Messages :
        LET row == run[m]
        IN  row.state = "Failed" =>
                /\ row.class = "cancelled" <=> row.cancel_requested
                /\ row.class = "retry_exhausted" => row.attempts = MaxAttempts
                /\ row.class = "owner_unavailable" => daemon[row.owner] = "revoked"
                /\ row.class = "execution_outcome_unknown" => unknown[m] # 0
                /\ row.class \notin {"none", "runtime_failure"}

\* Whatever is stored of a run can be shown and is so (into_run,
\* project_clarification_event, claim_due_retries): no order of failures, retries,
\* cancellation and revocation leaves a row that contradicts its history.
StoredRunIsTrue == RunsAreReadable /\ FailureClassIsTrue

\* A run that is over stays over, and its daemon never hears of it again: late
\* events are recorded as rejected and stale retry work is not claimed.
TerminalIsFinal ==
    [][\A m \in Messages : run[m].state \in Terminal =>
          run'[m] = run[m] /\ commands'[m] = commands[m] /\ attempt'[m] = attempt[m]]_vars


\* A run does not wait for its retry for ever: it is resumed or it fails, also
\* when its owner is offline or revoked.
RetryIsDecided ==
    \A m \in Messages : run[m].state = "Retrying" ~> run[m].state # "Retrying"
=============================================================================
