----------------------------- MODULE Scheduler -----------------------------
(***************************************************************************)
(* The daemon's runtime scheduler: RuntimeScheduler with its queue, its    *)
(* permits and its cancellation control, the workers that cross into the   *)
(* Pi agent, and the part of the daemon's main loop that drives it.        *)
(*                                                                         *)
(* The main loop is one task: accepting a command, and handling one        *)
(* completion with everything that follows from it, are one step each.     *)
(* Workers run beside it.  A worker settles its report and gives back its  *)
(* permit in one step and sends its completion in another, and the main    *)
(* loop may do anything else before, between and after.  The journal's     *)
(* gate is here (a command is handed over when its turn has come, a cancel *)
(* also to interrupt); its files, replay and recovery are in Delivery.     *)
(* The server appears as far as it decides which command may follow which  *)
(* event (module Clarification).                                           *)
(***************************************************************************)
EXTENDS Integers, SequencesExt

CONSTANTS
    Sessions,     \* execution sessions pinned to this daemon
    Permits,      \* MAX_RUNTIME_CONCURRENCY
    MaxCommands   \* bound: commands of all sessions together

ASSUME SchedulerAssumption ==
    /\ IsFiniteSet(Sessions)
    /\ Permits \in Nat \ {0}
    /\ MaxCommands \in Nat

VARIABLES
    server,    \* [Sessions -> [state, cancelled]]: the run, as the server sees it
    commands,  \* [Sessions -> Seq([kind, state])]: every command issued, by number
    sched,     \* the scheduler's maps and queues
    workers,   \* permits held, and reports not yet sent
    context,   \* [Sessions -> Contexts]: the agent's context of the session
    emitted    \* [Sessions -> Seq(event)]: journaled, not yet projected by the server

vars == <<server, commands, sched, workers, context, emitted>>
-----------------------------------------------------------------------------
Kinds == {"start", "message", "resume", "cancel"}
States == {"sent", "received", "dispatch_started", "terminal"}
Contexts == {"none", "in_flight", "idle"}
EventTypes == {"started", "completed", "failed"}
CommandIds == [session : Sessions, seq : 1..MaxCommands]
Kind(c) == commands[c.session][c.seq].kind
State(c) == commands[c.session][c.seq].state
IsCancel(c) == Kind(c) = "cancel"

NoControl == [exists |-> FALSE, cancelled |-> FALSE, terminal |-> FALSE]
NewControl == [exists |-> TRUE, cancelled |-> FALSE, terminal |-> FALSE]

\* A session's queued, active and suppressed commands share one RuntimeControl,
\* which is why it is kept here by session.  0 is no command.  A permit is held
\* from Spawn to the end of the worker.
Idle == [active |-> [s \in Sessions |-> 0], control |-> [s \in Sessions |-> NoControl],
         pending |-> [s \in Sessions |-> 0], suppressed |-> {}, queue |-> << >>,
         running |-> {}, completions |-> << >>]

HasAnyEvent(events) == events # << >>  \* mutant: every report counts as terminal
HasTerminalEvent(events) == \E i \in DOMAIN events : events[i] \in {"completed", "failed"}
-----------------------------------------------------------------------------
(* The journal's gate.                                                     *)

\* Every command before n is terminal: n is expected_command_sequence.
Expected(cs, n) == \A m \in 1..n - 1 : cs[m].state = "terminal"

\* accept_command_with_control, of a command that has just been received.
Startable(cs, n) ==
    \/ Expected(cs, n)
    \/ /\ cs[n].kind = "cancel"
       /\ \E m \in 1..n - 1 : cs[m].state = "dispatch_started"

\* accept_next_ready_command
NextReady(cs) == {n \in DOMAIN cs : cs[n].state = "received" /\ Expected(cs, n)}
-----------------------------------------------------------------------------
(* RuntimeScheduler, as functions from its state to its state.             *)

\* control_for
ControlFor(S, s) == IF S.control[s].exists THEN S ELSE [S EXCEPT !.control[s] = NewControl]

\* suppress, of queued commands of session s one after the other: they end without
\* a worker, and the first terminal fact of the session's control is the first one's.
SuppressAll(S, s, queued) ==
    [S EXCEPT !.suppressed = @ \cup ToSet(queued),
              !.control[s].terminal = @ \/ queued # << >>,
              !.completions = @ \o [i \in 1..Len(queued) |-> [command |-> queued[i],
                  events |-> IF i > 1 \/ S.control[s].terminal THEN << >>
                             ELSE <<"completed">>]]]
Suppress(S, c) == SuppressAll(S, c.session, <<c>>)

\* spawn_runtime, after try_acquire_owned.
FreePermitLate(S) == Cardinality(S.running) <= Permits  \* mutant: off by one
FreePermit(S) == Cardinality(S.running) < Permits
Spawn(S, c) == [S EXCEPT !.active[c.session] = c.seq, !.running = @ \cup {c}]
Enqueue(S, c) == [S EXCEPT !.queue = Append(@, c)]

Cancelled(S, c) == S.control[c.session].cancelled /\ ~IsCancel(c)

\* schedule_runtime_inner
ScheduleRuntime(S, c) ==
    IF Cancelled(S, c) THEN Suppress(S, c)
    ELSE IF S.active[c.session] # 0 \/ ~FreePermit(S) THEN Enqueue(S, c)
    ELSE Spawn(S, c)

\* remove_queued: the queue, item by item, in the commands of session s and the rest.
RemoveStep(part, c, s) ==
    IF c.session = s THEN [part EXCEPT !.removed = Append(@, c)]
    ELSE [part EXCEPT !.retained = Append(@, c)]
RemoveQueued(queue, s) ==
    LET part[i \in 0..Len(queue)] ==
          IF i = 0 THEN [removed |-> << >>, retained |-> << >>]
          ELSE RemoveStep(part[i - 1], queue[i], s)
    IN  part[Len(queue)]

\* schedule_cancellation: the flag first, then what is queued; a session that is
\* still busy keeps the cancellation until its next completion.
ScheduleCancellation(S0, c) ==
    LET s == c.session
        part == RemoveQueued(S0.queue, s)
        S == [S0 EXCEPT !.control[s].cancelled = TRUE, !.queue = part.retained]
    IN  IF S.active[s] # 0 \/ part.removed # << >>
        THEN SuppressAll([S EXCEPT !.pending[s] = IF @ = 0 THEN c.seq ELSE @], s, part.removed)
        ELSE IF S.pending[s] # 0 THEN S
        ELSE ScheduleRuntime(S, c)

\* schedule
Schedule(S0, c) ==
    LET S == ControlFor(S0, c.session)
    IN  IF IsCancel(c) THEN ScheduleCancellation(S, c) ELSE ScheduleRuntime(S, c)

\* drain_queue: once round the queue.  A command of an active session goes to the
\* back; the first one without a permit goes to the front again and ends the round.
DrainStepLoses(round, c) ==  \* mutant: the command without a permit is not put back
    IF round.over THEN [round EXCEPT !.front = Append(@, c)]
    ELSE IF Cancelled(round.state, c) THEN [round EXCEPT !.state = Suppress(@, c)]
    ELSE IF round.state.active[c.session] # 0 THEN [round EXCEPT !.back = Append(@, c)]
    ELSE IF ~FreePermit(round.state) THEN [round EXCEPT !.over = TRUE]
    ELSE [round EXCEPT !.state = Spawn(@, c)]
DrainStep(round, c) ==
    IF round.over THEN [round EXCEPT !.front = Append(@, c)]
    ELSE IF Cancelled(round.state, c) THEN [round EXCEPT !.state = Suppress(@, c)]
    ELSE IF round.state.active[c.session] # 0 THEN [round EXCEPT !.back = Append(@, c)]
    ELSE IF ~FreePermit(round.state) THEN [round EXCEPT !.over = TRUE, !.front = Append(@, c)]
    ELSE [round EXCEPT !.state = Spawn(@, c)]
DrainQueue(S) ==
    LET round[i \in 0..Len(S.queue)] ==
          IF i = 0 THEN [state |-> [S EXCEPT !.queue = << >>], over |-> FALSE,
                         front |-> << >>, back |-> << >>]
          ELSE DrainStep(round[i - 1], S.queue[i])
        last == round[Len(S.queue)]
    IN  [last.state EXCEPT !.queue = last.front \o last.back]

\* The session still has work in the scheduler.
Busy(S, s) ==
    \/ S.active[s] # 0
    \/ \E i \in DOMAIN S.queue : S.queue[i].session = s
    \/ \E c \in S.suppressed : c.session = s
    \/ S.pending[s] # 0

\* maybe_cleanup_control
MaybeCleanup(S, s) ==
    IF S.control[s].terminal /\ ~Busy(S, s) THEN [S EXCEPT !.control[s] = NoControl] ELSE S

\* What finish_active accepts; for anything else the daemon ends with an error.
Accepts(S, c) == c \in S.suppressed \/ S.active[c.session] = c.seq

\* finish_active up to drain_queue: the control's terminal fact is settled here.
RemoveFinishedClearsActive(S, c, events) ==  \* mutant: also for a suppressed command
    [S EXCEPT !.suppressed = @ \ {c},
              !.active[c.session] = 0,
              !.control[c.session].terminal = @ \/ HasTerminalEvent(events),
              !.pending[c.session] = 0]
RemoveFinished(S, c, events) ==
    [S EXCEPT !.suppressed = @ \ {c},
              !.active[c.session] = IF c \in S.suppressed THEN @ ELSE 0,
              !.control[c.session].terminal = @ \/ HasTerminalEvent(events),
              !.pending[c.session] = 0]

\* The rest of finish_active, when no cancellation waited (pending = 0) and when
\* one did.
FinishActive(S, s, pending, terminal) ==
    IF pending = 0 /\ terminal THEN MaybeCleanup(DrainQueue(S), s) ELSE DrainQueue(S)
-----------------------------------------------------------------------------
(* The main loop.                                                          *)

\* A command arrives, in any order; with its turn it is marked dispatch_started
\* and scheduled.
ReceiveCommand(c) ==
    LET s == c.session
        cs == [commands[s] EXCEPT ![c.seq].state = "received"]
    IN  /\ c.seq \in DOMAIN commands[s]
        /\ State(c) = "sent"
        /\ IF Startable(cs, c.seq)
           THEN /\ commands' = [commands EXCEPT ![s] =
                                   [cs EXCEPT ![c.seq].state = "dispatch_started"]]
                /\ sched' = Schedule(sched, c)
           ELSE /\ commands' = [commands EXCEPT ![s] = cs]
                /\ UNCHANGED sched
        /\ UNCHANGED <<server, workers, context, emitted>>

\* finish_runtime and emit_runtime_actions, on [state, commands] of session s:
\* command n becomes terminal, and the one whose turn it is now is scheduled.
FinishRuntime(at, s, n) ==
    LET cs == [at.commands EXCEPT ![n].state = "terminal"]
        next == NextReady(cs)
    IN  IF next = {} THEN [at EXCEPT !.commands = cs]
        ELSE LET m == CHOOSE m \in next : TRUE
             IN  [state |-> Schedule(at.state, [session |-> s, seq |-> m]),
                  commands |-> [cs EXCEPT ![m].state = "dispatch_started"]]

\* The followup: a cancellation that waited is over when the session has told a
\* terminal fact, and goes to the runtime otherwise.
FollowUpKeepsControl(at, s, pending, terminal) ==  \* mutant: finish_followup is left out
    IF pending = 0 THEN at
    ELSE IF terminal THEN FinishRuntime(at, s, pending)
    ELSE [at EXCEPT !.state =
            ScheduleRuntime(ControlFor(@, s), [session |-> s, seq |-> pending])]
FollowUp(at, s, pending, terminal) ==
    IF pending = 0 THEN at
    ELSE IF terminal
    THEN LET done == FinishRuntime(at, s, pending)
         IN  [done EXCEPT !.state = MaybeCleanup(@, s)]
    ELSE [at EXCEPT !.state =
            ScheduleRuntime(ControlFor(@, s), [session |-> s, seq |-> pending])]

\* One completion: finish_active, finish_runtime, the followup.
HandleCompletion ==
    /\ sched.completions # << >>
    /\ LET completion == Head(sched.completions)
           c == completion.command
           s == c.session
           pending == sched.pending[s]
           S == RemoveFinished([sched EXCEPT !.completions = Tail(@)], c, completion.events)
           terminal == S.control[s].terminal
           finished == FinishRuntime([state |-> FinishActive(S, s, pending, terminal),
                                      commands |-> commands[s]], s, c.seq)
           after == FollowUp(finished, s, pending, terminal)
       IN  /\ Accepts(sched, c)
           /\ sched' = after.state
           /\ commands' = [commands EXCEPT ![s] = after.commands]
           /\ emitted' = [emitted EXCEPT ![s] = @ \o completion.events]
    /\ UNCHANGED <<server, workers, context>>
-----------------------------------------------------------------------------
(* The workers: dispatch_for_session_with_control.                         *)

\* The outcomes of `start`, `message`, `cancel` and Resume: the events, and the
\* agent's context afterwards.  A start that fails before the agent is called
\* leaves its context in flight.
Started(k) ==
    {[events |-> <<"started">>, context |-> "idle"],
     [events |-> <<"started", "completed">>, context |-> "none"],
     [events |-> <<"failed">>, context |-> "in_flight"],
     [events |-> <<"failed">>, context |-> "idle"],
     [events |-> <<"failed">>, context |-> k]}
Fails(k) == {[events |-> <<"failed">>, context |-> k]}
Outcomes(kind, k) ==
    CASE kind = "start" -> Started(k)
      [] kind = "resume" -> IF k = "none" THEN Fails(k) ELSE Started(k)
      [] kind = "message" ->
            IF k # "idle" THEN Fails(k)
            ELSE Fails(k) \cup {[events |-> << >>, context |-> k],
                                [events |-> <<"completed">>, context |-> "none"]}
      [] kind = "cancel" ->
            IF k # "idle" THEN Fails(k)
            ELSE {[events |-> <<"completed">>, context |-> "none"]}

\* A worker that sees the flag reports the cancellation as a completion, whatever
\* it has done with the context so far.
Interrupted(kind, k) ==
    [events : {<<"completed">>},
     context : {k, "idle", "none"} \cup (IF kind = "message" THEN {} ELSE {"in_flight"})]

WorkerEnds(c) ==
    /\ c \in sched.running
    /\ \E r \in IF Cancelled(sched, c) THEN Interrupted(Kind(c), context[c.session])
              ELSE Outcomes(Kind(c), context[c.session]) :
          /\ context' = [context EXCEPT ![c.session] = r.context]
          /\ workers' = workers \cup {[command |-> c, events |-> r.events]}
    /\ sched' = [sched EXCEPT !.running = @ \ {c}]
    /\ UNCHANGED <<server, commands, emitted>>

WorkerReports(c) ==
    /\ \E completion \in workers :
          /\ completion.command = c
          /\ workers' = workers \ {completion}
          /\ sched' = [sched EXCEPT !.completions = Append(@, completion)]
    /\ UNCHANGED <<server, commands, context, emitted>>
-----------------------------------------------------------------------------
(* The server: which command may follow (module Clarification in small).   *)

Issue(s, kind, after) ==
    /\ Cardinality({c \in CommandIds : c.seq <= Len(commands[c.session])}) < MaxCommands
    /\ commands' = [commands EXCEPT ![s] = Append(@, [kind |-> kind, state |-> "sent"])]
    /\ server' = [server EXCEPT ![s] = after]
    /\ UNCHANGED <<sched, workers, context, emitted>>

StartSession(s) ==
    /\ server[s].state = "new"
    /\ Issue(s, "start", [server[s] EXCEPT !.state = "active"])

SendMessage(s) ==
    /\ server[s].state = "active"
    /\ ~server[s].cancelled
    /\ Issue(s, "message", server[s])

ResumeSession(s) ==
    /\ server[s].state = "retrying"
    /\ Issue(s, "resume", [server[s] EXCEPT !.state = "active"])

\* A run that waits for its retry is cancelled by the server alone, which sends
\* nothing; one with an attempt gets one session.cancel.
CancelSession(s) ==
    /\ server[s].state = "active"
    /\ ~server[s].cancelled
    /\ Issue(s, "cancel", [server[s] EXCEPT !.cancelled = TRUE])

\* A failure is retried while attempts are left.
ProjectEvent(s) ==
    /\ emitted[s] # << >>
    /\ emitted' = [emitted EXCEPT ![s] = Tail(@)]
    /\ \E state \in IF server[s].state # "active" THEN {server[s].state}
                    ELSE CASE Head(emitted[s]) = "started" -> {"active"}
                           [] Head(emitted[s]) = "completed" -> {"over"}
                           [] Head(emitted[s]) = "failed" ->
                                 IF server[s].cancelled THEN {"over"} ELSE {"retrying", "over"} :
          server' = [server EXCEPT ![s].state = state]
    /\ UNCHANGED <<commands, sched, workers, context>>
-----------------------------------------------------------------------------
Init ==
    /\ server = [s \in Sessions |-> [state |-> "new", cancelled |-> FALSE]]
    /\ commands = [s \in Sessions |-> << >>]
    /\ sched = Idle
    /\ workers = {}
    /\ context = [s \in Sessions |-> "none"]
    /\ emitted = [s \in Sessions |-> << >>]

Next ==
    \/ HandleCompletion
    \/ \E c \in CommandIds : ReceiveCommand(c)
    \/ \E c \in CommandIds : WorkerEnds(c)
    \/ \E c \in CommandIds : WorkerReports(c)
    \/ \E s \in Sessions : StartSession(s)
    \/ \E s \in Sessions : SendMessage(s)
    \/ \E s \in Sessions : ResumeSession(s)
    \/ \E s \in Sessions : CancelSession(s)
    \/ \E s \in Sessions : ProjectEvent(s)

Spec == Init /\ [][Next]_vars
-----------------------------------------------------------------------------
(* Correctness.                                                            *)

\* The shape of the scheduler; in particular no more workers than permits.
TypeOK ==
    /\ server \in [Sessions -> [state : {"new", "active", "retrying", "over"},
                                cancelled : BOOLEAN]]
    /\ context \in [Sessions -> Contexts]
    /\ \A s \in Sessions :
          /\ Len(commands[s]) <= MaxCommands
          /\ \A n \in DOMAIN commands[s] : commands[s][n] \in [kind : Kinds, state : States]
          /\ {sched.active[s], sched.pending[s]} \subseteq 0..Len(commands[s])
          /\ sched.control[s] \in [exists : BOOLEAN, cancelled : BOOLEAN, terminal : BOOLEAN]
          /\ ToSet(emitted[s]) \subseteq EventTypes
    /\ sched.running \cup sched.suppressed \cup ToSet(sched.queue) \subseteq CommandIds
    /\ Cardinality(sched.running) <= Permits

\* A session's agent is never entered twice at once: every worker, until its
\* report is handled, is its session's only active runtime, through queueing,
\* draining, suppression and cancellation.
OneRuntimePerSession ==
    LET Unhandled == sched.running \cup {w.command : w \in workers}
            \cup ({sched.completions[i].command : i \in DOMAIN sched.completions}
                    \ sched.suppressed)
    IN  \A c \in Unhandled : sched.active[c.session] = c.seq

\* Every completion is one that finish_active accepts, of a command that has
\* started and is not finished: anything else ends the daemon with an error, or
\* finishes a journal record twice.
CompletionsAreExpected ==
    \A i \in DOMAIN sched.completions :
        /\ Accepts(sched, sched.completions[i].command)
        /\ State(sched.completions[i].command) = "dispatch_started"

\* A waiting cancellation is waiting for something: a completion of its session
\* is still to come, which will take it up.
PendingCancellationWaits ==
    \A s \in Sessions : sched.pending[s] # 0 =>
        sched.active[s] # 0 \/ \E c \in sched.suppressed : c.session = s

\* The control of a session that has told its terminal fact is given up as soon
\* as nothing of the session is left, so that a resumed attempt never inherits
\* the flags of the one before it.
ControlsAreReclaimed ==
    \A s \in Sessions : sched.control[s].terminal => Busy(sched, s)

\* Cancellation state follows the session's work (schedule_cancellation,
\* finish_active, maybe_cleanup_control): none of it outlives what it is for, and
\* none of it waits for a completion that will not come.
CancellationStateIsCurrent == PendingCancellationWaits /\ ControlsAreReclaimed

\* A cancelled run is over once the daemon has finished all that the server sent
\* it and the server has projected every event: the cancellation leaves the run
\* active "until session.completed or session.failed", one of which must come.
CancellationIsAnswered ==
    \A s \in Sessions :
        /\ server[s].cancelled
        /\ \A n \in DOMAIN commands[s] : commands[s][n].state = "terminal"
        /\ emitted[s] = << >>
        => server[s].state = "over"

\* A command that has started and is not finished is held somewhere the scheduler
\* will come back to, and while anything is held a worker or a completion is on
\* its way, whose handling drains the queue: nothing is lost or left waiting,
\* however few permits there are and however often it was put back.
StartedCommandsAreHeld ==
    LET Held(s) == ({sched.active[s], sched.pending[s]} \ {0})
            \cup {c.seq : c \in {d \in sched.suppressed \cup ToSet(sched.queue) :
                                 d.session = s}}
    IN  /\ \A s \in Sessions :
              Held(s) = {n \in DOMAIN commands[s] : commands[s][n].state = "dispatch_started"}
        /\ (\E s \in Sessions : Held(s) # {}) =>
              sched.running \cup workers # {} \/ sched.completions # << >>

\* Between queue, workers and completions no command is lost and none is finished
\* that should not be (spawn_runtime, finish_active, drain_queue).
NothingIsLost == CompletionsAreExpected /\ StartedCommandsAreHeld
=============================================================================
