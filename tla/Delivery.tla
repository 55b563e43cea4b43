------------------------------ MODULE Delivery ------------------------------
(***************************************************************************)
(* Delivery between the server and one daemon, for one execution session:  *)
(* the server's command outbox and event receipts in PostgreSQL, the       *)
(* daemon's journal on disk, and between them a WebSocket that may drop at *)
(* any moment, a daemon that may crash between any two of its durable      *)
(* updates, and a server that may restart.                                 *)
(*                                                                         *)
(* Each database transaction is one step.  In the daemon one task handles  *)
(* frames and completions one at a time, so a handler is one step too; a   *)
(* crash inside it is CrashWithin*.  A queue stands for everything a frame *)
(* passes through: toServer for the daemon's outbound channel (which       *)
(* outlives a connection) and the socket, toDaemon for the socket and the  *)
(* channel into the daemon's main loop (which also outlives it).           *)
(***************************************************************************)
EXTENDS Journal, SequencesExt

CONSTANTS
    MaxCommands,  \* bound: commands issued for the session
    MaxEvents,    \* bound: runtime events of one command
    MaxFrames,    \* bound: frames waiting in one direction
    MaxRepeats,   \* bound: requests a client repeats
    MaxFailures,  \* bound: disconnections, crashes and restarts
    MaxActivity   \* bound: commands, repeats, runtime events and failures together

ASSUME DeliveryAssumption ==
    {MaxCommands, MaxEvents, MaxFrames, MaxRepeats, MaxFailures, MaxActivity} \subseteq Nat

VARIABLES
    issued,       \* Seq: the commands' payloads, by sequence number
    server,       \* outbox, tombstones, watermarks and event receipts
    dispatching,  \* commands whose request has committed but not sent them yet
    late,         \* frame of a dead connection that its server task still handles
    link,         \* "down", "snapshot", "pending" or "ready": the server's side
    active,       \* the daemon's supervisor moves application frames
    toServer, toDaemon,
    daemon,       \* "down", "recovering" or "up"
    journal,
    scheduled,    \* Seq: commands in the daemon's scheduler, not yet finished
    recovered,    \* recovery's frames and commands, kept for the first handshake
    invoked,      \* history: every hand-over of a command to the scheduler
    repeats, failures  \* how many of each have happened

serverVars == <<issued, server, dispatching, late>>
linkVars == <<link, active, toServer, toDaemon>>
daemonVars == <<daemon, journal, scheduled, recovered, invoked>>
bounds == <<repeats, failures>>
vars == <<serverVars, linkVars, daemonVars, bounds>>
-----------------------------------------------------------------------------
Command(s) == [type |-> "command", seq |-> s]
CommandAck(s) == [type |-> "command_ack", seq |-> s]
Event(n, id) == [type |-> "event", seq |-> n, id |-> id]
EventAck(n, id) == [type |-> "event_ack", seq |-> n, id |-> id]
Reconcile(n, listed) == [type |-> "reconcile", seq |-> n, listed |-> listed]

NothingRecovered == [frames |-> << >>, commands |-> << >>]

\* What is left of MaxActivity; an event of the runtime is one that recovery did
\* not make up.
RuntimeEvents ==
    {n \in DOMAIN journal.events : journal.events[n].id[2] # 0}
      \cup {n \in DOMAIN journal.eventTombstones : journal.eventTombstones[n][2] # 0}
Spare == MaxActivity - Len(issued) - repeats - failures - Cardinality(RuntimeEvents)

Fails == /\ failures < MaxFailures
         /\ Spare > 0
         /\ failures' = failures + 1
         /\ UNCHANGED repeats

IsCancel(s) == issued[s] = "cancel"

\* The numbers of S, smallest first.
Ascending(S) ==
    CHOOSE q \in [1..Cardinality(S) -> S] : \A i, k \in DOMAIN q : i < k => q[i] < q[k]

Head1(q, type) == q # << >> /\ q[1].type = type
-----------------------------------------------------------------------------
(* The server's transactions.                                              *)

\* next_command_sequence
NextCommandFromZero(sv) ==  \* mutant: off by one
    Max({sv.commandAck} \cup sv.outbox \cup sv.tombstones)
NextCommandOfOutbox(sv) == Max({0} \cup sv.outbox) + 1  \* mutant: forgets tombstones
NextCommand(sv) == Max({sv.commandAck} \cup sv.outbox \cup sv.tombstones) + 1

\* advance_command_watermark: up to the first command still unacknowledged.
Watermark(sv) ==
    LET open == {s \in sv.outbox : s > sv.commandAck /\ s \notin sv.acknowledged}
    IN  Max({sv.commandAck,
             IF open # {} THEN Min(open) - 1 ELSE Max({0} \cup sv.outbox)})

\* compact_server_commands_in_transaction
CompactServer(sv) ==
    LET old == {s \in sv.outbox : s <= sv.commandAck /\ s \in sv.acknowledged}
    IN  [sv EXCEPT !.outbox = @ \ old, !.acknowledged = @ \ old,
                   !.tombstones = @ \cup old]

\* acknowledge_command.  An ACK of a compacted command changes nothing.
AcknowledgeThrough(sv, s) ==  \* mutant: takes the ACK for cumulative
    LET marked == [sv EXCEPT !.acknowledged = @ \cup {q \in sv.outbox : q <= s}]
    IN  CompactServer([marked EXCEPT !.commandAck = Watermark(marked)])
AcknowledgeCommand(sv, s) ==
    LET marked == [sv EXCEPT !.acknowledged = @ \cup {s}]
    IN  CompactServer(IF s \in sv.outbox
                      THEN [marked EXCEPT !.commandAck = Watermark(marked)] ELSE sv)

\* The receipt of an event (project_clarification_event and, for assessments,
\* the readiness transaction share these checks): a duplicate is inert, the
\* next event is handled, and anything above it is a gap.
EventConflicts(sv, f) ==
    \/ \E n \in DOMAIN sv.receipts : sv.receipts[n] = f.id /\ n # f.seq
    \/ f.seq \in DOMAIN sv.receipts /\ sv.receipts[f.seq] # f.id
    \/ f.seq <= sv.eventAck /\ f.seq \notin DOMAIN sv.receipts
EventGap(sv, f) == f.seq > sv.eventAck + 1
RecordEvent(sv, f) ==
    IF f.seq \in DOMAIN sv.receipts THEN sv
    ELSE [sv EXCEPT !.receipts = With(@, f.seq, f.id), !.eventAck = Max({@, f.seq})]

\* insert_command, with the session row locked: start_clarification,
\* dispatch_clarification_message, claim_due_retries and cancel_clarification.
\* The start comes first, and nothing follows the only cancel.
IssueCommand(kind) ==
    /\ Len(issued) < MaxCommands /\ Spare > 0
    /\ issued = << >> => kind = "run"
    /\ "cancel" \notin ToSet(issued)
    /\ issued' = Append(issued, kind)
    /\ server' = [server EXCEPT !.outbox = @ \cup {NextCommand(server)}]
    /\ dispatching' = dispatching \cup {NextCommand(server)}
    /\ UNCHANGED <<late, linkVars, daemonVars, bounds>>

\* A client repeats its request: the same command is dispatched again.
RepeatRequest(s) ==
    /\ repeats < MaxRepeats /\ Spare > 0
    /\ s \in DOMAIN issued
    /\ s \notin dispatching
    /\ dispatching' = dispatching \cup {s}
    /\ repeats' = repeats + 1
    /\ UNCHANGED <<issued, server, late, linkVars, daemonVars, failures>>

\* dispatch_persisted_command, after the commit: to a connection that is ready.
DispatchCommand(s) ==
    /\ s \in dispatching \ server.tombstones
    /\ link = "ready"
    /\ Len(toDaemon) < MaxFrames
    /\ dispatching' = dispatching \ {s}
    /\ toDaemon' = Append(toDaemon, Command(s))
    /\ UNCHANGED <<issued, server, late, link, active, toServer, daemonVars, bounds>>

\* DaemonUnavailable, or already compacted: the request succeeds all the same.
SkipDispatch(s) ==
    /\ s \in dispatching
    /\ link # "ready" \/ s \in server.tombstones
    /\ dispatching' = dispatching \ {s}
    /\ UNCHANGED <<issued, server, late, linkVars, daemonVars, bounds>>
-----------------------------------------------------------------------------
(* The connection.                                                         *)

\* handle_connection and the first half of serve_authenticated: the connection
\* is registered, not yet ready, and the snapshot is read and sent.  It lists
\* the session only if it has a row, which the first command brings with it.
\* The daemon's supervisor connects again only when it is done with the previous
\* connection, handshake included.
Connect ==
    /\ link = "down" /\ ~active /\ daemon = "up"
    /\ \A i \in DOMAIN toDaemon : toDaemon[i].type # "reconcile"
    /\ link' = "snapshot"
    /\ toDaemon' = Append(toDaemon, Reconcile(server.eventAck, issued # << >>))
    /\ UNCHANGED <<serverVars, active, toServer, daemonVars, bounds>>

\* unacknowledged_commands, read and sent in ascending order.
SendPending ==
    /\ link = "snapshot"
    /\ link' = "pending"
    /\ LET open == Ascending(server.outbox \ server.acknowledged)
       IN  toDaemon' = toDaemon \o [i \in 1..Len(open) |-> Command(open[i])]
    /\ UNCHANGED <<serverVars, active, toServer, daemonVars, bounds>>

MarkLiveReady ==
    /\ link = "pending"
    /\ link' = "ready"
    /\ UNCHANGED <<serverVars, active, toServer, toDaemon, daemonVars, bounds>>

\* The connection ends.  Of the frames in `up`, the n oldest had been written
\* and are lost.  Of the frames in `down`, those that have not reached the
\* daemon's main loop are lost, from the newest back; none passes a handshake
\* that is still unanswered, and those before it are left from an earlier
\* connection.
LinkDies(up, down, n) ==
    /\ active \/ n = 0
    /\ n \in 0..Len(up)
    /\ toServer' = SubSeq(up, n + 1, Len(up))
    /\ LET p == {i \in DOMAIN down : down[i].type = "reconcile"}
           kept == IF p = {} THEN 0..Len(down) ELSE {Max(p) - 1, Max(p)}
       IN  \E m \in kept : toDaemon' = SubSeq(down, 1, m)
    /\ link' = "down"
    /\ active' = FALSE

\* The socket closes.  The server's task may still have a frame in hand.
Disconnect ==
    /\ Fails
    /\ link # "down"
    /\ \E n \in 0..MaxFrames :
          /\ LinkDies(toServer, toDaemon, n)
          /\ \/ late' = late
             \/ n > 0 /\ link = "ready" /\ late = << >> /\ late' = <<toServer[1]>>
    /\ UNCHANGED <<issued, server, dispatching, daemonVars>>

\* The supervisor resumes after a handshake whose connection is already dead,
\* and finds out.
NoticeDisconnect ==
    /\ link = "down" /\ active
    /\ \E n \in 0..MaxFrames : LinkDies(toServer, toDaemon, n)
    /\ UNCHANGED <<serverVars, daemonVars, bounds>>

\* The server process restarts: its tasks and connections are gone.
ServerRestart ==
    /\ Fails
    /\ dispatching' = {}
    /\ late' = << >>
    /\ \E n \in 0..MaxFrames : LinkDies(toServer, toDaemon, n)
    /\ UNCHANGED <<issued, server, daemonVars>>
-----------------------------------------------------------------------------
(* Frames from the daemon: the loop of serve_authenticated.                *)

Received(type) == link = "ready" /\ active /\ Head1(toServer, type)

ReceiveEvent ==
    LET f == toServer[1]
    IN  /\ Received("event")
        /\ ~EventConflicts(server, f)
        /\ ~EventGap(server, f)
        /\ server' = RecordEvent(server, f)
        /\ toServer' = Tail(toServer)
        /\ toDaemon' = Append(toDaemon, EventAck(f.seq, f.id))
        /\ UNCHANGED <<issued, dispatching, late, link, active, daemonVars, bounds>>

\* EventHandleError::Gap: close without a protocol error.
ReceiveEventGap ==
    /\ Received("event")
    /\ EventGap(server, toServer[1])
    /\ \E n \in 0..MaxFrames : LinkDies(Tail(toServer), toDaemon, n)
    /\ UNCHANGED <<serverVars, daemonVars, bounds>>

ReceiveCommandAck ==
    LET s == toServer[1].seq
    IN  /\ Received("command_ack")
        /\ s \in server.outbox \cup server.tombstones
        /\ server' = AcknowledgeCommand(server, s)
        /\ toServer' = Tail(toServer)
        /\ UNCHANGED <<issued, dispatching, late, link, active, toDaemon, daemonVars, bounds>>

\* The server task of a dead connection finishes the frame it had in hand,
\* possibly after the next connection has read its snapshot; nobody gets the
\* answer.
HandleLate ==
    LET f == late[1]
    IN  /\ late # << >>
        /\ late' = << >>
        /\ server' = CASE f.type = "command_ack" -> AcknowledgeCommand(server, f.seq)
                       [] f.type = "event" /\ ~EventGap(server, f) -> RecordEvent(server, f)
                       [] OTHER -> server
        /\ UNCHANGED <<issued, dispatching, linkVars, daemonVars, bounds>>
-----------------------------------------------------------------------------
(* The daemon's main loop.                                                 *)

Handles(type) == daemon = "up" /\ Head1(toDaemon, type)
Emit(frames) == /\ Len(toServer) + Len(frames) <= MaxFrames
                /\ toServer' = toServer \o frames
HandOver(cmds) == /\ scheduled' = scheduled \o cmds
                  /\ invoked' = invoked \o cmds
EventFrames(j, ns) == [i \in 1..Len(ns) |-> Event(ns[i], j.events[ns[i]].id)]

\* HandshakeComplete: reconcile, signal readiness, replay, then what recovery
\* left, then recovery's commands.  The supervisor drains the channel while
\* replay fills it, so a full channel delays nothing here.  A connection that
\* died meanwhile is only noticed afterwards.  A session that the snapshot does
\* not list gets no entry in the journal: its first command may then be received
\* by a daemon whose recovery would not look at it.
ReceiveReconcile ==
    LET f == toDaemon[1]
        j == IF f.listed THEN ApplyReconciliation(journal, f.seq) ELSE journal
        replay == IF f.listed THEN ReplayEvents(j, f.seq) ELSE {}
    IN  /\ Handles("reconcile")
        /\ journal' = j
        /\ active' = TRUE
        /\ toDaemon' = Tail(toDaemon)
        /\ toServer' = toServer \o EventFrames(j, Ascending(replay))
                         \o recovered.frames
        /\ HandOver(recovered.commands)
        /\ recovered' = NothingRecovered
        /\ UNCHANGED <<serverVars, link, daemon, bounds>>

\* accept_server_frame, Command: durable receipt, durable start when its turn
\* has come, then the ACK and the hand-over.
ReceiveCommand ==
    LET s == toDaemon[1].seq
        j == Prepare(journal, s)
        starts == Startable(j, s, IsCancel(s))
    IN  /\ Handles("command")
        /\ ~BelowBoundary(journal, s)
        /\ ~GapOverflow(journal, s)
        /\ journal' = IF starts THEN MarkStarted(j, s) ELSE j
        /\ toDaemon' = Tail(toDaemon)
        /\ Emit(<<CommandAck(s)>>)
        /\ HandOver(IF starts THEN <<s>> ELSE << >>)
        /\ UNCHANGED <<serverVars, link, active, daemon, recovered, bounds>>

\* RetryableGap: no ACK, and the connection is closed for reconciliation.
ReceiveCommandOverflow ==
    /\ Handles("command")
    /\ GapOverflow(journal, toDaemon[1].seq)
    /\ \E n \in 0..MaxFrames : LinkDies(toServer, Tail(toDaemon), n)
    /\ UNCHANGED <<serverVars, daemonVars, bounds>>

\* accept_server_frame, EventAck: acknowledge, then compact.
ReceiveEventAck ==
    LET f == toDaemon[1]
    IN  /\ Handles("event_ack")
        /\ ~AckConflicts(journal, f.seq, f.id)
        /\ journal' = CompactSession(AcknowledgeEvent(journal, f.seq))
        /\ toDaemon' = Tail(toDaemon)
        /\ UNCHANGED <<serverVars, link, active, toServer, daemon, scheduled,
                       recovered, invoked, bounds>>

\* finish_runtime: complete the command (k runtime events), compact, and start
\* the next received command if its turn has come.  A cancel that interrupts
\* is finished after what it interrupts; the code does both in one turn of the
\* loop, here other frames may come between.
Finishes(i, k) ==
    /\ daemon = "up"
    /\ i \in DOMAIN scheduled
    /\ k \in 0..MaxEvents /\ k <= Spare
    /\ IsCancel(scheduled[i]) => i = 1
Finished(s, k) == FinishCommand(journal, s, [x \in 1..k |-> <<s, x>>])

FinishRuntime(i, k) ==
    LET s == scheduled[i]
        f == Finished(s, k)
        j == CompactSession(f)
        next == Ascending(NextReady(j))
        fresh == Ascending(DOMAIN f.events \ DOMAIN journal.events)
    IN  /\ Finishes(i, k)
        /\ journal' = IF next = << >> THEN j ELSE MarkStarted(j, next[1])
        /\ Emit(EventFrames(f, fresh) \o [x \in 1..Len(next) |-> CommandAck(next[x])])
        /\ scheduled' = RemoveAt(scheduled, i) \o next
        /\ invoked' = invoked \o next
        /\ UNCHANGED <<serverVars, link, active, toDaemon, daemon, recovered, bounds>>
-----------------------------------------------------------------------------
(* Crash and recovery of the daemon.                                       *)

\* The process dies with journal j on disk.
DieWith(j) ==
    /\ daemon' = "down"
    /\ journal' = j
    /\ scheduled' = << >>
    /\ recovered' = NothingRecovered
    /\ link' = "down"
    /\ active' = FALSE
    /\ toServer' = << >>
    /\ toDaemon' = << >>
    /\ \/ late' = late
       \/ /\ late = << >> /\ link = "ready" /\ active /\ toServer # << >>
          /\ late' = <<toServer[1]>>
    /\ Fails
    /\ UNCHANGED <<issued, server, dispatching, invoked>>

Crash == daemon # "down" /\ DieWith(journal)

\* Between prepare_command and mark_dispatch_started.
CrashWithinReceive ==
    /\ Handles("command")
    /\ ~GapOverflow(journal, toDaemon[1].seq)
    /\ DieWith(Prepare(journal, toDaemon[1].seq))

\* Between finish_command and compact_session, or before the next command.
CrashWithinFinish(i, k) ==
    /\ Finishes(i, k)
    /\ LET f == Finished(scheduled[i], k)
       IN  \E j \in {f, CompactSession(f)} : DieWith(j)

Restart ==
    /\ daemon = "down"
    /\ daemon' = "recovering"
    /\ UNCHANGED <<serverVars, linkVars, journal, scheduled, recovered, invoked, bounds>>

\* recover_for_scheduler, first loop: a command that had started has an unknown
\* outcome.  It is finished, never invoked again.
RecoverStarted(s) ==
    LET f == FinishCommand(journal, s, <<Unknown(s)>>)
    IN  /\ daemon = "recovering"
        /\ s \in DOMAIN journal.commands
        /\ journal.commands[s] = "dispatch_started"
        /\ journal' = CompactSession(f)
        /\ recovered' = [recovered EXCEPT !.frames =
               @ \o <<CommandAck(s), Event(NextEvent(journal), Unknown(s))>>]
        /\ UNCHANGED <<serverVars, linkVars, daemon, scheduled, invoked, bounds>>

\* Second loop: the next received command is started durably, and handed over
\* after the first handshake.
FinishRecovery ==
    LET next == IF journal.tracked THEN Ascending(NextReady(journal)) ELSE << >>
    IN  /\ daemon = "recovering"
        /\ "dispatch_started" \notin Range(journal.commands)
        /\ journal' = IF next = << >> THEN journal ELSE MarkStarted(journal, next[1])
        /\ recovered' = [frames |-> recovered.frames \o
                                    [x \in 1..Len(next) |-> CommandAck(next[x])],
                         commands |-> next]
        /\ daemon' = "up"
        /\ UNCHANGED <<serverVars, linkVars, scheduled, invoked, bounds>>
-----------------------------------------------------------------------------
Init ==
    /\ issued = << >>
    /\ server = [outbox |-> {}, acknowledged |-> {}, tombstones |-> {},
                 commandAck |-> 0, receipts |-> << >>, eventAck |-> 0]
    /\ dispatching = {}
    /\ late = << >>
    /\ link = "down" /\ active = FALSE
    /\ toServer = << >> /\ toDaemon = << >>
    /\ daemon = "up"
    /\ journal = EmptyJournal
    /\ scheduled = << >>
    /\ recovered = NothingRecovered
    /\ invoked = << >>
    /\ repeats = 0 /\ failures = 0

\* What the processes do by themselves.
Progress ==
    \/ \E s \in 1..MaxCommands : DispatchCommand(s) \/ SkipDispatch(s) \/ RecoverStarted(s)
    \/ Connect \/ SendPending \/ MarkLiveReady \/ NoticeDisconnect
    \/ ReceiveEvent \/ ReceiveEventGap \/ ReceiveCommandAck \/ HandleLate
    \/ ReceiveReconcile \/ ReceiveCommand \/ ReceiveCommandOverflow \/ ReceiveEventAck
    \/ \E i \in 1..MaxCommands, k \in 0..MaxEvents : FinishRuntime(i, k)
    \/ Restart \/ FinishRecovery

\* What happens to them.
Failure ==
    \/ Disconnect \/ ServerRestart \/ Crash \/ CrashWithinReceive
    \/ \E i \in 1..MaxCommands, k \in 0..MaxEvents : CrashWithinFinish(i, k)

\* What clients ask for.
Request ==
    \/ \E kind \in {"run", "cancel"} : IssueCommand(kind)
    \/ \E s \in 1..MaxCommands : RepeatRequest(s)

Next == Progress \/ Failure \/ Request

Spec == Init /\ [][Next]_vars

\* The tasks keep running: a request that has committed, the server's task of the
\* connection and that of a dead one, the supervisor's reconnection loop, and the
\* daemon's main loop with its runtime or, after a crash, its recovery.  Clients
\* and failures owe nothing.
ConnectionTask ==
    SendPending \/ MarkLiveReady \/ ReceiveEvent \/ ReceiveEventGap \/ ReceiveCommandAck
MainLoop ==
    \/ ReceiveReconcile \/ ReceiveCommand \/ ReceiveCommandOverflow \/ ReceiveEventAck
    \/ \E i \in 1..MaxCommands, k \in 0..MaxEvents : FinishRuntime(i, k)
Recovery == Restart \/ FinishRecovery \/ \E s \in 1..MaxCommands : RecoverStarted(s)

Fairness ==
    /\ \A s \in 1..MaxCommands : WF_vars(DispatchCommand(s) \/ SkipDispatch(s))
    /\ WF_vars(ConnectionTask) /\ WF_vars(HandleLate)
    /\ WF_vars(Connect \/ NoticeDisconnect)
    /\ WF_vars(MainLoop) /\ WF_vars(Recovery)

FairSpec == Spec /\ Fairness
-----------------------------------------------------------------------------
(* Correctness.                                                            *)

Frames == [type : {"command", "command_ack"}, seq : Nat]
          \cup [type : {"event", "event_ack"}, seq : Nat, id : EventIds]
          \cup [type : {"reconcile"}, seq : Nat, listed : BOOLEAN]

\* The shape of the tables, the journal, the queues and the process states.
TypeOK ==
    /\ issued \in Seq({"run", "cancel"})
    /\ server.outbox \cup server.acknowledged \cup server.tombstones \subseteq DOMAIN issued
    /\ server.commandAck \in Nat /\ server.eventAck \in Nat
    /\ \A n \in DOMAIN server.receipts : n \in Nat /\ server.receipts[n] \in EventIds
    /\ dispatching \subseteq DOMAIN issued
    /\ \A q \in {late, toServer, toDaemon, recovered.frames} : q \in Seq(Frames)
    /\ link \in {"down", "snapshot", "pending", "ready"} /\ active \in BOOLEAN
    /\ daemon \in {"down", "recovering", "up"} /\ JournalFile(journal)
    /\ \A q \in {scheduled, recovered.commands, invoked} : q \in Seq(DOMAIN issued)

\* The events the daemon has committed, and those the server has handled.
Committed ==
    [n \in 1..NextEvent(journal) - 1 |->
        IF n \in DOMAIN journal.events THEN journal.events[n].id
        ELSE IF n \in DOMAIN journal.eventTombstones THEN journal.eventTombstones[n]
        ELSE "hole"]
Handled == [n \in 1..server.eventAck |->
              IF n \in DOMAIN server.receipts THEN server.receipts[n] ELSE "hole"]

Log == INSTANCE SessionLog WITH commands <- issued, invoked <- invoked,
                                events <- Committed, applied <- Handled

\* Through connection loss, redelivery, crashes and compaction, delivery is the
\* session log: at-most-once ordered invocation, exactly-once ordered handling.
ImplementsSessionLog == Log!LogSpec

\* No frame on its way, and no number about to be allocated, collides with what
\* the receiver retains.  A collision is a protocol error, which the daemon
\* treats as terminal: it would never serve again.
NoIdentityConflict ==
    /\ NextCommand(server) = Len(issued) + 1
    /\ \A i \in DOMAIN toServer : LET f == toServer[i] IN
          /\ f.type = "event" => ~EventConflicts(server, f)
          /\ f.type = "command_ack" => f.seq \in server.outbox \cup server.tombstones
    /\ \A i \in DOMAIN toDaemon : LET f == toDaemon[i] IN
          /\ f.type = "command" => ~BelowBoundary(journal, f.seq)
          /\ f.type = "event_ack" => ~AckConflicts(journal, f.seq, f.id)

\* What either side has put behind it is safe on the other: an acknowledged or
\* watermarked command is in the daemon's journal, and an event the journal
\* holds for acknowledged has been handled by the server.
AcknowledgedIsDurable ==
    /\ \A s \in server.acknowledged \cup server.tombstones \cup 1..server.commandAck :
          Known(journal, s)
    /\ \A n \in DOMAIN journal.events :
          journal.events[n].acknowledged => n <= server.eventAck
    /\ DOMAIN journal.eventTombstones \cup 1..journal.eventAck \subseteq 1..server.eventAck

\* Whatever has not arrived can still be sent: a command the daemon does not
\* know is in the next unacknowledged_commands, and an event the server has not
\* handled is in the next replay.
NothingIsForgotten ==
    /\ \A s \in DOMAIN issued :
          Known(journal, s) \/ s \in server.outbox \ server.acknowledged
    /\ \A n \in server.eventAck + 1..NextEvent(journal) - 1 :
          n \in DOMAIN journal.events /\ ~journal.events[n].acknowledged

\* No command is stuck in the journal of a running daemon: one that has started
\* is with the scheduler or waits for the handshake, and one whose turn has
\* come but has not started will be sent again by the server.
NoCommandIsStranded ==
    daemon = "up" =>
        /\ {s \in DOMAIN journal.commands : journal.commands[s] = "dispatch_started"}
              = ToSet(scheduled) \cup ToSet(recovered.commands)
        /\ NextReady(journal) \subseteq server.outbox \ server.acknowledged

\* Nothing is lost on either side, whatever connection loss, a crash or compaction
\* comes between two steps of accept_command_with_control, mark_dispatch_started,
\* finish_command, record_event_receipt and their acknowledgements.
NothingIsLost == AcknowledgedIsDurable /\ NothingIsForgotten /\ NoCommandIsStranded

\* Delivery is at least once: a command the server has persisted reaches the
\* daemon's journal.
CommandsArrive ==
    \A s \in 1..MaxCommands : s \in server.outbox ~> Known(journal, s)

\* Delivery of events is at least once, too: an event the daemon has committed to
\* its journal is handled by the server.
EventsArrive ==
    \A n \in 1..MaxCommands * (MaxEvents + 1) :
        n < NextEvent(journal) ~> n <= server.eventAck
=============================================================================
