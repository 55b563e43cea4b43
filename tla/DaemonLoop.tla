----------------------------- MODULE DaemonLoop -----------------------------
(***************************************************************************)
(* The tasks of the daemon process and the bounded channels between them:  *)
(* the main loop of north-daemon/src/main.rs, the connection supervisor of *)
(* transport.rs, the heartbeat task and the runtime.  Module Delivery says *)
(* what the frames do; this one only says who waits for whom.              *)
(*                                                                         *)
(* The main loop handles one event or completion at a time and waits for   *)
(* room in `outbound` for every frame it emits.  The supervisor empties    *)
(* `outbound` only on an active connection, and a connection is active     *)
(* only once the main loop has answered its handshake.  The answer goes    *)
(* through a oneshot channel that is made for this one handshake; module   *)
(* DaemonLoop numbers the connections to tell one's channel from another's.*)
(***************************************************************************)
EXTENDS Integers, Sequences

CONSTANTS
    OutboundCapacity,  \* OUTBOUND_QUEUE_CAPACITY, 256 in the code
    EventCapacity,     \* of the channel into the main loop, 256 in the code
    ReplayLength,      \* unacknowledged events the journal replays
    MaxHeartbeats,     \* bound: heartbeats
    MaxCompletions,    \* bound: commands the runtime finishes
    MaxArrivals,       \* bound: frames the server sends
    MaxConnections     \* bound: connections made

ASSUME LoopAssumption ==
    /\ {ReplayLength, MaxHeartbeats, MaxCompletions, MaxArrivals, MaxConnections}
          \subseteq Nat
    /\ {OutboundCapacity, EventCapacity} \subseteq Nat \ {0}

VARIABLES
    outbound,     \* Nat: frames queued for the supervisor
    events,       \* Seq: what the main loop has still to handle, by connection
    control,      \* 0..1: CloseRetryable requests queued for the supervisor
    phase,        \* "offline", "waiting" (for readiness) or "active"
    connection,   \* Nat: the number of the supervisor's latest connection
    offered,      \* its handshake is in `events`, or was
    ready,        \* connections whose oneshot channel has been signalled
    holding,      \* Seq: the frame the supervisor is passing to the main loop
    emitting,     \* Nat: frames the main loop has still to put into `outbound`
    closing,      \* the main loop has still to ask for a close
    stopped,      \* the daemon process has exited
    completions,  \* Nat: finished commands the main loop has not looked at
    applied,      \* Nat: the connection whose snapshot was reconciled last
    heartbeats, finished, arrivals  \* how many of each have happened

main == <<emitting, closing, stopped>>
supervisor == <<phase, connection, offered, holding>>
handshake == <<ready, applied>>
counts == <<heartbeats, finished, arrivals>>
vars == <<outbound, events, control, main, supervisor, handshake, completions, counts>>

Kinds == {"handshake", "command", "gap"}
Entry(kind, c) == [kind |-> kind, of |-> c]
-----------------------------------------------------------------------------
\* A bounded channel takes another entry.
RoomAlways(n, capacity) == TRUE  \* mutant: an unbounded channel
Room(n, capacity) == n < capacity

Idle == ~stopped /\ emitting = 0 /\ ~closing
Next1(kinds) == events # << >> /\ events[1].kind \in kinds

\* The heartbeat task ticks whether the daemon is connected or not.
SendHeartbeat ==
    /\ ~stopped /\ heartbeats < MaxHeartbeats
    /\ Room(outbound, OutboundCapacity)
    /\ outbound' = outbound + 1
    /\ heartbeats' = heartbeats + 1
    /\ UNCHANGED <<events, control, main, supervisor, handshake, completions,
                   finished, arrivals>>

\* The runtime finishes a command; its channel is unbounded.
RuntimeFinishes ==
    /\ ~stopped /\ finished < MaxCompletions
    /\ completions' = completions + 1
    /\ finished' = finished + 1
    /\ UNCHANGED <<outbound, events, control, main, supervisor, handshake,
                   heartbeats, arrivals>>
-----------------------------------------------------------------------------
(* The supervisor: connect_once and run_with_control.                      *)

\* Socket, hello, welcome and the snapshot.
Connect ==
    /\ ~stopped /\ phase = "offline" /\ connection < MaxConnections
    /\ phase' = "waiting"
    /\ connection' = connection + 1
    /\ offered' = FALSE
    /\ UNCHANGED <<outbound, events, control, main, holding, handshake, completions, counts>>

\* await_coordination_ready makes a oneshot channel and puts the handshake, with
\* the channel's sender, into `events`.
OfferHandshake ==
    /\ ~stopped /\ phase = "waiting" /\ ~offered
    /\ Room(Len(events), EventCapacity)
    /\ events' = Append(events, Entry("handshake", connection))
    /\ offered' = TRUE
    /\ UNCHANGED <<outbound, control, main, phase, connection, holding, handshake,
                   completions, counts>>

\* The supervisor finds its own oneshot channel signalled.
SignalledShared(c) == ready # {}  \* mutant: one notification for all connections
Signalled(c) == c \in ready

CoordinationReady ==
    /\ ~stopped /\ phase = "waiting" /\ offered
    /\ Signalled(connection)
    /\ phase' = "active"
    /\ UNCHANGED <<outbound, events, control, main, connection, offered, holding,
                   handshake, completions, counts>>

\* Its timeout: the receiver is dropped and the handshake, if it is still in the
\* channel, stays there.  The signal may come between the last look at it and
\* the drop: it is lost, and the main loop does not know.
CoordinationTimeout ==
    /\ ~stopped /\ phase = "waiting"
    /\ phase' = "offline"
    /\ UNCHANGED <<outbound, events, control, main, connection, offered, holding,
                   handshake, completions, counts>>

\* The active loop, one branch of its select at a time.  While it passes a
\* frame to the main loop it does nothing else.
WriteFrame ==
    /\ ~stopped /\ phase = "active" /\ holding = << >>
    /\ outbound > 0
    /\ outbound' = outbound - 1
    /\ UNCHANGED <<events, control, main, supervisor, handshake, completions, counts>>

ReadFrame(kind) ==
    /\ ~stopped /\ phase = "active" /\ holding = << >>
    /\ arrivals < MaxArrivals
    /\ holding' = <<Entry(kind, connection)>>
    /\ arrivals' = arrivals + 1
    /\ UNCHANGED <<outbound, events, control, main, phase, connection, offered,
                   handshake, completions, heartbeats, finished>>

ForwardFrame ==
    /\ ~stopped /\ holding # << >>
    /\ Room(Len(events), EventCapacity)
    /\ events' = Append(events, holding[1])
    /\ holding' = << >>
    /\ UNCHANGED <<outbound, control, main, phase, connection, offered, handshake,
                   completions, counts>>

CloseOnRequest ==
    /\ ~stopped /\ phase = "active" /\ holding = << >>
    /\ control > 0
    /\ control' = control - 1
    /\ phase' = "offline"
    /\ UNCHANGED <<outbound, events, main, connection, offered, holding, handshake,
                   completions, counts>>

\* The connection is lost.
Drop ==
    /\ ~stopped /\ phase = "active" /\ holding = << >>
    /\ phase' = "offline"
    /\ UNCHANGED <<outbound, events, control, main, connection, offered, holding,
                   handshake, completions, counts>>
-----------------------------------------------------------------------------
(* The main loop.                                                          *)

\* Somebody still holds the receiver of connection c's oneshot channel.
Listening(c) == phase = "waiting" /\ connection = c

\* Reconcile, signal readiness, then emit the replay.
AnswerHandshake ==
    /\ Idle /\ Next1({"handshake"})
    /\ Listening(events[1].of)
    /\ events' = Tail(events)
    /\ applied' = events[1].of
    /\ ready' = ready \cup {events[1].of}
    /\ emitting' = ReplayLength
    /\ UNCHANGED <<outbound, control, supervisor, closing, stopped, completions, counts>>

\* The snapshot of a connection that has timed out is reconciled all the same;
\* then `ready.send` fails because its receiver is gone, and start returns the
\* error.
AnswerTooLate ==
    /\ Idle /\ Next1({"handshake"})
    /\ ~Listening(events[1].of)
    /\ events' = Tail(events)
    /\ applied' = events[1].of
    /\ stopped' = TRUE
    /\ UNCHANGED <<outbound, control, supervisor, ready, emitting, closing, completions,
                   counts>>

\* accept_server_frame: a command is acknowledged, a gap asks for a close.
HandleFrame ==
    /\ Idle /\ Next1({"command", "gap"})
    /\ events' = Tail(events)
    /\ emitting' = IF events[1].kind = "command" THEN 1 ELSE 0
    /\ closing' = (events[1].kind = "gap")
    /\ UNCHANGED <<outbound, control, supervisor, handshake, stopped, completions, counts>>

\* finish_runtime, then emit_runtime_actions.
HandleCompletion ==
    /\ Idle /\ completions > 0
    /\ completions' = completions - 1
    /\ emitting' = 1
    /\ UNCHANGED <<outbound, events, control, supervisor, handshake, closing, stopped,
                   counts>>

\* outbound.send(frame).await
EmitFrame ==
    /\ ~stopped /\ emitting > 0
    /\ Room(outbound, OutboundCapacity)
    /\ outbound' = outbound + 1
    /\ emitting' = emitting - 1
    /\ UNCHANGED <<events, control, closing, stopped, supervisor, handshake, completions,
                   counts>>

\* close_sender.send(CloseRetryable).await, a channel of capacity one.
RequestClose ==
    /\ ~stopped /\ closing
    /\ Room(control, 1)
    /\ control' = control + 1
    /\ closing' = FALSE
    /\ UNCHANGED <<outbound, events, emitting, stopped, supervisor, handshake, completions,
                   counts>>
-----------------------------------------------------------------------------
\* The daemon starts without a connection, whatever its journal holds.
Init ==
    /\ outbound = 0 /\ events = << >> /\ control = 0
    /\ phase = "offline" /\ connection = 0 /\ offered = FALSE /\ holding = << >>
    /\ ready = {} /\ applied = 0
    /\ emitting = 0 /\ closing = FALSE /\ stopped = FALSE
    /\ completions = 0
    /\ heartbeats = 0 /\ finished = 0 /\ arrivals = 0

SupervisorStep ==
    Connect \/ OfferHandshake \/ CoordinationReady \/ CoordinationTimeout \/ WriteFrame
      \/ ForwardFrame \/ CloseOnRequest
MainStep ==
    AnswerHandshake \/ AnswerTooLate \/ HandleFrame \/ HandleCompletion \/ EmitFrame
      \/ RequestClose
Environment ==
    SendHeartbeat \/ RuntimeFinishes \/ Drop \/ \E kind \in {"command", "gap"} : ReadFrame(kind)

Next == SupervisorStep \/ MainStep \/ Environment

Spec == Init /\ [][Next]_vars
-----------------------------------------------------------------------------
(* Correctness.                                                            *)

\* Every channel stays within its capacity.
TypeOK ==
    /\ outbound \in 0..OutboundCapacity
    /\ events \in Seq([kind : Kinds, of : Nat])
    /\ Len(events) <= EventCapacity
    /\ control \in 0..1
    /\ phase \in {"offline", "waiting", "active"}
    /\ {connection, applied, emitting, completions} \subseteq Nat
    /\ ready \subseteq Nat
    /\ holding = << >> \/ \E kind \in {"command", "gap"} : holding = <<Entry(kind, connection)>>
    /\ {offered, closing, stopped} \subseteq BOOLEAN

\* Application traffic flows only under the connection's own snapshot.  A
\* handshake that timed out may be answered when the next connection is already
\* waiting, or its answer may get lost in the timeout; neither opens the next
\* connection (the supervisor moves frames only when the snapshot reconciled
\* last is that of its current connection).  And no frame outlives its snapshot:
\* a frame that waits for the main loop came over the connection whose snapshot
\* is the last one reconciled, however many reconnections happened since.
TrafficFollowsItsSnapshot ==
    /\ phase = "active" => applied = connection
    /\ \A i \in DOMAIN events : events[i].kind # "handshake" => events[i].of = applied
=============================================================================
