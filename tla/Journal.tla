------------------------------ MODULE Journal ------------------------------
(***************************************************************************)
(* The daemon's journal for one session: what JournalFile holds for it,    *)
(* and the updates of north-daemon/src/journal.rs as functions from one    *)
(* journal to the next.  Each `update` of the code writes a temporary      *)
(* file, syncs it and renames it, so a crash finds the journal either      *)
(* before or after an update, never inside one.                            *)
(*                                                                         *)
(* A command is identified by its sequence number, an event by the command *)
(* that produced it and an index: index 0 is `execution-unknown-<id>`,     *)
(* index i is `runtime-<id>-<i>`.                                          *)
(***************************************************************************)
EXTENDS Integers, Sequences, FiniteSetsExt, Functions

CONSTANT MaxGapBuffer  \* max_gap_buffer_entries_per_session

ASSUME JournalAssumption == MaxGapBuffer \in Nat

EventIds == (Nat \ {0}) \X Nat
Unknown(s) == <<s, 0>>

\* `tracked` says whether `sessions` has an entry for the session: recovery
\* only looks at the sessions in that map.
JournalFile(j) ==
    /\ \A s \in DOMAIN j.commands :
          s \in Nat \ {0} /\ j.commands[s] \in {"received", "dispatch_started", "terminal"}
    /\ \A n \in DOMAIN j.events :
          n \in Nat \ {0} /\ j.events[n] \in [id : EventIds, acknowledged : BOOLEAN]
    /\ \A n \in DOMAIN j.eventTombstones : n \in Nat \ {0} /\ j.eventTombstones[n] \in EventIds
    /\ j.tombstones \cup j.sparse \subseteq Nat \ {0}
    /\ j.processed \in Nat /\ j.eventAck \in Nat /\ j.tracked \in BOOLEAN

EmptyJournal ==
    [commands |-> << >>, tombstones |-> {}, processed |-> 0, tracked |-> FALSE,
     events |-> << >>, eventTombstones |-> << >>, eventAck |-> 0, sparse |-> {}]

\* f with x mapped to v, and f together with g.
With(f, x, v) == [y \in DOMAIN f \cup {x} |-> IF y = x THEN v ELSE f[y]]
Union(f, g) == [y \in DOMAIN f \cup DOMAIN g |-> IF y \in DOMAIN g THEN g[y] ELSE f[y]]
-----------------------------------------------------------------------------
(* Commands.                                                               *)

\* expected_command_sequence
Expected(j) == j.processed + 1

Known(j, s) == s \in DOMAIN j.commands \cup j.tombstones

\* prepare_command: a retained identity is left alone, a new one is received.
Prepare(j, s) ==
    IF Known(j, s) THEN j
    ELSE [j EXCEPT !.commands = With(@, s, "received")]

\* The two refusals of prepare_command.
GapOverflow(j, s) ==
    /\ ~Known(j, s)
    /\ s > Expected(j)
    /\ Cardinality({q \in DOMAIN j.commands :
                      q > Expected(j) /\ j.commands[q] # "terminal"}) >= MaxGapBuffer
BelowBoundary(j, s) == ~Known(j, s) /\ s < Expected(j)

\* accept_command_with_control: a received command starts when it is the
\* expected one; a cancel also starts ahead of its turn, to interrupt an
\* earlier command that has started.
StartableAhead(j, s, cancel) ==  \* mutant: buffered commands start
    s \in DOMAIN j.commands /\ j.commands[s] = "received"
Startable(j, s, cancel) ==
    /\ s \in DOMAIN j.commands
    /\ j.commands[s] = "received"
    /\ \/ s <= Expected(j)
       \/ /\ cancel
          /\ \E q \in DOMAIN j.commands : q < s /\ j.commands[q] = "dispatch_started"

\* mark_dispatch_started
MarkStarted(j, s) == [j EXCEPT !.commands[s] = "dispatch_started"]

\* accept_next_ready_command: the received command whose turn it is.
NextReady(j) == {s \in DOMAIN j.commands : s = Expected(j) /\ j.commands[s] = "received"}

\* advance_processed
AdvanceProcessed(j) ==
    LET done == {p \in j.processed..Max({j.processed} \cup DOMAIN j.commands) :
                   \A q \in j.processed + 1..p :
                      q \in DOMAIN j.commands /\ j.commands[q] = "terminal"}
    IN  [j EXCEPT !.processed = Max(done), !.tracked = TRUE]
-----------------------------------------------------------------------------
(* Events.                                                                 *)

\* next_event_sequence: above every cursor, retained event and tombstone.
NextEvent(j) ==
    Max({j.eventAck} \cup j.sparse \cup DOMAIN j.events \cup DOMAIN j.eventTombstones) + 1

\* The tail of finish_command: one record per event, in order.
AppendEvents(j, ids) ==
    LET base == NextEvent(j) - 1
    IN  [j EXCEPT !.events =
           Union(@, [n \in base + 1..base + Len(ids) |->
                       [id |-> ids[n - base], acknowledged |-> FALSE]])]

\* finish_command: terminal state, processed boundary and events together.
FinishCommand(j, s, ids) ==
    AppendEvents(AdvanceProcessed([j EXCEPT !.commands[s] = "terminal"]), ids)

\* advance_event_ack: over retained records only.
AdvanceEventAck(j) ==
    LET done == {a \in j.eventAck..Max({j.eventAck} \cup DOMAIN j.events) :
                   \A n \in j.eventAck + 1..a :
                      n \in DOMAIN j.events /\ j.events[n].acknowledged}
    IN  [j EXCEPT !.eventAck = Max(done),
                  !.sparse = {n \in @ : n > Max(done)},
                  !.tracked = TRUE]

\* acknowledge_event.  Both identities must be the retained ones.
AckConflicts(j, n, id) ==
    ~ \/ n \in DOMAIN j.events /\ j.events[n].id = id
      \/ n \in DOMAIN j.eventTombstones /\ j.eventTombstones[n] = id
AcknowledgeEvent(j, n) ==
    IF n \notin DOMAIN j.events \/ j.events[n].acknowledged THEN j
    ELSE AdvanceEventAck(
           [j EXCEPT !.events[n].acknowledged = TRUE,
                     !.sparse = IF n > j.eventAck THEN @ \cup {n} ELSE @])

\* apply_reconciliation.  The server never stores sparse event ACKs (a gap
\* closes the connection), so its snapshot is one watermark.
ApplyReconciliation(j, through) ==
    LET ack == Max({j.eventAck, through})
        sparse == {n \in j.sparse : n > ack}
    IN  [j EXCEPT !.eventAck = ack, !.sparse = sparse, !.tracked = TRUE,
                  !.events = [n \in DOMAIN @ |->
                      IF n <= ack \/ n \in sparse
                      THEN [id |-> @[n].id, acknowledged |-> TRUE] ELSE @[n]]]

\* replay_events: what the server has not acknowledged, in ascending order.
ReplayEvents(j, through) ==
    {n \in DOMAIN j.events : n > through /\ ~j.events[n].acknowledged}

\* compact_session: payloads become tombstones behind the two boundaries.
CompactSession(j) ==
    LET old == {s \in DOMAIN j.commands :
                  j.commands[s] = "terminal" /\ s <= j.processed}
        acked == {n \in DOMAIN j.events :
                    j.events[n].acknowledged /\ (n <= j.eventAck \/ n \in j.sparse)}
    IN  [j EXCEPT !.commands = Restrict(@, DOMAIN @ \ old),
                  !.tombstones = @ \cup old,
                  !.events = Restrict(@, DOMAIN @ \ acked),
                  !.eventTombstones = Union(@, [n \in acked |-> j.events[n].id])]
=============================================================================
