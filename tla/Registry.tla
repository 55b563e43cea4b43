------------------------------ MODULE Registry ------------------------------
(***************************************************************************)
(* How a daemon becomes known to the server and stays connected to it:     *)
(* setup request, approval and claim; the registration row with its        *)
(* connection lease; the live map of the running server; the connection    *)
(* tasks; revocation; and the daemon's supervisor as far as it decides     *)
(* between dialling again and stopping.                                    *)
(*                                                                         *)
(* The lease (connection_id, a committed row) and the live map (memory of  *)
(* the server) say the same thing and are changed in separate steps:       *)
(* connect_daemon commits before the entry is inserted, revoke_daemon      *)
(* commits before close_daemon removes the entry, and a task that leaves   *)
(* removes its entry before it releases its lease.  Every database call    *)
(* and every acquisition of the live map's lock is one step.               *)
(*                                                                         *)
(* A registration is named by the setup request it was claimed from.       *)
(* Frames are sessions' business elsewhere (Delivery, Clarification): what *)
(* matters here is that each of them renews the lease first, so they are   *)
(* all one kind of frame.                                                  *)
(***************************************************************************)
EXTENDS Naturals, FiniteSets, Sequences

CONSTANTS
    Requests,        \* setup requests, and the registrations claimed from them
    Users,           \* accounts that may approve
    PendingLimit,    \* DAEMON_SETUP_PENDING_LIMIT, for the one network of the model
    MaxConnections,  \* bound: connections of all daemons together
    MaxFailures      \* bound: server restarts, failed queries and lost answers

ASSUME RegistryAssumption ==
    /\ IsFiniteSet(Requests) /\ Requests # {}
    /\ PendingLimit \in Nat \ {0}
    /\ MaxConnections \in Nat
    /\ MaxFailures \in Nat

VARIABLES
    setup,         \* [Requests -> row of daemon_setup_requests, with `told`, a history:
                   \*  the accounts that were answered that they had approved it]
    registration,  \* [Requests -> row of daemon_registrations]
    daemon,        \* [Requests -> the program on the daemon's host]
    conns,         \* [Connections -> socket, channels and server task of a connection]
    live,          \* [Requests -> entry of the server's live map]
    closing,       \* revocations committed whose close_daemon is still to run
    failures       \* failures so far

vars == <<setup, registration, daemon, conns, live, closing, failures>>
-----------------------------------------------------------------------------
Connections == 1..MaxConnections
NoConnection == 0
NoUser == "no user"

SetupStates == {"none", "pending", "approved", "claimed", "deleted"}
Ages == {"valid", "expired", "old"}
DaemonStates == {"new", "polling", "failed", "offline", "waiting", "active", "stopped"}
TaskStates == {"none", "hello", "leased", "evicting", "welcoming", "marking", "serving",
               "leaving", "releasing", "ended", "unreleased"}
Frames == {"welcome", "access_revoked", "identity_mismatch", "revoked_credential"}

NoRegistration == [exists |-> FALSE, owner |-> NoUser, revoked |-> FALSE,
                   lease |-> NoConnection]
NoEntry == [conn |-> NoConnection, ready |-> FALSE]
NoTask == [daemon |-> CHOOSE r \in Requests : TRUE, task |-> "none", open |-> FALSE,
           out |-> << >>, inbox |-> 0, close |-> FALSE, old |-> NoConnection]

\* The connection has a server task that has not returned.
Alive(c) == conns[c].task \notin {"none", "ended", "unreleased"}

NewSetup(state) == [state |-> state, by |-> NoUser, age |-> "valid", told |-> {}]

Init ==
    /\ setup = [r \in Requests |-> NewSetup("none")]
    /\ registration = [r \in Requests |-> NoRegistration]
    /\ daemon = [r \in Requests |-> [state |-> "new", conn |-> NoConnection]]
    /\ conns = [c \in Connections |-> NoTask]
    /\ live = [r \in Requests |-> NoEntry]
    /\ closing = {}
    /\ failures = 0

Fail == failures < MaxFailures /\ failures' = failures + 1
-----------------------------------------------------------------------------
(* Setup.                                                                  *)

\* cleanup_expired_daemon_setup_requests, which create and claim call first.
Swept == [r \in Requests |->
            IF setup[r].age = "old" THEN [setup[r] EXCEPT !.state = "deleted"] ELSE setup[r]]

Pending == {r \in Requests : setup[r].state \in {"pending", "approved"} /\ setup[r].age = "valid"}

\* request_setup and create_daemon_setup_request, with "others" unclaimed requests
\* of further hosts in the same network; over the limit the program on the
\* daemon's host reports the error and ends.
RequestSetup(r, others) ==
    /\ daemon[r].state = "new"
    /\ IF Cardinality(Pending) + others < PendingLimit
       THEN /\ setup' = [Swept EXCEPT ![r] = NewSetup("pending")]
            /\ daemon' = [daemon EXCEPT ![r].state = "polling"]
       ELSE /\ setup' = Swept
            /\ daemon' = [daemon EXCEPT ![r].state = "failed"]
    /\ UNCHANGED <<registration, conns, live, closing, failures>>

Approve(r, u) == [setup[r] EXCEPT !.state = "approved", !.by = u, !.told = @ \cup {u}]

ReapproveSetup(r, u) ==  \* mutant: the guard approved_at IS NULL is gone
    /\ setup[r].state \in {"pending", "approved"}
    /\ setup[r].age = "valid"
    /\ setup' = [setup EXCEPT ![r] = Approve(r, u)]
    /\ UNCHANGED <<registration, daemon, conns, live, closing, failures>>

\* approve_setup by a signed-in user, who is told that it succeeded; a request that
\* is approved, claimed or expired answers with an error.
ApproveSetup(r, u) ==
    /\ setup[r].state = "pending"
    /\ setup[r].age = "valid"
    /\ setup' = [setup EXCEPT ![r] = Approve(r, u)]
    /\ UNCHANGED <<registration, daemon, conns, live, closing, failures>>

ClaimByRequest(r) ==  \* mutant: the id of the request is written as the owner
    /\ setup' = [Swept EXCEPT ![r].state = "claimed"]
    /\ registration' = [registration EXCEPT ![r].exists = TRUE, ![r].owner = r]

\* claim_daemon_setup_request: the row is claimed and the registration inserted.
Claim(r) ==
    /\ setup' = [Swept EXCEPT ![r].state = "claimed"]
    /\ registration' = [registration EXCEPT ![r].exists = TRUE, ![r].owner = setup[r].by]

\* poll_setup answers with the credential, which the daemon stores.
PollClaims(r) ==
    /\ daemon[r].state = "polling"
    /\ setup[r].state = "approved" /\ setup[r].age = "valid"
    /\ Claim(r)
    /\ daemon' = [daemon EXCEPT ![r].state = "offline"]
    /\ UNCHANGED <<conns, live, closing, failures>>

\* The claim commits and its answer does not arrive: curl's failure is retryable.
PollAnswerLost(r) ==
    /\ daemon[r].state = "polling"
    /\ setup[r].state = "approved" /\ setup[r].age = "valid"
    /\ Fail
    /\ Claim(r)
    /\ UNCHANGED <<daemon, conns, live, closing>>

\* Not found, already claimed or expired: a terminal answer.  (A pending request
\* answers 202 and the daemon waits.)
PollRefused(r) ==
    /\ daemon[r].state = "polling"
    /\ \/ Swept[r].state \in {"claimed", "deleted"}
       \/ setup[r].age # "valid"
    /\ setup' = Swept
    /\ daemon' = [daemon EXCEPT ![r].state = "failed"]
    /\ UNCHANGED <<registration, conns, live, closing, failures>>

\* Ten minutes after the request, and a day after that.  (The age of a claimed row
\* changes no answer: it is refused as claimed before, and not found after.)
SetupAges(r) ==
    /\ setup[r].state \in {"pending", "approved"}
    /\ setup[r].age # "old"
    /\ setup' = [setup EXCEPT ![r].age = IF @ = "valid" THEN "expired" ELSE "old"]
    /\ UNCHANGED <<registration, daemon, conns, live, closing, failures>>
-----------------------------------------------------------------------------
(* The server's connection task: handle_connection, serve_authenticated.   *)

\* A frame reaches a daemon that still has the socket open.
SendTo(t, frame) == IF t.open THEN [t EXCEPT !.out = Append(@, frame)] ELSE t
Task(c, state) == conns' = [conns EXCEPT ![c].task = state]

\* connect_daemon refuses a revoked daemon with a protocol error.
RefuseConnection(c) ==
    LET d == conns[c].daemon IN
    /\ conns[c].task = "hello"
    /\ registration[d].revoked
    /\ conns' = [conns EXCEPT ![c] = [SendTo(@, "revoked_credential") EXCEPT !.task = "ended"]]
    /\ UNCHANGED <<setup, registration, daemon, live, closing, failures>>

\* connect_daemon commits the new lease, over whatever lease there was.
ConnectDaemon(c) ==
    LET d == conns[c].daemon IN
    /\ conns[c].task = "hello"
    /\ ~registration[d].revoked
    /\ registration' = [registration EXCEPT ![d].lease = c]
    /\ Task(c, "leased")
    /\ UNCHANGED <<setup, daemon, live, closing, failures>>

\* The insertion into the live map; the entry it replaces is closed next.
EnterLive(c) ==
    LET d == conns[c].daemon
        old == live[d].conn
    IN
    /\ conns[c].task = "leased"
    /\ live' = [live EXCEPT ![d] = [conn |-> c, ready |-> FALSE]]
    /\ conns' = [conns EXCEPT ![c].task = IF old = NoConnection THEN "welcoming" ELSE "evicting",
                              ![c].old = old]
    /\ UNCHANGED <<setup, registration, daemon, closing, failures>>

\* The close channel holds one message, and a receiver that is gone takes none.
CloseHasRoom(c) == ~Alive(c) \/ ~conns[c].close
CloseSent(cs, c) == IF Alive(c) THEN [cs EXCEPT ![c].close = TRUE] ELSE cs

SendClose(c) ==
    LET old == conns[c].old IN
    /\ conns[c].task = "evicting"
    /\ CloseHasRoom(old)
    /\ conns' = [CloseSent(conns, old) EXCEPT ![c].task = "welcoming", ![c].old = NoConnection]
    /\ UNCHANGED <<setup, registration, daemon, live, closing, failures>>

\* Welcome, snapshot and pending commands; the send fails once the socket's
\* task is gone.
SendWelcome(c) ==
    /\ conns[c].task = "welcoming"
    /\ \/ conns' = [conns EXCEPT ![c] = [SendTo(@, "welcome") EXCEPT !.task = "marking"]]
       \/ ~conns[c].open /\ Task(c, "leaving")
    /\ UNCHANGED <<setup, registration, daemon, live, closing, failures>>

\* mark_live_ready
MarkLiveReady(c) ==
    LET d == conns[c].daemon IN
    /\ conns[c].task = "marking"
    /\ live' = IF live[d].conn = c THEN [live EXCEPT ![d].ready = TRUE] ELSE live
    /\ Task(c, "serving")
    /\ UNCHANGED <<setup, registration, daemon, closing, failures>>

\* close.recv(): the daemon is told that its credential is revoked.
ServeClose(c) ==
    /\ conns[c].task = "serving"
    /\ conns[c].close
    /\ conns' = [conns EXCEPT ![c] = [SendTo(@, "access_revoked") EXCEPT
                                        !.task = "leaving", !.close = FALSE]]
    /\ UNCHANGED <<setup, registration, daemon, live, closing, failures>>

TouchesAnyRow(c) == registration[conns[c].daemon].exists  \* mutant: only daemon_id = $1 is left

\* touch_daemon's WHERE clause.
Touches(c) ==
    /\ registration[conns[c].daemon].lease = c
    /\ ~registration[conns[c].daemon].revoked

\* A heartbeat, an event or an acknowledgement: touch_daemon comes first.
ServeFrame(c) ==
    /\ conns[c].task = "serving"
    /\ conns[c].inbox > 0
    /\ IF Touches(c)
       THEN conns' = [conns EXCEPT ![c].inbox = @ - 1]
       ELSE conns' = [conns EXCEPT ![c] = [SendTo(conns[c], "identity_mismatch") EXCEPT
                                             !.task = "leaving", !.inbox = @ - 1]]
    /\ UNCHANGED <<setup, registration, daemon, live, closing, failures>>

\* The inbound channel ends after its last frame.
ServeEnd(c) ==
    /\ conns[c].task = "serving"
    /\ ~conns[c].open /\ conns[c].inbox = 0
    /\ Task(c, "leaving")
    /\ UNCHANGED <<setup, registration, daemon, live, closing, failures>>

\* A query fails: the connection is closed and nothing is said.
QueryFails(c) ==
    /\ \/ conns[c].task = "hello" /\ Task(c, "ended")
       \/ conns[c].task \in {"welcoming", "serving"} /\ Task(c, "leaving")
    /\ Fail
    /\ UNCHANGED <<setup, registration, daemon, live, closing>>

\* The task takes its own entry out of the live map, if it is still its own.
LeaveLive(c) ==
    LET d == conns[c].daemon IN
    /\ conns[c].task = "leaving"
    /\ live' = IF live[d].conn = c THEN [live EXCEPT ![d] = NoEntry] ELSE live
    /\ Task(c, "releasing")
    /\ UNCHANGED <<setup, registration, daemon, closing, failures>>

\* disconnect_daemon, of its own lease only.
DisconnectDaemon(c) ==
    LET d == conns[c].daemon IN
    /\ conns[c].task = "releasing"
    /\ registration' = IF registration[d].lease = c
                       THEN [registration EXCEPT ![d].lease = NoConnection] ELSE registration
    /\ Task(c, "ended")
    /\ UNCHANGED <<setup, daemon, live, closing, failures>>

\* The result of disconnect_daemon is ignored: after a failure the lease stays.
DisconnectFails(c) ==
    /\ conns[c].task = "releasing"
    /\ Task(c, "unreleased")
    /\ Fail
    /\ UNCHANGED <<setup, registration, daemon, live, closing>>

\* invalidate_daemon_connections, run by the next process before it serves.
ServerRestart ==
    /\ Fail
    /\ conns' = [c \in Connections |->
                   IF Alive(c) THEN [conns[c] EXCEPT !.task = "ended", !.inbox = 0,
                                                     !.close = FALSE, !.old = NoConnection]
                   ELSE conns[c]]
    /\ live' = [r \in Requests |-> NoEntry]
    /\ closing' = {}
    /\ registration' = [r \in Requests |-> [registration[r] EXCEPT !.lease = NoConnection]]
    /\ UNCHANGED <<setup, daemon>>
-----------------------------------------------------------------------------
(* Revocation.                                                             *)

\* revoke_daemon by the owner or an administrator: the row, and the connection
\* that held the lease.
RevokeDaemon(r) ==
    /\ registration[r].exists
    /\ registration' = [registration EXCEPT ![r].revoked = TRUE, ![r].lease = NoConnection]
    /\ closing' = closing \cup {[daemon |-> r, conn |-> c] : c \in {registration[r].lease} \ {NoConnection}}
    /\ UNCHANGED <<setup, daemon, conns, live, failures>>

CloseWithoutRemoving(x) ==  \* mutant: the entry stays in the live map
    /\ x \in closing
    /\ closing' = closing \ {x}
    /\ conns' = IF live[x.daemon].conn = x.conn THEN CloseSent(conns, x.conn) ELSE conns
    /\ UNCHANGED <<setup, registration, daemon, live, failures>>

\* close_daemon: the entry leaves the map and its task is told, if the entry is
\* the connection that held the lease.
CloseDaemon(x) ==
    LET entry == live[x.daemon] IN
    /\ x \in closing
    /\ entry.conn = x.conn => CloseHasRoom(x.conn)
    /\ closing' = closing \ {x}
    /\ IF entry.conn = x.conn
       THEN /\ live' = [live EXCEPT ![x.daemon] = NoEntry]
            /\ conns' = CloseSent(conns, x.conn)
       ELSE UNCHANGED <<live, conns>>
    /\ UNCHANGED <<setup, registration, daemon, failures>>

-----------------------------------------------------------------------------
(* The daemon: ConnectionSupervisor and the heartbeat task.                *)

\* connect_once: the socket opens, hello is sent, the server admits it.
Dial(r) ==
    /\ daemon[r].state = "offline"
    /\ \E c \in Connections :
          /\ conns[c].task = "none"
          /\ \A b \in Connections : b < c => conns[b].task # "none"
          /\ conns' = [conns EXCEPT ![c] = [NoTask EXCEPT !.daemon = r, !.task = "hello", !.open = TRUE]]
          /\ daemon' = [daemon EXCEPT ![r] = [state |-> "waiting", conn |-> c]]
    /\ UNCHANGED <<setup, registration, live, closing, failures>>

\* The server sees the end of the socket at once.  A half-open peer, whose end
\* never reaches the server, is left out: the server's read loop has no timeout,
\* so the task of such a connection would stay.
HangUp(r, state) ==
    /\ daemon' = [daemon EXCEPT ![r] = [state |-> state, conn |-> NoConnection]]
    /\ conns' = [conns EXCEPT ![daemon[r].conn] = [@ EXCEPT !.open = FALSE, !.out = << >>]]

\* Welcome and snapshot make the connection active; a protocol error is
\* FailureClass::Terminal, in every phase, and the supervisor gives up.
ReadFrame(r) ==
    LET c == daemon[r].conn IN
    /\ daemon[r].state \in {"waiting", "active"}
    /\ conns[c].out # << >>
    /\ IF Head(conns[c].out) = "welcome"
       THEN /\ daemon' = [daemon EXCEPT ![r].state = "active"]
            /\ conns' = [conns EXCEPT ![c].out = Tail(@)]
       ELSE HangUp(r, "stopped")
    /\ UNCHANGED <<setup, registration, live, closing, failures>>

\* A timeout of the handshake, a broken socket, or the end of the stream:
\* FailureClass::Retryable, so the supervisor backs off and dials again.
LoseConnection(r) ==
    /\ daemon[r].state \in {"waiting", "active"}
    /\ HangUp(r, "offline")
    /\ UNCHANGED <<setup, registration, live, closing, failures>>

\* The heartbeat task, every fifteen seconds; one frame under way at a time.
SendHeartbeat(r) ==
    LET c == daemon[r].conn IN
    /\ daemon[r].state = "active"
    /\ conns[c].inbox = 0 /\ Alive(c)
    /\ conns' = [conns EXCEPT ![c].inbox = 1]
    /\ UNCHANGED <<setup, registration, daemon, live, closing, failures>>
-----------------------------------------------------------------------------
Steps(c) ==
    \/ RefuseConnection(c) \/ ConnectDaemon(c) \/ EnterLive(c) \/ SendClose(c)
    \/ SendWelcome(c) \/ MarkLiveReady(c) \/ ServeClose(c) \/ ServeFrame(c) \/ ServeEnd(c)
    \/ LeaveLive(c) \/ DisconnectDaemon(c)

Next ==
    \/ \E r \in Requests :
         \/ \E others \in 0..PendingLimit : RequestSetup(r, others)
         \/ PollClaims(r) \/ PollAnswerLost(r) \/ PollRefused(r)
         \/ SetupAges(r) \/ RevokeDaemon(r) \/ Dial(r)
         \/ ReadFrame(r) \/ LoseConnection(r) \/ SendHeartbeat(r)
         \/ \E u \in Users : ApproveSetup(r, u)
    \/ \E c \in Connections : Steps(c) \/ QueryFails(c) \/ DisconnectFails(c)
    \/ \E x \in closing : CloseDaemon(x)
    \/ ServerRestart

Spec == Init /\ [][Next]_vars

\* The tasks of a running server go on, the daemon reads its socket and sends its
\* heartbeats.  Nobody has to approve, dial, revoke or fail.
FairSpec ==
    /\ Spec
    /\ \A c \in Connections : WF_vars(Steps(c))
    /\ \A r \in Requests :
         /\ WF_vars(ReadFrame(r)) /\ WF_vars(SendHeartbeat(r))
         /\ WF_vars(\E c \in Connections : CloseDaemon([daemon |-> r, conn |-> c]))
-----------------------------------------------------------------------------
TypeOK ==
    /\ setup \in [Requests -> [state : SetupStates, by : Users \cup {NoUser}, age : Ages,
                              told : SUBSET Users]]
    /\ registration \in [Requests -> [exists : BOOLEAN, owner : Users \cup {NoUser},
                                      revoked : BOOLEAN, lease : Connections \cup {NoConnection}]]
    /\ daemon \in [Requests -> [state : DaemonStates, conn : Connections \cup {NoConnection}]]
    /\ \A c \in Connections :
          /\ conns[c].daemon \in Requests /\ conns[c].task \in TaskStates
          /\ conns[c].open \in BOOLEAN /\ conns[c].close \in BOOLEAN
          /\ \A i \in DOMAIN conns[c].out : conns[c].out[i] \in Frames
          /\ conns[c].inbox \in 0..1 /\ conns[c].old \in Connections \cup {NoConnection}
    /\ live \in [Requests -> [conn : Connections \cup {NoConnection}, ready : BOOLEAN]]
    /\ closing \subseteq [daemon : Requests, conn : Connections]
    /\ failures \in 0..MaxFailures

\* A registration belongs to the one account that was ever told that its approval
\* succeeded (approve_daemon_setup_request, claim_daemon_setup_request), however the
\* approvals of several accounts, polls, lost answers and expiry fall: no later
\* approval takes over a daemon that somebody else has approved.  And a daemon that
\* holds a credential holds one of a registration that exists.
ClaimedByApprover ==
    \A r \in Requests :
       /\ setup[r].state = "claimed" => registration[r].exists
       /\ registration[r].exists => setup[r].told = {registration[r].owner}
       /\ daemon[r].state \in {"offline", "waiting", "active", "stopped"} =>
             registration[r].exists

\* An entry of the live map belongs to a task of that daemon that is still there
\* to take it out, and is marked ready only once its backlog was sent.
LiveHasATask ==
    \A r \in Requests : LET c == live[r].conn IN
       c # NoConnection =>
          /\ conns[c].daemon = r
          /\ conns[c].task \in {"evicting", "welcoming", "marking", "serving", "leaving"}
          /\ live[r].ready => conns[c].task \in {"serving", "leaving"}

\* A lease is held by a connection whose task is running, or whose release failed
\* in the database.
LeaseHasATask ==
    \A r \in Requests : LET c == registration[r].lease IN
       c # NoConnection => conns[c].daemon = r /\ conns[c].task \notin {"none", "hello", "ended"}

\* Neither record of a connection outlives it (handle_connection), whatever order
\* connecting, replacing, revoking and leaving fall in: dispatch never writes to a
\* channel that nobody empties, and no daemon counts as connected through a task
\* that returned.
RecordsHaveATask == LiveHasATask /\ LeaseHasATask

\* The close channel of a connection holds one message and its sender waits for
\* room: whoever is about to send finds it empty, because an entry is taken out
\* of the live map, by close_daemon or by its successor, once.
CloseNeverBlocks ==
    /\ \A c \in Connections : conns[c].task = "evicting" => CloseHasRoom(conns[c].old)
    /\ \A x \in closing : live[x.daemon].conn = x.conn => CloseHasRoom(x.conn)

\* The server's bookkeeping of connections is sound, so that no task waits for one
\* that has returned.
ConnectionsAreTracked == RecordsHaveATask /\ CloseNeverBlocks

\* Access ends with the lease (revoke_daemon, close_daemon, touch_daemon): every
\* connection of a revoked daemon ends, and every one that lost its lease to
\* another connection; also the one that slipped in between the commit of its
\* lease and its entry in the live map.
CutWithoutLease ==
    \A c \in Connections : LET row == registration[conns[c].daemon] IN
       (Alive(c) /\ (row.revoked \/ (conns[c].task # "hello" /\ row.lease # c))) ~> ~Alive(c)
=============================================================================
