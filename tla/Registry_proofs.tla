-------------------------- MODULE Registry_proofs --------------------------
(***************************************************************************)
(* Proofs about Registry, for any number of daemons, users and connections *)
(* and any number of failures.                                             *)
(***************************************************************************)
EXTENDS Registry, SequenceTheorems, TLAPS

-----------------------------------------------------------------------------
(* Types.                                                                  *)

Setup == [state : SetupStates, by : Users \cup {NoUser}, age : Ages, told : SUBSET Users]
Registration == [exists : BOOLEAN, owner : Users \cup {NoUser}, revoked : BOOLEAN,
                 lease : Connections \cup {NoConnection}]
Daemon == [state : DaemonStates, conn : Connections \cup {NoConnection}]
Connection == [daemon : Requests, task : TaskStates, open : BOOLEAN, out : Seq(Frames),
               inbox : 0..1, close : BOOLEAN, old : Connections \cup {NoConnection}]
Entry == [conn : Connections \cup {NoConnection}, ready : BOOLEAN]

\* TypeOK with the whole of a connection's record, which a step that changes one
\* of its fields needs.
Types ==
    /\ setup \in [Requests -> Setup]
    /\ registration \in [Requests -> Registration]
    /\ daemon \in [Requests -> Daemon]
    /\ conns \in [Connections -> Connection]
    /\ live \in [Requests -> Entry]
    /\ closing \subseteq [daemon : Requests, conn : Connections]
    /\ failures \in 0..MaxFailures

LEMMA NoConnectionIsNone == NoConnection \notin Connections
BY RegistryAssumption DEF RegistryAssumption, NoConnection, Connections

LEMMA NoTaskType == NoTask \in Connection /\ NoTask.task = "none" /\ ~NoTask.close
<1>1. (CHOOSE r \in Requests : TRUE) \in Requests
  BY RegistryAssumption DEF RegistryAssumption
<1>2. << >> \in Seq(Frames) /\ "none" \in TaskStates
  BY DEF TaskStates
<1> QED
  BY <1>1, <1>2 DEF NoTask, Connection

\* The fields of a connection, typed.
LEMMA ConnectionFields ==
    ASSUME NEW t \in Connection
    PROVE  /\ t.daemon \in Requests /\ t.task \in TaskStates
           /\ t.open \in BOOLEAN /\ t.out \in Seq(Frames)
           /\ t.inbox \in 0..1 /\ t.close \in BOOLEAN
           /\ t.old \in Connections \cup {NoConnection}
BY DEF Connection

\* A frame is sent: only the socket's queue can change.
LEMMA SendToType ==
    ASSUME NEW t \in Connection, NEW f \in Frames
    PROVE  /\ SendTo(t, f) \in Connection
           /\ SendTo(t, f).daemon = t.daemon /\ SendTo(t, f).task = t.task
           /\ SendTo(t, f).old = t.old /\ SendTo(t, f).close = t.close
           /\ SendTo(t, f).inbox = t.inbox
<1>1. Append(t.out, f) \in Seq(Frames)
  BY ConnectionFields
<1> QED
  BY <1>1 DEF SendTo, Connection

\* The sweep deletes rows and changes nothing else.
LEMMA SweptType ==
    ASSUME Types
    PROVE  /\ Swept \in [Requests -> Setup]
           /\ \A r \in Requests :
                /\ Swept[r].by = setup[r].by /\ Swept[r].age = setup[r].age
                /\ Swept[r].told = setup[r].told
                /\ Swept[r].state = setup[r].state \/ Swept[r].state = "deleted"
                /\ setup[r].age # "old" => Swept[r] = setup[r]
<1>1. ASSUME NEW r \in Requests
      PROVE  /\ Swept[r] \in Setup
             /\ Swept[r].by = setup[r].by /\ Swept[r].age = setup[r].age
                /\ Swept[r].told = setup[r].told
             /\ Swept[r].state = setup[r].state \/ Swept[r].state = "deleted"
             /\ setup[r].age # "old" => Swept[r] = setup[r]
  BY DEF Swept, Types, Setup, SetupStates
<1>2. Swept = [r \in Requests |-> Swept[r]]
  BY DEF Swept
<1> QED
  BY <1>1, <1>2

LEMMA FailType ==
    ASSUME failures \in 0..MaxFailures, Fail
    PROVE  failures' \in 0..MaxFailures
BY RegistryAssumption DEF RegistryAssumption, Fail

LEMMA TypesInit == Init => Types
<1> SUFFICES ASSUME Init PROVE Types
  OBVIOUS
<1>1. NewSetup("none") \in Setup
  BY DEF NewSetup, Setup, SetupStates, Ages
<1>2. NoRegistration \in Registration
  BY DEF NoRegistration, Registration
<1>3. [state |-> "new", conn |-> NoConnection] \in Daemon
  BY DEF Daemon, DaemonStates
<1>4. NoEntry \in Entry
  BY DEF NoEntry, Entry
<1> QED
  BY <1>1, <1>2, <1>3, <1>4, NoTaskType, RegistryAssumption
  DEF RegistryAssumption, Init, Types
-----------------------------------------------------------------------------
(* What the steps do to the connections: one lemma for all later proofs.   *)

\* The part of a connection that the server's bookkeeping is about.
Same(c) ==
    /\ conns'[c].daemon = conns[c].daemon /\ conns'[c].task = conns[c].task
    /\ conns'[c].old = conns[c].old /\ conns'[c].close = conns[c].close
Others(c) == \A b \in Connections \ {c} : Same(b)

\* Steps of a task that neither enters nor leaves the records.
Moves == {<<"hello", "ended">>, <<"welcoming", "marking">>, <<"welcoming", "leaving">>,
          <<"serving", "leaving">>, <<"serving", "serving">>, <<"releasing", "unreleased">>}
Moved(c) ==
    /\ Others(c)
    /\ conns'[c].daemon = conns[c].daemon
    /\ conns'[c].old = conns[c].old
    /\ conns'[c].close => conns[c].close
    /\ <<conns[c].task, conns'[c].task>> \in Moves

\* A task passes to another state, and nothing else of its connection changes.
LEMMA TaskType ==
    ASSUME Types, NEW c \in Connections, NEW state \in TaskStates, Task(c, state)
    PROVE  /\ conns' \in [Connections -> Connection]
           /\ Others(c)
           /\ conns'[c].daemon = conns[c].daemon /\ conns'[c].old = conns[c].old
           /\ conns'[c].close = conns[c].close /\ conns'[c].task = state
<1>1. [conns[c] EXCEPT !.task = state] \in Connection
  BY DEF Types, Connection
<1> QED
  BY <1>1 DEF Types, Task, Others, Same, Connection

LEMMA MovedSteps ==
    ASSUME Types, NEW c \in Connections,
           \/ RefuseConnection(c) \/ SendWelcome(c) \/ ServeClose(c) \/ ServeFrame(c)
           \/ ServeEnd(c) \/ QueryFails(c) \/ DisconnectFails(c)
    PROVE  /\ conns' \in [Connections -> Connection]
           /\ Moved(c)
           /\ UNCHANGED <<setup, registration, daemon, live, closing>>
           /\ failures' \in 0..MaxFailures
<1>a. conns[c] \in Connection /\ conns \in [Connections -> Connection] /\ failures \in 0..MaxFailures
  BY DEF Types
<1>b. {"ended", "marking", "leaving", "unreleased"} \subseteq TaskStates
  BY DEF TaskStates
<1>c. {"welcome", "access_revoked", "identity_mismatch", "revoked_credential"} \subseteq Frames
  BY DEF Frames
<1>1. ASSUME NEW new \in Connection, conns' = [conns EXCEPT ![c] = new],
             new.daemon = conns[c].daemon, new.old = conns[c].old,
             new.close => conns[c].close, <<conns[c].task, new.task>> \in Moves
      PROVE  conns' \in [Connections -> Connection] /\ Moved(c)
  BY <1>1, <1>a DEF Moved, Others, Same
<1>2. ASSUME NEW state \in TaskStates, Task(c, state), <<conns[c].task, state>> \in Moves
      PROVE  conns' \in [Connections -> Connection] /\ Moved(c)
  BY <1>2, TaskType DEF Moved
<1>3. CASE RefuseConnection(c)
  <2> DEFINE sent == SendTo(conns[c], "revoked_credential")
             new == [sent EXCEPT !.task = "ended"]
  <2>1. conns[c].task = "hello" /\ conns' = [conns EXCEPT ![c] = new]
    BY <1>3 DEF RefuseConnection
  <2>2. /\ new \in Connection /\ new.daemon = conns[c].daemon /\ new.old = conns[c].old
        /\ new.close = conns[c].close /\ new.task = "ended"
    BY <1>a, <1>b, <1>c, SendToType DEF Connection
  <2> HIDE DEF new
  <2>3. <<conns[c].task, new.task>> \in Moves
    BY <2>1, <2>2 DEF Moves
  <2> QED
    BY <1>1, <1>3, <1>a, <2>1, <2>2, <2>3 DEF RefuseConnection
<1>4. CASE SendWelcome(c)
  <2> DEFINE sent == SendTo(conns[c], "welcome")
             new == [sent EXCEPT !.task = "marking"]
  <2>1. conns[c].task = "welcoming" /\ (conns' = [conns EXCEPT ![c] = new] \/ Task(c, "leaving"))
    BY <1>4 DEF SendWelcome
  <2>2. /\ new \in Connection /\ new.daemon = conns[c].daemon /\ new.old = conns[c].old
        /\ new.close = conns[c].close /\ new.task = "marking"
    BY <1>a, <1>b, <1>c, SendToType DEF Connection
  <2> HIDE DEF new
  <2>3. <<conns[c].task, new.task>> \in Moves /\ <<conns[c].task, "leaving">> \in Moves
    BY <2>1, <2>2 DEF Moves
  <2> QED
    BY <1>1, <1>2, <1>4, <1>a, <1>b, <2>1, <2>2, <2>3 DEF SendWelcome
<1>5. CASE ServeClose(c)
  <2> DEFINE sent == SendTo(conns[c], "access_revoked")
             new == [sent EXCEPT !.task = "leaving", !.close = FALSE]
  <2>1. conns[c].task = "serving" /\ conns' = [conns EXCEPT ![c] = new]
    BY <1>5 DEF ServeClose
  <2>2. /\ new \in Connection /\ new.daemon = conns[c].daemon /\ new.old = conns[c].old
        /\ ~new.close /\ new.task = "leaving"
    BY <1>a, <1>b, <1>c, SendToType DEF Connection
  <2> HIDE DEF new
  <2>3. <<conns[c].task, new.task>> \in Moves
    BY <2>1, <2>2 DEF Moves
  <2> QED
    BY <1>1, <1>5, <1>a, <2>1, <2>2, <2>3 DEF ServeClose
<1>6. CASE ServeFrame(c)
  <2> DEFINE sent == SendTo(conns[c], "identity_mismatch")
             refused == [sent EXCEPT !.task = "leaving", !.inbox = @ - 1]
             taken == [conns[c] EXCEPT !.inbox = @ - 1]
  <2>1. /\ conns[c].task = "serving" /\ conns[c].inbox > 0
        /\ conns' = [conns EXCEPT ![c] = taken] \/ conns' = [conns EXCEPT ![c] = refused]
    <3>1. CASE Touches(c)
      BY <1>6, <3>1 DEF ServeFrame
    <3>2. CASE ~Touches(c)
      BY <1>6, <3>2 DEF ServeFrame
    <3> QED
      BY <3>1, <3>2
  <2>2. conns[c].inbox - 1 \in 0..1
    BY <1>a, <2>1, ConnectionFields
  <2>3. /\ taken \in Connection /\ taken.daemon = conns[c].daemon /\ taken.old = conns[c].old
        /\ taken.close = conns[c].close /\ taken.task = "serving"
    BY <1>a, <2>1, <2>2 DEF Connection
  <2>4. /\ refused \in Connection /\ refused.daemon = conns[c].daemon /\ refused.old = conns[c].old
        /\ refused.close = conns[c].close /\ refused.task = "leaving"
    <3>1. sent \in Connection /\ sent.inbox = conns[c].inbox
      BY <1>a, <1>c, SendToType
    <3>2. /\ sent.daemon = conns[c].daemon /\ sent.old = conns[c].old
          /\ sent.close = conns[c].close
      BY <1>a, <1>c, SendToType
    <3> HIDE DEF sent
    <3> QED
      BY <1>b, <2>2, <3>1, <3>2 DEF Connection
  <2> HIDE DEF taken, refused
  <2>5. <<conns[c].task, taken.task>> \in Moves /\ <<conns[c].task, refused.task>> \in Moves
    BY <2>1, <2>3, <2>4 DEF Moves
  <2> QED
    BY <1>1, <1>6, <1>a, <2>1, <2>3, <2>4, <2>5 DEF ServeFrame
<1>7. CASE ServeEnd(c)
  <2>1. <<conns[c].task, "leaving">> \in Moves
    BY <1>7 DEF ServeEnd, Moves
  <2> QED
    BY <1>2, <1>7, <1>a, <1>b, <2>1 DEF ServeEnd
<1>8. CASE QueryFails(c)
  <2>1. \/ Task(c, "ended") /\ <<conns[c].task, "ended">> \in Moves
        \/ Task(c, "leaving") /\ <<conns[c].task, "leaving">> \in Moves
    BY <1>8 DEF QueryFails, Moves
  <2> QED
    BY <1>2, <1>8, <1>a, <1>b, <2>1, FailType DEF QueryFails
<1>9. CASE DisconnectFails(c)
  <2>1. Task(c, "unreleased") /\ <<conns[c].task, "unreleased">> \in Moves
    BY <1>9 DEF DisconnectFails, Moves
  <2> QED
    BY <1>2, <1>9, <1>a, <1>b, <2>1, FailType DEF DisconnectFails
<1> QED
  BY <1>3, <1>4, <1>5, <1>6, <1>7, <1>8, <1>9

\* The daemon's side of a connection changes only what is on the wire.
LEMMA SocketSteps ==
    ASSUME Types, NEW r \in Requests, ReadFrame(r) \/ LoseConnection(r) \/ SendHeartbeat(r)
    PROVE  /\ conns' \in [Connections -> Connection]
           /\ \A b \in Connections : Same(b)
           /\ daemon' \in [Requests -> Daemon]
           /\ \A q \in Requests \ {r} : daemon'[q] = daemon[q]
           /\ daemon[r].state \in {"waiting", "active"}
           /\ daemon'[r].state \in {"offline", "active", "stopped"}
           /\ UNCHANGED <<setup, registration, live, closing, failures>>
<1> DEFINE c == daemon[r].conn
<1>a. conns \in [Connections -> Connection] /\ daemon \in [Requests -> Daemon]
  BY DEF Types
<1>b. daemon[r] \in Daemon /\ NoConnection \in Connections \cup {NoConnection}
  BY <1>a
<1>1. ASSUME NEW new, conns' = [conns EXCEPT ![c] = new],
             c \in Connections =>
                /\ new \in Connection
                /\ new.daemon = conns[c].daemon /\ new.task = conns[c].task
                /\ new.old = conns[c].old /\ new.close = conns[c].close
      PROVE  conns' \in [Connections -> Connection] /\ \A b \in Connections : Same(b)
  BY <1>1, <1>a DEF Same
<1>2. ASSUME NEW state \in {"offline", "stopped"}, HangUp(r, state)
      PROVE  /\ conns' \in [Connections -> Connection] /\ \A b \in Connections : Same(b)
             /\ daemon' = [daemon EXCEPT ![r] = [state |-> state, conn |-> NoConnection]]
             /\ [state |-> state, conn |-> NoConnection] \in Daemon
  <2> DEFINE new == [conns[c] EXCEPT !.open = FALSE, !.out = << >>]
  <2>1. conns' = [conns EXCEPT ![c] = new]
    BY <1>2 DEF HangUp
  <2>2. c \in Connections =>
           /\ new \in Connection
           /\ new.daemon = conns[c].daemon /\ new.task = conns[c].task
           /\ new.old = conns[c].old /\ new.close = conns[c].close
    <3>1. << >> \in Seq(Frames)
      OBVIOUS
    <3> QED
      BY <1>a, <3>1 DEF Connection
  <2> HIDE DEF new
  <2>3. [state |-> state, conn |-> NoConnection] \in Daemon
    BY DEF Daemon, DaemonStates
  <2> QED
    BY <1>1, <1>2, <2>1, <2>2, <2>3 DEF HangUp
<1>3. CASE LoseConnection(r)
  BY <1>2, <1>3, <1>a DEF LoseConnection
<1>4. CASE SendHeartbeat(r)
  <2> DEFINE new == [conns[c] EXCEPT !.inbox = 1]
  <2>1. conns' = [conns EXCEPT ![c] = new]
    BY <1>4 DEF SendHeartbeat
  <2>2. c \in Connections =>
           /\ new \in Connection
           /\ new.daemon = conns[c].daemon /\ new.task = conns[c].task
           /\ new.old = conns[c].old /\ new.close = conns[c].close
    BY <1>a DEF Connection
  <2> HIDE DEF new
  <2> QED
    BY <1>1, <1>4, <1>a, <2>1, <2>2 DEF SendHeartbeat
<1>5. CASE ReadFrame(r)
  <2>1. daemon[r].state \in {"waiting", "active"} /\ conns[c].out # << >>
        /\ UNCHANGED <<setup, registration, live, closing, failures>>
    BY <1>5 DEF ReadFrame
  <2>2. CASE HangUp(r, "stopped")
    BY <1>2, <1>a, <2>1, <2>2
  <2>3. CASE ~HangUp(r, "stopped")
    <3> DEFINE new == [conns[c] EXCEPT !.out = Tail(@)]
    <3>1. conns' = [conns EXCEPT ![c] = new] /\ daemon' = [daemon EXCEPT ![r].state = "active"]
      BY <1>5, <2>3 DEF ReadFrame
    <3>2. c \in Connections =>
             /\ new \in Connection
             /\ new.daemon = conns[c].daemon /\ new.task = conns[c].task
             /\ new.old = conns[c].old /\ new.close = conns[c].close
      <4>1. c \in Connections => conns[c].out \in Seq(Frames)
        BY <1>a, ConnectionFields
      <4>2. c \in Connections => Tail(conns[c].out) \in Seq(Frames)
        BY <2>1, <4>1
      <4> QED
        BY <1>a, <4>2 DEF Connection
    <3> HIDE DEF new
    <3>3. [daemon[r] EXCEPT !.state = "active"] \in Daemon
      BY <1>b DEF Daemon, DaemonStates
    <3>4. daemon' \in [Requests -> Daemon] /\ daemon'[r].state = "active"
          /\ \A q \in Requests \ {r} : daemon'[q] = daemon[q]
      BY <1>a, <1>b, <3>1, <3>3 DEF Daemon
    <3> QED
      BY <1>1, <2>1, <3>1, <3>2, <3>4
  <2> QED
    BY <2>2, <2>3
<1> QED
  BY <1>3, <1>4, <1>5

\* A close message reaches a task that is running, and no other.
LEMMA CloseSentType ==
    ASSUME Types, NEW c \in Connections \cup {NoConnection}
    PROVE  LET cs == CloseSent(conns, c) IN
           /\ cs \in [Connections -> Connection]
           /\ \A b \in Connections :
                /\ cs[b].daemon = conns[b].daemon /\ cs[b].task = conns[b].task
                /\ cs[b].old = conns[b].old
                /\ cs[b].close = conns[b].close \/ (b = c /\ Alive(c) /\ cs[b].close)
<1>1. conns \in [Connections -> Connection]
  BY DEF Types
<1>2. CASE c \in Connections
  <2>1. [conns[c] EXCEPT !.close = TRUE] \in Connection
    BY <1>1, <1>2 DEF Connection
  <2> QED
    BY <1>1, <1>2, <2>1 DEF CloseSent, Connection
<1>3. CASE c \notin Connections
  BY <1>1, <1>3 DEF CloseSent
<1> QED
  BY <1>2, <1>3

LEMMA EnterLiveEffect ==
    ASSUME Types, NEW c \in Connections, EnterLive(c)
    PROVE  LET d == conns[c].daemon
               old == live[d].conn
           IN  /\ conns' \in [Connections -> Connection]
               /\ Others(c)
               /\ conns'[c].daemon = d /\ conns'[c].close = conns[c].close
               /\ conns'[c].old = old
               /\ conns[c].task = "leased"
               /\ conns'[c].task = IF old = NoConnection THEN "welcoming" ELSE "evicting"
               /\ d \in Requests /\ old \in Connections \cup {NoConnection}
               /\ live' = [live EXCEPT ![d] = [conn |-> c, ready |-> FALSE]]
               /\ live' \in [Requests -> Entry]
<1> DEFINE d == conns[c].daemon
           old == live[d].conn
           state == IF old = NoConnection THEN "welcoming" ELSE "evicting"
           new == [conns[c] EXCEPT !.task = state, !.old = old]
<1>1. conns \in [Connections -> Connection] /\ conns[c] \in Connection
  BY DEF Types
<1>2. d \in Requests /\ old \in Connections \cup {NoConnection}
  BY <1>1, ConnectionFields DEF Types, Entry
<1>3. state \in TaskStates
  BY DEF TaskStates
<1>4. /\ conns[c].task = "leased"
      /\ live' = [live EXCEPT ![d] = [conn |-> c, ready |-> FALSE]]
      /\ conns' = [conns EXCEPT ![c].task = state, ![c].old = old]
  BY DEF EnterLive
<1>5. live' \in [Requests -> Entry]
  BY <1>2, <1>4 DEF Types, Entry
<1> HIDE DEF state, old, d
<1>6. /\ new \in Connection /\ new.daemon = d /\ new.close = conns[c].close
      /\ new.old = old /\ new.task = state
  BY <1>1, <1>2, <1>3 DEF Connection, d
<1>7. conns' = [conns EXCEPT ![c] = new]
  BY <1>1, <1>4
<1> HIDE DEF new
<1>8. /\ conns' \in [Connections -> Connection] /\ conns'[c] = new /\ Others(c)
  BY <1>1, <1>6, <1>7 DEF Others, Same
<1> QED
  BY <1>2, <1>4, <1>5, <1>6, <1>8 DEF state, old, d

LEMMA SendCloseEffect ==
    ASSUME Types, NEW c \in Connections, SendClose(c)
    PROVE  LET old == conns[c].old IN
           /\ conns' \in [Connections -> Connection]
           /\ conns[c].task = "evicting" /\ conns'[c].task = "welcoming"
           /\ conns'[c].old = NoConnection
           /\ \A b \in Connections : conns'[b].daemon = conns[b].daemon
           /\ \A b \in Connections \ {c} : /\ conns'[b].task = conns[b].task
                                           /\ conns'[b].old = conns[b].old
           /\ \A b \in Connections :
                 conns'[b].close = conns[b].close \/ (b = old /\ Alive(old))
<1> DEFINE old == conns[c].old
           cs == CloseSent(conns, old)
           new == [cs[c] EXCEPT !.task = "welcoming", !.old = NoConnection]
<1>1. conns \in [Connections -> Connection] /\ old \in Connections \cup {NoConnection}
  BY ConnectionFields DEF Types
<1>2. /\ cs \in [Connections -> Connection]
      /\ \A b \in Connections :
           /\ cs[b].daemon = conns[b].daemon /\ cs[b].task = conns[b].task
           /\ cs[b].old = conns[b].old
           /\ cs[b].close = conns[b].close \/ (b = old /\ Alive(old) /\ cs[b].close)
  BY <1>1, CloseSentType
<1>3. /\ conns[c].task = "evicting"
      /\ conns' = [cs EXCEPT ![c].task = "welcoming", ![c].old = NoConnection]
  BY DEF SendClose
<1> HIDE DEF cs
<1>4. conns' = [cs EXCEPT ![c] = new]
  BY <1>2, <1>3
<1>5. /\ new \in Connection /\ new.daemon = cs[c].daemon /\ new.close = cs[c].close
      /\ new.old = NoConnection /\ new.task = "welcoming"
  <2>1. cs[c] \in Connection
    BY <1>2
  <2> QED
    BY <2>1 DEF Connection, TaskStates
<1> HIDE DEF new
<1>6. /\ conns' \in [Connections -> Connection]
      /\ conns'[c] = new /\ \A b \in Connections \ {c} : conns'[b] = cs[b]
  BY <1>2, <1>4, <1>5
<1> QED
  BY <1>2, <1>3, <1>5, <1>6

LEMMA CloseDaemonEffect ==
    ASSUME Types, NEW x \in closing, CloseDaemon(x)
    PROVE  /\ conns' \in [Connections -> Connection]
           /\ live' \in [Requests -> Entry]
           /\ x.daemon \in Requests /\ x.conn \in Connections
           /\ closing' \subseteq closing
           /\ \A b \in Connections : /\ conns'[b].daemon = conns[b].daemon
                                     /\ conns'[b].task = conns[b].task
                                     /\ conns'[b].old = conns[b].old
           /\ \/ live' = live /\ conns' = conns
              \/ /\ live[x.daemon].conn = x.conn
                 /\ live' = [live EXCEPT ![x.daemon] = NoEntry]
                 /\ \A b \in Connections :
                       conns'[b].close = conns[b].close \/ (b = x.conn /\ Alive(x.conn))
<1>1. x.daemon \in Requests /\ x.conn \in Connections
  BY DEF Types
<1>2. NoEntry \in Entry
  BY DEF NoEntry, Entry
<1>3. closing' \subseteq closing
  BY DEF CloseDaemon
<1>4. CASE live[x.daemon].conn = x.conn
  <2>1. conns' = CloseSent(conns, x.conn) /\ live' = [live EXCEPT ![x.daemon] = NoEntry]
    BY <1>4 DEF CloseDaemon
  <2>2. live' \in [Requests -> Entry]
    BY <1>2, <2>1 DEF Types
  <2> QED
    BY <1>1, <1>3, <1>4, <2>1, <2>2, CloseSentType
<1>5. CASE live[x.daemon].conn # x.conn
  <2>1. conns' = conns /\ live' = live
    BY <1>5 DEF CloseDaemon
  <2> QED
    BY <1>1, <1>3, <2>1 DEF Types
<1> QED
  BY <1>4, <1>5

LEMMA DialEffect ==
    ASSUME Types, NEW r \in Requests, Dial(r)
    PROVE  /\ daemon' \in [Requests -> Daemon]
           /\ daemon[r].state = "offline" /\ daemon'[r].state = "waiting"
           /\ \A q \in Requests \ {r} : daemon'[q] = daemon[q]
           /\ conns' \in [Connections -> Connection]
           /\ \E c \in Connections :
                /\ conns[c].task = "none" /\ conns'[c].task = "hello"
                /\ ~conns'[c].close
                /\ Others(c)
<1>1. PICK c \in Connections :
         /\ conns[c].task = "none"
         /\ conns' = [conns EXCEPT ![c] = [NoTask EXCEPT !.daemon = r, !.task = "hello", !.open = TRUE]]
         /\ daemon' = [daemon EXCEPT ![r] = [state |-> "waiting", conn |-> c]]
  BY DEF Dial
<1> DEFINE new == [NoTask EXCEPT !.daemon = r, !.task = "hello", !.open = TRUE]
<1>2. new \in Connection /\ new.task = "hello" /\ ~new.close
  BY NoTaskType DEF Connection, TaskStates
<1>3. [state |-> "waiting", conn |-> c] \in Daemon
  BY DEF Daemon, DaemonStates
<1> HIDE DEF new
<1>4. conns' = [conns EXCEPT ![c] = new]
  BY <1>1 DEF new
<1>5. conns' \in [Connections -> Connection] /\ conns'[c] = new /\ Others(c)
  BY <1>2, <1>4 DEF Types, Others, Same
<1>6. /\ daemon' \in [Requests -> Daemon] /\ daemon'[r].state = "waiting"
      /\ \A q \in Requests \ {r} : daemon'[q] = daemon[q]
  BY <1>1, <1>3 DEF Types
<1> QED
  BY <1>1, <1>2, <1>5, <1>6 DEF Dial

LEMMA RestartEffect ==
    ASSUME Types, ServerRestart
    PROVE  /\ conns' \in [Connections -> Connection]
           /\ \A c \in Connections : ~Alive(c)'
           /\ live' = [r \in Requests |-> NoEntry] /\ live' \in [Requests -> Entry]
           /\ closing' = {}
           /\ registration' \in [Requests -> Registration]
           /\ \A r \in Requests : /\ registration'[r].lease = NoConnection
                                  /\ registration'[r].exists = registration[r].exists
                                  /\ registration'[r].owner = registration[r].owner
           /\ failures' \in 0..MaxFailures
<1>1. ASSUME NEW c \in Connections
      PROVE  conns'[c] \in Connection /\ conns'[c].task \in {"none", "ended", "unreleased"}
  <2> DEFINE new == [conns[c] EXCEPT !.task = "ended", !.inbox = 0, !.close = FALSE,
                                     !.old = NoConnection]
  <2>1. conns'[c] = IF Alive(c) THEN new ELSE conns[c]
    BY DEF ServerRestart
  <2>2. conns[c] \in Connection
    BY DEF Types
  <2>3. new \in Connection /\ new.task = "ended"
    <3>1. /\ "ended" \in TaskStates /\ 0 \in 0..1 /\ FALSE \in BOOLEAN
          /\ NoConnection \in Connections \cup {NoConnection}
      BY DEF TaskStates
    <3> DEFINE half == [conns[c] EXCEPT !.task = "ended", !.inbox = 0]
    <3>2. half \in Connection /\ half.task = "ended"
      BY <2>2, <3>1 DEF Connection
    <3>3. new = [half EXCEPT !.close = FALSE, !.old = NoConnection]
      BY <2>2, Zenon
    <3> HIDE DEF half, new
    <3> QED
      BY <3>1, <3>2, <3>3 DEF Connection
  <2> HIDE DEF new
  <2> QED
    BY <2>1, <2>2, <2>3 DEF Alive
<1>2. conns' \in [Connections -> Connection]
  <2>1. conns' = [c \in Connections |-> conns'[c]]
    BY DEF ServerRestart
  <2> QED
    BY <1>1, <2>1
<1>3. ASSUME NEW r \in Requests
      PROVE  /\ registration'[r] \in Registration
             /\ registration'[r].lease = NoConnection
             /\ registration'[r].exists = registration[r].exists
             /\ registration'[r].owner = registration[r].owner
  BY DEF ServerRestart, Types, Registration
<1>4. registration' \in [Requests -> Registration]
  <2>1. registration' = [r \in Requests |-> registration'[r]]
    BY DEF ServerRestart
  <2> QED
    BY <1>3, <2>1
<1>5. live' = [r \in Requests |-> NoEntry] /\ live' \in [Requests -> Entry] /\ closing' = {}
  BY DEF ServerRestart, NoEntry, Entry
<1>6. failures' \in 0..MaxFailures
  BY FailType DEF ServerRestart, Types
<1> QED
  BY <1>1, <1>2, <1>3, <1>4, <1>5, <1>6 DEF Alive
-----------------------------------------------------------------------------
(* Types and claims.                                                       *)

\* ClaimedByApprover of one request, and what makes it inductive: nobody has been
\* told of an approval before there is one, an approved request names the one
\* account that was told, and there is no registration before the claim.
ClaimOf(r) ==
    /\ setup[r].state \in {"approved", "claimed"} =>
          setup[r].by \in Users /\ setup[r].told = {setup[r].by}
    /\ setup[r].state \in {"none", "pending"} =>
          setup[r].told = {} /\ ~registration[r].exists
    /\ daemon[r].state = "new" => ~registration[r].exists
    /\ setup[r].state = "claimed" => registration[r].exists
    /\ registration[r].exists => setup[r].told = {registration[r].owner}
    /\ daemon[r].state \in {"offline", "waiting", "active", "stopped"} =>
          registration[r].exists

ClaimInv == \A r \in Requests : ClaimOf(r)

\* The request is as it was, or swept.
SameRequest(r) ==
    /\ setup'[r].by = setup[r].by /\ setup'[r].told = setup[r].told
    /\ setup'[r].state = setup[r].state \/ setup'[r].state = "deleted"

\* The registration keeps its owner, and the daemon holds no credential it did not
\* hold before.
SameOwner(r) ==
    /\ registration'[r].exists = registration[r].exists
    /\ registration'[r].owner = registration[r].owner
    /\ daemon'[r].state \in {"offline", "waiting", "active", "stopped"} =>
          daemon[r].state \in {"offline", "waiting", "active", "stopped"}
    /\ daemon'[r].state = "new" => daemon[r].state = "new"

LEMMA ClaimKept ==
    ASSUME NEW r \in Requests, ClaimOf(r), SameRequest(r), SameOwner(r)
    PROVE  ClaimOf(r)'
BY DEF ClaimOf, SameRequest, SameOwner

LEMMA ClaimEffect ==
    ASSUME Types, ClaimInv, NEW r \in Requests,
           setup[r].state = "approved", setup[r].age = "valid", Claim(r)
    PROVE  /\ setup' \in [Requests -> Setup]
           /\ registration' \in [Requests -> Registration]
           /\ \A q \in Requests : registration'[q].lease = registration[q].lease
           /\ \A q \in Requests \ {r} : registration'[q] = registration[q]
           /\ registration'[r].exists /\ registration'[r].owner = setup[r].by
           /\ setup'[r].state = "claimed" /\ setup'[r].by = setup[r].by
           /\ setup'[r].told = {setup[r].by}
           /\ \A q \in Requests \ {r} : setup'[q] = Swept[q]
<1>1. /\ setup' = [Swept EXCEPT ![r].state = "claimed"]
      /\ registration' = [registration EXCEPT ![r].exists = TRUE, ![r].owner = setup[r].by]
  BY DEF Claim
<1>2. /\ Swept \in [Requests -> Setup] /\ Swept[r].by = setup[r].by
      /\ setup[r].by \in Users /\ Swept[r].told = {setup[r].by}
  BY SweptType DEF ClaimInv, ClaimOf
<1>3. [Swept[r] EXCEPT !.state = "claimed"] \in Setup
  BY <1>2 DEF Setup, SetupStates
<1>4. /\ setup' \in [Requests -> Setup] /\ setup'[r].state = "claimed"
      /\ setup'[r].told = {setup[r].by}
      /\ setup'[r].by = setup[r].by /\ \A q \in Requests \ {r} : setup'[q] = Swept[q]
  BY <1>1, <1>2, <1>3 DEF Setup
<1> DEFINE new == [registration[r] EXCEPT !.exists = TRUE, !.owner = setup[r].by]
<1>5. registration \in [Requests -> Registration]
  BY DEF Types
<1>6. /\ new \in Registration /\ new.exists /\ new.owner = setup[r].by
      /\ new.lease = registration[r].lease
  BY <1>2, <1>5 DEF Registration
<1>7. registration' = [registration EXCEPT ![r] = new]
  BY <1>1, <1>5
<1> HIDE DEF new
<1> QED
  BY <1>4, <1>5, <1>6, <1>7

\* Steps that change neither requests, registrations nor what a daemon holds.
LEMMA ClaimElsewhere ==
    ASSUME Types, ClaimInv, setup' = setup, \A r \in Requests : SameOwner(r)
    PROVE  ClaimInv'
<1>1. \A r \in Requests : SameRequest(r)
  BY DEF SameRequest
<1> QED
  BY <1>1, ClaimKept DEF ClaimInv

LEMMA TypesStep == Types /\ ClaimInv /\ [Next]_vars => Types' /\ ClaimInv'
<1> SUFFICES ASSUME Types, ClaimInv, [Next]_vars PROVE Types' /\ ClaimInv'
  OBVIOUS
<1> DEFINE Holding == {"offline", "waiting", "active", "stopped"}
<1>a. /\ setup \in [Requests -> Setup] /\ registration \in [Requests -> Registration]
      /\ daemon \in [Requests -> Daemon] /\ conns \in [Connections -> Connection]
      /\ live \in [Requests -> Entry] /\ failures \in 0..MaxFailures
      /\ closing \subseteq [daemon : Requests, conn : Connections]
  BY DEF Types
<1>b. \A r \in Requests : daemon[r] \in Daemon /\ registration[r] \in Registration
  BY <1>a
<1>c. ASSUME NEW r \in Requests, NEW state \in DaemonStates,
             daemon' = [daemon EXCEPT ![r].state = state]
      PROVE  /\ daemon' \in [Requests -> Daemon] /\ daemon'[r].state = state
             /\ \A q \in Requests \ {r} : daemon'[q] = daemon[q]
  <2>1. [daemon[r] EXCEPT !.state = state] \in Daemon
    BY <1>b DEF Daemon
  <2> QED
    BY <1>a, <1>c, <2>1 DEF Daemon
<1>1. ASSUME NEW r \in Requests, NEW others \in 0..PendingLimit, RequestSetup(r, others)
      PROVE  Types' /\ ClaimInv'
  <2> DEFINE fresh == NewSetup("pending")
  <2>1. fresh \in Setup /\ "polling" \in DaemonStates /\ "failed" \in DaemonStates
    BY DEF NewSetup, Setup, SetupStates, Ages, DaemonStates
  <2>2. /\ daemon[r].state = "new"
        /\ setup' = [Swept EXCEPT ![r] = fresh] \/ setup' = Swept
        /\ \/ daemon' = [daemon EXCEPT ![r].state = "polling"]
           \/ daemon' = [daemon EXCEPT ![r].state = "failed"]
        /\ UNCHANGED <<registration, conns, live, closing, failures>>
    BY <1>1 DEF RequestSetup
  <2>3. setup' \in [Requests -> Setup]
    BY <2>1, <2>2, SweptType
  <2>4. /\ daemon' \in [Requests -> Daemon]
        /\ \A q \in Requests : SameOwner(q)
    BY <1>c, <2>1, <2>2 DEF SameOwner
  <2>5. Types'
    BY <1>a, <2>2, <2>3, <2>4 DEF Types
  <2>6. \A q \in Requests \ {r} : SameRequest(q)
    BY <2>2, SweptType DEF SameRequest
  <2>7. \/ SameRequest(r)
        \/ setup'[r].state = "pending" /\ setup'[r].told = {}
    BY <2>2, SweptType DEF SameRequest, NewSetup
  <2>8. ClaimOf(r)'
    <3>1. ClaimOf(r) /\ ~registration[r].exists
      BY <2>2 DEF ClaimInv, ClaimOf
    <3>2. CASE setup'[r].state = "pending" /\ setup'[r].told = {}
      BY <2>4, <3>1, <3>2 DEF ClaimOf, SameOwner
    <3> QED
      BY <2>4, <2>7, <3>1, <3>2, ClaimKept
  <2> QED
    BY <2>4, <2>5, <2>6, <2>8, ClaimKept DEF ClaimInv
<1>2. ASSUME NEW r \in Requests, NEW u \in Users, ApproveSetup(r, u)
      PROVE  Types' /\ ClaimInv'
  <2> DEFINE new == Approve(r, u)
  <2>1. setup' = [setup EXCEPT ![r] = new] /\ setup[r].state = "pending"
    BY <1>2, <1>a DEF ApproveSetup
  <2>2. ClaimOf(r) /\ setup[r].told = {} /\ ~registration[r].exists
    BY <2>1 DEF ClaimInv, ClaimOf
  <2>6. new \in Setup /\ new.state = "approved" /\ new.by = u /\ new.told = {u}
    BY <1>a, <2>2 DEF Approve, Setup, SetupStates
  <2> HIDE DEF new
  <2>3. /\ setup' \in [Requests -> Setup] /\ setup'[r] = new
        /\ \A q \in Requests \ {r} : setup'[q] = setup[q]
    BY <1>a, <2>1, <2>6
  <2>4. UNCHANGED <<registration, daemon, conns, live, closing, failures>>
    BY <1>2 DEF ApproveSetup
  <2>5. Types'
    BY <1>a, <2>3, <2>4 DEF Types
  <2>7. ClaimOf(r)'
    BY <2>2, <2>3, <2>4, <2>6 DEF ClaimOf
  <2>8. \A q \in Requests \ {r} : SameRequest(q) /\ SameOwner(q)
    BY <2>3, <2>4 DEF SameRequest, SameOwner
  <2> QED
    BY <2>5, <2>7, <2>8, ClaimKept DEF ClaimInv
<1>3. ASSUME NEW r \in Requests, PollClaims(r) \/ PollAnswerLost(r)
      PROVE  Types' /\ ClaimInv'
  <2>1. /\ setup[r].state = "approved" /\ setup[r].age = "valid" /\ Claim(r)
        /\ daemon' = [daemon EXCEPT ![r].state = "offline"] \/ daemon' = daemon
        /\ UNCHANGED <<conns, live, closing>>
        /\ failures' = failures \/ Fail
    BY <1>3 DEF PollClaims, PollAnswerLost
  <2>2. /\ setup' \in [Requests -> Setup]
        /\ registration' \in [Requests -> Registration]
        /\ \A q \in Requests \ {r} : registration'[q] = registration[q]
        /\ registration'[r].exists /\ registration'[r].owner = setup[r].by
        /\ setup'[r].state = "claimed" /\ setup'[r].by = setup[r].by
        /\ setup'[r].told = {setup[r].by}
        /\ \A q \in Requests \ {r} : setup'[q] = Swept[q]
    BY <2>1, ClaimEffect
  <2>3. "offline" \in DaemonStates
    BY DEF DaemonStates
  <2>4. /\ daemon' \in [Requests -> Daemon]
        /\ \A q \in Requests \ {r} : daemon'[q] = daemon[q]
    BY <1>a, <1>c, <2>1, <2>3
  <2>5. failures' \in 0..MaxFailures
    BY <1>a, <2>1, FailType
  <2>6. Types'
    BY <1>a, <2>1, <2>2, <2>4, <2>5 DEF Types
  <2>7. \A q \in Requests \ {r} : SameRequest(q) /\ SameOwner(q)
    BY <2>2, <2>4, SweptType DEF SameRequest, SameOwner
  <2>8. setup[r].by \in Users /\ daemon[r].state = "polling" /\ daemon'[r].state # "new"
    BY <1>3, <1>c, <2>1, <2>3 DEF ClaimInv, ClaimOf, PollClaims, PollAnswerLost
  <2>9. ClaimOf(r)'
    BY <2>2, <2>8 DEF ClaimOf
  <2> QED
    BY <2>6, <2>7, <2>9, ClaimKept DEF ClaimInv
<1>4. ASSUME NEW r \in Requests, PollRefused(r) PROVE Types' /\ ClaimInv'
  <2>1. /\ setup' = Swept /\ daemon' = [daemon EXCEPT ![r].state = "failed"]
        /\ UNCHANGED <<registration, conns, live, closing, failures>>
    BY <1>4 DEF PollRefused
  <2>2. "failed" \in DaemonStates /\ "failed" \notin Holding
    BY DEF DaemonStates
  <2>3. /\ daemon' \in [Requests -> Daemon]
        /\ \A q \in Requests : SameOwner(q)
    BY <1>c, <2>1, <2>2 DEF SameOwner
  <2>4. Types'
    BY <1>a, <2>1, <2>3, SweptType DEF Types
  <2>5. \A q \in Requests : SameRequest(q)
    BY <2>1, SweptType DEF SameRequest
  <2> QED
    BY <2>3, <2>4, <2>5, ClaimKept DEF ClaimInv
<1>5. ASSUME NEW r \in Requests, SetupAges(r) PROVE Types' /\ ClaimInv'
  <2> DEFINE age == IF setup[r].age = "valid" THEN "expired" ELSE "old"
             new == [setup[r] EXCEPT !.age = age]
  <2>1. /\ setup' = [setup EXCEPT ![r] = new]
        /\ UNCHANGED <<registration, daemon, conns, live, closing, failures>>
    BY <1>5, <1>a DEF SetupAges
  <2>2. age \in Ages
    BY DEF Ages
  <2>3. /\ new \in Setup /\ new.state = setup[r].state /\ new.by = setup[r].by
        /\ new.told = setup[r].told
    <3> HIDE DEF age
    <3> QED
      BY <1>a, <2>2 DEF Setup
  <2> HIDE DEF new
  <2>4. /\ setup' \in [Requests -> Setup]
        /\ \A q \in Requests : SameRequest(q) /\ SameOwner(q)
    BY <1>a, <2>1, <2>3 DEF SameRequest, SameOwner
  <2>5. Types'
    BY <1>a, <2>1, <2>4 DEF Types
  <2> QED
    BY <2>4, <2>5, ClaimKept DEF ClaimInv
<1>6. ASSUME NEW r \in Requests, RevokeDaemon(r) PROVE Types' /\ ClaimInv'
  <2> DEFINE new == [registration[r] EXCEPT !.revoked = TRUE, !.lease = NoConnection]
  <2>1. /\ registration' = [registration EXCEPT ![r] = new]
        /\ UNCHANGED <<setup, daemon, conns, live, failures>>
    BY <1>6, <1>a DEF RevokeDaemon
  <2>2. /\ new \in Registration /\ new.exists = registration[r].exists
        /\ new.owner = registration[r].owner
    BY <1>b DEF Registration
  <2> HIDE DEF new
  <2>3. /\ registration' \in [Requests -> Registration]
        /\ \A q \in Requests : SameOwner(q)
    BY <1>a, <2>1, <2>2 DEF SameOwner
  <2>4. closing' \subseteq [daemon : Requests, conn : Connections]
    <3>1. registration[r].lease \in Connections \cup {NoConnection}
      BY <1>b DEF Registration
    <3> QED
      BY <1>6, <1>a, <3>1 DEF RevokeDaemon
  <2>5. Types'
    BY <1>a, <2>1, <2>3, <2>4 DEF Types
  <2> QED
    BY <2>1, <2>3, <2>5, ClaimElsewhere
<1>7. ASSUME NEW r \in Requests, Dial(r) PROVE Types' /\ ClaimInv'
  <2>1. UNCHANGED <<setup, registration, live, closing, failures>>
    BY <1>7 DEF Dial
  <2>2. Types'
    BY <1>7, <1>a, <2>1, DialEffect DEF Types
  <2>3. \A q \in Requests : SameOwner(q)
    BY <1>7, <2>1, DialEffect DEF SameOwner
  <2> QED
    BY <2>1, <2>2, <2>3, ClaimElsewhere
<1>8. ASSUME NEW r \in Requests, ReadFrame(r) \/ LoseConnection(r) \/ SendHeartbeat(r)
      PROVE  Types' /\ ClaimInv'
  <2>1. /\ UNCHANGED <<setup, registration, live, closing, failures>>
        /\ conns' \in [Connections -> Connection] /\ daemon' \in [Requests -> Daemon]
        /\ \A q \in Requests \ {r} : daemon'[q] = daemon[q]
        /\ daemon[r].state \in Holding /\ daemon'[r].state # "new"
    BY <1>8, SocketSteps
  <2>2. Types'
    BY <1>a, <2>1 DEF Types
  <2>3. \A q \in Requests : SameOwner(q)
    BY <2>1 DEF SameOwner
  <2> QED
    BY <2>1, <2>2, <2>3, ClaimElsewhere
<1>9. ASSUME UNCHANGED <<setup, daemon>>, Types',
             \A r \in Requests : /\ registration'[r].exists = registration[r].exists
                                 /\ registration'[r].owner = registration[r].owner
      PROVE  ClaimInv'
  BY <1>9, ClaimElsewhere DEF SameOwner
<1>10. ASSUME NEW c \in Connections,
              \/ RefuseConnection(c) \/ SendWelcome(c) \/ ServeClose(c) \/ ServeFrame(c)
              \/ ServeEnd(c) \/ QueryFails(c) \/ DisconnectFails(c)
       PROVE  Types' /\ ClaimInv'
  <2>1. /\ conns' \in [Connections -> Connection]
        /\ UNCHANGED <<setup, registration, daemon, live, closing>>
        /\ failures' \in 0..MaxFailures
    BY <1>10, MovedSteps
  <2>2. Types'
    BY <1>a, <2>1 DEF Types
  <2> QED
    BY <1>9, <2>1, <2>2
<1>11. ASSUME NEW c \in Connections, NEW lease \in {c, NoConnection},
              \/ registration' = registration
              \/ registration' = [registration EXCEPT ![conns[c].daemon].lease = lease]
       PROVE  /\ registration' \in [Requests -> Registration]
              /\ \A r \in Requests : /\ registration'[r].exists = registration[r].exists
                                     /\ registration'[r].owner = registration[r].owner
  <2> DEFINE d == conns[c].daemon
             new == [registration[d] EXCEPT !.lease = lease]
  <2>1. d \in Requests
    BY <1>a, ConnectionFields
  <2>2. /\ new \in Registration /\ new.exists = registration[d].exists
        /\ new.owner = registration[d].owner
    BY <1>b, <2>1 DEF Registration
  <2>3. registration' = registration \/ registration' = [registration EXCEPT ![d] = new]
    BY <1>11, <1>a, <2>1
  <2> HIDE DEF new, d
  <2> QED
    BY <1>a, <2>1, <2>2, <2>3
<1>12. ASSUME NEW c \in Connections, ConnectDaemon(c) \/ DisconnectDaemon(c)
       PROVE  Types' /\ ClaimInv'
  <2>1. /\ UNCHANGED <<setup, daemon, live, closing, failures>>
        /\ Task(c, "leased") \/ Task(c, "ended")
    BY <1>12 DEF ConnectDaemon, DisconnectDaemon
  <2>2. conns' \in [Connections -> Connection]
    BY <2>1, TaskType DEF TaskStates
  <2>3. /\ registration' \in [Requests -> Registration]
        /\ \A r \in Requests : /\ registration'[r].exists = registration[r].exists
                               /\ registration'[r].owner = registration[r].owner
    BY <1>11, <1>12 DEF ConnectDaemon, DisconnectDaemon
  <2>4. Types'
    BY <1>a, <2>1, <2>2, <2>3 DEF Types
  <2> QED
    BY <1>9, <2>1, <2>3, <2>4
<1>13. ASSUME NEW c \in Connections, EnterLive(c) PROVE Types' /\ ClaimInv'
  <2>1. UNCHANGED <<setup, registration, daemon, closing, failures>>
    BY <1>13 DEF EnterLive
  <2>2. Types'
    BY <1>13, <1>a, <2>1, EnterLiveEffect DEF Types
  <2> QED
    BY <1>9, <2>1, <2>2
<1>14. ASSUME NEW c \in Connections, SendClose(c) PROVE Types' /\ ClaimInv'
  <2>1. UNCHANGED <<setup, registration, daemon, live, closing, failures>>
    BY <1>14 DEF SendClose
  <2>2. Types'
    BY <1>14, <1>a, <2>1, SendCloseEffect DEF Types
  <2> QED
    BY <1>9, <2>1, <2>2
<1>15. ASSUME NEW c \in Connections, MarkLiveReady(c) \/ LeaveLive(c) PROVE Types' /\ ClaimInv'
  <2>1. /\ UNCHANGED <<setup, registration, daemon, closing, failures>>
        /\ Task(c, "serving") \/ Task(c, "releasing")
        /\ \/ live' = live
           \/ live' = [live EXCEPT ![conns[c].daemon].ready = TRUE]
           \/ live' = [live EXCEPT ![conns[c].daemon] = NoEntry]
    BY <1>15 DEF MarkLiveReady, LeaveLive
  <2>2. conns' \in [Connections -> Connection]
    BY <2>1, TaskType DEF TaskStates
  <2>3. live' \in [Requests -> Entry]
    <3>1. conns[c].daemon \in Requests
      BY <1>a, ConnectionFields
    <3>2. [live[conns[c].daemon] EXCEPT !.ready = TRUE] \in Entry /\ NoEntry \in Entry
      BY <1>a, <3>1 DEF Entry, NoEntry
    <3> QED
      BY <1>a, <2>1, <3>1, <3>2
  <2>4. Types'
    BY <1>a, <2>1, <2>2, <2>3 DEF Types
  <2> QED
    BY <1>9, <2>1, <2>4
<1>16. ASSUME NEW x \in closing, CloseDaemon(x) PROVE Types' /\ ClaimInv'
  <2>1. UNCHANGED <<setup, registration, daemon, failures>>
    BY <1>16 DEF CloseDaemon
  <2>2. /\ conns' \in [Connections -> Connection] /\ live' \in [Requests -> Entry]
        /\ closing' \subseteq closing
    BY <1>16, CloseDaemonEffect
  <2>3. Types'
    BY <1>a, <2>1, <2>2 DEF Types
  <2> QED
    BY <1>9, <2>1, <2>3
<1>17. CASE ServerRestart
  <2>1. UNCHANGED <<setup, daemon>>
    BY <1>17 DEF ServerRestart
  <2>2. Types'
    BY <1>17, <1>a, <2>1, RestartEffect DEF Types
  <2> QED
    BY <1>9, <1>17, <2>1, <2>2, RestartEffect
<1>18. CASE UNCHANGED vars
  <2>1. Types'
    BY <1>18, <1>a DEF vars, Types
  <2> QED
    BY <1>9, <1>18, <2>1 DEF vars
<1> QED
  BY <1>1, <1>2, <1>3, <1>4, <1>5, <1>6, <1>7, <1>8, <1>10, <1>12, <1>13, <1>14, <1>15,
     <1>16, <1>17, <1>18
  DEF Next, Steps

LEMMA TypesInvariance == Spec => [](Types /\ ClaimInv)
<1>1. Init => ClaimInv
  BY DEF Init, NewSetup, NoRegistration, ClaimInv, ClaimOf
<1> QED
  BY <1>1, TypesInit, TypesStep, PTL DEF Spec

\* Tables, channels and the live map keep their types, and no channel holds a
\* frame its reader does not know.
THEOREM TypeCorrect == Spec => []TypeOK
<1>1. Types => TypeOK
  <2> SUFFICES ASSUME Types PROVE TypeOK
    OBVIOUS
  <2>1. ASSUME NEW c \in Connections
        PROVE  /\ conns[c].daemon \in Requests /\ conns[c].task \in TaskStates
               /\ conns[c].open \in BOOLEAN /\ conns[c].close \in BOOLEAN
               /\ \A i \in DOMAIN conns[c].out : conns[c].out[i] \in Frames
               /\ conns[c].inbox \in 0..1 /\ conns[c].old \in Connections \cup {NoConnection}
    <3>1. conns[c] \in Connection
      BY DEF Types
    <3>2. conns[c].out \in Seq(Frames)
      BY <3>1, ConnectionFields
    <3>3. \A i \in DOMAIN conns[c].out : conns[c].out[i] \in Frames
      BY <3>2
    <3> QED
      BY <3>1, <3>3, ConnectionFields
  <2> QED
    BY <2>1 DEF Types, TypeOK, Setup, Registration, Daemon, Entry
<1> QED
  BY <1>1, TypesInvariance, PTL

\* No daemon is ever registered for anybody but the only account that was told that
\* its approval of the setup succeeded, and none holds a credential without a
\* registration.
THEOREM OwnerIsApprover == Spec => []ClaimedByApprover
<1>1. ClaimInv => ClaimedByApprover
  BY DEF ClaimInv, ClaimOf, ClaimedByApprover
<1> QED
  BY <1>1, TypesInvariance, PTL
-----------------------------------------------------------------------------
(* The bookkeeping of connections.  That nobody waits for room in a close   *)
(* channel rests on every entry of the live map being taken out once: by    *)
(* close_daemon, by the successor that evicts it, or by its own task.       *)

\* The task has got past its entry into the live map.
Entered(c) == conns[c].task \notin {"none", "hello", "leased"}
EnteredAfter(c) == conns'[c].task \notin {"none", "hello", "leased"}

\* What is being evicted has been in the live map, is no longer, and has no
\* second successor that evicts it too.
EvictionsAreExclusive ==
    \A b \in Connections : conns[b].task = "evicting" =>
        /\ conns[b].old \in Connections /\ Entered(conns[b].old)
        /\ \A r \in Requests : live[r].conn # conns[b].old
        /\ \A a \in Connections :
              conns[a].task = "evicting" /\ conns[a].old = conns[b].old => a = b

\* A connection that was told to close has left the live map for good, and
\* whoever evicted it has already done so.
ToldOnce ==
    \A c \in Connections : conns[c].close /\ Alive(c) =>
        /\ Entered(c)
        /\ \A r \in Requests : live[r].conn # c
        /\ \A b \in Connections : conns[b].task = "evicting" => conns[b].old # c

TrackInv == LiveHasATask /\ LeaseHasATask /\ EvictionsAreExclusive /\ ToldOnce

LEMMA TrackInit == Init => TrackInv
<1> SUFFICES ASSUME Init PROVE TrackInv
  OBVIOUS
<1>1. \A c \in Connections : conns[c].task = "none" /\ ~conns[c].close
  BY NoTaskType DEF Init
<1>2. \A r \in Requests : live[r].conn = NoConnection /\ registration[r].lease = NoConnection
  BY DEF Init, NoEntry, NoRegistration
<1> QED
  BY <1>1, <1>2
  DEF TrackInv, LiveHasATask, LeaseHasATask, EvictionsAreExclusive, ToldOnce

\* An entry of the live map names a connection, and only in its own place.
LEMMA LiveIsUnique ==
    ASSUME Types, TrackInv, NEW r \in Requests, live[r].conn # NoConnection
    PROVE  /\ live[r].conn \in Connections
           /\ Entered(live[r].conn) /\ Alive(live[r].conn)
           /\ conns[live[r].conn].daemon = r
           /\ conns[live[r].conn].task \notin {"releasing", "leased"}
<1>1. live[r].conn \in Connections
  BY DEF Types, Entry
<1> QED
  BY <1>1 DEF TrackInv, LiveHasATask, Entered, Alive

\* Steps that leave the records and the tracked part of every connection alone.
LEMMA TrackElsewhere ==
    ASSUME Types, TrackInv, \A b \in Connections : Same(b), live' = live,
           \A r \in Requests : registration'[r].lease \in {registration[r].lease, NoConnection}
    PROVE  TrackInv'
<1>1. \A r \in Requests : /\ live[r].conn \in Connections \cup {NoConnection}
                          /\ registration[r].lease \in Connections \cup {NoConnection}
  BY DEF Types, Entry, Registration
<1>2. LiveHasATask'
  BY <1>1 DEF TrackInv, Same, LiveHasATask
<1>3. LeaseHasATask'
  BY <1>1 DEF TrackInv, Same, LeaseHasATask
<1>4. EvictionsAreExclusive'
  BY DEF TrackInv, Same, EvictionsAreExclusive, Entered
<1>5. ToldOnce'
  BY DEF TrackInv, Same, ToldOnce, Entered, Alive
<1> QED
  BY <1>2, <1>3, <1>4, <1>5 DEF TrackInv

LEMMA TrackMoved ==
    ASSUME Types, TrackInv, NEW c \in Connections, Moved(c),
           UNCHANGED <<registration, live>>
    PROVE  TrackInv'
<1>1. \A r \in Requests : /\ live[r].conn \in Connections \cup {NoConnection}
                          /\ registration[r].lease \in Connections \cup {NoConnection}
  BY DEF Types, Entry, Registration
<1>2. /\ \A b \in Connections \ {c} : Same(b)
      /\ conns'[c].daemon = conns[c].daemon /\ conns'[c].old = conns[c].old
      /\ conns'[c].close => conns[c].close
  BY DEF Moved, Others
<1>3. /\ conns[c].task \in {"hello", "welcoming", "serving", "releasing"}
      /\ conns[c].task = "hello" => conns'[c].task = "ended"
      /\ conns[c].task = "welcoming" => conns'[c].task \in {"marking", "leaving"}
      /\ conns[c].task = "serving" => conns'[c].task \in {"leaving", "serving"}
      /\ conns[c].task = "releasing" => conns'[c].task = "unreleased"
  BY DEF Moved, Moves
<1>4. LiveHasATask'
  BY <1>1, <1>2, <1>3 DEF TrackInv, Same, LiveHasATask
<1>5. LeaseHasATask'
  BY <1>1, <1>2, <1>3 DEF TrackInv, Same, LeaseHasATask
<1>6. \A b \in Connections :
         /\ conns'[b].task = "evicting" <=> conns[b].task = "evicting"
         /\ conns'[b].old = conns[b].old
         /\ Entered(b) => Entered(b)'
         /\ conns'[b].close /\ Alive(b)' => conns[b].close /\ Alive(b)
  BY <1>2, <1>3 DEF Same, Entered, Alive
<1>7. EvictionsAreExclusive'
  BY <1>6 DEF TrackInv, EvictionsAreExclusive
<1>8. ToldOnce'
  BY <1>6 DEF TrackInv, ToldOnce
<1> QED
  BY <1>4, <1>5, <1>7, <1>8 DEF TrackInv

LEMMA TrackConnect ==
    ASSUME Types, TrackInv, NEW c \in Connections, ConnectDaemon(c)
    PROVE  TrackInv'
<1> DEFINE d == conns[c].daemon
<1>1. /\ conns[c].task = "hello" /\ conns'[c].task = "leased"
      /\ Others(c) /\ conns'[c].daemon = d /\ conns'[c].close = conns[c].close
      /\ live' = live
  BY TaskType DEF ConnectDaemon, TaskStates
<1>2. /\ d \in Requests /\ registration'[d].lease = c
      /\ \A r \in Requests \ {d} : registration'[r] = registration[r]
  <2>1. d \in Requests
    BY ConnectionFields DEF Types
  <2>2. registration' = [registration EXCEPT ![d].lease = c]
    BY DEF ConnectDaemon
  <2> QED
    BY <2>1, <2>2 DEF Types, Registration
<1>3. \A r \in Requests : /\ live[r].conn \in Connections \cup {NoConnection}
                          /\ registration[r].lease \in Connections \cup {NoConnection}
  BY DEF Types, Entry, Registration
<1>4. \A b \in Connections \ {c} : Same(b)
  BY <1>1 DEF Others
<1>5. LiveHasATask'
  BY <1>1, <1>3, <1>4 DEF TrackInv, Same, LiveHasATask
<1>6. LeaseHasATask'
  BY <1>1, <1>2, <1>3, <1>4 DEF TrackInv, Same, LeaseHasATask
<1>7. EvictionsAreExclusive'
  BY <1>1, <1>4 DEF TrackInv, Same, EvictionsAreExclusive, Entered
<1>8. ToldOnce'
  BY <1>1, <1>4 DEF TrackInv, Same, ToldOnce, Entered, Alive
<1> QED
  BY <1>5, <1>6, <1>7, <1>8 DEF TrackInv

LEMMA TrackEnter ==
    ASSUME Types, TrackInv, NEW c \in Connections, EnterLive(c)
    PROVE  TrackInv'
<1> DEFINE d == conns[c].daemon
           old == live[d].conn
<1>1. /\ Others(c)
      /\ conns'[c].daemon = d /\ conns'[c].close = conns[c].close /\ conns'[c].old = old
      /\ conns[c].task = "leased"
      /\ conns'[c].task = IF old = NoConnection THEN "welcoming" ELSE "evicting"
      /\ d \in Requests /\ old \in Connections \cup {NoConnection}
      /\ live' = [live EXCEPT ![d] = [conn |-> c, ready |-> FALSE]]
  BY EnterLiveEffect
<1>2. /\ live'[d].conn = c /\ ~live'[d].ready
      /\ \A r \in Requests \ {d} : live'[r] = live[r]
  BY <1>1 DEF Types
<1>3. \A b \in Connections \ {c} : Same(b)
  BY <1>1 DEF Others
<1>4. \A r \in Requests : /\ live[r].conn \in Connections \cup {NoConnection}
                          /\ registration[r].lease \in Connections \cup {NoConnection}
  BY DEF Types, Entry, Registration
<1>5. \A r \in Requests : live[r].conn # c
  BY <1>1, LiveIsUnique, NoConnectionIsNone
<1>6. registration' = registration
  BY DEF EnterLive
<1>7. /\ ~Entered(c) /\ EnteredAfter(c)
      /\ \A b \in Connections \ {c} : Entered(b) <=> EnteredAfter(b)
  BY <1>1, <1>3 DEF Entered, EnteredAfter, Same
<1> HIDE DEF d, old
<1>8. LiveHasATask'
  BY <1>1, <1>2, <1>3, <1>4, <1>5 DEF TrackInv, Same, LiveHasATask
<1>9. LeaseHasATask'
  BY <1>1, <1>3, <1>4, <1>6 DEF TrackInv, Same, LeaseHasATask, d
<1>10. old # NoConnection =>
         /\ old \in Connections \ {c} /\ Entered(old)
         /\ \A r \in Requests \ {d} : live[r].conn # old
         /\ \A b \in Connections : conns[b].task = "evicting" => conns[b].old # old
         /\ ~(conns[old].close /\ Alive(old))
  <2> SUFFICES ASSUME old # NoConnection
               PROVE  /\ old \in Connections \ {c} /\ Entered(old)
                      /\ \A r \in Requests \ {d} : live[r].conn # old
                      /\ \A b \in Connections : conns[b].task = "evicting" => conns[b].old # old
                      /\ ~(conns[old].close /\ Alive(old))
    OBVIOUS
  <2>1. old \in Connections /\ Entered(old) /\ conns[old].daemon = d
    BY <1>1, LiveIsUnique DEF old
  <2>2. \A r \in Requests \ {d} : live[r].conn # old
    BY <2>1, LiveIsUnique
  <2>3. \A b \in Connections : conns[b].task = "evicting" => conns[b].old # old
    BY <1>1 DEF TrackInv, EvictionsAreExclusive, old
  <2>4. ~(conns[old].close /\ Alive(old))
    BY <1>1, <2>1 DEF TrackInv, ToldOnce, old
  <2> QED
    BY <1>7, <2>1, <2>2, <2>3, <2>4
<1>11. \A b \in Connections : conns[b].task = "evicting" => conns[b].old \in Connections \ {c}
  BY <1>7 DEF TrackInv, EvictionsAreExclusive
<1>12. EvictionsAreExclusive'
  <2> SUFFICES ASSUME NEW b \in Connections, conns'[b].task = "evicting"
               PROVE  /\ conns'[b].old \in Connections /\ EnteredAfter(conns'[b].old)
                      /\ \A r \in Requests : live'[r].conn # conns'[b].old
                      /\ \A a \in Connections :
                            conns'[a].task = "evicting" /\ conns'[a].old = conns'[b].old => a = b
    BY DEF EvictionsAreExclusive, Entered, EnteredAfter
  <2>1. CASE b = c
    <3>1. old # NoConnection /\ conns'[b].old = old
      BY <1>1, <2>1
    <3>2. old \in Connections /\ EnteredAfter(old)
      BY <1>7, <1>10, <3>1
    <3>3. \A r \in Requests : live'[r].conn # old
      BY <1>2, <1>10, <3>1
    <3>4. \A a \in Connections : conns'[a].task = "evicting" /\ conns'[a].old = old => a = b
      BY <1>3, <1>10, <2>1, <3>1 DEF Same
    <3> QED
      BY <3>1, <3>2, <3>3, <3>4
  <2>2. CASE b # c
    <3>1. conns[b].task = "evicting" /\ conns'[b].old = conns[b].old
      BY <1>3, <2>2 DEF Same
    <3>2. /\ conns[b].old \in Connections \ {c} /\ Entered(conns[b].old)
          /\ \A r \in Requests : live[r].conn # conns[b].old
          /\ \A a \in Connections :
                conns[a].task = "evicting" /\ conns[a].old = conns[b].old => a = b
      BY <1>11, <3>1 DEF TrackInv, EvictionsAreExclusive
    <3>3. EnteredAfter(conns[b].old)
      BY <1>7, <3>2
    <3>4. \A r \in Requests : live'[r].conn # conns[b].old
      BY <1>2, <3>2
    <3>5. ASSUME NEW a \in Connections, conns'[a].task = "evicting", conns'[a].old = conns[b].old
          PROVE  a = b
      <4>1. CASE a = c
        BY <1>1, <1>10, <3>1, <3>5, <4>1
      <4>2. CASE a # c
        BY <1>3, <3>2, <3>5, <4>2 DEF Same
      <4> QED
        BY <4>1, <4>2
    <3> QED
      BY <3>1, <3>2, <3>3, <3>4, <3>5
  <2> QED
    BY <2>1, <2>2
<1>13. ToldOnce'
  <2> SUFFICES ASSUME NEW x \in Connections, conns'[x].close, Alive(x)'
               PROVE  /\ EnteredAfter(x)
                      /\ \A r \in Requests : live'[r].conn # x
                      /\ \A b \in Connections : conns'[b].task = "evicting" => conns'[b].old # x
    BY DEF ToldOnce, Entered, EnteredAfter
  <2>1. conns[x].close /\ Alive(x)
    BY <1>1, <1>3 DEF Same, Alive
  <2>2. /\ Entered(x) /\ \A r \in Requests : live[r].conn # x
        /\ \A b \in Connections : conns[b].task = "evicting" => conns[b].old # x
    BY <2>1 DEF TrackInv, ToldOnce
  <2>3. x # c
    BY <1>7, <2>2
  <2>4. conns'[c].old # x
    BY <1>1, <2>2 DEF old
  <2> QED
    BY <1>2, <1>3, <1>7, <2>2, <2>3, <2>4 DEF Same
<1> QED
  BY <1>8, <1>9, <1>12, <1>13 DEF TrackInv

LEMMA TrackSendClose ==
    ASSUME Types, TrackInv, NEW c \in Connections, SendClose(c)
    PROVE  TrackInv'
<1>0. PICK old : old = conns[c].old
  OBVIOUS
<1>1. /\ conns[c].task = "evicting" /\ conns'[c].task = "welcoming"
      /\ \A b \in Connections : conns'[b].daemon = conns[b].daemon
      /\ \A b \in Connections \ {c} : /\ conns'[b].task = conns[b].task
                                      /\ conns'[b].old = conns[b].old
      /\ \A b \in Connections : conns'[b].close = conns[b].close \/ (b = old /\ Alive(old))
  BY <1>0, SendCloseEffect
<1>2. UNCHANGED <<registration, live>>
  BY DEF SendClose
<1>3. \A r \in Requests : /\ live[r].conn \in Connections \cup {NoConnection}
                          /\ registration[r].lease \in Connections \cup {NoConnection}
  BY DEF Types, Entry, Registration
<1>4. /\ old \in Connections /\ Entered(old)
      /\ \A r \in Requests : live[r].conn # old
      /\ \A a \in Connections : conns[a].task = "evicting" /\ conns[a].old = old => a = c
  BY <1>0, <1>1 DEF TrackInv, EvictionsAreExclusive
<1>5. LiveHasATask'
  BY <1>1, <1>2, <1>3 DEF TrackInv, LiveHasATask
<1>6. LeaseHasATask'
  BY <1>1, <1>2, <1>3 DEF TrackInv, LeaseHasATask
<1>7. \A b \in Connections : (Entered(b) <=> Entered(b)') /\ (Alive(b) <=> Alive(b)')
  BY <1>1 DEF Entered, Alive
<1>8. \A b \in Connections : conns'[b].task = "evicting" =>
         b # c /\ conns[b].task = "evicting" /\ conns'[b].old = conns[b].old
  BY <1>1
<1>9. EvictionsAreExclusive'
  BY <1>2, <1>7, <1>8 DEF TrackInv, EvictionsAreExclusive
<1>10. ToldOnce'
  <2> SUFFICES ASSUME NEW x \in Connections, conns'[x].close, Alive(x)'
               PROVE  /\ Entered(x)'
                      /\ \A r \in Requests : live'[r].conn # x
                      /\ \A b \in Connections : conns'[b].task = "evicting" => conns'[b].old # x
    BY DEF ToldOnce
  <2>1. CASE x = old
    BY <1>2, <1>4, <1>7, <1>8, <2>1
  <2>2. CASE x # old
    BY <1>1, <1>2, <1>7, <1>8, <2>2 DEF TrackInv, ToldOnce
  <2> QED
    BY <2>1, <2>2
<1> QED
  BY <1>5, <1>6, <1>9, <1>10 DEF TrackInv

\* A task marks its entry ready, or takes it out on its way out.
LEMMA TrackOwnEntry ==
    ASSUME Types, TrackInv, NEW c \in Connections, MarkLiveReady(c) \/ LeaveLive(c)
    PROVE  TrackInv'
<1>0. PICK d : d = conns[c].daemon
  OBVIOUS
<1>a. d \in Requests
  BY <1>0, ConnectionFields DEF Types
<1>1. /\ \/ conns[c].task = "marking" /\ conns'[c].task = "serving"
         \/ conns[c].task = "leaving" /\ conns'[c].task = "releasing" /\ live'[d].conn # c
      /\ \A b \in Connections \ {c} : Same(b)
      /\ conns'[c].daemon = d /\ conns'[c].old = conns[c].old
      /\ conns'[c].close = conns[c].close
      /\ registration' = registration
      /\ \A r \in Requests \ {d} : live'[r] = live[r]
      /\ \/ live'[d] = live[d]
         \/ live[d].conn = c /\ live'[d].conn = c /\ conns[c].task = "marking"
         \/ live'[d].conn = NoConnection
  <2>1. CASE MarkLiveReady(c)
    <3>1. /\ conns[c].task = "marking" /\ conns'[c].task = "serving"
          /\ \A b \in Connections \ {c} : Same(b)
          /\ conns'[c].daemon = d /\ conns'[c].old = conns[c].old
          /\ conns'[c].close = conns[c].close
          /\ registration' = registration
      BY <1>0, <2>1, TaskType DEF MarkLiveReady, TaskStates, Others
    <3>2. live' = IF live[d].conn = c THEN [live EXCEPT ![d].ready = TRUE] ELSE live
      BY <1>0, <2>1 DEF MarkLiveReady
    <3>3. /\ \A r \in Requests \ {d} : live'[r] = live[r]
          /\ live'[d] = live[d] \/ (live[d].conn = c /\ live'[d].conn = c)
      BY <1>a, <3>2 DEF Types, Entry
    <3> QED
      BY <3>1, <3>3
  <2>2. CASE LeaveLive(c)
    <3>1. /\ conns[c].task = "leaving" /\ conns'[c].task = "releasing"
          /\ \A b \in Connections \ {c} : Same(b)
          /\ conns'[c].daemon = d /\ conns'[c].old = conns[c].old
          /\ conns'[c].close = conns[c].close
          /\ registration' = registration
      BY <1>0, <2>2, TaskType DEF LeaveLive, TaskStates, Others
    <3>2. live' = IF live[d].conn = c THEN [live EXCEPT ![d] = NoEntry] ELSE live
      BY <1>0, <2>2 DEF LeaveLive
    <3>3. /\ \A r \in Requests \ {d} : live'[r] = live[r]
          /\ live'[d] = live[d] \/ live'[d].conn = NoConnection
          /\ live'[d].conn # c
      BY <1>a, <3>2, NoConnectionIsNone DEF Types, NoEntry
    <3> QED
      BY <3>1, <3>3
  <2> QED
    BY <2>1, <2>2
<1>2. \A r \in Requests : /\ live[r].conn \in Connections \cup {NoConnection}
                          /\ registration[r].lease \in Connections \cup {NoConnection}
  BY DEF Types, Entry, Registration
<1>3. \A r \in Requests : live'[r].conn \in {live[r].conn, NoConnection}
  BY <1>1
<1>4. LiveHasATask'
  <2> SUFFICES ASSUME NEW r \in Requests, live'[r].conn # NoConnection
               PROVE  /\ conns'[live'[r].conn].daemon = r
                      /\ conns'[live'[r].conn].task
                            \in {"evicting", "welcoming", "marking", "serving", "leaving"}
                      /\ live'[r].ready => conns'[live'[r].conn].task \in {"serving", "leaving"}
    BY DEF LiveHasATask
  <2>1. /\ live'[r].conn = live[r].conn /\ live[r].conn \in Connections
        /\ conns[live[r].conn].daemon = r
        /\ conns[live[r].conn].task
              \in {"evicting", "welcoming", "marking", "serving", "leaving"}
        /\ live[r].ready => conns[live[r].conn].task \in {"serving", "leaving"}
    BY <1>2, <1>3 DEF TrackInv, LiveHasATask
  <2>2. CASE live[r].conn = c
    BY <1>0, <1>1, <2>1, <2>2
  <2>3. CASE live[r].conn # c
    <3>1. live'[r] = live[r] /\ Same(live[r].conn)
      BY <1>1, <2>1, <2>3
    <3> QED
      BY <2>1, <3>1 DEF Same
  <2> QED
    BY <2>2, <2>3
<1>5. LeaseHasATask'
  BY <1>1, <1>2, <1>0 DEF TrackInv, Same, LeaseHasATask
<1>6. \A b \in Connections :
         /\ conns'[b].task = "evicting" <=> conns[b].task = "evicting"
         /\ conns'[b].old = conns[b].old /\ conns'[b].close = conns[b].close
         /\ Entered(b) <=> Entered(b)'
         /\ Alive(b) <=> Alive(b)'
  BY <1>1 DEF Same, Entered, Alive
<1>7. EvictionsAreExclusive'
  BY <1>3, <1>6, NoConnectionIsNone DEF TrackInv, EvictionsAreExclusive
<1>8. ToldOnce'
  BY <1>3, <1>6, NoConnectionIsNone DEF TrackInv, ToldOnce
<1> QED
  BY <1>4, <1>5, <1>7, <1>8 DEF TrackInv

LEMMA TrackDisconnect ==
    ASSUME Types, TrackInv, NEW c \in Connections, DisconnectDaemon(c)
    PROVE  TrackInv'
<1>0. PICK d : d = conns[c].daemon
  OBVIOUS
<1>a. d \in Requests
  BY <1>0, ConnectionFields DEF Types
<1>1. /\ conns[c].task = "releasing" /\ conns'[c].task = "ended"
      /\ \A b \in Connections \ {c} : Same(b)
      /\ conns'[c].old = conns[c].old /\ conns'[c].close = conns[c].close
      /\ live' = live
  BY TaskType DEF DisconnectDaemon, TaskStates, Others
<1>2. /\ registration'[d].lease \in {registration[d].lease, NoConnection} \ {c}
      /\ \A r \in Requests \ {d} : registration'[r] = registration[r]
  <2>1. registration' = IF registration[d].lease = c
                        THEN [registration EXCEPT ![d].lease = NoConnection] ELSE registration
    BY <1>0 DEF DisconnectDaemon
  <2> QED
    BY <1>a, <2>1, NoConnectionIsNone DEF Types, Registration
<1>3. \A r \in Requests : /\ live[r].conn \in Connections \cup {NoConnection}
                          /\ registration[r].lease \in Connections \cup {NoConnection}
  BY DEF Types, Entry, Registration
<1>4. LiveHasATask'
  BY <1>1, <1>3 DEF TrackInv, Same, LiveHasATask
<1>5. LeaseHasATask'
  BY <1>0, <1>1, <1>2, <1>3 DEF TrackInv, Same, LeaseHasATask
<1>6. \A b \in Connections :
         /\ conns'[b].task = "evicting" <=> conns[b].task = "evicting"
         /\ conns'[b].old = conns[b].old /\ conns'[b].close = conns[b].close
         /\ Entered(b) <=> Entered(b)'
         /\ Alive(b)' => Alive(b)
  BY <1>1 DEF Same, Entered, Alive
<1>7. EvictionsAreExclusive'
  BY <1>1, <1>6 DEF TrackInv, EvictionsAreExclusive
<1>8. ToldOnce'
  BY <1>1, <1>6 DEF TrackInv, ToldOnce
<1> QED
  BY <1>4, <1>5, <1>7, <1>8 DEF TrackInv

LEMMA TrackCloseDaemon ==
    ASSUME Types, TrackInv, NEW x \in closing, CloseDaemon(x)
    PROVE  TrackInv'
<1>1. /\ x.daemon \in Requests /\ x.conn \in Connections
      /\ \A b \in Connections : /\ conns'[b].daemon = conns[b].daemon
                                /\ conns'[b].task = conns[b].task
                                /\ conns'[b].old = conns[b].old
  BY CloseDaemonEffect
<1>2. registration' = registration
  BY DEF CloseDaemon
<1>3. CASE live' = live /\ conns' = conns
  BY <1>2, <1>3, TrackElsewhere DEF Same
<1>4. CASE /\ live[x.daemon].conn = x.conn
           /\ live' = [live EXCEPT ![x.daemon] = NoEntry]
           /\ \A b \in Connections :
                 conns'[b].close = conns[b].close \/ (b = x.conn /\ Alive(x.conn))
  <2>1. /\ live'[x.daemon].conn = NoConnection
        /\ \A r \in Requests \ {x.daemon} : live'[r] = live[r]
    BY <1>1, <1>4 DEF Types, NoEntry
  <2>2. \A r \in Requests : /\ live[r].conn \in Connections \cup {NoConnection}
                            /\ registration[r].lease \in Connections \cup {NoConnection}
    BY DEF Types, Entry, Registration
  <2>3. LiveHasATask'
    BY <1>1, <2>1, <2>2 DEF TrackInv, LiveHasATask
  <2>4. LeaseHasATask'
    BY <1>1, <1>2, <2>2 DEF TrackInv, LeaseHasATask
  <2>5. \A b \in Connections : (Entered(b) <=> Entered(b)') /\ (Alive(b) <=> Alive(b)')
    BY <1>1 DEF Entered, Alive
  <2>6. EvictionsAreExclusive'
    BY <1>1, <2>1, <2>5, NoConnectionIsNone DEF TrackInv, EvictionsAreExclusive
  <2>7. /\ Entered(x.conn) /\ \A r \in Requests : live'[r].conn # x.conn
        /\ \A b \in Connections : conns[b].task = "evicting" => conns[b].old # x.conn
    <3>1. /\ Entered(x.conn) /\ conns[x.conn].daemon = x.daemon
      BY <1>1, <1>4, LiveIsUnique, NoConnectionIsNone
    <3>2. ASSUME NEW r \in Requests PROVE live'[r].conn # x.conn
      BY <1>1, <2>1, <3>1, LiveIsUnique, NoConnectionIsNone
    <3>3. \A b \in Connections : conns[b].task = "evicting" => conns[b].old # x.conn
      BY <1>1, <1>4 DEF TrackInv, EvictionsAreExclusive
    <3> QED
      BY <3>1, <3>2, <3>3
  <2>8. ToldOnce'
    <3> SUFFICES ASSUME NEW y \in Connections, conns'[y].close, Alive(y)'
                 PROVE  /\ Entered(y)'
                        /\ \A r \in Requests : live'[r].conn # y
                        /\ \A b \in Connections : conns'[b].task = "evicting" => conns'[b].old # y
      BY DEF ToldOnce
    <3>1. CASE y = x.conn
      BY <1>1, <2>5, <2>7, <3>1
    <3>2. CASE y # x.conn
      <4>1. conns[y].close /\ Alive(y)
        BY <1>4, <2>5, <3>2
      <4> QED
        BY <1>1, <2>1, <2>5, <4>1, NoConnectionIsNone DEF TrackInv, ToldOnce
    <3> QED
      BY <3>1, <3>2
  <2> QED
    BY <2>3, <2>4, <2>6, <2>8 DEF TrackInv
<1> QED
  BY <1>3, <1>4, CloseDaemonEffect

LEMMA TrackDial ==
    ASSUME Types, TrackInv, NEW r \in Requests, Dial(r)
    PROVE  TrackInv'
<1>1. PICK c \in Connections :
         /\ conns[c].task = "none" /\ conns'[c].task = "hello" /\ ~conns'[c].close
         /\ Others(c)
  BY DialEffect
<1>2. UNCHANGED <<registration, live>>
  BY DEF Dial
<1>3. \A b \in Connections \ {c} : Same(b)
  BY <1>1 DEF Others
<1>4. \A q \in Requests : /\ live[q].conn \in Connections \cup {NoConnection}
                          /\ registration[q].lease \in Connections \cup {NoConnection}
  BY DEF Types, Entry, Registration
<1>5. LiveHasATask'
  BY <1>1, <1>2, <1>3, <1>4 DEF TrackInv, Same, LiveHasATask
<1>6. LeaseHasATask'
  BY <1>1, <1>2, <1>3, <1>4 DEF TrackInv, Same, LeaseHasATask
<1>7. \A b \in Connections :
         /\ conns'[b].task = "evicting" => conns[b].task = "evicting" /\ conns'[b].old = conns[b].old
         /\ Entered(b) <=> Entered(b)'
         /\ conns'[b].close /\ Alive(b)' => conns[b].close /\ Alive(b)
  BY <1>1, <1>3 DEF Same, Entered, Alive
<1>8. EvictionsAreExclusive'
  BY <1>2, <1>7 DEF TrackInv, EvictionsAreExclusive
<1>9. ToldOnce'
  BY <1>2, <1>7 DEF TrackInv, ToldOnce
<1> QED
  BY <1>5, <1>6, <1>8, <1>9 DEF TrackInv

LEMMA TrackRestart ==
    ASSUME Types, ServerRestart
    PROVE  TrackInv'
<1>1. /\ \A r \in Requests : live'[r].conn = NoConnection
      /\ \A r \in Requests : registration'[r].lease = NoConnection
      /\ \A c \in Connections : ~Alive(c)'
  BY RestartEffect DEF NoEntry
<1>2. \A c \in Connections : conns'[c].task # "evicting"
  BY <1>1 DEF Alive
<1> QED
  BY <1>1, <1>2
  DEF TrackInv, LiveHasATask, LeaseHasATask, EvictionsAreExclusive, ToldOnce

LEMMA TrackStep == Types /\ ClaimInv /\ TrackInv /\ [Next]_vars => TrackInv'
<1> SUFFICES ASSUME Types, ClaimInv, TrackInv, [Next]_vars PROVE TrackInv'
  OBVIOUS
<1>1. ASSUME UNCHANGED <<conns, live, registration>> PROVE TrackInv'
  BY <1>1, TrackElsewhere DEF Same
<1>2. ASSUME NEW r \in Requests, PollClaims(r) \/ PollAnswerLost(r) PROVE TrackInv'
  <2>1. /\ setup[r].state = "approved" /\ setup[r].age = "valid" /\ Claim(r)
        /\ UNCHANGED <<conns, live>>
    BY <1>2 DEF PollClaims, PollAnswerLost
  <2>2. \A q \in Requests : registration'[q].lease = registration[q].lease
    BY <2>1, ClaimEffect
  <2> QED
    BY <2>1, <2>2, TrackElsewhere DEF Same
<1>3. ASSUME NEW r \in Requests, RevokeDaemon(r) PROVE TrackInv'
  <2>1. /\ registration' = [registration EXCEPT ![r].revoked = TRUE, ![r].lease = NoConnection]
        /\ UNCHANGED <<conns, live>>
    BY <1>3 DEF RevokeDaemon
  <2>2. \A q \in Requests : registration'[q].lease \in {registration[q].lease, NoConnection}
    BY <2>1 DEF Types, Registration
  <2> QED
    BY <2>1, <2>2, TrackElsewhere DEF Same
<1>4. ASSUME NEW r \in Requests, ReadFrame(r) \/ LoseConnection(r) \/ SendHeartbeat(r)
      PROVE  TrackInv'
  BY <1>4, SocketSteps, TrackElsewhere
<1>5. ASSUME NEW c \in Connections,
             \/ RefuseConnection(c) \/ SendWelcome(c) \/ ServeClose(c) \/ ServeFrame(c)
             \/ ServeEnd(c) \/ QueryFails(c) \/ DisconnectFails(c)
      PROVE  TrackInv'
  BY <1>5, MovedSteps, TrackMoved
<1> QED
  BY <1>1, <1>2, <1>3, <1>4, <1>5, TrackConnect, TrackEnter, TrackSendClose, TrackOwnEntry,
     TrackDisconnect, TrackCloseDaemon, TrackDial, TrackRestart
  DEF Next, Steps, vars, RequestSetup, ApproveSetup, PollRefused, SetupAges

\* The server's records of connections and its tasks agree, and no task ever
\* waits for room in the close channel of another, in whatever order
\* connecting, evicting, revoking and leaving fall.
THEOREM ConnectionsStayTracked == Spec => []ConnectionsAreTracked
<1>1. Types /\ TrackInv => ConnectionsAreTracked
  <2> SUFFICES ASSUME Types, TrackInv PROVE ConnectionsAreTracked
    OBVIOUS
  <2>1. \A c \in Connections : conns[c].task = "evicting" => CloseHasRoom(conns[c].old)
    BY DEF TrackInv, EvictionsAreExclusive, ToldOnce, CloseHasRoom
  <2>2. ASSUME NEW x \in closing, live[x.daemon].conn = x.conn PROVE CloseHasRoom(x.conn)
    <3>1. x.daemon \in Requests /\ x.conn \in Connections
      BY DEF Types
    <3> QED
      BY <2>2, <3>1 DEF TrackInv, ToldOnce, CloseHasRoom
  <2> QED
    BY <2>1, <2>2 DEF TrackInv, ConnectionsAreTracked, RecordsHaveATask, CloseNeverBlocks
<1> QED
  BY <1>1, TrackInit, TrackStep, TypesInvariance, PTL DEF Spec
=============================================================================
