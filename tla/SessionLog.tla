----------------------------- MODULE SessionLog -----------------------------
(***************************************************************************)
(* What the delivery machinery of one execution session promises, with no  *)
(* connection, queue, retry, journal or crash in sight:                    *)
(*   - every command reaches the runtime at most once, and commands other  *)
(*     than a cancel reach it in the order the server issued them;         *)
(*   - the server handles exactly the daemon's events, once each and in    *)
(*     the order the daemon committed them.                                *)
(***************************************************************************)
EXTENDS Integers, Sequences

VARIABLES
    commands,  \* Seq({"run", "cancel"}): what the server has issued
    invoked,   \* Seq(Nat): the commands handed to the runtime, in order
    events,    \* Seq: the events the daemon has committed
    applied    \* Seq: the events the server has handled

logVars == <<commands, invoked, events, applied>>

LogInit == commands = << >> /\ invoked = << >> /\ events = << >> /\ applied = << >>

Issue ==
    /\ \E kind \in {"run", "cancel"} : commands' = Append(commands, kind)
    /\ UNCHANGED <<invoked, events, applied>>

\* Command s may be handed over: never before, and no later run before it.
MayInvoke(s) ==
    /\ s \in DOMAIN commands
    /\ \A i \in DOMAIN invoked :
          /\ invoked[i] # s
          /\ commands[s] = "run" /\ commands[invoked[i]] = "run" => invoked[i] < s

\* The daemon commits the events of a finished command and hands over the
\* next one, does only one of the two, or hands over one it has received.
Work ==
    /\ \/ invoked' = invoked
       \/ \E s \in DOMAIN commands : MayInvoke(s) /\ invoked' = Append(invoked, s)
    /\ Len(events) <= Len(events')
    /\ SubSeq(events', 1, Len(events)) = events
    /\ UNCHANGED <<commands, applied>>

Apply ==
    /\ Len(applied) < Len(events)
    /\ applied' = Append(applied, events[Len(applied) + 1])
    /\ UNCHANGED <<commands, invoked, events>>

LogNext == Issue \/ Work \/ Apply

LogSpec == LogInit /\ [][LogNext]_logVars
=============================================================================
