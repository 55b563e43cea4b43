------------------------- MODULE DaemonLoop_proofs -------------------------
(***************************************************************************)
(* Proofs about DaemonLoop, for channels of any capacity, any length of    *)
(* replay and any number of frames, completions and connections.           *)
(***************************************************************************)
EXTENDS DaemonLoop, TLAPS

-----------------------------------------------------------------------------
(* The inductive invariant.                                                *)

Entries == [kind : Kinds, of : Nat]
IsHandshake(i) == events[i].kind = "handshake"

\* A handshake in the channel belongs to a connection whose snapshot has not
\* been reconciled yet, and nothing is active until it has been taken out.  The
\* latest connection's is there only once it has been offered.
HandshakesAreAhead ==
    \A i \in 1..Len(events) : IsHandshake(i) =>
        /\ applied < events[i].of /\ events[i].of <= connection
        /\ events[i].of = connection => offered
        /\ phase # "active"

\* Handshakes that were left behind by a timeout wait in the order of their
\* connections, so that answering the first leaves later ones only.
HandshakesAscend ==
    \A i, j \in 1..Len(events) :
        IsHandshake(i) /\ IsHandshake(j) /\ i < j => events[i].of < events[j].of

\* A frame came over the connection reconciled last, and no handshake waits
\* before it: that one's connection would have to be active already.
FramesComeFirst ==
    \A i \in 1..Len(events) : ~IsHandshake(i) =>
        /\ events[i].of = applied
        /\ \A j \in 1..Len(events) : j < i => ~IsHandshake(j)

\* No oneshot channel is signalled ahead of its snapshot.
ReadyIsReconciled == \A c \in ready : c <= applied

\* The snapshot reconciled last is never of a connection still to be offered.
AppliedIsPast ==
    /\ applied <= connection
    /\ phase = "waiting" /\ ~offered => applied < connection

ActiveIsReconciled == phase = "active" => applied = connection

HoldingIsActive == holding # << >> => phase = "active"

Order == HandshakesAreAhead /\ HandshakesAscend /\ FramesComeFirst

IInv ==
    /\ TypeOK
    /\ Order
    /\ ReadyIsReconciled
    /\ AppliedIsPast
    /\ ActiveIsReconciled
    /\ HoldingIsActive
-----------------------------------------------------------------------------
(* The channel into the main loop, as the actions change it.               *)

\* The first entry is taken off: the others move up by one.
LEMMA TailEntries ==
    ASSUME NEW q \in Seq(Entries), q # << >>
    PROVE  /\ Tail(q) \in Seq(Entries)
           /\ Len(q) \in Nat /\ Len(q) > 0
           /\ q[1] \in Entries
           /\ Len(Tail(q)) = Len(q) - 1
           /\ \A i \in 1..Len(Tail(q)) : Tail(q)[i] = q[i + 1]
OBVIOUS

\* An entry is put at the end.
LEMMA AppendEntries ==
    ASSUME NEW q \in Seq(Entries), NEW e \in Entries
    PROVE  /\ Append(q, e) \in Seq(Entries)
           /\ Len(q) \in Nat
           /\ Len(Append(q, e)) = Len(q) + 1
           /\ \A i \in 1..Len(q) : Append(q, e)[i] = q[i]
           /\ Append(q, e)[Len(q) + 1] = e
OBVIOUS
-----------------------------------------------------------------------------
LEMMA IInvInit == Init => IInv
<1> SUFFICES ASSUME Init PROVE IInv
  OBVIOUS
<1>1. events = << >> /\ Len(events) = 0 /\ ready = {} /\ holding = << >>
  BY DEF Init
<1>2. {offered, closing, stopped} \subseteq BOOLEAN
  BY DEF Init
<1>3. TypeOK
  BY <1>1, <1>2, LoopAssumption DEF Init, LoopAssumption, TypeOK
<1>4. Order
  BY <1>1 DEF Order, HandshakesAreAhead, HandshakesAscend, FramesComeFirst
<1>5. ReadyIsReconciled /\ AppliedIsPast /\ ActiveIsReconciled /\ HoldingIsActive
  BY <1>1 DEF Init, ReadyIsReconciled, AppliedIsPast, ActiveIsReconciled, HoldingIsActive
<1> QED
  BY <1>3, <1>4, <1>5 DEF IInv

\* Steps that leave the channel into the main loop and the handshake alone.
LEMMA ElsewhereStep ==
    ASSUME IInv, TypeOK', UNCHANGED <<events, phase, connection, offered, handshake>>,
           HoldingIsActive'
    PROVE  IInv'
<1>1. Order'
  BY DEF IInv, Order, HandshakesAreAhead, HandshakesAscend, FramesComeFirst, IsHandshake,
         handshake
<1>2. ReadyIsReconciled' /\ AppliedIsPast' /\ ActiveIsReconciled'
  BY DEF IInv, ReadyIsReconciled, AppliedIsPast, ActiveIsReconciled, handshake
<1> QED
  BY <1>1, <1>2 DEF IInv

\* The head of the channel is a handshake: it and everything behind it are
\* handshakes of ever later connections.
LEMMA BehindAHandshake ==
    ASSUME IInv, events # << >>, IsHandshake(1)
    PROVE  /\ applied < events[1].of /\ events[1].of <= connection /\ phase # "active"
           /\ events[1].of = connection => offered
           /\ \A i \in 1..Len(events) : i > 1 =>
                 IsHandshake(i) /\ events[1].of < events[i].of
<1>1. Len(events) \in Nat /\ 1 \in 1..Len(events)
  BY DEF IInv, TypeOK
<1>2. \A i \in 1..Len(events) : i > 1 => IsHandshake(i)
  BY <1>1 DEF IInv, Order, FramesComeFirst
<1>3. \A i \in 1..Len(events) : i > 1 => events[1].of < events[i].of
  BY <1>1, <1>2 DEF IInv, Order, HandshakesAscend
<1> QED
  BY <1>1, <1>2, <1>3 DEF IInv, Order, HandshakesAreAhead

\* Answering it, in time or too late, keeps the order of the rest.
LEMMA AnswerStep ==
    ASSUME IInv, AnswerHandshake \/ AnswerTooLate, TypeOK'
    PROVE  IInv'
<1>1. /\ events # << >> /\ IsHandshake(1) /\ events' = Tail(events)
      /\ applied' = events[1].of
      /\ ready' \subseteq ready \cup {events[1].of}
      /\ UNCHANGED supervisor
  BY DEF AnswerHandshake, AnswerTooLate, Next1, IsHandshake
<1>2. UNCHANGED <<phase, connection, offered, holding>>
  BY <1>1 DEF supervisor
<1>3. /\ applied < events[1].of /\ events[1].of <= connection /\ phase # "active"
      /\ events[1].of = connection => offered
      /\ \A i \in 1..Len(events) : i > 1 => IsHandshake(i) /\ events[1].of < events[i].of
  BY <1>1, BehindAHandshake
<1>4. events \in Seq(Entries)
  BY DEF IInv, TypeOK, Entries
<1>5. /\ Len(events) \in Nat /\ Len(events) > 0 /\ events[1].of \in Nat
      /\ applied \in Nat /\ connection \in Nat
  BY <1>1, <1>4, TailEntries DEF Entries, IInv, TypeOK
<1>6. \A i \in 1..Len(events') :
         i + 1 \in 1..Len(events) /\ i + 1 > 1 /\ events'[i] = events[i + 1]
  BY <1>1, <1>4, TailEntries
<1>7. HandshakesAreAhead'
  <2> SUFFICES ASSUME NEW i \in 1..Len(events')
               PROVE  /\ applied' < events'[i].of /\ events'[i].of <= connection'
                      /\ events'[i].of = connection' => offered'
                      /\ phase' # "active"
    BY DEF HandshakesAreAhead
  <2>1. IsHandshake(i + 1) /\ events[1].of < events[i + 1].of
    BY <1>3, <1>6
  <2>2. /\ events[i + 1].of <= connection
        /\ events[i + 1].of = connection => offered
    BY <1>6, <2>1 DEF IInv, Order, HandshakesAreAhead
  <2> QED
    BY <1>1, <1>2, <1>3, <1>6, <2>1, <2>2
<1>8. HandshakesAscend'
  <2> SUFFICES ASSUME NEW i \in 1..Len(events'), NEW j \in 1..Len(events'), i < j
               PROVE  events'[i].of < events'[j].of
    BY DEF HandshakesAscend
  <2>1. IsHandshake(i + 1) /\ IsHandshake(j + 1) /\ i + 1 < j + 1
    BY <1>3, <1>6
  <2>2. events[i + 1].of < events[j + 1].of
    BY <1>6, <2>1 DEF IInv, Order, HandshakesAscend
  <2> QED
    BY <1>6, <2>2
<1>9. FramesComeFirst'
  <2>1. \A i \in 1..Len(events') : events'[i].kind = "handshake"
    BY <1>3, <1>6 DEF IsHandshake
  <2> QED
    BY <2>1 DEF FramesComeFirst, IsHandshake
<1>10. ReadyIsReconciled'
  <2>1. ready \subseteq Nat /\ \A c \in ready : c <= applied
    BY DEF IInv, TypeOK, ReadyIsReconciled
  <2>2. \A c \in ready' : c <= events[1].of
    BY <1>1, <1>3, <1>5, <2>1
  <2> QED
    BY <1>1, <2>2 DEF ReadyIsReconciled
<1>11. AppliedIsPast'
  BY <1>1, <1>2, <1>3, <1>5 DEF AppliedIsPast
<1>12. ActiveIsReconciled' /\ HoldingIsActive'
  BY <1>2, <1>3 DEF IInv, ActiveIsReconciled, HoldingIsActive
<1> QED
  BY <1>7, <1>8, <1>9, <1>10, <1>11, <1>12 DEF IInv, Order

\* A frame at the head is handled: what waits behind it does not change.
LEMMA FrameStep ==
    ASSUME IInv, HandleFrame, TypeOK'
    PROVE  IInv'
<1>1. /\ events # << >> /\ events' = Tail(events)
      /\ UNCHANGED <<phase, connection, offered, holding, ready, applied>>
  BY DEF HandleFrame, Next1, supervisor, handshake
<1>2. events \in Seq(Entries)
  BY DEF IInv, TypeOK, Entries
<1>3. \A i \in 1..Len(events') :
         i + 1 \in 1..Len(events) /\ events'[i] = events[i + 1]
  BY <1>1, <1>2, TailEntries
<1>4. HandshakesAreAhead'
  BY <1>1, <1>3 DEF IInv, Order, HandshakesAreAhead, IsHandshake
<1>5. HandshakesAscend'
  BY <1>1, <1>3 DEF IInv, Order, HandshakesAscend, IsHandshake
<1>6. FramesComeFirst'
  BY <1>1, <1>3 DEF IInv, Order, FramesComeFirst, IsHandshake
<1>7. ReadyIsReconciled' /\ AppliedIsPast' /\ ActiveIsReconciled' /\ HoldingIsActive'
  BY <1>1
  DEF IInv, ReadyIsReconciled, AppliedIsPast, ActiveIsReconciled, HoldingIsActive
<1> QED
  BY <1>4, <1>5, <1>6, <1>7 DEF IInv, Order

\* The handshake of a new connection goes behind those of the earlier ones.
LEMMA OfferStep ==
    ASSUME IInv, OfferHandshake, TypeOK'
    PROVE  IInv'
<1> DEFINE n == Len(events)
           e == Entry("handshake", connection)
<1>1. /\ events' = Append(events, e)
      /\ phase = "waiting" /\ ~offered /\ offered' = TRUE
      /\ UNCHANGED <<phase, connection, holding, ready, applied>>
  BY DEF OfferHandshake, handshake
<1>2. events \in Seq(Entries) /\ connection \in Nat /\ applied \in Nat
  BY DEF IInv, TypeOK, Entries
<1>3. e \in Entries /\ e.kind = "handshake" /\ e.of = connection
  BY <1>2 DEF Entries, Entry, Kinds
<1> HIDE DEF e
<1>4. /\ n \in Nat /\ Len(events') = n + 1
      /\ \A i \in 1..n : events'[i] = events[i]
      /\ events'[n + 1] = e
  BY <1>1, <1>2, <1>3, AppendEntries
<1>5. applied < connection
  BY <1>1 DEF IInv, AppliedIsPast
<1>6. \A i \in 1..n : events[i].of \in Nat
  <2>1. \A i \in 1..n : events[i] \in Entries
    BY <1>2
  <2> QED
    BY <2>1 DEF Entries
<1>7. \A i \in 1..n : events[i].kind = "handshake" =>
         applied < events[i].of /\ events[i].of < connection
  BY <1>1, <1>2, <1>6 DEF IInv, Order, HandshakesAreAhead, IsHandshake
<1>8. HandshakesAreAhead'
  <2> SUFFICES ASSUME NEW i \in 1..Len(events'), events'[i].kind = "handshake"
               PROVE  applied < events'[i].of /\ events'[i].of <= connection
    BY <1>1 DEF HandshakesAreAhead, IsHandshake
  <2>1. CASE i = n + 1
    BY <1>2, <1>3, <1>4, <1>5, <2>1
  <2>2. CASE i \in 1..n
    BY <1>2, <1>4, <1>6, <1>7, <2>2
  <2> QED
    BY <1>4, <2>1, <2>2
<1>9. HandshakesAscend'
  <2> SUFFICES ASSUME NEW i \in 1..Len(events'), NEW j \in 1..Len(events'), i < j,
                      events'[i].kind = "handshake", events'[j].kind = "handshake"
               PROVE  events'[i].of < events'[j].of
    BY DEF HandshakesAscend, IsHandshake
  <2>1. i \in 1..n
    BY <1>4
  <2>2. CASE j = n + 1
    BY <1>3, <1>4, <1>7, <2>1, <2>2
  <2>3. CASE j \in 1..n
    BY <1>4, <2>1, <2>3 DEF IInv, Order, HandshakesAscend, IsHandshake
  <2> QED
    BY <1>4, <2>2, <2>3
<1>10. FramesComeFirst'
  <2> SUFFICES ASSUME NEW i \in 1..Len(events'), events'[i].kind # "handshake"
               PROVE  /\ events'[i].of = applied
                      /\ \A j \in 1..Len(events') : j < i => events'[j].kind # "handshake"
    BY <1>1 DEF FramesComeFirst, IsHandshake
  <2>1. i \in 1..n /\ events[i].kind # "handshake"
    BY <1>3, <1>4
  <2>2. /\ events[i].of = applied
        /\ \A j \in 1..n : j < i => events[j].kind # "handshake"
    BY <2>1 DEF IInv, Order, FramesComeFirst, IsHandshake
  <2> QED
    BY <1>4, <2>1, <2>2
<1>11. ReadyIsReconciled' /\ ActiveIsReconciled' /\ HoldingIsActive'
  BY <1>1 DEF IInv, ReadyIsReconciled, ActiveIsReconciled, HoldingIsActive
<1>12. AppliedIsPast'
  BY <1>1, <1>2, <1>5 DEF AppliedIsPast
<1> QED
  BY <1>8, <1>9, <1>10, <1>11, <1>12 DEF IInv, Order

\* A frame is forwarded only on an active connection, so that no handshake is in
\* the channel.
LEMMA ForwardStep ==
    ASSUME IInv, ForwardFrame, TypeOK'
    PROVE  IInv'
<1>1. PICK k \in {"command", "gap"} : holding = <<Entry(k, connection)>>
  BY DEF ForwardFrame, IInv, TypeOK
<1> DEFINE n == Len(events)
           e == Entry(k, connection)
<1>2. /\ events' = Append(events, e) /\ holding' = << >>
      /\ UNCHANGED <<phase, connection, offered, ready, applied>>
  BY <1>1 DEF ForwardFrame, handshake
<1>3. events \in Seq(Entries) /\ connection \in Nat /\ phase = "active"
  BY <1>1 DEF IInv, TypeOK, Entries, HoldingIsActive
<1>4. e \in Entries /\ e.kind # "handshake" /\ e.of = connection
  BY <1>3 DEF Entries, Entry, Kinds
<1> HIDE DEF e
<1>5. /\ n \in Nat /\ Len(events') = n + 1
      /\ \A i \in 1..n : events'[i] = events[i]
      /\ events'[n + 1] = e
  BY <1>2, <1>3, <1>4, AppendEntries
<1>6. applied = connection
  BY <1>3 DEF IInv, ActiveIsReconciled
<1>7. \A i \in 1..n : events[i].kind # "handshake"
  BY <1>3 DEF IInv, Order, HandshakesAreAhead, IsHandshake
<1>8. \A i \in 1..Len(events') : events'[i].kind # "handshake"
  BY <1>4, <1>5, <1>7
<1>9. \A i \in 1..n : events[i].of = applied
  BY <1>7 DEF IInv, Order, FramesComeFirst, IsHandshake
<1>10. \A i \in 1..Len(events') : events'[i].of = applied
  BY <1>4, <1>5, <1>6, <1>9
<1>11. Order'
  BY <1>2, <1>8, <1>10
  DEF Order, HandshakesAreAhead, HandshakesAscend, FramesComeFirst, IsHandshake
<1>12. ReadyIsReconciled' /\ AppliedIsPast' /\ ActiveIsReconciled' /\ HoldingIsActive'
  BY <1>2 DEF IInv, ReadyIsReconciled, AppliedIsPast, ActiveIsReconciled, HoldingIsActive
<1> QED
  BY <1>11, <1>12 DEF IInv
-----------------------------------------------------------------------------
(* Types, action by action.                                                *)

LEMMA TypeStep == IInv /\ [Next]_vars => TypeOK'
<1> SUFFICES ASSUME IInv, [Next]_vars PROVE TypeOK'
  OBVIOUS
<1> USE LoopAssumption DEF LoopAssumption
<1>a. /\ TypeOK /\ events \in Seq(Entries) /\ Len(events) \in Nat
      /\ connection \in Nat
  BY DEF IInv, TypeOK, Entries
<1>1. CASE SendHeartbeat
  BY <1>1, <1>a DEF SendHeartbeat, Room, main, supervisor, handshake, TypeOK
<1>2. CASE RuntimeFinishes
  BY <1>2, <1>a DEF RuntimeFinishes, main, supervisor, handshake, TypeOK
<1>3. CASE Connect
  <2>1. holding = << >>
    BY <1>3 DEF Connect, IInv, HoldingIsActive
  <2>2. {offered', closing', stopped'} \subseteq BOOLEAN
    BY <1>3, <1>a, Zenon DEF Connect, main, TypeOK
  <2>3. /\ UNCHANGED <<outbound, events, control, holding, emitting, completions, ready,
                       applied>>
        /\ phase' = "waiting" /\ connection' \in Nat
    BY <1>3, <1>a DEF Connect, main, handshake
  <2> QED
    BY <1>a, <2>1, <2>2, <2>3 DEF TypeOK
<1>4. CASE OfferHandshake
  <2>1. Entry("handshake", connection) \in Entries
    BY <1>a DEF Entry, Entries, Kinds
  <2>2. events' \in Seq(Entries) /\ Len(events') = Len(events) + 1
    BY <1>4, <1>a, <2>1, AppendEntries DEF OfferHandshake
  <2> QED
    BY <1>4, <1>a, <2>2 DEF OfferHandshake, Room, main, counts, handshake, TypeOK, Entries
<1>5. CASE CoordinationReady \/ CoordinationTimeout \/ Drop
  BY <1>5, <1>a DEF CoordinationReady, CoordinationTimeout, Drop, main, counts, handshake,
                    TypeOK
<1>6. CASE WriteFrame
  BY <1>6, <1>a DEF WriteFrame, main, supervisor, handshake, TypeOK
<1>7. ASSUME NEW kind \in {"command", "gap"}, ReadFrame(kind) PROVE TypeOK'
  BY <1>7, <1>a DEF ReadFrame, main, handshake, TypeOK
<1>8. CASE ForwardFrame
  <2>1. PICK k \in {"command", "gap"} : holding = <<Entry(k, connection)>>
    BY <1>8, <1>a DEF ForwardFrame, TypeOK
  <2>2. Entry(k, connection) \in Entries
    BY <1>a DEF Entry, Entries, Kinds
  <2>3. events' = Append(events, Entry(k, connection))
    BY <1>8, <2>1 DEF ForwardFrame
  <2>4. events' \in Seq(Entries) /\ Len(events') = Len(events) + 1
    BY <1>a, <2>2, <2>3, AppendEntries
  <2> QED
    BY <1>8, <1>a, <2>4 DEF ForwardFrame, Room, main, counts, handshake, TypeOK, Entries
<1>9. CASE CloseOnRequest
  BY <1>9, <1>a DEF CloseOnRequest, main, counts, handshake, TypeOK
<1>10. CASE AnswerHandshake \/ AnswerTooLate \/ HandleFrame
  <2>1. events # << >> /\ events' = Tail(events)
    BY <1>10 DEF AnswerHandshake, AnswerTooLate, HandleFrame, Next1
  <2>2. /\ events' \in Seq(Entries) /\ Len(events') = Len(events) - 1
        /\ events[1].of \in Nat
    BY <1>a, <2>1, TailEntries DEF Entries
  <2>3. {offered', closing', stopped'} \subseteq BOOLEAN
    BY <1>10, <1>a, Zenon
    DEF AnswerHandshake, AnswerTooLate, HandleFrame, supervisor, TypeOK
  <2>4. applied' \in Nat /\ emitting' \in Nat /\ ready' \subseteq Nat
    <3>1. CASE AnswerHandshake
      BY <1>a, <2>2, <3>1 DEF AnswerHandshake, TypeOK
    <3>2. CASE AnswerTooLate
      BY <1>a, <2>2, <3>2 DEF AnswerTooLate, TypeOK
    <3>3. CASE HandleFrame
      BY <1>a, <3>3 DEF HandleFrame, handshake, TypeOK
    <3> QED
      BY <1>10, <3>1, <3>2, <3>3
  <2>5. UNCHANGED <<outbound, control, phase, connection, holding, completions>>
    BY <1>10 DEF AnswerHandshake, AnswerTooLate, HandleFrame, supervisor
  <2>6. {connection', applied', emitting', completions'} \subseteq Nat
    BY <1>a, <2>4, <2>5 DEF TypeOK
  <2>7. /\ outbound' \in 0..OutboundCapacity /\ control' \in 0..1
        /\ phase' \in {"offline", "waiting", "active"}
        /\ holding' = << >> \/
              \E kind \in {"command", "gap"} : holding' = <<Entry(kind, connection')>>
    BY <1>a, <2>5 DEF TypeOK
  <2>8. events' \in Seq([kind : Kinds, of : Nat]) /\ Len(events') <= EventCapacity
    BY <1>a, <2>2 DEF TypeOK, Entries
  <2> QED
    BY <2>3, <2>4, <2>6, <2>7, <2>8 DEF TypeOK
<1>11. CASE HandleCompletion
  BY <1>11, <1>a DEF HandleCompletion, supervisor, handshake, TypeOK
<1>12. CASE EmitFrame
  BY <1>12, <1>a DEF EmitFrame, Room, supervisor, handshake, TypeOK
<1>13. CASE RequestClose
  <2>1. {offered', closing', stopped'} \subseteq BOOLEAN
    BY <1>13, <1>a, Zenon DEF RequestClose, supervisor, TypeOK
  <2>2. control' \in 0..1
    BY <1>13, <1>a DEF RequestClose, Room, TypeOK
  <2>3. UNCHANGED <<outbound, events, emitting, supervisor, handshake, completions>>
    BY <1>13 DEF RequestClose
  <2> QED
    BY <1>a, <2>1, <2>2, <2>3 DEF supervisor, handshake, TypeOK
<1>14. CASE UNCHANGED vars
  BY <1>14, <1>a DEF vars, main, supervisor, handshake, TypeOK
<1> QED
  BY <1>1, <1>2, <1>3, <1>4, <1>5, <1>6, <1>7, <1>8, <1>9, <1>10, <1>11, <1>12, <1>13,
     <1>14
  DEF Next, SupervisorStep, MainStep, Environment
-----------------------------------------------------------------------------
LEMMA IInvStep == IInv /\ [Next]_vars => IInv'
<1> SUFFICES ASSUME IInv, [Next]_vars PROVE IInv'
  OBVIOUS
<1>a. TypeOK'
  BY TypeStep
<1>b. /\ events \in Seq(Entries) /\ connection \in Nat /\ applied \in Nat
      /\ ready \subseteq Nat
      /\ \A i \in 1..Len(events) : events[i].of \in Nat
  <2>1. events \in Seq(Entries)
    BY DEF IInv, TypeOK, Entries
  <2>2. \A i \in 1..Len(events) : events[i] \in Entries
    BY <2>1
  <2>3. \A i \in 1..Len(events) : events[i].of \in Nat
    BY <2>2 DEF Entries
  <2> QED
    BY <2>1, <2>3 DEF IInv, TypeOK
<1>1. CASE Connect
  <2>1. /\ phase = "offline" /\ phase' = "waiting" /\ connection' = connection + 1
        /\ offered' = FALSE /\ UNCHANGED <<events, holding, ready, applied>>
    BY <1>1 DEF Connect, handshake
  <2>2. HandshakesAreAhead'
    BY <1>b, <2>1 DEF IInv, Order, HandshakesAreAhead, IsHandshake
  <2>3. HandshakesAscend' /\ FramesComeFirst'
    BY <2>1 DEF IInv, Order, HandshakesAscend, FramesComeFirst, IsHandshake
  <2>4. ReadyIsReconciled' /\ AppliedIsPast' /\ ActiveIsReconciled' /\ HoldingIsActive'
    BY <1>b, <2>1
    DEF IInv, ReadyIsReconciled, AppliedIsPast, ActiveIsReconciled, HoldingIsActive
  <2> QED
    BY <1>a, <2>2, <2>3, <2>4 DEF IInv, Order
<1>2. CASE OfferHandshake
  BY <1>2, <1>a, OfferStep
<1>3. CASE CoordinationReady
  <2>1. /\ phase = "waiting" /\ phase' = "active" /\ connection \in ready
        /\ UNCHANGED <<events, connection, offered, holding, ready, applied>>
    BY <1>3 DEF CoordinationReady, Signalled, handshake
  <2>2. applied = connection
    BY <1>b, <2>1 DEF IInv, ReadyIsReconciled, AppliedIsPast
  <2>3. \A i \in 1..Len(events) : ~IsHandshake(i)
    BY <1>b, <2>2 DEF IInv, Order, HandshakesAreAhead
  <2>4. Order'
    BY <2>1, <2>3
    DEF IInv, Order, HandshakesAreAhead, HandshakesAscend, FramesComeFirst, IsHandshake
  <2>5. ReadyIsReconciled' /\ AppliedIsPast' /\ ActiveIsReconciled' /\ HoldingIsActive'
    BY <2>1, <2>2
    DEF IInv, ReadyIsReconciled, AppliedIsPast, ActiveIsReconciled, HoldingIsActive
  <2> QED
    BY <1>a, <2>4, <2>5 DEF IInv
<1>4. CASE CoordinationTimeout \/ CloseOnRequest \/ Drop
  <2>1. /\ phase' = "offline" /\ UNCHANGED <<events, connection, offered, holding, ready, applied>>
    BY <1>4 DEF CoordinationTimeout, CloseOnRequest, Drop, handshake
  <2>2. holding = << >>
    BY <1>4 DEF CoordinationTimeout, CloseOnRequest, Drop, IInv, HoldingIsActive
  <2>3. Order'
    BY <2>1
    DEF IInv, Order, HandshakesAreAhead, HandshakesAscend, FramesComeFirst, IsHandshake
  <2>4. ReadyIsReconciled' /\ AppliedIsPast' /\ ActiveIsReconciled' /\ HoldingIsActive'
    BY <2>1, <2>2
    DEF IInv, ReadyIsReconciled, AppliedIsPast, ActiveIsReconciled, HoldingIsActive
  <2> QED
    BY <1>a, <2>3, <2>4 DEF IInv
<1>5. ASSUME NEW kind \in {"command", "gap"}, ReadFrame(kind) PROVE IInv'
  <2>1. HoldingIsActive' /\ UNCHANGED <<events, phase, connection, offered, handshake>>
    BY <1>5 DEF ReadFrame, HoldingIsActive
  <2> QED
    BY <1>a, <2>1, ElsewhereStep
<1>6. CASE ForwardFrame
  BY <1>6, <1>a, ForwardStep
<1>7. CASE AnswerHandshake \/ AnswerTooLate
  BY <1>7, <1>a, AnswerStep
<1>8. CASE HandleFrame
  BY <1>8, <1>a, FrameStep
<1>9. CASE SendHeartbeat \/ RuntimeFinishes \/ WriteFrame \/ HandleCompletion
             \/ EmitFrame \/ RequestClose \/ UNCHANGED vars
  <2>1. UNCHANGED <<events, supervisor, handshake>>
    BY <1>9 DEF SendHeartbeat, RuntimeFinishes, WriteFrame, HandleCompletion, EmitFrame,
                RequestClose, vars
  <2>2. HoldingIsActive'
    BY <2>1 DEF IInv, HoldingIsActive, supervisor
  <2> QED
    BY <1>a, <2>1, <2>2, ElsewhereStep DEF supervisor
<1> QED
  BY <1>1, <1>2, <1>3, <1>4, <1>5, <1>6, <1>7, <1>8, <1>9
  DEF Next, SupervisorStep, MainStep, Environment

LEMMA Invariance == Spec => []IInv
BY IInvInit, IInvStep, PTL DEF Spec

\* No channel of the daemon outgrows its capacity and every entry in one is of
\* a kind its reader knows, for any capacities.
THEOREM ChannelsAreBounded == Spec => []TypeOK
<1>1. IInv => TypeOK
  BY DEF IInv
<1> QED
  BY <1>1, Invariance, PTL

\* The supervisor moves application frames only when the snapshot reconciled
\* last is its current connection's own, and a frame waits for the main loop only
\* under the snapshot of the connection it came over: for any number of
\* handshakes timed out, answered too late or with their answer lost.
THEOREM TrafficUnderOwnSnapshot == Spec => []TrafficFollowsItsSnapshot
<1>1. IInv => TrafficFollowsItsSnapshot
  <2> SUFFICES ASSUME IInv PROVE TrafficFollowsItsSnapshot
    OBVIOUS
  <2>1. DOMAIN events = 1..Len(events)
    BY DEF IInv, TypeOK
  <2>2. \A i \in 1..Len(events) : events[i].kind # "handshake" => events[i].of = applied
    BY DEF IInv, Order, FramesComeFirst, IsHandshake
  <2> QED
    BY <2>1, <2>2 DEF IInv, ActiveIsReconciled, TrafficFollowsItsSnapshot
<1> QED
  BY <1>1, Invariance, PTL
=============================================================================
