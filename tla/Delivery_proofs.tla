-------------------------- MODULE Delivery_proofs --------------------------
(***************************************************************************)
(* Theorems about Delivery, for any number of commands, events, repeats,   *)
(* disconnections, crashes and restarts.                                   *)
(*                                                                         *)
(* The inductive invariant IInv says of the journal that its commands and  *)
(* events are in order (JournalInv), of the server that outbox, tombstones *)
(* and receipts agree with the journal (OutboxInv, ReceiptsInv,            *)
(* HandledInv), of every frame on its way that it is one its sender may    *)
(* still send (QueueInv), and of the scheduler that it holds exactly what  *)
(* the journal has started (HandOverInv).  The lemmas come in three        *)
(* layers: what each update of journal.rs and each transaction of the      *)
(* server does to one value, what each action does to IInv, and the        *)
(* theorems.  Works, IssueStep and ServerStep say what a step is to the    *)
(* session log.                                                            *)
(***************************************************************************)
EXTENDS Delivery, FiniteSetTheorems, SequenceTheorems, WellFoundedInduction, TLAPS
-----------------------------------------------------------------------------
(* The journal.  A command is done when it is terminal or a tombstone.     *)

Done(j, s) == s \in j.tombstones \/ (s \in DOMAIN j.commands /\ j.commands[s] = "terminal")
Begun(j) == {s \in DOMAIN j.commands : j.commands[s] = "dispatch_started"}
IdOf(j, n) == IF n \in DOMAIN j.events THEN j.events[n].id ELSE j.eventTombstones[n]

Fields(j) ==
    [commands |-> j.commands, tombstones |-> j.tombstones, processed |-> j.processed,
     tracked |-> j.tracked, events |-> j.events, eventTombstones |-> j.eventTombstones,
     eventAck |-> j.eventAck, sparse |-> j.sparse]

\* Commands: what is behind the boundary is done, and a run is started in its
\* turn and finished behind the boundary.
CommandsInOrder(j, cmds) ==
    /\ DOMAIN j.commands \cup j.tombstones \subseteq 1..Len(cmds)
    /\ DOMAIN j.commands \cap j.tombstones = {}
    /\ j.tombstones \subseteq 1..j.processed
    /\ \A s \in 1..j.processed : Done(j, s)
    /\ \A s \in DOMAIN j.commands : cmds[s] = "run" =>
          /\ j.commands[s] = "dispatch_started" => s = j.processed + 1
          /\ j.commands[s] = "terminal" => s <= j.processed

\* Events: numbered without a hole, each with an identity of its own that names a
\* command that is done.
EventsInOrder(j, k) ==
    /\ k \in Nat
    /\ DOMAIN j.events \cup DOMAIN j.eventTombstones = 1..k
    /\ DOMAIN j.events \cap DOMAIN j.eventTombstones = {}
    /\ j.eventAck <= k
    /\ j.sparse \subseteq 1..k
    /\ \A n \in 1..k : Done(j, IdOf(j, n)[1])
    /\ \A n, m \in 1..k : IdOf(j, n) = IdOf(j, m) => n = m

JournalInv(j, cmds, k) ==
    /\ j = Fields(j)
    /\ JournalFile(j)
    /\ CommandsInOrder(j, cmds)
    /\ EventsInOrder(j, k)
-----------------------------------------------------------------------------
(* The server, and the journal it talks to.                                *)

\* The commands whose receipt the daemon may have told: not one that was received
\* in its turn but whose handler died before it was started.
Ackable(j, up) ==
    {s \in DOMAIN j.commands \cup j.tombstones :
        ~ /\ s = Expected(j) /\ s \in DOMAIN j.commands /\ j.commands[s] = "received"
          /\ up \/ ~j.tracked}

ServerFields(sv) ==
    [outbox |-> sv.outbox, acknowledged |-> sv.acknowledged, tombstones |-> sv.tombstones,
     commandAck |-> sv.commandAck, receipts |-> sv.receipts, eventAck |-> sv.eventAck]

OutboxInv(sv, n) ==
    /\ sv.outbox \cup sv.tombstones = 1..n
    /\ sv.outbox \cap sv.tombstones = {}
    /\ sv.acknowledged \subseteq sv.outbox
    /\ sv.commandAck \in 0..n
    /\ \A s \in sv.outbox : s <= sv.commandAck => s \in sv.acknowledged

ReceiptsInv(sv, j, k) ==
    /\ sv.eventAck \in 0..k
    /\ DOMAIN sv.receipts = 1..sv.eventAck
    /\ \A n \in 1..sv.eventAck : sv.receipts[n] = IdOf(j, n)

\* What the journal holds for acknowledged.
HandledInv(j, ack) ==
    /\ \A n \in DOMAIN j.events : j.events[n].acknowledged => n <= ack
    /\ DOMAIN j.eventTombstones \cup j.sparse \subseteq 1..ack
    /\ j.eventAck <= ack

UpFrames(j, up, k) ==
    {CommandAck(s) : s \in Ackable(j, up)} \cup {Event(n, IdOf(j, n)) : n \in 1..k}
DownFrames(j, n, ack) ==
    {Command(s) : s \in 1..n} \cup {EventAck(m, IdOf(j, m)) : m \in 1..ack}
      \cup {Reconcile(m, b) : m \in 0..ack, b \in BOOLEAN}
-----------------------------------------------------------------------------
(* The scheduler's list, and the history of hand-overs.                    *)

HandOverInv ==
    /\ \A i, k \in DOMAIN scheduled : scheduled[i] = scheduled[k] => i = k
    /\ Len(recovered.commands) <= 1
    /\ \A s \in ToSet(recovered.commands) : s \notin ToSet(scheduled) \cup ToSet(invoked)
    /\ IF daemon = "up" THEN Begun(journal) = ToSet(scheduled) \cup ToSet(recovered.commands)
       ELSE scheduled = << >> /\ recovered.commands = << >>
    /\ \A s \in ToSet(invoked) : s \in Begun(journal) \/ Done(journal, s)

LastEvent(j) == NextEvent(j) - 1

Up == UpFrames(journal, daemon = "up", LastEvent(journal))
Down == DownFrames(journal, Len(issued), server.eventAck)

StoreInv ==
    /\ issued \in Seq({"run", "cancel"})
    /\ JournalInv(journal, issued, LastEvent(journal))
    /\ server = ServerFields(server)
    /\ OutboxInv(server, Len(issued))
    /\ server.acknowledged \cup server.tombstones \subseteq Ackable(journal, daemon = "up")
    /\ ReceiptsInv(server, journal, LastEvent(journal))
    /\ HandledInv(journal, server.eventAck)

QueueInv ==
    /\ late \in Seq(Up) /\ toServer \in Seq(Up) /\ recovered.frames \in Seq(Up)
    /\ toDaemon \in Seq(Down)

ShapeInv ==
    /\ dispatching \subseteq 1..Len(issued)
    /\ link \in {"down", "snapshot", "pending", "ready"} /\ active \in BOOLEAN
    /\ daemon \in {"down", "recovering", "up"}
    /\ recovered = [frames |-> recovered.frames, commands |-> recovered.commands]
    /\ scheduled \in Seq(1..Len(issued)) /\ recovered.commands \in Seq(1..Len(issued))
    /\ invoked \in Seq(1..Len(issued))

IInv == StoreInv /\ QueueInv /\ ShapeInv /\ HandOverInv
-----------------------------------------------------------------------------
(* Numbers and ascending sequences.                                        *)

\* A set of numbers that is not empty has a least one.
LEMMA LeastNumber ==
    ASSUME NEW S \in SUBSET Nat, S # {}
    PROVE  \E x \in S : \A y \in S : x <= y
  <1> DEFINE R == {ss \in Nat \X Nat : ss[1] < ss[2]}
  <1>1. IsWellFoundedOn(R, Nat)
    BY NatLessThanWellFounded DEF OpToRel
  <1> HIDE DEF R
  <1>2. PICK x \in S : \A y \in S : ~(<<y, x>> \in R)
    BY <1>1, WFMin
  <1>3. ASSUME NEW y \in S PROVE x <= y
    <2> DEFINE ss == <<y, x>>
    <2>1. ss \in Nat \X Nat /\ ss[1] = y /\ ss[2] = x
      OBVIOUS
    <2> HIDE DEF ss
    <2>2. y < x => ss \in R
      BY <2>1 DEF R
    <2>3. ~(ss \in R)
      BY <1>2 DEF ss
    <2> QED
      BY <2>2, <2>3
  <1> QED
    BY <1>3

\* A bounded set of numbers that is not empty has its Max and its Min.
LEMMA Bounded ==
    ASSUME NEW n \in Nat, NEW S \in SUBSET (0..n), S # {}
    PROVE  /\ Max(S) \in S /\ \A y \in S : y <= Max(S)
           /\ Min(S) \in S /\ \A y \in S : Min(S) <= y
  <1> DEFINE U == {u \in 0..n : \A y \in S : u >= y}
  <1>1. n \in U /\ U \in SUBSET Nat
    OBVIOUS
  <1>2. PICK x \in U : \A u \in U : x <= u
    BY <1>1, LeastNumber
  <1>3. x \in S
    <2> SUFFICES ASSUME x \notin S PROVE FALSE
      OBVIOUS
    <2>1. \A y \in S : y \in Nat /\ x \in Nat /\ x >= y /\ x # y
      BY <1>2
    <2>2. \A y \in S : x - 1 >= y
      BY <2>1
    <2>3. x - 1 \in 0..n
      <3>1. PICK y \in S : TRUE
        OBVIOUS
      <3>2. x \in 0..n /\ y \in Nat /\ x >= y /\ x # y
        BY <1>2, <2>1, <3>1
      <3> QED
        BY <3>2
    <2>4. x - 1 \in U
      BY <2>2, <2>3
    <2> QED
      BY <1>2, <2>4
  <1>4. \A y \in S : x >= y
    BY <1>2
  <1>5. PICK z \in S : \A y \in S : z <= y
    BY LeastNumber, S \in SUBSET Nat
  <1>6. Max(S) \in S /\ \A y \in S : Max(S) >= y
    BY <1>3, <1>4 DEF Max
  <1>7. Min(S) \in S /\ \A y \in S : Min(S) =< y
    BY <1>5 DEF Min
  <1> QED
    BY <1>6, <1>7

\* The elements of a bounded set, in ascending order.
IsAscending(q) == \A i, k \in DOMAIN q : i < k => q[i] < q[k]
Enumerations(S) == {q \in [1..Cardinality(S) -> S] : IsAscending(q)}

LEMMA EnumerationsExist ==
    ASSUME NEW n \in Nat, NEW S \in SUBSET (1..n)
    PROVE  Enumerations(S) # {}
  <1> DEFINE B == {k \in Nat : \E T \in SUBSET (1..k) : Enumerations(T) = {}}
  <1> SUFFICES ASSUME B # {} PROVE FALSE
    OBVIOUS
  <1>0. B \in SUBSET Nat
    OBVIOUS
  <1> HIDE DEF B
  <1>1. PICK k \in B : \A m \in B : k <= m
    BY <1>0, LeastNumber
  <1>2. PICK T \in SUBSET (1..k) : Enumerations(T) = {}
    BY <1>1 DEF B
  <1>3. IsFiniteSet(T) /\ k \in Nat
    <2>1. k \in Nat
      BY <1>0, <1>1
    <2>2. IsFiniteSet(1..k)
      BY <2>1, FS_Interval
    <2> QED
      BY <1>2, <2>1, <2>2, FS_Subset
  <1>4. CASE T = {}
    <2>1. Cardinality(T) = 0
      BY <1>4, FS_EmptySet
    <2>2. [i \in 1..0 |-> i] \in [1..0 -> T] /\ IsAscending([i \in 1..0 |-> i])
      BY DEF IsAscending
    <2> QED
      BY <1>2, <2>1, <2>2 DEF Enumerations
  <1>5. CASE k \notin T /\ T # {}
    <2>1. \A x \in T : x \in 1..k /\ x # k
      BY <1>2, <1>5
    <2>2. k - 1 \in Nat /\ \A x \in T : x \in 1..(k - 1)
      <3>1. PICK x \in T : TRUE
        BY <1>5
      <3> QED
        BY <1>3, <2>1, <3>1
    <2>3. T \in SUBSET (1..(k - 1))
      BY <2>2
    <2>4. k - 1 \in B
      BY <1>2, <2>2, <2>3 DEF B
    <2> QED
      BY <1>1, <1>3, <2>4
  <1>6. CASE k \in T
    <2> DEFINE V == T \ {k}
               c == Cardinality(V)
    <2>1. k - 1 \in Nat /\ V \in SUBSET (1..(k - 1))
      BY <1>3, <1>6
    <2>2. k - 1 \notin B
      BY <1>1, <1>3
    <2>3. Enumerations(V) # {}
      BY <2>1, <2>2 DEF B
    <2>4. PICK q \in [1..c -> V] : IsAscending(q)
      BY <2>3 DEF Enumerations
    <2>5. IsFiniteSet(V) /\ c \in Nat /\ Cardinality(T) = c + 1
      <3>1. IsFiniteSet(V)
        BY <1>3, FS_Subset
      <3>2. T = V \cup {k} /\ k \notin V
        BY <1>6
      <3> QED
        BY <3>1, <3>2, FS_AddElement, FS_CardinalityType
    <2> HIDE DEF c
    <2> DEFINE r == [i \in 1..(c + 1) |-> IF i = c + 1 THEN k ELSE q[i]]
    <2>6. r \in [1..(c + 1) -> T]
      BY <1>6, <2>4, <2>5
    <2>7. \A i \in 1..c : q[i] \in Nat /\ q[i] < k
      <3>1. \A i \in 1..c : q[i] \in 1..(k - 1)
        BY <2>1, <2>4
      <3> QED
        BY <1>3, <3>1
    <2>8. IsAscending(r)
      BY <2>4, <2>5, <2>7 DEF IsAscending
    <2> HIDE DEF r
    <2> QED
      BY <1>2, <2>5, <2>6, <2>8 DEF Enumerations
  <1> QED
    BY <1>4, <1>5, <1>6

\* Ascending is one of them.
LEMMA AscendingSeq ==
    ASSUME NEW n \in Nat, NEW S \in SUBSET (1..n)
    PROVE  /\ Ascending(S) \in Seq(S)
           /\ S = {} => Ascending(S) = << >>
           /\ \A x : S = {x} => Ascending(S) = <<x>>
  <1>1. Ascending(S) \in [1..Cardinality(S) -> S]
    <2>1. PICK q \in [1..Cardinality(S) -> S] : IsAscending(q)
      BY EnumerationsExist DEF Enumerations
    <2> QED
      BY <2>1 DEF Ascending, IsAscending
  <1>2. Cardinality(S) \in Nat
    <2>1. IsFiniteSet(1..n)
      BY FS_Interval
    <2>2. IsFiniteSet(S)
      BY <2>1, FS_Subset
    <2> QED
      BY <2>2, FS_CardinalityType
  <1>3. Ascending(S) \in Seq(S) /\ Len(Ascending(S)) = Cardinality(S)
    BY <1>1, <1>2
  <1>4. S = {} => Cardinality(S) = 0
    BY FS_EmptySet
  <1>5. \A x : S = {x} => Cardinality(S) = 1
    BY FS_Singleton
  <1>7. S = {} => Ascending(S) = << >>
    BY <1>3, <1>4
  <1>6. ASSUME NEW x, S = {x} PROVE Ascending(S) = <<x>>
    <2>1. Ascending(S) \in [1..1 -> {x}]
      BY <1>1, <1>5, <1>6
    <2> QED
      BY <2>1
  <1> QED
    BY <1>3, <1>6, <1>7
-----------------------------------------------------------------------------
(* The updates of the journal.                                             *)

SameCommands(r, j) ==
    r.commands = j.commands /\ r.tombstones = j.tombstones /\ r.processed = j.processed
SameEvents(r, j) ==
    /\ r.events = j.events /\ r.eventTombstones = j.eventTombstones
    /\ r.eventAck = j.eventAck /\ r.sparse = j.sparse

\* next_event_sequence, when there is no hole.
LEMMA NextEventIs ==
    ASSUME NEW j, NEW k, JournalFile(j), EventsInOrder(j, k)
    PROVE  NextEvent(j) = k + 1 /\ LastEvent(j) = k
  <1> DEFINE S == {j.eventAck} \cup j.sparse \cup DOMAIN j.events \cup DOMAIN j.eventTombstones
  <1>1. k \in Nat /\ j.eventAck \in 0..k /\ j.sparse \subseteq 1..k
        /\ DOMAIN j.events \cup DOMAIN j.eventTombstones = 1..k
    BY DEF JournalFile, EventsInOrder
  <1>2. \A x \in S : x \in 0..k
    BY <1>1
  <1>3. k > 0 => k \in S
    BY <1>1
  <1>4. S \in SUBSET (0..k) /\ S # {}
    BY <1>2
  <1> HIDE DEF S
  <1>5. Max(S) \in S /\ \A y \in S : y <= Max(S)
    BY <1>1, <1>4, Bounded
  <1>6. Max(S) = k
    BY <1>1, <1>2, <1>3, <1>5
  <1> QED
    BY <1>1, <1>6 DEF NextEvent, LastEvent, S

\* An update of commands only.
LEMMA EventsKept ==
    ASSUME NEW j, NEW r, NEW k, EventsInOrder(j, k), SameEvents(r, j),
           \A s : Done(j, s) => Done(r, s)
    PROVE  EventsInOrder(r, k) /\ \A n : IdOf(r, n) = IdOf(j, n)
  <1>1. \A n : IdOf(r, n) = IdOf(j, n)
    BY DEF SameEvents, IdOf
  <1> QED
    BY <1>1 DEF SameEvents, EventsInOrder

\* prepare_command
LEMMA PrepareFields ==
    ASSUME NEW j, j = Fields(j), NEW s, NEW r, r = Prepare(j, s), ~Known(j, s)
    PROVE  /\ r = Fields(r) /\ SameEvents(r, j) /\ r.tracked = j.tracked
           /\ r.tombstones = j.tombstones /\ r.processed = j.processed
           /\ r.commands = With(j.commands, s, "received")
  BY DEF Fields, SameEvents, Prepare

LEMMA PrepareStep ==
    ASSUME NEW cmds \in Seq({"run", "cancel"}), NEW j, NEW k, JournalInv(j, cmds, k),
           NEW s \in 1..Len(cmds), NEW r, r = Prepare(j, s)
    PROVE  /\ JournalInv(r, cmds, k)
           /\ \A n : IdOf(r, n) = IdOf(j, n)
           /\ SameEvents(r, j) /\ r.tracked = j.tracked
           /\ r.tombstones = j.tombstones /\ r.processed = j.processed
           /\ DOMAIN r.commands \cup r.tombstones
                = DOMAIN j.commands \cup j.tombstones \cup {s}
           /\ \A q \in DOMAIN j.commands : q \in DOMAIN r.commands /\ r.commands[q] = j.commands[q]
           /\ ~Known(j, s) => s \in DOMAIN r.commands /\ r.commands[s] = "received"
  <1>1. CASE Known(j, s)
    BY <1>1 DEF Prepare, Known, SameEvents
  <1>2. CASE ~Known(j, s)
    <2>1. /\ r = Fields(r) /\ SameEvents(r, j) /\ r.tracked = j.tracked
          /\ r.tombstones = j.tombstones /\ r.processed = j.processed
          /\ r.commands = With(j.commands, s, "received")
      BY <1>2, PrepareFields DEF JournalInv
    <2>2. /\ s \notin DOMAIN j.commands /\ s \notin j.tombstones
          /\ DOMAIN r.commands = DOMAIN j.commands \cup {s}
          /\ r.commands[s] = "received"
          /\ \A q \in DOMAIN j.commands : r.commands[q] = j.commands[q]
      BY <1>2, <2>1 DEF With, Known
    <2>3. JournalFile(r)
      <3>1. s \in Nat \ {0}
        OBVIOUS
      <3> QED
        BY <2>1, <2>2, <3>1 DEF JournalInv, JournalFile, SameEvents
    <2>4. \A q : Done(j, q) => Done(r, q)
      BY <2>1, <2>2 DEF Done
    <2>5. CommandsInOrder(r, cmds)
      BY <2>1, <2>2, <2>4 DEF JournalInv, CommandsInOrder
    <2>6. EventsInOrder(r, k) /\ \A n : IdOf(r, n) = IdOf(j, n)
      BY <2>1, <2>4, EventsKept DEF JournalInv
    <2> QED
      BY <2>1, <2>2, <2>3, <2>5, <2>6 DEF JournalInv
  <1> QED
    BY <1>1, <1>2

\* mark_dispatch_started
LEMMA StartFields ==
    ASSUME NEW j, j = Fields(j), NEW s, NEW r, r = MarkStarted(j, s)
    PROVE  /\ r = Fields(r) /\ SameEvents(r, j) /\ r.tracked = j.tracked
           /\ r.tombstones = j.tombstones /\ r.processed = j.processed
           /\ r.commands = [j.commands EXCEPT ![s] = "dispatch_started"]
  BY DEF Fields, SameEvents, MarkStarted

LEMMA StartStep ==
    ASSUME NEW cmds \in Seq({"run", "cancel"}), NEW j, NEW k, JournalInv(j, cmds, k),
           NEW s \in DOMAIN j.commands, j.commands[s] = "received",
           cmds[s] = "run" => s = j.processed + 1,
           NEW r, r = MarkStarted(j, s)
    PROVE  /\ JournalInv(r, cmds, k)
           /\ \A n : IdOf(r, n) = IdOf(j, n)
           /\ SameEvents(r, j) /\ r.tracked = j.tracked
           /\ r.tombstones = j.tombstones /\ r.processed = j.processed
           /\ DOMAIN r.commands = DOMAIN j.commands
           /\ r.commands[s] = "dispatch_started"
           /\ \A q \in DOMAIN j.commands \ {s} : r.commands[q] = j.commands[q]
  <1>1. /\ r = Fields(r) /\ SameEvents(r, j) /\ r.tracked = j.tracked
        /\ r.tombstones = j.tombstones /\ r.processed = j.processed
        /\ r.commands = [j.commands EXCEPT ![s] = "dispatch_started"]
    BY StartFields DEF JournalInv
  <1>2. /\ DOMAIN r.commands = DOMAIN j.commands
        /\ r.commands[s] = "dispatch_started"
        /\ \A q \in DOMAIN j.commands \ {s} : r.commands[q] = j.commands[q]
    BY <1>1
  <1>3. JournalFile(r)
    BY <1>1, <1>2 DEF JournalInv, JournalFile, SameEvents
  <1>4. \A q : Done(j, q) => Done(r, q)
    BY <1>1, <1>2 DEF Done
  <1>5. CommandsInOrder(r, cmds)
    BY <1>1, <1>2, <1>4 DEF JournalInv, CommandsInOrder
  <1>6. EventsInOrder(r, k) /\ \A n : IdOf(r, n) = IdOf(j, n)
    BY <1>1, <1>4, EventsKept DEF JournalInv
  <1> QED
    BY <1>1, <1>2, <1>3, <1>5, <1>6 DEF JournalInv

\* advance_processed: over what is terminal, and over the first one at least.
LEMMA AdvanceStep ==
    ASSUME NEW n \in Nat, NEW j, j = Fields(j), DOMAIN j.commands \subseteq 1..n,
           j.processed \in 0..n, NEW r, r = AdvanceProcessed(j)
    PROVE  /\ r = Fields(r) /\ SameEvents(r, j) /\ r.tracked
           /\ r.tombstones = j.tombstones /\ r.commands = j.commands
           /\ r.processed \in 0..n /\ j.processed <= r.processed
           /\ \A q \in (j.processed + 1)..r.processed :
                 q \in DOMAIN j.commands /\ j.commands[q] = "terminal"
           /\ (j.processed + 1 \in DOMAIN j.commands /\ j.commands[j.processed + 1] = "terminal")
                 => r.processed >= j.processed + 1
  <1> DEFINE p == j.processed
             S == {p} \cup DOMAIN j.commands
             top == Max(S)
             D == {x \in p..top : \A q \in p + 1..x :
                      q \in DOMAIN j.commands /\ j.commands[q] = "terminal"}
  <1>1. S \in SUBSET (0..n) /\ S # {}
    OBVIOUS
  <1> HIDE DEF S
  <1>2. top \in S /\ \A y \in S : y <= top
    BY <1>1, Bounded
  <1>3. top \in 0..n /\ p <= top /\ \A y \in DOMAIN j.commands : y <= top
    BY <1>1, <1>2 DEF S
  <1> HIDE DEF top
  <1>4. p \in D /\ D \in SUBSET (0..n)
    BY <1>3
  <1>5. (p + 1 \in DOMAIN j.commands /\ j.commands[p + 1] = "terminal") => p + 1 \in D
    <2> SUFFICES ASSUME p + 1 \in DOMAIN j.commands, j.commands[p + 1] = "terminal"
                 PROVE  p + 1 \in D
      OBVIOUS
    <2>1. \A q \in p + 1..p + 1 : q = p + 1
      OBVIOUS
    <2>2. p + 1 \in p..top
      BY <1>3
    <2> QED
      BY <2>1, <2>2
  <1>6. \A x \in D : x >= p /\ \A q \in p + 1..x :
                      q \in DOMAIN j.commands /\ j.commands[q] = "terminal"
    BY <1>3
  <1>7. r = [j EXCEPT !.processed = Max(D), !.tracked = TRUE]
    BY DEF AdvanceProcessed, top, S
  <1> HIDE DEF D
  <1>8. Max(D) \in D /\ \A y \in D : y <= Max(D)
    BY <1>4, Bounded
  <1>9. /\ r = Fields(r) /\ SameEvents(r, j) /\ r.tracked
        /\ r.tombstones = j.tombstones /\ r.commands = j.commands /\ r.processed = Max(D)
    <2>1. ASSUME NEW m, m = Max(D), r = [j EXCEPT !.processed = m, !.tracked = TRUE]
          PROVE  /\ r = Fields(r) /\ SameEvents(r, j) /\ r.tracked
                 /\ r.tombstones = j.tombstones /\ r.commands = j.commands /\ r.processed = m
      BY <2>1 DEF Fields, SameEvents
    <2> QED
      BY <1>7, <2>1
  <1>10. Max(D) \in 0..n /\ p <= Max(D)
    BY <1>4, <1>6, <1>8
  <1>11. \A q \in p + 1..Max(D) : q \in DOMAIN j.commands /\ j.commands[q] = "terminal"
    BY <1>6, <1>8
  <1>12. p + 1 \in D => Max(D) >= p + 1
    BY <1>4, <1>8, <1>10
  <1> QED
    BY <1>5, <1>9, <1>10, <1>11, <1>12

\* The tail of finish_command.
Unacknowledged(id) == [id |-> id, acknowledged |-> FALSE]
NewEvents(k, ids) == [n \in k + 1..k + Len(ids) |-> Unacknowledged(ids[n - k])]

LEMMA UnacknowledgedFields ==
    ASSUME NEW id
    PROVE  /\ Unacknowledged(id).id = id /\ ~Unacknowledged(id).acknowledged
           /\ id \in EventIds => Unacknowledged(id) \in [id : EventIds, acknowledged : BOOLEAN]
  BY DEF Unacknowledged

FreshIds(j, k, ids) ==
    /\ \A i \in 1..Len(ids) : Done(j, ids[i][1])
    /\ \A i, m \in 1..Len(ids) : ids[i] = ids[m] => i = m
    /\ \A i \in 1..Len(ids), n \in 1..k : ids[i] # IdOf(j, n)
Appended(r, j, k, ids) ==
    /\ r = Fields(r) /\ JournalFile(r) /\ SameCommands(r, j) /\ r.tracked = j.tracked
    /\ EventsInOrder(r, k + Len(ids))
    /\ \A n \in 1..k : IdOf(r, n) = IdOf(j, n)
    /\ \A i \in 1..Len(ids) : IdOf(r, k + i) = ids[i]
    /\ DOMAIN r.events = DOMAIN j.events \cup (k + 1..k + Len(ids))
    /\ \A n \in DOMAIN j.events : r.events[n] = j.events[n]
    /\ \A n \in k + 1..k + Len(ids) : ~r.events[n].acknowledged
    /\ r.eventTombstones = j.eventTombstones
    /\ r.eventAck = j.eventAck /\ r.sparse = j.sparse

LEMMA AppendStep ==
    ASSUME NEW j, NEW k, j = Fields(j), JournalFile(j), EventsInOrder(j, k),
           NEW ids \in Seq(EventIds), FreshIds(j, k, ids), NEW r, r = AppendEvents(j, ids)
    PROVE  Appended(r, j, k, ids)
  <1> DEFINE l == Len(ids)
             new == NewEvents(k, ids)
  <1>1. k \in Nat /\ l \in Nat /\ NextEvent(j) - 1 = k
    BY NextEventIs DEF EventsInOrder, LastEvent
  <1>2. r = [j EXCEPT !.events = Union(j.events, new)]
    BY <1>1 DEF AppendEvents, NewEvents, Unacknowledged
  <1>3. /\ r = Fields(r) /\ SameCommands(r, j) /\ r.tracked = j.tracked
        /\ r.events = Union(j.events, new) /\ r.eventTombstones = j.eventTombstones
        /\ r.eventAck = j.eventAck /\ r.sparse = j.sparse
    <2>1. PICK ev : ev = Union(j.events, new)
      OBVIOUS
    <2>2. r = [j EXCEPT !.events = ev]
      BY <1>2, <2>1
    <2> HIDE DEF new
    <2>3. /\ r = Fields(r) /\ SameCommands(r, j) /\ r.tracked = j.tracked
          /\ r.events = ev /\ r.eventTombstones = j.eventTombstones
          /\ r.eventAck = j.eventAck /\ r.sparse = j.sparse
      BY <2>2 DEF Fields, SameCommands
    <2> QED
      BY <2>1, <2>3
  <1>4. /\ DOMAIN new = k + 1..k + l
        /\ \A n \in k + 1..k + l : new[n] = Unacknowledged(ids[n - k])
    BY DEF NewEvents
  <1>5. \A n \in k + 1..k + l : n - k \in 1..l /\ ids[n - k] \in EventIds
    BY <1>1
  <1>6. DOMAIN j.events \subseteq 1..k /\ DOMAIN j.eventTombstones \subseteq 1..k
    BY DEF EventsInOrder
  <1> HIDE DEF new
  <1>7. /\ DOMAIN r.events = DOMAIN j.events \cup (k + 1..k + l)
        /\ \A n \in k + 1..k + l : r.events[n] = Unacknowledged(ids[n - k])
        /\ \A n \in DOMAIN j.events : r.events[n] = j.events[n]
    <2>1. \A n \in DOMAIN j.events : n \notin DOMAIN new
      BY <1>1, <1>4, <1>6
    <2> QED
      BY <1>3, <1>4, <2>1 DEF Union
  <1>8. \A n \in k + 1..k + l : r.events[n].id = ids[n - k] /\ ~r.events[n].acknowledged
    BY <1>7, UnacknowledgedFields
  <1>9. JournalFile(r)
    <2>1. \A n \in DOMAIN r.events :
              n \in Nat \ {0} /\ r.events[n] \in [id : EventIds, acknowledged : BOOLEAN]
      <3>1. \A n \in k + 1..k + l : r.events[n] \in [id : EventIds, acknowledged : BOOLEAN]
        BY <1>5, <1>7, UnacknowledgedFields
      <3> QED
        BY <1>1, <1>7, <3>1 DEF JournalFile
    <2> QED
      BY <1>3, <2>1 DEF JournalFile, SameCommands
  <1>10. \A n \in 1..k : IdOf(r, n) = IdOf(j, n)
    BY <1>1, <1>3, <1>7 DEF IdOf
  <1>11. \A i \in 1..l : k + i \in k + 1..k + l /\ IdOf(r, k + i) = ids[i]
    <2>1. \A i \in 1..l : k + i \in k + 1..k + l /\ (k + i) - k = i
      BY <1>1
    <2> QED
      BY <1>7, <1>8, <2>1 DEF IdOf
  <1>12. \A n \in k + 1..k + l : IdOf(r, n) = ids[n - k]
    BY <1>7, <1>8 DEF IdOf
  <1>13. EventsInOrder(r, k + l)
    <2>1. k + l \in Nat /\ \A n : n \in 1..k + l <=> n \in 1..k \/ n \in k + 1..k + l
      BY <1>1
    <2>2. DOMAIN r.events \cup DOMAIN r.eventTombstones = 1..k + l
      BY <1>3, <1>7, <2>1 DEF EventsInOrder
    <2>3. DOMAIN r.events \cap DOMAIN r.eventTombstones = {}
      BY <1>1, <1>3, <1>6, <1>7 DEF EventsInOrder
    <2>4. r.eventAck <= k + l /\ r.sparse \subseteq 1..k + l
      BY <1>1, <1>3, <2>1 DEF EventsInOrder, JournalFile
    <2>5. \A q : Done(r, q) <=> Done(j, q)
      BY <1>3 DEF Done, SameCommands
    <2>6. \A n \in 1..k + l : Done(r, IdOf(r, n)[1])
      BY <1>5, <1>10, <1>12, <2>1, <2>5 DEF EventsInOrder, FreshIds
    <2>7. \A n, m \in 1..k + l : IdOf(r, n) = IdOf(r, m) => n = m
      <3>1. ASSUME NEW n \in k + 1..k + l, NEW m \in k + 1..k + l, IdOf(r, n) = IdOf(r, m)
            PROVE  n = m
        <4>1. ids[n - k] = ids[m - k] /\ n - k \in 1..l /\ m - k \in 1..l
          BY <1>5, <1>12, <3>1
        <4>2. n - k = m - k
          BY <4>1 DEF FreshIds
        <4> QED
          BY <1>1, <4>2
      <3>2. ASSUME NEW n \in 1..k, NEW m \in 1..k, IdOf(r, n) = IdOf(r, m) PROVE n = m
        BY <1>10, <3>2 DEF EventsInOrder
      <3>3. \A n \in 1..k, m \in k + 1..k + l : IdOf(r, n) # IdOf(r, m)
        BY <1>5, <1>10, <1>12 DEF FreshIds
      <3> QED
        BY <2>1, <3>1, <3>2, <3>3
    <2> QED
      BY <2>1, <2>2, <2>3, <2>4, <2>6, <2>7 DEF EventsInOrder
  <1> QED
    BY <1>3, <1>7, <1>8, <1>9, <1>10, <1>11, <1>13 DEF Appended

\* The processed boundary is behind the last command.
LEMMA ProcessedBound ==
    ASSUME NEW cmds \in Seq({"run", "cancel"}), NEW j, JournalFile(j), CommandsInOrder(j, cmds)
    PROVE  j.processed \in 0..Len(cmds)
  <1>1. j.processed \in Nat /\ Len(cmds) \in Nat
    BY DEF JournalFile
  <1>2. \A s \in 1..j.processed : s \in 1..Len(cmds)
    BY DEF CommandsInOrder, Done
  <1> QED
    BY <1>1, <1>2

\* finish_command
LEMMA FinishStep ==
    ASSUME NEW cmds \in Seq({"run", "cancel"}), NEW j, NEW k, JournalInv(j, cmds, k),
           NEW s \in Begun(j), NEW ids \in Seq(EventIds),
           \A i \in 1..Len(ids) : ids[i][1] = s,
           \A i, m \in 1..Len(ids) : ids[i] = ids[m] => i = m,
           NEW r, r = FinishCommand(j, s, ids)
    PROVE  /\ JournalInv(r, cmds, k + Len(ids))
           /\ r.tracked /\ r.tombstones = j.tombstones /\ r.processed >= j.processed
           /\ DOMAIN r.commands = DOMAIN j.commands
           /\ r.commands[s] = "terminal"
           /\ \A q \in DOMAIN j.commands \ {s} : r.commands[q] = j.commands[q]
           /\ \A n \in 1..k : IdOf(r, n) = IdOf(j, n)
           /\ \A i \in 1..Len(ids) : IdOf(r, k + i) = ids[i]
           /\ DOMAIN r.events = DOMAIN j.events \cup (k + 1..k + Len(ids))
           /\ \A n \in DOMAIN j.events : r.events[n] = j.events[n]
           /\ \A n \in k + 1..k + Len(ids) : ~r.events[n].acknowledged
           /\ r.eventTombstones = j.eventTombstones
           /\ r.eventAck = j.eventAck /\ r.sparse = j.sparse
  <1>1. PICK t : t = [j EXCEPT !.commands[s] = "terminal"]
    OBVIOUS
  <1>2. PICK a : a = AdvanceProcessed(t)
    OBVIOUS
  <1>3. r = AppendEvents(a, ids)
    BY <1>1, <1>2 DEF FinishCommand
  <1>4. j = Fields(j) /\ JournalFile(j) /\ CommandsInOrder(j, cmds) /\ EventsInOrder(j, k)
    BY DEF JournalInv
  <1>5. /\ t = Fields(t) /\ SameEvents(t, j)
        /\ t.tombstones = j.tombstones /\ t.processed = j.processed
        /\ t.commands = [j.commands EXCEPT ![s] = "terminal"]
    BY <1>1, <1>4 DEF Fields, SameEvents
  <1>6. s \in DOMAIN j.commands /\ j.commands[s] = "dispatch_started" /\ ~Done(j, s)
    BY <1>4 DEF Begun, Done, CommandsInOrder
  <1>7. /\ DOMAIN t.commands = DOMAIN j.commands
        /\ t.commands[s] = "terminal"
        /\ \A q \in DOMAIN j.commands \ {s} : t.commands[q] = j.commands[q]
    BY <1>5, <1>6
  <1>8. j.processed \in 0..Len(cmds) /\ Len(cmds) \in Nat
    BY <1>4, ProcessedBound
  <1>9. /\ a = Fields(a) /\ SameEvents(a, t) /\ a.tracked
        /\ a.tombstones = t.tombstones /\ a.commands = t.commands
        /\ a.processed \in 0..Len(cmds) /\ t.processed <= a.processed
        /\ \A q \in (t.processed + 1)..a.processed :
              q \in DOMAIN t.commands /\ t.commands[q] = "terminal"
        /\ (t.processed + 1 \in DOMAIN t.commands /\ t.commands[t.processed + 1] = "terminal")
              => a.processed >= t.processed + 1
    <2>1. DOMAIN t.commands \subseteq 1..Len(cmds) /\ t.processed \in 0..Len(cmds)
      BY <1>4, <1>5, <1>7, <1>8 DEF CommandsInOrder
    <2> QED
      BY <1>2, <1>5, <1>8, <2>1, AdvanceStep
  <1>10. /\ DOMAIN a.commands = DOMAIN j.commands
         /\ a.commands[s] = "terminal"
         /\ \A q \in DOMAIN j.commands \ {s} : a.commands[q] = j.commands[q]
         /\ a.tombstones = j.tombstones /\ SameEvents(a, j)
         /\ a.processed \in Nat /\ j.processed \in Nat /\ j.processed <= a.processed
         /\ \A q \in (j.processed + 1)..a.processed :
               q \in DOMAIN a.commands /\ a.commands[q] = "terminal"
         /\ s = j.processed + 1 => a.processed >= s
    BY <1>5, <1>6, <1>7, <1>8, <1>9 DEF SameEvents
  <1>11. \A q : Done(j, q) => Done(a, q)
    BY <1>10 DEF Done
  <1>12. CommandsInOrder(a, cmds)
    <2>1. /\ DOMAIN a.commands \cup a.tombstones \subseteq 1..Len(cmds)
          /\ DOMAIN a.commands \cap a.tombstones = {}
          /\ a.tombstones \subseteq 1..a.processed
      BY <1>4, <1>10 DEF CommandsInOrder
    <2>2. ASSUME NEW q \in 1..a.processed PROVE Done(a, q)
      <3>1. CASE q \in 1..j.processed
        BY <1>4, <1>11, <3>1 DEF CommandsInOrder
      <3>2. CASE q \in (j.processed + 1)..a.processed
        BY <1>10, <3>2 DEF Done
      <3> QED
        BY <1>10, <3>1, <3>2
    <2>3. ASSUME NEW q \in DOMAIN a.commands, cmds[q] = "run"
          PROVE  /\ a.commands[q] = "dispatch_started" => q = a.processed + 1
                 /\ a.commands[q] = "terminal" => q <= a.processed
      <3>0. q \in Nat \ {0}
        BY <1>4, <1>10, <2>3 DEF JournalFile
      <3>1. CASE q = s
        BY <1>4, <1>6, <1>10, <2>3, <3>1 DEF CommandsInOrder
      <3>2. CASE q # s
        <4>1. /\ a.commands[q] = "dispatch_started" => q = j.processed + 1
              /\ a.commands[q] = "terminal" => q <= j.processed
          BY <1>4, <1>10, <2>3, <3>2 DEF CommandsInOrder
        <4> QED
          BY <1>10, <3>0, <4>1
      <3> QED
        BY <3>1, <3>2
    <2> QED
      BY <2>1, <2>2, <2>3 DEF CommandsInOrder
  <1>13. JournalFile(a)
    <2>1. \A q \in DOMAIN a.commands :
            q \in Nat \ {0} /\ a.commands[q] \in {"received", "dispatch_started", "terminal"}
      BY <1>4, <1>10 DEF JournalFile
    <2>2. a.tracked \in BOOLEAN
      BY <1>4, <1>2, <1>9 DEF AdvanceProcessed, JournalFile
    <2> QED
      BY <1>4, <1>10, <2>1, <2>2 DEF JournalFile, SameEvents
  <1>14. EventsInOrder(a, k) /\ \A n : IdOf(a, n) = IdOf(j, n)
    BY <1>4, <1>10, <1>11, EventsKept
  <1>15. \A i \in 1..Len(ids) : Done(a, ids[i][1])
    BY <1>10, <1>6 DEF Done
  <1>16. \A i \in 1..Len(ids), n \in 1..k : ids[i] # IdOf(a, n)
    BY <1>4, <1>6, <1>14 DEF EventsInOrder
  <1>23. FreshIds(a, k, ids)
    BY <1>15, <1>16 DEF FreshIds
  <1>24. Appended(r, a, k, ids)
    BY <1>3, <1>9, <1>13, <1>14, <1>23, AppendStep
  <1>17. /\ r = Fields(r) /\ JournalFile(r) /\ SameCommands(r, a) /\ r.tracked = a.tracked
         /\ EventsInOrder(r, k + Len(ids))
         /\ \A n \in 1..k : IdOf(r, n) = IdOf(a, n)
         /\ \A i \in 1..Len(ids) : IdOf(r, k + i) = ids[i]
         /\ DOMAIN r.events = DOMAIN a.events \cup (k + 1..k + Len(ids))
         /\ \A n \in DOMAIN a.events : r.events[n] = a.events[n]
         /\ \A n \in k + 1..k + Len(ids) : ~r.events[n].acknowledged
         /\ r.eventTombstones = a.eventTombstones
         /\ r.eventAck = a.eventAck /\ r.sparse = a.sparse
    BY <1>24 DEF Appended
  <1>18. CommandsInOrder(r, cmds)
    BY <1>12, <1>17 DEF SameCommands, CommandsInOrder, Done
  <1>19. JournalInv(r, cmds, k + Len(ids))
    BY <1>17, <1>18 DEF JournalInv
  <1>20. r.tracked
    BY <1>9, <1>17
  <1>21. /\ r.tombstones = j.tombstones /\ r.processed >= j.processed
         /\ DOMAIN r.commands = DOMAIN j.commands
         /\ r.commands[s] = "terminal"
         /\ \A q \in DOMAIN j.commands \ {s} : r.commands[q] = j.commands[q]
    BY <1>10, <1>17 DEF SameCommands
  <1>22. /\ \A n \in 1..k : IdOf(r, n) = IdOf(j, n)
         /\ DOMAIN r.events = DOMAIN j.events \cup (k + 1..k + Len(ids))
         /\ \A n \in DOMAIN j.events : r.events[n] = j.events[n]
         /\ r.eventTombstones = j.eventTombstones
         /\ r.eventAck = j.eventAck /\ r.sparse = j.sparse
    BY <1>10, <1>14, <1>17 DEF SameEvents
  <1> QED
    BY <1>17, <1>19, <1>20, <1>21, <1>22

\* What an update that starts, finishes and commits nothing leaves as it is.
Quiet(r, j, cmds, k) ==
    /\ JournalInv(r, cmds, k)
    /\ \A n \in 1..k : IdOf(r, n) = IdOf(j, n)
    /\ \A q : Done(r, q) <=> Done(j, q)
    /\ Begun(r) = Begun(j)
    /\ r.processed = j.processed
    /\ DOMAIN r.commands \cup r.tombstones = DOMAIN j.commands \cup j.tombstones
    /\ \A q \in DOMAIN r.commands : q \in DOMAIN j.commands /\ r.commands[q] = j.commands[q]
    /\ \A q \in DOMAIN j.commands : j.commands[q] # "terminal" => q \in DOMAIN r.commands
    /\ j.tracked => r.tracked

\* A snapshot that does not list the session leaves the journal as it is.
LEMMA QuietStutter ==
    ASSUME NEW j, NEW cmds, NEW k, JournalInv(j, cmds, k)
    PROVE  Quiet(j, j, cmds, k)
  BY DEF Quiet

\* compact_session
LEMMA CompactStep ==
    ASSUME NEW cmds \in Seq({"run", "cancel"}), NEW j, NEW k, JournalInv(j, cmds, k),
           NEW r, r = CompactSession(j)
    PROVE  /\ Quiet(r, j, cmds, k)
           /\ \A ack \in Nat : HandledInv(j, ack) => HandledInv(r, ack)
           /\ r.tracked = j.tracked
  <1> DEFINE old == {s \in DOMAIN j.commands : j.commands[s] = "terminal" /\ s <= j.processed}
             acked == {n \in DOMAIN j.events :
                         j.events[n].acknowledged /\ (n <= j.eventAck \/ n \in j.sparse)}
  <1>1. j = Fields(j) /\ JournalFile(j) /\ CommandsInOrder(j, cmds) /\ EventsInOrder(j, k)
    BY DEF JournalInv
  <1>2. PICK c : c = Restrict(j.commands, DOMAIN j.commands \ old)
    OBVIOUS
  <1>3. PICK e : e = Restrict(j.events, DOMAIN j.events \ acked)
    OBVIOUS
  <1>4. PICK t : t = Union(j.eventTombstones, [n \in acked |-> j.events[n].id])
    OBVIOUS
  <1>5. PICK b : b = j.tombstones \cup old
    OBVIOUS
  <1>6. r = [j EXCEPT !.commands = c, !.tombstones = b, !.events = e, !.eventTombstones = t]
    BY <1>2, <1>3, <1>4, <1>5 DEF CompactSession
  <1>7. /\ \A s \in old : s \in DOMAIN j.commands /\ j.commands[s] = "terminal" /\ s <= j.processed
        /\ \A s \in DOMAIN j.commands \ old : ~(j.commands[s] = "terminal" /\ s <= j.processed)
    OBVIOUS
  <1>8. /\ acked \subseteq DOMAIN j.events
        /\ \A n \in acked : j.events[n].acknowledged
    OBVIOUS
  <1> HIDE DEF old, acked
  <1>9. /\ r = Fields(r) /\ r.commands = c /\ r.tombstones = b /\ r.events = e
        /\ r.eventTombstones = t /\ r.processed = j.processed /\ r.tracked = j.tracked
        /\ r.eventAck = j.eventAck /\ r.sparse = j.sparse
    BY <1>1, <1>6 DEF Fields
  <1>10. /\ DOMAIN r.commands = DOMAIN j.commands \ old
         /\ \A s \in DOMAIN r.commands : r.commands[s] = j.commands[s]
         /\ r.tombstones = j.tombstones \cup old
    BY <1>2, <1>5, <1>9 DEF Restrict
  <1>11. /\ DOMAIN r.events = DOMAIN j.events \ acked
         /\ \A n \in DOMAIN r.events : r.events[n] = j.events[n]
    BY <1>3, <1>9 DEF Restrict
  <1>12. /\ DOMAIN r.eventTombstones = DOMAIN j.eventTombstones \cup acked
         /\ \A n \in acked : r.eventTombstones[n] = j.events[n].id
         /\ \A n \in DOMAIN j.eventTombstones \ acked :
               r.eventTombstones[n] = j.eventTombstones[n]
    BY <1>4, <1>9 DEF Union
  <1>13. \A q : Done(r, q) <=> Done(j, q)
    BY <1>7, <1>10 DEF Done
  <1>14. Begun(r) = Begun(j)
    BY <1>7, <1>10 DEF Begun
  <1>15. \A n \in 1..k : IdOf(r, n) = IdOf(j, n)
    BY <1>1, <1>8, <1>11, <1>12 DEF IdOf, EventsInOrder
  <1>16. JournalFile(r)
    <2>1. \A n \in DOMAIN r.eventTombstones :
              n \in Nat \ {0} /\ r.eventTombstones[n] \in EventIds
      BY <1>1, <1>8, <1>12 DEF JournalFile
    <2>2. \A n \in DOMAIN r.events :
              n \in Nat \ {0} /\ r.events[n] \in [id : EventIds, acknowledged : BOOLEAN]
      BY <1>1, <1>11 DEF JournalFile
    <2>3. /\ \A s \in DOMAIN r.commands :
               s \in Nat \ {0} /\ r.commands[s] \in {"received", "dispatch_started", "terminal"}
          /\ r.tombstones \cup r.sparse \subseteq Nat \ {0}
      BY <1>1, <1>7, <1>9, <1>10 DEF JournalFile
    <2> QED
      BY <1>1, <1>9, <2>1, <2>2, <2>3 DEF JournalFile
  <1>17. CommandsInOrder(r, cmds)
    <2>1. r.tombstones \subseteq 1..r.processed
      BY <1>1, <1>7, <1>9, <1>10 DEF CommandsInOrder, JournalFile
    <2>2. DOMAIN r.commands \cup r.tombstones \subseteq 1..Len(cmds)
      BY <1>1, <1>7, <1>10 DEF CommandsInOrder
    <2>3. DOMAIN r.commands \cap r.tombstones = {}
      BY <1>1, <1>10 DEF CommandsInOrder
    <2> QED
      BY <1>1, <1>9, <1>10, <1>13, <2>1, <2>2, <2>3 DEF CommandsInOrder
  <1>18. EventsInOrder(r, k)
    BY <1>1, <1>8, <1>9, <1>11, <1>12, <1>13, <1>15 DEF EventsInOrder
  <1>19. ASSUME NEW ack \in Nat, HandledInv(j, ack) PROVE HandledInv(r, ack)
    <2>1. \A n \in acked : n \in 1..ack
      BY <1>1, <1>8, <1>19 DEF HandledInv, JournalFile
    <2> QED
      BY <1>9, <1>11, <1>12, <1>19, <2>1 DEF HandledInv
  <1>20. /\ DOMAIN r.commands \cup r.tombstones = DOMAIN j.commands \cup j.tombstones
         /\ \A q \in DOMAIN r.commands : q \in DOMAIN j.commands /\ r.commands[q] = j.commands[q]
         /\ \A q \in DOMAIN j.commands : j.commands[q] # "terminal" => q \in DOMAIN r.commands
    BY <1>7, <1>10
  <1>21. Quiet(r, j, cmds, k)
    BY <1>9, <1>13, <1>14, <1>15, <1>16, <1>17, <1>18, <1>20 DEF Quiet, JournalInv
  <1> QED
    BY <1>9, <1>19, <1>21

\* Updates of event acknowledgements only.
LEMMA EventsAcknowledged ==
    ASSUME NEW cmds, NEW j, NEW k, JournalInv(j, cmds, k), NEW r,
           r = Fields(r), SameCommands(r, j), r.tracked \in BOOLEAN, j.tracked => r.tracked,
           DOMAIN r.events = DOMAIN j.events,
           \A n \in DOMAIN j.events :
              /\ r.events[n] \in [id : EventIds, acknowledged : BOOLEAN]
              /\ r.events[n].id = j.events[n].id,
           r.eventTombstones = j.eventTombstones,
           r.eventAck \in 0..k, r.sparse \subseteq 1..k
    PROVE  Quiet(r, j, cmds, k)
  <1>1. j = Fields(j) /\ JournalFile(j) /\ CommandsInOrder(j, cmds) /\ EventsInOrder(j, k)
    BY DEF JournalInv
  <1>2. \A n \in 1..k : IdOf(r, n) = IdOf(j, n)
    BY DEF IdOf
  <1>3. (\A q : Done(r, q) <=> Done(j, q)) /\ Begun(r) = Begun(j)
    BY DEF Done, Begun, SameCommands
  <1>4. k \in Nat
    BY <1>1 DEF EventsInOrder
  <1>5. JournalFile(r)
    BY <1>1, <1>4 DEF JournalFile, SameCommands
  <1>6. CommandsInOrder(r, cmds)
    BY <1>1, <1>3 DEF CommandsInOrder, SameCommands
  <1>7. EventsInOrder(r, k)
    BY <1>1, <1>2, <1>3, <1>4 DEF EventsInOrder
  <1> QED
    BY <1>2, <1>3, <1>5, <1>6, <1>7 DEF Quiet, JournalInv, SameCommands

\* apply_reconciliation
LEMMA ReconcileStep ==
    ASSUME NEW cmds \in Seq({"run", "cancel"}), NEW j, NEW k, JournalInv(j, cmds, k),
           NEW ack \in 0..k, HandledInv(j, ack), NEW through \in 0..ack,
           NEW r, r = ApplyReconciliation(j, through)
    PROVE  Quiet(r, j, cmds, k) /\ HandledInv(r, ack)
  <1>1. j = Fields(j) /\ JournalFile(j) /\ EventsInOrder(j, k) /\ k \in Nat
    BY DEF JournalInv, EventsInOrder
  <1>2. PICK a : a = Max({j.eventAck, through})
    OBVIOUS
  <1>3. a \in 0..ack
    <2>1. {j.eventAck, through} \in SUBSET (0..ack)
      BY <1>1 DEF HandledInv, JournalFile
    <2>2. a \in {j.eventAck, through}
      <3>1. PICK S : S = {j.eventAck, through}
        OBVIOUS
      <3>2. S \in SUBSET (0..ack) /\ S # {} /\ ack \in Nat
        BY <1>1, <2>1, <3>1
      <3>3. Max(S) \in S
        BY <3>2, Bounded
      <3> QED
        BY <1>2, <3>1, <3>3
    <2> QED
      BY <2>1, <2>2
  <1>4. PICK p : p = {n \in j.sparse : n > a}
    OBVIOUS
  <1>5. PICK e : e = [n \in DOMAIN j.events |->
                        IF n <= a \/ n \in p
                        THEN [id |-> j.events[n].id, acknowledged |-> TRUE] ELSE j.events[n]]
    OBVIOUS
  <1>6. r = [j EXCEPT !.eventAck = a, !.sparse = p, !.tracked = TRUE, !.events = e]
    BY <1>2, <1>4, <1>5 DEF ApplyReconciliation
  <1>7. /\ r = Fields(r) /\ SameCommands(r, j) /\ r.tracked /\ r.tracked \in BOOLEAN
        /\ r.events = e /\ r.eventTombstones = j.eventTombstones
        /\ r.eventAck = a /\ r.sparse = p
    BY <1>1, <1>6 DEF Fields, SameCommands
  <1>8. \A n \in DOMAIN j.events : j.events[n] \in [id : EventIds, acknowledged : BOOLEAN]
    BY <1>1 DEF JournalFile
  <1>9. DOMAIN e = DOMAIN j.events /\ \A n \in DOMAIN e :
           /\ e[n] \in [id : EventIds, acknowledged : BOOLEAN]
           /\ e[n].id = j.events[n].id
           /\ ~(n <= a \/ n \in p) => e[n] = j.events[n]
    BY <1>5, <1>8
  <1>10. p \subseteq 1..ack
    BY <1>4 DEF HandledInv
  <1>11. a \in 0..k /\ p \subseteq 1..k
    BY <1>1, <1>3, <1>10
  <1>12. Quiet(r, j, cmds, k)
    BY <1>7, <1>9, <1>11, EventsAcknowledged
  <1>13. ASSUME NEW n \in DOMAIN e, e[n].acknowledged PROVE n <= ack
    <2>1. CASE n <= a
      BY <1>1, <1>3, <1>9, <2>1 DEF JournalFile
    <2>2. CASE n \in p
      BY <1>10, <2>2
    <2>3. CASE ~(n <= a \/ n \in p)
      BY <1>9, <1>13, <2>3 DEF HandledInv
    <2> QED
      BY <2>1, <2>2, <2>3
  <1>14. \A n \in DOMAIN r.events : r.events[n].acknowledged => n <= ack
    BY <1>7, <1>13
  <1>15. DOMAIN r.eventTombstones \cup r.sparse \subseteq 1..ack /\ r.eventAck <= ack
    <2>1. \A n \in DOMAIN j.eventTombstones : n \in 1..ack
      BY DEF HandledInv
    <2> QED
      <3>1. r.eventTombstones = j.eventTombstones /\ r.sparse = p /\ r.eventAck = a
        BY <1>7
      <3>2. k \in Nat
        BY <1>1
      <3>3. \A n \in DOMAIN r.eventTombstones : n \in 1..ack
        BY <2>1, <3>1
      <3>4. \A n \in r.sparse : n \in 1..ack
        BY <1>10, <3>1
      <3>5. r.eventAck <= ack
        BY <1>3, <3>1, <3>2
      <3> QED
        BY <3>3, <3>4, <3>5
  <1> QED
    BY <1>12, <1>14, <1>15 DEF HandledInv

\* advance_event_ack: never beyond what is acknowledged.
LEMMA AdvanceAckStep ==
    ASSUME NEW cmds \in Seq({"run", "cancel"}), NEW j, NEW k, JournalInv(j, cmds, k),
           NEW ack \in 0..k, HandledInv(j, ack),
           NEW r, r = AdvanceEventAck(j)
    PROVE  Quiet(r, j, cmds, k) /\ HandledInv(r, ack)
  <1>1. j = Fields(j) /\ JournalFile(j) /\ EventsInOrder(j, k) /\ k \in Nat
    BY DEF JournalInv, EventsInOrder
  <1> DEFINE a == j.eventAck
             S == {a} \cup DOMAIN j.events
             top == Max(S)
             D == {x \in a..top : \A n \in a + 1..x :
                      n \in DOMAIN j.events /\ j.events[n].acknowledged}
  <1>2. S \in SUBSET (0..k) /\ S # {} /\ a \in 0..k
    BY <1>1 DEF JournalFile, EventsInOrder
  <1> HIDE DEF S
  <1>3. top \in S /\ \A y \in S : y <= top
    BY <1>1, <1>2, Bounded
  <1>4. top \in 0..k /\ a <= top
    BY <1>2, <1>3 DEF S
  <1> HIDE DEF top
  <1>5. a \in D /\ D \in SUBSET (0..k)
    BY <1>1, <1>2, <1>4
  <1>6. ASSUME NEW x \in D PROVE x \in 0..ack
    <2>1. x \in 0..k /\ a <= x /\ \A n \in a + 1..x :
             n \in DOMAIN j.events /\ j.events[n].acknowledged
      BY <1>1, <1>2, <1>4, <1>6
    <2>2. x > a => x <= ack
      BY <1>2, <2>1 DEF HandledInv
    <2>3. a <= ack /\ ack \in Nat
      BY <1>1 DEF HandledInv
    <2> QED
      BY <1>2, <2>1, <2>2, <2>3
  <1>7. PICK m : m = Max(D)
    OBVIOUS
  <1>8. PICK p : p = {n \in j.sparse : n > m}
    OBVIOUS
  <1>9. r = [j EXCEPT !.eventAck = m, !.sparse = p, !.tracked = TRUE]
    BY <1>7, <1>8 DEF AdvanceEventAck, top, S
  <1> HIDE DEF D
  <1>10. m \in 0..ack
    <2>1. Max(D) \in D
      BY <1>1, <1>5, Bounded
    <2> QED
      BY <1>6, <1>7, <2>1
  <1>11. /\ r = Fields(r) /\ SameCommands(r, j) /\ r.tracked /\ r.tracked \in BOOLEAN
         /\ r.events = j.events /\ r.eventTombstones = j.eventTombstones
         /\ r.eventAck = m /\ r.sparse = p
    BY <1>1, <1>9 DEF Fields, SameCommands
  <1>12. p \subseteq 1..ack
    BY <1>8 DEF HandledInv
  <1>13. m \in 0..k /\ p \subseteq 1..k
    BY <1>1, <1>10, <1>12
  <1>14. Quiet(r, j, cmds, k)
    BY <1>1, <1>11, <1>13, EventsAcknowledged DEF JournalFile
  <1>15. DOMAIN r.eventTombstones \cup r.sparse \subseteq 1..ack /\ r.eventAck <= ack
    <2>1. \A n \in DOMAIN j.eventTombstones : n \in 1..ack
      BY DEF HandledInv
    <2> QED
      <3>1. r.eventTombstones = j.eventTombstones /\ r.sparse = p /\ r.eventAck = m
        BY <1>11
      <3>2. k \in Nat
        BY <1>1
      <3>3. \A n \in DOMAIN r.eventTombstones : n \in 1..ack
        BY <2>1, <3>1
      <3>4. \A n \in r.sparse : n \in 1..ack
        BY <1>12, <3>1
      <3>5. r.eventAck <= ack
        BY <1>10, <3>1, <3>2
      <3> QED
        BY <3>3, <3>4, <3>5
  <1>16. \A n \in DOMAIN r.events : r.events[n].acknowledged => n <= ack
    BY <1>11 DEF HandledInv
  <1> QED
    BY <1>14, <1>15, <1>16 DEF HandledInv

\* Quiet updates one after the other.
LEMMA QuietTwice ==
    ASSUME NEW cmds, NEW i, NEW j, NEW k, NEW r, Quiet(j, i, cmds, k), Quiet(r, j, cmds, k)
    PROVE  Quiet(r, i, cmds, k)
  <1>1. \A n \in 1..k : IdOf(r, n) = IdOf(i, n)
    BY DEF Quiet
  <1>2. (\A q : Done(r, q) <=> Done(i, q)) /\ Begun(r) = Begun(i)
    BY DEF Quiet
  <1>3. /\ DOMAIN r.commands \cup r.tombstones = DOMAIN i.commands \cup i.tombstones
        /\ \A q \in DOMAIN r.commands : q \in DOMAIN i.commands /\ r.commands[q] = i.commands[q]
    BY DEF Quiet
  <1>4. \A q \in DOMAIN i.commands : i.commands[q] # "terminal" => q \in DOMAIN r.commands
    BY DEF Quiet
  <1>5. r.processed = i.processed /\ (i.tracked => r.tracked) /\ JournalInv(r, cmds, k)
    BY DEF Quiet
  <1> QED
    BY <1>1, <1>2, <1>3, <1>4, <1>5 DEF Quiet

\* acknowledge_event, of an event the server has handled.
LEMMA AcknowledgeStep ==
    ASSUME NEW cmds \in Seq({"run", "cancel"}), NEW j, NEW k, JournalInv(j, cmds, k),
           NEW ack \in 0..k, HandledInv(j, ack), NEW n \in 1..ack,
           NEW r, r = AcknowledgeEvent(j, n)
    PROVE  Quiet(r, j, cmds, k) /\ HandledInv(r, ack)
  <1>1. j = Fields(j) /\ JournalFile(j) /\ EventsInOrder(j, k) /\ k \in Nat
    BY DEF JournalInv, EventsInOrder
  <1>2. CASE n \notin DOMAIN j.events \/ j.events[n].acknowledged
    <2>1. r = j
      BY <1>2 DEF AcknowledgeEvent
    <2> QED
      BY <2>1 DEF Quiet
  <1>3. CASE ~(n \notin DOMAIN j.events \/ j.events[n].acknowledged)
    <2>1. PICK e : e = [j.events EXCEPT ![n].acknowledged = TRUE]
      OBVIOUS
    <2>2. PICK p : p = IF n > j.eventAck THEN j.sparse \cup {n} ELSE j.sparse
      OBVIOUS
    <2>3. PICK m : m = [j EXCEPT !.events = e, !.sparse = p]
      OBVIOUS
    <2>4. r = AdvanceEventAck(m)
      BY <1>3, <2>1, <2>2, <2>3 DEF AcknowledgeEvent
    <2>5. /\ m = Fields(m) /\ SameCommands(m, j) /\ m.tracked = j.tracked
          /\ m.events = e /\ m.eventTombstones = j.eventTombstones
          /\ m.eventAck = j.eventAck /\ m.sparse = p
      BY <1>1, <2>3 DEF Fields, SameCommands
    <2>6. n \in DOMAIN j.events
      BY <1>3
    <2>7. \A x \in DOMAIN j.events : j.events[x] \in [id : EventIds, acknowledged : BOOLEAN]
      BY <1>1 DEF JournalFile
    <2>8. /\ DOMAIN e = DOMAIN j.events
          /\ \A x \in DOMAIN j.events : x # n => e[x] = j.events[x]
          /\ e[n] = [j.events[n] EXCEPT !.acknowledged = TRUE]
      BY <2>1, <2>6
    <2>9. e[n] \in [id : EventIds, acknowledged : BOOLEAN] /\ e[n].id = j.events[n].id
      BY <2>6, <2>7, <2>8
    <2>10. p \subseteq 1..ack /\ p \subseteq 1..k
      <3>1. j.sparse \subseteq 1..ack
        BY DEF HandledInv
      <3>2. \A x \in p : x \in 1..ack
        BY <2>2, <3>1
      <3> QED
        BY <1>1, <3>2
    <2>11. m.eventAck \in 0..k /\ m.tracked \in BOOLEAN
      BY <1>1, <2>5 DEF JournalFile, EventsInOrder
    <2>12. Quiet(m, j, cmds, k)
      BY <2>5, <2>7, <2>8, <2>9, <2>10, <2>11, EventsAcknowledged
    <2>13. HandledInv(m, ack)
      <3>1. \A x \in DOMAIN m.events : m.events[x].acknowledged => x <= ack
        BY <2>5, <2>8 DEF HandledInv
      <3>2. DOMAIN m.eventTombstones \cup m.sparse \subseteq 1..ack /\ m.eventAck <= ack
        BY <2>5, <2>10 DEF HandledInv
      <3> QED
        BY <3>1, <3>2 DEF HandledInv
    <2>14. Quiet(r, m, cmds, k) /\ HandledInv(r, ack)
      BY <2>4, <2>12, <2>13, AdvanceAckStep DEF Quiet
    <2> QED
      BY <2>12, <2>14, QuietTwice
  <1> QED
    BY <1>2, <1>3
-----------------------------------------------------------------------------
(* The server's transactions.                                              *)

\* next_command_sequence
LEMMA NextCommandIs ==
    ASSUME NEW n \in Nat, NEW sv, OutboxInv(sv, n)
    PROVE  NextCommand(sv) = n + 1
  <1> DEFINE S == {sv.commandAck} \cup sv.outbox \cup sv.tombstones
  <1>1. \A x \in S : x \in 0..n
    BY DEF OutboxInv
  <1>2. n > 0 => n \in S
    BY DEF OutboxInv
  <1>3. S \in SUBSET (0..n) /\ S # {}
    BY <1>1
  <1> HIDE DEF S
  <1>4. Max(S) \in S /\ \A y \in S : y <= Max(S)
    BY <1>3, Bounded
  <1>5. Max(S) = n
    BY <1>1, <1>2, <1>4
  <1> QED
    BY <1>5 DEF NextCommand, S

\* advance_command_watermark
LEMMA WatermarkIs ==
    ASSUME NEW n \in Nat, NEW sv, sv.outbox \subseteq 1..n, sv.commandAck \in 0..n,
           \A s \in sv.outbox : s <= sv.commandAck => s \in sv.acknowledged
    PROVE  /\ Watermark(sv) \in 0..n
           /\ \A s \in sv.outbox : s <= Watermark(sv) => s \in sv.acknowledged
  <1> DEFINE O == {s \in sv.outbox : s > sv.commandAck /\ s \notin sv.acknowledged}
             T == {0} \cup sv.outbox
  <1>1. PICK x : x = IF O # {} THEN Min(O) - 1 ELSE Max(T)
    OBVIOUS
  <1>2. \A s \in sv.outbox : s \in O \/ s \in sv.acknowledged
    OBVIOUS
  <1>3. \A s \in O : s \in 1..n /\ s \in sv.outbox
    OBVIOUS
  <1>4. O \in SUBSET (0..n)
    BY <1>3
  <1>5. T \in SUBSET (0..n) /\ T # {} /\ \A s \in sv.outbox : s \in T
    OBVIOUS
  <1> HIDE DEF O, T
  <1>6. x \in 0..n /\ \A s \in O : s > x
    <2>1. CASE O # {}
      <3>1. Min(O) \in O /\ \A y \in O : Min(O) <= y
        BY <1>4, <2>1, Bounded
      <3> QED
        BY <1>1, <1>3, <2>1, <3>1
    <2>2. CASE O = {}
      <3>1. Max(T) \in T
        BY <1>5, Bounded
      <3> QED
        BY <1>1, <1>5, <2>2, <3>1
    <2> QED
      BY <2>1, <2>2
  <1>7. Watermark(sv) = Max({sv.commandAck, x})
    BY <1>1 DEF Watermark, O, T
  <1>8. PICK C : C = {sv.commandAck, x}
    OBVIOUS
  <1>9. C \in SUBSET (0..n) /\ C # {}
    BY <1>6, <1>8
  <1>10. Max(C) \in C
    BY <1>9, Bounded
  <1>11. PICK w : w = Watermark(sv)
    OBVIOUS
  <1>12. w = sv.commandAck \/ w = x
    BY <1>7, <1>8, <1>10, <1>11
  <1>13. \A s \in sv.outbox : s <= w => s \in sv.acknowledged
    BY <1>2, <1>3, <1>6, <1>12
  <1> QED
    BY <1>6, <1>11, <1>12, <1>13

\* compact_server_commands_in_transaction
LEMMA CompactServerStep ==
    ASSUME NEW n \in Nat, NEW sv, sv = ServerFields(sv), OutboxInv(sv, n),
           NEW r, r = CompactServer(sv)
    PROVE  /\ r = ServerFields(r) /\ OutboxInv(r, n)
           /\ r.acknowledged \cup r.tombstones = sv.acknowledged \cup sv.tombstones
           /\ r.receipts = sv.receipts /\ r.eventAck = sv.eventAck
  <1> DEFINE old == {s \in sv.outbox : s <= sv.commandAck /\ s \in sv.acknowledged}
  <1>1. PICK o : o = sv.outbox \ old
    OBVIOUS
  <1>2. PICK a : a = sv.acknowledged \ old
    OBVIOUS
  <1>3. PICK t : t = sv.tombstones \cup old
    OBVIOUS
  <1>4. r = [sv EXCEPT !.outbox = o, !.acknowledged = a, !.tombstones = t]
    BY <1>1, <1>2, <1>3 DEF CompactServer
  <1>5. old \subseteq sv.outbox /\ old \subseteq sv.acknowledged
    OBVIOUS
  <1> HIDE DEF old
  <1>6. /\ r = ServerFields(r) /\ r.outbox = o /\ r.acknowledged = a /\ r.tombstones = t
        /\ r.commandAck = sv.commandAck /\ r.receipts = sv.receipts /\ r.eventAck = sv.eventAck
    BY <1>4 DEF ServerFields
  <1>7. OutboxInv(r, n)
    BY <1>1, <1>2, <1>3, <1>5, <1>6 DEF OutboxInv
  <1>8. a \cup t = sv.acknowledged \cup sv.tombstones
    BY <1>2, <1>3, <1>5
  <1> QED
    BY <1>6, <1>7, <1>8

\* acknowledge_command
LEMMA AcknowledgeCommandStep ==
    ASSUME NEW n \in Nat, NEW sv, sv = ServerFields(sv), OutboxInv(sv, n),
           NEW s, NEW r, r = AcknowledgeCommand(sv, s)
    PROVE  /\ r = ServerFields(r) /\ OutboxInv(r, n)
           /\ r.acknowledged \cup r.tombstones \subseteq sv.acknowledged \cup sv.tombstones \cup {s}
           /\ r.receipts = sv.receipts /\ r.eventAck = sv.eventAck
  <1>1. PICK a : a = sv.acknowledged \cup {s}
    OBVIOUS
  <1>2. PICK m : m = [sv EXCEPT !.acknowledged = a]
    OBVIOUS
  <1>3. /\ m = ServerFields(m) /\ m.outbox = sv.outbox /\ m.acknowledged = a
        /\ m.tombstones = sv.tombstones /\ m.commandAck = sv.commandAck
        /\ m.receipts = sv.receipts /\ m.eventAck = sv.eventAck
    BY <1>2 DEF ServerFields
  <1>4. PICK w : w = Watermark(m)
    OBVIOUS
  <1>5. PICK v : v = [m EXCEPT !.commandAck = w]
    OBVIOUS
  <1>6. r = CompactServer(IF s \in sv.outbox THEN v ELSE sv)
    BY <1>1, <1>2, <1>4, <1>5 DEF AcknowledgeCommand
  <1>7. CASE s \notin sv.outbox
    <2>1. r = CompactServer(sv)
      BY <1>6, <1>7
    <2> QED
      BY <2>1, CompactServerStep
  <1>8. CASE s \in sv.outbox
    <2>1. /\ v = ServerFields(v) /\ v.outbox = sv.outbox /\ v.acknowledged = a
          /\ v.tombstones = sv.tombstones /\ v.commandAck = w
          /\ v.receipts = sv.receipts /\ v.eventAck = sv.eventAck
      BY <1>3, <1>5 DEF ServerFields
    <2>2. /\ m.outbox \subseteq 1..n /\ m.commandAck \in 0..n
          /\ \A q \in m.outbox : q <= m.commandAck => q \in m.acknowledged
      BY <1>1, <1>3 DEF OutboxInv
    <2>3. w \in 0..n /\ \A q \in m.outbox : q <= w => q \in m.acknowledged
      BY <1>4, <2>2, WatermarkIs
    <2>4. OutboxInv(v, n)
      BY <1>1, <1>3, <1>8, <2>1, <2>3 DEF OutboxInv
    <2>5. r = CompactServer(v)
      BY <1>6, <1>8
    <2>6. /\ r = ServerFields(r) /\ OutboxInv(r, n)
          /\ r.acknowledged \cup r.tombstones = v.acknowledged \cup v.tombstones
          /\ r.receipts = v.receipts /\ r.eventAck = v.eventAck
      BY <2>1, <2>4, <2>5, CompactServerStep
    <2> QED
      BY <1>1, <2>1, <2>6
  <1> QED
    BY <1>7, <1>8

\* record_event_receipt: a duplicate changes nothing, and what is handled is the
\* next event.
LEMMA RecordStep ==
    ASSUME NEW sv, sv = ServerFields(sv), NEW j, NEW k \in Nat, ReceiptsInv(sv, j, k),
           NEW f, f.seq \in 1..k, f.id = IdOf(j, f.seq), ~EventGap(sv, f),
           NEW r, r = RecordEvent(sv, f)
    PROVE  \/ r = sv
           \/ /\ r = ServerFields(r) /\ r.outbox = sv.outbox /\ r.acknowledged = sv.acknowledged
              /\ r.tombstones = sv.tombstones /\ r.commandAck = sv.commandAck
              /\ r.eventAck = sv.eventAck + 1 /\ r.eventAck \in 1..k
              /\ DOMAIN r.receipts = 1..r.eventAck
              /\ \A n \in 1..r.eventAck : r.receipts[n] = IdOf(j, n)
  <1>1. CASE f.seq \in DOMAIN sv.receipts
    BY <1>1 DEF RecordEvent
  <1>2. CASE f.seq \notin DOMAIN sv.receipts
    <2> DEFINE e == sv.eventAck
    <2>1. e \in 0..k /\ DOMAIN sv.receipts = 1..e /\ \A n \in 1..e : sv.receipts[n] = IdOf(j, n)
      BY DEF ReceiptsInv
    <2>2. f.seq = e + 1
      BY <1>2, <2>1 DEF EventGap
    <2>3. PICK c : c = With(sv.receipts, f.seq, f.id)
      OBVIOUS
    <2>4. PICK x : x = Max({e, f.seq})
      OBVIOUS
    <2>5. r = [sv EXCEPT !.receipts = c, !.eventAck = x]
      BY <1>2, <2>3, <2>4 DEF RecordEvent
    <2>6. /\ r = ServerFields(r) /\ r.outbox = sv.outbox /\ r.acknowledged = sv.acknowledged
          /\ r.tombstones = sv.tombstones /\ r.commandAck = sv.commandAck
          /\ r.receipts = c /\ r.eventAck = x
      BY <2>5 DEF ServerFields
    <2>7. x = e + 1
      <3>1. PICK S : S = {e, f.seq}
        OBVIOUS
      <3>2. S \in SUBSET (0..k) /\ S # {}
        BY <2>1, <3>1
      <3>3. Max(S) \in S /\ \A y \in S : y <= Max(S)
        BY <3>2, Bounded
      <3> QED
        BY <2>1, <2>2, <2>4, <3>1, <3>3
    <2>8. /\ DOMAIN c = 1..e + 1
          /\ \A n \in 1..e + 1 : c[n] = IdOf(j, n)
      BY <2>1, <2>2, <2>3 DEF With
    <2>9. e + 1 \in 1..k
      BY <2>1, <2>2
    <2> QED
      BY <2>6, <2>7, <2>8, <2>9
  <1> QED
    BY <1>1, <1>2
-----------------------------------------------------------------------------
(* Frames.                                                                 *)

LEMMA FrameFields ==
    /\ \A s : Command(s).type = "command" /\ Command(s).seq = s
    /\ \A s : CommandAck(s).type = "command_ack" /\ CommandAck(s).seq = s
    /\ \A n, b : /\ Reconcile(n, b).type = "reconcile"
                 /\ Reconcile(n, b).seq = n /\ Reconcile(n, b).listed = b
    /\ \A n, id : Event(n, id).type = "event" /\ Event(n, id).seq = n /\ Event(n, id).id = id
    /\ \A n, id : /\ EventAck(n, id).type = "event_ack"
                  /\ EventAck(n, id).seq = n /\ EventAck(n, id).id = id
  BY DEF Command, CommandAck, Reconcile, Event, EventAck

LEMMA UpFrameIs ==
    ASSUME NEW j, NEW up, NEW k, NEW f \in UpFrames(j, up, k)
    PROVE  \/ f.type = "command_ack" /\ f.seq \in Ackable(j, up)
           \/ f.type = "event" /\ f.seq \in 1..k /\ f.id = IdOf(j, f.seq)
  BY FrameFields DEF UpFrames

LEMMA DownFrameIs ==
    ASSUME NEW j, NEW n, NEW ack, NEW f \in DownFrames(j, n, ack)
    PROVE  \/ f.type = "command" /\ f.seq \in 1..n
           \/ f.type = "event_ack" /\ f.seq \in 1..ack /\ f.id = IdOf(j, f.seq)
           \/ f.type = "reconcile" /\ f.seq \in 0..ack /\ f.listed \in BOOLEAN
  BY FrameFields DEF DownFrames

\* What may be on its way stays so while journal, outbox and receipts grow.
LEMMA FramesGrow ==
    ASSUME NEW j, NEW h, NEW up, NEW vp, NEW k \in Nat, NEW l \in Nat, k <= l,
           Ackable(j, up) \subseteq Ackable(h, vp), \A n \in 1..k : IdOf(h, n) = IdOf(j, n)
    PROVE  UpFrames(j, up, k) \subseteq UpFrames(h, vp, l)
  <1>1. ASSUME NEW f \in UpFrames(j, up, k) PROVE f \in UpFrames(h, vp, l)
    <2>1. CASE \E s \in Ackable(j, up) : f = CommandAck(s)
      BY <2>1 DEF UpFrames
    <2>2. CASE \E n \in 1..k : f = Event(n, IdOf(j, n))
      <3>1. PICK n \in 1..k : f = Event(n, IdOf(j, n))
        BY <2>2
      <3>2. n \in 1..l /\ f = Event(n, IdOf(h, n))
        BY <3>1
      <3> QED
        BY <3>2 DEF UpFrames
    <2> QED
      BY <2>1, <2>2 DEF UpFrames
  <1> QED
    BY <1>1

LEMMA DownFramesGrow ==
    ASSUME NEW j, NEW h, NEW n \in Nat, NEW m \in Nat, NEW a \in Nat, NEW b \in Nat,
           n <= m, a <= b, \A x \in 1..a : IdOf(h, x) = IdOf(j, x)
    PROVE  DownFrames(j, n, a) \subseteq DownFrames(h, m, b)
  <1> SUFFICES ASSUME NEW f \in DownFrames(j, n, a) PROVE f \in DownFrames(h, m, b)
    OBVIOUS
  <1>1. CASE \E s \in 1..n : f = Command(s)
    BY <1>1 DEF DownFrames
  <1>2. CASE \E x \in 1..a : f = EventAck(x, IdOf(j, x))
    <2>1. PICK x \in 1..a : f = EventAck(x, IdOf(j, x))
      BY <1>2
    <2>2. x \in 1..b /\ f = EventAck(x, IdOf(h, x))
      BY <2>1
    <2> QED
      BY <2>2 DEF DownFrames
  <1>3. CASE \E x \in 0..a, c \in BOOLEAN : f = Reconcile(x, c)
    BY <1>3 DEF DownFrames
  <1> QED
    BY <1>1, <1>2, <1>3 DEF DownFrames

\* Removing frames leaves a queue of such frames.
LEMMA QueueParts ==
    ASSUME NEW S, NEW q \in Seq(S)
    PROVE  /\ q # << >> => q[1] \in S /\ Tail(q) \in Seq(S)
           /\ \A a \in Nat, b \in 0..Len(q) : SubSeq(q, a + 1, b) \in Seq(S)
  <1>1. ASSUME NEW a \in Nat, NEW b \in 0..Len(q) PROVE SubSeq(q, a + 1, b) \in Seq(S)
    <2>1. \A i \in a + 1..b : q[i] \in S
      OBVIOUS
    <2>2. a + 1 \in Int /\ b \in Int
      OBVIOUS
    <2> QED
      BY <2>1, <2>2, SubSeqProperties
  <1> QED
    BY <1>1

\* The connection dies: what is left of the queues was in them.
LEMMA LinkDiesStep ==
    ASSUME NEW S, NEW T, NEW u \in Seq(S), NEW d \in Seq(T), NEW n, LinkDies(u, d, n)
    PROVE  toServer' \in Seq(S) /\ toDaemon' \in Seq(T) /\ link' = "down" /\ active' = FALSE
  <1> DEFINE p == {i \in DOMAIN d : d[i].type = "reconcile"}
             kept == IF p = {} THEN 0..Len(d) ELSE {Max(p) - 1, Max(p)}
  <1>1. toServer' \in Seq(S)
    <2>1. n \in Nat /\ Len(u) \in 0..Len(u) /\ toServer' = SubSeq(u, n + 1, Len(u))
      BY DEF LinkDies
    <2> QED
      BY <2>1, QueueParts
  <1>2. Len(d) \in Nat /\ DOMAIN d = 1..Len(d)
    OBVIOUS
  <1>3. p # {} => Max(p) \in 1..Len(d)
    <2>1. p \in SUBSET (0..Len(d)) /\ p \in SUBSET (1..Len(d))
      BY <1>2
    <2> HIDE DEF p
    <2>2. p # {} => Max(p) \in p
      BY <1>2, <2>1, Bounded
    <2> QED
      BY <2>1, <2>2
  <1>4. PICK m \in kept : toDaemon' = SubSeq(d, 1, m)
    BY DEF LinkDies
  <1> HIDE DEF p
  <1>5. m \in 0..Len(d)
    BY <1>2, <1>3, <1>4
  <1>6. toDaemon' = SubSeq(d, 0 + 1, m)
    BY <1>4
  <1>7. toDaemon' \in Seq(T)
    BY <1>5, <1>6, QueueParts
  <1> QED
    BY <1>1, <1>7 DEF LinkDies
-----------------------------------------------------------------------------
(* Steps of the server, of clients and of the connection.                  *)

LEMMA Numbers ==
    ASSUME IInv
    PROVE  /\ Len(issued) \in Nat /\ DOMAIN issued = 1..Len(issued)
           /\ LastEvent(journal) \in Nat /\ server.eventAck \in 0..LastEvent(journal)
           /\ server.eventAck \in Nat
  BY DEF IInv, StoreInv, JournalInv, EventsInOrder, ReceiptsInv

\* A step that leaves the daemon alone.
LEMMA ServerSide ==
    ASSUME IInv, UNCHANGED daemonVars,
           issued' \in Seq({"run", "cancel"}), Len(issued) <= Len(issued'),
           \A i \in 1..Len(issued) : issued'[i] = issued[i],
           server' = ServerFields(server'), OutboxInv(server', Len(issued')),
           server'.acknowledged \cup server'.tombstones \subseteq Ackable(journal, daemon = "up"),
           ReceiptsInv(server', journal, LastEvent(journal)),
           server.eventAck <= server'.eventAck,
           dispatching' \subseteq 1..Len(issued'),
           late' \in Seq(Up), toServer' \in Seq(Up),
           toDaemon' \in Seq(DownFrames(journal, Len(issued'), server'.eventAck)),
           link' \in {"down", "snapshot", "pending", "ready"}, active' \in BOOLEAN
    PROVE  IInv'
  <1> DEFINE k == LastEvent(journal)
             up == daemon = "up"
  <1>1. /\ journal' = journal /\ daemon' = daemon /\ scheduled' = scheduled
        /\ recovered' = recovered /\ invoked' = invoked
    BY DEF daemonVars
  <1>2. LastEvent(journal)' = k
    BY <1>1
  <1>3. Ackable(journal, daemon = "up")' = Ackable(journal, daemon = "up")
    BY <1>1
  <1>4. Up' = Up
    BY <1>1 DEF Up
  <1>5. Down' = DownFrames(journal, Len(issued'), server'.eventAck)
    BY <1>1 DEF Down
  <1>6. Len(issued) \in Nat /\ Len(issued') \in Nat /\ k \in Nat
        /\ server'.eventAck \in 0..k /\ server.eventAck \in 0..k
    BY Numbers DEF ReceiptsInv
  <1>7. JournalInv(journal, issued', k)
    <2>1. CommandsInOrder(journal, issued) /\ DOMAIN journal.commands \subseteq 1..Len(issued)
      BY DEF IInv, StoreInv, JournalInv, CommandsInOrder
    <2>2. DOMAIN journal.commands \cup journal.tombstones \subseteq 1..Len(issued')
      BY <1>6, <2>1 DEF CommandsInOrder
    <2>3. CommandsInOrder(journal, issued')
      BY <2>1, <2>2 DEF CommandsInOrder
    <2> QED
      BY <2>3 DEF IInv, StoreInv, JournalInv
  <1>8. HandledInv(journal, server'.eventAck)
    <2>1. JournalFile(journal) /\ HandledInv(journal, server.eventAck)
      BY DEF IInv, StoreInv, JournalInv
    <2>2. /\ \A n \in DOMAIN journal.events : n \in Nat
          /\ journal.eventAck \in Nat
      BY <2>1 DEF JournalFile
    <2>3. \A n \in DOMAIN journal.eventTombstones \cup journal.sparse : n \in 1..server'.eventAck
      BY <1>6, <2>1 DEF HandledInv
    <2> QED
      BY <1>6, <2>1, <2>2, <2>3 DEF HandledInv
  <1>9. StoreInv'
    BY <1>1, <1>2, <1>3, <1>7, <1>8 DEF StoreInv
  <1>10. QueueInv'
    BY <1>1, <1>4, <1>5 DEF QueueInv, IInv
  <1>11. ShapeInv'
    <2>1. 1..Len(issued) \subseteq 1..Len(issued')
      BY <1>6
    <2>2. /\ scheduled' \in Seq(1..Len(issued')) /\ recovered'.commands \in Seq(1..Len(issued'))
          /\ invoked' \in Seq(1..Len(issued'))
      BY <1>1, <2>1, SeqMonotonic DEF IInv, ShapeInv
    <2> QED
      BY <1>1, <2>2 DEF IInv, ShapeInv
  <1>12. HandOverInv'
    BY <1>1 DEF IInv, HandOverInv
  <1> QED
    BY <1>9, <1>10, <1>11, <1>12 DEF IInv

\* The same when server and commands stay as they are too.
LEMMA ConnectionSide ==
    ASSUME IInv, UNCHANGED <<issued, server, daemonVars>>,
           dispatching' \subseteq 1..Len(issued),
           late' \in Seq(Up), toServer' \in Seq(Up), toDaemon' \in Seq(Down),
           link' \in {"down", "snapshot", "pending", "ready"}, active' \in BOOLEAN
    PROVE  IInv'
  <1>1. /\ issued' \in Seq({"run", "cancel"}) /\ Len(issued) <= Len(issued')
        /\ \A i \in 1..Len(issued) : issued'[i] = issued[i]
    BY DEF IInv, StoreInv
  <1>2. /\ server' = ServerFields(server') /\ OutboxInv(server', Len(issued'))
        /\ server'.acknowledged \cup server'.tombstones \subseteq Ackable(journal, daemon = "up")
        /\ ReceiptsInv(server', journal, LastEvent(journal))
    BY DEF IInv, StoreInv
  <1>3. server.eventAck <= server'.eventAck
    BY Numbers
  <1>4. toDaemon' \in Seq(DownFrames(journal, Len(issued'), server'.eventAck))
    BY DEF Down
  <1>5. dispatching' \subseteq 1..Len(issued')
    OBVIOUS
  <1> QED
    BY <1>1, <1>2, <1>3, <1>4, <1>5, ServerSide

\* insert_command
LEMMA IssueInv ==
    ASSUME IInv, NEW kind \in {"run", "cancel"}, IssueCommand(kind)
    PROVE  IInv'
  <1> DEFINE n == Len(issued)
  <1>1. n \in Nat /\ server.eventAck \in 0..LastEvent(journal) /\ LastEvent(journal) \in Nat
    BY Numbers
  <1>2. /\ issued' = Append(issued, kind)
        /\ UNCHANGED <<late, linkVars, daemonVars>>
    BY DEF IssueCommand
  <1>3. /\ issued' \in Seq({"run", "cancel"}) /\ Len(issued') = n + 1
        /\ \A i \in 1..n : issued'[i] = issued[i]
    BY <1>2 DEF IInv, StoreInv
  <1>4. NextCommand(server) = n + 1
    BY <1>1, NextCommandIs DEF IInv, StoreInv
  <1>5. PICK o : o = server.outbox \cup {n + 1}
    OBVIOUS
  <1>6. server' = [server EXCEPT !.outbox = o]
    BY <1>4, <1>5 DEF IssueCommand
  <1>7. /\ server' = ServerFields(server') /\ server'.outbox = o
        /\ server'.acknowledged = server.acknowledged /\ server'.tombstones = server.tombstones
        /\ server'.commandAck = server.commandAck /\ server'.receipts = server.receipts
        /\ server'.eventAck = server.eventAck
    BY <1>6 DEF IInv, StoreInv, ServerFields
  <1>8. OutboxInv(server', n + 1)
    <2>1. OutboxInv(server, n)
      BY DEF IInv, StoreInv
    <2>2. o \cup server.tombstones = 1..n + 1 /\ o \cap server.tombstones = {}
      BY <1>1, <1>5, <2>1 DEF OutboxInv
    <2>3. server.commandAck \in 0..n + 1
          /\ \A s \in o : s <= server.commandAck => s \in server.acknowledged
      BY <1>1, <1>5, <2>1 DEF OutboxInv
    <2> QED
      BY <1>5, <1>7, <2>1, <2>2, <2>3 DEF OutboxInv
  <1>9. ReceiptsInv(server', journal, LastEvent(journal))
    BY <1>7 DEF IInv, StoreInv, ReceiptsInv
  <1>10. dispatching' \subseteq 1..n + 1
    BY <1>1, <1>4 DEF IssueCommand, IInv, ShapeInv
  <1>11. late' \in Seq(Up) /\ toServer' \in Seq(Up) /\ link' = link /\ active' = active
         /\ toDaemon' = toDaemon
    BY <1>2 DEF linkVars, IInv, QueueInv
  <1>12. toDaemon' \in Seq(DownFrames(journal, n + 1, server.eventAck))
    <2>1. Down \subseteq DownFrames(journal, n + 1, server.eventAck)
      <3>1. \A x \in 1..server.eventAck : IdOf(journal, x) = IdOf(journal, x)
        OBVIOUS
      <3>2. n + 1 \in Nat /\ n <= n + 1 /\ server.eventAck \in Nat
        BY <1>1
      <3>3. DownFrames(journal, n, server.eventAck)
              \subseteq DownFrames(journal, n + 1, server.eventAck)
        BY <1>1, <3>1, <3>2, DownFramesGrow
      <3> QED
        BY <3>3 DEF Down
    <2> QED
      BY <1>11, <2>1, SeqMonotonic DEF IInv, QueueInv
  <1>13. server'.acknowledged \cup server'.tombstones \subseteq Ackable(journal, daemon = "up")
    BY <1>7 DEF IInv, StoreInv
  <1>14. link' \in {"down", "snapshot", "pending", "ready"} /\ active' \in BOOLEAN
    BY <1>11 DEF IInv, ShapeInv
  <1>15. UNCHANGED daemonVars /\ Len(issued) <= Len(issued') /\ server.eventAck <= server'.eventAck
    BY <1>1, <1>2, <1>3, <1>7
  <1> QED
    BY <1>3, <1>7, <1>8, <1>9, <1>10, <1>11, <1>12, <1>13, <1>14, <1>15, ServerSide

\* RepeatRequest, dispatch_persisted_command, and the steps of the handshake.
LEMMA DispatchInv ==
    ASSUME IInv, NEW s \in 1..MaxCommands,
           RepeatRequest(s) \/ DispatchCommand(s) \/ SkipDispatch(s)
    PROVE  IInv'
  <1>1. /\ UNCHANGED <<issued, server, daemonVars, late, toServer, link, active>>
        /\ dispatching' \subseteq 1..Len(issued)
    BY Numbers DEF RepeatRequest, DispatchCommand, SkipDispatch, linkVars, IInv, ShapeInv
  <1>2. toDaemon' \in Seq(Down)
    <2>1. CASE RepeatRequest(s) \/ SkipDispatch(s)
      BY <2>1 DEF RepeatRequest, SkipDispatch, linkVars, IInv, QueueInv
    <2>2. CASE DispatchCommand(s)
      <3>1. s \in 1..Len(issued) /\ toDaemon' = Append(toDaemon, Command(s))
        BY <2>2 DEF DispatchCommand, IInv, ShapeInv
      <3>2. Command(s) \in Down
        BY <3>1 DEF Down, DownFrames
      <3> QED
        BY <3>1, <3>2 DEF IInv, QueueInv
    <2> QED
      BY <2>1, <2>2
  <1> QED
    BY <1>1, <1>2, ConnectionSide DEF IInv, QueueInv, ShapeInv

LEMMA HandshakeInv ==
    ASSUME IInv, Connect \/ SendPending \/ MarkLiveReady
    PROVE  IInv'
  <1>1. /\ UNCHANGED <<issued, server, daemonVars, dispatching, late, toServer, active>>
        /\ link' \in {"down", "snapshot", "pending", "ready"}
    BY DEF Connect, SendPending, MarkLiveReady, serverVars
  <1>2. toDaemon' \in Seq(Down)
    <2>1. CASE Connect
      <3>1. Reconcile(server.eventAck, issued # << >>) \in Down
        <4>1. server.eventAck \in 0..server.eventAck
          BY Numbers
        <4>2. \E b \in BOOLEAN : Reconcile(server.eventAck, issued # << >>)
                                   = Reconcile(server.eventAck, b)
          <5>1. CASE issued # << >>
            <6>1. Reconcile(server.eventAck, issued # << >>) = Reconcile(server.eventAck, TRUE)
              BY <5>1, Zenon DEF Reconcile
            <6> QED
              BY <6>1
          <5>2. CASE issued = << >>
            <6>1. Reconcile(server.eventAck, issued # << >>) = Reconcile(server.eventAck, FALSE)
              BY <5>2, Zenon DEF Reconcile
            <6> QED
              BY <6>1
          <5> QED
            BY <5>1, <5>2
        <4>3. PICK f : f = Reconcile(server.eventAck, issued # << >>)
          OBVIOUS
        <4> QED
          BY <4>1, <4>2, <4>3 DEF Down, DownFrames
      <3> QED
        BY <2>1, <3>1 DEF Connect, IInv, QueueInv
    <2>2. CASE SendPending
      <3> DEFINE open == Ascending(server.outbox \ server.acknowledged)
                 new == [i \in 1..Len(open) |-> Command(open[i])]
      <3>1. server.outbox \ server.acknowledged \in SUBSET (1..Len(issued))
        BY DEF IInv, StoreInv, OutboxInv
      <3>2. open \in Seq(server.outbox \ server.acknowledged)
        BY <3>1, Numbers, AscendingSeq
      <3> HIDE DEF open
      <3>3. Len(open) \in Nat /\ \A i \in 1..Len(open) : open[i] \in 1..Len(issued)
        BY <3>1, <3>2
      <3>4. \A i \in 1..Len(open) : Command(open[i]) \in Down
        BY <3>3 DEF Down, DownFrames
      <3>5. new \in Seq(Down)
        BY <3>3, <3>4
      <3>6. toDaemon' = toDaemon \o new
        BY <2>2 DEF SendPending, open
      <3> HIDE DEF new
      <3>7. toDaemon \in Seq(Down)
        BY DEF IInv, QueueInv
      <3> QED
        BY <3>5, <3>6, <3>7, ConcatProperties
    <2>3. CASE MarkLiveReady
      BY <2>3 DEF MarkLiveReady, IInv, QueueInv
    <2> QED
      BY <2>1, <2>2, <2>3
  <1> QED
    BY <1>1, <1>2, ConnectionSide DEF IInv, QueueInv, ShapeInv

\* Disconnect, NoticeDisconnect, ServerRestart, and the two gaps that close the
\* connection.
LEMMA DisconnectInv ==
    ASSUME IInv,
           \/ Disconnect \/ NoticeDisconnect \/ ServerRestart
           \/ ReceiveEventGap \/ ReceiveCommandOverflow
    PROVE  IInv'
  <1>1. toServer \in Seq(Up) /\ toDaemon \in Seq(Down) /\ late \in Seq(Up)
    BY DEF IInv, QueueInv
  <1>2. UNCHANGED <<issued, server, daemonVars>>
    BY DEF Disconnect, NoticeDisconnect, ServerRestart, ReceiveEventGap,
           ReceiveCommandOverflow, serverVars
  <1>3. dispatching' \subseteq 1..Len(issued)
    BY DEF Disconnect, NoticeDisconnect, ServerRestart, ReceiveEventGap,
           ReceiveCommandOverflow, serverVars, IInv, ShapeInv
  <1>4. \E u \in Seq(Up), d \in Seq(Down), n \in Nat : LinkDies(u, d, n)
    <2>1. CASE Disconnect \/ NoticeDisconnect \/ ServerRestart
      <3>1. \E n \in 0..MaxFrames : LinkDies(toServer, toDaemon, n)
        BY <2>1 DEF Disconnect, NoticeDisconnect, ServerRestart
      <3> QED
        BY <1>1, <3>1
    <2>2. CASE ReceiveEventGap
      <3>1. PICK u : u = Tail(toServer)
        OBVIOUS
      <3>2. \E n \in 0..MaxFrames : LinkDies(u, toDaemon, n)
        BY <2>2, <3>1 DEF ReceiveEventGap
      <3>3. u \in Seq(Up)
        BY <1>1, <2>2, <3>1, QueueParts DEF ReceiveEventGap, Received, Head1
      <3> QED
        BY <1>1, <3>2, <3>3
    <2>3. CASE ReceiveCommandOverflow
      <3>1. PICK d : d = Tail(toDaemon)
        OBVIOUS
      <3>2. \E n \in 0..MaxFrames : LinkDies(toServer, d, n)
        BY <2>3, <3>1 DEF ReceiveCommandOverflow
      <3>3. d \in Seq(Down)
        BY <1>1, <2>3, <3>1, QueueParts DEF ReceiveCommandOverflow, Handles, Head1
      <3> QED
        BY <1>1, <3>2, <3>3
    <2> QED
      BY <2>1, <2>2, <2>3
  <1>5. toServer' \in Seq(Up) /\ toDaemon' \in Seq(Down) /\ link' = "down" /\ active' = FALSE
    BY <1>4, LinkDiesStep
  <1>6. late' \in Seq(Up)
    <2>1. late' = late \/ late' = << >> \/ (late' = <<toServer[1]>> /\ toServer # << >>)
      <3>1. CASE Disconnect
        <4>1. PICK n \in 0..MaxFrames : /\ LinkDies(toServer, toDaemon, n)
                 /\ \/ late' = late
                    \/ n > 0 /\ link = "ready" /\ late = << >> /\ late' = <<toServer[1]>>
          BY <3>1 DEF Disconnect
        <4>2. n > 0 => toServer # << >>
          BY <4>1 DEF LinkDies
        <4> QED
          BY <4>1, <4>2
      <3>2. CASE NoticeDisconnect \/ ServerRestart \/ ReceiveEventGap \/ ReceiveCommandOverflow
        BY <3>2 DEF NoticeDisconnect, ServerRestart, ReceiveEventGap, ReceiveCommandOverflow,
                    serverVars
      <3> QED
        BY <3>1, <3>2
    <2>2. toServer # << >> => toServer[1] \in Up
      BY <1>1, QueueParts
    <2>3. << >> \in Seq(Up) /\ (toServer # << >> => <<toServer[1]>> \in Seq(Up))
      BY <2>2
    <2>4. CASE late' = late
      BY <1>1, <2>4
    <2>5. CASE late' = << >>
      BY <2>3, <2>5
    <2>6. CASE late' = <<toServer[1]>> /\ toServer # << >>
      BY <2>3, <2>6
    <2> QED
      BY <2>1, <2>4, <2>5, <2>6
  <1>7. link' \in {"down", "snapshot", "pending", "ready"} /\ active' \in BOOLEAN
    BY <1>5
  <1> QED
    BY <1>2, <1>3, <1>5, <1>6, <1>7, ConnectionSide

\* A receipt: the server's state, and what may be on its way afterwards.
LEMMA ReceiptInv ==
    ASSUME IInv, NEW f \in Up, f.type = "event", ~EventGap(server, f),
           server' = RecordEvent(server, f),
           UNCHANGED <<issued, daemonVars>>
    PROVE  /\ server' = ServerFields(server') /\ OutboxInv(server', Len(issued))
           /\ server'.acknowledged = server.acknowledged
           /\ server'.tombstones = server.tombstones
           /\ ReceiptsInv(server', journal, LastEvent(journal))
           /\ server'.eventAck = server.eventAck \/ server'.eventAck = server.eventAck + 1
           /\ f.seq \in 1..server'.eventAck /\ f.id = IdOf(journal, f.seq)
           /\ Down \subseteq DownFrames(journal, Len(issued), server'.eventAck)
  <1> DEFINE k == LastEvent(journal)
  <1>1. f.seq \in 1..k /\ f.id = IdOf(journal, f.seq)
    BY UpFrameIs DEF Up
  <1>2. k \in Nat /\ Len(issued) \in Nat /\ server.eventAck \in 0..k
    BY Numbers
  <1>3. server = ServerFields(server) /\ OutboxInv(server, Len(issued))
        /\ ReceiptsInv(server, journal, k)
    BY DEF IInv, StoreInv
  <1>4. \/ server' = server
        \/ /\ server' = ServerFields(server') /\ server'.outbox = server.outbox
           /\ server'.acknowledged = server.acknowledged
           /\ server'.tombstones = server.tombstones /\ server'.commandAck = server.commandAck
           /\ server'.eventAck = server.eventAck + 1 /\ server'.eventAck \in 1..k
           /\ DOMAIN server'.receipts = 1..server'.eventAck
           /\ \A n \in 1..server'.eventAck : server'.receipts[n] = IdOf(journal, n)
    BY <1>1, <1>2, <1>3, RecordStep
  <1>5. /\ server' = ServerFields(server') /\ OutboxInv(server', Len(issued))
        /\ server'.acknowledged = server.acknowledged
        /\ server'.tombstones = server.tombstones
    BY <1>3, <1>4 DEF OutboxInv
  <1>6. ReceiptsInv(server', journal, k)
        /\ (server'.eventAck = server.eventAck \/ server'.eventAck = server.eventAck + 1)
    BY <1>2, <1>3, <1>4 DEF ReceiptsInv
  <1>7. f.seq \in 1..server'.eventAck
    <2>1. f.seq <= server.eventAck + 1
      BY <1>1, <1>2 DEF EventGap
    <2>2. CASE f.seq \in DOMAIN server.receipts
      BY <1>2, <1>3, <1>6, <2>2 DEF ReceiptsInv
    <2>3. CASE f.seq \notin DOMAIN server.receipts
      <3>1. f.seq = server.eventAck + 1
        BY <1>1, <1>2, <1>3, <2>1, <2>3 DEF ReceiptsInv
      <3>2. PICK c, x : server' = [server EXCEPT !.receipts = c, !.eventAck = x]
                        /\ c = With(server.receipts, f.seq, f.id)
        BY <2>3 DEF RecordEvent
      <3>3. server'.receipts = c /\ DOMAIN c = DOMAIN server.receipts \cup {f.seq}
        BY <1>3, <3>2 DEF ServerFields, With
      <3> QED
        BY <1>6, <3>3 DEF ReceiptsInv
    <2> QED
      BY <2>2, <2>3
  <1>8. Down \subseteq DownFrames(journal, Len(issued), server'.eventAck)
    <2>1. \A x \in 1..server.eventAck : IdOf(journal, x) = IdOf(journal, x)
      OBVIOUS
    <2>2. server'.eventAck \in Nat /\ server.eventAck \in Nat /\ server.eventAck <= server'.eventAck
      BY <1>2, <1>6
    <2>3. DownFrames(journal, Len(issued), server.eventAck)
            \subseteq DownFrames(journal, Len(issued), server'.eventAck)
      BY <1>2, <2>1, <2>2, DownFramesGrow
    <2> QED
      BY <2>3 DEF Down
  <1> QED
    BY <1>1, <1>5, <1>6, <1>7, <1>8

LEMMA ReceiveEventInv ==
    ASSUME IInv, ReceiveEvent
    PROVE  /\ IInv'
           /\ server'.eventAck = server.eventAck \/ server'.eventAck = server.eventAck + 1
  <1>1. PICK f : f = toServer[1]
    OBVIOUS
  <1>2. /\ toServer # << >> /\ f.type = "event" /\ ~EventGap(server, f)
        /\ server' = RecordEvent(server, f) /\ toServer' = Tail(toServer)
        /\ toDaemon' = Append(toDaemon, EventAck(f.seq, f.id))
        /\ UNCHANGED <<issued, dispatching, late, link, active, daemonVars>>
    BY <1>1 DEF ReceiveEvent, Received, Head1
  <1>3. f \in Up /\ toServer' \in Seq(Up) /\ late' \in Seq(Up)
    BY <1>1, <1>2, QueueParts DEF IInv, QueueInv
  <1>4. /\ server' = ServerFields(server') /\ OutboxInv(server', Len(issued))
        /\ server'.acknowledged = server.acknowledged
        /\ server'.tombstones = server.tombstones
        /\ ReceiptsInv(server', journal, LastEvent(journal))
        /\ (server'.eventAck = server.eventAck \/ server'.eventAck = server.eventAck + 1)
        /\ f.seq \in 1..server'.eventAck /\ f.id = IdOf(journal, f.seq)
        /\ Down \subseteq DownFrames(journal, Len(issued), server'.eventAck)
    BY <1>2, <1>3, ReceiptInv
  <1>5. toDaemon' \in Seq(DownFrames(journal, Len(issued'), server'.eventAck))
    <2> DEFINE D == DownFrames(journal, Len(issued), server'.eventAck)
    <2>1. EventAck(f.seq, f.id) \in D
      BY <1>4 DEF DownFrames
    <2> HIDE DEF D
    <2>2. toDaemon \in Seq(D)
      BY <1>4, SeqMonotonic DEF IInv, QueueInv, D
    <2>3. toDaemon' \in Seq(D)
      BY <1>2, <2>1, <2>2
    <2> QED
      BY <1>2, <2>3 DEF D
  <1>6. server.eventAck <= server'.eventAck /\ Len(issued) <= Len(issued')
        /\ \A i \in 1..Len(issued) : issued'[i] = issued[i]
    BY <1>2, <1>4, Numbers
  <1>7. /\ issued' \in Seq({"run", "cancel"}) /\ OutboxInv(server', Len(issued'))
        /\ server'.acknowledged \cup server'.tombstones \subseteq Ackable(journal, daemon = "up")
    BY <1>2, <1>4 DEF IInv, StoreInv
  <1>8. /\ dispatching' \subseteq 1..Len(issued')
        /\ link' \in {"down", "snapshot", "pending", "ready"} /\ active' \in BOOLEAN
    BY <1>2 DEF IInv, ShapeInv
  <1> QED
    BY <1>2, <1>3, <1>4, <1>5, <1>6, <1>7, <1>8, ServerSide

\* acknowledge_command, of a command the daemon has told.
LEMMA ReceiptOfCommand ==
    ASSUME IInv, NEW f \in Up, f.type = "command_ack",
           server' = AcknowledgeCommand(server, f.seq), UNCHANGED <<issued, daemonVars>>
    PROVE  /\ server' = ServerFields(server') /\ OutboxInv(server', Len(issued))
           /\ server'.acknowledged \cup server'.tombstones \subseteq Ackable(journal, daemon = "up")
           /\ ReceiptsInv(server', journal, LastEvent(journal))
           /\ server'.eventAck = server.eventAck
  <1>1. f.seq \in Ackable(journal, daemon = "up")
    BY UpFrameIs DEF Up
  <1>2. /\ server = ServerFields(server) /\ OutboxInv(server, Len(issued))
        /\ ReceiptsInv(server, journal, LastEvent(journal))
        /\ server.acknowledged \cup server.tombstones \subseteq Ackable(journal, daemon = "up")
    BY DEF IInv, StoreInv
  <1>3. /\ server' = ServerFields(server') /\ OutboxInv(server', Len(issued))
        /\ server'.acknowledged \cup server'.tombstones
             \subseteq server.acknowledged \cup server.tombstones \cup {f.seq}
        /\ server'.receipts = server.receipts /\ server'.eventAck = server.eventAck
    BY <1>2, Numbers, AcknowledgeCommandStep
  <1>4. server'.acknowledged \cup server'.tombstones \subseteq Ackable(journal, daemon = "up")
    BY <1>1, <1>2, <1>3
  <1> QED
    BY <1>2, <1>3, <1>4 DEF ReceiptsInv

\* What is left to say of a step that changes the server's tables only.
LEMMA TablesInv ==
    ASSUME IInv, UNCHANGED <<issued, dispatching, daemonVars, link, active, toDaemon>>,
           server' = ServerFields(server'), OutboxInv(server', Len(issued)),
           server'.acknowledged \cup server'.tombstones \subseteq Ackable(journal, daemon = "up"),
           ReceiptsInv(server', journal, LastEvent(journal)),
           server'.eventAck = server.eventAck \/ server'.eventAck = server.eventAck + 1,
           late' \in Seq(Up), toServer' \in Seq(Up)
    PROVE  IInv'
  <1>1. server.eventAck <= server'.eventAck /\ server.eventAck \in Nat /\ server'.eventAck \in Nat
    BY Numbers
  <1>2. toDaemon' \in Seq(DownFrames(journal, Len(issued'), server'.eventAck))
    <2>1. \A x \in 1..server.eventAck : IdOf(journal, x) = IdOf(journal, x)
      OBVIOUS
    <2>2. DownFrames(journal, Len(issued), server.eventAck)
            \subseteq DownFrames(journal, Len(issued), server'.eventAck)
      BY <1>1, <2>1, Numbers, DownFramesGrow
    <2> QED
      BY <2>2, SeqMonotonic DEF IInv, QueueInv, Down
  <1>3. /\ issued' \in Seq({"run", "cancel"}) /\ OutboxInv(server', Len(issued'))
        /\ Len(issued) <= Len(issued') /\ \A i \in 1..Len(issued) : issued'[i] = issued[i]
    BY Numbers DEF IInv, StoreInv
  <1>4. /\ dispatching' \subseteq 1..Len(issued')
        /\ link' \in {"down", "snapshot", "pending", "ready"} /\ active' \in BOOLEAN
    BY DEF IInv, ShapeInv
  <1> QED
    BY <1>1, <1>2, <1>3, <1>4, ServerSide

LEMMA ReceiveCommandAckInv ==
    ASSUME IInv, ReceiveCommandAck
    PROVE  IInv' /\ server'.eventAck = server.eventAck
  <1>1. PICK f : f = toServer[1]
    OBVIOUS
  <1>2. /\ toServer # << >> /\ f.type = "command_ack"
        /\ server' = AcknowledgeCommand(server, f.seq) /\ toServer' = Tail(toServer)
        /\ UNCHANGED <<issued, dispatching, late, link, active, toDaemon, daemonVars>>
    BY <1>1 DEF ReceiveCommandAck, Received, Head1
  <1>3. f \in Up /\ toServer' \in Seq(Up) /\ late' \in Seq(Up)
    BY <1>1, <1>2, QueueParts DEF IInv, QueueInv
  <1>4. /\ server' = ServerFields(server') /\ OutboxInv(server', Len(issued))
        /\ server'.acknowledged \cup server'.tombstones \subseteq Ackable(journal, daemon = "up")
        /\ ReceiptsInv(server', journal, LastEvent(journal))
        /\ server'.eventAck = server.eventAck
    BY <1>2, <1>3, ReceiptOfCommand
  <1> QED
    BY <1>2, <1>3, <1>4, TablesInv

LEMMA HandleLateInv ==
    ASSUME IInv, HandleLate
    PROVE  /\ IInv'
           /\ server'.eventAck = server.eventAck \/ server'.eventAck = server.eventAck + 1
  <1>1. PICK f : f = late[1]
    OBVIOUS
  <1>2. /\ late # << >> /\ late' = << >>
        /\ server' = CASE f.type = "command_ack" -> AcknowledgeCommand(server, f.seq)
                       [] f.type = "event" /\ ~EventGap(server, f) -> RecordEvent(server, f)
                       [] OTHER -> server
        /\ UNCHANGED <<issued, dispatching, toServer, link, active, toDaemon, daemonVars>>
    BY <1>1 DEF HandleLate, linkVars
  <1>3. f \in Up /\ toServer' \in Seq(Up) /\ late' \in Seq(Up)
    BY <1>1, <1>2, QueueParts DEF IInv, QueueInv
  <1>4. CASE f.type = "command_ack"
    <2>1. server' = AcknowledgeCommand(server, f.seq)
      BY <1>2, <1>4
    <2>2. /\ server' = ServerFields(server') /\ OutboxInv(server', Len(issued))
          /\ server'.acknowledged \cup server'.tombstones \subseteq Ackable(journal, daemon = "up")
          /\ ReceiptsInv(server', journal, LastEvent(journal))
          /\ server'.eventAck = server.eventAck
      BY <1>2, <1>3, <1>4, <2>1, ReceiptOfCommand
    <2> QED
      BY <1>2, <1>3, <2>2, TablesInv
  <1>5. CASE f.type = "event" /\ ~EventGap(server, f)
    <2>1. server' = RecordEvent(server, f)
      BY <1>2, <1>5
    <2>2. /\ server' = ServerFields(server') /\ OutboxInv(server', Len(issued))
          /\ server'.acknowledged = server.acknowledged
          /\ server'.tombstones = server.tombstones
          /\ ReceiptsInv(server', journal, LastEvent(journal))
          /\ (server'.eventAck = server.eventAck \/ server'.eventAck = server.eventAck + 1)
      BY <1>2, <1>3, <1>5, <2>1, ReceiptInv
    <2>3. server'.acknowledged \cup server'.tombstones \subseteq Ackable(journal, daemon = "up")
      BY <2>2 DEF IInv, StoreInv
    <2> QED
      BY <1>2, <1>3, <2>2, <2>3, TablesInv
  <1>6. CASE f.type # "command_ack" /\ ~(f.type = "event" /\ ~EventGap(server, f))
    <2>1. server' = server
      BY <1>2, <1>6
    <2>2. /\ server' = ServerFields(server') /\ OutboxInv(server', Len(issued))
          /\ server'.acknowledged \cup server'.tombstones \subseteq Ackable(journal, daemon = "up")
          /\ ReceiptsInv(server', journal, LastEvent(journal))
      BY <2>1 DEF IInv, StoreInv
    <2> QED
      BY <1>2, <1>3, <2>1, <2>2, TablesInv
  <1> QED
    BY <1>4, <1>5, <1>6
-----------------------------------------------------------------------------
(* Lists of commands.                                                      *)

Distinct(q) == \A i, k \in DOMAIN q : q[i] = q[k] => i = k

\* At most one command is handed over at a time.
LEMMA HandedOver ==
    ASSUME NEW S, NEW q \in Seq(S), NEW next \in Seq(S), Len(next) <= 1
    PROVE  /\ q \o next \in Seq(S) /\ ToSet(q \o next) = ToSet(q) \cup ToSet(next)
           /\ ToSet(next) \cap ToSet(q) = {} /\ Distinct(q) => Distinct(q \o next)
           /\ \/ next = << >> /\ ToSet(next) = {} /\ q \o next = q
              \/ \E x \in S : next = <<x>> /\ ToSet(next) = {x} /\ q \o next = Append(q, x)
  <1>1. CASE next = << >>
    <2>1. q \o next = q
      BY <1>1, ConcatEmptySeq
    <2>2. ToSet(next) = {}
      BY <1>1 DEF ToSet
    <2> QED
      BY <1>1, <2>1, <2>2
  <1>2. CASE next # << >>
    <2>1. PICK x : x = next[1]
      OBVIOUS
    <2>2. Len(next) = 1 /\ DOMAIN next = {1} /\ x \in S
      <3>1. PICK n \in Nat \ {0} : n = Len(next) /\ n <= 1
        BY <1>2, EmptySeq
      <3>2. Len(next) = 1
        <4>1. n = 1
          BY <3>1
        <4> QED
          BY <3>1, <4>1
      <3>3. DOMAIN next = 1..1 /\ 1..1 = {1}
        BY <3>2
      <3> QED
        BY <2>1, <3>2, <3>3
    <2>3. next = <<x>>
      BY <2>1, <2>2
    <2>4. PICK r : r = Append(q, x)
      OBVIOUS
    <2>5. q \o next = r
      BY <2>2, <2>3, <2>4
    <2>6. /\ r \in Seq(S) /\ DOMAIN r = 1..Len(q) + 1 /\ r[Len(q) + 1] = x
          /\ \A i \in 1..Len(q) : r[i] = q[i]
      BY <2>2, <2>4
    <2>7. DOMAIN q = 1..Len(q) /\ Len(q) \in Nat
      OBVIOUS
    <2>8. ToSet(next) = {x}
      BY <2>1, <2>2 DEF ToSet
    <2>9. ToSet(r) = ToSet(q) \cup {x}
      <3>1. \A y \in ToSet(r) : y \in ToSet(q) \cup {x}
        BY <2>6, <2>7 DEF ToSet
      <3>2. \A y \in ToSet(q) : y \in ToSet(r)
        BY <2>6, <2>7 DEF ToSet
      <3>3. x \in ToSet(r)
        BY <2>6, <2>7 DEF ToSet
      <3> QED
        BY <3>1, <3>2, <3>3
    <2>10. ASSUME Distinct(q), x \notin ToSet(q) PROVE Distinct(r)
      <3>1. \A i \in 1..Len(q) : q[i] # x
        BY <2>7, <2>10 DEF ToSet
      <3> QED
        BY <2>6, <2>7, <2>10, <3>1 DEF Distinct
    <2> QED
      BY <2>2, <2>3, <2>4, <2>5, <2>6, <2>8, <2>9, <2>10
  <1> QED
    BY <1>1, <1>2

\* A finished command leaves the scheduler's list.
LEMMA Removed ==
    ASSUME NEW S, NEW q \in Seq(S), Distinct(q), NEW i \in DOMAIN q
    PROVE  /\ RemoveAt(q, i) \in Seq(S) /\ Distinct(RemoveAt(q, i))
           /\ ToSet(RemoveAt(q, i)) = ToSet(q) \ {q[i]}
  <1> DEFINE r == RemoveAt(q, i)
             n == Len(q)
  <1>1. n \in Nat /\ i \in 1..n /\ DOMAIN q = 1..n
    OBVIOUS
  <1>2. PICK a, b : a = SubSeq(q, 1, i - 1) /\ b = SubSeq(q, i + 1, n)
    OBVIOUS
  <1>3. /\ a \in Seq(S) /\ Len(a) = i - 1
        /\ \A x \in 1..i - 1 : a[x] = q[x]
    <2>1. 1 \in Int /\ i - 1 \in Int /\ \A x \in 1..i - 1 : q[x] \in S
      BY <1>1
    <2>2. /\ a \in Seq(S) /\ Len(a) = IF 1 <= i - 1 THEN i - 1 - 1 + 1 ELSE 0
          /\ \A x \in 1..i - 1 - 1 + 1 : a[x] = q[1 + x - 1]
      BY <1>2, <2>1, SubSeqProperties
    <2> QED
      BY <1>1, <2>2
  <1>4. /\ b \in Seq(S) /\ Len(b) = n - i
        /\ \A x \in 1..n - i : b[x] = q[i + x]
    <2>1. i + 1 \in Int /\ n \in Int /\ \A x \in i + 1..n : q[x] \in S
      BY <1>1
    <2>2. /\ b \in Seq(S) /\ Len(b) = IF i + 1 <= n THEN n - (i + 1) + 1 ELSE 0
          /\ \A x \in 1..n - (i + 1) + 1 : b[x] = q[i + 1 + x - 1]
      BY <1>2, <2>1, SubSeqProperties
    <2>3. ASSUME NEW x \in 1..n - i PROVE b[x] = q[i + x]
      <3>1. x \in 1..n - (i + 1) + 1 /\ i + 1 + x - 1 = i + x
        BY <1>1
      <3> QED
        BY <2>2, <3>1
    <2>4. Len(b) = n - i
      BY <1>1, <2>2
    <2> QED
      BY <2>2, <2>3, <2>4
  <1>5. r = a \o b
    BY <1>2 DEF RemoveAt
  <1> HIDE DEF r
  <1>6. /\ r \in Seq(S) /\ Len(r) = n - 1
        /\ \A x \in 1..n - 1 : r[x] = IF x < i THEN q[x] ELSE q[x + 1]
    <2>1. /\ r \in Seq(S) /\ Len(r) = Len(a) + Len(b)
          /\ \A x \in 1..Len(a) + Len(b) :
                r[x] = IF x <= Len(a) THEN a[x] ELSE b[x - Len(a)]
      BY <1>3, <1>4, <1>5, ConcatProperties
    <2>2. ASSUME NEW x \in 1..n - 1 PROVE r[x] = IF x < i THEN q[x] ELSE q[x + 1]
      <3>1. CASE x < i
        <4>1. x \in 1..i - 1 /\ x <= Len(a) /\ x \in 1..Len(a) + Len(b)
          BY <1>1, <1>3, <1>4, <3>1
        <4> QED
          BY <1>3, <2>1, <3>1, <4>1
      <3>2. CASE x >= i
        <4>1. x - (i - 1) \in 1..n - i /\ i + (x - (i - 1)) = x + 1
          BY <1>1, <3>2
        <4>2. b[x - (i - 1)] = q[x + 1]
          BY <1>4, <4>1
        <4>3. ~(x <= Len(a)) /\ ~(x < i) /\ x \in 1..Len(a) + Len(b) /\ x - Len(a) = x - (i - 1)
          BY <1>1, <1>3, <1>4, <3>2
        <4>4. r[x] = b[x - Len(a)]
          BY <2>1, <4>3
        <4>5. b[x - Len(a)] = b[x - (i - 1)]
          BY <4>3
        <4> QED
          BY <4>2, <4>3, <4>4, <4>5
      <3> QED
        BY <1>1, <3>1, <3>2
    <2> QED
      BY <1>1, <1>3, <1>4, <2>1, <2>2
  <1>7. DOMAIN r = 1..n - 1
    BY <1>6
  <1>8. Distinct(r)
    <2> SUFFICES ASSUME NEW x \in 1..n - 1, NEW y \in 1..n - 1, r[x] = r[y] PROVE x = y
      BY <1>7 DEF Distinct
    <2>1. PICK v \in 1..n, w \in 1..n : /\ r[x] = q[v] /\ v = IF x < i THEN x ELSE x + 1
                                       /\ r[y] = q[w] /\ w = IF y < i THEN y ELSE y + 1
      <3>1. (IF x < i THEN x ELSE x + 1) \in 1..n /\ (IF y < i THEN y ELSE y + 1) \in 1..n
        BY <1>1
      <3> QED
        BY <1>6, <3>1
    <2>2. v = w
      BY <1>1, <2>1 DEF Distinct
    <2> QED
      BY <1>1, <2>1, <2>2
  <1>9. \A x \in 1..n : x # i => \E y \in 1..n - 1 : r[y] = q[x]
    <2> SUFFICES ASSUME NEW x \in 1..n, x # i PROVE \E y \in 1..n - 1 : r[y] = q[x]
      OBVIOUS
    <2>1. CASE x < i
      BY <1>1, <1>6, <2>1
    <2>2. CASE x > i
      <3>1. x - 1 \in 1..n - 1 /\ ~(x - 1 < i) /\ (x - 1) + 1 = x
        BY <1>1, <2>2
      <3> QED
        BY <1>6, <3>1
    <2> QED
      BY <1>1, <2>1, <2>2
  <1>10. \A y \in 1..n - 1 : \E x \in 1..n : x # i /\ r[y] = q[x]
    <2> SUFFICES ASSUME NEW y \in 1..n - 1 PROVE \E x \in 1..n : x # i /\ r[y] = q[x]
      OBVIOUS
    <2>1. y \in 1..n /\ y + 1 \in 1..n /\ (y < i => y # i) /\ (~(y < i) => y + 1 # i)
      BY <1>1
    <2> QED
      BY <1>6, <2>1
  <1>11. ToSet(r) = ToSet(q) \ {q[i]}
    <2>1. \A v \in ToSet(r) : v \in ToSet(q) /\ v # q[i]
      BY <1>1, <1>7, <1>10 DEF ToSet, Distinct
    <2>2. \A v \in ToSet(q) : v # q[i] => v \in ToSet(r)
      BY <1>1, <1>7, <1>9 DEF ToSet
    <2> QED
      BY <2>1, <2>2
  <1> QED
    BY <1>6, <1>8, <1>11 DEF r
-----------------------------------------------------------------------------
(* Steps of the daemon.                                                    *)

\* A command whose turn has come is later than every run that has started.
LEMMA RunOrder ==
    ASSUME NEW cmds \in Seq({"run", "cancel"}), NEW j, NEW k, JournalInv(j, cmds, k),
           NEW q \in 1..Len(cmds), q \in Begun(j) \/ Done(j, q), cmds[q] = "run",
           q # j.processed + 1
    PROVE  q < j.processed + 1
  <1>1. JournalFile(j) /\ CommandsInOrder(j, cmds) /\ j.processed \in Nat
    BY DEF JournalInv, JournalFile
  <1>2. CASE q \in Begun(j)
    BY <1>1, <1>2 DEF Begun, CommandsInOrder
  <1>3. CASE Done(j, q)
    BY <1>1, <1>3 DEF Done, CommandsInOrder
  <1> QED
    BY <1>2, <1>3

\* A received command that may start is not behind the boundary.
LEMMA ReceivedIsAhead ==
    ASSUME NEW cmds \in Seq({"run", "cancel"}), NEW j, NEW k, JournalInv(j, cmds, k),
           NEW s \in DOMAIN j.commands, j.commands[s] = "received"
    PROVE  s \in 1..Len(cmds) /\ s > j.processed /\ ~Done(j, s) /\ s \notin Begun(j)
  <1>1. JournalFile(j) /\ CommandsInOrder(j, cmds) /\ j.processed \in Nat
    BY DEF JournalInv, JournalFile
  <1>2. ~Done(j, s) /\ s \notin Begun(j) /\ s \in 1..Len(cmds)
    BY <1>1 DEF Done, Begun, CommandsInOrder
  <1>3. ~(s \in 1..j.processed)
    BY <1>1, <1>2 DEF CommandsInOrder
  <1> QED
    BY <1>1, <1>2, <1>3

LEMMA QuietAckable ==
    ASSUME NEW cmds, NEW j, NEW k, NEW r, Quiet(r, j, cmds, k), NEW up
    PROVE  Ackable(j, up) \subseteq Ackable(r, up)
  BY DEF Quiet, Ackable, Expected

\* When no received command waits for its turn, the daemon may have told of all.
LEMMA AckableAll ==
    ASSUME NEW j, NEW up, NextReady(j) = {} \/ ~(up \/ ~j.tracked)
    PROVE  Ackable(j, up) = DOMAIN j.commands \cup j.tombstones
  BY DEF Ackable, NextReady, Expected

\* mark_dispatch_started of the next command, if there is one.
Started(r, j, cmds, k, T) ==
    /\ JournalInv(r, cmds, k) /\ SameEvents(r, j)
    /\ \A n : IdOf(r, n) = IdOf(j, n)
    /\ Begun(r) = Begun(j) \cup T
    /\ \A q : Done(r, q) <=> Done(j, q)
    /\ r.tracked = j.tracked /\ r.processed = j.processed
    /\ DOMAIN r.commands = DOMAIN j.commands /\ r.tombstones = j.tombstones
    /\ \A q \in DOMAIN j.commands : r.commands[q] = "received" =>
          j.commands[q] = "received" /\ q \notin T
    /\ \A up : Ackable(j, up) \subseteq Ackable(r, up)
    /\ T \subseteq DOMAIN j.commands

LEMMA StartNext ==
    ASSUME NEW cmds \in Seq({"run", "cancel"}), NEW j, NEW k, JournalInv(j, cmds, k),
           NEW next \in Seq(DOMAIN j.commands), Len(next) <= 1,
           \A s \in ToSet(next) :
              j.commands[s] = "received" /\ (cmds[s] = "run" => s = j.processed + 1),
           NEW r, r = IF next = << >> THEN j ELSE MarkStarted(j, next[1])
    PROVE  Started(r, j, cmds, k, ToSet(next))
  <1>1. CASE next = << >>
    <2>1. ToSet(next) = {} /\ r = j
      BY <1>1 DEF ToSet
    <2> QED
      BY <2>1 DEF Started, SameEvents, Begun
  <1>2. CASE next # << >>
    <2>1. PICK s \in DOMAIN j.commands : next = <<s>> /\ ToSet(next) = {s}
      BY <1>2, HandedOver
    <2>2. r = MarkStarted(j, s)
      BY <1>2, <2>1
    <2>3. j.commands[s] = "received" /\ (cmds[s] = "run" => s = j.processed + 1)
      BY <2>1
    <2>4. /\ JournalInv(r, cmds, k)
          /\ \A n : IdOf(r, n) = IdOf(j, n)
          /\ SameEvents(r, j) /\ r.tracked = j.tracked
          /\ r.tombstones = j.tombstones /\ r.processed = j.processed
          /\ DOMAIN r.commands = DOMAIN j.commands
          /\ r.commands[s] = "dispatch_started"
          /\ \A q \in DOMAIN j.commands \ {s} : r.commands[q] = j.commands[q]
      BY <2>2, <2>3, StartStep
    <2>5. Begun(r) = Begun(j) \cup {s}
      BY <2>4 DEF Begun
    <2>6. \A q : Done(r, q) <=> Done(j, q)
      BY <2>3, <2>4 DEF Done
    <2>7. \A q \in DOMAIN j.commands : r.commands[q] = "received" =>
             j.commands[q] = "received" /\ q # s
      BY <2>4
    <2>8. \A up : Ackable(j, up) \subseteq Ackable(r, up)
      BY <2>4, <2>7 DEF Ackable, Expected
    <2> QED
      BY <2>1, <2>4, <2>5, <2>6, <2>7, <2>8 DEF Started
  <1> QED
    BY <1>1, <1>2

\* What a step of the daemon does to the two stores: events and identities stay,
\* and what the daemon may have told it may still tell.
Grows(k) ==
    /\ UNCHANGED <<issued, server>>
    /\ JournalInv(journal', issued, k)
    /\ LastEvent(journal) <= k
    /\ \A n \in 1..LastEvent(journal) : IdOf(journal', n) = IdOf(journal, n)
    /\ Ackable(journal, daemon = "up") \subseteq Ackable(journal', daemon' = "up")
    /\ HandledInv(journal', server.eventAck)

LEMMA GrowsInv ==
    ASSUME IInv, NEW k \in Nat, Grows(k)
    PROVE  /\ StoreInv' /\ LastEvent(journal') = k
           /\ Up' = UpFrames(journal', daemon' = "up", k)
           /\ \A q \in Seq(Up) : q \in Seq(Up')
           /\ \A q \in Seq(Down) : q \in Seq(Down')
  <1> DEFINE n == LastEvent(journal)
             ack == server.eventAck
  <1>1. n \in Nat /\ ack \in 0..n /\ ack \in Nat /\ Len(issued) \in Nat
    BY Numbers
  <1>2. /\ issued' = issued /\ server' = server /\ JournalInv(journal', issued, k)
        /\ n <= k /\ \A m \in 1..n : IdOf(journal', m) = IdOf(journal, m)
        /\ Ackable(journal, daemon = "up") \subseteq Ackable(journal', daemon' = "up")
        /\ HandledInv(journal', server.eventAck)
    BY DEF Grows
  <1>3. LastEvent(journal') = k
    BY <1>2, NextEventIs DEF JournalInv
  <1>4. ReceiptsInv(server, journal', k)
    <2>1. ReceiptsInv(server, journal, n)
      BY DEF IInv, StoreInv
    <2> QED
      BY <1>1, <1>2, <2>1 DEF ReceiptsInv
  <1>5. StoreInv'
    <2>1. server.acknowledged \cup server.tombstones \subseteq Ackable(journal', daemon' = "up")
      BY <1>2 DEF IInv, StoreInv
    <2> QED
      BY <1>2, <1>3, <1>4, <2>1 DEF IInv, StoreInv
  <1>6. Up' = UpFrames(journal', daemon' = "up", k)
    BY <1>3 DEF Up
  <1>7. Up \subseteq UpFrames(journal', daemon' = "up", k)
    <2>1. UpFrames(journal, daemon = "up", n) \subseteq UpFrames(journal', daemon' = "up", k)
      BY <1>1, <1>2, FramesGrow
    <2> QED
      BY <2>1 DEF Up
  <1>8. Down \subseteq Down'
    <2>1. \A m \in 1..ack : IdOf(journal', m) = IdOf(journal, m)
      BY <1>1, <1>2
    <2>2. DownFrames(journal, Len(issued), ack) \subseteq DownFrames(journal', Len(issued), ack)
      BY <1>1, <2>1, DownFramesGrow
    <2> QED
      BY <1>2, <2>2 DEF Down
  <1> QED
    BY <1>3, <1>5, <1>6, <1>7, <1>8, SeqMonotonic

\* A hand-over the session log allows.
MayStart(s) ==
    /\ s \in DOMAIN issued
    /\ \A i \in DOMAIN invoked :
          /\ invoked[i] # s
          /\ issued[s] = "run" /\ issued[invoked[i]] = "run" => invoked[i] < s
Works ==
    /\ \E k \in Nat : Grows(k)
    /\ \/ invoked' = invoked
       \/ \E s : MayStart(s) /\ invoked' = Append(invoked, s)

LEMMA DaemonSide ==
    ASSUME IInv, NEW k \in Nat, Grows(k), dispatching' = dispatching,
           late' \in Seq(Up), toServer' \in Seq(Up'), recovered'.frames \in Seq(Up'),
           toDaemon' \in Seq(Down),
           link' \in {"down", "snapshot", "pending", "ready"}, active' \in BOOLEAN,
           daemon' \in {"down", "recovering", "up"},
           recovered' = [frames |-> recovered'.frames, commands |-> recovered'.commands],
           scheduled' \in Seq(1..Len(issued)), recovered'.commands \in Seq(1..Len(issued)),
           invoked' \in Seq(1..Len(issued)), HandOverInv'
    PROVE  IInv'
  <1>1. StoreInv' /\ late' \in Seq(Up') /\ toDaemon' \in Seq(Down') /\ issued' = issued
    BY GrowsInv DEF Grows
  <1>2. QueueInv'
    BY <1>1 DEF QueueInv
  <1>3. ShapeInv'
    BY <1>1 DEF ShapeInv, IInv
  <1> QED
    BY <1>1, <1>2, <1>3 DEF IInv

\* The process dies: what it had committed is on disk, the rest is gone.
LEMMA DieInv ==
    ASSUME IInv, NEW j, NEW k \in Nat, DieWith(j), JournalInv(j, issued, k),
           LastEvent(journal) <= k,
           \A n \in 1..LastEvent(journal) : IdOf(j, n) = IdOf(journal, n),
           Ackable(journal, daemon = "up") \subseteq Ackable(j, FALSE),
           HandledInv(j, server.eventAck),
           \A s : s \in Begun(journal) \/ Done(journal, s) => s \in Begun(j) \/ Done(j, s)
    PROVE  IInv' /\ Works
  <1>1. /\ daemon' = "down" /\ journal' = j /\ scheduled' = << >>
        /\ recovered' = NothingRecovered /\ link' = "down" /\ active' = FALSE
        /\ toServer' = << >> /\ toDaemon' = << >>
        /\ UNCHANGED <<issued, server, dispatching, invoked>>
    BY DEF DieWith
  <1>2. (daemon' = "up") = FALSE
    BY <1>1
  <1>3. Grows(k)
    BY <1>1, <1>2 DEF Grows
  <1>4. /\ recovered'.frames = << >> /\ recovered'.commands = << >>
        /\ recovered' = [frames |-> recovered'.frames, commands |-> recovered'.commands]
    BY <1>1 DEF NothingRecovered
  <1>5. late' \in Seq(Up)
    <2>1. late \in Seq(Up) /\ toServer \in Seq(Up)
      BY DEF IInv, QueueInv
    <2>2. CASE late' = late
      BY <2>1, <2>2
    <2>3. CASE toServer # << >> /\ late' = <<toServer[1]>>
      <3>1. toServer[1] \in Up
        BY <2>1, <2>3, QueueParts
      <3> QED
        BY <2>3, <3>1
    <2> QED
      BY <2>2, <2>3 DEF DieWith
  <1>6. /\ toServer' \in Seq(Up') /\ recovered'.frames \in Seq(Up') /\ toDaemon' \in Seq(Down)
        /\ scheduled' \in Seq(1..Len(issued)) /\ recovered'.commands \in Seq(1..Len(issued))
    BY <1>1, <1>4, EmptySeq
  <1>7. HandOverInv'
    <2>1. /\ \A i, m \in DOMAIN scheduled' : scheduled'[i] = scheduled'[m] => i = m
          /\ Len(recovered'.commands) <= 1 /\ ToSet(recovered'.commands) = {}
      BY <1>1, <1>4 DEF ToSet
    <2>2. \A s \in ToSet(invoked') : s \in Begun(journal') \/ Done(journal', s)
      BY <1>1 DEF IInv, HandOverInv
    <2> QED
      BY <1>1, <1>4, <2>1, <2>2 DEF HandOverInv
  <1>8. IInv'
    BY <1>1, <1>3, <1>4, <1>5, <1>6, <1>7, DaemonSide DEF IInv, ShapeInv
  <1> QED
    BY <1>1, <1>3, <1>8 DEF Works

LEMMA CrashInv ==
    ASSUME IInv, Crash
    PROVE  IInv' /\ Works
  <1>1. /\ JournalInv(journal, issued, LastEvent(journal)) /\ LastEvent(journal) \in Nat
        /\ HandledInv(journal, server.eventAck)
    BY Numbers DEF IInv, StoreInv
  <1>2. Ackable(journal, daemon = "up") \subseteq Ackable(journal, FALSE)
    BY DEF Ackable
  <1>3. PICK k \in Nat : k = LastEvent(journal)
    BY <1>1
  <1>4. LastEvent(journal) <= k
    BY <1>3
  <1>5. PICK j : j = journal
    OBVIOUS
  <1>6. /\ \A n \in 1..LastEvent(journal) : IdOf(j, n) = IdOf(journal, n)
        /\ \A s : s \in Begun(journal) \/ Done(journal, s) => s \in Begun(j) \/ Done(j, s)
    BY <1>5
  <1> QED
    BY <1>1, <1>2, <1>3, <1>4, <1>5, <1>6, DieInv DEF Crash

\* Restart: the journal is read, and recovery begins.
LEMMA RestartInv ==
    ASSUME IInv, Restart
    PROVE  IInv' /\ Works
  <1>1. /\ daemon = "down" /\ daemon' = "recovering"
        /\ UNCHANGED <<issued, server, dispatching, late, linkVars, journal, scheduled,
                       recovered, invoked>>
    BY DEF Restart, serverVars
  <1>2. (daemon = "up") = FALSE /\ (daemon' = "up") = FALSE
    BY <1>1
  <1>3. /\ JournalInv(journal, issued, LastEvent(journal)) /\ LastEvent(journal) \in Nat
        /\ HandledInv(journal, server.eventAck)
    BY Numbers DEF IInv, StoreInv
  <1>4. Grows(LastEvent(journal))
    BY <1>1, <1>2, <1>3 DEF Grows
  <1>5. /\ late' \in Seq(Up) /\ toDaemon' \in Seq(Down)
        /\ toServer' \in Seq(Up') /\ recovered'.frames \in Seq(Up')
    <2>1. /\ late \in Seq(Up) /\ toDaemon \in Seq(Down) /\ toServer \in Seq(Up)
          /\ recovered.frames \in Seq(Up)
      BY DEF IInv, QueueInv
    <2>2. toServer \in Seq(Up') /\ recovered.frames \in Seq(Up')
      BY <1>3, <1>4, <2>1, GrowsInv
    <2> QED
      BY <1>1, <2>1, <2>2 DEF linkVars
  <1>6. HandOverInv'
    BY <1>1 DEF IInv, HandOverInv
  <1>7. IInv'
    BY <1>1, <1>3, <1>4, <1>5, <1>6, DaemonSide DEF IInv, ShapeInv, linkVars
  <1> QED
    BY <1>1, <1>3, <1>4, <1>7 DEF Works

\* An update of the journal that starts and commits nothing.
LEMMA QuietGrows ==
    ASSUME IInv, UNCHANGED <<issued, server, daemon>>,
           Quiet(journal', journal, issued, LastEvent(journal)),
           HandledInv(journal', server.eventAck)
    PROVE  Grows(LastEvent(journal))
  <1>1. LastEvent(journal) \in Nat /\ LastEvent(journal) <= LastEvent(journal)
    BY Numbers
  <1>2. JournalInv(journal', issued, LastEvent(journal))
        /\ \A n \in 1..LastEvent(journal) : IdOf(journal', n) = IdOf(journal, n)
    BY DEF Quiet
  <1>3. Ackable(journal, daemon = "up") \subseteq Ackable(journal', daemon = "up")
    BY QuietAckable
  <1> QED
    BY <1>1, <1>2, <1>3 DEF Grows

\* accept_server_frame, EventAck
LEMMA ReceiveEventAckInv ==
    ASSUME IInv, ReceiveEventAck
    PROVE  IInv' /\ Works
  <1> DEFINE k == LastEvent(journal)
             ack == server.eventAck
  <1>1. PICK f : f = toDaemon[1]
    OBVIOUS
  <1>2. PICK a : a = AcknowledgeEvent(journal, f.seq)
    OBVIOUS
  <1>3. /\ toDaemon # << >> /\ f.type = "event_ack" /\ daemon = "up"
        /\ journal' = CompactSession(a) /\ toDaemon' = Tail(toDaemon)
        /\ UNCHANGED <<issued, server, dispatching, late, link, active, toServer, daemon,
                       scheduled, recovered, invoked>>
    BY <1>1, <1>2 DEF ReceiveEventAck, Handles, Head1, serverVars
  <1>4. f \in Down /\ toDaemon' \in Seq(Down)
    BY <1>1, <1>3, QueueParts DEF IInv, QueueInv
  <1>5. f.seq \in 1..ack
    BY <1>3, <1>4, DownFrameIs DEF Down
  <1>6. /\ issued \in Seq({"run", "cancel"}) /\ JournalInv(journal, issued, k)
        /\ HandledInv(journal, ack) /\ k \in Nat /\ ack \in 0..k /\ ack \in Nat
    BY Numbers DEF IInv, StoreInv
  <1>7. Quiet(a, journal, issued, k) /\ HandledInv(a, ack)
    BY <1>2, <1>5, <1>6, AcknowledgeStep
  <1>8. JournalInv(a, issued, k)
    BY <1>7 DEF Quiet
  <1>9. Quiet(journal', a, issued, k) /\ HandledInv(journal', ack)
    BY <1>3, <1>6, <1>7, <1>8, CompactStep
  <1>10. Quiet(journal', journal, issued, k)
    BY <1>7, <1>9, QuietTwice
  <1>11. Grows(k)
    BY <1>3, <1>9, <1>10, QuietGrows
  <1>12. toServer' \in Seq(Up') /\ recovered'.frames \in Seq(Up')
    <2>1. toServer \in Seq(Up') /\ recovered.frames \in Seq(Up')
      BY <1>6, <1>11, GrowsInv DEF IInv, QueueInv
    <2> QED
      BY <1>3, <2>1
  <1>13. HandOverInv'
    <2>1. Begun(journal') = Begun(journal) /\ \A q : Done(journal', q) <=> Done(journal, q)
      BY <1>10 DEF Quiet
    <2> QED
      BY <1>3, <2>1 DEF IInv, HandOverInv
  <1>14. IInv'
    BY <1>3, <1>4, <1>6, <1>11, <1>12, <1>13, DaemonSide DEF IInv, ShapeInv, QueueInv
  <1> QED
    BY <1>3, <1>6, <1>11, <1>14 DEF Works

\* prepare_command, and the state it leaves on disk.
LEMMA Prepared ==
    ASSUME IInv, NEW s \in 1..Len(issued), NEW j, j = Prepare(journal, s)
    PROVE  /\ JournalInv(j, issued, LastEvent(journal))
           /\ \A n : IdOf(j, n) = IdOf(journal, n)
           /\ HandledInv(j, server.eventAck)
           /\ \A up : Ackable(journal, up) \subseteq Ackable(j, up)
           /\ Begun(j) = Begun(journal)
           /\ \A q : Done(j, q) <=> Done(journal, q)
           /\ s \in DOMAIN j.commands \cup j.tombstones
  <1>1. issued \in Seq({"run", "cancel"}) /\ JournalInv(journal, issued, LastEvent(journal))
    BY DEF IInv, StoreInv
  <1>2. /\ JournalInv(j, issued, LastEvent(journal))
        /\ \A n : IdOf(j, n) = IdOf(journal, n)
        /\ SameEvents(j, journal) /\ j.tracked = journal.tracked
        /\ j.tombstones = journal.tombstones /\ j.processed = journal.processed
        /\ DOMAIN j.commands \cup j.tombstones
             = DOMAIN journal.commands \cup journal.tombstones \cup {s}
        /\ \A q \in DOMAIN journal.commands :
              q \in DOMAIN j.commands /\ j.commands[q] = journal.commands[q]
        /\ ~Known(journal, s) => s \in DOMAIN j.commands /\ j.commands[s] = "received"
    BY <1>1, PrepareStep
  <1>3. HandledInv(j, server.eventAck)
    BY <1>2 DEF IInv, StoreInv, HandledInv, SameEvents
  <1>4. DOMAIN j.commands \subseteq DOMAIN journal.commands \cup {s}
    <2>1. DOMAIN j.commands \cap j.tombstones = {}
      BY <1>2 DEF JournalInv, CommandsInOrder
    <2> QED
      BY <1>2, <2>1
  <1>5. \A q \in DOMAIN j.commands \ DOMAIN journal.commands : j.commands[q] = "received"
    <2> SUFFICES ASSUME NEW q \in DOMAIN j.commands \ DOMAIN journal.commands
                 PROVE  j.commands[q] = "received"
      OBVIOUS
    <2>1. q = s
      BY <1>4
    <2>2. q \notin journal.tombstones
      BY <1>2 DEF JournalInv, CommandsInOrder
    <2> QED
      BY <1>2, <2>1, <2>2 DEF Known
  <1>6. Begun(j) = Begun(journal)
    <2>1. \A q \in Begun(j) : q \in Begun(journal)
      BY <1>2, <1>5 DEF Begun
    <2>2. \A q \in Begun(journal) : q \in Begun(j)
      BY <1>2 DEF Begun
    <2> QED
      BY <2>1, <2>2
  <1>7. \A q : Done(j, q) <=> Done(journal, q)
    BY <1>2, <1>5 DEF Done
  <1>8. \A up : Ackable(journal, up) \subseteq Ackable(j, up)
    <2> SUFFICES ASSUME NEW up, NEW q \in Ackable(journal, up) PROVE q \in Ackable(j, up)
      OBVIOUS
    <2>1. q \in DOMAIN journal.commands \cup journal.tombstones
      BY DEF Ackable
    <2>2. CASE q \in DOMAIN journal.commands
      BY <1>2, <2>2 DEF Ackable, Expected
    <2>3. CASE q \in journal.tombstones
      <3>1. q \in j.tombstones /\ q \notin DOMAIN j.commands
        BY <1>2, <2>3 DEF JournalInv, CommandsInOrder
      <3> QED
        BY <3>1 DEF Ackable
    <2> QED
      BY <2>1, <2>2, <2>3
  <1> QED
    BY <1>2, <1>3, <1>6, <1>7, <1>8

LEMMA CrashWithinReceiveInv ==
    ASSUME IInv, CrashWithinReceive
    PROVE  IInv' /\ Works
  <1>1. PICK s : s = toDaemon[1].seq
    OBVIOUS
  <1>2. PICK j : j = Prepare(journal, s)
    OBVIOUS
  <1>3. toDaemon # << >> /\ toDaemon[1].type = "command" /\ daemon = "up" /\ DieWith(j)
    BY <1>1, <1>2 DEF CrashWithinReceive, Handles, Head1
  <1>4. toDaemon[1] \in Down
    BY <1>3, QueueParts DEF IInv, QueueInv
  <1>5. s \in 1..Len(issued)
    BY <1>1, <1>3, <1>4, DownFrameIs DEF Down
  <1>6. /\ JournalInv(j, issued, LastEvent(journal))
        /\ \A n : IdOf(j, n) = IdOf(journal, n)
        /\ HandledInv(j, server.eventAck)
        /\ \A up : Ackable(journal, up) \subseteq Ackable(j, up)
        /\ Begun(j) = Begun(journal)
        /\ \A q : Done(j, q) <=> Done(journal, q)
    BY <1>2, <1>5, Prepared
  <1>7. Ackable(journal, daemon = "up") \subseteq Ackable(j, FALSE)
    <2>1. Ackable(journal, daemon = "up") \subseteq Ackable(journal, FALSE)
      BY DEF Ackable
    <2> QED
      BY <1>6, <2>1
  <1>8. LastEvent(journal) \in Nat /\ LastEvent(journal) <= LastEvent(journal)
    BY Numbers
  <1> QED
    BY <1>3, <1>6, <1>7, <1>8, DieInv

LEMMA SingleCommand ==
    ASSUME NEW S, NEW x \in S
    PROVE  <<x>> \in Seq(S) /\ Len(<<x>>) = 1 /\ ToSet(<<x>>) = {x}
  <1>1. <<x>> \in Seq(S) /\ Len(<<x>>) = 1 /\ <<x>>[1] = x
    OBVIOUS
  <1>2. DOMAIN <<x>> = {1}
    <2>1. DOMAIN <<x>> = 1..1
      OBVIOUS
    <2> QED
      BY <2>1
  <1> QED
    BY <1>1, <1>2 DEF ToSet

\* At most one command, received and in its turn unless it is a cancel.
InTurn(next, j, cmds) ==
    /\ next \in Seq(DOMAIN j.commands) /\ Len(next) <= 1
    /\ \A s \in ToSet(next) :
          j.commands[s] = "received" /\ (cmds[s] = "run" => s = j.processed + 1)

\* A command is started and handed over; j is the journal before it is started.
LEMMA HandOverStep ==
    ASSUME IInv, daemon' = "up", NEW j, NEW k, JournalInv(j, issued, k),
           \A s : s \in Begun(journal) \/ Done(journal, s) => s \in Begun(j) \/ Done(j, s),
           NEW q \in Seq(1..Len(issued)), Distinct(q), ToSet(q) \subseteq ToSet(scheduled),
           Begun(j) = ToSet(q) \cup ToSet(recovered.commands),
           NEW next, InTurn(next, j, issued),
           journal' = IF next = << >> THEN j ELSE MarkStarted(j, next[1]),
           scheduled' = q \o next, invoked' = invoked \o next,
           recovered'.commands = recovered.commands
    PROVE  /\ HandOverInv' /\ Started(journal', j, issued, k, ToSet(next))
           /\ scheduled' \in Seq(1..Len(issued)) /\ invoked' \in Seq(1..Len(issued))
           /\ \/ invoked' = invoked
              \/ \E s : MayStart(s) /\ invoked' = Append(invoked, s)
  <1> DEFINE T == ToSet(next)
  <1>1. issued \in Seq({"run", "cancel"}) /\ DOMAIN issued = 1..Len(issued)
    BY Numbers DEF IInv, StoreInv
  <1>2. Started(journal', j, issued, k, T)
    BY <1>1, StartNext DEF InTurn
  <1>3. \A s \in T : s \in 1..Len(issued) /\ ~Done(j, s) /\ s \notin Begun(j)
    <2> SUFFICES ASSUME NEW s \in T
                 PROVE  s \in 1..Len(issued) /\ ~Done(j, s) /\ s \notin Begun(j)
      OBVIOUS
    <2>1. s \in DOMAIN j.commands /\ j.commands[s] = "received"
      BY DEF InTurn, ToSet
    <2> QED
      BY <1>1, <2>1, ReceivedIsAhead
  <1>4. next \in Seq(1..Len(issued)) /\ Len(next) <= 1
    <2>1. DOMAIN j.commands \subseteq 1..Len(issued)
      BY DEF JournalInv, CommandsInOrder
    <2> QED
      BY <2>1, SeqMonotonic DEF InTurn
  <1>5. invoked \in Seq(1..Len(issued))
        /\ \A s \in ToSet(invoked) : s \in Begun(j) \/ Done(j, s)
    BY DEF IInv, ShapeInv, HandOverInv
  <1>6. T \cap ToSet(q) = {} /\ T \cap ToSet(recovered.commands) = {} /\ T \cap ToSet(invoked) = {}
    BY <1>3, <1>5
  <1>7. /\ scheduled' \in Seq(1..Len(issued)) /\ ToSet(scheduled') = ToSet(q) \cup T
        /\ Distinct(scheduled')
    BY <1>4, <1>6, HandedOver
  <1>8. /\ invoked' \in Seq(1..Len(issued)) /\ ToSet(invoked') = ToSet(invoked) \cup T
        /\ \/ invoked' = invoked
           \/ \E s \in 1..Len(issued) : T = {s} /\ invoked' = Append(invoked, s)
    <2>1. PICK S : S = 1..Len(issued)
      OBVIOUS
    <2>2. invoked \in Seq(S) /\ next \in Seq(S) /\ Len(next) <= 1
      BY <1>4, <1>5, <2>1
    <2>3. /\ invoked \o next \in Seq(S) /\ ToSet(invoked \o next) = ToSet(invoked) \cup ToSet(next)
          /\ \/ invoked \o next = invoked
             \/ \E x \in S : ToSet(next) = {x} /\ invoked \o next = Append(invoked, x)
      BY <2>2, HandedOver
    <2> QED
      BY <2>1, <2>3
  <1>9. HandOverInv'
    <2>1. Begun(journal') = Begun(j) \cup T /\ \A s : Done(journal', s) <=> Done(j, s)
      BY <1>2 DEF Started
    <2>2. \A i, m \in DOMAIN scheduled' : scheduled'[i] = scheduled'[m] => i = m
      BY <1>7 DEF Distinct
    <2>3. /\ Len(recovered'.commands) <= 1
          /\ \A s \in ToSet(recovered'.commands) : s \notin ToSet(scheduled') \cup ToSet(invoked')
      BY <1>6, <1>7, <1>8 DEF IInv, HandOverInv
    <2>4. Begun(journal') = ToSet(scheduled') \cup ToSet(recovered'.commands)
      BY <1>7, <2>1
    <2>5. \A s \in ToSet(invoked') : s \in Begun(journal') \/ Done(journal', s)
      BY <1>5, <1>8, <2>1
    <2> QED
      BY <2>2, <2>3, <2>4, <2>5 DEF HandOverInv
  <1>10. ASSUME NEW s \in 1..Len(issued), T = {s} PROVE MayStart(s)
    <2> SUFFICES ASSUME NEW i \in DOMAIN invoked
                 PROVE  /\ invoked[i] # s
                        /\ issued[s] = "run" /\ issued[invoked[i]] = "run" => invoked[i] < s
      BY <1>1 DEF MayStart
    <2>1. PICK p \in 1..Len(issued) : p = invoked[i] /\ p \in ToSet(invoked)
      <3>1. invoked[i] \in ToSet(invoked)
        BY DEF ToSet
      <3>2. invoked[i] \in 1..Len(issued)
        BY <1>5
      <3> QED
        BY <3>1, <3>2
    <2>2. p # s /\ (p \in Begun(j) \/ Done(j, p))
      BY <1>5, <1>6, <1>10, <2>1
    <2>3. ASSUME issued[s] = "run", issued[p] = "run" PROVE p < s
      <3>1. s = j.processed + 1
        BY <1>10, <2>3 DEF InTurn
      <3> QED
        BY <1>1, <2>2, <2>3, <3>1, RunOrder
    <2> QED
      BY <2>1, <2>2, <2>3
  <1> QED
    BY <1>2, <1>7, <1>8, <1>9, <1>10

\* accept_server_frame, Command
LEMMA ReceiveCommandInv ==
    ASSUME IInv, ReceiveCommand
    PROVE  IInv' /\ Works
  <1> DEFINE k == LastEvent(journal)
  <1>1. PICK s : s = toDaemon[1].seq
    OBVIOUS
  <1>2. PICK j : j = Prepare(journal, s)
    OBVIOUS
  <1>3. PICK next : next = IF Startable(j, s, IsCancel(s)) THEN <<s>> ELSE << >>
    OBVIOUS
  <1>4. /\ toDaemon # << >> /\ toDaemon[1].type = "command" /\ daemon = "up"
        /\ toDaemon' = Tail(toDaemon) /\ toServer' = toServer \o <<CommandAck(s)>>
        /\ scheduled' = scheduled \o next /\ invoked' = invoked \o next
        /\ UNCHANGED <<issued, server, dispatching, late, link, active, daemon, recovered>>
    BY <1>1, <1>2, <1>3 DEF ReceiveCommand, Handles, Head1, serverVars, Emit, HandOver
  <1>5. journal' = IF next = << >> THEN j ELSE MarkStarted(j, next[1])
    <2>1. journal' = IF Startable(j, s, IsCancel(s)) THEN MarkStarted(j, s) ELSE j
      BY <1>1, <1>2 DEF ReceiveCommand
    <2>2. CASE Startable(j, s, IsCancel(s))
      <3>1. next # << >> /\ next[1] = s
        BY <1>3, <2>2
      <3> QED
        BY <2>1, <2>2, <3>1
    <2>3. CASE ~Startable(j, s, IsCancel(s))
      BY <1>3, <2>1, <2>3
    <2> QED
      BY <2>2, <2>3
  <1>6. toDaemon[1] \in Down /\ toDaemon' \in Seq(Down)
    BY <1>4, QueueParts DEF IInv, QueueInv
  <1>7. s \in 1..Len(issued)
    BY <1>1, <1>4, <1>6, DownFrameIs DEF Down
  <1>8. /\ JournalInv(j, issued, k)
        /\ \A n : IdOf(j, n) = IdOf(journal, n)
        /\ HandledInv(j, server.eventAck)
        /\ \A up : Ackable(journal, up) \subseteq Ackable(j, up)
        /\ Begun(j) = Begun(journal)
        /\ \A q : Done(j, q) <=> Done(journal, q)
        /\ s \in DOMAIN j.commands \cup j.tombstones
    BY <1>2, <1>7, Prepared
  <1>9. issued \in Seq({"run", "cancel"}) /\ k \in Nat /\ j.processed \in Nat
    BY <1>8, Numbers DEF IInv, StoreInv, JournalInv, JournalFile
  <1>10. InTurn(next, j, issued)
    <2>1. CASE Startable(j, s, IsCancel(s))
      <3>1. next = <<s>> /\ s \in DOMAIN j.commands /\ j.commands[s] = "received"
        BY <1>3, <2>1 DEF Startable
      <3>2. next \in Seq(DOMAIN j.commands) /\ Len(next) <= 1 /\ ToSet(next) = {s}
        <4>1. /\ <<s>> \in Seq(DOMAIN j.commands) /\ Len(<<s>>) = 1
              /\ ToSet(<<s>>) = {s}
          BY <3>1, SingleCommand
        <4>2. Len(next) = 1
          BY <3>1, <4>1
        <4> QED
          BY <3>1, <4>1, <4>2
      <3>3. issued[s] = "run" => s = j.processed + 1
        <4>1. s > j.processed
          BY <1>8, <1>9, <3>1, ReceivedIsAhead
        <4>2. issued[s] = "run" => s <= j.processed + 1
          BY <2>1 DEF Startable, Expected, IsCancel
        <4> QED
          BY <1>7, <1>9, <4>1, <4>2
      <3> QED
        BY <3>1, <3>2, <3>3 DEF InTurn
    <2>2. CASE ~Startable(j, s, IsCancel(s))
      <3>1. next = << >>
        BY <1>3, <2>2
      <3>2. next \in Seq(DOMAIN j.commands) /\ Len(next) <= 1 /\ ToSet(next) = {}
        BY <3>1 DEF ToSet
      <3> QED
        BY <3>2 DEF InTurn
    <2> QED
      BY <2>1, <2>2
  <1>11. /\ HandOverInv' /\ Started(journal', j, issued, k, ToSet(next))
         /\ scheduled' \in Seq(1..Len(issued)) /\ invoked' \in Seq(1..Len(issued))
         /\ \/ invoked' = invoked
            \/ \E x : MayStart(x) /\ invoked' = Append(invoked, x)
    <2>1. /\ scheduled \in Seq(1..Len(issued)) /\ Distinct(scheduled)
          /\ ToSet(scheduled) \subseteq ToSet(scheduled)
          /\ Begun(journal) = ToSet(scheduled) \cup ToSet(recovered.commands)
      BY <1>4 DEF IInv, ShapeInv, HandOverInv, Distinct
    <2>2. \A x : x \in Begun(journal) \/ Done(journal, x) => x \in Begun(j) \/ Done(j, x)
      BY <1>8
    <2>3. /\ Begun(j) = ToSet(scheduled) \cup ToSet(recovered.commands)
          /\ daemon' = "up" /\ recovered'.commands = recovered.commands
      BY <1>4, <1>8, <2>1
    <2> QED
      BY <1>4, <1>5, <1>8, <1>10, <2>1, <2>2, <2>3, HandOverStep
  <1>12. HandledInv(journal', server.eventAck)
    BY <1>8, <1>11 DEF Started, SameEvents, HandledInv
  <1>13. \A up : Ackable(journal, up) \subseteq Ackable(journal', up)
    BY <1>8, <1>11 DEF Started
  <1>14. Grows(k)
    <2>1. JournalInv(journal', issued, k) /\ k <= k
          /\ \A n \in 1..k : IdOf(journal', n) = IdOf(journal, n)
      BY <1>8, <1>9, <1>11 DEF Started
    <2>2. Ackable(journal, daemon = "up") \subseteq Ackable(journal', daemon' = "up")
      BY <1>4, <1>13
    <2> QED
      BY <1>4, <1>12, <2>1, <2>2 DEF Grows
  <1>15. s \in Ackable(journal', TRUE)
    <2>1. s \in DOMAIN journal'.commands \cup journal'.tombstones
          /\ DOMAIN journal'.commands = DOMAIN j.commands /\ journal'.processed = j.processed
      BY <1>8, <1>11 DEF Started
    <2>2. ASSUME s = Expected(journal'), s \in DOMAIN journal'.commands,
                 journal'.commands[s] = "received"
          PROVE  FALSE
      <3>1. j.commands[s] = "received" /\ s \notin ToSet(next)
        BY <1>11, <2>1, <2>2 DEF Started
      <3>2. Startable(j, s, IsCancel(s))
        BY <1>7, <2>1, <2>2, <3>1 DEF Startable, Expected
      <3>3. next = <<s>>
        BY <1>3, <3>2
      <3> QED
        BY <3>1, <3>3 DEF ToSet
    <2> QED
      BY <2>1, <2>2 DEF Ackable
  <1>16. toServer' \in Seq(Up')
    <2>1. toServer \in Seq(Up') /\ Up' = UpFrames(journal', daemon' = "up", k)
      BY <1>9, <1>14, GrowsInv DEF IInv, QueueInv
    <2>2. (daemon' = "up") = TRUE
      BY <1>4
    <2>3. CommandAck(s) \in Up'
      BY <1>15, <2>1, <2>2 DEF UpFrames
    <2>4. PICK V : V = Up'
      OBVIOUS
    <2>5. toServer \o <<CommandAck(s)>> \in Seq(V)
      <3>1. <<CommandAck(s)>> \in Seq(V) /\ toServer \in Seq(V)
        BY <2>1, <2>3, <2>4
      <3> QED
        BY <3>1, ConcatProperties
    <2> QED
      BY <1>4, <2>4, <2>5
  <1>17. recovered'.frames \in Seq(Up') /\ late' \in Seq(Up)
    <2>1. recovered.frames \in Seq(Up')
      BY <1>9, <1>14, GrowsInv DEF IInv, QueueInv
    <2> QED
      BY <1>4, <2>1 DEF IInv, QueueInv
  <1>18. IInv'
    BY <1>4, <1>6, <1>9, <1>11, <1>14, <1>16, <1>17, DaemonSide DEF IInv, ShapeInv
  <1> QED
    BY <1>9, <1>11, <1>14, <1>18 DEF Works

\* Events of the journal, and receipts the daemon may tell, as frames.
LEMMA EventFramesIn ==
    ASSUME NEW j, NEW k, EventsInOrder(j, k), NEW ns \in Seq(DOMAIN j.events),
           NEW h, NEW up, \A n \in 1..k : IdOf(h, n) = IdOf(j, n)
    PROVE  EventFrames(j, ns) \in Seq(UpFrames(h, up, k))
  <1>1. Len(ns) \in Nat /\ \A i \in 1..Len(ns) : ns[i] \in DOMAIN j.events
    OBVIOUS
  <1>2. PICK S : S = UpFrames(h, up, k)
    OBVIOUS
  <1>3. ASSUME NEW i \in 1..Len(ns) PROVE Event(ns[i], j.events[ns[i]].id) \in S
    <2>1. ns[i] \in DOMAIN j.events /\ ns[i] \in 1..k
      BY <1>1 DEF EventsInOrder
    <2>2. j.events[ns[i]].id = IdOf(h, ns[i])
      BY <2>1 DEF IdOf
    <2> QED
      BY <1>2, <2>1, <2>2 DEF UpFrames
  <1>4. [i \in 1..Len(ns) |-> Event(ns[i], j.events[ns[i]].id)] \in Seq(S)
    BY <1>1, <1>3
  <1> QED
    BY <1>2, <1>4 DEF EventFrames

AckFrames(cs) == [x \in 1..Len(cs) |-> CommandAck(cs[x])]

LEMMA AckFramesIn ==
    ASSUME NEW S, NEW cs \in Seq(S), NEW h, NEW up, ToSet(cs) \subseteq Ackable(h, up), NEW k
    PROVE  AckFrames(cs) \in Seq(UpFrames(h, up, k))
  <1>1. Len(cs) \in Nat /\ \A i \in 1..Len(cs) : cs[i] \in Ackable(h, up)
    BY DEF ToSet
  <1>2. PICK F : F = UpFrames(h, up, k)
    OBVIOUS
  <1>3. \A i \in 1..Len(cs) : CommandAck(cs[i]) \in F
    BY <1>1, <1>2 DEF UpFrames
  <1>4. AckFrames(cs) \in Seq(F)
    BY <1>1, <1>3 DEF AckFrames
  <1> QED
    BY <1>2, <1>4

\* HandshakeComplete
LEMMA ReceiveReconcileInv ==
    ASSUME IInv, ReceiveReconcile
    PROVE  IInv' /\ Works
  <1> DEFINE k == LastEvent(journal)
             ack == server.eventAck
             rc == recovered.commands
  <1>1. PICK through : through = toDaemon[1].seq
    OBVIOUS
  <1>2. PICK R : R = IF toDaemon[1].listed THEN ReplayEvents(journal', through) ELSE {}
    OBVIOUS
  <1>ns. PICK ns : ns = Ascending(R)
    OBVIOUS
  <1>3. /\ toDaemon # << >> /\ toDaemon[1].type = "reconcile" /\ daemon = "up"
        /\ journal' = IF toDaemon[1].listed THEN ApplyReconciliation(journal, through)
                      ELSE journal
        /\ active' = TRUE
        /\ toDaemon' = Tail(toDaemon)
        /\ scheduled' = scheduled \o rc /\ invoked' = invoked \o rc
        /\ recovered' = NothingRecovered
        /\ UNCHANGED <<issued, server, dispatching, late, link, daemon>>
    BY <1>1 DEF ReceiveReconcile, Handles, Head1, serverVars, HandOver
  <1>4. toServer' = toServer \o EventFrames(journal', ns) \o recovered.frames
    BY <1>1, <1>2, <1>ns DEF ReceiveReconcile
  <1>5. toDaemon[1] \in Down /\ toDaemon' \in Seq(Down)
    BY <1>3, QueueParts DEF IInv, QueueInv
  <1>6. through \in 0..ack
    BY <1>1, <1>3, <1>5, DownFrameIs DEF Down
  <1>7. /\ issued \in Seq({"run", "cancel"}) /\ JournalInv(journal, issued, k)
        /\ HandledInv(journal, ack) /\ k \in Nat /\ ack \in 0..k
    BY Numbers DEF IInv, StoreInv
  <1>8. Quiet(journal', journal, issued, k) /\ HandledInv(journal', ack)
    <2>1. CASE toDaemon[1].listed
      BY <1>3, <1>6, <1>7, <2>1, ReconcileStep
    <2>2. CASE ~toDaemon[1].listed
      BY <1>3, <1>7, <2>2, QuietStutter
    <2> QED
      BY <2>1, <2>2
  <1>9. Grows(k)
    BY <1>3, <1>8, QuietGrows
  <1>10. /\ Begun(journal') = Begun(journal) /\ \A q : Done(journal', q) <=> Done(journal, q)
         /\ JournalInv(journal', issued, k)
    BY <1>8 DEF Quiet
  <1>11. toServer' \in Seq(Up')
    <2>1. PICK F : F = UpFrames(journal', daemon' = "up", k)
      OBVIOUS
    <2>2. Up' = F /\ toServer \in Seq(F) /\ recovered.frames \in Seq(F)
      BY <1>7, <1>9, <2>1, GrowsInv DEF IInv, QueueInv
    <2>3. R \in SUBSET (1..k)
      BY <1>2, <1>10 DEF ReplayEvents, JournalInv, EventsInOrder
    <2>4. ns \in Seq(R)
      BY <1>ns, <1>7, <2>3, AscendingSeq
    <2>5. ns \in Seq(DOMAIN journal'.events)
      <3>1. R \subseteq DOMAIN journal'.events
        BY <1>2 DEF ReplayEvents
      <3> QED
        BY <2>4, <3>1, SeqMonotonic
    <2>6. EventFrames(journal', ns) \in Seq(F)
      <3>1. EventsInOrder(journal', k)
        BY <1>10 DEF JournalInv
      <3> QED
        BY <2>1, <2>5, <3>1, EventFramesIn
    <2>7. PICK e : e = EventFrames(journal', ns)
      OBVIOUS
    <2>8. toServer \o e \in Seq(F)
      BY <2>2, <2>6, <2>7, ConcatProperties
    <2>9. (toServer \o e) \o recovered.frames \in Seq(F)
      BY <2>2, <2>8, ConcatProperties
    <2> QED
      BY <1>4, <2>2, <2>7, <2>9
  <1>12. /\ recovered'.frames = << >> /\ recovered'.commands = << >>
         /\ recovered' = [frames |-> recovered'.frames, commands |-> recovered'.commands]
         /\ ToSet(recovered'.commands) = {}
    BY <1>3 DEF NothingRecovered, ToSet
  <1>13. PICK S : S = 1..Len(issued)
    OBVIOUS
  <1>14. /\ rc \in Seq(S) /\ Len(rc) <= 1 /\ scheduled \in Seq(S) /\ invoked \in Seq(S)
         /\ Distinct(scheduled) /\ ToSet(rc) \cap ToSet(scheduled) = {}
         /\ ToSet(rc) \cap ToSet(invoked) = {}
         /\ Begun(journal) = ToSet(scheduled) \cup ToSet(rc)
         /\ \A s \in ToSet(invoked) : s \in Begun(journal) \/ Done(journal, s)
    BY <1>3, <1>13 DEF IInv, ShapeInv, HandOverInv, Distinct
  <1>15. /\ scheduled' \in Seq(S) /\ Distinct(scheduled')
         /\ ToSet(scheduled') = ToSet(scheduled) \cup ToSet(rc)
    BY <1>3, <1>14, HandedOver
  <1>16. /\ invoked' \in Seq(S) /\ ToSet(invoked') = ToSet(invoked) \cup ToSet(rc)
         /\ \/ invoked' = invoked
            \/ \E s \in S : ToSet(rc) = {s} /\ invoked' = Append(invoked, s)
    BY <1>3, <1>14, HandedOver
  <1>17. HandOverInv'
    <2>1. /\ \A i, m \in DOMAIN scheduled' : scheduled'[i] = scheduled'[m] => i = m
          /\ Len(recovered'.commands) <= 1
          /\ Begun(journal') = ToSet(scheduled') \cup ToSet(recovered'.commands)
          /\ daemon' = "up"
      BY <1>3, <1>10, <1>12, <1>14, <1>15 DEF Distinct
    <2>2. \A s \in ToSet(invoked') : s \in Begun(journal') \/ Done(journal', s)
      BY <1>10, <1>14, <1>16
    <2> QED
      BY <1>12, <2>1, <2>2 DEF HandOverInv
  <1>18. ASSUME NEW s \in S, ToSet(rc) = {s} PROVE MayStart(s)
    <2> SUFFICES ASSUME NEW i \in DOMAIN invoked
                 PROVE  /\ invoked[i] # s
                        /\ issued[s] = "run" /\ issued[invoked[i]] = "run" => invoked[i] < s
      BY <1>13, Numbers DEF MayStart
    <2>1. PICK p : p = invoked[i]
      OBVIOUS
    <2>2. p \in ToSet(invoked)
      BY <2>1 DEF ToSet
    <2>3. p \in 1..Len(issued)
      BY <1>13, <1>14, <2>1
    <2>4. p # s /\ (p \in Begun(journal) \/ Done(journal, p)) /\ s \in Begun(journal)
      BY <1>14, <1>18, <2>2
    <2>5. ASSUME issued[s] = "run", issued[p] = "run" PROVE p < s
      <3>1. s = journal.processed + 1
        BY <1>7, <2>4, <2>5 DEF Begun, JournalInv, CommandsInOrder
      <3> QED
        BY <1>7, <2>3, <2>4, <2>5, <3>1, RunOrder
    <2> QED
      BY <2>1, <2>4, <2>5
  <1>19. IInv'
    <2>1. recovered'.frames \in Seq(Up') /\ recovered'.commands \in Seq(1..Len(issued))
      BY <1>12, EmptySeq
    <2>2. scheduled' \in Seq(1..Len(issued)) /\ invoked' \in Seq(1..Len(issued))
      BY <1>13, <1>15, <1>16
    <2>3. late' \in Seq(Up)
      BY <1>3 DEF IInv, QueueInv
    <2> QED
      BY <1>3, <1>5, <1>7, <1>9, <1>11, <1>12, <1>17, <2>1, <2>2, <2>3, DaemonSide
         DEF IInv, ShapeInv
  <1> QED
    BY <1>7, <1>9, <1>16, <1>18, <1>19 DEF Works

\* finish_command, and compact_session after it: the journal j that follows.
AfterFinish(j, s, ids, k) ==
    /\ JournalInv(j, issued, k + Len(ids))
    /\ \A n \in 1..k : IdOf(j, n) = IdOf(journal, n)
    /\ \A i \in 1..Len(ids) : IdOf(j, k + i) = ids[i]
    /\ HandledInv(j, server.eventAck)
    /\ Begun(j) = Begun(journal) \ {s}
    /\ \A q : Done(journal, q) => Done(j, q)
    /\ Done(j, s)
    /\ DOMAIN j.commands \cup j.tombstones = DOMAIN journal.commands \cup journal.tombstones
    /\ j.tracked

\* The events of one command.
EventsOf(ids, s) ==
    /\ ids \in Seq(EventIds)
    /\ \A i \in 1..Len(ids) : ids[i][1] = s
    /\ \A i, m \in 1..Len(ids) : ids[i] = ids[m] => i = m

LEMMA FinishEffect ==
    ASSUME IInv, NEW s \in Begun(journal), NEW ids, EventsOf(ids, s),
           NEW f, f = FinishCommand(journal, s, ids), NEW c, c = CompactSession(f)
    PROVE  /\ AfterFinish(f, s, ids, LastEvent(journal))
           /\ AfterFinish(c, s, ids, LastEvent(journal))
           /\ \A n \in 1..LastEvent(journal) + Len(ids) : IdOf(c, n) = IdOf(f, n)
  <1> DEFINE k == LastEvent(journal)
             ack == server.eventAck
  <1>1. /\ issued \in Seq({"run", "cancel"}) /\ JournalInv(journal, issued, k)
        /\ HandledInv(journal, ack) /\ k \in Nat /\ ack \in 0..k /\ ack \in Nat
    BY Numbers DEF IInv, StoreInv
  <1>2. Len(ids) \in Nat
    BY DEF EventsOf
  <1>3. /\ JournalInv(f, issued, k + Len(ids))
        /\ f.tracked /\ f.tombstones = journal.tombstones
        /\ DOMAIN f.commands = DOMAIN journal.commands
        /\ f.commands[s] = "terminal"
        /\ \A q \in DOMAIN journal.commands \ {s} : f.commands[q] = journal.commands[q]
        /\ \A n \in 1..k : IdOf(f, n) = IdOf(journal, n)
        /\ \A i \in 1..Len(ids) : IdOf(f, k + i) = ids[i]
        /\ DOMAIN f.events = DOMAIN journal.events \cup (k + 1..k + Len(ids))
        /\ \A n \in DOMAIN journal.events : f.events[n] = journal.events[n]
        /\ \A n \in k + 1..k + Len(ids) : ~f.events[n].acknowledged
        /\ f.eventTombstones = journal.eventTombstones
        /\ f.eventAck = journal.eventAck /\ f.sparse = journal.sparse
    BY <1>1, FinishStep DEF EventsOf
  <1>4. HandledInv(f, ack)
    <2>1. \A n \in DOMAIN f.events : f.events[n].acknowledged => n <= ack
      BY <1>1, <1>3 DEF HandledInv
    <2> QED
      BY <1>1, <1>3, <2>1 DEF HandledInv
  <1>5. Begun(f) = Begun(journal) \ {s}
    BY <1>3 DEF Begun
  <1>6. Done(f, s) /\ \A q : Done(journal, q) => Done(f, q)
    BY <1>3 DEF Done, Begun
  <1>7. AfterFinish(f, s, ids, k)
    BY <1>3, <1>4, <1>5, <1>6 DEF AfterFinish
  <1>8. Quiet(c, f, issued, k + Len(ids)) /\ HandledInv(c, ack) /\ c.tracked = f.tracked
    BY <1>1, <1>3, <1>4, CompactStep
  <1>9. /\ JournalInv(c, issued, k + Len(ids))
        /\ \A n \in 1..k + Len(ids) : IdOf(c, n) = IdOf(f, n)
        /\ \A q : Done(c, q) <=> Done(f, q)
        /\ Begun(c) = Begun(f)
        /\ DOMAIN c.commands \cup c.tombstones = DOMAIN f.commands \cup f.tombstones
    BY <1>8 DEF Quiet
  <1>10. /\ \A n \in 1..k : IdOf(c, n) = IdOf(journal, n)
         /\ \A i \in 1..Len(ids) : IdOf(c, k + i) = ids[i]
    <2>1. ASSUME NEW n \in 1..k PROVE n \in 1..k + Len(ids)
      BY <1>1, <1>2
    <2>2. ASSUME NEW i \in 1..Len(ids) PROVE k + i \in 1..k + Len(ids)
      BY <1>1, <1>2
    <2> QED
      BY <1>3, <1>9, <2>1, <2>2
  <1>11. c.tracked
    BY <1>3, <1>8
  <1>12. AfterFinish(c, s, ids, k)
    BY <1>3, <1>5, <1>6, <1>8, <1>9, <1>10, <1>11 DEF AfterFinish
  <1> QED
    BY <1>7, <1>9, <1>12

\* The command whose turn it is, in the list recover_for_scheduler and
\* accept_next_ready_command return.
LEMMA NextInTurn ==
    ASSUME NEW cmds \in Seq({"run", "cancel"}), NEW j, NEW k, JournalInv(j, cmds, k),
           NEW next, next = Ascending(NextReady(j))
    PROVE  InTurn(next, j, cmds) /\ ToSet(next) = NextReady(j)
  <1>1. NextReady(j) \in SUBSET (1..Len(cmds)) /\ Len(cmds) \in Nat
    BY DEF NextReady, JournalInv, CommandsInOrder
  <1>2. \A s \in NextReady(j) : /\ s \in DOMAIN j.commands /\ s = j.processed + 1
                               /\ j.commands[s] = "received"
    BY DEF NextReady, Expected
  <1>3. CASE NextReady(j) = {}
    <2>1. next = << >>
      BY <1>1, <1>3, AscendingSeq
    <2>2. next \in Seq(DOMAIN j.commands) /\ Len(next) <= 1 /\ ToSet(next) = {}
      BY <2>1 DEF ToSet
    <2> QED
      BY <1>3, <2>2 DEF InTurn
  <1>4. CASE NextReady(j) # {}
    <2>1. PICK s : NextReady(j) = {s}
      BY <1>2, <1>4
    <2>2. next = <<s>>
      BY <1>1, <2>1, AscendingSeq
    <2>3. /\ <<s>> \in Seq(DOMAIN j.commands) /\ Len(<<s>>) = 1 /\ ToSet(<<s>>) = {s}
      BY <1>2, <2>1, SingleCommand
    <2>4. Len(next) = 1 /\ next \in Seq(DOMAIN j.commands) /\ ToSet(next) = {s}
      BY <2>2, <2>3
    <2>5. Len(next) <= 1
      BY <2>4
    <2> QED
      BY <1>2, <2>1, <2>4, <2>5 DEF InTurn
  <1> QED
    BY <1>3, <1>4

\* The events of a command that ends by itself.
LEMMA RuntimeEventsOf ==
    ASSUME NEW s \in Nat \ {0}, NEW n \in Nat, NEW ids, ids = [x \in 1..n |-> <<s, x>>]
    PROVE  EventsOf(ids, s) /\ Len(ids) = n
  <1>1. \A x \in 1..n : <<s, x>> \in EventIds /\ <<s, x>>[1] = s /\ <<s, x>>[2] = x
    BY DEF EventIds
  <1>2. ids \in Seq(EventIds) /\ Len(ids) = n
    BY <1>1
  <1>3. \A x \in 1..n : ids[x] = <<s, x>>
    OBVIOUS
  <1>4. \A x \in 1..n : ids[x][1] = s /\ ids[x][2] = x
    BY <1>1, <1>3
  <1> QED
    BY <1>2, <1>4 DEF EventsOf

LEMMA ScheduledBegun ==
    ASSUME IInv, daemon = "up", NEW i \in DOMAIN scheduled
    PROVE  /\ scheduled[i] \in Begun(journal) /\ scheduled[i] \in Nat \ {0}
           /\ scheduled[i] \in ToSet(scheduled)
           /\ scheduled[i] \notin ToSet(recovered.commands)
  <1>1. scheduled[i] \in ToSet(scheduled)
    BY DEF ToSet
  <1>2. scheduled[i] \in 1..Len(issued)
    BY DEF IInv, ShapeInv
  <1> QED
    BY <1>1, <1>2 DEF IInv, HandOverInv

LEMMA CrashWithinFinishInv ==
    ASSUME IInv, NEW i, NEW n, CrashWithinFinish(i, n)
    PROVE  IInv' /\ Works
  <1> DEFINE k == LastEvent(journal)
  <1>1. daemon = "up" /\ i \in DOMAIN scheduled /\ n \in Nat
    BY DEF CrashWithinFinish, Finishes
  <1>2. PICK s : s = scheduled[i]
    OBVIOUS
  <1>3. s \in Begun(journal) /\ s \in Nat \ {0}
    BY <1>1, <1>2, ScheduledBegun
  <1>4. PICK ids : ids = [x \in 1..n |-> <<s, x>>]
    OBVIOUS
  <1>5. EventsOf(ids, s) /\ Len(ids) = n
    BY <1>1, <1>3, <1>4, RuntimeEventsOf
  <1>6. PICK f : f = FinishCommand(journal, s, ids)
    OBVIOUS
  <1>7. PICK c : c = CompactSession(f)
    OBVIOUS
  <1>8. PICK j \in {f, c} : DieWith(j)
    BY <1>2, <1>4, <1>6, <1>7 DEF CrashWithinFinish, Finished
  <1>9. AfterFinish(j, s, ids, k)
    BY <1>3, <1>5, <1>6, <1>7, <1>8, FinishEffect
  <1>10. k \in Nat /\ k + Len(ids) \in Nat /\ k <= k + Len(ids)
    BY <1>1, <1>5, Numbers
  <1>11. Ackable(journal, daemon = "up") \subseteq Ackable(j, FALSE)
    <2>1. ~(FALSE \/ ~j.tracked)
      BY <1>9 DEF AfterFinish
    <2>2. Ackable(j, FALSE) = DOMAIN j.commands \cup j.tombstones
      BY <2>1, AckableAll
    <2>3. Ackable(journal, daemon = "up") \subseteq DOMAIN journal.commands \cup journal.tombstones
      BY DEF Ackable
    <2> QED
      BY <1>9, <2>2, <2>3 DEF AfterFinish
  <1>12. \A q : q \in Begun(journal) \/ Done(journal, q) => q \in Begun(j) \/ Done(j, q)
    BY <1>9 DEF AfterFinish
  <1> QED
    BY <1>8, <1>9, <1>10, <1>11, <1>12, DieInv DEF AfterFinish

\* finish_runtime
LEMMA FinishRuntimeInv ==
    ASSUME IInv, NEW i, NEW n, FinishRuntime(i, n)
    PROVE  IInv' /\ Works
  <1> DEFINE k == LastEvent(journal)
  <1>1. daemon = "up" /\ i \in DOMAIN scheduled /\ n \in Nat
    BY DEF FinishRuntime, Finishes
  <1>2. PICK s : s = scheduled[i]
    OBVIOUS
  <1>3. /\ s \in Begun(journal) /\ s \in Nat \ {0} /\ s \in ToSet(scheduled)
        /\ s \notin ToSet(recovered.commands)
    BY <1>1, <1>2, ScheduledBegun
  <1>4. PICK ids : ids = [x \in 1..n |-> <<s, x>>]
    OBVIOUS
  <1>5. EventsOf(ids, s) /\ Len(ids) = n
    BY <1>1, <1>3, <1>4, RuntimeEventsOf
  <1>6. PICK f : f = FinishCommand(journal, s, ids)
    OBVIOUS
  <1>7. PICK j : j = CompactSession(f)
    OBVIOUS
  <1>8. PICK next : next = Ascending(NextReady(j))
    OBVIOUS
  <1>9. PICK fresh : fresh = Ascending(DOMAIN f.events \ DOMAIN journal.events)
    OBVIOUS
  <1>10. PICK q : q = RemoveAt(scheduled, i)
    OBVIOUS
  <1>11. f = Finished(s, n)
    BY <1>4, <1>6 DEF Finished
  <1>12. /\ journal' = IF next = << >> THEN j ELSE MarkStarted(j, next[1])
         /\ toServer' = toServer \o (EventFrames(f, fresh) \o AckFrames(next))
         /\ scheduled' = q \o next /\ invoked' = invoked \o next
         /\ UNCHANGED <<issued, server, dispatching, late, link, active, toDaemon, daemon,
                        recovered>>
    BY <1>2, <1>7, <1>8, <1>9, <1>10, <1>11 DEF FinishRuntime, Emit, AckFrames, serverVars
  <1>13. /\ AfterFinish(f, s, ids, k) /\ AfterFinish(j, s, ids, k)
         /\ \A m \in 1..k + Len(ids) : IdOf(j, m) = IdOf(f, m)
    BY <1>3, <1>5, <1>6, <1>7, FinishEffect
  <1>14. PICK l \in Nat : l = k + Len(ids) /\ k <= l /\ k \in Nat
    BY <1>1, <1>5, Numbers
  <1>15. /\ JournalInv(f, issued, l) /\ JournalInv(j, issued, l)
         /\ \A m \in 1..k : IdOf(j, m) = IdOf(journal, m)
         /\ HandledInv(j, server.eventAck)
         /\ Begun(j) = Begun(journal) \ {s} /\ Done(j, s)
         /\ \A x : Done(journal, x) => Done(j, x)
         /\ DOMAIN j.commands \cup j.tombstones = DOMAIN journal.commands \cup journal.tombstones
    BY <1>13, <1>14 DEF AfterFinish
  <1>16. issued \in Seq({"run", "cancel"})
    BY DEF IInv, StoreInv
  <1>17. InTurn(next, j, issued) /\ ToSet(next) = NextReady(j)
    BY <1>8, <1>15, <1>16, NextInTurn
  <1>18. /\ scheduled \in Seq(1..Len(issued)) /\ Distinct(scheduled)
         /\ Begun(journal) = ToSet(scheduled) \cup ToSet(recovered.commands)
    BY <1>1 DEF IInv, ShapeInv, HandOverInv, Distinct
  <1>19. q \in Seq(1..Len(issued)) /\ Distinct(q) /\ ToSet(q) = ToSet(scheduled) \ {s}
    BY <1>1, <1>2, <1>10, <1>18, Removed
  <1>20. /\ HandOverInv' /\ Started(journal', j, issued, l, ToSet(next))
         /\ scheduled' \in Seq(1..Len(issued)) /\ invoked' \in Seq(1..Len(issued))
         /\ \/ invoked' = invoked
            \/ \E x : MayStart(x) /\ invoked' = Append(invoked, x)
    <2>1. \A x : x \in Begun(journal) \/ Done(journal, x) => x \in Begun(j) \/ Done(j, x)
      BY <1>15
    <2>2. /\ Begun(j) = ToSet(q) \cup ToSet(recovered.commands)
          /\ ToSet(q) \subseteq ToSet(scheduled)
      BY <1>3, <1>15, <1>18, <1>19
    <2>3. daemon' = "up" /\ recovered'.commands = recovered.commands
      BY <1>1, <1>12
    <2> QED
      BY <1>12, <1>15, <1>17, <1>19, <2>1, <2>2, <2>3, HandOverStep
  <1>21. /\ JournalInv(journal', issued, l)
         /\ \A m : IdOf(journal', m) = IdOf(j, m)
         /\ HandledInv(journal', server.eventAck)
         /\ DOMAIN journal'.commands = DOMAIN j.commands /\ journal'.tombstones = j.tombstones
    BY <1>15, <1>20 DEF Started, SameEvents, HandledInv
  <1>22. NextReady(journal') = {}
    <2> SUFFICES ASSUME NEW x \in NextReady(journal') PROVE FALSE
      OBVIOUS
    <2>1. x \in DOMAIN j.commands /\ x = Expected(journal') /\ journal'.commands[x] = "received"
      BY <1>21 DEF NextReady
    <2>2. j.commands[x] = "received" /\ x \notin NextReady(j) /\ journal'.processed = j.processed
      BY <1>17, <1>20, <2>1 DEF Started
    <2> QED
      BY <2>1, <2>2 DEF NextReady, Expected
  <1>23. Ackable(journal', daemon' = "up") = DOMAIN journal'.commands \cup journal'.tombstones
    BY <1>22, AckableAll
  <1>24. Grows(l)
    <2>1. Ackable(journal, daemon = "up") \subseteq DOMAIN journal.commands \cup journal.tombstones
      BY DEF Ackable
    <2>2. Ackable(journal, daemon = "up") \subseteq Ackable(journal', daemon' = "up")
      BY <1>15, <1>21, <1>23, <2>1
    <2> QED
      BY <1>12, <1>14, <1>15, <1>21, <2>2 DEF Grows
  <1>25. toServer' \in Seq(Up')
    <2>1. PICK F : F = UpFrames(journal', daemon' = "up", l)
      OBVIOUS
    <2>2. Up' = F /\ toServer \in Seq(F)
      BY <1>14, <1>24, <2>1, GrowsInv DEF IInv, QueueInv
    <2>3. DOMAIN f.events \ DOMAIN journal.events \in SUBSET (1..l)
      BY <1>15 DEF JournalInv, EventsInOrder
    <2>4. fresh \in Seq(DOMAIN f.events \ DOMAIN journal.events)
      BY <1>9, <1>14, <2>3, AscendingSeq
    <2>5. fresh \in Seq(DOMAIN f.events)
      BY <2>4, SeqMonotonic
    <2>6. PICK e : e = EventFrames(f, fresh)
      OBVIOUS
    <2>7. e \in Seq(F)
      <3>1. EventsInOrder(f, l) /\ \A m \in 1..l : IdOf(journal', m) = IdOf(f, m)
        BY <1>13, <1>14, <1>15, <1>21 DEF JournalInv
      <3> QED
        BY <2>1, <2>5, <2>6, <3>1, EventFramesIn
    <2>8. PICK a : a = AckFrames(next)
      OBVIOUS
    <2>9. a \in Seq(F)
      <3>1. ToSet(next) \subseteq Ackable(journal', daemon' = "up")
        BY <1>20, <1>21, <1>23 DEF Started
      <3>2. next \in Seq(DOMAIN j.commands)
        BY <1>17 DEF InTurn
      <3> QED
        BY <2>1, <2>8, <3>1, <3>2, AckFramesIn
    <2>10. e \o a \in Seq(F)
      BY <2>7, <2>9, ConcatProperties
    <2>11. PICK g : g = e \o a
      OBVIOUS
    <2>12. toServer \o g \in Seq(F)
      BY <2>2, <2>10, <2>11, ConcatProperties
    <2> QED
      BY <1>12, <2>2, <2>6, <2>8, <2>11, <2>12
  <1>26. recovered'.frames \in Seq(Up') /\ late' \in Seq(Up) /\ toDaemon' \in Seq(Down)
    <2>1. recovered.frames \in Seq(Up')
      BY <1>14, <1>24, GrowsInv DEF IInv, QueueInv
    <2> QED
      BY <1>12, <2>1 DEF IInv, QueueInv
  <1>27. IInv'
    BY <1>12, <1>14, <1>20, <1>24, <1>25, <1>26, DaemonSide DEF IInv, ShapeInv
  <1> QED
    BY <1>14, <1>20, <1>24, <1>27 DEF Works

\* recover_for_scheduler, first loop
LEMMA RecoverStartedInv ==
    ASSUME IInv, NEW s, RecoverStarted(s)
    PROVE  IInv' /\ Works
  <1> DEFINE k == LastEvent(journal)
  <1>1. PICK ids : ids = <<Unknown(s)>>
    OBVIOUS
  <1>2. PICK f : f = FinishCommand(journal, s, ids)
    OBVIOUS
  <1>3. PICK g : g = recovered.frames \o <<CommandAck(s), Event(NextEvent(journal), Unknown(s))>>
    OBVIOUS
  <1>4. /\ daemon = "recovering" /\ s \in Begun(journal)
        /\ journal' = CompactSession(f) /\ recovered' = [recovered EXCEPT !.frames = g]
        /\ UNCHANGED <<issued, server, dispatching, late, link, active, toServer, toDaemon,
                       daemon, scheduled, invoked>>
    BY <1>1, <1>2, <1>3 DEF RecoverStarted, serverVars, linkVars, Begun
  <1>5. s \in Nat \ {0}
    BY <1>4 DEF IInv, StoreInv, JournalInv, JournalFile, Begun
  <1>6. EventsOf(ids, s) /\ Len(ids) = 1 /\ ids[1] = Unknown(s)
    <2>1. Unknown(s) \in EventIds /\ Unknown(s)[1] = s
      BY <1>5 DEF Unknown, EventIds
    <2>2. ids \in Seq(EventIds) /\ Len(ids) = 1 /\ ids[1] = Unknown(s)
      BY <1>1, <2>1
    <2>3. \A i \in 1..Len(ids) : i = 1
      BY <2>2
    <2> QED
      BY <2>1, <2>2, <2>3 DEF EventsOf
  <1>7. AfterFinish(journal', s, ids, k)
    BY <1>2, <1>4, <1>6, FinishEffect
  <1>8. /\ k \in Nat /\ k + 1 \in Nat /\ k <= k + 1 /\ k + Len(ids) = k + 1
        /\ NextEvent(journal) = k + 1
    BY <1>6, Numbers, NextEventIs DEF IInv, StoreInv, JournalInv
  <1>9. /\ JournalInv(journal', issued, k + 1)
        /\ \A m \in 1..k : IdOf(journal', m) = IdOf(journal, m)
        /\ IdOf(journal', k + 1) = Unknown(s)
        /\ HandledInv(journal', server.eventAck)
        /\ Begun(journal') = Begun(journal) \ {s} /\ Done(journal', s)
        /\ \A x : Done(journal, x) => Done(journal', x)
        /\ DOMAIN journal'.commands \cup journal'.tombstones
             = DOMAIN journal.commands \cup journal.tombstones
        /\ journal'.tracked
    <2>1. 1 \in 1..Len(ids)
      BY <1>6
    <2> QED
      BY <1>6, <1>7, <1>8, <2>1 DEF AfterFinish
  <1>10. Ackable(journal', daemon' = "up") = DOMAIN journal.commands \cup journal.tombstones
    <2>1. ~(daemon' = "up" \/ ~journal'.tracked)
      BY <1>4, <1>9
    <2> QED
      BY <1>9, <2>1, AckableAll
  <1>11. Grows(k + 1)
    <2>1. Ackable(journal, daemon = "up") \subseteq DOMAIN journal.commands \cup journal.tombstones
      BY DEF Ackable
    <2> QED
      BY <1>4, <1>8, <1>9, <1>10, <2>1 DEF Grows
  <1>12. /\ recovered' = [frames |-> recovered'.frames, commands |-> recovered'.commands]
         /\ recovered'.frames = g /\ recovered'.commands = recovered.commands
    BY <1>4 DEF IInv, ShapeInv
  <1>13. recovered'.frames \in Seq(Up')
    <2>1. PICK F : F = UpFrames(journal', daemon' = "up", k + 1)
      OBVIOUS
    <2>2. Up' = F /\ recovered.frames \in Seq(F)
      BY <1>8, <1>11, <2>1, GrowsInv DEF IInv, QueueInv
    <2>3. CommandAck(s) \in F
      <3>1. s \in Ackable(journal', daemon' = "up")
        BY <1>4, <1>10 DEF Begun
      <3> QED
        BY <2>1, <3>1 DEF UpFrames
    <2>4. Event(NextEvent(journal), Unknown(s)) \in F
      <3>1. k + 1 \in 1..k + 1
        BY <1>8
      <3> QED
        BY <1>8, <1>9, <2>1, <3>1 DEF UpFrames
    <2>5. <<CommandAck(s), Event(NextEvent(journal), Unknown(s))>> \in Seq(F)
      BY <2>3, <2>4
    <2>6. g \in Seq(F)
      BY <1>3, <2>2, <2>5, ConcatProperties
    <2> QED
      BY <1>12, <2>2, <2>6
  <1>14. HandOverInv'
    BY <1>4, <1>9, <1>12 DEF IInv, HandOverInv
  <1>15. toServer' \in Seq(Up') /\ late' \in Seq(Up) /\ toDaemon' \in Seq(Down)
    <2>1. toServer \in Seq(Up')
      BY <1>8, <1>11, GrowsInv DEF IInv, QueueInv
    <2> QED
      BY <1>4, <2>1 DEF IInv, QueueInv
  <1>16. IInv'
    BY <1>4, <1>8, <1>11, <1>12, <1>13, <1>14, <1>15, DaemonSide DEF IInv, ShapeInv
  <1> QED
    BY <1>4, <1>8, <1>11, <1>16 DEF Works

\* recover_for_scheduler, second loop
LEMMA FinishRecoveryInv ==
    ASSUME IInv, FinishRecovery
    PROVE  IInv' /\ Works
  <1> DEFINE k == LastEvent(journal)
  <1>1. PICK next : next = IF journal.tracked THEN Ascending(NextReady(journal)) ELSE << >>
    OBVIOUS
  <1>2. PICK g : g = recovered.frames \o AckFrames(next)
    OBVIOUS
  <1>3. /\ daemon = "recovering" /\ daemon' = "up"
        /\ "dispatch_started" \notin Range(journal.commands)
        /\ journal' = IF next = << >> THEN journal ELSE MarkStarted(journal, next[1])
        /\ recovered' = [frames |-> g, commands |-> next]
        /\ UNCHANGED <<issued, server, dispatching, late, link, active, toServer, toDaemon,
                       scheduled, invoked>>
    BY <1>1, <1>2 DEF FinishRecovery, serverVars, linkVars, AckFrames
  <1>4. /\ recovered'.frames = g /\ recovered'.commands = next
        /\ recovered' = [frames |-> recovered'.frames, commands |-> recovered'.commands]
    BY <1>3
  <1>5. /\ issued \in Seq({"run", "cancel"}) /\ JournalInv(journal, issued, k)
        /\ HandledInv(journal, server.eventAck) /\ k \in Nat
    BY Numbers DEF IInv, StoreInv
  <1>6. /\ InTurn(next, journal, issued)
        /\ journal.tracked => ToSet(next) = NextReady(journal)
        /\ ~journal.tracked => next = << >>
    <2>1. CASE journal.tracked
      BY <1>1, <1>5, <2>1, NextInTurn
    <2>2. CASE ~journal.tracked
      <3>1. next = << >>
        BY <1>1, <2>2
      <3>2. next \in Seq(DOMAIN journal.commands) /\ Len(next) <= 1 /\ ToSet(next) = {}
        BY <3>1 DEF ToSet
      <3> QED
        BY <2>2, <3>1, <3>2 DEF InTurn
    <2> QED
      BY <2>1, <2>2
  <1>7. Started(journal', journal, issued, k, ToSet(next))
    BY <1>3, <1>5, <1>6, StartNext DEF InTurn
  <1>8. /\ JournalInv(journal', issued, k) /\ \A m : IdOf(journal', m) = IdOf(journal, m)
        /\ HandledInv(journal', server.eventAck)
        /\ Begun(journal') = Begun(journal) \cup ToSet(next)
        /\ \A q : Done(journal', q) <=> Done(journal, q)
        /\ DOMAIN journal'.commands = DOMAIN journal.commands
        /\ journal'.tombstones = journal.tombstones
    BY <1>5, <1>7 DEF Started, SameEvents, HandledInv
  <1>9. journal.tracked => /\ Ackable(journal', daemon' = "up")
                                = DOMAIN journal'.commands \cup journal'.tombstones
    <2> SUFFICES ASSUME journal.tracked PROVE NextReady(journal') = {}
      BY AckableAll
    <2> SUFFICES ASSUME NEW x \in NextReady(journal') PROVE FALSE
      OBVIOUS
    <2>1. /\ x \in DOMAIN journal.commands /\ x = Expected(journal')
          /\ journal'.commands[x] = "received"
      BY <1>8 DEF NextReady
    <2>2. journal.commands[x] = "received" /\ x \notin NextReady(journal)
          /\ journal'.processed = journal.processed
      BY <1>6, <1>7, <2>1 DEF Started
    <2> QED
      BY <2>1, <2>2 DEF NextReady, Expected
  <1>10. Ackable(journal, daemon = "up") \subseteq Ackable(journal', daemon' = "up")
    <2>1. CASE journal.tracked
      BY <1>8, <1>9, <2>1 DEF Ackable
    <2>2. CASE ~journal.tracked
      <3>1. journal' = journal
        BY <1>3, <1>6, <2>2
      <3> QED
        BY <2>2, <3>1 DEF Ackable
    <2> QED
      BY <2>1, <2>2
  <1>11. Grows(k)
    BY <1>3, <1>5, <1>8, <1>10 DEF Grows
  <1>12. recovered'.frames \in Seq(Up')
    <2>1. PICK F : F = UpFrames(journal', daemon' = "up", k)
      OBVIOUS
    <2>2. Up' = F /\ recovered.frames \in Seq(F)
      BY <1>5, <1>11, <2>1, GrowsInv DEF IInv, QueueInv
    <2>3. ToSet(next) \subseteq Ackable(journal', daemon' = "up")
      <3>1. CASE journal.tracked
        BY <1>7, <1>8, <1>9, <3>1 DEF Started
      <3>2. CASE ~journal.tracked
        BY <1>6, <3>2 DEF ToSet
      <3> QED
        BY <3>1, <3>2
    <2>4. AckFrames(next) \in Seq(F)
      BY <1>6, <2>1, <2>3, AckFramesIn DEF InTurn
    <2>5. g \in Seq(F)
      BY <1>2, <2>2, <2>4, ConcatProperties
    <2> QED
      BY <1>4, <2>2, <2>5
  <1>13. toServer' \in Seq(Up') /\ late' \in Seq(Up) /\ toDaemon' \in Seq(Down)
    <2>1. toServer \in Seq(Up')
      BY <1>5, <1>11, GrowsInv DEF IInv, QueueInv
    <2> QED
      BY <1>3, <2>1 DEF IInv, QueueInv
  <1>14. \A s \in ToSet(next) : ~Done(journal, s) /\ s \notin Begun(journal)
    <2> SUFFICES ASSUME NEW s \in ToSet(next) PROVE ~Done(journal, s) /\ s \notin Begun(journal)
      OBVIOUS
    <2>1. s \in DOMAIN journal.commands /\ journal.commands[s] = "received"
      BY <1>6 DEF InTurn, ToSet
    <2> QED
      BY <1>5, <2>1, ReceivedIsAhead
  <1>15. next \in Seq(1..Len(issued)) /\ Len(next) <= 1
    <2>1. DOMAIN journal.commands \subseteq 1..Len(issued)
      BY <1>5 DEF JournalInv, CommandsInOrder
    <2> QED
      BY <1>6, <2>1, SeqMonotonic DEF InTurn
  <1>16. HandOverInv'
    <2>1. Begun(journal) = {}
      BY <1>3 DEF Begun, Range
    <2>2. /\ scheduled = << >> /\ ToSet(scheduled) = {}
          /\ \A s \in ToSet(invoked) : s \in Begun(journal) \/ Done(journal, s)
          /\ \A i, m \in DOMAIN scheduled : scheduled[i] = scheduled[m] => i = m
      BY <1>3 DEF IInv, HandOverInv, ToSet
    <2>3. \A s \in ToSet(next) : s \notin ToSet(scheduled) \cup ToSet(invoked)
      BY <1>14, <2>2
    <2>4. Begun(journal') = ToSet(scheduled) \cup ToSet(next)
      BY <1>8, <2>1, <2>2
    <2> QED
      BY <1>3, <1>4, <1>8, <1>15, <2>2, <2>3, <2>4 DEF HandOverInv
  <1>17. IInv'
    BY <1>3, <1>4, <1>5, <1>11, <1>12, <1>13, <1>15, <1>16, DaemonSide DEF IInv, ShapeInv
  <1> QED
    BY <1>3, <1>5, <1>11, <1>17 DEF Works
-----------------------------------------------------------------------------
(* The invariant.                                                          *)

LEMMA InvInit ==
    Init => IInv
  <1> SUFFICES ASSUME Init PROVE IInv
    OBVIOUS
  <1>1. /\ issued = << >> /\ dispatching = {} /\ late = << >> /\ link = "down" /\ active = FALSE
        /\ toServer = << >> /\ toDaemon = << >> /\ daemon = "up" /\ journal = EmptyJournal
        /\ scheduled = << >> /\ recovered = NothingRecovered /\ invoked = << >>
    BY DEF Init
  <1>2. /\ server = ServerFields(server)
        /\ server.outbox = {} /\ server.acknowledged = {} /\ server.tombstones = {}
        /\ server.commandAck = 0 /\ server.receipts = << >> /\ server.eventAck = 0
    BY DEF Init, ServerFields
  <1>3. /\ journal = Fields(journal)
        /\ journal.commands = << >> /\ journal.tombstones = {} /\ journal.processed = 0
        /\ journal.tracked = FALSE /\ journal.events = << >> /\ journal.eventTombstones = << >>
        /\ journal.eventAck = 0 /\ journal.sparse = {}
    BY <1>1 DEF EmptyJournal, Fields
  <1>4. /\ recovered.frames = << >> /\ recovered.commands = << >>
        /\ recovered = [frames |-> recovered.frames, commands |-> recovered.commands]
    BY <1>1 DEF NothingRecovered
  <1>5. issued \in Seq({"run", "cancel"}) /\ Len(issued) = 0 /\ 1..0 = {}
    BY <1>1
  <1>6. DOMAIN journal.commands = {} /\ DOMAIN journal.events = {}
        /\ DOMAIN journal.eventTombstones = {}
    BY <1>3
  <1>7. JournalFile(journal)
    <2>1. journal.tracked \in BOOLEAN
      BY <1>3
    <2>2. journal.processed \in Nat /\ journal.eventAck \in Nat
          /\ journal.tombstones \cup journal.sparse \subseteq Nat \ {0}
      BY <1>3
    <2> QED
      BY <1>6, <2>1, <2>2 DEF JournalFile
  <1>8. CommandsInOrder(journal, issued)
    BY <1>3, <1>5, <1>6 DEF CommandsInOrder
  <1>9. EventsInOrder(journal, 0)
    <2>1. DOMAIN journal.events \cup DOMAIN journal.eventTombstones = 1..0
          /\ journal.sparse \subseteq 1..0 /\ journal.eventAck <= 0
      BY <1>3, <1>5, <1>6
    <2>2. \A n : n \notin 1..0
      OBVIOUS
    <2> QED
      BY <1>6, <2>1, <2>2 DEF EventsInOrder
  <1>10. LastEvent(journal) = 0
    BY <1>7, <1>9, NextEventIs
  <1>11. OutboxInv(server, Len(issued))
    <2>1. server.outbox \cup server.tombstones = 1..0 /\ server.commandAck \in 0..0
      BY <1>2, <1>5
    <2> QED
      BY <1>2, <1>5, <2>1 DEF OutboxInv
  <1>12. ReceiptsInv(server, journal, 0)
    <2>1. DOMAIN server.receipts = {}
      BY <1>2
    <2> QED
      BY <1>2, <1>5, <2>1 DEF ReceiptsInv
  <1>13. HandledInv(journal, server.eventAck)
    BY <1>2, <1>3, <1>6 DEF HandledInv
  <1>14. StoreInv
    BY <1>2, <1>3, <1>5, <1>7, <1>8, <1>9, <1>10, <1>11, <1>12, <1>13 DEF StoreInv, JournalInv
  <1>15. QueueInv
    BY <1>1, <1>4, EmptySeq DEF QueueInv
  <1>16. ShapeInv
    BY <1>1, <1>4, EmptySeq DEF ShapeInv
  <1>17. HandOverInv
    <2>1. DOMAIN scheduled = {} /\ ToSet(scheduled) = {} /\ ToSet(recovered.commands) = {}
          /\ ToSet(invoked) = {} /\ Len(recovered.commands) <= 1
      BY <1>1, <1>4 DEF ToSet
    <2>2. Begun(journal) = {}
      BY <1>6 DEF Begun
    <2> QED
      BY <1>1, <2>1, <2>2 DEF HandOverInv
  <1> QED
    BY <1>14, <1>15, <1>16, <1>17 DEF IInv

\* What a step is to the session log, apart from the daemon's.
IssueStep ==
    /\ UNCHANGED <<journal, invoked>> /\ server'.eventAck = server.eventAck
    /\ \E kind \in {"run", "cancel"} : issued' = Append(issued, kind)
ServerStep ==
    /\ UNCHANGED <<issued, journal, invoked>>
    /\ server'.eventAck = server.eventAck \/ server'.eventAck = server.eventAck + 1

LEMMA InvStep ==
    ASSUME IInv, [Next]_vars
    PROVE  IInv' /\ (Works \/ IssueStep \/ ServerStep)
  <1>1. ASSUME NEW kind \in {"run", "cancel"}, IssueCommand(kind)
        PROVE  IInv' /\ IssueStep
    <2>1. IInv'
      BY <1>1, IssueInv
    <2>2. PICK o : server' = [server EXCEPT !.outbox = o]
      BY <1>1 DEF IssueCommand
    <2>3. server'.eventAck = server.eventAck
      BY <2>2 DEF IInv, StoreInv, ServerFields
    <2> QED
      BY <1>1, <2>1, <2>3 DEF IssueStep, IssueCommand, daemonVars
  <1>2. ASSUME NEW s \in 1..MaxCommands, RepeatRequest(s) \/ DispatchCommand(s) \/ SkipDispatch(s)
        PROVE  IInv' /\ ServerStep
    BY <1>2, DispatchInv DEF ServerStep, RepeatRequest, DispatchCommand, SkipDispatch, daemonVars
  <1>3. ASSUME Connect \/ SendPending \/ MarkLiveReady
        PROVE  IInv' /\ ServerStep
    BY <1>3, HandshakeInv DEF ServerStep, Connect, SendPending, MarkLiveReady, daemonVars,
                              serverVars
  <1>4. ASSUME \/ Disconnect \/ NoticeDisconnect \/ ServerRestart
               \/ ReceiveEventGap \/ ReceiveCommandOverflow
        PROVE  IInv' /\ ServerStep
    BY <1>4, DisconnectInv DEF ServerStep, Disconnect, NoticeDisconnect, ServerRestart,
                               ReceiveEventGap, ReceiveCommandOverflow, daemonVars, serverVars
  <1>5. ASSUME ReceiveEvent PROVE IInv' /\ ServerStep
    <2>1. UNCHANGED <<issued, journal, invoked>>
      BY <1>5 DEF ReceiveEvent, daemonVars
    <2> QED
      BY <1>5, <2>1, ReceiveEventInv DEF ServerStep
  <1>6. ASSUME ReceiveCommandAck PROVE IInv' /\ ServerStep
    <2>1. UNCHANGED <<issued, journal, invoked>>
      BY <1>6 DEF ReceiveCommandAck, daemonVars
    <2> QED
      BY <1>6, <2>1, ReceiveCommandAckInv DEF ServerStep
  <1>7. ASSUME HandleLate PROVE IInv' /\ ServerStep
    <2>1. UNCHANGED <<issued, journal, invoked>>
      BY <1>7 DEF HandleLate, daemonVars
    <2> QED
      BY <1>7, <2>1, HandleLateInv DEF ServerStep
  <1>8. ASSUME ReceiveReconcile \/ ReceiveCommand \/ ReceiveEventAck PROVE IInv' /\ Works
    BY <1>8, ReceiveReconcileInv, ReceiveCommandInv, ReceiveEventAckInv
  <1>9. ASSUME NEW i, NEW n, FinishRuntime(i, n) \/ CrashWithinFinish(i, n)
        PROVE  IInv' /\ Works
    BY <1>9, FinishRuntimeInv, CrashWithinFinishInv
  <1>10. ASSUME Crash \/ CrashWithinReceive PROVE IInv' /\ Works
    BY <1>10, CrashInv, CrashWithinReceiveInv
  <1>11. ASSUME Restart \/ FinishRecovery PROVE IInv' /\ Works
    BY <1>11, RestartInv, FinishRecoveryInv
  <1>12. ASSUME NEW s, RecoverStarted(s) PROVE IInv' /\ Works
    BY <1>12, RecoverStartedInv
  <1>13. CASE UNCHANGED vars
    <2>1. UNCHANGED <<issued, server, daemonVars, dispatching, late, toServer, toDaemon,
                      link, active>>
      BY <1>13 DEF vars, serverVars, linkVars
    <2>2. IInv'
      BY <2>1, ConnectionSide DEF IInv, ShapeInv, QueueInv
    <2> QED
      BY <2>1, <2>2 DEF ServerStep, daemonVars
  <1>14. CASE Progress
    BY <1>2, <1>3, <1>4, <1>5, <1>6, <1>7, <1>8, <1>9, <1>11, <1>12, <1>14 DEF Progress
  <1>15. CASE Failure
    BY <1>4, <1>9, <1>10, <1>15 DEF Failure
  <1>16. CASE Request
    BY <1>1, <1>2, <1>16 DEF Request
  <1> QED
    BY <1>13, <1>14, <1>15, <1>16 DEF Next

LEMMA Invariance ==
    Spec => []IInv
  <1>1. Init => IInv
    BY InvInit
  <1>2. IInv /\ [Next]_vars => IInv'
    BY InvStep
  <1> QED
    BY <1>1, <1>2, PTL DEF Spec
-----------------------------------------------------------------------------
(* The theorems.                                                           *)

LEMMA IdType ==
    ASSUME IInv, NEW n \in 1..LastEvent(journal)
    PROVE  /\ IdOf(journal, n) \in EventIds
           /\ \/ n \in DOMAIN journal.events /\ IdOf(journal, n) = journal.events[n].id
              \/ /\ n \notin DOMAIN journal.events /\ n \in DOMAIN journal.eventTombstones
                 /\ IdOf(journal, n) = journal.eventTombstones[n]
  BY DEF IInv, StoreInv, JournalInv, EventsInOrder, JournalFile, IdOf

LEMMA FramesType ==
    ASSUME IInv
    PROVE  Up \subseteq Frames /\ Down \subseteq Frames
  <1>1. \A s : s \in Nat => /\ {Command(s), CommandAck(s)} \subseteq Frames
                           /\ \A b \in BOOLEAN : Reconcile(s, b) \in Frames
    BY DEF Frames, Command, CommandAck, Reconcile
  <1>2. \A n, id : n \in Nat /\ id \in EventIds => {Event(n, id), EventAck(n, id)} \subseteq Frames
    BY DEF Frames, Event, EventAck
  <1>3. ASSUME NEW s \in Ackable(journal, daemon = "up") PROVE s \in Nat
    BY DEF Ackable, IInv, StoreInv, JournalInv, JournalFile
  <1>4. ASSUME NEW n \in 1..LastEvent(journal) PROVE n \in Nat /\ IdOf(journal, n) \in EventIds
    BY IdType, Numbers
  <1>5. ASSUME NEW n \in 1..server.eventAck PROVE n \in 1..LastEvent(journal)
    BY Numbers
  <1>6. Up \subseteq Frames
    BY <1>1, <1>2, <1>3, <1>4 DEF Up, UpFrames
  <1>7. Down \subseteq Frames
    <2>1. \A s \in 1..Len(issued) : Command(s) \in Frames
      BY <1>1, Numbers
    <2>2. \A m \in 1..server.eventAck : EventAck(m, IdOf(journal, m)) \in Frames
      BY <1>2, <1>4, <1>5
    <2>3. \A m \in 0..server.eventAck, b \in BOOLEAN : Reconcile(m, b) \in Frames
      <3>1. \A m \in 0..server.eventAck : m \in Nat
        BY Numbers
      <3> QED
        BY <1>1, <3>1
    <2> QED
      BY <2>1, <2>2, <2>3 DEF Down, DownFrames
  <1> QED
    BY <1>6, <1>7

LEMMA InvTypes ==
    IInv => TypeOK
  <1> SUFFICES ASSUME IInv PROVE TypeOK
    OBVIOUS
  <1>1. DOMAIN issued = 1..Len(issued) /\ Len(issued) \in Nat /\ issued \in Seq({"run", "cancel"})
    BY Numbers DEF IInv, StoreInv
  <1>2. server.outbox \cup server.acknowledged \cup server.tombstones \subseteq DOMAIN issued
    BY <1>1 DEF IInv, StoreInv, OutboxInv
  <1>3. server.commandAck \in Nat /\ server.eventAck \in Nat
    BY Numbers DEF IInv, StoreInv, OutboxInv
  <1>4. \A n \in DOMAIN server.receipts : n \in Nat /\ server.receipts[n] \in EventIds
    <2> SUFFICES ASSUME NEW n \in DOMAIN server.receipts
                 PROVE  n \in Nat /\ server.receipts[n] \in EventIds
      OBVIOUS
    <2>1. n \in 1..server.eventAck /\ server.receipts[n] = IdOf(journal, n)
      BY DEF IInv, StoreInv, ReceiptsInv
    <2>2. n \in 1..LastEvent(journal) /\ n \in Nat
      BY <2>1, Numbers
    <2> QED
      BY <2>1, <2>2, IdType
  <1>5. dispatching \subseteq DOMAIN issued
    BY <1>1 DEF IInv, ShapeInv
  <1>6. \A q \in {late, toServer, toDaemon, recovered.frames} : q \in Seq(Frames)
    BY FramesType, SeqMonotonic DEF IInv, QueueInv
  <1>7. /\ link \in {"down", "snapshot", "pending", "ready"} /\ active \in BOOLEAN
        /\ daemon \in {"down", "recovering", "up"}
    BY DEF IInv, ShapeInv
  <1>8. JournalFile(journal)
    BY DEF IInv, StoreInv, JournalInv
  <1>9. \A q \in {scheduled, recovered.commands, invoked} : q \in Seq(DOMAIN issued)
    BY <1>1 DEF IInv, ShapeInv
  <1> QED
    BY <1>1, <1>2, <1>3, <1>4, <1>5, <1>6, <1>7, <1>8, <1>9 DEF TypeOK

\* The outbox, the receipts, the journal and everything on its way between them
\* keep their shape, through any crash, restart or loss.
THEOREM TypeCorrect ==
    Spec => []TypeOK
  BY Invariance, InvTypes, PTL

LEMMA InvNoConflict ==
    IInv => NoIdentityConflict
  <1> SUFFICES ASSUME IInv PROVE NoIdentityConflict
    OBVIOUS
  <1>1. NextCommand(server) = Len(issued) + 1
    BY Numbers, NextCommandIs DEF IInv, StoreInv
  <1>2. ASSUME NEW i \in DOMAIN toServer, toServer[i].type = "event"
        PROVE  ~EventConflicts(server, toServer[i])
    <2>1. PICK f \in Up : f = toServer[i]
      BY DEF IInv, QueueInv
    <2>2. f.type = "event" /\ f.seq \in 1..LastEvent(journal) /\ f.id = IdOf(journal, f.seq)
      BY <1>2, <2>1, UpFrameIs DEF Up
    <2>3. /\ DOMAIN server.receipts = 1..server.eventAck
          /\ \A n \in 1..server.eventAck : server.receipts[n] = IdOf(journal, n)
          /\ server.eventAck \in 0..LastEvent(journal) /\ LastEvent(journal) \in Nat
      BY Numbers DEF IInv, StoreInv, ReceiptsInv
    <2>4. ASSUME NEW n \in 1..server.eventAck, server.receipts[n] = f.id PROVE n = f.seq
      <3>1. n \in 1..LastEvent(journal) /\ IdOf(journal, n) = IdOf(journal, f.seq)
        BY <2>2, <2>3, <2>4
      <3> QED
        BY <2>2, <3>1 DEF IInv, StoreInv, JournalInv, EventsInOrder
    <2>5. f.seq <= server.eventAck => f.seq \in DOMAIN server.receipts
      BY <2>2, <2>3
    <2>6. f.seq \in DOMAIN server.receipts => server.receipts[f.seq] = f.id
      BY <2>2, <2>3
    <2>7. ~EventConflicts(server, f)
      BY <2>3, <2>4, <2>5, <2>6 DEF EventConflicts
    <2> QED
      BY <2>1, <2>7
  <1>3. ASSUME NEW i \in DOMAIN toServer, toServer[i].type = "command_ack"
        PROVE  toServer[i].seq \in server.outbox \cup server.tombstones
    <2>1. PICK f \in Up : f = toServer[i]
      BY DEF IInv, QueueInv
    <2>2. f.seq \in Ackable(journal, daemon = "up")
      BY <1>3, <2>1, UpFrameIs DEF Up
    <2>3. f.seq \in 1..Len(issued)
      BY <2>2 DEF Ackable, IInv, StoreInv, JournalInv, CommandsInOrder
    <2> QED
      BY <2>1, <2>3 DEF IInv, StoreInv, OutboxInv
  <1>4. ASSUME NEW i \in DOMAIN toDaemon, toDaemon[i].type = "command"
        PROVE  ~BelowBoundary(journal, toDaemon[i].seq)
    <2>1. PICK f \in Down : f = toDaemon[i]
      BY DEF IInv, QueueInv
    <2>2. f.seq \in 1..Len(issued) /\ Len(issued) \in Nat
      BY <1>4, <2>1, DownFrameIs, Numbers DEF Down
    <2>3. journal.processed \in Nat /\ \A s \in 1..journal.processed : Known(journal, s)
      BY DEF IInv, StoreInv, JournalInv, JournalFile, CommandsInOrder, Done, Known
    <2>4. ~BelowBoundary(journal, f.seq)
      BY <2>2, <2>3 DEF BelowBoundary, Expected
    <2> QED
      BY <2>1, <2>4
  <1>5. ASSUME NEW i \in DOMAIN toDaemon, toDaemon[i].type = "event_ack"
        PROVE  ~AckConflicts(journal, toDaemon[i].seq, toDaemon[i].id)
    <2>1. PICK f \in Down : f = toDaemon[i]
      BY DEF IInv, QueueInv
    <2>2. f.seq \in 1..server.eventAck /\ f.id = IdOf(journal, f.seq)
      BY <1>5, <2>1, DownFrameIs DEF Down
    <2>3. f.seq \in 1..LastEvent(journal)
      BY <2>2, Numbers
    <2>4. ~AckConflicts(journal, f.seq, f.id)
      BY <2>2, <2>3, IdType DEF AckConflicts
    <2> QED
      BY <2>1, <2>4
  <1> QED
    BY <1>1, <1>2, <1>3, <1>4, <1>5 DEF NoIdentityConflict

\* next_command_sequence and next_event_sequence never give out a number that is
\* taken, and no frame contradicts what its receiver retains, so that neither
\* acknowledge_command, acknowledge_event nor the event receipt ever refuses an
\* identity: the daemon never stops for a protocol error of its own making.
THEOREM NoConflicts ==
    Spec => []NoIdentityConflict
  BY Invariance, InvNoConflict, PTL

LEMMA InvNothingIsLost ==
    IInv => NothingIsLost
  <1> SUFFICES ASSUME IInv PROVE NothingIsLost
    OBVIOUS
  <1> DEFINE n == Len(issued)
             ack == server.eventAck
             k == LastEvent(journal)
  <1>1. n \in Nat /\ DOMAIN issued = 1..n /\ k \in Nat /\ ack \in 0..k /\ ack \in Nat
    BY Numbers
  <1>2. \A s \in Ackable(journal, daemon = "up") : Known(journal, s)
    BY DEF Ackable, Known
  <1>3. OutboxInv(server, n) /\ HandledInv(journal, ack)
        /\ server.acknowledged \cup server.tombstones \subseteq Ackable(journal, daemon = "up")
    BY DEF IInv, StoreInv
  <1>4. \A s \in server.acknowledged \cup server.tombstones : Known(journal, s)
    BY <1>2, <1>3
  <1>5. \A s \in 1..server.commandAck : s \in server.acknowledged \cup server.tombstones
    <2> SUFFICES ASSUME NEW s \in 1..server.commandAck
                 PROVE  s \in server.acknowledged \cup server.tombstones
      OBVIOUS
    <2>1. s \in 1..n /\ s <= server.commandAck
      BY <1>1, <1>3 DEF OutboxInv
    <2> QED
      BY <1>3, <2>1 DEF OutboxInv
  <1>6. AcknowledgedIsDurable
    <2>1. \A s \in server.acknowledged \cup server.tombstones \cup 1..server.commandAck :
             Known(journal, s)
      BY <1>4, <1>5
    <2>2. \A m \in DOMAIN journal.events : journal.events[m].acknowledged => m <= ack
      BY <1>3 DEF HandledInv
    <2>3. \A m \in DOMAIN journal.eventTombstones \cup 1..journal.eventAck : m \in 1..ack
      <3>1. journal.eventAck \in Nat /\ journal.eventAck <= ack
        BY <1>3 DEF HandledInv, IInv, StoreInv, JournalInv, JournalFile
      <3>2. \A m \in 1..journal.eventAck : m \in 1..ack
        BY <1>1, <3>1
      <3> QED
        BY <1>3, <3>2 DEF HandledInv
    <2> QED
      BY <2>1, <2>2, <2>3 DEF AcknowledgedIsDurable
  <1>7. NothingIsForgotten
    <2>1. \A s \in DOMAIN issued : Known(journal, s) \/ s \in server.outbox \ server.acknowledged
      BY <1>1, <1>3, <1>4 DEF OutboxInv
    <2>2. NextEvent(journal) - 1 = k
      BY DEF LastEvent
    <2>3. ASSUME NEW m \in ack + 1..k
          PROVE  m \in DOMAIN journal.events /\ ~journal.events[m].acknowledged
      <3>1. m \in 1..k /\ ~(m <= ack)
        BY <1>1
      <3>2. m \notin DOMAIN journal.eventTombstones
        BY <1>1, <1>3, <3>1 DEF HandledInv
      <3>3. m \in DOMAIN journal.events
        BY <3>1, <3>2, IdType
      <3> QED
        BY <1>3, <3>1, <3>3 DEF HandledInv
    <2> QED
      BY <2>1, <2>2, <2>3 DEF NothingIsForgotten
  <1>8. NoCommandIsStranded
    <2> SUFFICES ASSUME daemon = "up"
                 PROVE  /\ Begun(journal) = ToSet(scheduled) \cup ToSet(recovered.commands)
                        /\ NextReady(journal) \subseteq server.outbox \ server.acknowledged
      BY DEF NoCommandIsStranded, Begun
    <2>1. Begun(journal) = ToSet(scheduled) \cup ToSet(recovered.commands)
      BY DEF IInv, HandOverInv
    <2>2. ASSUME NEW s \in NextReady(journal) PROVE s \in server.outbox \ server.acknowledged
      <3>1. s \notin Ackable(journal, daemon = "up")
        BY DEF Ackable, NextReady
      <3>2. s \in 1..n
        BY DEF NextReady, IInv, StoreInv, JournalInv, CommandsInOrder
      <3> QED
        BY <1>3, <3>1, <3>2 DEF OutboxInv
    <2> QED
      BY <2>1, <2>2
  <1> QED
    BY <1>6, <1>7, <1>8 DEF NothingIsLost

\* Whatever the server holds for acknowledged is in the daemon's journal, whatever
\* the journal holds for acknowledged has been handled by the server, what has not
\* arrived can still be sent, and no started command of a running daemon is out of
\* the scheduler's sight; whatever crash, restart or loss comes between two steps.
THEOREM NothingIsEverLost ==
    Spec => []NothingIsLost
  BY Invariance, InvNothingIsLost, PTL
-----------------------------------------------------------------------------
(* Delivery implements the session log.                                    *)

\* The two logs have no hole, and the server's is a beginning of the daemon's.
LogState ==
    /\ LastEvent(journal) \in Nat /\ server.eventAck \in 0..LastEvent(journal)
    /\ Committed = [n \in 1..LastEvent(journal) |-> IdOf(journal, n)]
    /\ Handled = [n \in 1..server.eventAck |-> IdOf(journal, n)]

LEMMA LogIs ==
    ASSUME IInv
    PROVE  LogState
  <1>1. ASSUME NEW n \in 1..LastEvent(journal)
        PROVE  (IF n \in DOMAIN journal.events THEN journal.events[n].id
                ELSE IF n \in DOMAIN journal.eventTombstones THEN journal.eventTombstones[n]
                ELSE "hole") = IdOf(journal, n)
    BY IdType
  <1>2. ASSUME NEW n \in 1..server.eventAck
        PROVE  (IF n \in DOMAIN server.receipts THEN server.receipts[n] ELSE "hole")
                 = IdOf(journal, n)
    BY DEF IInv, StoreInv, ReceiptsInv
  <1>3. Committed = [n \in 1..LastEvent(journal) |-> IdOf(journal, n)]
    BY <1>1 DEF Committed, LastEvent
  <1>4. Handled = [n \in 1..server.eventAck |-> IdOf(journal, n)]
    BY <1>2 DEF Handled
  <1> QED
    BY <1>3, <1>4, Numbers DEF LogState

\* A log of events and the beginning of a longer one.
LEMMA LogGrows ==
    ASSUME NEW j, NEW h, NEW a \in Nat, NEW b \in Nat, a <= b,
           \A n \in 1..a : IdOf(h, n) = IdOf(j, n),
           NEW p, p = [n \in 1..a |-> IdOf(j, n)], NEW q, q = [n \in 1..b |-> IdOf(h, n)]
    PROVE  /\ Len(p) = a /\ Len(q) = b /\ SubSeq(q, 1, Len(p)) = p
           /\ b = a + 1 => q = Append(p, q[a + 1])
           /\ b = a => q = p
  <1> DEFINE S == {IdOf(h, n) : n \in 1..b}
  <1>1. \A n \in 1..b : q[n] = IdOf(h, n) /\ q[n] \in S
    OBVIOUS
  <1>2. \A n \in 1..a : n \in 1..b /\ p[n] = q[n]
    BY <1>1
  <1> HIDE DEF S
  <1>3. q \in Seq(S) /\ Len(q) = b
    BY <1>1
  <1>4. p \in Seq(S) /\ Len(p) = a
    BY <1>1, <1>2
  <1>5. SubSeq(q, 1, a) = p
    <2>1. 1 \in Int /\ a \in Int /\ \A i \in 1..a : q[i] \in S
      BY <1>1, <1>2
    <2>2. PICK r : r = SubSeq(q, 1, a)
      OBVIOUS
    <2>3. /\ r \in Seq(S) /\ Len(r) = IF 1 <= a THEN a - 1 + 1 ELSE 0
          /\ \A i \in 1..a - 1 + 1 : r[i] = q[1 + i - 1]
      BY <2>1, <2>2, SubSeqProperties
    <2>4. Len(r) = a
      BY <2>3
    <2>5. ASSUME NEW i \in 1..a PROVE r[i] = p[i]
      <3>1. i \in 1..a - 1 + 1 /\ 1 + i - 1 = i
        OBVIOUS
      <3> QED
        BY <1>2, <2>3, <3>1
    <2>6. r = p
      BY <1>4, <2>3, <2>4, <2>5, SeqEqual
    <2> QED
      BY <2>2, <2>6
  <1>6. ASSUME b = a + 1 PROVE q = Append(p, q[a + 1])
    <2>1. PICK x \in S : x = q[a + 1]
      BY <1>1, <1>6
    <2>2. PICK r : r = Append(p, x)
      OBVIOUS
    <2>3. r \in Seq(S) /\ Len(r) = a + 1 /\ r[a + 1] = x /\ \A i \in 1..a : r[i] = p[i]
      BY <1>4, <2>1, <2>2
    <2>4. \A i \in 1..a + 1 : i \in 1..a \/ i = a + 1
      OBVIOUS
    <2>5. \A i \in 1..Len(r) : r[i] = q[i]
      BY <1>2, <2>1, <2>3, <2>4
    <2>6. r = q
      BY <1>3, <1>6, <2>3, <2>5, SeqEqual
    <2> QED
      BY <2>1, <2>2, <2>6
  <1>7. ASSUME b = a PROVE q = p
    BY <1>2, <1>3, <1>4, <1>7, SeqEqual
  <1> QED
    BY <1>3, <1>4, <1>5, <1>6, <1>7

LEMMA LogInitial ==
    Init => Log!LogInit
  <1> SUFFICES ASSUME Init PROVE Log!LogInit
    OBVIOUS
  <1>1. IInv
    BY InvInit
  <1>2. issued = << >> /\ invoked = << >> /\ server.eventAck = 0
    BY DEF Init
  <1>3. LastEvent(journal) = 0
    <2>1. /\ journal.eventAck = 0 /\ journal.sparse = {} /\ DOMAIN journal.events = {}
          /\ DOMAIN journal.eventTombstones = {}
      BY DEF Init, EmptyJournal
    <2>2. EventsInOrder(journal, LastEvent(journal)) /\ LastEvent(journal) \in Nat
      BY <1>1, Numbers DEF IInv, StoreInv, JournalInv
    <2>3. 1..LastEvent(journal) = {}
      BY <2>1, <2>2 DEF EventsInOrder
    <2>4. LastEvent(journal) > 0 => 1 \in 1..LastEvent(journal)
      BY <2>2
    <2> QED
      BY <2>2, <2>3, <2>4
  <1>4. Committed = << >> /\ Handled = << >>
    <2>1. /\ Committed = [n \in 1..0 |-> IdOf(journal, n)]
          /\ Handled = [n \in 1..0 |-> IdOf(journal, n)]
      BY <1>1, <1>2, <1>3, LogIs DEF LogState
    <2> QED
      BY <2>1
  <1> QED
    BY <1>2, <1>4 DEF Log!LogInit

LEMMA LogStep ==
    ASSUME IInv, LogState, LogState', Works \/ IssueStep \/ ServerStep
    PROVE  [Log!LogNext]_Log!logVars
  <1>1. PICK a \in Nat, b \in Nat : a = LastEvent(journal) /\ b = server.eventAck /\ b <= a
    BY DEF LogState
  <1>2. PICK p, q : p = Committed /\ q = Handled
    OBVIOUS
  <1>3. p = [n \in 1..a |-> IdOf(journal, n)] /\ q = [n \in 1..b |-> IdOf(journal, n)]
    BY <1>1, <1>2 DEF LogState
  <1>4. PICK c \in Nat, d \in Nat :
            c = LastEvent(journal') /\ d = server'.eventAck /\ d <= c
    BY DEF LogState
  <1>5. PICK r, t : r = Committed' /\ t = Handled'
    OBVIOUS
  <1>6. r = [n \in 1..c |-> IdOf(journal', n)] /\ t = [n \in 1..d |-> IdOf(journal', n)]
    BY <1>4, <1>5 DEF LogState
  <1>7. CASE Works
    <2>1. PICK k \in Nat : Grows(k)
      BY <1>7 DEF Works
    <2>2. /\ c = k /\ a <= c /\ issued' = issued /\ server' = server /\ d = b
          /\ \A n \in 1..a : IdOf(journal', n) = IdOf(journal, n)
      BY <1>1, <1>4, <2>1, GrowsInv DEF Grows
    <2>3. Len(p) = a /\ Len(r) = c /\ SubSeq(r, 1, Len(p)) = p
      BY <1>3, <1>6, <2>2, LogGrows
    <2>4. t = q
      <3>1. \A n \in 1..b : IdOf(journal', n) = IdOf(journal, n)
        BY <1>1, <2>2
      <3> QED
        BY <1>3, <1>6, <2>2, <3>1
    <2>5. Log!Work
      <3>1. \/ invoked' = invoked
            \/ \E s \in DOMAIN issued : Log!MayInvoke(s) /\ invoked' = Append(invoked, s)
        BY <1>7 DEF Works, MayStart, Log!MayInvoke
      <3>2. Len(Committed) <= Len(Committed') /\ SubSeq(Committed', 1, Len(Committed)) = Committed
        BY <1>2, <1>5, <2>2, <2>3
      <3> QED
        BY <1>2, <1>5, <2>2, <2>4, <3>1, <3>2 DEF Log!Work
    <2> QED
      BY <2>5 DEF Log!LogNext
  <1>8. CASE IssueStep
    <2>1. journal' = journal /\ invoked' = invoked /\ c = a /\ d = b
      BY <1>1, <1>4, <1>8 DEF IssueStep
    <2>2. r = p /\ t = q
      BY <1>3, <1>6, <2>1
    <2>3. Log!Issue
      BY <1>2, <1>5, <1>8, <2>1, <2>2 DEF Log!Issue, IssueStep
    <2> QED
      BY <2>3 DEF Log!LogNext
  <1>9. CASE ServerStep
    <2>1. /\ journal' = journal /\ invoked' = invoked /\ issued' = issued /\ c = a
          /\ d = b \/ d = b + 1
      BY <1>1, <1>4, <1>9 DEF ServerStep
    <2>2. r = p
      BY <1>3, <1>6, <2>1
    <2>3. CASE d = b
      <3>1. t = q
        BY <1>3, <1>6, <2>1, <2>3
      <3> QED
        BY <1>2, <1>5, <2>1, <2>2, <3>1 DEF Log!logVars
    <2>4. CASE d = b + 1
      <3>1. d <= a
        BY <1>4, <2>1
      <3>2. Len(p) = a /\ Len(q) = b /\ t = Append(q, t[b + 1])
        BY <1>3, <1>6, <2>1, <2>4, LogGrows
      <3>3. b + 1 \in 1..a /\ b + 1 \in 1..d
        BY <2>4, <3>1
      <3>4. t[b + 1] = p[b + 1]
        BY <1>3, <1>6, <2>1, <3>3
      <3>5. Len(Handled) < Len(Committed) /\ Handled' = Append(Handled, Committed[Len(Handled) + 1])
        BY <1>2, <1>5, <3>2, <3>3, <3>4
      <3>6. Log!Apply
        BY <1>2, <1>5, <2>1, <2>2, <3>5 DEF Log!Apply
      <3> QED
        BY <3>6 DEF Log!LogNext
    <2> QED
      BY <2>1, <2>3, <2>4
  <1> QED
    BY <1>7, <1>8, <1>9

\* Through any number of crashes, restarts, lost connections and repeated frames,
\* delivery is the session log: a command reaches the runtime at most once and
\* runs reach it in the order they were issued (accept_command_with_control,
\* accept_next_ready_command, recover_for_scheduler), and the server handles the
\* daemon's events once each, in the order finish_command committed them.
THEOREM ImplementsLog ==
    Spec => ImplementsSessionLog
  <1>1. Init => Log!LogInit
    BY LogInitial
  <1>2. IInv => LogState
    BY LogIs
  <1>3. IInv /\ LogState /\ LogState' /\ [Next]_vars => [Log!LogNext]_Log!logVars
    BY InvStep, LogStep
  <1> QED
    BY <1>1, <1>2, <1>3, Invariance, PTL DEF Spec, ImplementsSessionLog, Log!LogSpec
=============================================================================
