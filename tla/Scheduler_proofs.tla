-------------------------- MODULE Scheduler_proofs --------------------------
(***************************************************************************)
(* Theorems about Scheduler, for any number of sessions, permits and       *)
(* commands.                                                               *)
(*                                                                         *)
(* Good is what every function of the scheduler keeps, IInv what every     *)
(* action keeps.  The lemmas go from sequences to the loops over the       *)
(* queue, to the functions of RuntimeScheduler, to the journal's rows, to  *)
(* the actions; the theorems are at the end.                               *)
(***************************************************************************)
EXTENDS Scheduler, FiniteSetTheorems, SequenceTheorems, WellFoundedInduction, TLAPS

\* An element of a sequence, and a sequence that has each element once.
In(q, c) == \E i \in 1..Len(q) : q[i] = c
Distinct(q) == \A i, j \in 1..Len(q) : q[i] = q[j] => i = j
-----------------------------------------------------------------------------
(* The scheduler's state S, with the reports W of its workers.             *)

Control == [exists : BOOLEAN, cancelled : BOOLEAN, terminal : BOOLEAN]
Completion == [command : CommandIds, events : Seq(EventTypes)]
SchedType ==
    [active : [Sessions -> 0..MaxCommands], control : [Sessions -> Control],
     pending : [Sessions -> 0..MaxCommands], suppressed : SUBSET CommandIds,
     queue : Seq(CommandIds), running : SUBSET CommandIds, completions : Seq(Completion)]

\* The places a command may be in.
IsActive(S, c) == S.active[c.session] = c.seq
IsPending(S, c) == S.pending[c.session] = c.seq
IsQueued(S, c) == In(S.queue, c)
IsHeld(S, c) == IsActive(S, c) \/ IsPending(S, c) \/ c \in S.suppressed \/ IsQueued(S, c)
HeldBy(S) == {c \in CommandIds : IsHeld(S, c)}

Working(W, c) == \E w \in W : w.command = c
Reported(S, c) == \E i \in 1..Len(S.completions) : S.completions[i].command = c
ReportedOnce(S) ==
    \A i, j \in 1..Len(S.completions) :
        S.completions[i].command = S.completions[j].command => i = j

\* A command is in one place at most, and once.
Apart(S) ==
    /\ \A c \in CommandIds :
          /\ IsActive(S, c) => ~IsPending(S, c) /\ c \notin S.suppressed /\ ~IsQueued(S, c)
          /\ IsPending(S, c) => c \notin S.suppressed /\ ~IsQueued(S, c)
          /\ c \in S.suppressed => ~IsQueued(S, c)
    /\ Distinct(S.queue)

\* An active command has a worker, its report or its completion, and one of them
\* only; a suppressed one has its completion.
Followed(S, W) ==
    /\ \A c \in CommandIds :
          /\ IsActive(S, c) \/ c \in S.suppressed <=>
                c \in S.running \/ Working(W, c) \/ Reported(S, c)
          /\ c \in S.running \/ Working(W, c) => IsActive(S, c)
          /\ c \in S.running => ~Working(W, c) /\ ~Reported(S, c)
          /\ Working(W, c) => ~Reported(S, c)
    /\ \A v, w \in W : v.command = w.command => v = w
    /\ ReportedOnce(S)

\* What a session's control knows of its commands.
Controlled(S) ==
    /\ \A s \in Sessions :
          /\ ~S.control[s].exists => S.control[s] = NoControl
          /\ S.control[s].cancelled => server[s].cancelled
          /\ S.pending[s] # 0 => S.active[s] # 0 \/ \E c \in S.suppressed : c.session = s
    /\ \A c \in CommandIds :
          /\ IsHeld(S, c) => S.control[c.session].exists
          /\ IsHeld(S, c) /\ IsCancel(c) => S.control[c.session].cancelled
          /\ IsPending(S, c) => IsCancel(c)
          /\ c \in S.suppressed =>
                ~IsCancel(c) /\ S.control[c.session].cancelled /\ S.control[c.session].terminal
          /\ IsQueued(S, c) /\ ~IsCancel(c) => ~S.control[c.session].cancelled

\* A completion of the session tells a terminal fact.
Ends(S, s) ==
    \E i \in 1..Len(S.completions) :
        S.completions[i].command.session = s /\ HasTerminalEvent(S.completions[i].events)

\* A terminal event of the session is on its way to the server, or has arrived;
\* E holds the journaled events.
Told(S, E, s) ==
    \/ server[s].state = "over"
    \/ HasTerminalEvent(E[s])
    \/ Ends(S, s)

Tells(S, E) == \A s \in Sessions : S.control[s].terminal => Told(S, E, s)

\* A cancel that reaches the runtime ends the session there.
CancelAnswers(completion) ==
    IsCancel(completion.command) => HasTerminalEvent(completion.events)
CancelsAnswer(S) == \A i \in 1..Len(S.completions) : CancelAnswers(S.completions[i])

Good(S, W, E) ==
    /\ S \in SchedType
    /\ Apart(S)
    /\ Followed(S, W)
    /\ Controlled(S)
    /\ Tells(S, E)
    /\ CancelsAnswer(S)
    /\ Cardinality(S.running) <= Permits

\* What holds between the steps of the main loop only.
Tidy(S, s) == S.control[s].terminal => S.control[s].cancelled /\ Busy(S, s)
QueueMoves(S, W) == S.queue # << >> => S.running # {} \/ W # {} \/ S.completions # << >>
-----------------------------------------------------------------------------
(* The journal C, and the server.                                          *)

JournalRow == [kind : Kinds, state : States]
Dispatched(C) ==
    {c \in CommandIds : c.seq <= Len(C[c.session])
                         /\ C[c.session][c.seq].state = "dispatch_started"}

\* One command of a session is under way, and beside it at most the cancel, which
\* is the last the server sends.
RowsInv(cs) ==
    /\ Len(cs) <= MaxCommands
    /\ \A n \in 1..Len(cs) :
          /\ cs[n].state = "dispatch_started" /\ cs[n].kind # "cancel" => Expected(cs, n)
          /\ cs[n].kind = "cancel" => n = Len(cs)
JournalInv(C) ==
    /\ C \in [Sessions -> Seq(JournalRow)]
    /\ \A s \in Sessions : RowsInv(C[s])

ServerInv ==
    /\ server \in [Sessions -> [state : {"new", "active", "retrying", "over"},
                                cancelled : BOOLEAN]]
    /\ \A s \in Sessions :
          /\ server[s].cancelled <=> \E n \in 1..Len(commands[s]) : commands[s][n].kind = "cancel"
          /\ server[s].cancelled => server[s].state \in {"active", "over"}

\* A finished cancel was answered.
Answered(S, C, E) ==
    \A s \in Sessions : \A n \in 1..Len(C[s]) :
        C[s][n].kind = "cancel" /\ C[s][n].state = "terminal" => Told(S, E, s)

IInv ==
    /\ Good(sched, workers, emitted)
    /\ \A s \in Sessions : Tidy(sched, s)
    /\ QueueMoves(sched, workers)
    /\ JournalInv(commands)
    /\ HeldBy(sched) = Dispatched(commands)
    /\ ServerInv
    /\ Answered(sched, commands, emitted)
    /\ workers \subseteq Completion
    /\ \A w \in workers : CancelAnswers(w)
    /\ context \in [Sessions -> Contexts]
    /\ emitted \in [Sessions -> Seq(EventTypes)]
-----------------------------------------------------------------------------
(* Numbers, identities and sequences.                                      *)

\* A set of numbers that is not empty has a least one.
LEMMA LeastNumber ==
    ASSUME NEW S \in SUBSET Nat, S # {}
    PROVE  \E x \in S : \A y \in S : x <= y
  <1> DEFINE R == {ss \in Nat \X Nat : ss[1] < ss[2]}
  <1>1. IsWellFoundedOn(R, Nat)
    BY NatLessThanWellFounded DEF OpToRel
  <1> HIDE DEF R
  <1>2. PICK x \in S : \A y \in S : ~(<<y, x>> \in R)
    BY <1>1, WFMin
  <1>3. ASSUME NEW y \in S PROVE x <= y
    <2> DEFINE ss == <<y, x>>
    <2>1. ss \in Nat \X Nat /\ ss[1] = y /\ ss[2] = x
      OBVIOUS
    <2> HIDE DEF ss
    <2>2. y < x => ss \in R
      BY <2>1 DEF R
    <2> QED
      BY <1>2, <2>2 DEF ss
  <1> QED
    BY <1>3

\* A command's identity is its session and its number.
LEMMA Ids ==
    /\ \A c \in CommandIds : c.session \in Sessions /\ c.seq \in 1..MaxCommands /\ c.seq \in Nat
    /\ \A c, d \in CommandIds : c.session = d.session /\ c.seq = d.seq => c = d
    /\ \A s \in Sessions, n \in 1..MaxCommands :
          /\ [session |-> s, seq |-> n] \in CommandIds
          /\ [session |-> s, seq |-> n].session = s
          /\ [session |-> s, seq |-> n].seq = n
    /\ MaxCommands \in Nat /\ Permits \in Nat /\ Permits # 0
BY SchedulerAssumption DEF SchedulerAssumption, CommandIds

\* There are finitely many commands, for there are finitely many sessions.
LEMMA IdsAreFinite == IsFiniteSet(CommandIds)
<1>1. IsFiniteSet(Sessions) /\ IsFiniteSet(1..MaxCommands)
  BY SchedulerAssumption, FS_Interval DEF SchedulerAssumption
<1>2. IsFiniteSet(Sessions \X (1..MaxCommands))
  BY <1>1, FS_Product
<1> DEFINE f == [p \in Sessions \X (1..MaxCommands) |-> [session |-> p[1], seq |-> p[2]]]
<1>3. f \in Surjection(Sessions \X (1..MaxCommands), CommandIds)
  <2>1. \A p \in Sessions \X (1..MaxCommands) : f[p] \in CommandIds
    BY DEF CommandIds
  <2>2. ASSUME NEW c \in CommandIds
        PROVE  \E p \in Sessions \X (1..MaxCommands) : f[p] = c
    <3> DEFINE p == <<c.session, c.seq>>
    <3>1. p \in Sessions \X (1..MaxCommands) /\ p[1] = c.session /\ p[2] = c.seq
      BY Ids
    <3>2. f[p] = [session |-> c.session, seq |-> c.seq]
      BY <3>1
    <3>3. f[p] = c
      BY <3>2 DEF CommandIds
    <3> QED
      BY <3>1, <3>3
  <2> QED
    BY <2>1, <2>2 DEF Surjection
<1> QED
  BY <1>2, <1>3, FS_Surjection

\* Append, element by element.
LEMMA Appended ==
    ASSUME NEW D, NEW q \in Seq(D), NEW e \in D
    PROVE  /\ Append(q, e) \in Seq(D)
           /\ Len(q) \in Nat /\ Len(Append(q, e)) = Len(q) + 1
           /\ \A i \in 1..Len(q) : Append(q, e)[i] = q[i]
           /\ Append(q, e)[Len(q) + 1] = e
           /\ Append(q, e) # << >>
OBVIOUS

\* Concatenation, element by element.
LEMMA Joined ==
    ASSUME NEW D, NEW p \in Seq(D), NEW q \in Seq(D)
    PROVE  /\ p \o q \in Seq(D)
           /\ Len(p) \in Nat /\ Len(q) \in Nat /\ Len(p \o q) = Len(p) + Len(q)
           /\ \A i \in 1..Len(p) : (p \o q)[i] = p[i]
           /\ \A i \in 1..Len(q) : (p \o q)[Len(p) + i] = q[i]
           /\ \A i \in 1..Len(p) + Len(q) :
                 i \in 1..Len(p) \/ \E j \in 1..Len(q) : i = Len(p) + j
<1>1. \A i \in 1..Len(q) : (p \o q)[Len(p) + i] = q[i]
  OBVIOUS
<1>2. ASSUME NEW i \in 1..Len(p) + Len(q), i \notin 1..Len(p)
      PROVE  \E j \in 1..Len(q) : i = Len(p) + j
  <2>1. i - Len(p) \in 1..Len(q) /\ i = Len(p) + (i - Len(p))
    BY <1>2
  <2> QED
    BY <2>1
<1>3. /\ p \o q \in Seq(D) /\ Len(p) \in Nat /\ Len(q) \in Nat
      /\ Len(p \o q) = Len(p) + Len(q)
  OBVIOUS
<1>4. \A i \in 1..Len(p) : (p \o q)[i] = p[i]
  OBVIOUS
<1>5. \A i \in 1..Len(p) + Len(q) :
         i \in 1..Len(p) \/ \E j \in 1..Len(q) : i = Len(p) + j
  BY <1>2
<1> QED
  BY <1>1, <1>3, <1>4, <1>5

\* Tail, element by element.
LEMMA Rest ==
    ASSUME NEW D, NEW q \in Seq(D), q # << >>
    PROVE  /\ Tail(q) \in Seq(D) /\ Len(q) \in Nat /\ Len(Tail(q)) = Len(q) - 1
           /\ Head(q) = q[1] /\ Head(q) \in D /\ 1 \in 1..Len(q)
           /\ \A i \in 1..Len(Tail(q)) : i + 1 \in 1..Len(q) /\ Tail(q)[i] = q[i + 1]
           /\ \A i \in 1..Len(q) : i = 1 \/ (i - 1 \in 1..Len(Tail(q)) /\ Tail(q)[i - 1] = q[i])
OBVIOUS

\* What Append adds, and that it repeats nothing new.
LEMMA AppendIn ==
    ASSUME NEW D, NEW q \in Seq(D), NEW e \in D
    PROVE  \A c : In(Append(q, e), c) <=> In(q, c) \/ c = e
<1> DEFINE r == Append(q, e)
<1>1. /\ Len(q) \in Nat /\ Len(r) = Len(q) + 1
      /\ \A i \in 1..Len(q) : r[i] = q[i] /\ r[Len(q) + 1] = e
  BY Appended
<1> HIDE DEF r
<1> QED
  BY <1>1, Appended DEF In, r

LEMMA AppendDistinct ==
    ASSUME NEW D, NEW q \in Seq(D), NEW e \in D, Distinct(q), ~In(q, e)
    PROVE  Distinct(Append(q, e))
<1> DEFINE r == Append(q, e)
<1>1. /\ Len(q) \in Nat /\ Len(r) = Len(q) + 1
      /\ \A i \in 1..Len(q) : r[i] = q[i]
      /\ r[Len(q) + 1] = e
  BY Appended
<1> HIDE DEF r
<1>2. \A i \in 1..Len(r) : i \in 1..Len(q) \/ i = Len(q) + 1
  BY <1>1
<1>3. ASSUME NEW i \in 1..Len(r), NEW j \in 1..Len(r), r[i] = r[j] PROVE i = j
  BY <1>1, <1>2, <1>3 DEF In, Distinct
<1> QED
  BY <1>3 DEF Distinct, r

\* The same of a concatenation.
LEMMA JoinIn ==
    ASSUME NEW D, NEW p \in Seq(D), NEW q \in Seq(D)
    PROVE  \A c : In(p \o q, c) <=> In(p, c) \/ In(q, c)
<1> DEFINE r == p \o q
<1>1. /\ Len(p) \in Nat /\ Len(q) \in Nat /\ Len(r) = Len(p) + Len(q)
      /\ \A i \in 1..Len(p) : r[i] = p[i]
      /\ \A i \in 1..Len(q) : r[Len(p) + i] = q[i]
      /\ \A i \in 1..Len(r) : i \in 1..Len(p) \/ \E j \in 1..Len(q) : i = Len(p) + j
  BY Joined
<1> HIDE DEF r
<1>2. ASSUME NEW c, In(r, c) PROVE In(p, c) \/ In(q, c)
  <2>1. PICK i \in 1..Len(r) : r[i] = c
    BY <1>2 DEF In
  <2> QED
    BY <1>1, <2>1 DEF In
<1>3. ASSUME NEW c, In(p, c) PROVE In(r, c)
  <2>1. PICK i \in 1..Len(p) : p[i] = c
    BY <1>3 DEF In
  <2>2. i \in 1..Len(r)
    BY <1>1
  <2> QED
    BY <1>1, <2>1, <2>2 DEF In
<1>4. ASSUME NEW c, In(q, c) PROVE In(r, c)
  <2>1. PICK i \in 1..Len(q) : q[i] = c
    BY <1>4 DEF In
  <2>2. Len(p) + i \in 1..Len(r)
    BY <1>1
  <2> QED
    BY <1>1, <2>1, <2>2 DEF In
<1> QED
  BY <1>2, <1>3, <1>4 DEF r

LEMMA JoinDistinct ==
    ASSUME NEW D, NEW p \in Seq(D), NEW q \in Seq(D), Distinct(p), Distinct(q),
           \A c : ~(In(p, c) /\ In(q, c))
    PROVE  Distinct(p \o q)
<1> DEFINE r == p \o q
<1>1. /\ Len(p) \in Nat /\ Len(q) \in Nat /\ Len(r) = Len(p) + Len(q)
      /\ \A i \in 1..Len(p) : r[i] = p[i]
      /\ \A i \in 1..Len(q) : r[Len(p) + i] = q[i]
      /\ \A i \in 1..Len(r) : i \in 1..Len(p) \/ \E j \in 1..Len(q) : i = Len(p) + j
  BY Joined
<1> HIDE DEF r
<1>2. ASSUME NEW i \in 1..Len(r), NEW j \in 1..Len(r), r[i] = r[j] PROVE i = j
  <2>1. CASE i \in 1..Len(p) /\ j \in 1..Len(p)
    BY <1>1, <1>2, <2>1 DEF Distinct
  <2>2. CASE i \in 1..Len(p) /\ j \notin 1..Len(p)
    <3>1. PICK k \in 1..Len(q) : j = Len(p) + k
      BY <1>1, <2>2
    <3>2. p[i] = q[k]
      BY <1>1, <1>2, <2>2, <3>1
    <3>3. In(p, p[i]) /\ In(q, p[i])
      BY <2>2, <3>2 DEF In
    <3> QED
      BY <3>3
  <2>3. CASE i \notin 1..Len(p) /\ j \in 1..Len(p)
    <3>1. PICK k \in 1..Len(q) : i = Len(p) + k
      BY <1>1, <2>3
    <3>2. p[j] = q[k]
      BY <1>1, <1>2, <2>3, <3>1
    <3>3. In(p, p[j]) /\ In(q, p[j])
      BY <2>3, <3>2 DEF In
    <3> QED
      BY <3>3
  <2>4. CASE i \notin 1..Len(p) /\ j \notin 1..Len(p)
    <3>1. PICK k \in 1..Len(q) : i = Len(p) + k
      BY <1>1, <2>4
    <3>2. PICK l \in 1..Len(q) : j = Len(p) + l
      BY <1>1, <2>4
    <3>3. q[k] = q[l]
      BY <1>1, <1>2, <3>1, <3>2
    <3> QED
      BY <3>1, <3>2, <3>3 DEF Distinct
  <2> QED
    BY <2>1, <2>2, <2>3, <2>4
<1> QED
  BY <1>2 DEF Distinct, r
-----------------------------------------------------------------------------
(* remove_queued, item by item.                                            *)

IsPart(q, s, n, f) ==
    f = [i \in 0..n |->
            IF i = 0 THEN [removed |-> << >>, retained |-> << >>]
            ELSE RemoveStep(f[i - 1], q[i], s)]

\* The parts of remove_queued exist for every length of the queue: there is no
\* least one for which they do not.
LEMMA PartsExist ==
    ASSUME NEW q, NEW s, NEW n \in Nat
    PROVE  \E f : IsPart(q, s, n, f)
<1> DEFINE X == {k \in Nat : ~ \E f : IsPart(q, s, k, f)}
<1>1. SUFFICES ASSUME X # {} PROVE FALSE
  OBVIOUS
<1>2. PICK k \in X : \A m \in X : k <= m
  BY <1>1, LeastNumber
<1>3. k # 0
  <2>1. IsPart(q, s, 0, [i \in 0..0 |-> [removed |-> << >>, retained |-> << >>]])
    BY DEF IsPart
  <2> QED
    BY <2>1
<1>4. k - 1 \in Nat /\ k - 1 \notin X
  BY <1>2, <1>3
<1>5. PICK f : IsPart(q, s, k - 1, f)
  BY <1>4
<1> DEFINE g == [i \in 0..k |-> IF i = k THEN RemoveStep(f[k - 1], q[k], s) ELSE f[i]]
<1>6. \A i \in 0..k :
         g[i] = IF i = 0 THEN [removed |-> << >>, retained |-> << >>]
                ELSE RemoveStep(g[i - 1], q[i], s)
  BY <1>3, <1>5 DEF IsPart
<1>7. IsPart(q, s, k, g)
  <2> g = [i \in 0..k |-> g[i]]
    OBVIOUS
  <2> HIDE DEF g
  <2> QED
    BY <1>6 DEF IsPart
<1> QED
  BY <1>7

\* After i items: each of them is in one part, in its place.
PartOf(q, s, i, p) ==
    /\ p \in [removed : Seq(CommandIds), retained : Seq(CommandIds)]
    /\ Distinct(p.removed) /\ Distinct(p.retained)
    /\ \A c \in CommandIds :
          /\ In(p.removed, c) <=> c.session = s /\ \E j \in 1..i : q[j] = c
          /\ In(p.retained, c) <=> c.session # s /\ \E j \in 1..i : q[j] = c

\* Each item goes to the commands of the session or to the others.
LEMMA PartStep ==
    ASSUME NEW q \in Seq(CommandIds), Distinct(q), NEW s, NEW k \in 1..Len(q), NEW p,
           PartOf(q, s, k - 1, p)
    PROVE  PartOf(q, s, k, RemoveStep(p, q[k], s))
<1>1. q[k] \in CommandIds /\ k \in Nat /\ k - 1 \in Nat
  OBVIOUS
<1>2. \A j \in 1..k - 1 : q[j] # q[k]
  BY <1>1 DEF Distinct
<1>3. \A c : (\E j \in 1..k : q[j] = c) <=> c = q[k] \/ \E j \in 1..k - 1 : q[j] = c
  BY <1>1
<1>4. /\ p.removed \in Seq(CommandIds) /\ p.retained \in Seq(CommandIds)
      /\ p \in [removed : Seq(CommandIds), retained : Seq(CommandIds)]
      /\ Distinct(p.removed) /\ Distinct(p.retained)
      /\ ~In(p.removed, q[k]) /\ ~In(p.retained, q[k])
  BY <1>1, <1>2 DEF PartOf
<1>5. CASE q[k].session = s
  <2> DEFINE r == Append(p.removed, q[k])
             t == [removed |-> r, retained |-> p.retained]
  <2>1. RemoveStep(p, q[k], s) = t
    BY <1>4, <1>5 DEF RemoveStep
  <2>2. r \in Seq(CommandIds) /\ Distinct(r) /\ \A c : In(r, c) <=> In(p.removed, c) \/ c = q[k]
    BY <1>1, <1>4, Appended, AppendIn, AppendDistinct
  <2> HIDE DEF r
  <2>3. PartOf(q, s, k, t)
    BY <1>1, <1>3, <1>4, <1>5, <2>2 DEF PartOf
  <2> QED
    BY <2>1, <2>3
<1>6. CASE q[k].session # s
  <2> DEFINE r == Append(p.retained, q[k])
             t == [removed |-> p.removed, retained |-> r]
  <2>1. RemoveStep(p, q[k], s) = t
    BY <1>4, <1>6 DEF RemoveStep
  <2>2. r \in Seq(CommandIds) /\ Distinct(r) /\ \A c : In(r, c) <=> In(p.retained, c) \/ c = q[k]
    BY <1>1, <1>4, Appended, AppendIn, AppendDistinct
  <2> HIDE DEF r
  <2>3. PartOf(q, s, k, t)
    BY <1>1, <1>3, <1>4, <1>6, <2>2 DEF PartOf
  <2> QED
    BY <2>1, <2>3
<1> QED
  BY <1>5, <1>6

\* remove_queued splits the queue by session.
LEMMA Removed ==
    ASSUME NEW q \in Seq(CommandIds), Distinct(q), NEW s
    PROVE  PartOf(q, s, Len(q), RemoveQueued(q, s))
<1>0. Len(q) \in Nat
  OBVIOUS
<1> DEFINE f == CHOOSE f : IsPart(q, s, Len(q), f)
<1>1. IsPart(q, s, Len(q), f)
  BY <1>0, PartsExist
<1>2. RemoveQueued(q, s) = f[Len(q)]
  BY DEF RemoveQueued, IsPart
<1> HIDE DEF f
<1> DEFINE X == {i \in 0..Len(q) : ~PartOf(q, s, i, f[i])}
<1>3. SUFFICES X = {}
  BY <1>0, <1>2
<1>4. SUFFICES ASSUME X # {} PROVE FALSE
  OBVIOUS
<1>5. PICK k \in X : \A m \in X : k <= m
  <2>1. X \in SUBSET Nat
    BY <1>0
  <2> HIDE DEF X
  <2> QED
    BY <1>4, <2>1, LeastNumber
<1>6. k # 0
  <2>1. f[0] = [removed |-> << >>, retained |-> << >>]
    BY <1>0, <1>1 DEF IsPart
  <2>2. PartOf(q, s, 0, f[0])
    BY <2>1 DEF PartOf, In, Distinct
  <2> QED
    BY <1>5, <2>2
<1>7. k \in 1..Len(q) /\ k - 1 \in 0..Len(q) /\ PartOf(q, s, k - 1, f[k - 1])
  BY <1>0, <1>5, <1>6
<1>8. f[k] = RemoveStep(f[k - 1], q[k], s)
  BY <1>1, <1>7 DEF IsPart
<1>9. PartOf(q, s, k, f[k])
  BY <1>7, <1>8, PartStep
<1> QED
  BY <1>5, <1>9
-----------------------------------------------------------------------------
(* drain_queue, item by item.                                              *)

\* The first state of a round, and what follows from it, item by item.
RoundStart(S) == [state |-> [S EXCEPT !.queue = << >>], over |-> FALSE,
                  front |-> << >>, back |-> << >>]
IsRound(S, n, f) ==
    f = [i \in 0..n |-> IF i = 0 THEN RoundStart(S) ELSE DrainStep(f[i - 1], S.queue[i])]

\* The same of the rounds of drain_queue.
LEMMA RoundsExist ==
    ASSUME NEW S, NEW n \in Nat
    PROVE  \E f : IsRound(S, n, f)
<1> DEFINE X == {k \in Nat : ~ \E f : IsRound(S, k, f)}
<1>1. SUFFICES ASSUME X # {} PROVE FALSE
  OBVIOUS
<1>2. PICK k \in X : \A m \in X : k <= m
  BY <1>1, LeastNumber
<1>3. k # 0
  <2>1. IsRound(S, 0, [i \in 0..0 |-> RoundStart(S)])
    BY DEF IsRound
  <2> QED
    BY <2>1
<1>4. k - 1 \in Nat /\ k - 1 \notin X
  BY <1>2, <1>3
<1>5. PICK f : IsRound(S, k - 1, f)
  BY <1>4
<1> DEFINE g == [i \in 0..k |-> IF i = k THEN DrainStep(f[k - 1], S.queue[k]) ELSE f[i]]
<1>6. \A i \in 0..k : g[i] = IF i = 0 THEN RoundStart(S) ELSE DrainStep(g[i - 1], S.queue[i])
  BY <1>3, <1>5 DEF IsRound
<1>7. IsRound(S, k, g)
  <2> g = [i \in 0..k |-> g[i]]
    OBVIOUS
  <2> HIDE DEF g
  <2> QED
    BY <1>6 DEF IsRound
<1> QED
  BY <1>7

\* DrainQueue takes the last round.
LEMMA DrainIsRound ==
    ASSUME NEW S, Len(S.queue) \in Nat
    PROVE  \E f : /\ IsRound(S, Len(S.queue), f)
                  /\ DrainQueue(S) = [f[Len(S.queue)].state EXCEPT !.queue =
                        f[Len(S.queue)].front \o f[Len(S.queue)].back]
<1> DEFINE F == CHOOSE f : IsRound(S, Len(S.queue), f)
<1>1. IsRound(S, Len(S.queue), F)
  BY RoundsExist
<1>2. DrainQueue(S) = [F[Len(S.queue)].state EXCEPT !.queue =
                        F[Len(S.queue)].front \o F[Len(S.queue)].back]
  BY DEF DrainQueue, IsRound, RoundStart
<1> QED
  BY <1>1, <1>2
-----------------------------------------------------------------------------
(* The scheduler's state, field by field.                                  *)

\* The types of the fields.
LEMMA Fields ==
    ASSUME NEW S \in SchedType
    PROVE  /\ S.active \in [Sessions -> 0..MaxCommands] /\ S.pending \in [Sessions -> 0..MaxCommands]
           /\ S.control \in [Sessions -> Control]
           /\ S.suppressed \subseteq CommandIds /\ S.running \subseteq CommandIds
           /\ S.queue \in Seq(CommandIds) /\ S.completions \in Seq(Completion)
           /\ Len(S.queue) \in Nat /\ Len(S.completions) \in Nat
BY DEF SchedType

LEMMA ControlFields ==
    ASSUME NEW S \in SchedType, NEW s \in Sessions
    PROVE  /\ S.control[s] \in Control
           /\ S.control[s].exists \in BOOLEAN /\ S.control[s].cancelled \in BOOLEAN
           /\ S.control[s].terminal \in BOOLEAN
BY Fields DEF Control

\* A session has something active when one of its commands is.
LEMMA ActiveIsACommand ==
    ASSUME NEW S \in SchedType, NEW s \in Sessions
    PROVE  /\ S.active[s] # 0 <=> \E c \in CommandIds : c.session = s /\ IsActive(S, c)
           /\ S.pending[s] # 0 <=> \E c \in CommandIds : c.session = s /\ IsPending(S, c)
<1> DEFINE a == [session |-> s, seq |-> S.active[s]]
           b == [session |-> s, seq |-> S.pending[s]]
<1>1. S.active[s] \in 0..MaxCommands /\ S.pending[s] \in 0..MaxCommands /\ MaxCommands \in Nat
  BY Fields, Ids
<1>2. S.active[s] # 0 => a \in CommandIds /\ a.session = s /\ IsActive(S, a)
  BY <1>1, Ids DEF IsActive
<1>3. S.pending[s] # 0 => b \in CommandIds /\ b.session = s /\ IsPending(S, b)
  BY <1>1, Ids DEF IsPending
<1>4. \A c \in CommandIds : c.session = s /\ IsActive(S, c) => S.active[s] # 0
  BY Ids DEF IsActive
<1>5. \A c \in CommandIds : c.session = s /\ IsPending(S, c) => S.pending[s] # 0
  BY Ids DEF IsPending
<1> QED
  BY <1>2, <1>3, <1>4, <1>5

\* Busy says that something of the session is held.
LEMMA BusyIsHeld ==
    ASSUME NEW S \in SchedType, NEW s \in Sessions
    PROVE  Busy(S, s) <=> \E c \in CommandIds : c.session = s /\ IsHeld(S, c)
<1>1. \A c \in S.suppressed : c \in CommandIds
  BY Fields
<1>2. DOMAIN S.queue = 1..Len(S.queue) /\ \A i \in 1..Len(S.queue) : S.queue[i] \in CommandIds
  BY Fields
<1>3. (\E i \in DOMAIN S.queue : S.queue[i].session = s)
         <=> \E c \in CommandIds : c.session = s /\ IsQueued(S, c)
  BY <1>2 DEF IsQueued, In
<1> QED
  BY <1>1, <1>3, ActiveIsACommand DEF Busy, IsHeld
-----------------------------------------------------------------------------
(* Runtimes are spawned: those in N, from outside or from the queue.       *)

\* T is S with the commands of N active and running, and no longer queued.
LEMMA Spawned ==
    ASSUME NEW S, NEW W, NEW E, Good(S, W, E), NEW T \in SchedType,
           NEW N \in SUBSET CommandIds,
           T.control = S.control, T.pending = S.pending, T.suppressed = S.suppressed,
           T.completions = S.completions, T.running = S.running \cup N,
           \A c \in CommandIds : IsActive(T, c) <=> IsActive(S, c) \/ c \in N,
           \A c \in N : /\ ~IsActive(S, c) /\ ~IsPending(S, c) /\ c \notin S.suppressed
                        /\ ~IsQueued(T, c)
                        /\ S.control[c.session].exists
                        /\ IsCancel(c) => S.control[c.session].cancelled,
           \A c \in CommandIds : IsQueued(T, c) => IsQueued(S, c),
           Distinct(T.queue), Cardinality(T.running) <= Permits
    PROVE  Good(T, W, E)
<1>1. S \in SchedType /\ Apart(S) /\ Followed(S, W) /\ Controlled(S) /\ Tells(S, E) /\ CancelsAnswer(S)
  BY DEF Good
<1>2. \A c : IsPending(T, c) <=> IsPending(S, c)
  BY DEF IsPending
<1>3. Apart(T)
  BY <1>1, <1>2 DEF Apart
<1>4. \A c : Reported(T, c) <=> Reported(S, c)
  BY DEF Reported
<1>5. Followed(T, W)
  BY <1>1, <1>4 DEF Followed, ReportedOnce
<1>6. \A c \in CommandIds : IsHeld(T, c) => IsHeld(S, c) \/ c \in N
  BY <1>2 DEF IsHeld
<1>7. \A s \in Sessions : S.active[s] # 0 => T.active[s] # 0
  BY <1>1, ActiveIsACommand
<1>8. Controlled(T)
  BY <1>1, <1>2, <1>6, <1>7 DEF Controlled
<1>9. \A s : Told(T, E, s) <=> Told(S, E, s)
  BY DEF Told, Ends
<1>10. Tells(T, E) /\ CancelsAnswer(T)
  BY <1>1, <1>9 DEF Tells, CancelsAnswer
<1> QED
  BY <1>3, <1>5, <1>8, <1>10 DEF Good

\* A command that is held nowhere yet.
Loose(S, c) == c \in CommandIds /\ ~IsHeld(S, c)

\* What the scheduler does with a command c of session s leaves the rest alone: T
\* holds what S holds and c, and other sessions keep their control.
Takes(S, T, c) ==
    /\ \A d \in CommandIds : IsHeld(T, d) <=> IsHeld(S, d) \/ d = c
    /\ \A t \in Sessions \ {c.session} : T.control[t] = S.control[t]
    /\ S.control[c.session].cancelled => T.control[c.session].cancelled
    /\ S.control[c.session].terminal => T.control[c.session].terminal
    /\ \A t \in Sessions : Ends(S, t) => Ends(T, t)

\* spawn_runtime, for a session with nothing active and a permit that is free.
LEMMA SpawnGood ==
    ASSUME NEW S, NEW W, NEW E, Good(S, W, E), NEW c, Loose(S, c),
           S.active[c.session] = 0, FreePermit(S), S.control[c.session].exists,
           IsCancel(c) => S.control[c.session].cancelled
    PROVE  /\ Good(Spawn(S, c), W, E)
           /\ Takes(S, Spawn(S, c), c)
           /\ Spawn(S, c).control = S.control
           /\ QueueMoves(Spawn(S, c), W)
<1> DEFINE T == Spawn(S, c)
<1>1. S \in SchedType /\ c \in CommandIds /\ c.session \in Sessions /\ c.seq \in 1..MaxCommands
  BY Ids DEF Good, Loose
<1>2. /\ T \in SchedType
      /\ T.active = [S.active EXCEPT ![c.session] = c.seq] /\ T.running = S.running \cup {c}
      /\ T.control = S.control /\ T.pending = S.pending /\ T.suppressed = S.suppressed
      /\ T.completions = S.completions /\ T.queue = S.queue
  <2>1. c.seq \in 0..MaxCommands
    BY <1>1, Ids
  <2>2. [S.active EXCEPT ![c.session] = c.seq] \in [Sessions -> 0..MaxCommands]
    BY <1>1, <2>1, Fields
  <2>3. S.running \cup {c} \in SUBSET CommandIds
    BY <1>1, Fields
  <2> QED
    BY <1>1, <2>2, <2>3 DEF Spawn, SchedType
<1> HIDE DEF T
<1>3. \A d \in CommandIds : IsActive(T, d) <=> IsActive(S, d) \/ d \in {c}
  BY <1>1, <1>2, Ids, Fields DEF IsActive
<1>4. /\ ~IsActive(S, c) /\ ~IsPending(S, c) /\ c \notin S.suppressed /\ ~IsQueued(T, c)
      /\ \A d : IsQueued(T, d) <=> IsQueued(S, d)
      /\ \A d : IsPending(T, d) <=> IsPending(S, d)
  BY <1>2 DEF Loose, IsHeld, IsQueued, IsPending
<1>5. Cardinality(T.running) <= Permits
  <2>1. IsFiniteSet(S.running)
    BY <1>1, Fields, IdsAreFinite, FS_Subset
  <2>2. Cardinality(S.running) \in Nat /\ Cardinality(S.running) < Permits
    BY <2>1, FS_CardinalityType DEF FreePermit
  <2>3. c \notin S.running
    BY <1>1, <1>4 DEF Good, Followed
  <2>4. Cardinality(T.running) = Cardinality(S.running) + 1
    BY <1>2, <2>1, <2>3, FS_AddElement
  <2> QED
    BY <2>2, <2>4, Ids
<1>6. Distinct(T.queue)
  BY <1>2 DEF Good, Apart
<1>7. Good(T, W, E)
  <2> DEFINE N == {c}
  <2>1. N \in SUBSET CommandIds /\ T.running = S.running \cup N
    BY <1>1, <1>2
  <2>2. \A d \in N : /\ ~IsActive(S, d) /\ ~IsPending(S, d) /\ d \notin S.suppressed
                     /\ ~IsQueued(T, d)
                     /\ S.control[d.session].exists
                     /\ IsCancel(d) => S.control[d.session].cancelled
    BY <1>4
  <2>3. \A d \in CommandIds : IsActive(T, d) <=> IsActive(S, d) \/ d \in N
    BY <1>3
  <2>4. \A d \in CommandIds : IsQueued(T, d) => IsQueued(S, d)
    BY <1>4
  <2> HIDE DEF N
  <2> QED
    BY <1>2, <1>5, <1>6, <2>1, <2>2, <2>3, <2>4, Spawned
<1>8. Takes(S, T, c)
  BY <1>2, <1>3, <1>4 DEF Takes, IsHeld, Ends
<1>9. QueueMoves(T, W)
  BY <1>2 DEF QueueMoves
<1> QED
  BY <1>2, <1>7, <1>8, <1>9 DEF T

\* push_back, of a command that finds its session active or no permit.
LEMMA EnqueueGood ==
    ASSUME NEW S, NEW W, NEW E, Good(S, W, E), NEW c, Loose(S, c),
           S.active[c.session] # 0 \/ ~FreePermit(S), S.control[c.session].exists,
           IsCancel(c) <=> S.control[c.session].cancelled
    PROVE  /\ Good(Enqueue(S, c), W, E)
           /\ Takes(S, Enqueue(S, c), c)
           /\ Enqueue(S, c).control = S.control
           /\ QueueMoves(Enqueue(S, c), W)
<1> DEFINE T == Enqueue(S, c)
<1>0. S \in SchedType /\ Apart(S) /\ Followed(S, W) /\ Controlled(S) /\ Tells(S, E) /\ CancelsAnswer(S)
  BY DEF Good
<1>1. /\ S.queue \in Seq(CommandIds) /\ c \in CommandIds /\ c.session \in Sessions
      /\ ~IsQueued(S, c) /\ ~IsActive(S, c) /\ ~IsPending(S, c) /\ c \notin S.suppressed
  BY <1>0, Ids, Fields DEF Loose, IsHeld
<1>2. /\ T \in SchedType /\ T.queue = Append(S.queue, c)
      /\ T.active = S.active /\ T.running = S.running
      /\ T.control = S.control /\ T.pending = S.pending /\ T.suppressed = S.suppressed
      /\ T.completions = S.completions
  BY <1>0, <1>1, Appended DEF Enqueue, SchedType
<1> HIDE DEF T
<1>3. /\ \A d : IsQueued(T, d) <=> IsQueued(S, d) \/ d = c
      /\ Distinct(T.queue)
  BY <1>0, <1>1, <1>2, AppendIn, AppendDistinct DEF IsQueued, Apart
<1>4. /\ \A d : IsActive(T, d) <=> IsActive(S, d)
      /\ \A d : IsPending(T, d) <=> IsPending(S, d)
      /\ \A d : Reported(T, d) <=> Reported(S, d)
      /\ \A d : IsHeld(T, d) <=> IsHeld(S, d) \/ d = c
  BY <1>2, <1>3 DEF IsActive, IsPending, Reported, IsHeld
<1>5. Apart(T)
  BY <1>0, <1>1, <1>2, <1>3, <1>4 DEF Apart
<1>6. Followed(T, W)
  BY <1>0, <1>2, <1>4 DEF Followed, ReportedOnce
<1>7. Controlled(T)
  BY <1>0, <1>1, <1>2, <1>3, <1>4 DEF Controlled
<1>8. Tells(T, E) /\ CancelsAnswer(T)
  BY <1>0, <1>2 DEF Tells, Told, Ends, CancelsAnswer
<1>9. Good(T, W, E)
  BY <1>2, <1>5, <1>6, <1>7, <1>8 DEF Good
<1>10. Takes(S, T, c)
  BY <1>2, <1>4 DEF Takes, Ends
<1>11. QueueMoves(T, W)
  <2>1. CASE ~FreePermit(S)
    <3>1. S.running # {}
      BY <2>1, Ids, FS_EmptySet DEF FreePermit
    <3> QED
      BY <1>2, <3>1 DEF QueueMoves
  <2>2. CASE S.active[c.session] # 0
    <3>1. PICK d \in CommandIds : IsActive(S, d)
      BY <1>0, <1>1, <2>2, ActiveIsACommand
    <3>2. d \in S.running \/ Working(W, d) \/ Reported(S, d)
      BY <1>0, <3>1 DEF Followed
    <3>3. Reported(S, d) => S.completions # << >>
      BY DEF Reported
    <3> QED
      BY <1>2, <3>2, <3>3 DEF QueueMoves, Working
  <2> QED
    BY <2>1, <2>2
<1> QED
  BY <1>2, <1>9, <1>10, <1>11 DEF T
-----------------------------------------------------------------------------
(* Commands r of session s are suppressed.                                 *)

\* The completions of suppressed commands.
Suppressions(S, s, r) ==
    [i \in 1..Len(r) |-> [command |-> r[i],
        events |-> IF i > 1 \/ S.control[s].terminal THEN << >> ELSE <<"completed">>]]

\* They are one for each command, and the first alone may tell a terminal fact.
LEMMA SuppressionsAre ==
    ASSUME NEW S, NEW s, NEW r \in Seq(CommandIds)
    PROVE  /\ Suppressions(S, s, r) \in Seq(Completion) /\ Len(Suppressions(S, s, r)) = Len(r)
           /\ \A i \in 1..Len(r) : Suppressions(S, s, r)[i].command = r[i]
           /\ r # << >> /\ ~S.control[s].terminal =>
                 1 \in 1..Len(r) /\ HasTerminalEvent(Suppressions(S, s, r)[1].events)
<1>1. <<"completed">> \in Seq(EventTypes) /\ << >> \in Seq(EventTypes)
  BY DEF EventTypes
<1>2. \A i \in 1..Len(r) : r[i] \in CommandIds
  OBVIOUS
<1> DEFINE ev(i) == IF i > 1 \/ S.control[s].terminal THEN << >> ELSE <<"completed">>
           row(i) == [command |-> r[i], events |-> ev(i)]
<1>3. \A i \in 1..Len(r) : ev(i) \in Seq(EventTypes)
  BY <1>1
<1>4. HasTerminalEvent(<<"completed">>)
  BY DEF HasTerminalEvent
<1>5. ~S.control[s].terminal => HasTerminalEvent(ev(1))
  BY <1>4
<1> HIDE DEF ev
<1>6. \A i \in 1..Len(r) : row(i) \in Completion /\ row(i).command = r[i] /\ row(i).events = ev(i)
  BY <1>2, <1>3 DEF Completion
<1> HIDE DEF row
<1>7. Suppressions(S, s, r) = [i \in 1..Len(r) |-> row(i)]
  BY DEF Suppressions, row, ev
<1>8. Len(r) \in Nat /\ (r # << >> => 1 \in 1..Len(r))
  OBVIOUS
<1>9. [i \in 1..Len(r) |-> row(i)] \in Seq(Completion) /\ Len([i \in 1..Len(r) |-> row(i)]) = Len(r)
  BY <1>6, <1>8
<1> QED
  BY <1>5, <1>6, <1>7, <1>8, <1>9

\* What more completions add.
LEMMA MoreCompletions ==
    ASSUME NEW S \in SchedType, NEW T \in SchedType, NEW more \in Seq(Completion),
           T.completions = S.completions \o more
    PROVE  /\ \A c : Reported(T, c) <=> Reported(S, c) \/ \E i \in 1..Len(more) : more[i].command = c
           /\ \A s : Ends(T, s) <=> Ends(S, s) \/ \E i \in 1..Len(more) :
                 more[i].command.session = s /\ HasTerminalEvent(more[i].events)
           /\ CancelsAnswer(S) /\ (\A i \in 1..Len(more) : CancelAnswers(more[i])) => CancelsAnswer(T)
           /\ /\ ReportedOnce(S)
              /\ \A i, j \in 1..Len(more) : more[i].command = more[j].command => i = j
              /\ \A i \in 1..Len(more) : ~Reported(S, more[i].command)
              => ReportedOnce(T)
<1> DEFINE p == S.completions
           q == T.completions
<1>1. /\ p \in Seq(Completion) /\ q = p \o more
      /\ Len(p) \in Nat /\ Len(more) \in Nat /\ Len(q) = Len(p) + Len(more)
      /\ \A i \in 1..Len(p) : q[i] = p[i] /\ i \in 1..Len(q)
      /\ \A i \in 1..Len(more) : q[Len(p) + i] = more[i] /\ Len(p) + i \in 1..Len(q)
      /\ \A i \in 1..Len(q) : i \in 1..Len(p) \/ \E j \in 1..Len(more) : i = Len(p) + j
  <2>1. p \in Seq(Completion) /\ q = p \o more
    BY Fields
  <2> HIDE DEF p, q
  <2>2. /\ Len(p) \in Nat /\ Len(more) \in Nat /\ Len(q) = Len(p) + Len(more)
        /\ \A i \in 1..Len(p) : q[i] = p[i]
        /\ \A i \in 1..Len(more) : q[Len(p) + i] = more[i]
        /\ \A i \in 1..Len(q) : i \in 1..Len(p) \/ \E j \in 1..Len(more) : i = Len(p) + j
    BY <2>1, Joined
  <2>3. \A i \in 1..Len(p) : i \in 1..Len(q)
    BY <2>2
  <2>4. \A i \in 1..Len(more) : Len(p) + i \in 1..Len(q)
    BY <2>2
  <2> QED
    BY <2>1, <2>2, <2>3, <2>4
<1>2. /\ \A c : Reported(S, c) <=> \E i \in 1..Len(p) : p[i].command = c
      /\ \A c : Reported(T, c) <=> \E i \in 1..Len(q) : q[i].command = c
  BY DEF Reported
<1>3. /\ \A s : Ends(S, s) <=> \E i \in 1..Len(p) :
                 p[i].command.session = s /\ HasTerminalEvent(p[i].events)
      /\ \A s : Ends(T, s) <=> \E i \in 1..Len(q) :
                 q[i].command.session = s /\ HasTerminalEvent(q[i].events)
  BY DEF Ends
<1>4. /\ CancelsAnswer(S) <=> \A i \in 1..Len(p) : CancelAnswers(p[i])
      /\ CancelsAnswer(T) <=> \A i \in 1..Len(q) : CancelAnswers(q[i])
  BY DEF CancelsAnswer
<1>5. /\ ReportedOnce(S) <=> \A i, j \in 1..Len(p) : p[i].command = p[j].command => i = j
      /\ ReportedOnce(T) <=> \A i, j \in 1..Len(q) : q[i].command = q[j].command => i = j
  BY DEF ReportedOnce
<1> HIDE DEF p, q
<1>6. \A c : Reported(T, c) <=> Reported(S, c) \/ \E i \in 1..Len(more) : more[i].command = c
  <2>1. ASSUME NEW c, Reported(T, c)
        PROVE  Reported(S, c) \/ \E i \in 1..Len(more) : more[i].command = c
    <3>1. PICK i \in 1..Len(q) : q[i].command = c
      BY <1>2, <2>1
    <3> QED
      BY <1>1, <1>2, <3>1
  <2>2. ASSUME NEW c, NEW i \in 1..Len(p), p[i].command = c PROVE Reported(T, c)
    BY <1>1, <1>2, <2>2
  <2>3. ASSUME NEW c, NEW i \in 1..Len(more), more[i].command = c PROVE Reported(T, c)
    BY <1>1, <1>2, <2>3
  <2> QED
    BY <1>2, <2>1, <2>2, <2>3
<1>7. \A s : Ends(T, s) <=> Ends(S, s) \/ \E i \in 1..Len(more) :
                 more[i].command.session = s /\ HasTerminalEvent(more[i].events)
  <2> DEFINE ends(e, s) == e.command.session = s /\ HasTerminalEvent(e.events)
  <2>0. /\ \A s : Ends(S, s) <=> \E i \in 1..Len(p) : ends(p[i], s)
        /\ \A s : Ends(T, s) <=> \E i \in 1..Len(q) : ends(q[i], s)
    BY <1>3
  <2> SUFFICES \A s : Ends(T, s) <=> Ends(S, s) \/ \E i \in 1..Len(more) : ends(more[i], s)
    OBVIOUS
  <2> HIDE DEF ends
  <2>1. ASSUME NEW s, Ends(T, s)
        PROVE  Ends(S, s) \/ \E i \in 1..Len(more) : ends(more[i], s)
    <3>1. PICK i \in 1..Len(q) : ends(q[i], s)
      BY <2>0, <2>1
    <3> QED
      BY <1>1, <2>0, <3>1
  <2>2. ASSUME NEW s, NEW i \in 1..Len(p), ends(p[i], s) PROVE Ends(T, s)
    BY <1>1, <2>0, <2>2
  <2>3. ASSUME NEW s, NEW i \in 1..Len(more), ends(more[i], s) PROVE Ends(T, s)
    BY <1>1, <2>0, <2>3
  <2> QED
    BY <2>0, <2>1, <2>2, <2>3
<1>8. CancelsAnswer(S) /\ (\A i \in 1..Len(more) : CancelAnswers(more[i])) => CancelsAnswer(T)
  BY <1>1, <1>4
<1>9. ASSUME ReportedOnce(S),
             \A i, j \in 1..Len(more) : more[i].command = more[j].command => i = j,
             \A i \in 1..Len(more) : ~Reported(S, more[i].command)
      PROVE  ReportedOnce(T)
  <2>1. ASSUME NEW i \in 1..Len(q), NEW j \in 1..Len(q), q[i].command = q[j].command
        PROVE  i = j
    <3>1. CASE i \in 1..Len(p) /\ j \in 1..Len(p)
      BY <1>1, <1>5, <1>9, <2>1, <3>1
    <3>2. CASE i \in 1..Len(p) /\ j \notin 1..Len(p)
      <4>1. PICK k \in 1..Len(more) : j = Len(p) + k
        BY <1>1, <3>2
      <4>2. p[i].command = more[k].command
        BY <1>1, <2>1, <3>2, <4>1
      <4> QED
        BY <1>2, <1>9, <3>2, <4>2
    <3>3. CASE i \notin 1..Len(p) /\ j \in 1..Len(p)
      <4>1. PICK k \in 1..Len(more) : i = Len(p) + k
        BY <1>1, <3>3
      <4>2. p[j].command = more[k].command
        BY <1>1, <2>1, <3>3, <4>1
      <4> QED
        BY <1>2, <1>9, <3>3, <4>2
    <3>4. CASE i \notin 1..Len(p) /\ j \notin 1..Len(p)
      <4>1. PICK k \in 1..Len(more) : i = Len(p) + k
        BY <1>1, <3>4
      <4>2. PICK l \in 1..Len(more) : j = Len(p) + l
        BY <1>1, <3>4
      <4>3. more[k].command = more[l].command
        BY <1>1, <2>1, <4>1, <4>2
      <4> QED
        BY <1>9, <4>1, <4>2, <4>3
    <3> QED
      BY <3>1, <3>2, <3>3, <3>4
  <2> QED
    BY <1>5, <2>1
<1> QED
  BY <1>6, <1>7, <1>8, <1>9

\* SuppressAll, field by field.
LEMMA SuppressFields ==
    ASSUME NEW S \in SchedType, NEW s \in Sessions, NEW r \in Seq(CommandIds)
    PROVE  /\ SuppressAll(S, s, r) \in SchedType
           /\ SuppressAll(S, s, r).active = S.active /\ SuppressAll(S, s, r).pending = S.pending
           /\ SuppressAll(S, s, r).queue = S.queue /\ SuppressAll(S, s, r).running = S.running
           /\ \A c : c \in SuppressAll(S, s, r).suppressed <=> c \in S.suppressed \/ In(r, c)
           /\ SuppressAll(S, s, r).completions = S.completions \o Suppressions(S, s, r)
           /\ \A t \in Sessions \ {s} : SuppressAll(S, s, r).control[t] = S.control[t]
           /\ SuppressAll(S, s, r).control[s].exists = S.control[s].exists
           /\ SuppressAll(S, s, r).control[s].cancelled = S.control[s].cancelled
           /\ SuppressAll(S, s, r).control[s].terminal <=> S.control[s].terminal \/ r # << >>
<1> DEFINE T == SuppressAll(S, s, r)
           more == Suppressions(S, s, r)
           flag == S.control[s].terminal \/ r # << >>
           new == [S.control[s] EXCEPT !.terminal = flag]
<1>1. new \in Control /\ new.exists = S.control[s].exists /\ new.cancelled = S.control[s].cancelled
  BY ControlFields DEF Control
<1>2. new.terminal <=> flag
  BY ControlFields DEF Control
<1>3. S.completions \o more \in Seq(Completion)
  BY Fields, SuppressionsAre, Joined
<1>4. T = [S EXCEPT !.suppressed = S.suppressed \cup ToSet(r), !.control = [S.control EXCEPT ![s] = new],
                    !.completions = S.completions \o more]
  BY DEF SuppressAll, Suppressions
<1> HIDE DEF new, more
<1>5. [S.control EXCEPT ![s] = new] \in [Sessions -> Control]
  BY <1>1, Fields
<1>6. /\ \A c : c \in ToSet(r) <=> In(r, c)
      /\ \A c \in ToSet(r) : c \in CommandIds
  BY DEF ToSet, In
<1>7. S.suppressed \cup ToSet(r) \in SUBSET CommandIds
  BY <1>6, Fields
<1> HIDE DEF T
<1>8. /\ T \in SchedType /\ T.active = S.active /\ T.pending = S.pending /\ T.queue = S.queue
      /\ T.running = S.running /\ T.suppressed = S.suppressed \cup ToSet(r)
      /\ T.completions = S.completions \o more /\ T.control = [S.control EXCEPT ![s] = new]
  BY <1>3, <1>4, <1>5, <1>7 DEF SchedType
<1>9. T.control[s] = new /\ \A t \in Sessions \ {s} : T.control[t] = S.control[t]
  BY <1>8, Fields
<1>10. T.control[s].terminal <=> S.control[s].terminal \/ r # << >>
  BY <1>2, <1>9
<1> QED
  BY <1>1, <1>6, <1>8, <1>9, <1>10 DEF T, more

\* Commands of a cancelled session that are held nowhere else are suppressed.
LEMMA SuppressGood ==
    ASSUME NEW S, NEW W, NEW E, Good(S, W, E), NEW s \in Sessions, NEW r \in Seq(CommandIds),
           Distinct(r), \A c : In(r, c) => c.session = s /\ ~IsCancel(c) /\ ~IsHeld(S, c),
           S.control[s].exists, S.control[s].cancelled
    PROVE  LET T == SuppressAll(S, s, r)
           IN  /\ Good(T, W, E)
               /\ \A d \in CommandIds : IsHeld(T, d) <=> IsHeld(S, d) \/ In(r, d)
               /\ \A t \in Sessions : Ends(S, t) => Ends(T, t)
               /\ QueueMoves(S, W) \/ r # << >> => QueueMoves(T, W)
<1> DEFINE T == SuppressAll(S, s, r)
           more == Suppressions(S, s, r)
<1>0. S \in SchedType /\ Apart(S) /\ Followed(S, W) /\ Controlled(S) /\ Tells(S, E) /\ CancelsAnswer(S)
  BY DEF Good
<1>1. /\ T \in SchedType /\ T.active = S.active /\ T.pending = S.pending /\ T.queue = S.queue
      /\ T.running = S.running
      /\ \A c : c \in T.suppressed <=> c \in S.suppressed \/ In(r, c)
      /\ T.completions = S.completions \o more
      /\ \A t \in Sessions \ {s} : T.control[t] = S.control[t]
  BY <1>0, SuppressFields
<1>2. /\ T.control[s].exists /\ T.control[s].cancelled
      /\ T.control[s].terminal <=> S.control[s].terminal \/ r # << >>
  BY <1>0, SuppressFields
<1>3. /\ more \in Seq(Completion) /\ Len(more) = Len(r) /\ Len(r) \in Nat
      /\ \A i \in 1..Len(r) : more[i].command = r[i]
      /\ r # << >> /\ ~S.control[s].terminal => 1 \in 1..Len(r) /\ HasTerminalEvent(more[1].events)
  BY SuppressionsAre
<1>4. \A i \in 1..Len(r) : In(r, r[i]) /\ r[i] \in CommandIds
  BY DEF In
<1> HIDE DEF T, more
<1>5. /\ \A d : IsActive(T, d) <=> IsActive(S, d)
      /\ \A d : IsPending(T, d) <=> IsPending(S, d)
      /\ \A d : IsQueued(T, d) <=> IsQueued(S, d)
      /\ \A d : IsHeld(T, d) <=> IsHeld(S, d) \/ In(r, d)
  BY <1>1 DEF IsActive, IsPending, IsQueued, IsHeld
<1>6. \A d : In(r, d) => /\ d \in CommandIds /\ ~IsActive(S, d) /\ ~IsPending(S, d)
                         /\ d \notin S.suppressed /\ ~IsQueued(S, d)
                         /\ d \notin S.running /\ ~Working(W, d) /\ ~Reported(S, d)
  <2>1. \A d : In(r, d) => d \in CommandIds
    BY <1>4 DEF In
  <2> QED
    BY <1>0, <2>1 DEF IsHeld, Followed
<1>7. Apart(T)
  BY <1>0, <1>1, <1>5, <1>6 DEF Apart
<1>8. /\ \A c : Reported(T, c) <=> Reported(S, c) \/ In(r, c)
      /\ \A t : Ends(S, t) => Ends(T, t)
      /\ r # << >> /\ ~S.control[s].terminal => Ends(T, s)
      /\ CancelsAnswer(T)
      /\ ReportedOnce(T)
  <2>1. \A c : (\E i \in 1..Len(more) : more[i].command = c) <=> In(r, c)
    BY <1>3 DEF In
  <2>2. \A i \in 1..Len(more) : CancelAnswers(more[i])
    BY <1>3, <1>4 DEF CancelAnswers
  <2>3. \A i, j \in 1..Len(more) : more[i].command = more[j].command => i = j
    BY <1>3 DEF Distinct
  <2>4. \A i \in 1..Len(more) : ~Reported(S, more[i].command)
    BY <1>3, <1>4, <1>6
  <2>5. r # << >> /\ ~S.control[s].terminal =>
           \E i \in 1..Len(more) : more[i].command.session = s /\ HasTerminalEvent(more[i].events)
    <3> HAVE r # << >> /\ ~S.control[s].terminal
    <3>1. 1 \in 1..Len(more) /\ more[1].command = r[1] /\ HasTerminalEvent(more[1].events)
      BY <1>3
    <3>2. r[1].session = s
      BY <1>3, <1>4, <3>1
    <3> QED
      BY <3>1, <3>2
  <2>6. ReportedOnce(S)
    BY <1>0 DEF Followed
  <2>7. /\ \A c : Reported(T, c) <=> Reported(S, c) \/ \E i \in 1..Len(more) : more[i].command = c
        /\ \A t : Ends(T, t) <=> Ends(S, t) \/ \E i \in 1..Len(more) :
              more[i].command.session = t /\ HasTerminalEvent(more[i].events)
        /\ CancelsAnswer(S) /\ (\A i \in 1..Len(more) : CancelAnswers(more[i])) => CancelsAnswer(T)
        /\ /\ ReportedOnce(S)
           /\ \A i, j \in 1..Len(more) : more[i].command = more[j].command => i = j
           /\ \A i \in 1..Len(more) : ~Reported(S, more[i].command)
           => ReportedOnce(T)
    BY <1>0, <1>1, <1>3, MoreCompletions
  <2>8. CancelsAnswer(T) /\ ReportedOnce(T)
    BY <1>0, <2>2, <2>3, <2>4, <2>6, <2>7
  <2>9. \A c : Reported(T, c) <=> Reported(S, c) \/ In(r, c)
    BY <2>1, <2>7
  <2>10. /\ \A t : Ends(S, t) => Ends(T, t)
         /\ r # << >> /\ ~S.control[s].terminal => Ends(T, s)
    BY <2>5, <2>7
  <2> QED
    BY <2>8, <2>9, <2>10
<1>9. Followed(T, W)
  BY <1>0, <1>1, <1>5, <1>6, <1>8 DEF Followed
<1>10. r # << >> => \E c : In(r, c)
  BY <1>3, <1>4
<1>11. \A c : In(r, c) => r # << >>
  BY DEF In
<1>12. Controlled(T)
  <2>1. ASSUME NEW t \in Sessions
        PROVE  /\ ~T.control[t].exists => T.control[t] = NoControl
               /\ T.control[t].cancelled => server[t].cancelled
               /\ T.pending[t] # 0 => T.active[t] # 0 \/ \E c \in T.suppressed : c.session = t
    BY <1>0, <1>1, <1>2 DEF Controlled
  <2>2. ASSUME NEW c \in CommandIds
        PROVE  /\ IsHeld(T, c) => T.control[c.session].exists
               /\ IsHeld(T, c) /\ IsCancel(c) => T.control[c.session].cancelled
               /\ IsPending(T, c) => IsCancel(c)
               /\ c \in T.suppressed => /\ ~IsCancel(c) /\ T.control[c.session].cancelled
                                        /\ T.control[c.session].terminal
               /\ IsQueued(T, c) /\ ~IsCancel(c) => ~T.control[c.session].cancelled
    <3>1. CASE c.session = s
      BY <1>0, <1>1, <1>2, <1>5, <1>11, <3>1 DEF Controlled
    <3>2. CASE c.session # s
      BY <1>0, <1>1, <1>5, <3>2, Ids DEF Controlled
    <3> QED
      BY <3>1, <3>2
  <2> QED
    BY <2>1, <2>2 DEF Controlled
<1>13. Tells(T, E)
  BY <1>0, <1>1, <1>2, <1>8 DEF Tells, Told
<1>14. Good(T, W, E)
  BY <1>1, <1>7, <1>8, <1>9, <1>12, <1>13 DEF Good
<1>15. QueueMoves(S, W) \/ r # << >> => QueueMoves(T, W)
  <2>0. \A c : Reported(T, c) => T.completions # << >>
    BY DEF Reported
  <2>1. r # << >> => T.completions # << >>
    BY <1>8, <1>10, <2>0
  <2>2. S.completions # << >> => T.completions # << >>
    <3>1. S.completions # << >> => Reported(S, S.completions[1].command)
      BY <1>0, Fields DEF Reported
    <3> QED
      BY <1>8, <2>0, <3>1
  <2> QED
    BY <1>1, <2>1, <2>2 DEF QueueMoves
<1> QED
  BY <1>5, <1>8, <1>14, <1>15 DEF T
-----------------------------------------------------------------------------
(* Admission: control_for, schedule_runtime_inner, schedule_cancellation.  *)

\* control_for changes nothing but the control it makes.
LEMMA ControlForGood ==
    ASSUME NEW S, NEW W, NEW E, Good(S, W, E), NEW s \in Sessions
    PROVE  LET T == ControlFor(S, s)
           IN  /\ Good(T, W, E)
               /\ T.control[s].exists
               /\ T.control[s].cancelled <=> S.control[s].cancelled
               /\ T.control[s].terminal <=> S.control[s].terminal
               /\ \A t \in Sessions \ {s} : T.control[t] = S.control[t]
               /\ T.active = S.active /\ T.pending = S.pending /\ T.queue = S.queue
               /\ T.suppressed = S.suppressed /\ T.running = S.running
               /\ T.completions = S.completions
<1> DEFINE T == ControlFor(S, s)
<1>0. S \in SchedType /\ Apart(S) /\ Followed(S, W) /\ Controlled(S) /\ Tells(S, E) /\ CancelsAnswer(S)
  BY DEF Good
<1>1. CASE S.control[s].exists
  BY <1>1 DEF ControlFor
<1>2. CASE ~S.control[s].exists
  <2>1. S.control[s] = NoControl
    BY <1>0, <1>2 DEF Controlled
  <2>2. NewControl \in Control
    BY DEF NewControl, Control
  <2>3. /\ T \in SchedType /\ T.control = [S.control EXCEPT ![s] = NewControl]
        /\ T.active = S.active /\ T.pending = S.pending /\ T.queue = S.queue
        /\ T.suppressed = S.suppressed /\ T.running = S.running /\ T.completions = S.completions
    BY <1>0, <1>2, <2>2 DEF ControlFor, SchedType
  <2> HIDE DEF T
  <2>4. T.control[s] = NewControl /\ \A t \in Sessions \ {s} : T.control[t] = S.control[t]
    BY <1>0, <2>3, Fields
  <2>5. /\ T.control[s].exists /\ ~T.control[s].cancelled /\ ~T.control[s].terminal
        /\ ~S.control[s].cancelled /\ ~S.control[s].terminal
    BY <2>1, <2>4 DEF NewControl, NoControl
  <2>6. /\ \A d : IsActive(T, d) <=> IsActive(S, d)
        /\ \A d : IsPending(T, d) <=> IsPending(S, d)
        /\ \A d : IsQueued(T, d) <=> IsQueued(S, d)
        /\ \A d : IsHeld(T, d) <=> IsHeld(S, d)
        /\ \A d : Reported(T, d) <=> Reported(S, d)
    BY <2>3 DEF IsActive, IsPending, IsQueued, IsHeld, Reported
  <2>7. Apart(T)
    BY <1>0, <2>3, <2>6 DEF Apart
  <2>8. Followed(T, W)
    BY <1>0, <2>3, <2>6 DEF Followed, ReportedOnce
  <2>9. Controlled(T)
    <3>1. \A c \in CommandIds : c.session = s => ~IsHeld(S, c)
      BY <1>0, <1>2 DEF Controlled
    <3>2. \A c \in CommandIds : IsPending(S, c) \/ IsQueued(S, c) \/ c \in S.suppressed => IsHeld(S, c)
      BY DEF IsHeld
    <3> QED
      BY <1>0, <2>3, <2>4, <2>5, <2>6, <3>1, <3>2, Ids DEF Controlled
  <2>10. Tells(T, E) /\ CancelsAnswer(T)
    BY <1>0, <2>3, <2>4, <2>5 DEF Tells, Told, Ends, CancelsAnswer
  <2>11. Good(T, W, E)
    BY <2>3, <2>7, <2>8, <2>9, <2>10 DEF Good
  <2> QED
    BY <2>3, <2>4, <2>5, <2>11 DEF T
<1> QED
  BY <1>1, <1>2

\* schedule_runtime_inner suppresses, queues or spawns the command.
LEMMA ScheduleRuntimeGood ==
    ASSUME NEW S, NEW W, NEW E, Good(S, W, E), NEW c, Loose(S, c), S.control[c.session].exists,
           IsCancel(c) => S.control[c.session].cancelled
    PROVE  LET T == ScheduleRuntime(S, c)
           IN  /\ Good(T, W, E)
               /\ Takes(S, T, c)
               /\ T.control[c.session].cancelled <=> S.control[c.session].cancelled
               /\ T.control[c.session].terminal =>
                     S.control[c.session].terminal \/ S.control[c.session].cancelled
               /\ QueueMoves(S, W) => QueueMoves(T, W)
<1>0. S \in SchedType /\ c \in CommandIds /\ c.session \in Sessions /\ ~IsHeld(S, c)
  BY Ids DEF Good, Loose
<1>1. CASE Cancelled(S, c)
  <2> DEFINE r == <<c>>
             T == SuppressAll(S, c.session, r)
  <2>1. r \in Seq(CommandIds) /\ Distinct(r) /\ r # << >> /\ \A d : In(r, d) <=> d = c
    BY <1>0 DEF Distinct, In
  <2>2. S.control[c.session].cancelled /\ ~IsCancel(c)
    BY <1>1 DEF Cancelled
  <2>3. \A d : In(r, d) => d.session = c.session /\ ~IsCancel(d) /\ ~IsHeld(S, d)
    BY <1>0, <2>1, <2>2
  <2>4. ScheduleRuntime(S, c) = T
    BY <1>1 DEF ScheduleRuntime, Suppress
  <2> HIDE DEF r
  <2>5. /\ Good(T, W, E)
        /\ \A d \in CommandIds : IsHeld(T, d) <=> IsHeld(S, d) \/ In(r, d)
        /\ \A t \in Sessions : Ends(S, t) => Ends(T, t)
        /\ QueueMoves(T, W)
    BY <1>0, <2>1, <2>2, <2>3, SuppressGood
  <2>6. /\ \A t \in Sessions \ {c.session} : T.control[t] = S.control[t]
        /\ T.control[c.session].cancelled <=> S.control[c.session].cancelled
        /\ T.control[c.session].terminal
    BY <1>0, <2>1, SuppressFields
  <2> HIDE DEF T
  <2>7. Takes(S, T, c)
    BY <2>1, <2>5, <2>6 DEF Takes
  <2> QED
    BY <2>2, <2>4, <2>5, <2>6, <2>7
<1>2. CASE ~Cancelled(S, c) /\ (S.active[c.session] # 0 \/ ~FreePermit(S))
  <2>1. IsCancel(c) <=> S.control[c.session].cancelled
    BY <1>2 DEF Cancelled
  <2>2. ScheduleRuntime(S, c) = Enqueue(S, c)
    BY <1>2 DEF ScheduleRuntime
  <2> QED
    BY <1>2, <2>1, <2>2, EnqueueGood
<1>3. CASE ~Cancelled(S, c) /\ ~(S.active[c.session] # 0 \/ ~FreePermit(S))
  <2>1. ScheduleRuntime(S, c) = Spawn(S, c)
    BY <1>3 DEF ScheduleRuntime
  <2> QED
    BY <1>3, <2>1, SpawnGood
<1> QED
  BY <1>1, <1>2, <1>3

\* The session's flag is set, and its commands are taken out of the queue.
Flagged(S, s, q) == [S EXCEPT !.control[s].cancelled = TRUE, !.queue = q]

\* Setting the flag is safe once none of the session's commands is queued.
LEMMA FlagGood ==
    ASSUME NEW S, NEW W, NEW E, Good(S, W, E), NEW s \in Sessions, S.control[s].exists,
           server[s].cancelled, NEW q \in Seq(CommandIds), Distinct(q),
           \A c \in CommandIds : In(q, c) <=> IsQueued(S, c) /\ c.session # s,
           NEW T, T = Flagged(S, s, q)
    PROVE  /\ Good(T, W, E)
           /\ T.active = S.active /\ T.pending = S.pending /\ T.queue = q
           /\ T.suppressed = S.suppressed /\ T.running = S.running
           /\ T.completions = S.completions
           /\ T.control[s].exists /\ T.control[s].cancelled
           /\ T.control[s].terminal <=> S.control[s].terminal
           /\ \A t \in Sessions \ {s} : T.control[t] = S.control[t]
<1> DEFINE new == [S.control[s] EXCEPT !.cancelled = TRUE]
<1>0. S \in SchedType /\ Apart(S) /\ Followed(S, W) /\ Controlled(S) /\ Tells(S, E) /\ CancelsAnswer(S)
  BY DEF Good
<1>1. /\ new \in Control /\ new.exists /\ new.cancelled
      /\ new.terminal = S.control[s].terminal
  BY <1>0, ControlFields DEF Control
<1>2. T = [S EXCEPT !.control = [S.control EXCEPT ![s] = new], !.queue = q]
  BY DEF Flagged
<1> HIDE DEF new
<1>3. [S.control EXCEPT ![s] = new] \in [Sessions -> Control]
  BY <1>0, <1>1, Fields
<1>4. /\ T \in SchedType /\ T.active = S.active /\ T.pending = S.pending /\ T.queue = q
      /\ T.suppressed = S.suppressed /\ T.running = S.running
      /\ T.completions = S.completions /\ T.control = [S.control EXCEPT ![s] = new]
  BY <1>0, <1>2, <1>3 DEF SchedType
<1>5. T.control[s] = new /\ \A t \in Sessions \ {s} : T.control[t] = S.control[t]
  BY <1>0, <1>4, Fields
<1>6. /\ T.control[s].exists /\ T.control[s].cancelled
      /\ T.control[s].terminal <=> S.control[s].terminal
  BY <1>1, <1>5
<1>7. /\ \A d : IsActive(T, d) <=> IsActive(S, d)
      /\ \A d : IsPending(T, d) <=> IsPending(S, d)
      /\ \A d \in CommandIds : IsQueued(T, d) <=> IsQueued(S, d) /\ d.session # s
      /\ \A d \in CommandIds : IsHeld(T, d) => IsHeld(S, d)
      /\ \A d : Reported(T, d) <=> Reported(S, d)
  BY <1>4 DEF IsActive, IsPending, IsQueued, IsHeld, Reported
<1>8. Apart(T)
  BY <1>0, <1>4, <1>7 DEF Apart
<1>9. Followed(T, W)
  BY <1>0, <1>4, <1>7 DEF Followed, ReportedOnce
<1>10. Controlled(T)
  <2>1. ASSUME NEW t \in Sessions
        PROVE  /\ ~T.control[t].exists => T.control[t] = NoControl
               /\ T.control[t].cancelled => server[t].cancelled
               /\ T.pending[t] # 0 => T.active[t] # 0 \/ \E c \in T.suppressed : c.session = t
    BY <1>0, <1>4, <1>5, <1>6 DEF Controlled
  <2>2. ASSUME NEW c \in CommandIds
        PROVE  /\ IsHeld(T, c) => T.control[c.session].exists
               /\ IsHeld(T, c) /\ IsCancel(c) => T.control[c.session].cancelled
               /\ IsPending(T, c) => IsCancel(c)
               /\ c \in T.suppressed => /\ ~IsCancel(c) /\ T.control[c.session].cancelled
                                        /\ T.control[c.session].terminal
               /\ IsQueued(T, c) /\ ~IsCancel(c) => ~T.control[c.session].cancelled
    <3>1. CASE c.session = s
      BY <1>0, <1>4, <1>6, <1>7, <3>1 DEF Controlled
    <3>2. CASE c.session # s
      BY <1>0, <1>4, <1>5, <1>7, <3>2, Ids DEF Controlled
    <3> QED
      BY <3>1, <3>2
  <2> QED
    BY <2>1, <2>2 DEF Controlled
<1>11. Tells(T, E) /\ CancelsAnswer(T)
  BY <1>0, <1>4, <1>5, <1>6 DEF Tells, Told, Ends, CancelsAnswer
<1>12. Good(T, W, E)
  BY <1>4, <1>8, <1>9, <1>10, <1>11 DEF Good
<1> QED
  BY <1>4, <1>5, <1>6, <1>12

\* A cancellation waits for the session's next completion.
Waiting(S, s, n) == [S EXCEPT !.pending[s] = n]

\* A cancel may wait where a completion of its session is still to come.
LEMMA PendingGood ==
    ASSUME NEW S, NEW W, NEW E, Good(S, W, E), NEW c, Loose(S, c), IsCancel(c),
           S.pending[c.session] = 0, S.control[c.session].exists, S.control[c.session].cancelled,
           S.active[c.session] # 0 \/ \E d \in S.suppressed : d.session = c.session,
           NEW T, T = Waiting(S, c.session, c.seq)
    PROVE  /\ Good(T, W, E)
           /\ Takes(S, T, c)
           /\ T.control = S.control
           /\ QueueMoves(S, W) => QueueMoves(T, W)
<1> DEFINE s == c.session
<1>0. S \in SchedType /\ Apart(S) /\ Followed(S, W) /\ Controlled(S) /\ Tells(S, E) /\ CancelsAnswer(S)
  BY DEF Good
<1>1. c \in CommandIds /\ s \in Sessions /\ c.seq \in 0..MaxCommands /\ ~IsHeld(S, c)
  BY Ids DEF Loose
<1>2. [S.pending EXCEPT ![s] = c.seq] \in [Sessions -> 0..MaxCommands]
  BY <1>0, <1>1, Fields
<1>3. /\ T \in SchedType /\ T.active = S.active /\ T.pending = [S.pending EXCEPT ![s] = c.seq]
      /\ T.queue = S.queue /\ T.suppressed = S.suppressed /\ T.running = S.running
      /\ T.completions = S.completions /\ T.control = S.control
  BY <1>0, <1>2 DEF SchedType, Waiting
<1>4. \A d \in CommandIds : IsPending(T, d) <=> IsPending(S, d) \/ d = c
  BY <1>0, <1>1, <1>3, Ids, Fields DEF IsPending
<1>5. /\ \A d : IsActive(T, d) <=> IsActive(S, d)
      /\ \A d : IsQueued(T, d) <=> IsQueued(S, d)
      /\ \A d : Reported(T, d) <=> Reported(S, d)
      /\ \A d \in CommandIds : IsHeld(T, d) <=> IsHeld(S, d) \/ d = c
  BY <1>3, <1>4 DEF IsActive, IsQueued, IsHeld, Reported
<1>6. ~IsActive(S, c) /\ ~IsQueued(S, c) /\ c \notin S.suppressed
  BY <1>1 DEF IsHeld
<1>7. Apart(T)
  BY <1>0, <1>3, <1>4, <1>5, <1>6 DEF Apart
<1>8. Followed(T, W)
  BY <1>0, <1>3, <1>5 DEF Followed, ReportedOnce
<1>9. Controlled(T)
  <2>1. ASSUME NEW t \in Sessions
        PROVE  T.pending[t] # 0 => T.active[t] # 0 \/ \E d \in T.suppressed : d.session = t
    <3>1. CASE t = s
      BY <1>3, <3>1
    <3>2. CASE t # s
      <4>1. T.pending[t] = S.pending[t]
        BY <1>0, <1>1, <1>3, <3>2, Fields
      <4> QED
        BY <1>0, <1>3, <4>1 DEF Controlled
    <3> QED
      BY <3>1, <3>2
  <2> QED
    BY <1>0, <1>3, <1>4, <1>5, <2>1 DEF Controlled
<1>10. Tells(T, E) /\ CancelsAnswer(T)
  BY <1>0, <1>3 DEF Tells, Told, Ends, CancelsAnswer
<1>11. Good(T, W, E)
  BY <1>3, <1>7, <1>8, <1>9, <1>10 DEF Good
<1>12. Takes(S, T, c)
  BY <1>3, <1>5 DEF Takes, Ends
<1>13. QueueMoves(S, W) => QueueMoves(T, W)
  BY <1>3 DEF QueueMoves
<1> QED
  BY <1>3, <1>11, <1>12, <1>13

\* Suppressing the queued commands does not look at what is pending.
LEMMA PendingApart ==
    ASSUME NEW S \in SchedType, NEW s \in Sessions, NEW r \in Seq(CommandIds),
           NEW n \in 0..MaxCommands
    PROVE  SuppressAll(Waiting(S, s, n), s, r) = Waiting(SuppressAll(S, s, r), s, n)
<1> DEFINE new == [S.control EXCEPT ![s].terminal = @ \/ r # << >>]
           told == S.suppressed \cup ToSet(r)
           more == S.completions \o Suppressions(S, s, r)
           wait == [S.pending EXCEPT ![s] = n]
           U == Waiting(S, s, n)
<1>1. U = [S EXCEPT !.pending = wait]
  BY DEF Waiting
<1> HIDE DEF U
<1>2. /\ U.control = S.control /\ U.suppressed = S.suppressed /\ U.completions = S.completions
      /\ U.pending = wait
  BY <1>1 DEF SchedType
<1>3. Suppressions(U, s, r) = Suppressions(S, s, r)
  BY <1>2 DEF Suppressions
<1>4. SuppressAll(U, s, r) = [U EXCEPT !.suppressed = told, !.control = new, !.completions = more]
  BY <1>2, <1>3 DEF SuppressAll, Suppressions
<1>5. SuppressAll(S, s, r) = [S EXCEPT !.suppressed = told, !.control = new, !.completions = more]
  BY DEF SuppressAll, Suppressions
<1> DEFINE V == [S EXCEPT !.suppressed = told, !.control = new, !.completions = more]
<1> HIDE DEF new, told, more
<1>6. V.pending = S.pending
  BY DEF SchedType
<1>7. [V EXCEPT !.pending[s] = n] = [V EXCEPT !.pending = wait]
  BY <1>6
<1> HIDE DEF wait
<1>8. [U EXCEPT !.suppressed = told, !.control = new, !.completions = more]
        = [V EXCEPT !.pending = wait]
  BY <1>1 DEF SchedType
<1> QED
  BY <1>4, <1>5, <1>7, <1>8 DEF Waiting, U

\* schedule_cancellation, in each of its cases.
LEMMA ScheduleCancellationGood ==
    ASSUME NEW S, NEW W, NEW E, Good(S, W, E), NEW c, Loose(S, c), IsCancel(c),
           S.control[c.session].exists, server[c.session].cancelled,
           \A d \in CommandIds : d.session = c.session /\ IsCancel(d) => ~IsHeld(S, d)
    PROVE  LET T == ScheduleCancellation(S, c)
           IN  /\ Good(T, W, E)
               /\ Takes(S, T, c)
               /\ T.control[c.session].cancelled
               /\ QueueMoves(S, W) => QueueMoves(T, W)
<1> DEFINE T == ScheduleCancellation(S, c)
           s == c.session
           part == RemoveQueued(S.queue, s)
           r == part.removed
           q == part.retained
           S1 == Flagged(S, s, q)
<1>0. S \in SchedType /\ Apart(S) /\ Controlled(S)
  BY DEF Good
<1>1. c \in CommandIds /\ s \in Sessions /\ c.seq \in 0..MaxCommands /\ ~IsHeld(S, c)
  BY Ids DEF Loose
<1>2. S.queue \in Seq(CommandIds) /\ Distinct(S.queue)
  BY <1>0, Fields DEF Apart
<1>3. PartOf(S.queue, s, Len(S.queue), part)
  BY <1>2, Removed
<1> HIDE DEF part
<1>4. /\ r \in Seq(CommandIds) /\ q \in Seq(CommandIds) /\ Distinct(r) /\ Distinct(q)
      /\ \A d \in CommandIds : In(r, d) <=> IsQueued(S, d) /\ d.session = s
      /\ \A d \in CommandIds : In(q, d) <=> IsQueued(S, d) /\ d.session # s
  BY <1>3 DEF PartOf, IsQueued, In
<1>5. T = IF S1.active[s] # 0 \/ r # << >>
          THEN SuppressAll([S1 EXCEPT !.pending[s] = IF @ = 0 THEN c.seq ELSE @], s, r)
          ELSE IF S1.pending[s] # 0 THEN S1
          ELSE ScheduleRuntime(S1, c)
  BY DEF ScheduleCancellation, part, Flagged
<1> HIDE DEF T, q, r
<1>6. /\ Good(S1, W, E)
      /\ S1.active = S.active /\ S1.pending = S.pending /\ S1.queue = q
      /\ S1.suppressed = S.suppressed /\ S1.running = S.running
      /\ S1.completions = S.completions
      /\ S1.control[s].exists /\ S1.control[s].cancelled
      /\ S1.control[s].terminal <=> S.control[s].terminal
      /\ \A t \in Sessions \ {s} : S1.control[t] = S.control[t]
  BY <1>1, <1>4, FlagGood
<1> HIDE DEF S1
<1>7. S.pending[s] = 0
  <2>1. SUFFICES ASSUME S.pending[s] # 0 PROVE FALSE
    OBVIOUS
  <2>2. PICK d \in CommandIds : d.session = s /\ IsPending(S, d)
    BY <1>0, <1>1, <2>1, ActiveIsACommand
  <2>3. IsCancel(d) /\ IsHeld(S, d)
    BY <1>0, <2>2 DEF Controlled, IsHeld
  <2> QED
    BY <2>2, <2>3
<1>8. \A d \in CommandIds : IsHeld(S, d) <=> IsHeld(S1, d) \/ In(r, d)
  BY <1>4, <1>6 DEF IsHeld, IsActive, IsPending, IsQueued
<1>9. \A d \in CommandIds : In(r, d) => ~IsHeld(S1, d)
  BY <1>0, <1>4, <1>6 DEF IsHeld, IsActive, IsPending, IsQueued, Apart
<1>10. \A d : In(r, d) => d \in CommandIds
  BY <1>4 DEF In
<1>11. \A d : In(r, d) => d.session = s /\ ~IsCancel(d) /\ ~IsHeld(S1, d)
  BY <1>4, <1>9, <1>10 DEF IsHeld
<1>12. \A t : Ends(S1, t) <=> Ends(S, t)
  BY <1>6 DEF Ends
<1>13. QueueMoves(S, W) => QueueMoves(S1, W)
  <2>1. q # << >> => In(q, q[1]) /\ q[1] \in CommandIds
    BY <1>4 DEF In
  <2>2. q # << >> => S.queue # << >>
    BY <1>4, <2>1 DEF IsQueued, In
  <2> QED
    BY <1>6, <2>2 DEF QueueMoves
<1>14. Loose(S1, c)
  BY <1>1, <1>8 DEF Loose
<1>15. S1 \in SchedType
  BY <1>6 DEF Good
<1>16. CASE S1.active[s] # 0 \/ r # << >>
  <2> DEFINE S2 == SuppressAll(S1, s, r)
  <2>1. T = SuppressAll(Waiting(S1, s, c.seq), s, r)
    BY <1>5, <1>6, <1>7, <1>16 DEF Waiting
  <2>2. T = Waiting(S2, s, c.seq)
    BY <1>1, <1>4, <1>15, <2>1, PendingApart
  <2>3. /\ Good(S2, W, E)
        /\ \A d \in CommandIds : IsHeld(S2, d) <=> IsHeld(S1, d) \/ In(r, d)
        /\ \A t \in Sessions : Ends(S1, t) => Ends(S2, t)
        /\ QueueMoves(S1, W) \/ r # << >> => QueueMoves(S2, W)
    BY <1>1, <1>4, <1>6, <1>11, SuppressGood
  <2>4. /\ S2.active = S1.active /\ S2.pending = S1.pending
        /\ \A d : d \in S2.suppressed <=> d \in S1.suppressed \/ In(r, d)
        /\ \A t \in Sessions \ {s} : S2.control[t] = S1.control[t]
    BY <1>1, <1>4, <1>15, SuppressFields
  <2>5. /\ S2.control[s].exists = S1.control[s].exists
        /\ S2.control[s].cancelled = S1.control[s].cancelled
        /\ S2.control[s].terminal <=> S1.control[s].terminal \/ r # << >>
    BY <1>1, <1>4, <1>15, SuppressFields
  <2> HIDE DEF S2
  <2>6. Loose(S2, c)
    BY <1>1, <1>8, <2>3 DEF Loose
  <2>7. r # << >> => In(r, r[1])
    BY <1>4 DEF In
  <2>8. S2.active[s] # 0 \/ \E d \in S2.suppressed : d.session = s
    BY <1>11, <1>16, <2>4, <2>7
  <2>9. /\ Good(T, W, E) /\ Takes(S2, T, c) /\ T.control = S2.control
        /\ QueueMoves(S2, W) => QueueMoves(T, W)
    <3>1. S2.control[s].exists /\ S2.control[s].cancelled
      BY <1>6, <2>5
    <3>2. S2.pending[s] = 0
      BY <1>6, <1>7, <2>4
    <3> QED
      BY <2>2, <2>3, <2>6, <2>8, <3>1, <3>2, PendingGood
  <2>10. Takes(S, T, c)
    <3>1. \A d \in CommandIds : IsHeld(T, d) <=> IsHeld(S, d) \/ d = c
      BY <1>8, <2>3, <2>9 DEF Takes
    <3>2. \A t \in Sessions \ {s} : T.control[t] = S.control[t]
      BY <1>6, <2>4, <2>9
    <3>3. T.control[s].cancelled /\ (S.control[s].terminal => T.control[s].terminal)
      BY <1>6, <2>5, <2>9
    <3>4. \A t \in Sessions : Ends(S, t) => Ends(T, t)
      BY <1>12, <2>3, <2>9 DEF Takes
    <3> QED
      BY <3>1, <3>2, <3>3, <3>4 DEF Takes
  <2> QED
    BY <1>6, <1>13, <2>3, <2>5, <2>9, <2>10 DEF T
<1>17. CASE ~(S1.active[s] # 0 \/ r # << >>)
  <2>1. T = ScheduleRuntime(S1, c)
    BY <1>5, <1>6, <1>7, <1>17
  <2>2. /\ Good(T, W, E) /\ Takes(S1, T, c) /\ T.control[s].cancelled
        /\ QueueMoves(S1, W) => QueueMoves(T, W)
    BY <1>6, <1>14, <2>1, ScheduleRuntimeGood
  <2>3. \A d : ~In(r, d)
    BY <1>17 DEF In
  <2>4. Takes(S, T, c)
    <3>1. \A d \in CommandIds : IsHeld(T, d) <=> IsHeld(S, d) \/ d = c
      BY <1>8, <2>2, <2>3 DEF Takes
    <3>2. \A t \in Sessions \ {s} : T.control[t] = S.control[t]
      BY <1>6, <2>2 DEF Takes
    <3>3. S.control[s].terminal => T.control[s].terminal
      BY <1>6, <2>2 DEF Takes
    <3>4. \A t \in Sessions : Ends(S, t) => Ends(T, t)
      BY <1>12, <2>2 DEF Takes
    <3> QED
      BY <2>2, <3>1, <3>2, <3>3, <3>4 DEF Takes
  <2> QED
    BY <1>13, <2>2, <2>4 DEF T
<1> QED
  BY <1>16, <1>17

\* schedule, of a command that is not held yet: a cancel is the session's only one,
\* and the server has it.
LEMMA ScheduleGood ==
    ASSUME NEW S, NEW W, NEW E, Good(S, W, E), NEW c, Loose(S, c),
           IsCancel(c) =>
              /\ server[c.session].cancelled
              /\ \A d \in CommandIds : d.session = c.session /\ IsCancel(d) => ~IsHeld(S, d)
    PROVE  LET T == Schedule(S, c)
           IN  /\ Good(T, W, E)
               /\ Takes(S, T, c)
               /\ T.control[c.session].terminal =>
                     S.control[c.session].terminal \/ T.control[c.session].cancelled
               /\ QueueMoves(S, W) => QueueMoves(T, W)
<1> DEFINE T == Schedule(S, c)
           s == c.session
           S1 == ControlFor(S, s)
<1>0. S \in SchedType /\ c \in CommandIds /\ s \in Sessions /\ ~IsHeld(S, c)
  BY Ids DEF Good, Loose
<1>1. /\ Good(S1, W, E) /\ S1.control[s].exists
      /\ S1.control[s].cancelled <=> S.control[s].cancelled
      /\ S1.control[s].terminal <=> S.control[s].terminal
      /\ \A t \in Sessions \ {s} : S1.control[t] = S.control[t]
      /\ S1.active = S.active /\ S1.pending = S.pending /\ S1.queue = S.queue
      /\ S1.suppressed = S.suppressed /\ S1.running = S.running
      /\ S1.completions = S.completions
  BY <1>0, ControlForGood
<1>2. T = IF IsCancel(c) THEN ScheduleCancellation(S1, c) ELSE ScheduleRuntime(S1, c)
  BY DEF Schedule
<1> HIDE DEF S1, T
<1>3. /\ \A d : IsHeld(S1, d) <=> IsHeld(S, d)
      /\ \A t : Ends(S1, t) <=> Ends(S, t)
      /\ QueueMoves(S1, W) <=> QueueMoves(S, W)
  BY <1>1 DEF IsHeld, IsActive, IsPending, IsQueued, Ends, QueueMoves
<1>4. Loose(S1, c)
  BY <1>0, <1>3 DEF Loose
<1>5. /\ Good(T, W, E) /\ Takes(S1, T, c)
      /\ T.control[s].terminal => S1.control[s].terminal \/ T.control[s].cancelled
      /\ QueueMoves(S1, W) => QueueMoves(T, W)
  <2>1. CASE IsCancel(c)
    <3>1. T = ScheduleCancellation(S1, c)
      BY <1>2, <2>1
    <3>2. \A d \in CommandIds : d.session = s /\ IsCancel(d) => ~IsHeld(S1, d)
      BY <1>3, <2>1
    <3> QED
      BY <1>1, <1>4, <2>1, <3>1, <3>2, ScheduleCancellationGood
  <2>2. CASE ~IsCancel(c)
    <3>1. T = ScheduleRuntime(S1, c)
      BY <1>2, <2>2
    <3> QED
      BY <1>1, <1>4, <2>2, <3>1, ScheduleRuntimeGood
  <2> QED
    BY <2>1, <2>2
<1>6. Takes(S, T, c)
  BY <1>1, <1>3, <1>5 DEF Takes
<1> QED
  BY <1>1, <1>3, <1>5, <1>6 DEF T
-----------------------------------------------------------------------------
(* drain_queue.                                                            *)

\* Where something is active or suppressed, a completion is here or still to come.
Moving(S, W) == S.running # {} \/ W # {} \/ S.completions # << >>

\* The active and the suppressed commands are followed, hence something moves.
LEMMA ActiveMoves ==
    ASSUME NEW S, NEW W, Followed(S, W), NEW c \in CommandIds, IsActive(S, c) \/ c \in S.suppressed
    PROVE  Moving(S, W)
<1>1. c \in S.running \/ Working(W, c) \/ Reported(S, c)
  BY DEF Followed
<1>2. Reported(S, c) => S.completions # << >>
  BY DEF Reported
<1> QED
  BY <1>1, <1>2 DEF Moving, Working

\* The round R after i items of S.queue: each of them is spawned, behind or in front.
Drained(S, i, R) ==
    /\ R \in [state : SchedType, over : BOOLEAN, front : Seq(CommandIds), back : Seq(CommandIds)]
    /\ R.state.control = S.control /\ R.state.pending = S.pending
    /\ R.state.suppressed = S.suppressed /\ R.state.completions = S.completions
    /\ S.running \subseteq R.state.running
    /\ Cardinality(R.state.running) <= Permits
    /\ \A c \in CommandIds :
          /\ IsActive(R.state, c) <=> IsActive(S, c) \/ c \in R.state.running
          /\ In(R.back, c) => R.state.active[c.session] # 0
          /\ In(R.front, c) => ~In(R.back, c)
          /\ In(R.front, c) \/ In(R.back, c) => c \notin R.state.running
          /\ In(R.front, c) \/ In(R.back, c) \/ c \in R.state.running \ S.running
                <=> \E j \in 1..i : S.queue[j] = c
    /\ Distinct(R.front) /\ Distinct(R.back)
    /\ R.over => ~FreePermit(R.state)
    /\ ~R.over => R.front = << >>

\* The round before its first item.
LEMMA DrainStarts ==
    ASSUME NEW S, NEW W, NEW E, Good(S, W, E)
    PROVE  Drained(S, 0, RoundStart(S))
<1> DEFINE R == RoundStart(S)
<1>1. S \in SchedType /\ Followed(S, W) /\ Cardinality(S.running) <= Permits
  BY DEF Good
<1>2. /\ R \in [state : SchedType, over : BOOLEAN, front : Seq(CommandIds), back : Seq(CommandIds)]
      /\ ~R.over /\ R.front = << >> /\ R.back = << >>
      /\ R.state.active = S.active /\ R.state.control = S.control /\ R.state.pending = S.pending
      /\ R.state.suppressed = S.suppressed /\ R.state.completions = S.completions
      /\ R.state.running = S.running
  <2> DEFINE none == << >>
             U == [S EXCEPT !.queue = none]
  <2>0. none \in Seq(CommandIds)
    OBVIOUS
  <2> HIDE DEF none
  <2>1. /\ U \in SchedType /\ U.active = S.active /\ U.control = S.control /\ U.pending = S.pending
        /\ U.suppressed = S.suppressed /\ U.completions = S.completions /\ U.running = S.running
    BY <1>1, <2>0 DEF SchedType
  <2>2. R = [state |-> U, over |-> FALSE, front |-> << >>, back |-> << >>]
    BY DEF RoundStart, none
  <2> HIDE DEF U, R
  <2> QED
    BY <2>1, <2>2
<1> HIDE DEF R
<1>3. \A c \in CommandIds : c \in S.running => IsActive(S, c)
  BY <1>1 DEF Followed
<1>4. \A c : ~In(R.front, c) /\ ~In(R.back, c)
  BY <1>2 DEF In
<1>5. \A c : ~ \E j \in 1..0 : S.queue[j] = c
  OBVIOUS
<1>6. Distinct(R.front) /\ Distinct(R.back)
  BY <1>2 DEF Distinct
<1>7. \A c : IsActive(R.state, c) <=> IsActive(S, c)
  BY <1>2 DEF IsActive
<1> QED
  BY <1>1, <1>2, <1>3, <1>4, <1>5, <1>6, <1>7 DEF Drained, R

\* One item more: suppressed never, put behind, put in front or spawned.
LEMMA DrainSteps ==
    ASSUME NEW S, NEW W, NEW E, Good(S, W, E), NEW k \in 1..Len(S.queue), NEW R,
           Drained(S, k - 1, R)
    PROVE  Drained(S, k, DrainStep(R, S.queue[k]))
<1> DEFINE c == S.queue[k]
           Type == [state : SchedType, over : BOOLEAN, front : Seq(CommandIds), back : Seq(CommandIds)]
           T == DrainStep(R, c)
           U == R.state
<1>0. S \in SchedType /\ Apart(S) /\ Followed(S, W) /\ Controlled(S)
  BY DEF Good
<1>1. /\ c \in CommandIds /\ c.session \in Sessions /\ c.seq \in 0..MaxCommands /\ k \in Nat
      /\ IsQueued(S, c)
  BY <1>0, Fields, Ids DEF IsQueued, In
<1>2. \A d : (\E j \in 1..k : S.queue[j] = d) <=> d = c \/ \E j \in 1..k - 1 : S.queue[j] = d
  BY <1>1
<1>3. ~ \E j \in 1..k - 1 : S.queue[j] = c
  BY <1>0, <1>1 DEF Apart, Distinct
<1>4. /\ R \in Type /\ U \in SchedType /\ R.front \in Seq(CommandIds) /\ R.back \in Seq(CommandIds)
      /\ R.over \in BOOLEAN
      /\ U.control = S.control /\ U.pending = S.pending
      /\ U.suppressed = S.suppressed /\ U.completions = S.completions
      /\ S.running \subseteq U.running
      /\ Cardinality(U.running) <= Permits
      /\ Distinct(R.front) /\ Distinct(R.back)
      /\ R.over => ~FreePermit(U)
      /\ ~R.over => R.front = << >>
  BY DEF Drained
<1>5. \A d \in CommandIds :
         /\ IsActive(U, d) <=> IsActive(S, d) \/ d \in U.running
         /\ In(R.back, d) => U.active[d.session] # 0
         /\ In(R.front, d) => ~In(R.back, d)
         /\ In(R.front, d) \/ In(R.back, d) => d \notin U.running
         /\ In(R.front, d) \/ In(R.back, d) \/ d \in U.running \ S.running
               <=> \E j \in 1..k - 1 : S.queue[j] = d
  BY DEF Drained
<1>6. ~IsActive(S, c) /\ c \notin S.running
  BY <1>0, <1>1 DEF Apart, Followed
<1>7. ~In(R.front, c) /\ ~In(R.back, c) /\ c \notin U.running
  BY <1>1, <1>3, <1>5, <1>6
<1>8. ~Cancelled(U, c)
  BY <1>0, <1>1, <1>4 DEF Controlled, Cancelled
<1> HIDE DEF c, U
<1>9. CASE R.over \/ (U.active[c.session] = 0 /\ ~FreePermit(U))
  <2> DEFINE f == Append(R.front, c)
  <2>1. f \in Seq(CommandIds) /\ Distinct(f) /\ \A d : In(f, d) <=> In(R.front, d) \/ d = c
    BY <1>1, <1>4, <1>7, Appended, AppendIn, AppendDistinct
  <2>2. T \in Type /\ T.state = U /\ T.over /\ T.front = f /\ T.back = R.back
    <3>1. CASE R.over
      <4>1. T = [R EXCEPT !.front = f]
        BY <3>1 DEF DrainStep
      <4> HIDE DEF f, T
      <4> QED
        BY <1>4, <2>1, <3>1, <4>1 DEF U
    <3>2. CASE ~R.over
      <4>1. T = [R EXCEPT !.over = TRUE, !.front = f]
        BY <1>8, <1>9, <3>2 DEF DrainStep, U
      <4> HIDE DEF f, T
      <4> QED
        BY <1>4, <2>1, <4>1 DEF U
    <3> QED
      BY <3>1, <3>2, <1>4
  <2> HIDE DEF f, T, Type
  <2>3. ~FreePermit(U)
    BY <1>4, <1>9
  <2>4. \A d \in CommandIds :
           /\ IsActive(T.state, d) <=> IsActive(S, d) \/ d \in T.state.running
           /\ In(T.back, d) => T.state.active[d.session] # 0
           /\ In(T.front, d) => ~In(T.back, d)
           /\ In(T.front, d) \/ In(T.back, d) => d \notin T.state.running
           /\ In(T.front, d) \/ In(T.back, d) \/ d \in T.state.running \ S.running
                 <=> \E j \in 1..k : S.queue[j] = d
    BY <1>2, <1>5, <1>7, <2>1, <2>2
  <2>5. Drained(S, k, T)
    BY <1>4, <2>1, <2>2, <2>3, <2>4 DEF Drained, Type
  <2> QED
    BY <2>5 DEF T, c
<1>10. CASE ~R.over /\ U.active[c.session] # 0
  <2> DEFINE f == Append(R.back, c)
  <2>1. f \in Seq(CommandIds) /\ Distinct(f) /\ \A d : In(f, d) <=> In(R.back, d) \/ d = c
    BY <1>1, <1>4, <1>7, Appended, AppendIn, AppendDistinct
  <2>2. T \in Type /\ T.state = U /\ ~T.over /\ T.front = R.front /\ T.back = f
    <3>1. T = [R EXCEPT !.back = f]
      BY <1>8, <1>10 DEF DrainStep, U
    <3> HIDE DEF f, T
    <3> QED
      BY <1>4, <1>10, <2>1, <3>1 DEF U
  <2> HIDE DEF f, T, Type
  <2>4. \A d \in CommandIds :
           /\ IsActive(T.state, d) <=> IsActive(S, d) \/ d \in T.state.running
           /\ In(T.back, d) => T.state.active[d.session] # 0
           /\ In(T.front, d) => ~In(T.back, d)
           /\ In(T.front, d) \/ In(T.back, d) => d \notin T.state.running
           /\ In(T.front, d) \/ In(T.back, d) \/ d \in T.state.running \ S.running
                 <=> \E j \in 1..k : S.queue[j] = d
    BY <1>2, <1>5, <1>7, <1>10, <2>1, <2>2
  <2>5. Drained(S, k, T)
    BY <1>4, <1>10, <2>1, <2>2, <2>4 DEF Drained, Type
  <2> QED
    BY <2>5 DEF T, c
<1>11. CASE ~R.over /\ U.active[c.session] = 0 /\ FreePermit(U)
  <2> DEFINE V == Spawn(U, c)
  <2>1. /\ V \in SchedType
        /\ V.active = [U.active EXCEPT ![c.session] = c.seq] /\ V.running = U.running \cup {c}
        /\ V.control = U.control /\ V.pending = U.pending /\ V.suppressed = U.suppressed
        /\ V.completions = U.completions
    <3>1. [U.active EXCEPT ![c.session] = c.seq] \in [Sessions -> 0..MaxCommands]
      BY <1>1, <1>4, Fields
    <3>2. U.running \cup {c} \in SUBSET CommandIds
      BY <1>1, <1>4, Fields
    <3> QED
      BY <1>4, <3>1, <3>2 DEF Spawn, SchedType
  <2>2. T \in Type /\ T.state = V /\ ~T.over /\ T.front = R.front /\ T.back = R.back
    <3>1. T = [R EXCEPT !.state = V]
      BY <1>8, <1>11 DEF DrainStep, U
    <3> HIDE DEF V, T
    <3> QED
      BY <1>4, <1>11, <2>1, <3>1
  <2> HIDE DEF V, T, Type
  <2>3. Cardinality(V.running) <= Permits
    <3>1. IsFiniteSet(U.running)
      BY <1>4, Fields, IdsAreFinite, FS_Subset
    <3>2. Cardinality(U.running) \in Nat /\ Cardinality(U.running) < Permits
      BY <1>11, <3>1, FS_CardinalityType DEF FreePermit
    <3>3. Cardinality(V.running) = Cardinality(U.running) + 1
      BY <1>7, <2>1, <3>1, FS_AddElement
    <3> QED
      BY <3>2, <3>3, Ids
  <2>4. /\ \A d \in CommandIds : IsActive(V, d) <=> IsActive(U, d) \/ d = c
        /\ \A s \in Sessions : U.active[s] # 0 => V.active[s] # 0
    BY <1>1, <1>4, <1>11, <2>1, Ids, Fields DEF IsActive
  <2>5. \A d \in CommandIds :
           /\ IsActive(V, d) <=> IsActive(S, d) \/ d \in V.running
           /\ In(R.back, d) => V.active[d.session] # 0
           /\ In(R.front, d) => ~In(R.back, d)
           /\ In(R.front, d) \/ In(R.back, d) => d \notin V.running
           /\ In(R.front, d) \/ In(R.back, d) \/ d \in V.running \ S.running
                 <=> \E j \in 1..k : S.queue[j] = d
    BY <1>2, <1>5, <1>6, <1>7, <2>1, <2>4, Ids
  <2>6. Drained(S, k, T)
    BY <1>4, <1>11, <2>1, <2>2, <2>3, <2>5 DEF Drained, Type
  <2> QED
    BY <2>6 DEF T, c
<1> QED
  BY <1>9, <1>10, <1>11

\* The whole round: no item is the least at which it goes wrong.
LEMMA DrainRound ==
    ASSUME NEW S, NEW W, NEW E, Good(S, W, E), NEW f, IsRound(S, Len(S.queue), f)
    PROVE  Drained(S, Len(S.queue), f[Len(S.queue)])
<1>0. Len(S.queue) \in Nat
  BY Fields DEF Good
<1> DEFINE n == Len(S.queue)
           X == {i \in 0..n : ~Drained(S, i, f[i])}
<1> SUFFICES ASSUME X # {} PROVE FALSE
  BY <1>0
<1>1. PICK k \in X : \A m \in X : k <= m
  <2>1. X \in SUBSET Nat
    BY <1>0
  <2> HIDE DEF X
  <2> QED
    BY <2>1, LeastNumber
<1>2. \A i \in 0..n : f[i] = IF i = 0 THEN RoundStart(S) ELSE DrainStep(f[i - 1], S.queue[i])
  BY <1>0 DEF IsRound
<1>3. k # 0
  BY <1>0, <1>1, <1>2, DrainStarts
<1>4. k \in 1..n /\ k - 1 \in 0..n /\ Drained(S, k - 1, f[k - 1])
  BY <1>0, <1>1, <1>3
<1>5. f[k] = DrainStep(f[k - 1], S.queue[k])
  BY <1>0, <1>2, <1>4
<1>6. Drained(S, k, f[k])
  BY <1>4, <1>5, DrainSteps
<1> QED
  BY <1>1, <1>6

\* Draining keeps the scheduler good and holds what was held; what stays queued
\* waits for something.
LEMMA DrainGood ==
    ASSUME NEW S, NEW W, NEW E, Good(S, W, E)
    PROVE  LET T == DrainQueue(S)
           IN  /\ Good(T, W, E)
               /\ \A c \in CommandIds : IsHeld(T, c) <=> IsHeld(S, c)
               /\ T.control = S.control /\ T.pending = S.pending
               /\ T.suppressed = S.suppressed /\ T.completions = S.completions
               /\ QueueMoves(T, W)
<1> DEFINE T == DrainQueue(S)
           n == Len(S.queue)
<1>0. S \in SchedType /\ Apart(S) /\ Followed(S, W) /\ Controlled(S) /\ n \in Nat
  BY Fields DEF Good
<1>1. PICK f : /\ IsRound(S, n, f)
               /\ T = [f[n].state EXCEPT !.queue = f[n].front \o f[n].back]
  BY <1>0, DrainIsRound
<1> DEFINE R == f[n]
           U == R.state
           q == R.front \o R.back
           N == U.running \ S.running
<1>2. Drained(S, n, R)
  BY <1>1, DrainRound
<1> HIDE DEF R
<1>3. /\ U \in SchedType /\ R.front \in Seq(CommandIds) /\ R.back \in Seq(CommandIds)
      /\ R.over \in BOOLEAN
      /\ U.control = S.control /\ U.pending = S.pending
      /\ U.suppressed = S.suppressed /\ U.completions = S.completions
      /\ S.running \subseteq U.running
      /\ Cardinality(U.running) <= Permits
      /\ Distinct(R.front) /\ Distinct(R.back)
      /\ R.over => ~FreePermit(U)
      /\ ~R.over => R.front = << >>
  BY <1>2 DEF Drained
<1>4. \A d \in CommandIds :
         /\ IsActive(U, d) <=> IsActive(S, d) \/ d \in U.running
         /\ In(R.back, d) => U.active[d.session] # 0
         /\ In(R.front, d) => ~In(R.back, d)
         /\ In(R.front, d) \/ In(R.back, d) => d \notin U.running
         /\ In(R.front, d) \/ In(R.back, d) \/ d \in U.running \ S.running
               <=> IsQueued(S, d)
  BY <1>2 DEF Drained, IsQueued, In
<1>5. \A d : In(R.front, d) \/ In(R.back, d) => d \in CommandIds
  BY <1>3 DEF In
<1>6. q \in Seq(CommandIds) /\ Distinct(q) /\ \A d : In(q, d) <=> In(R.front, d) \/ In(R.back, d)
  BY <1>3, <1>4, <1>5, Joined, JoinIn, JoinDistinct
<1>7. T = [U EXCEPT !.queue = q]
  BY <1>1 DEF R
<1> HIDE DEF T, U, q
<1>8. /\ T \in SchedType /\ T.queue = q /\ T.active = U.active /\ T.running = U.running
      /\ T.control = S.control /\ T.pending = S.pending
      /\ T.suppressed = S.suppressed /\ T.completions = S.completions
  BY <1>3, <1>6, <1>7 DEF SchedType
<1>9. \A d : IsActive(T, d) <=> IsActive(U, d)
  BY <1>8 DEF IsActive
<1>10. \A d : IsQueued(T, d) <=> In(R.front, d) \/ In(R.back, d)
  BY <1>6, <1>8 DEF IsQueued
<1>11. N \in SUBSET CommandIds /\ T.running = S.running \cup N
  BY <1>3, <1>8, Fields
<1>12. \A d \in N : IsQueued(S, d) /\ d \in CommandIds /\ d \in U.running
  BY <1>4, <1>11
<1>13. \A d \in N : /\ ~IsActive(S, d) /\ ~IsPending(S, d) /\ d \notin S.suppressed
                    /\ ~IsQueued(T, d)
                    /\ S.control[d.session].exists
                    /\ IsCancel(d) => S.control[d.session].cancelled
  BY <1>0, <1>4, <1>10, <1>12 DEF Apart, Controlled, IsHeld
<1>14. \A d \in CommandIds : d \in S.running => IsActive(S, d)
  BY <1>0 DEF Followed
<1>15. \A d \in CommandIds : IsActive(T, d) <=> IsActive(S, d) \/ d \in N
  BY <1>4, <1>9, <1>14
<1>16. \A d \in CommandIds : IsQueued(T, d) => IsQueued(S, d)
  BY <1>4, <1>10
<1>17. Distinct(T.queue) /\ Cardinality(T.running) <= Permits
  BY <1>3, <1>6, <1>8
<1> HIDE DEF N
<1>18. Good(T, W, E)
  BY <1>8, <1>11, <1>13, <1>15, <1>16, <1>17, Spawned
<1>19. \A d \in CommandIds : IsHeld(T, d) <=> IsHeld(S, d)
  <2>1. \A d \in CommandIds : IsQueued(S, d) <=> IsQueued(T, d) \/ d \in N
    BY <1>4, <1>10, <1>11 DEF N
  <2>2. \A d : IsPending(T, d) <=> IsPending(S, d)
    BY <1>8 DEF IsPending
  <2> QED
    BY <1>8, <1>15, <2>1, <2>2 DEF IsHeld
<1>20. QueueMoves(T, W)
  <2>1. SUFFICES ASSUME T.queue # << >> PROVE Moving(T, W)
    BY DEF QueueMoves, Moving
  <2>2. PICK d \in CommandIds : In(R.front, d) \/ In(R.back, d)
    <3>1. q[1] \in CommandIds /\ In(q, q[1])
      BY <1>6, <1>8, <2>1 DEF In
    <3> QED
      BY <1>6, <3>1
  <2>3. CASE In(R.front, d)
    <3>1. ~FreePermit(U)
      BY <1>3, <2>3 DEF In
    <3>2. U.running # {}
      BY <3>1, Ids, FS_EmptySet DEF FreePermit
    <3> QED
      BY <1>8, <3>2 DEF Moving
  <2>4. CASE In(R.back, d)
    <3>1. d.session \in Sessions /\ T.active[d.session] # 0
      BY <1>4, <1>8, <2>4, Ids
    <3>2. PICK a \in CommandIds : IsActive(T, a)
      BY <1>8, <3>1, ActiveIsACommand
    <3> QED
      BY <1>18, <3>2, ActiveMoves DEF Good
  <2> QED
    BY <2>2, <2>3, <2>4
<1> QED
  BY <1>8, <1>18, <1>19, <1>20 DEF T
-----------------------------------------------------------------------------
(* A completion is taken: finish_active and maybe_cleanup_control.         *)

\* A terminal event stays in the journal when events are added.
LEMMA JoinTells ==
    ASSUME NEW p \in Seq(EventTypes), NEW q \in Seq(EventTypes)
    PROVE  HasTerminalEvent(p) \/ HasTerminalEvent(q) => HasTerminalEvent(p \o q)
<1> DEFINE r == p \o q
<1>1. /\ r \in Seq(EventTypes)
      /\ Len(p) \in Nat /\ Len(q) \in Nat /\ Len(r) = Len(p) + Len(q)
      /\ \A i \in 1..Len(p) : r[i] = p[i]
      /\ \A i \in 1..Len(q) : r[Len(p) + i] = q[i]
  BY Joined
<1>2. DOMAIN p = 1..Len(p) /\ DOMAIN q = 1..Len(q) /\ DOMAIN r = 1..Len(r)
  BY <1>1
<1> HIDE DEF r
<1>3. ASSUME HasTerminalEvent(p) PROVE HasTerminalEvent(r)
  <2>1. PICK i \in 1..Len(p) : p[i] \in {"completed", "failed"}
    BY <1>2, <1>3 DEF HasTerminalEvent
  <2>2. i \in 1..Len(r) /\ r[i] = p[i]
    BY <1>1
  <2> QED
    BY <1>2, <2>1, <2>2 DEF HasTerminalEvent
<1>4. ASSUME HasTerminalEvent(q) PROVE HasTerminalEvent(r)
  <2>1. PICK i \in 1..Len(q) : q[i] \in {"completed", "failed"}
    BY <1>2, <1>4 DEF HasTerminalEvent
  <2>2. Len(p) + i \in 1..Len(r) /\ r[Len(p) + i] = q[i]
    BY <1>1
  <2> QED
    BY <1>2, <2>1, <2>2 DEF HasTerminalEvent
<1> QED
  BY <1>3, <1>4 DEF r

\* What the first completion leaves behind it.
LEMMA FewerCompletions ==
    ASSUME NEW S \in SchedType, NEW T \in SchedType, S.completions # << >>,
           T.completions = Tail(S.completions)
    PROVE  LET e == Head(S.completions)
           IN  /\ e \in Completion /\ Reported(S, e.command)
               /\ CancelsAnswer(S) => CancelsAnswer(T) /\ CancelAnswers(e)
               /\ ReportedOnce(S) =>
                     /\ ReportedOnce(T)
                     /\ \A c : Reported(T, c) <=> Reported(S, c) /\ c # e.command
               /\ \A s : Ends(S, s) => Ends(T, s) \/ (e.command.session = s /\ HasTerminalEvent(e.events))
<1> DEFINE p == S.completions
           q == T.completions
           e == Head(p)
<1>0. p \in Seq(Completion) /\ q = Tail(p)
  BY Fields
<1>1. /\ q \in Seq(Completion) /\ Len(p) \in Nat /\ Len(q) = Len(p) - 1
      /\ e = p[1] /\ e \in Completion /\ 1 \in 1..Len(p)
      /\ \A i \in 1..Len(q) : i + 1 \in 1..Len(p) /\ q[i] = p[i + 1]
      /\ \A i \in 1..Len(p) : i = 1 \/ (i - 1 \in 1..Len(q) /\ q[i - 1] = p[i])
  BY <1>0, Rest
<1>2. /\ \A c : Reported(S, c) <=> \E i \in 1..Len(p) : p[i].command = c
      /\ \A c : Reported(T, c) <=> \E i \in 1..Len(q) : q[i].command = c
      /\ ReportedOnce(S) <=> \A i, j \in 1..Len(p) : p[i].command = p[j].command => i = j
      /\ ReportedOnce(T) <=> \A i, j \in 1..Len(q) : q[i].command = q[j].command => i = j
  BY DEF Reported, ReportedOnce
<1>3. /\ CancelsAnswer(S) <=> \A i \in 1..Len(p) : CancelAnswers(p[i])
      /\ CancelsAnswer(T) <=> \A i \in 1..Len(q) : CancelAnswers(q[i])
  BY DEF CancelsAnswer
<1>4. /\ \A s : Ends(S, s) => \E i \in 1..Len(p) :
                 p[i].command.session = s /\ HasTerminalEvent(p[i].events)
      /\ \A s : Ends(T, s) <=> \E i \in 1..Len(q) :
                 q[i].command.session = s /\ HasTerminalEvent(q[i].events)
  BY DEF Ends
<1> SUFFICES /\ e \in Completion /\ Reported(S, e.command)
             /\ CancelsAnswer(S) => CancelsAnswer(T) /\ CancelAnswers(e)
             /\ ReportedOnce(S) =>
                   /\ ReportedOnce(T)
                   /\ \A c : Reported(T, c) <=> Reported(S, c) /\ c # e.command
             /\ \A s : Ends(S, s) => Ends(T, s) \/ (e.command.session = s /\ HasTerminalEvent(e.events))
  OBVIOUS
<1> HIDE DEF p, q, e
<1>5. Reported(S, e.command) /\ (CancelsAnswer(S) => CancelsAnswer(T) /\ CancelAnswers(e))
  BY <1>1, <1>2, <1>3
<1>6. ASSUME ReportedOnce(S)
      PROVE  ReportedOnce(T) /\ \A c : Reported(T, c) <=> Reported(S, c) /\ c # e.command
  <2>1. ASSUME NEW i \in 1..Len(q), NEW j \in 1..Len(q), q[i].command = q[j].command
        PROVE  i = j
    <3>1. i + 1 \in 1..Len(p) /\ j + 1 \in 1..Len(p) /\ p[i + 1].command = p[j + 1].command
      BY <1>1, <2>1
    <3>2. i + 1 = j + 1
      BY <1>2, <1>6, <3>1
    <3> QED
      BY <1>1, <3>2
  <2>2. ASSUME NEW c, Reported(T, c) PROVE Reported(S, c) /\ c # e.command
    <3>1. PICK i \in 1..Len(q) : q[i].command = c
      BY <1>2, <2>2
    <3>2. i + 1 \in 1..Len(p) /\ p[i + 1].command = c /\ i + 1 # 1
      BY <1>1, <3>1
    <3> QED
      BY <1>1, <1>2, <1>6, <3>2
  <2>3. ASSUME NEW c, Reported(S, c), c # e.command PROVE Reported(T, c)
    <3>1. PICK i \in 1..Len(p) : p[i].command = c
      BY <1>2, <2>3
    <3>2. i - 1 \in 1..Len(q) /\ q[i - 1] = p[i]
      BY <1>1, <2>3, <3>1
    <3> QED
      BY <1>2, <3>1, <3>2
  <2> QED
    BY <1>2, <2>1, <2>2, <2>3
<1>7. ASSUME NEW s, Ends(S, s)
      PROVE  Ends(T, s) \/ (e.command.session = s /\ HasTerminalEvent(e.events))
  <2>1. PICK i \in 1..Len(p) : p[i].command.session = s /\ HasTerminalEvent(p[i].events)
    BY <1>4, <1>7
  <2> QED
    BY <1>1, <1>4, <2>1
<1> QED
  BY <1>1, <1>5, <1>6, <1>7

\* The scheduler after its first completion is taken and the command removed, and
\* the events are journaled.
Popped(S) == [S EXCEPT !.completions = Tail(@)]
Taken(S) == RemoveFinished(Popped(S), Head(S.completions).command, Head(S.completions).events)
Journaled(S, E) ==
    [E EXCEPT ![Head(S.completions).command.session] = @ \o Head(S.completions).events]

\* RemoveFinished, field by field.
LEMMA TakenFields ==
    ASSUME NEW S \in SchedType, S.completions # << >>,
           NEW e, e = Head(S.completions), NEW c, c = e.command, NEW s, s = c.session
    PROVE  /\ Taken(S) \in SchedType /\ e \in Completion /\ c \in CommandIds /\ s \in Sessions
           /\ Taken(S).suppressed = S.suppressed \ {c} /\ Taken(S).queue = S.queue
           /\ Taken(S).active[s] = IF c \in S.suppressed THEN S.active[s] ELSE 0
           /\ Taken(S).pending[s] = 0
           /\ Taken(S).running = S.running
           /\ Taken(S).completions = Tail(S.completions)
           /\ \A t \in Sessions \ {s} :
                 /\ Taken(S).active[t] = S.active[t] /\ Taken(S).pending[t] = S.pending[t]
                 /\ Taken(S).control[t] = S.control[t]
           /\ Taken(S).control[s].exists <=> S.control[s].exists
           /\ Taken(S).control[s].cancelled <=> S.control[s].cancelled
           /\ Taken(S).control[s].terminal <=> S.control[s].terminal \/ HasTerminalEvent(e.events)
<1>1. Tail(S.completions) \in Seq(Completion) /\ e \in Completion
  BY Fields, Rest
<1>2. c \in CommandIds /\ s \in Sessions
  BY <1>1, Ids DEF Completion
<1> DEFINE flag == S.control[s].terminal \/ HasTerminalEvent(e.events)
           new == [S.control[s] EXCEPT !.terminal = flag]
           act == [S.active EXCEPT ![s] = IF c \in S.suppressed THEN @ ELSE 0]
           pen == [S.pending EXCEPT ![s] = 0]
           con == [S.control EXCEPT ![s] = new]
           sup == S.suppressed \ {c}
           com == Tail(S.completions)
           T == Taken(S)
<1>3. new \in Control /\ new.exists = S.control[s].exists /\ new.cancelled = S.control[s].cancelled
  <2>1. flag \in BOOLEAN
    BY <1>2, ControlFields DEF HasTerminalEvent
  <2> HIDE DEF flag
  <2> QED
    BY <1>2, <2>1, ControlFields DEF Control
<1>4. new.terminal <=> flag
  BY <1>2, ControlFields DEF Control
<1>5. act \in [Sessions -> 0..MaxCommands] /\ pen \in [Sessions -> 0..MaxCommands]
  BY <1>2, Fields, Ids
<1>6. con \in [Sessions -> Control] /\ sup \in SUBSET CommandIds
  BY <1>2, <1>3, Fields
<1> DEFINE P == Popped(S)
<1>7. /\ P.suppressed = S.suppressed /\ P.active = S.active /\ P.control = S.control
      /\ P.pending = S.pending /\ P.queue = S.queue /\ P.running = S.running
      /\ P.completions = com /\ P \in SchedType
  BY <1>1 DEF Popped, SchedType
<1>8. T = [P EXCEPT !.suppressed = sup, !.active = act, !.control = con, !.pending = pen]
  <2>1. T = RemoveFinished(P, c, e.events)
    BY DEF Taken
  <2> HIDE DEF T, P
  <2> QED
    BY <1>7, <2>1 DEF RemoveFinished
<1> HIDE DEF new, act, pen, con, sup, com, T, P
<1>9. /\ T \in SchedType /\ T.suppressed = sup /\ T.active = act /\ T.control = con
      /\ T.pending = pen /\ T.queue = S.queue /\ T.running = S.running
      /\ T.completions = com
  BY <1>5, <1>6, <1>7, <1>8 DEF SchedType
<1>10. T.control[s] = new /\ \A t \in Sessions \ {s} : T.control[t] = S.control[t]
  BY <1>2, <1>9, Fields DEF con
<1>11. T.control[s].terminal <=> S.control[s].terminal \/ HasTerminalEvent(e.events)
  BY <1>4, <1>10
<1>12. /\ T.control[s].exists <=> S.control[s].exists
       /\ T.control[s].cancelled <=> S.control[s].cancelled
  BY <1>3, <1>10
<1>13. /\ T.active[s] = IF c \in S.suppressed THEN S.active[s] ELSE 0
       /\ T.pending[s] = 0
       /\ \A t \in Sessions \ {s} : T.active[t] = S.active[t] /\ T.pending[t] = S.pending[t]
  BY <1>2, <1>9, Fields DEF act, pen
<1> QED
  BY <1>1, <1>2, <1>9, <1>10, <1>11, <1>12, <1>13 DEF T, sup, com

\* The journaled events, and that what was told stays told.
EventsType(E) == E \in [Sessions -> Seq(EventTypes)]
KeepsTold(S, E, T, F) == \A t \in Sessions : Told(S, E, t) => Told(T, F, t)

\* Taking a completion gives up its command, and a cancellation that waited.
LEMMA TakenGood ==
    ASSUME NEW S, NEW W, NEW E, EventsType(E), Good(S, W, E),
           S.completions # << >>,
           NEW e, e = Head(S.completions), NEW c, c = e.command, NEW s, s = c.session
    PROVE  LET T == Taken(S)
               F == Journaled(S, E)
           IN  /\ Good(T, W, F)
               /\ IsActive(S, c) \/ c \in S.suppressed
               /\ \A d \in CommandIds :
                     IsHeld(T, d) <=> IsHeld(S, d) /\ d # c /\ ~(d.session = s /\ IsPending(S, d))
               /\ KeepsTold(S, E, T, F)
               /\ IsCancel(c) => Told(T, F, s)
               /\ EventsType(F)
<1> DEFINE T == Taken(S)
           F == Journaled(S, E)
<1>0. S \in SchedType /\ Apart(S) /\ Followed(S, W) /\ Controlled(S) /\ Tells(S, E) /\ CancelsAnswer(S)
  BY DEF Good
<1>1. /\ T \in SchedType /\ e \in Completion /\ c \in CommandIds /\ s \in Sessions
      /\ T.suppressed = S.suppressed \ {c} /\ T.queue = S.queue
      /\ T.active[s] = IF c \in S.suppressed THEN S.active[s] ELSE 0
      /\ T.pending[s] = 0
      /\ T.running = S.running
      /\ T.completions = Tail(S.completions)
      /\ \A t \in Sessions \ {s} :
            /\ T.active[t] = S.active[t] /\ T.pending[t] = S.pending[t]
            /\ T.control[t] = S.control[t]
  BY <1>0, TakenFields
<1>2. /\ T.control[s].exists <=> S.control[s].exists
      /\ T.control[s].cancelled <=> S.control[s].cancelled
      /\ T.control[s].terminal <=> S.control[s].terminal \/ HasTerminalEvent(e.events)
  BY <1>0, TakenFields
<1>3. /\ Reported(S, c)
      /\ CancelsAnswer(T) /\ CancelAnswers(e)
      /\ ReportedOnce(T)
      /\ \A d : Reported(T, d) <=> Reported(S, d) /\ d # c
      /\ \A t : Ends(S, t) => Ends(T, t) \/ (s = t /\ HasTerminalEvent(e.events))
  <2>1. ReportedOnce(S)
    BY <1>0 DEF Followed
  <2> QED
    BY <1>0, <1>1, <2>1, FewerCompletions
<1> HIDE DEF T
<1>4. IsActive(S, c) \/ c \in S.suppressed
  BY <1>0, <1>1, <1>3 DEF Followed
<1>5. IsHeld(S, c) /\ S.control[s].exists
  BY <1>0, <1>1, <1>4 DEF IsHeld, Controlled
<1>6. \A d \in CommandIds : IsActive(T, d) <=> IsActive(S, d) /\ d # c
  <2>1. ASSUME NEW d \in CommandIds, d.session # s PROVE IsActive(T, d) <=> IsActive(S, d)
    BY <1>0, <1>1, <2>1, Fields, Ids DEF IsActive
  <2>2. ASSUME NEW d \in CommandIds, d.session = s, c \in S.suppressed
        PROVE  IsActive(T, d) <=> IsActive(S, d)
    BY <1>0, <1>1, <2>2, Fields DEF IsActive
  <2>3. ASSUME NEW d \in CommandIds, d.session = s, c \notin S.suppressed
        PROVE  ~IsActive(T, d) /\ (IsActive(S, d) => d = c)
    <3>1. T.active[s] = 0
      BY <1>0, <1>1, <2>3, Fields
    <3>2. S.active[s] = c.seq
      BY <1>4, <2>3 DEF IsActive
    <3> QED
      BY <1>1, <2>3, <3>1, <3>2, Ids DEF IsActive
  <2>4. c \in S.suppressed => ~IsActive(S, c)
    BY <1>0, <1>1 DEF Apart
  <2> QED
    BY <2>1, <2>2, <2>3, <2>4
<1>7. \A d \in CommandIds : IsPending(T, d) <=> IsPending(S, d) /\ d.session # s
  BY <1>0, <1>1, Fields, Ids DEF IsPending
<1>8. \A d : IsQueued(T, d) <=> IsQueued(S, d)
  BY <1>1 DEF IsQueued
<1>9. \A d \in CommandIds :
         IsHeld(T, d) <=> IsHeld(S, d) /\ d # c /\ ~(d.session = s /\ IsPending(S, d))
  BY <1>0, <1>1, <1>4, <1>6, <1>7, <1>8 DEF IsHeld, Apart
<1>10. Apart(T)
  BY <1>0, <1>1, <1>6, <1>7, <1>8 DEF Apart
<1>11. Followed(T, W)
  <2>1. c \notin S.running /\ ~Working(W, c)
    BY <1>0, <1>1, <1>3 DEF Followed
  <2> QED
    BY <1>0, <1>1, <1>3, <1>6, <2>1 DEF Followed
<1>12. Controlled(T)
  <2>1. ASSUME NEW t \in Sessions
        PROVE  /\ ~T.control[t].exists => T.control[t] = NoControl
               /\ T.control[t].cancelled => server[t].cancelled
               /\ T.pending[t] # 0 => T.active[t] # 0 \/ \E d \in T.suppressed : d.session = t
    <3>1. CASE t = s
      BY <1>0, <1>1, <1>2, <1>5, <3>1 DEF Controlled
    <3>2. CASE t # s
      <4>1. (\E d \in S.suppressed : d.session = t) => \E d \in T.suppressed : d.session = t
        BY <1>1, <3>2
      <4> QED
        BY <1>0, <1>1, <3>2, <4>1 DEF Controlled
    <3> QED
      BY <3>1, <3>2
  <2>2. ASSUME NEW d \in CommandIds
        PROVE  /\ IsHeld(T, d) => T.control[d.session].exists
               /\ IsHeld(T, d) /\ IsCancel(d) => T.control[d.session].cancelled
               /\ IsPending(T, d) => IsCancel(d)
               /\ d \in T.suppressed => /\ ~IsCancel(d) /\ T.control[d.session].cancelled
                                        /\ T.control[d.session].terminal
               /\ IsQueued(T, d) /\ ~IsCancel(d) => ~T.control[d.session].cancelled
    <3>0. /\ IsHeld(T, d) => IsHeld(S, d)
          /\ IsPending(T, d) => IsPending(S, d)
          /\ d \in T.suppressed => d \in S.suppressed
      BY <1>1, <1>7, <1>9
    <3>1. CASE d.session = s
      BY <1>0, <1>2, <1>8, <3>0, <3>1 DEF Controlled
    <3>2. CASE d.session # s
      BY <1>0, <1>1, <1>8, <3>0, <3>2, Ids DEF Controlled
    <3> QED
      BY <3>1, <3>2
  <2> QED
    BY <2>1, <2>2 DEF Controlled
<1>13. /\ F \in [Sessions -> Seq(EventTypes)]
       /\ \A t \in Sessions : HasTerminalEvent(E[t]) => HasTerminalEvent(F[t])
       /\ HasTerminalEvent(e.events) => HasTerminalEvent(F[s])
  <2>1. F = [E EXCEPT ![s] = E[s] \o e.events]
    BY DEF Journaled
  <2>2. E[s] \in Seq(EventTypes) /\ e.events \in Seq(EventTypes)
    BY <1>1 DEF Completion, EventsType
  <2> DEFINE j == E[s] \o e.events
  <2>3. j \in Seq(EventTypes) /\ (HasTerminalEvent(E[s]) \/ HasTerminalEvent(e.events) => HasTerminalEvent(j))
    BY <2>2, Joined, JoinTells
  <2>4. F = [E EXCEPT ![s] = j]
    BY <2>1
  <2> HIDE DEF j, F
  <2>5. F \in [Sessions -> Seq(EventTypes)] /\ F[s] = j /\ \A t \in Sessions \ {s} : F[t] = E[t]
    BY <1>1, <2>3, <2>4 DEF EventsType
  <2> QED
    BY <2>3, <2>5
<1> HIDE DEF F
<1>14. /\ \A t \in Sessions : Told(S, E, t) => Told(T, F, t)
       /\ HasTerminalEvent(e.events) => Told(T, F, s)
  BY <1>1, <1>3, <1>13 DEF Told
<1>15. Tells(T, F)
  <2>1. ASSUME NEW t \in Sessions, T.control[t].terminal PROVE Told(T, F, t)
    <3>1. CASE t = s
      BY <1>0, <1>2, <1>14, <2>1, <3>1 DEF Tells
    <3>2. CASE t # s
      BY <1>0, <1>1, <1>14, <2>1, <3>2 DEF Tells
    <3> QED
      BY <3>1, <3>2
  <2> QED
    BY <2>1 DEF Tells
<1>16. Good(T, W, F)
  BY <1>1, <1>3, <1>10, <1>11, <1>12, <1>15 DEF Good
<1>17. IsCancel(c) => Told(T, F, s)
  BY <1>3, <1>14 DEF CancelAnswers
<1> QED
  BY <1>4, <1>9, <1>13, <1>14, <1>16, <1>17 DEF T, F, EventsType, KeepsTold

\* A control is only given up with nothing of its session held.
LEMMA CleanupGood ==
    ASSUME NEW S, NEW W, NEW E, Good(S, W, E), NEW s \in Sessions
    PROVE  LET T == MaybeCleanup(S, s)
           IN  /\ Good(T, W, E)
               /\ \A c \in CommandIds : IsHeld(T, c) <=> IsHeld(S, c)
               /\ \A t \in Sessions \ {s} : T.control[t] = S.control[t]
               /\ T.control[s].terminal => Busy(T, s) /\ T.control[s] = S.control[s]
               /\ T.completions = S.completions
               /\ QueueMoves(S, W) => QueueMoves(T, W)
<1> DEFINE T == MaybeCleanup(S, s)
<1>0. S \in SchedType /\ Apart(S) /\ Followed(S, W) /\ Controlled(S) /\ Tells(S, E) /\ CancelsAnswer(S)
  BY DEF Good
<1>1. CASE ~(S.control[s].terminal /\ ~Busy(S, s))
  BY <1>1 DEF MaybeCleanup
<1>2. CASE S.control[s].terminal /\ ~Busy(S, s)
  <2>1. NoControl \in Control /\ ~NoControl.exists /\ ~NoControl.cancelled /\ ~NoControl.terminal
    BY DEF NoControl, Control
  <2>2. /\ T \in SchedType /\ T.control = [S.control EXCEPT ![s] = NoControl]
        /\ T.active = S.active /\ T.pending = S.pending /\ T.queue = S.queue
        /\ T.suppressed = S.suppressed /\ T.running = S.running /\ T.completions = S.completions
    BY <1>0, <1>2, <2>1 DEF MaybeCleanup, SchedType
  <2> HIDE DEF T
  <2>3. T.control[s] = NoControl /\ \A t \in Sessions \ {s} : T.control[t] = S.control[t]
    BY <1>0, <2>2, Fields
  <2>4. ~T.control[s].exists /\ ~T.control[s].cancelled /\ ~T.control[s].terminal
    BY <2>1, <2>3
  <2>5. /\ \A d : IsActive(T, d) <=> IsActive(S, d)
        /\ \A d : IsPending(T, d) <=> IsPending(S, d)
        /\ \A d : IsQueued(T, d) <=> IsQueued(S, d)
        /\ \A d : IsHeld(T, d) <=> IsHeld(S, d)
        /\ \A d : Reported(T, d) <=> Reported(S, d)
    BY <2>2 DEF IsActive, IsPending, IsQueued, IsHeld, Reported
  <2>6. Apart(T)
    BY <1>0, <2>2, <2>5 DEF Apart
  <2>7. Followed(T, W)
    BY <1>0, <2>2, <2>5 DEF Followed, ReportedOnce
  <2>8. \A c \in CommandIds : c.session = s => ~IsHeld(S, c)
    BY <1>0, <1>2, BusyIsHeld
  <2>9. Controlled(T)
    <3>1. \A c \in CommandIds : IsPending(S, c) \/ IsQueued(S, c) \/ c \in S.suppressed => IsHeld(S, c)
      BY DEF IsHeld
    <3> QED
      BY <1>0, <2>2, <2>3, <2>4, <2>5, <2>8, <3>1, Ids DEF Controlled
  <2>10. Tells(T, E) /\ CancelsAnswer(T)
    BY <1>0, <2>2, <2>3, <2>4 DEF Tells, Told, Ends, CancelsAnswer
  <2>11. Good(T, W, E)
    BY <2>2, <2>6, <2>7, <2>9, <2>10 DEF Good
  <2>12. QueueMoves(S, W) => QueueMoves(T, W)
    BY <2>2 DEF QueueMoves
  <2> QED
    BY <2>2, <2>3, <2>4, <2>5, <2>11, <2>12 DEF T
<1> QED
  BY <1>1, <1>2

\* finish_active after that: the queue is drained, the control perhaps given up.
LEMMA FinishActiveGood ==
    ASSUME NEW S, NEW W, NEW E, Good(S, W, E), NEW s \in Sessions, NEW n
    PROVE  LET T == FinishActive(S, s, n, S.control[s].terminal)
           IN  /\ Good(T, W, E)
               /\ \A c \in CommandIds : IsHeld(T, c) <=> IsHeld(S, c)
               /\ \A t \in Sessions \ {s} : T.control[t] = S.control[t]
               /\ n # 0 => T.control[s] = S.control[s]
               /\ T.control[s].terminal => T.control[s] = S.control[s]
               /\ T.control[s].terminal /\ n = 0 => Busy(T, s)
               /\ T.completions = S.completions
               /\ QueueMoves(T, W)
<1> DEFINE T == FinishActive(S, s, n, S.control[s].terminal)
           D == DrainQueue(S)
<1>1. /\ Good(D, W, E)
      /\ \A c \in CommandIds : IsHeld(D, c) <=> IsHeld(S, c)
      /\ D.control = S.control /\ D.completions = S.completions
      /\ QueueMoves(D, W)
  BY DrainGood
<1> HIDE DEF D
<1>2. CASE n = 0 /\ S.control[s].terminal
  <2>1. T = MaybeCleanup(D, s)
    BY <1>2 DEF FinishActive, D
  <2>2. /\ Good(T, W, E)
        /\ \A c \in CommandIds : IsHeld(T, c) <=> IsHeld(D, c)
        /\ \A t \in Sessions \ {s} : T.control[t] = D.control[t]
        /\ T.control[s].terminal => Busy(T, s) /\ T.control[s] = D.control[s]
        /\ T.completions = D.completions
        /\ QueueMoves(D, W) => QueueMoves(T, W)
    BY <1>1, <2>1, CleanupGood
  <2> HIDE DEF T
  <2> QED
    BY <1>1, <1>2, <2>2 DEF T
<1>3. CASE ~(n = 0 /\ S.control[s].terminal)
  <2>1. T = D
    BY <1>3 DEF FinishActive, D
  <2> HIDE DEF T
  <2> QED
    BY <1>1, <1>3, <2>1 DEF T
<1> QED
  BY <1>2, <1>3
-----------------------------------------------------------------------------
(* The journal's rows of one session, cs, as a step of the main loop       *)
(* changes them.                                                           *)

Rows(s, cs) ==
    /\ cs \in Seq(JournalRow)
    /\ Len(cs) = Len(commands[s])
    /\ \A n \in 1..Len(cs) : cs[n].kind = commands[s][n].kind
    /\ RowsInv(cs)

SetState(cs, n, x) == [cs EXCEPT ![n].state = x]

\* Setting the state of one row leaves the kinds and the other rows.
LEMMA StateIsSet ==
    ASSUME NEW cs \in Seq(JournalRow), NEW n \in 1..Len(cs), NEW x \in States
    PROVE  /\ SetState(cs, n, x) \in Seq(JournalRow)
           /\ Len(SetState(cs, n, x)) = Len(cs) /\ Len(cs) \in Nat
           /\ SetState(cs, n, x)[n].state = x
           /\ \A m \in 1..Len(cs) : SetState(cs, n, x)[m].kind = cs[m].kind
           /\ \A m \in 1..Len(cs) : m # n => SetState(cs, n, x)[m] = cs[m]
<1> DEFINE row == [cs[n] EXCEPT !.state = x]
           T == SetState(cs, n, x)
<1>0. cs[n] \in JournalRow
  OBVIOUS
<1>1. row \in JournalRow /\ row.state = x /\ row.kind = cs[n].kind
  BY <1>0 DEF JournalRow
<1>2. T = [cs EXCEPT ![n] = row]
  BY DEF SetState
<1> HIDE DEF row, T
<1>3. /\ T \in Seq(JournalRow) /\ Len(T) = Len(cs) /\ Len(cs) \in Nat /\ T[n] = row
      /\ \A m \in 1..Len(cs) : m # n => T[m] = cs[m]
  BY <1>1, <1>2
<1> QED
  BY <1>1, <1>3 DEF T

\* A row may start when the ones before it are terminal, or be a cancel; a
\* terminal one stays so.
LEMMA RowsKept ==
    ASSUME NEW s, NEW cs, Rows(s, cs), NEW n \in 1..Len(cs), NEW x \in States,
           x = "terminal" \/ cs[n].state # "terminal",
           x = "dispatch_started" => cs[n].kind = "cancel" \/ Expected(cs, n)
    PROVE  Rows(s, SetState(cs, n, x))
<1> DEFINE T == SetState(cs, n, x)
<1>0. cs \in Seq(JournalRow) /\ RowsInv(cs)
  BY DEF Rows
<1>1. /\ T \in Seq(JournalRow) /\ Len(T) = Len(cs) /\ Len(cs) \in Nat
      /\ T[n].state = x
      /\ \A m \in 1..Len(cs) : T[m].kind = cs[m].kind
      /\ \A m \in 1..Len(cs) : m # n => T[m] = cs[m]
  BY <1>0, StateIsSet
<1> HIDE DEF T
<1>2. ASSUME NEW m \in 1..Len(cs), Expected(cs, m) PROVE Expected(T, m)
  <2>1. ASSUME NEW k \in 1..m - 1 PROVE T[k].state = "terminal"
    <3>1. k \in 1..Len(cs) /\ cs[k].state = "terminal"
      BY <1>1, <1>2 DEF Expected
    <3> QED
      BY <1>1, <3>1
  <2> QED
    BY <2>1 DEF Expected
<1>3. ASSUME NEW m \in 1..Len(cs), T[m].state = "dispatch_started", T[m].kind # "cancel"
      PROVE  Expected(T, m)
  <2>1. CASE m = n
    BY <1>1, <1>2, <1>3, <2>1
  <2>2. CASE m # n
    BY <1>0, <1>1, <1>2, <1>3, <2>2 DEF RowsInv
  <2> QED
    BY <2>1, <2>2
<1>4. RowsInv(T)
  BY <1>0, <1>1, <1>3 DEF RowsInv
<1> QED
  BY <1>1, <1>4 DEF Rows, T

\* Rows and scheduler agree on session s, but for the commands numbered in X.
HeldIn(S, s, cs, X) ==
    \A d \in CommandIds : d.session = s =>
        (IsHeld(S, d) <=> /\ d.seq <= Len(cs)
                          /\ cs[d.seq].state = "dispatch_started"
                          /\ d.seq \notin X)

\* What the rest of a step does to the scheduler.
Advances(S, T, W, s) ==
    /\ \A d \in CommandIds : IsHeld(S, d) => IsHeld(T, d)
    /\ \A d \in CommandIds : d.session # s /\ IsHeld(T, d) => IsHeld(S, d)
    /\ \A t \in Sessions \ {s} : T.control[t] = S.control[t]
    /\ S.control[s].cancelled => T.control[s].cancelled
    /\ \A t \in Sessions : Ends(S, t) => Ends(T, t)
    /\ QueueMoves(S, W) => QueueMoves(T, W)

\* The cancel of a session is the last of its rows.
LEMMA OneCancel ==
    ASSUME NEW s \in Sessions, NEW cs, Rows(s, cs), NEW c \in CommandIds, c.session = s,
           c.seq <= Len(cs), IsCancel(c), NEW d \in CommandIds, d.session = s, d.seq <= Len(cs),
           IsCancel(d)
    PROVE  c = d
<1>1. /\ cs[c.seq].kind = "cancel" /\ cs[d.seq].kind = "cancel" /\ c.seq \in 1..Len(cs)
      /\ d.seq \in 1..Len(cs)
  <2>1. Len(cs) \in Nat
    BY DEF Rows
  <2>2. c.seq \in 1..Len(cs) /\ d.seq \in 1..Len(cs)
    BY <2>1, Ids
  <2> QED
    BY <2>2 DEF Rows, IsCancel, Kind
<1>2. c.seq = d.seq
  BY <1>1 DEF Rows, RowsInv
<1> QED
  BY <1>2, Ids

\* A command is started: its row, and schedule.
LEMMA StartGood ==
    ASSUME NEW S, NEW W, NEW E, Good(S, W, E), ServerInv, NEW s \in Sessions, NEW cs, Rows(s, cs),
           NEW X, HeldIn(S, s, cs, X), NEW m \in 1..Len(cs),
           cs[m].state = "received", m \notin X, cs[m].kind = "cancel" \/ Expected(cs, m),
           NEW c, c = [session |-> s, seq |-> m]
    PROVE  LET T == Schedule(S, c)
               ds == SetState(cs, m, "dispatch_started")
           IN  /\ Good(T, W, E)
               /\ Rows(s, ds)
               /\ HeldIn(T, s, ds, X)
               /\ Advances(S, T, W, s)
               /\ IsHeld(T, c)
               /\ T.control[s].terminal => S.control[s].terminal \/ (T.control[s].cancelled /\ Busy(T, s))
<1> DEFINE T == Schedule(S, c)
           ds == SetState(cs, m, "dispatch_started")
<1>0. cs \in Seq(JournalRow) /\ Len(cs) \in Nat /\ Len(cs) <= MaxCommands /\ Len(cs) = Len(commands[s])
  BY DEF Rows, RowsInv
<1>1. m \in 1..MaxCommands /\ c \in CommandIds /\ c.session = s /\ c.seq = m
  BY <1>0, Ids
<1>2. ~IsHeld(S, c)
  BY <1>0, <1>1 DEF HeldIn
<1>3. Loose(S, c)
  BY <1>1, <1>2 DEF Loose
<1>4. IsCancel(c) => /\ server[s].cancelled
                     /\ \A d \in CommandIds : d.session = s /\ IsCancel(d) => ~IsHeld(S, d)
  <2> HAVE IsCancel(c)
  <2>1. commands[s][m].kind = "cancel"
    BY <1>1 DEF IsCancel, Kind
  <2>2. server[s].cancelled
    BY <1>0, <2>1 DEF ServerInv
  <2>3. ASSUME NEW d \in CommandIds, d.session = s, IsCancel(d), IsHeld(S, d) PROVE FALSE
    <3>1. d.seq <= Len(cs)
      BY <2>3 DEF HeldIn
    <3>2. c = d
      BY <1>0, <1>1, <2>3, <3>1, OneCancel
    <3> QED
      BY <1>2, <2>3, <3>2
  <2> QED
    BY <2>2, <2>3
<1>5. /\ Good(T, W, E)
      /\ Takes(S, T, c)
      /\ T.control[s].terminal => S.control[s].terminal \/ T.control[s].cancelled
      /\ QueueMoves(S, W) => QueueMoves(T, W)
  BY <1>1, <1>3, <1>4, ScheduleGood
<1> HIDE DEF T
<1>6. Rows(s, ds)
  BY RowsKept DEF States
<1>7. /\ Len(ds) = Len(cs) /\ ds[m].state = "dispatch_started"
      /\ \A k \in 1..Len(cs) : k # m => ds[k] = cs[k]
  BY <1>0, StateIsSet DEF States
<1> HIDE DEF ds
<1>8. HeldIn(T, s, ds, X)
  <2>1. ASSUME NEW d \in CommandIds, d.session = s
        PROVE  IsHeld(T, d) <=> /\ d.seq <= Len(ds)
                                /\ ds[d.seq].state = "dispatch_started"
                                /\ d.seq \notin X
    <3>1. CASE d = c
      BY <1>0, <1>1, <1>5, <1>7, <3>1 DEF Takes
    <3>2. CASE d # c
      <4>1. d.seq # m /\ d.seq \in 1..MaxCommands
        BY <1>1, <2>1, <3>2, Ids
      <4>2. d.seq <= Len(cs) => ds[d.seq] = cs[d.seq]
        BY <1>0, <1>7, <4>1
      <4>3. IsHeld(T, d) <=> IsHeld(S, d)
        BY <1>5, <3>2 DEF Takes
      <4> QED
        BY <1>7, <2>1, <4>2, <4>3 DEF HeldIn
    <3> QED
      BY <3>1, <3>2
  <2> QED
    BY <2>1 DEF HeldIn
<1>9. Advances(S, T, W, s)
  BY <1>1, <1>5 DEF Advances, Takes
<1>10. IsHeld(T, c)
  BY <1>1, <1>5 DEF Takes
<1>11. Busy(T, s)
  BY <1>1, <1>5, <1>10, BusyIsHeld DEF Good
<1> QED
  BY <1>5, <1>6, <1>8, <1>9, <1>10, <1>11 DEF T, ds

\* finish_runtime: command n is terminal, and the next ready one is started.
Finishes(S, W, E, s, cs, X, n, at, T, ds) ==
    /\ FinishRuntime(at, s, n) = [state |-> T, commands |-> ds]
    /\ Good(T, W, E)
    /\ Rows(s, ds)
    /\ HeldIn(T, s, ds, X \ {n})
    /\ Advances(S, T, W, s)
    /\ T.control[s].terminal =>
          S.control[s].terminal \/ (T.control[s].cancelled /\ Busy(T, s))
    /\ \A k \in 1..Len(ds) : ds[k].state = "terminal" => cs[k].state = "terminal" \/ k = n
    /\ \A k \in X \ {n} : k \in 1..Len(ds) /\ ds[k].state = "dispatch_started"

\* With n under way in the journal and given up by the scheduler, both agree again.
LEMMA FinishRuntimeGood ==
    ASSUME NEW S, NEW W, NEW E, Good(S, W, E), ServerInv, NEW s \in Sessions, NEW cs, Rows(s, cs),
           NEW X, HeldIn(S, s, cs, X), NEW n \in X,
           \A k \in X : k \in 1..Len(cs) /\ cs[k].state = "dispatch_started",
           NEW at, at = [state |-> S, commands |-> cs]
    PROVE  \E T, ds : Finishes(S, W, E, s, cs, X, n, at, T, ds)
<1> DEFINE es == SetState(cs, n, "terminal")
           next == NextReady(es)
<1>0. /\ cs \in Seq(JournalRow) /\ Len(cs) \in Nat /\ n \in 1..Len(cs)
      /\ cs[n].state = "dispatch_started"
  BY DEF Rows
<1>1. FinishRuntime(at, s, n) =
         IF next = {} THEN [state |-> S, commands |-> es]
         ELSE [state |-> Schedule(S, [session |-> s, seq |-> CHOOSE m \in next : TRUE]),
               commands |-> SetState(es, CHOOSE m \in next : TRUE, "dispatch_started")]
  <2>1. at.commands = cs /\ at.state = S
    OBVIOUS
  <2>2. [at EXCEPT !.commands = es] = [state |-> S, commands |-> es]
    OBVIOUS
  <2> QED
    BY <2>1, <2>2 DEF FinishRuntime, SetState
<1>2. Rows(s, es)
  BY <1>0, RowsKept DEF States
<1>3. /\ es \in Seq(JournalRow) /\ Len(es) = Len(cs) /\ es[n].state = "terminal"
      /\ \A k \in 1..Len(cs) : k # n => es[k] = cs[k]
  BY <1>0, StateIsSet DEF States
<1> HIDE DEF es
<1>4. HeldIn(S, s, es, X \ {n})
  <2>1. ASSUME NEW d \in CommandIds, d.session = s
        PROVE  IsHeld(S, d) <=> /\ d.seq <= Len(es)
                                /\ es[d.seq].state = "dispatch_started"
                                /\ d.seq \notin X \ {n}
    <3>1. IsHeld(S, d) <=> d.seq <= Len(cs) /\ cs[d.seq].state = "dispatch_started" /\ d.seq \notin X
      BY <2>1 DEF HeldIn
    <3>2. CASE d.seq = n
      BY <1>0, <1>3, <3>1, <3>2
    <3>3. CASE d.seq # n
      <4>1. d.seq <= Len(cs) => es[d.seq] = cs[d.seq]
        BY <1>0, <1>3, <3>3, Ids
      <4> QED
        BY <1>3, <3>1, <3>3, <4>1
    <3> QED
      BY <3>2, <3>3
  <2> QED
    BY <2>1 DEF HeldIn
<1>5. \A k \in X \ {n} : k \in 1..Len(es) /\ es[k].state = "dispatch_started"
  BY <1>3
<1>6. \A k \in 1..Len(es) : es[k].state = "terminal" => cs[k].state = "terminal" \/ k = n
  BY <1>3
<1>7. CASE next = {}
  <2>1. Advances(S, S, W, s)
    BY DEF Advances
  <2>2. FinishRuntime(at, s, n) = [state |-> S, commands |-> es]
    BY <1>1, <1>7
  <2> QED
    BY <1>2, <1>4, <1>5, <1>6, <2>1, <2>2 DEF Finishes
<1>8. CASE next # {}
  <2> DEFINE mm == CHOOSE m \in next : TRUE
             c == [session |-> s, seq |-> mm]
             T == Schedule(S, c)
             ds == SetState(es, mm, "dispatch_started")
  <2>1. FinishRuntime(at, s, n) = [state |-> T, commands |-> ds]
    BY <1>1, <1>8
  <2>2. mm \in next
    BY <1>8
  <2> HIDE DEF mm
  <2>3. mm \in 1..Len(es) /\ es[mm].state = "received" /\ Expected(es, mm)
    BY <1>3, <2>2 DEF NextReady
  <2>4. mm \notin X \ {n}
    BY <1>5, <2>3
  <2>5. /\ Good(T, W, E)
        /\ Rows(s, ds)
        /\ HeldIn(T, s, ds, X \ {n})
        /\ Advances(S, T, W, s)
        /\ T.control[s].terminal => S.control[s].terminal \/ (T.control[s].cancelled /\ Busy(T, s))
    BY <1>2, <1>4, <2>3, <2>4, StartGood
  <2>6. /\ Len(ds) = Len(es) /\ ds[mm].state = "dispatch_started"
        /\ \A k \in 1..Len(es) : k # mm => ds[k] = es[k]
    BY <1>3, <2>3, StateIsSet DEF States
  <2> HIDE DEF T, ds
  <2>7. /\ \A k \in 1..Len(ds) : ds[k].state = "terminal" => cs[k].state = "terminal" \/ k = n
        /\ \A k \in X \ {n} : k \in 1..Len(ds) /\ ds[k].state = "dispatch_started"
    BY <1>5, <1>6, <2>6
  <2> QED
    BY <2>1, <2>5, <2>7 DEF Finishes
<1> QED
  BY <1>7, <1>8
-----------------------------------------------------------------------------
(* HandleCompletion: finish_active, finish_runtime and the followup.       *)

\* A session's cancellation apart, one command of it is under way.
LEMMA OneUnderWay ==
    ASSUME IInv, NEW c \in CommandIds, NEW d \in CommandIds, c.session = d.session,
           IsHeld(sched, c), IsHeld(sched, d), ~sched.control[c.session].cancelled
    PROVE  c = d
<1> DEFINE cs == commands[c.session]
<1>1. Controlled(sched) /\ JournalInv(commands) /\ HeldBy(sched) = Dispatched(commands)
  BY DEF IInv, Good
<1>2. ~IsCancel(c) /\ ~IsCancel(d)
  BY <1>1 DEF Controlled
<1>3. c \in Dispatched(commands) /\ d \in Dispatched(commands)
  BY <1>1 DEF HeldBy
<1>4. cs \in Seq(JournalRow) /\ RowsInv(cs) /\ c.seq \in Nat /\ d.seq \in Nat /\ Len(cs) \in Nat
  BY <1>1, Ids DEF JournalInv
<1>5. /\ c.seq \in 1..Len(cs) /\ d.seq \in 1..Len(cs)
      /\ cs[c.seq].state = "dispatch_started" /\ cs[d.seq].state = "dispatch_started"
  BY <1>3, <1>4, Ids DEF Dispatched
<1>6. Expected(cs, c.seq) /\ Expected(cs, d.seq)
  BY <1>2, <1>4, <1>5 DEF RowsInv, IsCancel, Kind
<1> HIDE DEF cs
<1>7. ~(c.seq < d.seq) /\ ~(d.seq < c.seq)
  BY <1>4, <1>5, <1>6 DEF Expected
<1> QED
  BY <1>4, <1>7, Ids

\* The journal and the scheduler between two steps.
LEMMA HeldIsStarted ==
    ASSUME IInv, NEW s \in Sessions
    PROVE  Rows(s, commands[s]) /\ HeldIn(sched, s, commands[s], {})
<1>1. JournalInv(commands) /\ HeldBy(sched) = Dispatched(commands)
  BY DEF IInv
<1>2. Rows(s, commands[s])
  BY <1>1 DEF JournalInv, Rows
<1>3. \A d \in CommandIds : IsHeld(sched, d) <=> d \in Dispatched(commands)
  BY <1>1 DEF HeldBy
<1> QED
  BY <1>2, <1>3 DEF HeldIn, Dispatched

\* In the course of handling a completion of session s: the scheduler U, the rows cs
\* of the session, the journaled events F, and the commands X still to be finished.
Settling(s, X, cs, U, F) ==
    /\ Good(U, workers, F)
    /\ Rows(s, cs)
    /\ HeldIn(U, s, cs, X)
    /\ \A k \in X : k \in 1..Len(cs) /\ cs[k].state = "dispatch_started"
    /\ \A d \in CommandIds : d.session # s => (IsHeld(U, d) <=> IsHeld(sched, d))
    /\ \A t \in Sessions \ {s} : U.control[t] = sched.control[t]
    /\ QueueMoves(U, workers)
    /\ \A t \in Sessions : Told(sched, emitted, t) => Told(U, F, t)
    /\ \A k \in 1..Len(cs) : cs[k].kind = "cancel" /\ cs[k].state = "terminal" => Told(U, F, s)

\* finish_runtime takes n out of what is still to be finished.
LEMMA FinishSettles ==
    ASSUME NEW s \in Sessions, NEW X, NEW cs, NEW U, NEW F, Settling(s, X, cs, U, F), ServerInv,
           NEW n \in X, cs[n].kind = "cancel" => Told(U, F, s),
           NEW at, at = [state |-> U, commands |-> cs]
    PROVE  \E T, ds :
              /\ FinishRuntime(at, s, n) = [state |-> T, commands |-> ds]
              /\ Settling(s, X \ {n}, ds, T, F)
              /\ Advances(U, T, workers, s)
              /\ T.control[s].terminal =>
                    U.control[s].terminal \/ (T.control[s].cancelled /\ Busy(T, s))
<1>1. /\ Good(U, workers, F) /\ Rows(s, cs) /\ HeldIn(U, s, cs, X)
      /\ \A k \in X : k \in 1..Len(cs) /\ cs[k].state = "dispatch_started"
  BY DEF Settling
<1>p. PICK T, ds : Finishes(U, workers, F, s, cs, X, n, at, T, ds)
  BY <1>1, FinishRuntimeGood
<1>2. /\ FinishRuntime(at, s, n) = [state |-> T, commands |-> ds]
      /\ Good(T, workers, F)
      /\ Rows(s, ds)
      /\ HeldIn(T, s, ds, X \ {n})
      /\ Advances(U, T, workers, s)
      /\ T.control[s].terminal =>
            U.control[s].terminal \/ (T.control[s].cancelled /\ Busy(T, s))
      /\ \A k \in 1..Len(ds) : ds[k].state = "terminal" => cs[k].state = "terminal" \/ k = n
      /\ \A k \in X \ {n} : k \in 1..Len(ds) /\ ds[k].state = "dispatch_started"
  BY <1>p DEF Finishes
<1>3. \A d \in CommandIds : d.session # s => (IsHeld(T, d) <=> IsHeld(sched, d))
  BY <1>2 DEF Settling, Advances
<1>4. \A t \in Sessions \ {s} : T.control[t] = sched.control[t]
  BY <1>2 DEF Settling, Advances
<1>5. QueueMoves(T, workers)
  BY <1>2 DEF Settling, Advances
<1>6. \A t \in Sessions : Told(U, F, t) => Told(T, F, t)
  BY <1>2 DEF Advances, Told
<1>7. \A t \in Sessions : Told(sched, emitted, t) => Told(T, F, t)
  BY <1>6 DEF Settling
<1>8. ASSUME NEW k \in 1..Len(ds), ds[k].kind = "cancel", ds[k].state = "terminal"
      PROVE  Told(T, F, s)
  <2>1. k \in 1..Len(cs) /\ cs[k].kind = "cancel"
    BY <1>1, <1>2, <1>8 DEF Rows
  <2>2. Told(U, F, s)
    BY <1>2, <1>8, <2>1 DEF Settling
  <2> QED
    BY <1>6, <2>2
<1>9. Settling(s, X \ {n}, ds, T, F)
  BY <1>2, <1>3, <1>4, <1>5, <1>7, <1>8 DEF Settling
<1> QED
  BY <1>2, <1>9

\* The followup of a cancellation that waited.
Follows(s, w, over, F, at, T, ds) ==
    /\ FollowUp(at, s, w, over) = [state |-> T, commands |-> ds]
    /\ Settling(s, {}, ds, T, F)
    /\ Tidy(T, s)

\* The cancel that waited is finished, or goes to the runtime.
LEMMA FollowUpSettles ==
    ASSUME NEW s \in Sessions, NEW w \in 1..MaxCommands, NEW cs, NEW U, NEW F,
           Settling(s, {w}, cs, U, F), ServerInv, U.control[s].cancelled,
           NEW over \in BOOLEAN, over => Told(U, F, s),
           NEW at, at = [state |-> U, commands |-> cs]
    PROVE  \E T, ds : Follows(s, w, over, F, at, T, ds)
<1>0. /\ Good(U, workers, F) /\ Rows(s, cs) /\ HeldIn(U, s, cs, {w})
      /\ w \in 1..Len(cs) /\ cs[w].state = "dispatch_started"
  BY DEF Settling
<1>1. CASE over
  <2>1. PICK T, ds :
            /\ FinishRuntime(at, s, w) = [state |-> T, commands |-> ds]
            /\ Settling(s, {w} \ {w}, ds, T, F)
            /\ Advances(U, T, workers, s)
    <3> DEFINE X == {w}
    <3>1. Settling(s, X, cs, U, F) /\ w \in X
      OBVIOUS
    <3>2. {w} \ {w} = X \ {w}
      OBVIOUS
    <3> HIDE DEF X
    <3>3. \E T, ds :
            /\ FinishRuntime(at, s, w) = [state |-> T, commands |-> ds]
            /\ Settling(s, X \ {w}, ds, T, F)
            /\ Advances(U, T, workers, s)
      BY <1>1, <3>1, FinishSettles
    <3> QED
      BY <3>2, <3>3
  <2>2. Settling(s, {}, ds, T, F)
    <3>1. {w} \ {w} = {}
      OBVIOUS
    <3> QED
      BY <2>1, <3>1
  <2> DEFINE V == MaybeCleanup(T, s)
  <2>3. FollowUp(at, s, w, over) = [state |-> V, commands |-> ds]
    <3>1. FollowUp(at, s, w, over) = [FinishRuntime(at, s, w) EXCEPT !.state = MaybeCleanup(@, s)]
      BY <1>1 DEF FollowUp
    <3>2. FollowUp(at, s, w, over) = [[state |-> T, commands |-> ds] EXCEPT !.state = MaybeCleanup(@, s)]
      BY <2>1, <3>1
    <3> QED
      BY <3>2
  <2>4. Good(T, workers, F)
    BY <2>2 DEF Settling
  <2>5. /\ Good(V, workers, F)
        /\ \A d \in CommandIds : IsHeld(V, d) <=> IsHeld(T, d)
        /\ \A t \in Sessions \ {s} : V.control[t] = T.control[t]
        /\ V.control[s].terminal => Busy(V, s) /\ V.control[s] = T.control[s]
        /\ V.completions = T.completions
        /\ QueueMoves(T, workers) => QueueMoves(V, workers)
    BY <2>4, CleanupGood
  <2> HIDE DEF V
  <2>6. \A t : Told(V, F, t) <=> Told(T, F, t)
    BY <2>5 DEF Told, Ends
  <2>7. HeldIn(V, s, ds, {})
    BY <2>2, <2>5 DEF HeldIn, Settling
  <2>8. Settling(s, {}, ds, V, F)
    BY <2>2, <2>5, <2>6, <2>7 DEF Settling
  <2>9. Tidy(V, s)
    BY <2>1, <2>5 DEF Tidy, Advances
  <2> QED
    BY <2>3, <2>8, <2>9 DEF Follows
<1>2. CASE ~over
  <2> DEFINE p == [session |-> s, seq |-> w]
             V == ControlFor(U, s)
             T == ScheduleRuntime(V, p)
  <2>1. FollowUp(at, s, w, over) = [state |-> T, commands |-> cs]
    <3>1. w # 0
      OBVIOUS
    <3>2. at.state = U
      OBVIOUS
    <3>3. FollowUp(at, s, w, over) = [at EXCEPT !.state = T]
      BY <1>2, <3>1, <3>2 DEF FollowUp
    <3> HIDE DEF T
    <3> QED
      BY <3>3
  <2>2. p \in CommandIds /\ p.session = s /\ p.seq = w
    BY Ids
  <2> HIDE DEF p
  <2>3. /\ Good(V, workers, F) /\ V.control[s].exists
        /\ V.control[s].cancelled <=> U.control[s].cancelled
        /\ \A t \in Sessions \ {s} : V.control[t] = U.control[t]
        /\ V.active = U.active /\ V.pending = U.pending /\ V.queue = U.queue
        /\ V.suppressed = U.suppressed /\ V.running = U.running
        /\ V.completions = U.completions
    BY <1>0, ControlForGood
  <2> HIDE DEF V
  <2>4. /\ \A d : IsHeld(V, d) <=> IsHeld(U, d)
        /\ \A t : Ends(V, t) <=> Ends(U, t)
        /\ QueueMoves(V, workers) <=> QueueMoves(U, workers)
    BY <2>3 DEF IsHeld, IsActive, IsPending, IsQueued, Ends, QueueMoves
  <2>5. ~IsHeld(U, p)
    BY <1>0, <2>2 DEF HeldIn
  <2>6. Loose(V, p)
    BY <2>2, <2>4, <2>5 DEF Loose
  <2>7. /\ Good(T, workers, F)
        /\ Takes(V, T, p)
        /\ T.control[s].cancelled
        /\ QueueMoves(V, workers) => QueueMoves(T, workers)
    BY <2>2, <2>3, <2>6, ScheduleRuntimeGood
  <2> HIDE DEF T
  <2>8. \A d \in CommandIds : IsHeld(T, d) <=> IsHeld(U, d) \/ d = p
    BY <2>4, <2>7 DEF Takes
  <2>9. HeldIn(T, s, cs, {})
    <3>1. ASSUME NEW d \in CommandIds, d.session = s
          PROVE  IsHeld(T, d) <=> d.seq <= Len(cs) /\ cs[d.seq].state = "dispatch_started"
      <4>1. IsHeld(U, d) <=> d.seq <= Len(cs) /\ cs[d.seq].state = "dispatch_started" /\ d.seq # w
        BY <1>0, <3>1 DEF HeldIn
      <4>2. d = p <=> d.seq = w
        BY <2>2, <3>1, Ids
      <4>3. w <= Len(cs)
        BY <1>0 DEF Rows
      <4> QED
        BY <1>0, <2>8, <4>1, <4>2, <4>3
    <3> QED
      BY <3>1 DEF HeldIn
  <2>10. \A d \in CommandIds : d.session # s => (IsHeld(T, d) <=> IsHeld(sched, d))
    BY <2>2, <2>8 DEF Settling
  <2>11. \A t \in Sessions \ {s} : T.control[t] = sched.control[t]
    BY <2>2, <2>3, <2>7 DEF Takes, Settling
  <2>12. QueueMoves(T, workers)
    BY <2>4, <2>7 DEF Settling
  <2>13. \A t \in Sessions : Told(U, F, t) => Told(T, F, t)
    BY <2>4, <2>7 DEF Takes, Told
  <2>14. Settling(s, {}, cs, T, F)
    BY <2>7, <2>9, <2>10, <2>11, <2>12, <2>13 DEF Settling
  <2>15. Busy(T, s)
    BY <2>2, <2>7, <2>8, BusyIsHeld DEF Good
  <2> QED
    BY <2>1, <2>7, <2>14, <2>15 DEF Tidy, Follows
<1> QED
  BY <1>1, <1>2

\* The completion at hand: its command, its session, the cancellation that waited,
\* whether the session has ended, and the scheduler that finish_active leaves.
DoneBy == Head(sched.completions).command
DoneIn == DoneBy.session
Waited == sched.pending[DoneIn]
Over == Taken(sched).control[DoneIn].terminal
Left == FinishActive(Taken(sched), DoneIn, Waited, Over)
Emitted == Journaled(sched, emitted)

\* finish_active leaves the command, and the cancel that waited, to be finished.
LEMMA TakenSettles ==
    ASSUME IInv, sched.completions # << >>
    PROVE  /\ DoneBy \in CommandIds /\ DoneIn \in Sessions /\ DoneBy.seq \in 1..MaxCommands
           /\ Waited \in 0..MaxCommands /\ DoneBy.seq # Waited /\ Over \in BOOLEAN
           /\ Emitted \in [Sessions -> Seq(EventTypes)]
           /\ Settling(DoneIn, {DoneBy.seq, Waited} \ {0}, commands[DoneIn], Left, Emitted)
           /\ IsCancel(DoneBy) \/ Over => Told(Left, Emitted, DoneIn)
           /\ Waited # 0 => Left.control[DoneIn].cancelled
           /\ Waited = 0 => Tidy(Left, DoneIn)
<1>0. /\ Good(sched, workers, emitted) /\ sched \in SchedType /\ Apart(sched) /\ Controlled(sched)
      /\ EventsType(emitted) /\ ServerInv
      /\ Answered(sched, commands, emitted)
  BY DEF IInv, Good, EventsType
<1>a. PICK e : e = Head(sched.completions)
  OBVIOUS
<1>b. PICK c : c = e.command
  OBVIOUS
<1>c. PICK s : s = c.session
  OBVIOUS
<1>d. PICK S : S = Taken(sched)
  OBVIOUS
<1>e. PICK F : F = Journaled(sched, emitted)
  OBVIOUS
<1>1. /\ c \in CommandIds /\ s \in Sessions /\ S \in SchedType
      /\ \A t \in Sessions \ {s} : S.control[t] = sched.control[t]
      /\ S.control[s].cancelled <=> sched.control[s].cancelled
  BY <1>0, <1>a, <1>b, <1>c, <1>d, TakenFields
<1>2. /\ Good(S, workers, F)
      /\ IsActive(sched, c) \/ c \in sched.suppressed
      /\ \A d \in CommandIds :
            IsHeld(S, d) <=> IsHeld(sched, d) /\ d # c /\ ~(d.session = s /\ IsPending(sched, d))
      /\ \A t \in Sessions : Told(sched, emitted, t) => Told(S, F, t)
      /\ IsCancel(c) => Told(S, F, s)
      /\ F \in [Sessions -> Seq(EventTypes)]
  <2>1. Good(Taken(sched), workers, Journaled(sched, emitted))
    BY <1>0, <1>a, <1>b, <1>c, TakenGood
  <2>2. IsActive(sched, c) \/ c \in sched.suppressed
    BY <1>0, <1>a, <1>b, <1>c, TakenGood
  <2>3. \A d \in CommandIds : IsHeld(Taken(sched), d) <=>
              IsHeld(sched, d) /\ d # c /\ ~(d.session = s /\ IsPending(sched, d))
    BY <1>0, <1>a, <1>b, <1>c, TakenGood
  <2>4. KeepsTold(sched, emitted, Taken(sched), Journaled(sched, emitted))
    BY <1>0, <1>a, <1>b, <1>c, <2>1, TakenGood
  <2>5. IsCancel(c) => Told(Taken(sched), Journaled(sched, emitted), s)
    BY <1>0, <1>a, <1>b, <1>c, TakenGood
  <2>6. EventsType(Journaled(sched, emitted))
    BY <1>0, <1>a, <1>b, <1>c, <2>1, TakenGood
  <2> QED
    BY <1>d, <1>e, <2>1, <2>2, <2>3, <2>4, <2>5, <2>6 DEF KeepsTold, EventsType
<1>f. DoneBy = c /\ DoneIn = s
  BY <1>a, <1>b, <1>c DEF DoneBy, DoneIn
<1>g. PICK w : w = Waited
  OBVIOUS
<1>h. PICK U : U = FinishActive(S, s, w, S.control[s].terminal)
  OBVIOUS
<1>i. U = Left
  BY <1>d, <1>f, <1>g, <1>h DEF Left, Over
<1>3. /\ Good(U, workers, F)
      /\ \A d \in CommandIds : IsHeld(U, d) <=> IsHeld(S, d)
      /\ \A t \in Sessions \ {s} : U.control[t] = S.control[t]
      /\ w # 0 => U.control[s] = S.control[s]
      /\ U.control[s].terminal => U.control[s] = S.control[s]
      /\ U.control[s].terminal /\ w = 0 => Busy(U, s)
      /\ U.completions = S.completions
      /\ QueueMoves(U, workers)
  <2> DEFINE V == FinishActive(S, s, w, S.control[s].terminal)
  <2>1. /\ Good(V, workers, F)
        /\ \A d \in CommandIds : IsHeld(V, d) <=> IsHeld(S, d)
        /\ \A t \in Sessions \ {s} : V.control[t] = S.control[t]
        /\ w # 0 => V.control[s] = S.control[s]
        /\ V.control[s].terminal => V.control[s] = S.control[s]
        /\ V.control[s].terminal /\ w = 0 => Busy(V, s)
        /\ V.completions = S.completions
        /\ QueueMoves(V, workers)
    BY <1>1, <1>2, FinishActiveGood
  <2>2. U = V
    BY <1>h
  <2> HIDE DEF V
  <2> QED
    BY <2>1, <2>2
<1>4. IsHeld(sched, c) /\ ~IsPending(sched, c)
  BY <1>0, <1>1, <1>2 DEF IsHeld, Apart
<1> DEFINE cs == commands[s]
           X == {c.seq, w} \ {0}
<1>5. Rows(s, cs) /\ HeldIn(sched, s, cs, {})
  BY <1>1, HeldIsStarted
<1>6. /\ w = sched.pending[s] /\ w \in 0..MaxCommands /\ c.seq \in 1..MaxCommands
      /\ c.seq # w /\ c.seq # 0
  <2>1. w = sched.pending[s]
    BY <1>f, <1>g DEF Waited
  <2> QED
    BY <1>0, <1>1, <1>4, <1>c, <2>1, Fields, Ids DEF IsPending
<1>7. \A d \in CommandIds : d.session = s => (d.seq \in X <=> d = c \/ IsPending(sched, d))
  BY <1>1, <1>6, <1>c, Ids DEF IsPending
<1>8. HeldIn(U, s, cs, X)
  <2>1. ASSUME NEW d \in CommandIds, d.session = s
        PROVE  IsHeld(U, d) <=> d.seq <= Len(cs) /\ cs[d.seq].state = "dispatch_started" /\ d.seq \notin X
    <3>1. IsHeld(sched, d) <=> d.seq <= Len(cs) /\ cs[d.seq].state = "dispatch_started"
      BY <1>5, <2>1 DEF HeldIn
    <3>2. IsHeld(U, d) <=> IsHeld(sched, d) /\ d.seq \notin X
      BY <1>2, <1>3, <1>7, <2>1
    <3> QED
      BY <3>1, <3>2
  <2> QED
    BY <2>1 DEF HeldIn
<1>9. \A k \in X : k \in 1..Len(cs) /\ cs[k].state = "dispatch_started"
  <2>1. ASSUME NEW k \in X PROVE k \in 1..Len(cs) /\ cs[k].state = "dispatch_started"
    <3> DEFINE d == [session |-> s, seq |-> k]
    <3>1. d \in CommandIds /\ d.session = s /\ d.seq = k /\ k \in 1..MaxCommands
      BY <1>1, <1>6, Ids
    <3> HIDE DEF d
    <3>2. IsHeld(sched, d)
      BY <1>4, <1>7, <3>1 DEF IsHeld
    <3>3. k <= Len(cs) /\ cs[k].state = "dispatch_started"
      BY <1>5, <3>1, <3>2 DEF HeldIn
    <3>4. Len(cs) \in Nat
      BY <1>5 DEF Rows
    <3> QED
      BY <3>1, <3>3, <3>4
  <2> QED
    BY <2>1
<1> HIDE DEF X
<1>10. \A d \in CommandIds : d.session # s => (IsHeld(U, d) <=> IsHeld(sched, d))
  BY <1>2, <1>3, <1>c
<1>11. \A t \in Sessions \ {s} : U.control[t] = sched.control[t]
  BY <1>1, <1>3
<1>12. \A t : Told(S, F, t) <=> Told(U, F, t)
  BY <1>3 DEF Told, Ends
<1>13. \A t \in Sessions : Told(sched, emitted, t) => Told(U, F, t)
  BY <1>2, <1>12
<1>14. \A k \in 1..Len(cs) : cs[k].kind = "cancel" /\ cs[k].state = "terminal" => Told(U, F, s)
  BY <1>0, <1>1, <1>13 DEF Answered
<1>15. Settling(s, X, cs, U, F)
  BY <1>3, <1>5, <1>8, <1>9, <1>10, <1>11, <1>13, <1>14 DEF Settling
<1>16. IsCancel(c) => Told(U, F, s)
  BY <1>1, <1>2, <1>12
<1>17. S.control[s].terminal => Told(U, F, s)
  BY <1>1, <1>2, <1>12 DEF Good, Tells
<1>18. w # 0 => U.control[s].cancelled
  <2> HAVE w # 0
  <2>1. PICK p \in CommandIds : p.session = s /\ IsPending(sched, p)
    BY <1>0, <1>1, <1>6, ActiveIsACommand
  <2>2. sched.control[s].cancelled
    BY <1>0, <2>1 DEF Controlled, IsHeld
  <2> QED
    BY <1>1, <1>3, <2>2
<1>19. w = 0 => Tidy(U, s)
  <2> HAVE w = 0
  <2>1. SUFFICES ASSUME U.control[s].terminal PROVE U.control[s].cancelled /\ Busy(U, s)
    BY DEF Tidy
  <2>2. U.control[s] = S.control[s] /\ Busy(U, s)
    BY <1>3, <2>1
  <2>3. PICK d \in CommandIds : d.session = s /\ IsHeld(U, d)
    BY <1>1, <1>3, <2>2, BusyIsHeld DEF Good
  <2>4. IsHeld(sched, d) /\ d # c
    BY <1>2, <1>3, <2>3
  <2>5. sched.control[s].cancelled
    BY <1>1, <1>4, <1>c, <2>3, <2>4, OneUnderWay
  <2> QED
    BY <1>1, <2>2, <2>5
<1>20. Over \in BOOLEAN /\ (Over => Told(U, F, s))
  <2>1. Over = S.control[s].terminal
    BY <1>d, <1>f DEF Over
  <2>2. S.control[s].terminal \in BOOLEAN
    BY <1>1, ControlFields
  <2> QED
    BY <1>17, <2>1, <2>2
<1>21. Emitted = F
  BY <1>e DEF Emitted
<1> QED
  BY <1>1, <1>2, <1>6, <1>15, <1>16, <1>18, <1>19, <1>20, <1>21, <1>f, <1>g, <1>i DEF X

\* All of HandleCompletion, on the scheduler and the rows of the session.
LEMMA CompletionSettles ==
    ASSUME IInv, sched.completions # << >>,
           NEW at, at = [state |-> Left, commands |-> commands[DoneIn]]
    PROVE  \E T, ds :
              /\ FollowUp(FinishRuntime(at, DoneIn, DoneBy.seq), DoneIn, Waited, Over)
                    = [state |-> T, commands |-> ds]
              /\ Settling(DoneIn, {}, ds, T, Emitted)
              /\ Tidy(T, DoneIn)
<1> DEFINE X == {DoneBy.seq, Waited} \ {0}
           s == DoneIn
           n == DoneBy.seq
           w == Waited
           F == Emitted
           U == Left
           cs == commands[DoneIn]
<1>0. /\ DoneBy \in CommandIds /\ s \in Sessions /\ n \in 1..MaxCommands /\ DoneBy.session = s
      /\ w \in 0..MaxCommands /\ n # w /\ Over \in BOOLEAN
      /\ Settling(s, X, cs, U, F)
      /\ IsCancel(DoneBy) \/ Over => Told(U, F, s)
      /\ w # 0 => U.control[s].cancelled
      /\ w = 0 => Tidy(U, s)
  BY TakenSettles DEF DoneIn
<1>1. ServerInv
  BY DEF IInv
<1>2. n \in X
  BY <1>0
<1>3. cs[n].kind = "cancel" => Told(U, F, s)
  BY <1>0 DEF IsCancel, Kind
<1>4. at = [state |-> U, commands |-> cs]
  OBVIOUS
<1>5. w = 0 => X \ {n} = {}
  BY <1>0
<1>6. w # 0 => X \ {n} = {w} /\ w \in 1..MaxCommands
  BY <1>0
<1> HIDE DEF X, s, n, w, F, U, cs
<1>7. PICK T, ds :
          /\ FinishRuntime(at, s, n) = [state |-> T, commands |-> ds]
          /\ Settling(s, X \ {n}, ds, T, F)
          /\ Advances(U, T, workers, s)
          /\ T.control[s].terminal =>
                U.control[s].terminal \/ (T.control[s].cancelled /\ Busy(T, s))
  BY <1>0, <1>1, <1>2, <1>3, <1>4, FinishSettles
<1>8. CASE w = 0
  <2>1. FollowUp(FinishRuntime(at, s, n), s, w, Over) = [state |-> T, commands |-> ds]
    BY <1>7, <1>8 DEF FollowUp
  <2>2. Settling(s, {}, ds, T, F)
    BY <1>5, <1>7, <1>8
  <2>3. Tidy(T, s)
    <3>1. SUFFICES ASSUME U.control[s].terminal PROVE T.control[s].cancelled /\ Busy(T, s)
      BY <1>7 DEF Tidy
    <3>2. U.control[s].cancelled /\ Busy(U, s)
      BY <1>0, <1>8, <3>1 DEF Tidy
    <3>3. U \in SchedType /\ T \in SchedType
      BY <1>0, <2>2 DEF Settling, Good
    <3>4. PICK d \in CommandIds : d.session = s /\ IsHeld(U, d)
      BY <1>0, <3>2, <3>3, BusyIsHeld
    <3>5. IsHeld(T, d) /\ T.control[s].cancelled
      BY <1>7, <3>2, <3>4 DEF Advances
    <3> QED
      BY <1>0, <3>3, <3>4, <3>5, BusyIsHeld
  <2> QED
    BY <2>1, <2>2, <2>3 DEF s, n, w, F
<1>9. CASE w # 0
  <2>1. Settling(s, {w}, ds, T, F)
    BY <1>6, <1>7, <1>9
  <2>2. T.control[s].cancelled
    BY <1>0, <1>7, <1>9 DEF Advances
  <2>3. Over => Told(T, F, s)
    BY <1>0, <1>7 DEF Advances, Told
  <2>4. PICK bt : bt = [state |-> T, commands |-> ds]
    OBVIOUS
  <2>5. PICK V, es :
            /\ FollowUp(bt, s, w, Over) = [state |-> V, commands |-> es]
            /\ Settling(s, {}, es, V, F)
            /\ Tidy(V, s)
    <3>1. s \in Sessions /\ w \in 1..MaxCommands /\ Over \in BOOLEAN
      BY <1>0, <1>6, <1>9
    <3>2. \E V, es : Follows(s, w, Over, F, bt, V, es)
      BY <1>1, <2>1, <2>2, <2>3, <2>4, <3>1, FollowUpSettles
    <3> QED
      BY <3>2 DEF Follows
  <2>6. FollowUp(FinishRuntime(at, s, n), s, w, Over) = [state |-> V, commands |-> es]
    BY <1>7, <2>4, <2>5
  <2> QED
    BY <2>5, <2>6 DEF s, n, w, F
<1> QED
  BY <1>8, <1>9
-----------------------------------------------------------------------------
(* From the state before a step to the state after it.                     *)

\* Good looks at the server and at the kinds of the commands held.
LEMMA CarryGood ==
    ASSUME NEW S, NEW W, NEW E, Good(S, W, E),
           \A s \in Sessions : server[s].cancelled => server'[s].cancelled,
           \A s \in Sessions : Told(S, E, s) => Told(S, E, s)',
           \A c \in CommandIds : IsHeld(S, c) => (IsCancel(c)' <=> IsCancel(c))
    PROVE  Good(S, W, E)'
<1>0. S \in SchedType /\ Apart(S) /\ Followed(S, W) /\ Controlled(S) /\ Tells(S, E) /\ CancelsAnswer(S)
  BY DEF Good
<1>1. Controlled(S)'
  <2>1. \A c \in CommandIds : IsPending(S, c) \/ IsQueued(S, c) \/ c \in S.suppressed => IsHeld(S, c)
    BY DEF IsHeld
  <2> QED
    BY <1>0, <2>1 DEF Controlled
<1>2. Tells(S, E)'
  BY <1>0 DEF Tells
<1>3. CancelsAnswer(S)'
  <2>1. ASSUME NEW i \in 1..Len(S.completions) PROVE CancelAnswers(S.completions[i])'
    <3>1. S.completions[i] \in Completion
      BY <1>0, Fields
    <3>2. S.completions[i].command \in CommandIds /\ Reported(S, S.completions[i].command)
      BY <3>1 DEF Completion, Reported
    <3>3. IsHeld(S, S.completions[i].command)
      BY <1>0, <3>2 DEF Followed, IsHeld
    <3>4. CancelAnswers(S.completions[i])
      BY <1>0 DEF CancelsAnswer
    <3> QED
      BY <3>2, <3>3, <3>4 DEF CancelAnswers
  <2> QED
    BY <2>1 DEF CancelsAnswer
<1> QED
  BY <1>0, <1>1, <1>2, <1>3 DEF Good

\* A step of the main loop that changes the rows of session s.
LEMMA SettledKeeps ==
    ASSUME IInv, NEW s \in Sessions, NEW ds, NEW T, NEW F, Settling(s, {}, ds, T, F), Tidy(T, s),
           EventsType(F), sched' = T, commands' = [commands EXCEPT ![s] = ds], emitted' = F,
           UNCHANGED <<server, workers, context>>
    PROVE  IInv'
<1>0. /\ Good(sched, workers, emitted) /\ sched \in SchedType /\ Followed(sched, workers)
      /\ \A t \in Sessions : Tidy(sched, t)
      /\ JournalInv(commands) /\ HeldBy(sched) = Dispatched(commands) /\ ServerInv
      /\ Answered(sched, commands, emitted) /\ workers \subseteq Completion
      /\ \A w \in workers : CancelAnswers(w)
  BY DEF IInv, Good
<1>1. /\ Good(T, workers, F) /\ T \in SchedType /\ Rows(s, ds) /\ HeldIn(T, s, ds, {})
      /\ \A d \in CommandIds : d.session # s => (IsHeld(T, d) <=> IsHeld(sched, d))
      /\ \A t \in Sessions \ {s} : T.control[t] = sched.control[t]
      /\ QueueMoves(T, workers)
      /\ \A t \in Sessions : Told(sched, emitted, t) => Told(T, F, t)
      /\ \A k \in 1..Len(ds) : ds[k].kind = "cancel" /\ ds[k].state = "terminal" => Told(T, F, s)
  BY DEF Settling, Good
<1>2. commands \in [Sessions -> Seq(JournalRow)]
  BY <1>0 DEF JournalInv
<1>3. commands'[s] = ds /\ \A t \in Sessions : t # s => commands'[t] = commands[t]
  BY <1>2
<1>4. JournalInv(commands)'
  <2>1. ds \in Seq(JournalRow) /\ RowsInv(ds)
    BY <1>1 DEF Rows
  <2>2. commands' \in [Sessions -> Seq(JournalRow)]
    BY <1>2, <2>1
  <2>3. \A t \in Sessions : RowsInv(commands'[t])
    BY <1>0, <1>3, <2>1 DEF JournalInv
  <2> QED
    BY <2>2, <2>3 DEF JournalInv
<1>5. /\ Len(ds) = Len(commands[s]) /\ Len(ds) \in Nat
      /\ \A k \in 1..Len(ds) : ds[k].kind = commands[s][k].kind
  BY <1>1 DEF Rows
<1>6. \A t \in Sessions :
         /\ Len(commands'[t]) = Len(commands[t])
         /\ \A k \in 1..Len(commands[t]) : commands'[t][k].kind = commands[t][k].kind
  BY <1>3, <1>5
<1>7. ServerInv'
  BY <1>0, <1>6 DEF ServerInv
<1>8. HeldBy(T) = Dispatched(commands)'
  <2>1. ASSUME NEW d \in CommandIds
        PROVE  IsHeld(T, d) <=> /\ d.seq <= Len(commands'[d.session])
                                /\ commands'[d.session][d.seq].state = "dispatch_started"
    <3>1. CASE d.session = s
      BY <1>1, <1>3, <3>1 DEF HeldIn
    <3>2. CASE d.session # s
      <4>1. IsHeld(sched, d) <=> d \in Dispatched(commands)
        BY <1>0 DEF HeldBy
      <4> QED
        BY <1>1, <1>3, <3>2, <4>1, Ids DEF Dispatched
    <3> QED
      BY <3>1, <3>2
  <2> QED
    BY <2>1 DEF HeldBy, Dispatched
<1>9. \A d \in CommandIds : d.seq <= Len(commands[d.session]) => (IsCancel(d)' <=> IsCancel(d))
  <2>1. ASSUME NEW d \in CommandIds, d.seq <= Len(commands[d.session])
        PROVE  d.seq \in 1..Len(commands[d.session])
    <3>1. Len(commands[d.session]) \in Nat
      BY <1>2, Ids
    <3> QED
      BY <2>1, <3>1, Ids
  <2> QED
    BY <1>6, <2>1, Ids DEF IsCancel, Kind
<1>10. \A d \in CommandIds : IsHeld(T, d) => (IsCancel(d)' <=> IsCancel(d))
  <2>1. \A d \in CommandIds : IsHeld(T, d) => d.seq <= Len(commands'[d.session])
    BY <1>8 DEF HeldBy, Dispatched
  <2> QED
    BY <1>6, <1>9, <2>1, Ids
<1>11. \A t \in Sessions : Told(T, F, t)' <=> Told(T, F, t)
  BY DEF Told
<1>12. Good(T, workers, F)'
  <2>1. PICK W : W = workers
    OBVIOUS
  <2>2. Good(T, W, F)'
    BY <1>1, <1>10, <1>11, <2>1, CarryGood
  <2>3. W = workers'
    BY <2>1
  <2> QED
    BY <2>2, <2>3
<1>13. \A t \in Sessions : Tidy(T, t)
  <2>1. ASSUME NEW t \in Sessions, t # s PROVE Tidy(T, t)
    <3>1. Busy(T, t) <=> Busy(sched, t)
      BY <1>0, <1>1, <2>1, BusyIsHeld
    <3> QED
      BY <1>0, <1>1, <2>1, <3>1 DEF Tidy
  <2> QED
    BY <2>1
<1>14. Answered(T, commands, F)'
  <2>1. ASSUME NEW t \in Sessions, NEW k \in 1..Len(commands'[t]),
               commands'[t][k].kind = "cancel", commands'[t][k].state = "terminal"
        PROVE  Told(T, F, t)'
    <3>1. CASE t = s
      BY <1>1, <1>3, <1>11, <2>1, <3>1
    <3>2. CASE t # s
      BY <1>0, <1>1, <1>3, <1>11, <2>1, <3>2 DEF Answered
    <3> QED
      BY <3>1, <3>2
  <2> QED
    BY <2>1 DEF Answered
<1>15. \A w \in workers : CancelAnswers(w)'
  <2>1. ASSUME NEW w \in workers PROVE CancelAnswers(w)'
    <3>1. w.command \in CommandIds /\ Working(workers, w.command)
      BY <1>0 DEF Completion, Working
    <3>2. IsHeld(sched, w.command)
      BY <1>0, <3>1 DEF Followed, IsHeld
    <3>3. w.command.seq <= Len(commands[w.command.session])
      BY <1>0, <3>1, <3>2 DEF HeldBy, Dispatched
    <3>4. IsCancel(w.command)' <=> IsCancel(w.command)
      BY <1>9, <3>1, <3>3
    <3> QED
      BY <1>0, <3>4 DEF CancelAnswers
  <2> QED
    BY <2>1
<1>16. context' \in [Sessions -> Contexts] /\ workers' \subseteq Completion
  BY DEF IInv
<1>17. emitted' \in [Sessions -> Seq(EventTypes)]
  BY DEF EventsType
<1>18. QueueMoves(sched', workers')
  BY <1>1
<1> QED
  BY <1>4, <1>7, <1>8, <1>12, <1>13, <1>14, <1>15, <1>16, <1>17, <1>18 DEF IInv

\* The two steps of the main loop.
LEMMA HandleCompletionKeeps ==
    ASSUME IInv, HandleCompletion
    PROVE  IInv'
<1>0. sched.completions # << >>
  BY DEF HandleCompletion
<1>1. PICK at : at = [state |-> Left, commands |-> commands[DoneIn]]
  OBVIOUS
<1>2. PICK T, ds :
          /\ FollowUp(FinishRuntime(at, DoneIn, DoneBy.seq), DoneIn, Waited, Over)
                = [state |-> T, commands |-> ds]
          /\ Settling(DoneIn, {}, ds, T, Emitted)
          /\ Tidy(T, DoneIn)
  BY <1>0, <1>1, CompletionSettles
<1>3. DoneIn \in Sessions /\ EventsType(Emitted)
  BY <1>0, TakenSettles DEF EventsType
<1> DEFINE after == FollowUp(FinishRuntime(at, DoneIn, DoneBy.seq), DoneIn, Waited, Over)
<1>4. /\ sched' = after.state
      /\ commands' = [commands EXCEPT ![DoneIn] = after.commands]
      /\ emitted' = Emitted
      /\ UNCHANGED <<server, workers, context>>
  BY <1>1 DEF HandleCompletion, DoneBy, DoneIn, Waited, Over, Left, Emitted, Taken, Popped, Journaled
<1>5. after.state = T /\ after.commands = ds
  BY <1>2
<1> HIDE DEF after
<1>6. sched' = T /\ commands' = [commands EXCEPT ![DoneIn] = ds]
  BY <1>4, <1>5
<1> QED
  BY <1>2, <1>3, <1>4, <1>6, SettledKeeps

LEMMA ReceiveCommandKeeps ==
    ASSUME IInv, NEW c \in CommandIds, ReceiveCommand(c)
    PROVE  IInv'
<1> DEFINE s == c.session
           n == c.seq
           cs == SetState(commands[s], n, "received")
           ds == SetState(cs, n, "dispatch_started")
<1>0. /\ Good(sched, workers, emitted) /\ sched \in SchedType
      /\ \A t \in Sessions : Tidy(sched, t)
      /\ QueueMoves(sched, workers) /\ ServerInv
      /\ Answered(sched, commands, emitted) /\ EventsType(emitted)
      /\ commands \in [Sessions -> Seq(JournalRow)]
  BY DEF IInv, Good, EventsType, JournalInv
<1>1. s \in Sessions /\ c = [session |-> s, seq |-> n]
  BY Ids DEF CommandIds
<1>2. Rows(s, commands[s]) /\ HeldIn(sched, s, commands[s], {})
  BY <1>1, HeldIsStarted
<1>3. n \in 1..Len(commands[s]) /\ commands[s][n].state = "sent"
  BY <1>0, <1>1 DEF ReceiveCommand, State
<1>4. Rows(s, cs)
  BY <1>2, <1>3, RowsKept DEF States
<1>5. /\ Len(cs) = Len(commands[s]) /\ Len(cs) \in Nat /\ cs[n].state = "received"
      /\ \A k \in 1..Len(cs) : k # n => cs[k] = commands[s][k]
      /\ \A k \in 1..Len(cs) : cs[k].kind = commands[s][k].kind
      /\ cs \in Seq(JournalRow)
  <2>1. commands[s] \in Seq(JournalRow) /\ "received" \in States
    BY <1>0, <1>1 DEF States
  <2>2. Rows(s, cs)
    BY <1>4
  <2> HIDE DEF cs
  <2>3. Len(cs) = Len(commands[s]) /\ Len(cs) \in Nat /\ cs \in Seq(JournalRow)
        /\ \A k \in 1..Len(cs) : cs[k].kind = commands[s][k].kind
    BY <2>2 DEF Rows
  <2>4. cs[n].state = "received" /\ \A k \in 1..Len(cs) : k # n => cs[k] = commands[s][k]
    <3>1. PICK bs : bs = commands[s]
      OBVIOUS
    <3>2. bs \in Seq(JournalRow) /\ n \in 1..Len(bs) /\ "received" \in States
      BY <1>3, <2>1, <3>1
    <3>3. /\ SetState(bs, n, "received")[n].state = "received"
          /\ \A k \in 1..Len(bs) : k # n => SetState(bs, n, "received")[k] = bs[k]
      BY <3>2, StateIsSet
    <3> QED
      BY <2>3, <3>1, <3>3 DEF cs
  <2> QED
    BY <2>3, <2>4
<1>6. /\ UNCHANGED <<server, workers, context, emitted>>
      /\ \/ /\ Startable(cs, n)
            /\ commands' = [commands EXCEPT ![s] = ds]
            /\ sched' = Schedule(sched, c)
         \/ /\ commands' = [commands EXCEPT ![s] = cs]
            /\ sched' = sched
  BY DEF ReceiveCommand, SetState
<1> HIDE DEF cs
<1>7. HeldIn(sched, s, cs, {})
  <2>1. ASSUME NEW d \in CommandIds, d.session = s, d.seq <= Len(cs)
        PROVE  cs[d.seq].state = "dispatch_started" <=> commands[s][d.seq].state = "dispatch_started"
    <3>1. d.seq \in 1..Len(cs)
      BY <1>5, <2>1, Ids
    <3> QED
      BY <1>3, <1>5, <3>1
  <2> QED
    BY <1>2, <1>5, <2>1 DEF HeldIn
<1>8. \A k \in 1..Len(cs) : cs[k].kind = "cancel" /\ cs[k].state = "terminal" => Told(sched, emitted, s)
  BY <1>0, <1>1, <1>5 DEF Answered
<1>9. CASE commands' = [commands EXCEPT ![s] = cs] /\ sched' = sched
  <2>1. Settling(s, {}, cs, sched, emitted)
    BY <1>0, <1>4, <1>7, <1>8 DEF Settling
  <2>2. Tidy(sched, s)
    BY <1>0, <1>1
  <2>3. PICK T, F : T = sched /\ F = emitted
    OBVIOUS
  <2>4. Settling(s, {}, cs, T, F) /\ Tidy(T, s) /\ EventsType(F)
    BY <1>0, <2>1, <2>2, <2>3
  <2>5. sched' = T /\ emitted' = F
    BY <1>6, <1>9, <2>3
  <2> QED
    BY <1>1, <1>6, <1>9, <2>4, <2>5, SettledKeeps
<1>10. CASE Startable(cs, n) /\ commands' = [commands EXCEPT ![s] = ds] /\ sched' = Schedule(sched, c)
  <2> DEFINE T == Schedule(sched, c)
  <2>1. cs[n].kind = "cancel" \/ Expected(cs, n)
    BY <1>10 DEF Startable
  <2>2. /\ Good(T, workers, emitted)
        /\ Rows(s, ds)
        /\ HeldIn(T, s, ds, {})
        /\ Advances(sched, T, workers, s)
        /\ T.control[s].terminal =>
              sched.control[s].terminal \/ (T.control[s].cancelled /\ Busy(T, s))
    <3> DEFINE X == {}
    <3>1. HeldIn(sched, s, cs, X) /\ n \notin X
      BY <1>7
    <3>2. SUFFICES /\ Good(T, workers, emitted)
                   /\ Rows(s, ds)
                   /\ HeldIn(T, s, ds, X)
                   /\ Advances(sched, T, workers, s)
                   /\ T.control[s].terminal =>
                         sched.control[s].terminal \/ (T.control[s].cancelled /\ Busy(T, s))
      OBVIOUS
    <3> HIDE DEF X
    <3>3. n \in 1..Len(cs)
      BY <1>3, <1>5
    <3> QED
      BY <1>0, <1>1, <1>4, <1>5, <2>1, <3>1, <3>3, StartGood
  <2>3. /\ Len(ds) = Len(cs) /\ ds[n].state = "dispatch_started"
        /\ \A k \in 1..Len(cs) : k # n => ds[k] = cs[k]
    BY <1>3, <1>5, StateIsSet DEF States
  <2> HIDE DEF T, ds
  <2>4. \A t \in Sessions : Told(sched, emitted, t) => Told(T, emitted, t)
    BY <2>2 DEF Advances, Told
  <2>5. \A k \in 1..Len(ds) : ds[k].kind = "cancel" /\ ds[k].state = "terminal" => Told(T, emitted, s)
    BY <1>1, <1>8, <2>3, <2>4
  <2>6. Settling(s, {}, ds, T, emitted)
    BY <1>0, <2>2, <2>4, <2>5 DEF Settling, Advances
  <2>7. Tidy(T, s)
    <3>1. SUFFICES ASSUME sched.control[s].terminal PROVE T.control[s].cancelled /\ Busy(T, s)
      BY <2>2 DEF Tidy
    <3>2. sched.control[s].cancelled /\ Busy(sched, s)
      BY <1>0, <1>1, <3>1 DEF Tidy
    <3>3. T \in SchedType
      BY <2>2 DEF Good
    <3>4. PICK d \in CommandIds : d.session = s /\ IsHeld(sched, d)
      BY <1>0, <1>1, <3>2, BusyIsHeld
    <3>5. IsHeld(T, d) /\ T.control[s].cancelled
      BY <2>2, <3>2, <3>4 DEF Advances
    <3> QED
      BY <1>1, <3>3, <3>4, <3>5, BusyIsHeld
  <2>8. PICK V, F : V = T /\ F = emitted
    OBVIOUS
  <2>9. Settling(s, {}, ds, V, F) /\ Tidy(V, s) /\ EventsType(F)
    BY <1>0, <2>6, <2>7, <2>8
  <2>10. sched' = V /\ emitted' = F
    BY <1>6, <1>10, <2>8 DEF T
  <2> QED
    BY <1>1, <1>6, <1>10, <2>9, <2>10, SettledKeeps
<1> QED
  BY <1>6, <1>9, <1>10
-----------------------------------------------------------------------------
(* The workers.                                                            *)

\* What a worker may bring back; a cancel brings back a terminal event.
Outcome(kind, r) ==
    /\ r.events \in Seq(EventTypes)
    /\ r.context \in Contexts
    /\ kind = "cancel" => HasTerminalEvent(r.events)

\* The lists of events that workers report.
LEMMA EventLists ==
    /\ << >> \in Seq(EventTypes) /\ <<"started">> \in Seq(EventTypes)
    /\ <<"completed">> \in Seq(EventTypes) /\ <<"failed">> \in Seq(EventTypes)
    /\ <<"started", "completed">> \in Seq(EventTypes)
    /\ HasTerminalEvent(<<"completed">>) /\ HasTerminalEvent(<<"failed">>)
<1>1. "started" \in EventTypes /\ "completed" \in EventTypes /\ "failed" \in EventTypes
  BY DEF EventTypes
<1>2. /\ << >> \in Seq(EventTypes) /\ <<"started">> \in Seq(EventTypes)
      /\ <<"completed">> \in Seq(EventTypes) /\ <<"failed">> \in Seq(EventTypes)
      /\ <<"started", "completed">> \in Seq(EventTypes)
  BY <1>1
<1>3. HasTerminalEvent(<<"completed">>)
  BY DEF HasTerminalEvent
<1>4. HasTerminalEvent(<<"failed">>)
  BY DEF HasTerminalEvent
<1> QED
  BY <1>2, <1>3, <1>4

\* Every outcome of a dispatch is one, and every interruption of what is no cancel.
LEMMA OutcomesAre ==
    ASSUME NEW kind \in Kinds, NEW k \in Contexts
    PROVE  /\ \A r \in Outcomes(kind, k) : Outcome(kind, r)
           /\ kind # "cancel" => \A r \in Interrupted(kind, k) : Outcome(kind, r)
<1>1. "none" \in Contexts /\ "idle" \in Contexts /\ "in_flight" \in Contexts
  BY DEF Contexts
<1>2. ASSUME NEW e \in Seq(EventTypes), NEW x \in Contexts, kind = "cancel" => HasTerminalEvent(e)
      PROVE  Outcome(kind, [events |-> e, context |-> x])
  <2>1. [events |-> e, context |-> x].events = e /\ [events |-> e, context |-> x].context = x
    OBVIOUS
  <2> QED
    BY <1>2, <2>1 DEF Outcome
<1>3. Outcome(kind, [events |-> <<"failed">>, context |-> k])
  BY <1>2, EventLists
<1>4. Outcome(kind, [events |-> <<"completed">>, context |-> "none"])
  BY <1>1, <1>2, EventLists
<1>5. \A r \in Fails(k) : Outcome(kind, r)
  BY <1>3 DEF Fails
<1>6. ASSUME kind # "cancel", NEW r \in Started(k) PROVE Outcome(kind, r)
  <2>1. Outcome(kind, [events |-> <<"started">>, context |-> "idle"])
    BY <1>1, <1>2, <1>6, EventLists
  <2>2. Outcome(kind, [events |-> <<"started", "completed">>, context |-> "none"])
    BY <1>1, <1>2, <1>6, EventLists
  <2>3. Outcome(kind, [events |-> <<"failed">>, context |-> "in_flight"])
    BY <1>1, <1>2, EventLists
  <2>4. Outcome(kind, [events |-> <<"failed">>, context |-> "idle"])
    BY <1>1, <1>2, EventLists
  <2> QED
    BY <1>3, <2>1, <2>2, <2>3, <2>4, Zenon DEF Started
<1>7. ASSUME NEW r \in Outcomes(kind, k) PROVE Outcome(kind, r)
  <2>1. CASE kind = "start"
    <3>1. Outcomes(kind, k) = Started(k)
      BY <2>1 DEF Outcomes
    <3> QED
      BY <1>6, <1>7, <2>1, <3>1
  <2>2. CASE kind = "resume"
    <3>1. Outcomes(kind, k) = IF k = "none" THEN Fails(k) ELSE Started(k)
      BY <2>2 DEF Outcomes
    <3> QED
      BY <1>5, <1>6, <1>7, <2>2, <3>1
  <2>3. CASE kind = "message"
    <3> DEFINE quiet == [events |-> << >>, context |-> k]
               done == [events |-> <<"completed">>, context |-> "none"]
    <3>1. Outcomes(kind, k) = IF k # "idle" THEN Fails(k) ELSE Fails(k) \cup {quiet, done}
      BY <2>3 DEF Outcomes
    <3>2. Outcome(kind, quiet) /\ Outcome(kind, done)
      BY <1>2, <1>4, <2>3, EventLists
    <3> HIDE DEF quiet, done
    <3> QED
      BY <1>5, <1>7, <3>1, <3>2
  <2>4. CASE kind = "cancel"
    <3> DEFINE done == [events |-> <<"completed">>, context |-> "none"]
    <3>1. Outcomes(kind, k) = IF k # "idle" THEN Fails(k) ELSE {done}
      BY <2>4 DEF Outcomes
    <3>2. Outcome(kind, done)
      BY <1>4
    <3> HIDE DEF done
    <3> QED
      BY <1>5, <1>7, <3>1, <3>2
  <2> QED
    BY <2>1, <2>2, <2>3, <2>4 DEF Kinds
<1>8. ASSUME NEW r \in Interrupted(kind, k) PROVE Outcome(kind, r)
  <2>1. r.events = <<"completed">> /\ r.context \in {k, "idle", "none", "in_flight"}
    BY DEF Interrupted
  <2> QED
    BY <1>1, <2>1, EventLists DEF Outcome
<1> QED
  BY <1>7, <1>8

\* A step of a worker: where the commands are, and the journal, stay as they were.
LEMMA WorkersKeep ==
    ASSUME IInv, NEW T \in SchedType, NEW V \in SUBSET Completion,
           T.active = sched.active, T.pending = sched.pending, T.control = sched.control,
           T.suppressed = sched.suppressed, T.queue = sched.queue,
           Followed(T, V), CancelsAnswer(T), Cardinality(T.running) <= Permits,
           \A w \in V : CancelAnswers(w), Moving(T, V),
           \A s \in Sessions : Ends(sched, s) => Ends(T, s),
           sched' = T, workers' = V, context' \in [Sessions -> Contexts],
           UNCHANGED <<server, commands, emitted>>
    PROVE  IInv'
<1>0. /\ Good(sched, workers, emitted)
      /\ Apart(sched) /\ Controlled(sched) /\ Tells(sched, emitted)
      /\ HeldBy(sched) = Dispatched(commands) /\ JournalInv(commands) /\ ServerInv
      /\ Answered(sched, commands, emitted) /\ \A s \in Sessions : Tidy(sched, s)
      /\ emitted \in [Sessions -> Seq(EventTypes)]
  BY DEF IInv, Good
<1>1. \A c \in CommandIds :
         /\ IsActive(T, c) <=> IsActive(sched, c)
         /\ IsPending(T, c) <=> IsPending(sched, c)
         /\ IsQueued(T, c) <=> IsQueued(sched, c)
         /\ IsHeld(T, c) <=> IsHeld(sched, c)
  BY DEF IsActive, IsPending, IsQueued, IsHeld
<1>2. Apart(T)
  BY <1>0, <1>1 DEF Apart
<1>3. Controlled(T)
  BY <1>0, <1>1 DEF Controlled
<1>4. \A s \in Sessions : Told(sched, emitted, s) => Told(T, emitted, s)
  BY DEF Told
<1>5. Tells(T, emitted)
  BY <1>0, <1>4 DEF Tells
<1>6. Good(T, V, emitted)
  BY <1>2, <1>3, <1>5 DEF Good
<1>7. Good(T, V, emitted)'
  <2>1. PICK E : E = emitted
    OBVIOUS
  <2>2. Good(T, V, E)
    BY <1>6, <2>1
  <2>3. \A s \in Sessions : Told(T, E, s)' <=> Told(T, E, s)
    BY DEF Told
  <2>4. \A c \in CommandIds : IsCancel(c)' <=> IsCancel(c)
    BY DEF IsCancel, Kind
  <2>5. Good(T, V, E)'
    BY <2>2, <2>3, <2>4, CarryGood
  <2> QED
    BY <2>1, <2>5
<1>8. \A s \in Sessions : Tidy(T, s)
  BY <1>0 DEF Tidy, Busy
<1>9. QueueMoves(T, V)
  BY DEF QueueMoves, Moving
<1>10. HeldBy(T) = Dispatched(commands')
  BY <1>0, <1>1 DEF HeldBy
<1>11. JournalInv(commands)' /\ ServerInv'
  BY <1>0 DEF ServerInv
<1>12. Answered(T, commands, emitted)'
  BY <1>0, <1>4 DEF Answered, Told
<1>13. \A w \in V : CancelAnswers(w)'
  BY DEF CancelAnswers, IsCancel, Kind
<1> QED
  BY <1>0, <1>7, <1>8, <1>9, <1>10, <1>11, <1>12, <1>13 DEF IInv

\* A command with a worker or its report is the active one, and in the journal.
LEMMA WorkerIsActive ==
    ASSUME IInv, NEW c \in CommandIds, c \in sched.running \/ Working(workers, c)
    PROVE  IsActive(sched, c) /\ Kind(c) \in Kinds
<1>0. /\ Followed(sched, workers) /\ HeldBy(sched) = Dispatched(commands)
      /\ commands \in [Sessions -> Seq(JournalRow)]
  BY DEF IInv, Good, JournalInv
<1>1. IsActive(sched, c)
  BY <1>0 DEF Followed
<1>2. c.seq <= Len(commands[c.session])
  BY <1>0, <1>1 DEF HeldBy, IsHeld, Dispatched
<1>3. commands[c.session] \in Seq(JournalRow) /\ c.seq \in Nat /\ c.seq >= 1
  BY <1>0, Ids
<1>4. c.seq \in 1..Len(commands[c.session])
  BY <1>2, <1>3
<1>5. commands[c.session][c.seq] \in JournalRow
  BY <1>3, <1>4
<1> QED
  BY <1>1, <1>5 DEF Kind, JournalRow

\* The worker settles its report, gives back its permit, and sends the report.
LEMMA WorkerEndsKeeps ==
    ASSUME IInv, NEW c \in CommandIds, WorkerEnds(c)
    PROVE  IInv'
<1>0. /\ sched \in SchedType /\ Followed(sched, workers) /\ CancelsAnswer(sched)
      /\ Cardinality(sched.running) <= Permits /\ workers \subseteq Completion
      /\ \A w \in workers : CancelAnswers(w)
      /\ context \in [Sessions -> Contexts]
  BY DEF IInv, Good
<1>1. /\ c \in sched.running
      /\ sched' = [sched EXCEPT !.running = @ \ {c}]
      /\ UNCHANGED <<server, commands, emitted>>
  BY DEF WorkerEnds
<1>2. IsActive(sched, c) /\ Kind(c) \in Kinds /\ c.session \in Sessions
  BY <1>1, WorkerIsActive, Ids
<1>3. PICK r \in IF Cancelled(sched, c) THEN Interrupted(Kind(c), context[c.session])
                 ELSE Outcomes(Kind(c), context[c.session]) :
          /\ context' = [context EXCEPT ![c.session] = r.context]
          /\ workers' = workers \cup {[command |-> c, events |-> r.events]}
  BY DEF WorkerEnds
<1>4. Outcome(Kind(c), r)
  <2>1. context[c.session] \in Contexts
    BY <1>0, <1>2
  <2>2. Cancelled(sched, c) => Kind(c) # "cancel"
    BY DEF Cancelled, IsCancel
  <2> QED
    BY <1>2, <1>3, <2>1, <2>2, OutcomesAre
<1>5. PICK w : w = [command |-> c, events |-> r.events]
  OBVIOUS
<1>6. w \in Completion /\ w.command = c /\ w.events = r.events /\ CancelAnswers(w)
  <2>1. w.command = c /\ w.events = r.events
    BY <1>5
  <2>2. w \in Completion
    BY <1>4, <1>5 DEF Completion, Outcome
  <2> QED
    BY <1>4, <2>1, <2>2 DEF Outcome, CancelAnswers, IsCancel
<1>7. context' \in [Sessions -> Contexts]
  BY <1>0, <1>2, <1>3, <1>4 DEF Outcome
<1> DEFINE less == sched.running \ {c}
<1>8. PICK T : T = [sched EXCEPT !.running = less]
  OBVIOUS
<1>9. less \subseteq CommandIds
  BY <1>0, Fields
<1> HIDE DEF less
<1>10. /\ T \in SchedType /\ T.running = less /\ T.active = sched.active
       /\ T.pending = sched.pending /\ T.control = sched.control
       /\ T.suppressed = sched.suppressed /\ T.queue = sched.queue
       /\ T.completions = sched.completions
  BY <1>0, <1>8, <1>9 DEF SchedType
<1>11. sched' = T
  BY <1>1, <1>8 DEF less
<1>12. PICK V : V = workers \cup {w}
  OBVIOUS
<1>13. V \in SUBSET Completion /\ workers' = V /\ w \in V /\ \A v \in V : CancelAnswers(v)
  BY <1>0, <1>3, <1>5, <1>6, <1>12
<1>14. /\ \A d : Working(V, d) <=> Working(workers, d) \/ d = c
       /\ \A d : Reported(T, d) <=> Reported(sched, d)
       /\ \A t : Ends(T, t) <=> Ends(sched, t)
       /\ \A d \in CommandIds : IsActive(T, d) <=> IsActive(sched, d)
       /\ ReportedOnce(T) <=> ReportedOnce(sched)
  BY <1>6, <1>10, <1>12 DEF Working, Reported, Ends, IsActive, ReportedOnce
<1>15. Followed(T, V)
  <2>1. ~Working(workers, c) /\ ~Reported(sched, c)
    BY <1>0, <1>1 DEF Followed
  <2>2. ASSUME NEW d \in CommandIds
        PROVE  /\ IsActive(T, d) \/ d \in T.suppressed <=>
                    d \in T.running \/ Working(V, d) \/ Reported(T, d)
               /\ d \in T.running \/ Working(V, d) => IsActive(T, d)
               /\ d \in T.running => ~Working(V, d) /\ ~Reported(T, d)
               /\ Working(V, d) => ~Reported(T, d)
    <3>1. d \in T.running <=> d \in sched.running /\ d # c
      BY <1>10 DEF less
    <3>2. CASE d = c
      BY <1>2, <1>14, <2>1, <3>1, <3>2
    <3>3. CASE d # c
      BY <1>0, <1>10, <1>14, <3>1, <3>3 DEF Followed
    <3> QED
      BY <3>2, <3>3
  <2>3. ASSUME NEW u \in V, NEW v \in V, u.command = v.command PROVE u = v
    <3>1. \A x \in workers : x.command # c
      BY <2>1 DEF Working
    <3> QED
      BY <1>0, <1>6, <1>12, <2>3, <3>1 DEF Followed
  <2>4. ReportedOnce(T)
    BY <1>0, <1>14 DEF Followed
  <2> QED
    BY <2>2, <2>3, <2>4 DEF Followed
<1>16. Cardinality(T.running) <= Permits
  <2>1. IsFiniteSet(sched.running)
    BY <1>0, Fields, IdsAreFinite, FS_Subset
  <2>2. IsFiniteSet(less) /\ Cardinality(less) <= Cardinality(sched.running)
    BY <2>1, FS_Subset DEF less
  <2>3. Cardinality(less) \in Nat /\ Cardinality(sched.running) \in Nat
    BY <2>1, <2>2, FS_CardinalityType
  <2> QED
    BY <1>0, <1>10, <2>2, <2>3, Ids
<1>17. CancelsAnswer(T)
  BY <1>0, <1>10 DEF CancelsAnswer
<1>18. Moving(T, V)
  BY <1>13 DEF Moving
<1> QED
  BY <1>1, <1>7, <1>10, <1>11, <1>13, <1>14, <1>15, <1>16, <1>17, <1>18, WorkersKeep

LEMMA WorkerReportsKeeps ==
    ASSUME IInv, NEW c \in CommandIds, WorkerReports(c)
    PROVE  IInv'
<1>0. /\ sched \in SchedType /\ Followed(sched, workers) /\ CancelsAnswer(sched)
      /\ Cardinality(sched.running) <= Permits /\ workers \subseteq Completion
      /\ \A w \in workers : CancelAnswers(w)
      /\ context \in [Sessions -> Contexts]
  BY DEF IInv, Good
<1>1. PICK w \in workers :
          /\ w.command = c
          /\ workers' = workers \ {w}
          /\ sched' = [sched EXCEPT !.completions = Append(@, w)]
  BY DEF WorkerReports
<1>2. UNCHANGED <<server, commands, context, emitted>>
  BY DEF WorkerReports
<1>3. PICK more : more = <<w>>
  OBVIOUS
<1>4. more \in Seq(Completion) /\ Len(more) = 1 /\ more[1] = w
  BY <1>0, <1>3
<1> DEFINE com == Append(sched.completions, w)
<1>5. com = sched.completions \o more /\ com \in Seq(Completion) /\ com # << >>
  <2>1. sched.completions \in Seq(Completion) /\ w \in Completion
    BY <1>0, Fields
  <2> QED
    BY <1>3, <2>1
<1>6. PICK T : T = [sched EXCEPT !.completions = com]
  OBVIOUS
<1> HIDE DEF com
<1>7. /\ T \in SchedType /\ T.completions = com /\ T.active = sched.active
      /\ T.pending = sched.pending /\ T.control = sched.control
      /\ T.suppressed = sched.suppressed /\ T.queue = sched.queue
      /\ T.running = sched.running
  BY <1>0, <1>5, <1>6 DEF SchedType
<1>8. sched' = T
  BY <1>1, <1>6 DEF com
<1>9. PICK V : V = workers \ {w}
  OBVIOUS
<1>10. V \in SUBSET Completion /\ workers' = V /\ \A v \in V : CancelAnswers(v)
  BY <1>0, <1>1, <1>9
<1>11. T.completions = sched.completions \o more
  BY <1>5, <1>7
<1>12. /\ \A d : Reported(T, d) <=> Reported(sched, d) \/ \E i \in 1..Len(more) : more[i].command = d
       /\ \A t : Ends(T, t) <=> Ends(sched, t) \/ \E i \in 1..Len(more) :
             more[i].command.session = t /\ HasTerminalEvent(more[i].events)
       /\ CancelsAnswer(sched) /\ (\A i \in 1..Len(more) : CancelAnswers(more[i])) => CancelsAnswer(T)
       /\ /\ ReportedOnce(sched)
          /\ \A i, j \in 1..Len(more) : more[i].command = more[j].command => i = j
          /\ \A i \in 1..Len(more) : ~Reported(sched, more[i].command)
          => ReportedOnce(T)
  BY <1>0, <1>4, <1>7, <1>11, MoreCompletions
<1>13. \A i \in 1..Len(more) : i = 1
  BY <1>4
<1>14. 1 \in 1..Len(more)
  BY <1>4
<1>15. Working(workers, c) /\ ~Reported(sched, c)
  BY <1>0, <1>1 DEF Working, Followed
<1>16. IsActive(sched, c) /\ c \notin sched.running
  BY <1>0, <1>15 DEF Followed
<1>17. /\ \A d : Reported(T, d) <=> Reported(sched, d) \/ d = c
       /\ \A t \in Sessions : Ends(sched, t) => Ends(T, t)
       /\ CancelsAnswer(T)
       /\ ReportedOnce(T)
  <2>1. \A d : Reported(T, d) <=> Reported(sched, d) \/ d = c
    BY <1>1, <1>4, <1>12, <1>13, <1>14
  <2>2. CancelsAnswer(T)
    BY <1>0, <1>4, <1>12, <1>13
  <2>3. ReportedOnce(T)
    <3>1. ReportedOnce(sched)
      BY <1>0 DEF Followed
    <3>2. \A i \in 1..Len(more) : ~Reported(sched, more[i].command)
      BY <1>1, <1>4, <1>13, <1>15
    <3> QED
      BY <1>12, <1>13, <3>1, <3>2
  <2> QED
    BY <1>12, <2>1, <2>2, <2>3
<1>18. \A d : Working(V, d) <=> Working(workers, d) /\ d # c
  BY <1>0, <1>1, <1>9 DEF Working, Followed
<1>19. Followed(T, V)
  <2>1. ASSUME NEW d \in CommandIds
        PROVE  /\ IsActive(T, d) \/ d \in T.suppressed <=>
                    d \in T.running \/ Working(V, d) \/ Reported(T, d)
               /\ d \in T.running \/ Working(V, d) => IsActive(T, d)
               /\ d \in T.running => ~Working(V, d) /\ ~Reported(T, d)
               /\ Working(V, d) => ~Reported(T, d)
    <3>1. IsActive(T, d) <=> IsActive(sched, d)
      BY <1>7 DEF IsActive
    <3>2. CASE d = c
      BY <1>7, <1>16, <1>17, <1>18, <3>1, <3>2
    <3>3. CASE d # c
      BY <1>0, <1>7, <1>17, <1>18, <3>1, <3>3 DEF Followed
    <3> QED
      BY <3>2, <3>3
  <2>2. \A u, v \in V : u.command = v.command => u = v
    BY <1>0, <1>9 DEF Followed
  <2> QED
    BY <1>17, <2>1, <2>2 DEF Followed
<1>20. Moving(T, V)
  BY <1>5, <1>7 DEF Moving
<1>21. context' \in [Sessions -> Contexts] /\ Cardinality(T.running) <= Permits
  BY <1>0, <1>2, <1>7
<1> QED
  BY <1>2, <1>7, <1>8, <1>10, <1>17, <1>19, <1>20, <1>21, WorkersKeep
-----------------------------------------------------------------------------
(* The server's commands.                                                  *)

\* The bound on all commands bounds each session's.
LEMMA RoomForOne ==
    ASSUME IInv, NEW s \in Sessions,
           Cardinality({c \in CommandIds : c.seq <= Len(commands[c.session])}) < MaxCommands
    PROVE  Len(commands[s]) + 1 <= MaxCommands
<1> DEFINE issued == {c \in CommandIds : c.seq <= Len(commands[c.session])}
           n == Len(commands[s])
           f == [i \in 1..n |-> [session |-> s, seq |-> i]]
<1>0. n \in Nat /\ n <= MaxCommands
  <2>1. commands[s] \in Seq(JournalRow) /\ RowsInv(commands[s])
    BY DEF IInv, JournalInv
  <2> QED
    BY <2>1 DEF RowsInv
<1>1. IsFiniteSet(issued) /\ IsFiniteSet(1..n) /\ Cardinality(1..n) = n
  <2>1. IsFiniteSet(issued)
    BY IdsAreFinite, FS_Subset
  <2>2. IsFiniteSet(1..n) /\ Cardinality(1..n) = n
    <3> HIDE DEF n
    <3>1. IsFiniteSet(1..n) /\ Cardinality(1..n) = IF 1 > n THEN 0 ELSE n - 1 + 1
      BY <1>0, FS_Interval
    <3> QED
      BY <1>0, <3>1
  <2> QED
    BY <2>1, <2>2
<1>2. f \in Injection(1..n, issued)
  <2>1. ASSUME NEW i \in 1..n
        PROVE  f[i] \in issued /\ f[i].seq = i
    <3>1. i \in 1..MaxCommands
      BY <1>0, Ids
    <3>2. f[i] = [session |-> s, seq |-> i]
      OBVIOUS
    <3>3. f[i] \in CommandIds /\ f[i].session = s /\ f[i].seq = i
      BY <3>1, <3>2, Ids
    <3> QED
      BY <3>3
  <2>2. f \in [1..n -> issued]
    BY <2>1
  <2>3. \A i, j \in 1..n : f[i] = f[j] => i = j
    BY <2>1
  <2> HIDE DEF f
  <2> QED
    BY <2>2, <2>3 DEF Injection, IsInjective
<1> HIDE DEF issued, f
<1>3. Cardinality(1..n) <= Cardinality(issued)
  BY <1>1, <1>2, FS_Injection
<1>4. Cardinality(issued) \in Nat
  BY <1>1, FS_CardinalityType
<1>5. Cardinality(issued) < MaxCommands
  BY DEF issued
<1> QED
  BY <1>0, <1>1, <1>3, <1>4, <1>5, Ids

\* A command sent to a session that is not cancelled; the run stays as it is, or
\* starts, or resumes.
LEMMA IssueKeeps ==
    ASSUME IInv, NEW s \in Sessions, NEW kind \in Kinds,
           NEW after \in [state : {"new", "active", "retrying", "over"}, cancelled : BOOLEAN],
           Issue(s, kind, after), ~server[s].cancelled, server[s].state # "over",
           after.cancelled <=> kind = "cancel",
           kind = "cancel" => after.state = "active"
    PROVE  IInv'
<1>0. /\ Good(sched, workers, emitted) /\ sched \in SchedType
      /\ Followed(sched, workers) /\ workers \subseteq Completion
      /\ \A w \in workers : CancelAnswers(w)
      /\ \A t \in Sessions : Tidy(sched, t)
      /\ QueueMoves(sched, workers) /\ ServerInv
      /\ Answered(sched, commands, emitted)
      /\ emitted \in [Sessions -> Seq(EventTypes)] /\ context \in [Sessions -> Contexts]
      /\ HeldBy(sched) = Dispatched(commands)
      /\ commands \in [Sessions -> Seq(JournalRow)]
      /\ \A t \in Sessions : RowsInv(commands[t])
  BY DEF IInv, Good, JournalInv
<1> DEFINE row == [kind |-> kind, state |-> "sent"]
           bs == commands[s]
           cs == Append(bs, row)
<1>1. /\ commands' = [commands EXCEPT ![s] = cs]
      /\ server' = [server EXCEPT ![s] = after]
      /\ UNCHANGED <<sched, workers, context, emitted>>
  BY DEF Issue
<1>2. Len(bs) + 1 <= MaxCommands
  BY RoomForOne DEF Issue
<1>3. row \in JournalRow /\ row.kind = kind /\ row.state = "sent"
  BY DEF JournalRow, States
<1>4. bs \in Seq(JournalRow) /\ RowsInv(bs)
  BY <1>0
<1> HIDE DEF row, bs
<1>5. /\ cs \in Seq(JournalRow) /\ Len(bs) \in Nat /\ Len(cs) = Len(bs) + 1
      /\ \A i \in 1..Len(bs) : cs[i] = bs[i] /\ i \in 1..Len(cs)
      /\ cs[Len(bs) + 1] = row
      /\ \A i \in 1..Len(cs) : i \in 1..Len(bs) \/ i = Len(bs) + 1
  <2>1. /\ cs \in Seq(JournalRow) /\ Len(bs) \in Nat /\ Len(cs) = Len(bs) + 1
        /\ \A i \in 1..Len(bs) : cs[i] = bs[i]
        /\ cs[Len(bs) + 1] = row
    BY <1>3, <1>4, Appended
  <2> HIDE DEF cs
  <2> QED
    BY <2>1
<1> HIDE DEF cs
<1>6. commands'[s] = cs /\ \A t \in Sessions : t # s => commands'[t] = commands[t]
  BY <1>0, <1>1
<1>7. server'[s] = after /\ \A t \in Sessions : t # s => server'[t] = server[t]
  BY <1>0, <1>1 DEF ServerInv
<1>8. \A i \in 1..Len(bs) : bs[i].kind # "cancel"
  BY <1>0 DEF ServerInv, bs
<1>9. RowsInv(cs)
  <2>1. Len(cs) <= MaxCommands
    BY <1>2, <1>5
  <2>2. ASSUME NEW n \in 1..Len(cs), cs[n].kind = "cancel" PROVE n = Len(cs)
    BY <1>5, <1>8, <2>2
  <2>3. ASSUME NEW n \in 1..Len(cs), cs[n].state = "dispatch_started", cs[n].kind # "cancel"
        PROVE  Expected(cs, n)
    <3>1. n \in 1..Len(bs) /\ bs[n] = cs[n]
      BY <1>3, <1>5, <2>3
    <3>2. Expected(bs, n)
      BY <1>4, <2>3, <3>1 DEF RowsInv
    <3>3. ASSUME NEW m \in 1..n - 1 PROVE cs[m].state = "terminal"
      <4>1. m \in 1..Len(bs) /\ bs[m].state = "terminal"
        BY <1>5, <3>1, <3>2 DEF Expected
      <4> QED
        BY <1>5, <4>1
    <3> QED
      BY <3>3 DEF Expected
  <2> QED
    BY <2>1, <2>2, <2>3 DEF RowsInv
<1>10. JournalInv(commands)'
  <2>1. commands' \in [Sessions -> Seq(JournalRow)]
    BY <1>0, <1>1, <1>5
  <2>2. \A t \in Sessions : RowsInv(commands'[t])
    BY <1>0, <1>6, <1>9
  <2> QED
    BY <2>1, <2>2 DEF JournalInv
<1>11. ServerInv'
  <2>1. server' \in [Sessions -> [state : {"new", "active", "retrying", "over"}, cancelled : BOOLEAN]]
    BY <1>0, <1>1 DEF ServerInv
  <2>2. after.cancelled <=> \E n \in 1..Len(cs) : cs[n].kind = "cancel"
    <3>1. Len(bs) + 1 \in 1..Len(cs)
      BY <1>5
    <3> QED
      BY <1>3, <1>5, <1>8, <3>1
  <2>3. ASSUME NEW t \in Sessions
        PROVE  /\ server'[t].cancelled <=>
                    \E n \in 1..Len(commands'[t]) : commands'[t][n].kind = "cancel"
               /\ server'[t].cancelled => server'[t].state \in {"active", "over"}
    <3>1. CASE t = s
      BY <1>6, <1>7, <2>2, <3>1
    <3>2. CASE t # s
      <4>1. commands'[t] = commands[t] /\ server'[t] = server[t]
        BY <1>6, <1>7, <3>2
      <4>2. /\ server[t].cancelled <=> \E n \in 1..Len(commands[t]) : commands[t][n].kind = "cancel"
            /\ server[t].cancelled => server[t].state \in {"active", "over"}
        BY <1>0 DEF ServerInv
      <4> QED
        BY <4>1, <4>2
    <3> QED
      BY <3>1, <3>2
  <2> QED
    BY <2>1, <2>3 DEF ServerInv
<1>12. ASSUME NEW t \in Sessions, NEW n \in 1..Len(commands[t])
       PROVE  n \in 1..Len(commands'[t]) /\ commands'[t][n] = commands[t][n]
  BY <1>5, <1>6 DEF bs
<1>13. \A d \in CommandIds :
          /\ d.seq <= Len(commands'[d.session])
          /\ commands'[d.session][d.seq].state = "dispatch_started"
          <=> /\ d.seq <= Len(commands[d.session])
              /\ commands[d.session][d.seq].state = "dispatch_started"
  <2>1. ASSUME NEW d \in CommandIds, d.session = s
        PROVE  d.seq <= Len(cs) /\ cs[d.seq].state = "dispatch_started"
                 <=> d.seq <= Len(bs) /\ bs[d.seq].state = "dispatch_started"
    <3>1. d.seq \in Nat /\ d.seq >= 1
      BY Ids
    <3>2. d.seq <= Len(cs) => d.seq \in 1..Len(cs)
      BY <1>5, <3>1
    <3>3. d.seq <= Len(bs) => d.seq \in 1..Len(bs) /\ d.seq <= Len(cs)
      BY <1>5, <3>1
    <3> QED
      BY <1>3, <1>5, <3>2, <3>3
  <2> QED
    BY <1>6, <2>1, Ids DEF bs
<1>14. HeldBy(sched) = Dispatched(commands)'
  BY <1>0, <1>13 DEF Dispatched
<1>15. \A d \in CommandIds : IsHeld(sched, d) => (IsCancel(d)' <=> IsCancel(d))
  <2>1. ASSUME NEW d \in CommandIds, IsHeld(sched, d) PROVE IsCancel(d)' <=> IsCancel(d)
    <3>1. d.seq <= Len(commands[d.session])
      BY <1>0, <2>1 DEF HeldBy, Dispatched
    <3>2. d.session \in Sessions /\ d.seq \in Nat /\ d.seq >= 1 /\ Len(commands[d.session]) \in Nat
      BY <1>0, Ids
    <3>3. d.seq \in 1..Len(commands[d.session])
      BY <3>1, <3>2
    <3> QED
      BY <1>12, <3>2, <3>3 DEF IsCancel, Kind
  <2> QED
    BY <2>1
<1>16. \A t \in Sessions : server[t].state = "over" => server'[t].state = "over"
  BY <1>7
<1>17. PICK S, W, E : S = sched /\ W = workers /\ E = emitted
  OBVIOUS
<1>18. \A t \in Sessions : Told(S, E, t) => Told(S, E, t)'
  BY <1>16 DEF Told
<1>19. Good(S, W, E)'
  <2>1. Good(S, W, E)
    BY <1>0, <1>17
  <2>2. \A t \in Sessions : server[t].cancelled => server'[t].cancelled
    BY <1>7
  <2>3. \A d \in CommandIds : IsHeld(S, d) => (IsCancel(d)' <=> IsCancel(d))
    BY <1>15, <1>17
  <2> QED
    BY <1>18, <2>1, <2>2, <2>3, CarryGood
<1>20. sched' = S /\ workers' = W /\ emitted' = E
  BY <1>1, <1>17
<1>21. Answered(S, commands, E)'
  <2>1. ASSUME NEW t \in Sessions, NEW n \in 1..Len(commands'[t]),
               commands'[t][n].kind = "cancel", commands'[t][n].state = "terminal"
        PROVE  Told(S, E, t)'
    <3>1. CASE t = s
      BY <1>3, <1>5, <1>6, <1>8, <2>1, <3>1
    <3>2. CASE t # s
      BY <1>0, <1>6, <1>17, <1>18, <2>1, <3>2 DEF Answered
    <3> QED
      BY <3>1, <3>2
  <2> QED
    BY <2>1 DEF Answered
<1>22. \A w \in workers : CancelAnswers(w)'
  <2>1. ASSUME NEW w \in workers PROVE CancelAnswers(w)'
    <3>1. w.command \in CommandIds /\ Working(workers, w.command)
      BY <1>0 DEF Completion, Working
    <3>2. IsHeld(sched, w.command)
      BY <1>0, <3>1 DEF Followed, IsHeld
    <3> QED
      BY <1>0, <1>15, <3>1, <3>2 DEF CancelAnswers
  <2> QED
    BY <2>1
<1>23. \A t \in Sessions : Tidy(sched, t)'
  BY <1>0, <1>1 DEF Tidy, Busy
<1>24. /\ HeldBy(sched') = Dispatched(commands)' /\ workers' \subseteq Completion
       /\ QueueMoves(sched', workers') /\ \A w \in workers' : CancelAnswers(w)'
       /\ context' \in [Sessions -> Contexts] /\ emitted' \in [Sessions -> Seq(EventTypes)]
  BY <1>0, <1>1, <1>14, <1>22
<1> QED
  BY <1>10, <1>11, <1>19, <1>20, <1>21, <1>23, <1>24 DEF IInv

\* The server sends nothing to a run that is cancelled or over.
LEMMA ServerSends ==
    ASSUME IInv, NEW s \in Sessions,
           StartSession(s) \/ SendMessage(s) \/ ResumeSession(s) \/ CancelSession(s)
    PROVE  IInv'
<1>0. /\ server[s] \in [state : {"new", "active", "retrying", "over"}, cancelled : BOOLEAN]
      /\ server[s].cancelled => server[s].state \in {"active", "over"}
  BY DEF IInv, ServerInv
<1>1. /\ "start" \in Kinds /\ "message" \in Kinds /\ "resume" \in Kinds /\ "cancel" \in Kinds
  BY DEF Kinds
<1>2. CASE StartSession(s)
  <2>1. PICK after : after = [server[s] EXCEPT !.state = "active"]
    OBVIOUS
  <2>2. /\ after \in [state : {"new", "active", "retrying", "over"}, cancelled : BOOLEAN]
        /\ after.cancelled = server[s].cancelled
    BY <1>0, <2>1
  <2>3. server[s].state = "new" /\ Issue(s, "start", after)
    BY <1>2, <2>1 DEF StartSession
  <2> QED
    BY <1>0, <1>1, <2>2, <2>3, IssueKeeps
<1>3. CASE SendMessage(s)
  <2>1. server[s].state = "active" /\ ~server[s].cancelled /\ Issue(s, "message", server[s])
    BY <1>3 DEF SendMessage
  <2> QED
    BY <1>0, <1>1, <2>1, IssueKeeps
<1>4. CASE ResumeSession(s)
  <2>1. PICK after : after = [server[s] EXCEPT !.state = "active"]
    OBVIOUS
  <2>2. /\ after \in [state : {"new", "active", "retrying", "over"}, cancelled : BOOLEAN]
        /\ after.cancelled = server[s].cancelled
    BY <1>0, <2>1
  <2>3. server[s].state = "retrying" /\ Issue(s, "resume", after)
    BY <1>4, <2>1 DEF ResumeSession
  <2> QED
    BY <1>0, <1>1, <2>2, <2>3, IssueKeeps
<1>5. CASE CancelSession(s)
  <2>1. PICK after : after = [server[s] EXCEPT !.cancelled = TRUE]
    OBVIOUS
  <2>2. /\ after \in [state : {"new", "active", "retrying", "over"}, cancelled : BOOLEAN]
        /\ after.cancelled /\ after.state = server[s].state
    BY <1>0, <2>1
  <2>3. server[s].state = "active" /\ ~server[s].cancelled /\ Issue(s, "cancel", after)
    BY <1>5, <2>1 DEF CancelSession
  <2> QED
    BY <1>0, <1>1, <2>2, <2>3, IssueKeeps
<1> QED
  BY <1>2, <1>3, <1>4, <1>5

\* The first of the events E, projected, is terminal or leaves the others.
LEMMA RestTells ==
    ASSUME NEW q \in Seq(EventTypes), q # << >>, HasTerminalEvent(q)
    PROVE  Head(q) \in {"completed", "failed"} \/ HasTerminalEvent(Tail(q))
<1> DEFINE r == Tail(q)
<1>1. /\ r \in Seq(EventTypes) /\ Head(q) = q[1]
      /\ \A i \in 1..Len(q) : i = 1 \/ (i - 1 \in 1..Len(r) /\ r[i - 1] = q[i])
  BY Rest
<1>2. DOMAIN q = 1..Len(q) /\ DOMAIN r = 1..Len(r)
  BY <1>1
<1> HIDE DEF r
<1>3. PICK i \in 1..Len(q) : q[i] \in {"completed", "failed"}
  BY <1>2 DEF HasTerminalEvent
<1>4. CASE i = 1
  BY <1>1, <1>3, <1>4
<1>5. CASE i # 1
  <2>1. i - 1 \in DOMAIN r /\ r[i - 1] \in {"completed", "failed"}
    BY <1>1, <1>2, <1>3, <1>5
  <2>2. HasTerminalEvent(r)
    BY <2>1 DEF HasTerminalEvent
  <2> QED
    BY <2>2 DEF r
<1> QED
  BY <1>4, <1>5

\* A terminal event that is projected for a cancelled run ends it, so what was told
\* stays told.
LEMMA ProjectEventKeeps ==
    ASSUME IInv, NEW s \in Sessions, ProjectEvent(s)
    PROVE  IInv'
<1>0. /\ Good(sched, workers, emitted) /\ sched \in SchedType /\ Apart(sched)
      /\ Followed(sched, workers) /\ Controlled(sched) /\ Tells(sched, emitted)
      /\ CancelsAnswer(sched) /\ Cardinality(sched.running) <= Permits
      /\ workers \subseteq Completion /\ JournalInv(commands)
      /\ QueueMoves(sched, workers) /\ ServerInv
      /\ Answered(sched, commands, emitted)
      /\ emitted \in [Sessions -> Seq(EventTypes)] /\ context \in [Sessions -> Contexts]
      /\ HeldBy(sched) = Dispatched(commands)
      /\ \A w \in workers : CancelAnswers(w)
  BY DEF IInv, Good
<1>1. \A t \in Sessions : Tidy(sched, t)
  BY DEF IInv
<1> DEFINE q == emitted[s]
<1>2. /\ q # << >> /\ emitted' = [emitted EXCEPT ![s] = Tail(q)]
      /\ UNCHANGED <<commands, sched, workers, context>>
  BY DEF ProjectEvent
<1>3. PICK state \in IF server[s].state # "active" THEN {server[s].state}
                     ELSE CASE Head(q) = "started" -> {"active"}
                            [] Head(q) = "completed" -> {"over"}
                            [] Head(q) = "failed" ->
                                  IF server[s].cancelled THEN {"over"} ELSE {"retrying", "over"} :
          server' = [server EXCEPT ![s].state = state]
  BY DEF ProjectEvent
<1>4. q \in Seq(EventTypes)
  BY <1>0
<1> HIDE DEF q
<1>5. Tail(q) \in Seq(EventTypes) /\ Head(q) \in EventTypes
  BY <1>2, <1>4, Rest
<1>6. emitted' \in [Sessions -> Seq(EventTypes)] /\ emitted'[s] = Tail(q)
      /\ \A t \in Sessions : t # s => emitted'[t] = emitted[t]
  BY <1>0, <1>2, <1>5
<1>7. server[s] \in [state : {"new", "active", "retrying", "over"}, cancelled : BOOLEAN]
  BY <1>0 DEF ServerInv
<1>8. /\ state \in {"new", "active", "retrying", "over"}
      /\ server[s].cancelled => state \in {"active", "over"}
      /\ server[s].state = "over" => state = "over"
      /\ server[s].cancelled /\ Head(q) \in {"completed", "failed"} => state = "over"
  <2>1. server[s].cancelled => server[s].state \in {"active", "over"}
    BY <1>0 DEF ServerInv
  <2>2. CASE server[s].state # "active"
    BY <1>3, <1>7, <2>1, <2>2
  <2>3. CASE server[s].state = "active" /\ Head(q) = "started"
    BY <1>3, <2>3
  <2>4. CASE server[s].state = "active" /\ Head(q) = "completed"
    BY <1>3, <2>4
  <2>5. CASE server[s].state = "active" /\ Head(q) = "failed"
    BY <1>3, <2>5
  <2> QED
    BY <1>5, <2>2, <2>3, <2>4, <2>5 DEF EventTypes
<1>9. /\ server' \in [Sessions -> [state : {"new", "active", "retrying", "over"}, cancelled : BOOLEAN]]
      /\ server'[s].state = state /\ server'[s].cancelled = server[s].cancelled
      /\ \A t \in Sessions : t # s => server'[t] = server[t]
  <2>1. PICK new : new = [server[s] EXCEPT !.state = state]
    OBVIOUS
  <2>2. /\ new \in [state : {"new", "active", "retrying", "over"}, cancelled : BOOLEAN]
        /\ new.state = state /\ new.cancelled = server[s].cancelled
    BY <1>7, <1>8, <2>1
  <2>3. server' = [server EXCEPT ![s] = new]
    BY <1>3, <2>1
  <2> QED
    BY <1>0, <2>2, <2>3 DEF ServerInv
<1>10. \A t \in Sessions : server'[t].cancelled <=> server[t].cancelled
  BY <1>9
<1>11. ServerInv'
  <2>1. \A t \in Sessions : server'[t].cancelled => server'[t].state \in {"active", "over"}
    BY <1>0, <1>8, <1>9 DEF ServerInv
  <2> QED
    BY <1>0, <1>2, <1>9, <1>10, <2>1 DEF ServerInv
<1>12. PICK S, W, E, F : S = sched /\ W = workers /\ E = emitted /\ F = emitted'
  OBVIOUS
<1>13. ASSUME NEW t \in Sessions, server[t].cancelled, Told(S, E, t)
       PROVE  Told(S, F, t)'
  <2>1. CASE t # s
    BY <1>6, <1>9, <1>12, <1>13, <2>1 DEF Told
  <2>2. CASE t = s
    <3>1. CASE server[s].state = "over"
      BY <1>8, <1>9, <2>2, <3>1 DEF Told
    <3>2. CASE Ends(S, t)
      BY <3>2 DEF Told
    <3>3. CASE HasTerminalEvent(q)
      <4>1. Head(q) \in {"completed", "failed"} \/ HasTerminalEvent(Tail(q))
        BY <1>2, <1>4, <3>3, RestTells
      <4>2. CASE Head(q) \in {"completed", "failed"}
        BY <1>8, <1>9, <1>13, <2>2, <4>2 DEF Told
      <4>3. CASE HasTerminalEvent(Tail(q))
        BY <1>6, <1>12, <2>2, <4>3 DEF Told
      <4> QED
        BY <4>1, <4>2, <4>3
    <3> QED
      BY <1>12, <1>13, <2>2, <3>1, <3>2, <3>3 DEF Told, q
  <2> QED
    BY <2>1, <2>2
<1>14. \A c : IsCancel(c)' <=> IsCancel(c)
  BY <1>2 DEF IsCancel, Kind
<1>15. Good(S, W, F)'
  <2>1. S \in SchedType /\ Apart(S) /\ Followed(S, W) /\ Cardinality(S.running) <= Permits
    BY <1>0, <1>12
  <2>2. Controlled(S) /\ CancelsAnswer(S) /\ Tells(S, E)
    BY <1>0, <1>12
  <2>3. Controlled(S)'
    BY <1>10, <1>14, <2>2 DEF Controlled
  <2>4. CancelsAnswer(S)'
    BY <1>14, <2>2 DEF CancelsAnswer, CancelAnswers
  <2>5. Tells(S, F)'
    <3>1. ASSUME NEW t \in Sessions, S.control[t].terminal PROVE Told(S, F, t)'
      <4>1. S.control[t].cancelled
        BY <1>1, <1>12, <3>1 DEF Tidy
      <4>2. server[t].cancelled /\ Told(S, E, t)
        BY <2>2, <3>1, <4>1 DEF Controlled, Tells
      <4> QED
        BY <1>13, <4>2
    <3> QED
      BY <3>1 DEF Tells
  <2> QED
    BY <2>1, <2>3, <2>4, <2>5 DEF Good
<1>16. Answered(S, commands, F)'
  <2>1. ASSUME NEW t \in Sessions, NEW n \in 1..Len(commands[t]),
               commands[t][n].kind = "cancel", commands[t][n].state = "terminal"
        PROVE  Told(S, F, t)'
    <3>1. server[t].cancelled
      BY <1>0, <2>1 DEF ServerInv
    <3>2. Told(S, E, t)
      BY <1>0, <1>12, <2>1 DEF Answered
    <3> QED
      BY <1>13, <3>1, <3>2
  <2> QED
    BY <1>2, <2>1 DEF Answered
<1>17. sched' = S /\ workers' = W /\ emitted' = F
  BY <1>2, <1>12
<1>18. \A t \in Sessions : Tidy(sched, t)'
  BY <1>1, <1>2 DEF Tidy, Busy
<1>19. \A w \in workers' : CancelAnswers(w)'
  BY <1>0, <1>2, <1>14 DEF CancelAnswers
<1>20. /\ HeldBy(sched') = Dispatched(commands') /\ workers' \subseteq Completion
       /\ QueueMoves(sched', workers') /\ context' \in [Sessions -> Contexts]
       /\ JournalInv(commands')
  BY <1>0, <1>2
<1> QED
  BY <1>6, <1>11, <1>15, <1>16, <1>17, <1>18, <1>19, <1>20 DEF IInv
-----------------------------------------------------------------------------
(* Every reachable state satisfies IInv.                                   *)

\* Nothing is held and nothing was sent.
LEMMA InitialState == ASSUME Init PROVE IInv
<1>0. /\ server = [s \in Sessions |-> [state |-> "new", cancelled |-> FALSE]]
      /\ commands = [s \in Sessions |-> << >>]
      /\ sched = Idle /\ workers = {}
      /\ context = [s \in Sessions |-> "none"]
      /\ emitted = [s \in Sessions |-> << >>]
  BY DEF Init
<1> DEFINE none == << >>
<1>1. none \in Seq(CommandIds) /\ none \in Seq(Completion) /\ none \in Seq(JournalRow)
      /\ none \in Seq(EventTypes) /\ Len(none) = 0
  OBVIOUS
<1>2. NoControl \in Control /\ 0 \in 0..MaxCommands
  BY Ids DEF NoControl, Control
<1>3. /\ sched.active = [s \in Sessions |-> 0] /\ sched.control = [s \in Sessions |-> NoControl]
      /\ sched.pending = [s \in Sessions |-> 0] /\ sched.suppressed = {}
      /\ sched.queue = none /\ sched.running = {} /\ sched.completions = none
      /\ sched = [active |-> sched.active, control |-> sched.control, pending |-> sched.pending,
                  suppressed |-> {}, queue |-> none, running |-> {}, completions |-> none]
  BY <1>0 DEF Idle
<1>4. ~(NoControl.cancelled) /\ ~(NoControl.terminal)
  BY DEF NoControl
<1>5. commands = [s \in Sessions |-> none] /\ emitted = [s \in Sessions |-> none]
  BY <1>0
<1> HIDE DEF none
<1>6. sched \in SchedType
  <2>1. sched.active \in [Sessions -> 0..MaxCommands] /\ sched.pending \in [Sessions -> 0..MaxCommands]
        /\ sched.control \in [Sessions -> Control]
    BY <1>2, <1>3
  <2> QED
    BY <1>1, <1>3, <2>1 DEF SchedType
<1>7. \A c \in CommandIds : ~IsActive(sched, c) /\ ~IsPending(sched, c) /\ ~IsQueued(sched, c)
         /\ ~IsHeld(sched, c) /\ ~Working(workers, c) /\ ~Reported(sched, c)
  BY <1>0, <1>1, <1>3, Ids DEF IsActive, IsPending, IsQueued, IsHeld, In, Working, Reported
<1>8. Apart(sched)
  BY <1>1, <1>3, <1>7 DEF Apart, Distinct
<1>9. Followed(sched, workers)
  BY <1>0, <1>1, <1>3, <1>7 DEF Followed, ReportedOnce
<1>10. Controlled(sched)
  BY <1>3, <1>4, <1>7, Ids DEF Controlled
<1>11. Tells(sched, emitted) /\ \A s \in Sessions : Tidy(sched, s)
  BY <1>3, <1>4 DEF Tells, Tidy
<1>12. CancelsAnswer(sched)
  BY <1>1, <1>3 DEF CancelsAnswer
<1>13. Cardinality(sched.running) <= Permits
  BY <1>3, FS_EmptySet, Ids
<1>14. Good(sched, workers, emitted)
  BY <1>6, <1>8, <1>9, <1>10, <1>11, <1>12, <1>13 DEF Good
<1>15. QueueMoves(sched, workers)
  BY <1>3 DEF QueueMoves, none
<1>16. JournalInv(commands)
  BY <1>1, <1>5, Ids DEF JournalInv, RowsInv
<1>17. HeldBy(sched) = Dispatched(commands)
  BY <1>1, <1>5, <1>7, Ids DEF HeldBy, Dispatched
<1>18. ServerInv
  BY <1>0, <1>1, <1>5 DEF ServerInv
<1>19. Answered(sched, commands, emitted)
  BY <1>1, <1>5 DEF Answered
<1>20. context \in [Sessions -> Contexts] /\ emitted \in [Sessions -> Seq(EventTypes)]
  BY <1>0, <1>1, <1>5 DEF Contexts
<1> QED
  BY <1>0, <1>11, <1>14, <1>15, <1>16, <1>17, <1>18, <1>19, <1>20 DEF IInv

\* Every action keeps the invariant.
LEMMA NextKeeps == ASSUME IInv, [Next]_vars PROVE IInv'
<1>1. CASE Next
  BY <1>1, HandleCompletionKeeps, ReceiveCommandKeeps, WorkerEndsKeeps, WorkerReportsKeeps,
     ServerSends, ProjectEventKeeps DEF Next
<1>2. CASE UNCHANGED vars
  <2>1. UNCHANGED <<server, commands, sched, workers, context, emitted>>
    BY <1>2 DEF vars
  <2> QED
    BY <2>1 DEF IInv, Good, Apart, Followed, Controlled, Tells, CancelsAnswer, CancelAnswers,
       Told, Ends, IsCancel, Kind, Tidy, Busy, QueueMoves, ServerInv, Answered
<1> QED
  BY <1>1, <1>2

\* Every reachable state satisfies the inductive invariant: a command is in one
\* place, followed by one worker, report or completion, known to its control, and
\* a cancel that is over has been answered.
THEOREM Inductive == Spec => []IInv
<1>1. Init => IInv
  BY InitialState
<1>2. IInv /\ [Next]_vars => IInv'
  BY NextKeeps
<1> QED
  BY <1>1, <1>2, PTL DEF Spec

\* The state has its shape, and there are never more workers than permits: what
\* spawn_runtime takes with try_acquire_owned is given back once.
THEOREM TypeCorrect == Spec => []TypeOK
<1>1. IInv => TypeOK
  <2> SUFFICES ASSUME IInv PROVE TypeOK
    OBVIOUS
  <2>0. /\ sched \in SchedType /\ Cardinality(sched.running) <= Permits
        /\ commands \in [Sessions -> Seq(JournalRow)] /\ \A s \in Sessions : RowsInv(commands[s])
        /\ emitted \in [Sessions -> Seq(EventTypes)] /\ context \in [Sessions -> Contexts]
        /\ HeldBy(sched) = Dispatched(commands) /\ ServerInv
    BY DEF IInv, Good, JournalInv
  <2>1. ASSUME NEW s \in Sessions
        PROVE  /\ Len(commands[s]) <= MaxCommands
               /\ \A n \in DOMAIN commands[s] : commands[s][n] \in [kind : Kinds, state : States]
               /\ {sched.active[s], sched.pending[s]} \subseteq 0..Len(commands[s])
               /\ sched.control[s] \in [exists : BOOLEAN, cancelled : BOOLEAN, terminal : BOOLEAN]
               /\ ToSet(emitted[s]) \subseteq EventTypes
    <3>1. /\ commands[s] \in Seq(JournalRow) /\ emitted[s] \in Seq(EventTypes)
          /\ Len(commands[s]) <= MaxCommands /\ Len(commands[s]) \in Nat
      BY <2>0 DEF RowsInv
    <3>2. \A n \in DOMAIN commands[s] : commands[s][n] \in [kind : Kinds, state : States]
      <4>1. \A n \in DOMAIN commands[s] : commands[s][n] \in JournalRow
        BY <3>1
      <4> QED
        BY <4>1 DEF JournalRow
    <3>3. ASSUME NEW n \in 1..MaxCommands, n = sched.active[s] \/ n = sched.pending[s]
          PROVE  n <= Len(commands[s])
      <4>1. PICK c \in CommandIds : c.session = s /\ c.seq = n
        BY Ids
      <4>2. IsHeld(sched, c)
        BY <3>3, <4>1 DEF IsHeld, IsActive, IsPending
      <4> QED
        BY <2>0, <4>1, <4>2 DEF HeldBy, Dispatched
    <3>4. sched.active[s] \in 0..MaxCommands /\ sched.pending[s] \in 0..MaxCommands
      BY <2>0, Fields
    <3>5. {sched.active[s], sched.pending[s]} \subseteq 0..Len(commands[s])
      BY <3>1, <3>3, <3>4, Ids
    <3>6. sched.control[s] \in [exists : BOOLEAN, cancelled : BOOLEAN, terminal : BOOLEAN]
      BY <2>0, ControlFields DEF Control
    <3>7. ToSet(emitted[s]) \subseteq EventTypes
      BY <3>1 DEF ToSet
    <3> QED
      BY <3>1, <3>2, <3>5, <3>6, <3>7
  <2>2. sched.running \cup sched.suppressed \cup ToSet(sched.queue) \subseteq CommandIds
    <3>1. /\ sched.running \subseteq CommandIds /\ sched.suppressed \subseteq CommandIds
          /\ sched.queue \in Seq(CommandIds)
      BY <2>0, Fields
    <3>2. ToSet(sched.queue) \subseteq CommandIds
      BY <3>1 DEF ToSet
    <3> QED
      BY <3>1, <3>2
  <2> QED
    BY <2>0, <2>1, <2>2 DEF TypeOK, ServerInv
<1> QED
  BY <1>1, Inductive, PTL

\* A worker, its report and its completion belong to the active runtime of their
\* session: schedule_runtime_inner and drain_queue enter a session's agent only
\* when finish_active has taken the completion of the one before.
THEOREM OneRuntime == Spec => []OneRuntimePerSession
<1>1. IInv => OneRuntimePerSession
  <2> SUFFICES ASSUME IInv PROVE OneRuntimePerSession
    OBVIOUS
  <2>0. sched \in SchedType /\ Followed(sched, workers) /\ workers \subseteq Completion
    BY DEF IInv, Good
  <2>1. sched.running \subseteq CommandIds /\ sched.completions \in Seq(Completion)
    BY <2>0, Fields
  <2>2. ASSUME NEW c \in sched.running PROVE sched.active[c.session] = c.seq
    BY <2>0, <2>1 DEF Followed, IsActive
  <2>3. ASSUME NEW w \in workers PROVE sched.active[w.command.session] = w.command.seq
    <3>1. w.command \in CommandIds /\ Working(workers, w.command)
      BY <2>0 DEF Completion, Working
    <3> QED
      BY <2>0, <3>1 DEF Followed, IsActive
  <2>4. ASSUME NEW i \in DOMAIN sched.completions, sched.completions[i].command \notin sched.suppressed
        PROVE  LET c == sched.completions[i].command IN sched.active[c.session] = c.seq
    <3>1. i \in 1..Len(sched.completions) /\ sched.completions[i] \in Completion
      BY <2>1
    <3>2. /\ sched.completions[i].command \in CommandIds
          /\ Reported(sched, sched.completions[i].command)
      BY <3>1 DEF Completion, Reported
    <3> QED
      BY <2>0, <2>4, <3>2 DEF Followed, IsActive
  <2> QED
    BY <2>2, <2>3, <2>4 DEF OneRuntimePerSession
<1> QED
  BY <1>1, Inductive, PTL

\* schedule_cancellation leaves a cancellation waiting only for a completion that
\* will come, and maybe_cleanup_control gives up a control as soon as its session,
\* having told its terminal fact, has nothing left.
THEOREM CancellationState == Spec => []CancellationStateIsCurrent
<1>1. IInv => CancellationStateIsCurrent
  BY DEF IInv, Good, Controlled, Tidy, CancellationStateIsCurrent, PendingCancellationWaits,
     ControlsAreReclaimed
<1> QED
  BY <1>1, Inductive, PTL

\* A run that the server cancelled is over once every command sent to the daemon
\* is finished and every event projected: whichever of the interrupted runtime,
\* the suppressed commands or the cancel itself ends the session, one of them
\* tells a terminal fact.
THEOREM CancellationAnswered == Spec => []CancellationIsAnswered
<1>1. IInv => CancellationIsAnswered
  <2> SUFFICES ASSUME IInv, NEW s \in Sessions, server[s].cancelled, emitted[s] = << >>,
                      \A n \in DOMAIN commands[s] : commands[s][n].state = "terminal"
               PROVE  server[s].state = "over"
    BY DEF CancellationIsAnswered
  <2>0. /\ sched \in SchedType /\ Followed(sched, workers) /\ HeldBy(sched) = Dispatched(commands)
        /\ ServerInv /\ Answered(sched, commands, emitted)
        /\ commands \in [Sessions -> Seq(JournalRow)]
    BY DEF IInv, Good, JournalInv
  <2>1. PICK n \in 1..Len(commands[s]) : commands[s][n].kind = "cancel"
    BY <2>0 DEF ServerInv
  <2>2. DOMAIN commands[s] = 1..Len(commands[s]) /\ Len(commands[s]) \in Nat
    BY <2>0
  <2>3. Told(sched, emitted, s)
    BY <2>0, <2>1, <2>2 DEF Answered
  <2>4. ~HasTerminalEvent(emitted[s])
    BY DEF HasTerminalEvent
  <2>5. ~Ends(sched, s)
    <3>1. SUFFICES ASSUME NEW i \in 1..Len(sched.completions), sched.completions[i].command.session = s
                   PROVE  FALSE
      BY DEF Ends
    <3>2. PICK c : c = sched.completions[i].command
      OBVIOUS
    <3>3. c \in CommandIds /\ Reported(sched, c) /\ c.session = s
      <4>1. sched.completions[i] \in Completion
        BY <2>0, Fields
      <4> QED
        BY <3>1, <3>2, <4>1 DEF Completion, Reported
    <3>4. IsHeld(sched, c)
      BY <2>0, <3>3 DEF Followed, IsHeld
    <3>5. c.seq <= Len(commands[s]) /\ commands[s][c.seq].state = "dispatch_started"
      BY <2>0, <3>3, <3>4 DEF HeldBy, Dispatched
    <3>6. c.seq \in DOMAIN commands[s]
      BY <2>2, <3>3, <3>5, Ids
    <3> QED
      BY <3>5, <3>6
  <2> QED
    BY <2>3, <2>4, <2>5 DEF Told
<1> QED
  BY <1>1, Inductive, PTL

\* finish_active accepts every completion, of a command that is under way; every
\* command under way is active, pending, suppressed or queued, and while there is
\* one a worker or a completion is on its way: spawn_runtime, drain_queue and the
\* followup lose nothing.
THEOREM NoneIsLost == Spec => []NothingIsLost
<1>1. IInv => CompletionsAreExpected
  <2> SUFFICES ASSUME IInv, NEW i \in DOMAIN sched.completions
               PROVE  /\ Accepts(sched, sched.completions[i].command)
                      /\ State(sched.completions[i].command) = "dispatch_started"
    BY DEF CompletionsAreExpected
  <2>0. sched \in SchedType /\ Followed(sched, workers) /\ HeldBy(sched) = Dispatched(commands)
    BY DEF IInv, Good
  <2>1. i \in 1..Len(sched.completions) /\ sched.completions[i] \in Completion
    BY <2>0, Fields
  <2>2. PICK c : c = sched.completions[i].command
    OBVIOUS
  <2>3. c \in CommandIds /\ Reported(sched, c)
    BY <2>1, <2>2 DEF Completion, Reported
  <2>4. IsActive(sched, c) \/ c \in sched.suppressed
    BY <2>0, <2>3 DEF Followed
  <2>5. Accepts(sched, c)
    BY <2>4 DEF Accepts, IsActive
  <2>6. State(c) = "dispatch_started"
    BY <2>0, <2>3, <2>4 DEF HeldBy, IsHeld, Dispatched, State
  <2> QED
    BY <2>2, <2>5, <2>6
<1>2. IInv => StartedCommandsAreHeld
  <2> SUFFICES ASSUME IInv PROVE StartedCommandsAreHeld
    OBVIOUS
  <2> DEFINE Queued(s) == {c.seq : c \in {d \in sched.suppressed \cup ToSet(sched.queue) :
                                          d.session = s}}
             Held(s) == ({sched.active[s], sched.pending[s]} \ {0}) \cup Queued(s)
             Open(s) == {n \in DOMAIN commands[s] : commands[s][n].state = "dispatch_started"}
  <2>0. /\ sched \in SchedType /\ Followed(sched, workers) /\ HeldBy(sched) = Dispatched(commands)
        /\ commands \in [Sessions -> Seq(JournalRow)] /\ \A s \in Sessions : RowsInv(commands[s])
        /\ Controlled(sched) /\ QueueMoves(sched, workers)
    BY DEF IInv, Good, JournalInv
  <2>1. /\ sched.suppressed \subseteq CommandIds /\ sched.queue \in Seq(CommandIds)
        /\ \A s \in Sessions : sched.active[s] \in 0..MaxCommands /\ sched.pending[s] \in 0..MaxCommands
    BY <2>0, Fields
  <2>2. \A c : c \in ToSet(sched.queue) <=> IsQueued(sched, c)
    BY <2>1 DEF ToSet, IsQueued, In
  <2>3. \A c : IsQueued(sched, c) => c \in CommandIds
    BY <2>1 DEF IsQueued, In
  <2>4. ASSUME NEW s \in Sessions, NEW n
        PROVE  n \in Held(s) <=> \E c \in CommandIds : c.session = s /\ c.seq = n /\ IsHeld(sched, c)
    <3>1. n \in Queued(s) <=> \E c \in CommandIds : c.session = s /\ c.seq = n
                                 /\ (c \in sched.suppressed \/ IsQueued(sched, c))
      BY <2>1, <2>2, <2>3
    <3>2. n \in {sched.active[s], sched.pending[s]} \ {0} <=>
             \E c \in CommandIds : c.session = s /\ c.seq = n
                                 /\ (IsActive(sched, c) \/ IsPending(sched, c))
      <4>1. ASSUME n \in {sched.active[s], sched.pending[s]} \ {0}
            PROVE  \E c \in CommandIds : c.session = s /\ c.seq = n
                                 /\ (IsActive(sched, c) \/ IsPending(sched, c))
        <5>1. n \in 1..MaxCommands
          BY <2>1, <4>1, Ids
        <5>2. PICK c \in CommandIds : c.session = s /\ c.seq = n
          BY <5>1, Ids
        <5> QED
          BY <4>1, <5>2 DEF IsActive, IsPending
      <4>2. ASSUME NEW c \in CommandIds, c.session = s, c.seq = n,
                   IsActive(sched, c) \/ IsPending(sched, c)
            PROVE  n \in {sched.active[s], sched.pending[s]} \ {0}
        BY <4>2, Ids DEF IsActive, IsPending
      <4> QED
        BY <4>1, <4>2
    <3> HIDE DEF Queued
    <3> QED
      BY <3>1, <3>2 DEF IsHeld
  <2>5. ASSUME NEW s \in Sessions, NEW n
        PROVE  n \in Open(s) <=> \E c \in CommandIds : c.session = s /\ c.seq = n /\ IsHeld(sched, c)
    <3>1. commands[s] \in Seq(JournalRow) /\ Len(commands[s]) \in Nat /\ Len(commands[s]) <= MaxCommands
      BY <2>0 DEF RowsInv
    <3>2. DOMAIN commands[s] = 1..Len(commands[s])
      BY <3>1
    <3>3. \A c \in CommandIds : IsHeld(sched, c) <=>
             c.seq <= Len(commands[c.session]) /\ commands[c.session][c.seq].state = "dispatch_started"
      BY <2>0 DEF HeldBy, Dispatched
    <3>4. ASSUME n \in Open(s)
          PROVE  \E c \in CommandIds : c.session = s /\ c.seq = n /\ IsHeld(sched, c)
      <4>1. n \in 1..MaxCommands /\ n <= Len(commands[s])
        BY <3>1, <3>2, <3>4, Ids
      <4>2. PICK c \in CommandIds : c.session = s /\ c.seq = n
        BY <4>1, Ids
      <4> QED
        BY <3>3, <3>4, <4>1, <4>2
    <3>5. ASSUME NEW c \in CommandIds, c.session = s, c.seq = n, IsHeld(sched, c)
          PROVE  n \in Open(s)
      BY <3>1, <3>2, <3>3, <3>5, Ids
    <3> QED
      BY <3>4, <3>5
  <2>6. ASSUME NEW s \in Sessions, Held(s) # {}
        PROVE  sched.running \cup workers # {} \/ sched.completions # << >>
    <3>1. PICK c \in CommandIds : c.session = s /\ IsHeld(sched, c)
      BY <2>4, <2>6
    <3>2. CASE IsQueued(sched, c)
      <4>1. sched.queue # << >>
        BY <3>2 DEF IsQueued, In
      <4> QED
        BY <2>0, <4>1 DEF QueueMoves
    <3>3. CASE ~IsQueued(sched, c)
      <4>1. PICK d \in CommandIds : IsActive(sched, d) \/ d \in sched.suppressed
        <5>1. CASE IsPending(sched, c)
          <6>1. sched.pending[s] # 0
            BY <3>1, <5>1, Ids DEF IsPending
          <6>2. sched.active[s] # 0 \/ \E d \in sched.suppressed : d.session = s
            BY <2>0, <6>1 DEF Controlled
          <6> QED
            BY <2>0, <2>1, <6>2, ActiveIsACommand
        <5> QED
          BY <3>1, <3>3, <5>1 DEF IsHeld
      <4> QED
        BY <2>0, <4>1, ActiveMoves DEF Moving
    <3> QED
      BY <3>2, <3>3
  <2>7. \A s \in Sessions : Held(s) = Open(s)
    <3> HIDE DEF Held, Open
    <3> QED
      BY <2>4, <2>5
  <2> QED
    BY <2>6, <2>7 DEF StartedCommandsAreHeld
<1> QED
  BY <1>1, <1>2, Inductive, PTL DEF NothingIsLost
=============================================================================
