------------------------ MODULE Clarification_proofs ------------------------
(***************************************************************************)
(* What TLAPS proves of clarification runs, for any set of messages and    *)
(* daemons and any budget of attempts.                                     *)
(***************************************************************************)
EXTENDS Clarification, FiniteSetTheorems, SequenceTheorems, WellFoundedInduction, TLAPS

-----------------------------------------------------------------------------
(* The inductive invariant, as facts about one run: its row, its attempts, *)
(* its commands, the unknown outcome and the registrations.                *)

\* Which rows there are: an open run that went beyond Idle has an owner, a run
\* without an owner has no attempt, and one that is absent no history.
Coherent(row) ==
    /\ row.state \in {"Running", "Retrying"} => row.owner # NoDaemon
    /\ row.owner = NoDaemon => row.attempts = 0
    /\ row.state = "Absent" => row.owner = NoDaemon /\ ~row.cancel_requested

\* AttemptLedger, of one run.
Ledger(row, atts, cmds) ==
    /\ row.attempts = Len(atts)
    /\ row.attempts = Count(cmds, Executions)
    /\ {n \in 1..Len(atts) : atts[n] = "open"} = {row.current} \ {0}
    /\ row.current # 0 <=>
          row.state = "Running" \/ (row.state = "Idle" /\ row.owner # NoDaemon)

\* NoExecutionAfterCancel, of one run, and why: the row of a run with a cancel
\* command carries the request.
Orderly(row, cmds) ==
    /\ \A i \in 1..Len(cmds) : cmds[i] = "cancel" => row.cancel_requested
    /\ \A i, j \in 1..Len(cmds) : i < j /\ cmds[i] = "cancel" => cmds[j] \notin Executions

\* FailureClassIsTrue, of one run.
Truthful(row, unk, registrations) ==
    row.state = "Failed" =>
        /\ row.class = "cancelled" <=> row.cancel_requested
        /\ row.class = "retry_exhausted" => row.attempts = MaxAttempts
        /\ row.class = "owner_unavailable" =>
              row.owner # NoDaemon /\ registrations[row.owner] = "revoked"
        /\ row.class = "execution_outcome_unknown" => unk # 0
        /\ row.class \notin {"none", "runtime_failure"}

Good(row, atts, cmds, unk, registrations) ==
    /\ Coherent(row)
    /\ Ledger(row, atts, cmds)
    /\ Orderly(row, cmds)
    /\ Truthful(row, unk, registrations)

\* TypeOK, and the domains it leaves open.
Types ==
    /\ TypeOK
    /\ attempt \in [Messages -> Seq(Attempt)]
    /\ commands \in [Messages -> Seq(Command)]
    /\ events \in [Messages -> Seq(Event)]
    /\ delivered \in [Messages -> SUBSET Nat]
    /\ done \in [Messages -> Nat]
    /\ unknown \in [Messages -> Nat]

\* The requirement's slot.
OneOpen == \A a, b \in Messages : run[a].state \in Open /\ run[b].state \in Open => a = b

IInv ==
    /\ Types
    /\ OneOpen
    /\ \A m \in Messages : Good(run[m], attempt[m], commands[m], unknown[m], daemon)
-----------------------------------------------------------------------------
(* What the operators of the model do.                                     *)

\* A set of numbers that is not empty has its Min.
LEMMA MinOfNaturals ==
    ASSUME NEW S \in SUBSET Nat, S # {}
    PROVE  Min(S) \in S
  <1> DEFINE R == {ss \in Nat \X Nat : ss[1] < ss[2]}
  <1>1. IsWellFoundedOn(R, Nat)
    BY NatLessThanWellFounded DEF OpToRel
  <1> HIDE DEF R
  <1>2. PICK x \in S : \A y \in S : ~(<<y, x>> \in R)
    BY <1>1, WFMin
  <1>3. ASSUME NEW y \in S PROVE x =< y
    <2> DEFINE ss == <<y, x>>
    <2>1. ss \in Nat \X Nat /\ ss[1] = y /\ ss[2] = x
      OBVIOUS
    <2> HIDE DEF ss
    <2>2. y < x => ss \in R
      BY <2>1 DEF R
    <2>3. ~(ss \in R)
      BY <1>2 DEF ss
    <2> QED
      BY <2>2, <2>3
  <1> QED
    BY <1>3 DEF Min

\* choose_eligible_daemon returns a daemon that is registered, or none.
LEMMA ChosenDaemon ==
    ASSUME NEW d, d = ChooseEligibleDaemon
    PROVE  d \in Daemons \cup {NoDaemon} /\ (d # NoDaemon => d \in Daemons)
  <1>1. Eligible \in SUBSET Nat /\ Eligible \subseteq Daemons
    BY ClarificationAssumption DEF Eligible
  <1> QED
    BY <1>1, MinOfNaturals DEF ChooseEligibleDaemon

\* Counting commands, one more at a time.
LEMMA CountAppend ==
    ASSUME NEW cmds \in Seq(Command), NEW kind \in Command, NEW kinds
    PROVE  /\ Count(cmds, kinds) \in Nat
           /\ kind \notin kinds => Count(Append(cmds, kind), kinds) = Count(cmds, kinds)
           /\ kind \in kinds => Count(Append(cmds, kind), kinds) = Count(cmds, kinds) + 1
  <1> DEFINE old == {i \in 1..Len(cmds) : cmds[i] \in kinds}
             new == {i \in 1..Len(Append(cmds, kind)) : Append(cmds, kind)[i] \in kinds}
             k == Len(cmds) + 1
  <1>1. /\ Len(cmds) \in Nat /\ Len(Append(cmds, kind)) = k
        /\ \A i \in 1..k : Append(cmds, kind)[i] = IF i = k THEN kind ELSE cmds[i]
    OBVIOUS
  <1>2. IsFiniteSet(old) /\ Cardinality(old) \in Nat
    <2>1. IsFiniteSet(1..Len(cmds)) /\ old \in SUBSET (1..Len(cmds))
      BY <1>1, FS_Interval
    <2> QED
      BY <2>1, FS_Subset, FS_CardinalityType
  <1>3. kind \notin kinds => new = old
    BY <1>1
  <1>4. kind \in kinds => new = old \cup {k} /\ k \notin old
    BY <1>1
  <1>5. kind \in kinds => Cardinality(new) = Cardinality(old) + 1
    BY <1>2, <1>4, FS_AddElement
  <1> QED
    BY <1>2, <1>3, <1>5 DEF Count

\* No command, nothing to count.
LEMMA CountEmpty ==
    ASSUME NEW cmds, Len(cmds) = 0, NEW kinds
    PROVE  Count(cmds, kinds) = 0
  <1>1. {i \in 1..Len(cmds) : cmds[i] \in kinds} = {}
    OBVIOUS
  <1> QED
    BY <1>1, FS_EmptySet DEF Count

-----------------------------------------------------------------------------
(* A step of one run, and what has to be shown of it.                      *)

\* Whatever the server does to the run of m, its row, its attempts and its
\* commands have to be good again, and the slot is not taken twice.
LEMMA RunStep ==
    ASSUME IInv, NEW m \in Messages,
           NEW row \in Row, NEW atts \in Seq(Attempt), NEW cmds \in Seq(Command),
           run' = [run EXCEPT ![m] = row],
           attempt' = [attempt EXCEPT ![m] = atts],
           commands' = [commands EXCEPT ![m] = cmds],
           Len(atts) <= MaxAttempts,
           Len(commands[m]) <= Len(cmds),
           unknown' \in [Messages -> Nat],
           \A b \in Messages \ {m} : unknown'[b] = unknown[b],
           unknown'[m] <= Len(cmds),
           Good(row, atts, cmds, unknown'[m], daemon),
           row.state \in Open =>
              \/ run[m].state \in Open
              \/ \A b \in Messages \ {m} : run[b].state \notin Open,
           mapped' \in [Messages -> SUBSET Messages],
           events' \in [Messages -> Seq(Event)],
           validated' \subseteq {b \in Messages : events'[b] # << >>},
           UNCHANGED <<daemon, delivered, done, context>>
    PROVE  IInv'
  <1>0. /\ run \in [Messages -> Row] /\ attempt \in [Messages -> Seq(Attempt)]
        /\ commands \in [Messages -> Seq(Command)] /\ done \in [Messages -> Nat]
        /\ delivered \in [Messages -> SUBSET Nat] /\ MaxAttempts \in Nat
    BY ClarificationAssumption DEF IInv, Types, TypeOK
  <1>1. /\ run' \in [Messages -> Row] /\ run'[m] = row
        /\ \A b \in Messages \ {m} : run'[b] = run[b]
    BY <1>0
  <1>2. /\ attempt' \in [Messages -> Seq(Attempt)] /\ attempt'[m] = atts
        /\ \A b \in Messages \ {m} : attempt'[b] = attempt[b]
    BY <1>0
  <1>3. /\ commands' \in [Messages -> Seq(Command)] /\ commands'[m] = cmds
        /\ \A b \in Messages \ {m} : commands'[b] = commands[b]
    BY <1>0
  <1>4. TypeOK'
    <2>1. ASSUME NEW b \in Messages
          PROVE  /\ Len(attempt'[b]) \in 0..MaxAttempts
                 /\ delivered'[b] \subseteq 1..Len(commands'[b])
                 /\ done'[b] \in 0..Len(commands'[b])
                 /\ unknown'[b] \in 0..Len(commands'[b])
      <3>1. /\ Len(attempt[b]) \in 0..MaxAttempts
            /\ delivered[b] \subseteq 1..Len(commands[b])
            /\ done[b] \in 0..Len(commands[b])
            /\ unknown[b] \in 0..Len(commands[b])
            /\ done'[b] = done[b] /\ delivered'[b] = delivered[b]
        BY DEF IInv, Types, TypeOK
      <3>2. CASE b = m
        <4>1. Len(atts) \in Nat /\ Len(cmds) \in Nat /\ Len(commands[m]) \in Nat /\ done[m] \in Nat
              /\ unknown'[m] \in Nat
          BY <1>0
        <4>2. delivered[m] \subseteq 1..Len(cmds)
          BY <3>1, <3>2, <4>1
        <4> QED
          BY <1>0, <1>2, <1>3, <3>1, <3>2, <4>1, <4>2
      <3>3. CASE b # m
        BY <1>2, <1>3, <3>1, <3>3
      <3> QED
        BY <3>2, <3>3
    <2> QED
      BY <1>1, <1>2, <1>3, <2>1 DEF IInv, Types, TypeOK
  <1>5. Types'
    BY <1>0, <1>2, <1>3, <1>4 DEF Types
  <1>6. OneOpen'
    BY <1>1 DEF IInv, OneOpen
  <1>7. ASSUME NEW b \in Messages
        PROVE  Good(run[b], attempt[b], commands[b], unknown[b], daemon)'
    <2>1. CASE b = m
      <3>1. Good(run'[b], attempt'[b], commands'[b], unknown'[b], daemon')
        BY <1>1, <1>2, <1>3, <2>1
      <3> QED
        BY <3>1 DEF Good, Coherent, Ledger, Orderly, Truthful
    <2>2. CASE b # m
      <3>1. /\ run'[b] = run[b] /\ attempt'[b] = attempt[b] /\ commands'[b] = commands[b]
            /\ unknown'[b] = unknown[b] /\ daemon' = daemon
        BY <1>1, <1>2, <1>3, <2>2
      <3>2. Good(run[b], attempt[b], commands[b], unknown[b], daemon)
        BY DEF IInv
      <3>3. Good(run'[b], attempt'[b], commands'[b], unknown'[b], daemon')
        BY <3>1, <3>2
      <3> QED
        BY <3>3 DEF Good, Coherent, Ledger, Orderly, Truthful
    <2> QED
      BY <2>1, <2>2
  <1> QED
    BY <1>5, <1>6, <1>7 DEF IInv

\* What the invariant says of one run.
LEMMA RunFacts ==
    ASSUME IInv, NEW m \in Messages
    PROVE  /\ run[m] \in Row /\ attempt[m] \in Seq(Attempt) /\ commands[m] \in Seq(Command)
           /\ Len(attempt[m]) <= MaxAttempts /\ unknown[m] \in 0..Len(commands[m])
           /\ Good(run[m], attempt[m], commands[m], unknown[m], daemon)
           /\ run[m].state \in Open => \A b \in Messages \ {m} : run[b].state \notin Open
           /\ MaxAttempts \in Nat /\ MaxAttempts # 0
  BY ClarificationAssumption DEF IInv, Types, TypeOK, OneOpen

\* Append, element by element.
LEMMA AppendFacts ==
    ASSUME NEW S, NEW q \in Seq(S), NEW e \in S
    PROVE  /\ Len(q) \in Nat
           /\ Len(Append(q, e)) = Len(q) + 1
           /\ \A i \in 1..Len(q) : Append(q, e)[i] = q[i]
           /\ Append(q, e)[Len(q) + 1] = e
           /\ Append(q, e) \in Seq(S)
  OBVIOUS

\* A new attempt is open and comes last.
LEMMA OpenAttempt ==
    ASSUME NEW atts \in Seq(Attempt)
    PROVE  /\ Len(atts) \in Nat
           /\ Len(Append(atts, "open")) = Len(atts) + 1
           /\ \A i \in 1..Len(atts) : Append(atts, "open")[i] = atts[i]
           /\ Append(atts, "open")[Len(atts) + 1] = "open"
           /\ Append(atts, "open") \in Seq(Attempt)
  <1>1. "open" \in Attempt
    BY DEF Attempt
  <1> QED
    BY <1>1, AppendFacts

\* A new command that executes nothing, for a row that keeps its ledger.
LEMMA IssueGood ==
    ASSUME NEW row, NEW new, NEW atts, NEW cmds \in Seq(Command), NEW unk, NEW reg,
           NEW kind \in {"message", "cancel"},
           Good(row, atts, cmds, unk, reg),
           new.attempts = row.attempts, new.current = row.current, new.state = row.state,
           new.owner = row.owner, new.class = row.class,
           row.cancel_requested \/ kind = "cancel" => new.cancel_requested,
           new.cancel_requested = row.cancel_requested \/ row.state \in Open
    PROVE  Good(new, atts, Append(cmds, kind), unk, reg)
  <1>1. kind \in Command /\ kind \notin Executions
    BY DEF Command, Executions
  <1>2. Count(Append(cmds, kind), Executions) = Count(cmds, Executions)
    BY <1>1, CountAppend
  <1>3. Ledger(new, atts, Append(cmds, kind))
    BY <1>2 DEF Good, Ledger
  <1>4. Coherent(new) /\ Truthful(new, unk, reg)
    BY DEF Good, Coherent, Truthful, Open
  <1>5. Orderly(new, Append(cmds, kind))
    <2>1. /\ Len(cmds) \in Nat /\ Len(Append(cmds, kind)) = Len(cmds) + 1
          /\ \A i \in 1..Len(cmds) : Append(cmds, kind)[i] = cmds[i]
          /\ Append(cmds, kind)[Len(cmds) + 1] = kind
      BY <1>1
    <2> QED
      BY <1>1, <2>1 DEF Good, Orderly
  <1> QED
    BY <1>3, <1>4, <1>5 DEF Good

\* BeginAttempt, for a row without a current attempt and with a budget.
LEMMA BeginGood ==
    ASSUME NEW row \in Row, NEW new, NEW atts \in Seq(Attempt), NEW cmds \in Seq(Command),
           NEW unk, NEW reg, NEW kind \in Executions,
           new = [row EXCEPT !.attempts = @ + 1, !.current = row.attempts + 1],
           row.attempts = Len(atts), row.attempts = Count(cmds, Executions),
           \A n \in 1..Len(atts) : atts[n] # "open",
           Orderly(row, cmds), ~row.cancel_requested,
           row.attempts < MaxAttempts,
           row.owner # NoDaemon, row.state \in {"Idle", "Running"}
    PROVE  new \in Row /\ Good(new, Append(atts, "open"), Append(cmds, kind), unk, reg)
  <1>0. MaxAttempts \in Nat /\ row.attempts \in 0..MaxAttempts /\ Len(cmds) \in Nat
    BY ClarificationAssumption DEF Row
  <1>1. row.attempts + 1 \in 0..MaxAttempts /\ row.attempts + 1 # 0
    BY <1>0
  <1>2. /\ new \in Row /\ new.attempts = row.attempts + 1 /\ new.current = row.attempts + 1
        /\ new.state = row.state /\ new.owner = row.owner
        /\ new.cancel_requested = row.cancel_requested /\ new.class = row.class
    <2>1. /\ new \in Row
          /\ new.attempts = row.attempts + 1 /\ new.current = row.attempts + 1
      BY <1>1 DEF Row
    <2>2. /\ new.state = row.state /\ new.owner = row.owner /\ new.class = row.class
          /\ new.cancel_requested = row.cancel_requested
      BY DEF Row
    <2> QED
      BY <2>1, <2>2
  <1>3. /\ Len(Append(atts, "open")) = Len(atts) + 1
        /\ \A i \in 1..Len(atts) : Append(atts, "open")[i] = atts[i]
        /\ Append(atts, "open")[Len(atts) + 1] = "open"
    BY OpenAttempt
  <1>4. kind \in Command
    BY DEF Command, Executions
  <1>5. Count(Append(cmds, kind), Executions) = Count(cmds, Executions) + 1
    BY <1>4, CountAppend
  <1>6. {n \in 1..Len(atts) + 1 : Append(atts, "open")[n] = "open"} = {Len(atts) + 1}
    BY <1>0, <1>3
  <1>7. Ledger(new, Append(atts, "open"), Append(cmds, kind))
    BY <1>1, <1>2, <1>3, <1>5, <1>6 DEF Ledger
  <1>8. Coherent(new) /\ Truthful(new, unk, reg)
    BY <1>1, <1>2 DEF Coherent, Truthful
  <1>9. Orderly(new, Append(cmds, kind))
    <2>1. /\ Len(Append(cmds, kind)) = Len(cmds) + 1
          /\ \A i \in 1..Len(cmds) : Append(cmds, kind)[i] = cmds[i]
          /\ Append(cmds, kind)[Len(cmds) + 1] = kind
      BY <1>0, <1>4
    <2>2. kind # "cancel" /\ \A i \in 1..Len(cmds) : cmds[i] # "cancel"
      BY DEF Executions, Orderly
    <2> QED
      BY <1>0, <1>2, <2>1, <2>2 DEF Orderly
  <1> QED
    BY <1>2, <1>7, <1>8, <1>9 DEF Good

-----------------------------------------------------------------------------
(* The transactions of the browser.                                        *)

\* Assign, of a run without an owner or a history.
LEMMA AssignStep ==
    ASSUME IInv, NEW m \in Messages, NEW row \in Row, Assign(m, row),
           row.state = "Idle", row.owner = NoDaemon, row.attempts = 0, row.current = 0,
           ~row.cancel_requested,
           run[m].owner = NoDaemon, ~run[m].cancel_requested, run[m].current = 0,
           run[m].state \in Open \/ \A b \in Messages \ {m} : run[b].state \notin Open,
           UNCHANGED <<mapped, unknown, daemon, daemonVars, events, validated>>
    PROVE  IInv'
  <1>1. /\ run[m] \in Row /\ attempt[m] \in Seq(Attempt) /\ commands[m] \in Seq(Command)
        /\ Len(attempt[m]) <= MaxAttempts /\ unknown[m] \in 0..Len(commands[m])
        /\ Good(run[m], attempt[m], commands[m], unknown[m], daemon)
        /\ MaxAttempts \in Nat /\ MaxAttempts # 0
    BY RunFacts
  <1>2. /\ Len(attempt[m]) = 0 /\ Count(commands[m], Executions) = 0
        /\ \A n \in 1..Len(attempt[m]) : attempt[m][n] # "open"
        /\ Orderly(row, commands[m])
    BY <1>1 DEF Good, Coherent, Ledger, Orderly
  <1>3. /\ attempt \in [Messages -> Seq(Attempt)] /\ commands \in [Messages -> Seq(Command)]
        /\ unknown' \in [Messages -> Nat] /\ unknown' = unknown
        /\ mapped' \in [Messages -> SUBSET Messages] /\ events' \in [Messages -> Seq(Event)]
        /\ validated' \subseteq {b \in Messages : events'[b] # << >>}
        /\ UNCHANGED <<daemon, delivered, done, context>>
    BY DEF IInv, Types, TypeOK, daemonVars
  <1>4. PICK d \in Daemons \cup {NoDaemon} : d = ChooseEligibleDaemon
    BY ChosenDaemon
  <1>5. CASE d = NoDaemon
    <2>1. /\ run' = [run EXCEPT ![m] = row]
          /\ attempt' = [attempt EXCEPT ![m] = attempt[m]]
          /\ commands' = [commands EXCEPT ![m] = commands[m]]
      BY <1>3, <1>4, <1>5 DEF Assign
    <2>2. Ledger(row, attempt[m], commands[m])
      BY <1>1, <1>2 DEF Good, Ledger
    <2>3. Good(row, attempt[m], commands[m], unknown'[m], daemon)
      BY <1>2, <2>2 DEF Good, Coherent, Truthful
    <2>4. Len(commands[m]) <= Len(commands[m]) /\ unknown'[m] <= Len(commands[m])
      BY <1>1, <1>3
    <2> QED
      BY <1>1, <1>3, <2>1, <2>3, <2>4, RunStep
  <1>6. CASE d # NoDaemon
    <2> DEFINE owned == [row EXCEPT !.owner = d]
               new == [owned EXCEPT !.attempts = @ + 1, !.current = owned.attempts + 1]
    <2>1. /\ owned \in Row /\ owned.owner = d /\ owned.state = "Idle" /\ owned.attempts = 0
          /\ ~owned.cancel_requested
      BY DEF Row
    <2>2. BeginAttempt(m, owned, "start")
      BY <1>4, <1>6 DEF Assign
    <2> HIDE DEF owned
    <2>3. /\ run' = [run EXCEPT ![m] = new]
          /\ attempt' = [attempt EXCEPT ![m] = Append(attempt[m], "open")]
          /\ commands' = [commands EXCEPT ![m] = Append(commands[m], "start")]
      BY <2>2 DEF BeginAttempt, Issue
    <2>4. Orderly(owned, commands[m]) /\ "start" \in Executions
      BY <1>2, <2>1 DEF Orderly, Executions
    <2>5. owned.attempts < MaxAttempts /\ owned.attempts = Len(attempt[m])
          /\ owned.attempts = Count(commands[m], Executions)
      BY <1>1, <1>2, <2>1
    <2>6. PICK fresh : fresh = new
      OBVIOUS
    <2>7. /\ fresh \in Row
          /\ Good(fresh, Append(attempt[m], "open"), Append(commands[m], "start"), unknown'[m],
                  daemon)
      BY <1>1, <1>2, <1>6, <2>1, <2>4, <2>5, <2>6, BeginGood
    <2>8. run' = [run EXCEPT ![m] = fresh]
      BY <2>3, <2>6
    <2> HIDE DEF new
    <2>9. Append(attempt[m], "open") \in Seq(Attempt) /\ Len(Append(attempt[m], "open")) <= MaxAttempts
      BY <1>1, <1>2, OpenAttempt
    <2>10. /\ Append(commands[m], "start") \in Seq(Command)
           /\ Len(commands[m]) <= Len(Append(commands[m], "start"))
           /\ unknown'[m] <= Len(Append(commands[m], "start"))
      <3>1. "start" \in Command
        BY DEF Command
      <3>2. Append(commands[m], "start") \in Seq(Command) /\ Len(commands[m]) \in Nat
            /\ Len(Append(commands[m], "start")) = Len(commands[m]) + 1
        BY <1>1, <3>1, AppendFacts
      <3> QED
        BY <1>1, <1>3, <3>2
    <2> QED
      BY <1>3, <2>3, <2>7, <2>8, <2>9, <2>10, RunStep
  <1> QED
    BY <1>5, <1>6

LEMMA StartNewRunStep == ASSUME IInv, NEW m \in Messages, StartNewRun(m) PROVE IInv'
  <1> DEFINE row == [AbsentRow EXCEPT !.state = "Idle"]
  <1>1. /\ row \in Row /\ row.state = "Idle" /\ row.owner = NoDaemon /\ row.attempts = 0
        /\ row.current = 0 /\ ~row.cancel_requested
    <2>1. 0 \in 0..MaxAttempts
      BY ClarificationAssumption
    <2> QED
      BY <2>1 DEF AbsentRow, Row, Open, Classes
  <1>2. Assign(m, row) /\ UNCHANGED <<mapped, unknown, daemon, daemonVars, events, validated>>
    BY DEF StartNewRun
  <1>3. run[m].state = "Absent" /\ \A b \in Messages \ {m} : run[b].state \notin Open
    BY DEF StartNewRun, Occupants
  <1>4. run[m].owner = NoDaemon /\ ~run[m].cancel_requested /\ run[m].current = 0
    BY <1>3, RunFacts DEF Good, Coherent, Ledger
  <1> HIDE DEF row
  <1> QED
    BY <1>1, <1>2, <1>3, <1>4, AssignStep

LEMMA StartAgainStep == ASSUME IInv, NEW m \in Messages, StartAgain(m) PROVE IInv'
  <1>1. /\ run[m] \in Row /\ run[m].owner = NoDaemon /\ ~run[m].cancel_requested
        /\ Good(run[m], attempt[m], commands[m], unknown[m], daemon)
        /\ run[m].state \in Open
    BY RunFacts DEF StartAgain
  <1>2. run[m].state = "Idle" /\ run[m].attempts = 0 /\ run[m].current = 0
    BY <1>1 DEF Good, Coherent, Ledger, Open
  <1>3. /\ Assign(m, run[m])
        /\ UNCHANGED <<mapped, unknown, daemon, daemonVars, events, validated>>
    BY DEF StartAgain
  <1>4. PICK row \in Row : row = run[m]
    BY <1>1
  <1>5. Assign(m, row)
    BY <1>3, <1>4
  <1> QED
    BY <1>1, <1>2, <1>3, <1>4, <1>5, AssignStep

\* What a transaction leaves alone has its type and its values.
LEMMA Untouched ==
    ASSUME IInv, UNCHANGED <<unknown, daemon, daemonVars, events, validated>>
    PROVE  /\ unknown' \in [Messages -> Nat] /\ unknown' = unknown
           /\ events' \in [Messages -> Seq(Event)]
           /\ validated' \subseteq {b \in Messages : events'[b] # << >>}
           /\ UNCHANGED <<daemon, delivered, done, context>>
  BY DEF IInv, Types, TypeOK, daemonVars

LEMMA DispatchMessageStep ==
    ASSUME IInv, NEW m \in Messages, NEW message \in Messages, DispatchMessage(m, message)
    PROVE  IInv'
  <1>1. /\ run[m] \in Row /\ attempt[m] \in Seq(Attempt) /\ commands[m] \in Seq(Command)
        /\ Len(attempt[m]) <= MaxAttempts /\ unknown[m] \in 0..Len(commands[m])
        /\ Good(run[m], attempt[m], commands[m], unknown[m], daemon)
        /\ Len(commands[m]) \in Nat
    BY RunFacts
  <1>2. UNCHANGED <<run, attempt, unknown, daemon, daemonVars, events, validated>>
    BY DEF DispatchMessage
  <1>3. PICK row \in Row : row = run[m]
    BY <1>1
  <1>4. /\ run' = [run EXCEPT ![m] = row]
        /\ attempt' = [attempt EXCEPT ![m] = attempt[m]]
        /\ commands' = [commands EXCEPT ![m] = Append(commands[m], "message")]
    BY <1>2, <1>3 DEF DispatchMessage, Issue, IInv, Types, TypeOK
  <1>5. mapped' \in [Messages -> SUBSET Messages]
    BY DEF DispatchMessage, IInv, Types, TypeOK
  <1>6. /\ Append(commands[m], "message") \in Seq(Command)
        /\ Len(Append(commands[m], "message")) = Len(commands[m]) + 1
    <2>1. "message" \in Command
      BY DEF Command
    <2> QED
      BY <1>1, <2>1, AppendFacts
  <1>7. Good(row, attempt[m], Append(commands[m], "message"), unknown[m], daemon)
    <2>1. "message" \in {"message", "cancel"} /\ "message" # "cancel"
      OBVIOUS
    <2>2. row.cancel_requested \/ "message" = "cancel" => row.cancel_requested
      BY <2>1
    <2>3. Good(row, attempt[m], commands[m], unknown[m], daemon)
      BY <1>1, <1>3
    <2> QED
      BY <1>1, <2>1, <2>2, <2>3, IssueGood
  <1>8. Len(commands[m]) <= Len(Append(commands[m], "message"))
        /\ unknown[m] <= Len(Append(commands[m], "message"))
    BY <1>1, <1>6
  <1> QED
    BY <1>1, <1>2, <1>3, <1>4, <1>5, <1>6, <1>7, <1>8, Untouched, RunStep

\* A row that only gets its request marks.
LEMMA MarkGood ==
    ASSUME NEW row, NEW new, NEW atts, NEW cmds, NEW unk, NEW reg,
           Good(row, atts, cmds, unk, reg),
           new.attempts = row.attempts, new.current = row.current, new.state = row.state,
           new.owner = row.owner, new.class = row.class,
           new.cancel_requested, row.state \in Open
    PROVE  Good(new, atts, cmds, unk, reg)
  <1>1. Ledger(new, atts, cmds)
    BY DEF Good, Ledger
  <1>2. Coherent(new) /\ Truthful(new, unk, reg) /\ Orderly(new, cmds)
    BY DEF Good, Coherent, Truthful, Open, Orderly
  <1> QED
    BY <1>1, <1>2 DEF Good

LEMMA CancelClarificationStep ==
    ASSUME IInv, NEW m \in Messages, CancelClarification(m)
    PROVE  IInv'
  <1>1. /\ run[m] \in Row /\ attempt[m] \in Seq(Attempt) /\ commands[m] \in Seq(Command)
        /\ Len(attempt[m]) <= MaxAttempts /\ unknown[m] \in 0..Len(commands[m])
        /\ Good(run[m], attempt[m], commands[m], unknown[m], daemon)
        /\ Len(commands[m]) \in Nat
    BY RunFacts
  <1>2. UNCHANGED <<attempt, mapped, unknown, daemon, daemonVars, events, validated>>
    BY DEF CancelClarification
  <1>3. PICK row \in Row : row = run[m]
    BY <1>1
  <1>4. PICK new : new = CancelledRow(row)
    OBVIOUS
  <1>5. run' = [run EXCEPT ![m] = new]
    BY <1>3, <1>4 DEF CancelClarification
  <1>6. row.state \in Open
    BY <1>3 DEF CancelClarification, Phase, Row, Open, Terminal
  <1>7. /\ attempt' = [attempt EXCEPT ![m] = attempt[m]]
        /\ mapped' \in [Messages -> SUBSET Messages]
        /\ commands \in [Messages -> Seq(Command)]
    BY <1>2 DEF IInv, Types, TypeOK
  <1>8. Good(row, attempt[m], commands[m], unknown[m], daemon)
    BY <1>1, <1>3
  <1>9. CASE row.current = 0
    <2>1. /\ new \in Row /\ new.state = "Failed" /\ new.class = "cancelled"
          /\ new.cancel_requested = TRUE
          /\ new.attempts = row.attempts /\ new.current = row.current /\ new.owner = row.owner
      BY <1>4, <1>9 DEF CancelledRow, Row, Terminal, Classes
    <2>2. Ledger(new, attempt[m], commands[m])
      BY <1>8, <1>9, <2>1 DEF Good, Ledger
    <2>3. Coherent(new) /\ Truthful(new, unknown[m], daemon) /\ Orderly(new, commands[m])
      BY <1>8, <2>1 DEF Good, Coherent, Truthful, Orderly
    <2>4. Good(new, attempt[m], commands[m], unknown[m], daemon)
      BY <2>2, <2>3 DEF Good
    <2>5. commands' = [commands EXCEPT ![m] = commands[m]]
      BY <1>3, <1>7, <1>9 DEF CancelClarification
    <2>6. new.state \notin Open /\ Len(commands[m]) <= Len(commands[m])
          /\ unknown[m] <= Len(commands[m])
      BY <1>1, <2>1 DEF Open
    <2> QED
      BY <1>1, <1>2, <1>5, <1>7, <2>1, <2>4, <2>5, <2>6, Untouched, RunStep
  <1>10. CASE row.current # 0
    <2>1. /\ new \in Row /\ new.cancel_requested = TRUE
          /\ new.state = row.state /\ new.class = row.class
          /\ new.attempts = row.attempts /\ new.current = row.current /\ new.owner = row.owner
      BY <1>4, <1>10 DEF CancelledRow, Row
    <2>2. CASE row.cancel_command
      <3>1. commands' = [commands EXCEPT ![m] = commands[m]]
        BY <1>3, <1>7, <2>2 DEF CancelClarification
      <3>2. Good(new, attempt[m], commands[m], unknown[m], daemon)
        BY <1>6, <1>8, <2>1, MarkGood
      <3>3. Len(commands[m]) <= Len(commands[m]) /\ unknown[m] <= Len(commands[m])
        BY <1>1
      <3> QED
        BY <1>1, <1>2, <1>3, <1>5, <1>6, <1>7, <2>1, <3>1, <3>2, <3>3, Untouched, RunStep
    <2>3. CASE ~row.cancel_command
      <3>1. commands' = [commands EXCEPT ![m] = Append(commands[m], "cancel")]
        BY <1>3, <1>10, <2>3 DEF CancelClarification, Issue
      <3>2. /\ Append(commands[m], "cancel") \in Seq(Command)
            /\ Len(Append(commands[m], "cancel")) = Len(commands[m]) + 1
        <4>1. "cancel" \in Command
          BY DEF Command
        <4> QED
          BY <1>1, <4>1, AppendFacts
      <3>3. Good(new, attempt[m], Append(commands[m], "cancel"), unknown[m], daemon)
        <4>1. "cancel" \in {"message", "cancel"}
          OBVIOUS
        <4> QED
          BY <1>1, <1>6, <1>8, <2>1, <4>1, IssueGood
      <3>4. /\ Len(commands[m]) <= Len(Append(commands[m], "cancel"))
            /\ unknown[m] <= Len(Append(commands[m], "cancel"))
        BY <1>1, <3>2
      <3> QED
        BY <1>1, <1>2, <1>3, <1>5, <1>6, <1>7, <2>1, <3>1, <3>2, <3>3, <3>4, Untouched, RunStep
    <2> QED
      BY <2>2, <2>3
  <1> QED
    BY <1>9, <1>10
-----------------------------------------------------------------------------
(* The retry worker.                                                       *)

LEMMA ClaimDueRetryStep == ASSUME IInv, NEW m \in Messages, ClaimDueRetry(m) PROVE IInv'
  <1>1. /\ run[m] \in Row /\ attempt[m] \in Seq(Attempt) /\ commands[m] \in Seq(Command)
        /\ Len(attempt[m]) <= MaxAttempts /\ unknown[m] \in 0..Len(commands[m])
        /\ Good(run[m], attempt[m], commands[m], unknown[m], daemon)
        /\ Len(commands[m]) \in Nat
        /\ MaxAttempts \in Nat
    BY RunFacts
  <1>2. UNCHANGED <<mapped, unknown, daemon, daemonVars, events, validated>>
    BY DEF ClaimDueRetry
  <1>3. PICK row \in Row : row = run[m]
    BY <1>1
  <1>4. /\ Good(row, attempt[m], commands[m], unknown[m], daemon)
        /\ row.state = "Retrying" /\ row.current = 0
        /\ row.attempts \in 0..MaxAttempts
    BY <1>1, <1>3 DEF ClaimDueRetry, Due, Row
  <1>5. /\ row.owner # NoDaemon
        /\ row.attempts = Len(attempt[m]) /\ row.attempts = Count(commands[m], Executions)
        /\ \A n \in 1..Len(attempt[m]) : attempt[m][n] # "open"
    BY <1>4 DEF Good, Coherent, Ledger
  <1>6. /\ mapped' \in [Messages -> SUBSET Messages]
        /\ attempt \in [Messages -> Seq(Attempt)] /\ commands \in [Messages -> Seq(Command)]
    BY <1>2 DEF IInv, Types, TypeOK
  <1>7. CASE ClaimClass(row) = "none"
    <2> DEFINE resumed == [row EXCEPT !.state = "Running", !.runtime = FALSE, !.class = "none"]
    <2>1. /\ resumed \in Row /\ resumed.state = "Running"
          /\ resumed.attempts = row.attempts /\ resumed.owner = row.owner
          /\ resumed.cancel_requested = row.cancel_requested
      BY DEF Row, Open, Classes
    <2>2. ~row.cancel_requested /\ row.attempts < MaxAttempts
      BY <1>1, <1>4, <1>7 DEF ClaimClass, Exhausted
    <2>3. BeginAttempt(m, resumed, "resume")
      BY <1>3, <1>7 DEF ClaimDueRetry
    <2> HIDE DEF resumed
    <2>4. PICK new : new = [resumed EXCEPT !.attempts = @ + 1, !.current = resumed.attempts + 1]
      OBVIOUS
    <2>5. /\ run' = [run EXCEPT ![m] = new]
          /\ attempt' = [attempt EXCEPT ![m] = Append(attempt[m], "open")]
          /\ commands' = [commands EXCEPT ![m] = Append(commands[m], "resume")]
      BY <2>3, <2>4 DEF BeginAttempt, Issue
    <2>6. Orderly(resumed, commands[m]) /\ "resume" \in Executions /\ "resume" \in Command
      BY <1>4, <2>1 DEF Good, Orderly, Executions, Command
    <2>7. /\ new \in Row
          /\ Good(new, Append(attempt[m], "open"), Append(commands[m], "resume"), unknown[m], daemon)
      BY <1>1, <1>5, <2>1, <2>2, <2>4, <2>6, BeginGood
    <2>8. Append(attempt[m], "open") \in Seq(Attempt) /\ Len(Append(attempt[m], "open")) <= MaxAttempts
      <3>1. /\ Append(attempt[m], "open") \in Seq(Attempt) /\ Len(attempt[m]) \in Nat
            /\ Len(Append(attempt[m], "open")) = Len(attempt[m]) + 1
        BY <1>1, OpenAttempt
      <3>2. Len(attempt[m]) < MaxAttempts
        BY <1>5, <2>2
      <3> QED
        BY <1>1, <3>1, <3>2
    <2>9. /\ Append(commands[m], "resume") \in Seq(Command)
          /\ Len(commands[m]) <= Len(Append(commands[m], "resume"))
          /\ unknown[m] <= Len(Append(commands[m], "resume"))
      <3>1. Append(commands[m], "resume") \in Seq(Command)
            /\ Len(Append(commands[m], "resume")) = Len(commands[m]) + 1
        BY <1>1, <2>6, AppendFacts
      <3> QED
        BY <1>1, <3>1
    <2>10. run[m].state \in Open
      BY <1>3, <1>4 DEF Open
    <2> QED
      BY <1>2, <1>6, <2>5, <2>7, <2>8, <2>9, <2>10, Untouched, RunStep
  <1>8. CASE ClaimClass(row) # "none"
    <2>0. PICK class : class = ClaimClass(row)
      OBVIOUS
    <2>1. /\ class \in Classes
          /\ class = "cancelled" <=> row.cancel_requested
          /\ class = "retry_exhausted" => row.attempts = MaxAttempts
          /\ class = "owner_unavailable" => daemon[row.owner] = "revoked"
          /\ class \notin {"none", "runtime_failure", "execution_outcome_unknown"}
      <3>1. CASE row.cancel_requested
        BY <2>0, <3>1 DEF ClaimClass, Classes
      <3>2. CASE ~row.cancel_requested /\ Exhausted(row)
        <4>1. row.attempts = MaxAttempts
          BY <1>1, <1>4, <3>2 DEF Exhausted
        <4> QED
          BY <2>0, <3>2, <4>1 DEF ClaimClass, Classes
      <3>3. CASE ~row.cancel_requested /\ ~Exhausted(row)
        BY <1>5, <1>8, <2>0, <3>3 DEF ClaimClass, Classes
      <3> QED
        BY <3>1, <3>2, <3>3
    <2>2. PICK new : new = [row EXCEPT !.state = "Failed", !.class = class]
      OBVIOUS
    <2>3. /\ new \in Row /\ new.state = "Failed" /\ new.class = class
          /\ new.attempts = row.attempts /\ new.owner = row.owner /\ new.current = row.current
          /\ new.cancel_requested = row.cancel_requested
      BY <2>1, <2>2 DEF Row, Terminal
    <2>4. /\ run' = [run EXCEPT ![m] = new]
          /\ attempt' = [attempt EXCEPT ![m] = attempt[m]]
          /\ commands' = [commands EXCEPT ![m] = commands[m]]
      <3>1. /\ run' = [run EXCEPT ![m].state = "Failed", ![m].class = class]
            /\ UNCHANGED <<attempt, commands>>
        BY <1>3, <1>8, <2>0 DEF ClaimDueRetry
      <3>2. run \in [Messages -> Row]
        BY DEF IInv, Types, TypeOK
      <3>3. [run EXCEPT ![m].state = "Failed", ![m].class = class]
              = [run EXCEPT ![m] = [run[m] EXCEPT !.state = "Failed", !.class = class]]
        BY <3>2
      <3> QED
        BY <1>3, <1>6, <2>2, <3>1, <3>3
    <2>5. Ledger(new, attempt[m], commands[m])
      BY <1>4, <2>3 DEF Good, Ledger
    <2>6. Coherent(new) /\ Truthful(new, unknown[m], daemon) /\ Orderly(new, commands[m])
      BY <1>4, <1>5, <2>1, <2>3 DEF Good, Coherent, Truthful, Orderly
    <2>7. Good(new, attempt[m], commands[m], unknown[m], daemon)
      BY <2>5, <2>6 DEF Good
    <2>8. new.state \notin Open /\ Len(commands[m]) <= Len(commands[m])
          /\ unknown[m] <= Len(commands[m])
      BY <1>1, <2>3 DEF Open
    <2> QED
      BY <1>1, <1>2, <1>6, <2>3, <2>4, <2>7, <2>8, Untouched, RunStep
  <1> QED
    BY <1>7, <1>8

-----------------------------------------------------------------------------
(* Events of the daemon.                                                   *)

\* Receive takes the first event, and remembers the first unknown outcome.
LEMMA ReceiveFacts ==
    ASSUME IInv, NEW m \in Messages, Receive(m)
    PROVE  /\ Head(events[m]) \in Event
           /\ events' \in [Messages -> Seq(Event)]
           /\ validated' \subseteq {b \in Messages : events'[b] # << >>}
           /\ unknown' \in [Messages -> Nat]
           /\ \A b \in Messages \ {m} : unknown'[b] = unknown[b]
           /\ unknown'[m] <= Len(commands[m])
           /\ unknown[m] # 0 => unknown'[m] # 0
           /\ Head(events[m]) = "unknown" /\ Len(commands[m]) # 0 => unknown'[m] # 0
  <1>1. /\ events \in [Messages -> Seq(Event)] /\ unknown \in [Messages -> Nat]
        /\ unknown[m] \in 0..Len(commands[m]) /\ Len(commands[m]) \in Nat
        /\ validated \subseteq {b \in Messages : events[b] # << >>}
    BY DEF IInv, Types, TypeOK
  <1>2. m \in validated /\ events[m] \in Seq(Event) /\ events[m] # << >>
    BY <1>1 DEF Receive
  <1>3. Head(events[m]) \in Event /\ Tail(events[m]) \in Seq(Event)
    BY <1>2
  <1>4. /\ events' \in [Messages -> Seq(Event)]
        /\ \A b \in Messages \ {m} : events'[b] = events[b]
    BY <1>1, <1>3 DEF Receive
  <1>5. validated' \subseteq {b \in Messages : events'[b] # << >>}
    BY <1>1, <1>4 DEF Receive
  <1>6. CASE Head(events[m]) = "unknown" /\ unknown[m] = 0
    <2>1. unknown' = [unknown EXCEPT ![m] = Len(commands[m])]
      BY <1>6 DEF Receive
    <2> QED
      BY <1>1, <1>3, <1>4, <1>5, <1>6, <2>1
  <1>7. CASE ~(Head(events[m]) = "unknown" /\ unknown[m] = 0)
    <2>1. unknown' = unknown
      BY <1>7 DEF Receive
    <2> QED
      BY <1>1, <1>3, <1>4, <1>5, <1>7, <2>1
  <1> QED
    BY <1>6, <1>7

\* An unknown outcome that was reported stays reported.
LEMMA UnknownGood ==
    ASSUME NEW row, NEW atts, NEW cmds, NEW unk, NEW later, NEW reg,
           Good(row, atts, cmds, unk, reg), unk # 0 => later # 0
    PROVE  Good(row, atts, cmds, later, reg)
  BY DEF Good, Truthful

LEMMA RejectEventStep == ASSUME IInv, NEW m \in Messages, RejectEvent(m) PROVE IInv'
  <1>1. /\ run[m] \in Row /\ attempt[m] \in Seq(Attempt) /\ commands[m] \in Seq(Command)
        /\ Len(attempt[m]) <= MaxAttempts /\ unknown[m] \in 0..Len(commands[m])
        /\ Good(run[m], attempt[m], commands[m], unknown[m], daemon)
        /\ Len(commands[m]) \in Nat
    BY RunFacts
  <1>2. UNCHANGED <<run, attempt, commands, mapped, daemon, daemonVars>> /\ Receive(m)
    BY DEF RejectEvent
  <1>3. PICK row \in Row : row = run[m]
    BY <1>1
  <1>4. /\ run' = [run EXCEPT ![m] = row]
        /\ attempt' = [attempt EXCEPT ![m] = attempt[m]]
        /\ commands' = [commands EXCEPT ![m] = commands[m]]
        /\ mapped' \in [Messages -> SUBSET Messages]
    BY <1>2, <1>3 DEF IInv, Types, TypeOK
  <1>5. Good(row, attempt[m], commands[m], unknown'[m], daemon)
    BY <1>1, <1>2, <1>3, ReceiveFacts, UnknownGood
  <1>6. UNCHANGED <<daemon, delivered, done, context>>
    BY <1>2 DEF daemonVars
  <1>7. Len(commands[m]) <= Len(commands[m])
    BY <1>1
  <1> QED
    BY <1>1, <1>2, <1>3, <1>4, <1>5, <1>6, <1>7, ReceiveFacts, RunStep

\* What project_clarification_event accepts: a report on a current attempt.
LEMMA AcceptedRow ==
    ASSUME NEW row \in Row, NEW atts \in Seq(Attempt), NEW cmds \in Seq(Command), NEW unk, NEW reg,
           NEW type, Good(row, atts, cmds, unk, reg), Rejection(row, type) = "none"
    PROVE  /\ row.state \in {"Idle", "Running"} /\ row.owner # NoDaemon
           /\ row.current \in 1..Len(atts) /\ row.current # 0
           /\ \A n \in 1..Len(atts) : n # row.current => atts[n] # "open"
           /\ Len(cmds) # 0
  <1>1. row.state \notin Terminal /\ row.owner # NoDaemon /\ row.current # 0
    BY DEF Rejection
  <1>2. row.state \in {"Idle", "Running"}
    BY <1>1 DEF Good, Ledger
  <1>3. {n \in 1..Len(atts) : atts[n] = "open"} = {row.current}
    BY <1>1 DEF Good, Ledger
  <1>4. /\ row.current \in 1..Len(atts)
        /\ \A n \in 1..Len(atts) : n # row.current => atts[n] # "open"
    BY <1>3
  <1>5. Len(atts) # 0 /\ Len(atts) \in Nat
    BY <1>4
  <1>6. Len(cmds) # 0
    BY <1>5, CountEmpty DEF Good, Ledger
  <1> QED
    BY <1>1, <1>2, <1>4, <1>6

\* An attempt is closed: its run has no current attempt any more.
LEMMA CloseGood ==
    ASSUME NEW row \in Row, NEW atts \in Seq(Attempt), NEW cmds \in Seq(Command), NEW unk, NEW reg,
           NEW type, Good(row, atts, cmds, unk, reg), Rejection(row, type) = "none",
           NEW new,
           new.attempts = row.attempts, new.owner = row.owner, new.current = 0,
           new.cancel_requested = row.cancel_requested,
           new.state \in {"Completed", "Failed", "Retrying"},
           Truthful(new, unk, reg),
           NEW closed, Len(closed) = Len(atts), closed[row.current] # "open",
           \A n \in 1..Len(atts) : n # row.current => closed[n] = atts[n]
    PROVE  Good(new, closed, cmds, unk, reg)
  <1>1. /\ row.state \in {"Idle", "Running"} /\ row.owner # NoDaemon
        /\ row.current \in 1..Len(atts) /\ row.current # 0
        /\ \A n \in 1..Len(atts) : n # row.current => atts[n] # "open"
    BY AcceptedRow
  <1>2. \A n \in 1..Len(atts) : closed[n] # "open"
    BY <1>1
  <1>3. Ledger(new, closed, cmds)
    BY <1>2 DEF Good, Ledger
  <1>4. Coherent(new) /\ Orderly(new, cmds)
    BY <1>1 DEF Good, Coherent, Orderly
  <1> QED
    BY <1>3, <1>4 DEF Good

\* FailureDecision tells the truth about a run that fails.
LEMMA DecisionFacts ==
    ASSUME NEW row \in Row, NEW type \in {"failed", "unknown"}, NEW st, NEW cl,
           st = FailureDecision(row, type)[1], cl = FailureDecision(row, type)[2]
    PROVE  /\ st \in {"Failed", "Retrying"} /\ cl \in Classes
           /\ st = "Failed" =>
                /\ cl = "cancelled" <=> row.cancel_requested
                /\ cl = "retry_exhausted" => row.attempts = MaxAttempts
                /\ cl = "owner_unavailable" => daemon[row.owner] = "revoked"
                /\ cl = "execution_outcome_unknown" => type = "unknown"
                /\ cl \notin {"none", "runtime_failure"}
  <1>1. CASE row.cancel_requested
    BY <1>1 DEF FailureDecision, Classes
  <1>2. CASE ~row.cancel_requested /\ type = "unknown"
    BY <1>2 DEF FailureDecision, Classes
  <1>3. CASE ~row.cancel_requested /\ type # "unknown" /\ daemon[row.owner] = "revoked"
    BY <1>3 DEF FailureDecision, Classes
  <1>4. CASE ~row.cancel_requested /\ type # "unknown" /\ daemon[row.owner] # "revoked"
    <2>1. Exhausted(row) => row.attempts = MaxAttempts
      BY ClarificationAssumption DEF Exhausted, Row
    <2>2. CASE Exhausted(row)
      BY <1>4, <2>1, <2>2 DEF FailureDecision, Classes
    <2>3. CASE ~Exhausted(row)
      BY <1>4, <2>3 DEF FailureDecision, Classes
    <2> QED
      BY <2>2, <2>3
  <1> QED
    BY <1>1, <1>2, <1>3, <1>4

LEMMA ProjectEventStep == ASSUME IInv, NEW m \in Messages, ProjectEvent(m) PROVE IInv'
  <1>1. /\ run[m] \in Row /\ attempt[m] \in Seq(Attempt) /\ commands[m] \in Seq(Command)
        /\ Len(attempt[m]) <= MaxAttempts /\ unknown[m] \in 0..Len(commands[m])
        /\ Good(run[m], attempt[m], commands[m], unknown[m], daemon)
        /\ Len(commands[m]) \in Nat
        /\ attempt \in [Messages -> Seq(Attempt)] /\ commands \in [Messages -> Seq(Command)]
    BY RunFacts DEF IInv, Types
  <1>2. Receive(m) /\ UNCHANGED <<commands, mapped, daemon, daemonVars>>
    BY DEF ProjectEvent
  <1>3. PICK row \in Row : row = run[m]
    BY <1>1
  <1>4. PICK type \in Event : type = Head(events[m])
    BY <1>2, ReceiveFacts
  <1>5. PICK unk : unk = unknown'[m]
    OBVIOUS
  <1>6. PICK new : new = ProjectedRow(row, type)
    OBVIOUS
  <1>7. /\ Rejection(row, type) = "none"
        /\ run' = [run EXCEPT ![m] = new]
        /\ attempt' = IF type = "started" THEN attempt
                      ELSE [attempt EXCEPT ![m][row.current] =
                               IF type = "completed" THEN "completed" ELSE "failed"]
    BY <1>3, <1>4, <1>6 DEF ProjectEvent
  <1>8. /\ Good(row, attempt[m], commands[m], unk, daemon)
        /\ type = "unknown" /\ Len(commands[m]) # 0 => unk # 0
        /\ unknown' \in [Messages -> Nat] /\ unk <= Len(commands[m])
        /\ \A b \in Messages \ {m} : unknown'[b] = unknown[b]
        /\ events' \in [Messages -> Seq(Event)]
        /\ validated' \subseteq {b \in Messages : events'[b] # << >>}
    BY <1>1, <1>2, <1>3, <1>4, <1>5, ReceiveFacts, UnknownGood
  <1>9. /\ row.state \in {"Idle", "Running"} /\ row.owner # NoDaemon
        /\ row.current \in 1..Len(attempt[m]) /\ row.current # 0
        /\ Len(commands[m]) # 0
    BY <1>1, <1>7, <1>8, AcceptedRow
  <1>10. /\ commands' = [commands EXCEPT ![m] = commands[m]]
         /\ mapped' \in [Messages -> SUBSET Messages]
         /\ UNCHANGED <<daemon, delivered, done, context>>
         /\ Len(commands[m]) <= Len(commands[m])
         /\ run[m].state \in Open
    BY <1>1, <1>2, <1>3, <1>9 DEF IInv, Types, TypeOK, daemonVars, Open
  <1>11. CASE type = "started"
    <2>1. /\ new \in Row /\ new.state = "Running"
          /\ new.attempts = row.attempts /\ new.current = row.current /\ new.owner = row.owner
          /\ new.cancel_requested = row.cancel_requested
      <3>1. new = [row EXCEPT !.state = "Running", !.runtime = TRUE, !.class = "none"]
        BY <1>6, <1>11 DEF ProjectedRow
      <3> QED
        BY <3>1 DEF Row, Open, Classes
    <2>2. Ledger(new, attempt[m], commands[m])
      BY <1>8, <1>9, <2>1 DEF Good, Ledger
    <2>3. Good(new, attempt[m], commands[m], unk, daemon)
      BY <1>8, <1>9, <2>1, <2>2 DEF Good, Coherent, Orderly, Truthful
    <2>4. attempt' = [attempt EXCEPT ![m] = attempt[m]]
      BY <1>1, <1>7, <1>11
    <2> QED
      BY <1>1, <1>5, <1>7, <1>8, <1>10, <2>1, <2>3, <2>4, RunStep
  <1>12. ASSUME NEW outcome \in {"completed", "failed"}, type # "started",
                outcome = IF type = "completed" THEN "completed" ELSE "failed",
                new \in Row,
                new.attempts = row.attempts, new.owner = row.owner, new.current = 0,
                new.cancel_requested = row.cancel_requested,
                new.state \in {"Completed", "Failed", "Retrying"},
                Truthful(new, unk, daemon)
         PROVE  IInv'
    <2>1. PICK closed : closed = [attempt[m] EXCEPT ![row.current] = outcome]
      OBVIOUS
    <2>2. attempt' = [attempt EXCEPT ![m] = closed]
      BY <1>7, <1>12, <2>1
    <2>3. /\ closed \in Seq(Attempt) /\ Len(closed) = Len(attempt[m])
          /\ Good(new, closed, commands[m], unk, daemon)
      <3>1. /\ attempt[m] \in Seq(Attempt) /\ commands[m] \in Seq(Command)
            /\ Good(row, attempt[m], commands[m], unk, daemon)
            /\ Rejection(row, type) = "none"
        BY <1>1, <1>7, <1>8
      <3>2. /\ closed \in Seq(Attempt) /\ Len(closed) = Len(attempt[m])
            /\ closed[row.current] # "open"
            /\ \A n \in 1..Len(attempt[m]) : n # row.current => closed[n] = attempt[m][n]
        <4>1. outcome \in Attempt /\ outcome # "open"
          BY DEF Attempt
        <4> QED
          BY <1>9, <2>1, <3>1, <4>1
      <3>3. /\ new.attempts = row.attempts /\ new.owner = row.owner /\ new.current = 0
            /\ new.cancel_requested = row.cancel_requested
            /\ new.state \in {"Completed", "Failed", "Retrying"}
            /\ Truthful(new, unk, daemon)
        BY <1>12
      <3> QED
        BY <3>1, <3>2, <3>3, CloseGood
    <2> QED
      BY <1>1, <1>5, <1>7, <1>8, <1>10, <1>12, <2>2, <2>3, RunStep
  <1>13. CASE type = "completed"
    <2>1. new = [row EXCEPT !.state = "Completed", !.current = 0, !.class = "none"]
      BY <1>6, <1>13 DEF ProjectedRow
    <2>2. 0 \in 0..MaxAttempts
      BY ClarificationAssumption
    <2>3. /\ new \in Row /\ new.state = "Completed"
          /\ new.attempts = row.attempts /\ new.owner = row.owner /\ new.current = 0
          /\ new.cancel_requested = row.cancel_requested
      BY <2>1, <2>2 DEF Row, Terminal, Classes
    <2>4. Truthful(new, unk, daemon)
      BY <2>3 DEF Truthful
    <2> QED
      BY <1>12, <1>13, <2>3, <2>4
  <1>14. CASE type \in {"failed", "unknown"}
    <2>1. PICK st, cl : st = FailureDecision(row, type)[1] /\ cl = FailureDecision(row, type)[2]
      OBVIOUS
    <2>2. new = [row EXCEPT !.state = st, !.runtime = FALSE, !.current = 0, !.class = cl]
      BY <1>6, <1>14, <2>1 DEF ProjectedRow, FailedRow
    <2>3. /\ st \in {"Failed", "Retrying"} /\ cl \in Classes
          /\ st = "Failed" =>
                /\ cl = "cancelled" <=> row.cancel_requested
                /\ cl = "retry_exhausted" => row.attempts = MaxAttempts
                /\ cl = "owner_unavailable" => daemon[row.owner] = "revoked"
                /\ cl = "execution_outcome_unknown" => type = "unknown"
                /\ cl \notin {"none", "runtime_failure"}
      BY <1>14, <2>1, DecisionFacts
    <2>4. /\ new \in Row /\ new.state = st /\ new.class = cl
          /\ new.attempts = row.attempts /\ new.owner = row.owner /\ new.current = 0
          /\ new.cancel_requested = row.cancel_requested
      <3> DEFINE half == [row EXCEPT !.state = st, !.runtime = FALSE]
      <3>1. /\ half \in Row /\ half.state = st
            /\ half.attempts = row.attempts /\ half.owner = row.owner
            /\ half.cancel_requested = row.cancel_requested
        BY <2>3 DEF Row, Open, Terminal
      <3>2. new = [half EXCEPT !.current = 0, !.class = cl]
        BY <2>2 DEF Row
      <3>3. 0 \in 0..MaxAttempts
        BY ClarificationAssumption
      <3> HIDE DEF half
      <3> QED
        BY <2>3, <3>1, <3>2, <3>3 DEF Row
    <2>5. Truthful(new, unk, daemon)
      BY <1>8, <1>9, <2>3, <2>4 DEF Truthful
    <2> QED
      BY <1>12, <1>14, <2>3, <2>4, <2>5
  <1> QED
    BY <1>11, <1>13, <1>14 DEF Event

-----------------------------------------------------------------------------
(* Registrations and the daemon.                                           *)

\* A step that leaves the tables of the runs alone; a revocation is for good.
LEMMA OtherStep ==
    ASSUME IInv, UNCHANGED serverVars,
           daemon' \in [Daemons -> {"offline", "connected", "revoked"}],
           \A d \in Daemons : daemon[d] = "revoked" => daemon'[d] = "revoked",
           delivered' \in [Messages -> SUBSET Nat],
           \A m \in Messages : delivered'[m] \subseteq 1..Len(commands[m]),
           done' \in [Messages -> Nat],
           \A m \in Messages : done'[m] <= Len(commands[m]),
           context' \in [Messages -> Contexts],
           events' \in [Messages -> Seq(Event)],
           validated' \subseteq {m \in Messages : events'[m] # << >>}
    PROVE  IInv'
  <1>0. UNCHANGED <<run, attempt, commands, mapped, unknown>>
    BY DEF serverVars
  <1>1. Types'
    <2>1. \A m \in Messages : done'[m] \in 0..Len(commands[m])
      BY DEF IInv, Types
    <2> QED
      BY <1>0, <2>1 DEF IInv, Types, TypeOK
  <1>2. OneOpen'
    BY <1>0 DEF IInv, OneOpen
  <1>3. ASSUME NEW m \in Messages
        PROVE  Good(run[m], attempt[m], commands[m], unknown[m], daemon)'
    <2>1. Good(run[m], attempt[m], commands[m], unknown[m], daemon) /\ run[m] \in Row
      BY DEF IInv, Types, TypeOK
    <2>2. Truthful(run[m], unknown[m], daemon')
      BY <2>1 DEF Good, Truthful, Row
    <2>3. Good(run[m], attempt[m], commands[m], unknown[m], daemon')
      BY <2>1, <2>2 DEF Good
    <2> QED
      BY <1>0, <2>3 DEF Good, Coherent, Ledger, Orderly, Truthful
  <1> QED
    BY <1>1, <1>2, <1>3 DEF IInv

LEMMA ValidateEventStep == ASSUME IInv, NEW m \in Messages, ValidateEvent(m) PROVE IInv'
  <1>1. UNCHANGED serverVars /\ UNCHANGED <<daemon, delivered, done, context, events>>
    BY DEF ValidateEvent, daemonVars
  <1>2. /\ \A b \in Messages : done[b] <= Len(commands[b]) /\ delivered[b] \subseteq 1..Len(commands[b])
        /\ validated' \subseteq {b \in Messages : events[b] # << >>}
    BY DEF ValidateEvent, IInv, Types, TypeOK
  <1> QED
    BY <1>1, <1>2, OtherStep DEF IInv, Types, TypeOK

LEMMA RegistrationStep ==
    ASSUME IInv, NEW d \in Daemons, ConnectDaemon(d) \/ DisconnectDaemon(d) \/ RevokeDaemon(d)
    PROVE  IInv'
  <1>1. UNCHANGED serverVars /\ UNCHANGED <<delivered, done, context, events, validated>>
    BY DEF ConnectDaemon, DisconnectDaemon, RevokeDaemon, daemonVars
  <1>2. \A b \in Messages : done[b] <= Len(commands[b]) /\ delivered[b] \subseteq 1..Len(commands[b])
    BY DEF IInv, Types, TypeOK
  <1>3. /\ daemon' \in [Daemons -> {"offline", "connected", "revoked"}]
        /\ \A e \in Daemons : daemon[e] = "revoked" => daemon'[e] = "revoked"
    BY DEF ConnectDaemon, DisconnectDaemon, RevokeDaemon, IInv, Types, TypeOK
  <1> QED
    BY <1>1, <1>2, <1>3, OtherStep DEF IInv, Types, TypeOK

\* What a command reports, and the context it leaves.
LEMMA ResultFacts ==
    ASSUME NEW kind \in Command, NEW ctx \in Contexts, NEW result \in Results(kind, ctx)
    PROVE  result.types \in Seq(Event) /\ result.context \in Contexts
  <1>1. /\ << >> \in Seq(Event) /\ <<"failed">> \in Seq(Event) /\ <<"started">> \in Seq(Event)
        /\ <<"completed">> \in Seq(Event) /\ <<"started", "completed">> \in Seq(Event)
    BY DEF Event
  <1>2. \A c \in {ctx, "none", "in_flight", "retained"} : c \in Contexts
    BY DEF Contexts
  <1>3. ASSUME NEW types \in Seq(Event), NEW c \in Contexts, result = Result(types, c)
        PROVE  result.types \in Seq(Event) /\ result.context \in Contexts
    BY <1>3 DEF Result
  <1>4. ASSUME result \in StartResults(ctx)
        PROVE  result.types \in Seq(Event) /\ result.context \in Contexts
    <2>1. \/ \E c \in {ctx, "in_flight", "retained"} : result = Result(<<"failed">>, c)
          \/ result = Result(<<"started">>, "retained")
          \/ result = Result(<<"started", "completed">>, "none")
      BY <1>4, Zenon DEF StartResults
    <2>2. ASSUME NEW c \in {ctx, "in_flight", "retained"}, result = Result(<<"failed">>, c)
          PROVE  result.types \in Seq(Event) /\ result.context \in Contexts
      BY <1>1, <1>2, <1>3, <2>2
    <2> QED
      BY <1>1, <1>2, <1>3, <2>1, <2>2
  <1>5. CASE kind = "start"
    BY <1>4, <1>5 DEF Results
  <1>6. CASE kind = "resume"
    <2>1. result \in StartResults(ctx) \/ result = Result(<<"failed">>, ctx)
      BY <1>6 DEF Results, ResumeResults
    <2> QED
      BY <1>1, <1>3, <1>4, <2>1
  <1>7. CASE kind = "message"
    <2>1. result \in MessageResults(ctx)
      BY <1>7 DEF Results
    <2>2. \/ result = Result(<<"failed">>, "retained") \/ result = Result(<< >>, "retained")
          \/ result = Result(<<"completed">>, "none") \/ result = Result(<<"failed">>, ctx)
      BY <2>1, Zenon DEF MessageResults
    <2> QED
      BY <1>1, <1>2, <1>3, <2>2
  <1>8. CASE kind = "cancel"
    <2>1. result \in CancelResults(ctx)
      BY <1>8 DEF Results
    <2>2. result = Result(<<"completed">>, "none") \/ result = Result(<<"failed">>, ctx)
      BY <2>1, Zenon DEF CancelResults
    <2> QED
      BY <1>1, <1>2, <1>3, <2>2
  <1> QED
    BY <1>5, <1>6, <1>7, <1>8 DEF Command

LEMMA FinishStep ==
    ASSUME IInv, NEW m \in Messages, NEW through \in Nat, through <= Len(commands[m]),
           NEW result, result.types \in Seq(Event), result.context \in Contexts,
           Finish(m, through, result)
    PROVE  IInv'
  <1>1. /\ events \in [Messages -> Seq(Event)] /\ done \in [Messages -> Nat]
        /\ context \in [Messages -> Contexts]
        /\ validated \subseteq {b \in Messages : events[b] # << >>}
        /\ \A b \in Messages : done[b] <= Len(commands[b]) /\ delivered[b] \subseteq 1..Len(commands[b])
    BY DEF IInv, Types, TypeOK
  <1>2. PICK types \in Seq(Event) : types = result.types
    OBVIOUS
  <1>3. PICK c \in Contexts : c = result.context
    OBVIOUS
  <1>4. /\ done' = [done EXCEPT ![m] = through]
        /\ context' = [context EXCEPT ![m] = c]
        /\ events' = [events EXCEPT ![m] = events[m] \o types]
        /\ UNCHANGED serverVars /\ UNCHANGED <<daemon, delivered, validated>>
    BY <1>2, <1>3 DEF Finish
  <1>5. /\ done' \in [Messages -> Nat] /\ \A b \in Messages : done'[b] <= Len(commands[b])
        /\ context' \in [Messages -> Contexts]
    BY <1>1, <1>4
  <1>6. /\ events[m] \o types \in Seq(Event)
        /\ events[m] # << >> => events[m] \o types # << >>
    <2>1. events[m] \in Seq(Event)
      BY <1>1
    <2>2. events[m] \o types \in Seq(Event)
      BY <2>1
    <2>3. Len(events[m] \o types) = Len(events[m]) + Len(types)
          /\ Len(events[m]) \in Nat /\ Len(types) \in Nat
      BY <2>1
    <2>4. events[m] # << >> => Len(events[m]) # 0
      BY <2>1, EmptySeq
    <2>5. events[m] \o types = << >> => Len(events[m] \o types) = 0
      OBVIOUS
    <2> QED
      BY <2>2, <2>3, <2>4, <2>5
  <1>7. /\ events' \in [Messages -> Seq(Event)]
        /\ validated' \subseteq {b \in Messages : events'[b] # << >>}
    BY <1>1, <1>4, <1>6
  <1> QED
    BY <1>1, <1>4, <1>5, <1>7, OtherStep DEF IInv, Types, TypeOK

LEMMA DeliverCommandStep ==
    ASSUME IInv, NEW m \in Messages, NEW i \in 1..Len(commands[m]), DeliverCommand(m, i)
    PROVE  IInv'
  <1>1. /\ delivered \in [Messages -> SUBSET Nat] /\ Len(commands[m]) \in Nat
        /\ \A b \in Messages : done[b] <= Len(commands[b]) /\ delivered[b] \subseteq 1..Len(commands[b])
    BY DEF IInv, Types, TypeOK
  <1>2. /\ delivered' = [delivered EXCEPT ![m] = delivered[m] \cup {i}]
        /\ UNCHANGED serverVars /\ UNCHANGED <<daemon, done, context, events, validated>>
    BY DEF DeliverCommand
  <1>3. delivered[m] \cup {i} \in SUBSET Nat /\ delivered[m] \cup {i} \subseteq 1..Len(commands[m])
    BY <1>1
  <1>4. /\ delivered' \in [Messages -> SUBSET Nat]
        /\ \A b \in Messages : delivered'[b] \subseteq 1..Len(commands[b])
    BY <1>1, <1>2, <1>3
  <1> QED
    BY <1>1, <1>2, <1>4, OtherStep DEF IInv, Types, TypeOK

\* The commands of a run, and how many of them are finished.
LEMMA CommandFacts ==
    ASSUME IInv, NEW m \in Messages, done[m] < Len(commands[m])
    PROVE  /\ done[m] + 1 \in Nat /\ done[m] + 1 <= Len(commands[m])
           /\ commands[m][done[m] + 1] \in Command /\ context[m] \in Contexts
  <1>1. /\ done[m] \in Nat /\ commands[m] \in Seq(Command) /\ Len(commands[m]) \in Nat
        /\ context[m] \in Contexts
    BY DEF IInv, Types, TypeOK
  <1>2. done[m] + 1 \in 1..Len(commands[m])
    BY <1>1
  <1> QED
    BY <1>1, <1>2

LEMMA FinishCommandStep == ASSUME IInv, NEW m \in Messages, FinishCommand(m) PROVE IInv'
  <1>1. /\ done[m] + 1 \in Nat /\ done[m] + 1 <= Len(commands[m])
        /\ commands[m][done[m] + 1] \in Command /\ context[m] \in Contexts
    BY CommandFacts DEF FinishCommand
  <1>2. PICK result \in Results(commands[m][done[m] + 1], context[m]) :
           Finish(m, done[m] + 1, result)
    BY DEF FinishCommand
  <1>3. PICK through \in Nat : through = done[m] + 1
    BY <1>1
  <1>4. result.types \in Seq(Event) /\ result.context \in Contexts
    BY <1>1, <1>2, ResultFacts
  <1>5. Finish(m, through, result) /\ through <= Len(commands[m])
    BY <1>1, <1>2, <1>3
  <1> QED
    BY <1>4, <1>5, FinishStep

LEMMA CrashDuringCommandStep ==
    ASSUME IInv, NEW m \in Messages, CrashDuringCommand(m)
    PROVE  IInv'
  <1>1. done[m] + 1 \in Nat /\ done[m] + 1 <= Len(commands[m])
    BY CommandFacts DEF CrashDuringCommand
  <1>2. PICK c \in {"none", "retained"} : Finish(m, done[m] + 1, Result(<<"unknown">>, c))
    BY DEF CrashDuringCommand
  <1>3. PICK through \in Nat : through = done[m] + 1
    BY <1>1
  <1>4. PICK result : result = Result(<<"unknown">>, c)
    OBVIOUS
  <1>5. result.types \in Seq(Event) /\ result.context \in Contexts
    <2>1. <<"unknown">> \in Seq(Event)
      BY DEF Event
    <2> QED
      BY <1>4, <2>1 DEF Result, Contexts
  <1>6. Finish(m, through, result) /\ through <= Len(commands[m])
    BY <1>1, <1>2, <1>3, <1>4
  <1> QED
    BY <1>5, <1>6, FinishStep

LEMMA InterruptCommandStep ==
    ASSUME IInv, NEW m \in Messages, InterruptCommand(m)
    PROVE  IInv'
  <1> DEFINE kind == commands[m][done[m] + 1]
             natural == {result.types : result \in Results(kind, context[m])}
             cut == {<<"completed">>}
                      \cup (IF kind = "message" THEN {<<"completed", "completed">>} ELSE {})
  <1>0. done[m] \in Nat /\ Len(commands[m]) \in Nat /\ done[m] + 1 < Len(commands[m])
    BY DEF InterruptCommand, IInv, Types, TypeOK
  <1>1. kind \in Command /\ context[m] \in Contexts
    BY <1>0, CommandFacts
  <1>2. PICK types \in natural \cup cut : Finish(m, Len(commands[m]), Result(types, "none"))
    BY DEF InterruptCommand
  <1>3. types \in Seq(Event)
    <2>1. <<"completed">> \in Seq(Event) /\ <<"completed", "completed">> \in Seq(Event)
      BY DEF Event
    <2>2. CASE types \in natural
      BY <1>1, <2>2, ResultFacts
    <2>3. CASE types \in cut
      BY <2>1, <2>3
    <2> QED
      BY <1>2, <2>2, <2>3
  <1>4. PICK through \in Nat : through = Len(commands[m])
    BY <1>0
  <1>5. PICK result : result = Result(types, "none")
    OBVIOUS
  <1>6. result.types \in Seq(Event) /\ result.context \in Contexts
    BY <1>3, <1>5 DEF Result, Contexts
  <1>7. Finish(m, through, result) /\ through <= Len(commands[m])
    BY <1>0, <1>2, <1>4, <1>5
  <1> QED
    BY <1>6, <1>7, FinishStep

-----------------------------------------------------------------------------
(* The invariant, and what it implies.                                     *)

LEMMA InvInit == Init => IInv
  <1> SUFFICES ASSUME Init PROVE IInv
    OBVIOUS
  <1>0. MaxAttempts \in Nat /\ 0 \in 0..MaxAttempts
    BY ClarificationAssumption
  <1>1. /\ AbsentRow \in Row /\ AbsentRow.state = "Absent" /\ AbsentRow.owner = NoDaemon
        /\ AbsentRow.attempts = 0 /\ AbsentRow.current = 0 /\ ~AbsentRow.cancel_requested
    BY <1>0 DEF AbsentRow, Row, Classes
  <1>2. Types
    <2>1. /\ run \in [Messages -> Row] /\ attempt \in [Messages -> Seq(Attempt)]
          /\ commands \in [Messages -> Seq(Command)] /\ events \in [Messages -> Seq(Event)]
          /\ delivered \in [Messages -> SUBSET Nat]
          /\ done \in [Messages -> Nat] /\ unknown \in [Messages -> Nat]
          /\ mapped \in [Messages -> SUBSET Messages] /\ context \in [Messages -> Contexts]
          /\ daemon \in [Daemons -> {"offline", "connected", "revoked"}]
      BY <1>1 DEF Init, Contexts
    <2>2. \A m \in Messages : /\ Len(attempt[m]) = 0 /\ Len(commands[m]) = 0
                              /\ delivered[m] = {} /\ done[m] = 0 /\ unknown[m] = 0
      BY DEF Init
    <2>3. ASSUME NEW m \in Messages
          PROVE  /\ Len(attempt[m]) \in 0..MaxAttempts
                 /\ delivered[m] \subseteq 1..Len(commands[m])
                 /\ done[m] \in 0..Len(commands[m]) /\ unknown[m] \in 0..Len(commands[m])
      BY <1>0, <2>2
    <2> QED
      BY <2>1, <2>3 DEF Init, Types, TypeOK
  <1>3. OneOpen
    BY <1>1 DEF Init, OneOpen, Open
  <1>4. ASSUME NEW m \in Messages
        PROVE  Good(run[m], attempt[m], commands[m], unknown[m], daemon)
    <2>1. run[m] = AbsentRow /\ Len(attempt[m]) = 0 /\ Len(commands[m]) = 0
      BY DEF Init
    <2>2. Count(commands[m], Executions) = 0
      BY <2>1, CountEmpty
    <2>3. Ledger(run[m], attempt[m], commands[m])
      BY <1>1, <2>1, <2>2 DEF Ledger
    <2> QED
      BY <1>1, <2>1, <2>3 DEF Good, Coherent, Orderly, Truthful
  <1> QED
    BY <1>2, <1>3, <1>4 DEF IInv

LEMMA InvStep == IInv /\ [Next]_vars => IInv'
  <1> SUFFICES ASSUME IInv, [Next]_vars PROVE IInv'
    OBVIOUS
  <1>1. CASE UNCHANGED vars
    <2>1. UNCHANGED serverVars /\ UNCHANGED <<daemon, delivered, done, context, events, validated>>
      BY <1>1 DEF vars, daemonVars
    <2>2. \A b \in Messages : done[b] <= Len(commands[b]) /\ delivered[b] \subseteq 1..Len(commands[b])
      BY DEF IInv, Types, TypeOK
    <2> QED
      BY <2>1, <2>2, OtherStep DEF IInv, Types, TypeOK
  <1>2. CASE Next
    BY <1>2, StartNewRunStep, StartAgainStep, DispatchMessageStep, CancelClarificationStep,
       ValidateEventStep, ProjectEventStep, RejectEventStep, ClaimDueRetryStep,
       DeliverCommandStep, FinishCommandStep, InterruptCommandStep, CrashDuringCommandStep, RegistrationStep
    DEF Next
  <1> QED
    BY <1>1, <1>2

LEMMA Invariance == Spec => []IInv
  BY InvInit, InvStep, PTL DEF Spec

\* Type correctness: in particular the budget max_attempts holds for every run,
\* and what the daemon has received or finished was issued.
THEOREM TypeCorrect == Spec => []TypeOK
  <1>1. IInv => TypeOK
    BY DEF IInv, Types
  <1> QED
    BY <1>1, Invariance, PTL

\* start_clarification: however starts, retries, cancellations and late events
\* interleave, a requirement has at most one run that is not over.
THEOREM SlotIsExclusive == Spec => []OneRunAtATime
  <1>1. IInv => OneRunAtATime
    <2> SUFFICES ASSUME IInv PROVE OneRunAtATime
      OBVIOUS
    <2> DEFINE open == {m \in Messages : run[m].state \in Open}
    <2>1. CASE open = {}
      BY <2>1, FS_EmptySet DEF OneRunAtATime
    <2>2. CASE open # {}
      <3>1. PICK m : open = {m}
        BY <2>2 DEF IInv, OneOpen
      <3>2. Cardinality(open) = 1
        BY <3>1, FS_Singleton
      <3> QED
        BY <3>2 DEF OneRunAtATime
    <2> QED
      BY <2>1, <2>2
  <1> QED
    BY <1>1, Invariance, PTL

\* BeginAttempt, project_clarification_event: the counter of a run, its attempt
\* rows and its start and resume commands never disagree, and the only open
\* attempt is the current one.
THEOREM LedgerAgrees == Spec => []AttemptLedger
  <1>1. IInv => AttemptLedger
    BY DEF IInv, AttemptLedger, Good, Ledger
  <1> QED
    BY <1>1, Invariance, PTL

\* cancel_clarification: no start and no resume is ever issued after a cancel.
THEOREM CancelStopsExecution == Spec => []NoExecutionAfterCancel
  <1>1. IInv => NoExecutionAfterCancel
    BY DEF IInv, NoExecutionAfterCancel, Good, Orderly
  <1> QED
    BY <1>1, Invariance, PTL

\* into_run, project_clarification_event, claim_due_retries: every stored run can
\* be shown, and the failure class of a run that failed is true of its history.
THEOREM StoredRunsAreTrue == Spec => []StoredRunIsTrue
  <1>1. IInv => RunsAreReadable
    BY DEF IInv, Types, TypeOK, RunsAreReadable, Good, Coherent, Phase, Row, Open, Terminal
  <1>2. IInv => FailureClassIsTrue
    BY DEF IInv, FailureClassIsTrue, Good, Truthful
  <1> QED
    BY <1>1, <1>2, Invariance, PTL DEF StoredRunIsTrue

\* What a step never does to a run that is over.
RunIsOver(m) ==
    run[m].state \in Terminal =>
        run'[m] = run[m] /\ commands'[m] = commands[m] /\ attempt'[m] = attempt[m]

\* project_clarification_event, claim_due_retries: a run that is over stays as it
\* is, whatever arrives late or falls due.
THEOREM OverIsOver == Spec => TerminalIsFinal
  <1>1. ASSUME IInv, [Next]_vars PROVE \A b \in Messages : RunIsOver(b)
    <2>0. /\ run \in [Messages -> Row] /\ attempt \in [Messages -> Seq(Attempt)]
          /\ commands \in [Messages -> Seq(Command)]
      BY <1>1 DEF IInv, Types, TypeOK
    <2>1. CASE UNCHANGED <<run, attempt, commands>>
      BY <2>1 DEF RunIsOver
    <2>2. ASSUME NEW m \in Messages, NEW row, Assign(m, row), run[m].state \notin Terminal
          PROVE  \A b \in Messages : RunIsOver(b)
      <3>1. CASE ChooseEligibleDaemon = NoDaemon
        BY <2>0, <2>2, <3>1 DEF Assign, RunIsOver
      <3>2. CASE ChooseEligibleDaemon # NoDaemon
        BY <2>0, <2>2, <3>2 DEF Assign, BeginAttempt, Issue, RunIsOver
      <3> QED
        BY <3>1, <3>2
    <2>3. ASSUME NEW m \in Messages, StartNewRun(m) \/ StartAgain(m)
          PROVE  \A b \in Messages : RunIsOver(b)
      BY <2>2, <2>3 DEF StartNewRun, StartAgain, Open, Terminal
    <2>4. ASSUME NEW m \in Messages, NEW message \in Messages, DispatchMessage(m, message)
          PROVE  \A b \in Messages : RunIsOver(b)
      <3>1. run[m].state \notin Terminal
        BY <2>4 DEF DispatchMessage, Phase, Open, Terminal
      <3> QED
        BY <2>0, <2>4, <3>1 DEF DispatchMessage, Issue, RunIsOver
    <2>5. ASSUME NEW m \in Messages, CancelClarification(m)
          PROVE  \A b \in Messages : RunIsOver(b)
      <3>1. run[m].state \notin Terminal
        BY <2>5 DEF CancelClarification, Phase, Open, Terminal
      <3> QED
        BY <2>0, <2>5, <3>1 DEF CancelClarification, Issue, RunIsOver
    <2>6. ASSUME NEW m \in Messages, ProjectEvent(m)
          PROVE  \A b \in Messages : RunIsOver(b)
      <3>1. run[m].state \notin Terminal
        BY <2>6 DEF ProjectEvent, Rejection
      <3>2. \A b \in Messages \ {m} :
               run'[b] = run[b] /\ attempt'[b] = attempt[b] /\ commands'[b] = commands[b]
        BY <2>0, <2>6 DEF ProjectEvent
      <3> QED
        BY <3>1, <3>2 DEF RunIsOver
    <2>7. ASSUME NEW m \in Messages, ClaimDueRetry(m)
          PROVE  \A b \in Messages : RunIsOver(b)
      <3>1. run[m].state \notin Terminal
        BY <2>7 DEF ClaimDueRetry, Due, Terminal
      <3>2. \A b \in Messages \ {m} :
               run'[b] = run[b] /\ attempt'[b] = attempt[b] /\ commands'[b] = commands[b]
        BY <2>0, <2>7 DEF ClaimDueRetry, BeginAttempt, Issue
      <3> QED
        BY <3>1, <3>2 DEF RunIsOver
    <2>8. ASSUME NEW m \in Messages,
                 \/ ValidateEvent(m) \/ RejectEvent(m)
                 \/ \E i \in 1..Len(commands[m]) : DeliverCommand(m, i)
                 \/ FinishCommand(m) \/ InterruptCommand(m) \/ CrashDuringCommand(m)
          PROVE  UNCHANGED <<run, attempt, commands>>
      BY <2>8 DEF ValidateEvent, RejectEvent, DeliverCommand, FinishCommand, InterruptCommand, CrashDuringCommand,
                  Finish, serverVars
    <2>9. ASSUME NEW d \in Daemons, ConnectDaemon(d) \/ DisconnectDaemon(d) \/ RevokeDaemon(d)
          PROVE  UNCHANGED <<run, attempt, commands>>
      BY <2>9 DEF ConnectDaemon, DisconnectDaemon, RevokeDaemon, serverVars
    <2>10. CASE UNCHANGED vars
      BY <2>1, <2>10 DEF vars, serverVars
    <2>11. CASE Next
      BY <2>1, <2>3, <2>4, <2>5, <2>6, <2>7, <2>8, <2>9, <2>11 DEF Next
    <2> QED
      BY <1>1, <2>10, <2>11
  <1>2. IInv /\ [Next]_vars =>
          [\A m \in Messages : run[m].state \in Terminal =>
              run'[m] = run[m] /\ commands'[m] = commands[m] /\ attempt'[m] = attempt[m]]_vars
    BY <1>1 DEF RunIsOver
  <1> QED
    BY <1>2, Invariance, PTL DEF Spec, TerminalIsFinal
=============================================================================
