-------------------------- MODULE Inspection_proofs --------------------------
(***************************************************************************)
(* What TLAPS proves of the repository inspections, for any number of      *)
(* tasks, repositories and directory names and any bounds.                 *)
(***************************************************************************)
EXTENDS Inspection, FiniteSetTheorems, TLAPS

\* Phases inside the gate, with the repository's mutex, and with a directory.
EnteredPhases == Phases \ {"idle", "gate", "done"}
HoldingPhases == LockedPhases \cup {"abort"}
OwningPhases == {"clone", "install", "unstage", "mark", "detach", "read", "finish", "abort"}
ResolvedPhases == {"checkout", "mark", "detach", "read", "finish"}

\* While a task is inside the gate no cleanup runs.
KeepsCleanupOut(t) ==
    task[t].phase \in EnteredPhases => ~gate.cleaning

\* The mutex of the repository is the task's from LockRepository to DetachCheckout.
HoldsItsLock(t) == task[t].phase \in HoldingPhases => lock[task[t].repo] = t

\* The directory of a task, between its creation and its removal.
OwnsItsDirectory(t) ==
    /\ task[t].dir # 0 <=> task[t].phase \in OwningPhases
    /\ task[t].dir # 0 =>
          /\ disk[task[t].dir].owner = t
          /\ disk[task[t].dir].kind = IF task[t].sha = 0 THEN "staging" ELSE "checkout"
    /\ task[t].phase \in {"detach", "read", "finish"} => disk[task[t].dir].marked
    /\ task[t].phase = "install" => disk[task[t].dir].whole

\* Commits that were the head of the task's remote since it began.
Recent(t) == task[t].began..remote[task[t].repo]

\* Where the commit of the task comes from, phase by phase.
CommitIsRecent(t) ==
    /\ task[t].phase # "idle" => task[t].began \in 1..remote[task[t].repo]
    /\ task[t].phase = "install" => disk[task[t].dir].head \in Recent(t)
    /\ task[t].phase \in {"unstage", "sanitize", "resolve"} =>
          cache[task[t].repo].head \in Recent(t)
    /\ task[t].phase \in {"update", "unstage", "sanitize", "resolve"} => cache[task[t].repo].present
    /\ task[t].phase \in ResolvedPhases => task[t].sha \in Recent(t)
    /\ task[t].phase \in {"idle", "gate", "lock", "cache", "update", "clone", "install", "unstage",
                          "sanitize", "resolve"} => task[t].sha = 0

\* What was read, as long as nobody touched the checkout.
EvidenceIsTrue(t) ==
    /\ task[t].ok => task[t].phase \in {"finish", "done"}
    /\ task[t].phase \in {"read", "finish"} => disk[task[t].dir].head \in {task[t].sha, 0}
    /\ task[t].phase = "finish" /\ task[t].ok /\ Undisturbed(t) => task[t].read = task[t].sha
    /\ task[t].phase = "done" /\ task[t].ok =>
          task[t].read = task[t].sha /\ task[t].sha \in Recent(t)

MirrorIsClean(t) ==
    task[t].phase \in {"update", "resolve", "checkout"} => cache[task[t].repo].sanitized

Sound(t) ==
    /\ KeepsCleanupOut(t)
    /\ HoldsItsLock(t)
    /\ OwnsItsDirectory(t)
    /\ CommitIsRecent(t)
    /\ EvidenceIsTrue(t)
    /\ MirrorIsClean(t)

MirrorsAreWhole ==
    \A r \in Repos : cache[r].present => cache[r].whole /\ cache[r].head # 0

\* TypeOK without the count, which has an argument of its own at the end.
Typed ==
    /\ remote \in [Repos -> 1..MaxCommits]
    /\ cache \in [Repos -> [present : BOOLEAN, whole : BOOLEAN, head : Commits, sanitized : BOOLEAN]]
    /\ disk \in [Names -> [kind : Kinds, owner : Tasks \cup {NoTask}, whole : BOOLEAN, head : Commits,
                           marked : BOOLEAN, intact : BOOLEAN, reported : BOOLEAN]]
    /\ task \in [Tasks -> [phase : Phases, repo : Repos, began : Commits, sha : Commits,
                           read : Commits, dir : 0..MaxNames, cancelled : BOOLEAN, ok : BOOLEAN]]
    /\ lock \in [Repos -> Tasks \cup {NoTask}]
    /\ gate \in [active : Nat, cleaning : BOOLEAN, todo : SUBSET Names, runs : 1..MaxCleanups]
    /\ seq \in 1..MaxNames + 1 /\ faults \in 0..MaxFaults /\ crashes \in 0..MaxCrashes

\* The inductive invariant, together with GateCounts.
IInv ==
    /\ Typed
    /\ MirrorsAreWhole
    /\ LeftoversAreReported
    /\ \A t \in Tasks : Sound(t)
-----------------------------------------------------------------------------
(* Types, and what the operators of the model do to the state.             *)

TaskType == [phase : Phases, repo : Repos, began : Commits, sha : Commits,
             read : Commits, dir : 0..MaxNames, cancelled : BOOLEAN, ok : BOOLEAN]
DirType == [kind : Kinds, owner : Tasks \cup {NoTask}, whole : BOOLEAN, head : Commits,
            marked : BOOLEAN, intact : BOOLEAN, reported : BOOLEAN]
CacheType == [present : BOOLEAN, whole : BOOLEAN, head : Commits, sanitized : BOOLEAN]
GateType == [active : Nat, cleaning : BOOLEAN, todo : SUBSET Names, runs : 1..MaxCleanups]

\* The bounds are numbers, and there is a repository.
LEMMA Bounds ==
    /\ MaxNames \in Nat /\ MaxFaults \in Nat /\ MaxCrashes \in Nat
    /\ MaxCommits \in Nat /\ MaxCommits >= 1
    /\ MaxCleanups \in Nat /\ MaxCleanups >= 1
    /\ NoTask \notin Tasks
    /\ \E r \in Repos : TRUE
  <1>1. MaxCommits \in Nat \ {0} /\ MaxCleanups \in Nat \ {0}
    BY InspectionAssumption, Zenon
  <1>2. MaxNames \in Nat /\ MaxFaults \in Nat /\ MaxCrashes \in Nat /\ \E r \in Repos : TRUE
    BY InspectionAssumption, Zenon
  <1>3. MaxCommits >= 1 /\ MaxCleanups >= 1
    BY <1>1
  <1>4. NoTask \notin Tasks
    BY InspectionAssumption DEF NoTask
  <1> QED
    BY <1>1, <1>2, <1>3, <1>4

\* The values that the program starts from have their types.
LEMMA Beginnings ==
    /\ Idle \in TaskType /\ NoDir \in DirType /\ NoCache \in CacheType
    /\ Idle.phase = "idle" /\ Idle.dir = 0 /\ Idle.sha = 0 /\ Idle.ok = FALSE
    /\ NoDir.kind = "none"
  <1>1. (CHOOSE r \in Repos : TRUE) \in Repos
    BY Bounds
  <1>2. 0 \in Commits /\ 0 \in 0..MaxNames
    BY Bounds DEF Commits
  <1>3. Idle \in TaskType
    BY <1>1, <1>2 DEF Idle, TaskType, Phases
  <1>4. NoDir \in DirType
    BY <1>2 DEF NoDir, DirType, Kinds
  <1>5. NoCache \in CacheType
    BY <1>2 DEF NoCache, CacheType
  <1>6. Idle.phase = "idle" /\ Idle.dir = 0 /\ Idle.sha = 0 /\ Idle.ok = FALSE
    BY DEF Idle
  <1> QED
    BY <1>3, <1>4, <1>5, <1>6 DEF NoDir

\* Goes changes the phase of its task and nothing else.
LEMMA GoesFacts ==
    ASSUME Typed, NEW t \in Tasks, NEW p \in Phases, Goes(t, p)
    PROVE  /\ task' \in [Tasks -> TaskType]
           /\ task'[t].phase = p
           /\ task'[t].repo = task[t].repo /\ task'[t].began = task[t].began
           /\ task'[t].sha = task[t].sha /\ task'[t].read = task[t].read
           /\ task'[t].dir = task[t].dir /\ task'[t].ok = task[t].ok
           /\ \A u \in Tasks \ {t} : task'[u] = task[u]
  BY DEF Typed, Goes, TaskType

\* Ended gives back the directory, the permit and the mutex of its task.
LEMMA EndedFacts ==
    ASSUME Typed, NEW t \in Tasks, NEW ok \in BOOLEAN, Ended(t, ok)
    PROVE  /\ task' \in [Tasks -> TaskType]
           /\ task'[t].phase = "done" /\ task'[t].dir = 0 /\ task'[t].ok = ok
           /\ task'[t].repo = task[t].repo /\ task'[t].began = task[t].began
           /\ task'[t].sha = task[t].sha /\ task'[t].read = task[t].read
           /\ \A u \in Tasks \ {t} : task'[u] = task[u]
           /\ gate' \in GateType
           /\ gate'.active = IF task[t].phase = "gate" THEN gate.active ELSE Less(gate.active)
           /\ gate'.cleaning = gate.cleaning /\ gate'.todo = gate.todo
           /\ lock' \in [Repos -> Tasks \cup {NoTask}]
           /\ \A r \in Repos : lock[r] # t => lock'[r] = lock[r]
  <1>1. /\ task' \in [Tasks -> TaskType]
        /\ task'[t].phase = "done" /\ task'[t].dir = 0 /\ task'[t].ok = ok
        /\ task'[t].repo = task[t].repo /\ task'[t].began = task[t].began
        /\ task'[t].sha = task[t].sha /\ task'[t].read = task[t].read
        /\ \A u \in Tasks \ {t} : task'[u] = task[u]
    <2>1. 0 \in 0..MaxNames /\ "done" \in Phases
      BY Bounds DEF Phases
    <2>2. task \in [Tasks -> TaskType]
      BY DEF Typed, TaskType
    <2>3. task' = [task EXCEPT ![t] = [task[t] EXCEPT !.phase = "done", !.ok = ok, !.dir = 0]]
      BY <2>2 DEF Ended
    <2> DEFINE ended == [task[t] EXCEPT !.phase = "done", !.ok = ok, !.dir = 0]
    <2>4. /\ ended \in TaskType
          /\ ended.phase = "done" /\ ended.dir = 0 /\ ended.ok = ok
          /\ ended.repo = task[t].repo /\ ended.began = task[t].began
          /\ ended.sha = task[t].sha /\ ended.read = task[t].read
      <3>1. task[t] \in TaskType
        BY <2>2
      <3> QED
        BY <2>1, <3>1 DEF TaskType
    <2> HIDE DEF ended
    <2>5. task' = [task EXCEPT ![t] = ended]
      BY <2>3 DEF ended
    <2> QED
      BY <2>2, <2>4, <2>5
  <1>2. /\ gate' \in GateType
        /\ gate'.active = IF task[t].phase = "gate" THEN gate.active ELSE Less(gate.active)
        /\ gate'.cleaning = gate.cleaning /\ gate'.todo = gate.todo
    <2>1. gate \in GateType /\ Less(gate.active) \in Nat
      BY DEF Typed, GateType, Less
    <2>2. \/ task[t].phase = "gate" /\ gate' = gate
          \/ task[t].phase # "gate" /\ gate' = [gate EXCEPT !.active = Less(gate.active)]
      BY <2>1 DEF Ended, Leave, In
    <2> QED
      BY <2>1, <2>2 DEF GateType
  <1>3. /\ lock' \in [Repos -> Tasks \cup {NoTask}]
        /\ \A r \in Repos : lock[r] # t => lock'[r] = lock[r]
    BY DEF Typed, Ended
  <1> QED
    BY <1>1, <1>2, <1>3
-----------------------------------------------------------------------------
(* A step of one task, and what the other tasks see of it.                 *)

\* What a step of task t leaves alone: the other tasks, the directories that
\* are not its own, the mutexes of others and the mirrors it has not locked.
OnlyBy(t) ==
    /\ \A u \in Tasks \ {t} : task'[u] = task[u]
    /\ \A n \in Names : Exists(n) /\ disk[n].owner # t => disk'[n] = disk[n]
    /\ \A r \in Repos : lock[r] \in Tasks \ {t} => lock'[r] = lock[r] /\ cache'[r] = cache[r]
    /\ gate'.cleaning = gate.cleaning
    /\ gate'.todo = gate.todo
    /\ remote' = remote

\* A directory that is on disk after a step of t is t's, or was reported, or
\* is as it was and not t's.
Accounts(t) ==
    \A n \in Names : disk'[n].kind # "none" =>
       \/ task'[t].dir = n
       \/ disk'[n].reported
       \/ Exists(n) /\ disk'[n] = disk[n] /\ task[t].dir # n

\* Tasks that did not take the step stay sound.
LEMMA OthersStaySound ==
    ASSUME IInv, NEW t \in Tasks, NEW u \in Tasks \ {t}, OnlyBy(t)
    PROVE  Sound(u)'
  <1> DEFINE r == task[u].repo
             d == task[u].dir
  <1>0. Sound(u) /\ task'[u] = task[u] /\ r \in Repos /\ remote' = remote
    BY DEF IInv, OnlyBy, Typed
  <1>1. /\ task[u].phase \in HoldingPhases => lock'[r] = u /\ cache'[r] = cache[r]
        /\ {"update", "unstage", "sanitize", "resolve", "checkout"} \subseteq HoldingPhases
    BY <1>0 DEF OnlyBy, Sound, HoldsItsLock, HoldingPhases, LockedPhases
  <1>2. d # 0 => disk'[d] = disk[d]
    <2>1. task[u].dir \in 0..MaxNames
      BY DEF IInv, Typed
    <2>2. d # 0 => d \in Names
      BY <2>1, Bounds DEF Names
    <2>3. d # 0 => disk[d].owner = u /\ Exists(d)
      BY <1>0 DEF Sound, OwnsItsDirectory, Exists
    <2> QED
      BY <2>2, <2>3 DEF OnlyBy
  <1>3. KeepsCleanupOut(u)'
    BY <1>0 DEF OnlyBy, Sound, KeepsCleanupOut
  <1>4. HoldsItsLock(u)'
    BY <1>0, <1>1 DEF HoldsItsLock
  <1>5. OwnsItsDirectory(u)'
    BY <1>0, <1>2 DEF Sound, OwnsItsDirectory, OwningPhases
  <1>6. CommitIsRecent(u)'
    BY <1>0, <1>1, <1>2 DEF Sound, CommitIsRecent, OwnsItsDirectory, OwningPhases, Recent
  <1>7. EvidenceIsTrue(u)'
    BY <1>0, <1>2
    DEF Sound, EvidenceIsTrue, OwnsItsDirectory, OwningPhases, Recent, Undisturbed, Mine
  <1>8. MirrorIsClean(u)'
    BY <1>0, <1>1 DEF Sound, MirrorIsClean
  <1> QED
    BY <1>3, <1>4, <1>5, <1>6, <1>7, <1>8 DEF Sound

\* What has to be shown of a step of task t.
LEMMA TaskStep ==
    ASSUME IInv, NEW t \in Tasks, OnlyBy(t), Accounts(t), Typed', MirrorsAreWhole', Sound(t)'
    PROVE  IInv'
  <1>1. \A u \in Tasks : Sound(u)'
    BY OthersStaySound
  <1>2. LeftoversAreReported'
    BY DEF IInv, LeftoversAreReported, OnlyBy, Accounts, Exists
  <1> QED
    BY <1>1, <1>2 DEF IInv

\* The directory of a task that has one.
LEMMA DirectoryFacts ==
    ASSUME IInv, NEW t \in Tasks, task[t].phase \in OwningPhases
    PROVE  /\ task[t].dir \in Names
           /\ Exists(task[t].dir)
           /\ disk[task[t].dir].owner = t
           /\ disk[task[t].dir] \in DirType
           /\ \A n \in Names : Exists(n) /\ disk[n].owner # t => n # task[t].dir
  <1>1. task[t].dir \in 0..MaxNames /\ Sound(t)
    BY DEF IInv, Typed
  <1>2. task[t].dir # 0 /\ disk[task[t].dir].owner = t /\ Exists(task[t].dir)
    BY <1>1 DEF Sound, OwnsItsDirectory, Exists
  <1>3. task[t].dir \in Names
    BY <1>1, <1>2, Bounds DEF Names
  <1>4. disk[task[t].dir] \in DirType
    BY <1>3 DEF IInv, Typed, DirType
  <1> QED
    BY <1>2, <1>3, <1>4

\* A step of t that only moves t along.
LEMMA QuietStep ==
    ASSUME IInv, NEW t \in Tasks, task' \in [Tasks -> TaskType],
           \A u \in Tasks \ {t} : task'[u] = task[u],
           task'[t].dir = task[t].dir,
           faults' \in 0..MaxFaults,
           UNCHANGED <<remote, cache, disk, lock, gate, seq, crashes>>,
           Sound(t)'
    PROVE  IInv'
  <1>1. Typed'
    BY DEF IInv, Typed, TaskType
  <1>2. OnlyBy(t)
    BY DEF OnlyBy
  <1>3. Accounts(t)
    BY DEF Accounts, Exists
  <1>4. MirrorsAreWhole'
    BY DEF IInv, MirrorsAreWhole
  <1> QED
    BY <1>1, <1>2, <1>3, <1>4, TaskStep

\* A failure counts.
LEMMA FaultFacts == ASSUME Typed, Fault PROVE faults' \in 0..MaxFaults
  BY Bounds DEF Typed, Fault
-----------------------------------------------------------------------------
(* The actions, one lemma each.                                            *)

LEMMA BeginStep == ASSUME IInv, NEW t \in Tasks, NEW r \in Repos, Begin(t, r) PROVE IInv'
  <1> DEFINE begun == [Idle EXCEPT !.phase = "gate", !.repo = r, !.began = remote[r]]
  <1>0. remote[r] \in 1..MaxCommits /\ remote[r] \in Commits /\ task \in [Tasks -> TaskType]
    BY Bounds DEF IInv, Typed, Commits, TaskType
  <1>1. /\ begun \in TaskType
        /\ begun.phase = "gate" /\ begun.repo = r /\ begun.began = remote[r]
        /\ begun.dir = 0 /\ begun.sha = 0 /\ ~begun.ok
    BY <1>0, Beginnings DEF TaskType, Phases
  <1>2. task' = [task EXCEPT ![t] = begun]
    BY DEF Begin
  <1> HIDE DEF begun
  <1>3. task' \in [Tasks -> TaskType] /\ task'[t] = begun
    BY <1>0, <1>1, <1>2
  <1>4. task'[t].dir = task[t].dir
    BY <1>1, <1>3 DEF IInv, Sound, OwnsItsDirectory, Begin, In, OwningPhases
  <1>5. /\ task'[t].phase = "gate" /\ task'[t].dir = 0 /\ task'[t].sha = 0 /\ ~task'[t].ok
        /\ task'[t].began \in 1..remote'[task'[t].repo]
    <2>1. remote' = remote /\ remote[r] \in 1..remote[r]
      BY <1>0 DEF Begin
    <2> QED
      BY <1>1, <1>3, <2>1
  <1>6. Sound(t)'
    BY <1>5
    DEF Sound, KeepsCleanupOut, EnteredPhases, HoldsItsLock, HoldingPhases, LockedPhases,
        OwnsItsDirectory, OwningPhases, CommitIsRecent, ResolvedPhases, EvidenceIsTrue, MirrorIsClean
  <1> QED
    BY <1>2, <1>3, <1>4, <1>6, QuietStep DEF Begin, IInv, Typed

LEMMA CancelStep == ASSUME IInv, NEW t \in Tasks, Cancel(t) PROVE IInv'
  <1>1. /\ task' \in [Tasks -> TaskType]
        /\ \A u \in Tasks \ {t} : task'[u] = task[u]
        /\ task'[t].phase = task[t].phase /\ task'[t].repo = task[t].repo
        /\ task'[t].began = task[t].began /\ task'[t].sha = task[t].sha
        /\ task'[t].read = task[t].read /\ task'[t].dir = task[t].dir
        /\ task'[t].ok = task[t].ok
    BY DEF IInv, Typed, TaskType, Cancel
  <1>2. Sound(t)'
    BY <1>1 DEF Cancel, IInv, Sound, KeepsCleanupOut, HoldsItsLock, OwnsItsDirectory,
                CommitIsRecent, EvidenceIsTrue, MirrorIsClean, Recent, Undisturbed, Mine
  <1> QED
    BY <1>1, <1>2, QuietStep DEF Cancel, IInv, Typed

LEMMA ResolveCommitStep == ASSUME IInv, NEW t \in Tasks, ResolveCommit(t) PROVE IInv'
  <1>1. /\ task[t].phase = "resolve" /\ Sound(t)
        /\ cache[task[t].repo].head \in Commits /\ task \in [Tasks -> TaskType]
    BY DEF ResolveCommit, In, IInv, Typed, TaskType
  <1>2. /\ task' \in [Tasks -> TaskType]
        /\ \A u \in Tasks \ {t} : task'[u] = task[u]
        /\ task'[t].phase = "checkout" /\ task'[t].sha = cache[task[t].repo].head
        /\ task'[t].repo = task[t].repo /\ task'[t].began = task[t].began
        /\ task'[t].read = task[t].read /\ task'[t].dir = task[t].dir
        /\ task'[t].ok = task[t].ok
    BY <1>1 DEF TaskType, ResolveCommit, Phases
  <1>3. UNCHANGED <<remote, cache, disk, lock, gate, seq, faults, crashes>>
    BY DEF ResolveCommit
  <1>4. Sound(t)'
    <2>1. KeepsCleanupOut(t)'
      BY <1>1, <1>2, <1>3
      DEF Sound, KeepsCleanupOut, EnteredPhases, Phases
    <2>2. HoldsItsLock(t)'
      BY <1>1, <1>2, <1>3
      DEF Sound, HoldsItsLock, HoldingPhases, LockedPhases
    <2>3. OwnsItsDirectory(t)'
      BY <1>1, <1>2, <1>3
      DEF Sound, OwnsItsDirectory, OwningPhases
    <2>4. CommitIsRecent(t)'
      BY <1>1, <1>2, <1>3
      DEF Sound, CommitIsRecent, ResolvedPhases, Recent
    <2>5. EvidenceIsTrue(t)'
      BY <1>1, <1>2, <1>3
      DEF Sound, EvidenceIsTrue, Undisturbed, Mine, Recent
    <2>6. MirrorIsClean(t)'
      BY <1>1, <1>2, <1>3
      DEF Sound, MirrorIsClean
    <2> QED
      BY <2>1, <2>2, <2>3, <2>4, <2>5, <2>6 DEF Sound
  <1> QED
    BY <1>2, <1>3, <1>4, QuietStep DEF IInv, Typed

LEMMA ReadEvidenceStep == ASSUME IInv, NEW t \in Tasks, ReadEvidence(t) PROVE IInv'
  <1> DEFINE seen == IF Mine(t).intact THEN Mine(t).head ELSE 0
             done == [task[t] EXCEPT !.phase = "finish", !.ok = TRUE, !.read = seen]
  <1>1. task[t].phase = "read" /\ Sound(t) /\ 0 \in Commits /\ task \in [Tasks -> TaskType]
    BY Bounds DEF ReadEvidence, In, IInv, Commits, Typed, TaskType
  <1>2. seen \in Commits /\ (Mine(t).intact => seen = Mine(t).head)
    BY <1>1, DirectoryFacts DEF Mine, OwningPhases, DirType
  <1>3. task' = [task EXCEPT ![t] = done]
    BY <1>1 DEF ReadEvidence
  <1> HIDE DEF seen
  <1>4. /\ done \in TaskType
        /\ done.phase = "finish" /\ done.read = seen
        /\ done.repo = task[t].repo /\ done.began = task[t].began
        /\ done.sha = task[t].sha /\ done.dir = task[t].dir
    <2>1. task[t] \in TaskType /\ "finish" \in Phases
      BY <1>1 DEF Phases
    <2> QED
      BY <1>2, <2>1 DEF TaskType
  <1> HIDE DEF done
  <1>5. /\ task' \in [Tasks -> TaskType]
        /\ \A u \in Tasks \ {t} : task'[u] = task[u]
        /\ task'[t] = done
    BY <1>1, <1>3, <1>4
  <1>6. UNCHANGED <<remote, cache, disk, lock, gate, seq, faults, crashes>>
    BY DEF ReadEvidence
  <1>7. Sound(t)'
    <2>1. KeepsCleanupOut(t)'
      BY <1>1, <1>2, <1>4, <1>5, <1>6
      DEF Sound, KeepsCleanupOut, EnteredPhases, Phases
    <2>2. HoldsItsLock(t)'
      BY <1>1, <1>2, <1>4, <1>5, <1>6
      DEF Sound, HoldsItsLock, HoldingPhases, LockedPhases
    <2>3. OwnsItsDirectory(t)'
      BY <1>1, <1>2, <1>4, <1>5, <1>6
      DEF Sound, OwnsItsDirectory, OwningPhases
    <2>4. CommitIsRecent(t)'
      BY <1>1, <1>2, <1>4, <1>5, <1>6
      DEF Sound, CommitIsRecent, ResolvedPhases, Recent
    <2>5. EvidenceIsTrue(t)'
      BY <1>1, <1>2, <1>4, <1>5, <1>6
      DEF Sound, EvidenceIsTrue, Undisturbed, Mine, Recent
    <2>6. MirrorIsClean(t)'
      BY <1>1, <1>2, <1>4, <1>5, <1>6
      DEF Sound, MirrorIsClean
    <2> QED
      BY <2>1, <2>2, <2>3, <2>4, <2>5, <2>6 DEF Sound
  <1> QED
    BY <1>4, <1>5, <1>6, <1>7, QuietStep DEF IInv, Typed

\* Steps that only change the phase, to give up or to go on to the end.
LEMMA PhaseStep ==
    ASSUME IInv, NEW t \in Tasks,
           \/ ReadCancelled(t) \/ ReadFails(t) \/ AbortCancelled(t) \/ AbortFailed(t)
    PROVE  IInv'
  <1>1. PICK p \in {"finish", "abort"} :
           /\ Goes(t, p)
           /\ p = "finish" => task[t].phase = "read"
           /\ p = "abort" => task[t].phase \in {"clone", "install", "unstage", "mark", "detach"}
    BY DEF ReadCancelled, ReadFails, AbortCancelled, AbortFailed, In
  <1>2. UNCHANGED <<remote, cache, disk, lock, gate, seq, crashes>> /\ faults' \in 0..MaxFaults
    BY FaultFacts DEF ReadCancelled, ReadFails, AbortCancelled, AbortFailed, IInv, Typed
  <1>3. /\ task' \in [Tasks -> TaskType]
        /\ task'[t].phase = p
        /\ task'[t].repo = task[t].repo /\ task'[t].began = task[t].began
        /\ task'[t].sha = task[t].sha /\ task'[t].read = task[t].read
        /\ task'[t].dir = task[t].dir /\ task'[t].ok = task[t].ok
        /\ \A u \in Tasks \ {t} : task'[u] = task[u]
    BY <1>1, GoesFacts DEF IInv, Phases
  <1>4. Sound(t)
    BY DEF IInv
  <1>5. Sound(t)'
    <2>1. KeepsCleanupOut(t)'
      BY <1>4, <1>1, <1>2, <1>3
      DEF Sound, KeepsCleanupOut, EnteredPhases, Phases
    <2>2. HoldsItsLock(t)'
      BY <1>4, <1>1, <1>2, <1>3
      DEF Sound, HoldsItsLock, HoldingPhases, LockedPhases
    <2>3. OwnsItsDirectory(t)'
      BY <1>4, <1>1, <1>2, <1>3
      DEF Sound, OwnsItsDirectory, OwningPhases
    <2>4. CommitIsRecent(t)'
      BY <1>4, <1>1, <1>2, <1>3
      DEF Sound, CommitIsRecent, ResolvedPhases, Recent
    <2>5. EvidenceIsTrue(t)'
      BY <1>4, <1>1, <1>2, <1>3
      DEF Sound, EvidenceIsTrue, Undisturbed, Mine, Recent
    <2>6. MirrorIsClean(t)'
      BY <1>4, <1>1, <1>2, <1>3
      DEF Sound, MirrorIsClean
    <2> QED
      BY <2>1, <2>2, <2>3, <2>4, <2>5, <2>6 DEF Sound
  <1> QED
    BY <1>2, <1>3, <1>5, QuietStep

-----------------------------------------------------------------------------
(* The gate, the mutex and the mirror.                                     *)

LEMMA EnterOperationStep == ASSUME IInv, NEW t \in Tasks, EnterOperation(t) PROVE IInv'
  <1>1. task[t].phase = "gate" /\ ~gate.cleaning /\ Sound(t) /\ task[t].dir = 0
    BY DEF EnterOperation, In, IInv, Sound, OwnsItsDirectory, OwningPhases
  <1>2. /\ task' \in [Tasks -> TaskType]
        /\ task'[t].phase = "lock"
        /\ task'[t].repo = task[t].repo /\ task'[t].began = task[t].began
        /\ task'[t].sha = task[t].sha /\ task'[t].read = task[t].read
        /\ task'[t].dir = task[t].dir /\ task'[t].ok = task[t].ok
        /\ \A u \in Tasks \ {t} : task'[u] = task[u]
    BY GoesFacts DEF EnterOperation, IInv, Phases
  <1>3. /\ gate' \in GateType
        /\ gate'.cleaning = gate.cleaning /\ gate'.todo = gate.todo
    BY DEF EnterOperation, IInv, Typed, GateType
  <1>4. UNCHANGED <<remote, cache, disk, lock, seq, faults, crashes>>
    BY DEF EnterOperation
  <1>5. Typed'
    BY <1>2, <1>3, <1>4 DEF IInv, Typed, TaskType, GateType
  <1>6. OnlyBy(t) /\ Accounts(t) /\ MirrorsAreWhole'
    BY <1>2, <1>3, <1>4 DEF OnlyBy, Accounts, Exists, IInv, MirrorsAreWhole
  <1>7. Sound(t)'
    <2>1. KeepsCleanupOut(t)'
      BY <1>1, <1>2, <1>3, <1>4
      DEF Sound, KeepsCleanupOut, EnteredPhases, Phases
    <2>2. HoldsItsLock(t)'
      BY <1>1, <1>2, <1>3, <1>4
      DEF Sound, HoldsItsLock, HoldingPhases, LockedPhases
    <2>3. OwnsItsDirectory(t)'
      BY <1>1, <1>2, <1>3, <1>4
      DEF Sound, OwnsItsDirectory, OwningPhases
    <2>4. CommitIsRecent(t)'
      BY <1>1, <1>2, <1>3, <1>4
      DEF Sound, CommitIsRecent, ResolvedPhases, Recent
    <2>5. EvidenceIsTrue(t)'
      BY <1>1, <1>2, <1>3, <1>4
      DEF Sound, EvidenceIsTrue, Undisturbed, Mine, Recent
    <2>6. MirrorIsClean(t)'
      BY <1>1, <1>2, <1>3, <1>4
      DEF Sound, MirrorIsClean
    <2> QED
      BY <2>1, <2>2, <2>3, <2>4, <2>5, <2>6 DEF Sound
  <1> QED
    BY <1>5, <1>6, <1>7, TaskStep

LEMMA LockRepositoryStep == ASSUME IInv, NEW t \in Tasks, LockRepository(t) PROVE IInv'
  <1>1. /\ task[t].phase = "lock" /\ task[t].repo \in Repos /\ lock[task[t].repo] = NoTask
        /\ Sound(t) /\ NoTask \notin Tasks
    BY Bounds DEF LockRepository, In, IInv, Typed
  <1>2. /\ task' \in [Tasks -> TaskType]
        /\ task'[t].phase = "cache"
        /\ task'[t].repo = task[t].repo /\ task'[t].began = task[t].began
        /\ task'[t].sha = task[t].sha /\ task'[t].read = task[t].read
        /\ task'[t].dir = task[t].dir /\ task'[t].ok = task[t].ok
        /\ \A u \in Tasks \ {t} : task'[u] = task[u]
    BY GoesFacts DEF LockRepository, IInv, Phases
  <1>3. /\ lock' \in [Repos -> Tasks \cup {NoTask}]
        /\ lock'[task[t].repo] = t
        /\ \A r \in Repos : lock[r] \in Tasks \ {t} => lock'[r] = lock[r]
    BY <1>1 DEF LockRepository, IInv, Typed
  <1>4. UNCHANGED <<remote, cache, disk, gate, seq, faults, crashes>>
    BY DEF LockRepository
  <1>5. Typed'
    BY <1>2, <1>3, <1>4 DEF IInv, Typed, TaskType
  <1>6. OnlyBy(t) /\ Accounts(t) /\ MirrorsAreWhole'
    BY <1>2, <1>3, <1>4 DEF OnlyBy, Accounts, Exists, IInv, MirrorsAreWhole
  <1>7. Sound(t)'
    <2>1. KeepsCleanupOut(t)'
      BY <1>1, <1>2, <1>3, <1>4
      DEF Sound, KeepsCleanupOut, EnteredPhases, Phases
    <2>2. HoldsItsLock(t)'
      BY <1>1, <1>2, <1>3, <1>4
      DEF Sound, HoldsItsLock, HoldingPhases, LockedPhases
    <2>3. OwnsItsDirectory(t)'
      BY <1>1, <1>2, <1>3, <1>4
      DEF Sound, OwnsItsDirectory, OwningPhases
    <2>4. CommitIsRecent(t)'
      BY <1>1, <1>2, <1>3, <1>4
      DEF Sound, CommitIsRecent, ResolvedPhases, Recent
    <2>5. EvidenceIsTrue(t)'
      BY <1>1, <1>2, <1>3, <1>4
      DEF Sound, EvidenceIsTrue, Undisturbed, Mine, Recent
    <2>6. MirrorIsClean(t)'
      BY <1>1, <1>2, <1>3, <1>4
      DEF Sound, MirrorIsClean
    <2> QED
      BY <2>1, <2>2, <2>3, <2>4, <2>5, <2>6 DEF Sound
  <1> QED
    BY <1>5, <1>6, <1>7, TaskStep

\* A step of the holder of a mutex that changes the mirror and goes on.
LEMMA MirrorStep ==
    ASSUME IInv, NEW t \in Tasks, NEW p \in Phases, Goes(t, p),
           task[t].phase \in HoldingPhases,
           cache' \in [Repos -> CacheType],
           \A r \in Repos \ {task[t].repo} : cache'[r] = cache[r],
           cache'[task[t].repo].present =>
              cache'[task[t].repo].whole /\ cache'[task[t].repo].head # 0,
           UNCHANGED <<remote, disk, lock, gate, seq, faults, crashes>>,
           Sound(t)'
    PROVE  IInv'
  <1>1. /\ task' \in [Tasks -> TaskType] /\ task'[t].dir = task[t].dir
        /\ \A u \in Tasks \ {t} : task'[u] = task[u]
    BY GoesFacts DEF IInv
  <1>2. lock[task[t].repo] = t
    BY DEF IInv, Sound, HoldsItsLock
  <1>3. Typed'
    BY <1>1 DEF IInv, Typed, TaskType, CacheType
  <1>4. OnlyBy(t) /\ Accounts(t)
    BY <1>1, <1>2 DEF OnlyBy, Accounts, Exists
  <1>5. MirrorsAreWhole'
    BY DEF IInv, MirrorsAreWhole
  <1> QED
    BY <1>3, <1>4, <1>5, TaskStep

\* ReuseCache and SanitizeCache both sanitize the mirror of the task.
LEMMA SanitizeStep ==
    ASSUME IInv, NEW t \in Tasks, ReuseCache(t) \/ SanitizeCache(t)
    PROVE  IInv'
  <1> DEFINE r == task[t].repo
  <1>1. PICK p \in {"update", "resolve"} :
           /\ Goes(t, p)
           /\ p = "update" => task[t].phase = "cache" /\ cache[r].present
           /\ p = "resolve" => task[t].phase = "sanitize"
    BY DEF ReuseCache, SanitizeCache, In
  <1>2. /\ cache' = [cache EXCEPT ![r].sanitized = TRUE]
        /\ UNCHANGED <<remote, disk, lock, gate, seq, faults, crashes>>
    BY DEF ReuseCache, SanitizeCache
  <1>3. /\ task' \in [Tasks -> TaskType]
        /\ task'[t].phase = p
        /\ task'[t].repo = task[t].repo /\ task'[t].began = task[t].began
        /\ task'[t].sha = task[t].sha /\ task'[t].read = task[t].read
        /\ task'[t].dir = task[t].dir /\ task'[t].ok = task[t].ok
    BY <1>1, GoesFacts DEF IInv, Phases
  <1>4. r \in Repos /\ cache \in [Repos -> CacheType] /\ Sound(t)
    BY DEF IInv, Typed, CacheType
  <1>5. /\ cache' \in [Repos -> CacheType]
        /\ \A q \in Repos \ {r} : cache'[q] = cache[q]
        /\ cache'[r].present = cache[r].present /\ cache'[r].whole = cache[r].whole
        /\ cache'[r].head = cache[r].head /\ cache'[r].sanitized = TRUE
    BY <1>2, <1>4 DEF CacheType
  <1>6. cache'[r].present => cache'[r].whole /\ cache'[r].head # 0
    BY <1>4, <1>5 DEF IInv, MirrorsAreWhole
  <1>7. Sound(t)'
    <2>1. KeepsCleanupOut(t)'
      BY <1>1, <1>2, <1>3, <1>4, <1>5
      DEF Sound, KeepsCleanupOut, EnteredPhases, Phases
    <2>2. HoldsItsLock(t)'
      BY <1>1, <1>2, <1>3, <1>4, <1>5
      DEF Sound, HoldsItsLock, HoldingPhases, LockedPhases
    <2>3. OwnsItsDirectory(t)'
      BY <1>1, <1>2, <1>3, <1>4, <1>5
      DEF Sound, OwnsItsDirectory, OwningPhases
    <2>4. CommitIsRecent(t)'
      BY <1>1, <1>2, <1>3, <1>4, <1>5
      DEF Sound, CommitIsRecent, ResolvedPhases, Recent
    <2>5. EvidenceIsTrue(t)'
      BY <1>1, <1>2, <1>3, <1>4, <1>5
      DEF Sound, EvidenceIsTrue, Undisturbed, Mine, Recent
    <2>6. MirrorIsClean(t)'
      BY <1>1, <1>2, <1>3, <1>4, <1>5
      DEF Sound, MirrorIsClean
    <2> QED
      BY <2>1, <2>2, <2>3, <2>4, <2>5, <2>6 DEF Sound
  <1>8. p \in Phases /\ task[t].phase \in HoldingPhases
    BY <1>1 DEF Phases, HoldingPhases, LockedPhases
  <1> QED
    BY <1>1, <1>2, <1>5, <1>6, <1>7, <1>8, MirrorStep

\* What fetching the head of the remote does to the mirror.
LEMMA FetchFacts ==
    ASSUME IInv, NEW r \in Repos, cache' = [cache EXCEPT ![r].head = remote[r]]
    PROVE  /\ cache' \in [Repos -> CacheType]
           /\ \A q \in Repos \ {r} : cache'[q] = cache[q]
           /\ cache'[r].present = cache[r].present /\ cache'[r].whole = cache[r].whole
           /\ cache'[r].head = remote[r] /\ cache'[r].sanitized = cache[r].sanitized
           /\ remote[r] # 0
           /\ MirrorsAreWhole'
  <1>1. cache \in [Repos -> CacheType] /\ remote[r] \in 1..MaxCommits
    BY DEF IInv, Typed, CacheType
  <1>2. remote[r] \in Commits /\ remote[r] # 0
    BY <1>1, Bounds DEF Commits
  <1>3. /\ cache' \in [Repos -> CacheType]
        /\ \A q \in Repos \ {r} : cache'[q] = cache[q]
        /\ cache'[r].present = cache[r].present /\ cache'[r].whole = cache[r].whole
        /\ cache'[r].head = remote[r] /\ cache'[r].sanitized = cache[r].sanitized
    BY <1>1, <1>2 DEF CacheType
  <1>4. MirrorsAreWhole'
    BY <1>2, <1>3 DEF IInv, MirrorsAreWhole
  <1> QED
    BY <1>2, <1>3, <1>4

LEMMA UpdateCacheStep == ASSUME IInv, NEW t \in Tasks, UpdateCache(t) PROVE IInv'
  <1> DEFINE r == task[t].repo
  <1>1. task[t].phase = "update" /\ r \in Repos /\ Sound(t) /\ remote' = remote
    BY DEF UpdateCache, In, IInv, Typed
  <1>2. /\ task' \in [Tasks -> TaskType]
        /\ task'[t].phase = "resolve"
        /\ task'[t].repo = task[t].repo /\ task'[t].began = task[t].began
        /\ task'[t].sha = task[t].sha /\ task'[t].read = task[t].read
        /\ task'[t].dir = task[t].dir /\ task'[t].ok = task[t].ok
        /\ \A u \in Tasks \ {t} : task'[u] = task[u]
    BY GoesFacts DEF UpdateCache, IInv, Phases
  <1>3. /\ cache' \in [Repos -> CacheType]
        /\ \A q \in Repos \ {r} : cache'[q] = cache[q]
        /\ cache'[r].present = cache[r].present /\ cache'[r].whole = cache[r].whole
        /\ cache'[r].head = remote[r] /\ cache'[r].sanitized = cache[r].sanitized
        /\ remote[r] # 0
        /\ MirrorsAreWhole'
    BY <1>1, FetchFacts DEF UpdateCache
  <1>4. remote[r] \in Recent(t)
    <2>1. remote[r] \in 1..MaxCommits /\ task[t].began \in 1..remote[r]
      BY <1>1 DEF Sound, CommitIsRecent, IInv, Typed
    <2> QED
      BY <2>1, Bounds DEF Recent
  <1>5. UNCHANGED <<remote, disk, lock, gate, seq, faults, crashes>>
    BY DEF UpdateCache
  <1>6. Sound(t)'
    <2>1. KeepsCleanupOut(t)'
      BY <1>1, <1>2, <1>3, <1>4, <1>5
      DEF Sound, KeepsCleanupOut, EnteredPhases, Phases
    <2>2. HoldsItsLock(t)'
      BY <1>1, <1>2, <1>3, <1>4, <1>5
      DEF Sound, HoldsItsLock, HoldingPhases, LockedPhases
    <2>3. OwnsItsDirectory(t)'
      BY <1>1, <1>2, <1>3, <1>4, <1>5
      DEF Sound, OwnsItsDirectory, OwningPhases
    <2>4. CommitIsRecent(t)'
      BY <1>1, <1>2, <1>3, <1>4, <1>5
      DEF Sound, CommitIsRecent, ResolvedPhases, Recent
    <2>5. EvidenceIsTrue(t)'
      BY <1>1, <1>2, <1>3, <1>4, <1>5
      DEF Sound, EvidenceIsTrue, Undisturbed, Mine, Recent
    <2>6. MirrorIsClean(t)'
      BY <1>1, <1>2, <1>3, <1>4, <1>5
      DEF Sound, MirrorIsClean
    <2> QED
      BY <2>1, <2>2, <2>3, <2>4, <2>5, <2>6 DEF Sound
  <1>7. cache'[r].present => cache'[r].whole /\ cache'[r].head # 0
    BY <1>1, <1>3 DEF MirrorsAreWhole
  <1>8. Goes(t, "resolve") /\ "resolve" \in Phases /\ task[t].phase \in HoldingPhases
    BY <1>1 DEF UpdateCache, Phases, HoldingPhases, LockedPhases
  <1> QED
    BY <1>3, <1>5, <1>6, <1>7, <1>8, MirrorStep

-----------------------------------------------------------------------------
(* Directories of a task.                                                  *)

\* A step of t that changes t's directory and nobody else's.
LEMMA DirectoryStep ==
    ASSUME IInv, NEW t \in Tasks, task[t].phase \in OwningPhases,
           task' \in [Tasks -> TaskType],
           task'[t].dir = task[t].dir,
           \A u \in Tasks \ {t} : task'[u] = task[u],
           disk' \in [Names -> DirType],
           \A n \in Names \ {task[t].dir} : disk'[n] = disk[n],
           cache' \in [Repos -> CacheType],
           \A r \in Repos : lock[r] # t => cache'[r] = cache[r],
           MirrorsAreWhole',
           lock' \in [Repos -> Tasks \cup {NoTask}],
           \A r \in Repos : lock[r] \in Tasks \ {t} => lock'[r] = lock[r],
           faults' \in 0..MaxFaults,
           UNCHANGED <<remote, gate, seq, crashes>>,
           Sound(t)'
    PROVE  IInv'
  <1>1. Typed'
    BY DEF IInv, Typed, TaskType, DirType, CacheType
  <1>2. \A n \in Names : Exists(n) /\ disk[n].owner # t => disk'[n] = disk[n]
    BY DirectoryFacts
  <1>3. OnlyBy(t)
    BY <1>2 DEF OnlyBy
  <1>4. Accounts(t)
    BY DEF Accounts, Exists
  <1> QED
    BY <1>1, <1>3, <1>4, TaskStep

LEMMA CloneMirrorStep == ASSUME IInv, NEW t \in Tasks, CloneMirror(t) PROVE IInv'
  <1> DEFINE d == task[t].dir
             r == task[t].repo
  <1>1. /\ task[t].phase = "clone" /\ Sound(t) /\ task[t].repo \in Repos
        /\ d \in Names /\ disk[d].owner = t /\ Exists(d)
        /\ disk \in [Names -> DirType]
    BY DirectoryFacts DEF CloneMirror, In, OwningPhases, IInv, Typed, DirType
  <1>2. /\ task' \in [Tasks -> TaskType]
        /\ task'[t].phase = "install"
        /\ task'[t].repo = task[t].repo /\ task'[t].began = task[t].began
        /\ task'[t].sha = task[t].sha /\ task'[t].read = task[t].read
        /\ task'[t].dir = task[t].dir /\ task'[t].ok = task[t].ok
        /\ \A u \in Tasks \ {t} : task'[u] = task[u]
    BY GoesFacts DEF CloneMirror, IInv, Phases
  <1>3. remote[r] \in Commits /\ remote[r] \in Recent(t)
    <2>1. remote[r] \in 1..MaxCommits /\ task[t].began \in 1..remote[r]
      BY <1>1 DEF Sound, CommitIsRecent, IInv, Typed
    <2> QED
      BY <2>1, Bounds DEF Recent, Commits
  <1>4. /\ disk' \in [Names -> DirType]
        /\ \A n \in Names \ {d} : disk'[n] = disk[n]
        /\ disk'[d].kind = disk[d].kind /\ disk'[d].owner = disk[d].owner /\ disk'[d].whole = TRUE
        /\ disk'[d].head = remote[r] /\ disk'[d].marked = disk[d].marked
        /\ disk'[d].intact = disk[d].intact /\ disk'[d].reported = disk[d].reported
    BY <1>1, <1>3 DEF CloneMirror, DirType
  <1>5. UNCHANGED <<remote, cache, lock, gate, seq, faults, crashes>>
    BY DEF CloneMirror
  <1>6. Sound(t)'
    <2>1. KeepsCleanupOut(t)'
      BY <1>1, <1>2, <1>3, <1>4, <1>5
      DEF Sound, KeepsCleanupOut, EnteredPhases, Phases
    <2>2. HoldsItsLock(t)'
      BY <1>1, <1>2, <1>3, <1>4, <1>5
      DEF Sound, HoldsItsLock, HoldingPhases, LockedPhases
    <2>3. OwnsItsDirectory(t)'
      BY <1>1, <1>2, <1>3, <1>4, <1>5
      DEF Sound, OwnsItsDirectory, OwningPhases
    <2>4. CommitIsRecent(t)'
      BY <1>1, <1>2, <1>3, <1>4, <1>5
      DEF Sound, CommitIsRecent, ResolvedPhases, Recent
    <2>5. EvidenceIsTrue(t)'
      BY <1>1, <1>2, <1>3, <1>4, <1>5
      DEF Sound, EvidenceIsTrue, Undisturbed, Mine, Recent
    <2>6. MirrorIsClean(t)'
      BY <1>1, <1>2, <1>3, <1>4, <1>5
      DEF Sound, MirrorIsClean
    <2> QED
      BY <2>1, <2>2, <2>3, <2>4, <2>5, <2>6 DEF Sound
  <1>7. cache \in [Repos -> CacheType] /\ MirrorsAreWhole' /\ task[t].phase \in OwningPhases
    BY <1>1, <1>5 DEF IInv, Typed, CacheType, MirrorsAreWhole, OwningPhases
  <1> QED
    BY <1>2, <1>4, <1>5, <1>6, <1>7, DirectoryStep DEF IInv, Typed

LEMMA InstallCacheStep == ASSUME IInv, NEW t \in Tasks, InstallCache(t) PROVE IInv'
  <1> DEFINE d == task[t].dir
             r == task[t].repo
             installed == [present |-> TRUE, whole |-> Mine(t).whole,
                           head |-> Mine(t).head, sanitized |-> FALSE]
  <1>1. /\ task[t].phase = "install" /\ Sound(t) /\ task[t].repo \in Repos
        /\ d \in Names /\ disk[d].owner = t /\ Exists(d)
        /\ disk \in [Names -> DirType]
    BY DirectoryFacts DEF InstallCache, In, OwningPhases, IInv, Typed, DirType
  <1>2. /\ task' \in [Tasks -> TaskType]
        /\ task'[t].phase = "unstage"
        /\ task'[t].repo = task[t].repo /\ task'[t].began = task[t].began
        /\ task'[t].sha = task[t].sha /\ task'[t].read = task[t].read
        /\ task'[t].dir = task[t].dir /\ task'[t].ok = task[t].ok
        /\ \A u \in Tasks \ {t} : task'[u] = task[u]
    BY GoesFacts DEF InstallCache, IInv, Phases
  <1>3. /\ disk' \in [Names -> DirType]
        /\ \A n \in Names \ {d} : disk'[n] = disk[n]
        /\ disk'[d].kind = disk[d].kind /\ disk'[d].owner = disk[d].owner /\ disk'[d].whole = FALSE
        /\ disk'[d].head = 0 /\ disk'[d].marked = disk[d].marked
        /\ disk'[d].intact = disk[d].intact /\ disk'[d].reported = disk[d].reported
    <2>1. 0 \in Commits
      BY Bounds DEF Commits
    <2> QED
      BY <1>1, <2>1 DEF InstallCache, DirType
  <1>4. /\ installed \in CacheType
        /\ installed.present /\ installed.whole
        /\ installed.head \in Recent(t) /\ installed.head # 0
    <2>1. disk[d] \in DirType
      BY <1>1
    <2>2. installed \in CacheType /\ installed.head = disk[d].head /\ installed.whole = disk[d].whole
      BY <2>1 DEF DirType, CacheType, Mine
    <2>3. disk[d].whole /\ disk[d].head \in Recent(t) /\ task[t].began \in 1..remote[r]
      BY <1>1 DEF Sound, OwnsItsDirectory, CommitIsRecent
    <2>4. remote[r] \in 1..MaxCommits
      BY <1>1 DEF IInv, Typed
    <2>5. disk[d].head # 0
      BY <2>3, <2>4, Bounds DEF Recent
    <2> QED
      BY <2>2, <2>3, <2>5
  <1>5. cache' = [cache EXCEPT ![r] = installed] /\ cache \in [Repos -> CacheType]
    BY DEF InstallCache, IInv, Typed, CacheType
  <1> HIDE DEF installed
  <1>6. /\ cache' \in [Repos -> CacheType] /\ cache'[r] = installed
        /\ \A q \in Repos \ {r} : cache'[q] = cache[q]
    BY <1>1, <1>4, <1>5
  <1>7. MirrorsAreWhole'
    BY <1>4, <1>6 DEF IInv, MirrorsAreWhole
  <1>8. UNCHANGED <<remote, lock, gate, seq, faults, crashes>>
    BY DEF InstallCache
  <1>9. Sound(t)'
    <2>1. KeepsCleanupOut(t)'
      BY <1>1, <1>2, <1>3, <1>4, <1>6, <1>8
      DEF Sound, KeepsCleanupOut, EnteredPhases, Phases
    <2>2. HoldsItsLock(t)'
      BY <1>1, <1>2, <1>3, <1>4, <1>6, <1>8
      DEF Sound, HoldsItsLock, HoldingPhases, LockedPhases
    <2>3. OwnsItsDirectory(t)'
      BY <1>1, <1>2, <1>3, <1>4, <1>6, <1>8
      DEF Sound, OwnsItsDirectory, OwningPhases
    <2>4. CommitIsRecent(t)'
      BY <1>1, <1>2, <1>3, <1>4, <1>6, <1>8
      DEF Sound, CommitIsRecent, ResolvedPhases, Recent
    <2>5. EvidenceIsTrue(t)'
      BY <1>1, <1>2, <1>3, <1>4, <1>6, <1>8
      DEF Sound, EvidenceIsTrue, Undisturbed, Mine, Recent
    <2>6. MirrorIsClean(t)'
      BY <1>1, <1>2, <1>3, <1>4, <1>6, <1>8
      DEF Sound, MirrorIsClean
    <2> QED
      BY <2>1, <2>2, <2>3, <2>4, <2>5, <2>6 DEF Sound
  <1>10. lock[r] = t /\ task[t].phase \in OwningPhases
    BY <1>1 DEF Sound, HoldsItsLock, HoldingPhases, LockedPhases, OwningPhases
  <1> QED
    BY <1>2, <1>3, <1>6, <1>7, <1>8, <1>9, <1>10, DirectoryStep DEF IInv, Typed

LEMMA MarkCheckoutStep == ASSUME IInv, NEW t \in Tasks, MarkCheckout(t) PROVE IInv'
  <1> DEFINE d == task[t].dir
  <1>1. /\ task[t].phase = "mark" /\ Sound(t) /\ task[t].repo \in Repos
        /\ d \in Names /\ disk[d].owner = t /\ Exists(d)
        /\ disk \in [Names -> DirType]
    BY DirectoryFacts DEF MarkCheckout, In, OwningPhases, IInv, Typed, DirType
  <1>2. /\ task' \in [Tasks -> TaskType]
        /\ task'[t].phase = "detach"
        /\ task'[t].repo = task[t].repo /\ task'[t].began = task[t].began
        /\ task'[t].sha = task[t].sha /\ task'[t].read = task[t].read
        /\ task'[t].dir = task[t].dir /\ task'[t].ok = task[t].ok
        /\ \A u \in Tasks \ {t} : task'[u] = task[u]
    BY GoesFacts DEF MarkCheckout, IInv, Phases
  <1>3. /\ disk' \in [Names -> DirType]
        /\ \A n \in Names \ {d} : disk'[n] = disk[n]
        /\ disk'[d].kind = disk[d].kind /\ disk'[d].owner = disk[d].owner /\ disk'[d].whole = disk[d].whole
        /\ disk'[d].head = disk[d].head /\ disk'[d].marked = TRUE
        /\ disk'[d].intact = disk[d].intact /\ disk'[d].reported = disk[d].reported
    BY <1>1 DEF MarkCheckout, DirType
  <1>4. UNCHANGED <<remote, cache, lock, gate, seq, faults, crashes>>
    BY DEF MarkCheckout
  <1>5. Sound(t)'
    <2>1. KeepsCleanupOut(t)'
      BY <1>1, <1>2, <1>3, <1>4
      DEF Sound, KeepsCleanupOut, EnteredPhases, Phases
    <2>2. HoldsItsLock(t)'
      BY <1>1, <1>2, <1>3, <1>4
      DEF Sound, HoldsItsLock, HoldingPhases, LockedPhases
    <2>3. OwnsItsDirectory(t)'
      BY <1>1, <1>2, <1>3, <1>4
      DEF Sound, OwnsItsDirectory, OwningPhases
    <2>4. CommitIsRecent(t)'
      BY <1>1, <1>2, <1>3, <1>4
      DEF Sound, CommitIsRecent, ResolvedPhases, Recent
    <2>5. EvidenceIsTrue(t)'
      BY <1>1, <1>2, <1>3, <1>4
      DEF Sound, EvidenceIsTrue, Undisturbed, Mine, Recent
    <2>6. MirrorIsClean(t)'
      BY <1>1, <1>2, <1>3, <1>4
      DEF Sound, MirrorIsClean
    <2> QED
      BY <2>1, <2>2, <2>3, <2>4, <2>5, <2>6 DEF Sound
  <1>6. cache \in [Repos -> CacheType] /\ MirrorsAreWhole' /\ task[t].phase \in OwningPhases
    BY <1>1, <1>4 DEF IInv, Typed, CacheType, MirrorsAreWhole, OwningPhases
  <1> QED
    BY <1>2, <1>3, <1>4, <1>5, <1>6, DirectoryStep DEF IInv, Typed

LEMMA DetachCheckoutStep == ASSUME IInv, NEW t \in Tasks, DetachCheckout(t) PROVE IInv'
  <1> DEFINE d == task[t].dir
  <1>1. /\ task[t].phase = "detach" /\ Sound(t) /\ task[t].repo \in Repos
        /\ d \in Names /\ disk[d].owner = t /\ Exists(d)
        /\ disk \in [Names -> DirType]
    BY DirectoryFacts DEF DetachCheckout, In, OwningPhases, IInv, Typed, DirType
  <1>2. /\ task' \in [Tasks -> TaskType]
        /\ task'[t].phase = "read"
        /\ task'[t].repo = task[t].repo /\ task'[t].began = task[t].began
        /\ task'[t].sha = task[t].sha /\ task'[t].read = task[t].read
        /\ task'[t].dir = task[t].dir /\ task'[t].ok = task[t].ok
        /\ \A u \in Tasks \ {t} : task'[u] = task[u]
    BY GoesFacts DEF DetachCheckout, IInv, Phases
  <1>3. /\ disk' \in [Names -> DirType]
        /\ \A n \in Names \ {d} : disk'[n] = disk[n]
        /\ disk'[d].kind = disk[d].kind /\ disk'[d].owner = disk[d].owner /\ disk'[d].whole = disk[d].whole
        /\ disk'[d].head = task[t].sha /\ disk'[d].marked = disk[d].marked
        /\ disk'[d].intact = disk[d].intact /\ disk'[d].reported = disk[d].reported
    <2>1. task[t].sha \in Commits
      BY DEF IInv, Typed
    <2> QED
      BY <1>1, <2>1 DEF DetachCheckout, DirType
  <1>4. lock[task[t].repo] = t
    BY <1>1 DEF Sound, HoldsItsLock, HoldingPhases, LockedPhases
  <1>5. /\ lock' \in [Repos -> Tasks \cup {NoTask}]
        /\ \A r \in Repos : lock[r] \in Tasks \ {t} => lock'[r] = lock[r]
    BY <1>4 DEF DetachCheckout, IInv, Typed
  <1>6. UNCHANGED <<remote, cache, gate, seq, faults, crashes>>
    BY DEF DetachCheckout
  <1>7. Sound(t)'
    <2>1. KeepsCleanupOut(t)'
      BY <1>1, <1>2, <1>3, <1>6
      DEF Sound, KeepsCleanupOut, EnteredPhases, Phases
    <2>2. HoldsItsLock(t)'
      BY <1>1, <1>2, <1>3, <1>6
      DEF Sound, HoldsItsLock, HoldingPhases, LockedPhases
    <2>3. OwnsItsDirectory(t)'
      BY <1>1, <1>2, <1>3, <1>6
      DEF Sound, OwnsItsDirectory, OwningPhases
    <2>4. CommitIsRecent(t)'
      BY <1>1, <1>2, <1>3, <1>6
      DEF Sound, CommitIsRecent, ResolvedPhases, Recent
    <2>5. EvidenceIsTrue(t)'
      BY <1>1, <1>2, <1>3, <1>6
      DEF Sound, EvidenceIsTrue, Undisturbed, Mine, Recent
    <2>6. MirrorIsClean(t)'
      BY <1>1, <1>2, <1>3, <1>6
      DEF Sound, MirrorIsClean
    <2> QED
      BY <2>1, <2>2, <2>3, <2>4, <2>5, <2>6 DEF Sound
  <1>8. cache \in [Repos -> CacheType] /\ MirrorsAreWhole' /\ task[t].phase \in OwningPhases
    BY <1>1, <1>6 DEF IInv, Typed, CacheType, MirrorsAreWhole, OwningPhases
  <1> QED
    BY <1>2, <1>3, <1>5, <1>6, <1>7, <1>8, DirectoryStep DEF IInv, Typed

LEMMA DisturbStep == ASSUME IInv, NEW t \in Tasks, Disturb(t) PROVE IInv'
  <1> DEFINE d == task[t].dir
  <1>1. /\ task[t].phase \in {"read", "finish"} /\ Sound(t) /\ task[t].phase \in OwningPhases
        /\ d \in Names /\ disk[d].owner = t /\ Exists(d)
        /\ disk \in [Names -> DirType]
    BY DirectoryFacts DEF Disturb, OwningPhases, IInv, Typed, DirType
  <1>2. /\ disk' \in [Names -> DirType]
        /\ \A n \in Names \ {d} : disk'[n] = disk[n]
        /\ disk'[d].kind = disk[d].kind /\ disk'[d].owner = disk[d].owner
        /\ disk'[d].whole = disk[d].whole /\ disk'[d].marked = disk[d].marked
        /\ \/ ~disk'[d].intact /\ disk'[d].head = disk[d].head
           \/ disk'[d].head = 0
    <2>1. 0 \in Commits
      BY Bounds DEF Commits
    <2>2. CASE disk' = [disk EXCEPT ![d].intact = FALSE]
      BY <1>1, <2>2 DEF DirType
    <2>3. CASE disk' = [disk EXCEPT ![d].head = 0]
      BY <1>1, <2>1, <2>3 DEF DirType
    <2> QED
      BY <2>2, <2>3 DEF Disturb
  <1>3. UNCHANGED <<remote, cache, task, lock, gate, seq, crashes>> /\ faults' \in 0..MaxFaults
    BY FaultFacts DEF Disturb, IInv
  <1>4. task[t].phase \in ResolvedPhases /\ task[t].sha # 0
    <2>1. task[t].phase \in ResolvedPhases /\ task[t].repo \in Repos
      BY <1>1 DEF ResolvedPhases, IInv, Typed
    <2>2. task[t].sha \in Recent(t) /\ task[t].began \in 1..remote[task[t].repo]
      BY <1>1, <2>1 DEF Sound, CommitIsRecent
    <2>3. remote[task[t].repo] \in 1..MaxCommits
      BY <2>1 DEF IInv, Typed
    <2> QED
      BY <2>1, <2>2, <2>3, Bounds DEF Recent
  <1>5. Sound(t)'
    <2>1. KeepsCleanupOut(t)'
      BY <1>1, <1>2, <1>3, <1>4
      DEF Sound, KeepsCleanupOut, EnteredPhases, Phases
    <2>2. HoldsItsLock(t)'
      BY <1>1, <1>2, <1>3, <1>4
      DEF Sound, HoldsItsLock, HoldingPhases, LockedPhases
    <2>3. OwnsItsDirectory(t)'
      BY <1>1, <1>2, <1>3, <1>4
      DEF Sound, OwnsItsDirectory, OwningPhases
    <2>4. CommitIsRecent(t)'
      BY <1>1, <1>2, <1>3, <1>4
      DEF Sound, CommitIsRecent, ResolvedPhases, Recent
    <2>5. EvidenceIsTrue(t)'
      BY <1>1, <1>2, <1>3, <1>4
      DEF Sound, EvidenceIsTrue, Undisturbed, Mine, Recent
    <2>6. MirrorIsClean(t)'
      BY <1>1, <1>2, <1>3, <1>4
      DEF Sound, MirrorIsClean
    <2> QED
      BY <2>1, <2>2, <2>3, <2>4, <2>5, <2>6 DEF Sound
  <1>6. /\ cache \in [Repos -> CacheType] /\ MirrorsAreWhole'
        /\ task \in [Tasks -> TaskType] /\ lock \in [Repos -> Tasks \cup {NoTask}]
    BY <1>3 DEF IInv, Typed, CacheType, TaskType, MirrorsAreWhole
  <1> QED
    BY <1>1, <1>2, <1>3, <1>5, <1>6, DirectoryStep

-----------------------------------------------------------------------------
(* Creation and removal of directories.                                    *)

\* Directory n is new and t's, and t goes on with it.
Created(t, n, kind, p) ==
    /\ disk' = [disk EXCEPT ![n] = [NoDir EXCEPT !.kind = kind, !.owner = t]]
    /\ task' = [task EXCEPT ![t].phase = p, ![t].dir = n]

\* A step of t that creates directory n, which nobody uses.
LEMMA CreationStep ==
    ASSUME IInv, NEW t \in Tasks, task[t].dir = 0, NEW n \in Names, ~Exists(n),
           NEW kind, NEW p, Created(t, n, kind, p),
           seq' \in 1..MaxNames + 1,
           UNCHANGED <<remote, cache, lock, gate, faults, crashes>>,
           \/ task[t].phase = "cache" /\ kind = "staging" /\ p = "clone"
           \/ task[t].phase = "checkout" /\ kind = "checkout" /\ p = "mark"
    PROVE  IInv'
  <1> DEFINE new == [NoDir EXCEPT !.kind = kind, !.owner = t]
  <1>0. p \in Phases /\ p \in OwningPhases /\ kind \in Kinds \ {"none"}
    BY DEF Phases, OwningPhases, Kinds
  <1>1. new \in DirType /\ new.kind = kind /\ new.owner = t
    BY <1>0, Beginnings DEF DirType
  <1>2. disk' = [disk EXCEPT ![n] = new] /\ disk \in [Names -> DirType] /\ Sound(t)
    BY DEF Created, IInv, Typed, DirType
  <1> HIDE DEF new
  <1>3. /\ disk' \in [Names -> DirType] /\ disk'[n] = new
        /\ \A m \in Names \ {n} : disk'[m] = disk[m]
    BY <1>1, <1>2
  <1>4. /\ task' \in [Tasks -> TaskType]
        /\ \A u \in Tasks \ {t} : task'[u] = task[u]
        /\ task'[t].phase = p /\ task'[t].dir = n
        /\ task'[t].repo = task[t].repo /\ task'[t].began = task[t].began
        /\ task'[t].sha = task[t].sha /\ task'[t].read = task[t].read
        /\ task'[t].ok = task[t].ok
    <2>1. task \in [Tasks -> TaskType] /\ n \in 0..MaxNames
      BY Bounds DEF IInv, Typed, TaskType, Names
    <2> QED
      BY <1>0, <2>1 DEF Created, TaskType
  <1>5. Typed'
    BY <1>3, <1>4 DEF IInv, Typed, TaskType, DirType
  <1>6. OnlyBy(t) /\ MirrorsAreWhole'
    BY <1>3, <1>4 DEF OnlyBy, Exists, IInv, MirrorsAreWhole
  <1>7. Accounts(t)
    BY <1>3, <1>4, Bounds DEF Accounts, Exists, Names
  <1>8. n # 0 /\ (task[t].phase = "cache" => task[t].sha = 0)
        /\ (task[t].phase = "checkout" => task[t].sha # 0)
    <2>1. n # 0
      BY Bounds DEF Names
    <2>2. ASSUME task[t].phase = "checkout" PROVE task[t].sha # 0
      <3>1. task[t].sha \in Recent(t) /\ task[t].began \in 1..remote[task[t].repo]
        BY <1>2, <2>2 DEF Sound, CommitIsRecent, ResolvedPhases
      <3>2. remote[task[t].repo] \in 1..MaxCommits
        BY DEF IInv, Typed
      <3> QED
        BY <3>1, <3>2, Bounds DEF Recent
    <2> QED
      BY <1>2, <2>1, <2>2 DEF Sound, CommitIsRecent
  <1>9. Sound(t)'
    <2>1. KeepsCleanupOut(t)'
      BY <1>0, <1>1, <1>2, <1>3, <1>4, <1>8
      DEF Sound, KeepsCleanupOut, EnteredPhases, Phases
    <2>2. HoldsItsLock(t)'
      BY <1>0, <1>1, <1>2, <1>3, <1>4, <1>8
      DEF Sound, HoldsItsLock, HoldingPhases, LockedPhases
    <2>3. OwnsItsDirectory(t)'
      BY <1>0, <1>1, <1>2, <1>3, <1>4, <1>8
      DEF Sound, OwnsItsDirectory, OwningPhases
    <2>4. CommitIsRecent(t)'
      BY <1>0, <1>1, <1>2, <1>3, <1>4, <1>8
      DEF Sound, CommitIsRecent, ResolvedPhases, Recent
    <2>5. EvidenceIsTrue(t)'
      BY <1>0, <1>1, <1>2, <1>3, <1>4, <1>8
      DEF Sound, EvidenceIsTrue, Undisturbed, Mine, Recent
    <2>6. MirrorIsClean(t)'
      BY <1>0, <1>1, <1>2, <1>3, <1>4, <1>8
      DEF Sound, MirrorIsClean
    <2> QED
      BY <2>1, <2>2, <2>3, <2>4, <2>5, <2>6 DEF Sound
  <1> QED
    BY <1>5, <1>6, <1>9, <1>7, TaskStep

\* A step in which t returns: its directory is gone or reported.
LEMMA EndingStep ==
    ASSUME IInv, NEW t \in Tasks, NEW ok \in BOOLEAN, Ended(t, ok),
           task[t].phase # "idle",
           ok => task[t].read = task[t].sha /\ task[t].sha \in Recent(t),
           disk' \in [Names -> DirType],
           \A n \in Names \ {task[t].dir} : disk'[n] = disk[n],
           task[t].dir # 0 =>
              disk'[task[t].dir].kind = "none" \/ disk'[task[t].dir].reported,
           cache' \in [Repos -> CacheType],
           \A r \in Repos : lock[r] # t => cache'[r] = cache[r],
           MirrorsAreWhole',
           seq' \in 1..MaxNames + 1,
           faults' \in 0..MaxFaults,
           UNCHANGED <<remote, crashes>>
    PROVE  IInv'
  <1>1. /\ task' \in [Tasks -> TaskType]
        /\ task'[t].phase = "done" /\ task'[t].dir = 0 /\ task'[t].ok = ok
        /\ task'[t].repo = task[t].repo /\ task'[t].began = task[t].began
        /\ task'[t].sha = task[t].sha /\ task'[t].read = task[t].read
        /\ \A u \in Tasks \ {t} : task'[u] = task[u]
        /\ gate' \in GateType
        /\ gate'.cleaning = gate.cleaning /\ gate'.todo = gate.todo
        /\ lock' \in [Repos -> Tasks \cup {NoTask}]
        /\ \A r \in Repos : lock[r] # t => lock'[r] = lock[r]
    BY EndedFacts DEF IInv
  <1>2. Sound(t) /\ 0 \notin Names
    BY Bounds DEF IInv, Names
  <1>3. \A n \in Names : Exists(n) /\ disk[n].owner # t => disk'[n] = disk[n]
    BY <1>2 DEF Sound, OwnsItsDirectory
  <1>4. Typed'
    BY <1>1 DEF IInv, Typed, TaskType, DirType, CacheType, GateType
  <1>5. OnlyBy(t)
    BY <1>1, <1>3 DEF OnlyBy
  <1>6. Accounts(t)
    BY <1>2 DEF Accounts, Exists
  <1>7. Sound(t)'
    BY <1>1, <1>2
    DEF Sound, KeepsCleanupOut, EnteredPhases, HoldsItsLock, HoldingPhases, LockedPhases,
        OwnsItsDirectory, OwningPhases, CommitIsRecent, ResolvedPhases, EvidenceIsTrue,
        MirrorIsClean, Recent
  <1> QED
    BY <1>4, <1>5, <1>6, <1>7, TaskStep

LEMMA CreateStagingStep == ASSUME IInv, NEW t \in Tasks, CreateStaging(t) PROVE IInv'
  <1>1. task[t].phase = "cache" /\ task[t].dir = 0 /\ seq \in Names
    BY DEF CreateStaging, In, IInv, Sound, OwnsItsDirectory, OwningPhases
  <1>2. seq' \in 1..MaxNames + 1
    BY <1>1, Bounds DEF CreateStaging, Names
  <1>3. CASE Exists(seq)
    <2>1. Ended(t, FALSE) /\ UNCHANGED <<disk, remote, cache, faults, crashes>>
      BY <1>3 DEF CreateStaging
    <2>2. MirrorsAreWhole' /\ disk \in [Names -> DirType] /\ cache \in [Repos -> CacheType]
      BY <2>1 DEF IInv, Typed, DirType, CacheType, MirrorsAreWhole
    <2> QED
      BY <1>1, <1>2, <2>1, <2>2, EndingStep DEF IInv, Typed
  <1>4. CASE ~Exists(seq)
    <2>1. PICK n \in Names : n = seq
      BY <1>1
    <2>2. /\ Created(t, n, "staging", "clone")
          /\ UNCHANGED <<remote, cache, lock, gate, faults, crashes>>
      BY <1>4, <2>1 DEF CreateStaging, Created
    <2>3. ~Exists(n)
      BY <1>4, <2>1 DEF Exists
    <2> QED
      BY <1>1, <1>2, <2>2, <2>3, CreationStep
  <1> QED
    BY <1>3, <1>4

LEMMA CloneCheckoutStep == ASSUME IInv, NEW t \in Tasks, CloneCheckout(t) PROVE IInv'
  <1>1. task[t].phase = "checkout" /\ task[t].dir = 0
    BY DEF CloneCheckout, In, IInv, Sound, OwnsItsDirectory, OwningPhases
  <1>2. PICK n \in Names :
           /\ FreeName(n)
           /\ seq' = n + 1
           /\ Created(t, n, "checkout", "mark")
    BY DEF CloneCheckout, Created
  <1>3. seq' \in 1..MaxNames + 1
    BY <1>2, Bounds DEF Names
  <1>4. ~Exists(n) /\ UNCHANGED <<remote, cache, lock, gate, faults, crashes>>
    BY <1>2 DEF CloneCheckout, FreeName
  <1> QED
    BY <1>1, <1>2, <1>3, <1>4, CreationStep

LEMMA RemoveStagingStep == ASSUME IInv, NEW t \in Tasks, RemoveStaging(t) PROVE IInv'
  <1> DEFINE d == task[t].dir
  <1>1. /\ task[t].phase = "unstage" /\ Sound(t)
        /\ d \in Names /\ disk[d].owner = t /\ disk \in [Names -> DirType]
        /\ \A n \in Names : Exists(n) /\ disk[n].owner # t => n # d
    BY DirectoryFacts DEF RemoveStaging, In, OwningPhases, IInv, Typed, DirType
  <1>2. /\ disk' \in [Names -> DirType] /\ disk'[d].kind = "none"
        /\ \A n \in Names \ {d} : disk'[n] = disk[n]
    BY <1>1, Beginnings DEF RemoveStaging
  <1>3. /\ task' \in [Tasks -> TaskType]
        /\ \A u \in Tasks \ {t} : task'[u] = task[u]
        /\ task'[t].phase = "sanitize" /\ task'[t].dir = 0
        /\ task'[t].repo = task[t].repo /\ task'[t].began = task[t].began
        /\ task'[t].sha = task[t].sha /\ task'[t].read = task[t].read
        /\ task'[t].ok = task[t].ok
    <2>1. task \in [Tasks -> TaskType] /\ 0 \in 0..MaxNames /\ "sanitize" \in Phases
      BY Bounds DEF IInv, Typed, TaskType, Phases
    <2> QED
      BY <2>1 DEF TaskType, RemoveStaging
  <1>4. UNCHANGED <<remote, cache, lock, gate, seq, faults, crashes>>
    BY DEF RemoveStaging
  <1>5. Typed'
    BY <1>2, <1>3, <1>4 DEF IInv, Typed, TaskType, DirType
  <1>6. OnlyBy(t)
    BY <1>1, <1>2, <1>3, <1>4 DEF OnlyBy
  <1>7. Accounts(t) /\ MirrorsAreWhole'
    BY <1>2, <1>4 DEF Accounts, Exists, IInv, MirrorsAreWhole
  <1>8. Sound(t)'
    <2>1. KeepsCleanupOut(t)'
      BY <1>1, <1>2, <1>3, <1>4
      DEF Sound, KeepsCleanupOut, EnteredPhases, Phases
    <2>2. HoldsItsLock(t)'
      BY <1>1, <1>2, <1>3, <1>4
      DEF Sound, HoldsItsLock, HoldingPhases, LockedPhases
    <2>3. OwnsItsDirectory(t)'
      BY <1>1, <1>2, <1>3, <1>4
      DEF Sound, OwnsItsDirectory, OwningPhases
    <2>4. CommitIsRecent(t)'
      BY <1>1, <1>2, <1>3, <1>4
      DEF Sound, CommitIsRecent, ResolvedPhases, Recent
    <2>5. EvidenceIsTrue(t)'
      BY <1>1, <1>2, <1>3, <1>4
      DEF Sound, EvidenceIsTrue, Undisturbed, Mine, Recent
    <2>6. MirrorIsClean(t)'
      BY <1>1, <1>2, <1>3, <1>4
      DEF Sound, MirrorIsClean
    <2> QED
      BY <2>1, <2>2, <2>3, <2>4, <2>5, <2>6 DEF Sound
  <1> QED
    BY <1>5, <1>6, <1>7, <1>8, TaskStep

-----------------------------------------------------------------------------
(* Returning.                                                              *)

LEMMA StoppedStep ==
    ASSUME IInv, NEW t \in Tasks, StopHere(t) \/ FailHere(t)
    PROVE  IInv'
  <1>1. Stopped(t) /\ faults' \in 0..MaxFaults
    BY FaultFacts DEF StopHere, FailHere, IInv, Typed
  <1>2. /\ Ended(t, FALSE) /\ UNCHANGED <<remote, disk, seq, crashes>>
        /\ task[t].phase \in EmptyHanded /\ task[t].repo \in Repos
    BY <1>1 DEF Stopped, IInv, Typed
  <1>3. task[t].dir = 0 /\ task[t].phase # "idle" /\ disk \in [Names -> DirType]
    BY <1>2 DEF EmptyHanded, IInv, Typed, DirType, Sound, OwnsItsDirectory, OwningPhases
  <1>4. /\ cache' \in [Repos -> CacheType] /\ MirrorsAreWhole'
        /\ \A r \in Repos : lock[r] # t => cache'[r] = cache[r]
    <2>1. CASE cache' = cache
      BY <2>1 DEF IInv, Typed, CacheType, MirrorsAreWhole
    <2>2. CASE /\ In(t, "update")
               /\ cache' = [cache EXCEPT ![task[t].repo].head = remote[task[t].repo]]
      <3>1. lock[task[t].repo] = t
        BY <2>2 DEF In, IInv, Sound, HoldsItsLock, HoldingPhases, LockedPhases
      <3> QED
        BY <1>2, <2>2, <3>1, FetchFacts
    <2> QED
      BY <1>1, <2>1, <2>2 DEF Stopped
  <1> QED
    BY <1>1, <1>2, <1>3, <1>4, EndingStep DEF IInv, Typed

LEMMA FinishStep == ASSUME IInv, NEW t \in Tasks, Finish(t) PROVE IInv'
  <1> DEFINE d == task[t].dir
  <1>1. /\ task[t].phase = "finish" /\ Sound(t)
        /\ d \in Names /\ disk \in [Names -> DirType]
        /\ cache \in [Repos -> CacheType]
    BY DirectoryFacts DEF Finish, In, OwningPhases, IInv, Typed, DirType, CacheType
  <1>2. /\ disk' \in [Names -> DirType] /\ disk'[d].kind = "none"
        /\ \A n \in Names \ {d} : disk'[n] = disk[n]
    BY <1>1, Beginnings DEF Finish
  <1>3. PICK ok \in BOOLEAN : ok = (task[t].ok /\ Undisturbed(t))
    OBVIOUS
  <1>4. Ended(t, ok) /\ UNCHANGED <<remote, cache, seq, faults, crashes>>
    BY <1>3 DEF Finish
  <1>5. ok => task[t].read = task[t].sha /\ task[t].sha \in Recent(t)
    BY <1>1, <1>3 DEF Sound, EvidenceIsTrue, CommitIsRecent, ResolvedPhases
  <1>6. MirrorsAreWhole'
    BY <1>4 DEF IInv, MirrorsAreWhole
  <1> QED
    BY <1>1, <1>2, <1>4, <1>5, <1>6, EndingStep DEF IInv, Typed

LEMMA AbortStep == ASSUME IInv, NEW t \in Tasks, Abort(t) PROVE IInv'
  <1> DEFINE d == task[t].dir
             left == IF Removable(Mine(t)) THEN NoDir ELSE [disk[d] EXCEPT !.reported = TRUE]
  <1>1. /\ task[t].phase = "abort" /\ Sound(t)
        /\ d \in Names /\ disk \in [Names -> DirType]
        /\ cache \in [Repos -> CacheType]
    BY DirectoryFacts DEF Abort, In, OwningPhases, IInv, Typed, DirType, CacheType
  <1>2. left \in DirType /\ (left.kind = "none" \/ left.reported)
    <2>1. /\ [disk[d] EXCEPT !.reported = TRUE] \in DirType
          /\ [disk[d] EXCEPT !.reported = TRUE].reported
      BY <1>1 DEF DirType
    <2> QED
      BY <2>1, Beginnings
  <1>3. disk' = [disk EXCEPT ![d] = left]
    BY DEF Abort
  <1> HIDE DEF left
  <1>4. /\ disk' \in [Names -> DirType] /\ disk'[d] = left
        /\ \A n \in Names \ {d} : disk'[n] = disk[n]
    BY <1>1, <1>2, <1>3
  <1>5. Ended(t, FALSE) /\ UNCHANGED <<remote, cache, seq, faults, crashes>>
    BY DEF Abort
  <1>6. MirrorsAreWhole'
    BY <1>5 DEF IInv, MirrorsAreWhole
  <1> QED
    BY <1>1, <1>2, <1>4, <1>5, <1>6, EndingStep DEF IInv, Typed

LEMMA RemovalFailsStep == ASSUME IInv, NEW t \in Tasks, RemovalFails(t) PROVE IInv'
  <1> DEFINE d == task[t].dir
  <1>1. /\ task[t].phase \in {"unstage", "finish", "abort"}
        /\ d \in Names /\ disk \in [Names -> DirType]
        /\ cache \in [Repos -> CacheType]
    BY DirectoryFacts DEF RemovalFails, OwningPhases, IInv, Typed, DirType, CacheType
  <1>2. PICK m \in BOOLEAN :
           disk' = [disk EXCEPT ![d].reported = TRUE, ![d].marked = m]
    <2>1. Mine(t).marked \in BOOLEAN
      BY <1>1 DEF Mine, DirType
    <2> QED
      BY <2>1 DEF RemovalFails
  <1>3. /\ disk' \in [Names -> DirType] /\ disk'[d].reported
        /\ \A n \in Names \ {d} : disk'[n] = disk[n]
    <2> DEFINE left == [disk[d] EXCEPT !.reported = TRUE, !.marked = m]
    <2>1. left \in DirType /\ left.reported
      <3>1. disk[d] \in DirType
        BY <1>1
      <3> QED
        BY <3>1 DEF DirType
    <2>2. disk' = [disk EXCEPT ![d] = left]
      BY <1>1, <1>2
    <2> HIDE DEF left
    <2> QED
      BY <1>1, <2>1, <2>2
  <1>4. /\ Ended(t, FALSE) /\ UNCHANGED <<remote, cache, seq, crashes>>
        /\ faults' \in 0..MaxFaults
    BY FaultFacts DEF RemovalFails, IInv
  <1>5. MirrorsAreWhole'
    BY <1>4 DEF IInv, MirrorsAreWhole
  <1> QED
    BY <1>1, <1>3, <1>4, <1>5, EndingStep DEF IInv, Typed
-----------------------------------------------------------------------------
(* Steps of nobody in particular: pushes, cleanups, deaths.                *)

LEMMA PushStep == ASSUME IInv, NEW r \in Repos, Push(r) PROVE IInv'
  <1>1. /\ remote' \in [Repos -> 1..MaxCommits]
        /\ \A q \in Repos : remote[q] \in Nat /\ remote'[q] \in Nat /\ remote'[q] >= remote[q]
    BY Bounds DEF Push, IInv, Typed
  <1>2. UNCHANGED <<cache, disk, task, lock, gate, seq, faults, crashes>>
    BY DEF Push
  <1>3. Typed'
    BY <1>1, <1>2 DEF IInv, Typed
  <1>4. MirrorsAreWhole' /\ LeftoversAreReported'
    BY <1>2 DEF IInv, MirrorsAreWhole, LeftoversAreReported, Exists
  <1>5. ASSUME NEW t \in Tasks PROVE Sound(t)'
    <2>1. /\ Sound(t) /\ task[t].repo \in Repos
          /\ task[t].began \in Nat
      BY Bounds DEF IInv, Typed, Commits
    <2>2. \A c \in Nat : c \in Recent(t) => c \in Recent(t)'
      BY <1>1, <1>2, <2>1 DEF Recent
    <2>3. /\ task[t].sha \in Nat /\ cache[task[t].repo].head \in Nat
          /\ task[t].phase \in OwningPhases => disk[task[t].dir].head \in Nat
      <3>1. task[t].phase \in OwningPhases => disk[task[t].dir] \in DirType
        BY DirectoryFacts
      <3> QED
        BY <2>1, <3>1, Bounds DEF IInv, Typed, Commits, DirType
    <2>4. CommitIsRecent(t)'
      <3>1. task[t].began \in 1..remote[task[t].repo] => task[t].began \in 1..remote'[task[t].repo]
        BY <1>1, <2>1
      <3> QED
        BY <1>2, <2>1, <2>2, <2>3, <3>1
        DEF Sound, CommitIsRecent, ResolvedPhases, OwningPhases
    <2>5. EvidenceIsTrue(t)'
      BY <1>2, <2>1, <2>2, <2>3 DEF Sound, EvidenceIsTrue, Undisturbed, Mine
    <2> QED
      BY <1>2, <2>1, <2>4, <2>5
      DEF Sound, KeepsCleanupOut, HoldsItsLock, OwnsItsDirectory, MirrorIsClean
  <1> QED
    BY <1>3, <1>4, <1>5 DEF IInv

\* While a cleanup runs nobody is inside the gate, so that what it does to the
\* directories is seen by no task.
LEMMA NobodyInside ==
    ASSUME IInv, NEW t \in Tasks, gate.cleaning \/ Inside = {}
    PROVE  task[t].phase \in {"idle", "gate", "done"} /\ task[t].dir = 0
  <1>1. Sound(t) /\ task[t].phase \in Phases
    BY DEF IInv, Typed
  <1>2. task[t].phase \in {"idle", "gate", "done"}
    BY <1>1 DEF Sound, KeepsCleanupOut, EnteredPhases, Inside
  <1> QED
    BY <1>1, <1>2 DEF Sound, OwnsItsDirectory, OwningPhases

\* A step that touches only the directories and the gate while nobody is inside.
LEMMA OutsideStep ==
    ASSUME IInv, gate.cleaning \/ Inside = {},
           gate' \in GateType, disk' \in [Names -> DirType],
           LeftoversAreReported',
           faults' \in 0..MaxFaults,
           UNCHANGED <<remote, cache, task, lock, seq, crashes>>
    PROVE  IInv'
  <1>1. Typed'
    BY DEF IInv, Typed, GateType, DirType
  <1>2. MirrorsAreWhole'
    BY DEF IInv, MirrorsAreWhole
  <1>3. ASSUME NEW t \in Tasks PROVE Sound(t)'
    <2>1. Sound(t) /\ task[t].phase \in {"idle", "gate", "done"} /\ task[t].dir = 0
      BY NobodyInside DEF IInv
    <2> QED
      BY <2>1
      DEF Sound, KeepsCleanupOut, EnteredPhases, HoldsItsLock, HoldingPhases, LockedPhases,
          OwnsItsDirectory, OwningPhases, CommitIsRecent, ResolvedPhases, EvidenceIsTrue,
          MirrorIsClean, Recent
  <1> QED
    BY <1>1, <1>2, <1>3 DEF IInv

\* The set that is counted is finite.
LEMMA InsideIsFinite == IsFiniteSet(Inside) /\ Cardinality(Inside) \in Nat
  <1>1. Inside \subseteq Tasks /\ IsFiniteSet(Tasks)
    BY InspectionAssumption DEF Inside
  <1> QED
    BY <1>1, FS_Subset, FS_CardinalityType

LEMMA BeginCleanupStep == ASSUME IInv, GateCounts, BeginCleanup PROVE IInv'
  <1>1. UNCHANGED <<remote, cache, disk, task, lock, seq, faults, crashes>> /\ Inside = {}
    <2>1. Cardinality(Inside) = 0
      BY DEF BeginCleanup, GateCounts
    <2> QED
      BY <2>1, InsideIsFinite, FS_EmptySet DEF BeginCleanup
  <1>2. gate' \in GateType /\ gate'.cleaning /\ gate'.todo = Stale
    <2>1. Stale \in SUBSET Names /\ gate \in GateType /\ gate.runs + 1 \in 1..MaxCleanups
      BY Bounds DEF Stale, IInv, Typed, GateType, BeginCleanup
    <2> QED
      BY <2>1 DEF BeginCleanup, GateType
  <1>3. LeftoversAreReported'
    BY <1>1, <1>2 DEF LeftoversAreReported, Stale, Exists
  <1> QED
    BY <1>1, <1>2, <1>3, OutsideStep DEF IInv, Typed, DirType

LEMMA EndCleanupStep == ASSUME IInv, EndCleanup PROVE IInv'
  <1>1. /\ UNCHANGED <<remote, cache, disk, task, lock, seq, faults, crashes>>
        /\ gate.cleaning /\ gate.todo = {}
    BY DEF EndCleanup
  <1>2. gate' \in GateType
    BY DEF EndCleanup, IInv, Typed, GateType
  <1>3. LeftoversAreReported'
    BY <1>1 DEF IInv, LeftoversAreReported, Exists
  <1> QED
    BY <1>1, <1>2, <1>3, OutsideStep DEF IInv, Typed, DirType

\* The cleanup leaves n removed or reported.
LEMMA VisitStep ==
    ASSUME IInv, NEW n \in Names, VisitStaging(n) \/ VisitCheckout(n) \/ VisitFails(n)
    PROVE  IInv'
  <1>0. disk \in [Names -> DirType]
    BY DEF IInv, Typed, DirType
  <1>1. PICK left \in DirType :
           /\ disk' = [disk EXCEPT ![n] = left]
           /\ left.kind = "none" \/ left.reported
    <2>1. /\ [disk[n] EXCEPT !.reported = TRUE] \in DirType
          /\ [disk[n] EXCEPT !.reported = TRUE].reported
      BY <1>0 DEF DirType
    <2>2. CASE VisitStaging(n)
      BY <2>2, Beginnings DEF VisitStaging
    <2>3. CASE VisitCheckout(n)
      <3>1. CASE Removable(disk[n])
        BY <2>3, <3>1, <1>0, Beginnings DEF VisitCheckout
      <3>2. CASE ~Removable(disk[n])
        BY <2>1, <2>3, <3>2, <1>0 DEF VisitCheckout
      <3> QED
        BY <3>1, <3>2
    <2>4. CASE VisitFails(n)
      BY <2>1, <2>4, <1>0 DEF VisitFails
    <2> QED
      BY <2>2, <2>3, <2>4
  <1>2. /\ disk' \in [Names -> DirType] /\ disk'[n] = left
        /\ \A m \in Names \ {n} : disk'[m] = disk[m]
    BY <1>0, <1>1
  <1>3. /\ gate.cleaning /\ gate' = [gate EXCEPT !.todo = @ \ {n}]
        /\ UNCHANGED <<remote, cache, task, lock, seq, crashes>>
    BY DEF VisitStaging, VisitCheckout, VisitFails
  <1>4. faults' \in 0..MaxFaults
    BY FaultFacts DEF VisitStaging, VisitCheckout, VisitFails, IInv, Typed
  <1>5. gate' \in GateType /\ gate'.cleaning = gate.cleaning /\ gate'.todo = gate.todo \ {n}
    BY <1>3 DEF IInv, Typed, GateType
  <1>6. LeftoversAreReported'
    BY <1>1, <1>2, <1>3, <1>5 DEF IInv, LeftoversAreReported, Exists
  <1> QED
    BY <1>2, <1>3, <1>4, <1>5, <1>6, OutsideStep

\* Tasks that have not begun are sound, whatever is on the disk.
LEMMA IdleIsSound ==
    ASSUME NEW t \in Tasks, (task[t] = Idle)'
    PROVE  Sound(t)'
  <1>1. /\ task'[t].phase = "idle" /\ task'[t].dir = 0 /\ task'[t].sha = 0
        /\ task'[t].ok = FALSE
    BY Beginnings
  <1> QED
    BY <1>1
    DEF Sound, KeepsCleanupOut, EnteredPhases, HoldsItsLock, HoldingPhases, LockedPhases,
        OwnsItsDirectory, OwningPhases, CommitIsRecent, ResolvedPhases, EvidenceIsTrue,
        MirrorIsClean

LEMMA CrashStep == ASSUME IInv, Crash PROVE IInv'
  <1>0. disk \in [Names -> DirType] /\ UNCHANGED <<remote, cache, faults>>
    BY DEF Crash, IInv, Typed, DirType
  <1>1. /\ disk' \in [Names -> DirType]
        /\ \A n \in Names : disk'[n].kind = disk[n].kind
    BY <1>0 DEF Crash, DirType
  <1>2. gate' \in GateType /\ gate'.cleaning /\ gate'.todo = Stale
    <2>1. Stale \in SUBSET Names /\ 1 \in 1..MaxCleanups
      BY Bounds DEF Stale
    <2> QED
      BY <2>1 DEF Crash, GateType
  <1>3. /\ task' \in [Tasks -> TaskType] /\ lock' \in [Repos -> Tasks \cup {NoTask}]
        /\ \A t \in Tasks : task'[t] = Idle
    BY Beginnings DEF Crash
  <1>4. seq' \in 1..MaxNames + 1 /\ crashes' \in 0..MaxCrashes
    <2>1. seq' = 1 /\ crashes < MaxCrashes /\ crashes' = crashes + 1 /\ crashes \in 0..MaxCrashes
      BY DEF Crash, IInv, Typed
    <2>2. 1 \in 1..MaxNames + 1
      BY Bounds
    <2> QED
      BY <2>1, <2>2, Bounds
  <1>5. Typed'
    BY <1>0, <1>1, <1>2, <1>3, <1>4 DEF IInv, Typed, DirType, GateType, TaskType
  <1>6. MirrorsAreWhole' /\ LeftoversAreReported'
    BY <1>0, <1>1, <1>2 DEF IInv, MirrorsAreWhole, LeftoversAreReported, Stale, Exists
  <1>7. \A t \in Tasks : Sound(t)'
    BY <1>3, IdleIsSound
  <1> QED
    BY <1>5, <1>6, <1>7 DEF IInv
-----------------------------------------------------------------------------
(* The invariant, and what it implies.                                     *)

LEMMA InvInit == Init => IInv
  <1> SUFFICES ASSUME Init PROVE IInv
    OBVIOUS
  <1>1. Typed
    <2>1. /\ 1 \in 1..MaxCommits /\ 1 \in 1..MaxCleanups /\ 1 \in 1..MaxNames + 1
          /\ 0 \in 0..MaxFaults /\ 0 \in 0..MaxCrashes
      BY Bounds
    <2>2. gate \in GateType
      BY <2>1 DEF Init, GateType
    <2>3. /\ cache \in [Repos -> CacheType] /\ disk \in [Names -> DirType]
          /\ task \in [Tasks -> TaskType] /\ remote \in [Repos -> 1..MaxCommits]
          /\ lock \in [Repos -> Tasks \cup {NoTask}]
      BY <2>1, Beginnings DEF Init
    <2> QED
      BY <2>1, <2>2, <2>3 DEF Init, Typed, GateType, CacheType, DirType, TaskType
  <1>2. MirrorsAreWhole /\ LeftoversAreReported
    BY Beginnings DEF Init, MirrorsAreWhole, LeftoversAreReported, Exists, NoCache
  <1>3. ASSUME NEW t \in Tasks PROVE Sound(t)
    <2>1. task[t].phase = "idle" /\ task[t].dir = 0 /\ task[t].sha = 0 /\ task[t].ok = FALSE
      BY Beginnings DEF Init
    <2> QED
      BY <2>1
      DEF Sound, KeepsCleanupOut, EnteredPhases, HoldsItsLock, HoldingPhases, LockedPhases,
          OwnsItsDirectory, OwningPhases, CommitIsRecent, ResolvedPhases, EvidenceIsTrue,
          MirrorIsClean
  <1> QED
    BY <1>1, <1>2, <1>3 DEF IInv

LEMMA InvStep == IInv /\ GateCounts /\ [Next]_vars => IInv'
  <1> SUFFICES ASSUME IInv, GateCounts, [Next]_vars PROVE IInv'
    OBVIOUS
  <1>1. CASE UNCHANGED vars
    BY <1>1
    DEF vars, IInv, Typed, MirrorsAreWhole, LeftoversAreReported, Exists, Sound,
        KeepsCleanupOut, HoldsItsLock, OwnsItsDirectory, CommitIsRecent, EvidenceIsTrue,
        MirrorIsClean, Recent, Undisturbed, Mine
  <1>2. ASSUME NEW t \in Tasks, Work(t) PROVE IInv'
    BY <1>2, StoppedStep, EnterOperationStep, LockRepositoryStep, SanitizeStep, UpdateCacheStep,
       CreateStagingStep, CloneMirrorStep, InstallCacheStep, RemoveStagingStep,
       ResolveCommitStep, CloneCheckoutStep, MarkCheckoutStep, DetachCheckoutStep,
       ReadEvidenceStep, PhaseStep, FinishStep, AbortStep
    DEF Work
  <1>3. ASSUME NEW t \in Tasks, Trouble(t) PROVE IInv'
    BY <1>3, StoppedStep, PhaseStep, RemovalFailsStep, DisturbStep, CancelStep DEF Trouble
  <1>4. ASSUME NEW t \in Tasks, NEW r \in Repos, Begin(t, r) PROVE IInv'
    BY <1>4, BeginStep
  <1>5. CASE Cleanup
    BY <1>5, EndCleanupStep, VisitStep DEF Cleanup
  <1> QED
    BY <1>1, <1>2, <1>3, <1>4, <1>5, PushStep, BeginCleanupStep, VisitStep, CrashStep DEF Next

-----------------------------------------------------------------------------
(* The count.                                                              *)

\* A task moves within the gate, or outside it.
LEMMA CountKept ==
    ASSUME GateCounts, NEW t \in Tasks,
           \A u \in Tasks \ {t} : task'[u] = task[u],
           task'[t].phase \in {"idle", "gate", "done"} <=> task[t].phase \in {"idle", "gate", "done"},
           gate'.active = gate.active
    PROVE  GateCounts'
  <1>1. Inside' = Inside
    BY DEF Inside
  <1> QED
    BY <1>1 DEF GateCounts

\* A task ends: what it was counted for is taken back, and nothing else.
LEMMA CountEnded ==
    ASSUME IInv, GateCounts, NEW t \in Tasks, NEW ok \in BOOLEAN, Ended(t, ok),
           task[t].phase \notin {"idle", "done"}
    PROVE  GateCounts'
  <1>1. /\ task'[t].phase = "done"
        /\ \A u \in Tasks \ {t} : task'[u] = task[u]
        /\ gate'.active = IF task[t].phase = "gate" THEN gate.active ELSE Less(gate.active)
    BY EndedFacts DEF IInv
  <1>2. CASE task[t].phase = "gate"
    BY <1>1, <1>2, CountKept
  <1>3. CASE task[t].phase # "gate"
    <2>1. t \in Inside /\ Inside' = Inside \ {t}
      BY <1>1, <1>3 DEF Inside
    <2>2. Cardinality(Inside \ {t}) = Cardinality(Inside) - 1
      BY <2>1, InsideIsFinite, FS_RemoveElement
    <2>3. Cardinality(Inside \ {t}) \in Nat
      BY InsideIsFinite, FS_Subset, FS_CardinalityType
    <2>4. Cardinality(Inside) # 0
      BY <2>2, <2>3, InsideIsFinite
    <2> QED
      BY <1>1, <1>3, <2>1, <2>2, <2>4 DEF GateCounts, Less
  <1> QED
    BY <1>2, <1>3

LEMMA CountEntered == ASSUME IInv, GateCounts, NEW t \in Tasks, EnterOperation(t) PROVE GateCounts'
  <1>1. /\ task[t].phase = "gate" /\ task'[t].phase = "lock"
        /\ \A u \in Tasks \ {t} : task'[u] = task[u]
    BY GoesFacts DEF EnterOperation, In, IInv, Phases
  <1>2. gate'.active = gate.active + 1
    BY DEF EnterOperation, IInv, Typed
  <1>3. t \notin Inside /\ Inside' = Inside \cup {t}
    BY <1>1 DEF Inside
  <1>4. Cardinality(Inside \cup {t}) = Cardinality(Inside) + 1
    BY <1>3, InsideIsFinite, FS_AddElement
  <1> QED
    BY <1>2, <1>3, <1>4 DEF GateCounts

\* Steps that change the phase of a task inside, and nothing of the gate.
LEMMA CountMoved ==
    ASSUME IInv, GateCounts, NEW t \in Tasks,
           \/ LockRepository(t) \/ ReuseCache(t) \/ UpdateCache(t) \/ CloneMirror(t)
           \/ InstallCache(t) \/ SanitizeCache(t) \/ MarkCheckout(t) \/ DetachCheckout(t)
           \/ ReadCancelled(t) \/ ReadFails(t) \/ AbortCancelled(t) \/ AbortFailed(t)
    PROVE  GateCounts'
  <1>1. PICK p \in Phases \ {"idle", "gate", "done"} :
           Goes(t, p) /\ gate' = gate /\ task[t].phase \notin {"idle", "gate", "done"}
    BY DEF LockRepository, ReuseCache, UpdateCache, CloneMirror, InstallCache, SanitizeCache,
           MarkCheckout, DetachCheckout, ReadCancelled, ReadFails, AbortCancelled, AbortFailed,
           In, Phases
  <1>2. task'[t].phase = p /\ \A u \in Tasks \ {t} : task'[u] = task[u]
    BY <1>1, GoesFacts DEF IInv
  <1> QED
    BY <1>1, <1>2, CountKept

\* Steps that change more of their task than its phase.
LEMMA CountChanged ==
    ASSUME IInv, GateCounts, NEW t \in Tasks,
           \/ RemoveStaging(t) \/ ResolveCommit(t) \/ CloneCheckout(t) \/ ReadEvidence(t)
           \/ Cancel(t) \/ \E r \in Repos : Begin(t, r)
           \/ CreateStaging(t) /\ ~Exists(seq)
    PROVE  GateCounts'
  <1>0. task \in [Tasks -> TaskType]
    BY DEF IInv, Typed, TaskType
  <1>1. gate' = gate /\ \A u \in Tasks \ {t} : task'[u] = task[u]
    BY <1>0 DEF RemoveStaging, ResolveCommit, CloneCheckout, ReadEvidence, Cancel, Begin, CreateStaging
  <1>2. task'[t].phase \in {"idle", "gate", "done"} <=> task[t].phase \in {"idle", "gate", "done"}
    <2>1. CASE RemoveStaging(t) \/ ResolveCommit(t) \/ CloneCheckout(t) \/ ReadEvidence(t)
      BY <1>0, <2>1 DEF RemoveStaging, ResolveCommit, CloneCheckout, ReadEvidence, In, TaskType
    <2>2. CASE CreateStaging(t) /\ ~Exists(seq)
      BY <1>0, <2>2 DEF CreateStaging, In, TaskType
    <2>3. CASE Cancel(t)
      BY <1>0, <2>3 DEF Cancel, TaskType
    <2>4. ASSUME NEW r \in Repos, Begin(t, r)
          PROVE  task'[t].phase = "gate" /\ task[t].phase = "idle"
      BY <1>0, <2>4, Beginnings DEF Begin, In, TaskType
    <2> QED
      BY <2>1, <2>2, <2>3, <2>4
  <1> QED
    BY <1>1, <1>2, CountKept

LEMMA CountStep == IInv /\ GateCounts /\ [Next]_vars => GateCounts'
  <1> SUFFICES ASSUME IInv, GateCounts, [Next]_vars PROVE GateCounts'
    OBVIOUS
  <1>1. ASSUME task' = task, gate'.active = gate.active PROVE GateCounts'
    BY <1>1 DEF GateCounts, Inside
  <1>2. ASSUME NEW t \in Tasks,
               \/ StopHere(t) \/ FailHere(t) \/ Finish(t) \/ Abort(t) \/ RemovalFails(t)
               \/ CreateStaging(t) /\ Exists(seq)
        PROVE  GateCounts'
    <2>1. PICK ok \in BOOLEAN : Ended(t, ok)
      <3>1. CASE Finish(t)
        <4>1. PICK ok \in BOOLEAN : ok = (task[t].ok /\ Undisturbed(t))
          OBVIOUS
        <4> QED
          BY <3>1, <4>1 DEF Finish
      <3>2. CASE ~Finish(t)
        BY <1>2, <3>2 DEF StopHere, FailHere, Stopped, Abort, RemovalFails, CreateStaging
      <3> QED
        BY <3>1, <3>2
    <2>2. task[t].phase \notin {"idle", "done"}
      BY <1>2 DEF StopHere, FailHere, Stopped, EmptyHanded, Finish, Abort, RemovalFails,
                  CreateStaging, In
    <2> QED
      BY <2>1, <2>2, CountEnded
  <1>3. ASSUME NEW t \in Tasks, Work(t) PROVE GateCounts'
    BY <1>2, <1>3, CountEntered, CountMoved, CountChanged DEF Work
  <1>4. ASSUME NEW t \in Tasks, Trouble(t) PROVE GateCounts'
    <2>1. CASE Disturb(t)
      BY <1>1, <2>1 DEF Disturb
    <2> QED
      BY <1>2, <1>4, <2>1, CountMoved, CountChanged DEF Trouble
  <1>5. ASSUME NEW t \in Tasks, NEW r \in Repos, Begin(t, r) PROVE GateCounts'
    BY <1>5, CountChanged
  <1>6. ASSUME NEW r \in Repos, Push(r) PROVE GateCounts'
    BY <1>1, <1>6 DEF Push
  <1>7. CASE BeginCleanup \/ EndCleanup
    BY <1>1, <1>7 DEF BeginCleanup, EndCleanup, IInv, Typed
  <1>8. ASSUME NEW n \in Names, VisitStaging(n) \/ VisitCheckout(n) \/ VisitFails(n)
        PROVE  GateCounts'
    BY <1>1, <1>8 DEF VisitStaging, VisitCheckout, VisitFails, IInv, Typed
  <1>9. CASE Crash
    <2>1. Inside' = {} /\ gate'.active = 0
      BY <1>9, Beginnings DEF Crash, Inside
    <2> QED
      BY <2>1, FS_EmptySet DEF GateCounts
  <1>10. CASE UNCHANGED vars
    BY <1>1, <1>10 DEF vars
  <1> QED
    BY <1>3, <1>4, <1>5, <1>6, <1>7, <1>8, <1>9, <1>10 DEF Next, Cleanup

LEMMA Invariance == Spec => [](IInv /\ GateCounts)
  <1>1. Init => GateCounts
    <2> SUFFICES ASSUME Init PROVE GateCounts
      OBVIOUS
    <2>1. Inside = {} /\ gate.active = 0
      BY Beginnings DEF Init, Inside
    <2> QED
      BY <2>1, FS_EmptySet DEF GateCounts
  <1> QED
    BY <1>1, InvInit, InvStep, CountStep, PTL DEF Spec

\* Type correctness of the inspector: every variable keeps its type, no name beyond
\* the last one is handed out, and the gate's anonymous counter is at every moment
\* the number of inspections that hold a permit.
THEOREM TypeCorrect == Spec => []TypeOK
  <1>1. IInv /\ GateCounts => TypeOK
    BY DEF IInv, Typed, TypeOK
  <1> QED
    BY <1>1, Invariance, PTL

\* finish and ensure_cache: however tasks, pushes, failures, disturbances and
\* deaths of the daemon interleave, an inspection that succeeds read its evidence
\* from the commit it reports, which was the remote's head since it began.
THEOREM EvidenceIsExact == Spec => []ResultIsExact
  <1>1. IInv => ResultIsExact
    BY DEF IInv, ResultIsExact, Sound, EvidenceIsTrue, Recent
  <1> QED
    BY <1>1, Invariance, PTL

\* CleanupGate, allocate_workspace, CleanupReport: nobody takes away a directory
\* in use, and no directory stays behind without a report.
THEOREM DirectoriesStayAccountedFor == Spec => []DirectoriesAreAccountedFor
  <1>1. IInv => DirectoriesAreAccountedFor
    BY DEF IInv, DirectoriesAreAccountedFor, InUseIsKept, Sound, OwnsItsDirectory
  <1> QED
    BY <1>1, Invariance, PTL

\* ensure_cache: an installed mirror is complete, and nobody updates or reads it
\* before it was sanitized.
THEOREM MirrorsStaySound == Spec => []MirrorIsSound
  <1>1. IInv => MirrorIsSound
    BY DEF IInv, MirrorIsSound, MirrorsAreWhole, Sound, MirrorIsClean
  <1> QED
    BY <1>1, Invariance, PTL
=============================================================================
