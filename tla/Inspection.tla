----------------------------- MODULE Inspection -----------------------------
(***************************************************************************)
(* RepositoryInspector: the reusable mirror of every repository, the       *)
(* disposable checkout of every inspection, the cleanup of what earlier    *)
(* processes left, and the gate and locks between them.                    *)
(*                                                                         *)
(* Inspections run on the scheduler's workers, so several are under way at *)
(* once, and each git command, each change of a directory and each         *)
(* acquisition of a lock is a step of its own.  A git command may fail, be *)
(* killed by its timeout or by the cancellation, and leave its directory   *)
(* half done; a removal may fail half way; somebody else may touch a       *)
(* checkout while it is read; and the daemon may die at any moment, which  *)
(* leaves the disk as it is and starts the counter of directory names      *)
(* again, in the worst case under the same process id.                     *)
(*                                                                         *)
(* A directory is its number: session, task and repository, which the code *)
(* also writes into the name, are left out.  A commit is the number of the *)
(* remote's head when it was made.                                         *)
(***************************************************************************)
EXTENDS Naturals, FiniteSets

CONSTANTS
    Tasks,       \* inspections, each run by a worker
    Repos,       \* repository ids
    MaxCommits,  \* bound: commits of a remote
    MaxNames,    \* bound: numbers of directories
    MaxCleanups, \* bound: cleanups of one process
    MaxFaults,   \* bound: git or file system failures and disturbed checkouts
    MaxCrashes   \* bound: deaths of the daemon

ASSUME InspectionAssumption ==
    /\ IsFiniteSet(Tasks) /\ IsFiniteSet(Repos)
    /\ Repos # {} /\ "no task" \notin Tasks
    /\ {MaxNames, MaxFaults, MaxCrashes} \subseteq Nat
    /\ {MaxCommits, MaxCleanups} \subseteq Nat \ {0}

VARIABLES
    remote,   \* [Repos -> head of the remote repository]
    cache,    \* [Repos -> source.git of the repository's namespace]
    disk,     \* [Names -> staging directory or disposable checkout]
    task,     \* [Tasks -> inspection]
    lock,     \* [Repos -> holder of the repository's mutex]
    gate,     \* CleanupGate, and the directories the running cleanup has still to visit
    seq,      \* WORKSPACE_SEQUENCE
    faults,   \* failures so far
    crashes   \* deaths so far

vars == <<remote, cache, disk, task, lock, gate, seq, faults, crashes>>
-----------------------------------------------------------------------------
Names == 1..MaxNames
Commits == 0..MaxCommits
NoTask == "no task"
Kinds == {"none", "staging", "checkout"}
Phases == {"idle", "gate", "lock", "cache", "update", "clone", "install", "unstage", "sanitize",
           "resolve", "checkout", "mark", "detach", "read", "finish", "abort", "done"}
\* Phases that hold the repository's mutex: _guard lives until prepare returns.
LockedPhases == {"cache", "update", "clone", "install", "unstage", "sanitize", "resolve",
                 "checkout", "mark", "detach"}

NoCache == [present |-> FALSE, whole |-> FALSE, head |-> 0, sanitized |-> FALSE]
NoDir == [kind |-> "none", owner |-> NoTask, whole |-> FALSE, head |-> 0,
          marked |-> FALSE, intact |-> TRUE, reported |-> FALSE]
Idle == [phase |-> "idle", repo |-> CHOOSE r \in Repos : TRUE, began |-> 0, sha |-> 0,
         read |-> 0, dir |-> 0, cancelled |-> FALSE, ok |-> FALSE]

Exists(n) == disk[n].kind # "none"
Stale == {n \in Names : Exists(n)}

\* A process begins with a cleanup of what it finds.
Init ==
    /\ remote = [r \in Repos |-> 1]
    /\ cache = [r \in Repos |-> NoCache]
    /\ disk = [n \in Names |-> NoDir]
    /\ task = [t \in Tasks |-> Idle]
    /\ lock = [r \in Repos |-> NoTask]
    /\ gate = [active |-> 0, cleaning |-> TRUE, todo |-> {}, runs |-> 1]
    /\ seq = 1
    /\ faults = 0
    /\ crashes = 0

Fault == faults < MaxFaults /\ faults' = faults + 1
In(t, phase) == task[t].phase = phase
Goes(t, phase) == task' = [task EXCEPT ![t].phase = phase]
Cancelled(t) == task[t].cancelled
Mine(t) == disk[task[t].dir]

\* OperationLease::drop: one operation less, saturating.
Less(active) == IF active = 0 THEN 0 ELSE active - 1

\* An inspection that is refused at the gate has no permit to give back.
Leave(t) == gate' = IF In(t, "gate") THEN gate ELSE [gate EXCEPT !.active = Less(@)]

EndedHolding(t, ok) ==  \* mutant: the mutex is not given back
    /\ task' = [task EXCEPT ![t].phase = "done", ![t].ok = ok, ![t].dir = 0]
    /\ Leave(t)
    /\ UNCHANGED lock
EndedUnentered(t, ok) ==  \* mutant: one that was refused at the gate leaves it as well
    /\ task' = [task EXCEPT ![t].phase = "done", ![t].ok = ok, ![t].dir = 0]
    /\ gate' = [gate EXCEPT !.active = Less(@)]
    /\ lock' = [r \in Repos |-> IF lock[r] = t THEN NoTask ELSE lock[r]]

\* The inspection returns, and with it go its permit and its mutex.
Ended(t, ok) ==
    /\ task' = [task EXCEPT ![t].phase = "done", ![t].ok = ok, ![t].dir = 0]
    /\ Leave(t)
    /\ lock' = [r \in Repos |-> IF lock[r] = t THEN NoTask ELSE lock[r]]
-----------------------------------------------------------------------------
(* Entering: authorization, the gate, the repository's mutex.              *)

\* prepare_authorized_with_cancellation
Begin(t, r) ==
    /\ In(t, "idle")
    /\ task' = [task EXCEPT ![t] = [Idle EXCEPT !.phase = "gate", !.repo = r, !.began = remote[r]]]
    /\ UNCHANGED <<remote, cache, disk, lock, gate, seq, faults, crashes>>

\* The flag that the session's RuntimeControl shares with its inspections.
Cancel(t) ==
    /\ task[t].phase \notin {"idle", "done"}
    /\ ~Cancelled(t)
    /\ task' = [task EXCEPT ![t].cancelled = TRUE]
    /\ UNCHANGED <<remote, cache, disk, lock, gate, seq, faults, crashes>>

\* Phases whose error has nothing to clean up.
EmptyHanded == {"gate", "lock", "cache", "update", "sanitize", "resolve", "checkout"}

\* The error is returned; a mirror that was being updated may have received the
\* new commits.
Stopped(t) ==
    LET r == task[t].repo IN
    /\ task[t].phase \in EmptyHanded
    /\ Ended(t, FALSE)
    /\ \/ UNCHANGED cache
       \/ In(t, "update") /\ cache' = [cache EXCEPT ![r].head = remote[r]]
    /\ UNCHANGED <<remote, disk, seq, crashes>>

\* ensure_not_cancelled, and the git command that is killed for the cancellation.
StopHere(t) == Cancelled(t) /\ Stopped(t) /\ UNCHANGED faults

\* A git command or a check fails.
FailHere(t) == Fault /\ Stopped(t)

\* enter_operation_with_cancellation
EnterOperation(t) ==
    /\ In(t, "gate") /\ ~Cancelled(t)
    /\ ~gate.cleaning
    /\ gate' = [gate EXCEPT !.active = @ + 1]
    /\ Goes(t, "lock")
    /\ UNCHANGED <<remote, cache, disk, lock, seq, faults, crashes>>

\* lock_for, lock_repository
LockRepository(t) ==
    LET r == task[t].repo IN
    /\ In(t, "lock") /\ ~Cancelled(t)
    /\ lock[r] = NoTask
    /\ lock' = [lock EXCEPT ![r] = t]
    /\ Goes(t, "cache")
    /\ UNCHANGED <<remote, cache, disk, gate, seq, faults, crashes>>
-----------------------------------------------------------------------------
(* ensure_cache.                                                           *)

ReuseAsIs(t) ==  \* mutant: an installed mirror is taken to be sanitized
    LET r == task[t].repo IN
    /\ In(t, "cache") /\ ~Cancelled(t)
    /\ cache[r].present
    /\ Goes(t, "update")
    /\ UNCHANGED <<remote, cache, disk, lock, gate, seq, faults, crashes>>

\* The mirror is there: its configuration is sanitized and its origin compared.
ReuseCache(t) ==
    LET r == task[t].repo IN
    /\ In(t, "cache") /\ ~Cancelled(t)
    /\ cache[r].present
    /\ cache' = [cache EXCEPT ![r].sanitized = TRUE]
    /\ Goes(t, "update")
    /\ UNCHANGED <<remote, disk, lock, gate, seq, faults, crashes>>

\* git remote update --prune
UpdateCache(t) ==
    LET r == task[t].repo IN
    /\ In(t, "update") /\ ~Cancelled(t)
    /\ cache' = [cache EXCEPT ![r].head = remote[r]]
    /\ Goes(t, "resolve")
    /\ UNCHANGED <<remote, disk, lock, gate, seq, faults, crashes>>

\* create_owned_cache_staging_path; a name that is taken is an error.
CreateStaging(t) ==
    LET r == task[t].repo IN
    /\ In(t, "cache") /\ ~Cancelled(t)
    /\ ~cache[r].present
    /\ seq \in Names
    /\ seq' = seq + 1
    /\ IF Exists(seq)
       THEN Ended(t, FALSE) /\ UNCHANGED disk
       ELSE /\ disk' = [disk EXCEPT ![seq] = [NoDir EXCEPT !.kind = "staging", !.owner = t]]
            /\ task' = [task EXCEPT ![t].phase = "clone", ![t].dir = seq]
            /\ UNCHANGED <<lock, gate>>
    /\ UNCHANGED <<remote, cache, faults, crashes>>

\* git clone --mirror into the staging directory
CloneMirror(t) ==
    LET r == task[t].repo IN
    /\ In(t, "clone") /\ ~Cancelled(t)
    /\ disk' = [disk EXCEPT ![task[t].dir].whole = TRUE, ![task[t].dir].head = remote[r]]
    /\ Goes(t, "install")
    /\ UNCHANGED <<remote, cache, lock, gate, seq, faults, crashes>>

\* The rename of staging/source.git to source.git, which must not exist.
InstallCache(t) ==
    LET r == task[t].repo IN
    /\ In(t, "install") /\ ~Cancelled(t)
    /\ ~cache[r].present
    /\ cache' = [cache EXCEPT ![r] = [present |-> TRUE, whole |-> Mine(t).whole,
                                      head |-> Mine(t).head, sanitized |-> FALSE]]
    /\ disk' = [disk EXCEPT ![task[t].dir].whole = FALSE, ![task[t].dir].head = 0]
    /\ Goes(t, "unstage")
    /\ UNCHANGED <<remote, lock, gate, seq, faults, crashes>>

\* remove_owned_cache_staging_path, by way of a quarantine name that a cleanup
\* recognises as well.
RemoveStaging(t) ==
    /\ In(t, "unstage")
    /\ disk' = [disk EXCEPT ![task[t].dir] = NoDir]
    /\ task' = [task EXCEPT ![t].phase = "sanitize", ![t].dir = 0]
    /\ UNCHANGED <<remote, cache, lock, gate, seq, faults, crashes>>

\* sanitize_local_git_config of the mirror that was just installed.
SanitizeCache(t) ==
    LET r == task[t].repo IN
    /\ In(t, "sanitize") /\ ~Cancelled(t)
    /\ cache' = [cache EXCEPT ![r].sanitized = TRUE]
    /\ Goes(t, "resolve")
    /\ UNCHANGED <<remote, disk, lock, gate, seq, faults, crashes>>
-----------------------------------------------------------------------------
(* The checkout: resolve_commit, allocate_workspace, create_checkout.      *)

ResolveCommit(t) ==
    /\ In(t, "resolve") /\ ~Cancelled(t)
    /\ task' = [task EXCEPT ![t].phase = "checkout", ![t].sha = cache[task[t].repo].head]
    /\ UNCHANGED <<remote, cache, disk, lock, gate, seq, faults, crashes>>

\* allocate_workspace passes over the names that exist.
FreeName(n) == n >= seq /\ ~Exists(n) /\ \A m \in seq..n - 1 : Exists(m)

\* git clone --no-checkout creates the directory; its ownership marker comes later.
CloneCheckout(t) ==
    /\ In(t, "checkout") /\ ~Cancelled(t)
    /\ \E n \in Names :
          /\ FreeName(n)
          /\ seq' = n + 1
          /\ disk' = [disk EXCEPT ![n] = [NoDir EXCEPT !.kind = "checkout", !.owner = t]]
          /\ task' = [task EXCEPT ![t].phase = "mark", ![t].dir = n]
    /\ UNCHANGED <<remote, cache, lock, gate, faults, crashes>>

\* write_workspace_identity, capture_workspace_identity
MarkCheckout(t) ==
    /\ In(t, "mark") /\ ~Cancelled(t)
    /\ disk' = [disk EXCEPT ![task[t].dir].marked = TRUE]
    /\ Goes(t, "detach")
    /\ UNCHANGED <<remote, cache, lock, gate, seq, faults, crashes>>

\* git checkout --detach of the resolved commit, verified; prepare returns and
\* the mutex is free.
DetachCheckout(t) ==
    /\ In(t, "detach") /\ ~Cancelled(t)
    /\ disk' = [disk EXCEPT ![task[t].dir].head = task[t].sha]
    /\ lock' = [lock EXCEPT ![task[t].repo] = NoTask]
    /\ Goes(t, "read")
    /\ UNCHANGED <<remote, cache, gate, seq, faults, crashes>>

\* The callback collects the evidence (extract_repository_evidence).
ReadEvidence(t) ==
    /\ In(t, "read") /\ ~Cancelled(t)
    /\ task' = [task EXCEPT ![t].phase = "finish", ![t].ok = TRUE,
                            ![t].read = IF Mine(t).intact THEN Mine(t).head ELSE 0]
    /\ UNCHANGED <<remote, cache, disk, lock, gate, seq, faults, crashes>>

\* The cancellation is seen before or after the callback.
ReadCancelled(t) ==
    /\ In(t, "read") /\ Cancelled(t)
    /\ Goes(t, "finish")
    /\ UNCHANGED <<remote, cache, disk, lock, gate, seq, faults, crashes>>

\* The callback returns an error or panics.
ReadFails(t) ==
    /\ In(t, "read") /\ Fault
    /\ Goes(t, "finish")
    /\ UNCHANGED <<remote, cache, disk, lock, gate, seq, crashes>>

\* Somebody changes the checkout: its files, or its revision.  Nobody changes it
\* back: the last look of finish cannot see a change that was undone before it.
Disturb(t) ==
    /\ task[t].phase \in {"read", "finish"}
    /\ Fault
    /\ \/ disk' = [disk EXCEPT ![task[t].dir].intact = FALSE]
       \/ disk' = [disk EXCEPT ![task[t].dir].head = 0]
    /\ UNCHANGED <<remote, cache, task, lock, gate, seq, crashes>>

FinishAnyway(t) ==  \* mutant: revision and dirty tree are not recorded
    /\ In(t, "finish")
    /\ disk' = [disk EXCEPT ![task[t].dir] = NoDir]
    /\ Ended(t, task[t].ok)
    /\ UNCHANGED <<remote, cache, seq, faults, crashes>>

\* record_revision_failure, record_dirty_failure: the checkout is at its commit and clean.
Undisturbed(t) == Mine(t).intact /\ Mine(t).head = task[t].sha

\* finish: the last look at the checkout, and the removal.
Finish(t) ==
    /\ In(t, "finish")
    /\ disk' = [disk EXCEPT ![task[t].dir] = NoDir]
    /\ Ended(t, task[t].ok /\ Undisturbed(t))
    /\ UNCHANGED <<remote, cache, seq, faults, crashes>>
-----------------------------------------------------------------------------
(* Failure.                                                                *)

\* A step that has a directory to remove finds the cancellation, or fails.
AbortCancelled(t) ==
    /\ task[t].phase \in {"clone", "install", "mark", "detach"}
    /\ Cancelled(t)
    /\ Goes(t, "abort")
    /\ UNCHANGED <<remote, cache, disk, lock, gate, seq, faults, crashes>>

AbortFailed(t) ==
    /\ task[t].phase \in {"clone", "install", "unstage", "mark", "detach"}
    /\ Fault
    /\ Goes(t, "abort")
    /\ UNCHANGED <<remote, cache, disk, lock, gate, seq, crashes>>

\* Removal needs the directory's identity: a checkout has none until it is marked.
Removable(d) == d.kind = "staging" \/ d.marked

\* cleanup_abandoned_cache_staging_path, cleanup_workspace_after_error: a checkout
\* whose ownership was not established stays, and the error says so.
Abort(t) ==
    /\ In(t, "abort")
    /\ disk' = [disk EXCEPT ![task[t].dir] =
                  IF Removable(Mine(t)) THEN NoDir ELSE [@ EXCEPT !.reported = TRUE]]
    /\ Ended(t, FALSE)
    /\ UNCHANGED <<remote, cache, seq, faults, crashes>>

\* A removal fails, perhaps when the marker is already gone; the error carries it.
RemovalFails(t) ==
    /\ task[t].phase \in {"unstage", "finish", "abort"}
    /\ Fault
    /\ \E m \in {Mine(t).marked, FALSE} :
          disk' = [disk EXCEPT ![task[t].dir].reported = TRUE, ![task[t].dir].marked = m]
    /\ Ended(t, FALSE)
    /\ UNCHANGED <<remote, cache, seq, crashes>>

Push(r) ==
    /\ remote[r] < MaxCommits
    /\ remote' = [remote EXCEPT ![r] = @ + 1]
    /\ UNCHANGED <<cache, disk, task, lock, gate, seq, faults, crashes>>
-----------------------------------------------------------------------------
(* startup_cleanup.                                                        *)

BeginCleanupAnytime ==  \* mutant: active operations are not asked for
    /\ ~gate.cleaning
    /\ gate.runs < MaxCleanups
    /\ gate' = [gate EXCEPT !.cleaning = TRUE, !.todo = Stale, !.runs = @ + 1]
    /\ UNCHANGED <<remote, cache, disk, task, lock, seq, faults, crashes>>

\* begin_cleanup refuses while an inspection holds its permit.
BeginCleanup ==
    /\ ~gate.cleaning
    /\ gate.active = 0
    /\ gate.runs < MaxCleanups
    /\ gate' = [gate EXCEPT !.cleaning = TRUE, !.todo = Stale, !.runs = @ + 1]
    /\ UNCHANGED <<remote, cache, disk, task, lock, seq, faults, crashes>>

\* visit_cache_namespace: a staging directory, or the quarantine of one, carries
\* its identity in its name.
VisitStaging(n) ==
    /\ gate.cleaning /\ n \in gate.todo /\ disk[n].kind = "staging"
    /\ gate' = [gate EXCEPT !.todo = @ \ {n}]
    /\ disk' = [disk EXCEPT ![n] = NoDir]
    /\ UNCHANGED <<remote, cache, task, lock, seq, faults, crashes>>

\* visit_workspace_root: a checkout with its marker is removed, one without is
\* reported.
VisitCheckout(n) ==
    /\ gate.cleaning /\ n \in gate.todo /\ disk[n].kind = "checkout"
    /\ gate' = [gate EXCEPT !.todo = @ \ {n}]
    /\ disk' = [disk EXCEPT ![n] = IF Removable(@) THEN NoDir ELSE [@ EXCEPT !.reported = TRUE]]
    /\ UNCHANGED <<remote, cache, task, lock, seq, faults, crashes>>

VisitFails(n) ==
    /\ gate.cleaning /\ n \in gate.todo
    /\ Fault
    /\ gate' = [gate EXCEPT !.todo = @ \ {n}]
    /\ disk' = [disk EXCEPT ![n].reported = TRUE]
    /\ UNCHANGED <<remote, cache, task, lock, seq, crashes>>

EndCleanup ==
    /\ gate.cleaning /\ gate.todo = {}
    /\ gate' = [gate EXCEPT !.cleaning = FALSE]
    /\ UNCHANGED <<remote, cache, disk, task, lock, seq, faults, crashes>>

\* The daemon dies; the next process starts with the cleanup (main, start).
Crash ==
    /\ crashes < MaxCrashes
    /\ crashes' = crashes + 1
    /\ disk' = [n \in Names |-> [disk[n] EXCEPT !.owner = NoTask, !.reported = FALSE]]
    /\ task' = [t \in Tasks |-> Idle]
    /\ lock' = [r \in Repos |-> NoTask]
    /\ gate' = [active |-> 0, cleaning |-> TRUE, todo |-> Stale, runs |-> 1]
    /\ seq' = 1
    /\ UNCHANGED <<remote, cache, faults>>
-----------------------------------------------------------------------------
Work(t) ==
    \/ StopHere(t) \/ EnterOperation(t) \/ LockRepository(t)
    \/ ReuseCache(t) \/ UpdateCache(t) \/ CreateStaging(t) \/ CloneMirror(t)
    \/ InstallCache(t) \/ RemoveStaging(t) \/ SanitizeCache(t)
    \/ ResolveCommit(t) \/ CloneCheckout(t) \/ MarkCheckout(t) \/ DetachCheckout(t)
    \/ ReadEvidence(t) \/ ReadCancelled(t) \/ Finish(t)
    \/ AbortCancelled(t) \/ Abort(t)

Trouble(t) ==
    \/ FailHere(t) \/ ReadFails(t) \/ AbortFailed(t) \/ RemovalFails(t)
    \/ Disturb(t) \/ Cancel(t)

Cleanup == EndCleanup \/ \E n \in Names : VisitStaging(n) \/ VisitCheckout(n)

Next ==
    \/ \E t \in Tasks : Work(t) \/ Trouble(t) \/ \E r \in Repos : Begin(t, r)
    \/ \E r \in Repos : Push(r)
    \/ BeginCleanup \/ Cleanup
    \/ \E n \in Names : VisitFails(n)
    \/ Crash

Spec == Init /\ [][Next]_vars

\* Every worker goes on: its git commands end, by their timeout if need be, and
\* its waits poll.  A cleanup ends.  Nobody has to cancel, push, fail or crash.
FairSpec == Spec /\ (\A t \in Tasks : WF_vars(Work(t))) /\ WF_vars(Cleanup)
-----------------------------------------------------------------------------
\* The gate's counter is the number of the inspections that hold a permit.
Inside == {t \in Tasks : task[t].phase \notin {"idle", "gate", "done"}}
GateCounts == gate.active = Cardinality(Inside)

\* Every variable keeps its type, and the anonymous counter of CleanupGate is right:
\* however inspections are refused, fail, are cancelled or end, each of them is
\* counted once while it is inside.
TypeOK ==
    /\ remote \in [Repos -> 1..MaxCommits]
    /\ cache \in [Repos -> [present : BOOLEAN, whole : BOOLEAN, head : Commits, sanitized : BOOLEAN]]
    /\ disk \in [Names -> [kind : Kinds, owner : Tasks \cup {NoTask}, whole : BOOLEAN, head : Commits,
                           marked : BOOLEAN, intact : BOOLEAN, reported : BOOLEAN]]
    /\ task \in [Tasks -> [phase : Phases, repo : Repos, began : Commits, sha : Commits,
                           read : Commits, dir : 0..MaxNames, cancelled : BOOLEAN, ok : BOOLEAN]]
    /\ lock \in [Repos -> Tasks \cup {NoTask}]
    /\ gate \in [active : Nat, cleaning : BOOLEAN, todo : SUBSET Names, runs : 1..MaxCleanups]
    /\ GateCounts
    /\ seq \in 1..MaxNames + 1 /\ faults \in 0..MaxFaults /\ crashes \in 0..MaxCrashes

\* A successful inspection says what it claims (finish, ensure_cache): the evidence
\* was read from the reported commit, and that commit was the remote's head at
\* some moment since the inspection began, never one of an older mirror.
ResultIsExact ==
    \A t \in Tasks :
       task[t].phase = "done" /\ task[t].ok =>
          /\ task[t].read = task[t].sha
          /\ task[t].sha \in task[t].began..remote[task[t].repo]

\* Between its creation and its removal a directory is there, whole in its
\* identity, and its inspection's alone.
InUseIsKept ==
    \A t \in Tasks : task[t].dir # 0 =>
       /\ disk[task[t].dir].owner = t
       /\ disk[task[t].dir].kind = IF task[t].sha = 0 THEN "staging" ELSE "checkout"
       /\ task[t].phase \in {"detach", "read", "finish"} => disk[task[t].dir].marked

\* A directory on disk is in use, or waits for the running cleanup, or was
\* reported with the error or by the cleanup that left it.
LeftoversAreReported ==
    \A n \in Names : Exists(n) =>
       \/ \E t \in Tasks : task[t].dir = n
       \/ gate.cleaning /\ n \in gate.todo
       \/ disk[n].reported

\* Directories are accounted for: no cleanup, no other inspection and no name of
\* an earlier process takes one away that is in use (CleanupGate,
\* allocate_workspace), and nothing stays behind in silence
\* (InspectionError::cleanup_failure, CleanupReport::failures).
DirectoriesAreAccountedFor == InUseIsKept /\ LeftoversAreReported

\* A mirror can be relied on (ensure_cache): after any crash and any failed clone
\* source.git is complete whenever it is there, and no command updates or reads it
\* before its configuration, which came from elsewhere, was sanitized.
MirrorIsSound ==
    /\ \A r \in Repos : cache[r].present => cache[r].whole /\ cache[r].head # 0
    /\ \A t \in Tasks :
          task[t].phase \in {"update", "resolve", "checkout"} => cache[task[t].repo].sanitized

\* Whatever happens, an inspection that began ends: nobody waits for ever on the
\* gate or on a mutex (EnterOperation, LockRepository, Ended).  An inspection is
\* one task of a process and runs once in it: that a stream of new ones never
\* leaves the polled mutex to one that waits is outside this property.
InspectionsEnd == \A t \in Tasks : task[t].phase = "gate" ~> task[t].phase \in {"done", "idle"}
=============================================================================
