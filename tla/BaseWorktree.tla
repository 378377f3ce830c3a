----------------------------- MODULE BaseWorktree -----------------------------
(***************************************************************************)
(* The base-snapshot worktrees of `fallow audit' and `fallow security':     *)
(* crates/cli/src/base_worktree.rs.                                         *)
(*                                                                         *)
(* Several fallow processes run against one repository.  Each sweeps the    *)
(* reusable caches (one per base SHA, shared through the temp directory),   *)
(* sweeps the temporary worktrees of dead processes, and then checks out    *)
(* its base commit: in the reusable cache of that SHA if it gets the cache's *)
(* file lock, else in a temporary worktree of its own.  The lock is dropped *)
(* before the analysis reads the worktree.                                  *)
(*                                                                         *)
(* A process may be killed at any step: the kernel then drops its lock, and *)
(* no cleanup guard runs.  A git child may outlive it: a checkout that goes  *)
(* on, or a removal that strikes an entry which by then is someone else's.  *)
(* A directory that is being deleted is there until the deletion is over.   *)
(***************************************************************************)
EXTENDS Integers, FiniteSets

CONSTANTS
    Audits,      \* process slots; a slot runs one fallow process at a time
    Shas,        \* base commits, each with its reusable cache path
    MaxAge,      \* cacheMaxAgeDays in clock units; 0 disables the age branch
    GitMayFail,  \* TRUE: any git subprocess may fail
    Confirms,    \* <<a, b>>: a's `kill -0' finds b's process alive if it is
    MaxClock,    \* bound: clock
    MaxCrashes,  \* bound: processes killed
    MaxReaps,    \* bound: cache directories deleted by an external reaper
    MaxRecycles  \* bound: PIDs of dead processes given to other processes

ASSUME BaseWorktreeAssumption ==
    /\ MaxAge \in Nat
    /\ GitMayFail \in BOOLEAN
    /\ Confirms \subseteq Audits \X Audits
    /\ MaxClock \in Nat
    /\ MaxCrashes \in Nat
    /\ MaxReaps \in Nat
    /\ MaxRecycles \in Nat

NoStamp == -1       \* no `.last-used' sidecar
Unlocked == "none"  \* nobody holds the `.lock' file

ASSUME UnlockedIsNoAudit == Unlocked \notin Audits

VARIABLES
    pc,        \* where each process is
    sha,       \* the entry it works on: the swept one, then its own base SHA
    todo,      \* the sweep's list of reusable entries still to visit
    now,       \* the time the sweep read once
    removed,   \* the sweep reclaimed something, so it will prune
    dir,       \* each cache directory: absent, partly or completely checked out
    reg,       \* SHAs whose cache path is registered with git
    stamp,     \* mtime of each `.last-used' sidecar, or NoStamp
    lock,      \* holder of each `.lock' file
    temps,     \* temporary worktrees: <<slot, "live" or "dead" owner>>
    recycled,  \* slots whose dead process's PID now belongs to someone else
    strays,    \* git removals that outlived their process, by what is left to remove
    struck,    \* history: processes whose locked entry a stray removal has hit
    failed,    \* history: entries whose sidecar could not be written, or whose
               \* directory could not be removed
    clock, crashes, reaps, recycles

audit == <<pc, sha, todo, now, removed>>
store == <<dir, reg, stamp, lock>>
world == <<recycled, clock, crashes, reaps, recycles>>
marks == <<strays, struck, failed>>

vars == <<audit, store, temps, world, marks>>

Sweeping == {"list", "sweep", "age", "lockOrphan", "lockAged"}

\* Stages with a `git worktree remove' of sha[a] under way, if it was started.
GitRemoving == {"dropOrphan", "heldAged", "rebuild", "undo"}

\* Stages that hold the lock of the entry sha[a].
Holding == {"heldOrphan", "rmAged", "check", "rmStale", "adding", "checkout", "rmUndo",
            "touch", "release"} \cup GitRemoving

PCs == {"off", "orphans", "reuse", "using", "temp", "addingTemp", "usingTemp"}
           \cup Sweeping \cup Holding

\* What a stray removal has still to take: the files and then git's entry.
Parts == {"files", "entry"}

TypeOK ==
    /\ pc \in [Audits -> PCs]
    /\ sha \in [Audits -> Shas]
    /\ todo \in [Audits -> SUBSET Shas]
    /\ now \in [Audits -> Nat]
    /\ removed \in [Audits -> BOOLEAN]
    /\ dir \in [Shas -> {"absent", "partial", "complete"}]
    /\ reg \in SUBSET Shas
    /\ stamp \in [Shas -> Nat \cup {NoStamp}]
    /\ lock \in [Shas -> Audits \cup {Unlocked}]
    /\ temps \subseteq Audits \X {"live", "dead"}
    /\ recycled \subseteq Audits
    /\ strays \in [Shas \X Parts -> Nat]
    /\ struck \subseteq Audits
    /\ failed \subseteq Shas
    /\ clock \in Nat
    /\ crashes \in Nat
    /\ reaps \in Nat
    /\ recycles \in Nat

\* No process runs.  A cache may be missing, or complete and registered, with a
\* stamp from an earlier run or, before the upgrade that added stamps, none.
Init ==
    /\ pc = [a \in Audits |-> "off"]
    /\ sha \in {[a \in Audits |-> s] : s \in Shas}
    /\ todo = [a \in Audits |-> {}]
    /\ now = [a \in Audits |-> 0]
    /\ removed = [a \in Audits |-> FALSE]
    /\ reg \in SUBSET Shas
    /\ dir = [s \in Shas |-> IF s \in reg THEN "complete" ELSE "absent"]
    /\ \E stamped \in SUBSET reg :
          stamp = [s \in Shas |-> IF s \in stamped THEN 0 ELSE NoStamp]
    /\ lock = [s \in Shas |-> Unlocked]
    /\ temps = {}
    /\ recycled = {}
    /\ strays = [x \in Shas \X Parts |-> 0]
    /\ struck = {}
    /\ failed = {}
    /\ clock = 0
    /\ crashes = 0
    /\ reaps = 0
    /\ recycles = 0

GitOutcome == IF GitMayFail THEN BOOLEAN ELSE {TRUE}

Goto(a, l) == pc' = [pc EXCEPT ![a] = l]

Exists(s) == dir[s] # "absent"

\* `git worktree prune --expire=now': entries whose directory is gone.
Prune(r, d) == {s \in r : d[s] # "absent"}

-----------------------------------------------------------------------------
(* The sweep of the reusable caches. *)

\* execute_audit begins with the sweep; security goes straight to create.
Start(a) ==
    /\ pc[a] = "off"
    /\ \/ Goto(a, "list")
       \/ Goto(a, "orphans")
    /\ removed' = [removed EXCEPT ![a] = FALSE]
    /\ UNCHANGED <<sha, todo, now, store, temps, world, marks>>

\* list_audit_worktrees, then `now' is read once for every entry.
ListCaches(a) ==
    /\ pc[a] = "list"
    /\ \E ok \in GitOutcome :
          /\ todo' = [todo EXCEPT ![a] = IF ok THEN reg ELSE {}]
          /\ Goto(a, IF ok THEN "sweep" ELSE "orphans")
    /\ now' = [now EXCEPT ![a] = clock]
    /\ UNCHANGED <<sha, removed, store, temps, world, marks>>

\* Mutant of VisitCache: the age threshold is looked at before existence.
VisitCacheAgeFirst(a) ==
    /\ pc[a] = "sweep"
    /\ \E s \in todo[a] :
          /\ todo' = [todo EXCEPT ![a] = @ \ {s}]
          /\ sha' = [sha EXCEPT ![a] = s]
          /\ Goto(a, IF MaxAge = 0 THEN "sweep" ELSE IF Exists(s) THEN "age" ELSE "lockOrphan")
    /\ UNCHANGED <<now, removed, store, temps, world, marks>>

\* reclaim_reusable_cache_entry: the existence check, before any lock.
VisitCache(a) ==
    /\ pc[a] = "sweep"
    /\ \E s \in todo[a] :
          /\ todo' = [todo EXCEPT ![a] = @ \ {s}]
          /\ sha' = [sha EXCEPT ![a] = s]
          /\ Goto(a, CASE ~Exists(s) -> "lockOrphan"
                      [] Exists(s) /\ MaxAge = 0 -> "sweep"
                      [] Exists(s) /\ MaxAge > 0 -> "age")
    /\ UNCHANGED <<now, removed, store, temps, world, marks>>

\* touch_last_used: a failure is logged and ignored.
TouchSidecar(s) ==
    \/ stamp' = [stamp EXCEPT ![s] = clock] /\ failed' = failed \ {s}
    \/ UNCHANGED stamp /\ failed' = failed \cup {s}

\* Mutant of ReadStamp: an entry without a sidecar counts as aged.
ReadStampNoGrace(a) ==
    LET s == sha[a] IN
    /\ pc[a] = "age"
    /\ UNCHANGED <<stamp, failed>>
    /\ Goto(a, IF stamp[s] = NoStamp \/ now[a] - stamp[s] >= MaxAge THEN "lockAged" ELSE "sweep")
    /\ UNCHANGED <<sha, todo, now, removed, dir, reg, lock, temps, world, strays, struck>>

\* reclaim_aged_cache_entry up to the lock: a missing sidecar is seeded, a stamp
\* in the future or younger than MaxAge spares the entry.
ReadStamp(a) ==
    LET s == sha[a] IN
    /\ pc[a] = "age"
    /\ IF stamp[s] = NoStamp
       THEN TouchSidecar(s) /\ Goto(a, "sweep")
       ELSE /\ UNCHANGED <<stamp, failed>>
            /\ Goto(a, IF now[a] - stamp[s] >= MaxAge THEN "lockAged" ELSE "sweep")
    /\ UNCHANGED <<sha, todo, now, removed, dir, reg, lock, temps, world, strays, struck>>

\* ReusableWorktreeLock::try_acquire: never blocks.
TryLock(a, held, contended) ==
    IF lock[sha[a]] = Unlocked
    THEN lock' = [lock EXCEPT ![sha[a]] = a] /\ Goto(a, held)
    ELSE UNCHANGED lock /\ Goto(a, contended)

LockOrphan(a) ==
    /\ pc[a] = "lockOrphan"
    /\ TryLock(a, "heldOrphan", "sweep")
    /\ UNCHANGED <<sha, todo, now, removed, dir, reg, stamp, temps, world, marks>>

\* Mutant of LockAged: the sweep goes on without the lock.
LockAgedIgnored(a) ==
    /\ pc[a] = "lockAged"
    /\ Goto(a, "heldAged")
    /\ UNCHANGED <<sha, todo, now, removed, store, temps, world, marks>>

LockAged(a) ==
    /\ pc[a] = "lockAged"
    /\ TryLock(a, "heldAged", "sweep")
    /\ UNCHANGED <<sha, todo, now, removed, dir, reg, stamp, temps, world, marks>>

Unlock(a) == lock' = [lock EXCEPT ![sha[a]] = Unlocked] /\ struck' = struck \ {a}

\* remove_audit_worktree: git deletes the directory and drops its entry.  It knows
\* nothing of a path that is not registered, and it may fail at either.
GitRemoves(s) ==
    \/ s \in reg
       /\ dir' = [dir EXCEPT ![s] = "absent"]
       /\ reg' = reg \ {s}
    \/ s \in reg /\ GitMayFail
       /\ dir' \in {dir, [dir EXCEPT ![s] = "absent"]}
       /\ reg' \in {reg, reg \ {s}}
    \/ s \notin reg /\ UNCHANGED <<dir, reg>>

\* std::fs::remove_dir_all, whose failure is at most logged.
RemoveDir(s) ==
    \/ dir' = [dir EXCEPT ![s] = "absent"] /\ UNCHANGED failed
    \/ Exists(s) /\ UNCHANGED dir /\ failed' = failed \cup {s}

\* std::fs::remove_file on the sidecar: a failure is ignored.
RemoveSidecar(s) == stamp' \in {stamp, [stamp EXCEPT ![s] = NoStamp]}

\* Mutant of RecheckOrphan: no second look at the directory.
RecheckOrphanSkipped(a) ==
    /\ pc[a] = "heldOrphan"
    /\ Goto(a, "dropOrphan")
    /\ UNCHANGED <<sha, todo, now, removed, store, temps, world, marks>>

\* reclaim_orphan_cache_entry under the lock: existence is checked again.
RecheckOrphan(a) ==
    /\ pc[a] = "heldOrphan"
    /\ IF Exists(sha[a])
       THEN Unlock(a) /\ Goto(a, "sweep")
       ELSE UNCHANGED <<lock, struck>> /\ Goto(a, "dropOrphan")
    /\ UNCHANGED <<sha, todo, now, removed, dir, reg, stamp, temps, world, strays, failed>>

ReclaimOrphan(a) ==
    /\ pc[a] = "dropOrphan"
    /\ GitRemoves(sha[a])
    /\ RemoveSidecar(sha[a])
    /\ removed' = [removed EXCEPT ![a] = TRUE]
    /\ Unlock(a)
    /\ Goto(a, "sweep")
    /\ UNCHANGED <<sha, todo, now, temps, world, strays, failed>>

\* reclaim_aged_cache_entry under the lock: git removes without another look ...
GitRemoveAged(a) ==
    /\ pc[a] = "heldAged"
    /\ GitRemoves(sha[a])
    /\ Goto(a, "rmAged")
    /\ UNCHANGED <<sha, todo, now, removed, stamp, lock, temps, world, marks>>

\* ... then the directory goes, and the sidecar even if the directory stays.
ReclaimAged(a) ==
    /\ pc[a] = "rmAged"
    /\ RemoveDir(sha[a])
    /\ RemoveSidecar(sha[a])
    /\ removed' = [removed EXCEPT ![a] = @ \/ dir'[sha[a]] = "absent"]
    /\ Unlock(a)
    /\ Goto(a, "sweep")
    /\ UNCHANGED <<sha, todo, now, reg, temps, world, strays>>

\* The list is exhausted: prune if something was reclaimed.  An audit with no
\* changed files, or with a cached snapshot, needs no worktree and ends here.
EndSweep(a) ==
    /\ pc[a] = "sweep"
    /\ todo[a] = {}
    /\ \E ok \in GitOutcome : reg' = IF removed[a] /\ ok THEN Prune(reg, dir) ELSE reg
    /\ \/ Goto(a, "orphans")
       \/ Goto(a, "off")
    /\ UNCHANGED <<sha, todo, now, removed, dir, stamp, lock, temps, world, marks>>

-----------------------------------------------------------------------------
(* BaseWorktree::create. *)

\* process_is_alive on the PID in the path's name, as a looks: the answers `kill -0'
\* can give.  It says dead of a live process that a may not signal, and when it
\* cannot be run.
OwnerAlive(a, t) ==
    IF t[2] = "live" THEN IF <<a, t[1]>> \in Confirms THEN {TRUE} ELSE BOOLEAN
                     ELSE {t[1] \in recycled}

\* Mutant of SweepOrphans: worktrees of live processes are removed as well.
SweepOrphansAll(a) ==
    /\ pc[a] = "orphans"
    /\ temps' = {}
    /\ reg' = Prune(reg, dir)
    /\ \E s \in Shas : sha' = [sha EXCEPT ![a] = s]
    /\ Goto(a, "reuse") \/ Goto(a, "temp")
    /\ UNCHANGED <<todo, now, removed, dir, stamp, lock, world, marks>>

\* Mutant of SweepOrphans: no temporary worktree is ever an orphan.
SweepOrphansNone(a) ==
    /\ pc[a] = "orphans"
    /\ \E s \in Shas : sha' = [sha EXCEPT ![a] = s]
    /\ Goto(a, "reuse") \/ Goto(a, "temp")
    /\ UNCHANGED <<todo, now, removed, store, temps, world, marks>>

\* The worktrees that the sweep takes for orphans.
Orphans(a) ==
    {dead \in SUBSET temps : \A t \in temps : (t \notin dead) \in OwnerAlive(a, t)}

\* sweep_orphan_audit_worktrees, then create takes its base SHA, if it has one.  A
\* worktree that git fails to remove stays listed.
SweepOrphans(a) ==
    /\ pc[a] = "orphans"
    /\ \E listed, pruned \in GitOutcome :
          \E dead \in IF listed THEN Orphans(a) ELSE {{}} :
              /\ temps' \in {temps \ gone : gone \in IF GitMayFail THEN SUBSET dead ELSE {dead}}
              /\ reg' = IF dead # {} /\ pruned THEN Prune(reg, dir) ELSE reg
    /\ \E s \in Shas : sha' = [sha EXCEPT ![a] = s]
    /\ \/ Goto(a, "reuse")
       \/ Goto(a, "temp")
    /\ UNCHANGED <<todo, now, removed, dir, stamp, lock, world, marks>>

\* reuse_or_create: contention falls back to a temporary worktree.
LockReuse(a) ==
    /\ pc[a] = "reuse"
    /\ TryLock(a, "check", "temp")
    /\ UNCHANGED <<sha, todo, now, removed, dir, reg, stamp, temps, world, marks>>

\* reusable_audit_worktree_is_ready: the directory exists, git lists it, and its
\* HEAD is the SHA, which `git worktree add' sets before it checks files out.
IsReady(s) == Exists(s) /\ s \in reg

CheckReady(a) ==
    /\ pc[a] = "check"
    /\ \E ok \in GitOutcome : Goto(a, IF ok /\ IsReady(sha[a]) THEN "touch" ELSE "rebuild")
    /\ UNCHANGED <<sha, todo, now, removed, store, temps, world, marks>>

\* Not ready: what is there is removed, first by git ...
GitRemoveStale(a) ==
    /\ pc[a] = "rebuild"
    /\ GitRemoves(sha[a])
    /\ Goto(a, "rmStale")
    /\ UNCHANGED <<sha, todo, now, removed, stamp, lock, temps, world, marks>>

\* ... and then the directory.
RemoveStale(a) ==
    /\ pc[a] = "rmStale"
    /\ RemoveDir(sha[a])
    /\ Goto(a, "adding")
    /\ UNCHANGED <<sha, todo, now, removed, reg, stamp, lock, temps, world, strays, struck>>

\* `git worktree add' takes a new path, registers it and writes HEAD; then it
\* checks out.
BeginAdd(a) ==
    LET s == sha[a] IN
    /\ pc[a] = "adding"
    /\ ~Exists(s) /\ s \notin reg
    /\ dir' = [dir EXCEPT ![s] = "partial"]
    /\ reg' = reg \cup {s}
    /\ Goto(a, "checkout")
    /\ UNCHANGED <<sha, todo, now, removed, stamp, lock, temps, world, marks>>

\* It succeeded, perhaps before a stray removal struck: the guard is defused.
AddDone(a) ==
    /\ pc[a] = "checkout"
    /\ dir[sha[a]] = "complete" \/ a \in struck
    /\ Goto(a, "touch")
    /\ UNCHANGED <<sha, todo, now, removed, store, temps, world, marks>>

\* It failed, as it does when something is left at the path or strikes it.
AddFailed(a) ==
    LET s == sha[a] IN
    /\ \/ pc[a] = "adding" /\ (GitMayFail \/ Exists(s) \/ s \in reg)
       \/ pc[a] = "checkout" /\ (GitMayFail \/ a \in struck)
    /\ Goto(a, "undo")
    /\ UNCHANGED <<sha, todo, now, removed, store, temps, world, marks>>

\* WorktreeCleanupGuard removes both, the lock is released and create falls back.
GitUndo(a) ==
    /\ pc[a] = "undo"
    /\ GitRemoves(sha[a])
    /\ Goto(a, "rmUndo")
    /\ UNCHANGED <<sha, todo, now, removed, stamp, lock, temps, world, marks>>

UndoAdd(a) ==
    /\ pc[a] = "rmUndo"
    /\ RemoveDir(sha[a])
    /\ Unlock(a)
    /\ Goto(a, "temp")
    /\ UNCHANGED <<sha, todo, now, removed, reg, stamp, temps, world, strays>>

\* materialize_base_dependency_context (symlinks only) and touch_last_used.
TouchLastUsed(a) ==
    /\ pc[a] = "touch"
    /\ TouchSidecar(sha[a])
    /\ Goto(a, "release")
    /\ UNCHANGED <<sha, todo, now, removed, dir, reg, lock, temps, world, strays, struck>>

\* reuse_or_create returns: the lock goes, the worktree is used without it.
ReleaseLock(a) ==
    /\ pc[a] = "release"
    /\ Unlock(a)
    /\ Goto(a, "using")
    /\ UNCHANGED <<sha, todo, now, removed, dir, reg, stamp, temps, world, strays, failed>>

\* The fallback: a temporary worktree named after the PID and the time.
AddTemp(a) ==
    /\ pc[a] = "temp"
    /\ temps' = temps \cup {<<a, "live">>}
    /\ Goto(a, "addingTemp")
    /\ UNCHANGED <<sha, todo, now, removed, store, world, marks>>

\* The process is done with its temporary worktree, which git removes or leaves
\* behind: nobody will use it any more.
LeaveTemp(a, removedIt) ==
    temps' = (temps \ {<<a, "live">>})
                \cup (IF <<a, "live">> \in temps /\ ~removedIt THEN {<<a, "dead">>} ELSE {})

\* git succeeded, or failed and the guard removes what it had made.
AddTempEnds(a) ==
    /\ pc[a] = "addingTemp"
    /\ \/ Goto(a, "usingTemp") /\ UNCHANGED temps
       \/ GitMayFail /\ Goto(a, "off") /\ \E ok \in BOOLEAN : LeaveTemp(a, ok)
    /\ UNCHANGED <<sha, todo, now, removed, store, world, marks>>

\* The snapshot is computed: a persistent worktree stays, a temporary one goes.
Finish(a) ==
    /\ pc[a] \in {"using", "usingTemp"}
    /\ \E ok \in GitOutcome : LeaveTemp(a, ok)
    /\ Goto(a, "off")
    /\ UNCHANGED <<sha, todo, now, removed, store, world, marks>>

-----------------------------------------------------------------------------
(* The environment (external). *)

\* A killed process: its lock falls, its temporary worktree is left behind, and a
\* removal it has started may live on.
Crash(a) ==
    /\ pc[a] # "off"
    /\ crashes < MaxCrashes
    /\ crashes' = crashes + 1
    /\ IF pc[a] \in Holding THEN Unlock(a) ELSE UNCHANGED <<lock, struck>>
    /\ LeaveTemp(a, FALSE)
    /\ \/ UNCHANGED strays
       \/ pc[a] \in GitRemoving /\ strays' = [strays EXCEPT ![<<sha[a], "files">>] = @ + 1]
    /\ Goto(a, "off")
    /\ UNCHANGED <<sha, todo, now, removed, dir, reg, stamp, recycled, clock, reaps, recycles,
                   failed>>

\* A stray removal hits whoever holds the entry by now.
Strike(s) == struck' = struck \cup {a \in Audits : pc[a] \in Holding /\ sha[a] = s}

StrayRemovesFiles(s) ==
    /\ strays[<<s, "files">>] > 0
    /\ strays' = [strays EXCEPT ![<<s, "files">>] = @ - 1, ![<<s, "entry">>] = @ + 1]
    /\ dir' = [dir EXCEPT ![s] = "absent"]
    /\ Strike(s)
    /\ UNCHANGED <<audit, reg, stamp, lock, temps, world, failed>>

StrayRemovesEntry(s) ==
    /\ strays[<<s, "entry">>] > 0
    /\ strays' = [strays EXCEPT ![<<s, "entry">>] = @ - 1]
    /\ reg' = reg \ {s}
    /\ Strike(s)
    /\ UNCHANGED <<audit, dir, stamp, lock, temps, world, failed>>

\* git's checkout completes, whether or not its parent still lives.
GitChecksOut(s) ==
    /\ dir[s] = "partial"
    /\ dir' = [dir EXCEPT ![s] = "complete"]
    /\ UNCHANGED <<audit, reg, stamp, lock, temps, world, marks>>

\* A temp-directory reaper deletes an idle cache but not git's entry.
ReapCache(s) ==
    /\ reaps < MaxReaps
    /\ Exists(s)
    /\ \A a \in Audits : sha[a] = s => pc[a] \notin (Holding \cup {"using"})
    /\ reaps' = reaps + 1
    /\ dir' = [dir EXCEPT ![s] = "absent"]
    /\ UNCHANGED <<audit, reg, stamp, lock, temps, recycled, clock, crashes, recycles, marks>>

\* The PID of a dead owner is given to another process ...
RecyclePid(a) ==
    /\ <<a, "dead">> \in temps
    /\ a \notin recycled
    /\ recycles < MaxRecycles
    /\ recycles' = recycles + 1
    /\ recycled' = recycled \cup {a}
    /\ UNCHANGED <<audit, store, temps, clock, crashes, reaps, marks>>

\* ... which ends in its turn.
FreePid(a) ==
    /\ a \in recycled
    /\ recycled' = recycled \ {a}
    /\ UNCHANGED <<audit, store, temps, clock, crashes, reaps, recycles, marks>>

Tick ==
    /\ clock < MaxClock
    /\ clock' = clock + 1
    /\ UNCHANGED <<audit, store, temps, recycled, crashes, reaps, recycles, marks>>

-----------------------------------------------------------------------------

SweepStep(a) ==
    \/ ListCaches(a) \/ VisitCache(a) \/ ReadStamp(a) \/ LockOrphan(a) \/ LockAged(a)
    \/ RecheckOrphan(a) \/ ReclaimOrphan(a) \/ GitRemoveAged(a) \/ ReclaimAged(a)
    \/ EndSweep(a)

CreateStep(a) ==
    \/ SweepOrphans(a) \/ LockReuse(a) \/ CheckReady(a) \/ GitRemoveStale(a) \/ RemoveStale(a)
    \/ BeginAdd(a) \/ AddDone(a) \/ AddFailed(a) \/ GitUndo(a) \/ UndoAdd(a)
    \/ TouchLastUsed(a) \/ ReleaseLock(a) \/ AddTemp(a) \/ AddTempEnds(a) \/ Finish(a)

Next ==
    \/ \E a \in Audits : \/ Start(a) \/ SweepStep(a) \/ CreateStep(a) \/ Crash(a)
                         \/ RecyclePid(a) \/ FreePid(a)
    \/ \E s \in Shas : \/ GitChecksOut(s) \/ ReapCache(s)
                       \/ StrayRemovesFiles(s) \/ StrayRemovesEntry(s)
    \/ Tick

Spec == Init /\ [][Next]_vars

\* Audits, which sweep, keep being run and keep needing a base worktree; processes
\* and git get scheduled, and a process that took over a PID ends some time.
FairSpec ==
    /\ Spec
    /\ \A a \in Audits : /\ SF_vars(Start(a) /\ pc'[a] = "list")
                         /\ WF_vars(SweepStep(a))
                         /\ SF_vars(EndSweep(a) /\ pc'[a] = "orphans")
                         /\ WF_vars(CreateStep(a))
                         /\ WF_vars(FreePid(a))
    /\ \A s \in Shas : WF_vars(GitChecksOut(s))

-----------------------------------------------------------------------------
(* Properties. *)

\* "An in-flight fallow audit mid-rebuild against the same cache entry will not be
\* disturbed": from the readiness check or the end of `git worktree add' until
\* the lock is released, the entry exists and is registered, whatever the sweeps,
\* rebuilds, prunes, crashes and failures of other processes do.  Only a removal by
\* git that a killed process had started, and that outlived it, can strike it: the
\* lock falls with the process and not with its git child.
HeldEntryIntact ==
    \A a \in Audits : pc[a] \in {"touch", "release"} /\ a \notin struck => IsReady(sha[a])

\* No sweep takes the temporary worktree of a process that creates or uses it, if
\* every process finds that one alive: crashes, recycled PIDs and failing git
\* included.  (kill -0 says dead of the process of another user, and when it cannot
\* be run: what such a sweep takes is left out.)
LiveTempKept ==
    \A a \in Audits :
        (\A b \in Audits : <<b, a>> \in Confirms) /\ pc[a] \in {"addingTemp", "usingTemp"}
            => <<a, "live">> \in temps

\* "Pre-upgrade caches lacking a sidecar are NOT removed": until a process is killed,
\* whatever the aged branch removes has a sidecar, also when other processes
\* remove and rebuild the entry between its reading of the stamp and its lock.  Left
\* out is an entry whose sidecar could not be written or whose directory could not
\* be removed: the code goes on after either.
UnstampedSpared ==
    crashes = 0 =>
        \A a \in Audits :
            pc[a] = "heldAged" /\ Exists(sha[a]) /\ sha[a] \notin failed
                => stamp[sha[a]] # NoStamp

\* ReusableWorktreeLock: acquirers "observe a freshly-prepared cache after the
\* holder releases": the analysis reads a registered, completely checked out cache,
\* also when sweeps prune and the temp reaper deletes in between. A process killed
\* during `git worktree add` leaves a partial checkout that passes for ready, hence
\* the first conjunct.
CachePrepared ==
    crashes = 0 =>
        \A a \in Audits :
            pc[a] = "using" => sha[a] \in reg /\ dir[sha[a]] = "complete"

\* The worktree a killed process left behind is removed by a later run.
DeadTempsReclaimed ==
    \A a \in Audits : (<<a, "dead">> \in temps) ~> (<<a, "dead">> \notin temps)

\* A registered cache whose directory was reaped is unregistered or rebuilt, also
\* with the age branch disabled.
ReapedCachesReclaimed ==
    \A s \in Shas : (s \in reg /\ ~Exists(s)) ~> (s \in reg => Exists(s))

=============================================================================
