------------------------- MODULE BaseWorktreeProofs -------------------------
(***************************************************************************)
(* Proofs about BaseWorktree, for any number of processes and base commits, *)
(* any age threshold, failing git subprocesses and file operations, killed   *)
(* processes and removals that outlive them.                                 *)
(***************************************************************************)
EXTENDS BaseWorktree, TLAPS

\* Whoever is inside a locked section holds the lock of its entry.
LockInv == \A a \in Audits : pc[a] \in Holding => lock[sha[a]] = a

\* What `git worktree add' has begun to create is there and registered.
AddInv ==
    \A a \in Audits : pc[a] = "checkout" /\ a \notin struck => IsReady(sha[a])

IInv ==
    /\ TypeOK
    /\ LockInv
    /\ AddInv
    /\ HeldEntryIntact
    /\ LiveTempKept

-----------------------------------------------------------------------------

\* No two processes are in locked sections of one entry at a time.
LEMMA Exclusion ==
  ASSUME LockInv, NEW a \in Audits, NEW b \in Audits,
         pc[a] \in Holding, pc[b] \in Holding, sha[a] = sha[b]
  PROVE  a = b
BY DEF LockInv

\* The inductive invariant holds initially.
LEMMA InitIInv == Init => IInv
<1>. SUFFICES ASSUME Init PROVE IInv
  OBVIOUS
<1>1. TypeOK
  BY DEF Init, TypeOK, PCs, NoStamp
<1>2. \A a \in Audits : pc[a] = "off"
  BY DEF Init
<1>3. LockInv /\ AddInv /\ HeldEntryIntact /\ LiveTempKept
  BY <1>2 DEF LockInv, AddInv, HeldEntryIntact, LiveTempKept, Holding, GitRemoving
<1>. QED BY <1>1, <1>3 DEF IInv

\* What git removes ...
LEMMA GitRemovesType ==
  ASSUME TypeOK, NEW s \in Shas, GitRemoves(s)
  PROVE  /\ dir' \in [Shas -> {"absent", "partial", "complete"}]
         /\ reg' \in SUBSET Shas
BY DEF TypeOK, GitRemoves

\* ... and what fallow removes itself leaves the entries in their types.
LEMMA RemoveDirType ==
  ASSUME TypeOK, NEW s \in Shas, RemoveDir(s)
  PROVE  dir' \in [Shas -> {"absent", "partial", "complete"}] /\ failed' \subseteq Shas
BY DEF TypeOK, RemoveDir

\* The sidecar stays or goes.
LEMMA RemoveSidecarType ==
  ASSUME TypeOK, NEW s \in Shas, RemoveSidecar(s)
  PROVE  stamp' \in [Shas -> Nat \cup {NoStamp}]
BY DEF TypeOK, RemoveSidecar, NoStamp

\* A worktree that is left is nobody's.
LEMMA LeaveTempType ==
  ASSUME TypeOK, NEW a \in Audits, NEW ok, LeaveTemp(a, ok)
  PROVE  temps' \subseteq Audits \X {"live", "dead"}
BY DEF TypeOK, LeaveTemp

\* Every step keeps the variables in their types.
LEMMA TypeStep == TypeOK /\ [Next]_vars => TypeOK'
<1>. SUFFICES ASSUME TypeOK, [Next]_vars PROVE TypeOK'
  OBVIOUS
<1>. USE DEF TypeOK, PCs, Sweeping, Holding, GitRemoving, audit, store, world, marks, Goto
<1>1. ASSUME NEW a \in Audits, Start(a) PROVE TypeOK'
  BY <1>1 DEF Start
<1>2. ASSUME NEW a \in Audits, SweepStep(a) PROVE TypeOK'
  <2>1. CASE ListCaches(a)
    BY <2>1 DEF ListCaches
  <2>2. CASE VisitCache(a)
    BY <2>2, BaseWorktreeAssumption DEF VisitCache
  <2>3. CASE ReadStamp(a)
    BY <2>3 DEF ReadStamp, TouchSidecar
  <2>4. CASE LockOrphan(a) \/ LockAged(a)
    BY <2>4 DEF LockOrphan, LockAged, TryLock
  <2>5. CASE RecheckOrphan(a)
    BY <2>5 DEF RecheckOrphan, Unlock
  <2>6. CASE ReclaimOrphan(a)
    <3>1. dir' \in [Shas -> {"absent", "partial", "complete"}] /\ reg' \in SUBSET Shas
      BY <2>6, GitRemovesType DEF ReclaimOrphan
    <3>2. stamp' \in [Shas -> Nat \cup {NoStamp}]
      BY <2>6, RemoveSidecarType DEF ReclaimOrphan
    <3>. QED BY <2>6, <3>1, <3>2 DEF ReclaimOrphan, Unlock
  <2>7. CASE EndSweep(a)
    BY <2>7 DEF EndSweep, Prune
  <2>8. CASE GitRemoveAged(a)
    <3>1. dir' \in [Shas -> {"absent", "partial", "complete"}] /\ reg' \in SUBSET Shas
      BY <2>8, GitRemovesType DEF GitRemoveAged
    <3>. QED BY <2>8, <3>1 DEF GitRemoveAged
  <2>9. CASE ReclaimAged(a)
    <3>1. dir' \in [Shas -> {"absent", "partial", "complete"}] /\ failed' \subseteq Shas
      BY <2>9, RemoveDirType DEF ReclaimAged
    <3>2. stamp' \in [Shas -> Nat \cup {NoStamp}]
      BY <2>9, RemoveSidecarType DEF ReclaimAged
    <3>3. removed' \in [Audits -> BOOLEAN]
      BY <2>9 DEF ReclaimAged
    <3>. QED BY <2>9, <3>1, <3>2, <3>3 DEF ReclaimAged, Unlock
  <2>. QED BY <1>2, <2>1, <2>2, <2>3, <2>4, <2>5, <2>6, <2>7, <2>8, <2>9 DEF SweepStep
<1>3. ASSUME NEW a \in Audits, CreateStep(a) PROVE TypeOK'
  <2>1. CASE SweepOrphans(a)
    BY <2>1 DEF SweepOrphans, Prune
  <2>2. CASE LockReuse(a)
    BY <2>2 DEF LockReuse, TryLock
  <2>3. CASE CheckReady(a)
    BY <2>3 DEF CheckReady
  <2>4. CASE GitRemoveStale(a) \/ GitUndo(a)
    <3>1. dir' \in [Shas -> {"absent", "partial", "complete"}] /\ reg' \in SUBSET Shas
      BY <2>4, GitRemovesType DEF GitRemoveStale, GitUndo
    <3>. QED BY <2>4, <3>1 DEF GitRemoveStale, GitUndo
  <2>5. CASE BeginAdd(a) \/ AddDone(a) \/ AddFailed(a)
    <3>1. CASE BeginAdd(a)
      BY <3>1 DEF BeginAdd
    <3>2. CASE AddDone(a) \/ AddFailed(a)
      BY <3>2 DEF AddDone, AddFailed
    <3>. QED BY <2>5, <3>1, <3>2
  <2>6. CASE TouchLastUsed(a) \/ ReleaseLock(a)
    BY <2>6 DEF TouchLastUsed, TouchSidecar, ReleaseLock, Unlock
  <2>7. CASE AddTemp(a)
    BY <2>7 DEF AddTemp
  <2>8. CASE AddTempEnds(a) \/ Finish(a)
    <3>1. temps' \subseteq Audits \X {"live", "dead"}
      BY <2>8, LeaveTempType DEF AddTempEnds, Finish
    <3>. QED BY <2>8, <3>1 DEF AddTempEnds, Finish
  <2>9. CASE RemoveStale(a) \/ UndoAdd(a)
    <3>1. dir' \in [Shas -> {"absent", "partial", "complete"}] /\ failed' \subseteq Shas
      BY <2>9, RemoveDirType DEF RemoveStale, UndoAdd
    <3>. QED BY <2>9, <3>1 DEF RemoveStale, UndoAdd, Unlock
  <2>. QED BY <1>3, <2>1, <2>2, <2>3, <2>4, <2>5, <2>6, <2>7, <2>8, <2>9 DEF CreateStep
<1>4. ASSUME NEW a \in Audits, Crash(a) PROVE TypeOK'
  <2>1. temps' \subseteq Audits \X {"live", "dead"}
    BY <1>4, LeaveTempType DEF Crash
  <2>2. strays' \in [Shas \X Parts -> Nat]
    BY <1>4 DEF Crash, Parts
  <2>3. lock' \in [Shas -> Audits \cup {Unlocked}] /\ struck' \subseteq Audits
    BY <1>4 DEF Crash, Unlock
  <2>. QED BY <1>4, <2>1, <2>2, <2>3 DEF Crash
<1>5. ASSUME NEW a \in Audits, RecyclePid(a) \/ FreePid(a) PROVE TypeOK'
  BY <1>5 DEF RecyclePid, FreePid
<1>6. ASSUME NEW s \in Shas, GitChecksOut(s) \/ ReapCache(s) PROVE TypeOK'
  BY <1>6 DEF GitChecksOut, ReapCache
<1>8. ASSUME NEW s \in Shas, StrayRemovesFiles(s) \/ StrayRemovesEntry(s) PROVE TypeOK'
  <2>1. struck' \subseteq Audits
    BY <1>8 DEF StrayRemovesFiles, StrayRemovesEntry, Strike
  <2>2. strays' \in [Shas \X Parts -> Nat]
    <3>. <<s, "files">> \in Shas \X Parts /\ <<s, "entry">> \in Shas \X Parts
      BY DEF Parts
    <3>1. strays[<<s, "files">>] \in Nat /\ strays[<<s, "entry">>] \in Nat
      OBVIOUS
    <3>2. CASE StrayRemovesFiles(s)
      <4>1. strays[<<s, "files">>] - 1 \in Nat /\ strays[<<s, "entry">>] + 1 \in Nat
        BY <3>1, <3>2 DEF StrayRemovesFiles
      <4>. QED BY <3>2, <4>1 DEF StrayRemovesFiles
    <3>3. CASE StrayRemovesEntry(s)
      <4>1. strays[<<s, "entry">>] - 1 \in Nat
        BY <3>1, <3>3 DEF StrayRemovesEntry
      <4>. QED BY <3>3, <4>1 DEF StrayRemovesEntry
    <3>. QED BY <1>8, <3>2, <3>3
  <2>. QED BY <1>8, <2>1, <2>2 DEF StrayRemovesFiles, StrayRemovesEntry
<1>7. CASE Tick \/ UNCHANGED vars
  BY <1>7 DEF Tick, vars
<1>. QED BY <1>1, <1>2, <1>3, <1>4, <1>5, <1>6, <1>7, <1>8 DEF Next

\* What the invariant says beyond the types.
Core == LockInv /\ AddInv /\ HeldEntryIntact /\ LiveTempKept

\* Nothing is removed but what belongs to s.
OnlyChanges(s) ==
    \A t \in Shas : t # s => dir'[t] = dir[t] /\ (t \in reg' <=> t \in reg)

\* git and remove_dir_all remove what belongs to one entry.
LEMMA RemovalChanges ==
  ASSUME TypeOK, NEW s \in Shas,
         GitRemoves(s) \/ (RemoveDir(s) /\ UNCHANGED reg)
  PROVE  OnlyChanges(s)
BY DEF TypeOK, OnlyChanges, GitRemoves, RemoveDir

\* The sweep preserves it: it removes an entry only under the entry's lock, and
\* pruning spares every directory that exists.
LEMMA SweepKeepsCore ==
  ASSUME TypeOK, Core, NEW a \in Audits, SweepStep(a)
  PROVE  Core'
<1>. USE DEF TypeOK, Core, PCs, Sweeping, Holding, GitRemoving, audit, store, world, marks, Goto,
        LockInv, AddInv, HeldEntryIntact, LiveTempKept, Exists, IsReady
<1>1. CASE ListCaches(a)
  BY <1>1 DEF ListCaches
<1>2. CASE VisitCache(a)
  BY <1>2, BaseWorktreeAssumption DEF VisitCache
<1>3. CASE ReadStamp(a)
  BY <1>3 DEF ReadStamp, TouchSidecar
<1>4. CASE LockOrphan(a) \/ LockAged(a)
  <2>1. CASE LockOrphan(a)
    BY <2>1, UnlockedIsNoAudit DEF LockOrphan, TryLock
  <2>2. CASE LockAged(a)
    BY <2>2, UnlockedIsNoAudit DEF LockAged, TryLock
  <2>. QED BY <1>4, <2>1, <2>2
<1>5. CASE RecheckOrphan(a)
  BY <1>5 DEF RecheckOrphan, Unlock
<1>6. CASE ReclaimOrphan(a)
  <2>1. pc[a] \in Holding /\ OnlyChanges(sha[a])
    BY <1>6, RemovalChanges DEF ReclaimOrphan
  <2>. QED BY <1>6, <2>1 DEF ReclaimOrphan, Unlock, OnlyChanges
<1>7. CASE EndSweep(a)
  BY <1>7 DEF EndSweep, Prune
<1>8. CASE GitRemoveAged(a)
  <2>1. pc[a] \in Holding /\ OnlyChanges(sha[a])
    BY <1>8, RemovalChanges DEF GitRemoveAged
  <2>. QED BY <1>8, <2>1 DEF GitRemoveAged, OnlyChanges
<1>9. CASE ReclaimAged(a)
  <2>1. pc[a] \in Holding /\ OnlyChanges(sha[a])
    BY <1>9, RemovalChanges DEF ReclaimAged
  <2>. QED BY <1>9, <2>1 DEF ReclaimAged, Unlock, OnlyChanges
<1>. QED BY <1>1, <1>2, <1>3, <1>4, <1>5, <1>6, <1>7, <1>8, <1>9 DEF SweepStep

\* So does the creation of a worktree.
LEMMA CreateKeepsCore ==
  ASSUME TypeOK, Core, NEW a \in Audits, CreateStep(a)
  PROVE  Core'
<1>. USE DEF TypeOK, Core, PCs, Sweeping, Holding, GitRemoving, audit, store, world, marks, Goto,
        LockInv, AddInv, HeldEntryIntact, LiveTempKept, Exists, IsReady
<1>1. CASE SweepOrphans(a)
  <2>1. \A b \in Audits : (\A c \in Audits : <<c, b>> \in Confirms) /\ <<b, "live">> \in temps
                              => <<b, "live">> \in temps'
    <3>. SUFFICES ASSUME NEW b \in Audits, \A c \in Audits : <<c, b>> \in Confirms,
                         <<b, "live">> \in temps
                  PROVE  <<b, "live">> \in temps'
      OBVIOUS
    <3>1. PICK dead, gone : /\ dead \in Orphans(a) \/ dead = {}
                            /\ gone \subseteq dead
                            /\ temps' = temps \ gone
      <4>1. PICK listed, pruned \in GitOutcome :
                \E dead \in IF listed THEN Orphans(a) ELSE {{}} :
                    temps' \in {temps \ gone : gone \in IF GitMayFail THEN SUBSET dead
                                                                     ELSE {dead}}
        BY <1>1, Zenon DEF SweepOrphans
      <4>2. PICK dead \in IF listed THEN Orphans(a) ELSE {{}} :
                temps' \in {temps \ gone : gone \in IF GitMayFail THEN SUBSET dead ELSE {dead}}
        BY <4>1, Zenon
      <4>3. PICK gone \in IF GitMayFail THEN SUBSET dead ELSE {dead} : temps' = temps \ gone
        BY <4>2, Zenon
      <4>4. gone \subseteq dead
        BY <4>3
      <4>5. dead \in Orphans(a) \/ dead = {}
        BY <4>2
      <4>. QED BY <4>3, <4>4, <4>5
    <3>2. OwnerAlive(a, <<b, "live">>) = {TRUE}
      BY DEF OwnerAlive
    <3>3. <<b, "live">> \notin dead
      BY <3>1, <3>2 DEF Orphans
    <3>. QED BY <3>1, <3>3
  <2>2. LockInv' /\ AddInv' /\ HeldEntryIntact'
    BY <1>1 DEF SweepOrphans, Prune
  <2>. QED BY <1>1, <2>1, <2>2 DEF SweepOrphans
<1>2. CASE LockReuse(a)
  BY <1>2, UnlockedIsNoAudit DEF LockReuse, TryLock
<1>3. CASE CheckReady(a)
  BY <1>3 DEF CheckReady
<1>4. CASE GitRemoveStale(a) \/ GitUndo(a)
  <2>1. pc[a] \in Holding /\ OnlyChanges(sha[a])
    BY <1>4, RemovalChanges DEF GitRemoveStale, GitUndo
  <2>2. /\ pc[a] \in {"rebuild", "undo"} /\ pc' = [pc EXCEPT ![a] = pc'[a]]
        /\ pc'[a] \in {"rmStale", "rmUndo"}
        /\ UNCHANGED <<sha, lock, temps, struck>>
    BY <1>4 DEF GitRemoveStale, GitUndo
  <2>3. LockInv' /\ LiveTempKept'
    BY <2>2
  <2>4. ASSUME NEW b \in Audits, b # a, pc[b] \in {"checkout", "touch", "release"}
        PROVE  IsReady(sha[b])' <=> IsReady(sha[b])
    <3>1. sha[b] # sha[a]
      BY <2>1, <2>4, Exclusion
    <3>. QED BY <2>1, <2>2, <3>1 DEF OnlyChanges
  <2>5. AddInv' /\ HeldEntryIntact'
    BY <2>2, <2>4
  <2>. QED BY <2>3, <2>5
<1>5. CASE RemoveStale(a) \/ UndoAdd(a)
  <2>1. pc[a] \in Holding /\ OnlyChanges(sha[a])
    BY <1>5, RemovalChanges DEF RemoveStale, UndoAdd
  <2>. QED BY <1>5, <2>1 DEF RemoveStale, UndoAdd, Unlock, OnlyChanges
<1>6. CASE BeginAdd(a)
  <2>1. \A b \in Audits : b # a /\ pc[b] \in Holding => sha[b] # sha[a]
    BY <1>6, Exclusion DEF BeginAdd
  <2>. QED BY <1>6, <2>1 DEF BeginAdd
<1>11. CASE AddDone(a)
  <2>1. a \in struck \/ IsReady(sha[a])
    BY <1>11 DEF AddDone
  <2>. QED BY <1>11, <2>1 DEF AddDone
<1>12. CASE AddFailed(a)
  BY <1>12 DEF AddFailed
<1>7. CASE TouchLastUsed(a) \/ ReleaseLock(a)
  BY <1>7 DEF TouchLastUsed, TouchSidecar, ReleaseLock, Unlock
<1>8. CASE AddTemp(a)
  BY <1>8 DEF AddTemp
<1>9. CASE AddTempEnds(a)
  BY <1>9 DEF AddTempEnds, LeaveTemp
<1>10. CASE Finish(a)
  BY <1>10 DEF Finish, LeaveTemp
<1>. QED BY <1>1, <1>2, <1>3, <1>4, <1>5, <1>6, <1>7, <1>8, <1>9, <1>10, <1>11, <1>12
         DEF CreateStep

\* Every step preserves the inductive invariant.
LEMMA IInvStep == IInv /\ [Next]_vars => IInv'
<1>. SUFFICES ASSUME IInv, [Next]_vars PROVE IInv'
  OBVIOUS
<1>1. TypeOK /\ Core
  BY DEF IInv, Core
<1>2. TypeOK'
  BY <1>1, TypeStep
<1>3. Core'
  <2>1. ASSUME NEW a \in Audits, SweepStep(a) PROVE Core'
    BY <1>1, <2>1, SweepKeepsCore
  <2>2. ASSUME NEW a \in Audits, CreateStep(a) PROVE Core'
    BY <1>1, <2>2, CreateKeepsCore
  <2>. USE DEF TypeOK, Core, PCs, Sweeping, Holding, GitRemoving, audit, store, world, marks, Goto,
          LockInv, AddInv, HeldEntryIntact, LiveTempKept, Exists, IsReady
  <2>3. ASSUME NEW a \in Audits, Start(a) PROVE Core'
    BY <1>1, <2>3 DEF Start
  <2>4. ASSUME NEW a \in Audits, Crash(a) PROVE Core'
    <3>1. LockInv' /\ AddInv' /\ HeldEntryIntact'
      BY <1>1, <2>4 DEF Crash, Unlock
    <3>2. LiveTempKept'
      BY <1>1, <2>4 DEF Crash, LeaveTemp
    <3>. QED BY <3>1, <3>2
  <2>5. ASSUME NEW a \in Audits, RecyclePid(a) \/ FreePid(a) PROVE Core'
    BY <1>1, <2>5 DEF RecyclePid, FreePid
  <2>6. ASSUME NEW s \in Shas, GitChecksOut(s) \/ ReapCache(s) PROVE Core'
    BY <1>1, <2>6 DEF GitChecksOut, ReapCache
  <2>7. CASE Tick \/ UNCHANGED vars
    BY <1>1, <2>7 DEF Tick, vars
  <2>8. ASSUME NEW s \in Shas, StrayRemovesFiles(s) \/ StrayRemovesEntry(s) PROVE Core'
    BY <1>1, <2>8 DEF StrayRemovesFiles, StrayRemovesEntry, Strike
  <2>. QED BY <2>1, <2>2, <2>3, <2>4, <2>5, <2>6, <2>7, <2>8 DEF Next
<1>. QED BY <1>2, <1>3 DEF IInv, Core

\* Every operation of base_worktree.rs and every event of its environment keeps
\* the variables in their types.
THEOREM TypeCorrect == Spec => []TypeOK
<1>1. Init => TypeOK
  BY InitIInv DEF IInv
<1>. QED BY <1>1, TypeStep, PTL DEF Spec

\* A process in the locked part of reuse_or_create finds its entry intact until
\* it releases the lock: no sweep, rebuild, prune or crash elsewhere disturbs it, but
\* for a removal by git that outlived a killed process.
THEOREM HeldEntriesAreIntact == Spec => []HeldEntryIntact
<1>1. IInv => HeldEntryIntact
  BY DEF IInv
<1>. QED BY InitIInv, IInvStep, <1>1, PTL DEF Spec

\* A process that every other finds alive keeps its temporary worktree while it
\* creates or uses it, whatever sweep_orphan_audit_worktrees does elsewhere.
THEOREM LiveTempsAreKept == Spec => []LiveTempKept
<1>1. IInv => LiveTempKept
  BY DEF IInv
<1>. QED BY InitIInv, IInvStep, <1>1, PTL DEF Spec

-----------------------------------------------------------------------------
(* Until a process is killed the aged branch spares unstamped caches. *)

\* The sweep is about to unregister an entry without a directory.
OrphanInv == \A a \in Audits : pc[a] = "dropOrphan" => ~Exists(sha[a])

\* An entry whose stamp the aged branch has read can lose it only with its
\* directory; a directory without a stamp is then one that a locked rebuild,
\* which will stamp it or remove it before it unlocks, is creating.
StampInv ==
    crashes = 0 =>
        \A a \in Audits :
            /\ pc[a] \in {"lockAged", "heldAged"} /\ Exists(sha[a])
            /\ stamp[sha[a]] = NoStamp /\ sha[a] \notin failed
            => \E b \in Audits : /\ pc[b] \in {"checkout", "touch", "undo", "rmUndo"}
                                 /\ sha[b] = sha[a]

\* Nobody creates a directory under another's lock.
LEMMA OrphanStep == IInv /\ OrphanInv /\ [Next]_vars => OrphanInv'
<1>. SUFFICES ASSUME IInv, OrphanInv, [Next]_vars PROVE OrphanInv'
  OBVIOUS
<1>. USE DEF OrphanInv, Goto, Exists, audit, store, world
<1>1. TypeOK /\ LockInv
  BY DEF IInv
<1>2. pc \in [Audits -> PCs] /\ sha \in [Audits -> Shas]
      /\ dir \in [Shas -> {"absent", "partial", "complete"}]
  BY <1>1 DEF TypeOK
<1>3. ASSUME \A s \in Shas : dir[s] = "absent" => dir'[s] = "absent",
             \A a \in Audits : pc'[a] = "dropOrphan" => pc[a] = "dropOrphan" /\ sha'[a] = sha[a]
      PROVE  OrphanInv'
  BY <1>2, <1>3
<1>4. ASSUME NEW a \in Audits, SweepStep(a) PROVE OrphanInv'
  <2>1. CASE ListCaches(a) \/ EndSweep(a)
    BY <1>2, <2>1 DEF ListCaches, EndSweep
  <2>2. CASE VisitCache(a)
    BY <1>2, <2>2, BaseWorktreeAssumption DEF VisitCache
  <2>3. CASE ReadStamp(a)
    BY <1>2, <2>3 DEF ReadStamp
  <2>4. CASE LockOrphan(a) \/ LockAged(a)
    BY <1>2, <2>4 DEF LockOrphan, LockAged, TryLock
  <2>5. CASE RecheckOrphan(a)
    BY <1>2, <2>5 DEF RecheckOrphan
  <2>6. CASE ReclaimOrphan(a) \/ GitRemoveAged(a)
    BY <1>2, <2>6 DEF ReclaimOrphan, GitRemoveAged, GitRemoves
  <2>7. CASE ReclaimAged(a)
    BY <1>2, <2>7 DEF ReclaimAged, RemoveDir
  <2>. QED BY <1>4, <2>1, <2>2, <2>3, <2>4, <2>5, <2>6, <2>7 DEF SweepStep
<1>5. ASSUME NEW a \in Audits, CreateStep(a) PROVE OrphanInv'
  <2>1. CASE SweepOrphans(a) \/ CheckReady(a) \/ AddDone(a) \/ AddFailed(a)
    BY <1>2, <2>1 DEF SweepOrphans, CheckReady, AddDone, AddFailed
  <2>2. CASE LockReuse(a) \/ TouchLastUsed(a) \/ ReleaseLock(a)
    BY <1>2, <2>2 DEF LockReuse, TryLock, TouchLastUsed, ReleaseLock
  <2>3. CASE GitRemoveStale(a) \/ GitUndo(a)
    BY <1>2, <2>3 DEF GitRemoveStale, GitUndo, GitRemoves
  <2>4. CASE RemoveStale(a) \/ UndoAdd(a)
    BY <1>2, <2>4 DEF RemoveStale, UndoAdd, RemoveDir
  <2>5. CASE BeginAdd(a)
    <3>1. \A b \in Audits : pc[b] = "dropOrphan" => sha[b] # sha[a]
      BY <1>1, <2>5, Exclusion DEF BeginAdd, Holding, GitRemoving
    <3>. QED BY <1>2, <2>5, <3>1 DEF BeginAdd
  <2>6. CASE AddTemp(a) \/ AddTempEnds(a) \/ Finish(a)
    BY <1>2, <2>6 DEF AddTemp, AddTempEnds, Finish
  <2>. QED BY <1>5, <2>1, <2>2, <2>3, <2>4, <2>5, <2>6 DEF CreateStep
<1>6. ASSUME NEW a \in Audits, Start(a) \/ Crash(a) PROVE OrphanInv'
  BY <1>2, <1>6 DEF Start, Crash
<1>7. ASSUME NEW a \in Audits, RecyclePid(a) \/ FreePid(a) PROVE OrphanInv'
  BY <1>7 DEF RecyclePid, FreePid
<1>8. ASSUME NEW s \in Shas, GitChecksOut(s) \/ ReapCache(s) PROVE OrphanInv'
  BY <1>2, <1>8 DEF GitChecksOut, ReapCache
<1>9. ASSUME NEW s \in Shas, StrayRemovesFiles(s) \/ StrayRemovesEntry(s) PROVE OrphanInv'
  BY <1>2, <1>9 DEF StrayRemovesFiles, StrayRemovesEntry
<1>10. CASE Tick \/ UNCHANGED vars
  BY <1>10 DEF Tick, vars
<1>. QED BY <1>4, <1>5, <1>6, <1>7, <1>8, <1>9, <1>10 DEF Next

\* Every step preserves StampInv.
LEMMA StampStep ==
  ASSUME IInv, OrphanInv, StampInv, [Next]_vars
  PROVE  StampInv'
<1>. USE DEF Goto, Exists, audit, store, world, marks
<1>1. TypeOK /\ LockInv
  BY DEF IInv
<1>2. ASSUME NEW a \in Audits, SweepStep(a) PROVE StampInv'
  <2>1. CASE ListCaches(a)
    BY <1>1, <2>1 DEF ListCaches, TypeOK, StampInv
  <2>2. CASE VisitCache(a)
    BY <1>1, <2>2, BaseWorktreeAssumption DEF VisitCache, TypeOK, StampInv
  <2>3. CASE ReadStamp(a)
    BY <1>1, <2>3 DEF ReadStamp, TouchSidecar, TypeOK, StampInv, NoStamp
  <2>4. CASE LockOrphan(a)
    BY <1>1, <2>4 DEF LockOrphan, TryLock, TypeOK, StampInv
  <2>5. CASE LockAged(a)
    BY <1>1, <2>5 DEF LockAged, TryLock, TypeOK, StampInv
  <2>6. CASE RecheckOrphan(a)
    BY <1>1, <2>6 DEF RecheckOrphan, TypeOK, StampInv
  <2>7. CASE ReclaimOrphan(a)
    BY <1>1, <2>7 DEF ReclaimOrphan, OrphanInv, GitRemoves, RemoveSidecar, TypeOK, StampInv
  <2>8. CASE GitRemoveAged(a)
    BY <1>1, <2>8 DEF GitRemoveAged, GitRemoves, TypeOK, StampInv
  <2>9. CASE ReclaimAged(a)
    BY <1>1, <2>9 DEF ReclaimAged, RemoveDir, RemoveSidecar, TypeOK, StampInv
  <2>10. CASE EndSweep(a)
    BY <1>1, <2>10 DEF EndSweep, TypeOK, StampInv
  <2>. QED BY <1>2, <2>1, <2>2, <2>3, <2>4, <2>5, <2>6, <2>7, <2>8, <2>9, <2>10 DEF SweepStep
<1>3. ASSUME NEW a \in Audits, CreateStep(a) PROVE StampInv'
  <2>1. CASE SweepOrphans(a)
    BY <1>1, <2>1 DEF SweepOrphans, TypeOK, StampInv
  <2>2. CASE LockReuse(a)
    BY <1>1, <2>2 DEF LockReuse, TryLock, TypeOK, StampInv
  <2>3. CASE CheckReady(a)
    BY <1>1, <2>3 DEF CheckReady, TypeOK, StampInv
  <2>4. CASE GitRemoveStale(a)
    BY <1>1, <2>4 DEF GitRemoveStale, GitRemoves, TypeOK, StampInv
  <2>5. CASE RemoveStale(a)
    BY <1>1, <2>5 DEF RemoveStale, RemoveDir, TypeOK, StampInv
  <2>6. CASE BeginAdd(a)
    BY <1>1, <2>6 DEF BeginAdd, TypeOK, StampInv
  <2>7. CASE AddDone(a)
    BY <1>1, <2>7 DEF AddDone, TypeOK, StampInv
  <2>8. CASE TouchLastUsed(a)
    BY <1>1, <2>8 DEF TouchLastUsed, TouchSidecar, TypeOK, StampInv, NoStamp
  <2>9. CASE ReleaseLock(a)
    BY <1>1, <2>9 DEF ReleaseLock, TypeOK, StampInv
  <2>10. CASE AddTemp(a) \/ AddTempEnds(a) \/ Finish(a)
    BY <1>1, <2>10 DEF AddTemp, AddTempEnds, Finish, TypeOK, StampInv
  <2>11. CASE AddFailed(a)
    BY <1>1, <2>11 DEF AddFailed, TypeOK, StampInv
  <2>12. CASE GitUndo(a)
    BY <1>1, <2>12 DEF GitUndo, GitRemoves, TypeOK, StampInv
  <2>13. CASE UndoAdd(a)
    BY <1>1, <2>13 DEF UndoAdd, RemoveDir, TypeOK, StampInv
  <2>. QED BY <1>3, <2>1, <2>2, <2>3, <2>4, <2>5, <2>6, <2>7, <2>8, <2>9, <2>10, <2>11, <2>12,
              <2>13
          DEF CreateStep
<1>4. ASSUME NEW a \in Audits, Start(a) PROVE StampInv'
  BY <1>1, <1>4 DEF Start, TypeOK, StampInv
<1>5. ASSUME NEW a \in Audits, Crash(a) PROVE StampInv'
  BY <1>1, <1>5 DEF Crash, TypeOK, StampInv
<1>6. ASSUME NEW a \in Audits, RecyclePid(a) \/ FreePid(a) PROVE StampInv'
  BY <1>6 DEF RecyclePid, FreePid, StampInv
<1>7. ASSUME NEW s \in Shas, GitChecksOut(s) \/ ReapCache(s) PROVE StampInv'
  BY <1>1, <1>7 DEF GitChecksOut, ReapCache, TypeOK, StampInv
<1>8. CASE Tick \/ UNCHANGED vars
  BY <1>8 DEF Tick, vars, StampInv
<1>9. ASSUME NEW s \in Shas, StrayRemovesFiles(s) \/ StrayRemovesEntry(s) PROVE StampInv'
  BY <1>1, <1>9 DEF StrayRemovesFiles, StrayRemovesEntry, TypeOK, StampInv
<1>. QED BY <1>2, <1>3, <1>4, <1>5, <1>6, <1>7, <1>8, <1>9 DEF Next

\* Until a process is killed, the aged branch never removes a cache that has no
\* `.last-used' sidecar, whatever the other processes do meanwhile, unless the write of
\* its sidecar or the removal of its directory had failed.
THEOREM UnstampedAreSpared == Spec => []UnstampedSpared
<1>1. Init => IInv /\ OrphanInv /\ StampInv
  BY InitIInv DEF Init, OrphanInv, StampInv
<1>2. IInv /\ OrphanInv /\ StampInv /\ [Next]_vars => IInv' /\ OrphanInv' /\ StampInv'
  BY IInvStep, OrphanStep, StampStep
<1>3. IInv /\ StampInv => UnstampedSpared
  <2>. SUFFICES ASSUME IInv, StampInv, crashes = 0, NEW a \in Audits, pc[a] = "heldAged",
                       Exists(sha[a]), sha[a] \notin failed, stamp[sha[a]] = NoStamp
                PROVE  FALSE
    BY DEF UnstampedSpared
  <2>1. PICK b \in Audits : /\ pc[b] \in {"checkout", "touch", "undo", "rmUndo"}
                            /\ sha[b] = sha[a]
    BY DEF StampInv
  <2>2. a = b
    BY <2>1, Exclusion DEF IInv, Holding, GitRemoving
  <2>. QED BY <2>1, <2>2
<1>. QED BY <1>1, <1>2, <1>3, PTL DEF Spec

-----------------------------------------------------------------------------
(* Until a process is killed the analysis reads a prepared cache. *)

\* The sweep finds no cache old enough to remove: the age branch is off, or
\* whatever has a stamp is younger than the threshold.
NothingAges == MaxAge = 0 \/ MaxClock < MaxAge

\* The clock and the times read from it stay below the clock's bound.
ClockInv ==
    /\ clock <= MaxClock
    /\ \A a \in Audits : now[a] <= clock

\* No process gets past the reading of a stamp.
AgeInv ==
    \A a \in Audits : /\ pc[a] \notin {"lockAged", "heldAged", "rmAged"}
                      /\ pc[a] = "age" => MaxAge > 0

\* A directory is one git lists: git removes it last and prunes none that exists.
ListedInv == \A s \in Shas : Exists(s) => s \in reg

\* A partial checkout belongs to a `git worktree add' whose process waits for it.
PartialInv ==
    \A s \in Shas :
        dir[s] = "partial" => \E a \in Audits : pc[a] = "checkout" /\ sha[a] = s

\* What is about to be removed as not ready does not exist, git forgets it, and the
\* `git worktree add' that follows does not fail.
RebuildInv ==
    \A a \in Audits :
        /\ pc[a] \in {"rebuild", "rmStale", "adding", "dropOrphan"} => ~Exists(sha[a])
        /\ pc[a] \in {"rmStale", "adding"} => sha[a] \notin reg
        /\ pc[a] \notin {"undo", "rmUndo"}

\* No removal has outlived its process.
NoStrays ==
    /\ \A s \in Shas : strays[<<s, "files">>] = 0 /\ strays[<<s, "entry">>] = 0
    /\ struck = {}

\* From the readiness check to the end of the analysis the cache is complete.
CompleteInv ==
    \A a \in Audits :
        pc[a] \in {"touch", "release", "using"} => dir[sha[a]] = "complete"

PrepInv ==
    /\ ClockInv
    /\ AgeInv
    /\ crashes = 0 => ListedInv /\ PartialInv /\ RebuildInv /\ CompleteInv /\ NoStrays

\* Initially nothing runs, and a cache is complete or absent.
LEMMA PrepInit == Init => PrepInv
<1>. SUFFICES ASSUME Init PROVE PrepInv
  OBVIOUS
<1>1. ClockInv /\ AgeInv
  BY BaseWorktreeAssumption DEF Init, ClockInv, AgeInv
<1>2. ListedInv /\ PartialInv /\ RebuildInv /\ CompleteInv
  BY DEF Init, ListedInv, PartialInv, RebuildInv, CompleteInv, Exists
<1>3. NoStrays
  BY DEF Init, NoStrays, Parts
<1>. QED BY <1>1, <1>2, <1>3 DEF PrepInv

\* The times read stay below the clock, and the clock below its bound.
LEMMA ClockStep == TypeOK /\ ClockInv /\ [Next]_vars => ClockInv'
<1>. SUFFICES ASSUME TypeOK, ClockInv, [Next]_vars PROVE ClockInv'
  OBVIOUS
<1>1. clock \in Nat /\ now \in [Audits -> Nat]
  BY DEF TypeOK
<1>2. ASSUME NEW a \in Audits, ListCaches(a) PROVE ClockInv'
  BY <1>1, <1>2 DEF ListCaches, ClockInv, world
<1>3. ASSUME UNCHANGED <<clock, now>> PROVE ClockInv'
  BY <1>3 DEF ClockInv
<1>4. CASE Tick
  BY <1>1, <1>4, BaseWorktreeAssumption DEF Tick, ClockInv, audit
<1>5. ASSUME NEW a \in Audits, SweepStep(a), ~ListCaches(a) PROVE UNCHANGED <<clock, now>>
  BY <1>5 DEF SweepStep, VisitCache, ReadStamp, LockOrphan, LockAged, RecheckOrphan,
     ReclaimOrphan, GitRemoveAged, ReclaimAged, EndSweep, world
<1>6. ASSUME NEW a \in Audits, CreateStep(a) PROVE UNCHANGED <<clock, now>>
  BY <1>6 DEF CreateStep, SweepOrphans, LockReuse, CheckReady, GitRemoveStale, RemoveStale,
     BeginAdd, AddDone, AddFailed, GitUndo, UndoAdd, TouchLastUsed, ReleaseLock, AddTemp,
     AddTempEnds, Finish, world
<1>7. ASSUME NEW a \in Audits, Start(a) \/ Crash(a) \/ RecyclePid(a) \/ FreePid(a)
      PROVE  UNCHANGED <<clock, now>>
  BY <1>7 DEF Start, Crash, RecyclePid, FreePid, audit, world
<1>8. ASSUME NEW s \in Shas,
             GitChecksOut(s) \/ ReapCache(s) \/ StrayRemovesFiles(s) \/ StrayRemovesEntry(s)
      PROVE  UNCHANGED <<clock, now>>
  BY <1>8 DEF GitChecksOut, ReapCache, StrayRemovesFiles, StrayRemovesEntry, audit, world
<1>9. CASE UNCHANGED vars
  BY <1>3, <1>9 DEF vars, audit, world
<1>. QED BY <1>2, <1>3, <1>4, <1>5, <1>6, <1>7, <1>8, <1>9 DEF Next

\* A stamp that is not yet MaxAge old never leads to the lock.
LEMMA AgeStep ==
  ASSUME NothingAges, TypeOK, ClockInv, AgeInv, [Next]_vars
  PROVE  AgeInv'
<1>. USE DEF AgeInv, Goto
<1>0. pc \in [Audits -> PCs]
  BY DEF TypeOK
<1>1. ASSUME NEW a \in Audits, ReadStamp(a) PROVE AgeInv'
  <2>1. MaxClock < MaxAge /\ MaxClock \in Nat /\ MaxAge \in Nat
    BY <1>1, BaseWorktreeAssumption DEF NothingAges, ReadStamp
  <2>2. now[a] \in Nat /\ now[a] <= MaxClock
    BY <2>1 DEF ClockInv, TypeOK
  <2>3. stamp[sha[a]] = NoStamp \/ stamp[sha[a]] \in Nat
    BY DEF TypeOK
  <2>4. stamp[sha[a]] = NoStamp \/ ~(now[a] - stamp[sha[a]] >= MaxAge)
    BY <2>1, <2>2, <2>3
  <2>5. pc' = [pc EXCEPT ![a] = "sweep"]
    BY <1>1, <2>4 DEF ReadStamp
  <2>. QED BY <1>0, <2>5
<1>2. ASSUME NEW a \in Audits, VisitCache(a) PROVE AgeInv'
  BY <1>0, <1>2, BaseWorktreeAssumption DEF VisitCache
<1>3. ASSUME NEW a \in Audits, LockAged(a) \/ GitRemoveAged(a) \/ ReclaimAged(a) PROVE AgeInv'
  BY <1>3 DEF LockAged, GitRemoveAged, ReclaimAged
<1>4. ASSUME NEW a \in Audits, SweepStep(a) PROVE AgeInv'
  <2>1. CASE ListCaches(a) \/ RecheckOrphan(a) \/ ReclaimOrphan(a) \/ EndSweep(a)
    BY <1>0, <2>1 DEF ListCaches, RecheckOrphan, ReclaimOrphan, EndSweep
  <2>2. CASE LockOrphan(a)
    BY <1>0, <2>2 DEF LockOrphan, TryLock
  <2>. QED BY <1>1, <1>2, <1>3, <1>4, <2>1, <2>2 DEF SweepStep
<1>5. ASSUME NEW a \in Audits, CreateStep(a) PROVE AgeInv'
  <2>1. CASE SweepOrphans(a) \/ CheckReady(a) \/ AddDone(a) \/ AddFailed(a)
    BY <1>0, <2>1 DEF SweepOrphans, CheckReady, AddDone, AddFailed
  <2>4. CASE GitRemoveStale(a) \/ RemoveStale(a) \/ GitUndo(a) \/ UndoAdd(a)
    BY <1>0, <2>4 DEF GitRemoveStale, RemoveStale, GitUndo, UndoAdd
  <2>2. CASE LockReuse(a) \/ TouchLastUsed(a) \/ ReleaseLock(a)
    BY <1>0, <2>2 DEF LockReuse, TryLock, TouchLastUsed, ReleaseLock
  <2>3. CASE BeginAdd(a) \/ AddTemp(a) \/ AddTempEnds(a) \/ Finish(a)
    BY <1>0, <2>3 DEF BeginAdd, AddTemp, AddTempEnds, Finish
  <2>. QED BY <1>5, <2>1, <2>2, <2>3, <2>4 DEF CreateStep
<1>6. ASSUME NEW a \in Audits, Start(a) \/ Crash(a) \/ RecyclePid(a) \/ FreePid(a)
      PROVE  AgeInv'
  BY <1>0, <1>6 DEF Start, Crash, RecyclePid, FreePid, audit
<1>7. CASE Tick \/ UNCHANGED vars \/ \E s \in Shas : GitChecksOut(s) \/ ReapCache(s)
  BY <1>0, <1>7 DEF Tick, GitChecksOut, ReapCache, vars, audit
<1>8. CASE \E s \in Shas : StrayRemovesFiles(s) \/ StrayRemovesEntry(s)
  BY <1>0, <1>8 DEF StrayRemovesFiles, StrayRemovesEntry, audit
<1>. QED BY <1>4, <1>5, <1>6, <1>7, <1>8 DEF Next

\* What holds of the caches until a process is killed.
Prepared == ListedInv /\ PartialInv /\ RebuildInv /\ CompleteInv /\ NoStrays

\* A process with the lock finds no partial checkout of its entry unless it is
\* the one that waits for it.
LEMMA PartialIsMine ==
  ASSUME LockInv, PartialInv, TypeOK, NEW a \in Audits,
         pc[a] \in Holding, dir[sha[a]] = "partial"
  PROVE  pc[a] = "checkout"
<1>1. PICK b \in Audits : pc[b] = "checkout" /\ sha[b] = sha[a]
  BY DEF PartialInv, TypeOK
<1>2. pc[b] \in Holding
  BY <1>1 DEF Holding
<1>. QED BY <1>1, <1>2, Exclusion

\* The sweep keeps the caches prepared: it unregisters only what does not exist.
LEMMA SweepKeepsPrepared ==
  ASSUME GitMayFail = FALSE, TypeOK, LockInv, AgeInv, Prepared, NEW a \in Audits, SweepStep(a)
  PROVE  Prepared'
<1>. USE DEF Prepared, ListedInv, PartialInv, RebuildInv, CompleteInv, NoStrays, Exists, Goto,
        TypeOK, store, world, marks
<1>1. CASE ListCaches(a)
  BY <1>1 DEF ListCaches
<1>2. CASE VisitCache(a)
  BY <1>2, BaseWorktreeAssumption DEF VisitCache
<1>3. CASE ReadStamp(a)
  BY <1>3 DEF ReadStamp
<1>4. CASE LockOrphan(a)
  BY <1>4 DEF LockOrphan, TryLock
<1>5. CASE ReclaimOrphan(a)
  <2>1. dir' = dir /\ reg' \subseteq reg /\ (sha[a] \in reg => reg' = reg \ {sha[a]})
    BY <1>5 DEF ReclaimOrphan, GitRemoves
  <2>. QED BY <1>5, <2>1 DEF ReclaimOrphan, GitRemoves, Unlock
<1>6. CASE EndSweep(a)
  BY <1>6 DEF EndSweep, Prune
<1>7. CASE RecheckOrphan(a)
  BY <1>7 DEF RecheckOrphan, Unlock
<1>. QED BY <1>1, <1>2, <1>3, <1>4, <1>5, <1>6, <1>7
         DEF SweepStep, LockAged, GitRemoveAged, ReclaimAged, AgeInv

\* So does the creation of a worktree: only what is not ready is removed.
LEMMA CreateKeepsPrepared ==
  ASSUME GitMayFail = FALSE, TypeOK, LockInv, Prepared, NEW a \in Audits, CreateStep(a)
  PROVE  Prepared'
<1>. USE DEF Prepared, ListedInv, PartialInv, RebuildInv, CompleteInv, NoStrays, Exists, Goto,
        TypeOK, store, world, marks
<1>1. CASE SweepOrphans(a)
  BY <1>1 DEF SweepOrphans, Prune
<1>2. CASE LockReuse(a)
  BY <1>2 DEF LockReuse, TryLock
<1>3. CASE CheckReady(a)
  <2>1. dir[sha[a]] # "partial"
    BY <1>3, PartialIsMine DEF CheckReady, Holding
  <2>2. /\ pc[a] = "check" /\ UNCHANGED <<sha, dir, reg>>
        /\ pc' = [pc EXCEPT ![a] = IF IsReady(sha[a]) THEN "touch" ELSE "rebuild"]
    BY <1>3 DEF CheckReady, GitOutcome
  <2>3. IsReady(sha[a]) <=> Exists(sha[a])
    BY DEF IsReady
  <2>4. ListedInv' /\ PartialInv' /\ NoStrays'
    BY <1>3, <2>2 DEF CheckReady
  <2>5. RebuildInv'
    BY <2>2, <2>3
  <2>6. CompleteInv'
    BY <2>1, <2>2, <2>3
  <2>. QED BY <2>4, <2>5, <2>6
<1>4. CASE GitRemoveStale(a)
  <2>1. dir' = dir /\ reg' = reg \ {sha[a]}
    BY <1>4 DEF GitRemoveStale, GitRemoves
  <2>. QED BY <1>4, <2>1 DEF GitRemoveStale
<1>9. CASE RemoveStale(a)
  <2>1. dir' = dir
    BY <1>9 DEF RemoveStale, RemoveDir
  <2>. QED BY <1>9, <2>1 DEF RemoveStale
<1>5. CASE BeginAdd(a)
  <2>1. \A b \in Audits : pc[b] \in {"rebuild", "rmStale", "adding", "dropOrphan"} /\ b # a
                              => sha[b] # sha[a]
    BY <1>5, Exclusion DEF BeginAdd, Holding, GitRemoving
  <2>. QED BY <1>5, <2>1 DEF BeginAdd
<1>6. CASE AddDone(a)
  BY <1>6 DEF AddDone
<1>7. CASE TouchLastUsed(a) \/ ReleaseLock(a)
  BY <1>7 DEF TouchLastUsed, ReleaseLock, Unlock
<1>8. CASE AddTemp(a) \/ AddTempEnds(a) \/ Finish(a)
  BY <1>8 DEF AddTemp, AddTempEnds, Finish
<1>. QED BY <1>1, <1>2, <1>3, <1>4, <1>5, <1>6, <1>7, <1>8, <1>9
         DEF CreateStep, AddFailed, GitUndo, UndoAdd

\* Every step preserves PrepInv.
LEMMA PrepStep ==
  ASSUME GitMayFail = FALSE, NothingAges, IInv, PrepInv, [Next]_vars
  PROVE  PrepInv'
<1>1. TypeOK /\ LockInv /\ ClockInv /\ AgeInv /\ (crashes = 0 => Prepared)
  BY DEF IInv, PrepInv, Prepared
<1>2. ClockInv' /\ AgeInv'
  BY <1>1, ClockStep, AgeStep
<1>3. ASSUME crashes' = 0 PROVE Prepared'
  <2>1. crashes \in Nat
    BY <1>1 DEF TypeOK
  <2>2. \A a \in Audits : ~Crash(a)
    <3>. SUFFICES ASSUME NEW a \in Audits, Crash(a) PROVE FALSE
      OBVIOUS
    <3>1. crashes' = crashes + 1
      BY Zenon DEF Crash
    <3>. QED BY <1>3, <2>1, <3>1
  <2>3. crashes = 0
    <3>1. crashes' = crashes
      <4>1. ASSUME NEW a \in Audits, SweepStep(a) PROVE crashes' = crashes
        BY <4>1 DEF SweepStep, ListCaches, VisitCache, ReadStamp, LockOrphan, LockAged,
           RecheckOrphan, ReclaimOrphan, GitRemoveAged, ReclaimAged, EndSweep, world
      <4>2. ASSUME NEW a \in Audits, CreateStep(a) PROVE crashes' = crashes
        BY <4>2 DEF CreateStep, SweepOrphans, LockReuse, CheckReady, GitRemoveStale,
           RemoveStale, BeginAdd, AddDone, AddFailed, GitUndo, UndoAdd, TouchLastUsed,
           ReleaseLock, AddTemp, AddTempEnds, Finish, world
      <4>3. ASSUME NEW a \in Audits, Start(a) \/ RecyclePid(a) \/ FreePid(a)
            PROVE  crashes' = crashes
        BY <4>3 DEF Start, RecyclePid, FreePid, world
      <4>4. CASE Tick \/ UNCHANGED vars \/ \E s \in Shas : GitChecksOut(s) \/ ReapCache(s)
        BY <4>4 DEF Tick, GitChecksOut, ReapCache, vars, world
      <4>5. CASE \E s \in Shas : StrayRemovesFiles(s) \/ StrayRemovesEntry(s)
        BY <4>5 DEF StrayRemovesFiles, StrayRemovesEntry, world
      <4>. QED BY <2>2, <4>1, <4>2, <4>3, <4>4, <4>5 DEF Next
    <3>. QED BY <1>3, <3>1
  <2>4. Prepared
    BY <1>1, <2>3
  <2>5. ASSUME NEW a \in Audits, SweepStep(a) PROVE Prepared'
    BY <1>1, <2>4, <2>5, SweepKeepsPrepared
  <2>6. ASSUME NEW a \in Audits, CreateStep(a) PROVE Prepared'
    BY <1>1, <2>4, <2>6, CreateKeepsPrepared
  <2>. USE DEF Prepared, ListedInv, PartialInv, RebuildInv, CompleteInv, NoStrays, Exists, marks
  <2>7. ASSUME NEW a \in Audits, Start(a) PROVE Prepared'
    BY <1>1, <2>4, <2>7 DEF Start, Goto, TypeOK, store
  <2>8. ASSUME NEW a \in Audits, RecyclePid(a) \/ FreePid(a) PROVE Prepared'
    BY <2>4, <2>8 DEF RecyclePid, FreePid, audit, store
  <2>9. ASSUME NEW s \in Shas, GitChecksOut(s) PROVE Prepared'
    BY <1>1, <2>4, <2>9 DEF GitChecksOut, audit, TypeOK
  <2>10. ASSUME NEW s \in Shas, ReapCache(s) PROVE Prepared'
    BY <1>1, <2>4, <2>10 DEF ReapCache, audit, TypeOK, Holding, GitRemoving
  <2>11. CASE Tick \/ UNCHANGED vars
    BY <2>4, <2>11 DEF Tick, vars, audit, store
  <2>12. \A s \in Shas : ~StrayRemovesFiles(s) /\ ~StrayRemovesEntry(s)
    <3>. SUFFICES ASSUME NEW s \in Shas, StrayRemovesFiles(s) \/ StrayRemovesEntry(s)
                  PROVE  FALSE
      OBVIOUS
    <3>1. strays[<<s, "files">>] > 0 \/ strays[<<s, "entry">>] > 0
      BY Zenon DEF StrayRemovesFiles, StrayRemovesEntry
    <3>2. strays[<<s, "files">>] = 0 /\ strays[<<s, "entry">>] = 0
      BY <2>4, Zenon
    <3>. QED BY <3>1, <3>2
  <2>. QED BY <2>2, <2>5, <2>6, <2>7, <2>8, <2>9, <2>10, <2>11, <2>12 DEF Next
<1>. QED BY <1>2, <1>3 DEF PrepInv, Prepared

\* Where git does not fail and no cache reaches the age threshold, an analysis
\* reads a registered and completely checked out cache until a process is killed,
\* for any number of processes and commits.  Both hypotheses are needed: a failed
\* readiness check rebuilds, and the age branch removes, a cache in use, because
\* reuse_or_create drops the lock before the analysis reads.
THEOREM CachesArePrepared ==
  ASSUME GitMayFail = FALSE, NothingAges
  PROVE  Spec => []CachePrepared
<1>1. IInv /\ PrepInv /\ [Next]_vars => IInv' /\ PrepInv'
  BY IInvStep, PrepStep
<1>2. IInv /\ PrepInv => CachePrepared
  <2>1. IInv => sha \in [Audits -> Shas]
    BY DEF IInv, TypeOK
  <2>. QED BY <2>1 DEF PrepInv, ListedInv, CompleteInv, CachePrepared, Exists
<1>. QED BY InitIInv, PrepInit, <1>1, <1>2, PTL DEF Spec

=============================================================================
