---------------------------- MODULE ImpactStore ----------------------------
(***************************************************************************)
(* The impact store of one repository and the fallow processes that read   *)
(* and replace it (crates/cli/src/impact.rs): records of audits and of     *)
(* whole-project runs, which take an advisory lock; the commands that      *)
(* change one flag, which do not; reset, and the sweep for old stores that *)
(* a run in another project makes.  A process is one invocation; it may be *)
(* killed between any two steps, and then the kernel drops its lock.       *)
(*                                                                         *)
(* `fresh` and `tainted` record what happened and are read by no step.     *)
(***************************************************************************)
EXTENDS ImpactOps

CONSTANTS OpsOf,            \* the invocations each process may be asked for
          Others,           \* processes that may be asked for anything else
          Legacy,           \* the in-repository store of an old version, or NoStore
          InitialStores     \* stores that earlier runs may have left

ASSUME OpsOfAssumption == OpsOf \in [Procs -> SUBSET Ops] /\ Others \subseteq Procs

(* The total of resolved findings covers the recent ones.                  *)
CoversRecent(st) == st.resolved >= Len(st.recent)

(* No failed gate is contained twice, or contained and pending.            *)
ContainedOnce(st) ==
    /\ \A i, j \in DOMAIN st.contained : st.contained[i] = st.contained[j] => i = j
    /\ \A i \in DOMAIN st.contained : st.contained[i] # st.pending

(* The failed gates that store st knows of are among R.                    *)
Mentions(st, R) ==
    /\ st.pending \in R \cup {NoRun}
    /\ \A i \in DOMAIN st.contained : st.contained[i] \in R

(* A store that the runs in R may have left behind.                        *)
LeftBy(st, R) == st \in Stores /\ CoversRecent(st) /\ ContainedOnce(st) /\ Mentions(st, R)

ASSUME LeftAssumption ==
    /\ \A st \in InitialStores \ {NoStore} : LeftBy(st, PastRuns)
    /\ Legacy # NoStore => \A w \in Worktrees : LeftBy(IntoStore(Legacy, w), PastRuns)

VARIABLES
    store,          \* the file <config>/fallow/impact/<key>.json
    globalDefault,  \* default_enabled of <config>/fallow/impact.json
    aged,           \* the mtime of the file is older than the window of a sweep
    inode,          \* which lock file the path <store>.lock names
    opened,         \* the lock file each process opened
    holds,          \* processes that hold the lock on the file they opened
    pc, op, mem,    \* per process: next step, invocation, the store it loaded
    fresh,          \* processes whose `mem` is what the file still holds
    tainted         \* an unserialised write overlapped another

lockVars == <<inode, opened, holds>>
vars == <<store, globalDefault, aged, inode, opened, holds, pc, op, mem, fresh,
          tainted>>

NoOp == [kind |-> "none", tree |-> CHOOSE w \in Worktrees : TRUE]

Steps == {"idle", "open", "lock", "load", "import", "save", "return", "stat", "remove", "done", "dead"}

Init ==
    /\ store \in InitialStores
    /\ globalDefault = FALSE
    /\ aged = FALSE
    /\ inode = 0
    /\ opened = [p \in Procs |-> 0]
    /\ holds = {}
    /\ pc = [p \in Procs |-> "idle"]
    /\ op = [p \in Procs |-> NoOp]
    /\ mem = [p \in Procs |-> NoStore]
    /\ fresh = {}
    /\ tainted = FALSE

-----------------------------------------------------------------------------
(* Between its load and its save.                                          *)
Loaded(p) == pc[p] \in {"import", "save"}

(* p replaces or removes the file and everyone else's copy is stale.       *)
(* Without the lock, that is a write nobody serialised if p's own copy was *)
(* stale or another process is between its load and its save.              *)
Replace(p, content) ==
    /\ store' = content
    /\ aged' = FALSE
    /\ tainted' = \/ tainted
                  \/ p \notin holds /\ Loaded(p) /\ p \notin fresh
                  \/ p \notin holds /\ \E q \in Procs \ {p} : Loaded(q)

Goto(p, step) == pc' = [pc EXCEPT ![p] = step]

(* Records lock first; a record in CI returns at once (CiRun).             *)
Begin(p, o) ==
    /\ pc[p] = "idle"
    /\ op' = [op EXCEPT ![p] = o]
    /\ Goto(p, IF IsRecord(o) THEN "open" ELSE "load")
    /\ UNCHANGED <<store, globalDefault, aged, lockVars, mem, fresh, tainted>>

CiRun(p) ==
    /\ pc[p] = "idle"
    /\ Goto(p, "done")
    /\ UNCHANGED <<store, globalDefault, aged, lockVars, op, mem, fresh, tainted>>

(* ImpactStoreLock::acquire: open the sidecar, creating it if need be, and *)
(* block until nobody else holds that file.                                *)
OpenLock(p) ==
    /\ pc[p] = "open"
    /\ opened' = [opened EXCEPT ![p] = inode]
    /\ Goto(p, "lock")
    /\ UNCHANGED <<store, globalDefault, aged, inode, holds, op, mem, fresh, tainted>>

HeldFor(p) == \E q \in holds : opened[q] = opened[p]

\* Mutant of Acquire: nobody waits.
AcquireAnyway(p) ==
    /\ pc[p] = "lock"
    /\ holds' = holds \cup {p}
    /\ Goto(p, "load")
    /\ UNCHANGED <<store, globalDefault, aged, inode, opened, op, mem, fresh, tainted>>

Acquire(p) ==
    /\ pc[p] = "lock"
    /\ ~HeldFor(p)
    /\ holds' = holds \cup {p}
    /\ Goto(p, "load")
    /\ UNCHANGED <<store, globalDefault, aged, inode, opened, op, mem, fresh, tainted>>

(* The file cannot be opened or locked: the record proceeds without.       *)
AcquireFails(p) ==
    /\ pc[p] \in {"open", "lock"}
    /\ Goto(p, "load")
    /\ UNCHANGED <<store, globalDefault, aged, lockVars, op, mem, fresh, tainted>>

(* load, and the early returns after it.  Without a file, a store of an    *)
(* old version is imported.  A file that is there can be read and parsed:  *)
(* it is only ever replaced whole.  Otherwise any error of the read leads  *)
(* to the same import (impact.rs:417) and content that does not parse to   *)
(* the default store (impact.rs:434-440), and the next save replaces the   *)
(* file; both are left out.                                                *)
Take(p, st) ==
    /\ mem' = [mem EXCEPT ![p] = st]
    /\ Goto(p, IF Proceeds(op[p], st, globalDefault) THEN "save" ELSE "return")

Load(p) ==
    /\ pc[p] = "load"
    /\ fresh' = fresh \cup {p}
    /\ IF store = NoStore /\ Legacy # NoStore
       THEN mem' = [mem EXCEPT ![p] = IntoStore(Legacy, op[p].tree)] /\ Goto(p, "import")
       ELSE Take(p, IF store = NoStore THEN DefaultStore ELSE store)
    /\ UNCHANGED <<store, globalDefault, aged, lockVars, op, tainted>>

(* migrate_legacy_store saves what it imported; load then returns it.      *)
Import(p) ==
    /\ pc[p] = "import"
    /\ Replace(p, mem[p])
    /\ fresh' = {p}
    /\ Take(p, mem[p])
    /\ UNCHANGED <<globalDefault, lockVars, op>>

(* The rest of the operation, computed on the copy, and the atomic replace *)
(* that writes it.                                                         *)
Save(p) ==
    /\ pc[p] = "save"
    /\ Replace(p, Mutate(op[p], p, mem[p]))
    /\ fresh' = {}
    /\ mem' = [mem EXCEPT ![p] = NoStore]
    /\ Goto(p, "return")
    /\ UNCHANGED <<globalDefault, lockVars, op>>

(* The process is over, and with it what it held.                          *)
Gone(p, how) ==
    /\ mem' = [mem EXCEPT ![p] = NoStore]
    /\ op' = [op EXCEPT ![p] = NoOp]
    /\ opened' = [opened EXCEPT ![p] = 0]
    /\ fresh' = fresh \ {p}
    /\ Goto(p, how)
    /\ UNCHANGED <<store, globalDefault, aged, inode, tainted>>

(* The handle drops at the end of the function.                            *)
Return(p) ==
    /\ pc[p] = "return"
    /\ holds' = holds \ {p}
    /\ Gone(p, "done")

-----------------------------------------------------------------------------
(* The commands that do not read the store.                                *)
SetGlobalDefault(p, on) ==
    /\ pc[p] = "idle"
    /\ globalDefault' = on
    /\ Goto(p, "done")
    /\ UNCHANGED <<store, aged, lockVars, op, mem, fresh, tainted>>

Delete(p) ==
    /\ fresh' = {}
    /\ Goto(p, "done")
    /\ UNCHANGED <<globalDefault, opened, holds, op, mem>>

Reset(p) ==
    /\ pc[p] = "idle"
    /\ Replace(p, NoStore)
    /\ Delete(p)
    /\ UNCHANGED inode

(* reset_all deletes the directory, the lock files in it too: whoever      *)
(* opens the path afterwards locks another file.                           *)
ResetAll(p) ==
    /\ pc[p] = "idle"
    /\ store' = NoStore
    /\ aged' = FALSE
    /\ inode' = inode + 1
    /\ tainted' = (tainted \/ \E q \in Procs : pc[q] = "lock" \/ q \in holds \/ Loaded(q))
    /\ Delete(p)

(* A run in another project sweeps the directory: it reads the age of this *)
(* store and then removes it, and takes no lock.                           *)
SweepStat(p) ==
    /\ pc[p] = "idle"
    /\ Goto(p, IF store # NoStore /\ aged THEN "remove" ELSE "done")
    /\ UNCHANGED <<store, globalDefault, aged, lockVars, op, mem, fresh, tainted>>

SweepRemove(p) ==
    /\ pc[p] = "remove"
    /\ Replace(p, NoStore)
    /\ Delete(p)
    /\ UNCHANGED inode

StoreAges ==
    /\ store # NoStore
    /\ ~aged
    /\ aged' = TRUE
    /\ UNCHANGED <<store, globalDefault, lockVars, pc, op, mem, fresh, tainted>>

\* Mutant of Kill: the lock outlives the process, as a pid file would.
KillKeepsLock(p) ==
    /\ pc[p] \notin {"idle", "done", "dead"}
    /\ holds' = holds
    /\ Gone(p, "dead")

(* The process is killed; the kernel closes its handles.                   *)
Kill(p) ==
    /\ pc[p] \notin {"idle", "done", "dead"}
    /\ holds' = holds \ {p}
    /\ Gone(p, "dead")

ProcStep(p) ==
    \/ OpenLock(p)
    \/ Acquire(p)
    \/ Load(p)
    \/ Import(p)
    \/ Save(p)
    \/ Return(p)
    \/ SweepRemove(p)

Next ==
    \/ \E p \in Procs :
         \/ \E o \in OpsOf[p] : Begin(p, o)
         \/ ProcStep(p)
         \/ AcquireFails(p)
         \/ Kill(p)
    \/ \E p \in Others :
         \/ CiRun(p)
         \/ \E on \in BOOLEAN : SetGlobalDefault(p, on)
         \/ Reset(p)
         \/ ResetAll(p)
         \/ SweepStat(p)
    \/ StoreAges

Spec == Init /\ [][Next]_vars

(* The scheduler runs every process, and the kernel grants the lock.       *)
FairSpec == Spec /\ \A p \in Procs : WF_vars(ProcStep(p))

-----------------------------------------------------------------------------
(* Every list of the store stays within its cap, in the file and in every  *)
(* copy.                                                                   *)
TypeOK ==
    /\ store \in Stores \cup {NoStore}
    /\ mem \in [Procs -> Stores \cup {NoStore}]
    /\ pc \in [Procs -> Steps]
    /\ op \in [Procs -> Ops \cup {NoOp}]
    /\ holds \subseteq Procs
    /\ fresh \subseteq Procs
    /\ inode \in Nat /\ opened \in [Procs -> Nat]
    /\ globalDefault \in BOOLEAN /\ aged \in BOOLEAN /\ tainted \in BOOLEAN

(* The total of resolved findings covers the recent ones, whatever was     *)
(* taken back in between, so the saturating subtraction never saturates    *)
(* (uncredit_cross_run_moves).                                             *)
ResolvedCoversRecent == store # NoStore => CoversRecent(store)

(* A failed gate is contained at most once, and not while it is pending    *)
(* (apply_containment).                                                    *)
ContainmentOnce == store # NoStore => ContainedOnce(store)

(* The store behaves as if each invocation read and replaced it in one     *)
(* step: no record is lost, until an unlocked writer overlaps another      *)
(* (ImpactStoreLock).                                                      *)
Log == INSTANCE ImpactLog WITH clobbered <- tainted
SerialUnlessClobbered == Log!LogSpec

(* Every invocation ends, also if another was killed while it held the     *)
(* lock (ImpactStoreLock: an abandoned record never wedges the next run).  *)
RunsFinish == \A p \in Procs : pc[p] # "idle" ~> pc[p] \in {"done", "dead"}
=============================================================================
