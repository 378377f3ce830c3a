----------------------------- MODULE ImpactLog -----------------------------
(***************************************************************************)
(* What the lock of the impact store promises (impact.rs, ImpactStoreLock):*)
(* the store changes as if every invocation read and replaced it in one    *)
(* step, so that no record is lost, until a writer that does not hold the  *)
(* one lock overlaps another (`clobbered`).                                *)
(***************************************************************************)
CONSTANTS
    Procs,              \* processes, each one invocation
    Worktrees,          \* worktrees that share the store
    Ops,                \* the invocations that read and write the store
    NoStore,            \* the store file does not exist
    DefaultStore,       \* the store of a project without one
    Legacy,             \* the in-repository store of an old version, or NoStore
    Mutate(_, _, _),    \* what an invocation of a process makes of a store
    IntoStore(_, _)     \* what a worktree makes of an old store

VARIABLES store, clobbered

logVars == <<store, clobbered>>

(* What an invocation reads: without a store, the old one or the default.  *)
Current(w) == IF store # NoStore THEN store
              ELSE IF Legacy # NoStore THEN IntoStore(Legacy, w) ELSE DefaultStore

LogInit == clobbered = FALSE

Perform(op, run) ==
    /\ store' # store
    /\ store' = Mutate(op, run, Current(op.tree))
    /\ UNCHANGED clobbered

Remove == store' = NoStore /\ UNCHANGED clobbered

Import(w) ==
    /\ store = NoStore
    /\ Legacy # NoStore
    /\ store' = IntoStore(Legacy, w)
    /\ UNCHANGED clobbered

(* All bets are off.                                                       *)
Clobber == clobbered'

LogNext ==
    \/ \E run \in Procs, op \in Ops : Perform(op, run)
    \/ Remove
    \/ \E w \in Worktrees : Import(w)
    \/ Clobber

LogSpec == LogInit /\ [][LogNext]_logVars
=============================================================================
