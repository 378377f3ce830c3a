# A verification project for fallow

fallow analyses TypeScript and JavaScript code bases: unused code, duplication,
complexity, boundaries. It is a Rust workspace (`crates/`) with a CLI, a language
server, an MCP server and Node bindings, plus editor extensions and CI scripts.

Most of it is a pure pipeline: discover files, parse them, build a module graph,
evaluate predicates over the graph, print a report. What is hard to get right
and hard to test is the code around that pipeline, where processes, threads,
handlers and the user's edits interleave, and the few algorithms of the pipeline
that iterate to a fixpoint. This directory holds TLA+ models of that code, the
TLC configurations that check them on small instances, and TLAPS proofs for
instances of every size. `PROJECT.json` maps every definition to the lines it
models and lists runs, mutants, findings, hazards and theorems.

## 1. Inventory

### Components with state

| component | state | operations | interacts with |
| --- | --- | --- | --- |
| Signal handling (`cli/src/signal/`) | `SHUTDOWN`, `GRACEFUL`, `INSTALLED`, `DRAINING`; the registry of child PIDs and `NEXT_ID` | install handlers; enter and leave graceful mode; spawn, wait for and drop a `ScopedChild`; handle a signal (drain, kill, poll, exit) | every component that runs `git` or a sidecar; the watch loop; the operating system |
| Watch loop (`cli/src/watch.rs`) | watcher and its filter, channel, debouncer, `detached`, `next_root_check`, the loaded config | receive events, re-analyse, detach and re-attach the root | the OS watcher's thread, the user's changes, signals |
| Base worktrees (`cli/src/base_worktree.rs`) | per base commit: a directory in the temp dir, its registration with git, a `.lock` file, a `.last-used` sidecar; temporary worktrees named after their owner's PID | sweep aged and orphaned caches; sweep worktrees of dead processes; lock, reuse or rebuild a cache; fall back to a temporary worktree; clean up on drop | other fallow processes on the same repository; git; temp reapers; the signal handler, which ends a process without running its guards |
| Language server (`lsp/src/main.rs`) | open documents, cached diagnostics, previously published URIs, last results, `client_pulls`, `analysis_guard`, `last_analysis`, `cancellation` | `did_open`, `did_change`, `did_save`, `did_close`, `diagnostic`, `refresh_diagnostics`, `shutdown`, `run_analysis` | the editor (messages in both directions), the file system |
| Module graph (`graph/src/graph/`) | modules with their exports and references, the reachable set, the state of the fixpoint and of the cycle search | populate, search from entry points, find re-export cycles, propagate references round by round | the dead-code report, which reads the finished graph |
| Impact store (`cli/src/impact.rs`) | one JSON file per repository, a lock file, bounded lists, the global default | record runs, enable, disable, decline, digest, reset, migrate, sweep old stores | other fallow processes |
| Fix plan and fixers (`cli/src/fix/`) | staged contents, skipped files, the report, temporary files | read with hash check, edit, stage, commit, correct the report | the user's editor, the file system |
| VS Code analysis runs (`editors/vscode/src/`) | the run in flight, the pending forced run, the failure back-off, what is shown | trigger, coalesce, spawn, settle, re-run, pause | the CLI, the user, the event loop |
| Extraction cache (`extract/src/cache/`) | path -> parsed facts with hash, mtime and access time | load, look up, insert, evict, save | other fallow processes |

All but the last are modelled. The components without state of their own (the other
analyses, duplicate detection, plugins, configuration, reports, health and
coverage, the license ladder, MCP and Node wrappers) are listed in `PROJECT.json`
with the reason why they are not.

### What is hard, and what would make each component correct

* *Signals.* Children are spawned, reaped and deregistered while the one drain of
  the process's life runs; PIDs are recycled. Correct: no registered child is
  missed, every drained child is dead afterwards, and the process ends.
* *Watch.* Changes, the callback, the debouncer, the once-a-second root check and a
  Ctrl-C meet in one loop. Correct: no change that was heard of is forgotten, it is
  analysed in the end, and a stopped watch stops.
* *Base worktrees.* Several processes sweep, rebuild and use one cache; any of
  them may be killed, and the git it started may live on; git and file operations fail,
  and the code mostly goes on; locks are held for part of the time only. Correct: a
  locked entry is not disturbed, a live process keeps its worktree, leftovers of dead
  ones go away, an analysis reads a complete checkout.
* *Language server.* Edits and saves arrive while a run reads the disk, and
  results are delivered by push or by pull. Correct: what is shown as current is
  current, nothing stays on screen for ever, editors catch up, runs are served.
* *Module graph.* References travel along chains and cycles of re-exports, in
  the order of files, within a cap of rounds. Correct: live exports are not
  reported, every credit has a chain behind it, the last round is a fixpoint.
* *Impact store.* Some writers lock and some do not; any may be killed. Correct: no
  lost update among lockers, counters that match the lists, no run that hangs.
* *Fixes.* Fixers edit one file after the other while the user edits it too, and
  the commit may fail half way. Correct: no early save is overwritten, fixes of two
  fixers land together, report and exit code tell what is on disk.
* *VS Code runs.* Promises settle in an order of their own. Correct: runs do not
  overlap, an explicit call shows its own arguments, every call is answered.

## 2. Modules

| modules | contents |
| --- | --- |
| `Signals`, `MCSignals`, `SignalsProofs` | the signal path, its instances, its theorems |
| `Watch`, `MCWatch`, `WatchProofs` | the watch loop, composed with `Signals` |
| `BaseWorktree`, `MCBaseWorktree`, `BaseWorktreeProofs` | worktrees and reusable caches |
| `LspServer`, `MCLspServer`, `LspServerProofs` | the language server's diagnostics |
| `ModuleGraph`, `ReExportCycles`, `MCModuleGraph`, `ModuleGraphProofs` | the module graph: references, reachability, propagation; the cycle search; small projects |
| `ImpactOps`, `ImpactLog`, `ImpactStore`, `MCImpactStore`, `ImpactStoreProofs` | what an invocation does to the store; the atomic store that the lock promises; processes, lock, reset and sweep; theorems, the refinement among them |
| `AnalysisFlight`, `AnalysisFlightProofs` | triggers, single flight, run and back-off of the VS Code extension; theorems |
| `FixEdits`, `FixPlan`, `MCFixPlan`, `FixPlanProofs` | what each fixer does to lines; a run of `fallow fix`; small projects; theorems |

Definitions marked "Mutant" or "Mistake" in a comment are altered copies of the
definition that follows them. They are part of no specification; they show that a
property notices the bug.

### Signals

One process. The main thread goes through `main`: `InstallHandlers`, then for
`watch` `ReinstallHandlers`, `EnterGraceful` and a loop of `CheckShutdown`,
`RootLifecycle`, `FinishAttach`, `PollWatch`, `FinishPass`, then `DropGuard` and
`MainExit`. Workers own one
`ScopedChild` at a time. `Spawn`, `TakeId` and `Register` are separate steps
because a drain can fall between them; so are `Reap` and `Deregister`. The
listener thread takes one signal at a time: `TakeSignal` (raise `SHUTDOWN`),
`DrainOnce` (the swap of `DRAINING`), `Snapshot` (empty the registry under its
lock), one `KillPid` per victim, `StartPoll`, `EndPoll`, `Decide` (read
`GRACEFUL`), `HandlerExit`.

The environment delivers signals, ends children (`ChildExits`) and recycles PIDs
(`ForeignProcess`, and `Spawn` on any free PID). `EndPoll` may happen at any
moment, because the poll ends at the 500 ms deadline or when `kill -0` finds
nobody, whichever is first. Stdin and stdout hand-over leave the registry alone
and are left out. On Windows the same handler is entered with the same codes.

### Watch

`Watch` extends `Signals`: each of its main-thread actions is a conjunction of an
action of `Signals` (`EnterGraceful`, `FinishInitial`, `RootLifecycle`, `PollWatch`,
`FinishPass`...) and what `watch.rs` does to its own state. `WatchProofs` proves that
the composition implements `Signals`. Children are the subject of `Signals`; here the
analysis has none.

`LoadWatchConfig`, `ReadFile` and `CreateWatcher` are the initial analysis and what
follows it. One iteration is `CheckShutdown`, then the root check (`NoRootCheck`,
`RootUnchanged`, `Detach`; for a root that is back `ReloadForReattach`, which renews config
and filter, and then `Reattach`, which has a watcher and analyses, or `ReattachFails`,
with the user's changes in between), then one poll (`PushPaths`,
`DropEvent` while detached, `NotReady`, `Reanalyze`); `EndPass` ends an analysis, with
or without success. External: the notify crate (`Touch` raises events for the
directory it follows, `Callback` filters and sends them, `WatchError`), the user
(`Write`, `WriteConfig`, `RemoveRoot`, `CreateRoot`, `Interrupt`) and time
(`WindowElapses`, `RootCheckDue`). A root that was deleted and created again is another
directory, and the watcher keeps following the old one. A config is the set of
files its ignore patterns exclude, or one that does not parse. The variables `dirty`,
`unheard` and `reconfigured` record history: what has changed since an analysis
read it, and which changes the code has no way to hear of. No action reads them.

### BaseWorktree

A slot of `Audits` runs one process after another. `Start` begins `audit` (which
sweeps) or a command that only needs a worktree. `ListCaches`, `VisitCache`,
`ReadStamp`, `LockOrphan` with `RecheckOrphan` and `ReclaimOrphan`, `LockAged` with
`GitRemoveAged` and `ReclaimAged`, `EndSweep` are the sweep of reusable caches;
`SweepOrphans` removes the worktrees of dead PIDs; `LockReuse`, `CheckReady`,
`GitRemoveStale`, `RemoveStale`, `BeginAdd`, `AddDone` or `AddFailed` with `GitUndo` and
`UndoAdd`, `TouchLastUsed`, `ReleaseLock` are `reuse_or_create`; `AddTemp`, `AddTempEnds`,
`Finish` are `create` and the drop. The steps between two system calls that other
processes can observe are separate; in particular git's removal of an entry
(`GitRemoves`) and the `remove_dir_all` after it (`RemoveDir`).

What may fail: every git call, at either of its two effects (with `GitMayFail`), the
writing of a sidecar (`TouchSidecar`), `remove_dir_all` and the removal of a sidecar
(always). The code ignores all of these, and so does the model; `failed` remembers the
entries it happened to. `OwnerAlive` is the answer of `kill -0`, which says dead of a live
process that the asker may not signal (`Confirms` has the pairs where that does not
happen).

External: `Crash` kills a process and frees its lock, as the kernel does, without
running a guard. A `git worktree remove` it has started may live on and removes files
(`StrayRemovesFiles`) and git's entry (`StrayRemovesEntry`) when it comes to it; `struck`
has the processes whose locked entry that hits. `GitChecksOut` finishes a checkout, also
after its parent has died; `ReapCache` is a temp cleaner; `RecyclePid`, `FreePid` give a
dead process's PID to another one; `Tick` is the clock. Assumptions about git and the file
system, from how the code uses them: `git worktree add` registers the path and
writes `HEAD` before it checks files out, and fails at a path that is taken; an I/O error
on the lock file behaves like contention; a directory that is being deleted is there
until the deletion is over. A `git worktree add` that outlives its process is modelled as
finishing its checkout, and not as failing and cleaning up later. Path hashing,
symlinks for `node_modules` and the parsing of git's output are abstracted.

### LspServer

The editor (`ClientOpen`, `ClientEdit`, `ClientSave`, `ClientClose`), other
programs (`ExternalWrite`, of any file, open or not) and the refresh round trip are
external. With `ResetVersions` the editor starts versions again when it reopens a
document. `touched` has the documents that either happened to since the run under way took
its snapshot; no action reads it. Notifications arrive in order, at most `MaxInbox` of them under way.
The handlers are actions of their own; `did_open` and `diagnostic` are split
where they await. A run is `StartAnalysis` (guard, snapshot), one `ReadFile` per
file, `ApplyAnalysisOutput` (the cancellation check), `BeginPublish` (reads
`documents` and `client_pulls` once), one `PublishOne` per file, `FinishPublish`
(clearing, the new `previous_diagnostic_uris`, the refresh) and `StoreResults`.
A session has a root; without one `run_analysis` returns at once (`main.rs:1107`).
`LoadFails` is a config that cannot be loaded, `AnalysisPanics` a panic of the
blocking task, `AbandonQueued` a queued run that finds the server shutting down.

The findings of a file are abstracted to the text they come from: `Clean` texts
have none, those of `Muted` texts are all disabled. Findings are thus local to
their file; what one file's text does to the findings of another is the
analysis, which is not modelled. `results` stands for the results, duplication
and complexity that lenses, hovers and code actions read. Versions are `i32` in
the code; an editor would need two billion edits to wrap one, so they are
naturals. The limit of four concurrent handlers of the transport is not
modelled: handlers interleave freely.

### ModuleGraph and ReExportCycles

A project is chosen by `Init`: its re-exports in file order, the exports each file
has, imports and entry points. `Populate` builds exports, named stubs and direct
references; `Visit` is one step of the breadth-first search and `MarkReachable` its
end; `ReExportCycles` is the iterative Tarjan search, one action per turn of its loop
(`StartSearch`, `StepSuccessor`, `FinishFrame`); `PropagateEntry` applies one re-export of
the current round (named, or star with its synthetic exports and the exposure of
entry points), and `NextRound` or `EndFixpoint` follows the last of them: the
rounds end when one changed nothing or at the cap (`SafetyCap`).
`Reported` is the report's condition. A reference is the file
it comes from. Left out: `export * as ns`, type and value exports of one name, namespace
aliases, and the searches from runtime and test entry points, which repeat the one
modelled.

### ImpactOps, ImpactLog and ImpactStore

`ImpactOps` is the arithmetic of one invocation on a store: an audit record (gate
outcomes, pending and contained blocks, the frontier of findings per worktree,
resolutions and their taking back for moved findings), a whole-project record, the
flags, and the digest. `ImpactStore` is the processes: `OpenLock`, `Acquire` or
`AcquireFails`, `Load`, `Import` (of the old in-repository store), `Save`, `Return`
for an invocation, `Reset`, `ResetAll`, `SweepStat` and `SweepRemove` for those that
delete, `Kill` at any point. A lock belongs to the file that was opened, so a lock
file that is removed and created again is another lock. A store file that exists is taken to
be readable and well-formed, as the atomic replacement leaves it: that any read error leads to
the import (`impact.rs:417`) and content that does not parse to the default store
(`:434-440`) is left out.

`ImpactLog` is the abstract specification: the store changes as if each invocation
read and replaced it in one step; what an invocation makes of a store is a parameter.
`SerialUnlessClobbered` is `INSTANCE ImpactLog WITH clobbered <- tainted` as a property of
`ImpactStore`: the refinement holds until a writer without the one lock overlaps another.

### AnalysisFlight

`Trigger` is a view becoming visible, a change of scope or settings, or a command. It
starts a run, joins the one in flight, or (a command) waits for a re-run. A run goes from
"resolving" to "spawned" (`Spawn`, which fixes its arguments) or ends early
(`ResolveFails`, `StopBlocked`), and then `Succeed` or `Fail`. Promise reactions are
microtasks in a queue (`RunFinally`, `RunRerun`, `RunContinue`) that must be empty before
the next macrotask. `entry` is the back-off. Everything that renders is left out, and so is a
window without a workspace folder, where every run returns null results at once and counts as
a success (`commands.ts:628-632`).

### FixEdits and FixPlan

A file is a sequence of lines, each with an identity and what the fixers look at.
`FixEdits` has the edits: export keywords and lists, enum members, catalog entries
and groups, dependencies, with their line-number lookups. `Delete` removes a set of lines at
once: that the code removes from the bottom up (`exports.rs:446`), so that no removal moves
another's line, is built in and not checked. `FixPlan` runs the fixers in their order, file by file, each on what an
earlier one staged or else on the disk if its hash is the analysis'; a file that cannot be
read (it is gone, outside the root or not UTF-8) is passed over without a record
(`PassOver`; `passed` remembers it). Then the commit:
all temporary files, then all renames in path order, any of which may fail; then the
correction of the report and the exit code. `Save` is the editor, at any point. Left
out: comments, encodings, multi-document YAML; export lists whose closing brace is on a
later line, of which the code deletes the whole first line (`exports.rs:120-121`), and
specifiers with an alias, which it compares by the original name (`:130-136`).

## 3. Runs

`pass`: TLC explores all states without error. `violation`: the property is what
a comment or document says, and TLC finds a behaviour of the code that breaks it.

| run | instance | result |
| --- | --- | --- |
| `signals_command` | 2 workers, 2 PIDs (1 may become foreign), ids up to 2, 2 signals; 583,000 states | the registry holds exactly the keys and PIDs of live wrappers (`RegistrySound`); no registered child is missed (`RegisteredUntilDrained`); the drain kills all it took (`DrainKillsSnapshot`); a caught signal ends the process (`ForcedExit`) |
| `signals_watch` | watch, 1 worker, 2 signals; 98,000 states | `WatchStops`, with children |
| `watch_loop` | 1 file and the config, 3 changes or faults, 1 Ctrl-C; 625,000 states | a change is in the watcher, the channel, the debouncer or ahead of an analysis until one reads it (`ChangeOnItsWay`); it is analysed in the end (`ChangeAnalysed`); a stopped watch stops (`WatchStops`) |
| `worktree_safety` | 2 processes, the first of which the second cannot signal, 1 cache, failing git and file operations, 1 kill, 1 reaped cache, clock to 1; 7.4 million states | a locked entry is disturbed only by a git removal that outlived a killed process (`HeldEntryIntact`); a process that all find alive keeps its temporary worktree (`LiveTempKept`); until a kill, the aged branch removes nothing without a sidecar unless a file operation failed (`UnstampedSpared`) |
| `worktree_reclaim` | 2 processes, 1 cache, age branch off, 1 kill, 1 reap, 1 recycled PID; 187,000 states | until a kill, what an analysis reads is registered and complete (`CachePrepared`); `DeadTempsReclaimed`, `ReapedCachesReclaimed` |
| `lsp_push` | 2 files, 3 texts, 4 actions of the user or another program, versions that restart, failing runs, push only; 7.7 million states | `NonStaleIsCurrent`, `TrackedForClearing`, `CalmConverged`, `CancelDropsResults` |
| `lsp_pull` | 1 file, 2 texts, 3 user actions, failing runs, pulling editor, fair; 407,000 states | every change of the cache is followed by a refresh (`PulledMatchesCache`), every accepted save by a younger run (`AcceptedSaveAnalysed`) |
| `graph_build` | all projects of 3 barrels and an importer with 2 re-exports of 5 kinds, or 3 of 3 kinds, in file order; 1.4 million states | `LiveUnlessNamedOverStar`, `CreditsJustified`, `QuietRoundSettles`, `CapSparesChains`, `LiveReferencesReachable`, `StubTypesExact`, `SccsExact` |
| `graph_named_over_star` | forward chains of 2 | `LiveNeverReported` fails: a named re-export of what its source has through a star loses the reference |
| `impact_store` | 2 records from 2 worktrees, a third invocation of any kind, 2 findings, caps of 2 and 1; 209,000 states | `ResolvedCoversRecent`, `ContainmentOnce`; the refinement `SerialUnlessClobbered`; `RunsFinish` |
| `analysis_flight` | 4 triggers, 2 changes of scope, pause after 2 failures; 238,000 states | `OneAtATime`, `ForceShowsLatest`, `PausesAfterFailures`, `CallsAnswered` |
| `fix_plan` | 471 projects, 2 saves by the editor, unreadable files, dry and real; 1.28 million states | `LandsAsAnalysed`, `EarlySaveKept`, `AllStagedBeforeRename`, `ReportMatchesDisk`, `ExitZeroMeansLanded` |

### Bounds

Two PIDs are the least with which one is recycled while the other is a victim;
with two workers one can spawn while the other is killed. `MaxSpawns` bounds the ids
handed out, `MaxSignals` the signals; the second signal meets `DRAINING` already
set. Two processes are the least for every worktree race, and a slot runs
processes one after the other, so a sweep can meet the leftovers of several.
`MaxClock` 1 with `MaxAge` 1 lets a stamp age and be renewed. One kill is enough for a removal
to outlive its process and strike the next holder; a recycled PID is in the second run only. In the
language server an interesting case needs an open, a change or a write during a
run, and a save or a close: three to four user actions. `MaxInbox` 2 lets a run
overtake a notification.

In `Watch` three events are a removal of the root, its creation and a change in
between or after, or a config that breaks, is repaired and a file it admits; one file suffices
because paths do not interact except through the config, which is a second path. In the
graph a file order that runs against a chain, a diamond, a cycle, and a name
shadowed on the way need three barrels and up to three re-exports; the importer is
a fourth file. In the impact store two records race and a third process does something
unlocked or deletes; `MaxRecent` 1 makes the list of resolutions overflow. Four triggers
let a run, a joiner, a forced waiter and a late trigger meet. In the fix plan two
files have findings of two fixers each, so that one is staged while another is
saved. The proofs do not depend on any of these bounds.

Deadlock is checked in `Signals` and `Watch` (whose ended process stutters explicitly)
and in `BaseWorktree`. It is off where the system may come to rest: in the language
server and the extension when the user does nothing, in the graph and the fix plan when
the run is over, and in the impact store when all invocations have ended.

### Fairness

* `Signals!ThreadFairness`: the OS schedules the listener, the main thread and a
  worker that has something to do. `ForcedExit` assumes nothing of the children.
  `WatchStops` adds, in `signals_watch`, that children end some time: the loop waits for
  the pass it is in, and the pass waits for its children.
* `Watch!WatchFairSpec`: the main thread, the threads of the analysis, the listener
  and the notify crate's thread are scheduled, and time passes. Nothing is
  assumed of the user: `ChangeAnalysed` allows for a root that stays away.
* `BaseWorktree!FairSpec`: running processes and git's checkouts are scheduled (nothing is
  assumed of a removal that outlived its process); a process
  that took over a PID ends; audits keep being started (strong fairness, because
  a slot is not always free) and a sweep sometimes goes on to create a worktree. The
  last two are assumptions about use: nothing is reclaimed by a program that
  nobody runs.
* `LspServer!Fairness`: the server's tasks run and the editor answers refreshes and
  reads its messages. Nothing is assumed of the user.
* `ImpactStore!FairSpec`: each process is scheduled and the kernel grants a free lock.
* `AnalysisFlight!FairSpec`: the event loop goes on and every CLI process ends.

## 4. Proofs

All theorems but the two compositions and the refinement are of the form `Spec => []Inv` or
`Spec => [][A]_vars`, and all hold for every value of the constants that satisfies the
named `ASSUME`s.

* `SignalsProofs`: `TypeCorrect`, `RegistryIsSound`, `NoRegisteredChildMissed`,
  `DrainIsEffective`. The properties are not inductive. The invariant adds that an
  unreaped child occupies its PID and no two workers share one (`ChildrenInv`), that
  keys are below `nextId` and distinct (`KeysInv`), that the kill queue is empty outside
  the kill loop (`DrainInv`), and that a victim still under its key has the PID the
  drain took and, once its kill has been sent, is a zombie (`VictimsInv`). The last is
  why a recycled PID cannot make the drain spare a child.
* `BaseWorktreeProofs`: `TypeCorrect`, `HeldEntriesAreIntact`, `LiveTempsAreKept`,
  `UnstampedAreSpared`, `CachesArePrepared`. The invariant adds mutual exclusion
  (`LockInv`) and that a directory git has begun to create is registered, unless a stray
  removal struck it (`AddInv`), without which a prune could take it. `LiveTempsAreKept` holds
  whatever `Confirms` is: a sweep takes only what its own `kill -0` may call dead.
  `UnstampedAreSpared` needs that an orphan that is being dropped has no directory
  (`OrphanInv`) and `StampInv`: between the reading of a stamp and the lock an entry loses
  its stamp only together with its directory, or the removal failed; and a rebuild stamps it
  or undoes it before it unlocks, or the stamping failed. `CachesArePrepared` has two
  hypotheses, that git does not fail and that no cache reaches the age threshold; with
  either dropped, TLC finds a cache removed under the analysis that reads it, because the
  lock is released before the analysis starts. Its invariant `PrepInv` says that, until a
  kill, there is no stray removal (`NoStrays`), every directory is one git lists (`ListedInv`), a partial checkout has a process
  waiting for it (`PartialInv`), only what does not exist is rebuilt (`RebuildInv`) and a
  cache is complete from the readiness check to the end of the analysis (`CompleteInv`).
* `LspServerProofs`: `TypeCorrect`, `ResultsDroppedAfterCancel`,
  `FindingsStayTracked`, `PublishedIsCurrent`, `PullsMatchTheCache`, `CalmRunsConverge`.
  `PublishedIsCurrent` holds for editors that restart versions and for those that do not, and
  needs an invariant with five parts. `MessagesInv` and `DocumentsInv` say that a document
  state that was sent since the last `didOpen`, or that the server holds while no `didOpen`
  is under way, is not newer than the editor's, and is the same one if it has the same
  version; `SnapInv` bounds the versions of the run's snapshot; `ReadInv` says that while the
  editor's document is the one of a fresh snapshot, the disk has its text and so has what the
  run read, both for documents that are not `touched`; `UnreadInv` that publishing begins when
  every file has been read. `FindingsStayTracked` needs that
  a run never believes in pulls before the server does (`TrackInv`). `PullsMatchTheCache`
  needs that between publications every open document shows the cache or will be pulled
  (`PullInv`), and that an editor which only takes pushes owes no pull (`PushOnlyInv`).
  `CalmRunsConverge` follows a run nobody disturbs through its phases: it reads the disk
  and its snapshot stays that of the documents (`SameInv`), its loop has brought up to date
  what it passed (`LoopInv`), and what the loop does not visit had no findings to clear
  (`TrackInv` again), so that at the end everything settled is up to date (`DoneInv`).
* `WatchProofs`: `WatchImplementsSignals` (`WatchSpec => Spec`: every step of the
  composed loop is a step of `Signals` or leaves its state alone, so that the theorems
  of `SignalsProofs` carry over), `WatchTypeCorrect` and `NoChangeForgotten`
  (`ChangeOnItsWay`). The last needs four facts: before the loop there is neither a
  watcher nor a detached root (`BootInv`); what the initial analysis has not read is
  ahead of it, ignored or unheard (`InitialInv`), which makes the watcher start with
  nothing owed; the filter is the loaded config's until another config is loaded
  (`FilterInv`), so that what the callback drops does not count; and in the middle of a
  re-attachment nothing watches, and a config that was written since it was reloaded is one of
  the known misses (`ReloadInv`).
* `ModuleGraphProofs`: `TypeCorrect`, `QuietRounds`, `LiveReferences`,
  `CreditsAreJustified`, `LiveExportsSpared`, `StubFlags`, `CapIsEnough`, `SccsAreExact`, for
  every project; and `CyclesImplementsBuild`, that `CyclesSpec`, which the run checks, implements `Spec`.
  `RoundInv` says that while a round has changed nothing, every re-export it has passed is
  settled (`StepSettles`: an application that changes nothing leaves its re-export settled;
  `SettledStable`: it stays so while the symbols do). `SearchInv` says that the edges of a
  visited file that has left the queue lead to visited files, and `ReferenceInv` that direct
  references run along edges and, once the search is over, from visited files to visited
  files only, which every kind of re-export preserves (`PropagateReachable`).

  `CreditInv` says that the credits of a file stay within every set of exports that has
  what the file imports or exposes and that no re-export leaves. For `LiveExportsSpared`,
  `BuiltInv` keeps what `Populate` built; in a finished build every name that live code
  starts from is `Covered`, and resolution leads from covered names to covered names
  (`HopCovered`), the step that fails with a named re-export over a star. `StubInv` says that
  a stub which is a value has a star of values to thank for it. The theorem `StubFlags` has
  the hypothesis `~changed`: a propagation that the cap cuts short may leave a flag unsettled.

  `CapIsEnough` rests on a rank. Without a cycle, a file's rank is the number of re-exports
  ahead of it, at most all of them; a re-export raises it by one, and by two where several
  lead to the same file. `RankedInv` says that round k settles what leads to files of rank k,
  and where several re-exports do, that the round before has made their stubs: a named
  re-export that came too early in one round finds the stub in the next. The round that the
  cap allows last is therefore quiet.

  `SccsAreExact` is the correctness of the iterative Tarjan search. `FramesInv` says that the
  indices increase along the stack and along the frames; `LookedInv` that a re-export the
  search has looked at leads to a file that has an index, and that only the files with a frame
  have re-exports it has not looked at. `PathsInv` says that a file with a frame leads to all
  of the stack above it, and every file of the stack to one with a frame at or below it;
  `LowInv` that a lowlink is the index of a file of the stack that its file leads to, and that
  the frame a file belongs to has heard of all that was looked at from it; `ClassInv` that what
  has left the stack leads only to what has left it and is split into classes. They are stated
  of every relation that is the least one following the re-exports, of which `Leads` is one:
  the re-exports never change during the search, so neither does that relation. When a frame
  ends with its lowlink at its own index, what it pops is then closed but for finished files
  (nothing below is heard of) and strongly connected (its members lead to a frame below them
  and from there, by the lowlinks, down to the root). TLC checked the conjunction
  (`TarjanInv`) on all projects of 4 files with up to 4 re-exports before it was proved.
* `ImpactStoreProofs`: `TypeCorrect`, `TotalCoversRecent`, `GateContainedOnce` and `StoreIsLog`
  (the refinement of `ImpactLog`). `StoresInv` says that the file and every loaded copy are
  stores that ended invocations left, each with its own gates and its totals above its lists;
  this is what makes the first two hold even when writers overwrite one another. The
  refinement needs `LockInv`: until a write without the lock, whoever waits for the lock or
  holds it opened the file the path still names, so one process holds it, and its copy is
  what the file has.
* `AnalysisFlightProofs`: `TypeCorrect`, `RunsNeverOverlap`, `ExplicitCallsShowLatest`,
  `AutomaticRunsPause`. `SlotInv` says that only the last run can be running and that, while
  the slot is taken by a run that has settled, its `finally` is the whole queue of
  microtasks; `RerunInv` that at most one re-run waits; `ScopeInv` that a run's arguments are
  as new as those of the explicit calls it answers; `AnswerInv` that what is shown answers
  those that were told of a success; `CountInv` that the back-off entry counts the failures in
  a row, and `AllowInv` that no automatic run at work would be one too many.
* `FixPlanProofs`: `TypeCorrect`, `EarlySavesKept`, `RenamesWaitForStaging`, `ReportsMatchDisk`,
  `ExitZeroLanded`, `FixesLand`, `WorkspaceLands`. `StageInv` says that a planned source file was
  not saved before it was planned and that an unplanned one is what the analysis read below what
  was saved since; `CommitInv` goes through the stages of the commit; `ReportInv` ties reported
  fixes to planned files; `WorkInv` says that a source file with something to fix that its fixer
  has passed is planned, or skipped for a reason that changes the exit code, or could not be
  read.

  `FixesLand` is about the texts. A line that remains is the one of its rank among those kept
  (`NthFacts`), which gives `DeleteTwice`: lines removed in two rounds, the later above all the
  earlier ones, might as well be removed at once. For the catalog fixers this is all that is
  needed (`CatalogsTogether`), and `WorkspaceLands` assumes nothing of the file or the findings.
  The member fixer also looks at the rest of the file, to see whether an enum can go as a whole,
  so the theorem about source files has the hypothesis `Separate`: a member is not on an export
  list's line, its enum is not reported itself and is declared above the lines that the export fixer
  removes, and these do not mention it. Then all that the member fixer looks at is the same in
  the text it reads and in the text the analysis read (`Mirrors`), and so are its edits
  (`MembersMirrored`, `SourcesTogether`). The first conditions are what the analysis reports; the
  last cannot be dropped: with `enum D { A }`, where `A` is unused, above an unused enum that is
  removed and was the only other one to mention `D`, the member fixer removes `D` as a whole,
  which on the analysed text it would not. TLC found `Separate` true of every file of
  `fix_plan` of which `Unshifted` is, so it takes nothing from the run. `HandOnInv` then follows
  a file through the run: unless it was saved early, could not be read or is kept from the fixers, what the next one
  reads is what the analysis read, or what the fixers before it made of that; a fixer that finds
  nothing would write what it read (`IdleEdits`).

The constants' assumptions are few. Bounds are natural numbers; caps and limits are
positive. Names, paths and symbols are finite sets (`NamesAssumption`, `FiniteAssumption`),
which the cardinalities of the closures and lists need. Model values that stand for "none"
are not members of the sets they complete (`RunsAssumption`, `EntryAssumption`). The stores
that the impact store may start from are such as earlier invocations leave
(`LeftAssumption`); the path order of the fix plan lists every target once
(`PathOrderAssumption`); the projects of the graph and the fix plan are well-formed
(`FamiliesAssumption`, `ProjectsAssumption`).

The closures of `ModuleGraph` are recursive functions over a number of rounds. What they
compute is proved without induction schemes: `LeastNumber` (a set of numbers has a least
member) gives, for an arbitrary iteration of a function on subsets of a finite set, that it
exists, that it grows, that it stays within every closed set above its start, and that it is
closed after as many rounds as the set has elements (`IterationExists`, `IterationGrows`,
`IterationWithin`, `IterationCloses`). The closures are instances (`LooseClosureIterates`,
`ResolveClosureIterates`, `EntryStarsIterate`, `LeadsIterate`).

Only model-checked: the liveness properties (`ForcedExit`, `WatchStops`,
`ChangeAnalysed`, `DeadTempsReclaimed`, `ReapedCachesReclaimed`, `AcceptedSaveAnalysed`,
`RunsFinish`, `CallsAnswered`), because the prover handles neither fairness nor ENABLED. Every
safety property of a passing run is stated by a theorem, for some under a hypothesis given
above (`Separate` for `LandsAsAnalysed`, `~changed` for `StubTypesExact`, neither failing git
calls nor ageing for `CachePrepared`).

## 5. What the models show about the code

The one finding of `PROJECT.json` with a run of its own is `graph_named_over_star`: with
`export { a } from './b'` over `export * from './c'`, an import of `a` is never credited
to `c`, whose export is then reported as unused (`propagate.rs:266`).

The models contain further windows. The properties are stated so that they hold
in spite of them, and say where they stop:

* *Signals.* A child between `spawn` and `register` is not in the registry and
  survives the process (`scoped_child.rs:48`). Kills are sent after the registry's lock is
  released, so a child that is reaped between the snapshot and its kill may have lost
  its PID to another process; the window the comments describe
  (`scoped_child.rs:19-25`) is only the one between reaping and deregistering. A stopped
  watch may exit with 130 or 143 (`signal/mod.rs:135`, against `:14-16`): the loop drops
  its guard while the handler is still draining.
* *Watch.* The watcher is created after the initial analysis: a file changed in
  between is not noticed until it changes again (`watch.rs:381`). A root that is replaced
  between two root checks leaves the watcher with the old directory. A config that is
  written during a re-attachment, after it was reloaded (`:589`) and before the new watcher
  is there (`:591`), is not noticed: the analysis that follows uses the one at hand.
  A config that
  is loaded again on a change does not renew the filter (`:497`; `CHANGELOG.md:690` says that
  events pass the same `ignorePatterns` rules as discovery), so a file that the new
  config admits stays unheard until the root is re-attached. An analysis that fails is not repeated. The quiet window starts
  again with every event (`:251`), so a file that is written steadily is never analysed. The
  loop's branch for a disconnected channel cannot be reached, because `run_watch` keeps
  a sender.
* *Base worktrees.* A `git worktree add` that is killed leaves a partial checkout that
  passes for ready (`base_worktree.rs:464`, against `:162-163`); this is why `CachePrepared`
  ends with a kill. A process that is killed while git removes an entry frees the lock and
  leaves git running (`:574`): the removal can delete what the next holder has just built,
  which `HeldEntryIntact` leaves out (`struck`). The sweep of temporary worktrees takes a live
  process for dead when `kill -0` is not permitted or cannot be run (`:695-700`; the
  comment at `:744-748` reads `kill -0` as alive unless proved dead), and removes its worktree under it;
  `LiveTempKept` is about processes that everyone may signal. A git that fails to remove a
  temporary worktree, at the drop or in a sweep, leaves it to a later sweep (`:574-592`). A
  sidecar that cannot be written leaves a used cache without a stamp (`:248-254`); an aged
  cache whose directory cannot be removed loses its sidecar all the same (`:441-451`), and the
  process that read the old stamp then removes a cache without one: `UnstampedSpared` leaves
  out both. The age of a cache is read before its lock is taken (`:421`, `:434`) and not read
  again: a cache that was reused and stamped in between is removed under its user. A
  `git worktree list` that fails once makes a ready cache look unready (`:465`), and the
  rebuild removes it under a process that no longer holds the lock.
* *Language server.* A document that is opened while a run is under way may get findings of
  a text that the disk had before (`main.rs:1275`, against the comment at `:1248`). A save inside the
  500 ms window is dropped although the run may have read the file already (`:808`;
  `editors/nvim/README.md:51` says that diagnostics are refreshed on save). The comparison of
  versions (`:1270-1273`) does not see that another program (a checkout, a formatter, `fallow
  fix`) wrote an open document during the run, nor that the editor closed and reopened it with
  versions that restart: findings of another text are then published as current, and
  `NonStaleIsCurrent` leaves out such documents (`touched`). A first
  pull that arrives during a publish loop leaves pushed findings beside the pulled
  ones, because `client_pulls` is read once (`:1299`). A run past its cancellation check
  publishes after `shutdown` has been answered. A config that does not load clears all
  findings until the next good run.
* *Module graph.* Cycles with renames can need more rounds than the cap: with
  `export { b as a, c as b, d as c } from 2` in file 0, `export * from 0` in file 1,
  `export * from 1` in file 2, which owns b, c and d, and an import of `a` from file 2, the
  sixth and last round still changes something. What is cut off in the example is only a
  credit that no import justifies. `CapSparesChains` is about projects without a
  cycle (`CHANGELOG.md:887`).
* *Impact store.* `enable`, `disable`, `decline_onboarding` and `take_due_digest` load
  and save without the lock (`impact.rs:614`); a sweep removes another project's store
  without its lock (`:560`); `reset_all` removes the lock files too (`:794`), so that two
  processes can hold "the" lock, against the comment at `:474-476`; a lock file that cannot be opened lets
  a record go on unlocked (`:486`). After a reset or a sweep the old in-repository store is
  imported again. A run in another worktree can take back a credit of this one.
* *VS Code.* A change of the scope joins the run in flight, whose arguments may be the
  old ones (`extension.ts:767-768`, against the comment at `:760-762`); `ForceShowsLatest` is about
  commands.
* *Fixes.* Two catalog fixers, and the export and the enum-member fixer, use the
  analysis' line numbers on a file the first has already shortened (`catalog.rs:679`;
  `:435` says that only the named header line is deleted); `LandsAsAnalysed` is
  about files where the first moves no line of the second. A file that cannot be read, is not
  UTF-8 or has vanished is passed over in silence (`plan.rs:271`, `io.rs:49-55`; the test
  `export_fix_nonexistent_file_skipped`, `exports.rs:1050`, expects no error), so that exit
  code 0 does not mean that its fixes landed. Source files are protected by their hash until a
  fixer has read them and stages something; a later save is overwritten by the rename
  (`plan.rs:178`). `pnpm-workspace.yaml` has no captured hash and is
  edited by line, although `:225-226` says that it is looked up by key. When staging
  fails only the failing path is corrected in the report (`fix/mod.rs:527`). The config file is written before the commit, whatever becomes
  of the commit.

## 6. Plan

Done: the signal path, the watch loop and their composition, base worktrees, the
language server, the module graph, the impact store with its refinement, the
extension's runs and the fix plan. Next, in this order:

1. `cycles.rs`: the enumeration of elementary cycles and its caps, against their
   set-theoretic definition.
2. `ExtractCache`: lookups by metadata, eviction in batches at the size cap
   (`store.rs:91`), saves of several processes.
3. The update check's cache file and the extension's child registry.

## 7. Not modelled

Parsing, extraction, resolution of specifiers, the predicates over the finished graph
other than unused exports, duplicate detection, formatting, configuration, health
scoring, uploads and CI scripts: deterministic functions of their input, or I/O. They
are most of the repository's lines and have neither interleavings nor failures that a
model checker would reach; the share of the code that the map covers is small for that
reason. Within modelled components: namespace re-exports and aliases, clone groups of the
impact store, the extension's other views. Operating system and git internals beyond
what section 2 says. Memory ordering of the atomics: all are `SeqCst` or guard no other
data.

## 8. Running

    tlc -workers 2 -config SignalsCommand.cfg MCSignals
    tlapm SignalsProofs.tla

and likewise for the other runs, whose module and configuration `PROJECT.json` names,
and the other proof modules.
