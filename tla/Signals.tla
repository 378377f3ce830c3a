------------------------------- MODULE Signals -------------------------------
(***************************************************************************)
(* The termination-signal path of the fallow CLI: crates/cli/src/signal/.   *)
(*                                                                         *)
(* One process runs a command.  Its main thread installs the handler and,   *)
(* for `fallow watch', holds a GracefulModeGuard around a loop of analysis  *)
(* passes.  Worker threads run child processes (git, the coverage sidecar,  *)
(* npm) through ScopedChild, which keeps the child's PID in a process-wide  *)
(* registry.  A listener thread handles one signal at a time: it raises     *)
(* SHUTDOWN, drains the registry once, kills what it drained, polls for     *)
(* liveness within a budget, and then exits the process unless GRACEFUL.    *)
(*                                                                         *)
(* PIDs are recycled by the operating system: a reaped child's PID may be   *)
(* given to a foreign process or to a later child.                          *)
(***************************************************************************)
EXTENDS Naturals, FiniteSets

CONSTANTS
    Workers,        \* threads that run child processes
    Pids,           \* the operating system's PID space
    WatchCommand,   \* TRUE: the command is `fallow watch'
    ForeignPids,    \* PIDs the OS may hand to processes that are not ours
    MaxSpawns,      \* bound: no spawn once this many ids have been handed out
    MaxSignals      \* bound: number of termination signals delivered

ASSUME SignalsAssumption ==
    /\ WatchCommand \in BOOLEAN
    /\ ForeignPids \subseteq Pids
    /\ MaxSpawns \in Nat
    /\ MaxSignals \in Nat

TermSignals == {"SIGINT", "SIGTERM"}

CodeOf(sig) == IF sig = "SIGINT" THEN 130 ELSE 143

\* A registry entry: the monotonic key and the PID it stands for.
Entry == [id : Nat, pid : Pids]

VARIABLES
    installed,   \* the handler is installed (INSTALLED)
    shutdown,    \* SHUTDOWN
    graceful,    \* GRACEFUL
    pending,     \* signals caught and not yet taken by the listener
    sent,        \* number of signals delivered so far
    listener,    \* the listener thread's place in handle_signal
    code,        \* the exit code of the signal being handled
    draining,    \* DRAINING: 0 until the first drain, 1 forever after
    registry,    \* REGISTRY
    nextId,      \* NEXT_ID
    victims,     \* the entries the drain took
    queue,       \* the victims whose kill has not been sent yet
    wpc,         \* where each worker is in the life of its ScopedChild
    wpid,        \* the PID of the worker's current or last child
    wid,         \* its registry key
    proc,        \* the OS process table
    main,        \* the main thread's place in main / run_watch
    ret,         \* the exit code the main thread is about to return
    exit,        \* how the process ended
    exitCode

sigVars    == <<installed, shutdown, graceful, pending, sent>>
regVars    == <<draining, registry, nextId, victims, queue>>
listenVars == <<listener, code>>
workVars   == <<wpc, wpid, wid>>
mainVars   == <<main, ret>>
exitVars   == <<exit, exitCode>>

vars == <<sigVars, regVars, listenVars, workVars, proc, mainVars, exitVars>>

TypeOK ==
    /\ installed \in BOOLEAN
    /\ shutdown \in BOOLEAN
    /\ graceful \in BOOLEAN
    /\ pending \subseteq TermSignals
    /\ sent \in Nat
    /\ listener \in {"idle", "drain", "snapshot", "kill", "poll", "decide", "exiting"}
    /\ code \in {0, 130, 143}
    /\ draining \in {0, 1}
    /\ registry \subseteq Entry
    /\ nextId \in Nat
    /\ victims \subseteq Entry
    /\ queue \subseteq victims
    /\ wpc \in [Workers -> {"idle", "spawned", "keyed", "owned", "waiting",
                            "reaped", "dropping"}]
    /\ wpid \in [Workers -> Pids]
    /\ wid \in [Workers -> Nat]
    /\ proc \in [Pids -> {"free", "running", "zombie", "foreign"}]
    /\ main \in {"boot", "ready", "guarding", "initial", "loop", "rootCheck", "attached",
                 "receive", "pass", "return", "unguarded", "exited"}
    /\ ret \in {0, 2}
    /\ exit \in {"none", "main", "handler", "default"}
    /\ exitCode \in {0, 2, 130, 143}

Init ==
    /\ installed = FALSE
    /\ shutdown = FALSE
    /\ graceful = FALSE
    /\ pending = {}
    /\ sent = 0
    /\ listener = "idle"
    /\ code = 0
    /\ draining = 0
    /\ registry = {}
    /\ nextId = 1
    /\ victims = {}
    /\ queue = {}
    /\ wpc = [w \in Workers |-> "idle"]
    /\ wpid \in {[w \in Workers |-> p] : p \in Pids}
    /\ wid = [w \in Workers |-> 0]
    /\ proc = [p \in Pids |-> "free"]
    /\ main = "boot"
    /\ ret = 0
    /\ exit = "none"
    /\ exitCode = 0

-----------------------------------------------------------------------------
(* The main thread. *)

Alive == exit = "none"

\* Workers run children only inside a command body or an analysis pass.
InBody == main \in {"initial", "attached", "pass"}

AllIdle == \A w \in Workers : wpc[w] = "idle"

\* install_signal_handlers in main: a failure is reported and ignored.
InstallHandlers ==
    /\ Alive
    /\ main = "boot"
    /\ installed' \in BOOLEAN
    /\ main' = IF WatchCommand THEN "ready" ELSE "initial"
    /\ UNCHANGED <<shutdown, graceful, pending, sent, regVars, listenVars, workVars,
                   proc, ret, exitVars>>

\* run_watch installs again: a no-op when installed, another attempt otherwise.
ReinstallHandlers ==
    /\ Alive
    /\ main = "ready"
    /\ installed' \in {installed, TRUE}
    /\ main' = "guarding"
    /\ UNCHANGED <<shutdown, graceful, pending, sent, regVars, listenVars, workVars,
                   proc, ret, exitVars>>

\* GracefulModeGuard::new, then the initial pass of run_watch begins.
EnterGraceful ==
    /\ Alive
    /\ main = "guarding"
    /\ graceful' = TRUE
    /\ main' = "initial"
    /\ UNCHANGED <<installed, shutdown, pending, sent, regVars, listenVars, workVars,
                   proc, ret, exitVars>>

\* The command body ends; 2 stands for every status other than SUCCESS.  A watch
\* whose initial pass failed, or that gets no watcher, returns.
FinishInitial ==
    /\ Alive
    /\ main = "initial"
    /\ AllIdle
    /\ \E status \in {0, 2} :
          /\ ret' = status
          /\ main' = IF WatchCommand /\ status = 0 THEN "loop" ELSE "return"
    /\ UNCHANGED <<sigVars, regVars, listenVars, workVars, proc, exitVars>>

\* Mutant of CheckShutdown: the loop never reads the flag.
CheckShutdownIgnored ==
    /\ Alive
    /\ main = "loop"
    /\ main' = "rootCheck"
    /\ UNCHANGED <<sigVars, regVars, listenVars, workVars, proc, ret, exitVars>>

\* The top of the watch loop: is_shutting_down ends the watch with SUCCESS.
CheckShutdown ==
    /\ Alive
    /\ main = "loop"
    /\ main' = IF shutdown THEN "return" ELSE "rootCheck"
    /\ UNCHANGED <<sigVars, regVars, listenVars, workVars, proc, ret, exitVars>>

\* The root check of an iteration; a root that was re-attached is analysed.
RootLifecycle ==
    /\ Alive
    /\ main = "rootCheck"
    /\ main' \in {"receive", "attached"}
    /\ UNCHANGED <<sigVars, regVars, listenVars, workVars, proc, ret, exitVars>>

\* That analysis ends; the iteration goes on without looking at SHUTDOWN.
FinishAttach ==
    /\ Alive
    /\ main = "attached"
    /\ AllIdle
    /\ main' = "receive"
    /\ UNCHANGED <<sigVars, regVars, listenVars, workVars, proc, ret, exitVars>>

\* The rest of an iteration: nothing to do, or a batch that is ready.  The channel
\* cannot disconnect, because run_watch keeps a sender.
PollWatch ==
    /\ Alive
    /\ main = "receive"
    /\ main' \in {"loop", "pass"}
    /\ UNCHANGED <<sigVars, regVars, listenVars, workVars, proc, ret, exitVars>>

\* A reanalysis ends; whatever its status, the watch goes on.
FinishPass ==
    /\ Alive
    /\ main = "pass"
    /\ AllIdle
    /\ main' = "loop"
    /\ UNCHANGED <<sigVars, regVars, listenVars, workVars, proc, ret, exitVars>>

\* The GracefulModeGuard is dropped when run_watch returns.
DropGuard ==
    /\ Alive
    /\ main = "return"
    /\ WatchCommand
    /\ graceful' = FALSE
    /\ main' = "unguarded"
    /\ UNCHANGED <<installed, shutdown, pending, sent, regVars, listenVars, workVars,
                   proc, ret, exitVars>>

\* main returns its exit code.
MainExit ==
    /\ Alive
    /\ main = IF WatchCommand THEN "unguarded" ELSE "return"
    /\ main' = "exited"
    /\ exit' = "main"
    /\ exitCode' = ret
    /\ UNCHANGED <<sigVars, regVars, listenVars, workVars, proc, ret>>

-----------------------------------------------------------------------------
(* Worker threads: the life of a ScopedChild. *)

\* ScopedChild::spawn, first half: command.spawn() created a process.
Spawn(w) ==
    /\ Alive
    /\ InBody
    /\ wpc[w] = "idle"
    /\ nextId <= MaxSpawns
    /\ \E p \in Pids :
          /\ proc[p] = "free"
          /\ proc' = [proc EXCEPT ![p] = "running"]
          /\ wpid' = [wpid EXCEPT ![w] = p]
    /\ wpc' = [wpc EXCEPT ![w] = "spawned"]
    /\ UNCHANGED <<sigVars, regVars, listenVars, wid, mainVars, exitVars>>

\* register, first half: NEXT_ID.fetch_add.
TakeId(w) ==
    /\ Alive
    /\ wpc[w] = "spawned"
    /\ wid' = [wid EXCEPT ![w] = nextId]
    /\ nextId' = nextId + 1
    /\ wpc' = [wpc EXCEPT ![w] = "keyed"]
    /\ UNCHANGED <<sigVars, draining, registry, victims, queue, listenVars, wpid, proc,
                   mainVars, exitVars>>

\* register, second half: the insert under the lock.
Register(w) ==
    /\ Alive
    /\ wpc[w] = "keyed"
    /\ registry' = registry \cup {[id |-> wid[w], pid |-> wpid[w]]}
    /\ wpc' = [wpc EXCEPT ![w] = "owned"]
    /\ UNCHANGED <<sigVars, draining, nextId, victims, queue, listenVars, wpid, wid, proc,
                   mainVars, exitVars>>

Without(id) == {e \in registry : e.id # id}

\* Mutant of Wait: deregisters before it blocks.
WaitDeregistersFirst(w) ==
    /\ Alive
    /\ wpc[w] = "owned"
    /\ registry' = Without(wid[w])
    /\ wpc' = [wpc EXCEPT ![w] = "waiting"]
    /\ UNCHANGED <<sigVars, draining, nextId, victims, queue, listenVars, wpid, wid, proc,
                   mainVars, exitVars>>

\* wait / wait_with_output take the child and the key and block.
Wait(w) ==
    /\ Alive
    /\ wpc[w] = "owned"
    /\ wpc' = [wpc EXCEPT ![w] = "waiting"]
    /\ UNCHANGED <<sigVars, regVars, listenVars, wpid, wid, proc, mainVars, exitVars>>

\* Child::wait returns: the child is reaped and its PID is free again.
Reap(w) ==
    /\ Alive
    /\ wpc[w] = "waiting"
    /\ proc[wpid[w]] = "zombie"
    /\ proc' = [proc EXCEPT ![wpid[w]] = "free"]
    /\ wpc' = [wpc EXCEPT ![w] = "reaped"]
    /\ UNCHANGED <<sigVars, regVars, listenVars, wpid, wid, mainVars, exitVars>>

\* Mutant of Deregister: the entry of a finished child is left behind.
DeregisterForgotten(w) ==
    /\ Alive
    /\ wpc[w] = "reaped"
    /\ wpc' = [wpc EXCEPT ![w] = "idle"]
    /\ UNCHANGED <<sigVars, regVars, listenVars, wpid, wid, proc, mainVars, exitVars>>

\* ... and only then deregister runs.
Deregister(w) ==
    /\ Alive
    /\ wpc[w] = "reaped"
    /\ registry' = Without(wid[w])
    /\ wpc' = [wpc EXCEPT ![w] = "idle"]
    /\ UNCHANGED <<sigVars, draining, nextId, victims, queue, listenVars, wpid, wid, proc,
                   mainVars, exitVars>>

\* Drop of an unconsumed ScopedChild, first half: deregister.
DropDeregister(w) ==
    /\ Alive
    /\ wpc[w] = "owned"
    /\ registry' = Without(wid[w])
    /\ wpc' = [wpc EXCEPT ![w] = "dropping"]
    /\ UNCHANGED <<sigVars, draining, nextId, victims, queue, listenVars, wpid, wid, proc,
                   mainVars, exitVars>>

\* Second half: try_wait reaps the child only if it has already exited.
DropTryWait(w) ==
    /\ Alive
    /\ wpc[w] = "dropping"
    /\ proc' = IF proc[wpid[w]] = "zombie" THEN [proc EXCEPT ![wpid[w]] = "free"] ELSE proc
    /\ wpc' = [wpc EXCEPT ![w] = "idle"]
    /\ UNCHANGED <<sigVars, regVars, listenVars, wpid, wid, mainVars, exitVars>>

-----------------------------------------------------------------------------
(* The signal listener thread: handle_signal and drain_and_kill. *)

\* signals.forever yields a signal; handle_signal raises SHUTDOWN first.
TakeSignal ==
    /\ Alive
    /\ listener = "idle"
    /\ \E sig \in pending :
          /\ pending' = pending \ {sig}
          /\ code' = CodeOf(sig)
    /\ shutdown' = TRUE
    /\ listener' = "drain"
    /\ UNCHANGED <<installed, graceful, sent, regVars, workVars, proc, mainVars, exitVars>>

\* The DRAINING compare_exchange: only the first call ever drains.
DrainOnce ==
    /\ Alive
    /\ listener = "drain"
    /\ draining' = 1
    /\ listener' = IF draining = 0 THEN "snapshot" ELSE "decide"
    /\ UNCHANGED <<sigVars, registry, nextId, victims, queue, code, workVars, proc,
                   mainVars, exitVars>>

\* The registry is emptied under its lock.
Snapshot ==
    /\ Alive
    /\ listener = "snapshot"
    /\ victims' = registry
    /\ queue' = registry
    /\ registry' = {}
    /\ listener' = "kill"
    /\ UNCHANGED <<sigVars, draining, nextId, code, workVars, proc, mainVars, exitVars>>

\* What SIGKILL does to a PID: nothing to a free one, nothing new to a zombie.
Killed(p) ==
    CASE proc[p] = "running" -> "zombie"
      [] proc[p] = "foreign" -> "free"
      [] OTHER -> proc[p]

\* kill_pid, one PID at a time, in the hash map's order (any order).
KillPid ==
    /\ Alive
    /\ listener = "kill"
    /\ \E v \in queue :
          /\ queue' = queue \ {v}
          /\ proc' = [proc EXCEPT ![v.pid] = Killed(v.pid)]
    /\ UNCHANGED <<sigVars, draining, registry, nextId, victims, listenVars, workVars,
                   mainVars, exitVars>>

\* Mutant of StartPoll: the poll may begin with kills outstanding.
StartPollEarly ==
    /\ Alive
    /\ listener = "kill"
    /\ listener' = "poll"
    /\ UNCHANGED <<sigVars, regVars, code, workVars, proc, mainVars, exitVars>>

\* Every kill has been sent: the bounded liveness poll begins.
StartPoll ==
    /\ Alive
    /\ listener = "kill"
    /\ queue = {}
    /\ listener' = "poll"
    /\ UNCHANGED <<sigVars, regVars, code, workVars, proc, mainVars, exitVars>>

\* Mutant of EndPoll: the poll has no deadline.
EndPollWhenDead ==
    /\ Alive
    /\ listener = "poll"
    /\ \A v \in victims : proc[v.pid] = "free"
    /\ listener' = "decide"
    /\ UNCHANGED <<sigVars, regVars, code, workVars, proc, mainVars, exitVars>>

\* The poll ends early when no victim is alive, and at its deadline whatever
\* the victims do, so it may end in any state.
EndPoll ==
    /\ Alive
    /\ listener = "poll"
    /\ listener' = "decide"
    /\ UNCHANGED <<sigVars, regVars, code, workVars, proc, mainVars, exitVars>>

\* The GRACEFUL load: return to the listener loop, or go on to exit.
Decide ==
    /\ Alive
    /\ listener = "decide"
    /\ listener' = IF graceful THEN "idle" ELSE "exiting"
    /\ UNCHANGED <<sigVars, regVars, code, workVars, proc, mainVars, exitVars>>

\* std::process::exit(128 + signum).
HandlerExit ==
    /\ Alive
    /\ listener = "exiting"
    /\ exit' = "handler"
    /\ exitCode' = code
    /\ UNCHANGED <<sigVars, regVars, listenVars, workVars, proc, mainVars>>

-----------------------------------------------------------------------------
(* The operating system (external). *)

\* A signal reaches the process.  Without a handler its default action ends it.
DeliverSignal ==
    /\ Alive
    /\ sent < MaxSignals
    /\ sent' = sent + 1
    /\ \E sig \in TermSignals :
          IF installed
          THEN pending' = pending \cup {sig} /\ UNCHANGED exitVars
          ELSE pending' = pending /\ exit' = "default" /\ exitCode' = CodeOf(sig)
    /\ UNCHANGED <<installed, shutdown, graceful, regVars, listenVars, workVars, proc,
                   mainVars>>

\* A child ends by itself.
ChildExits(p) ==
    /\ Alive
    /\ proc[p] = "running"
    /\ proc' = [proc EXCEPT ![p] = "zombie"]
    /\ UNCHANGED <<sigVars, regVars, listenVars, workVars, mainVars, exitVars>>

\* A foreign process takes a free PID, or ends.
ForeignProcess(p) ==
    /\ Alive
    /\ p \in ForeignPids
    /\ \/ proc[p] = "free" /\ proc' = [proc EXCEPT ![p] = "foreign"]
       \/ proc[p] = "foreign" /\ proc' = [proc EXCEPT ![p] = "free"]
    /\ UNCHANGED <<sigVars, regVars, listenVars, workVars, mainVars, exitVars>>

Terminated == ~Alive /\ UNCHANGED vars

-----------------------------------------------------------------------------

MainStep ==
    \/ InstallHandlers \/ ReinstallHandlers \/ EnterGraceful \/ FinishInitial
    \/ CheckShutdown \/ RootLifecycle \/ FinishAttach \/ PollWatch \/ FinishPass
    \/ DropGuard \/ MainExit

\* What a worker does with a child it has.
ChildStep(w) ==
    \/ TakeId(w) \/ Register(w) \/ Wait(w) \/ Reap(w) \/ Deregister(w)
    \/ DropDeregister(w) \/ DropTryWait(w)

ListenerStep ==
    \/ TakeSignal \/ DrainOnce \/ Snapshot \/ KillPid \/ StartPoll \/ EndPoll
    \/ Decide \/ HandlerExit

OSStep ==
    \/ DeliverSignal
    \/ \E p \in Pids : ChildExits(p) \/ ForeignProcess(p)

Next ==
    \/ MainStep
    \/ \E w \in Workers : Spawn(w) \/ ChildStep(w)
    \/ ListenerStep
    \/ OSStep
    \/ Terminated

Spec == Init /\ [][Next]_vars

\* The scheduler runs every thread that can run.  Nothing is assumed of the
\* children: a forced exit may not depend on them.
ThreadFairness ==
    /\ WF_vars(ListenerStep)
    /\ WF_vars(MainStep)
    /\ \A w \in Workers : WF_vars(ChildStep(w))

FairSpec == Spec /\ ThreadFairness

\* In addition every child process ends sooner or later by itself.
TerminatingChildrenSpec ==
    FairSpec /\ \A p \in Pids : WF_vars(ChildExits(p))

-----------------------------------------------------------------------------
(* Properties. *)

\* Stages in which the worker's ScopedChild may be in the registry.
HoldsEntry == {"owned", "waiting", "reaped"}

\* The registry never leaks: every entry is the key and the PID of exactly one
\* wrapper that is between its register and its deregister, so a drain can only
\* ever kill PIDs that a live ScopedChild stands for (register/deregister, with
\* every interleaving of wait, drop and drain).
RegistrySound ==
    \A e \in registry :
        /\ \E w \in Workers :
              wid[w] = e.id /\ wpid[w] = e.pid /\ wpc[w] \in HoldsEntry
        /\ \A f \in registry : f.id = e.id => f = e

\* Until the drain takes its snapshot, every child a ScopedChild is waiting on,
\* or has registered, is in the registry under its own PID: no registered child
\* can be missed by the one drain the process ever does.
RegisteredUntilDrained ==
    (draining = 0 \/ listener = "snapshot") =>
        \A w \in Workers :
            wpc[w] \in {"owned", "waiting"} =>
                [id |-> wid[w], pid |-> wpid[w]] \in registry

\* Once the kill loop of drain_and_kill is over, no child whose entry the drain
\* took is still running under its wrapper, although its worker may meanwhile
\* wait, reap and spawn again, and its PID may be recycled.
DrainKillsSnapshot ==
    listener # "kill" =>
        \A v \in victims : \A w \in Workers :
            wid[w] = v.id /\ wpc[w] \in {"owned", "waiting"} => proc[v.pid] # "running"

\* Outside watch, a caught signal ends the process, whatever the children do:
\* the drain is bounded, so a hung or unreaped child cannot hold it up.
ForcedExit == (pending # {}) ~> ~Alive

\* In watch, SHUTDOWN ends the process once the children it still waits on end.
WatchStops == shutdown ~> ~Alive

=============================================================================
