-------------------------------- MODULE Watch --------------------------------
(***************************************************************************)
(* The loop of `fallow watch': crates/cli/src/watch.rs, composed with the   *)
(* signal path of module Signals, whose main-thread actions it refines.     *)
(*                                                                         *)
(* The OS watcher (external, the notify crate) raises an event for a change *)
(* below the directory it follows and hands it to a callback, which filters *)
(* it and sends it to the loop's channel.  The loop collects paths in a     *)
(* debouncer and analyses again when 500 ms have passed without an event.   *)
(* Once a second it looks whether the root is still there: a root that is   *)
(* gone detaches the watch, and one that came back is attached and analysed.*)
(*                                                                         *)
(* A directory that was deleted and created again is another directory: the *)
(* OS watcher keeps following the one it was given.                         *)
(***************************************************************************)
EXTENDS Signals, Sequences

CONSTANTS
    Files,       \* source files of the project
    Ignorable,   \* those that the ignore patterns of some config exclude
    MaxEvents    \* bound: changes and faults of the environment

Config == "config"   \* the project's config file
Error  == "error"    \* a notify::Error in the channel
Broken == {Error}    \* what the config file says when it does not parse

Paths    == Files \cup {Config}
Patterns == SUBSET Ignorable

ASSUME WatchAssumption ==
    /\ WatchCommand
    /\ Ignorable \subseteq Files
    /\ {Config, Error} \cap Files = {}
    /\ MaxEvents \in Nat

VARIABLES
    root,          \* the directory at the root's path, 0: none
    roots,         \* number of directories that have been there
    diskConfig,    \* the ignore patterns in the config file, or Broken
    config,        \* those of the loaded config
    filter,        \* those of the watcher's filter
    watching,      \* the directory the OS watcher follows, 0: no watcher
    raised,        \* paths with an event the callback has not seen yet
    channel,       \* what the callback has sent to the loop
    batch,         \* PathDebouncer.paths
    last,          \* PathDebouncer.last_update: "none", "fresh" or "old"
    detached,
    due,           \* next_root_check has passed
    reloaded,      \* a re-attachment has its config and no watcher yet
    unread,        \* files that the analysis under way has yet to read
    events,        \* number of changes and faults so far
    dirty,         \* history: paths changed since an analysis last read them
    unheard,       \* history: paths whose last change nothing will report
    reconfigured   \* history: the config has changed since the filter was built

debouncer == <<batch, last>>
world     == <<root, roots, diskConfig>>
history   == <<dirty, unheard, reconfigured>>
watchVars == <<world, config, filter, watching, raised, channel, debouncer, detached,
               due, reloaded, unread, events, history>>
allVars   == <<vars, watchVars>>

\* The debouncer has a time exactly when it has paths.
WatchTypeOK ==
    /\ root \in 0 .. roots
    /\ roots \in Nat
    /\ diskConfig \in Patterns \cup {Broken}
    /\ config \in Patterns
    /\ filter \in Patterns
    /\ watching \in 0 .. roots
    /\ raised \subseteq Paths
    /\ channel \in Seq(Paths \cup {Error})
    /\ batch \subseteq Paths
    /\ last \in {"none", "fresh", "old"}
    /\ (last = "none") = (batch = {})
    /\ {detached, due, reloaded, reconfigured} \subseteq BOOLEAN
    /\ unread \subseteq Files
    /\ events \in 0 .. MaxEvents
    /\ dirty \subseteq Paths
    /\ unheard \subseteq Paths

WatchInit ==
    /\ Init
    /\ root = 1 /\ roots = 1
    /\ diskConfig \in Patterns
    /\ config = {} /\ filter = {}
    /\ watching = 0
    /\ raised = {}
    /\ channel = <<>>
    /\ batch = {} /\ last = "none"
    /\ detached = FALSE
    /\ due = FALSE /\ reloaded = FALSE
    /\ unread = {}
    /\ events = 0
    /\ dirty = Paths /\ unheard = {}
    /\ reconfigured = FALSE

-----------------------------------------------------------------------------
(* Analyses. *)

\* reload_config_or_keep_previous.
Reloaded == IF diskConfig = Broken THEN config ELSE diskConfig

\* load_config, then analyze begins to read the files that the config admits.
BeginAnalysis(patterns) ==
    /\ config' = patterns
    /\ unread' = Files \ patterns
    /\ dirty' = dirty \ {Config}
    /\ unheard' = unheard \ {Config}

ReadFile(f) ==
    /\ Alive /\ InBody
    /\ f \in unread
    /\ unread' = unread \ {f}
    /\ dirty' = dirty \ {f}
    /\ unheard' = unheard \ {f}
    /\ UNCHANGED <<vars, world, config, filter, watching, raised, channel, debouncer, detached,
                   due, reloaded, events, reconfigured>>

\* The environment does something that the bound counts.
Happens == Alive /\ events < MaxEvents /\ events' = events + 1

\* An analysis that fails reports nothing, and nothing repeats it before the next
\* change: the watch goes on.
EndAnalysis ==
    \/ /\ unread = {}
       /\ UNCHANGED watchVars
    \/ /\ Happens
       /\ unread' = {}
       /\ dirty' = Paths /\ unheard' = Paths
       /\ UNCHANGED <<world, config, filter, watching, raised, channel, debouncer, detached,
                      due, reloaded, reconfigured>>

-----------------------------------------------------------------------------
(* run_watch up to the loop. *)

LoadWatchConfig ==
    /\ EnterGraceful
    /\ BeginAnalysis(Reloaded)
    /\ UNCHANGED <<world, filter, watching, raised, channel, debouncer, detached, due, reloaded,
                   events, reconfigured>>

\* The watcher is created when the initial analysis is over.
CreateWatcher ==
    /\ FinishInitial
    /\ ret' = 0
    /\ unread = {}
    /\ root # 0
    /\ watching' = root
    /\ filter' = config
    /\ UNCHANGED <<world, config, raised, channel, debouncer, detached, due, reloaded, unread,
                   events, history>>

\* The initial analysis, or the creation of the watcher, failed.
GiveUp == FinishInitial /\ ret' = 2 /\ UNCHANGED watchVars

-----------------------------------------------------------------------------
(* One iteration of the loop: handle_root_lifecycle, receive_watch_event and   *)
(* run_ready_reanalysis.                                                      *)

NoRootCheck == RootLifecycle /\ main' = "receive" /\ ~due /\ UNCHANGED watchVars

\* PathDebouncer::clear.
ClearDebouncer == batch' = {} /\ last' = "none"

\* The watcher is dropped with the events it has not handed over.  From here on
\* the analysis that follows the re-attachment answers for every change.
Detach ==
    /\ RootLifecycle /\ main' = "receive"
    /\ due /\ due' = FALSE
    /\ root = 0
    /\ ~detached
    /\ detached' = TRUE
    /\ watching' = 0
    /\ raised' = {}
    /\ ClearDebouncer
    /\ unheard' = {}
    /\ UNCHANGED <<world, config, filter, channel, reloaded, unread, events, dirty, reconfigured>>

\* The root is still there, or still away.
RootUnchanged ==
    /\ RootLifecycle /\ main' = "receive"
    /\ ~reloaded
    /\ due /\ due' = FALSE
    /\ detached = (root = 0)
    /\ UNCHANGED <<world, config, filter, watching, raised, channel, debouncer, detached, reloaded,
                   unread, events, history>>

\* Mutant: the watcher is attached with the filter of the old config.
ReloadOldFilter ==
    /\ Alive /\ main = "rootCheck"
    /\ due /\ root # 0 /\ detached
    /\ ~reloaded /\ reloaded' = TRUE
    /\ config' = Reloaded
    /\ filter' = filter
    /\ reconfigured' = FALSE
    /\ dirty' = dirty \ {Config}
    /\ unheard' = unheard \ {Config}
    /\ UNCHANGED <<vars, world, watching, raised, channel, debouncer, detached, due, unread, events>>

\* The root is back: config and filter are renewed.  From here to the end of the
\* re-attachment nothing watches, and the config is not read again.
ReloadForReattach ==
    /\ Alive /\ main = "rootCheck"
    /\ due /\ root # 0 /\ detached
    /\ ~reloaded /\ reloaded' = TRUE
    /\ config' = Reloaded
    /\ filter' = Reloaded
    /\ reconfigured' = FALSE
    /\ dirty' = dirty \ {Config}
    /\ unheard' = unheard \ {Config}
    /\ UNCHANGED <<vars, world, watching, raised, channel, debouncer, detached, due, unread, events>>

\* create_watcher succeeds, and the project is analysed with the config at hand.
Reattach ==
    /\ RootLifecycle /\ main' = "attached"
    /\ reloaded /\ reloaded' = FALSE
    /\ due' = FALSE
    /\ root # 0
    /\ detached' = FALSE
    /\ watching' = root
    /\ ClearDebouncer
    /\ unread' = Files \ config
    /\ UNCHANGED <<world, config, filter, raised, channel, events, history>>

\* No watcher could be created, or the root has gone again: the next root check
\* begins with the config.
ReattachFails ==
    /\ RootLifecycle /\ main' = "receive"
    /\ reloaded /\ reloaded' = FALSE
    /\ due' = FALSE
    /\ \/ root = 0 /\ UNCHANGED events
       \/ root # 0 /\ Happens
    /\ unheard' = unheard \ {Config}
    /\ UNCHANGED <<world, config, filter, watching, raised, channel, debouncer, detached, unread,
                   dirty, reconfigured>>

\* WatchPoll::Continue: events of the old watcher are dropped while detached.
DropEvent ==
    /\ PollWatch /\ main' = "loop"
    /\ detached
    /\ channel # <<>> /\ Head(channel) # Error
    /\ channel' = Tail(channel)
    /\ UNCHANGED <<world, config, filter, watching, raised, debouncer, detached, due, reloaded,
                   unread, events, history>>

\* push_paths: every event begins the quiet window anew, so no batch is ready.
PushPaths ==
    /\ PollWatch /\ main' = "loop"
    /\ ~detached
    /\ channel # <<>> /\ Head(channel) # Error
    /\ channel' = Tail(channel)
    /\ batch' = batch \cup {Head(channel)}
    /\ last' = "fresh"
    /\ UNCHANGED <<world, config, filter, watching, raised, detached, due, reloaded, unread,
                   events, history>>

\* WatchPoll::Idle: 200 ms without an event, or an error.
Idle ==
    \/ channel = <<>> /\ UNCHANGED channel
    \/ channel # <<>> /\ Head(channel) = Error /\ channel' = Tail(channel)

NotReady ==
    /\ PollWatch /\ main' = "loop"
    /\ Idle
    /\ detached \/ last # "old"
    /\ UNCHANGED <<world, config, filter, watching, raised, debouncer, detached, due, reloaded,
                   unread, events, history>>

\* drain_ready returned a batch: the config is reloaded, the filter is not.
Reanalyze ==
    /\ PollWatch /\ main' = "pass"
    /\ Idle
    /\ ~detached /\ last = "old"
    /\ ClearDebouncer
    /\ BeginAnalysis(Reloaded)
    /\ reconfigured' = (reconfigured \/ Reloaded # config)
    /\ UNCHANGED <<world, filter, watching, raised, detached, due, reloaded, events>>

EndPass == (FinishAttach \/ FinishPass) /\ EndAnalysis

-----------------------------------------------------------------------------
(* Time, the notify crate and the user (external). *)

WindowElapses ==
    /\ Alive
    /\ last = "fresh"
    /\ last' = "old"
    /\ UNCHANGED <<vars, world, config, filter, watching, raised, channel, batch, detached, due,
                   reloaded, unread, events, history>>

\* Mutant: the check is not armed again once the watch is detached.
RootCheckDueOnce ==
    /\ Alive
    /\ watching # 0
    /\ ~due /\ due' = TRUE
    /\ UNCHANGED <<vars, world, config, filter, watching, raised, channel, debouncer, detached,
                   reloaded, unread, events, history>>

\* next_root_check: one second after the last check, or after the loop began.
RootCheckDue ==
    /\ Alive
    /\ watching # 0 \/ detached
    /\ ~due /\ due' = TRUE
    /\ UNCHANGED <<vars, world, config, filter, watching, raised, channel, debouncer, detached,
                   reloaded, unread, events, history>>

\* The callback of create_watcher: filter_event_paths, then send.
Callback(p) ==
    /\ Alive
    /\ p \in raised
    /\ raised' = raised \ {p}
    /\ channel' = IF p \in filter THEN channel ELSE Append(channel, p)
    /\ unheard' = IF p \in filter /\ reconfigured THEN unheard \cup {p} ELSE unheard
    /\ UNCHANGED <<vars, world, config, filter, watching, debouncer, detached, due, reloaded,
                   unread, events, dirty, reconfigured>>

WatchError ==
    /\ Happens
    /\ watching # 0
    /\ channel' = Append(channel, Error)
    /\ UNCHANGED <<vars, world, config, filter, watching, raised, debouncer, detached, due,
                   reloaded, unread, history>>

\* The changes that no event will report.  The analysis after a re-attachment answers
\* for those of the time without a watcher, except for a config it has loaded already.
Missed(changed) ==
    IF ~detached THEN changed ELSE IF reloaded THEN changed \cap {Config} ELSE {}

\* Changes below the root: the watcher notices those of the directory it follows.
Touch(changed) ==
    /\ dirty' = dirty \cup changed
    /\ IF watching # 0 /\ watching = root
       THEN raised' = raised \cup changed /\ unheard' = unheard \ changed
       ELSE raised' = raised /\ unheard' = unheard \cup Missed(changed)

Write(f) ==
    /\ Happens
    /\ root # 0
    /\ Touch({f})
    /\ UNCHANGED <<vars, world, config, filter, watching, channel, debouncer, detached, due,
                   reloaded, unread, reconfigured>>

\* The config is edited while the watch runs.
WriteConfig ==
    /\ Happens
    /\ root # 0
    /\ watching # 0 \/ detached
    /\ diskConfig' \in (Patterns \cup {Broken}) \ {diskConfig}
    /\ Touch({Config})
    /\ UNCHANGED <<vars, root, roots, config, filter, watching, channel, debouncer, detached, due,
                   reloaded, unread, reconfigured>>

\* The root is moved away, or deleted with everything in it.
RemoveRoot ==
    /\ Happens
    /\ root # 0 /\ root' = 0
    /\ \/ UNCHANGED <<raised, dirty, unheard>>
       \/ Touch(Paths)
    /\ UNCHANGED <<vars, roots, diskConfig, config, filter, watching, channel, debouncer, detached,
                   due, reloaded, unread, reconfigured>>

\* Another directory takes its place.
CreateRoot ==
    /\ Happens
    /\ root = 0
    /\ root' = roots + 1 /\ roots' = roots + 1
    /\ diskConfig' \in Patterns
    /\ dirty' = Paths
    /\ unheard' = unheard \cup Missed(Paths)
    /\ UNCHANGED <<vars, config, filter, watching, raised, channel, debouncer, detached, due,
                   reloaded, unread, reconfigured>>

-----------------------------------------------------------------------------

\* The steps of the signal path that leave the loop's state alone.
Elsewhere(A) == A /\ UNCHANGED watchVars

WatchMain ==
    \/ Elsewhere(InstallHandlers) \/ Elsewhere(ReinstallHandlers) \/ LoadWatchConfig
    \/ CreateWatcher \/ GiveUp
    \/ Elsewhere(CheckShutdown)
    \/ NoRootCheck \/ Detach \/ RootUnchanged
    \/ ReloadForReattach \/ Reattach \/ ReattachFails
    \/ DropEvent \/ PushPaths \/ NotReady \/ Reanalyze \/ EndPass
    \/ Elsewhere(DropGuard) \/ Elsewhere(MainExit)

Environment ==
    \/ \E f \in Files : Write(f)
    \/ WriteConfig \/ RemoveRoot \/ CreateRoot \/ WatchError

\* Ctrl-C.  A SIGTERM differs in the exit code only.
Interrupt == DeliverSignal /\ pending' \subseteq {"SIGINT"} /\ exitCode' # CodeOf("SIGTERM")

ReadFiles == \E f \in Files : ReadFile(f)
Callbacks == \E p \in Paths : Callback(p)

\* The children of an analysis are the subject of Signals; here it has none.
WatchNext ==
    \/ WatchMain
    \/ ReadFiles
    \/ Elsewhere(ListenerStep)
    \/ Elsewhere(Interrupt)
    \/ WindowElapses \/ RootCheckDue
    \/ Callbacks
    \/ Environment
    \/ Elsewhere(Terminated)

WatchSpec == WatchInit /\ [][WatchNext]_allVars

\* The main thread, the threads of the analysis, the listener and the notify crate's
\* thread are scheduled, and time passes.
WatchFairSpec ==
    /\ WatchSpec
    /\ WF_allVars(WatchMain)
    /\ WF_allVars(ReadFiles)
    /\ WF_allVars(Elsewhere(ListenerStep))
    /\ WF_allVars(WindowElapses)
    /\ WF_allVars(RootCheckDue)
    /\ WF_allVars(Callbacks)

-----------------------------------------------------------------------------
(* Properties. *)

InLoop == main \in {"loop", "rootCheck", "attached", "receive", "pass"}

\* A change that counts: not read by an analysis, of a path the loaded config
\* admits, and not one of those that the code is known to miss (made before the
\* watcher existed, in a root that was replaced between two checks, in a file that
\* a reloaded config admits and the old filter does not, in a config that a
\* re-attachment has loaded before its watcher exists, or read by an analysis that
\* failed).
Waits(p) == p \in dirty \ (unheard \cup config)

\* No change is forgotten: until an analysis reads it, it is in the watcher, the
\* channel, the debouncer or ahead of the running analysis, or the watch is detached
\* and the analysis after the re-attachment will read it.  Events dropped while
\* detached, cleared debouncers and changes in the middle of an analysis included.
ChangeOnItsWay ==
    InLoop =>
        \A p \in Paths : Waits(p) =>
            \/ p \in raised \cup batch \cup unread
            \/ \E i \in 1 .. Len(channel) : channel[i] = p
            \/ detached

\* And once the changes stop it is analysed, unless the root stays away or the
\* watch is stopped.
ChangeAnalysed ==
    \A f \in Files :
        (Alive /\ InLoop /\ Waits(f)) ~> (~Waits(f) \/ root = 0 \/ shutdown \/ ~Alive)

=============================================================================
