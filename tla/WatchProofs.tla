----------------------------- MODULE WatchProofs -----------------------------
(***************************************************************************)
(* Proofs about Watch, for every set of files, every choice of ignore        *)
(* patterns and every bound: the watch loop implements the signal path it is *)
(* composed with, and it forgets no change that the watcher heard of.        *)
(***************************************************************************)
EXTENDS Watch, TLAPS

\* The loop has not begun.
Before == main \in {"boot", "ready", "guarding", "initial"}

\* There is no watcher before the loop, so that changes go unheard.
BootInv == Before => watching = 0 /\ detached = FALSE

\* What the initial analysis has not read is ahead of it, ignored or unheard.
InitialInv == main = "initial" => dirty \subseteq unheard \cup unread \cup config

\* The filter drops what the config excludes, until a new config is loaded.
FilterInv == InLoop /\ reconfigured = FALSE => filter = config

\* While the watch is detached nothing watches, and a config that was written after a
\* re-attachment loaded it is one of the known misses.
ReloadInv ==
    /\ detached = TRUE => watching = 0
    /\ reloaded = TRUE => detached = TRUE /\ (Config \in dirty => Config \in unheard)

WatchInv ==
    /\ WatchTypeOK
    /\ ReloadInv
    /\ BootInv
    /\ InitialInv
    /\ FilterInv
    /\ ChangeOnItsWay

-----------------------------------------------------------------------------
(* The composition. *)

\* Every step of the watch loop is a step of the signal path or leaves it alone.
LEMMA StepImplements == WatchNext => [Next]_vars
<1>. SUFFICES ASSUME WatchNext PROVE Next \/ UNCHANGED vars
  OBVIOUS
<1>1. CASE WatchMain
  <2>1. WatchMain => MainStep \/ UNCHANGED vars
    BY DEF WatchMain, MainStep, Elsewhere, LoadWatchConfig, CreateWatcher, GiveUp,
           NoRootCheck, Detach, RootUnchanged, ReloadForReattach, Reattach, ReattachFails,
           DropEvent, PushPaths, NotReady, Reanalyze, EndPass
  <2>. QED BY <1>1, <2>1 DEF Next
<1>2. CASE ReadFiles \/ WindowElapses \/ RootCheckDue \/ Callbacks
  BY <1>2 DEF ReadFiles, ReadFile, WindowElapses, RootCheckDue, Callbacks, Callback
<1>3. CASE Elsewhere(ListenerStep) \/ Elsewhere(Interrupt) \/ Elsewhere(Terminated)
  BY <1>3 DEF Elsewhere, Interrupt, OSStep, Next
<1>4. CASE Environment
  BY <1>4 DEF Environment, Write, WriteConfig, RemoveRoot, CreateRoot, WatchError
<1>. QED BY <1>1, <1>2, <1>3, <1>4 DEF WatchNext

\* The watch loop implements Signals: what is proved of the registry and of the
\* drain holds in the composition.
THEOREM WatchImplementsSignals == WatchSpec => Spec
<1>1. WatchInit => Init
  BY DEF WatchInit
<1>2. [WatchNext]_allVars => [Next]_vars
  BY StepImplements DEF allVars
<1>. QED BY <1>1, <1>2, PTL DEF WatchSpec, Spec

-----------------------------------------------------------------------------
(* Types. *)

\* A config that is loaded is one that parses.
LEMMA ReloadedType == WatchTypeOK => Reloaded \in Patterns
BY DEF WatchTypeOK, Reloaded

\* The channel keeps its elements when one is sent or received.
LEMMA ChannelType ==
    ASSUME NEW S, NEW s \in Seq(S), NEW e \in S
    PROVE  Append(s, e) \in Seq(S) /\ (s # <<>> => Tail(s) \in Seq(S) /\ Head(s) \in S)
OBVIOUS

\* A change below the root.
LEMMA TouchType ==
    ASSUME WatchTypeOK, NEW changed \in SUBSET Paths, Touch(changed)
    PROVE  dirty' \subseteq Paths /\ raised' \subseteq Paths /\ unheard' \subseteq Paths
BY DEF WatchTypeOK, Touch, Missed

\* Every step keeps the variables in their types.
LEMMA WatchTypeStep == WatchTypeOK /\ [WatchNext]_allVars => WatchTypeOK'
<1>. SUFFICES ASSUME WatchTypeOK, [WatchNext]_allVars PROVE WatchTypeOK'
  OBVIOUS
<1>. USE DEF WatchTypeOK, watchVars, world, debouncer, history
<1>0. Reloaded \in Patterns
  BY ReloadedType
<1>1. CASE UNCHANGED watchVars
  BY <1>1
<1>2. CASE WatchMain
  <2>1. CASE LoadWatchConfig
    BY <1>0, <2>1 DEF LoadWatchConfig, BeginAnalysis
  <2>2. CASE CreateWatcher
    BY <2>2 DEF CreateWatcher
  <2>3. CASE Detach \/ RootUnchanged \/ NoRootCheck \/ GiveUp
    BY <2>3 DEF Detach, RootUnchanged, NoRootCheck, GiveUp, ClearDebouncer
  <2>4. CASE Reattach
    BY <2>4 DEF Reattach, ClearDebouncer
  <2>5. CASE ReattachFails
    <3>1. events' \in 0 .. MaxEvents
      BY <2>5, WatchAssumption DEF ReattachFails, Happens
    <3>2. {detached, due, reloaded, reconfigured}' \subseteq BOOLEAN
      <4>1. detached' = detached /\ due' = FALSE /\ reloaded' = FALSE /\ reconfigured' = reconfigured
        BY <2>5 DEF ReattachFails
      <4>. QED BY <4>1, Zenon
    <3>. QED BY <2>5, <3>1, <3>2 DEF ReattachFails
  <2>11. CASE ReloadForReattach
    <3>1. {detached, due, reloaded, reconfigured}' \subseteq BOOLEAN
      <4>1. detached' = detached /\ due' = due /\ reloaded' = TRUE /\ reconfigured' = FALSE
        BY <2>11 DEF ReloadForReattach
      <4>. QED BY <4>1, Zenon
    <3>. QED BY <1>0, <2>11, <3>1 DEF ReloadForReattach
  <2>6. CASE DropEvent
    BY <2>6 DEF DropEvent
  <2>7. CASE PushPaths
    <3>1. Head(channel) \in Paths /\ Tail(channel) \in Seq(Paths \cup {Error})
      BY <2>7, ChannelType DEF PushPaths
    <3>. QED BY <2>7, <3>1 DEF PushPaths
  <2>8. CASE NotReady
    BY <2>8 DEF NotReady, Idle
  <2>9. CASE Reanalyze
    <3>1. channel' \in Seq(Paths \cup {Error})
      <4>1. channel' = channel \/ (channel # <<>> /\ channel' = Tail(channel))
        BY <2>9 DEF Reanalyze, Idle
      <4>2. Error \in Paths \cup {Error}
        OBVIOUS
      <4>. QED BY <4>1, <4>2, ChannelType
    <3>. QED BY <1>0, <2>9, <3>1 DEF Reanalyze, ClearDebouncer, BeginAnalysis
  <2>10. CASE EndPass
    BY <2>10, WatchAssumption DEF EndPass, EndAnalysis, Happens
  <2>. QED BY <1>1, <1>2, <2>1, <2>2, <2>3, <2>4, <2>5, <2>6, <2>7, <2>8, <2>9, <2>10,
              <2>11
           DEF WatchMain, Elsewhere
<1>3. CASE ReadFiles
  BY <1>3 DEF ReadFiles, ReadFile
<1>4. CASE WindowElapses \/ RootCheckDue
  BY <1>4 DEF WindowElapses, RootCheckDue
<1>5. CASE Callbacks
  <2>. PICK p \in Paths : Callback(p)
    BY <1>5 DEF Callbacks
  <2>1. channel' \in Seq(Paths \cup {Error})
    BY ChannelType DEF Callback
  <2>. QED BY <2>1 DEF Callback
<1>6. CASE Environment
  <2>1. CASE \E f \in Files : Write(f)
    <3>. PICK f \in Files : Write(f)
      BY <2>1
    <3>1. Touch({f}) /\ {f} \in SUBSET Paths
      BY DEF Write, Paths
    <3>2. dirty' \subseteq Paths /\ raised' \subseteq Paths /\ unheard' \subseteq Paths
      BY <3>1, TouchType
    <3>. QED BY <3>2, WatchAssumption DEF Write, Happens
  <2>2. CASE WriteConfig
    <3>1. Touch({Config}) /\ {Config} \in SUBSET Paths
      BY <2>2 DEF WriteConfig, Paths
    <3>2. dirty' \subseteq Paths /\ raised' \subseteq Paths /\ unheard' \subseteq Paths
      BY <3>1, TouchType
    <3>. QED BY <2>2, <3>2, WatchAssumption DEF WriteConfig, Happens
  <2>3. CASE RemoveRoot
    <3>1. dirty' \subseteq Paths /\ raised' \subseteq Paths /\ unheard' \subseteq Paths
      BY <2>3, TouchType DEF RemoveRoot
    <3>. QED BY <2>3, <3>1, WatchAssumption DEF RemoveRoot, Happens
  <2>4. CASE CreateRoot
    BY <2>4, WatchAssumption DEF CreateRoot, Happens, Missed
  <2>5. CASE WatchError
    <3>1. channel' \in Seq(Paths \cup {Error})
      BY <2>5, ChannelType DEF WatchError
    <3>. QED BY <2>5, <3>1, WatchAssumption DEF WatchError, Happens
  <2>. QED BY <1>6, <2>1, <2>2, <2>3, <2>4, <2>5 DEF Environment
<1>. QED BY <1>1, <1>2, <1>3, <1>4, <1>5, <1>6 DEF WatchNext, Elsewhere, allVars

\* The initial state has its type.
LEMMA WatchInitType == WatchInit => WatchTypeOK
<1>. SUFFICES ASSUME WatchInit PROVE WatchTypeOK
  OBVIOUS
<1>1. {detached, due, reloaded, reconfigured} \subseteq BOOLEAN
  BY DEF WatchInit
<1>2. channel \in Seq(Paths \cup {Error})
  BY DEF WatchInit
<1>3. events \in 0 .. MaxEvents /\ root \in 0 .. roots /\ roots \in Nat /\ watching \in 0 .. roots
  BY WatchAssumption DEF WatchInit
<1>. QED BY <1>1, <1>2, <1>3, Zenon DEF WatchInit, WatchTypeOK, Patterns

\* The state keeps its type, and the debouncer has a time exactly when it has paths
\* (PathDebouncer), in every instance.
THEOREM WatchTypeCorrect == WatchSpec => []WatchTypeOK
BY WatchInitType, WatchTypeStep, PTL DEF WatchSpec

-----------------------------------------------------------------------------
(* No change is forgotten. *)

\* p is in the channel.
Sent(p) == \E i \in 1 .. Len(channel) : channel[i] = p

\* Receiving takes the head out of the channel and nothing else.
LEMMA Received ==
    ASSUME NEW S, NEW s \in Seq(S), s # <<>>, NEW p,
           \E i \in 1 .. Len(s) : s[i] = p, Head(s) # p
    PROVE  \E i \in 1 .. Len(Tail(s)) : Tail(s)[i] = p
<1>. PICK i \in 1 .. Len(s) : s[i] = p
  OBVIOUS
<1>1. i # 1 /\ i - 1 \in 1 .. Len(Tail(s)) /\ Tail(s)[i - 1] = s[i]
  OBVIOUS
<1>. QED BY <1>1

\* Sending adds to the channel.
LEMMA Appended ==
    ASSUME NEW S, NEW s \in Seq(S), NEW e \in S
    PROVE  /\ \E i \in 1 .. Len(Append(s, e)) : Append(s, e)[i] = e
           /\ \A p : (\E i \in 1 .. Len(s) : s[i] = p)
                       => \E i \in 1 .. Len(Append(s, e)) : Append(s, e)[i] = p
<1>1. Len(s) + 1 \in 1 .. Len(Append(s, e)) /\ Append(s, e)[Len(s) + 1] = e
  OBVIOUS
<1>2. \A i \in 1 .. Len(s) : i \in 1 .. Len(Append(s, e)) /\ Append(s, e)[i] = s[i]
  OBVIOUS
<1>. QED BY <1>1, <1>2

\* The paths that wait, ChangeOnItsWay for one of them.
OnItsWay(p) == Waits(p) => p \in raised \cup batch \cup unread \/ Sent(p) \/ detached = TRUE

\* ChangeOnItsWay, path by path.
LEMMA PathByPath ==
    WatchTypeOK => (ChangeOnItsWay <=> (InLoop => \A p \in Paths : OnItsWay(p)))
BY DEF WatchTypeOK, ChangeOnItsWay, OnItsWay, Sent

\* A change below the root is raised, or the watch is detached, or nothing will
\* report it.
LEMMA TouchHeard ==
    ASSUME NEW changed, Touch(changed), detached \in BOOLEAN
    PROVE  /\ raised \subseteq raised'
           /\ \A p : p \in dirty' \ unheard' =>
                  p \in dirty \ unheard \/ p \in raised' \/ detached = TRUE
           /\ watching = 0 /\ detached = FALSE => dirty' \ unheard' \subseteq dirty \ unheard
<1>0. dirty' = dirty \cup changed
  BY DEF Touch
<1>1. CASE watching # 0 /\ watching = root
  <2>1. raised' = raised \cup changed /\ unheard' = unheard \ changed
    BY <1>1 DEF Touch
  <2>. QED BY <1>0, <1>1, <2>1
<1>2. CASE ~(watching # 0 /\ watching = root) /\ detached = TRUE
  <2>1. raised' = raised
    BY <1>2 DEF Touch
  <2>. QED BY <1>0, <1>2, <2>1
<1>3. CASE ~(watching # 0 /\ watching = root) /\ detached = FALSE
  <2>1. raised' = raised /\ unheard' = unheard \cup changed
    BY <1>3 DEF Touch, Missed
  <2>. QED BY <1>0, <1>3, <2>1
<1>. QED BY <1>1, <1>2, <1>3

\* The main thread passes these points in order: it enters the loop with the watcher,
\* and the initial analysis with the config.
Forward ==
    /\ InLoop' => InLoop
    /\ Before' => Before
    /\ main' = "initial" => main = "initial"

\* Steps of the signal path that leave the loop's state alone.
LEMMA ElsewhereStep ==
    ASSUME WatchNext
    PROVE  \/ UNCHANGED watchVars /\ Forward
           \/ LoadWatchConfig \/ CreateWatcher
           \/ Detach \/ RootUnchanged \/ ReloadForReattach \/ Reattach \/ ReattachFails
           \/ DropEvent \/ PushPaths \/ NotReady \/ Reanalyze \/ EndPass
           \/ UNCHANGED main /\ (ReadFiles \/ WindowElapses \/ RootCheckDue \/ Callbacks \/ Environment)
<1>. USE DEF Forward, InLoop, Before
<1>1. CASE WatchMain
  <2>1. InstallHandlers => Forward
    BY WatchAssumption DEF InstallHandlers
  <2>2. ReinstallHandlers => Forward
    BY DEF ReinstallHandlers
  <2>3. CheckShutdown \/ NoRootCheck => Forward
    BY DEF CheckShutdown, NoRootCheck, RootLifecycle
  <2>4. GiveUp => Forward
    BY DEF GiveUp, FinishInitial
  <2>5. DropGuard \/ MainExit => Forward
    BY DEF DropGuard, MainExit
  <2>6. NoRootCheck \/ GiveUp => UNCHANGED watchVars
    BY DEF NoRootCheck, GiveUp
  <2>. QED BY <1>1, <2>1, <2>2, <2>3, <2>4, <2>5, <2>6 DEF WatchMain, Elsewhere
<1>2. CASE Elsewhere(ListenerStep) \/ Elsewhere(Interrupt) \/ Elsewhere(Terminated)
  <2>1. ListenerStep => UNCHANGED main
    BY DEF ListenerStep, TakeSignal, DrainOnce, Snapshot, KillPid, StartPoll, EndPoll, Decide,
           HandlerExit, mainVars
  <2>2. Interrupt \/ Terminated => UNCHANGED main
    BY DEF Interrupt, DeliverSignal, Terminated, vars, mainVars
  <2>. QED BY <1>2, <2>1, <2>2 DEF Elsewhere
<1>3. CASE ReadFiles \/ WindowElapses \/ RootCheckDue \/ Callbacks
  BY <1>3 DEF ReadFiles, ReadFile, WindowElapses, RootCheckDue, Callbacks, Callback, vars, mainVars
<1>4. CASE Environment
  BY <1>4 DEF Environment, Write, WriteConfig, RemoveRoot, CreateRoot, WatchError, vars, mainVars
<1>. QED BY <1>1, <1>2, <1>3, <1>4 DEF WatchNext

\* The auxiliary invariants hold after every step.
LEMMA BootStep == WatchInv /\ [WatchNext]_allVars => BootInv' /\ InitialInv' /\ FilterInv'
<1>. SUFFICES ASSUME WatchInv, [WatchNext]_allVars PROVE BootInv' /\ InitialInv' /\ FilterInv'
  OBVIOUS
<1>. USE DEF WatchInv, BootInv, InitialInv, FilterInv
<1>0. /\ dirty \subseteq Paths
      /\ detached \in BOOLEAN
      /\ reconfigured \in BOOLEAN
  BY DEF WatchTypeOK
<1>1. CASE UNCHANGED watchVars /\ Forward
  BY <1>1 DEF Forward, watchVars, history
<1>2. CASE UNCHANGED allVars
  BY <1>2 DEF allVars, vars, mainVars, watchVars, history, Before, InLoop
<1>3. CASE LoadWatchConfig
  <2>1. main' = "initial" /\ watching' = watching /\ detached' = detached /\ main = "guarding"
    BY <1>3 DEF LoadWatchConfig, EnterGraceful
  <2>2. dirty' \subseteq unread' \cup config'
    BY <1>0, <1>3 DEF LoadWatchConfig, BeginAnalysis, Paths
  <2>. QED BY <2>1, <2>2 DEF Before, InLoop
<1>4. CASE CreateWatcher
  <2>1. main' \in {"loop", "return"} /\ filter' = config /\ config' = config
    BY <1>4 DEF CreateWatcher, FinishInitial
  <2>. QED BY <2>1 DEF Before, InLoop
<1>5. CASE Detach \/ RootUnchanged \/ DropEvent \/ PushPaths \/ NotReady \/ EndPass
  <2>1. InLoop /\ main' \in {"loop", "receive"}
    BY <1>5 DEF Detach, RootUnchanged, DropEvent, PushPaths, NotReady, EndPass, RootLifecycle,
                PollWatch, FinishAttach, FinishPass, InLoop
  <2>2. filter' = filter /\ config' = config /\ reconfigured' = reconfigured
    BY <1>5 DEF Detach, RootUnchanged, DropEvent, PushPaths, NotReady, EndPass, EndAnalysis,
                watchVars, history
  <2>. QED BY <2>1, <2>2 DEF Before
<1>6. CASE Reattach \/ ReattachFails
  <2>1. main' \in {"attached", "receive"} /\ InLoop
    BY <1>6 DEF Reattach, ReattachFails, RootLifecycle, InLoop
  <2>2. UNCHANGED <<filter, config, reconfigured>>
    BY <1>6 DEF Reattach, ReattachFails, history
  <2>. QED BY <2>1, <2>2 DEF Before
<1>9. CASE ReloadForReattach
  <2>1. main' = main /\ main = "rootCheck" /\ filter' = config'
    BY <1>9 DEF ReloadForReattach, vars, mainVars
  <2>. QED BY <2>1 DEF Before
<1>7. CASE Reanalyze
  <2>1. InLoop /\ main' = "pass"
    BY <1>7 DEF Reanalyze, PollWatch, InLoop
  <2>2. filter' = filter /\ config' = Reloaded
    BY <1>7 DEF Reanalyze, BeginAnalysis
  <2>3. reconfigured' = FALSE => reconfigured = FALSE /\ Reloaded = config
    BY <1>0, <1>7 DEF Reanalyze
  <2>. QED BY <2>1, <2>2, <2>3 DEF Before
<1>8. CASE UNCHANGED main /\ (ReadFiles \/ WindowElapses \/ RootCheckDue \/ Callbacks \/ Environment)
  <2>1. UNCHANGED <<watching, detached, filter, config, reconfigured>>
    BY <1>8 DEF ReadFiles, ReadFile, WindowElapses, RootCheckDue, Callbacks, Callback, Environment,
                Write, WriteConfig, RemoveRoot, CreateRoot, WatchError, history
  <2>2. main = "initial" => dirty' \subseteq unheard' \cup unread' \cup config
    <3>. SUFFICES ASSUME main = "initial" PROVE dirty' \subseteq unheard' \cup unread' \cup config
      OBVIOUS
    <3>0. watching = 0 /\ detached = FALSE /\ dirty \subseteq unheard \cup unread \cup config
      BY DEF Before
    <3>1. CASE ReadFiles \/ WindowElapses \/ RootCheckDue \/ Callbacks \/ WatchError
      BY <3>0, <3>1 DEF ReadFiles, ReadFile, WindowElapses, RootCheckDue, Callbacks, Callback,
                        WatchError, history
    <3>2. CASE unread' = unread /\ \E changed : Touch(changed)
      BY <1>0, <3>0, <3>2, TouchHeard
    <3>3. CASE CreateRoot
      BY <1>0, <3>0, <3>3 DEF CreateRoot, Missed
    <3>4. CASE RemoveRoot
      BY <3>0, <3>2, <3>4 DEF RemoveRoot
    <3>5. CASE WriteConfig \/ \E f \in Files : Write(f)
      BY <3>2, <3>5 DEF WriteConfig, Write
    <3>. QED BY <1>8, <3>1, <3>3, <3>4, <3>5 DEF Environment
  <2>. QED BY <1>8, <2>1, <2>2 DEF Before, InLoop
<1>. QED BY <1>1, <1>2, <1>3, <1>4, <1>5, <1>6, <1>7, <1>8, <1>9, ElsewhereStep

\* Nothing but a re-attachment watches again, and a config written in the middle of one
\* goes unheard.
LEMMA ReloadStep == WatchInv /\ [WatchNext]_allVars => ReloadInv'
<1>. SUFFICES ASSUME WatchInv, [WatchNext]_allVars PROVE ReloadInv'
  OBVIOUS
<1>. USE DEF WatchInv, ReloadInv
<1>0. detached \in BOOLEAN /\ reloaded \in BOOLEAN
  BY DEF WatchTypeOK
<1>1. CASE UNCHANGED watchVars
  BY <1>1 DEF watchVars, history
<1>2. CASE LoadWatchConfig
  BY <1>2 DEF LoadWatchConfig, BeginAnalysis
<1>3. CASE CreateWatcher
  <2>1. main = "initial"
    BY <1>3 DEF CreateWatcher, FinishInitial
  <2>2. detached = FALSE
    BY <2>1 DEF BootInv, Before
  <2>. QED BY <1>0, <1>3, <2>2 DEF CreateWatcher, history
<1>4. CASE Detach
  BY <1>0, <1>4 DEF Detach
<1>5. CASE RootUnchanged \/ DropEvent \/ PushPaths \/ NotReady
  BY <1>5 DEF RootUnchanged, DropEvent, PushPaths, NotReady, history
<1>6. CASE ReloadForReattach
  BY <1>6 DEF ReloadForReattach
<1>7. CASE Reattach \/ ReattachFails
  BY <1>7 DEF Reattach, ReattachFails
<1>8. CASE Reanalyze
  BY <1>0, <1>8 DEF Reanalyze
<1>9. CASE EndPass
  <2>1. CASE UNCHANGED watchVars
    BY <2>1 DEF watchVars, history
  <2>2. CASE unheard' = Paths /\ UNCHANGED <<watching, detached, reloaded>>
    BY <2>2 DEF Paths
  <2>. QED BY <1>9, <2>1, <2>2 DEF EndPass, EndAnalysis
<1>10. CASE ReadFiles
  <2>. PICK f \in Files : ReadFile(f)
    BY <1>10 DEF ReadFiles
  <2>1. f # Config
    BY WatchAssumption
  <2>. QED BY <2>1 DEF ReadFile
<1>11. CASE WindowElapses \/ RootCheckDue \/ WatchError
  BY <1>11 DEF WindowElapses, RootCheckDue, WatchError, history
<1>12. CASE Callbacks
  BY <1>12 DEF Callbacks, Callback
<1>13. ASSUME NEW changed, Touch(changed), UNCHANGED <<watching, detached, reloaded>>
       PROVE  ReloadInv'
  <2>1. CASE reloaded = TRUE
    <3>1. watching = 0 /\ detached = TRUE
      BY <2>1
    <3>2. dirty' = dirty \cup changed /\ unheard' = unheard \cup (changed \cap {Config})
      BY <2>1, <3>1, <1>13 DEF Touch, Missed
    <3>. QED BY <2>1, <3>1, <3>2, <1>13
  <2>. QED BY <1>0, <1>13, <2>1
<1>14. CASE WriteConfig \/ \E f \in Files : Write(f)
  BY <1>13, <1>14 DEF WriteConfig, Write
<1>15. CASE RemoveRoot
  <2>1. UNCHANGED <<watching, detached, reloaded>>
    BY <1>15 DEF RemoveRoot
  <2>2. CASE UNCHANGED <<raised, dirty, unheard>>
    BY <2>1, <2>2
  <2>. QED BY <1>13, <1>15, <2>1, <2>2 DEF RemoveRoot
<1>16. CASE CreateRoot
  BY <1>0, <1>16 DEF CreateRoot, Missed, Paths
<1>. QED BY <1>1, <1>2, <1>3, <1>4, <1>5, <1>6, <1>7, <1>8, <1>9, <1>10, <1>11, <1>12, <1>14,
            <1>15, <1>16, ElsewhereStep DEF Environment, allVars

\* An analysis that begins has every change of a path its config admits ahead of it.
LEMMA BeginReads ==
    ASSUME WatchTypeOK, NEW patterns, BeginAnalysis(patterns), NEW p \in Paths, Waits(p)'
    PROVE  p \in unread'
<1>1. p \in dirty \ {Config} /\ p \notin patterns
  BY DEF Waits, BeginAnalysis
<1>. QED BY <1>1 DEF BeginAnalysis, Paths

\* After every step, every change is on its way.
LEMMA ChangeStep ==
    ASSUME WatchInv, WatchNext, InLoop', NEW p \in Paths
    PROVE  OnItsWay(p)'
<1>0. /\ detached \in BOOLEAN
      /\ reconfigured \in BOOLEAN /\ reloaded \in BOOLEAN
      /\ channel \in Seq(Paths \cup {Error})
      /\ p # Error /\ WatchTypeOK
  BY WatchAssumption DEF WatchInv, WatchTypeOK, Paths, Config, Error
<1>1. InLoop => OnItsWay(p)
  BY PathByPath DEF WatchInv
<1>. SUFFICES ASSUME Waits(p)'
              PROVE  p \in (raised \cup batch \cup unread)' \/ Sent(p)' \/ detached' = TRUE
  BY DEF OnItsWay
<1>2. CASE UNCHANGED watchVars /\ Forward
  BY <1>1, <1>2 DEF Forward, watchVars, debouncer, history, OnItsWay, Waits, Sent
<1>3. CASE LoadWatchConfig
  BY <1>3 DEF LoadWatchConfig, EnterGraceful, InLoop
<1>4. CASE CreateWatcher
  BY <1>4 DEF CreateWatcher, FinishInitial, WatchInv, InitialInv, Waits, history
<1>5. CASE Detach
  BY <1>5 DEF Detach
<1>6. CASE RootUnchanged
  BY <1>1, <1>6 DEF RootUnchanged, RootLifecycle, InLoop, debouncer, history, OnItsWay, Waits, Sent
<1>7. CASE Reattach
  <2>1. UNCHANGED <<dirty, unheard, config>> /\ unread' = Files \ config /\ reloaded
    BY <1>7 DEF Reattach, history
  <2>2. p # Config
    BY <1>0, <2>1 DEF WatchInv, ReloadInv, Waits
  <2>. QED BY <2>1, <2>2 DEF Waits, Paths
<1>8. CASE ReloadForReattach \/ ReattachFails \/ DropEvent
  <2>1. detached' = detached /\ detached
    BY <1>0, <1>8 DEF ReloadForReattach, ReattachFails, DropEvent, WatchInv, ReloadInv
  <2>. QED BY <1>0, <2>1
<1>9. CASE PushPaths
  <2>1. /\ UNCHANGED <<dirty, unheard, config, raised, unread, detached>>
        /\ channel # <<>> /\ channel' = Tail(channel)
        /\ batch' = batch \cup {Head(channel)}
        /\ InLoop
    BY <1>9 DEF PushPaths, PollWatch, InLoop, history
  <2>2. p \in raised \cup batch \cup unread \/ Sent(p) \/ detached = TRUE
    BY <1>1, <2>1 DEF OnItsWay, Waits
  <2>3. Sent(p) /\ p # Head(channel) => Sent(p)'
    BY <1>0, <2>1, Received DEF Sent
  <2>. QED BY <2>1, <2>2, <2>3
<1>10. CASE NotReady
  <2>1. /\ UNCHANGED <<dirty, unheard, config, raised, unread, detached, batch>>
        /\ InLoop /\ Idle
    BY <1>10 DEF NotReady, PollWatch, InLoop, history, debouncer
  <2>2. p \in raised \cup batch \cup unread \/ Sent(p) \/ detached = TRUE
    BY <1>1, <2>1 DEF OnItsWay, Waits
  <2>3. Sent(p) => Sent(p)'
    <3>1. CASE channel' = channel
      BY <3>1 DEF Sent
    <3>2. CASE channel # <<>> /\ Head(channel) = Error /\ channel' = Tail(channel)
      BY <1>0, <3>2, Received DEF Sent
    <3>. QED BY <2>1, <3>1, <3>2 DEF Idle
  <2>. QED BY <2>1, <2>2, <2>3
<1>11. CASE Reanalyze
  BY <1>0, <1>11, BeginReads DEF Reanalyze
<1>12. CASE EndPass
  <2>1. InLoop
    BY <1>12 DEF EndPass, FinishAttach, FinishPass, InLoop
  <2>2. unheard' # Paths
    BY DEF Waits
  <2>3. UNCHANGED watchVars
    BY <1>12, <2>2 DEF EndPass, EndAnalysis
  <2>. QED BY <1>1, <2>1, <2>3 DEF watchVars, debouncer, history, OnItsWay, Waits, Sent
<1>13. CASE UNCHANGED main /\ (ReadFiles \/ WindowElapses \/ RootCheckDue)
  BY <1>1, <1>13 DEF ReadFiles, ReadFile, WindowElapses, RootCheckDue, InLoop, debouncer, history,
                     OnItsWay, Waits, Sent
<1>14. CASE UNCHANGED main /\ Callbacks
  <2>. PICK q \in Paths : Callback(q)
    BY <1>14 DEF Callbacks
  <2>1. /\ UNCHANGED <<dirty, config, unread, batch, detached>>
        /\ raised' = raised \ {q}
        /\ unheard \subseteq unheard'
        /\ InLoop
    BY <1>14 DEF Callback, debouncer, InLoop
  <2>2. p \in raised \cup batch \cup unread \/ Sent(p) \/ detached = TRUE
    BY <1>1, <2>1 DEF OnItsWay, Waits
  <2>3. Sent(p) => Sent(p)'
    <3>1. CASE q \in filter
      BY <3>1 DEF Callback, Sent
    <3>2. CASE q \notin filter
      BY <1>0, <3>2, Appended DEF Callback, Sent
    <3>. QED BY <3>1, <3>2
  <2>4. p = q => Sent(p)'
    <3>. SUFFICES ASSUME p = q PROVE Sent(p)'
      OBVIOUS
    <3>1. p \notin filter
      <4>. SUFFICES ASSUME p \in filter PROVE FALSE
        OBVIOUS
      <4>1. CASE reconfigured = TRUE
        BY <4>1 DEF Callback, Waits
      <4>2. CASE reconfigured = FALSE
        BY <2>1, <4>2 DEF WatchInv, FilterInv, Waits
      <4>. QED BY <1>0, <4>1, <4>2
    <3>. QED BY <1>0, <3>1, Appended DEF Callback, Sent
  <2>. QED BY <2>1, <2>2, <2>3, <2>4
<1>15. CASE UNCHANGED main /\ Environment
  <2>0. InLoop
    BY <1>15 DEF InLoop
  <2>1. CASE UNCHANGED <<channel, batch, unread, config, detached>> /\ \E changed : Touch(changed)
    <3>1. raised \subseteq raised'
      BY <1>0, <2>1, TouchHeard
    <3>2. p \in dirty \ unheard \/ p \in raised' \/ detached = TRUE
      BY <1>0, <2>1, TouchHeard DEF Waits
    <3>. QED BY <1>1, <2>0, <2>1, <3>1, <3>2 DEF OnItsWay, Waits, Sent
  <2>2. CASE WriteConfig \/ \E f \in Files : Write(f)
    BY <2>1, <2>2 DEF WriteConfig, Write, debouncer
  <2>3. CASE RemoveRoot
    <3>1. CASE UNCHANGED <<raised, dirty, unheard>>
      BY <1>1, <2>0, <2>3, <3>1 DEF RemoveRoot, debouncer, OnItsWay, Waits, Sent
    <3>. QED BY <2>1, <2>3, <3>1 DEF RemoveRoot, debouncer
  <2>4. CASE CreateRoot
    <3>1. p \notin unheard'
      BY DEF Waits
    <3>2. detached' = detached /\ detached = TRUE
      BY <1>0, <2>4, <3>1 DEF CreateRoot, Missed
    <3>. QED BY <3>2
  <2>5. CASE WatchError
    <3>1. /\ UNCHANGED <<dirty, unheard, config, raised, unread, detached, batch>>
          /\ channel' = Append(channel, Error)
      BY <2>5 DEF WatchError, debouncer, history
    <3>2. Sent(p) => Sent(p)'
      BY <1>0, <3>1, Appended DEF Sent
    <3>. QED BY <1>1, <2>0, <3>1, <3>2 DEF OnItsWay, Waits
  <2>. QED BY <1>15, <2>2, <2>3, <2>4, <2>5 DEF Environment
<1>. QED BY <1>2, <1>3, <1>4, <1>5, <1>6, <1>7, <1>8, <1>9, <1>10, <1>11, <1>12, <1>13, <1>14,
            <1>15, ElsewhereStep

\* In every instance, no change that the watcher heard of, or that a re-attachment or a
\* running analysis answers for, is forgotten: ChangeOnItsWay.
THEOREM NoChangeForgotten == WatchSpec => []ChangeOnItsWay
<1>1. WatchInit => WatchInv
  <2>1. WatchInit => main = "boot" /\ watching = 0 /\ detached = FALSE /\ reloaded = FALSE
    BY DEF WatchInit, Init
  <2>. QED BY <2>1, WatchInitType
           DEF WatchInv, ReloadInv, BootInv, InitialInv, FilterInv, ChangeOnItsWay, Before, InLoop
<1>2. WatchInv /\ [WatchNext]_allVars => WatchInv'
  <2>. SUFFICES ASSUME WatchInv, [WatchNext]_allVars PROVE WatchInv'
    OBVIOUS
  <2>1. WatchTypeOK'
    BY WatchTypeStep DEF WatchInv
  <2>2. BootInv' /\ InitialInv' /\ FilterInv' /\ ReloadInv'
    BY BootStep, ReloadStep
  <2>3. ChangeOnItsWay'
    <3>1. CASE WatchNext
      <4>1. InLoop' => \A p \in Paths : OnItsWay(p)'
        BY <3>1, ChangeStep
      <4>. QED BY <2>1, <4>1 DEF WatchTypeOK, ChangeOnItsWay, OnItsWay, Sent
    <3>2. CASE UNCHANGED allVars
      BY <3>2 DEF WatchInv, ChangeOnItsWay, InLoop, Waits, allVars, vars, mainVars, watchVars,
                  debouncer, history
    <3>. QED BY <3>1, <3>2
  <2>. QED BY <2>1, <2>2, <2>3 DEF WatchInv
<1>3. WatchInv => ChangeOnItsWay
  BY DEF WatchInv
<1>. QED BY <1>1, <1>2, <1>3, PTL DEF WatchSpec

=============================================================================
