---------------------------- MODULE SignalsProofs ----------------------------
(***************************************************************************)
(* Proofs about Signals, for every set of workers and PIDs and every bound: *)
(* the registry is sound, no registered child is missed by the drain, and   *)
(* the drain leaves no child it took running.                               *)
(***************************************************************************)
EXTENDS Signals, TLAPS

\* Stages in which the worker's child exists and has not been reaped.
HasChild == {"spawned", "keyed", "owned", "waiting", "dropping"}

\* Stages in which the worker's key is the one of its current child.
HasKey == {"keyed", "owned", "waiting", "reaped", "dropping"}

\* A worker's unreaped child occupies its PID, and no two workers share one.
ChildrenInv ==
    /\ \A w \in Workers : wpc[w] \in HasChild => proc[wpid[w]] \in {"running", "zombie"}
    /\ \A w, x \in Workers :
          wpc[w] \in HasChild /\ wpc[x] \in HasChild /\ wpid[w] = wpid[x] => w = x

\* Keys come from NEXT_ID, so no two workers ever hold the same one.
KeysInv ==
    /\ nextId >= 1
    /\ \A w \in Workers : wid[w] < nextId
    /\ \A w \in Workers : wpc[w] \in HasKey => wid[w] >= 1
    /\ \A w, x \in Workers : wid[w] = wid[x] /\ wid[w] >= 1 => w = x

\* The drain's stages and its one-shot guard.
DrainInv ==
    /\ listener \in {"snapshot", "kill", "poll"} => draining = 1
    /\ listener # "kill" => queue = {}

\* A victim is the past or present child of one key; once its kill is sent, the
\* child under that key does not run.
VictimsInv ==
    /\ \A v \in victims : v.id >= 1 /\ v.id < nextId
    /\ \A v \in victims : \A w \in Workers :
          wid[w] = v.id => /\ wpc[w] # "keyed"
                           /\ wpc[w] \in HoldsEntry => wpid[w] = v.pid
    /\ \A v \in victims \ queue : \A w \in Workers :
          wid[w] = v.id /\ wpc[w] \in {"owned", "waiting"} => proc[v.pid] = "zombie"

IInv ==
    /\ TypeOK
    /\ ChildrenInv
    /\ KeysInv
    /\ DrainInv
    /\ RegistrySound
    /\ RegisteredUntilDrained
    /\ VictimsInv

-----------------------------------------------------------------------------

\* The inductive invariant holds initially.
LEMMA InitIInv == Init => IInv
<1>. SUFFICES ASSUME Init PROVE IInv
  OBVIOUS
<1>1. TypeOK
  BY DEF Init, TypeOK, Entry
<1>2. ChildrenInv /\ KeysInv /\ DrainInv
  BY DEF Init, ChildrenInv, KeysInv, DrainInv, HasChild, HasKey
<1>3. RegistrySound /\ RegisteredUntilDrained /\ VictimsInv
  BY DEF Init, RegistrySound, RegisteredUntilDrained, VictimsInv, HoldsEntry
<1>. QED BY <1>1, <1>2, <1>3 DEF IInv

\* Every step keeps the variables in their types.
LEMMA TypeStep == TypeOK /\ [Next]_vars => TypeOK'
<1>. SUFFICES ASSUME TypeOK, [Next]_vars PROVE TypeOK'
  OBVIOUS
<1>. USE DEF TypeOK, sigVars, regVars, listenVars, workVars, mainVars, exitVars
<1>1. CASE MainStep
  <2>1. CASE InstallHandlers
    BY <2>1 DEF InstallHandlers
  <2>2. CASE ReinstallHandlers
    <3>1. installed' \in BOOLEAN
      BY <2>2, Zenon DEF ReinstallHandlers
    <3>. QED BY <2>2, <3>1 DEF ReinstallHandlers
  <2>7. CASE EnterGraceful
    BY <2>7 DEF EnterGraceful
  <2>3. CASE FinishInitial \/ CheckShutdown
    BY <2>3 DEF FinishInitial, CheckShutdown
  <2>4. CASE RootLifecycle \/ FinishAttach \/ PollWatch
    BY <2>4 DEF RootLifecycle, FinishAttach, PollWatch
  <2>5. CASE FinishPass
    BY <2>5 DEF FinishPass
  <2>8. CASE DropGuard
    <3>1. graceful' \in BOOLEAN
      BY <2>8, Zenon DEF DropGuard
    <3>. QED BY <2>8, <3>1 DEF DropGuard
  <2>6. CASE MainExit
    BY <2>6 DEF MainExit
  <2>. QED BY <1>1, <2>1, <2>2, <2>3, <2>4, <2>5, <2>6, <2>7, <2>8 DEF MainStep
<1>2. ASSUME NEW w \in Workers, Spawn(w) PROVE TypeOK'
  BY <1>2 DEF Spawn
<1>3. ASSUME NEW w \in Workers, ChildStep(w) PROVE TypeOK'
  <2>1. CASE TakeId(w)
    BY <2>1 DEF TakeId
  <2>2. CASE Register(w)
    BY <2>2 DEF Register, Entry
  <2>3. CASE Wait(w) \/ Reap(w)
    BY <2>3 DEF Wait, Reap
  <2>4. CASE Deregister(w) \/ DropDeregister(w)
    BY <2>4 DEF Deregister, DropDeregister, Without
  <2>5. CASE DropTryWait(w)
    BY <2>5 DEF DropTryWait
  <2>. QED BY <1>3, <2>1, <2>2, <2>3, <2>4, <2>5 DEF ChildStep
<1>4. CASE ListenerStep
  <2>1. CASE TakeSignal
    BY <2>1 DEF TakeSignal, CodeOf
  <2>2. CASE DrainOnce \/ StartPoll \/ EndPoll \/ Decide \/ HandlerExit
    BY <2>2 DEF DrainOnce, StartPoll, EndPoll, Decide, HandlerExit
  <2>3. CASE Snapshot
    BY <2>3 DEF Snapshot
  <2>4. CASE KillPid
    BY <2>4 DEF KillPid, Killed, Entry
  <2>. QED BY <1>4, <2>1, <2>2, <2>3, <2>4 DEF ListenerStep
<1>5. CASE OSStep
  <2>1. CASE DeliverSignal
    <3>1. PICK sig \in TermSignals :
            IF installed
            THEN pending' = pending \cup {sig} /\ UNCHANGED exitVars
            ELSE pending' = pending /\ exit' = "default" /\ exitCode' = CodeOf(sig)
      BY <2>1 DEF DeliverSignal
    <3>2. pending' \subseteq TermSignals
      BY <3>1
    <3>3. exit' \in {"none", "main", "handler", "default"} /\ exitCode' \in {0, 2, 130, 143}
      BY <3>1 DEF CodeOf
    <3>. QED BY <2>1, <3>2, <3>3 DEF DeliverSignal
  <2>2. ASSUME NEW p \in Pids, ChildExits(p) \/ ForeignProcess(p) PROVE TypeOK'
    BY <2>2 DEF ChildExits, ForeignProcess
  <2>. QED BY <1>5, <2>1, <2>2 DEF OSStep
<1>6. CASE Terminated \/ UNCHANGED vars
  BY <1>6 DEF Terminated, vars
<1>. QED BY <1>1, <1>2, <1>3, <1>4, <1>5, <1>6 DEF Next

\* What the invariant says beyond the types.
Core ==
    /\ ChildrenInv
    /\ KeysInv
    /\ DrainInv
    /\ RegistrySound
    /\ RegisteredUntilDrained
    /\ VictimsInv

coreVars == <<regVars, listener, workVars, proc>>

\* Steps of the main thread and deliveries of signals touch none of it.
LEMMA CoreUnchanged == Core /\ UNCHANGED coreVars => Core'
BY DEF Core, coreVars, regVars, workVars, ChildrenInv, KeysInv, DrainInv, RegistrySound,
   RegisteredUntilDrained, VictimsInv

\* Workers preserve it: a new child takes a free PID and a new key, and only the
\* wrapper that holds a key removes its entry.
LEMMA WorkerStep ==
  ASSUME TypeOK, Core, NEW w \in Workers, Spawn(w) \/ ChildStep(w)
  PROVE  Core'
<1>. USE DEF TypeOK, Core, HasChild, HasKey, HoldsEntry, regVars, listenVars, workVars
<1>1. CASE Spawn(w)
  <2>1. ChildrenInv'
    BY <1>1 DEF Spawn, ChildrenInv
  <2>2. KeysInv' /\ DrainInv'
    BY <1>1 DEF Spawn, KeysInv, DrainInv
  <2>3. RegistrySound' /\ RegisteredUntilDrained'
    BY <1>1 DEF Spawn, RegistrySound, RegisteredUntilDrained
  <2>4. VictimsInv'
    BY <1>1 DEF Spawn, VictimsInv, Entry
  <2>. QED BY <2>1, <2>2, <2>3, <2>4
<1>2. CASE TakeId(w)
  <2>1. ChildrenInv'
    BY <1>2 DEF TakeId, ChildrenInv
  <2>2. KeysInv' /\ DrainInv'
    BY <1>2 DEF TakeId, KeysInv, DrainInv
  <2>3. RegistrySound' /\ RegisteredUntilDrained'
    BY <1>2 DEF TakeId, RegistrySound, RegisteredUntilDrained
  <2>4. VictimsInv'
    BY <1>2 DEF TakeId, VictimsInv, Entry
  <2>. QED BY <2>1, <2>2, <2>3, <2>4
<1>3. CASE Register(w)
  <2>1. ChildrenInv'
    BY <1>3 DEF Register, ChildrenInv
  <2>2. KeysInv' /\ DrainInv'
    BY <1>3 DEF Register, KeysInv, DrainInv
  <2>3. RegistrySound'
    BY <1>3 DEF Register, RegistrySound, KeysInv
  <2>4. RegisteredUntilDrained'
    BY <1>3 DEF Register, RegisteredUntilDrained
  <2>5. VictimsInv'
    BY <1>3 DEF Register, VictimsInv
  <2>. QED BY <2>1, <2>2, <2>3, <2>4, <2>5
<1>4. CASE Wait(w)
  BY <1>4 DEF Wait, ChildrenInv, KeysInv, DrainInv, RegistrySound,
     RegisteredUntilDrained, VictimsInv
<1>5. CASE Reap(w)
  <2>1. ChildrenInv'
    BY <1>5 DEF Reap, ChildrenInv
  <2>2. KeysInv' /\ DrainInv'
    BY <1>5 DEF Reap, KeysInv, DrainInv
  <2>3. RegistrySound' /\ RegisteredUntilDrained'
    BY <1>5 DEF Reap, RegistrySound, RegisteredUntilDrained
  <2>4. VictimsInv'
    BY <1>5 DEF Reap, VictimsInv, ChildrenInv, KeysInv, Entry
  <2>. QED BY <2>1, <2>2, <2>3, <2>4
<1>6. CASE Deregister(w) \/ DropDeregister(w)
  <2>. USE DEF Deregister, DropDeregister, Without
  <2>1. ChildrenInv'
    BY <1>6 DEF ChildrenInv
  <2>2. KeysInv' /\ DrainInv'
    BY <1>6 DEF KeysInv, DrainInv
  <2>3. RegistrySound'
    BY <1>6 DEF RegistrySound
  <2>4. RegisteredUntilDrained'
    BY <1>6 DEF RegisteredUntilDrained, KeysInv
  <2>5. VictimsInv'
    BY <1>6 DEF VictimsInv
  <2>. QED BY <2>1, <2>2, <2>3, <2>4, <2>5
<1>7. CASE DropTryWait(w)
  <2>1. ChildrenInv'
    BY <1>7 DEF DropTryWait, ChildrenInv
  <2>2. KeysInv' /\ DrainInv'
    BY <1>7 DEF DropTryWait, KeysInv, DrainInv
  <2>3. RegistrySound' /\ RegisteredUntilDrained'
    BY <1>7 DEF DropTryWait, RegistrySound, RegisteredUntilDrained
  <2>4. VictimsInv'
    BY <1>7 DEF DropTryWait, VictimsInv, ChildrenInv, KeysInv, Entry
  <2>. QED BY <2>1, <2>2, <2>3, <2>4
<1>. QED BY <1>1, <1>2, <1>3, <1>4, <1>5, <1>6, <1>7 DEF ChildStep

\* The listener preserves it: its snapshot turns every entry into a victim, and
\* each kill turns a running child into a zombie.
LEMMA ListenerKeepsCore ==
  ASSUME TypeOK, Core, ListenerStep
  PROVE  Core'
<1>. USE DEF TypeOK, Core, HasChild, HasKey, HoldsEntry, regVars, listenVars, workVars
<1>1. CASE TakeSignal \/ StartPoll \/ EndPoll \/ Decide \/ HandlerExit
  BY <1>1 DEF TakeSignal, StartPoll, EndPoll, Decide, HandlerExit, ChildrenInv, KeysInv,
     DrainInv, RegistrySound, RegisteredUntilDrained, VictimsInv
<1>2. CASE DrainOnce
  BY <1>2 DEF DrainOnce, ChildrenInv, KeysInv, DrainInv, RegistrySound,
     RegisteredUntilDrained, VictimsInv
<1>3. CASE Snapshot
  <2>1. ChildrenInv' /\ KeysInv' /\ DrainInv'
    BY <1>3 DEF Snapshot, ChildrenInv, KeysInv, DrainInv
  <2>2. RegistrySound' /\ RegisteredUntilDrained'
    BY <1>3 DEF Snapshot, RegistrySound, RegisteredUntilDrained, DrainInv
  <2>3. VictimsInv'
    BY <1>3 DEF Snapshot, VictimsInv, RegistrySound, KeysInv
  <2>. QED BY <2>1, <2>2, <2>3
<1>4. CASE KillPid
  <2>. PICK v \in queue : /\ queue' = queue \ {v}
                          /\ proc' = [proc EXCEPT ![v.pid] = Killed(v.pid)]
    BY <1>4 DEF KillPid
  <2>1. v \in victims /\ v.pid \in Pids
    BY DEF Entry
  <2>2. \A p \in Pids : /\ proc[p] \in {"running", "zombie"} =>
                              proc'[p] \in {"running", "zombie"}
                        /\ proc[p] = "zombie" => proc'[p] = "zombie"
    BY <2>1 DEF Killed
  <2>3. proc[v.pid] \in {"running", "zombie"} => proc'[v.pid] = "zombie"
    BY <2>1 DEF Killed
  <2>4. ChildrenInv'
    BY <1>4, <2>2 DEF KillPid, ChildrenInv
  <2>5. KeysInv' /\ DrainInv'
    BY <1>4 DEF KillPid, KeysInv, DrainInv
  <2>6. RegistrySound' /\ RegisteredUntilDrained'
    BY <1>4 DEF KillPid, RegistrySound, RegisteredUntilDrained
  <2>7. VictimsInv'
    BY <1>4, <2>1, <2>2, <2>3 DEF KillPid, VictimsInv, ChildrenInv, Entry
  <2>. QED BY <2>4, <2>5, <2>6, <2>7
<1>. QED BY <1>1, <1>2, <1>3, <1>4 DEF ListenerStep

\* So does the operating system: it never touches the PID of an unreaped child
\* except to let the child end.
LEMMA OSKeepsCore ==
  ASSUME TypeOK, Core, NEW p \in Pids, ChildExits(p) \/ ForeignProcess(p)
  PROVE  Core'
<1>. USE DEF TypeOK, Core, HasChild, HasKey, HoldsEntry, regVars, listenVars, workVars,
        ChildExits, ForeignProcess
<1>1. ChildrenInv'
  BY DEF ChildrenInv
<1>2. KeysInv' /\ DrainInv'
  BY DEF KeysInv, DrainInv
<1>3. RegistrySound' /\ RegisteredUntilDrained'
  BY DEF RegistrySound, RegisteredUntilDrained
<1>4. VictimsInv'
  BY DEF VictimsInv, Entry
<1>. QED BY <1>1, <1>2, <1>3, <1>4

\* Every step preserves the inductive invariant.
LEMMA IInvStep == IInv /\ [Next]_vars => IInv'
<1>. SUFFICES ASSUME IInv, [Next]_vars PROVE IInv'
  OBVIOUS
<1>1. TypeOK /\ Core
  BY DEF IInv, Core
<1>2. TypeOK'
  BY <1>1, TypeStep
<1>3. Core'
  <2>1. CASE MainStep \/ DeliverSignal \/ Terminated \/ UNCHANGED vars
    <3>1. UNCHANGED coreVars
      BY <2>1 DEF coreVars, vars, regVars, listenVars, workVars, MainStep, InstallHandlers,
         ReinstallHandlers, EnterGraceful, FinishInitial, CheckShutdown,
         RootLifecycle, FinishAttach, PollWatch, FinishPass, DropGuard, MainExit, DeliverSignal, Terminated
    <3>. QED BY <1>1, <3>1, CoreUnchanged
  <2>2. ASSUME NEW w \in Workers, Spawn(w) \/ ChildStep(w) PROVE Core'
    BY <1>1, <2>2, WorkerStep
  <2>3. CASE ListenerStep
    BY <1>1, <2>3, ListenerKeepsCore
  <2>4. ASSUME NEW p \in Pids, ChildExits(p) \/ ForeignProcess(p) PROVE Core'
    BY <1>1, <2>4, OSKeepsCore
  <2>. QED BY <2>1, <2>2, <2>3, <2>4 DEF Next, OSStep
<1>. QED BY <1>2, <1>3 DEF IInv, Core

\* The process keeps its types, whatever the interleaving.
THEOREM TypeCorrect == Spec => []TypeOK
<1>1. Init => TypeOK
  BY InitIInv DEF IInv
<1>. QED BY <1>1, TypeStep, PTL DEF Spec

\* The registry holds exactly live wrappers' children: no leaked entry, no key
\* used twice (ScopedChild spawn, wait and drop against drain_and_kill).
THEOREM RegistryIsSound == Spec => []RegistrySound
<1>1. IInv => RegistrySound
  BY DEF IInv
<1>. QED BY InitIInv, IInvStep, <1>1, PTL DEF Spec

\* Before the drain's snapshot no registered, unreaped child is missing.
THEOREM NoRegisteredChildMissed == Spec => []RegisteredUntilDrained
<1>1. IInv => RegisteredUntilDrained
  BY DEF IInv
<1>. QED BY InitIInv, IInvStep, <1>1, PTL DEF Spec

\* After the kill loop no child the drain took is still running.
THEOREM DrainIsEffective == Spec => []DrainKillsSnapshot
<1>1. IInv => DrainKillsSnapshot
  BY DEF IInv, VictimsInv, DrainInv, DrainKillsSnapshot
<1>. QED BY InitIInv, IInvStep, <1>1, PTL DEF Spec

=============================================================================
