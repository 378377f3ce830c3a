------------------------ MODULE AnalysisFlightProofs ------------------------
(***************************************************************************)
(* Proofs about AnalysisFlight, for any number of triggers, of changes of  *)
(* the arguments and any failure limit: runs never overlap, an explicit    *)
(* call shows arguments at least as new as its own, and automatic runs     *)
(* pause after repeated failures.                                          *)
(***************************************************************************)
EXTENDS AnalysisFlight, FiniteSetTheorems, TLAPS

-----------------------------------------------------------------------------
(* The inductive invariants.                                               *)

(* The slot: only the last run can be running, and while it is not, its    *)
(* `finally` is the whole queue.                                           *)
SlotInv ==
    /\ \A r \in DOMAIN runs : Running(r) => r = inFlight
    /\ inFlight # 0 => inFlight = Len(runs)
    /\ inFlight # 0 => Running(inFlight) \/ micro = <<Finally(inFlight)>>
    /\ \A i \in DOMAIN micro : micro[i].job = "finally" => inFlight # 0 /\ ~Running(inFlight)

(* At most one re-run waits, and it runs when the slot is free.            *)
RerunInv ==
    /\ \A i \in DOMAIN micro : micro[i].job = "rerun" => inFlight = 0
    /\ \A i, j \in DOMAIN micro : micro[i].job = "rerun" /\ micro[j].job = "rerun" => i = j
    /\ inFlight # 0 =>
          LET reactions == runs[inFlight].reactions
          IN  /\ \A i \in DOMAIN reactions :
                    /\ reactions[i].job # "finally"
                    /\ reactions[i].job = "rerun" => pendingForce # << >>
              /\ \A i, j \in DOMAIN reactions :
                    reactions[i].job = "rerun" /\ reactions[j].job = "rerun" => i = j

(* What sh shows is as new as call c of cs.                                *)
AsNew(sh, cs, c) == sh # Nothing /\ sh >= cs[c].scope
UpToDate(c) == AsNew(shown, calls, c)

(* Job j tells an explicit call among those in cs.                         *)
TellsIn(cs, j) == j.job = "continue" /\ cs[j.of].kind = "command"
TellsCommand(j) == TellsIn(calls, j)

(* The run that the jobs in the queue tell of.                             *)
Told == IF inFlight = 0 THEN Len(runs) ELSE Len(runs) - 1

(* The arguments a run reads are as new as those of the explicit calls it  *)
(* answers, and as those of what is shown.                                 *)
ScopeInv ==
    /\ \A c \in DOMAIN calls : calls[c].scope <= scope
    /\ shown # Nothing => shown <= scope
    /\ \A r \in DOMAIN runs :
          /\ \A i \in DOMAIN runs[r].reactions :
                runs[r].reactions[i].job = "continue" => runs[r].reactions[i].of \in DOMAIN calls
          /\ runs[r].state = "spawned" =>
                /\ runs[r].scope <= scope
                /\ shown # Nothing => shown <= runs[r].scope
                /\ \A i \in DOMAIN runs[r].reactions :
                      TellsCommand(runs[r].reactions[i])
                          => calls[runs[r].reactions[i].of].scope <= runs[r].scope

(* An explicit call that was told, or is being told, of a success is       *)
(* answered by what is shown.                                              *)
AnswerInv ==
    /\ inFlight # 0 /\ runs[inFlight].ok = TRUE =>
          \A i \in DOMAIN runs[inFlight].reactions :
              TellsCommand(runs[inFlight].reactions[i])
                  => UpToDate(runs[inFlight].reactions[i].of)
    /\ \A r \in DOMAIN runs : Running(r) => runs[r].ok = FALSE
    /\ \A i \in DOMAIN micro :
          micro[i].job = "continue" =>
              /\ micro[i].of \in DOMAIN calls
              /\ Told \in DOMAIN runs /\ ~Running(Told)
              /\ calls[micro[i].of].kind = "command" /\ runs[Told].ok = TRUE
                    => UpToDate(micro[i].of)
    /\ ForceShowsLatest

(* No explicit run is at work.                                             *)
NoForcedSpawn == \A q \in DOMAIN runs : ~(runs[q].state = "spawned" /\ runs[q].force = TRUE)

(* The entry counts the streak that the last runs are in.                  *)
CountInv ==
    NoForcedSpawn =>
        \A a, r \in DOMAIN runs :
            r \in Settled(a, Len(runs)) /\ Streak(a, Len(runs)) =>
                /\ entry # Nothing
                /\ entry.key = runs[r].scope
                /\ entry.failures >= Cardinality(Settled(a, Len(runs)))

(* No automatic run is at work that would make the streak too long.        *)
AllowInv ==
    \A r \in DOMAIN runs :
        runs[r].state = "spawned" /\ runs[r].force = FALSE
            => \/ entry = Nothing
               \/ entry.key # runs[r].scope
               \/ entry.failures < FailureLimit

BackoffInv == CountInv /\ AllowInv /\ PausesAfterFailures

FlightInv == TypeOK /\ SlotInv /\ RerunInv /\ ScopeInv /\ AnswerInv /\ BackoffInv

-----------------------------------------------------------------------------
(* What the steps do to the runs.                                          *)

(* A run that has not ended is the last one and holds the slot.            *)
LEMMA RunningLast ==
    ASSUME TypeOK, SlotInv, NEW r \in DOMAIN runs, Running(r)
    PROVE  r = inFlight /\ r = Len(runs) /\ r # 0
<1>1. r \in 1 .. Len(runs) /\ Len(runs) \in Nat
  BY DEF TypeOK
<1> QED BY <1>1 DEF SlotInv

(* What a run is.                                                          *)
LEMMA RunTypes ==
    ASSUME TypeOK, NEW r \in DOMAIN runs
    PROVE  /\ runs[r] \in RunRecords /\ runs[r].reactions \in Seq(Jobs)
           /\ runs[r].force \in BOOLEAN /\ runs[r].ok \in BOOLEAN
           /\ runs[r].scope \in 0 .. MaxScope
           /\ runs[r].state \in {"resolving", "spawned", "unresolved", "blocked", "settled"}
<1>1. runs[r] \in RunRecords
  BY DEF TypeOK
<1> QED BY <1>1 DEF RunRecords

(* The end of a run changes its state and its result.                      *)
LEMMA SettleFacts ==
    ASSUME TypeOK, NEW r \in DOMAIN runs, NEW state \in {"unresolved", "blocked", "settled"},
           NEW ok \in BOOLEAN, Settle(r, state, ok)
    PROVE  /\ runs' \in Seq(RunRecords) /\ Len(runs') = Len(runs) /\ DOMAIN runs' = DOMAIN runs
           /\ \A q \in DOMAIN runs : q # r => runs'[q] = runs[q]
           /\ runs'[r].state = state /\ runs'[r].ok = ok
           /\ runs'[r].force = runs[r].force /\ runs'[r].scope = runs[r].scope
           /\ runs'[r].reactions = runs[r].reactions
           /\ micro' = <<Finally(r)>>
           /\ UNCHANGED <<scope, calls, inFlight, pendingForce, ran>>
<1> DEFINE rec == [runs[r] EXCEPT !.state = state, !.ok = ok]
<1>1. runs[r] \in RunRecords /\ runs \in Seq(RunRecords)
  BY DEF TypeOK
<1>2. /\ rec \in RunRecords /\ rec.state = state /\ rec.ok = ok /\ rec.force = runs[r].force
      /\ rec.scope = runs[r].scope /\ rec.reactions = runs[r].reactions
  BY <1>1 DEF RunRecords
<1>3. runs' = [runs EXCEPT ![r] = rec]
  BY <1>1 DEF Settle, RunRecords
<1> HIDE DEF rec
<1>4. /\ runs' \in Seq(RunRecords) /\ Len(runs') = Len(runs) /\ DOMAIN runs' = DOMAIN runs
      /\ runs'[r] = rec /\ \A q \in DOMAIN runs : q # r => runs'[q] = runs[q]
  BY <1>1, <1>2, <1>3
<1> QED BY <1>2, <1>4 DEF Settle

(* A spawn changes its state, and the arguments it has read.               *)
LEMMA SpawnFacts ==
    ASSUME TypeOK, NEW r \in DOMAIN runs, Spawn(r)
    PROVE  /\ runs' \in Seq(RunRecords) /\ Len(runs') = Len(runs) /\ DOMAIN runs' = DOMAIN runs
           /\ \A q \in DOMAIN runs : q # r => runs'[q] = runs[q]
           /\ runs'[r].state = "spawned" /\ runs'[r].scope = scope
           /\ runs'[r].force = runs[r].force /\ runs'[r].ok = runs[r].ok
           /\ runs'[r].reactions = runs[r].reactions
<1> DEFINE rec == [runs[r] EXCEPT !.state = "spawned", !.scope = scope]
<1>1. runs[r] \in RunRecords /\ runs \in Seq(RunRecords) /\ scope \in 0 .. MaxScope
  BY DEF TypeOK
<1>2. /\ rec \in RunRecords /\ rec.state = "spawned" /\ rec.ok = runs[r].ok
      /\ rec.force = runs[r].force /\ rec.scope = scope /\ rec.reactions = runs[r].reactions
  BY <1>1 DEF RunRecords
<1>3. runs' = [runs EXCEPT ![r] = rec]
  BY <1>1 DEF Spawn, RunRecords
<1> HIDE DEF rec
<1>4. /\ runs' \in Seq(RunRecords) /\ Len(runs') = Len(runs) /\ DOMAIN runs' = DOMAIN runs
      /\ runs'[r] = rec /\ \A q \in DOMAIN runs : q # r => runs'[q] = runs[q]
  BY <1>1, <1>2, <1>3
<1> QED BY <1>2, <1>4

(* Joining the run in flight adds a reaction at the end.                   *)
LEMMA JoinFacts ==
    ASSUME TypeOK, inFlight # 0, NEW job \in Jobs, Join(job)
    PROVE  /\ runs' \in Seq(RunRecords) /\ Len(runs') = Len(runs) /\ DOMAIN runs' = DOMAIN runs
           /\ inFlight \in DOMAIN runs /\ inFlight' = inFlight
           /\ \A q \in DOMAIN runs : q # inFlight => runs'[q] = runs[q]
           /\ \A q \in DOMAIN runs :
                 /\ runs'[q].state = runs[q].state /\ runs'[q].ok = runs[q].ok
                 /\ runs'[q].force = runs[q].force /\ runs'[q].scope = runs[q].scope
           /\ runs'[inFlight].reactions = Append(runs[inFlight].reactions, job)
<1> DEFINE rec == [runs[inFlight] EXCEPT !.reactions = Append(runs[inFlight].reactions, job)]
<1>1. inFlight \in DOMAIN runs /\ runs \in Seq(RunRecords)
  BY DEF TypeOK
<1>2. runs[inFlight] \in RunRecords
  BY <1>1
<1>3. Append(runs[inFlight].reactions, job) \in Seq(Jobs)
  BY <1>2 DEF RunRecords
<1> DEFINE longer == Append(runs[inFlight].reactions, job)
<1> HIDE DEF longer
<1>4. /\ rec \in RunRecords /\ rec.state = runs[inFlight].state /\ rec.ok = runs[inFlight].ok
      /\ rec.force = runs[inFlight].force /\ rec.scope = runs[inFlight].scope
      /\ rec.reactions = longer
  BY <1>2, <1>3 DEF RunRecords, longer
<1>5. runs' = [runs EXCEPT ![inFlight] = rec] /\ inFlight' = inFlight
  BY <1>1, <1>2 DEF Join, RunRecords
<1> HIDE DEF rec
<1>6. /\ runs' \in Seq(RunRecords) /\ Len(runs') = Len(runs) /\ DOMAIN runs' = DOMAIN runs
      /\ runs'[inFlight] = rec /\ \A q \in DOMAIN runs : q # inFlight => runs'[q] = runs[q]
  BY <1>1, <1>4, <1>5
<1> QED BY <1>1, <1>4, <1>5, <1>6 DEF longer

(* A start adds a run at the end, and it takes the slot.                   *)
LEMMA StartFacts ==
    ASSUME TypeOK, NEW force \in BOOLEAN, NEW reactions \in Seq(Jobs), Start(force, reactions)
    PROVE  /\ runs' \in Seq(RunRecords) /\ Len(runs') = Len(runs) + 1
           /\ DOMAIN runs' = 1 .. Len(runs) + 1 /\ DOMAIN runs = 1 .. Len(runs)
           /\ Len(runs) \in Nat /\ inFlight' = Len(runs) + 1
           /\ \A q \in DOMAIN runs : q # Len(runs) + 1 /\ runs'[q] = runs[q]
           /\ runs'[Len(runs) + 1].state = "resolving" /\ runs'[Len(runs) + 1].ok = FALSE
           /\ runs'[Len(runs) + 1].force = force
           /\ runs'[Len(runs) + 1].reactions = reactions
<1> DEFINE rec == NewRun(force, reactions)
<1>1. /\ rec \in RunRecords /\ rec.state = "resolving" /\ rec.ok = FALSE /\ rec.force = force
      /\ rec.reactions = reactions
  BY FlightAssumption DEF NewRun, RunRecords
<1>2. runs' = Append(runs, rec) /\ inFlight' = Len(runs) + 1 /\ runs \in Seq(RunRecords)
  BY DEF Start, TypeOK
<1> HIDE DEF rec
<1>3. /\ runs' \in Seq(RunRecords) /\ Len(runs') = Len(runs) + 1
      /\ DOMAIN runs' = 1 .. Len(runs) + 1 /\ DOMAIN runs = 1 .. Len(runs)
      /\ Len(runs) \in Nat /\ runs'[Len(runs) + 1] = rec
  BY <1>1, <1>2
<1>4. \A q \in DOMAIN runs : q # Len(runs) + 1 /\ runs'[q] = runs[q]
  BY <1>1, <1>2
<1> QED BY <1>1, <1>2, <1>3, <1>4

(* The `finally` at the head of the queue is that of the run in flight.    *)
LEMMA FinallyFacts ==
    ASSUME TypeOK, SlotInv, RunFinally
    PROVE  /\ inFlight # 0 /\ inFlight \in DOMAIN runs /\ inFlight = Len(runs)
           /\ ~Running(inFlight) /\ micro' = runs[inFlight].reactions
           /\ inFlight' = 0 /\ UNCHANGED <<scope, calls, runs, pendingForce, entry, shown, ran>>
<1>1. micro # << >> /\ micro \in Seq(Jobs) /\ Head(micro) = micro[1] /\ 1 \in DOMAIN micro
  BY DEF RunFinally, TypeOK
<1>2. inFlight # 0 /\ ~Running(inFlight) /\ inFlight = Len(runs) /\ inFlight \in DOMAIN runs
  BY <1>1 DEF RunFinally, SlotInv, TypeOK
<1>3. micro = <<Finally(inFlight)>>
  BY <1>2 DEF SlotInv
<1>4. Head(micro).of = inFlight /\ Tail(micro) = << >>
  BY <1>3 DEF Finally
<1>5. runs[inFlight].reactions \in Seq(Jobs)
  BY <1>2, RunTypes
<1>6. << >> \o runs[inFlight].reactions = runs[inFlight].reactions
  BY <1>5
<1> QED BY <1>2, <1>4, <1>6 DEF RunFinally

(* The queue after its head is taken.                                      *)
LEMMA QueueFacts ==
    ASSUME TypeOK, micro # << >>
    PROVE  /\ Head(micro) = micro[1] /\ 1 \in DOMAIN micro /\ Tail(micro) \in Seq(Jobs)
           /\ \A i \in DOMAIN Tail(micro) : i \in Nat \ {0} /\ i + 1 \in DOMAIN micro
                                           /\ Tail(micro)[i] = micro[i + 1]
<1>1. micro \in Seq(Jobs)
  BY DEF TypeOK
<1> QED BY <1>1

(* A call is told of the run that ended last.                              *)
LEMMA ToldFacts ==
    ASSUME TypeOK, SlotInv, AnswerInv, micro # << >>, Head(micro).job = "continue"
    PROVE  LastSettled = Told /\ Told \in DOMAIN runs /\ Head(micro).of \in DOMAIN calls
<1>1. Head(micro) = micro[1] /\ 1 \in DOMAIN micro
  BY QueueFacts
<1>2. Told \in DOMAIN runs /\ ~Running(Told) /\ Head(micro).of \in DOMAIN calls
  BY <1>1 DEF AnswerInv
<1>3. Len(runs) \in Nat /\ DOMAIN runs = 1 .. Len(runs)
  BY DEF TypeOK
<1>4. ASSUME NEW q \in DOMAIN runs, q > Told PROVE Running(q)
  <2>1. CASE inFlight = 0
    BY <1>3, <1>4, <2>1 DEF Told
  <2>2. CASE inFlight # 0
    <3>1. q = Len(runs)
      BY <1>3, <1>4, <2>2 DEF Told
    <3>2. micro # <<Finally(inFlight)>>
      BY <1>1 DEF Finally
    <3> QED BY <2>2, <3>1, <3>2 DEF SlotInv
  <2> QED BY <2>1, <2>2
<1> DEFINE Last(r) == /\ runs[r].state \notin {"resolving", "spawned"}
                      /\ \A q \in DOMAIN runs : q > r => runs[q].state \in {"resolving", "spawned"}
<1>5. Last(Told)
  BY <1>2, <1>4 DEF Running
<1>6. ASSUME NEW r \in DOMAIN runs, Last(r) PROVE r = Told
  <2>1. ~(r > Told) /\ ~(Told > r)
    BY <1>2, <1>5, <1>6
  <2>2. r \in Nat /\ Told \in Nat
    BY <1>2, <1>3
  <2> QED BY <2>1, <2>2
<1> HIDE DEF Last
<1>7. LastSettled = CHOOSE r \in DOMAIN runs : Last(r)
  BY DEF LastSettled, Last
<1>8. LastSettled \in DOMAIN runs /\ Last(LastSettled)
  BY <1>2, <1>5, <1>7, Zenon
<1> QED BY <1>2, <1>6, <1>8

(* A call that is told has its result.                                     *)
LEMMA ContinueFacts ==
    ASSUME TypeOK, SlotInv, AnswerInv, RunContinue, NEW c, c = Head(micro).of
    PROVE  /\ micro # << >> /\ Head(micro).job = "continue"
           /\ c \in DOMAIN calls /\ Told \in DOMAIN runs
           /\ calls' \in Seq(CallRecords) /\ Len(calls') = Len(calls)
           /\ DOMAIN calls' = DOMAIN calls
           /\ \A d \in DOMAIN calls : /\ calls'[d].kind = calls[d].kind
                                      /\ calls'[d].scope = calls[d].scope
                                      /\ d # c => calls'[d] = calls[d]
           /\ calls'[c].ok = runs[Told].ok
           /\ ran' \in BOOLEAN /\ micro' = Tail(micro)
           /\ UNCHANGED <<scope, runs, inFlight, pendingForce, entry, shown>>
<1>1. micro # << >> /\ Head(micro).job = "continue" /\ micro' = Tail(micro)
      /\ UNCHANGED <<scope, runs, inFlight, pendingForce, entry, shown>>
  BY DEF RunContinue
<1>2. LastSettled = Told /\ Told \in DOMAIN runs /\ c \in DOMAIN calls
  BY <1>1, ToldFacts
<1> DEFINE ok == runs[Told].ok
           rec == [calls[c] EXCEPT !.done = TRUE, !.ok = ok]
<1>3. ok \in BOOLEAN
  BY <1>2, RunTypes
<1>4. calls[c] \in CallRecords /\ calls \in Seq(CallRecords) /\ calls[c].kind \in Kinds
  <2>1. calls[c] \in CallRecords /\ calls \in Seq(CallRecords)
    BY <1>2 DEF TypeOK
  <2> QED BY <2>1 DEF CallRecords
<1>5. calls' = [calls EXCEPT ![c].done = TRUE, ![c].ok = ok] /\ ran' = RanAfter(calls[c].kind, ok)
  BY <1>2, Zenon DEF RunContinue
<1>6. ran' \in BOOLEAN
  <2>1. ran \in BOOLEAN
    BY DEF TypeOK
  <2>2. (ran /\ ok) \in BOOLEAN
    BY Zenon
  <2> HIDE DEF ok
  <2>3. CASE calls[c].kind \in {"scope", "command"}
    BY <1>3, <1>5, <2>3 DEF RanAfter
  <2>4. CASE calls[c].kind = "view"
    BY <1>5, <2>2, <2>4 DEF RanAfter
  <2>5. CASE calls[c].kind = "config"
    BY <1>5, <2>1, <2>5 DEF RanAfter
  <2> QED BY <1>4, <2>3, <2>4, <2>5 DEF Kinds
<1> HIDE DEF ok
<1>7. rec \in CallRecords /\ rec.kind = calls[c].kind /\ rec.scope = calls[c].scope /\ rec.ok = ok
  BY <1>3, <1>4 DEF CallRecords
<1>8. calls' = [calls EXCEPT ![c] = rec]
  BY <1>2, <1>4, <1>5 DEF CallRecords
<1> HIDE DEF rec
<1>9. /\ calls' \in Seq(CallRecords) /\ Len(calls') = Len(calls) /\ DOMAIN calls' = DOMAIN calls
      /\ calls'[c] = rec /\ \A d \in DOMAIN calls : d # c => calls'[d] = calls[d]
  BY <1>2, <1>4, <1>7, <1>8
<1> QED BY <1>1, <1>2, <1>6, <1>7, <1>9 DEF ok

-----------------------------------------------------------------------------
(* Types.                                                                  *)

(* The jobs are jobs.                                                      *)
LEMMA JobTypes == /\ \A c \in Nat : Continue(c) \in Jobs /\ Finally(c) \in Jobs
                  /\ Rerun \in Jobs
BY DEF Continue, Finally, Rerun, Jobs

(* The calls that wait for the re-run are told by it.                      *)
LEMMA ReactionsType ==
    ASSUME TypeOK PROVE [i \in DOMAIN pendingForce |-> Continue(pendingForce[i])] \in Seq(Jobs)
<1>1. pendingForce \in Seq(1 .. Len(calls)) /\ Len(calls) \in Nat
  BY DEF TypeOK
<1>2. \A i \in 1 .. Len(pendingForce) : pendingForce[i] \in Nat
  BY <1>1
<1>3. \A i \in 1 .. Len(pendingForce) : Continue(pendingForce[i]) \in Jobs
  BY <1>2, JobTypes
<1>4. DOMAIN pendingForce = 1 .. Len(pendingForce) /\ Len(pendingForce) \in Nat
  BY <1>1
<1> QED BY <1>3, <1>4

(* A trigger starts a run, joins one or waits for the re-run.              *)
LEMMA TriggerType == ASSUME TypeOK, NEW kind \in Kinds, Trigger(kind) PROVE TypeOK'
<1> DEFINE c == Len(calls) + 1
           call == [kind |-> kind, scope |-> scope', done |-> FALSE, ok |-> FALSE]
<1>1. Len(calls) \in Nat /\ c \in Nat /\ calls \in Seq(CallRecords) /\ scope \in 0 .. MaxScope
  BY DEF TypeOK
<1>2. scope' \in 0 .. MaxScope
  BY <1>1, FlightAssumption DEF Trigger
<1>3. call \in CallRecords
  BY <1>2 DEF CallRecords
<1>4. calls' = Append(calls, call)
  BY DEF Trigger
<1> HIDE DEF call
<1>5. calls' \in Seq(CallRecords) /\ Len(calls') = c /\ c <= MaxCalls
  BY <1>1, <1>3, <1>4, FlightAssumption DEF Trigger
<1>6. ran' \in BOOLEAN /\ (kind = "command") \in BOOLEAN
  BY Zenon DEF Trigger
<1>7. <<Continue(c)>> \in Seq(Jobs) /\ Continue(c) \in Jobs /\ Rerun \in Jobs
  <2>1. Continue(c) \in Jobs /\ Rerun \in Jobs
    BY <1>1, JobTypes
  <2> QED BY <2>1
<1>8. /\ runs' \in Seq(RunRecords) /\ inFlight' \in 0 .. Len(runs')
      /\ pendingForce' \in Seq(1 .. c)
  <2>0. pendingForce \in Seq(1 .. c) /\ runs \in Seq(RunRecords) /\ inFlight \in 0 .. Len(runs)
        /\ c \in 1 .. c
    <3>1. pendingForce \in Seq(1 .. Len(calls)) /\ 1 .. Len(calls) \subseteq 1 .. c /\ c \in 1 .. c
      BY <1>1 DEF TypeOK
    <3> QED BY <3>1 DEF TypeOK
  <2>1. CASE inFlight = 0 /\ Start(kind = "command", <<Continue(c)>>) /\ UNCHANGED pendingForce
    <3>1. runs' \in Seq(RunRecords) /\ Len(runs') = Len(runs) + 1 /\ inFlight' = Len(runs) + 1
          /\ Len(runs) \in Nat
      BY <1>6, <1>7, <2>1, StartFacts
    <3> QED BY <2>0, <2>1, <3>1
  <2>2. CASE inFlight # 0 /\ Join(Continue(c)) /\ UNCHANGED pendingForce
    BY <1>7, <2>0, <2>2, JoinFacts
  <2>3. CASE inFlight # 0 /\ Join(Rerun) /\ pendingForce' = Append(pendingForce, c)
    BY <1>7, <2>0, <2>3, JoinFacts
  <2>4. CASE UNCHANGED <<runs, inFlight>> /\ pendingForce' = Append(pendingForce, c)
    BY <2>0, <2>4
  <2> QED BY <2>1, <2>2, <2>3, <2>4, Zenon DEF Trigger, Run
<1>9. UNCHANGED <<micro, entry, shown>>
  BY DEF Trigger
<1> QED BY <1>2, <1>5, <1>6, <1>8, <1>9 DEF TypeOK

(* A run ends.                                                             *)
LEMMA SettleType ==
    ASSUME TypeOK, NEW r \in DOMAIN runs, NEW state \in {"unresolved", "blocked", "settled"},
           NEW ok \in BOOLEAN, Settle(r, state, ok),
           entry' \in Entries \cup {Nothing},
           entry' # Nothing => /\ entry'.paused = (entry'.failures >= FailureLimit)
                               /\ entry'.notified => entry'.paused,
           shown' \in (0 .. MaxScope) \cup {Nothing}
    PROVE  TypeOK'
<1>1. /\ runs' \in Seq(RunRecords) /\ Len(runs') = Len(runs)
      /\ micro' = <<Finally(r)>> /\ UNCHANGED <<scope, calls, inFlight, pendingForce, ran>>
  BY SettleFacts
<1>2. r \in Nat
  BY DEF TypeOK
<1>3. micro' \in Seq(Jobs)
  <2>1. Finally(r) \in Jobs
    BY <1>2, JobTypes
  <2> QED BY <1>1, <2>1
<1> QED BY <1>1, <1>3 DEF TypeOK

(* A failure is recorded in an entry of its type (recordFailure).          *)
LEMMA RecordFailureType ==
    ASSUME TypeOK, NEW key \in 0 .. MaxScope
    PROVE  /\ RecordFailure(key) \in Entries
           /\ RecordFailure(key).paused = (RecordFailure(key).failures >= FailureLimit)
           /\ RecordFailure(key).notified => RecordFailure(key).paused
           /\ RecordFailure(key).key = key
           /\ RecordFailure(key).failures =
                 IF entry # Nothing /\ entry.key = key THEN entry.failures + 1 ELSE 1
<1> DEFINE known == entry # Nothing /\ entry.key = key
           failures == IF known THEN entry.failures + 1 ELSE 1
           paused == failures >= FailureLimit
           notified == (known /\ entry.notified) \/ paused
<1>1. RecordFailure(key) = [key |-> key, failures |-> failures, paused |-> paused, notified |-> notified]
  BY Zenon DEF RecordFailure
<1>2. entry # Nothing => /\ entry.failures \in Nat \ {0} /\ entry.notified \in BOOLEAN
                         /\ entry.paused = (entry.failures >= FailureLimit)
                         /\ entry.notified => entry.paused
  BY DEF TypeOK, Entries
<1>3. failures \in Nat \ {0} /\ FailureLimit \in Nat
  BY <1>2, FlightAssumption
<1>4. paused \in BOOLEAN /\ notified \in BOOLEAN
  <2>1. paused \in BOOLEAN
    BY <1>3
  <2>2. notified \in BOOLEAN
    BY Zenon
  <2> QED BY <2>1, <2>2
<1>5. notified => paused
  <2> SUFFICES ASSUME known, entry.notified PROVE paused
    BY Zenon
  <2>1. entry.failures >= FailureLimit /\ entry.failures \in Nat
    BY <1>2
  <2> QED BY <1>3, <2>1
<1> HIDE DEF paused, notified
<1>6. /\ RecordFailure(key) \in Entries /\ RecordFailure(key).paused = paused
      /\ RecordFailure(key).notified = notified /\ RecordFailure(key).key = key
      /\ RecordFailure(key).failures = failures
  BY <1>1, <1>3, <1>4 DEF Entries
<1> QED BY <1>5, <1>6 DEF paused

(* Every step keeps the types.                                             *)
LEMMA TypeStep == TypeOK /\ SlotInv /\ AnswerInv /\ Next => TypeOK'
<1> SUFFICES ASSUME TypeOK, SlotInv, AnswerInv, Next PROVE TypeOK'
  OBVIOUS
<1>0. /\ entry \in Entries \cup {Nothing}
      /\ entry # Nothing => /\ entry.paused = (entry.failures >= FailureLimit)
                            /\ entry.notified => entry.paused
      /\ shown \in (0 .. MaxScope) \cup {Nothing}
  BY DEF TypeOK
<1>1. ASSUME NEW kind \in Kinds, Trigger(kind) PROVE TypeOK'
  BY <1>1, TriggerType
<1>2. ASSUME NEW r \in DOMAIN runs, ResolveFails(r) PROVE TypeOK'
  BY <1>0, <1>2, SettleType DEF ResolveFails
<1>3. ASSUME NEW r \in DOMAIN runs, StopBlocked(r) PROVE TypeOK'
  <2>1. entry \in Entries /\ entry.paused
    BY <1>0, <1>3 DEF StopBlocked, Blocked
  <2>2. /\ entry' \in Entries /\ entry'.paused = entry.paused
        /\ entry'.failures = entry.failures
    BY <1>3, <2>1 DEF StopBlocked, Entries
  <2>3. /\ entry'.paused = (entry'.failures >= FailureLimit)
        /\ entry'.notified => entry'.paused
    <3>1. entry # Nothing
      BY <1>3 DEF StopBlocked, Blocked
    <3>2. entry.paused = (entry.failures >= FailureLimit)
      BY <1>0, <3>1
    <3> QED BY <2>1, <2>2, <3>2, Zenon
  <2> QED BY <1>0, <1>3, <2>2, <2>3, SettleType DEF StopBlocked
<1>4. ASSUME NEW r \in DOMAIN runs, Spawn(r) PROVE TypeOK'
  <2>1. runs' \in Seq(RunRecords) /\ Len(runs') = Len(runs)
    BY <1>4, SpawnFacts
  <2>2. /\ entry' \in Entries \cup {Nothing}
        /\ entry' # Nothing => /\ entry'.paused = (entry'.failures >= FailureLimit)
                               /\ entry'.notified => entry'.paused
    BY <1>0, <1>4 DEF Spawn
  <2>3. UNCHANGED <<scope, calls, inFlight, pendingForce, micro, shown, ran>>
    BY <1>4 DEF Spawn
  <2> QED BY <2>1, <2>2, <2>3 DEF TypeOK
<1>5. ASSUME NEW r \in DOMAIN runs, Succeed(r) PROVE TypeOK'
  <2>1. shown' \in (0 .. MaxScope) \cup {Nothing}
    BY <1>5, RunTypes DEF Succeed
  <2>2. /\ entry' \in Entries \cup {Nothing}
        /\ entry' # Nothing => /\ entry'.paused = (entry'.failures >= FailureLimit)
                               /\ entry'.notified => entry'.paused
    BY <1>0, <1>5 DEF Succeed
  <2> QED BY <1>5, <2>1, <2>2, SettleType DEF Succeed
<1>6. ASSUME NEW r \in DOMAIN runs, Fail(r) PROVE TypeOK'
  <2>1. /\ entry' \in Entries \cup {Nothing}
        /\ entry' # Nothing => /\ entry'.paused = (entry'.failures >= FailureLimit)
                               /\ entry'.notified => entry'.paused
    <3>1. runs[r].scope \in 0 .. MaxScope
      BY RunTypes
    <3>2. CASE runs[r].force
      BY <1>0, <1>6, <3>2 DEF Fail
    <3>3. CASE ~runs[r].force
      <4>1. entry' = RecordFailure(runs[r].scope)
        BY <1>6, <3>3 DEF Fail
      <4> QED BY <3>1, <4>1, RecordFailureType
    <3> QED BY <3>2, <3>3
  <2> QED BY <1>0, <1>6, <2>1, SettleType DEF Fail
<1>7. ASSUME RunFinally PROVE TypeOK'
  <2>1. /\ inFlight \in DOMAIN runs /\ micro' = runs[inFlight].reactions /\ inFlight' = 0
        /\ UNCHANGED <<scope, calls, runs, pendingForce, entry, shown, ran>>
    BY <1>7, FinallyFacts
  <2>2. micro' \in Seq(Jobs)
    BY <2>1, RunTypes
  <2>3. 0 \in 0 .. Len(runs)
    BY DEF TypeOK
  <2> QED BY <2>1, <2>2, <2>3 DEF TypeOK
<1>8. ASSUME RunRerun PROVE TypeOK'
  <2> DEFINE reactions == [i \in DOMAIN pendingForce |-> Continue(pendingForce[i])]
  <2>1. reactions \in Seq(Jobs)
    BY ReactionsType
  <2>2. Start(TRUE, reactions) /\ pendingForce' = << >> /\ micro' = Tail(micro)
        /\ UNCHANGED <<scope, calls, entry, shown, ran>> /\ micro # << >>
    BY <1>8 DEF RunRerun
  <2>3. runs' \in Seq(RunRecords) /\ Len(runs') = Len(runs) + 1 /\ inFlight' = Len(runs) + 1
        /\ Len(runs) \in Nat
    BY <2>1, <2>2, StartFacts
  <2>4. inFlight' \in 0 .. Len(runs')
    BY <2>3
  <2>5. micro' \in Seq(Jobs) /\ pendingForce' \in Seq(1 .. Len(calls'))
    BY <2>2 DEF TypeOK
  <2> QED BY <2>2, <2>3, <2>4, <2>5 DEF TypeOK
<1>9. ASSUME RunContinue PROVE TypeOK'
  <2>1. /\ calls' \in Seq(CallRecords) /\ Len(calls') = Len(calls) /\ ran' \in BOOLEAN
        /\ micro # << >> /\ micro' = Tail(micro)
        /\ UNCHANGED <<scope, runs, inFlight, pendingForce, entry, shown>>
    BY <1>9, ContinueFacts
  <2>2. micro' \in Seq(Jobs)
    BY <2>1, QueueFacts
  <2> QED BY <2>1, <2>2 DEF TypeOK
<1> QED
  BY <1>1, <1>2, <1>3, <1>4, <1>5, <1>6, <1>7, <1>8, <1>9 DEF Next, Progress, RunStep

-----------------------------------------------------------------------------
(* The slot and the re-run.                                                *)

(* What a trigger does to the calls, and the four things it may do to the  *)
(* runs.                                                                   *)
LEMMA TriggerFacts ==
    ASSUME TypeOK, NEW kind \in Kinds, Trigger(kind), NEW c, c = Len(calls) + 1
    PROVE  /\ micro = << >> /\ UNCHANGED <<micro, entry, shown>>
           /\ scope \in Nat /\ scope' \in Nat /\ scope <= scope'
           /\ DOMAIN calls' = DOMAIN calls \cup {c} /\ c \notin DOMAIN calls /\ c \in Nat
           /\ \A d \in DOMAIN calls : calls'[d] = calls[d]
           /\ calls'[c] = [kind |-> kind, scope |-> scope', done |-> FALSE, ok |-> FALSE]
           /\ \/ /\ inFlight = 0
                 /\ Start(kind = "command", <<Continue(c)>>)
                 /\ UNCHANGED pendingForce
              \/ /\ inFlight # 0 /\ kind # "command"
                 /\ Join(Continue(c))
                 /\ UNCHANGED pendingForce
              \/ /\ inFlight # 0 /\ pendingForce = << >>
                 /\ Join(Rerun)
                 /\ pendingForce' # << >>
              \/ /\ inFlight # 0 /\ pendingForce # << >>
                 /\ UNCHANGED <<runs, inFlight>>
                 /\ pendingForce' # << >>
<1> DEFINE call == [kind |-> kind, scope |-> scope', done |-> FALSE, ok |-> FALSE]
<1>1. calls \in Seq(CallRecords) /\ scope \in 0 .. MaxScope /\ MaxScope \in Nat
  BY FlightAssumption DEF TypeOK
<1>2. calls' = Append(calls, call)
  BY DEF Trigger
<1> HIDE DEF call
<1>3. /\ DOMAIN calls' = DOMAIN calls \cup {c} /\ c \notin DOMAIN calls /\ c \in Nat
      /\ calls'[c] = call /\ \A d \in DOMAIN calls : calls'[d] = calls[d]
  BY <1>1, <1>2
<1>4. scope \in Nat /\ scope' \in Nat /\ scope <= scope'
  BY <1>1 DEF Trigger
<1>5. micro = << >> /\ UNCHANGED <<micro, entry, shown>> /\ Run(kind = "command", c)
  BY DEF Trigger
<1>6. Append(pendingForce, c) # << >>
  <2>1. pendingForce \in Seq(Nat)
    BY <1>1 DEF TypeOK
  <2>2. Len(Append(pendingForce, c)) = Len(pendingForce) + 1 /\ Len(pendingForce) \in Nat
    BY <1>3, <2>1
  <2> QED BY <2>2
<1> QED BY <1>3, <1>4, <1>5, <1>6, Zenon DEF Run, call

(* The slot survives every step.                                           *)
LEMMA SlotStep == FlightInv /\ Next => SlotInv' /\ RerunInv'
<1> SUFFICES ASSUME FlightInv, Next PROVE SlotInv' /\ RerunInv'
  OBVIOUS
<1>0. TypeOK /\ SlotInv /\ RerunInv /\ AnswerInv /\ Len(runs) \in Nat /\ DOMAIN runs = 1 .. Len(runs)
  BY DEF FlightInv, TypeOK
<1>1. ASSUME NEW force \in BOOLEAN, NEW reactions \in Seq(Jobs), Start(force, reactions), inFlight = 0,
             \A i \in DOMAIN reactions : reactions[i].job = "continue",
             \A i \in DOMAIN micro' : micro'[i].job = "continue"
      PROVE  SlotInv' /\ RerunInv'
  <2>1. /\ Len(runs') = Len(runs) + 1 /\ DOMAIN runs' = 1 .. Len(runs) + 1
        /\ inFlight' = Len(runs) + 1
        /\ \A q \in DOMAIN runs : runs'[q] = runs[q]
        /\ runs'[Len(runs) + 1].state = "resolving"
        /\ runs'[Len(runs) + 1].reactions = reactions
    BY <1>0, <1>1, StartFacts
  <2>2. \A q \in DOMAIN runs : ~Running(q)
    BY <1>0, <1>1 DEF SlotInv
  <2>3. \A q \in DOMAIN runs' : Running(q)' => q = inFlight'
    <3> SUFFICES ASSUME NEW q \in DOMAIN runs', Running(q)', q # inFlight' PROVE FALSE
      OBVIOUS
    <3>1. q \in DOMAIN runs
      BY <1>0, <2>1
    <3> QED BY <2>1, <2>2, <3>1 DEF Running
  <2>4. SlotInv'
    <3>1. Running(inFlight)'
      BY <2>1 DEF Running
    <3> QED BY <1>1, <2>1, <2>3, <3>1 DEF SlotInv
  <2>5. RerunInv'
    BY <1>1, <2>1 DEF RerunInv
  <2> QED BY <2>4, <2>5
<1>2. ASSUME NEW job \in Jobs, inFlight # 0, micro = << >>, micro' = << >>, Join(job),
             \/ job.job = "continue" /\ pendingForce' = pendingForce
             \/ job.job = "rerun" /\ pendingForce = << >> /\ pendingForce' # << >>
      PROVE  SlotInv' /\ RerunInv'
  <2>1. /\ Len(runs') = Len(runs) /\ DOMAIN runs' = DOMAIN runs
        /\ inFlight \in DOMAIN runs /\ inFlight' = inFlight
        /\ \A q \in DOMAIN runs : runs'[q].state = runs[q].state
        /\ runs'[inFlight].reactions = Append(runs[inFlight].reactions, job)
    BY <1>0, <1>2, JoinFacts
  <2>2. \A q \in DOMAIN runs : Running(q)' <=> Running(q)
    BY <2>1 DEF Running
  <2>3. SlotInv'
    BY <1>0, <1>2, <2>1, <2>2 DEF SlotInv
  <2> DEFINE old == runs[inFlight].reactions
             new == Append(old, job)
  <2>4. old \in Seq(Jobs)
    BY <1>0, <2>1, RunTypes
  <2>5. /\ \A i \in DOMAIN old : old[i].job # "finally" /\ (old[i].job = "rerun" => pendingForce # << >>)
        /\ \A i, j \in DOMAIN old : old[i].job = "rerun" /\ old[j].job = "rerun" => i = j
    BY <1>0, <1>2 DEF RerunInv
  <2> HIDE DEF old
  <2>6. \A i \in DOMAIN new : (i \in DOMAIN old /\ new[i] = old[i]) \/ (i = Len(old) + 1 /\ new[i] = job)
    BY <2>4
  <2> HIDE DEF new
  <2>7. /\ \A i \in DOMAIN new : new[i].job # "finally" /\ (new[i].job = "rerun" => pendingForce' # << >>)
        /\ \A i, j \in DOMAIN new : new[i].job = "rerun" /\ new[j].job = "rerun" => i = j
    BY <1>2, <2>5, <2>6
  <2>8. RerunInv'
    BY <1>2, <2>1, <2>7 DEF RerunInv, new, old
  <2> QED BY <2>3, <2>8
<1>3. ASSUME NEW kind \in Kinds, Trigger(kind) PROVE SlotInv' /\ RerunInv'
  <2> DEFINE c == Len(calls) + 1
  <2>1. /\ micro = << >> /\ micro' = << >> /\ c \in Nat
        /\ \/ /\ inFlight = 0
              /\ Start(kind = "command", <<Continue(c)>>)
              /\ UNCHANGED pendingForce
           \/ inFlight # 0 /\ Join(Continue(c)) /\ UNCHANGED pendingForce
           \/ inFlight # 0 /\ pendingForce = << >> /\ Join(Rerun) /\ pendingForce' # << >>
           \/ /\ inFlight # 0 /\ pendingForce # << >>
              /\ UNCHANGED <<runs, inFlight>>
              /\ pendingForce' # << >>
    BY <1>0, <1>3, TriggerFacts
  <2>2. Continue(c) \in Jobs /\ Continue(c).job = "continue" /\ Rerun \in Jobs /\ Rerun.job = "rerun"
    BY <2>1, JobTypes DEF Continue, Rerun
  <2>3. CASE inFlight = 0 /\ Start(kind = "command", <<Continue(c)>>)
    <3>1. (kind = "command") \in BOOLEAN
      BY Zenon
    <3>2. <<Continue(c)>> \in Seq(Jobs) /\ \A i \in DOMAIN <<Continue(c)>> : <<Continue(c)>>[i].job = "continue"
      BY <2>2
    <3>3. \A i \in DOMAIN micro' : micro'[i].job = "continue"
      BY <2>1
    <3> QED BY <1>1, <2>3, <3>1, <3>2, <3>3
  <2>4. CASE inFlight # 0 /\ Join(Continue(c)) /\ UNCHANGED pendingForce
    BY <1>2, <2>1, <2>2, <2>4
  <2>5. CASE inFlight # 0 /\ pendingForce = << >> /\ Join(Rerun) /\ pendingForce' # << >>
    BY <1>2, <2>1, <2>2, <2>5
  <2>6. CASE inFlight # 0 /\ UNCHANGED <<runs, inFlight>> /\ pendingForce' # << >>
    BY <1>0, <2>1, <2>6 DEF SlotInv, RerunInv, Running
  <2> QED BY <2>1, <2>3, <2>4, <2>5, <2>6
<1>4. ASSUME NEW r \in DOMAIN runs, Running(r), NEW state \in {"unresolved", "blocked", "settled"},
             NEW ok \in BOOLEAN, Settle(r, state, ok)
      PROVE  SlotInv' /\ RerunInv'
  <2>1. r = inFlight /\ r = Len(runs) /\ r # 0
    BY <1>0, <1>4, RunningLast
  <2>2. /\ Len(runs') = Len(runs) /\ DOMAIN runs' = DOMAIN runs
        /\ \A q \in DOMAIN runs : q # r => runs'[q] = runs[q]
        /\ runs'[r].state = state /\ runs'[r].reactions = runs[r].reactions
        /\ micro' = <<Finally(r)>> /\ UNCHANGED <<inFlight, pendingForce>>
    BY <1>0, <1>4, SettleFacts
  <2>3. \A q \in DOMAIN runs : ~Running(q)'
    BY <1>0, <2>1, <2>2 DEF SlotInv, Running
  <2>4. \A i \in DOMAIN micro' : micro'[i].job = "finally"
    BY <2>2 DEF Finally
  <2>5. SlotInv'
    BY <2>1, <2>2, <2>3 DEF SlotInv
  <2>6. RerunInv'
    <3>1. \A i \in DOMAIN micro' : micro'[i].job # "rerun"
      BY <2>4
    <3>2. inFlight' = inFlight /\ pendingForce' = pendingForce
          /\ runs'[inFlight'].reactions = runs[inFlight].reactions
      BY <2>1, <2>2
    <3> QED BY <1>0, <3>1, <3>2 DEF RerunInv
  <2> QED BY <2>5, <2>6
<1>5. ASSUME NEW r \in DOMAIN runs, ResolveFails(r) \/ StopBlocked(r) \/ Succeed(r) \/ Fail(r)
      PROVE  SlotInv' /\ RerunInv'
  BY <1>4, <1>5 DEF ResolveFails, StopBlocked, Succeed, Fail, Running
<1>6. ASSUME NEW r \in DOMAIN runs, Spawn(r) PROVE SlotInv' /\ RerunInv'
  <2>1. r = inFlight /\ micro = << >> /\ UNCHANGED <<inFlight, pendingForce, micro>>
    BY <1>0, <1>6, RunningLast DEF Spawn, Running
  <2>2. /\ Len(runs') = Len(runs) /\ DOMAIN runs' = DOMAIN runs
        /\ \A q \in DOMAIN runs : q # r => runs'[q] = runs[q]
        /\ runs'[r].state = "spawned" /\ runs'[r].reactions = runs[r].reactions
    BY <1>0, <1>6, SpawnFacts
  <2>3. \A q \in DOMAIN runs : Running(q)' <=> Running(q)
    BY <1>6, <2>2 DEF Spawn, Running
  <2> QED BY <1>0, <2>1, <2>2, <2>3 DEF SlotInv, RerunInv
<1>7. ASSUME RunFinally PROVE SlotInv' /\ RerunInv'
  <2>1. /\ inFlight # 0 /\ ~Running(inFlight) /\ micro' = runs[inFlight].reactions
        /\ inFlight' = 0 /\ UNCHANGED <<runs, pendingForce>>
    BY <1>0, <1>7, FinallyFacts
  <2>2. \A q \in DOMAIN runs : ~Running(q)'
    BY <1>0, <2>1 DEF SlotInv, Running
  <2> QED BY <1>0, <2>1, <2>2 DEF SlotInv, RerunInv
<1>8. ASSUME micro # << >>, Head(micro).job \in {"rerun", "continue"}, micro' = Tail(micro)
      PROVE  /\ \A i \in DOMAIN micro' : i \in Nat \ {0} /\ i + 1 \in DOMAIN micro /\ micro'[i] = micro[i + 1]
             /\ \A i \in DOMAIN micro' : micro'[i].job # "finally"
             /\ \A i \in DOMAIN micro' : Head(micro).job = "rerun" => micro'[i].job = "continue"
  <2>1. /\ Head(micro) = micro[1] /\ 1 \in DOMAIN micro
        /\ \A i \in DOMAIN micro' : i \in Nat \ {0} /\ i + 1 \in DOMAIN micro /\ micro'[i] = micro[i + 1]
    BY <1>0, <1>8, QueueFacts
  <2>2. ASSUME NEW i \in DOMAIN micro' PROVE micro'[i].job # "finally"
    <3>1. SUFFICES ASSUME micro[i + 1].job = "finally" PROVE FALSE
      BY <2>1
    <3>2. micro = <<Finally(inFlight)>>
      BY <1>0, <2>1, <3>1 DEF SlotInv
    <3> QED BY <1>8, <2>1, <3>2 DEF Finally
  <2>3. ASSUME NEW i \in DOMAIN micro', Head(micro).job = "rerun" PROVE micro'[i].job = "continue"
    <3>1. micro[i + 1].job # "rerun"
      <4>1. i + 1 # 1
        BY <2>1
      <4> QED BY <1>0, <2>1, <2>3, <4>1 DEF RerunInv
    <3>2. micro[i + 1] \in Jobs
      BY <1>0, <2>1 DEF TypeOK
    <3> QED BY <2>1, <2>2, <3>1, <3>2 DEF Jobs
  <2> QED BY <2>1, <2>2, <2>3
<1>9. ASSUME RunRerun PROVE SlotInv' /\ RerunInv'
  <2> DEFINE reactions == [i \in DOMAIN pendingForce |-> Continue(pendingForce[i])]
  <2>1. micro # << >> /\ Head(micro).job = "rerun" /\ micro' = Tail(micro) /\ Start(TRUE, reactions)
    BY <1>9 DEF RunRerun
  <2>2. \A i \in DOMAIN micro' : micro'[i].job = "continue"
    BY <1>8, <2>1
  <2>3. inFlight = 0
    BY <1>0, <2>1, QueueFacts DEF RerunInv
  <2>4. reactions \in Seq(Jobs)
    BY <1>0, ReactionsType
  <2>5. \A i \in DOMAIN reactions : reactions[i].job = "continue"
    BY DEF Continue
  <2> HIDE DEF reactions
  <2> QED BY <1>1, <2>1, <2>2, <2>3, <2>4, <2>5
<1>10. ASSUME RunContinue PROVE SlotInv' /\ RerunInv'
  <2>1. /\ micro # << >> /\ Head(micro).job = "continue" /\ micro' = Tail(micro)
        /\ UNCHANGED <<runs, inFlight, pendingForce>>
    BY <1>10 DEF RunContinue
  <2>2. /\ \A i \in DOMAIN micro' : i \in Nat \ {0} /\ i + 1 \in DOMAIN micro /\ micro'[i] = micro[i + 1]
        /\ \A i \in DOMAIN micro' : micro'[i].job # "finally"
    BY <1>8, <2>1
  <2>3. SlotInv'
    <3>1. micro # <<Finally(inFlight)>>
      BY <2>1 DEF Finally
    <3> QED BY <1>0, <2>1, <2>2, <3>1 DEF SlotInv, Running
  <2>4. RerunInv'
    <3>1. \A i, j \in DOMAIN micro' :
             micro'[i].job = "rerun" /\ micro'[j].job = "rerun" => i + 1 = j + 1
      BY <1>0, <2>2 DEF RerunInv
    <3>2. \A i, j \in DOMAIN micro' : i + 1 = j + 1 => i = j
      BY <2>2
    <3>3. \A i \in DOMAIN micro' : micro'[i].job = "rerun" => inFlight = 0
      BY <1>0, <2>2 DEF RerunInv
    <3> QED BY <1>0, <2>1, <3>1, <3>2, <3>3 DEF RerunInv
  <2> QED BY <2>3, <2>4
<1> QED
  BY <1>3, <1>5, <1>6, <1>7, <1>9, <1>10 DEF Next, Progress, RunStep

-----------------------------------------------------------------------------
(* What is shown.                                                          *)

(* A trigger asks for arguments that no run has read too early.            *)
LEMMA TriggerAnswer ==
    ASSUME FlightInv, NEW kind \in Kinds, Trigger(kind) PROVE ScopeInv' /\ AnswerInv'
<1> DEFINE c == Len(calls) + 1
<1>0. TypeOK /\ SlotInv /\ ScopeInv /\ AnswerInv /\ Len(runs) \in Nat /\ DOMAIN runs = 1 .. Len(runs)
  BY DEF FlightInv, TypeOK
<1>1. /\ micro = << >> /\ micro' = << >> /\ UNCHANGED shown
      /\ scope \in Nat /\ scope' \in Nat /\ scope <= scope'
      /\ DOMAIN calls' = DOMAIN calls \cup {c} /\ c \notin DOMAIN calls /\ c \in Nat
      /\ \A d \in DOMAIN calls : calls'[d] = calls[d]
      /\ calls'[c].kind = kind /\ calls'[c].scope = scope' /\ calls'[c].done = FALSE
  <2>1. /\ micro = << >> /\ UNCHANGED <<micro, entry, shown>>
        /\ scope \in Nat /\ scope' \in Nat /\ scope <= scope'
        /\ DOMAIN calls' = DOMAIN calls \cup {c} /\ c \notin DOMAIN calls /\ c \in Nat
        /\ \A d \in DOMAIN calls : calls'[d] = calls[d]
        /\ calls'[c] = [kind |-> kind, scope |-> scope', done |-> FALSE, ok |-> FALSE]
    BY <1>0, TriggerFacts
  <2> HIDE DEF c
  <2> QED BY <2>1
<1>2. \/ inFlight = 0 /\ Start(kind = "command", <<Continue(c)>>)
      \/ inFlight # 0 /\ kind # "command" /\ Join(Continue(c))
      \/ inFlight # 0 /\ Join(Rerun)
      \/ UNCHANGED <<runs, inFlight>>
  BY <1>0, TriggerFacts
<1>3. Continue(c) \in Jobs /\ Rerun \in Jobs /\ Continue(c).job = "continue" /\ Continue(c).of = c
      /\ Rerun.job = "rerun"
  BY <1>1, JobTypes DEF Continue, Rerun
<1> HIDE DEF c
<1>4. \A d \in DOMAIN calls : calls[d].scope \in Nat /\ calls[d].scope <= scope
  <2>1. \A d \in DOMAIN calls : calls[d] \in CallRecords
    BY <1>0 DEF TypeOK
  <2> QED BY <1>0, <2>1 DEF CallRecords, ScopeInv
<1>5. \A d \in DOMAIN calls' : calls'[d].scope <= scope'
  BY <1>1, <1>4
<1>6. shown # Nothing => shown <= scope'
  <2>1. shown # Nothing => shown \in Nat /\ shown <= scope
    BY <1>0 DEF ScopeInv, TellsCommand, TypeOK
  <2> QED BY <1>1, <2>1
<1>7. ForceShowsLatest'
  BY <1>0, <1>1 DEF AnswerInv, ForceShowsLatest
<1>8. \A j : /\ j.of \in DOMAIN calls => (TellsIn(calls', j) <=> TellsIn(calls, j))
             /\ TellsIn(calls, j) => j.job = "continue"
             /\ TellsIn(calls', j) => j.job = "continue"
  BY <1>1 DEF TellsIn
<1>9. inFlight # 0 => Running(inFlight)
  BY <1>0, <1>1 DEF SlotInv
<1>10. CASE inFlight = 0 /\ Start(kind = "command", <<Continue(c)>>)
  <2>1. <<Continue(c)>> \in Seq(Jobs) /\ (kind = "command") \in BOOLEAN
    BY <1>3
  <2>2. /\ DOMAIN runs' = 1 .. Len(runs) + 1 /\ inFlight' = Len(runs) + 1
        /\ \A q \in DOMAIN runs : runs'[q] = runs[q]
        /\ runs'[Len(runs) + 1].state = "resolving" /\ runs'[Len(runs) + 1].ok = FALSE
        /\ runs'[Len(runs) + 1].reactions = <<Continue(c)>>
    BY <1>0, <1>10, <2>1, StartFacts
  <2>3. \A q \in DOMAIN runs : runs[q].state # "spawned"
    BY <1>0, <1>10 DEF SlotInv, Running
  <2>4. \A q \in DOMAIN runs' : q \in DOMAIN runs \/ q = Len(runs) + 1
    BY <1>0, <2>2
  <2>5. \A q \in DOMAIN runs' : runs'[q].state # "spawned"
    BY <2>2, <2>3, <2>4
  <2>6. ASSUME NEW q \in DOMAIN runs', NEW i \in DOMAIN runs'[q].reactions
        PROVE  runs'[q].reactions[i].job = "continue" => runs'[q].reactions[i].of \in DOMAIN calls'
    <3>1. CASE q \in DOMAIN runs
      BY <1>0, <1>1, <2>2, <2>6, <3>1 DEF ScopeInv, TellsCommand
    <3>2. CASE q = Len(runs) + 1
      BY <1>1, <1>3, <2>2, <2>6, <3>2
    <3> QED BY <2>4, <3>1, <3>2
  <2>7. ScopeInv'
    BY <1>1, <1>5, <1>6, <2>5, <2>6 DEF ScopeInv, TellsCommand
  <2>8. \A q \in DOMAIN runs' : Running(q)' => runs'[q].ok = FALSE
    BY <1>0, <2>2, <2>4 DEF AnswerInv, Running
  <2>9. AnswerInv'
    BY <1>1, <1>7, <2>2, <2>8 DEF AnswerInv
  <2> QED BY <2>7, <2>9
<1>11. ASSUME inFlight # 0, NEW jb \in Jobs, Join(jb), ~TellsIn(calls', jb),
              jb.job = "continue" => jb.of \in DOMAIN calls'
       PROVE  ScopeInv' /\ AnswerInv'
  <2>1. /\ DOMAIN runs' = DOMAIN runs /\ inFlight \in DOMAIN runs /\ inFlight' = inFlight
        /\ \A q \in DOMAIN runs : q # inFlight => runs'[q] = runs[q]
        /\ \A q \in DOMAIN runs :
              /\ runs'[q].state = runs[q].state /\ runs'[q].ok = runs[q].ok
              /\ runs'[q].scope = runs[q].scope
        /\ runs'[inFlight].reactions = Append(runs[inFlight].reactions, jb)
    BY <1>0, <1>11, JoinFacts
  <2>2. ASSUME NEW q \in DOMAIN runs, NEW i \in DOMAIN runs'[q].reactions
        PROVE  \/ i \in DOMAIN runs[q].reactions /\ runs'[q].reactions[i] = runs[q].reactions[i]
               \/ runs'[q].reactions[i] = jb
    <3>1. CASE q # inFlight
      BY <2>1, <2>2, <3>1
    <3>2. CASE q = inFlight
      <4> DEFINE old == runs[inFlight].reactions
      <4>1. old \in Seq(Jobs)
        BY <1>0, <2>1, RunTypes
      <4> HIDE DEF old
      <4>2. \A k \in DOMAIN Append(old, jb) :
               (k \in DOMAIN old /\ Append(old, jb)[k] = old[k]) \/ Append(old, jb)[k] = jb
        BY <4>1
      <4>3. runs'[q].reactions = Append(old, jb)
        BY <2>1, <3>2 DEF old
      <4> QED BY <2>2, <3>2, <4>2, <4>3 DEF old
    <3> QED BY <3>1, <3>2
  <2>3. ASSUME NEW q \in DOMAIN runs, NEW i \in DOMAIN runs'[q].reactions
        PROVE  /\ runs'[q].reactions[i].job = "continue" => runs'[q].reactions[i].of \in DOMAIN calls'
               /\ TellsIn(calls', runs'[q].reactions[i]) =>
                     /\ i \in DOMAIN runs[q].reactions
                     /\ runs'[q].reactions[i] = runs[q].reactions[i]
                     /\ TellsIn(calls, runs[q].reactions[i])
                     /\ calls'[runs'[q].reactions[i].of] = calls[runs[q].reactions[i].of]
    <3>1. CASE runs'[q].reactions[i] = jb
      BY <1>11, <3>1
    <3>2. CASE i \in DOMAIN runs[q].reactions /\ runs'[q].reactions[i] = runs[q].reactions[i]
      <4>1. runs[q].reactions[i].job = "continue" => runs[q].reactions[i].of \in DOMAIN calls
        BY <1>0, <3>2 DEF ScopeInv, TellsCommand
      <4> QED BY <1>1, <1>8, <3>2, <4>1
    <3> QED BY <2>2, <2>3, <3>1, <3>2
  <2>4. ASSUME NEW q \in DOMAIN runs, runs'[q].state = "spawned"
        PROVE  /\ runs'[q].scope <= scope'
               /\ shown # Nothing => shown <= runs'[q].scope
               /\ \A i \in DOMAIN runs'[q].reactions :
                     TellsIn(calls', runs'[q].reactions[i])
                         => calls'[runs'[q].reactions[i].of].scope <= runs'[q].scope
    <3>1. runs[q].state = "spawned" /\ runs'[q].scope = runs[q].scope /\ runs[q].scope \in Nat
      <4>1. runs[q].scope \in 0 .. MaxScope
        BY <1>0, RunTypes
      <4> QED BY <2>1, <2>4, <4>1, FlightAssumption
    <3>2. /\ runs[q].scope <= scope /\ (shown # Nothing => shown <= runs[q].scope)
          /\ \A i \in DOMAIN runs[q].reactions :
                TellsIn(calls, runs[q].reactions[i])
                    => calls[runs[q].reactions[i].of].scope <= runs[q].scope
      BY <1>0, <3>1 DEF ScopeInv, TellsCommand
    <3>3. runs'[q].scope <= scope'
      BY <1>1, <3>1, <3>2
    <3> QED BY <2>3, <3>1, <3>2, <3>3
  <2>5. ScopeInv'
    BY <1>1, <1>5, <1>6, <2>1, <2>3, <2>4 DEF ScopeInv, TellsCommand
  <2>6. \A q \in DOMAIN runs : Running(q)' => runs'[q].ok = FALSE
    BY <1>0, <2>1 DEF AnswerInv, Running
  <2>7. runs'[inFlight'].ok = FALSE
    BY <1>0, <1>9, <1>11, <2>1 DEF AnswerInv
  <2>8. AnswerInv'
    BY <1>1, <1>7, <2>1, <2>6, <2>7 DEF AnswerInv
  <2> QED BY <2>5, <2>8
<1>12. CASE inFlight # 0 /\ kind # "command" /\ Join(Continue(c))
  <2>1. ~TellsIn(calls', Continue(c))
    BY <1>1, <1>3, <1>12 DEF TellsIn
  <2> QED BY <1>1, <1>3, <1>11, <1>12, <2>1
<1>13. CASE inFlight # 0 /\ Join(Rerun)
  <2>1. ~TellsIn(calls', Rerun)
    BY <1>3 DEF TellsIn
  <2> QED BY <1>3, <1>11, <1>13, <2>1
<1>14. CASE UNCHANGED <<runs, inFlight>>
  <2>1. ASSUME NEW q \in DOMAIN runs, NEW i \in DOMAIN runs[q].reactions
        PROVE  /\ runs[q].reactions[i].job = "continue" => runs[q].reactions[i].of \in DOMAIN calls'
               /\ TellsIn(calls', runs[q].reactions[i]) =>
                     /\ TellsIn(calls, runs[q].reactions[i])
                     /\ calls'[runs[q].reactions[i].of] = calls[runs[q].reactions[i].of]
    <3>1. runs[q].reactions[i].job = "continue" => runs[q].reactions[i].of \in DOMAIN calls
      BY <1>0, <2>1 DEF ScopeInv, TellsCommand
    <3> QED BY <1>1, <1>8, <3>1
  <2>2. ASSUME NEW q \in DOMAIN runs, runs[q].state = "spawned"
        PROVE  runs[q].scope <= scope'
    <3>1. runs[q].scope \in 0 .. MaxScope /\ runs[q].scope <= scope
      BY <1>0, <2>2, RunTypes DEF ScopeInv, TellsCommand
    <3> QED BY <1>1, <3>1, FlightAssumption
  <2>3. ScopeInv'
    BY <1>0, <1>1, <1>5, <1>6, <1>14, <2>1, <2>2 DEF ScopeInv, TellsCommand
  <2>4. inFlight # 0 => runs[inFlight].ok = FALSE
    <3>1. inFlight # 0 => inFlight \in DOMAIN runs
      BY <1>0 DEF TypeOK
    <3> QED BY <1>0, <1>9, <3>1 DEF AnswerInv
  <2>5. AnswerInv'
    BY <1>0, <1>1, <1>7, <1>14, <2>4 DEF AnswerInv, Running
  <2> QED BY <2>3, <2>5
<1> QED BY <1>2, <1>10, <1>12, <1>13, <1>14

(* A run that ends with success shows arguments as new as those of the     *)
(* explicit calls it answers.                                              *)
LEMMA SettleAnswer ==
    ASSUME FlightInv, NEW r \in DOMAIN runs, Running(r),
           NEW state \in {"unresolved", "blocked", "settled"}, NEW ok \in BOOLEAN,
           Settle(r, state, ok),
           \/ ok = FALSE /\ shown' = shown
           \/ ok = TRUE /\ runs[r].state = "spawned" /\ shown' = runs[r].scope
    PROVE  ScopeInv' /\ AnswerInv'
<1>0. TypeOK /\ SlotInv /\ ScopeInv /\ AnswerInv
  BY DEF FlightInv
<1>1. r = inFlight
  BY <1>0, RunningLast
<1>2. /\ DOMAIN runs' = DOMAIN runs
      /\ \A q \in DOMAIN runs : q # r => runs'[q] = runs[q]
      /\ runs'[r].state = state /\ runs'[r].ok = ok
      /\ runs'[r].reactions = runs[r].reactions
      /\ micro' = <<Finally(r)>> /\ UNCHANGED <<scope, calls, inFlight>>
  BY <1>0, SettleFacts
<1>3. \A q \in DOMAIN runs : ~Running(q)' /\ runs'[q].reactions = runs[q].reactions
  BY <1>0, <1>1, <1>2 DEF SlotInv, Running
<1>4. /\ scope \in Nat /\ runs[r].scope \in Nat /\ (shown # Nothing => shown \in Nat)
      /\ \A c \in DOMAIN calls : calls[c].scope \in Nat
  <2>1. runs[r].scope \in 0 .. MaxScope
    BY <1>0, RunTypes
  <2>2. \A c \in DOMAIN calls : calls[c] \in CallRecords
    BY <1>0 DEF TypeOK
  <2> QED BY <1>0, <2>1, <2>2, FlightAssumption DEF TypeOK, CallRecords
<1>5. runs[r].state = "spawned" =>
          /\ runs[r].scope <= scope
          /\ shown # Nothing => shown <= runs[r].scope
          /\ \A i \in DOMAIN runs[r].reactions :
                TellsIn(calls, runs[r].reactions[i])
                    => calls[runs[r].reactions[i].of].scope <= runs[r].scope
  BY <1>0 DEF ScopeInv, TellsCommand
<1>6. shown' # Nothing => shown' <= scope
  BY <1>0, <1>5 DEF ScopeInv
<1>7. shown # Nothing => shown' # Nothing /\ shown' \in Nat /\ shown <= shown'
  BY <1>4, <1>5, FlightAssumption
<1>8. ScopeInv'
  <2>1. \A q \in DOMAIN runs' : runs'[q].state # "spawned"
    BY <1>2, <1>3 DEF Running
  <2> QED BY <1>0, <1>2, <1>3, <1>6, <2>1 DEF ScopeInv
<1>9. ForceShowsLatest'
  <2> SUFFICES ASSUME NEW c \in DOMAIN calls, calls[c].kind = "command", calls[c].done, calls[c].ok
               PROVE  shown' # Nothing /\ shown' >= calls[c].scope
    BY <1>2 DEF ForceShowsLatest
  <2>1. shown # Nothing /\ shown >= calls[c].scope
    BY <1>0 DEF AnswerInv, ForceShowsLatest
  <2> QED BY <1>4, <1>7, <2>1
<1>10. ASSUME ok = TRUE, NEW i \in DOMAIN runs[r].reactions, TellsIn(calls, runs[r].reactions[i])
       PROVE  UpToDate(runs[r].reactions[i].of)'
  <2>1. runs[r].reactions[i].of \in DOMAIN calls
    BY <1>0, <1>10 DEF ScopeInv, TellsIn
  <2>2. shown' = runs[r].scope /\ calls[runs[r].reactions[i].of].scope <= runs[r].scope
    BY <1>5, <1>10
  <2> QED BY <1>2, <1>4, <2>1, <2>2, FlightAssumption DEF UpToDate, AsNew
<1>11. \A i \in DOMAIN micro' : micro'[i].job # "continue"
  BY <1>2 DEF Finally
<1>12. AnswerInv'
  BY <1>1, <1>2, <1>3, <1>9, <1>10, <1>11 DEF AnswerInv, TellsCommand
<1> QED BY <1>8, <1>12

(* A spawned run has read the arguments as they are now.                   *)
LEMMA SpawnAnswer ==
    ASSUME FlightInv, NEW r \in DOMAIN runs, Spawn(r) PROVE ScopeInv' /\ AnswerInv'
<1>0. TypeOK /\ SlotInv /\ ScopeInv /\ AnswerInv
  BY DEF FlightInv
<1>1. Running(r) /\ micro = << >> /\ UNCHANGED <<scope, calls, inFlight, micro, shown>>
  BY DEF Spawn, Running
<1>2. r = inFlight
  BY <1>0, <1>1, RunningLast
<1>3. /\ DOMAIN runs' = DOMAIN runs
      /\ \A q \in DOMAIN runs : q # r => runs'[q] = runs[q]
      /\ runs'[r].scope = scope /\ runs'[r].ok = runs[r].ok
      /\ runs'[r].reactions = runs[r].reactions
  BY <1>0, SpawnFacts
<1>4. \A q \in DOMAIN runs : q # r => runs'[q].state # "spawned" /\ ~Running(q)'
  BY <1>0, <1>2, <1>3 DEF SlotInv, Running
<1>5. \A q \in DOMAIN runs : runs'[q].reactions = runs[q].reactions
  BY <1>3
<1>6. scope <= scope
  BY <1>0 DEF TypeOK
<1>7. ScopeInv'
  <2>1. ASSUME NEW q \in DOMAIN runs, NEW i \in DOMAIN runs[q].reactions
        PROVE  /\ runs[q].reactions[i].job = "continue" => runs[q].reactions[i].of \in DOMAIN calls
               /\ TellsIn(calls, runs[q].reactions[i]) => calls[runs[q].reactions[i].of].scope <= scope
    BY <1>0, <2>1 DEF ScopeInv, TellsIn
  <2>2. \A q \in DOMAIN runs : runs'[q].state = "spawned" => runs'[q].scope = scope
    BY <1>3, <1>4
  <2>3. /\ \A c \in DOMAIN calls : calls[c].scope <= scope
        /\ shown # Nothing => shown <= scope
    BY <1>0 DEF ScopeInv
  <2> QED BY <1>1, <1>3, <1>5, <1>6, <2>1, <2>2, <2>3 DEF ScopeInv, TellsCommand
<1>8. AnswerInv'
  <2>1. runs'[r].ok = FALSE
    BY <1>0, <1>1, <1>3 DEF AnswerInv
  <2>2. \A q \in DOMAIN runs : Running(q)' => runs'[q].ok = FALSE
    BY <1>4, <2>1
  <2>3. ForceShowsLatest'
    BY <1>0, <1>1 DEF AnswerInv, ForceShowsLatest
  <2> QED BY <1>1, <1>2, <1>3, <2>1, <2>2, <2>3 DEF AnswerInv
<1> QED BY <1>7, <1>8

(* The jobs of the queue only tell, or start, what the ended run allows.   *)
LEMMA QueueAnswer ==
    ASSUME FlightInv, RunFinally \/ RunRerun \/ RunContinue PROVE ScopeInv' /\ AnswerInv'
<1>0. TypeOK /\ SlotInv /\ RerunInv /\ ScopeInv /\ AnswerInv
      /\ Len(runs) \in Nat /\ DOMAIN runs = 1 .. Len(runs)
  BY DEF FlightInv, TypeOK
<1>1. CASE RunFinally
  <2>1. /\ inFlight # 0 /\ inFlight \in DOMAIN runs /\ inFlight = Len(runs)
        /\ ~Running(inFlight) /\ micro' = runs[inFlight].reactions
        /\ inFlight' = 0 /\ UNCHANGED <<scope, calls, runs, shown>>
    BY <1>0, <1>1, FinallyFacts
  <2>2. ScopeInv'
    BY <1>0, <2>1 DEF ScopeInv, TellsCommand
  <2>3. Told' = inFlight /\ (~Running(Told))'
    BY <2>1 DEF Told, Running
  <2>4. \A i \in DOMAIN micro' :
           micro'[i].job = "continue" =>
              /\ micro'[i].of \in DOMAIN calls
              /\ calls[micro'[i].of].kind = "command" /\ runs[inFlight].ok = TRUE
                    => AsNew(shown, calls, micro'[i].of)
    BY <1>0, <2>1 DEF AnswerInv, ScopeInv, TellsCommand, TellsIn, UpToDate
  <2>5. ForceShowsLatest'
    BY <1>0, <2>1 DEF AnswerInv, ForceShowsLatest
  <2>6. \A q \in DOMAIN runs : Running(q)' => runs'[q].ok = FALSE
    BY <1>0, <2>1 DEF AnswerInv, Running
  <2>7. AnswerInv'
    BY <2>1, <2>3, <2>4, <2>5, <2>6 DEF AnswerInv, UpToDate
  <2> QED BY <2>2, <2>7
<1>2. CASE RunRerun
  <2> DEFINE reactions == [i \in DOMAIN pendingForce |-> Continue(pendingForce[i])]
  <2>1. micro # << >> /\ Head(micro).job = "rerun" /\ micro' = Tail(micro)
        /\ Start(TRUE, reactions) /\ UNCHANGED <<scope, calls, shown>>
    BY <1>2 DEF RunRerun
  <2>2. reactions \in Seq(Jobs)
    BY <1>0, ReactionsType
  <2>3. \A i \in DOMAIN reactions : reactions[i].of \in DOMAIN calls
    <3>1. pendingForce \in Seq(1 .. Len(calls)) /\ DOMAIN calls = 1 .. Len(calls)
      BY <1>0 DEF TypeOK
    <3> QED BY <3>1 DEF Continue
  <2> HIDE DEF reactions
  <2>4. /\ Len(runs') = Len(runs) + 1 /\ DOMAIN runs' = 1 .. Len(runs) + 1
        /\ inFlight' = Len(runs) + 1
        /\ \A q \in DOMAIN runs : runs'[q] = runs[q]
        /\ runs'[Len(runs) + 1].state = "resolving" /\ runs'[Len(runs) + 1].ok = FALSE
        /\ runs'[Len(runs) + 1].reactions = reactions
    BY <1>0, <2>1, <2>2, StartFacts
  <2>5. inFlight = 0
    BY <1>0, <2>1, QueueFacts DEF RerunInv
  <2>6. \A q \in DOMAIN runs : runs[q].state # "spawned" /\ ~Running(q)
    BY <1>0, <2>5 DEF SlotInv, Running
  <2>7. \A q \in DOMAIN runs' : q \in DOMAIN runs \/ q = Len(runs) + 1
    BY <1>0, <2>4
  <2>8. ScopeInv'
    <3>1. \A q \in DOMAIN runs' : runs'[q].state # "spawned"
      BY <2>4, <2>6, <2>7
    <3>2. ASSUME NEW q \in DOMAIN runs', NEW i \in DOMAIN runs'[q].reactions
          PROVE  runs'[q].reactions[i].job = "continue" => runs'[q].reactions[i].of \in DOMAIN calls
      <4>1. CASE q \in DOMAIN runs
        BY <1>0, <2>4, <3>2, <4>1 DEF ScopeInv
      <4>2. CASE q = Len(runs) + 1
        BY <2>3, <2>4, <3>2, <4>2
      <4> QED BY <2>7, <4>1, <4>2
    <3> QED BY <1>0, <2>1, <3>1, <3>2 DEF ScopeInv
  <2>9. Told' = Len(runs) /\ Told = Len(runs)
    <3>1. Len(runs') = Len(runs) + 1 /\ inFlight' = Len(runs) + 1 /\ Len(runs) \in Nat
      BY <1>0, <2>4
    <3> QED BY <2>5, <3>1 DEF Told
  <2>10. ASSUME NEW i \in DOMAIN micro', micro'[i].job = "continue"
         PROVE  /\ micro'[i].of \in DOMAIN calls
                /\ Len(runs) \in DOMAIN runs /\ ~Running(Len(runs))
                /\ calls[micro'[i].of].kind = "command" /\ runs[Len(runs)].ok = TRUE
                      => AsNew(shown, calls, micro'[i].of)
    <3>1. i + 1 \in DOMAIN micro /\ micro'[i] = micro[i + 1]
      BY <1>0, <2>1, <2>10, QueueFacts
    <3> QED BY <1>0, <2>9, <2>10, <3>1 DEF AnswerInv, UpToDate
  <2>11. \A q \in DOMAIN runs' : Running(q)' => runs'[q].ok = FALSE
    BY <1>0, <2>4, <2>6, <2>7 DEF Running
  <2>12. ForceShowsLatest'
    BY <1>0, <2>1 DEF AnswerInv, ForceShowsLatest
  <2>13. Len(runs) \in DOMAIN runs =>
            /\ Len(runs) \in DOMAIN runs' /\ runs'[Len(runs)] = runs[Len(runs)]
    BY <1>0, <2>4
  <2>14. ASSUME NEW i \in DOMAIN micro', micro'[i].job = "continue"
         PROVE  /\ micro'[i].of \in DOMAIN calls'
                /\ Told' \in DOMAIN runs' /\ (~Running(Told))'
                /\ calls'[micro'[i].of].kind = "command" /\ runs'[Told'].ok = TRUE
                      => AsNew(shown', calls', micro'[i].of)
    BY <2>1, <2>9, <2>10, <2>13, <2>14 DEF Running
  <2>15. AnswerInv'
    <3>1. runs'[inFlight'].ok = FALSE
      BY <2>4
    <3> QED BY <2>11, <2>12, <2>14, <3>1 DEF AnswerInv, UpToDate
  <2> QED BY <2>8, <2>15
<1>3. CASE RunContinue
  <2> DEFINE c == Head(micro).of
  <2>1. /\ micro # << >> /\ Head(micro).job = "continue"
        /\ c \in DOMAIN calls /\ Told \in DOMAIN runs
        /\ DOMAIN calls' = DOMAIN calls
        /\ \A d \in DOMAIN calls : /\ calls'[d].kind = calls[d].kind
                                   /\ calls'[d].scope = calls[d].scope
                                   /\ d # c => calls'[d] = calls[d]
        /\ calls'[c].ok = runs[Told].ok
        /\ micro' = Tail(micro)
        /\ UNCHANGED <<scope, runs, inFlight, shown>>
    BY <1>0, <1>3, ContinueFacts
  <2>2. calls[c].kind = "command" /\ runs[Told].ok = TRUE => UpToDate(c)
    BY <1>0, <2>1, QueueFacts DEF AnswerInv
  <2>3. runs[Told].ok \in BOOLEAN
    BY <1>0, <2>1, RunTypes
  <2>4. /\ DOMAIN calls' = DOMAIN calls /\ shown' = shown
        /\ \A d \in DOMAIN calls : /\ calls'[d].kind = calls[d].kind
                                   /\ calls'[d].scope = calls[d].scope
    BY <2>1, Zenon
  <2>5. \A d \in DOMAIN calls : d # c => calls'[d].done = calls[d].done /\ calls'[d].ok = calls[d].ok
    BY <2>1, Zenon
  <2>6. c \in DOMAIN calls /\ calls'[c].ok = runs[Told].ok
    BY <2>1, Zenon
  <2> HIDE DEF c
  <2>7. ForceShowsLatest'
    <3> SUFFICES ASSUME NEW d \in DOMAIN calls, calls'[d].kind = "command", calls'[d].done, calls'[d].ok
                 PROVE  shown # Nothing /\ shown >= calls[d].scope
      BY <2>4 DEF ForceShowsLatest
    <3>1. CASE d = c
      BY <2>2, <2>3, <2>4, <2>6, <3>1 DEF UpToDate, AsNew
    <3>2. CASE d # c
      BY <1>0, <2>4, <2>5, <3>2 DEF AnswerInv, ForceShowsLatest
    <3> QED BY <3>1, <3>2
  <2>8. \A j : j.of \in DOMAIN calls => /\ TellsIn(calls', j) <=> TellsIn(calls, j)
                                        /\ AsNew(shown', calls', j.of) <=> AsNew(shown, calls, j.of)
    BY <2>4 DEF TellsIn, AsNew
  <2>9. ASSUME NEW q \in DOMAIN runs, NEW i \in DOMAIN runs[q].reactions,
               TellsIn(calls', runs[q].reactions[i])
        PROVE  /\ runs[q].reactions[i].of \in DOMAIN calls
               /\ TellsIn(calls, runs[q].reactions[i])
    <3>1. runs[q].reactions[i].of \in DOMAIN calls
      BY <1>0, <2>9 DEF ScopeInv, TellsIn
    <3> QED BY <2>8, <2>9, <3>1
  <2>10. ScopeInv'
    <3>1. \A d \in DOMAIN calls' : calls'[d].scope <= scope'
      BY <1>0, <2>1 DEF ScopeInv
    <3>2. ASSUME NEW q \in DOMAIN runs, runs[q].state = "spawned", NEW i \in DOMAIN runs[q].reactions,
                 TellsIn(calls', runs[q].reactions[i])
          PROVE  calls'[runs[q].reactions[i].of].scope <= runs[q].scope
      BY <1>0, <2>1, <2>9, <3>2 DEF ScopeInv, TellsCommand
    <3> QED BY <1>0, <2>1, <3>1, <3>2 DEF ScopeInv, TellsCommand
  <2>11. Told' = Told
    BY <2>1 DEF Told
  <2>12. ASSUME NEW i \in DOMAIN micro', micro'[i].job = "continue"
        PROVE  /\ micro'[i].of \in DOMAIN calls
               /\ Told \in DOMAIN runs /\ ~Running(Told)
               /\ calls'[micro'[i].of].kind = "command" /\ runs[Told].ok = TRUE
                     => AsNew(shown', calls', micro'[i].of)
    <3>1. i + 1 \in DOMAIN micro /\ micro'[i] = micro[i + 1]
      BY <1>0, <2>1, <2>12, QueueFacts
    <3>2. /\ micro[i + 1].of \in DOMAIN calls /\ Told \in DOMAIN runs /\ ~Running(Told)
          /\ calls[micro[i + 1].of].kind = "command" /\ runs[Told].ok = TRUE
                => AsNew(shown, calls, micro[i + 1].of)
      BY <1>0, <2>12, <3>1 DEF AnswerInv, UpToDate
    <3> QED BY <2>1, <2>8, <3>1, <3>2
  <2>13. inFlight # 0 /\ runs[inFlight].ok = TRUE =>
            \A i \in DOMAIN runs[inFlight].reactions :
                TellsIn(calls', runs[inFlight].reactions[i])
                    => AsNew(shown', calls', runs[inFlight].reactions[i].of)
    <3>1. inFlight # 0 => inFlight \in DOMAIN runs
      BY <1>0 DEF TypeOK
    <3> QED BY <1>0, <2>8, <2>9, <3>1 DEF AnswerInv, TellsCommand, UpToDate
  <2>14. (~Running(Told))' <=> ~Running(Told)
    BY <2>1, <2>11 DEF Running
  <2>15. \A q \in DOMAIN runs : Running(q)' => runs'[q].ok = FALSE
    BY <1>0, <2>1 DEF AnswerInv, Running
  <2>16. AnswerInv'
    BY <2>1, <2>7, <2>11, <2>12, <2>13, <2>14, <2>15 DEF AnswerInv, TellsCommand, UpToDate
  <2> QED BY <2>10, <2>16
<1> QED BY <1>1, <1>2, <1>3

(* What is shown stays as new as the answers say.                          *)
LEMMA AnswerStep == FlightInv /\ Next => ScopeInv' /\ AnswerInv'
<1> SUFFICES ASSUME FlightInv, Next PROVE ScopeInv' /\ AnswerInv'
  OBVIOUS
<1>1. ASSUME NEW r \in DOMAIN runs, ResolveFails(r) \/ StopBlocked(r) \/ Fail(r)
      PROVE  ScopeInv' /\ AnswerInv'
  <2>1. Running(r) /\ shown' = shown
    BY <1>1 DEF ResolveFails, StopBlocked, Fail, Running
  <2> QED BY <1>1, <2>1, SettleAnswer DEF ResolveFails, StopBlocked, Fail
<1>2. ASSUME NEW r \in DOMAIN runs, Succeed(r) PROVE ScopeInv' /\ AnswerInv'
  <2>1. Running(r)
    BY <1>2 DEF Succeed, Running
  <2> QED BY <1>2, <2>1, SettleAnswer DEF Succeed
<1> QED
  BY <1>1, <1>2, TriggerAnswer, SpawnAnswer, QueueAnswer DEF Next, Progress, RunStep

-----------------------------------------------------------------------------
(* The back-off.                                                           *)

(* The settled runs of a range are finitely many runs.                     *)
LEMMA SettledFinite ==
    ASSUME TypeOK, NEW a \in DOMAIN runs, NEW b \in DOMAIN runs
    PROVE  /\ IsFiniteSet(Settled(a, b)) /\ Cardinality(Settled(a, b)) \in Nat
           /\ Settled(a, b) \subseteq DOMAIN runs
<1>1. a \in Nat /\ b \in Nat /\ a .. b \subseteq DOMAIN runs
  BY DEF TypeOK
<1>2. IsFiniteSet(a .. b)
  BY <1>1, FS_Interval
<1>3. Settled(a, b) \subseteq a .. b
  BY DEF Settled
<1>4. IsFiniteSet(Settled(a, b))
  BY <1>2, <1>3, FS_Subset
<1> QED BY <1>1, <1>3, <1>4, FS_CardinalityType

(* A step that lets the runs that spawned be, and the count of the entry.  *)
LEMMA BackoffSame ==
    ASSUME TypeOK, BackoffInv, DOMAIN runs' = DOMAIN runs, Len(runs') = Len(runs),
           \A q \in DOMAIN runs :
              /\ runs'[q].state = "settled" <=> runs[q].state = "settled"
              /\ runs'[q].state = "spawned" <=> runs[q].state = "spawned"
              /\ runs[q].state \in {"settled", "spawned"} =>
                    /\ runs'[q].ok = runs[q].ok
                    /\ runs'[q].force = runs[q].force
                    /\ runs'[q].scope = runs[q].scope,
           entry' = Nothing <=> entry = Nothing,
           entry # Nothing => entry'.key = entry.key /\ entry'.failures = entry.failures
    PROVE  BackoffInv'
<1>1. ASSUME NEW a \in DOMAIN runs, NEW b \in DOMAIN runs
      PROVE  /\ Settled(a, b)' = Settled(a, b)
             /\ Streak(a, b)' <=> Streak(a, b)
  <2>1. a .. b \subseteq DOMAIN runs
    BY DEF TypeOK
  <2>2. Settled(a, b)' = Settled(a, b)
    BY <2>1 DEF Settled
  <2>3. \A r \in Settled(a, b) : /\ runs'[r].ok = runs[r].ok
                                 /\ runs'[r].force = runs[r].force
                                 /\ runs'[r].scope = runs[r].scope
    BY <2>1 DEF Settled
  <2> QED BY <2>2, <2>3 DEF Streak
<1>2. \A a \in DOMAIN runs : /\ Len(runs) \in DOMAIN runs
                             /\ Settled(a, Len(runs))' = Settled(a, Len(runs))
                             /\ Streak(a, Len(runs))' <=> Streak(a, Len(runs))
  <2> SUFFICES ASSUME NEW a \in DOMAIN runs, NEW n, n = Len(runs)
               PROVE  /\ n \in DOMAIN runs
                      /\ Settled(a, n)' = Settled(a, n)
                      /\ Streak(a, n)' <=> Streak(a, n)
    BY DEF Settled, Streak
  <2>1. n \in DOMAIN runs
    BY DEF TypeOK
  <2> QED BY <1>1, <2>1
<1>3. CountInv'
  <2> SUFFICES ASSUME NoForcedSpawn', NEW a \in DOMAIN runs, NEW r \in DOMAIN runs,
                      r \in Settled(a, Len(runs))', Streak(a, Len(runs))'
               PROVE  (/\ entry # Nothing
                       /\ entry.key = runs[r].scope
                       /\ entry.failures >= Cardinality(Settled(a, Len(runs))))'
    BY DEF CountInv
  <2>1. NoForcedSpawn
    BY DEF NoForcedSpawn
  <2>2. r \in Settled(a, Len(runs)) /\ Streak(a, Len(runs))
    BY <1>2
  <2>3. /\ entry # Nothing /\ entry.key = runs[r].scope
        /\ entry.failures >= Cardinality(Settled(a, Len(runs)))
    BY <2>1, <2>2 DEF BackoffInv, CountInv
  <2>4. runs'[r].scope = runs[r].scope
    BY <2>2 DEF Settled
  <2> QED BY <1>2, <2>3, <2>4
<1>4. AllowInv'
  BY DEF BackoffInv, AllowInv
<1>5. PausesAfterFailures'
  BY <1>1 DEF BackoffInv, PausesAfterFailures
<1> QED BY <1>3, <1>4, <1>5 DEF BackoffInv

(* A run that starts has settled nothing yet.                              *)
LEMMA BackoffStart ==
    ASSUME TypeOK, SlotInv, BackoffInv, inFlight = 0, UNCHANGED entry,
           NEW force \in BOOLEAN, NEW reactions \in Seq(Jobs), Start(force, reactions)
    PROVE  BackoffInv'
<1>1. /\ DOMAIN runs' = 1 .. Len(runs) + 1 /\ DOMAIN runs = 1 .. Len(runs)
      /\ Len(runs) \in Nat /\ Len(runs') = Len(runs) + 1
      /\ \A q \in DOMAIN runs : runs'[q] = runs[q]
      /\ runs'[Len(runs) + 1].state = "resolving"
  BY StartFacts
<1>2. \A q \in DOMAIN runs' : runs'[q].state # "spawned"
  <2>1. \A q \in DOMAIN runs : runs[q].state # "spawned"
    BY DEF SlotInv, Running
  <2>2. \A q \in DOMAIN runs' : q \in DOMAIN runs \/ q = Len(runs) + 1
    BY <1>1
  <2> QED BY <1>1, <2>1, <2>2
<1>3. NoForcedSpawn
  BY DEF NoForcedSpawn, SlotInv, Running
<1>4. ASSUME NEW a \in DOMAIN runs, NEW b \in DOMAIN runs
      PROVE  /\ Settled(a, b)' = Settled(a, b)
             /\ Streak(a, b)' <=> Streak(a, b)
  <2>1. a .. b \subseteq DOMAIN runs
    BY <1>1
  <2>2. Settled(a, b)' = Settled(a, b) /\ Settled(a, b) \subseteq DOMAIN runs
    BY <1>1, <2>1 DEF Settled
  <2> QED BY <1>1, <2>2 DEF Streak
<1>5. ASSUME NEW a \in DOMAIN runs, NEW n, n = Len(runs) + 1
      PROVE  Settled(a, n)' = Settled(a, n - 1)' /\ n - 1 \in DOMAIN runs
  <2>1. \A q \in a .. n : q \in a .. n - 1 \/ q = n
    BY <1>1, <1>5
  <2>2. a .. n - 1 \subseteq a .. n /\ n - 1 \in DOMAIN runs
    BY <1>1, <1>5
  <2>3. runs'[n].state # "settled"
    BY <1>1, <1>5
  <2> QED BY <2>1, <2>2, <2>3 DEF Settled
<1>6. ASSUME NEW n, n = Len(runs) + 1, NEW b \in DOMAIN runs'
      PROVE  Settled(n, b)' = {}
  <2>1. \A q \in n .. b : q = n
    BY <1>1, <1>6
  <2>2. runs'[n].state # "settled"
    BY <1>1, <1>6
  <2> QED BY <2>1, <2>2 DEF Settled
<1>7. CountInv'
  <2> SUFFICES ASSUME NEW n, n = Len(runs) + 1, NEW a \in DOMAIN runs', NEW r \in DOMAIN runs',
                      r \in Settled(a, n)', Streak(a, n)'
               PROVE  /\ entry # Nothing
                      /\ entry.key = runs'[r].scope
                      /\ entry.failures >= Cardinality(Settled(a, n)')
    BY <1>1 DEF CountInv, Settled, Streak
  <2>1. a \in DOMAIN runs
    BY <1>1, <1>6
  <2>2. n - 1 = Len(runs) /\ n - 1 \in DOMAIN runs /\ Settled(a, n)' = Settled(a, n - 1)'
    BY <1>1, <1>5, <2>1
  <2>3. Settled(a, n - 1)' = Settled(a, n - 1) /\ (Streak(a, n - 1)' <=> Streak(a, n - 1))
    BY <1>4, <2>1, <2>2
  <2>4. Streak(a, n - 1)'
    BY <2>2 DEF Streak
  <2>5. r \in Settled(a, Len(runs)) /\ Streak(a, Len(runs)) /\ r \in DOMAIN runs
    <3>1. r \in Settled(a, n - 1) /\ Streak(a, n - 1)
      BY <2>2, <2>3, <2>4
    <3>2. Settled(a, n - 1) \subseteq DOMAIN runs
      BY <2>1, <2>2, SettledFinite
    <3> QED BY <2>2, <3>1, <3>2
  <2>6. /\ entry # Nothing /\ entry.key = runs[r].scope
        /\ entry.failures >= Cardinality(Settled(a, Len(runs)))
    BY <1>3, <2>1, <2>5 DEF BackoffInv, CountInv
  <2>7. Settled(a, n)' = Settled(a, Len(runs))
    BY <2>2, <2>3
  <2> QED BY <1>1, <2>5, <2>6, <2>7
<1>8. AllowInv'
  BY <1>2 DEF AllowInv
<1>9. PausesAfterFailures'
  <2> SUFFICES ASSUME NEW a \in DOMAIN runs', NEW b \in DOMAIN runs', Streak(a, b)'
               PROVE  Cardinality(Settled(a, b)') <= FailureLimit
    BY DEF PausesAfterFailures
  <2>1. CASE a = Len(runs) + 1
    <3>1. Settled(a, b)' = {}
      BY <1>6, <2>1
    <3> QED BY <3>1, FS_EmptySet, FlightAssumption
  <2>2. CASE a # Len(runs) + 1 /\ b # Len(runs) + 1
    <3>1. a \in DOMAIN runs /\ b \in DOMAIN runs
      BY <1>1, <2>2
    <3> QED BY <1>4, <3>1 DEF BackoffInv, PausesAfterFailures
  <2>3. CASE a # Len(runs) + 1 /\ b = Len(runs) + 1
    <3>1. a \in DOMAIN runs
      BY <1>1, <2>3
    <3>2. Settled(a, b)' = Settled(a, b - 1)' /\ b - 1 \in DOMAIN runs
      BY <1>5, <2>3, <3>1
    <3>3. Streak(a, b - 1)'
      BY <3>2 DEF Streak
    <3>4. Settled(a, b - 1)' = Settled(a, b - 1) /\ Streak(a, b - 1)
      BY <1>4, <3>1, <3>2, <3>3
    <3>5. Cardinality(Settled(a, b - 1)) <= FailureLimit
      BY <3>1, <3>2, <3>4 DEF BackoffInv, PausesAfterFailures
    <3> QED BY <3>2, <3>4, <3>5
  <2> QED BY <2>1, <2>2, <2>3
<1> QED BY <1>7, <1>8, <1>9 DEF BackoffInv

(* A spawn is let through only when the entry is not paused.               *)
LEMMA BackoffSpawn ==
    ASSUME FlightInv, NEW r \in DOMAIN runs, Spawn(r) PROVE BackoffInv'
<1>0. TypeOK /\ SlotInv /\ BackoffInv
  BY DEF FlightInv
<1>1. /\ DOMAIN runs' = DOMAIN runs /\ Len(runs') = Len(runs)
      /\ \A q \in DOMAIN runs : q # r => runs'[q] = runs[q]
      /\ runs'[r].state = "spawned" /\ runs'[r].scope = scope
      /\ runs'[r].force = runs[r].force /\ runs[r].state = "resolving"
  BY <1>0, SpawnFacts DEF Spawn
<1>2. \A q \in DOMAIN runs : q # r => runs[q].state # "spawned"
  BY <1>0, RunningLast, <1>1 DEF Running
<1>3. NoForcedSpawn
  BY <1>1, <1>2 DEF NoForcedSpawn
<1>4. ASSUME NEW a \in DOMAIN runs, NEW b \in DOMAIN runs
      PROVE  /\ Settled(a, b)' = Settled(a, b)
             /\ Streak(a, b)' <=> Streak(a, b)
             /\ r \notin Settled(a, b)
  <2>1. a .. b \subseteq DOMAIN runs
    BY <1>0 DEF TypeOK
  <2>2. /\ Settled(a, b)' = Settled(a, b) /\ r \notin Settled(a, b)
        /\ Settled(a, b) \subseteq DOMAIN runs
    BY <1>1, <2>1 DEF Settled
  <2>3. \A q \in Settled(a, b) : runs'[q] = runs[q]
    BY <1>1, <2>2
  <2> QED BY <2>2, <2>3 DEF Streak
<1>5. r = Len(runs)
  BY <1>0, <1>1, RunningLast DEF Running
<1>6. runs[r].force = TRUE \/ runs[r].force = FALSE
  BY <1>0, RunTypes
<1>7. CountInv'
  <2>1. CASE runs[r].force = TRUE
    BY <1>1, <2>1 DEF CountInv, NoForcedSpawn
  <2>2. CASE runs[r].force = FALSE
    <3>1. entry' = entry
      BY <2>2 DEF Spawn
    <3> SUFFICES ASSUME NEW a \in DOMAIN runs, NEW q \in DOMAIN runs,
                        q \in Settled(a, r)', Streak(a, r)'
                 PROVE  /\ entry' # Nothing
                        /\ entry'.key = runs'[q].scope
                        /\ entry'.failures >= Cardinality(Settled(a, r)')
      <4>1. DOMAIN runs' = DOMAIN runs /\ Len(runs') = r
        BY <1>1, <1>5
      <4> QED BY <4>1 DEF CountInv, Settled, Streak
    <3>2. q \in Settled(a, r) /\ Streak(a, r) /\ Settled(a, r)' = Settled(a, r) /\ q # r
      BY <1>4
    <3>3. /\ entry # Nothing /\ entry.key = runs[q].scope
          /\ entry.failures >= Cardinality(Settled(a, r))
      BY <1>0, <1>3, <1>5, <3>2 DEF BackoffInv, CountInv
    <3> QED BY <1>1, <3>1, <3>2, <3>3
  <2> QED BY <1>6, <2>1, <2>2
<1>8. AllowInv'
  <2> SUFFICES ASSUME NEW q \in DOMAIN runs, runs'[q].state = "spawned", runs'[q].force = FALSE,
                      entry' # Nothing, entry'.key = runs'[q].scope
               PROVE  entry'.failures < FailureLimit
    BY <1>1 DEF AllowInv
  <2>1. q = r /\ runs[r].force = FALSE
    BY <1>1, <1>2
  <2>2. entry' = entry /\ ~Blocked(r) /\ entry # Nothing /\ entry.key = scope
    BY <1>1, <2>1 DEF Spawn
  <2>3. ~entry.paused
    BY <2>1, <2>2 DEF Blocked
  <2>4. entry.paused = (entry.failures >= FailureLimit) /\ entry.failures \in Nat
    BY <1>0, <2>2 DEF TypeOK, Entries
  <2>5. ~(entry.failures >= FailureLimit)
    BY <2>3, <2>4, Zenon
  <2> QED BY <2>2, <2>4, <2>5, FlightAssumption
<1>9. PausesAfterFailures'
  BY <1>0, <1>1, <1>4 DEF BackoffInv, PausesAfterFailures
<1> QED BY <1>7, <1>8, <1>9 DEF BackoffInv

(* The run that settles ends its streak, or the entry counts it and it was *)
(* let through below the limit.                                            *)
LEMMA BackoffSettle ==
    ASSUME FlightInv, NEW r \in DOMAIN runs, Succeed(r) \/ Fail(r) PROVE BackoffInv'
<1>0. TypeOK /\ SlotInv /\ BackoffInv
  BY DEF FlightInv
<1>1. PICK ok \in BOOLEAN : Settle(r, "settled", ok) /\ (ok = FALSE => Fail(r))
  BY DEF Succeed, Fail
<1>2. /\ DOMAIN runs' = DOMAIN runs /\ Len(runs') = Len(runs)
      /\ \A q \in DOMAIN runs : q # r => runs'[q] = runs[q]
      /\ runs'[r].state = "settled" /\ runs'[r].ok = ok
      /\ runs'[r].force = runs[r].force /\ runs'[r].scope = runs[r].scope
  BY <1>0, <1>1, SettleFacts
<1>3. runs[r].state = "spawned" /\ Running(r)
  BY DEF Succeed, Fail, Running
<1>4. r = Len(runs) /\ r = inFlight /\ Len(runs) \in Nat /\ DOMAIN runs = 1 .. Len(runs)
  BY <1>0, <1>3, RunningLast DEF TypeOK
<1>5. \A q \in DOMAIN runs : q # r => runs[q].state # "spawned"
  BY <1>0, <1>4 DEF SlotInv, Running
<1>6. ASSUME NEW a \in DOMAIN runs
      PROVE  /\ Settled(a, r)' = Settled(a, r) \cup {r} /\ r \notin Settled(a, r)
             /\ Streak(a, r)' =>
                   /\ runs[r].force = FALSE /\ ok = FALSE /\ Streak(a, r)
                   /\ \A q \in Settled(a, r) : runs[q].scope = runs[r].scope
  <2>1. a .. r \subseteq DOMAIN runs /\ r \in a .. r
    BY <1>4
  <2>2. /\ Settled(a, r)' = Settled(a, r) \cup {r} /\ r \notin Settled(a, r)
        /\ Settled(a, r) \subseteq DOMAIN runs
    BY <1>2, <1>3, <2>1 DEF Settled
  <2>3. \A q \in Settled(a, r) : runs'[q] = runs[q] /\ q \in Settled(a, r)'
    BY <1>2, <2>2
  <2>4. r \in Settled(a, r)'
    BY <2>2
  <2>5. ASSUME Streak(a, r)'
        PROVE  /\ runs[r].force = FALSE /\ ok = FALSE
               /\ \A q \in Settled(a, r) : runs[q].scope = runs[r].scope
    BY <1>2, <2>3, <2>4, <2>5 DEF Streak
  <2>6. Streak(a, r)' => Streak(a, r)
    BY <2>3 DEF Streak
  <2> QED BY <2>2, <2>5, <2>6
<1>7. ASSUME NEW a \in DOMAIN runs, NEW b \in DOMAIN runs, b # r
      PROVE  Settled(a, b)' = Settled(a, b) /\ (Streak(a, b)' <=> Streak(a, b))
  <2>1. \A q \in a .. b : q \in DOMAIN runs /\ q # r
    BY <1>4, <1>7
  <2>2. Settled(a, b)' = Settled(a, b)
    BY <1>2, <2>1 DEF Settled
  <2>3. \A q \in Settled(a, b) : runs'[q] = runs[q]
    BY <1>2, <2>1 DEF Settled
  <2> QED BY <2>2, <2>3 DEF Streak
<1>8. ASSUME NEW a \in DOMAIN runs, Streak(a, r)'
      PROVE  /\ entry' # Nothing /\ entry'.key = runs[r].scope
             /\ entry'.failures >= Cardinality(Settled(a, r)')
             /\ Cardinality(Settled(a, r)') <= FailureLimit
  <2>1. /\ runs[r].force = FALSE /\ ok = FALSE /\ Streak(a, r)
        /\ \A q \in Settled(a, r) : runs[q].scope = runs[r].scope
    BY <1>6, <1>8
  <2>2. entry' = RecordFailure(runs[r].scope)
    BY <1>1, <2>1 DEF Fail
  <2>3. /\ entry' \in Entries /\ entry'.key = runs[r].scope
        /\ entry'.failures = IF entry # Nothing /\ entry.key = runs[r].scope
                             THEN entry.failures + 1 ELSE 1
    BY <1>0, <2>2, RecordFailureType, RunTypes
  <2>4. entry' # Nothing
    BY <2>3, EntryAssumption
  <2>5. /\ IsFiniteSet(Settled(a, r)) /\ Cardinality(Settled(a, r)) \in Nat
        /\ Settled(a, r) \subseteq DOMAIN runs
    BY <1>0, SettledFinite
  <2>6. Cardinality(Settled(a, r)') = Cardinality(Settled(a, r)) + 1
    BY <1>6, <2>5, FS_AddElement
  <2>7. entry # Nothing => entry.failures \in Nat
    BY <1>0 DEF TypeOK, Entries
  <2>8. CASE Settled(a, r) = {}
    <3>1. Cardinality(Settled(a, r)) = 0
      BY <2>8, FS_EmptySet
    <3> QED BY <2>3, <2>4, <2>6, <2>7, <3>1, FlightAssumption
  <2>9. CASE Settled(a, r) # {}
    <3>1. PICK q \in Settled(a, r) : TRUE
      BY <2>9
    <3>2. NoForcedSpawn
      BY <1>5, <2>1 DEF NoForcedSpawn
    <3>3. /\ entry # Nothing /\ entry.key = runs[r].scope
          /\ entry.failures >= Cardinality(Settled(a, r))
      BY <1>0, <1>4, <2>1, <2>5, <3>1, <3>2 DEF BackoffInv, CountInv
    <3>4. entry.failures < FailureLimit
      BY <1>0, <1>3, <2>1, <3>3 DEF BackoffInv, AllowInv
    <3> QED BY <2>3, <2>4, <2>5, <2>6, <2>7, <3>3, <3>4, FlightAssumption
  <2> QED BY <2>8, <2>9
<1>9. CountInv'
  <2> SUFFICES ASSUME NEW a \in DOMAIN runs, NEW q \in DOMAIN runs,
                      q \in Settled(a, r)', Streak(a, r)'
               PROVE  /\ entry' # Nothing
                      /\ entry'.key = runs'[q].scope
                      /\ entry'.failures >= Cardinality(Settled(a, r)')
    BY <1>2, <1>4 DEF CountInv, Settled, Streak
  <2>1. runs'[q].scope = runs[r].scope
    BY <1>2, <1>6
  <2> QED BY <1>8, <2>1
<1>10. AllowInv'
  BY <1>2, <1>5 DEF AllowInv
<1>11. PausesAfterFailures'
  <2> SUFFICES ASSUME NEW a \in DOMAIN runs, NEW b \in DOMAIN runs, Streak(a, b)'
               PROVE  Cardinality(Settled(a, b)') <= FailureLimit
    BY <1>2 DEF PausesAfterFailures
  <2>1. CASE b = r
    BY <1>8, <2>1
  <2>2. CASE b # r
    BY <1>0, <1>7, <2>2 DEF BackoffInv, PausesAfterFailures
  <2> QED BY <2>1, <2>2
<1> QED BY <1>9, <1>10, <1>11 DEF BackoffInv

(* The back-off survives every step.                                       *)
LEMMA BackoffStep == FlightInv /\ Next => BackoffInv'
<1> SUFFICES ASSUME FlightInv, Next PROVE BackoffInv'
  OBVIOUS
<1>0. TypeOK /\ SlotInv /\ RerunInv /\ AnswerInv /\ BackoffInv
  BY DEF FlightInv
<1>1. ASSUME NEW kind \in Kinds, Trigger(kind) PROVE BackoffInv'
  <2> DEFINE c == Len(calls) + 1
  <2>1. /\ entry' = entry /\ c \in Nat
        /\ \/ inFlight = 0 /\ Start(kind = "command", <<Continue(c)>>)
           \/ inFlight # 0 /\ Join(Continue(c))
           \/ inFlight # 0 /\ Join(Rerun)
           \/ UNCHANGED runs
    BY <1>0, <1>1, TriggerFacts
  <2>2. Continue(c) \in Jobs /\ Rerun \in Jobs
    BY <2>1, JobTypes
  <2>3. <<Continue(c)>> \in Seq(Jobs)
    BY <2>2
  <2>4. (kind = "command") \in BOOLEAN
    BY Zenon
  <2> HIDE DEF c
  <2>5. CASE inFlight = 0 /\ Start(kind = "command", <<Continue(c)>>)
    BY <1>0, <2>1, <2>3, <2>4, <2>5, BackoffStart
  <2>6. ASSUME NEW job \in Jobs, inFlight # 0, Join(job) PROVE BackoffInv'
    <3>1. /\ Len(runs') = Len(runs) /\ DOMAIN runs' = DOMAIN runs
          /\ \A q \in DOMAIN runs :
                /\ runs'[q].state = runs[q].state /\ runs'[q].ok = runs[q].ok
                /\ runs'[q].force = runs[q].force /\ runs'[q].scope = runs[q].scope
      BY <1>0, <2>6, JoinFacts
    <3> QED BY <1>0, <2>1, <3>1, BackoffSame
  <2>7. CASE UNCHANGED runs
    BY <1>0, <2>1, <2>7, BackoffSame
  <2> QED BY <2>1, <2>2, <2>5, <2>6, <2>7
<1>2. ASSUME NEW r \in DOMAIN runs, NEW state \in {"unresolved", "blocked"},
             Settle(r, state, FALSE), runs[r].state = "resolving",
             entry' = Nothing <=> entry = Nothing,
             entry # Nothing => entry'.key = entry.key /\ entry'.failures = entry.failures
      PROVE  BackoffInv'
  <2>1. /\ Len(runs') = Len(runs) /\ DOMAIN runs' = DOMAIN runs
        /\ \A q \in DOMAIN runs : q # r => runs'[q] = runs[q]
        /\ runs'[r].state = state
    BY <1>0, <1>2, SettleFacts
  <2>2. \A q \in DOMAIN runs :
           /\ runs'[q].state = "settled" <=> runs[q].state = "settled"
           /\ runs'[q].state = "spawned" <=> runs[q].state = "spawned"
           /\ runs[q].state \in {"settled", "spawned"} =>
                 /\ runs'[q].ok = runs[q].ok
                 /\ runs'[q].force = runs[q].force
                 /\ runs'[q].scope = runs[q].scope
    BY <1>2, <2>1
  <2> QED BY <1>0, <1>2, <2>1, <2>2, BackoffSame
<1>3. ASSUME NEW r \in DOMAIN runs, ResolveFails(r) PROVE BackoffInv'
  BY <1>2, <1>3 DEF ResolveFails
<1>4. ASSUME NEW r \in DOMAIN runs, StopBlocked(r) PROVE BackoffInv'
  <2>1. entry \in Entries /\ entry # Nothing
    BY <1>0, <1>4 DEF StopBlocked, Blocked, TypeOK
  <2>2. entry' \in Entries /\ entry'.key = entry.key /\ entry'.failures = entry.failures
    BY <1>4, <2>1 DEF StopBlocked, Entries
  <2>3. entry' # Nothing
    BY <2>2, EntryAssumption
  <2> QED BY <1>2, <1>4, <2>1, <2>2, <2>3 DEF StopBlocked
<1>5. ASSUME RunFinally \/ RunContinue PROVE BackoffInv'
  <2>1. UNCHANGED <<runs, entry>>
    BY <1>5 DEF RunFinally, RunContinue
  <2> QED BY <1>0, <2>1, BackoffSame
<1>6. ASSUME RunRerun PROVE BackoffInv'
  <2> DEFINE reactions == [i \in DOMAIN pendingForce |-> Continue(pendingForce[i])]
  <2>1. micro # << >> /\ Head(micro).job = "rerun" /\ Start(TRUE, reactions) /\ UNCHANGED entry
    BY <1>6 DEF RunRerun
  <2>2. reactions \in Seq(Jobs)
    BY <1>0, ReactionsType
  <2>3. inFlight = 0
    BY <1>0, <2>1, QueueFacts DEF RerunInv
  <2> HIDE DEF reactions
  <2> QED BY <1>0, <2>1, <2>2, <2>3, BackoffStart
<1> QED
  BY <1>1, <1>3, <1>4, <1>5, <1>6, BackoffSpawn, BackoffSettle DEF Next, Progress, RunStep

-----------------------------------------------------------------------------
(* The theorems.                                                           *)

(* The invariant holds when the extension starts.                          *)
LEMMA FlightInit == Init => FlightInv
<1> SUFFICES ASSUME Init PROVE FlightInv
  OBVIOUS
<1>1. DOMAIN runs = {} /\ DOMAIN calls = {} /\ DOMAIN micro = {} /\ Len(runs) = 0 /\ Len(calls) = 0
  BY DEF Init
<1>2. TypeOK
  <2>1. /\ calls \in Seq(CallRecords) /\ runs \in Seq(RunRecords) /\ micro \in Seq(Jobs)
        /\ pendingForce \in Seq(1 .. Len(calls))
    BY DEF Init
  <2>2. scope \in 0 .. MaxScope /\ Len(calls) <= MaxCalls /\ inFlight \in 0 .. Len(runs)
    BY <1>1, FlightAssumption DEF Init
  <2> QED BY <2>1, <2>2 DEF Init, TypeOK
<1> QED
  BY <1>1, <1>2 DEF Init, FlightInv, SlotInv, RerunInv, ScopeInv, AnswerInv, ForceShowsLatest,
                    BackoffInv, CountInv, AllowInv, PausesAfterFailures

(* Every step keeps it.                                                    *)
LEMMA FlightStep == FlightInv /\ [Next]_vars => FlightInv'
<1> SUFFICES ASSUME FlightInv, [Next]_vars PROVE FlightInv'
  OBVIOUS
<1>1. CASE Next
  <2>1. TypeOK'
    BY <1>1, TypeStep DEF FlightInv
  <2> QED BY <1>1, <2>1, SlotStep, AnswerStep, BackoffStep DEF FlightInv
<1>2. CASE UNCHANGED vars
  <2>0. TypeOK /\ BackoffInv /\ UNCHANGED <<runs, entry>>
    BY <1>2 DEF FlightInv, vars
  <2>1. TypeOK'
    BY <1>2 DEF FlightInv, TypeOK, vars
  <2>2. SlotInv' /\ RerunInv'
    BY <1>2 DEF FlightInv, SlotInv, RerunInv, Running, vars
  <2>3. ScopeInv'
    BY <1>2 DEF FlightInv, ScopeInv, TellsCommand, vars
  <2>4. AnswerInv'
    BY <1>2 DEF FlightInv, AnswerInv, TellsCommand, UpToDate, Told, Running, ForceShowsLatest, vars
  <2>5. BackoffInv'
    BY <2>0, BackoffSame
  <2> QED BY <2>1, <2>2, <2>3, <2>4, <2>5 DEF FlightInv
<1> QED BY <1>1, <1>2

(* The invariant holds always.                                             *)
LEMMA FlightInvariant == Spec => []FlightInv
BY FlightInit, FlightStep, PTL DEF Spec

(* The variables keep their types.                                         *)
THEOREM TypeCorrect == Spec => []TypeOK
<1>1. FlightInv => TypeOK
  BY DEF FlightInv
<1> QED BY <1>1, FlightInvariant, PTL

(* Runs of the analysis never overlap: of all runs ever started, at most   *)
(* one is resolving its CLI or waiting for it.                             *)
THEOREM RunsNeverOverlap == Spec => []OneAtATime
<1>1. FlightInv => OneAtATime
  BY DEF FlightInv, SlotInv, OneAtATime
<1> QED BY <1>1, FlightInvariant, PTL

(* An explicit call that returns with success leaves results on show that  *)
(* are as new as the arguments when it was made.                           *)
THEOREM ExplicitCallsShowLatest == Spec => []ForceShowsLatest
<1>1. FlightInv => ForceShowsLatest
  BY DEF FlightInv, AnswerInv
<1> QED BY <1>1, FlightInvariant, PTL

(* Automatic runs fail at most FailureLimit times in a row for the same    *)
(* arguments.                                                              *)
THEOREM AutomaticRunsPause == Spec => []PausesAfterFailures
<1>1. FlightInv => PausesAfterFailures
  BY DEF FlightInv, BackoffInv
<1> QED BY <1>1, FlightInvariant, PTL
=============================================================================
