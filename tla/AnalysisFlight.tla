--------------------------- MODULE AnalysisFlight ---------------------------
(***************************************************************************)
(* The analysis of the VS Code extension: the triggers (extension.ts), the *)
(* single flight that coalesces them (analysis-single-flight.ts), one run  *)
(* (runAnalysis of commands.ts) and the back-off after failures            *)
(* (analysisBackoff.ts).                                                   *)
(*                                                                         *)
(* JavaScript runs one macrotask at a time and empties the queue of        *)
(* microtasks, where promise reactions wait, before the next: triggers and *)
(* the steps of a run need an empty queue.  `scope` stands for everything  *)
(* the arguments of a run are made of (workspace scope and settings): it   *)
(* is their version, and the key of the back-off.  The window has a        *)
(* workspace folder, for as long as the extension runs; without one every  *)
(* run returns null results at once and counts as a success                *)
(* (commands.ts:628-632), which is left out.                               *)
(***************************************************************************)
EXTENDS Integers, Sequences, FiniteSets

CONSTANTS FailureLimit,     \* ANALYSIS_FAILURE_LIMIT
          MaxCalls,         \* triggers in one behaviour
          MaxScope,         \* changes of the arguments
          Nothing           \* nothing is shown, no back-off entry

ASSUME FlightAssumption ==
    FailureLimit \in Nat \ {0} /\ MaxCalls \in Nat /\ MaxScope \in Nat /\ Nothing \notin Nat

VARIABLES
    scope,          \* version of what the arguments are made of
    calls,          \* the triggers so far
    runs,           \* the runs so far, in the order they started
    inFlight,       \* index of the run in flight, or 0
    pendingForce,   \* the calls that wait for the re-run
    micro,          \* the queue of microtasks
    entry,          \* AnalysisFailureBackoff.entry
    shown,          \* the scope that lastCheckResult was computed for
    ran             \* cliAnalysisRan

vars == <<scope, calls, runs, inFlight, pendingForce, micro, entry, shown, ran>>

Kinds == {"view", "scope", "config", "command"}

Finally(r) == [job |-> "finally", of |-> r]
Rerun == [job |-> "rerun", of |-> 0]
Continue(c) == [job |-> "continue", of |-> c]

NewRun(force, reactions) ==
    [force |-> force, state |-> "resolving", scope |-> 0, ok |-> FALSE, reactions |-> reactions]

Init ==
    /\ scope = 0
    /\ calls = << >> /\ runs = << >>
    /\ inFlight = 0 /\ pendingForce = << >>
    /\ micro = << >>
    /\ entry = Nothing
    /\ shown = Nothing
    /\ ran = FALSE

-----------------------------------------------------------------------------
(* run(force) of call c.                                                   *)
Start(force, reactions) ==
    /\ runs' = Append(runs, NewRun(force, reactions))
    /\ inFlight' = Len(runs) + 1

Join(job) == runs' = [runs EXCEPT ![inFlight].reactions = Append(@, job)] /\ UNCHANGED inFlight

\* Mutant of Run: an explicit call joins the run in flight as well.
RunJoined(force, c) ==
    IF inFlight = 0
    THEN Start(force, <<Continue(c)>>) /\ UNCHANGED pendingForce
    ELSE Join(Continue(c)) /\ UNCHANGED pendingForce

Run(force, c) ==
    \/ /\ inFlight = 0
       /\ Start(force, <<Continue(c)>>)
       /\ UNCHANGED pendingForce
    \/ /\ inFlight # 0 /\ ~force
       /\ Join(Continue(c))
       /\ UNCHANGED pendingForce
    \/ /\ inFlight # 0 /\ force
       /\ IF pendingForce = << >> THEN Join(Rerun) ELSE UNCHANGED <<runs, inFlight>>
       /\ pendingForce' = Append(pendingForce, c)

(* onViewVisible, onWorkspaceScopeChange, a change of the settings, and    *)
(* the commands: only the last force.                                      *)
Trigger(kind) ==
    /\ micro = << >>
    /\ Len(calls) < MaxCalls
    /\ kind = "view" => ~ran
    /\ kind \in {"scope", "config"} => scope < MaxScope
    /\ scope' = IF kind \in {"scope", "config"} THEN scope + 1 ELSE scope
    /\ ran' = (kind = "view" \/ ran)
    /\ calls' = Append(calls, [kind |-> kind, scope |-> scope', done |-> FALSE, ok |-> FALSE])
    /\ Run(kind = "command", Len(calls) + 1)
    /\ UNCHANGED <<micro, entry, shown>>

-----------------------------------------------------------------------------
(* runCliAnalysisOnce of run r ends; its promise never rejects.            *)
Settle(r, state, ok) ==
    /\ runs' = [runs EXCEPT ![r].state = state, ![r].ok = ok]
    /\ micro' = <<Finally(r)>>
    /\ UNCHANGED <<scope, calls, inFlight, pendingForce, ran>>

(* resolveCliForRun throws before there is a key.                          *)
ResolveFails(r) ==
    /\ micro = << >>
    /\ runs[r].state = "resolving"
    /\ Settle(r, "unresolved", FALSE)
    /\ UNCHANGED <<entry, shown>>

\* Mutant of Blocked: a paused entry blocks once, to be notified.
BlockedOnce(r) ==
    ~runs[r].force /\ entry # Nothing /\ entry.key = scope /\ entry.paused /\ ~entry.notified

(* blockedNotice: the entry is paused for the arguments as they are now.   *)
Blocked(r) ==
    ~runs[r].force /\ entry # Nothing /\ entry.key = scope /\ entry.paused

StopBlocked(r) ==
    /\ micro = << >>
    /\ runs[r].state = "resolving"
    /\ Blocked(r)
    /\ entry' = [entry EXCEPT !.notified = TRUE]
    /\ Settle(r, "blocked", FALSE)
    /\ UNCHANGED shown

(* The arguments are read after the CLI is resolved, and the CLI spawned.  *)
Spawn(r) ==
    /\ micro = << >>
    /\ runs[r].state = "resolving"
    /\ ~Blocked(r)
    /\ entry' = IF runs[r].force /\ entry # Nothing /\ entry.key = scope THEN Nothing ELSE entry
    /\ runs' = [runs EXCEPT ![r].state = "spawned", ![r].scope = scope]
    /\ UNCHANGED <<scope, calls, inFlight, pendingForce, micro, shown, ran>>

Succeed(r) ==
    /\ micro = << >>
    /\ runs[r].state = "spawned"
    /\ entry' = IF entry # Nothing /\ entry.key = runs[r].scope THEN Nothing ELSE entry
    /\ shown' = runs[r].scope
    /\ Settle(r, "settled", TRUE)

RecordFailure(key) ==
    LET known == entry # Nothing /\ entry.key = key
        failures == IF known THEN entry.failures + 1 ELSE 1
        paused == failures >= FailureLimit
    IN  [key |-> key, failures |-> failures, paused |-> paused,
         notified |-> (known /\ entry.notified) \/ paused]

Fail(r) ==
    /\ micro = << >>
    /\ runs[r].state = "spawned"
    /\ entry' = IF runs[r].force THEN entry ELSE RecordFailure(runs[r].scope)
    /\ Settle(r, "settled", FALSE)
    /\ UNCHANGED shown

-----------------------------------------------------------------------------
\* Mutant of RunFinally: the reactions run before the slot is cleared.
RunFinallyLast ==
    /\ micro # << >> /\ Head(micro).job = "finally"
    /\ LET r == Head(micro).of
       IN  IF runs[r].reactions # << >>
           THEN /\ micro' = runs[r].reactions \o micro
                /\ runs' = [runs EXCEPT ![r].reactions = << >>]
                /\ UNCHANGED inFlight
           ELSE micro' = Tail(micro) /\ inFlight' = 0 /\ UNCHANGED runs
    /\ UNCHANGED <<scope, calls, pendingForce, entry, shown, ran>>

(* .finally: the slot is free, then whoever waits for the run is told.     *)
RunFinally ==
    /\ micro # << >> /\ Head(micro).job = "finally"
    /\ inFlight' = 0
    /\ micro' = Tail(micro) \o runs[Head(micro).of].reactions
    /\ UNCHANGED <<scope, calls, runs, pendingForce, entry, shown, ran>>

\* Mutant of RunRerun: the promise of the re-run is not returned.
RunRerunUnreturned ==
    /\ micro # << >> /\ Head(micro).job = "rerun"
    /\ Start(TRUE, << >>)
    /\ pendingForce' = << >>
    /\ micro' = Tail(micro)
    /\ UNCHANGED <<scope, calls, entry, shown, ran>>

(* The re-run that explicit calls wait for.                                *)
RunRerun ==
    /\ micro # << >> /\ Head(micro).job = "rerun"
    /\ Start(TRUE, [i \in DOMAIN pendingForce |-> Continue(pendingForce[i])])
    /\ pendingForce' = << >>
    /\ micro' = Tail(micro)
    /\ UNCHANGED <<scope, calls, entry, shown, ran>>

(* What the callers do with the result.                                    *)
RanAfter(kind, ok) ==
    CASE kind \in {"scope", "command"} -> ok
      [] kind = "view" -> ran /\ ok
      [] kind = "config" -> ran

(* The run that call c was told about is the last one that settled.        *)
LastSettled == CHOOSE r \in DOMAIN runs :
    /\ runs[r].state \notin {"resolving", "spawned"}
    /\ \A q \in DOMAIN runs : q > r => runs[q].state \in {"resolving", "spawned"}

RunContinue ==
    /\ micro # << >> /\ Head(micro).job = "continue"
    /\ LET c == Head(micro).of
           ok == runs[LastSettled].ok
       IN  /\ calls' = [calls EXCEPT ![c].done = TRUE, ![c].ok = ok]
           /\ ran' = RanAfter(calls[c].kind, ok)
    /\ micro' = Tail(micro)
    /\ UNCHANGED <<scope, runs, inFlight, pendingForce, entry, shown>>

RunStep(r) == ResolveFails(r) \/ StopBlocked(r) \/ Spawn(r) \/ Succeed(r) \/ Fail(r)

Progress == RunFinally \/ RunRerun \/ RunContinue \/ \E r \in DOMAIN runs : RunStep(r)

Next == (\E kind \in Kinds : Trigger(kind)) \/ Progress

Spec == Init /\ [][Next]_vars

(* The event loop goes on, and every CLI process ends.                     *)
FairSpec == Spec /\ WF_vars(Progress)

-----------------------------------------------------------------------------
Jobs == [job : {"finally", "rerun", "continue"}, of : Nat]

CallRecords == [kind : Kinds, scope : 0 .. MaxScope, done : BOOLEAN, ok : BOOLEAN]

RunRecords ==
    [force : BOOLEAN, state : {"resolving", "spawned", "unresolved", "blocked", "settled"},
     scope : 0 .. MaxScope, ok : BOOLEAN, reactions : Seq(Jobs)]

Entries == [key : 0 .. MaxScope, failures : Nat \ {0}, paused : BOOLEAN, notified : BOOLEAN]

ASSUME EntryAssumption == Nothing \notin Entries

(* Type invariant.                                                         *)
TypeOK ==
    /\ scope \in 0 .. MaxScope
    /\ calls \in Seq(CallRecords) /\ Len(calls) <= MaxCalls
    /\ runs \in Seq(RunRecords)
    /\ inFlight \in 0 .. Len(runs)
    /\ pendingForce \in Seq(1 .. Len(calls))
    /\ micro \in Seq(Jobs)
    /\ entry \in Entries \cup {Nothing}
    /\ entry # Nothing => /\ entry.paused = (entry.failures >= FailureLimit)
                          /\ entry.notified => entry.paused
    /\ shown \in (0 .. MaxScope) \cup {Nothing}
    /\ ran \in BOOLEAN

Running(r) == runs[r].state \in {"resolving", "spawned"}

(* Runs never overlap, so no older result overwrites a newer one           *)
(* (createSingleFlight): the slot is cleared before the re-run takes it.   *)
OneAtATime == \A r, q \in DOMAIN runs : Running(r) /\ Running(q) => r = q

(* When an explicit call returns with success, the views show arguments at *)
(* least as new as they were when the call was made, although the run in   *)
(* flight then may have read older ones.                                   *)
ForceShowsLatest ==
    \A c \in DOMAIN calls :
        calls[c].kind = "command" /\ calls[c].done /\ calls[c].ok
            => shown # Nothing /\ shown >= calls[c].scope

(* The runs from a to b that spawned the CLI and ended.                    *)
Settled(a, b) == {r \in a .. b : runs[r].state = "settled"}

(* They failed, one after the other, on their own and for the same         *)
(* arguments.                                                              *)
Streak(a, b) ==
    \A r, q \in Settled(a, b) :
        runs[r].force = FALSE /\ runs[r].ok = FALSE /\ runs[r].scope = runs[q].scope

(* Automatic runs stop after FailureLimit failures in a row for the same   *)
(* arguments (AnalysisFailureBackoff), however calls were coalesced.       *)
PausesAfterFailures ==
    \A a, b \in DOMAIN runs : Streak(a, b) => Cardinality(Settled(a, b)) <= FailureLimit

(* Every trigger is answered: its promise settles.                         *)
CallsAnswered == \A c \in 1 .. MaxCalls : Len(calls) >= c ~> (Len(calls) >= c /\ calls[c].done)
=============================================================================
