----------------------------- MODULE ImpactOps -----------------------------
(***************************************************************************)
(* What the operations of crates/cli/src/impact.rs do to a project's       *)
(* impact store, as functions from store to store: recording an audit or a *)
(* whole-project run (with containment and the attribution of findings     *)
(* that disappeared), the user's decisions, and the digest.                *)
(*                                                                         *)
(* A run is named by the process that made it.  A finding is a file and a  *)
(* symbol of one kind; its move key is the symbol.  Clone groups, the      *)
(* count of silenced findings, labels, versions and timestamps are left    *)
(* out.  Attribution comes before containment here and after it in the     *)
(* code: they share no field.                                              *)
(***************************************************************************)
EXTENDS Integers, Sequences, FiniteSets

CONSTANTS
    Procs,          \* fallow processes, one invocation each
    Worktrees,      \* worktrees of the one repository that share the store
    Paths,          \* source files
    Symbols,        \* symbols a finding may be about
    MaxRecords,     \* MAX_RECORDS and MAX_CONTAINMENT
    MaxRecent,      \* MAX_RECENT_RESOLVED
    PastRuns,       \* runs recorded before the model begins
    Ops,            \* the invocations that read and write the store
    NoStore,        \* the store file does not exist
    NoRun           \* pending_containment: None

ASSUME CapsAssumption == MaxRecords \in Nat \ {0} /\ MaxRecent \in Nat \ {0}
ASSUME RunsAssumption == NoRun \notin Procs \cup PastRuns /\ Procs \cap PastRuns = {}
ASSUME FiniteAssumption == IsFiniteSet(Paths) /\ IsFiniteSet(Symbols)

EmptyFile == [found |-> {}, supp |-> FALSE]

EmptyTree == [f \in Paths |-> EmptyFile]

DefaultStore ==
    [enabled |-> FALSE, decided |-> FALSE, declined |-> FALSE, digested |-> FALSE,
     records |-> << >>, project |-> << >>, pending |-> NoRun, contained |-> << >>,
     frontier |-> [w \in Worktrees |-> EmptyTree], resolved |-> 0, recent |-> << >>]

Runs == Procs \cup PastRuns

UpTo(S, n) == {s \in Seq(S) : Len(s) <= n}

(* ImpactStore, the struct, with its lists within their caps.              *)
Stores ==
    [enabled : BOOLEAN, decided : BOOLEAN, declined : BOOLEAN, digested : BOOLEAN,
     records : UpTo(Runs, MaxRecords), project : UpTo(Runs, MaxRecords),
     pending : Runs \cup {NoRun}, contained : UpTo(Runs, MaxRecords),
     frontier : [Worktrees -> [Paths -> [found : SUBSET Symbols, supp : BOOLEAN]]],
     resolved : Nat, recent : UpTo(Paths \X Symbols, MaxRecent)]

(* The drains that keep a list at its cap: the oldest entries go.          *)
Bounded(s, cap) == IF Len(s) > cap THEN SubSeq(s, Len(s) - cap + 1, Len(s)) ELSE s

-----------------------------------------------------------------------------
\* Mutant of ApplyContainment: the pending block is read, not taken.
ContainmentNotTaken(st, run, fail) ==
    IF fail
    THEN IF st.pending = NoRun THEN [st EXCEPT !.pending = run] ELSE st
    ELSE IF st.pending = NoRun THEN st
    ELSE [st EXCEPT !.contained = Bounded(Append(@, st.pending), MaxRecords)]

(* apply_containment of a gate run: the first failure is pending until a   *)
(* run passes, which contains it.                                          *)
ApplyContainment(st, run, fail) ==
    IF fail
    THEN IF st.pending = NoRun THEN [st EXCEPT !.pending = run] ELSE st
    ELSE IF st.pending = NoRun THEN st
    ELSE [st EXCEPT !.pending = NoRun,
                    !.contained = Bounded(Append(@, st.pending), MaxRecords)]

(* The files a run speaks for.  An audit: the changed files.  A combined   *)
(* run: every file of the baseline, and every file with a finding.         *)
Scope(op, front) ==
    IF op.kind = "audit" THEN op.changed
    ELSE {f \in Paths : front[f] # EmptyFile \/ op.found[f] # {}}

(* compute_appeared_move_keys: findings of a file in scope that the        *)
(* baseline does not have there.                                           *)
Appeared(op, front) ==
    {s \in Symbols : \E f \in Scope(op, front) : s \in op.found[f] \ front[f].found}

(* Findings of the baseline that are gone from a file in scope, turned up  *)
(* in no other, and were not silenced by a fresh comment: resolved.        *)
Resolved(op, front) ==
    {e \in Scope(op, front) \X Symbols :
        /\ e[2] \in front[e[1]].found \ op.found[e[1]]
        /\ e[2] \notin Appeared(op, front)
        /\ ~(op.supp[e[1]] /\ ~front[e[1]].supp)}

(* A set, one element after the other, in no particular order.             *)
Listed(S) == CHOOSE q \in [1 .. Cardinality(S) -> S] : \A x \in S : \E i \in DOMAIN q : q[i] = x

(* The entries of list s at the positions in I, in the order of the list.  *)
Sublist(s, I) ==
    [k \in 1 .. Cardinality(I) |-> s[CHOOSE i \in I : Cardinality({j \in I : j < i}) = k - 1]]

\* Mutant of Uncredit: the event stays in the list although it is taken back.
UncreditKeepsEvents(st, appeared) ==
    LET stays == {i \in DOMAIN st.recent : st.recent[i][2] \notin appeared}
    IN  [st EXCEPT !.resolved = @ - (Len(st.recent) - Cardinality(stays))]

(* uncredit_cross_run_moves: a symbol that turns up takes the credit for   *)
(* its recent resolution back.  The subtraction saturates.                 *)
Uncredit(st, appeared) ==
    LET stays == {i \in DOMAIN st.recent : st.recent[i][2] \notin appeared}
        back == Len(st.recent) - Cardinality(stays)
    IN  [st EXCEPT !.recent = Sublist(@, stays), !.resolved = IF back > @ THEN 0 ELSE @ - back]

(* apply_attribution: the baseline of the run's own worktree is compared   *)
(* with what the run found and replaced by it; files that no longer exist  *)
(* leave it.                                                               *)
ApplyAttribution(st, op) ==
    LET front == st.frontier[op.tree]
        gone == Resolved(op, front)
        scanned == [f \in Paths |->
                       IF f \in Scope(op, front)
                       THEN [found |-> op.found[f], supp |-> op.supp[f]] ELSE front[f]]
        after == Uncredit(st, Appeared(op, front))
    IN  [after EXCEPT
            !.resolved = @ + Cardinality(gone),
            !.recent = Bounded(@ \o Listed(gone), MaxRecent),
            !.frontier[op.tree] =
                [f \in Paths |-> IF f \in op.exists THEN scanned[f] ELSE EmptyFile]]

-----------------------------------------------------------------------------
(* The invocations: an audit of the changed files, a combined run over the *)
(* whole project, and the commands that change one flag.                   *)
Audits == [kind : {"audit"}, tree : Worktrees, gate : BOOLEAN, fail : BOOLEAN,
           changed : SUBSET Paths, found : [Paths -> SUBSET Symbols],
           supp : [Paths -> BOOLEAN], exists : SUBSET Paths]

Combined == [kind : {"combined"}, tree : Worktrees, found : [Paths -> SUBSET Symbols],
             supp : [Paths -> BOOLEAN], exists : SUBSET Paths]

Commands == [kind : {"enable", "disable", "decline", "digest"}, tree : Worktrees]

ASSUME OpsAssumption == Ops \subseteq Audits \cup Combined \cup Commands

IsRecord(op) == op.kind \in {"audit", "combined"}

(* take_due_digest: the next digest is an interval away.                   *)
Stamp(st) == [st EXCEPT !.digested = TRUE]

(* The body of record_audit_run and record_combined_run between load and   *)
(* save, and of enable, disable, decline_onboarding and take_due_digest.   *)
Mutate(op, run, st) ==
    CASE op.kind = "audit" ->
             LET credited == ApplyAttribution(st, op)
                 gated == IF op.gate THEN ApplyContainment(credited, run, op.fail) ELSE credited
             IN  [gated EXCEPT !.records = Bounded(Append(@, run), MaxRecords)]
      [] op.kind = "combined" ->
             [ApplyAttribution(st, op) EXCEPT !.project = Bounded(Append(@, run), MaxRecords)]
      [] op.kind = "enable" -> [st EXCEPT !.enabled = TRUE, !.decided = TRUE]
      [] op.kind = "disable" -> [st EXCEPT !.enabled = FALSE, !.decided = TRUE]
      [] op.kind = "decline" -> [st EXCEPT !.declined = TRUE]
      [] op.kind = "digest" -> Stamp(st)

(* into_store: the baseline of an in-repository store of an old version    *)
(* belongs to the worktree that imports it.                                *)
IntoStore(old, w) ==
    [old EXCEPT !.frontier = [v \in Worktrees |-> IF v = w THEN old.frontier ELSE EmptyTree]]

(* resolve_enabled: a decision for the project wins over the user default. *)
ResolveEnabled(st, global) == st.enabled \/ (~st.decided /\ global)

(* The early returns after load: records and the digest need tracking to   *)
(* be on, and the digest something to tell and a week since the last one.  *)
Proceeds(op, st, global) ==
    /\ IsRecord(op) \/ op.kind = "digest" => ResolveEnabled(st, global)
    /\ op.kind = "digest" => (st.contained # << >> \/ st.resolved > 0) /\ ~st.digested
=============================================================================
