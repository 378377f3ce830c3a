---------------------------- MODULE FixPlanProofs ----------------------------
(***************************************************************************)
(* Proofs about FixPlan, for any set of source files, any contents and       *)
(* findings, any number of saves: early saves are kept, renames wait for     *)
(* every entry to be staged, the report says what is on disk, and exit code   *)
(* 0 means that all the work landed, whatever the fixers do to lines          *)
(* (FixEdits is not expanded for these).  The second half is about what they  *)
(* do: removals commute, and two fixers that run one after the other, each    *)
(* on the text of the one before, land as if all findings were applied to     *)
(* the analysed text at once.                                                 *)
(***************************************************************************)
EXTENDS FixPlan, FiniteSetTheorems, TLAPS

-----------------------------------------------------------------------------
(* The inductive invariant *)

\* A source file that is planned was not saved before it was planned, and a file
\* that is not planned is what the analysis read, below the lines saved since.
StageInv ==
  /\ \A f \in SourceFiles \cap Paths : f \notin early /\ f \notin project.mixed
  /\ \A f \in Targets \ Paths :
       /\ IsSequence(disk[f]) /\ Len(disk[f]) >= Len(project.layout[f])
       /\ f \in early => Len(disk[f]) > Len(project.layout[f])
  /\ dryRun = TRUE => plan = <<>>

\* The stages of the commit: nothing is written before every entry is staged,
\* and an entry is then in its temporary file, written or failed.
CommitInv ==
  /\ pc \in DOMAIN After \cup {"config", "commit"} => temps = {} /\ written = {} /\ failed = {}
  /\ pc = "stage" =>
       /\ written = {} /\ failed = {} /\ temps # Paths /\ IsFiniteSet(temps)
       /\ Cardinality(temps) \in 0..Len(plan)
       /\ temps = {plan[i].path : i \in 1..Cardinality(temps)}
  /\ pc = "rename" => temps # {} /\ written \cup failed \cup temps = Paths
  /\ pc \in {"report", "done"} =>
       temps = {} /\ (written \cup failed = Paths \/ (written = {} /\ failed # {}))
  /\ written \cap failed = {} /\ written \cap temps = {} /\ failed \cap temps = {}

\* Reported fixes are of planned files, and corrected at the end.
ReportInv ==
  /\ \A x \in fixes : x.target \in Paths
  /\ pc # "done" => \A x \in fixes : x.applied = TRUE
  /\ pc = "done" => \A x \in fixes : x.applied = (x.target \notin failed)
  /\ pc = "done" /\ exit = 0 => failed = {} /\ Recoverable = {}

\* The fixers that have already been at file f.
ExportsVisited(f) == ~(pc = "exports" /\ f \in todo)
MembersVisited(f) == pc \notin {"exports", "deps", "config"} /\ ~(pc = "members" /\ f \in todo)

\* File f has something to do for a fixer that has already been there.
Due(f) ==
  \/ /\ ExportsVisited(f) /\ f \notin project.lowConfidence
     /\ ExportFixes(project.layout[f], project.exports[f]) # {}
  \/ MembersVisited(f) /\ MemberFixes(project.layout[f], project.members[f]) # {}

\* Such a file is planned, or the run will not end with exit code 0, or it could not
\* be read.
WorkInv ==
  dryRun = FALSE => \A f \in SourceFiles \ passed : Due(f) => f \in Paths \/ Recoverable # {}

FixInv == TypeOK /\ StageInv /\ CommitInv /\ ReportInv /\ WorkInv

-----------------------------------------------------------------------------
(* Lemmas *)

\* Every nonempty set of positions has a first one.
LEMMA FirstPosition ==
  ASSUME NEW T \in SUBSET Nat, T # {}
  PROVE  \E x \in T : \A y \in T : x <= y
<1>1. \E x \in T : \A y \in T : ~ (<<y, x>> \in OpToRel(<, Nat))
  BY NatLessThanWellFounded, WFMin
<1>2. PICK x \in T : \A y \in T : ~ (<<y, x>> \in {ss \in Nat \X Nat : ss[1] < ss[2]})
  BY <1>1, Zenon DEF OpToRel
<1>3. ASSUME NEW y \in T PROVE x <= y
  <2>1. <<y, x>> \notin {ss \in Nat \X Nat : ss[1] < ss[2]}
    BY <1>2
  <2>2. <<y, x>> \in Nat \X Nat /\ <<y, x>>[1] = y /\ <<y, x>>[2] = x
    OBVIOUS
  <2>3. ~(y < x)
    BY <2>1, <2>2
  <2> QED BY <2>3
<1> QED BY <1>3

\* A sequence has a length, and positions up to it.
LEMMA SequenceFacts ==
  ASSUME NEW s, IsSequence(s) PROVE Len(s) \in Nat /\ DOMAIN s = 1..Len(s)
BY DEF IsSequence

\* One more entry at the end.
LEMMA OneMoreLast ==
  ASSUME NEW s, IsSequence(s), NEW e
  PROVE  /\ IsSequence(Append(s, e)) /\ Len(Append(s, e)) = Len(s) + 1
         /\ Append(s, e)[Len(s) + 1] = e /\ \A i \in DOMAIN s : Append(s, e)[i] = s[i]
<1> DEFINE S == Range(s) \cup {e}
           t == Append(s, e)
<1>1. s \in Seq(S) /\ e \in S
  BY DEF IsSequence
<1> HIDE DEF S
<1>2. /\ t \in Seq(S) /\ Len(t) = Len(s) + 1 /\ t[Len(s) + 1] = e
      /\ \A i \in DOMAIN s : t[i] = s[i]
  BY <1>1
<1>3. \A i \in 1..Len(t) : t[i] \in Range(t)
  BY <1>2 DEF Range
<1> HIDE DEF t
<1>4. t \in Seq(Range(t))
  BY <1>2, <1>3
<1> QED BY <1>2, <1>4 DEF IsSequence, t

\* One more line at the top.
LEMMA OneMoreFirst ==
  ASSUME NEW s, IsSequence(s), NEW e
  PROVE  IsSequence(<<e>> \o s) /\ Len(<<e>> \o s) = 1 + Len(s)
<1> DEFINE S == Range(s) \cup {e}
           t == <<e>> \o s
<1>1. s \in Seq(S) /\ <<e>> \in Seq(S) /\ Len(<<e>>) = 1
  BY DEF IsSequence
<1> HIDE DEF S
<1>2. t \in Seq(S) /\ Len(t) = 1 + Len(s)
  BY <1>1
<1> HIDE DEF t
<1>3. \A i \in 1..Len(t) : t[i] \in Range(t)
  BY <1>2 DEF Range
<1>4. t \in Seq(Range(t))
  BY <1>2, <1>3
<1> QED BY <1>2, <1>4 DEF IsSequence, t

\* The next path is one of those in temporary files.
LEMMA NextPathFacts == ASSUME TypeOK, temps # {} PROVE NextPath \in temps
<1> DEFINE T == {i \in DOMAIN PathOrder : PathOrder[i] \in temps}
<1>1. PathOrder \in Seq(Targets) /\ Range(PathOrder) = Targets /\ temps \subseteq Targets
  BY PathOrderAssumption DEF TypeOK
<1>2. T \in SUBSET Nat
  BY <1>1
<1>3. T # {}
  <2>1. PICK f \in temps : TRUE
    OBVIOUS
  <2>2. f \in Range(PathOrder)
    BY <1>1, <2>1
  <2> QED BY <2>1, <2>2 DEF Range
<1>4. PICK x \in T : \A y \in T : x <= y
  BY <1>2, <1>3, FirstPosition
<1> DEFINE First(i) == /\ PathOrder[i] \in temps
                       /\ \A j \in DOMAIN PathOrder : PathOrder[j] \in temps => i <= j
<1>5. x \in DOMAIN PathOrder /\ First(x)
  BY <1>4
<1> HIDE DEF First
<1>6. First(CHOOSE i \in DOMAIN PathOrder : First(i))
  BY <1>5, Zenon
<1> QED BY <1>6 DEF NextPath, First

\* The fixers' files.
LEMMA WorkFacts ==
  /\ Work("exports") \subseteq SourceFiles /\ Work("members") \subseteq SourceFiles
  /\ Work("deps") \subseteq {Package}
  /\ Work("entries") \subseteq {Workspace} /\ Work("groups") \subseteq {Workspace}
  /\ \A pass \in {"config", "commit", "stage", "rename", "report", "done"} : Work(pass) = {}
BY DEF Work

\* A staged file is planned, once, and the others as before (FixPlan::stage).
LEMMA StageFacts ==
  ASSUME TypeOK, NEW f \in Targets, NEW content, Stage(f, content)
  PROVE  /\ Paths' = Paths \cup {f} /\ plan' # <<>> /\ IsSequence(plan')
         /\ \A i, j \in DOMAIN plan' : plan'[i].path = plan'[j].path => i = j
<1>1. IsSequence(plan) /\ \A i, j \in DOMAIN plan : plan[i].path = plan[j].path => i = j
  BY DEF TypeOK
<1>2. DOMAIN plan = 1..Len(plan) /\ Len(plan) \in Nat
  BY <1>1, SequenceFacts
<1>3. CASE f \in Paths
  <2>1. plan' = [i \in DOMAIN plan |->
                  IF plan[i].path = f THEN [plan[i] EXCEPT !.content = content] ELSE plan[i]]
    BY <1>3 DEF Stage
  <2>2. DOMAIN plan' = DOMAIN plan
    BY <2>1
  <2>3. \A i \in DOMAIN plan : plan'[i].path = plan[i].path
    BY <2>1
  <2>4. PICK k \in DOMAIN plan : plan[k].path = f
    BY <1>3 DEF Paths
  <2>5. Paths' = Paths \cup {f}
    BY <1>3, <2>2, <2>3 DEF Paths
  <2>6. \A i \in 1..Len(plan) : plan'[i] \in Range(plan')
    BY <1>2, <2>2 DEF Range
  <2>7. IsSequence(plan')
    BY <1>2, <2>1, <2>6 DEF IsSequence
  <2> QED BY <1>1, <2>2, <2>3, <2>4, <2>5, <2>7
<1>4. CASE f \notin Paths
  <2> DEFINE e == [path |-> f, content |-> content]
  <2>1. plan' = Append(plan, e)
    BY <1>4 DEF Stage
  <2>2. e.path = f
    OBVIOUS
  <2> HIDE DEF e
  <2>3. /\ IsSequence(plan') /\ Len(plan') = Len(plan) + 1
        /\ plan'[Len(plan) + 1] = e /\ \A i \in DOMAIN plan : plan'[i] = plan[i]
    BY <1>1, <2>1, OneMoreLast
  <2>4. DOMAIN plan' = 1..(Len(plan) + 1)
    BY <2>3, SequenceFacts
  <2>5. \A i \in DOMAIN plan' : i \in DOMAIN plan \/ i = Len(plan) + 1
    BY <1>2, <2>4
  <2>6. DOMAIN plan \subseteq DOMAIN plan' /\ Len(plan) + 1 \in DOMAIN plan'
    BY <1>2, <2>4
  <2>7. Paths' = Paths \cup {f}
    BY <2>2, <2>3, <2>5, <2>6 DEF Paths
  <2>8. \A i, j \in DOMAIN plan' : plan'[i].path = plan'[j].path => i = j
    <3>1. \A i \in DOMAIN plan : plan'[i].path # f
      BY <1>4, <2>3 DEF Paths
    <3> QED BY <1>1, <2>2, <2>3, <2>5, <3>1
  <2> QED BY <2>3, <2>6, <2>7, <2>8
<1> QED BY <1>3, <1>4

\* A source file that is not refused is what the analysis read, or planned.
LEMMA RefusedFacts ==
  ASSUME FixInv, NEW f \in SourceFiles, Refused(f) = {}, f \notin Paths
  PROVE  f \notin early /\ f \notin project.mixed /\ Content(f) = project.layout[f]
<1>1. f \notin project.mixed /\ disk[f] = project.layout[f]
  BY DEF Refused
<1>2. IsSequence(disk[f]) /\ (f \in early => Len(disk[f]) > Len(project.layout[f]))
  BY DEF FixInv, StageInv, Targets
<1>3. ~(Len(disk[f]) > Len(disk[f]))
  BY <1>2, SequenceFacts
<1> QED BY <1>1, <1>2, <1>3 DEF Content

\* What one fixer does to one file.
FileVisited(f) ==
  ExportFile(f) \/ DependencyFile(f) \/ MemberFile(f) \/ EntryFile(f) \/ GroupFile(f)

\* It visits it once, and leaves the plan alone or stages the file, which then is
\* not one that changed or mixes line endings.
LEMMA VisitFacts ==
  ASSUME FixInv, NEW f \in Targets, FileVisited(f)
  PROVE  /\ pc \in DOMAIN After /\ f \in todo /\ todo' = todo \ {f}
         /\ UNCHANGED <<project, dryRun, passed, disk, saves, early, pc, config, temps, written, failed, exit>>
         /\ skipped \subseteq skipped' /\ hadWriteError' \in BOOLEAN
         /\ \/ UNCHANGED <<plan, fixes>>
            \/ /\ dryRun = FALSE
               /\ \E content : Stage(f, content)
               /\ fixes' = fixes \cup {[target |-> f, applied |-> TRUE]}
               /\ f \in SourceFiles => f \in Paths \/ (f \notin early /\ f \notin project.mixed)
<1>0. dryRun \in BOOLEAN /\ hadWriteError \in BOOLEAN /\ todo \subseteq Work(pc)
  BY DEF FixInv, TypeOK
<1> DEFINE Kept == UNCHANGED <<plan, fixes>>
           Done == /\ dryRun = FALSE
                   /\ \E content : Stage(f, content)
                   /\ fixes' = fixes \cup {[target |-> f, applied |-> TRUE]}
                   /\ f \in SourceFiles => f \in Paths \/ (f \notin early /\ f \notin project.mixed)
           Result == skipped \subseteq skipped' /\ hadWriteError' \in BOOLEAN /\ (Kept \/ Done)
<1>1. ASSUME NEW reasons, Skip(f, reasons) PROVE Result
  BY <1>0, <1>1 DEF Skip
<1>2. ASSUME Nothing PROVE Result
  BY <1>0, <1>2 DEF Nothing
<1>3. ASSUME NEW edited, Apply(f, edited), ~dryRun,
             f \in SourceFiles => f \in Paths \/ (f \notin early /\ f \notin project.mixed)
      PROVE  Result
  <2>1. dryRun = FALSE
    BY <1>0, <1>3
  <2> QED BY <1>0, <1>3, <2>1 DEF Apply
<1>4. ASSUME NEW found, NEW edited, Rewrite(f, found, edited) \/ RewriteYaml(f, found, edited)
      PROVE  Result
  <2>1. Refused(f) = {} => (f \in SourceFiles => f \in Paths \/ (f \notin early /\ f \notin project.mixed))
    BY RefusedFacts
  <2>2. CASE Rewrite(f, found, edited)
    BY <1>1, <1>2, <1>3, <2>1, <2>2, Zenon DEF Rewrite
  <2>3. CASE RewriteYaml(f, found, edited)
    <3>1. CASE hadWriteError' = TRUE /\ UNCHANGED <<plan, skipped, fixes>>
      BY <3>1
    <3> QED BY <1>1, <1>2, <1>3, <2>1, <2>3, <3>1, Zenon DEF RewriteYaml
  <2> QED BY <1>4, <2>2, <2>3
<1>5. PICK pass \in DOMAIN After : Visit(pass, f)
  BY DEF FileVisited, ExportFile, DependencyFile, MemberFile, EntryFile, GroupFile, After
<1>6. /\ pc \in DOMAIN After /\ f \in todo /\ todo' = todo \ {f}
      /\ UNCHANGED <<project, dryRun, passed, disk, saves, early, pc, config, temps, written, failed, exit>>
  BY <1>5 DEF Visit, run, editor, commit
<1>7. Result
  <2>1. CASE ExportFile(f)
    BY <1>1, <1>4, <2>1, Zenon DEF ExportFile
  <2>2. CASE DependencyFile(f)
    <3>1. f \notin SourceFiles
      BY <1>0, <2>2, WorkFacts, ProjectsAssumption DEF DependencyFile, Visit
    <3> QED BY <1>2, <1>3, <2>2, <3>1, Zenon DEF DependencyFile
  <2>3. CASE MemberFile(f)
    BY <1>4, <2>3, Zenon DEF MemberFile
  <2>4. CASE EntryFile(f)
    BY <1>4, <2>4, Zenon DEF EntryFile
  <2>5. CASE GroupFile(f)
    BY <1>4, <2>5, Zenon DEF GroupFile
  <2> QED BY <2>1, <2>2, <2>3, <2>4, <2>5 DEF FileVisited
<1> QED BY <1>6, <1>7

-----------------------------------------------------------------------------
(* The fixers keep the invariant *)

\* The plan, the commit and the report.
LEMMA VisitKeeps ==
  ASSUME FixInv, NEW f \in Targets, FileVisited(f)
  PROVE  TypeOK' /\ StageInv' /\ CommitInv' /\ ReportInv' /\ Paths \subseteq Paths'
         /\ (fixes' # fixes => f \in Paths')
<1>0. TypeOK /\ StageInv /\ CommitInv /\ ReportInv
  BY DEF FixInv
<1>1. /\ pc \in DOMAIN After /\ f \in todo /\ todo' = todo \ {f}
      /\ UNCHANGED <<project, dryRun, passed, disk, saves, early, pc, config, temps, written, failed, exit>>
      /\ hadWriteError' \in BOOLEAN
  BY VisitFacts
<1>2. pc # "done" /\ pc # "stage" /\ pc # "rename" /\ pc # "report"
      /\ temps = {} /\ written = {} /\ failed = {}
  BY <1>0, <1>1 DEF After, CommitInv
<1>3. CASE UNCHANGED <<plan, fixes>>
  <2>1. Paths' = Paths
    BY <1>3 DEF Paths
  <2>2. TypeOK'
    BY <1>0, <1>1, <1>3, <2>1 DEF TypeOK, Work
  <2>3. StageInv'
    BY <1>0, <1>1, <1>3, <2>1 DEF StageInv
  <2>4. CommitInv'
    BY <1>1, <1>2 DEF CommitInv
  <2>5. ReportInv'
    BY <1>0, <1>1, <1>2, <1>3, <2>1 DEF ReportInv
  <2> QED BY <1>3, <2>1, <2>2, <2>3, <2>4, <2>5
<1>4. ASSUME NEW content, Stage(f, content), dryRun = FALSE,
             fixes' = fixes \cup {[target |-> f, applied |-> TRUE]},
             f \in SourceFiles => f \in Paths \/ (f \notin early /\ f \notin project.mixed)
      PROVE  TypeOK' /\ StageInv' /\ CommitInv' /\ ReportInv' /\ Paths \subseteq Paths'
             /\ (fixes' # fixes => f \in Paths')
  <2>1. /\ Paths' = Paths \cup {f} /\ IsSequence(plan')
        /\ \A i, j \in DOMAIN plan' : plan'[i].path = plan'[j].path => i = j
    BY <1>0, <1>4, StageFacts
  <2> DEFINE x == [target |-> f, applied |-> TRUE]
  <2>2. x \in [target : Targets, applied : BOOLEAN] /\ x.target = f /\ x.applied = TRUE
    OBVIOUS
  <2>3. fixes' = fixes \cup {x}
    BY <1>4
  <2> HIDE DEF x
  <2>4. TypeOK'
    BY <1>0, <1>1, <2>1, <2>2, <2>3 DEF TypeOK, Work
  <2>5. StageInv'
    BY <1>0, <1>1, <1>4, <2>1 DEF StageInv
  <2>6. CommitInv'
    BY <1>1, <1>2 DEF CommitInv
  <2>7. ReportInv'
    BY <1>0, <1>1, <1>2, <2>1, <2>2, <2>3 DEF ReportInv
  <2> QED BY <2>1, <2>4, <2>5, <2>6, <2>7
<1> QED BY <1>3, <1>4, VisitFacts

\* The work: a file that was visited is planned if it had something to do, or it
\* was refused and that counts as a failure.
LEMMA VisitWork ==
  ASSUME FixInv, NEW f \in Targets, FileVisited(f) PROVE WorkInv'
<1>0. TypeOK /\ WorkInv
  BY DEF FixInv
<1>1. /\ f \in todo /\ todo' = todo \ {f} /\ UNCHANGED <<project, dryRun, passed, pc>>
      /\ skipped \subseteq skipped' /\ Paths \subseteq Paths'
  BY VisitFacts, VisitKeeps
<1>2. Recoverable # {} => Recoverable' # {}
  BY <1>1 DEF Recoverable
<1> SUFFICES ASSUME dryRun = FALSE, NEW g \in SourceFiles \ passed, Due(g)'
             PROVE  g \in Paths' \/ Recoverable' # {}
  BY <1>1 DEF WorkInv
<1>3. CASE Due(g)
  BY <1>0, <1>1, <1>2, <1>3 DEF WorkInv
<1>4. CASE ~Due(g)
  <2>1. f = g
    BY <1>1, <1>4 DEF Due, ExportsVisited, MembersVisited
  <2>2. ASSUME NEW found, NEW edited, Rewrite(f, found, edited),
               f \notin Paths /\ Content(f) = project.layout[f] => found # {}
        PROVE  f \in Paths' \/ Recoverable' # {}
    <3>1. CASE f \in Paths
      BY <1>1, <3>1
    <3>2. CASE f \notin Paths /\ Refused(f) # {}
      <4>1. PICK r \in Refused(f) : r # "LowConfidence"
        BY <3>2 DEF Refused
      <4>2. [path |-> f, reason |-> r] \in skipped'
        BY <2>2, <3>2, <4>1 DEF Rewrite, Skip
      <4> QED BY <4>1, <4>2 DEF Recoverable
    <3>3. CASE f \notin Paths /\ Refused(f) = {}
      <4>1. Content(f) = project.layout[f]
        BY <2>1, <3>3, RefusedFacts
      <4>2. Apply(f, edited)
        BY <2>2, <3>3, <4>1 DEF Rewrite
      <4> QED BY <1>0, <4>2, StageFacts DEF Apply
    <3> QED BY <3>1, <3>2, <3>3
  <2>3. CASE pc = "exports"
    <3>1. ExportFile(f)
      BY <2>3 DEF FileVisited, DependencyFile, MemberFile, EntryFile, GroupFile, Visit
    <3>2. f \notin project.lowConfidence /\ ExportFixes(project.layout[f], project.exports[f]) # {}
      BY <1>1, <2>1, <2>3 DEF Due, MembersVisited
    <3>3. Rewrite(f, ExportFixes(Content(f), project.exports[f]),
                     ExportEdit(Content(f), project.exports[f]))
      BY <3>1, <3>2 DEF ExportFile
    <3> QED BY <2>1, <2>2, <3>2, <3>3
  <2>4. CASE pc = "members"
    <3>1. MemberFile(f)
      BY <2>4 DEF FileVisited, ExportFile, DependencyFile, EntryFile, GroupFile, Visit
    <3>2. MemberFixes(project.layout[f], project.members[f]) # {}
      BY <1>1, <1>4, <2>1, <2>4 DEF Due, ExportsVisited
    <3>3. Rewrite(f, MemberFixes(Content(f), project.members[f]),
                     MemberEdit(Content(f), project.members[f]))
      BY <3>1 DEF MemberFile
    <3> QED BY <2>1, <2>2, <3>2, <3>3
  <2>5. CASE pc \notin {"exports", "members"}
    BY <1>1, <1>4, <2>5 DEF Due, ExportsVisited, MembersVisited
  <2> QED BY <2>3, <2>4, <2>5
<1> QED BY <1>3, <1>4

-----------------------------------------------------------------------------
(* The rest of the run keeps the invariant *)

\* A file that cannot be read is passed over.
LEMMA PassOverKeeps == ASSUME FixInv, NEW f \in Targets, PassOver(f) PROVE FixInv'
<1>0. TypeOK /\ StageInv /\ CommitInv /\ ReportInv /\ WorkInv
  BY DEF FixInv
<1>1. /\ todo' = todo \ {f} /\ passed' = passed \cup {f}
      /\ UNCHANGED <<project, dryRun, disk, saves, early, pc, plan, skipped, fixes, config,
                     hadWriteError, temps, written, failed, exit>>
  BY DEF PassOver, Nothing, editor, commit
<1>2. Paths' = Paths /\ Recoverable' = Recoverable /\ Work(pc)' = Work(pc)
  BY <1>1 DEF Paths, Recoverable, Work
<1>3. TypeOK'
  BY <1>0, <1>1, <1>2 DEF TypeOK
<1>4. StageInv' /\ CommitInv' /\ ReportInv'
  BY <1>0, <1>1, <1>2 DEF StageInv, CommitInv, ReportInv
<1>5. \A g : g # f /\ Due(g)' => Due(g)
  BY <1>1 DEF Due, ExportsVisited, MembersVisited
<1>6. WorkInv'
  BY <1>0, <1>1, <1>2, <1>5 DEF WorkInv
<1> QED BY <1>3, <1>4, <1>6 DEF FixInv

\* Between the fixers only the stage of the run moves on.
LEMMA PassKeeps == ASSUME FixInv, EndPass \/ ConfigFix \/ BeginCommit PROVE FixInv'
<1>0. TypeOK /\ StageInv /\ CommitInv /\ ReportInv /\ WorkInv
  BY DEF FixInv
<1>1. UNCHANGED <<project, dryRun, passed, disk, saves, early, plan, skipped, fixes, temps, written, failed, exit>>
  BY DEF EndPass, ConfigFix, BeginCommit, run, editor, commit
<1>2. Paths' = Paths /\ Recoverable' = Recoverable /\ \A pass : Work(pass)' = Work(pass)
  BY <1>1 DEF Paths, Recoverable, Work
<1>3. \/ pc = "exports" /\ pc' = "deps" /\ todo = {}
      \/ pc = "deps" /\ pc' = "config"
      \/ pc = "config" /\ pc' = "members" /\ todo' = Work("members")
      \/ pc = "members" /\ pc' = "entries" /\ todo = {}
      \/ pc = "entries" /\ pc' = "groups"
      \/ pc = "groups" /\ pc' = "commit"
      \/ pc = "commit" /\ pc' = "report" /\ (dryRun \/ plan = <<>>)
      \/ pc = "commit" /\ pc' = "stage" /\ ~dryRun /\ plan # <<>>
  BY DEF EndPass, ConfigFix, BeginCommit, After
<1>4. temps = {} /\ written = {} /\ failed = {}
  BY <1>0, <1>3 DEF CommitInv, After
<1>5. TypeOK'
  <2>1. config' \in BOOLEAN /\ hadWriteError' \in BOOLEAN
    <3>1. CASE ConfigFix
      BY <3>1, Zenon DEF ConfigFix
    <3>2. CASE EndPass \/ BeginCommit
      BY <1>0, <3>2 DEF EndPass, BeginCommit, TypeOK
    <3> QED BY <3>1, <3>2
  <2>2. todo' \subseteq Work(pc')
    <3>1. CASE EndPass
      BY <3>1 DEF EndPass
    <3>2. CASE ConfigFix
      BY <3>2 DEF ConfigFix
    <3>3. CASE BeginCommit
      <4>1. pc = "commit" /\ todo' = todo
        BY <3>3 DEF BeginCommit
      <4>2. todo = {}
        BY <1>0, <4>1, WorkFacts DEF TypeOK
      <4> QED BY <4>1, <4>2
    <3> QED BY <3>1, <3>2, <3>3
  <2>3. Work(pc)' = Work(pc')
    BY <1>1 DEF Work
  <2>4. pc' \in DOMAIN After \cup {"config", "commit", "stage", "rename", "report", "done"}
    BY <1>3 DEF After
  <2> QED BY <1>0, <1>1, <1>2, <2>1, <2>2, <2>3, <2>4 DEF TypeOK
<1>6. StageInv'
  BY <1>0, <1>1, <1>2 DEF StageInv
<1>7. CommitInv'
  <2>1. DOMAIN plan = 1..Len(plan) /\ Len(plan) \in Nat
    BY <1>0, SequenceFacts DEF TypeOK
  <2>2. plan = <<>> => Paths = {}
    BY DEF Paths
  <2>3. plan # <<>> => Paths # {}
    <3>1. plan # <<>> => 1 \in DOMAIN plan
      BY <2>1
    <3> QED BY <3>1 DEF Paths
  <2>4. dryRun => plan = <<>>
    BY <1>0 DEF StageInv, TypeOK
  <2>5. CASE pc' = "stage"
    <3>1. IsFiniteSet(temps') /\ Cardinality(temps') = 0
      BY <1>1, <1>4, FS_EmptySet
    <3>2. {plan[i].path : i \in 1..0} = {}
      OBVIOUS
    <3> QED BY <1>1, <1>2, <1>3, <1>4, <2>1, <2>3, <2>5, <3>1, <3>2 DEF CommitInv, After
  <2>6. CASE pc' = "report"
    BY <1>1, <1>2, <1>3, <1>4, <2>2, <2>4, <2>6 DEF CommitInv, After
  <2>7. CASE pc' \notin {"stage", "report"}
    BY <1>1, <1>3, <1>4, <2>7 DEF CommitInv
  <2> QED BY <2>5, <2>6, <2>7
<1>8. ReportInv'
  BY <1>0, <1>1, <1>2, <1>3 DEF ReportInv
<1>9. WorkInv'
  <2> SUFFICES ASSUME dryRun = FALSE, NEW f \in SourceFiles \ passed, Due(f)'
               PROVE  f \in Paths' \/ Recoverable' # {}
    BY <1>1 DEF WorkInv
  <2>1. ExportsVisited(f)' => ExportsVisited(f)
    BY <1>3 DEF ExportsVisited
  <2>2. CASE pc # "config"
    <3>1. MembersVisited(f)' => MembersVisited(f)
      BY <1>3, <2>2 DEF MembersVisited
    <3>2. Due(f)
      BY <1>1, <2>1, <3>1 DEF Due
    <3> QED BY <1>0, <1>2, <3>2 DEF WorkInv
  <2>3. CASE pc = "config"
    <3>1. MembersVisited(f)' => f \notin Work("members")
      BY <1>3, <2>3 DEF MembersVisited
    <3>2. f \notin Work("members") => MemberFixes(project.layout[f], project.members[f]) = {}
      BY DEF Work, MemberFixes
    <3>3. Due(f)
      BY <1>1, <2>1, <3>1, <3>2 DEF Due
    <3> QED BY <1>0, <1>2, <3>3 DEF WorkInv
  <2> QED BY <2>2, <2>3
<1> QED BY <1>5, <1>6, <1>7, <1>8, <1>9 DEF FixInv

\* What the work needs survives every step after the fixers.
LEMMA WorkLater ==
  ASSUME FixInv, pc \notin {"exports", "deps", "config", "members"},
         pc' \notin {"exports", "deps", "config", "members"},
         UNCHANGED <<project, dryRun, passed, plan, skipped>>
  PROVE  WorkInv' /\ Paths' = Paths /\ Recoverable' = Recoverable
<1>1. Paths' = Paths /\ Recoverable' = Recoverable
  BY DEF Paths, Recoverable
<1>2. \A f \in SourceFiles : Due(f)' => Due(f)
  BY DEF Due, ExportsVisited, MembersVisited
<1> QED BY <1>1, <1>2 DEF FixInv, WorkInv

\* Staging writes temporary files only, the next entry of the plan each time.
LEMMA StageKeeps == ASSUME FixInv, StageOne \/ StageFails PROVE FixInv'
<1>0. TypeOK /\ StageInv /\ CommitInv /\ ReportInv
  BY DEF FixInv
<1> DEFINE k == Cardinality(temps)
<1>1. /\ pc = "stage"
      /\ UNCHANGED <<project, dryRun, passed, disk, saves, early, todo, plan, skipped, fixes, config,
                     hadWriteError, written, exit>>
      /\ pc' \in {"stage", "rename", "report"}
  BY DEF StageOne, StageFails, run, editor
<1>2. WorkInv' /\ Paths' = Paths /\ Recoverable' = Recoverable
  BY <1>1, WorkLater
<1>3. /\ written = {} /\ failed = {} /\ temps # Paths /\ IsFiniteSet(temps)
      /\ k \in 0..Len(plan) /\ temps = {plan[i].path : i \in 1..k}
  BY <1>0, <1>1 DEF CommitInv
<1>4. DOMAIN plan = 1..Len(plan) /\ Len(plan) \in Nat
      /\ \A i, j \in DOMAIN plan : plan[i].path = plan[j].path => i = j
  BY <1>0, SequenceFacts DEF TypeOK
<1> HIDE DEF k
<1>5. k # Len(plan)
  BY <1>3, <1>4 DEF Paths
<1>6. k + 1 \in DOMAIN plan /\ k \in Nat
  <2>1. k \in 0..Len(plan)
    BY <1>3
  <2>2. \A n \in Nat : \A m \in 0..n : m # n => m + 1 \in 1..n /\ m \in Nat
    OBVIOUS
  <2> QED BY <1>4, <1>5, <2>1, <2>2
<1> DEFINE p == plan[k + 1].path
<1>7. p \in Paths /\ p \notin temps
  <2>1. \A i \in 1..k : i \in DOMAIN plan /\ i # k + 1
    BY <1>3, <1>4, <1>6
  <2>2. \A i \in 1..k : plan[i].path # p
    BY <1>4, <1>6, <2>1
  <2> QED BY <1>3, <1>6, <2>2 DEF Paths
<1>8. temps \subseteq Paths
  BY <1>0 DEF TypeOK
<1>9. CASE StageOne
  <2>1. temps' = temps \cup {p} /\ failed' = failed
        /\ pc' = (IF temps' = Paths THEN "rename" ELSE "stage")
    BY <1>9 DEF StageOne, k
  <2>2. IsFiniteSet(temps') /\ Cardinality(temps') = k + 1
    BY <1>3, <1>7, <2>1, FS_AddElement DEF k
  <2>3. temps' = {plan[i].path : i \in 1..(k + 1)}
    <3>1. \A i \in 1..(k + 1) : i \in 1..k \/ i = k + 1
      BY <1>6
    <3>2. 1..k \subseteq 1..(k + 1) /\ k + 1 \in 1..(k + 1)
      BY <1>6
    <3> QED BY <1>3, <2>1, <3>1, <3>2
  <2>4. k + 1 \in 0..Len(plan) /\ temps' # {} /\ temps' \subseteq Paths
    BY <1>4, <1>6, <1>7, <1>8, <2>1
  <2>5. CommitInv'
    BY <1>1, <1>2, <1>3, <2>1, <2>2, <2>3, <2>4 DEF CommitInv, After
  <2>6. TypeOK'
    <3>1. todo' \subseteq Work(pc)'
      BY <1>0, <1>1, WorkFacts DEF TypeOK
    <3> QED BY <1>0, <1>1, <1>2, <2>1, <2>4, <3>1 DEF TypeOK
  <2>7. StageInv' /\ ReportInv'
    BY <1>0, <1>1, <1>2, <2>1 DEF StageInv, ReportInv
  <2> QED BY <1>2, <2>5, <2>6, <2>7 DEF FixInv
<1>10. CASE StageFails
  <2>1. temps' = {} /\ failed' = {p} /\ pc' = "report"
    BY <1>10 DEF StageFails, k
  <2>2. CommitInv'
    BY <1>1, <1>2, <1>3, <2>1 DEF CommitInv, After
  <2>3. TypeOK'
    <3>1. todo' \subseteq Work(pc)'
      BY <1>0, <1>1, WorkFacts DEF TypeOK
    <3> QED BY <1>0, <1>1, <1>2, <1>7, <2>1, <3>1 DEF TypeOK
  <2>4. StageInv' /\ ReportInv'
    BY <1>0, <1>1, <1>2, <2>1 DEF StageInv, ReportInv
  <2> QED BY <1>2, <2>2, <2>3, <2>4 DEF FixInv
<1> QED BY <1>9, <1>10

\* A rename moves one entry from its temporary file to its target, or fails.
LEMMA RenameKeeps == ASSUME FixInv, Rename PROVE FixInv'
<1>0. TypeOK /\ StageInv /\ CommitInv /\ ReportInv
  BY DEF FixInv
<1>1. /\ pc = "rename" /\ pc' = (IF temps' = {} THEN "report" ELSE "rename")
      /\ UNCHANGED <<project, dryRun, passed, saves, early, todo, plan, skipped, fixes, config,
                     hadWriteError, exit>>
  BY DEF Rename, run
<1>2. WorkInv' /\ Paths' = Paths /\ Recoverable' = Recoverable
  BY <1>1, WorkLater
<1>3. temps # {} /\ written \cup failed \cup temps = Paths /\ temps \subseteq Paths
      /\ written \cap failed = {} /\ written \cap temps = {} /\ failed \cap temps = {}
  BY <1>0, <1>1 DEF CommitInv, TypeOK
<1>4. PICK p \in temps : p = NextPath
  BY <1>0, <1>3, NextPathFacts
<1>5. /\ temps' = temps \ {p}
      /\ \/ DOMAIN disk' = DOMAIN disk /\ (\A f \in DOMAIN disk : f # p => disk'[f] = disk[f])
            /\ written' = written \cup {p} /\ failed' = failed
         \/ disk' = disk /\ written' = written /\ failed' = failed \cup {p}
  BY <1>4 DEF Rename
<1>6. CommitInv'
  BY <1>1, <1>2, <1>3, <1>4, <1>5 DEF CommitInv, After
<1>7. TypeOK'
  <2>1. todo' \subseteq Work(pc)'
    BY <1>0, <1>1, WorkFacts DEF TypeOK
  <2>2. DOMAIN disk' = Targets
    BY <1>0, <1>5 DEF TypeOK
  <2>3. temps' \subseteq Paths' /\ written' \subseteq Paths' /\ failed' \subseteq Paths'
    BY <1>2, <1>3, <1>4, <1>5
  <2> QED BY <1>0, <1>1, <1>2, <2>1, <2>2, <2>3 DEF TypeOK
<1>8. StageInv'
  <2>1. \A f \in Targets \ Paths : disk'[f] = disk[f]
    BY <1>0, <1>3, <1>4, <1>5 DEF TypeOK
  <2> QED BY <1>0, <1>1, <1>2, <2>1 DEF StageInv
<1>9. ReportInv'
  BY <1>0, <1>1, <1>2 DEF ReportInv
<1> QED BY <1>2, <1>6, <1>7, <1>8, <1>9 DEF FixInv

\* The report is corrected, and any failure shows in the exit code.
LEMMA ReportKeeps == ASSUME FixInv, Report PROVE FixInv'
<1>0. TypeOK /\ StageInv /\ CommitInv /\ ReportInv
  BY DEF FixInv
<1>1. /\ pc = "report" /\ pc' = "done" /\ fixes' = Patched
      /\ hadWriteError' = (hadWriteError \/ failed # {} \/ Recoverable # {})
      /\ exit' = (IF hadWriteError' THEN 2 ELSE 0)
      /\ UNCHANGED <<project, dryRun, passed, disk, saves, early, todo, plan, skipped, config, temps,
                     written, failed>>
  BY DEF Report, run, editor, commit
<1>2. WorkInv' /\ Paths' = Paths /\ Recoverable' = Recoverable
  BY <1>1, WorkLater
<1>3. hadWriteError' \in BOOLEAN /\ exit' \in {0, 2}
  <2>1. hadWriteError' \in BOOLEAN
    BY <1>1, Zenon
  <2> QED BY <1>1, <2>1
<1>4. exit' = 0 => failed = {} /\ Recoverable = {}
  <2>1. CASE hadWriteError'
    BY <1>1, <2>1
  <2>2. CASE ~hadWriteError'
    BY <1>1, <2>2, Zenon
  <2> QED BY <2>1, <2>2
<1>5. ASSUME NEW y \in fixes'
      PROVE  /\ y \in [target : Targets, applied : BOOLEAN] /\ y.target \in Paths
             /\ y.applied = (y.target \notin failed)
  <2>1. PICK x \in fixes : y = [x EXCEPT !.applied = x.applied /\ x.target \notin failed]
    BY <1>1 DEF Patched
  <2>2. /\ x \in [target : Targets, applied : BOOLEAN] /\ x.target \in Paths /\ x.applied = TRUE
    BY <1>0, <1>1 DEF TypeOK, ReportInv
  <2> DEFINE b == x.applied /\ x.target \notin failed
  <2>3. b = (x.target \notin failed) /\ b \in BOOLEAN
    BY <2>2, Zenon
  <2> HIDE DEF b
  <2>4. y = [x EXCEPT !.applied = b]
    BY <2>1 DEF b
  <2>5. y.target = x.target /\ y.applied = b /\ y \in [target : Targets, applied : BOOLEAN]
    BY <2>2, <2>3, <2>4
  <2> QED BY <2>2, <2>3, <2>5
<1>6. TypeOK'
  <2>1. todo' \subseteq Work(pc)'
    BY <1>0, <1>1, WorkFacts DEF TypeOK
  <2>2. exit' \in {-1, 0, 2}
    BY <1>3
  <2> QED BY <1>0, <1>1, <1>2, <1>3, <1>5, <2>1, <2>2 DEF TypeOK
<1>7. StageInv' /\ CommitInv'
  BY <1>0, <1>1, <1>2 DEF StageInv, CommitInv, After
<1>8. ReportInv'
  BY <1>1, <1>2, <1>4, <1>5 DEF ReportInv
<1> QED BY <1>2, <1>6, <1>7, <1>8 DEF FixInv

\* A save adds a line to a file that is not planned yet, or is not protected.
LEMMA SaveKeeps == ASSUME FixInv, NEW f \in Targets, Save(f) PROVE FixInv'
<1>0. TypeOK /\ StageInv /\ CommitInv /\ ReportInv /\ WorkInv
  BY DEF FixInv
<1>1. /\ saves' = saves + 1 /\ saves < MaxSaves
      /\ disk' = [disk EXCEPT ![f] = <<NewLine(f)>> \o disk[f]]
      /\ early' = (IF f \in Paths THEN early ELSE early \cup {f})
      /\ UNCHANGED <<project, dryRun, passed, pc, todo, plan, skipped, fixes, config, hadWriteError,
                     temps, written, failed, exit>>
  BY DEF Save, run, commit
<1>2. Paths' = Paths /\ Recoverable' = Recoverable
  BY <1>1 DEF Paths, Recoverable
<1>3. DOMAIN disk' = Targets /\ disk'[f] = <<NewLine(f)>> \o disk[f]
      /\ \A g \in Targets : g # f => disk'[g] = disk[g]
  BY <1>0, <1>1 DEF TypeOK
<1>5. f \notin Paths => IsSequence(disk'[f]) /\ Len(disk'[f]) > Len(project.layout[f])
                        /\ Len(disk'[f]) >= Len(project.layout[f])
  <2> SUFFICES ASSUME f \notin Paths
               PROVE  IsSequence(disk'[f]) /\ Len(disk'[f]) > Len(project.layout[f])
                        /\ Len(disk'[f]) >= Len(project.layout[f])
    OBVIOUS
  <2>1. IsSequence(disk[f]) /\ Len(disk[f]) >= Len(project.layout[f])
    BY <1>0 DEF StageInv
  <2>2. IsSequence(project.layout[f])
    BY <1>0, ProjectsAssumption DEF TypeOK
  <2>3. IsSequence(disk'[f]) /\ Len(disk'[f]) = 1 + Len(disk[f])
    BY <1>3, <2>1, OneMoreFirst
  <2>4. Len(disk[f]) \in Nat /\ Len(project.layout[f]) \in Nat
    BY <2>1, <2>2, SequenceFacts
  <2> QED BY <2>1, <2>3, <2>4
<1>6. StageInv'
  <2>1. \A g \in SourceFiles \cap Paths : g \notin early' /\ g \notin project.mixed
    BY <1>0, <1>1 DEF StageInv
  <2>2. ASSUME NEW g \in Targets \ Paths
        PROVE  /\ IsSequence(disk'[g]) /\ Len(disk'[g]) >= Len(project.layout[g])
               /\ g \in early' => Len(disk'[g]) > Len(project.layout[g])
    <3>1. CASE g = f
      BY <1>5, <3>1
    <3>2. CASE g # f
      <4>1. disk'[g] = disk[g] /\ (g \in early' => g \in early)
        BY <1>1, <1>3, <3>2
      <4> QED BY <1>0, <4>1 DEF StageInv
    <3> QED BY <3>1, <3>2
  <2> QED BY <1>0, <1>1, <1>2, <2>1, <2>2 DEF StageInv
<1>7. TypeOK'
  <2>1. saves' \in 0..MaxSaves
    BY <1>0, <1>1, ProjectsAssumption DEF TypeOK
  <2>2. Work(pc)' = Work(pc)
    BY <1>1 DEF Work
  <2>3. early' \subseteq Targets
    BY <1>0, <1>1 DEF TypeOK
  <2> QED BY <1>0, <1>1, <1>2, <1>3, <2>1, <2>2, <2>3 DEF TypeOK
<1>8. CommitInv' /\ ReportInv'
  BY <1>0, <1>1, <1>2 DEF CommitInv, ReportInv
<1>9. WorkInv'
  <2>1. \A g : Due(g)' <=> Due(g)
    BY <1>1 DEF Due, ExportsVisited, MembersVisited
  <2> QED BY <1>0, <1>1, <1>2, <2>1 DEF WorkInv
<1> QED BY <1>6, <1>7, <1>8, <1>9 DEF FixInv

-----------------------------------------------------------------------------
(* Theorems *)

\* The invariant holds when the run starts.
LEMMA FixInit == Init => FixInv
<1> SUFFICES ASSUME Init PROVE FixInv
  OBVIOUS
<1>1. /\ project \in Projects /\ dryRun \in BOOLEAN /\ disk = project.layout /\ saves = 0
      /\ early = {} /\ passed = {} /\ pc = "exports" /\ todo = Work("exports") /\ plan = <<>> /\ skipped = {}
      /\ fixes = {} /\ config = FALSE /\ hadWriteError = FALSE /\ temps = {} /\ written = {}
      /\ failed = {} /\ exit = -1
  BY DEF Init
<1>2. Paths = {} /\ DOMAIN plan = {} /\ IsSequence(plan)
  BY <1>1 DEF Paths, IsSequence
<1>3. DOMAIN project.layout = Targets /\ MaxSaves \in Nat
      /\ \A f \in Targets : IsSequence(project.layout[f])
  BY <1>1, ProjectsAssumption
<1>4. TypeOK
  <2>1. pc \in DOMAIN After /\ todo \subseteq Work(pc) /\ saves \in 0..MaxSaves
    BY <1>1, <1>3 DEF After
  <2> QED BY <1>1, <1>2, <1>3, <2>1 DEF TypeOK
<1>5. StageInv
  <2>1. \A f \in Targets : IsSequence(disk[f]) /\ Len(disk[f]) >= Len(project.layout[f])
    <3>1. \A f \in Targets : Len(project.layout[f]) \in Nat
      BY <1>3, SequenceFacts
    <3> QED BY <1>1, <1>3, <3>1
  <2> QED BY <1>1, <1>2, <2>1 DEF StageInv
<1>6. CommitInv /\ ReportInv
  BY <1>1 DEF CommitInv, ReportInv
<1>7. WorkInv
  <2>1. \A f \in SourceFiles : ExportsVisited(f) => f \notin Work("exports")
    BY <1>1 DEF ExportsVisited
  <2>2. \A f \in SourceFiles :
          f \notin Work("exports") => ExportFixes(project.layout[f], project.exports[f]) = {}
    BY DEF Work, ExportFixes
  <2>3. \A f : ~MembersVisited(f)
    BY <1>1 DEF MembersVisited
  <2> QED BY <2>1, <2>2, <2>3 DEF WorkInv, Due
<1> QED BY <1>4, <1>5, <1>6, <1>7 DEF FixInv

\* Every step keeps it.
LEMMA FixStep == FixInv /\ [Next]_vars => FixInv'
<1> SUFFICES ASSUME FixInv, [Next]_vars PROVE FixInv'
  OBVIOUS
<1>1. ASSUME NEW f \in Targets, FileVisited(f) PROVE FixInv'
  BY <1>1, VisitKeeps, VisitWork DEF FixInv
<1>2. CASE UNCHANGED vars
  <2>1. Paths' = Paths /\ Recoverable' = Recoverable /\ Work(pc)' = Work(pc)
    BY <1>2 DEF vars, Paths, Recoverable, Work
  <2>2. TypeOK'
    BY <1>2, <2>1 DEF FixInv, TypeOK, vars
  <2>3. StageInv' /\ CommitInv' /\ ReportInv'
    BY <1>2, <2>1 DEF FixInv, StageInv, CommitInv, ReportInv, vars
  <2>4. \A f : Due(f)' <=> Due(f)
    BY <1>2 DEF vars, Due, ExportsVisited, MembersVisited
  <2>5. WorkInv'
    BY <1>2, <2>1, <2>4 DEF FixInv, WorkInv, vars
  <2> QED BY <2>2, <2>3, <2>5 DEF FixInv
<1> QED
  BY <1>1, <1>2, SaveKeeps, PassOverKeeps, PassKeeps, StageKeeps, RenameKeeps, ReportKeeps
     DEF Next, FileVisited

\* The invariant holds always.
LEMMA FixInvariant == Spec => []FixInv
BY FixInit, FixStep, PTL DEF Spec

\* The variables keep their types, and no path is planned twice.
THEOREM TypeCorrect == Spec => []TypeOK
<1>1. FixInv => TypeOK
  BY DEF FixInv
<1> QED BY <1>1, FixInvariant, PTL

\* A source file saved before a fixer staged it is never replaced.
THEOREM EarlySavesKept == Spec => []EarlySaveKept
<1>1. FixInv => EarlySaveKept
  <2> SUFFICES ASSUME FixInv, NEW f \in early \cap SourceFiles
               PROVE  f \notin written /\ disk[f] # project.layout[f]
    BY DEF EarlySaveKept
  <2>1. f \notin Paths /\ f \in Targets
    BY DEF FixInv, StageInv, Targets
  <2>2. IsSequence(disk[f]) /\ Len(disk[f]) > Len(project.layout[f])
    BY <2>1 DEF FixInv, StageInv
  <2>3. ~(Len(disk[f]) > Len(disk[f]))
    BY <2>2, SequenceFacts
  <2>4. f \notin written
    BY <2>1 DEF FixInv, TypeOK
  <2> QED BY <2>2, <2>3, <2>4
<1> QED BY <1>1, FixInvariant, PTL

\* No target is replaced before every entry is staged.
THEOREM RenamesWaitForStaging == Spec => []AllStagedBeforeRename
<1>1. FixInv => AllStagedBeforeRename
  <2> SUFFICES ASSUME FixInv PROVE AllStagedBeforeRename
    OBVIOUS
  <2>1. CommitInv /\ pc \in DOMAIN After \cup {"config", "commit", "stage", "rename", "report", "done"}
    BY DEF FixInv, TypeOK
  <2> QED BY <2>1 DEF CommitInv, AllStagedBeforeRename
<1> QED BY <1>1, FixInvariant, PTL

\* What the report says was applied is on disk, and the rest is not.
THEOREM ReportsMatchDisk == Spec => []ReportMatchesDisk
<1>1. FixInv => ReportMatchesDisk
  <2> SUFFICES ASSUME FixInv, pc = "done", written \cup failed = Paths, NEW x \in fixes
               PROVE  x.applied <=> x.target \in written
    BY DEF ReportMatchesDisk
  <2>1. x.target \in Paths /\ x.applied = (x.target \notin failed) /\ written \cap failed = {}
    BY DEF FixInv, ReportInv, CommitInv
  <2>2. (x.target \notin failed) <=> x.target \in written
    BY <2>1
  <2> QED BY <2>1, <2>2, Zenon
<1> QED BY <1>1, FixInvariant, PTL

\* Exit code 0 of a real run means that all the work landed, except in files that
\* could not be read.
THEOREM ExitZeroLanded == Spec => []ExitZeroMeansLanded
<1>1. FixInv => ExitZeroMeansLanded
  <2> SUFFICES ASSUME FixInv, pc = "done", exit = 0, ~dryRun
               PROVE  /\ written = Paths
                      /\ \A f \in SourceFiles \ passed :
                           HasFixes(f) => f \in written \ (early \cup project.mixed)
    BY DEF ExitZeroMeansLanded
  <2>1. failed = {} /\ Recoverable = {}
    BY DEF FixInv, ReportInv
  <2>2. written = Paths
    BY <2>1 DEF FixInv, CommitInv
  <2>3. dryRun = FALSE
    BY DEF FixInv, TypeOK
  <2>4. ASSUME NEW f \in SourceFiles \ passed, HasFixes(f) PROVE f \in Paths
    <3>1. Due(f)
      BY <2>4 DEF HasFixes, Due, ExportsVisited, MembersVisited
    <3> QED BY <2>1, <2>3, <3>1 DEF FixInv, WorkInv
  <2> QED BY <2>2, <2>4 DEF FixInv, StageInv
<1> QED BY <1>1, FixInvariant, PTL

-----------------------------------------------------------------------------
(* Removing lines *)

\* The number of members of K up to i, and the member of a number.
Rank(K, i) == Cardinality({j \in K : j <= i})
Nth(K, k) == CHOOSE i \in K : Rank(K, i) = k

\* Ranks of members increase, from 1 on.
LEMMA RankIncreases ==
  ASSUME NEW K \in SUBSET Nat, IsFiniteSet(K)
  PROVE  /\ \A i \in K : Rank(K, i) \in 1..Cardinality(K)
         /\ \A i, j \in K : i < j => Rank(K, i) < Rank(K, j)
<1>1. Cardinality(K) \in Nat
  BY FS_CardinalityType
<1>2. ASSUME NEW i \in K
      PROVE  /\ IsFiniteSet({j \in K : j <= i}) /\ Rank(K, i) \in Nat
             /\ Rank(K, i) <= Cardinality(K) /\ Rank(K, i) # 0
  <2> DEFINE S == {j \in K : j <= i}
  <2>1. S \in SUBSET K /\ i \in S
    OBVIOUS
  <2> HIDE DEF S
  <2>2. IsFiniteSet(S) /\ Cardinality(S) <= Cardinality(K)
    BY <2>1, FS_Subset
  <2>3. Cardinality(S) \in Nat /\ Cardinality(S) # 0
    BY <2>1, <2>2, FS_CardinalityType, FS_EmptySet
  <2> QED BY <2>2, <2>3 DEF S, Rank
<1>3. ASSUME NEW i \in K, NEW j \in K, i < j PROVE Rank(K, i) < Rank(K, j)
  <2> DEFINE S == {k \in K : k <= i}
             T == {k \in K : k <= j}
  <2>0. i \in Nat /\ j \in Nat /\ \A k \in K : k \in Nat
    OBVIOUS
  <2>1. S \in SUBSET T
    <3>1. ASSUME NEW k \in K, k <= i PROVE k <= j
      BY <1>3, <2>0, <3>1
    <3> QED BY <3>1
  <2>2. j \in T /\ j \notin S
    BY <1>3
  <2>3. IsFiniteSet(T) /\ Rank(K, i) \in Nat /\ Rank(K, j) \in Nat
    BY <1>2
  <2>4. Rank(K, i) = Cardinality(S) /\ Rank(K, j) = Cardinality(T)
    BY DEF Rank
  <2> HIDE DEF S, T
  <2>5. Cardinality(S) <= Cardinality(T) /\ Cardinality(S) # Cardinality(T)
    BY <2>1, <2>2, <2>3, FS_Subset
  <2> QED BY <2>3, <2>4, <2>5
<1>4. \A i \in K : Rank(K, i) \in 1..Cardinality(K)
  <2> SUFFICES ASSUME NEW i \in K PROVE Rank(K, i) \in 1..Cardinality(K)
    OBVIOUS
  <2>1. Rank(K, i) \in Nat /\ Rank(K, i) <= Cardinality(K) /\ Rank(K, i) # 0
    BY <1>2
  <2> QED BY <1>1, <2>1
<1> QED BY <1>3, <1>4

\* Every number up to the size of K is the rank of one member.
LEMMA NthFacts ==
  ASSUME NEW K \in SUBSET Nat, IsFiniteSet(K)
  PROVE  /\ \A k \in 1..Cardinality(K) : Nth(K, k) \in K /\ Rank(K, Nth(K, k)) = k
         /\ \A i \in K : Nth(K, Rank(K, i)) = i
         /\ \A k, n \in 1..Cardinality(K) : k < n => Nth(K, k) < Nth(K, n)
<1>0. Cardinality(K) \in Nat
  BY FS_CardinalityType
<1>1. /\ \A i \in K : Rank(K, i) \in 1..Cardinality(K)
      /\ \A i, j \in K : i < j => Rank(K, i) < Rank(K, j)
  BY RankIncreases
<1> DEFINE rank == [i \in K |-> Rank(K, i)]
<1>2. \A i, j \in K : Rank(K, i) = Rank(K, j) => i = j
  <2> SUFFICES ASSUME NEW i \in K, NEW j \in K, Rank(K, i) = Rank(K, j) PROVE i = j
    OBVIOUS
  <2>1. i \in Nat /\ j \in Nat /\ Rank(K, i) \in Nat
    BY <1>0, <1>1
  <2>2. ~(i < j) /\ ~(j < i)
    BY <1>1, <2>1
  <2> QED BY <2>1, <2>2
<1>3. rank \in Injection(K, 1..Cardinality(K))
  BY <1>1, <1>2 DEF Injection, IsInjective
<1>4. IsFiniteSet(1..Cardinality(K)) /\ Cardinality(1..Cardinality(K)) = Cardinality(K)
  BY <1>0, FS_Interval
<1> HIDE DEF rank
<1>5. rank \in Surjection(K, 1..Cardinality(K))
  BY <1>3, <1>4, FS_Injection
<1>6. ASSUME NEW k \in 1..Cardinality(K) PROVE \E i \in K : Rank(K, i) = k
  BY <1>5 DEF Surjection, rank
<1> HIDE DEF Rank
<1>7. ASSUME NEW k \in 1..Cardinality(K) PROVE Nth(K, k) \in K /\ Rank(K, Nth(K, k)) = k
  BY <1>6, Zenon DEF Nth
<1>8. ASSUME NEW i \in K PROVE Nth(K, Rank(K, i)) = i
  BY <1>1, <1>2, <1>7
<1>9. ASSUME NEW k \in 1..Cardinality(K), NEW n \in 1..Cardinality(K), k < n
      PROVE  Nth(K, k) < Nth(K, n)
  <2>1. PICK a \in K : a = Nth(K, k) /\ Rank(K, a) = k
    BY <1>7
  <2>2. PICK b \in K : b = Nth(K, n) /\ Rank(K, b) = n
    BY <1>7
  <2>3. a \in Nat /\ b \in Nat /\ ~(b < a) /\ a # b
    BY <1>0, <1>1, <1>9, <2>1, <2>2
  <2> QED BY <2>1, <2>2, <2>3
<1> QED BY <1>7, <1>8, <1>9

\* A member of a set of positive numbers is not below its rank, and equals it
\* when nothing is missing before it.
LEMMA NthBelow ==
  ASSUME NEW n \in Nat, NEW K \in SUBSET (1..n)
  PROVE  /\ IsFiniteSet(K) /\ Cardinality(K) \in 0..n
         /\ \A k \in 1..Cardinality(K) : k <= Nth(K, k)
         /\ \A k \in 1..n : 1..k \subseteq K => k \in 1..Cardinality(K) /\ Nth(K, k) = k
<1>1. IsFiniteSet(1..n) /\ Cardinality(1..n) = n
  BY FS_Interval
<1>2. IsFiniteSet(K) /\ Cardinality(K) <= n /\ Cardinality(K) \in Nat /\ K \in SUBSET Nat
  <2>1. IsFiniteSet(K) /\ Cardinality(K) <= n
    BY <1>1, FS_Subset
  <2> QED BY <2>1, FS_CardinalityType
<1>3. ASSUME NEW i \in K PROVE Rank(K, i) <= i
  <2> DEFINE S == {j \in K : j <= i}
  <2>0. i \in Nat /\ i > 0 /\ \A j \in K : j \in Nat /\ j > 0
    OBVIOUS
  <2>1. S \in SUBSET (1..i)
    <3> SUFFICES ASSUME NEW j \in K, j <= i PROVE j \in 1..i
      OBVIOUS
    <3>1. j \in Nat /\ j > 0 /\ i \in Nat
      BY <2>0
    <3> QED BY <3>1
  <2>2. IsFiniteSet(1..i) /\ Cardinality(1..i) = i
    BY <2>0, FS_Interval
  <2> HIDE DEF S
  <2>3. Cardinality(S) <= i
    BY <2>1, <2>2, FS_Subset
  <2> QED BY <2>3 DEF Rank, S
<1>4. ASSUME NEW k \in 1..Cardinality(K) PROVE k <= Nth(K, k)
  <2>1. Nth(K, k) \in K /\ Rank(K, Nth(K, k)) = k
    BY <1>2, NthFacts
  <2> QED BY <1>3, <2>1
<1>5. ASSUME NEW k \in 1..n, 1..k \subseteq K PROVE k \in 1..Cardinality(K) /\ Nth(K, k) = k
  <2>0. k \in Nat /\ k > 0 /\ \A j \in K : j \in Nat /\ j > 0
    OBVIOUS
  <2>1. {j \in K : j <= k} = 1..k
    <3>1. ASSUME NEW j \in K, j <= k PROVE j \in 1..k
      <4>1. j \in Nat /\ j > 0
        BY <2>0
      <4> QED BY <2>0, <3>1, <4>1
    <3>2. \A j \in 1..k : j \in K /\ j <= k
      BY <1>5, <2>0
    <3> QED BY <3>1, <3>2
  <2>2. Cardinality(1..k) = k
    BY <2>0, FS_Interval
  <2>3. Rank(K, k) = k
    BY <2>1, <2>2 DEF Rank
  <2>4. k \in 1..k
    BY <2>0
  <2>5. k \in K
    BY <1>5, <2>4
  <2> QED BY <1>2, <2>3, <2>5, NthFacts, RankIncreases
<1> QED BY <1>2, <1>4, <1>5

\* What is left of a file after lines were removed (the bottom-up removals of the
\* fixers): the lines that were kept, in order.
LEMMA DeleteKeeps ==
  ASSUME NEW lines, NEW D
  PROVE  Delete(lines, D) = [k \in 1..Cardinality(DOMAIN lines \ D) |->
                              lines[Nth(DOMAIN lines \ D, k)]]
BY DEF Delete, Nth, Rank

\* Removing nothing changes nothing.
LEMMA DeleteNone ==
  ASSUME NEW lines, IsSequence(lines), NEW D, D \cap DOMAIN lines = {}
  PROVE  Delete(lines, D) = lines
<1>1. PICK n \in Nat : DOMAIN lines = 1..n
  BY SequenceFacts
<1>2. DOMAIN lines \ D = 1..n /\ Cardinality(1..n) = n
  BY <1>1, FS_Interval
<1>3. ASSUME NEW k \in 1..n PROVE Nth(1..n, k) = k
  <2>1. PICK K : K = 1..n
    OBVIOUS
  <2>2. K \in SUBSET (1..n) /\ 1..k \subseteq K
    BY <2>1
  <2>3. Nth(K, k) = k
    BY <2>2, NthBelow
  <2> QED BY <2>1, <2>3
<1>4. Delete(lines, D) = [k \in 1..n |-> lines[k]]
  BY <1>2, <1>3, DeleteKeeps
<1>5. lines = [k \in 1..n |-> lines[k]]
  BY <1>1 DEF IsSequence
<1> QED BY <1>4, <1>5

\* A table of lines is a sequence.
LEMMA TableSequence ==
  ASSUME NEW n \in Nat, NEW s, s = [k \in 1..n |-> s[k]] PROVE IsSequence(s)
<1>1. PICK S : S = Range(s)
  OBVIOUS
<1>2. DOMAIN s = 1..n
  OBVIOUS
<1>3. \A k \in 1..n : s[k] \in S
  BY <1>1, <1>2 DEF Range
<1>4. s \in [1..n -> S]
  BY <1>3
<1>5. s \in Seq(S)
  BY <1>4
<1> QED BY <1>1, <1>5 DEF IsSequence

\* What is left, e, when the lines K of a file remain: each of its lines was kept,
\* none has moved down, and those above everything removed are where they were.
Leaves(lines, X, K, e) ==
  /\ IsSequence(e) /\ DOMAIN e = 1..Cardinality(K) /\ DOMAIN e \subseteq DOMAIN lines
  /\ K \in SUBSET Nat /\ IsFiniteSet(K) /\ Cardinality(K) \in Nat
  /\ \A k \in DOMAIN e : Nth(K, k) \in K /\ k <= Nth(K, k) /\ e[k] = lines[Nth(K, k)]
  /\ \A k \in DOMAIN lines : (\A x \in X : k < x) => k \in DOMAIN e /\ Nth(K, k) = k

\* So it is after the removal of X.
LEMMA DeleteFacts ==
  ASSUME NEW lines, IsSequence(lines), NEW X
  PROVE  Leaves(lines, X, DOMAIN lines \ X, Delete(lines, X))
<1> DEFINE K == DOMAIN lines \ X
           e == Delete(lines, X)
<1>1. Len(lines) \in Nat /\ DOMAIN lines = 1..Len(lines)
  BY SequenceFacts
<1>2. K \in SUBSET (1..Len(lines))
  BY <1>1
<1>3. IsFiniteSet(K) /\ Cardinality(K) \in 0..Len(lines)
  BY <1>1, <1>2, NthBelow
<1>4. Cardinality(K) \in Nat /\ K \in SUBSET Nat
  BY <1>1, <1>2, <1>3
<1>5. e = [k \in 1..Cardinality(K) |-> lines[Nth(K, k)]]
  BY DeleteKeeps
<1>6. DOMAIN e = 1..Cardinality(K) /\ \A k \in DOMAIN e : e[k] = lines[Nth(K, k)]
  BY <1>5
<1>7. IsSequence(e)
  <2>1. e = [k \in 1..Cardinality(K) |-> e[k]]
    BY <1>5
  <2> QED BY <1>4, <2>1, TableSequence
<1>8. DOMAIN e \subseteq DOMAIN lines
  BY <1>1, <1>3, <1>6
<1>9. ASSUME NEW k \in DOMAIN e PROVE Nth(K, k) \in K /\ k <= Nth(K, k)
  BY <1>1, <1>2, <1>3, <1>4, <1>6, NthFacts, NthBelow
<1>10. ASSUME NEW k \in DOMAIN lines, \A x \in X : k < x PROVE k \in DOMAIN e /\ Nth(K, k) = k
  <2>1. 1..k \subseteq K
    <3> SUFFICES ASSUME NEW j \in 1..k PROVE j \in K
      OBVIOUS
    <3>1. k \in Nat /\ j \in Nat /\ j <= k /\ j \in DOMAIN lines
      BY <1>1
    <3>2. j \notin X
      BY <1>10, <3>1
    <3> QED BY <3>1, <3>2
  <2> QED BY <1>1, <1>2, <1>6, <2>1, NthBelow
<1> QED BY <1>3, <1>4, <1>6, <1>7, <1>8, <1>9, <1>10 DEF Leaves

\* Lines removed in two rounds, the later ones above all the earlier ones, might as
\* well be removed at once by the numbers that they had at first.
LEMMA DeleteTwice ==
  ASSUME NEW lines, IsSequence(lines), NEW X, NEW Y, \A y \in Y, x \in X : y < x
  PROVE  Delete(Delete(lines, X), Y) = Delete(lines, X \cup Y)
<1> DEFINE e == Delete(lines, X)
           K == DOMAIN lines \ X
           K2 == DOMAIN e \ Y
           K12 == DOMAIN lines \ (X \cup Y)
           g == Delete(e, Y)
           w == Delete(lines, X \cup Y)
<1>0. Len(lines) \in Nat /\ DOMAIN lines = 1..Len(lines)
  BY SequenceFacts
<1>1. /\ IsSequence(e) /\ DOMAIN e = 1..Cardinality(K) /\ DOMAIN e \subseteq DOMAIN lines
      /\ K \in SUBSET Nat /\ IsFiniteSet(K) /\ Cardinality(K) \in Nat
      /\ \A k \in DOMAIN e : Nth(K, k) \in K /\ k <= Nth(K, k) /\ e[k] = lines[Nth(K, k)]
      /\ \A k \in DOMAIN lines : (\A x \in X : k < x) => k \in DOMAIN e /\ Nth(K, k) = k
  <2>1. Leaves(lines, X, K, e)
    BY DeleteFacts, Zenon
  <2> QED BY <2>1 DEF Leaves
<1> HIDE DEF e
<1>2. /\ IsSequence(g) /\ DOMAIN g = 1..Cardinality(K2)
      /\ K2 \in SUBSET Nat /\ IsFiniteSet(K2) /\ Cardinality(K2) \in Nat
      /\ \A k \in DOMAIN g : Nth(K2, k) \in K2 /\ g[k] = e[Nth(K2, k)]
  <2>1. Leaves(e, Y, K2, g)
    BY <1>1, DeleteFacts, Zenon
  <2> QED BY <2>1 DEF Leaves
<1>3. /\ IsSequence(w) /\ DOMAIN w = 1..Cardinality(K12)
      /\ K12 \in SUBSET Nat /\ IsFiniteSet(K12) /\ Cardinality(K12) \in Nat
      /\ \A k \in DOMAIN w : Nth(K12, k) \in K12 /\ w[k] = lines[Nth(K12, k)]
  <2>1. Leaves(lines, X \cup Y, K12, w)
    BY DeleteFacts, Zenon
  <2> QED BY <2>1 DEF Leaves
<1> HIDE DEF g, w
<1>4. ASSUME NEW k \in K2 PROVE Nth(K, k) \in K12
  <2>1. k \in DOMAIN e /\ k \notin Y
    OBVIOUS
  <2>2. PICK i \in K : i = Nth(K, k) /\ Rank(K, i) = k
    BY <1>1, <2>1, NthFacts
  <2>3. ASSUME i \in Y PROVE FALSE
    <3>1. i \in DOMAIN lines /\ \A x \in X : i < x
      BY <2>3
    <3>2. i \in 1..Cardinality(K) /\ Nth(K, i) = i
      BY <1>1, <3>1
    <3>3. Rank(K, i) = i
      BY <1>1, <3>2, NthFacts
    <3> QED BY <2>1, <2>2, <2>3, <3>3
  <2> QED BY <2>2, <2>3
<1>5. ASSUME NEW i \in K12 PROVE Rank(K, i) \in K2 /\ Nth(K, Rank(K, i)) = i
  <2>1. i \in K /\ i \notin Y /\ i \in DOMAIN lines
    OBVIOUS
  <2>2. PICK k \in DOMAIN e : k = Rank(K, i) /\ Nth(K, k) = i
    BY <1>1, <2>1, NthFacts, RankIncreases
  <2>3. ASSUME k \in Y PROVE FALSE
    <3>1. k \in DOMAIN lines /\ \A x \in X : k < x
      BY <1>1, <2>3
    <3>2. Nth(K, k) = k
      BY <1>1, <3>1
    <3> QED BY <2>1, <2>2, <2>3, <3>2
  <2> QED BY <2>2, <2>3
<1>6. ASSUME NEW j \in K2, NEW k \in K2 PROVE j <= k <=> Nth(K, j) <= Nth(K, k)
  <2>1. j \in 1..Cardinality(K) /\ k \in 1..Cardinality(K)
    BY <1>1
  <2>2. j \in Nat /\ k \in Nat
    BY <2>1, <1>1
  <2>3. PICK a \in K : a = Nth(K, j)
    BY <1>1, <2>1
  <2>4. PICK b \in K : b = Nth(K, k)
    BY <1>1, <2>1
  <2>5. a \in Nat /\ b \in Nat
    BY <1>1
  <2>6. (j < k => a < b) /\ (k < j => b < a) /\ (j = k => a = b)
    BY <1>1, <2>1, <2>3, <2>4, NthFacts
  <2>7. j <= k <=> a <= b
    BY <2>2, <2>5, <2>6
  <2> QED BY <2>3, <2>4, <2>7
<1> HIDE DEF K2, K12
<1>7. ASSUME NEW S \in SUBSET K2, NEW T \in SUBSET K12,
             \A k \in S : Nth(K, k) \in T, \A i \in T : Rank(K, i) \in S
      PROVE  Cardinality(T) = Cardinality(S)
  <2> DEFINE h == [k \in S |-> Nth(K, k)]
  <2>1. h \in [S -> T]
    BY <1>7
  <2>2. \A i \in T : h[Rank(K, i)] = i /\ Rank(K, i) \in S
    BY <1>5, <1>7
  <2>3. ASSUME NEW j \in S, NEW k \in S, h[j] = h[k] PROVE j = k
    <3>1. j \in Nat /\ k \in Nat /\ Nth(K, j) \in K12 /\ Nth(K, k) \in K12 /\ Nth(K, j) = Nth(K, k)
      BY <1>2, <1>4, <2>3
    <3>2. Nth(K, j) \in Nat
      BY <1>3, <3>1
    <3>3. j <= k /\ k <= j
      BY <1>6, <3>1, <3>2
    <3> QED BY <3>1, <3>3
  <2> HIDE DEF h
  <2>4. h \in Bijection(S, T)
    BY <2>1, <2>2, <2>3 DEF Bijection, Injection, Surjection, IsInjective
  <2>5. ExistsBijection(S, T)
    BY <2>4 DEF ExistsBijection
  <2>6. IsFiniteSet(S)
    BY <1>2, FS_Subset
  <2> QED BY <2>5, <2>6, FS_Bijection
<1>8. Cardinality(K12) = Cardinality(K2)
  BY <1>4, <1>5, <1>7
<1>9. ASSUME NEW k \in DOMAIN g PROVE g[k] = w[k]
  <2>1. PICK n \in K2 : n = Nth(K2, k) /\ Rank(K2, n) = k
    BY <1>2, NthFacts
  <2>2. PICK i \in K12 : i = Nth(K, n)
    BY <1>4
  <2>3. g[k] = lines[i]
    BY <1>1, <1>2, <2>1, <2>2 DEF K2
  <2> DEFINE S == {j \in K2 : j <= n}
             T == {j \in K12 : j <= i}
  <2>4. \A j \in S : Nth(K, j) \in T
    BY <1>4, <1>6, <2>2
  <2>5. \A j \in T : Rank(K, j) \in S
    <3> SUFFICES ASSUME NEW j \in K12, j <= i PROVE Rank(K, j) \in S
      OBVIOUS
    <3>1. PICK m \in K2 : m = Rank(K, j) /\ Nth(K, m) = j
      BY <1>5
    <3>2. m <= n
      BY <1>6, <2>2, <3>1
    <3> QED BY <3>1, <3>2
  <2>6. S \in SUBSET K2 /\ T \in SUBSET K12 /\ Cardinality(S) = k /\ Cardinality(T) = Rank(K12, i)
    BY <2>1 DEF Rank
  <2> HIDE DEF S, T
  <2>7. Rank(K12, i) = k
    BY <1>7, <2>4, <2>5, <2>6
  <2>8. Nth(K12, k) = i
    BY <1>3, <2>7, NthFacts
  <2>9. k \in DOMAIN w
    BY <1>2, <1>3, <1>8
  <2> QED BY <1>3, <2>3, <2>8, <2>9
<1>10. g = [k \in DOMAIN g |-> g[k]] /\ w = [k \in DOMAIN w |-> w[k]]
  BY <1>2, <1>3 DEF IsSequence
<1>11. g = w
  BY <1>2, <1>3, <1>8, <1>9, <1>10
<1> QED BY <1>11 DEF g, w, e

-----------------------------------------------------------------------------
(* What the fixers do to a file *)

\* A line of a source file has the fields that the fixers look at.
SourceLine(line) ==
  line = [id |-> line.id, export |-> line.export, form |-> line.form, name |-> line.name,
          words |-> line.words]

\* Rewritten lines are as many as before (the edits in place of exports.rs,
\* enum_members.rs and catalog.rs).
LEMMA RewrittenFacts ==
  ASSUME NEW lines, IsSequence(lines), NEW found
  PROVE  /\ IsSequence(ExportRewritten(lines, found))
         /\ DOMAIN ExportRewritten(lines, found) = DOMAIN lines
         /\ IsSequence(MemberRewritten(lines, found))
         /\ DOMAIN MemberRewritten(lines, found) = DOMAIN lines
         /\ IsSequence(EntryRewritten(lines, found))
         /\ DOMAIN EntryRewritten(lines, found) = DOMAIN lines
<1>1. PICK n \in Nat : DOMAIN lines = 1..n
  BY SequenceFacts
<1>2. /\ IsSequence(ExportRewritten(lines, found))
      /\ DOMAIN ExportRewritten(lines, found) = DOMAIN lines
  <2> DEFINE s == ExportRewritten(lines, found)
  <2>1. DOMAIN s = 1..n /\ s = [i \in 1..n |-> s[i]]
    BY <1>1 DEF ExportRewritten
  <2> QED BY <1>1, <2>1, TableSequence
<1>3. /\ IsSequence(MemberRewritten(lines, found))
      /\ DOMAIN MemberRewritten(lines, found) = DOMAIN lines
  <2> DEFINE s == MemberRewritten(lines, found)
  <2>1. DOMAIN s = 1..n /\ s = [i \in 1..n |-> s[i]]
    BY <1>1 DEF MemberRewritten
  <2> QED BY <1>1, <2>1, TableSequence
<1>4. /\ IsSequence(EntryRewritten(lines, found))
      /\ DOMAIN EntryRewritten(lines, found) = DOMAIN lines
  <2> DEFINE s == EntryRewritten(lines, found)
  <2>1. DOMAIN s = 1..n /\ s = [i \in 1..n |-> s[i]]
    BY <1>1 DEF EntryRewritten
  <2> QED BY <1>1, <2>1, TableSequence
<1> QED BY <1>2, <1>3, <1>4

\* A fixer that finds nothing to do would write what it read.
LEMMA IdleEdits ==
  ASSUME NEW lines, IsSequence(lines), NEW found
  PROVE  /\ ExportFixes(lines, found) = {} => ExportEdit(lines, found) = lines
         /\ EntryFixes(lines, found) = {} => EntryEdit(lines, found) = lines
         /\ GroupFixes(lines, found) = {} => GroupEdit(lines, found) = lines
         /\ MemberFixes(lines, found) = {} /\ (\A i \in DOMAIN lines : SourceLine(lines[i]))
              => MemberEdit(lines, found) = lines
<1>1. lines = [i \in DOMAIN lines |-> lines[i]]
  BY DEF IsSequence
<1>2. ASSUME ExportFixes(lines, found) = {} PROVE ExportEdit(lines, found) = lines
  <2>1. \A i : NamesAt({}, i) = {}
    BY DEF NamesAt
  <2>2. ExportRewritten(lines, found) = lines
    BY <1>1, <1>2, <2>1 DEF ExportRewritten
  <2>3. ExportDeleted(lines, found) = {}
    BY <1>2 DEF ExportDeleted
  <2> QED BY <2>2, <2>3, DeleteNone DEF ExportEdit
<1>3. ASSUME EntryFixes(lines, found) = {} PROVE EntryEdit(lines, found) = lines
  <2>1. EntryRewritten(lines, found) = lines
    BY <1>1, <1>3 DEF EntryRewritten
  <2>2. EntryDeleted(lines, found) = {}
    BY <1>3 DEF EntryDeleted
  <2> QED BY <2>1, <2>2, DeleteNone DEF EntryEdit
<1>4. ASSUME GroupFixes(lines, found) = {} PROVE GroupEdit(lines, found) = lines
  <2>1. GroupDeleted(lines, found) = {}
    BY <1>4 DEF GroupDeleted
  <2> QED BY <2>1, DeleteNone DEF GroupEdit
<1>5. ASSUME MemberFixes(lines, found) = {}, \A i \in DOMAIN lines : SourceLine(lines[i])
      PROVE  MemberEdit(lines, found) = lines
  <2>1. SingleFixes(lines, found) = {}
    BY <1>5 DEF SingleFixes
  <2>2. ASSUME NEW i \in DOMAIN lines
        PROVE  [lines[i] EXCEPT !.words = @ \ NamesAt({}, i)] = lines[i]
    <3>1. NamesAt({}, i) = {}
      BY DEF NamesAt
    <3>2. PICK line : line = lines[i] /\ SourceLine(line)
      BY <1>5
    <3>3. PICK w : w = line.words
      OBVIOUS
    <3>4. w \ {} = w
      OBVIOUS
    <3>5. [line EXCEPT !.words = w] = line
      BY <3>2, <3>3 DEF SourceLine
    <3> QED BY <3>1, <3>2, <3>3, <3>4, <3>5
  <2>3. MemberRewritten(lines, found) = [i \in DOMAIN lines |-> lines[i]]
    BY <2>1, <2>2 DEF MemberRewritten
  <2>4. \A p : FoldedRange(lines, found, p) = {}
    BY <1>5 DEF FoldedRange
  <2>5. MemberDeleted(lines, found) = {}
    BY <2>1, <2>4 DEF MemberDeleted
  <2> QED BY <1>1, <2>3, <2>5, DeleteNone DEF MemberEdit
<1> QED BY <1>2, <1>3, <1>4, <1>5

\* The catalog fixers one after the other do what both would do at once, when the
\* lines that the second removes are above those that the first does.
LEMMA CatalogsTogether ==
  ASSUME NEW lines, IsSequence(lines), NEW entries, NEW groups,
         \A g \in groups, i \in EntryDeleted(lines, entries) : g.line < i
  PROVE  GroupEdit(EntryEdit(lines, entries), groups)
           = Delete(EntryRewritten(lines, entries),
                    EntryDeleted(lines, entries) \cup GroupDeleted(lines, groups))
<1> DEFINE r == EntryRewritten(lines, entries)
           X == EntryDeleted(lines, entries)
           e == Delete(r, X)
           Y == GroupDeleted(lines, groups)
<1>1. IsSequence(r) /\ DOMAIN r = DOMAIN lines
  BY RewrittenFacts
<1> HIDE DEF r
<1>2. Leaves(r, X, DOMAIN r \ X, e)
  BY <1>1, DeleteFacts
<1> HIDE DEF X, e
<1>3. \A g \in groups : g.line \in DOMAIN lines <=> g.line \in DOMAIN e
  BY <1>1, <1>2 DEF Leaves, X
<1>4. GroupDeleted(e, groups) = Y
  BY <1>3 DEF GroupDeleted, GroupFixes
<1>5. \A y \in Y, x \in X : y < x
  BY DEF X, GroupDeleted, GroupFixes
<1> HIDE DEF Y
<1>6. Delete(e, Y) = Delete(r, X \cup Y)
  BY <1>1, <1>5, DeleteTwice DEF e
<1> QED BY <1>4, <1>6 DEF GroupEdit, EntryEdit, r, X, e, Y

\* What the member fixer looks at is the same in file e as in file l, which has the
\* lines X besides: line k of e was line h[k] of l.
Mirrors(l, e, h, X, members) ==
  /\ DOMAIN l \subseteq Nat /\ DOMAIN e \subseteq DOMAIN l
  /\ \A k \in DOMAIN e : h[k] \in DOMAIN l /\ k <= h[k]
  /\ \A j, k \in DOMAIN e : h[j] = h[k] => j = k
  /\ \A i \in DOMAIN l : i \in X \/ \E k \in DOMAIN e : h[k] = i
  /\ \A k \in DOMAIN l : (\A x \in X : k < x) => k \in DOMAIN e /\ h[k] = k
  /\ \A k \in DOMAIN e :
       /\ e[k].form = l[h[k]].form /\ e[k].name = l[h[k]].name
       /\ l[h[k]].form # "list" => e[k].words = l[h[k]].words
       /\ \A m \in members :
            /\ m.parent \in e[k].words <=> m.parent \in l[h[k]].words
            /\ Declares(e[k], m.parent) <=> Declares(l[h[k]], m.parent)

\* The findings of the member fixer are about other lines than X, above them.
Clear(l, X, members) ==
  \A m \in members :
    /\ m.line \in DOMAIN l => l[m.line].form # "list"
    /\ \A i \in X : m.line < i /\ m.parent \notin l[i].words
    /\ \A d \in DOMAIN l : Declares(l[d], m.parent) =>
         \A i \in X, k \in {d} \cup EnumRange(l, d) : k < i

\* The range of an enum is a part of the file, and one line only where the enum has
\* one line.
LEMMA RangeFacts ==
  ASSUME NEW l, IsSequence(l), NEW d \in DOMAIN l
  PROVE  /\ EnumRange(l, d) \subseteq DOMAIN l
         /\ Cardinality(EnumRange(l, d)) = 1 /\ EnumRange(l, d) # {} => EnumRange(l, d) = {d}
<1>1. PICK n \in Nat : DOMAIN l = 1..n
  BY SequenceFacts
<1> DEFINE C == {j \in DOMAIN l : j > d /\ l[j].form = "close"}
<1>2. CASE l[d].form = "enumLine" \/ C = {}
  BY <1>2 DEF EnumRange
<1>3. CASE l[d].form # "enumLine" /\ C # {}
  <2>1. \E c \in C : \A j \in C : c <= j
    <3>1. C \in SUBSET Nat
      BY <1>1
    <3> HIDE DEF C
    <3> QED BY <1>3, <3>1, FirstPosition
  <2>2. Min(C) \in C
    BY <2>1, Zenon DEF Min
  <2>3. PICK c \in 1..n : c = Min(C) /\ c > d
    BY <1>1, <2>2
  <2>4. EnumRange(l, d) = d..c
    BY <1>3, <2>3 DEF EnumRange
  <2>5. d \in 1..n /\ c \in 1..n /\ d < c
    BY <1>1, <2>3
  <2>6. Cardinality(d..c) = c - d + 1
    BY <2>5, FS_Interval
  <2>7. Cardinality(d..c) # 1
    BY <2>5, <2>6
  <2>8. d..c \subseteq DOMAIN l
    BY <1>1, <2>5
  <2> QED BY <2>4, <2>7, <2>8
<1> QED BY <1>2, <1>3

\* The enum of a finding has the same lines in both files.
LEMMA RangeMirrored ==
  ASSUME NEW l, IsSequence(l), NEW e, NEW h, NEW X, NEW members,
         Mirrors(l, e, h, X, members), Clear(l, X, members),
         NEW m \in members, NEW d \in DOMAIN l, Declares(l[d], m.parent)
  PROVE  /\ EnumRange(e, d) = EnumRange(l, d)
         /\ \A k \in EnumRange(l, d) : k \in DOMAIN e /\ h[k] = k
<1>1. PICK n \in Nat : DOMAIN l = 1..n
  BY SequenceFacts
<1>2. \A k \in {d} \cup EnumRange(l, d), i \in X : k < i
  BY DEF Clear
<1>3. \A k \in {d} \cup EnumRange(l, d) : k \in DOMAIN l
  BY RangeFacts
<1>4. \A k \in {d} \cup EnumRange(l, d) : k \in DOMAIN e /\ h[k] = k
  BY <1>2, <1>3 DEF Mirrors
<1>5. e[d].form = l[d].form /\ \A k \in DOMAIN e : e[k].form = l[h[k]].form
  BY <1>4 DEF Mirrors
<1> DEFINE C == {j \in DOMAIN l : j > d /\ l[j].form = "close"}
           Ce == {j \in DOMAIN e : j > d /\ e[j].form = "close"}
<1>6. ASSUME NEW j \in Ce PROVE h[j] \in C /\ j <= h[j]
  <2>1. h[j] \in DOMAIN l /\ j <= h[j] /\ j \in DOMAIN l
    BY DEF Mirrors
  <2>2. h[j] > d
    BY <1>1, <2>1
  <2> QED BY <1>5, <2>1, <2>2
<1>7. CASE l[d].form = "enumLine"
  BY <1>4, <1>5, <1>7 DEF EnumRange
<1>8. CASE l[d].form # "enumLine" /\ C = {}
  <2>1. Ce = {}
    BY <1>6, <1>8
  <2> QED BY <1>4, <1>5, <1>8, <2>1 DEF EnumRange
<1>9. CASE l[d].form # "enumLine" /\ C # {}
  <2>1. \E c \in C : \A j \in C : c <= j
    <3>1. C \in SUBSET Nat
      BY <1>1
    <3> HIDE DEF C
    <3> QED BY <1>9, <3>1, FirstPosition
  <2>2. Min(C) \in C /\ \A j \in C : Min(C) <= j
    BY <2>1, Zenon DEF Min
  <2>3. PICK c \in C : c = Min(C) /\ \A j \in C : c <= j
    BY <2>2
  <2>4. EnumRange(l, d) = d..c
    BY <1>9, <2>3 DEF EnumRange
  <2>5. c \in 1..n /\ d \in 1..n /\ d < c
    BY <1>1
  <2>6. c \in DOMAIN e /\ h[c] = c
    BY <1>4, <2>4, <2>5
  <2>7. c \in Ce
    BY <1>5, <2>6, <2>5
  <2>8. ASSUME NEW j \in Ce PROVE c <= j
    <3>1. h[j] \in C /\ j \in DOMAIN l /\ j > d /\ j \in 1..n
      BY <1>1, <1>6 DEF Mirrors
    <3>2. c <= h[j]
      BY <2>3, <3>1
    <3>3. ASSUME j < c PROVE FALSE
      <4>1. j \in d..c
        BY <2>5, <3>1, <3>3
      <4>2. h[j] = j
        BY <1>4, <2>4, <4>1
      <4> QED BY <2>5, <3>1, <3>2, <3>3, <4>2
    <3> QED BY <2>5, <3>1, <3>3
  <2>9. Min(Ce) = c
    <3> HIDE DEF Ce
    <3>1. \E x \in Ce : \A y \in Ce : x <= y
      BY <2>7, <2>8
    <3>2. Min(Ce) \in Ce /\ \A y \in Ce : Min(Ce) <= y
      BY <3>1, Zenon DEF Min
    <3>3. Min(Ce) <= c /\ c <= Min(Ce) /\ Min(Ce) \in Nat
      BY <1>1, <2>7, <2>8, <3>2 DEF Mirrors, Ce
    <3> QED BY <2>5, <3>3
  <2>10. EnumRange(e, d) = d..c
    BY <1>5, <1>9, <2>7, <2>9 DEF EnumRange
  <2> QED BY <1>4, <2>4, <2>10
<1> QED BY <1>7, <1>8, <1>9

\* It is removable in one as in the other.
LEMMA RemovableMirrored ==
  ASSUME NEW l, IsSequence(l), NEW e, NEW h, NEW X, NEW members,
         Mirrors(l, e, h, X, members), Clear(l, X, members),
         NEW m \in members, NEW d \in DOMAIN l, Declares(l[d], m.parent)
  PROVE  RemovableRange(e, d, m.parent) = RemovableRange(l, d, m.parent)
<1>1. PICK R : R = EnumRange(l, d)
  OBVIOUS
<1>2. EnumRange(e, d) = R /\ \A k \in R : k \in DOMAIN e /\ h[k] = k
  BY <1>1, RangeMirrored
<1>3. d \in DOMAIN e /\ h[d] = d
  BY DEF Clear, Mirrors
<1>4. Declares(e[d], m.parent)
  BY <1>3 DEF Mirrors
<1>5. ASSUME NEW j \in DOMAIN e \ R PROVE h[j] \in DOMAIN l \ R
  BY <1>2 DEF Mirrors
<1>6. ASSUME \A j \in DOMAIN l \ R : m.parent \notin l[j].words, NEW j \in DOMAIN e \ R
      PROVE  m.parent \notin e[j].words
  BY <1>5, <1>6 DEF Mirrors
<1>7. ASSUME \A j \in DOMAIN e \ R : m.parent \notin e[j].words, NEW i \in DOMAIN l \ R
      PROVE  m.parent \notin l[i].words
  <2>1. CASE i \in X
    BY <2>1 DEF Clear
  <2>2. CASE i \notin X
    <3>1. PICK k \in DOMAIN e : h[k] = i
      BY <2>2 DEF Mirrors
    <3>2. k \notin R
      BY <1>2, <3>1
    <3> QED BY <1>7, <3>1, <3>2 DEF Mirrors
  <2> QED BY <2>1, <2>2
<1> HIDE DEF Declares
<1> QED BY <1>1, <1>2, <1>4, <1>6, <1>7 DEF RemovableRange

\* The member fixer has the same findings to fix in both files.
LEMMA FixesMirrored ==
  ASSUME NEW l, NEW e, NEW h, NEW X, NEW members,
         Mirrors(l, e, h, X, members), Clear(l, X, members)
  PROVE  /\ MemberFixes(e, members) = MemberFixes(l, members)
         /\ \A m \in MemberFixes(l, members) : m.line \in DOMAIN e /\ h[m.line] = m.line
<1>1. ASSUME NEW m \in members, m.line \in DOMAIN l
      PROVE  /\ m.line \in DOMAIN e /\ h[m.line] = m.line
             /\ e[m.line].words = l[m.line].words
  <2>1. PICK k \in DOMAIN l : k = m.line
    BY <1>1
  <2>2. k \in DOMAIN e /\ h[k] = k /\ l[k].form # "list"
    BY <2>1 DEF Clear, Mirrors
  <2>3. e[k].words = l[k].words
    BY <2>2 DEF Mirrors
  <2> QED BY <2>1, <2>2, <2>3
<1>2. DOMAIN e \subseteq DOMAIN l
  BY DEF Mirrors
<1> QED BY <1>1, <1>2 DEF MemberFixes

\* It folds the same enums.
LEMMA FoldsMirrored ==
  ASSUME NEW l, IsSequence(l), NEW e, NEW h, NEW X, NEW members,
         Mirrors(l, e, h, X, members), Clear(l, X, members), NEW m \in members
  PROVE  /\ FoldedRange(e, members, m.parent) = FoldedRange(l, members, m.parent)
         /\ \A i \in X, k \in FoldedRange(l, members, m.parent) : k < i
<1> DEFINE p == m.parent
           found == {y \in MemberFixes(l, members) : y.parent = p}
           names == {y.name : y \in found}
           decls == {i \in DOMAIN l : Declares(l[i], p)}
<1>1. {y \in MemberFixes(e, members) : y.parent = p} = found
  BY FixesMirrored
<1>2. {i \in DOMAIN e : Declares(e[i], p)} = decls
  <2>1. ASSUME NEW i \in decls PROVE i \in DOMAIN e /\ h[i] = i
    BY DEF Clear, Mirrors
  <2>2. ASSUME NEW i \in decls PROVE i \in DOMAIN e /\ Declares(e[i], p)
    BY <2>1 DEF Mirrors
  <2>3. ASSUME NEW k \in DOMAIN e, Declares(e[k], p) PROVE k \in decls
    <3>1. h[k] \in decls
      BY <2>3 DEF Mirrors
    <3>2. h[k] \in DOMAIN e /\ h[h[k]] = h[k]
      BY <2>1, <3>1
    <3>3. h[k] = k
      BY <3>2 DEF Mirrors
    <3> QED BY <3>1, <3>3
  <2> QED BY <2>2, <2>3
<1>3. CASE decls = {} \/ found = {}
  <2>1. FoldedRange(e, members, p) = {} /\ FoldedRange(l, members, p) = {}
    BY <1>1, <1>2, <1>3 DEF FoldedRange
  <2> QED BY <2>1
<1>4. CASE decls # {} /\ found # {}
  <2>1. decls \in SUBSET Nat
    BY DEF Mirrors
  <2>2. Min(decls) \in decls
    <3> HIDE DEF decls
    <3>1. \E c \in decls : \A j \in decls : c <= j
      BY <1>4, <2>1, FirstPosition
    <3> QED BY <3>1, Zenon DEF Min
  <2>3. PICK d \in DOMAIN l : d = Min(decls) /\ Declares(l[d], p)
    BY <2>2
  <2>4. PICK R : R = RemovableRange(l, d, p)
    OBVIOUS
  <2>5. RemovableRange(e, d, p) = R
    BY <2>3, <2>4, RemovableMirrored
  <2>6. R = {} \/ R = EnumRange(l, d)
    BY <2>4 DEF RemovableRange
  <2>7. \A i \in X, k \in R : k < i
    BY <2>3, <2>6 DEF Clear
  <2>8. \A k \in R : k \in DOMAIN e /\ k \in DOMAIN l /\ h[k] = k
    <3>1. \A k \in EnumRange(l, d) : k \in DOMAIN e /\ h[k] = k
      BY <2>3, RangeMirrored
    <3> QED BY <2>6, <3>1 DEF Mirrors
  <2>9. \A k \in R : e[k].name = l[k].name
    BY <2>8 DEF Mirrors
  <2>10. Cardinality(R) = 1 /\ R # {} => \A k \in R : e[k].words = l[k].words
    <3>1. CASE Cardinality(R) = 1 /\ R # {}
      <4>1. R = {d}
        BY <2>3, <2>6, <3>1, RangeFacts
      <4>2. l[d].form # "list"
        BY <2>3 DEF Declares
      <4> QED BY <2>8, <4>1, <4>2 DEF Mirrors
    <3> QED BY <3>1
  <2>11. R # {} => (Drained(e, R, names) <=> Drained(l, R, names))
    BY <2>9, <2>10 DEF Drained
  <2> HIDE DEF found, decls
  <2>12. FoldedRange(l, members, p) = IF R # {} /\ Drained(l, R, names) THEN R ELSE {}
    BY <1>4, <2>3, <2>4 DEF FoldedRange, found, decls
  <2>13. FoldedRange(e, members, p) = IF R # {} /\ Drained(e, R, names) THEN R ELSE {}
    BY <1>1, <1>2, <1>4, <2>3, <2>5 DEF FoldedRange
  <2> QED BY <2>7, <2>11, <2>12, <2>13
<1> QED BY <1>3, <1>4

\* So it edits the same findings one by one, and removes the same lines, above X.
LEMMA MembersMirrored ==
  ASSUME NEW l, IsSequence(l), NEW e, NEW h, NEW X, NEW members,
         Mirrors(l, e, h, X, members), Clear(l, X, members)
  PROVE  /\ SingleFixes(e, members) = SingleFixes(l, members)
         /\ MemberDeleted(e, members) = MemberDeleted(l, members)
         /\ \A y \in MemberDeleted(l, members), x \in X : y < x
<1>1. /\ MemberFixes(e, members) = MemberFixes(l, members)
      /\ \A m \in MemberFixes(l, members) :
           m \in members /\ m.line \in DOMAIN e /\ h[m.line] = m.line
  BY FixesMirrored DEF MemberFixes
<1>2. \A m \in members :
        /\ FoldedRange(e, members, m.parent) = FoldedRange(l, members, m.parent)
        /\ \A i \in X, k \in FoldedRange(l, members, m.parent) : k < i
  BY FoldsMirrored
<1>3. SingleFixes(e, members) = SingleFixes(l, members)
  BY <1>1, <1>2 DEF SingleFixes
<1>4. SingleFixes(l, members) \subseteq MemberFixes(l, members)
  BY DEF SingleFixes
<1>5. \A m \in SingleFixes(l, members) : Braced(e[m.line]) <=> Braced(l[m.line])
  BY <1>1, <1>4 DEF Mirrors, Braced
<1>6. {i \in {m.line : m \in SingleFixes(e, members)} : ~Braced(e[i])}
        = {i \in {m.line : m \in SingleFixes(l, members)} : ~Braced(l[i])}
  BY <1>3, <1>5
<1>7. UNION {FoldedRange(e, members, m.parent) : m \in members}
        = UNION {FoldedRange(l, members, m.parent) : m \in members}
  BY <1>2
<1>8. MemberDeleted(e, members) = MemberDeleted(l, members)
  BY <1>6, <1>7 DEF MemberDeleted
<1>9. \A y \in MemberDeleted(l, members), x \in X : y < x
  <2> SUFFICES ASSUME NEW y \in MemberDeleted(l, members), NEW x \in X PROVE y < x
    OBVIOUS
  <2>1. CASE \E m \in members : y \in FoldedRange(l, members, m.parent)
    BY <1>2, <2>1
  <2>2. CASE \E m \in SingleFixes(l, members) : y = m.line
    BY <1>1, <1>4, <2>2 DEF Clear
  <2> QED BY <2>1, <2>2 DEF MemberDeleted
<1> QED BY <1>3, <1>8, <1>9

\* The two fixers of a source file are about different declarations, as the
\* analysis reports them.  A member is not on the line of an export list, and its
\* enum is not reported itself; an export that is an enum is reported under its
\* name.  The enum of a member is declared above the lines that the export fixer
\* removes, and these do not mention it.
Apart(lines, exports, members) ==
  /\ \A i \in DOMAIN lines : SourceLine(lines[i])
  /\ \A x \in exports :
       x.line \in DOMAIN lines /\ lines[x.line].form \in {"enum", "enumLine"}
         => x.name = lines[x.line].name
  /\ \A m \in members :
       /\ \A x \in exports : x.name # m.parent
       /\ m.line \in DOMAIN lines => lines[m.line].form # "list"
       /\ \A i \in ExportDeleted(lines, exports) : m.parent \notin lines[i].words
       /\ \A d \in DOMAIN lines : Declares(lines[d], m.parent) =>
            \A i \in ExportDeleted(lines, exports), k \in {d} \cup EnumRange(lines, d) : k < i

\* The export fixer changes an export list by names of its own, and the other lines
\* only in what is no enum of a member.
LEMMA ExportLines ==
  ASSUME NEW lines, IsSequence(lines), NEW exports, NEW members,
         Apart(lines, exports, members), NEW i \in DOMAIN lines,
         NEW new, new = ExportRewritten(lines, exports)[i]
  PROVE  /\ SourceLine(new) /\ new.form = lines[i].form /\ new.name = lines[i].name
         /\ lines[i].form # "list" => new.words = lines[i].words
         /\ \A m \in members :
              /\ m.parent \in new.words <=> m.parent \in lines[i].words
              /\ Declares(new, m.parent) <=> Declares(lines[i], m.parent)
<1>1. PICK line : line = lines[i] /\ SourceLine(line)
  BY DEF Apart
<1> DEFINE names == NamesAt(ExportFixes(lines, exports), i)
<1>2. new = IF names = {} THEN line
            ELSE IF line.form = "list" THEN [line EXCEPT !.words = @ \ names]
            ELSE [line EXCEPT !.export = FALSE]
  BY <1>1 DEF ExportRewritten
<1>3. \A m \in members : m.parent \notin names
  BY DEF NamesAt, ExportFixes, Apart
<1>4. line.form \in {"enum", "enumLine"} => \A p \in names : p = line.name
  BY <1>1 DEF NamesAt, ExportFixes, Apart
<1> HIDE DEF names
<1>5. CASE names = {}
  BY <1>1, <1>2, <1>5
<1>6. CASE names # {} /\ line.form = "list"
  <2>1. new = [id |-> line.id, export |-> line.export, form |-> line.form, name |-> line.name,
               words |-> line.words \ names]
    BY <1>1, <1>2, <1>6 DEF SourceLine
  <2>2. /\ SourceLine(new) /\ new.form = line.form /\ new.name = line.name
        /\ new.export = line.export /\ new.words = line.words \ names
    BY <2>1 DEF SourceLine
  <2> QED BY <1>1, <1>3, <1>6, <2>2 DEF Declares
<1>7. CASE names # {} /\ line.form # "list"
  <2>1. new = [id |-> line.id, export |-> FALSE, form |-> line.form, name |-> line.name,
               words |-> line.words]
    BY <1>1, <1>2, <1>7 DEF SourceLine
  <2>2. /\ SourceLine(new) /\ new.form = line.form /\ new.name = line.name
        /\ new.words = line.words /\ new.export = FALSE
    BY <2>1 DEF SourceLine
  <2>3. \A m \in members : ~Declares(line, m.parent)
    BY <1>3, <1>4, <1>7 DEF Declares
  <2>4. \A m \in members : ~Declares(new, m.parent)
    BY <2>2 DEF Declares
  <2> QED BY <1>1, <2>2, <2>3, <2>4
<1> QED BY <1>5, <1>6, <1>7

\* To the member fixer the rewritten exports are the file that the analysis read.
LEMMA RewrittenMirrors ==
  ASSUME NEW lines, IsSequence(lines), NEW exports, NEW members, Apart(lines, exports, members)
  PROVE  Mirrors(lines, ExportRewritten(lines, exports), [k \in DOMAIN lines |-> k], {}, members)
<1> DEFINE r == ExportRewritten(lines, exports)
           h == [k \in DOMAIN lines |-> k]
<1>1. DOMAIN r = DOMAIN lines
  BY RewrittenFacts
<1>2. DOMAIN lines \subseteq Nat
  BY SequenceFacts
<1>3. ASSUME NEW k \in DOMAIN r
      PROVE  /\ r[k].form = lines[h[k]].form /\ r[k].name = lines[h[k]].name
             /\ lines[h[k]].form # "list" => r[k].words = lines[h[k]].words
             /\ \A m \in members :
                  /\ m.parent \in r[k].words <=> m.parent \in lines[h[k]].words
                  /\ Declares(r[k], m.parent) <=> Declares(lines[h[k]], m.parent)
  <2>1. k \in DOMAIN lines /\ h[k] = k
    BY <1>1
  <2> HIDE DEF h
  <2>2. PICK new : new = r[k]
    OBVIOUS
  <2> QED BY <2>1, <2>2, ExportLines
<1>4. \A k \in DOMAIN lines : h[k] = k /\ k <= k
  BY <1>2
<1> HIDE DEF r, h
<1>5. Mirrors(lines, r, h, {}, members)
  BY <1>1, <1>2, <1>3, <1>4 DEF Mirrors
<1> QED BY <1>5 DEF r, h

\* And so is what the export fixer leaves, but for the lines that it removes.
LEMMA EditMirrors ==
  ASSUME NEW lines, IsSequence(lines), NEW exports, NEW members, Apart(lines, exports, members),
         NEW X, X = ExportDeleted(lines, exports), NEW K, K = DOMAIN lines \ X,
         NEW e, e = ExportEdit(lines, exports)
  PROVE  Mirrors(lines, e, [k \in DOMAIN e |-> Nth(K, k)], X, members)
<1> DEFINE r == ExportRewritten(lines, exports)
           h == [k \in DOMAIN e |-> Nth(K, k)]
<1>1. IsSequence(r) /\ DOMAIN r = DOMAIN lines
  BY RewrittenFacts
<1>2. Leaves(r, X, K, e)
  BY <1>1, DeleteFacts DEF ExportEdit
<1> HIDE DEF r
<1>3. DOMAIN lines \subseteq Nat /\ DOMAIN e \subseteq DOMAIN lines
  <2>1. PICK n \in Nat : DOMAIN lines = 1..n
    BY SequenceFacts
  <2>2. DOMAIN lines \subseteq Nat
    BY <2>1
  <2> QED BY <1>1, <1>2, <2>2 DEF Leaves
<1>4. ASSUME NEW k \in DOMAIN e
      PROVE  h[k] \in K /\ h[k] \in DOMAIN lines /\ k <= h[k] /\ e[k] = r[h[k]]
  BY <1>1, <1>2 DEF Leaves
<1>5. ASSUME NEW j \in DOMAIN e, NEW k \in DOMAIN e, h[j] = h[k] PROVE j = k
  <2>1. Nth(K, j) = Nth(K, k)
    BY <1>5
  <2>2. Rank(K, Nth(K, j)) = j /\ Rank(K, Nth(K, k)) = k
    BY <1>2, NthFacts DEF Leaves
  <2> QED BY <2>1, <2>2
<1>6. ASSUME NEW i \in DOMAIN lines PROVE i \in X \/ \E k \in DOMAIN e : h[k] = i
  <2>1. CASE i \in K
    <3>1. PICK k \in 1..Cardinality(K) : k = Rank(K, i) /\ Nth(K, k) = i
      BY <1>2, <2>1, NthFacts, RankIncreases DEF Leaves
    <3>2. k \in DOMAIN e
      BY <1>2 DEF Leaves
    <3> QED BY <3>1, <3>2
  <2> QED BY <2>1
<1>7. ASSUME NEW k \in DOMAIN lines, \A x \in X : k < x PROVE k \in DOMAIN e /\ h[k] = k
  BY <1>1, <1>2, <1>7 DEF Leaves
<1> HIDE DEF h
<1>8. ASSUME NEW k \in DOMAIN e
      PROVE  /\ e[k].form = lines[h[k]].form /\ e[k].name = lines[h[k]].name
             /\ lines[h[k]].form # "list" => e[k].words = lines[h[k]].words
             /\ \A m \in members :
                  /\ m.parent \in e[k].words <=> m.parent \in lines[h[k]].words
                  /\ Declares(e[k], m.parent) <=> Declares(lines[h[k]], m.parent)
  <2>1. PICK i \in DOMAIN lines : i = h[k]
    BY <1>4
  <2>2. PICK new : new = e[k] /\ new = r[i]
    BY <1>4, <2>1
  <2> QED BY <2>1, <2>2, ExportLines DEF r
<1>9. Mirrors(lines, e, h, X, members)
  BY <1>3, <1>4, <1>5, <1>6, <1>7, <1>8 DEF Mirrors
<1> QED BY <1>9 DEF h

\* The export and the member fixer one after the other do what both would do at
\* once to a file in which they are about different declarations.
LEMMA SourcesTogether ==
  ASSUME NEW lines, IsSequence(lines), NEW exports, NEW members, Apart(lines, exports, members),
         \A m \in members, i \in ExportDeleted(lines, exports) : m.line < i
  PROVE  MemberEdit(ExportEdit(lines, exports), members)
           = Delete(MemberRewritten(ExportRewritten(lines, exports), members),
                    ExportDeleted(lines, exports) \cup MemberDeleted(lines, members))
<1>1. PICK r : r = ExportRewritten(lines, exports)
  OBVIOUS
<1>2. PICK X : X = ExportDeleted(lines, exports)
  OBVIOUS
<1>3. PICK e : e = ExportEdit(lines, exports) /\ e = Delete(r, X)
  BY <1>1, <1>2 DEF ExportEdit
<1>4. PICK K : K = DOMAIN lines \ X
  OBVIOUS
<1>5. IsSequence(r) /\ DOMAIN r = DOMAIN lines
  BY <1>1, RewrittenFacts
<1>6. Leaves(r, X, K, e)
  BY <1>3, <1>4, <1>5, DeleteFacts
<1>7. PICK singles : singles = SingleFixes(lines, members)
  OBVIOUS
<1>8. PICK Y : Y = MemberDeleted(lines, members)
  OBVIOUS
<1>9. Clear(lines, X, members) /\ Clear(lines, {}, members)
  BY <1>2 DEF Apart, Clear
<1>10. SingleFixes(r, members) = singles
  <2>1. PICK h : h = [k \in DOMAIN lines |-> k]
    OBVIOUS
  <2>2. Mirrors(lines, r, h, {}, members)
    BY <1>1, <2>1, RewrittenMirrors
  <2> QED BY <1>7, <1>9, <2>2, MembersMirrored
<1>11. PICK h : h = [k \in DOMAIN e |-> Nth(K, k)]
  OBVIOUS
<1>12. Mirrors(lines, e, h, X, members)
  BY <1>2, <1>3, <1>4, <1>11, EditMirrors
<1>13. /\ SingleFixes(e, members) = singles /\ MemberDeleted(e, members) = Y
       /\ \A y \in Y, x \in X : y < x
  BY <1>7, <1>8, <1>9, <1>12, MembersMirrored
<1>14. \A m \in singles : m.line \in DOMAIN e /\ h[m.line] = m.line
  <2>1. singles \subseteq MemberFixes(lines, members)
    BY <1>7 DEF SingleFixes
  <2> QED BY <1>9, <1>12, <2>1, FixesMirrored
<1>15. ASSUME NEW k \in DOMAIN e PROVE NamesAt(singles, k) = NamesAt(singles, h[k])
  <2>1. \A m \in singles : m.line = k <=> m.line = h[k]
    BY <1>12, <1>14 DEF Mirrors
  <2> QED BY <2>1 DEF NamesAt
<1>16. PICK w : w = MemberRewritten(r, members)
  OBVIOUS
<1>17. IsSequence(w) /\ DOMAIN w = DOMAIN lines
  BY <1>5, <1>16, RewrittenFacts
<1>18. MemberRewritten(e, members) = Delete(w, X)
  <2>1. Delete(w, X) = [k \in 1..Cardinality(K) |-> w[Nth(K, k)]]
    BY <1>4, <1>17, DeleteKeeps
  <2>2. DOMAIN e = 1..Cardinality(K)
    BY <1>6 DEF Leaves
  <2>3. Delete(w, X) = [k \in DOMAIN e |-> w[h[k]]]
    BY <1>11, <2>1, <2>2
  <2>4. ASSUME NEW k \in DOMAIN e
        PROVE  w[h[k]] = IF Braced(e[k])
                         THEN [e[k] EXCEPT !.words = @ \ NamesAt(singles, k)] ELSE e[k]
    <3>1. PICK i \in DOMAIN r : i = h[k] /\ e[k] = r[i]
      BY <1>5, <1>6, <1>11, <1>12 DEF Mirrors, Leaves
    <3>2. w[i] = IF Braced(r[i])
                 THEN [r[i] EXCEPT !.words = @ \ NamesAt(singles, i)] ELSE r[i]
      BY <1>10, <1>16, <3>1 DEF MemberRewritten
    <3>3. NamesAt(singles, i) = NamesAt(singles, k)
      BY <1>15, <3>1
    <3> QED BY <3>1, <3>2, <3>3
  <2>5. MemberRewritten(e, members)
          = [k \in DOMAIN e |-> IF Braced(e[k])
                                THEN [e[k] EXCEPT !.words = @ \ NamesAt(singles, k)] ELSE e[k]]
    BY <1>13 DEF MemberRewritten
  <2> QED BY <2>3, <2>4, <2>5
<1>19. Delete(Delete(w, X), Y) = Delete(w, X \cup Y)
  BY <1>13, <1>17, DeleteTwice
<1>20. MemberEdit(e, members) = Delete(w, X \cup Y)
  BY <1>13, <1>18, <1>19 DEF MemberEdit
<1> QED BY <1>1, <1>2, <1>3, <1>8, <1>16, <1>20

\* What the export fixer leaves are source lines.
LEMMA EditLines ==
  ASSUME NEW lines, IsSequence(lines), NEW exports, NEW members, Apart(lines, exports, members)
  PROVE  /\ IsSequence(ExportEdit(lines, exports))
         /\ \A k \in DOMAIN ExportEdit(lines, exports) : SourceLine(ExportEdit(lines, exports)[k])
<1>1. PICK r : r = ExportRewritten(lines, exports)
  OBVIOUS
<1>2. PICK X : X = ExportDeleted(lines, exports)
  OBVIOUS
<1>3. PICK e : e = ExportEdit(lines, exports) /\ e = Delete(r, X)
  BY <1>1, <1>2 DEF ExportEdit
<1>4. IsSequence(r) /\ DOMAIN r = DOMAIN lines
  BY <1>1, RewrittenFacts
<1>5. PICK K : K = DOMAIN r \ X /\ Leaves(r, X, K, e)
  BY <1>3, <1>4, DeleteFacts
<1>6. ASSUME NEW k \in DOMAIN e PROVE SourceLine(e[k])
  <2>1. PICK i \in DOMAIN lines : e[k] = r[i]
    BY <1>4, <1>5 DEF Leaves
  <2>2. SourceLine(r[i])
    <3>1. PICK new : new = r[i]
      OBVIOUS
    <3> QED BY <1>1, <3>1, ExportLines
  <2> QED BY <2>1, <2>2
<1>7. IsSequence(e)
  BY <1>5 DEF Leaves
<1> QED BY <1>3, <1>6, <1>7

-----------------------------------------------------------------------------
(* The fixers hand their text on *)

\* The fixers of source file f are about different declarations.
Separate(f) == Apart(project.layout[f], project.exports[f], project.members[f])

\* What a file is once its first fixer has been there, and its second.
Once(f) ==
  IF f = Workspace THEN EntryEdit(project.layout[f], project.entries)
  ELSE ExportEdit(project.layout[f], project.exports[f])
Twice(f) ==
  IF f = Workspace THEN GroupEdit(Once(f), project.groups)
  ELSE MemberEdit(Once(f), project.members[f])

\* The fixers that have already been at file f.
FirstVisited(f) ==
  IF f = Workspace
  THEN pc \notin {"exports", "deps", "config", "members"} /\ ~(pc = "entries" /\ f \in todo)
  ELSE ExportsVisited(f)
SecondVisited(f) ==
  IF f = Workspace
  THEN /\ pc \notin {"exports", "deps", "config", "members", "entries"}
       /\ ~(pc = "groups" /\ f \in todo)
  ELSE MembersVisited(f)

\* What a file is after them.
SoFar(f) ==
  IF SecondVisited(f) THEN Twice(f) ELSE IF FirstVisited(f) THEN Once(f) ELSE project.layout[f]

\* Nothing keeps the fixers from file f, and they are about different parts of it.
Open(f) ==
  /\ f \notin early /\ f \notin passed
  /\ f \notin project.mixed /\ f \notin project.lowConfidence
  /\ hadWriteError = FALSE /\ dryRun = FALSE
  /\ f # Workspace => Separate(f)

\* Whatever comes between, each fixer reads what the analysis read or what the
\* fixer before it made of that.
HandOnInv ==
  \A f \in Targets \ {Package} :
    /\ f \in Paths => f \notin project.mixed
    /\ f \notin Paths /\ f \notin early => disk[f] = project.layout[f]
    /\ Open(f) => Content(f) = SoFar(f)

\* The files are sequences of lines, and the fixers leave them so.
LEMMA HandOnLines ==
  ASSUME TypeOK, NEW f \in Targets, f # Workspace => Separate(f)
  PROVE  /\ IsSequence(project.layout[f]) /\ IsSequence(Once(f))
         /\ f # Workspace => \A k \in DOMAIN Once(f) : SourceLine(Once(f)[k])
<1>1. PICK l : l = project.layout[f] /\ IsSequence(l)
  BY ProjectsAssumption DEF TypeOK
<1>2. CASE f = Workspace
  <2>1. IsSequence(EntryRewritten(l, project.entries))
    BY <1>1, RewrittenFacts
  <2>2. IsSequence(EntryEdit(l, project.entries))
    BY <2>1, DeleteFacts DEF EntryEdit, Leaves
  <2> QED BY <1>1, <1>2, <2>2 DEF Once
<1>3. CASE f # Workspace
  <2>1. Apart(l, project.exports[f], project.members[f])
    BY <1>1, <1>3 DEF Separate
  <2>2. PICK e : e = ExportEdit(l, project.exports[f])
    OBVIOUS
  <2>3. IsSequence(e) /\ \A k \in DOMAIN e : SourceLine(e[k])
    BY <1>1, <2>1, <2>2, EditLines
  <2>4. Once(f) = e
    BY <1>1, <1>3, <2>2 DEF Once
  <2> QED BY <1>1, <2>3, <2>4
<1> QED BY <1>2, <1>3

\* Two fixers one after the other, or both at once.
LEMMA TwiceIsReference ==
  ASSUME TypeOK, NEW f \in Targets, f # Workspace => Separate(f), Unshifted(f)
  PROVE  Twice(f) = Reference(f)
<1>1. PICK l : l = project.layout[f] /\ IsSequence(l)
  BY ProjectsAssumption DEF TypeOK
<1>2. CASE f = Workspace
  <2>1. \A g \in project.groups, i \in EntryDeleted(l, project.entries) : g.line < i
    BY <1>1, <1>2 DEF Unshifted
  <2>2. GroupEdit(EntryEdit(l, project.entries), project.groups)
          = Delete(EntryRewritten(l, project.entries),
                   EntryDeleted(l, project.entries) \cup GroupDeleted(l, project.groups))
    BY <1>1, <2>1, CatalogsTogether
  <2> QED BY <1>1, <1>2, <2>2 DEF Twice, Once, Reference
<1>3. CASE f # Workspace
  <2>1. PICK xs : xs = project.exports[f]
    OBVIOUS
  <2>2. PICK ms : ms = project.members[f]
    OBVIOUS
  <2>3. Apart(l, xs, ms) /\ \A m \in ms, i \in ExportDeleted(l, xs) : m.line < i
    BY <1>1, <1>3, <2>1, <2>2 DEF Separate, Unshifted
  <2>4. MemberEdit(ExportEdit(l, xs), ms)
          = Delete(MemberRewritten(ExportRewritten(l, xs), ms),
                   ExportDeleted(l, xs) \cup MemberDeleted(l, ms))
    BY <1>1, <2>3, SourcesTogether
  <2> QED BY <1>1, <1>3, <2>1, <2>2, <2>4 DEF Twice, Once, Reference
<1> QED BY <1>2, <1>3

\* A fixer that has no finding in a file would leave it as it is.
LEMMA IdleVisits ==
  ASSUME TypeOK, NEW f \in Targets \ {Package}, f # Workspace => Separate(f)
  PROVE  /\ f = Workspace /\ f \notin Work("entries") => Once(f) = project.layout[f]
         /\ f = Workspace /\ f \notin Work("groups") => Twice(f) = Once(f)
         /\ f # Workspace /\ f \notin Work("exports") => Once(f) = project.layout[f]
         /\ f # Workspace /\ f \notin Work("members") => Twice(f) = Once(f)
<1>1. PICK l : l = project.layout[f] /\ IsSequence(l)
  BY HandOnLines
<1>2. PICK e : e = Once(f) /\ IsSequence(e)
  BY HandOnLines
<1>3. /\ ExportFixes(l, {}) = {} /\ EntryFixes(l, {}) = {}
      /\ GroupFixes(e, {}) = {} /\ MemberFixes(e, {}) = {}
  BY DEF ExportFixes, EntryFixes, GroupFixes, MemberFixes
<1>4. ExportEdit(l, {}) = l /\ EntryEdit(l, {}) = l /\ GroupEdit(e, {}) = e
  BY <1>1, <1>2, <1>3, IdleEdits
<1>5. f # Workspace => MemberEdit(e, {}) = e
  BY <1>2, <1>3, HandOnLines, IdleEdits
<1>6. f # Workspace => f \in SourceFiles
  BY DEF Targets
<1> QED BY <1>1, <1>2, <1>4, <1>5, <1>6 DEF Work, Once, Twice

\* The text that is staged for a planned file is that of its one entry.
LEMMA StagedEntry ==
  ASSUME \A i, j \in DOMAIN plan : plan[i].path = plan[j].path => i = j, NEW k \in DOMAIN plan
  PROVE  Staged(plan[k].path) = plan[k].content
<1>1. PICK c : c = CHOOSE i \in DOMAIN plan : plan[i].path = plan[k].path
  OBVIOUS
<1>2. c \in DOMAIN plan /\ plan[c].path = plan[k].path
  BY <1>1, Zenon
<1>3. c = k
  BY <1>2
<1> QED BY <1>1, <1>3 DEF Staged

\* FixPlan::stage replaces the text of one file.
LEMMA StageContent ==
  ASSUME TypeOK, NEW f \in Targets, NEW content, Stage(f, content), UNCHANGED disk
  PROVE  /\ Content(f)' = content
         /\ \A g \in Targets \ {f} : Content(g)' = Content(g) /\ (g \in Paths' <=> g \in Paths)
<1>1. IsSequence(plan) /\ \A i, j \in DOMAIN plan : plan[i].path = plan[j].path => i = j
  BY DEF TypeOK
<1>2. DOMAIN plan = 1..Len(plan) /\ Len(plan) \in Nat
  BY <1>1, SequenceFacts
<1>3. /\ Paths' = Paths \cup {f}
      /\ \A i, j \in DOMAIN plan' : plan'[i].path = plan'[j].path => i = j
  BY StageFacts
<1>4. ASSUME NEW p, NEW k \in DOMAIN plan', plan'[k].path = p PROVE Staged(p)' = plan'[k].content
  <2>1. PICK c : c = CHOOSE i \in DOMAIN plan' : plan'[i].path = p
    OBVIOUS
  <2>2. c \in DOMAIN plan' /\ plan'[c].path = p
    BY <1>4, <2>1, Zenon
  <2>3. c = k
    BY <1>3, <1>4, <2>2
  <2> QED BY <2>1, <2>3 DEF Staged
<1>5. /\ \E k \in DOMAIN plan' : plan'[k].path = f /\ plan'[k].content = content
      /\ \A i \in DOMAIN plan : plan[i].path # f =>
           i \in DOMAIN plan' /\ plan'[i].path = plan[i].path /\ plan'[i].content = plan[i].content
  <2>1. CASE f \in Paths
    <3>1. plan' = [i \in DOMAIN plan |->
                    IF plan[i].path = f THEN [plan[i] EXCEPT !.content = content] ELSE plan[i]]
      BY <2>1 DEF Stage
    <3>2. PICK k \in DOMAIN plan : plan[k].path = f
      BY <2>1 DEF Paths
    <3>3. PICK old : old = plan[k]
      OBVIOUS
    <3>4. plan'[k] = [old EXCEPT !.content = content] /\ k \in DOMAIN plan'
      BY <3>1, <3>2, <3>3
    <3>5. plan'[k].path = f
      BY <3>2, <3>3, <3>4
    <3> QED BY <3>1, <3>4, <3>5
  <2>2. CASE f \notin Paths
    <3> DEFINE new == [path |-> f, content |-> content]
    <3>1. plan' = Append(plan, new)
      BY <2>2 DEF Stage
    <3>2. new.path = f /\ new.content = content
      OBVIOUS
    <3> HIDE DEF new
    <3>3. /\ IsSequence(plan') /\ Len(plan') = Len(plan) + 1
          /\ plan'[Len(plan) + 1] = new /\ \A i \in DOMAIN plan : plan'[i] = plan[i]
      BY <1>1, <3>1, OneMoreLast
    <3>4. DOMAIN plan' = 1..(Len(plan) + 1)
      BY <3>3, SequenceFacts
    <3>5. DOMAIN plan \subseteq DOMAIN plan' /\ Len(plan) + 1 \in DOMAIN plan'
      BY <1>2, <3>4
    <3> QED BY <3>2, <3>3, <3>5
  <2> QED BY <2>1, <2>2
<1>6. Content(f)' = content
  <2>1. Staged(f)' = content
    BY <1>4, <1>5
  <2> QED BY <1>3, <2>1 DEF Content
<1>7. ASSUME NEW g \in Targets \ {f}
      PROVE  Content(g)' = Content(g) /\ (g \in Paths' <=> g \in Paths)
  <2>1. g \in Paths' <=> g \in Paths
    BY <1>3
  <2>2. ASSUME g \in Paths PROVE Staged(g)' = Staged(g)
    <3>1. PICK i \in DOMAIN plan : plan[i].path = g
      BY <2>2 DEF Paths
    <3>2. Staged(g) = plan[i].content
      BY <1>1, <3>1, StagedEntry
    <3>3. i \in DOMAIN plan' /\ plan'[i].path = g /\ plan'[i].content = plan[i].content
      BY <1>5, <3>1
    <3>4. Staged(g)' = plan'[i].content
      BY <1>4, <3>3
    <3> QED BY <3>2, <3>3, <3>4
  <2> QED BY <2>1, <2>2 DEF Content
<1> QED BY <1>6, <1>7

\* A fixer that is not kept from a file leaves it edited.
LEMMA RewriteContent ==
  ASSUME TypeOK, NEW f \in Targets, NEW found, NEW edited,
         \/ Rewrite(f, found, edited)
         \/ RewriteYaml(f, found, edited) /\ hadWriteError' = FALSE,
         Refused(f) = {}, dryRun = FALSE, found = {} => edited = Content(f), UNCHANGED disk
  PROVE  Content(f)' = edited
<1>1. CASE found = {}
  <2>1. UNCHANGED plan
    BY <1>1 DEF Rewrite, RewriteYaml, Nothing
  <2>2. Content(f)' = Content(f)
    BY <2>1 DEF Content, Staged, Paths
  <2> QED BY <1>1, <2>2
<1>2. CASE found # {}
  <2>1. Apply(f, edited)
    BY <1>2 DEF Rewrite, RewriteYaml
  <2>2. Stage(f, edited)
    BY <2>1 DEF Apply
  <2> QED BY <2>2, StageContent
<1> QED BY <1>1, <1>2

\* One visit: the file visited is edited by one more fixer, the others are as before.
LEMMA VisitHandsOn ==
  ASSUME FixInv, HandOnInv, NEW f \in Targets, FileVisited(f) PROVE HandOnInv'
<1>0. TypeOK /\ dryRun \in BOOLEAN /\ hadWriteError \in BOOLEAN /\ todo \subseteq Work(pc)
  BY DEF FixInv, TypeOK
<1>1. /\ pc \in DOMAIN After /\ f \in todo /\ todo' = todo \ {f}
      /\ UNCHANGED <<project, dryRun, passed, disk, early, pc>>
      /\ UNCHANGED plan \/ \E content : Stage(f, content)
  BY VisitFacts
<1>2. hadWriteError' = FALSE => hadWriteError = FALSE
  BY <1>0 DEF FileVisited, ExportFile, DependencyFile, MemberFile, EntryFile, GroupFile,
          Rewrite, RewriteYaml, Skip, Apply, Nothing
<1>3. \A g : Once(g)' = Once(g) /\ Twice(g)' = Twice(g) /\ Separate(g)' = Separate(g)
  BY <1>1 DEF Once, Twice, Separate
<1>4. ASSUME NEW g \in Targets \ {f}
      PROVE  Content(g)' = Content(g) /\ (g \in Paths' <=> g \in Paths)
  <2>1. CASE UNCHANGED plan
    BY <1>1, <2>1 DEF Content, Staged, Paths
  <2>2. ASSUME NEW content, Stage(f, content)
        PROVE  Content(g)' = Content(g) /\ (g \in Paths' <=> g \in Paths)
    BY <1>0, <1>1, <2>2, StageContent
  <2> QED BY <1>1, <2>1, <2>2
<1>5. ASSUME NEW g \in Targets \ {Package, f}
      PROVE  /\ g \in Paths' => g \notin project'.mixed
             /\ g \notin Paths' /\ g \notin early' => disk'[g] = project'.layout[g]
             /\ Open(g)' => Content(g)' = SoFar(g)'
  <2>1. SoFar(g)' = SoFar(g)
    BY <1>1, <1>3 DEF SoFar, FirstVisited, SecondVisited, ExportsVisited, MembersVisited
  <2>2. Open(g)' => Open(g)
    BY <1>1, <1>2, <1>3 DEF Open
  <2> QED BY <1>1, <1>4, <2>1, <2>2 DEF HandOnInv
<1>6. ASSUME f # Package
      PROVE  /\ f \in Paths' => f \notin project'.mixed
             /\ f \notin Paths' /\ f \notin early' => disk'[f] = project'.layout[f]
             /\ Open(f)' => Content(f)' = SoFar(f)'
  <2>1. /\ f \in Paths => f \notin project.mixed
        /\ f \notin Paths /\ f \notin early => disk[f] = project.layout[f]
        /\ Open(f) => Content(f) = SoFar(f)
    BY <1>6 DEF HandOnInv
  <2>2. ~DependencyFile(f)
    BY <1>0, <1>6, WorkFacts DEF DependencyFile, Visit
  <2>3. f \in Paths' => f \notin project'.mixed
    <3>1. CASE UNCHANGED plan
      BY <1>1, <2>1, <3>1 DEF Paths
    <3>2. CASE plan' # plan
      <4>1. f \in Paths \/ Refused(f) = {}
        BY <2>2, <3>2 DEF FileVisited, ExportFile, MemberFile, EntryFile, GroupFile, Rewrite,
               RewriteYaml, Skip
      <4> QED BY <1>1, <2>1, <4>1 DEF Refused
    <3> QED BY <3>1, <3>2
  <2>4. f \notin Paths' /\ f \notin early' => disk'[f] = project'.layout[f]
    <3>1. f \in Paths => f \in Paths'
      BY VisitKeeps
    <3> QED BY <1>1, <2>1, <3>1
  <2>5. ASSUME Open(f)' PROVE Content(f)' = SoFar(f)'
    <3>1. Open(f) /\ hadWriteError' = FALSE
      BY <1>1, <1>2, <1>3, <2>5 DEF Open
    <3>2. Content(f) = SoFar(f) /\ dryRun = FALSE /\ f \notin project.lowConfidence
      BY <2>1, <3>1 DEF Open
    <3>3. Refused(f) = {}
      BY <2>1, <3>1 DEF Refused, Open
    <3>4. f # Workspace => Separate(f)
      BY <3>1 DEF Open
    <3>5. /\ IsSequence(project.layout[f]) /\ IsSequence(Once(f))
          /\ f # Workspace => \A k \in DOMAIN Once(f) : SourceLine(Once(f)[k])
      BY <1>0, <3>4, HandOnLines
    <3>6. PICK c : c = Content(f)
      OBVIOUS
    <3>7. CASE ExportFile(f)
      <4>1. f # Workspace /\ pc = "exports"
        BY <1>0, <1>1, <3>7, WorkFacts, ProjectsAssumption DEF ExportFile, Visit
      <4>2. SoFar(f) = project.layout[f] /\ SoFar(f)' = Once(f)
        BY <1>1, <1>3, <4>1 DEF SoFar, FirstVisited, SecondVisited, ExportsVisited, MembersVisited
      <4>3. PICK xs : xs = project.exports[f]
        OBVIOUS
      <4>4. ExportFixes(c, xs) = {} => ExportEdit(c, xs) = c
        BY <3>2, <3>5, <3>6, <4>2, IdleEdits
      <4>5. Rewrite(f, ExportFixes(c, xs), ExportEdit(c, xs))
        BY <3>2, <3>6, <3>7, <4>3 DEF ExportFile
      <4>6. Content(f)' = ExportEdit(c, xs)
        BY <1>0, <1>1, <3>2, <3>3, <3>6, <4>4, <4>5, RewriteContent
      <4> QED BY <3>2, <3>6, <4>1, <4>2, <4>3, <4>6 DEF Once
    <3>8. CASE MemberFile(f)
      <4>1. f # Workspace /\ pc = "members"
        BY <1>0, <1>1, <3>8, WorkFacts, ProjectsAssumption DEF MemberFile, Visit
      <4>2. SoFar(f) = Once(f) /\ SoFar(f)' = Twice(f)
        BY <1>1, <1>3, <4>1 DEF SoFar, FirstVisited, SecondVisited, ExportsVisited, MembersVisited
      <4>3. PICK ms : ms = project.members[f]
        OBVIOUS
      <4>4. MemberFixes(c, ms) = {} => MemberEdit(c, ms) = c
        BY <3>2, <3>5, <3>6, <4>1, <4>2, IdleEdits
      <4>5. Rewrite(f, MemberFixes(c, ms), MemberEdit(c, ms))
        BY <3>6, <3>8, <4>3 DEF MemberFile
      <4>6. Content(f)' = MemberEdit(c, ms)
        BY <1>0, <1>1, <3>2, <3>3, <3>6, <4>4, <4>5, RewriteContent
      <4> QED BY <3>2, <3>6, <4>1, <4>2, <4>3, <4>6 DEF Twice
    <3>9. CASE EntryFile(f)
      <4>1. f = Workspace /\ pc = "entries"
        BY <1>0, <1>1, <3>9, WorkFacts DEF EntryFile, Visit
      <4>2. SoFar(f) = project.layout[f] /\ SoFar(f)' = Once(f)
        BY <1>1, <1>3, <4>1 DEF SoFar, FirstVisited, SecondVisited
      <4>3. PICK es : es = project.entries
        OBVIOUS
      <4>4. EntryFixes(c, es) = {} => EntryEdit(c, es) = c
        BY <3>2, <3>5, <3>6, <4>2, IdleEdits
      <4>5. RewriteYaml(f, EntryFixes(c, es), EntryEdit(c, es))
        BY <3>6, <3>9, <4>3 DEF EntryFile
      <4>6. Content(f)' = EntryEdit(c, es)
        BY <1>0, <1>1, <3>1, <3>2, <3>3, <3>6, <4>4, <4>5, RewriteContent
      <4> QED BY <3>2, <3>6, <4>1, <4>2, <4>3, <4>6 DEF Once
    <3>10. CASE GroupFile(f)
      <4>1. f = Workspace /\ pc = "groups"
        BY <1>0, <1>1, <3>10, WorkFacts DEF GroupFile, Visit
      <4>2. SoFar(f) = Once(f) /\ SoFar(f)' = Twice(f)
        BY <1>1, <1>3, <4>1 DEF SoFar, FirstVisited, SecondVisited
      <4>3. PICK gs : gs = project.groups
        OBVIOUS
      <4>4. GroupFixes(c, gs) = {} => GroupEdit(c, gs) = c
        BY <3>2, <3>5, <3>6, <4>2, IdleEdits
      <4>5. RewriteYaml(f, GroupFixes(c, gs), GroupEdit(c, gs))
        BY <3>6, <3>10, <4>3 DEF GroupFile
      <4>6. Content(f)' = GroupEdit(c, gs)
        BY <1>0, <1>1, <3>1, <3>2, <3>3, <3>6, <4>4, <4>5, RewriteContent
      <4> QED BY <3>2, <3>6, <4>1, <4>2, <4>3, <4>6 DEF Twice
    <3> QED BY <2>2, <3>7, <3>8, <3>9, <3>10 DEF FileVisited
  <2> QED BY <2>3, <2>4, <2>5
<1>7. Targets' = Targets
  BY DEF Targets
<1> QED BY <1>5, <1>6, <1>7 DEF HandOnInv

\* A file that cannot be read is not open any more.
LEMMA PassOverHandsOn ==
  ASSUME FixInv, HandOnInv, NEW f \in Targets, PassOver(f) PROVE HandOnInv'
<1>1. /\ todo' = todo \ {f} /\ passed' = passed \cup {f}
      /\ UNCHANGED <<project, dryRun, disk, early, pc, plan, hadWriteError>>
  BY DEF PassOver, Nothing, editor
<1>2. \A g : Once(g)' = Once(g) /\ Twice(g)' = Twice(g) /\ Separate(g)' = Separate(g)
  BY <1>1 DEF Once, Twice, Separate
<1>3. \A g : Content(g)' = Content(g) /\ (g \in Paths' <=> g \in Paths)
  BY <1>1 DEF Content, Staged, Paths
<1>4. \A g : Open(g)' => Open(g) /\ g # f
  BY <1>1, <1>2 DEF Open
<1>5. \A g : g # f => SoFar(g)' = SoFar(g)
  BY <1>1, <1>2 DEF SoFar, FirstVisited, SecondVisited, ExportsVisited, MembersVisited
<1> QED BY <1>1, <1>3, <1>4, <1>5 DEF HandOnInv, Targets

\* Between the fixers: a fixer without findings in a file counts as one that has
\* been there.
LEMMA PassHandsOn ==
  ASSUME FixInv, HandOnInv, EndPass \/ ConfigFix PROVE HandOnInv'
<1>0. TypeOK /\ dryRun \in BOOLEAN /\ hadWriteError \in BOOLEAN
  BY DEF FixInv, TypeOK
<1>1. /\ UNCHANGED <<project, dryRun, passed, disk, early, plan>> /\ todo' = Work(pc)'
      /\ \/ pc \in DOMAIN After /\ todo = {} /\ pc' = After[pc]
         \/ pc = "config" /\ pc' = "members"
      /\ hadWriteError' = FALSE => hadWriteError = FALSE
  BY <1>0 DEF EndPass, ConfigFix, run, editor, Work
<1>2. \A g : Once(g)' = Once(g) /\ Twice(g)' = Twice(g) /\ Separate(g)' = Separate(g)
  BY <1>1 DEF Once, Twice, Separate
<1>3. \A g : Content(g)' = Content(g) /\ (g \in Paths' <=> g \in Paths)
  BY <1>1 DEF Content, Staged, Paths
<1>4. Work("exports")' = Work("exports") /\ Work("members")' = Work("members")
      /\ Work("entries")' = Work("entries") /\ Work("groups")' = Work("groups")
  BY <1>1 DEF Work
<1> SUFFICES ASSUME NEW g \in Targets \ {Package}
             PROVE  /\ g \in Paths' => g \notin project'.mixed
                    /\ g \notin Paths' /\ g \notin early' => disk'[g] = project'.layout[g]
                    /\ Open(g)' => Content(g)' = SoFar(g)'
  BY DEF HandOnInv, Targets
<1>5. Open(g)' => Open(g)
  BY <1>1, <1>2 DEF Open
<1>6. ASSUME Open(g) PROVE SoFar(g)' = SoFar(g)
  <2>1. /\ g = Workspace /\ g \notin Work("entries") => Once(g) = project.layout[g]
        /\ g = Workspace /\ g \notin Work("groups") => Twice(g) = Once(g)
        /\ g # Workspace /\ g \notin Work("members") => Twice(g) = Once(g)
    BY <1>0, <1>6, IdleVisits DEF Open
  <2>2. CASE g # Workspace
    <3>1. ExportsVisited(g)' /\ (pc = "exports" => todo = {})
      BY <1>1 DEF ExportsVisited, After
    <3>2. ExportsVisited(g)
      BY <3>1 DEF ExportsVisited
    <3>3. CASE pc = "config"
      <4>1. ~MembersVisited(g) /\ (MembersVisited(g)' <=> g \notin Work("members"))
        BY <1>1, <1>4, <3>3 DEF MembersVisited, After
      <4> QED BY <1>2, <2>1, <2>2, <3>1, <3>2, <4>1 DEF SoFar, FirstVisited, SecondVisited
    <3>4. CASE pc # "config"
      <4>1. MembersVisited(g)' <=> MembersVisited(g)
        BY <1>1, <3>4 DEF MembersVisited, After
      <4> QED BY <1>2, <2>2, <3>1, <3>2, <4>1 DEF SoFar, FirstVisited, SecondVisited
    <3> QED BY <3>3, <3>4
  <2>3. CASE g = Workspace
    <3>1. CASE pc \in {"exports", "deps", "config"}
      <4>1. pc' \in {"deps", "config", "members"}
        BY <1>1, <3>1 DEF After
      <4> QED BY <1>1, <2>3, <3>1, <4>1 DEF SoFar, FirstVisited, SecondVisited
    <3>2. CASE pc = "members"
      <4>1. pc' = "entries" /\ todo' = Work("entries")
        BY <1>1, <1>4, <3>2 DEF After
      <4> QED BY <1>1, <1>2, <2>1, <2>3, <3>2, <4>1 DEF SoFar, FirstVisited, SecondVisited
    <3>3. CASE pc = "entries"
      <4>1. pc' = "groups" /\ todo' = Work("groups") /\ todo = {}
        BY <1>1, <1>4, <3>3 DEF After
      <4> QED BY <1>1, <1>2, <2>1, <2>3, <3>3, <4>1 DEF SoFar, FirstVisited, SecondVisited
    <3>4. CASE pc = "groups"
      <4>1. pc' = "commit" /\ todo = {}
        BY <1>1, <3>4 DEF After
      <4> QED BY <1>1, <1>2, <2>3, <3>4, <4>1 DEF SoFar, FirstVisited, SecondVisited
    <3> QED BY <1>1, <3>1, <3>2, <3>3, <3>4 DEF After
  <2> QED BY <2>2, <2>3
<1> QED BY <1>1, <1>3, <1>5, <1>6 DEF HandOnInv

\* The commit and the report: every fixer has been everywhere, and a rename only
\* touches planned files.
LEMMA CommitHandsOn ==
  ASSUME FixInv, HandOnInv, BeginCommit \/ StageOne \/ StageFails \/ Rename \/ Report
  PROVE  HandOnInv'
<1>0. TypeOK /\ dryRun \in BOOLEAN /\ hadWriteError \in BOOLEAN /\ temps \subseteq Paths
  BY DEF FixInv, TypeOK
<1> DEFINE Late == {"commit", "stage", "rename", "report", "done"}
<1>1. /\ UNCHANGED <<project, dryRun, passed, early, plan>> /\ pc \in Late /\ pc' \in Late
      /\ hadWriteError' = FALSE => hadWriteError = FALSE
  BY <1>0 DEF BeginCommit, StageOne, StageFails, Rename, Report, run, editor
<1>2. ASSUME NEW g \in Targets, g \notin Paths PROVE disk'[g] = disk[g]
  <2>1. CASE BeginCommit \/ StageOne \/ StageFails \/ Report
    BY <2>1 DEF BeginCommit, StageOne, StageFails, Report, editor
  <2>2. CASE Rename
    <3>1. temps # {}
      BY <2>2 DEF FixInv, CommitInv, Rename
    <3>2. PICK p : p = NextPath /\ p \in temps
      BY <1>0, <3>1, NextPathFacts
    <3>3. UNCHANGED disk \/ disk' = [disk EXCEPT ![p] = Staged(p)]
      BY <2>2, <3>2 DEF Rename
    <3>4. g # p /\ g \in DOMAIN disk
      BY <1>0, <1>2, <3>2 DEF TypeOK
    <3> QED BY <3>3, <3>4
  <2> QED BY <2>1, <2>2
<1>3. \A g : Once(g)' = Once(g) /\ Twice(g)' = Twice(g) /\ Separate(g)' = Separate(g)
  BY <1>1 DEF Once, Twice, Separate
<1>4. \A g \in Targets : Content(g)' = Content(g) /\ (g \in Paths' <=> g \in Paths)
  BY <1>1, <1>2 DEF Content, Staged, Paths
<1>5. \A g : Open(g)' => Open(g)
  BY <1>1, <1>3 DEF Open
<1>6. \A g : SoFar(g)' = SoFar(g)
  BY <1>1, <1>3 DEF SoFar, SecondVisited, MembersVisited
<1> QED BY <1>1, <1>2, <1>4, <1>5, <1>6 DEF HandOnInv, Targets

\* A save changes the text of a file that is not planned, which then is not open.
LEMMA SaveHandsOn ==
  ASSUME FixInv, HandOnInv, NEW f \in Targets, Save(f) PROVE HandOnInv'
<1>1. /\ UNCHANGED <<project, dryRun, passed, plan, pc, todo, hadWriteError>>
      /\ early' = IF f \in Paths THEN early ELSE early \cup {f}
      /\ \A g \in Targets \ {f} : disk'[g] = disk[g]
  BY DEF Save, run, FixInv, TypeOK
<1>2. \A g : Once(g)' = Once(g) /\ Twice(g)' = Twice(g) /\ Separate(g)' = Separate(g)
  BY <1>1 DEF Once, Twice, Separate
<1>3. \A g \in Targets :
        /\ g \in Paths' <=> g \in Paths
        /\ g \in Paths \/ g # f => Content(g)' = Content(g)
  BY <1>1 DEF Content, Staged, Paths
<1>4. \A g \in Targets : Open(g)' => Open(g) /\ (g \in Paths \/ g # f)
  BY <1>1, <1>2 DEF Open
<1>5. \A g : SoFar(g)' = SoFar(g)
  BY <1>1, <1>2 DEF SoFar, FirstVisited, SecondVisited, ExportsVisited, MembersVisited
<1> QED BY <1>1, <1>3, <1>4, <1>5 DEF HandOnInv, Targets

\* Nothing has happened at first.
LEMMA HandOnInit == Init => HandOnInv
<1> SUFFICES ASSUME Init, NEW f \in Targets \ {Package}
             PROVE  /\ f \in Paths => f \notin project.mixed
                    /\ f \notin Paths /\ f \notin early => disk[f] = project.layout[f]
                    /\ Open(f) => Content(f) = SoFar(f)
  BY DEF HandOnInv
<1>1. TypeOK
  BY FixInit DEF FixInv
<1>2. Paths = {} /\ disk = project.layout /\ pc = "exports" /\ todo = Work("exports")
  BY DEF Init, Paths
<1>3. Content(f) = project.layout[f]
  BY <1>2 DEF Content
<1>4. ASSUME Open(f) PROVE SoFar(f) = project.layout[f]
  <2>1. f # Workspace /\ f \notin Work("exports") => Once(f) = project.layout[f]
    BY <1>1, <1>4, IdleVisits DEF Open
  <2> QED BY <1>2, <2>1 DEF SoFar, FirstVisited, SecondVisited, ExportsVisited, MembersVisited
<1> QED BY <1>2, <1>3, <1>4

\* Every step.
LEMMA HandOnStep == FixInv /\ HandOnInv /\ [Next]_vars => HandOnInv'
<1> SUFFICES ASSUME FixInv, HandOnInv, [Next]_vars PROVE HandOnInv'
  OBVIOUS
<1>1. CASE UNCHANGED vars
  <2>1. UNCHANGED <<project, dryRun, passed, disk, early, plan, pc, todo, hadWriteError>>
    BY <1>1 DEF vars
  <2>2. \A g : Once(g)' = Once(g) /\ Twice(g)' = Twice(g) /\ Separate(g)' = Separate(g)
    BY <2>1 DEF Once, Twice, Separate
  <2>3. \A g : Content(g)' = Content(g) /\ (g \in Paths' <=> g \in Paths)
    BY <2>1 DEF Content, Staged, Paths
  <2>4. \A g : (Open(g)' => Open(g)) /\ SoFar(g)' = SoFar(g)
    BY <2>1, <2>2 DEF Open, SoFar, FirstVisited, SecondVisited, ExportsVisited, MembersVisited
  <2> QED BY <2>1, <2>3, <2>4 DEF HandOnInv, Targets
<1>2. ASSUME NEW f \in Targets, FileVisited(f) \/ PassOver(f) \/ Save(f) PROVE HandOnInv'
  BY <1>2, VisitHandsOn, PassOverHandsOn, SaveHandsOn
<1>3. CASE EndPass \/ ConfigFix
  BY <1>3, PassHandsOn
<1>4. CASE BeginCommit \/ StageOne \/ StageFails \/ Rename \/ Report
  BY <1>4, CommitHandsOn
<1> QED BY <1>1, <1>2, <1>3, <1>4 DEF Next, FileVisited

\* Where the fixers of a file have all been, and it is planned, what will replace it
\* is all findings applied at once: without a condition for the workspace file,
\* and for a source file when its two fixers are about different declarations.
LEMMA PlannedLands ==
  ASSUME FixInv, HandOnInv, pc \in {"commit", "stage", "rename", "report", "done"},
         NEW f \in Paths \ {Package}, f # Workspace => Separate(f),
         Unshifted(f), f \notin early, f \notin passed, f \notin project.lowConfidence,
         ~hadWriteError
  PROVE  Staged(f) = Reference(f)
<1>1. TypeOK /\ dryRun \in BOOLEAN /\ hadWriteError \in BOOLEAN /\ f \in Targets \ {Package}
  BY DEF FixInv, TypeOK
<1>2. dryRun = FALSE
  BY <1>1 DEF FixInv, StageInv, Paths
<1>3. hadWriteError = FALSE
  BY <1>1
<1>4. Open(f)
  BY <1>1, <1>2, <1>3 DEF Open, HandOnInv
<1>5. Staged(f) = SoFar(f)
  BY <1>1, <1>4 DEF HandOnInv, Content
<1>6. SoFar(f) = Twice(f)
  BY DEF SoFar, SecondVisited, MembersVisited
<1> QED BY <1>1, <1>5, <1>6, TwiceIsReference

\* The stages are kept together with the inductive invariant.
LEMMA HandOnInvariant == Spec => []HandOnInv
BY HandOnInit, HandOnStep, FixInvariant, PTL DEF Spec

\* The fixes of two fixers land together, each on the text the analysis found it in,
\* and nothing else changes, however saves and failures interleave with them: in
\* the workspace file of every project, and in the source files of those in which
\* the export and the member fixer are about different declarations.
THEOREM FixesLand == Spec => []((\A f \in SourceFiles : Separate(f)) => LandsAsAnalysed)
<1>1. FixInv /\ HandOnInv => ((\A f \in SourceFiles : Separate(f)) => LandsAsAnalysed)
  <2> SUFFICES ASSUME FixInv, HandOnInv, \A f \in SourceFiles : Separate(f),
                      pc \in {"commit", "stage", "rename", "report", "done"},
                      NEW f \in Paths \ {Package},
                      Unshifted(f), f \notin early, f \notin passed, f \notin project.lowConfidence,
                      ~hadWriteError
               PROVE  Staged(f) = Reference(f)
    BY DEF LandsAsAnalysed
  <2>1. f # Workspace => Separate(f)
    BY DEF FixInv, TypeOK, Targets
  <2> QED BY <2>1, PlannedLands
<1> QED BY <1>1, FixInvariant, HandOnInvariant, PTL

\* For the two catalog fixers nothing has to be assumed of what they find: what is
\* staged for the workspace file is always both edits at once, if the first
\* moves no line of the second and each could read the file.
WorkspaceLanded ==
  /\ pc \in {"commit", "stage", "rename", "report", "done"} /\ Workspace \in Paths
  /\ Unshifted(Workspace) /\ Workspace \notin early \cup passed \cup project.lowConfidence
  /\ ~hadWriteError
  => Staged(Workspace) = Reference(Workspace)

\* So the catalog fixers of catalog.rs land on every workspace file, whatever it
\* and the findings are.
THEOREM WorkspaceLands == Spec => []WorkspaceLanded
<1>1. Workspace # Package
  BY DEF Workspace, Package
<1>2. FixInv /\ HandOnInv => WorkspaceLanded
  BY <1>1, PlannedLands DEF WorkspaceLanded
<1> QED BY <1>2, FixInvariant, HandOnInvariant, PTL
=============================================================================
