------------------------------ MODULE FixPlan ------------------------------
(***************************************************************************)
(* One `fallow fix --yes` (crates/cli/src/fix/mod.rs and plan.rs) beside an  *)
(* editor that saves files while it runs.  The fixers run one after the      *)
(* other, each over its own files; a fixer reads a file, or what an earlier   *)
(* fixer staged for it, and stages a whole new content.  The plan is then     *)
(* committed: every entry is written to a temporary file, and only then are   *)
(* the temporary files renamed over their targets, in path order.  Either     *)
(* may fail at any entry.  The config fixer writes its file directly.         *)
(* Any read may fail: the file is gone, outside the root or not UTF-8.        *)
(***************************************************************************)
EXTENDS FixEdits

CONSTANTS
  SourceFiles,   \* files the analysis parsed, so their hashes were captured
  PathOrder,     \* every target, in the order of paths
  Projects,      \* what the analysis saw and found: see Init
  MaxSaves       \* bound: saves by the editor

Package == "package.json"
Workspace == "pnpm-workspace.yaml"
Targets == SourceFiles \cup {Package, Workspace}

ASSUME PathOrderAssumption ==
  /\ PathOrder \in Seq(Targets)
  /\ Range(PathOrder) = Targets /\ Len(PathOrder) = Cardinality(Targets)

\* s is a sequence, of whatever it has.
IsSequence(s) == s \in Seq(Range(s))

ASSUME ProjectsAssumption ==
  /\ Package \notin SourceFiles /\ Workspace \notin SourceFiles /\ MaxSaves \in Nat
  /\ \A p \in Projects :
       DOMAIN p.layout = Targets /\ \A f \in Targets : IsSequence(p.layout[f])

VARIABLES
  project,        \* the files the analysis read and its findings
  dryRun,
  passed,         \* history: files a fixer could not read
  disk,           \* the files now
  saves,          \* saves so far
  early,          \* files saved while nothing was staged for them
  pc,             \* the fixer at work, or the stage of the commit
  todo,           \* files the fixer at work has still to visit
  plan,           \* FixPlan.entries
  skipped,        \* FixPlan.skipped
  fixes,          \* reported entries that carry a target
  config,         \* the config file was written
  hadWriteError,
  temps,          \* entries in temporary files
  written, failed,
  exit

run == <<project, dryRun, passed>>
editor == <<disk, saves, early>>
commit == <<temps, written, failed>>
vars == <<project, dryRun, passed, disk, saves, early, pc, todo, plan, skipped, fixes, config,
          hadWriteError, temps, written, failed, exit>>

Paths == {plan[i].path : i \in DOMAIN plan}
Staged(f) == plan[CHOOSE i \in DOMAIN plan : plan[i].path = f].content

\* The files each fixer visits.
Work(pass) ==
  CASE pass = "exports" -> {f \in SourceFiles : project.exports[f] # {}}
    [] pass = "members" -> {f \in SourceFiles : project.members[f] # {}}
    [] pass = "deps"    -> {f \in {Package} : project.deps # {}}
    [] pass = "entries" -> {f \in {Workspace} : project.entries # {}}
    [] pass = "groups"  -> {f \in {Workspace} : project.groups # {}}
    [] OTHER -> {}

\* apply_all_fixes
After == [exports |-> "deps", deps |-> "config", members |-> "entries",
          entries |-> "groups", groups |-> "commit"]

Init ==
  /\ project \in Projects
  /\ dryRun \in BOOLEAN
  /\ passed = {}
  /\ disk = project.layout
  /\ saves = 0 /\ early = {}
  /\ pc = "exports" /\ todo = Work("exports")
  /\ plan = <<>> /\ skipped = {} /\ fixes = {}
  /\ config = FALSE /\ hadWriteError = FALSE
  /\ temps = {} /\ written = {} /\ failed = {}
  /\ exit = -1

-----------------------------------------------------------------------------
(* Reading and staging *)

\* Mistake: each fixer reads the file from disk.
ContentOfDisk(f) == disk[f]

\* read_source_with_hash_check: staged bytes first, else the file on disk.
Content(f) == IF f \in Paths THEN Staged(f) ELSE disk[f]
Refused(f) ==
  IF f \in Paths THEN {}
  ELSE IF f \in project.mixed THEN {"MixedLineEndings"}
  ELSE IF f \in SourceFiles /\ disk[f] # project.layout[f] THEN {"ContentChanged"}
  ELSE {}

\* FixPlan::stage: the last call for a path wins.
Stage(f, content) ==
  plan' = IF f \in Paths
          THEN [i \in DOMAIN plan |->
                 IF plan[i].path = f THEN [plan[i] EXCEPT !.content = content] ELSE plan[i]]
          ELSE Append(plan, [path |-> f, content |-> content])

Visit(pass, f) ==
  /\ pc = pass /\ f \in todo
  /\ todo' = todo \ {f}
  /\ UNCHANGED <<run, editor, pc, config, commit, exit>>

Skip(f, reasons) ==
  /\ skipped' = skipped \cup {[path |-> f, reason |-> r] : r \in reasons}
  /\ UNCHANGED <<plan, fixes, hadWriteError>>

\* Stage the edited file and report its fixes, optimistically, as applied.
Apply(f, edited) ==
  /\ Stage(f, edited)
  /\ fixes' = fixes \cup {[target |-> f, applied |-> TRUE]}
  /\ UNCHANGED <<skipped, hadWriteError>>

Nothing == UNCHANGED <<plan, skipped, fixes, hadWriteError>>

\* Mistake: the skip is recorded and the file rewritten nevertheless.
RewriteSkipped(f, found, edited) ==
  IF dryRun \/ found = {} THEN Skip(f, Refused(f))
  ELSE /\ Stage(f, edited)
       /\ fixes' = fixes \cup {[target |-> f, applied |-> TRUE]}
       /\ skipped' = skipped \cup {[path |-> f, reason |-> r] : r \in Refused(f)}
       /\ UNCHANGED hadWriteError

\* One file of one line-based fixer.
Rewrite(f, found, edited) ==
  IF Refused(f) # {} THEN Skip(f, Refused(f))
  ELSE IF dryRun \/ found = {} THEN Nothing
  ELSE Apply(f, edited)

\* The catalog fixers parse what they are about to stage.
RewriteYaml(f, found, edited) ==
  IF Refused(f) # {} THEN Skip(f, Refused(f))
  ELSE IF dryRun \/ found = {} THEN Nothing
  ELSE IF ValidYaml(edited) THEN Apply(f, edited)
  ELSE hadWriteError' = TRUE /\ UNCHANGED <<plan, skipped, fixes>>

-----------------------------------------------------------------------------
(* The fixers *)

ExportFile(f) ==
  /\ Visit("exports", f)
  /\ IF f \in project.lowConfidence THEN Skip(f, {"LowConfidence"})
     ELSE Rewrite(f, ExportFixes(Content(f), project.exports[f]),
                     ExportEdit(Content(f), project.exports[f]))

\* package.json is read from disk and not checked.
DependencyFile(f) ==
  /\ Visit("deps", f)
  /\ IF dryRun \/ DependencyEdit(disk[f], project.deps) = disk[f] THEN Nothing
     ELSE Apply(f, DependencyEdit(disk[f], project.deps))

MemberFile(f) ==
  /\ Visit("members", f)
  /\ Rewrite(f, MemberFixes(Content(f), project.members[f]),
                MemberEdit(Content(f), project.members[f]))

EntryFile(f) ==
  /\ Visit("entries", f)
  /\ RewriteYaml(f, EntryFixes(Content(f), project.entries),
                    EntryEdit(Content(f), project.entries))

GroupFile(f) ==
  /\ Visit("groups", f)
  /\ RewriteYaml(f, GroupFixes(Content(f), project.groups),
                    GroupEdit(Content(f), project.groups))

\* The file cannot be read: the fixer goes on with the next one, without a record.
\* What is staged for a path is not read from disk.
PassOver(f) ==
  /\ pc \in DOMAIN After /\ f \in todo /\ f \notin Paths
  /\ pc = "exports" => f \notin project.lowConfidence
  /\ todo' = todo \ {f}
  /\ passed' = passed \cup {f}
  /\ Nothing
  /\ UNCHANGED <<project, dryRun, editor, pc, config, commit, exit>>

EndPass ==
  /\ pc \in DOMAIN After /\ todo = {}
  /\ pc' = After[pc] /\ todo' = Work(pc')
  /\ UNCHANGED <<run, editor, plan, skipped, fixes, config, hadWriteError, commit, exit>>

\* apply_config_fixes: written at once, or blocked, or in error.
ConfigFix ==
  /\ pc = "config"
  /\ \E outcome \in IF project.duplicates THEN {"written", "blocked", "error"} ELSE {"blocked"} :
       /\ config' = (config \/ (outcome = "written" /\ ~dryRun))
       /\ hadWriteError' = (hadWriteError \/ outcome = "error")
  /\ pc' = "members" /\ todo' = Work("members")
  /\ UNCHANGED <<run, editor, plan, skipped, fixes, commit, exit>>

-----------------------------------------------------------------------------
(* FixPlan::commit *)

BeginCommit ==
  /\ pc = "commit"
  /\ pc' = IF dryRun \/ plan = <<>> THEN "report" ELSE "stage"
  /\ UNCHANGED <<run, editor, todo, plan, skipped, fixes, config, hadWriteError, commit, exit>>

\* Mistake: an entry reaches its target while others are still to be staged.
StageOneInPlace ==
  /\ pc = "stage"
  /\ LET f == plan[Cardinality(temps) + 1].path
     IN  /\ disk' = [disk EXCEPT ![f] = Staged(f)]
         /\ written' = written \cup {f}
         /\ temps' = temps \cup {f}
  /\ pc' = IF temps' = Paths THEN "rename" ELSE "stage"
  /\ UNCHANGED <<run, saves, early, todo, plan, skipped, fixes, config, hadWriteError,
                 failed, exit>>

\* The next entry in the order it was planned.
StageOne ==
  /\ pc = "stage"
  /\ temps' = temps \cup {plan[Cardinality(temps) + 1].path}
  /\ pc' = IF temps' = Paths THEN "rename" ELSE "stage"
  /\ UNCHANGED <<run, editor, todo, plan, skipped, fixes, config, hadWriteError, written,
                 failed, exit>>

\* commit returns: only this path failed, and the temporary files are dropped.
StageFails ==
  /\ pc = "stage"
  /\ failed' = {plan[Cardinality(temps) + 1].path}
  /\ temps' = {}
  /\ pc' = "report"
  /\ UNCHANGED <<run, editor, todo, plan, skipped, fixes, config, hadWriteError, written, exit>>

\* The first path, in the order of paths, that is still in a temporary file.
NextPath ==
  PathOrder[CHOOSE i \in DOMAIN PathOrder :
              /\ PathOrder[i] \in temps
              /\ \A j \in DOMAIN PathOrder : PathOrder[j] \in temps => i <= j]

Rename ==
  /\ pc = "rename"
  /\ \/ /\ disk' = [disk EXCEPT ![NextPath] = Staged(NextPath)]
        /\ written' = written \cup {NextPath}
        /\ UNCHANGED failed
     \/ failed' = failed \cup {NextPath} /\ UNCHANGED <<disk, written>>
  /\ temps' = temps \ {NextPath}
  /\ pc' = IF temps' = {} THEN "report" ELSE "rename"
  /\ UNCHANGED <<run, saves, early, todo, plan, skipped, fixes, config, hadWriteError, exit>>

\* Mistake: optimistic entries are not corrected.
PatchedNever == fixes

\* patch_applied_field_on_failure
Patched == {[x EXCEPT !.applied = @ /\ x.target \notin failed] : x \in fixes}

\* Mistake: a file that changed does not count as a failure.
RecoverableUnlessChanged == {s \in skipped : s.reason = "MixedLineEndings"}

\* finalize_fix_run
Recoverable == {s \in skipped : s.reason # "LowConfidence"}
Report ==
  /\ pc = "report"
  /\ fixes' = Patched
  /\ hadWriteError' = (hadWriteError \/ failed # {} \/ Recoverable # {})
  /\ exit' = IF hadWriteError' THEN 2 ELSE 0
  /\ pc' = "done"
  /\ UNCHANGED <<run, editor, todo, plan, skipped, config, commit>>

-----------------------------------------------------------------------------
(* The editor *)

\* A line at the top of a file, as the fixers see it.
NewLine(f) ==
  CASE f \in SourceFiles ->
         [id |-> 0, export |-> FALSE, form |-> "other", name |-> "new", words |-> {"new"}]
    [] f = Workspace -> [id |-> 0, key |-> "new", depth |-> 0, open |-> FALSE]
    [] f = Package -> [id |-> 0, key |-> "new"]

Save(f) ==
  /\ pc # "done" /\ saves < MaxSaves
  /\ saves' = saves + 1
  /\ disk' = [disk EXCEPT ![f] = <<NewLine(f)>> \o @]
  /\ early' = IF f \in Paths THEN early ELSE early \cup {f}
  /\ UNCHANGED <<run, pc, todo, plan, skipped, fixes, config, hadWriteError, commit, exit>>

Next ==
  \/ \E f \in Targets :
       ExportFile(f) \/ DependencyFile(f) \/ MemberFile(f) \/ EntryFile(f) \/ GroupFile(f)
         \/ PassOver(f) \/ Save(f)
  \/ EndPass \/ ConfigFix \/ BeginCommit \/ StageOne \/ StageFails \/ Rename \/ Report

Spec == Init /\ [][Next]_vars

-----------------------------------------------------------------------------
(* Properties *)

\* Every variable ranges over what the code can hold, and the plan has at most
\* one entry for a path (plan.rs FixPlan::stage).
TypeOK ==
  /\ project \in Projects /\ dryRun \in BOOLEAN /\ passed \subseteq Targets
  /\ DOMAIN disk = Targets /\ saves \in 0..MaxSaves /\ early \subseteq Targets
  /\ IsSequence(plan)
  /\ pc \in DOMAIN After \cup {"config", "commit", "stage", "rename", "report", "done"}
  /\ todo \subseteq Work(pc)
  /\ Paths \subseteq Targets
  /\ \A i, j \in DOMAIN plan : plan[i].path = plan[j].path => i = j
  /\ fixes \subseteq [target : Targets, applied : BOOLEAN]
  /\ config \in BOOLEAN /\ hadWriteError \in BOOLEAN /\ exit \in {-1, 0, 2}
  /\ temps \subseteq Paths /\ written \subseteq Paths /\ failed \subseteq Paths

\* All findings about one file, applied to the file the analysis read, at once.
Reference(f) ==
  LET lines == project.layout[f]
  IN  IF f = Workspace
      THEN Delete(EntryRewritten(lines, project.entries),
                  EntryDeleted(lines, project.entries) \cup GroupDeleted(lines, project.groups))
      ELSE Delete(MemberRewritten(ExportRewritten(lines, project.exports[f]), project.members[f]),
                  ExportDeleted(lines, project.exports[f])
                    \cup MemberDeleted(lines, project.members[f]))

\* The first fixer of a file removes no line above one the second looks up.
Unshifted(f) ==
  LET lines == project.layout[f]
      removed == IF f = Workspace THEN EntryDeleted(lines, project.entries)
                 ELSE ExportDeleted(lines, project.exports[f])
      later == IF f = Workspace THEN project.groups ELSE project.members[f]
  IN  \A x \in later, i \in removed : x.line < i

\* The fixes of two fixers in one file land together, each on the text the
\* analysis found it in, and nothing else in the file changes: the hand-off of
\* staged bytes in read_source_with_hash_check.  Only where the first fixer does not
\* move the lines of the second, whose line numbers are not adjusted
\* (catalog.rs:679), and where each fixer could read the file.
LandsAsAnalysed ==
  pc \in {"commit", "stage", "rename", "report", "done"} =>
    \A f \in Paths \ {Package} :
      /\ Unshifted(f)
      /\ f \notin early \cup passed \cup project.lowConfidence
      /\ ~hadWriteError
      => Staged(f) = Reference(f)

\* A source file saved before a fixer read it and staged something for it is never
\* replaced by text the analysis did not see, at whatever step the save came (plan.rs
\* read_source_with_hash_check).  The protection ends when that fixer reads the file.
EarlySaveKept ==
  \A f \in early \cap SourceFiles : f \notin written /\ disk[f] # project.layout[f]

\* When a temporary file cannot be written, no target is touched: the commit
\* renames only after every entry was staged (plan.rs FixPlan::commit).
AllStagedBeforeRename ==
  /\ written # {} => written \cup failed \cup temps = Paths
  /\ pc = "done" /\ ~dryRun => written = {} \/ written \cup failed = Paths

\* What the report says was applied is on disk and the rest is not, whichever
\* renames failed (mod.rs patch_applied_field_on_failure).  Not when staging
\* failed: then only the failing path is corrected.
ReportMatchesDisk ==
  pc = "done" /\ written \cup failed = Paths =>
    \A x \in fixes : x.applied <=> x.target \in written

\* What the analysis read of a source file has something for a fixer to do.
HasFixes(f) ==
  \/ MemberFixes(project.layout[f], project.members[f]) # {}
  \/ ExportFixes(project.layout[f], project.exports[f]) # {} /\ f \notin project.lowConfidence

\* Exit code 0 of a real run means that every planned file was replaced, and that
\* every source file with something to do is one of them, if the fixers could read
\* it: none was left out because it had changed or mixes line endings, however saves
\* and failures interleaved with the fixers (mod.rs finalize_fix_run).  A file that
\* cannot be read leaves no skip record and does not change the exit code.
ExitZeroMeansLanded ==
  pc = "done" /\ exit = 0 /\ ~dryRun =>
    /\ written = Paths
    /\ \A f \in SourceFiles \ passed :
         HasFixes(f) => f \in written \ (early \cup project.mixed)
=============================================================================
