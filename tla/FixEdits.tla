------------------------------ MODULE FixEdits ------------------------------
(***************************************************************************)
(* What each fixer of `fallow fix` does to the lines of one file            *)
(* (crates/cli/src/fix/).  A file is a sequence of lines.  A line keeps what *)
(* the fixers look at and an id, which no fixer sees: the line's place in    *)
(* the file the analysis read, 0 for a line an editor added since.           *)
(*                                                                         *)
(* A source line: is it an export the fixer can edit, what it is ("list", the     *)
(* head of a multi-line "enum", a whole "enumLine", a "close" brace or       *)
(* "other"), the name it declares, the identifiers on it.  A line of        *)
(* pnpm-workspace.yaml: its key, its indent and whether it is a header       *)
(* without a value (open).  A line of package.json: its key.                *)
(*                                                                         *)
(* Findings name a place by the line number of the analysis.  Comments,     *)
(* blank lines and encodings are left out.  So are two forms of export      *)
(* list: one whose closing brace is on a later line, of which the code      *)
(* deletes the whole first line (exports.rs:120-121), and one with aliases, *)
(* compared by the original name (exports.rs:130-136).  A list here is on   *)
(* one line and exports names as they are.                                  *)
(***************************************************************************)
EXTENDS Integers, Sequences, FiniteSets, FiniteSetsExt, SequencesExt

\* The lines whose index is not in D, in order.  The code removes one line after the
\* other from the bottom up (exports.rs:446); removing the set at once builds in that
\* no removal moves the line of another.
Delete(lines, D) ==
  LET keep == DOMAIN lines \ D
      nth(k) == CHOOSE i \in keep : Cardinality({j \in keep : j <= i}) = k
  IN  [k \in 1..Cardinality(keep) |-> lines[nth(k)]]

-----------------------------------------------------------------------------
(* Unused exports *)

\* declares_exported_enum
Declares(line, name) ==
  line.export /\ line.form \in {"enum", "enumLine"} /\ line.name = name

\* find_enum_declaration_range: through the brace that closes the enum.
EnumRange(lines, i) ==
  IF lines[i].form = "enumLine" THEN {i}
  ELSE LET closes == {j \in DOMAIN lines : j > i /\ lines[j].form = "close"}
       IN  IF closes = {} THEN {} ELSE i..Min(closes)

\* The whole declaration, when its name is nowhere else in the file; {} is None.
RemovableRange(lines, i, name) ==
  IF /\ Declares(lines[i], name)
     /\ \A j \in DOMAIN lines \ EnumRange(lines, i) : name \notin lines[j].words
  THEN EnumRange(lines, i)
  ELSE {}

\* The findings whose line still starts with `export `.
ExportFixes(lines, exports) ==
  {x \in exports : x.line \in DOMAIN lines /\ lines[x.line].export}

NamesAt(fixes, i) == {x.name : x \in {y \in fixes : y.line = i}}

\* A list loses its specifiers, any other line its `export ` keyword.
ExportRewritten(lines, exports) ==
  LET fixes == ExportFixes(lines, exports)
  IN  [i \in DOMAIN lines |->
        IF NamesAt(fixes, i) = {} THEN lines[i]
        ELSE IF lines[i].form = "list"
             THEN [lines[i] EXCEPT !.words = @ \ NamesAt(fixes, i)]
             ELSE [lines[i] EXCEPT !.export = FALSE]]

\* Whole enums, and the lists that lose their last specifier.
ExportDeleted(lines, exports) ==
  LET fixes == ExportFixes(lines, exports)
  IN  (UNION {RemovableRange(lines, x.line, x.name) : x \in fixes})
        \cup {i \in {x.line : x \in fixes} :
                lines[i].form = "list" /\ lines[i].words \subseteq NamesAt(fixes, i)}

ExportEdit(lines, exports) ==
  Delete(ExportRewritten(lines, exports), ExportDeleted(lines, exports))

-----------------------------------------------------------------------------
(* Unused enum members *)

\* The only guard on a line number is that the line contains the member's name.
MemberFixes(lines, members) ==
  {m \in members : m.line \in DOMAIN lines /\ m.name \in lines[m.line].words}

\* The body loses every member it has.
Drained(lines, range, removed) ==
  IF Cardinality(range) = 1
  THEN \A i \in range : lines[i].words \ {lines[i].name} \subseteq removed
  ELSE \A i \in range \ {Min(range), Max(range)} : lines[i].name \in removed

\* detect_folded_enums: the declaration that goes as a whole, or {}.
FoldedRange(lines, members, parent) ==
  LET fixes == {m \in MemberFixes(lines, members) : m.parent = parent}
      decls == {i \in DOMAIN lines : Declares(lines[i], parent)}
      range == RemovableRange(lines, Min(decls), parent)
  IN  IF decls = {} \/ fixes = {} THEN {}
      ELSE IF range # {} /\ Drained(lines, range, {m.name : m \in fixes})
           THEN range ELSE {}

\* The findings edited one by one.
SingleFixes(lines, members) ==
  {m \in MemberFixes(lines, members) : FoldedRange(lines, members, m.parent) = {}}

\* The line has both braces.
Braced(line) == line.form \in {"list", "enumLine"}

MemberRewritten(lines, members) ==
  [i \in DOMAIN lines |->
    IF Braced(lines[i])
    THEN [lines[i] EXCEPT !.words = @ \ NamesAt(SingleFixes(lines, members), i)]
    ELSE lines[i]]

MemberDeleted(lines, members) ==
  (UNION {FoldedRange(lines, members, m.parent) : m \in members})
    \cup {i \in {m.line : m \in SingleFixes(lines, members)} : ~Braced(lines[i])}

MemberEdit(lines, members) ==
  Delete(MemberRewritten(lines, members), MemberDeleted(lines, members))

-----------------------------------------------------------------------------
(* Catalogs of pnpm-workspace.yaml and dependencies of package.json *)

\* compute_deletion_range: the line and the deeper lines under it.
Subtree(lines, i) ==
  LET after == {j \in DOMAIN lines : j > i /\ lines[j].depth <= lines[i].depth}
  IN  i..(IF after = {} THEN Len(lines) ELSE Min(after) - 1)

\* Entries still pinned by a consumer stay; so do lines past the end.  Of
\* overlapping ranges the one that starts last is kept.
EntryFixes(lines, entries) ==
  LET at == {e \in entries : ~e.pinned /\ e.line \in DOMAIN lines}
  IN  {e \in at : \A o \in at : o.line \in Subtree(lines, e.line) => o.line = e.line}

EntryDeleted(lines, entries) ==
  UNION {Subtree(lines, e.line) : e \in EntryFixes(lines, entries)}

\* find_parent_header_line: the header above the entry, if it is the catalog's.
IsParent(lines, p, e) ==
  /\ p < e.line
  /\ lines[p].key = e.catalog
  /\ lines[p].depth < lines[e.line].depth
  /\ \A j \in (p + 1)..(e.line - 1) : lines[j].depth >= lines[e.line].depth

\* rewrite_empty_catalog_parents: `name:` becomes `name: {}` when it lost its
\* last child.
EntryRewritten(lines, entries) ==
  LET kept == DOMAIN lines \ EntryDeleted(lines, entries)
      childless(p) == LET below == {j \in kept : j > p}
                      IN  below = {} \/ lines[Min(below)].depth <= lines[p].depth
  IN  [p \in DOMAIN lines |->
        IF childless(p) /\ \E e \in EntryFixes(lines, entries) : IsParent(lines, p, e)
        THEN [lines[p] EXCEPT !.open = FALSE]
        ELSE lines[p]]

EntryEdit(lines, entries) ==
  Delete(EntryRewritten(lines, entries), EntryDeleted(lines, entries))

\* The only guard is that the line exists.
GroupFixes(lines, groups) == {g \in groups : g.line \in DOMAIN lines}
GroupDeleted(lines, groups) == {g.line : g \in GroupFixes(lines, groups)}
GroupEdit(lines, groups) == Delete(lines, GroupDeleted(lines, groups))

\* serde_yaml's verdict on the edited text: deeper lines only under an open
\* header, a dedent to a level in use, no key twice in one mapping.
Sibling(lines, i, j) ==
  /\ lines[i].depth = lines[j].depth
  /\ \A k \in i..j : lines[k].depth >= lines[i].depth
ValidYaml(lines) ==
  /\ \A i \in 2..Len(lines) :
       /\ lines[i].depth > lines[i - 1].depth => lines[i - 1].open
       /\ lines[i].depth < lines[i - 1].depth =>
            \E j \in 1..(i - 1) : Sibling(lines, j, i)
  /\ \A j \in DOMAIN lines : \A i \in 1..(j - 1) :
       Sibling(lines, i, j) => lines[i].key # lines[j].key

\* The keys are removed by name from the re-parsed package.json.
DependencyEdit(lines, deps) == SelectSeq(lines, LAMBDA l : l.key \notin deps)
=============================================================================
