----------------------------- MODULE MCFixPlan -----------------------------
(***************************************************************************)
(* Small projects for FixPlan.  "a.ts" has an export list and two enums,      *)
(* D and E, with a member of the same name; D may be used elsewhere in the    *)
(* file.  "b.ts" has one export and a one-line enum.  The workspace file has  *)
(* two catalogs with one entry and an empty one between them.                 *)
(***************************************************************************)
EXTENDS FixPlan

Src(id, export, form, name, words) ==
  [id |-> id, export |-> export, form |-> form, name |-> name, words |-> words]
Yaml(id, key, depth, open) == [id |-> id, key |-> key, depth |-> depth, open |-> open]

FileA(used) ==
  << Src(1, TRUE, "list", "", {"x", "y"}),
     Src(2, TRUE, "enum", "D", {"D"}), Src(3, FALSE, "other", "A", {"A"}),
     Src(4, FALSE, "close", "", {}),
     Src(5, TRUE, "enum", "E", {"E"}), Src(6, FALSE, "other", "A", {"A"}),
     Src(7, FALSE, "other", "B", {"B"}), Src(8, FALSE, "close", "", {}),
     Src(9, FALSE, "other", "z", {used, "z"}) >>
FileB ==
  << Src(1, TRUE, "other", "k", {"k"}), Src(2, TRUE, "enumLine", "F", {"F", "Q", "R"}) >>
PackageFile == << [id |-> 1, key |-> "d1"], [id |-> 2, key |-> "d2"] >>
WorkspaceFile ==
  << Yaml(1, "catalogs", 0, TRUE), Yaml(2, "g1", 1, TRUE), Yaml(3, "r", 2, FALSE),
     Yaml(4, "g2", 1, TRUE), Yaml(5, "g3", 1, TRUE), Yaml(6, "s", 2, FALSE) >>

Export(line, name) == [line |-> line, name |-> name]
Member(line, name, parent) == [line |-> line, name |-> name, parent |-> parent]
Entry(line, catalog, pinned) == [line |-> line, catalog |-> catalog, pinned |-> pinned]

ExportsA == {{}, {Export(1, "x")}, {Export(1, "x"), Export(1, "y")}, {Export(2, "D")},
             {Export(1, "x"), Export(5, "E")}}
MembersA == {{}, {Member(3, "A", "D")}, {Member(6, "A", "E")},
             {Member(6, "A", "E"), Member(7, "B", "E")}}
MembersB == {{}, {Member(2, "Q", "F")}, {Member(2, "Q", "F"), Member(2, "R", "F")}}
EntriesW == {{}, {Entry(3, "g1", FALSE)}, {Entry(6, "g3", FALSE)},
             {Entry(3, "g1", TRUE), Entry(6, "g3", FALSE)}}
GroupsW == {{}, {[line |-> 4, key |-> "g2"]}}

Project(used, ea, ma, eb, mb, deps, entries, groups, low, mixed, dup) ==
  [layout |-> ("a.ts" :> FileA(used)) @@ ("b.ts" :> FileB) @@ (Package :> PackageFile)
               @@ (Workspace :> WorkspaceFile),
   exports |-> ("a.ts" :> ea) @@ ("b.ts" :> eb),
   members |-> ("a.ts" :> ma) @@ ("b.ts" :> mb),
   deps |-> deps, entries |-> entries, groups |-> groups,
   lowConfidence |-> low, mixed |-> mixed, duplicates |-> dup]

\* Members of an enum that is itself an unused export are not reported.
Consistent(e, m) == \A x \in e, y \in m : x.name # y.parent

SourceProjects ==
  {Project(used, ea, ma, {Export(1, "k")}, mb, {}, {}, {}, low, mixed, FALSE) :
     used \in {"D", "z"}, ea \in ExportsA, ma \in MembersA, mb \in MembersB,
     low \in {{}, {"a.ts"}}, mixed \in {{}, {"b.ts"}}}
WorkspaceProjects ==
  {Project("z", {}, {}, eb, {}, deps, entries, groups, {}, {}, dup) :
     eb \in {{}, {Export(1, "k")}}, deps \in {{}, {"d1"}}, entries \in EntriesW,
     groups \in GroupsW, dup \in BOOLEAN}
MCProjects ==
  {p \in SourceProjects : \A f \in {"a.ts", "b.ts"} : Consistent(p.exports[f], p.members[f])}
    \cup WorkspaceProjects

MCSourceFiles == {"a.ts", "b.ts"}
MCPathOrder == <<"a.ts", "b.ts", Package, Workspace>>
=============================================================================
