---------------------------- MODULE ModuleGraph ----------------------------
(***************************************************************************)
(* The module graph of crates/graph: which file imports which name from    *)
(* which file, which files are reachable from the entry points, and which  *)
(* references an export collects through chains of barrel files            *)
(* (`export { a as b } from "./s"`, `export * from "./s"`).  The report of *)
(* unused exports (crates/core/src/analyze/unused_exports.rs) reads the    *)
(* result, so a reference that is lost here is a live export that is       *)
(* reported as unused.                                                     *)
(*                                                                         *)
(* ModuleGraph::build_with_reachability_roots runs its phases in order:    *)
(*   "populate"   exports, re-export stubs and direct references           *)
(*   "reach"      breadth-first search from the entry points               *)
(*   "cycles"     strongly connected components (module ReExportCycles)    *)
(*   "propagate"  rounds over the re-export tuples until nothing changes   *)
(*   "done"       the unused-export report may read the graph              *)
(*                                                                         *)
(* A file is its FileId, the index of its module.  A reference is the file *)
(* it comes from: references are kept once per file.  One export per name  *)
(* and file is modelled (no type and value of the same name), and          *)
(* `export * as ns` is left to its own phase of the code.                  *)
(***************************************************************************)
EXTENDS Integers, Sequences, FiniteSets

CONSTANTS
    NFiles,     \* the number of discovered files
    Names,      \* the names a file may export, Default among them
    Default,    \* the name of a default export
    Star,       \* the name "*" of an `export *`
    Families    \* the resolved projects that Init may start from: in each
                \* family, a choice of every part

Files == 0 .. NFiles - 1

Exports == Files \X Names

Tuples == [barrel : Files, source : Files,
           imported : Names \cup {Star}, exported : Names \cup {Star},
           typeOnly : BOOLEAN]

(* An import names an export ("named", the default import included) or     *)
(* reads a member of a namespace import ("member").                        *)
Imports == [from : Files, target : Files, name : Names,
            kind : {"named", "member"}]

GraphType == [tuples : Seq(Tuples), own : SUBSET Exports,
              ownTypes : SUBSET Exports, imports : SUBSET Imports,
              entries : SUBSET Files]

(* Tuples are collected module by module, and only `export *` has a star.  *)
WellFormed(tuples) ==
    /\ \A i, j \in 1 .. Len(tuples) : i < j => tuples[i].barrel <= tuples[j].barrel
    /\ \A i \in 1 .. Len(tuples) : (tuples[i].imported = Star) = (tuples[i].exported = Star)

ASSUME NFilesAssumption == NFiles \in Nat \ {0}
ASSUME NamesAssumption == IsFiniteSet(Names) /\ Default \in Names /\ Star \notin Names
ASSUME FamiliesAssumption ==
    \A family \in Families :
        /\ \A q \in family.tuples : q \in Seq(Tuples) /\ WellFormed(q)
        /\ family.own \subseteq SUBSET Exports
        /\ family.ownTypes \subseteq SUBSET Exports
        /\ family.imports \subseteq SUBSET Imports
        /\ family.entries \subseteq SUBSET Files

VARIABLES
    graph,      \* the resolved project, fixed by Init
    pc,         \* the phase
    visited,    \* reachable files: the bit set of collect_reachable
    queue,      \* its work list
    exports,    \* the ExportSymbols that exist, stubs included
    refs,       \* the files that reference an export
    typeOnly,   \* the exports whose is_type_only is set
    stubs,      \* synthetic_stubs of the fixpoint
    pos,        \* index of the tuple the round is at
    iteration,  \* rounds begun
    changed     \* whether this round changed anything

vars == <<graph, pc, visited, queue, exports, refs, typeOnly, stubs, pos,
          iteration, changed>>

symbols == <<exports, refs, typeOnly, stubs>>

-----------------------------------------------------------------------------
TupleSet == {graph.tuples[i] : i \in 1 .. Len(graph.tuples)}

IsStar(t) == t.exported = Star

HasStar(f) == \E t \in TupleSet : IsStar(t) /\ t.barrel = f

\* Mutant of Edge: only imports are edges.
EdgeOfImport(f, h) == \E i \in graph.imports : i.from = f /\ i.target = h

(* Every resolved import and every re-export is an edge.                   *)
Edge(f, h) ==
    \/ \E i \in graph.imports : i.from = f /\ i.target = h
    \/ \E t \in TupleSet : t.barrel = f /\ t.source = h

(* collect_entry_star_targets: the files that the stars of an entry point  *)
(* reach, through any number of stars.                                     *)
StarTargets(g, S) ==
    {g.tuples[i].source : i \in {j \in 1 .. Len(g.tuples) : /\ IsStar(g.tuples[j])
                                                            /\ g.tuples[j].barrel \in S}}

EntryStarTargets(g) ==
    LET reached[n \in 0 .. NFiles] ==
            IF n = 0 THEN StarTargets(g, g.entries)
            ELSE LET before == reached[n - 1] IN before \cup StarTargets(g, before)
    IN  reached[NFiles]

Exposed(f) == f \in graph.entries \/ f \in EntryStarTargets(graph)

\* Mutant of SafetyCap: no round is left to see that nothing changes.
SafetyCapShort == Len(graph.tuples)

SafetyCap == Len(graph.tuples) + 1

-----------------------------------------------------------------------------
Init ==
    /\ \E family \in Families :
           graph \in [tuples : family.tuples, own : family.own,
                      ownTypes : family.ownTypes, imports : family.imports,
                      entries : family.entries]
    /\ pc = "populate"
    /\ visited = {} /\ queue = {}
    /\ exports = {} /\ refs = [p \in Exports |-> {}]
    /\ typeOnly = {} /\ stubs = {}
    /\ pos = 1 /\ iteration = 0 /\ changed = FALSE

(* build_module_node: own exports, and a stub for each named re-export     *)
(* that has no own export of that name; narrow_namespace_references adds a *)
(* stub for a member it does not find on a file with an `export *`.        *)
NamedStubs == {<<t.barrel, t.exported>> : t \in {u \in TupleSet : ~IsStar(u)}}

MemberStubs == {<<i.target, i.name>> :
                    i \in {j \in graph.imports : j.kind = "member" /\ HasStar(j.target)}}

(* The first of several re-exports under one name makes the stub.          *)
NamedStubIsType(p) ==
    \E i \in 1 .. Len(graph.tuples) :
        /\ <<graph.tuples[i].barrel, graph.tuples[i].exported>> = p
        /\ graph.tuples[i].typeOnly
        /\ \A j \in 1 .. i - 1 :
               <<graph.tuples[j].barrel, graph.tuples[j].exported>> # p

(* populate_edges and populate_references.  The breadth-first search then  *)
(* starts with the entry points in the queue.                              *)
Populate ==
    /\ pc = "populate"
    /\ exports' = graph.own \cup NamedStubs \cup MemberStubs
    /\ typeOnly' = (graph.own \cap graph.ownTypes)
                     \cup {p \in NamedStubs \ graph.own : NamedStubIsType(p)}
    /\ refs' = [p \in Exports |->
                   IF p \in exports'
                   THEN {i.from : i \in {j \in graph.imports : <<j.target, j.name>> = p}}
                   ELSE {}]
    /\ visited' = graph.entries
    /\ queue' = graph.entries
    /\ pc' = "reach"
    /\ UNCHANGED <<graph, stubs, pos, iteration, changed>>

(* One turn of the loop of collect_reachable; the entry points leave their *)
(* hash set in no fixed order, and neither does this queue.                *)
Visit(f) ==
    /\ pc = "reach"
    /\ f \in queue
    /\ LET new == {h \in Files : Edge(f, h) /\ h \notin visited}
       IN  /\ visited' = visited \cup new
           /\ queue' = (queue \ {f}) \cup new
    /\ UNCHANGED <<graph, pc, symbols, pos, iteration, changed>>

(* resolve_re_export_chains returns at once when there is no re-export.    *)
MarkReachable ==
    /\ pc = "reach"
    /\ queue = {}
    /\ pc' = IF graph.tuples = << >> THEN "done" ELSE "cycles"
    /\ UNCHANGED <<graph, visited, queue, symbols, pos, iteration, changed>>

(* find_re_export_cycles has returned: the fixpoint starts its first round.*)
BeginFixpoint ==
    /\ pc = "cycles"
    /\ pc' = "propagate"
    /\ iteration' = 1 /\ pos' = 1 /\ changed' = FALSE
    /\ UNCHANGED <<graph, visited, queue, symbols>>

-----------------------------------------------------------------------------
\* Mutant of Carried: the imports are not told apart by name.
CarriedAnyName(b, n) ==
    refs[<<b, n>>] \cup {i.from : i \in {j \in graph.imports : j.target = b}}

(* collect_star_refs_by_name: what an `export *` of a barrel carries under *)
(* a name is the named imports of it, found or not, and the references of  *)
(* the barrel's export of that name.                                       *)
Carried(b, n) ==
    refs[<<b, n>>]
      \cup {i.from : i \in {j \in graph.imports : /\ j.target = b /\ j.name = n
                                                  /\ j.kind = "named"
                                                  /\ n # Default}}

\* Mutant of StarReaches: no stub on a source that forwards.
StarReachesOwn(t, n) == Carried(t.barrel, n) # {} /\ <<t.source, n>> \in exports

(* apply_star_refs_to_source takes an export that exists and makes one on  *)
(* a source that forwards with an `export *` itself.                       *)
StarReaches(t, n) ==
    /\ Carried(t.barrel, n) # {}
    /\ <<t.source, n>> \in exports \/ HasStar(t.source)

\* Mutant of StarTypes: what the source wrote is made a value too.
StarTypesWritten(t, hit, new) == IF t.typeOnly THEN typeOnly \cup new ELSE typeOnly \ hit

(* A new stub takes the flag of its star; a star of values turns a stub    *)
(* that was type-only into a value, but no export that the source wrote.   *)
StarTypes(t, hit, new) ==
    IF t.typeOnly THEN typeOnly \cup new ELSE typeOnly \ (hit \cap stubs)

(* propagate_star_re_export of a barrel that no entry point exposes.       *)
PropagateStar(t) ==
    /\ IsStar(t) /\ ~Exposed(t.barrel)
    /\ LET hit == {<<t.source, n>> : n \in {m \in Names : StarReaches(t, m)}}
           new == hit \ exports
       IN  /\ exports' = exports \cup new
           /\ stubs' = stubs \cup new
           /\ refs' = [p \in Exports |->
                          IF p \in hit THEN refs[p] \cup Carried(t.barrel, p[2])
                          ELSE refs[p]]
           /\ typeOnly' = StarTypes(t, hit, new)

(* propagate_entry_point_star: the world outside may use every name of the *)
(* source, but `export *` never forwards the default export.               *)
PropagateEntryPointStar(t) ==
    /\ IsStar(t) /\ Exposed(t.barrel)
    /\ refs' = [p \in Exports |->
                   IF p \in exports /\ p[1] = t.source /\ p[2] # Default
                   THEN refs[p] \cup {t.barrel} ELSE refs[p]]
    /\ UNCHANGED <<exports, typeOnly, stubs>>

OnBarrel(t) == refs[<<t.barrel, t.exported>>]

Target(t) == <<t.source, t.imported>>

Credit(p, who) ==
    /\ refs' = IF p \in exports THEN [refs EXCEPT ![p] = @ \cup who] ELSE refs
    /\ UNCHANGED <<exports, typeOnly, stubs>>

(* propagate_named_re_export of a referenced name, or of a name that       *)
(* nobody references on a file that is no entry point.                     *)
PropagateNamed(t) ==
    /\ ~IsStar(t)
    /\ OnBarrel(t) # {} \/ t.barrel \notin graph.entries
    /\ Credit(Target(t), OnBarrel(t))

(* propagate_entry_point_named: a name nobody references, exposed to the   *)
(* world outside, counts as used by the entry point.                       *)
PropagateEntryPointNamed(t) ==
    /\ ~IsStar(t)
    /\ OnBarrel(t) = {} /\ t.barrel \in graph.entries
    /\ Credit(Target(t), {t.barrel})

\* Mutant of NoteChange: `changed = ...`, the last tuple decides.
NoteLastChange == changed' = (symbols' # symbols)

(* What a step reports to the loop: `changed |= ...`.                      *)
NoteChange == changed' = (changed \/ symbols' # symbols)

(* The body of the loop of run_re_export_fixpoint for one tuple.           *)
PropagateEntry ==
    /\ pc = "propagate"
    /\ pos <= Len(graph.tuples)
    /\ LET t == graph.tuples[pos]
       IN  \/ PropagateStar(t)
           \/ PropagateEntryPointStar(t)
           \/ PropagateNamed(t)
           \/ PropagateEntryPointNamed(t)
    /\ NoteChange
    /\ pos' = pos + 1
    /\ UNCHANGED <<graph, pc, visited, queue, iteration>>

(* while changed && iteration < safety_cap                                 *)
NextRound ==
    /\ pc = "propagate"
    /\ pos > Len(graph.tuples)
    /\ changed /\ iteration < SafetyCap
    /\ pos' = 1 /\ changed' = FALSE /\ iteration' = iteration + 1
    /\ UNCHANGED <<graph, pc, visited, queue, symbols>>

EndFixpoint ==
    /\ pc = "propagate"
    /\ pos > Len(graph.tuples)
    /\ ~(changed /\ iteration < SafetyCap)
    /\ pc' = "done"
    /\ UNCHANGED <<graph, visited, queue, symbols, pos, iteration, changed>>

Next ==
    \/ Populate
    \/ \E f \in Files : Visit(f)
    \/ MarkReachable
    \/ BeginFixpoint
    \/ PropagateEntry
    \/ NextRound
    \/ EndFixpoint

Spec == Init /\ [][Next]_vars
-----------------------------------------------------------------------------
(* The report of unused exports: entry points are skipped, a reachable     *)
(* file is judged by its references, an unreachable one (when anything in  *)
(* it is referenced: otherwise the whole file is reported elsewhere) by    *)
(* the references from reachable files.                                    *)
Reported(p) ==
    /\ p \in exports /\ p[1] \notin graph.entries
    /\ IF p[1] \in visited THEN refs[p] = {}
       ELSE /\ \E n \in Names : refs[<<p[1], n>>] # {}
            /\ refs[p] \cap visited = {}

(* The names that a set of names leads to, by hops from name to name.      *)
Closure(S, Hop(_)) ==
    LET reached[n \in 0 .. NFiles * Cardinality(Names)] ==
            IF n = 0 THEN S
            ELSE LET before == reached[n - 1] IN before \cup UNION {Hop(p) : p \in before}
    IN  reached[NFiles * Cardinality(Names)]

NamedHop(p) == {Target(t) : t \in {u \in TupleSet : /\ ~IsStar(u)
                                                    /\ <<u.barrel, u.exported>> = p}}

StarHop(p) == {<<t.source, p[2]>> : t \in {u \in TupleSet : IsStar(u) /\ u.barrel = p[1]}}

(* How ECMAScript resolves a name that a file exports: its own export, or  *)
(* else what it re-exports under that name, or else what its stars export, *)
(* which is never a default export.                                        *)
ResolveHop(p) ==
    IF p \in graph.own THEN {}
    ELSE IF NamedHop(p) # {} THEN NamedHop(p)
    ELSE IF p[2] = Default THEN {} ELSE StarHop(p)

(* The exports that reachable code or the users of an entry point can get. *)
LiveExports ==
    graph.own \cap Closure({<<i.target, i.name>> :
                                i \in {j \in graph.imports : j.from \in visited}}
                             \cup (graph.entries \X Names),
                           ResolveHop)

(* A named re-export from a file that has the name only through a star.    *)
NamedOverStar ==
    \E t \in TupleSet :
        ~IsStar(t) /\ HasStar(t.source) /\ Target(t) \notin graph.own \cup NamedStubs

-----------------------------------------------------------------------------
(* Type invariant.                                                         *)
TypeOK ==
    /\ graph \in GraphType /\ WellFormed(graph.tuples)
    /\ pc \in {"populate", "reach", "cycles", "propagate", "done"}
    /\ visited \subseteq Files /\ queue \subseteq visited
    /\ exports \subseteq Exports
    /\ refs \in [Exports -> SUBSET Files]
    /\ typeOnly \subseteq exports /\ stubs \subseteq exports
    /\ pos \in 1 .. Len(graph.tuples) + 1
    /\ iteration \in 0 .. SafetyCap
    /\ changed \in BOOLEAN

(* "any reference to A's re-exported symbol should also count as a         *)
(* reference to B's original export (and transitively through the chain)"  *)
(* (re_exports/mod.rs:62): no export that live code can get is reported as *)
(* unused once the chains are resolved.                                    *)
LiveNeverReported ==
    pc = "done" => \A p \in LiveExports : ~Reported(p)

(* The same for projects without a named re-export of a name that its      *)
(* source has only through a star, once a round has changed nothing: for   *)
(* those, neither the order of the tuples nor a cycle loses a reference.   *)
LiveUnlessNamedOverStar == ~NamedOverStar /\ ~changed => LiveNeverReported

(* A file is credited with an export only if a chain of re-exports leads   *)
(* from a name it imports, or exposes as an entry point, to that export:   *)
(* propagation never credits an unrelated export or file.                  *)
CreditSources(c) ==
    {<<i.target, i.name>> : i \in {j \in graph.imports : j.from = c}}
      \cup (IF c \in graph.entries THEN UNION {NamedHop(<<c, n>>) : n \in Names} ELSE {})
      \cup (IF Exposed(c) THEN UNION {StarHop(<<c, n>>) : n \in Names \ {Default}} ELSE {})

LooseHop(p) == NamedHop(p) \cup StarHop(p)

CreditsJustified ==
    pc = "done" =>
        \A c \in Files :
            LET justified == Closure(CreditSources(c), LooseHop)
            IN  \A p \in Exports : c \in refs[p] => p \in justified

(* A tuple that has nothing left to propagate.                             *)
Settled(t) ==
    IF ~IsStar(t)
    THEN Target(t) \in exports =>
             /\ OnBarrel(t) \subseteq refs[Target(t)]
             /\ (OnBarrel(t) = {} /\ t.barrel \in graph.entries)
                   => t.barrel \in refs[Target(t)]
    ELSE IF Exposed(t.barrel)
    THEN \A n \in Names \ {Default} :
             <<t.source, n>> \in exports => t.barrel \in refs[<<t.source, n>>]
    ELSE \A n \in Names :
             StarReaches(t, n) =>
                 /\ <<t.source, n>> \in exports
                 /\ Carried(t.barrel, n) \subseteq refs[<<t.source, n>>]
                 /\ ~(~t.typeOnly /\ <<t.source, n>> \in typeOnly \cap stubs)

(* run_re_export_fixpoint stops on a round that changed nothing only when  *)
(* no tuple has anything left to propagate: an early tuple that a later    *)
(* one of the same round feeds is always given another turn.               *)
QuietRoundSettles ==
    pc = "done" /\ ~changed => \A t \in TupleSet : Settled(t)

(* A reference from a reachable file is only ever on a reachable file:     *)
(* export_has_reachable_reference may judge a reachable file by any        *)
(* reference, and an unreachable file never has a live one.                *)
LiveReferencesReachable ==
    pc \in {"cycles", "propagate", "done"} =>
        \A p \in Exports : refs[p] \cap visited # {} => p[1] \in visited

(* A stub made for an `export *` is type-only exactly when every star that *)
(* carries its name into the file is an `export type *`, whichever came    *)
(* first; the flags of exports that the source wrote are never touched.    *)
StubTypesExact ==
    pc = "done" =>
        /\ \A p \in stubs :
               p \in typeOnly
                 <=> \A t \in TupleSet :
                        /\ IsStar(t) /\ ~Exposed(t.barrel) /\ t.source = p[1]
                        /\ Carried(t.barrel, p[2]) # {}
                        => t.typeOnly
        /\ \A p \in graph.own : p \in typeOnly <=> p \in graph.ownTypes

(* The files that a file's re-exports lead to.                             *)
Leads(f) ==
    LET reached[n \in 0 .. NFiles] ==
            IF n = 0 THEN {f}
            ELSE LET before == reached[n - 1]
                 IN  before \cup {t.source : t \in {u \in TupleSet : u.barrel \in before}}
    IN  reached[NFiles]

(* The cap on the rounds, one more than there are re-exports, never cuts   *)
(* the propagation along re-exports without a cycle short, whatever order  *)
(* of the files a chain runs against (run_re_export_fixpoint).             *)
CapSparesChains ==
    pc = "done" /\ (\A t \in TupleSet : t.barrel \notin Leads(t.source)) => ~changed

=============================================================================
