-------------------------- MODULE ModuleGraphProofs --------------------------
(***************************************************************************)
(* Proofs about ModuleGraph, for every project: any number of files, names,*)
(* re-exports and imports.  The propagation stops on a quiet round only    *)
(* when nothing is left to propagate, and without a cycle the cap always   *)
(* leaves room for one; a reference from a reachable file is only ever on  *)
(* a reachable file; every credit is justified by a chain of re-exports;   *)
(* no export that live code can get is reported, unless a named re-export  *)
(* picks its name out of a star; and the cycle search of ReExportCycles    *)
(* finds exactly the strongly connected components.                        *)
(***************************************************************************)
EXTENDS ReExportCycles, FiniteSetTheorems, TLAPS

\* The tuple of a position, and its names.
LEMMA TupleType ==
  ASSUME TypeOK, NEW i \in 1 .. Len(graph.tuples)
  PROVE  /\ Len(graph.tuples) \in Nat
         /\ graph.tuples[i] \in Tuples
         /\ graph.tuples[i] \in TupleSet
         /\ ~IsStar(graph.tuples[i]) => graph.tuples[i].exported \in Names
         /\ ~IsStar(graph.tuples[i]) => graph.tuples[i].imported \in Names
<1>1. graph.tuples \in Seq(Tuples) /\ WellFormed(graph.tuples)
  BY DEF TypeOK, GraphType
<1>2. Len(graph.tuples) \in Nat /\ graph.tuples[i] \in Tuples
  BY <1>1
<1>3. (graph.tuples[i].imported = Star) = (graph.tuples[i].exported = Star)
  BY <1>1 DEF WellFormed
<1>. QED
  BY <1>2, <1>3 DEF TupleSet, IsStar, Tuples

\* Stubs are exports of discovered files under their names.
LEMMA StubsType ==
  ASSUME TypeOK
  PROVE  NamedStubs \subseteq Exports /\ MemberStubs \subseteq Exports
<1>1. NamedStubs \subseteq Exports
  <2>. SUFFICES ASSUME NEW t \in TupleSet, ~IsStar(t)
                PROVE  <<t.barrel, t.exported>> \in Exports
    BY DEF NamedStubs
  <2>1. PICK i \in 1 .. Len(graph.tuples) : t = graph.tuples[i]
    BY DEF TupleSet
  <2>. QED
    BY <2>1, TupleType DEF Tuples, Exports
<1>2. MemberStubs \subseteq Exports
  <2>1. graph.imports \subseteq Imports
    BY DEF TypeOK, GraphType
  <2>. QED
    BY <2>1 DEF MemberStubs, Imports, Exports
<1>. QED
  BY <1>1, <1>2

\* What an `export *` carries comes from discovered files.
LEMMA CarriedType ==
  ASSUME TypeOK, NEW b \in Files, NEW n \in Names
  PROVE  Carried(b, n) \subseteq Files
<1>1. refs[<<b, n>>] \subseteq Files
  BY DEF TypeOK, Exports
<1>2. graph.imports \subseteq Imports
  BY DEF TypeOK, GraphType
<1>. QED
  BY <1>1, <1>2 DEF Carried, Imports

\* One tuple's propagation keeps the symbols well-typed.
LEMMA PropagateType ==
  ASSUME TypeOK, NEW t \in Tuples, ~IsStar(t) => t.exported \in Names,
         \/ PropagateStar(t) \/ PropagateEntryPointStar(t)
         \/ PropagateNamed(t) \/ PropagateEntryPointNamed(t)
  PROVE  /\ exports' \subseteq Exports
         /\ refs' \in [Exports -> SUBSET Files]
         /\ typeOnly' \subseteq exports' /\ stubs' \subseteq exports'
<1>. t.barrel \in Files /\ t.source \in Files
  BY DEF Tuples
<1>1. CASE PropagateStar(t)
  <2>. DEFINE hit == {<<t.source, n>> : n \in {m \in Names : StarReaches(t, m)}}
              new == hit \ exports
  <2>1. hit \subseteq Exports
    BY DEF Exports
  <2>2. /\ exports' = exports \cup new /\ stubs' = stubs \cup new
        /\ refs' = [p \in Exports |-> IF p \in hit THEN refs[p] \cup Carried(t.barrel, p[2])
                                      ELSE refs[p]]
        /\ typeOnly' = StarTypes(t, hit, new)
    BY <1>1 DEF PropagateStar
  <2>3. \A p \in Exports : p[2] \in Names
    BY DEF Exports
  <2>4. refs' \in [Exports -> SUBSET Files]
    <3>1. \A p \in Exports : refs[p] \subseteq Files /\ Carried(t.barrel, p[2]) \subseteq Files
      BY <2>3, CarriedType DEF TypeOK
    <3>. HIDE DEF hit
    <3>. QED
      BY <2>2, <3>1
  <2>5. StarTypes(t, hit, new) \subseteq exports \cup new
    <3>. HIDE DEF hit, new
    <3>. QED  BY DEF StarTypes, TypeOK
  <2>. HIDE DEF hit
  <2>. QED
    BY <2>1, <2>2, <2>4, <2>5 DEF TypeOK
<1>2. CASE PropagateEntryPointStar(t)
  BY <1>2 DEF PropagateEntryPointStar, TypeOK
<1>3. ASSUME NEW q, NEW who \in SUBSET Files, Credit(q, who)
      PROVE  /\ exports' \subseteq Exports
             /\ refs' \in [Exports -> SUBSET Files]
             /\ typeOnly' \subseteq exports' /\ stubs' \subseteq exports'
  <2>1. exports' = exports /\ typeOnly' = typeOnly /\ stubs' = stubs
    BY <1>3 DEF Credit
  <2>2. refs' \in [Exports -> SUBSET Files]
    <3>1. CASE q \in exports
      BY <1>3, <3>1 DEF Credit, TypeOK
    <3>2. CASE q \notin exports
      BY <1>3, <3>2 DEF Credit, TypeOK
    <3>. QED  BY <3>1, <3>2
  <2>. QED
    BY <2>1, <2>2 DEF TypeOK
<1>4. CASE PropagateNamed(t)
  <2>1. OnBarrel(t) \in SUBSET Files
    BY <1>4 DEF PropagateNamed, OnBarrel, TypeOK, Exports
  <2>. QED
    BY <1>3, <1>4, <2>1 DEF PropagateNamed
<1>5. CASE PropagateEntryPointNamed(t)
  BY <1>3, <1>5 DEF PropagateEntryPointNamed
<1>. QED
  BY <1>1, <1>2, <1>4, <1>5

-----------------------------------------------------------------------------
\* Every project of a family is a well-formed one.
LEMMA InitType == Init => TypeOK
<1>. SUFFICES ASSUME Init PROVE TypeOK
  OBVIOUS
<1>1. PICK family \in Families :
        graph \in [tuples : family.tuples, own : family.own, ownTypes : family.ownTypes,
                   imports : family.imports, entries : family.entries]
  BY DEF Init
<1>2. /\ graph.tuples \in Seq(Tuples) /\ WellFormed(graph.tuples)
      /\ graph.own \in SUBSET Exports /\ graph.ownTypes \in SUBSET Exports
      /\ graph.imports \in SUBSET Imports /\ graph.entries \in SUBSET Files
  BY <1>1, FamiliesAssumption
<1>3. graph = [tuples |-> graph.tuples, own |-> graph.own, ownTypes |-> graph.ownTypes,
               imports |-> graph.imports, entries |-> graph.entries]
  BY <1>1
<1>4. graph \in GraphType
  BY <1>2, <1>3 DEF GraphType
<1>5. Len(graph.tuples) \in Nat
  BY <1>2
<1>6. pos \in 1 .. Len(graph.tuples) + 1 /\ iteration \in 0 .. SafetyCap
  <2>1. pos = 1 /\ iteration = 0
    BY DEF Init
  <2>. QED  BY <1>5, <2>1 DEF SafetyCap
<1>8. changed \in BOOLEAN
  BY DEF Init
<1>7. refs \in [Exports -> SUBSET Files]
  BY DEF Init
<1>. QED
  BY <1>2, <1>4, <1>6, <1>7, <1>8 DEF Init, TypeOK

\* No stub of the fixpoint exists before the graph is populated.
TypeInv == TypeOK /\ (pc = "populate" => stubs = {})

\* The project is fixed by Init.
LEMMA GraphFixed == [Next]_vars => graph' = graph
<1>. SUFFICES ASSUME [Next]_vars PROVE graph' = graph
  OBVIOUS
<1>1. CASE Populate  BY <1>1 DEF Populate
<1>2. ASSUME NEW f \in Files, Visit(f) PROVE graph' = graph  BY <1>2 DEF Visit
<1>3. CASE MarkReachable  BY <1>3 DEF MarkReachable
<1>4. CASE BeginFixpoint  BY <1>4 DEF BeginFixpoint
<1>5. CASE PropagateEntry  BY <1>5 DEF PropagateEntry
<1>6. CASE NextRound  BY <1>6 DEF NextRound
<1>7. CASE EndFixpoint  BY <1>7 DEF EndFixpoint
<1>8. CASE UNCHANGED vars  BY <1>8 DEF vars
<1>. QED
  BY <1>1, <1>2, <1>3, <1>4, <1>5, <1>6, <1>7, <1>8 DEF Next

\* Every phase of the build keeps the types.
LEMMA TypeStep == TypeInv /\ [Next]_vars => TypeInv'
<1>. SUFFICES ASSUME TypeInv, [Next]_vars PROVE TypeInv'
  OBVIOUS
<1>. USE DEF TypeInv
<1>0. graph' = graph
  BY GraphFixed
<1>a. graph.tuples \in Seq(Tuples) /\ Len(graph.tuples) \in Nat
  BY DEF TypeOK, GraphType
<1>1. CASE Populate
  <2>1. NamedStubs \subseteq Exports /\ MemberStubs \subseteq Exports
    BY StubsType
  <2>2. /\ graph.own \subseteq Exports /\ graph.entries \subseteq Files
        /\ graph.imports \subseteq Imports
    BY DEF TypeOK, GraphType
  <2>3. exports' \subseteq Exports /\ typeOnly' \subseteq exports'
    BY <1>1, <2>1, <2>2 DEF Populate
  <2>4. stubs' = {}
    BY <1>1 DEF Populate
  <2>5. refs' \in [Exports -> SUBSET Files]
    <3>1. \A p \in Exports : {i.from : i \in {j \in graph.imports : <<j.target, j.name>> = p}}
                               \subseteq Files
      BY <2>2 DEF Imports
    <3>. QED
      BY <1>1, <3>1 DEF Populate
  <2>. QED
    BY <1>0, <1>1, <2>2, <2>3, <2>4, <2>5 DEF Populate, SafetyCap, TypeOK
<1>2. ASSUME NEW f \in Files, Visit(f) PROVE TypeInv'
  BY <1>0, <1>2 DEF Visit, symbols, TypeOK, SafetyCap
<1>3. CASE MarkReachable
  BY <1>0, <1>3 DEF MarkReachable, symbols, TypeOK, SafetyCap
<1>4. CASE BeginFixpoint
  <2>0. pos' = 1 /\ iteration' = 1 /\ changed' \in BOOLEAN /\ pc' = "propagate"
    BY <1>4 DEF BeginFixpoint
  <2>1. (pos \in 1 .. Len(graph.tuples) + 1)' /\ (iteration \in 0 .. SafetyCap)'
    BY <1>0, <1>a, <2>0 DEF SafetyCap
  <2>. QED
    BY <1>0, <1>4, <2>0, <2>1 DEF BeginFixpoint, symbols, TypeOK
<1>5. CASE PropagateEntry
  <2>. DEFINE t == graph.tuples[pos]
  <2>1. pos \in 1 .. Len(graph.tuples)
    BY <1>5, <1>a DEF PropagateEntry, TypeOK
  <2>2. t \in Tuples /\ (~IsStar(t) => t.exported \in Names)
    BY <2>1, TupleType
  <2>3. /\ \/ PropagateStar(t) \/ PropagateEntryPointStar(t)
           \/ PropagateNamed(t) \/ PropagateEntryPointNamed(t)
        /\ changed' \in BOOLEAN
    BY <1>5 DEF PropagateEntry, NoteChange, TypeOK
  <2>4. /\ exports' \subseteq Exports
        /\ refs' \in [Exports -> SUBSET Files]
        /\ typeOnly' \subseteq exports' /\ stubs' \subseteq exports'
    <3>. HIDE DEF t
    <3>. QED  BY <2>2, <2>3, PropagateType
  <2>5. /\ pos' \in 1 .. Len(graph.tuples) + 1 /\ pc' = "propagate"
        /\ UNCHANGED <<visited, queue, iteration>>
    BY <1>5, <1>a, <2>1 DEF PropagateEntry
  <2>. QED
    BY <1>0, <2>3, <2>4, <2>5 DEF TypeOK, SafetyCap
<1>6. CASE NextRound
  <2>0. /\ pos' = 1 /\ iteration' = iteration + 1 /\ iteration < SafetyCap
        /\ changed' \in BOOLEAN
    BY <1>6 DEF NextRound
  <2>1. (pos \in 1 .. Len(graph.tuples) + 1)' /\ (iteration \in 0 .. SafetyCap)'
    <3>1. iteration \in Nat
      BY <1>a DEF TypeOK, SafetyCap
    <3>. QED  BY <1>0, <1>a, <2>0, <3>1 DEF SafetyCap
  <2>. QED
    BY <1>0, <1>6, <2>0, <2>1 DEF NextRound, symbols, TypeOK
<1>7. CASE EndFixpoint
  BY <1>0, <1>7 DEF EndFixpoint, symbols, TypeOK, SafetyCap
<1>8. CASE UNCHANGED vars
  BY <1>8 DEF vars, TypeOK, SafetyCap
<1>. QED
  BY <1>1, <1>2, <1>3, <1>4, <1>5, <1>6, <1>7, <1>8 DEF Next

\* Types hold in every state of every build.
THEOREM TypeCorrect == Spec => []TypeOK
<1>1. Init => TypeInv
  BY InitType DEF Init, TypeInv
<1>2. TypeInv => TypeOK
  BY DEF TypeInv
<1>. QED
  BY <1>1, <1>2, TypeStep, PTL DEF Spec

-----------------------------------------------------------------------------
\* A tuple whose propagation changes no symbol has nothing left to propagate.
LEMMA StepSettles ==
  ASSUME TypeOK, NEW t \in Tuples,
         ~IsStar(t) => t.exported \in Names /\ t.imported \in Names,
         \/ PropagateStar(t) \/ PropagateEntryPointStar(t)
         \/ PropagateNamed(t) \/ PropagateEntryPointNamed(t),
         UNCHANGED symbols
  PROVE  Settled(t)
<1>. t.barrel \in Files /\ t.source \in Files
  BY DEF Tuples
<1>. UNCHANGED exports /\ UNCHANGED refs /\ UNCHANGED typeOnly /\ UNCHANGED stubs
  BY DEF symbols
<1>1. CASE PropagateStar(t)
  <2>. DEFINE hit == {<<t.source, n>> : n \in {m \in Names : StarReaches(t, m)}}
              new == hit \ exports
  <2>2. /\ exports = exports \cup new
        /\ refs = [p \in Exports |-> IF p \in hit THEN refs[p] \cup Carried(t.barrel, p[2])
                                     ELSE refs[p]]
        /\ typeOnly = StarTypes(t, hit, new)
        /\ IsStar(t) /\ ~Exposed(t.barrel)
    BY <1>1 DEF PropagateStar
  <2>. SUFFICES ASSUME NEW n \in Names, StarReaches(t, n)
                PROVE  /\ <<t.source, n>> \in exports
                       /\ Carried(t.barrel, n) \subseteq refs[<<t.source, n>>]
                       /\ ~(~t.typeOnly /\ <<t.source, n>> \in typeOnly \cap stubs)
    BY <2>2 DEF Settled
  <2>3. <<t.source, n>> \in hit /\ <<t.source, n>> \in Exports
    BY DEF Exports
  <2>. HIDE DEF hit
  <2>4. <<t.source, n>> \in exports
    BY <2>2, <2>3
  <2>5. refs[<<t.source, n>>] = refs[<<t.source, n>>] \cup Carried(t.barrel, n)
    BY <2>2, <2>3
  <2>6. ~t.typeOnly => <<t.source, n>> \notin typeOnly \cap stubs
    BY <2>2, <2>3 DEF StarTypes
  <2>. QED
    BY <2>4, <2>5, <2>6
<1>2. CASE PropagateEntryPointStar(t)
  <2>1. IsStar(t) /\ Exposed(t.barrel)
    BY <1>2 DEF PropagateEntryPointStar
  <2>2. \A n \in Names \ {Default} :
          <<t.source, n>> \in exports => t.barrel \in refs[<<t.source, n>>]
    BY <1>2 DEF PropagateEntryPointStar, Exports
  <2>. QED
    BY <2>1, <2>2 DEF Settled
<1>3. ASSUME NEW who, Credit(Target(t), who), Target(t) \in exports
      PROVE  who \subseteq refs[Target(t)]
  <2>1. Target(t) \in DOMAIN refs
    BY <1>3 DEF TypeOK
  <2>. QED
    BY <1>3, <2>1 DEF Credit
<1>4. CASE PropagateNamed(t)
  BY <1>3, <1>4 DEF PropagateNamed, Settled
<1>5. CASE PropagateEntryPointNamed(t)
  BY <1>3, <1>5 DEF PropagateEntryPointNamed, Settled
<1>. QED
  BY <1>1, <1>2, <1>4, <1>5

\* Whether a tuple is settled depends on the project and the symbols alone.
LEMMA SettledStable ==
  ASSUME graph' = graph, UNCHANGED symbols, NEW t, Settled(t)
  PROVE  Settled(t)'
<1>. UNCHANGED exports /\ UNCHANGED refs /\ UNCHANGED typeOnly /\ UNCHANGED stubs
  BY DEF symbols
<1>1. Exposed(t.barrel)' <=> Exposed(t.barrel)
  BY DEF Exposed
<1>2. \A n : Carried(t.barrel, n)' = Carried(t.barrel, n)
  BY DEF Carried
<1>3. HasStar(t.source)' <=> HasStar(t.source)
  BY DEF HasStar, TupleSet, IsStar
<1>4. \A n : StarReaches(t, n)' <=> StarReaches(t, n)
  BY <1>2, <1>3 DEF StarReaches
<1>. QED
  BY <1>1, <1>2, <1>4 DEF Settled, IsStar, Target, OnBarrel

\* As long as a round has changed nothing, the tuples it has passed are settled.
RoundInv ==
  /\ pc \in {"populate", "reach", "cycles"} => changed = FALSE
  /\ pc = "propagate" /\ ~changed => \A i \in 1 .. pos - 1 : Settled(graph.tuples[i])
  /\ QuietRoundSettles

\* What a quiet round has passed stays settled in every step.
LEMMA RoundStep == TypeInv /\ RoundInv /\ [Next]_vars => RoundInv'
<1>. SUFFICES ASSUME TypeInv, RoundInv, [Next]_vars PROVE RoundInv'
  OBVIOUS
<1>0. graph' = graph
  BY GraphFixed
<1>a. TypeOK /\ Len(graph.tuples) \in Nat
  BY DEF TypeInv, TypeOK, GraphType
<1>1. CASE Populate
  BY <1>1 DEF Populate, RoundInv, QuietRoundSettles
<1>2. ASSUME NEW f \in Files, Visit(f) PROVE RoundInv'
  BY <1>2 DEF Visit, RoundInv, QuietRoundSettles
<1>3. CASE MarkReachable
  <2>1. graph.tuples = << >> => TupleSet' = {}
    BY <1>0 DEF TupleSet
  <2>. QED
    BY <1>0, <1>3, <2>1 DEF MarkReachable, RoundInv, QuietRoundSettles
<1>4. CASE BeginFixpoint
  BY <1>4 DEF BeginFixpoint, RoundInv, QuietRoundSettles
<1>5. CASE PropagateEntry
  <2>. SUFFICES ASSUME ~changed' PROVE \A i \in 1 .. pos : Settled(graph.tuples[i])'
    BY <1>0, <1>5, <1>a DEF PropagateEntry, RoundInv, QuietRoundSettles, TypeOK
  <2>1. ~changed /\ UNCHANGED symbols /\ pc = "propagate"
    BY <1>5 DEF PropagateEntry, NoteChange
  <2>2. pos \in 1 .. Len(graph.tuples)
    BY <1>5, <1>a DEF PropagateEntry, TypeOK
  <2>3. Settled(graph.tuples[pos])
    <3>. DEFINE t == graph.tuples[pos]
    <3>1. t \in Tuples /\ (~IsStar(t) => t.exported \in Names /\ t.imported \in Names)
      BY <1>a, <2>2, TupleType
    <3>2. \/ PropagateStar(t) \/ PropagateEntryPointStar(t)
          \/ PropagateNamed(t) \/ PropagateEntryPointNamed(t)
      BY <1>5 DEF PropagateEntry
    <3>. HIDE DEF t
    <3>3. Settled(t)
      BY <1>a, <2>1, <3>1, <3>2, StepSettles
    <3>. QED  BY <3>3 DEF t
  <2>4. \A i \in 1 .. pos : Settled(graph.tuples[i])
    BY <2>1, <2>2, <2>3 DEF RoundInv
  <2>. TAKE i \in 1 .. pos
  <2>5. ASSUME NEW t, t = graph.tuples[i] PROVE Settled(t)'
    BY <1>0, <2>1, <2>4, <2>5, SettledStable
  <2>. QED
    BY <1>0, <2>5
<1>6. CASE NextRound
  BY <1>6 DEF NextRound, RoundInv, QuietRoundSettles
<1>7. CASE EndFixpoint
  <2>. SUFFICES ASSUME ~changed PROVE \A t \in TupleSet : Settled(t)'
    BY <1>0, <1>7 DEF EndFixpoint, RoundInv, QuietRoundSettles, TupleSet
  <2>1. /\ pc = "propagate" /\ UNCHANGED symbols
        /\ \A i \in 1 .. Len(graph.tuples) : i \in 1 .. pos - 1
    BY <1>7, <1>a DEF EndFixpoint, TypeOK
  <2>2. \A t \in TupleSet : Settled(t)
    BY <2>1 DEF TupleSet, RoundInv
  <2>. QED
    BY <1>0, <2>1, <2>2, SettledStable
<1>8. CASE UNCHANGED vars
  <2>1. /\ UNCHANGED symbols /\ UNCHANGED <<pc, pos, changed>>
        /\ TupleSet' = TupleSet
    BY <1>0, <1>8 DEF vars, symbols, TupleSet
  <2>2. \A t : Settled(t) => Settled(t)'
    BY <1>0, <2>1, SettledStable
  <2>. QED
    BY <1>0, <2>1, <2>2 DEF RoundInv, QuietRoundSettles
<1>. QED
  BY <1>1, <1>2, <1>3, <1>4, <1>5, <1>6, <1>7, <1>8 DEF Next

\* run_re_export_fixpoint ends on a quiet round only when no re-export of any
\* project, in any order of its tuples, has anything left to propagate.
THEOREM QuietRounds == Spec => []QuietRoundSettles
<1>1. Init => TypeInv /\ RoundInv
  BY InitType DEF Init, TypeInv, RoundInv, QuietRoundSettles
<1>2. RoundInv => QuietRoundSettles
  BY DEF RoundInv
<1>. QED
  BY <1>1, <1>2, TypeStep, RoundStep, PTL DEF Spec

-----------------------------------------------------------------------------
\* What the search has passed leads only to what it has found.
SearchInv ==
  /\ pc = "reach" => \A f \in visited \ queue : \A h \in Files : Edge(f, h) => h \in visited
  /\ pc \in {"cycles", "propagate", "done"} =>
       \A f \in visited : \A h \in Files : Edge(f, h) => h \in visited

\* A file that references an export imports it, and once the search is over the
\* export's file is reachable if the referencing one is.
ReferenceInv ==
  /\ pc = "reach" => \A p \in Exports : \A c \in refs[p] : Edge(c, p[1])
  /\ pc \in {"cycles", "propagate", "done"} =>
       \A p \in Exports : \A c \in refs[p] : c \in visited => p[1] \in visited

\* Edges are those of the project.
LEMMA EdgeStable == ASSUME graph' = graph, NEW f, NEW h PROVE Edge(f, h)' <=> Edge(f, h)
  BY DEF Edge, TupleSet

\* Propagation credits a reachable file only on a reachable file.
LEMMA PropagateReachable ==
  ASSUME TypeOK, NEW t \in TupleSet, t \in Tuples,
         ~IsStar(t) => t.exported \in Names,
         \A f \in visited : \A h \in Files : Edge(f, h) => h \in visited,
         \A p \in Exports : \A c \in refs[p] : c \in visited => p[1] \in visited,
         \/ PropagateStar(t) \/ PropagateEntryPointStar(t)
         \/ PropagateNamed(t) \/ PropagateEntryPointNamed(t)
  PROVE  \A p \in Exports : \A c \in refs'[p] : c \in visited => p[1] \in visited
<1>. t.barrel \in Files /\ t.source \in Files
  BY DEF Tuples
<1>0. t.barrel \in visited => t.source \in visited
  BY DEF Edge
<1>. SUFFICES ASSUME NEW p \in Exports, NEW c \in refs'[p], c \in visited
              PROVE  p[1] \in visited
  OBVIOUS
<1>1. CASE PropagateStar(t)
  <2>. DEFINE hit == {<<t.source, n>> : n \in {m \in Names : StarReaches(t, m)}}
  <2>1. c \in refs[p] \/ (p \in hit /\ c \in Carried(t.barrel, p[2]))
    BY <1>1 DEF PropagateStar
  <2>2. p \in hit => p[1] = t.source /\ p[2] \in Names
    OBVIOUS
  <2>3. ASSUME p \in hit, c \in Carried(t.barrel, p[2]) PROVE t.barrel \in visited
    <3>1. <<t.barrel, p[2]>> \in Exports
      BY <2>2, <2>3 DEF Exports
    <3>2. c \in refs[<<t.barrel, p[2]>>] \/ Edge(c, t.barrel)
      BY <2>3 DEF Carried, Edge
    <3>. QED
      BY <3>1, <3>2
  <2>. HIDE DEF hit
  <2>. QED
    BY <1>0, <2>1, <2>2, <2>3
<1>2. CASE PropagateEntryPointStar(t)
  BY <1>0, <1>2 DEF PropagateEntryPointStar
<1>3. ASSUME NEW who, Credit(Target(t), who), c \notin refs[p]
      PROVE  p[1] = t.source /\ c \in who
  <2>1. refs \in [Exports -> SUBSET Files]
    BY DEF TypeOK
  <2>2. Target(t) \in exports /\ refs' = [refs EXCEPT ![Target(t)] = @ \cup who]
    BY <1>3 DEF Credit
  <2>3. p = Target(t) /\ c \in who
    BY <1>3, <2>1, <2>2
  <2>. QED
    BY <2>3 DEF Target
<1>4. CASE PropagateNamed(t)
  <2>1. <<t.barrel, t.exported>> \in Exports
    BY <1>4 DEF PropagateNamed, Exports
  <2>2. c \in OnBarrel(t) => t.barrel \in visited
    BY <2>1 DEF OnBarrel
  <2>. QED
    BY <1>0, <1>3, <1>4, <2>2 DEF PropagateNamed
<1>5. CASE PropagateEntryPointNamed(t)
  BY <1>0, <1>3, <1>5 DEF PropagateEntryPointNamed
<1>. QED
  BY <1>1, <1>2, <1>4, <1>5

\* The search and the references keep to the files it reached in every step.
LEMMA ReachStep ==
  TypeInv /\ SearchInv /\ ReferenceInv /\ [Next]_vars => SearchInv' /\ ReferenceInv'
<1>. SUFFICES ASSUME TypeInv, SearchInv, ReferenceInv, [Next]_vars
              PROVE  SearchInv' /\ ReferenceInv'
  OBVIOUS
<1>0. graph' = graph /\ TypeOK
  BY GraphFixed DEF TypeInv
<1>a. \A f, h : Edge(f, h)' <=> Edge(f, h)
  BY <1>0, EdgeStable
<1>1. CASE Populate
  <2>1. visited' = queue' /\ pc' = "reach"
    BY <1>1 DEF Populate
  <2>2. \A p \in Exports : \A c \in refs'[p] : Edge(c, p[1])
    <3>. SUFFICES ASSUME NEW p \in Exports, NEW c \in refs'[p] PROVE Edge(c, p[1])
      OBVIOUS
    <3>1. PICK i \in graph.imports : <<i.target, i.name>> = p /\ c = i.from
      BY <1>1 DEF Populate
    <3>. QED
      BY <3>1 DEF Edge
  <2>. QED
    BY <1>a, <2>1, <2>2 DEF SearchInv, ReferenceInv
<1>2. ASSUME NEW f \in Files, Visit(f) PROVE SearchInv' /\ ReferenceInv'
  <2>1. /\ pc = "reach" /\ pc' = "reach" /\ refs' = refs /\ f \in queue
        /\ visited' = visited \cup {h \in Files : Edge(f, h) /\ h \notin visited}
        /\ queue' = (queue \ {f}) \cup {h \in Files : Edge(f, h) /\ h \notin visited}
    BY <1>2 DEF Visit, symbols
  <2>2. SearchInv'
    BY <1>a, <2>1 DEF SearchInv
  <2>3. ReferenceInv'
    BY <1>a, <2>1 DEF ReferenceInv
  <2>. QED
    BY <2>2, <2>3
<1>3. CASE MarkReachable
  <2>1. /\ pc = "reach" /\ queue = {} /\ pc' \in {"cycles", "done"}
        /\ refs' = refs /\ visited' = visited
    BY <1>3 DEF MarkReachable, symbols
  <2>2. SearchInv'
    BY <1>a, <2>1 DEF SearchInv
  <2>3. \A p \in Exports : p[1] \in Files
    BY DEF Exports
  <2>4. ReferenceInv'
    BY <1>a, <2>1, <2>3 DEF SearchInv, ReferenceInv
  <2>. QED
    BY <2>2, <2>4
<1>4. CASE BeginFixpoint
  BY <1>a, <1>4 DEF BeginFixpoint, symbols, SearchInv, ReferenceInv
<1>5. CASE PropagateEntry
  <2>. DEFINE t == graph.tuples[pos]
  <2>1. /\ pc = "propagate" /\ pc' = "propagate" /\ visited' = visited
        /\ \/ PropagateStar(t) \/ PropagateEntryPointStar(t)
           \/ PropagateNamed(t) \/ PropagateEntryPointNamed(t)
    BY <1>5 DEF PropagateEntry
  <2>2. pos \in 1 .. Len(graph.tuples)
    BY <1>0, <1>5 DEF PropagateEntry, TypeOK, GraphType
  <2>3. t \in TupleSet /\ t \in Tuples /\ (~IsStar(t) => t.exported \in Names)
    BY <1>0, <2>2, TupleType
  <2>4. SearchInv'
    BY <1>a, <2>1 DEF SearchInv
  <2>. HIDE DEF t
  <2>5. \A p \in Exports : \A c \in refs'[p] : c \in visited => p[1] \in visited
    BY <1>0, <2>1, <2>3, PropagateReachable DEF SearchInv, ReferenceInv
  <2>. QED
    BY <2>1, <2>4, <2>5 DEF ReferenceInv
<1>6. CASE NextRound
  BY <1>a, <1>6 DEF NextRound, symbols, SearchInv, ReferenceInv
<1>7. CASE EndFixpoint
  BY <1>a, <1>7 DEF EndFixpoint, symbols, SearchInv, ReferenceInv
<1>8. CASE UNCHANGED vars
  BY <1>a, <1>8 DEF vars, SearchInv, ReferenceInv
<1>. QED
  BY <1>1, <1>2, <1>3, <1>4, <1>5, <1>6, <1>7, <1>8 DEF Next

\* The breadth-first search and the propagation together: a reference from a
\* reachable file is only ever on a reachable file, in every project, so
\* export_has_reachable_reference may judge a reachable file by any reference.
THEOREM LiveReferences == Spec => []LiveReferencesReachable
<1>1. Init => TypeInv /\ SearchInv /\ ReferenceInv
  BY InitType DEF Init, TypeInv, SearchInv, ReferenceInv
<1>2. ReferenceInv => LiveReferencesReachable
  BY DEF ReferenceInv, LiveReferencesReachable
<1>. QED
  BY <1>1, <1>2, TypeStep, ReachStep, PTL DEF Spec

-----------------------------------------------------------------------------
(* Iterations: the closures of the model are the last member of a sequence  *)
(* of sets, each got from the one before.  As long as a set is not closed   *)
(* the next one is larger, so that after as many steps as the universe has  *)
(* elements nothing is left to add.                                         *)

\* Every nonempty set of numbers has a least member.
LEMMA LeastNumber ==
  ASSUME NEW T \in SUBSET Nat, T # {}
  PROVE  \E x \in T : \A y \in T : x <= y
<1>1. \E x \in T : \A y \in T : ~ (<<y, x>> \in OpToRel(<, Nat))
  BY NatLessThanWellFounded, WFMin
<1>2. PICK x \in T : \A y \in T : ~ (<<y, x>> \in OpToRel(<, Nat))
  BY <1>1
<1>3. \A y \in T : ~(y < x)
  BY <1>2 DEF OpToRel
<1>. QED  BY <1>3

\* R is the sequence of subsets of U that G makes of S in K rounds.
Iterates(R, G, S, U, K) ==
    /\ R \in [0 .. K -> SUBSET U]
    /\ R[0] = S
    /\ \A n \in 1 .. K : R[n] = G[R[n - 1]]

\* An iteration of any length exists.
LEMMA IterationExists ==
  ASSUME NEW U, NEW G \in [SUBSET U -> SUBSET U], NEW S \in SUBSET U, NEW K \in Nat
  PROVE  \E R : Iterates(R, G, S, U, K)
<1>. USE DEF Iterates
<1>. DEFINE Good(k) == \E R : Iterates(R, G, S, U, k)
            Bad == {k \in Nat : ~Good(k)}
<1>. SUFFICES ASSUME Bad # {} PROVE FALSE
  OBVIOUS
<1>1. PICK k \in Bad : \A j \in Bad : k <= j
  <2>. HIDE DEF Good
  <2>. QED  BY LeastNumber
<1>2. Good(0)
  <2>. DEFINE R == [n \in 0 .. 0 |-> S]
  <2>1. R \in [0 .. 0 -> SUBSET U] /\ R[0] = S
    OBVIOUS
  <2>2. \A n \in 1 .. 0 : R[n] = G[R[n - 1]]
    OBVIOUS
  <2>. HIDE DEF R
  <2>. QED  BY <2>1, <2>2
<1>3. k \in Nat /\ k # 0 /\ k - 1 \in Nat
  <2>1. k \in Nat /\ k # 0
    <3>. HIDE DEF Good
    <3>. QED  BY <1>2
  <2>. QED  BY <2>1
<1>4. Good(k - 1)
  <2>. HIDE DEF Good
  <2>. QED  BY <1>1, <1>3
<1>5. PICK R : Iterates(R, G, S, U, k - 1)
  BY <1>4
<1>. DEFINE Q == [n \in 0 .. k |-> IF n = k THEN G[R[k - 1]] ELSE R[n]]
<1>6. Q \in [0 .. k -> SUBSET U]
  BY <1>3, <1>5
<1>7. Q[0] = S
  BY <1>3, <1>5
<1>8. ASSUME NEW n \in 1 .. k PROVE Q[n] = G[Q[n - 1]]
  <2>1. n - 1 \in 0 .. k - 1 /\ n \in 0 .. k /\ n - 1 \in 0 .. k /\ n - 1 # k
    BY <1>3
  <2>2. Q[n - 1] = R[n - 1]
    BY <2>1
  <2>3. CASE n = k
    BY <2>1, <2>2, <2>3
  <2>4. CASE n # k
    <3>1. n \in 1 .. k - 1
      BY <1>3, <2>4
    <3>. QED  BY <1>5, <2>1, <2>2, <2>4, <3>1
  <2>. QED  BY <2>3, <2>4
<1>. HIDE DEF Q
<1>9. Good(k)
  BY <1>6, <1>7, <1>8
<1>. QED  BY <1>1, <1>9

\* A round only adds, and to nothing adds nothing; a round does not leave a set.
Inflates(G, U) == G[{}] = {} /\ \A X \in SUBSET U : X \subseteq G[X]

AtMost(U, K) == IsFiniteSet(U) /\ Cardinality(U) <= K

Fixed(G, X) == G[X] = X

Keeps(G, U, C) == \A X \in SUBSET U : X \subseteq C => G[X] \subseteq C

\* What contains the first set and is closed contains the last one.
LEMMA IterationWithin ==
  ASSUME NEW U, NEW G \in [SUBSET U -> SUBSET U], NEW K \in Nat,
         NEW S, NEW R, Iterates(R, G, S, U, K),
         NEW C, S \subseteq C, Keeps(G, U, C)
  PROVE  R[K] \subseteq C
<1>. USE DEF Iterates, Keeps
<1>. DEFINE Bad == {n \in 0 .. K : ~(R[n] \subseteq C)}
<1>. SUFFICES ASSUME Bad # {} PROVE FALSE
  OBVIOUS
<1>1. PICK k \in Bad : \A j \in Bad : k <= j
  <2>1. Bad \in SUBSET Nat
    OBVIOUS
  <2>. HIDE DEF Bad
  <2>. QED  BY <2>1, LeastNumber
<1>2. k \in 1 .. K /\ k - 1 \in 0 .. K /\ k - 1 \notin Bad
  <2>1. k \in 0 .. K /\ k # 0
    OBVIOUS
  <2>2. k \in 1 .. K /\ k - 1 \in 0 .. K /\ ~(k <= k - 1)
    BY <2>1
  <2>. HIDE DEF Bad
  <2>. QED  BY <1>1, <2>2
<1>3. R[k - 1] \subseteq C /\ R[k] = G[R[k - 1]] /\ R[k - 1] \in SUBSET U
  BY <1>2
<1>. QED  BY <1>1, <1>3

\* The last set contains the first one.
LEMMA IterationGrows ==
  ASSUME NEW U, NEW G \in [SUBSET U -> SUBSET U], Inflates(G, U),
         NEW K \in Nat, NEW S, NEW R, Iterates(R, G, S, U, K)
  PROVE  S \subseteq R[K]
<1>. USE DEF Iterates, Inflates
<1>. DEFINE Bad == {n \in 0 .. K : ~(R[0] \subseteq R[n])}
<1>. SUFFICES ASSUME Bad # {} PROVE FALSE
  OBVIOUS
<1>1. PICK k \in Bad : \A j \in Bad : k <= j
  <2>1. Bad \in SUBSET Nat
    OBVIOUS
  <2>. HIDE DEF Bad
  <2>. QED  BY <2>1, LeastNumber
<1>2. k \in 1 .. K /\ k - 1 \in 0 .. K /\ k - 1 \notin Bad
  <2>1. k \in 0 .. K /\ k # 0
    OBVIOUS
  <2>2. k \in 1 .. K /\ k - 1 \in 0 .. K /\ ~(k <= k - 1)
    BY <2>1
  <2>. HIDE DEF Bad
  <2>. QED  BY <1>1, <2>2
<1>3. R[0] \subseteq R[k - 1] /\ R[k] = G[R[k - 1]] /\ R[k - 1] \in SUBSET U
  BY <1>2
<1>. QED  BY <1>1, <1>3

\* An iteration as long as its universe is large ends in a closed set.
LEMMA IterationCloses ==
  ASSUME NEW U, NEW K \in Nat, AtMost(U, K),
         NEW G \in [SUBSET U -> SUBSET U],
         Inflates(G, U),
         NEW S, NEW R, Iterates(R, G, S, U, K)
  PROVE  Fixed(G, R[K])
<1>. USE DEF Iterates, Inflates, AtMost, Fixed
<1>. DEFINE Open(n) == G[R[n]] # R[n]
            Bad == {n \in 0 .. K : Open(n) /\ ~(Cardinality(R[n]) >= n + 1)}
<1>0. ASSUME NEW X \in SUBSET U
      PROVE  IsFiniteSet(X) /\ Cardinality(X) \in Nat /\ Cardinality(X) <= Cardinality(U)
  BY FS_Subset, FS_CardinalityType
<1>1. Bad = {}
  <2>. SUFFICES ASSUME Bad # {} PROVE FALSE
    OBVIOUS
  <2>1. PICK k \in Bad : \A j \in Bad : k <= j
    <3>1. Bad \in SUBSET Nat
      OBVIOUS
    <3>. HIDE DEF Bad
    <3>. QED  BY <3>1, LeastNumber
  <2>2. CASE k = 0
    <3>1. R[0] \in SUBSET U /\ R[0] # {}
      BY <2>1, <2>2
    <3>2. Cardinality(R[0]) \in Nat /\ Cardinality(R[0]) # 0
      BY <1>0, <3>1, FS_EmptySet
    <3>. QED  BY <2>1, <2>2, <3>2
  <2>3. CASE k # 0
    <3>1. k \in 1 .. K /\ k - 1 \in 0 .. K /\ k - 1 \notin Bad /\ k \in Nat
      BY <2>1, <2>3
    <3>2. R[k] = G[R[k - 1]] /\ R[k] \in SUBSET U /\ R[k - 1] \in SUBSET U
      BY <3>1
    <3>3. Open(k - 1)
      BY <2>1, <3>2
    <3>4. Cardinality(R[k - 1]) >= (k - 1) + 1
      BY <3>1, <3>3
    <3>5. R[k - 1] \in SUBSET R[k] /\ R[k - 1] # R[k]
      BY <3>2, <3>3
    <3>6. /\ Cardinality(R[k - 1]) \in Nat /\ Cardinality(R[k]) \in Nat
          /\ Cardinality(R[k - 1]) <= Cardinality(R[k])
          /\ Cardinality(R[k]) # Cardinality(R[k - 1])
      BY <1>0, <3>2, <3>5, FS_Subset
    <3>7. Cardinality(R[k]) >= k + 1
      BY <3>1, <3>4, <3>6
    <3>. QED  BY <2>1, <3>7
  <2>. QED  BY <2>2, <2>3
<1>2. R[K] \in SUBSET U /\ K \in 0 .. K
  OBVIOUS
<1>3. Cardinality(R[K]) \in Nat /\ Cardinality(U) \in Nat /\ Cardinality(R[K]) <= K
  <2>1. Cardinality(U) \in Nat
    BY FS_CardinalityType
  <2>. QED  BY <1>0, <1>2, <2>1
<1>4. ~Open(K)
  <2>. HIDE DEF Open
  <2>. QED  BY <1>1, <1>2, <1>3
<1>. QED  BY <1>4

-----------------------------------------------------------------------------
(* The closures of the model.                                               *)

MaxHops == NFiles * Cardinality(Names)

\* A project has finitely many exports, as many as Closure makes hops.
LEMMA ExportsFinite ==
  /\ IsFiniteSet(Exports) /\ Cardinality(Exports) = MaxHops /\ MaxHops \in Nat
  /\ IsFiniteSet(Files) /\ Cardinality(Files) = NFiles /\ NFiles \in Nat
<1>1. NFiles \in Nat /\ NFiles > 0
  BY NFilesAssumption
<1>2. 0 \in Int /\ NFiles - 1 \in Int /\ ~(0 > NFiles - 1) /\ (NFiles - 1) - 0 + 1 = NFiles
  BY <1>1
<1>3. IsFiniteSet(Files) /\ Cardinality(Files) = NFiles
  BY <1>2, FS_Interval DEF Files
<1>4. IsFiniteSet(Names) /\ Cardinality(Names) \in Nat
  BY NamesAssumption, FS_CardinalityType
<1>5. IsFiniteSet(Exports) /\ Cardinality(Exports) = Cardinality(Files) * Cardinality(Names)
  BY <1>3, <1>4, FS_Product DEF Exports
<1>6. NFiles * Cardinality(Names) \in Nat
  BY <1>1, <1>4
<1>. QED  BY <1>1, <1>3, <1>5, <1>6 DEF MaxHops

\* Tuples are records of files and names.
LEMMA TupleSetType ==
  ASSUME TypeOK, NEW t \in TupleSet
  PROVE  /\ t \in Tuples /\ t.barrel \in Files /\ t.source \in Files
         /\ ~IsStar(t) => t.exported \in Names /\ t.imported \in Names
<1>1. PICK i \in 1 .. Len(graph.tuples) : t = graph.tuples[i]
  BY DEF TupleSet
<1>2. t \in Tuples /\ (~IsStar(t) => t.exported \in Names /\ t.imported \in Names)
  BY <1>1, TupleType
<1>. QED  BY <1>2 DEF Tuples

\* A hop leads from exports to exports.
LEMMA HopType ==
  ASSUME TypeOK, NEW p \in Exports
  PROVE  /\ NamedHop(p) \subseteq Exports /\ StarHop(p) \subseteq Exports
         /\ LooseHop(p) \subseteq Exports /\ ResolveHop(p) \subseteq Exports
<1>1. p[2] \in Names
  BY DEF Exports
<1>2. NamedHop(p) \subseteq Exports
  BY TupleSetType DEF NamedHop, Target, Exports
<1>3. StarHop(p) \subseteq Exports
  BY <1>1, TupleSetType DEF StarHop, Exports
<1>. QED  BY <1>2, <1>3 DEF LooseHop, ResolveHop

\* What one round of hops adds to a set of exports.
LooseRound == [X \in SUBSET Exports |-> X \cup UNION {LooseHop(p) : p \in X}]

ResolveRound == [X \in SUBSET Exports |-> X \cup UNION {ResolveHop(p) : p \in X}]

\* f is a recursive function whose rounds on subsets of U are those of G.
Follows(f, G, S, U, K) ==
    /\ f = [n \in 0 .. K |-> f[n]]
    /\ f[0] = S
    /\ \A n \in 1 .. K : f[n - 1] \in SUBSET U => f[n] = G[f[n - 1]]

\* Such a function is an iteration.
LEMMA RecursionIterates ==
  ASSUME NEW U, NEW G \in [SUBSET U -> SUBSET U], NEW S \in SUBSET U, NEW K \in Nat,
         NEW f, Follows(f, G, S, U, K)
  PROVE  Iterates(f, G, S, U, K)
<1>. USE DEF Follows
<1>. DEFINE Bad == {n \in 0 .. K : f[n] \notin SUBSET U}
<1>1. Bad = {}
  <2>. SUFFICES ASSUME Bad # {} PROVE FALSE
    OBVIOUS
  <2>1. PICK k \in Bad : \A j \in Bad : k <= j
    <3>1. Bad \in SUBSET Nat
      OBVIOUS
    <3>. HIDE DEF Bad
    <3>. QED  BY <3>1, LeastNumber
  <2>2. k \in 0 .. K /\ k # 0
    OBVIOUS
  <2>3. k \in 1 .. K /\ k - 1 \in 0 .. K /\ ~(k <= k - 1)
    BY <2>2
  <2>4. k - 1 \notin Bad
    <3>. HIDE DEF Bad
    <3>. QED  BY <2>1, <2>3
  <2>5. f[k - 1] \in SUBSET U
    BY <2>3, <2>4
  <2>6. f[k] = G[f[k - 1]]
    BY <2>3, <2>5
  <2>. QED  BY <2>1, <2>5, <2>6
<1>2. \A n \in 0 .. K : f[n] \in SUBSET U
  BY <1>1
<1>3. f \in [0 .. K -> SUBSET U]
  BY <1>2
<1>4. \A n \in 1 .. K : n - 1 \in 0 .. K
  OBVIOUS
<1>. QED  BY <1>2, <1>3, <1>4 DEF Iterates

\* Closure is the last set of an iteration: for hops of any kind of re-export.
LEMMA LooseClosureIterates ==
  ASSUME TypeOK, NEW S \in SUBSET Exports
  PROVE  \E R : /\ Iterates(R, LooseRound, S, Exports, MaxHops)
               /\ Closure(S, LooseHop) = R[MaxHops]
<1>. DEFINE H(X) == X \cup UNION {LooseHop(p) : p \in X}
            Def(g) == [n \in 0 .. MaxHops |->
                          IF n = 0 THEN S ELSE LET before == g[n - 1] IN H(before)]
            f == CHOOSE g : g = Def(g)
<1>0. MaxHops \in Nat
  BY ExportsFinite
<1>1. LooseRound \in [SUBSET Exports -> SUBSET Exports]
  BY HopType DEF LooseRound
<1>2. \A X \in SUBSET Exports : LooseRound[X] = H(X)
  BY DEF LooseRound
<1>3. Closure(S, LooseHop) = f[MaxHops]
  BY DEF Closure, MaxHops
<1>. HIDE DEF H
<1>4. \E g : g = Def(g)
  <2>1. PICK R : Iterates(R, LooseRound, S, Exports, MaxHops)
    BY <1>0, <1>1, IterationExists, Zenon
  <2>2. ASSUME NEW n \in 0 .. MaxHops PROVE R[n] = IF n = 0 THEN S ELSE H(R[n - 1])
    <3>1. CASE n = 0
      BY <2>1, <3>1 DEF Iterates
    <3>2. CASE n # 0
      <4>1. n \in 1 .. MaxHops /\ n - 1 \in 0 .. MaxHops
        BY <1>0, <3>2
      <4>. QED  BY <1>2, <2>1, <3>2, <4>1 DEF Iterates
    <3>. QED  BY <3>1, <3>2
  <2>3. R = Def(R)
    BY <2>1, <2>2 DEF Iterates
  <2>. QED  BY <2>3
<1>5. f = Def(f)
  <2>. HIDE DEF Def
  <2>. QED  BY <1>4
<1>. HIDE DEF f
<1>6. Follows(f, LooseRound, S, Exports, MaxHops)
  <2>1. /\ f = [n \in 0 .. MaxHops |-> f[n]] /\ f[0] = S
        /\ \A n \in 1 .. MaxHops : f[n] = H(f[n - 1])
    BY <1>0, <1>5
  <2>. QED  BY <1>2, <2>1 DEF Follows
<1>7. Iterates(f, LooseRound, S, Exports, MaxHops)
  BY <1>0, <1>1, <1>6, RecursionIterates, Zenon
<1>. QED  BY <1>3, <1>7

\* The same for hops as ECMAScript resolves names.
LEMMA ResolveClosureIterates ==
  ASSUME TypeOK, NEW S \in SUBSET Exports
  PROVE  \E R : /\ Iterates(R, ResolveRound, S, Exports, MaxHops)
               /\ Closure(S, ResolveHop) = R[MaxHops]
<1>. DEFINE H(X) == X \cup UNION {ResolveHop(p) : p \in X}
            Def(g) == [n \in 0 .. MaxHops |->
                          IF n = 0 THEN S ELSE LET before == g[n - 1] IN H(before)]
            f == CHOOSE g : g = Def(g)
<1>0. MaxHops \in Nat
  BY ExportsFinite
<1>1. ResolveRound \in [SUBSET Exports -> SUBSET Exports]
  BY HopType DEF ResolveRound
<1>2. \A X \in SUBSET Exports : ResolveRound[X] = H(X)
  BY DEF ResolveRound
<1>3. Closure(S, ResolveHop) = f[MaxHops]
  BY DEF Closure, MaxHops
<1>. HIDE DEF H
<1>4. \E g : g = Def(g)
  <2>1. PICK R : Iterates(R, ResolveRound, S, Exports, MaxHops)
    BY <1>0, <1>1, IterationExists, Zenon
  <2>2. ASSUME NEW n \in 0 .. MaxHops PROVE R[n] = IF n = 0 THEN S ELSE H(R[n - 1])
    <3>1. CASE n = 0
      BY <2>1, <3>1 DEF Iterates
    <3>2. CASE n # 0
      <4>1. n \in 1 .. MaxHops /\ n - 1 \in 0 .. MaxHops
        BY <1>0, <3>2
      <4>. QED  BY <1>2, <2>1, <3>2, <4>1 DEF Iterates
    <3>. QED  BY <3>1, <3>2
  <2>3. R = Def(R)
    BY <2>1, <2>2 DEF Iterates
  <2>. QED  BY <2>3
<1>5. f = Def(f)
  <2>. HIDE DEF Def
  <2>. QED  BY <1>4
<1>. HIDE DEF f
<1>6. Follows(f, ResolveRound, S, Exports, MaxHops)
  <2>1. /\ f = [n \in 0 .. MaxHops |-> f[n]] /\ f[0] = S
        /\ \A n \in 1 .. MaxHops : f[n] = H(f[n - 1])
    BY <1>0, <1>5
  <2>. QED  BY <1>2, <2>1 DEF Follows
<1>7. Iterates(f, ResolveRound, S, Exports, MaxHops)
  BY <1>0, <1>1, <1>6, RecursionIterates, Zenon
<1>. QED  BY <1>3, <1>7

\* One round over the stars of a set of files.
StarRound == [X \in SUBSET Files |-> X \cup StarTargets(graph, X)]

\* The targets of stars are files, and those of no file are none.
LEMMA StarTargetsType ==
  ASSUME TypeOK, NEW X
  PROVE  /\ StarTargets(graph, X) \in SUBSET Files
         /\ StarTargets(graph, {}) = {}
         /\ \A t \in TupleSet : IsStar(t) /\ t.barrel \in X => t.source \in StarTargets(graph, X)
<1>1. \A i \in 1 .. Len(graph.tuples) : graph.tuples[i].source \in Files
  BY TupleType DEF Tuples
<1>. QED  BY <1>1 DEF StarTargets, TupleSet

\* EntryStarTargets is the last set of an iteration.
LEMMA EntryStarsIterate ==
  ASSUME TypeOK
  PROVE  \E R : /\ Iterates(R, StarRound, StarTargets(graph, graph.entries), Files, NFiles)
               /\ EntryStarTargets(graph) = R[NFiles]
<1>. DEFINE S == StarTargets(graph, graph.entries)
            H(X) == X \cup StarTargets(graph, X)
            Def(g) == [n \in 0 .. NFiles |->
                          IF n = 0 THEN S ELSE LET before == g[n - 1] IN H(before)]
            f == CHOOSE g : g = Def(g)
<1>0. NFiles \in Nat
  BY ExportsFinite
<1>1. StarRound \in [SUBSET Files -> SUBSET Files] /\ S \in SUBSET Files
  BY StarTargetsType DEF StarRound
<1>2. \A X \in SUBSET Files : StarRound[X] = H(X)
  BY DEF StarRound
<1>3. EntryStarTargets(graph) = f[NFiles]
  BY DEF EntryStarTargets
<1>. HIDE DEF H, S
<1>4. \E g : g = Def(g)
  <2>1. PICK R : Iterates(R, StarRound, S, Files, NFiles)
    BY <1>0, <1>1, IterationExists, Zenon
  <2>2. ASSUME NEW n \in 0 .. NFiles PROVE R[n] = IF n = 0 THEN S ELSE H(R[n - 1])
    <3>1. CASE n = 0
      BY <2>1, <3>1 DEF Iterates
    <3>2. CASE n # 0
      <4>1. n \in 1 .. NFiles /\ n - 1 \in 0 .. NFiles
        BY <1>0, <3>2
      <4>. QED  BY <1>2, <2>1, <3>2, <4>1 DEF Iterates
    <3>. QED  BY <3>1, <3>2
  <2>3. R = Def(R)
    BY <2>1, <2>2 DEF Iterates
  <2>. QED  BY <2>3
<1>5. f = Def(f)
  <2>. HIDE DEF Def
  <2>. QED  BY <1>4
<1>. HIDE DEF f
<1>6. Follows(f, StarRound, S, Files, NFiles)
  <2>1. /\ f = [n \in 0 .. NFiles |-> f[n]] /\ f[0] = S
        /\ \A n \in 1 .. NFiles : f[n] = H(f[n - 1])
    BY <1>0, <1>5
  <2>. QED  BY <1>2, <2>1 DEF Follows
<1>7. Iterates(f, StarRound, S, Files, NFiles)
  BY <1>0, <1>1, <1>6, RecursionIterates, Zenon
<1>. QED  BY <1>3, <1>7 DEF S

\* The closure of a set of exports contains it and everything a hop leads to.
LEMMA LooseClosed ==
  ASSUME TypeOK, NEW S \in SUBSET Exports
  PROVE  /\ S \subseteq Closure(S, LooseHop) /\ Closure(S, LooseHop) \subseteq Exports
         /\ \A p \in Closure(S, LooseHop) : LooseHop(p) \subseteq Closure(S, LooseHop)
<1>1. PICK R : /\ Iterates(R, LooseRound, S, Exports, MaxHops)
               /\ Closure(S, LooseHop) = R[MaxHops]
  BY LooseClosureIterates, Zenon
<1>2. LooseRound \in [SUBSET Exports -> SUBSET Exports]
  BY HopType DEF LooseRound
<1>3. Inflates(LooseRound, Exports)
  BY DEF LooseRound, Inflates
<1>4. AtMost(Exports, MaxHops) /\ MaxHops \in Nat
  BY ExportsFinite DEF AtMost
<1>5. S \subseteq R[MaxHops]
  BY <1>1, <1>2, <1>3, <1>4, IterationGrows, Zenon
<1>6. Fixed(LooseRound, R[MaxHops])
  BY <1>1, <1>2, <1>3, <1>4, IterationCloses, Zenon
<1>7. R[MaxHops] \in SUBSET Exports
  BY <1>1, <1>4 DEF Iterates
<1>8. \A p \in R[MaxHops] : LooseHop(p) \subseteq LooseRound[R[MaxHops]]
  BY <1>7 DEF LooseRound
<1>. QED  BY <1>1, <1>5, <1>6, <1>7, <1>8 DEF Fixed

\* What a set of names resolves to stays in every set that resolution does not leave.
LEMMA ResolveWithin ==
  ASSUME TypeOK, NEW S \in SUBSET Exports, NEW C, S \subseteq C,
         \A p \in Exports : p \in C => ResolveHop(p) \subseteq C
  PROVE  Closure(S, ResolveHop) \subseteq C
<1>1. PICK R : /\ Iterates(R, ResolveRound, S, Exports, MaxHops)
               /\ Closure(S, ResolveHop) = R[MaxHops]
  BY ResolveClosureIterates, Zenon
<1>2. ResolveRound \in [SUBSET Exports -> SUBSET Exports]
  BY HopType DEF ResolveRound
<1>3. Keeps(ResolveRound, Exports, C)
  BY DEF ResolveRound, Keeps
<1>4. MaxHops \in Nat
  BY ExportsFinite
<1>5. R[MaxHops] \subseteq C
  BY <1>1, <1>2, <1>3, <1>4, IterationWithin, Zenon
<1>. QED  BY <1>1, <1>5

\* The star of a file that an entry point exposes exposes its source.
LEMMA ExposedClosed ==
  ASSUME TypeOK, NEW t \in TupleSet, IsStar(t), Exposed(t.barrel)
  PROVE  Exposed(t.source)
<1>. DEFINE S == StarTargets(graph, graph.entries)
<1>1. PICK R : Iterates(R, StarRound, S, Files, NFiles) /\ EntryStarTargets(graph) = R[NFiles]
  BY EntryStarsIterate, Zenon
<1>2. StarRound \in [SUBSET Files -> SUBSET Files]
  BY StarTargetsType DEF StarRound
<1>3. Inflates(StarRound, Files)
  BY StarTargetsType DEF StarRound, Inflates
<1>4. AtMost(Files, NFiles) /\ NFiles \in Nat
  BY ExportsFinite DEF AtMost
<1>. HIDE DEF S
<1>5. S \subseteq R[NFiles]
  BY <1>1, <1>2, <1>3, <1>4, IterationGrows, Zenon
<1>6. Fixed(StarRound, R[NFiles])
  BY <1>1, <1>2, <1>3, <1>4, IterationCloses, Zenon
<1>7. R[NFiles] \in SUBSET Files
  BY <1>1, <1>4 DEF Iterates
<1>8. CASE t.barrel \in graph.entries
  <2>1. t.source \in S
    BY <1>8, StarTargetsType DEF S
  <2>. QED  BY <1>1, <1>5, <2>1 DEF Exposed
<1>9. CASE t.barrel \in R[NFiles]
  <2>1. t.source \in StarTargets(graph, R[NFiles])
    BY <1>9, StarTargetsType
  <2>2. t.source \in StarRound[R[NFiles]]
    BY <1>7, <2>1 DEF StarRound
  <2>. QED  BY <1>1, <1>6, <2>2 DEF Exposed, Fixed
<1>. QED  BY <1>1, <1>8, <1>9 DEF Exposed

-----------------------------------------------------------------------------
\* A set of exports that justifies every credit of a file: what the file
\* imports or exposes is in it, and no re-export leads out of it.
Justifies(C, c) ==
  /\ CreditSources(c) \subseteq C
  /\ \A q \in C : LooseHop(q) \subseteq C

\* Credits stay within every such set.
CreditInv ==
  \A c \in Files : \A C \in SUBSET Exports :
      Justifies(C, c) => \A p \in Exports : c \in refs[p] => p \in C

\* What justifies a credit depends on the project alone.
LEMMA JustifiesStable ==
  ASSUME graph' = graph, NEW C, NEW c
  PROVE  Justifies(C, c)' <=> Justifies(C, c)
<1>1. TupleSet' = TupleSet /\ (Exposed(c)' <=> Exposed(c))
  BY DEF TupleSet, Exposed
<1>2. \A q : NamedHop(q)' = NamedHop(q) /\ StarHop(q)' = StarHop(q)
  BY <1>1 DEF NamedHop, StarHop, IsStar, Target
<1>3. CreditSources(c)' = CreditSources(c)
  BY <1>1, <1>2 DEF CreditSources
<1>. QED  BY <1>2, <1>3 DEF Justifies, LooseHop

\* What a file imports or exposes is an export of some file.
LEMMA CreditSourcesType ==
  ASSUME TypeOK, NEW c \in Files
  PROVE  CreditSources(c) \in SUBSET Exports
<1>1. graph.imports \subseteq Imports
  BY DEF TypeOK, GraphType
<1>2. {<<i.target, i.name>> : i \in {j \in graph.imports : j.from = c}} \subseteq Exports
  BY <1>1 DEF Imports, Exports
<1>3. \A n \in Names : NamedHop(<<c, n>>) \subseteq Exports /\ StarHop(<<c, n>>) \subseteq Exports
  BY HopType DEF Exports
<1>. QED  BY <1>2, <1>3 DEF CreditSources

\* One tuple's propagation keeps the credits of a file within a justifying set.
LEMMA PropagateJustified ==
  ASSUME TypeOK, NEW t \in TupleSet, NEW c \in Files, NEW C \in SUBSET Exports,
         Justifies(C, c), \A q \in Exports : c \in refs[q] => q \in C,
         \/ PropagateStar(t) \/ PropagateEntryPointStar(t)
         \/ PropagateNamed(t) \/ PropagateEntryPointNamed(t),
         NEW p \in Exports, c \in refs'[p]
  PROVE  p \in C
<1>0. /\ t.barrel \in Files /\ t.source \in Files
      /\ ~IsStar(t) => t.exported \in Names /\ t.imported \in Names
  BY TupleSetType
<1>a. p = <<p[1], p[2]>> /\ p[2] \in Names
  BY DEF Exports
<1>b. ASSUME NEW q \in C, p \in LooseHop(q) PROVE p \in C
  BY <1>b DEF Justifies
<1>1. CASE PropagateStar(t)
  <2>. DEFINE q == <<t.barrel, p[2]>>
              hit == {<<t.source, n>> : n \in {m \in Names : StarReaches(t, m)}}
  <2>1. c \in refs[p] \/ (p \in hit /\ c \in Carried(t.barrel, p[2]))
    BY <1>1 DEF PropagateStar
  <2>2. ASSUME p \in hit, c \in Carried(t.barrel, p[2]) PROVE p \in C
    <3>1. q \in Exports /\ p = <<t.source, p[2]>>
      BY <1>0, <1>a, <2>2 DEF Exports
    <3>2. c \in refs[q] \/ q \in CreditSources(c)
      BY <2>2 DEF Carried, CreditSources
    <3>3. q \in C
      BY <3>1, <3>2 DEF Justifies
    <3>4. p \in StarHop(q)
      BY <1>1, <3>1 DEF PropagateStar, StarHop
    <3>. QED  BY <1>b, <3>3, <3>4 DEF LooseHop
  <2>. HIDE DEF hit
  <2>. QED  BY <2>1, <2>2
<1>2. CASE PropagateEntryPointStar(t)
  <2>1. c \in refs[p] \/ (c = t.barrel /\ p[1] = t.source /\ p[2] # Default)
    BY <1>2 DEF PropagateEntryPointStar
  <2>2. ASSUME c = t.barrel, p[1] = t.source, p[2] # Default PROVE p \in C
    <3>1. Exposed(c) /\ IsStar(t)
      BY <1>2, <2>2 DEF PropagateEntryPointStar
    <3>2. p \in StarHop(<<c, p[2]>>)
      BY <1>a, <2>2, <3>1 DEF StarHop
    <3>3. p \in CreditSources(c)
      BY <1>a, <2>2, <3>1, <3>2 DEF CreditSources
    <3>. QED  BY <3>3 DEF Justifies
  <2>. QED  BY <2>1, <2>2
<1>3. ASSUME NEW who, Credit(Target(t), who), c \notin refs[p]
      PROVE  p = Target(t) /\ c \in who
  BY <1>3 DEF Credit, TypeOK
<1>4. CASE PropagateNamed(t)
  <2>1. c \notin refs[p] => p = Target(t) /\ c \in refs[<<t.barrel, t.exported>>]
    BY <1>3, <1>4 DEF PropagateNamed, OnBarrel
  <2>2. <<t.barrel, t.exported>> \in Exports /\ ~IsStar(t)
    BY <1>0, <1>4 DEF PropagateNamed, Exports
  <2>3. p = Target(t) => p \in LooseHop(<<t.barrel, t.exported>>)
    BY <2>2 DEF LooseHop, NamedHop
  <2>. QED  BY <1>b, <2>1, <2>2, <2>3
<1>5. CASE PropagateEntryPointNamed(t)
  <2>1. c \notin refs[p] => p = Target(t) /\ c = t.barrel
    BY <1>3, <1>5 DEF PropagateEntryPointNamed
  <2>2. ~IsStar(t) /\ t.barrel \in graph.entries /\ t.exported \in Names
    BY <1>0, <1>5 DEF PropagateEntryPointNamed
  <2>3. p = Target(t) /\ c = t.barrel => p \in NamedHop(<<c, t.exported>>)
    BY <2>2 DEF NamedHop
  <2>4. p = Target(t) /\ c = t.barrel => p \in CreditSources(c)
    BY <2>2, <2>3 DEF CreditSources
  <2>. QED  BY <2>1, <2>4 DEF Justifies
<1>. QED  BY <1>1, <1>2, <1>4, <1>5

\* Every step keeps credits justified.
LEMMA CreditStep == TypeInv /\ CreditInv /\ [Next]_vars => CreditInv'
<1>. SUFFICES ASSUME TypeInv, CreditInv, [Next]_vars PROVE CreditInv'
  OBVIOUS
<1>0. graph' = graph /\ TypeOK
  BY GraphFixed DEF TypeInv
<1>. SUFFICES ASSUME NEW c \in Files, NEW C \in SUBSET Exports, Justifies(C, c)',
                     NEW p \in Exports, c \in refs'[p]
              PROVE  p \in C
  BY DEF CreditInv
<1>a. Justifies(C, c)
  BY <1>0, JustifiesStable
<1>b. \A q \in Exports : c \in refs[q] => q \in C
  BY <1>a DEF CreditInv
<1>1. CASE Populate
  <2>1. PICK i \in graph.imports : <<i.target, i.name>> = p /\ c = i.from
    BY <1>1 DEF Populate
  <2>. QED  BY <1>a, <2>1 DEF Justifies, CreditSources
<1>2. CASE UNCHANGED refs
  BY <1>b, <1>2
<1>3. CASE PropagateEntry
  <2>. DEFINE t == graph.tuples[pos]
  <2>1. \/ PropagateStar(t) \/ PropagateEntryPointStar(t)
        \/ PropagateNamed(t) \/ PropagateEntryPointNamed(t)
    BY <1>3 DEF PropagateEntry
  <2>2. pos \in 1 .. Len(graph.tuples)
    BY <1>0, <1>3 DEF PropagateEntry, TypeOK, GraphType
  <2>3. t \in TupleSet
    BY <1>0, <2>2, TupleType
  <2>. HIDE DEF t
  <2>. QED  BY <1>0, <1>a, <1>b, <2>1, <2>3, PropagateJustified
<1>. QED
  BY <1>1, <1>2, <1>3 DEF Next, Visit, MarkReachable, BeginFixpoint, NextRound, EndFixpoint,
     symbols, vars

\* Propagation never credits a file with an export that no chain of re-exports
\* leads to from a name the file imports, or exposes as an entry point: in
\* every project, with cycles and in any order of the tuples.
THEOREM CreditsAreJustified == Spec => []CreditsJustified
<1>1. Init => TypeInv /\ CreditInv
  BY InitType DEF Init, TypeInv, CreditInv
<1>2. TypeInv /\ CreditInv => CreditsJustified
  <2>. SUFFICES ASSUME TypeOK, CreditInv, NEW c \in Files, NEW p \in Exports, c \in refs[p]
                PROVE  p \in Closure(CreditSources(c), LooseHop)
    BY DEF TypeInv, CreditsJustified
  <2>. DEFINE C == Closure(CreditSources(c), LooseHop)
  <2>1. CreditSources(c) \in SUBSET Exports
    BY CreditSourcesType
  <2>2. C \in SUBSET Exports /\ CreditSources(c) \subseteq C /\ \A q \in C : LooseHop(q) \subseteq C
    BY <2>1, LooseClosed
  <2>. HIDE DEF C
  <2>3. p \in C
    BY <2>2 DEF CreditInv, Justifies
  <2>. QED  BY <2>3 DEF C
<1>. QED
  BY <1>1, <1>2, TypeStep, CreditStep, PTL DEF Spec

-----------------------------------------------------------------------------
\* One tuple's propagation takes no export and no reference away, and a stub
\* it makes carries a reference.
LEMMA PropagateGrows ==
  ASSUME TypeOK, NEW t \in TupleSet,
         \/ PropagateStar(t) \/ PropagateEntryPointStar(t)
         \/ PropagateNamed(t) \/ PropagateEntryPointNamed(t)
  PROVE  /\ exports \subseteq exports'
         /\ \A p \in Exports : refs[p] \subseteq refs'[p]
         /\ \A p \in Exports : p \in exports' \ exports => refs'[p] # {}
<1>1. CASE PropagateStar(t)
  <2>. DEFINE hit == {<<t.source, n>> : n \in {m \in Names : StarReaches(t, m)}}
              new == hit \ exports
  <2>1. /\ exports' = exports \cup new
        /\ refs' = [p \in Exports |-> IF p \in hit THEN refs[p] \cup Carried(t.barrel, p[2])
                                      ELSE refs[p]]
    BY <1>1 DEF PropagateStar
  <2>2. ASSUME NEW p \in hit PROVE Carried(t.barrel, p[2]) # {}
    <3>1. PICK n \in Names : p = <<t.source, n>> /\ StarReaches(t, n)
      OBVIOUS
    <3>. QED  BY <3>1 DEF StarReaches
  <2>. HIDE DEF hit
  <2>. QED  BY <2>1, <2>2
<1>2. CASE PropagateEntryPointStar(t)
  BY <1>2 DEF PropagateEntryPointStar
<1>3. ASSUME NEW q, NEW who, Credit(q, who)
      PROVE  exports' = exports /\ \A p \in Exports : refs[p] \subseteq refs'[p]
  BY <1>3 DEF Credit, TypeOK
<1>4. CASE PropagateNamed(t)
  BY <1>3, <1>4 DEF PropagateNamed
<1>5. CASE PropagateEntryPointNamed(t)
  BY <1>3, <1>5 DEF PropagateEntryPointNamed
<1>. QED  BY <1>1, <1>2, <1>4, <1>5

\* The graph is built: every export and stub the project asks for exists, an
\* imported export has a reference, and the entry points are reached.
BuiltInv ==
  pc # "populate" =>
    /\ graph.own \subseteq exports /\ NamedStubs \subseteq exports
    /\ MemberStubs \subseteq exports /\ graph.entries \subseteq visited
    /\ \A i \in graph.imports :
           <<i.target, i.name>> \in exports => refs[<<i.target, i.name>>] # {}

\* Which stubs the project asks for depends on the project alone.
LEMMA StubsStable ==
  ASSUME graph' = graph
  PROVE  NamedStubs' = NamedStubs /\ MemberStubs' = MemberStubs
<1>1. TupleSet' = TupleSet /\ \A f : HasStar(f)' <=> HasStar(f)
  BY DEF TupleSet, HasStar, IsStar
<1>. QED  BY <1>1 DEF NamedStubs, MemberStubs, IsStar

\* Nothing the graph was built with is lost in a later step.
LEMMA BuiltStep == TypeInv /\ BuiltInv /\ [Next]_vars => BuiltInv'
<1>. SUFFICES ASSUME TypeInv, BuiltInv, [Next]_vars PROVE BuiltInv'
  OBVIOUS
<1>0. graph' = graph /\ TypeOK
  BY GraphFixed DEF TypeInv
<1>a. NamedStubs' = NamedStubs /\ MemberStubs' = MemberStubs
  BY <1>0, StubsStable
<1>b. \A i \in graph.imports : <<i.target, i.name>> \in Exports
  BY <1>0 DEF TypeOK, GraphType, Imports, Exports
<1>1. CASE Populate
  <2>1. /\ exports' = graph.own \cup NamedStubs \cup MemberStubs
        /\ visited' = graph.entries
    BY <1>1 DEF Populate
  <2>2. \A i \in graph.imports : <<i.target, i.name>> \in exports'
                                   => i.from \in refs'[<<i.target, i.name>>]
    BY <1>b, <1>1 DEF Populate
  <2>. QED  BY <1>0, <1>a, <2>1, <2>2 DEF BuiltInv
<1>2. CASE UNCHANGED <<exports, refs>> /\ pc # "populate" /\ visited \subseteq visited'
  BY <1>0, <1>a, <1>2 DEF BuiltInv
<1>3. CASE PropagateEntry
  <2>. DEFINE t == graph.tuples[pos]
  <2>1. /\ \/ PropagateStar(t) \/ PropagateEntryPointStar(t)
           \/ PropagateNamed(t) \/ PropagateEntryPointNamed(t)
        /\ pc # "populate" /\ visited' = visited
    BY <1>3 DEF PropagateEntry
  <2>2. pos \in 1 .. Len(graph.tuples)
    BY <1>0, <1>3 DEF PropagateEntry, TypeOK, GraphType
  <2>3. t \in TupleSet
    BY <1>0, <2>2, TupleType
  <2>. HIDE DEF t
  <2>4. /\ exports \subseteq exports'
        /\ \A p \in Exports : refs[p] \subseteq refs'[p]
        /\ \A p \in Exports : p \in exports' \ exports => refs'[p] # {}
    BY <1>0, <2>1, <2>3, PropagateGrows
  <2>5. ASSUME NEW i \in graph.imports, <<i.target, i.name>> \in exports'
        PROVE  refs'[<<i.target, i.name>>] # {}
    BY <1>b, <2>1, <2>4, <2>5 DEF BuiltInv
  <2>. QED  BY <1>0, <1>a, <2>1, <2>4, <2>5 DEF BuiltInv
<1>4. CASE UNCHANGED vars
  BY <1>0, <1>a, <1>4 DEF vars, BuiltInv
<1>. QED
  BY <1>1, <1>2, <1>3, <1>4 DEF Next, Visit, MarkReachable, BeginFixpoint, NextRound,
     EndFixpoint, symbols

\* A name that live code can get, as the report sees it: it is on a reachable
\* file, and is skipped there, or has a reference, or exists nowhere on the
\* file but is carried on by its stars.
Covered(p) ==
  /\ p[1] \in visited
  /\ \/ p[1] \in graph.entries
     \/ p \in exports /\ refs[p] # {}
     \/ /\ p \notin exports
        /\ HasStar(p[1]) /\ p[2] # Default => Carried(p[1], p[2]) # {} \/ Exposed(p[1])

\* What the proof needs of a finished build.
Finished ==
  /\ TypeOK /\ pc = "done" /\ ~NamedOverStar
  /\ \A t \in TupleSet : Settled(t)
  /\ \A f \in visited : \A h \in Files : Edge(f, h) => h \in visited
  /\ graph.own \subseteq exports /\ NamedStubs \subseteq exports
  /\ MemberStubs \subseteq exports /\ graph.entries \subseteq visited
  /\ \A i \in graph.imports :
         <<i.target, i.name>> \in exports => refs[<<i.target, i.name>>] # {}

\* The names live code starts from are covered.
LEMMA SourcesCovered ==
  ASSUME Finished
  PROVE  /\ \A i \in graph.imports : i.from \in visited => Covered(<<i.target, i.name>>)
         /\ \A p \in graph.entries \X Names : Covered(p)
<1>1. ASSUME NEW i \in graph.imports, i.from \in visited PROVE Covered(<<i.target, i.name>>)
  <2>1. i \in Imports
    BY DEF Finished, TypeOK, GraphType
  <2>2. i.target \in visited
    BY <1>1, <2>1 DEF Finished, Edge, Imports
  <2>3. ASSUME <<i.target, i.name>> \notin exports, HasStar(i.target), i.name # Default
        PROVE  Carried(i.target, i.name) # {}
    <3>1. i.kind # "member"
      BY <2>3 DEF Finished, MemberStubs
    <3>2. i.kind = "named"
      BY <2>1, <3>1 DEF Imports
    <3>. QED  BY <2>3, <3>2 DEF Carried
  <2>. QED  BY <2>2, <2>3 DEF Covered, Finished
<1>2. ASSUME NEW p \in graph.entries \X Names PROVE Covered(p)
  BY DEF Covered, Finished
<1>. QED  BY <1>1, <1>2

\* Resolution leads from covered names to covered names: a quiet round leaves
\* no reference behind, an exposed file exposes what its stars lead to, and a
\* named re-export finds its name on the source, or no star to look behind.
LEMMA HopCovered ==
  ASSUME Finished, NEW q \in Exports, Covered(q), NEW r \in ResolveHop(q)
  PROVE  Covered(r)
<1>. TypeOK
  BY DEF Finished
<1>0. q = <<q[1], q[2]>> /\ q[2] \in Names /\ q[1] \in Files /\ q[1] \in visited
  BY DEF Exports, Covered
<1>1. ASSUME NEW t \in TupleSet, t.barrel = q[1] PROVE t.source \in visited /\ t.source \in Files
  BY <1>0, <1>1, TupleSetType DEF Finished, Edge
<1>2. CASE r \in NamedHop(q)
  <2>1. PICK t \in TupleSet : ~IsStar(t) /\ <<t.barrel, t.exported>> = q /\ r = Target(t)
    BY <1>2 DEF NamedHop
  <2>2. q \in exports /\ t.barrel = q[1] /\ r[1] = t.source
    BY <1>0, <2>1 DEF Finished, NamedStubs, Target
  <2>3. Settled(t) /\ t.source \in visited
    BY <1>1, <2>2 DEF Finished
  <2>4. CASE r \in exports
    <3>1. /\ refs[q] \subseteq refs[r]
          /\ refs[q] = {} /\ q[1] \in graph.entries => q[1] \in refs[r]
      BY <2>1, <2>2, <2>3, <2>4 DEF Settled, OnBarrel
    <3>2. refs[r] # {}
      BY <2>2, <3>1 DEF Covered
    <3>. QED  BY <2>2, <2>3, <2>4, <3>2 DEF Covered
  <2>5. CASE r \notin exports
    <3>1. ~HasStar(t.source)
      BY <2>1, <2>5 DEF Finished, NamedOverStar
    <3>. QED  BY <2>2, <2>3, <2>5, <3>1 DEF Covered
  <2>. QED  BY <2>4, <2>5
<1>3. CASE q[2] # Default /\ r \in StarHop(q)
  <2>1. PICK t \in TupleSet : IsStar(t) /\ t.barrel = q[1] /\ r = <<t.source, q[2]>>
    BY <1>3 DEF StarHop
  <2>2. Settled(t) /\ t.source \in visited /\ r[1] = t.source /\ r[2] = q[2] /\ HasStar(q[1])
    BY <1>1, <2>1 DEF Finished, HasStar
  <2>3. CASE Exposed(q[1])
    <3>1. Exposed(t.source)
      BY <2>1, <2>3, ExposedClosed
    <3>2. r \in exports => refs[r] # {}
      BY <1>0, <1>3, <2>1, <2>2, <2>3 DEF Settled
    <3>. QED  BY <2>2, <3>1, <3>2 DEF Covered
  <2>4. CASE ~Exposed(q[1])
    <3>1. q[1] \notin graph.entries
      BY <2>4 DEF Exposed
    <3>2. Carried(q[1], q[2]) # {}
      <4>1. CASE q \in exports
        <5>1. refs[q] # {}
          BY <3>1, <4>1 DEF Covered
        <5>. QED  BY <1>0, <5>1 DEF Carried
      <4>2. CASE q \notin exports
        BY <1>3, <2>2, <2>4, <3>1, <4>2 DEF Covered
      <4>. QED  BY <4>1, <4>2
    <3>3. CASE r \in exports \/ HasStar(t.source)
      <4>1. StarReaches(t, q[2])
        BY <2>1, <3>2, <3>3 DEF StarReaches
      <4>2. r \in exports /\ Carried(q[1], q[2]) \subseteq refs[r]
        BY <1>0, <2>1, <2>2, <2>4, <4>1 DEF Settled
      <4>. QED  BY <2>2, <3>2, <4>2 DEF Covered
    <3>4. CASE r \notin exports /\ ~HasStar(t.source)
      BY <2>2, <3>4 DEF Covered
    <3>. QED  BY <3>3, <3>4
  <2>. QED  BY <2>3, <2>4
<1>. QED  BY <1>2, <1>3 DEF ResolveHop

\* No export that live code can get is reported by a finished build.
LEMMA FinishedSpares == Finished => \A p \in LiveExports : ~Reported(p)
<1>. SUFFICES ASSUME Finished, NEW p \in LiveExports PROVE ~Reported(p)
  OBVIOUS
<1>. DEFINE S == {<<i.target, i.name>> : i \in {j \in graph.imports : j.from \in visited}}
                   \cup (graph.entries \X Names)
            C == {q \in Exports : Covered(q)}
<1>0. TypeOK
  BY DEF Finished
<1>1. S \in SUBSET Exports
  <2>1. graph.imports \subseteq Imports /\ graph.entries \subseteq Files
    BY <1>0 DEF TypeOK, GraphType
  <2>. QED  BY <2>1 DEF Imports, Exports
<1>2. S \subseteq C
  <2>1. \A q \in S : Covered(q)
    BY SourcesCovered
  <2>. QED  BY <1>1, <2>1
<1>3. \A q \in Exports : q \in C => ResolveHop(q) \subseteq C
  BY <1>0, HopCovered, HopType
<1>4. p \in graph.own /\ p \in Closure(S, ResolveHop)
  BY DEF LiveExports
<1>5. p \in C
  <2>. HIDE DEF S, C
  <2>1. Closure(S, ResolveHop) \subseteq C
    BY <1>0, <1>1, <1>2, <1>3, ResolveWithin
  <2>. QED  BY <1>4, <2>1
<1>6. Covered(p) /\ p \in exports
  BY <1>4, <1>5 DEF Finished
<1>. QED  BY <1>6 DEF Covered, Reported

\* Where no named re-export picks a name out of a star, no export that live
\* code can get is reported as unused once a round has changed nothing: for
\* every project, whatever its cycles and the order of its tuples.
THEOREM LiveExportsSpared == Spec => []LiveUnlessNamedOverStar
<1>1. Init => TypeInv /\ RoundInv /\ SearchInv /\ ReferenceInv /\ BuiltInv
  BY InitType DEF Init, TypeInv, RoundInv, QuietRoundSettles, SearchInv, ReferenceInv, BuiltInv
<1>2. TypeInv /\ RoundInv /\ SearchInv /\ BuiltInv => LiveUnlessNamedOverStar
  <2>. SUFFICES ASSUME TypeInv, RoundInv, SearchInv, BuiltInv,
                       ~NamedOverStar, ~changed, pc = "done"
                PROVE  \A p \in LiveExports : ~Reported(p)
    BY DEF LiveUnlessNamedOverStar, LiveNeverReported
  <2>1. Finished
    BY DEF Finished, TypeInv, RoundInv, QuietRoundSettles, SearchInv, BuiltInv
  <2>. QED  BY <2>1, FinishedSpares
<1>. QED
  BY <1>1, <1>2, TypeStep, RoundStep, ReachStep, BuiltStep, PTL DEF Spec

-----------------------------------------------------------------------------
\* A star of values that carries the name of an export into its file.
ValueStar(t, p) ==
  /\ t \in TupleSet /\ IsStar(t) /\ ~Exposed(t.barrel) /\ t.source = p[1]
  /\ Carried(t.barrel, p[2]) # {} /\ ~t.typeOnly

\* No stub takes the place of an export that the source wrote, whose flag is the
\* written one, and a stub that is a value has a star of values to thank for it.
StubInv ==
  /\ pc = "populate" => stubs = {}
  /\ pc # "populate" =>
       /\ graph.own \subseteq exports /\ stubs \cap graph.own = {}
       /\ \A p \in graph.own : p \in typeOnly <=> p \in graph.ownTypes
  /\ \A p \in stubs \ typeOnly : \E t \in TupleSet : ValueStar(t, p)

\* A star of values keeps carrying what it carries as references grow.
LEMMA ValueStarStable ==
  ASSUME TypeOK, graph' = graph, \A q \in Exports : refs[q] \subseteq refs'[q],
         NEW t, NEW p \in Exports, ValueStar(t, p)
  PROVE  t \in TupleSet' /\ ValueStar(t, p)'
<1>1. t \in TupleSet' /\ (Exposed(t.barrel)' <=> Exposed(t.barrel)) /\ IsStar(t)
  BY DEF ValueStar, TupleSet, Exposed
<1>2. <<t.barrel, p[2]>> \in Exports
  BY TupleSetType DEF ValueStar, Exports
<1>3. Carried(t.barrel, p[2]) \subseteq Carried(t.barrel, p[2])'
  BY <1>2 DEF Carried
<1>. QED  BY <1>1, <1>3 DEF ValueStar, IsStar

\* One tuple's propagation gives a stub the flag its stars give it.
LEMMA PropagateStubs ==
  ASSUME TypeOK, StubInv, pc # "populate", graph' = graph, NEW t \in TupleSet,
         \/ PropagateStar(t) \/ PropagateEntryPointStar(t)
         \/ PropagateNamed(t) \/ PropagateEntryPointNamed(t)
  PROVE  /\ stubs' \cap graph.own = {}
         /\ \A p \in graph.own : p \in typeOnly' <=> p \in graph.ownTypes
         /\ \A p \in stubs' \ typeOnly' : p \in stubs \ typeOnly \/ ValueStar(t, p)
<1>1. CASE PropagateStar(t)
  <2>. DEFINE hit == {<<t.source, n>> : n \in {m \in Names : StarReaches(t, m)}}
              new == hit \ exports
  <2>1. stubs' = stubs \cup new /\ typeOnly' = StarTypes(t, hit, new)
    BY <1>1 DEF PropagateStar
  <2>2. ASSUME NEW p \in hit, ~t.typeOnly PROVE ValueStar(t, p)
    <3>1. PICK n \in Names : p = <<t.source, n>> /\ StarReaches(t, n)
      OBVIOUS
    <3>. QED  BY <1>1, <2>2, <3>1 DEF PropagateStar, StarReaches, ValueStar
  <2>. HIDE DEF hit
  <2>3. new \cap graph.own = {} /\ stubs \cap graph.own = {}
    BY DEF StubInv
  <2>4. CASE t.typeOnly
    <3>1. typeOnly' = typeOnly \cup new
      BY <2>1, <2>4 DEF StarTypes
    <3>. QED  BY <2>1, <2>3, <3>1 DEF StubInv
  <2>5. CASE ~t.typeOnly
    <3>1. typeOnly' = typeOnly \ (hit \cap stubs)
      BY <2>1, <2>5 DEF StarTypes
    <3>. QED  BY <2>1, <2>2, <2>3, <2>5, <3>1 DEF StubInv
  <2>. QED  BY <2>4, <2>5
<1>2. CASE UNCHANGED <<stubs, typeOnly>>
  BY <1>2 DEF StubInv
<1>. QED
  BY <1>1, <1>2 DEF PropagateEntryPointStar, PropagateNamed, PropagateEntryPointNamed, Credit

\* The flags of stubs and of written exports are kept by every step.
LEMMA StubStep == TypeInv /\ StubInv /\ [Next]_vars => StubInv'
<1>. SUFFICES ASSUME TypeInv, StubInv, [Next]_vars PROVE StubInv'
  OBVIOUS
<1>0. graph' = graph /\ TypeOK
  BY GraphFixed DEF TypeInv
<1>1. CASE Populate
  <2>1. stubs' = {} /\ pc' # "populate"
    BY <1>1 DEF Populate, StubInv
  <2>2. /\ exports' = graph.own \cup NamedStubs \cup MemberStubs
        /\ typeOnly' = (graph.own \cap graph.ownTypes)
                         \cup {p \in NamedStubs \ graph.own : NamedStubIsType(p)}
    BY <1>1 DEF Populate
  <2>. QED  BY <1>0, <2>1, <2>2 DEF StubInv
<1>a. ASSUME \A q \in Exports : refs[q] \subseteq refs'[q],
             NEW p \in stubs' \ typeOnly', NEW t, ValueStar(t, p), p \in Exports
      PROVE  \E u \in TupleSet' : ValueStar(u, p)'
  <2>1. t \in TupleSet' /\ ValueStar(t, p)'
    BY <1>0, <1>a, ValueStarStable
  <2>. QED  BY <2>1
<1>2. CASE UNCHANGED symbols /\ (pc' = "populate" <=> pc = "populate")
  <2>1. UNCHANGED <<exports, refs, typeOnly, stubs>>
    BY <1>2 DEF symbols
  <2>2. ASSUME NEW p \in stubs' \ typeOnly' PROVE \E u \in TupleSet' : ValueStar(u, p)'
    <3>1. PICK t \in TupleSet : ValueStar(t, p)
      BY <2>1 DEF StubInv
    <3>2. p \in Exports
      BY <1>0, <2>1 DEF TypeOK
    <3>. QED  BY <1>a, <2>1, <3>1, <3>2
  <2>. QED  BY <1>0, <1>2, <2>1, <2>2 DEF StubInv
<1>3. CASE PropagateEntry
  <2>. DEFINE t == graph.tuples[pos]
  <2>1. /\ \/ PropagateStar(t) \/ PropagateEntryPointStar(t)
           \/ PropagateNamed(t) \/ PropagateEntryPointNamed(t)
        /\ pc # "populate" /\ pc' # "populate"
    BY <1>3 DEF PropagateEntry
  <2>2. pos \in 1 .. Len(graph.tuples)
    BY <1>0, <1>3 DEF PropagateEntry, TypeOK, GraphType
  <2>3. t \in TupleSet /\ t \in Tuples /\ (~IsStar(t) => t.exported \in Names)
    BY <1>0, <2>2, TupleType
  <2>. HIDE DEF t
  <2>4. exports \subseteq exports' /\ \A q \in Exports : refs[q] \subseteq refs'[q]
    BY <1>0, <2>1, <2>3, PropagateGrows
  <2>5. /\ stubs' \cap graph.own = {}
        /\ \A p \in graph.own : p \in typeOnly' <=> p \in graph.ownTypes
        /\ \A p \in stubs' \ typeOnly' : p \in stubs \ typeOnly \/ ValueStar(t, p)
    BY <1>0, <2>1, <2>3, PropagateStubs
  <2>6. stubs' \subseteq Exports
    BY <1>0, <2>1, <2>3, PropagateType
  <2>7. ASSUME NEW p \in stubs' \ typeOnly' PROVE \E u \in TupleSet' : ValueStar(u, p)'
    <3>1. PICK u : ValueStar(u, p)
      BY <2>5 DEF StubInv
    <3>. QED  BY <1>a, <2>4, <2>6, <3>1
  <2>. QED  BY <1>0, <2>1, <2>4, <2>5, <2>7 DEF StubInv
<1>. QED
  BY <1>1, <1>2, <1>3 DEF Next, Visit, MarkReachable, BeginFixpoint, NextRound, EndFixpoint,
     symbols, vars

\* After a quiet round a stub is type-only exactly when every star that carries
\* its name is an `export type *`, whichever came first, and the flags of the
\* exports that the source wrote are as written: for every project.
THEOREM StubFlags == Spec => [](~changed => StubTypesExact)
<1>1. Init => TypeInv /\ RoundInv /\ StubInv
  BY InitType DEF Init, TypeInv, RoundInv, QuietRoundSettles, StubInv
<1>2. TypeInv /\ RoundInv /\ StubInv => (~changed => StubTypesExact)
  <2>. SUFFICES ASSUME TypeOK, RoundInv, StubInv, ~changed, pc = "done"
                PROVE  \A p \in stubs :
                         p \in typeOnly
                           <=> \A t \in TupleSet :
                                  /\ IsStar(t) /\ ~Exposed(t.barrel) /\ t.source = p[1]
                                  /\ Carried(t.barrel, p[2]) # {}
                                  => t.typeOnly
    BY DEF TypeInv, StubInv, StubTypesExact
  <2>. TAKE p \in stubs
  <2>1. p \in exports /\ p = <<p[1], p[2]>> /\ p[2] \in Names
    BY DEF TypeOK, Exports
  <2>2. ASSUME p \in typeOnly, NEW t \in TupleSet, IsStar(t), ~Exposed(t.barrel),
               t.source = p[1], Carried(t.barrel, p[2]) # {}
        PROVE  t.typeOnly
    <3>1. <<t.source, p[2]>> = p
      BY <2>1, <2>2
    <3>2. StarReaches(t, p[2])
      BY <2>1, <2>2, <3>1 DEF StarReaches
    <3>3. Settled(t)
      BY <2>2 DEF RoundInv, QuietRoundSettles
    <3>. QED  BY <2>1, <2>2, <3>1, <3>2, <3>3 DEF Settled
  <2>3. ASSUME p \notin typeOnly
        PROVE  \E t \in TupleSet : ValueStar(t, p)
    BY <2>3 DEF StubInv
  <2>. QED  BY <2>2, <2>3 DEF ValueStar
<1>. QED
  BY <1>1, <1>2, TypeStep, RoundStep, StubStep, PTL DEF Spec

-----------------------------------------------------------------------------
(* The cap.  Without a cycle a file can be ranked by the re-exports ahead   *)
(* of it: what leads into a file of rank k has nothing left to propagate    *)
(* after round k, and no rank exceeds the number of re-exports.             *)

\* The step of run_re_export_fixpoint for a tuple.
Propagates(t) ==
  \/ PropagateStar(t) \/ PropagateEntryPointStar(t)
  \/ PropagateNamed(t) \/ PropagateEntryPointNamed(t)

\* A star that has made the stubs it makes.
StubsMade(t) ==
  IsStar(t) /\ ~Exposed(t.barrel) =>
      \A n \in Names : StarReaches(t, n) => <<t.source, n>> \in exports

\* A step touches the symbols of the source file only.
LEMMA OnlySource ==
  ASSUME TypeOK, NEW t \in TupleSet, Propagates(t), NEW p \in Exports, p[1] # t.source
  PROVE  /\ refs'[p] = refs[p] /\ (p \in exports' <=> p \in exports)
         /\ (p \in typeOnly' <=> p \in typeOnly) /\ (p \in stubs' <=> p \in stubs)
<1>1. CASE PropagateStar(t)
  <2>. DEFINE hit == {<<t.source, n>> : n \in {m \in Names : StarReaches(t, m)}}
              new == hit \ exports
  <2>1. p \notin hit
    OBVIOUS
  <2>2. /\ exports' = exports \cup new /\ stubs' = stubs \cup new
        /\ refs' = [q \in Exports |-> IF q \in hit THEN refs[q] \cup Carried(t.barrel, q[2])
                                      ELSE refs[q]]
        /\ typeOnly' = StarTypes(t, hit, new)
    BY <1>1 DEF PropagateStar
  <2>. HIDE DEF hit
  <2>. QED  BY <2>1, <2>2 DEF StarTypes
<1>2. CASE PropagateEntryPointStar(t)
  BY <1>2 DEF PropagateEntryPointStar
<1>3. ASSUME NEW who, Credit(Target(t), who)
      PROVE  /\ refs'[p] = refs[p] /\ exports' = exports /\ typeOnly' = typeOnly
             /\ stubs' = stubs
  <2>1. p # Target(t)
    BY DEF Target
  <2>. QED  BY <1>3, <2>1 DEF Credit, TypeOK
<1>4. CASE PropagateNamed(t)
  BY <1>3, <1>4 DEF PropagateNamed
<1>5. CASE PropagateEntryPointNamed(t)
  BY <1>3, <1>5 DEF PropagateEntryPointNamed
<1>. QED  BY <1>1, <1>2, <1>4, <1>5 DEF Propagates

\* What a tuple carries is what it carried, if the step left its barrel alone.
LEMMA SameCarried ==
  ASSUME TypeOK, graph' = graph, NEW t \in TupleSet, Propagates(t),
         NEW u \in TupleSet, u.barrel # t.source
  PROVE  /\ \A n \in Names : Carried(u.barrel, n)' = Carried(u.barrel, n)
         /\ ~IsStar(u) => OnBarrel(u)' = OnBarrel(u)
         /\ Exposed(u.barrel)' <=> Exposed(u.barrel)
         /\ HasStar(u.source)' <=> HasStar(u.source)
<1>1. \A n \in Names : <<u.barrel, n>> \in Exports /\ refs'[<<u.barrel, n>>] = refs[<<u.barrel, n>>]
  <2>. TAKE n \in Names
  <2>1. <<u.barrel, n>> \in Exports
    BY TupleSetType DEF Exports
  <2>. QED  BY <2>1, OnlySource
<1>2. \A n \in Names : Carried(u.barrel, n)' = Carried(u.barrel, n)
  BY <1>1 DEF Carried
<1>3. ~IsStar(u) => OnBarrel(u)' = OnBarrel(u)
  BY <1>1, TupleSetType DEF OnBarrel
<1>4. /\ Exposed(u.barrel)' <=> Exposed(u.barrel)
      /\ HasStar(u.source)' <=> HasStar(u.source)
  BY DEF Exposed, HasStar, TupleSet, IsStar
<1>. QED  BY <1>2, <1>3, <1>4

\* A settled tuple has no effect.
LEMMA SettledQuiet ==
  ASSUME TypeOK, NEW t \in TupleSet, Settled(t), Propagates(t)
  PROVE  UNCHANGED symbols
<1>. USE DEF symbols
<1>0. refs \in [Exports -> SUBSET Files]
  BY DEF TypeOK
<1>1. CASE PropagateStar(t)
  <2>. DEFINE hit == {<<t.source, n>> : n \in {m \in Names : StarReaches(t, m)}}
              new == hit \ exports
  <2>1. /\ exports' = exports \cup new /\ stubs' = stubs \cup new
        /\ refs' = [q \in Exports |-> IF q \in hit THEN refs[q] \cup Carried(t.barrel, q[2])
                                      ELSE refs[q]]
        /\ typeOnly' = StarTypes(t, hit, new)
    BY <1>1 DEF PropagateStar
  <2>2. ASSUME NEW q \in hit
        PROVE  /\ q \in exports /\ Carried(t.barrel, q[2]) \subseteq refs[q]
               /\ ~t.typeOnly => q \notin typeOnly \cap stubs
    <3>1. PICK n \in Names : q = <<t.source, n>> /\ StarReaches(t, n)
      OBVIOUS
    <3>2. q[2] = n
      BY <3>1
    <3>. QED  BY <1>1, <3>1, <3>2 DEF PropagateStar, Settled
  <2>. HIDE DEF hit
  <2>3. exports' = exports /\ stubs' = stubs /\ new = {}
    BY <2>1, <2>2
  <2>4. refs' = refs
    <3>1. \A q \in Exports : refs'[q] = refs[q]
      BY <2>1, <2>2
    <3>. QED  BY <1>0, <2>1, <3>1
  <2>5. typeOnly' = typeOnly
    <3>. HIDE DEF new
    <3>1. CASE t.typeOnly
      BY <2>1, <2>3, <3>1 DEF StarTypes
    <3>2. CASE ~t.typeOnly
      <4>1. typeOnly' = typeOnly \ (hit \cap stubs)
        BY <2>1, <3>2 DEF StarTypes
      <4>. QED  BY <2>2, <3>2, <4>1
    <3>. QED  BY <3>1, <3>2
  <2>. QED  BY <2>3, <2>4, <2>5
<1>2. CASE PropagateEntryPointStar(t)
  <2>1. \A q \in Exports : q \in exports /\ q[1] = t.source /\ q[2] # Default
                             => t.barrel \in refs[q]
    <3>. SUFFICES ASSUME NEW q \in Exports, q \in exports, q[1] = t.source, q[2] # Default
                  PROVE  t.barrel \in refs[q]
      OBVIOUS
    <3>1. q = <<t.source, q[2]>> /\ q[2] \in Names
      BY DEF Exports
    <3>. QED  BY <1>2, <3>1 DEF PropagateEntryPointStar, Settled
  <2>2. \A q \in Exports : refs'[q] = refs[q]
    BY <1>2, <2>1 DEF PropagateEntryPointStar
  <2>3. refs' = refs
    BY <1>0, <1>2, <2>2 DEF PropagateEntryPointStar
  <2>. QED  BY <1>2, <2>3 DEF PropagateEntryPointStar
<1>3. ASSUME NEW who, Credit(Target(t), who),
             Target(t) \in exports => who \subseteq refs[Target(t)]
      PROVE  UNCHANGED symbols
  <2>1. refs' = refs
    <3>1. CASE Target(t) \notin exports
      BY <1>3, <3>1 DEF Credit
    <3>2. CASE Target(t) \in exports
      <4>1. refs' = [refs EXCEPT ![Target(t)] = @ \cup who]
        BY <1>3, <3>2 DEF Credit
      <4>2. refs[Target(t)] \cup who = refs[Target(t)]
        BY <1>3, <3>2
      <4>. QED  BY <1>0, <4>1, <4>2
    <3>. QED  BY <3>1, <3>2
  <2>. QED  BY <1>3, <2>1 DEF Credit
<1>4. CASE PropagateNamed(t)
  BY <1>3, <1>4 DEF PropagateNamed, Settled
<1>5. CASE PropagateEntryPointNamed(t)
  BY <1>3, <1>5 DEF PropagateEntryPointNamed, Settled
<1>. QED  BY <1>1, <1>2, <1>4, <1>5 DEF Propagates

\* A tuple that does not re-export from its own file is settled by its step.
LEMMA SettledAfter ==
  ASSUME TypeOK, graph' = graph, NEW t \in TupleSet, Propagates(t), t.barrel # t.source
  PROVE  Settled(t)'
<1>0. /\ \A n \in Names : Carried(t.barrel, n)' = Carried(t.barrel, n)
      /\ ~IsStar(t) => OnBarrel(t)' = OnBarrel(t)
      /\ Exposed(t.barrel)' <=> Exposed(t.barrel)
      /\ HasStar(t.source)' <=> HasStar(t.source)
  BY SameCarried
<1>a. t.barrel \in Files /\ t.source \in Files
  BY TupleSetType
<1>1. CASE PropagateStar(t)
  <2>. DEFINE hit == {<<t.source, n>> : n \in {m \in Names : StarReaches(t, m)}}
              new == hit \ exports
  <2>1. /\ exports' = exports \cup new /\ stubs' = stubs \cup new
        /\ refs' = [q \in Exports |-> IF q \in hit THEN refs[q] \cup Carried(t.barrel, q[2])
                                      ELSE refs[q]]
        /\ typeOnly' = StarTypes(t, hit, new)
    BY <1>1 DEF PropagateStar
  <2>2. ASSUME NEW n \in Names, StarReaches(t, n)'
        PROVE  /\ <<t.source, n>> \in exports'
               /\ Carried(t.barrel, n) \subseteq refs'[<<t.source, n>>]
               /\ ~(~t.typeOnly /\ <<t.source, n>> \in typeOnly' \cap stubs')
    <3>1. <<t.source, n>> \in hit \/ (<<t.source, n>> \in exports /\ Carried(t.barrel, n) # {})
      BY <1>0, <2>1, <2>2 DEF StarReaches
    <3>2. <<t.source, n>> \in hit
      BY <3>1 DEF StarReaches
    <3>3. <<t.source, n>> \in Exports
      BY <1>a DEF Exports
    <3>. HIDE DEF hit
    <3>4. <<t.source, n>> \in exports' /\ Carried(t.barrel, n) \subseteq refs'[<<t.source, n>>]
      BY <2>1, <3>2, <3>3
    <3>5. ASSUME ~t.typeOnly PROVE <<t.source, n>> \notin typeOnly' \cap stubs'
      <4>1. typeOnly' = typeOnly \ (hit \cap stubs) /\ typeOnly \subseteq exports
        BY <2>1, <3>5 DEF StarTypes, TypeOK
      <4>. QED  BY <2>1, <3>2, <4>1
    <3>. QED  BY <3>4, <3>5
  <2>. HIDE DEF hit
  <2>3. IsStar(t) /\ ~Exposed(t.barrel)'
    BY <1>0, <1>1 DEF PropagateStar
  <2>. QED  BY <1>0, <2>2, <2>3 DEF Settled, IsStar
<1>2. CASE PropagateEntryPointStar(t)
  <2>1. \A n \in Names \ {Default} :
          <<t.source, n>> \in exports' => t.barrel \in refs'[<<t.source, n>>]
    BY <1>2, <1>a DEF PropagateEntryPointStar, Exports
  <2>2. IsStar(t) /\ Exposed(t.barrel)'
    BY <1>0, <1>2 DEF PropagateEntryPointStar
  <2>. QED  BY <2>1, <2>2 DEF Settled, IsStar
<1>3. ASSUME NEW who, Credit(Target(t), who), Target(t) \in exports'
      PROVE  who \subseteq refs'[Target(t)]
  BY <1>3 DEF Credit, TypeOK
<1>4. CASE PropagateNamed(t)
  <2>1. Target(t) \in exports' => OnBarrel(t) \subseteq refs'[Target(t)]
    BY <1>3, <1>4 DEF PropagateNamed
  <2>2. ~IsStar(t) /\ (OnBarrel(t) # {} \/ t.barrel \notin graph.entries)
    BY <1>4 DEF PropagateNamed
  <2>. QED  BY <1>0, <2>1, <2>2 DEF Settled, IsStar, Target
<1>5. CASE PropagateEntryPointNamed(t)
  <2>1. Target(t) \in exports' => {t.barrel} \subseteq refs'[Target(t)]
    BY <1>3, <1>5 DEF PropagateEntryPointNamed
  <2>2. ~IsStar(t) /\ OnBarrel(t) = {}
    BY <1>5 DEF PropagateEntryPointNamed
  <2>. QED  BY <1>0, <2>1, <2>2 DEF Settled, IsStar, Target
<1>. QED  BY <1>1, <1>2, <1>4, <1>5 DEF Propagates

\* A tuple stays settled through the step of another one that leaves its barrel
\* alone, and its source too or makes no stub there.
LEMMA SettledKept ==
  ASSUME TypeOK, graph' = graph, NEW t \in TupleSet, Propagates(t),
         NEW u \in TupleSet, Settled(u), u.barrel # t.source,
         u.source # t.source \/ exports' = exports
  PROVE  Settled(u)'
<1>0. /\ \A n \in Names : Carried(u.barrel, n)' = Carried(u.barrel, n)
      /\ ~IsStar(u) => OnBarrel(u)' = OnBarrel(u)
      /\ Exposed(u.barrel)' <=> Exposed(u.barrel)
      /\ HasStar(u.source)' <=> HasStar(u.source)
  BY SameCarried
<1>1. u.source \in Files /\ (~IsStar(u) => Target(u) \in Exports)
  BY TupleSetType DEF Target, Exports
<1>2. ASSUME NEW p \in Exports, p[1] = u.source
      PROVE  /\ (p \in exports' <=> p \in exports) /\ refs[p] \subseteq refs'[p]
             /\ p \in typeOnly' \cap stubs' => p \in typeOnly \cap stubs
  <2>1. CASE u.source # t.source
    BY <1>2, <2>1, OnlySource
  <2>2. CASE exports' = exports
    <3>1. refs[p] \subseteq refs'[p]
      BY PropagateGrows DEF Propagates
    <3>2. typeOnly' \subseteq typeOnly /\ stubs' = stubs
      <4>1. CASE PropagateStar(t)
        <5>. DEFINE hit == {<<t.source, n>> : n \in {m \in Names : StarReaches(t, m)}}
                    new == hit \ exports
        <5>1. /\ exports' = exports \cup new /\ stubs' = stubs \cup new
              /\ typeOnly' = StarTypes(t, hit, new)
          BY <4>1 DEF PropagateStar
        <5>. HIDE DEF hit
        <5>2. new = {}
          BY <2>2, <5>1
        <5>. HIDE DEF new
        <5>. QED  BY <5>1, <5>2 DEF StarTypes
      <4>2. CASE UNCHANGED <<typeOnly, stubs>>
        BY <4>2
      <4>. QED
        BY <4>1, <4>2 DEF Propagates, PropagateEntryPointStar, PropagateNamed,
           PropagateEntryPointNamed, Credit
    <3>. QED  BY <2>2, <3>1, <3>2
  <2>. QED  BY <2>1, <2>2
<1>3. CASE ~IsStar(u)
  <2>1. Target(u)[1] = u.source
    BY DEF Target
  <2>2. Target(u) \in exports' <=> Target(u) \in exports
    BY <1>1, <1>2, <1>3, <2>1
  <2>3. refs[Target(u)] \subseteq refs'[Target(u)]
    BY <1>1, <1>2, <1>3, <2>1
  <2>. QED  BY <1>0, <1>3, <2>2, <2>3 DEF Settled, IsStar, Target
<1>4. CASE IsStar(u) /\ Exposed(u.barrel)
  <2>1. ASSUME NEW n \in Names \ {Default}, <<u.source, n>> \in exports'
        PROVE  u.barrel \in refs'[<<u.source, n>>]
    <3>. DEFINE p == <<u.source, n>>
    <3>1. p \in Exports /\ p[1] = u.source
      BY <1>1 DEF Exports
    <3>2. p \in exports /\ refs[p] \subseteq refs'[p]
      <4>. HIDE DEF p
      <4>. QED  BY <1>2, <2>1, <3>1 DEF p
    <3>. QED  BY <1>4, <3>2 DEF Settled
  <2>. QED  BY <1>0, <1>4, <2>1 DEF Settled, IsStar
<1>5. CASE IsStar(u) /\ ~Exposed(u.barrel)
  <2>1. ASSUME NEW n \in Names, StarReaches(u, n)'
        PROVE  /\ <<u.source, n>> \in exports'
               /\ Carried(u.barrel, n) \subseteq refs'[<<u.source, n>>]
               /\ ~(~u.typeOnly /\ <<u.source, n>> \in typeOnly' \cap stubs')
    <3>. DEFINE p == <<u.source, n>>
    <3>1. p \in Exports /\ p[1] = u.source
      BY <1>1 DEF Exports
    <3>2. /\ (p \in exports' <=> p \in exports) /\ refs[p] \subseteq refs'[p]
          /\ p \in typeOnly' \cap stubs' => p \in typeOnly \cap stubs
      <4>. HIDE DEF p
      <4>. QED  BY <1>2, <3>1
    <3>3. StarReaches(u, n)
      BY <1>0, <2>1, <3>2 DEF StarReaches
    <3>. QED  BY <1>5, <3>2, <3>3 DEF Settled
  <2>. QED  BY <1>0, <1>5, <2>1 DEF Settled, IsStar
<1>. QED  BY <1>3, <1>4, <1>5

\* A star that has made its stubs has made them, as long as its barrel is left alone.
LEMMA StubsKept ==
  ASSUME TypeOK, graph' = graph, NEW t \in TupleSet, Propagates(t),
         NEW u \in TupleSet, StubsMade(u), u.barrel # t.source
  PROVE  StubsMade(u)'
<1>0. /\ \A n \in Names : Carried(u.barrel, n)' = Carried(u.barrel, n)
      /\ Exposed(u.barrel)' <=> Exposed(u.barrel)
      /\ HasStar(u.source)' <=> HasStar(u.source)
  BY SameCarried
<1>1. exports \subseteq exports'
  BY PropagateGrows DEF Propagates
<1>. QED  BY <1>0, <1>1 DEF StubsMade, StarReaches, IsStar

\* The step of a tuple that has made its stubs makes none.
LEMMA NoNewStub ==
  ASSUME NEW t \in TupleSet, Propagates(t), StubsMade(t)
  PROVE  exports' = exports
<1>1. CASE PropagateStar(t)
  BY <1>1 DEF PropagateStar, StubsMade
<1>. QED
  BY <1>1 DEF Propagates, PropagateEntryPointStar, PropagateNamed, PropagateEntryPointNamed, Credit

\* A settled tuple has made its stubs.
LEMMA SettledMade == ASSUME NEW t, Settled(t) PROVE StubsMade(t)
  BY DEF Settled, StubsMade

\* A rank of the files: at most the number of tuples, and larger on a source
\* than on its barrel, by two if another tuple leads to the source as well.
Ranks(r) ==
  /\ r \in [Files -> Nat]
  /\ \A f \in Files : r[f] <= Len(graph.tuples)
  /\ \A j \in 1 .. Len(graph.tuples) :
         r[graph.tuples[j].barrel] + 1 <= r[graph.tuples[j].source]
  /\ \A j, k \in 1 .. Len(graph.tuples) :
         j # k /\ graph.tuples[j].source = graph.tuples[k].source
           => r[graph.tuples[j].barrel] + 2 <= r[graph.tuples[j].source]

\* No other tuple leads to the source of this one.
Lone(j) ==
  \A k \in 1 .. Len(graph.tuples) :
      graph.tuples[k].source = graph.tuples[j].source => k = j

\* Round k settles what leads to a file of rank k; where several tuples do, the
\* round before has made their stubs.  The round the cap allows last is quiet.
RankedInv(r) ==
  /\ pc = "propagate" =>
       /\ \A j \in 1 .. Len(graph.tuples) :
            \/ r[graph.tuples[j].source] < iteration
            \/ r[graph.tuples[j].source] = iteration /\ j < pos
            => Settled(graph.tuples[j])
       /\ \A j \in 1 .. Len(graph.tuples) :
            /\ ~Lone(j)
            /\ \/ r[graph.tuples[j].source] <= iteration
               \/ r[graph.tuples[j].source] = iteration + 1 /\ j < pos
            => StubsMade(graph.tuples[j])
       /\ iteration = SafetyCap => ~changed
  /\ pc = "done" => ~changed

\* Whether a tuple has made its stubs depends on the project and the symbols alone.
LEMMA MadeStable ==
  ASSUME graph' = graph, UNCHANGED symbols, NEW t, StubsMade(t)
  PROVE  StubsMade(t)'
<1>. UNCHANGED exports /\ UNCHANGED refs
  BY DEF symbols
<1>1. /\ Exposed(t.barrel)' <=> Exposed(t.barrel)
      /\ \A n : Carried(t.barrel, n)' = Carried(t.barrel, n)
      /\ HasStar(t.source)' <=> HasStar(t.source)
  BY DEF Exposed, Carried, HasStar, TupleSet, IsStar
<1>. QED  BY <1>1 DEF StubsMade, StarReaches, IsStar

\* One step of the fixpoint: a tuple into a file of a settled rank does nothing,
\* and any other one leaves what is settled alone.
LEMMA RankedPropagate ==
  ASSUME TypeOK, graph' = graph, NEW r, Ranks(r), RankedInv(r), PropagateEntry
  PROVE  RankedInv(r)'
<1>. DEFINE N == Len(graph.tuples)
            T(j) == graph.tuples[j]
<1>p. PICK t : t = graph.tuples[pos]
  OBVIOUS
<1>0. /\ pc = "propagate" /\ pc' = "propagate" /\ pos' = pos + 1 /\ iteration' = iteration
      /\ Propagates(t) /\ pos <= N
      /\ UNCHANGED symbols => (changed' <=> changed)
  BY <1>p DEF PropagateEntry, Propagates, NoteChange, TypeOK
<1>1. N \in Nat /\ pos \in 1 .. N /\ iteration \in Nat
  BY <1>0 DEF TypeOK, GraphType, SafetyCap
<1>2. \A j \in 1 .. N : /\ T(j) \in TupleSet /\ T(j).barrel \in Files /\ T(j).source \in Files
                        /\ r[T(j).barrel] \in Nat /\ r[T(j).source] \in Nat
                        /\ r[T(j).barrel] < r[T(j).source]
                        /\ r[T(j).source] <= N
  <2>. TAKE j \in 1 .. N
  <2>1. T(j) \in TupleSet
    BY TupleType
  <2>2. T(j).barrel \in Files /\ T(j).source \in Files
    <3>. HIDE DEF T
    <3>. QED  BY <2>1, TupleSetType
  <2>3. r[T(j).barrel] \in Nat /\ r[T(j).source] \in Nat
    BY <2>2 DEF Ranks
  <2>4. r[T(j).barrel] + 1 <= r[T(j).source] /\ r[T(j).source] <= N
    BY <2>2 DEF Ranks
  <2>. QED  BY <2>1, <2>2, <2>3, <2>4
<1>3. \A j \in 1 .. N : ~Lone(j) => r[T(j).barrel] + 2 <= r[T(j).source]
  BY DEF Lone, Ranks
<1>4. /\ \A j \in 1 .. N : r[T(j).source] < iteration \/ (r[T(j).source] = iteration /\ j < pos)
                             => Settled(T(j))
      /\ \A j \in 1 .. N : ~Lone(j) /\ (\/ r[T(j).source] <= iteration
                                        \/ r[T(j).source] = iteration + 1 /\ j < pos)
                             => StubsMade(T(j))
      /\ iteration = N + 1 => ~changed
  BY <1>0 DEF RankedInv, SafetyCap
<1>5. \A j \in 1 .. N : (j < pos' <=> j < pos \/ j = pos) /\ (Lone(j)' <=> Lone(j))
  BY <1>0, <1>1 DEF Lone
<1>g. SUFFICES /\ \A j \in 1 .. N : \A u :
                    /\ u = T(j)
                    /\ r[T(j).source] < iteration \/ (r[T(j).source] = iteration /\ j < pos')
                    => Settled(u)'
               /\ \A j \in 1 .. N : \A u :
                    /\ u = T(j) /\ ~Lone(j)
                    /\ \/ r[T(j).source] <= iteration
                       \/ r[T(j).source] = iteration + 1 /\ j < pos'
                    => StubsMade(u)'
               /\ iteration = N + 1 => ~changed'
  BY <1>0, <1>5 DEF RankedInv, SafetyCap
<1>. HIDE DEF T
<1>t. t \in TupleSet /\ t = T(pos)
  BY <1>1, <1>2, <1>p DEF T
<1>6. CASE r[t.source] < iteration
  <2>1. UNCHANGED symbols
    BY <1>0, <1>1, <1>4, <1>6, <1>t, SettledQuiet
  <2>2. \A v : (Settled(v) => Settled(v)') /\ (StubsMade(v) => StubsMade(v)')
    BY <2>1, SettledStable, MadeStable
  <2>3. /\ r[t.source] # iteration /\ r[t.source] # iteration + 1
        /\ r[t.source] < iteration
    BY <1>1, <1>2, <1>6, <1>t
  <2>4. ASSUME NEW j \in 1 .. N, NEW u, u = T(j),
               r[T(j).source] < iteration \/ (r[T(j).source] = iteration /\ j < pos')
        PROVE  Settled(u)'
    <3>1. Settled(T(j))
      BY <1>4, <1>5, <1>t, <2>3, <2>4
    <3>. QED  BY <2>2, <2>4, <3>1
  <2>5. ASSUME NEW j \in 1 .. N, NEW u, u = T(j), ~Lone(j),
               r[T(j).source] <= iteration \/ (r[T(j).source] = iteration + 1 /\ j < pos')
        PROVE  StubsMade(u)'
    <3>1. StubsMade(T(j))
      BY <1>4, <1>5, <1>t, <2>3, <2>5
    <3>. QED  BY <2>2, <2>5, <3>1
  <2>. QED  BY <1>0, <1>4, <2>1, <2>4, <2>5
<1>7. CASE iteration <= r[t.source]
  <2>0. r[t.source] <= N /\ r[t.source] \in Nat /\ t.barrel # t.source
    BY <1>1, <1>2, <1>t
  <2>1. iteration # N + 1
    BY <1>1, <1>7, <2>0
  <2>2. Settled(t)' /\ StubsMade(t)'
    <3>1. Settled(t)'
      BY <1>0, <1>t, <2>0, SettledAfter
    <3>2. StubsMade(t)'
      BY <3>1 DEF Settled, StubsMade
    <3>. QED  BY <3>1, <3>2
  <2>3. ASSUME NEW j \in 1 .. N, NEW u, u = T(j), j # pos,
               r[T(j).source] < iteration \/ (r[T(j).source] = iteration /\ j < pos')
        PROVE  Settled(u)'
    <3>1. Settled(T(j))
      BY <1>4, <1>5, <2>3
    <3>2. r[T(j).source] <= iteration
      BY <1>1, <1>2, <2>3
    <3>3. T(j).barrel # t.source
      BY <1>1, <1>2, <1>7, <2>0, <3>2
    <3>4. T(j).source # t.source \/ exports' = exports
      <4>. SUFFICES ASSUME T(j).source = t.source PROVE exports' = exports
        OBVIOUS
      <4>1. ~Lone(pos)
        BY <2>3, <1>1, <1>t DEF Lone, T
      <4>2. r[t.source] <= iteration
        BY <3>2
      <4>3. StubsMade(t)
        BY <1>1, <1>4, <1>t, <4>1, <4>2
      <4>. QED  BY <1>0, <1>t, <4>3, NoNewStub
    <3>5. T(j) \in TupleSet
      BY <1>2
    <3>6. \A v \in TupleSet : /\ Settled(v) /\ v.barrel # t.source
                              /\ v.source # t.source \/ exports' = exports
                              => Settled(v)'
      BY <1>0, <1>t, SettledKept
    <3>. QED  BY <2>3, <3>1, <3>3, <3>4, <3>5, <3>6
  <2>4. ASSUME NEW j \in 1 .. N, NEW u, u = T(j), j # pos, ~Lone(j),
               r[T(j).source] <= iteration \/ (r[T(j).source] = iteration + 1 /\ j < pos')
        PROVE  StubsMade(u)'
    <3>1. StubsMade(T(j))
      BY <1>4, <1>5, <2>4
    <3>2. r[T(j).barrel] + 2 <= iteration + 1
      BY <1>1, <1>2, <1>3, <2>4
    <3>3. T(j).barrel # t.source
      BY <1>1, <1>2, <1>7, <2>0, <3>2
    <3>5. T(j) \in TupleSet
      BY <1>2
    <3>6. \A v \in TupleSet : StubsMade(v) /\ v.barrel # t.source => StubsMade(v)'
      BY <1>0, <1>t, StubsKept
    <3>. QED  BY <2>4, <3>1, <3>3, <3>5, <3>6
  <2>. QED  BY <1>t, <2>1, <2>2, <2>3, <2>4
<1>. QED  BY <1>1, <1>2, <1>6, <1>7, <1>t

\* For every rank of the files, every step of the build keeps to it.
RankInv == \A r : Ranks(r) => RankedInv(r)

\* The same for every step.
LEMMA RankStep == TypeInv /\ RoundInv /\ RankInv /\ [Next]_vars => RankInv'
<1>. SUFFICES ASSUME TypeInv, RoundInv, RankInv, [Next]_vars, NEW r, Ranks(r)'
              PROVE  RankedInv(r)'
  BY DEF RankInv
<1>0. graph' = graph /\ TypeOK
  BY GraphFixed DEF TypeInv
<1>1. Ranks(r)
  BY <1>0 DEF Ranks
<1>2. RankedInv(r)
  BY <1>1 DEF RankInv
<1>a. /\ Len(graph.tuples) \in Nat /\ iteration \in Nat /\ pos \in Nat
      /\ SafetyCap = Len(graph.tuples) + 1
  BY <1>0 DEF TypeOK, GraphType, SafetyCap
<1>b. \A j \in 1 .. Len(graph.tuples) :
        /\ r[graph.tuples[j].source] \in Nat /\ r[graph.tuples[j].source] >= 1
        /\ ~Lone(j) => r[graph.tuples[j].source] >= 2
  <2>. TAKE j \in 1 .. Len(graph.tuples)
  <2>1. graph.tuples[j].source \in Files /\ graph.tuples[j].barrel \in Files
    BY <1>0, TupleType DEF Tuples
  <2>2. r[graph.tuples[j].source] \in Nat /\ r[graph.tuples[j].barrel] \in Nat
    BY <1>1, <2>1 DEF Ranks
  <2>3. r[graph.tuples[j].barrel] + 1 <= r[graph.tuples[j].source]
    BY <1>1 DEF Ranks
  <2>4. ~Lone(j) => r[graph.tuples[j].barrel] + 2 <= r[graph.tuples[j].source]
    BY <1>1 DEF Ranks, Lone
  <2>. QED  BY <2>2, <2>3, <2>4
<1>3. CASE Populate
  BY <1>3 DEF Populate, RankedInv
<1>4. ASSUME NEW f \in Files, Visit(f) PROVE RankedInv(r)'
  BY <1>4 DEF Visit, RankedInv
<1>5. CASE MarkReachable
  BY <1>5 DEF MarkReachable, RankedInv, RoundInv
<1>6. CASE BeginFixpoint
  <2>1. /\ pc' = "propagate" /\ iteration' = 1 /\ pos' = 1 /\ changed' = FALSE
    BY <1>6 DEF BeginFixpoint
  <2>2. \A j \in 1 .. Len(graph.tuples) : ~(j < pos') /\ (Lone(j)' <=> Lone(j))
    BY <1>0, <2>1 DEF Lone
  <2>3. \A j \in 1 .. Len(graph.tuples) :
          /\ ~(r[graph.tuples[j].source] < iteration')
          /\ ~Lone(j) => ~(r[graph.tuples[j].source] <= iteration')
    BY <1>b, <2>1
  <2>. QED  BY <1>0, <2>1, <2>2, <2>3 DEF RankedInv
<1>7. CASE PropagateEntry
  BY <1>0, <1>1, <1>2, <1>7, RankedPropagate
<1>8. CASE NextRound
  <2>1. /\ pc = "propagate" /\ pc' = "propagate" /\ iteration' = iteration + 1 /\ pos' = 1
        /\ changed' = FALSE /\ UNCHANGED symbols /\ pos > Len(graph.tuples)
    BY <1>8 DEF NextRound
  <2>2. \A j \in 1 .. Len(graph.tuples) : j < pos /\ ~(j < pos') /\ (Lone(j)' <=> Lone(j))
    BY <1>0, <1>a, <2>1 DEF Lone
  <2>3. \A u : (Settled(u) => Settled(u)') /\ (StubsMade(u) => StubsMade(u)')
    BY <1>0, <2>1, SettledStable, MadeStable
  <2>4. ASSUME NEW j \in 1 .. Len(graph.tuples), r[graph.tuples[j].source] < iteration'
        PROVE  Settled(graph.tuples[j])
    <3>1. r[graph.tuples[j].source] < iteration \/ r[graph.tuples[j].source] = iteration
      BY <1>a, <1>b, <2>1, <2>4
    <3>. QED  BY <1>2, <2>1, <2>2, <3>1 DEF RankedInv
  <2>5. ASSUME NEW j \in 1 .. Len(graph.tuples), ~Lone(j), r[graph.tuples[j].source] <= iteration'
        PROVE  StubsMade(graph.tuples[j])
    <3>1. \/ r[graph.tuples[j].source] <= iteration
          \/ r[graph.tuples[j].source] = iteration + 1
      BY <1>a, <1>b, <2>1, <2>5
    <3>. QED  BY <1>2, <2>1, <2>2, <2>5, <3>1 DEF RankedInv
  <2>. QED  BY <1>0, <2>1, <2>2, <2>3, <2>4, <2>5 DEF RankedInv
<1>9. CASE EndFixpoint
  <2>1. /\ pc = "propagate" /\ pc' = "done" /\ changed' = changed
        /\ ~(changed /\ iteration < SafetyCap)
    BY <1>9 DEF EndFixpoint
  <2>2. ~changed
    <3>1. iteration <= SafetyCap
      BY <1>0, <1>a DEF TypeOK
    <3>2. iteration = SafetyCap \/ iteration < SafetyCap
      BY <1>a, <3>1
    <3>. QED  BY <1>2, <2>1, <3>2 DEF RankedInv
  <2>. QED  BY <2>1, <2>2 DEF RankedInv
<1>10. CASE UNCHANGED vars
  <2>1. UNCHANGED symbols /\ UNCHANGED <<pc, pos, iteration, changed>>
    BY <1>10 DEF vars, symbols
  <2>2. \A u : (Settled(u) => Settled(u)') /\ (StubsMade(u) => StubsMade(u)')
    BY <1>0, <2>1, SettledStable, MadeStable
  <2>3. (\A j : Lone(j)' <=> Lone(j)) /\ SafetyCap' = SafetyCap
    BY <1>0 DEF Lone, SafetyCap
  <2>. QED  BY <1>0, <1>2, <2>1, <2>2, <2>3 DEF RankedInv
<1>. QED
  BY <1>3, <1>4, <1>5, <1>6, <1>7, <1>8, <1>9, <1>10 DEF Next

\* One round over the re-exports of a set of files.
LeadRound ==
  [X \in SUBSET Files |-> X \cup {t.source : t \in {u \in TupleSet : u.barrel \in X}}]

\* Leads is the last set of an iteration.
LEMMA LeadsIterate ==
  ASSUME TypeOK, NEW f \in Files
  PROVE  \E R : Iterates(R, LeadRound, {f}, Files, NFiles) /\ Leads(f) = R[NFiles]
<1>. DEFINE S == {f}
            H(X) == X \cup {t.source : t \in {u \in TupleSet : u.barrel \in X}}
            Def(g) == [n \in 0 .. NFiles |->
                          IF n = 0 THEN S ELSE LET before == g[n - 1] IN H(before)]
            F == CHOOSE g : g = Def(g)
<1>0. NFiles \in Nat
  BY ExportsFinite
<1>1. LeadRound \in [SUBSET Files -> SUBSET Files] /\ S \in SUBSET Files
  BY TupleSetType DEF LeadRound
<1>2. \A X \in SUBSET Files : LeadRound[X] = H(X)
  BY DEF LeadRound
<1>3. Leads(f) = F[NFiles]
  BY DEF Leads
<1>. HIDE DEF H, S
<1>4. \E g : g = Def(g)
  <2>1. PICK R : Iterates(R, LeadRound, S, Files, NFiles)
    BY <1>0, <1>1, IterationExists, Zenon
  <2>2. ASSUME NEW n \in 0 .. NFiles PROVE R[n] = IF n = 0 THEN S ELSE H(R[n - 1])
    <3>1. CASE n = 0
      BY <2>1, <3>1 DEF Iterates
    <3>2. CASE n # 0
      <4>1. n \in 1 .. NFiles /\ n - 1 \in 0 .. NFiles
        BY <1>0, <3>2
      <4>. QED  BY <1>2, <2>1, <3>2, <4>1 DEF Iterates
    <3>. QED  BY <3>1, <3>2
  <2>3. R = Def(R)
    BY <2>1, <2>2 DEF Iterates
  <2>. QED  BY <2>3
<1>5. F = Def(F)
  <2>. HIDE DEF Def
  <2>. QED  BY <1>4
<1>. HIDE DEF F
<1>6. Follows(F, LeadRound, S, Files, NFiles)
  <2>1. /\ F = [n \in 0 .. NFiles |-> F[n]] /\ F[0] = S
        /\ \A n \in 1 .. NFiles : F[n] = H(F[n - 1])
    BY <1>0, <1>5
  <2>. QED  BY <1>2, <2>1 DEF Follows
<1>7. Iterates(F, LeadRound, S, Files, NFiles)
  BY <1>0, <1>1, <1>6, RecursionIterates, Zenon
<1>. QED  BY <1>3, <1>7 DEF S

\* A file leads to itself and wherever the re-exports of what it leads to do.
LEMMA LeadsClosed ==
  ASSUME TypeOK, NEW f \in Files
  PROVE  /\ f \in Leads(f) /\ Leads(f) \subseteq Files
         /\ \A t \in TupleSet : t.barrel \in Leads(f) => t.source \in Leads(f)
<1>1. PICK R : Iterates(R, LeadRound, {f}, Files, NFiles) /\ Leads(f) = R[NFiles]
  BY LeadsIterate, Zenon
<1>2. LeadRound \in [SUBSET Files -> SUBSET Files]
  BY TupleSetType DEF LeadRound
<1>3. Inflates(LeadRound, Files)
  BY DEF LeadRound, Inflates
<1>4. AtMost(Files, NFiles) /\ NFiles \in Nat
  BY ExportsFinite DEF AtMost
<1>5. {f} \subseteq R[NFiles]
  BY <1>1, <1>2, <1>3, <1>4, IterationGrows, Zenon
<1>6. Fixed(LeadRound, R[NFiles])
  BY <1>1, <1>2, <1>3, <1>4, IterationCloses, Zenon
<1>7. R[NFiles] \in SUBSET Files
  BY <1>1, <1>4 DEF Iterates
<1>8. \A t \in TupleSet : t.barrel \in R[NFiles] => t.source \in LeadRound[R[NFiles]]
  BY <1>7 DEF LeadRound
<1>. QED  BY <1>1, <1>5, <1>6, <1>7, <1>8 DEF Fixed

\* Re-exports without a cycle rank the files, by the tuples ahead of each.
LEMMA RankExists ==
  ASSUME TypeOK, \A t \in TupleSet : t.barrel \notin Leads(t.source)
  PROVE  \E r : Ranks(r)
<1>. DEFINE N == Len(graph.tuples)
            T(j) == graph.tuples[j]
            Ahead(f) == {k \in 1 .. N : f \in Leads(T(k).source)}
            r == [f \in Files |-> Cardinality(Ahead(f))]
<1>1. N \in Nat /\ IsFiniteSet(1 .. N) /\ Cardinality(1 .. N) = N
  <2>1. N \in Nat
    BY DEF TypeOK, GraphType
  <2>2. IsFiniteSet(1 .. N) /\ Cardinality(1 .. N) = IF 1 > N THEN 0 ELSE N - 1 + 1
    <3>. HIDE DEF N
    <3>1. 1 \in Int /\ N \in Int
      BY <2>1
    <3>. QED  BY <3>1, FS_Interval
  <2>. QED  BY <2>1, <2>2
<1>2. \A j \in 1 .. N : T(j) \in TupleSet /\ T(j).barrel \in Files /\ T(j).source \in Files
  BY TupleType DEF Tuples
<1>. HIDE DEF T
<1>3. \A f : Ahead(f) \in SUBSET (1 .. N)
  OBVIOUS
<1>4. ASSUME NEW f
      PROVE  /\ IsFiniteSet(Ahead(f)) /\ Cardinality(Ahead(f)) \in Nat
             /\ Cardinality(Ahead(f)) <= N
  <2>. HIDE DEF Ahead
  <2>. QED  BY <1>1, <1>3, FS_Subset, FS_CardinalityType
<1>5. ASSUME NEW j \in 1 .. N
      PROVE  /\ Ahead(T(j).barrel) \subseteq Ahead(T(j).source)
             /\ \A k \in 1 .. N : T(k).source = T(j).source
                  => k \in Ahead(T(j).source) /\ k \notin Ahead(T(j).barrel)
  <2>1. ASSUME NEW k \in 1 .. N, T(j).barrel \in Leads(T(k).source)
        PROVE  T(j).source \in Leads(T(k).source)
    BY <1>2, <2>1, LeadsClosed
  <2>2. ASSUME NEW k \in 1 .. N, T(k).source = T(j).source
        PROVE  T(j).source \in Leads(T(k).source) /\ T(j).barrel \notin Leads(T(k).source)
    BY <1>2, <2>2, LeadsClosed
  <2>. QED  BY <2>1, <2>2
<1>. HIDE DEF Ahead
<1>6. r \in [Files -> Nat] /\ \A f \in Files : r[f] = Cardinality(Ahead(f)) /\ r[f] <= N
  BY <1>4
<1>7. ASSUME NEW j \in 1 .. N, NEW k \in 1 .. N, T(k).source = T(j).source
      PROVE  IF j = k THEN r[T(j).barrel] + 1 <= r[T(j).source]
                      ELSE r[T(j).barrel] + 2 <= r[T(j).source]
  <2>. DEFINE A == Ahead(T(j).barrel)
              B == Ahead(T(j).source)
  <2>1. /\ A \subseteq B /\ j \in B /\ k \in B /\ j \notin A /\ k \notin A
    BY <1>5, <1>7
  <2>2. /\ IsFiniteSet(A) /\ IsFiniteSet(B)
        /\ Cardinality(A) \in Nat /\ Cardinality(B) \in Nat
    BY <1>4
  <2>3. r[T(j).barrel] = Cardinality(A) /\ r[T(j).source] = Cardinality(B)
    BY <1>2, <1>6
  <2>. HIDE DEF A, B, r
  <2>4. /\ IsFiniteSet(A \cup {j}) /\ Cardinality(A \cup {j}) = Cardinality(A) + 1
        /\ (A \cup {j}) \in SUBSET B
    BY <2>1, <2>2, FS_AddElement
  <2>5. CASE j = k
    <3>1. Cardinality(A \cup {j}) <= Cardinality(B)
      BY <2>2, <2>4, FS_Subset
    <3>. QED  BY <2>2, <2>3, <2>4, <2>5, <3>1
  <2>6. CASE j # k
    <3>1. k \notin A \cup {j}
      BY <2>1, <2>6
    <3>2. /\ Cardinality((A \cup {j}) \cup {k}) = Cardinality(A \cup {j}) + 1
          /\ ((A \cup {j}) \cup {k}) \in SUBSET B
      BY <2>1, <2>4, <3>1, FS_AddElement
    <3>3. Cardinality((A \cup {j}) \cup {k}) <= Cardinality(B)
      BY <2>2, <3>2, FS_Subset
    <3>. QED  BY <2>2, <2>3, <2>4, <2>6, <3>2, <3>3
  <2>. QED  BY <2>5, <2>6
<1>. HIDE DEF r
<1>8. \A j \in 1 .. N : r[T(j).barrel] + 1 <= r[T(j).source]
  BY <1>7
<1>9. \A j, k \in 1 .. N : j # k /\ T(j).source = T(k).source
                             => r[T(j).barrel] + 2 <= r[T(j).source]
  BY <1>7
<1>10. Ranks(r)
  BY <1>6, <1>8, <1>9 DEF Ranks, T
<1>. QED  BY <1>10

\* The cap on the rounds, one more than there are re-exports, never cuts the
\* propagation short in a project whose re-exports have no cycle, however long
\* its chains and whatever order its tuples come in: the fixpoint always ends
\* on a round that changed nothing.
THEOREM CapIsEnough == Spec => []CapSparesChains
<1>1. Init => TypeInv /\ RoundInv /\ RankInv
  BY InitType DEF Init, TypeInv, RoundInv, QuietRoundSettles, RankInv, RankedInv
<1>2. TypeInv /\ RankInv => CapSparesChains
  <2>. SUFFICES ASSUME TypeOK, RankInv, pc = "done",
                       \A t \in TupleSet : t.barrel \notin Leads(t.source)
                PROVE  ~changed
    BY DEF TypeInv, CapSparesChains
  <2>1. PICK r : Ranks(r)
    BY RankExists
  <2>. QED  BY <2>1 DEF RankInv, RankedInv
<1>. QED
  BY <1>1, <1>2, TypeStep, RoundStep, RankStep, PTL DEF Spec

-----------------------------------------------------------------------------
\* A step of the build with the cycle search is a step of the build.
LEMMA CyclesStepBuilds == [CyclesNext]_allVars => [Next]_vars
<1>1. CyclesNext => [Next]_vars
  BY DEF CyclesNext, StartSearch, StepSuccessor, FinishFrame, Next
<1>2. UNCHANGED allVars => UNCHANGED vars
  BY DEF allVars
<1>. QED  BY <1>1, <1>2

\* The build with the cycle search in its place is a build: the steps of the
\* search leave the graph alone, so the theorems above hold of it as well.
THEOREM CyclesImplementsBuild == CyclesSpec => Spec
<1>1. CyclesInit => Init
  BY DEF CyclesInit
<1>. QED
  BY <1>1, CyclesStepBuilds, PTL DEF CyclesSpec, Spec

-----------------------------------------------------------------------------
(* The cycle search.  An arc is a re-export from one file to another; a    *)
(* file is found once it has an index, gray while it has a frame, and      *)
(* finished once its component is off the stack.                           *)

Arcs ==
    {a \in Files \X Files :
        /\ a[1] # a[2]
        /\ \E j \in 1 .. Len(graph.tuples) :
               a = <<graph.tuples[j].barrel, graph.tuples[j].source>>}

Found == {f \in Files : indices[f] # Unset}

Gray == {dfs[k].node : k \in 1 .. Len(dfs)}

\* The arcs that the search has looked at: those of found files, of a gray
\* one only up to the position of its frame.
Seen ==
    {a \in Arcs :
        /\ a[1] \in Found
        /\ \E j \in 1 .. Len(graph.tuples) :
               /\ a = <<graph.tuples[j].barrel, graph.tuples[j].source>>
               /\ \A k \in 1 .. Len(dfs) : dfs[k].node = a[1] => j < dfs[k].next}

\* L is the least reflexive relation that follows the arcs.
Reaches(L) ==
    /\ L \in [Files -> SUBSET Files]
    /\ \A f \in Files : f \in L[f]
    /\ \A f, x, w \in Files : x \in L[f] /\ <<x, w>> \in Arcs => w \in L[f]
    /\ \A C \in SUBSET Files :
           (\A x, w \in Files : x \in C /\ <<x, w>> \in Arcs => w \in C)
             => \A f \in C : L[f] \subseteq C

\* The files that f leads to and that lead to f.
Class(L, f) == {h \in Files : h \in L[f] /\ f \in L[h]}

\* The state of the search: its sequences, in the order of discovery.
FramesInv ==
    /\ indices \in [Files -> Int] /\ lowlinks \in [Files -> Int]
    /\ \A f \in Found : indices[f] \in 0 .. IndexCounter - 1
    /\ stack \in Seq(Files) /\ dfs \in Seq([node : Files, next : Nat \ {0}])
    /\ \A i, j \in 1 .. Len(stack) : i < j => indices[stack[i]] < indices[stack[j]]
    /\ \A i, j \in 1 .. Len(dfs) : i < j => indices[dfs[i].node] < indices[dfs[j].node]
    /\ OnStack \subseteq Found /\ Gray \subseteq OnStack /\ Found \subseteq Nodes

\* Every arc that was looked at leads to a found file, and all arcs of a found
\* file without a frame were looked at.
LookedInv ==
    /\ \A a \in Seen : a[2] \in Found
    /\ \A a \in Arcs : a[1] \in Found /\ a[1] \notin Gray => a \in Seen

\* A gray file leads to what is above it on the stack, and every file on the
\* stack leads to a gray one that is not above it.
PathsInv(L) ==
    /\ \A g \in Gray, x \in OnStack : indices[g] <= indices[x] => x \in L[g]
    /\ \A x \in OnStack : \E g \in Gray : indices[g] <= indices[x] /\ g \in L[x]

\* A lowlink is the index of a file on the stack that its file leads to; and
\* the frame that a file on the stack belongs to has heard of all its arcs.
LowInv(L) ==
    /\ \A x \in OnStack :
           /\ lowlinks[x] <= indices[x]
           /\ \E u \in OnStack : u \in L[x] /\ lowlinks[x] = indices[u]
    /\ \A x, w \in OnStack, g \in Gray :
           /\ <<x, w>> \in Seen /\ indices[g] <= indices[x]
           /\ \A h \in Gray : indices[h] <= indices[x] => indices[h] <= indices[g]
           => lowlinks[g] <= indices[w]

\* What is finished is closed under the arcs, and is split into classes.
ClassInv(L) ==
    /\ \A a \in Arcs : a[1] \in Found \ OnStack => a[2] \in Found \ OnStack
    /\ UNION sccs = Found \ OnStack
    /\ \A C \in sccs : \E f \in C : C = Class(L, f)

DepthInv(L) == PathsInv(L) /\ LowInv(L) /\ ClassInv(L)

\* The fixpoint finds the search finished.
OverInv ==
    pc \in {"propagate", "done"} /\ graph.tuples # << >> => SearchOver

\* The inductive invariant.  It speaks of every L that is the reachability of
\* the arcs: the arcs never change, so neither does which L that is.
TarjanInv ==
    /\ FramesInv /\ LookedInv /\ OverInv
    /\ \A L : Reaches(L) => DepthInv(L)

\* What the sequences of the search say of its sets.
LEMMA SearchSets ==
  ASSUME FramesInv
  PROVE  /\ Gray \subseteq OnStack /\ OnStack \subseteq Found /\ Found \subseteq Files
         /\ indices \in [Files -> Int] /\ lowlinks \in [Files -> Int]
         /\ \A x, y \in OnStack : indices[x] = indices[y] => x = y
         /\ Arcs \subseteq Files \X Files
         /\ Seen \subseteq Arcs /\ \A a \in Seen : a[1] \in Found
<1>1. \A x, y \in OnStack : indices[x] = indices[y] => x = y
  <2>. SUFFICES ASSUME NEW x \in OnStack, NEW y \in OnStack, indices[x] = indices[y]
                PROVE  x = y
    OBVIOUS
  <2>1. PICK i \in 1 .. Len(stack) : x = stack[i]
    BY DEF OnStack
  <2>2. PICK j \in 1 .. Len(stack) : y = stack[j]
    BY DEF OnStack
  <2>3. x \in Files /\ y \in Files /\ indices[x] \in Int /\ indices[y] \in Int
    BY DEF FramesInv, Found
  <2>4. ~(i < j) /\ ~(j < i)
    BY <2>1, <2>2, <2>3 DEF FramesInv
  <2>5. i = j
    BY <2>4 DEF FramesInv
  <2>. QED  BY <2>1, <2>2, <2>5
<1>. QED  BY <1>1 DEF FramesInv, Found, Arcs, Seen

\* Leading to a file is leading to all it leads to.
LEMMA ReachesFurther ==
  ASSUME NEW L, Reaches(L), NEW f \in Files, NEW h \in L[f]
  PROVE  h \in Files /\ L[h] \subseteq L[f]
<1>1. L[f] \in SUBSET Files /\ h \in L[f]
  BY DEF Reaches
<1>2. \A x, w \in Files : x \in L[f] /\ <<x, w>> \in Arcs => w \in L[f]
  BY DEF Reaches
<1>. QED  BY <1>1, <1>2 DEF Reaches

\* A file that all gray files lead to is found and gets a frame.
LEMMA DiscoverKeeps ==
  ASSUME FramesInv, LookedInv, NEW L, Reaches(L), DepthInv(L),
         NEW n \in Int, \A x \in Found : indices[x] < n,
         NEW w \in Files, w \notin Found, \A g \in Gray : w \in L[g],
         NEW E, E \subseteq {a \in Arcs : a[1] \in Gray /\ a[2] = w},
         indices' = [indices EXCEPT ![w] = n], lowlinks' = [lowlinks EXCEPT ![w] = n],
         OnStack' = OnStack \cup {w}, Gray' = Gray \cup {w}, Found' = Found \cup {w},
         Seen' = Seen \cup E, Arcs' = Arcs, sccs' = sccs
  PROVE  LookedInv' /\ DepthInv(L)'
<1>0. /\ Gray \subseteq OnStack /\ OnStack \subseteq Found /\ Found \subseteq Files
      /\ indices \in [Files -> Int] /\ lowlinks \in [Files -> Int]
      /\ Arcs \subseteq Files \X Files
      /\ Seen \subseteq Arcs /\ \A a \in Seen : a[1] \in Found /\ a[2] \in Found
  BY SearchSets DEF LookedInv
<1>1. /\ indices'[w] = n /\ lowlinks'[w] = n
      /\ \A x \in Found : /\ indices'[x] = indices[x] /\ lowlinks'[x] = lowlinks[x]
                          /\ x # w /\ indices[x] < n /\ indices[x] \in Int
                          /\ lowlinks[x] \in Int
  BY <1>0
<1>2. LookedInv'
  BY <1>0 DEF LookedInv
<1>3. PathsInv(L)'
  <2>1. w \in L[w]
    BY DEF Reaches
  <2>2. ASSUME NEW g \in Gray', NEW x \in OnStack', indices'[g] <= indices'[x]
        PROVE  x \in L[g]
    <3>1. CASE g = w
      BY <1>0, <1>1, <2>1, <2>2, <3>1
    <3>2. CASE g \in Gray /\ x = w
      BY <3>2
    <3>3. CASE g \in Gray /\ x \in OnStack
      BY <1>0, <1>1, <2>2, <3>3 DEF DepthInv, PathsInv
    <3>. QED  BY <3>1, <3>2, <3>3
  <2>3. ASSUME NEW x \in OnStack'
        PROVE  \E g \in Gray' : indices'[g] <= indices'[x] /\ g \in L[x]
    <3>1. CASE x = w
      BY <1>1, <2>1, <3>1
    <3>2. CASE x \in OnStack
      <4>1. PICK g \in Gray : indices[g] <= indices[x] /\ g \in L[x]
        BY <3>2 DEF DepthInv, PathsInv
      <4>. QED  BY <1>0, <1>1, <3>2, <4>1
    <3>. QED  BY <3>1, <3>2
  <2>. QED  BY <2>2, <2>3 DEF PathsInv
<1>4. ASSUME NEW x \in OnStack'
      PROVE  /\ lowlinks'[x] <= indices'[x]
             /\ \E u \in OnStack' : u \in L[x] /\ lowlinks'[x] = indices'[u]
  <2>1. CASE x = w
    BY <1>1, <2>1 DEF Reaches
  <2>2. CASE x \in OnStack
    <3>1. /\ lowlinks[x] <= indices[x]
          /\ \E u \in OnStack : u \in L[x] /\ lowlinks[x] = indices[u]
      BY <2>2 DEF DepthInv, LowInv
    <3>2. PICK u \in OnStack : u \in L[x] /\ lowlinks[x] = indices[u]
      BY <3>1
    <3>. QED  BY <1>0, <1>1, <2>2, <3>1, <3>2
  <2>. QED  BY <2>1, <2>2
<1>5. ASSUME NEW x \in OnStack', NEW u \in OnStack', NEW g \in Gray',
             <<x, u>> \in Seen', indices'[g] <= indices'[x],
             \A h \in Gray' : indices'[h] <= indices'[x] => indices'[h] <= indices'[g]
      PROVE  lowlinks'[g] <= indices'[u]
  <2>1. CASE <<x, u>> \in Seen
    <3>1. x \in Found /\ u \in Found /\ x \in OnStack /\ u \in OnStack
      BY <1>0, <1>1, <1>5, <2>1
    <3>2. g \in Gray
      BY <1>1, <1>5, <3>1
    <3>3. indices[g] <= indices[x]
      BY <1>0, <1>1, <1>5, <3>1, <3>2
    <3>4. ASSUME NEW h \in Gray, indices[h] <= indices[x] PROVE indices[h] <= indices[g]
      BY <1>0, <1>1, <1>5, <3>1, <3>2, <3>4
    <3>5. lowlinks[g] <= indices[u]
      BY <2>1, <3>1, <3>2, <3>3, <3>4 DEF DepthInv, LowInv
    <3>. QED  BY <1>0, <1>1, <3>1, <3>2, <3>5
  <2>2. CASE <<x, u>> \in E
    <3>1. u = w /\ g \in OnStack'
      BY <1>0, <2>2
    <3>2. lowlinks'[g] <= indices'[g] /\ indices'[g] <= n
      BY <1>0, <1>1, <1>4, <3>1
    <3>3. lowlinks'[g] \in Int /\ indices'[g] \in Int
      BY <1>0, <1>1, <3>1
    <3>. QED  BY <1>1, <3>1, <3>2, <3>3
  <2>. QED  BY <1>5, <2>1, <2>2
<1>6. LowInv(L)'
  BY <1>4, <1>5 DEF LowInv
<1>7. ClassInv(L)'
  <2>1. Found' \ OnStack' = Found \ OnStack
    BY <1>0
  <2>. QED  BY <2>1 DEF DepthInv, ClassInv, Class
<1>. QED  BY <1>2, <1>3, <1>6, <1>7 DEF DepthInv

\* The top frame looks at an arc to a found file.
LEMMA LookKeeps ==
  ASSUME FramesInv, LookedInv, NEW L, Reaches(L), DepthInv(L),
         NEW v \in Gray, \A g \in Gray : indices[g] <= indices[v],
         NEW w \in Found, <<v, w>> \in Arcs,
         lowlinks' = IF w \in OnStack /\ indices[w] < lowlinks[v]
                     THEN [lowlinks EXCEPT ![v] = indices[w]] ELSE lowlinks,
         indices' = indices, OnStack' = OnStack, Gray' = Gray, Found' = Found,
         Seen' = Seen \cup {<<v, w>>}, Arcs' = Arcs, sccs' = sccs
  PROVE  LookedInv' /\ DepthInv(L)'
<1>0. /\ Gray \subseteq OnStack /\ OnStack \subseteq Found /\ Found \subseteq Files
      /\ indices \in [Files -> Int] /\ lowlinks \in [Files -> Int]
      /\ \A x, y \in OnStack : indices[x] = indices[y] => x = y
  BY SearchSets
<1>1. \A x \in Files : /\ lowlinks'[x] \in Int /\ lowlinks[x] \in Int /\ indices[x] \in Int
                       /\ lowlinks'[x] <= lowlinks[x]
                       /\ (x # v => lowlinks'[x] = lowlinks[x])
  BY <1>0
<1>2. w \in OnStack => lowlinks'[v] <= indices[w]
  BY <1>0
<1>3. w \in OnStack /\ indices[w] < lowlinks[v] => lowlinks'[v] = indices[w]
  BY <1>0
<1>4. ~(w \in OnStack /\ indices[w] < lowlinks[v]) => lowlinks' = lowlinks
  OBVIOUS
<1>5. w \in L[v]
  BY <1>0 DEF Reaches
<1>6. LookedInv'
  BY DEF LookedInv
<1>7. PathsInv(L)' /\ ClassInv(L)'
  BY DEF DepthInv, PathsInv, ClassInv, Class
<1>8. ASSUME NEW x \in OnStack
      PROVE  /\ lowlinks'[x] <= indices[x]
             /\ \E u \in OnStack : u \in L[x] /\ lowlinks'[x] = indices[u]
  <2>1. /\ lowlinks[x] <= indices[x]
        /\ \E u \in OnStack : u \in L[x] /\ lowlinks[x] = indices[u]
    BY DEF DepthInv, LowInv
  <2>2. x \in Files
    BY <1>0
  <2>3. lowlinks'[x] <= indices[x]
    BY <1>1, <2>1, <2>2
  <2>4. CASE lowlinks'[x] = lowlinks[x]
    BY <2>1, <2>3, <2>4
  <2>5. CASE lowlinks'[x] # lowlinks[x]
    BY <1>1, <1>3, <1>4, <1>5, <2>2, <2>3, <2>5
  <2>. QED  BY <2>4, <2>5
<1>9. ASSUME NEW x \in OnStack, NEW u \in OnStack, NEW g \in Gray,
             <<x, u>> \in Seen', indices[g] <= indices[x],
             \A h \in Gray : indices[h] <= indices[x] => indices[h] <= indices[g]
      PROVE  lowlinks'[g] <= indices[u]
  <2>1. CASE <<x, u>> \in Seen
    <3>1. lowlinks[g] <= indices[u]
      BY <1>9, <2>1 DEF DepthInv, LowInv
    <3>. QED  BY <1>0, <1>1, <3>1
  <2>2. CASE x = v /\ u = w
    <3>1. indices[v] <= indices[g]
      BY <1>0, <1>1, <1>9, <2>2
    <3>2. g = v
      BY <1>0, <1>1, <1>9, <2>2, <3>1
    <3>. QED  BY <1>2, <2>2, <3>2
  <2>. QED  BY <1>9, <2>1, <2>2
<1>10. LowInv(L)'
  BY <1>8, <1>9 DEF LowInv
<1>. QED  BY <1>6, <1>7, <1>10 DEF DepthInv

\* A frame that is no root has a parent: its lowlink is the index of a file
\* below it, and that file leads to a gray one.
LEMMA InnerParent ==
  ASSUME FramesInv, NEW L, Reaches(L), DepthInv(L),
         NEW v \in Gray, lowlinks[v] # indices[v]
  PROVE  \E u \in OnStack, g \in Gray :
             /\ u \in L[v] /\ lowlinks[v] = indices[u] /\ indices[u] < indices[v]
             /\ indices[g] <= indices[u] /\ g \in L[u] /\ g # v
<1>0. /\ Gray \subseteq OnStack /\ OnStack \subseteq Found /\ Found \subseteq Files
      /\ indices \in [Files -> Int] /\ lowlinks \in [Files -> Int]
  BY SearchSets
<1>1. PICK u \in OnStack : u \in L[v] /\ lowlinks[v] = indices[u]
  BY <1>0 DEF DepthInv, LowInv
<1>2. lowlinks[v] <= indices[v]
  BY <1>0 DEF DepthInv, LowInv
<1>3. indices[u] < indices[v]
  BY <1>0, <1>1, <1>2
<1>4. PICK g \in Gray : indices[g] <= indices[u] /\ g \in L[u]
  BY DEF DepthInv, PathsInv
<1>5. g # v
  BY <1>0, <1>3, <1>4
<1>. QED  BY <1>1, <1>3, <1>4, <1>5

\* The frame of a file that is no root ends: its parent hears of its lowlink.
LEMMA FinishInnerKeeps ==
  ASSUME FramesInv, LookedInv, NEW L, Reaches(L), DepthInv(L),
         NEW v \in Gray, \A g \in Gray : indices[g] <= indices[v],
         lowlinks[v] # indices[v], \A a \in Arcs : a[1] = v => a \in Seen,
         NEW p \in Gray, p # v, \A g \in Gray \ {v} : indices[g] <= indices[p],
         lowlinks' = IF lowlinks[v] < lowlinks[p]
                     THEN [lowlinks EXCEPT ![p] = lowlinks[v]] ELSE lowlinks,
         indices' = indices, OnStack' = OnStack, Gray' = Gray \ {v}, Found' = Found,
         Seen' = Seen, Arcs' = Arcs, sccs' = sccs
  PROVE  LookedInv' /\ DepthInv(L)'
<1>0. /\ Gray \subseteq OnStack /\ OnStack \subseteq Found /\ Found \subseteq Files
      /\ indices \in [Files -> Int] /\ lowlinks \in [Files -> Int]
      /\ \A x, y \in OnStack : indices[x] = indices[y] => x = y
  BY SearchSets
<1>1. /\ \A x \in Files : /\ lowlinks'[x] \in Int /\ lowlinks[x] \in Int /\ indices[x] \in Int
                          /\ lowlinks'[x] <= lowlinks[x]
                          /\ (x # p => lowlinks'[x] = lowlinks[x])
      /\ lowlinks'[p] <= lowlinks[v]
      /\ lowlinks'[p] = lowlinks[v] \/ lowlinks'[p] = lowlinks[p]
  BY <1>0
<1>2. PICK r \in OnStack, q \in Gray :
             /\ r \in L[v] /\ lowlinks[v] = indices[r] /\ indices[r] < indices[v]
             /\ indices[q] <= indices[r] /\ q \in L[r] /\ q # v
  BY InnerParent
<1>3. v \in L[p]
  BY <1>0 DEF DepthInv, PathsInv
<1>4. r \in L[p] /\ q \in L[v]
  <2>1. L[v] \subseteq L[p]
    BY <1>0, <1>3, ReachesFurther
  <2>2. L[r] \subseteq L[v]
    BY <1>0, <1>2, ReachesFurther
  <2>. QED  BY <1>2, <2>1, <2>2
<1>5. LookedInv'
  BY DEF LookedInv
<1>6. PathsInv(L)'
  <2>1. ASSUME NEW x \in OnStack
        PROVE  \E g \in Gray \ {v} : indices[g] <= indices[x] /\ g \in L[x]
    <3>1. PICK g \in Gray : indices[g] <= indices[x] /\ g \in L[x]
      BY DEF DepthInv, PathsInv
    <3>2. CASE g # v
      BY <3>1, <3>2
    <3>3. CASE g = v
      <4>1. L[v] \subseteq L[x]
        BY <1>0, <3>1, <3>3, ReachesFurther
      <4>2. indices[q] <= indices[x]
        BY <1>0, <1>1, <1>2, <3>1, <3>3
      <4>. QED  BY <1>2, <1>4, <4>1, <4>2
    <3>. QED  BY <3>2, <3>3
  <2>. QED  BY <2>1 DEF DepthInv, PathsInv
<1>7. ClassInv(L)'
  BY DEF DepthInv, ClassInv, Class
<1>8. ASSUME NEW x \in OnStack
      PROVE  /\ lowlinks'[x] <= indices[x]
             /\ \E u \in OnStack : u \in L[x] /\ lowlinks'[x] = indices[u]
  <2>1. /\ lowlinks[x] <= indices[x]
        /\ \E u \in OnStack : u \in L[x] /\ lowlinks[x] = indices[u]
    BY DEF DepthInv, LowInv
  <2>2. x \in Files
    BY <1>0
  <2>3. lowlinks'[x] <= indices[x]
    BY <1>1, <2>1, <2>2
  <2>4. CASE lowlinks'[x] = lowlinks[x]
    BY <2>1, <2>3, <2>4
  <2>5. CASE lowlinks'[x] # lowlinks[x]
    <3>1. x = p /\ lowlinks'[p] = indices[r]
      BY <1>1, <1>2, <2>2, <2>5
    <3>. QED  BY <1>4, <2>3, <3>1
  <2>. QED  BY <2>4, <2>5
<1>9. ASSUME NEW x \in OnStack, NEW u \in OnStack, NEW g \in Gray \ {v},
             <<x, u>> \in Seen, indices[g] <= indices[x],
             \A h \in Gray \ {v} : indices[h] <= indices[x] => indices[h] <= indices[g]
      PROVE  lowlinks'[g] <= indices[u]
  <2>0. x \in Files /\ u \in Files /\ g \in Files /\ v \in Files /\ p \in Files
    BY <1>0
  <2>1. CASE indices[v] <= indices[x]
    <3>1. lowlinks[v] <= indices[u]
      BY <1>9, <2>1 DEF DepthInv, LowInv
    <3>2. indices[p] <= indices[v]
      OBVIOUS
    <3>3. indices[p] <= indices[x]
      BY <1>1, <2>0, <2>1, <3>2
    <3>4. indices[p] <= indices[g] /\ indices[g] <= indices[p]
      BY <1>9, <3>3
    <3>5. g = p
      BY <1>0, <1>1, <2>0, <3>4
    <3>. QED  BY <1>1, <2>0, <3>1, <3>5
  <2>2. CASE ~(indices[v] <= indices[x])
    <3>1. \A h \in Gray : indices[h] <= indices[x] => indices[h] <= indices[g]
      BY <1>9, <2>2
    <3>2. lowlinks[g] <= indices[u]
      BY <1>9, <3>1 DEF DepthInv, LowInv
    <3>. QED  BY <1>1, <2>0, <3>2
  <2>. QED  BY <2>1, <2>2
<1>10. LowInv(L)'
  BY <1>8, <1>9 DEF LowInv
<1>. QED  BY <1>5, <1>6, <1>7, <1>10 DEF DepthInv

\* The component that a root takes off the stack is its class: the arcs that
\* leave it lead to finished files, and its files lead to each other.
LEMMA RootComponent ==
  ASSUME FramesInv, LookedInv, NEW L, Reaches(L), DepthInv(L),
         NEW v \in Gray, \A g \in Gray : indices[g] <= indices[v],
         lowlinks[v] = indices[v], \A a \in Arcs : a[1] = v => a \in Seen,
         NEW C, C = {x \in OnStack : indices[v] <= indices[x]}
  PROVE  /\ \A a \in Arcs : a[1] \in C => a[2] \in C \cup (Found \ OnStack)
         /\ C = Class(L, v)
<1>0. /\ Gray \subseteq OnStack /\ OnStack \subseteq Found /\ Found \subseteq Files
      /\ indices \in [Files -> Int] /\ lowlinks \in [Files -> Int]
      /\ Arcs \subseteq Files \X Files
      /\ \A x, y \in OnStack : indices[x] = indices[y] => x = y
  BY SearchSets
<1>1. ASSUME NEW a \in Arcs, a[1] \in C PROVE a[2] \in C \cup (Found \ OnStack)
  <2>1. a[1] \in OnStack /\ indices[v] <= indices[a[1]] /\ a = <<a[1], a[2]>>
    BY <1>0, <1>1
  <2>2. a \in Seen
    <3>1. CASE a[1] = v
      BY <3>1
    <3>2. CASE a[1] # v
      <4>1. a[1] \notin Gray
        BY <1>0, <2>1, <3>2
      <4>. QED  BY <1>0, <2>1, <4>1 DEF LookedInv
    <3>. QED  BY <3>1, <3>2
  <2>3. a[2] \in Found
    BY <2>2 DEF LookedInv
  <2>4. CASE a[2] \in OnStack
    <3>1. <<a[1], a[2]>> \in Seen
      BY <2>1, <2>2
    <3>2. lowlinks[v] <= indices[a[2]]
      BY <2>1, <2>4, <3>1 DEF DepthInv, LowInv
    <3>. QED  BY <2>4, <3>2
  <2>. QED  BY <2>3, <2>4
<1>2. ASSUME NEW x \in C PROVE x \in Class(L, v)
  <2>1. x \in OnStack /\ x \in Files /\ v \in Files /\ v \in OnStack
    BY <1>0
  <2>2. x \in L[v]
    BY <2>1 DEF DepthInv, PathsInv
  <2>3. PICK g \in Gray : g \in L[x]
    BY <2>1 DEF DepthInv, PathsInv
  <2>4. v \in L[g]
    BY <2>1 DEF DepthInv, PathsInv
  <2>5. v \in L[x]
    BY <2>1, <2>3, <2>4, ReachesFurther
  <2>. QED  BY <2>1, <2>2, <2>5 DEF Class
<1>3. ASSUME NEW h \in Class(L, v) PROVE h \in C
  <2>. DEFINE D == Found \ OnStack
  <2>1. h \in Files /\ h \in L[v] /\ v \in L[h] /\ v \in Files /\ v \in C
    BY <1>0 DEF Class
  <2>2. \A x, w \in Files : x \in D /\ <<x, w>> \in Arcs => w \in D
    BY DEF DepthInv, ClassInv
  <2>3. \A x, w \in Files : x \in C \cup D /\ <<x, w>> \in Arcs => w \in C \cup D
    BY <1>1, <2>2
  <2>4. C \cup D \in SUBSET Files /\ D \in SUBSET Files
    BY <1>0
  <2>5. v \notin D
    BY <1>0
  <2>. HIDE DEF D
  <2>6. L[v] \subseteq C \cup D
    BY <2>1, <2>3, <2>4 DEF Reaches
  <2>7. ASSUME h \in D PROVE FALSE
    <3>1. L[h] \subseteq D
      BY <2>2, <2>4, <2>7 DEF Reaches
    <3>. QED  BY <2>1, <2>5, <3>1
  <2>. QED  BY <2>1, <2>6, <2>7
<1>. QED  BY <1>1, <1>2, <1>3

\* The frame of a root ends: its component leaves the stack.
LEMMA FinishRootKeeps ==
  ASSUME FramesInv, LookedInv, NEW L, Reaches(L), DepthInv(L),
         NEW v \in Gray, \A g \in Gray : indices[g] <= indices[v],
         lowlinks[v] = indices[v], \A a \in Arcs : a[1] = v => a \in Seen,
         NEW C, C = {x \in OnStack : indices[v] <= indices[x]},
         lowlinks' = lowlinks, indices' = indices, OnStack' = OnStack \ C,
         Gray' = Gray \ {v}, Found' = Found,
         Seen' = Seen, Arcs' = Arcs, sccs' = sccs \cup {C}
  PROVE  LookedInv' /\ DepthInv(L)'
<1>0. /\ Gray \subseteq OnStack /\ OnStack \subseteq Found /\ Found \subseteq Files
      /\ indices \in [Files -> Int] /\ lowlinks \in [Files -> Int]
      /\ \A x, y \in OnStack : indices[x] = indices[y] => x = y
  BY SearchSets
<1>1. /\ \A a \in Arcs : a[1] \in C => a[2] \in C \cup (Found \ OnStack)
      /\ C = Class(L, v)
  BY RootComponent
<1>2. \A x \in OnStack' : x \in OnStack /\ indices[x] < indices[v] /\ x # v
  BY <1>0
<1>3. LookedInv'
  BY DEF LookedInv
<1>4. PathsInv(L)'
  <2>1. ASSUME NEW x \in OnStack'
        PROVE  \E g \in Gray' : indices[g] <= indices[x] /\ g \in L[x]
    <3>1. PICK g \in Gray : indices[g] <= indices[x] /\ g \in L[x]
      BY <1>2 DEF DepthInv, PathsInv
    <3>2. g # v
      BY <1>0, <1>2, <3>1
    <3>. QED  BY <3>1, <3>2
  <2>. QED  BY <1>2, <2>1 DEF DepthInv, PathsInv
<1>5. ASSUME NEW x \in OnStack'
      PROVE  /\ lowlinks[x] <= indices[x]
             /\ \E u \in OnStack' : u \in L[x] /\ lowlinks[x] = indices[u]
  <2>1. /\ lowlinks[x] <= indices[x]
        /\ \E u \in OnStack : u \in L[x] /\ lowlinks[x] = indices[u]
    BY <1>2 DEF DepthInv, LowInv
  <2>2. PICK u \in OnStack : u \in L[x] /\ lowlinks[x] = indices[u]
    BY <2>1
  <2>3. x \in Files /\ u \in Files /\ v \in Files
    BY <1>0, <1>2
  <2>4. indices[u] < indices[v]
    BY <1>0, <1>2, <2>1, <2>2, <2>3
  <2>5. u \in OnStack'
    BY <1>0, <2>2, <2>3, <2>4
  <2>. QED  BY <2>1, <2>2, <2>5
<1>6. ASSUME NEW x \in OnStack', NEW u \in OnStack', NEW g \in Gray',
             <<x, u>> \in Seen, indices[g] <= indices[x],
             \A h \in Gray' : indices[h] <= indices[x] => indices[h] <= indices[g]
      PROVE  lowlinks[g] <= indices[u]
  <2>1. \A h \in Gray : indices[h] <= indices[x] => indices[h] <= indices[g]
    <3>1. ~(indices[v] <= indices[x])
      BY <1>0, <1>2
    <3>. QED  BY <1>6, <3>1
  <2>. QED  BY <1>2, <1>6, <2>1 DEF DepthInv, LowInv
<1>7. LowInv(L)'
  BY <1>5, <1>6 DEF LowInv
<1>8. ClassInv(L)'
  <2>1. Found' \ OnStack' = (Found \ OnStack) \cup C
    BY <1>0
  <2>2. \A a \in Arcs : a[1] \in Found \ OnStack => a[2] \in Found \ OnStack
    BY DEF DepthInv, ClassInv
  <2>3. \A a \in Arcs' : a[1] \in Found' \ OnStack' => a[2] \in Found' \ OnStack'
    BY <1>1, <2>1, <2>2
  <2>4. UNION sccs' = Found' \ OnStack'
    BY <2>1 DEF DepthInv, ClassInv
  <2>5. v \in C
    BY <1>0
  <2>6. ASSUME NEW K \in sccs' PROVE \E f \in K : K = Class(L, f)
    BY <1>1, <2>5 DEF DepthInv, ClassInv
  <2>7. \A K \in sccs' : \E f \in K : K = Class(L, f)
    BY <2>6
  <2>. QED  BY <2>3, <2>4, <2>7 DEF ClassInv, Class
<1>. QED  BY <1>3, <1>4, <1>7, <1>8 DEF DepthInv

\* The top frame, and the order of the frames.
LEMMA TopFrame ==
  ASSUME FramesInv, dfs # << >>
  PROVE  /\ Len(dfs) \in Nat /\ Len(dfs) >= 1 /\ Top = dfs[Len(dfs)]
         /\ Top.node \in Gray /\ Top.node \in Files /\ Top.next \in Nat \ {0}
         /\ \A k \in 1 .. Len(dfs) : /\ dfs[k].node \in Files /\ dfs[k].next \in Nat \ {0}
                                     /\ (dfs[k].node = Top.node => k = Len(dfs))
         /\ \A g \in Gray : indices[g] <= indices[Top.node]
<1>1. dfs \in Seq([node : Files, next : Nat \ {0}]) /\ indices \in [Files -> Int]
  BY DEF FramesInv
<1>2. Len(dfs) \in Nat /\ Len(dfs) >= 1 /\ Top = dfs[Len(dfs)]
  BY <1>1 DEF Top
<1>3. \A k \in 1 .. Len(dfs) : dfs[k] \in [node : Files, next : Nat \ {0}]
  <2>. DEFINE Frame == [node : Files, next : Nat \ {0}]
  <2>1. dfs \in Seq(Frame)
    BY <1>1
  <2>. HIDE DEF Frame
  <2>2. \A k \in 1 .. Len(dfs) : dfs[k] \in Frame
    BY <2>1
  <2>. QED  BY <2>2 DEF Frame
<1>4. Len(dfs) \in 1 .. Len(dfs)
  BY <1>2
<1>5. \A k \in 1 .. Len(dfs) : k < Len(dfs) => indices[dfs[k].node] < indices[Top.node]
  BY <1>2, <1>4 DEF FramesInv
<1>6. \A k \in 1 .. Len(dfs) : k = Len(dfs) \/ k < Len(dfs)
  BY <1>2
<1>7. ASSUME NEW k \in 1 .. Len(dfs)
      PROVE  /\ (dfs[k].node = Top.node => k = Len(dfs))
             /\ indices[dfs[k].node] <= indices[Top.node]
  <2>1. indices[dfs[k].node] \in Int /\ indices[Top.node] \in Int
    BY <1>1, <1>2, <1>3, <1>4
  <2>. QED  BY <1>2, <1>5, <1>6, <2>1
<1>. QED  BY <1>2, <1>3, <1>4, <1>7 DEF Gray

\* NextSucc is the first tuple from the frame's position on that leaves its
\* file, and 0 when there is none.
LEMMA NextSuccFirst ==
  ASSUME TypeOK, NEW frame, frame.next \in Nat \ {0}, NEW i, i = NextSucc(frame),
         NEW leaves, leaves = {j \in frame.next .. Len(graph.tuples) :
                                  /\ graph.tuples[j].barrel = frame.node
                                  /\ graph.tuples[j].source # frame.node}
  PROVE  /\ i = 0 => leaves = {}
         /\ i # 0 => i \in leaves /\ \A j \in leaves : i <= j
<1>1. i = IF leaves = {} THEN 0 ELSE CHOOSE k \in leaves : \A j \in leaves : k <= j
  BY DEF NextSucc
<1>2. Len(graph.tuples) \in Nat
  BY DEF TypeOK, GraphType
<1>3. leaves \in SUBSET Nat /\ 0 \notin leaves
  BY <1>2
<1>4. leaves # {} => \E k \in leaves : \A j \in leaves : k <= j
  BY <1>3, LeastNumber, Zenon
<1>. QED  BY <1>1, <1>3, <1>4, Zenon

\* An arc out of the file of the top frame: a tuple of the file.
LEMMA TopArc ==
  ASSUME TypeOK, FramesInv, dfs # << >>, NEW i, i = NextSucc(Top), i # 0,
         NEW w, w = graph.tuples[i].source
  PROVE  /\ i \in 1 .. Len(graph.tuples) /\ Top.next <= i
         /\ graph.tuples[i].barrel = Top.node
         /\ w \in Files /\ w # Top.node /\ <<Top.node, w>> \in Arcs /\ w \in Nodes
<1>. DEFINE leaves == {j \in Top.next .. Len(graph.tuples) :
                          /\ graph.tuples[j].barrel = Top.node
                          /\ graph.tuples[j].source # Top.node}
<1>1. Top.next \in Nat \ {0} /\ Top.node \in Files
  BY TopFrame
<1>2. i \in leaves
  BY <1>1, NextSuccFirst
<1>3. Len(graph.tuples) \in Nat
  BY DEF TypeOK, GraphType
<1>4. i \in 1 .. Len(graph.tuples) /\ Top.next <= i
  BY <1>1, <1>2, <1>3
<1>5. w \in Files /\ graph.tuples[i] \in TupleSet
  BY <1>4, TupleType DEF Tuples
<1>. QED  BY <1>1, <1>2, <1>4, <1>5 DEF Arcs, Nodes

\* When the top frame moves past its next arc, that arc is looked at and no
\* other, whether or not a frame is opened for the file it leads to.
LEMMA AdvanceSees ==
  ASSUME TypeOK, FramesInv, graph' = graph, Arcs' = Arcs, dfs # << >>,
         NEW i, i = NextSucc(Top), i # 0,
         NEW w, w = graph.tuples[i].source,
         Found' = Found \cup {w}, Len(dfs') \in Nat, Len(dfs) <= Len(dfs'),
         \A k \in 1 .. Len(dfs) : dfs'[k].node = dfs[k].node,
         \A k \in 1 .. Len(dfs) : k # Len(dfs) => dfs'[k].next = dfs[k].next,
         dfs'[Len(dfs)].next = i + 1,
         w \in Found => Len(dfs') = Len(dfs),
         w \notin Found => /\ Len(dfs') = Len(dfs) + 1
                           /\ dfs'[Len(dfs) + 1].node = w /\ dfs'[Len(dfs) + 1].next = 1
  PROVE  Seen' = Seen \cup {<<Top.node, w>>}
<1>. DEFINE n == Len(dfs)
            N == Len(graph.tuples)
            T(j) == graph.tuples[j]
<1>0. /\ n \in Nat /\ n >= 1 /\ n \in 1 .. n /\ Top = dfs[n]
      /\ Top.next \in Nat \ {0} /\ Top.node \in Gray
      /\ \A k \in 1 .. n : /\ dfs[k].next \in Nat \ {0}
                           /\ (dfs[k].node = Top.node => k = n)
  BY TopFrame
<1>1. /\ i \in 1 .. N /\ Top.next <= i /\ T(i).barrel = Top.node
      /\ w \in Files /\ w # Top.node /\ <<Top.node, w>> \in Arcs
  BY TopArc
<1>2. ASSUME NEW j \in 1 .. N, Top.next <= j, T(j).barrel = Top.node, T(j).source # Top.node
      PROVE  i <= j
  <2>. DEFINE leaves == {l \in Top.next .. N : /\ T(l).barrel = Top.node
                                               /\ T(l).source # Top.node}
  <2>1. N \in Nat
    BY DEF TypeOK, GraphType
  <2>2. j \in leaves
    BY <1>0, <1>2, <2>1
  <2>3. leaves = {l \in Top.next .. Len(graph.tuples) :
                     /\ graph.tuples[l].barrel = Top.node
                     /\ graph.tuples[l].source # Top.node}
    OBVIOUS
  <2>. HIDE DEF leaves
  <2>4. i \in leaves /\ \A l \in leaves : i <= l
    BY ONLY TypeOK, <1>0, <2>3, i = NextSucc(Top), i # 0, NextSuccFirst, Zenon
  <2>. QED  BY <2>2, <2>4
<1>3. Gray \subseteq Found /\ Top.node \in Found
  BY <1>0, SearchSets
<1>4. ASSUME NEW a \in Seen PROVE a \in Seen'
  <2>1. PICK j \in 1 .. N : /\ a = <<T(j).barrel, T(j).source>>
                            /\ \A k \in 1 .. n : dfs[k].node = a[1] => j < dfs[k].next
    BY DEF Seen
  <2>2. a \in Arcs /\ a[1] \in Found
    BY DEF Seen
  <2>3. ASSUME NEW k \in 1 .. Len(dfs'), dfs'[k].node = a[1] PROVE j < dfs'[k].next
    <3>1. CASE k = n
      <4>1. j < Top.next /\ dfs'[k].next = i + 1
        BY <1>0, <2>1, <2>3, <3>1
      <4>. QED  BY <1>0, <1>1, <4>1
    <3>2. CASE k \in 1 .. n /\ k # n
      BY <2>1, <2>3, <3>2
    <3>3. CASE k \notin 1 .. n
      <4>1. w \notin Found /\ k = n + 1
        BY <1>0, <3>3
      <4>. QED  BY <2>2, <2>3, <4>1
    <3>. QED  BY <3>1, <3>2, <3>3
  <2>. QED  BY <2>1, <2>2, <2>3 DEF Seen
<1>5. <<Top.node, w>> \in Seen'
  <2>1. ASSUME NEW k \in 1 .. Len(dfs'), dfs'[k].node = Top.node PROVE i < dfs'[k].next
    <3>1. CASE k \in 1 .. n
      <4>1. k = n
        BY <1>0, <2>1, <3>1
      <4>. QED  BY <1>1, <4>1
    <3>2. CASE k \notin 1 .. n
      BY <1>0, <1>1, <2>1, <3>2
    <3>. QED  BY <3>1, <3>2
  <2>2. \A k \in 1 .. Len(dfs') : dfs'[k].node = Top.node => i < dfs'[k].next
    BY <2>1
  <2>3. PICK v : v = Top.node
    OBVIOUS
  <2>4. <<v, w>> \in Arcs' /\ v \in Found'
    BY <1>1, <1>3, <2>3
  <2>5. /\ i \in 1 .. Len(graph'.tuples)
        /\ <<v, w>> = <<graph'.tuples[i].barrel, graph'.tuples[i].source>>
        /\ \A k \in 1 .. Len(dfs') : dfs'[k].node = v => i < dfs'[k].next
    BY <1>1, <2>2, <2>3
  <2>6. <<v, w>> \in Seen'
    BY <2>4, <2>5 DEF Seen
  <2>. QED  BY <2>3, <2>6
<1>6. ASSUME NEW a \in Seen' PROVE a \in Seen \/ a = <<Top.node, w>>
  <2>1. PICK j \in 1 .. N : /\ a = <<T(j).barrel, T(j).source>>
                            /\ \A k \in 1 .. Len(dfs') : dfs'[k].node = a[1] => j < dfs'[k].next
    BY DEF Seen
  <2>2. a \in Arcs /\ a[1] \in Found' /\ a[1] # a[2]
    BY DEF Seen, Arcs
  <2>3. a[1] \in Found
    <3>. SUFFICES ASSUME a[1] \notin Found PROVE FALSE
      OBVIOUS
    <3>1. a[1] = w /\ w \notin Found
      BY <2>2
    <3>2. n + 1 \in 1 .. Len(dfs') /\ dfs'[n + 1].node = a[1] /\ dfs'[n + 1].next = 1
      BY <1>0, <3>1
    <3>3. j < 1
      BY <2>1, <3>2
    <3>. QED  BY <3>3
  <2>4. \A k \in 1 .. n : k \in 1 .. Len(dfs')
    BY <1>0
  <2>5. CASE a[1] # Top.node
    <3>1. \A k \in 1 .. n : dfs[k].node = a[1] => j < dfs[k].next
      <4>1. ASSUME NEW k \in 1 .. n, dfs[k].node = a[1] PROVE j < dfs[k].next
        <5>1. k # n
          BY <1>0, <2>5, <4>1
        <5>. QED  BY <2>1, <2>4, <4>1, <5>1
      <4>. QED  BY <4>1
    <3>. QED  BY <2>1, <2>2, <2>3, <3>1 DEF Seen
  <2>6. CASE a[1] = Top.node
    <3>1. j < i + 1
      BY <1>0, <2>1, <2>4, <2>6
    <3>2. T(j).barrel = Top.node /\ T(j).source # Top.node
      BY <2>1, <2>2, <2>6
    <3>3. CASE j < Top.next
      <4>1. \A k \in 1 .. n : dfs[k].node = a[1] => j < dfs[k].next
        BY <1>0, <2>6, <3>3
      <4>. QED  BY <2>1, <2>2, <2>3, <4>1 DEF Seen
    <3>4. CASE Top.next <= j
      <4>1. i <= j
        BY <1>2, <3>2, <3>4
      <4>2. i = j
        BY <1>1, <3>1, <4>1
      <4>. QED  BY <1>1, <2>1, <4>2
    <3>. QED  BY <1>0, <3>3, <3>4
  <2>. QED  BY <2>5, <2>6
<1>. QED  BY <1>4, <1>5, <1>6

\* A search that starts has not looked at any new arc.
LEMMA StartSees ==
  ASSUME graph' = graph, Arcs' = Arcs, dfs = << >>, NEW w, w \notin Found,
         Found' = Found \cup {w}, Len(dfs') = 1, dfs'[1].node = w, dfs'[1].next = 1
  PROVE  Seen' = Seen
<1>1. ASSUME NEW a \in Seen PROVE a \in Seen'
  <2>1. PICK j \in 1 .. Len(graph.tuples) :
            a = <<graph.tuples[j].barrel, graph.tuples[j].source>>
    BY DEF Seen
  <2>2. a \in Arcs /\ a[1] \in Found
    BY DEF Seen
  <2>3. \A k \in 1 .. Len(dfs') : dfs'[k].node # a[1]
    BY <2>2
  <2>. QED  BY <2>1, <2>2, <2>3 DEF Seen
<1>2. ASSUME NEW a \in Seen' PROVE a \in Seen
  <2>1. PICK j \in 1 .. Len(graph.tuples) :
            /\ a = <<graph.tuples[j].barrel, graph.tuples[j].source>>
            /\ \A k \in 1 .. Len(dfs') : dfs'[k].node = a[1] => j < dfs'[k].next
    BY DEF Seen
  <2>2. a \in Arcs /\ a[1] \in Found'
    BY DEF Seen
  <2>3. a[1] # w
    BY <2>1
  <2>4. a[1] \in Found /\ \A k \in 1 .. Len(dfs) : dfs[k].node # a[1]
    BY <2>2, <2>3
  <2>. QED  BY <2>1, <2>2, <2>4 DEF Seen
<1>. QED  BY <1>1, <1>2

\* A frame that ends has looked at all the arcs of its file.
LEMMA FinishSees ==
  ASSUME TypeOK, FramesInv, graph' = graph, Arcs' = Arcs, Found' = Found,
         dfs # << >>, NextSucc(Top) = 0, Len(dfs') = Len(dfs) - 1,
         \A k \in 1 .. Len(dfs) - 1 : dfs'[k] = dfs[k]
  PROVE  Seen' = Seen /\ \A a \in Arcs : a[1] = Top.node => a \in Seen
<1>. DEFINE n == Len(dfs)
            leaves == {l \in Top.next .. Len(graph.tuples) :
                          /\ graph.tuples[l].barrel = Top.node
                          /\ graph.tuples[l].source # Top.node}
<1>0. /\ n \in Nat /\ n >= 1 /\ n \in 1 .. n /\ Top = dfs[n]
      /\ Top.next \in Nat \ {0} /\ Top.node \in Gray
      /\ \A k \in 1 .. n : dfs[k].node = Top.node => k = n
  BY TopFrame
<1>1. leaves = {}
  <2>1. leaves = {l \in Top.next .. Len(graph.tuples) :
                     /\ graph.tuples[l].barrel = Top.node
                     /\ graph.tuples[l].source # Top.node}
    OBVIOUS
  <2>. HIDE DEF leaves
  <2>2. PICK i : i = NextSucc(Top)
    OBVIOUS
  <2>3. i = 0
    BY <2>2
  <2>4. Top.next \in Nat \ {0}
    BY <1>0
  <2>5. i = 0 => leaves = {}
    BY ONLY TypeOK, <2>1, <2>2, <2>4, NextSuccFirst, Zenon
  <2>. QED  BY <2>3, <2>5
<1>2. Top.node \in Found
  BY <1>0, SearchSets
<1>3. ASSUME NEW a \in Arcs, a[1] = Top.node PROVE a \in Seen
  <2>1. PICK j \in 1 .. Len(graph.tuples) :
            a = <<graph.tuples[j].barrel, graph.tuples[j].source>>
    BY DEF Arcs
  <2>2. a[1] # a[2]
    BY DEF Arcs
  <2>3. graph.tuples[j].barrel = Top.node /\ graph.tuples[j].source # Top.node
    BY <1>3, <2>1, <2>2
  <2>4. Len(graph.tuples) \in Nat
    BY DEF TypeOK, GraphType
  <2>5. j < Top.next
    BY <1>0, <1>1, <2>3, <2>4
  <2>6. \A k \in 1 .. n : dfs[k].node = a[1] => j < dfs[k].next
    BY <1>0, <1>3, <2>5
  <2>. QED  BY <1>2, <1>3, <2>1, <2>6 DEF Seen
<1>4. \A k \in 1 .. Len(dfs') : k \in 1 .. n - 1 /\ k \in 1 .. n
  BY <1>0
<1>5. ASSUME NEW a \in Seen PROVE a \in Seen'
  <2>1. PICK j \in 1 .. Len(graph.tuples) :
            /\ a = <<graph.tuples[j].barrel, graph.tuples[j].source>>
            /\ \A k \in 1 .. Len(dfs) : dfs[k].node = a[1] => j < dfs[k].next
    BY DEF Seen
  <2>2. a \in Arcs /\ a[1] \in Found
    BY DEF Seen
  <2>3. \A k \in 1 .. Len(dfs') : dfs'[k].node = a[1] => j < dfs'[k].next
    BY <1>4, <2>1
  <2>. QED  BY <2>1, <2>2, <2>3 DEF Seen
<1>6. ASSUME NEW a \in Seen' PROVE a \in Seen
  <2>1. PICK j \in 1 .. Len(graph.tuples) :
            /\ a = <<graph.tuples[j].barrel, graph.tuples[j].source>>
            /\ \A k \in 1 .. Len(dfs') : dfs'[k].node = a[1] => j < dfs'[k].next
    BY DEF Seen
  <2>2. a \in Arcs /\ a[1] \in Found
    BY DEF Seen
  <2>3. CASE a[1] = Top.node
    BY <1>3, <2>2, <2>3
  <2>4. CASE a[1] # Top.node
    <3>1. ASSUME NEW k \in 1 .. n, dfs[k].node = a[1] PROVE j < dfs[k].next
      <4>1. k # n
        BY <1>0, <2>4, <3>1
      <4>2. k \in 1 .. n - 1 /\ k \in 1 .. Len(dfs')
        BY <1>0, <4>1
      <4>. QED  BY <2>1, <3>1, <4>2
    <3>. QED  BY <2>1, <2>2, <3>1 DEF Seen
  <2>. QED  BY <2>3, <2>4
<1>. QED  BY <1>3, <1>5, <1>6

\* The files are finitely many, and a new index is larger than all others.
LEMMA CounterGrows ==
  ASSUME FramesInv
  PROVE  /\ IndexCounter \in Nat /\ IndexCounter \in Int
         /\ \A x \in Found : indices[x] < IndexCounter
         /\ \A w \in Files \ Found :
                Found' = Found \cup {w} => IndexCounter' = IndexCounter + 1
<1>1. IsFiniteSet(Files) /\ Found \in SUBSET Files
  BY ExportsFinite DEF Found
<1>2. IsFiniteSet(Found) /\ Cardinality(Found) \in Nat
  BY <1>1, FS_Subset, FS_CardinalityType
<1>3. IndexCounter = Cardinality(Found) /\ IndexCounter' = Cardinality(Found')
  BY DEF IndexCounter, Found
<1>4. ASSUME NEW w \in Files \ Found PROVE Cardinality(Found \cup {w}) = Cardinality(Found) + 1
  BY <1>2, FS_AddElement
<1>5. \A x \in Found : indices[x] \in 0 .. IndexCounter - 1
  BY DEF FramesInv
<1>6. IndexCounter \in Nat /\ IndexCounter \in Int
  BY <1>2, <1>3
<1>7. \A x \in Found : indices[x] < IndexCounter
  <2>. HIDE DEF IndexCounter
  <2>. QED  BY <1>5, <1>6
<1>. QED  BY <1>2, <1>3, <1>4, <1>6, <1>7

\* Opening a frame for a file without an index.
LEMMA DiscoverFrames ==
  ASSUME FramesInv, Nodes' = Nodes, NEW w \in Nodes, w \in Files, w \notin Found, Discover(w),
         lowlinks' = [lowlinks EXCEPT ![w] = IndexCounter],
         dfs' \in Seq([node : Files, next : Nat \ {0}]), Len(dfs') = Len(dfs) + 1,
         \A k \in 1 .. Len(dfs) : dfs'[k].node = dfs[k].node,
         dfs'[Len(dfs) + 1].node = w
  PROVE  /\ FramesInv' /\ OnStack' = OnStack \cup {w} /\ Gray' = Gray \cup {w}
         /\ Found' = Found \cup {w}
<1>0. /\ Gray \subseteq OnStack /\ OnStack \subseteq Found /\ Found \subseteq Files
      /\ indices \in [Files -> Int] /\ lowlinks \in [Files -> Int]
      /\ stack \in Seq(Files) /\ Found \subseteq Nodes
      /\ Len(stack) \in Nat /\ Len(dfs) \in Nat
  BY SearchSets DEF FramesInv
<1>. DEFINE n == IndexCounter
<1>1. n \in Nat /\ \A x \in Found : indices[x] \in 0 .. n - 1
  BY CounterGrows DEF FramesInv
<1>2. /\ indices' = [indices EXCEPT ![w] = n] /\ stack' = Append(stack, w)
      /\ lowlinks' = [lowlinks EXCEPT ![w] = n]
  BY DEF Discover
<1>. HIDE DEF n
<1>3. /\ indices' \in [Files -> Int] /\ lowlinks' \in [Files -> Int] /\ indices'[w] = n
      /\ \A x \in Files : x # w => indices'[x] = indices[x]
  BY <1>0, <1>1, <1>2
<1>4. Found' = Found \cup {w}
  BY <1>1, <1>3 DEF Found, Unset
<1>5. IndexCounter' = n + 1
  BY <1>0, <1>4, CounterGrows DEF n
<1>6. ASSUME NEW x \in Found' PROVE indices'[x] \in 0 .. IndexCounter' - 1
  <2>1. CASE x = w
    <3>1. indices'[x] = n
      BY <1>3, <2>1
    <3>. QED  BY <1>1, <1>5, <3>1
  <2>2. CASE x # w
    <3>1. indices'[x] = indices[x] /\ x \in Found
      BY <1>0, <1>3, <1>4, <1>6, <2>2
    <3>. QED  BY <1>1, <1>5, <3>1
  <2>. QED  BY <2>1, <2>2
<1>7. /\ stack' \in Seq(Files) /\ Len(stack') = Len(stack) + 1
      /\ stack'[Len(stack) + 1] = w /\ \A i \in 1 .. Len(stack) : stack'[i] = stack[i]
  BY <1>0, <1>2
<1>8. \A i \in 1 .. Len(stack') : i \in 1 .. Len(stack) \/ i = Len(stack) + 1
  BY <1>0, <1>7
<1>9. \A i \in 1 .. Len(dfs') : i \in 1 .. Len(dfs) \/ i = Len(dfs) + 1
  BY <1>0
<1>10. OnStack' = OnStack \cup {w}
  <2>1. \A i \in 1 .. Len(stack) : i \in 1 .. Len(stack')
    BY <1>0, <1>7
  <2>2. Len(stack) + 1 \in 1 .. Len(stack')
    BY <1>0, <1>7
  <2>3. ASSUME NEW x \in OnStack' PROVE x \in OnStack \cup {w}
    <3>1. PICK i \in 1 .. Len(stack') : x = stack'[i]
      BY <2>3 DEF OnStack
    <3>. QED  BY <1>7, <1>8, <3>1 DEF OnStack
  <2>4. ASSUME NEW x \in OnStack PROVE x \in OnStack'
    <3>1. PICK i \in 1 .. Len(stack) : x = stack[i]
      BY DEF OnStack
    <3>. QED  BY <1>7, <2>1, <3>1 DEF OnStack
  <2>5. w \in OnStack'
    BY <1>7, <2>2 DEF OnStack
  <2>. QED  BY <2>3, <2>4, <2>5
<1>11. Gray' = Gray \cup {w}
  <2>1. \A i \in 1 .. Len(dfs) : i \in 1 .. Len(dfs')
    BY <1>0
  <2>2. Len(dfs) + 1 \in 1 .. Len(dfs')
    BY <1>0
  <2>. QED  BY <1>9, <2>1, <2>2 DEF Gray
<1>12. ASSUME NEW x \in Found
       PROVE  indices'[x] = indices[x] /\ indices'[x] < indices'[w]
  <2>1. x \in Files /\ x # w
    BY <1>0
  <2>2. indices'[x] = indices[x] /\ indices'[w] = n
    BY <1>3, <2>1
  <2>3. indices[x] \in 0 .. n - 1
    BY <1>1
  <2>. QED  BY <1>1, <2>2, <2>3
<1>13. \A i \in 1 .. Len(stack) : stack[i] \in Found
  BY <1>0 DEF OnStack
<1>14. \A i \in 1 .. Len(dfs) : dfs[i].node \in Found
  BY <1>0 DEF Gray
<1>15. ASSUME NEW i \in 1 .. Len(stack'), NEW j \in 1 .. Len(stack'), i < j
       PROVE  indices'[stack'[i]] < indices'[stack'[j]]
  <2>1. i \in 1 .. Len(stack)
    BY <1>0, <1>7, <1>15
  <2>2. CASE j \in 1 .. Len(stack)
    <3>1. indices[stack[i]] < indices[stack[j]]
      BY <1>15, <2>1, <2>2 DEF FramesInv
    <3>. QED  BY <1>7, <1>12, <1>13, <2>1, <2>2, <3>1
  <2>3. CASE j = Len(stack) + 1
    BY <1>7, <1>12, <1>13, <2>1, <2>3
  <2>. QED  BY <1>8, <2>2, <2>3
<1>16. ASSUME NEW i \in 1 .. Len(dfs'), NEW j \in 1 .. Len(dfs'), i < j
       PROVE  indices'[dfs'[i].node] < indices'[dfs'[j].node]
  <2>1. i \in 1 .. Len(dfs)
    BY <1>0, <1>16
  <2>2. CASE j \in 1 .. Len(dfs)
    <3>1. indices[dfs[i].node] < indices[dfs[j].node]
      BY <1>16, <2>1, <2>2 DEF FramesInv
    <3>. QED  BY <1>12, <1>14, <2>1, <2>2, <3>1
  <2>3. CASE j = Len(dfs) + 1
    BY <1>12, <1>14, <2>1, <2>3
  <2>. QED  BY <1>9, <2>2, <2>3
<1>17. OnStack' \subseteq Found' /\ Gray' \subseteq OnStack' /\ Found' \subseteq Nodes'
  BY <1>0, <1>4, <1>10, <1>11
<1>. QED
  BY <1>3, <1>4, <1>6, <1>7, <1>10, <1>11, <1>15, <1>16, <1>17 DEF FramesInv

\* A look at an arc changes the position of a frame and nothing else.
LEMMA LookFrames ==
  ASSUME FramesInv, Nodes' = Nodes, indices' = indices, stack' = stack,
         lowlinks' \in [Files -> Int],
         dfs' \in Seq([node : Files, next : Nat \ {0}]), Len(dfs') = Len(dfs),
         \A k \in 1 .. Len(dfs) : dfs'[k].node = dfs[k].node
  PROVE  FramesInv' /\ OnStack' = OnStack /\ Gray' = Gray /\ Found' = Found
<1>1. OnStack' = OnStack
  BY DEF OnStack
<1>2. Found' = Found /\ IndexCounter' = IndexCounter
  BY DEF Found, IndexCounter
<1>3. Gray' = Gray
  BY DEF Gray
<1>4. ASSUME NEW i \in 1 .. Len(dfs'), NEW j \in 1 .. Len(dfs'), i < j
      PROVE  indices'[dfs'[i].node] < indices'[dfs'[j].node]
  <2>1. i \in 1 .. Len(dfs) /\ j \in 1 .. Len(dfs)
    OBVIOUS
  <2>2. indices[dfs[i].node] < indices[dfs[j].node]
    BY <1>4, <2>1 DEF FramesInv
  <2>. QED  BY <2>1, <2>2
<1>. QED  BY <1>1, <1>2, <1>3, <1>4 DEF FramesInv

\* The first elements of a sequence.
LEMMA FirstElements ==
  ASSUME NEW S, NEW s \in Seq(S), NEW m \in 0 .. Len(s)
  PROVE  /\ SubSeq(s, 1, m) \in Seq(S) /\ Len(SubSeq(s, 1, m)) = m
         /\ \A k \in 1 .. m : SubSeq(s, 1, m)[k] = s[k]
  OBVIOUS

\* The end of a frame leaves the frames below it.
LEMMA PopFrames ==
  ASSUME FramesInv, dfs # << >>, NEW v, v = Top.node, indices' = indices,
         dfs' = SubSeq(dfs, 1, Len(dfs) - 1)
  PROVE  /\ dfs' \in Seq([node : Files, next : Nat \ {0}]) /\ Len(dfs') = Len(dfs) - 1
         /\ \A k \in 1 .. Len(dfs) - 1 : dfs'[k] = dfs[k]
         /\ Gray' = Gray \ {v} /\ Found' = Found /\ IndexCounter' = IndexCounter
         /\ \A i, j \in 1 .. Len(dfs') : i < j => indices'[dfs'[i].node] < indices'[dfs'[j].node]
         /\ dfs' = << >> => Gray' = {}
         /\ dfs' # << >> => /\ dfs'[Len(dfs')].node \in Gray'
                            /\ \A g \in Gray' : indices[g] <= indices[dfs'[Len(dfs')].node]
<1>. DEFINE n == Len(dfs)
            Frame == [node : Files, next : Nat \ {0}]
<1>0. /\ n \in Nat /\ n >= 1 /\ Top = dfs[n]
      /\ \A k \in 1 .. n : dfs[k].node \in Files /\ (dfs[k].node = Top.node => k = n)
  BY TopFrame
<1>1. dfs \in Seq(Frame) /\ indices \in [Files -> Int]
  BY DEF FramesInv
<1>. HIDE DEF Frame
<1>2. dfs' \in Seq(Frame) /\ Len(dfs') = n - 1 /\ \A k \in 1 .. n - 1 : dfs'[k] = dfs[k]
  <2>1. n - 1 \in 0 .. Len(dfs) /\ dfs' = SubSeq(dfs, 1, n - 1)
    BY <1>0
  <2>. HIDE DEF n
  <2>. QED  BY <1>1, <2>1, FirstElements
<1>3. \A k \in 1 .. n : k = n \/ k \in 1 .. n - 1
  BY <1>0
<1>4. \A k \in 1 .. n - 1 : k \in 1 .. n /\ k # n
  BY <1>0
<1>5. Gray' = Gray \ {v}
  <2>1. ASSUME NEW g \in Gray' PROVE g \in Gray /\ g # v
    <3>1. PICK k \in 1 .. n - 1 : g = dfs[k].node
      BY <1>2, <2>1 DEF Gray
    <3>. QED  BY <1>0, <1>4, <3>1 DEF Gray
  <2>2. ASSUME NEW g \in Gray, g # v PROVE g \in Gray'
    <3>1. PICK k \in 1 .. n : g = dfs[k].node
      BY DEF Gray
    <3>2. k \in 1 .. n - 1
      BY <1>0, <1>3, <2>2, <3>1
    <3>. QED  BY <1>2, <3>1, <3>2 DEF Gray
  <2>. QED  BY <2>1, <2>2
<1>6. Found' = Found /\ IndexCounter' = IndexCounter
  BY DEF Found, IndexCounter
<1>7. ASSUME NEW i \in 1 .. Len(dfs'), NEW j \in 1 .. Len(dfs'), i < j
      PROVE  indices'[dfs'[i].node] < indices'[dfs'[j].node]
  <2>1. i \in 1 .. n /\ j \in 1 .. n /\ dfs'[i] = dfs[i] /\ dfs'[j] = dfs[j]
    BY <1>2, <1>4
  <2>. QED  BY <1>7, <2>1 DEF FramesInv
<1>8. dfs' = << >> => Gray' = {}
  <2>1. dfs' = << >> => Len(dfs') = 0
    OBVIOUS
  <2>2. Len(dfs') = 0 => 1 .. Len(dfs') = {}
    OBVIOUS
  <2>. QED  BY <2>1, <2>2 DEF Gray
<1>9. ASSUME dfs' # << >>
      PROVE  /\ dfs'[Len(dfs')].node \in Gray'
             /\ \A g \in Gray' : indices[g] <= indices[dfs'[Len(dfs')].node]
  <2>1. Len(dfs') \in 1 .. Len(dfs')
    BY <1>0, <1>2, <1>9
  <2>2. dfs'[Len(dfs')].node \in Gray'
    BY <2>1 DEF Gray
  <2>3. ASSUME NEW g \in Gray' PROVE indices[g] <= indices[dfs'[Len(dfs')].node]
    <3>1. PICK k \in 1 .. Len(dfs') : g = dfs'[k].node
      BY <2>3 DEF Gray
    <3>2. k = Len(dfs') \/ k < Len(dfs')
      BY <1>0, <1>2
    <3>3. dfs'[k].node \in Files /\ dfs'[Len(dfs')].node \in Files
      BY <1>0, <1>2, <1>4, <2>1
    <3>4. CASE k = Len(dfs')
      BY <1>1, <3>1, <3>3, <3>4
    <3>5. CASE k < Len(dfs')
      BY <1>1, <1>7, <2>1, <3>1, <3>3, <3>5
    <3>. QED  BY <3>2, <3>4, <3>5
  <2>. QED  BY <2>2, <2>3
<1>. QED  BY <1>2, <1>5, <1>6, <1>7, <1>8, <1>9 DEF Frame

\* What a root takes off the stack is all that is not below it.
LEMMA PopStack ==
  ASSUME FramesInv, NEW v \in OnStack, NEW at, at = CHOOSE i \in 1 .. Len(stack) : stack[i] = v,
         NEW C, C = {x \in OnStack : indices[v] <= indices[x]},
         stack' = SubSeq(stack, 1, at - 1), indices' = indices
  PROVE  /\ {stack[i] : i \in at .. Len(stack)} = C
         /\ stack' \in Seq(Files) /\ OnStack' = OnStack \ C
         /\ \A i, j \in 1 .. Len(stack') : i < j => indices'[stack'[i]] < indices'[stack'[j]]
<1>1. /\ stack \in Seq(Files) /\ Len(stack) \in Nat /\ indices \in [Files -> Int]
      /\ \A i \in 1 .. Len(stack) : stack[i] \in Files
  BY DEF FramesInv
<1>2. at \in 1 .. Len(stack) /\ stack[at] = v
  <2>1. \E i \in 1 .. Len(stack) : stack[i] = v
    BY DEF OnStack
  <2>. QED  BY <2>1
<1>3. ASSUME NEW i \in 1 .. Len(stack)
      PROVE  /\ at <= i => indices[v] <= indices[stack[i]]
             /\ i < at => indices[stack[i]] < indices[v]
  <2>1. i < at => indices[stack[i]] < indices[v]
    BY <1>2 DEF FramesInv
  <2>2. at < i => indices[v] < indices[stack[i]]
    BY <1>2 DEF FramesInv
  <2>3. at = i => stack[i] = v
    BY <1>2
  <2>4. indices[stack[i]] \in Int /\ indices[v] \in Int
    BY <1>1, <1>2
  <2>. QED  BY <1>2, <2>1, <2>2, <2>3, <2>4
<1>4. ASSUME NEW i \in 1 .. Len(stack)
      PROVE  /\ at <= i => stack[i] \in C
             /\ i < at => stack[i] \notin C
  <2>1. stack[i] \in OnStack
    BY DEF OnStack
  <2>2. indices[stack[i]] \in Int /\ indices[v] \in Int
    BY <1>1, <1>2
  <2>. QED  BY <1>3, <2>1, <2>2
<1>5. \A i \in at .. Len(stack) : i \in 1 .. Len(stack) /\ at <= i
  BY <1>1, <1>2
<1>6. \A i \in 1 .. Len(stack) : (at <= i => i \in at .. Len(stack)) /\ (i < at \/ at <= i)
  BY <1>1, <1>2
<1>7. \A x \in OnStack : \E i \in 1 .. Len(stack) : x = stack[i]
  BY DEF OnStack
<1>8. {stack[i] : i \in at .. Len(stack)} = C
  <2>1. ASSUME NEW i \in at .. Len(stack) PROVE stack[i] \in C
    BY <1>4, <1>5
  <2>2. ASSUME NEW x \in C PROVE \E i \in at .. Len(stack) : x = stack[i]
    <3>1. PICK i \in 1 .. Len(stack) : x = stack[i]
      BY <1>7
    <3>. QED  BY <1>4, <1>6, <3>1
  <2>. QED  BY <2>1, <2>2
<1>9. /\ stack' \in Seq(Files) /\ Len(stack') = at - 1
      /\ \A i \in 1 .. at - 1 : stack'[i] = stack[i]
  BY <1>1, <1>2
<1>10. \A i \in 1 .. at - 1 : i \in 1 .. Len(stack) /\ i < at
  BY <1>1, <1>2
<1>11. \A i \in 1 .. Len(stack) : i < at => i \in 1 .. at - 1
  BY <1>1, <1>2
<1>12. OnStack' = OnStack \ C
  <2>1. ASSUME NEW x \in OnStack' PROVE x \in OnStack /\ x \notin C
    <3>1. PICK i \in 1 .. at - 1 : x = stack[i]
      BY <1>9, <2>1 DEF OnStack
    <3>. QED  BY <1>4, <1>10, <3>1 DEF OnStack
  <2>2. ASSUME NEW x \in OnStack, x \notin C PROVE x \in OnStack'
    <3>1. PICK i \in 1 .. Len(stack) : x = stack[i]
      BY <1>7
    <3>2. i \in 1 .. at - 1
      BY <1>4, <1>6, <1>11, <2>2, <3>1
    <3>. QED  BY <1>9, <3>1, <3>2 DEF OnStack
  <2>. QED  BY <2>1, <2>2
<1>13. ASSUME NEW i \in 1 .. Len(stack'), NEW j \in 1 .. Len(stack'), i < j
       PROVE  indices'[stack'[i]] < indices'[stack'[j]]
  <2>1. /\ i \in 1 .. Len(stack) /\ j \in 1 .. Len(stack)
        /\ stack'[i] = stack[i] /\ stack'[j] = stack[j]
    BY <1>9, <1>10
  <2>. QED  BY <1>13, <2>1 DEF FramesInv
<1>. QED  BY <1>8, <1>9, <1>12, <1>13

\* The arcs are those of the graph, which never changes.
LEMMA ArcsStable ==
  ASSUME graph' = graph
  PROVE  /\ Arcs' = Arcs /\ Nodes' = Nodes
         /\ \A L : Reaches(L)' => Reaches(L)
<1>1. Arcs' = Arcs
  BY DEF Arcs
<1>2. Nodes' = Nodes
  BY DEF Nodes, TupleSet
<1>3. ASSUME NEW L, Reaches(L)' PROVE Reaches(L)
  BY <1>1, <1>3 DEF Reaches
<1>. QED  BY <1>1, <1>2, <1>3

\* A closed set that has a file has all that the file leads to.
LEMMA LeadsWithin ==
  ASSUME TypeOK, NEW C \in SUBSET Files, NEW f \in C,
         \A t \in TupleSet : t.barrel \in C => t.source \in C
  PROVE  Leads(f) \subseteq C
<1>1. PICK R : Iterates(R, LeadRound, {f}, Files, NFiles) /\ Leads(f) = R[NFiles]
  BY LeadsIterate, Zenon
<1>2. LeadRound \in [SUBSET Files -> SUBSET Files]
  BY TupleSetType DEF LeadRound
<1>3. Keeps(LeadRound, Files, C)
  BY DEF LeadRound, Keeps
<1>4. PICK S : S = {f}
  OBVIOUS
<1>5. NFiles \in Nat /\ S \subseteq C /\ Iterates(R, LeadRound, S, Files, NFiles)
  BY <1>1, <1>4, ExportsFinite
<1>6. R[NFiles] \subseteq C
  BY <1>2, <1>3, <1>5, IterationWithin, Zenon
<1>. QED  BY <1>1, <1>6

\* Leads is the least relation that follows the arcs.
LEMMA LeadsReaches ==
  ASSUME TypeOK
  PROVE  Reaches([f \in Files |-> Leads(f)])
<1>. DEFINE L == [f \in Files |-> Leads(f)]
<1>1. ASSUME NEW f \in Files PROVE L[f] = Leads(f) /\ L[f] \in SUBSET Files /\ f \in L[f]
  BY LeadsClosed
<1>2. L \in [Files -> SUBSET Files]
  BY <1>1
<1>. HIDE DEF L
<1>3. ASSUME NEW f \in Files, NEW x \in Files, NEW w \in Files,
             x \in L[f], <<x, w>> \in Arcs
      PROVE  w \in L[f]
  <2>1. PICK j \in 1 .. Len(graph.tuples) :
            <<x, w>> = <<graph.tuples[j].barrel, graph.tuples[j].source>>
    BY <1>3 DEF Arcs
  <2>2. graph.tuples[j] \in TupleSet /\ graph.tuples[j].barrel = x /\ graph.tuples[j].source = w
    BY <2>1 DEF TupleSet
  <2>. QED  BY <1>1, <1>3, <2>2, LeadsClosed
<1>4. ASSUME NEW C \in SUBSET Files, NEW f \in C,
             \A x, w \in Files : x \in C /\ <<x, w>> \in Arcs => w \in C
      PROVE  L[f] \subseteq C
  <2>1. ASSUME NEW t \in TupleSet, t.barrel \in C PROVE t.source \in C
    <3>1. PICK j \in 1 .. Len(graph.tuples) : t = graph.tuples[j]
      BY DEF TupleSet
    <3>2. t.barrel \in Files /\ t.source \in Files
      BY TupleSetType
    <3>3. CASE t.barrel = t.source
      BY <2>1, <3>3
    <3>4. CASE t.barrel # t.source
      <4>1. <<t.barrel, t.source>> \in Arcs
        BY <3>1, <3>2, <3>4 DEF Arcs
      <4>. QED  BY <1>4, <2>1, <3>2, <4>1
    <3>. QED  BY <3>3, <3>4
  <2>. QED  BY <1>1, <2>1, LeadsWithin
<1>5. Reaches(L)
  BY <1>1, <1>2, <1>3, <1>4 DEF Reaches
<1>. QED  BY <1>5 DEF L

\* Every step of the search keeps its invariant: a new search ...
LEMMA StartSearchKeeps ==
  ASSUME TypeOK, FramesInv, LookedInv, NEW L, Reaches(L), DepthInv(L),
         NEW w \in Files, StartSearch(w)
  PROVE  FramesInv' /\ LookedInv' /\ DepthInv(L)'
<1>1. /\ graph' = graph /\ dfs = << >> /\ w \in Nodes /\ indices[w] = Unset /\ Discover(w)
      /\ lowlinks' = [lowlinks EXCEPT ![w] = IndexCounter]
      /\ dfs' = <<[node |-> w, next |-> 1]>> /\ sccs' = sccs
  BY DEF StartSearch, vars
<1>2. Arcs' = Arcs /\ Nodes' = Nodes
  BY <1>1, ArcsStable
<1>3. w \notin Found
  BY <1>1 DEF Found
<1>4. /\ Len(dfs) = 0 /\ Len(dfs') = 1 /\ dfs'[1].node = w /\ dfs'[1].next = 1
      /\ dfs' \in Seq([node : Files, next : Nat \ {0}])
  BY <1>1
<1>5. /\ FramesInv' /\ OnStack' = OnStack \cup {w} /\ Gray' = Gray \cup {w}
      /\ Found' = Found \cup {w}
  <2>1. /\ Len(dfs') = Len(dfs) + 1 /\ dfs'[Len(dfs) + 1].node = w
        /\ \A k \in 1 .. Len(dfs) : dfs'[k].node = dfs[k].node
    BY <1>4
  <2>. QED  BY <1>1, <1>2, <1>3, <1>4, <2>1, DiscoverFrames
<1>6. Seen' = Seen
  BY <1>1, <1>2, <1>3, <1>4, <1>5, StartSees
<1>7. Gray = {}
  BY <1>4 DEF Gray
<1>8. IndexCounter \in Int /\ \A x \in Found : indices[x] < IndexCounter
  BY CounterGrows
<1>9. PICK n \in Int : n = IndexCounter
  BY <1>8
<1>10. indices' = [indices EXCEPT ![w] = n] /\ lowlinks' = [lowlinks EXCEPT ![w] = n]
  BY <1>1, <1>9 DEF Discover
<1>11. PICK E : E = {}
  OBVIOUS
<1>12. LookedInv' /\ DepthInv(L)'
  <2>1. \A x \in Found : indices[x] < n
    BY <1>8, <1>9
  <2>2. E \subseteq {a \in Arcs : a[1] \in Gray /\ a[2] = w} /\ Seen' = Seen \cup E
    BY <1>6, <1>11
  <2>3. \A g \in Gray : w \in L[g]
    BY <1>7
  <2>. QED
    BY <1>1, <1>2, <1>3, <1>5, <1>10, <2>1, <2>2, <2>3, DiscoverKeeps
<1>. QED  BY <1>5, <1>12

\* ... a look at the next arc of the top frame ...
LEMMA StepSuccessorKeeps ==
  ASSUME TypeOK, FramesInv, LookedInv, NEW L, Reaches(L), DepthInv(L), StepSuccessor
  PROVE  FramesInv' /\ LookedInv' /\ DepthInv(L)'
<1>0. PICK i, v, w, adv :
        /\ i = NextSucc(Top) /\ v = Top.node /\ w = graph.tuples[i].source
        /\ adv = [dfs EXCEPT ![Len(dfs)].next = NextSucc(Top) + 1]
  OBVIOUS
<1>1. /\ graph' = graph /\ dfs # << >> /\ i # 0 /\ sccs' = sccs
      /\ \/ /\ indices[w] = Unset /\ Discover(w)
            /\ lowlinks' = [lowlinks EXCEPT ![w] = IndexCounter]
            /\ dfs' = Append(adv, [node |-> w, next |-> 1])
         \/ /\ indices[w] # Unset
            /\ lowlinks' = IF w \in OnStack /\ indices[w] < lowlinks[v]
                           THEN [lowlinks EXCEPT ![v] = indices[w]] ELSE lowlinks
            /\ dfs' = adv /\ indices' = indices /\ stack' = stack
  BY <1>0 DEF StepSuccessor, vars
<1>2. Arcs' = Arcs /\ Nodes' = Nodes
  BY <1>1, ArcsStable
<1>3. /\ Len(dfs) \in Nat /\ Len(dfs) >= 1 /\ Len(dfs) \in 1 .. Len(dfs)
      /\ v \in Gray /\ v \in Files /\ \A g \in Gray : indices[g] <= indices[v]
      /\ Gray \subseteq OnStack /\ OnStack \subseteq Found /\ Found \subseteq Files
      /\ indices \in [Files -> Int] /\ lowlinks \in [Files -> Int]
  BY <1>0, <1>1, TopFrame, SearchSets
<1>4. i \in 1 .. Len(graph.tuples) /\ w \in Files /\ <<v, w>> \in Arcs /\ w \in Nodes
  BY <1>0, <1>1, TopArc
<1>. DEFINE Frame == [node : Files, next : Nat \ {0}]
<1>5. /\ adv \in Seq(Frame) /\ Len(adv) = Len(dfs)
      /\ \A k \in 1 .. Len(dfs) : adv[k].node = dfs[k].node
      /\ \A k \in 1 .. Len(dfs) : k # Len(dfs) => adv[k].next = dfs[k].next
      /\ adv[Len(dfs)].next = i + 1
  <2>1. dfs \in Seq(Frame)
    BY DEF FramesInv
  <2>2. \A k \in 1 .. Len(dfs) : dfs[k] \in Frame
    <3>. HIDE DEF Frame
    <3>. QED  BY <2>1
  <2>3. adv = [dfs EXCEPT ![Len(dfs)] = [dfs[Len(dfs)] EXCEPT !.next = i + 1]]
    BY <1>0
  <2>4. PICK fr : fr = [dfs[Len(dfs)] EXCEPT !.next = i + 1]
    OBVIOUS
  <2>5. fr \in Frame /\ fr.node = dfs[Len(dfs)].node /\ fr.next = i + 1
    <3>1. PICK old : old = dfs[Len(dfs)]
      OBVIOUS
    <3>2. old \in Frame /\ fr = [old EXCEPT !.next = i + 1]
      BY <1>3, <2>2, <2>4, <3>1
    <3>3. i + 1 \in Nat \ {0}
      BY <1>4
    <3>4. fr \in Frame /\ fr.node = old.node /\ fr.next = i + 1
      BY <3>2, <3>3
    <3>. QED  BY <3>1, <3>4
  <2>6. adv = [dfs EXCEPT ![Len(dfs)] = fr]
    BY <2>3, <2>4
  <2>7. /\ adv \in Seq(Frame) /\ Len(adv) = Len(dfs) /\ adv[Len(dfs)] = fr
        /\ \A k \in 1 .. Len(dfs) : k # Len(dfs) => adv[k] = dfs[k]
    <3>. HIDE DEF Frame
    <3>. QED  BY <1>3, <2>1, <2>5, <2>6
  <2>. QED  BY <2>5, <2>7
<1>. HIDE DEF Frame
<1>6. CASE indices[w] = Unset
  <2>1. /\ Discover(w) /\ lowlinks' = [lowlinks EXCEPT ![w] = IndexCounter]
        /\ dfs' = Append(adv, [node |-> w, next |-> 1]) /\ w \notin Found
    BY <1>1, <1>6 DEF Found
  <2>2. PICK fr : fr = [node |-> w, next |-> 1]
    OBVIOUS
  <2>3. fr \in Frame /\ fr.node = w /\ fr.next = 1
    BY <1>4, <2>2 DEF Frame
  <2>4. /\ dfs' \in Seq(Frame) /\ Len(dfs') = Len(dfs) + 1 /\ dfs'[Len(dfs) + 1] = fr
        /\ \A k \in 1 .. Len(dfs) : dfs'[k] = adv[k]
    BY <1>3, <1>5, <2>1, <2>2, <2>3
  <2>5. /\ FramesInv' /\ OnStack' = OnStack \cup {w} /\ Gray' = Gray \cup {w}
        /\ Found' = Found \cup {w}
    BY <1>2, <1>4, <1>5, <2>1, <2>3, <2>4, DiscoverFrames DEF Frame
  <2>6. Seen' = Seen \cup {<<v, w>>}
    <3>1. /\ Len(dfs') \in Nat /\ Len(dfs) <= Len(dfs') /\ dfs'[Len(dfs) + 1].node = w
          /\ dfs'[Len(dfs) + 1].next = 1 /\ dfs'[Len(dfs)].next = i + 1
          /\ \A k \in 1 .. Len(dfs) : dfs'[k].node = dfs[k].node
          /\ \A k \in 1 .. Len(dfs) : k # Len(dfs) => dfs'[k].next = dfs[k].next
      BY <1>3, <1>5, <2>3, <2>4
    <3>2. Seen' = Seen \cup {<<Top.node, w>>}
      BY <1>0, <1>1, <1>2, <2>1, <2>4, <2>5, <3>1, AdvanceSees
    <3>. QED  BY <1>0, <3>2
  <2>7. IndexCounter \in Int /\ \A x \in Found : indices[x] < IndexCounter
    BY CounterGrows
  <2>8. PICK n \in Int : n = IndexCounter
    BY <2>7
  <2>9. /\ indices' = [indices EXCEPT ![w] = n] /\ lowlinks' = [lowlinks EXCEPT ![w] = n]
        /\ \A x \in Found : indices[x] < n
    BY <2>1, <2>7, <2>8 DEF Discover
  <2>10. \A g \in Gray : w \in L[g]
    <3>1. \A g \in Gray : v \in L[g]
      BY <1>3 DEF DepthInv, PathsInv
    <3>. QED  BY <1>3, <1>4, <3>1 DEF Reaches
  <2>11. PICK E : E = {<<v, w>>}
    OBVIOUS
  <2>12. E \subseteq {a \in Arcs : a[1] \in Gray /\ a[2] = w} /\ Seen' = Seen \cup E
    BY <1>3, <1>4, <2>6, <2>11
  <2>13. LookedInv' /\ DepthInv(L)'
    BY <1>1, <1>2, <1>4, <2>1, <2>5, <2>8, <2>9, <2>10, <2>12, DiscoverKeeps
  <2>. QED  BY <2>5, <2>13
<1>7. CASE indices[w] # Unset
  <2>1. /\ lowlinks' = IF w \in OnStack /\ indices[w] < lowlinks[v]
                       THEN [lowlinks EXCEPT ![v] = indices[w]] ELSE lowlinks
        /\ dfs' = adv /\ indices' = indices /\ stack' = stack /\ w \in Found
    BY <1>1, <1>4, <1>7 DEF Found, Discover
  <2>2. lowlinks' \in [Files -> Int]
    BY <1>3, <1>4, <2>1
  <2>3. FramesInv' /\ OnStack' = OnStack /\ Gray' = Gray /\ Found' = Found
    BY <1>2, <1>5, <2>1, <2>2, LookFrames DEF Frame
  <2>4. Seen' = Seen \cup {<<v, w>>}
    <3>1. Found' = Found \cup {w} /\ Len(dfs') = Len(dfs)
      BY <1>5, <2>1, <2>3
    <3>2. /\ Len(dfs') \in Nat /\ Len(dfs) <= Len(dfs') /\ dfs'[Len(dfs)].next = i + 1
          /\ \A k \in 1 .. Len(dfs) : dfs'[k].node = dfs[k].node
          /\ \A k \in 1 .. Len(dfs) : k # Len(dfs) => dfs'[k].next = dfs[k].next
      <4>1. Len(dfs') \in Nat /\ Len(dfs) <= Len(dfs')
        BY <1>3, <3>1
      <4>2. dfs' = adv
        BY <2>1
      <4>. QED  BY <1>5, <4>1, <4>2
    <3>3. Seen' = Seen \cup {<<Top.node, w>>}
      BY <1>0, <1>1, <1>2, <2>1, <3>1, <3>2, AdvanceSees
    <3>. QED  BY <1>0, <3>3
  <2>5. LookedInv' /\ DepthInv(L)'
    BY <1>1, <1>2, <1>3, <1>4, <2>1, <2>3, <2>4, LookKeeps
  <2>. QED  BY <2>3, <2>5
<1>. QED  BY <1>6, <1>7

\* ... and the end of the top frame, a root or not.
LEMMA FinishFrameKeeps ==
  ASSUME TypeOK, FramesInv, LookedInv, NEW L, Reaches(L), DepthInv(L), FinishFrame
  PROVE  FramesInv' /\ LookedInv' /\ DepthInv(L)'
<1>0. PICK v, at, C :
        /\ v = Top.node /\ at = CHOOSE i \in 1 .. Len(stack) : stack[i] = v
        /\ C = {x \in OnStack : indices[v] <= indices[x]}
  OBVIOUS
<1>1. /\ graph' = graph /\ dfs # << >> /\ NextSucc(Top) = 0 /\ indices' = indices
      /\ dfs' = SubSeq(dfs, 1, Len(dfs) - 1)
      /\ IF lowlinks[v] = indices[v]
         THEN /\ sccs' = sccs \cup {{stack[i] : i \in at .. Len(stack)}}
              /\ stack' = SubSeq(stack, 1, at - 1)
         ELSE sccs' = sccs /\ stack' = stack
  BY <1>0 DEF FinishFrame, vars
<1>2. HandLowlink(v, dfs')
  BY <1>0 DEF FinishFrame
<1>3. Arcs' = Arcs /\ Nodes' = Nodes
  BY <1>1, ArcsStable
<1>4. /\ v \in Gray /\ v \in Files /\ \A g \in Gray : indices[g] <= indices[v]
      /\ Gray \subseteq OnStack /\ OnStack \subseteq Found /\ Found \subseteq Files
      /\ indices \in [Files -> Int] /\ lowlinks \in [Files -> Int]
      /\ \A x, y \in OnStack : indices[x] = indices[y] => x = y
  BY <1>0, <1>1, TopFrame, SearchSets
<1>5. /\ dfs' \in Seq([node : Files, next : Nat \ {0}]) /\ Len(dfs') = Len(dfs) - 1
      /\ \A k \in 1 .. Len(dfs) - 1 : dfs'[k] = dfs[k]
      /\ Gray' = Gray \ {v} /\ Found' = Found /\ IndexCounter' = IndexCounter
      /\ \A i, j \in 1 .. Len(dfs') : i < j => indices'[dfs'[i].node] < indices'[dfs'[j].node]
      /\ dfs' = << >> => Gray' = {}
      /\ dfs' # << >> => /\ dfs'[Len(dfs')].node \in Gray'
                         /\ \A g \in Gray' : indices[g] <= indices[dfs'[Len(dfs')].node]
  BY <1>0, <1>1, PopFrames
<1>6. Seen' = Seen /\ \A a \in Arcs : a[1] = v => a \in Seen
  BY <1>0, <1>1, <1>3, <1>5, FinishSees
<1>7. PICK p : p = dfs'[Len(dfs')].node
  OBVIOUS
<1>8. dfs' # << >> => /\ p \in Gray /\ p # v /\ \A g \in Gray \ {v} : indices[g] <= indices[p]
  BY <1>5, <1>7
<1>9. lowlinks' = IF dfs' # << >> /\ lowlinks[v] < lowlinks[p]
                  THEN [lowlinks EXCEPT ![p] = lowlinks[v]] ELSE lowlinks
  BY <1>2, <1>7 DEF HandLowlink
<1>10. lowlinks' \in [Files -> Int]
  BY <1>4, <1>8, <1>9
<1>11. /\ \A f \in Found' : indices'[f] \in 0 .. IndexCounter' - 1
       /\ OnStack' \subseteq OnStack => OnStack' \subseteq Found'
       /\ Found' \subseteq Nodes'
  BY <1>1, <1>3, <1>5 DEF FramesInv
<1>12. CASE lowlinks[v] = indices[v]
  <2>1. /\ {stack[i] : i \in at .. Len(stack)} = C
        /\ stack' \in Seq(Files) /\ OnStack' = OnStack \ C
        /\ \A i, j \in 1 .. Len(stack') : i < j => indices'[stack'[i]] < indices'[stack'[j]]
    <3>1. v \in OnStack /\ stack' = SubSeq(stack, 1, at - 1) /\ indices' = indices
      BY <1>1, <1>4, <1>12
    <3>2. /\ at = CHOOSE i \in 1 .. Len(stack) : stack[i] = v
          /\ C = {x \in OnStack : indices[v] <= indices[x]}
      BY <1>0
    <3>. QED  BY ONLY FramesInv, <3>1, <3>2, PopStack
  <2>2. sccs' = sccs \cup {C}
    BY <1>1, <1>12, <2>1
  <2>3. lowlinks' = lowlinks
    <3>1. CASE dfs' # << >>
      <4>1. lowlinks[p] <= indices[p] /\ indices[p] <= indices[v] /\ p \in Files
        BY <1>4, <1>8, <3>1 DEF DepthInv, LowInv
      <4>2. ~(lowlinks[v] < lowlinks[p])
        BY <1>4, <1>12, <4>1
      <4>. QED  BY <1>9, <4>2
    <3>. QED  BY <1>9, <3>1
  <2>4. Gray' \subseteq OnStack'
    <3>. SUFFICES ASSUME NEW g \in Gray, g # v PROVE g \in OnStack /\ g \notin C
      BY <1>5, <2>1
    <3>1. indices[g] # indices[v]
      BY <1>4
    <3>. QED  BY <1>0, <1>4, <3>1
  <2>5. FramesInv'
    <3>1. indices' \in [Files -> Int]
      BY <1>1, <1>4
    <3>2. OnStack' \subseteq Found' /\ Found' \subseteq Nodes'
      BY <1>11, <2>1
    <3>. QED  BY <1>5, <1>10, <1>11, <2>1, <2>4, <3>1, <3>2 DEF FramesInv
  <2>6. LookedInv' /\ DepthInv(L)'
    BY <1>0, <1>1, <1>3, <1>4, <1>5, <1>6, <1>12, <2>1, <2>2, <2>3, FinishRootKeeps
  <2>. QED  BY <2>5, <2>6
<1>13. CASE lowlinks[v] # indices[v]
  <2>1. sccs' = sccs /\ stack' = stack
    BY <1>1, <1>13
  <2>2. OnStack' = OnStack
    BY <2>1 DEF OnStack
  <2>3. dfs' # << >>
    <3>1. \E g \in Gray : g # v
      BY <1>4, <1>13, InnerParent
    <3>. QED  BY <1>5, <3>1
  <2>4. FramesInv'
    <3>1. stack' \in Seq(Files) /\ indices' \in [Files -> Int]
      BY <1>1, <1>4, <2>1 DEF FramesInv
    <3>2. \A i, j \in 1 .. Len(stack') : i < j => indices'[stack'[i]] < indices'[stack'[j]]
      BY <1>1, <2>1 DEF FramesInv
    <3>3. Gray' \subseteq OnStack' /\ OnStack' \subseteq Found' /\ Found' \subseteq Nodes'
      BY <1>4, <1>5, <1>11, <2>2
    <3>. QED  BY <1>5, <1>10, <1>11, <3>1, <3>2, <3>3 DEF FramesInv
  <2>5. /\ p \in Gray /\ p # v /\ \A g \in Gray \ {v} : indices[g] <= indices[p]
        /\ lowlinks' = IF lowlinks[v] < lowlinks[p]
                       THEN [lowlinks EXCEPT ![p] = lowlinks[v]] ELSE lowlinks
    BY <1>8, <1>9, <2>3
  <2>6. LookedInv' /\ DepthInv(L)'
    BY <1>1, <1>3, <1>4, <1>5, <1>6, <1>13, <2>1, <2>2, <2>5, FinishInnerKeeps
  <2>. QED  BY <2>4, <2>6
<1>. QED  BY <1>12, <1>13

\* The phases before and after the search leave its state alone.
LEMMA OtherPhasesKeep ==
  ASSUME FramesInv, LookedInv, NEW L, Reaches(L), DepthInv(L),
         graph' = graph, UNCHANGED tarjan
  PROVE  FramesInv' /\ LookedInv' /\ DepthInv(L)'
<1>1. Arcs' = Arcs /\ Nodes' = Nodes
  BY ArcsStable
<1>2. /\ indices' = indices /\ lowlinks' = lowlinks /\ stack' = stack /\ dfs' = dfs
      /\ sccs' = sccs
  BY DEF tarjan
<1>3. /\ OnStack' = OnStack /\ Gray' = Gray /\ Found' = Found
      /\ IndexCounter' = IndexCounter
  BY <1>2 DEF OnStack, Gray, Found, IndexCounter
<1>4. Seen' = Seen
  BY <1>1, <1>2, <1>3 DEF Seen
<1>5. FramesInv'
  BY <1>1, <1>2, <1>3 DEF FramesInv
<1>6. LookedInv'
  BY <1>1, <1>3, <1>4 DEF LookedInv
<1>7. DepthInv(L)'
  BY <1>1, <1>2, <1>3, <1>4 DEF DepthInv, PathsInv, LowInv, ClassInv, Class
<1>. QED  BY <1>5, <1>6, <1>7

\* The fixpoint starts only when the search is over.
LEMMA OverStep ==
  ASSUME TypeOK, OverInv, [CyclesNext]_allVars
  PROVE  OverInv'
<1>1. ASSUME graph' = graph, UNCHANGED tarjan, SearchOver PROVE SearchOver'
  <2>1. Nodes' = Nodes
    BY <1>1, ArcsStable
  <2>. QED  BY <1>1, <2>1 DEF SearchOver, tarjan
<1>2. ASSUME pc' = "cycles" \/ pc' = "reach" PROVE OverInv'
  BY <1>2 DEF OverInv
<1>3. CASE \E f \in Files : StartSearch(f)
  BY <1>2, <1>3 DEF StartSearch, vars
<1>4. CASE StepSuccessor
  BY <1>2, <1>4 DEF StepSuccessor, vars
<1>5. CASE FinishFrame
  BY <1>2, <1>5 DEF FinishFrame, vars
<1>6. CASE BeginFixpoint /\ SearchOver /\ UNCHANGED tarjan
  BY <1>1, <1>6 DEF BeginFixpoint, OverInv
<1>7. CASE Populate
  BY <1>2, <1>7 DEF Populate
<1>8. CASE MarkReachable
  BY <1>8 DEF MarkReachable, OverInv
<1>9. CASE \E f \in Files : Visit(f)
  BY <1>2, <1>9 DEF Visit
<1>10. CASE (PropagateEntry \/ NextRound \/ EndFixpoint) /\ UNCHANGED tarjan
  <2>1. pc = "propagate" /\ graph' = graph
    BY <1>10 DEF PropagateEntry, NextRound, EndFixpoint
  <2>. QED  BY <1>1, <1>10, <2>1 DEF OverInv
<1>11. CASE UNCHANGED allVars
  <2>1. graph' = graph /\ pc' = pc /\ UNCHANGED tarjan
    BY <1>11 DEF allVars, vars
  <2>. QED  BY <1>1, <2>1 DEF OverInv
<1>. QED
  BY <1>3, <1>4, <1>5, <1>6, <1>7, <1>8, <1>9, <1>10, <1>11 DEF CyclesNext

\* A step of the build keeps the invariant of the search.
LEMMA TarjanStep ==
  ASSUME TypeOK, TarjanInv, [CyclesNext]_allVars
  PROVE  TarjanInv'
<1>1. graph' = graph
  BY CyclesStepBuilds, GraphFixed
<1>2. ASSUME NEW L, Reaches(L) PROVE FramesInv' /\ LookedInv' /\ DepthInv(L)'
  <2>0. FramesInv /\ LookedInv /\ DepthInv(L)
    BY <1>2 DEF TarjanInv
  <2>1. CASE \E f \in Files : StartSearch(f)
    BY <1>2, <2>0, <2>1, StartSearchKeeps
  <2>2. CASE StepSuccessor
    BY <1>2, <2>0, <2>2, StepSuccessorKeeps
  <2>3. CASE FinishFrame
    BY <1>2, <2>0, <2>3, FinishFrameKeeps
  <2>4. CASE UNCHANGED tarjan
    BY <1>1, <1>2, <2>0, <2>4, OtherPhasesKeep
  <2>. QED  BY <2>1, <2>2, <2>3, <2>4 DEF CyclesNext, allVars
<1>3. PICK K : Reaches(K)
  BY LeadsReaches
<1>4. FramesInv' /\ LookedInv'
  BY <1>2, <1>3
<1>5. OverInv'
  BY OverStep DEF TarjanInv
<1>6. ASSUME NEW L, Reaches(L)' PROVE DepthInv(L)'
  <2>1. Reaches(L)
    BY <1>1, <1>6, ArcsStable
  <2>. QED  BY <1>2, <2>1
<1>. QED  BY <1>4, <1>5, <1>6 DEF TarjanInv

\* Nothing is found at first.
LEMMA TarjanStart == CyclesInit => TarjanInv
<1>. SUFFICES ASSUME Init, TarjanInit PROVE TarjanInv
  BY DEF CyclesInit
<1>1. /\ indices = [f \in Files |-> Unset] /\ lowlinks = [f \in Files |-> 0]
      /\ stack = << >> /\ dfs = << >> /\ sccs = {}
  BY DEF TarjanInit
<1>2. Len(stack) = 0 /\ Len(dfs) = 0
  BY <1>1
<1>3. Found = {} /\ OnStack = {} /\ Gray = {}
  BY <1>1, <1>2 DEF Found, OnStack, Gray
<1>4. Seen = {}
  BY <1>3 DEF Seen
<1>5. FramesInv
  <2>1. /\ indices \in [Files -> Int] /\ lowlinks \in [Files -> Int]
        /\ stack \in Seq(Files) /\ dfs \in Seq([node : Files, next : Nat \ {0}])
    BY <1>1 DEF Unset
  <2>. QED  BY <1>2, <1>3, <2>1 DEF FramesInv
<1>6. LookedInv
  BY <1>3, <1>4 DEF LookedInv
<1>7. OverInv
  BY DEF Init, OverInv
<1>8. ASSUME NEW L PROVE DepthInv(L)
  BY <1>1, <1>3 DEF DepthInv, PathsInv, LowInv, ClassInv
<1>. QED  BY <1>5, <1>6, <1>7, <1>8 DEF TarjanInv

\* When the search is over its components are the classes.
LEMMA OverExact ==
  ASSUME TypeOK, TarjanInv
  PROVE  SccsExact
<1>. SUFFICES ASSUME SearchOver
              PROVE  sccs = {{h \in Nodes : h \in Leads(f) /\ f \in Leads(h)} : f \in Nodes}
  BY DEF TarjanInv, OverInv, SccsExact
<1>. DEFINE L == [f \in Files |-> Leads(f)]
<1>1. Reaches(L) /\ \A f \in Files : L[f] = Leads(f)
  BY LeadsReaches
<1>. HIDE DEF L
<1>2. PathsInv(L) /\ ClassInv(L) /\ FramesInv
  BY <1>1 DEF TarjanInv, DepthInv
<1>3. Gray = {}
  <2>1. Len(dfs) = 0
    BY DEF SearchOver
  <2>. QED  BY <2>1 DEF Gray
<1>4. OnStack = {}
  BY <1>2, <1>3 DEF PathsInv
<1>5. Nodes \subseteq Files
  BY TupleSetType DEF Nodes
<1>6. Found = Nodes
  BY <1>2, <1>5 DEF SearchOver, Found, FramesInv
<1>7. UNION sccs = Nodes /\ \A C \in sccs : \E f \in C : C = Class(L, f)
  BY <1>2, <1>4, <1>6 DEF ClassInv
<1>8. ASSUME NEW f \in Nodes
      PROVE  Class(L, f) = {h \in Nodes : h \in Leads(f) /\ f \in Leads(h)}
  <2>1. f \in Files /\ L[f] \subseteq Nodes
    <3>1. \A x, w \in Files : x \in Nodes /\ <<x, w>> \in Arcs => w \in Nodes
      BY DEF Arcs, Nodes, TupleSet
    <3>. QED  BY <1>1, <1>5, <3>1 DEF Reaches
  <2>. QED  BY <1>1, <1>5, <2>1 DEF Class
<1>9. ASSUME NEW f \in Nodes, NEW h \in Class(L, f) PROVE Class(L, h) = Class(L, f)
  <2>1. f \in Files /\ h \in Files /\ h \in L[f] /\ f \in L[h]
    BY <1>5 DEF Class
  <2>2. L[h] = L[f]
    <3>1. L[h] \subseteq L[f]
      BY <1>1, <2>1, ReachesFurther
    <3>2. L[f] \subseteq L[h]
      BY <1>1, <2>1, ReachesFurther
    <3>. QED  BY <3>1, <3>2
  <2>3. ASSUME NEW x \in Files PROVE h \in L[x] <=> f \in L[x]
    <3>1. h \in L[x] => f \in L[x]
      BY <1>1, <2>1, ReachesFurther
    <3>2. f \in L[x] => h \in L[x]
      BY <1>1, <2>1, ReachesFurther
    <3>. QED  BY <3>1, <3>2
  <2>. QED  BY <2>2, <2>3 DEF Class
<1>10. ASSUME NEW C \in sccs PROVE \E f \in Nodes : C = Class(L, f)
  BY <1>7
<1>11. ASSUME NEW f \in Nodes PROVE Class(L, f) \in sccs
  <2>1. PICK C \in sccs : f \in C
    BY <1>7
  <2>2. PICK h \in Nodes : C = Class(L, h)
    BY <1>10
  <2>. QED  BY <1>9, <2>1, <2>2
<1>12. sccs = {Class(L, f) : f \in Nodes}
  BY <1>10, <1>11
<1>. QED  BY <1>8, <1>12

\* The search for re-export cycles finds exactly the strongly connected
\* components of the re-export graph, for every project: no cycle is missed,
\* split, or merged with another (find_re_export_cycles).
THEOREM SccsAreExact == CyclesSpec => []SccsExact
<1>1. CyclesInit => TypeInv /\ TarjanInv
  BY InitType, TarjanStart DEF CyclesInit, TypeInv, Init
<1>2. TypeInv /\ TarjanInv /\ [CyclesNext]_allVars => (TypeInv /\ TarjanInv)'
  BY CyclesStepBuilds, TypeStep, TarjanStep DEF TypeInv
<1>3. TypeInv /\ TarjanInv => SccsExact
  BY OverExact DEF TypeInv
<1>. QED
  BY <1>1, <1>2, <1>3, PTL DEF CyclesSpec
=============================================================================
