--------------------------- MODULE ReExportCycles ---------------------------
(***************************************************************************)
(* find_re_export_cycles of crates/graph/src/graph/re_exports/mod.rs: the  *)
(* iterative Tarjan search for strongly connected components of the        *)
(* re-export graph, run between the reachability phase and the fixpoint of *)
(* ModuleGraph.  Its result is the re-export-cycle finding.                *)
(*                                                                         *)
(* A node is its FileId.  The adjacency list of a node is its tuples in    *)
(* order, self-loops left out, so a frame's next_succ is an index into the *)
(* tuples; a second edge to the same file is a second look at a visited    *)
(* node, which changes nothing (the code drops it beforehand).             *)
(***************************************************************************)
EXTENDS ModuleGraph

Unset == -1     \* u32::MAX in `indices`

VARIABLES
    indices, lowlinks,  \* per node
    stack,              \* the nodes of unfinished components
    dfs,                \* the frames of the search
    sccs                \* the components emitted

tarjan == <<indices, lowlinks, stack, dfs, sccs>>

allVars == <<vars, tarjan>>

-----------------------------------------------------------------------------
(* build_re_export_node_index: nodes in the order they are first named.    *)
FirstSeen(f) ==
    CHOOSE k \in 1 .. 2 * Len(graph.tuples) :
        /\ f = IF k % 2 = 1 THEN graph.tuples[(k + 1) \div 2].barrel
               ELSE graph.tuples[k \div 2].source
        /\ \A j \in 1 .. k - 1 :
               f # IF j % 2 = 1 THEN graph.tuples[(j + 1) \div 2].barrel
                   ELSE graph.tuples[j \div 2].source

Nodes == {t.barrel : t \in TupleSet} \cup {t.source : t \in TupleSet}

SelfLoops == {t.barrel : t \in {u \in TupleSet : u.barrel = u.source}}

OnStack == {stack[i] : i \in 1 .. Len(stack)}

Top == dfs[Len(dfs)]

IndexCounter == Cardinality({f \in Files : indices[f] # Unset})

(* The next tuple of the frame's node that leaves it, or 0.                *)
NextSucc(frame) ==
    LET later == {i \in frame.next .. Len(graph.tuples) :
                      /\ graph.tuples[i].barrel = frame.node
                      /\ graph.tuples[i].source # frame.node}
    IN  IF later = {} THEN 0 ELSE CHOOSE i \in later : \A j \in later : i <= j

Discover(f) ==
    /\ indices' = [indices EXCEPT ![f] = IndexCounter]
    /\ stack' = Append(stack, f)

-----------------------------------------------------------------------------
TarjanInit ==
    /\ indices = [f \in Files |-> Unset]
    /\ lowlinks = [f \in Files |-> 0]
    /\ stack = << >> /\ dfs = << >> /\ sccs = {}

(* The outer loop: the next node without an index starts a search.         *)
StartSearch(f) ==
    /\ pc = "cycles" /\ dfs = << >>
    /\ f \in Nodes /\ indices[f] = Unset
    /\ \A h \in Nodes : indices[h] = Unset => FirstSeen(f) <= FirstSeen(h)
    /\ Discover(f)
    /\ lowlinks' = [lowlinks EXCEPT ![f] = IndexCounter]
    /\ dfs' = <<[node |-> f, next |-> 1]>>
    /\ UNCHANGED <<vars, sccs>>

(* step_successor: descend into an undiscovered successor, or lower the    *)
(* lowlink to the index of one that is on the stack.                       *)
StepSuccessor ==
    /\ pc = "cycles" /\ dfs # << >> /\ NextSucc(Top) # 0
    /\ LET v == Top.node
           w == graph.tuples[NextSucc(Top)].source
           advanced == [dfs EXCEPT ![Len(dfs)].next = NextSucc(Top) + 1]
       IN  \/ /\ indices[w] = Unset
              /\ Discover(w)
              /\ lowlinks' = [lowlinks EXCEPT ![w] = IndexCounter]
              /\ dfs' = Append(advanced, [node |-> w, next |-> 1])
           \/ /\ indices[w] # Unset
              /\ lowlinks' = IF w \in OnStack /\ indices[w] < lowlinks[v]
                             THEN [lowlinks EXCEPT ![v] = indices[w]] ELSE lowlinks
              /\ dfs' = advanced
              /\ UNCHANGED <<indices, stack>>
    /\ UNCHANGED <<vars, sccs>>

\* Mutant of HandLowlink: the parent does not hear of it.
HandNothing(v, rest) == lowlinks' = lowlinks

(* A finished frame hands its lowlink to the parent frame.                 *)
HandLowlink(v, rest) ==
    lowlinks' = IF rest # << >> /\ lowlinks[v] < lowlinks[rest[Len(rest)].node]
                THEN [lowlinks EXCEPT ![rest[Len(rest)].node] = lowlinks[v]]
                ELSE lowlinks

(* finish_frame: a root pops its component off the stack.                  *)
FinishFrame ==
    /\ pc = "cycles" /\ dfs # << >> /\ NextSucc(Top) = 0
    /\ LET v == Top.node
           rest == SubSeq(dfs, 1, Len(dfs) - 1)
           at == CHOOSE i \in 1 .. Len(stack) : stack[i] = v
       IN  /\ dfs' = rest
           /\ IF lowlinks[v] = indices[v]
              THEN /\ sccs' = sccs \cup {{stack[i] : i \in at .. Len(stack)}}
                   /\ stack' = SubSeq(stack, 1, at - 1)
              ELSE UNCHANGED <<sccs, stack>>
           /\ HandLowlink(v, rest)
    /\ UNCHANGED <<vars, indices>>

SearchOver == dfs = << >> /\ \A f \in Nodes : indices[f] # Unset

CyclesInit == Init /\ TarjanInit

CyclesNext ==
    \/ \E f \in Files : StartSearch(f)
    \/ StepSuccessor
    \/ FinishFrame
    \/ BeginFixpoint /\ SearchOver /\ UNCHANGED tarjan
    \/ (Populate \/ MarkReachable \/ \E f \in Files : Visit(f)) /\ UNCHANGED tarjan
    \/ (PropagateEntry \/ NextRound \/ EndFixpoint) /\ UNCHANGED tarjan

CyclesSpec == CyclesInit /\ [][CyclesNext]_allVars

-----------------------------------------------------------------------------
(* The search emits exactly the classes of files that re-export each       *)
(* other, directly or through others: no cycle is missed, split or merged  *)
(* with another.                                                           *)
SccsExact ==
    pc \in {"propagate", "done"} /\ graph.tuples # << >> =>
        sccs = {{h \in Nodes : h \in Leads(f) /\ f \in Leads(h)} : f \in Nodes}
=============================================================================
