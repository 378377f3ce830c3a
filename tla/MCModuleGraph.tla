--------------------------- MODULE MCModuleGraph ---------------------------
(* Small projects for ReExportCycles: files 0, 1 and 2 re-export from each *)
(* other (and themselves), file 3 imports.                                 *)
EXTENDS ReExportCycles

CONSTANT MaxTuples  \* re-exports of a project in the wide family

MCNames == {"a", "b", "default"}

Barrels == 0 .. 2

StarKinds == {<<"*", "*", FALSE>>, <<"*", "*", TRUE>>}

NamedKinds == {<<"a", "a", FALSE>>, <<"a", "b", FALSE>>, <<"default", "a", FALSE>>}

TuplesOf(kinds) ==
    {[barrel |-> b, source |-> s, imported |-> k[1], exported |-> k[2], typeOnly |-> k[3]] :
        b \in Barrels, s \in Barrels, k \in kinds}

Sorted(seqs) == {q \in seqs : \A i \in 1 .. Len(q) - 1 : q[i].barrel <= q[i + 1].barrel}

(* File 2 has exports of its own; in one variant file 1 shadows one.       *)
Owns == {{2} \X MCNames, {<<1, "a">>, <<2, "a">>, <<2, "b">>}}

Uses == {[from |-> 3, target |-> f, name |-> n, kind |-> k] :
            f \in {0, 1}, n \in {"a", "b"}, k \in {"named", "member"}}

Family(tuples, own, uses, entries) ==
    [tuples |-> tuples, own |-> own, ownTypes |-> {{<<2, "b">>}},
     imports |-> {{u} : u \in uses}, entries |-> entries]

(* Every pair of re-exports of every kind, one import, and an importer or  *)
(* a barrel, or both, as entry points.                                     *)
WideFamily ==
    Family(Sorted([1 .. 2 -> TuplesOf(StarKinds \cup NamedKinds)]),
           Owns, Uses, {{0}, {3}, {0, 3}})

(* Longer chains and cycles of value re-exports behind one import.         *)
DeepFamily ==
    Family(Sorted([1 .. MaxTuples -> TuplesOf({<<"*", "*", FALSE>>, <<"a", "a", FALSE>>,
                                               <<"b", "a", FALSE>>})]),
           {{2} \X MCNames},
           {[from |-> 3, target |-> f, name |-> "a", kind |-> "named"] : f \in Barrels},
           {{3}})

(* No re-export at all.                                                    *)
PlainFamily == Family({<< >>}, Owns, Uses, {{3}})

(* Forward chains of two re-exports.                                       *)
ForwardFamily ==
    Family({q \in Sorted([1 .. 2 -> TuplesOf({<<"*", "*", FALSE>>, <<"a", "a", FALSE>>})]) :
                \A i \in 1 .. 2 : q[i].barrel < q[i].source},
           {{2} \X MCNames}, Uses, {{3}})

MCForward == {ForwardFamily}

MCFamilies == {WideFamily, DeepFamily, PlainFamily}
=============================================================================
