--------------------------- MODULE MCImpactStore ---------------------------
(***************************************************************************)
(* Two worktrees share the store.  Symbol s lives in file f or g, or       *)
(* nowhere; the stores the model begins with are what a few runs leave.    *)
(***************************************************************************)
EXTENDS ImpactStore, TLC

CONSTANTS p1, p2, p3, w1, w2, f, g, s, old1, old2

ThreeProcs == {p1, p2, p3}
TwoTrees == {w1, w2}
TwoPaths == {f, g}
OneSymbol == {s}
TwoPast == {old1, old2}

At(F) == [x \in TwoPaths |-> IF x \in F THEN {s} ELSE {}]
Quiet(F) == [x \in TwoPaths |-> x \in F]

Audit(w, gate, fail, F, supp) ==
    [kind |-> "audit", tree |-> w, gate |-> gate, fail |-> fail, changed |-> TwoPaths,
     found |-> At(F), supp |-> Quiet(supp), exists |-> TwoPaths]

Whole(w, F, exists) ==
    [kind |-> "combined", tree |-> w, found |-> At(F), supp |-> Quiet({}), exists |-> exists]

Command(kind) == [kind |-> kind, tree |-> w1]

MCOpsOf ==
    (p1 :> {Audit(w1, TRUE, TRUE, {g}, {}), Whole(w1, {}, {f, g})})
    @@ (p2 :> {Audit(w1, TRUE, FALSE, {}, {g}), Whole(w2, {f}, {f}), Command("digest")})
    @@ (p3 :> {Command(k) : k \in {"enable", "disable", "decline", "digest"}})

OneOther == {p3}

MCOps == UNION {MCOpsOf[p] : p \in ThreeProcs}

(* f had a finding, and the gate failed on it.                             *)
Failed == Mutate(Audit(w1, TRUE, TRUE, {f}, {}), old1,
                 [DefaultStore EXCEPT !.enabled = TRUE, !.decided = TRUE])

(* Nobody asked about tracking: the user default decides.                  *)
NeverAsked == [DefaultStore EXCEPT !.declined = TRUE]

MCStores == {NoStore, Failed, NeverAsked}

(* The old version had one baseline: f still has its finding.              *)
MCLegacy ==
    [enabled |-> TRUE, decided |-> TRUE, declined |-> FALSE, digested |-> FALSE,
     records |-> <<old1, old2>>, project |-> << >>, pending |-> NoRun, contained |-> <<old1>>,
     frontier |-> [x \in TwoPaths |-> IF x = f THEN [found |-> {s}, supp |-> FALSE] ELSE EmptyFile],
     resolved |-> 1, recent |-> <<<<g, s>>>>]
=============================================================================
