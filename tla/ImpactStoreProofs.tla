------------------------- MODULE ImpactStoreProofs -------------------------
(***************************************************************************)
(* Proofs about ImpactStore, for any number of processes, worktrees, files *)
(* and symbols: the lock makes the store an atomic log until an unlocked   *)
(* writer overlaps another; the lists of the store stay within their caps, *)
(* its counters cover its lists, and a failed gate is contained once.      *)
(***************************************************************************)
EXTENDS ImpactStore, FiniteSetTheorems, TLAPS

-----------------------------------------------------------------------------
(* Lists of the store.                                                     *)

(* Every nonempty set of positions has a first one.                        *)
LEMMA LeastPosition ==
    ASSUME NEW T \in SUBSET Nat, T # {}
    PROVE  \E x \in T : \A y \in T : x <= y
<1>1. \E x \in T : \A y \in T : ~ (<<y, x>> \in OpToRel(<, Nat))
  BY NatLessThanWellFounded, WFMin
<1>2. OpToRel(<, Nat) = {ss \in Nat \X Nat : ss[1] < ss[2]}
  BY DEF OpToRel
<1>3. PICK x \in T : \A y \in T : ~ (<<y, x>> \in {ss \in Nat \X Nat : ss[1] < ss[2]})
  BY <1>1, <1>2, Zenon
<1>4. ASSUME NEW y \in T PROVE x <= y
  <2>1. <<y, x>> \notin {ss \in Nat \X Nat : ss[1] < ss[2]}
    BY <1>3
  <2>2. <<y, x>> \in Nat \X Nat /\ <<y, x>>[1] = y /\ <<y, x>>[2] = x
    OBVIOUS
  <2>3. ~(y < x)
    BY <2>1, <2>2
  <2> QED BY <2>3
<1> QED BY <1>4

(* A finite set of positions has one of every rank.                        *)
LEMMA Ranks ==
    ASSUME NEW I \in SUBSET Nat, IsFiniteSet(I), NEW n \in Nat, n < Cardinality(I)
    PROVE  \E i \in I : Cardinality({j \in I : j < i}) = n
<1> DEFINE Below(i) == {j \in I : j < i}
           Bad == {m \in Nat : m < Cardinality(I) /\ ~ \E i \in I : Cardinality(Below(i)) = m}
<1>0. Cardinality(I) \in Nat /\ \A j \in I : j \in Nat
  BY FS_CardinalityType
<1>1. SUFFICES ASSUME Bad # {} PROVE FALSE
  BY <1>1
<1>2. PICK m \in Bad : \A k \in Bad : m <= k
  BY <1>1, LeastPosition
<1>3. m \in Nat /\ m < Cardinality(I) /\ ~ \E i \in I : Cardinality(Below(i)) = m
  BY <1>2
<1>4. CASE m = 0
  <2>1. I # {}
    BY <1>3, <1>4, FS_EmptySet
  <2>2. PICK i \in I : \A j \in I : i <= j
    BY <2>1, LeastPosition
  <2>3. \A j \in I : ~(j < i)
    BY <1>0, <2>2
  <2>4. Below(i) = {}
    BY <2>3
  <2> QED BY <2>4, <1>3, <1>4, FS_EmptySet
<1>5. CASE m # 0
  <2>0. m - 1 \in Nat /\ m - 1 < Cardinality(I) /\ ~(m <= m - 1)
    BY <1>0, <1>3, <1>5
  <2>1. m - 1 \in Nat /\ m - 1 < Cardinality(I) /\ m - 1 \notin Bad
    BY <1>2, <2>0
  <2>2. PICK i \in I : Cardinality(Below(i)) = m - 1
    BY <2>1
  <2> DEFINE Upto == Below(i) \cup {i}
             Rest == I \ Upto
  <2>3. IsFiniteSet(Below(i)) /\ i \notin Below(i)
    BY FS_Subset
  <2>4. Cardinality(Upto) = m
    <3>1. Cardinality(Upto) = Cardinality(Below(i)) + 1
      BY <2>3, FS_AddElement
    <3> QED BY <3>1, <2>2, <1>3
  <2>5. Rest # {}
    <3>1. SUFFICES ASSUME Rest = {} PROVE FALSE
      BY <3>1
    <3>2. Upto = I
      BY <3>1
    <3>3. Cardinality(I) = m
      BY <3>2, <2>4
    <3> QED BY <3>3, <1>3, <1>0
  <2>6. PICK k \in Rest : \A j \in Rest : k <= j
    BY <2>5, LeastPosition
  <2>7. Below(k) = Upto
    <3>1. ASSUME NEW j \in I PROVE j < k <=> j \in Upto
      <4>1. i \in Nat /\ j \in Nat /\ k \in Nat
        BY <1>0, <2>6
      <4>2. CASE j \in Upto
        <5>1. ~(k < i) /\ k # i
          BY <2>6
        <5>2. j < i \/ j = i
          BY <4>2
        <5> QED BY <4>1, <4>2, <5>1, <5>2
      <4>3. CASE j \notin Upto
        <5>1. k <= j
          BY <2>6, <4>3
        <5> QED BY <4>1, <4>3, <5>1
      <4> QED BY <4>2, <4>3
    <3> QED BY <3>1
  <2> QED BY <2>7, <2>4, <1>3
<1> QED BY <1>4, <1>5

(* The retained part of a list has entries of the list, one per position.  *)
LEMMA SublistType ==
    ASSUME NEW S, NEW s \in Seq(S), NEW I \in SUBSET DOMAIN s
    PROVE  /\ Sublist(s, I) \in Seq(S)
           /\ Len(Sublist(s, I)) = Cardinality(I)
           /\ Cardinality(I) \in Nat
           /\ Cardinality(I) <= Len(s)
<1>1. IsFiniteSet(1 .. Len(s)) /\ Cardinality(1 .. Len(s)) = Len(s)
  <2>1. Len(s) \in Nat
    OBVIOUS
  <2>2. 1 \in Int /\ Len(s) \in Int /\ (IF 1 > Len(s) THEN 0 ELSE Len(s) - 1 + 1) = Len(s)
    BY <2>1
  <2>3. IsFiniteSet(1 .. Len(s)) /\ Cardinality(1 .. Len(s)) = IF 1 > Len(s) THEN 0 ELSE Len(s) - 1 + 1
    BY <2>2, FS_Interval, Zenon
  <2> QED BY <2>2, <2>3
<1>2. IsFiniteSet(I) /\ Cardinality(I) <= Len(s)
  BY <1>1, FS_Subset
<1>3. Cardinality(I) \in Nat
  BY <1>2, FS_CardinalityType
<1>4. ASSUME NEW k \in 1 .. Cardinality(I)
      PROVE  s[CHOOSE i \in I : Cardinality({j \in I : j < i}) = k - 1] \in S
  <2>1. k - 1 \in Nat /\ k - 1 < Cardinality(I)
    BY <1>3
  <2>2. \E i \in I : Cardinality({j \in I : j < i}) = k - 1
    <3>1. I \in SUBSET Nat
      OBVIOUS
    <3> QED BY <3>1, <2>1, <1>2, Ranks, Zenon
  <2>3. (CHOOSE i \in I : Cardinality({j \in I : j < i}) = k - 1) \in I
    BY <2>2, Zenon
  <2> QED BY <2>3
<1>5. Sublist(s, I) \in [1 .. Cardinality(I) -> S]
  BY <1>4 DEF Sublist
<1> QED BY <1>2, <1>3, <1>5

(* A finite set is listed with as many entries as it has elements.         *)
LEMMA ListedType ==
    ASSUME NEW S, IsFiniteSet(S)
    PROVE  Listed(S) \in Seq(S) /\ Len(Listed(S)) = Cardinality(S) /\ Cardinality(S) \in Nat
<1>1. Cardinality(S) \in Nat /\ ExistsBijection(1 .. Cardinality(S), S)
  BY FS_CardinalityType
<1>2. \E q \in [1 .. Cardinality(S) -> S] : \A x \in S : \E i \in DOMAIN q : q[i] = x
  BY <1>1 DEF ExistsBijection, Bijection, Surjection
<1>3. Listed(S) \in [1 .. Cardinality(S) -> S]
  BY <1>2, Zenon DEF Listed
<1> QED BY <1>1, <1>3

(* A list at its cap is the end of the list.                               *)
LEMMA BoundedType ==
    ASSUME NEW S, NEW s \in Seq(S), NEW cap \in Nat \ {0}
    PROVE  /\ Bounded(s, cap) \in UpTo(S, cap)
           /\ Len(Bounded(s, cap)) <= Len(s)
           /\ \E d \in Nat : \A i \in DOMAIN Bounded(s, cap) :
                 i + d \in DOMAIN s /\ Bounded(s, cap)[i] = s[i + d]
<1>1. CASE Len(s) > cap
  <2> DEFINE d == Len(s) - cap
  <2>1. d \in Nat /\ d + 1 \in 1 .. Len(s) /\ Bounded(s, cap) = SubSeq(s, d + 1, Len(s))
    BY <1>1 DEF Bounded
  <2>2. /\ SubSeq(s, d + 1, Len(s)) \in Seq(S)
        /\ Len(SubSeq(s, d + 1, Len(s))) = cap
        /\ \A i \in 1 .. cap : SubSeq(s, d + 1, Len(s))[i] = s[i + d]
    BY <2>1
  <2>3. cap <= Len(s) /\ DOMAIN SubSeq(s, d + 1, Len(s)) = 1 .. cap
    BY <1>1, <2>2
  <2>4. \A i \in 1 .. cap : i + d \in DOMAIN s
    BY <2>1
  <2>5. \A i \in DOMAIN Bounded(s, cap) : i + d \in DOMAIN s /\ Bounded(s, cap)[i] = s[i + d]
    BY <2>1, <2>2, <2>3, <2>4
  <2>6. Bounded(s, cap) \in UpTo(S, cap) /\ Len(Bounded(s, cap)) <= Len(s)
    BY <2>1, <2>2, <2>3 DEF UpTo
  <2> QED BY <2>1, <2>5, <2>6
<1>2. CASE ~(Len(s) > cap)
  <2>1. Bounded(s, cap) = s /\ Len(s) \in Nat
    BY <1>2 DEF Bounded
  <2>2. \A i \in DOMAIN s : i + 0 \in DOMAIN s /\ s[i] = s[i + 0]
    OBVIOUS
  <2> QED BY <1>2, <2>1, <2>2 DEF UpTo
<1> QED BY <1>1, <1>2

-----------------------------------------------------------------------------
(* What the operations do to a store.                                      *)

(* What a record speaks of.                                                *)
LEMMA RecordFields ==
    ASSUME NEW o \in Audits \cup Combined, NEW front
    PROVE  /\ o.kind \in {"audit", "combined"}
           /\ o.tree \in Worktrees
           /\ o.found \in [Paths -> SUBSET Symbols]
           /\ o.supp \in [Paths -> BOOLEAN]
           /\ Scope(o, front) \subseteq Paths
<1>1. CASE o \in Audits
  BY <1>1 DEF Audits, Scope
<1>2. CASE o \in Combined
  BY <1>2 DEF Combined, Scope
<1> QED BY <1>1, <1>2

(* Only finitely many findings are resolved, each one a file and a symbol. *)
LEMMA ResolvedFinite ==
    ASSUME NEW o \in Audits \cup Combined, NEW front
    PROVE  Resolved(o, front) \subseteq Paths \X Symbols /\ IsFiniteSet(Resolved(o, front))
<1>1. Resolved(o, front) \subseteq Scope(o, front) \X Symbols
  BY Zenon DEF Resolved
<1>2. Resolved(o, front) \subseteq Paths \X Symbols
  BY <1>1, RecordFields
<1>3. IsFiniteSet(Paths \X Symbols)
  BY FiniteAssumption, FS_Product
<1> QED BY <1>2, <1>3, FS_Subset

(* Taking credit back keeps the total above the list (uncredit_cross_run_  *)
(* moves), and touches nothing else.                                       *)
LEMMA UncreditStore ==
    ASSUME NEW st \in Stores, CoversRecent(st), NEW a
    PROVE  /\ Uncredit(st, a) \in Stores
           /\ CoversRecent(Uncredit(st, a))
           /\ Uncredit(st, a).pending = st.pending
           /\ Uncredit(st, a).contained = st.contained
           /\ Uncredit(st, a).frontier = st.frontier
<1> DEFINE stays == {i \in DOMAIN st.recent : st.recent[i][2] \notin a}
           back == Len(st.recent) - Cardinality(stays)
           left == IF back > st.resolved THEN 0 ELSE st.resolved - back
<1>1. st.recent \in Seq(Paths \X Symbols) /\ Len(st.recent) <= MaxRecent /\ st.resolved \in Nat
  BY DEF Stores, UpTo
<1>2. stays \in SUBSET DOMAIN st.recent
  OBVIOUS
<1>3. /\ Sublist(st.recent, stays) \in Seq(Paths \X Symbols)
      /\ Len(Sublist(st.recent, stays)) = Cardinality(stays)
      /\ Cardinality(stays) \in Nat /\ Cardinality(stays) <= Len(st.recent)
  BY <1>1, <1>2, SublistType
<1> HIDE DEF stays
<1>4. st.resolved >= Len(st.recent) /\ Len(st.recent) \in Nat /\ MaxRecent \in Nat
  BY <1>1, CapsAssumption DEF CoversRecent
<1>5. left \in Nat /\ left >= Cardinality(stays) /\ Cardinality(stays) <= MaxRecent
  BY <1>1, <1>3, <1>4
<1> HIDE DEF left, back
<1>6. Uncredit(st, a) = [st EXCEPT !.recent = Sublist(st.recent, stays), !.resolved = left]
  BY Zenon DEF Uncredit, stays, back, left
<1>7. Sublist(st.recent, stays) \in UpTo(Paths \X Symbols, MaxRecent)
  BY <1>3, <1>5 DEF UpTo
<1> DEFINE sub == Sublist(st.recent, stays)
<1> HIDE DEF sub
<1>8. /\ Uncredit(st, a).recent = sub /\ Uncredit(st, a).resolved = left
      /\ Uncredit(st, a).pending = st.pending
      /\ Uncredit(st, a).contained = st.contained
      /\ Uncredit(st, a).frontier = st.frontier
  BY <1>6 DEF Stores, sub
<1>9. Uncredit(st, a) \in Stores
  BY <1>5, <1>6, <1>7 DEF Stores, sub
<1> QED BY <1>3, <1>5, <1>8, <1>9 DEF CoversRecent, sub

(* So does crediting what is gone (apply_attribution).                     *)
LEMMA AttributionStore ==
    ASSUME NEW st \in Stores, CoversRecent(st), NEW o \in Audits \cup Combined
    PROVE  /\ ApplyAttribution(st, o) \in Stores
           /\ CoversRecent(ApplyAttribution(st, o))
           /\ ApplyAttribution(st, o).pending = st.pending
           /\ ApplyAttribution(st, o).contained = st.contained
<1> DEFINE front == st.frontier[o.tree]
           gone == Resolved(o, front)
           scanned == [f \in Paths |->
                          IF f \in Scope(o, front)
                          THEN [found |-> o.found[f], supp |-> o.supp[f]] ELSE front[f]]
           base == [f \in Paths |-> IF f \in o.exists THEN scanned[f] ELSE EmptyFile]
           after == Uncredit(st, Appeared(o, front))
           list == Bounded(after.recent \o Listed(gone), MaxRecent)
           Files == [found : SUBSET Symbols, supp : BOOLEAN]
<1>1. /\ after \in Stores /\ CoversRecent(after) /\ after.pending = st.pending
      /\ after.contained = st.contained /\ after.frontier = st.frontier
  BY UncreditStore
<1>2. st.frontier \in [Worktrees -> [Paths -> Files]] /\ o.tree \in Worktrees
  BY RecordFields DEF Stores
<1>3. front \in [Paths -> Files]
  BY <1>2
<1>4. base \in [Paths -> Files]
  <2>1. o.found \in [Paths -> SUBSET Symbols] /\ o.supp \in [Paths -> BOOLEAN]
    BY RecordFields
  <2>2. ASSUME NEW f \in Paths PROVE scanned[f] \in Files
    <3>1. [found |-> o.found[f], supp |-> o.supp[f]] \in Files /\ front[f] \in Files
      BY <2>1, <1>3
    <3> QED BY <3>1
  <2>3. EmptyFile \in Files
    BY DEF EmptyFile
  <2> QED BY <2>2, <2>3
<1>5. /\ Listed(gone) \in Seq(Paths \X Symbols) /\ Len(Listed(gone)) = Cardinality(gone)
      /\ Cardinality(gone) \in Nat
  <2>1. gone \subseteq Paths \X Symbols /\ IsFiniteSet(gone)
    BY ResolvedFinite
  <2>2. Listed(gone) \in Seq(gone) /\ Len(Listed(gone)) = Cardinality(gone) /\ Cardinality(gone) \in Nat
    BY <2>1, ListedType
  <2> QED BY <2>1, <2>2
<1> HIDE DEF front, gone, scanned, base, after
<1>6. after.recent \in Seq(Paths \X Symbols) /\ after.resolved \in Nat
  BY <1>1 DEF Stores, UpTo
<1>7. after.resolved >= Len(after.recent) /\ Len(after.recent) \in Nat
  BY <1>1, <1>6 DEF CoversRecent
<1>8. after.recent \o Listed(gone) \in Seq(Paths \X Symbols)
      /\ Len(after.recent \o Listed(gone)) = Len(after.recent) + Cardinality(gone)
  <2>1. \A s, t \in Seq(Paths \X Symbols) :
           s \o t \in Seq(Paths \X Symbols) /\ Len(s \o t) = Len(s) + Len(t)
    OBVIOUS
  <2>2. after.recent \o Listed(gone) \in Seq(Paths \X Symbols)
        /\ Len(after.recent \o Listed(gone)) = Len(after.recent) + Len(Listed(gone))
    BY <2>1, <1>5, <1>6, Zenon
  <2> QED BY <2>2, <1>5
<1>9. list \in UpTo(Paths \X Symbols, MaxRecent) /\ Len(list) <= Len(after.recent \o Listed(gone))
  BY <1>8, BoundedType, CapsAssumption
<1> HIDE DEF list
<1>10. after.resolved + Cardinality(gone) \in Nat /\ after.resolved + Cardinality(gone) >= Len(list)
  <2>1. Len(list) \in Nat
    BY <1>9 DEF UpTo
  <2> QED BY <2>1, <1>5, <1>6, <1>7, <1>8, <1>9
<1>11. ApplyAttribution(st, o) =
          [after EXCEPT !.resolved = after.resolved + Cardinality(gone), !.recent = list,
                        !.frontier = [after.frontier EXCEPT ![o.tree] = base]]
  BY DEF ApplyAttribution, front, gone, scanned, base, after, list
<1>12. [after.frontier EXCEPT ![o.tree] = base] \in [Worktrees -> [Paths -> Files]]
  BY <1>1, <1>2, <1>4
<1> DEFINE total == after.resolved + Cardinality(gone)
           fronts == [after.frontier EXCEPT ![o.tree] = base]
<1>13. ApplyAttribution(st, o) = [after EXCEPT !.resolved = total, !.recent = list, !.frontier = fronts]
  BY <1>11
<1>14. total \in Nat /\ total >= Len(list) /\ fronts \in [Worktrees -> [Paths -> Files]]
  BY <1>10, <1>12
<1> HIDE DEF total, fronts
<1>15. /\ ApplyAttribution(st, o).recent = list /\ ApplyAttribution(st, o).resolved = total
       /\ ApplyAttribution(st, o).pending = after.pending
       /\ ApplyAttribution(st, o).contained = after.contained
  BY <1>1, <1>13 DEF Stores
<1>16. ApplyAttribution(st, o) \in Stores
  BY <1>1, <1>9, <1>13, <1>14 DEF Stores
<1> QED BY <1>1, <1>14, <1>15, <1>16 DEF CoversRecent

(* A run that is added to a list of runs leaves it within its cap.         *)
LEMMA AddRun ==
    ASSUME NEW s \in Seq(Runs), NEW run \in Runs
    PROVE  /\ Bounded(Append(s, run), MaxRecords) \in UpTo(Runs, MaxRecords)
           /\ \E d \in Nat : \A i \in DOMAIN Bounded(Append(s, run), MaxRecords) :
                 /\ i + d \in 1 .. Len(s) + 1
                 /\ Bounded(Append(s, run), MaxRecords)[i] = Append(s, run)[i + d]
<1>1. Append(s, run) \in Seq(Runs) /\ DOMAIN Append(s, run) = 1 .. Len(s) + 1
  OBVIOUS
<1> QED BY <1>1, BoundedType, CapsAssumption

(* apply_containment: a failed gate that passes is contained, and is no    *)
(* longer pending; a run that was not known before becomes pending.        *)
LEMMA ContainmentStore ==
    ASSUME NEW st \in Stores, ContainedOnce(st), NEW run \in Procs, NEW fail,
           NEW R \in SUBSET Runs, run \notin R, Mentions(st, R)
    PROVE  /\ ApplyContainment(st, run, fail) \in Stores
           /\ ContainedOnce(ApplyContainment(st, run, fail))
           /\ Mentions(ApplyContainment(st, run, fail), R \cup {run})
           /\ ApplyContainment(st, run, fail).resolved = st.resolved
           /\ ApplyContainment(st, run, fail).recent = st.recent
<1>1. run \in Runs /\ NoRun \notin Runs /\ st.pending \in Runs \cup {NoRun}
      /\ st.contained \in Seq(Runs)
  BY RunsAssumption DEF Runs, Stores, UpTo
<1>2. CASE fail /\ st.pending = NoRun
  <2>1. ApplyContainment(st, run, fail) = [st EXCEPT !.pending = run]
    BY <1>2 DEF ApplyContainment
  <2>2. /\ [st EXCEPT !.pending = run] \in Stores
        /\ [st EXCEPT !.pending = run].pending = run
        /\ [st EXCEPT !.pending = run].contained = st.contained
        /\ [st EXCEPT !.pending = run].resolved = st.resolved
        /\ [st EXCEPT !.pending = run].recent = st.recent
    BY <1>1 DEF Stores
  <2>3. \A i \in DOMAIN st.contained : st.contained[i] \in R /\ st.contained[i] # run
    BY DEF Mentions
  <2> QED BY <2>1, <2>2, <2>3 DEF ContainedOnce, Mentions
<1>3. CASE ~(fail /\ st.pending = NoRun) /\ ~(~fail /\ st.pending # NoRun)
  <2>1. ApplyContainment(st, run, fail) = st
    BY <1>3 DEF ApplyContainment
  <2> QED BY <2>1 DEF Mentions
<1>4. CASE ~fail /\ st.pending # NoRun
  <2> DEFINE longer == Append(st.contained, st.pending)
             list == Bounded(longer, MaxRecords)
  <2>1. ApplyContainment(st, run, fail) = [st EXCEPT !.pending = NoRun, !.contained = list]
    BY <1>4, Zenon DEF ApplyContainment
  <2>2. st.pending \in Runs /\ st.pending \in R
    BY <1>1, <1>4 DEF Mentions
  <2>3. list \in UpTo(Runs, MaxRecords)
    BY <2>2, <1>1, AddRun
  <2>4. PICK d \in Nat : \A i \in DOMAIN list :
           i + d \in 1 .. Len(st.contained) + 1 /\ list[i] = longer[i + d]
    BY <2>2, <1>1, AddRun
  <2>5. \A k \in 1 .. Len(st.contained) + 1 :
           longer[k] = IF k = Len(st.contained) + 1 THEN st.pending ELSE st.contained[k]
    BY <1>1
  <2>6. \A i, j \in 1 .. Len(st.contained) + 1 : longer[i] = longer[j] => i = j
    <3>1. \A i, j \in 1 .. Len(st.contained) : st.contained[i] = st.contained[j] => i = j
      BY <1>1 DEF ContainedOnce
    <3>2. \A i \in 1 .. Len(st.contained) : st.contained[i] # st.pending
      BY <1>1 DEF ContainedOnce
    <3>3. \A i \in 1 .. Len(st.contained) + 1 :
             i # Len(st.contained) + 1 => i \in 1 .. Len(st.contained)
      BY <1>1
    <3> HIDE DEF longer
    <3> QED BY <2>5, <3>1, <3>2, <3>3, Zenon
  <2>7. \A k \in 1 .. Len(st.contained) + 1 : longer[k] \in R
    <3>1. \A i \in 1 .. Len(st.contained) : st.contained[i] \in R
      BY <1>1 DEF Mentions
    <3>2. \A i \in 1 .. Len(st.contained) + 1 :
             i # Len(st.contained) + 1 => i \in 1 .. Len(st.contained)
      BY <1>1
    <3> HIDE DEF longer
    <3> QED BY <2>2, <2>5, <3>1, <3>2, Zenon
  <2> HIDE DEF longer, list
  <2>8. \A i, j \in DOMAIN list : list[i] = list[j] => i = j
    <3> SUFFICES ASSUME NEW i \in DOMAIN list, NEW j \in DOMAIN list, list[i] = list[j]
                 PROVE  i = j
      OBVIOUS
    <3>1. i + d = j + d
      BY <2>4, <2>6
    <3>2. i \in Int /\ j \in Int
      BY <2>3 DEF UpTo
    <3>3. \A x, y \in Int, z \in Nat : x + z = y + z => x = y
      OBVIOUS
    <3> QED BY <3>1, <3>2, <3>3, Zenon
  <2>9. \A i \in DOMAIN list : list[i] \in R /\ list[i] # NoRun
    BY <2>4, <2>7, <1>1
  <2>10. /\ [st EXCEPT !.pending = NoRun, !.contained = list] \in Stores
         /\ [st EXCEPT !.pending = NoRun, !.contained = list].pending = NoRun
         /\ [st EXCEPT !.pending = NoRun, !.contained = list].contained = list
         /\ [st EXCEPT !.pending = NoRun, !.contained = list].resolved = st.resolved
         /\ [st EXCEPT !.pending = NoRun, !.contained = list].recent = st.recent
    BY <2>3 DEF Stores
  <2> QED BY <2>1, <2>8, <2>9, <2>10 DEF ContainedOnce, Mentions
<1> QED BY <1>2, <1>3, <1>4

(* Whatever an invocation does to a store that earlier runs left, is what  *)
(* those runs and its own may leave.                                       *)
LEMMA MutateLeft ==
    ASSUME NEW o \in Ops, NEW run \in Procs, NEW R \in SUBSET Runs, run \notin R,
           NEW st, LeftBy(st, R)
    PROVE  LeftBy(Mutate(o, run, st), R \cup {run})
<1>1. st \in Stores /\ CoversRecent(st) /\ ContainedOnce(st) /\ Mentions(st, R)
  BY DEF LeftBy
<1>2. run \in Runs
  BY DEF Runs
<1>3. ASSUME NEW u \in Stores, NEW v \in Stores, LeftBy(u, R \cup {run}),
             v.resolved = u.resolved, v.recent = u.recent, v.pending = u.pending,
             v.contained = u.contained
      PROVE  LeftBy(v, R \cup {run})
  BY <1>3 DEF LeftBy, CoversRecent, ContainedOnce, Mentions
<1>4. LeftBy(st, R \cup {run})
  BY <1>1 DEF LeftBy, Mentions
<1>5. CASE o \in Audits
  <2> DEFINE credited == ApplyAttribution(st, o)
             gated == IF o.gate THEN ApplyContainment(credited, run, o.fail) ELSE credited
             list == Bounded(Append(gated.records, run), MaxRecords)
  <2>1. o.kind = "audit"
    BY <1>5 DEF Audits
  <2>2. Mutate(o, run, st) = [gated EXCEPT !.records = list]
    BY <2>1 DEF Mutate
  <2>3. /\ credited \in Stores /\ CoversRecent(credited)
        /\ credited.pending = st.pending /\ credited.contained = st.contained
    BY <1>1, <1>5, AttributionStore
  <2> HIDE DEF credited
  <2>4. ContainedOnce(credited) /\ Mentions(credited, R) /\ Mentions(credited, R \cup {run})
    BY <1>1, <2>3 DEF ContainedOnce, Mentions
  <2>5. LeftBy(gated, R \cup {run}) /\ gated \in Stores
    <3>1. CASE o.gate
      <4> DEFINE after == ApplyContainment(credited, run, o.fail)
      <4>1. /\ after \in Stores /\ ContainedOnce(after) /\ Mentions(after, R \cup {run})
            /\ after.resolved = credited.resolved /\ after.recent = credited.recent
        BY <2>3, <2>4, ContainmentStore
      <4>2. gated = after
        BY <3>1
      <4> HIDE DEF after
      <4> QED BY <2>3, <4>1, <4>2 DEF LeftBy, CoversRecent
    <3>2. CASE ~o.gate
      BY <2>3, <2>4, <3>2 DEF LeftBy
    <3> QED BY <3>1, <3>2
  <2> HIDE DEF gated
  <2>6. list \in UpTo(Runs, MaxRecords)
    <3>1. gated.records \in Seq(Runs)
      BY <2>5 DEF Stores, UpTo
    <3> QED BY <1>2, <3>1, AddRun
  <2> HIDE DEF list
  <2>7. /\ [gated EXCEPT !.records = list] \in Stores
        /\ [gated EXCEPT !.records = list].resolved = gated.resolved
        /\ [gated EXCEPT !.records = list].recent = gated.recent
        /\ [gated EXCEPT !.records = list].pending = gated.pending
        /\ [gated EXCEPT !.records = list].contained = gated.contained
    BY <2>5, <2>6 DEF Stores
  <2> QED BY <1>3, <2>2, <2>5, <2>7
<1>6. CASE o \in Combined
  <2> DEFINE credited == ApplyAttribution(st, o)
             list == Bounded(Append(credited.project, run), MaxRecords)
  <2>1. o.kind = "combined"
    BY <1>6 DEF Combined
  <2>2. Mutate(o, run, st) = [credited EXCEPT !.project = list]
    BY <2>1 DEF Mutate
  <2>3. /\ credited \in Stores /\ CoversRecent(credited)
        /\ credited.pending = st.pending /\ credited.contained = st.contained
    BY <1>1, <1>6, AttributionStore
  <2> HIDE DEF credited
  <2>4. LeftBy(credited, R \cup {run})
    BY <1>1, <2>3 DEF LeftBy, ContainedOnce, Mentions
  <2>5. list \in UpTo(Runs, MaxRecords)
    <3>1. credited.project \in Seq(Runs)
      BY <2>3 DEF Stores, UpTo
    <3> QED BY <1>2, <3>1, AddRun
  <2> HIDE DEF list
  <2>6. /\ [credited EXCEPT !.project = list] \in Stores
        /\ [credited EXCEPT !.project = list].resolved = credited.resolved
        /\ [credited EXCEPT !.project = list].recent = credited.recent
        /\ [credited EXCEPT !.project = list].pending = credited.pending
        /\ [credited EXCEPT !.project = list].contained = credited.contained
    BY <2>3, <2>5 DEF Stores
  <2> QED BY <1>3, <2>2, <2>3, <2>4, <2>6
<1>7. CASE o \in Commands
  <2>1. o.kind \in {"enable", "disable", "decline", "digest"}
    BY <1>7 DEF Commands
  <2>2. /\ Mutate(o, run, st) \in Stores
        /\ Mutate(o, run, st).resolved = st.resolved /\ Mutate(o, run, st).recent = st.recent
        /\ Mutate(o, run, st).pending = st.pending /\ Mutate(o, run, st).contained = st.contained
    <3>1. CASE o.kind = "enable"
      BY <1>1, <3>1 DEF Mutate, Stores
    <3>2. CASE o.kind = "disable"
      BY <1>1, <3>2 DEF Mutate, Stores
    <3>3. CASE o.kind = "decline"
      BY <1>1, <3>3 DEF Mutate, Stores
    <3>4. CASE o.kind = "digest"
      BY <1>1, <3>4 DEF Mutate, Stamp, Stores
    <3> QED BY <2>1, <3>1, <3>2, <3>3, <3>4
  <2> QED BY <1>1, <1>3, <1>4, <2>2
<1> QED BY <1>5, <1>6, <1>7, OpsAssumption

-----------------------------------------------------------------------------
(* The inductive invariants.                                               *)

(* Runs that may be named in a store.                                      *)
Recorded == PastRuns \cup {p \in Procs : pc[p] \in {"return", "done", "dead"}}

(* The file and every copy are stores that ended runs left, and whoever    *)
(* loaded one knows its invocation.                                        *)
StoresInv ==
    /\ store # NoStore => LeftBy(store, Recorded)
    /\ \A p \in Procs :
          /\ mem[p] # NoStore => LeftBy(mem[p], Recorded)
          /\ Loaded(p) => LeftBy(mem[p], Recorded)
          /\ pc[p] \in {"open", "lock", "load", "import", "save"} => op[p] \in Ops

(* Until an unserialised write: whoever waits for the lock or holds it     *)
(* opened the file that the path still names, so one process holds it; and *)
(* the copy of the holder is what the file holds.                          *)
LockInv ==
    tainted = FALSE =>
        /\ \A p \in Procs : pc[p] = "lock" \/ p \in holds => opened[p] = inode
        /\ \A p, q \in holds : p = q
        /\ \A p \in holds : Loaded(p) => p \in fresh

(* What a copy is that is still fresh.                                     *)
CopyInv ==
    \A p \in Procs :
        /\ p \in holds => pc[p] \in {"load", "import", "save", "return"}
        /\ pc[p] = "import" => Legacy # NoStore /\ mem[p] = IntoStore(Legacy, op[p].tree)
        /\ p \in fresh /\ pc[p] = "import" => store = NoStore
        /\ p \in fresh /\ pc[p] = "save" => mem[p] = Log!Current(op[p].tree)

(* The inductive invariant.                                                *)
Inv == TypeOK /\ StoresInv /\ LockInv /\ CopyInv

-----------------------------------------------------------------------------
(* The file and the copies.                                                *)

(* What some runs left, more runs may have left.                           *)
LEMMA LeftGrows ==
    ASSUME NEW st, NEW R, NEW T, R \subseteq T, LeftBy(st, R)
    PROVE  LeftBy(st, T)
BY DEF LeftBy, Mentions

(* A project without a store starts with one that nobody left.             *)
LEMMA DefaultLeft == ASSUME NEW R PROVE LeftBy(DefaultStore, R)
<1>1. EmptyFile \in [found : SUBSET Symbols, supp : BOOLEAN]
  BY DEF EmptyFile
<1> DEFINE trees == [w \in Worktrees |-> EmptyTree]
<1>2. trees \in [Worktrees -> [Paths -> [found : SUBSET Symbols, supp : BOOLEAN]]]
  BY <1>1 DEF EmptyTree
<1>3. \A S, n : n \in Nat => << >> \in UpTo(S, n)
  BY DEF UpTo
<1>4. MaxRecords \in Nat /\ MaxRecent \in Nat
  BY CapsAssumption
<1>5. DefaultStore =
        [enabled |-> FALSE, decided |-> FALSE, declined |-> FALSE, digested |-> FALSE,
         records |-> << >>, project |-> << >>, pending |-> NoRun, contained |-> << >>,
         frontier |-> trees, resolved |-> 0, recent |-> << >>]
  BY DEF DefaultStore
<1> HIDE DEF trees
<1>6. DefaultStore \in Stores
  BY <1>2, <1>3, <1>4, <1>5 DEF Stores
<1> QED BY <1>5, <1>6 DEF LeftBy, CoversRecent, ContainedOnce, Mentions

(* An old store is imported into a worktree as a store of past runs.       *)
LEMMA ImportLeft ==
    ASSUME NEW o \in Ops
    PROVE  o.tree \in Worktrees /\ (Legacy # NoStore => LeftBy(IntoStore(Legacy, o.tree), PastRuns))
<1>1. o.tree \in Worktrees
  BY OpsAssumption DEF Audits, Combined, Commands
<1> QED BY <1>1, LeftAssumption

(* The steps that load and save nothing.                                   *)
LEMMA StoresKept ==
    ASSUME TypeOK, StoresInv, NEW p \in Procs, NEW step \in Steps \ {"import", "save"},
           pc' = [pc EXCEPT ![p] = step],
           pc[p] \in {"return", "done", "dead"} => step \in {"return", "done", "dead"},
           mem' = mem \/ mem' = [mem EXCEPT ![p] = NoStore],
           store' = store \/ store' = NoStore,
           \A q \in Procs : q # p => op'[q] = op[q],
           step \in {"open", "lock", "load"} => op'[p] \in Ops
    PROVE  StoresInv'
<1>1. Recorded \subseteq Recorded'
  BY DEF Recorded, TypeOK
<1>2. store' # NoStore => LeftBy(store', Recorded')
  BY <1>1, LeftGrows DEF StoresInv
<1>3. ASSUME NEW q \in Procs
      PROVE  /\ mem'[q] # NoStore => LeftBy(mem'[q], Recorded')
             /\ Loaded(q)' => LeftBy(mem'[q], Recorded')
             /\ pc'[q] \in {"open", "lock", "load", "import", "save"} => op'[q] \in Ops
  <2>1. mem'[q] = mem[q] \/ (q = p /\ mem'[q] = NoStore)
    BY DEF TypeOK
  <2>2. pc'[q] = IF q = p THEN step ELSE pc[q]
    BY DEF TypeOK
  <2>3. Loaded(q)' => q # p /\ Loaded(q)
    BY <2>2 DEF Loaded
  <2>4. LeftBy(mem[q], Recorded) => LeftBy(mem[q], Recorded')
    BY <1>1, LeftGrows
  <2> QED BY <2>1, <2>2, <2>3, <2>4 DEF StoresInv
<1> QED BY <1>2, <1>3 DEF StoresInv

(* Every step leaves the file and the copies well formed.                  *)
LEMMA StoresStep == TypeOK /\ StoresInv /\ Next => TypeOK' /\ StoresInv'
<1> SUFFICES ASSUME TypeOK, StoresInv, Next PROVE TypeOK' /\ StoresInv'
  OBVIOUS
<1> USE DEF Steps
<1>1. ASSUME NEW p \in Procs, NEW o \in OpsOf[p], Begin(p, o) PROVE TypeOK' /\ StoresInv'
  <2>1. o \in Ops
    BY OpsOfAssumption
  <2>2. TypeOK'
    BY <1>1, <2>1 DEF Begin, Goto, TypeOK, lockVars
  <2>3. op'[p] = o /\ \A q \in Procs : q # p => op'[q] = op[q]
    BY <1>1 DEF Begin, TypeOK
  <2>4. StoresInv'
    BY <1>1, <2>1, <2>3, StoresKept DEF Begin, Goto
  <2> QED BY <2>2, <2>4
<1>2. ASSUME NEW p \in Procs, OpenLock(p) PROVE TypeOK' /\ StoresInv'
  <2>1. TypeOK'
    BY <1>2 DEF OpenLock, Goto, TypeOK
  <2>2. op[p] \in Ops
    BY <1>2 DEF OpenLock, StoresInv
  <2> QED BY <1>2, <2>1, <2>2, StoresKept DEF OpenLock, Goto
<1>3. ASSUME NEW p \in Procs, Acquire(p) PROVE TypeOK' /\ StoresInv'
  <2>1. TypeOK'
    BY <1>3 DEF Acquire, Goto, TypeOK
  <2>2. op[p] \in Ops
    BY <1>3 DEF Acquire, StoresInv
  <2> QED BY <1>3, <2>1, <2>2, StoresKept DEF Acquire, Goto
<1>4. ASSUME NEW p \in Procs, AcquireFails(p) PROVE TypeOK' /\ StoresInv'
  <2>1. TypeOK'
    BY <1>4 DEF AcquireFails, Goto, TypeOK, lockVars
  <2>2. op[p] \in Ops
    BY <1>4 DEF AcquireFails, StoresInv
  <2> QED BY <1>4, <2>1, <2>2, StoresKept DEF AcquireFails, Goto
<1>5. ASSUME NEW p \in Procs, Load(p) PROVE TypeOK' /\ StoresInv'
  <2>1. op[p] \in Ops /\ pc[p] = "load"
    BY <1>5 DEF Load, StoresInv
  <2>2. PICK st \in Stores, step \in {"import", "save", "return"} :
           mem' = [mem EXCEPT ![p] = st] /\ pc' = [pc EXCEPT ![p] = step] /\ LeftBy(st, Recorded)
    <3>1. CASE store = NoStore /\ Legacy # NoStore
      <4>1. LeftBy(IntoStore(Legacy, op[p].tree), Recorded)
        BY <2>1, <3>1, ImportLeft, LeftGrows DEF Recorded
      <4> QED BY <1>5, <3>1, <4>1 DEF Load, Goto, LeftBy
    <3>2. CASE ~(store = NoStore /\ Legacy # NoStore)
      <4>1. LeftBy(IF store = NoStore THEN DefaultStore ELSE store, Recorded)
        BY DefaultLeft DEF StoresInv
      <4> QED BY <1>5, <3>2, <4>1 DEF Load, Take, Goto, LeftBy
    <3> QED BY <3>1, <3>2
  <2>3. st \in Stores
    BY <2>2 DEF LeftBy
  <2>4. TypeOK'
    BY <1>5, <2>2, <2>3 DEF Load, TypeOK, lockVars
  <2>5. Recorded \subseteq Recorded'
    BY <2>1, <2>2 DEF Recorded, TypeOK
  <2>6. ASSUME NEW q \in Procs
        PROVE  /\ LeftBy(mem[q], Recorded) => LeftBy(mem[q], Recorded')
               /\ LeftBy(store, Recorded) => LeftBy(store, Recorded')
               /\ LeftBy(st, Recorded')
    BY <2>2, <2>5, LeftGrows
  <2>7. StoresInv'
    BY <1>5, <2>1, <2>2, <2>6 DEF Load, StoresInv, Loaded, TypeOK
  <2> QED BY <2>4, <2>7
<1>6. ASSUME NEW p \in Procs, Import(p) PROVE TypeOK' /\ StoresInv'
  <2>1. op[p] \in Ops /\ LeftBy(mem[p], Recorded)
    BY <1>6 DEF Import, StoresInv, Loaded
  <2>2. mem[p] \in Stores
    BY <2>1 DEF LeftBy
  <2>3. PICK step \in {"save", "return"} :
           mem' = [mem EXCEPT ![p] = mem[p]] /\ pc' = [pc EXCEPT ![p] = step]
    BY <1>6 DEF Import, Take, Goto
  <2>4. TypeOK'
    <3>1. tainted' \in BOOLEAN
      BY <1>6, Zenon DEF Import, Replace
    <3> QED BY <1>6, <2>2, <2>3, <3>1 DEF Import, Replace, TypeOK, lockVars
  <2>5. Recorded \subseteq Recorded'
    BY <1>6, <2>3 DEF Import, Recorded, TypeOK
  <2>6. ASSUME NEW q \in Procs PROVE LeftBy(mem[q], Recorded) => LeftBy(mem[q], Recorded')
    BY <2>5, LeftGrows
  <2>7. store' = mem[p] /\ mem' = mem
    BY <1>6, <2>3 DEF Import, Replace, TypeOK
  <2>8. StoresInv'
    BY <1>6, <2>1, <2>3, <2>6, <2>7 DEF Import, StoresInv, Loaded, TypeOK
  <2> QED BY <2>4, <2>8
<1>7. ASSUME NEW p \in Procs, Save(p) PROVE TypeOK' /\ StoresInv'
  <2>1. op[p] \in Ops /\ LeftBy(mem[p], Recorded)
    BY <1>7 DEF Save, StoresInv, Loaded
  <2>2. Recorded \in SUBSET Runs /\ p \notin Recorded
    BY <1>7, RunsAssumption DEF Save, Recorded, Runs
  <2>3. LeftBy(store', Recorded \cup {p})
    BY <1>7, <2>1, <2>2, MutateLeft DEF Save, Replace
  <2>4. store' \in Stores
    BY <2>3 DEF LeftBy
  <2>5. TypeOK'
    <3>1. tainted' \in BOOLEAN
      BY <1>7, Zenon DEF Save, Replace
    <3> QED BY <1>7, <2>4, <3>1 DEF Save, Replace, Goto, TypeOK, lockVars
  <2>6. Recorded \cup {p} \subseteq Recorded' /\ Recorded \subseteq Recorded'
    BY <1>7 DEF Save, Goto, Recorded, TypeOK
  <2>7. ASSUME NEW q \in Procs
        PROVE  /\ LeftBy(mem[q], Recorded) => LeftBy(mem[q], Recorded')
               /\ LeftBy(store', Recorded')
    BY <2>3, <2>6, LeftGrows
  <2>8. StoresInv'
    BY <1>7, <2>1, <2>7 DEF Save, Goto, StoresInv, Loaded, TypeOK
  <2> QED BY <2>5, <2>8
<1>8. ASSUME NEW p \in Procs, NEW how \in {"done", "dead"}, Gone(p, how), holds' = holds \ {p}
      PROVE  TypeOK' /\ StoresInv'
  <2>1. TypeOK'
    BY <1>8 DEF Gone, Goto, TypeOK
  <2>2. \A q \in Procs : q # p => op'[q] = op[q]
    BY <1>8 DEF Gone, TypeOK
  <2> QED BY <1>8, <2>1, <2>2, StoresKept DEF Gone, Goto
<1>9. ASSUME NEW p \in Procs, Return(p) \/ Kill(p) PROVE TypeOK' /\ StoresInv'
  BY <1>8, <1>9 DEF Return, Kill
<1>10. ASSUME NEW p \in Procs, SweepRemove(p) \/ Reset(p) PROVE TypeOK' /\ StoresInv'
  <2>1. TypeOK'
    <3>1. tainted' \in BOOLEAN
      BY <1>10, Zenon DEF SweepRemove, Reset, Replace
    <3> QED BY <1>10, <3>1 DEF SweepRemove, Reset, Replace, Delete, Goto, TypeOK
  <2> QED BY <1>10, <2>1, StoresKept DEF SweepRemove, Reset, Replace, Delete, Goto
<1>11. ASSUME NEW p \in Procs, ResetAll(p) PROVE TypeOK' /\ StoresInv'
  <2>1. TypeOK'
    <3>1. tainted' \in BOOLEAN
      BY <1>11, Zenon DEF ResetAll
    <3>2. /\ store' = NoStore /\ aged' = FALSE /\ inode' = inode + 1 /\ fresh' = {}
          /\ pc' = [pc EXCEPT ![p] = "done"]
          /\ UNCHANGED <<globalDefault, opened, holds, op, mem>>
      BY <1>11, Zenon DEF ResetAll, Delete, Goto
    <3>3. inode + 1 \in Nat
      BY DEF TypeOK
    <3> QED BY <3>1, <3>2, <3>3 DEF TypeOK
  <2> QED BY <1>11, <2>1, StoresKept DEF ResetAll, Delete, Goto
<1>12. ASSUME NEW p \in Procs, CiRun(p) PROVE TypeOK' /\ StoresInv'
  <2>1. TypeOK'
    BY <1>12 DEF CiRun, Goto, TypeOK, lockVars
  <2> QED BY <1>12, <2>1, StoresKept DEF CiRun, Goto
<1>13. ASSUME NEW p \in Procs, NEW on \in BOOLEAN, SetGlobalDefault(p, on)
       PROVE  TypeOK' /\ StoresInv'
  <2>1. TypeOK'
    BY <1>13 DEF SetGlobalDefault, Goto, TypeOK, lockVars
  <2> QED BY <1>13, <2>1, StoresKept DEF SetGlobalDefault, Goto
<1>14. ASSUME NEW p \in Procs, SweepStat(p) PROVE TypeOK' /\ StoresInv'
  <2>1. TypeOK'
    BY <1>14 DEF SweepStat, Goto, TypeOK, lockVars
  <2> QED BY <1>14, <2>1, StoresKept DEF SweepStat, Goto
<1>15. ASSUME StoreAges PROVE TypeOK' /\ StoresInv'
  BY <1>15 DEF StoreAges, TypeOK, StoresInv, Loaded, Recorded, lockVars
<1> QED
  BY <1>1, <1>2, <1>3, <1>4, <1>5, <1>6, <1>7, <1>9, <1>10, <1>11, <1>12, <1>13, <1>14, <1>15,
     OpsOfAssumption
  DEF Next, ProcStep

-----------------------------------------------------------------------------
(* The lock.                                                               *)

(* An unserialised write cannot be undone, and a write that leaves the     *)
(* record clean was made with the lock, or with a fresh copy while nobody  *)
(* else had one.                                                           *)
LEMMA CleanReplace ==
    ASSUME TypeOK, NEW p \in Procs, NEW content, Replace(p, content), tainted' = FALSE
    PROVE  /\ tainted = FALSE
           /\ p \notin holds => /\ Loaded(p) => p \in fresh
                                /\ \A q \in Procs \ {p} : ~Loaded(q)
<1>1. tainted \in BOOLEAN
  BY DEF TypeOK
<1> QED BY <1>1, Zenon DEF Replace

(* The steps that leave the file alone and load nothing.                   *)
LEMMA LockKept ==
    ASSUME Inv, NEW p \in Procs, NEW step \in Steps \ {"import", "save"},
           pc' = [pc EXCEPT ![p] = step], step = "lock" => opened'[p] = inode,
           UNCHANGED <<store, inode, tainted>>,
           \A q \in Procs : q # p => opened'[q] = opened[q] /\ op'[q] = op[q] /\ mem'[q] = mem[q],
           holds' \subseteq holds, p \notin holds',
           fresh' = fresh \/ fresh' = fresh \ {p}
    PROVE  LockInv' /\ CopyInv'
<1>1. \A q \in Procs : pc'[q] = IF q = p THEN step ELSE pc[q]
  BY DEF Inv, TypeOK
<1>2. \A w : Log!Current(w)' = Log!Current(w)
  BY DEF Log!Current
<1>3. CopyInv'
  BY <1>1, <1>2 DEF Inv, CopyInv
<1>4. LockInv'
  BY <1>1 DEF Inv, LockInv, CopyInv, Loaded, TypeOK
<1> QED BY <1>3, <1>4

(* A write of the file, or its removal, leaves no copy fresh but that of   *)
(* the writer.                                                             *)
LEMMA LockReplaced ==
    ASSUME Inv, NEW p \in Procs, NEW step \in {"save", "return", "done"}, NEW content,
           Replace(p, content), pc' = [pc EXCEPT ![p] = step],
           UNCHANGED <<inode, opened, holds, op>>,
           \A q \in Procs : q # p => mem'[q] = mem[q],
           p \in holds => step # "done",
           fresh' \subseteq {p},
           step = "save" => fresh' = {p} /\ mem'[p] = Log!Current(op[p].tree)'
    PROVE  LockInv' /\ CopyInv'
<1>1. \A q \in Procs : pc'[q] = IF q = p THEN step ELSE pc[q]
  BY DEF Inv, TypeOK
<1>2. CopyInv'
  BY <1>1 DEF Inv, CopyInv
<1>3. SUFFICES ASSUME tainted' = FALSE PROVE LockInv'
  BY <1>2, <1>3 DEF LockInv
<1>4. /\ tainted = FALSE
      /\ p \notin holds => \A q \in Procs \ {p} : ~Loaded(q)
  BY <1>3, CleanReplace DEF Inv
<1>5. \A q \in holds : Loaded(q)' => q = p /\ step = "save"
  <2> SUFFICES ASSUME NEW q \in holds, Loaded(q)' PROVE q = p /\ step = "save"
    OBVIOUS
  <2>0. q \in Procs
    BY DEF Inv, TypeOK
  <2>1. CASE p \in holds
    <3>1. q = p
      BY <1>4, <2>1 DEF Inv, LockInv
    <3> QED BY <3>1, <1>1 DEF Loaded
  <2>2. CASE p \notin holds
    <3>1. q # p
      BY <2>2
    <3>2. Loaded(q)
      BY <1>1, <2>0, <3>1 DEF Loaded
    <3> QED BY <1>4, <2>0, <2>2, <3>1, <3>2
  <2> QED BY <2>1, <2>2
<1>6. \A q \in Procs : pc'[q] = "lock" \/ q \in holds => opened[q] = inode
  BY <1>1, <1>4 DEF Inv, LockInv
<1>7. \A q, r \in holds : q = r
  BY <1>4 DEF Inv, LockInv
<1> QED BY <1>5, <1>6, <1>7 DEF LockInv

(* Every step keeps the lock and the copies right.                         *)
LEMMA LockStep == Inv /\ Next => LockInv' /\ CopyInv'
<1> SUFFICES ASSUME Inv, Next PROVE LockInv' /\ CopyInv'
  OBVIOUS
<1>0. /\ \A p \in holds : pc[p] \in {"load", "import", "save", "return"} /\ p \in Procs
      /\ pc \in [Procs -> Steps] /\ op \in [Procs -> Ops \cup {NoOp}] /\ DOMAIN mem = Procs
      /\ opened \in [Procs -> Nat] /\ fresh \subseteq Procs
  BY DEF Inv, CopyInv, TypeOK
<1>1. ASSUME NEW p \in Procs, NEW o \in OpsOf[p], Begin(p, o) PROVE LockInv' /\ CopyInv'
  <2>1. \A q \in Procs : q # p => op'[q] = op[q]
    BY <1>0, <1>1 DEF Begin
  <2>2. pc[p] = "idle" /\ p \notin holds
    BY <1>0, <1>1 DEF Begin
  <2> QED BY <1>1, <2>1, <2>2, LockKept DEF Begin, Goto, lockVars, Steps
<1>2. ASSUME NEW p \in Procs, OpenLock(p) PROVE LockInv' /\ CopyInv'
  <2>1. p \notin holds
    BY <1>0, <1>2 DEF OpenLock
  <2>2. opened'[p] = inode /\ \A q \in Procs : q # p => opened'[q] = opened[q]
    BY <1>0, <1>2 DEF OpenLock
  <2> QED BY <1>2, <2>1, <2>2, LockKept DEF OpenLock, Goto, Steps
<1>3. ASSUME NEW p \in Procs, Acquire(p) PROVE LockInv' /\ CopyInv'
  <2>1. \A q \in Procs : pc'[q] = IF q = p THEN "load" ELSE pc[q]
    BY <1>0, <1>3 DEF Acquire, Goto
  <2>2. \A w : Log!Current(w)' = Log!Current(w)
    BY <1>3 DEF Acquire, Log!Current
  <2>3. CopyInv'
    BY <1>3, <2>1, <2>2 DEF Acquire, Inv, CopyInv
  <2>4. SUFFICES ASSUME tainted = FALSE PROVE LockInv'
    BY <1>3, <2>3, <2>4 DEF Acquire, LockInv
  <2>5. pc[p] = "lock" /\ opened[p] = inode
    BY <1>3, <2>4 DEF Acquire, Inv, LockInv
  <2>6. holds = {}
    BY <1>0, <1>3, <2>4, <2>5 DEF Acquire, HeldFor, Inv, LockInv
  <2> QED BY <1>0, <1>3, <2>1, <2>4, <2>5, <2>6 DEF Acquire, Inv, LockInv, Loaded
<1>4. ASSUME NEW p \in Procs, AcquireFails(p) PROVE LockInv' /\ CopyInv'
  <2>1. p \notin holds
    BY <1>0, <1>4 DEF AcquireFails
  <2> QED BY <1>4, <2>1, LockKept DEF AcquireFails, Goto, lockVars, Steps
<1>5. ASSUME NEW p \in Procs, Load(p) PROVE LockInv' /\ CopyInv'
  <2>1. PICK st, step :
           /\ mem' = [mem EXCEPT ![p] = st] /\ pc' = [pc EXCEPT ![p] = step]
           /\ \/ /\ step = "import" /\ store = NoStore /\ Legacy # NoStore
                 /\ st = IntoStore(Legacy, op[p].tree)
              \/ step \in {"save", "return"} /\ st = Log!Current(op[p].tree)
    BY <1>5 DEF Load, Take, Goto, Log!Current
  <2>2. UNCHANGED <<store, inode, opened, holds, op, tainted>> /\ fresh' = fresh \cup {p}
    BY <1>5 DEF Load, lockVars
  <2>3. \A w : Log!Current(w)' = Log!Current(w)
    BY <2>2 DEF Log!Current
  <2>4. \A q \in Procs : /\ pc'[q] = IF q = p THEN step ELSE pc[q]
                         /\ mem'[q] = IF q = p THEN st ELSE mem[q]
    BY <1>0, <2>1
  <2>5. CopyInv'
    BY <1>5, <2>1, <2>2, <2>3, <2>4 DEF Load, Inv, CopyInv
  <2>6. LockInv'
    BY <1>0, <1>5, <2>1, <2>2, <2>4 DEF Load, Inv, LockInv, Loaded
  <2> QED BY <2>5, <2>6
<1>6. ASSUME NEW p \in Procs, Import(p) PROVE LockInv' /\ CopyInv'
  <2>1. mem[p] = IntoStore(Legacy, op[p].tree) /\ Legacy # NoStore
    BY <1>6 DEF Import, Inv, CopyInv
  <2>2. PICK step \in {"save", "return"} :
           mem' = [mem EXCEPT ![p] = mem[p]] /\ pc' = [pc EXCEPT ![p] = step]
    BY <1>6 DEF Import, Take, Goto
  <2>3. mem'[p] = mem[p] /\ \A q \in Procs : q # p => mem'[q] = mem[q]
    BY <1>0, <2>2
  <2>4. store' = mem[p] /\ UNCHANGED <<inode, opened, holds, op>> /\ fresh' = {p}
        /\ Replace(p, mem[p])
    BY <1>6, Zenon DEF Import, Replace, lockVars
  <2>5. mem'[p] = Log!Current(op[p].tree)'
    BY <2>1, <2>3, <2>4 DEF Log!Current
  <2> QED BY <2>2, <2>3, <2>4, <2>5, LockReplaced
<1>7. ASSUME NEW p \in Procs, Save(p) PROVE LockInv' /\ CopyInv'
  <2>1. \A q \in Procs : q # p => mem'[q] = mem[q]
    BY <1>0, <1>7 DEF Save
  <2>2. UNCHANGED <<inode, opened, holds, op>> /\ fresh' = {}
        /\ Replace(p, Mutate(op[p], p, mem[p])) /\ pc' = [pc EXCEPT ![p] = "return"]
    BY <1>7 DEF Save, lockVars, Goto
  <2> QED BY <2>1, <2>2, LockReplaced
<1>8. ASSUME NEW p \in Procs, NEW how \in {"done", "dead"}, Gone(p, how), holds' = holds \ {p}
      PROVE  LockInv' /\ CopyInv'
  <2>1. \A q \in Procs : q # p => opened'[q] = opened[q] /\ op'[q] = op[q] /\ mem'[q] = mem[q]
    BY <1>0, <1>8 DEF Gone
  <2> QED BY <1>8, <2>1, LockKept DEF Gone, Goto, Steps
<1>9. ASSUME NEW p \in Procs, Return(p) \/ Kill(p) PROVE LockInv' /\ CopyInv'
  BY <1>8, <1>9 DEF Return, Kill
<1>10. ASSUME NEW p \in Procs, SweepRemove(p) \/ Reset(p) PROVE LockInv' /\ CopyInv'
  <2>1. p \notin holds
    BY <1>0, <1>10 DEF SweepRemove, Reset
  <2>2. UNCHANGED <<inode, opened, holds, op, mem>> /\ fresh' = {}
        /\ Replace(p, NoStore) /\ pc' = [pc EXCEPT ![p] = "done"]
    BY <1>10 DEF SweepRemove, Reset, Delete, Goto
  <2> QED BY <2>1, <2>2, LockReplaced
<1>11. ASSUME NEW p \in Procs, ResetAll(p) PROVE LockInv' /\ CopyInv'
  <2>1. \A q \in Procs : pc'[q] = IF q = p THEN "done" ELSE pc[q]
    BY <1>0, <1>11 DEF ResetAll, Delete, Goto
  <2>2. fresh' = {} /\ UNCHANGED <<opened, holds, op, mem>> /\ pc[p] = "idle"
    BY <1>11 DEF ResetAll, Delete
  <2>3. CopyInv'
    BY <1>0, <2>1, <2>2 DEF Inv, CopyInv
  <2>4. SUFFICES ASSUME tainted' = FALSE PROVE LockInv'
    BY <2>3, <2>4 DEF LockInv
  <2>5. \A q \in Procs : pc[q] # "lock" /\ q \notin holds /\ ~Loaded(q)
    BY <1>11, <2>4, Zenon DEF ResetAll
  <2> QED BY <1>0, <2>1, <2>2, <2>5 DEF LockInv
<1>12. ASSUME NEW p \in Procs, NEW step \in {"done", "remove"}, pc[p] = "idle", Goto(p, step),
              UNCHANGED <<store, inode, opened, holds, op, mem, fresh, tainted>>
       PROVE  LockInv' /\ CopyInv'
  <2>1. p \notin holds
    BY <1>0, <1>12
  <2> QED BY <1>12, <2>1, LockKept DEF Goto, Steps
<1>13. ASSUME NEW p \in Procs,
              CiRun(p) \/ (\E on \in BOOLEAN : SetGlobalDefault(p, on)) \/ SweepStat(p)
       PROVE  LockInv' /\ CopyInv'
  <2>1. CASE CiRun(p)
    BY <2>1, <1>12 DEF CiRun, lockVars
  <2>2. CASE \E on \in BOOLEAN : SetGlobalDefault(p, on)
    BY <2>2, <1>12 DEF SetGlobalDefault, lockVars
  <2>3. CASE SweepStat(p)
    BY <2>3, <1>12 DEF SweepStat, lockVars
  <2> QED BY <1>13, <2>1, <2>2, <2>3
<1>14. ASSUME StoreAges PROVE LockInv' /\ CopyInv'
  BY <1>14 DEF StoreAges, Inv, LockInv, CopyInv, Loaded, lockVars, Log!Current
<1> QED
  BY <1>1, <1>2, <1>3, <1>4, <1>5, <1>6, <1>7, <1>9, <1>10, <1>11, <1>13, <1>14, OpsOfAssumption
  DEF Next, ProcStep

-----------------------------------------------------------------------------
(* The results.                                                            *)

(* The invariant holds at the start, of any store that past runs left.     *)
LEMMA InitInv == Init => Inv
<1> SUFFICES ASSUME Init PROVE Inv
  OBVIOUS
<1>1. store # NoStore => LeftBy(store, Recorded) /\ store \in Stores
  <2> SUFFICES ASSUME store # NoStore PROVE LeftBy(store, Recorded)
    BY DEF LeftBy
  <2>1. LeftBy(store, PastRuns)
    BY LeftAssumption DEF Init
  <2> QED BY <2>1, LeftGrows DEF Recorded
<1>2. TypeOK
  BY <1>1 DEF Init, TypeOK, Steps
<1>3. StoresInv
  BY <1>1 DEF Init, StoresInv, Loaded
<1>4. LockInv /\ CopyInv
  BY DEF Init, LockInv, CopyInv
<1> QED BY <1>2, <1>3, <1>4 DEF Inv

(* It holds in every state of every behaviour.                             *)
LEMMA InvAlways == Spec => []Inv
<1>1. Inv /\ [Next]_vars => Inv'
  <2> SUFFICES ASSUME Inv, [Next]_vars PROVE Inv'
    OBVIOUS
  <2>1. CASE Next
    BY <2>1, StoresStep, LockStep DEF Inv
  <2>2. CASE UNCHANGED vars
    <3>1. TypeOK' /\ StoresInv'
      BY <2>2 DEF vars, Inv, TypeOK, StoresInv, Loaded, Recorded
    <3>2. LockInv' /\ CopyInv'
      BY <2>2 DEF vars, Inv, LockInv, CopyInv, Loaded, Log!Current
    <3> QED BY <3>1, <3>2 DEF Inv
  <2> QED BY <2>1, <2>2
<1> QED BY <1>1, InitInv, PTL DEF Spec

(* The file and every copy are stores whose lists are within their caps.   *)
THEOREM TypeCorrect == Spec => []TypeOK
<1>1. Inv => TypeOK
  BY DEF Inv
<1> QED BY <1>1, InvAlways, PTL

(* The total of resolved findings covers the recent ones, however runs     *)
(* interleave, are killed, or overwrite one another                        *)
(* (uncredit_cross_run_moves).                                             *)
THEOREM TotalCoversRecent == Spec => []ResolvedCoversRecent
<1>1. Inv => ResolvedCoversRecent
  BY DEF Inv, StoresInv, LeftBy, ResolvedCoversRecent
<1> QED BY <1>1, InvAlways, PTL

(* No failed gate is contained twice, or contained and pending, even if    *)
(* writers overwrite one another (apply_containment).                      *)
THEOREM GateContainedOnce == Spec => []ContainmentOnce
<1>1. Inv => ContainmentOnce
  BY DEF Inv, StoresInv, LeftBy, ContainmentOnce
<1> QED BY <1>1, InvAlways, PTL

(* A step of the processes is a step of the log, or changes neither the    *)
(* store nor the record of unserialised writes.                            *)
LEMMA StepRefines == Inv /\ Next => [Log!LogNext]_Log!logVars
<1> SUFFICES ASSUME Inv, Next PROVE [Log!LogNext]_Log!logVars
  OBVIOUS
<1> SUFFICES ASSUME tainted' = FALSE PROVE [Log!LogNext]_Log!logVars
  <2>1. tainted' \in BOOLEAN
    BY StoresStep DEF Inv, TypeOK
  <2>2. ASSUME tainted' = TRUE PROVE [Log!LogNext]_Log!logVars
    BY <2>2, Zenon DEF Log!LogNext, Log!Clobber
  <2> QED BY <2>1, <2>2
<1> DEFINE Same == UNCHANGED <<store, tainted>>
<1>1. Same => [Log!LogNext]_Log!logVars
  BY DEF Log!logVars
<1>2. ASSUME NEW p \in Procs,
             \/ \E o \in OpsOf[p] : Begin(p, o)
             \/ OpenLock(p) \/ Acquire(p) \/ AcquireFails(p) \/ Load(p) \/ Return(p) \/ Kill(p)
             \/ CiRun(p) \/ (\E on \in BOOLEAN : SetGlobalDefault(p, on)) \/ SweepStat(p)
      PROVE  Same
  BY <1>2 DEF Begin, OpenLock, Acquire, AcquireFails, Load, Return, Kill, Gone, CiRun,
              SetGlobalDefault, SweepStat
<1>3. ASSUME NEW p \in Procs, NEW content, Replace(p, content)
      PROVE  store' = content /\ tainted' = tainted /\ (Loaded(p) => p \in fresh)
  <2>1. store' = content
    BY <1>3, Zenon DEF Replace
  <2>2. tainted = FALSE /\ (p \notin holds /\ Loaded(p) => p \in fresh)
    BY <1>3, CleanReplace DEF Inv
  <2>3. p \in holds /\ Loaded(p) => p \in fresh
    BY <2>2 DEF Inv, LockInv
  <2> QED BY <2>1, <2>2, <2>3
<1>4. ASSUME NEW p \in Procs, Save(p) PROVE [Log!LogNext]_Log!logVars
  <2>1. Loaded(p) /\ pc[p] = "save" /\ Replace(p, Mutate(op[p], p, mem[p]))
    BY <1>4 DEF Save, Loaded
  <2>2. mem[p] = Log!Current(op[p].tree) /\ op[p] \in Ops
    BY <1>3, <2>1 DEF Inv, CopyInv, StoresInv
  <2>3. store' = Mutate(op[p], p, Log!Current(op[p].tree)) /\ tainted' = tainted
    BY <1>3, <2>1, <2>2
  <2>4. CASE store' = store
    BY <1>1, <2>3, <2>4
  <2>5. CASE store' # store
    BY <2>2, <2>3, <2>5 DEF Log!LogNext, Log!Perform
  <2> QED BY <2>4, <2>5
<1>5. ASSUME NEW p \in Procs, Import(p) PROVE [Log!LogNext]_Log!logVars
  <2>1. Loaded(p) /\ pc[p] = "import" /\ Replace(p, mem[p])
    BY <1>5 DEF Import, Loaded
  <2>2. /\ store = NoStore /\ Legacy # NoStore /\ mem[p] = IntoStore(Legacy, op[p].tree)
        /\ op[p] \in Ops
    BY <1>3, <2>1 DEF Inv, CopyInv, StoresInv
  <2>3. op[p].tree \in Worktrees
    BY <2>2, ImportLeft
  <2>4. store' = IntoStore(Legacy, op[p].tree) /\ tainted' = tainted
    BY <1>3, <2>1, <2>2
  <2> QED BY <2>2, <2>3, <2>4 DEF Log!LogNext, Log!Import
<1>6. ASSUME NEW p \in Procs, SweepRemove(p) \/ Reset(p) PROVE [Log!LogNext]_Log!logVars
  <2>1. Replace(p, NoStore)
    BY <1>6 DEF SweepRemove, Reset
  <2> QED BY <1>3, <2>1 DEF Log!LogNext, Log!Remove
<1>7. ASSUME NEW p \in Procs, ResetAll(p) PROVE [Log!LogNext]_Log!logVars
  <2>1. store' = NoStore /\ tainted = FALSE
    <3>1. tainted \in BOOLEAN
      BY DEF Inv, TypeOK
    <3> QED BY <1>7, <3>1, Zenon DEF ResetAll
  <2> QED BY <2>1 DEF Log!LogNext, Log!Remove
<1>8. ASSUME StoreAges PROVE Same
  BY <1>8 DEF StoreAges
<1> HIDE DEF Same
<1> QED
  BY <1>1, <1>2, <1>4, <1>5, <1>6, <1>7, <1>8, OpsOfAssumption DEF Next, ProcStep

(* The store is a log of whole invocations, each computed from the store   *)
(* that it replaces, until a writer that does not hold the one lock        *)
(* overlaps another (ImpactStoreLock).                                     *)
THEOREM StoreIsLog == Spec => SerialUnlessClobbered
<1>1. Init => Log!LogInit
  BY DEF Init, Log!LogInit
<1>2. Inv /\ [Next]_vars => [Log!LogNext]_Log!logVars
  BY StepRefines DEF vars, Log!logVars
<1> QED BY <1>1, <1>2, InvAlways, PTL DEF Spec, SerialUnlessClobbered, Log!LogSpec
=============================================================================
