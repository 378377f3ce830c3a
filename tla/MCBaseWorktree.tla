--------------------------- MODULE MCBaseWorktree ---------------------------
(* Small instances of BaseWorktree for TLC. *)
EXTENDS BaseWorktree, TLC

CONSTANTS a1, a2, s1

TwoAudits == {a1, a2}
OneSha    == {s1}

\* Every process can be found alive by every other ...
AllConfirm == TwoAudits \X TwoAudits

\* ... or those of the first slot belong to a user that the second may not signal.
FirstIsForeign == AllConfirm \ {<<a2, a1>>}

=============================================================================
