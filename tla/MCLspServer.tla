---------------------------- MODULE MCLspServer ----------------------------
(* Small instances of LspServer for TLC. *)
EXTENDS LspServer, TLC

CONSTANTS u1, u2, clean, muted, bad

OneUri   == {u1}
TwoUris  == {u1, u2}
OneBad   == {clean, bad}
WithMute == {clean, muted, bad}
CleanSet == {clean}
MutedSet == {muted}

=============================================================================
