------------------------------ MODULE MCSignals ------------------------------
(* Small instances of Signals for TLC. *)
EXTENDS Signals, TLC

CONSTANTS w1, w2, p1, p2

TwoWorkers  == {w1, w2}
OneWorker   == {w1}
TwoPids     == {p1, p2}
OneForeign  == {p1}

=============================================================================
