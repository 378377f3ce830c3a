------------------------------ MODULE MCWatch ------------------------------
(* A small instance of Watch for TLC. *)
EXTENDS Watch, TLC

CONSTANTS w1, p1, f1, f2

OneWorker == {w1}
OnePid    == {p1}
TwoFiles  == {f1, f2}
OneFile   == {f1}

=============================================================================
