------------------------------ MODULE MCTimer ------------------------------
(* A small instance of Timer for TLC.                                       *)
EXTENDS Timer

CONSTANTS a, b

TwoTimers == {a, b}
ZeroTwo == {0, 2}

=============================================================================
