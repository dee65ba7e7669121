---------------------------- MODULE MCWorkQueue ----------------------------
(* A small instance of WorkQueue for TLC: two clients with a work each, and *)
(* a work that work functions submit.                                       *)
EXTENDS WorkQueue

CONSTANTS a, b, x, y, z

TwoClients == {a, b}
ThreeWorks == {x, y, z}
MCUser == [w \in Work |-> CASE w = x -> a [] w = y -> b [] OTHER -> work_thread]

=============================================================================
