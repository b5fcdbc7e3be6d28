----------------------------- MODULE MCLockedFifo -----------------------------
(* LockedFifo for TLC: two interchangeable producers and two interchangeable *)
(* consumers, and a ring whose size is no power of two.                      *)
EXTENDS LockedFifo, TLC

ThreadSymmetry == Permutations(Producers) \cup Permutations(Consumers)
===============================================================================
