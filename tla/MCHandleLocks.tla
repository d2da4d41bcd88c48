---------------------------- MODULE MCHandleLocks ----------------------------
(* TLC instances of HandleLocks.                                           *)
EXTENDS HandleLocks, TLC

Symmetry == Permutations(Handles) \cup Permutations(Objects)
=============================================================================
