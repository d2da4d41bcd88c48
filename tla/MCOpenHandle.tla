---------------------------- MODULE MCOpenHandle -----------------------------
(* TLC instances of OpenHandle.                                            *)
EXTENDS OpenHandle, TLC

Symmetry == Permutations(Writes)
=============================================================================
