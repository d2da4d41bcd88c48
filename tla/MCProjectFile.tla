---------------------------- MODULE MCProjectFile ----------------------------
(* Commands and objects of ProjectFile are interchangeable.                *)
EXTENDS ProjectFile, TLC

Symmetry == Permutations(Commands) \cup Permutations(Objects)
=============================================================================
