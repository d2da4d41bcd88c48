---------------------------- MODULE MCVaultFiles ----------------------------
(* VaultFiles for TLC: processes, objects and passphrases are              *)
(* interchangeable.                                                        *)
EXTENDS VaultFiles, TLC

Symmetry ==
    Permutations(Processes) \cup Permutations(Objects) \cup Permutations(Passphrases)
=============================================================================
