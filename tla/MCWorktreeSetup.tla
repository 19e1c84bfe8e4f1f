-------------------------- MODULE MCWorktreeSetup ---------------------------
(* Small instances of WorktreeSetup for TLC.                               *)
EXTENDS WorktreeSetup, TLC

CONSTANTS s1, s2, s3

(* A user-managed environment that already serves mode 0, and an empty one.*)
MCUserModules == {{}, {"dev"}}

Symmetry == Permutations(Setups)
=============================================================================
