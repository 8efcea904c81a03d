---------------------------- MODULE MC_Registry ----------------------------
(* One SP, two trustlet UUIDs (so an SP container lists two children and *)
(* its cleanup can fail between them), one data object per trustlet.     *)
EXTENDS Registry, TLC

CONSTANTS s1, u1, u2, p1, spidSystem, sOver
MC_Uuids == {u1, u2}
MC_Symmetry == Permutations(MC_Uuids)
=============================================================================
