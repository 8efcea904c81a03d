--------------------------- MODULE MC_Connections ---------------------------
(* Two addresses for Connection objects, so that one is reused while the *)
(* other may serve as an NQ socket.                                      *)
EXTENDS Connections, TLC

CONSTANTS a1, a2
MC_Addrs == {a1, a2}
MC_Symmetry == Permutations(MC_Addrs)
=============================================================================
