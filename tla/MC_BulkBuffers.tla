--------------------------- MODULE MC_BulkBuffers ---------------------------
(* Two clients: c1 has an L2 buffer and a one-byte contiguous buffer, c2  *)
(* an L2 buffer.  Lengths 0..2 cover the zero-length TCI, a TCI longer   *)
(* than the contiguous buffer, and the blob length 2 recorded for a TCI. *)
EXTENDS BulkBuffers

MC_Clients == {"c1", "c2"}
MC_L2Of == [c \in MC_Clients |-> IF c = "c1" THEN {1} ELSE {3}]
MC_ContOf == [c \in MC_Clients |-> IF c = "c1" THEN {2} ELSE {}]
MC_ContSize == [h \in {2} |-> 1]
=============================================================================
