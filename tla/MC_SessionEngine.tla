------------------------- MODULE MC_SessionEngine -------------------------
(* Model-checking instance of SessionEngine: two client processes, two   *)
(* SWd session ids (so an id can be reused after a close), two opens.    *)
EXTENDS SessionEngine

MC_Clients == {"c1", "c2"}
MC_Sids == {"s1", "s2"}
=============================================================================
