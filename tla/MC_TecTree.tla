----------------------------- MODULE MC_TecTree -----------------------------
(***************************************************************************)
(* Walks from data lines spread over the 2 GB below the tree and from the  *)
(* lines around the boundaries of its groups.                              *)
(***************************************************************************)
EXTENDS TecTree

Boundaries == {0, 14, 15, 11390624, 11390625, 22781249, 22781250, 33554431}
Spread     == {i * 99991 : i \in 0..335}
Leaves     == Boundaries \cup Spread
=============================================================================
