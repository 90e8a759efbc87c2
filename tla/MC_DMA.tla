------------------------------- MODULE MC_DMA -------------------------------
(* Five requests of a device, three of them for one line. *)
EXTENDS DMA

MCLineOf == [r \in Requests |-> IF r <= 3 THEN 1 ELSE 2]
MCIsRead == [r \in Requests |-> r % 2 = 1]
=============================================================================
