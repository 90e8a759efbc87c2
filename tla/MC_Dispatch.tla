---------------------------- MODULE MC_Dispatch ----------------------------
(* Sizes of the queues for the instances of DispatchProperties. *)
EXTENDS DispatchProperties

MemoryQueues == [IQ |-> 7, LQ |-> 1, SQ |-> 1]
LargeQueues  == [IQ |-> 8, LQ |-> 8, SQ |-> 8]
=============================================================================
