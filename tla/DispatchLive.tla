---------------------------- MODULE DispatchLive ----------------------------
(* What the dispatch half of IEW does in the end, as cycles pass.  A cycle in *)
(* which nothing changes is a step here: the clock tells it from a stutter.   *)
EXTENDS Dispatch

VARIABLE clock   \* parity of the cycle

SmallQueues == [IQ |-> 3, LQ |-> 1, SQ |-> 1]

ClockedNext == Next /\ clock' = 1 - clock

\* Cycles pass, what is in the queues finishes, squashes end.
Fairness ==
  /\ WF_<<vars, clock>>(ClockedNext)
  /\ \A q \in Queues : []<>(used[q] = 0 \/ q \in freed)
  /\ []<>(commit = "none")

FairSpec == Init /\ clock = 0 /\ [][ClockedNext]_<<vars, clock>> /\ Fairness

\* Instructions do not stay in the skid buffer (IEW::dispatch empties it), and rename
\* does not stay stalled (IEW::unblock releases it).
SkidEmptied == skid # <<>> ~> skid = <<>>
RenameReleased == stalled ~> ~stalled

\* When rename has nothing more to send, the stage drains (IEW::isDrained).
IsDrained == skid = <<>> /\ used = NoCounts /\ status = "Running"
Quiet == \A i \in DOMAIN wire : wire[i] = <<>>
DrainEnds == <>[](Quiet /\ commit = "none") => <>[]IsDrained
=============================================================================
