------------------------- MODULE DispatchProperties -------------------------
(* What the dispatch half of IEW must guarantee. *)
EXTENDS Dispatch

\* Shapes of the variables.
Insts == [kind : Kinds, squashed : BOOLEAN]
Signals == [block : BOOLEAN, unblock : BOOLEAN, dispatched : [Queues -> Nat],
            free : SUBSET [Queues -> Int]]
TypeOK ==
  /\ status \in {"Running", "Blocked", "Unblocking", "Squashing"}
  /\ DOMAIN skid = 1 .. Len(skid) /\ \A i \in DOMAIN skid : skid[i] \in Insts
  /\ \A q \in Queues : used[q] \in 0 .. Size[q]
  /\ freed \subseteq Queues /\ {stalled, lost} \subseteq BOOLEAN
  /\ DOMAIN wire = 1 .. RenameToIEWDelay /\ \A i \in DOMAIN wire : wire[i] \in Batches
  /\ DOMAIN back = 1 .. IEWToRenameDelay
  /\ \A i \in DOMAIN back : /\ {back[i].block, back[i].unblock} \subseteq BOOLEAN
                            /\ Cardinality(back[i].free) <= 1
  /\ commit \in {"none", "squash", "squashing"}
  /\ doomed \in 0 .. RenameToIEWDelay /\ refill \in 0 .. RefillDelay

\* The assertion of skidInsert: the skid buffer has room for all that is on its way
\* when rename learns that it must stop.
SkidFits == Len(skid) <= SkidBufferMax

\* Rename's stall, with the signals on their way, always agrees with the status of
\* dispatch, whatever squashes and stalls cross: no block and no unblock is lost.
RenameAgrees ==
  LET Stalls(n) == IF n = 0 THEN stalled ELSE back[n].block
  IN (\E n \in 0 .. IEWToRenameDelay :
        Stalls(n) /\ \A m \in n .. IEWToRenameDelay : m > 0 => ~back[m].unblock)
     <=> status \in {"Blocked", "Unblocking"}

\* What rename counts as in progress is what is on its way, in the skid buffer, or
\* reported and not yet read: every instruction is reported once, however it ends.
\* (Total is the sum of the numbers in a sequence, as the size of a union.)
Boxes(numbers) == UNION {{i} \X (1 .. numbers[i]) : i \in DOMAIN numbers}
Total(numbers) == Cardinality(Boxes(numbers))
InTransit(q) == Total([i \in DOMAIN wire |-> KindCounts(wire[i])[q]]) + Counts(skid)[q]
CreditsExact ==
  \A q \in Queues :
    inProgress[q] = InTransit(q) + Total([i \in DOMAIN back |-> back[i].dispatched[q]])

\* While the ROB squashes, IEW throws away what arrives without looking: all of it
\* is squashed.
NothingLost == ~lost

\* Instructions that arrive never overtake those in the skid buffer.
NoOvertaking == status \in {"Running", "Squashing"} => skid = <<>>

\* "Records if the queues have been changed (inserted or issued insts), so that IEW
\* knows to broadcast the updated amount of free entries": rename never takes for
\* free an entry that is taken, or that an instruction on its way will take.
CreditsFresh ==
  \A q \in Queues : told[q] - inProgress[q] <= Size[q] - used[q] - InTransit(q)
=============================================================================
