------------------------------ MODULE Dispatch ------------------------------
(***************************************************************************)
(* The dispatch half of the IEW stage of the out-of-order CPU, for one     *)
(* thread: the instructions that come from rename, the skid buffer that    *)
(* takes them when the queues are full, the block and unblock signals and  *)
(* the counts that go back, and the squashes that come from commit.        *)
(*                                                                         *)
(* A step is a cycle of the CPU.  Every stage reads what the others wrote  *)
(* in earlier cycles, so the ticks of a cycle are conjuncts.  Rename and   *)
(* commit, which are not in the repository, do what the signals IEW        *)
(* exchanges with them require; so do the instruction and memory queues.   *)
(***************************************************************************)
EXTENDS Integers, Sequences, FiniteSets

CONSTANTS
  RenameWidth, DispatchWidth,
  RenameToIEWDelay,   \* cycles an instruction travels
  IEWToRenameDelay,   \* cycles a signal travels back
  RefillDelay,        \* cycles after a squash before rename has instructions again
  Kinds,              \* kinds of instruction
  Size                \* entries of the IQ, the LQ and the SQ

Queues == {"IQ", "LQ", "SQ"}

ASSUME DispatchAssumption ==
  /\ {RenameWidth, DispatchWidth, RenameToIEWDelay, IEWToRenameDelay} \subseteq Nat \ {0}
  /\ RefillDelay \in Nat
  /\ Kinds \subseteq {"load", "store", "nop", "other"}
  /\ Size \in [Queues -> Nat \ {0}]

VARIABLES
  status,     \* dispatchStatus
  skid,       \* skidBuffer
  used,       \* entries in use in each queue
  freed,      \* queues in which an entry was freed last cycle: updateLSQNextCycle, or
              \* an instruction issued then
  wire,       \* batches on their way from rename, the oldest first
  back,       \* signals on their way to rename, the oldest first
  commit,     \* what commit signals this cycle
  doomed,     \* of the batches in wire, how many are squashed
  stalled, told, inProgress, refill, \* rename: is stalled by IEW, the free entries it
                                     \* was told of, its counts, cycles without input
  lost        \* history: an instruction that was not squashed was thrown away

renameVars == <<stalled, told, inProgress, refill>>
vars == <<status, skid, used, freed, wire, back, commit, doomed,
          renameVars, lost>>

SkidBufferMax == (RenameToIEWDelay + 1) * RenameWidth

\* What an instruction takes room in, and what rename counts it for.  An atomic or a
\* store-conditional is a store; a barrier is an instruction as another.
Needs(kind) == CASE kind = "load" -> {"IQ", "LQ"} [] kind = "store" -> {"IQ", "SQ"}
                 [] kind = "nop" -> {} [] OTHER -> {"IQ"}
Counted(kind) == Needs(kind) \cup {"IQ"}

Counts(insts) ==
  [q \in Queues |-> Cardinality({i \in DOMAIN insts : q \in Counted(insts[i].kind)})]
NoCounts == [q \in Queues |-> 0]

\* A cycle's signals: freeEntries is empty when the counts are not broadcast.
NoSignal == [block |-> FALSE, unblock |-> FALSE, dispatched |-> NoCounts, free |-> {}]

Init ==
  /\ status = "Running" /\ skid = <<>> /\ used = NoCounts
  /\ freed = Queues
  /\ wire = [i \in 1 .. RenameToIEWDelay |-> <<>>]
  /\ back = [i \in 1 .. IEWToRenameDelay |-> NoSignal]
  /\ commit = "none" /\ doomed = 0
  /\ stalled = FALSE /\ told = Size /\ inProgress = NoCounts /\ refill = 0
  /\ lost = FALSE

-----------------------------------------------------------------------------
(* The tick of IEW, on a record of what a tick works on. *)

\* sortInsts: the batch that arrives.
Arriving == [i \in DOMAIN wire[1] |-> [kind |-> wire[1][i], squashed |-> doomed > 0]]
Start == [status |-> status, skid |-> skid, insts |-> Arriving, used |-> used,
          returned |-> <<>>, block |-> FALSE, unblock |-> FALSE]

SkidInsert(s) == [s EXCEPT !.skid = @ \o s.insts, !.insts = <<>>]

\* (Mutant: rename is never told.)
BlockSilently(s) == [SkidInsert(s) EXCEPT !.status = "Blocked"]
Block(s) ==
  [SkidInsert(s) EXCEPT !.block = @ \/ s.status \notin {"Blocked", "Unblocking"},
                        !.status = "Blocked"]

\* (Mutant: rename may go on as soon as dispatch does.)
UnblockAtOnce(s) == [s EXCEPT !.unblock = TRUE, !.status = "Running"]
Unblock(s) ==
  IF s.skid = <<>> THEN [s EXCEPT !.unblock = TRUE, !.status = "Running"] ELSE s

\* Instructions thrown away are reported as dispatched.
EmptyRenameInsts(s) == [s EXCEPT !.returned = @ \o s.insts, !.insts = <<>>]
\* (Mutant: what was in the skid buffer is not reported.)
SquashUnreported(s) == EmptyRenameInsts([s EXCEPT !.skid = <<>>])
Squash(s) == EmptyRenameInsts([s EXCEPT !.returned = @ \o s.skid, !.skid = <<>>])

\* (Mutant: rename is not told that the block is over.)
SquashedSilently(s) == [Squash(s) EXCEPT !.status = "Squashing"]
Squashed(s) ==
  [Squash(s) EXCEPT !.unblock = s.status \in {"Blocked", "Unblocking"},
                    !.status = "Squashing"]

\* (Mutant: a block is not looked at again.)
CheckSignalsOnce(s) ==
  CASE commit = "squash"    -> Squashed(s)
    [] commit = "squashing" -> Block(EmptyRenameInsts([s EXCEPT !.status = "Squashing"]))
    [] OTHER -> IF s.used["IQ"] = Size["IQ"] THEN Block(s)
                ELSE IF s.status = "Squashing" THEN [s EXCEPT !.status = "Running"] ELSE s
CheckSignalsAndUpdate(s) ==
  CASE commit = "squash"    -> Squashed(s)
    [] commit = "squashing" -> Block(EmptyRenameInsts([s EXCEPT !.status = "Squashing"]))
    [] commit = "none" /\ s.used["IQ"] = Size["IQ"] -> Block(s)
    [] OTHER ->
         CASE s.status = "Blocked"   -> Unblock([s EXCEPT !.status = "Unblocking"])
           [] s.status = "Squashing" -> [s EXCEPT !.status = "Running"]
           [] OTHER                  -> s

\* dispatchInsts inserts a prefix of the instructions: squashed ones are dropped, the
\* others need an entry in their queues; the rest waits in the skid buffer.
UsedAfter(s, insts, n) ==
  [q \in Queues |-> s.used[q] +
     Cardinality({i \in 1 .. n : ~insts[i].squashed /\ q \in Needs(insts[i].kind)})]
\* (Mutant: the memory queues are not asked.)
HasRoomInIQ(s, insts, n) ==
  insts[n].squashed \/ UsedAfter(s, insts, n - 1)["IQ"] < Size["IQ"]
HasRoom(s, insts, n) ==
  \/ insts[n].squashed
  \/ \A q \in Counted(insts[n].kind) : UsedAfter(s, insts, n - 1)[q] < Size[q]
Dispatchable(s, insts) ==
  Cardinality({n \in 1 .. Len(insts) :
    n <= DispatchWidth /\ \A k \in 1 .. n : HasRoom(s, insts, k)})

DispatchInsts(s) ==
  LET skidded == s.status = "Unblocking"
      insts == IF skidded THEN s.skid ELSE s.insts
      n     == Dispatchable(s, insts)
      rest  == SubSeq(insts, n + 1, Len(insts))
      p == [s EXCEPT !.used = UsedAfter(s, insts, n),
                     !.returned = @ \o SubSeq(insts, 1, n),
                     !.skid  = IF skidded THEN rest ELSE @,
                     !.insts = IF skidded THEN @ ELSE rest]
  IN IF rest = <<>> THEN p ELSE [Block(p) EXCEPT !.unblock = FALSE]

DispatchStage(s) ==
  CASE s.status = "Running"    -> DispatchInsts(s)
    [] s.status = "Unblocking" -> Unblock(SkidInsert(DispatchInsts(s)))
    [] OTHER                   -> s

AfterDispatch == DispatchStage(CheckSignalsAndUpdate(Start))

\* frees: queues in which an entry is freed in this cycle, by issue, commit or a
\* squash, one in each (a bound).  executed: instructions execute.
IEWTick ==
  \E s \in {AfterDispatch} :
    /\ status' = s.status /\ skid' = s.skid
    /\ lost' = (lost \/ ( /\ commit = "squashing"
                          /\ \E i \in DOMAIN Arriving : ~Arriving[i].squashed ))
    /\ \E frees \in SUBSET {q \in Queues : s.used[q] > 0},
          executed \in IF used = NoCounts THEN {FALSE} ELSE BOOLEAN :
         /\ used' = [q \in Queues |-> IF q \in frees THEN s.used[q] - 1 ELSE s.used[q]]
         /\ freed' = frees
         /\ back' = [i \in 1 .. IEWToRenameDelay |->
              IF i < IEWToRenameDelay THEN back[i + 1]
              ELSE [block |-> s.block, unblock |-> s.unblock,
                    dispatched |-> Counts(s.returned),
                    free |-> IF commit = "squash" \/ executed \/ freed # {}
                             THEN {[q \in Queues |-> Size[q] - used'[q]]} ELSE {}]]

-----------------------------------------------------------------------------
(* Rename and commit *)

Batches == UNION {[1 .. n -> Kinds] : n \in 0 .. RenameWidth}
KindCounts(batch) ==
  [q \in Queues |-> Cardinality({i \in DOMAIN batch : q \in Counted(batch[i])})]

\* Rename reads the signals, in this order, and sends what it may.
RenameTick(batch) ==
  LET sig == back[1]
      count == [q \in Queues |-> inProgress[q] - sig.dispatched[q]]
  IN /\ stalled' = ((stalled \/ sig.block) /\ ~sig.unblock)
     /\ told' = IF sig.free = {} THEN told ELSE CHOOSE f \in sig.free : TRUE
     /\ refill' = IF commit = "squash" THEN RefillDelay
                  ELSE IF refill > 0 THEN refill - 1 ELSE 0
     /\ batch # <<>> => /\ ~stalled' /\ commit # "squash" /\ refill = 0
                        /\ \A q \in Queues : KindCounts(batch)[q] <= told'[q] - count[q]
     /\ inProgress' = [q \in Queues |-> count[q] + KindCounts(batch)[q]]
     /\ wire' = [i \in 1 .. RenameToIEWDelay |->
          IF i < RenameToIEWDelay THEN wire[i + 1] ELSE batch]

\* A squash is signalled once; the ROB may need more cycles to squash.  Everything
\* rename has sent by then is younger than what caused it.
CommitTick ==
  /\ commit' \in CASE commit = "none" -> {"none", "squash"}
                   [] OTHER -> {"none", "squash", "squashing"}
  /\ doomed' = IF commit' = "squash" THEN RenameToIEWDelay
               ELSE IF doomed > 0 THEN doomed - 1 ELSE 0

Next ==
  /\ IEWTick
  /\ \E batch \in Batches : RenameTick(batch)
  /\ CommitTick

Spec == Init /\ [][Next]_vars
=============================================================================
