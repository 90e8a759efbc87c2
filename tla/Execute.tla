------------------------------ MODULE Execute ------------------------------
(***************************************************************************)
(* The execute half of the IEW stage of the out-of-order CPU, for the      *)
(* instructions of a thread in a window: the redirects a cycle finds and   *)
(* the one it signals, the writeback slots towards commit, and the mark a  *)
(* full memory barrier leaves on the access that is executed after it.     *)
(*                                                                         *)
(* Instructions are named by their sequence numbers.  The instruction      *)
(* queue issues them in any order that respects barriers; the LSQUnit, the *)
(* MMU, the memory and commit, which are not in the repository, do what    *)
(* the calls of IEW require of them.                                       *)
(***************************************************************************)
EXTENDS Integers, FiniteSets

CONSTANTS
  N,           \* instructions of the window
  Kinds,       \* kinds of instruction
  IssueWidth, WbWidth,
  Depth        \* cycles the queue to commit reaches ahead

ASSUME ExecuteAssumption ==
  /\ {N, IssueWidth, WbWidth, Depth} \subseteq Nat \ {0}
  /\ Kinds \subseteq {"branch", "load", "store", "fence"}
  /\ Depth * WbWidth >= 2 * N

Insts == 1 .. N
Slots == 0 .. Depth * WbWidth - 1

VARIABLES
  kind,      \* what each instruction is
  at,        \* where it is
  squashed,  \* squashed instructions
  doomed,    \* those whose squash is on its way to commit and back
  ticking,   \* IEW is in its tick; other events come between ticks
  fetchRedirect,
  toCommit,  \* the squash this cycle signals: [on, seq, include]
  wbActual,  \* wbCycle * wbWidth + wbNumInst
  iewQueue,  \* the instructions in the slots towards commit, 0 for none
  memoryBarrierExecuted,
  requested, \* accesses that have their LSQRequest
  marked,    \* those created with memBarrierExecutedBefore
  sent,      \* accesses that reached the memory
  wanted,    \* history: redirects found in this cycle
  unseen,    \* history: instructions commit got before writebackInsts saw them
  handed,    \* history: how often each instruction was given to commit
  unfenced   \* history: an access passed a barrier without its mark

barrierVars == <<memoryBarrierExecuted, requested, marked, sent, unfenced>>
slotVars == <<wbActual, iewQueue, handed>>
squashVars == <<fetchRedirect, toCommit, wanted, doomed>>
vars == <<kind, at, squashed, ticking, squashVars, slotVars, unseen, barrierVars>>

NoSquash == [on |-> FALSE, seq |-> 0, include |-> FALSE]
MemRef(i) == kind[i] \in {"load", "store"}

Init ==
  /\ kind \in [Insts -> Kinds]
  /\ at = [i \in Insts |-> "queue"] /\ squashed = {} /\ doomed = {} /\ ticking = FALSE
  /\ fetchRedirect = FALSE /\ toCommit = NoSquash /\ wanted = {}
  /\ wbActual = 0 /\ iewQueue = [p \in Slots |-> 0] /\ handed = [i \in Insts |-> 0]
  /\ unseen = {}
  /\ memoryBarrierExecuted = FALSE /\ requested = {} /\ marked = {} /\ sent = {} /\ unfenced = FALSE

-----------------------------------------------------------------------------
(* Redirects *)

SquashDueToBranch(s, i) ==
  IF ~s.on \/ i < s.seq THEN [on |-> TRUE, seq |-> i, include |-> FALSE] ELSE s

\* The violator is squashed too, hence "<=".  (Mutant: "<".)
SquashOlderViolator(s, v) ==
  IF ~s.on \/ v < s.seq THEN [on |-> TRUE, seq |-> v, include |-> TRUE] ELSE s
SquashDueToMemOrder(s, v) ==
  IF ~s.on \/ v <= s.seq THEN [on |-> TRUE, seq |-> v, include |-> TRUE] ELSE s

\* Whether instruction i is looked at for a redirect.  (Mutant: only one redirect is
\* taken in a cycle.)
FirstRedirect(i) == ~fetchRedirect
MayRedirect(i) == ~fetchRedirect \/ ~toCommit.on \/ toCommit.seq > i

\* Instruction i was mispredicted, or found that load v, 0 for none, was too early.
Redirect(i, mispredicted, v) ==
  /\ wanted' = wanted \cup (IF mispredicted THEN {[seq |-> i, include |-> FALSE]} ELSE {})
                      \cup (IF v # 0 THEN {[seq |-> v, include |-> TRUE]} ELSE {})
  /\ IF MayRedirect(i) /\ (mispredicted \/ v # 0)
       THEN /\ fetchRedirect' = TRUE
            /\ toCommit' = IF mispredicted THEN SquashDueToBranch(toCommit, i)
                                           ELSE SquashDueToMemOrder(toCommit, v)
       ELSE UNCHANGED <<fetchRedirect, toCommit>>
  /\ UNCHANGED doomed

-----------------------------------------------------------------------------
(* Slots towards commit *)

\* instToCommit: the first free slot from where the last one was found.  (Mutant: the
\* slot where the last one was found.)
LastSlot == wbActual
FreeSlot == CHOOSE p \in Slots : /\ p >= wbActual /\ iewQueue[p] = 0
                                 /\ \A r \in wbActual .. p - 1 : iewQueue[r] # 0
InstToCommit(i) ==
  /\ iewQueue' = [iewQueue EXCEPT ![FreeSlot] = i]
  /\ wbActual' = FreeSlot
  /\ handed' = [handed EXCEPT ![i] = @ + 1]

-----------------------------------------------------------------------------
(* Memory *)

\* A barrier is due when no access after it has reached the memory yet.
Due == \E f \in Insts : /\ kind[f] = "fence" /\ f \notin squashed \cup doomed
                        /\ at[f] \in {"handed", "done"}
                        /\ \A j \in sent : j < f
Send(i, marks) ==
  /\ sent' = sent \cup {i}
  /\ unfenced' = (unfenced \/ (Due /\ i \notin marks))

\* Each barrier marks the access executed after it.  (Mutant: and those after that.)
\* The request the access makes keeps the mark, however often it executes.
Mark(i) ==
  /\ marked' = IF memoryBarrierExecuted /\ i \notin requested THEN marked \cup {i} ELSE marked
  /\ requested' = requested \cup {i}
MarkAll(i)  == Mark(i) /\ UNCHANGED memoryBarrierExecuted
MarkNext(i) == Mark(i) /\ memoryBarrierExecuted' = FALSE

-----------------------------------------------------------------------------
(* The tick: executeInsts, one instruction at a time, and writebackInsts. *)

StartTick ==
  /\ ~ticking /\ ticking' = TRUE
  /\ fetchRedirect' = FALSE /\ wbActual' = 0
  /\ UNCHANGED <<kind, at, squashed, doomed, toCommit, wanted, iewQueue, handed, unseen, barrierVars>>

Executing(i) == ticking /\ at[i] = "issued"
Move(i, place) == at' = [at EXCEPT ![i] = place]

\* A squashed instruction is skipped; if it is a barrier, it counts as executed.
SkipSquashed(i) ==
  /\ Executing(i) /\ i \in squashed
  /\ Move(i, "dropped")
  /\ memoryBarrierExecuted' = (memoryBarrierExecuted \/ kind[i] = "fence")
  /\ UNCHANGED <<kind, squashed, ticking, squashVars, slotVars, unseen, requested, marked, sent, unfenced>>

ExecuteOther(i) ==
  /\ Executing(i) /\ i \notin squashed /\ ~MemRef(i)
  /\ Move(i, "handed")
  /\ memoryBarrierExecuted' = (memoryBarrierExecuted \/ kind[i] = "fence")
  /\ InstToCommit(i)
  /\ \E mispredicted \in IF kind[i] = "branch" THEN BOOLEAN ELSE {FALSE} :
       Redirect(i, mispredicted, 0)
  /\ UNCHANGED <<kind, squashed, ticking, unseen, requested, marked, sent, unfenced>>

\* Younger loads that are at the memory may turn out to have been too early.
Violators(i) == {0} \cup {v \in Insts : v > i /\ kind[v] = "load" /\ v \notin squashed
                                        /\ at[v] \in {"memory", "handed", "done"}}

\* The MMU walks: the access is deferred and executes again.
DeferMemInst(i) ==
  /\ Executing(i) /\ i \notin squashed /\ MemRef(i)
  /\ Move(i, "deferred")
  /\ MarkNext(i)
  /\ UNCHANGED <<kind, squashed, ticking, squashVars, slotVars, unseen, sent, unfenced>>

\* A load goes to the memory and writes back when it answers.
ExecuteLoad(i) ==
  /\ Executing(i) /\ i \notin squashed /\ kind[i] = "load"
  /\ Move(i, "memory")
  /\ MarkNext(i)
  /\ Send(i, marked')
  /\ \E v \in Violators(i) : Redirect(i, FALSE, v)
  /\ UNCHANGED <<kind, squashed, ticking, slotVars, unseen>>

\* A store only needs commit.  (Mutant: it is given to commit and executes again.)
ExecuteStoreAgain(i) ==
  /\ Executing(i) /\ i \notin squashed /\ kind[i] = "store"
  /\ Move(i, "deferred")
  /\ MarkNext(i)
  /\ InstToCommit(i)
  /\ \E v \in Violators(i) : Redirect(i, FALSE, v)
  /\ UNCHANGED <<kind, squashed, ticking, unseen, sent, unfenced>>
ExecuteStore(i) ==
  /\ Executing(i) /\ i \notin squashed /\ kind[i] = "store"
  /\ Move(i, "handed")
  /\ MarkNext(i)
  /\ InstToCommit(i)
  /\ \E v \in Violators(i) : Redirect(i, FALSE, v)
  /\ UNCHANGED <<kind, squashed, ticking, unseen, sent, unfenced>>

\* writebackInsts looks at the slots of this cycle up to the first free one; then the
\* queue advances and commit has them all.
WritebackInsts ==
  LET mine == {iewQueue[p] : p \in 0 .. WbWidth - 1} \ {0}
      seen == {iewQueue[p] : p \in {q \in 0 .. WbWidth - 1 : \A r \in 0 .. q : iewQueue[r] # 0}}
  IN /\ unseen' = unseen \cup (mine \ seen)
     /\ iewQueue' = [p \in Slots |-> IF p + WbWidth \in Slots THEN iewQueue[p + WbWidth] ELSE 0]
     /\ at' = [i \in Insts |-> IF i \in mine THEN "done" ELSE at[i]]

\* executeInsts leaves wbCycle and resets wbNumInst.  (Mutant: it leaves both.)
KeepSlot(p) == p
ResetSlot(p) == (p \div WbWidth) * WbWidth

\* Commit squashes what is younger than the squash it is sent, and IEW hears of it
\* a tick later or after more.
SquashedBy(s) == {i \in Insts : s.on /\ (i > s.seq \/ (i = s.seq /\ s.include))}

EndTick ==
  /\ ticking /\ \A i \in Insts : at[i] # "issued"
  /\ WritebackInsts
  /\ wbActual' = ResetSlot(wbActual)
  /\ doomed' = doomed \cup SquashedBy(toCommit)
  /\ toCommit' = NoSquash /\ wanted' = {} /\ ticking' = FALSE
  /\ UNCHANGED <<kind, squashed, fetchRedirect, handed, barrierVars>>

-----------------------------------------------------------------------------
(* Between ticks *)

\* The squash of commit arrives, before the next tick looks at what was issued.
CommitSquash ==
  /\ ~ticking /\ doomed # {}
  /\ squashed' = squashed \cup doomed /\ doomed' = {}
  /\ UNCHANGED <<kind, at, ticking, fetchRedirect, toCommit, wanted, slotVars, unseen, barrierVars>>

\* The instruction queue: barriers wait until they are the oldest and the stores
\* before them are written; accesses wait for the barriers before them.
Issue(i) ==
  /\ ~ticking /\ at[i] = "queue" /\ i \notin squashed
  /\ Cardinality({j \in Insts : at[j] = "issued"}) < IssueWidth
  /\ \A j \in 1 .. i - 1 : j \notin squashed =>
       IF kind[i] = "fence" THEN at[j] = "done" /\ (kind[j] = "store" => j \in sent)
       ELSE MemRef(i) => kind[j] # "fence" \/ at[j] = "done"
  /\ Move(i, "issued")
  /\ UNCHANGED <<kind, squashed, ticking, squashVars, slotVars, unseen, barrierVars>>

\* The walk of a deferred access is over.
TranslationDone(i) ==
  /\ ~ticking /\ at[i] = "deferred"
  /\ Move(i, IF i \in squashed THEN "dropped" ELSE "queue")
  /\ UNCHANGED <<kind, squashed, ticking, squashVars, slotVars, unseen, barrierVars>>

\* The memory answers a load: instToCommit and checkMisprediction.
LoadWriteback(i) ==
  /\ ~ticking /\ at[i] = "memory"
  /\ IF i \in squashed
       THEN Move(i, "dropped") /\ UNCHANGED <<squashVars, slotVars>>
       ELSE /\ Move(i, "handed")
            /\ InstToCommit(i)
            /\ \E mispredicted \in BOOLEAN : Redirect(i, mispredicted, 0)
  /\ UNCHANGED <<kind, squashed, ticking, unseen, barrierVars>>

\* A store is sent when it and all before it are committed.
SendStore(i) ==
  /\ ~ticking /\ kind[i] = "store" /\ i \notin squashed \cup doomed \cup sent
  /\ \A j \in 1 .. i : j \notin squashed \cup doomed => at[j] = "done"
  /\ Send(i, marked)
  /\ UNCHANGED <<kind, at, squashed, ticking, squashVars, slotVars, unseen,
                 memoryBarrierExecuted, marked, requested>>

-----------------------------------------------------------------------------

Next ==
  \/ StartTick \/ EndTick \/ CommitSquash
  \/ \E i \in Insts :
       \/ SkipSquashed(i) \/ ExecuteOther(i)
       \/ DeferMemInst(i) \/ ExecuteLoad(i) \/ ExecuteStore(i)
       \/ Issue(i) \/ TranslationDone(i) \/ LoadWriteback(i) \/ SendStore(i)

Spec == Init /\ [][Next]_vars

\* Ticks begin and end and the instructions in them execute; the queue issues what
\* is ready, the MMU and the memory answer.
Fairness ==
  /\ WF_vars(StartTick) /\ WF_vars(EndTick) /\ WF_vars(CommitSquash)
  /\ \A i \in Insts :
       /\ WF_vars(SkipSquashed(i)) /\ WF_vars(ExecuteOther(i))
       /\ SF_vars(ExecuteLoad(i)) /\ SF_vars(ExecuteStore(i)) /\ SF_vars(Issue(i))
       /\ SF_vars(TranslationDone(i)) /\ SF_vars(LoadWriteback(i)) /\ SF_vars(SendStore(i))

FairSpec == Spec /\ Fairness

-----------------------------------------------------------------------------
(* Properties *)

TypeOK ==
  /\ kind \in [Insts -> Kinds]
  /\ at \in [Insts -> {"queue", "issued", "deferred", "memory", "handed", "done", "dropped"}]
  /\ {squashed, doomed, marked, requested, sent, unseen} \subseteq SUBSET Insts
  /\ {ticking, fetchRedirect, memoryBarrierExecuted, unfenced} \subseteq BOOLEAN
  /\ toCommit \in [on : BOOLEAN, seq : 0 .. N, include : BOOLEAN]
  /\ wanted \subseteq [seq : Insts, include : BOOLEAN]
  /\ wbActual \in Slots /\ iewQueue \in [Slots -> 0 .. N]
  /\ handed \in [Insts -> 0 .. 1]

\* The one squash a cycle signals takes away what the redirects found in the cycle
\* ask for and no more, in whatever order the instructions executed and answered.
SquashExact ==
  SquashedBy(toCommit) =
    UNION {SquashedBy([on |-> TRUE, seq |-> w.seq, include |-> w.include]) : w \in wanted}

\* Commit gets no instruction whose dependents writebackInsts has not woken.
WokenBeforeCommit == unseen = {}

\* An instruction is in one slot at most, once, from when it is handed over until
\* commit has it.
HandedOnce ==
  \A i \in Insts :
    /\ Cardinality({p \in Slots : iewQueue[p] = i}) = (IF at[i] = "handed" THEN 1 ELSE 0)
    /\ handed[i] = (IF at[i] \in {"handed", "done"} THEN 1 ELSE 0)

\* A barrier marks one access at most.
OneMarkPerBarrier ==
  Cardinality(marked) <=
    Cardinality({f \in Insts : kind[f] = "fence" /\ at[f] \in {"handed", "done", "dropped"}})

\* The first access that reaches the memory after a barrier carries its mark.
BarrierReachesMemory == ~unfenced

\* Every instruction ends: it is squashed or commit has it.
AllEnd == <>[](\A i \in Insts : i \in squashed \/ at[i] = "done")
=============================================================================
