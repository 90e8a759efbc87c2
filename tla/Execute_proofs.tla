--------------------------- MODULE Execute_proofs ---------------------------
(***************************************************************************)
(* Proofs about the execute half of IEW, for every number of instructions, *)
(* every width and every order of execution: the squash a cycle signals is *)
(* the one its redirects ask for, commit gets an instruction once and not  *)
(* before those that depend on it are woken, and a barrier marks one       *)
(* access.                                                                 *)
(*                                                                         *)
(* The invariant has four parts, each kept by every step with the help of  *)
(* the first alone: types, redirects, slots towards commit, and marks.     *)
(***************************************************************************)
EXTENDS Execute, TLAPS, NaturalsInduction, WellFoundedInduction, FiniteSetTheorems

Places == {"queue", "issued", "deferred", "memory", "handed", "done", "dropped"}

PlacesInv ==
  /\ kind \in [Insts -> Kinds] /\ at \in [Insts -> Places]
  /\ squashed \subseteq Insts /\ doomed \subseteq Insts
  /\ marked \subseteq Insts /\ requested \subseteq Insts /\ sent \subseteq Insts
  /\ ticking \in BOOLEAN /\ memoryBarrierExecuted \in BOOLEAN
  /\ fetchRedirect \in BOOLEAN /\ unfenced \in BOOLEAN

\* The squash covers the redirects that were found.
RedirectInv ==
  /\ toCommit \in [on : BOOLEAN, seq : 0 .. N, include : BOOLEAN]
  /\ wanted \subseteq [seq : Insts, include : BOOLEAN]
  /\ SquashExact

\* An instruction that is handed over is in one slot.
OneSlotEach ==
  /\ \A p, r \in Slots : iewQueue[p] = iewQueue[r] /\ iewQueue[p] # 0 => p = r
  /\ \A i \in Insts : at[i] = "handed" <=> \E p \in Slots : iewQueue[p] = i
  /\ handed = [i \in Insts |-> IF at[i] \in {"handed", "done"} THEN 1 ELSE 0]

\* The slots of a cycle are taken from the first one on.
SameCycle(p, r) == p \div WbWidth = r \div WbWidth
Filled(p) == \A r \in 0 .. p - 1 : SameCycle(r, p) => iewQueue[r] # 0
NoGaps == Filled(wbActual) /\ \A p \in Slots : iewQueue[p] # 0 => Filled(p)

\* The search for a free slot begins where the last one was found: what is before has
\* been taken since the tick began, or since it ended, N slots from the first at most.
Room == \E b \in 0 .. N : /\ ticking => b = 0
                          /\ \A p \in b .. wbActual - 1 : iewQueue[p] # 0

SlotInv ==
  /\ wbActual \in Slots /\ iewQueue \in [Slots -> 0 .. N]
  /\ OneSlotEach /\ NoGaps /\ Room /\ WokenBeforeCommit

\* A barrier that was executed has left its mark, or is about to.
Passed == {f \in Insts : kind[f] = "fence" /\ at[f] \in {"handed", "done", "dropped"}}
MarkInv ==
  Cardinality(marked) + (IF memoryBarrierExecuted THEN 1 ELSE 0) <= Cardinality(Passed)

IInv == PlacesInv /\ RedirectInv /\ SlotInv /\ MarkInv

-----------------------------------------------------------------------------
(* Numbers *)

\* The parameters are natural numbers, and the queue has two slots for each instruction.
LEMMA Sizes ==
  /\ N \in Nat \ {0} /\ WbWidth \in Nat \ {0} /\ Depth * WbWidth \in Nat
  /\ Depth * WbWidth >= 2 * N /\ Depth * WbWidth >= WbWidth
  /\ Slots = 0 .. Depth * WbWidth - 1
  BY ExecuteAssumption DEF Slots

\* A set of numbers that is not empty has a least element.
LEMMA Least ==
  ASSUME NEW S \in SUBSET Nat, S # {}
  PROVE  \E n \in S : \A m \in S : n <= m
<1> DEFINE R == OpToRel(<, Nat)
<1>1. IsWellFoundedOn(R, Nat)
  BY NatLessThanWellFounded
<1>2. \A x, y \in Nat : x < y => <<x, y>> \in R
  BY DEF OpToRel
<1> HIDE DEF R
<1>3. PICK x \in S : \A y \in S : ~(<<y, x>> \in R)
  BY <1>1, WFMin
<1>4. \A y \in S : ~(y < x)
  BY <1>2, <1>3
<1>5. \A y \in S : x <= y
  BY <1>4
<1> QED
  BY <1>5

\* The cycle a slot is in.
LEMMA DivFacts ==
  ASSUME NEW x \in Nat
  PROVE  /\ x \div WbWidth \in Nat
         /\ WbWidth * (x \div WbWidth) <= x /\ x < WbWidth * (x \div WbWidth) + WbWidth
  BY Sizes

\* It is the only one the slot lies in.
LEMMA DivUnique ==
  ASSUME NEW x \in Nat, NEW q \in Nat, WbWidth * q <= x, x < WbWidth * q + WbWidth
  PROVE  x \div WbWidth = q
<1> DEFINE d == x \div WbWidth
<1>1. d \in Nat /\ WbWidth * d <= x /\ x < WbWidth * d + WbWidth
  BY DivFacts
<1> HIDE DEF d
<1>2. WbWidth \in Nat \ {0}
  BY Sizes
<1>3. CASE d < q
  <2>1. WbWidth * (d + 1) <= WbWidth * q
    BY <1>1, <1>2, <1>3
  <2>2. WbWidth * (d + 1) = WbWidth * d + WbWidth
    BY <1>1, <1>2
  <2> QED
    BY <1>1, <1>2, <2>1, <2>2
<1>4. CASE q < d
  <2>1. WbWidth * (q + 1) <= WbWidth * d
    BY <1>1, <1>2, <1>4
  <2>2. WbWidth * (q + 1) = WbWidth * q + WbWidth
    BY <1>2
  <2> QED
    BY <1>1, <1>2, <2>1, <2>2
<1> QED
  BY <1>1, <1>3, <1>4 DEF d

\* A slot between two of a cycle is of that cycle.
LEMMA Between ==
  ASSUME NEW x \in Nat, NEW y \in Nat, NEW z \in Nat, x <= y, y <= z, SameCycle(x, z)
  PROVE  SameCycle(x, y) /\ SameCycle(y, z)
<1> DEFINE q == x \div WbWidth
<1>1. q \in Nat /\ WbWidth * q <= x /\ z < WbWidth * q + WbWidth /\ z \div WbWidth = q
  BY DivFacts DEF SameCycle
<1> HIDE DEF q
<1>2. WbWidth \in Nat
  BY Sizes
<1>3. WbWidth * q \in Nat
  BY <1>1, <1>2
<1>4. WbWidth * q <= y /\ y < WbWidth * q + WbWidth
  BY <1>1, <1>2, <1>3
<1>5. y \div WbWidth = q
  BY <1>1, <1>4, DivUnique
<1> QED
  BY <1>5 DEF SameCycle, q

\* Slots move on by a cycle.
LEMMA Shifted ==
  ASSUME NEW x \in Nat, NEW y \in Nat, SameCycle(x, y)
  PROVE  SameCycle(x + WbWidth, y + WbWidth)
<1>1. ASSUME NEW z \in Nat
      PROVE  (z + WbWidth) \div WbWidth = (z \div WbWidth) + 1
  <2> DEFINE q == z \div WbWidth
  <2>1. q \in Nat /\ WbWidth * q <= z /\ z < WbWidth * q + WbWidth
    BY DivFacts
  <2> HIDE DEF q
  <2>2. WbWidth \in Nat
    BY Sizes
  <2>3. WbWidth * (q + 1) = WbWidth * q + WbWidth /\ WbWidth * q \in Nat
    BY <2>1, <2>2
  <2>4. (z + WbWidth) \div WbWidth = q + 1
    BY <2>1, <2>2, <2>3, DivUnique
  <2> QED
    BY <2>4 DEF q
<1> QED
  BY <1>1 DEF SameCycle

\* The first slot of a cycle has none of its cycle before it.
LEMMA CycleStart ==
  ASSUME NEW x \in Nat
  PROVE  /\ ResetSlot(x) \in Nat /\ ResetSlot(x) <= x
         /\ \A r \in 0 .. ResetSlot(x) - 1 : ~SameCycle(r, ResetSlot(x))
<1> DEFINE q == x \div WbWidth
<1>1. q \in Nat /\ WbWidth * q <= x
  BY DivFacts
<1> HIDE DEF q
<1>2. WbWidth \in Nat \ {0}
  BY Sizes
<1>3. ResetSlot(x) = WbWidth * q
  BY <1>1, <1>2 DEF ResetSlot, q
<1>4. WbWidth * q \in Nat
  BY <1>1, <1>2
<1>5. (WbWidth * q) \div WbWidth = q
  BY <1>1, <1>2, <1>4, DivUnique
<1>6. ASSUME NEW r \in 0 .. WbWidth * q - 1, r \div WbWidth = q
      PROVE  FALSE
  <2>1. r \in Nat /\ r < WbWidth * q
    BY <1>4
  <2>2. WbWidth * (r \div WbWidth) <= r
    BY <2>1, DivFacts
  <2> QED
    BY <1>4, <1>6, <2>1, <2>2
<1> QED
  BY <1>1, <1>3, <1>4, <1>5, <1>6 DEF SameCycle

-----------------------------------------------------------------------------
(* Places *)

\* One instruction goes to another place.
LEMMA MoveOne ==
  ASSUME PlacesInv, NEW i \in Insts, NEW place \in Places, Move(i, place)
  PROVE  /\ at' \in [Insts -> Places] /\ at'[i] = place
         /\ \A j \in Insts \ {i} : at'[j] = at[j]
  BY DEF PlacesInv, Move

\* An access that is sent is one of the window.
LEMMA Sends ==
  ASSUME PlacesInv, NEW i \in Insts, NEW marks, Send(i, marks)
  PROVE  sent' \subseteq Insts /\ unfenced' \in BOOLEAN
<1>1. sent' \subseteq Insts
  BY DEF PlacesInv, Send
<1>2. unfenced' = TRUE \/ unfenced' = FALSE
  BY Zenon DEF Send
<1> QED
  BY <1>1, <1>2

\* Every step keeps the types that the other parts rest on.
LEMMA PlacesKeep == PlacesInv /\ [Next]_vars => PlacesInv'
<1> SUFFICES ASSUME PlacesInv, [Next]_vars PROVE PlacesInv'
  OBVIOUS
<1> USE DEF PlacesInv, Places, barrierVars, slotVars, squashVars
<1>1. CASE StartTick
  BY <1>1 DEF StartTick
<1>2. CASE EndTick
  <2>1. at' \in [Insts -> Places]
    BY <1>2 DEF EndTick, WritebackInsts
  <2>2. doomed' \subseteq Insts
    BY <1>2 DEF EndTick, SquashedBy
  <2> QED
    BY <1>2, <2>1, <2>2 DEF EndTick
<1>3. CASE CommitSquash
  BY <1>3 DEF CommitSquash
<1>4. ASSUME NEW i \in Insts, SkipSquashed(i) PROVE PlacesInv'
  BY <1>4 DEF SkipSquashed, Move
<1>5. ASSUME NEW i \in Insts, ExecuteOther(i) PROVE PlacesInv'
  BY <1>5 DEF ExecuteOther, Move, Redirect
<1>6. ASSUME NEW i \in Insts, DeferMemInst(i) \/ ExecuteLoad(i) \/ ExecuteStore(i)
      PROVE PlacesInv'
  <2>1. Move(i, "deferred") \/ Move(i, "memory") \/ Move(i, "handed")
    BY <1>6 DEF DeferMemInst, ExecuteLoad, ExecuteStore
  <2>2. /\ MarkNext(i) /\ UNCHANGED <<kind, squashed, ticking, doomed>>
        /\ fetchRedirect' \in BOOLEAN
    BY <1>6 DEF DeferMemInst, ExecuteLoad, ExecuteStore, Redirect
  <2>3. sent' \subseteq Insts /\ unfenced' \in BOOLEAN
    BY <1>6, Sends DEF DeferMemInst, ExecuteLoad, ExecuteStore
  <2> QED
    BY <2>1, <2>2, <2>3 DEF Move, MarkNext, Mark
<1>7. ASSUME NEW i \in Insts, Issue(i) \/ TranslationDone(i) PROVE PlacesInv'
  BY <1>7 DEF Issue, TranslationDone, Move
<1>8. ASSUME NEW i \in Insts, LoadWriteback(i) PROVE PlacesInv'
  BY <1>8 DEF LoadWriteback, Move, Redirect
<1>9. ASSUME NEW i \in Insts, SendStore(i) PROVE PlacesInv'
  BY <1>9, Sends DEF SendStore
<1>10. CASE UNCHANGED vars
  BY <1>10 DEF vars
<1> QED
  BY <1>1, <1>2, <1>3, <1>4, <1>5, <1>6, <1>7, <1>8, <1>9, <1>10 DEF Next

-----------------------------------------------------------------------------
(* Redirects *)

Squashes == [on : BOOLEAN, seq : 0 .. N, include : BOOLEAN]

\* What a redirect asks to be squashed.
Asked(w) == SquashedBy([on |-> TRUE, seq |-> w.seq, include |-> w.include])

\* What the squash of a cycle takes away after one more redirect, looked at or not, is
\* what it took before and what the redirect asks for.
LEMMA OneMoreRedirect ==
  ASSUME NEW s \in Squashes, NEW t \in Squashes, NEW w \in [seq : Insts, include : BOOLEAN],
         \/ t = [on |-> TRUE, seq |-> w.seq, include |-> w.include] /\ ~s.on
         \/ t = [on |-> TRUE, seq |-> w.seq, include |-> FALSE] /\ ~w.include /\ w.seq < s.seq
         \/ t = [on |-> TRUE, seq |-> w.seq, include |-> TRUE] /\ w.include /\ w.seq <= s.seq
         \/ t = s /\ s.on /\ w.include /\ s.seq < w.seq
         \/ t = s /\ s.on /\ ~w.include /\ s.seq <= w.seq
  PROVE  SquashedBy(t) = SquashedBy(s) \cup Asked(w)
<1>1. N \in Nat /\ Insts \subseteq Nat /\ w.seq \in Nat /\ s.seq \in Nat
  BY Sizes DEF Insts, Squashes
<1>2. ASSUME NEW j \in Insts
      PROVE  j \in SquashedBy(t) <=> j \in SquashedBy(s) \/ j \in Asked(w)
  <2>1. j \in Nat
    BY <1>1
  <2>2. j \in Asked(w) <=> j > w.seq \/ (j = w.seq /\ w.include)
    BY DEF Asked, SquashedBy
  <2>3. j \in SquashedBy(s) <=> s.on /\ (j > s.seq \/ (j = s.seq /\ s.include))
    BY DEF SquashedBy
  <2>4. j \in SquashedBy(t) <=> t.on /\ (j > t.seq \/ (j = t.seq /\ t.include))
    BY DEF SquashedBy
  <2> QED
    BY <1>1, <2>1, <2>2, <2>3, <2>4
<1>3. SquashedBy(t) \subseteq Insts /\ SquashedBy(s) \subseteq Insts /\ Asked(w) \subseteq Insts
  BY DEF SquashedBy, Asked
<1> QED
  BY <1>2, <1>3

\* The squash of the cycle and what was asked for grow together.
LEMMA RedirectTaken ==
  ASSUME RedirectInv, NEW w \in [seq : Insts, include : BOOLEAN], wanted' = wanted \cup {w},
         toCommit' \in Squashes, SquashedBy(toCommit') = SquashedBy(toCommit) \cup Asked(w)
  PROVE  RedirectInv'
<1>1. SquashedBy(toCommit) = UNION {Asked(x) : x \in wanted}
  BY DEF RedirectInv, SquashExact, Asked
<1>2. SquashedBy(toCommit') = UNION {Asked(x) : x \in wanted'}
  BY <1>1
<1>3. SquashExact'
  BY <1>2 DEF SquashExact, Asked
<1> QED
  BY <1>3 DEF RedirectInv, Squashes

\* An instruction that executes, or a load that is answered, may redirect.
LEMMA RedirectKeeps ==
  ASSUME RedirectInv, NEW i \in Insts, NEW mispredicted \in BOOLEAN, NEW v \in Insts \cup {0},
         v # 0 => ~mispredicted /\ v > i, Redirect(i, mispredicted, v)
  PROVE  RedirectInv'
<1>1. N \in Nat /\ Insts = 1 .. N /\ toCommit \in Squashes
  BY Sizes DEF Insts, RedirectInv, Squashes
<1>2. CASE ~mispredicted /\ v = 0
  BY <1>2 DEF Redirect, RedirectInv, SquashExact
<1>3. CASE mispredicted \/ v # 0
  <2> DEFINE w == IF mispredicted THEN [seq |-> i, include |-> FALSE]
                  ELSE [seq |-> v, include |-> TRUE]
             t == IF ~MayRedirect(i) THEN toCommit
                  ELSE IF mispredicted THEN SquashDueToBranch(toCommit, i)
                  ELSE SquashDueToMemOrder(toCommit, v)
  <2>1. /\ w \in [seq : Insts, include : BOOLEAN]
        /\ wanted' = wanted \cup {w} /\ toCommit' = t
    BY <1>3 DEF Redirect
  <2>2. t \in Squashes /\ w.seq \in Nat /\ toCommit.seq \in Nat /\ i \in Nat
    BY <1>1, <1>3, <2>1 DEF Squashes, SquashDueToBranch, SquashDueToMemOrder
  <2>3. CASE mispredicted
    <3>1. w.seq = i /\ ~w.include
      BY <2>3
    <3>2. \/ t = [on |-> TRUE, seq |-> i, include |-> FALSE] /\ ~toCommit.on
          \/ t = [on |-> TRUE, seq |-> i, include |-> FALSE] /\ i < toCommit.seq
          \/ t = toCommit /\ toCommit.on /\ toCommit.seq <= i
      BY <1>1, <2>2, <2>3 DEF MayRedirect, SquashDueToBranch
    <3> HIDE DEF t, w
    <3>4. \/ t = [on |-> TRUE, seq |-> w.seq, include |-> w.include] /\ ~toCommit.on
          \/ t = [on |-> TRUE, seq |-> w.seq, include |-> FALSE] /\ w.seq < toCommit.seq
          \/ t = toCommit /\ toCommit.on /\ toCommit.seq <= w.seq
      <4>1. w.include = FALSE
        BY <2>1, <3>1
      <4> QED
        BY <3>1, <3>2, <4>1
    <3>3. SquashedBy(t) = SquashedBy(toCommit) \cup Asked(w)
      BY <1>1, <2>1, <2>2, <3>1, <3>4, OneMoreRedirect
    <3> QED
      BY <2>1, <2>2, <3>3, RedirectTaken
  <2>4. CASE ~mispredicted
    <3>1. w.seq = v /\ w.include /\ v > i /\ v \in Nat
      BY <1>1, <1>3, <2>4
    <3>2. \/ t = [on |-> TRUE, seq |-> v, include |-> TRUE] /\ ~toCommit.on
          \/ t = [on |-> TRUE, seq |-> v, include |-> TRUE] /\ v <= toCommit.seq
          \/ t = toCommit /\ toCommit.on /\ toCommit.seq < v
      BY <1>1, <2>2, <2>4, <3>1 DEF MayRedirect, SquashDueToMemOrder
    <3> HIDE DEF t, w
    <3>3. SquashedBy(t) = SquashedBy(toCommit) \cup Asked(w)
      BY <1>1, <2>1, <2>2, <3>1, <3>2, OneMoreRedirect
    <3> QED
      BY <2>1, <2>2, <3>3, RedirectTaken
  <2> QED
    BY <2>3, <2>4
<1> QED
  BY <1>2, <1>3

\* Every step keeps the squash to what was asked for.
LEMMA RedirectsKeep == RedirectInv /\ [Next]_vars => RedirectInv'
<1> SUFFICES ASSUME RedirectInv, [Next]_vars PROVE RedirectInv'
  OBVIOUS
<1>1. ASSUME UNCHANGED <<toCommit, wanted>> PROVE RedirectInv'
  BY <1>1 DEF RedirectInv, SquashExact
<1>2. CASE EndTick
  <2>1. toCommit' = NoSquash /\ wanted' = {} /\ N \in Nat
    BY <1>2, Sizes DEF EndTick
  <2>2. SquashedBy(NoSquash) = {}
    BY DEF SquashedBy, NoSquash
  <2> QED
    BY <2>1, <2>2 DEF RedirectInv, SquashExact, NoSquash
<1>3. ASSUME NEW i \in Insts, ExecuteOther(i) \/ LoadWriteback(i) PROVE RedirectInv'
  <2>1. UNCHANGED <<toCommit, wanted>> \/ \E mispredicted \in BOOLEAN : Redirect(i, mispredicted, 0)
    BY <1>3 DEF ExecuteOther, LoadWriteback, squashVars
  <2>2. 0 \in Insts \cup {0}
    OBVIOUS
  <2> QED
    BY <1>1, <2>1, <2>2, RedirectKeeps
<1>4. ASSUME NEW i \in Insts, ExecuteLoad(i) \/ ExecuteStore(i) PROVE RedirectInv'
  <2>1. PICK v \in Violators(i) : Redirect(i, FALSE, v)
    BY <1>4 DEF ExecuteLoad, ExecuteStore
  <2>2. v \in Insts \cup {0} /\ (v # 0 => v > i)
    BY DEF Violators
  <2> QED
    BY <2>1, <2>2, RedirectKeeps
<1>5. CASE \/ StartTick \/ CommitSquash \/ UNCHANGED vars
           \/ \E i \in Insts : SkipSquashed(i) \/ DeferMemInst(i) \/ Issue(i)
                                 \/ TranslationDone(i) \/ SendStore(i)
  BY <1>1, <1>5 DEF StartTick, CommitSquash, SkipSquashed, DeferMemInst, Issue,
                    TranslationDone, SendStore, squashVars, vars
<1> QED
  BY <1>2, <1>3, <1>4, <1>5 DEF Next

-----------------------------------------------------------------------------
(* Slots towards commit *)

\* Slots taken without a gap from b on are no more than the instructions in them.
LEMMA FewSlots ==
  ASSUME SlotInv, NEW b \in Nat, NEW c \in Nat, b <= c, c <= Depth * WbWidth,
         NEW who \in SUBSET Insts, NEW n \in Nat, IsFiniteSet(who), Cardinality(who) <= n,
         \A p \in b .. c - 1 : iewQueue[p] \in who
  PROVE  c - b <= n
<1> DEFINE f == [p \in b .. c - 1 |-> iewQueue[p]]
<1>1. SUFFICES ASSUME c - b > n PROVE FALSE
  BY Sizes
<1>2. c - 1 \in Int /\ b \in Int
  OBVIOUS
<1>3. IsFiniteSet(b .. c - 1) /\ Cardinality(b .. c - 1) = IF b > c - 1 THEN 0 ELSE c - 1 - b + 1
  BY <1>2, FS_Interval
<1>4. Cardinality(who) \in Nat /\ Cardinality(b .. c - 1) = c - b
  BY <1>3, FS_CardinalityType
<1>5. Cardinality(who) < Cardinality(b .. c - 1)
  BY <1>1, <1>4
<1>6. f \in [b .. c - 1 -> who]
  OBVIOUS
<1> HIDE DEF f
<1>7. \E x, y \in b .. c - 1 : x # y /\ f[x] = f[y]
  BY <1>3, <1>5, <1>6, FS_PigeonHole
<1>8. PICK x \in b .. c - 1, y \in b .. c - 1 : x # y /\ f[x] = f[y]
  BY <1>7
<1>9. x \in Slots /\ y \in Slots
  BY Sizes
<1>10. iewQueue[x] = iewQueue[y] /\ iewQueue[x] # 0
  <2>1. 0 \notin Insts
    BY DEF Insts
  <2> QED
    BY <1>8, <2>1 DEF f
<1> QED
  BY <1>8, <1>9, <1>10 DEF SlotInv, OneSlotEach

\* There is a free slot for an instruction that is in none, and the search finds the
\* first one.
LEMMA SlotFound ==
  ASSUME SlotInv, NEW i \in Insts, at[i] # "handed"
  PROVE  /\ FreeSlot \in Slots /\ FreeSlot >= wbActual /\ iewQueue[FreeSlot] = 0
         /\ \A r \in wbActual .. FreeSlot - 1 : iewQueue[r] # 0
<1> DEFINE S == {p \in Slots : p >= wbActual /\ iewQueue[p] = 0}
           top == Depth * WbWidth
<1>1. top \in Nat /\ top >= 2 * N /\ N \in Nat \ {0} /\ Slots = 0 .. top - 1
  BY Sizes
<1> HIDE DEF top
<1>2. wbActual \in Slots /\ iewQueue \in [Slots -> 0 .. N] /\ wbActual \in Nat
  BY <1>1 DEF SlotInv
<1>3. PICK b \in 0 .. N : \A p \in b .. wbActual - 1 : iewQueue[p] # 0
  BY DEF SlotInv, Room
<1>4. S # {}
  <2>1. SUFFICES ASSUME S = {} PROVE FALSE
    OBVIOUS
  <2>2. ASSUME NEW p \in b .. top - 1
        PROVE  iewQueue[p] \in Insts \ {i}
    <3>1. p \in Slots /\ p \in Nat
      BY <1>1
    <3>2. iewQueue[p] # 0
      <4>1. CASE p >= wbActual
        BY <2>1, <3>1, <4>1
      <4>2. CASE ~(p >= wbActual)
        <5>1. p \in b .. wbActual - 1
          BY <1>2, <3>1, <4>2
        <5> QED
          BY <1>3, <5>1
      <4> QED
        BY <4>1, <4>2
    <3>3. iewQueue[p] \in Insts
      BY <1>1, <1>2, <3>1, <3>2 DEF Insts
    <3>4. iewQueue[p] # i
      BY <3>1 DEF SlotInv, OneSlotEach
    <3> QED
      BY <3>3, <3>4
  <2>3. IsFiniteSet(Insts) /\ Cardinality(Insts) = N
    <3>1. IsFiniteSet(1 .. N) /\ Cardinality(1 .. N) = IF 1 > N THEN 0 ELSE N - 1 + 1
      BY <1>1, 1 \in Int, N \in Int, FS_Interval
    <3> QED
      BY <1>1, <3>1 DEF Insts
  <2>4. IsFiniteSet(Insts \ {i}) /\ Cardinality(Insts \ {i}) = N - 1
    BY <2>3, FS_RemoveElement
  <2> HIDE DEF S
  <2>5. top - b <= N - 1
    <3>1. b \in Nat /\ b <= top /\ N - 1 \in Nat
      BY <1>1
    <3>2. Insts \ {i} \in SUBSET Insts /\ Cardinality(Insts \ {i}) <= N - 1
      BY <1>1, <2>4
    <3> QED
      BY <1>1, <2>2, <2>4, <3>1, <3>2, FewSlots DEF top
  <2> QED
    BY <1>1, <2>5
<1>5. S \in SUBSET Nat
  BY <1>1
<1> HIDE DEF S
<1>6. PICK p \in S : \A m \in S : p <= m
  BY <1>4, <1>5, Least
<1>7. p \in Slots /\ p >= wbActual /\ iewQueue[p] = 0
  BY <1>6 DEF S
<1>8. ASSUME NEW r \in wbActual .. p - 1, iewQueue[r] = 0
      PROVE  FALSE
  <2>1. r \in S /\ r < p
    BY <1>1, <1>2, <1>7, <1>8 DEF S
  <2> QED
    BY <1>1, <1>6, <1>7, <2>1
<1>9. \E s \in Slots : s >= wbActual /\ iewQueue[s] = 0 /\ \A r \in wbActual .. s - 1 : iewQueue[r] # 0
  BY <1>7, <1>8
<1> QED
  BY <1>9 DEF FreeSlot

\* An instruction is handed over.
LEMMA Inserts ==
  ASSUME PlacesInv, SlotInv, NEW i \in Insts, at[i] \notin {"handed", "done"}, InstToCommit(i),
         Move(i, "handed"), ticking' = ticking, unseen' = unseen
  PROVE  SlotInv'
<1>1. PICK F \in Slots : /\ F = FreeSlot /\ F >= wbActual /\ iewQueue[F] = 0
                        /\ \A r \in wbActual .. F - 1 : iewQueue[r] # 0
  BY SlotFound
<1>2. /\ iewQueue' = [iewQueue EXCEPT ![F] = i] /\ wbActual' = F
      /\ handed' = [handed EXCEPT ![i] = @ + 1]
  BY <1>1 DEF InstToCommit
<1>3. /\ N \in Nat \ {0} /\ Insts = 1 .. N /\ Slots \subseteq Nat /\ wbActual \in Slots
      /\ iewQueue \in [Slots -> 0 .. N] /\ OneSlotEach /\ NoGaps /\ Room /\ WokenBeforeCommit
      /\ \A p \in Slots : 0 .. p - 1 \subseteq Slots
  BY Sizes DEF Insts, SlotInv
<1>4. iewQueue' \in [Slots -> 0 .. N] /\ wbActual' \in Slots
  BY <1>1, <1>2, <1>3
<1>5. iewQueue'[F] = i /\ i # 0 /\ \A p \in Slots \ {F} : iewQueue'[p] = iewQueue[p]
  BY <1>1, <1>2, <1>3
<1>6. at'[i] = "handed" /\ \A j \in Insts \ {i} : at'[j] = at[j]
  BY MoveOne DEF Places
<1>7. OneSlotEach'
  <2>0. \A p \in Slots : iewQueue[p] # i
    BY <1>3 DEF OneSlotEach
  <2>1. ASSUME NEW p \in Slots, NEW r \in Slots, iewQueue'[p] = iewQueue'[r], iewQueue'[p] # 0
        PROVE  p = r
    BY <1>3, <1>5, <2>0, <2>1 DEF OneSlotEach
  <2>2. ASSUME NEW j \in Insts
        PROVE  at'[j] = "handed" <=> \E p \in Slots : iewQueue'[p] = j
    <3>1. CASE j = i
      BY <1>1, <1>5, <1>6, <3>1
    <3>2. CASE j # i
      <4>1. at[j] = "handed" <=> \E p \in Slots : iewQueue[p] = j
        BY <1>3 DEF OneSlotEach
      <4>2. j # 0
        BY <1>3
      <4>3. \A p \in Slots : iewQueue'[p] = j <=> iewQueue[p] = j
        BY <1>1, <1>5, <3>2, <4>2
      <4> QED
        BY <1>6, <3>2, <4>1, <4>3
    <3> QED
      BY <3>1, <3>2
  <2>3. handed' = [j \in Insts |-> IF at'[j] \in {"handed", "done"} THEN 1 ELSE 0]
    <3>1. handed = [j \in Insts |-> IF at[j] \in {"handed", "done"} THEN 1 ELSE 0]
      BY <1>3 DEF OneSlotEach
    <3>2. handed' = [j \in Insts |-> IF j = i THEN 1 ELSE handed[j]]
      BY <1>2, <3>1
    <3>3. \A j \in Insts : (IF j = i THEN 1 ELSE handed[j])
                            = IF at'[j] \in {"handed", "done"} THEN 1 ELSE 0
      BY <1>6, <3>1
    <3> QED
      BY <3>2, <3>3
  <2> QED
    BY <2>1, <2>2, <2>3 DEF OneSlotEach
<1>8. ASSUME NEW p \in Slots, Filled(p)
      PROVE  Filled(p)'
  <2>1. ASSUME NEW r \in 0 .. p - 1, SameCycle(r, p) PROVE iewQueue'[r] # 0
    <3>1. iewQueue[r] # 0 /\ r \in Slots
      BY <1>3, <1>8, <2>1 DEF Filled
    <3> QED
      BY <1>5, <3>1
  <2> QED
    BY <2>1 DEF Filled, SameCycle
<1>9. Filled(F)
  <2> SUFFICES ASSUME NEW r \in 0 .. F - 1, SameCycle(r, F) PROVE iewQueue[r] # 0
    BY DEF Filled
  <2>1. r \in Nat /\ F \in Nat /\ wbActual \in Nat /\ wbActual <= F /\ r <= F
    BY <1>1, <1>3
  <2>2. CASE r >= wbActual
    <3>1. r \in wbActual .. F - 1
      BY <2>1, <2>2
    <3> QED
      BY <1>1, <3>1
  <2>3. CASE ~(r >= wbActual)
    <3>1. r <= wbActual /\ r \in 0 .. wbActual - 1
      BY <2>1, <2>3
    <3>2. SameCycle(r, wbActual)
      BY <2>1, <3>1, Between
    <3> QED
      BY <1>3, <3>1, <3>2 DEF NoGaps, Filled
  <2> QED
    BY <2>2, <2>3
<1>10. NoGaps'
  <2>1. Filled(wbActual)'
    <3>1. Filled(F)'
      BY <1>1, <1>8, <1>9
    <3> QED
      BY <1>2, <3>1 DEF Filled, SameCycle
  <2>2. ASSUME NEW p \in Slots, iewQueue'[p] # 0 PROVE Filled(p)'
    <3>1. p = F \/ iewQueue[p] # 0
      BY <1>5, <2>2
    <3> QED
      BY <1>3, <1>8, <1>9, <3>1 DEF NoGaps
  <2> QED
    BY <2>1, <2>2 DEF NoGaps
<1>11. Room'
  <2>1. PICK b \in 0 .. N : (ticking => b = 0) /\ \A p \in b .. wbActual - 1 : iewQueue[p] # 0
    BY <1>3 DEF Room
  <2>2. ASSUME NEW p \in b .. F - 1 PROVE iewQueue'[p] # 0
    <3>1. p \in Slots /\ p # F /\ p \in Nat /\ wbActual \in Nat
      BY <1>1, <1>3
    <3>2. iewQueue[p] # 0
      <4>1. CASE p >= wbActual
        <5>1. p \in wbActual .. F - 1
          BY <1>1, <1>3, <3>1, <4>1
        <5> QED
          BY <1>1, <5>1
      <4>2. CASE ~(p >= wbActual)
        <5>1. p \in b .. wbActual - 1
          BY <3>1, <4>2
        <5> QED
          BY <2>1, <5>1
      <4> QED
        BY <4>1, <4>2
    <3> QED
      BY <1>5, <3>1, <3>2
  <2> QED
    BY <1>2, <2>1, <2>2 DEF Room
<1>12. WokenBeforeCommit'
  BY <1>3 DEF WokenBeforeCommit
<1> QED
  BY <1>4, <1>7, <1>10, <1>11, <1>12 DEF SlotInv

\* The other moves have nothing to do with the slots.
LEMMA MovesOn ==
  ASSUME PlacesInv, SlotInv, NEW i \in Insts,
         NEW place \in Places \ {"handed", "done"}, at[i] \notin {"handed", "done"},
         Move(i, place), ticking' = ticking, UNCHANGED slotVars, unseen' = unseen
  PROVE  SlotInv'
<1>1. /\ wbActual' = wbActual /\ iewQueue' = iewQueue /\ handed' = handed
  BY DEF slotVars
<1>2. at'[i] = place /\ \A j \in Insts \ {i} : at'[j] = at[j]
  BY MoveOne
<1>3. \A j \in Insts : /\ (at'[j] = "handed" <=> at[j] = "handed")
                       /\ (at'[j] = "done" <=> at[j] = "done")
  BY <1>2
<1>4. OneSlotEach'
  BY <1>1, <1>3 DEF SlotInv, OneSlotEach
<1>5. NoGaps' /\ Room'
  BY <1>1 DEF SlotInv, NoGaps, Room, Filled, SameCycle
<1> QED
  BY <1>1, <1>4, <1>5 DEF SlotInv, WokenBeforeCommit

\* The same for the steps that move nothing.
LEMMA SlotsStay ==
  ASSUME SlotInv, at' = at, ticking' = ticking, UNCHANGED slotVars, unseen' = unseen
  PROVE  SlotInv'
  BY DEF SlotInv, OneSlotEach, NoGaps, Room, Filled, SameCycle, WokenBeforeCommit, slotVars

\* A tick begins to look for a free slot from the first one on.
LEMMA StartSlots ==
  ASSUME SlotInv, StartTick
  PROVE  SlotInv'
<1>1. /\ wbActual' = 0 /\ iewQueue' = iewQueue /\ handed' = handed /\ at' = at /\ unseen' = unseen
  BY DEF StartTick
<1>2. N \in Nat /\ 0 \in Slots
  BY Sizes
<1>3. NoGaps'
  BY <1>1 DEF SlotInv, NoGaps, Filled, SameCycle
<1>4. Room'
  <2>1. 0 \in 0 .. N /\ \A p \in 0 .. 0 - 1 : FALSE
    BY <1>2
  <2> QED
    BY <1>1, <2>1 DEF Room
<1> QED
  BY <1>1, <1>2, <1>3, <1>4 DEF SlotInv, OneSlotEach, WokenBeforeCommit

\* A tick ends: writebackInsts sees all the instructions of the cycle, and the slots
\* move on.
LEMMA EndSlots ==
  ASSUME PlacesInv, SlotInv, EndTick
  PROVE  SlotInv'
<1> DEFINE mine == {iewQueue[p] : p \in 0 .. WbWidth - 1} \ {0}
           seen == {iewQueue[p] : p \in {q \in 0 .. WbWidth - 1 : \A r \in 0 .. q : iewQueue[r] # 0}}
           next(p) == IF p + WbWidth \in Slots THEN iewQueue[p + WbWidth] ELSE 0
<1>1. /\ unseen' = unseen \cup (mine \ seen) /\ iewQueue' = [p \in Slots |-> next(p)]
      /\ at' = [i \in Insts |-> IF i \in mine THEN "done" ELSE at[i]]
      /\ wbActual' = ResetSlot(wbActual) /\ ticking /\ handed' = handed
  BY DEF EndTick, WritebackInsts
<1>2. /\ N \in Nat \ {0} /\ Insts = 1 .. N /\ WbWidth \in Nat \ {0} /\ Slots \subseteq Nat
      /\ 0 .. WbWidth - 1 \subseteq Slots /\ \A p \in Slots : 0 .. p - 1 \subseteq Slots
      /\ wbActual \in Slots /\ iewQueue \in [Slots -> 0 .. N]
      /\ OneSlotEach /\ NoGaps /\ Room /\ unseen = {}
  BY Sizes DEF Insts, SlotInv, WokenBeforeCommit
<1>3. mine \subseteq seen
  <2> SUFFICES ASSUME NEW p \in 0 .. WbWidth - 1, iewQueue[p] # 0
               PROVE  \A r \in 0 .. p : iewQueue[r] # 0
    OBVIOUS
  <2>1. Filled(p) /\ p \in Nat
    BY <1>2 DEF NoGaps
  <2>2. \A r \in 0 .. p - 1 : SameCycle(r, p)
    <3>1. ASSUME NEW x \in 0 .. WbWidth - 1 PROVE x \div WbWidth = 0
      <4>1. x \in Nat /\ 0 \in Nat /\ WbWidth * 0 <= x /\ x < WbWidth * 0 + WbWidth
        BY <1>2
      <4> QED
        BY <4>1, DivUnique
    <3>2. p \div WbWidth = 0
      BY <3>1
    <3>3. ASSUME NEW r \in 0 .. p - 1 PROVE r \div WbWidth = 0
      <4>1. r \in 0 .. WbWidth - 1
        BY <1>2, <2>1
      <4> QED
        BY <3>1, <4>1
    <3> QED
      BY <3>2, <3>3 DEF SameCycle
  <2> QED
    BY <2>1, <2>2 DEF Filled
<1>4. WokenBeforeCommit'
  BY <1>1, <1>2, <1>3 DEF WokenBeforeCommit
<1> HIDE DEF seen, next
<1>5. \A p \in Slots : /\ iewQueue'[p] # 0 => p + WbWidth \in Slots
                       /\ iewQueue'[p] = IF p + WbWidth \in Slots THEN iewQueue[p + WbWidth] ELSE 0
  BY <1>1 DEF next
<1>6. wbActual' \in Slots /\ iewQueue' \in [Slots -> 0 .. N]
  <2>1. ResetSlot(wbActual) \in Slots
    BY <1>2, CycleStart, Sizes
  <2>2. \A p \in Slots : next(p) \in 0 .. N
    BY <1>2 DEF next
  <2> QED
    BY <1>1, <2>1, <2>2
<1>7. OneSlotEach'
  <2>1. ASSUME NEW p \in Slots, NEW r \in Slots, iewQueue'[p] = iewQueue'[r], iewQueue'[p] # 0
        PROVE  p = r
    <3>1. /\ p + WbWidth \in Slots /\ r + WbWidth \in Slots
          /\ iewQueue[p + WbWidth] = iewQueue[r + WbWidth] /\ iewQueue[p + WbWidth] # 0
      BY <1>5, <2>1
    <3>2. p + WbWidth = r + WbWidth
      BY <1>2, <3>1 DEF OneSlotEach
    <3> QED
      BY <1>2, <3>2
  <2>2. ASSUME NEW j \in Insts
        PROVE  /\ at'[j] = "handed" <=> \E p \in Slots : iewQueue'[p] = j
               /\ at'[j] \in {"handed", "done"} <=> at[j] \in {"handed", "done"}
    <3>0. j # 0
      BY <1>2
    <3>1. at[j] = "handed" <=> \E p \in Slots : iewQueue[p] = j
      BY <1>2 DEF OneSlotEach
    <3>2. CASE j \in mine
      <4>1. PICK p \in 0 .. WbWidth - 1 : iewQueue[p] = j
        BY <3>2
      <4>2. at'[j] = "done" /\ at[j] = "handed"
        BY <1>1, <1>2, <3>1, <3>2, <4>1
      <4>3. ASSUME NEW r \in Slots, iewQueue'[r] = j
            PROVE  FALSE
        <5>1. r + WbWidth \in Slots /\ iewQueue[r + WbWidth] = j
          BY <1>5, <3>0, <4>3
        <5>2. r + WbWidth = p
          BY <1>2, <3>0, <4>1, <5>1 DEF OneSlotEach
        <5> QED
          BY <1>2, <5>2
      <4> QED
        BY <4>2, <4>3
    <3>3. CASE j \notin mine
      <4>1. at'[j] = at[j]
        BY <1>1, <3>3
      <4>2. ASSUME NEW p \in Slots, iewQueue[p] = j
            PROVE  \E r \in Slots : iewQueue'[r] = j
        <5>1. ~(p \in 0 .. WbWidth - 1)
          BY <3>0, <3>3, <4>2
        <5>2. p - WbWidth \in Slots /\ (p - WbWidth) + WbWidth = p
          BY <1>2, <5>1, Sizes
        <5>3. iewQueue'[p - WbWidth] = j
          BY <1>5, <4>2, <5>2
        <5> QED
          BY <5>2, <5>3
      <4>3. ASSUME NEW r \in Slots, iewQueue'[r] = j
            PROVE  \E p \in Slots : iewQueue[p] = j
        BY <1>5, <3>0, <4>3
      <4> QED
        BY <3>1, <4>1, <4>2, <4>3
    <3> QED
      BY <3>2, <3>3
  <2>3. handed' = [j \in Insts |-> IF at'[j] \in {"handed", "done"} THEN 1 ELSE 0]
    <3>1. handed = [j \in Insts |-> IF at[j] \in {"handed", "done"} THEN 1 ELSE 0]
      BY <1>2 DEF OneSlotEach
    <3>2. \A j \in Insts : (IF at[j] \in {"handed", "done"} THEN 1 ELSE 0)
                            = IF at'[j] \in {"handed", "done"} THEN 1 ELSE 0
      BY <2>2
    <3> QED
      BY <1>1, <3>1, <3>2
  <2> QED
    BY <2>1, <2>2, <2>3 DEF OneSlotEach
<1>8. NoGaps'
  <2>1. Filled(wbActual)'
    <3>1. \A r \in 0 .. wbActual' - 1 : ~SameCycle(r, wbActual')
      BY <1>1, <1>2, CycleStart
    <3> QED
      BY <3>1 DEF Filled, SameCycle
  <2>2. ASSUME NEW p \in Slots, iewQueue'[p] # 0 PROVE Filled(p)'
    <3>1. p + WbWidth \in Slots /\ iewQueue[p + WbWidth] # 0 /\ p \in Nat
      BY <1>2, <1>5, <2>2
    <3>2. Filled(p + WbWidth)
      BY <1>2, <3>1 DEF NoGaps
    <3>3. ASSUME NEW r \in 0 .. p - 1, SameCycle(r, p) PROVE iewQueue'[r] # 0
      <4>1. r \in Nat /\ r \in Slots /\ r + WbWidth \in 0 .. (p + WbWidth) - 1
        BY <1>2, <3>1
      <4>2. SameCycle(r + WbWidth, p + WbWidth)
        BY <3>1, <3>3, <4>1, Shifted
      <4>3. iewQueue[r + WbWidth] # 0
        BY <3>2, <4>1, <4>2 DEF Filled
      <4>4. r + WbWidth \in Slots
        BY <1>2, <3>1, <4>1
      <4> QED
        BY <1>5, <4>1, <4>3, <4>4
    <3> QED
      BY <3>3 DEF Filled, SameCycle
  <2> QED
    BY <2>1, <2>2 DEF NoGaps
<1>9. Room'
  <2>1. \A p \in 0 .. wbActual - 1 : iewQueue[p] \in Insts
    <3>1. \A p \in 0 .. wbActual - 1 : iewQueue[p] # 0
      BY <1>1, <1>2 DEF Room
    <3> QED
      BY <1>2, <3>1
  <2>2. wbActual <= N
    <3>1. IsFiniteSet(1 .. N) /\ Cardinality(1 .. N) = IF 1 > N THEN 0 ELSE N - 1 + 1
      BY <1>2, 1 \in Int, N \in Int, FS_Interval
    <3>2. IsFiniteSet(Insts) /\ Cardinality(Insts) <= N /\ Insts \in SUBSET Insts
      BY <1>2, <3>1
    <3>3. wbActual \in Nat /\ 0 <= wbActual /\ wbActual <= Depth * WbWidth /\ 0 \in Nat /\ N \in Nat
      BY <1>2, Sizes
    <3>4. wbActual - 0 <= N
      BY <2>1, <3>2, <3>3, FewSlots
    <3> QED
      BY <3>3, <3>4
  <2>3. wbActual' \in 0 .. N
    <3>1. wbActual \in Nat
      BY <1>2
    <3>2. ResetSlot(wbActual) \in Nat /\ ResetSlot(wbActual) <= wbActual
      BY <3>1, CycleStart
    <3> QED
      BY <1>1, <1>2, <2>2, <3>1, <3>2
  <2>4. \A p \in wbActual' .. wbActual' - 1 : FALSE
    <3>1. PICK w \in Nat : w = wbActual'
      BY <1>2, <2>3
    <3>2. w .. w - 1 = {}
      OBVIOUS
    <3> QED
      BY <3>1, <3>2
  <2>5. ~ticking'
    BY DEF EndTick
  <2> QED
    BY <2>3, <2>4, <2>5 DEF Room
<1> QED
  BY <1>4, <1>6, <1>7, <1>8, <1>9 DEF SlotInv

\* Every step keeps the slots in order.
LEMMA SlotsKeep == PlacesInv /\ SlotInv /\ [Next]_vars => SlotInv'
<1> SUFFICES ASSUME PlacesInv, SlotInv, [Next]_vars PROVE SlotInv'
  OBVIOUS
<1> USE DEF Places
<1>1. CASE StartTick
  BY <1>1, StartSlots
<1>2. CASE EndTick
  BY <1>2, EndSlots
<1>3. ASSUME NEW i \in Insts, ExecuteOther(i) \/ ExecuteStore(i) PROVE SlotInv'
  <2>1. /\ at[i] = "issued" /\ InstToCommit(i) /\ Move(i, "handed") /\ ticking' = ticking
        /\ unseen' = unseen
    BY <1>3 DEF ExecuteOther, ExecuteStore, Executing
  <2> QED
    BY <2>1, Inserts
<1>4. ASSUME NEW i \in Insts, LoadWriteback(i) PROVE SlotInv'
  <2>1. at[i] = "memory" /\ ticking' = ticking /\ unseen' = unseen
    BY <1>4 DEF LoadWriteback
  <2>2. \/ InstToCommit(i) /\ Move(i, "handed")
        \/ Move(i, "dropped") /\ UNCHANGED slotVars
    BY <1>4 DEF LoadWriteback
  <2> QED
    BY <2>1, <2>2, Inserts, MovesOn
<1>5. ASSUME NEW i \in Insts,
             SkipSquashed(i) \/ DeferMemInst(i) \/ ExecuteLoad(i) \/ Issue(i) \/ TranslationDone(i)
      PROVE  SlotInv'
  <2>1. /\ at[i] \in {"issued", "queue", "deferred"} /\ ticking' = ticking /\ unseen' = unseen
        /\ UNCHANGED slotVars
    BY <1>5 DEF SkipSquashed, DeferMemInst, ExecuteLoad, Issue, TranslationDone, Executing
  <2>2. \E place \in {"dropped", "deferred", "memory", "issued", "queue"} : Move(i, place)
    BY <1>5 DEF SkipSquashed, DeferMemInst, ExecuteLoad, Issue, TranslationDone
  <2> QED
    BY <2>1, <2>2, MovesOn
<1>6. CASE CommitSquash \/ UNCHANGED vars \/ \E i \in Insts : SendStore(i)
  BY <1>6, SlotsStay DEF CommitSquash, SendStore, vars
<1> QED
  BY <1>1, <1>2, <1>3, <1>4, <1>5, <1>6 DEF Next

-----------------------------------------------------------------------------
(* Marks *)

\* There are finitely many instructions to count.
LEMMA PassedCounts ==
  /\ IsFiniteSet(Passed) /\ Cardinality(Passed) \in Nat
  /\ \A S \in SUBSET Insts : IsFiniteSet(S) /\ Cardinality(S) \in Nat
<1>1. IsFiniteSet(1 .. N)
  BY Sizes, 1 \in Int, N \in Int, FS_Interval
<1>2. IsFiniteSet(Insts) /\ Passed \in SUBSET Insts
  BY <1>1 DEF Insts, Passed
<1>3. \A S \in SUBSET Insts : IsFiniteSet(S)
  BY <1>2, FS_Subset
<1> QED
  BY <1>2, <1>3, FS_CardinalityType

\* The barriers that were passed stay passed.
LEMMA PassedGrows ==
  ASSUME PlacesInv, kind' = kind,
         \A f \in Insts : at[f] \in {"handed", "done", "dropped"} =>
                            at'[f] \in {"handed", "done", "dropped"}
  PROVE  /\ Passed \subseteq Passed' /\ Passed' \in SUBSET Insts
         /\ Cardinality(Passed) <= Cardinality(Passed')
<1>1. Passed \subseteq Passed' /\ Passed' \in SUBSET Insts
  BY DEF Passed
<1> DEFINE next == Passed'
<1>2. Passed \subseteq next /\ next \in SUBSET Insts /\ next = Passed'
  BY <1>1
<1> HIDE DEF next
<1>3. IsFiniteSet(next)
  BY <1>2, PassedCounts
<1>4. Cardinality(Passed) <= Cardinality(next)
  BY <1>2, <1>3, FS_Subset
<1>5. Cardinality(next) = Cardinality(Passed)'
  BY <1>2
<1> QED
  BY <1>1, <1>4, <1>5

\* Nothing is marked, and no barrier asks for a mark that did not.
LEMMA MarksStay ==
  ASSUME PlacesInv, MarkInv, kind' = kind, UNCHANGED <<memoryBarrierExecuted, marked>>,
         \A f \in Insts : at[f] \in {"handed", "done", "dropped"} =>
                            at'[f] \in {"handed", "done", "dropped"}
  PROVE  MarkInv'
<1>1. Cardinality(Passed) <= Cardinality(Passed)'
  BY PassedGrows
<1>2. Cardinality(Passed)' \in Nat /\ Cardinality(marked) \in Nat /\ Cardinality(Passed) \in Nat
  <2>1. Passed' \in SUBSET Insts
    BY DEF Passed
  <2>2. Cardinality(Passed') \in Nat
    BY <2>1, PassedCounts
  <2> QED
    BY <2>2, PassedCounts DEF PlacesInv
<1> QED
  BY <1>1, <1>2 DEF MarkInv

\* An instruction that is executed and is a barrier asks for a mark.
LEMMA Asks ==
  ASSUME PlacesInv, MarkInv, NEW i \in Insts, at[i] = "issued", NEW place \in {"handed", "dropped"},
         Move(i, place), kind' = kind, marked' = marked,
         memoryBarrierExecuted' = (memoryBarrierExecuted \/ kind[i] = "fence")
  PROVE  MarkInv'
<1>1. at'[i] = place /\ \A j \in Insts \ {i} : at'[j] = at[j]
  BY MoveOne DEF Places
<1>2. CASE kind[i] # "fence"
  <2>1. memoryBarrierExecuted' = memoryBarrierExecuted
    BY <1>2 DEF PlacesInv
  <2> QED
    BY <1>1, <2>1, MarksStay
<1>3. CASE kind[i] = "fence"
  <2>1. Passed' = Passed \cup {i} /\ i \notin Passed
    BY <1>1, <1>3 DEF Passed
  <2>2. Cardinality(Passed \cup {i}) = Cardinality(Passed) + 1
    BY <2>1, PassedCounts, FS_AddElement
  <2>3. Cardinality(Passed)' = Cardinality(Passed) + 1
    BY <2>1, <2>2
  <2>4. Cardinality(marked) \in Nat /\ Cardinality(Passed) \in Nat
    BY PassedCounts DEF PlacesInv
  <2> QED
    BY <2>3, <2>4 DEF MarkInv
<1> QED
  BY <1>2, <1>3

\* The access executed after a barrier takes the mark the barrier asked for.
LEMMA Takes ==
  ASSUME PlacesInv, MarkInv, NEW i \in Insts, at[i] = "issued",
         NEW place \in {"deferred", "memory", "handed"},
         Move(i, place), kind' = kind, MarkNext(i)
  PROVE  MarkInv'
<1>1. at'[i] = place /\ \A j \in Insts \ {i} : at'[j] = at[j]
  BY MoveOne DEF Places
<1>2. Cardinality(Passed) <= Cardinality(Passed)'
  BY <1>1, PassedGrows
<1>3. Cardinality(Passed)' \in Nat /\ Cardinality(marked) \in Nat /\ Cardinality(Passed) \in Nat
  <2>1. Passed' \in SUBSET Insts
    BY DEF Passed
  <2>2. Cardinality(Passed') \in Nat
    BY <2>1, PassedCounts
  <2> QED
    BY <2>2, PassedCounts DEF PlacesInv
<1>4. memoryBarrierExecuted' = FALSE
  BY DEF MarkNext
<1>5. CASE ~memoryBarrierExecuted \/ i \in requested
  <2>1. marked' = marked
    BY <1>5 DEF MarkNext, Mark
  <2> QED
    BY <1>2, <1>3, <1>4, <2>1 DEF MarkInv
<1>6. CASE memoryBarrierExecuted /\ i \notin requested
  <2>1. marked' = marked \cup {i} /\ IsFiniteSet(marked)
    BY <1>6, PassedCounts DEF MarkNext, Mark, PlacesInv
  <2>2. Cardinality(marked \cup {i}) = IF i \in marked THEN Cardinality(marked)
                                       ELSE Cardinality(marked) + 1
    BY <2>1, FS_AddElement
  <2>3. Cardinality(marked') <= Cardinality(marked) + 1 /\ Cardinality(marked') \in Nat
    BY <1>3, <2>1, <2>2
  <2> QED
    BY <1>2, <1>3, <1>4, <1>6, <2>3 DEF MarkInv
<1> QED
  BY <1>5, <1>6

\* Every step keeps the marks to one for a barrier.
LEMMA MarksKeep == PlacesInv /\ SlotInv /\ MarkInv /\ [Next]_vars => MarkInv'
<1> SUFFICES ASSUME PlacesInv, SlotInv, MarkInv, [Next]_vars PROVE MarkInv'
  OBVIOUS
<1> USE DEF barrierVars
<1>1. CASE StartTick \/ CommitSquash \/ UNCHANGED vars \/ \E i \in Insts : SendStore(i)
  <2>1. kind' = kind /\ at' = at /\ UNCHANGED <<memoryBarrierExecuted, marked>>
    BY <1>1 DEF StartTick, CommitSquash, SendStore, vars
  <2> QED
    BY <2>1, MarksStay
<1>2. CASE EndTick
  <2>1. kind' = kind /\ UNCHANGED <<memoryBarrierExecuted, marked>>
    BY <1>2 DEF EndTick
  <2>2. \A f \in Insts : at'[f] \in {"done", at[f]}
    BY <1>2 DEF EndTick, WritebackInsts
  <2> QED
    BY <2>1, <2>2, MarksStay
<1>3. ASSUME NEW i \in Insts, SkipSquashed(i) \/ ExecuteOther(i) PROVE MarkInv'
  <2>1. /\ at[i] = "issued" /\ kind' = kind /\ marked' = marked
        /\ memoryBarrierExecuted' = (memoryBarrierExecuted \/ kind[i] = "fence")
    BY <1>3 DEF SkipSquashed, ExecuteOther, Executing
  <2>2. Move(i, "handed") \/ Move(i, "dropped")
    BY <1>3 DEF SkipSquashed, ExecuteOther
  <2> QED
    BY <2>1, <2>2, Asks
<1>4. ASSUME NEW i \in Insts, DeferMemInst(i) \/ ExecuteLoad(i) \/ ExecuteStore(i) PROVE MarkInv'
  <2>1. at[i] = "issued" /\ kind' = kind /\ MarkNext(i)
    BY <1>4 DEF DeferMemInst, ExecuteLoad, ExecuteStore, Executing
  <2>2. Move(i, "deferred") \/ Move(i, "memory") \/ Move(i, "handed")
    BY <1>4 DEF DeferMemInst, ExecuteLoad, ExecuteStore
  <2> QED
    BY <2>1, <2>2, Takes
<1>5. ASSUME NEW i \in Insts, Issue(i) \/ TranslationDone(i) \/ LoadWriteback(i) PROVE MarkInv'
  <2>1. /\ at[i] \in {"queue", "deferred", "memory"} /\ kind' = kind
        /\ UNCHANGED <<memoryBarrierExecuted, marked>>
    BY <1>5 DEF Issue, TranslationDone, LoadWriteback
  <2>2. \E place \in Places : Move(i, place)
    BY <1>5 DEF Issue, TranslationDone, LoadWriteback, Places
  <2>3. \A f \in Insts \ {i} : at'[f] = at[f]
    BY <2>2, MoveOne
  <2> QED
    BY <2>1, <2>3, MarksStay
<1> QED
  BY <1>1, <1>2, <1>3, <1>4, <1>5 DEF Next

-----------------------------------------------------------------------------

\* The window starts with every instruction in the queue.
LEMMA InitHolds == Init => IInv
<1> SUFFICES ASSUME Init PROVE IInv
  OBVIOUS
<1> USE DEF Init
<1>1. N \in Nat \ {0} /\ 0 \in Slots /\ Slots \subseteq Nat
  BY Sizes
<1>2. PlacesInv
  BY DEF PlacesInv, Places
<1>3. RedirectInv
  <2>1. SquashedBy(NoSquash) = {}
    BY DEF SquashedBy, NoSquash
  <2> QED
    BY <1>1, <2>1 DEF RedirectInv, SquashExact, NoSquash
<1>4. SlotInv
  <2>1. OneSlotEach
    BY DEF OneSlotEach, Insts
  <2>2. NoGaps
    BY <1>1 DEF NoGaps, Filled
  <2>3. Room
    BY <1>1 DEF Room
  <2> QED
    BY <1>1, <2>1, <2>2, <2>3 DEF SlotInv, WokenBeforeCommit
<1>5. MarkInv
  <2>1. Cardinality(marked) = 0
    BY FS_EmptySet
  <2>2. Cardinality(Passed) \in Nat
    BY PassedCounts
  <2> QED
    BY <2>1, <2>2 DEF MarkInv
<1> QED
  BY <1>2, <1>3, <1>4, <1>5 DEF IInv

\* The invariant holds however the instructions execute, are answered and squashed.
THEOREM InvariantHolds == Spec => []IInv
<1>1. IInv /\ [Next]_vars => IInv'
  BY PlacesKeep, RedirectsKeep, SlotsKeep, MarksKeep DEF IInv
<1> QED
  BY <1>1, InitHolds, PTL DEF Spec

\* The state has its types, and an instruction is given to commit once at most.
THEOREM TypeCorrect == Spec => []TypeOK
<1>1. IInv => TypeOK
  <2> SUFFICES ASSUME IInv PROVE TypeOK
    OBVIOUS
  <2>1. handed \in [Insts -> 0 .. 1]
    BY DEF IInv, SlotInv, OneSlotEach
  <2> QED
    BY <2>1 DEF IInv, PlacesInv, Places, RedirectInv, SlotInv, WokenBeforeCommit, TypeOK
<1> QED
  BY <1>1, InvariantHolds, PTL

\* The squash that a cycle signals to commit takes away exactly what the redirects found
\* in the cycle ask for (squashDueToBranch, squashDueToMemOrder).
THEOREM SquashIsExact == Spec => []SquashExact
<1>1. IInv => SquashExact
  BY DEF IInv, RedirectInv
<1> QED
  BY <1>1, InvariantHolds, PTL

\* The first free slot is always of a cycle whose earlier slots are taken, so that
\* writebackInsts, which stops at a free slot, sees every instruction commit gets.
THEOREM DependentsWoken == Spec => []WokenBeforeCommit
<1>1. IInv => WokenBeforeCommit
  BY DEF IInv, SlotInv
<1> QED
  BY <1>1, InvariantHolds, PTL

\* No more accesses are marked than barriers were executed or skipped
\* (memoryBarrierExecuted).
THEOREM MarksAreCounted == Spec => []OneMarkPerBarrier
<1>1. IInv => OneMarkPerBarrier
  <2> SUFFICES ASSUME IInv PROVE OneMarkPerBarrier
    OBVIOUS
  <2>1. Cardinality(marked) \in Nat /\ Cardinality(Passed) \in Nat
    BY PassedCounts DEF IInv, PlacesInv
  <2>2. Cardinality(marked) <= Cardinality(Passed)
    BY <2>1 DEF IInv, MarkInv
  <2> QED
    BY <2>2 DEF OneMarkPerBarrier, Passed
<1> QED
  BY <1>1, InvariantHolds, PTL
=============================================================================
