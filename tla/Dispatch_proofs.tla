-------------------------- MODULE Dispatch_proofs --------------------------
(***************************************************************************)
(* What dispatch and rename tell each other, for every width, delay, queue *)
(* size and mix of instructions: the stall rename will know is dispatch's  *)
(* status, every instruction is reported once, and what arrives waits for  *)
(* the skid buffer.  These three are inductive together (IInv).            *)
(*                                                                         *)
(* The skid buffer never overflows when a signal reaches rename in the     *)
(* next cycle.  The bound alone is not inductive.  Room says where the     *)
(* buffer's contents come from: once dispatch is blocked for k cycles, at  *)
(* most k + 1 batches are in it and the last k places of the wire are      *)
(* empty.  That rests on the agreement about the stall.                    *)
(***************************************************************************)
EXTENDS DispatchProperties, TLAPS, SequenceTheorems, FiniteSetTheorems

Stopped == {"Blocked", "Unblocking"}
Flowing == {"Running", "Squashing"}

\* The record a tick works on.
TickStates ==
  [status : Stopped \cup Flowing, skid : Seq(Insts), insts : Seq(Insts),
   used : [Queues -> Nat], returned : Seq(Insts), block : BOOLEAN, unblock : BOOLEAN]

\* The instructions in a stage's hands that need an entry of a queue, and that a step
\* loses none of them.
Work(s, q) == Counts(s.skid)[q] + Counts(s.insts)[q] + Counts(s.returned)[q]
Keeps(r, s) == \A q \in Queues : Work(r, q) = Work(s, q)

\* What a tick must return that started with blocked and with s.
Outcome(r, blocked, s) ==
  /\ r \in TickStates
  /\ r.insts = <<>>
  /\ r.status \in Flowing => r.skid = <<>>
  /\ Len(r.skid) <= Len(s.skid) + Len(s.insts)
  /\ Keeps(r, s)
  /\ ((blocked \/ r.block) /\ ~r.unblock) <=> r.status \in Stopped

Types ==
  /\ status \in Stopped \cup Flowing
  /\ skid \in Seq(Insts)
  /\ used \in [Queues -> Nat]
  /\ wire \in [1 .. RenameToIEWDelay -> Batches]
  /\ DOMAIN back = 1 .. IEWToRenameDelay
  /\ \A i \in DOMAIN back : back[i].dispatched \in [Queues -> Nat]
  /\ inProgress \in [Queues -> Int]
  /\ doomed \in Nat

IInv == Types /\ NoOvertaking /\ RenameAgrees /\ CreditsExact

\* Where the contents of the skid buffer come from: batches of k + 1 cycles, while the
\* last k places of the wire are empty.
RoomFor(k) ==
  /\ Len(skid) <= (k + 1) * RenameWidth
  /\ status \in Stopped =>
       \A j \in (RenameToIEWDelay - k + 1) .. RenameToIEWDelay : wire[j] = <<>>
Room == \E k \in 0 .. RenameToIEWDelay : RoomFor(k)

-----------------------------------------------------------------------------
(* Counting *)

\* A bijection shows that two sets have the same size.
LEMMA SameSize ==
  ASSUME NEW S, NEW T, NEW f \in [S -> T], IsFiniteSet(S),
         \A x, y \in S : f[x] = f[y] => x = y,
         \A t \in T : \E x \in S : f[x] = t
  PROVE  IsFiniteSet(T) /\ Cardinality(T) = Cardinality(S)
<1>1. f \in Injection(S, T)
  BY DEF Injection, IsInjective
<1>2. f \in Surjection(S, T)
  BY DEF Surjection
<1>3. ExistsBijection(S, T)
  BY <1>1, <1>2 DEF ExistsBijection, Bijection
<1> QED
  BY <1>3, FS_Bijection

\* The boxes of a sequence of numbers are finitely many.
LEMMA BoxesFinite ==
  ASSUME NEW D \in Nat, NEW w \in [1 .. D -> Nat]
  PROVE  IsFiniteSet(Boxes(w)) /\ Total(w) \in Nat
<1> DEFINE R == {{i} \X (1 .. w[i]) : i \in 1 .. D}
           f == [i \in 1 .. D |-> {i} \X (1 .. w[i])]
<1>1. IsFiniteSet(1 .. D)
  BY FS_Interval
<1>2. IsFiniteSet(R)
  <2>1. f \in Surjection(1 .. D, R)
    BY DEF Surjection
  <2> QED
    BY <1>1, <2>1, FS_Surjection
<1>3. ASSUME NEW T \in R PROVE IsFiniteSet(T)
  <2>1. PICK i \in 1 .. D : T = {i} \X (1 .. w[i])
    OBVIOUS
  <2>2. IsFiniteSet({i})
    BY FS_Singleton
  <2>3. IsFiniteSet(1 .. w[i])
    BY FS_Interval
  <2> QED
    BY <2>1, <2>2, <2>3, FS_Product
<1>4. Boxes(w) = UNION R
  BY DEF Boxes
<1> HIDE DEF R
<1>5. IsFiniteSet(Boxes(w))
  BY <1>2, <1>3, <1>4, FS_UNION
<1> QED
  BY <1>5, FS_CardinalityType DEF Total

\* The boxes of one number are as many as it says.
LEMMA OneBox ==
  ASSUME NEW i, NEW n \in Nat
  PROVE  IsFiniteSet({i} \X (1 .. n)) /\ Cardinality({i} \X (1 .. n)) = n
<1>1. IsFiniteSet({i}) /\ Cardinality({i}) = 1
  BY FS_Singleton
<1>2. IsFiniteSet(1 .. n) /\ Cardinality(1 .. n) = n
  BY FS_Interval
<1> DEFINE A == {i}
           B == 1 .. n
<1> HIDE DEF A, B
<1>3. IsFiniteSet(A) /\ IsFiniteSet(B) /\ Cardinality(A) = 1 /\ Cardinality(B) = n
  BY <1>1, <1>2 DEF A, B
<1>4. IsFiniteSet(A \X B) /\ Cardinality(A \X B) = Cardinality(A) * Cardinality(B)
  BY <1>3, FS_Product
<1>5. IsFiniteSet(A \X B) /\ Cardinality(A \X B) = n
  BY <1>3, <1>4
<1> QED
  BY <1>5 DEF A, B

\* Two finite sets that do not meet hold together what each holds.
LEMMA SplitSize ==
  ASSUME NEW A, NEW B, IsFiniteSet(A), IsFiniteSet(B), A \cap B = {}
  PROVE  Cardinality(A \cup B) = Cardinality(A) + Cardinality(B)
<1>1. Cardinality(A) \in Nat /\ Cardinality(B) \in Nat
  BY FS_CardinalityType
<1>2. Cardinality({}) = 0
  BY FS_EmptySet
<1>3. /\ IsFiniteSet(A \cup B)
      /\ Cardinality(A \cup B) = Cardinality(A) + Cardinality(B) - Cardinality(A \cap B)
  BY FS_Union
<1>4. Cardinality(A \cap B) = 0
  BY <1>2
<1> QED
  BY <1>1, <1>3, <1>4

\* When a sequence of numbers moves on by one place, its sum changes by the number that
\* leaves and the one that enters.
LEMMA TotalShift ==
  ASSUME NEW D \in Nat \ {0}, NEW w \in [1 .. D -> Nat], NEW v \in [1 .. D -> Nat],
         \A i \in 1 .. D : i < D => v[i] = w[i + 1]
  PROVE  Total(v) = Total(w) - w[1] + v[D]
<1> DEFINE First == {1} \X (1 .. w[1])
           Later == {p \in Boxes(w) : p[1] > 1}
           Last == {D} \X (1 .. v[D])
           Before == {p \in Boxes(v) : p[1] < D}
           f == [p \in Later |-> <<p[1] - 1, p[2]>>]
<1>1. IsFiniteSet(Boxes(w)) /\ Total(w) \in Nat /\ IsFiniteSet(Boxes(v)) /\ Total(v) \in Nat
  BY BoxesFinite
<1>2. /\ \A p \in Boxes(w) : p = <<p[1], p[2]>> /\ p[1] \in 1 .. D /\ p[2] \in 1 .. w[p[1]]
      /\ \A i \in 1 .. D : \A k \in 1 .. w[i] : <<i, k>> \in Boxes(w)
  BY DEF Boxes
<1>3. /\ \A p \in Boxes(v) : p = <<p[1], p[2]>> /\ p[1] \in 1 .. D /\ p[2] \in 1 .. v[p[1]]
      /\ \A i \in 1 .. D : \A k \in 1 .. v[i] : <<i, k>> \in Boxes(v)
  BY DEF Boxes
<1>4. 1 \in 1 .. D /\ D \in 1 .. D /\ w[1] \in Nat /\ v[D] \in Nat
  OBVIOUS
<1>5. Boxes(w) = First \cup Later /\ First \cap Later = {}
  BY <1>2, <1>4
<1>6. Boxes(v) = Last \cup Before /\ Last \cap Before = {}
  BY <1>3, <1>4
<1>7. IsFiniteSet(Later) /\ IsFiniteSet(Before)
  BY <1>1, FS_Subset
<1>8. f \in [Later -> Before]
  <2> SUFFICES ASSUME NEW p \in Later PROVE <<p[1] - 1, p[2]>> \in Before
    OBVIOUS
  <2>1. p[1] - 1 \in 1 .. D /\ p[1] - 1 < D /\ p[2] \in 1 .. w[p[1]]
    BY <1>2
  <2>2. v[p[1] - 1] = w[p[1]]
    BY <2>1, <1>2
  <2>3. <<p[1] - 1, p[2]>> \in Boxes(v)
    BY <1>3, <2>1, <2>2
  <2> QED
    BY <2>1, <2>3
<1>9. \A x, y \in Later : f[x] = f[y] => x = y
  BY <1>2
<1>10. ASSUME NEW t \in Before PROVE \E x \in Later : f[x] = t
  <2>1. t = <<t[1], t[2]>> /\ t[1] \in 1 .. D /\ t[1] < D /\ t[2] \in 1 .. v[t[1]]
    BY <1>3
  <2>2. t[1] + 1 \in 1 .. D /\ w[t[1] + 1] = v[t[1]]
    BY <2>1
  <2> DEFINE x == <<t[1] + 1, t[2]>>
  <2>3. x \in Later
    BY <1>2, <2>1, <2>2
  <2>4. f[x] = t
    BY <2>1, <2>3
  <2> QED
    BY <2>3, <2>4
<1> HIDE DEF f, Later, Before, First, Last
<1>11. Cardinality(Before) = Cardinality(Later)
  BY <1>7, <1>8, <1>9, <1>10, SameSize
<1>12. /\ IsFiniteSet(First) /\ Cardinality(First) = w[1]
       /\ IsFiniteSet(Last) /\ Cardinality(Last) = v[D]
  BY <1>4, OneBox DEF First, Last
<1>13. Total(w) = Cardinality(First) + Cardinality(Later)
  <2>1. Cardinality(First \cup Later) = Cardinality(First) + Cardinality(Later)
    BY <1>5, <1>7, <1>12, SplitSize
  <2> QED
    BY <1>5, <2>1 DEF Total
<1>14. Total(v) = Cardinality(Last) + Cardinality(Before)
  <2>1. Cardinality(Last \cup Before) = Cardinality(Last) + Cardinality(Before)
    BY <1>6, <1>7, <1>12, SplitSize
  <2> QED
    BY <1>6, <2>1 DEF Total
<1>15. Cardinality(Later) \in Nat
  BY <1>7, FS_CardinalityType
<1> QED
  BY <1>4, <1>11, <1>12, <1>13, <1>14, <1>15

\* The sum of zeros is zero.
LEMMA TotalZero ==
  ASSUME NEW D \in Nat, NEW w \in [1 .. D -> Nat], \A i \in 1 .. D : w[i] = 0
  PROVE  Total(w) = 0
<1>1. Boxes(w) = {}
  BY DEF Boxes
<1> QED
  BY <1>1, FS_EmptySet DEF Total

\* The instructions of a list that need an entry of a queue.
Takers(insts, q) == {i \in DOMAIN insts : q \in Counted(insts[i].kind)}

\* The number of them is a natural number.
LEMMA CountsType ==
  ASSUME NEW insts \in Seq(Insts)
  PROVE  /\ Counts(insts) \in [Queues -> Nat]
         /\ \A q \in Queues : /\ Counts(insts)[q] = Cardinality(Takers(insts, q))
                              /\ IsFiniteSet(Takers(insts, q))
<1>1. ASSUME NEW q
      PROVE  IsFiniteSet(Takers(insts, q)) /\ Cardinality(Takers(insts, q)) \in Nat
  <2>1. DOMAIN insts = 1 .. Len(insts) /\ Len(insts) \in Nat
    OBVIOUS
  <2>2. IsFiniteSet(DOMAIN insts)
    BY <2>1, FS_Interval
  <2>3. Takers(insts, q) \subseteq DOMAIN insts
    BY DEF Takers
  <2> QED
    BY <2>2, <2>3, FS_Subset, FS_CardinalityType
<1>2. Counts(insts) = [q \in Queues |-> Cardinality(Takers(insts, q))]
  BY DEF Counts, Takers
<1> QED
  BY <1>1, <1>2

\* Two lists one behind the other hold what each holds.
LEMMA CountsConcat ==
  ASSUME NEW a \in Seq(Insts), NEW b \in Seq(Insts), NEW q \in Queues
  PROVE  Counts(a \o b)[q] = Counts(a)[q] + Counts(b)[q]
<1> DEFINE A == Takers(a, q)
           B == Takers(b, q)
           C == {i \in Takers(a \o b, q) : i > Len(a)}
           f == [i \in B |-> i + Len(a)]
<1>1. a \o b \in Seq(Insts) /\ Len(a) \in Nat /\ Len(b) \in Nat
  BY ConcatProperties
<1>2. /\ DOMAIN a = 1 .. Len(a) /\ DOMAIN b = 1 .. Len(b)
      /\ DOMAIN (a \o b) = 1 .. Len(a) + Len(b)
  BY <1>1, ConcatProperties
<1>3. \A i \in 1 .. Len(a) + Len(b) : (a \o b)[i] = IF i <= Len(a) THEN a[i] ELSE b[i - Len(a)]
  BY ConcatProperties
<1>4. /\ Counts(a)[q] = Cardinality(A) /\ IsFiniteSet(A)
      /\ Counts(b)[q] = Cardinality(B) /\ IsFiniteSet(B)
      /\ Counts(a \o b)[q] = Cardinality(Takers(a \o b, q)) /\ IsFiniteSet(Takers(a \o b, q))
  BY <1>1, CountsType
<1>5. Takers(a \o b, q) = A \cup C /\ A \cap C = {}
  <2>1. \A i \in 1 .. Len(a) : i \in Takers(a \o b, q) <=> i \in A
    BY <1>1, <1>2, <1>3 DEF Takers
  <2>2. Takers(a \o b, q) \subseteq 1 .. Len(a) + Len(b) /\ A \subseteq 1 .. Len(a)
    BY <1>2 DEF Takers
  <2> QED
    BY <1>1, <2>1, <2>2
<1>6. f \in [B -> C] /\ \A t \in C : \E i \in B : f[i] = t
  <2>1. ASSUME NEW i \in B PROVE i + Len(a) \in C
    <3>1. i \in 1 .. Len(b) /\ q \in Counted(b[i].kind)
      BY <1>2 DEF Takers
    <3>2. i + Len(a) \in 1 .. Len(a) + Len(b) /\ i + Len(a) > Len(a)
      BY <1>1, <3>1
    <3>3. (a \o b)[i + Len(a)] = b[i]
      <4>1. ~(i + Len(a) <= Len(a)) /\ (i + Len(a)) - Len(a) = i
        BY <1>1, <3>1
      <4> QED
        BY <1>3, <3>2, <4>1
    <3> QED
      BY <1>2, <3>1, <3>2, <3>3 DEF Takers
  <2>2. ASSUME NEW t \in C PROVE t - Len(a) \in B /\ f[t - Len(a)] = t
    <3>1. t \in 1 .. Len(a) + Len(b) /\ t > Len(a) /\ q \in Counted((a \o b)[t].kind)
      BY <1>2 DEF Takers
    <3>2. (a \o b)[t] = b[t - Len(a)] /\ t - Len(a) \in 1 .. Len(b)
      BY <1>1, <1>3, <3>1
    <3>3. t - Len(a) \in B
      BY <1>2, <3>1, <3>2 DEF Takers
    <3> QED
      BY <1>1, <3>1, <3>3
  <2> QED
    BY <2>1, <2>2
<1>7. \A x, y \in B : f[x] = f[y] => x = y
  BY <1>1, <1>2 DEF Takers
<1> HIDE DEF f, B, C, A
<1>8. IsFiniteSet(C) /\ Cardinality(C) = Cardinality(B)
  BY <1>4, <1>6, <1>7, SameSize
<1> QED
  BY <1>4, <1>5, <1>8, SplitSize

\* The empty list holds nothing.
LEMMA CountsEmpty == \A q \in Queues : Counts(<<>>)[q] = 0
<1>1. ASSUME NEW q PROVE Takers(<<>>, q) = {}
  BY DEF Takers
<1>2. <<>> \in Seq(Insts)
  OBVIOUS
<1> QED
  BY <1>1, <1>2, CountsType, FS_EmptySet

\* A list cut in two holds what its parts hold.
LEMMA CountsCut ==
  ASSUME NEW a \in Seq(Insts), NEW n \in 0 .. Len(a), NEW q \in Queues
  PROVE  Counts(a)[q] = Counts(SubSeq(a, 1, n))[q] + Counts(SubSeq(a, n + 1, Len(a)))[q]
<1> DEFINE b == SubSeq(a, 1, n)
           c == SubSeq(a, n + 1, Len(a))
<1>1. Len(a) \in Nat /\ n \in Nat /\ n <= Len(a)
  OBVIOUS
<1>2. /\ b \in Seq(Insts) /\ Len(b) = n /\ \A i \in 1 .. n : b[i] = a[i]
  BY <1>1
<1>3. /\ c \in Seq(Insts) /\ Len(c) = Len(a) - n
      /\ \A i \in 1 .. Len(a) - n : c[i] = a[n + i]
  BY <1>1
<1> HIDE DEF b, c
<1>4. /\ b \o c \in Seq(Insts) /\ Len(b \o c) = Len(a)
      /\ \A i \in 1 .. Len(a) : (b \o c)[i] = IF i <= n THEN b[i] ELSE c[i - n]
  <2>1. Len(b) + Len(c) = Len(a)
    BY <1>1, <1>2, <1>3
  <2>2. /\ b \o c \in Seq(Insts) /\ Len(b \o c) = Len(b) + Len(c)
        /\ \A i \in 1 .. Len(b) + Len(c) :
             (b \o c)[i] = IF i <= Len(b) THEN b[i] ELSE c[i - Len(b)]
    BY <1>2, <1>3, ConcatProperties
  <2> QED
    BY <1>2, <2>1, <2>2
<1>5. \A i \in 1 .. Len(a) : (b \o c)[i] = a[i]
  <2> SUFFICES ASSUME NEW i \in 1 .. Len(a) PROVE (b \o c)[i] = a[i]
    OBVIOUS
  <2>1. CASE i <= n
    BY <1>1, <1>2, <1>4, <2>1
  <2>2. CASE ~(i <= n)
    <3>1. i - n \in 1 .. Len(a) - n /\ n + (i - n) = i
      BY <1>1, <2>2
    <3> QED
      BY <1>3, <1>4, <2>2, <3>1
  <2> QED
    BY <2>1, <2>2
<1>6. b \o c = a
  BY <1>1, <1>4, <1>5, SeqEqual
<1> QED
  BY <1>2, <1>3, <1>6, CountsConcat DEF b, c

-----------------------------------------------------------------------------
(* What the operators of a tick return. *)

\* A step that leaves the lists alone loses nothing.
LEMMA KeepsSame ==
  ASSUME NEW r, NEW s, r.skid = s.skid, r.insts = s.insts, r.returned = s.returned
  PROVE  Keeps(r, s)
BY DEF Keeps, Work

\* Nor do two steps that lose nothing.
LEMMA KeepsBoth ==
  ASSUME NEW r, NEW s, NEW t, Keeps(r, s), Keeps(s, t)
  PROVE  Keeps(r, t)
BY DEF Keeps

\* What a list holds is a natural number.
LEMMA WorkTypes ==
  ASSUME NEW s \in TickStates, NEW q \in Queues
  PROVE  Counts(s.skid)[q] \in Nat /\ Counts(s.insts)[q] \in Nat /\ Counts(s.returned)[q] \in Nat
<1>1. s.skid \in Seq(Insts) /\ s.insts \in Seq(Insts) /\ s.returned \in Seq(Insts)
  BY DEF TickStates
<1>2. Counts(s.skid) \in [Queues -> Nat]
  BY <1>1, CountsType
<1>3. Counts(s.insts) \in [Queues -> Nat]
  BY <1>1, CountsType
<1>4. Counts(s.returned) \in [Queues -> Nat]
  BY <1>1, CountsType
<1> QED
  BY <1>2, <1>3, <1>4

\* skidInsert moves what arrives behind what waits.
LEMMA SkidInsertResult ==
  ASSUME NEW s \in TickStates
  PROVE  /\ SkidInsert(s) \in TickStates
         /\ SkidInsert(s).skid = s.skid \o s.insts /\ SkidInsert(s).insts = <<>>
         /\ SkidInsert(s).status = s.status
         /\ SkidInsert(s).block = s.block /\ SkidInsert(s).unblock = s.unblock
         /\ Len(SkidInsert(s).skid) = Len(s.skid) + Len(s.insts)
         /\ Keeps(SkidInsert(s), s)
<1>1. s.skid \in Seq(Insts) /\ s.insts \in Seq(Insts)
  BY DEF TickStates
<1>2. s.skid \o s.insts \in Seq(Insts) /\ Len(s.skid \o s.insts) = Len(s.skid) + Len(s.insts)
  BY <1>1, ConcatProperties
<1>3. <<>> \in Seq(Insts)
  OBVIOUS
<1> DEFINE t == SkidInsert(s)
<1>4. /\ t \in TickStates /\ t.skid = s.skid \o s.insts /\ t.insts = <<>>
      /\ t.status = s.status /\ t.block = s.block /\ t.unblock = s.unblock
      /\ t.returned = s.returned
  BY <1>2, <1>3, Zenon DEF SkidInsert, TickStates
<1> HIDE DEF t
<1>5. ASSUME NEW q \in Queues PROVE Work(t, q) = Work(s, q)
  <2>1. Counts(t.skid)[q] = Counts(s.skid)[q] + Counts(s.insts)[q]
    BY <1>1, <1>4, CountsConcat
  <2>2. Counts(t.insts)[q] = 0
    BY <1>4, CountsEmpty
  <2> QED
    BY <2>1, <2>2, <1>4, WorkTypes DEF Work
<1> QED
  BY <1>2, <1>4, <1>5 DEF t, Keeps

\* block tells rename once, and leaves nothing in the stage's input.
LEMMA BlockResult ==
  ASSUME NEW s \in TickStates
  PROVE  /\ Block(s) \in TickStates /\ Block(s).status = "Blocked"
         /\ Block(s).skid = s.skid \o s.insts /\ Block(s).insts = <<>>
         /\ Len(Block(s).skid) = Len(s.skid) + Len(s.insts)
         /\ Block(s).block <=> (s.block \/ s.status \notin Stopped)
         /\ Block(s).unblock = s.unblock /\ Keeps(Block(s), s)
<1> DEFINE t == SkidInsert(s)
           b == t.block \/ s.status \notin {"Blocked", "Unblocking"}
<1>1. t \in TickStates /\ t.status = s.status /\ t.skid = s.skid \o s.insts
      /\ t.insts = <<>> /\ t.block = s.block /\ t.unblock = s.unblock
      /\ Len(t.skid) = Len(s.skid) + Len(s.insts) /\ Keeps(t, s)
  BY SkidInsertResult
<1>2. Block(s) = [t EXCEPT !.block = b, !.status = "Blocked"]
  BY DEF Block
<1>3. b \in BOOLEAN /\ (b <=> (s.block \/ s.status \notin Stopped))
  BY <1>1 DEF Stopped
<1>4. "Blocked" \in Stopped \cup Flowing
  BY DEF Stopped
<1> HIDE DEF t, b
<1>5. /\ Block(s) \in TickStates /\ Block(s).status = "Blocked" /\ Block(s).block = b
      /\ Block(s).skid = t.skid /\ Block(s).insts = t.insts /\ Block(s).unblock = t.unblock
      /\ Block(s).returned = t.returned
  BY <1>1, <1>2, <1>3, <1>4, Zenon DEF TickStates
<1>6. Keeps(Block(s), s)
  BY <1>1, <1>5, KeepsSame, KeepsBoth
<1> QED
  BY <1>1, <1>3, <1>5, <1>6

\* unblock acts when nothing waits.
LEMMA UnblockResult ==
  ASSUME NEW s \in TickStates
  PROVE  /\ Unblock(s) \in TickStates /\ Unblock(s).skid = s.skid
         /\ Unblock(s).insts = s.insts /\ Unblock(s).block = s.block /\ Keeps(Unblock(s), s)
         /\ s.skid = <<>> => Unblock(s).status = "Running" /\ Unblock(s).unblock
         /\ s.skid # <<>> => Unblock(s) = s
<1>1. CASE s.skid = <<>>
  <2>1. Unblock(s) = [s EXCEPT !.unblock = TRUE, !.status = "Running"]
    BY <1>1 DEF Unblock
  <2>2. "Running" \in Stopped \cup Flowing
    BY DEF Flowing
  <2>3. /\ Unblock(s) \in TickStates /\ Unblock(s).skid = s.skid
        /\ Unblock(s).insts = s.insts /\ Unblock(s).block = s.block
        /\ Unblock(s).status = "Running" /\ Unblock(s).unblock = TRUE
        /\ Unblock(s).returned = s.returned
    BY <2>1, <2>2, Zenon DEF TickStates
  <2> QED
    BY <1>1, <2>3, KeepsSame
<1>2. CASE s.skid # <<>>
  BY <1>2, KeepsSame DEF Unblock
<1> QED
  BY <1>1, <1>2

\* What emptyRenameInsts drops is no longer in the stage's input.
LEMMA EmptyResult ==
  ASSUME NEW s \in TickStates
  PROVE  /\ EmptyRenameInsts(s) \in TickStates /\ EmptyRenameInsts(s).insts = <<>>
         /\ EmptyRenameInsts(s).skid = s.skid /\ EmptyRenameInsts(s).status = s.status
         /\ EmptyRenameInsts(s).block = s.block /\ EmptyRenameInsts(s).unblock = s.unblock
         /\ Keeps(EmptyRenameInsts(s), s)
<1>1. s.returned \in Seq(Insts) /\ s.insts \in Seq(Insts)
  BY DEF TickStates
<1>2. s.returned \o s.insts \in Seq(Insts)
  BY <1>1, ConcatProperties
<1>3. <<>> \in Seq(Insts)
  OBVIOUS
<1> DEFINE t == EmptyRenameInsts(s)
<1>4. /\ t \in TickStates /\ t.insts = <<>> /\ t.skid = s.skid /\ t.status = s.status
      /\ t.block = s.block /\ t.unblock = s.unblock /\ t.returned = s.returned \o s.insts
  BY <1>2, <1>3, Zenon DEF EmptyRenameInsts, TickStates
<1> HIDE DEF t
<1>5. ASSUME NEW q \in Queues PROVE Work(t, q) = Work(s, q)
  <2>1. Counts(t.returned)[q] = Counts(s.returned)[q] + Counts(s.insts)[q]
    BY <1>1, <1>4, CountsConcat
  <2>2. Counts(t.insts)[q] = 0
    BY <1>4, CountsEmpty
  <2> QED
    BY <2>1, <2>2, <1>4, WorkTypes DEF Work
<1> QED
  BY <1>4, <1>5 DEF t, Keeps

\* A squash empties the stage, and takes back a block that rename was told of.
LEMMA SquashedResult ==
  ASSUME NEW s \in TickStates
  PROVE  /\ Squashed(s) \in TickStates /\ Squashed(s).status = "Squashing"
         /\ Squashed(s).skid = <<>> /\ Squashed(s).block = s.block
         /\ Squashed(s).unblock <=> s.status \in Stopped
         /\ Squashed(s).insts = <<>> /\ Keeps(Squashed(s), s)
<1> DEFINE all == s.returned \o s.skid
           u == [s EXCEPT !.returned = all, !.skid = <<>>]
           v == EmptyRenameInsts(u)
           b == s.status \in {"Blocked", "Unblocking"}
<1>1. s.returned \in Seq(Insts) /\ s.skid \in Seq(Insts)
  BY DEF TickStates
<1>2. all \in Seq(Insts) /\ <<>> \in Seq(Insts)
  BY <1>1, ConcatProperties
<1>3. /\ u \in TickStates /\ u.skid = <<>> /\ u.block = s.block /\ u.insts = s.insts
      /\ u.returned = all
  <2> HIDE DEF all
  <2> QED
    BY <1>2, Zenon DEF TickStates
<1>9. Keeps(u, s)
  <2> SUFFICES ASSUME NEW q \in Queues PROVE Work(u, q) = Work(s, q)
    BY DEF Keeps
  <2>1. Counts(all)[q] = Counts(s.returned)[q] + Counts(s.skid)[q]
    BY <1>1, CountsConcat
  <2>2. Counts(<<>>)[q] = 0
    BY CountsEmpty
  <2> HIDE DEF all, u
  <2> QED
    BY <2>1, <2>2, <1>3, WorkTypes DEF Work
<1>4. v \in TickStates /\ v.skid = <<>> /\ v.block = s.block /\ v.insts = <<>> /\ Keeps(v, s)
  <2> HIDE DEF u
  <2>1. /\ v \in TickStates /\ v.skid = u.skid /\ v.block = u.block /\ v.insts = <<>>
        /\ Keeps(v, u)
    BY <1>3, EmptyResult
  <2> QED
    BY <2>1, <1>3, <1>9, KeepsBoth
<1>5. Squashed(s) = [v EXCEPT !.unblock = b, !.status = "Squashing"]
  BY DEF Squashed, Squash
<1>6. b \in BOOLEAN /\ (b <=> s.status \in Stopped)
  BY DEF Stopped
<1>7. "Squashing" \in Stopped \cup Flowing
  BY DEF Flowing
<1> HIDE DEF v, b
<1>8. /\ Squashed(s) \in TickStates /\ Squashed(s).status = "Squashing"
      /\ Squashed(s).skid = v.skid /\ Squashed(s).block = v.block /\ Squashed(s).unblock = b
      /\ Squashed(s).insts = v.insts /\ Squashed(s).returned = v.returned
  BY <1>4, <1>5, <1>6, <1>7, Zenon DEF TickStates
<1>10. Keeps(Squashed(s), s)
  BY <1>4, <1>8, KeepsSame, KeepsBoth
<1> QED
  BY <1>4, <1>6, <1>8, <1>10

\* What dispatchInsts may insert is a number of the instructions it is given.
LEMMA DispatchableBound ==
  ASSUME NEW s, NEW insts \in Seq(Insts)
  PROVE  Dispatchable(s, insts) \in 0 .. Len(insts)
<1> DEFINE P == {n \in 1 .. Len(insts) :
              n <= DispatchWidth /\ \A k \in 1 .. n : HasRoom(s, insts, k)}
<1>1. IsFiniteSet(1 .. Len(insts)) /\ Cardinality(1 .. Len(insts)) = Len(insts)
  <2>1. Len(insts) \in Nat
    OBVIOUS
  <2> DEFINE l == Len(insts)
  <2> HIDE DEF l, P
  <2>2. IsFiniteSet(1 .. l) /\ Cardinality(1 .. l) = l
    <3>1. 1 \in Int /\ l \in Int /\ l >= 0
      BY <2>1 DEF l
    <3> QED
      BY <3>1, FS_Interval
  <2> QED
    BY <2>2 DEF l
<1>2. P \subseteq 1 .. Len(insts)
  OBVIOUS
<1>3. IsFiniteSet(P) /\ Cardinality(P) <= Len(insts)
  <2> HIDE DEF P
  <2> QED
    BY <1>1, <1>2, FS_Subset
<1>4. Cardinality(P) \in Nat
  <2> HIDE DEF P
  <2> QED
    BY <1>3, FS_CardinalityType
<1>5. Dispatchable(s, insts) = Cardinality(P)
  BY DEF Dispatchable
<1> HIDE DEF P
<1> QED
  BY <1>3, <1>4, <1>5

\* Inserting instructions counts the entries they take.
LEMMA UsedAfterType ==
  ASSUME NEW s \in TickStates, NEW insts, NEW n \in Nat
  PROVE  UsedAfter(s, insts, n) \in [Queues -> Nat]
<1> DEFINE taken(q) == {i \in 1 .. n : ~insts[i].squashed /\ q \in Needs(insts[i].kind)}
<1>1. ASSUME NEW q \in Queues PROVE s.used[q] + Cardinality(taken(q)) \in Nat
  <2>1. taken(q) \subseteq 1 .. n /\ IsFiniteSet(1 .. n)
    BY FS_Interval
  <2>2. Cardinality(taken(q)) \in Nat
    <3> HIDE DEF taken
    <3> QED
      BY <2>1, FS_Subset, FS_CardinalityType
  <2>3. s.used[q] \in Nat
    BY DEF TickStates
  <2> HIDE DEF taken
  <2> QED
    BY <2>2, <2>3
<1>2. UsedAfter(s, insts, n) = [q \in Queues |-> s.used[q] + Cardinality(taken(q))]
  BY DEF UsedAfter
<1> HIDE DEF taken
<1> QED
  BY <1>1, <1>2, Zenon

\* dispatchInsts, whichever list it takes, either finishes it or blocks.
LEMMA DispatchResult ==
  ASSUME NEW s \in TickStates, s.status \in {"Running", "Unblocking"},
         s.status = "Running" => s.skid = <<>>
  PROVE  LET r == DispatchInsts(s) IN
         /\ r \in TickStates
         /\ Len(r.skid) + Len(r.insts) <= Len(s.skid) + Len(s.insts)
         /\ Keeps(r, s)
         /\ \/ /\ r.status = s.status /\ r.block = s.block /\ r.unblock = s.unblock
               /\ r.skid = <<>>
               /\ s.status = "Running" => r.insts = <<>>
            \/ /\ r.status = "Blocked" /\ r.skid # <<>> /\ r.insts = <<>> /\ ~r.unblock
               /\ r.block <=> (s.block \/ s.status = "Running")
<1> DEFINE skidded == s.status = "Unblocking"
           insts == IF skidded THEN s.skid ELSE s.insts
           n     == Dispatchable(s, insts)
           rest  == SubSeq(insts, n + 1, Len(insts))
           ret   == s.returned \o SubSeq(insts, 1, n)
           ua    == UsedAfter(s, insts, n)
           sk    == IF skidded THEN rest ELSE s.skid
           ins   == IF skidded THEN s.insts ELSE rest
           p     == [s EXCEPT !.used = ua, !.returned = ret, !.skid = sk, !.insts = ins]
<1>1. s.skid \in Seq(Insts) /\ s.insts \in Seq(Insts) /\ s.returned \in Seq(Insts)
      /\ s.block \in BOOLEAN /\ s.unblock \in BOOLEAN
  BY DEF TickStates
<1>2. insts \in Seq(Insts) /\ Len(insts) \in Nat
  BY <1>1
<1>3. n \in 0 .. Len(insts)
  <2> HIDE DEF insts
  <2> QED
    BY <1>2, DispatchableBound
<1>4. rest \in Seq(Insts) /\ Len(rest) <= Len(insts) /\ Len(rest) \in Nat
      /\ SubSeq(insts, 1, n) \in Seq(Insts)
  <2> HIDE DEF insts, n
  <2> QED
    BY <1>2, <1>3
<1>5. ret \in Seq(Insts)
  <2> DEFINE taken == SubSeq(insts, 1, n)
  <2> HIDE DEF taken
  <2> QED
    BY <1>1, <1>4, ConcatProperties DEF taken
<1>6. ua \in [Queues -> Nat]
  <2> HIDE DEF insts, n
  <2> QED
    BY <1>2, <1>3, UsedAfterType
<1>7. sk \in Seq(Insts) /\ ins \in Seq(Insts)
  <2> HIDE DEF rest
  <2> QED
    BY <1>1, <1>4
<1>8. /\ p \in TickStates /\ p.skid = sk /\ p.insts = ins /\ p.status = s.status
      /\ p.block = s.block /\ p.unblock = s.unblock /\ p.returned = ret
  <2> HIDE DEF ret, ua, sk, ins
  <2> QED
    BY <1>5, <1>6, <1>7, Zenon DEF TickStates
<1>13. Keeps(p, s)
  <2> SUFFICES ASSUME NEW q \in Queues PROVE Work(p, q) = Work(s, q)
    BY DEF Keeps
  <2> DEFINE taken == SubSeq(insts, 1, n)
  <2>1. Counts(insts)[q] = Counts(taken)[q] + Counts(rest)[q]
    <3> HIDE DEF insts, n
    <3> QED
      BY <1>2, <1>3, CountsCut
  <2>2. Counts(ret)[q] = Counts(s.returned)[q] + Counts(taken)[q]
    <3> HIDE DEF taken
    <3> QED
      BY <1>1, <1>4, CountsConcat DEF taken
  <2>3. Counts(taken) \in [Queues -> Nat] /\ Counts(rest) \in [Queues -> Nat]
    <3> HIDE DEF rest, taken
    <3>1. Counts(taken) \in [Queues -> Nat]
      BY <1>4, CountsType DEF taken
    <3>2. Counts(rest) \in [Queues -> Nat]
      BY <1>4, CountsType
    <3> QED
      BY <3>1, <3>2
  <2>4. Counts(s.skid)[q] \in Nat /\ Counts(s.insts)[q] \in Nat /\ Counts(s.returned)[q] \in Nat
    BY WorkTypes
  <2>5. Counts(sk)[q] + Counts(ins)[q] + Counts(taken)[q] = Counts(s.skid)[q] + Counts(s.insts)[q]
    <3>1. CASE skidded
      <4>1. sk = rest /\ ins = s.insts /\ insts = s.skid
        BY <3>1
      <4> HIDE DEF sk, ins, insts, rest, taken
      <4> QED
        BY <4>1, <2>1, <2>3, <2>4
    <3>2. CASE ~skidded
      <4>1. sk = s.skid /\ ins = rest /\ insts = s.insts
        BY <3>2
      <4> HIDE DEF sk, ins, insts, rest, taken
      <4> QED
        BY <4>1, <2>1, <2>3, <2>4
    <3> QED
      BY <3>1, <3>2
  <2>6. Work(p, q) = Counts(sk)[q] + Counts(ins)[q] + Counts(ret)[q]
    <3> HIDE DEF p, sk, ins, ret
    <3> QED
      BY <1>8 DEF Work
  <2>7. Counts(sk)[q] \in Nat /\ Counts(ins)[q] \in Nat
    <3> HIDE DEF p, sk, ins, ret
    <3>1. Counts(p.skid)[q] \in Nat /\ Counts(p.insts)[q] \in Nat
      BY <1>8, WorkTypes
    <3> QED
      BY <1>8, <3>1
  <2> HIDE DEF sk, ins, insts, rest, taken, ret, p
  <2> QED
    BY <2>2, <2>3, <2>4, <2>5, <2>6, <2>7 DEF Work
<1>9. DispatchInsts(s) = IF rest = <<>> THEN p ELSE [Block(p) EXCEPT !.unblock = FALSE]
  BY DEF DispatchInsts
<1>10. Len(sk) + Len(ins) <= Len(s.skid) + Len(s.insts)
       /\ (rest = <<>> /\ skidded => sk = <<>>) /\ (~skidded => sk = <<>> /\ ins = rest)
  <2> HIDE DEF rest
  <2>1. CASE skidded
    <3>1. sk = rest /\ ins = s.insts /\ insts = s.skid
      BY <2>1
    <3>2. Len(s.skid) \in Nat /\ Len(s.insts) \in Nat
      BY <1>1
    <3> HIDE DEF sk, ins, insts
    <3> QED
      BY <2>1, <3>1, <3>2, <1>4
  <2>2. CASE ~skidded
    <3>1. sk = s.skid /\ ins = rest /\ insts = s.insts /\ s.skid = <<>>
      BY <2>2
    <3>2. Len(s.skid) \in Nat /\ Len(s.insts) \in Nat
      BY <1>1
    <3> HIDE DEF sk, ins, insts
    <3> QED
      BY <2>2, <3>1, <3>2, <1>4
  <2> QED
    BY <2>1, <2>2
<1>11. CASE rest = <<>>
  <2> HIDE DEF p, sk, ins, rest
  <2>1. DispatchInsts(s) = p
    BY <1>9, <1>11
  <2>2. sk = <<>> /\ (s.status = "Running" => ins = <<>>)
    BY <1>10, <1>11
  <2> QED
    BY <2>1, <2>2, <1>8, <1>10, <1>13
<1>12. CASE rest # <<>>
  <2> DEFINE b == Block(p)
             r == [b EXCEPT !.unblock = FALSE]
  <2>1. /\ b \in TickStates /\ b.status = "Blocked" /\ b.skid = sk \o ins /\ b.insts = <<>>
        /\ Len(b.skid) = Len(sk) + Len(ins) /\ (b.block <=> (s.block \/ s.status \notin Stopped))
        /\ Keeps(b, s)
    <3> HIDE DEF p, sk, ins, rest
    <3> QED
      BY <1>8, <1>13, BlockResult, KeepsBoth
  <2>2. DispatchInsts(s) = r
    BY <1>9, <1>12
  <2>3. /\ r \in TickStates /\ r.status = b.status /\ r.skid = b.skid /\ r.insts = b.insts
        /\ r.block = b.block /\ r.unblock = FALSE /\ r.returned = b.returned
    <3> HIDE DEF b
    <3> QED
      BY <2>1, Zenon DEF TickStates
  <2>4. Len(sk) + Len(ins) > 0
    <3>1. Len(rest) > 0
      <4> HIDE DEF rest
      <4> QED
        BY <1>4, <1>12, EmptySeq
    <3> HIDE DEF rest
    <3> QED
      BY <1>1, <1>4, <3>1
  <2>5. /\ Len(r.skid) > 0 /\ r.insts = <<>>
        /\ Len(r.skid) + Len(r.insts) <= Len(s.skid) + Len(s.insts)
    <3> HIDE DEF r, b, sk, ins
    <3>1. Len(r.skid) = Len(sk) + Len(ins) /\ r.insts = <<>> /\ Len(r.insts) = 0
      BY <2>1, <2>3
    <3>2. Len(sk) \in Nat /\ Len(ins) \in Nat /\ Len(s.skid) \in Nat /\ Len(s.insts) \in Nat
      BY <1>1, <1>7
    <3>3. Len(sk) + Len(ins) <= Len(s.skid) + Len(s.insts)
      BY <1>10
    <3> DEFINE a == Len(sk)
               c == Len(ins)
               d == Len(s.skid) + Len(s.insts)
               e == Len(r.skid)
    <3>4. e = a + c /\ a + c <= d
      BY <3>1, <3>3
    <3>5. a \in Nat /\ c \in Nat /\ a + c > 0
      BY <3>2, <2>4
    <3> HIDE DEF a, c, d, e
    <3>6. e > 0 /\ e + 0 = e
      BY <3>4, <3>5
    <3>7. e + 0 <= d
      BY <3>4, <3>6
    <3> QED
      BY <3>1, <3>6, <3>7 DEF d, e
  <2>6. r.skid # <<>>
    <3> HIDE DEF r
    <3> QED
      BY <2>5
  <2> HIDE DEF r, b, p, sk, ins, rest
  <2>7. r.block <=> (s.block \/ s.status = "Running")
    BY <2>1, <2>3 DEF Stopped
  <2>8. Keeps(r, s)
    BY <2>1, <2>3, KeepsSame, KeepsBoth
  <2> QED
    BY <2>1, <2>2, <2>3, <2>5, <2>6, <2>7, <2>8
<1> QED
  BY <1>11, <1>12

\* Dispatching from the input of the stage, with an empty skid buffer.
LEMMA RunningStage ==
  ASSUME NEW s \in TickStates, NEW blocked \in BOOLEAN, s.status = "Running",
         s.skid = <<>>, ~s.block, s.unblock <=> blocked
  PROVE  Outcome(DispatchStage(s), blocked, s)
<1> DEFINE r == DispatchInsts(s)
<1>1. /\ r \in TickStates /\ Len(r.skid) + Len(r.insts) <= Len(s.skid) + Len(s.insts)
      /\ Keeps(r, s)
      /\ \/ /\ r.status = "Running" /\ r.block = s.block /\ r.unblock = s.unblock
            /\ r.skid = <<>> /\ r.insts = <<>>
         \/ /\ r.status = "Blocked" /\ r.skid # <<>> /\ r.insts = <<>> /\ ~r.unblock
            /\ r.block <=> (s.block \/ s.status = "Running")
  BY DispatchResult
<1>2. DispatchStage(s) = r
  BY DEF DispatchStage
<1> HIDE DEF r
<1>3. r.skid \in Seq(Insts) /\ r.insts \in Seq(Insts) /\ s.insts \in Seq(Insts)
  BY <1>1 DEF TickStates
<1>4. Len(r.skid) <= Len(s.skid) + Len(s.insts)
  <2>1. Len(s.skid) = 0 /\ Len(r.insts) = 0
    BY <1>1
  <2>2. Len(r.skid) \in Nat /\ Len(s.insts) \in Nat
    BY <1>3
  <2> QED
    BY <1>1, <2>1, <2>2
<1>5. r.block \in BOOLEAN /\ r.unblock \in BOOLEAN /\ s.block \in BOOLEAN /\ s.unblock \in BOOLEAN
  BY <1>1, Zenon DEF TickStates
<1> QED
  BY <1>1, <1>2, <1>4, <1>5 DEF Outcome, Stopped, Flowing

\* Dispatching from the skid buffer, behind which the input of the stage waits.
LEMMA UnblockingStage ==
  ASSUME NEW s \in TickStates, s.status = "Unblocking", ~s.block, ~s.unblock
  PROVE  Outcome(DispatchStage(s), TRUE, s)
<1> DEFINE d == DispatchInsts(s)
           t == SkidInsert(d)
           r == Unblock(t)
<1>1. /\ d \in TickStates /\ Len(d.skid) + Len(d.insts) <= Len(s.skid) + Len(s.insts)
      /\ Keeps(d, s)
      /\ \/ d.status = "Unblocking" /\ d.block = s.block /\ d.unblock = s.unblock
         \/ /\ d.status = "Blocked" /\ d.skid # <<>> /\ d.insts = <<>> /\ ~d.unblock
            /\ d.block <=> (s.block \/ s.status = "Running")
  BY DispatchResult
<1>2. DispatchStage(s) = r
  BY DEF DispatchStage
<1>3. /\ t \in TickStates /\ t.skid = d.skid \o d.insts /\ t.status = d.status
      /\ t.block = d.block /\ t.unblock = d.unblock /\ Len(t.skid) = Len(d.skid) + Len(d.insts)
      /\ t.insts = <<>> /\ Keeps(t, d)
  <2> HIDE DEF d
  <2> QED
    BY <1>1, SkidInsertResult
<1>4. /\ r \in TickStates /\ r.skid = t.skid /\ r.block = t.block /\ r.insts = t.insts
      /\ Keeps(r, t)
      /\ t.skid = <<>> => r.status = "Running" /\ r.unblock
      /\ t.skid # <<>> => r = t
  <2> HIDE DEF t
  <2> QED
    BY <1>3, UnblockResult
<1> HIDE DEF d, t, r
<1>5. Len(r.skid) <= Len(s.skid) + Len(s.insts)
  BY <1>1, <1>3, <1>4
<1>6. d.status = "Blocked" => t.skid # <<>>
  <2> SUFFICES ASSUME d.status = "Blocked", t.skid = <<>> PROVE FALSE
    OBVIOUS
  <2>1. d.skid \in Seq(Insts) /\ d.insts \in Seq(Insts) /\ d.skid # <<>>
    BY <1>1 DEF TickStates
  <2> DEFINE a == Len(d.skid)
             b == Len(d.insts)
  <2>2. a \in Nat /\ a > 0 /\ b \in Nat
    BY <2>1, EmptySeq
  <2>3. a + b = 0
    BY <1>3
  <2> HIDE DEF a, b
  <2> QED
    BY <2>2, <2>3
<1>7. r.block \in BOOLEAN /\ r.unblock \in BOOLEAN
  BY <1>4, Zenon DEF TickStates
<1>8. Keeps(r, s)
  BY <1>1, <1>3, <1>4, KeepsBoth
<1> QED
  BY <1>1, <1>2, <1>3, <1>4, <1>5, <1>6, <1>7, <1>8 DEF Outcome, Stopped, Flowing

\* What arrives is the oldest batch of the wire, with the mark of a squash.
LEMMA ArrivingResult ==
  ASSUME Types
  PROVE  /\ Arriving \in Seq(Insts) /\ Len(Arriving) = Len(wire[1])
         /\ Len(Arriving) <= RenameWidth
         /\ \A q \in Queues : Counts(Arriving)[q] = KindCounts(wire[1])[q]
<1>1. RenameToIEWDelay \in Nat \ {0} /\ RenameWidth \in Nat
  BY DispatchAssumption
<1>2. wire[1] \in Batches
  BY <1>1 DEF Types
<1>3. PICK n \in 0 .. RenameWidth : wire[1] \in [1 .. n -> Kinds]
  BY <1>2 DEF Batches
<1>4. wire[1] \in Seq(Kinds) /\ Len(wire[1]) = n /\ DOMAIN wire[1] = 1 .. n
  BY <1>1, <1>3
<1>5. Arriving = [i \in 1 .. n |-> [kind |-> wire[1][i], squashed |-> doomed > 0]]
  BY <1>4 DEF Arriving
<1>6. \A i \in 1 .. n : [kind |-> wire[1][i], squashed |-> doomed > 0] \in Insts
  <2>1. (doomed > 0) \in BOOLEAN
    BY DEF Types
  <2>2. \A i \in 1 .. n : wire[1][i] \in Kinds
    BY <1>3
  <2> QED
    BY <2>1, <2>2, Zenon DEF Insts
<1>7. Arriving \in [1 .. n -> Insts]
  BY <1>5, <1>6, Zenon
<1>8. ASSUME NEW q \in Queues PROVE Counts(Arriving)[q] = KindCounts(wire[1])[q]
  <2>1. DOMAIN Arriving = DOMAIN wire[1] /\ \A i \in 1 .. n : Arriving[i].kind = wire[1][i]
    BY <1>4, <1>5
  <2>2. {i \in DOMAIN Arriving : q \in Counted(Arriving[i].kind)}
          = {i \in DOMAIN wire[1] : q \in Counted(wire[1][i])}
    BY <1>4, <2>1
  <2> QED
    BY <2>2 DEF Counts, KindCounts
<1> QED
  BY <1>1, <1>3, <1>4, <1>7, <1>8

\* An outcome of one record is one of another that holds the same.
LEMMA OutcomeFrom ==
  ASSUME NEW r, NEW blocked, NEW s, NEW t, Outcome(r, blocked, s), Keeps(s, t),
         s.skid = t.skid, s.insts = t.insts
  PROVE  Outcome(r, blocked, t)
BY KeepsBoth DEF Outcome

\* A tick, from the states IInv allows.
LEMMA TickResult ==
  ASSUME Types, NoOvertaking
  PROVE  Outcome(AfterDispatch, status \in Stopped, Start)
<1>1. Arriving \in Seq(Insts) /\ Len(Arriving) = Len(wire[1])
  BY ArrivingResult
<1>2. /\ Start \in TickStates /\ Start.status = status /\ Start.skid = skid
      /\ Start.insts = Arriving /\ Start.used = used /\ ~Start.block /\ ~Start.unblock
  <2>1. <<>> \in Seq(Insts) /\ FALSE \in BOOLEAN
    OBVIOUS
  <2> QED
    BY <1>1, <2>1, Zenon DEF Start, Types, TickStates
<1>3. skid \in Seq(Insts) /\ Len(skid) \in Nat /\ Len(Arriving) \in Nat
  BY <1>1 DEF Types
<1>4. status \in Stopped \cup Flowing
  BY DEF Types
<1> DEFINE s == Start
           c == CheckSignalsAndUpdate(Start)
<1>5. CASE commit = "squash"
  <2>1. c = Squashed(s)
    BY <1>5 DEF CheckSignalsAndUpdate
  <2>2. /\ c \in TickStates /\ c.status = "Squashing" /\ c.skid = <<>> /\ c.block = s.block
        /\ c.unblock <=> s.status \in Stopped
        /\ c.insts = <<>> /\ Keeps(c, s)
    <3> HIDE DEF s
    <3> QED
      BY <2>1, <1>2, SquashedResult DEF s
  <2> HIDE DEF c
  <2>3. DispatchStage(c) = c
    BY <2>2 DEF DispatchStage
  <2>4. c.unblock \in BOOLEAN /\ Len(c.skid) = 0
    BY <2>2 DEF TickStates
  <2>5. Len(c.skid) <= Len(Start.skid) + Len(Start.insts)
    BY <2>4, <1>2, <1>3
  <2>6. Outcome(c, status \in Stopped, Start)
    BY <2>2, <2>4, <2>5, <1>2 DEF Outcome, Stopped, Flowing
  <2> QED
    BY <2>3, <2>6 DEF AfterDispatch, c
<1>6. CASE commit = "squashing"
  <2> DEFINE u == [s EXCEPT !.status = "Squashing"]
             v == EmptyRenameInsts(u)
  <2>1. c = Block(v)
    BY <1>6 DEF CheckSignalsAndUpdate
  <2>2. /\ u \in TickStates /\ u.status = "Squashing" /\ u.skid = skid /\ ~u.unblock
        /\ u.insts = s.insts /\ u.returned = s.returned
    <3>1. "Squashing" \in Stopped \cup Flowing
      BY DEF Flowing
    <3> HIDE DEF s
    <3> QED
      BY <3>1, <1>2, Zenon DEF TickStates, s
  <2>3. /\ v \in TickStates /\ v.status = "Squashing" /\ v.skid = skid /\ v.insts = <<>>
        /\ ~v.unblock /\ Keeps(v, s)
    <3>1. u.skid = s.skid
      BY <2>2, <1>2
    <3> HIDE DEF u, s
    <3>2. Keeps(u, s)
      BY <2>2, <3>1, KeepsSame
    <3> QED
      BY <2>2, <3>2, EmptyResult, KeepsBoth
  <2>4. /\ c \in TickStates /\ c.status = "Blocked" /\ Len(c.skid) = Len(skid) + 0
        /\ c.block /\ ~c.unblock /\ c.insts = <<>> /\ Keeps(c, s)
    <3> HIDE DEF v, c, s
    <3>1. Len(v.insts) = 0
      BY <2>3
    <3>2. "Squashing" \notin Stopped
      BY DEF Stopped
    <3> QED
      BY <2>1, <2>3, <3>1, <3>2, BlockResult, KeepsBoth
  <2> HIDE DEF c
  <2>5. DispatchStage(c) = c
    BY <2>4 DEF DispatchStage
  <2>6. Len(c.skid) <= Len(Start.skid) + Len(Start.insts)
    BY <2>4, <1>2, <1>3
  <2>7. Outcome(c, status \in Stopped, Start)
    BY <2>4, <2>6 DEF Outcome, Stopped, Flowing
  <2> QED
    BY <2>5, <2>7 DEF AfterDispatch, c
<1>7. CASE commit = "none" /\ s.used["IQ"] = Size["IQ"]
  <2>1. c = Block(s)
    BY <1>7 DEF CheckSignalsAndUpdate
  <2>2. /\ c \in TickStates /\ c.status = "Blocked"
        /\ Len(c.skid) = Len(skid) + Len(Arriving)
        /\ c.block <=> status \notin Stopped
        /\ ~c.unblock /\ c.insts = <<>> /\ Keeps(c, s)
    <3> HIDE DEF s
    <3> QED
      BY <2>1, <1>2, BlockResult DEF s
  <2> HIDE DEF c
  <2>3. DispatchStage(c) = c
    BY <2>2 DEF DispatchStage
  <2>4. Len(c.skid) <= Len(Start.skid) + Len(Start.insts)
    BY <2>2, <1>2, <1>3
  <2>5. Outcome(c, status \in Stopped, Start)
    BY <2>2, <2>4 DEF Outcome, Stopped, Flowing
  <2> QED
    BY <2>3, <2>5 DEF AfterDispatch, c
<1>8. CASE commit \notin {"squash", "squashing"} /\ ~(commit = "none" /\ s.used["IQ"] = Size["IQ"])
  <2> DEFINE u == [s EXCEPT !.status = "Unblocking"]
  <2>1. c = CASE s.status = "Blocked"   -> Unblock(u)
              [] s.status = "Squashing" -> [s EXCEPT !.status = "Running"]
              [] OTHER                  -> s
    BY <1>8 DEF CheckSignalsAndUpdate
  <2>2. CASE status = "Blocked"
    <3>1. c = Unblock(u)
      BY <2>1, <2>2, <1>2
    <3>2. /\ u \in TickStates /\ u.status = "Unblocking" /\ u.skid = skid /\ u.insts = Arriving
          /\ ~u.block /\ ~u.unblock /\ u.returned = s.returned
      <4>1. "Unblocking" \in Stopped \cup Flowing
        BY DEF Stopped
      <4> HIDE DEF s
      <4> QED
        BY <4>1, <1>2, Zenon DEF TickStates, s
    <3>3. /\ c \in TickStates /\ c.skid = skid /\ c.insts = Arriving /\ ~c.block
          /\ skid = <<>> => c.status = "Running" /\ c.unblock
          /\ skid # <<>> => c.status = "Unblocking" /\ ~c.unblock
          /\ Keeps(c, s)
      <4>1. u.skid = s.skid /\ u.insts = s.insts
        BY <3>2, <1>2
      <4> HIDE DEF u, c, s
      <4>2. Keeps(u, s)
        BY <3>2, <4>1, KeepsSame
      <4> QED
        BY <3>1, <3>2, <4>2, UnblockResult, KeepsBoth
    <3> HIDE DEF c
    <3>4. Outcome(DispatchStage(c), TRUE, c)
      <4>1. CASE skid = <<>>
        <5>1. c.unblock <=> TRUE
          BY <3>3, <4>1
        <5> QED
          BY <3>3, <4>1, <5>1, RunningStage
      <4>2. CASE skid # <<>>
        BY <3>3, <4>2, UnblockingStage
      <4> QED
        BY <4>1, <4>2
    <3>5. Outcome(DispatchStage(c), TRUE, Start)
      BY <3>3, <3>4, <1>2, OutcomeFrom
    <3> QED
      BY <3>5, <2>2 DEF AfterDispatch, Stopped, c
  <2>3. CASE status = "Unblocking"
    <3>1. c = s
      BY <2>1, <2>3, <1>2
    <3> HIDE DEF c
    <3>2. Outcome(DispatchStage(c), TRUE, Start)
      BY <3>1, <1>2, <2>3, UnblockingStage
    <3> QED
      BY <3>2, <2>3 DEF AfterDispatch, Stopped, c
  <2>4. CASE status \in Flowing
    <3>1. skid = <<>> /\ Len(skid) = 0
      BY <2>4 DEF NoOvertaking, Flowing
    <3>2. /\ c \in TickStates /\ c.status = "Running" /\ c.skid = skid /\ c.insts = Arriving
          /\ ~c.block /\ ~c.unblock /\ c.returned = s.returned
      <4>1. CASE status = "Running"
        BY <4>1, <2>1, <1>2
      <4>2. CASE status = "Squashing"
        <5>1. c = [s EXCEPT !.status = "Running"]
          BY <4>2, <2>1, <1>2
        <5>2. "Running" \in Stopped \cup Flowing
          BY DEF Flowing
        <5> HIDE DEF s, c
        <5> QED
          BY <5>1, <5>2, <1>2, Zenon DEF TickStates, s
      <4> QED
        BY <4>1, <4>2, <2>4 DEF Flowing
    <3> HIDE DEF c
    <3>3. Outcome(DispatchStage(c), FALSE, c)
      BY <3>1, <3>2, RunningStage
    <3>4. Keeps(c, s)
      <4>1. c.skid = s.skid /\ c.insts = s.insts /\ c.returned = s.returned
        BY <3>2, <1>2
      <4> HIDE DEF s
      <4> QED
        BY <4>1, KeepsSame
    <3>5. Outcome(DispatchStage(c), FALSE, Start)
      BY <3>2, <3>3, <3>4, <1>2, OutcomeFrom
    <3>6. (status \in Stopped) = FALSE
      BY <2>4 DEF Stopped, Flowing
    <3> QED
      BY <3>5, <3>6 DEF AfterDispatch, c
  <2> QED
    BY <2>2, <2>3, <2>4, <1>4 DEF Stopped
<1> QED
  BY <1>5, <1>6, <1>7, <1>8

-----------------------------------------------------------------------------
(* The invariant *)

\* The variables of IEW after its tick are those of a record TickResult describes, and
\* its signals the last on their way.
LEMMA IEWTickResult ==
  ASSUME Types, NoOvertaking, IEWTick
  PROVE  /\ Outcome(AfterDispatch, status \in Stopped, Start)
         /\ status' = AfterDispatch.status /\ skid' = AfterDispatch.skid
         /\ used' \in [Queues -> Nat]
         /\ DOMAIN back' = 1 .. IEWToRenameDelay
         /\ \A i \in 1 .. IEWToRenameDelay : i < IEWToRenameDelay => back'[i] = back[i + 1]
         /\ back'[IEWToRenameDelay].block = AfterDispatch.block
         /\ back'[IEWToRenameDelay].unblock = AfterDispatch.unblock
         /\ back'[IEWToRenameDelay].dispatched = Counts(AfterDispatch.returned)
<1> DEFINE s == AfterDispatch
           D == IEWToRenameDelay
<1>1. Outcome(s, status \in Stopped, Start)
  BY TickResult
<1> HIDE DEF s
<1>2. PICK t \in {s} :
         /\ status' = t.status /\ skid' = t.skid
         /\ \E frees \in SUBSET {q \in Queues : t.used[q] > 0},
               executed \in IF used = NoCounts THEN {FALSE} ELSE BOOLEAN :
              /\ used' = [q \in Queues |-> IF q \in frees THEN t.used[q] - 1 ELSE t.used[q]]
              /\ freed' = frees
              /\ back' = [i \in 1 .. IEWToRenameDelay |->
                   IF i < IEWToRenameDelay THEN back[i + 1]
                   ELSE [block |-> t.block, unblock |-> t.unblock,
                         dispatched |-> Counts(t.returned),
                         free |-> IF commit = "squash" \/ executed \/ freed # {}
                                  THEN {[q \in Queues |-> Size[q] - used'[q]]} ELSE {}]]
  BY Zenon DEF IEWTick, s
<1>3. PICK frees \in SUBSET {q \in Queues : t.used[q] > 0},
              executed \in IF used = NoCounts THEN {FALSE} ELSE BOOLEAN :
         /\ used' = [q \in Queues |-> IF q \in frees THEN t.used[q] - 1 ELSE t.used[q]]
         /\ back' = [i \in 1 .. IEWToRenameDelay |->
              IF i < IEWToRenameDelay THEN back[i + 1]
              ELSE [block |-> t.block, unblock |-> t.unblock,
                    dispatched |-> Counts(t.returned),
                    free |-> IF commit = "squash" \/ executed \/ freed # {}
                             THEN {[q \in Queues |-> Size[q] - used'[q]]} ELSE {}]]
  BY <1>2
<1>4. t = s
  BY <1>2
<1>5. used' \in [Queues -> Nat]
  <2>1. t.used \in [Queues -> Nat]
    BY <1>1, <1>4 DEF Outcome, TickStates
  <2>2. \A q \in Queues : (IF q \in frees THEN t.used[q] - 1 ELSE t.used[q]) \in Nat
    BY <2>1, <1>3
  <2> QED
    BY <1>3, <2>2, Zenon
<1>6. /\ DOMAIN back' = 1 .. D
      /\ \A i \in 1 .. D : i < D => back'[i] = back[i + 1]
      /\ back'[D].block = t.block /\ back'[D].unblock = t.unblock
      /\ back'[D].dispatched = Counts(t.returned)
  <2> DEFINE sig == [block |-> t.block, unblock |-> t.unblock,
                    dispatched |-> Counts(t.returned),
                    free |-> IF commit = "squash" \/ executed \/ freed # {}
                             THEN {[q \in Queues |-> Size[q] - used'[q]]} ELSE {}]
  <2>1. back' = [i \in 1 .. D |-> IF i < D THEN back[i + 1] ELSE sig]
    BY <1>3
  <2>2. sig.block = t.block /\ sig.unblock = t.unblock /\ sig.dispatched = Counts(t.returned)
    OBVIOUS
  <2>3. D \in Nat \ {0}
    BY DispatchAssumption
  <2> HIDE DEF sig, D
  <2>4. back'[D] = sig /\ DOMAIN back' = 1 .. D
        /\ \A i \in 1 .. D : i < D => back'[i] = back[i + 1]
    BY <2>1, <2>3
  <2> QED
    BY <2>2, <2>4
<1> QED
  BY <1>1, <1>2, <1>4, <1>5, <1>6 DEF s

\* What rename sends takes the last place of the wire, and is nothing when rename
\* has learned that it must stop.
LEMMA RenameTickResult ==
  ASSUME Types, NEW batch \in Batches, RenameTick(batch)
  PROVE  /\ stalled' <=> ((stalled \/ back[1].block) /\ ~back[1].unblock)
         /\ stalled' => batch = <<>>
         /\ wire' \in [1 .. RenameToIEWDelay -> Batches]
         /\ wire'[RenameToIEWDelay] = batch
         /\ \A j \in 1 .. RenameToIEWDelay : j < RenameToIEWDelay => wire'[j] = wire[j + 1]
         /\ inProgress' = [q \in Queues |->
              inProgress[q] - back[1].dispatched[q] + KindCounts(batch)[q]]
<1>1. RenameToIEWDelay \in Nat \ {0}
  BY DispatchAssumption
<1>2. /\ stalled' = ((stalled \/ back[1].block) /\ ~back[1].unblock)
      /\ batch # <<>> => ~stalled'
      /\ wire' = [i \in 1 .. RenameToIEWDelay |->
                   IF i < RenameToIEWDelay THEN wire[i + 1] ELSE batch]
  BY DEF RenameTick
<1>3. wire \in [1 .. RenameToIEWDelay -> Batches]
  BY DEF Types
<1>4. \A i \in 1 .. RenameToIEWDelay :
        (IF i < RenameToIEWDelay THEN wire[i + 1] ELSE batch) \in Batches
  BY <1>1, <1>3
<1>5. wire' \in [1 .. RenameToIEWDelay -> Batches]
  BY <1>2, <1>4, Zenon
<1>6. wire'[RenameToIEWDelay] = batch
      /\ \A j \in 1 .. RenameToIEWDelay : j < RenameToIEWDelay => wire'[j] = wire[j + 1]
  BY <1>1, <1>2
<1>7. inProgress' = [q \in Queues |->
        inProgress[q] - back[1].dispatched[q] + KindCounts(batch)[q]]
  <2> DEFINE count == [q \in Queues |-> inProgress[q] - back[1].dispatched[q]]
  <2>1. inProgress' = [q \in Queues |-> count[q] + KindCounts(batch)[q]]
    BY DEF RenameTick
  <2>2. \A q \in Queues : count[q] = inProgress[q] - back[1].dispatched[q]
    OBVIOUS
  <2> HIDE DEF count
  <2> QED
    BY <2>1, <2>2, Zenon
<1> QED
  BY <1>2, <1>5, <1>6, <1>7

\* The instructions of a batch that need an entry of a queue are counted by a number.
LEMMA KindCountsType ==
  ASSUME NEW batch \in Batches
  PROVE  KindCounts(batch) \in [Queues -> Nat]
<1>1. PICK n \in 0 .. RenameWidth : batch \in [1 .. n -> Kinds]
  BY DEF Batches
<1>2. ASSUME NEW q PROVE Cardinality({i \in DOMAIN batch : q \in Counted(batch[i])}) \in Nat
  <2> DEFINE T == {i \in DOMAIN batch : q \in Counted(batch[i])}
  <2>1. RenameWidth \in Nat
    BY DispatchAssumption
  <2>2. n \in Int /\ DOMAIN batch = 1 .. n
    BY <1>1, <2>1
  <2>3. IsFiniteSet(1 .. n) /\ T \subseteq 1 .. n
    BY <2>2, FS_Interval
  <2> HIDE DEF T
  <2>4. Cardinality(T) \in Nat
    BY <2>3, FS_Subset, FS_CardinalityType
  <2> QED
    BY <2>4 DEF T
<1> QED
  BY <1>2 DEF KindCounts

-----------------------------------------------------------------------------
(* The conjuncts of the invariant, one by one. *)

\* The signal that a tick sends is the last that rename will read: it turns what rename
\* will know before it into what the status has become.
LEMMA AgreesStep ==
  ASSUME Types, RenameAgrees, NEW s, NEW r,
         Outcome(r, status \in Stopped, s), status' = r.status,
         DOMAIN back' = 1 .. IEWToRenameDelay,
         \A i \in 1 .. IEWToRenameDelay : i < IEWToRenameDelay => back'[i] = back[i + 1],
         back'[IEWToRenameDelay].block = r.block,
         back'[IEWToRenameDelay].unblock = r.unblock,
         stalled' <=> ((stalled \/ back[1].block) /\ ~back[1].unblock)
  PROVE  RenameAgrees'
<1> DEFINE D == IEWToRenameDelay
           Stall(n) == IF n = 0 THEN stalled ELSE back[n].block
           Knows == \E n \in 0 .. D : Stall(n) /\ \A m \in n .. D : m > 0 => ~back[m].unblock
           StallN(n) == IF n = 0 THEN stalled' ELSE back'[n].block
           KnowsN == \E n \in 0 .. D : StallN(n) /\ \A m \in n .. D : m > 0 => ~back'[m].unblock
<1>1. D \in Nat \ {0}
  BY DispatchAssumption
<1>2. Knows <=> status \in Stopped
  BY DEF RenameAgrees, Stopped
<1>3. ((status \in Stopped \/ r.block) /\ ~r.unblock) <=> status' \in Stopped
  BY DEF Outcome
<1>4. ASSUME KnowsN PROVE (Knows \/ r.block) /\ ~r.unblock
  <2>1. PICK n \in 0 .. D : StallN(n) /\ \A m \in n .. D : m > 0 => ~back'[m].unblock
    BY <1>4
  <2>2. ~r.unblock
    BY <1>1, <2>1
  <2>3. CASE n = D
    BY <1>1, <2>1, <2>2, <2>3
  <2>4. CASE n < D /\ n > 0
    <3>1. Stall(n + 1)
      BY <2>1, <2>4
    <3>2. ASSUME NEW m \in n + 1 .. D PROVE ~back[m].unblock
      <4>1. m - 1 \in n .. D /\ m - 1 > 0 /\ m - 1 < D /\ m - 1 \in 1 .. D /\ (m - 1) + 1 = m
        BY <1>1, <2>4
      <4>2. back'[m - 1] = back[m]
        BY <4>1
      <4> QED
        BY <2>1, <4>1, <4>2
    <3>3. n + 1 \in 0 .. D
      BY <1>1, <2>4
    <3>4. Knows
      BY <3>1, <3>2, <3>3
    <3> QED
      BY <2>2, <3>4
  <2>5. CASE n = 0
    <3>1. (stalled \/ back[1].block) /\ ~back[1].unblock
      BY <2>1, <2>5
    <3>2. ASSUME NEW m \in 1 .. D PROVE ~back[m].unblock
      <4>1. CASE m = 1
        BY <3>1, <4>1
      <4>2. CASE m # 1
        <5>1. m - 1 \in n .. D /\ m - 1 > 0 /\ m - 1 < D /\ m - 1 \in 1 .. D /\ (m - 1) + 1 = m
          BY <1>1, <2>5, <4>2
        <5>2. back'[m - 1] = back[m]
          BY <5>1
        <5> QED
          BY <2>1, <5>1, <5>2
      <4> QED
        BY <4>1, <4>2
    <3>3. Knows
      <4>1. CASE stalled
        <5>1. Stall(0) /\ 0 \in 0 .. D
          BY <1>1, <4>1
        <5>2. \A m \in 0 .. D : m > 0 => ~back[m].unblock
          BY <1>1, <3>2
        <5> QED
          BY <5>1, <5>2
      <4>2. CASE back[1].block
        <5>1. Stall(1) /\ 1 \in 0 .. D
          BY <1>1, <4>2
        <5> QED
          BY <5>1, <3>2
      <4> QED
        BY <3>1, <4>1, <4>2
    <3> QED
      BY <2>2, <3>3
  <2> QED
    BY <1>1, <2>3, <2>4, <2>5
<1>5. ASSUME Knows \/ r.block, ~r.unblock PROVE KnowsN
  <2>1. CASE r.block
    <3>1. StallN(D) /\ D \in 0 .. D
      BY <1>1, <2>1
    <3>2. \A m \in D .. D : m > 0 => ~back'[m].unblock
      BY <1>1, <1>5
    <3> QED
      BY <3>1, <3>2
  <2>2. CASE Knows
    <3>1. PICK n \in 0 .. D : Stall(n) /\ \A m \in n .. D : m > 0 => ~back[m].unblock
      BY <2>2
    <3>2. ASSUME NEW k \in 0 .. D, k + 1 >= n, NEW m \in k .. D, m > 0 PROVE ~back'[m].unblock
      <4>1. CASE m = D
        BY <1>5, <4>1
      <4>2. CASE m # D
        <5>1. m + 1 \in n .. D /\ m + 1 > 0 /\ m \in 1 .. D /\ m < D
          BY <1>1, <3>2, <4>2
        <5> QED
          BY <3>1, <5>1
      <4> QED
        BY <4>1, <4>2
    <3>3. CASE n > 1
      <4>1. n - 1 \in 1 .. D /\ n - 1 < D /\ n - 1 \in 0 .. D /\ (n - 1) + 1 = n
        BY <1>1, <3>3
      <4>2. StallN(n - 1)
        BY <3>1, <4>1
      <4>3. \A m \in n - 1 .. D : m > 0 => ~back'[m].unblock
        BY <3>2, <4>1
      <4> QED
        BY <4>1, <4>2, <4>3
    <3>4. CASE n <= 1
      <4>1. 1 \in n .. D
        BY <1>1, <3>4
      <4>2. (stalled \/ back[1].block) /\ ~back[1].unblock
        BY <3>1, <3>4, <4>1
      <4>3. StallN(0) /\ 0 \in 0 .. D
        BY <1>1, <4>2
      <4>4. \A m \in 0 .. D : m > 0 => ~back'[m].unblock
        BY <3>2, <3>4, <4>3
      <4> QED
        BY <4>3, <4>4
    <3> QED
      BY <3>3, <3>4
  <2> QED
    BY <1>5, <2>1, <2>2
<1>6. KnowsN <=> status' \in Stopped
  BY <1>2, <1>3, <1>4, <1>5
<1>7. RenameAgrees' <=> (KnowsN <=> status' \in Stopped)
  BY DEF RenameAgrees, Stopped
<1> QED
  BY <1>6, <1>7

\* Every instruction that leaves the wire is in the skid buffer or reported after the
\* tick, and rename takes from its counts exactly what the oldest signal reports.
LEMMA CreditsStep ==
  ASSUME Types, CreditsExact, Types', NEW batch \in Batches, NEW r,
         Outcome(r, status \in Stopped, Start), skid' = r.skid,
         wire'[RenameToIEWDelay] = batch,
         \A j \in 1 .. RenameToIEWDelay : j < RenameToIEWDelay => wire'[j] = wire[j + 1],
         \A i \in 1 .. IEWToRenameDelay : i < IEWToRenameDelay => back'[i] = back[i + 1],
         back'[IEWToRenameDelay].dispatched = Counts(r.returned),
         inProgress' = [q \in Queues |->
           inProgress[q] - back[1].dispatched[q] + KindCounts(batch)[q]]
  PROVE  CreditsExact'
<1> SUFFICES ASSUME NEW q \in Queues
             PROVE  inProgress'[q]
                      = InTransit(q)' + Total([i \in DOMAIN back' |-> back'[i].dispatched[q]])
  BY DEF CreditsExact
<1> DEFINE D == RenameToIEWDelay
           B == IEWToRenameDelay
           w == [i \in 1 .. D |-> KindCounts(wire[i])[q]]
           v == [i \in 1 .. D |-> KindCounts(wire'[i])[q]]
           x == [i \in 1 .. B |-> back[i].dispatched[q]]
           y == [i \in 1 .. B |-> back'[i].dispatched[q]]
<1>1. D \in Nat \ {0} /\ B \in Nat \ {0}
  BY DispatchAssumption
<1>2. /\ DOMAIN wire = 1 .. D /\ DOMAIN wire' = 1 .. D
      /\ DOMAIN back = 1 .. B /\ DOMAIN back' = 1 .. B
  BY DEF Types
<1>3. w \in [1 .. D -> Nat] /\ v \in [1 .. D -> Nat]
  <2>1. \A i \in 1 .. D : wire[i] \in Batches /\ wire'[i] \in Batches
    BY DEF Types
  <2>2. \A i \in 1 .. D : KindCounts(wire[i])[q] \in Nat /\ KindCounts(wire'[i])[q] \in Nat
    BY <2>1, KindCountsType
  <2> QED
    BY <2>2
<1>4. x \in [1 .. B -> Nat] /\ y \in [1 .. B -> Nat]
  BY <1>2 DEF Types
<1>5. Total(v) = Total(w) - w[1] + v[D]
  <2>1. \A i \in 1 .. D : i < D => v[i] = w[i + 1]
    BY <1>1
  <2> HIDE DEF v, w, D
  <2> QED
    BY <1>1, <1>3, <2>1, TotalShift
<1>6. Total(y) = Total(x) - x[1] + y[B]
  <2>1. \A i \in 1 .. B : i < B => y[i] = x[i + 1]
    BY <1>1
  <2> HIDE DEF x, y, B
  <2> QED
    BY <1>1, <1>4, <2>1, TotalShift
<1>7. w[1] = KindCounts(wire[1])[q] /\ v[D] = KindCounts(batch)[q]
      /\ x[1] = back[1].dispatched[q] /\ y[B] = Counts(r.returned)[q]
  BY <1>1
<1>8. inProgress[q] = Total(w) + Counts(skid)[q] + Total(x)
  BY <1>2 DEF CreditsExact, InTransit
<1>9. /\ InTransit(q)' = Total(v) + Counts(skid')[q]
      /\ Total([i \in DOMAIN back' |-> back'[i].dispatched[q]]) = Total(y)
  BY <1>2 DEF InTransit
<1>10. Counts(skid')[q] + Counts(r.returned)[q] = Counts(skid)[q] + w[1]
  <2>9. Keeps(r, Start) /\ r.insts = <<>> /\ r \in TickStates
    BY DEF Outcome
  <2>1. Work(r, q) = Work(Start, q) /\ r.insts = <<>> /\ r \in TickStates
    BY <2>9, Zenon DEF Keeps
  <2>2. Counts(<<>>)[q] = 0
    BY CountsEmpty
  <2>3. Start.skid = skid /\ Start.insts = Arriving /\ Start.returned = <<>>
    BY DEF Start
  <2>4. Work(Start, q) = Counts(skid)[q] + Counts(Arriving)[q] + 0
    BY <2>2, <2>3 DEF Work
  <2>5. Work(r, q) = Counts(skid')[q] + 0 + Counts(r.returned)[q]
    BY <2>1, <2>2 DEF Work
  <2>6. Counts(Arriving)[q] = w[1] /\ w[1] \in Nat
    BY <1>1, <1>3, <1>7, ArrivingResult
  <2>7. Counts(r.skid)[q] \in Nat /\ Counts(r.returned)[q] \in Nat
    BY <2>1, WorkTypes
  <2>8. Counts(skid)[q] \in Nat
    <3>1. Counts(skid) \in [Queues -> Nat]
      BY CountsType DEF Types
    <3> QED
      BY <3>1
  <2> HIDE DEF w
  <2> QED
    BY <2>1, <2>4, <2>5, <2>6, <2>7, <2>8
<1>11. inProgress'[q] = inProgress[q] - x[1] + v[D]
  BY <1>7
<1>12. /\ Total(w) \in Nat /\ Total(v) \in Nat /\ Total(x) \in Nat /\ Total(y) \in Nat
       /\ w[1] \in Nat /\ v[D] \in Nat /\ x[1] \in Nat /\ y[B] \in Nat
  <2>1. Total(w) \in Nat /\ Total(v) \in Nat
    <3> HIDE DEF w, v, D
    <3> QED
      BY <1>1, <1>3, BoxesFinite
  <2>2. Total(x) \in Nat /\ Total(y) \in Nat
    <3> HIDE DEF x, y, B
    <3> QED
      BY <1>1, <1>4, BoxesFinite
  <2>3. w[1] \in Nat /\ v[D] \in Nat /\ x[1] \in Nat /\ y[B] \in Nat
    <3>1. 1 \in 1 .. D /\ D \in 1 .. D /\ 1 \in 1 .. B /\ B \in 1 .. B
      BY <1>1
    <3> HIDE DEF w, v, x, y, D, B
    <3> QED
      BY <1>3, <1>4, <3>1
  <2> QED
    BY <2>1, <2>2, <2>3
<1>13. Counts(skid)[q] \in Nat /\ Counts(skid')[q] \in Nat
  <2>1. Counts(skid) \in [Queues -> Nat]
    BY CountsType DEF Types
  <2>2. Counts(skid') \in [Queues -> Nat]
    BY CountsType DEF Types
  <2> QED
    BY <2>1, <2>2
<1> HIDE DEF w, v, x, y, D, B
<1>14. y[B] = Counts(r.returned)[q]
  BY <1>7
<1>15. Counts(skid')[q] + y[B] = Counts(skid)[q] + w[1]
  BY <1>10, <1>14
<1>16. inProgress'[q] = Total(v) + Counts(skid')[q] + Total(y)
  BY <1>5, <1>6, <1>8, <1>11, <1>12, <1>13, <1>15
<1> QED
  BY <1>9, <1>16

\* Where the room for the buffer's contents comes from, after a tick.
LEMMA RoomStep ==
  ASSUME IInv, Room, Types',
         Outcome(AfterDispatch, status \in Stopped, Start),
         status' = AfterDispatch.status, skid' = AfterDispatch.skid,
         status \in Stopped => wire'[RenameToIEWDelay] = <<>>,
         \A j \in 1 .. RenameToIEWDelay : j < RenameToIEWDelay => wire'[j] = wire[j + 1]
  PROVE  Room'
<1> DEFINE D == RenameToIEWDelay
           W == RenameWidth
           l == Len(skid)
           w == Len(wire[1])
           m == Len(skid')
<1>1. D \in Nat \ {0} /\ W \in Nat \ {0}
  BY DispatchAssumption
<1>2. Arriving \in Seq(Insts) /\ w = Len(Arriving) /\ w <= W
  BY ArrivingResult DEF IInv
<1>3. l \in Nat /\ m \in Nat /\ w \in Nat
  BY <1>2 DEF IInv, Types
<1>4. m <= l + w
  <2>1. Start.skid = skid /\ Start.insts = Arriving
    BY DEF Start
  <2>2. Len(AfterDispatch.skid) <= Len(Start.skid) + Len(Start.insts)
    BY DEF Outcome
  <2> QED
    BY <2>1, <2>2, <1>2
<1>5. CASE status \in Flowing
  <2>1. l = 0
    BY <1>5 DEF IInv, NoOvertaking, Flowing
  <2>2. m <= W
    <3> HIDE DEF l, w, m, W
    <3> QED
      BY <2>1, <1>1, <1>2, <1>3, <1>4
  <2>3. RoomFor(0)'
    <3>1. m <= (0 + 1) * W
      <4> HIDE DEF m, W
      <4> QED
        BY <2>2, <1>1, <1>3
    <3>2. (D - 0 + 1) .. D = {}
      <4> HIDE DEF D
      <4> QED
        BY <1>1
    <3> QED
      BY <3>1, <3>2 DEF RoomFor
  <2>4. 0 \in 0 .. D
    <3> HIDE DEF D
    <3> QED
      BY <1>1
  <2> QED
    BY <2>3, <2>4 DEF Room
<1>6. CASE status \in Stopped
  <2>1. PICK k \in 0 .. D : RoomFor(k)
    BY DEF Room
  <2>2. l <= (k + 1) * W /\ \A j \in (D - k + 1) .. D : wire[j] = <<>>
    BY <2>1, <1>6 DEF RoomFor
  <2>3. CASE k < D
    <3>1. m <= ((k + 1) + 1) * W
      <4> HIDE DEF l, w, m, W, D
      <4>1. (k + 1) * W + W = ((k + 1) + 1) * W /\ (k + 1) * W \in Nat
        BY <1>1
      <4>2. m <= (k + 1) * W + W
        <5> DEFINE x == (k + 1) * W
        <5> HIDE DEF x
        <5>1. x \in Nat /\ l <= x
          BY <2>2, <4>1 DEF x
        <5>2. m <= x + W
          BY <5>1, <1>1, <1>2, <1>3, <1>4
        <5> QED
          BY <5>2 DEF x
      <4> QED
        BY <4>1, <4>2
    <3>2. ASSUME NEW j \in (D - (k + 1) + 1) .. D PROVE wire'[j] = <<>>
      <4>1. CASE j = D
        BY <4>1, <1>6
      <4>2. CASE j # D
        <5>1. j \in 1 .. D /\ j < D /\ j + 1 \in (D - k + 1) .. D
          <6> HIDE DEF D
          <6> QED
            BY <4>2, <1>1, <2>3
        <5> QED
          BY <5>1, <2>2
      <4> QED
        BY <4>1, <4>2
    <3>3. k + 1 \in 0 .. D
      <4> HIDE DEF D
      <4> QED
        BY <1>1, <2>3
    <3>4. RoomFor(k + 1)'
      BY <3>1, <3>2 DEF RoomFor
    <3> QED
      BY <3>3, <3>4 DEF Room
  <2>4. CASE k = D
    <3>1. wire[1] = <<>>
      <4>1. 1 \in (D - k + 1) .. D
        <5> HIDE DEF D
        <5> QED
          BY <1>1, <2>4
      <4> QED
        BY <4>1, <2>2
    <3>2. w = 0
      BY <3>1
    <3>3. m <= (k + 1) * W
      <4> DEFINE x == (k + 1) * W
      <4>1. l <= x /\ x \in Nat
        <5> HIDE DEF D, W
        <5> QED
          BY <1>1, <2>2
      <4> HIDE DEF l, w, m, x
      <4>2. m <= x
        BY <4>1, <3>2, <1>3, <1>4
      <4> QED
        BY <4>2 DEF x
    <3>4. ASSUME NEW j \in (D - k + 1) .. D PROVE wire'[j] = <<>>
      <4>1. CASE j = D
        BY <4>1, <1>6
      <4>2. CASE j # D
        <5>1. j \in 1 .. D /\ j < D /\ j + 1 \in (D - k + 1) .. D
          <6> HIDE DEF D
          <6> QED
            BY <4>2, <1>1, <2>4
        <5> QED
          BY <5>1, <2>2
      <4> QED
        BY <4>1, <4>2
    <3>5. RoomFor(k)'
      BY <3>3, <3>4 DEF RoomFor
    <3> QED
      BY <3>5 DEF Room
  <2>5. k < D \/ k = D
    <3> HIDE DEF D
    <3> QED
      BY <1>1
  <2> QED
    BY <2>3, <2>4, <2>5
<1> QED
  BY <1>5, <1>6 DEF IInv, Types

\* Init establishes the invariant, with room in the buffer.
LEMMA InitIInv == Init => IInv /\ Room
<1> SUFFICES ASSUME Init PROVE IInv /\ Room
  OBVIOUS
<1> USE DEF Init
<1> DEFINE D == RenameToIEWDelay
           B == IEWToRenameDelay
<1>1. D \in Nat \ {0} /\ B \in Nat \ {0} /\ RenameWidth \in Nat \ {0}
  BY DispatchAssumption
<1>2. <<>> \in Batches
  <2>1. <<>> \in [1 .. 0 -> Kinds] /\ 0 \in 0 .. RenameWidth
    BY <1>1
  <2> QED
    BY <2>1 DEF Batches
<1>3. Types
  <2>1. wire \in [1 .. D -> Batches]
    BY <1>2
  <2>2. used \in [Queues -> Nat] /\ inProgress \in [Queues -> Int]
    BY DEF NoCounts
  <2>3. status \in Stopped \cup Flowing
    BY DEF Flowing
  <2>4. skid \in Seq(Insts) /\ doomed \in Nat
    OBVIOUS
  <2>5. DOMAIN back = 1 .. B /\ \A i \in DOMAIN back : back[i].dispatched \in [Queues -> Nat]
    BY DEF NoSignal, NoCounts
  <2> QED
    BY <2>1, <2>2, <2>3, <2>4, <2>5 DEF Types
<1>4. NoOvertaking
  BY DEF NoOvertaking
<1>5. RenameAgrees
  <2>1. \A n \in 1 .. B : back[n].block = FALSE
    BY DEF NoSignal
  <2>2. ~stalled /\ status \notin {"Blocked", "Unblocking"}
    OBVIOUS
  <2>3. \A n \in 0 .. B : ~(IF n = 0 THEN stalled ELSE back[n].block)
    BY <1>1, <2>1, <2>2
  <2> QED
    BY <2>2, <2>3, Zenon DEF RenameAgrees
<1>6. CreditsExact
  <2> SUFFICES ASSUME NEW q \in Queues
               PROVE  inProgress[q]
                        = InTransit(q) + Total([i \in DOMAIN back |-> back[i].dispatched[q]])
    BY DEF CreditsExact
  <2> DEFINE w == [i \in DOMAIN wire |-> KindCounts(wire[i])[q]]
             x == [i \in DOMAIN back |-> back[i].dispatched[q]]
  <2>1. KindCounts(<<>>)[q] = 0
    <3>1. {i \in DOMAIN <<>> : q \in Counted(<<>>[i])} = {}
      OBVIOUS
    <3> QED
      BY <3>1, FS_EmptySet DEF KindCounts
  <2>2. w \in [1 .. D -> Nat] /\ \A i \in 1 .. D : w[i] = 0
    BY <1>1, <2>1
  <2>3. x \in [1 .. B -> Nat] /\ \A i \in 1 .. B : x[i] = 0
    BY <1>1 DEF NoSignal, NoCounts
  <2>4. inProgress[q] = 0 /\ Counts(skid)[q] = 0
    BY CountsEmpty DEF NoCounts
  <2>5. Total(w) = 0 /\ Total(x) = 0
    <3> HIDE DEF w, x, D, B, Init
    <3>1. Total(w) = 0
      BY <1>1, <2>2, TotalZero
    <3>2. Total(x) = 0
      BY <1>1, <2>3, TotalZero
    <3> QED
      BY <3>1, <3>2
  <2> HIDE DEF Init
  <2> QED
    BY <2>4, <2>5 DEF InTransit
<1>7. Room
  <2>1. RoomFor(0)
    <3>1. Len(skid) <= (0 + 1) * RenameWidth
      BY <1>1
    <3>2. status \notin Stopped
      BY DEF Stopped
    <3> QED
      BY <3>1, <3>2 DEF RoomFor
  <2>2. 0 \in 0 .. RenameToIEWDelay
    BY <1>1
  <2> QED
    BY <2>1, <2>2 DEF Room
<1> QED
  BY <1>3, <1>4, <1>5, <1>6, <1>7 DEF IInv

\* When signals take one cycle, rename knows after reading the signal what the status is.
LEMMA AgreedNow ==
  ASSUME IEWToRenameDelay = 1, RenameAgrees
  PROVE  ((stalled \/ back[1].block) /\ ~back[1].unblock) <=> status \in Stopped
<1> DEFINE Stall(n) == IF n = 0 THEN stalled ELSE back[n].block
<1>1. (\E n \in 0 .. 1 : Stall(n) /\ \A m \in n .. 1 : m > 0 => ~back[m].unblock)
        <=> status \in Stopped
  BY DEF RenameAgrees, Stopped
<1>2. (\E n \in 0 .. 1 : Stall(n) /\ \A m \in n .. 1 : m > 0 => ~back[m].unblock)
        <=> ((stalled \/ back[1].block) /\ ~back[1].unblock)
  <2>1. 0 \in 0 .. 1 /\ 1 \in 0 .. 1 /\ 1 \in 0 .. 1 /\ 1 \in 1 .. 1
    OBVIOUS
  <2>2. ASSUME NEW n \in 0 .. 1, Stall(n), \A m \in n .. 1 : m > 0 => ~back[m].unblock
        PROVE  (stalled \/ back[1].block) /\ ~back[1].unblock
    BY <2>2
  <2>3. ASSUME stalled \/ back[1].block, ~back[1].unblock
        PROVE  \E n \in 0 .. 1 : Stall(n) /\ \A m \in n .. 1 : m > 0 => ~back[m].unblock
    <3>1. \A m \in 0 .. 1 : m > 0 => ~back[m].unblock
      BY <2>3
    <3>2. CASE stalled
      <4>1. Stall(0)
        BY <3>2
      <4> QED
        BY <2>1, <3>1, <4>1
    <3>3. CASE back[1].block
      <4>1. Stall(1) /\ \A m \in 1 .. 1 : m > 0 => ~back[m].unblock
        BY <3>1, <3>3
      <4> QED
        BY <2>1, <4>1
    <3> QED
      BY <2>3, <3>2, <3>3
  <2> QED
    BY <2>2, <2>3
<1> QED
  BY <1>1, <1>2

\* A cycle preserves the invariant.
LEMMA NextIInv ==
  ASSUME IInv, [Next]_vars
  PROVE  IInv' /\ (IEWToRenameDelay = 1 /\ Room => Room')
<1>1. CASE Next
  <2>1. Types /\ NoOvertaking /\ RenameAgrees /\ CreditsExact
    BY DEF IInv
  <2>2. PICK batch \in Batches : RenameTick(batch)
    BY <1>1 DEF Next
  <2>3. IEWTick /\ CommitTick
    BY <1>1 DEF Next
  <2> DEFINE s == AfterDispatch
             B == IEWToRenameDelay
  <2>4. /\ Outcome(s, status \in Stopped, Start)
        /\ status' = s.status /\ skid' = s.skid /\ used' \in [Queues -> Nat]
        /\ DOMAIN back' = 1 .. B /\ \A i \in 1 .. B : i < B => back'[i] = back[i + 1]
        /\ back'[B].block = s.block /\ back'[B].unblock = s.unblock
        /\ back'[B].dispatched = Counts(s.returned)
    BY <2>1, <2>3, IEWTickResult
  <2>5. /\ stalled' <=> ((stalled \/ back[1].block) /\ ~back[1].unblock)
        /\ stalled' => batch = <<>>
        /\ wire' \in [1 .. RenameToIEWDelay -> Batches]
        /\ wire'[RenameToIEWDelay] = batch
        /\ \A j \in 1 .. RenameToIEWDelay : j < RenameToIEWDelay => wire'[j] = wire[j + 1]
        /\ inProgress' = [q \in Queues |->
             inProgress[q] - back[1].dispatched[q] + KindCounts(batch)[q]]
    BY <2>1, <2>2, RenameTickResult
  <2>6. B \in Nat \ {0}
    BY DispatchAssumption
  <2>7. Types'
    <3>1. s.status \in Stopped \cup Flowing /\ s.skid \in Seq(Insts) /\ s.returned \in Seq(Insts)
      <4> HIDE DEF s
      <4> QED
        BY <2>4 DEF Outcome, TickStates
    <3>2. doomed' \in Nat
      <4>1. doomed \in Nat /\ RenameToIEWDelay \in Nat
        BY <2>1, DispatchAssumption DEF Types
      <4> QED
        BY <4>1, <2>3 DEF CommitTick
    <3>3. ASSUME NEW i \in DOMAIN back' PROVE back'[i].dispatched \in [Queues -> Nat]
      <4> HIDE DEF s, B
      <4>1. CASE i = B
        <5>1. Counts(s.returned) \in [Queues -> Nat]
          BY <3>1, CountsType
        <5> QED
          BY <4>1, <5>1, <2>4
      <4>2. CASE i # B
        <5>1. i \in 1 .. B /\ i < B /\ i + 1 \in 1 .. B
          BY <4>2, <2>4, <2>6
        <5>2. back[i + 1].dispatched \in [Queues -> Nat]
          BY <5>1, <2>1 DEF Types, B
        <5> QED
          BY <5>1, <5>2, <2>4
      <4> QED
        BY <4>1, <4>2
    <3>4. inProgress' \in [Queues -> Int]
      <4>1. ASSUME NEW q \in Queues
            PROVE  inProgress[q] - back[1].dispatched[q] + KindCounts(batch)[q] \in Int
        <5>1. inProgress[q] \in Int
          BY <2>1 DEF Types
        <5>2. back[1].dispatched[q] \in Nat
          <6>1. 1 \in DOMAIN back
            BY <2>1, <2>6 DEF Types
          <6>2. back[1].dispatched \in [Queues -> Nat]
            BY <2>1, <6>1 DEF Types
          <6> QED
            BY <6>2
        <5>3. KindCounts(batch)[q] \in Nat
          BY KindCountsType
        <5> QED
          BY <5>1, <5>2, <5>3
      <4> QED
        BY <4>1, <2>5, Zenon
    <3> HIDE DEF s
    <3> QED
      BY <3>1, <3>2, <3>3, <3>4, <2>4, <2>5 DEF Types
  <2>8. NoOvertaking'
    <3> HIDE DEF s
    <3> QED
      BY <2>4 DEF NoOvertaking, Outcome, Flowing
  <2>9. RenameAgrees'
    <3> HIDE DEF s
    <3> QED
      BY <2>1, <2>4, <2>5, AgreesStep DEF B
  <2>10. CreditsExact'
    <3> HIDE DEF s
    <3> QED
      BY <2>1, <2>4, <2>5, <2>7, CreditsStep DEF B
  <2>11. ASSUME B = 1, Room PROVE Room'
    <3>1. stalled' <=> status \in Stopped
      BY <2>1, <2>5, <2>11, AgreedNow
    <3> QED
      BY <2>4, <2>5, <2>7, <2>11, <3>1, RoomStep
  <2> QED
    BY <2>7, <2>8, <2>9, <2>10, <2>11 DEF IInv
<1>2. CASE UNCHANGED vars
  <2>1. Types'
    BY <1>2 DEF vars, renameVars, IInv, Types
  <2>2. NoOvertaking' /\ RenameAgrees'
    BY <1>2 DEF vars, renameVars, IInv, NoOvertaking, RenameAgrees
  <2>3. CreditsExact'
    BY <1>2 DEF vars, renameVars, IInv, CreditsExact, InTransit
  <2>4. Room => Room'
    BY <1>2 DEF vars, renameVars, Room, RoomFor
  <2> QED
    BY <2>1, <2>2, <2>3, <2>4 DEF IInv
<1> QED
  BY <1>1, <1>2

\* The room of k blocked cycles is at most the skid buffer's.
LEMMA RoomFits == ASSUME IInv, Room PROVE SkidFits
<1>1. RenameToIEWDelay \in Nat \ {0} /\ RenameWidth \in Nat \ {0}
  BY DispatchAssumption
<1>2. PICK k \in 0 .. RenameToIEWDelay : Len(skid) <= (k + 1) * RenameWidth
  BY DEF Room, RoomFor
<1>3. (k + 1) * RenameWidth <= (RenameToIEWDelay + 1) * RenameWidth
  <2>1. (RenameToIEWDelay - k) * RenameWidth \in Nat
    <3>1. RenameToIEWDelay - k \in Nat
      BY <1>1
    <3> QED
      BY <1>1, <3>1
  <2>2. (RenameToIEWDelay + 1) * RenameWidth
          = (k + 1) * RenameWidth + (RenameToIEWDelay - k) * RenameWidth
    BY <1>1
  <2>3. (k + 1) * RenameWidth \in Nat
    BY <1>1
  <2> QED
    BY <2>1, <2>2, <2>3
<1>4. (k + 1) * RenameWidth \in Nat /\ (RenameToIEWDelay + 1) * RenameWidth \in Nat
  BY <1>1
<1>5. Len(skid) \in Nat
  BY DEF IInv, Types
<1> QED
  BY <1>2, <1>3, <1>4, <1>5 DEF SkidFits, SkidBufferMax

\* The assertion "Skidbuffer Exceeded Max Size" of IEW::skidInsert never fails when
\* a signal takes one cycle to reach rename, for every width and every delay on the
\* way from rename.  (With a longer signal it does: configuration skid_delay.)
THEOREM SkidNeverOverflows ==
  ASSUME IEWToRenameDelay = 1
  PROVE  Spec => []SkidFits
<1> DEFINE RoomInv == IInv /\ Room
<1>1. Init => RoomInv
  BY InitIInv
<1>2. RoomInv /\ [Next]_vars => RoomInv'
  BY NextIInv
<1>3. RoomInv => SkidFits
  BY RoomFits
<1> QED
  BY <1>1, <1>2, <1>3, PTL DEF Spec

\* IInv holds in every state, whatever the delays are.
LEMMA SpecIInv == Spec => []IInv
<1>1. Init => IInv
  BY InitIInv
<1>2. IInv /\ [Next]_vars => IInv'
  BY NextIInv
<1> QED
  BY <1>1, <1>2, PTL DEF Spec

\* Instructions that arrive never overtake those in the skid buffer: dispatch only
\* takes them from rename's output (status Running) when the buffer is empty.
THEOREM ArrivalsWaitTheirTurn == Spec => []NoOvertaking
<1>1. IInv => NoOvertaking
  BY DEF IInv
<1> QED
  BY <1>1, SpecIInv, PTL

\* No block or unblock is lost, sent twice or crossed by a squash: when rename has read
\* the signals on their way, it is stalled exactly if dispatch is blocked or unblocking,
\* for every number of cycles the signals take.
THEOREM SignalsAgree == Spec => []RenameAgrees
<1>1. IInv => RenameAgrees
  BY DEF IInv
<1> QED
  BY <1>1, SpecIInv, PTL

\* Every instruction is reported to rename exactly once, whether it is dispatched,
\* thrown away or squashed in the skid buffer: what rename counts as in progress is what
\* is on the wire, in the buffer, or in a report it has not read.
THEOREM CreditsAreExact == Spec => []CreditsExact
<1>1. IInv => CreditsExact
  BY DEF IInv
<1> QED
  BY <1>1, SpecIInv, PTL
=============================================================================
