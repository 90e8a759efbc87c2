------------------------- MODULE TardisMemory_proofs ------------------------
(***************************************************************************)
(* Lines on their way to and from memory.  The properties                  *)
(* OneMemoryTransaction, DataSafe and FreshData follow from one inductive  *)
(* invariant, MemInv: one read for each line or counter that is waited     *)
(* for and one write for each victim; a parked victim in one waiter slot   *)
(* at most; and what an L1 last handed back in the one place where the     *)
(* directory will look for it.                                             *)
(*                                                                         *)
(* Then, that no parked victim is forgotten (WaitersParked), which needs   *)
(* that the waiter slots suffice: WaitInv.  That requests put aside        *)
(* wait for a counter that is on its way (WaitersAreAwaited), which needs  *)
(* that no counter is evicted: AwaitInv.                                   *)
(*                                                                         *)
(* And the versions and the leases of a line (NoLostUpdate and             *)
(* StoresFollowLeases), which need that two steps of the code treat the    *)
(* timestamps better than they do: VersionInv and LeaseInv.  What a step   *)
(* may do to the versions of a line is said once, by Moves; that every     *)
(* step does one of these is proved before anything is proved of them.     *)
(***************************************************************************)
EXTENDS Tardis_proofs

-----------------------------------------------------------------------------
(* The invariant.                                                          *)

\* The requests of one kind in a queue of the memory, those for x it has not
\* served and those whose answer the directory has not processed.
Of(q, t) == {i \in 1..Len(q) : q[i].type = t}
Unserved(x, t) == Of(memPend[x], t)
Served(x, t)  == {i \in 1..Len(memQ) : memQ[i].a = x /\ memQ[i].type = t}
InTransit(x, t) == Unserved(x, t) # {} \/ Served(x, t) # {}

\* There is one at most, served or not.
Once(x, t) ==
    /\ \A i, j \in Unserved(x, t) : i = j
    /\ \A i, j \in Served(x, t) : i = j
    /\ Unserved(x, t) = {} \/ Served(x, t) = {}

\* A line is read while its state says so, a counter while it has an AuthTBE.
Reading(x) == IF x \in Lines THEN dir[x].st \in {"IS", "IE", "SE"} ELSE auth[x].busy

\* A read is expected for whoever is waited for, a write for whoever is evicted.
Expected(x, t) == IF t = "MEMORY_READ" THEN Reading(x) ELSE dir[x].st \in Evicting

\* The memory has one request of each kind that is expected and no other.
Kinds == {"MEMORY_READ", "MEMORY_WB"}
Regular(x, t) == Once(x, t) /\ (InTransit(x, t) <=> Expected(x, t))
TrafficInv == \A x \in Addrs, t \in Kinds : Regular(x, t)

\* Only parked victims are in waiter slots, each in one at most: an AuthTBE has
\* too few slots, or looks at too few, for "each in one".
ParkedInv ==
    \A k, p \in Counters, s, t \in Slots : auth[k].slot[s] # NoAddr =>
        /\ dir[auth[k].slot[s]].st \in EvictAuth
        /\ auth[k].slot[s] = auth[p].slot[t] => k = p /\ s = t

\* The contents on their way to the memory and from it.
Writes(q) == {q[i].val : i \in Of(q, "MEMORY_WB")}
Outbound(x) == Writes(memPend[x])
Inbound(x)  == {memQ[i].val : i \in Served(x, "MEMORY_READ")}

\* The states of a line whose contents the directory, not an L1, answers for.
AtHome == {"I", "S", "C_M", "IS", "IE", "SE", "I_Fetch_Auth", "S_Fetch_Auth"} \cup Evicting

\* What an L1 last handed back is in the LLC, else on its way to memory, else in
\* memory; in the TBE while the line waits for its counter; and it is what a read
\* returns.  A clean copy agrees with the memory, so it can be dropped.
SafeLine(x) ==
    /\ dir[x].st \in AtHome /\ x \in InLLC => llc[x].val = current[x]
    /\ dir[x].st \in AtHome /\ x \notin InLLC =>
         /\ Outbound(x) \subseteq {current[x]}
         /\ Outbound(x) = {} => mem[x] = current[x]
    /\ dir[x].st \in EvictAuth => tbe[x].val = current[x]
    /\ Inbound(x) \subseteq {current[x]}
    /\ llc[x].st = "clean" => llc[x].val = mem[x]
DataInv == \A x \in Lines : SafeLine(x)

MemInv == TrafficInv /\ ParkedInv /\ DataInv

-----------------------------------------------------------------------------
(* The queues of the memory.                                               *)

\* What becomes of the requests of kind t for x: nothing.
Undisturbed(x, t) ==
    /\ Once(x, t) => Once(x, t)'
    /\ InTransit(x, t)' <=> InTransit(x, t)

\* As far as x and t are concerned no answer comes and none goes.
AnswersLike(x, t) ==
    /\ (\A i, j \in Served(x, t) : i = j) => \A i, j \in Served(x, t)' : i = j
    /\ Served(x, t)' = {} <=> Served(x, t) = {}

\* The types of the memory's queues.
LEMMA MemTypes ==
    TypeInv => /\ memPend \in [Addrs -> Seq(MemOp)] /\ memQ \in Seq(MemMsg)
               /\ mem \in [Addrs -> Nat]
BY DEF TypeInv, TypeOK, MemTypeOK

\* The places of the requests of a kind in a queue to which s is added.
LEMMA Queued ==
    ASSUME NEW q \in Seq(MemOp), NEW s \in Seq(MemOp), NEW t
    PROVE  Of(q \o s, t) = Of(q, t) \cup {Len(q) + n : n \in Of(s, t)}
<1>1. /\ q \o s \in Seq(MemOp) /\ Len(q \o s) = Len(q) + Len(s) /\ Len(q) \in Nat /\ Len(s) \in Nat
      /\ \A i \in 1..Len(q) : (q \o s)[i] = q[i]
      /\ \A n \in 1..Len(s) : (q \o s)[Len(q) + n] = s[n]
  OBVIOUS
<1>2. \A i \in 1..Len(q \o s) : i \in 1..Len(q) \/ \E n \in 1..Len(s) : i = Len(q) + n
  <2> SUFFICES ASSUME NEW i \in 1..Len(q \o s), i \notin 1..Len(q)
               PROVE  \E n \in 1..Len(s) : i = Len(q) + n
    OBVIOUS
  <2>1. i - Len(q) \in 1..Len(s) /\ i = Len(q) + (i - Len(q)) BY <1>1
  <2>2. QED BY <2>1
<1>3. \A i \in 1..Len(q) : i \in 1..Len(q \o s) BY <1>1
<1>4. \A n \in 1..Len(s) : Len(q) + n \in 1..Len(q \o s) /\ Len(q) + n \notin 1..Len(q) BY <1>1
<1>5. ASSUME NEW i \in Of(q \o s, t), i \notin Of(q, t) PROVE \E n \in Of(s, t) : i = Len(q) + n
  <2>1. i \in 1..Len(q \o s) /\ (q \o s)[i].type = t BY DEF Of
  <2>2. i \notin 1..Len(q) BY <1>1, <1>5, <2>1 DEF Of
  <2>3. PICK n \in 1..Len(s) : i = Len(q) + n BY <1>2, <2>1, <2>2
  <2>4. s[n].type = t BY <1>1, <2>1, <2>3
  <2>5. QED BY <2>3, <2>4 DEF Of
<1>6. \A i \in Of(q, t) : i \in Of(q \o s, t) BY <1>1, <1>3 DEF Of
<1>7. \A n \in Of(s, t) : Len(q) + n \in Of(q \o s, t) BY <1>1, <1>4 DEF Of
<1>8. QED BY <1>5, <1>6, <1>7

\* What is on its way to memory then.
LEMMA WritesAdded ==
    ASSUME NEW q \in Seq(MemOp), NEW s \in Seq(MemOp)
    PROVE  Writes(q \o s) = Writes(q) \cup Writes(s)
<1> DEFINE A == Of(q, "MEMORY_WB")
           B == Of(s, "MEMORY_WB")
<1>1. Of(q \o s, "MEMORY_WB") = A \cup {Len(q) + n : n \in B} BY Queued
<1>2. /\ \A i \in A : (q \o s)[i] = q[i]
      /\ \A n \in B : (q \o s)[Len(q) + n] = s[n]
  BY DEF Of
<1>3. Writes(q \o s) = {(q \o s)[i].val : i \in Of(q \o s, "MEMORY_WB")}
      /\ Writes(q) = {q[i].val : i \in A} /\ Writes(s) = {s[i].val : i \in B}
  BY DEF Writes
<1> HIDE DEF A, B
<1>4. {(q \o s)[i].val : i \in A} = {q[i].val : i \in A} BY <1>2
<1>5. {(q \o s)[i].val : i \in {Len(q) + n : n \in B}} = {s[n].val : n \in B}
  <2>1. \A n \in B : (q \o s)[Len(q) + n].val = s[n].val BY <1>2
  <2>2. {(q \o s)[i].val : i \in {Len(q) + n : n \in B}} = {(q \o s)[Len(q) + n].val : n \in B}
    OBVIOUS
  <2>3. QED BY <2>1, <2>2
<1>6. QED BY <1>1, <1>3, <1>4, <1>5

\* x gets the requests s, one of kind t at most and none if it has one.
LEMMA TrafficAdded ==
    ASSUME TypeInv, NEW x \in Addrs, NEW s \in Seq(MemOp), NEW t,
           memPend'[x] = memPend[x] \o s,
           AnswersLike(x, t)
    PROVE  /\ Of(s, t) = {} => Undisturbed(x, t)
           /\ \A n : Of(s, t) = {n} /\ ~InTransit(x, t) => Once(x, t)' /\ InTransit(x, t)'
<1>1. memPend[x] \in Seq(MemOp) BY MemTypes
<1>2. Unserved(x, t)' = Unserved(x, t) \cup {Len(memPend[x]) + n : n \in Of(s, t)}
  BY <1>1, Queued DEF Unserved
<1>3. ASSUME Of(s, t) = {} PROVE Undisturbed(x, t)
  <2>1. Unserved(x, t)' = Unserved(x, t) BY <1>2, <1>3
  <2>2. QED BY <2>1 DEF Undisturbed, Once, InTransit, AnswersLike
<1>4. ASSUME NEW n, Of(s, t) = {n}, ~InTransit(x, t) PROVE Once(x, t)' /\ InTransit(x, t)'
  <2>1. Unserved(x, t) = {} /\ Served(x, t) = {} BY <1>4 DEF InTransit
  <2>2. Unserved(x, t)' = {Len(memPend[x]) + n} BY <1>2, <1>4, <2>1
  <2>3. QED BY <2>1, <2>2 DEF Once, InTransit, AnswersLike
<1>5. QED BY <1>3, <1>4

\* The answers on their way depend on the answers alone.
LEMMA AnswersKept ==
    memQ' = memQ => \A x, t : /\ Served(x, t)' = Served(x, t) /\ AnswersLike(x, t)
                              /\ Inbound(x)' = Inbound(x)
BY DEF Served, Inbound, AnswersLike

\* What does not touch the queues of a line disturbs nothing there.
LEMMA QueueStays ==
    ASSUME NEW x, memQ' = memQ, memPend'[x] = memPend[x]
    PROVE  /\ \A t : Undisturbed(x, t)
           /\ Inbound(x)' = Inbound(x) /\ Outbound(x)' = Outbound(x)
<1>1. \A t : Unserved(x, t)' = Unserved(x, t) BY DEF Unserved
<1>2. \A t : Undisturbed(x, t) BY <1>1, AnswersKept DEF Undisturbed, Once, InTransit
<1>3. QED BY <1>2, AnswersKept DEF Outbound

\* A request of the directory to the memory.
LEMMA RequestToMemory ==
    ASSUME TypeInv, NEW a \in Addrs, NEW t \in Kinds, NEW v \in Nat,
           SendMem(t, a, v), memQ' = memQ
    PROVE  /\ \A x \in Addrs, u \in Kinds : x # a \/ u # t => Undisturbed(x, u)
           /\ ~InTransit(a, t) => Once(a, t)' /\ InTransit(a, t)'
           /\ \A x \in Addrs : Inbound(x)' = Inbound(x)
           /\ \A x \in Addrs \ {a} : Outbound(x)' = Outbound(x)
           /\ Outbound(a)' = Outbound(a) \cup (IF t = "MEMORY_WB" THEN {v} ELSE {})
<1> DEFINE s == <<[type |-> t, val |-> v]>>
<1>1. /\ memPend \in [Addrs -> Seq(MemOp)] /\ [type |-> t, val |-> v] \in MemOp
  BY MemTypes DEF MemOp, Kinds
<1>2. /\ memPend'[a] = memPend[a] \o s /\ \A x \in Addrs \ {a} : memPend'[x] = memPend[x]
      /\ s \in Seq(MemOp)
  BY <1>1 DEF SendMem
<1>3. Of(s, t) = {1} /\ \A u : u # t => Of(s, u) = {} BY DEF Of
<1>4. Writes(s) = IF t = "MEMORY_WB" THEN {v} ELSE {}
  <2>1. s[1].val = v OBVIOUS
  <2> HIDE DEF s
  <2>2. QED BY <1>3, <2>1 DEF Writes
<1> HIDE DEF s
<1>5. Outbound(a)' = Outbound(a) \cup (IF t = "MEMORY_WB" THEN {v} ELSE {})
  <2>1. memPend[a] \in Seq(MemOp) BY <1>1
  <2>2. QED BY <1>2, <1>4, <2>1, WritesAdded DEF Outbound
<1>6. /\ \A u : u # t => Undisturbed(a, u)
      /\ ~InTransit(a, t) => Once(a, t)' /\ InTransit(a, t)'
  BY <1>2, <1>3, AnswersKept, TrafficAdded
<1>7. \A x \in Addrs \ {a} : /\ \A u : Undisturbed(x, u)
                             /\ Outbound(x)' = Outbound(x)
  BY <1>2, QueueStays
<1>8. QED BY <1>5, <1>6, <1>7, AnswersKept

\* The answer at the head of the queue, when it is taken away.
LEMMA AnswerTaken ==
    ASSUME TypeInv, memQ # <<>>, memQ' = Tail(memQ), NEW h, h = Mem
    PROVE  /\ h \in MemMsg
           /\ \A x, u : x # h.a \/ u # h.type => AnswersLike(x, u)
           /\ 1 \in Served(h.a, h.type)
           /\ (\A i, j \in Served(h.a, h.type) : i = j) => Served(h.a, h.type)' = {}
           /\ \A x : Inbound(x)' \subseteq Inbound(x)
           /\ h.type = "MEMORY_READ" => h.val \in Inbound(h.a)
<1>1. /\ memQ \in Seq(MemMsg) /\ Len(memQ) \in Nat /\ Len(memQ) > 0 /\ h = memQ[1]
      /\ Len(memQ') = Len(memQ) - 1 /\ \A i \in 1..(Len(memQ) - 1) : memQ'[i] = memQ[i + 1]
  <2>1. memQ \in Seq(MemMsg) BY MemTypes
  <2>2. QED BY <2>1 DEF Mem
<1>2. h \in MemMsg BY <1>1
<1>3. ASSUME NEW x, NEW u
      PROVE  /\ \A i \in Served(x, u)' : i \in Nat /\ i + 1 \in Served(x, u)
             /\ \A i \in Served(x, u) : i \in Nat /\ (i = 1 \/ i - 1 \in Served(x, u)')
             /\ 1 \in Served(x, u) <=> x = h.a /\ u = h.type
  <2>1. Served(x, u) = {i \in 1..Len(memQ) : memQ[i].a = x /\ memQ[i].type = u} BY DEF Served
  <2>2. Served(x, u)' = {i \in 1..Len(memQ') : memQ'[i].a = x /\ memQ'[i].type = u} BY DEF Served
  <2>3. \A i \in 1..(Len(memQ) - 1) : i + 1 \in 1..Len(memQ) BY <1>1
  <2>4. \A i \in 1..Len(memQ) : i = 1 \/ (i - 1 \in 1..(Len(memQ) - 1) /\ (i - 1) + 1 = i)
    BY <1>1
  <2>5. QED BY <1>1, <2>1, <2>2, <2>3, <2>4
<1>4. ASSUME NEW x, NEW u, x # h.a \/ u # h.type
      PROVE  AnswersLike(x, u)
  <2>1. 1 \notin Served(x, u) BY <1>3, <1>4
  <2>2. ASSUME \A i, j \in Served(x, u) : i = j, NEW i \in Served(x, u)', NEW j \in Served(x, u)'
        PROVE  i = j
    <3>1. i \in Nat /\ j \in Nat /\ i + 1 = j + 1 BY <1>3, <2>2
    <3>2. QED BY <3>1
  <2>3. QED BY <1>3, <2>1, <2>2 DEF AnswersLike
<1>5. 1 \in Served(h.a, h.type) BY <1>3
<1>6. ASSUME \A i, j \in Served(h.a, h.type) : i = j PROVE Served(h.a, h.type)' = {}
  <2> SUFFICES ASSUME NEW i \in Served(h.a, h.type)' PROVE FALSE OBVIOUS
  <2>1. i \in Nat /\ i + 1 \in Served(h.a, h.type) BY <1>3
  <2>2. i + 1 = 1 BY <1>5, <1>6, <2>1
  <2>3. i \in 1..Len(memQ') BY DEF Served
  <2>4. QED BY <2>1, <2>2, <2>3
<1>7. ASSUME NEW x PROVE Inbound(x)' \subseteq Inbound(x)
  <2> SUFFICES ASSUME NEW w \in Inbound(x)' PROVE w \in Inbound(x) OBVIOUS
  <2>1. PICK i \in Served(x, "MEMORY_READ")' : w = memQ'[i].val BY DEF Inbound
  <2>2. i \in 1..(Len(memQ) - 1) BY <1>1, <2>1 DEF Served
  <2>3. i + 1 \in Served(x, "MEMORY_READ") /\ w = memQ[i + 1].val BY <1>1, <1>3, <2>1, <2>2
  <2>4. QED BY <2>3 DEF Inbound
<1>8. h.type = "MEMORY_READ" => h.val \in Inbound(h.a) BY <1>1, <1>5 DEF Inbound
<1>9. QED BY <1>2, <1>4, <1>5, <1>6, <1>7, <1>8

\* The directory takes an answer and asks for nothing.
LEMMA AnswerOnly ==
    ASSUME TypeInv, memQ # <<>>, memQ' = Tail(memQ), UNCHANGED memPend, NEW h, h = Mem
    PROVE  /\ \A x, u : x # h.a \/ u # h.type => Undisturbed(x, u)
           /\ InTransit(h.a, h.type)
           /\ Once(h.a, h.type) => Once(h.a, h.type)' /\ ~InTransit(h.a, h.type)'
           /\ \A x : Outbound(x)' = Outbound(x)
<1>1. \A x, u : Unserved(x, u)' = Unserved(x, u) BY DEF Unserved
<1>2. \A x, u : x # h.a \/ u # h.type => AnswersLike(x, u) BY AnswerTaken
<1>3. \A x, u : x # h.a \/ u # h.type => Undisturbed(x, u)
  BY <1>1, <1>2 DEF Undisturbed, AnswersLike, Once, InTransit
<1>4. 1 \in Served(h.a, h.type) BY AnswerTaken
<1>5. ASSUME Once(h.a, h.type) PROVE Once(h.a, h.type)' /\ ~InTransit(h.a, h.type)'
  <2>1. \A i, j \in Served(h.a, h.type) : i = j BY <1>5 DEF Once
  <2>2. Served(h.a, h.type)' = {} BY <2>1, AnswerTaken
  <2>3. Unserved(h.a, h.type) = {} BY <1>4, <1>5 DEF Once
  <2>4. QED BY <1>1, <2>2, <2>3 DEF Once, InTransit
<1>6. \A x : Outbound(x)' = Outbound(x) BY DEF Outbound
<1>7. QED BY <1>3, <1>4, <1>5, <1>6 DEF InTransit

\* The memory serves a request of line a.
LEMMA RequestServed ==
    ASSUME TypeInv, NEW a \in Addrs, MemServe(a), NEW op, op = Head(memPend[a])
    PROVE  /\ op \in MemOp
           /\ \A x \in Addrs, u \in Kinds : Undisturbed(x, u)
           /\ InTransit(a, op.type)
           /\ \A x \in Addrs \ {a} : /\ mem'[x] = mem[x] /\ Inbound(x)' = Inbound(x)
                                    /\ Outbound(x)' = Outbound(x)
           /\ op.type = "MEMORY_READ" =>
                /\ Inbound(a)' \subseteq Inbound(a) \cup {mem[a]}
                /\ Outbound(a)' = Outbound(a) /\ mem' = mem
           /\ op.type = "MEMORY_WB" =>
                /\ Inbound(a)' = Inbound(a)
                /\ mem'[a] = op.val /\ op.val \in Outbound(a)
                /\ Once(a, "MEMORY_WB") => Outbound(a)' = {}
<1> DEFINE m == [type |-> op.type, a |-> a, val |-> IF op.type = "MEMORY_READ" THEN mem[a] ELSE 0]
           q == memPend[a]
           n == Len(memQ) + 1
<1>1. /\ memPend \in [Addrs -> Seq(MemOp)] /\ memQ \in Seq(MemMsg) /\ mem \in [Addrs -> Nat]
      /\ q # <<>> /\ q \in Seq(MemOp)
  BY MemTypes DEF MemServe
<1>2. op \in MemOp /\ Len(q) \in Nat /\ Len(q) > 0 /\ op = q[1] BY <1>1
<1>3. op.type \in Kinds BY <1>2 DEF MemOp, Kinds
<1>4. memQ' = Append(memQ, m) BY <1>3 DEF MemServe, Kinds
<1>5. memPend' = [memPend EXCEPT ![a] = Tail(q)]
      /\ mem' = IF op.type = "MEMORY_READ" THEN mem ELSE [mem EXCEPT ![a] = op.val]
  BY DEF MemServe
<1>6. /\ memPend'[a] = Tail(q) /\ Len(Tail(q)) = Len(q) - 1
      /\ \A i \in 1..(Len(q) - 1) : Tail(q)[i] = q[i + 1]
      /\ \A x \in Addrs \ {a} : memPend'[x] = memPend[x] /\ mem'[x] = mem[x]
  BY <1>1, <1>2, <1>5
<1>7. n \in Nat /\ Len(memQ') = n /\ memQ'[n] = m /\ \A i \in 1..Len(memQ) : memQ'[i] = memQ[i]
  BY <1>1, <1>4
<1>8. m.type = op.type /\ m.a = a /\ (op.type = "MEMORY_READ" => m.val = mem[a]) OBVIOUS
<1> HIDE DEF m, n
<1>9. ASSUME NEW x, NEW u
      PROVE  Served(x, u)' = Served(x, u) \cup (IF x = a /\ u = op.type THEN {n} ELSE {})
  <2>1. 1..n = (1..Len(memQ)) \cup {n} /\ n \notin 1..Len(memQ) BY <1>1 DEF n
  <2>2. Served(x, u) = {i \in 1..Len(memQ) : memQ[i].a = x /\ memQ[i].type = u} BY DEF Served
  <2>3. Served(x, u)' = {i \in 1..n : memQ'[i].a = x /\ memQ'[i].type = u}
    BY <1>7 DEF Served
  <2>4. QED BY <1>7, <1>8, <2>1, <2>2, <2>3
<1>10. ASSUME NEW u
       PROVE  /\ \A i \in Unserved(a, u)' : i \in Nat /\ i + 1 \in Unserved(a, u)
              /\ \A i \in Unserved(a, u) : i \in Nat /\ (i = 1 \/ i - 1 \in Unserved(a, u)')
              /\ 1 \in Unserved(a, u) <=> u = op.type
              /\ 0 \notin Unserved(a, u)'
  <2>1. Unserved(a, u) = {i \in 1..Len(q) : q[i].type = u} BY DEF Unserved, Of
  <2>2. Unserved(a, u)' = {i \in 1..(Len(q) - 1) : q[i + 1].type = u} BY <1>6 DEF Unserved, Of
  <2>3. \A i \in 1..(Len(q) - 1) : i + 1 \in 1..Len(q) BY <1>2
  <2>4. \A i \in 1..Len(q) : i = 1 \/ (i - 1 \in 1..(Len(q) - 1) /\ (i - 1) + 1 = i) BY <1>2
  <2>5. QED BY <1>2, <2>1, <2>2, <2>3, <2>4
<1>11. ASSUME NEW u, u # op.type PROVE Undisturbed(a, u)
  <2>1. 1 \notin Unserved(a, u) /\ Served(a, u)' = Served(a, u) BY <1>9, <1>10, <1>11
  <2>2. ASSUME \A i, j \in Unserved(a, u) : i = j,
               NEW i \in Unserved(a, u)', NEW j \in Unserved(a, u)'
        PROVE  i = j
    <3>1. i \in Nat /\ j \in Nat /\ i + 1 = j + 1 BY <1>10, <2>2
    <3>2. QED BY <3>1
  <2>3. Unserved(a, u)' = {} <=> Unserved(a, u) = {} BY <1>10, <2>1
  <2>4. QED BY <2>1, <2>2, <2>3 DEF Undisturbed, Once, InTransit
<1>12. Undisturbed(a, op.type) /\ InTransit(a, op.type)
  <2>1. 1 \in Unserved(a, op.type) /\ n \in Served(a, op.type)' BY <1>9, <1>10
  <2>2. ASSUME Once(a, op.type) PROVE Unserved(a, op.type)' = {} /\ Served(a, op.type)' = {n}
    <3>1. Served(a, op.type) = {} BY <2>1, <2>2 DEF Once
    <3>2. ASSUME NEW i \in Unserved(a, op.type)' PROVE FALSE
      <4>1. i \in Nat /\ i # 0 /\ i + 1 = 1 BY <1>10, <2>1, <2>2 DEF Once
      <4>2. QED BY <4>1
    <3>3. QED BY <1>9, <3>1, <3>2
  <2>3. QED BY <2>1, <2>2 DEF Undisturbed, Once, InTransit
<1>13. ASSUME NEW x \in Addrs \ {a}
       PROVE  /\ \A u : Undisturbed(x, u)
              /\ Inbound(x)' = Inbound(x) /\ Outbound(x)' = Outbound(x)
  <2>1. \A u : Unserved(x, u)' = Unserved(x, u) /\ Served(x, u)' = Served(x, u)
    BY <1>6, <1>9 DEF Unserved
  <2>2. \A i \in Served(x, "MEMORY_READ") : memQ'[i] = memQ[i] BY <1>7 DEF Served
  <2>3. Inbound(x)' = Inbound(x) BY <2>1, <2>2 DEF Inbound
  <2>4. QED BY <1>6, <2>1, <2>3 DEF Undisturbed, Once, InTransit, Outbound
<1>14. /\ \A i \in Served(a, "MEMORY_READ") : memQ'[i] = memQ[i]
       /\ {memQ'[i].val : i \in Served(a, "MEMORY_READ")} = Inbound(a)
  BY <1>7 DEF Served, Inbound
<1>15. ASSUME op.type = "MEMORY_READ"
       PROVE  /\ Inbound(a)' \subseteq Inbound(a) \cup {mem[a]}
              /\ Outbound(a)' = Outbound(a) /\ mem' = mem
  <2>1. Served(a, "MEMORY_READ")' = Served(a, "MEMORY_READ") \cup {n} BY <1>9, <1>15
  <2>2. Inbound(a)' = {memQ'[i].val : i \in Served(a, "MEMORY_READ")} \cup {memQ'[n].val}
    BY <2>1 DEF Inbound
  <2>3. Inbound(a)' \subseteq Inbound(a) \cup {mem[a]} BY <1>7, <1>8, <1>14, <1>15, <2>2
  <2>4. q = <<op>> \o Tail(q) /\ <<op>> \in Seq(MemOp) /\ Tail(q) \in Seq(MemOp)
    BY <1>1, <1>2
  <2>5. Writes(<<op>>) = {}
    <3>1. Of(<<op>>, "MEMORY_WB") = {} BY <1>15 DEF Of
    <3>2. QED BY <3>1 DEF Writes
  <2>6. Writes(q) = Writes(Tail(q))
    <3>1. Writes(<<op>> \o Tail(q)) = Writes(<<op>>) \cup Writes(Tail(q))
      BY <2>4, WritesAdded
    <3>2. QED BY <2>4, <2>5, <3>1
  <2>7. QED BY <1>5, <1>6, <1>15, <2>3, <2>6 DEF Outbound
<1>16. ASSUME op.type = "MEMORY_WB"
       PROVE  /\ Inbound(a)' = Inbound(a)
              /\ mem'[a] = op.val /\ op.val \in Outbound(a)
              /\ Once(a, "MEMORY_WB") => Outbound(a)' = {}
  <2>1. Served(a, "MEMORY_READ")' = Served(a, "MEMORY_READ") BY <1>9, <1>16
  <2>2. Inbound(a)' = Inbound(a) BY <1>14, <2>1 DEF Inbound
  <2>3. mem'[a] = op.val BY <1>1, <1>5, <1>16
  <2>4. op.val \in Outbound(a) BY <1>2, <1>10, <1>16 DEF Outbound, Writes, Unserved
  <2>5. ASSUME Once(a, "MEMORY_WB") PROVE Outbound(a)' = {}
    <3>1. Unserved(a, "MEMORY_WB")' = {}
      <4> SUFFICES ASSUME NEW i \in Unserved(a, "MEMORY_WB")' PROVE FALSE OBVIOUS
      <4>1. i \in Nat /\ i # 0 /\ i + 1 = 1 BY <1>10, <1>16, <2>5 DEF Once
      <4>2. QED BY <4>1
    <3>2. QED BY <3>1 DEF Outbound, Writes, Unserved
  <2>6. QED BY <2>2, <2>3, <2>4, <2>5
<1>17. QED BY <1>2, <1>6, <1>11, <1>12, <1>13, <1>15, <1>16

-----------------------------------------------------------------------------
(* What one line or counter needs of a step.                               *)

\* Two states of a line that promise the same of its traffic and of the waiter slots.
SameTraffic(s, t) ==
    /\ t \in Evicting <=> s \in Evicting
    /\ t \in EvictAuth <=> s \in EvictAuth
    /\ t \in {"IS", "IE", "SE"} <=> s \in {"IS", "IE", "SE"}

\* The second promises no more of its contents either.
SameRole(s, t) == SameTraffic(s, t) /\ (t \in AtHome => s \in AtHome)

\* What is expected depends on the state of a line and on the AuthTBE of a counter.
LEMMA ExpectedKept ==
    ASSUME NEW x, SameTraffic(dir[x].st, dir'[x].st),
           x \in Lines \/ auth'[x].busy = auth[x].busy
    PROVE  \A t : Expected(x, t)' <=> Expected(x, t)
BY DEF Expected, Reading, SameTraffic

\* Traffic is regular where nothing changes, where what is expected has been sent, and
\* where what is expected no longer is gone.
LEMMA TrafficStep ==
    ASSUME TrafficInv,
           \A x \in Addrs, t \in Kinds :
             \/ Undisturbed(x, t) /\ (Expected(x, t)' <=> Expected(x, t))
             \/ Once(x, t)' /\ InTransit(x, t)' /\ Expected(x, t)'
             \/ Once(x, t)' /\ ~InTransit(x, t)' /\ ~Expected(x, t)'
    PROVE  TrafficInv'
<1> SUFFICES ASSUME NEW x \in Addrs, NEW t \in Kinds PROVE Regular(x, t)' BY DEF TrafficInv
<1>1. Regular(x, t) BY DEF TrafficInv
<1>2. \/ Undisturbed(x, t) /\ (Expected(x, t)' <=> Expected(x, t))
      \/ Once(x, t)' /\ InTransit(x, t)' /\ Expected(x, t)'
      \/ Once(x, t)' /\ ~InTransit(x, t)' /\ ~Expected(x, t)'
  OBVIOUS
<1>3. QED BY <1>1, <1>2 DEF Regular, Undisturbed

\* A line whose contents stay where they are.
LEMMA LineSafe ==
    ASSUME NEW x \in Lines, SafeLine(x), current'[x] = current[x], mem'[x] = mem[x],
           Outbound(x)' = Outbound(x), Inbound(x)' \subseteq Inbound(x), llc'[x] = llc[x],
           dir'[x].st \in AtHome => dir[x].st \in AtHome,
           dir'[x].st \in EvictAuth => dir[x].st \in EvictAuth /\ tbe'[x].val = tbe[x].val
    PROVE  SafeLine(x)'
BY DEF SafeLine, InLLC

\* Nothing is on its way to memory for a line that is not evicted, nothing from there
\* for a line that is not read.
LEMMA NothingUnderWay ==
    ASSUME TrafficInv, NEW x \in Lines
    PROVE  /\ dir[x].st \notin Evicting => ~InTransit(x, "MEMORY_WB") /\ Outbound(x) = {}
           /\ dir[x].st \notin {"IS", "IE", "SE"} =>
                ~InTransit(x, "MEMORY_READ") /\ Inbound(x) = {}
<1>1. Regular(x, "MEMORY_READ") /\ Regular(x, "MEMORY_WB") BY DEF Addrs, Kinds, TrafficInv
<1>2. ASSUME dir[x].st \notin Evicting PROVE ~InTransit(x, "MEMORY_WB") /\ Outbound(x) = {}
  <2>1. ~InTransit(x, "MEMORY_WB") BY <1>1, <1>2 DEF Regular, Expected
  <2>2. QED BY <2>1 DEF Outbound, Writes, Unserved, InTransit
<1>3. ASSUME dir[x].st \notin {"IS", "IE", "SE"}
      PROVE  ~InTransit(x, "MEMORY_READ") /\ Inbound(x) = {}
  <2>1. ~InTransit(x, "MEMORY_READ") BY <1>1, <1>3 DEF Regular, Expected, Reading
  <2>2. QED BY <2>1 DEF Inbound, InTransit
<1>4. QED BY <1>2, <1>3

\* The waiter slots when nobody is parked, nobody released and nobody forgotten.
LEMMA SlotsKept ==
    ASSUME TypeInv, ParkedInv, \A k \in Counters : auth'[k].slot = auth[k].slot,
           \A x \in Addrs : dir[x].st \in EvictAuth => dir'[x].st \in EvictAuth
    PROVE  ParkedInv'
<1>1. \A k \in Counters, s \in Slots : auth[k].slot[s] \in Addrs \cup {NoAddr}
  BY DEF TypeInv, TypeOK, DirTypeOK, AuthTBE
<1>2. QED BY <1>1 DEF ParkedInv

\* A step that changes neither the memory nor the AuthTBEs, and no line's role.
LEMMA QuietStep ==
    ASSUME TypeInv, MemInv, UNCHANGED <<auth, memVars, current>>,
           \A x \in Addrs : SameRole(dir[x].st, dir'[x].st),
           \A x \in Lines :
             \/ llc'[x] = llc[x] /\ (dir'[x].st \in EvictAuth => tbe'[x].val = tbe[x].val)
             \/ llc'[x].st = "none" /\ dir'[x].st \notin AtHome \cup EvictAuth
    PROVE  MemInv'
<1>1. memPend' = memPend /\ memQ' = memQ /\ mem' = mem BY DEF memVars
<1>2. \A x : /\ \A u : Undisturbed(x, u)
             /\ Inbound(x)' = Inbound(x) /\ Outbound(x)' = Outbound(x)
  BY <1>1, QueueStays
<1>3. \A x \in Addrs, u \in Kinds : Expected(x, u)' <=> Expected(x, u)
  BY ExpectedKept DEF SameRole
<1>4. TrafficInv' BY <1>2, <1>3, TrafficStep DEF MemInv
<1>5. ParkedInv' BY SlotsKept DEF MemInv, SameRole, SameTraffic
<1>6. ASSUME NEW x \in Lines PROVE SafeLine(x)'
  <2>1. x \in Addrs /\ SafeLine(x) BY DEF Addrs, MemInv, DataInv
  <2>2. SameRole(dir[x].st, dir'[x].st) BY <2>1
  <2>3. CASE llc'[x] = llc[x] /\ (dir'[x].st \in EvictAuth => tbe'[x].val = tbe[x].val)
    BY <1>1, <1>2, <2>1, <2>2, <2>3, LineSafe DEF SameRole, SameTraffic
  <2>4. CASE llc'[x].st = "none" /\ dir'[x].st \notin AtHome \cup EvictAuth
    <3>1. Inbound(x)' \subseteq {current'[x]} BY <1>2, <2>1 DEF SafeLine
    <3>2. QED BY <2>4, <3>1 DEF SafeLine
  <2>5. QED BY <2>3, <2>4
<1>7. QED BY <1>4, <1>5, <1>6 DEF MemInv, DataInv

\* Such a step that changes one entry, and no TBE but that entry's.
LEMMA QuietEntry ==
    ASSUME TypeInv, MemInv, UNCHANGED <<auth, memVars, current>>,
           NEW a \in Addrs, NEW e, SetDir(a, e), SameRole(dir[a].st, e.st),
           tbe' = tbe \/ e.st \notin EvictAuth,
           NEW t, tbe' = tbe \/ tbe' = [tbe EXCEPT ![a] = t],
           NEW n,
           \/ llc' = llc
           \/ llc' = [llc EXCEPT ![a] = n] /\ n.st = "none" /\ e.st \notin AtHome \cup EvictAuth
    PROVE  MemInv'
<1>1. dir'[a] = e /\ \A x \in Addrs \ {a} : dir'[x] = dir[x] BY OneEntry
<1>2. \A x \in Addrs : SameRole(dir[x].st, dir'[x].st) BY <1>1 DEF SameRole, SameTraffic
<1>3. tbe \in [Addrs -> TBE] /\ llc \in [Addrs -> LLCEntry] BY DEF TypeInv, TypeOK, DirTypeOK
<1>4. \A x \in Addrs : dir'[x].st \in EvictAuth => tbe'[x].val = tbe[x].val BY <1>1, <1>3
<1>5. \A x \in Addrs : llc'[x] = llc[x]
                       \/ (llc'[x].st = "none" /\ dir'[x].st \notin AtHome \cup EvictAuth)
  BY <1>1, <1>3
<1>6. Lines \subseteq Addrs BY DEF Addrs
<1>7. QED BY <1>2, <1>4, <1>5, <1>6, QuietStep
-----------------------------------------------------------------------------
(* Steps that leave the memory alone.                                      *)

\* A step that changes nothing of the directory and of the memory.
LEMMA NothingMem ==
    ASSUME TypeInv, MemInv, UNCHANGED <<dirVars, memVars, current>>
    PROVE  MemInv'
<1>1. dir' = dir /\ tbe' = tbe /\ llc' = llc /\ auth' = auth BY DEF dirVars
<1>2. \A x \in Addrs : SameRole(dir[x].st, dir'[x].st) BY <1>1 DEF SameRole, SameTraffic
<1>3. QED BY <1>1, <1>2, QuietStep

\* The steps of the L1s leave the directory and the memory as they are.
LEMMA L1Quiet ==
    ASSUME NEW c \in Cores, L1Next(c)
    PROVE  UNCHANGED <<dirVars, memVars, current, waitQ>>
<1>1. L1Unchanged => UNCHANGED <<dirVars, memVars, current, waitQ>> BY DEF L1Unchanged
<1>2. CASE CoreIssue(c) \/ MandatoryPanic(c) \/ \E m \in fwd : FlushReqPanic(c, m)
  BY <1>2 DEF CoreIssue, MandatoryPanic, FlushReqPanic, ghostVars, chanVars
<1>3. CASE \/ Miss(c) \/ LoadHit(c) \/ Renew(c) \/ Upgrade(c)
           \/ OwnerLoad(c) \/ OwnerStore(c) \/ MandatoryStall(c)
  <2>1. L1Unchanged
    BY <1>3 DEF Miss, LoadHit, Renew, Upgrade, OwnerLoad, OwnerStore, MandatoryStall
  <2>2. QED BY <1>1, <2>1
<1>4. CASE \E v \in Lines : EvictShared(c, v) \/ EvictOwned(c, v) \/ EvictStall(c, v)
  <2>1. L1Unchanged BY <1>4 DEF EvictShared, EvictOwned, EvictStall
  <2>2. QED BY <1>1, <2>1
<1>5. CASE \E m \in rep : \/ ShRep(c, m) \/ RenewRep(c, m) \/ ExRepMiss(c, m)
                         \/ ExRepUpgrade(c, m) \/ UpgRep(c, m) \/ AckRep(c, m)
  <2>1. L1Unchanged
    BY <1>5 DEF ShRep, RenewRep, ExRepMiss, ExRepUpgrade, UpgRep, AckRep, CompleteStore
  <2>2. QED BY <1>1, <2>1
<1>6. CASE \E m \in fwd : FlushReq(c, m) \/ FlushReqEvicting(c, m)
  <2>1. L1Unchanged BY <1>6 DEF FlushReq, FlushReqEvicting
  <2>2. QED BY <1>1, <2>1
<1>7. QED BY <1>2, <1>3, <1>4, <1>5, <1>6 DEF L1Next

\* So they disturb nothing.
LEMMA L1Mem ==
    ASSUME TypeInv, MemInv, NEW c \in Cores, L1Next(c)
    PROVE  MemInv'
BY L1Quiet, NothingMem

\* Requests answered from the LLC or by the owner, put aside, recycled or stalled.
LEMMA QuietRequestMem ==
    ASSUME TypeInv, MemInv,
           HitShared \/ HitExclusive \/ UpgradeOwner \/ WritebackOwner \/ FlushOwner
             \/ AuthWait \/ Bounce \/ RequestStall
    PROVE  MemInv'
<1> SUFFICES ASSUME NEW a, a = Req.a PROVE MemInv' OBVIOUS
<1>1. /\ reqQ # <<>> /\ UNCHANGED <<auth, memVars, current, llc>>
  BY DEF HitShared, HitExclusive, UpgradeOwner, WritebackOwner, FlushOwner, AuthWait, Bounce,
         RequestStall, AtRequest, memVars, DirUnchanged
<1>2. /\ a \in Addrs /\ dir[a] \in DirEntry /\ Reserved \in DirEntry /\ Reserved.st = dir[a].st
  BY <1>1, ReqType
<1>3. \E e, t : /\ SetDir(a, e) /\ SameRole(dir[a].st, e.st)
                /\ tbe' = tbe \/ (tbe' = [tbe EXCEPT ![a] = t] /\ e.st \notin EvictAuth)
  <2>1. CASE HitShared
    <3> DEFINE e == [Reserved EXCEPT !.st = "S", !.wts = mts, !.rts = mts]
    <3>1. SetDir(a, e) /\ tbe' = tbe /\ dir[a].st \in {"I", "S"} BY <2>1 DEF HitShared, AtRequest
    <3>2. e.st = "S" BY <1>2 DEF DirEntry
    <3> HIDE DEF e
    <3>3. SameRole(dir[a].st, e.st)
      BY <3>1, <3>2 DEF SameRole, SameTraffic, AtHome, Evicting, EvictAuth
    <3>4. QED BY <3>1, <3>3
  <2>2. CASE HitExclusive \/ UpgradeOwner
    <3>1. PICK e : SetDir(a, e) /\ e.st = "E" /\ tbe' = tbe /\ dir[a].st \in {"I", "S"}
      BY <1>2, <2>2 DEF HitExclusive, UpgradeOwner, AtRequest, DirEntry
    <3>2. SameRole(dir[a].st, e.st) BY <3>1 DEF SameRole, SameTraffic, AtHome, Evicting, EvictAuth
    <3>3. QED BY <3>1, <3>2
  <2>3. CASE WritebackOwner \/ FlushOwner
    <3>1. PICK e, t : /\ SetDir(a, e) /\ e.st \in {"ES", "EE"} /\ dir[a].st = "E"
                      /\ tbe' = [tbe EXCEPT ![a] = t]
      BY <1>2, <2>3 DEF WritebackOwner, FlushOwner, AtRequest, DirEntry, Recall
    <3>2. SameRole(dir[a].st, e.st) /\ e.st \notin EvictAuth
      BY <3>1 DEF SameRole, SameTraffic, AtHome, Evicting, EvictAuth
    <3>3. QED BY <3>1, <3>2
  <2>4. CASE AuthWait \/ RequestStall
    <3>1. SetDir(a, Reserved) /\ tbe' = tbe BY <2>4 DEF AuthWait, RequestStall
    <3>2. QED BY <1>2, <3>1 DEF SameRole, SameTraffic
  <2>5. CASE Bounce
    <3> DEFINE e == [Reserved EXCEPT !.st = BaseState(dir[a].st)]
    <3>1. SetDir(a, e) /\ tbe' = tbe /\ dir[a].st \in FetchAuth BY <2>5 DEF Bounce, AtRequest
    <3>2. e.st = BaseState(dir[a].st) BY <1>2 DEF DirEntry
    <3> HIDE DEF e
    <3>3. SameRole(dir[a].st, e.st)
      BY <3>1, <3>2 DEF SameRole, SameTraffic, AtHome, Evicting, EvictAuth, BaseState, FetchAuth
    <3>4. QED BY <3>1, <3>3
  <2>6. QED BY <2>1, <2>2, <2>3, <2>4, <2>5
<1>4. QED BY <1>1, <1>2, <1>3, QuietEntry

\* Responses that bounce or stall, an owned line that is recalled for its eviction.
LEMMA QuietResponseMem ==
    ASSUME TypeInv, MemInv, ResponseBounce \/ ResponseStall
    PROVE  MemInv'
<1> SUFFICES ASSUME NEW a, a = Rsp.a PROVE MemInv' OBVIOUS
<1>1. rspQ # <<>> /\ UNCHANGED <<auth, memVars, current, llc, tbe>>
  BY DEF ResponseBounce, ResponseStall, AtResponse, memVars, DirUnchanged
<1>2. a \in Addrs /\ dir[a] \in DirEntry BY <1>1, RspType
<1>3. CASE dir' = dir
  <2>1. \A x \in Addrs : SameRole(dir[x].st, dir'[x].st) BY <1>3 DEF SameRole, SameTraffic
  <2>2. QED BY <1>1, <2>1, QuietStep
<1>4. CASE ResponseBounce /\ dir' # dir
  <2> DEFINE e == [dir[a] EXCEPT !.st = BaseState(dir[a].st)]
  <2>1. SetDir(a, e) /\ dir[a].st \in FetchAuth BY <1>4 DEF ResponseBounce, AtResponse
  <2>2. e.st = BaseState(dir[a].st) BY <1>2 DEF DirEntry
  <2> HIDE DEF e
  <2>3. SameRole(dir[a].st, e.st)
    BY <2>1, <2>2 DEF SameRole, SameTraffic, AtHome, Evicting, EvictAuth, BaseState, FetchAuth
  <2>4. QED BY <1>1, <1>2, <2>1, <2>3, QuietEntry
<1>5. QED BY <1>3, <1>4 DEF ResponseStall

\* An owned line is recalled for its eviction, and the stale copy dropped.
LEMMA EvictOwnedLineMem ==
    ASSUME TypeInv, MemInv, NEW v \in Addrs, EvictOwnedLine(v)
    PROVE  MemInv'
<1> DEFINE e == [dir[v] EXCEPT !.st = "E_Evict_Flush"]
           t == [NoTBE EXCEPT !.wts = dir[v].wts, !.val = llc[v].val]
<1>1. /\ dir[v].st = "E" /\ SetDir(v, e) /\ tbe' = [tbe EXCEPT ![v] = t]
      /\ llc' = [llc EXCEPT ![v] = NoLLC] /\ UNCHANGED <<auth, memVars, current>>
  BY DEF EvictOwnedLine, Replace, Park, Drop
<1>2. e.st = "E_Evict_Flush" BY DEF TypeInv, TypeOK, DirTypeOK, DirEntry
<1> HIDE DEF e, t
<1>3. SameRole(dir[v].st, e.st) /\ e.st \notin EvictAuth \cup AtHome /\ NoLLC.st = "none"
  BY <1>1, <1>2 DEF SameRole, SameTraffic, AtHome, Evicting, EvictAuth, NoLLC
<1>4. QED BY <1>1, <1>3, QuietEntry


-----------------------------------------------------------------------------
(* Requests.                                                               *)

\* The contents of the lines other than a, whose entries a step leaves alone.
LEMMA LinesSafe ==
    ASSUME DataInv, NEW a, a \in Lines => SafeLine(a)',
           \A x \in Lines \ {a} :
             /\ dir'[x] = dir[x] /\ tbe'[x] = tbe[x] /\ llc'[x] = llc[x]
             /\ current'[x] = current[x] /\ mem'[x] = mem[x]
             /\ Outbound(x)' = Outbound(x) /\ Inbound(x)' \subseteq Inbound(x)
    PROVE  DataInv'
<1>1. ASSUME NEW x \in Lines, x # a PROVE SafeLine(x)'
  <2>1. SafeLine(x) BY DEF DataInv
  <2>2. QED BY <1>1, <2>1, LineSafe
<1>2. \A x \in Lines : x = a => SafeLine(x)' BY DEF SafeLine, InLLC, Inbound, Outbound, Served
<1>3. QED BY <1>1, <1>2 DEF DataInv

\* A line is asked for from memory.
LEMMA FetchFromMemoryMem == TypeInv /\ OwnInv /\ MemInv /\ FetchFromMemory => MemInv'
<1> SUFFICES ASSUME TypeInv, OwnInv, MemInv, FetchFromMemory, NEW a, a = Req.a PROVE MemInv'
  OBVIOUS
<1>1. /\ reqQ # <<>> /\ UNCHANGED <<llc, auth, mem, memQ, current>> /\ dir[a].st \in {"I", "S"}
      /\ SendMem("MEMORY_READ", a, 0) /\ ReqEvent \in {"ShReq", "ExReq"}
  BY DEF FetchFromMemory, AtRequest, DirUnchanged
<1>2. a \in Lines /\ a \in Addrs /\ llc[a].st = "none" BY <1>1, ReqType, EventKind
<1>3. Reserved \in DirEntry BY <1>1, ReqType
<1>4. PICK e, t : SetDir(a, e) /\ e.st \in {"IS", "IE", "SE"} /\ tbe' = [tbe EXCEPT ![a] = t]
  BY <1>3 DEF FetchFromMemory, DirEntry
<1>5. /\ dir'[a] = e /\ \A x \in Addrs \ {a} : dir'[x] = dir[x]
      /\ \A x \in Addrs \ {a} : tbe'[x] = tbe[x]
  BY <1>2, <1>4, OneEntry, OneTBE
<1>6. 0 \in Nat /\ "MEMORY_READ" \in Kinds BY DEF Kinds
<1>7. /\ \A x \in Addrs, u \in Kinds : x # a \/ u # "MEMORY_READ" => Undisturbed(x, u)
      /\ ~InTransit(a, "MEMORY_READ") =>
            Once(a, "MEMORY_READ")' /\ InTransit(a, "MEMORY_READ")'
      /\ \A x \in Addrs : Inbound(x)' = Inbound(x) /\ Outbound(x)' = Outbound(x)
  <2>1. Outbound(a) \cup (IF "MEMORY_READ" = "MEMORY_WB" THEN {0} ELSE {}) = Outbound(a) OBVIOUS
  <2>2. QED BY <1>1, <1>2, <1>6, <2>1, RequestToMemory
<1>8. ~InTransit(a, "MEMORY_READ") BY <1>1, <1>2, NothingUnderWay DEF MemInv
<1>9. TrafficInv'
  <2>1. Expected(a, "MEMORY_READ")' BY <1>2, <1>4, <1>5 DEF Expected, Reading
  <2>2. \A u \in Kinds : u # "MEMORY_READ" => (Expected(a, u)' <=> Expected(a, u))
    BY <1>1, <1>4, <1>5 DEF Expected, Evicting
  <2>3. \A x \in Addrs \ {a}, u \in Kinds : Expected(x, u)' <=> Expected(x, u)
    BY <1>1, <1>5 DEF Expected, Reading
  <2>4. \A x \in Addrs, u \in Kinds :
          \/ Undisturbed(x, u) /\ (Expected(x, u)' <=> Expected(x, u))
          \/ Once(x, u)' /\ InTransit(x, u)' /\ Expected(x, u)'
    BY <1>7, <1>8, <2>1, <2>2, <2>3
  <2>5. QED BY <2>4, TrafficStep DEF MemInv
<1>10. ParkedInv' BY <1>1, <1>5, SlotsKept DEF MemInv, EvictAuth
<1>11. DataInv'
  <2>1. SafeLine(a) BY <1>2 DEF MemInv, DataInv
  <2>2. SafeLine(a)' BY <1>1, <1>2, <1>4, <1>5, <1>7, <2>1, LineSafe DEF AtHome, EvictAuth
  <2>3. Lines \subseteq Addrs BY DEF Addrs
  <2>4. QED BY <1>1, <1>5, <1>7, <2>2, <2>3, LinesSafe DEF MemInv
<1>12. QED BY <1>9, <1>10, <1>11 DEF MemInv

\* A counter is asked for unless it has been.
LEMMA CounterFetched ==
    ASSUME TypeInv, TrafficInv, NEW k \in Counters, Fetch(k), memQ' = memQ, auth'[k].busy = TRUE,
           \A p \in Counters \ {k} : auth'[p].busy = auth[p].busy
    PROVE  /\ \A p \in Counters : /\ Once(p, "MEMORY_READ")'
                                  /\ InTransit(p, "MEMORY_READ")' <=> Expected(p, "MEMORY_READ")'
           /\ \A x \in Lines : Undisturbed(x, "MEMORY_READ")
           /\ \A x \in Addrs : Undisturbed(x, "MEMORY_WB")
           /\ \A x \in Addrs : Inbound(x)' = Inbound(x) /\ Outbound(x)' = Outbound(x)
<1>1. /\ k \in Addrs /\ Counters \subseteq Addrs /\ Lines \subseteq Addrs /\ k \notin Lines
      /\ Lines \cap Counters = {}
  BY SetsAssumption DEF Addrs
<1>2. \A p \in Counters : /\ Once(p, "MEMORY_READ")
                          /\ InTransit(p, "MEMORY_READ") <=> auth[p].busy
                          /\ Expected(p, "MEMORY_READ")' <=> auth'[p].busy
  <2> SUFFICES ASSUME NEW p \in Counters
               PROVE  /\ Once(p, "MEMORY_READ")
                      /\ InTransit(p, "MEMORY_READ") <=> auth[p].busy
                      /\ Expected(p, "MEMORY_READ")' <=> auth'[p].busy
    OBVIOUS
  <2>1. Regular(p, "MEMORY_READ") BY <1>1 DEF TrafficInv, Kinds
  <2>2. p \notin Lines BY <1>1
  <2>3. QED BY <2>1, <2>2 DEF Regular, Expected, Reading
<1>3. CASE auth[k].busy
  <2>1. \A x : /\ \A u : Undisturbed(x, u)
               /\ Inbound(x)' = Inbound(x) /\ Outbound(x)' = Outbound(x)
    BY <1>3, QueueStays DEF Fetch
  <2>2. \A p \in Counters : auth'[p].busy <=> auth[p].busy BY <1>3
  <2>3. QED BY <1>1, <1>2, <2>1, <2>2 DEF Undisturbed
<1>4. CASE ~auth[k].busy
  <2>1. SendMem("MEMORY_READ", k, 0) BY <1>4 DEF Fetch
  <2>2. 0 \in Nat /\ "MEMORY_READ" \in Kinds /\ "MEMORY_WB" \in Kinds BY DEF Kinds
  <2>3. /\ \A x \in Addrs, u \in Kinds : x # k \/ u # "MEMORY_READ" => Undisturbed(x, u)
        /\ ~InTransit(k, "MEMORY_READ") =>
              Once(k, "MEMORY_READ")' /\ InTransit(k, "MEMORY_READ")'
        /\ \A x \in Addrs : Inbound(x)' = Inbound(x) /\ Outbound(x)' = Outbound(x)
    BY <1>1, <2>1, <2>2, RequestToMemory
  <2>4. Once(k, "MEMORY_READ")' /\ InTransit(k, "MEMORY_READ")' BY <1>2, <1>4, <2>3
  <2>5. \A p \in Counters \ {k} : Undisturbed(p, "MEMORY_READ") BY <1>1, <2>2, <2>3
  <2>6. \A p \in Counters : /\ Once(p, "MEMORY_READ")'
                            /\ InTransit(p, "MEMORY_READ")' <=> Expected(p, "MEMORY_READ")'
    BY <1>2, <2>4, <2>5 DEF Undisturbed
  <2>7. QED BY <1>1, <2>2, <2>3, <2>6
<1>5. QED BY <1>3, <1>4

\* The traffic of a step that asks for a counter.
LEMMA CounterTraffic ==
    ASSUME TypeInv, TrafficInv, NEW k \in Counters, Fetch(k), memQ' = memQ, auth'[k].busy = TRUE,
           \A p \in Counters \ {k} : auth'[p].busy = auth[p].busy,
           \A x \in Addrs : /\ dir'[x].st \in Evicting <=> dir[x].st \in Evicting
                            /\ dir'[x].st \in {"IS", "IE", "SE"} <=> dir[x].st \in {"IS", "IE", "SE"}
    PROVE  /\ TrafficInv'
           /\ \A x \in Addrs : Inbound(x)' = Inbound(x) /\ Outbound(x)' = Outbound(x)
<1>1. /\ \A p \in Counters : /\ Once(p, "MEMORY_READ")'
                             /\ InTransit(p, "MEMORY_READ")' <=> Expected(p, "MEMORY_READ")'
      /\ \A x \in Lines : Undisturbed(x, "MEMORY_READ")
      /\ \A x \in Addrs : Undisturbed(x, "MEMORY_WB")
      /\ \A x \in Addrs : Inbound(x)' = Inbound(x) /\ Outbound(x)' = Outbound(x)
  BY CounterFetched
<1>2. \A x \in Addrs : Expected(x, "MEMORY_WB")' <=> Expected(x, "MEMORY_WB") BY DEF Expected
<1>3. \A x \in Lines : Expected(x, "MEMORY_READ")' <=> Expected(x, "MEMORY_READ")
  BY DEF Expected, Reading, Addrs
<1>4. Addrs = Lines \cup Counters /\ Kinds = {"MEMORY_READ", "MEMORY_WB"} BY DEF Addrs, Kinds
<1>5. \A x \in Addrs, t \in Kinds :
             \/ Undisturbed(x, t) /\ (Expected(x, t)' <=> Expected(x, t))
             \/ Once(x, t)' /\ InTransit(x, t)' /\ Expected(x, t)'
             \/ Once(x, t)' /\ ~InTransit(x, t)' /\ ~Expected(x, t)'
  BY <1>1, <1>2, <1>3, <1>4
<1>6. QED BY <1>1, <1>5, TrafficStep

\* A request is put aside until the counter of its line is there.
LEMMA AuthMissMem == TypeInv /\ MemInv /\ AuthMiss => MemInv'
<1> SUFFICES ASSUME TypeInv, MemInv, AuthMiss, NEW a, a = Req.a, NEW k, k = Parent(a) PROVE MemInv'
  OBVIOUS
<1>1. /\ reqQ # <<>> /\ UNCHANGED <<tbe, llc, mem, memQ, current>>
      /\ dir[a].st \in {"I", "S", "E"} /\ ReqEvent = "Auth_Miss" /\ FetchCounterIfNeeded(k)
  BY DEF AuthMiss, AtRequest, DirUnchanged
<1>2. a \in Addrs /\ a \in Lines /\ Reserved \in DirEntry /\ ParentMissing(a)
  BY <1>1, ReqType, EventKind
<1>3. k \in Counters BY <1>2, ParentType DEF ParentMissing
<1>4. PICK e : SetDir(a, e) /\ e.st = FetchState(dir[a].st) BY <1>2 DEF AuthMiss, DirEntry
<1>5. dir'[a] = e /\ \A x \in Addrs \ {a} : dir'[x] = dir[x] BY <1>2, <1>4, OneEntry
<1>6. SameRole(dir[a].st, e.st)
  BY <1>1, <1>4 DEF FetchState, SameRole, SameTraffic, AtHome, Evicting, EvictAuth
<1>7. auth \in [Counters -> AuthTBE] BY DEF TypeInv, TypeOK, DirTypeOK
<1>8. /\ auth'[k].busy = TRUE /\ \A p \in Counters \ {k} : auth'[p].busy = auth[p].busy
      /\ \A p \in Counters : auth'[p].slot = auth[p].slot
  BY <1>1, <1>3, <1>7 DEF FetchCounterIfNeeded, AuthTBE
<1>9. \A x \in Addrs : SameRole(dir[x].st, dir'[x].st) BY <1>5, <1>6 DEF SameRole, SameTraffic
<1>10. TrafficInv' /\ \A x \in Addrs : Inbound(x)' = Inbound(x) /\ Outbound(x)' = Outbound(x)
  BY <1>1, <1>3, <1>8, <1>9, CounterTraffic
  DEF MemInv, FetchCounterIfNeeded, SameRole, SameTraffic
<1>11. ParkedInv' BY <1>8, <1>9, SlotsKept DEF MemInv, SameRole, SameTraffic
<1>12. ASSUME NEW x \in Lines PROVE SafeLine(x)'
  <2>1. x \in Addrs /\ SafeLine(x) BY DEF Addrs, MemInv, DataInv
  <2>2. SameRole(dir[x].st, dir'[x].st) BY <1>9, <2>1
  <2>3. QED BY <1>1, <1>10, <2>1, <2>2, LineSafe DEF SameRole, SameTraffic
<1>13. QED BY <1>10, <1>11, <1>12 DEF MemInv, DataInv

\* No request disturbs the invariant.
LEMMA RequestPortMem == TypeInv /\ OwnInv /\ MemInv /\ RequestPort => MemInv'
<1> SUFFICES ASSUME TypeInv, OwnInv, MemInv, RequestPort PROVE MemInv' OBVIOUS
<1>1. CASE RequestPanic BY <1>1, NothingMem DEF RequestPanic, ghostVars
<1>2. QED BY <1>1, FetchFromMemoryMem, QuietRequestMem, AuthMissMem DEF RequestPort

-----------------------------------------------------------------------------
(* Lines that come back from their owners, and victims.                    *)

\* An L1 hands a line back, and it enters the LLC.
LEMMA LineReturned ==
    ASSUME TypeInv, MemInv, rspQ # <<>>, PopResponse, StoreInLLC, UNCHANGED <<auth, memVars>>,
           NEW a, a = Rsp.a, dir[a].st \in {"E", "ES", "EE"},
           NEW e, SetDir(a, e), e.st \in {"S", "E"},
           tbe' = tbe \/ tbe' = [tbe EXCEPT ![a] = NoTBE]
    PROVE  MemInv'
<1>1. a \in Lines /\ a \in Addrs BY RspType
<1>2. /\ llc \in [Addrs -> LLCEntry] /\ tbe \in [Addrs -> TBE] /\ current \in [Lines -> Nat]
  BY DEF TypeInv, TypeOK, DirTypeOK, HistoryTypeOK
<1>3. /\ llc'[a].st = "dirty" /\ llc'[a].val = current'[a]
      /\ \A x \in Lines \ {a} : /\ llc'[x] = llc[x] /\ current'[x] = current[x] /\ tbe'[x] = tbe[x]
  BY <1>1, <1>2 DEF PopResponse, StoreInLLC, Addrs
<1>4. dir'[a] = e /\ \A x \in Addrs \ {a} : dir'[x] = dir[x] BY <1>1, OneEntry
<1>5. memPend' = memPend /\ memQ' = memQ /\ mem' = mem BY DEF memVars
<1>6. \A x : /\ \A u : Undisturbed(x, u)
             /\ Inbound(x)' = Inbound(x) /\ Outbound(x)' = Outbound(x)
  BY <1>5, QueueStays
<1>7. \A x \in Addrs : SameTraffic(dir[x].st, dir'[x].st)
  BY <1>4 DEF SameTraffic, Evicting, EvictAuth
<1>8. \A x \in Addrs, u \in Kinds : Expected(x, u)' <=> Expected(x, u) BY <1>7, ExpectedKept
<1>9. TrafficInv' BY <1>6, <1>8, TrafficStep DEF MemInv
<1>10. ParkedInv' BY <1>7, SlotsKept DEF MemInv, SameTraffic
<1>11. SafeLine(a)'
  <2>1. Inbound(a) = {} BY <1>1, NothingUnderWay DEF MemInv
  <2>2. Inbound(a)' = {} BY <1>6, <2>1
  <2>3. e.st \notin EvictAuth BY DEF EvictAuth
  <2>4. a \in InLLC' BY <1>1, <1>3 DEF InLLC
  <2>5. QED BY <1>3, <1>4, <2>2, <2>3, <2>4 DEF SafeLine
<1>12. DataInv'
  <2>1. Lines \subseteq Addrs BY DEF Addrs
  <2>2. QED BY <1>3, <1>4, <1>5, <1>6, <1>11, <2>1, LinesSafe DEF MemInv
<1>13. QED BY <1>9, <1>10, <1>12 DEF MemInv

\* The steps that take a line back from its owner for another L1, or for good.
LEMMA TakenBackMem ==
    TypeInv /\ MemInv /\ (TakeBack \/ GrantAfterWriteback \/ GrantAfterFlush) => MemInv'
<1> SUFFICES ASSUME TypeInv, MemInv, TakeBack \/ GrantAfterWriteback \/ GrantAfterFlush,
                    NEW a, a = Rsp.a
             PROVE  MemInv'
  OBVIOUS
<1>1. /\ rspQ # <<>> /\ PopResponse /\ StoreInLLC /\ UNCHANGED <<auth, memVars>>
      /\ dir[a].st \in {"E", "ES", "EE"} /\ (tbe' = tbe \/ tbe' = [tbe EXCEPT ![a] = NoTBE])
  BY DEF TakeBack, GrantAfterWriteback, GrantAfterFlush, AtResponse
<1>2. dir[a] \in DirEntry BY <1>1, RspType
<1>3. \E e : SetDir(a, e) /\ e.st \in {"S", "E"}
  <2>1. CASE TakeBack BY <2>1 DEF TakeBack
  <2>2. CASE GrantAfterWriteback
    <3> DEFINE r == Max2(Rsp.rts, Max2(Rsp.wts + Lease, Lease))
               e == [dir[a] EXCEPT !.st = "S", !.wts = Rsp.wts, !.rts = r]
    <3>1. SetDir(a, e) BY <2>2 DEF GrantAfterWriteback
    <3>2. e.st = "S" BY <1>2 DEF DirEntry
    <3>3. QED BY <3>1, <3>2
  <2>3. CASE GrantAfterFlush BY <2>3 DEF GrantAfterFlush
  <2>4. QED BY <2>1, <2>2, <2>3
<1>4. QED BY <1>1, <1>3, LineReturned

\* A victim is written back, with the part ks of its branch that becomes dirty.
LEMMA VictimWritten ==
    ASSUME TypeInv, OwnInv, MemInv, NEW v \in Addrs,
           dir[v].st \notin Evicting \cup EvictAuth \cup {"IS", "IE", "SE"},
           NEW ks \in SUBSET Counters, ks \subseteq InLLC, NEW e, e.st \in Evicting,
           dir' = [Modified(dir, ks) EXCEPT ![v] = e],
           NEW w \in Nat, SendMem("MEMORY_WB", v, w), UNCHANGED <<mem, memQ, auth>>,
           v \in Lines => w = current'[v] /\ llc'[v].st = "none",
           \A x \in Lines \ {v} :
             tbe'[x] = tbe[x] /\ llc'[x] = llc[x] /\ current'[x] = current[x]
    PROVE  MemInv'
<1>1. /\ Lines \subseteq Addrs /\ Lines \cap Counters = {} BY SetsAssumption DEF Addrs
<1>2. dir \in [Addrs -> DirEntry] /\ Modified(dir, ks) \in [Addrs -> DirEntry]
  BY ModifiedType DEF TypeInv, TypeOK, DirTypeOK
<1>3. /\ dir'[v] = e
      /\ \A x \in Addrs \ {v} : dir'[x] = Modified(dir, ks)[x]
  BY <1>2
<1>4. \A x \in Addrs \ {v} : /\ x \notin ks => dir'[x] = dir[x]
                             /\ dir'[x].st = IF x \in ks THEN "C_M" ELSE dir[x].st
  BY <1>2, <1>3, ModifiedEntry
<1>5. \A x \in ks : dir[x].st \notin Uncached
  BY DEF OwnInv, CacheInv, InLLC
<1>6. \A x \in Addrs \ {v} : SameTraffic(dir[x].st, dir'[x].st)
  BY <1>4, <1>5 DEF SameTraffic, Uncached, Evicting, EvictAuth
<1>7. "MEMORY_WB" \in Kinds BY DEF Kinds
<1>8. /\ \A x \in Addrs, u \in Kinds : x # v \/ u # "MEMORY_WB" => Undisturbed(x, u)
      /\ ~InTransit(v, "MEMORY_WB") => Once(v, "MEMORY_WB")' /\ InTransit(v, "MEMORY_WB")'
      /\ \A x \in Addrs : Inbound(x)' = Inbound(x)
      /\ \A x \in Addrs \ {v} : Outbound(x)' = Outbound(x)
      /\ Outbound(v)' = Outbound(v) \cup {w}
  BY <1>7, RequestToMemory
<1>9. ~InTransit(v, "MEMORY_WB")
  <2>1. Regular(v, "MEMORY_WB") BY <1>7 DEF MemInv, TrafficInv
  <2>2. QED BY <2>1 DEF Regular, Expected
<1>10. TrafficInv'
  <2>1. Expected(v, "MEMORY_WB")' BY <1>3 DEF Expected
  <2>2. Expected(v, "MEMORY_READ")' <=> Expected(v, "MEMORY_READ")
    BY <1>3 DEF Expected, Reading, Evicting
  <2>3. \A x \in Addrs \ {v}, u \in Kinds : Expected(x, u)' <=> Expected(x, u)
    BY <1>6, ExpectedKept
  <2>4. Kinds = {"MEMORY_READ", "MEMORY_WB"} BY DEF Kinds
  <2>5. \A x \in Addrs, u \in Kinds :
          \/ Undisturbed(x, u) /\ (Expected(x, u)' <=> Expected(x, u))
          \/ Once(x, u)' /\ InTransit(x, u)' /\ Expected(x, u)'
    BY <1>8, <1>9, <2>1, <2>2, <2>3, <2>4
  <2>6. QED BY <2>5, TrafficStep DEF MemInv
<1>11. ParkedInv' BY <1>6, SlotsKept DEF MemInv, SameTraffic
<1>12. ASSUME v \in Lines PROVE SafeLine(v)'
  <2>1. Inbound(v) = {} /\ Outbound(v) = {} BY <1>12, NothingUnderWay DEF MemInv
  <2>2. Inbound(v)' = {} /\ Outbound(v)' = {current'[v]} BY <1>8, <1>12, <2>1
  <2>3. e.st \notin EvictAuth BY DEF EvictAuth, Evicting
  <2>4. v \notin InLLC' BY <1>12 DEF InLLC
  <2>5. QED BY <1>3, <1>12, <2>2, <2>3, <2>4 DEF SafeLine
<1>13. DataInv' BY <1>1, <1>4, <1>8, <1>12, LinesSafe DEF MemInv
<1>14. QED BY <1>10, <1>11, <1>13 DEF MemInv

\* What AddWaiters leaves in a slot: what was there, or nothing, or the one address
\* whose turn it is.
Place(w, S, i) == Cardinality({s \in Slots : w[s] # NoAddr}) + Cardinality({h \in S : h <= i})
LEMMA WaiterPlaced ==
    ASSUME NEW w, NEW from, NEW S, NEW s \in Slots
    PROVE  LET n == AddWaiters(w, from, S)[s] IN
             \/ w[s] # NoAddr /\ n = w[s]
             \/ w[s] = NoAddr /\ n = NoAddr
             \/ w[s] = NoAddr /\ \E i \in S : n = from[i] /\ s = Place(w, S, i)
<1> DEFINE used == Cardinality({u \in Slots : w[u] # NoAddr})
           Taker(u) == {i \in S : u = used + Cardinality({h \in S : h <= i})}
<1>1. AddWaiters(w, from, S)[s] = IF w[s] # NoAddr THEN w[s]
                                  ELSE IF Taker(s) = {} THEN NoAddr
                                  ELSE from[CHOOSE i \in Taker(s) : TRUE]
  BY DEF AddWaiters
<1>2. CASE Taker(s) # {}
  <2> DEFINE i == CHOOSE i \in Taker(s) : TRUE
  <2>1. i \in Taker(s) BY <1>2
  <2>2. i \in S /\ s = Place(w, S, i) BY <2>1 DEF Place
  <2> HIDE DEF i
  <2>3. AddWaiters(w, from, S)[s] = IF w[s] # NoAddr THEN w[s] ELSE from[i]
    BY <1>1, <1>2 DEF i
  <2>4. QED BY <2>2, <2>3
<1>3. CASE Taker(s) = {} BY <1>1, <1>3
<1>4. QED BY <1>2, <1>3

\* A victim parked in one slot, if there is one.
LEMMA WaiterAdded ==
    ASSUME TypeInv, ParkedInv, NEW v \in Addrs, NEW k \in Counters, dir[v].st \notin EvictAuth,
           auth' = [auth EXCEPT ![k] = [busy |-> TRUE,
                                        slot |-> AddWaiters(auth[k].slot, <<v>>, {1})]],
           dir'[v].st \in EvictAuth,
           \A x \in Addrs : dir[x].st \in EvictAuth => dir'[x].st \in EvictAuth
    PROVE  ParkedInv'
<1> DEFINE new == AddWaiters(auth[k].slot, <<v>>, {1})
           n == Place(auth[k].slot, {1}, 1)
<1>1. auth \in [Counters -> AuthTBE] /\ v # NoAddr /\ NoAddr \notin Addrs
  BY SetsAssumption DEF TypeInv, TypeOK, DirTypeOK
<1>2. \A s \in Slots : \/ new[s] = auth[k].slot[s]
                       \/ auth[k].slot[s] = NoAddr /\ new[s] = v /\ s = n
  <2> SUFFICES ASSUME NEW s \in Slots
               PROVE  \/ new[s] = auth[k].slot[s]
                      \/ auth[k].slot[s] = NoAddr /\ new[s] = v /\ s = n
    OBVIOUS
  <2>1. \/ auth[k].slot[s] # NoAddr /\ new[s] = auth[k].slot[s]
        \/ auth[k].slot[s] = NoAddr /\ new[s] = NoAddr
        \/ /\ auth[k].slot[s] = NoAddr
           /\ \E i \in {1} : new[s] = <<v>>[i] /\ s = Place(auth[k].slot, {1}, i)
    BY WaiterPlaced
  <2>2. QED BY <2>1
<1>3. /\ auth'[k].slot = new
      /\ \A p \in Counters \ {k} : auth'[p].slot = auth[p].slot
  BY <1>1
<1> HIDE DEF new, n
<1>4. \A p \in Counters, s \in Slots :
        \/ auth'[p].slot[s] = auth[p].slot[s]
        \/ p = k /\ s = n /\ auth'[p].slot[s] = v
  BY <1>2, <1>3
<1>5. \A p \in Counters, s \in Slots : auth[p].slot[s] \in Addrs \cup {NoAddr}
  BY <1>1 DEF AuthTBE
<1>6. \A p \in Counters, s \in Slots : auth[p].slot[s] # v
  BY <1>1 DEF ParkedInv
<1> SUFFICES ASSUME NEW p \in Counters, NEW q \in Counters, NEW s \in Slots, NEW u \in Slots,
                    auth'[p].slot[s] # NoAddr
             PROVE  /\ dir'[auth'[p].slot[s]].st \in EvictAuth
                    /\ auth'[p].slot[s] = auth'[q].slot[u] => p = q /\ s = u
  BY DEF ParkedInv
<1>7. dir'[auth'[p].slot[s]].st \in EvictAuth
  <2>1. CASE auth'[p].slot[s] = auth[p].slot[s]
    BY <1>5, <2>1 DEF ParkedInv
  <2>2. QED BY <1>4, <2>1
<1>8. ASSUME auth'[p].slot[s] = auth'[q].slot[u] PROVE p = q /\ s = u
  <2>1. CASE auth'[p].slot[s] = auth[p].slot[s] /\ auth'[q].slot[u] = auth[q].slot[u]
    BY <1>8, <2>1 DEF ParkedInv
  <2>2. CASE auth'[p].slot[s] = v \/ auth'[q].slot[u] = v
    <3>1. auth'[p].slot[s] = v /\ auth'[q].slot[u] = v BY <1>8, <2>2
    <3>2. p = k /\ s = n /\ q = k /\ u = n BY <1>4, <1>6, <3>1
    <3>3. QED BY <3>2
  <2>3. QED BY <1>4, <2>1, <2>2
<1>9. QED BY <1>7, <1>8

\* A victim is parked until a counter of its branch is there.
LEMMA VictimWaits ==
    ASSUME TypeInv, MemInv, NEW v \in Addrs,
           dir[v].st \notin Evicting \cup EvictAuth \cup {"IS", "IE", "SE"},
           NEW e, e.st \in EvictAuth, SetDir(v, e), FirstMissing(v, InLLC) \in Counters,
           FetchCounterForEviction(v), UNCHANGED <<mem, memQ>>,
           v \in Lines => tbe'[v].val = current'[v] /\ llc'[v].st = "none",
           \A x \in Lines \ {v} :
             tbe'[x] = tbe[x] /\ llc'[x] = llc[x] /\ current'[x] = current[x]
    PROVE  MemInv'
<1>1. PICK k \in Counters :
        /\ Fetch(k)
        /\ auth' = [auth EXCEPT ![k] = [busy |-> TRUE,
                                        slot |-> AddWaiters(auth[k].slot, <<v>>, {1})]]
  BY DEF FetchCounterForEviction
<1>2. auth \in [Counters -> AuthTBE] /\ Lines \subseteq Addrs
  BY DEF TypeInv, TypeOK, DirTypeOK, Addrs
<1>3. auth'[k].busy = TRUE /\ \A p \in Counters \ {k} : auth'[p].busy = auth[p].busy
  BY <1>1, <1>2
<1>4. dir'[v] = e /\ \A x \in Addrs \ {v} : dir'[x] = dir[x] BY OneEntry
<1>5. /\ e.st \notin Evicting \cup {"IS", "IE", "SE"} \cup AtHome
  BY DEF Evicting, EvictAuth, AtHome
<1>6. \A x \in Addrs : /\ dir'[x].st \in Evicting <=> dir[x].st \in Evicting
                       /\ dir'[x].st \in {"IS", "IE", "SE"} <=> dir[x].st \in {"IS", "IE", "SE"}
                       /\ dir[x].st \in EvictAuth => dir'[x].st \in EvictAuth
  BY <1>4, <1>5
<1>7. TrafficInv' /\ \A x \in Addrs : Inbound(x)' = Inbound(x) /\ Outbound(x)' = Outbound(x)
  BY <1>1, <1>3, <1>6, CounterTraffic DEF MemInv
<1>8. ParkedInv' BY <1>1, <1>4, <1>6, WaiterAdded DEF MemInv
<1>9. ASSUME v \in Lines PROVE SafeLine(v)'
  <2>1. Inbound(v) = {} BY <1>9, NothingUnderWay DEF MemInv
  <2>2. Inbound(v)' = {} BY <1>7, <2>1
  <2>3. QED BY <1>4, <1>5, <1>9, <2>2 DEF SafeLine
<1>10. DataInv' BY <1>2, <1>4, <1>7, <1>9, LinesSafe DEF MemInv
<1>11. QED BY <1>7, <1>8, <1>10 DEF MemInv

\* A line recalled for its eviction goes on to memory, or waits for its counter.
LEMMA FlushedVictimMem ==
    TypeInv /\ OwnInv /\ MemInv /\ (FlushedVictimWrittenBack \/ FlushedVictimAwaitsCounter)
      => MemInv'
<1> SUFFICES ASSUME TypeInv, OwnInv, MemInv,
                    FlushedVictimWrittenBack \/ FlushedVictimAwaitsCounter,
                    NEW a, a = Rsp.a, NEW w, w = Rsp.val
             PROVE  MemInv'
  OBVIOUS
<1>1. /\ rspQ # <<>> /\ dir[a].st = "E_Evict_Flush" /\ UNCHANGED <<mem, memQ>>
      /\ tbe' = [tbe EXCEPT ![a].val = w] /\ current' = [current EXCEPT ![a] = w]
  BY DEF FlushedVictimWrittenBack, FlushedVictimAwaitsCounter, FlushedVictim, AtResponse,
         DirUnchanged, PopResponse
<1>2. a \in Lines /\ a \in Addrs /\ a \notin Counters /\ w \in Nat /\ dir[a] \in DirEntry
  BY <1>1, RspType
<1>3. llc[a].st = "none" BY <1>1, <1>2 DEF OwnInv, CacheInv, Uncached
<1>4. /\ tbe \in [Addrs -> TBE] /\ current \in [Lines -> Nat] /\ llc \in [Addrs -> LLCEntry]
      /\ Lines \subseteq Addrs /\ Lines \cap Counters = {}
  BY SetsAssumption DEF TypeInv, TypeOK, DirTypeOK, HistoryTypeOK, Addrs
<1>5. /\ tbe'[a].val = w /\ current'[a] = w
      /\ \A x \in Lines \ {a} : tbe'[x] = tbe[x] /\ current'[x] = current[x]
  BY <1>1, <1>2, <1>4 DEF TBE
<1>6. dir[a].st \notin Evicting \cup EvictAuth \cup {"IS", "IE", "SE"}
  BY <1>1 DEF Evicting, EvictAuth
<1>7. CASE FlushedVictimWrittenBack
  <2> DEFINE ks == Branch(a, InLLC)
             e == Recall(dir[a], "I_Evicting")
  <2>1. /\ dir' = [Modified(dir, ks) EXCEPT ![a] = e] /\ llc' = Dirtied(llc, ks)
        /\ SendMem("MEMORY_WB", a, w) /\ auth' = auth
    BY <1>7 DEF FlushedVictimWrittenBack
  <2>2. ks \in SUBSET Counters /\ ks \subseteq InLLC BY <1>2, BranchType, BranchHere
  <2>3. e.st \in Evicting BY <1>2 DEF Recall, Evicting, DirEntry
  <2>4. \A x \in Lines : llc'[x] = llc[x]
    <3> SUFFICES ASSUME NEW x \in Lines PROVE llc'[x] = llc[x] OBVIOUS
    <3>1. x \in Addrs /\ x \notin ks BY <1>4, <2>2
    <3>2. QED BY <2>1, <3>1 DEF Dirtied
  <2> HIDE DEF ks, e
  <2>5. QED BY <1>1, <1>2, <1>3, <1>5, <1>6, <2>1, <2>2, <2>3, <2>4, VictimWritten
<1>8. CASE FlushedVictimAwaitsCounter
  <2> DEFINE e == Recall(dir[a], "I_Evict_Auth")
  <2>1. SetDir(a, e) /\ FetchCounterForEviction(a) /\ llc' = llc /\ ParentMissing(a)
    BY <1>8 DEF FlushedVictimAwaitsCounter
  <2>2. e.st \in EvictAuth BY <1>2 DEF Recall, EvictAuth, DirEntry
  <2>3. FirstMissing(a, InLLC) \in Counters BY <1>2, <2>1, MissingParent
  <2> HIDE DEF e
  <2>4. QED BY <1>1, <1>2, <1>3, <1>5, <1>6, <2>1, <2>2, <2>3, VictimWaits
<1>9. QED BY <1>7, <1>8

\* No response disturbs the invariant.
LEMMA ResponsePortMem == TypeInv /\ OwnInv /\ MemInv /\ ResponsePort => MemInv'
BY TakenBackMem, FlushedVictimMem, QuietResponseMem DEF ResponsePort

\* A clean copy is dropped.
LEMMA EvictCleanMem ==
    ASSUME TypeInv, OwnInv, MemInv, NEW v \in Addrs, EvictClean(v)
    PROVE  MemInv'
<1>1. /\ dir[v].st \in {"I", "S", "E"} /\ llc[v].st = "clean" /\ v \in InLLC
      /\ llc' = [llc EXCEPT ![v] = NoLLC] /\ UNCHANGED <<dir, tbe, auth, memVars, current>>
  BY DEF EvictClean, Replace, ReplEvent, Drop
<1>2. llc \in [Addrs -> LLCEntry] /\ Lines \subseteq Addrs
  BY DEF TypeInv, TypeOK, DirTypeOK, Addrs
<1>3. llc'[v].st = "none" /\ \A x \in Addrs \ {v} : llc'[x] = llc[x] BY <1>1, <1>2 DEF NoLLC
<1>4. memPend' = memPend /\ memQ' = memQ /\ mem' = mem BY <1>1 DEF memVars
<1>5. \A x : /\ \A u : Undisturbed(x, u)
             /\ Inbound(x)' = Inbound(x) /\ Outbound(x)' = Outbound(x)
  BY <1>4, QueueStays
<1>6. \A x, u : Expected(x, u)' <=> Expected(x, u) BY <1>1 DEF Expected, Reading
<1>7. TrafficInv' BY <1>5, <1>6, TrafficStep DEF MemInv
<1>8. ParkedInv' BY <1>1, SlotsKept DEF MemInv
<1>9. ASSUME v \in Lines PROVE SafeLine(v)'
  <2>1. SafeLine(v) BY <1>9 DEF MemInv, DataInv
  <2>2. Outbound(v) = {}
    <3>1. dir[v].st \notin Evicting BY <1>1 DEF Evicting
    <3>2. QED BY <1>9, <3>1, NothingUnderWay DEF MemInv
  <2>3. dir'[v].st \notin EvictAuth /\ v \notin InLLC' BY <1>1, <1>3 DEF EvictAuth, InLLC
  <2>4. QED BY <1>1, <1>3, <1>4, <1>5, <2>1, <2>2, <2>3 DEF SafeLine
<1>10. DataInv' BY <1>1, <1>2, <1>3, <1>4, <1>5, <1>9, LinesSafe DEF MemInv
<1>11. QED BY <1>7, <1>8, <1>10 DEF MemInv

\* What the directory writes back of a line, or parks, is what an L1 last handed back.
LEMMA ParkedValue ==
    ASSUME TypeInv, MemInv, NEW v \in Addrs, Park(v),
           v \in InLLC, dir[v].st \in {"I", "S", "C_M"}
    PROVE  /\ v \in Lines => tbe'[v].val = llc[v].val /\ llc[v].val = current[v]
           /\ \A x \in Addrs \ {v} : tbe'[x] = tbe[x]
           /\ llc[v].val \in Nat
<1>1. tbe \in [Addrs -> TBE] /\ llc \in [Addrs -> LLCEntry] /\ dir \in [Addrs -> DirEntry]
  BY DEF TypeInv, TypeOK, DirTypeOK
<1>2. [NoTBE EXCEPT !.wts = dir[v].wts, !.val = llc[v].val].val = llc[v].val BY DEF NoTBE
<1>3. tbe'[v].val = llc[v].val /\ \A x \in Addrs \ {v} : tbe'[x] = tbe[x]
  BY <1>1, <1>2 DEF Park
<1>4. v \in Lines => llc[v].val = current[v] BY DEF MemInv, DataInv, SafeLine, AtHome
<1>5. llc[v].val \in Nat BY <1>1 DEF LLCEntry
<1>6. QED BY <1>3, <1>4, <1>5

\* A dirty victim whose branch is cached is written back.
LEMMA EvictWrittenMem ==
    ASSUME TypeInv, OwnInv, MemInv, NEW v \in Addrs, EvictDirty(v) \/ EvictCounter(v)
    PROVE  MemInv'
<1> DEFINE w == llc[v].val
<1>1. /\ v \in InLLC /\ Park(v) /\ SendMem("MEMORY_WB", v, w)
      /\ UNCHANGED <<auth, mem, memQ, current>> /\ dir[v].st \in {"I", "S", "C_M"}
  BY DEF EvictDirty, EvictCounter, Replace, DirUnchanged
<1>2. dir[v].st \notin Evicting \cup EvictAuth \cup {"IS", "IE", "SE"}
  BY <1>1 DEF Evicting, EvictAuth
<1>3. PICK ks \in SUBSET Counters :
        /\ ks \subseteq InLLC /\ Drop(v, Dirtied(llc, ks))
        /\ \E e : e.st \in Evicting /\ dir' = [Modified(dir, ks) EXCEPT ![v] = e]
  <2>1. dir[v] \in DirEntry BY TypeInvLLC
  <2>2. CASE EvictDirty(v)
    <3> DEFINE e == [dir[v] EXCEPT !.st = IF dir[v].st = "I" THEN "I_Evicting" ELSE "S_Evicting"]
    <3>1. e.st \in Evicting BY <2>1 DEF Evicting, DirEntry
    <3>2. /\ Drop(v, Dirtied(llc, Branch(v, InLLC)))
          /\ dir' = [Modified(dir, Branch(v, InLLC)) EXCEPT ![v] = e]
      BY <2>2 DEF EvictDirty
    <3>3. Branch(v, InLLC) \in SUBSET Counters /\ Branch(v, InLLC) \subseteq InLLC
      BY BranchType, BranchHere
    <3> HIDE DEF e
    <3>4. QED BY <3>1, <3>2, <3>3
  <2>3. CASE EvictCounter(v)
    <3> DEFINE e == [dir[v] EXCEPT !.st = "I_Evicting"]
    <3>1. e.st \in Evicting BY <2>1 DEF Evicting, DirEntry
    <3>2. Drop(v, llc) /\ dir' = [dir EXCEPT ![v] = e] BY <2>3 DEF EvictCounter, SetDir
    <3>3. {} \in SUBSET Counters /\ {} \subseteq InLLC OBVIOUS
    <3> HIDE DEF e
    <3>4. QED BY <3>1, <3>2, <3>3, NothingMarked
  <2>4. QED BY <2>2, <2>3
<1>4. Lines \subseteq Addrs /\ Lines \cap Counters = {} BY SetsAssumption DEF Addrs
<1>5. Dirtied(llc, ks) \in [Addrs -> LLCEntry] BY TypeInvLLC, DirtiedType
<1>6. llc'[v].st = "none" /\ \A x \in Lines \ {v} : llc'[x] = llc[x]
  <2>1. llc'[v].st = "none" BY <1>3, <1>5 DEF Drop, NoLLC
  <2>2. ASSUME NEW x \in Lines \ {v} PROVE llc'[x] = llc[x]
    <3>1. llc'[x] = Dirtied(llc, ks)[x] BY <1>3, <1>4, <1>5 DEF Drop
    <3>2. x \notin ks /\ x \in Addrs BY <1>4
    <3>3. QED BY <3>1, <3>2 DEF Dirtied
  <2>3. QED BY <2>1, <2>2
<1>7. /\ v \in Lines => w = current[v]
      /\ \A x \in Addrs \ {v} : tbe'[x] = tbe[x]
      /\ w \in Nat
  BY <1>1, ParkedValue
<1> HIDE DEF w
<1>8. QED BY <1>1, <1>2, <1>3, <1>4, <1>6, <1>7, VictimWritten

\* Another waits until it is.
LEMMA EvictWaitingMem ==
    ASSUME TypeInv, OwnInv, MemInv, NEW v \in Addrs,
           EvictAwaitingCounter(v) \/ EvictCounterAwaitingParent(v)
    PROVE  MemInv'
<1>1. /\ v \in InLLC /\ Park(v) /\ FetchCounterForEviction(v) /\ Drop(v, llc)
      /\ UNCHANGED <<mem, memQ, current>> /\ dir[v].st \in {"I", "S", "C_M"}
      /\ ReplEvent(v) = "LLC_Repl_Dirty_Auth_Miss"
  BY DEF EvictAwaitingCounter, EvictCounterAwaitingParent, Replace, DirUnchanged
<1>2. dir[v].st \notin Evicting \cup EvictAuth \cup {"IS", "IE", "SE"}
  BY <1>1 DEF Evicting, EvictAuth
<1>3. FirstMissing(v, InLLC) \in Counters BY <1>1, AwaitedCounter
<1>4. \E e : e.st \in EvictAuth /\ SetDir(v, e)
  <2>1. dir[v] \in DirEntry BY TypeInvLLC
  <2>2. CASE EvictAwaitingCounter(v)
    <3> DEFINE e == [dir[v] EXCEPT !.st = IF dir[v].st = "I" THEN "I_Evict_Auth" ELSE "S_Evict_Auth"]
    <3>1. e.st \in EvictAuth BY <2>1 DEF EvictAuth, DirEntry
    <3>2. SetDir(v, e) BY <2>2 DEF EvictAwaitingCounter
    <3>3. QED BY <3>1, <3>2
  <2>3. CASE EvictCounterAwaitingParent(v)
    <3> DEFINE e == [dir[v] EXCEPT !.st = "I_Evict_Auth"]
    <3>1. e.st \in EvictAuth BY <2>1 DEF EvictAuth, DirEntry
    <3>2. SetDir(v, e) BY <2>3 DEF EvictCounterAwaitingParent
    <3>3. QED BY <3>1, <3>2
  <2>4. QED BY <2>2, <2>3
<1>5. llc'[v].st = "none" /\ \A x \in Addrs \ {v} : llc'[x] = llc[x]
  BY <1>1, TypeInvLLC DEF Drop, NoLLC
<1>6. /\ v \in Lines => tbe'[v].val = current[v]
      /\ \A x \in Addrs \ {v} : tbe'[x] = tbe[x]
  BY <1>1, ParkedValue
<1>7. Lines \subseteq Addrs BY DEF Addrs
<1>8. QED BY <1>1, <1>2, <1>3, <1>4, <1>5, <1>6, <1>7, VictimWaits

\* No eviction disturbs the invariant.
LEMMA ReplacementMem ==
    ASSUME TypeInv, OwnInv, MemInv, NEW v \in Addrs, Replacement(v)
    PROVE  MemInv'
<1>1. CASE ReplacePanic(v) BY <1>1, NothingMem DEF ReplacePanic, ghostVars
<1>2. QED BY <1>1, EvictCleanMem, EvictWrittenMem, EvictWaitingMem, EvictOwnedLineMem
      DEF Replacement

-----------------------------------------------------------------------------
(* Answers of the memory.                                                  *)

\* An answer is processed, and what was asked for is expected no longer.
LEMMA AnswerTraffic ==
    ASSUME TypeInv, TrafficInv, memQ # <<>>, memQ' = Tail(memQ), UNCHANGED memPend,
           NEW h, h = Mem, ~Expected(h.a, h.type)',
           \A x \in Addrs, u \in Kinds :
             x # h.a \/ u # h.type => (Expected(x, u)' <=> Expected(x, u))
    PROVE  TrafficInv'
<1>1. h \in MemMsg BY AnswerTaken
<1>2. h.a \in Addrs /\ h.type \in Kinds BY <1>1 DEF MemMsg, Kinds
<1>3. Once(h.a, h.type) BY <1>2 DEF TrafficInv, Regular
<1>4. /\ \A x, u : x # h.a \/ u # h.type => Undisturbed(x, u)
      /\ Once(h.a, h.type)' /\ ~InTransit(h.a, h.type)'
  BY <1>3, AnswerOnly
<1>5. \A x \in Addrs, u \in Kinds :
        \/ Undisturbed(x, u) /\ (Expected(x, u)' <=> Expected(x, u))
        \/ x = h.a /\ u = h.type
  BY <1>4
<1>6. ASSUME NEW x \in Addrs, NEW u \in Kinds
      PROVE  \/ Undisturbed(x, u) /\ (Expected(x, u)' <=> Expected(x, u))
             \/ Once(x, u)' /\ ~InTransit(x, u)' /\ ~Expected(x, u)'
  <2>1. CASE x = h.a /\ u = h.type
    BY <1>4, <2>1 DEF Once, InTransit, Expected, Reading, Served, Unserved, Of
  <2>2. QED BY <1>5, <2>1
<1>7. QED BY <1>6, TrafficStep

\* A line that has been asked for arrives.
LEMMA LineArrives ==
    ASSUME TypeInv, OwnInv, MemInv, memQ # <<>>, memQ' = Tail(memQ),
           UNCHANGED <<auth, mem, memPend, current>>,
           NEW h, h = Mem, h.type = "MEMORY_READ",
           NEW a, a = h.a, dir[a].st \in {"IS", "IE", "SE"},
           NEW e, SetDir(a, e), e.st \in {"S", "E"}, tbe' = [tbe EXCEPT ![a] = NoTBE],
           \/ llc' = [llc EXCEPT ![a] = [st |-> "clean", val |-> h.val]]
           \/ llc' = llc /\ e.st = "E"
    PROVE  MemInv'
<1>1. h \in MemMsg /\ h.val \in Inbound(a) /\ \A x : Inbound(x)' \subseteq Inbound(x)
  <2>1. h.val \in Inbound(h.a) BY AnswerTaken
  <2>2. h \in MemMsg /\ \A x : Inbound(x)' \subseteq Inbound(x) BY AnswerTaken
  <2>3. QED BY <2>1, <2>2
<1>2. a \in Lines /\ a \in Addrs
  <2>1. a \in Addrs BY <1>1 DEF MemMsg
  <2>2. a \notin Counters BY DEF TypeInv, CounterStates
  <2>3. QED BY <2>1, <2>2 DEF Addrs
<1>3. /\ dir'[a] = e /\ \A x \in Addrs \ {a} : dir'[x] = dir[x] /\ tbe'[x] = tbe[x]
  BY <1>2, OneEntry, OneTBE
<1>4. /\ \A x \in Addrs \ {a} : llc'[x] = llc[x]
      /\ \/ llc'[a].st = "clean" /\ llc'[a].val = h.val
         \/ llc'[a] = llc[a] /\ e.st = "E"
  BY <1>2, TypeInvLLC
<1>5. e.st \notin Evicting \cup EvictAuth \cup {"IS", "IE", "SE"} BY DEF Evicting, EvictAuth
<1>6. dir[a].st \notin Evicting \cup EvictAuth BY DEF Evicting, EvictAuth
<1>7. TrafficInv'
  <2>1. ~Expected(a, "MEMORY_READ")' BY <1>2, <1>3, <1>5 DEF Expected, Reading
  <2>2. Expected(a, "MEMORY_WB")' <=> Expected(a, "MEMORY_WB") BY <1>3, <1>5, <1>6 DEF Expected
  <2>3. \A x \in Addrs \ {a}, u \in Kinds : Expected(x, u)' <=> Expected(x, u)
    BY <1>3 DEF Expected, Reading
  <2>4. \A x \in Addrs, u \in Kinds :
          x # h.a \/ u # h.type => (Expected(x, u)' <=> Expected(x, u))
    BY <2>2, <2>3 DEF Kinds
  <2>5. ~Expected(h.a, h.type)' BY <2>1 DEF Expected, Reading
  <2>6. QED BY <2>4, <2>5, AnswerTraffic DEF MemInv
<1>8. ParkedInv' BY <1>3, <1>6, SlotsKept DEF MemInv
<1>9. \A x : Outbound(x)' = Outbound(x) BY DEF Outbound
<1>10. SafeLine(a)'
  <2>1. SafeLine(a) BY <1>2 DEF MemInv, DataInv
  <2>2. Outbound(a) = {} BY <1>2, <1>6, NothingUnderWay DEF MemInv
  <2>3. llc[a].st = "none" BY <1>2 DEF OwnInv, CacheInv, Uncached
  <2>4. h.val = current[a] /\ mem[a] = current[a]
    <3>1. dir[a].st \in AtHome /\ a \notin InLLC BY <2>3 DEF AtHome, InLLC
    <3>2. QED BY <1>1, <2>1, <2>2, <3>1 DEF SafeLine
  <2>5. Inbound(a)' \subseteq {current'[a]} BY <1>1, <2>1 DEF SafeLine
  <2>6. dir'[a].st \in AtHome => a \in InLLC'
    BY <1>2, <1>3, <1>4 DEF AtHome, InLLC, Evicting
  <2>7. /\ dir'[a].st \in AtHome => a \in InLLC' /\ llc'[a].val = current'[a]
        /\ dir'[a].st \notin EvictAuth
        /\ llc'[a].st = "clean" => llc'[a].val = mem'[a]
    <3>1. CASE llc'[a].st = "clean" /\ llc'[a].val = h.val BY <1>3, <1>5, <2>4, <2>6, <3>1
    <3>2. CASE llc'[a] = llc[a] /\ e.st = "E"
      <4>1. dir'[a].st \notin AtHome /\ llc'[a].st = "none"
        BY <1>3, <2>3, <3>2 DEF AtHome, Evicting
      <4>2. QED BY <1>3, <1>5, <4>1
    <3>3. QED BY <1>4, <3>1, <3>2
  <2>8. QED BY <2>5, <2>7 DEF SafeLine
<1>11. DataInv'
  <2>1. Lines \subseteq Addrs BY DEF Addrs
  <2>2. QED BY <1>1, <1>3, <1>4, <1>9, <1>10, <2>1, LinesSafe DEF MemInv
<1>12. QED BY <1>7, <1>8, <1>11 DEF MemInv

\* The grants of a line that memory has returned.
LEMMA GrantFromMemoryMem ==
    TypeInv /\ OwnInv /\ MemInv /\ (GrantShared \/ GrantExclusive) => MemInv'
<1> SUFFICES ASSUME TypeInv, OwnInv, MemInv, GrantShared \/ GrantExclusive,
                    NEW h, h = Mem, NEW a, a = h.a
             PROVE  MemInv'
  OBVIOUS
<1>1. /\ memQ # <<>> /\ memQ' = Tail(memQ) /\ UNCHANGED <<auth, mem, memPend, current>>
      /\ h.type = "MEMORY_READ" /\ dir[a].st \in {"IS", "IE", "SE"}
      /\ tbe' = [tbe EXCEPT ![a] = NoTBE]
  BY DEF GrantShared, GrantExclusive, AtMemory, DirUnchanged
<1>2. dir[a] \in DirEntry BY <1>1, MemHeadType
<1>3. CASE GrantShared
  <2> DEFINE r == Max2(mts + Lease, tbe[a].lts + Lease)
             e == [dir[a] EXCEPT !.st = "S", !.wts = mts, !.rts = r]
  <2>1. SetDir(a, e) /\ llc' = [llc EXCEPT ![a] = [st |-> "clean", val |-> h.val]]
    BY <1>3 DEF GrantShared
  <2>2. e.st = "S" BY <1>2 DEF DirEntry
  <2> HIDE DEF e
  <2>3. QED BY <1>1, <2>1, <2>2, LineArrives
<1>4. CASE GrantExclusive
  <2> DEFINE e == [st |-> "E", wts |-> mts, rts |-> mts, owner |-> OwnerFromTBE(a)]
  <2>1. /\ SetDir(a, e)
        /\ llc' = llc \/ llc' = [llc EXCEPT ![a] = [st |-> "clean", val |-> h.val]]
    BY <1>4 DEF GrantExclusive
  <2>2. e.st = "E" OBVIOUS
  <2> HIDE DEF e
  <2>3. QED BY <1>1, <2>1, <2>2, LineArrives
<1>5. QED BY <1>3, <1>4

\* A victim has reached the memory.
LEMMA EvictionDoneMem == TypeInv /\ MemInv /\ EvictionDone => MemInv'
<1> SUFFICES ASSUME TypeInv, MemInv, EvictionDone, NEW h, h = Mem, NEW a, a = h.a PROVE MemInv'
  OBVIOUS
<1>1. /\ memQ # <<>> /\ memQ' = Tail(memQ) /\ UNCHANGED <<llc, auth, mem, memPend, current>>
      /\ h.type = "MEMORY_WB" /\ dir[a].st \in Evicting /\ tbe' = [tbe EXCEPT ![a] = NoTBE]
  BY DEF EvictionDone, AtMemory, DirUnchanged
<1>2. dir[a] \in DirEntry /\ a \in Addrs BY <1>1, MemHeadType
<1>3. PICK e : SetDir(a, e) /\ e.st \in {"I", "S"} BY <1>2 DEF EvictionDone, DirEntry
<1>4. dir'[a] = e /\ \A x \in Addrs \ {a} : dir'[x] = dir[x] /\ tbe'[x] = tbe[x]
  BY <1>1, <1>2, <1>3, OneEntry, OneTBE
<1>5. /\ e.st \notin Evicting \cup EvictAuth \cup {"IS", "IE", "SE"}
      /\ dir[a].st \notin EvictAuth \cup {"IS", "IE", "SE"} /\ dir[a].st \in AtHome
  BY <1>1, <1>3 DEF Evicting, EvictAuth, AtHome
<1>6. TrafficInv'
  <2>1. ~Expected(h.a, h.type)' BY <1>1, <1>4, <1>5 DEF Expected
  <2>2. Expected(a, "MEMORY_READ")' <=> Expected(a, "MEMORY_READ")
    BY <1>1, <1>4, <1>5 DEF Expected, Reading
  <2>3. \A x \in Addrs \ {a}, u \in Kinds : Expected(x, u)' <=> Expected(x, u)
    BY <1>1, <1>4 DEF Expected, Reading
  <2>4. \A x \in Addrs, u \in Kinds :
          x # h.a \/ u # h.type => (Expected(x, u)' <=> Expected(x, u))
    BY <1>1, <2>2, <2>3 DEF Kinds
  <2>5. QED BY <1>1, <2>1, <2>4, AnswerTraffic DEF MemInv
<1>7. ParkedInv' BY <1>1, <1>4, <1>5, SlotsKept DEF MemInv
<1>8. \A x : Outbound(x)' = Outbound(x) /\ Inbound(x)' \subseteq Inbound(x)
  BY <1>1, AnswerTaken DEF Outbound
<1>9. ASSUME a \in Lines PROVE SafeLine(a)'
  <2>1. SafeLine(a) BY <1>9 DEF MemInv, DataInv
  <2>2. QED BY <1>1, <1>4, <1>5, <1>8, <1>9, <2>1, LineSafe
<1>10. DataInv'
  <2>1. Lines \subseteq Addrs BY DEF Addrs
  <2>2. QED BY <1>1, <1>4, <1>8, <1>9, <2>1, LinesSafe DEF MemInv
<1>11. QED BY <1>6, <1>7, <1>10 DEF MemInv

\* The memory reads what an L1 last handed back, and what it writes is that.
LEMMA MemServeMem ==
    ASSUME TypeInv, OwnInv, MemInv, NEW a \in Addrs, MemServe(a)
    PROVE  MemInv'
<1> DEFINE op == Head(memPend[a])
<1>1. UNCHANGED <<dir, tbe, llc, auth, current>> BY DEF MemServe, dirVars, ghostVars
<1>2. /\ op \in MemOp
      /\ \A x \in Addrs, u \in Kinds : Undisturbed(x, u)
      /\ InTransit(a, op.type)
      /\ \A x \in Addrs \ {a} : /\ mem'[x] = mem[x] /\ Inbound(x)' = Inbound(x)
                               /\ Outbound(x)' = Outbound(x)
      /\ op.type = "MEMORY_READ" =>
           /\ Inbound(a)' \subseteq Inbound(a) \cup {mem[a]}
           /\ Outbound(a)' = Outbound(a) /\ mem' = mem
      /\ op.type = "MEMORY_WB" =>
           /\ Inbound(a)' = Inbound(a)
           /\ mem'[a] = op.val /\ op.val \in Outbound(a)
           /\ Once(a, "MEMORY_WB") => Outbound(a)' = {}
  BY RequestServed
<1> HIDE DEF op
<1>3. op.type \in Kinds /\ Kinds = {"MEMORY_READ", "MEMORY_WB"} BY <1>2 DEF MemOp, Kinds
<1>4. \A x, u : Expected(x, u)' <=> Expected(x, u) BY <1>1 DEF Expected, Reading
<1>5. TrafficInv' BY <1>2, <1>4, TrafficStep DEF MemInv
<1>6. ParkedInv' BY <1>1, SlotsKept DEF MemInv
<1>7. Regular(a, op.type) BY <1>3 DEF MemInv, TrafficInv
<1>8. ASSUME a \in Lines PROVE SafeLine(a)'
  <2>1. SafeLine(a) BY <1>8 DEF MemInv, DataInv
  <2>2. Expected(a, op.type) BY <1>2, <1>7 DEF Regular
  <2>3. dir[a].st \in {"IS", "IE", "SE"} \cup Evicting
    BY <1>3, <1>8, <2>2 DEF Expected, Reading
  <2>4. llc[a].st = "none" /\ a \notin InLLC /\ dir[a].st \in AtHome \ EvictAuth
    <3>1. dir[a].st \in Uncached /\ dir[a].st \in AtHome \ EvictAuth
      BY <2>3 DEF Uncached, AtHome, EvictAuth, Evicting
    <3>2. llc[a].st = "none" BY <3>1 DEF OwnInv, CacheInv
    <3>3. QED BY <3>1, <3>2 DEF InLLC
  <2>5. CASE op.type = "MEMORY_READ"
    <3>1. Outbound(a) = {}
      <4>1. dir[a].st \notin Evicting BY <1>8, <2>2, <2>5 DEF Expected, Reading, Evicting
      <4>2. QED BY <1>8, <4>1, NothingUnderWay DEF MemInv
    <3>2. mem[a] = current[a] BY <2>1, <2>4, <3>1 DEF SafeLine
    <3>3. Inbound(a)' \subseteq {current'[a]} BY <1>1, <1>2, <2>1, <2>5, <3>2 DEF SafeLine
    <3>4. QED BY <1>1, <1>2, <2>1, <2>4, <2>5, <3>3 DEF SafeLine, InLLC
  <2>6. CASE op.type = "MEMORY_WB"
    <3>1. Outbound(a)' = {} BY <1>2, <1>7, <2>6 DEF Regular
    <3>2. mem'[a] = current'[a] BY <1>1, <1>2, <2>1, <2>4, <2>6 DEF SafeLine
    <3>3. QED BY <1>1, <1>2, <2>1, <2>4, <2>6, <3>1, <3>2 DEF SafeLine, InLLC
  <2>7. QED BY <1>3, <2>5, <2>6
<1>9. DataInv'
  <2>1. Lines \subseteq Addrs BY DEF Addrs
  <2>2. QED BY <1>1, <1>2, <1>8, <2>1, LinesSafe DEF MemInv
<1>10. QED BY <1>5, <1>6, <1>9 DEF MemInv

\* Two messages, one after the other.
LEMMA TwoInOrder ==
    ASSUME NEW T, NEW u \in T, NEW v \in T
    PROVE  Len(<<u>> \o <<v>>) = 2 /\ (<<u>> \o <<v>>)[1] = u /\ (<<u>> \o <<v>>)[2] = v
<1> DEFINE p == <<u>>
           q == <<v>>
<1>1. p \in Seq(T) /\ q \in Seq(T) /\ Len(p) = 1 /\ Len(q) = 1 /\ p[1] = u /\ q[1] = v OBVIOUS
<1> HIDE DEF p, q
<1>2. /\ Len(p \o q) = Len(p) + Len(q)
      /\ \A i \in 1..Len(p) + Len(q) : (p \o q)[i] = IF i <= Len(p) THEN p[i] ELSE q[i - Len(p)]
  BY <1>1, ConcatProperties
<1>3. Len(p \o q) = 2 BY <1>1, <1>2
<1>4. (p \o q)[1] = p[1] /\ (p \o q)[2] = q[1] BY <1>1, <1>2
<1>5. QED BY <1>1, <1>3, <1>4 DEF p, q

\* What resumeEvictions and checkRecursionAndWakeUp send to memory for x when counter
\* k is there: one write if x is released, one read if it is wanted and not under way.
Asks(k, x) == x \in Counters \ {k} /\ Wanted(k, x) /\ ~auth[x].busy
LEMMA ResumedTraffic ==
    ASSUME NEW k, NEW x, NEW s, s = MemoryTraffic(k, x)
    PROVE  /\ x \in Released(k) => Of(s, "MEMORY_WB") = {1} \/ Of(s, "MEMORY_WB") = {2}
           /\ x \notin Released(k) => Of(s, "MEMORY_WB") = {}
           /\ Asks(k, x) => Of(s, "MEMORY_READ") = {1} \/ Of(s, "MEMORY_READ") = {2}
           /\ ~Asks(k, x) => Of(s, "MEMORY_READ") = {}
           /\ Writes(s) = IF x \in Released(k) THEN {tbe[x].val} ELSE {}
<1> DEFINE w == [type |-> "MEMORY_WB", val |-> tbe[x].val]
           r == [type |-> "MEMORY_READ", val |-> 0]
           wb == IF x \in Released(k) THEN <<w>> ELSE <<>>
           rd == IF Asks(k, x) THEN <<r>> ELSE <<>>
<1>1. w.type = "MEMORY_WB" /\ w.val = tbe[x].val /\ r.type = "MEMORY_READ" OBVIOUS
<1>2. s = rd \o wb \/ s = wb \o rd BY DEF MemoryTraffic, Asks
<1> HIDE DEF w, r
<1>3. CASE x \in Released(k) /\ Asks(k, x)
  <2>1. s = <<r>> \o <<w>> \/ s = <<w>> \o <<r>> BY <1>2, <1>3
  <2>2. r \in {r, w} /\ w \in {r, w} OBVIOUS
  <2>3. Len(s) = 2 /\ ((s[1] = r /\ s[2] = w) \/ (s[1] = w /\ s[2] = r))
    <3>1. CASE s = <<r>> \o <<w>>
      <4>1. /\ Len(<<r>> \o <<w>>) = 2 /\ (<<r>> \o <<w>>)[1] = r /\ (<<r>> \o <<w>>)[2] = w
        BY <2>2, TwoInOrder
      <4>2. QED BY <3>1, <4>1
    <3>2. CASE s = <<w>> \o <<r>>
      <4>1. /\ Len(<<w>> \o <<r>>) = 2 /\ (<<w>> \o <<r>>)[1] = w /\ (<<w>> \o <<r>>)[2] = r
        BY <2>2, TwoInOrder
      <4>2. QED BY <3>2, <4>1
    <3>3. QED BY <2>1, <3>1, <3>2
  <2>4. CASE s[1] = r /\ s[2] = w
    <3>1. Of(s, "MEMORY_WB") = {2} /\ Of(s, "MEMORY_READ") = {1} BY <1>1, <2>3, <2>4 DEF Of
    <3>2. QED BY <1>1, <1>3, <2>4, <3>1 DEF Writes
  <2>5. CASE s[1] = w /\ s[2] = r
    <3>1. Of(s, "MEMORY_WB") = {1} /\ Of(s, "MEMORY_READ") = {2} BY <1>1, <2>3, <2>5 DEF Of
    <3>2. QED BY <1>1, <1>3, <2>5, <3>1 DEF Writes
  <2>6. QED BY <2>3, <2>4, <2>5
<1>4. CASE x \in Released(k) /\ ~Asks(k, x)
  <2>1. s = <<w>> BY <1>2, <1>4
  <2>2. Of(s, "MEMORY_WB") = {1} /\ Of(s, "MEMORY_READ") = {} /\ s[1] = w BY <1>1, <2>1 DEF Of
  <2>3. QED BY <1>1, <1>4, <2>2 DEF Writes
<1>5. CASE x \notin Released(k) /\ Asks(k, x)
  <2>1. s = <<r>> BY <1>2, <1>5
  <2>2. Of(s, "MEMORY_WB") = {} /\ Of(s, "MEMORY_READ") = {1} BY <1>1, <2>1 DEF Of
  <2>3. QED BY <1>5, <2>2 DEF Writes
<1>6. CASE x \notin Released(k) /\ ~Asks(k, x)
  <2>1. s = <<>> BY <1>2, <1>6
  <2>2. Of(s, "MEMORY_WB") = {} /\ Of(s, "MEMORY_READ") = {} BY <2>1 DEF Of
  <2>3. QED BY <1>6, <2>2 DEF Writes
<1>7. QED BY <1>3, <1>4, <1>5, <1>6

\* The waiters of k when it is there: the released ones are forgotten, the others move
\* on to the next ancestor that is missing, as far as there are slots.
LEMMA ResumedSlots ==
    ASSUME TypeInv, ParkedInv, NEW k \in Counters,
           auth' = [p \in Counters |->
                      IF p = k THEN NoAuth
                      ELSE [busy |-> auth[p].busy \/ Wanted(k, p),
                            slot |-> AddWaiters(auth[p].slot, auth[k].slot, Forwarded(k, p))]],
           \A x \in Addrs : dir[x].st \in EvictAuth /\ x \notin Released(k)
                              => dir'[x].st \in EvictAuth
    PROVE  ParkedInv'
<1>1. NoAddr \notin Addrs /\ NoAddr \notin Counters BY SetsAssumption DEF Addrs
<1>2. \A p \in Counters, s \in Slots : auth[p].slot[s] \in Addrs \cup {NoAddr}
  BY DEF TypeInv, TypeOK, DirTypeOK, AuthTBE
<1>3. ASSUME NEW p \in Counters, NEW s \in Slots, auth'[p].slot[s] # NoAddr
      PROVE  /\ p # k
             /\ \/ auth'[p].slot[s] = auth[p].slot[s]
                \/ \E i \in Forwarded(k, p) :
                     /\ auth'[p].slot[s] = auth[k].slot[i]
                     /\ s = Place(auth[p].slot, Forwarded(k, p), i)
  <2>1. p # k BY <1>3 DEF NoAuth
  <2>2. auth'[p].slot = AddWaiters(auth[p].slot, auth[k].slot, Forwarded(k, p)) BY <2>1
  <2>3. QED BY <1>3, <2>1, <2>2, WaiterPlaced
<1>4. \A p \in Counters : \A i \in Forwarded(k, p) :
        /\ i \in Slots /\ auth[k].slot[i] \in Addrs
        /\ FirstMissing(auth[k].slot[i], InLLC \cup {k}) = p
  BY <1>2 DEF Forwarded
<1>5. ASSUME NEW p \in Counters, NEW s \in Slots, auth'[p].slot[s] # NoAddr
      PROVE  dir'[auth'[p].slot[s]].st \in EvictAuth
  <2>1. CASE auth'[p].slot[s] = auth[p].slot[s]
    <3> DEFINE x == auth[p].slot[s]
    <3>1. x \in Addrs /\ x # NoAddr /\ dir[x].st \in EvictAuth
      BY <1>2, <1>5, <2>1 DEF ParkedInv
    <3>2. x \notin Released(k)
      <4>1. p # k BY <1>3, <1>5
      <4>2. \A t \in Slots : auth[k].slot[t] # x BY <3>1, <4>1 DEF ParkedInv
      <4>3. QED BY <4>2 DEF Released
    <3>3. QED BY <2>1, <3>1, <3>2
  <2>2. CASE \E i \in Forwarded(k, p) : auth'[p].slot[s] = auth[k].slot[i]
    <3>1. PICK i \in Forwarded(k, p) : auth'[p].slot[s] = auth[k].slot[i] BY <2>2
    <3> DEFINE x == auth[k].slot[i]
    <3>2. x \in Addrs /\ i \in Slots /\ FirstMissing(x, InLLC \cup {k}) = p BY <1>4, <3>1
    <3>3. dir[x].st \in EvictAuth BY <1>1, <3>2 DEF ParkedInv
    <3>4. x \notin Released(k) BY <1>1, <3>2 DEF Released
    <3>5. QED BY <3>1, <3>2, <3>3, <3>4
  <2>3. QED BY <1>3, <1>5, <2>1, <2>2
<1>6. ASSUME NEW p \in Counters, NEW s \in Slots, NEW q \in Counters, NEW t \in Slots,
             auth'[p].slot[s] # NoAddr, auth'[p].slot[s] = auth'[q].slot[t]
      PROVE  p = q /\ s = t
  <2>1. p # k /\ q # k BY <1>3, <1>6
  <2>2. CASE auth'[p].slot[s] = auth[p].slot[s] /\ auth'[q].slot[t] = auth[q].slot[t]
    BY <1>6, <2>2 DEF ParkedInv
  <2>3. CASE /\ auth'[p].slot[s] = auth[p].slot[s]
             /\ \E j \in Forwarded(k, q) : auth'[q].slot[t] = auth[k].slot[j]
    <3>1. PICK j \in Forwarded(k, q) : auth'[q].slot[t] = auth[k].slot[j] BY <2>3
    <3>2. j \in Slots /\ auth[p].slot[s] = auth[k].slot[j] BY <1>4, <1>6, <2>3, <3>1
    <3>3. QED BY <1>6, <2>1, <2>3, <3>2 DEF ParkedInv
  <2>4. CASE /\ auth'[q].slot[t] = auth[q].slot[t]
             /\ \E i \in Forwarded(k, p) : auth'[p].slot[s] = auth[k].slot[i]
    <3>1. PICK i \in Forwarded(k, p) : auth'[p].slot[s] = auth[k].slot[i] BY <2>4
    <3>2. i \in Slots /\ auth[q].slot[t] = auth[k].slot[i] BY <1>4, <1>6, <2>4, <3>1
    <3>3. QED BY <1>6, <2>1, <2>4, <3>2 DEF ParkedInv
  <2>5. CASE /\ \E i \in Forwarded(k, p) :
                  /\ auth'[p].slot[s] = auth[k].slot[i]
                  /\ s = Place(auth[p].slot, Forwarded(k, p), i)
             /\ \E j \in Forwarded(k, q) :
                  /\ auth'[q].slot[t] = auth[k].slot[j]
                  /\ t = Place(auth[q].slot, Forwarded(k, q), j)
    <3>1. PICK i \in Forwarded(k, p) : /\ auth'[p].slot[s] = auth[k].slot[i]
                                       /\ s = Place(auth[p].slot, Forwarded(k, p), i)
      BY <2>5
    <3>2. PICK j \in Forwarded(k, q) : /\ auth'[q].slot[t] = auth[k].slot[j]
                                       /\ t = Place(auth[q].slot, Forwarded(k, q), j)
      BY <2>5
    <3>3. i \in Slots /\ j \in Slots /\ auth[k].slot[i] = auth[k].slot[j]
          /\ auth[k].slot[i] # NoAddr
      BY <1>4, <1>6, <3>1, <3>2
    <3>4. i = j BY <3>3 DEF ParkedInv
    <3>5. p = q BY <1>4, <3>1, <3>2, <3>4
    <3>6. QED BY <3>1, <3>2, <3>4, <3>5
  <2>6. QED BY <1>3, <1>6, <2>2, <2>3, <2>4, <2>5
<1>7. QED BY <1>5, <1>6 DEF ParkedInv

\* A counter arrives that an AuthTBE waits for: the victims among its waiters whose
\* branch is complete are written back, and no other line changes its role.
LEMMA CounterArrives ==
    ASSUME TypeInv, OwnInv, MemInv, CounterData, NEW h, h = Mem, NEW k, k = h.a
    PROVE  /\ k \in Counters /\ auth[k].busy
           /\ auth' = [p \in Counters |->
                         IF p = k THEN NoAuth
                         ELSE [busy |-> auth[p].busy \/ Wanted(k, p),
                               slot |-> AddWaiters(auth[p].slot, auth[k].slot, Forwarded(k, p))]]
           /\ memPend' = [x \in Addrs |-> memPend[x] \o MemoryTraffic(k, x)]
           /\ \A x \in Released(k) : dir[x].st \in EvictAuth /\ x # k /\ x \in Addrs
           /\ \A x \in Addrs :
                /\ x \in Released(k) => dir'[x].st \in Evicting
                /\ x \notin Released(k) => SameTraffic(dir[x].st, dir'[x].st)
                /\ x \in Lines \ Released(k) => dir'[x] = dir[x]
<1> DEFINE here == InLLC \cup {k}
           out == Released(k)
           dirty == UNION {Branch(x, here) : x \in out}
           cached == [llc EXCEPT ![k] = [st |-> "clean", val |-> h.val]]
           D == [x \in Addrs |->
                   IF x = k THEN dir[k]
                   ELSE IF x \in out THEN [dir[x] EXCEPT !.st = Written(dir[x].st)]
                   ELSE Modified(dir, dirty)[x]]
<1>1. /\ memQ # <<>> /\ memQ' = Tail(memQ) /\ h.type = "MEMORY_READ"
      /\ k \in Counters /\ dir[k].st = "I" /\ UNCHANGED <<mem, tbe, current>>
  BY DEF CounterData, AtMemory, DirUnchanged
<1>2. llc' = Dirtied(cached, dirty) /\ dir' = D BY Zenon DEF CounterData
<1>3. /\ Counters \subseteq Addrs /\ Lines \subseteq Addrs /\ Lines \cap Counters = {}
      /\ dir \in [Addrs -> DirEntry] /\ llc \in [Addrs -> LLCEntry]
      /\ k \in Addrs /\ k \notin Lines
  BY <1>1, SetsAssumption DEF Addrs, TypeInv, TypeOK, DirTypeOK
<1>4. dirty \in SUBSET Counters /\ dirty \subseteq here /\ out \subseteq Addrs
  BY BranchType, BranchHere DEF Released
<1> HIDE DEF out, dirty, cached
<1>5. 1 \in Served(k, "MEMORY_READ") BY <1>1, AnswerTaken
<1>6. auth[k].busy
  <2>1. Regular(k, "MEMORY_READ") BY <1>3 DEF MemInv, TrafficInv, Kinds
  <2>2. InTransit(k, "MEMORY_READ") BY <1>5 DEF InTransit
  <2>3. QED BY <1>3, <2>1, <2>2 DEF Regular, Expected, Reading
<1>7. /\ auth' = [p \in Counters |->
                    IF p = k THEN NoAuth
                    ELSE [busy |-> auth[p].busy \/ Wanted(k, p),
                          slot |-> AddWaiters(auth[p].slot, auth[k].slot, Forwarded(k, p))]]
      /\ memPend' = [x \in Addrs |-> memPend[x] \o MemoryTraffic(k, x)]
  BY <1>1, <1>6 DEF CounterData, CounterRead
<1>9. \A x \in out : dir[x].st \in EvictAuth /\ x # k /\ x \in Addrs
  <2> SUFFICES ASSUME NEW x \in out PROVE dir[x].st \in EvictAuth /\ x # k /\ x \in Addrs
    OBVIOUS
  <2>1. x \in Addrs /\ \E s \in Slots : auth[k].slot[s] = x BY DEF out, Released
  <2>2. dir[x].st \in EvictAuth BY <1>1, <2>1, SetsAssumption DEF MemInv, ParkedInv
  <2>3. QED BY <1>1, <2>1, <2>2 DEF EvictAuth
<1>10. \A x \in Addrs : /\ x \in out => dir'[x].st \in Evicting
                        /\ x \notin out => SameTraffic(dir[x].st, dir'[x].st)
                        /\ x \in Lines \ out => dir'[x] = dir[x]
  <2> SUFFICES ASSUME NEW x \in Addrs
               PROVE  /\ x \in out => dir'[x].st \in Evicting
                      /\ x \notin out => SameTraffic(dir[x].st, dir'[x].st)
                      /\ x \in Lines \ out => dir'[x] = dir[x]
    OBVIOUS
  <2>1. CASE x \in out
    <3>1. dir'[x] = [dir[x] EXCEPT !.st = Written(dir[x].st)] BY <1>2, <1>9, <2>1
    <3>2. dir'[x].st = Written(dir[x].st) BY <1>3, <3>1 DEF DirEntry
    <3>3. QED BY <1>9, <2>1, <3>2 DEF Written, EvictAuth, Evicting
  <2>2. CASE x = k BY <1>2, <1>3, <1>9, <2>2 DEF SameTraffic
  <2>3. CASE x \notin out /\ x # k
    <3>1. dir'[x] = Modified(dir, dirty)[x] BY <1>2, <2>3
    <3>2. CASE x \notin dirty
      <4>1. dir'[x] = dir[x] BY <1>3, <1>4, <3>1, <3>2, ModifiedEntry
      <4>2. QED BY <2>3, <4>1 DEF SameTraffic
    <3>3. CASE x \in dirty
      <4>1. x \in InLLC /\ x \notin Lines BY <1>3, <1>4, <2>3, <3>3
      <4>2. dir[x].st \notin Uncached BY <4>1 DEF OwnInv, CacheInv, InLLC
      <4>3. dir'[x].st = "C_M" BY <1>3, <1>4, <3>1, <3>3, ModifiedEntry
      <4>4. QED BY <2>3, <4>1, <4>2, <4>3 DEF SameTraffic, Uncached, Evicting, EvictAuth
    <3>4. QED BY <3>2, <3>3
  <2>4. QED BY <2>1, <2>2, <2>3
<1>11. QED BY <1>1, <1>6, <1>7, <1>9, <1>10 DEF out

\* A counter arrives, and with it the evictions that waited for it go on.
LEMMA CounterDataMem == TypeInv /\ OwnInv /\ MemInv /\ CounterData => MemInv'
<1> SUFFICES ASSUME TypeInv, OwnInv, MemInv, CounterData, NEW h, h = Mem, NEW k, k = h.a
             PROVE  MemInv'
  OBVIOUS
<1> DEFINE here == InLLC \cup {k}
           out == Released(k)
           dirty == UNION {Branch(x, here) : x \in out}
           cached == [llc EXCEPT ![k] = [st |-> "clean", val |-> h.val]]
           D == [x \in Addrs |->
                   IF x = k THEN dir[k]
                   ELSE IF x \in out THEN [dir[x] EXCEPT !.st = Written(dir[x].st)]
                   ELSE Modified(dir, dirty)[x]]
<1>1. /\ memQ # <<>> /\ memQ' = Tail(memQ) /\ h.type = "MEMORY_READ"
      /\ k \in Counters /\ dir[k].st = "I" /\ UNCHANGED <<mem, tbe, current>>
  BY DEF CounterData, AtMemory, DirUnchanged
<1>2. llc' = Dirtied(cached, dirty) /\ dir' = D BY Zenon DEF CounterData
<1>3. /\ Counters \subseteq Addrs /\ Lines \subseteq Addrs /\ Lines \cap Counters = {}
      /\ dir \in [Addrs -> DirEntry] /\ llc \in [Addrs -> LLCEntry]
      /\ k \in Addrs /\ k \notin Lines
  BY <1>1, SetsAssumption DEF Addrs, TypeInv, TypeOK, DirTypeOK
<1>4. dirty \in SUBSET Counters /\ dirty \subseteq here /\ out \subseteq Addrs
  BY BranchType, BranchHere DEF Released
<1> HIDE DEF out, dirty, cached
<1>5. /\ h \in MemMsg
      /\ \A x, u : x # k \/ u # "MEMORY_READ" => AnswersLike(x, u)
      /\ 1 \in Served(k, "MEMORY_READ")
      /\ (\A i, j \in Served(k, "MEMORY_READ") : i = j) => Served(k, "MEMORY_READ")' = {}
      /\ \A x : Inbound(x)' \subseteq Inbound(x)
  BY <1>1, AnswerTaken
<1>6. Once(k, "MEMORY_READ")
  BY <1>3 DEF MemInv, TrafficInv, Kinds, Regular
<1>6a. auth[k].busy BY CounterArrives
<1>7. /\ auth' = [p \in Counters |->
                    IF p = k THEN NoAuth
                    ELSE [busy |-> auth[p].busy \/ Wanted(k, p),
                          slot |-> AddWaiters(auth[p].slot, auth[k].slot, Forwarded(k, p))]]
      /\ memPend' = [x \in Addrs |-> memPend[x] \o MemoryTraffic(k, x)]
  BY <1>1, <1>6a DEF CounterData, CounterRead
<1>8. \A x \in Addrs : /\ memPend'[x] = memPend[x] \o MemoryTraffic(k, x)
                       /\ MemoryTraffic(k, x) \in Seq(MemOp)
  BY <1>7, MemoryTrafficType
<1>8a. ASSUME NEW x \in Addrs, NEW u, AnswersLike(x, u)
       PROVE  /\ Of(MemoryTraffic(k, x), u) = {} => Undisturbed(x, u)
              /\ Of(MemoryTraffic(k, x), u) \in {{1}, {2}} /\ ~InTransit(x, u) =>
                   Once(x, u)' /\ InTransit(x, u)'
  <2> DEFINE s == MemoryTraffic(k, x)
  <2>1. s \in Seq(MemOp) /\ memPend'[x] = memPend[x] \o s BY <1>8
  <2> HIDE DEF s
  <2>2. /\ Of(s, u) = {} => Undisturbed(x, u)
        /\ \A n : Of(s, u) = {n} /\ ~InTransit(x, u) => Once(x, u)' /\ InTransit(x, u)'
    BY <1>8a, <2>1, TrafficAdded
  <2>3. QED BY <2>2 DEF s
<1>9. \A x \in out : dir[x].st \in EvictAuth /\ x # k /\ x \in Addrs
  BY CounterArrives DEF out
<1>10. \A x \in Addrs : /\ x \in out => dir'[x].st \in Evicting
                        /\ x \notin out => SameTraffic(dir[x].st, dir'[x].st)
                        /\ x \in Lines \ out => dir'[x] = dir[x]
  BY CounterArrives DEF out
<1>11. ASSUME NEW x \in Addrs
       PROVE  \/ Undisturbed(x, "MEMORY_WB") /\ x \notin out
              \/ Once(x, "MEMORY_WB")' /\ InTransit(x, "MEMORY_WB")' /\ x \in out
  <2>1. AnswersLike(x, "MEMORY_WB") BY <1>5
  <2>2. CASE x \notin out
    <3>1. Of(MemoryTraffic(k, x), "MEMORY_WB") = {} BY <2>2, ResumedTraffic DEF out
    <3>2. QED BY <1>8a, <2>1, <2>2, <3>1
  <2>3. CASE x \in out
    <3>1. \/ Of(MemoryTraffic(k, x), "MEMORY_WB") = {1}
          \/ Of(MemoryTraffic(k, x), "MEMORY_WB") = {2}
      BY <2>3, ResumedTraffic DEF out
    <3>2. ~InTransit(x, "MEMORY_WB")
      <4>1. Regular(x, "MEMORY_WB") BY DEF MemInv, TrafficInv, Kinds
      <4>2. dir[x].st \notin Evicting BY <1>9, <2>3 DEF EvictAuth, Evicting
      <4>3. QED BY <4>1, <4>2 DEF Regular, Expected
    <3>3. QED BY <1>8a, <2>1, <2>3, <3>1, <3>2
  <2>4. QED BY <2>2, <2>3
<1>12. ASSUME NEW x \in Addrs, x # k
       PROVE  \/ Undisturbed(x, "MEMORY_READ") /\ ~Asks(k, x)
              \/ Once(x, "MEMORY_READ")' /\ InTransit(x, "MEMORY_READ")' /\ Asks(k, x)
  <2>1. AnswersLike(x, "MEMORY_READ") BY <1>5, <1>12
  <2>2. CASE ~Asks(k, x)
    <3>1. Of(MemoryTraffic(k, x), "MEMORY_READ") = {} BY <2>2, ResumedTraffic
    <3>2. QED BY <1>8a, <2>1, <2>2, <3>1
  <2>3. CASE Asks(k, x)
    <3>1. \/ Of(MemoryTraffic(k, x), "MEMORY_READ") = {1}
          \/ Of(MemoryTraffic(k, x), "MEMORY_READ") = {2}
      BY <2>3, ResumedTraffic
    <3>2. ~InTransit(x, "MEMORY_READ")
      <4>1. Regular(x, "MEMORY_READ") BY DEF MemInv, TrafficInv, Kinds
      <4>2. x \notin Lines /\ ~auth[x].busy BY <1>3, <2>3 DEF Asks
      <4>3. QED BY <4>1, <4>2 DEF Regular, Expected, Reading
    <3>3. QED BY <1>8a, <2>1, <2>3, <3>1, <3>2
  <2>4. QED BY <2>2, <2>3
<1>13. Once(k, "MEMORY_READ")' /\ ~InTransit(k, "MEMORY_READ")' /\ ~Expected(k, "MEMORY_READ")'
  <2>1. Served(k, "MEMORY_READ")' = {} /\ Unserved(k, "MEMORY_READ") = {}
    BY <1>5, <1>6 DEF Once
  <2>2. Of(MemoryTraffic(k, k), "MEMORY_READ") = {} BY ResumedTraffic DEF Asks
  <2>3. Unserved(k, "MEMORY_READ")' = {}
    <3>1. /\ memPend[k] \in Seq(MemOp) /\ MemoryTraffic(k, k) \in Seq(MemOp)
          /\ memPend'[k] = memPend[k] \o MemoryTraffic(k, k)
      BY <1>3, <1>8, MemTypes
    <3>2. Of(memPend'[k], "MEMORY_READ") = {}
      BY <2>1, <2>2, <3>1, Queued DEF Unserved
    <3>3. QED BY <3>2 DEF Unserved
  <2>4. ~auth'[k].busy BY <1>1, <1>7 DEF NoAuth
  <2>5. QED BY <1>3, <2>1, <2>3, <2>4 DEF Once, InTransit, Expected, Reading
<1>14. TrafficInv'
  <2>1. ASSUME NEW x \in Addrs, NEW u \in Kinds
        PROVE  \/ Undisturbed(x, u) /\ (Expected(x, u)' <=> Expected(x, u))
               \/ Once(x, u)' /\ InTransit(x, u)' /\ Expected(x, u)'
               \/ Once(x, u)' /\ ~InTransit(x, u)' /\ ~Expected(x, u)'
    <3>1. CASE u = "MEMORY_WB"
      <4>1. x \in out => Expected(x, "MEMORY_WB")' BY <1>10 DEF Expected
      <4>2. x \notin out => (Expected(x, "MEMORY_WB")' <=> Expected(x, "MEMORY_WB"))
        BY <1>10 DEF Expected, SameTraffic
      <4>3. QED BY <1>11, <3>1, <4>1, <4>2
    <3>2. CASE u = "MEMORY_READ" /\ x = k
      BY <1>13, <3>2 DEF Once, InTransit, Expected, Reading, Served, Unserved, Of
    <3>3. CASE u = "MEMORY_READ" /\ x # k
      <4>1. CASE x \in Lines
        <5>1. ~Asks(k, x) BY <1>3, <4>1 DEF Asks
        <5>2. Expected(x, "MEMORY_READ")' <=> Expected(x, "MEMORY_READ")
          BY <1>9, <1>10, <4>1 DEF Expected, Reading, SameTraffic, EvictAuth, Evicting
        <5>3. QED BY <1>12, <3>3, <5>1, <5>2
      <4>2. CASE x \in Counters
        <5>1. /\ Expected(x, "MEMORY_READ")' <=> auth[x].busy \/ Wanted(k, x)
              /\ Expected(x, "MEMORY_READ") <=> auth[x].busy
          BY <1>3, <1>7, <3>3, <4>2 DEF Expected, Reading
        <5>2. Asks(k, x) <=> Wanted(k, x) /\ ~auth[x].busy BY <3>3, <4>2 DEF Asks
        <5>3. QED BY <1>12, <3>3, <5>1, <5>2
      <4>3. QED BY <4>1, <4>2 DEF Addrs
    <3>4. QED BY <3>1, <3>2, <3>3 DEF Kinds
  <2>2. QED BY <2>1, TrafficStep DEF MemInv
<1>15. ParkedInv'
  <2>1. \A x \in Addrs : dir[x].st \in EvictAuth /\ x \notin Released(k)
                           => dir'[x].st \in EvictAuth
    BY <1>10 DEF SameTraffic, out
  <2>2. QED BY <1>1, <1>7, <2>1, ResumedSlots DEF MemInv
<1>16. ASSUME NEW x \in Lines PROVE SafeLine(x)'
  <2>1. SafeLine(x) /\ x \in Addrs /\ x # k BY <1>3 DEF MemInv, DataInv
  <2>2. llc'[x] = llc[x]
    <3>1. x \notin dirty BY <1>3, <1>4
    <3>2. cached[x] = llc[x] BY <1>3, <2>1 DEF cached
    <3>3. QED BY <1>2, <2>1, <3>1, <3>2 DEF Dirtied
  <2>3. Outbound(x)' = Outbound(x) \cup (IF x \in out THEN {tbe[x].val} ELSE {})
    <3>1. memPend[x] \in Seq(MemOp) BY <2>1, MemTypes
    <3>2. Writes(MemoryTraffic(k, x)) = IF x \in out THEN {tbe[x].val} ELSE {}
      BY ResumedTraffic DEF out
    <3>3. Writes(memPend[x] \o MemoryTraffic(k, x))
            = Writes(memPend[x]) \cup Writes(MemoryTraffic(k, x))
      BY <1>8, <2>1, <3>1, WritesAdded
    <3>4. QED BY <1>8, <2>1, <3>2, <3>3 DEF Outbound
  <2>4. CASE x \notin out
    <3>1. dir'[x] = dir[x] /\ Outbound(x)' = Outbound(x) BY <1>10, <2>1, <2>3, <2>4
    <3>2. QED BY <1>1, <1>5, <2>1, <2>2, <3>1, LineSafe
  <2>5. CASE x \in out
    <3>1. /\ dir[x].st \in EvictAuth /\ dir'[x].st \in Evicting
      BY <1>9, <1>10, <2>1, <2>5
    <3>2. Outbound(x) = {} /\ Inbound(x) = {}
      <4>1. dir[x].st \notin Evicting \cup {"IS", "IE", "SE"}
        BY <3>1 DEF EvictAuth, Evicting
      <4>2. QED BY <4>1, NothingUnderWay DEF MemInv
    <3>3. Outbound(x)' = {current[x]} BY <2>1, <2>3, <2>5, <3>1, <3>2 DEF SafeLine
    <3>4. Inbound(x)' = {} BY <1>5, <3>2
    <3>5. llc'[x].st = "none"
      <4>1. dir[x].st \in Uncached BY <3>1 DEF Uncached
      <4>2. QED BY <2>1, <2>2, <4>1 DEF OwnInv, CacheInv
    <3>6. dir'[x].st \notin EvictAuth BY <3>1 DEF EvictAuth, Evicting
    <3>7. x \notin InLLC' BY <3>5 DEF InLLC
    <3>8. QED BY <1>1, <3>3, <3>4, <3>5, <3>6, <3>7 DEF SafeLine
  <2>6. QED BY <2>4, <2>5
<1>17. QED BY <1>14, <1>15, <1>16 DEF MemInv, DataInv

\* No answer of the memory disturbs the invariant.
LEMMA MemoryPortMem == TypeInv /\ OwnInv /\ MemInv /\ MemoryPort => MemInv'
<1> SUFFICES ASSUME TypeInv, OwnInv, MemInv, MemoryPort PROVE MemInv' OBVIOUS
<1>1. CASE MemoryPanic BY <1>1, NothingMem DEF MemoryPanic, ghostVars
<1>2. QED BY <1>1, GrantFromMemoryMem, CounterDataMem, EvictionDoneMem DEF MemoryPort

-----------------------------------------------------------------------------
(* The invariant, and what it says.                                        *)

\* Nothing is in memory's queues at first, and every line is 0 everywhere.
LEMMA InitMem == Init => MemInv
<1> SUFFICES ASSUME Init PROVE MemInv OBVIOUS
<1>1. /\ dir = [a \in Addrs |-> [st |-> "I", wts |-> 0, rts |-> 0, owner |-> {}]]
      /\ llc = [a \in Addrs |-> NoLLC] /\ auth = [k \in Counters |-> NoAuth]
      /\ mem = [a \in Addrs |-> 0] /\ memPend = [a \in Addrs |-> <<>>] /\ memQ = <<>>
      /\ current = [a \in Lines |-> 0]
  BY DEF Init
<1>2. Addrs = Lines \cup Counters BY DEF Addrs
<1>3. \A x \in Addrs, t \in Kinds : Unserved(x, t) = {} /\ Served(x, t) = {}
  BY <1>1 DEF Unserved, Served, Of
<1>4. \A x \in Addrs, t \in Kinds : ~Expected(x, t)
  BY <1>1, <1>2 DEF Expected, Reading, Evicting, NoAuth
<1>5. TrafficInv BY <1>3, <1>4 DEF TrafficInv, Regular, Once, InTransit
<1>6. ParkedInv BY <1>1 DEF ParkedInv, NoAuth
<1>7. ASSUME NEW x \in Lines PROVE SafeLine(x)
  <2>1. x \in Addrs /\ "MEMORY_WB" \in Kinds /\ "MEMORY_READ" \in Kinds BY <1>2 DEF Kinds
  <2>2. Outbound(x) = {} /\ Inbound(x) = {}
    BY <1>3, <2>1 DEF Outbound, Writes, Inbound, Unserved
  <2>3. /\ dir[x].st = "I" /\ llc[x].st = "none" /\ mem[x] = 0 /\ current[x] = 0
    BY <1>1, <2>1 DEF NoLLC
  <2>4. QED BY <2>2, <2>3 DEF SafeLine, InLLC, EvictAuth
<1>8. QED BY <1>5, <1>6, <1>7 DEF MemInv, DataInv

\* No step disturbs the invariant.
LEMMA NextMem == TypeInv /\ OwnInv /\ MemInv /\ [Next]_vars => MemInv'
<1> SUFFICES ASSUME TypeInv, OwnInv, MemInv, [Next]_vars PROVE MemInv' OBVIOUS
<1>1. CASE Stop \/ UNCHANGED vars
  <2>1. UNCHANGED <<dirVars, memVars, current>> BY <1>1 DEF Stop, vars, ghostVars
  <2>2. QED BY <2>1, NothingMem
<1>2. CASE \E c \in Cores : L1Next(c) BY <1>2, L1Mem
<1>3. CASE DirNext
  BY <1>3, RequestPortMem, ResponsePortMem, MemoryPortMem, ReplacementMem DEF DirNext
<1>4. CASE \E a \in Addrs : MemServe(a) BY <1>4, MemServeMem
<1>5. QED BY <1>1, <1>2, <1>3, <1>4 DEF Next

\* What is asked of the memory is asked once, parked victims are in one slot at most,
\* and the contents of a line are where the directory will look for them.
THEOREM MemoryInvariant == Spec => []MemInv
<1>1. Init => MemInv BY InitMem
<1>2. TypeInv /\ OwnInv /\ MemInv /\ [Next]_vars => MemInv' BY NextMem
<1>3. QED BY <1>1, <1>2, TypeCorrect, OwnershipInvariant, PTL DEF Spec

\* The transactions of a kind under way for x, as the property counts them.
LEMMA Transactions ==
    ASSUME TypeInv, NEW x, NEW t, Once(x, t)
    PROVE  LET T == {<<"pending", i>> : i \in {n \in 1..Len(memPend[x]) : memPend[x][n].type = t}}
                      \cup {<<"served", i>> :
                              i \in {n \in 1..Len(memQ) : memQ[n].a = x /\ memQ[n].type = t}}
           IN  Cardinality(T) = (IF InTransit(x, t) THEN 1 ELSE 0) /\ (~InTransit(x, t) => T = {})
<1> DEFINE P == {<<"pending", i>> : i \in Unserved(x, t)}
           S == {<<"served", i>> : i \in Served(x, t)}
           T == P \cup S
<1>1. /\ \A u, v \in P : u = v
      /\ \A u, v \in S : u = v
      /\ P = {} \/ S = {}
  BY DEF Once
<1>2. T = {} <=> ~InTransit(x, t) BY DEF InTransit
<1>3. \A u, v \in T : u = v BY <1>1
<1> HIDE DEF P, S, T
<1>4. Cardinality(T) = IF T = {} THEN 0 ELSE 1 BY <1>3, AtMostOne
<1>5. QED BY <1>2, <1>4 DEF T, P, S, Unserved, Served, Of

\* The invariant says how often the memory is asked.
LEMMA TransactionsCounted == TypeInv /\ MemInv => OneMemoryTransaction
<1> SUFFICES ASSUME TypeInv, MemInv PROVE OneMemoryTransaction OBVIOUS
<1>1. Addrs = Lines \cup Counters /\ Lines \cap Counters = {} BY SetsAssumption DEF Addrs
<1>2. ASSUME NEW x \in Addrs
      PROVE  /\ Cardinality(ReadsOf(x)) = IF Reading(x) THEN 1 ELSE 0
             /\ ~Reading(x) => ReadsOf(x) = {}
             /\ Cardinality(WritesOf(x)) = IF dir[x].st \in Evicting THEN 1 ELSE 0
  <2>1. Regular(x, "MEMORY_READ") /\ Regular(x, "MEMORY_WB") BY DEF MemInv, TrafficInv, Kinds
  <2>2. /\ Once(x, "MEMORY_READ") /\ (InTransit(x, "MEMORY_READ") <=> Reading(x))
        /\ Once(x, "MEMORY_WB") /\ (InTransit(x, "MEMORY_WB") <=> dir[x].st \in Evicting)
    BY <2>1 DEF Regular, Expected
  <2>3. /\ Cardinality(ReadsOf(x)) = IF InTransit(x, "MEMORY_READ") THEN 1 ELSE 0
        /\ ~InTransit(x, "MEMORY_READ") => ReadsOf(x) = {}
    BY <2>2, Transactions DEF ReadsOf
  <2>4. Cardinality(WritesOf(x)) = IF InTransit(x, "MEMORY_WB") THEN 1 ELSE 0
    BY <2>2, Transactions DEF WritesOf
  <2>5. QED BY <2>2, <2>3, <2>4
<1>3. /\ \A x \in Lines : Reading(x) <=> dir[x].st \in {"IS", "IE", "SE"}
      /\ \A q \in Counters : Reading(q) <=> auth[q].busy
  BY <1>1 DEF Reading
<1>4. QED BY <1>1, <1>2, <1>3 DEF OneMemoryTransaction

\* A line is read once per miss, a counter once per AuthTBE, a victim written back once.
THEOREM AskedOnce == Spec => []OneMemoryTransaction
<1>1. TypeInv /\ MemInv => OneMemoryTransaction BY TransactionsCounted
<1>2. QED BY <1>1, TypeCorrect, MemoryInvariant, PTL

\* The invariant says where the contents of a line are.
LEMMA DataFound == TypeInv /\ MemInv => DataSafe
<1> SUFFICES ASSUME TypeInv, MemInv, NEW x \in Lines
             PROVE  /\ dir[x].st \in {"I", "S", "IS", "IE", "SE", "I_Fetch_Auth", "S_Fetch_Auth"}
                                       \cup Evicting
                         => AtRest(x) = current[x]
                    /\ dir[x].st \in EvictAuth => tbe[x].val = current[x]
                    /\ \A i \in 1..Len(memQ) :
                         memQ[i].a = x /\ memQ[i].type = "MEMORY_READ" => memQ[i].val = current[x]
  BY DEF DataSafe
<1>1. SafeLine(x) /\ x \in Addrs BY DEF MemInv, DataInv, Addrs
<1>2. dir[x].st \in EvictAuth => tbe[x].val = current[x] BY <1>1 DEF SafeLine
<1>3. ASSUME NEW i \in 1..Len(memQ), memQ[i].a = x, memQ[i].type = "MEMORY_READ"
      PROVE  memQ[i].val = current[x]
  <2>1. memQ[i].val \in Inbound(x) BY <1>3 DEF Inbound, Served
  <2>2. QED BY <1>1, <2>1 DEF SafeLine
<1>4. ASSUME dir[x].st \in AtHome PROVE AtRest(x) = current[x]
  <2> DEFINE wbs == {i \in 1..Len(memPend[x]) : memPend[x][i].type = "MEMORY_WB"}
             last == CHOOSE i \in wbs : \A j \in wbs : j <= i
  <2>1. wbs = Unserved(x, "MEMORY_WB") /\ Outbound(x) = {memPend[x][i].val : i \in wbs}
    BY DEF Unserved, Of, Outbound, Writes
  <2>2. Once(x, "MEMORY_WB")
    <3>1. Regular(x, "MEMORY_WB") BY <1>1 DEF MemInv, TrafficInv, Kinds
    <3>2. QED BY <3>1 DEF Regular
  <2>3. CASE x \in InLLC BY <1>1, <1>4, <2>3 DEF SafeLine, AtRest
  <2>4. CASE x \notin InLLC /\ wbs = {}
    <3>1. Outbound(x) = {} BY <2>1, <2>4
    <3>2. AtRest(x) = mem[x] BY <2>4 DEF AtRest
    <3>3. QED BY <1>1, <1>4, <2>4, <3>1, <3>2 DEF SafeLine
  <2>5. CASE x \notin InLLC /\ wbs # {}
    <3>1. AtRest(x) = memPend[x][last].val BY <2>5 DEF AtRest
    <3>2. last \in wbs
      <4>1. \A i, j \in wbs : i = j BY <2>1, <2>2 DEF Once
      <4>2. \A i, j \in wbs : j <= i BY <4>1
      <4>3. \E i \in wbs : \A j \in wbs : j <= i BY <2>5, <4>2
      <4>4. QED BY <4>3
    <3>3. memPend[x][last].val \in Outbound(x) BY <2>1, <3>2
    <3>4. QED BY <1>1, <1>4, <2>5, <3>1, <3>3 DEF SafeLine
  <2>6. QED BY <2>3, <2>4, <2>5
<1>5. QED BY <1>2, <1>3, <1>4 DEF AtHome

\* What an L1 last handed back is never lost: it is where the directory looks for it.
THEOREM NothingLost == Spec => []DataSafe
<1>1. TypeInv /\ MemInv => DataSafe BY DataFound
<1>2. QED BY <1>1, TypeCorrect, MemoryInvariant, PTL

\* A step sends no data but what an L1 last handed back.
FreshReplies ==
    \A m \in rep' \ rep : m.type \in {"SH_REP", "EX_REP"} => m.val = current'[m.a]

\* One reply, with such data or with none.
LEMMA ReplyFresh ==
    ASSUME NEW type, NEW a, NEW c, NEW w, NEW r, NEW v, Reply(type, a, c, w, r, v),
           type \in {"SH_REP", "EX_REP"} => v = current'[a]
    PROVE  FreshReplies
<1> DEFINE n == [type |-> type, a |-> a, to |-> c, wts |-> w, rts |-> r, val |-> v]
<1>1. n.type = type /\ n.a = a /\ n.val = v OBVIOUS
<1>2. rep' = rep \cup {n} BY DEF Reply
<1> HIDE DEF n
<1>3. QED BY <1>1, <1>2 DEF FreshReplies

\* The directory answers a request from the LLC.
LEMMA HitFresh ==
    ASSUME TypeInv, MemInv, HitShared \/ HitExclusive \/ UpgradeOwner
    PROVE  FreshReplies
<1> SUFFICES ASSUME NEW a, a = Req.a PROVE FreshReplies OBVIOUS
<1>1. /\ reqQ # <<>> /\ dir[a].st \in {"I", "S"} /\ current' = current
      /\ UpgradeOwner \/ ReqEvent \in {"ShReq_Hit", "ExReq_Hit"}
  BY DEF HitShared, HitExclusive, UpgradeOwner, AtRequest
<1>2. a \in Lines BY <1>1, ReqType
<1>3. CASE UpgradeOwner
  <2>1. Reply("UPGR_REP", a, Req.from, 0, dir[a].rts, 0) BY <1>3 DEF UpgradeOwner
  <2>2. QED BY <2>1, ReplyFresh
<1>4. ASSUME ReqEvent \in {"ShReq_Hit", "ExReq_Hit"} PROVE llc[a].val = current'[a]
  <2>1. a \in InLLC BY <1>4 DEF ReqEvent
  <2>2. dir[a].st \in AtHome BY <1>1 DEF AtHome
  <2>3. QED BY <1>1, <1>2, <2>1, <2>2 DEF MemInv, DataInv, SafeLine
<1>5. CASE HitShared
  <2>1. \/ Reply("RENEW_REP", a, Req.from, 0, mts, 0)
        \/ Reply("SH_REP", a, Req.from, mts, mts, llc[a].val)
    BY <1>5 DEF HitShared
  <2>2. ReqEvent \in {"ShReq_Hit", "ExReq_Hit"} BY <1>5 DEF HitShared, AtRequest
  <2>3. QED BY <1>4, <2>1, <2>2, ReplyFresh
<1>6. CASE HitExclusive
  <2>1. Reply("EX_REP", a, Req.from, mts, mts, llc[a].val) BY <1>6 DEF HitExclusive
  <2>2. ReqEvent \in {"ShReq_Hit", "ExReq_Hit"} BY <1>6 DEF HitExclusive, AtRequest
  <2>3. QED BY <1>4, <2>1, <2>2, ReplyFresh
<1>7. QED BY <1>3, <1>5, <1>6

\* It passes on what the owner hands back.
LEMMA ReturnedFresh ==
    ASSUME TypeInv, TakeBack \/ GrantAfterWriteback \/ GrantAfterFlush
    PROVE  FreshReplies
<1> SUFFICES ASSUME NEW a, a = Rsp.a, NEW v, v = Rsp.val PROVE FreshReplies OBVIOUS
<1>1. rspQ # <<>> /\ current' = [current EXCEPT ![a] = v]
  BY DEF TakeBack, GrantAfterWriteback, GrantAfterFlush, AtResponse, PopResponse
<1>2. a \in Lines /\ current \in [Lines -> Nat]
  BY <1>1, RspType DEF TypeInv, TypeOK, HistoryTypeOK
<1>3. current'[a] = v BY <1>1, <1>2
<1>4. CASE TakeBack
  <2>1. Reply("ACK_REP", a, Rsp.from, 0, 0, 0) BY <1>4 DEF TakeBack
  <2>2. QED BY <2>1, ReplyFresh
<1>5. CASE GrantAfterWriteback
  <2>1. \E r : Reply("SH_REP", a, tbe[a].req, Rsp.wts, r, v) BY <1>5 DEF GrantAfterWriteback
  <2>2. QED BY <1>3, <2>1, ReplyFresh
<1>6. CASE GrantAfterFlush
  <2>1. Reply("EX_REP", a, tbe[a].req, Rsp.wts, Rsp.rts, v) BY <1>6 DEF GrantAfterFlush
  <2>2. QED BY <1>3, <2>1, ReplyFresh
<1>7. QED BY <1>4, <1>5, <1>6

\* It passes on what the memory returns.
LEMMA ReadFresh ==
    ASSUME TypeInv, MemInv, GrantShared \/ GrantExclusive
    PROVE  FreshReplies
<1> SUFFICES ASSUME NEW h, h = Mem, NEW a, a = h.a PROVE FreshReplies OBVIOUS
<1>1. /\ memQ # <<>> /\ memQ' = Tail(memQ) /\ current' = current /\ h.type = "MEMORY_READ"
      /\ dir[a].st \in {"IS", "IE", "SE"}
  BY DEF GrantShared, GrantExclusive, AtMemory
<1>2. a \in Lines /\ h.val \in Inbound(h.a)
  <2>1. h \in MemMsg /\ h.val \in Inbound(h.a) BY <1>1, AnswerTaken
  <2>2. a \notin Counters BY <1>1 DEF TypeInv, CounterStates
  <2>3. QED BY <2>1, <2>2 DEF Addrs, MemMsg
<1>3. h.val = current'[a]
  <2>1. SafeLine(a) BY <1>2 DEF MemInv, DataInv
  <2>2. Inbound(a) \subseteq {current[a]} BY <2>1 DEF SafeLine
  <2>3. QED BY <1>1, <1>2, <2>2
<1>4. CASE GrantShared
  <2>1. \E r, c : \/ Reply("RENEW_REP", a, c, 0, r, 0)
                  \/ Reply("SH_REP", a, c, mts, r, h.val)
    BY <1>4 DEF GrantShared
  <2>2. QED BY <1>3, <2>1, ReplyFresh
<1>5. CASE GrantExclusive
  <2>1. Reply("EX_REP", a, tbe[a].req, mts, mts, h.val) BY <1>5 DEF GrantExclusive
  <2>2. QED BY <1>3, <2>1, ReplyFresh
<1>6. QED BY <1>4, <1>5

\* No step of the directory or of an L1 sends anything else.
LEMMA NextFresh == TypeInv /\ MemInv /\ [Next]_vars => FreshReplies
<1> SUFFICES ASSUME TypeInv, MemInv, [Next]_vars PROVE FreshReplies OBVIOUS
<1>1. rep' \subseteq rep => FreshReplies BY DEF FreshReplies
<1>2. CASE Stop \/ UNCHANGED vars \/ \E a \in Addrs : MemServe(a)
  BY <1>1, <1>2 DEF Stop, vars, chanVars, MemServe
<1>3. ASSUME NEW c \in Cores, L1Next(c) PROVE rep' \subseteq rep
  <2>1. CASE \/ CoreIssue(c) \/ MandatoryPanic(c)
             \/ Miss(c) \/ LoadHit(c) \/ Renew(c) \/ Upgrade(c)
             \/ OwnerLoad(c) \/ OwnerStore(c) \/ MandatoryStall(c)
    BY <2>1 DEF CoreIssue, MandatoryPanic, Miss, LoadHit, Renew, Upgrade, OwnerLoad, OwnerStore,
                MandatoryStall, chanVars
  <2>2. CASE \E v \in Lines : EvictShared(c, v) \/ EvictOwned(c, v) \/ EvictStall(c, v)
    BY <2>2 DEF EvictShared, EvictOwned, EvictStall
  <2>3. CASE \E m \in rep : \/ ShRep(c, m) \/ RenewRep(c, m) \/ ExRepMiss(c, m)
                            \/ ExRepUpgrade(c, m) \/ UpgRep(c, m) \/ AckRep(c, m)
    BY <2>3 DEF ShRep, RenewRep, ExRepMiss, ExRepUpgrade, UpgRep, AckRep, Response
  <2>4. CASE \E m \in fwd : FlushReq(c, m) \/ FlushReqEvicting(c, m) \/ FlushReqPanic(c, m)
    BY <2>4 DEF FlushReq, FlushReqEvicting, FlushReqPanic, chanVars
  <2>5. QED BY <1>3, <2>1, <2>2, <2>3, <2>4 DEF L1Next
<1>4. CASE RequestPort
  <2>1. CASE HitShared \/ HitExclusive \/ UpgradeOwner BY <2>1, HitFresh
  <2>2. CASE \/ FetchFromMemory \/ WritebackOwner \/ FlushOwner \/ AuthMiss \/ AuthWait
             \/ Bounce \/ RequestStall \/ RequestPanic
    BY <1>1, <2>2 DEF FetchFromMemory, WritebackOwner, FlushOwner, AuthMiss, AuthWait, Bounce,
                      RequestStall, RequestPanic, chanVars
  <2>3. QED BY <1>4, <2>1, <2>2 DEF RequestPort
<1>5. CASE ResponsePort
  <2>1. CASE TakeBack \/ GrantAfterWriteback \/ GrantAfterFlush BY <2>1, ReturnedFresh
  <2>2. CASE \/ FlushedVictimWrittenBack \/ FlushedVictimAwaitsCounter
             \/ ResponseBounce \/ ResponseStall
    BY <1>1, <2>2 DEF FlushedVictimWrittenBack, FlushedVictimAwaitsCounter, FlushedVictim,
                      ResponseBounce, ResponseStall, chanVars
  <2>3. QED BY <1>5, <2>1, <2>2 DEF ResponsePort
<1>6. CASE MemoryPort
  <2>1. CASE GrantShared \/ GrantExclusive BY <2>1, ReadFresh
  <2>2. CASE CounterData \/ EvictionDone \/ MemoryPanic
    BY <1>1, <2>2 DEF CounterData, EvictionDone, MemoryPanic, chanVars
  <2>3. QED BY <1>6, <2>1, <2>2 DEF MemoryPort
<1>7. ASSUME NEW v \in Addrs, Replacement(v) PROVE rep' \subseteq rep
  BY <1>7 DEF Replacement, EvictClean, EvictDirty, EvictCounter, EvictAwaitingCounter,
              EvictCounterAwaitingParent, EvictOwnedLine, ReplacePanic, chanVars
<1>8. QED BY <1>1, <1>2, <1>3, <1>4, <1>5, <1>6, <1>7 DEF Next, DirNext

\* Data sent to an L1 is what an L1 last handed back, in every reply.
THEOREM RepliesAreFresh == Spec => FreshData
<1>1. TypeInv /\ MemInv /\ [Next]_vars => [FreshReplies]_vars BY NextFresh
<1>2. Spec => [][FreshReplies]_vars BY <1>1, TypeCorrect, MemoryInvariant, PTL DEF Spec
<1>3. QED BY <1>2 DEF FreshData, FreshReplies

-----------------------------------------------------------------------------
(* Waiter slots.                                                           *)

\* The slots of an AuthTBE that hold a victim: the first ones.
Filled(w) == {s \in Slots : w[s] # NoAddr}
Packed(w) == Filled(w) = 1..Cardinality(Filled(w))

\* No AuthTBE ever holds more waiters than resumeEvictions looks at.
SlotsSuffice == \A k \in Counters : Cardinality(Filled(auth[k].slot)) <= ResumeSlots

\* Slots are filled from the first, and every parked victim is in one.
EachParked ==
    \A x \in Addrs : dir[x].st \in EvictAuth =>
        \E k \in Counters, s \in Slots : auth[k].slot[s] = x
WaitInv == (\A k \in Counters : Packed(auth[k].slot)) /\ EachParked

\* The number of those in S that come no later than i: their ranks are the numbers
\* from 1 to the size of S, each once.
Rank(S, i) == Cardinality({h \in S : h <= i})
LEMMA Ranks ==
    ASSUME NEW S \in SUBSET Nat, IsFiniteSet(S)
    PROVE  /\ \A i \in S : Rank(S, i) \in 1..Cardinality(S)
           /\ \A i, j \in S : Rank(S, i) = Rank(S, j) => i = j
           /\ \A n \in 1..Cardinality(S) : \E i \in S : Rank(S, i) = n
<1> DEFINE below(i) == {h \in S : h <= i}
           c == Cardinality(S)
           f == [i \in S |-> Rank(S, i)]
<1>0. c \in Nat BY FS_CardinalityType
<1>1. ASSUME NEW i \in S PROVE IsFiniteSet(below(i)) /\ Cardinality(below(i)) \in 1..c
  <2>1. below(i) \in SUBSET S /\ i \in below(i) /\ {i} \in SUBSET below(i) OBVIOUS
  <2> HIDE DEF below
  <2>2. IsFiniteSet(below(i)) /\ Cardinality(below(i)) <= c BY <2>1, FS_Subset
  <2>3. Cardinality({i}) = 1 BY FS_Singleton
  <2>4. 1 <= Cardinality(below(i)) BY <2>1, <2>2, <2>3, FS_Subset
  <2>5. Cardinality(below(i)) \in Nat BY <2>2, FS_CardinalityType
  <2>6. QED BY <1>0, <2>2, <2>4, <2>5
<1>2. ASSUME NEW i \in S, NEW j \in S, i < j PROVE Cardinality(below(i)) # Cardinality(below(j))
  <2>1. i \in Nat /\ j \in Nat OBVIOUS
  <2>2. below(i) \in SUBSET below(j) /\ j \in below(j) /\ j \notin below(i)
    <3>1. \A h \in below(i) : h \in S /\ h \in Nat /\ h <= i OBVIOUS
    <3>2. \A h \in below(i) : h <= j BY <1>2, <2>1, <3>1
    <3>3. j <= j /\ ~(j <= i) BY <1>2, <2>1
    <3>4. QED BY <3>1, <3>2, <3>3
  <2> HIDE DEF below
  <2>3. below(i) # below(j) BY <2>2
  <2>4. QED BY <1>1, <2>2, <2>3, FS_Subset
<1>3. \A i \in S : f[i] = Cardinality(below(i)) BY DEF Rank
<1>4. \A i, j \in S : f[i] = f[j] => i = j
  <2> SUFFICES ASSUME NEW i \in S, NEW j \in S, f[i] = f[j] PROVE i = j OBVIOUS
  <2>1. Cardinality(below(i)) = Cardinality(below(j)) BY <1>3
  <2>2. ~(i < j) /\ ~(j < i) BY <1>2, <2>1
  <2>3. i \in Nat /\ j \in Nat OBVIOUS
  <2>4. QED BY <2>2, <2>3
<1>5. f \in [S -> 1..c] BY <1>1, <1>3 DEF Rank
<1>6. f \in Injection(S, 1..c) BY <1>4, <1>5 DEF Injection, IsInjective
<1>7. IsFiniteSet(1..c) /\ Cardinality(1..c) = c BY <1>0, FS_Interval
<1>8. f \in Surjection(S, 1..c) BY <1>6, <1>7, FS_Injection
<1>9. \A n \in 1..c : \E i \in S : f[i] = n BY <1>8 DEF Surjection
<1>10. \A i \in S : f[i] = Rank(S, i) OBVIOUS
<1>11. QED BY <1>4, <1>5, <1>9, <1>10

\* Slots are the numbers from 1 on; when the first m of them are filled the rest is
\* empty, or m is more than there are.
LEMMA PackedUpTo ==
    ASSUME NEW w, NEW m \in Nat, \A s \in Slots : w[s] # NoAddr <=> s <= m
    PROVE  /\ Packed(w)
           /\ m <= WaiterSlots => Cardinality(Filled(w)) = m
           /\ m > WaiterSlots => Cardinality(Filled(w)) = WaiterSlots
<1>1. WaiterSlots \in Nat /\ Slots = 1..WaiterSlots BY NumbersAssumption DEF Slots
<1>2. CASE m <= WaiterSlots
  <2>1. Filled(w) = 1..m BY <1>1, <1>2 DEF Filled
  <2>2. Cardinality(1..m) = m BY FS_Interval
  <2>3. QED BY <1>1, <1>2, <2>1, <2>2 DEF Packed
<1>3. CASE m > WaiterSlots
  <2>1. Filled(w) = 1..WaiterSlots BY <1>1, <1>3 DEF Filled
  <2>2. Cardinality(1..WaiterSlots) = WaiterSlots BY <1>1, FS_Interval
  <2>3. QED BY <1>1, <1>3, <2>1, <2>2 DEF Packed
<1>4. QED BY <1>1, <1>2, <1>3

\* What AddWaiters makes of slots that are filled from the first.
LEMMA SlotsFilled ==
    ASSUME NEW w, Packed(w), NEW u \in Nat, u = Cardinality(Filled(w)),
           NEW from, NEW S \in SUBSET Nat, IsFiniteSet(S), \A i \in S : from[i] # NoAddr
    PROVE  LET n == AddWaiters(w, from, S) IN
           /\ \A s \in Slots : w[s] # NoAddr => n[s] = w[s]
           /\ \A s \in Slots : n[s] # NoAddr <=> s <= u + Cardinality(S)
           /\ \A i \in S : u + Rank(S, i) \in Slots => n[u + Rank(S, i)] = from[i]
<1> DEFINE n == AddWaiters(w, from, S)
           c == Cardinality(S)
           Taker(s) == {i \in S : s = u + Rank(S, i)}
<1>1. c \in Nat /\ Slots \subseteq Nat \ {0} BY FS_CardinalityType, NumbersAssumption DEF Slots
<1>2. Filled(w) = 1..u BY DEF Packed
<1>3. \A s \in Slots : w[s] # NoAddr <=> s <= u BY <1>1, <1>2 DEF Filled
<1>4. \A s \in Slots : n[s] = IF w[s] # NoAddr THEN w[s]
                              ELSE IF Taker(s) = {} THEN NoAddr
                              ELSE from[CHOOSE i \in Taker(s) : TRUE]
  BY DEF AddWaiters, Rank, Filled
<1>5. /\ \A i \in S : Rank(S, i) \in 1..c
      /\ \A i, j \in S : Rank(S, i) = Rank(S, j) => i = j
      /\ \A m \in 1..c : \E i \in S : Rank(S, i) = m
  BY Ranks
<1> HIDE DEF n, c
<1>6. ASSUME NEW s \in Slots PROVE n[s] # NoAddr <=> s <= u + c
  <2>1. s \in Nat BY <1>1
  <2>2. CASE s <= u BY <1>1, <1>3, <1>4, <2>1, <2>2
  <2>3. CASE s > u /\ s <= u + c
    <3>1. s - u \in 1..c BY <1>1, <2>1, <2>3
    <3>2. PICK i \in S : Rank(S, i) = s - u BY <1>5, <3>1
    <3>3. s = u + Rank(S, i) BY <2>1, <3>2
    <3>4. Taker(s) # {} BY <3>3
    <3>5. (CHOOSE h \in Taker(s) : TRUE) \in S BY <3>4
    <3>6. w[s] = NoAddr BY <1>3, <2>1, <2>3
    <3> HIDE DEF Taker
    <3>7. QED BY <1>4, <2>3, <3>4, <3>5, <3>6
  <2>4. CASE s > u + c
    <3>1. Taker(s) = {}
      <4>1. ASSUME NEW h \in S, s = u + Rank(S, h) PROVE FALSE
        <5>1. Rank(S, h) \in 1..c BY <1>5
        <5>2. QED BY <1>1, <2>1, <2>4, <4>1, <5>1
      <4>2. QED BY <4>1
    <3>2. w[s] = NoAddr BY <1>1, <1>3, <2>1, <2>4
    <3>3. QED BY <1>1, <1>4, <2>1, <2>4, <3>1, <3>2
  <2>5. QED BY <1>1, <2>1, <2>2, <2>3, <2>4
<1>7. ASSUME NEW i \in S, u + Rank(S, i) \in Slots PROVE n[u + Rank(S, i)] = from[i]
  <2>1. Rank(S, i) \in Nat /\ Rank(S, i) > 0 BY <1>1, <1>5
  <2>2. PICK s \in Slots : s = u + Rank(S, i) BY <1>7
  <2>3. w[s] = NoAddr BY <1>3, <2>1, <2>2
  <2>4. i \in Taker(s) /\ \A h \in Taker(s) : h = i
    <3>1. ASSUME NEW h \in Taker(s) PROVE h = i
      <4>1. h \in S /\ u + Rank(S, h) = u + Rank(S, i) BY <2>2
      <4>2. Rank(S, h) \in Nat BY <1>1, <1>5, <4>1
      <4>3. QED BY <1>5, <2>1, <4>1, <4>2
    <3>2. QED BY <2>2, <3>1
  <2>5. (CHOOSE h \in Taker(s) : TRUE) = i /\ Taker(s) # {} BY <2>4
  <2> HIDE DEF Taker
  <2>6. QED BY <1>4, <2>2, <2>3, <2>5
<1>8. \A s \in Slots : w[s] # NoAddr => n[s] = w[s] BY <1>4
<1>9. QED BY <1>6, <1>7, <1>8 DEF n, c

\* When they still are no more than resumeEvictions looks at, all found a place.
LEMMA AllPlaced ==
    ASSUME ResumeSlots < WaiterSlots, NEW w, Packed(w), NEW from,
           NEW S \in SUBSET Nat, IsFiniteSet(S), \A i \in S : from[i] # NoAddr,
           NEW n, n = AddWaiters(w, from, S), Cardinality(Filled(n)) <= ResumeSlots
    PROVE  /\ Packed(n)
           /\ \A s \in Slots : w[s] # NoAddr => n[s] = w[s]
           /\ \A i \in S : \E s \in Slots : n[s] = from[i]
<1> DEFINE u == Cardinality(Filled(w))
           c == Cardinality(S)
<1>1. WaiterSlots \in Nat /\ ResumeSlots \in Nat /\ Slots = 1..WaiterSlots
  BY NumbersAssumption DEF Slots
<1>2. u \in Nat /\ c \in Nat
  <2>1. Filled(w) \in SUBSET (1..WaiterSlots) BY <1>1 DEF Filled
  <2>2. IsFiniteSet(1..WaiterSlots) BY <1>1, FS_Interval
  <2>3. IsFiniteSet(Filled(w)) BY <2>1, <2>2, FS_Subset
  <2>4. QED BY <2>3, FS_CardinalityType
<1> HIDE DEF u, c
<1>3. /\ \A s \in Slots : w[s] # NoAddr => n[s] = w[s]
      /\ \A s \in Slots : n[s] # NoAddr <=> s <= u + c
      /\ \A i \in S : u + Rank(S, i) \in Slots => n[u + Rank(S, i)] = from[i]
  BY <1>2, SlotsFilled DEF u, c
<1>4. u + c \in Nat BY <1>2
<1>5. /\ Packed(n)
      /\ u + c > WaiterSlots => Cardinality(Filled(n)) = WaiterSlots
  BY <1>3, <1>4, PackedUpTo
<1>6. u + c <= WaiterSlots BY <1>1, <1>4, <1>5
<1>7. ASSUME NEW i \in S PROVE \E s \in Slots : n[s] = from[i]
  <2>1. Rank(S, i) \in 1..c BY Ranks DEF c
  <2>2. u + Rank(S, i) \in Slots BY <1>1, <1>2, <1>6, <2>1
  <2>3. QED BY <1>3, <2>2
<1>8. QED BY <1>3, <1>5, <1>7

\* Nobody is parked, nobody released and no slot changes.
LEMMA WaitKept ==
    ASSUME WaitInv, \A k \in Counters : auth'[k].slot = auth[k].slot,
           \A x \in Addrs : dir'[x].st \in EvictAuth => dir[x].st \in EvictAuth
    PROVE  WaitInv'
<1>1. \A k \in Counters : Packed(auth'[k].slot) BY DEF WaitInv
<1>2. EachParked' BY DEF WaitInv, EachParked
<1>3. QED BY <1>1, <1>2 DEF WaitInv

\* A step that changes one entry, which is not parked afterwards, and some that
\* become C_M.
LEMMA WaitEntry ==
    ASSUME TypeInv, WaitInv, \A k \in Counters : auth'[k].slot = auth[k].slot,
           NEW a \in Addrs, NEW e, e.st \in EvictAuth => e.st = dir[a].st,
           NEW ks \in SUBSET Counters,
           SetDir(a, e) \/ dir' = [Modified(dir, ks) EXCEPT ![a] = e]
    PROVE  WaitInv'
<1>1. dir \in [Addrs -> DirEntry] /\ Modified(dir, ks) \in [Addrs -> DirEntry]
  BY ModifiedType DEF TypeInv, TypeOK, DirTypeOK
<1>2. ASSUME NEW x \in Addrs, dir'[x].st \in EvictAuth PROVE dir[x].st \in EvictAuth
  <2>1. CASE x = a BY <1>1, <1>2, <2>1 DEF SetDir
  <2>2. CASE x # a /\ SetDir(a, e) BY <1>1, <1>2, <2>2 DEF SetDir
  <2>3. CASE x # a /\ dir' = [Modified(dir, ks) EXCEPT ![a] = e]
    <3>1. dir'[x] = Modified(dir, ks)[x] BY <1>1, <2>3
    <3>2. dir'[x].st = IF x \in ks THEN "C_M" ELSE dir[x].st BY <1>1, <3>1, ModifiedEntry
    <3>3. QED BY <1>2, <3>2 DEF EvictAuth
  <2>4. QED BY <2>1, <2>2, <2>3
<1>3. QED BY <1>2, WaitKept

\* Requests park nobody.
LEMMA RequestPortWaits == TypeInv /\ WaitInv /\ RequestPort => WaitInv'
<1> SUFFICES ASSUME TypeInv, WaitInv, RequestPort, NEW a, a = Req.a PROVE WaitInv' OBVIOUS
<1>1. CASE RequestPanic
  <2>1. auth' = auth /\ dir' = dir BY <1>1 DEF RequestPanic, dirVars
  <2>2. QED BY <2>1, WaitKept
<1>2. CASE ~RequestPanic
  <2>1. reqQ # <<>>
    BY <1>2 DEF RequestPort, FetchFromMemory, HitShared, HitExclusive, UpgradeOwner,
       WritebackOwner, FlushOwner, AuthMiss, AuthWait, Bounce, RequestStall, AtRequest
  <2>2. /\ a \in Addrs /\ dir[a] \in DirEntry /\ Reserved \in DirEntry /\ Reserved.st = dir[a].st
    BY <2>1, ReqType
  <2>3. \A k \in Counters : auth'[k].slot = auth[k].slot
    <3>1. CASE AuthMiss
      <4>1. auth \in [Counters -> AuthTBE] BY DEF TypeInv, TypeOK, DirTypeOK
      <4>2. auth' = [auth EXCEPT ![Parent(a)] = [auth[Parent(a)] EXCEPT !.busy = TRUE]]
        BY <3>1 DEF AuthMiss, FetchCounterIfNeeded
      <4>3. QED BY <4>1, <4>2 DEF AuthTBE
    <3>2. CASE ~AuthMiss
      BY <1>2, <3>2 DEF RequestPort, FetchFromMemory, HitShared, HitExclusive, UpgradeOwner,
         WritebackOwner, FlushOwner, AuthWait, Bounce, RequestStall
    <3>3. QED BY <3>1, <3>2
  <2>4. \E e : SetDir(a, e) /\ (e.st \in EvictAuth => e.st = dir[a].st)
    <3>1. CASE FetchFromMemory
      <4>1. PICK e : SetDir(a, e) /\ e.st \in {"IS", "IE", "SE"}
        BY <2>2, <3>1 DEF FetchFromMemory, DirEntry
      <4>2. QED BY <4>1 DEF EvictAuth
    <3>2. CASE HitShared \/ HitExclusive \/ UpgradeOwner
      <4>1. PICK e : SetDir(a, e) /\ e.st \in {"S", "E"}
        <5>1. CASE HitShared
          <6> DEFINE e == [Reserved EXCEPT !.st = "S", !.wts = mts, !.rts = mts]
          <6>1. SetDir(a, e) BY <5>1 DEF HitShared
          <6>2. e.st = "S" BY <2>2 DEF DirEntry
          <6> HIDE DEF e
          <6>3. QED BY <6>1, <6>2
        <5>2. CASE HitExclusive BY <5>2 DEF HitExclusive
        <5>3. CASE UpgradeOwner
          <6> DEFINE e == [dir[a] EXCEPT !.st = "E", !.owner = dir[a].owner \cup {Req.from}]
          <6>1. SetDir(a, e) BY <5>3 DEF UpgradeOwner
          <6>2. e.st = "E" BY <2>2 DEF DirEntry
          <6> HIDE DEF e
          <6>3. QED BY <6>1, <6>2
        <5>4. QED BY <3>2, <5>1, <5>2, <5>3
      <4>2. QED BY <4>1 DEF EvictAuth
    <3>3. CASE WritebackOwner \/ FlushOwner
      <4>1. PICK e : SetDir(a, e) /\ e.st \in {"ES", "EE"}
        <5>1. CASE WritebackOwner
          <6> DEFINE e == Recall(Reserved, "ES")
          <6>1. SetDir(a, e) BY <5>1 DEF WritebackOwner
          <6>2. e.st = "ES" BY <2>2 DEF DirEntry, Recall
          <6> HIDE DEF e
          <6>3. QED BY <6>1, <6>2
        <5>2. CASE FlushOwner
          <6> DEFINE e == Recall(dir[a], "EE")
          <6>1. SetDir(a, e) BY <5>2 DEF FlushOwner
          <6>2. e.st = "EE" BY <2>2 DEF DirEntry, Recall
          <6> HIDE DEF e
          <6>3. QED BY <6>1, <6>2
        <5>3. QED BY <3>3, <5>1, <5>2
      <4>2. QED BY <4>1 DEF EvictAuth
    <3>4. CASE AuthMiss
      <4>1. PICK e : SetDir(a, e) /\ e.st = FetchState(dir[a].st) /\ dir[a].st \in {"I", "S", "E"}
        BY <2>2, <3>4 DEF AuthMiss, AtRequest, DirEntry
      <4>2. QED BY <4>1 DEF EvictAuth, FetchState
    <3>5. CASE AuthWait \/ RequestStall BY <2>2, <3>5 DEF AuthWait, RequestStall
    <3>6. CASE Bounce
      <4>1. PICK e : SetDir(a, e) /\ e.st = BaseState(dir[a].st) /\ dir[a].st \in FetchAuth
        BY <2>2, <3>6 DEF Bounce, AtRequest, DirEntry
      <4>2. QED BY <4>1 DEF EvictAuth, FetchAuth, BaseState
    <3>7. QED BY <1>2, <3>1, <3>2, <3>3, <3>4, <3>5, <3>6 DEF RequestPort
  <2>5. QED BY <2>2, <2>3, <2>4, WaitEntry
<1>3. QED BY <1>1, <1>2

\* A victim that is to wait finds a slot.
LEMMA VictimFindsSlot ==
    ASSUME ResumeSlots < WaiterSlots, TypeInv, WaitInv, SlotsSuffice', NEW v \in Addrs,
           NEW e, SetDir(v, e), FetchCounterForEviction(v), FirstMissing(v, InLLC) \in Counters
    PROVE  WaitInv'
<1>1. PICK k \in Counters :
        auth' = [auth EXCEPT ![k] = [busy |-> TRUE,
                                     slot |-> AddWaiters(auth[k].slot, <<v>>, {1})]]
  BY DEF FetchCounterForEviction
<1>2. auth \in [Counters -> AuthTBE] /\ v # NoAddr
  BY SetsAssumption DEF TypeInv, TypeOK, DirTypeOK
<1>3. PICK n : n = AddWaiters(auth[k].slot, <<v>>, {1}) OBVIOUS
<1>4. auth'[k].slot = n /\ \A p \in Counters \ {k} : auth'[p].slot = auth[p].slot
  BY <1>1, <1>2, <1>3
<1>5. Packed(auth[k].slot) /\ Cardinality(Filled(n)) <= ResumeSlots
  BY <1>4 DEF WaitInv, SlotsSuffice
<1>6. {1} \in SUBSET Nat /\ IsFiniteSet({1}) /\ \A i \in {1} : <<v>>[i] # NoAddr
  <2>1. \A i \in {1} : <<v>>[i] = v OBVIOUS
  <2>2. IsFiniteSet({1}) BY FS_Singleton
  <2>3. QED BY <1>2, <2>1, <2>2
<1>7. /\ Packed(n)
      /\ \A s \in Slots : auth[k].slot[s] # NoAddr => n[s] = auth[k].slot[s]
      /\ \A i \in {1} : \E s \in Slots : n[s] = <<v>>[i]
  BY <1>3, <1>5, <1>6, AllPlaced
<1>8. \A p \in Counters : Packed(auth'[p].slot) BY <1>4, <1>7 DEF WaitInv
<1>9. ASSUME NEW x \in Addrs, dir'[x].st \in EvictAuth
      PROVE  \E p \in Counters, s \in Slots : auth'[p].slot[s] = x
  <2>1. CASE x = v
    <3>1. PICK s \in Slots : n[s] = v BY <1>7
    <3>2. QED BY <1>4, <2>1, <3>1
  <2>2. CASE x # v
    <3>1. dir[x].st \in EvictAuth BY <1>9, <2>2, OneEntry
    <3>2. PICK p \in Counters, s \in Slots : auth[p].slot[s] = x
      BY <3>1 DEF WaitInv, EachParked
    <3>3. x # NoAddr BY SetsAssumption
    <3>4. auth'[p].slot[s] = x BY <1>4, <1>7, <3>2, <3>3
    <3>5. QED BY <3>4
  <2>3. QED BY <2>1, <2>2
<1>10. QED BY <1>8, <1>9 DEF WaitInv, EachParked

\* Responses park the lines recalled for their eviction.
LEMMA ResponsePortWaits ==
    ASSUME ResumeSlots < WaiterSlots, TypeInv, WaitInv, SlotsSuffice', ResponsePort
    PROVE  WaitInv'
<1> SUFFICES ASSUME NEW a, a = Rsp.a PROVE WaitInv' OBVIOUS
<1>1. rspQ # <<>>
  BY DEF ResponsePort, TakeBack, GrantAfterWriteback, GrantAfterFlush, FlushedVictimWrittenBack,
     FlushedVictimAwaitsCounter, FlushedVictim, ResponseBounce, ResponseStall, AtResponse
<1>2. a \in Addrs /\ dir[a] \in DirEntry BY <1>1, RspType
<1>3. {} \in SUBSET Counters OBVIOUS
<1>4. CASE FlushedVictimAwaitsCounter
  <2>1. /\ SetDir(a, Recall(dir[a], "I_Evict_Auth")) /\ FetchCounterForEviction(a)
        /\ ParentMissing(a)
    BY <1>4 DEF FlushedVictimAwaitsCounter
  <2>2. FirstMissing(a, InLLC) \in Counters BY <1>2, <2>1, MissingParent
  <2>3. QED BY <1>2, <2>1, <2>2, VictimFindsSlot
<1>5. CASE FlushedVictimWrittenBack
  <2> DEFINE ks == Branch(a, InLLC)
             e == Recall(dir[a], "I_Evicting")
  <2>1. dir' = [Modified(dir, ks) EXCEPT ![a] = e] /\ auth' = auth
    BY <1>5 DEF FlushedVictimWrittenBack
  <2>2. ks \in SUBSET Counters BY <1>2, BranchType
  <2>3. e.st \notin EvictAuth BY <1>2 DEF Recall, EvictAuth, DirEntry
  <2> HIDE DEF ks, e
  <2>4. QED BY <1>2, <2>1, <2>2, <2>3, WaitEntry
<1>6. CASE (ResponseBounce \/ ResponseStall) /\ dir' = dir
  <2>1. auth' = auth BY <1>6 DEF ResponseBounce, ResponseStall
  <2>2. QED BY <1>6, <2>1, WaitKept
<1>7. CASE ResponseBounce /\ dir' # dir
  <2>1. PICK e : SetDir(a, e) /\ e.st = BaseState(dir[a].st) /\ dir[a].st \in FetchAuth
    BY <1>2, <1>7 DEF ResponseBounce, AtResponse, DirEntry
  <2>2. auth' = auth /\ e.st \notin EvictAuth
    BY <1>7, <2>1 DEF ResponseBounce, EvictAuth, FetchAuth, BaseState
  <2>3. QED BY <1>2, <1>3, <2>1, <2>2, WaitEntry
<1>8. CASE TakeBack \/ GrantAfterWriteback \/ GrantAfterFlush
  <2>1. PICK e : SetDir(a, e) /\ e.st \in {"S", "E"}
    <3>1. CASE TakeBack BY <3>1 DEF TakeBack
    <3>2. CASE GrantAfterWriteback
      <4> DEFINE e == [dir[a] EXCEPT !.st = "S", !.wts = Rsp.wts,
                                      !.rts = Max2(Rsp.rts, Max2(Rsp.wts + Lease, Lease))]
      <4>1. SetDir(a, e) BY <3>2 DEF GrantAfterWriteback
      <4>2. e.st = "S" BY <1>2 DEF DirEntry
      <4> HIDE DEF e
      <4>3. QED BY <4>1, <4>2
    <3>3. CASE GrantAfterFlush BY <3>3 DEF GrantAfterFlush
    <3>4. QED BY <1>8, <3>1, <3>2, <3>3
  <2>2. auth' = auth /\ e.st \notin EvictAuth
    BY <1>8, <2>1 DEF TakeBack, GrantAfterWriteback, GrantAfterFlush, EvictAuth
  <2>3. QED BY <1>2, <1>3, <2>1, <2>2, WaitEntry
<1>9. QED BY <1>4, <1>5, <1>6, <1>7, <1>8 DEF ResponsePort, ResponseStall

\* Replacements park dirty victims whose branch is not complete.
LEMMA ReplacementWaits ==
    ASSUME ResumeSlots < WaiterSlots, TypeInv, WaitInv, SlotsSuffice',
           NEW v \in Addrs, Replacement(v)
    PROVE  WaitInv'
<1>1. dir[v] \in DirEntry /\ {} \in SUBSET Counters BY DEF TypeInv, TypeOK, DirTypeOK
<1>2. CASE EvictAwaitingCounter(v) \/ EvictCounterAwaitingParent(v)
  <2>1. FetchCounterForEviction(v) /\ ReplEvent(v) = "LLC_Repl_Dirty_Auth_Miss"
    BY <1>2 DEF EvictAwaitingCounter, EvictCounterAwaitingParent, Replace
  <2>2. FirstMissing(v, InLLC) \in Counters BY <2>1, AwaitedCounter
  <2>3. \E e : SetDir(v, e) BY <1>2 DEF EvictAwaitingCounter, EvictCounterAwaitingParent
  <2>4. QED BY <2>1, <2>2, <2>3, VictimFindsSlot
<1>3. CASE EvictDirty(v)
  <2> DEFINE ks == Branch(v, InLLC)
             e == [dir[v] EXCEPT !.st = IF dir[v].st = "I" THEN "I_Evicting" ELSE "S_Evicting"]
  <2>1. dir' = [Modified(dir, ks) EXCEPT ![v] = e] /\ auth' = auth BY <1>3 DEF EvictDirty
  <2>2. ks \in SUBSET Counters BY BranchType
  <2>3. e.st \notin EvictAuth BY <1>1 DEF EvictAuth, DirEntry
  <2> HIDE DEF ks, e
  <2>4. QED BY <2>1, <2>2, <2>3, WaitEntry
<1>4. CASE EvictCounter(v) \/ EvictOwnedLine(v)
  <2>1. PICK e : SetDir(v, e) /\ e.st \in {"I_Evicting", "E_Evict_Flush"}
    BY <1>1, <1>4 DEF EvictCounter, EvictOwnedLine, DirEntry
  <2>2. auth' = auth /\ e.st \notin EvictAuth
    BY <1>4, <2>1 DEF EvictCounter, EvictOwnedLine, EvictAuth
  <2>3. QED BY <1>1, <2>1, <2>2, WaitEntry
<1>5. CASE EvictClean(v) \/ ReplacePanic(v)
  <2>1. dir' = dir /\ auth' = auth BY <1>5 DEF EvictClean, ReplacePanic, dirVars
  <2>2. QED BY <2>1, WaitKept
<1>6. QED BY <1>2, <1>3, <1>4, <1>5 DEF Replacement

\* A counter arrives: who waited for it is written back or waits for the next one.
LEMMA CounterDataWaits ==
    ASSUME ResumeSlots < WaiterSlots, TypeInv, OwnInv, MemInv, WaitInv,
           SlotsSuffice, SlotsSuffice', CounterData
    PROVE  WaitInv'
<1> SUFFICES ASSUME NEW h, h = Mem, NEW k, k = h.a PROVE WaitInv' OBVIOUS
<1>1. /\ k \in Counters
      /\ auth' = [p \in Counters |->
                    IF p = k THEN NoAuth
                    ELSE [busy |-> auth[p].busy \/ Wanted(k, p),
                          slot |-> AddWaiters(auth[p].slot, auth[k].slot, Forwarded(k, p))]]
      /\ \A x \in Addrs : /\ x \in Released(k) => dir'[x].st \in Evicting
                          /\ x \notin Released(k) => SameTraffic(dir[x].st, dir'[x].st)
  BY CounterArrives
<1>2. /\ NoAddr \notin Addrs /\ NoAddr \notin Counters
      /\ WaiterSlots \in Nat /\ ResumeSlots \in Nat /\ Slots = 1..WaiterSlots
  BY SetsAssumption, NumbersAssumption DEF Addrs, Slots
<1>3. ASSUME NEW p \in Counters \ {k}
      PROVE  /\ Packed(auth'[p].slot)
             /\ \A s \in Slots : auth[p].slot[s] # NoAddr => auth'[p].slot[s] = auth[p].slot[s]
             /\ \A i \in Forwarded(k, p) : \E s \in Slots : auth'[p].slot[s] = auth[k].slot[i]
  <2> DEFINE S == Forwarded(k, p)
  <2>1. PICK n : n = AddWaiters(auth[p].slot, auth[k].slot, S) OBVIOUS
  <2>2. auth'[p].slot = n BY <1>1, <2>1
  <2>3. Packed(auth[p].slot) /\ Cardinality(Filled(n)) <= ResumeSlots
    BY <2>2 DEF WaitInv, SlotsSuffice
  <2>4. S \in SUBSET Slots /\ \A i \in S : auth[k].slot[i] # NoAddr BY DEF Forwarded
  <2> HIDE DEF S
  <2>5. IsFiniteSet(S) /\ S \in SUBSET Nat
    <3>1. IsFiniteSet(1..WaiterSlots) BY <1>2, FS_Interval
    <3>2. QED BY <1>2, <2>4, <3>1, FS_Subset
  <2>6. /\ Packed(n)
        /\ \A s \in Slots : auth[p].slot[s] # NoAddr => n[s] = auth[p].slot[s]
        /\ \A i \in S : \E s \in Slots : n[s] = auth[k].slot[i]
    <3>1. PICK w, from : w = auth[p].slot /\ from = auth[k].slot OBVIOUS
    <3>2. /\ Packed(w) /\ n = AddWaiters(w, from, S) /\ \A i \in S : from[i] # NoAddr
      BY <2>1, <2>3, <2>4, <3>1
    <3>3. /\ Packed(n)
          /\ \A s \in Slots : w[s] # NoAddr => n[s] = w[s]
          /\ \A i \in S : \E s \in Slots : n[s] = from[i]
      BY <2>3, <2>5, <3>2, AllPlaced
    <3>4. QED BY <3>1, <3>3
  <2>7. QED BY <2>2, <2>6 DEF S
<1>4. Packed(auth'[k].slot)
  <2>1. auth'[k].slot = NoAuth.slot BY <1>1
  <2>2. \A s \in Slots : NoAuth.slot[s] # NoAddr <=> s <= 0 BY <1>2 DEF NoAuth
  <2>3. QED BY <2>1, <2>2, PackedUpTo
<1>5. ASSUME NEW x \in Addrs, dir'[x].st \in EvictAuth
      PROVE  \E p \in Counters, s \in Slots : auth'[p].slot[s] = x
  <2>1. x \notin Released(k) BY <1>1, <1>5 DEF Evicting, EvictAuth
  <2>2. dir[x].st \in EvictAuth BY <1>1, <1>5, <2>1 DEF SameTraffic
  <2>3. PICK p \in Counters, s \in Slots : auth[p].slot[s] = x
    BY <2>2 DEF WaitInv, EachParked
  <2>4. CASE p # k
    <3>1. auth'[p].slot[s] = x BY <1>2, <1>3, <2>3, <2>4
    <3>2. QED BY <3>1
  <2>5. CASE p = k
    <3>1. s <= ResumeSlots
      <4>1. s \in Filled(auth[k].slot) BY <1>2, <2>3, <2>5 DEF Filled
      <4>2. PICK u : u = Cardinality(Filled(auth[k].slot)) OBVIOUS
      <4>3. s \in 1..u /\ u <= ResumeSlots
        BY <1>1, <4>1, <4>2 DEF WaitInv, Packed, SlotsSuffice
      <4>4. u \in Nat
        <5>1. Filled(auth[k].slot) \in SUBSET (1..WaiterSlots) BY <1>2 DEF Filled
        <5>2. IsFiniteSet(Filled(auth[k].slot)) BY <1>2, <5>1, FS_Interval, FS_Subset
        <5>3. QED BY <4>2, <5>2, FS_CardinalityType
      <4>5. QED BY <1>2, <4>3, <4>4
    <3>2. FirstMissing(x, InLLC \cup {k}) # NoAddr BY <2>1, <2>3, <2>5, <3>1 DEF Released
    <3>3. PICK q : q = FirstMissing(x, InLLC \cup {k}) OBVIOUS
    <3>4. q \in Counters BY <3>2, <3>3, FirstMissingType
    <3>5. q # k BY <3>2, <3>3, MissingAncestor
    <3>6. s \in Forwarded(k, q) BY <1>2, <2>3, <2>5, <3>1, <3>3 DEF Forwarded
    <3>7. PICK t \in Slots : auth'[q].slot[t] = auth[k].slot[s] BY <1>3, <3>4, <3>5, <3>6
    <3>8. QED BY <2>3, <2>5, <3>4, <3>7
  <2>6. QED BY <2>4, <2>5
<1>6. \A p \in Counters : Packed(auth'[p].slot) BY <1>3, <1>4
<1>7. QED BY <1>5, <1>6 DEF WaitInv, EachParked

\* The answers of the memory.
LEMMA MemoryPortWaits ==
    ASSUME ResumeSlots < WaiterSlots, TypeInv, OwnInv, MemInv, WaitInv,
           SlotsSuffice, SlotsSuffice', MemoryPort
    PROVE  WaitInv'
<1> SUFFICES ASSUME NEW a, a = Mem.a PROVE WaitInv' OBVIOUS
<1>1. CASE CounterData BY <1>1, CounterDataWaits
<1>2. CASE MemoryPanic
  <2>1. auth' = auth /\ dir' = dir BY <1>2 DEF MemoryPanic, dirVars
  <2>2. QED BY <2>1, WaitKept
<1>3. CASE GrantShared \/ GrantExclusive \/ EvictionDone
  <2>1. memQ # <<>> /\ auth' = auth
    BY <1>3 DEF GrantShared, GrantExclusive, EvictionDone, AtMemory
  <2>2. a \in Addrs /\ dir[a] \in DirEntry /\ {} \in SUBSET Counters BY <2>1, MemHeadType
  <2>3. PICK e : SetDir(a, e) /\ e.st \in {"I", "S", "E"}
    <3>1. CASE GrantShared
      <4> DEFINE e == [dir[a] EXCEPT !.st = "S", !.wts = mts, !.rts = Max2(mts + Lease, tbe[a].lts + Lease)]
      <4>1. SetDir(a, e) BY <3>1 DEF GrantShared
      <4>2. e.st = "S" BY <2>2 DEF DirEntry
      <4> HIDE DEF e
      <4>3. QED BY <4>1, <4>2
    <3>2. CASE GrantExclusive BY <3>2 DEF GrantExclusive
    <3>3. CASE EvictionDone BY <2>2, <3>3 DEF EvictionDone, DirEntry
    <3>4. QED BY <1>3, <3>1, <3>2, <3>3
  <2>4. e.st \notin EvictAuth BY <2>3 DEF EvictAuth
  <2>5. QED BY <2>1, <2>2, <2>3, <2>4, WaitEntry
<1>4. QED BY <1>1, <1>2, <1>3 DEF MemoryPort

\* No step loses a parked victim while the slots suffice.
LEMMA NextWaits ==
    ASSUME ResumeSlots < WaiterSlots, TypeInv, OwnInv, MemInv, WaitInv,
           SlotsSuffice, SlotsSuffice', [Next]_vars
    PROVE  WaitInv'
<1>1. CASE ~DirNext
  <2>1. UNCHANGED <<dir, auth>>
    <3>1. CASE \E c \in Cores : L1Next(c)
      BY <3>1, L1Quiet DEF dirVars
    <3>2. CASE \E a \in Addrs : MemServe(a) BY <3>2 DEF MemServe, dirVars
    <3>3. CASE Stop \/ UNCHANGED vars BY <3>3 DEF Stop, vars, dirVars
    <3>4. QED BY <1>1, <3>1, <3>2, <3>3 DEF Next
  <2>2. QED BY <2>1, WaitKept
<1>2. CASE DirNext
  BY <1>2, RequestPortWaits, ResponsePortWaits, MemoryPortWaits, ReplacementWaits DEF DirNext
<1>3. QED BY <1>1, <1>2

\* Nobody is parked at first.
LEMMA InitWaits == Init => WaitInv
<1> SUFFICES ASSUME Init PROVE WaitInv OBVIOUS
<1>1. /\ dir = [a \in Addrs |-> [st |-> "I", wts |-> 0, rts |-> 0, owner |-> {}]]
      /\ auth = [k \in Counters |-> NoAuth]
  BY DEF Init
<1>2. Slots = 1..WaiterSlots BY DEF Slots
<1>3. ASSUME NEW k \in Counters PROVE Packed(auth[k].slot)
  <2>1. \A s \in Slots : auth[k].slot[s] # NoAddr <=> s <= 0
    BY <1>1, <1>2, NumbersAssumption DEF NoAuth
  <2>2. QED BY <2>1, PackedUpTo
<1>4. EachParked BY <1>1 DEF EachParked, EvictAuth
<1>5. QED BY <1>3, <1>4 DEF WaitInv

\* One slot for each parked victim.
LEMMA WaitersCounted == TypeInv /\ MemInv /\ WaitInv => WaitersParked
<1> SUFFICES ASSUME TypeInv, MemInv, WaitInv, NEW x \in Addrs
             PROVE  Cardinality({w \in Counters \X Slots : auth[w[1]].slot[w[2]] = x})
                      = IF dir[x].st \in EvictAuth THEN 1 ELSE 0
  BY DEF WaitersParked
<1> DEFINE P == {w \in Counters \X Slots : auth[w[1]].slot[w[2]] = x}
<1>1. x # NoAddr BY SetsAssumption
<1>2. CASE dir[x].st \in EvictAuth
  <2>1. PICK k \in Counters, s \in Slots : auth[k].slot[s] = x
    BY <1>2 DEF WaitInv, EachParked
  <2>2. ASSUME NEW w \in P PROVE w = <<k, s>>
    <3>1. PICK p \in Counters, t \in Slots : w = <<p, t>> /\ auth[p].slot[t] = x OBVIOUS
    <3>2. p = k /\ t = s BY <1>1, <2>1, <3>1 DEF MemInv, ParkedInv
    <3>3. QED BY <3>1, <3>2
  <2>3. <<k, s>> \in P BY <2>1
  <2>4. P = {<<k, s>>} BY <2>2, <2>3
  <2> HIDE DEF P
  <2>5. Cardinality(P) = 1 BY <2>4, FS_Singleton
  <2>6. QED BY <1>2, <2>5 DEF P
<1>3. CASE dir[x].st \notin EvictAuth
  <2>1. P = {}
    <3>1. ASSUME NEW k \in Counters, NEW s \in Slots, auth[k].slot[s] = x PROVE FALSE
      BY <1>1, <1>3, <3>1 DEF MemInv, ParkedInv
    <3>2. QED BY <3>1
  <2> HIDE DEF P
  <2>2. Cardinality(P) = 0 BY <2>1, FS_EmptySet
  <2>3. QED BY <1>3, <2>2 DEF P
<1>4. QED BY <1>2, <1>3

\* As long as no counter ever has more waiters than resumeEvictions looks at, no
\* parked victim is forgotten, and none is written back twice.
THEOREM NobodyForgotten ==
    ASSUME ResumeSlots < WaiterSlots
    PROVE  Spec /\ []SlotsSuffice => []WaitersParked
<1>1. Init => WaitInv BY InitWaits
<1>2. TypeInv /\ OwnInv /\ MemInv /\ WaitInv /\ SlotsSuffice /\ SlotsSuffice' /\ [Next]_vars
        => WaitInv'
  BY NextWaits
<1>3. TypeInv /\ MemInv /\ WaitInv => WaitersParked BY WaitersCounted
<1>4. QED BY <1>1, <1>2, <1>3, TypeCorrect, OwnershipInvariant, MemoryInvariant, PTL DEF Spec

\* Slots suffice when there are no more lines than resumeEvictions looks at.
LEMMA FewLines ==
    ASSUME TypeInv, MemInv, Cardinality(Addrs) <= ResumeSlots
    PROVE  SlotsSuffice
<1> SUFFICES ASSUME NEW k \in Counters
             PROVE  Cardinality(Filled(auth[k].slot)) <= ResumeSlots
  BY DEF SlotsSuffice
<1> DEFINE F == Filled(auth[k].slot)
           f == [s \in F |-> auth[k].slot[s]]
<1>1. IsFiniteSet(Addrs) BY SetsAssumption, FS_Union DEF Addrs
<1>2. \A s \in F : s \in Slots /\ auth[k].slot[s] \in Addrs /\ auth[k].slot[s] # NoAddr
  BY DEF Filled, TypeInv, TypeOK, DirTypeOK, AuthTBE
<1>3. f \in Injection(F, Addrs)
  BY <1>2 DEF Injection, IsInjective, MemInv, ParkedInv
<1>4. IsFiniteSet(F) /\ Cardinality(F) <= Cardinality(Addrs) BY <1>1, <1>3, FS_Injection
<1>5. Cardinality(F) \in Nat /\ Cardinality(Addrs) \in Nat /\ ResumeSlots \in Nat
  BY <1>1, <1>4, FS_CardinalityType, NumbersAssumption
<1>6. QED BY <1>4, <1>5

\* So a system of few lines never forgets one.
THEOREM FewNeverForgotten ==
    ASSUME Cardinality(Addrs) <= ResumeSlots, ResumeSlots < WaiterSlots
    PROVE  Spec => []WaitersParked
<1>1. TypeInv /\ MemInv => SlotsSuffice BY FewLines
<1>2. Spec => []SlotsSuffice BY <1>1, TypeCorrect, MemoryInvariant, PTL
<1>3. QED BY <1>2, NobodyForgotten, PTL

-----------------------------------------------------------------------------
(* Requests put aside (WaitersAreAwaited): the counter they wait for is    *)
(* read, until it arrives or until it is evicted again before they have    *)
(* been tried.                                                             *)

\* A step evicts no counter from the LLC.
CountersStay == \A q \in Counters : q \in InLLC => (q \in InLLC)'

\* A counter is awaited for each line whose requests wait for it, and for the requests.
AwaitInv ==
    /\ waitQ # {} => \E q \in Counters : auth[q].busy
    /\ \A x \in Lines : dir[x].st \in FetchAuth /\ ParentMissing(x) => auth[Parent(x)].busy

\* A missing parent is a counter other than the line, and was missing before.
LEMMA MissingType ==
    ASSUME NEW x \in Addrs, ParentMissing(x)
    PROVE  Parent(x) \in Counters /\ Parent(x) # x
<1>1. Parent(x) \in Counters BY ParentType DEF ParentMissing
<1>2. CASE Parent(x) = x
  <2>1. Path[x] \in Seq(Counters) /\ Path[x] # <<>> /\ Head(Path[x]) = x
    BY <1>1, <1>2, PathType DEF Parent
  <2>2. Path[x] = Tail(Path[x]) BY <2>1, TreeAssumption
  <2>3. PICK n \in Nat : n = Len(Path[x]) BY <2>1
  <2>4. Len(Tail(Path[x])) = n - 1 BY <2>1, <2>3
  <2>5. Len(Tail(Path[x])) = n BY <2>2, <2>3, Zenon
  <2>6. n = n - 1 BY <2>4, <2>5
  <2>7. QED BY <2>3, <2>6
<1>3. QED BY <1>1, <1>2

LEMMA MissingBefore ==
    ASSUME CountersStay, NEW x \in Addrs, ParentMissing(x)'
    PROVE  ParentMissing(x) /\ Parent(x)' = Parent(x) /\ Parent(x) \in Counters
<1>1. Parent(x)' = Parent(x) BY DEF Parent
<1>2. Parent(x) # NoAddr /\ Parent(x) \notin InLLC' BY <1>1 DEF ParentMissing
<1>3. Parent(x) \in Counters BY <1>2, ParentType
<1>4. Parent(x) \notin InLLC BY <1>2, <1>3 DEF CountersStay
<1>5. QED BY <1>1, <1>2, <1>3, <1>4 DEF ParentMissing

\* Steps that put no request aside and give up no counter.
LEMMA AwaitKept ==
    ASSUME TypeInv, AwaitInv, CountersStay, waitQ' \subseteq waitQ,
           \A q \in Counters : auth[q].busy => auth'[q].busy,
           \A x \in Lines : dir'[x].st \in FetchAuth => dir[x].st \in FetchAuth
    PROVE  AwaitInv'
<1>1. waitQ' # {} => \E q \in Counters : auth'[q].busy BY DEF AwaitInv
<1>2. ASSUME NEW x \in Lines, dir'[x].st \in FetchAuth, ParentMissing(x)'
      PROVE  auth'[Parent(x)'].busy
  <2>1. x \in Addrs BY DEF Addrs
  <2>2. ParentMissing(x) /\ Parent(x)' = Parent(x) /\ Parent(x) \in Counters
    BY <1>2, <2>1, MissingBefore
  <2>3. auth[Parent(x)].busy BY <1>2, <2>2 DEF AwaitInv
  <2>4. QED BY <2>2, <2>3
<1>3. QED BY <1>1, <1>2 DEF AwaitInv

\* One entry of the directory changes, and perhaps those of counters.
LEMMA AwaitEntry ==
    ASSUME TypeInv, AwaitInv, CountersStay, waitQ' \subseteq waitQ,
           \A q \in Counters : auth[q].busy => auth'[q].busy,
           NEW a \in Addrs, NEW e, NEW ks \in SUBSET Counters,
           e.st \in FetchAuth => dir[a].st \in FetchAuth,
           dir' = [Modified(dir, ks) EXCEPT ![a] = e] \/ SetDir(a, e)
    PROVE  AwaitInv'
<1>1. dir \in [Addrs -> DirEntry] BY DEF TypeInv, TypeOK, DirTypeOK
<1>2. ASSUME NEW x \in Lines, dir'[x].st \in FetchAuth PROVE dir[x].st \in FetchAuth
  <2>1. x \in Addrs /\ x \notin ks BY SetsAssumption DEF Addrs
  <2>2. CASE x = a
    <3>1. dir'[x] = e BY <1>1, <2>1, <2>2 DEF SetDir, Modified
    <3>2. QED BY <1>2, <2>2, <3>1
  <2>3. CASE x # a
    <3>1. dir'[x] = dir[x] BY <1>1, <2>1, <2>3 DEF SetDir, Modified
    <3>2. QED BY <1>2, <3>1
  <2>4. QED BY <2>2, <2>3
<1>3. QED BY <1>2, AwaitKept

\* A victim that waits for a counter keeps the others under way.
LEMMA VictimKeepsBusy ==
    ASSUME TypeInv, NEW v, FetchCounterForEviction(v)
    PROVE  \A q \in Counters : auth[q].busy => auth'[q].busy
<1>1. PICK k, w : auth' = [auth EXCEPT ![k] = [busy |-> TRUE, slot |-> w]]
  BY DEF FetchCounterForEviction
<1>2. auth \in [Counters -> AuthTBE] BY DEF TypeInv, TypeOK, DirTypeOK
<1>3. QED BY <1>1, <1>2

\* Requests are put aside for a counter that has been asked for.
LEMMA RequestPortAwaits == ASSUME TypeInv, AwaitInv, CountersStay, RequestPort PROVE AwaitInv'
<1> SUFFICES ASSUME NEW a, a = Req.a PROVE AwaitInv' OBVIOUS
<1>1. CASE RequestPanic
  <2>1. auth' = auth /\ dir' = dir /\ waitQ' = waitQ
    BY <1>1 DEF RequestPanic, dirVars, chanVars
  <2>2. QED BY <2>1, AwaitKept
<1>2. CASE ~RequestPanic
  <2>1. reqQ # <<>>
    BY <1>2 DEF RequestPort, FetchFromMemory, HitShared, HitExclusive, UpgradeOwner,
       WritebackOwner, FlushOwner, AuthMiss, AuthWait, Bounce, RequestStall, AtRequest
  <2>2. /\ a \in Lines /\ a \in Addrs /\ dir[a] \in DirEntry
        /\ Reserved \in DirEntry /\ Reserved.st = dir[a].st
    BY <2>1, ReqType
  <2>3. {} \in SUBSET Counters OBVIOUS
  <2>4. CASE AuthMiss
    <3>1. /\ ParentMissing(a) /\ auth' = [auth EXCEPT ![Parent(a)] = [@ EXCEPT !.busy = TRUE]]
          /\ \E e : SetDir(a, e)
      BY <2>4 DEF AuthMiss, AtRequest, ReqEvent, FetchCounterIfNeeded
    <3>2. Parent(a) \in Counters BY <2>2, <3>1, MissingType
    <3>3. /\ auth'[Parent(a)].busy
          /\ \A q \in Counters : auth[q].busy => auth'[q].busy
      <4>1. auth \in [Counters -> AuthTBE] BY DEF TypeInv, TypeOK, DirTypeOK
      <4>2. QED BY <3>1, <3>2, <4>1 DEF AuthTBE
    <3>4. ASSUME NEW x \in Lines, dir'[x].st \in FetchAuth, ParentMissing(x)'
          PROVE  auth'[Parent(x)'].busy
      <4>1. x \in Addrs BY DEF Addrs
      <4>2. ParentMissing(x) /\ Parent(x)' = Parent(x) /\ Parent(x) \in Counters
        BY <3>4, <4>1, MissingBefore
      <4>3. CASE x = a BY <3>3, <4>2, <4>3
      <4>4. CASE x # a
        <5>1. dir'[x].st = dir[x].st BY <2>2, <3>1, <4>1, <4>4, OneEntry
        <5>2. auth[Parent(x)].busy BY <3>4, <4>2, <5>1 DEF AwaitInv
        <5>3. QED BY <3>3, <4>2, <5>2
      <4>5. QED BY <4>3, <4>4
    <3>5. QED BY <3>2, <3>3, <3>4 DEF AwaitInv
  <2>5. CASE AuthWait
    <3>1. /\ ParentMissing(a) /\ dir[a].st \in FetchAuth /\ auth' = auth
          /\ SetDir(a, Reserved)
      BY <2>5 DEF AuthWait, AtRequest, ReqEvent
    <3>2. auth'[Parent(a)].busy /\ Parent(a) \in Counters
      BY <2>2, <3>1, MissingType DEF AwaitInv
    <3>3. ASSUME NEW x \in Lines, dir'[x].st \in FetchAuth, ParentMissing(x)'
          PROVE  auth'[Parent(x)'].busy
      <4>1. x \in Addrs BY DEF Addrs
      <4>2. ParentMissing(x) /\ Parent(x)' = Parent(x)
        BY <3>3, <4>1, MissingBefore
      <4>3. CASE x = a BY <3>2, <4>2, <4>3
      <4>4. CASE x # a
        <5>1. dir'[x].st = dir[x].st BY <2>2, <3>1, <4>1, <4>4, OneEntry
        <5>2. QED BY <3>1, <3>3, <4>2, <5>1 DEF AwaitInv
      <4>5. QED BY <4>3, <4>4
    <3>4. QED BY <3>2, <3>3 DEF AwaitInv
  <2>6. CASE ~AuthMiss /\ ~AuthWait
    <3>1. auth' = auth /\ waitQ' = waitQ
      BY <1>2, <2>6 DEF RequestPort, FetchFromMemory, HitShared, HitExclusive, UpgradeOwner,
         WritebackOwner, FlushOwner, Bounce, RequestStall, PopRequest, chanVars
    <3>2. \E e : SetDir(a, e) /\ (e.st \in FetchAuth => e.st = dir[a].st)
      <4>1. CASE FetchFromMemory
        <5>1. PICK e : SetDir(a, e) /\ e.st \in {"IS", "IE", "SE"}
          BY <2>2, <4>1 DEF FetchFromMemory, DirEntry
        <5>2. QED BY <5>1 DEF FetchAuth
      <4>2. CASE HitShared
        <5> DEFINE e == [Reserved EXCEPT !.st = "S", !.wts = mts, !.rts = mts]
        <5>1. SetDir(a, e) BY <4>2 DEF HitShared
        <5>2. e.st = "S" BY <2>2 DEF DirEntry
        <5> HIDE DEF e
        <5>3. QED BY <5>1, <5>2 DEF FetchAuth
      <4>3. CASE HitExclusive
        <5>1. PICK e : SetDir(a, e) /\ e.st = "E" BY <4>3 DEF HitExclusive
        <5>2. QED BY <5>1 DEF FetchAuth
      <4>4. CASE UpgradeOwner
        <5> DEFINE e == [dir[a] EXCEPT !.st = "E", !.owner = dir[a].owner \cup {Req.from}]
        <5>1. SetDir(a, e) BY <4>4 DEF UpgradeOwner
        <5>2. e.st = "E" BY <2>2 DEF DirEntry
        <5> HIDE DEF e
        <5>3. QED BY <5>1, <5>2 DEF FetchAuth
      <4>5. CASE WritebackOwner
        <5> DEFINE e == Recall(Reserved, "ES")
        <5>1. SetDir(a, e) BY <4>5 DEF WritebackOwner
        <5>2. e.st = "ES" BY <2>2 DEF DirEntry, Recall
        <5> HIDE DEF e
        <5>3. QED BY <5>1, <5>2 DEF FetchAuth
      <4>6. CASE FlushOwner
        <5> DEFINE e == Recall(dir[a], "EE")
        <5>1. SetDir(a, e) BY <4>6 DEF FlushOwner
        <5>2. e.st = "EE" BY <2>2 DEF DirEntry, Recall
        <5> HIDE DEF e
        <5>3. QED BY <5>1, <5>2 DEF FetchAuth
      <4>7. CASE Bounce
        <5>1. PICK e : SetDir(a, e) /\ e.st = BaseState(dir[a].st) /\ dir[a].st \in FetchAuth
          BY <2>2, <4>7 DEF Bounce, AtRequest, DirEntry
        <5>2. QED BY <5>1 DEF FetchAuth, BaseState
      <4>8. CASE RequestStall BY <2>2, <4>8 DEF RequestStall
      <4>9. QED
        BY <1>2, <2>6, <4>1, <4>2, <4>3, <4>4, <4>5, <4>6, <4>7, <4>8 DEF RequestPort
    <3>3. PICK e : SetDir(a, e) /\ (e.st \in FetchAuth => e.st = dir[a].st) BY <3>2
    <3>4. QED BY <2>2, <2>3, <3>1, <3>3, AwaitEntry
  <2>7. QED BY <2>4, <2>5, <2>6
<1>3. QED BY <1>1, <1>2

\* Responses put no request aside.
LEMMA ResponsePortAwaits ==
    ASSUME TypeInv, AwaitInv, CountersStay, ResponsePort PROVE AwaitInv'
<1> SUFFICES ASSUME NEW a, a = Rsp.a PROVE AwaitInv' OBVIOUS
<1>1. rspQ # <<>>
  BY DEF ResponsePort, TakeBack, GrantAfterWriteback, GrantAfterFlush, FlushedVictimWrittenBack,
     FlushedVictimAwaitsCounter, FlushedVictim, ResponseBounce, ResponseStall, AtResponse
<1>2. a \in Addrs /\ dir[a] \in DirEntry /\ {} \in SUBSET Counters BY <1>1, RspType
<1>3. waitQ' = waitQ
  BY DEF ResponsePort, TakeBack, GrantAfterWriteback, GrantAfterFlush, FlushedVictimWrittenBack,
     FlushedVictimAwaitsCounter, FlushedVictim, ResponseBounce, ResponseStall, chanVars
<1>4. CASE FlushedVictimAwaitsCounter
  <2> DEFINE e == Recall(dir[a], "I_Evict_Auth")
  <2>1. SetDir(a, e) /\ FetchCounterForEviction(a) BY <1>4 DEF FlushedVictimAwaitsCounter
  <2>2. e.st \notin FetchAuth BY <1>2 DEF Recall, FetchAuth, DirEntry
  <2>3. \A q \in Counters : auth[q].busy => auth'[q].busy BY <2>1, VictimKeepsBusy
  <2> HIDE DEF e
  <2>4. QED BY <1>2, <1>3, <2>1, <2>2, <2>3, AwaitEntry
<1>5. CASE FlushedVictimWrittenBack
  <2> DEFINE ks == Branch(a, InLLC)
             e == Recall(dir[a], "I_Evicting")
  <2>1. dir' = [Modified(dir, ks) EXCEPT ![a] = e] /\ auth' = auth
    BY <1>5 DEF FlushedVictimWrittenBack
  <2>2. ks \in SUBSET Counters BY <1>2, BranchType
  <2>3. e.st \notin FetchAuth BY <1>2 DEF Recall, FetchAuth, DirEntry
  <2> HIDE DEF ks, e
  <2>4. QED BY <1>2, <1>3, <2>1, <2>2, <2>3, AwaitEntry
<1>6. CASE (ResponseBounce \/ ResponseStall) /\ dir' = dir
  <2>1. auth' = auth BY <1>6 DEF ResponseBounce, ResponseStall
  <2>2. QED BY <1>3, <1>6, <2>1, AwaitKept
<1>7. CASE ResponseBounce /\ dir' # dir
  <2>1. PICK e : SetDir(a, e) /\ e.st = BaseState(dir[a].st) /\ dir[a].st \in FetchAuth
    BY <1>2, <1>7 DEF ResponseBounce, AtResponse, DirEntry
  <2>2. auth' = auth BY <1>7 DEF ResponseBounce
  <2>3. QED BY <1>2, <1>3, <2>1, <2>2, AwaitEntry
<1>8. CASE TakeBack \/ GrantAfterWriteback \/ GrantAfterFlush
  <2>1. PICK e : SetDir(a, e) /\ e.st \in {"S", "E"}
    <3>1. CASE TakeBack BY <3>1 DEF TakeBack
    <3>2. CASE GrantAfterWriteback
      <4> DEFINE e == [dir[a] EXCEPT !.st = "S", !.wts = Rsp.wts,
                                      !.rts = Max2(Rsp.rts, Max2(Rsp.wts + Lease, Lease))]
      <4>1. SetDir(a, e) BY <3>2 DEF GrantAfterWriteback
      <4>2. e.st = "S" BY <1>2 DEF DirEntry
      <4> HIDE DEF e
      <4>3. QED BY <4>1, <4>2
    <3>3. CASE GrantAfterFlush BY <3>3 DEF GrantAfterFlush
    <3>4. QED BY <1>8, <3>1, <3>2, <3>3
  <2>2. auth' = auth /\ e.st \notin FetchAuth
    BY <1>8, <2>1 DEF TakeBack, GrantAfterWriteback, GrantAfterFlush, FetchAuth
  <2>3. QED BY <1>2, <1>3, <2>1, <2>2, AwaitEntry
<1>9. QED BY <1>4, <1>5, <1>6, <1>7, <1>8 DEF ResponsePort, ResponseStall

\* The counter that arrives is in the LLC.
LEMMA CounterCached ==
    ASSUME TypeInv, CounterData, NEW h, h = Mem, NEW k, k = h.a
    PROVE  k \in Counters /\ \A x \in Addrs : llc'[x].st = "none" => x # k /\ llc[x].st = "none"
<1> DEFINE dirty == UNION {Branch(x, InLLC \cup {k}) : x \in Released(k)}
           cached == [llc EXCEPT ![k] = [st |-> "clean", val |-> h.val]]
<1>1. memQ # <<>> /\ k \in Counters BY DEF CounterData, AtMemory
<1>2. llc' = Dirtied(cached, dirty) BY Zenon DEF CounterData
<1>3. llc \in [Addrs -> LLCEntry] /\ h.val \in Nat /\ k \in Addrs
  BY <1>1, MemHeadType DEF TypeInv, TypeOK, DirTypeOK
<1>4. cached \in [Addrs -> LLCEntry] BY <1>3 DEF LLCEntry
<1>5. \A x \in Addrs : cached[x].st = IF x = k THEN "clean" ELSE llc[x].st BY <1>3
<1> HIDE DEF cached, dirty
<1>6. ASSUME NEW x \in Addrs
      PROVE  llc'[x].st = IF x \in dirty THEN "dirty" ELSE cached[x].st
  BY <1>2, <1>4, DirtiedEntry
<1>7. ASSUME NEW x \in Addrs, llc'[x].st = "none" PROVE x # k /\ llc[x].st = "none"
  BY <1>5, <1>6, <1>7
<1>8. QED BY <1>1, <1>7

\* A counter that arrives is awaited no longer by the lines below it; the requests are
\* woken, or its parent is asked for.
LEMMA CounterDataAwaits ==
    ASSUME TypeInv, OwnInv, MemInv, AwaitInv, CountersStay, CounterData
    PROVE  AwaitInv'
<1> SUFFICES ASSUME NEW h, h = Mem, NEW k, k = h.a PROVE AwaitInv' OBVIOUS
<1>1. /\ k \in Counters /\ auth[k].busy
      /\ auth' = [p \in Counters |->
                    IF p = k THEN NoAuth
                    ELSE [busy |-> auth[p].busy \/ Wanted(k, p),
                          slot |-> AddWaiters(auth[p].slot, auth[k].slot, Forwarded(k, p))]]
      /\ \A x \in Lines : /\ x \in Released(k) => dir'[x].st \in Evicting
                          /\ x \notin Released(k) => dir'[x] = dir[x]
  BY CounterArrives, SetsAssumption DEF Addrs
<1>2. \A p \in Counters \ {k} : auth'[p].busy <=> (auth[p].busy \/ Wanted(k, p)) BY <1>1
<1>3. waitQ' # {} => \E q \in Counters : auth'[q].busy
  <2>1. CASE ParentMissing(k)
    <3>1. k \in Addrs BY <1>1 DEF Addrs
    <3>2. Parent(k) \in Counters \ {k} BY <2>1, <3>1, MissingType
    <3>3. Wanted(k, Parent(k)) BY <2>1 DEF Wanted, ParentMissing
    <3>4. auth'[Parent(k)].busy BY <1>2, <3>2, <3>3
    <3>5. QED BY <3>2, <3>4
  <2>2. CASE ~ParentMissing(k)
    <3>1. waitQ' = waitQ \ {r \in waitQ : r.a \in Lines} BY <2>2 DEF CounterData, Wake
    <3>2. \A r \in waitQ : r.a \in Lines
      BY DEF TypeInv, TypeOK, BuffersTypeOK, Request
    <3>3. QED BY <3>1, <3>2
  <2>3. QED BY <2>1, <2>2
<1>4. ASSUME NEW x \in Lines, dir'[x].st \in FetchAuth, ParentMissing(x)'
      PROVE  auth'[Parent(x)'].busy
  <2>1. x \in Addrs BY DEF Addrs
  <2>2. ParentMissing(x) /\ Parent(x)' = Parent(x) /\ Parent(x) \in Counters
    BY <1>4, <2>1, MissingBefore
  <2>3. x \notin Released(k) /\ dir'[x] = dir[x] BY <1>1, <1>4 DEF Evicting, FetchAuth
  <2>4. auth[Parent(x)].busy BY <1>4, <2>2, <2>3 DEF AwaitInv
  <2>5. Parent(x) # k
    <3>1. k \in Addrs /\ llc'[k].st # "none" BY <1>1, CounterCached DEF Addrs
    <3>2. k \in InLLC' BY <3>1 DEF InLLC
    <3>3. QED BY <1>4, <2>2, <3>2 DEF ParentMissing
  <2>6. QED BY <1>2, <2>2, <2>4, <2>5
<1>5. QED BY <1>3, <1>4 DEF AwaitInv

\* The answers of the memory.
LEMMA MemoryPortAwaits ==
    ASSUME TypeInv, OwnInv, MemInv, AwaitInv, CountersStay, MemoryPort
    PROVE  AwaitInv'
<1> SUFFICES ASSUME NEW a, a = Mem.a PROVE AwaitInv' OBVIOUS
<1>1. CASE CounterData BY <1>1, CounterDataAwaits
<1>2. CASE MemoryPanic
  <2>1. auth' = auth /\ dir' = dir /\ waitQ' = waitQ BY <1>2 DEF MemoryPanic, dirVars, chanVars
  <2>2. QED BY <2>1, AwaitKept
<1>3. CASE GrantShared \/ GrantExclusive \/ EvictionDone
  <2>1. memQ # <<>> /\ auth' = auth /\ waitQ' \subseteq waitQ
    BY <1>3 DEF GrantShared, GrantExclusive, EvictionDone, AtMemory, Wake
  <2>2. a \in Addrs /\ dir[a] \in DirEntry /\ {} \in SUBSET Counters BY <2>1, MemHeadType
  <2>3. PICK e : SetDir(a, e) /\ e.st \in {"I", "S", "E"}
    <3>1. CASE GrantShared
      <4> DEFINE e == [dir[a] EXCEPT !.st = "S", !.wts = mts,
                                     !.rts = Max2(mts + Lease, tbe[a].lts + Lease)]
      <4>1. SetDir(a, e) BY <3>1 DEF GrantShared
      <4>2. e.st = "S" BY <2>2 DEF DirEntry
      <4> HIDE DEF e
      <4>3. QED BY <4>1, <4>2
    <3>2. CASE GrantExclusive BY <3>2 DEF GrantExclusive
    <3>3. CASE EvictionDone BY <2>2, <3>3 DEF EvictionDone, DirEntry
    <3>4. QED BY <1>3, <3>1, <3>2, <3>3
  <2>4. e.st \notin FetchAuth BY <2>3 DEF FetchAuth
  <2>5. QED BY <2>1, <2>2, <2>3, <2>4, AwaitEntry
<1>4. QED BY <1>1, <1>2, <1>3 DEF MemoryPort

\* Replacements put no request aside.
LEMMA ReplacementAwaits ==
    ASSUME TypeInv, AwaitInv, CountersStay, NEW v \in Addrs, Replacement(v)
    PROVE  AwaitInv'
<1>1. dir[v] \in DirEntry /\ {} \in SUBSET Counters BY DEF TypeInv, TypeOK, DirTypeOK
<1>2. waitQ' = waitQ
  BY DEF Replacement, EvictClean, EvictDirty, EvictCounter, EvictAwaitingCounter,
     EvictCounterAwaitingParent, EvictOwnedLine, ReplacePanic, chanVars
<1>3. CASE EvictAwaitingCounter(v) \/ EvictCounterAwaitingParent(v)
  <2>1. PICK e : SetDir(v, e) /\ e.st \in EvictAuth
    BY <1>1, <1>3 DEF EvictAwaitingCounter, EvictCounterAwaitingParent, EvictAuth, DirEntry
  <2>2. e.st \notin FetchAuth BY <2>1 DEF EvictAuth, FetchAuth
  <2>3. FetchCounterForEviction(v)
    BY <1>3 DEF EvictAwaitingCounter, EvictCounterAwaitingParent
  <2>4. \A q \in Counters : auth[q].busy => auth'[q].busy BY <2>3, VictimKeepsBusy
  <2>5. QED BY <1>1, <1>2, <2>1, <2>2, <2>4, AwaitEntry
<1>4. CASE EvictDirty(v)
  <2> DEFINE ks == Branch(v, InLLC)
             e == [dir[v] EXCEPT !.st = IF dir[v].st = "I" THEN "I_Evicting" ELSE "S_Evicting"]
  <2>1. dir' = [Modified(dir, ks) EXCEPT ![v] = e] /\ auth' = auth BY <1>4 DEF EvictDirty
  <2>2. ks \in SUBSET Counters BY BranchType
  <2>3. e.st \notin FetchAuth BY <1>1 DEF FetchAuth, DirEntry
  <2> HIDE DEF ks, e
  <2>4. QED BY <1>2, <2>1, <2>2, <2>3, AwaitEntry
<1>5. CASE EvictCounter(v) \/ EvictOwnedLine(v)
  <2>1. PICK e : SetDir(v, e) /\ e.st \in {"I_Evicting", "E_Evict_Flush"}
    BY <1>1, <1>5 DEF EvictCounter, EvictOwnedLine, DirEntry
  <2>2. auth' = auth /\ e.st \notin FetchAuth
    BY <1>5, <2>1 DEF EvictCounter, EvictOwnedLine, FetchAuth
  <2>3. QED BY <1>1, <1>2, <2>1, <2>2, AwaitEntry
<1>6. CASE EvictClean(v) \/ ReplacePanic(v)
  <2>1. dir' = dir /\ auth' = auth BY <1>6 DEF EvictClean, ReplacePanic, dirVars
  <2>2. QED BY <1>2, <2>1, AwaitKept
<1>7. QED BY <1>3, <1>4, <1>5, <1>6 DEF Replacement

\* As long as no counter is evicted, no request waits in vain.
LEMMA NextAwaits ==
    ASSUME TypeInv, OwnInv, MemInv, AwaitInv, CountersStay, [Next]_vars
    PROVE  AwaitInv'
<1>1. CASE ~DirNext
  <2>1. UNCHANGED <<dir, auth, waitQ>>
    <3>1. CASE \E c \in Cores : L1Next(c) BY <3>1, L1Quiet DEF dirVars
    <3>2. CASE \E a \in Addrs : MemServe(a) BY <3>2 DEF MemServe, dirVars, chanVars
    <3>3. CASE Stop \/ UNCHANGED vars BY <3>3 DEF Stop, vars, dirVars, chanVars
    <3>4. QED BY <1>1, <3>1, <3>2, <3>3 DEF Next
  <2>2. QED BY <2>1, AwaitKept
<1>2. CASE DirNext
  BY <1>2, RequestPortAwaits, ResponsePortAwaits, MemoryPortAwaits, ReplacementAwaits DEF DirNext
<1>3. QED BY <1>1, <1>2

LEMMA InitAwaits == Init => AwaitInv
<1> SUFFICES ASSUME Init PROVE AwaitInv OBVIOUS
<1>1. waitQ = {} /\ dir = [a \in Addrs |-> [st |-> "I", wts |-> 0, rts |-> 0, owner |-> {}]]
  BY DEF Init
<1>2. \A x \in Lines : dir[x].st = "I" BY <1>1 DEF Addrs
<1>3. QED BY <1>1, <1>2 DEF AwaitInv, FetchAuth

\* The requests put aside are awaited for as long as no counter is evicted from the LLC:
\* the line that made the first of them wait asked for its counter, which is then there
\* (dir.sm, Auth_Miss and checkRecursionAndWakeUp).
THEOREM RequestsAwaited == Spec /\ [][CountersStay]_vars => []WaitersAreAwaited
<1>1. Init => AwaitInv BY InitAwaits
<1>2. TypeInv /\ OwnInv /\ MemInv /\ AwaitInv /\ [Next]_vars /\ [CountersStay]_vars => AwaitInv'
  <2>1. ASSUME UNCHANGED vars PROVE CountersStay
    BY <2>1 DEF vars, dirVars, CountersStay, InLLC
  <2>2. QED BY <2>1, NextAwaits
<1>3. AwaitInv => WaitersAreAwaited BY DEF AwaitInv, WaitersAreAwaited
<1>4. QED BY <1>1, <1>2, <1>3, TypeCorrect, OwnershipInvariant, MemoryInvariant, PTL DEF Spec

\* An LLC with a way for each line evicts nothing.
LEMMA RoomForAll ==
    ASSUME Cardinality(Addrs) <= LLCWays, NEW a \in Addrs
    PROVE  ~NeedsRoom(a)
<1> SUFFICES ASSUME a \notin InLLC, Cardinality(InLLC) >= LLCWays PROVE FALSE BY DEF NeedsRoom
<1>1. IsFiniteSet(Addrs) BY SetsAssumption, FS_Union DEF Addrs
<1>2. InLLC \in SUBSET Addrs BY DEF InLLC
<1>3. /\ IsFiniteSet(InLLC) /\ Cardinality(InLLC) <= Cardinality(Addrs)
      /\ Cardinality(Addrs) = Cardinality(InLLC) => Addrs = InLLC
  BY <1>1, <1>2, FS_Subset
<1>4. Cardinality(InLLC) \in Nat /\ Cardinality(Addrs) \in Nat /\ LLCWays \in Nat
  BY <1>1, <1>3, FS_CardinalityType, NumbersAssumption
<1>5. Cardinality(Addrs) = Cardinality(InLLC) BY <1>3, <1>4
<1>6. QED BY <1>3, <1>5

LEMMA NothingEvicted ==
    ASSUME Cardinality(Addrs) <= LLCWays, TypeInv, [Next]_vars
    PROVE  CountersStay
<1> SUFFICES ASSUME NEW x \in Counters, llc'[x].st = "none" PROVE llc[x].st = "none"
  BY DEF CountersStay, InLLC, Addrs
<1>1. x \in Addrs /\ llc \in [Addrs -> LLCEntry] BY DEF Addrs, TypeInv, TypeOK, DirTypeOK
<1>2. CASE UNCHANGED llc BY <1>2
<1>3. CASE ~DirNext
  <2>1. CASE \E c \in Cores : L1Next(c) BY <1>2, <2>1, L1Quiet DEF dirVars
  <2>2. CASE \E a \in Addrs : MemServe(a) BY <1>2, <2>2 DEF MemServe, dirVars
  <2>3. CASE Stop \/ UNCHANGED vars BY <1>2, <2>3 DEF Stop, vars, dirVars
  <2>4. QED BY <1>3, <2>1, <2>2, <2>3 DEF Next
<1>4. CASE RequestPort
  BY <1>2, <1>4 DEF RequestPort, FetchFromMemory, HitShared, HitExclusive, UpgradeOwner,
     WritebackOwner, FlushOwner, AuthMiss, AuthWait, Bounce, RequestStall, RequestPanic, dirVars
<1>5. CASE ResponsePort
  <2>1. CASE StoreInLLC BY <1>1, <2>1 DEF StoreInLLC
  <2>2. CASE FlushedVictimWrittenBack
    <3>1. llc' = Dirtied(llc, Branch(Rsp.a, InLLC)) BY <2>2 DEF FlushedVictimWrittenBack
    <3>2. llc'[x].st = IF x \in Branch(Rsp.a, InLLC) THEN "dirty" ELSE llc[x].st
      BY <1>1, <3>1, DirtiedEntry
    <3>3. QED BY <3>2
  <2>3. CASE FlushedVictimAwaitsCounter \/ ResponseBounce \/ ResponseStall
    BY <1>2, <2>3 DEF FlushedVictimAwaitsCounter, ResponseBounce, ResponseStall
  <2>4. QED
    BY <1>5, <2>1, <2>2, <2>3 DEF ResponsePort, TakeBack, GrantAfterWriteback, GrantAfterFlush
<1>6. CASE MemoryPort
  <2>1. CASE CounterData BY <1>1, <2>1, CounterCached
  <2>2. CASE \E n : llc' = [llc EXCEPT ![Mem.a] = [st |-> "clean", val |-> n]] BY <1>1, <2>2
  <2>3. CASE EvictionDone \/ MemoryPanic BY <1>2, <2>3 DEF EvictionDone, MemoryPanic, dirVars
  <2>4. QED BY <1>2, <1>6, <2>1, <2>2, <2>3 DEF MemoryPort, GrantShared, GrantExclusive
<1>7. CASE \E v \in Addrs : Replacement(v)
  <2>1. MemoryNeedsRoom \/ ResponseNeedsRoom
    BY <1>7 DEF Replacement, EvictClean, EvictDirty, EvictCounter, EvictAwaitingCounter,
       EvictCounterAwaitingParent, EvictOwnedLine, ReplacePanic, Replace
  <2>2. CASE MemoryNeedsRoom
    <3>1. Mem.a \in Addrs /\ NeedsRoom(Mem.a) BY <2>2, MemHeadType DEF MemoryNeedsRoom
    <3>2. QED BY <3>1, RoomForAll
  <2>3. CASE ResponseNeedsRoom
    <3>1. Rsp.a \in Addrs /\ NeedsRoom(Rsp.a) BY <2>3, RspType DEF ResponseNeedsRoom
    <3>2. QED BY <3>1, RoomForAll
  <2>4. QED BY <2>1, <2>2, <2>3
<1>8. QED BY <1>3, <1>4, <1>5, <1>6, <1>7 DEF DirNext

\* So in a system whose lines all fit the LLC no request waits in vain.
THEOREM RoomyNeverWaits ==
    ASSUME Cardinality(Addrs) <= LLCWays
    PROVE  Spec => []WaitersAreAwaited
<1>1. TypeInv /\ [Next]_vars => CountersStay BY NothingEvicted
<1>2. Spec => [][CountersStay]_vars BY <1>1, TypeCorrect, PTL DEF Spec
<1>3. QED BY <1>2, RequestsAwaited, PTL

-----------------------------------------------------------------------------
(* Versions and leases: the invariants.                                    *)

\* A copy that may be read, or renewed, or upgraded; and what is on its way to
\* become one.  Copies and messages alike have the fields wts, rts and val.
Copying == {"S_LSD", "S_EXP", "SE"}
Copies(x) == {l1[c][x] : c \in {d \in Cores : State(d, x) \in Copying}}
               \cup {m \in RepOf(x) : m.type = "SH_REP"}

\* The latest version of a line: with its owner, on its way back, or at the directory.
OwnersOf(x) == {c \in Cores : State(c, x) = "E"}
Away(x) == OwnersOf(x) # {} \/ BackOf(x) # {}
Home(x) == [wts |-> IF dir[x].st \in AtMts THEN mts ELSE dir[x].wts, val |-> current[x]]
Latest(x) == {l1[c][x] : c \in OwnersOf(x)} \cup BackOf(x) \cup IF Away(x) THEN {} ELSE {Home(x)}

\* Version k is no newer than version n, and is it by its contents as it is by its
\* timestamp.
Before(k, n) == k.wts <= n.wts /\ k.val <= n.val /\ (k.val < n.val => k.wts < n.wts)
SameVersion(k, n) == k.wts = n.wts /\ k.val = n.val

\* A grant under way is of the latest version: with it, or to a core that has it.
GrantMatches(x, m) ==
    /\ m.type = "EX_REP" => m.wts = dir[x].wts /\ m.val = current[x]
    /\ m.type = "UPGR_REP" => /\ l1[m.to][x].wts = dir[x].wts /\ l1[m.to][x].val = current[x]
                              /\ dir[x].wts <= m.rts

\* The copies of a line are versions of it in order, none newer than the latest, which
\* has all stores made to the line.
VersionInv(x) ==
    /\ \A k \in Copies(x), n \in Latest(x) : Before(k, n)
    /\ \A k, n \in Copies(x) : k.val < n.val => k.wts < n.wts
    /\ \A n \in Latest(x) : n.val = written[x]
    /\ \A m \in RepOf(x) : GrantMatches(x, m)

\* The leases of a line: those of the copies, and those on their way to one.
Leases(x) == {k.rts : k \in Copies(x)} \cup {m.rts : m \in {n \in RepOf(x) : n.type = "RENEW_REP"}}

\* They end before the version of the owner begins, or by the time the next version
\* may begin at the earliest, wherever that is written.
LeaseInv(x) ==
    \A r \in Leases(x) :
        /\ \A c \in OwnersOf(x) : r < l1[c][x].wts
        /\ \A b \in BackOf(x) : r <= b.rts
        /\ \A m \in RepOf(x) : IsGrant(m) => r <= m.rts
        /\ ~Away(x) /\ (\A m \in RepOf(x) : ~IsGrant(m)) =>
             \/ dir[x].st \in AtMts /\ r <= mts
             \/ dir[x].st \notin AtMts \ {"IS"} /\ r <= dir[x].rts

\* The numbers of a line.
Numbers(x) ==
    /\ dir[x].wts \in Nat /\ dir[x].rts \in Nat /\ mts \in Nat /\ current[x] \in Nat
    /\ written[x] \in Nat
    /\ \A c \in Cores : l1[c][x].wts \in Nat /\ l1[c][x].rts \in Nat /\ l1[c][x].val \in Nat
    /\ \A m \in RepOf(x) : m.wts \in Nat /\ m.rts \in Nat /\ m.val \in Nat /\ m.to \in Cores
    /\ \A b \in BackOf(x) : b.wts \in Nat /\ b.rts \in Nat /\ b.val \in Nat /\ b.from \in Cores

\* There is one latest version.
OneLatest(x) ==
    /\ Numbers(x)
    /\ \A k \in Copies(x) : k.wts \in Nat /\ k.rts \in Nat /\ k.val \in Nat
    /\ \A n \in Latest(x) : n.wts \in Nat /\ n.val \in Nat
    /\ \A k, n \in Latest(x) : SameVersion(k, n)
    /\ Latest(x) # {}

\* There is one latest version of every line, and its numbers are numbers.
LEMMA LatestIsOne ==
    TypeInv /\ OwnInv => \A x \in Lines : OneLatest(x)
<1> SUFFICES ASSUME TypeInv, OwnInv, NEW x \in Lines PROVE OneLatest(x) OBVIOUS
<1>1. LineInv(x) BY DEF OwnInv
<1>2. Numbers(x)
  <2>1. dir[x] \in DirEntry /\ \A c \in Cores : l1[c][x] \in L1Entry BY ViewTypes
  <2>2. \A m \in RepOf(x) : m \in ToCache /\ m.to \in Cores BY ViewTypes
  <2>3. \A b \in BackOf(x) : b \in FromCache /\ b.from \in Cores BY ViewTypes
  <2>4. mts \in Nat /\ current[x] \in Nat /\ written[x] \in Nat
    BY DEF TypeInv, TypeOK, DirTypeOK, HistoryTypeOK
  <2>5. QED BY <2>1, <2>2, <2>3, <2>4 DEF DirEntry, L1Entry, ToCache, FromCache, Numbers
<1>3. Home(x).wts \in Nat /\ Home(x).val \in Nat BY <1>2 DEF Home, Numbers
<1>4. \A k \in Copies(x) : k.wts \in Nat /\ k.rts \in Nat /\ k.val \in Nat
  BY <1>2 DEF Copies, Numbers
<1> HIDE DEF Home
<1>5. \A n \in Latest(x) : n.wts \in Nat /\ n.val \in Nat
  BY <1>2, <1>3 DEF Latest, OwnersOf, Numbers
<1>6. \A k, n \in Latest(x) : SameVersion(k, n)
  <2>1. /\ \A c, d \in OwnersOf(x) : c = d
        /\ \A b, d \in BackOf(x) : b = d
        /\ OwnersOf(x) = {} \/ BackOf(x) = {}
    BY <1>1 DEF LineInv, OneToken, OwnersOf
  <2>2. QED BY <2>1 DEF Latest, Away, SameVersion
<1>7. Latest(x) # {} BY DEF Latest, Away
<1>8. QED BY <1>2, <1>4, <1>5, <1>6, <1>7 DEF OneLatest

\* The latest version is no older than the latest before, and a copy is an old copy or
\* one of the latest version.
InOrder(x) ==
    /\ \A n \in Latest(x), k \in Latest(x)' : Before(n, k)
    /\ \A k \in Copies(x)' : \/ \E n \in Copies(x) : SameVersion(k, n)
                             \/ \A n \in Latest(x)' : SameVersion(k, n)

\* How a line gets from one set of versions to the next.
LEMMA VersionsStep ==
    ASSUME NEW x \in Lines, VersionInv(x), OneLatest(x), OneLatest(x)',
           InOrder(x),
           \A n \in Latest(x)' : n.val = written'[x],
           \A m \in RepOf(x)' : GrantMatches(x, m)'
    PROVE  VersionInv(x)'
<1>1. PICK n \in Latest(x) : n.wts \in Nat /\ n.val \in Nat /\ \A k \in Latest(x) : SameVersion(k, n)
  BY DEF OneLatest
<1>2. PICK p \in Latest(x)' : p.wts \in Nat /\ p.val \in Nat /\ \A k \in Latest(x)' : SameVersion(k, p)
  BY DEF OneLatest
<1>3. \A k \in Copies(x) : k.wts \in Nat /\ k.val \in Nat /\ Before(k, n)
  BY <1>1 DEF OneLatest, VersionInv
<1>4. Before(n, p) BY <1>1, <1>2 DEF InOrder
<1>5. \A k \in Copies(x)' : k.wts \in Nat /\ k.val \in Nat BY DEF OneLatest
<1>6. \A k \in Copies(x)' : Before(k, p)
  <2> SUFFICES ASSUME NEW k \in Copies(x)' PROVE Before(k, p) OBVIOUS
  <2>1. CASE \E h \in Copies(x) : SameVersion(k, h)
    <3>1. PICK h \in Copies(x) : SameVersion(k, h) BY <2>1
    <3>2. QED BY <1>1, <1>2, <1>3, <1>4, <3>1 DEF Before, SameVersion
  <2>2. CASE \A h \in Latest(x)' : SameVersion(k, h) BY <1>2, <2>2 DEF Before, SameVersion
  <2>3. QED BY <2>1, <2>2 DEF InOrder
<1>7. \A k \in Copies(x)', h \in Latest(x)' : Before(k, h)
  BY <1>2, <1>6 DEF Before, SameVersion
<1>8. ASSUME NEW k \in Copies(x)', NEW h \in Copies(x)', k.val < h.val PROVE k.wts < h.wts
  <2>1. CASE (\E i \in Copies(x) : SameVersion(k, i)) /\ (\E j \in Copies(x) : SameVersion(h, j))
    <3>1. PICK i \in Copies(x), j \in Copies(x) : SameVersion(k, i) /\ SameVersion(h, j) BY <2>1
    <3>2. i.val < j.val => i.wts < j.wts BY DEF VersionInv
    <3>3. QED BY <1>8, <3>1, <3>2 DEF SameVersion
  <2>2. CASE SameVersion(h, p) BY <1>2, <1>5, <1>6, <1>8, <2>2 DEF Before, SameVersion
  <2>3. CASE SameVersion(k, p) BY <1>2, <1>5, <1>6, <1>8, <2>3 DEF Before, SameVersion
  <2>4. QED BY <1>2, <2>1, <2>2, <2>3 DEF InOrder
<1>9. QED BY <1>7, <1>8 DEF VersionInv

-----------------------------------------------------------------------------
(* What a step does to the versions of a line.                             *)

\* A copy that is being upgraded stays what it is.
UpgradersKept(x) ==
    \A c \in Cores : State(c, x) = "SE" /\ l1'[c][x].st = "SE" => SameVersion(l1'[c][x], l1[c][x])

\* No new contents, no new lease.
CopiesPass(x) ==
    /\ \A k \in Copies(x)' : \E n \in Copies(x) : SameVersion(k, n)
    /\ Leases(x)' \subseteq Leases(x)
DirPasses(x) ==
    /\ dir'[x].wts = dir[x].wts /\ dir'[x].rts >= dir[x].rts
    /\ \/ dir'[x].st = "IS"
       \/ dir[x].st # "IS" /\ (dir'[x].st \in AtMts <=> dir[x].st \in AtMts)
Quiet(x) ==
    /\ CopiesPass(x) /\ DirPasses(x)
    /\ \A c \in Cores : /\ l1'[c][x].st = "E" <=> State(c, x) = "E"
                        /\ State(c, x) = "E" => SameVersion(l1'[c][x], l1[c][x])
    /\ BackOf(x)' = BackOf(x)
    /\ \A m : IsGrant(m) => (m \in RepOf(x)' <=> m \in RepOf(x))
    /\ current'[x] = current[x] /\ written'[x] = written[x] /\ mts' >= mts

\* A store to the line, by its owner or by the core a grant makes the owner.
StoredBy(c, x) ==
    /\ l1'[c][x].st = "E" /\ \A d \in Cores \ {c} : l1'[d][x] = l1[d][x]
    /\ \/ /\ State(c, x) = "E" /\ l1'[c][x].val = l1[c][x].val + 1 /\ l1'[c][x].wts > l1[c][x].rts
          /\ RepOf(x)' = RepOf(x)
       \/ \E m \in RepOf(x) :
            /\ IsGrant(m) /\ m.to = c /\ RepOf(x)' = RepOf(x) \ {m}
            /\ l1'[c][x].val = (IF m.type = "EX_REP" THEN m.val ELSE l1[c][x].val) + 1
            /\ l1'[c][x].wts > m.rts \/ ExRepUpgrade(c, m)
    /\ BackOf(x)' = BackOf(x) /\ dir'[x] = dir[x] /\ mts' = mts
    /\ current'[x] = current[x] /\ written'[x] = written[x] + 1

\* The owner hands the line back, and keeps a lease or not.
HandedBackBy(c, b, x) ==
    /\ State(c, x) = "E" /\ l1'[c][x].st \in {"EI", "S_LSD"}
    /\ SameVersion(b, l1[c][x]) /\ SameVersion(l1'[c][x], b)
    /\ l1'[c][x].st = "S_LSD" => l1'[c][x].rts = b.rts
    /\ \A d \in Cores \ {c} : l1'[d][x] = l1[d][x]
    /\ BackOf(x)' = BackOf(x) \cup {b} /\ RepOf(x)' = RepOf(x)
    /\ dir'[x] = dir[x] /\ mts' = mts
    /\ current'[x] = current[x] /\ written'[x] = written[x]

\* The directory gets it back, and may pass it on.
Returned(b, x) ==
    /\ b \in BackOf(x) /\ BackOf(x)' = BackOf(x) \ {b}
    /\ \A c \in Cores : l1'[c][x] = l1[c][x]
    /\ current'[x] = b.val /\ written'[x] = written[x]
    /\ mts' >= mts /\ mts' >= b.rts
    /\ \/ /\ dir'[x].wts = b.wts /\ dir'[x].st \notin AtMts /\ dir'[x].rts >= b.rts
          /\ \E m : /\ RepOf(x)' = RepOf(x) \cup {m}
                    /\ \/ m.type = "ACK_REP"
                       \/ m.type = "SH_REP" /\ SameVersion(m, b) /\ m.rts = dir'[x].rts
                       \/ m.type = "EX_REP" /\ SameVersion(m, b) /\ m.rts = b.rts
       \/ /\ dir'[x].st \in AtMts \ {"IS"} /\ RepOf(x)' = RepOf(x)
          /\ dir'[x].wts = dir[x].wts

\* The directory gives a version of its own to a core, under a new lease or for good.
LeaseCut(x) ==
    \/ x = Req.a /\ dir[x].st = "S" /\ (HitShared \/ HitExclusive)
    \/ x = Mem.a /\ dir[x].st # "IE" /\ (GrantShared \/ GrantExclusive)
Given(m, x) ==
    /\ dir[x].st \notin OutStates /\ dir'[x].st \notin AtMts
    /\ \A c \in Cores : l1'[c][x] = l1[c][x]
    /\ RepOf(x)' = RepOf(x) \cup {m} /\ BackOf(x)' = BackOf(x)
    /\ current'[x] = current[x] /\ written'[x] = written[x] /\ mts' = mts
    /\ \/ /\ dir'[x].wts = mts /\ dir'[x].rts >= mts /\ m.rts = dir'[x].rts
          /\ dir'[x].rts >= dir[x].rts \/ dir[x].st \in AtMts \ {"IS"} \/ LeaseCut(x)
          /\ \/ m.type = "RENEW_REP"
             \/ m.type \in {"SH_REP", "EX_REP"} /\ m.wts = mts /\ m.val = current[x]
       \/ /\ dir[x].st = "S" /\ dir'[x].wts = dir[x].wts /\ dir'[x].rts = dir[x].rts
          /\ m.type = "UPGR_REP" /\ m.rts = dir[x].rts
          /\ m.to \in Cores /\ State(m.to, x) = "SE" /\ l1[m.to][x].wts = dir[x].wts

\* All that happens to a line.
LineMoves(x) ==
    \/ Quiet(x)
    \/ \E c \in Cores : StoredBy(c, x) \/ \E b : HandedBackBy(c, b, x)
    \/ \E b : Returned(b, x)
    \/ \E m : Given(m, x)

\* The stamps the directory goes by: its own is never ahead of mts, and an upgrade is
\* asked for with the timestamp of the copy.
StampInv(x) ==
    /\ dir[x].wts <= mts
    /\ \A r \in OpenOf(x) : r.type = "EX_REQ" /\ r.wts > 0 => l1[r.from][x].wts = r.wts

-----------------------------------------------------------------------------
(* The versions stay in order.                                             *)

\* Versions stay in order in a step that makes none and grants none.
LEMMA QuietVersions ==
    ASSUME NEW x \in Lines, VersionInv(x), StampInv(x), OneLatest(x), OneLatest(x)',
           LineInv(x), LineInv(x)', Quiet(x), UpgradersKept(x)
    PROVE  VersionInv(x)' /\ InOrder(x)
<1>1. OwnersOf(x)' = OwnersOf(x) BY DEF Quiet, OwnersOf, State
<1>2. Away(x)' <=> Away(x) BY <1>1 DEF Quiet, Away
<1>3. Home(x)'.wts >= Home(x).wts /\ Home(x)'.val = Home(x).val
  BY DEF Quiet, DirPasses, Home, StampInv, OneLatest, Numbers, AtMts
<1>4. \A k \in Latest(x)' : \E n \in Latest(x) : k.wts >= n.wts /\ k.val = n.val
  <2> SUFFICES ASSUME NEW k \in Latest(x)' PROVE \E n \in Latest(x) : k.wts >= n.wts /\ k.val = n.val
    OBVIOUS
  <2>1. CASE \E c \in OwnersOf(x) : k = l1'[c][x]
    <3>1. PICK c \in OwnersOf(x) : k = l1'[c][x] BY <2>1
    <3>2. c \in Cores /\ State(c, x) = "E" /\ l1[c][x] \in Latest(x) BY DEF OwnersOf, Latest
    <3>3. SameVersion(k, l1[c][x]) BY <3>1, <3>2 DEF Quiet
    <3>4. l1[c][x].wts \in Nat BY <3>2 DEF OneLatest, Numbers
    <3>5. QED BY <3>2, <3>3, <3>4 DEF SameVersion
  <2>2. CASE k \in BackOf(x)
    BY <2>2 DEF Latest, OneLatest
  <2>3. CASE ~Away(x) /\ k = Home(x)'
    <3> HIDE DEF Home
    <3>1. QED BY <1>3, <2>3 DEF Latest
  <2>4. QED BY <1>1, <1>2, <2>1, <2>2, <2>3 DEF Latest, Quiet
<1>5. \A n \in Latest(x), k \in Latest(x)' : Before(n, k)
  <2> SUFFICES ASSUME NEW n \in Latest(x), NEW k \in Latest(x)' PROVE Before(n, k) OBVIOUS
  <2>1. PICK h \in Latest(x) : k.wts >= h.wts /\ k.val = h.val BY <1>4
  <2>2. SameVersion(n, h) /\ n.wts \in Nat /\ h.wts \in Nat /\ n.val \in Nat /\ k.wts \in Nat
    BY DEF OneLatest
  <2>3. QED BY <2>1, <2>2 DEF Before, SameVersion
<1>6. \A n \in Latest(x)' : n.val = written'[x] BY <1>4 DEF VersionInv, Quiet
<1>7. \A m \in RepOf(x)' : GrantMatches(x, m)'
  <2> SUFFICES ASSUME NEW m \in RepOf(x)', IsGrant(m) PROVE GrantMatches(x, m)'
    BY DEF GrantMatches, IsGrant
  <2>1. m \in RepOf(x) /\ GrantMatches(x, m) BY DEF Quiet, VersionInv
  <2>2. m.type = "UPGR_REP" => State(m.to, x) = "SE" /\ l1'[m.to][x].st = "SE" /\ m.to \in Cores
    <3>1. ASSUME m.type = "UPGR_REP" PROVE State(m.to, x) = "SE" /\ State(m.to, x)' = "SE"
      BY <2>1, <3>1 DEF LineInv, RepliesMatch, Awaited
    <3>2. QED BY <2>1, <3>1 DEF State, OneLatest, Numbers
  <2>3. QED BY <2>1, <2>2 DEF GrantMatches, Quiet, DirPasses, UpgradersKept, SameVersion
<1>8. InOrder(x) BY <1>5 DEF InOrder, Quiet, CopiesPass
<1>9. QED BY <1>6, <1>7, <1>8, VersionsStep

\* A store makes a version newer than all there were, if its timestamp is.
LEMMA StoredVersions ==
    ASSUME NEW x \in Lines, VersionInv(x), StampInv(x), OneLatest(x), OneLatest(x)',
           LineInv(x), LineInv(x)', NEW c \in Cores, StoredBy(c, x),
           \A m \in RepOf(x) : ExRepUpgrade(c, m) => l1'[c][x].wts > m.wts
    PROVE  VersionInv(x)' /\ InOrder(x)
<1> DEFINE n == l1'[c][x]
<1>1. OwnersOf(x)' = {c} /\ Latest(x)' = {n}
  <2>1. n.st = "E" /\ State(c, x)' = "E" BY DEF StoredBy, State
  <2>2. OwnersOf(x)' = {c} BY <2>1 DEF OwnersOf, LineInv, OneToken
  <2>3. BackOf(x)' = {} BY <2>1 DEF LineInv, OneToken
  <2>4. QED BY <2>2, <2>3 DEF Latest, Away
<1>2. n.wts \in Nat /\ n.rts \in Nat /\ n.val \in Nat BY DEF OneLatest, Numbers
<1>3. PICK p \in Latest(x) : n.val = p.val + 1 /\ n.wts > p.wts /\ p.wts \in Nat /\ p.val \in Nat
  <2>1. CASE State(c, x) = "E" /\ n.val = l1[c][x].val + 1 /\ n.wts > l1[c][x].rts
    <3>1. l1[c][x] \in Latest(x) BY <2>1 DEF Latest, OwnersOf
    <3>2. l1[c][x].wts <= l1[c][x].rts BY DEF LineInv, LeasesOrdered
    <3>3. QED BY <1>2, <2>1, <3>1, <3>2 DEF OneLatest, Numbers
  <2>2. ASSUME NEW m \in RepOf(x), IsGrant(m), m.to = c,
               n.val = (IF m.type = "EX_REP" THEN m.val ELSE l1[c][x].val) + 1,
               n.wts > m.rts \/ ExRepUpgrade(c, m)
        PROVE  \E p \in Latest(x) : n.val = p.val + 1 /\ n.wts > p.wts
    <3>1. ~Away(x) /\ Home(x) \in Latest(x)
      <4>1. ~Away(x) BY <2>2 DEF LineInv, OneToken, Away, OwnersOf
      <4>2. QED BY <4>1 DEF Latest
    <3>2. Home(x).wts = dir[x].wts /\ Home(x).val = current[x]
      <4>1. dir[x].st \in OutStates BY <2>2 DEF LineInv, OneToken, Holds
      <4>2. dir[x].st \notin AtMts BY <4>1 DEF OutStates, AtMts
      <4>3. QED BY <4>2 DEF Home
    <3>3. GrantMatches(x, m) BY DEF VersionInv
    <3>4. m.type = "EX_REP" => m.wts <= m.rts BY DEF LineInv, RepliesMatch
    <3>5. m.type = "UPGR_REP" => ~ExRepUpgrade(c, m) BY DEF ExRepUpgrade, Response
    <3>6. dir[x].wts \in Nat /\ m.wts \in Nat /\ m.rts \in Nat BY DEF OneLatest, Numbers
    <3>7. n.wts > dir[x].wts BY <1>2, <2>2, <3>3, <3>4, <3>5, <3>6 DEF GrantMatches, IsGrant
    <3>8. n.val = current[x] + 1 BY <2>2, <3>3 DEF GrantMatches, IsGrant
    <3> HIDE DEF Home
    <3>9. QED BY <3>1, <3>2, <3>7, <3>8
  <2>3. QED BY <2>1, <2>2 DEF StoredBy, OneLatest
<1> HIDE DEF n
<1>4. \A h \in Latest(x), k \in Latest(x)' : Before(h, k)
  <2>1. ASSUME NEW h \in Latest(x) PROVE Before(h, n)
    <3>1. SameVersion(h, p) BY DEF OneLatest
    <3>2. QED BY <1>2, <1>3, <3>1 DEF SameVersion, Before
  <2>2. QED BY <1>1, <2>1
<1>5. \A k \in Copies(x)' : \E h \in Copies(x) : SameVersion(k, h)
  <2>1. RepOf(x)' \subseteq RepOf(x) BY DEF StoredBy
  <2>2. n.st \notin Copying BY DEF StoredBy, Copying, n
  <2>3. \A d \in Cores : State(d, x)' \in Copying => d # c BY <2>2 DEF State, n
  <2>4. QED BY <2>1, <2>3 DEF Copies, StoredBy, SameVersion, State
<1>6. \A k \in Latest(x)' : k.val = written'[x]
  BY <1>1, <1>3 DEF VersionInv, StoredBy
<1>7. \A m \in RepOf(x)' : GrantMatches(x, m)'
  <2>1. State(c, x)' = "E" BY DEF StoredBy, State
  <2>2. \A m \in RepOf(x)' : ~IsGrant(m) BY <2>1 DEF LineInv, OneToken
  <2>3. QED BY <2>2 DEF GrantMatches, IsGrant
<1>8. InOrder(x) BY <1>4, <1>5 DEF InOrder
<1>9. QED BY <1>6, <1>7, <1>8, VersionsStep

\* The version the owner hands back is the latest.
LEMMA HandedBackVersions ==
    ASSUME NEW x \in Lines, VersionInv(x), StampInv(x), OneLatest(x), OneLatest(x)',
           LineInv(x), LineInv(x)', NEW c \in Cores, NEW b, HandedBackBy(c, b, x)
    PROVE  VersionInv(x)' /\ InOrder(x)
<1> DEFINE n == l1[c][x]
<1>1. n \in Latest(x) BY DEF HandedBackBy, Latest, OwnersOf
<1>2. Latest(x)' = {b}
  <2>1. BackOf(x)' = {b} BY DEF HandedBackBy, LineInv, OneToken
  <2>2. OwnersOf(x)' = {} BY <2>1 DEF LineInv, OneToken, OwnersOf
  <2>3. QED BY <2>1, <2>2 DEF Latest, Away
<1>3. SameVersion(b, n) BY DEF HandedBackBy
<1> HIDE DEF n
<1>4. \A h \in Latest(x), k \in Latest(x)' : Before(h, k)
  <2>1. ASSUME NEW h \in Latest(x) PROVE Before(h, b)
    <3>1. SameVersion(h, n) /\ h.wts \in Nat /\ h.val \in Nat BY <1>1 DEF OneLatest
    <3>2. QED BY <1>3, <3>1 DEF SameVersion, Before
  <2>2. QED BY <1>2, <2>1
<1>5. \A k \in Copies(x)' : \/ \E h \in Copies(x) : SameVersion(k, h)
                            \/ \A h \in Latest(x)' : SameVersion(k, h)
  <2> SUFFICES ASSUME NEW k \in Copies(x)'
               PROVE  \/ \E h \in Copies(x) : SameVersion(k, h)
                      \/ \A h \in Latest(x)' : SameVersion(k, h)
    OBVIOUS
  <2>1. CASE k \in Copies(x) BY <2>1 DEF SameVersion
  <2>2. CASE k = l1'[c][x] BY <1>2, <2>2 DEF HandedBackBy
  <2>3. k \in Copies(x) \/ k = l1'[c][x] BY DEF Copies, HandedBackBy, State
  <2>4. QED BY <2>1, <2>2, <2>3
<1>6. \A k \in Latest(x)' : k.val = written'[x]
  BY <1>1, <1>2, <1>3 DEF VersionInv, HandedBackBy, SameVersion
<1>7. \A m \in RepOf(x)' : GrantMatches(x, m)'
  <2>1. \A m \in RepOf(x)' : ~IsGrant(m) BY DEF HandedBackBy, LineInv, OneToken
  <2>2. QED BY <2>1 DEF GrantMatches, IsGrant
<1>8. InOrder(x) BY <1>4, <1>5 DEF InOrder
<1>9. QED BY <1>6, <1>7, <1>8, VersionsStep

\* It is what the directory has afterwards, and passes on.
LEMMA ReturnedVersions ==
    ASSUME NEW x \in Lines, VersionInv(x), StampInv(x), OneLatest(x), OneLatest(x)',
           LineInv(x), NEW b, Returned(b, x)
    PROVE  VersionInv(x)' /\ InOrder(x)
<1>1. /\ OwnersOf(x) = {} /\ \A m \in RepOf(x) : ~IsGrant(m)
      /\ BackOf(x) = {b} /\ b.wts <= b.rts
  BY DEF Returned, LineInv, OneToken, OwnersOf, LeasesOrdered
<1>2. OwnersOf(x)' = {} /\ BackOf(x)' = {} BY <1>1 DEF Returned, OwnersOf, State
<1>3. Latest(x) = {b} /\ Latest(x)' = {Home(x)'} BY <1>1, <1>2 DEF Latest, Away
<1>4. b.wts \in Nat /\ b.rts \in Nat /\ b.val \in Nat /\ mts' \in Nat /\ dir'[x].wts \in Nat
  BY <1>1 DEF OneLatest, Numbers
<1>5. Home(x)'.wts >= b.wts /\ Home(x)'.val = b.val BY <1>1, <1>4 DEF Home, Returned
<1>6. \A n \in Latest(x), k \in Latest(x)' : Before(n, k)
  <2>1. Home(x)'.wts \in Nat BY <1>3 DEF OneLatest
  <2> HIDE DEF Home
  <2>2. QED BY <1>3, <1>4, <1>5, <2>1 DEF Before
<1>7. b.val = written[x] BY <1>3 DEF VersionInv
<1>8. \A k \in Copies(x)' : k \in Copies(x) \/ (k \in RepOf(x)' /\ k \notin RepOf(x) /\ k.type = "SH_REP")
  BY DEF Copies, Returned, State
<1>9. ASSUME NEW k \in RepOf(x)', k \notin RepOf(x), k.type \in {"SH_REP", "EX_REP"}
      PROVE  SameVersion(k, b) /\ dir'[x].wts = b.wts /\ dir'[x].st \notin AtMts
  BY <1>9 DEF Returned
<1>10. \A k \in Copies(x)' : \/ \E h \in Copies(x) : SameVersion(k, h)
                             \/ \A h \in Latest(x)' : SameVersion(k, h)
  <2> SUFFICES ASSUME NEW k \in Copies(x)', k \notin Copies(x)
               PROVE  \A h \in Latest(x)' : SameVersion(k, h)
    BY DEF SameVersion
  <2>1. SameVersion(k, b) /\ dir'[x].wts = b.wts /\ dir'[x].st \notin AtMts BY <1>8, <1>9
  <2>2. Home(x)'.wts = b.wts /\ Home(x)'.val = b.val BY <1>5, <2>1 DEF Home
  <2> HIDE DEF Home
  <2>3. QED BY <1>3, <2>1, <2>2 DEF SameVersion
<1>11. \A k \in Latest(x)' : k.val = written'[x] BY <1>3, <1>5, <1>7 DEF Returned
<1>12. \A m \in RepOf(x)' : GrantMatches(x, m)'
  <2> SUFFICES ASSUME NEW m \in RepOf(x)', IsGrant(m) PROVE GrantMatches(x, m)'
    BY DEF GrantMatches, IsGrant
  <2>1. m \notin RepOf(x) BY <1>1
  <2>2. m.type = "EX_REP" BY <2>1 DEF Returned, IsGrant
  <2>3. SameVersion(m, b) /\ dir'[x].wts = b.wts BY <1>9, <2>1, <2>2
  <2>4. QED BY <2>2, <2>3 DEF GrantMatches, SameVersion, Returned
<1>13. InOrder(x) BY <1>6, <1>10 DEF InOrder
<1>14. QED BY <1>11, <1>12, <1>13, VersionsStep

\* What the directory gives of its own is the latest version.
LEMMA GivenVersions ==
    ASSUME NEW x \in Lines, VersionInv(x), StampInv(x), OneLatest(x), OneLatest(x)',
           LineInv(x), NEW m, Given(m, x)
    PROVE  VersionInv(x)' /\ InOrder(x)
<1>1. OwnersOf(x) = {} /\ BackOf(x) = {} /\ \A n \in RepOf(x) : ~IsGrant(n)
  <2>1. \A c \in Cores : ~Holds(c, x) BY DEF Given, LineInv, OneToken
  <2>2. /\ \A n \in RepOf(x) : n.to \in Cores
        /\ \A b \in BackOf(x) : b.from \in Cores
    BY DEF OneLatest, Numbers
  <2>3. QED BY <2>1, <2>2 DEF Holds, OwnersOf
<1>2. OwnersOf(x)' = {} /\ BackOf(x)' = {} BY <1>1 DEF Given, OwnersOf, State
<1>3. Latest(x) = {Home(x)} /\ Latest(x)' = {Home(x)'} BY <1>1, <1>2 DEF Latest, Away
<1>4. dir[x].wts \in Nat /\ mts \in Nat BY DEF OneLatest, Numbers
<1>5. /\ Home(x).val = current[x] /\ Home(x)'.val = current[x]
      /\ Home(x)'.wts = dir'[x].wts /\ Home(x).wts <= Home(x)'.wts
      /\ dir[x].st = "S" => Home(x).wts = dir[x].wts
  BY <1>4 DEF Home, Given, AtMts, StampInv
<1>6. Home(x).wts \in Nat /\ Home(x).val \in Nat /\ Home(x)'.wts \in Nat BY <1>3 DEF OneLatest
<1> HIDE DEF Home
<1>7. \A n \in Latest(x), k \in Latest(x)' : Before(n, k) BY <1>3, <1>5, <1>6 DEF Before
<1>8. \A k \in Copies(x)' : k \in Copies(x) \/ (k = m /\ m.type = "SH_REP")
  BY DEF Copies, Given, State
<1>9. m.type = "SH_REP" => m.wts = dir'[x].wts /\ m.val = current[x] BY DEF Given
<1>10. \A k \in Copies(x)' : \/ \E h \in Copies(x) : SameVersion(k, h)
                             \/ \A h \in Latest(x)' : SameVersion(k, h)
  BY <1>3, <1>5, <1>8, <1>9 DEF SameVersion
<1>11. \A k \in Latest(x)' : k.val = written'[x] BY <1>3, <1>5 DEF VersionInv, Given
<1>12. \A n \in RepOf(x)' : GrantMatches(x, n)'
  <2> SUFFICES ASSUME NEW n \in RepOf(x)', IsGrant(n) PROVE GrantMatches(x, n)'
    BY DEF GrantMatches, IsGrant
  <2>1. n = m BY <1>1 DEF Given
  <2>2. CASE n.type = "EX_REP" BY <2>1, <2>2 DEF Given, GrantMatches
  <2>3. CASE n.type = "UPGR_REP"
    <3> DEFINE k == l1[n.to][x]
    <3>1. /\ n.to \in Cores /\ State(n.to, x) = "SE" /\ k.wts = dir[x].wts /\ dir[x].st = "S"
          /\ n.rts = dir[x].rts /\ dir'[x].wts = dir[x].wts /\ l1'[n.to][x] = k
      BY <2>1, <2>3 DEF Given
    <3>2. k \in Copies(x) BY <3>1 DEF Copies, Copying
    <3>3. Before(k, Home(x)) BY <1>3, <3>2 DEF VersionInv
    <3>4. k.val \in Nat BY <3>2 DEF OneLatest
    <3>5. k.val = current[x] BY <1>5, <1>6, <3>1, <3>3, <3>4 DEF Before
    <3>6. dir[x].wts <= dir[x].rts BY DEF LineInv, LeasesOrdered
    <3>7. current'[x] = current[x] BY DEF Given
    <3> HIDE DEF k
    <3>8. QED BY <2>3, <3>1, <3>5, <3>6, <3>7 DEF GrantMatches
  <2>4. QED BY <2>2, <2>3 DEF IsGrant
<1>13. InOrder(x) BY <1>7, <1>10 DEF InOrder
<1>14. QED BY <1>11, <1>12, <1>13, VersionsStep

\* A step keeps the versions of a line in order, unless an upgrade answered with data
\* does not advance the timestamp of the copy.
LEMMA MovedVersions ==
    ASSUME NEW x \in Lines, VersionInv(x), StampInv(x), OneLatest(x), OneLatest(x)',
           LineInv(x), LineInv(x)', LineMoves(x), UpgradersKept(x),
           \A c \in Cores : \A m \in RepOf(x) : ExRepUpgrade(c, m) => l1'[c][x].wts > m.wts
    PROVE  VersionInv(x)' /\ InOrder(x)
BY QuietVersions, StoredVersions, HandedBackVersions, ReturnedVersions, GivenVersions
   DEF LineMoves

-----------------------------------------------------------------------------
(* A line is one object with a history of versions: the refinement of      *)
(* LineMemory.                                                             *)

\* What LineMemory sees of a line, in the terms used here.
Seen(x) ==
    /\ Owners(x) = OwnersOf(x)
    /\ \A m : m \in Grants(x) <=> m \in RepOf(x) /\ IsGrant(m)
    /\ HandedBack(x) # {} <=> BackOf(x) # {}
    /\ \A n \in Latest(x) : Newest(x) = Version(n)
    /\ Readable(x) = {Version(k) : k \in Copies(x)}

LEMMA LineIsSeen ==
    ASSUME NEW x \in Lines, OneLatest(x) PROVE Seen(x)
<1>1. Owners(x) = OwnersOf(x) BY DEF Owners, OwnersOf, State
<1>2. \A m : m \in Grants(x) <=> m \in RepOf(x) /\ IsGrant(m) BY DEF Grants, RepOf, IsGrant
<1>3. BackOf(x) = {rspQ[i] : i \in HandedBack(x)} BY DEF BackOf, Back, HandedBack
<1>4. \A n \in Latest(x) : Newest(x) = Version(n)
  <2>1. \A k, n \in Latest(x) : Version(k) = Version(n)
    BY DEF OneLatest, SameVersion, Version
  <2>2. \E k \in Latest(x) : Newest(x) = Version(k)
    <3>1. CASE Owners(x) # {}
      <4>1. PICK c \in Owners(x) : Newest(x) = Version(l1[c][x]) BY <3>1 DEF Newest
      <4>2. QED BY <1>1, <4>1 DEF Latest
    <3>2. CASE Owners(x) = {} /\ HandedBack(x) # {}
      <4>1. PICK i \in HandedBack(x) : Newest(x) = Version(rspQ[i]) BY <3>2 DEF Newest
      <4>2. QED BY <1>3, <4>1 DEF Latest
    <3>3. CASE Owners(x) = {} /\ HandedBack(x) = {}
      <4>1. Newest(x) = Version(Home(x)) BY <3>3 DEF Newest, Home, Version
      <4>2. ~Away(x) BY <1>1, <1>3, <3>3 DEF Away
      <4>3. Home(x) \in Latest(x) BY <4>2 DEF Latest
      <4>4. QED BY <4>1, <4>3
    <3>4. QED BY <3>1, <3>2, <3>3
  <2>3. QED BY <2>1, <2>2
<1>5. Readable(x) = {Version(k) : k \in Copies(x)}
  <2>1. {m \in RepOf(x) : m.type = "SH_REP"} = {n \in rep : n.a = x /\ n.type = "SH_REP"}
    BY DEF RepOf
  <2>2. \A d \in Cores : l1[d][x].st \in {"S_LSD", "S_EXP", "SE"} <=> State(d, x) \in Copying
    BY DEF State, Copying
  <2>3. QED BY <2>1, <2>2 DEF Readable, Copies
<1>6. QED BY <1>1, <1>2, <1>3, <1>4, <1>5 DEF Seen

\* What the order of the versions says of the latest.
LEMMA NewestFollows ==
    ASSUME NEW x \in Lines, VersionInv(x), VersionInv(x)', OneLatest(x), OneLatest(x)',
           Seen(x), Seen(x)', InOrder(x)
    PROVE  /\ Newest(x).val = written[x] /\ Newest(x)'.val = written'[x]
           /\ Newest(x)'.wts >= Newest(x).wts
           /\ written'[x] > written[x] => Newest(x)'.wts > Newest(x).wts
           /\ Readable(x)' \subseteq Readable(x) \cup {Newest(x)'}
<1>1. PICK n \in Latest(x) : n.wts \in Nat /\ n.val \in Nat BY DEF OneLatest
<1>2. PICK k \in Latest(x)' : k.wts \in Nat /\ k.val \in Nat BY DEF OneLatest
<1>3. Newest(x).wts = n.wts /\ Newest(x).val = n.val BY DEF Seen, Version
<1>4. Newest(x)'.wts = k.wts /\ Newest(x)'.val = k.val BY DEF Seen, Version
<1>5. n.val = written[x] /\ k.val = written'[x] BY DEF VersionInv
<1>6. Before(n, k) BY DEF InOrder
<1>7. \A h \in Copies(x)' : (\E g \in Copies(x) : Version(h) = Version(g)) \/ Version(h) = Version(k)
  BY DEF InOrder, SameVersion, Version
<1>8. Newest(x)' = Version(k) BY DEF Seen
<1>9. Readable(x)' \subseteq Readable(x) \cup {Newest(x)'} BY <1>7, <1>8 DEF Seen
<1>10. QED BY <1>1, <1>2, <1>3, <1>4, <1>5, <1>6, <1>9 DEF Before

\* Copies that are copied or forgotten.
LEMMA OldCopies ==
    ASSUME NEW x \in Lines, Seen(x), Seen(x)',
           \A k \in Copies(x)' : \E n \in Copies(x) : SameVersion(k, n)
    PROVE  Readable(x)' \subseteq Readable(x)
<1>1. \A k \in Copies(x)' : \E n \in Copies(x) : Version(k) = Version(n)
  BY DEF SameVersion, Version
<1>2. QED BY <1>1 DEF Seen

\* Nothing new, or a version that is at home stamped anew.
LEMMA QuietLine ==
    ASSUME NEW x \in Lines, StampInv(x), OneLatest(x), OneLatest(x)', LineInv(x), LineInv(x)',
           Seen(x), Seen(x)', Quiet(x)
    PROVE  Line(x)!Next
<1>1. Owners(x)' = Owners(x) /\ OwnersOf(x)' = OwnersOf(x) BY DEF Quiet, OwnersOf, State, Seen
<1>2. Grants(x)' = Grants(x) BY DEF Quiet, Seen
<1>3. (HandedBack(x) # {})' <=> HandedBack(x) # {} BY DEF Quiet, Seen
<1>4. Readable(x)' \subseteq Readable(x) BY OldCopies DEF Quiet, CopiesPass
<1>5. CASE Owners(x) # {}
  <2>1. PICK c \in OwnersOf(x) : TRUE BY <1>5 DEF Seen
  <2>2. l1[c][x] \in Latest(x) /\ l1'[c][x] \in Latest(x)' BY <1>1, <2>1 DEF Latest
  <2>3. Version(l1'[c][x]) = Version(l1[c][x])
    BY <2>1 DEF OwnersOf, Quiet, SameVersion, Version
  <2>4. Newest(x)' = Newest(x) BY <2>2, <2>3 DEF Seen, Version
  <2>5. QED BY <1>1, <1>2, <1>3, <1>4, <2>4 DEF Line!Next, Line!Forget
<1>6. CASE BackOf(x) # {}
  <2>1. PICK b \in BackOf(x) : TRUE BY <1>6
  <2>2. b \in Latest(x) /\ b \in Latest(x)' BY <2>1 DEF Latest, Quiet
  <2>3. Newest(x)' = Newest(x) BY <2>2 DEF Seen, Version
  <2>4. QED BY <1>1, <1>2, <1>3, <1>4, <2>3 DEF Line!Next, Line!Forget
<1>7. CASE Owners(x) = {} /\ BackOf(x) = {}
  <2>1. ~Away(x) /\ ~Away(x)' BY <1>1, <1>7 DEF Away, Seen, Quiet
  <2>2. Home(x) \in Latest(x) /\ Home(x)' \in Latest(x)' BY <2>1 DEF Latest
  <2>3. Newest(x) = Version(Home(x)) /\ Newest(x)' = Version(Home(x)') BY <2>2 DEF Seen, Version
  <2>4. Home(x)'.wts >= Home(x).wts /\ Home(x)'.val = Home(x).val
    BY DEF Quiet, DirPasses, Home, StampInv, OneLatest, Numbers, AtMts
  <2>5. CASE Grants(x) # {}
    <3>1. dir[x].st \in OutStates /\ dir'[x].st \in OutStates
      <4>1. PICK m \in RepOf(x) : IsGrant(m) /\ m \in RepOf(x)' BY <1>2, <2>5 DEF Seen
      <4>2. m.to \in Cores BY DEF OneLatest, Numbers
      <4>3. QED BY <4>1, <4>2 DEF LineInv, OneToken, Holds
    <3>2. Home(x)'.wts = dir'[x].wts /\ Home(x).wts = dir[x].wts
      BY <3>1 DEF Home, OutStates, AtMts
    <3>3. Newest(x)' = Newest(x) BY <2>3, <2>4, <3>2 DEF Version, Quiet, DirPasses
    <3>4. QED BY <1>1, <1>2, <1>3, <1>4, <3>3 DEF Line!Next, Line!Forget
  <2>6. CASE Grants(x) = {}
    <3>1. Newest(x)'.val = Newest(x).val /\ Newest(x)'.wts >= Newest(x).wts
      <4> HIDE DEF Home
      <4>1. QED BY <2>3, <2>4 DEF Version
    <3>2. HandedBack(x) = {} /\ HandedBack(x)' = {} BY <1>7 DEF Seen, Quiet
    <3>3. Line(x)!Keep
      BY <1>1, <1>2, <1>4, <1>7, <2>6, <3>1, <3>2 DEF Line!Keep, Line!Free, Line!Stamp
    <3>4. QED BY <3>3 DEF Line!Next
  <2>7. QED BY <2>5, <2>6
<1>8. QED BY <1>5, <1>6, <1>7

\* A store makes the next version.
LEMMA StoredLine ==
    ASSUME NEW x \in Lines, VersionInv(x), VersionInv(x)', OneLatest(x), OneLatest(x)',
           LineInv(x), LineInv(x)', Seen(x), Seen(x)', InOrder(x), NEW c \in Cores, StoredBy(c, x)
    PROVE  Line(x)!Next
<1>1. State(c, x)' = "E" BY DEF StoredBy, State
<1>2. Owners(x)' = {c} /\ Grants(x)' = {} /\ BackOf(x)' = {}
  BY <1>1 DEF Seen, OwnersOf, LineInv, OneToken
<1>3. {m.to : m \in Grants(x)} \cup Owners(x) = {c}
  <2>1. CASE State(c, x) = "E" BY <2>1 DEF Seen, OwnersOf, LineInv, OneToken
  <2>2. CASE \E m \in RepOf(x) : IsGrant(m) /\ m.to = c
    <3>1. PICK m \in RepOf(x) : IsGrant(m) /\ m.to = c BY <2>2
    <3>2. Grants(x) = {m} BY <3>1 DEF Seen, LineInv, OneToken
    <3>3. Owners(x) = {} BY <3>1 DEF Seen, OwnersOf, LineInv, OneToken
    <3>4. QED BY <3>1, <3>2, <3>3
  <2>3. QED BY <2>1, <2>2 DEF StoredBy
<1>4. HandedBack(x) = {} /\ HandedBack(x)' = {} BY <1>2 DEF Seen, StoredBy
<1>5. Readable(x)' \subseteq Readable(x)
  <2>1. RepOf(x)' \subseteq RepOf(x) BY DEF StoredBy
  <2>2. \A d \in Cores : State(d, x)' \in Copying => d # c BY <1>1 DEF Copying
  <2>3. \A k \in Copies(x)' : k \in Copies(x) BY <2>1, <2>2 DEF Copies, StoredBy, State
  <2>4. QED BY <2>3, OldCopies DEF SameVersion
<1>6. Newest(x)'.val = Newest(x).val + 1 /\ Newest(x)'.wts > Newest(x).wts
  BY NewestFollows DEF StoredBy, OneLatest, Numbers
<1>7. Line(x)!Store(c) BY <1>2, <1>3, <1>4, <1>5, <1>6 DEF Line!Store
<1>8. QED BY <1>7 DEF Line!Next

\* The owner gives it up.
LEMMA HandedBackLine ==
    ASSUME NEW x \in Lines, VersionInv(x), VersionInv(x)', OneLatest(x), OneLatest(x)',
           LineInv(x), LineInv(x)', Seen(x), Seen(x)', InOrder(x),
           NEW c \in Cores, NEW b, HandedBackBy(c, b, x)
    PROVE  Line(x)!Next
<1>1. Owners(x) = {c} /\ Grants(x) = {} /\ BackOf(x) = {}
  BY DEF HandedBackBy, Seen, OwnersOf, LineInv, OneToken
<1>2. b \in BackOf(x)' BY DEF HandedBackBy
<1>3. Owners(x)' = {} /\ Grants(x)' = {} BY <1>2 DEF Seen, OwnersOf, LineInv, OneToken
<1>4. HandedBack(x) = {} /\ HandedBack(x)' # {} BY <1>1, <1>2 DEF Seen
<1>5. Newest(x)' = Newest(x)
  <2>1. b \in Latest(x)' BY <1>2 DEF Latest
  <2>2. l1[c][x] \in Latest(x) BY <1>1 DEF Latest, Seen
  <2>3. Version(b) = Version(l1[c][x]) BY DEF HandedBackBy, SameVersion, Version
  <2>4. QED BY <2>1, <2>2, <2>3 DEF Seen
<1>6. Readable(x)' \subseteq Readable(x) \cup {Newest(x)} BY <1>5, NewestFollows
<1>7. Line(x)!HandBack(c) BY <1>1, <1>3, <1>4, <1>5, <1>6 DEF Line!HandBack
<1>8. QED BY <1>7 DEF Line!Next

\* The directory sends nothing, a copy, or the line itself.
LEMMA HomeLine ==
    ASSUME NEW x \in Lines, VersionInv(x), VersionInv(x)', OneLatest(x), OneLatest(x)',
           LineInv(x)', Seen(x), Seen(x)', InOrder(x),
           OwnersOf(x) = {}, \A n \in RepOf(x) : ~IsGrant(n), BackOf(x)' = {},
           \A c \in Cores : l1'[c][x] = l1[c][x], written'[x] = written[x],
           RepOf(x)' = RepOf(x) \/ \E m : RepOf(x)' = RepOf(x) \cup {m}
    PROVE  Line(x)!Next
<1>1. /\ Owners(x) = {} /\ Grants(x) = {} /\ Owners(x)' = {} /\ HandedBack(x)' = {}
  BY DEF Seen, OwnersOf, State
<1>2. Newest(x)'.val = Newest(x).val /\ Newest(x)'.wts >= Newest(x).wts BY NewestFollows
<1>3. CASE Grants(x)' = {}
  <2>1. Readable(x)' \subseteq Readable(x) \cup {Newest(x)'} BY NewestFollows
  <2>2. Line(x)!Keep BY <1>1, <1>2, <1>3, <2>1 DEF Line!Keep, Line!Free, Line!Stamp
  <2>3. QED BY <2>2 DEF Line!Next
<1>4. CASE Grants(x)' # {}
  <2>1. PICK m \in RepOf(x)' : IsGrant(m) BY <1>4 DEF Seen
  <2>2. Grants(x)' = {m} BY <2>1 DEF Seen, LineInv, OneToken
  <2>3. m.to \in Cores BY <2>1 DEF OneLatest, Numbers
  <2>4. RepOf(x)' = RepOf(x) \cup {m} BY <2>1
  <2>5. \A k \in Copies(x)' : k \in Copies(x) BY <2>1, <2>4 DEF Copies, State, IsGrant
  <2>6. Readable(x)' \subseteq Readable(x) BY <2>5, OldCopies DEF SameVersion
  <2>7. Line(x)!Grant(m.to)
    BY <1>1, <1>2, <2>2, <2>6 DEF Line!Grant, Line!Free, Line!Stamp
  <2>8. QED BY <2>3, <2>7 DEF Line!Next
<1>5. QED BY <1>3, <1>4

\* Every step of a line is one of LineMemory.
LEMMA MovedLine ==
    ASSUME NEW x \in Lines, VersionInv(x), VersionInv(x)', StampInv(x), OneLatest(x), OneLatest(x)',
           LineInv(x), LineInv(x)', Seen(x), Seen(x)', InOrder(x), LineMoves(x)
    PROVE  Line(x)!Next
<1>1. CASE Quiet(x) BY <1>1, QuietLine
<1>2. ASSUME NEW c \in Cores, StoredBy(c, x) PROVE Line(x)!Next BY <1>2, StoredLine
<1>3. ASSUME NEW c \in Cores, NEW b, HandedBackBy(c, b, x) PROVE Line(x)!Next
  BY <1>3, HandedBackLine
<1>4. ASSUME NEW b, Returned(b, x) PROVE Line(x)!Next
  <2>1. OwnersOf(x) = {} /\ BackOf(x) = {b} /\ \A m \in RepOf(x) : ~IsGrant(m)
    BY <1>4 DEF Returned, LineInv, OneToken, OwnersOf
  <2>2. /\ BackOf(x)' = {} /\ \A c \in Cores : l1'[c][x] = l1[c][x]
        /\ written'[x] = written[x]
    BY <1>4, <2>1 DEF Returned
  <2>3. RepOf(x)' = RepOf(x) \/ \E m : RepOf(x)' = RepOf(x) \cup {m} BY <1>4 DEF Returned
  <2>4. QED BY <2>1, <2>2, <2>3, HomeLine
<1>5. ASSUME NEW m, Given(m, x) PROVE Line(x)!Next
  <2>1. OwnersOf(x) = {} /\ BackOf(x) = {} /\ \A n \in RepOf(x) : ~IsGrant(n)
    <3>1. \A c \in Cores : ~Holds(c, x) BY <1>5 DEF Given, LineInv, OneToken
    <3>2. (\A n \in RepOf(x) : n.to \in Cores) /\ \A b \in BackOf(x) : b.from \in Cores
      BY DEF OneLatest, Numbers
    <3>3. QED BY <3>1, <3>2 DEF Holds, OwnersOf
  <2>2. /\ BackOf(x)' = {} /\ \A c \in Cores : l1'[c][x] = l1[c][x]
        /\ written'[x] = written[x] /\ RepOf(x)' = RepOf(x) \cup {m}
    BY <1>5, <2>1 DEF Given
  <2>3. QED BY <2>1, <2>2, HomeLine
<1>6. QED BY <1>1, <1>2, <1>3, <1>4, <1>5 DEF LineMoves

-----------------------------------------------------------------------------
(* The leases end in time.                                                 *)

\* Leases are numbers.
LEMMA LeaseTypes ==
    ASSUME NEW x \in Lines, OneLatest(x)
    PROVE  \A r \in Leases(x) : r \in Nat
BY DEF OneLatest, Leases, Numbers

\* Leases stay within bounds in a step that gives none and makes no version.
LEMMA QuietLeases ==
    ASSUME NEW x \in Lines, LeaseInv(x), OneLatest(x), OneLatest(x)', Quiet(x)
    PROVE  LeaseInv(x)'
<1> SUFFICES ASSUME NEW r \in Leases(x)'
             PROVE  /\ \A c \in OwnersOf(x)' : r < l1'[c][x].wts
                    /\ \A b \in BackOf(x)' : r <= b.rts
                    /\ \A m \in RepOf(x)' : IsGrant(m) => r <= m.rts
                    /\ ~Away(x)' /\ (\A m \in RepOf(x)' : ~IsGrant(m)) =>
                         \/ dir'[x].st \in AtMts /\ r <= mts'
                         \/ dir'[x].st \notin AtMts \ {"IS"} /\ r <= dir'[x].rts
  BY DEF LeaseInv
<1>1. r \in Leases(x) /\ r \in Nat BY LeaseTypes DEF Quiet, CopiesPass
<1>2. OwnersOf(x)' = OwnersOf(x) BY DEF Quiet, OwnersOf, State
<1>3. \A c \in OwnersOf(x)' : r < l1'[c][x].wts
  BY <1>1, <1>2 DEF LeaseInv, Quiet, SameVersion, OwnersOf
<1>4. \A b \in BackOf(x)' : r <= b.rts BY <1>1 DEF LeaseInv, Quiet
<1>5. \A m \in RepOf(x)' : IsGrant(m) => r <= m.rts BY <1>1 DEF LeaseInv, Quiet
<1>6. ASSUME ~Away(x)', \A m \in RepOf(x)' : ~IsGrant(m)
      PROVE  \/ dir'[x].st \in AtMts /\ r <= mts'
             \/ dir'[x].st \notin AtMts \ {"IS"} /\ r <= dir'[x].rts
  <2>1. ~Away(x) BY <1>2, <1>6 DEF Away, Quiet
  <2>2. \A m \in RepOf(x) : ~IsGrant(m) BY <1>6 DEF Quiet
  <2>3. \/ dir[x].st \in AtMts /\ r <= mts
        \/ dir[x].st \notin AtMts \ {"IS"} /\ r <= dir[x].rts
    BY <1>1, <2>1, <2>2 DEF LeaseInv
  <2>4. /\ dir[x].rts \in Nat /\ dir'[x].rts \in Nat /\ dir'[x].rts >= dir[x].rts
        /\ mts \in Nat /\ mts' \in Nat /\ mts' >= mts
    BY DEF OneLatest, Numbers, Quiet, DirPasses
  <2>5. /\ r <= mts => r <= mts'
        /\ r <= dir[x].rts => r <= dir'[x].rts
    BY <1>1, <2>4
  <2>6. "IS" \in AtMts BY DEF AtMts
  <2>7. \/ dir'[x].st = "IS"
        \/ dir[x].st # "IS" /\ (dir'[x].st \in AtMts <=> dir[x].st \in AtMts)
    BY DEF Quiet, DirPasses
  <2>8. QED BY <2>3, <2>5, <2>6, <2>7
<1>7. QED BY <1>3, <1>4, <1>5, <1>6

\* A store ends up after the leases there are, if it follows that of the grant.
LEMMA StoredLeases ==
    ASSUME NEW x \in Lines, LeaseInv(x), OneLatest(x), OneLatest(x)',
           LineInv(x), LineInv(x)', NEW c \in Cores, StoredBy(c, x),
           \A m \in RepOf(x) : ExRepUpgrade(c, m) => l1'[c][x].wts > m.rts
    PROVE  LeaseInv(x)'
<1> DEFINE n == l1'[c][x]
<1>1. OwnersOf(x)' = {c} /\ BackOf(x)' = {} /\ Away(x)' /\ \A m \in RepOf(x)' : ~IsGrant(m)
  <2>1. State(c, x)' = "E" BY DEF StoredBy, State
  <2>2. OwnersOf(x)' = {c} BY <2>1 DEF OwnersOf, LineInv, OneToken
  <2>3. BackOf(x)' = {} /\ \A m \in RepOf(x)' : ~IsGrant(m) BY <2>1 DEF LineInv, OneToken
  <2>4. QED BY <2>2, <2>3 DEF Away
<1>2. Leases(x)' \subseteq Leases(x)
  <2>1. n.st \notin Copying BY DEF StoredBy, Copying
  <2>2. \A d \in Cores : State(d, x)' \in Copying => d # c BY <2>1 DEF State
  <2>3. RepOf(x)' \subseteq RepOf(x) BY DEF StoredBy
  <2>4. Copies(x)' \subseteq Copies(x) BY <2>2, <2>3 DEF Copies, StoredBy, State
  <2>5. QED BY <2>3, <2>4 DEF Leases
<1>3. ASSUME NEW r \in Leases(x) PROVE r < n.wts
  <2>1. r \in Nat /\ n.wts \in Nat /\ l1[c][x].wts \in Nat /\ l1[c][x].rts \in Nat
    BY LeaseTypes DEF OneLatest, Numbers
  <2>2. CASE State(c, x) = "E" /\ n.wts > l1[c][x].rts
    <3>1. r < l1[c][x].wts /\ l1[c][x].wts <= l1[c][x].rts
      BY <2>2 DEF LeaseInv, OwnersOf, LineInv, LeasesOrdered
    <3>2. QED BY <2>1, <2>2, <3>1
  <2>3. ASSUME NEW m \in RepOf(x), IsGrant(m), n.wts > m.rts PROVE r < n.wts
    <3>1. r <= m.rts /\ m.rts \in Nat BY <2>3 DEF LeaseInv, OneLatest, Numbers
    <3>2. QED BY <2>1, <2>3, <3>1
  <2>4. QED BY <2>2, <2>3 DEF StoredBy
<1> HIDE DEF n
<1>4. QED BY <1>1, <1>2, <1>3 DEF LeaseInv, n

\* The owner hands back its lease with the line, and keeps no longer one.
LEMMA HandedBackLeases ==
    ASSUME NEW x \in Lines, LeaseInv(x), OneLatest(x), OneLatest(x)',
           LineInv(x), LineInv(x)', NEW c \in Cores, NEW b, HandedBackBy(c, b, x)
    PROVE  LeaseInv(x)'
<1>1. BackOf(x)' = {b} /\ OwnersOf(x)' = {} /\ Away(x)' /\ b.wts <= b.rts
      /\ \A m \in RepOf(x)' : ~IsGrant(m)
  <2>1. BackOf(x)' = {b} BY DEF HandedBackBy, LineInv, OneToken
  <2>2. OwnersOf(x)' = {} /\ \A m \in RepOf(x)' : ~IsGrant(m)
    BY <2>1 DEF LineInv, OneToken, OwnersOf
  <2>3. b.wts <= b.rts BY <2>1 DEF LineInv, LeasesOrdered
  <2>4. QED BY <2>1, <2>2, <2>3 DEF Away
<1>2. b.wts \in Nat /\ b.rts \in Nat BY <1>1 DEF OneLatest, Numbers
<1>3. \A r \in Leases(x)' : r \in Leases(x) \/ r = b.rts
  <2>1. \A k \in Copies(x)' : k \in Copies(x) \/ (k = l1'[c][x] /\ k.rts = b.rts)
    BY DEF Copies, HandedBackBy, State, Copying
  <2>2. RepOf(x)' = RepOf(x) BY DEF HandedBackBy
  <2>3. QED BY <2>1, <2>2 DEF Leases
<1>4. ASSUME NEW r \in Leases(x) PROVE r <= b.rts
  <2>1. r < l1[c][x].wts /\ b.wts = l1[c][x].wts
    BY DEF LeaseInv, OwnersOf, HandedBackBy, SameVersion
  <2>2. r \in Nat BY LeaseTypes
  <2>3. QED BY <1>1, <1>2, <2>1, <2>2
<1>5. QED BY <1>1, <1>2, <1>3, <1>4 DEF LeaseInv

\* The directory's lease, or mts, is past the one that is handed back.
LEMMA ReturnedLeases ==
    ASSUME NEW x \in Lines, LeaseInv(x), OneLatest(x), OneLatest(x)',
           LineInv(x), LineInv(x)', NEW b, Returned(b, x)
    PROVE  LeaseInv(x)'
<1>1. /\ OwnersOf(x) = {} /\ \A m \in RepOf(x) : ~IsGrant(m)
      /\ BackOf(x) = {b}
  BY DEF Returned, LineInv, OneToken, OwnersOf
<1>2. OwnersOf(x)' = {} /\ BackOf(x)' = {} BY <1>1 DEF Returned, OwnersOf, State
<1>3. b.rts \in Nat /\ mts' \in Nat /\ dir'[x].rts \in Nat BY <1>1 DEF OneLatest, Numbers
<1>4. \A r \in Leases(x) : r \in Nat /\ r <= b.rts BY <1>1, LeaseTypes DEF LeaseInv
<1>5. CASE dir'[x].st \in AtMts \ {"IS"} /\ RepOf(x)' = RepOf(x)
  <2>1. Leases(x)' = Leases(x) BY <1>5 DEF Leases, Copies, Returned, State
  <2>2. mts' >= b.rts BY DEF Returned
  <2>3. \A r \in Leases(x)' : r <= mts' BY <1>3, <1>4, <2>1, <2>2
  <2>4. QED BY <1>1, <1>2, <1>5, <2>3 DEF LeaseInv
<1>6. ASSUME NEW m, RepOf(x)' = RepOf(x) \cup {m}, dir'[x].st \notin AtMts, dir'[x].rts >= b.rts,
             \/ m.type = "ACK_REP"
             \/ m.type = "SH_REP" /\ m.rts = dir'[x].rts
             \/ m.type = "EX_REP" /\ m.rts = b.rts
      PROVE  LeaseInv(x)'
  <2>1. \A r \in Leases(x)' : r \in Leases(x) \/ (m.type = "SH_REP" /\ r = dir'[x].rts)
    <3>1. \A k \in Copies(x)' : k \in Copies(x) \/ (k = m /\ m.type = "SH_REP")
      BY <1>6 DEF Copies, Returned, State
    <3>2. QED BY <1>6, <3>1 DEF Leases
  <2>2. \A r \in Leases(x)' : r <= dir'[x].rts BY <1>3, <1>4, <1>6, <2>1
  <2>3. \A n \in RepOf(x)' : IsGrant(n) => n = m /\ m.type = "EX_REP" BY <1>1, <1>6 DEF IsGrant
  <2>4. \A n \in RepOf(x)', r \in Leases(x)' : IsGrant(n) => r <= n.rts
    BY <1>4, <1>6, <2>1, <2>3
  <2>5. QED BY <1>2, <1>6, <2>2, <2>4 DEF LeaseInv
<1>7. QED BY <1>5, <1>6 DEF Returned

\* A lease the directory gives is in its entry, with those given before unless they are
\* cut.
LEMMA GivenLeases ==
    ASSUME NEW x \in Lines, LeaseInv(x), OneLatest(x), OneLatest(x)',
           LineInv(x), NEW m, Given(m, x), LeaseCut(x) => dir'[x].rts >= dir[x].rts
    PROVE  LeaseInv(x)'
<1>1. OwnersOf(x) = {} /\ BackOf(x) = {} /\ \A n \in RepOf(x) : ~IsGrant(n)
  <2>1. \A c \in Cores : ~Holds(c, x) BY DEF Given, LineInv, OneToken
  <2>2. /\ \A n \in RepOf(x) : n.to \in Cores
        /\ \A b \in BackOf(x) : b.from \in Cores
    BY DEF OneLatest, Numbers
  <2>3. QED BY <2>1, <2>2 DEF Holds, OwnersOf
<1>2. OwnersOf(x)' = {} /\ BackOf(x)' = {} BY <1>1 DEF Given, OwnersOf, State
<1>3. dir[x].rts \in Nat /\ dir'[x].rts \in Nat /\ mts \in Nat BY DEF OneLatest, Numbers
<1>4. m.rts = dir'[x].rts /\ RepOf(x)' = RepOf(x) \cup {m} /\ dir'[x].st \notin AtMts BY DEF Given
<1>5. \A r \in Leases(x)' : r \in Leases(x) \/ r = m.rts
  <2>1. \A k \in Copies(x)' : k \in Copies(x) \/ k = m BY DEF Copies, Given, State
  <2>2. QED BY <1>4, <2>1 DEF Leases
<1>6. ASSUME NEW r \in Leases(x) PROVE r <= dir'[x].rts
  <2>1. \/ dir[x].st \in AtMts /\ r <= mts
        \/ dir[x].st \notin AtMts \ {"IS"} /\ r <= dir[x].rts
    BY <1>1 DEF LeaseInv, Away
  <2>2. r \in Nat BY LeaseTypes
  <2>3. CASE dir[x].st = "S" /\ dir'[x].rts = dir[x].rts BY <2>1, <2>3 DEF AtMts
  <2>4. CASE dir'[x].rts >= mts /\ (dir'[x].rts >= dir[x].rts \/ dir[x].st \in AtMts \ {"IS"})
    BY <1>3, <2>1, <2>2, <2>4
  <2>5. QED BY <2>3, <2>4 DEF Given
<1>7. \A r \in Leases(x)' : r <= dir'[x].rts BY <1>3, <1>4, <1>5, <1>6
<1>8. \A n \in RepOf(x)' : IsGrant(n) => n = m BY <1>1, <1>4
<1>9. QED BY <1>2, <1>4, <1>7, <1>8 DEF LeaseInv

\* A step keeps the leases in bounds, unless such an upgrade does not advance it beyond
\* them, or a grant cuts the lease the directory has on record.
LEMMA MovedLeases ==
    ASSUME NEW x \in Lines, LeaseInv(x), OneLatest(x), OneLatest(x)',
           LineInv(x), LineInv(x)', LineMoves(x),
           \A c \in Cores : \A m \in RepOf(x) : ExRepUpgrade(c, m) => l1'[c][x].wts > m.rts,
           LeaseCut(x) => dir'[x].rts >= dir[x].rts
    PROVE  LeaseInv(x)'
BY QuietLeases, StoredLeases, HandedBackLeases, ReturnedLeases, GivenLeases DEF LineMoves

-----------------------------------------------------------------------------
(* The stamps are kept.                                                    *)

\* An upgrade is asked for with the timestamp of the copy.
RequestsPass(x) ==
    \A r \in OpenOf(x)' : \/ r \in OpenOf(x)
                          \/ r.type = "EX_REQ" /\ r.wts > 0 => l1'[r.from][x].wts = r.wts

\* What a step does to a line, in all.
Moves(x) == LineMoves(x) /\ UpgradersKept(x) /\ RequestsPass(x)

\* A step keeps the stamps the directory goes by.
LEMMA MovedStamps ==
    ASSUME TypeInv, NEW x \in Lines, StampInv(x), OneLatest(x), OneLatest(x)',
           LineInv(x), LineInv(x)', Moves(x)
    PROVE  StampInv(x)'
<1>1. dir'[x].wts <= mts'
  <2>1. /\ dir[x].wts \in Nat /\ mts \in Nat /\ dir'[x].wts \in Nat /\ mts' \in Nat
        /\ dir[x].wts <= mts
    BY DEF OneLatest, Numbers, StampInv
  <2>2. CASE Quiet(x) BY <2>1, <2>2 DEF Quiet, DirPasses
  <2>3. CASE \E c \in Cores : StoredBy(c, x) \/ \E b : HandedBackBy(c, b, x)
    BY <2>1, <2>3 DEF StoredBy, HandedBackBy
  <2>4. CASE \E b : Returned(b, x)
    <3>1. PICK b : Returned(b, x) BY <2>4
    <3>2. b \in BackOf(x) /\ b.wts <= b.rts /\ b.wts \in Nat /\ b.rts \in Nat
      BY <3>1 DEF Returned, LineInv, LeasesOrdered, OneLatest, Numbers
    <3>3. QED BY <2>1, <3>1, <3>2 DEF Returned
  <2>5. CASE \E m : Given(m, x) BY <2>1, <2>5 DEF Given
  <2>6. QED BY <2>2, <2>3, <2>4, <2>5 DEF Moves, LineMoves
<1>2. ASSUME NEW r \in OpenOf(x)', r.type = "EX_REQ", r.wts > 0
      PROVE  l1'[r.from][x].wts = r.wts
  <2>1. CASE r \in OpenOf(x)
    <3>1. l1[r.from][x].wts = r.wts BY <1>2, <2>1 DEF StampInv
    <3>2. State(r.from, x) = "SE" BY <1>2, <2>1 DEF LineInv, RequestsMatch, AsksToWrite
    <3>3. State(r.from, x)' = "SE" BY <1>2 DEF LineInv, RequestsMatch, AsksToWrite
    <3>4. r.from \in Cores BY <2>1, ViewTypes
    <3>5. l1'[r.from][x].st = "SE" BY <3>3 DEF State
    <3>6. QED BY <3>1, <3>2, <3>4, <3>5 DEF Moves, UpgradersKept, SameVersion
  <2>2. CASE r \notin OpenOf(x) BY <1>2, <2>2 DEF Moves, RequestsPass
  <2>3. QED BY <2>1, <2>2
<1>3. QED BY <1>1, <1>2 DEF StampInv

-----------------------------------------------------------------------------
(* How the steps move the lines.                                           *)

\* A line at most whose entry in the directory changes.
LEMMA StillMoves ==
    ASSUME TypeInv, NEW x \in Lines, CopiesKept(x), RepOf(x)' = RepOf(x), BackOf(x)' = BackOf(x),
           OpenOf(x)' \subseteq OpenOf(x), DirPasses(x),
           current'[x] = current[x], written'[x] = written[x], mts' >= mts
    PROVE  Moves(x)
<1>1. /\ \A c \in Cores : State(c, x)' = State(c, x) /\ SameVersion(l1'[c][x], l1[c][x])
      /\ \A c \in Cores : l1'[c][x].st = State(c, x)
  BY DEF CopiesKept, State, SameVersion
<1>2. Copies(x)' = Copies(x) BY <1>1 DEF Copies, CopiesKept
<1>3. CopiesPass(x) BY <1>2 DEF CopiesPass, Leases, SameVersion
<1>4. Quiet(x) BY <1>1, <1>3 DEF Quiet
<1>5. UpgradersKept(x) BY <1>1 DEF UpgradersKept
<1>6. RequestsPass(x) BY DEF RequestsPass
<1>7. QED BY <1>4, <1>5, <1>6 DEF Moves, LineMoves

\* An entry of the directory that does not change.
LEMMA EntryPasses ==
    ASSUME TypeInv, NEW x \in Lines, dir'[x] = dir[x]
    PROVE  DirPasses(x)
<1>1. dir[x].rts \in Nat BY ViewTypes DEF DirEntry
<1>2. QED BY <1>1 DEF DirPasses

\* A step of the directory that sends and receives nothing of a line.
LEMMA DirMoves ==
    ASSUME TypeInv, DirUnchanged, rep' = rep, Back' = Back, Open' \subseteq Open,
           current' = current, mts' >= mts, \A y \in Lines : DirPasses(y)
    PROVE  \A y \in Lines : Moves(y)
<1> SUFFICES ASSUME NEW y \in Lines PROVE Moves(y) OBVIOUS
<1>1. CopiesKept(y) /\ written' = written BY CopiesStay DEF DirUnchanged
<1>2. RepOf(y)' = RepOf(y) /\ BackOf(y)' = BackOf(y) /\ OpenOf(y)' \subseteq OpenOf(y)
  BY DEF RepOf, BackOf, OpenOf
<1>3. QED BY <1>1, <1>2, StillMoves

\* It gives a version of its own.
LEMMA GivenMoves ==
    ASSUME TypeInv, NEW a \in Lines, NEW m, Given(m, a),
           \A y \in Lines \ {a} : dir'[y] = dir[y] /\ RepOf(y)' = RepOf(y),
           DirUnchanged, Back' = Back, Open' \subseteq Open, current' = current
    PROVE  \A y \in Lines : Moves(y)
<1> SUFFICES ASSUME NEW y \in Lines PROVE Moves(y) OBVIOUS
<1>1. CopiesKept(y) /\ written' = written BY CopiesStay DEF DirUnchanged
<1>2. BackOf(y)' = BackOf(y) /\ OpenOf(y)' \subseteq OpenOf(y) BY DEF BackOf, OpenOf
<1>3. CASE y = a
  <2>1. UpgradersKept(y) BY <1>1 DEF UpgradersKept, CopiesKept, SameVersion
  <2>2. RequestsPass(y) BY <1>2 DEF RequestsPass
  <2>3. QED BY <1>3, <2>1, <2>2 DEF Moves, LineMoves
<1>4. CASE y # a
  <2>1. mts' = mts /\ mts \in Nat BY MtsType DEF Given
  <2>2. DirPasses(y) BY <1>4, EntryPasses
  <2>3. QED BY <1>1, <1>2, <1>4, <2>1, <2>2, StillMoves
<1>5. QED BY <1>3, <1>4

\* It gets the latest version back.
LEMMA ReturnedMoves ==
    ASSUME TypeInv, NEW a \in Lines, NEW b, Returned(b, a),
           \A y \in Lines \ {a} : /\ dir'[y] = dir[y] /\ RepOf(y)' = RepOf(y)
                                  /\ BackOf(y)' = BackOf(y) /\ current'[y] = current[y],
           DirUnchanged, Open' \subseteq Open
    PROVE  \A y \in Lines : Moves(y)
<1> SUFFICES ASSUME NEW y \in Lines PROVE Moves(y) OBVIOUS
<1>1. CopiesKept(y) /\ written' = written BY CopiesStay DEF DirUnchanged
<1>2. OpenOf(y)' \subseteq OpenOf(y) BY DEF OpenOf
<1>3. CASE y = a
  <2>1. UpgradersKept(y) BY <1>1 DEF UpgradersKept, CopiesKept, SameVersion
  <2>2. RequestsPass(y) BY <1>2 DEF RequestsPass
  <2>3. QED BY <1>3, <2>1, <2>2 DEF Moves, LineMoves
<1>4. CASE y # a
  <2>1. mts' >= mts BY DEF Returned
  <2>2. DirPasses(y) BY <1>4, EntryPasses
  <2>3. QED BY <1>1, <1>2, <1>4, <2>1, <2>2, StillMoves
<1>5. QED BY <1>3, <1>4

\* An L1 does something to one line.
LEMMA CoreMoves ==
    ASSUME TypeInv, NEW a \in Lines, Moves(a),
           \A y \in Lines \ {a} : /\ CopiesKept(y) /\ RepOf(y)' = RepOf(y) /\ BackOf(y)' = BackOf(y)
                                  /\ OpenOf(y)' \subseteq OpenOf(y) /\ written'[y] = written[y],
           L1Unchanged
    PROVE  \A y \in Lines : Moves(y)
<1> SUFFICES ASSUME NEW y \in Lines, y # a PROVE Moves(y) OBVIOUS
<1>1. dir' = dir /\ mts' = mts /\ current' = current /\ mts \in Nat
  BY MtsType DEF L1Unchanged, dirVars
<1>2. DirPasses(y) BY <1>1, EntryPasses
<1>3. QED BY <1>1, <1>2, StillMoves

-----------------------------------------------------------------------------
(* The steps of an L1.                                                     *)

\* What is kept of a copy is a version there was, under a lease there was.
LEMMA CopyMoves ==
    ASSUME TypeInv, NEW c \in Cores, NEW a \in Lines, NEW e \in L1Entry, SetEntry(c, a, e),
           L1Unchanged, written' = written,
           RepOf(a)' \subseteq RepOf(a), \A m \in RepOf(a) : IsGrant(m) => m \in RepOf(a)',
           \A r \in OpenOf(a)' : \/ r \in OpenOf(a)
                                 \/ r.from = c /\ (r.type = "EX_REQ" /\ r.wts > 0 => e.wts = r.wts),
           \A y \in Lines : BackOf(y)' = BackOf(y),
           \A y \in Lines \ {a} : RepOf(y)' = RepOf(y) /\ OpenOf(y)' \subseteq OpenOf(y),
           e.st = "E" <=> State(c, a) = "E",
           e.st = "E" => SameVersion(e, l1[c][a]),
           e.st = "SE" /\ State(c, a) = "SE" => SameVersion(e, l1[c][a]),
           e.st \in Copying => e.rts \in Leases(a) /\ \E n \in Copies(a) : SameVersion(e, n)
    PROVE  \A y \in Lines : Moves(y)
<1>1. CopyStep(c, a, e) /\ \A y \in Lines \ {a} : CopiesKept(y) BY SetEntryStep
<1>2. dir' = dir /\ mts' = mts /\ current' = current /\ mts \in Nat
  BY MtsType DEF L1Unchanged, dirVars
<1>3. \A d \in Cores : l1'[d][a] = IF d = c THEN e ELSE l1[d][a] BY <1>1 DEF CopyStep
<1>4. ASSUME NEW k \in Copies(a)' PROVE k.rts \in Leases(a) /\ \E n \in Copies(a) : SameVersion(k, n)
  <2>1. CASE k \in Copies(a) BY <2>1 DEF Leases, SameVersion
  <2>2. CASE k = e /\ e.st \in Copying BY <2>2
  <2>3. QED BY <1>3, <2>1, <2>2 DEF Copies, State
<1>5. CopiesPass(a) BY <1>4 DEF CopiesPass, Leases
<1>6. Quiet(a)
  <2>1. DirPasses(a) BY <1>2, EntryPasses
  <2>2. \A d \in Cores : /\ l1'[d][a].st = "E" <=> State(d, a) = "E"
                         /\ State(d, a) = "E" => SameVersion(l1'[d][a], l1[d][a])
    BY <1>3 DEF State, SameVersion
  <2>3. QED BY <1>2, <1>5, <2>1, <2>2 DEF Quiet
<1>7. UpgradersKept(a) BY <1>3 DEF UpgradersKept, State, SameVersion
<1>8. RequestsPass(a) BY <1>3 DEF RequestsPass
<1>9. Moves(a) BY <1>6, <1>7, <1>8 DEF Moves, LineMoves
<1>10. QED BY <1>1, <1>9, CoreMoves

\* The same where no message is sent or taken, or a request only.
LEMMA AskMoves ==
    ASSUME TypeInv, OwnInv, NEW c \in Cores,
           NEW a \in Lines, State(c, a) \in {"I", "S_LSD"},
           NEW e \in L1Entry, SetEntry(c, a, e),
           NEW type \in {"SH_REQ", "EX_REQ"}, NEW w \in Nat, NEW l \in Nat,
           SendRequest(c, type, a, w, l), type = "EX_REQ" /\ w > 0 => e.wts = w,
           e.st # "E",
           e.st \in Copying => /\ State(c, a) \in Copying /\ SameVersion(e, l1[c][a])
                               /\ e.rts = l1[c][a].rts,
           UNCHANGED <<rspQ, rep, written>>, L1Unchanged
    PROVE  \A y \in Lines : Moves(y)
<1> DEFINE r == [type |-> type, a |-> a, from |-> c, wts |-> w, lts |-> l]
<1>1. r \in Request /\ r.type = type /\ r.a = a /\ r.from = c /\ r.wts = w BY DEF Request
<1>2. LineInv(a) /\ NoRequestTwice BY DEF OwnInv
<1>3. r \notin Open
  <2>1. SUFFICES ASSUME r \in Open PROVE FALSE OBVIOUS
  <2>2. r \in OpenOf(a) BY <1>1, <2>1 DEF OpenOf
  <2>3. State(c, a) \in {"IS", "S_EXP", "IE", "SE"}
    BY <1>1, <1>2, <2>2 DEF LineInv, RequestsMatch, AsksToRead, AsksToWrite
  <2>4. QED BY <2>3
<1>4. Open' = Open \cup {r}
  <2>1. reqQ' = Append(reqQ, r) /\ waitQ' = waitQ BY DEF SendRequest, L1Unchanged
  <2>2. QED BY <1>1, <1>2, <1>3, <2>1, RequestSent
<1> HIDE DEF r
<1>5. OpenOf(a)' = OpenOf(a) \cup {r} /\ \A y \in Lines \ {a} : OpenOf(y)' = OpenOf(y)
  BY <1>1, <1>4, Views
<1>6. \A y \in Lines : BackOf(y)' = BackOf(y) /\ RepOf(y)' = RepOf(y) BY QueuesKept, Views
<1>7. e.st \in Copying => e.rts \in Leases(a) /\ \E n \in Copies(a) : SameVersion(e, n)
  <2>1. State(c, a) \in Copying => l1[c][a] \in Copies(a) BY DEF Copies
  <2>2. QED BY <2>1 DEF Leases
<1>8. written' = written OBVIOUS
<1>9. \A q \in OpenOf(a)' : \/ q \in OpenOf(a)
                            \/ q.from = c /\ (q.type = "EX_REQ" /\ q.wts > 0 => e.wts = q.wts)
  BY <1>1, <1>5
<1>10. QED BY <1>5, <1>6, <1>7, <1>8, <1>9, CopyMoves

\* A copy keeps its version and its lease, or goes; at most a message that grants nothing is
\* taken.
LEMMA KeepMoves ==
    ASSUME TypeInv, NEW c \in Cores, NEW a \in Lines, NEW e \in L1Entry, SetEntry(c, a, e),
           e.st = "E" <=> State(c, a) = "E",
           e.st = "E" => SameVersion(e, l1[c][a]),
           e.st \in Copying => /\ State(c, a) \in Copying /\ SameVersion(e, l1[c][a])
                               /\ e.rts = l1[c][a].rts,
           UNCHANGED <<reqQ, rspQ, written>>, L1Unchanged,
           rep' = rep \/ \E m \in rep : ~IsGrant(m) /\ m.a = a /\ rep' = rep \ {m}
    PROVE  \A y \in Lines : Moves(y)
<1>1. waitQ' = waitQ /\ written' = written BY DEF L1Unchanged
<1>2. Open' = Open /\ Back' = Back BY <1>1, QueuesKept
<1>3. \A y \in Lines : OpenOf(y)' = OpenOf(y) /\ BackOf(y)' = BackOf(y) BY <1>2, Views
<1>4. /\ RepOf(a)' \subseteq RepOf(a) /\ \A m \in RepOf(a) : IsGrant(m) => m \in RepOf(a)'
      /\ \A y \in Lines \ {a} : RepOf(y)' = RepOf(y)
  <2>1. CASE rep' = rep BY <2>1, Views
  <2>2. CASE \E m \in rep : ~IsGrant(m) /\ m.a = a /\ rep' = rep \ {m}
    <3>1. PICK m \in rep : ~IsGrant(m) /\ m.a = a /\ rep' = rep \ {m} BY <2>2
    <3>2. QED BY <3>1, Views
  <2>3. QED BY <2>1, <2>2
<1>5. e.st \in Copying => e.rts \in Leases(a) /\ \E n \in Copies(a) : SameVersion(e, n)
  <2>1. State(c, a) \in Copying => l1[c][a] \in Copies(a) BY DEF Copies
  <2>2. QED BY <2>1 DEF Leases
<1>6. e.st = "SE" /\ State(c, a) = "SE" => SameVersion(e, l1[c][a]) BY DEF Copying
<1>7. QED BY <1>1, <1>3, <1>4, <1>5, <1>6, CopyMoves

\* A store, and the return of a line.
LEMMA StoreMoves ==
    ASSUME TypeInv, NEW c \in Cores, NEW a \in Lines, NEW e \in L1Entry, SetEntry(c, a, e),
           e.st = "E", L1Unchanged, UNCHANGED <<reqQ, rspQ>>,
           written' = [written EXCEPT ![a] = written[a] + 1],
           \/ /\ State(c, a) = "E" /\ e.val = l1[c][a].val + 1 /\ e.wts > l1[c][a].rts
              /\ rep' = rep
           \/ \E m \in rep :
                /\ m.a = a /\ IsGrant(m) /\ m.to = c /\ rep' = rep \ {m}
                /\ e.val = (IF m.type = "EX_REP" THEN m.val ELSE l1[c][a].val) + 1
                /\ e.wts > m.rts \/ ExRepUpgrade(c, m)
    PROVE  \A y \in Lines : Moves(y)
<1>1. CopyStep(c, a, e) /\ \A y \in Lines \ {a} : CopiesKept(y) BY SetEntryStep
<1>2. \A d \in Cores : l1'[d][a] = IF d = c THEN e ELSE l1[d][a] BY <1>1 DEF CopyStep
<1>3. dir' = dir /\ mts' = mts /\ current' = current /\ waitQ' = waitQ
  BY DEF L1Unchanged, dirVars
<1>4. Open' = Open /\ Back' = Back BY <1>3, QueuesKept
<1>5. \A y \in Lines : OpenOf(y)' = OpenOf(y) /\ BackOf(y)' = BackOf(y) BY <1>4, Views
<1>6. written \in [Lines -> Nat] BY DEF TypeInv, TypeOK, HistoryTypeOK
<1>7. written'[a] = written[a] + 1 /\ \A y \in Lines \ {a} : written'[y] = written[y] BY <1>6
<1>8. \A y \in Lines \ {a} : RepOf(y)' = RepOf(y)
  <2>1. CASE rep' = rep BY <2>1, Views
  <2>2. CASE \E m \in rep : m.a = a /\ rep' = rep \ {m}
    <3>1. PICK m \in rep : m.a = a /\ rep' = rep \ {m} BY <2>2
    <3>2. QED BY <3>1, Views
  <2>3. QED BY <2>1, <2>2
<1>9. StoredBy(c, a)
  <2>1. CASE /\ State(c, a) = "E" /\ e.val = l1[c][a].val + 1 /\ e.wts > l1[c][a].rts
             /\ rep' = rep
    <3>1. RepOf(a)' = RepOf(a) BY <2>1, Views
    <3>2. QED BY <1>2, <1>3, <1>5, <1>7, <2>1, <3>1 DEF StoredBy
  <2>2. ASSUME NEW m \in rep, m.a = a, IsGrant(m), m.to = c, rep' = rep \ {m},
               e.val = (IF m.type = "EX_REP" THEN m.val ELSE l1[c][a].val) + 1,
               e.wts > m.rts \/ ExRepUpgrade(c, m)
        PROVE  StoredBy(c, a)
    <3>1. m \in RepOf(a) /\ RepOf(a)' = RepOf(a) \ {m} BY <2>2, Views DEF RepOf
    <3>2. QED BY <1>2, <1>3, <1>5, <1>7, <2>2, <3>1 DEF StoredBy
  <2>3. QED BY <2>1, <2>2
<1>10. UpgradersKept(a) BY <1>2 DEF UpgradersKept, State, SameVersion
<1>11. RequestsPass(a) BY <1>5 DEF RequestsPass
<1>12. Moves(a) BY <1>9, <1>10, <1>11 DEF Moves, LineMoves
<1>13. QED BY <1>1, <1>5, <1>7, <1>8, <1>12, CoreMoves

\* The owner hands its line back.
LEMMA HandBackMoves ==
    ASSUME TypeInv, OwnInv, NEW c \in Cores, NEW a \in Lines, State(c, a) = "E",
           NEW e \in L1Entry, SetEntry(c, a, e), e.st \in {"EI", "S_LSD"},
           SameVersion(e, l1[c][a]),
           NEW b \in FromCache, b.a = a, rspQ' = Append(rspQ, b), SameVersion(b, l1[c][a]),
           e.st = "S_LSD" => e.rts = b.rts,
           L1Unchanged, UNCHANGED <<reqQ, rep, written>>
    PROVE  \A y \in Lines : Moves(y)
<1>1. CopyStep(c, a, e) /\ \A y \in Lines \ {a} : CopiesKept(y) BY SetEntryStep
<1>2. \A d \in Cores : l1'[d][a] = IF d = c THEN e ELSE l1[d][a] BY <1>1 DEF CopyStep
<1>3. dir' = dir /\ mts' = mts /\ current' = current /\ waitQ' = waitQ
  BY DEF L1Unchanged, dirVars
<1>4. BackOf(a) = {}
  <2>1. \A d \in BackOf(a) : State(c, a) # "E" BY DEF OwnInv, LineInv, OneToken
  <2>2. QED BY <2>1
<1>5. Back' = Back \cup {b} BY <1>4, ResponseSent DEF OwnInv
<1>6. Open' = Open BY <1>3, QueuesKept
<1>7. \A y \in Lines : OpenOf(y)' = OpenOf(y) /\ RepOf(y)' = RepOf(y) BY <1>6, Views
<1>8. BackOf(a)' = BackOf(a) \cup {b} /\ \A y \in Lines \ {a} : BackOf(y)' = BackOf(y)
  BY <1>5, Views
<1>9. HandedBackBy(c, b, a)
  BY <1>2, <1>3, <1>7, <1>8 DEF HandedBackBy, SameVersion
<1>10. UpgradersKept(a) BY <1>2 DEF UpgradersKept, State, SameVersion
<1>11. RequestsPass(a) BY <1>7 DEF RequestsPass
<1>12. Moves(a) BY <1>9, <1>10, <1>11 DEF Moves, LineMoves
<1>13. QED BY <1>1, <1>7, <1>8, <1>12, CoreMoves

\* The peek of mandatory_in leaves a copy the version it was.
LEMMA PeekVersion ==
    ASSUME TypeInv, NEW c \in Cores, Pending(c)
    PROVE  SameVersion(Peek(c).e, l1[c][Peek(c).a])
<1> DEFINE r == Head(mq[c])
           e == l1[c][r.a]
           counted == r.op = "LD" /\ e.st # "I"
<1>1. Peek(c).a \in Lines /\ Peek(c).a = r.a BY PeekKeeps
<1>2. e \in L1Entry BY <1>1 DEF TypeInv, TypeOK, L1TypeOK
<1>3. Peek(c).e = IF counted THEN CountLoad(e) ELSE e BY Zenon DEF Peek, Entry
<1>4. CountLoad(e).wts = e.wts /\ CountLoad(e).val = e.val BY <1>2 DEF CountLoad, L1Entry
<1>5. QED BY <1>1, <1>3, <1>4 DEF SameVersion

\* A store is a new version, after the leases of the one it is made on.
LEMMA StoredVersion ==
    ASSUME NEW e \in L1Entry, NEW s \in Nat
    PROVE  /\ Stored(e, s) \in L1Entry /\ Stored(e, s).st = "E"
           /\ Stored(e, s).val = e.val + 1 /\ Stored(e, s).wts > e.rts
<1> DEFINE t == Max2(s, e.rts + 1)
           v == e.val + 1
<1>1. e.rts \in Nat /\ e.val \in Nat /\ e.rts + 1 \in Nat BY DEF L1Entry
<1>2. t \in Nat /\ t >= e.rts + 1 BY <1>1, MaxType
<1>3. Stored(e, s) = [e EXCEPT !.st = "E", !.wts = t, !.rts = t, !.val = v]
  BY Zenon DEF Stored
<1>4. Stored(e, s) \in L1Entry BY StoredType
<1> HIDE DEF t, v
<1>5. Stored(e, s).st = "E" /\ Stored(e, s).wts = t /\ Stored(e, s).val = v
  BY <1>3 DEF L1Entry
<1>6. QED BY <1>1, <1>2, <1>4, <1>5 DEF v

\* The transitions on a request of the core.
LEMMA MandatoryMoves ==
    ASSUME TypeInv, OwnInv, NEW c \in Cores,
           \/ Miss(c) \/ LoadHit(c) \/ Renew(c) \/ Upgrade(c)
           \/ OwnerLoad(c) \/ OwnerStore(c) \/ MandatoryStall(c)
    PROVE  \A y \in Lines : Moves(y)
<1> DEFINE p == Peek(c)
           a == p.a
<1>1. Pending(c) /\ L1Unchanged
  BY DEF Miss, LoadHit, Renew, Upgrade, OwnerLoad, OwnerStore, MandatoryStall, Mandatory
<1>2. /\ a \in Lines /\ a = Head(mq[c]).a /\ p.lts \in Nat /\ p.e \in L1Entry
      /\ p.e.st = State(c, a) /\ p.e.wts = l1[c][a].wts /\ p.e.rts = l1[c][a].rts
  BY <1>1, PeekKeeps
<1>3. p.sts \in Nat BY <1>1, PeekType DEF TypeInv
<1>4. SameVersion(p.e, l1[c][a]) BY <1>1, PeekVersion
<1>5. p.e.wts \in Nat /\ p.e.rts \in Nat BY <1>2 DEF L1Entry
<1>6. State(c, a) = Entry(c, Head(mq[c]).a).st BY <1>2 DEF State, Entry
<1> HIDE DEF p
<1>7. CASE Miss(c)
  <2>1. State(c, a) = "I" BY <1>6, <1>7 DEF Miss, Mandatory
  <2>2. UNCHANGED <<rspQ, rep, written>> BY <1>7 DEF Miss
  <2>3. CASE p.ev = "Load"
    <3> DEFINE e == [NewEntry EXCEPT !.st = "IS"]
    <3>1. SetEntry(c, a, e) /\ SendRequest(c, "SH_REQ", a, 0, p.lts)
      BY <1>7, <2>3 DEF Miss, p
    <3>2. e \in L1Entry /\ e.st = "IS" BY NewEntryType DEF L1States
    <3> HIDE DEF e
    <3>3. QED BY <1>1, <1>2, <2>1, <2>2, <3>1, <3>2, AskMoves DEF Copying
  <2>4. CASE p.ev # "Load"
    <3> DEFINE e == [NewEntry EXCEPT !.st = "IE"]
    <3>1. SetEntry(c, a, e) /\ SendRequest(c, "EX_REQ", a, 0, 0)
      BY <1>7, <2>4 DEF Miss, p
    <3>2. e \in L1Entry /\ e.st = "IE" BY NewEntryType DEF L1States
    <3> HIDE DEF e
    <3>3. QED BY <1>1, <1>2, <2>1, <2>2, <3>1, <3>2, AskMoves DEF Copying
  <2>5. QED BY <2>3, <2>4
<1>8. CASE Renew(c)
  <2> DEFINE e == [p.e EXCEPT !.st = "S_EXP"]
  <2>1. State(c, a) = "S_LSD" BY <1>6, <1>8 DEF Renew, Mandatory
  <2>2. UNCHANGED <<rspQ, rep, written>> BY <1>8 DEF Renew
  <2>3. SetEntry(c, a, e) /\ SendRequest(c, "SH_REQ", a, p.e.wts, p.lts) BY <1>8 DEF Renew, p
  <2>4. e \in L1Entry /\ e.st = "S_EXP" /\ e.wts = p.e.wts /\ e.rts = p.e.rts /\ e.val = p.e.val
    BY <1>2 DEF L1Entry, L1States
  <2> HIDE DEF e
  <2>5. SameVersion(e, l1[c][a]) BY <1>4, <2>4 DEF SameVersion
  <2>6. QED BY <1>1, <1>2, <1>5, <2>1, <2>2, <2>3, <2>4, <2>5, AskMoves DEF Copying
<1>9. CASE Upgrade(c)
  <2> DEFINE e == [p.e EXCEPT !.st = "SE"]
  <2>1. State(c, a) = "S_LSD" BY <1>6, <1>9 DEF Upgrade, Mandatory
  <2>2. UNCHANGED <<rspQ, rep, written>> BY <1>9 DEF Upgrade
  <2>3. SetEntry(c, a, e) /\ SendRequest(c, "EX_REQ", a, p.e.wts, 0) BY <1>9 DEF Upgrade, p
  <2>4. e \in L1Entry /\ e.st = "SE" /\ e.wts = p.e.wts /\ e.rts = p.e.rts /\ e.val = p.e.val
    BY <1>2 DEF L1Entry, L1States
  <2> HIDE DEF e
  <2>5. SameVersion(e, l1[c][a]) BY <1>4, <2>4 DEF SameVersion
  <2>6. QED BY <1>1, <1>2, <1>5, <2>1, <2>2, <2>3, <2>4, <2>5, AskMoves DEF Copying
<1>10. CASE LoadHit(c) \/ MandatoryStall(c)
  <2>1. SetEntry(c, a, p.e) BY <1>10 DEF LoadHit, MandatoryStall, p
  <2>2. UNCHANGED <<reqQ, rspQ, rep, written>> BY <1>10 DEF LoadHit, MandatoryStall
  <2>3. QED BY <1>1, <1>2, <1>4, <2>1, <2>2, KeepMoves
<1>11. CASE OwnerLoad(c)
  <2> DEFINE r == Max2(Max2(p.lts, p.e.wts), p.e.rts)
             e == [p.e EXCEPT !.rts = r]
  <2>1. State(c, a) = "E" BY <1>6, <1>11 DEF OwnerLoad, Mandatory
  <2>2. UNCHANGED <<reqQ, rspQ, rep, written>> BY <1>11 DEF OwnerLoad
  <2>3. SetEntry(c, a, e) BY <1>11 DEF OwnerLoad, p
  <2>4. r \in Nat BY <1>2, <1>5, MaxType
  <2> HIDE DEF r
  <2>5. e \in L1Entry /\ e.st = p.e.st /\ e.wts = p.e.wts /\ e.val = p.e.val
    BY <1>2, <2>4 DEF L1Entry
  <2> HIDE DEF e
  <2>6. SameVersion(e, l1[c][a]) BY <1>4, <2>5 DEF SameVersion
  <2>7. QED BY <1>1, <1>2, <2>1, <2>2, <2>3, <2>5, <2>6, KeepMoves DEF Copying
<1>12. CASE OwnerStore(c)
  <2> DEFINE e == Stored(p.e, p.sts)
  <2>1. State(c, a) = "E" BY <1>6, <1>12 DEF OwnerStore, Mandatory
  <2>2. UNCHANGED <<reqQ, rspQ, rep>> BY <1>12 DEF OwnerStore
  <2>3. SetEntry(c, a, e) /\ written' = [written EXCEPT ![a] = written[a] + 1]
    BY <1>12 DEF OwnerStore, p
  <2>4. e \in L1Entry /\ e.st = "E" /\ e.val = p.e.val + 1 /\ e.wts > p.e.rts
    BY <1>2, <1>3, StoredVersion
  <2> HIDE DEF e
  <2>5. e.val = l1[c][a].val + 1 /\ e.wts > l1[c][a].rts BY <1>2, <1>4, <2>4 DEF SameVersion
  <2>6. QED BY <1>1, <1>2, <2>1, <2>2, <2>3, <2>4, <2>5, StoreMoves
<1>13. QED BY <1>7, <1>8, <1>9, <1>10, <1>11, <1>12

\* Its evictions.
LEMMA EvictionMoves ==
    ASSUME TypeInv, OwnInv, NEW c \in Cores, NEW v \in Lines,
           EvictShared(c, v) \/ EvictOwned(c, v) \/ EvictStall(c, v)
    PROVE  \A y \in Lines : Moves(y)
<1> DEFINE e == l1[c][v]
<1>1. L1Unchanged /\ UNCHANGED <<reqQ, rep, written>> BY DEF EvictShared, EvictOwned, EvictStall
<1>2. e \in L1Entry BY DEF TypeInv, TypeOK, L1TypeOK
<1>3. CASE EvictStall(c, v)
  <2>1. l1' = l1 /\ rspQ' = rspQ BY <1>3 DEF EvictStall
  <2>2. SetEntry(c, v, e) BY <2>1 DEF SetEntry, TypeInv, TypeOK, L1TypeOK
  <2>3. e.st = State(c, v) /\ SameVersion(e, l1[c][v]) /\ e.rts = l1[c][v].rts
    BY DEF State, SameVersion
  <2> HIDE DEF e
  <2>4. QED BY <1>1, <1>2, <2>1, <2>2, <2>3, KeepMoves
<1>4. CASE EvictShared(c, v)
  <2>1. State(c, v) = "S_LSD" /\ SetEntry(c, v, NewEntry) /\ rspQ' = rspQ
    BY <1>4 DEF EvictShared, Victim, Entry, State
  <2>2. QED BY <1>1, <2>1, NewEntryType, KeepMoves DEF Copying
<1>5. CASE EvictOwned(c, v)
  <2> DEFINE n == [e EXCEPT !.st = "EI"]
             b == [type |-> "PUT_REP", a |-> v, from |-> c,
                   wts |-> e.wts, rts |-> e.rts, val |-> e.val]
  <2>1. State(c, v) = "E" /\ SetEntry(c, v, n) /\ rspQ' = Append(rspQ, b)
    BY <1>5 DEF EvictOwned, Victim, Entry, State
  <2>2. n \in L1Entry /\ n.st = "EI" /\ SameVersion(n, e)
    BY <1>2 DEF L1Entry, L1States, SameVersion
  <2>3. b \in FromCache /\ b.a = v /\ SameVersion(b, e)
    BY <1>2 DEF FromCache, L1Entry, SameVersion
  <2> HIDE DEF n, b
  <2>4. QED BY <1>1, <2>1, <2>2, <2>3, HandBackMoves
<1>6. QED BY <1>3, <1>4, <1>5

\* The replies it receives.
LEMMA ResponseMoves ==
    ASSUME TypeInv, OwnInv, NEW c \in Cores, NEW m \in rep,
           \/ ShRep(c, m) \/ RenewRep(c, m) \/ ExRepMiss(c, m)
           \/ ExRepUpgrade(c, m) \/ UpgRep(c, m) \/ AckRep(c, m)
    PROVE  \A y \in Lines : Moves(y)
<1> DEFINE a == m.a
           e == l1[c][a]
<1>1. L1Unchanged /\ UNCHANGED <<reqQ, rspQ>> /\ m.to = c /\ rep' = rep \ {m}
  BY DEF ShRep, RenewRep, ExRepMiss, ExRepUpgrade, UpgRep, AckRep, Response, CompleteStore
<1>2. m \in ToCache /\ a \in Lines /\ m.wts \in Nat /\ m.rts \in Nat /\ m.val \in Nat
  <2>1. m \in ToCache BY DEF TypeInv, TypeOK, BuffersTypeOK
  <2>2. QED BY <2>1 DEF ToCache
<1>3. e \in L1Entry /\ sts[c] \in Nat /\ e.val \in Nat
  <2>1. e \in L1Entry /\ sts[c] \in Nat BY <1>2 DEF TypeInv, TypeOK, L1TypeOK
  <2>2. QED BY <2>1 DEF L1Entry
<1>4. m \in RepOf(a) /\ waitQ' = waitQ BY <1>1 DEF RepOf, L1Unchanged
<1>5. Open' = Open /\ Back' = Back BY <1>1, <1>4, QueuesKept
<1>6. /\ \A y \in Lines : OpenOf(y)' = OpenOf(y) /\ BackOf(y)' = BackOf(y)
      /\ RepOf(a)' = RepOf(a) \ {m} /\ \A y \in Lines \ {a} : RepOf(y)' = RepOf(y)
  BY <1>1, <1>5, Views
<1>7. ASSUME NEW t \in L1Entry, CompleteStore(c, m, t), m.type \in {"EX_REP", "UPGR_REP"},
             t.val = (IF m.type = "EX_REP" THEN m.val ELSE e.val),
             t.rts = m.rts \/ ExRepUpgrade(c, m)
      PROVE  \A y \in Lines : Moves(y)
  <2> DEFINE n == Stored(t, sts[c])
  <2>1. n \in L1Entry /\ n.st = "E" /\ n.val = t.val + 1 /\ n.wts > t.rts
    BY <1>3, StoredVersion
  <2>2. SetEntry(c, a, n) /\ written' = [written EXCEPT ![a] = written[a] + 1]
    BY <1>7 DEF CompleteStore
  <2> HIDE DEF n
  <2>3. n.val = (IF m.type = "EX_REP" THEN m.val ELSE e.val) + 1 BY <1>7, <2>1
  <2>4. n.wts > m.rts \/ ExRepUpgrade(c, m) BY <1>7, <2>1
  <2>5. QED BY <1>1, <1>2, <1>7, <2>1, <2>2, <2>3, <2>4, StoreMoves DEF IsGrant
<1>8. CASE ShRep(c, m)
  <2> DEFINE n == [e EXCEPT !.st = "S_LSD", !.val = m.val, !.wts = m.wts, !.rts = m.rts]
  <2>1. /\ SetEntry(c, a, n) /\ m.type = "SH_REP" /\ written' = written
        /\ State(c, a) \in {"IS", "S_EXP"}
    BY <1>8 DEF ShRep, Response, Entry, State
  <2>2. n \in L1Entry /\ n.st = "S_LSD" /\ SameVersion(n, m) /\ n.rts = m.rts
    BY <1>2, <1>3 DEF L1Entry, L1States, SameVersion
  <2> HIDE DEF n
  <2>3. m \in Copies(a) BY <1>4, <2>1 DEF Copies
  <2>4. n.rts \in Leases(a) BY <2>2, <2>3 DEF Leases
  <2>5. ~IsGrant(m) BY <2>1 DEF IsGrant
  <2>6. QED BY <1>1, <1>2, <1>6, <2>1, <2>2, <2>3, <2>4, <2>5, CopyMoves
<1>9. CASE RenewRep(c, m)
  <2> DEFINE n == [e EXCEPT !.st = "S_LSD", !.rts = m.rts]
  <2>1. /\ SetEntry(c, a, n) /\ m.type = "RENEW_REP" /\ written' = written
        /\ State(c, a) = "S_EXP"
    BY <1>9 DEF RenewRep, Response, Entry, State
  <2>2. n \in L1Entry /\ n.st = "S_LSD" /\ SameVersion(n, e) /\ n.rts = m.rts
    BY <1>2, <1>3 DEF L1Entry, L1States, SameVersion
  <2> HIDE DEF n
  <2>3. e \in Copies(a) BY <1>2, <2>1 DEF Copies, Copying
  <2>4. n.rts \in Leases(a) BY <1>4, <2>1, <2>2 DEF Leases
  <2>5. ~IsGrant(m) BY <2>1 DEF IsGrant
  <2>6. QED BY <1>1, <1>2, <1>6, <2>1, <2>2, <2>3, <2>4, <2>5, CopyMoves
<1>10. CASE ExRepMiss(c, m)
  <2> DEFINE t == [e EXCEPT !.val = m.val, !.wts = m.wts, !.rts = m.rts]
  <2>1. t \in L1Entry /\ t.val = m.val /\ t.rts = m.rts BY <1>2, <1>3 DEF L1Entry
  <2>2. CompleteStore(c, m, t) /\ m.type = "EX_REP" BY <1>10 DEF ExRepMiss, Response, Entry
  <2> HIDE DEF t
  <2>3. QED BY <1>7, <2>1, <2>2
<1>11. CASE ExRepUpgrade(c, m)
  <2> DEFINE t == [e EXCEPT !.val = m.val]
  <2>1. t \in L1Entry /\ t.val = m.val BY <1>2, <1>3 DEF L1Entry
  <2>2. CompleteStore(c, m, t) /\ m.type = "EX_REP" BY <1>11 DEF ExRepUpgrade, Response, Entry
  <2> HIDE DEF t
  <2>3. QED BY <1>7, <1>11, <2>1, <2>2
<1>12. CASE UpgRep(c, m)
  <2> DEFINE t == [e EXCEPT !.rts = m.rts]
  <2>1. t \in L1Entry /\ t.val = e.val /\ t.rts = m.rts BY <1>2, <1>3 DEF L1Entry
  <2>2. CompleteStore(c, m, t) /\ m.type = "UPGR_REP" BY <1>12 DEF UpgRep, Response, Entry
  <2> HIDE DEF t
  <2>3. QED BY <1>7, <2>1, <2>2
<1>13. CASE AckRep(c, m)
  <2>1. /\ SetEntry(c, a, NewEntry) /\ m.type = "ACK_REP" /\ written' = written
        /\ State(c, a) = "EI"
    BY <1>13 DEF AckRep, Response, Entry, State
  <2>2. ~IsGrant(m) BY <2>1 DEF IsGrant
  <2>3. QED BY <1>1, <1>2, <1>6, <2>1, <2>2, NewEntryType, CopyMoves DEF Copying
<1>14. QED BY <1>8, <1>9, <1>10, <1>11, <1>12, <1>13

\* The recalls it receives.
LEMMA ForwardMoves ==
    ASSUME TypeInv, OwnInv, NEW c \in Cores, NEW m \in fwd,
           FlushReq(c, m) \/ FlushReqEvicting(c, m)
    PROVE  \A y \in Lines : Moves(y)
<1> DEFINE a == m.a
           e == l1[c][a]
<1>1. L1Unchanged /\ UNCHANGED <<reqQ, rep, written>> BY DEF FlushReq, FlushReqEvicting
<1>2. m \in Forward /\ a \in Lines /\ m.rts \in Nat
  <2>1. m \in Forward BY DEF TypeInv, TypeOK, BuffersTypeOK
  <2>2. QED BY <2>1 DEF Forward
<1> HIDE DEF a
<1>3. e \in L1Entry BY <1>2 DEF TypeInv, TypeOK, L1TypeOK
<1>4. CASE FlushReq(c, m)
  <2> DEFINE s == Max2(e.rts, e.wts + Lease)
             r == Max2(s, m.rts)
             n == Leased(e, r)
             b == [type |-> "WB_REP", a |-> a, from |-> c,
                   wts |-> e.wts, rts |-> r, val |-> e.val]
  <2>1. State(c, a) = "E" /\ SetEntry(c, a, n) /\ rspQ' = Append(rspQ, b)
    BY <1>4 DEF FlushReq, Entry, State, a
  <2>2. e.wts \in Nat /\ e.rts \in Nat /\ e.val \in Nat /\ e.wts + Lease \in Nat
    BY <1>3, NumbersAssumption DEF L1Entry
  <2>3. r \in Nat
    <3>1. s \in Nat BY <2>2, MaxType
    <3> HIDE DEF s
    <3>2. QED BY <1>2, <3>1, MaxType
  <2> HIDE DEF r
  <2>4. n \in L1Entry /\ n.st = "S_LSD" /\ SameVersion(n, e) /\ n.rts = r
    BY <1>3, <2>3 DEF Leased, L1Entry, L1States, SameVersion
  <2>5. b \in FromCache /\ b.a = a /\ SameVersion(b, e) /\ b.rts = r
    BY <1>2, <2>2, <2>3 DEF FromCache, SameVersion
  <2> HIDE DEF n, b
  <2>6. QED BY <1>1, <1>2, <2>1, <2>4, <2>5, HandBackMoves
<1>5. CASE FlushReqEvicting(c, m)
  <2>1. State(c, a) = "EI" /\ SetEntry(c, a, NewEntry) /\ rspQ' = rspQ
    BY <1>5 DEF FlushReqEvicting, Entry, State, a
  <2>2. QED BY <1>1, <1>2, <2>1, NewEntryType, KeepMoves DEF Copying
<1>6. QED BY <1>4, <1>5

\* A step that changes neither the copies nor the messages nor the entries.
LEMMA NothingMoves ==
    ASSUME TypeInv, UNCHANGED <<l1, chanVars, dir, mts, current, written>>
    PROVE  \A y \in Lines : Moves(y)
<1> SUFFICES ASSUME NEW y \in Lines PROVE Moves(y) OBVIOUS
<1>1. Open' = Open /\ Back' = Back /\ rep' = rep BY QueuesKept DEF chanVars
<1>2. RepOf(y)' = RepOf(y) /\ BackOf(y)' = BackOf(y) /\ OpenOf(y)' = OpenOf(y) BY <1>1, Views
<1>3. DirPasses(y) BY EntryPasses
<1>4. mts' >= mts BY MtsType
<1>5. CopiesKept(y) BY DEF CopiesKept
<1>6. QED BY <1>2, <1>3, <1>4, <1>5, StillMoves

\* Every step of an L1.
LEMMA L1Moves ==
    ASSUME TypeInv, OwnInv, NEW c \in Cores, L1Next(c)
    PROVE  \A y \in Lines : Moves(y)
<1>1. CASE CoreIssue(c)
  BY <1>1, NothingMoves DEF CoreIssue, dirVars, ghostVars
<1>2. CASE MandatoryPanic(c) \/ \E m \in fwd : FlushReqPanic(c, m)
  BY <1>2, NothingMoves DEF MandatoryPanic, FlushReqPanic, dirVars, ghostVars, l1Vars
<1>3. CASE \/ Miss(c) \/ LoadHit(c) \/ Renew(c) \/ Upgrade(c)
           \/ OwnerLoad(c) \/ OwnerStore(c) \/ MandatoryStall(c)
  BY <1>3, MandatoryMoves
<1>4. CASE \E v \in Lines : EvictShared(c, v) \/ EvictOwned(c, v) \/ EvictStall(c, v)
  BY <1>4, EvictionMoves
<1>5. CASE \E m \in rep : \/ ShRep(c, m) \/ RenewRep(c, m) \/ ExRepMiss(c, m)
                          \/ ExRepUpgrade(c, m) \/ UpgRep(c, m) \/ AckRep(c, m)
  BY <1>5, ResponseMoves
<1>6. CASE \E m \in fwd : FlushReq(c, m) \/ FlushReqEvicting(c, m)
  BY <1>6, ForwardMoves
<1>7. QED BY <1>1, <1>2, <1>3, <1>4, <1>5, <1>6 DEF L1Next

-----------------------------------------------------------------------------
(* The steps of the directory.                                             *)

\* An entry that keeps its version: its lease may grow, and its version may be taken
\* for one at mts from now on.
Passes(d, e) ==
    /\ e.wts = d.wts /\ e.rts >= d.rts
    /\ e.st = "IS" \/ (d.st # "IS" /\ (e.st \in AtMts <=> d.st \in AtMts))

\* A new entry that keeps the version of its line.
LEMMA EntryMoves ==
    ASSUME TypeInv, NEW a \in Addrs, NEW D \in [Addrs -> DirEntry], \A y \in Lines : D[y] = dir[y],
           NEW e, dir' = [D EXCEPT ![a] = e], Passes(dir[a], e),
           DirUnchanged, rep' = rep, Back' = Back, Open' \subseteq Open,
           current' = current, mts' >= mts
    PROVE  \A y \in Lines : Moves(y)
<1>1. ASSUME NEW y \in Lines PROVE DirPasses(y)
  <2>1. y \in Addrs BY DEF Addrs
  <2>2. CASE y = a
    <3>1. dir'[y] = e BY <2>1, <2>2
    <3>2. QED BY <2>2, <3>1 DEF DirPasses, Passes
  <2>3. CASE y # a
    <3>1. dir'[y] = dir[y] BY <2>1, <2>3
    <3>2. QED BY <3>1, EntryPasses
  <2>4. QED BY <2>2, <2>3
<1>2. QED BY <1>1, DirMoves

\* The lease a request reserves.
LEMMA ReservedPasses ==
    ASSUME TypeInv, reqQ # <<>>, NEW a, a = Req.a
    PROVE  /\ Reserved \in DirEntry /\ Reserved.st = dir[a].st /\ dir[a] \in DirEntry
           /\ Reserved.wts = dir[a].wts /\ Reserved.rts >= dir[a].rts
           /\ dir[a].rts >= dir[a].rts
<1> DEFINE e == dir[a]
           n == Max2(e.wts + Lease, Req.lts + Lease)
           r == Max2(e.rts, n)
<1>1. e \in DirEntry /\ Req.lts \in Nat BY ReqType
<1>2. e.wts \in Nat /\ e.rts \in Nat /\ e.wts + Lease \in Nat /\ Req.lts + Lease \in Nat
  BY <1>1, NumbersAssumption DEF DirEntry
<1>3. n \in Nat BY <1>2, MaxType
<1> HIDE DEF n
<1>4. r \in Nat /\ r >= e.rts BY <1>2, <1>3, MaxType
<1>5. Reserved \in {e, [e EXCEPT !.rts = r]} BY Zenon DEF Reserved, r, n
<1> HIDE DEF r
<1>6. QED BY <1>1, <1>2, <1>4, <1>5 DEF DirEntry

\* A step at the request port that answers nobody.
LEMMA RequestKeptMoves ==
    ASSUME TypeInv, OwnInv,
           \/ FetchFromMemory \/ WritebackOwner \/ FlushOwner \/ AuthMiss \/ AuthWait
           \/ Bounce \/ RequestStall
    PROVE  \A y \in Lines : Moves(y)
<1> SUFFICES ASSUME NEW a, a = Req.a PROVE \A y \in Lines : Moves(y) OBVIOUS
<1>1. /\ reqQ # <<>> /\ DirUnchanged /\ UNCHANGED <<rspQ, rep, mts, current>>
  BY DEF FetchFromMemory, WritebackOwner, FlushOwner, AuthMiss, AuthWait, Bounce, RequestStall,
         AtRequest, chanVars
<1>2. a \in Addrs BY <1>1, ReqType
<1>3. /\ Reserved \in DirEntry /\ Reserved.st = dir[a].st /\ dir[a] \in DirEntry
      /\ Reserved.wts = dir[a].wts /\ Reserved.rts >= dir[a].rts /\ dir[a].rts >= dir[a].rts
  BY <1>1, ReservedPasses
<1>4. Open' \subseteq Open
  <2>1. CASE FetchFromMemory \/ WritebackOwner \/ FlushOwner
    <3>1. PopRequest BY <2>1 DEF FetchFromMemory, WritebackOwner, FlushOwner
    <3>2. QED BY <1>1, <3>1, RequestTaken DEF OwnInv
  <2>2. CASE AuthMiss \/ AuthWait
    BY <1>1, <2>2, RequestPutAside DEF OwnInv, AuthMiss, AuthWait
  <2>3. CASE Bounce
    BY <1>1, <2>3, RequestRecycled DEF OwnInv, Bounce
  <2>4. CASE RequestStall BY <2>4, QueuesKept DEF RequestStall, chanVars
  <2>5. QED BY <2>1, <2>2, <2>3, <2>4
<1>5. ASSUME NEW e, SetDir(a, e), Passes(dir[a], e) PROVE \A y \in Lines : Moves(y)
  <2>1. dir \in [Addrs -> DirEntry] /\ dir' = [dir EXCEPT ![a] = e]
    BY <1>5 DEF TypeInv, TypeOK, DirTypeOK, SetDir
  <2>2. Back' = Back /\ mts' >= mts BY <1>1, QueuesKept, MtsType
  <2>3. QED BY <1>1, <1>2, <1>4, <1>5, <2>1, <2>2, EntryMoves
<1>6. ASSUME NEW st, SetDir(a, [Reserved EXCEPT !.st = st]),
             st = "IS" \/ (dir[a].st # "IS" /\ (st \in AtMts <=> dir[a].st \in AtMts))
      PROVE  \A y \in Lines : Moves(y)
  <2> DEFINE e == [Reserved EXCEPT !.st = st]
  <2>1. e.st = st /\ e.wts = dir[a].wts /\ e.rts >= dir[a].rts BY <1>3 DEF DirEntry
  <2>2. SetDir(a, e) BY <1>6
  <2> HIDE DEF e
  <2>3. Passes(dir[a], e) BY <1>6, <2>1 DEF Passes
  <2>4. QED BY <1>5, <2>2, <2>3
<1>7. CASE FetchFromMemory
  <2> DEFINE st == IF Req.type = "SH_REQ" THEN "IS" ELSE IF dir[a].st = "I" THEN "IE" ELSE "SE"
  <2>1. SetDir(a, [Reserved EXCEPT !.st = st]) /\ dir[a].st \in {"I", "S"}
    BY <1>7 DEF FetchFromMemory, AtRequest
  <2>2. st = "IS" \/ (dir[a].st # "IS" /\ (st \in AtMts <=> dir[a].st \in AtMts))
    BY <2>1 DEF AtMts
  <2> HIDE DEF st
  <2>3. QED BY <1>6, <2>1, <2>2
<1>8. CASE WritebackOwner \/ FlushOwner
  <2>1. PICK d \in {Reserved, dir[a]}, st \in {"ES", "EE"} : SetDir(a, Recall(d, st))
    BY <1>8 DEF WritebackOwner, FlushOwner
  <2>2. dir[a].st = "E" BY <1>8 DEF WritebackOwner, FlushOwner, AtRequest
  <2> DEFINE e == Recall(d, st)
  <2>3. e.st = st /\ e.wts = dir[a].wts /\ e.rts >= dir[a].rts
    BY <1>3, <2>1 DEF Recall, DirEntry
  <2>4. SetDir(a, e) BY <2>1
  <2> HIDE DEF e
  <2>5. Passes(dir[a], e) BY <2>1, <2>2, <2>3 DEF Passes, AtMts
  <2>6. QED BY <1>5, <2>4, <2>5
<1>9. CASE AuthMiss
  <2>1. SetDir(a, [Reserved EXCEPT !.st = FetchState(dir[a].st)]) /\ dir[a].st \in {"I", "S", "E"}
    BY <1>9 DEF AuthMiss, AtRequest
  <2>2. dir[a].st # "IS" /\ (FetchState(dir[a].st) \in AtMts <=> dir[a].st \in AtMts)
    BY <2>1 DEF FetchState, AtMts
  <2>3. QED BY <1>6, <2>1, <2>2
<1>10. CASE Bounce
  <2>1. SetDir(a, [Reserved EXCEPT !.st = BaseState(dir[a].st)]) /\ dir[a].st \in FetchAuth
    BY <1>10 DEF Bounce, AtRequest
  <2>2. dir[a].st # "IS" /\ (BaseState(dir[a].st) \in AtMts <=> dir[a].st \in AtMts)
    BY <2>1 DEF BaseState, AtMts, FetchAuth
  <2>3. QED BY <1>6, <2>1, <2>2
<1>11. CASE AuthWait \/ RequestStall
  <2>1. SetDir(a, Reserved) BY <1>11 DEF AuthWait, RequestStall
  <2>2. Passes(dir[a], Reserved) BY <1>3 DEF Passes
  <2>3. QED BY <1>5, <2>1, <2>2
<1>12. QED BY <1>7, <1>8, <1>9, <1>10, <1>11

\* The entry and the reply of a step about one line.
LEMMA OneReply ==
    ASSUME TypeInv, NEW a \in Lines, NEW e, SetDir(a, e),
           NEW type, NEW c, NEW w, NEW n, NEW v, Reply(type, a, c, w, n, v)
    PROVE  LET m == ReplyMsg(type, a, c, w, n, v) IN
           /\ dir'[a] = e /\ RepOf(a)' = RepOf(a) \cup {m}
           /\ \A y \in Lines \ {a} : dir'[y] = dir[y] /\ RepOf(y)' = RepOf(y)
           /\ m.type = type /\ m.to = c /\ m.wts = w /\ m.rts = n /\ m.val = v
<1>1. a \in Addrs /\ Lines \subseteq Addrs BY DEF Addrs
<1>2. dir'[a] = e /\ \A y \in Lines \ {a} : dir'[y] = dir[y] BY <1>1, OneEntry
<1>3. ReplyMsg(type, a, c, w, n, v).val = v BY DEF ReplyMsg
<1>4. QED BY <1>2, <1>3, ReplyView

\* A version at mts is given.
LEMMA FreshGiven ==
    ASSUME TypeInv, NEW a \in Lines, NEW e, SetDir(a, e), dir[a].st \notin OutStates,
           e.st \in {"S", "E"}, e.wts = mts, e.rts >= mts,
           dir[a].st \in AtMts \ {"IS"} \/ e.rts >= dir[a].rts \/ LeaseCut(a),
           NEW type, NEW c, NEW w, NEW v, Reply(type, a, c, w, e.rts, v),
           type = "RENEW_REP" \/ (type \in {"SH_REP", "EX_REP"} /\ w = mts /\ v = current[a]),
           DirUnchanged, UNCHANGED <<rspQ, mts, current>>, Open' \subseteq Open
    PROVE  \A y \in Lines : Moves(y)
<1> DEFINE m == ReplyMsg(type, a, c, w, e.rts, v)
<1>1. /\ dir'[a] = e /\ RepOf(a)' = RepOf(a) \cup {m}
      /\ \A y \in Lines \ {a} : dir'[y] = dir[y] /\ RepOf(y)' = RepOf(y)
      /\ m.type = type /\ m.to = c /\ m.wts = w /\ m.rts = e.rts /\ m.val = v
  BY OneReply
<1> HIDE DEF m
<1>2. Back' = Back BY QueuesKept
<1>3. BackOf(a)' = BackOf(a) /\ CopiesKept(a) /\ written' = written
  BY <1>2, Views, CopiesStay DEF DirUnchanged
<1>4. Given(m, a)
  <2>1. dir'[a].st \notin AtMts BY <1>1 DEF AtMts
  <2> HIDE DEF LeaseCut
  <2>2. QED BY <1>1, <1>3, <2>1 DEF Given, CopiesKept
<1>5. QED BY <1>1, <1>2, <1>4, GivenMoves

\* What the LLC has of a line the directory answers for is what was last handed back.
LEMMA HitValue ==
    ASSUME MemInv, NEW a \in Lines, a = Req.a, dir[a].st \in {"I", "S"},
           ReqEvent \in {"ShReq_Hit", "ExReq_Hit"}
    PROVE  llc[a].val = current[a]
<1>1. a \in InLLC BY DEF ReqEvent
<1>2. dir[a].st \in AtHome BY DEF AtHome
<1>3. QED BY <1>1, <1>2 DEF MemInv, DataInv, SafeLine

\* An upgrade is asked for by a core whose copy has the directory's timestamp.
LEMMA UpgradeView ==
    ASSUME TypeInv, OwnInv, UpgradeOwner, NEW a, a = Req.a, NEW r, r = Req
    PROVE  /\ r \in OpenOf(a) /\ a \in Lines /\ r.from \in Cores /\ State(r.from, a) = "SE"
           /\ r.type = "EX_REQ" /\ r.wts > 0 /\ r.wts = dir[a].wts
<1>1. /\ reqQ # <<>> /\ PopRequest /\ DirUnchanged /\ rspQ' = rspQ /\ ReqEvent = "UpgReq"
  BY DEF UpgradeOwner, AtRequest
<1>2. r \in OpenOf(a) /\ a \in Lines /\ LineInv(a) BY <1>1, HeadTaken
<1>3. r.type = "EX_REQ" /\ r.wts > 0 /\ r.wts = dir[a].wts BY <1>1 DEF ReqEvent
<1>4. r.from \in Cores BY <1>2, ViewTypes
<1>5. State(r.from, a) = "SE" BY <1>2, <1>3 DEF LineInv, RequestsMatch, AsksToWrite
<1>6. QED BY <1>2, <1>3, <1>4, <1>5

\* The answers to requests.
LEMMA AnswerMoves ==
    ASSUME TypeInv, OwnInv, MemInv, \A x \in Lines : StampInv(x),
           HitShared \/ HitExclusive \/ UpgradeOwner
    PROVE  \A y \in Lines : Moves(y)
<1> SUFFICES ASSUME NEW a, a = Req.a, NEW r, r = Req PROVE \A y \in Lines : Moves(y) OBVIOUS
<1>1. /\ reqQ # <<>> /\ PopRequest /\ DirUnchanged /\ UNCHANGED <<rspQ, mts, current>>
      /\ dir[a].st \in {"I", "S"}
  BY DEF HitShared, HitExclusive, UpgradeOwner, AtRequest
<1>2. a \in Lines /\ a \in Addrs BY <1>1, ReqType
<1>3. Open' \subseteq Open BY <1>1, RequestTaken DEF OwnInv
<1>4. mts \in Nat /\ dir[a] \in DirEntry BY <1>1, MtsType, ReqType
<1>5. dir[a].st \notin OutStates /\ (dir[a].st # "S" => dir[a].st \in AtMts \ {"IS"})
  BY <1>1 DEF OutStates, AtMts
<1>6. CASE HitShared
  <2> DEFINE e == [Reserved EXCEPT !.st = "S", !.wts = mts, !.rts = mts]
  <2>1. SetDir(a, e) BY <1>6 DEF HitShared
  <2>2. e.st = "S" /\ e.wts = mts /\ e.rts = mts /\ mts >= mts
    BY <1>1, <1>4, ReservedPasses DEF DirEntry
  <2> HIDE DEF e
  <2>3. llc[a].val = current[a] BY <1>1, <1>2, <1>6, HitValue DEF HitShared, AtRequest
  <2>4. \/ Reply("RENEW_REP", a, r.from, 0, mts, 0)
        \/ Reply("SH_REP", a, r.from, mts, mts, llc[a].val)
    BY <1>6 DEF HitShared
  <2>5. dir[a].st = "S" => LeaseCut(a) BY <1>6 DEF LeaseCut
  <2>6. CASE Reply("RENEW_REP", a, r.from, 0, mts, 0)
    <3>1. Reply("RENEW_REP", a, r.from, 0, e.rts, 0) BY <2>2, <2>6
    <3>2. QED BY <1>1, <1>2, <1>3, <1>5, <2>1, <2>2, <2>5, <3>1, FreshGiven
  <2>7. CASE Reply("SH_REP", a, r.from, mts, mts, llc[a].val)
    <3>1. Reply("SH_REP", a, r.from, mts, e.rts, llc[a].val) BY <2>2, <2>7
    <3>2. QED BY <1>1, <1>2, <1>3, <1>5, <2>1, <2>2, <2>3, <2>5, <3>1, FreshGiven
  <2>8. QED BY <2>4, <2>6, <2>7
<1>7. CASE HitExclusive
  <2> DEFINE e == [st |-> "E", wts |-> mts, rts |-> mts, owner |-> dir[a].owner \cup {r.from}]
  <2>1. SetDir(a, e) /\ Reply("EX_REP", a, r.from, mts, e.rts, llc[a].val)
    BY <1>7 DEF HitExclusive
  <2>2. e.st = "E" /\ e.wts = mts /\ e.rts >= mts BY <1>4
  <2> HIDE DEF e
  <2>3. llc[a].val = current[a] BY <1>1, <1>2, <1>7, HitValue DEF HitExclusive, AtRequest
  <2>4. dir[a].st = "S" => LeaseCut(a) BY <1>7 DEF LeaseCut
  <2>5. QED BY <1>1, <1>2, <1>3, <1>5, <2>1, <2>2, <2>3, <2>4, FreshGiven
<1>8. CASE UpgradeOwner
  <2> DEFINE e == [dir[a] EXCEPT !.st = "E", !.owner = dir[a].owner \cup {r.from}]
             m == ReplyMsg("UPGR_REP", a, r.from, 0, dir[a].rts, 0)
  <2>1. SetDir(a, e) /\ Reply("UPGR_REP", a, r.from, 0, dir[a].rts, 0) /\ dir[a].st = "S"
    BY <1>8 DEF UpgradeOwner, AtRequest
  <2>2. e.st = "E" /\ e.wts = dir[a].wts /\ e.rts = dir[a].rts BY <1>4 DEF DirEntry
  <2> HIDE DEF e
  <2>3. /\ dir'[a] = e /\ RepOf(a)' = RepOf(a) \cup {m}
        /\ \A y \in Lines \ {a} : dir'[y] = dir[y] /\ RepOf(y)' = RepOf(y)
        /\ m.type = "UPGR_REP" /\ m.to = r.from /\ m.rts = dir[a].rts
    BY <1>2, <2>1, OneReply
  <2> HIDE DEF m
  <2>4. /\ r \in OpenOf(a) /\ r.from \in Cores /\ State(r.from, a) = "SE"
        /\ r.type = "EX_REQ" /\ r.wts > 0 /\ r.wts = dir[a].wts
    BY <1>8, UpgradeView
  <2>5. l1[r.from][a].wts = dir[a].wts BY <1>2, <2>4 DEF StampInv
  <2>6. Back' = Back BY <1>1, QueuesKept
  <2>7. BackOf(a)' = BackOf(a) /\ CopiesKept(a) /\ written' = written
    BY <1>1, <2>6, Views, CopiesStay DEF DirUnchanged
  <2>8. Given(m, a)
    <3>1. dir'[a].st \notin AtMts BY <2>2, <2>3 DEF AtMts
    <3>2. QED BY <1>1, <1>5, <2>1, <2>2, <2>3, <2>4, <2>5, <2>7, <3>1 DEF Given, CopiesKept
  <2>9. QED BY <1>1, <1>2, <1>3, <2>3, <2>6, <2>8, GivenMoves
<1>9. QED BY <1>6, <1>7, <1>8

\* The directory takes the head of the response queue, and its own timestamp is past
\* the lease handed back.
LEMMA ResponseTakenMoves ==
    ASSUME TypeInv, OwnInv, rspQ # <<>>, PopResponse, AdvanceMts, DirUnchanged,
           UNCHANGED <<reqQ, waitQ>>, NEW b, b = Rsp, NEW a, a = Rsp.a
    PROVE  /\ a \in Lines /\ a \in Addrs /\ dir[a] \in DirEntry /\ b.val \in Nat
           /\ b \in BackOf(a) /\ b.wts \in Nat /\ b.rts \in Nat
           /\ BackOf(a)' = BackOf(a) \ {b} /\ CopiesKept(a) /\ written' = written
           /\ mts' >= mts /\ mts' >= b.rts /\ current'[a] = b.val
           /\ Open' \subseteq Open
           /\ \A y \in Lines \ {a} : BackOf(y)' = BackOf(y) /\ current'[y] = current[y]
<1>1. /\ a \in Lines /\ a \in Addrs /\ b \in BackOf(a) /\ b.wts \in Nat /\ b.rts \in Nat
      /\ BackOf(a)' = BackOf(a) \ {b} /\ CopiesKept(a)
      /\ \A y \in Lines \ {a} : BackOf(y)' = BackOf(y)
  BY HeadReturned
<1>2. mts' >= mts /\ mts' >= b.rts
  <2>1. mts \in Nat /\ b.rts \in Nat /\ mts' = Max2(mts, b.rts) BY <1>1, MtsType DEF AdvanceMts
  <2>2. QED BY <2>1, MaxType
<1>3. current'[a] = b.val /\ \A y \in Lines \ {a} : current'[y] = current[y]
  <2>1. current \in [Lines -> Nat] BY DEF TypeInv, TypeOK, HistoryTypeOK
  <2>2. current' = [current EXCEPT ![a] = b.val] BY DEF PopResponse
  <2>3. QED BY <1>1, <2>1, <2>2
<1>4. Open' = Open BY QueuesKept
<1>5. dir[a] \in DirEntry /\ b.val \in Nat BY RspType
<1>6. QED BY <1>1, <1>2, <1>3, <1>4, <1>5 DEF DirUnchanged

\* What the owner hands back is taken, and passed on.
LEMMA PassedOnMoves ==
    ASSUME TypeInv, OwnInv, TakeBack \/ GrantAfterWriteback \/ GrantAfterFlush
    PROVE  \A y \in Lines : Moves(y)
<1> SUFFICES ASSUME NEW b, b = Rsp, NEW a, a = Rsp.a PROVE \A y \in Lines : Moves(y) OBVIOUS
<1>1. /\ rspQ # <<>> /\ PopResponse /\ AdvanceMts /\ DirUnchanged /\ UNCHANGED <<reqQ, waitQ>>
  BY DEF TakeBack, GrantAfterWriteback, GrantAfterFlush, AtResponse
<1>2. /\ a \in Lines /\ a \in Addrs /\ dir[a] \in DirEntry /\ b.val \in Nat
      /\ b \in BackOf(a) /\ b.wts \in Nat /\ b.rts \in Nat
      /\ BackOf(a)' = BackOf(a) \ {b} /\ CopiesKept(a) /\ written' = written
      /\ mts' >= mts /\ mts' >= b.rts /\ current'[a] = b.val
      /\ Open' \subseteq Open
      /\ \A y \in Lines \ {a} : BackOf(y)' = BackOf(y) /\ current'[y] = current[y]
  BY <1>1, ResponseTakenMoves
<1>3. ASSUME NEW e, SetDir(a, e), e.st \in {"S", "E"}, e.wts = b.wts, e.rts >= b.rts,
             NEW type, NEW c, NEW w, NEW n, NEW v, Reply(type, a, c, w, n, v),
             \/ type = "ACK_REP"
             \/ type = "SH_REP" /\ w = b.wts /\ v = b.val /\ n = e.rts
             \/ type = "EX_REP" /\ w = b.wts /\ v = b.val /\ n = b.rts
      PROVE  \A y \in Lines : Moves(y)
  <2> DEFINE m == ReplyMsg(type, a, c, w, n, v)
  <2>1. /\ dir'[a] = e /\ RepOf(a)' = RepOf(a) \cup {m}
        /\ \A y \in Lines \ {a} : dir'[y] = dir[y] /\ RepOf(y)' = RepOf(y)
        /\ m.type = type /\ m.wts = w /\ m.rts = n /\ m.val = v
    BY <1>2, <1>3, OneReply
  <2> HIDE DEF m
  <2>2. dir'[a].st \notin AtMts BY <1>3, <2>1 DEF AtMts
  <2>3. \/ m.type = "ACK_REP"
        \/ m.type = "SH_REP" /\ SameVersion(m, b) /\ m.rts = dir'[a].rts
        \/ m.type = "EX_REP" /\ SameVersion(m, b) /\ m.rts = b.rts
    BY <1>3, <2>1 DEF SameVersion
  <2>4. Returned(b, a) BY <1>2, <1>3, <2>1, <2>2, <2>3 DEF Returned, CopiesKept
  <2>5. QED BY <1>1, <1>2, <2>1, <2>4, ReturnedMoves
<1>4. CASE TakeBack
  <2> DEFINE e == [st |-> "S", wts |-> b.wts, rts |-> b.rts, owner |-> {}]
  <2>1. SetDir(a, e) /\ Reply("ACK_REP", a, b.from, 0, 0, 0) BY <1>4 DEF TakeBack
  <2>2. e.st = "S" /\ e.wts = b.wts /\ e.rts >= b.rts BY <1>2
  <2> HIDE DEF e
  <2>3. QED BY <1>3, <2>1, <2>2
<1>5. CASE GrantAfterWriteback
  <2> DEFINE s == Max2(b.wts + Lease, Lease)
             r == Max2(b.rts, s)
             e == [dir[a] EXCEPT !.st = "S", !.wts = b.wts, !.rts = r]
  <2>1. SetDir(a, e) /\ Reply("SH_REP", a, tbe[a].req, b.wts, r, b.val)
    BY <1>5 DEF GrantAfterWriteback
  <2>2. r \in Nat /\ r >= b.rts
    <3>1. b.wts + Lease \in Nat /\ Lease \in Nat BY <1>2, NumbersAssumption
    <3>2. s \in Nat BY <3>1, MaxType
    <3> HIDE DEF s
    <3>3. QED BY <1>2, <3>2, MaxType
  <2> HIDE DEF r
  <2>3. e.st = "S" /\ e.wts = b.wts /\ e.rts = r BY <1>2 DEF DirEntry
  <2> HIDE DEF e
  <2>4. QED BY <1>3, <2>1, <2>2, <2>3
<1>6. CASE GrantAfterFlush
  <2> DEFINE e == [st |-> "E", wts |-> b.wts, rts |-> b.rts, owner |-> {tbe[a].req}]
  <2>1. SetDir(a, e) /\ Reply("EX_REP", a, tbe[a].req, b.wts, b.rts, b.val)
    BY <1>6 DEF GrantAfterFlush, OwnerFromTBE
  <2>2. e.st = "E" /\ e.wts = b.wts /\ e.rts >= b.rts BY <1>2
  <2> HIDE DEF e
  <2>3. QED BY <1>3, <2>1, <2>2
<1>7. QED BY <1>4, <1>5, <1>6

\* A counter that changes is not a line.
LEMMA LinesUnmarked ==
    ASSUME TypeInv, NEW ks \in SUBSET Counters
    PROVE  /\ Modified(dir, ks) \in [Addrs -> DirEntry]
           /\ \A y \in Lines : Modified(dir, ks)[y] = dir[y]
<1>1. /\ dir \in [Addrs -> DirEntry] /\ Lines \subseteq Addrs /\ Lines \cap Counters = {}
  BY SetsAssumption DEF Addrs, TypeInv, TypeOK, DirTypeOK
<1>2. \A y \in Lines : y \in Addrs /\ y \notin ks BY <1>1
<1>3. QED BY <1>1, <1>2, ModifiedType, ModifiedEntry

\* A victim of the LLC comes back from its owner.
LEMMA VictimReturnedMoves ==
    ASSUME TypeInv, OwnInv, FlushedVictimWrittenBack \/ FlushedVictimAwaitsCounter
    PROVE  \A y \in Lines : Moves(y)
<1> SUFFICES ASSUME NEW b, b = Rsp, NEW a, a = Rsp.a PROVE \A y \in Lines : Moves(y) OBVIOUS
<1>1. /\ rspQ # <<>> /\ PopResponse /\ AdvanceMts /\ DirUnchanged
      /\ UNCHANGED <<reqQ, waitQ, rep>>
  BY DEF FlushedVictimWrittenBack, FlushedVictimAwaitsCounter, FlushedVictim, AtResponse
<1>2. /\ a \in Lines /\ a \in Addrs /\ dir[a] \in DirEntry /\ b.val \in Nat
      /\ b \in BackOf(a) /\ b.wts \in Nat /\ b.rts \in Nat
      /\ BackOf(a)' = BackOf(a) \ {b} /\ CopiesKept(a) /\ written' = written
      /\ mts' >= mts /\ mts' >= b.rts /\ current'[a] = b.val
      /\ Open' \subseteq Open
      /\ \A y \in Lines \ {a} : BackOf(y)' = BackOf(y) /\ current'[y] = current[y]
  BY <1>1, ResponseTakenMoves
<1>3. \A y : RepOf(y)' = RepOf(y) BY <1>1, Views
<1>4. PICK st \in {"I_Evict_Auth", "I_Evicting"}, ks \in SUBSET Counters :
        dir' = [Modified(dir, ks) EXCEPT ![a] = Recall(dir[a], st)]
  <2>1. CASE FlushedVictimWrittenBack
    <3>1. Branch(a, InLLC) \in SUBSET Counters BY <1>2, BranchType
    <3>2. QED BY <2>1, <3>1 DEF FlushedVictimWrittenBack
  <2>2. CASE FlushedVictimAwaitsCounter
    <3>1. dir' = [dir EXCEPT ![a] = Recall(dir[a], "I_Evict_Auth")]
      BY <2>2 DEF FlushedVictimAwaitsCounter, SetDir
    <3>2. Modified(dir, {}) = dir BY NothingMarked
    <3>3. {} \in SUBSET Counters OBVIOUS
    <3>4. QED BY <3>1, <3>2, <3>3
  <2>3. QED BY <2>1, <2>2
<1> DEFINE D == Modified(dir, ks)
           e == Recall(dir[a], st)
<1>5. D \in [Addrs -> DirEntry] /\ \A y \in Lines : D[y] = dir[y] BY LinesUnmarked
<1>6. e.st = st /\ e.wts = dir[a].wts BY <1>2 DEF Recall, DirEntry
<1>7. dir' = [D EXCEPT ![a] = e] BY <1>4
<1> HIDE DEF D, e
<1>8. dir'[a] = e /\ \A y \in Lines \ {a} : dir'[y] = dir[y] BY <1>2, <1>5, <1>7 DEF Addrs
<1>9. dir'[a].st \in AtMts \ {"IS"} BY <1>6, <1>8 DEF AtMts
<1>10. Returned(b, a) BY <1>2, <1>3, <1>6, <1>8, <1>9 DEF Returned, CopiesKept
<1>11. QED BY <1>1, <1>2, <1>3, <1>8, <1>10, ReturnedMoves

\* A response that waits.
LEMMA ResponseKeptMoves ==
    ASSUME TypeInv, OwnInv, ResponseBounce \/ ResponseStall
    PROVE  \A y \in Lines : Moves(y)
<1> SUFFICES ASSUME NEW a, a = Rsp.a PROVE \A y \in Lines : Moves(y) OBVIOUS
<1>1. rspQ # <<>> /\ DirUnchanged /\ UNCHANGED <<waitQ, rspQ, rep, current>>
  BY DEF ResponseBounce, ResponseStall, AtResponse, chanVars
<1>2. a \in Lines /\ a \in Addrs /\ dir[a] \in DirEntry /\ Rsp.rts \in Nat /\ mts \in Nat
  BY <1>1, RspType, MtsType
<1>3. AdvanceMts => mts' >= mts BY <1>2, MaxType DEF AdvanceMts
<1>4. Back' = Back BY <1>1, QueuesKept
<1>5. CASE ResponseStall
  <2>1. dir' = dir /\ AdvanceMts /\ reqQ' = reqQ BY <1>5 DEF ResponseStall, chanVars
  <2>2. \A y \in Lines : DirPasses(y) BY <2>1, EntryPasses
  <2>3. Open' = Open BY <1>1, <2>1, QueuesKept
  <2>4. QED BY <1>1, <1>3, <1>4, <2>1, <2>2, <2>3, DirMoves
<1>6. CASE ResponseBounce /\ reqQ = <<>>
  <2>1. UNCHANGED <<dir, reqQ, mts>> /\ UNCHANGED fwd BY <1>6 DEF ResponseBounce
  <2>2. UNCHANGED <<l1, chanVars, dir, mts, current, written>>
    BY <1>1, <2>1 DEF DirUnchanged, l1Vars, chanVars
  <2>3. QED BY <2>2, NothingMoves
<1>7. CASE ResponseBounce /\ reqQ # <<>>
  <2> DEFINE e == [dir[a] EXCEPT !.st = BaseState(dir[a].st)]
  <2>1. SetDir(a, e) /\ Recycle /\ AdvanceMts /\ dir[a].st \in FetchAuth
    BY <1>7 DEF ResponseBounce, AtResponse
  <2>2. e.st = BaseState(dir[a].st) /\ e.wts = dir[a].wts /\ e.rts = dir[a].rts
        /\ dir[a].rts \in Nat
    BY <1>2 DEF DirEntry
  <2> HIDE DEF e
  <2>3. dir[a].st # "IS" /\ (e.st \in AtMts <=> dir[a].st \in AtMts)
    BY <2>1, <2>2 DEF BaseState, AtMts, FetchAuth
  <2>4. Passes(dir[a], e) BY <2>2, <2>3 DEF Passes
  <2>5. Open' = Open BY <1>1, <1>7, <2>1, RequestRecycled DEF OwnInv
  <2>6. dir \in [Addrs -> DirEntry] /\ dir' = [dir EXCEPT ![a] = e]
    BY <2>1 DEF TypeInv, TypeOK, DirTypeOK, SetDir
  <2>7. QED BY <1>1, <1>2, <1>3, <1>4, <2>1, <2>4, <2>5, <2>6, EntryMoves
<1>8. QED BY <1>5, <1>6, <1>7

\* The requestor a line was read for is served.
LEMMA ReadMoves ==
    ASSUME TypeInv, OwnInv, MemInv, GrantShared \/ GrantExclusive
    PROVE  \A y \in Lines : Moves(y)
<1> SUFFICES ASSUME NEW h, h = Mem, NEW a, a = h.a PROVE \A y \in Lines : Moves(y) OBVIOUS
<1>1. /\ memQ # <<>> /\ memQ' = Tail(memQ) /\ h.type = "MEMORY_READ" /\ DirUnchanged
      /\ dir[a].st \in {"IS", "IE", "SE"} /\ UNCHANGED <<reqQ, waitQ, rspQ, mts, current>>
  BY DEF GrantShared, GrantExclusive, AtMemory
<1>2. /\ a \in Lines /\ a \in Addrs /\ dir[a] \in DirEntry /\ tbe[a] \in TBE /\ mts \in Nat
      /\ h.val \in Inbound(a)
  BY <1>1, MemHeadType, MtsType, AnswerTaken DEF Granting
<1>3. h.val = current[a] BY <1>2 DEF MemInv, DataInv, SafeLine
<1>4. dir[a].st \notin OutStates BY <1>1 DEF OutStates
<1>5. Open' = Open BY <1>1, QueuesKept
<1>6. CASE GrantShared
  <2> DEFINE r == Max2(mts + Lease, tbe[a].lts + Lease)
             e == [dir[a] EXCEPT !.st = "S", !.wts = mts, !.rts = r]
  <2>1. /\ SetDir(a, e) /\ dir[a].st = "IS"
        /\ IF Renews(tbe[a].wts)
           THEN Reply("RENEW_REP", a, tbe[a].req, 0, r, 0)
           ELSE Reply("SH_REP", a, tbe[a].req, mts, r, h.val)
    BY <1>6 DEF GrantShared, AtMemory
  <2>2. r \in Nat /\ r >= mts
    <3>1. /\ mts + Lease \in Nat /\ tbe[a].lts + Lease \in Nat /\ mts + Lease >= mts
      BY <1>2, NumbersAssumption DEF TBE
    <3>2. r \in Nat /\ r >= mts + Lease BY <3>1, MaxType
    <3> HIDE DEF r
    <3>3. QED BY <1>2, <3>1, <3>2, NumbersAssumption
  <2> HIDE DEF r
  <2>3. e.st = "S" /\ e.wts = mts /\ e.rts = r BY <1>2 DEF DirEntry
  <2> HIDE DEF e
  <2>4. LeaseCut(a) BY <1>6, <2>1 DEF LeaseCut
  <2>5. CASE Renews(tbe[a].wts)
    <3>1. Reply("RENEW_REP", a, tbe[a].req, 0, e.rts, 0) BY <2>1, <2>3, <2>5
    <3>2. QED BY <1>1, <1>2, <1>4, <1>5, <2>1, <2>2, <2>3, <2>4, <3>1, FreshGiven
  <2>6. CASE ~Renews(tbe[a].wts)
    <3>1. Reply("SH_REP", a, tbe[a].req, mts, e.rts, h.val) BY <2>1, <2>3, <2>6
    <3>2. QED BY <1>1, <1>2, <1>3, <1>4, <1>5, <2>1, <2>2, <2>3, <2>4, <3>1, FreshGiven
  <2>7. QED BY <2>5, <2>6
<1>7. CASE GrantExclusive
  <2> DEFINE e == [st |-> "E", wts |-> mts, rts |-> mts, owner |-> {tbe[a].req}]
  <2>1. /\ SetDir(a, e) /\ dir[a].st \in {"IE", "SE"}
        /\ Reply("EX_REP", a, tbe[a].req, mts, mts, h.val)
    BY <1>7 DEF GrantExclusive, AtMemory, OwnerFromTBE
  <2>2. e.st = "E" /\ e.wts = mts /\ e.rts = mts /\ mts >= mts BY <1>2
  <2> HIDE DEF e
  <2>3. Reply("EX_REP", a, tbe[a].req, mts, e.rts, h.val) BY <2>1, <2>2
  <2>4. dir[a].st \in AtMts \ {"IS"} \/ LeaseCut(a) BY <1>7, <2>1 DEF LeaseCut, AtMts
  <2>5. QED BY <1>1, <1>2, <1>3, <1>4, <1>5, <2>1, <2>2, <2>3, <2>4, FreshGiven
<1>8. QED BY <1>6, <1>7

\* A counter arrives, and with it the evictions that waited for it go on.
LEMMA CounterMoves ==
    ASSUME TypeInv, OwnInv, CounterData
    PROVE  \A y \in Lines : Moves(y)
<1> SUFFICES ASSUME NEW k, k = Mem.a PROVE \A y \in Lines : Moves(y) OBVIOUS
<1> DEFINE here == InLLC \cup {k}
           out == Released(k)
           dirty == UNION {Branch(x, here) : x \in out}
           D == [x \in Addrs |->
                   IF x = k THEN dir[k]
                   ELSE IF x \in out THEN [dir[x] EXCEPT !.st = Written(dir[x].st)]
                   ELSE Modified(dir, dirty)[x]]
<1>1. /\ k \in Counters /\ DirUnchanged /\ UNCHANGED <<rspQ, rep, mts, current>>
      /\ UNCHANGED <<reqQ, waitQ>> \/ Wake(Lines)
  BY DEF CounterData, AtMemory
<1>2. dir' = D BY Zenon DEF CounterData
<1>3. /\ Lines \subseteq Addrs /\ Lines \cap Counters = {} /\ dir \in [Addrs -> DirEntry]
  BY SetsAssumption DEF Addrs, TypeInv, TypeOK, DirTypeOK
<1>4. dirty \in SUBSET Counters BY BranchType DEF Released
<1> HIDE DEF out, dirty
<1>5. \A y \in Lines : Modified(dir, dirty)[y] = dir[y] BY <1>4, LinesUnmarked
<1>6. ASSUME NEW y \in Lines PROVE DirPasses(y)
  <2>1. y \in Addrs /\ y # k /\ dir[y] \in DirEntry /\ dir[y].rts \in Nat
    BY <1>1, <1>3 DEF DirEntry
  <2>2. CASE y \in out
    <3>1. dir'[y] = [dir[y] EXCEPT !.st = Written(dir[y].st)] BY <1>2, <2>1, <2>2
    <3>2. /\ dir'[y].st = Written(dir[y].st) /\ dir'[y].wts = dir[y].wts
          /\ dir'[y].rts = dir[y].rts
      BY <2>1, <3>1 DEF DirEntry
    <3>3. \/ Written(dir[y].st) = dir[y].st
          \/ dir[y].st = "I_Evict_Auth" /\ Written(dir[y].st) = "I_Evicting"
          \/ dir[y].st = "S_Evict_Auth" /\ Written(dir[y].st) = "S_Evicting"
      BY DEF Written
    <3>4. QED BY <2>1, <3>2, <3>3 DEF DirPasses, AtMts
  <2>3. CASE y \notin out
    <3>1. dir'[y] = dir[y] BY <1>2, <1>5, <2>1, <2>3
    <3>2. QED BY <3>1, EntryPasses
  <2>4. QED BY <2>2, <2>3
<1>7. Open' = Open /\ Back' = Back BY <1>1, RequestsWoken, QueuesKept DEF OwnInv
<1>8. mts' >= mts BY <1>1, MtsType
<1>9. QED BY <1>1, <1>6, <1>7, <1>8, DirMoves

\* A victim is safely in memory.
LEMMA VictimWrittenMoves ==
    ASSUME TypeInv, OwnInv, EvictionDone
    PROVE  \A y \in Lines : Moves(y)
<1> SUFFICES ASSUME NEW a, a = Mem.a PROVE \A y \in Lines : Moves(y) OBVIOUS
<1> DEFINE st == IF dir[a].st = "I_Evicting" THEN "I" ELSE "S"
           e == [dir[a] EXCEPT !.st = st]
<1>1. /\ memQ # <<>> /\ dir[a].st \in Evicting /\ DirUnchanged /\ Wake({a})
      /\ UNCHANGED <<rspQ, rep, mts, current>> /\ SetDir(a, e)
  BY DEF EvictionDone, AtMemory
<1>2. a \in Addrs /\ dir[a] \in DirEntry BY <1>1, MemHeadType
<1>3. e.st = st /\ e.wts = dir[a].wts /\ e.rts = dir[a].rts /\ dir[a].rts \in Nat
  BY <1>2 DEF DirEntry
<1>4. dir[a].st # "IS" /\ (st \in AtMts <=> dir[a].st \in AtMts) BY <1>1 DEF Evicting, AtMts
<1> HIDE DEF st, e
<1>5. Passes(dir[a], e) BY <1>3, <1>4 DEF Passes
<1>6. Open' = Open /\ Back' = Back BY <1>1, RequestsWoken, QueuesKept DEF OwnInv
<1>7. dir \in [Addrs -> DirEntry] /\ dir' = [dir EXCEPT ![a] = e] /\ mts' >= mts
  BY <1>1, MtsType DEF TypeInv, TypeOK, DirTypeOK, SetDir
<1>8. QED BY <1>1, <1>2, <1>5, <1>6, <1>7, EntryMoves

\* A victim of the LLC that keeps its version, or is a counter.
LEMMA VictimMoves ==
    ASSUME TypeInv, NEW v \in Addrs, DirUnchanged, UNCHANGED <<reqQ, waitQ, rspQ, rep, current>>,
           mts' >= mts, NEW ks \in SUBSET Counters, NEW st,
           dir' = [Modified(dir, ks) EXCEPT ![v] = [dir[v] EXCEPT !.st = st]],
           v \in Lines => dir[v].st # "IS" /\ (st \in AtMts <=> dir[v].st \in AtMts)
    PROVE  \A y \in Lines : Moves(y)
<1> DEFINE D == Modified(dir, ks)
           e == [dir[v] EXCEPT !.st = st]
<1>1. D \in [Addrs -> DirEntry] /\ \A y \in Lines : D[y] = dir[y] BY LinesUnmarked
<1>2. dir[v] \in DirEntry BY DEF TypeInv, TypeOK, DirTypeOK
<1>3. e.st = st /\ e.wts = dir[v].wts /\ e.rts = dir[v].rts /\ dir[v].rts \in Nat
  BY <1>2 DEF DirEntry
<1>4. dir' = [D EXCEPT ![v] = e] OBVIOUS
<1> HIDE DEF D, e
<1>5. Open' = Open /\ Back' = Back BY QueuesKept
<1>6. ASSUME NEW y \in Lines PROVE DirPasses(y)
  <2>1. CASE y = v
    <3>1. dir'[y] = e BY <1>1, <1>4, <2>1
    <3>2. QED BY <1>3, <2>1, <3>1 DEF DirPasses
  <2>2. CASE y # v
    <3>1. dir'[y] = dir[y] BY <1>1, <1>4, <2>2 DEF Addrs
    <3>2. QED BY <3>1, EntryPasses
  <2>3. QED BY <2>1, <2>2
<1>7. QED BY <1>5, <1>6, DirMoves

\* Evictions of the LLC.
LEMMA ReplacementMoves ==
    ASSUME TypeInv, OwnInv, NEW v \in Addrs, Replacement(v)
    PROVE  \A y \in Lines : Moves(y)
<1>1. mts' >= mts BY DirClocks DEF DirNext, ClockStep
<1>2. {"C_M", "I_Evicting", "I_Evict_Auth"} \subseteq AtMts BY DEF AtMts
<1>3. CASE ReplacePanic(v)
  <2>1. UNCHANGED <<l1, chanVars, dir, mts, current, written>>
    BY <1>3 DEF ReplacePanic, l1Vars, dirVars, ghostVars
  <2>2. QED BY <2>1, NothingMoves
<1>4. CASE EvictClean(v)
  <2>1. DirUnchanged /\ UNCHANGED <<dir, rep, reqQ, waitQ, rspQ, current>>
    BY <1>4 DEF EvictClean, chanVars
  <2>2. \A y \in Lines : DirPasses(y) BY <2>1, EntryPasses
  <2>3. Open' = Open /\ Back' = Back BY <2>1, QueuesKept
  <2>4. QED BY <1>1, <2>1, <2>2, <2>3, DirMoves
<1>5. CASE EvictDirty(v)
  <2> DEFINE ks == Branch(v, InLLC)
             st == IF dir[v].st = "I" THEN "I_Evicting" ELSE "S_Evicting"
  <2>1. /\ DirUnchanged /\ UNCHANGED <<rep, reqQ, waitQ, rspQ, current>> /\ dir[v].st \in {"I", "S"}
        /\ dir' = [Modified(dir, ks) EXCEPT ![v] = [dir[v] EXCEPT !.st = st]]
    BY <1>5 DEF EvictDirty, Replace, chanVars
  <2>2. ks \in SUBSET Counters BY BranchType
  <2>3. dir[v].st # "IS" /\ (st \in AtMts <=> dir[v].st \in AtMts) BY <2>1 DEF AtMts
  <2> HIDE DEF ks, st
  <2>4. QED BY <1>1, <2>1, <2>2, <2>3, VictimMoves
<1>6. ASSUME DirUnchanged, UNCHANGED <<rep, reqQ, waitQ, rspQ, current>>,
             NEW st, SetDir(v, [dir[v] EXCEPT !.st = st]),
             v \in Lines => dir[v].st # "IS" /\ (st \in AtMts <=> dir[v].st \in AtMts)
      PROVE  \A y \in Lines : Moves(y)
  <2>1. {} \in SUBSET Counters /\ Modified(dir, {}) = dir BY NothingMarked
  <2>2. dir' = [Modified(dir, {}) EXCEPT ![v] = [dir[v] EXCEPT !.st = st]]
    BY <1>6, <2>1 DEF SetDir
  <2>3. QED BY <1>1, <1>6, <2>1, <2>2, VictimMoves
<1>7. CASE EvictCounter(v)
  <2>1. /\ DirUnchanged /\ UNCHANGED <<rep, reqQ, waitQ, rspQ, current>> /\ dir[v].st = "C_M"
        /\ SetDir(v, [dir[v] EXCEPT !.st = "I_Evicting"])
    BY <1>7 DEF EvictCounter, Replace, chanVars
  <2>2. QED BY <1>2, <1>6, <2>1
<1>8. CASE EvictCounterAwaitingParent(v)
  <2>1. /\ DirUnchanged /\ UNCHANGED <<rep, reqQ, waitQ, rspQ, current>> /\ dir[v].st = "C_M"
        /\ SetDir(v, [dir[v] EXCEPT !.st = "I_Evict_Auth"])
    BY <1>8 DEF EvictCounterAwaitingParent, Replace, chanVars
  <2>2. QED BY <1>2, <1>6, <2>1
<1>9. CASE EvictAwaitingCounter(v)
  <2> DEFINE st == IF dir[v].st = "I" THEN "I_Evict_Auth" ELSE "S_Evict_Auth"
  <2>1. /\ DirUnchanged /\ UNCHANGED <<rep, reqQ, waitQ, rspQ, current>>
        /\ dir[v].st \in {"I", "S"} /\ SetDir(v, [dir[v] EXCEPT !.st = st])
    BY <1>9 DEF EvictAwaitingCounter, Replace, chanVars
  <2>2. dir[v].st # "IS" /\ (st \in AtMts <=> dir[v].st \in AtMts) BY <2>1 DEF AtMts
  <2> HIDE DEF st
  <2>3. QED BY <1>6, <2>1, <2>2
<1>10. CASE EvictOwnedLine(v)
  <2>1. /\ DirUnchanged /\ UNCHANGED <<rep, reqQ, waitQ, rspQ, current>> /\ dir[v].st = "E"
        /\ SetDir(v, [dir[v] EXCEPT !.st = "E_Evict_Flush"])
    BY <1>10 DEF EvictOwnedLine, Replace
  <2>2. "E_Evict_Flush" \notin AtMts /\ "E" \notin AtMts BY DEF AtMts
  <2>3. QED BY <1>6, <2>1, <2>2
<1>11. QED BY <1>3, <1>4, <1>5, <1>7, <1>8, <1>9, <1>10 DEF Replacement

\* Every step of the directory.
LEMMA DirectoryMoves ==
    ASSUME TypeInv, OwnInv, MemInv, \A x \in Lines : StampInv(x), DirNext
    PROVE  \A y \in Lines : Moves(y)
<1>1. ASSUME RequestPanic \/ MemoryPanic PROVE \A y \in Lines : Moves(y)
  <2>1. UNCHANGED <<l1, chanVars, dir, mts, current, written>>
    BY <1>1 DEF RequestPanic, MemoryPanic, l1Vars, dirVars, ghostVars
  <2>2. QED BY <2>1, NothingMoves
<1>2. CASE RequestPort
  BY <1>1, <1>2, RequestKeptMoves, AnswerMoves DEF RequestPort
<1>3. CASE ResponsePort
  BY <1>3, PassedOnMoves, VictimReturnedMoves, ResponseKeptMoves DEF ResponsePort
<1>4. CASE MemoryPort
  BY <1>1, <1>4, ReadMoves, CounterMoves, VictimWrittenMoves DEF MemoryPort
<1>5. QED BY <1>2, <1>3, <1>4, ReplacementMoves DEF DirNext

-----------------------------------------------------------------------------
(* The versions and the leases of all lines.                               *)

LatestInv == \A x \in Lines : OneLatest(x)
SeenInv == \A x \in Lines : Seen(x)
StampsInv == \A x \in Lines : StampInv(x)
VersionsInv == \A x \in Lines : VersionInv(x)
LeasesInv == \A x \in Lines : LeaseInv(x)

\* What every step does to every line.
LEMMA NextMoves ==
    ASSUME TypeInv, OwnInv, MemInv, StampsInv, [Next]_vars
    PROVE  \A y \in Lines : Moves(y)
<1>1. CASE Stop \/ UNCHANGED vars \/ \E a \in Addrs : MemServe(a)
  <2>1. UNCHANGED <<l1, chanVars, dir, mts, current, written>>
    BY <1>1 DEF Stop, MemServe, vars, l1Vars, dirVars, ghostVars
  <2>2. QED BY <2>1, NothingMoves
<1>2. QED BY <1>1, L1Moves, DirectoryMoves DEF Next, StampsInv

\* At first there is nothing of a line anywhere.
LEMMA InitVersions == Init => StampsInv /\ VersionsInv /\ LeasesInv
<1> SUFFICES ASSUME Init, NEW x \in Lines PROVE StampInv(x) /\ VersionInv(x) /\ LeaseInv(x)
  BY DEF StampsInv, VersionsInv, LeasesInv
<1>1. /\ reqQ = <<>> /\ rspQ = <<>> /\ waitQ = {} /\ rep = {} /\ mts = 1
      /\ dir[x].st = "I" /\ dir[x].wts = 0 /\ current[x] = 0 /\ written[x] = 0
      /\ \A c \in Cores : State(c, x) = "I"
  BY DEF Init, NewEntry, State, Addrs
<1>2. OpenOf(x) = {} /\ BackOf(x) = {} /\ RepOf(x) = {}
  BY <1>1 DEF Open, Back, OpenOf, BackOf, RepOf
<1>3. OwnersOf(x) = {} /\ Copies(x) = {} BY <1>1, <1>2 DEF OwnersOf, Copies, Copying
<1>4. Latest(x) = {Home(x)} /\ Home(x).val = 0 BY <1>1, <1>2, <1>3 DEF Latest, Away, Home
<1>5. Leases(x) = {} BY <1>2, <1>3 DEF Leases
<1>6. StampInv(x) BY <1>1, <1>2 DEF StampInv
<1>7. VersionInv(x) BY <1>1, <1>2, <1>3, <1>4 DEF VersionInv
<1>8. LeaseInv(x) BY <1>5 DEF LeaseInv
<1>9. QED BY <1>6, <1>7, <1>8

\* The version the directory has of a line is never newer than mts, and an upgrade in a
\* queue is asked for with the timestamp its core's copy still has.
THEOREM StampsKept == Spec => []StampsInv
<1>1. TypeInv /\ OwnInv => LatestInv BY LatestIsOne DEF LatestInv
<1>2. TypeInv /\ OwnInv /\ MemInv /\ LatestInv /\ LatestInv' /\ OwnInv' /\ StampsInv /\ [Next]_vars
        => StampsInv'
  <2> SUFFICES ASSUME TypeInv, OwnInv, MemInv, LatestInv, LatestInv', OwnInv', StampsInv,
                      [Next]_vars, NEW x \in Lines
               PROVE  StampInv(x)'
    BY DEF StampsInv
  <2>1. OneLatest(x) /\ OneLatest(x)' /\ LineInv(x) /\ LineInv(x)' BY DEF LatestInv, OwnInv
  <2>2. Moves(x) /\ StampInv(x) BY NextMoves DEF StampsInv
  <2>3. QED BY <2>1, <2>2, MovedStamps
<1>3. QED BY <1>1, <1>2, InitVersions, TypeCorrect, OwnershipInvariant, MemoryInvariant, PTL
         DEF Spec

\* A step that completes an upgrade changes the replies.
LEMMA UpgradeSteps ==
    ASSUME NEW c, NEW m \in rep, ExRepUpgrade(c, m)
    PROVE  ~UNCHANGED vars
<1>1. rep' = rep \ {m} BY DEF ExRepUpgrade, Response
<1>2. QED BY <1>1 DEF vars, chanVars

\* The store of an upgrade that is answered with data follows the lease of the data.
UpgradesOutlast == \A c \in Cores : \A m \in rep : ExRepUpgrade(c, m) => l1'[c][m.a].wts > m.rts

\* A grant to a line in S leaves the leases that were given before in the entry.
GrantsKeepLeases == \A x \in Lines : LeaseCut(x) => dir'[x].rts >= dir[x].rts

\* Were an upgrade's store always a newer version than the data it is answered with,
\* the versions of a line would be in order everywhere.
THEOREM VersionsInOrder == Spec /\ [][UpgradesAdvance]_vars => []VersionsInv
<1>1. TypeInv /\ OwnInv => LatestInv BY LatestIsOne DEF LatestInv
<1>2. TypeInv /\ OwnInv /\ MemInv /\ StampsInv /\ LatestInv /\ LatestInv' /\ OwnInv' /\ VersionsInv
        /\ [Next]_vars /\ [UpgradesAdvance]_vars
        => VersionsInv'
  <2> SUFFICES ASSUME TypeInv, OwnInv, MemInv, StampsInv, LatestInv, LatestInv', OwnInv',
                      VersionsInv, [Next]_vars, [UpgradesAdvance]_vars, NEW x \in Lines
               PROVE  VersionInv(x)'
    BY DEF VersionsInv
  <2>1. OneLatest(x) /\ OneLatest(x)' /\ LineInv(x) /\ LineInv(x)' BY DEF LatestInv, OwnInv
  <2>2. Moves(x) /\ StampInv(x) /\ VersionInv(x) BY NextMoves DEF StampsInv, VersionsInv
  <2>3. ASSUME NEW c \in Cores, NEW m \in RepOf(x), ExRepUpgrade(c, m) PROVE l1'[c][x].wts > m.wts
    <3>1. m \in rep /\ m.a = x BY DEF RepOf
    <3>2. ~UNCHANGED vars BY <2>3, <3>1, UpgradeSteps
    <3>3. QED BY <2>3, <3>1, <3>2 DEF UpgradesAdvance
  <2>4. QED BY <2>1, <2>2, <2>3, MovedVersions DEF Moves
<1>3. QED BY <1>1, <1>2, InitVersions, TypeCorrect, OwnershipInvariant, MemoryInvariant,
            StampsKept, PTL DEF Spec

\* The one way to lose an update is an upgrade answered with data whose store does not
\* get a newer timestamp than the data.
THEOREM OnlyUpgradesLoseUpdates == Spec /\ [][UpgradesAdvance]_vars => []NoLostUpdate
<1>1. VersionsInv => NoLostUpdate
  <2> SUFFICES ASSUME VersionsInv, NEW c \in Cores, NEW x \in Lines, l1[c][x].st = "E"
               PROVE  l1[c][x].val = written[x]
    BY DEF NoLostUpdate
  <2>1. l1[c][x] \in Latest(x) BY DEF Latest, OwnersOf, State
  <2>2. QED BY <2>1 DEF VersionsInv, VersionInv
<1>2. QED BY <1>1, VersionsInOrder, PTL

\* Were an upgrade's store always a newer version than the data it is answered with,
\* every line would behave as one object whose versions follow each other, whatever
\* becomes of its copies, grants, recalls and evictions.
THEOREM LinesAreObjects == Spec /\ [][UpgradesAdvance]_vars => ImplementsLineMemory
<1>1. TypeInv /\ OwnInv => LatestInv /\ SeenInv BY LatestIsOne, LineIsSeen DEF LatestInv, SeenInv
<1>2. Init => \A x \in Lines : Line(x)!Init
  <2> SUFFICES ASSUME Init, NEW x \in Lines PROVE Line(x)!Init OBVIOUS
  <2>1. /\ rep = {} /\ rspQ = <<>> /\ mts = 1 /\ dir[x].st = "I" /\ current[x] = 0
        /\ \A c \in Cores : l1[c][x].st = "I"
    BY DEF Init, NewEntry, Addrs
  <2>2. Grants(x) = {} /\ Owners(x) = {} /\ HandedBack(x) = {} /\ Readable(x) = {}
    BY <2>1 DEF Grants, Owners, HandedBack, Readable
  <2>3. Newest(x) = [wts |-> 1, val |-> 0] BY <2>1, <2>2 DEF Newest, AtMts
  <2>4. QED BY <2>2, <2>3 DEF Line!Init
<1>3. TypeInv /\ OwnInv /\ MemInv /\ StampsInv /\ LatestInv /\ LatestInv' /\ OwnInv' /\ VersionsInv
        /\ VersionsInv' /\ SeenInv /\ SeenInv' /\ [Next]_vars /\ [UpgradesAdvance]_vars
        => [\A x \in Lines : [Line(x)!Next]_(Line(x)!vars)]_vars
  <2> SUFFICES ASSUME TypeInv, OwnInv, MemInv, StampsInv, LatestInv, LatestInv', OwnInv',
                      VersionsInv, VersionsInv', SeenInv, SeenInv', [Next]_vars,
                      [UpgradesAdvance]_vars, NEW x \in Lines
               PROVE  Line(x)!Next
    OBVIOUS
  <2>1. /\ OneLatest(x) /\ OneLatest(x)' /\ LineInv(x) /\ LineInv(x)' /\ Seen(x) /\ Seen(x)'
        /\ VersionInv(x) /\ VersionInv(x)'
    BY DEF LatestInv, OwnInv, SeenInv, VersionsInv
  <2>2. Moves(x) /\ StampInv(x) BY NextMoves DEF StampsInv
  <2>3. ASSUME NEW c \in Cores, NEW m \in RepOf(x), ExRepUpgrade(c, m) PROVE l1'[c][x].wts > m.wts
    <3>1. m \in rep /\ m.a = x BY DEF RepOf
    <3>2. ~UNCHANGED vars BY <2>3, <3>1, UpgradeSteps
    <3>3. QED BY <2>3, <3>1, <3>2 DEF UpgradesAdvance
  <2>4. InOrder(x) BY <2>1, <2>2, <2>3, MovedVersions DEF Moves
  <2>5. QED BY <2>1, <2>2, <2>4, MovedLine DEF Moves
<1>4. QED BY <1>1, <1>2, <1>3, VersionsInOrder, TypeCorrect, OwnershipInvariant, MemoryInvariant,
            StampsKept, PTL DEF Spec, ImplementsLineMemory

\* A store follows the leases under which older versions may still be read, but for two
\* causes: an upgrade answered with data whose lease its store does not follow, and a
\* grant that overwrites a lease given before.
THEOREM StoresFollow ==
    Spec /\ [][UpgradesOutlast /\ GrantsKeepLeases]_vars => []StoresFollowLeases
<1>1. TypeInv /\ OwnInv => LatestInv BY LatestIsOne DEF LatestInv
<1>2. TypeInv /\ OwnInv /\ MemInv /\ StampsInv /\ LatestInv /\ LatestInv' /\ OwnInv' /\ LeasesInv
        /\ [Next]_vars /\ [UpgradesOutlast /\ GrantsKeepLeases]_vars
        => LeasesInv'
  <2> SUFFICES ASSUME TypeInv, OwnInv, MemInv, StampsInv, LatestInv, LatestInv', OwnInv', LeasesInv,
                      [Next]_vars, [UpgradesOutlast /\ GrantsKeepLeases]_vars, NEW x \in Lines
               PROVE  LeaseInv(x)'
    BY DEF LeasesInv
  <2>1. OneLatest(x) /\ OneLatest(x)' /\ LineInv(x) /\ LineInv(x)' BY DEF LatestInv, OwnInv
  <2>2. Moves(x) /\ LeaseInv(x) BY NextMoves DEF LeasesInv
  <2>3. ASSUME NEW c \in Cores, NEW m \in RepOf(x), ExRepUpgrade(c, m) PROVE l1'[c][x].wts > m.rts
    <3>1. m \in rep /\ m.a = x BY DEF RepOf
    <3>2. ~UNCHANGED vars BY <2>3, <3>1, UpgradeSteps
    <3>3. QED BY <2>3, <3>1, <3>2 DEF UpgradesOutlast
  <2>4. LeaseCut(x) => dir'[x].rts >= dir[x].rts
    <3>1. CASE UNCHANGED vars
      <4>1. dir[x].rts \in Nat /\ dir' = dir BY <2>1, <3>1 DEF OneLatest, Numbers, vars, dirVars
      <4>2. QED BY <4>1
    <3>2. CASE ~UNCHANGED vars BY <3>2 DEF GrantsKeepLeases
    <3>3. QED BY <3>1, <3>2
  <2>5. QED BY <2>1, <2>2, <2>3, <2>4, MovedLeases DEF Moves
<1>3. LeasesInv /\ LatestInv => StoresFollowLeases
  <2> SUFFICES ASSUME LeasesInv, NEW c \in Cores, NEW o \in Cores, NEW x \in Lines,
                      l1[o][x].st = "E", l1[c][x].st = "S_LSD"
               PROVE  l1[c][x].rts < l1[o][x].wts
    BY DEF StoresFollowLeases
  <2>1. l1[c][x] \in Copies(x) BY DEF Copies, Copying, State
  <2>2. l1[c][x].rts \in Leases(x) BY <2>1 DEF Leases
  <2>3. o \in OwnersOf(x) BY DEF OwnersOf, State
  <2>4. QED BY <2>2, <2>3 DEF LeasesInv, LeaseInv
<1>4. QED BY <1>1, <1>2, <1>3, InitVersions, TypeCorrect, OwnershipInvariant, MemoryInvariant,
            StampsKept, PTL DEF Spec

=============================================================================
