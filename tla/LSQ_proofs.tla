----------------------------- MODULE LSQ_proofs -----------------------------
(***************************************************************************)
(* Proofs about the ownership of LSQRequests: nobody comes back to a       *)
(* request that is deleted, its counters agree with what is under way, no  *)
(* orphan is forgotten and no fragment is sent twice, whatever the number  *)
(* of queue entries and ports; and, in the second half, about what an      *)
(* access has done so far: none is done by halves, no blocked load is left *)
(* to sleep, and a TLBI sync is not answered too early.  Last, that the    *)
(* shares of several threads do not overflow.                              *)
(*                                                                         *)
(* The invariant speaks of one slot: of its request q, its instruction n,  *)
(* the walks w and packets f under way, the number e of writeback events,  *)
(* and the step c of pushRequest that is still to do.                      *)
(***************************************************************************)
EXTENDS LSQProperties, TLAPS, FiniteSetTheorems

Reqs == [kind : Kinds, state : States, flags : SUBSET Flags, numTranslated : Nat,
         numInTranslation : Nat, faults : SUBSET {1, 2}, packets : Nat,
         numOutstanding : Nat, numReceived : Nat, stale : BOOLEAN]
Places == {"none", "execute", "deferred", "replay", "blocked", "memory", "executed",
           "committed", "done"}
InstRecs == [at : Places, load : BOOLEAN, squashed : BOOLEAN]

Called(calls, r) == {i \in 0 .. 2 : [slot |-> r, frag |-> i] \in calls}

\* Writeback events of a slot.
Events(r) == IF r \in forwards THEN 1 ELSE 0

\* Fragments of a request and those given to the TLB so far.
Size(q) == IF q.kind = "split" THEN 2 ELSE IF q.kind = "masked" THEN 0 ELSE 1
Issued(q, c) == IF 1 \in c THEN 0 ELSE IF 2 \in c THEN 1 ELSE Size(q)

Pending(q) == "WritebackScheduled" \in q.flags /\ "WritebackDone" \notin q.flags

\* A slot without a request is at rest.
Empty(n, w, f, e, c) == n.at = "none" /\ w = {} /\ f = {} /\ e = 0 /\ c = {}

\* The counters are exact.
Counted(q, w, f, e) ==
  /\ q.numInTranslation = Cardinality(w) /\ q.numOutstanding = Cardinality(f)
  /\ e = IF Pending(q) THEN 1 ELSE 0

\* While it is translated a request is in no other hands; later it is not translated.
\* One whose instruction is squashed stays so when its last fragment is translated.
InTranslation(q, w, c) ==
  IF q.state = "Translation"
    THEN /\ q.kind \in {"single", "split"}
         /\ q.numTranslated < Size(q) <=> "TranslationSquashed" \notin q.flags
         /\ q.numTranslated + q.numInTranslation = Issued(q, c)
         /\ w \subseteq 1 .. Issued(q, c)
         /\ q.numOutstanding = 0 /\ q.numReceived = 0
         /\ "WritebackScheduled" \notin q.flags
    ELSE w = {} /\ c \subseteq {0}

\* A request goes to the cache or is written back by an event, not both.
OneUser(q, n) ==
  /\ "WritebackScheduled" \in q.flags =>
       q.numOutstanding = 0 /\ n.at \in {"memory", "done", "none"}
  /\ "WritebackDone" \in q.flags => "WritebackScheduled" \in q.flags

\* Packets are sent in order, each once.
SentInOrder(q, f) ==
  /\ q.packets <= Size(q) /\ (q.kind # "split" => q.numReceived = 0)
  /\ q.numReceived + q.numOutstanding <= q.packets
  /\ ~Released(q) => f \subseteq 1 .. q.numReceived + q.numOutstanding

\* An entry owns its request; an orphan is in use and knows that it is one.
Owned(q, n, w) ==
  IF n.at = "none" THEN Released(q) /\ Outstanding(q) /\ (w # {} => n.squashed)
  ELSE /\ ~Released(q)
       /\ n.at \notin {"execute", "deferred"} => q.state # "Translation"

SlotOK(q, n, w, f, e, c) ==
  /\ n \in InstRecs /\ w \subseteq {1, 2} /\ f \subseteq {1, 2} /\ c \subseteq 0 .. 2
  /\ IF q = Gone THEN Empty(n, w, f, e, c)
     ELSE /\ q \in Reqs
          /\ Counted(q, w, f, e) /\ InTranslation(q, w, c) /\ OneUser(q, n)
          /\ SentInOrder(q, f) /\ Owned(q, n, w)
          /\ c # {} => n.at \in {"execute", "deferred", "replay"} /\ ~n.squashed
          /\ \A i \in c : i > 0 => c = {i} /\ i <= Size(q)

CallOK == call = {} \/ \E r \in Slots, i \in 0 .. 2 : call = {[slot |-> r, frag |-> i]}

IInv ==
  /\ panic = "none" /\ CallOK
  /\ DOMAIN req = Slots /\ DOMAIN inst = Slots /\ DOMAIN walks = Slots /\ DOMAIN flight = Slots
  /\ forwards \subseteq Slots
  /\ \A r \in Slots : SlotOK(req[r], inst[r], walks[r], flight[r], Events(r), Called(call, r))

-----------------------------------------------------------------------------
(* Values: requests and sets of fragments *)

\* A request is not the absence of one.
LEMMA NotGone == \A q \in Reqs : q # Gone
<1> SUFFICES ASSUME NEW q \in Reqs, q = Gone PROVE FALSE
  OBVIOUS
<1>1. q.kind \in {"single", "split", "direct", "masked"}
  BY LSQAssumption DEF Reqs
<1>2. q.kind = "gone"
  BY DEF Gone
<1> QED
  BY <1>1, <1>2

\* Adding a flag changes the flags only.
LEMMA SetFields ==
  ASSUME NEW q \in Reqs, NEW flag \in Flags
  PROVE  /\ Set(q, flag) \in Reqs
         /\ Set(q, flag).flags = q.flags \cup {flag}
         /\ Set(q, flag).kind = q.kind /\ Set(q, flag).state = q.state
         /\ Set(q, flag).numTranslated = q.numTranslated
         /\ Set(q, flag).numInTranslation = q.numInTranslation
         /\ Set(q, flag).packets = q.packets
         /\ Set(q, flag).numOutstanding = q.numOutstanding
         /\ Set(q, flag).numReceived = q.numReceived
  BY DEF Set, Reqs

\* The number of fragments by class.
LEMMA FragsSize ==
  ASSUME NEW q \in Reqs
  PROVE  /\ Frags(q.kind) = 1 .. Size(q) /\ Size(q) \in 0 .. 2
         /\ IsFiniteSet(Frags(q.kind)) /\ Cardinality(Frags(q.kind)) = Size(q)
<1>1. Size(q) \in 0 .. 2
  BY DEF Size
<1>2. Frags(q.kind) = 1 .. Size(q)
  <2>1. 1 .. 2 = {1, 2} /\ 1 .. 1 = {1} /\ 1 .. 0 = {}
    OBVIOUS
  <2> QED
    BY <2>1 DEF Frags, Size
<1>3. IsFiniteSet(1 .. Size(q)) /\ Cardinality(1 .. Size(q)) = Size(q)
  BY <1>1, FS_Interval
<1> QED
  BY <1>1, <1>2, <1>3

\* A set of at most two fragments is finite; taking one away counts one less.
LEMMA TwoFragments ==
  ASSUME NEW w \in SUBSET {1, 2}
  PROVE  /\ IsFiniteSet(w) /\ Cardinality(w) \in Nat
         /\ Cardinality(w) = 0 <=> w = {}
         /\ \A i \in w : Cardinality(w \ {i}) = Cardinality(w) - 1
         /\ \A i : i \notin w => Cardinality(w \cup {i}) = Cardinality(w) + 1
<1>1. IsFiniteSet({1, 2})
  <2>1. {1, 2} = 1 .. 2
    OBVIOUS
  <2>2. IsFiniteSet(1 .. 2)
    BY 1 \in Int, 2 \in Int, FS_Interval, Zenon
  <2> QED
    BY <2>1, <2>2
<1>2. IsFiniteSet(w)
  BY <1>1, FS_Subset
<1> QED
  BY <1>2, FS_CardinalityType, FS_EmptySet, FS_RemoveElement, FS_AddElement

\* Packets among the first ones.
Among(old, past) == old \subseteq 1 .. past

\* New packets follow the first ones, of which the old ones are not answered.
LEMMA MorePackets ==
  ASSUME NEW past \in Nat, NEW new \in 0 .. 2, past + new <= 2, NEW old, Among(old, past),
         NEW first, first = past + 1, NEW last, last = past + new,
         NEW all, all = old \cup (first .. last)
  PROVE  /\ all \subseteq 1 .. last /\ all \subseteq {1, 2}
         /\ Cardinality(all) = Cardinality(old) + new
<1>0. old \subseteq 1 .. past
  BY DEF Among
<1>1. old \subseteq {1, 2} /\ old \in SUBSET {1, 2}
  BY <1>0
<1>2. CASE new = 0
  <2>1. first .. last = {} /\ all = old /\ last = past
    BY <1>2
  <2>2. Cardinality(old) \in Nat
    BY <1>1, TwoFragments
  <2>3. all \subseteq 1 .. last /\ all \subseteq {1, 2}
    BY <1>0, <1>1, <2>1
  <2>4. Cardinality(all) = Cardinality(old) + new
    BY <1>2, <2>1, <2>2
  <2> QED
    BY <2>3, <2>4
<1>3. CASE new = 1
  <2>1. first .. last = {first} /\ first \notin old /\ first \in {1, 2} /\ all = old \cup {first}
    BY <1>0, <1>3
  <2>2. Cardinality(old \cup {first}) = Cardinality(old) + 1
    BY <1>1, <2>1, TwoFragments
  <2> QED
    BY <1>0, <1>1, <1>3, <2>1, <2>2
<1>4. CASE new = 2
  <2>1. past = 0 /\ last = 2 /\ first = 1
    BY <1>4
  <2>5. old = {} /\ first .. last = {1, 2}
    BY <1>0, <2>1
  <2>6. all = {1, 2}
    BY <2>5
  <2>2. Cardinality(1 .. 2) = 2
    <3>1. Cardinality(1 .. 2) = IF 1 > 2 THEN 0 ELSE 2 - 1 + 1
      BY 1 \in Int, 2 \in Int, FS_Interval, Zenon
    <3> QED
      BY <3>1
  <2>3. Cardinality({1, 2}) = 2
    <3>1. {1, 2} = 1 .. 2
      OBVIOUS
    <3> QED
      BY <2>2, <3>1
  <2>4. Cardinality(old) = 0
    BY <2>5, FS_EmptySet
  <2> QED
    BY <1>4, <2>1, <2>3, <2>4, <2>6
<1> QED
  BY <1>2, <1>3, <1>4

-----------------------------------------------------------------------------
(* Operations on requests, field by field *)

\* What is known of a slot that has a request.
LEMMA SlotFacts ==
  ASSUME NEW q, NEW n, NEW w, NEW f, NEW e, NEW c, SlotOK(q, n, w, f, e, c),
         q # Gone
  PROVE  /\ q \in Reqs /\ n \in InstRecs /\ w \in SUBSET {1, 2} /\ f \in SUBSET {1, 2}
         /\ Cardinality(w) \in Nat /\ Cardinality(f) \in Nat /\ Size(q) \in 0 .. 2
         /\ q.state # "Translation" => w = {}
         /\ q.state = "Translation" => f = {} /\ e = 0
<1>1. q \in Reqs /\ n \in InstRecs /\ w \in SUBSET {1, 2} /\ f \in SUBSET {1, 2}
  BY DEF SlotOK
<1>2. Counted(q, w, f, e) /\ InTranslation(q, w, c)
  BY DEF SlotOK
<1>3. /\ Cardinality(w) \in Nat /\ Cardinality(f) \in Nat
      /\ Cardinality(f) = 0 => f = {}
  BY <1>1, TwoFragments
<1>4. Size(q) \in 0 .. 2
  BY <1>1, FragsSize
<1>5. q.state # "Translation" => w = {}
  BY <1>2 DEF InTranslation
<1>6. q.state = "Translation" => f = {} /\ e = 0
  BY <1>2, <1>3 DEF InTranslation, Counted, Pending
<1> QED
  BY <1>1, <1>3, <1>4, <1>5, <1>6

\* A slot at rest may lose its request; then it is empty.
LEMMA Vacated ==
  ASSUME NEW n \in InstRecs, n.at = "none", NEW c, c = {}
  PROVE  SlotOK(Gone, n, {}, {}, 0, c)
  BY DEF SlotOK, Empty

\* Giving a request up: it goes when nobody uses it, or is marked.
LEMMA ReleaseSlot ==
  ASSUME NEW q \in Reqs, NEW n, NEW w, NEW f, NEW e, NEW c, SlotOK(q, n, w, f, e, c),
         c \subseteq {0}, NEW reason \in {"LSQEntryFreed", "Discarded"},
         NEW m \in InstRecs, m.at = "none", w # {} => m.squashed
  PROVE  SlotOK(Release(q, reason), m, w, f, e, {})
<1>0. q # Gone
  BY NotGone
<1>1. /\ w \in SUBSET {1, 2} /\ f \in SUBSET {1, 2}
      /\ Cardinality(w) \in Nat /\ Cardinality(f) \in Nat
      /\ q.state = "Translation" => f = {} /\ e = 0
  BY <1>0, SlotFacts
<1>2. CASE ~Outstanding(q)
  <2>1. w = {} /\ f = {} /\ e = 0
    BY <1>0, <1>1, <1>2, TwoFragments DEF SlotOK, Outstanding, Counted, Pending, Reqs
  <2>2. Release(q, reason) = Gone
    BY <1>2 DEF Release
  <2> QED
    BY <2>1, <2>2, Vacated
<1>3. CASE Outstanding(q)
  <2> DEFINE p == Set(q, reason)
  <2>1. /\ p \in Reqs /\ p.flags = q.flags \cup {reason}
        /\ p.kind = q.kind /\ p.state = q.state
        /\ p.numTranslated = q.numTranslated /\ p.numInTranslation = q.numInTranslation
        /\ p.packets = q.packets /\ p.numOutstanding = q.numOutstanding
        /\ p.numReceived = q.numReceived
    BY SetFields DEF Flags
  <2>2. Release(q, reason) = p
    BY <1>3 DEF Release
  <2> HIDE DEF p
  <2>3. p # Gone
    BY <2>1, NotGone
  <2>4. Counted(p, w, f, e)
    BY <1>0, <2>1 DEF SlotOK, Counted, Pending
  <2>5. InTranslation(p, w, {})
    BY <1>0, <2>1 DEF SlotOK, InTranslation, Issued, Size
  <2>6. OneUser(p, m)
    BY <1>0, <2>1 DEF SlotOK, OneUser
  <2>7. Released(p)
    BY <2>1 DEF Released
  <2>8. SentInOrder(p, f)
    BY <1>0, <2>1, <2>7 DEF SlotOK, SentInOrder, Size
  <2>9. Owned(p, m, w)
    BY <1>3, <2>1, <2>7 DEF Owned, Outstanding
  <2> QED
    BY <1>1, <2>1, <2>2, <2>3, <2>4, <2>5, <2>6, <2>8, <2>9 DEF SlotOK
<1> QED
  BY <1>2, <1>3

-----------------------------------------------------------------------------
(* Translation *)

\* A slot of which one fragment is translated but not yet counted.
Mid(q, n, w, f, e, c) ==
  /\ q \in Reqs /\ n \in InstRecs /\ w \in SUBSET {1, 2} /\ f = {} /\ e = 0 /\ c \subseteq 0 .. 2
  /\ q.kind \in {"single", "split"} /\ q.state = "Translation"
  /\ q.numInTranslation = Cardinality(w) + 1
  /\ q.numOutstanding = 0 /\ q.numReceived = 0 /\ q.packets <= Size(q)
  /\ "WritebackScheduled" \notin q.flags /\ "WritebackDone" \notin q.flags
  /\ q.numTranslated + q.numInTranslation = Issued(q, c) /\ w \subseteq 1 .. Issued(q, c)
  /\ IF n.at = "none" THEN Released(q) /\ n.squashed /\ c = {} ELSE ~Released(q)
  /\ "TranslationSquashed" \notin q.flags /\ (c # {} => ~n.squashed)
  /\ n.at \in {"none", "execute", "deferred"}
  /\ \A i \in c : i > 0 => c = {i} /\ i <= Size(q)

\* The fields of a request one fragment of which is finished.
LEMMA FinishFields ==
  ASSUME NEW q \in Reqs, NEW i \in {1, 2}, NEW fault \in BOOLEAN, q.numInTranslation > 0
  PROVE  LET p == FinishFragment(q, i, fault)
         IN /\ p \in Reqs /\ p.kind = q.kind /\ p.state = q.state /\ p.flags = q.flags
            /\ p.numTranslated = q.numTranslated + 1
            /\ p.numInTranslation = q.numInTranslation - 1
            /\ p.packets = q.packets /\ p.numOutstanding = q.numOutstanding
            /\ p.numReceived = q.numReceived
<1> DEFINE p == FinishFragment(q, i, fault)
<1>1. q.numInTranslation - 1 \in Nat /\ q.numTranslated + 1 \in Nat
  BY DEF Reqs
<1>2. (IF fault THEN q.faults \cup {i} ELSE q.faults) \in SUBSET {1, 2}
  BY DEF Reqs
<1>3. p \in Reqs
  BY <1>1, <1>2 DEF FinishFragment, Reqs
<1>4. /\ p.kind = q.kind /\ p.state = q.state /\ p.flags = q.flags
      /\ p.numTranslated = q.numTranslated + 1
      /\ p.numInTranslation = q.numInTranslation - 1
      /\ p.packets = q.packets /\ p.numOutstanding = q.numOutstanding
      /\ p.numReceived = q.numReceived
  BY DEF FinishFragment, Reqs
<1> QED
  BY <1>3, <1>4

\* Finishing a fragment ends the translation, the life of an orphan, or neither.
LEMMA FinishSlot ==
  ASSUME NEW q, NEW n, NEW w, NEW f, NEW e, NEW c, Mid(q, n, w, f, e, c),
         NEW i \in {1, 2}, NEW fault \in BOOLEAN
  PROVE  SlotOK(Finish(q, i, fault, n.squashed), n, w, f, e, c)
<1> DEFINE p == FinishFragment(q, i, fault)
<1>1. /\ q \in Reqs /\ n \in InstRecs /\ w \in SUBSET {1, 2}
      /\ f = {} /\ e = 0 /\ c \subseteq 0 .. 2
      /\ c # {} => n.at \in {"execute", "deferred", "replay"} /\ ~n.squashed
      /\ \A j \in c : j > 0 => c = {j} /\ j <= Size(q)
  BY DEF Mid
<1>2. Cardinality(w) \in Nat /\ (Cardinality(w) = 0 <=> w = {}) /\ Cardinality(f) = 0
  BY <1>1, TwoFragments, FS_EmptySet
<1>3. q.numInTranslation > 0
  BY <1>1, <1>2 DEF Mid
<1>4. /\ p \in Reqs /\ p.kind = q.kind /\ p.state = q.state /\ p.flags = q.flags
      /\ p.numTranslated = q.numTranslated + 1
      /\ p.numInTranslation = q.numInTranslation - 1
      /\ p.packets = q.packets /\ p.numOutstanding = q.numOutstanding
      /\ p.numReceived = q.numReceived
  BY <1>1, <1>3, FinishFields
<1>5. Cardinality(Frags(q.kind)) = Size(q) /\ Size(q) \in {1, 2}
  BY <1>1, FragsSize DEF Mid, Size
<1>6. Finish(q, i, fault, n.squashed) =
        IF p.numTranslated < Size(q) THEN p
        ELSE IF n.squashed THEN SquashTranslation(p)
        ELSE [Set(p, "TranslationFinished") EXCEPT !.state = StateAfter(p)]
  BY <1>5 DEF Finish
<1> HIDE DEF p
<1>7. CASE p.numTranslated < Size(q)
  <2>1. Counted(p, w, f, e)
    BY <1>1, <1>2, <1>4 DEF Mid, Counted, Pending
  <2>2. InTranslation(p, w, c)
    <3>1. Size(p) = Size(q) /\ Issued(p, c) = Issued(q, c)
      BY <1>4 DEF Size, Issued
    <3> QED
      BY <1>1, <1>4, <1>7, <3>1 DEF Mid, InTranslation, Reqs
  <2>3. OneUser(p, n)
    BY <1>4 DEF Mid, OneUser
  <2>4. SentInOrder(p, f)
    BY <1>1, <1>4 DEF Mid, SentInOrder, Size, Reqs
  <2>5. Owned(p, n, w)
    <3>1. CASE n.at = "none"
      <4>1. Released(p) /\ n.squashed
        BY <3>1, <1>4 DEF Mid, Released
      <4>2. c = {} /\ Issued(q, c) = Size(q)
        BY <3>1 DEF Mid, Issued
      <4>3. p.numInTranslation > 0
        BY <4>2, <1>7, <1>4, <1>1, <1>5 DEF Mid, Reqs
      <4> QED
        BY <3>1, <4>1, <4>3 DEF Owned, Outstanding
    <3>2. CASE n.at # "none"
      <4>1. ~Released(p)
        BY <3>2, <1>4 DEF Mid, Released
      <4>2. n.at \in {"execute", "deferred"}
        BY <3>2 DEF Mid
      <4> QED
        BY <3>2, <4>1, <4>2 DEF Owned
    <3> QED
      BY <3>1, <3>2
  <2>6. p # Gone
    BY <1>4, NotGone
  <2>7. \A j \in c : j > 0 => c = {j} /\ j <= Size(p)
    BY <1>1, <1>4 DEF Size
  <2> QED
    BY <1>1, <1>4, <1>6, <1>7, <2>1, <2>2, <2>3, <2>4, <2>5, <2>6, <2>7 DEF SlotOK
<1>8. CASE ~(p.numTranslated < Size(q))
  <2>1. w = {} /\ p.numInTranslation = 0 /\ c \subseteq {0}
    <3>1. Issued(q, c) \in Nat /\ Issued(q, c) <= Size(q)
      BY <1>5 DEF Issued
    <3>2. q.numInTranslation = 1 /\ Issued(q, c) = Size(q)
      BY <3>1, <1>1, <1>3, <1>4, <1>5, <1>8 DEF Mid, Reqs
    <3>3. 1 \notin c /\ 2 \notin c
      BY <3>2, <1>1, <1>5 DEF Issued
    <3> QED
      BY <3>2, <3>3, <1>1, <1>2, <1>4 DEF Mid
  <2>2. CASE n.squashed
    <3> DEFINE s == Set(p, "TranslationSquashed")
    <3>1. /\ s \in Reqs /\ s.flags = p.flags \cup {"TranslationSquashed"}
          /\ s.kind = p.kind /\ s.state = p.state
          /\ s.numTranslated = p.numTranslated /\ s.numInTranslation = p.numInTranslation
          /\ s.packets = p.packets /\ s.numOutstanding = p.numOutstanding
          /\ s.numReceived = p.numReceived
      BY <1>4, SetFields DEF Flags
    <3>2. SquashTranslation(p) = IF Released(s) THEN Gone ELSE s
      BY DEF SquashTranslation
    <3>3. Finish(q, i, fault, n.squashed) = SquashTranslation(p)
      BY <1>6, <1>8, <2>2
    <3>4. c = {}
      BY <1>1, <2>2
    <3> HIDE DEF s
    <3>5. Released(s) <=> Released(q)
      BY <1>4, <3>1 DEF Released
    <3>6. CASE n.at = "none"
      <4>1. Released(q)
        BY <3>6 DEF Mid
      <4> QED
        BY <1>1, <2>1, <3>2, <3>3, <3>4, <3>5, <3>6, <4>1, Vacated
    <3>7. CASE n.at # "none"
      <4>1. ~Released(s) /\ n.at \in {"execute", "deferred"}
        BY <3>5, <3>7 DEF Mid
      <4>2. Counted(s, w, f, e)
        BY <1>1, <1>2, <1>4, <2>1, <3>1 DEF Mid, Counted, Pending
      <4>3. InTranslation(s, w, c)
        <5>1. Issued(q, c) = Size(q) /\ Size(s) = Size(q) /\ Issued(s, c) = Size(q)
          BY <3>4, <1>4, <3>1 DEF Issued, Size
        <5>2. s.numTranslated = Size(q) /\ s.numInTranslation = 0
          BY <1>1, <1>3, <1>4, <1>5, <1>8, <2>1, <3>1, <5>1 DEF Mid, Reqs
        <5>3. /\ s.kind \in {"single", "split"} /\ s.numOutstanding = 0
              /\ s.numReceived = 0 /\ "WritebackScheduled" \notin s.flags
              /\ "TranslationSquashed" \in s.flags
          BY <1>4, <3>1 DEF Mid
        <5> QED
          BY <1>5, <1>4, <2>1, <3>1, <3>4, <5>1, <5>2, <5>3 DEF InTranslation, Mid
      <4>4. OneUser(s, n)
        BY <1>4, <3>1 DEF Mid, OneUser
      <4>5. SentInOrder(s, f)
        BY <1>1, <1>4, <3>1 DEF Mid, SentInOrder, Size, Reqs
      <4>6. Owned(s, n, w)
        BY <3>7, <4>1 DEF Owned
      <4>7. s # Gone
        BY <3>1, NotGone
      <4> QED
        BY <1>1, <3>1, <3>2, <3>3, <3>4, <4>1, <4>2, <4>3, <4>4, <4>5, <4>6, <4>7 DEF SlotOK
    <3> QED
      BY <3>6, <3>7
  <2>3. CASE ~n.squashed
    <3> DEFINE s == [Set(p, "TranslationFinished") EXCEPT !.state = StateAfter(p)]
    <3>1. /\ Set(p, "TranslationFinished") \in Reqs
          /\ Set(p, "TranslationFinished").flags = p.flags \cup {"TranslationFinished"}
          /\ Set(p, "TranslationFinished").kind = p.kind
          /\ Set(p, "TranslationFinished").numInTranslation = p.numInTranslation
          /\ Set(p, "TranslationFinished").packets = p.packets
          /\ Set(p, "TranslationFinished").numOutstanding = p.numOutstanding
          /\ Set(p, "TranslationFinished").numReceived = p.numReceived
      BY <1>4, SetFields DEF Flags
    <3>2. StateAfter(p) \in {"Request", "Fault", "PartialFault"}
      BY Zenon DEF StateAfter
    <3>3. StateAfter(p) \in States /\ StateAfter(p) # "Translation"
      BY <3>2 DEF States
    <3>4. /\ s \in Reqs /\ s.flags = p.flags \cup {"TranslationFinished"}
          /\ s.state = StateAfter(p) /\ s.kind = p.kind
          /\ s.numInTranslation = p.numInTranslation /\ s.packets = p.packets
          /\ s.numOutstanding = p.numOutstanding /\ s.numReceived = p.numReceived
      BY <3>1, <3>3 DEF Reqs
    <3>5. Finish(q, i, fault, n.squashed) = s
      BY <1>6, <1>8, <2>3
    <3> HIDE DEF s
    <3>6. n.at # "none" /\ ~Released(q)
      BY <2>3 DEF Mid
    <3>7. Counted(s, w, f, e)
      BY <1>1, <1>2, <1>4, <2>1, <3>4 DEF Mid, Counted, Pending
    <3>8. InTranslation(s, w, c)
      BY <2>1, <3>3, <3>4 DEF InTranslation
    <3>9. OneUser(s, n)
      BY <1>4, <3>4 DEF Mid, OneUser
    <3>10. SentInOrder(s, f)
      BY <1>1, <1>4, <3>4 DEF Mid, SentInOrder, Size, Reqs
    <3>11. Owned(s, n, w)
      BY <1>4, <2>3, <3>3, <3>4, <3>6 DEF Owned, Released
    <3>12. s # Gone
      BY <3>4, NotGone
    <3>13. \A j \in c : j > 0 => c = {j} /\ j <= Size(s)
      BY <2>1
    <3> QED
      BY <1>1, <3>4, <3>5, <3>7, <3>8, <3>9, <3>10, <3>11, <3>12, <3>13 DEF SlotOK
  <2> QED
    BY <2>2, <2>3
<1> QED
  BY <1>7, <1>8

-----------------------------------------------------------------------------
(* The memory *)

\* Packets are built once, at most one for each fragment.
LEMMA BuildFields ==
  ASSUME NEW q \in Reqs, q.packets <= Size(q)
  PROVE  LET b == BuildPackets(q)
         IN /\ b \in Reqs /\ b.kind = q.kind /\ b.state = q.state /\ b.flags = q.flags
            /\ b.numTranslated = q.numTranslated /\ b.numInTranslation = q.numInTranslation
            /\ b.numOutstanding = q.numOutstanding /\ b.numReceived = q.numReceived
            /\ q.packets <= b.packets /\ b.packets <= Size(q)
<1> DEFINE sent == {i \in Frags(q.kind) : \A j \in 1 .. i : j \notin q.faults}
<1>1. Cardinality(sent) \in Nat /\ Cardinality(sent) <= Size(q)
  <2>1. IsFiniteSet(Frags(q.kind)) /\ Cardinality(Frags(q.kind)) = Size(q)
    BY FragsSize
  <2>2. sent \subseteq Frags(q.kind)
    OBVIOUS
  <2> HIDE DEF sent
  <2>3. IsFiniteSet(sent) /\ Cardinality(sent) <= Cardinality(Frags(q.kind))
    BY <2>1, <2>2, FS_Subset
  <2> QED
    BY <2>1, <2>3, FS_CardinalityType
<1>2. BuildPackets(q) = IF q.packets > 0 THEN q ELSE [q EXCEPT !.packets = Cardinality(sent)]
  BY DEF BuildPackets
<1> HIDE DEF sent
<1>3. q.packets \in Nat
  BY DEF Reqs
<1>4. CASE q.packets > 0
  BY <1>2, <1>3, <1>4
<1>5. CASE q.packets = 0
  <2>1. BuildPackets(q) = [q EXCEPT !.packets = Cardinality(sent)]
    BY <1>2, <1>5
  <2> QED
    BY <1>1, <1>5, <2>1 DEF Reqs
<1> QED
  BY <1>3, <1>4, <1>5

\* Packets go to the cache, after those that went before.
LEMMA SendSlot ==
  ASSUME NEW q \in Reqs, NEW n, NEW w, NEW f, NEW e, NEW c, SlotOK(q, n, w, f, e, c),
         c \subseteq {0}, q.state # "Translation", "WritebackScheduled" \notin q.flags,
         n.at # "none",
         NEW num \in 0 .. 2, SentSoFar(BuildPackets(q)) + num <= BuildPackets(q).packets,
         NEW flags \in SUBSET Flags, flags \cap {"WritebackScheduled", "WritebackDone",
           "LSQEntryFreed", "Discarded"} = q.flags \cap {"WritebackScheduled", "WritebackDone",
           "LSQEntryFreed", "Discarded"},
         NEW m \in InstRecs, m.at \in {"memory", "blocked", "committed"}
  PROVE  LET b == BuildPackets(q)
             p == [b EXCEPT !.numOutstanding = @ + num, !.flags = flags]
             k == SentSoFar(b)
         IN SlotOK(p, m, w, f \cup (k + 1 .. k + num), e, {})
<1> DEFINE b == BuildPackets(q)
           p == [b EXCEPT !.numOutstanding = @ + num, !.flags = flags]
           k == SentSoFar(b)
           out == f \cup (k + 1 .. k + num)
<1>0. q # Gone
  BY NotGone
<1>1. /\ w = {} /\ f \in SUBSET {1, 2} /\ Size(q) \in 0 .. 2
      /\ Counted(q, w, f, e) /\ OneUser(q, n) /\ SentInOrder(q, f) /\ Owned(q, n, w)
  <2>1. w = {} /\ f \in SUBSET {1, 2} /\ Size(q) \in 0 .. 2
    BY <1>0, SlotFacts
  <2>2. Counted(q, w, f, e) /\ OneUser(q, n) /\ SentInOrder(q, f) /\ Owned(q, n, w)
    BY <1>0 DEF SlotOK
  <2> QED
    BY <2>1, <2>2
<1>2. ~Released(q) /\ q.packets <= Size(q)
  BY <1>1 DEF Owned, SentInOrder
<1>3. /\ b \in Reqs /\ b.kind = q.kind /\ b.state = q.state
      /\ b.numTranslated = q.numTranslated /\ b.numInTranslation = q.numInTranslation
      /\ b.numOutstanding = q.numOutstanding /\ b.numReceived = q.numReceived
      /\ b.packets <= Size(q)
  BY <1>2, BuildFields
<1>4. k + num <= b.packets /\ k = q.numReceived + q.numOutstanding
  BY <1>3 DEF SentSoFar
<1> HIDE DEF b
<1>5. /\ p \in Reqs /\ p.kind = q.kind /\ p.state = q.state /\ p.flags = flags
      /\ p.numTranslated = q.numTranslated /\ p.numInTranslation = q.numInTranslation
      /\ p.numOutstanding = q.numOutstanding + num /\ p.numReceived = q.numReceived
      /\ p.packets = b.packets
  <2>1. b.numOutstanding + num \in Nat
    BY <1>3 DEF Reqs
  <2>2. p \in Reqs
    BY <1>3, <2>1 DEF Reqs
  <2>3. /\ p.kind = b.kind /\ p.state = b.state /\ p.flags = flags
        /\ p.numTranslated = b.numTranslated /\ p.numInTranslation = b.numInTranslation
        /\ p.numOutstanding = b.numOutstanding + num /\ p.numReceived = b.numReceived
        /\ p.packets = b.packets
    BY <1>3 DEF Reqs
  <2> QED
    BY <1>3, <2>2, <2>3
<1> HIDE DEF p
<1>6. /\ k \in Nat /\ k + num <= 2 /\ f \subseteq 1 .. k /\ b.packets \in Nat
      /\ q.numOutstanding \in Nat /\ q.numReceived \in Nat
  BY <1>1, <1>2, <1>3, <1>4 DEF SentInOrder, Reqs
<1> HIDE DEF k
<1>7. /\ out \subseteq 1 .. k + num /\ out \subseteq {1, 2}
      /\ Cardinality(out) = Cardinality(f) + num
  <2> DEFINE lo == k + 1
             hi == k + num
  <2>1. k \in Nat /\ num \in 0 .. 2 /\ k + num <= 2 /\ f \subseteq 1 .. k
    BY <1>6
  <2>4. Among(f, k)
    BY <2>1 DEF Among
  <2>2. lo = k + 1 /\ hi = k + num /\ out = f \cup (lo .. hi)
    BY DEF out
  <2> HIDE DEF out, lo, hi
  <2>3. out \subseteq 1 .. hi /\ out \subseteq {1, 2} /\ Cardinality(out) = Cardinality(f) + num
    BY <2>1, <2>2, <2>4, MorePackets
  <2> QED
    BY <2>2, <2>3
<1>8. Counted(p, w, out, e)
  BY <1>1, <1>5, <1>7 DEF Counted, Pending
<1>9. InTranslation(p, w, {})
  BY <1>1, <1>5 DEF InTranslation
<1>10. OneUser(p, m)
  BY <1>1, <1>5 DEF OneUser
<1>11. SentInOrder(p, out)
  BY <1>1, <1>3, <1>4, <1>5, <1>6, <1>7 DEF SentInOrder, Size
<1>12. Owned(p, m, w)
  BY <1>2, <1>5 DEF Owned, Released
<1>13. p # Gone
  BY <1>5, NotGone
<1>14. SlotOK(p, m, w, out, e, {})
  BY <1>1, <1>5, <1>7, <1>8, <1>9, <1>10, <1>11, <1>12, <1>13 DEF SlotOK
<1> QED
  BY <1>14 DEF p, out, k, b

\* The fields of a request with one response less to wait for.
LEMMA RepliedFields ==
  ASSUME NEW q \in Reqs, q.numOutstanding > 0
  PROVE  LET p == [q EXCEPT !.numOutstanding = @ - 1]
         IN /\ p \in Reqs /\ p.kind = q.kind /\ p.state = q.state /\ p.flags = q.flags
            /\ p.numTranslated = q.numTranslated /\ p.numInTranslation = q.numInTranslation
            /\ p.packets = q.packets /\ p.numOutstanding = q.numOutstanding - 1
            /\ p.numReceived = q.numReceived
<1>1. q.numOutstanding - 1 \in Nat
  BY DEF Reqs
<1> QED
  BY <1>1 DEF Reqs

\* The last response deletes an orphan.
LEMMA RepliedOrphan ==
  ASSUME NEW q \in Reqs, NEW f \in SUBSET {1, 2}, Counted(q, {}, f, 0), NEW i \in f,
         NEW m \in InstRecs, m.at = "none", Released(q), q.state # "Translation",
         "WritebackScheduled" \notin q.flags, "WritebackDone" \notin q.flags,
         q.packets <= Size(q), q.kind # "split" => q.numReceived = 0,
         q.numReceived + q.numOutstanding <= q.packets + 1
  PROVE  SlotOK(PacketReplied(q), m, {}, f \ {i}, 0, {})
<1> DEFINE p == [q EXCEPT !.numOutstanding = @ - 1]
           g == f \ {i}
<1>2. /\ Cardinality(f) \in Nat /\ (Cardinality(f) = 0 <=> f = {})
      /\ g \in SUBSET {1, 2} /\ Cardinality(g) = Cardinality(f) - 1
      /\ (Cardinality(g) = 0 <=> g = {})
  BY TwoFragments
<1>3. q.numOutstanding > 0
  BY <1>2 DEF Counted
<1>4. /\ p \in Reqs /\ p.kind = q.kind /\ p.state = q.state /\ p.flags = q.flags
      /\ p.numTranslated = q.numTranslated /\ p.numInTranslation = q.numInTranslation
      /\ p.packets = q.packets /\ p.numOutstanding = q.numOutstanding - 1
      /\ p.numReceived = q.numReceived
  BY <1>3, RepliedFields
<1>5. PacketReplied(q) = IF p.numOutstanding = 0 /\ Released(p) THEN Gone ELSE p
  BY DEF PacketReplied
<1>6. Released(p)
  BY <1>4 DEF Released
<1> HIDE DEF p, g
<1>7. CASE p.numOutstanding = 0
  <2>1. g = {} /\ PacketReplied(q) = Gone
    BY <1>2, <1>4, <1>5, <1>6, <1>7 DEF Counted
  <2> QED
    BY <2>1, Vacated DEF g
<1>8. CASE p.numOutstanding # 0
  <2>1. Counted(p, {}, g, 0)
    BY <1>2, <1>4 DEF Counted, Pending
  <2>2. InTranslation(p, {}, {})
    BY <1>4 DEF InTranslation
  <2>3. OneUser(p, m)
    BY <1>4 DEF OneUser
  <2>4. SentInOrder(p, g)
    <3>1. Size(p) = Size(q) /\ Size(q) \in 0 .. 2
      BY <1>4, FragsSize DEF Size
    <3>2. /\ q.numOutstanding \in Nat /\ q.numReceived \in Nat /\ q.packets \in Nat
          /\ p.packets = q.packets /\ p.numOutstanding = q.numOutstanding - 1
          /\ p.numReceived = q.numReceived
      BY <1>4 DEF Reqs
    <3>3. p.numReceived + p.numOutstanding <= p.packets /\ p.packets <= Size(p)
      BY <3>1, <3>2
    <3> QED
      BY <1>4, <1>6, <3>3 DEF SentInOrder
  <2>5. Owned(p, m, {})
    BY <1>4, <1>6, <1>8 DEF Owned, Outstanding, Reqs
  <2>6. p # Gone
    BY <1>4, NotGone
  <2>7. SlotOK(p, m, {}, g, 0, {})
    BY <1>2, <1>4, <2>1, <2>2, <2>3, <2>4, <2>5, <2>6 DEF SlotOK
  <2> QED
    BY <1>5, <1>8, <2>7 DEF g
<1> QED
  BY <1>7, <1>8

\* What a response changes of a request that is owned.
LEMMA ReceivedFields ==
  ASSUME NEW q \in Reqs
  PROVE  LET p == Received(q)
         IN /\ p \in Reqs /\ p.kind = q.kind /\ p.state = q.state
            /\ p.flags \in {q.flags, q.flags \cup {"Complete"}}
            /\ p.numTranslated = q.numTranslated /\ p.numInTranslation = q.numInTranslation
            /\ p.packets = q.packets /\ p.numOutstanding = q.numOutstanding
            /\ p.numReceived = IF q.kind = "split" THEN q.numReceived + 1 ELSE q.numReceived
<1> DEFINE nr == IF q.kind = "split" THEN q.numReceived + 1 ELSE q.numReceived
           fl == IF q.kind # "split" \/ q.numReceived + 1 = q.packets
                   THEN q.flags \cup {"Complete"} ELSE q.flags
<1>1. nr \in Nat /\ fl \in SUBSET Flags /\ fl \in {q.flags, q.flags \cup {"Complete"}}
  BY DEF Reqs, Flags
<1>2. Received(q) = [q EXCEPT !.numReceived = nr, !.flags = fl, !.stale = FALSE]
  BY DEF Received
<1> HIDE DEF nr, fl
<1>3. Received(q) \in Reqs
  BY <1>1, <1>2 DEF Reqs
<1>4. /\ Received(q).kind = q.kind /\ Received(q).state = q.state
      /\ Received(q).flags = fl
      /\ Received(q).numTranslated = q.numTranslated
      /\ Received(q).numInTranslation = q.numInTranslation
      /\ Received(q).packets = q.packets /\ Received(q).numOutstanding = q.numOutstanding
      /\ Received(q).numReceived = nr
  BY <1>2 DEF Reqs
<1> QED
  BY <1>1, <1>3, <1>4 DEF nr

\* A response to a request that its entry owns, and keeps or frees.
LEMMA RepliedOwned ==
  ASSUME NEW q \in Reqs, NEW n, NEW f, SlotOK(q, n, {}, f, 0, {}),
         NEW i \in f, NEW m \in InstRecs,
         ~Released(q), q.state # "Translation", "WritebackScheduled" \notin q.flags
  PROVE  /\ m.at # "none"
              => SlotOK(PacketReplied(Received(q)), m, {}, f \ {i}, 0, {})
         /\ m.at = "none"
              => SlotOK(PacketReplied(Release(Received(q), "LSQEntryFreed")), m, {}, f \ {i}, 0, {})
<1> DEFINE v == Received(q)
           p == [v EXCEPT !.numOutstanding = @ - 1]
           s == Set(v, "LSQEntryFreed")
           g == f \ {i}
<1>0. q # Gone
  BY NotGone
<1>1. /\ f \in SUBSET {1, 2} /\ Counted(q, {}, f, 0) /\ OneUser(q, n) /\ SentInOrder(q, f)
      /\ Size(q) \in 0 .. 2
  BY <1>0, FragsSize DEF SlotOK
<1>2. /\ Cardinality(f) \in Nat /\ (Cardinality(f) = 0 <=> f = {})
      /\ g \in SUBSET {1, 2} /\ Cardinality(g) = Cardinality(f) - 1
      /\ (Cardinality(g) = 0 <=> g = {})
  BY <1>1, TwoFragments
<1>3. q.numOutstanding > 0
  BY <1>1, <1>2 DEF Counted
<1>4. /\ v \in Reqs /\ v.kind = q.kind /\ v.state = q.state
      /\ v.flags \in {q.flags, q.flags \cup {"Complete"}}
      /\ v.numTranslated = q.numTranslated /\ v.numInTranslation = q.numInTranslation
      /\ v.packets = q.packets /\ v.numOutstanding = q.numOutstanding
      /\ v.numReceived = IF q.kind = "split" THEN q.numReceived + 1 ELSE q.numReceived
  BY ReceivedFields
<1> HIDE DEF v
<1>5. ~Released(v) /\ "WritebackScheduled" \notin v.flags /\ "WritebackDone" \notin v.flags
  BY <1>1, <1>4 DEF Released, OneUser
<1>6. ASSUME m.at # "none"
      PROVE  SlotOK(PacketReplied(v), m, {}, g, 0, {})
  <2>1. /\ p \in Reqs /\ p.kind = v.kind /\ p.state = v.state /\ p.flags = v.flags
        /\ p.numTranslated = v.numTranslated /\ p.numInTranslation = v.numInTranslation
        /\ p.packets = v.packets /\ p.numOutstanding = v.numOutstanding - 1
        /\ p.numReceived = v.numReceived
    BY <1>3, <1>4, RepliedFields
  <2>2. ~Released(p) /\ PacketReplied(v) = p
    BY <1>5, <2>1 DEF Released, PacketReplied
  <2> HIDE DEF p
  <2>3. Counted(p, {}, g, 0)
    BY <1>1, <1>2, <1>4, <1>5, <2>1 DEF Counted, Pending
  <2>4. InTranslation(p, {}, {})
    BY <1>4, <2>1 DEF InTranslation
  <2>5. OneUser(p, m)
    BY <1>5, <2>1 DEF OneUser
  <2>6. SentInOrder(p, g)
    <3>1. /\ q.numOutstanding \in Nat /\ q.numReceived \in Nat /\ q.packets \in Nat
          /\ p.numReceived + p.numOutstanding \in Nat /\ Size(p) = Size(q)
      BY <1>3, <1>4, <2>1 DEF Reqs, Size
    <3>2. /\ q.packets <= Size(q) /\ (q.kind # "split" => q.numReceived = 0)
          /\ f \subseteq 1 .. q.numReceived + q.numOutstanding
          /\ q.numReceived + q.numOutstanding <= q.packets
      BY <1>1 DEF SentInOrder
    <3>3. CASE q.kind = "split"
      <4>1. p.numReceived + p.numOutstanding = q.numReceived + q.numOutstanding
        BY <3>1, <3>3, <1>4, <2>1
      <4> QED
        BY <3>1, <3>2, <3>3, <4>1, <1>4, <2>1 DEF SentInOrder, g
    <3>4. CASE q.kind # "split"
      <4>1. q.numReceived = 0 /\ q.numOutstanding = 1 /\ p.numReceived = 0 /\ p.numOutstanding = 0
        BY <3>1, <3>2, <3>4, <1>1, <1>3, <1>4, <2>1 DEF Size
      <4>2. g = {}
        BY <4>1, <1>1, <1>2 DEF Counted
      <4> QED
        BY <3>1, <3>2, <3>4, <4>1, <4>2, <1>4, <2>1 DEF SentInOrder
    <3> QED
      BY <3>3, <3>4
  <2>7. Owned(p, m, {})
    BY <1>4, <1>6, <2>1, <2>2 DEF Owned
  <2>8. p # Gone
    BY <2>1, NotGone
  <2> QED
    BY <1>2, <2>1, <2>2, <2>3, <2>4, <2>5, <2>6, <2>7, <2>8 DEF SlotOK
<1>7. ASSUME m.at = "none"
      PROVE  SlotOK(PacketReplied(Release(v, "LSQEntryFreed")), m, {}, g, 0, {})
  <2>1. /\ s \in Reqs /\ s.flags = v.flags \cup {"LSQEntryFreed"}
        /\ s.kind = v.kind /\ s.state = v.state /\ s.numTranslated = v.numTranslated
        /\ s.numInTranslation = v.numInTranslation /\ s.packets = v.packets
        /\ s.numOutstanding = v.numOutstanding /\ s.numReceived = v.numReceived
    BY <1>4, SetFields DEF Flags
  <2>2. Release(v, "LSQEntryFreed") = s
    BY <1>3, <1>4 DEF Release, Outstanding
  <2> HIDE DEF s
  <2>3. Released(s)
    BY <2>1 DEF Released
  <2>4. Counted(s, {}, f, 0)
    BY <1>1, <1>4, <1>5, <2>1 DEF Counted, Pending
  <2>5. /\ s.state # "Translation" /\ "WritebackScheduled" \notin s.flags
        /\ "WritebackDone" \notin s.flags
    BY <1>4, <1>5, <2>1
  <2>6. /\ s.packets <= Size(s) /\ (s.kind # "split" => s.numReceived = 0)
        /\ s.numReceived + s.numOutstanding <= s.packets + 1
    <3>1. Size(s) = Size(q)
      BY <1>4, <2>1 DEF Size
    <3>2. /\ q.packets <= Size(q) /\ (q.kind # "split" => q.numReceived = 0)
          /\ q.numReceived + q.numOutstanding <= q.packets
      BY <1>1 DEF SentInOrder
    <3>3. q.numOutstanding \in Nat /\ q.numReceived \in Nat /\ q.packets \in Nat
      BY DEF Reqs
    <3> QED
      BY <1>4, <2>1, <3>1, <3>2, <3>3
  <2> QED
    BY <1>1, <1>7, <2>1, <2>2, <2>3, <2>4, <2>5, <2>6, RepliedOrphan DEF g
<1> QED
  BY <1>6, <1>7 DEF v, g

-----------------------------------------------------------------------------
(* One slot at a time *)

\* What a call is for.
LEMMA CalledOne ==
  ASSUME NEW r \in Slots, NEW i \in 0 .. 2, NEW calls, calls = {[slot |-> r, frag |-> i]}
  PROVE  Called(calls, r) = {i} /\ \A t \in Slots \ {r} : Called(calls, t) = {}
<1>1. \A t \in Slots, j \in 0 .. 2 :
        [slot |-> t, frag |-> j] = [slot |-> r, frag |-> i] <=> t = r /\ j = i
  OBVIOUS
<1> QED
  BY <1>1 DEF Called

\* Without a call nothing is called for any slot.
LEMMA CalledNone ==
  ASSUME NEW calls, calls = {}
  PROVE  \A t : Called(calls, t) = {}
  BY DEF Called

\* Nothing but slot r and what is called for it changes.
Framed(r) ==
  /\ panic' = "none" /\ CallOK'
  /\ DOMAIN req' = Slots /\ DOMAIN inst' = Slots
  /\ DOMAIN walks' = Slots /\ DOMAIN flight' = Slots /\ forwards' \subseteq Slots
  /\ \A t \in Slots \ {r} :
       /\ req'[t] = req[t] /\ inst'[t] = inst[t]
       /\ walks'[t] = walks[t] /\ flight'[t] = flight[t]
       /\ t \in forwards' <=> t \in forwards
       /\ Called(call', t) = Called(call, t)

\* Then only r has to be looked at.
LEMMA Frame ==
  ASSUME IInv, NEW r \in Slots, Framed(r),
         SlotOK(req'[r], inst'[r], walks'[r], flight'[r], Events(r)', Called(call', r))
  PROVE  IInv'
<1>1. ASSUME NEW t \in Slots \ {r}
      PROVE  SlotOK(req'[t], inst'[t], walks'[t], flight'[t], Events(t)', Called(call', t))
  <2>1. SlotOK(req[t], inst[t], walks[t], flight[t], Events(t), Called(call, t))
    BY DEF IInv
  <2>2. Events(t)' = Events(t)
    BY DEF Framed, Events
  <2>3. /\ req'[t] = req[t] /\ inst'[t] = inst[t] /\ walks'[t] = walks[t]
        /\ flight'[t] = flight[t] /\ Called(call', t) = Called(call, t)
    BY DEF Framed
  <2> QED
    BY <2>1, <2>2, <2>3
<1>2. \A t \in Slots :
        SlotOK(req'[t], inst'[t], walks'[t], flight'[t], Events(t)', Called(call', t))
  BY <1>1
<1> QED
  BY <1>2 DEF Framed, IInv

\* Where the access of an instruction stands is a field of it.
LEMMA AtFields ==
  ASSUME NEW n \in InstRecs, NEW place \in Places
  PROVE  LET m == [n EXCEPT !.at = place]
         IN m \in InstRecs /\ m.at = place /\ m.squashed = n.squashed /\ m.load = n.load
  BY DEF InstRecs

\* A slot whose request stays as it is.
LEMMA MoveSlot ==
  ASSUME NEW q \in Reqs, NEW n, NEW w, NEW f, NEW e, NEW c, SlotOK(q, n, w, f, e, c),
         c \subseteq {0}, NEW m \in InstRecs, m.squashed = n.squashed,
         n.at # "none", m.at # "none",
         NEW d \in SUBSET {0},
         d # {} => m.at \in {"execute", "deferred", "replay"} /\ ~m.squashed,
         "WritebackScheduled" \in q.flags => m.at \in {"memory", "done"},
         m.at \notin {"execute", "deferred"} => q.state # "Translation"
  PROVE  SlotOK(q, m, w, f, e, d)
<1>0. q # Gone
  BY NotGone
<1>1. /\ w \subseteq {1, 2} /\ f \subseteq {1, 2} /\ Counted(q, w, f, e)
      /\ InTranslation(q, w, c) /\ OneUser(q, n) /\ SentInOrder(q, f) /\ Owned(q, n, w)
  BY <1>0 DEF SlotOK
<1>2. InTranslation(q, w, d)
  BY <1>1 DEF InTranslation, Issued
<1>3. OneUser(q, m)
  BY <1>1 DEF OneUser
<1>4. Owned(q, m, w)
  BY <1>1 DEF Owned
<1> QED
  BY <1>0, <1>1, <1>2, <1>3, <1>4 DEF SlotOK

\* The slot a step is about, in its parts.
LEMMA SlotOf ==
  ASSUME IInv, NEW r \in Slots
  PROVE  /\ SlotOK(req[r], inst[r], walks[r], flight[r], Events(r), Called(call, r))
         /\ inst[r] \in InstRecs /\ req[r] \in Reqs \cup {Gone}
         /\ inst[r].at # "none" \/ walks[r] # {} \/ flight[r] # {} \/ r \in forwards
              \/ Called(call, r) # {} => req[r] \in Reqs
<1>1. SlotOK(req[r], inst[r], walks[r], flight[r], Events(r), Called(call, r))
  BY DEF IInv
<1>2. inst[r] \in InstRecs /\ req[r] \in Reqs \cup {Gone}
  BY <1>1 DEF SlotOK
<1>3. inst[r].at # "none" \/ walks[r] # {} \/ flight[r] # {} \/ r \in forwards
        \/ Called(call, r) # {} => req[r] \in Reqs
  <2>1. CASE req[r] = Gone
    <3>1. Empty(inst[r], walks[r], flight[r], Events(r), Called(call, r))
      BY <1>1, <2>1 DEF SlotOK
    <3> QED
      BY <3>1 DEF Empty, Events
  <2> QED
    BY <1>2, <2>1
<1> QED
  BY <1>1, <1>2, <1>3

\* What is known of the slot while the LSQ reads or writes for it.
LEMMA Accessing ==
  ASSUME IInv, NEW r \in Slots, Access(r)
  PROVE  /\ req[r] \in Reqs /\ inst[r] \in InstRecs
         /\ Called(call, r) = {0} /\ Called(call', r) = {}
         /\ SlotOK(req[r], inst[r], walks[r], flight[r], Events(r), {0})
         /\ inst[r].at \in {"execute", "deferred", "replay"} /\ ~inst[r].squashed
         /\ "WritebackScheduled" \notin req[r].flags /\ "WritebackDone" \notin req[r].flags
         /\ ~Released(req[r]) /\ CallOK'
         /\ \A t \in Slots \ {r} : Called(call', t) = Called(call, t)
<1>1. call = {[slot |-> r, frag |-> 0]} /\ call' = {}
  BY DEF Access
<1>2. Called(call, r) = {0} /\ Called(call', r) = {}
  BY <1>1, CalledOne, CalledNone
<1>3. req[r] \in Reqs /\ inst[r] \in InstRecs
  BY <1>2, SlotOf
<1>4. SlotOK(req[r], inst[r], walks[r], flight[r], Events(r), {0}) /\ req[r] # Gone
  BY <1>2, <1>3, SlotOf, NotGone
<1>5. inst[r].at \in {"execute", "deferred", "replay"} /\ ~inst[r].squashed
  BY <1>4 DEF SlotOK
<1>6. OneUser(req[r], inst[r]) /\ Owned(req[r], inst[r], walks[r])
  BY <1>4 DEF SlotOK
<1>7. /\ "WritebackScheduled" \notin req[r].flags /\ "WritebackDone" \notin req[r].flags
      /\ ~Released(req[r])
  BY <1>5, <1>6 DEF OneUser, Owned
<1>8. ASSUME NEW t \in Slots \ {r}
      PROVE  Called(call', t) = Called(call, t)
  <2>1. 0 \in 0 .. 2
    OBVIOUS
  <2>2. Called(call, t) = {}
    BY <1>1, <2>1, CalledOne
  <2>3. Called(call', t) = {}
    BY <1>1, CalledNone
  <2> QED
    BY <2>2, <2>3
<1>9. CallOK'
  BY <1>1 DEF CallOK
<1> QED
  BY <1>2, <1>3, <1>4, <1>5, <1>7, <1>8, <1>9

\* Changing where an instruction stands leaves the others alone.
LEMMA AtStep ==
  ASSUME IInv, NEW r \in Slots, NEW place \in Places, At(r, place)
  PROVE  /\ inst'[r] \in InstRecs /\ inst'[r].at = place
         /\ inst'[r].squashed = inst[r].squashed /\ inst'[r].load = inst[r].load
         /\ DOMAIN inst' = Slots /\ \A t \in Slots \ {r} : inst'[t] = inst[t]
<1>1. inst[r] \in InstRecs /\ DOMAIN inst = Slots
  BY SlotOf DEF IInv
<1>2. inst' = [inst EXCEPT ![r] = [inst[r] EXCEPT !.at = place]]
  BY DEF At
<1>3. inst'[r] = [inst[r] EXCEPT !.at = place]
  BY <1>1, <1>2
<1>4. DOMAIN inst' = Slots /\ \A t \in Slots \ {r} : inst'[t] = inst[t]
  BY <1>1, <1>2
<1> QED
  BY <1>1, <1>3, <1>4, AtFields

-----------------------------------------------------------------------------
(* The steps of pushRequest that leave the request alone *)

\* The access is over, or waits for the TLB.
LEMMA AccessOver ==
  ASSUME IInv, NEW r \in Slots, Access(r), NEW place \in {"executed", "done", "deferred"},
         At(r, place), UNCHANGED <<req, envVars, panic>>,
         place # "deferred" => req[r].state # "Translation"
  PROVE  IInv'
<1>1. /\ inst'[r] \in InstRecs /\ inst'[r].at = place /\ inst'[r].squashed = inst[r].squashed
      /\ DOMAIN inst' = Slots /\ \A t \in Slots \ {r} : inst'[t] = inst[t]
  BY AtStep DEF Places
<1>2. /\ req[r] \in Reqs /\ Called(call', r) = {}
      /\ SlotOK(req[r], inst[r], walks[r], flight[r], Events(r), {0})
      /\ inst[r].at \in {"execute", "deferred", "replay"} /\ ~inst[r].squashed
      /\ "WritebackScheduled" \notin req[r].flags /\ CallOK'
      /\ \A t \in Slots \ {r} : Called(call', t) = Called(call, t)
  BY Accessing
<1>3. SlotOK(req[r], inst'[r], walks[r], flight[r], Events(r), {})
  BY <1>1, <1>2, MoveSlot
<1>4. Events(r)' = Events(r) /\ req' = req /\ walks' = walks /\ flight' = flight
  BY DEF Events, envVars
<1>5. Framed(r)
  BY <1>1, <1>2, <1>4 DEF Framed, IInv, envVars
<1> QED
  BY <1>2, <1>3, <1>4, <1>5, Frame

\* A store waits for commit.
LEMMA WriteKeeps == ASSUME IInv, NEW r \in Slots, Write(r) PROVE IInv'
  BY AccessOver DEF Write, TranslationComplete

\* An access that needs no memory is done.
LEMMA NoAccessKeeps == ASSUME IInv, NEW r \in Slots, NoAccess(r) PROVE IInv'
<1>1. CASE TranslationComplete(req[r])
  BY <1>1, AccessOver DEF NoAccess, TranslationComplete
<1>2. CASE req[r].kind = "masked"
  <2>1. SlotOK(req[r], inst[r], walks[r], flight[r], Events(r), {0}) /\ req[r] \in Reqs
    BY Accessing DEF NoAccess
  <2>2. req[r].state # "Translation"
    BY <1>2, <2>1, NotGone DEF SlotOK, InTranslation
  <2> QED
    BY <2>2, AccessOver DEF NoAccess
<1> QED
  BY <1>1, <1>2 DEF NoAccess

\* A walk has not ended yet.
LEMMA DeferKeeps == ASSUME IInv, NEW r \in Slots, DeferMemInst(r) PROVE IInv'
  BY AccessOver DEF DeferMemInst

\* pushRequest is called again.
LEMMA PushAgainKeeps == ASSUME IInv, NEW r \in Slots, PushAgain(r) PROVE IInv'
<1>1. /\ call = {} /\ call' = {[slot |-> r, frag |-> 0]}
      /\ inst[r].at \in {"deferred", "replay"} /\ ~inst[r].squashed
  BY DEF PushAgain, Idle
<1>2. Called(call, r) = {} /\ \A t \in Slots \ {r} : Called(call, t) = {}
  BY <1>1, CalledNone
<1>3. 0 \in 0 .. 2
  OBVIOUS
<1>4. Called(call', r) = {0} /\ \A t \in Slots \ {r} : Called(call', t) = {}
  BY <1>1, <1>3, CalledOne
<1>5. CallOK'
  BY <1>1, <1>3 DEF CallOK
<1>6. /\ SlotOK(req[r], inst[r], walks[r], flight[r], Events(r), {})
      /\ req[r] \in Reqs /\ inst[r] \in InstRecs
  BY <1>1, <1>2, SlotOf
<1>7. OneUser(req[r], inst[r]) /\ Owned(req[r], inst[r], walks[r])
  BY <1>6, NotGone DEF SlotOK
<1>8. /\ inst[r].at # "none" /\ "WritebackScheduled" \notin req[r].flags
      /\ inst[r].at \notin {"execute", "deferred"} => req[r].state # "Translation"
  BY <1>1, <1>7 DEF OneUser, Owned
<1>9. SlotOK(req[r], inst[r], walks[r], flight[r], Events(r), {0})
  BY <1>1, <1>6, <1>8, MoveSlot
<1>10. /\ Events(r)' = Events(r) /\ req' = req /\ walks' = walks /\ flight' = flight
       /\ inst' = inst /\ forwards' = forwards /\ panic' = panic
  BY DEF Events, envVars, PushAgain
<1>11. Framed(r)
  BY <1>2, <1>4, <1>5, <1>10 DEF Framed, IInv
<1> QED
  BY <1>4, <1>9, <1>10, <1>11, Frame

\* A store reaches the head of the ROB.
LEMMA CommitStoreKeeps == ASSUME IInv, NEW r \in Slots, CommitStore(r) PROVE IInv'
<1>1. call = {} /\ call' = call /\ inst[r].at = "executed" /\ At(r, "committed")
  BY DEF CommitStore, Idle
<1>2. Called(call, r) = {}
  BY <1>1, CalledNone
<1>3. /\ inst'[r] \in InstRecs /\ inst'[r].at = "committed"
      /\ inst'[r].squashed = inst[r].squashed
      /\ DOMAIN inst' = Slots /\ \A t \in Slots \ {r} : inst'[t] = inst[t]
  BY <1>1, AtStep DEF Places
<1>6. SlotOK(req[r], inst[r], walks[r], flight[r], Events(r), {}) /\ req[r] \in Reqs
  BY <1>1, <1>2, SlotOf
<1>7. OneUser(req[r], inst[r]) /\ Owned(req[r], inst[r], walks[r])
  BY <1>6, NotGone DEF SlotOK
<1>8. "WritebackScheduled" \notin req[r].flags /\ req[r].state # "Translation"
  BY <1>1, <1>7 DEF OneUser, Owned
<1>9. SlotOK(req[r], inst'[r], walks[r], flight[r], Events(r), {})
  BY <1>1, <1>3, <1>6, <1>8, MoveSlot
<1>10. /\ Events(r)' = Events(r) /\ req' = req /\ walks' = walks /\ flight' = flight
       /\ forwards' = forwards /\ panic' = panic
  BY DEF Events, envVars, CommitStore
<1>11. Framed(r)
  BY <1>1, <1>3, <1>10 DEF Framed, IInv, CallOK
<1> QED
  BY <1>1, <1>2, <1>9, <1>10, <1>11, Frame

-----------------------------------------------------------------------------
(* The steps that send, forward and give up *)

\* Packets are sent, from pushRequest or from the store queue.
LEMMA Sends ==
  ASSUME IInv, NEW r \in Slots, NEW n \in 0 .. 2, SendPacketToCache(r, BuildPackets(req[r]), n),
         req[r] \in Reqs, req[r].state # "Translation", inst[r].at # "none",
         "WritebackScheduled" \notin req[r].flags, Called(call, r) \subseteq {0},
         Called(call', r) = {}, \A t \in Slots \ {r} : Called(call', t) = Called(call, t),
         CallOK', inst'[r] \in InstRecs,
         inst'[r].at \in {"memory", "blocked", "committed"}, DOMAIN inst' = Slots,
         \A t \in Slots \ {r} : inst'[t] = inst[t],
         UNCHANGED <<walks, forwards, panic>>
  PROVE  IInv'
<1> DEFINE q == req[r]
           b == BuildPackets(q)
           k == SentSoFar(b)
           flags == IF k + n < b.packets THEN (q.flags \ {"Sent"}) \cup {"Retry"}
                    ELSE IF n > 0 THEN q.flags \cup {"Sent"} ELSE q.flags
           p == [b EXCEPT !.numOutstanding = @ + n, !.flags = flags]
<1>1. SlotOK(q, inst[r], walks[r], flight[r], Events(r), Called(call, r))
  BY SlotOf
<1>2. q # Gone /\ q.flags \in SUBSET Flags /\ q.packets <= Size(q)
  BY <1>1, NotGone DEF SlotOK, SentInOrder, Reqs
<1>3. b.flags = q.flags
  BY <1>2, BuildFields
<1>4. /\ k + n <= b.packets
      /\ flight' = [flight EXCEPT ![r] = @ \cup (k + 1 .. k + n)]
      /\ req' = [req EXCEPT ![r] = p]
  BY <1>3 DEF SendPacketToCache
<1>5. DOMAIN req = Slots /\ DOMAIN flight = Slots
  BY DEF IInv
<1>6. /\ req'[r] = p /\ flight'[r] = flight[r] \cup (k + 1 .. k + n)
      /\ DOMAIN req' = Slots /\ DOMAIN flight' = Slots
      /\ \A t \in Slots \ {r} : req'[t] = req[t] /\ flight'[t] = flight[t]
  <2> HIDE DEF p, k
  <2> QED
    BY <1>4, <1>5
<1>7. /\ flags \in SUBSET Flags
      /\ flags \cap {"WritebackScheduled", "WritebackDone", "LSQEntryFreed", "Discarded"}
           = q.flags \cap {"WritebackScheduled", "WritebackDone", "LSQEntryFreed", "Discarded"}
  <2>1. {"Sent", "Retry"} \subseteq Flags
    BY DEF Flags
  <2>2. CASE flags = (q.flags \ {"Sent"}) \cup {"Retry"}
    BY <1>2, <2>1, <2>2
  <2>3. CASE flags = q.flags \cup {"Sent"}
    BY <1>2, <2>1, <2>3
  <2>4. CASE flags = q.flags
    BY <1>2, <2>4
  <2> QED
    BY <2>2, <2>3, <2>4
<1> HIDE DEF flags
<1>8. SlotOK(p, inst'[r], walks[r], flight[r] \cup (k + 1 .. k + n), Events(r), {})
  BY <1>1, <1>4, <1>7, SendSlot
<1> HIDE DEF p, k
<1>9. Events(r)' = Events(r) /\ walks' = walks /\ forwards' = forwards /\ panic' = panic
  BY DEF Events
<1>10. Framed(r)
  BY <1>6, <1>9 DEF Framed, IInv
<1> QED
  BY <1>6, <1>8, <1>9, <1>10, Frame

\* A load goes to the cache.
LEMMA ReadFromCacheKeeps == ASSUME IInv, NEW r \in Slots, ReadFromCache(r) PROVE IInv'
<1> DEFINE place == IF "Sent" \in req'[r].flags THEN "memory" ELSE "blocked"
<1>1. Access(r) /\ At(r, place) /\ place \in {"memory", "blocked"} /\ place \in Places
  BY DEF ReadFromCache, Places
<1>2. req[r].state # "Translation" /\ UNCHANGED <<walks, forwards, panic>>
  BY DEF ReadFromCache, TranslationComplete
<1>3. PICK n \in 0 .. 2 : SendPacketToCache(r, BuildPackets(req[r]), n)
  BY DEF ReadFromCache
<1> HIDE DEF place
<1>4. /\ inst'[r] \in InstRecs /\ inst'[r].at = place /\ inst'[r].squashed = inst[r].squashed
      /\ DOMAIN inst' = Slots /\ \A t \in Slots \ {r} : inst'[t] = inst[t]
  BY <1>1, AtStep
<1>5. /\ req[r] \in Reqs /\ Called(call, r) = {0} /\ Called(call', r) = {}
      /\ inst[r].at \in {"execute", "deferred", "replay"} /\ ~inst[r].squashed
      /\ "WritebackScheduled" \notin req[r].flags /\ CallOK'
      /\ \A t \in Slots \ {r} : Called(call', t) = Called(call, t)
  BY <1>1, Accessing
<1> QED
  BY <1>1, <1>2, <1>3, <1>4, <1>5, Sends

\* A store goes to the cache.
LEMMA WritebackStoresKeeps == ASSUME IInv, NEW r \in Slots, WritebackStores(r) PROVE IInv'
<1>1. /\ call = {} /\ call' = call /\ inst[r].at = "committed" /\ inst' = inst
      /\ UNCHANGED <<walks, forwards, panic>>
  BY DEF WritebackStores, Idle
<1>2. PICK n \in 0 .. 2 : SendPacketToCache(r, BuildPackets(req[r]), n)
  BY DEF WritebackStores
<1>3. \A t : Called(call, t) = {}
  BY <1>1, CalledNone
<1>4. /\ SlotOK(req[r], inst[r], walks[r], flight[r], Events(r), {})
      /\ req[r] \in Reqs /\ inst[r] \in InstRecs
  BY <1>1, <1>3, SlotOf
<1>5. OneUser(req[r], inst[r]) /\ Owned(req[r], inst[r], walks[r])
  BY <1>4, NotGone DEF SlotOK
<1>6. "WritebackScheduled" \notin req[r].flags /\ req[r].state # "Translation"
  BY <1>1, <1>5 DEF OneUser, Owned
<1>7. CallOK' /\ DOMAIN inst' = Slots
  BY <1>1 DEF CallOK, IInv
<1> QED
  BY <1>1, <1>2, <1>3, <1>4, <1>6, <1>7, Sends

\* An older store has the data: an event will write it back.
LEMMA ReadForwardedKeeps == ASSUME IInv, NEW r \in Slots, ReadForwarded(r) PROVE IInv'
<1> DEFINE q == req[r]
           p == Set(q, "WritebackScheduled")
<1>1. Access(r) /\ At(r, "memory") /\ q.state # "Translation" /\ ~Outstanding(q)
  BY DEF ReadForwarded, TranslationComplete
<1>2. /\ req' = [req EXCEPT ![r] = p] /\ forwards' = forwards \cup {r}
      /\ walks' = walks /\ flight' = flight /\ panic' = panic
  BY DEF ReadForwarded
<1>3. /\ inst'[r] \in InstRecs /\ inst'[r].at = "memory" /\ inst'[r].squashed = inst[r].squashed
      /\ DOMAIN inst' = Slots /\ \A t \in Slots \ {r} : inst'[t] = inst[t]
  BY <1>1, AtStep DEF Places
<1>4. /\ q \in Reqs /\ Called(call', r) = {}
      /\ SlotOK(q, inst[r], walks[r], flight[r], Events(r), {0})
      /\ inst[r].at \in {"execute", "deferred", "replay"} /\ ~inst[r].squashed
      /\ "WritebackScheduled" \notin q.flags /\ "WritebackDone" \notin q.flags
      /\ ~Released(q) /\ CallOK' /\ \A t \in Slots \ {r} : Called(call', t) = Called(call, t)
  BY <1>1, Accessing
<1>5. /\ p \in Reqs /\ p.flags = q.flags \cup {"WritebackScheduled"}
      /\ p.kind = q.kind /\ p.state = q.state
      /\ p.numTranslated = q.numTranslated /\ p.numInTranslation = q.numInTranslation
      /\ p.packets = q.packets /\ p.numOutstanding = q.numOutstanding
      /\ p.numReceived = q.numReceived
  BY <1>4, SetFields DEF Flags
<1> HIDE DEF p
<1>6. /\ walks[r] \subseteq {1, 2} /\ flight[r] \subseteq {1, 2}
      /\ Counted(q, walks[r], flight[r], Events(r)) /\ InTranslation(q, walks[r], {0})
      /\ SentInOrder(q, flight[r])
  BY <1>4, NotGone DEF SlotOK
<1>7. q.numOutstanding = 0
  BY <1>1, <1>4 DEF Outstanding, Reqs
<1>8. SlotOK(p, inst'[r], walks[r], flight[r], 1, {})
  <2>1. Counted(p, walks[r], flight[r], 1)
    BY <1>4, <1>5, <1>6 DEF Counted, Pending
  <2>2. InTranslation(p, walks[r], {})
    BY <1>1, <1>5, <1>6 DEF InTranslation
  <2>3. OneUser(p, inst'[r])
    BY <1>3, <1>5, <1>7 DEF OneUser
  <2>4. ~Released(p)
    BY <1>4, <1>5 DEF Released
  <2>5. SentInOrder(p, flight[r])
    BY <1>4, <1>5, <1>6 DEF SentInOrder, Size
  <2>6. Owned(p, inst'[r], walks[r])
    BY <1>1, <1>3, <1>4, <1>5, <2>4 DEF Owned
  <2>7. p # Gone
    BY <1>5, NotGone
  <2> QED
    BY <1>3, <1>5, <1>6, <2>1, <2>2, <2>3, <2>5, <2>6, <2>7 DEF SlotOK
<1>9. Events(r)' = 1
  BY <1>2 DEF Events
<1>10. req'[r] = p /\ DOMAIN req' = Slots /\ \A t \in Slots \ {r} : req'[t] = req[t]
  BY <1>2 DEF IInv
<1>11. Framed(r)
  BY <1>2, <1>3, <1>4, <1>10 DEF Framed, IInv
<1> QED
  BY <1>2, <1>4, <1>8, <1>9, <1>10, <1>11, Frame

\* The entry of a request gives it up.
LEMMA Releases ==
  ASSUME IInv, NEW r \in Slots, NEW reason \in {"LSQEntryFreed", "Discarded"},
         req' = [req EXCEPT ![r] = Release(@, reason)], inst[r].at # "none",
         Called(call, r) \subseteq {0},
         Called(call', r) = {}, \A t \in Slots \ {r} : Called(call', t) = Called(call, t),
         CallOK', inst'[r] \in InstRecs, inst'[r].at = "none",
         walks[r] # {} => inst'[r].squashed, DOMAIN inst' = Slots,
         \A t \in Slots \ {r} : inst'[t] = inst[t], UNCHANGED <<envVars, panic>>
  PROVE  IInv'
<1>1. /\ SlotOK(req[r], inst[r], walks[r], flight[r], Events(r), Called(call, r))
      /\ req[r] \in Reqs
  BY SlotOf
<1>2. SlotOK(Release(req[r], reason), inst'[r], walks[r], flight[r], Events(r), {})
  BY <1>1, ReleaseSlot
<1>3. /\ req'[r] = Release(req[r], reason) /\ DOMAIN req' = Slots
      /\ \A t \in Slots \ {r} : req'[t] = req[t]
  BY DEF IInv
<1>4. /\ Events(r)' = Events(r) /\ walks' = walks /\ flight' = flight /\ forwards' = forwards
      /\ panic' = panic
  BY DEF Events, envVars
<1>5. Framed(r)
  BY <1>3, <1>4 DEF Framed, IInv
<1> QED
  BY <1>2, <1>3, <1>4, <1>5, Frame

\* A load that is partly forwarded is rescheduled; it is not being translated.
LEMMA ReadPartlyKeeps == ASSUME IInv, NEW r \in Slots, ReadPartly(r) PROVE IInv'
<1>1. /\ Access(r) /\ At(r, "none") /\ req[r].state # "Translation"
      /\ req' = [req EXCEPT ![r] = Release(@, "Discarded")] /\ UNCHANGED <<envVars, panic>>
  BY DEF ReadPartly, TranslationComplete
<1>2. /\ inst'[r] \in InstRecs /\ inst'[r].at = "none"
      /\ DOMAIN inst' = Slots /\ \A t \in Slots \ {r} : inst'[t] = inst[t]
  BY <1>1, AtStep DEF Places
<1>3. /\ req[r] \in Reqs /\ Called(call, r) = {0} /\ Called(call', r) = {}
      /\ SlotOK(req[r], inst[r], walks[r], flight[r], Events(r), {0})
      /\ inst[r].at \in {"execute", "deferred", "replay"} /\ CallOK'
      /\ \A t \in Slots \ {r} : Called(call', t) = Called(call, t)
  BY <1>1, Accessing
<1>4. walks[r] = {}
  BY <1>1, <1>3, NotGone DEF SlotOK, InTranslation
<1> QED
  BY <1>1, <1>2, <1>3, <1>4, Releases

\* An instruction that is done leaves its queue.
LEMMA FreeLSQEntryKeeps == ASSUME IInv, NEW r \in Slots, FreeLSQEntry(r) PROVE IInv'
<1>1. /\ call = {} /\ call' = call /\ At(r, "none") /\ inst[r].at = "done"
      /\ req' = [req EXCEPT ![r] = Release(@, "LSQEntryFreed")] /\ UNCHANGED <<envVars, panic>>
  BY DEF FreeLSQEntry, Idle
<1>2. /\ inst'[r] \in InstRecs /\ inst'[r].at = "none"
      /\ DOMAIN inst' = Slots /\ \A t \in Slots \ {r} : inst'[t] = inst[t]
  BY <1>1, AtStep DEF Places
<1>3. \A t : Called(call, t) = {}
  BY <1>1, CalledNone
<1>4. /\ SlotOK(req[r], inst[r], walks[r], flight[r], Events(r), {}) /\ req[r] \in Reqs
  BY <1>1, <1>3, SlotOf
<1>5. req[r].state # "Translation"
  BY <1>1, <1>4, NotGone DEF SlotOK, Owned
<1>6. walks[r] = {} /\ CallOK'
  BY <1>1, <1>4, <1>5, NotGone DEF SlotOK, InTranslation, CallOK
<1> QED
  BY <1>1, <1>2, <1>3, <1>6, Releases

\* An instruction is marked as squashed where it stands.
LEMMA SetSquashedKeeps == ASSUME IInv, NEW r \in Slots, SetSquashed(r) PROVE IInv'
<1>1. /\ call = {} /\ call' = call /\ inst[r].at # "none" /\ req' = req
      /\ inst' = [inst EXCEPT ![r].squashed = TRUE] /\ UNCHANGED <<envVars, panic>>
  BY DEF SetSquashed, Squashable, Idle
<1>2. inst[r] \in InstRecs /\ DOMAIN inst = Slots
  BY SlotOf DEF IInv
<1>3. /\ inst'[r] \in InstRecs /\ inst'[r].at = inst[r].at
      /\ DOMAIN inst' = Slots /\ \A t \in Slots \ {r} : inst'[t] = inst[t]
  BY <1>1, <1>2 DEF InstRecs
<1>4. Called(call, r) = {} /\ CallOK'
  BY <1>1, CalledNone DEF CallOK
<1>5. SlotOK(req[r], inst[r], walks[r], flight[r], Events(r), {}) /\ req[r] # Gone
  BY <1>1, <1>4, SlotOf, NotGone
<1>6. SlotOK(req[r], inst'[r], walks[r], flight[r], Events(r), {})
  <2>1. OneUser(req[r], inst'[r])
    BY <1>3, <1>5 DEF SlotOK, OneUser
  <2>2. Owned(req[r], inst'[r], walks[r])
    BY <1>1, <1>3, <1>5 DEF SlotOK, Owned
  <2> QED
    BY <1>3, <1>5, <2>1, <2>2 DEF SlotOK
<1>7. /\ Events(r)' = Events(r) /\ walks' = walks /\ flight' = flight
      /\ forwards' = forwards /\ panic' = panic
  BY <1>1 DEF Events, envVars
<1>8. Framed(r)
  BY <1>1, <1>3, <1>4, <1>7 DEF Framed, IInv
<1> QED
  BY <1>1, <1>4, <1>6, <1>7, <1>8, Frame

\* A squash takes an instruction from wherever it is.
LEMMA SquashKeeps == ASSUME IInv, NEW r \in Slots, Squash(r) PROVE IInv'
<1>1. /\ call = {} /\ call' = call /\ inst[r].at # "none"
      /\ inst' = [inst EXCEPT ![r].at = "none", ![r].squashed = TRUE]
      /\ req' = [req EXCEPT ![r] = Release(@, "LSQEntryFreed")] /\ UNCHANGED <<envVars, panic>>
  BY DEF Squash, Squashable, Idle
<1>2. inst[r] \in InstRecs /\ DOMAIN inst = Slots
  BY SlotOf DEF IInv
<1>3. /\ inst'[r] \in InstRecs /\ inst'[r].at = "none" /\ inst'[r].squashed
      /\ DOMAIN inst' = Slots /\ \A t \in Slots \ {r} : inst'[t] = inst[t]
  BY <1>1, <1>2 DEF InstRecs, Places
<1>4. \A t : Called(call, t) = {}
  BY <1>1, CalledNone
<1>5. CallOK'
  BY <1>1 DEF CallOK
<1> QED
  BY <1>1, <1>3, <1>4, <1>5, Releases

-----------------------------------------------------------------------------
(* The steps of a translation *)

\* A new request, of which the first fragment or the access comes next.
LEMMA NewSlot ==
  ASSUME NEW p \in Reqs, p.flags \cap {"WritebackScheduled", "LSQEntryFreed", "Discarded",
           "WritebackDone", "TranslationSquashed"} = {},
         p.numTranslated = 0, p.numInTranslation = 0, p.packets = 0,
         p.numOutstanding = 0, p.numReceived = 0,
         NEW n \in InstRecs, n.at = "execute", ~n.squashed, NEW c \in {{0}, {1}},
         c = {1} => p.kind \in {"single", "split"},
         p.state = "Translation" <=> c = {1}
  PROVE  SlotOK(p, n, {}, {}, 0, c)
<1>1. Cardinality({}) = 0 /\ Size(p) \in 0 .. 2 /\ p # Gone
  BY FS_EmptySet, FragsSize, NotGone
<1>2. Counted(p, {}, {}, 0)
  BY <1>1 DEF Counted, Pending
<1>3. InTranslation(p, {}, c)
  <2>1. CASE c = {0}
    BY <2>1 DEF InTranslation
  <2>2. CASE c = {1}
    BY <2>2 DEF InTranslation, Issued, Size
  <2> QED
    BY <2>1, <2>2
<1>4. OneUser(p, n)
  BY DEF OneUser
<1>5. SentInOrder(p, {})
  BY <1>1 DEF SentInOrder
<1>6. Owned(p, n, {})
  BY DEF Owned, Released
<1>7. \A j \in c : j > 0 => c = {j} /\ j <= Size(p)
  BY DEF Size
<1> QED
  BY <1>1, <1>2, <1>3, <1>4, <1>5, <1>6, <1>7 DEF SlotOK

\* The request of an instruction that had none.
LEMMA PushRequestKeeps ==
  ASSUME IInv, NEW r \in Slots, NEW kind \in Kinds, NEW load \in BOOLEAN,
         PushRequest(r, kind, load)
  PROVE  IInv'
<1> DEFINE n == [at |-> "execute", load |-> load, squashed |-> FALSE]
           k == IF kind \in {"single", "split"} THEN 1 ELSE 0
           p == CASE kind = "masked" -> NewRequest(kind)
                  [] kind = "direct" ->
                       [NewRequest(kind) EXCEPT !.state = "Request",
                          !.flags = {"TranslationStarted", "TranslationFinished"}]
                  [] OTHER ->
                       [NewRequest(kind) EXCEPT !.state = "Translation",
                          !.flags = {"TranslationStarted"}]
<1>1. /\ call = {} /\ call' = {[slot |-> r, frag |-> k]} /\ req[r] = Gone
      /\ req' = [req EXCEPT ![r] = p] /\ inst' = [inst EXCEPT ![r] = n]
      /\ walks' = walks /\ flight' = flight /\ forwards' = forwards /\ panic' = panic
  BY DEF PushRequest, Idle, Live, envVars
<1>2. kind \in {"single", "split", "direct", "masked"}
  BY LSQAssumption
<1>3. /\ p \in Reqs
      /\ p.flags \cap {"WritebackScheduled", "LSQEntryFreed", "Discarded", "WritebackDone",
                       "TranslationSquashed"} = {}
      /\ p.numTranslated = 0 /\ p.numInTranslation = 0 /\ p.packets = 0
      /\ p.numOutstanding = 0 /\ p.numReceived = 0 /\ p.kind = kind
      /\ p.state = "Translation" <=> k = 1
  <2>1. CASE kind = "masked"
    <3>1. p = NewRequest(kind)
      BY <2>1, Zenon
    <3> QED
      BY <2>1, <3>1 DEF NewRequest, Reqs, States
  <2>2. CASE kind = "direct"
    <3>1. p = [NewRequest(kind) EXCEPT !.state = "Request",
                 !.flags = {"TranslationStarted", "TranslationFinished"}]
      BY <2>2, "direct" # "masked", Zenon
    <3>2. {"TranslationStarted", "TranslationFinished"} \in SUBSET Flags /\ "Request" \in States
      BY DEF Flags, States
    <3>3. k = 0
      BY <2>2
    <3> HIDE DEF p, k
    <3>4. /\ p \in Reqs /\ p.kind = kind /\ p.state = "Request"
          /\ p.flags = {"TranslationStarted", "TranslationFinished"}
          /\ p.numTranslated = 0 /\ p.numInTranslation = 0 /\ p.packets = 0
          /\ p.numOutstanding = 0 /\ p.numReceived = 0
      BY <3>1, <3>2 DEF NewRequest, Reqs, States
    <3> QED
      BY <3>3, <3>4
  <2>3. CASE kind \in {"single", "split"}
    <3>1. kind # "masked" /\ kind # "direct"
      BY <2>3
    <3>2. p = [NewRequest(kind) EXCEPT !.state = "Translation",
                 !.flags = {"TranslationStarted"}]
      BY <3>1, Zenon
    <3> HIDE DEF p
    <3> QED
      BY <2>3, <3>2 DEF NewRequest, Reqs, States, Flags
  <2> QED
    BY <1>2, <2>1, <2>2, <2>3
<1>4. n \in InstRecs /\ n.at = "execute" /\ ~n.squashed
  BY DEF InstRecs, Places
<1> HIDE DEF p, n
<1>5. /\ DOMAIN req = Slots /\ DOMAIN inst = Slots
      /\ SlotOK(req[r], inst[r], walks[r], flight[r], Events(r), Called(call, r))
  BY DEF IInv
<1>6. walks[r] = {} /\ flight[r] = {} /\ Events(r) = 0
  BY <1>1, <1>5 DEF SlotOK, Empty
<1>8. k \in {0, 1} /\ (k = 1 => kind \in {"single", "split"})
  OBVIOUS
<1> HIDE DEF k
<1>7. k \in 0 .. 2 /\ {k} \in {{0}, {1}} /\ ({k} = {1} <=> k = 1)
  <2>1. CASE k = 0
    <3>1. 0 \in {0} /\ 0 \notin {1}
      OBVIOUS
    <3>2. {0} # {1}
      BY <3>1
    <3> QED
      BY <2>1, <3>2
  <2>2. CASE k = 1
    BY <2>2
  <2> QED
    BY <1>8, <2>1, <2>2
<1>9. Called(call', r) = {k} /\ \A t \in Slots \ {r} : Called(call', t) = {}
  <2>1. 0 \in 0 .. 2 /\ 1 \in 0 .. 2
    OBVIOUS
  <2>2. CASE k = 0
    BY <1>1, <2>1, <2>2, CalledOne
  <2>3. CASE k = 1
    BY <1>1, <2>1, <2>3, CalledOne
  <2> QED
    BY <1>8, <2>2, <2>3
<1>10. SlotOK(p, n, {}, {}, 0, {k})
  BY <1>3, <1>4, <1>7, <1>8, NewSlot
<1>11. \A t : Called(call, t) = {}
  BY <1>1, CalledNone
<1>12. /\ req'[r] = p /\ inst'[r] = n /\ DOMAIN req' = Slots /\ DOMAIN inst' = Slots
       /\ \A t \in Slots \ {r} : req'[t] = req[t] /\ inst'[t] = inst[t]
  BY <1>1, <1>5
<1>13. CallOK'
  BY <1>1, <1>7 DEF CallOK
<1>14. Framed(r) /\ Events(r)' = Events(r)
  BY <1>1, <1>9, <1>11, <1>12, <1>13 DEF Framed, IInv, Events
<1> QED
  BY <1>1, <1>6, <1>9, <1>10, <1>12, <1>14, Frame

\* A slot whose request is being translated, in its parts.
LEMMA Translating ==
  ASSUME NEW q \in Reqs, NEW n, NEW w, NEW f, NEW e, NEW c, SlotOK(q, n, w, f, e, c),
         w # {} \/ ~(c \subseteq {0})
  PROVE  /\ q.state = "Translation" /\ q.kind \in {"single", "split"} /\ Size(q) \in 0 .. 2
         /\ q.numTranslated < Size(q) /\ w \in SUBSET {1, 2} /\ Cardinality(w) \in Nat
         /\ q.numInTranslation = Cardinality(w)
         /\ q.numTranslated + q.numInTranslation = Issued(q, c) /\ w \subseteq 1 .. Issued(q, c)
         /\ q.numOutstanding = 0 /\ q.numReceived = 0 /\ q.packets <= Size(q)
         /\ "WritebackScheduled" \notin q.flags /\ "WritebackDone" \notin q.flags
         /\ "TranslationSquashed" \notin q.flags
         /\ f = {} /\ e = 0 /\ n \in InstRecs
         /\ n.at \in {"none", "execute", "deferred"}
         /\ n.at = "none" => Released(q) /\ (w # {} => n.squashed)
         /\ n.at # "none" => ~Released(q)
         /\ c # {} => ~n.squashed
<1>1. q # Gone
  BY NotGone
<1>2. /\ Counted(q, w, f, e) /\ InTranslation(q, w, c) /\ OneUser(q, n)
      /\ SentInOrder(q, f) /\ Owned(q, n, w)
      /\ w \in SUBSET {1, 2} /\ f \in SUBSET {1, 2} /\ n \in InstRecs
  BY <1>1 DEF SlotOK
<1>3. q.state = "Translation"
  BY <1>2 DEF InTranslation
<1>4. Cardinality(f) = 0 => f = {}
  BY <1>2, TwoFragments
<1>5. f = {} /\ e = 0
  BY <1>2, <1>3, <1>4 DEF InTranslation, Counted, Pending
<1>6. Size(q) \in 0 .. 2 /\ Cardinality(w) \in Nat /\ (w # {} => Cardinality(w) > 0)
  <2>1. Cardinality(w) \in Nat /\ (Cardinality(w) = 0 <=> w = {})
    BY <1>2, TwoFragments
  <2> QED
    BY <2>1, FragsSize
<1>7. q.numTranslated < Size(q)
  <2>1. /\ q.numTranslated + Cardinality(w) = Issued(q, c) /\ q.numTranslated \in Nat
        /\ c \subseteq 0 .. 2 /\ \A i \in c : i > 0 => i <= Size(q)
    BY <1>1, <1>2, <1>3 DEF InTranslation, Counted, SlotOK, Reqs
  <2>2. CASE 1 \in c \/ 2 \in c
    BY <1>6, <2>1, <2>2 DEF Issued
  <2>3. CASE 1 \notin c /\ 2 \notin c
    BY <1>6, <2>1, <2>3 DEF Issued
  <2> QED
    BY <2>2, <2>3
<1>8. c # {} => ~n.squashed
  BY <1>1 DEF SlotOK
<1> QED
  BY <1>2, <1>3, <1>5, <1>6, <1>7, <1>8 DEF InTranslation, Counted, OneUser, SentInOrder, Owned

\* The TLB answers for a walk.
LEMMA FinishWalkKeeps ==
  ASSUME IInv, NEW r \in Slots, NEW i \in {1, 2}, FinishWalk(r, i)
  PROVE  IInv'
<1> DEFINE q == req[r]
           n == inst[r]
           w == walks[r] \ {i}
<1>1. /\ call = {} /\ call' = call /\ i \in walks[r] /\ walks' = [walks EXCEPT ![r] = @ \ {i}]
      /\ inst' = inst /\ flight' = flight /\ forwards' = forwards
  BY DEF FinishWalk, Idle
<1>2. Called(call, r) = {} /\ CallOK'
  BY <1>1, CalledNone DEF CallOK
<1>3. SlotOK(q, n, walks[r], flight[r], Events(r), {}) /\ q \in Reqs /\ q # Gone
  BY <1>1, <1>2, SlotOf, NotGone
<1>4. PICK fault \in BOOLEAN : /\ req' = [req EXCEPT ![r] = Finish(q, i, fault, n.squashed)]
                               /\ panic' = panic
  BY <1>3 DEF FinishWalk, Live
<1>5. /\ q.state = "Translation" /\ q.kind \in {"single", "split"} /\ Size(q) \in 0 .. 2
      /\ walks[r] \in SUBSET {1, 2} /\ q.numInTranslation = Cardinality(walks[r])
      /\ q.numTranslated + q.numInTranslation = Issued(q, {})
      /\ walks[r] \subseteq 1 .. Issued(q, {})
      /\ q.numOutstanding = 0 /\ q.numReceived = 0 /\ q.packets <= Size(q)
      /\ "WritebackScheduled" \notin q.flags /\ "WritebackDone" \notin q.flags
      /\ flight[r] = {} /\ Events(r) = 0 /\ n \in InstRecs
      /\ n.at \in {"none", "execute", "deferred"}
      /\ n.at = "none" => Released(q) /\ (walks[r] # {} => n.squashed)
      /\ n.at # "none" => ~Released(q)
      /\ "TranslationSquashed" \notin q.flags
  BY <1>1, <1>3, Translating
<1>6. Cardinality(w) = Cardinality(walks[r]) - 1 /\ Cardinality(walks[r]) \in Nat
  BY <1>1, <1>5, TwoFragments
<1>7. w \in SUBSET {1, 2} /\ w \subseteq 1 .. Issued(q, {})
  BY <1>5
<1>8. Mid(q, n, w, {}, 0, {})
  BY <1>1, <1>3, <1>5, <1>6, <1>7 DEF Mid
<1>9. SlotOK(Finish(q, i, fault, n.squashed), n, w, {}, 0, {})
  BY <1>8, FinishSlot
<1>10. /\ req'[r] = Finish(q, i, fault, n.squashed) /\ walks'[r] = w
       /\ DOMAIN req' = Slots /\ DOMAIN walks' = Slots
       /\ \A t \in Slots \ {r} : req'[t] = req[t] /\ walks'[t] = walks[t]
  BY <1>1, <1>4 DEF IInv
<1>11. Events(r)' = Events(r)
  BY <1>1 DEF Events
<1>12. Framed(r)
  BY <1>1, <1>2, <1>4, <1>10 DEF Framed, IInv
<1>13. inst'[r] = n /\ flight'[r] = {} /\ Events(r)' = 0 /\ Called(call', r) = {}
  BY <1>1, <1>2, <1>5, <1>11
<1>14. SlotOK(req'[r], inst'[r], walks'[r], flight'[r], Events(r)', Called(call', r))
  <2> HIDE DEF q, n, w
  <2> QED
    BY <1>9, <1>10, <1>13
<1> QED
  BY <1>12, <1>14, Frame

\* One fragment more that is with the TLB.
LEMMA WalkSlot ==
  ASSUME NEW q \in Reqs, NEW n, NEW w, NEW f, NEW e, NEW i \in {1, 2},
         SlotOK(q, n, w, f, e, {i}), NEW d \in SUBSET (0 .. 2), Issued(q, d) = i,
         \A j \in d : j > 0 => d = {j} /\ j <= Size(q),
         NEW p \in Reqs, p.kind = q.kind, p.state = q.state, p.flags = q.flags,
         p.numTranslated = q.numTranslated, p.numInTranslation = q.numInTranslation + 1,
         p.packets = q.packets, p.numOutstanding = q.numOutstanding,
         p.numReceived = q.numReceived
  PROVE  SlotOK(p, n, w \cup {i}, f, e, d) /\ Mid(p, n, w, f, e, d)
<1> DEFINE c == {i}
<1>0. SlotOK(q, n, w, f, e, c) /\ ~(c \subseteq {0})
  OBVIOUS
<1> HIDE DEF c
<1>1. /\ q.state = "Translation" /\ q.kind \in {"single", "split"} /\ Size(q) \in 0 .. 2
      /\ q.numTranslated < Size(q) /\ w \in SUBSET {1, 2} /\ Cardinality(w) \in Nat
      /\ q.numInTranslation = Cardinality(w)
      /\ q.numTranslated + q.numInTranslation = Issued(q, c) /\ w \subseteq 1 .. Issued(q, c)
      /\ q.numOutstanding = 0 /\ q.numReceived = 0 /\ q.packets <= Size(q)
      /\ "WritebackScheduled" \notin q.flags /\ "WritebackDone" \notin q.flags
      /\ f = {} /\ e = 0 /\ n \in InstRecs
      /\ n.at \in {"none", "execute", "deferred"}
      /\ n.at # "none" => ~Released(q)
      /\ "TranslationSquashed" \notin q.flags /\ ~n.squashed
  BY <1>0, Translating
<1>2. n.at # "none" /\ i <= Size(q) /\ q.numTranslated \in Nat
  BY NotGone DEF SlotOK, Reqs
<1>3. Issued(q, c) = i - 1
  BY DEF Issued, c
<1>4. i \notin w /\ w \subseteq 1 .. i /\ w \cup {i} \subseteq 1 .. i
  <2>1. w \subseteq 1 .. (i - 1)
    BY <1>1, <1>3
  <2>2. \A j \in w : j \in Int /\ 1 <= j /\ j <= i - 1
    BY <2>1
  <2>3. i \notin w /\ w \subseteq 1 .. i
    BY <2>2
  <2>4. i \in 1 .. i
    OBVIOUS
  <2> QED
    BY <2>3, <2>4
<1>5. Cardinality(w \cup {i}) = Cardinality(w) + 1
  BY <1>1, <1>4, TwoFragments
<1>6. Size(p) = Size(q) /\ Issued(p, d) = i /\ Released(p) = Released(q) /\ p # Gone
  BY NotGone DEF Size, Issued, Released
<1>7. p.numTranslated + p.numInTranslation = i
  BY <1>1, <1>2, <1>3
<1>8. Mid(p, n, w, f, e, d)
  BY <1>1, <1>2, <1>4, <1>6, <1>7 DEF Mid
<1>9. SlotOK(p, n, w \cup {i}, f, e, d)
  <2>1. Counted(p, w \cup {i}, f, e)
    BY <1>1, <1>5, FS_EmptySet DEF Counted, Pending
  <2>2. InTranslation(p, w \cup {i}, d)
    BY <1>1, <1>4, <1>6, <1>7 DEF InTranslation
  <2>3. OneUser(p, n)
    BY <1>1 DEF OneUser
  <2>4. SentInOrder(p, f)
    BY <1>1, <1>6 DEF SentInOrder, Reqs
  <2>5. Owned(p, n, w \cup {i})
    BY <1>1, <1>2, <1>6 DEF Owned
  <2> QED
    BY <1>1, <1>2, <1>6, <2>1, <2>2, <2>3, <2>4, <2>5 DEF SlotOK
<1> QED
  BY <1>8, <1>9

\* The next fragment goes to the TLB, which may be done with it at once.
LEMMA SendFragmentKeeps ==
  ASSUME IInv, NEW r \in Slots, NEW i \in {1, 2}, SendFragmentToTranslation(r, i)
  PROVE  IInv'
<1> DEFINE q == req[r]
           n == inst[r]
           w == walks[r]
           p == [q EXCEPT !.numInTranslation = @ + 1]
           next == IF i + 1 \in Frags(q.kind) THEN i + 1 ELSE 0
<1>1. /\ call = {[slot |-> r, frag |-> i]} /\ call' = {[slot |-> r, frag |-> next]}
      /\ inst' = inst /\ flight' = flight /\ forwards' = forwards /\ panic' = panic
  BY DEF SendFragmentToTranslation
<1>2. i \in 0 .. 2
  OBVIOUS
<1>3. Called(call, r) = {i} /\ \A t \in Slots \ {r} : Called(call, t) = {}
  BY <1>1, <1>2, CalledOne
<1>4. SlotOK(q, n, w, flight[r], Events(r), {i}) /\ q \in Reqs /\ q # Gone
  <2>1. Called(call, r) # {}
    BY <1>3
  <2> QED
    BY <1>3, <2>1, SlotOf, NotGone
<1>5. /\ q.kind \in {"single", "split"} /\ flight[r] = {} /\ Events(r) = 0
  <2>1. ~({i} \subseteq {0})
    OBVIOUS
  <2> QED
    BY <1>4, <2>1, Translating
<1>6. i <= Size(q)
  BY <1>4 DEF SlotOK
<1>7. Frags(q.kind) = 1 .. Size(q)
  BY <1>4, FragsSize
<1>8. next \in 0 .. 2 /\ Issued(q, {next}) = i /\ (next > 0 => next <= Size(q))
  <2>1. CASE i = 2
    BY <1>5, <1>6, <1>7, <2>1 DEF Issued, Size
  <2>2. CASE i = 1 /\ q.kind = "split"
    BY <1>7, <2>2 DEF Issued, Size
  <2>3. CASE i = 1 /\ q.kind = "single"
    BY <1>7, <2>3 DEF Issued, Size
  <2> QED
    BY <1>5, <2>1, <2>2, <2>3
<1> HIDE DEF next
<1>9. Called(call', r) = {next} /\ \A t \in Slots \ {r} : Called(call', t) = {}
  <2> SUFFICES ASSUME NEW m \in 0 .. 2, next = m
               PROVE  Called(call', r) = {m} /\ \A t \in Slots \ {r} : Called(call', t) = {}
    BY <1>8
  <2> QED
    BY <1>1, CalledOne
<1>10. CallOK'
  BY <1>1, <1>8 DEF CallOK
<1>11. /\ p \in Reqs /\ p.kind = q.kind /\ p.state = q.state /\ p.flags = q.flags
       /\ p.numTranslated = q.numTranslated /\ p.numInTranslation = q.numInTranslation + 1
       /\ p.packets = q.packets /\ p.numOutstanding = q.numOutstanding
       /\ p.numReceived = q.numReceived
  BY <1>4 DEF Reqs
<1>12. /\ {next} \in SUBSET (0 .. 2)
       /\ \A j \in {next} : j > 0 => {next} = {j} /\ j <= Size(q)
  BY <1>8
<1>13. SlotOK(p, n, w \cup {i}, {}, 0, {next}) /\ Mid(p, n, w, {}, 0, {next})
  <2> HIDE DEF q, p
  <2> QED
    BY <1>4, <1>5, <1>8, <1>11, <1>12, WalkSlot
<1>14. DOMAIN req = Slots /\ DOMAIN walks = Slots
  BY DEF IInv
<1>15. /\ SlotOK(req'[r], n, walks'[r], {}, 0, {next})
       /\ DOMAIN req' = Slots /\ DOMAIN walks' = Slots
       /\ \A t \in Slots \ {r} : req'[t] = req[t] /\ walks'[t] = walks[t]
  <2>1. CASE req' = [req EXCEPT ![r] = p] /\ walks' = [walks EXCEPT ![r] = @ \cup {i}]
    <3>1. /\ req'[r] = p /\ walks'[r] = w \cup {i}
          /\ DOMAIN req' = Slots /\ DOMAIN walks' = Slots
          /\ \A t \in Slots \ {r} : req'[t] = req[t] /\ walks'[t] = walks[t]
      BY <1>14, <2>1
    <3> HIDE DEF p, q, n, w
    <3> QED
      BY <3>1, <1>13
  <2>2. ASSUME NEW fault \in BOOLEAN,
               req' = [req EXCEPT ![r] = Finish(p, i, fault, n.squashed)], walks' = walks
        PROVE  /\ SlotOK(req'[r], n, walks'[r], {}, 0, {next})
               /\ DOMAIN req' = Slots /\ DOMAIN walks' = Slots
               /\ \A t \in Slots \ {r} : req'[t] = req[t] /\ walks'[t] = walks[t]
    <3>1. SlotOK(Finish(p, i, fault, n.squashed), n, w, {}, 0, {next})
      BY <1>13, FinishSlot
    <3>2. /\ req'[r] = Finish(p, i, fault, n.squashed)
          /\ DOMAIN req' = Slots /\ \A t \in Slots \ {r} : req'[t] = req[t]
      BY <1>14, <2>2
    <3>3. /\ walks'[r] = w /\ DOMAIN walks' = Slots
          /\ \A t \in Slots \ {r} : walks'[t] = walks[t]
      BY <1>14, <2>2
    <3> HIDE DEF p, q, n, w
    <3> QED
      BY <3>1, <3>2, <3>3
  <2> QED
    BY <2>1, <2>2 DEF SendFragmentToTranslation
<1>16. Events(r)' = Events(r)
  BY <1>1 DEF Events
<1>17. Framed(r)
  BY <1>1, <1>3, <1>9, <1>10, <1>15 DEF Framed, IInv
<1>18. inst'[r] = n /\ flight'[r] = {} /\ Events(r)' = 0
  BY <1>1, <1>5, <1>16
<1>19. SlotOK(req'[r], inst'[r], walks'[r], flight'[r], Events(r)', Called(call', r))
  <2> HIDE DEF q, n, w, p
  <2> QED
    BY <1>9, <1>15, <1>18
<1> QED
  BY <1>17, <1>19, Frame

-----------------------------------------------------------------------------
(* Responses and events *)

\* The memory answers a packet.
LEMMA RecvTimingRespKeeps ==
  ASSUME IInv, NEW r \in Slots, NEW i \in {1, 2}, RecvTimingResp(r, i)
  PROVE  IInv'
<1> DEFINE q == req[r]
           n == inst[r]
           g == flight[r] \ {i}
<1>1. /\ call = {} /\ call' = call /\ i \in flight[r] /\ flight' = [flight EXCEPT ![r] = @ \ {i}]
      /\ walks' = walks /\ forwards' = forwards
  BY DEF RecvTimingResp, Idle
<1>2. Called(call, r) = {} /\ CallOK'
  BY <1>1, CalledNone DEF CallOK
<1>3. SlotOK(q, n, walks[r], flight[r], Events(r), {}) /\ q \in Reqs /\ q # Gone
  BY <1>1, <1>2, SlotOf, NotGone
<1>4. panic' = panic
  BY <1>3 DEF RecvTimingResp, Live
<1>5. /\ flight[r] \in SUBSET {1, 2} /\ Counted(q, walks[r], flight[r], Events(r))
      /\ InTranslation(q, walks[r], {}) /\ OneUser(q, n) /\ SentInOrder(q, flight[r])
      /\ Owned(q, n, walks[r]) /\ n \in InstRecs
  BY <1>3 DEF SlotOK
<1>6. Cardinality(flight[r]) \in Nat /\ (Cardinality(flight[r]) = 0 <=> flight[r] = {})
  BY <1>5, TwoFragments
<1>7. q.numOutstanding > 0
  BY <1>1, <1>5, <1>6 DEF Counted
<1>8. /\ q.state # "Translation" /\ walks[r] = {} /\ Events(r) = 0
      /\ "WritebackScheduled" \notin q.flags /\ "WritebackDone" \notin q.flags
  BY <1>5, <1>7 DEF InTranslation, OneUser, Counted, Pending
<1>9. DOMAIN req = Slots /\ DOMAIN flight = Slots /\ DOMAIN inst = Slots
  BY DEF IInv
<1>10. /\ SlotOK(req'[r], inst'[r], {}, g, 0, {})
       /\ DOMAIN req' = Slots /\ DOMAIN inst' = Slots
       /\ \A t \in Slots \ {r} : req'[t] = req[t] /\ inst'[t] = inst[t]
  <2>1. CASE Released(q)
    <3>1. n.at = "none"
      BY <1>5, <2>1 DEF Owned
    <3>2. req' = [req EXCEPT ![r] = PacketReplied(q)] /\ inst' = inst
      BY <1>3, <2>1 DEF RecvTimingResp, Live
    <3>3. /\ q.packets <= Size(q) /\ (q.kind # "split" => q.numReceived = 0)
          /\ q.numReceived + q.numOutstanding <= q.packets + 1
      BY <1>3, <1>5 DEF SentInOrder, Reqs
    <3>4. Counted(q, {}, flight[r], 0)
      BY <1>5, <1>8
    <3>5. SlotOK(PacketReplied(q), n, {}, g, 0, {})
      BY <1>1, <1>3, <1>5, <1>8, <2>1, <3>1, <3>3, <3>4, RepliedOrphan
    <3>6. /\ req'[r] = PacketReplied(q) /\ inst'[r] = n /\ DOMAIN req' = Slots
          /\ \A t \in Slots \ {r} : req'[t] = req[t]
      BY <1>9, <3>2
    <3> HIDE DEF q, n, g
    <3> QED
      BY <1>9, <3>2, <3>5, <3>6
  <2>2. CASE ~Released(q)
    <3> DEFINE last == "Complete" \in Received(q).flags /\ ~n.squashed
    <3>1. PICK freed \in BOOLEAN :
            /\ req' = [req EXCEPT ![r] =
                 PacketReplied(IF freed THEN Release(Received(q), "LSQEntryFreed")
                               ELSE Received(q))]
            /\ IF last THEN At(r, IF freed THEN "none" ELSE "done")
                       ELSE inst' = inst /\ ~freed
      BY <1>3, <2>2 DEF RecvTimingResp, Live
    <3>2. n.at # "none"
      BY <1>5, <2>2 DEF Owned
    <3>3. SlotOK(q, n, {}, flight[r], 0, {})
      BY <1>3, <1>8
    <3>4. \A m \in InstRecs :
            /\ m.at # "none" => SlotOK(PacketReplied(Received(q)), m, {}, g, 0, {})
            /\ m.at = "none" => SlotOK(PacketReplied(Release(Received(q), "LSQEntryFreed")),
                                       m, {}, g, 0, {})
      BY <1>1, <1>3, <1>8, <2>2, <3>3, RepliedOwned
    <3>5. /\ inst'[r] \in InstRecs /\ DOMAIN inst' = Slots
          /\ \A t \in Slots \ {r} : inst'[t] = inst[t]
          /\ IF freed THEN inst'[r].at = "none" ELSE inst'[r].at # "none"
      <4>1. CASE last /\ freed
        <5>1. At(r, "none")
          BY <3>1, <4>1
        <5> QED
          BY <4>1, <5>1, AtStep DEF Places
      <4>2. CASE last /\ ~freed
        <5>1. At(r, "done")
          BY <3>1, <4>2
        <5> QED
          BY <3>2, <4>2, <5>1, AtStep DEF Places
      <4>3. CASE ~last
        BY <1>5, <1>9, <3>1, <3>2, <4>3
      <4> QED
        BY <4>1, <4>2, <4>3
    <3>6. /\ req'[r] = PacketReplied(IF freed THEN Release(Received(q), "LSQEntryFreed")
                                     ELSE Received(q))
          /\ DOMAIN req' = Slots /\ \A t \in Slots \ {r} : req'[t] = req[t]
      BY <1>9, <3>1
    <3> HIDE DEF q, n, g, last
    <3>7. CASE freed
      BY <3>4, <3>5, <3>6, <3>7
    <3>8. CASE ~freed
      BY <3>4, <3>5, <3>6, <3>8
    <3> QED
      BY <3>7, <3>8
  <2> QED
    BY <2>1, <2>2
<1>11. flight'[r] = g /\ DOMAIN flight' = Slots /\ \A t \in Slots \ {r} : flight'[t] = flight[t]
  BY <1>1, <1>9
<1>12. Events(r)' = 0 /\ walks'[r] = {} /\ Called(call', r) = {}
  BY <1>1, <1>2, <1>8 DEF Events
<1>13. Framed(r)
  BY <1>1, <1>2, <1>4, <1>10, <1>11 DEF Framed, IInv
<1>14. SlotOK(req'[r], inst'[r], walks'[r], flight'[r], Events(r)', Called(call', r))
  <2> HIDE DEF q, n, g
  <2> QED
    BY <1>10, <1>11, <1>12
<1> QED
  BY <1>13, <1>14, Frame

\* The writeback event of a forwarded load comes, perhaps for an orphan.
LEMMA WritebackEventKeeps == ASSUME IInv, NEW r \in Slots, WritebackEvent(r) PROVE IInv'
<1> DEFINE q == req[r]
           n == inst[r]
           p == Set(q, "WritebackDone")
<1>1. /\ call = {} /\ call' = call /\ r \in forwards /\ forwards' = forwards \ {r}
      /\ walks' = walks /\ flight' = flight
  BY DEF WritebackEvent, Idle
<1>2. Called(call, r) = {} /\ CallOK'
  BY <1>1, CalledNone DEF CallOK
<1>3. SlotOK(q, n, walks[r], flight[r], Events(r), {}) /\ q \in Reqs /\ q # Gone
  BY <1>1, <1>2, SlotOf, NotGone
<1>4. req' = [req EXCEPT ![r] = WritebackDone(q)] /\ panic' = panic
  BY <1>3 DEF WritebackEvent, Live
<1>5. /\ flight[r] \in SUBSET {1, 2} /\ Counted(q, walks[r], flight[r], Events(r))
      /\ InTranslation(q, walks[r], {}) /\ OneUser(q, n) /\ SentInOrder(q, flight[r])
      /\ Owned(q, n, walks[r]) /\ n \in InstRecs
  BY <1>3 DEF SlotOK
<1>6. "WritebackScheduled" \in q.flags /\ "WritebackDone" \notin q.flags
  BY <1>1, <1>5 DEF Events, Counted, Pending
<1>7. /\ q.numOutstanding = 0 /\ n.at \in {"memory", "done", "none"}
      /\ q.state # "Translation" /\ walks[r] = {}
  BY <1>5, <1>6 DEF OneUser, InTranslation
<1>8. flight[r] = {}
  BY <1>5, <1>7, TwoFragments DEF Counted
<1>9. /\ p \in Reqs /\ p.flags = q.flags \cup {"WritebackDone"}
      /\ p.kind = q.kind /\ p.state = q.state
      /\ p.numTranslated = q.numTranslated /\ p.numInTranslation = q.numInTranslation
      /\ p.packets = q.packets /\ p.numOutstanding = q.numOutstanding
      /\ p.numReceived = q.numReceived
  BY <1>3, SetFields DEF Flags
<1>10. /\ inst'[r] \in InstRecs /\ inst'[r].squashed = n.squashed /\ DOMAIN inst' = Slots
       /\ inst'[r].at = IF n.at = "memory" /\ ~n.squashed THEN "done" ELSE n.at
       /\ \A t \in Slots \ {r} : inst'[t] = inst[t]
  <2>1. CASE n.at = "memory" /\ ~n.squashed
    BY <2>1, AtStep DEF WritebackEvent, Places
  <2>2. CASE ~(n.at = "memory" /\ ~n.squashed)
    BY <1>5, <2>2 DEF WritebackEvent, IInv
  <2> QED
    BY <2>1, <2>2
<1>11. Released(p) <=> Released(q)
  BY <1>9 DEF Released
<1>12. WritebackDone(q) = IF Released(q) THEN Gone ELSE p
  BY <1>7, <1>9, <1>11 DEF WritebackDone
<1> HIDE DEF p
<1>13. SlotOK(WritebackDone(q), inst'[r], {}, {}, 0, {})
  <2>1. CASE Released(q)
    <3>1. inst'[r].at = "none"
      BY <1>5, <1>10, <2>1 DEF Owned
    <3> QED
      BY <1>10, <1>12, <2>1, <3>1, Vacated
  <2>2. CASE ~Released(q)
    <3>1. Counted(p, {}, {}, 0)
      BY <1>5, <1>7, <1>8, <1>9, FS_EmptySet DEF Counted, Pending
    <3>2. InTranslation(p, {}, {})
      BY <1>7, <1>9 DEF InTranslation
    <3>3. inst'[r].at \in {"memory", "done"}
      BY <1>5, <1>7, <1>10, <2>2 DEF Owned
    <3>4. OneUser(p, inst'[r])
      BY <1>6, <1>7, <1>9, <3>3 DEF OneUser
    <3>5. SentInOrder(p, {})
      BY <1>5, <1>9 DEF SentInOrder, Size
    <3>6. Owned(p, inst'[r], {})
      BY <1>7, <1>9, <1>11, <2>2, <3>3 DEF Owned
    <3>7. p # Gone
      BY <1>9, NotGone
    <3> QED
      BY <1>9, <1>10, <1>12, <2>2, <3>1, <3>2, <3>4, <3>5, <3>6, <3>7 DEF SlotOK
  <2> QED
    BY <2>1, <2>2
<1>14. /\ req'[r] = WritebackDone(q) /\ DOMAIN req' = Slots
       /\ \A t \in Slots \ {r} : req'[t] = req[t]
  BY <1>4 DEF IInv
<1>15. Events(r)' = 0 /\ walks'[r] = {} /\ flight'[r] = {} /\ Called(call', r) = {}
  BY <1>1, <1>2, <1>7, <1>8 DEF Events
<1>16. Framed(r)
  BY <1>1, <1>2, <1>4, <1>10, <1>14 DEF Framed, IInv
<1> QED
  BY <1>13, <1>14, <1>15, <1>16, Frame

-----------------------------------------------------------------------------
(* The steps that concern all slots *)

\* The stale mark of a request is nobody's business here.
LEMMA MarkedSlot ==
  ASSUME NEW q \in Reqs, NEW n, NEW w, NEW f, NEW e, NEW c, SlotOK(q, n, w, f, e, c),
         NEW p \in Reqs, p.kind = q.kind, p.state = q.state, p.flags = q.flags,
         p.numTranslated = q.numTranslated, p.numInTranslation = q.numInTranslation,
         p.packets = q.packets, p.numOutstanding = q.numOutstanding,
         p.numReceived = q.numReceived
  PROVE  SlotOK(p, n, w, f, e, c)
<1>1. p # Gone /\ q # Gone
  BY NotGone
<1>2. /\ Counted(q, w, f, e) /\ InTranslation(q, w, c) /\ OneUser(q, n)
      /\ SentInOrder(q, f) /\ Owned(q, n, w)
  BY <1>1 DEF SlotOK
<1>3. Size(p) = Size(q) /\ (Released(p) <=> Released(q)) /\ Issued(p, c) = Issued(q, c)
  BY DEF Size, Released, Issued
<1>4. Counted(p, w, f, e)
  BY <1>2 DEF Counted, Pending
<1>5. InTranslation(p, w, c)
  BY <1>2, <1>3 DEF InTranslation
<1>6. OneUser(p, n)
  BY <1>2 DEF OneUser
<1>7. SentInOrder(p, f)
  BY <1>2, <1>3 DEF SentInOrder
<1>8. Owned(p, n, w)
  BY <1>2, <1>3 DEF Owned, Outstanding
<1> QED
  BY <1>1, <1>3, <1>4, <1>5, <1>6, <1>7, <1>8 DEF SlotOK

\* Marking a request changes nothing else of it.
LEMMA MarkFields ==
  ASSUME NEW q \in Reqs
  PROVE  LET p == MarkAsStaleTranslation(q)
         IN /\ p \in Reqs /\ p.kind = q.kind /\ p.state = q.state /\ p.flags = q.flags
            /\ p.numTranslated = q.numTranslated /\ p.numInTranslation = q.numInTranslation
            /\ p.packets = q.packets /\ p.numOutstanding = q.numOutstanding
            /\ p.numReceived = q.numReceived
<1> DEFINE b == q.kind # "direct" /\ (q.stale \/ ( /\ q.flags \cap {"Complete", "Discarded"} = {}
                                                    /\ "TranslationStarted" \in q.flags ))
           s == IF b THEN TRUE ELSE FALSE
<1>1. q.stale \in BOOLEAN /\ b \in BOOLEAN
  BY DEF Reqs
<1>2. MarkAsStaleTranslation(q) = [q EXCEPT !.stale = b]
  BY DEF MarkAsStaleTranslation
<1>3. b = s
  BY <1>1
<1>4. MarkAsStaleTranslation(q) = [q EXCEPT !.stale = s]
  BY <1>2, <1>3
<1>5. s \in BOOLEAN
  OBVIOUS
<1> HIDE DEF b, s
<1> QED
  BY <1>4, <1>5 DEF Reqs

\* When only requests and instructions change, every slot is looked at.
LEMMA AllSlots ==
  ASSUME IInv, DOMAIN req' = Slots, DOMAIN inst' = Slots, UNCHANGED <<envVars, call, panic>>,
         \A t \in Slots :
           SlotOK(req'[t], inst'[t], walks[t], flight[t], Events(t), Called(call, t))
  PROVE  IInv'
<1>1. /\ walks' = walks /\ flight' = flight /\ forwards' = forwards /\ call' = call
      /\ panic' = panic
  BY DEF envVars
<1>2. \A t : Events(t)' = Events(t)
  BY <1>1 DEF Events
<1>3. \A t \in Slots :
        SlotOK(req'[t], inst'[t], walks'[t], flight'[t], Events(t)', Called(call', t))
  BY <1>1, <1>2
<1> QED
  BY <1>1, <1>3 DEF IInv, CallOK

\* A TLBI sync marks requests.
LEMMA SnoopKeeps == ASSUME IInv, RecvTimingSnoopReq PROVE IInv'
<1>1. /\ req' = [t \in Slots |-> IF InQueue(t) THEN MarkAsStaleTranslation(req[t]) ELSE req[t]]
      /\ inst' = inst /\ UNCHANGED <<envVars, call, panic>>
  BY DEF RecvTimingSnoopReq
<1>2. ASSUME NEW t \in Slots
      PROVE  SlotOK(req'[t], inst'[t], walks[t], flight[t], Events(t), Called(call, t))
  <2>1. /\ SlotOK(req[t], inst[t], walks[t], flight[t], Events(t), Called(call, t))
        /\ inst[t].at # "none" => req[t] \in Reqs
    BY SlotOf
  <2>2. inst'[t] = inst[t]
    BY <1>1
  <2>3. CASE InQueue(t)
    <3>1. req[t] \in Reqs
      BY <2>1, <2>3 DEF InQueue
    <3>2. SlotOK(MarkAsStaleTranslation(req[t]), inst[t], walks[t], flight[t], Events(t),
                 Called(call, t))
      BY <2>1, <3>1, MarkFields, MarkedSlot
    <3>3. req'[t] = MarkAsStaleTranslation(req[t])
      BY <1>1, <2>3
    <3> QED
      BY <2>2, <3>2, <3>3
  <2>4. CASE ~InQueue(t)
    <3>1. req'[t] = req[t]
      BY <1>1, <2>4
    <3> QED
      BY <2>1, <2>2, <3>1
  <2> QED
    BY <2>3, <2>4
<1>3. DOMAIN req' = Slots /\ DOMAIN inst' = Slots
  BY <1>1 DEF IInv
<1> QED
  BY <1>1, <1>2, <1>3, AllSlots

\* Blocked loads are executed again.
LEMMA Unblocks ==
  ASSUME IInv, CacheUnblocked, req' = req, UNCHANGED <<envVars, call, panic>>, call = {}
  PROVE  IInv'
<1>1. inst' = [t \in Slots |-> IF inst[t].at = "blocked" THEN [inst[t] EXCEPT !.at = "replay"]
                                                         ELSE inst[t]]
  BY DEF CacheUnblocked
<1>2. ASSUME NEW t \in Slots
      PROVE  SlotOK(req'[t], inst'[t], walks[t], flight[t], Events(t), Called(call, t))
  <2>1. /\ SlotOK(req[t], inst[t], walks[t], flight[t], Events(t), Called(call, t))
        /\ inst[t] \in InstRecs /\ (inst[t].at # "none" => req[t] \in Reqs)
    BY SlotOf
  <2>2. Called(call, t) = {}
    BY CalledNone
  <2>3. CASE inst[t].at = "blocked"
    <3> DEFINE m == [inst[t] EXCEPT !.at = "replay"]
    <3>1. m \in InstRecs /\ m.at = "replay" /\ m.squashed = inst[t].squashed
      BY <2>1, AtFields DEF Places
    <3>2. inst'[t] = m
      BY <1>1, <2>3
    <3> HIDE DEF m
    <3>3. req[t] \in Reqs /\ OneUser(req[t], inst[t]) /\ Owned(req[t], inst[t], walks[t])
      BY <2>1, <2>3, NotGone DEF SlotOK
    <3>4. "WritebackScheduled" \notin req[t].flags /\ req[t].state # "Translation"
      BY <2>3, <3>3 DEF OneUser, Owned
    <3>5. SlotOK(req[t], m, walks[t], flight[t], Events(t), {})
      BY <2>1, <2>2, <2>3, <3>1, <3>3, <3>4, MoveSlot
    <3> QED
      BY <2>2, <3>2, <3>5
  <2>4. CASE inst[t].at # "blocked"
    <3>1. inst'[t] = inst[t]
      BY <1>1, <2>4
    <3> QED
      BY <2>1, <3>1
  <2> QED
    BY <2>3, <2>4
<1>3. DOMAIN req' = Slots /\ DOMAIN inst' = Slots
  BY <1>1 DEF IInv
<1> QED
  BY <1>2, <1>3, AllSlots

\* The cache asks for a retry.
LEMMA RetryKeeps == ASSUME IInv, RecvReqRetry PROVE IInv'
  BY Unblocks DEF RecvReqRetry, Idle

\* A new cycle frees the ports.
LEMMA TickKeeps == ASSUME IInv, Tick PROVE IInv'
<1>1. req' = req /\ UNCHANGED <<envVars, call, panic>> /\ call = {}
  BY DEF Tick, Idle
<1>2. CASE CacheUnblocked
  BY <1>1, <1>2, Unblocks
<1>3. CASE UNCHANGED inst
  <2>1. DOMAIN req' = Slots /\ DOMAIN inst' = Slots
    BY <1>1, <1>3 DEF IInv
  <2>2. \A t \in Slots :
          SlotOK(req'[t], inst'[t], walks[t], flight[t], Events(t), Called(call, t))
    BY <1>1, <1>3 DEF IInv
  <2> QED
    BY <1>1, <2>1, <2>2, AllSlots
<1> QED
  BY <1>2, <1>3 DEF Tick

-----------------------------------------------------------------------------
(* The invariant *)

\* At the beginning all slots are empty.
LEMMA InitHolds == Init => IInv
<1> SUFFICES ASSUME Init PROVE IInv
  OBVIOUS
<1>1. ASSUME NEW t \in Slots
      PROVE  SlotOK(req[t], inst[t], walks[t], flight[t], Events(t), Called(call, t))
  <2>1. /\ req[t] = Gone /\ inst[t] = NoInst /\ walks[t] = {} /\ flight[t] = {}
        /\ Events(t) = 0
    BY DEF Init, Events
  <2>2. Called(call, t) = {}
    BY CalledNone DEF Init
  <2>3. NoInst \in InstRecs /\ NoInst.at = "none"
    BY DEF NoInst, InstRecs, Places
  <2> QED
    BY <2>1, <2>2, <2>3, Vacated
<1> QED
  BY <1>1 DEF IInv, Init, CallOK

\* Every step keeps the invariant.
LEMMA StepHolds == IInv /\ [Next]_vars => IInv'
<1> SUFFICES ASSUME IInv, [Next]_vars PROVE IInv'
  OBVIOUS
<1>1. ASSUME NEW r \in Slots,
             \/ \E kind \in Kinds, load \in BOOLEAN : PushRequest(r, kind, load)
             \/ PushStep(r) \/ PushAgain(r)
             \/ \E i \in {1, 2} : FinishWalk(r, i) \/ RecvTimingResp(r, i)
             \/ WritebackEvent(r)
             \/ CommitStore(r) \/ WritebackStores(r) \/ FreeLSQEntry(r)
             \/ SetSquashed(r) \/ Squash(r)
      PROVE  IInv'
  <2>1. CASE \E kind \in Kinds, load \in BOOLEAN : PushRequest(r, kind, load)
    BY <2>1, PushRequestKeeps
  <2>2. CASE PushStep(r)
    BY <2>2, SendFragmentKeeps, ReadFromCacheKeeps, ReadForwardedKeeps, ReadPartlyKeeps,
       WriteKeeps, NoAccessKeeps, DeferKeeps DEF PushStep
  <2>3. CASE PushAgain(r)
    BY <2>3, PushAgainKeeps
  <2>4. CASE \E i \in {1, 2} : FinishWalk(r, i) \/ RecvTimingResp(r, i)
    BY <2>4, FinishWalkKeeps, RecvTimingRespKeeps
  <2>5. CASE WritebackEvent(r)
    BY <2>5, WritebackEventKeeps
  <2>6. CASE \/ CommitStore(r) \/ WritebackStores(r) \/ FreeLSQEntry(r)
             \/ SetSquashed(r) \/ Squash(r)
    BY <2>6, CommitStoreKeeps, WritebackStoresKeeps, FreeLSQEntryKeeps, SetSquashedKeeps,
       SquashKeeps
  <2> QED
    BY <1>1, <2>1, <2>2, <2>3, <2>4, <2>5, <2>6
<1>2. CASE RecvTimingSnoopReq \/ RecvReqRetry \/ Tick
  BY <1>2, SnoopKeeps, RetryKeeps, TickKeeps
<1>3. CASE UNCHANGED vars
  <2>1. req' = req /\ inst' = inst /\ UNCHANGED <<envVars, call, panic>>
    BY <1>3 DEF vars
  <2>2. /\ DOMAIN req' = Slots /\ DOMAIN inst' = Slots
        /\ \A t \in Slots :
             SlotOK(req'[t], inst'[t], walks[t], flight[t], Events(t), Called(call, t))
    BY <2>1 DEF IInv
  <2> QED
    BY <2>1, <2>2, AllSlots
<1> QED
  BY <1>1, <1>2, <1>3 DEF Next

\* Who holds a request, and how often, is what its counters say.
THEOREM OwnershipHolds == Spec => []IInv
  BY InitHolds, StepHolds, PTL DEF Spec

\* Nobody comes back to a request that is deleted: the TLB, the cache and the
\* writeback event find it whatever squashes, faults and retries came before.
THEOREM NeverFreedTooEarly == Spec => []NoUseAfterFree
<1>1. IInv => NoUseAfterFree
  BY DEF IInv, NoUseAfterFree
<1> QED
  BY <1>1, OwnershipHolds, PTL

\* The counters that decide when a request may go agree with what is under way.
THEOREM CountersAgree == Spec => []CountersExact
<1>1. ASSUME IInv PROVE CountersExact
  <2> SUFFICES ASSUME NEW r \in Slots
               PROVE  IF Live(req[r])
                        THEN /\ req[r].numInTranslation = Cardinality(walks[r])
                             /\ req[r].numOutstanding = Cardinality(flight[r])
                             /\ r \in forwards <=> /\ "WritebackScheduled" \in req[r].flags
                                                   /\ "WritebackDone" \notin req[r].flags
                        ELSE walks[r] = {} /\ flight[r] = {} /\ r \notin forwards
                               /\ inst[r].at = "none"
    BY DEF CountersExact
  <2>1. SlotOK(req[r], inst[r], walks[r], flight[r], Events(r), Called(call, r))
    BY <1>1 DEF IInv
  <2>2. CASE Live(req[r])
    <3>1. Counted(req[r], walks[r], flight[r], Events(r))
      BY <2>1, <2>2 DEF SlotOK, Live
    <3>2. r \in forwards <=> Pending(req[r])
      BY <3>1 DEF Counted, Events
    <3> QED
      BY <2>2, <3>1, <3>2 DEF Counted, Pending
  <2>3. CASE ~Live(req[r])
    <3>1. Empty(inst[r], walks[r], flight[r], Events(r), Called(call, r))
      BY <2>1, <2>3 DEF SlotOK, Live
    <3> QED
      BY <2>3, <3>1 DEF Empty, Events
  <2> QED
    BY <2>2, <2>3
<1> QED
  BY <1>1, OwnershipHolds, PTL

\* An orphan is in use and marked: it neither leaks nor looks owned.
THEOREM NoOrphanForgotten == Spec => []OrphansInUse
<1>1. ASSUME IInv, NEW r \in Slots, Live(req[r]), inst[r].at = "none"
      PROVE  Outstanding(req[r]) /\ Released(req[r])
  <2>1. SlotOK(req[r], inst[r], walks[r], flight[r], Events(r), Called(call, r))
    BY <1>1 DEF IInv
  <2> QED
    BY <1>1, <2>1 DEF SlotOK, Live, Owned
<1>2. IInv => OrphansInUse
  BY <1>1 DEF OrphansInUse
<1> QED
  BY <1>2, OwnershipHolds, PTL

\* However often the cache refuses an access, no fragment is sent twice.
THEOREM SentOnce == Spec => []FragmentsSentOnce
<1>1. ASSUME IInv, NEW r \in Slots, Live(req[r])
      PROVE  req[r].numReceived + req[r].numOutstanding <= req[r].packets
  <2>1. SlotOK(req[r], inst[r], walks[r], flight[r], Events(r), Called(call, r))
    BY <1>1 DEF IInv
  <2> QED
    BY <1>1, <2>1 DEF SlotOK, Live, SentInOrder
<1>2. IInv => FragmentsSentOnce
  BY <1>1 DEF FragmentsSentOnce
<1> QED
  BY <1>2, OwnershipHolds, PTL

-----------------------------------------------------------------------------
(* Requests live as the comment of LSQRequest says *)

\* What a step may make of a request q and its instruction n.
Moves(q, n, p, m) ==
  \/ q = Gone /\ p # Gone /\ m.at # "none" /\ LifeInQueue(p) # "dropped"
  \/ /\ q # Gone /\ p # Gone /\ n.at # "none" /\ m.at # "none"
     /\ LifeInQueue(p) = LifeInQueue(q) \/ LifeInQueue(q) = "translation"
  \/ /\ q # Gone /\ n.at # "none" /\ m.at = "none"
     /\ IF p = Gone THEN LifeInQueue(q) # "translation"
        ELSE p.state = q.state /\ LifeInQueue(q) # "dropped"
  \/ q # Gone /\ n.at = "none" /\ m.at = "none" /\ (p # Gone => p.state = q.state)

\* An orphan waits for the TLB exactly while it is translated.
LEMMA OrphanState ==
  ASSUME NEW q, NEW n, NEW w, NEW f, NEW e, NEW c, SlotOK(q, n, w, f, e, c),
         q # Gone, n.at = "none"
  PROVE  q.numInTranslation > 0 <=> q.state = "Translation"
<1>0. c = {}
  BY DEF SlotOK
<1>1. /\ q \in Reqs /\ w \in SUBSET {1, 2} /\ Counted(q, w, f, e) /\ InTranslation(q, w, {})
      /\ Size(q) \in 0 .. 2
  BY <1>0, FragsSize DEF SlotOK
<1>2. CASE q.state = "Translation"
  <2>1. Outstanding(q) /\ q.numOutstanding = 0 /\ "WritebackScheduled" \notin q.flags
    BY <1>1, <1>2 DEF SlotOK, Owned, InTranslation
  <2> QED
    BY <1>1, <1>2, <2>1 DEF Outstanding, Reqs
<1>3. CASE q.state # "Translation"
  BY <1>1, <1>3, TwoFragments DEF InTranslation, Counted
<1> QED
  BY <1>2, <1>3

\* The state of one request, in the words of the specification.
LifeOf(q, n) ==
  IF q = Gone THEN "free" ELSE IF n.at # "none" THEN LifeInQueue(q) ELSE LifeOfOrphan(q)

\* Every such move is one of the specification, or none.
LEMMA MoveOfLife ==
  ASSUME NEW q, NEW n, NEW p, NEW m, Moves(q, n, p, m),
         q # Gone /\ n.at = "none" => (q.numInTranslation > 0 <=> q.state = "Translation"),
         p # Gone /\ m.at = "none" => (p.numInTranslation > 0 <=> p.state = "Translation")
  PROVE  LET from == LifeOf(q, n)
             to   == LifeOf(p, m)
         IN \/ from = to
            \/ from = "free" /\ to = "translation"
            \/ from = "free" /\ to = "sending"
            \/ from = "translation" /\ to \in {"sending", "dropped"}
            \/ from \in {"sending", "dropped"} /\ to = "free"
            \/ from = "translation" /\ to = "selfTranslation"
            \/ from = "sending" /\ to = "selfResponse"
            \/ from \in {"selfTranslation", "selfResponse"} /\ to = "free"
<1>1. CASE q = Gone /\ p # Gone /\ m.at # "none" /\ LifeInQueue(p) # "dropped"
  <2>1. LifeOf(q, n) = "free"
    BY <1>1 DEF LifeOf
  <2>2. LifeOf(p, m) \in {"translation", "sending"}
    BY <1>1 DEF LifeOf, LifeInQueue
  <2> QED
    BY <2>1, <2>2
<1>2. CASE /\ q # Gone /\ p # Gone /\ n.at # "none" /\ m.at # "none"
           /\ LifeInQueue(p) = LifeInQueue(q) \/ LifeInQueue(q) = "translation"
  BY <1>2 DEF LifeOf, LifeInQueue
<1>3. CASE /\ q # Gone /\ n.at # "none" /\ m.at = "none"
           /\ IF p = Gone THEN LifeInQueue(q) # "translation"
              ELSE p.state = q.state /\ LifeInQueue(q) # "dropped"
  BY <1>3 DEF LifeOf, LifeInQueue, LifeOfOrphan
<1>4. CASE q # Gone /\ n.at = "none" /\ m.at = "none" /\ (p # Gone => p.state = q.state)
  BY <1>4 DEF LifeOf, LifeOfOrphan
<1> QED
  BY <1>1, <1>2, <1>3, <1>4 DEF Moves

\* One slot moves, the others do not.
LEMMA OneMoves ==
  ASSUME IInv, IInv', NEW r \in Slots, Moves(req[r], inst[r], req'[r], inst'[r]),
         \A t \in Slots \ {r} : req'[t] = req[t] /\ inst'[t] = inst[t]
  PROVE  [Lifetime!Next]_(Lifetime!vars)
<1>1. /\ SlotOK(req[r], inst[r], walks[r], flight[r], Events(r), Called(call, r))
      /\ SlotOK(req'[r], inst'[r], walks'[r], flight'[r], Events(r)', Called(call', r))
  BY DEF IInv
<1>2. /\ req[r] # Gone /\ inst[r].at = "none"
           => (req[r].numInTranslation > 0 <=> req[r].state = "Translation")
      /\ req'[r] # Gone /\ inst'[r].at = "none"
           => (req'[r].numInTranslation > 0 <=> req'[r].state = "Translation")
  BY <1>1, OrphanState
<1>3. Life(r) = LifeOf(req[r], inst[r]) /\ Life(r)' = LifeOf(req'[r], inst'[r])
  BY DEF Life, LifeOf, Live
<1>4. \/ Life(r)' = Life(r)
      \/ Life(r) = "free" /\ Life(r)' = "translation"
      \/ Life(r) = "free" /\ Life(r)' = "sending"
      \/ Life(r) = "translation" /\ Life(r)' \in {"sending", "dropped"}
      \/ Life(r) \in {"sending", "dropped"} /\ Life(r)' = "free"
      \/ Life(r) = "translation" /\ Life(r)' = "selfTranslation"
      \/ Life(r) = "sending" /\ Life(r)' = "selfResponse"
      \/ Life(r) \in {"selfTranslation", "selfResponse"} /\ Life(r)' = "free"
  BY <1>2, <1>3, MoveOfLife
<1>5. \A t \in Slots \ {r} : Life(t)' = Life(t)
  BY DEF Life
<1> DEFINE life == [t \in Slots |-> Life(t)]
<1>6. life' = [life EXCEPT ![r] = Life(r)'] /\ life[r] = Life(r)
  BY <1>5
<1>7. CASE Life(r)' = Life(r)
  <2>1. life' = life
    BY <1>5, <1>7
  <2> QED
    BY <2>1 DEF Lifetime!vars
<1>8. CASE \/ Life(r) = "free" /\ Life(r)' = "translation"
           \/ Life(r) = "free" /\ Life(r)' = "sending"
           \/ Life(r) = "translation" /\ Life(r)' \in {"sending", "dropped"}
           \/ Life(r) \in {"sending", "dropped"} /\ Life(r)' = "free"
           \/ Life(r) = "translation" /\ Life(r)' = "selfTranslation"
           \/ Life(r) = "sending" /\ Life(r)' = "selfResponse"
           \/ Life(r) \in {"selfTranslation", "selfResponse"} /\ Life(r)' = "free"
  <2>1. \/ Lifetime!Create(r) \/ Lifetime!CreateDone(r) \/ Lifetime!Translated(r)
        \/ Lifetime!Dropped(r) \/ Lifetime!Free(r) \/ Lifetime!SquashedInTranslation(r)
        \/ Lifetime!SquashedInFlight(r) \/ Lifetime!SelfDestruct(r)
    BY <1>6, <1>8 DEF Lifetime!Create, Lifetime!CreateDone, Lifetime!Translated,
       Lifetime!Dropped, Lifetime!Free, Lifetime!SquashedInTranslation, Lifetime!SquashedInFlight,
       Lifetime!SelfDestruct, Lifetime!Becomes, Lifetime!Orphan
  <2> QED
    BY <2>1 DEF Lifetime!Next
<1> QED
  BY <1>4, <1>7, <1>8

\* No slot moves.
LEMMA NoneMoves ==
  ASSUME \A t \in Slots : /\ (req'[t] = Gone <=> req[t] = Gone)
                          /\ (inst'[t].at = "none" <=> inst[t].at = "none")
                          /\ LifeInQueue(req'[t]) = LifeInQueue(req[t])
                          /\ req'[t].numInTranslation = req[t].numInTranslation
  PROVE  [Lifetime!Next]_(Lifetime!vars)
<1>1. \A t \in Slots : Life(t)' = Life(t)
  BY DEF Life, LifeOfOrphan, Live
<1> DEFINE life == [t \in Slots |-> Life(t)]
<1>2. life' = life
  BY <1>1
<1> QED
  BY <1>2 DEF Lifetime!vars

\* What the lemmas below show of a step.
LifeStep == [Lifetime!Next]_(Lifetime!vars)

\* An instruction with an entry has its request.
LEMMA HasRequest ==
  ASSUME IInv, NEW r \in Slots
  PROVE  inst[r].at # "none" => req[r] # Gone
<1>1. SlotOK(req[r], inst[r], walks[r], flight[r], Events(r), Called(call, r))
  BY DEF IInv
<1> QED
  BY <1>1 DEF SlotOK, Empty

\* The same after a step.
LEMMA HasRequestNext ==
  ASSUME IInv', NEW r \in Slots
  PROVE  inst'[r].at # "none" => req'[r] # Gone
<1>1. SlotOK(req'[r], inst'[r], walks'[r], flight'[r], Events(r)', Called(call', r))
  BY DEF IInv
<1> QED
  BY <1>1 DEF SlotOK, Empty

\* The entry keeps its request, which may be translated now.
LEMMA Stays ==
  ASSUME IInv, IInv', NEW r \in Slots, inst[r].at # "none", inst'[r].at # "none",
         LifeInQueue(req'[r]) = LifeInQueue(req[r]) \/ LifeInQueue(req[r]) = "translation",
         \A t \in Slots \ {r} : req'[t] = req[t] /\ inst'[t] = inst[t]
  PROVE  LifeStep
<1>1. req[r] # Gone /\ req'[r] # Gone
  BY HasRequest, HasRequestNext
<1>2. Moves(req[r], inst[r], req'[r], inst'[r])
  BY <1>1 DEF Moves
<1> QED
  BY <1>2, OneMoves DEF LifeStep

\* The entry gives its request up, which is in use if it is being translated.
LEMMA Leaves ==
  ASSUME IInv, IInv', NEW r \in Slots, NEW reason \in {"LSQEntryFreed", "Discarded"},
         req' = [req EXCEPT ![r] = Release(@, reason)],
         inst[r].at # "none", inst'[r].at = "none",
         req[r].state # "Translation" \/ Called(call, r) = {},
         \A t \in Slots \ {r} : inst'[t] = inst[t]
  PROVE  LifeStep
<1> DEFINE q == req[r]
<1>1. /\ SlotOK(q, inst[r], walks[r], flight[r], Events(r), Called(call, r))
      /\ q \in Reqs /\ q # Gone
  BY SlotOf, NotGone
<1>2. /\ req'[r] = Release(q, reason)
      /\ \A t \in Slots \ {r} : req'[t] = req[t]
  BY DEF IInv
<1>3. CASE q.state = "Translation"
  <2>1. InTranslation(q, walks[r], {})
    BY <1>1, <1>3 DEF SlotOK
  <2>2. Size(q) \in 0 .. 2 /\ q.numTranslated \in Nat /\ q.numInTranslation \in Nat
    BY <1>1, FragsSize DEF Reqs
  <2>3. ASSUME "TranslationSquashed" \notin q.flags
        PROVE  Moves(q, inst[r], req'[r], inst'[r])
    <3>1. q.numInTranslation > 0
      BY <1>3, <2>1, <2>2, <2>3 DEF InTranslation, Issued
    <3>2. req'[r] = Set(q, reason)
      BY <1>2, <3>1 DEF Release, Outstanding
    <3>3. req'[r] # Gone /\ req'[r].state = q.state
      BY <1>1, <3>2, SetFields, NotGone DEF Flags
    <3>4. LifeInQueue(q) = "translation"
      BY <1>3, <2>3 DEF LifeInQueue
    <3> QED
      BY <1>1, <3>3, <3>4 DEF Moves
  <2>4. ASSUME "TranslationSquashed" \in q.flags
        PROVE  Moves(q, inst[r], req'[r], inst'[r])
    <3>1. q.numInTranslation = 0 /\ q.numOutstanding = 0 /\ "WritebackScheduled" \notin q.flags
      BY <1>3, <2>1, <2>2, <2>4 DEF InTranslation, Issued
    <3>2. req'[r] = Gone
      BY <1>2, <3>1 DEF Release, Outstanding
    <3>3. LifeInQueue(q) = "dropped"
      BY <1>3, <2>4 DEF LifeInQueue
    <3> QED
      BY <1>1, <3>2, <3>3 DEF Moves
  <2> QED
    BY <1>2, <2>3, <2>4, OneMoves DEF LifeStep
<1>4. CASE q.state # "Translation"
  <2>1. req'[r] = Gone \/ req'[r] = Set(q, reason)
    BY <1>2 DEF Release
  <2>2. req'[r] # Gone => req'[r].state = q.state
    BY <1>1, <2>1, SetFields DEF Flags
  <2>3. LifeInQueue(q) = "sending"
    BY <1>4 DEF LifeInQueue
  <2>4. Moves(req[r], inst[r], req'[r], inst'[r])
    BY <1>1, <2>2, <2>3 DEF Moves
  <2> QED
    BY <1>2, <2>4, OneMoves DEF LifeStep
<1> QED
  BY <1>3, <1>4

\* A new request begins its life.
LEMMA PushRequestLives ==
  ASSUME IInv, IInv', NEW r \in Slots, NEW kind \in Kinds, NEW load \in BOOLEAN,
         PushRequest(r, kind, load)
  PROVE  LifeStep
<1>1. /\ req[r] = Gone /\ inst' = [inst EXCEPT ![r] =
                             [at |-> "execute", load |-> load, squashed |-> FALSE]]
      /\ \A t \in Slots \ {r} : req'[t] = req[t]
  BY DEF PushRequest, Live, IInv
<1>2. inst'[r].at = "execute" /\ \A t \in Slots \ {r} : inst'[t] = inst[t]
  BY <1>1 DEF IInv
<1>3. req'[r] # Gone
  BY <1>2, HasRequestNext
<1>4. "TranslationSquashed" \notin req'[r].flags
  BY DEF PushRequest, IInv, NewRequest
<1>5. LifeInQueue(req'[r]) # "dropped"
  BY <1>4 DEF LifeInQueue
<1>6. Moves(req[r], inst[r], req'[r], inst'[r])
  BY <1>1, <1>2, <1>3, <1>5 DEF Moves
<1> QED
  BY <1>1, <1>2, <1>6, OneMoves DEF LifeStep

\* A fragment is translated or given to the TLB.
LEMMA SendFragmentLives ==
  ASSUME IInv, IInv', NEW r \in Slots, NEW i \in {1, 2}, SendFragmentToTranslation(r, i)
  PROVE  LifeStep
<1>1. call = {[slot |-> r, frag |-> i]} /\ inst' = inst
  BY DEF SendFragmentToTranslation
<1>2. i \in 0 .. 2 /\ ~({i} \subseteq {0})
  OBVIOUS
<1>3. Called(call, r) = {i}
  BY <1>1, <1>2, CalledOne
<1>4. /\ SlotOK(req[r], inst[r], walks[r], flight[r], Events(r), {i})
      /\ req[r] # Gone
  <2>1. Called(call, r) # {}
    BY <1>3
  <2> QED
    BY <1>3, <2>1, SlotOf, NotGone
<1>5. inst[r].at # "none"
  BY <1>4 DEF SlotOK
<1>6. LifeInQueue(req[r]) = "translation"
  <2>1. req[r].state = "Translation" /\ "TranslationSquashed" \notin req[r].flags
    <3>1. req[r] \in Reqs
      BY <1>4 DEF SlotOK
    <3> QED
      BY <1>2, <1>4, <3>1, Translating
  <2> QED
    BY <2>1 DEF LifeInQueue
<1>7. \A t \in Slots \ {r} : req'[t] = req[t] /\ inst'[t] = inst[t]
  BY DEF SendFragmentToTranslation, IInv
<1> QED
  BY <1>1, <1>5, <1>6, <1>7, Stays

\* The TLB answers: for a squashed request this may be the end.
LEMMA FinishWalkLives ==
  ASSUME IInv, IInv', NEW r \in Slots, NEW i \in {1, 2}, FinishWalk(r, i)
  PROVE  LifeStep
<1> DEFINE q == req[r]
<1>1. call = {} /\ i \in walks[r] /\ inst' = inst
  BY DEF FinishWalk, Idle
<1>2. Called(call, r) = {} /\ q \in Reqs /\ q # Gone
  BY <1>1, CalledNone, SlotOf, NotGone
<1>3. SlotOK(q, inst[r], walks[r], flight[r], Events(r), {})
  BY <1>2, SlotOf
<1>4. /\ q.state = "Translation" /\ q.numInTranslation = Cardinality(walks[r])
      /\ walks[r] \in SUBSET {1, 2} /\ (inst[r].at = "none" => inst[r].squashed)
      /\ "TranslationSquashed" \notin q.flags
  BY <1>1, <1>2, <1>3, Translating
<1>5. q.numInTranslation > 0
  BY <1>1, <1>4, TwoFragments
<1>6. \A t \in Slots \ {r} : req'[t] = req[t] /\ inst'[t] = inst[t]
  BY <1>1 DEF FinishWalk, IInv
<1>7. CASE inst[r].at # "none"
  <2>1. LifeInQueue(q) = "translation"
    BY <1>4 DEF LifeInQueue
  <2> QED
    BY <1>1, <1>6, <1>7, <2>1, Stays
<1>8. CASE inst[r].at = "none"
  <2>1. PICK fault \in BOOLEAN : req' = [req EXCEPT ![r] = Finish(q, i, fault, inst[r].squashed)]
    BY <1>2 DEF FinishWalk, Live
  <2> DEFINE b == FinishFragment(q, i, fault)
  <2>2. b \in Reqs /\ b.state = q.state
    BY <1>2, <1>5, FinishFields
  <2>3. req'[r] = Finish(q, i, fault, inst[r].squashed)
    BY <2>1 DEF IInv
  <2>4. req'[r] \in {b, Gone, Set(b, "TranslationSquashed")}
    BY <1>4, <1>8, <2>3 DEF Finish, SquashTranslation
  <2> HIDE DEF b
  <2>5. Set(b, "TranslationSquashed").state = b.state
    BY <2>2, SetFields DEF Flags
  <2>6. req'[r] # Gone => req'[r].state = q.state
    BY <2>2, <2>4, <2>5
  <2>7. Moves(req[r], inst[r], req'[r], inst'[r])
    BY <1>1, <1>2, <1>8, <2>6 DEF Moves
  <2> QED
    BY <1>6, <2>7, OneMoves DEF LifeStep
<1> QED
  BY <1>7, <1>8

\* Where an access stands in the queue is not part of its life.
LEMMA AccessLives ==
  ASSUME IInv, IInv', NEW r \in Slots,
         Write(r) \/ NoAccess(r) \/ DeferMemInst(r) \/ ReadForwarded(r)
  PROVE  LifeStep
<1>1. Access(r) /\ (At(r, "executed") \/ At(r, "done") \/ At(r, "deferred") \/ At(r, "memory"))
  BY DEF Write, NoAccess, DeferMemInst, ReadForwarded
<1>2. inst'[r].at # "none" /\ \A t \in Slots \ {r} : inst'[t] = inst[t]
  BY <1>1, AtStep DEF Places
<1>3. inst[r].at # "none" /\ req[r] \in Reqs
  BY <1>1, Accessing
<1>4. req' = req \/ req' = [req EXCEPT ![r] = Set(@, "WritebackScheduled")]
  BY DEF Write, NoAccess, DeferMemInst, ReadForwarded
<1>5. /\ req'[r].state = req[r].state
      /\ req'[r].flags \in {req[r].flags, req[r].flags \cup {"WritebackScheduled"}}
      /\ \A t \in Slots \ {r} : req'[t] = req[t]
  BY <1>3, <1>4 DEF IInv, Set, Reqs
<1>6. LifeInQueue(req'[r]) = LifeInQueue(req[r])
  BY <1>5 DEF LifeInQueue
<1> QED
  BY <1>2, <1>3, <1>5, <1>6, Stays

\* Nor is what was sent.
LEMMA SendLives ==
  ASSUME IInv, IInv', NEW r \in Slots, ReadFromCache(r) \/ WritebackStores(r)
  PROVE  LifeStep
<1>1. PICK n \in 0 .. 2 : SendPacketToCache(r, BuildPackets(req[r]), n)
  BY DEF ReadFromCache, WritebackStores
<1>2. /\ inst[r].at # "none" /\ inst'[r].at # "none"
      /\ \A t \in Slots \ {r} : inst'[t] = inst[t]
  <2>1. CASE ReadFromCache(r)
    <3>1. Access(r) /\ (At(r, "memory") \/ At(r, "blocked"))
      BY <2>1 DEF ReadFromCache
    <3> QED
      BY <3>1, Accessing, AtStep DEF Places
  <2>2. CASE WritebackStores(r)
    BY <2>2 DEF WritebackStores
  <2> QED
    BY <2>1, <2>2
<1>3. req[r] \in Reqs
  BY <1>2, SlotOf
<1>4. /\ BuildPackets(req[r]).state = req[r].state /\ BuildPackets(req[r]) \in Reqs
      /\ BuildPackets(req[r]).flags = req[r].flags
  <2>1. req[r].packets <= Size(req[r])
    BY <1>3, SlotOf, NotGone DEF SlotOK, SentInOrder
  <2> QED
    BY <1>3, <2>1, BuildFields
<1> DEFINE b == BuildPackets(req[r])
           k == SentSoFar(b)
           fl == IF k + n < b.packets THEN (b.flags \ {"Sent"}) \cup {"Retry"}
                 ELSE IF n > 0 THEN b.flags \cup {"Sent"} ELSE b.flags
<1>5. req' = [req EXCEPT ![r] = [b EXCEPT !.numOutstanding = @ + n, !.flags = fl]]
  BY <1>1 DEF SendPacketToCache
<1>6. "TranslationSquashed" \in fl <=> "TranslationSquashed" \in b.flags
  OBVIOUS
<1> HIDE DEF b, fl, k
<1>7. /\ req'[r].state = b.state /\ req'[r].flags = fl
      /\ \A t \in Slots \ {r} : req'[t] = req[t]
  BY <1>4, <1>5 DEF IInv, Reqs, b
<1>8. LifeInQueue(req'[r]) = LifeInQueue(req[r])
  BY <1>4, <1>6, <1>7 DEF LifeInQueue, b
<1> QED
  BY <1>2, <1>7, <1>8, Stays

\* An entry is freed, its load rescheduled or its instruction squashed.
LEMMA LeaveLives ==
  ASSUME IInv, IInv', NEW r \in Slots, ReadPartly(r) \/ FreeLSQEntry(r) \/ Squash(r)
  PROVE  LifeStep
<1>1. CASE ReadPartly(r)
  <2>1. Access(r) /\ At(r, "none") /\ req[r].state # "Translation"
    BY <1>1 DEF ReadPartly, TranslationComplete
  <2>2. /\ inst[r].at # "none" /\ inst'[r].at = "none"
        /\ \A t \in Slots \ {r} : inst'[t] = inst[t]
    BY <2>1, Accessing, AtStep DEF Places
  <2>3. req' = [req EXCEPT ![r] = Release(@, "Discarded")]
    BY <1>1 DEF ReadPartly
  <2> QED
    BY <2>1, <2>2, <2>3, Leaves
<1>2. CASE FreeLSQEntry(r) \/ Squash(r)
  <2>1. Called(call, r) = {} /\ inst[r].at # "none"
    BY <1>2, CalledNone DEF FreeLSQEntry, Squash, Squashable, Idle
  <2>2. inst'[r].at = "none" /\ \A t \in Slots \ {r} : inst'[t] = inst[t]
    <3>1. inst[r] \in InstRecs /\ DOMAIN inst = Slots
      BY SlotOf DEF IInv
    <3> QED
      BY <1>2, <3>1 DEF FreeLSQEntry, Squash, At, InstRecs
  <2>3. req' = [req EXCEPT ![r] = Release(@, "LSQEntryFreed")]
    BY <1>2 DEF FreeLSQEntry, Squash
  <2> QED
    BY <2>1, <2>2, <2>3, Leaves
<1> QED
  BY <1>1, <1>2

\* A response leaves the state of the request, if it leaves the request.
LEMMA RepliedState ==
  ASSUME NEW q \in Reqs
  PROVE  PacketReplied(q) # Gone => PacketReplied(q).state = q.state
  BY DEF PacketReplied, Reqs

\* The memory answers: for a squashed request this may be the end.
LEMMA RecvTimingRespLives ==
  ASSUME IInv, IInv', NEW r \in Slots, NEW i \in {1, 2}, RecvTimingResp(r, i)
  PROVE  LifeStep
<1> DEFINE q == req[r]
<1>1. call = {} /\ i \in flight[r]
  BY DEF RecvTimingResp, Idle
<1>2. Called(call, r) = {} /\ q \in Reqs /\ q # Gone
  BY <1>1, CalledNone, SlotOf, NotGone
<1>3. SlotOK(q, inst[r], walks[r], flight[r], Events(r), {})
  BY <1>2, SlotOf
<1>4. /\ flight[r] \in SUBSET {1, 2} /\ Counted(q, walks[r], flight[r], Events(r))
      /\ InTranslation(q, walks[r], {}) /\ Owned(q, inst[r], walks[r]) /\ inst[r] \in InstRecs
  BY <1>2, <1>3 DEF SlotOK
<1>5. q.numOutstanding > 0
  BY <1>1, <1>4, TwoFragments DEF Counted
<1>6. q.state # "Translation"
  BY <1>4, <1>5 DEF InTranslation
<1>7. DOMAIN req = Slots /\ DOMAIN inst = Slots
  BY DEF IInv
<1>8. CASE Released(q)
  <2>1. req' = [req EXCEPT ![r] = PacketReplied(q)] /\ inst' = inst
    BY <1>2, <1>8 DEF RecvTimingResp, Live
  <2>2. /\ req'[r] # Gone => req'[r].state = q.state
        /\ \A t \in Slots \ {r} : req'[t] = req[t] /\ inst'[t] = inst[t]
    BY <1>2, <1>7, <2>1, RepliedState
  <2>3. inst[r].at = "none"
    BY <1>4, <1>8 DEF Owned
  <2>4. Moves(req[r], inst[r], req'[r], inst'[r])
    BY <1>2, <2>1, <2>2, <2>3 DEF Moves
  <2> QED
    BY <2>2, <2>4, OneMoves DEF LifeStep
<1>9. CASE ~Released(q)
  <2> DEFINE v == Received(q)
             x == Release(v, "LSQEntryFreed")
  <2>1. /\ \A t \in Slots \ {r} : req'[t] = req[t] /\ inst'[t] = inst[t]
        /\ req'[r] = PacketReplied(v) \/ req'[r] = PacketReplied(x)
        /\ inst'[r].at = "none" \/ inst'[r].at = "done" \/ inst' = inst
    <3>1. req' = [req EXCEPT ![r] = PacketReplied(v)] \/ req' = [req EXCEPT ![r] = PacketReplied(x)]
      BY <1>2, <1>9 DEF RecvTimingResp, Live
    <3>2. At(r, "none") \/ At(r, "done") \/ inst' = inst
      BY <1>2, <1>9 DEF RecvTimingResp, Live
    <3>3. At(r, "none") \/ At(r, "done") => /\ inst'[r].at = "none" \/ inst'[r].at = "done"
                                            /\ \A t \in Slots \ {r} : inst'[t] = inst[t]
      BY AtStep DEF Places
    <3> QED
      BY <1>7, <3>1, <3>2, <3>3
  <2>2. v \in Reqs /\ v.state = q.state /\ v.numOutstanding > 0
    BY <1>2, <1>5, ReceivedFields
  <2> HIDE DEF v
  <2>3. x = Set(v, "LSQEntryFreed")
    BY <2>2 DEF Release, Outstanding, Reqs
  <2>4. x \in Reqs /\ x.state = q.state
    BY <2>2, <2>3, SetFields DEF Flags
  <2> HIDE DEF x
  <2>5. req'[r] # Gone => req'[r].state = q.state
    BY <2>1, <2>2, <2>4, RepliedState
  <2>6. inst[r].at # "none"
    BY <1>4, <1>9 DEF Owned
  <2>7. CASE inst'[r].at = "none"
    <3>1. LifeInQueue(q) = "sending"
      BY <1>6 DEF LifeInQueue
    <3>2. Moves(req[r], inst[r], req'[r], inst'[r])
      BY <1>2, <2>5, <2>6, <2>7, <3>1 DEF Moves
    <3> QED
      BY <2>1, <3>2, OneMoves DEF LifeStep
  <2>8. CASE inst'[r].at # "none"
    <3>1. LifeInQueue(req'[r]) = LifeInQueue(q)
      BY <1>6, <2>5, <2>8, HasRequestNext DEF LifeInQueue
    <3> QED
      BY <2>1, <2>6, <2>8, <3>1, Stays
  <2> QED
    BY <2>7, <2>8
<1> QED
  BY <1>8, <1>9

\* The event comes: for a squashed load this is the end.
LEMMA WritebackEventLives ==
  ASSUME IInv, IInv', NEW r \in Slots, WritebackEvent(r)
  PROVE  LifeStep
<1> DEFINE q == req[r]
<1>1. q \in Reqs /\ q # Gone /\ inst[r] \in InstRecs /\ DOMAIN req = Slots /\ DOMAIN inst = Slots
  BY SlotOf, NotGone DEF WritebackEvent, IInv
<1>2. req' = [req EXCEPT ![r] = WritebackDone(q)]
  BY <1>1 DEF WritebackEvent, Live
<1>3. /\ Set(q, "WritebackDone").state = q.state
      /\ WritebackDone(q) \in {Gone, Set(q, "WritebackDone")}
  BY <1>1, SetFields DEF WritebackDone, Flags
<1>4. /\ req'[r] # Gone => req'[r].state = q.state
      /\ \A t \in Slots \ {r} : req'[t] = req[t]
  BY <1>1, <1>2, <1>3
<1>5. /\ inst'[r].at = "none" <=> inst[r].at = "none"
      /\ \A t \in Slots \ {r} : inst'[t] = inst[t]
  <2>1. CASE inst[r].at = "memory" /\ ~inst[r].squashed
    BY <2>1, AtStep DEF WritebackEvent, Places
  <2>2. CASE ~(inst[r].at = "memory" /\ ~inst[r].squashed)
    BY <2>2 DEF WritebackEvent
  <2> QED
    BY <2>1, <2>2
<1>6. CASE inst[r].at = "none"
  <2>1. Moves(req[r], inst[r], req'[r], inst'[r])
    BY <1>1, <1>4, <1>5, <1>6 DEF Moves
  <2> QED
    BY <1>4, <1>5, <2>1, OneMoves DEF LifeStep
<1>7. CASE inst[r].at # "none"
  <2>1. q.state # "Translation"
    <3>1. SlotOK(q, inst[r], walks[r], flight[r], Events(r), Called(call, r))
      BY SlotOf
    <3>2. r \in forwards /\ Counted(q, walks[r], flight[r], Events(r))
          /\ InTranslation(q, walks[r], Called(call, r))
      BY <1>1, <3>1 DEF WritebackEvent, SlotOK
    <3> QED
      BY <3>2 DEF Counted, Events, Pending, InTranslation
  <2>2. LifeInQueue(req'[r]) = LifeInQueue(q)
    BY <1>4, <1>5, <1>7, <2>1, HasRequestNext DEF LifeInQueue
  <2> QED
    BY <1>4, <1>5, <1>7, <2>2, Stays
<1> QED
  BY <1>6, <1>7

\* Marks, retries and new cycles are not part of any life.
LEMMA OthersLive ==
  ASSUME IInv, RecvTimingSnoopReq \/ RecvReqRetry \/ Tick
                 \/ (\E r \in Slots : PushAgain(r) \/ CommitStore(r) \/ SetSquashed(r))
                 \/ UNCHANGED vars
  PROVE  LifeStep
<1>1. ASSUME NEW t \in Slots
      PROVE  /\ (req'[t] = Gone <=> req[t] = Gone)
             /\ (inst'[t].at = "none" <=> inst[t].at = "none")
             /\ LifeInQueue(req'[t]) = LifeInQueue(req[t])
             /\ req'[t].numInTranslation = req[t].numInTranslation
  <2>1. inst[t] \in InstRecs /\ DOMAIN inst = Slots
    BY SlotOf DEF IInv
  <2>2. CASE RecvTimingSnoopReq
    <3>1. inst'[t] = inst[t]
      BY <2>2 DEF RecvTimingSnoopReq
    <3>2. req'[t] = IF InQueue(t) THEN MarkAsStaleTranslation(req[t]) ELSE req[t]
      BY <2>2 DEF RecvTimingSnoopReq
    <3>3. InQueue(t) => req[t] \in Reqs
      BY SlotOf DEF InQueue
    <3> QED
      BY <3>1, <3>2, <3>3, MarkFields, NotGone DEF LifeInQueue
  <2>3. ASSUME CacheUnblocked, req' = req
        PROVE  /\ (req'[t] = Gone <=> req[t] = Gone)
               /\ (inst'[t].at = "none" <=> inst[t].at = "none")
               /\ LifeInQueue(req'[t]) = LifeInQueue(req[t])
               /\ req'[t].numInTranslation = req[t].numInTranslation
    <3>1. inst'[t] = IF inst[t].at = "blocked" THEN [inst[t] EXCEPT !.at = "replay"] ELSE inst[t]
      BY <2>3 DEF CacheUnblocked
    <3>2. [inst[t] EXCEPT !.at = "replay"].at = "replay"
      BY <2>1, AtFields DEF Places
    <3> QED
      BY <2>3, <3>1, <3>2
  <2>4. CASE RecvReqRetry
    BY <2>3, <2>4 DEF RecvReqRetry
  <2>5. CASE Tick
    BY <2>3, <2>5 DEF Tick
  <2>6. CASE \E r \in Slots : PushAgain(r)
    BY <2>6 DEF PushAgain
  <2>7. ASSUME NEW r \in Slots, CommitStore(r)
        PROVE  /\ req' = req /\ (inst'[t].at = "none" <=> inst[t].at = "none")
    <3>1. inst[r].at = "executed" /\ At(r, "committed") /\ req' = req
      BY <2>7 DEF CommitStore
    <3>2. inst'[r].at = "committed" /\ \A u \in Slots \ {r} : inst'[u] = inst[u]
      BY <3>1, AtStep DEF Places
    <3> QED
      BY <3>1, <3>2
  <2>8. ASSUME NEW r \in Slots, SetSquashed(r)
        PROVE  /\ req' = req /\ (inst'[t].at = "none" <=> inst[t].at = "none")
    <3>1. inst' = [inst EXCEPT ![r].squashed = TRUE] /\ req' = req
      BY <2>8 DEF SetSquashed
    <3> QED
      BY <2>1, <3>1 DEF InstRecs
  <2>9. CASE UNCHANGED vars
    BY <2>9 DEF vars
  <2> QED
    BY <2>2, <2>4, <2>5, <2>6, <2>7, <2>8, <2>9
<1> QED
  BY <1>1, NoneMoves DEF LifeStep

\* LSQ implements RequestLifetime: every request goes through the life the comment of its
\* class draws (lsq.hh:122), or is squashed in translation and left to the queue, whatever
\* is squashed, faults, is refused or answered late.
THEOREM LivesAsDrawn == Spec => StepsLikeLifetime
<1>1. Init => Lifetime!Init
  <2> SUFFICES ASSUME Init PROVE Lifetime!Init
    OBVIOUS
  <2>1. \A t \in Slots : Life(t) = "free"
    BY DEF Init, Life, Live
  <2> QED
    BY <2>1 DEF Lifetime!Init
<1>2. IInv /\ IInv' /\ [Next]_vars => [Lifetime!Next]_(Lifetime!vars)
  <2> SUFFICES ASSUME IInv, IInv', [Next]_vars PROVE LifeStep
    BY DEF LifeStep
  <2>1. ASSUME NEW r \in Slots,
               \/ \E kind \in Kinds, load \in BOOLEAN : PushRequest(r, kind, load)
               \/ PushStep(r)
               \/ \E i \in {1, 2} : FinishWalk(r, i) \/ RecvTimingResp(r, i)
               \/ WritebackEvent(r)
               \/ WritebackStores(r) \/ FreeLSQEntry(r) \/ Squash(r)
        PROVE  LifeStep
    <3>1. CASE \E kind \in Kinds, load \in BOOLEAN : PushRequest(r, kind, load)
      BY <3>1, PushRequestLives
    <3>2. CASE PushStep(r)
      BY <3>2, SendFragmentLives, AccessLives, SendLives, LeaveLives DEF PushStep
    <3>3. CASE \E i \in {1, 2} : FinishWalk(r, i) \/ RecvTimingResp(r, i)
      BY <3>3, FinishWalkLives, RecvTimingRespLives
    <3>4. CASE WritebackEvent(r)
      BY <3>4, WritebackEventLives
    <3>5. CASE WritebackStores(r) \/ FreeLSQEntry(r) \/ Squash(r)
      BY <3>5, SendLives, LeaveLives
    <3> QED
      BY <2>1, <3>1, <3>2, <3>3, <3>4, <3>5
  <2>2. CASE \/ RecvTimingSnoopReq \/ RecvReqRetry \/ Tick
             \/ \E r \in Slots : PushAgain(r) \/ CommitStore(r) \/ SetSquashed(r)
             \/ UNCHANGED vars
    BY <2>2, OthersLive
  <2> QED
    BY <2>1, <2>2 DEF Next
<1> QED
  BY <1>1, <1>2, OwnershipHolds, PTL DEF Spec, StepsLikeLifetime, Lifetime!Safety

-----------------------------------------------------------------------------
(* What an access has done so far *)

\* A request that has sent nothing.
Untouched(q) == q.packets = 0 /\ q.numOutstanding = 0 /\ q.numReceived = 0

\* Its translation is whole, or has not been asked for, and its state tells which
\* fragments have faulted.
Translated(q) ==
  /\ q.state # "Translation" => q.numTranslated \in {0, Size(q)}
  /\ q.state = "Request" => q.faults = {} /\ q.kind # "masked"
  /\ q.state = "PartialFault" => 1 \notin q.faults /\ q.kind # "masked"
  /\ q.kind \in {"single", "split"} => "TranslationStarted" \in q.flags

\* Nothing is sent before it is executed; a load that waits for a port has something
\* to send, and an access that is done has no packet left to wait for.
InProgress(q, n) ==
  /\ n.at \in {"execute", "deferred", "executed"} => Untouched(q)
  /\ n.at \in {"blocked", "replay"} =>
       n.load /\ MemAccessRequired(q, TRUE) /\ SentSoFar(q) < q.packets
  /\ n.at = "done" => q.numOutstanding = 0
  /\ n.at = "committed" => ~n.squashed
  /\ "Complete" \in q.flags => /\ n.at = "done" \/ (n.at = "memory" /\ n.squashed)
                               /\ q.numOutstanding = 0 /\ q.numReceived \in {0, q.packets}

\* What is owed to a sync (owing) is marked if it has a single packet, and there is
\* no mark while none waits (busy).
Marked(q, owing, busy) ==
  /\ owing => q.kind \in {"single", "split"} /\ (q.kind = "single" => q.stale)
  /\ q.stale => busy

AccessOK(q, n, owing, busy) ==
  IF n.at = "none" THEN ~owing
  ELSE Translated(q) /\ InProgress(q, n) /\ Marked(q, owing, busy)

\* The loads that found no port will be woken.
PortsOK ==
  /\ used \in [{"load", "store"} -> Nat] /\ used.load <= LoadPorts
  /\ BlockedLoadsWoken

AInv == PortsOK /\ \A r \in Slots : AccessOK(req[r], inst[r], r \in owed, waiting)

\* What is so of an access in the queue.
LEMMA AccessOf ==
  ASSUME IInv, AInv, NEW r \in Slots, inst[r].at # "none"
  PROVE  /\ Translated(req[r]) /\ InProgress(req[r], inst[r])
         /\ Marked(req[r], r \in owed, waiting)
         /\ req[r] \in Reqs /\ req[r] # Gone /\ inst[r] \in InstRecs
<1>1. AccessOK(req[r], inst[r], r \in owed, waiting)
  BY DEF AInv
<1> QED
  BY <1>1, SlotOf, NotGone DEF AccessOK

\* A step that changes one access.
LEMMA OneAccess ==
  ASSUME AInv, NEW r \in Slots,
         \A t \in Slots \ {r} : req'[t] = req[t] /\ inst'[t] = inst[t] /\ (t \in owed' <=> t \in owed),
         waiting' = waiting, AccessOK(req'[r], inst'[r], r \in owed', waiting'), PortsOK'
  PROVE  AInv'
<1>1. ASSUME NEW t \in Slots
      PROVE  AccessOK(req'[t], inst'[t], t \in owed', waiting')
  <2>1. CASE t = r
    BY <2>1
  <2>2. CASE t # r
    <3>1. AccessOK(req[t], inst[t], t \in owed, waiting)
      BY DEF AInv
    <3>2. req'[t] = req[t] /\ inst'[t] = inst[t] /\ (t \in owed' <=> t \in owed)
      BY <2>2
    <3> QED
      BY <3>1, <3>2 DEF AccessOK, Marked
  <2> QED
    BY <2>1, <2>2
<1> QED
  BY <1>1 DEF AInv

\* Nothing has to be woken that had not to be before.
LEMMA PortsKeep ==
  ASSUME PortsOK, UNCHANGED portVars,
         \A t \in Slots : inst'[t].at = "blocked" => inst[t].at = "blocked"
  PROVE  PortsOK'
  BY DEF PortsOK, BlockedLoadsWoken, portVars

\* What a request says of its translation and its mark is in some of its fields.
LEMMA SameRequest ==
  ASSUME NEW q, NEW p, p.kind = q.kind, p.state = q.state,
         p.numTranslated = q.numTranslated, p.faults = q.faults, p.stale = q.stale,
         "TranslationStarted" \in q.flags => "TranslationStarted" \in p.flags
  PROVE  /\ Translated(q) => Translated(p)
         /\ \A o, b \in BOOLEAN : Marked(q, o, b) => Marked(p, o, b)
         /\ \A load : MemAccessRequired(p, load) <=> MemAccessRequired(q, load)
<1>1. Translated(q) => Translated(p)
  BY DEF Translated, Size
<1>2. \A o, b \in BOOLEAN : Marked(q, o, b) => Marked(p, o, b)
  BY DEF Marked
<1>3. \A load : MemAccessRequired(p, load) <=> MemAccessRequired(q, load)
  BY DEF MemAccessRequired
<1> QED
  BY <1>1, <1>2, <1>3

\* The other fields after a flag is added.
LEMMA SetAccess ==
  ASSUME NEW q \in Reqs, NEW flag \in Flags
  PROVE  Set(q, flag).faults = q.faults /\ Set(q, flag).stale = q.stale
  BY DEF Set, Reqs

-----------------------------------------------------------------------------
(* Accesses: pushRequest and the translation *)

\* An instruction leaves the queue: nothing is owed of it any more.
LEMMA LeaveAccess ==
  ASSUME IInv, AInv, NEW r \in Slots, ReadPartly(r) \/ FreeLSQEntry(r) \/ Squash(r)
  PROVE  AInv'
<1>1. inst[r] \in InstRecs /\ DOMAIN inst = Slots /\ DOMAIN req = Slots
  BY SlotOf DEF IInv
<1>2. /\ \E p : req' = [req EXCEPT ![r] = p]
      /\ owed' = owed \ {r} /\ waiting' = waiting /\ UNCHANGED portVars
  BY DEF ReadPartly, FreeLSQEntry, Squash
<1>3. inst'[r].at = "none" /\ \A t \in Slots \ {r} : inst'[t] = inst[t]
  BY <1>1 DEF ReadPartly, FreeLSQEntry, Squash, At, InstRecs
<1>4. AccessOK(req'[r], inst'[r], r \in owed', waiting')
  BY <1>2, <1>3 DEF AccessOK
<1>5. PortsOK'
  BY <1>2, <1>3, PortsKeep DEF AInv
<1>6. \A t \in Slots \ {r} : req'[t] = req[t] /\ (t \in owed' <=> t \in owed)
  BY <1>1, <1>2
<1> QED
  BY <1>2, <1>3, <1>4, <1>5, <1>6, OneAccess

\* A new request has done nothing.
LEMMA PushRequestAccess ==
  ASSUME IInv, AInv, NEW r \in Slots, NEW kind \in Kinds, NEW load \in BOOLEAN,
         PushRequest(r, kind, load)
  PROVE  AInv'
<1> DEFINE p == CASE kind = "masked" -> NewRequest(kind)
         [] kind = "direct" ->
              [NewRequest(kind) EXCEPT !.state = "Request",
                 !.flags = {"TranslationStarted", "TranslationFinished"}]
         [] OTHER ->
              [NewRequest(kind) EXCEPT !.state = "Translation",
                 !.flags = {"TranslationStarted"}]
<1>1. /\ inst[r].at = "none" /\ req' = [req EXCEPT ![r] = p]
      /\ inst' = [inst EXCEPT ![r] = [at |-> "execute", load |-> load, squashed |-> FALSE]]
      /\ UNCHANGED portVars /\ owed' = owed /\ waiting' = waiting
  BY DEF PushRequest, syncVars
<1>2. /\ p.kind = kind /\ p.numTranslated = 0 /\ p.faults = {} /\ p.packets = 0
      /\ p.numOutstanding = 0 /\ p.numReceived = 0 /\ p.stale = FALSE
      /\ p.state = "Request" => kind = "direct"
      /\ p.state # "PartialFault" /\ "Complete" \notin p.flags
      /\ kind \in {"single", "split"} => "TranslationStarted" \in p.flags
  BY DEF NewRequest
<1> HIDE DEF p
<1>3. /\ req'[r] = p /\ inst'[r].at = "execute"
      /\ \A t \in Slots \ {r} : req'[t] = req[t] /\ inst'[t] = inst[t]
  BY <1>1 DEF IInv
<1>4. ~(r \in owed)
  BY <1>1 DEF AInv, AccessOK
<1>5. AccessOK(p, inst'[r], r \in owed', waiting')
  <2>1. Translated(p)
    BY <1>2 DEF Translated
  <2>2. InProgress(p, inst'[r])
    BY <1>2, <1>3 DEF InProgress, Untouched
  <2>3. Marked(p, r \in owed', waiting')
    BY <1>1, <1>2, <1>4 DEF Marked
  <2> QED
    BY <2>1, <2>2, <2>3, <1>3 DEF AccessOK
<1>6. PortsOK'
  BY <1>1, <1>3, PortsKeep DEF AInv
<1> QED
  BY <1>1, <1>3, <1>5, <1>6, OneAccess

\* A request one fragment of which is finished: when it was the last, its state tells
\* what has faulted.
LEMMA FinishAccess ==
  ASSUME NEW q \in Reqs, NEW i \in {1, 2}, NEW fault \in BOOLEAN, q.numInTranslation > 0,
         q.state = "Translation", q.kind \in {"single", "split"}, q.numTranslated < Size(q),
         NEW n, n.at # "none", Translated(q), InProgress(q, n), ~Released(q),
         "Complete" \notin q.flags, n.at \in {"execute", "deferred"},
         NEW owing, NEW busy, Marked(q, owing, busy)
  PROVE  AccessOK(Finish(q, i, fault, n.squashed), n, owing, busy)
<1> DEFINE b == FinishFragment(q, i, fault)
           s == StateAfter(b)
           p == [Set(b, "TranslationFinished") EXCEPT !.state = s]
<1>1. /\ b \in Reqs /\ b.kind = q.kind /\ b.state = q.state /\ b.flags = q.flags
      /\ b.numTranslated = q.numTranslated + 1
      /\ b.packets = q.packets /\ b.numOutstanding = q.numOutstanding
      /\ b.numReceived = q.numReceived
  BY FinishFields
<1>2. b.stale = q.stale
  BY DEF FinishFragment, Reqs
<1>3. Size(q) \in 0 .. 2 /\ Cardinality(Frags(q.kind)) = Size(q) /\ q.numTranslated \in Nat
  BY FragsSize DEF Reqs
<1>4. Finish(q, i, fault, n.squashed) = IF b.numTranslated < Size(q) THEN b
                                        ELSE IF n.squashed THEN SquashTranslation(b) ELSE p
  BY <1>3 DEF Finish
<1>5. Untouched(q)
  BY DEF InProgress
<1>6. s \in {"Request", "Fault", "PartialFault"} /\ (s = "Request" => b.faults = {})
        /\ (s = "PartialFault" => 1 \notin b.faults)
  BY DEF StateAfter
<1> HIDE DEF b, s
<1>7. CASE b.numTranslated < Size(q)
  <2>1. Translated(b) /\ Marked(b, owing, busy)
    BY <1>1, <1>2 DEF Translated, Marked
  <2>2. InProgress(b, n)
    BY <1>1, <1>5 DEF InProgress, Untouched
  <2> QED
    BY <1>4, <1>7, <2>1, <2>2 DEF AccessOK
<1>8. CASE ~(b.numTranslated < Size(q)) /\ n.squashed
  <2> DEFINE v == Set(b, "TranslationSquashed")
  <2>1. "TranslationSquashed" \in Flags
    BY DEF Flags
  <2>2. /\ v.flags = b.flags \cup {"TranslationSquashed"} /\ v.kind = b.kind /\ v.state = b.state
        /\ v.numTranslated = b.numTranslated /\ v.packets = b.packets
        /\ v.numOutstanding = b.numOutstanding /\ v.numReceived = b.numReceived
        /\ v.faults = b.faults /\ v.stale = b.stale
    BY <1>1, <2>1, SetFields, SetAccess
  <2>3. SquashTranslation(b) = IF Released(v) THEN Gone ELSE v
    BY DEF SquashTranslation
  <2> HIDE DEF v
  <2>4. SquashTranslation(b) = v
    BY <1>1, <2>2, <2>3 DEF Released
  <2>5. Translated(v) /\ Marked(v, owing, busy)
    BY <1>1, <1>2, <2>2 DEF Translated, Marked
  <2>6. InProgress(v, n)
    BY <1>1, <1>5, <2>2 DEF InProgress, Untouched
  <2> QED
    BY <1>4, <1>8, <2>4, <2>5, <2>6 DEF AccessOK
<1>9. CASE ~(b.numTranslated < Size(q)) /\ ~n.squashed
  <2>1. b.numTranslated = Size(q)
    BY <1>1, <1>3, <1>9
  <2>2. /\ p.kind = q.kind /\ p.state = s /\ p.flags = q.flags \cup {"TranslationFinished"}
        /\ p.numTranslated = Size(q) /\ p.faults = b.faults /\ p.stale = q.stale
        /\ p.packets = q.packets /\ p.numOutstanding = q.numOutstanding
        /\ p.numReceived = q.numReceived
    <3>1. "TranslationFinished" \in Flags /\ s \in States
      BY <1>6 DEF Flags, States
    <3>2. Set(b, "TranslationFinished") \in Reqs
      BY <1>1, <3>1, SetFields
    <3>3. /\ Set(b, "TranslationFinished").faults = b.faults
          /\ Set(b, "TranslationFinished").stale = b.stale
      BY <1>1, <3>1, SetAccess
    <3> DEFINE v == Set(b, "TranslationFinished")
    <3>4. /\ v.flags = b.flags \cup {"TranslationFinished"} /\ v.kind = b.kind
          /\ v.numTranslated = b.numTranslated /\ v.packets = b.packets
          /\ v.numOutstanding = b.numOutstanding /\ v.numReceived = b.numReceived
      BY <1>1, <3>1, SetFields
    <3> HIDE DEF v
    <3>5. v \in Reqs /\ p = [v EXCEPT !.state = s] /\ v.faults = b.faults /\ v.stale = b.stale
      BY <3>2, <3>3 DEF v
    <3> HIDE DEF p
    <3> QED
      BY <1>1, <1>2, <2>1, <3>4, <3>5 DEF Reqs
  <2> HIDE DEF p
  <2>3. Size(p) = Size(q)
    BY <2>2 DEF Size
  <2>4. Translated(p)
    BY <1>6, <2>2, <2>3 DEF Translated
  <2>5. Marked(p, owing, busy)
    BY <2>2 DEF Marked
  <2>6. InProgress(p, n)
    BY <1>5, <2>2 DEF InProgress, Untouched
  <2> QED
    BY <1>4, <1>9, <2>4, <2>5, <2>6 DEF AccessOK
<1> QED
  BY <1>7, <1>8, <1>9

\* A fragment is given to the TLB, which may answer at once.
LEMMA SendFragmentAccess ==
  ASSUME IInv, AInv, NEW r \in Slots, NEW i \in {1, 2}, SendFragmentToTranslation(r, i)
  PROVE  AInv'
<1>1. /\ call = {[slot |-> r, frag |-> i]} /\ inst' = inst
      /\ UNCHANGED portVars /\ owed' = owed /\ waiting' = waiting
  BY DEF SendFragmentToTranslation, syncVars
<1>2. i \in 0 .. 2 /\ ~({i} \subseteq {0})
  OBVIOUS
<1>3. Called(call, r) = {i}
  BY <1>1, <1>2, CalledOne
<1>4. /\ SlotOK(req[r], inst[r], walks[r], flight[r], Events(r), {i})
      /\ req[r] \in Reqs /\ req[r] # Gone
  <2>1. Called(call, r) # {}
    BY <1>3
  <2> QED
    BY <1>3, <2>1, SlotOf, NotGone
<1> DEFINE q == [req[r] EXCEPT !.numInTranslation = @ + 1]
<1>5. inst[r].at # "none"
  BY <1>4 DEF SlotOK
<1>6. /\ req[r].state = "Translation" /\ req[r].kind \in {"single", "split"}
      /\ req[r].numTranslated < Size(req[r]) /\ inst[r].at \in {"none", "execute", "deferred"}
      /\ inst[r].at # "none" => ~Released(req[r])
  BY <1>2, <1>4, Translating
<1>7. /\ q \in Reqs /\ q.numInTranslation > 0 /\ q.kind = req[r].kind /\ q.state = req[r].state
      /\ q.numTranslated = req[r].numTranslated /\ q.flags = req[r].flags
      /\ q.faults = req[r].faults /\ q.packets = req[r].packets
      /\ q.numOutstanding = req[r].numOutstanding /\ q.numReceived = req[r].numReceived
      /\ q.stale = req[r].stale
  BY <1>4 DEF Reqs
<1>8. \/ req' = [req EXCEPT ![r] = q]
      \/ \E fault \in BOOLEAN : req' = [req EXCEPT ![r] = Finish(q, i, fault, inst[r].squashed)]
  BY DEF SendFragmentToTranslation
<1> HIDE DEF q
<1> DEFINE o == r \in owed
<1>9. /\ Translated(req[r]) /\ InProgress(req[r], inst[r]) /\ Marked(req[r], o, waiting)
  BY <1>5, AccessOf
<1>10. /\ Translated(q) /\ InProgress(q, inst[r]) /\ Marked(q, o, waiting)
       /\ q.numTranslated < Size(q) /\ "Complete" \notin q.flags
  <2>1. Size(q) = Size(req[r])
    BY <1>7 DEF Size
  <2>2. Translated(q) /\ Marked(q, o, waiting)
    BY <1>7, <1>9, <2>1 DEF Translated, Marked
  <2>3. InProgress(q, inst[r])
    BY <1>5, <1>6, <1>7, <1>9 DEF InProgress, Untouched
  <2>4. "Complete" \notin q.flags
    BY <1>5, <1>6, <1>7, <1>9 DEF InProgress
  <2> QED
    BY <1>6, <1>7, <2>1, <2>2, <2>3, <2>4
<1>11. DOMAIN req = Slots
  BY DEF IInv
<1>12. AccessOK(req'[r], inst[r], o, waiting)
  <2>1. CASE req' = [req EXCEPT ![r] = q]
    <3>1. req'[r] = q
      BY <1>11, <2>1
    <3> QED
      BY <1>5, <1>10, <3>1 DEF AccessOK
  <2>2. ASSUME NEW fault \in BOOLEAN,
               req' = [req EXCEPT ![r] = Finish(q, i, fault, inst[r].squashed)]
        PROVE  AccessOK(req'[r], inst[r], o, waiting)
    <3>1. req'[r] = Finish(q, i, fault, inst[r].squashed)
      BY <1>11, <2>2
    <3>6. ~Released(q) /\ inst[r].at \in {"execute", "deferred"}
      BY <1>5, <1>6, <1>7 DEF Released
    <3>7. AccessOK(Finish(q, i, fault, inst[r].squashed), inst[r], o, waiting)
      BY <1>5, <1>6, <1>7, <1>10, <3>6, FinishAccess
    <3> QED
      BY <3>1, <3>7
  <2> QED
    BY <1>8, <2>1, <2>2
<1>13. \A t \in Slots \ {r} : req'[t] = req[t] /\ inst'[t] = inst[t]
  BY <1>1, <1>8, <1>11
<1>14. PortsOK'
  BY <1>1, PortsKeep DEF AInv
<1>15. AccessOK(req'[r], inst'[r], r \in owed', waiting')
  BY <1>1, <1>12
<1> QED
  BY <1>1, <1>13, <1>14, <1>15, OneAccess

\* The TLB answers, to an entry or to an orphan.
LEMMA FinishWalkAccess ==
  ASSUME IInv, AInv, NEW r \in Slots, NEW i \in {1, 2}, FinishWalk(r, i)
  PROVE  AInv'
<1>1. /\ call = {} /\ i \in walks[r] /\ inst' = inst
      /\ UNCHANGED portVars /\ owed' = owed /\ waiting' = waiting
  BY DEF FinishWalk, Idle, syncVars
<1>2. Called(call, r) = {} /\ req[r] \in Reqs /\ req[r] # Gone
  BY <1>1, CalledNone, SlotOf, NotGone
<1>3. SlotOK(req[r], inst[r], walks[r], flight[r], Events(r), {})
  BY <1>2, SlotOf
<1>4. /\ req[r].state = "Translation" /\ req[r].kind \in {"single", "split"}
      /\ req[r].numTranslated < Size(req[r]) /\ inst[r].at \in {"none", "execute", "deferred"}
      /\ inst[r].at # "none" => ~Released(req[r])
      /\ walks[r] \in SUBSET {1, 2} /\ req[r].numInTranslation = Cardinality(walks[r])
  BY <1>1, <1>2, <1>3, Translating
<1>5. req[r].numInTranslation > 0
  BY <1>1, <1>4, TwoFragments
<1>6. \E fault \in BOOLEAN : req' = [req EXCEPT ![r] = Finish(req[r], i, fault, inst[r].squashed)]
  BY <1>2 DEF FinishWalk, Live
<1>7. DOMAIN req = Slots
  BY DEF IInv
<1> DEFINE o == r \in owed
<1>8. AccessOK(req'[r], inst[r], o, waiting)
  <2>1. CASE inst[r].at = "none"
    BY <2>1 DEF AInv, AccessOK
  <2>2. CASE inst[r].at # "none"
    <3>1. /\ Translated(req[r]) /\ InProgress(req[r], inst[r]) /\ Marked(req[r], o, waiting)
      BY <2>2, AccessOf
    <3>2. "Complete" \notin req[r].flags
      BY <1>4, <3>1 DEF InProgress
    <3>3. ~Released(req[r]) /\ inst[r].at \in {"execute", "deferred"}
      BY <1>4, <2>2
    <3>4. ASSUME NEW fault \in BOOLEAN
          PROVE  AccessOK(Finish(req[r], i, fault, inst[r].squashed), inst[r], o, waiting)
      BY <1>2, <1>4, <1>5, <2>2, <3>1, <3>2, <3>3, FinishAccess
    <3> QED
      BY <1>6, <1>7, <3>4
  <2> QED
    BY <2>1, <2>2
<1>9. \A t \in Slots \ {r} : req'[t] = req[t] /\ inst'[t] = inst[t]
  BY <1>1, <1>6, <1>7
<1>10. PortsOK'
  BY <1>1, PortsKeep DEF AInv
<1>11. AccessOK(req'[r], inst'[r], r \in owed', waiting')
  BY <1>1, <1>8
<1> QED
  BY <1>1, <1>9, <1>10, <1>11, OneAccess

-----------------------------------------------------------------------------
(* Accesses: the memory *)

\* An access moves on with its request as it was, but for a flag that is not of its
\* completion.
LEMMA MovesOn ==
  ASSUME IInv, AInv, NEW r \in Slots, inst[r].at # "none",
         NEW place \in Places \ {"none", "blocked", "replay"}, At(r, place), UNCHANGED portVars,
         NEW flag \in Flags, flag # "Complete",
         req' = req \/ req' = [req EXCEPT ![r] = Set(req[r], flag)],
         "Complete" \notin req[r].flags, owed' = owed, waiting' = waiting,
         place \in {"execute", "deferred", "executed"} => Untouched(req[r]),
         place = "done" => req[r].numOutstanding = 0,
         place = "committed" => ~inst[r].squashed
  PROVE  AInv'
<1> DEFINE q == req[r]
           p == Set(q, flag)
           o == r \in owed
<1>1. /\ Translated(q) /\ InProgress(q, inst[r]) /\ Marked(q, o, waiting) /\ q \in Reqs
  BY AccessOf
<1>2. /\ inst'[r].at = place /\ inst'[r].squashed = inst[r].squashed
      /\ \A t \in Slots \ {r} : inst'[t] = inst[t]
  BY AtStep
<1>3. /\ p.kind = q.kind /\ p.state = q.state /\ p.flags = q.flags \cup {flag}
      /\ p.numTranslated = q.numTranslated /\ p.faults = q.faults /\ p.stale = q.stale
      /\ p.packets = q.packets /\ p.numOutstanding = q.numOutstanding
      /\ p.numReceived = q.numReceived
  BY <1>1, SetFields, SetAccess
<1>4. /\ req'[r] = q \/ req'[r] = p
      /\ \A t \in Slots \ {r} : req'[t] = req[t]
  BY DEF IInv
<1> HIDE DEF p
<1>5. Translated(p) /\ Marked(p, o, waiting)
  BY <1>1, <1>3 DEF Translated, Marked, Size
<1>6. InProgress(q, inst'[r]) /\ InProgress(p, inst'[r])
  BY <1>2, <1>3 DEF InProgress, Untouched
<1>7. AccessOK(req'[r], inst'[r], r \in owed', waiting')
  <2>1. inst'[r].at # "none"
    BY <1>2
  <2>2. AccessOK(q, inst'[r], o, waiting) /\ AccessOK(p, inst'[r], o, waiting)
    BY <1>1, <1>5, <1>6, <2>1 DEF AccessOK
  <2> QED
    BY <1>4, <2>2
<1>8. PortsOK'
  BY <1>2, PortsKeep DEF AInv
<1> QED
  BY <1>2, <1>4, <1>7, <1>8, OneAccess

\* The steps of an access that send nothing.
LEMMA QuietAccess ==
  ASSUME IInv, AInv, NEW r \in Slots,
         \/ ReadForwarded(r) \/ Write(r) \/ NoAccess(r) \/ DeferMemInst(r) \/ CommitStore(r)
  PROVE  AInv'
<1>1. CASE CommitStore(r)
  <2>1. /\ inst[r].at = "executed" /\ At(r, "committed") /\ UNCHANGED portVars /\ req' = req
        /\ ~inst[r].squashed /\ owed' = owed /\ waiting' = waiting
    BY <1>1 DEF CommitStore, syncVars
  <2>2. "Complete" \notin req[r].flags
    BY <2>1, AccessOf DEF InProgress
  <2>3. "Sent" \in Flags /\ "Sent" # "Complete" /\ "committed" \in Places
    BY DEF Flags, Places
  <2> QED
    BY <2>1, <2>2, <2>3, MovesOn
<1>2. CASE ReadForwarded(r) \/ Write(r) \/ NoAccess(r) \/ DeferMemInst(r)
  <2>1. Access(r) /\ UNCHANGED portVars /\ owed' = owed /\ waiting' = waiting
    BY <1>2 DEF ReadForwarded, Write, NoAccess, DeferMemInst, syncVars
  <2>2. inst[r].at \in {"execute", "deferred", "replay"}
    BY <2>1, Accessing
  <2>3. /\ Translated(req[r]) /\ InProgress(req[r], inst[r]) /\ "Complete" \notin req[r].flags
    BY <2>2, AccessOf DEF InProgress
  <2>4. "WritebackScheduled" \in Flags /\ {"memory", "executed", "done", "deferred"} \subseteq Places
    BY DEF Flags, Places
  <2>5. CASE ReadForwarded(r)
    <3>1. At(r, "memory") /\ req' = [req EXCEPT ![r] = Set(req[r], "WritebackScheduled")]
      BY <2>5 DEF ReadForwarded
    <3>2. inst[r].at # "none" /\ "memory" \in Places \ {"none", "blocked", "replay"}
      BY <2>2, <2>4
    <3>3. "WritebackScheduled" # "Complete" /\ "memory" # "done"
          /\ "memory" \notin {"execute", "deferred", "executed"}
      OBVIOUS
    <3> QED
      BY <2>1, <2>3, <2>4, <3>1, <3>2, <3>3, MovesOn
  <2>6. CASE Write(r)
    <3>1. At(r, "executed") /\ req' = req /\ ~inst[r].load
      BY <2>6 DEF Write
    <3>2. Untouched(req[r])
      BY <2>2, <2>3, <3>1 DEF InProgress
    <3> QED
      BY <2>1, <2>2, <2>3, <2>4, <3>1, <3>2, MovesOn
  <2>7. CASE NoAccess(r)
    <3>1. /\ At(r, "done") /\ req' = req
          /\ ~MemAccessRequired(req[r], inst[r].load) \/ req[r].kind = "masked"
      BY <2>7 DEF NoAccess
    <3>2. inst[r].at # "replay"
      BY <2>3, <3>1 DEF InProgress, Translated, MemAccessRequired
    <3>3. req[r].numOutstanding = 0
      BY <2>2, <2>3, <3>2 DEF InProgress, Untouched
    <3> QED
      BY <2>1, <2>2, <2>3, <2>4, <3>1, <3>3, MovesOn
  <2>8. CASE DeferMemInst(r)
    <3>1. At(r, "deferred") /\ req' = req /\ req[r].state = "Translation"
      BY <2>8 DEF DeferMemInst
    <3>2. Untouched(req[r])
      BY <2>2, <2>3, <3>1 DEF InProgress, MemAccessRequired
    <3> QED
      BY <2>1, <2>2, <2>3, <2>4, <3>1, <3>2, MovesOn
  <2> QED
    BY <1>2, <2>5, <2>6, <2>7, <2>8
<1> QED
  BY <1>1, <1>2

\* An access that is required has a packet to send.
LEMMA FirstPacket ==
  ASSUME NEW q \in Reqs, Translated(q), MemAccessRequired(q, TRUE), q.packets = 0
  PROVE  BuildPackets(q).packets > 0
<1> DEFINE sent == {i \in Frags(q.kind) : \A j \in 1 .. i : j \notin q.faults}
<1>1. 1 \notin q.faults /\ q.kind # "masked"
  BY DEF Translated, MemAccessRequired
<1>2. 1 \in Frags(q.kind) /\ 1 .. 1 = {1}
  BY <1>1 DEF Frags, Reqs
<1>3. 1 \in sent
  BY <1>1, <1>2
<1>4. IsFiniteSet(sent)
  <2>1. IsFiniteSet(Frags(q.kind)) /\ sent \subseteq Frags(q.kind)
    BY FragsSize
  <2> QED
    BY <2>1, FS_Subset
<1>5. BuildPackets(q).packets = Cardinality(sent)
  BY DEF BuildPackets, Reqs
<1> HIDE DEF sent
<1>6. Cardinality(sent) \in Nat /\ Cardinality(sent) # 0
  BY <1>3, <1>4, FS_CardinalityType, FS_EmptySet
<1> QED
  BY <1>5, <1>6

\* A load that is refused finds the cache blocked, or leaves no port for it.
LEMMA SendPorts ==
  ASSUME AInv, NEW r \in Slots, NEW n \in 0 .. 2, NEW q, SendPacketToCache(r, q, n),
         inst[r] \in InstRecs,
         inst'[r].at = "blocked" => inst[r].load /\ SentSoFar(q) + n < q.packets,
         \A t \in Slots \ {r} : inst'[t] = inst[t]
  PROVE  PortsOK'
<1> DEFINE load == inst[r].load
           more == SentSoFar(q) + n < q.packets
<1>1. /\ n > 0 => ~cacheBlocked /\ CachePortAvailable(load, n - 1)
      /\ used' = [used EXCEPT ![Port(load)] = @ + n]
      /\ cacheBlocked' = (cacheBlocked \/ (more /\ CachePortAvailable(load, n)))
  BY DEF SendPacketToCache
<1>2. used \in [{"load", "store"} -> Nat] /\ used.load <= LoadPorts /\ BlockedLoadsWoken
  BY DEF AInv, PortsOK
<1>3. LoadPorts \in Nat /\ load \in BOOLEAN
  BY LSQAssumption DEF InstRecs
<1> HIDE DEF load, more
<1>4. CASE load
  <2>1. used' = [used EXCEPT !["load"] = @ + n] /\ (n > 0 => used.load + (n - 1) < LoadPorts)
    BY <1>1, <1>4 DEF Port, CachePortAvailable
  <2>2. /\ used' \in [{"load", "store"} -> Nat] /\ used'.load = used.load + n
        /\ used'.load <= LoadPorts
    BY <1>2, <1>3, <2>1
  <2>3. ASSUME NEW t \in Slots, inst'[t].at = "blocked"
        PROVE  cacheBlocked' \/ used'.load = LoadPorts
    <3>1. CASE t = r
      <4>1. more
        BY <2>3, <3>1 DEF more
      <4>2. cacheBlocked' \/ ~(used.load + n < LoadPorts)
        BY <1>1, <1>4, <4>1 DEF CachePortAvailable
      <4> QED
        BY <1>2, <1>3, <2>2, <4>2
    <3>2. CASE t # r
      <4>1. cacheBlocked \/ used.load = LoadPorts
        BY <1>2, <2>3, <3>2 DEF BlockedLoadsWoken
      <4>2. cacheBlocked => cacheBlocked'
        BY <1>1
      <4>3. used.load \in Nat /\ n \in Nat
        BY <1>2
      <4>4. used.load = LoadPorts => n = 0
        BY <1>3, <2>1, <4>3
      <4> QED
        BY <2>2, <4>1, <4>2, <4>3, <4>4
    <3> QED
      BY <3>1, <3>2
  <2> QED
    BY <2>2, <2>3 DEF PortsOK, BlockedLoadsWoken
<1>5. CASE ~load
  <2>1. used' = [used EXCEPT !["store"] = @ + n]
    BY <1>1, <1>5 DEF Port
  <2>2. used' \in [{"load", "store"} -> Nat] /\ used'.load = used.load
    BY <1>2, <2>1
  <2>3. ASSUME NEW t \in Slots, inst'[t].at = "blocked"
        PROVE  cacheBlocked' \/ used'.load = LoadPorts
    <3>1. inst[t].at = "blocked"
      BY <1>5, <2>3 DEF load
    <3>2. cacheBlocked \/ used.load = LoadPorts
      BY <1>2, <3>1 DEF BlockedLoadsWoken
    <3> QED
      BY <1>1, <2>2, <3>2
  <2> QED
    BY <1>2, <2>2, <2>3 DEF PortsOK, BlockedLoadsWoken
<1> QED
  BY <1>3, <1>4, <1>5

\* The fields of a request some packets of which are sent.
LEMMA SentFields ==
  ASSUME IInv, NEW r \in Slots, req[r] \in Reqs, NEW n \in 0 .. 2,
         SendPacketToCache(r, BuildPackets(req[r]), n)
  PROVE  LET q == req[r]
             b == BuildPackets(q)
             p == req'[r]
             more == SentSoFar(b) + n < b.packets
         IN /\ p.kind = q.kind /\ p.state = q.state /\ p.numTranslated = q.numTranslated
            /\ p.faults = q.faults /\ p.stale = q.stale
            /\ "TranslationStarted" \in q.flags => "TranslationStarted" \in p.flags
            /\ "Complete" \in p.flags => "Complete" \in q.flags
            /\ p.packets = b.packets /\ SentSoFar(p) = SentSoFar(b) + n
            /\ SentSoFar(b) = SentSoFar(q) /\ SentSoFar(q) \in Nat /\ SentSoFar(p) <= b.packets
            /\ "Sent" \notin p.flags => more \/ n = 0
            /\ more => "Sent" \notin p.flags
            /\ q.packets \in Nat /\ b.packets \in Nat /\ (q.packets > 0 => b = q)
            /\ \A t \in Slots \ {r} : req'[t] = req[t]
<1> DEFINE q == req[r]
           b == BuildPackets(q)
           more == SentSoFar(b) + n < b.packets
           flags == IF more THEN (b.flags \ {"Sent"}) \cup {"Retry"}
                    ELSE IF n > 0 THEN b.flags \cup {"Sent"} ELSE b.flags
           p == [b EXCEPT !.numOutstanding = @ + n, !.flags = flags]
<1>1. q.packets <= Size(q)
  BY SlotOf, NotGone DEF SlotOK, SentInOrder
<1>2. /\ b \in Reqs /\ b.kind = q.kind /\ b.state = q.state /\ b.flags = q.flags
      /\ b.numTranslated = q.numTranslated
      /\ b.numOutstanding = q.numOutstanding /\ b.numReceived = q.numReceived
  BY <1>1, BuildFields
<1>3. b.faults = q.faults /\ b.stale = q.stale /\ (q.packets > 0 => b = q)
  BY DEF BuildPackets, Reqs
<1>4. req' = [req EXCEPT ![r] = p] /\ SentSoFar(b) + n <= b.packets
  BY DEF SendPacketToCache
<1> HIDE DEF b
<1>5. /\ "Sent" \notin flags => more \/ n = 0
      /\ more => "Sent" \notin flags
      /\ "TranslationStarted" \in q.flags => "TranslationStarted" \in flags
      /\ "Complete" \in flags => "Complete" \in q.flags
  BY <1>2
<1> HIDE DEF flags
<1>6. /\ p.kind = b.kind /\ p.state = b.state /\ p.numTranslated = b.numTranslated
      /\ p.faults = b.faults /\ p.stale = b.stale /\ p.flags = flags /\ p.packets = b.packets
      /\ p.numOutstanding = b.numOutstanding + n /\ p.numReceived = b.numReceived
  BY <1>2 DEF Reqs
<1>7. SentSoFar(p) = SentSoFar(b) + n /\ SentSoFar(b) = SentSoFar(q) /\ SentSoFar(q) \in Nat
  BY <1>2, <1>6 DEF SentSoFar, Reqs
<1> HIDE DEF p
<1>8. req'[r] = p /\ \A t \in Slots \ {r} : req'[t] = req[t]
  BY <1>4 DEF IInv
<1>9. q.packets \in Nat /\ b.packets \in Nat
  BY <1>2 DEF Reqs
<1> QED
  BY <1>2, <1>3, <1>4, <1>5, <1>6, <1>7, <1>8, <1>9 DEF b

\* A load or a store goes to the cache, and waits for it if it was refused.
LEMMA SendAccess ==
  ASSUME IInv, AInv, NEW r \in Slots, ReadFromCache(r) \/ WritebackStores(r)
  PROVE  AInv'
<1>1. PICK n \in 0 .. 2 : SendPacketToCache(r, BuildPackets(req[r]), n)
  BY DEF ReadFromCache, WritebackStores
<1> DEFINE q == req[r]
           b == BuildPackets(q)
           o == r \in owed
           more == SentSoFar(b) + n < b.packets
<1>2. /\ inst[r].at # "none"
      /\ ReadFromCache(r) => inst[r].at \in {"execute", "deferred", "replay"}
      /\ WritebackStores(r) => inst[r].at = "committed"
      /\ owed' = owed /\ waiting' = waiting
  BY Accessing DEF ReadFromCache, WritebackStores, syncVars
<1>3. /\ Translated(q) /\ InProgress(q, inst[r]) /\ Marked(q, o, waiting)
      /\ q \in Reqs /\ inst[r] \in InstRecs /\ "Complete" \notin q.flags
  BY <1>2, AccessOf DEF InProgress
<1>4. LET p == req'[r]
      IN /\ p.kind = q.kind /\ p.state = q.state /\ p.numTranslated = q.numTranslated
         /\ p.faults = q.faults /\ p.stale = q.stale
         /\ "TranslationStarted" \in q.flags => "TranslationStarted" \in p.flags
         /\ "Complete" \in p.flags => "Complete" \in q.flags
         /\ p.packets = b.packets /\ SentSoFar(p) = SentSoFar(b) + n
         /\ SentSoFar(b) = SentSoFar(q) /\ SentSoFar(q) \in Nat /\ SentSoFar(p) <= b.packets
         /\ "Sent" \notin p.flags => more \/ n = 0
         /\ more => "Sent" \notin p.flags
         /\ q.packets \in Nat /\ b.packets \in Nat /\ (q.packets > 0 => b = q)
         /\ \A t \in Slots \ {r} : req'[t] = req[t]
  BY <1>1, <1>3, SentFields
<1>5. q.packets = 0 /\ MemAccessRequired(q, TRUE) => b.packets > 0
  BY <1>3, FirstPacket
<1> HIDE DEF b
<1>6. /\ inst'[r].load = inst[r].load /\ \A t \in Slots \ {r} : inst'[t] = inst[t]
      /\ inst'[r].at = "blocked" => inst[r].load /\ more /\ MemAccessRequired(q, TRUE)
      /\ inst'[r].at \in {"memory", "blocked"} \/ inst'[r] = inst[r]
      /\ inst'[r].at \notin {"none", "execute", "deferred", "executed", "replay", "done"}
  <2>1. CASE WritebackStores(r)
    BY <1>2, <2>1 DEF WritebackStores
  <2>2. CASE ReadFromCache(r)
    <3>1. /\ At(r, IF "Sent" \in req'[r].flags THEN "memory" ELSE "blocked")
          /\ inst[r].load /\ MemAccessRequired(q, TRUE)
      BY <2>2 DEF ReadFromCache
    <3>2. SentSoFar(q) < b.packets
      <4>1. CASE inst[r].at = "replay"
        BY <1>3, <1>4, <4>1 DEF InProgress
      <4>2. CASE inst[r].at \in {"execute", "deferred"}
        <5>1. q.packets = 0 /\ SentSoFar(q) = 0
          BY <1>3, <4>2 DEF InProgress, Untouched, SentSoFar
        <5> QED
          BY <1>5, <3>1, <5>1
      <4> QED
        BY <1>2, <2>2, <4>1, <4>2
    <3>3. "Sent" \notin req'[r].flags => more
      BY <1>4, <3>2
    <3> DEFINE place == IF "Sent" \in req'[r].flags THEN "memory" ELSE "blocked"
    <3>4. place \in Places /\ At(r, place)
      BY <3>1 DEF Places
    <3> HIDE DEF place
    <3>5. /\ inst'[r].at = place /\ inst'[r].load = inst[r].load
          /\ \A t \in Slots \ {r} : inst'[t] = inst[t]
      BY <3>4, AtStep
    <3> QED
      BY <3>1, <3>3, <3>5 DEF place
  <2> QED
    BY <2>1, <2>2
<1>7. PortsOK'
  BY <1>1, <1>3, <1>6, SendPorts DEF b
<1> DEFINE p == req'[r]
<1> HIDE DEF p
<1>8. Translated(p) /\ Marked(p, o, waiting) /\ (MemAccessRequired(q, TRUE) => MemAccessRequired(p, TRUE))
  BY <1>3, <1>4 DEF Translated, Marked, Size, MemAccessRequired, p
<1>9. InProgress(p, inst'[r])
  BY <1>3, <1>4, <1>6, <1>8 DEF InProgress, p
<1>10. AccessOK(p, inst'[r], o, waiting)
  BY <1>6, <1>8, <1>9 DEF AccessOK
<1>11. AccessOK(req'[r], inst'[r], r \in owed', waiting')
  BY <1>2, <1>10 DEF p
<1> QED
  BY <1>2, <1>4, <1>6, <1>7, <1>11, OneAccess

-----------------------------------------------------------------------------
(* Accesses: answers, events and syncs *)

\* A sync that is over leaves no request marked in the queues.
LEMMA SyncOver ==
  ASSUME IInv', ~StaleLeft(req', inst'), NEW t \in Slots, inst'[t].at # "none"
  PROVE  ~req'[t].stale
  BY HasRequestNext DEF StaleLeft, Live

\* The last step of a sync: what is not marked is not.
LEMMA SyncAccess ==
  ASSUME IInv', \A t \in Slots : AccessOK(req'[t], inst'[t], t \in owed', waiting),
         waiting' = (waiting /\ StaleLeft(req', inst')), PortsOK'
  PROVE  AInv'
<1>1. ASSUME NEW t \in Slots
      PROVE  AccessOK(req'[t], inst'[t], t \in owed', waiting')
  <2>1. AccessOK(req'[t], inst'[t], t \in owed', waiting)
    OBVIOUS
  <2>2. CASE inst'[t].at = "none"
    BY <2>1, <2>2 DEF AccessOK
  <2>3. CASE inst'[t].at # "none"
    <3>1. req'[t].stale => waiting'
      <4>1. req'[t].stale => waiting
        BY <2>1, <2>3 DEF AccessOK, Marked
      <4>2. req'[t].stale => StaleLeft(req', inst')
        BY <2>3, SyncOver
      <4> QED
        BY <4>1, <4>2
    <3> QED
      BY <2>1, <3>1 DEF AccessOK, Marked
  <2> QED
    BY <2>2, <2>3
<1> QED
  BY <1>1 DEF AInv

\* The event of a forwarded load: it has no packet to wait for.
LEMMA WritebackEventAccess ==
  ASSUME IInv, AInv, NEW r \in Slots, WritebackEvent(r)
  PROVE  AInv'
<1> DEFINE q == req[r]
           p == Set(q, "WritebackDone")
<1>1. /\ r \in forwards /\ q \in Reqs /\ q # Gone /\ inst[r] \in InstRecs
      /\ DOMAIN req = Slots /\ DOMAIN inst = Slots
  BY SlotOf, NotGone DEF WritebackEvent, IInv
<1>2. /\ req' = [req EXCEPT ![r] = WritebackDone(q)] /\ owed' = owed \ {r} /\ waiting' = waiting
      /\ UNCHANGED portVars
  BY <1>1 DEF WritebackEvent, Live
<1>3. /\ Counted(q, walks[r], flight[r], Events(r)) /\ OneUser(q, inst[r])
      /\ Owned(q, inst[r], walks[r])
  BY <1>1, SlotOf DEF SlotOK
<1>4. "WritebackScheduled" \in q.flags
  BY <1>1, <1>3 DEF Counted, Events, Pending
<1>5. q.numOutstanding = 0 /\ inst[r].at \in {"memory", "done", "none"}
  BY <1>3, <1>4 DEF OneUser
<1>6. /\ \/ inst'[r] = inst[r] /\ (inst[r].at = "memory" => inst[r].squashed)
         \/ inst[r].at = "memory" /\ ~inst[r].squashed /\ inst'[r].at = "done"
      /\ \A t \in Slots \ {r} : inst'[t] = inst[t]
  <2>1. CASE inst[r].at = "memory" /\ ~inst[r].squashed
    <3>1. At(r, "done")
      BY <2>1 DEF WritebackEvent
    <3> QED
      BY <2>1, <3>1, AtStep DEF Places
  <2>2. CASE ~(inst[r].at = "memory" /\ ~inst[r].squashed)
    <3>1. inst' = inst
      BY <2>2 DEF WritebackEvent
    <3> QED
      BY <2>2, <3>1
  <2> QED
    BY <2>1, <2>2
<1>7. AccessOK(req'[r], inst'[r], r \in owed', waiting')
  <2>1. r \notin owed'
    BY <1>2
  <2>2. CASE inst[r].at = "none"
    BY <1>6, <2>1, <2>2 DEF AccessOK
  <2>3. CASE inst[r].at # "none"
    <3>1. inst'[r].at \in {"memory", "done"} /\ inst[r].at \in {"memory", "done"}
      BY <1>5, <1>6, <2>3
    <3>2. Translated(q) /\ InProgress(q, inst[r]) /\ Marked(q, r \in owed, waiting)
      BY <2>3, AccessOf
    <3>3. /\ p.kind = q.kind /\ p.state = q.state /\ p.flags = q.flags \cup {"WritebackDone"}
          /\ p.numTranslated = q.numTranslated /\ p.faults = q.faults /\ p.stale = q.stale
          /\ p.packets = q.packets /\ p.numOutstanding = q.numOutstanding
          /\ p.numReceived = q.numReceived
      BY <1>1, SetFields, SetAccess DEF Flags
    <3>4. ~Released(q)
      BY <1>3, <2>3 DEF Owned
    <3>5. ~Released(p)
      BY <3>3, <3>4 DEF Released
    <3>6. WritebackDone(q) = p
      BY <3>5 DEF WritebackDone
    <3> HIDE DEF p
    <3>7. req'[r] = p
      BY <1>1, <1>2, <3>6
    <3>8. Translated(p)
      BY <3>2, <3>3 DEF Translated, Size
    <3>9. InProgress(p, inst'[r])
      BY <1>5, <1>6, <3>1, <3>2, <3>3 DEF InProgress
    <3>10. Marked(p, r \in owed', waiting')
      BY <1>2, <2>1, <3>2, <3>3 DEF Marked
    <3> QED
      BY <3>1, <3>7, <3>8, <3>9, <3>10 DEF AccessOK
  <2> QED
    BY <2>2, <2>3
<1>8. PortsOK'
  BY <1>2, <1>6, PortsKeep DEF AInv
<1>9. \A t \in Slots \ {r} : req'[t] = req[t] /\ (t \in owed' <=> t \in owed)
  BY <1>1, <1>2
<1> QED
  BY <1>2, <1>6, <1>7, <1>8, <1>9, OneAccess

\* A sync begins: it marks all that is in progress with a translation.
LEMMA SnoopAccess ==
  ASSUME IInv, IInv', AInv, RecvTimingSnoopReq
  PROVE  AInv'
<1>1. /\ req' = [t \in Slots |-> IF InQueue(t) THEN MarkAsStaleTranslation(req[t]) ELSE req[t]]
      /\ owed' = {t \in Slots : InQueue(t) /\ req[t].kind \in {"single", "split"}
                            /\ req[t].flags \cap {"Complete", "WritebackDone"} = {}}
      /\ waiting' = StaleLeft(req', inst) /\ inst' = inst /\ UNCHANGED portVars
  BY DEF RecvTimingSnoopReq
<1>2. ASSUME NEW t \in Slots
      PROVE  AccessOK(req'[t], inst'[t], t \in owed', waiting')
  <2>1. CASE inst[t].at = "none"
    <3>1. t \notin owed'
      BY <1>1, <2>1 DEF InQueue
    <3> QED
      BY <1>1, <2>1, <3>1 DEF AccessOK
  <2>2. CASE inst[t].at # "none"
    <3> DEFINE q == req[t]
               p == MarkAsStaleTranslation(q)
    <3>1. Translated(q) /\ InProgress(q, inst[t]) /\ q \in Reqs /\ q # Gone
      BY <2>2, AccessOf
    <3>2. req'[t] = p
      BY <1>1, <2>2, <3>1 DEF InQueue, Live
    <3>3. /\ p.kind = q.kind /\ p.state = q.state /\ p.flags = q.flags
          /\ p.numTranslated = q.numTranslated
          /\ p.packets = q.packets /\ p.numOutstanding = q.numOutstanding
          /\ p.numReceived = q.numReceived
      BY <3>1, MarkFields
    <3>4. p.faults = q.faults
      BY <3>1 DEF MarkAsStaleTranslation, Reqs
    <3>5. ~Released(q)
      BY <2>2, <3>1, SlotOf DEF SlotOK, Owned
    <3>6. q.kind = "single" /\ "Complete" \notin q.flags => p.stale
      <4>1. SUFFICES ASSUME q.kind = "single", "Complete" \notin q.flags PROVE p.stale
        OBVIOUS
      <4>2. q.flags \cap {"Complete", "Discarded"} = {} /\ "TranslationStarted" \in q.flags
        BY <3>1, <3>5, <4>1 DEF Released, Translated
      <4> QED
        BY <3>1, <4>1, <4>2 DEF MarkAsStaleTranslation, Reqs
    <3> HIDE DEF p
    <3>7. Translated(p)
      BY <3>1, <3>3, <3>4 DEF Translated, Size
    <3>8. InProgress(p, inst[t])
      BY <3>1, <3>3 DEF InProgress, Untouched, SentSoFar, MemAccessRequired
    <3>9. Marked(p, t \in owed', waiting')
      <4>1. t \in owed' => q.kind \in {"single", "split"} /\ "Complete" \notin q.flags
        BY <1>1
      <4>2. p.stale => waiting'
        BY <1>1, <2>2, <3>2, SyncOver
      <4> QED
        BY <3>3, <3>6, <4>1, <4>2 DEF Marked
    <3> QED
      BY <1>1, <2>2, <3>2, <3>7, <3>8, <3>9 DEF AccessOK
  <2> QED
    BY <2>1, <2>2
<1>3. PortsOK'
  BY <1>1, PortsKeep DEF AInv
<1> QED
  BY <1>2, <1>3 DEF AInv

\* A retry of the cache, or a new cycle, wakes the loads that were refused.
LEMMA WakeAccess ==
  ASSUME IInv, AInv, RecvReqRetry \/ Tick
  PROVE  AInv'
<1>1. req' = req /\ owed' = owed /\ waiting' = waiting
  BY DEF RecvReqRetry, Tick, syncVars
<1>2. ASSUME NEW t \in Slots
      PROVE  /\ AccessOK(req'[t], inst'[t], t \in owed', waiting')
             /\ CacheUnblocked => inst'[t].at # "blocked"
             /\ inst'[t].at = "blocked" => inst[t].at = "blocked"
  <2>1. AccessOK(req[t], inst[t], t \in owed, waiting) /\ inst[t] \in InstRecs
    BY SlotOf DEF AInv
  <2>2. CASE inst'[t] = inst[t] /\ (CacheUnblocked => inst[t].at # "blocked")
    BY <1>1, <2>1, <2>2
  <2>3. CASE CacheUnblocked /\ inst[t].at = "blocked"
    <3> DEFINE m == [inst[t] EXCEPT !.at = "replay"]
    <3>1. inst'[t] = m
      BY <2>3 DEF CacheUnblocked
    <3>2. m.at = "replay" /\ m.load = inst[t].load
      BY <2>1, AtFields DEF Places
    <3> HIDE DEF m
    <3>3. AccessOK(req[t], m, t \in owed, waiting)
      BY <2>1, <2>3, <3>2 DEF AccessOK, InProgress
    <3> QED
      BY <1>1, <3>1, <3>2, <3>3
  <2>4. CacheUnblocked /\ inst[t].at # "blocked" => inst'[t] = inst[t]
    BY DEF CacheUnblocked
  <2>5. CacheUnblocked \/ UNCHANGED inst
    BY DEF RecvReqRetry, Tick
  <2> QED
    BY <2>2, <2>3, <2>4, <2>5
<1>3. PortsOK'
  <2>1. PortsOK
    BY DEF AInv
  <2>2. CASE RecvReqRetry
    BY <1>2, <2>1, <2>2 DEF RecvReqRetry, PortsOK, BlockedLoadsWoken
  <2>3. CASE Tick
    <3>1. used' = [load |-> 0, store |-> 0] /\ cacheBlocked' = cacheBlocked /\ LoadPorts \in Nat
      BY <2>3, LSQAssumption DEF Tick
    <3>2. used' \in [{"load", "store"} -> Nat] /\ used'.load <= LoadPorts
      BY <3>1
    <3>3. BlockedLoadsWoken'
      <4>1. SUFFICES ASSUME NEW t \in Slots, inst'[t].at = "blocked" PROVE cacheBlocked'
        BY DEF BlockedLoadsWoken
      <4>2. ~CacheUnblocked /\ inst[t].at = "blocked"
        BY <1>2, <4>1
      <4>3. ~(used.load = LoadPorts /\ ~cacheBlocked)
        BY <2>3, <4>2 DEF Tick
      <4>4. cacheBlocked \/ used.load = LoadPorts
        BY <2>1, <4>2 DEF PortsOK, BlockedLoadsWoken
      <4> QED
        BY <3>1, <4>3, <4>4
    <3> QED
      BY <3>2, <3>3 DEF PortsOK
  <2> QED
    BY <2>2, <2>3
<1> QED
  BY <1>2, <1>3 DEF AInv

\* The memory answers one packet of a request: an access is done when none is left.
LEMMA RecvTimingRespAccess ==
  ASSUME IInv, IInv', AInv, NEW r \in Slots, NEW i \in {1, 2}, RecvTimingResp(r, i)
  PROVE  AInv'
<1> DEFINE q == req[r]
           v == Received(q)
<1>1. /\ call = {} /\ i \in flight[r] /\ UNCHANGED portVars
      /\ DOMAIN req = Slots /\ DOMAIN inst = Slots
  BY DEF RecvTimingResp, Idle, IInv
<1>2. q \in Reqs /\ q # Gone /\ inst[r] \in InstRecs /\ Called(call, r) = {}
  BY <1>1, CalledNone, SlotOf, NotGone
<1>3. /\ Counted(q, walks[r], flight[r], Events(r)) /\ SentInOrder(q, flight[r])
      /\ Owned(q, inst[r], walks[r]) /\ flight[r] \in SUBSET {1, 2}
  BY <1>2, SlotOf DEF SlotOK
<1>4. q.numOutstanding > 0 /\ q.numOutstanding \in Nat
  BY <1>1, <1>2, <1>3, TwoFragments DEF Counted, Reqs
<1>5. waiting' = (waiting /\ StaleLeft(req', inst'))
  BY <1>2 DEF RecvTimingResp, Live
<1>6. /\ \A t \in Slots \ {r} : req'[t] = req[t] /\ inst'[t] = inst[t] /\ (t \in owed' <=> t \in owed)
      /\ inst'[r].at \in {inst[r].at, "none", "done"}
  <2>1. (\E p : req' = [req EXCEPT ![r] = p]) /\ (owed' = owed \ {r} \/ owed' = owed)
    BY <1>2 DEF RecvTimingResp, Live
  <2>2. (\E place \in {"none", "done"} : At(r, place)) \/ inst' = inst
    BY <1>2 DEF RecvTimingResp, Live
  <2> QED
    BY <1>1, <2>1, <2>2, AtStep DEF Places
<1>7. AccessOK(req'[r], inst'[r], r \in owed', waiting)
  <2>1. CASE Released(q)
    <3>1. inst' = inst /\ owed' = owed
      BY <1>2, <2>1 DEF RecvTimingResp, Live
    <3>2. inst[r].at = "none"
      BY <1>3, <2>1 DEF Owned
    <3> QED
      BY <3>1, <3>2 DEF AInv, AccessOK
  <2>2. CASE ~Released(q)
    <3>1. inst[r].at # "none"
      BY <1>3, <2>2 DEF Owned
    <3>2. Translated(q) /\ InProgress(q, inst[r]) /\ Marked(q, r \in owed, waiting)
      BY <3>1, AccessOf
    <3>3. inst[r].at \notin {"execute", "deferred", "executed", "done"}
      BY <1>4, <3>2 DEF InProgress, Untouched
    <3>4. "Complete" \notin q.flags
      BY <1>4, <3>2 DEF InProgress
    <3>5. /\ v \in Reqs /\ v.kind = q.kind /\ v.state = q.state
          /\ v.flags \in {q.flags, q.flags \cup {"Complete"}}
          /\ v.numTranslated = q.numTranslated
          /\ v.packets = q.packets /\ v.numOutstanding = q.numOutstanding
          /\ v.numReceived = IF q.kind = "split" THEN q.numReceived + 1 ELSE q.numReceived
      BY <1>2, ReceivedFields
    <3>6. /\ v.faults = q.faults /\ v.stale = FALSE
          /\ "Complete" \in v.flags <=> q.kind # "split" \/ q.numReceived + 1 = q.packets
      BY <1>2, <3>4 DEF Received, Reqs
    <3>7. \E freed \in BOOLEAN :
            /\ req' = [req EXCEPT ![r] =
                 PacketReplied(IF freed THEN Release(v, "LSQEntryFreed") ELSE v)]
            /\ IF "Complete" \in v.flags /\ ~inst[r].squashed
                 THEN At(r, IF freed THEN "none" ELSE "done")
                 ELSE ~freed /\ inst' = inst
      BY <1>2, <2>2 DEF RecvTimingResp, Live
    <3>8. owed' = IF "Complete" \in v.flags THEN owed \ {r} ELSE owed
      BY <1>2, <2>2 DEF RecvTimingResp, Live
    <3> HIDE DEF v
    <3> DEFINE p == [v EXCEPT !.numOutstanding = @ - 1]
    <3>9. /\ p.kind = v.kind /\ p.state = v.state /\ p.flags = v.flags
          /\ p.numTranslated = v.numTranslated
          /\ p.packets = v.packets /\ p.numOutstanding = v.numOutstanding - 1
          /\ p.numReceived = v.numReceived
      BY <1>4, <3>5, RepliedFields
    <3>10. p.faults = v.faults /\ p.stale = v.stale
      BY <3>5 DEF Reqs
    <3>11. PacketReplied(v) = p
      <4>1. ~Released(p)
        BY <2>2, <3>5, <3>9 DEF Released
      <4> QED
        BY <4>1 DEF PacketReplied
    <3> HIDE DEF p
    <3>12. Translated(p)
      BY <3>2, <3>5, <3>6, <3>9, <3>10 DEF Translated, Size
    <3>13. /\ q.numReceived \in Nat /\ q.packets \in Nat /\ q.packets <= Size(q) /\ Size(q) \in 0 .. 2
           /\ q.numReceived + q.numOutstanding <= q.packets
           /\ q.kind # "split" => q.numReceived = 0
      BY <1>2, <1>3, FragsSize DEF SentInOrder, Reqs
    <3>14. CASE "Complete" \in v.flags
      <4>1. r \notin owed'
        BY <3>8, <3>14
      <4>2. \/ At(r, "none")
            \/ At(r, "done") /\ req' = [req EXCEPT ![r] = PacketReplied(v)]
            \/ inst[r].squashed /\ inst' = inst /\ req' = [req EXCEPT ![r] = PacketReplied(v)]
        BY <3>7, <3>14
      <4>5. p.numOutstanding = 0 /\ p.numReceived \in {0, p.packets}
        <5>1. CASE q.kind = "split"
          BY <1>4, <3>5, <3>6, <3>9, <3>13, <3>14, <5>1
        <5>2. CASE q.kind # "split"
          BY <1>4, <3>5, <3>6, <3>9, <3>13, <3>14, <5>2 DEF Size
        <5> QED
          BY <5>1, <5>2
      <4>6. Marked(p, r \in owed', waiting)
        BY <3>6, <3>10, <4>1 DEF Marked
      <4>3. CASE At(r, "none")
        <5>1. inst'[r].at = "none"
          BY <4>3, AtStep DEF Places
        <5> QED
          BY <4>1, <5>1 DEF AccessOK
      <4>4. CASE At(r, "done") /\ req' = [req EXCEPT ![r] = PacketReplied(v)]
        <5>1. inst'[r].at = "done" /\ req'[r] = p
          BY <1>1, <3>11, <4>4, AtStep DEF Places
        <5>2. InProgress(p, inst'[r])
          BY <4>5, <5>1 DEF InProgress
        <5> QED
          BY <3>12, <4>6, <5>1, <5>2 DEF AccessOK
      <4>7. CASE inst[r].squashed /\ inst' = inst /\ req' = [req EXCEPT ![r] = PacketReplied(v)]
        <5>1. inst'[r] = inst[r] /\ req'[r] = p
          BY <1>1, <3>11, <4>7
        <5>2. inst[r].at = "memory"
          <6>1. SentSoFar(q) = q.packets
            <7>1. CASE q.kind = "split"
              BY <1>4, <3>6, <3>13, <3>14, <7>1 DEF SentSoFar
            <7>2. CASE q.kind # "split"
              BY <1>4, <3>13, <7>2 DEF SentSoFar, Size
            <7> QED
              BY <7>1, <7>2
          <6>2. ~(SentSoFar(q) < q.packets)
            BY <3>13, <6>1
          <6>3. inst[r].at \notin {"blocked", "replay", "committed"}
            BY <3>2, <4>7, <6>2 DEF InProgress
          <6>4. inst[r].at \in Places
            BY <1>2 DEF InstRecs
          <6> QED
            BY <3>1, <3>3, <6>3, <6>4 DEF Places
        <5>3. InProgress(p, inst'[r])
          BY <4>5, <4>7, <5>1, <5>2 DEF InProgress
        <5> QED
          BY <3>1, <3>12, <4>6, <5>1, <5>3 DEF AccessOK
      <4> QED
        BY <4>2, <4>3, <4>4, <4>7
    <3>15. CASE "Complete" \notin v.flags
      <4>1. inst' = inst /\ req'[r] = p /\ owed' = owed /\ q.kind = "split"
        BY <1>1, <3>6, <3>7, <3>8, <3>11, <3>15
      <4>2. SentSoFar(p) = SentSoFar(q)
        BY <1>4, <3>5, <3>9, <3>13, <4>1 DEF SentSoFar
      <4>3. InProgress(p, inst[r])
        BY <3>2, <3>3, <3>5, <3>9, <3>15, <4>2 DEF InProgress, MemAccessRequired
      <4>4. Marked(p, r \in owed', waiting)
        BY <3>5, <3>6, <3>9, <3>10, <4>1 DEF Marked
      <4> QED
        BY <3>1, <3>12, <4>1, <4>3, <4>4 DEF AccessOK
    <3> QED
      BY <3>14, <3>15
  <2> QED
    BY <2>1, <2>2
<1>8. ASSUME NEW t \in Slots
      PROVE  AccessOK(req'[t], inst'[t], t \in owed', waiting)
  <2>1. CASE t = r
    BY <1>7, <2>1
  <2>2. CASE t # r
    <3>1. AccessOK(req[t], inst[t], t \in owed, waiting)
      BY DEF AInv
    <3>2. req'[t] = req[t] /\ inst'[t] = inst[t] /\ (t \in owed' <=> t \in owed)
      BY <1>6, <2>2
    <3> QED
      BY <3>1, <3>2 DEF AccessOK, Marked
  <2> QED
    BY <2>1, <2>2
<1>9. PortsOK'
  BY <1>1, <1>6, PortsKeep DEF AInv
<1> QED
  BY <1>5, <1>8, <1>9, SyncAccess

\* What does not touch the accesses.
LEMMA PushAgainAccess ==
  ASSUME AInv, (\E r \in Slots : PushAgain(r)) \/ UNCHANGED vars
  PROVE  AInv'
<1>1. /\ req' = req /\ inst' = inst /\ UNCHANGED portVars /\ owed' = owed /\ waiting' = waiting
  BY DEF PushAgain, vars, syncVars
<1>2. PortsOK'
  BY <1>1, PortsKeep DEF AInv
<1> QED
  BY <1>1, <1>2 DEF AInv

\* An access whose instruction is squashed has not been committed.
LEMMA SetSquashedAccess ==
  ASSUME IInv, AInv, NEW r \in Slots, SetSquashed(r)
  PROVE  AInv'
<1> DEFINE m == [inst[r] EXCEPT !.squashed = TRUE]
<1>1. /\ req' = req /\ inst' = [inst EXCEPT ![r] = m] /\ UNCHANGED portVars
      /\ owed' = owed /\ waiting' = waiting /\ inst[r].at \notin {"none", "committed"}
  BY DEF SetSquashed, Squashable, syncVars
<1>2. inst[r] \in InstRecs /\ DOMAIN inst = Slots
  BY SlotOf DEF IInv
<1>3. m.at = inst[r].at /\ m.load = inst[r].load /\ m.squashed = TRUE
  BY <1>2 DEF InstRecs
<1> HIDE DEF m
<1>4. inst'[r] = m /\ \A t \in Slots \ {r} : inst'[t] = inst[t]
  BY <1>1, <1>2
<1>5. Translated(req[r]) /\ InProgress(req[r], inst[r]) /\ Marked(req[r], r \in owed, waiting)
  BY <1>1, AccessOf
<1>6. InProgress(req[r], m)
  BY <1>1, <1>3, <1>5 DEF InProgress
<1>7. AccessOK(req'[r], inst'[r], r \in owed', waiting')
  BY <1>1, <1>3, <1>4, <1>5, <1>6 DEF AccessOK
<1>8. PortsOK'
  BY <1>1, <1>3, <1>4, PortsKeep DEF AInv
<1> QED
  BY <1>1, <1>4, <1>7, <1>8, OneAccess

-----------------------------------------------------------------------------
(* Accesses: the invariant *)

\* At the beginning nothing is accessed.
LEMMA InitAccess == Init => AInv
<1> SUFFICES ASSUME Init PROVE AInv
  OBVIOUS
<1>1. LoadPorts \in Nat
  BY LSQAssumption
<1>2. PortsOK
  BY <1>1 DEF Init, PortsOK, BlockedLoadsWoken, NoInst
<1>3. \A r \in Slots : AccessOK(req[r], inst[r], r \in owed, waiting)
  BY DEF Init, AccessOK, NoInst
<1> QED
  BY <1>2, <1>3 DEF AInv

\* Every step keeps what is known of the accesses.
LEMMA StepAccess == IInv /\ IInv' /\ AInv /\ [Next]_vars => AInv'
<1> SUFFICES ASSUME IInv, IInv', AInv, [Next]_vars PROVE AInv'
  OBVIOUS
<1>1. ASSUME NEW r \in Slots, NEW kind \in Kinds, NEW load \in BOOLEAN, PushRequest(r, kind, load)
      PROVE  AInv'
  BY <1>1, PushRequestAccess
<1>2. ASSUME NEW r \in Slots, PushStep(r) PROVE AInv'
  BY <1>2, SendFragmentAccess, SendAccess, QuietAccess, LeaveAccess DEF PushStep
<1>3. ASSUME NEW r \in Slots, NEW i \in {1, 2}, FinishWalk(r, i) \/ RecvTimingResp(r, i)
      PROVE  AInv'
  BY <1>3, FinishWalkAccess, RecvTimingRespAccess
<1>4. ASSUME NEW r \in Slots,
             WritebackEvent(r) \/ CommitStore(r) \/ WritebackStores(r) \/ FreeLSQEntry(r)
             \/ SetSquashed(r) \/ Squash(r)
      PROVE  AInv'
  BY <1>4, WritebackEventAccess, QuietAccess, SendAccess, LeaveAccess, SetSquashedAccess
<1>5. CASE RecvTimingSnoopReq \/ RecvReqRetry \/ Tick
  BY <1>5, SnoopAccess, WakeAccess
<1>6. CASE (\E r \in Slots : PushAgain(r)) \/ UNCHANGED vars
  BY <1>6, PushAgainAccess
<1> QED
  BY <1>1, <1>2, <1>3, <1>4, <1>5, <1>6 DEF Next

\* Accesses are as AInv says in every behaviour, for any number of entries and ports.
THEOREM AccessHolds == Spec => []AInv
  BY InitAccess, StepAccess, OwnershipHolds, PTL DEF Spec

\* No access is done by halves: one that the memory served is done only when its
\* fragments were translated and each packet before the first fault was answered.
THEOREM AccessesWhole == Spec => []WholeAccess
<1>1. IInv /\ AInv => WholeAccess
  <2> SUFFICES ASSUME IInv, AInv, NEW r \in Slots, inst[r].at = "done"
               PROVE  /\ req[r].numTranslated \in {0, Cardinality(Frags(req[r].kind))}
                      /\ flight[r] = {} /\ walks[r] = {}
                      /\ "Complete" \in req[r].flags => req[r].numReceived \in {0, req[r].packets}
    BY DEF WholeAccess
  <2>1. Translated(req[r]) /\ InProgress(req[r], inst[r]) /\ req[r] \in Reqs /\ req[r] # Gone
    BY AccessOf
  <2>2. /\ Counted(req[r], walks[r], flight[r], Events(r)) /\ Owned(req[r], inst[r], walks[r])
        /\ flight[r] \in SUBSET {1, 2} /\ InTranslation(req[r], walks[r], Called(call, r))
    BY <2>1, SlotOf DEF SlotOK
  <2>3. req[r].state # "Translation"
    BY <2>2 DEF Owned
  <2>4. walks[r] = {}
    BY <2>2, <2>3 DEF InTranslation
  <2>5. flight[r] = {}
    BY <2>1, <2>2, TwoFragments DEF Counted, InProgress
  <2>6. req[r].numTranslated \in {0, Cardinality(Frags(req[r].kind))}
    BY <2>1, <2>3, FragsSize DEF Translated
  <2> QED
    BY <2>1, <2>4, <2>5, <2>6 DEF InProgress
<1> QED
  BY <1>1, OwnershipHolds, AccessHolds, PTL

\* No load is blocked that neither the cache nor the next cycle will wake, for any
\* number of load ports (LSQ::tick, LSQ::recvReqRetry).
THEOREM BlockedAreWoken == Spec => []BlockedLoadsWoken
  BY AccessHolds, PTL DEF AInv, PortsOK

\* A TLBI sync is not answered while an access of a single packet that it is for is
\* still at work with its old translation.
THEOREM SyncWaitsForUnsplit == Spec => []SyncCoversUnsplit
<1> DEFINE OwedInSlots == owed \subseteq Slots
<1>1. AInv /\ OwedInSlots => SyncCoversUnsplit
  BY DEF AInv, AccessOK, Marked, SyncCoversUnsplit
<1>2. Init => OwedInSlots
  BY DEF Init
<1>3. OwedInSlots /\ [Next]_vars => OwedInSlots'
  <2> SUFFICES ASSUME owed \subseteq Slots, [Next]_vars PROVE owed' \subseteq Slots
    OBVIOUS
  <2>1. ASSUME NEW r \in Slots, PushStep(r) PROVE owed' \subseteq Slots
    BY <2>1 DEF PushStep, SendFragmentToTranslation, ReadFromCache, ReadForwarded, ReadPartly,
                Write, NoAccess, DeferMemInst, syncVars
  <2>2. ASSUME NEW r \in Slots, NEW i \in {1, 2}, FinishWalk(r, i) \/ RecvTimingResp(r, i)
        PROVE  owed' \subseteq Slots
    BY <2>2 DEF FinishWalk, RecvTimingResp, syncVars
  <2>3. ASSUME NEW r \in Slots,
               \/ \E kind \in Kinds, load \in BOOLEAN : PushRequest(r, kind, load)
               \/ PushAgain(r) \/ WritebackEvent(r) \/ CommitStore(r) \/ WritebackStores(r)
               \/ FreeLSQEntry(r) \/ SetSquashed(r) \/ Squash(r)
        PROVE  owed' \subseteq Slots
    BY <2>3 DEF PushRequest, PushAgain, WritebackEvent, CommitStore, WritebackStores,
                FreeLSQEntry, SetSquashed, Squash, syncVars
  <2>4. CASE RecvTimingSnoopReq \/ RecvReqRetry \/ Tick \/ UNCHANGED vars
    BY <2>4 DEF RecvTimingSnoopReq, RecvReqRetry, Tick, syncVars, vars
  <2> QED
    BY <2>1, <2>2, <2>3, <2>4 DEF Next
<1> HIDE DEF OwedInSlots
<1> QED
  BY <1>1, <1>2, <1>3, AccessHolds, PTL DEF Spec

-----------------------------------------------------------------------------
(* The queues of several threads, each an LSQUnit, under the sharing       *)
(* policies: for the partitioned and the threshold one, what rename and    *)
(* IEW ask before they insert is enough, for any number of threads and any *)
(* sizes the LSQ accepts.  For the dynamic one it is not (README).         *)

CONSTANTS Threads, Policy, LQEntries, SQEntries, SMTThreshold
VARIABLES loads, stores, sharePanic

Share == INSTANCE LSQShare WITH panic <- sharePanic

\* The questions look for equality: they are enough because no occupancy is ever
\* beyond its bound.
WithinShares ==
  /\ loads \in [Threads -> Nat] /\ stores \in [Threads -> Nat]
  /\ \A t \in Threads : loads[t] <= Share!MaxLQEntries /\ stores[t] <= Share!MaxSQEntries
  /\ sharePanic = "none"

\* The size of a thread's queue is a number.
LEMMA ShareIsNat ==
  ASSUME Share!ShareAssumption, NEW entries \in Nat
  PROVE  Share!MaxLSQAllocation(entries) \in Nat
<1>1. CASE Policy = "Partitioned"
  <2> DEFINE n == Cardinality(Threads)
  \* What the instance counts with is what the library proves about.
  <2>0. Share!Cardinality(Threads) = n /\ (Share!IsFiniteSet(Threads) <=> IsFiniteSet(Threads))
    BY DEF Share!Cardinality, Share!IsFiniteSet, Cardinality, IsFiniteSet
  <2>1. n \in Nat /\ n # 0
    BY <2>0, FS_CardinalityType, FS_EmptySet DEF Share!ShareAssumption
  <2>2. entries \div n \in Nat
    <3> HIDE DEF n
    <3> QED
      BY <2>1
  <2> QED
    BY <1>1, <2>0, <2>2 DEF Share!MaxLSQAllocation
<1>2. CASE Policy = "Threshold"
  BY <1>2 DEF Share!MaxLSQAllocation, Share!ShareAssumption
<1>3. CASE Policy = "Dynamic"
  BY <1>3 DEF Share!MaxLSQAllocation
<1> QED
  BY <1>1, <1>2, <1>3 DEF Share!ShareAssumption

\* The sizes the two queues of a thread have.
LEMMA SharesAreNat ==
  ASSUME Share!ShareAssumption
  PROVE  Share!MaxLQEntries \in Nat /\ Share!MaxSQEntries \in Nat
<1>1. LQEntries \in Nat /\ SQEntries \in Nat
  BY DEF Share!ShareAssumption
<1> QED
  BY <1>1, ShareIsNat DEF Share!MaxLQEntries, Share!MaxSQEntries

\* A step keeps every occupancy within its bound.
LEMMA NextWithinShares ==
  ASSUME Share!ShareAssumption, Policy # "Dynamic", WithinShares, [Share!Next]_(Share!vars)
  PROVE  WithinShares'
<1>0. Share!MaxLQEntries \in Nat /\ Share!MaxSQEntries \in Nat
  BY SharesAreNat
<1> USE <1>0
<1>1. ASSUME NEW t \in Threads, Share!InsertLoad(t) PROVE WithinShares'
  <2>1. loads[t] < Share!MaxLQEntries
    <3>1. loads[t] # Share!MaxLQEntries
      BY <1>1 DEF Share!InsertLoad, Share!LqFull
    <3>2. loads[t] \in Nat /\ loads[t] <= Share!MaxLQEntries
      BY DEF WithinShares
    <3> QED
      BY <3>1, <3>2
  <2>2. loads' = [loads EXCEPT ![t] = @ + 1] /\ UNCHANGED <<sharePanic, stores>>
    BY <1>1, <2>1 DEF Share!InsertLoad
  <2> QED
    BY <2>1, <2>2 DEF WithinShares
<1>2. ASSUME NEW t \in Threads, Share!InsertStore(t) PROVE WithinShares'
  <2>1. /\ stores[t] # Share!MaxSQEntries
        /\ stores' = [stores EXCEPT ![t] = @ + 1] /\ UNCHANGED <<sharePanic, loads>>
    BY <1>2 DEF Share!InsertStore, Share!SqFullReturns, Share!SqFull
  <2> QED
    BY <2>1 DEF WithinShares
<1>3. ASSUME NEW t \in Threads, Share!RemoveLoad(t) PROVE WithinShares'
  BY <1>3 DEF Share!RemoveLoad, WithinShares
<1>4. ASSUME NEW t \in Threads, Share!RemoveStore(t) PROVE WithinShares'
  BY <1>4 DEF Share!RemoveStore, WithinShares
<1>5. CASE UNCHANGED Share!vars
  BY <1>5 DEF Share!vars, WithinShares
<1> QED
  BY <1>1, <1>2, <1>3, <1>4, <1>5 DEF Share!Next

\* What lqFull(tid) lets pass finds room in the thread's queue, unless the policy is
\* dynamic (LSQ::lqFull, and the assertion of LSQUnit::insertLoad).
THEOREM SharesNeverOverflow ==
  ASSUME Share!ShareAssumption, Policy # "Dynamic"
  PROVE  Share!Spec => []Share!NoOverflow
<1>1. Share!Init => WithinShares
  BY SharesAreNat DEF Share!Init, WithinShares
<1>2. WithinShares /\ [Share!Next]_(Share!vars) => WithinShares'
  BY NextWithinShares
<1>3. WithinShares => Share!NoOverflow
  BY DEF WithinShares, Share!NoOverflow
<1> QED
  BY <1>1, <1>2, <1>3, PTL DEF Share!Spec
=============================================================================
