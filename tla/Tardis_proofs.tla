---------------------------- MODULE Tardis_proofs ---------------------------
(***************************************************************************)
(* Proofs about the protocol, in two parts.                                *)
(*                                                                         *)
(* Types and clocks: TypeInv is inductive, and clocks only move forward.   *)
(* First the steps of an L1 cache, then what the helpers of the directory  *)
(* return, then one lemma per group of actions of each of its ports, the   *)
(* step of the whole system, and the clocks.                               *)
(*                                                                         *)
(* Ownership of lines: OwnershipToken, OwnerRecorded, RepliesExpected,     *)
(* TimestampOrder and OnlyKnownFaults all follow from one inductive        *)
(* invariant, OwnInv: what the directory says of a line agrees with the    *)
(* copies of it, with the messages under way for it and with the           *)
(* transactions they belong to.  The proof goes line by line.  First, what *)
(* becomes of one line when a core or the directory does one of the things *)
(* they can do to it (Line...) and what the message buffers hold as sets.  *)
(* Then one lemma per group of actions (...Own) shows that each of them is *)
(* such a thing, for its line, and nothing at all for the others.  Last,   *)
(* the theorems.                                                           *)
(***************************************************************************)
EXTENDS TardisProperties, TLAPS, FiniteSetTheorems, SequenceTheorems

-----------------------------------------------------------------------------
(* Steps of an L1 cache.                                                   *)

\* The larger of two timestamps is a timestamp, and at least either.
LEMMA MaxType == \A i, j \in Nat : Max2(i, j) \in Nat /\ Max2(i, j) >= i /\ Max2(i, j) >= j
BY DEF Max2

\* The fields of an L1 entry have their types.
LEMMA EntryType ==
    ASSUME TypeOK, NEW c \in Cores, NEW x \in Lines
    PROVE  Entry(c, x) \in L1Entry
BY DEF TypeOK, L1TypeOK, Entry

\* Replacing one entry of one L1 by a typed entry keeps the caches typed.
LEMMA SetEntryType ==
    ASSUME TypeOK, NEW c \in Cores, NEW x \in Lines, NEW e \in L1Entry, SetEntry(c, x, e)
    PROVE  l1' \in [Cores -> [Lines -> L1Entry]]
BY DEF TypeOK, L1TypeOK, SetEntry

\* A barrier leaves both clocks natural numbers, no lower than before.
LEMMA BarrierType ==
    ASSUME TypeOK, NEW c \in Cores, Pending(c)
    PROVE  /\ BarrierLts(c) \in Nat /\ BarrierLts(c) >= lts[c]
           /\ BarrierSts(c) \in Nat /\ BarrierSts(c) >= sts[c]
<1>1. Head(mq[c]) \in CoreReq BY DEF TypeOK, L1TypeOK, Pending
<1>2. Head(mq[c]).bar \in BOOLEAN BY <1>1 DEF CoreReq
<1>3. lts[c] \in Nat /\ sts[c] \in Nat BY DEF TypeOK, L1TypeOK
<1> DEFINE m == Max2(lts[c], sts[c])
<1>4. m \in Nat /\ m >= lts[c] /\ m >= sts[c] BY <1>3, MaxType
<1>5. BarrierLts(c) \in {lts[c], m} /\ BarrierSts(c) \in {sts[c], m}
  BY <1>2 DEF BarrierLts, BarrierSts
<1>6. QED BY <1>3, <1>4, <1>5

\* The peek of mandatory_in leaves clocks no lower than before and a typed entry.
LEMMA PeekType ==
    ASSUME TypeOK, NEW c \in Cores, Pending(c)
    PROVE  /\ Head(mq[c]) \in CoreReq
           /\ Peek(c).a \in Lines /\ Peek(c).a = Head(mq[c]).a
           /\ Peek(c).lts \in Nat /\ Peek(c).lts >= lts[c]
           /\ Peek(c).sts \in Nat /\ Peek(c).sts >= sts[c]
           /\ Peek(c).e \in L1Entry
<1>1. Head(mq[c]) \in CoreReq BY DEF TypeOK, L1TypeOK, Pending
<1> DEFINE r == Head(mq[c])
           e == Entry(c, r.a)
<1>2. r.a \in Lines /\ r.bar \in BOOLEAN BY <1>1 DEF CoreReq
<1>3. e \in L1Entry BY <1>2, EntryType
<1>4. lts[c] \in Nat /\ sts[c] \in Nat BY DEF TypeOK, L1TypeOK
<1>5. /\ BarrierLts(c) \in Nat /\ BarrierLts(c) >= lts[c]
      /\ BarrierSts(c) \in Nat /\ BarrierSts(c) >= sts[c]
  BY BarrierType
<1>6. CountLoad(e) \in L1Entry
  <2>1. e.loads + 1 \in Nat /\ e.period \div 2 \in Nat BY <1>3 DEF L1Entry
  <2>2. Max2(1, e.period \div 2) \in Nat BY <2>1, MaxType
  <2>3. QED BY <1>3, <2>1, <2>2 DEF CountLoad, L1Entry
<1> DEFINE counted == r.op = "LD" /\ e.st # "I"
<1>7. /\ Peek(c).a = r.a /\ Peek(c).sts = BarrierSts(c)
      /\ Peek(c).lts = BarrierLts(c) + IF counted /\ LivelockTick(e) THEN 1 ELSE 0
      /\ Peek(c).e = IF counted THEN CountLoad(e) ELSE e
  BY Zenon DEF Peek
<1>8. Peek(c).lts \in Nat /\ Peek(c).lts >= lts[c] BY <1>4, <1>5, <1>7
<1>9. QED BY <1>1, <1>2, <1>3, <1>5, <1>6, <1>7, <1>8

\* An L1 transition that stores a typed entry and typed clocks, and takes at most
\* the head of its queue, keeps the types of the L1s.
LEMMA L1Step ==
    ASSUME TypeOK, NEW c \in Cores,
           NEW x \in Lines, NEW e \in L1Entry, SetEntry(c, x, e),
           NEW l \in Nat, NEW s \in Nat, SetClocks(c, l, s),
           mq' = mq \/ (Pending(c) /\ PopMandatory(c)),
           opsLeft' = opsLeft
    PROVE  L1TypeOK'
<1>1. l1' \in [Cores -> [Lines -> L1Entry]] BY SetEntryType
<1>2. lts' \in [Cores -> Nat] /\ sts' \in [Cores -> Nat]
  BY DEF TypeOK, L1TypeOK, SetClocks
<1>3. mq' \in [Cores -> Seq(CoreReq)]
  <2>1. CASE mq' = mq BY <2>1 DEF TypeOK, L1TypeOK
  <2>2. CASE Pending(c) /\ PopMandatory(c)
    <3>1. Tail(mq[c]) \in Seq(CoreReq) BY <2>2 DEF TypeOK, L1TypeOK, Pending
    <3>2. QED BY <2>2, <3>1 DEF TypeOK, L1TypeOK, PopMandatory
  <2>3. QED BY <2>1, <2>2
<1>4. QED BY <1>1, <1>2, <1>3 DEF TypeOK, L1TypeOK

\* Sending SH_REQ or EX_REQ keeps the request buffer typed.
LEMMA SendRequestType ==
    ASSUME TypeOK, NEW c \in Cores, NEW x \in Lines, NEW w \in Nat, NEW l \in Nat,
           NEW type \in {"SH_REQ", "EX_REQ"}, SendRequest(c, type, x, w, l)
    PROVE  reqQ' \in Seq(Request)
<1>1. [type |-> type, a |-> x, from |-> c, wts |-> w, lts |-> l] \in Request
  BY DEF Request
<1>2. QED BY <1>1 DEF TypeOK, BuffersTypeOK, SendRequest

\* What no action of an L1 touches.
LEMMA L1FrameType ==
    ASSUME TypeOK, L1Unchanged
    PROVE  /\ DirTypeOK' /\ MemTypeOK'
           /\ waitQ' \subseteq Request /\ current' \in [Lines -> Nat]
BY DEF TypeOK, L1Unchanged, BuffersTypeOK, DirTypeOK, MemTypeOK, HistoryTypeOK,
       dirVars, memVars

\* A store leaves a typed entry whose wts is no lower than the store timestamp.
LEMMA StoredType ==
    ASSUME NEW e \in L1Entry, NEW s \in Nat
    PROVE  Stored(e, s) \in L1Entry /\ Stored(e, s).wts >= s
<1> DEFINE t == Max2(s, e.rts + 1)
<1>1. e.rts + 1 \in Nat /\ e.val + 1 \in Nat BY DEF L1Entry
<1>2. t \in Nat /\ t >= s BY <1>1, MaxType
<1>3. Stored(e, s) = [e EXCEPT !.st = "E", !.wts = t, !.rts = t, !.val = e.val + 1]
  BY Zenon DEF Stored
<1>4. QED BY <1>1, <1>2, <1>3 DEF L1Entry, L1States

\* Every transition on a request of the core keeps the types.
LEMMA MandatoryType ==
    ASSUME TypeOK, NEW c \in Cores,
           \/ Miss(c) \/ LoadHit(c) \/ Renew(c) \/ Upgrade(c)
           \/ OwnerLoad(c) \/ OwnerStore(c) \/ MandatoryStall(c)
    PROVE  TypeOK'
<1>1. Pending(c) /\ L1Unchanged
  BY DEF Miss, LoadHit, Renew, Upgrade, OwnerLoad, OwnerStore, MandatoryStall, Mandatory
<1> DEFINE pk == Peek(c)
<1>2. /\ pk.a \in Lines /\ pk.lts \in Nat /\ pk.sts \in Nat
      /\ pk.e \in L1Entry
  BY <1>1, PeekType
<1>3. /\ pk.e.wts \in Nat /\ pk.e.rts \in Nat
      /\ [pk.e EXCEPT !.st = "S_EXP"] \in L1Entry
      /\ [pk.e EXCEPT !.st = "SE"] \in L1Entry
      /\ \A st \in {"IS", "IE"} : [NewEntry EXCEPT !.st = st] \in L1Entry
  BY <1>2, NumbersAssumption DEF L1Entry, L1States, NewEntry
<1>4. /\ Max2(pk.lts, pk.e.wts) \in Nat
      /\ Max2(Max2(pk.lts, pk.e.wts), pk.e.rts) \in Nat
  BY <1>2, <1>3, MaxType
<1>5. Stored(pk.e, pk.sts) \in L1Entry /\ Stored(pk.e, pk.sts).wts \in Nat
  BY <1>2, StoredType DEF L1Entry
<1>6. CASE Miss(c)
  <2>1. L1TypeOK' BY <1>1, <1>2, <1>3, <1>6, L1Step DEF Miss
  <2>2. reqQ' \in Seq(Request) BY <1>2, <1>6, SendRequestType DEF Miss
  <2>3. QED BY <1>1, <1>6, <2>1, <2>2, L1FrameType
            DEF Miss, TypeOK, BuffersTypeOK, HistoryTypeOK
<1>7. CASE LoadHit(c)
  <2>1. L1TypeOK' BY <1>1, <1>2, <1>4, <1>7, L1Step DEF LoadHit
  <2>2. QED BY <1>1, <1>7, <2>1, L1FrameType
            DEF LoadHit, TypeOK, BuffersTypeOK, HistoryTypeOK
<1>8. CASE Renew(c)
  <2>1. L1TypeOK' BY <1>1, <1>2, <1>3, <1>8, L1Step DEF Renew
  <2>2. reqQ' \in Seq(Request) BY <1>2, <1>3, <1>8, SendRequestType DEF Renew
  <2>3. QED BY <1>1, <1>8, <2>1, <2>2, L1FrameType
            DEF Renew, TypeOK, BuffersTypeOK, HistoryTypeOK
<1>9. CASE Upgrade(c)
  <2>1. L1TypeOK' BY <1>1, <1>2, <1>3, <1>9, L1Step DEF Upgrade
  <2>2. reqQ' \in Seq(Request) BY <1>2, <1>3, <1>9, SendRequestType DEF Upgrade
  <2>3. QED BY <1>1, <1>9, <2>1, <2>2, L1FrameType
            DEF Upgrade, TypeOK, BuffersTypeOK, HistoryTypeOK
<1>10. CASE OwnerLoad(c)
  <2> DEFINE l == Max2(pk.lts, pk.e.wts)
             e == [pk.e EXCEPT !.rts = Max2(l, pk.e.rts)]
  <2>1. l \in Nat /\ e \in L1Entry BY <1>2, <1>4 DEF L1Entry
  <2>2. SetEntry(c, pk.a, e) /\ SetClocks(c, l, pk.sts) BY <1>10 DEF OwnerLoad
  <2>3. L1TypeOK' BY <1>1, <1>2, <1>10, <2>1, <2>2, L1Step DEF OwnerLoad
  <2>4. QED BY <1>1, <1>10, <2>3, L1FrameType
            DEF OwnerLoad, TypeOK, BuffersTypeOK, HistoryTypeOK
<1>11. CASE OwnerStore(c)
  <2> DEFINE e == Stored(pk.e, pk.sts)
  <2>1. SetEntry(c, pk.a, e) /\ SetClocks(c, pk.lts, e.wts)
    BY <1>11 DEF OwnerStore
  <2>2. L1TypeOK' BY <1>1, <1>2, <1>5, <1>11, <2>1, L1Step DEF OwnerStore
  <2>3. written' \in [Lines -> Nat]
    BY <1>2, <1>11 DEF OwnerStore, TypeOK, HistoryTypeOK
  <2>4. QED BY <1>1, <1>11, <2>2, <2>3, L1FrameType
            DEF OwnerStore, TypeOK, BuffersTypeOK, HistoryTypeOK
<1>12. CASE MandatoryStall(c)
  <2>1. L1TypeOK' BY <1>1, <1>2, <1>12, L1Step DEF MandatoryStall
  <2>2. QED BY <1>1, <1>12, <2>1, L1FrameType
            DEF MandatoryStall, TypeOK, BuffersTypeOK, HistoryTypeOK
<1>13. QED BY <1>6, <1>7, <1>8, <1>9, <1>10, <1>11, <1>12

\* A core issuing a request keeps the types.
LEMMA CoreIssueType ==
    ASSUME TypeOK, NEW c \in Cores, CoreIssue(c)
    PROVE  TypeOK'
<1>1. PICK x \in Lines, op \in Ops, bar \in Barriers :
        mq' = [mq EXCEPT ![c] = Append(mq[c], [op |-> op, a |-> x, bar |-> bar])]
  BY DEF CoreIssue
<1>2. [op |-> op, a |-> x, bar |-> bar] \in CoreReq BY RequestsAssumption DEF CoreReq
<1>3. mq' \in [Cores -> Seq(CoreReq)] BY <1>1, <1>2 DEF TypeOK, L1TypeOK
<1>4. opsLeft' \in [Cores -> Nat] BY DEF CoreIssue, TypeOK, L1TypeOK
<1>5. QED
  BY <1>3, <1>4 DEF CoreIssue, TypeOK, L1TypeOK, BuffersTypeOK, DirTypeOK, MemTypeOK,
     HistoryTypeOK, chanVars, dirVars, memVars, ghostVars

\* A step that changes the fault only.
LEMMA FaultType ==
    ASSUME TypeOK, UNCHANGED <<l1Vars, chanVars, dirVars, memVars, ghostVars>>
    PROVE  TypeOK'
BY DEF TypeOK, L1TypeOK, BuffersTypeOK, DirTypeOK, MemTypeOK, HistoryTypeOK,
       l1Vars, chanVars, dirVars, memVars, ghostVars

\* The eviction of an L1 line keeps the types.
LEMMA EvictionType ==
    ASSUME TypeOK, NEW c \in Cores, NEW v \in Lines,
           EvictShared(c, v) \/ EvictOwned(c, v) \/ EvictStall(c, v)
    PROVE  TypeOK'
<1>1. Pending(c) /\ L1Unchanged /\ SetClocks(c, BarrierLts(c), BarrierSts(c))
  BY DEF EvictShared, EvictOwned, EvictStall, Victim
<1>2. BarrierLts(c) \in Nat /\ BarrierSts(c) \in Nat BY <1>1, BarrierType
<1>3. NewEntry \in L1Entry BY NumbersAssumption DEF NewEntry, L1Entry, L1States
<1>4. Entry(c, v) \in L1Entry BY EntryType
<1>5. CASE EvictShared(c, v)
  <2>1. L1TypeOK' BY <1>1, <1>2, <1>3, <1>5, L1Step DEF EvictShared
  <2>2. QED BY <1>1, <1>5, <2>1, L1FrameType
            DEF EvictShared, TypeOK, BuffersTypeOK, HistoryTypeOK
<1>6. CASE EvictOwned(c, v)
  <2> DEFINE e == Entry(c, v)
             m == [type |-> "PUT_REP", a |-> v, from |-> c,
                   wts |-> e.wts, rts |-> e.rts, val |-> e.val]
  <2>1. [e EXCEPT !.st = "EI"] \in L1Entry BY <1>4 DEF L1Entry, L1States
  <2>2. L1TypeOK' BY <1>1, <1>2, <1>6, <2>1, L1Step DEF EvictOwned
  <2>3. m \in FromCache BY <1>4 DEF L1Entry, FromCache
  <2>4. rspQ' = Append(rspQ, m) BY <1>6 DEF EvictOwned
  <2>5. rspQ' \in Seq(FromCache) BY <2>3, <2>4 DEF TypeOK, BuffersTypeOK
  <2>6. QED BY <1>1, <1>6, <2>2, <2>5, L1FrameType
            DEF EvictOwned, TypeOK, BuffersTypeOK, HistoryTypeOK
<1>7. CASE EvictStall(c, v)
  <2>1. L1TypeOK' BY <1>1, <1>2, <1>7 DEF EvictStall, TypeOK, L1TypeOK, SetClocks
  <2>2. QED BY <1>1, <1>7, <2>1, L1FrameType
            DEF EvictStall, TypeOK, BuffersTypeOK, HistoryTypeOK
<1>8. QED BY <1>5, <1>6, <1>7

\* An L1 receiving a reply keeps the types.
LEMMA ResponseType ==
    ASSUME TypeOK, NEW c \in Cores, NEW m \in rep,
           \/ ShRep(c, m) \/ RenewRep(c, m) \/ ExRepMiss(c, m)
           \/ ExRepUpgrade(c, m) \/ UpgRep(c, m) \/ AckRep(c, m)
    PROVE  TypeOK'
<1>1. m \in ToCache BY DEF TypeOK, BuffersTypeOK
<1>2. /\ m.a \in Lines /\ m.wts \in Nat /\ m.rts \in Nat /\ m.val \in Nat
  BY <1>1 DEF ToCache
<1> DEFINE e == Entry(c, m.a)
<1>3. e \in L1Entry BY <1>2, EntryType
<1>4. lts[c] \in Nat /\ sts[c] \in Nat BY DEF TypeOK, L1TypeOK
<1>5. rep' \subseteq ToCache /\ L1Unchanged
  BY DEF TypeOK, BuffersTypeOK, Response, ShRep, RenewRep, ExRepMiss, ExRepUpgrade,
         UpgRep, AckRep, CompleteStore
<1>6. Max2(lts[c], m.wts) \in Nat /\ Max2(lts[c], e.wts) \in Nat
  BY <1>2, <1>3, <1>4, MaxType DEF L1Entry
<1>7. CASE ShRep(c, m)
  <2>1. [e EXCEPT !.st = "S_LSD", !.val = m.val, !.wts = m.wts, !.rts = m.rts] \in L1Entry
    BY <1>2, <1>3 DEF L1Entry, L1States
  <2>2. L1TypeOK' BY <1>2, <1>4, <1>6, <1>7, <2>1, L1Step DEF ShRep
  <2>3. QED BY <1>5, <1>7, <2>2, L1FrameType
            DEF ShRep, TypeOK, BuffersTypeOK, HistoryTypeOK
<1>8. CASE RenewRep(c, m)
  <2>1. [e EXCEPT !.st = "S_LSD", !.rts = m.rts] \in L1Entry
    BY <1>2, <1>3 DEF L1Entry, L1States
  <2>2. L1TypeOK' BY <1>2, <1>4, <1>6, <1>8, <2>1, L1Step DEF RenewRep
  <2>3. QED BY <1>5, <1>8, <2>2, L1FrameType
            DEF RenewRep, TypeOK, BuffersTypeOK, HistoryTypeOK
<1>9. ASSUME NEW f \in L1Entry, CompleteStore(c, m, f) PROVE TypeOK'
  <2>1. Stored(f, sts[c]) \in L1Entry /\ Stored(f, sts[c]).wts \in Nat
    BY <1>4, StoredType DEF L1Entry
  <2>2. L1TypeOK' BY <1>2, <1>4, <1>9, <2>1, L1Step DEF CompleteStore
  <2>3. written' \in [Lines -> Nat]
    BY <1>2, <1>9 DEF CompleteStore, TypeOK, HistoryTypeOK
  <2>4. QED BY <1>5, <1>9, <2>2, <2>3, L1FrameType
            DEF CompleteStore, TypeOK, BuffersTypeOK, HistoryTypeOK
<1>10. CASE ExRepMiss(c, m)
  <2>1. [e EXCEPT !.val = m.val, !.wts = m.wts, !.rts = m.rts] \in L1Entry
    BY <1>2, <1>3 DEF L1Entry
  <2>2. QED BY <1>9, <1>10, <2>1 DEF ExRepMiss
<1>11. CASE ExRepUpgrade(c, m)
  <2>1. [e EXCEPT !.val = m.val] \in L1Entry BY <1>2, <1>3 DEF L1Entry
  <2>2. QED BY <1>9, <1>11, <2>1 DEF ExRepUpgrade
<1>12. CASE UpgRep(c, m)
  <2>1. [e EXCEPT !.rts = m.rts] \in L1Entry BY <1>2, <1>3 DEF L1Entry
  <2>2. QED BY <1>9, <1>12, <2>1 DEF UpgRep
<1>13. CASE AckRep(c, m)
  <2>1. NewEntry \in L1Entry BY NumbersAssumption DEF NewEntry, L1Entry, L1States
  <2>2. l1' \in [Cores -> [Lines -> L1Entry]] BY <1>2, <1>13, <2>1, SetEntryType DEF AckRep
  <2>3. QED BY <1>5, <1>13, <2>2, L1FrameType
            DEF AckRep, TypeOK, L1TypeOK, BuffersTypeOK, HistoryTypeOK
<1>14. QED BY <1>7, <1>8, <1>10, <1>11, <1>12, <1>13

\* An L1 receiving a recall keeps the types.
LEMMA ForwardType ==
    ASSUME TypeOK, NEW c \in Cores, NEW m \in fwd,
           FlushReq(c, m) \/ FlushReqEvicting(c, m)
    PROVE  TypeOK'
<1>1. m \in Forward BY DEF TypeOK, BuffersTypeOK
<1>2. m.a \in Lines /\ m.rts \in Nat BY <1>1 DEF Forward
<1>3. fwd' \subseteq Forward /\ L1Unchanged
  BY DEF TypeOK, BuffersTypeOK, FlushReq, FlushReqEvicting
<1> DEFINE e == Entry(c, m.a)
<1>4. e \in L1Entry BY <1>2, EntryType
<1>5. CASE FlushReq(c, m)
  <2> DEFINE r == Max2(Max2(e.rts, e.wts + Lease), m.rts)
             w == [type |-> "WB_REP", a |-> m.a, from |-> c,
                   wts |-> e.wts, rts |-> r, val |-> e.val]
  <2>1. e.rts \in Nat /\ e.wts + Lease \in Nat
    BY <1>4, NumbersAssumption DEF L1Entry
  <2>2. r \in Nat BY <1>2, <2>1, MaxType
  <2>3. Leased(e, r) \in L1Entry BY <1>4, <2>2 DEF Leased, L1Entry, L1States
  <2>4. SetEntry(c, m.a, Leased(e, r)) /\ rspQ' = Append(rspQ, w)
    BY <1>5 DEF FlushReq
  <2>5. l1' \in [Cores -> [Lines -> L1Entry]] BY <1>2, <2>3, <2>4, SetEntryType
  <2>6. w \in FromCache BY <1>2, <1>4, <2>2 DEF FromCache, L1Entry
  <2>7. rspQ' \in Seq(FromCache) BY <2>4, <2>6 DEF TypeOK, BuffersTypeOK
  <2>8. QED BY <1>3, <1>5, <2>5, <2>7, L1FrameType
            DEF FlushReq, TypeOK, L1TypeOK, BuffersTypeOK, HistoryTypeOK
<1>6. CASE FlushReqEvicting(c, m)
  <2>1. NewEntry \in L1Entry BY NumbersAssumption DEF NewEntry, L1Entry, L1States
  <2>2. l1' \in [Cores -> [Lines -> L1Entry]]
    BY <1>2, <1>6, <2>1, SetEntryType DEF FlushReqEvicting
  <2>3. QED BY <1>3, <1>6, <2>2, L1FrameType
            DEF FlushReqEvicting, TypeOK, L1TypeOK, BuffersTypeOK, HistoryTypeOK
<1>7. QED BY <1>5, <1>6

\* No transition of an L1 disturbs the types.
LEMMA L1Type ==
    ASSUME TypeOK, NEW c \in Cores, L1Next(c)
    PROVE  TypeOK'
<1>1. CASE CoreIssue(c) BY <1>1, CoreIssueType
<1>2. CASE \/ Miss(c) \/ LoadHit(c) \/ Renew(c) \/ Upgrade(c)
           \/ OwnerLoad(c) \/ OwnerStore(c) \/ MandatoryStall(c)
  BY <1>2, MandatoryType
<1>3. CASE MandatoryPanic(c) BY <1>3, FaultType DEF MandatoryPanic
<1>4. CASE \E v \in Lines : EvictShared(c, v) \/ EvictOwned(c, v) \/ EvictStall(c, v)
  BY <1>4, EvictionType
<1>5. CASE \E m \in rep : \/ ShRep(c, m) \/ RenewRep(c, m) \/ ExRepMiss(c, m)
                         \/ ExRepUpgrade(c, m) \/ UpgRep(c, m) \/ AckRep(c, m)
  BY <1>5, ResponseType
<1>6. CASE \E m \in fwd : FlushReq(c, m) \/ FlushReqEvicting(c, m)
  BY <1>6, ForwardType
<1>7. CASE \E m \in fwd : FlushReqPanic(c, m) BY <1>7, FaultType DEF FlushReqPanic
<1>8. QED BY <1>1, <1>2, <1>3, <1>4, <1>5, <1>6, <1>7 DEF L1Next

-----------------------------------------------------------------------------
(* The tree.                                                               *)

\* A path is a sequence of counters.
LEMMA PathType ==
    ASSUME NEW x \in Addrs
    PROVE  /\ Path[x] \in Seq(Counters)
           /\ \A i \in 1..Len(Path[x]) : Path[x][i] \in Counters
           /\ NoAddr \notin Counters /\ Counters \subseteq Addrs
           /\ Lines \subseteq Addrs /\ Lines \cap Counters = {}
BY TreeAssumption, SetsAssumption DEF Addrs

\* The parent of a line is a counter or NoAddr.
LEMMA ParentType ==
    ASSUME NEW x \in Addrs
    PROVE  Parent(x) \in Counters \cup {NoAddr}
<1>1. CASE Path[x] = <<>> BY <1>1 DEF Parent
<1>2. CASE Path[x] # <<>>
  <2>1. Head(Path[x]) \in Counters BY <1>2, PathType, HeadTailProperties
  <2>2. QED BY <1>2, <2>1 DEF Parent
<1>3. QED BY <1>1, <1>2

\* The first missing ancestor is a counter or NoAddr.
LEMMA FirstMissingType ==
    ASSUME NEW x \in Addrs, NEW here
    PROVE  FirstMissing(x, here) \in Counters \cup {NoAddr}
<1> DEFINE gone == {i \in 1..Len(Path[x]) : /\ Path[x][i] \notin here
                                           /\ \A j \in 1..(i - 1) : Path[x][j] \in here}
<1>1. CASE gone = {} BY <1>1 DEF FirstMissing
<1>2. CASE gone # {}
  <2>1. (CHOOSE i \in gone : TRUE) \in gone BY <1>2
  <2>2. (CHOOSE i \in gone : TRUE) \in 1..Len(Path[x]) BY <2>1
  <2> HIDE DEF gone
  <2>3. Path[x][CHOOSE i \in gone : TRUE] \in Counters BY <2>2, PathType
  <2>4. FirstMissing(x, here) = Path[x][CHOOSE i \in gone : TRUE]
    BY <1>2 DEF FirstMissing, gone
  <2>5. QED BY <2>3, <2>4
<1>3. QED BY <1>1, <1>2

\* A parent that is missing is the first one missing.
LEMMA MissingParent ==
    ASSUME NEW x \in Addrs, ParentMissing(x)
    PROVE  FirstMissing(x, InLLC) \in Counters
<1> DEFINE gone == {i \in 1..Len(Path[x]) : /\ Path[x][i] \notin InLLC
                                           /\ \A j \in 1..(i - 1) : Path[x][j] \in InLLC}
<1>1. Path[x] # <<>> /\ Head(Path[x]) \notin InLLC BY DEF ParentMissing, Parent
<1>2. Path[x] \in Seq(Counters) BY PathType
<1>3. 1 \in 1..Len(Path[x]) /\ Head(Path[x]) = Path[x][1] BY <1>1, <1>2
<1>4. 1 \in gone BY <1>1, <1>3
<1>5. (CHOOSE i \in gone : TRUE) \in gone BY <1>4
<1>6. (CHOOSE i \in gone : TRUE) \in 1..Len(Path[x]) BY <1>5
<1>7. gone # {} BY <1>4
<1> HIDE DEF gone
<1>8. Path[x][CHOOSE i \in gone : TRUE] \in Counters BY <1>6, PathType
<1>9. FirstMissing(x, InLLC) = Path[x][CHOOSE i \in gone : TRUE]
  BY <1>7 DEF FirstMissing, gone
<1>10. QED BY <1>8, <1>9

\* The ancestors of a line are counters.
LEMMA BranchType ==
    ASSUME NEW x \in Addrs, NEW here
    PROVE  Branch(x, here) \subseteq Counters
BY PathType DEF Branch

-----------------------------------------------------------------------------
(* What the directory's helpers do to the types.                           *)

\* Marking LLC entries dirty keeps them typed.
LEMMA DirtiedType ==
    ASSUME NEW L \in [Addrs -> LLCEntry], NEW ks
    PROVE  Dirtied(L, ks) \in [Addrs -> LLCEntry]
<1>1. \A x \in Addrs : L[x] \in LLCEntry /\ [L[x] EXCEPT !.st = "dirty"] \in LLCEntry
  BY DEF LLCEntry
<1>2. QED BY <1>1 DEF Dirtied

\* Marking cached counters modified keeps the directory typed.
LEMMA ModifiedType ==
    ASSUME NEW D \in [Addrs -> DirEntry], NEW ks \in SUBSET Counters
    PROVE  /\ Modified(D, ks) \in [Addrs -> DirEntry]
           /\ \A x \in Addrs : Modified(D, ks)[x].st = IF x \in ks THEN "C_M" ELSE D[x].st
<1>1. \A x \in Addrs : /\ D[x] \in DirEntry
                       /\ [D[x] EXCEPT !.st = "C_M"] \in DirEntry
                       /\ [D[x] EXCEPT !.st = "C_M"].st = "C_M"
  BY DEF DirEntry, DirStates
<1>2. QED BY <1>1 DEF Modified

\* Bumping a root register keeps the registers naturals.
LEMMA CountInRootType ==
    ASSUME TypeOK, NEW x, CountInRoot(x)
    PROVE  root' \in [0..2 -> Nat]
BY DEF TypeOK, DirTypeOK, CountInRoot

\* A reply with typed fields keeps the response network typed.
LEMMA ReplyType ==
    ASSUME TypeOK, NEW type \in {"SH_REP", "EX_REP", "RENEW_REP", "UPGR_REP", "ACK_REP"},
           NEW x \in Lines, NEW c \in Cores, NEW w \in Nat, NEW r \in Nat, NEW v \in Nat,
           Reply(type, x, c, w, r, v)
    PROVE  rep' \subseteq ToCache
<1>1. [type |-> type, a |-> x, to |-> c, wts |-> w, rts |-> r, val |-> v] \in ToCache
  BY DEF ToCache
<1>2. QED BY <1>1 DEF Reply, TypeOK, BuffersTypeOK

\* A recall of a data line keeps the forward network typed.
LEMMA AskOwnerType ==
    ASSUME TypeOK, NEW type \in {"FLUSH_REQ", "WB_REQ"}, NEW x \in Lines, NEW r \in Nat,
           AskOwner(type, x, r)
    PROVE  fwd' \subseteq Forward
<1>1. dir[x].owner \subseteq Cores BY DEF TypeOK, DirTypeOK, DirEntry, Addrs
<1>2. \A c \in Cores : [type |-> type, a |-> x, to |-> c, rts |-> r] \in Forward
  BY DEF Forward
<1>3. QED BY <1>1, <1>2 DEF AskOwner, TypeOK, BuffersTypeOK

\* Sending a request to memory keeps its queues typed.
LEMMA SendMemType ==
    ASSUME TypeOK, NEW type \in {"MEMORY_READ", "MEMORY_WB"}, NEW x \in Addrs,
           NEW v \in Nat, SendMem(type, x, v)
    PROVE  memPend' \in [Addrs -> Seq(MemOp)]
<1>1. [type |-> type, val |-> v] \in MemOp BY DEF MemOp
<1>2. memPend \in [Addrs -> Seq(MemOp)] BY DEF TypeOK, MemTypeOK
<1>3. Append(memPend[x], [type |-> type, val |-> v]) \in Seq(MemOp)
  BY <1>1, <1>2
<1>4. QED BY <1>2, <1>3 DEF SendMem

\* Reading a counter from memory keeps the memory queues typed.
LEMMA FetchType ==
    ASSUME TypeOK, NEW k \in Counters, Fetch(k)
    PROVE  memPend' \in [Addrs -> Seq(MemOp)]
<1>1. CASE auth[k].busy BY <1>1 DEF Fetch, TypeOK, MemTypeOK
<1>2. CASE ~auth[k].busy
  <2>1. SendMem("MEMORY_READ", k, 0) BY <1>2 DEF Fetch
  <2>2. k \in Addrs BY DEF Addrs
  <2>3. QED BY <2>1, <2>2, SendMemType
<1>3. QED BY <1>1, <1>2

\* Waiting victims put into free slots keep the AuthTBEs typed.
LEMMA AddWaitersType ==
    ASSUME NEW w \in [Slots -> Addrs \cup {NoAddr}], NEW from, NEW S,
           \A i \in S : from[i] \in Addrs \cup {NoAddr}
    PROVE  AddWaiters(w, from, S) \in [Slots -> Addrs \cup {NoAddr}]
<1> DEFINE used == Cardinality({s \in Slots : w[s] # NoAddr})
           Taker(s) == {i \in S : s = used + Cardinality({h \in S : h <= i})}
<1>1. AddWaiters(w, from, S) =
        [s \in Slots |-> IF w[s] # NoAddr THEN w[s]
                         ELSE IF Taker(s) = {} THEN NoAddr
                         ELSE from[CHOOSE i \in Taker(s) : TRUE]]
  BY Zenon DEF AddWaiters
<1>2. \A s : Taker(s) # {} => (CHOOSE i \in Taker(s) : TRUE) \in S
  <2>1. TAKE s
  <2>2. HAVE Taker(s) # {}
  <2>3. (CHOOSE i \in Taker(s) : TRUE) \in Taker(s) BY <2>2
  <2>4. Taker(s) \subseteq S OBVIOUS
  <2>5. QED BY <2>3, <2>4
<1> HIDE DEF Taker
<1>3. QED BY <1>1, <1>2

\* Asking for a missing counter keeps AuthTBEs and memory queues typed.
LEMMA FetchCounterIfNeededType ==
    ASSUME TypeOK, NEW k \in Counters, FetchCounterIfNeeded(k)
    PROVE  /\ memPend' \in [Addrs -> Seq(MemOp)]
           /\ auth' \in [Counters -> AuthTBE]
<1>1. memPend' \in [Addrs -> Seq(MemOp)] BY FetchType DEF FetchCounterIfNeeded
<1>2. [auth[k] EXCEPT !.busy = TRUE] \in AuthTBE BY DEF TypeOK, DirTypeOK, AuthTBE
<1>3. QED BY <1>1, <1>2 DEF FetchCounterIfNeeded, TypeOK, DirTypeOK

\* Parking a victim on its counter keeps AuthTBEs and memory queues typed.
LEMMA FetchCounterForEvictionType ==
    ASSUME TypeOK, NEW x \in Addrs, FirstMissing(x, InLLC) \in Counters,
           FetchCounterForEviction(x)
    PROVE  /\ memPend' \in [Addrs -> Seq(MemOp)]
           /\ auth' \in [Counters -> AuthTBE]
<1> DEFINE k == FirstMissing(x, InLLC)
<1>1. Fetch(k) /\ auth' = [auth EXCEPT ![k] = [busy |-> TRUE,
                                slot |-> AddWaiters(auth[k].slot, <<x>>, {1})]]
  BY Zenon DEF FetchCounterForEviction
<1>2. k \in Counters OBVIOUS
<1> HIDE DEF k
<1>3. memPend' \in [Addrs -> Seq(MemOp)] BY <1>1, <1>2, FetchType
<1>4. auth[k].slot \in [Slots -> Addrs \cup {NoAddr}]
  BY <1>2 DEF TypeOK, DirTypeOK, AuthTBE
<1>5. \A i \in {1} : <<x>>[i] \in Addrs \cup {NoAddr} OBVIOUS
<1>6. AddWaiters(auth[k].slot, <<x>>, {1}) \in [Slots -> Addrs \cup {NoAddr}]
  BY <1>4, <1>5, AddWaitersType
<1>7. [busy |-> TRUE, slot |-> AddWaiters(auth[k].slot, <<x>>, {1})] \in AuthTBE
  BY <1>6 DEF AuthTBE
<1>8. QED BY <1>1, <1>2, <1>3, <1>7 DEF TypeOK, DirTypeOK

\* Inserting into a sequence of requests gives a sequence of requests.
LEMMA InsertType ==
    ASSUME NEW T, NEW q \in Seq(T), NEW i \in 0..Len(q), NEW s \in Seq(T)
    PROVE  Insert(q, i, s) \in Seq(T)
<1>1. Len(q) \in Nat /\ i \in Int /\ i + 1 \in Int /\ i <= Len(q) OBVIOUS
<1>2. \A j \in 1..i : q[j] \in T BY <1>1
<1>3. \A j \in (i + 1)..Len(q) : q[j] \in T BY <1>1
<1>4. SubSeq(q, 1, i) \in Seq(T) BY <1>1, <1>2, SubSeqProperties
<1>5. SubSeq(q, i + 1, Len(q)) \in Seq(T) BY <1>1, <1>3, SubSeqProperties
<1>6. QED BY <1>4, <1>5, ConcatProperties DEF Insert

\* An order of finitely many requests is a sequence of requests.
LEMMA OrdersType ==
    ASSUME NEW T, NEW W \in SUBSET T, IsFiniteSet(W), NEW s \in Orders(W)
    PROVE  s \in Seq(T)
<1>1. Cardinality(W) \in Nat BY FS_CardinalityType
<1>2. s \in [1..Cardinality(W) -> W] BY DEF Orders
<1>3. s \in [1..Cardinality(W) -> T] BY <1>2
<1>4. QED BY <1>1, <1>3, SeqDef

\* Requests that change queues stay requests.
LEMMA WakeType ==
    ASSUME TypeOK, IsFiniteSet(waitQ), NEW S, Wake(S)
    PROVE  reqQ' \in Seq(Request) /\ waitQ' \subseteq Request /\ IsFiniteSet(waitQ')
<1> DEFINE woken == {r \in waitQ : r.a \in S}
<1>1. PICK i \in 0..Len(reqQ), s \in Orders(woken) :
        reqQ' = Insert(reqQ, i, s)
  BY DEF Wake
<1>2. woken \subseteq Request /\ waitQ \subseteq Request /\ reqQ \in Seq(Request)
  BY DEF TypeOK, BuffersTypeOK
<1>3. woken \in SUBSET waitQ OBVIOUS
<1>4. IsFiniteSet(woken) BY <1>3, FS_Subset
<1>5. waitQ' = waitQ \ woken BY DEF Wake
<1>6. waitQ' \in SUBSET waitQ BY <1>5
<1>7. IsFiniteSet(waitQ') BY <1>6, FS_Subset
<1> HIDE DEF woken
<1>8. s \in Seq(Request) BY <1>2, <1>4, OrdersType
<1>9. reqQ' \in Seq(Request) BY <1>1, <1>2, <1>8, InsertType
<1>10. QED BY <1>2, <1>6, <1>7, <1>9

-----------------------------------------------------------------------------
(* Steps of the directory.                                                 *)

\* A new entry e and TBE t for line x, with counters that become C_M besides.
LEMMA EntryStep ==
    ASSUME TypeInv, NEW D \in [Addrs -> DirEntry],
           \A y \in Addrs : D[y].st = dir[y].st \/ (y \in Counters /\ D[y].st = "C_M"),
           NEW x \in Addrs, NEW e \in DirEntry, dir' = [D EXCEPT ![x] = e],
           NEW t \in TBE, tbe' = [tbe EXCEPT ![x] = t],
           e.st \in Granting => t.req \in Cores,
           x \in Counters => e.st \in {"I", "C_M", "I_Evict_Auth", "I_Evicting"}
    PROVE  /\ dir' \in [Addrs -> DirEntry] /\ tbe' \in [Addrs -> TBE]
           /\ RequestorsKnown' /\ CounterStates'
<1>1. dir' \in [Addrs -> DirEntry] OBVIOUS
<1>2. tbe \in [Addrs -> TBE] BY DEF TypeInv, TypeOK, DirTypeOK
<1>3. tbe' \in [Addrs -> TBE] BY <1>2
<1>4. RequestorsKnown'
  <2>1. SUFFICES ASSUME NEW y \in Addrs, dir'[y].st \in Granting
                 PROVE  tbe'[y].req \in Cores
    BY DEF RequestorsKnown
  <2>2. CASE y = x BY <1>2, <2>1, <2>2
  <2>3. CASE y # x
    <3>1. dir'[y] = D[y] /\ tbe'[y] = tbe[y] BY <1>2, <2>3
    <3>2. dir[y].st \in Granting BY <2>1, <3>1 DEF Granting
    <3>3. QED BY <3>1, <3>2 DEF TypeInv, RequestorsKnown
  <2>4. QED BY <2>2, <2>3
<1>5. CounterStates'
  <2>1. SUFFICES ASSUME NEW q \in Counters
                 PROVE  dir'[q].st \in {"I", "C_M", "I_Evict_Auth", "I_Evicting"}
    BY DEF CounterStates
  <2>2. q \in Addrs BY DEF Addrs
  <2>3. dir[q].st \in {"I", "C_M", "I_Evict_Auth", "I_Evicting"}
    BY DEF TypeInv, CounterStates
  <2>4. dir'[q] = IF q = x THEN e ELSE D[q] BY <2>2
  <2>5. QED BY <2>2, <2>3, <2>4
<1>6. QED BY <1>1, <1>3, <1>4, <1>5

\* The same where no counter changes.
LEMMA LineStep ==
    ASSUME TypeInv,
           NEW x \in Addrs, NEW e \in DirEntry, SetDir(x, e),
           NEW t \in TBE, tbe' = [tbe EXCEPT ![x] = t],
           e.st \in Granting => t.req \in Cores,
           x \in Counters => e.st \in {"I", "C_M", "I_Evict_Auth", "I_Evicting"}
    PROVE  /\ dir' \in [Addrs -> DirEntry] /\ tbe' \in [Addrs -> TBE]
           /\ RequestorsKnown' /\ CounterStates'
<1>1. dir \in [Addrs -> DirEntry] BY DEF TypeInv, TypeOK, DirTypeOK
<1>2. dir' = [dir EXCEPT ![x] = e] BY DEF SetDir
<1>3. \A y \in Addrs : dir[y].st = dir[y].st \/ (y \in Counters /\ dir[y].st = "C_M") OBVIOUS
<1>4. QED BY <1>1, <1>2, <1>3, EntryStep

\* And where the TBE does not change either.
LEMMA StateStep ==
    ASSUME TypeInv,
           NEW x \in Addrs, NEW e \in DirEntry, SetDir(x, e), tbe' = tbe,
           e.st \in Granting => dir[x].st \in Granting,
           x \in Counters => e.st \in {"I", "C_M", "I_Evict_Auth", "I_Evicting"}
    PROVE  /\ dir' \in [Addrs -> DirEntry] /\ tbe' \in [Addrs -> TBE]
           /\ RequestorsKnown' /\ CounterStates'
<1>1. tbe \in [Addrs -> TBE] BY DEF TypeInv, TypeOK, DirTypeOK
<1>2. tbe[x] \in TBE BY <1>1
<1>3. tbe' = [tbe EXCEPT ![x] = tbe[x]] BY <1>1
<1>4. e.st \in Granting => tbe[x].req \in Cores BY DEF TypeInv, RequestorsKnown
<1>5. QED BY <1>2, <1>3, <1>4, LineStep

\* The head of the request queue is a request for a data line.
LEMMA ReqType ==
    ASSUME TypeInv, reqQ # <<>>
    PROVE  /\ Req \in Request /\ Tail(reqQ) \in Seq(Request)
           /\ Req.a \in Lines /\ Req.a \in Addrs /\ Req.a \notin Counters
           /\ Req.from \in Cores /\ Req.wts \in Nat /\ Req.lts \in Nat
           /\ dir[Req.a] \in DirEntry /\ llc[Req.a] \in LLCEntry
           /\ Reserved \in DirEntry /\ Reserved.st = dir[Req.a].st
           /\ Reserved.owner = dir[Req.a].owner
<1>1. reqQ \in Seq(Request) BY DEF TypeInv, TypeOK, BuffersTypeOK
<1>2. Req \in Request /\ Tail(reqQ) \in Seq(Request)
  BY <1>1, HeadTailProperties DEF Req
<1>3. /\ Req.a \in Lines /\ Req.from \in Cores /\ Req.wts \in Nat /\ Req.lts \in Nat
  BY <1>2 DEF Request
<1>4. Req.a \in Addrs /\ Req.a \notin Counters BY <1>3, PathType DEF Addrs
<1> DEFINE e == dir[Req.a]
<1>5. e \in DirEntry /\ llc[Req.a] \in LLCEntry BY <1>4 DEF TypeInv, TypeOK, DirTypeOK
<1>6. e.wts + Lease \in Nat /\ Req.lts + Lease \in Nat /\ e.rts \in Nat
  BY <1>3, <1>5, NumbersAssumption DEF DirEntry
<1> DEFINE r == Max2(e.rts, Max2(e.wts + Lease, Req.lts + Lease))
<1>7. r \in Nat BY <1>6, MaxType
<1> HIDE DEF r
<1>8. Reserved \in {e, [e EXCEPT !.rts = r]} BY Zenon DEF Reserved, r
<1>9. [e EXCEPT !.rts = r] \in DirEntry /\ [e EXCEPT !.rts = r].st = e.st
      /\ [e EXCEPT !.rts = r].owner = e.owner
  BY <1>5, <1>7 DEF DirEntry
<1>10. QED BY <1>2, <1>3, <1>4, <1>5, <1>8, <1>9

\* The entry of a recalled line is a directory entry in the state named.
LEMMA RecallType ==
    ASSUME NEW e \in DirEntry, NEW st \in DirStates
    PROVE  Recall(e, st) \in DirEntry /\ Recall(e, st).st = st
BY DEF Recall, DirEntry

\* What no action of the request port changes.
LEMMA RequestFrame ==
    ASSUME TypeInv, DirUnchanged, UNCHANGED <<rspQ, llc, mts, root, memQ, current>>,
           reqQ' \in Seq(Request), waitQ' \subseteq Request, IsFiniteSet(waitQ'),
           fwd' \subseteq Forward, rep' \subseteq ToCache,
           memPend' \in [Addrs -> Seq(MemOp)], auth' \in [Counters -> AuthTBE],
           dir' \in [Addrs -> DirEntry], tbe' \in [Addrs -> TBE],
           RequestorsKnown', CounterStates'
    PROVE  TypeInv'
BY DEF TypeInv, TypeOK, L1TypeOK, BuffersTypeOK, DirTypeOK, MemTypeOK, HistoryTypeOK,
       DirUnchanged, l1Vars

\* Each variable of the directory side that a step leaves alone keeps its type.
LEMMA Unchanged ==
    ASSUME TypeInv
    PROVE  /\ reqQ' = reqQ => reqQ' \in Seq(Request)
           /\ waitQ' = waitQ => waitQ' \subseteq Request /\ IsFiniteSet(waitQ')
           /\ rspQ' = rspQ => rspQ' \in Seq(FromCache)
           /\ fwd' = fwd => fwd' \subseteq Forward
           /\ rep' = rep => rep' \subseteq ToCache
           /\ llc' = llc => llc' \in [Addrs -> LLCEntry]
           /\ auth' = auth => auth' \in [Counters -> AuthTBE]
           /\ mts' = mts => mts' \in Nat
           /\ root' = root => root' \in [0..2 -> Nat]
           /\ memPend' = memPend => memPend' \in [Addrs -> Seq(MemOp)]
           /\ memQ' = memQ => memQ' \in Seq(MemMsg)
           /\ current' = current => current' \in [Lines -> Nat]
BY DEF TypeInv, TypeOK, BuffersTypeOK, DirTypeOK, MemTypeOK, HistoryTypeOK

\* A request that misses the LLC keeps TypeInv.
LEMMA FetchFromMemoryType == TypeInv /\ FetchFromMemory => TypeInv'
<1> SUFFICES ASSUME TypeInv, FetchFromMemory PROVE TypeInv' OBVIOUS
<1>1. reqQ # <<>> BY DEF FetchFromMemory, AtRequest
<1> DEFINE st == IF Req.type = "SH_REQ" THEN "IS" ELSE IF dir[Req.a].st = "I" THEN "IE" ELSE "SE"
           e == [Reserved EXCEPT !.st = st]
           t == IF Req.type = "SH_REQ"
                THEN [req |-> Req.from, wts |-> Req.wts, lts |-> Req.lts, val |-> 0]
                ELSE [NoTBE EXCEPT !.req = Req.from]
<1>2. e \in DirEntry BY <1>1, ReqType DEF DirEntry, DirStates, Granting
<1>3. t \in TBE /\ t.req \in Cores BY <1>1, ReqType DEF TBE, NoTBE
<1>4. SetDir(Req.a, e) /\ tbe' = [tbe EXCEPT ![Req.a] = t] BY DEF FetchFromMemory
<1>5. dir' \in [Addrs -> DirEntry] /\ tbe' \in [Addrs -> TBE] /\ RequestorsKnown' /\ CounterStates'
  <2> HIDE DEF e, t
  <2>1. QED BY <1>1, <1>2, <1>3, <1>4, ReqType, LineStep
<1>6. memPend' \in [Addrs -> Seq(MemOp)]
  BY <1>1, ReqType, SendMemType DEF FetchFromMemory, TypeInv
<1>7. reqQ' \in Seq(Request) /\ waitQ' = waitQ
  BY <1>1, ReqType DEF FetchFromMemory, PopRequest
<1>8. QED BY <1>5, <1>6, <1>7, RequestFrame, Unchanged DEF FetchFromMemory

\* The memory timestamp is a natural number.
LEMMA MtsType == TypeInv => mts \in Nat
BY DEF TypeInv, TypeOK, DirTypeOK

\* SH_REQ that hits the LLC keeps TypeInv.
LEMMA HitSharedType == TypeInv /\ HitShared => TypeInv'
<1> SUFFICES ASSUME TypeInv, HitShared PROVE TypeInv' OBVIOUS
<1>1. reqQ # <<>> /\ dir[Req.a].st \in {"I", "S"} BY DEF HitShared, AtRequest
<1>2. mts \in Nat /\ llc[Req.a].val \in Nat BY <1>1, ReqType, MtsType DEF LLCEntry
<1> DEFINE e == [Reserved EXCEPT !.st = "S", !.wts = mts, !.rts = mts]
<1>3. e \in DirEntry /\ e.st = "S" BY <1>1, <1>2, ReqType DEF DirEntry, DirStates
<1>4. SetDir(Req.a, e) /\ tbe' = tbe BY DEF HitShared
<1>5. dir' \in [Addrs -> DirEntry] /\ tbe' \in [Addrs -> TBE] /\ RequestorsKnown' /\ CounterStates'
  <2> HIDE DEF e
  <2>1. e.st \notin Granting BY <1>3 DEF Granting
  <2>2. QED BY <1>1, <1>3, <1>4, <2>1, ReqType, StateStep
<1>6. rep' \subseteq ToCache
  <2>1. CASE Renews(Req.wts) BY <1>1, <1>2, <2>1, ReqType, ReplyType DEF HitShared, TypeInv
  <2>2. CASE ~Renews(Req.wts) BY <1>1, <1>2, <2>2, ReqType, ReplyType DEF HitShared, TypeInv
  <2>3. QED BY <2>1, <2>2
<1>7. reqQ' \in Seq(Request) /\ waitQ' = waitQ
  BY <1>1, ReqType DEF HitShared, PopRequest
<1>8. QED BY <1>5, <1>6, <1>7, RequestFrame, Unchanged DEF HitShared, memVars

\* EX_REQ that hits the LLC keeps TypeInv.
LEMMA HitExclusiveType == TypeInv /\ HitExclusive => TypeInv'
<1> SUFFICES ASSUME TypeInv, HitExclusive PROVE TypeInv' OBVIOUS
<1>1. reqQ # <<>> BY DEF HitExclusive, AtRequest
<1>2. mts \in Nat /\ llc[Req.a].val \in Nat BY <1>1, ReqType, MtsType DEF LLCEntry
<1> DEFINE e == [st |-> "E", wts |-> mts, rts |-> mts,
                 owner |-> dir[Req.a].owner \cup {Req.from}]
<1>3. e \in DirEntry /\ e.st = "E" BY <1>1, <1>2, ReqType DEF DirEntry, DirStates
<1>4. SetDir(Req.a, e) /\ tbe' = tbe BY DEF HitExclusive
<1>5. dir' \in [Addrs -> DirEntry] /\ tbe' \in [Addrs -> TBE] /\ RequestorsKnown' /\ CounterStates'
  <2> HIDE DEF e
  <2>1. e.st \notin Granting BY <1>3 DEF Granting
  <2>2. QED BY <1>1, <1>3, <1>4, <2>1, ReqType, StateStep
<1>6. rep' \subseteq ToCache
  BY <1>1, <1>2, ReqType, ReplyType DEF HitExclusive, TypeInv
<1>7. reqQ' \in Seq(Request) /\ waitQ' = waitQ
  BY <1>1, ReqType DEF HitExclusive, PopRequest
<1>8. QED BY <1>5, <1>6, <1>7, RequestFrame, Unchanged DEF HitExclusive, memVars

\* An upgrade without data keeps TypeInv.
LEMMA UpgradeOwnerType == TypeInv /\ UpgradeOwner => TypeInv'
<1> SUFFICES ASSUME TypeInv, UpgradeOwner PROVE TypeInv' OBVIOUS
<1>1. reqQ # <<>> BY DEF UpgradeOwner, AtRequest
<1> DEFINE e == [dir[Req.a] EXCEPT !.st = "E", !.owner = dir[Req.a].owner \cup {Req.from}]
<1>2. e \in DirEntry /\ e.st = "E" BY <1>1, ReqType DEF DirEntry, DirStates
<1>3. dir[Req.a].rts \in Nat BY <1>1, ReqType DEF DirEntry
<1>4. SetDir(Req.a, e) /\ tbe' = tbe BY DEF UpgradeOwner
<1>5. dir' \in [Addrs -> DirEntry] /\ tbe' \in [Addrs -> TBE] /\ RequestorsKnown' /\ CounterStates'
  <2> HIDE DEF e
  <2>1. e.st \notin Granting BY <1>2 DEF Granting
  <2>2. QED BY <1>1, <1>2, <1>4, <2>1, ReqType, StateStep
<1>6. rep' \subseteq ToCache
  BY <1>1, <1>3, ReqType, ReplyType DEF UpgradeOwner, TypeInv
<1>7. reqQ' \in Seq(Request) /\ waitQ' = waitQ
  BY <1>1, ReqType DEF UpgradeOwner, PopRequest
<1>8. QED BY <1>5, <1>6, <1>7, RequestFrame, Unchanged DEF UpgradeOwner, memVars

\* A request that recalls the line from its owner keeps TypeInv.
LEMMA AskingType == TypeInv /\ (WritebackOwner \/ FlushOwner) => TypeInv'
<1> SUFFICES ASSUME TypeInv, WritebackOwner \/ FlushOwner PROVE TypeInv' OBVIOUS
<1>1. reqQ # <<>> BY DEF WritebackOwner, FlushOwner, AtRequest
<1> DEFINE t == [NoTBE EXCEPT !.req = Req.from]
<1>2. t \in TBE /\ t.req \in Cores BY <1>1, ReqType DEF TBE, NoTBE
<1>3. tbe' = [tbe EXCEPT ![Req.a] = t] BY DEF WritebackOwner, FlushOwner
<1>4. ASSUME NEW e \in DirEntry, SetDir(Req.a, e)
      PROVE  dir' \in [Addrs -> DirEntry] /\ tbe' \in [Addrs -> TBE] /\ RequestorsKnown' /\ CounterStates'
  <2> HIDE DEF t
  <2>1. QED BY <1>1, <1>2, <1>3, <1>4, ReqType, LineStep
<1>5. reqQ' \in Seq(Request) /\ waitQ' = waitQ
  BY <1>1, ReqType DEF WritebackOwner, FlushOwner, PopRequest
<1>6. CASE WritebackOwner
  <2>1. Recall(Reserved, "ES") \in DirEntry
    BY <1>1, ReqType, RecallType DEF DirStates, Granting
  <2>2. Req.lts + Lease \in Nat BY <1>1, ReqType, NumbersAssumption
  <2>3. fwd' \subseteq Forward
    BY <1>1, <1>6, <2>2, ReqType, AskOwnerType DEF WritebackOwner, TypeInv
  <2>4. QED BY <1>4, <1>5, <1>6, <2>1, <2>3, RequestFrame, Unchanged
            DEF WritebackOwner, memVars
<1>7. CASE FlushOwner
  <2>1. Recall(dir[Req.a], "EE") \in DirEntry
    BY <1>1, ReqType, RecallType DEF DirStates, Granting
  <2>2. fwd' \subseteq Forward
    BY <1>1, <1>7, ReqType, AskOwnerType DEF FlushOwner, TypeInv
  <2>3. QED BY <1>4, <1>5, <1>7, <2>1, <2>2, RequestFrame, Unchanged
            DEF FlushOwner, memVars
<1>8. QED BY <1>6, <1>7

\* A request put aside for its counter keeps TypeInv.
LEMMA AuthMissType == TypeInv /\ (AuthMiss \/ AuthWait) => TypeInv'
<1> SUFFICES ASSUME TypeInv, AuthMiss \/ AuthWait PROVE TypeInv' OBVIOUS
<1>1. reqQ # <<>> /\ tbe' = tbe BY DEF AuthMiss, AuthWait, AtRequest
<1>2. reqQ' \in Seq(Request) /\ waitQ' \subseteq Request /\ IsFiniteSet(waitQ')
  <2>1. waitQ \subseteq Request /\ IsFiniteSet(waitQ) BY DEF TypeInv, TypeOK, BuffersTypeOK
  <2>2. waitQ' = waitQ \cup {Req} /\ reqQ' = Tail(reqQ) BY DEF AuthMiss, AuthWait
  <2>3. IsFiniteSet(waitQ') BY <2>1, <2>2, FS_AddElement
  <2>4. QED BY <1>1, <2>1, <2>2, <2>3, ReqType
<1>3. CASE AuthMiss
  <2> DEFINE e == [Reserved EXCEPT !.st = FetchState(dir[Req.a].st)]
  <2>1. FetchState(dir[Req.a].st) \in FetchAuth
    BY <1>3 DEF AuthMiss, AtRequest, FetchState, FetchAuth
  <2>2. e \in DirEntry /\ e.st \notin Granting
    BY <1>1, <2>1, ReqType DEF DirEntry, DirStates, FetchAuth, Granting
  <2>3. SetDir(Req.a, e) BY <1>3 DEF AuthMiss
  <2>4. dir' \in [Addrs -> DirEntry] /\ tbe' \in [Addrs -> TBE] /\ RequestorsKnown' /\ CounterStates'
    <3> HIDE DEF e
    <3>1. QED BY <1>1, <2>2, <2>3, ReqType, StateStep
  <2>5. Parent(Req.a) \in Counters
    <3>1. ParentMissing(Req.a) BY <1>3 DEF AuthMiss, AtRequest, ReqEvent
    <3>2. QED BY <1>1, <3>1, ReqType, ParentType DEF ParentMissing
  <2>6. memPend' \in [Addrs -> Seq(MemOp)] /\ auth' \in [Counters -> AuthTBE]
    BY <1>3, <2>5, FetchCounterIfNeededType DEF AuthMiss, TypeInv
  <2>7. QED BY <1>2, <1>3, <2>4, <2>6, RequestFrame, Unchanged DEF AuthMiss
<1>4. CASE AuthWait
  <2>1. SetDir(Req.a, Reserved) BY <1>4 DEF AuthWait
  <2>2. dir' \in [Addrs -> DirEntry] /\ tbe' \in [Addrs -> TBE] /\ RequestorsKnown' /\ CounterStates'
    BY <1>1, <2>1, ReqType, StateStep
  <2>3. QED BY <1>2, <1>4, <2>2, RequestFrame, Unchanged DEF AuthWait, memVars
<1>5. QED BY <1>3, <1>4

\* Recycling keeps the request queue typed.
LEMMA RecycleType ==
    ASSUME TypeInv, reqQ # <<>>, Recycle
    PROVE  reqQ' \in Seq(Request)
<1>1. PICK i \in 0..(Len(reqQ) - 1) : reqQ' = Insert(Tail(reqQ), i, <<Req>>) BY DEF Recycle
<1>2. reqQ \in Seq(Request) BY DEF TypeInv, TypeOK, BuffersTypeOK
<1>3. Tail(reqQ) \in Seq(Request) /\ Len(Tail(reqQ)) = Len(reqQ) - 1
  BY <1>2, HeadTailProperties
<1>4. <<Req>> \in Seq(Request) BY ReqType
<1>5. QED BY <1>1, <1>3, <1>4, InsertType

\* The state a *_Fetch_Auth line returns to grants nothing.
LEMMA BaseStateType ==
    ASSUME NEW st \in FetchAuth
    PROVE  BaseState(st) \in DirStates /\ BaseState(st) \notin Granting
BY DEF FetchAuth, BaseState, DirStates, Granting

\* A request that bounces keeps TypeInv.
LEMMA BounceType == TypeInv /\ Bounce => TypeInv'
<1> SUFFICES ASSUME TypeInv, Bounce PROVE TypeInv' OBVIOUS
<1>1. reqQ # <<>> /\ dir[Req.a].st \in FetchAuth BY DEF Bounce, AtRequest
<1> DEFINE e == [Reserved EXCEPT !.st = BaseState(dir[Req.a].st)]
<1>2. e \in DirEntry /\ e.st \notin Granting BY <1>1, ReqType, BaseStateType DEF DirEntry
<1>3. SetDir(Req.a, e) /\ tbe' = tbe BY DEF Bounce
<1>4. dir' \in [Addrs -> DirEntry] /\ tbe' \in [Addrs -> TBE] /\ RequestorsKnown' /\ CounterStates'
  <2> HIDE DEF e
  <2>1. QED BY <1>1, <1>2, <1>3, ReqType, StateStep
<1>5. reqQ' \in Seq(Request) BY <1>1, RecycleType DEF Bounce
<1>6. QED BY <1>4, <1>5, RequestFrame, Unchanged DEF Bounce, memVars

\* A stalled request, whose peek has reserved a lease, keeps TypeInv.
LEMMA RequestStallType == TypeInv /\ RequestStall => TypeInv'
<1> SUFFICES ASSUME TypeInv, RequestStall PROVE TypeInv' OBVIOUS
<1>1. reqQ # <<>> BY DEF RequestStall, AtRequest
<1>2. SetDir(Req.a, Reserved) /\ tbe' = tbe BY DEF RequestStall
<1>3. dir' \in [Addrs -> DirEntry] /\ tbe' \in [Addrs -> TBE] /\ RequestorsKnown' /\ CounterStates'
  BY <1>1, <1>2, ReqType, StateStep
<1>4. QED BY <1>3, RequestFrame, Unchanged DEF RequestStall, memVars, chanVars

\* A step that changes nothing but the fault.
LEMMA FaultInv ==
    ASSUME TypeInv, UNCHANGED <<l1Vars, chanVars, dirVars, memVars, ghostVars>>
    PROVE  TypeInv'
<1>1. TypeOK' BY FaultType DEF TypeInv
<1>2. QED BY <1>1 DEF TypeInv, RequestorsKnown, CounterStates, chanVars, dirVars

\* No transition on a request disturbs TypeInv.
LEMMA RequestPortType == TypeInv /\ RequestPort => TypeInv'
BY FetchFromMemoryType, HitSharedType, HitExclusiveType, UpgradeOwnerType, AskingType,
   AuthMissType, BounceType, RequestStallType, FaultInv DEF RequestPort, RequestPanic

\* What no action of the directory changes.
LEMMA DirFrame ==
    ASSUME TypeInv, DirUnchanged,
           reqQ' \in Seq(Request), waitQ' \subseteq Request, IsFiniteSet(waitQ'),
           rspQ' \in Seq(FromCache), fwd' \subseteq Forward, rep' \subseteq ToCache,
           dir' \in [Addrs -> DirEntry], tbe' \in [Addrs -> TBE],
           llc' \in [Addrs -> LLCEntry], auth' \in [Counters -> AuthTBE],
           mts' \in Nat, root' \in [0..2 -> Nat],
           memPend' \in [Addrs -> Seq(MemOp)], memQ' \in Seq(MemMsg),
           current' \in [Lines -> Nat], RequestorsKnown', CounterStates'
    PROVE  TypeInv'
BY DEF TypeInv, TypeOK, L1TypeOK, BuffersTypeOK, DirTypeOK, MemTypeOK, HistoryTypeOK,
       DirUnchanged, l1Vars

\* The head of the response queue is a write back of a data line by a core.
LEMMA RspType ==
    ASSUME TypeInv, rspQ # <<>>
    PROVE  /\ Tail(rspQ) \in Seq(FromCache)
           /\ Rsp.a \in Lines /\ Rsp.a \in Addrs /\ Rsp.a \notin Counters
           /\ Rsp.from \in Cores /\ Rsp.wts \in Nat /\ Rsp.rts \in Nat /\ Rsp.val \in Nat
           /\ dir[Rsp.a] \in DirEntry /\ tbe[Rsp.a] \in TBE
<1>1. rspQ \in Seq(FromCache) BY DEF TypeInv, TypeOK, BuffersTypeOK
<1>2. Rsp \in FromCache /\ Tail(rspQ) \in Seq(FromCache)
  BY <1>1, HeadTailProperties DEF Rsp
<1>3. /\ Rsp.a \in Lines /\ Rsp.from \in Cores
      /\ Rsp.wts \in Nat /\ Rsp.rts \in Nat /\ Rsp.val \in Nat
  BY <1>2 DEF FromCache
<1>4. Rsp.a \in Addrs /\ Rsp.a \notin Counters BY <1>3, PathType DEF Addrs
<1>5. dir[Rsp.a] \in DirEntry /\ tbe[Rsp.a] \in TBE
  BY <1>4 DEF TypeInv, TypeOK, DirTypeOK
<1>6. QED BY <1>2, <1>3, <1>4, <1>5

\* What every response does besides its transition.
LEMMA ResponseStep ==
    ASSUME TypeInv, rspQ # <<>>, AdvanceMts
    PROVE  /\ mts' \in Nat
           /\ StoreInLLC => llc' \in [Addrs -> LLCEntry]
           /\ PopResponse => rspQ' \in Seq(FromCache) /\ current' \in [Lines -> Nat]
<1>1. mts' \in Nat BY RspType, MtsType, MaxType DEF AdvanceMts
<1>2. ASSUME StoreInLLC PROVE llc' \in [Addrs -> LLCEntry]
  <2>1. [st |-> "dirty", val |-> Rsp.val] \in LLCEntry BY RspType DEF LLCEntry
  <2>2. QED BY <1>2, <2>1 DEF StoreInLLC, TypeInv, TypeOK, DirTypeOK
<1>3. ASSUME PopResponse PROVE rspQ' \in Seq(FromCache) /\ current' \in [Lines -> Nat]
  BY <1>3, RspType DEF PopResponse, TypeInv, TypeOK, HistoryTypeOK
<1>4. QED BY <1>1, <1>2, <1>3

\* A line put back by its owner keeps TypeInv.
LEMMA TakeBackType == TypeInv /\ TakeBack => TypeInv'
<1> SUFFICES ASSUME TypeInv, TakeBack PROVE TypeInv' OBVIOUS
<1>1. rspQ # <<>> BY DEF TakeBack, AtResponse
<1>2. AdvanceMts /\ StoreInLLC /\ PopResponse BY DEF TakeBack
<1> DEFINE e == [st |-> "S", wts |-> Rsp.wts, rts |-> Rsp.rts, owner |-> {}]
<1>3. e \in DirEntry /\ e.st = "S" BY <1>1, RspType DEF DirEntry, DirStates
<1>4. SetDir(Rsp.a, e) /\ tbe' = tbe BY DEF TakeBack
<1>5. dir' \in [Addrs -> DirEntry] /\ tbe' \in [Addrs -> TBE] /\ RequestorsKnown' /\ CounterStates'
  <2> HIDE DEF e
  <2>1. e.st \notin Granting BY <1>3 DEF Granting
  <2>2. QED BY <1>1, <1>3, <1>4, <2>1, RspType, StateStep
<1>6. rep' \subseteq ToCache BY <1>1, RspType, ReplyType DEF TakeBack, TypeInv
<1>7. QED BY <1>1, <1>2, <1>5, <1>6, ResponseStep, DirFrame, Unchanged DEF TakeBack, memVars

\* The grant of a shared copy after the write back keeps TypeInv.
LEMMA GrantAfterWritebackType == TypeInv /\ GrantAfterWriteback => TypeInv'
<1> SUFFICES ASSUME TypeInv, GrantAfterWriteback PROVE TypeInv' OBVIOUS
<1>1. rspQ # <<>> /\ dir[Rsp.a].st = "ES" BY DEF GrantAfterWriteback, AtResponse
<1>2. AdvanceMts /\ StoreInLLC /\ PopResponse BY DEF GrantAfterWriteback
<1> DEFINE r == Max2(Rsp.rts, Max2(Rsp.wts + Lease, Lease))
           e == [dir[Rsp.a] EXCEPT !.st = "S", !.wts = Rsp.wts, !.rts = r]
<1>3. r \in Nat
  <2>1. Rsp.wts + Lease \in Nat /\ Lease \in Nat BY <1>1, RspType, NumbersAssumption
  <2>2. Max2(Rsp.wts + Lease, Lease) \in Nat BY <2>1, MaxType
  <2>3. QED BY <1>1, <2>2, RspType, MaxType
<1>4. SetDir(Rsp.a, e) /\ tbe' = [tbe EXCEPT ![Rsp.a] = NoTBE]
  BY DEF GrantAfterWriteback
<1>5. Reply("SH_REP", Rsp.a, tbe[Rsp.a].req, Rsp.wts, r, Rsp.val)
  BY DEF GrantAfterWriteback
<1> HIDE DEF r
<1>6. e \in DirEntry /\ e.st = "S" BY <1>1, <1>3, RspType DEF DirEntry, DirStates
<1>7. dir' \in [Addrs -> DirEntry] /\ tbe' \in [Addrs -> TBE] /\ RequestorsKnown' /\ CounterStates'
  <2> HIDE DEF e
  <2>1. e.st \notin Granting BY <1>6 DEF Granting
  <2>2. NoTBE \in TBE BY DEF NoTBE, TBE
  <2>3. QED BY <1>1, <1>4, <1>6, <2>1, <2>2, RspType, LineStep
<1>8. rep' \subseteq ToCache
  <2>1. tbe[Rsp.a].req \in Cores
    BY <1>1, RspType DEF TypeInv, RequestorsKnown, Granting
  <2>2. QED BY <1>1, <1>3, <1>5, <2>1, RspType, ReplyType DEF TypeInv
<1>9. QED BY <1>1, <1>2, <1>7, <1>8, ResponseStep, DirFrame, Unchanged
          DEF GrantAfterWriteback, memVars

\* The grant to a new owner after the flush keeps TypeInv.
LEMMA GrantAfterFlushType == TypeInv /\ GrantAfterFlush => TypeInv'
<1> SUFFICES ASSUME TypeInv, GrantAfterFlush PROVE TypeInv' OBVIOUS
<1>1. rspQ # <<>> /\ dir[Rsp.a].st = "EE" BY DEF GrantAfterFlush, AtResponse
<1>2. AdvanceMts /\ StoreInLLC /\ PopResponse BY DEF GrantAfterFlush
<1>3. tbe[Rsp.a].req \in Cores
  BY <1>1, RspType DEF TypeInv, RequestorsKnown, Granting
<1> DEFINE e == [st |-> "E", wts |-> Rsp.wts, rts |-> Rsp.rts, owner |-> OwnerFromTBE(Rsp.a)]
<1>4. e \in DirEntry /\ e.st = "E"
  BY <1>1, <1>3, RspType DEF DirEntry, DirStates, OwnerFromTBE
<1>5. SetDir(Rsp.a, e) /\ tbe' = [tbe EXCEPT ![Rsp.a] = NoTBE] BY DEF GrantAfterFlush
<1>6. dir' \in [Addrs -> DirEntry] /\ tbe' \in [Addrs -> TBE] /\ RequestorsKnown' /\ CounterStates'
  <2> HIDE DEF e
  <2>1. e.st \notin Granting BY <1>4 DEF Granting
  <2>2. NoTBE \in TBE BY DEF NoTBE, TBE
  <2>3. QED BY <1>1, <1>4, <1>5, <2>1, <2>2, RspType, LineStep
<1>7. rep' \subseteq ToCache
  BY <1>1, <1>3, RspType, ReplyType DEF GrantAfterFlush, TypeInv
<1>8. QED BY <1>1, <1>2, <1>6, <1>7, ResponseStep, DirFrame, Unchanged
          DEF GrantAfterFlush, memVars

\* A victim handed back by its owner keeps TypeInv, written back at once or parked.
LEMMA FlushedVictimType ==
    TypeInv /\ (FlushedVictimWrittenBack \/ FlushedVictimAwaitsCounter) => TypeInv'
<1> SUFFICES ASSUME TypeInv, FlushedVictimWrittenBack \/ FlushedVictimAwaitsCounter
             PROVE  TypeInv'
  OBVIOUS
<1>1. rspQ # <<>> /\ FlushedVictim
  BY DEF FlushedVictimWrittenBack, FlushedVictimAwaitsCounter, FlushedVictim, AtResponse
<1>2. AdvanceMts /\ PopResponse /\ CountInRoot(Rsp.a) BY <1>1 DEF FlushedVictim
<1>3. root' \in [0..2 -> Nat] BY <1>2, CountInRootType DEF TypeInv
<1> DEFINE t == [tbe[Rsp.a] EXCEPT !.val = Rsp.val]
<1>4. t \in TBE /\ tbe' = [tbe EXCEPT ![Rsp.a] = t] BY <1>1, RspType DEF FlushedVictim, TBE
<1>5. dir \in [Addrs -> DirEntry] /\ llc \in [Addrs -> LLCEntry]
  BY DEF TypeInv, TypeOK, DirTypeOK
<1>6. CASE FlushedVictimWrittenBack
  <2> DEFINE ks == Branch(Rsp.a, InLLC)
             D == Modified(dir, ks)
             e == Recall(dir[Rsp.a], "I_Evicting")
  <2>1. ks \in SUBSET Counters BY <1>1, RspType, BranchType
  <2>2. e \in DirEntry /\ e.st \notin Granting
    <3>1. "I_Evicting" \in DirStates /\ "I_Evicting" \notin Granting
      BY DEF DirStates, Evicting, Granting
    <3>2. dir[Rsp.a] \in DirEntry BY <1>1, RspType
    <3>3. QED BY <3>1, <3>2, RecallType
  <2>3. dir' = [D EXCEPT ![Rsp.a] = e] /\ llc' = Dirtied(llc, ks)
        /\ SendMem("MEMORY_WB", Rsp.a, Rsp.val) /\ UNCHANGED auth
    BY <1>6 DEF FlushedVictimWrittenBack
  <2> HIDE DEF ks, e, t
  <2>4. D \in [Addrs -> DirEntry]
        /\ \A y \in Addrs : D[y].st = dir[y].st \/ (y \in Counters /\ D[y].st = "C_M")
    BY <1>5, <2>1, ModifiedType
  <2> HIDE DEF D
  <2>5. dir' \in [Addrs -> DirEntry] /\ tbe' \in [Addrs -> TBE] /\ RequestorsKnown' /\ CounterStates'
    BY <1>1, <1>4, <2>2, <2>3, <2>4, RspType, EntryStep
  <2>6. llc' \in [Addrs -> LLCEntry] BY <1>5, <2>3, DirtiedType
  <2>7. memPend' \in [Addrs -> Seq(MemOp)]
    BY <1>1, <2>3, RspType, SendMemType DEF TypeInv
  <2>8. QED BY <1>1, <1>2, <1>3, <2>3, <2>5, <2>6, <2>7, ResponseStep, DirFrame, Unchanged
            DEF FlushedVictim
<1>7. CASE FlushedVictimAwaitsCounter
  <2> DEFINE e == Recall(dir[Rsp.a], "I_Evict_Auth")
  <2>1. e \in DirEntry /\ e.st \notin Granting
    <3>1. "I_Evict_Auth" \in DirStates /\ "I_Evict_Auth" \notin Granting
      BY DEF DirStates, EvictAuth, Granting
    <3>2. dir[Rsp.a] \in DirEntry BY <1>1, RspType
    <3>3. QED BY <3>1, <3>2, RecallType
  <2>2. SetDir(Rsp.a, e) /\ FetchCounterForEviction(Rsp.a) /\ UNCHANGED llc
        /\ ParentMissing(Rsp.a)
    BY <1>7 DEF FlushedVictimAwaitsCounter
  <2> HIDE DEF e, t
  <2>3. dir' \in [Addrs -> DirEntry] /\ tbe' \in [Addrs -> TBE] /\ RequestorsKnown' /\ CounterStates'
    BY <1>1, <1>4, <2>1, <2>2, RspType, LineStep
  <2>4. memPend' \in [Addrs -> Seq(MemOp)] /\ auth' \in [Counters -> AuthTBE]
    BY <1>1, <2>2, RspType, MissingParent, FetchCounterForEvictionType DEF TypeInv
  <2>5. QED BY <1>1, <1>2, <1>3, <2>2, <2>3, <2>4, ResponseStep, DirFrame, Unchanged
            DEF FlushedVictim
<1>8. QED BY <1>6, <1>7

\* A response that bounces keeps TypeInv.
LEMMA ResponseBounceType == TypeInv /\ ResponseBounce => TypeInv'
<1> SUFFICES ASSUME TypeInv, ResponseBounce PROVE TypeInv' OBVIOUS
<1>1. rspQ # <<>> /\ dir[Rsp.a].st \in FetchAuth BY DEF ResponseBounce, AtResponse
<1>2. CASE reqQ # <<>>
  <2> DEFINE e == [dir[Rsp.a] EXCEPT !.st = BaseState(dir[Rsp.a].st)]
  <2>1. e \in DirEntry /\ e.st \notin Granting
    BY <1>1, RspType, BaseStateType DEF DirEntry
  <2>2. SetDir(Rsp.a, e) /\ tbe' = tbe /\ Recycle /\ AdvanceMts
    BY <1>2 DEF ResponseBounce
  <2> HIDE DEF e
  <2>3. dir' \in [Addrs -> DirEntry] /\ tbe' \in [Addrs -> TBE] /\ RequestorsKnown' /\ CounterStates'
    BY <1>1, <2>1, <2>2, RspType, StateStep
  <2>4. reqQ' \in Seq(Request) BY <1>2, <2>2, RecycleType
  <2>5. QED BY <1>1, <2>2, <2>3, <2>4, ResponseStep, DirFrame, Unchanged
            DEF ResponseBounce, memVars
<1>3. CASE reqQ = <<>>
  BY <1>3, FaultInv
     DEF ResponseBounce, DirUnchanged, chanVars, dirVars, memVars, ghostVars
<1>4. QED BY <1>2, <1>3

\* A stalled response, whose peek has advanced mts, keeps TypeInv.
LEMMA ResponseStallType == TypeInv /\ ResponseStall => TypeInv'
<1> SUFFICES ASSUME TypeInv, ResponseStall PROVE TypeInv' OBVIOUS
<1>1. rspQ # <<>> /\ AdvanceMts BY DEF ResponseStall
<1>2. RequestorsKnown' /\ CounterStates' /\ dir' \in [Addrs -> DirEntry] /\ tbe' \in [Addrs -> TBE]
  BY DEF ResponseStall, TypeInv, TypeOK, DirTypeOK, RequestorsKnown, CounterStates
<1>3. QED BY <1>1, <1>2, ResponseStep, DirFrame, Unchanged
          DEF ResponseStall, chanVars, memVars

\* No transition on a response disturbs TypeInv.
LEMMA ResponsePortType == TypeInv /\ ResponsePort => TypeInv'
BY TakeBackType, GrantAfterWritebackType, GrantAfterFlushType, FlushedVictimType,
   ResponseBounceType, ResponseStallType DEF ResponsePort

\* The head of the memory responses is a memory message.
LEMMA MemHeadType ==
    ASSUME TypeInv, memQ # <<>>
    PROVE  /\ Tail(memQ) \in Seq(MemMsg)
           /\ Mem.a \in Addrs /\ Mem.val \in Nat
           /\ dir[Mem.a] \in DirEntry /\ tbe[Mem.a] \in TBE
           /\ dir[Mem.a].st \in Granting => /\ Mem.a \in Lines /\ Mem.a \notin Counters
                                           /\ tbe[Mem.a].req \in Cores
<1>1. memQ \in Seq(MemMsg) BY DEF TypeInv, TypeOK, MemTypeOK
<1>2. Mem \in MemMsg /\ Tail(memQ) \in Seq(MemMsg)
  BY <1>1, HeadTailProperties DEF Mem
<1>3. Mem.a \in Addrs /\ Mem.val \in Nat BY <1>2 DEF MemMsg
<1>4. dir[Mem.a] \in DirEntry /\ tbe[Mem.a] \in TBE
  BY <1>3 DEF TypeInv, TypeOK, DirTypeOK
<1>5. ASSUME dir[Mem.a].st \in Granting
      PROVE  Mem.a \in Lines /\ Mem.a \notin Counters /\ tbe[Mem.a].req \in Cores
  BY <1>3, <1>5 DEF TypeInv, RequestorsKnown, CounterStates, Granting, Addrs
<1>6. QED BY <1>2, <1>3, <1>4, <1>5

\* The grant of a shared copy from memory keeps TypeInv.
LEMMA GrantSharedType == TypeInv /\ GrantShared => TypeInv'
<1> SUFFICES ASSUME TypeInv, GrantShared PROVE TypeInv' OBVIOUS
<1>1. memQ # <<>> /\ dir[Mem.a].st = "IS" BY DEF GrantShared, AtMemory
<1>2. dir[Mem.a].st \in Granting BY <1>1 DEF Granting
<1> DEFINE a == Mem.a
           r == Max2(mts + Lease, tbe[a].lts + Lease)
           e == [dir[a] EXCEPT !.st = "S", !.wts = mts, !.rts = r]
<1>3. r \in Nat /\ mts \in Nat
  <2>1. mts + Lease \in Nat /\ tbe[a].lts + Lease \in Nat
    BY <1>1, MemHeadType, MtsType, NumbersAssumption DEF TBE
  <2>2. QED BY <2>1, MaxType, MtsType
<1>4. SetDir(a, e) /\ tbe' = [tbe EXCEPT ![a] = NoTBE] BY DEF GrantShared
<1>5. IF Renews(tbe[a].wts)
      THEN Reply("RENEW_REP", a, tbe[a].req, 0, r, 0)
      ELSE Reply("SH_REP", a, tbe[a].req, mts, r, Mem.val)
  BY DEF GrantShared
<1>6. memQ' \in Seq(MemMsg) BY <1>1, MemHeadType DEF GrantShared
<1> HIDE DEF r
<1>7. e \in DirEntry /\ e.st = "S" BY <1>1, <1>3, MemHeadType DEF DirEntry, DirStates
<1>8. dir' \in [Addrs -> DirEntry] /\ tbe' \in [Addrs -> TBE] /\ RequestorsKnown' /\ CounterStates'
  <2> HIDE DEF e
  <2>1. e.st \notin Granting BY <1>7 DEF Granting
  <2>2. NoTBE \in TBE BY DEF NoTBE, TBE
  <2>3. QED BY <1>1, <1>2, <1>4, <1>7, <2>1, <2>2, MemHeadType, LineStep
<1>9. rep' \subseteq ToCache
  <2>1. CASE Renews(tbe[a].wts)
    BY <1>1, <1>2, <1>3, <1>5, <2>1, MemHeadType, ReplyType DEF TypeInv
  <2>2. CASE ~Renews(tbe[a].wts)
    BY <1>1, <1>2, <1>3, <1>5, <2>2, MemHeadType, ReplyType DEF TypeInv
  <2>3. QED BY <2>1, <2>2
<1>10. llc' \in [Addrs -> LLCEntry]
  <2>1. [st |-> "clean", val |-> Mem.val] \in LLCEntry BY <1>1, MemHeadType DEF LLCEntry
  <2>2. QED BY <2>1 DEF GrantShared, TypeInv, TypeOK, DirTypeOK
<1>11. QED BY <1>6, <1>8, <1>9, <1>10, DirFrame, Unchanged DEF GrantShared

\* The grant to an owner from memory keeps TypeInv.
LEMMA GrantExclusiveType == TypeInv /\ GrantExclusive => TypeInv'
<1> SUFFICES ASSUME TypeInv, GrantExclusive PROVE TypeInv' OBVIOUS
<1>1. memQ # <<>> /\ dir[Mem.a].st \in {"IE", "SE"} BY DEF GrantExclusive, AtMemory
<1>2. dir[Mem.a].st \in Granting BY <1>1 DEF Granting
<1> DEFINE a == Mem.a
           e == [st |-> "E", wts |-> mts, rts |-> mts, owner |-> OwnerFromTBE(a)]
<1>3. e \in DirEntry /\ e.st = "E"
  BY <1>1, <1>2, MemHeadType, MtsType DEF DirEntry, DirStates, OwnerFromTBE
<1>4. SetDir(a, e) /\ tbe' = [tbe EXCEPT ![a] = NoTBE] BY DEF GrantExclusive
<1>5. memQ' \in Seq(MemMsg) BY <1>1, MemHeadType DEF GrantExclusive
<1>6. dir' \in [Addrs -> DirEntry] /\ tbe' \in [Addrs -> TBE] /\ RequestorsKnown' /\ CounterStates'
  <2> HIDE DEF e
  <2>1. e.st \notin Granting BY <1>3 DEF Granting
  <2>2. NoTBE \in TBE BY DEF NoTBE, TBE
  <2>3. QED BY <1>1, <1>2, <1>3, <1>4, <2>1, <2>2, MemHeadType, LineStep
<1>7. rep' \subseteq ToCache
  BY <1>1, <1>2, MemHeadType, MtsType, ReplyType DEF GrantExclusive, TypeInv
<1>8. llc' \in [Addrs -> LLCEntry]
  <2>1. [st |-> "clean", val |-> Mem.val] \in LLCEntry BY <1>1, MemHeadType DEF LLCEntry
  <2>2. QED BY <2>1 DEF GrantExclusive, TypeInv, TypeOK, DirTypeOK
<1>9. QED BY <1>5, <1>6, <1>7, <1>8, DirFrame, Unchanged DEF GrantExclusive

\* What the arrival of a counter sends to memory for one line is a sequence of
\* memory requests.
LEMMA MemoryTrafficType ==
    ASSUME TypeInv, NEW k, NEW x \in Addrs
    PROVE  MemoryTraffic(k, x) \in Seq(MemOp)
<1> DEFINE wb == IF x \in Released(k)
                 THEN <<[type |-> "MEMORY_WB", val |-> tbe[x].val]>> ELSE <<>>
           rd == IF x \in Counters \ {k} /\ Wanted(k, x) /\ ~auth[x].busy
                 THEN <<[type |-> "MEMORY_READ", val |-> 0]>> ELSE <<>>
<1>1. tbe[x].val \in Nat BY DEF TypeInv, TypeOK, DirTypeOK, TBE
<1>2. wb \in Seq(MemOp) /\ rd \in Seq(MemOp)
  <2>1. [type |-> "MEMORY_WB", val |-> tbe[x].val] \in MemOp BY <1>1 DEF MemOp
  <2>2. [type |-> "MEMORY_READ", val |-> 0] \in MemOp BY DEF MemOp
  <2>3. \A m \in MemOp : <<m>> \in Seq(MemOp) OBVIOUS
  <2>4. <<>> \in Seq(MemOp) OBVIOUS
  <2>5. QED BY <2>1, <2>2, <2>3, <2>4
<1>4. MemoryTraffic(k, x) \in {rd \o wb, wb \o rd} BY Zenon DEF MemoryTraffic
<1> HIDE DEF wb, rd
<1>5. rd \o wb \in Seq(MemOp) /\ wb \o rd \in Seq(MemOp)
  BY <1>2, ConcatProperties
<1>6. QED BY <1>4, <1>5

\* The AuthTBEs of the other counters after resumeEvictions on that of k.
LEMMA ResumedType ==
    ASSUME TypeInv, NEW k \in Counters, NEW q \in Counters
    PROVE  [busy |-> auth[q].busy \/ Wanted(k, q),
            slot |-> AddWaiters(auth[q].slot, auth[k].slot, Forwarded(k, q))] \in AuthTBE
<1>1. auth[q] \in AuthTBE /\ auth[k] \in AuthTBE BY DEF TypeInv, TypeOK, DirTypeOK
<1>2. auth[q].slot \in [Slots -> Addrs \cup {NoAddr}]
      /\ auth[k].slot \in [Slots -> Addrs \cup {NoAddr}]
  BY <1>1 DEF AuthTBE
<1>3. \A s \in Forwarded(k, q) : auth[k].slot[s] \in Addrs \cup {NoAddr}
  BY <1>2 DEF Forwarded
<1>4. AddWaiters(auth[q].slot, auth[k].slot, Forwarded(k, q)) \in [Slots -> Addrs \cup {NoAddr}]
  BY <1>2, <1>3, AddWaitersType
<1>5. (auth[q].busy \/ Wanted(k, q)) \in BOOLEAN OBVIOUS
<1>6. QED BY <1>4, <1>5 DEF AuthTBE

\* The arrival of a counter, with the evictions it resumes, keeps TypeInv.
LEMMA CounterDataType == TypeInv /\ CounterData => TypeInv'
<1> SUFFICES ASSUME TypeInv, CounterData PROVE TypeInv' OBVIOUS
<1>1. memQ # <<>> /\ Mem.a \in Counters BY DEF CounterData, AtMemory
<1> DEFINE k == Mem.a
           here == InLLC \cup {k}
           out == Released(k)
           dirty == UNION {Branch(x, here) : x \in out}
           cached == [llc EXCEPT ![k] = [st |-> "clean", val |-> Mem.val]]
           D == [x \in Addrs |->
                   IF x = k THEN dir[k]
                   ELSE IF x \in out THEN [dir[x] EXCEPT !.st = Written(dir[x].st)]
                   ELSE Modified(dir, dirty)[x]]
<1>2. llc' = Dirtied(cached, dirty) /\ dir' = D /\ tbe' = tbe
  BY Zenon DEF CounterData
<1>3. \A x \in out : x \in Addrs BY DEF Released
<1>4. dirty \in SUBSET Counters BY <1>3, BranchType
<1>5. [st |-> "clean", val |-> Mem.val] \in LLCEntry BY <1>1, MemHeadType DEF LLCEntry
<1>6. cached \in [Addrs -> LLCEntry] BY <1>5 DEF TypeInv, TypeOK, DirTypeOK
<1>7. dir \in [Addrs -> DirEntry] /\ tbe \in [Addrs -> TBE]
  BY DEF TypeInv, TypeOK, DirTypeOK
<1> HIDE DEF dirty, out, cached
<1>8. llc' \in [Addrs -> LLCEntry] BY <1>2, <1>6, DirtiedType
<1>9. /\ Modified(dir, dirty) \in [Addrs -> DirEntry]
      /\ \A x \in Addrs : Modified(dir, dirty)[x].st = IF x \in dirty THEN "C_M" ELSE dir[x].st
  BY <1>4, <1>7, ModifiedType
<1>10. \A x \in Addrs : /\ Written(dir[x].st) \in {dir[x].st, "I_Evicting", "S_Evicting"}
                        /\ dir[x].st = "I_Evict_Auth" => Written(dir[x].st) = "I_Evicting"
                        /\ dir[x].st # "S_Evict_Auth" =>
                             Written(dir[x].st) \in {dir[x].st, "I_Evicting"}
  BY DEF Written
<1>11. \A x \in Addrs : /\ [dir[x] EXCEPT !.st = Written(dir[x].st)] \in DirEntry
                        /\ [dir[x] EXCEPT !.st = Written(dir[x].st)].st = Written(dir[x].st)
  BY <1>7, <1>10 DEF DirEntry, DirStates, Evicting
<1>12. dir' \in [Addrs -> DirEntry]
  <2>1. \A x \in Addrs : D[x] \in DirEntry BY <1>7, <1>9, <1>11
  <2>2. QED BY <1>2, <2>1
<1>13. \A x \in Addrs : dir'[x].st \in {dir[x].st, Written(dir[x].st)}
                        \/ (x \in Counters /\ dir'[x].st = "C_M")
  BY <1>2, <1>4, <1>7, <1>9, <1>11
<1> HIDE DEF D
<1>14. RequestorsKnown'
  <2>1. SUFFICES ASSUME NEW x \in Addrs, dir'[x].st \in Granting PROVE tbe'[x].req \in Cores
    BY DEF RequestorsKnown
  <2>2. dir[x].st \in Granting BY <1>10, <1>13, <2>1 DEF Granting
  <2>3. QED BY <1>2, <2>2 DEF TypeInv, RequestorsKnown
<1>15. CounterStates'
  <2>1. SUFFICES ASSUME NEW q \in Counters
                 PROVE  dir'[q].st \in {"I", "C_M", "I_Evict_Auth", "I_Evicting"}
    BY DEF CounterStates
  <2>2. q \in Addrs BY DEF Addrs
  <2>3. dir[q].st \in {"I", "C_M", "I_Evict_Auth", "I_Evicting"}
    BY DEF TypeInv, CounterStates
  <2>4. Written(dir[q].st) \in {dir[q].st, "I_Evicting"} BY <1>10, <2>2, <2>3
  <2>5. QED BY <1>13, <2>2, <2>3, <2>4
<1>16. auth' \in [Counters -> AuthTBE] /\ memPend' \in [Addrs -> Seq(MemOp)]
  <2>1. CASE ~CounterRead BY <2>1, Unchanged DEF CounterData
  <2>2. CASE CounterRead
    <3>1. auth' = [q \in Counters |->
                     IF q = k THEN NoAuth
                     ELSE [busy |-> auth[q].busy \/ Wanted(k, q),
                           slot |-> AddWaiters(auth[q].slot, auth[k].slot, Forwarded(k, q))]]
          /\ memPend' = [x \in Addrs |-> memPend[x] \o MemoryTraffic(k, x)]
      BY <2>2, Zenon DEF CounterData
    <3>2. NoAuth \in AuthTBE BY DEF NoAuth, AuthTBE
    <3>3. auth' \in [Counters -> AuthTBE] BY <1>1, <3>1, <3>2, ResumedType
    <3>4. \A x \in Addrs : memPend[x] \o MemoryTraffic(k, x) \in Seq(MemOp)
      BY MemoryTrafficType, ConcatProperties DEF TypeInv, TypeOK, MemTypeOK
    <3>5. QED BY <3>1, <3>3, <3>4
  <2>3. QED BY <2>1, <2>2
<1>17. reqQ' \in Seq(Request) /\ waitQ' \subseteq Request /\ IsFiniteSet(waitQ')
  <2>1. UNCHANGED <<reqQ, waitQ>> \/ Wake(Lines) BY DEF CounterData
  <2>2. CASE Wake(Lines) BY <2>2, WakeType DEF TypeInv
  <2>3. QED BY <2>1, <2>2, Unchanged
<1>18. memQ' \in Seq(MemMsg) BY <1>1, MemHeadType DEF CounterData
<1>19. tbe' \in [Addrs -> TBE] BY <1>2, <1>7
<1>20. QED BY <1>8, <1>12, <1>14, <1>15, <1>16, <1>17, <1>18, <1>19, DirFrame, Unchanged
           DEF CounterData

\* The acknowledged write back of a victim keeps TypeInv.
LEMMA EvictionDoneType == TypeInv /\ EvictionDone => TypeInv'
<1> SUFFICES ASSUME TypeInv, EvictionDone PROVE TypeInv' OBVIOUS
<1>1. memQ # <<>> /\ dir[Mem.a].st \in Evicting BY DEF EvictionDone, AtMemory
<1> DEFINE e == [dir[Mem.a] EXCEPT !.st = IF dir[Mem.a].st = "I_Evicting" THEN "I" ELSE "S"]
<1>2. e \in DirEntry /\ e.st = IF dir[Mem.a].st = "I_Evicting" THEN "I" ELSE "S"
  BY <1>1, MemHeadType DEF DirEntry, DirStates
<1>3. SetDir(Mem.a, e) /\ tbe' = [tbe EXCEPT ![Mem.a] = NoTBE] BY DEF EvictionDone
<1>4. dir' \in [Addrs -> DirEntry] /\ tbe' \in [Addrs -> TBE] /\ RequestorsKnown' /\ CounterStates'
  <2> HIDE DEF e
  <2>1. e.st \notin Granting BY <1>2 DEF Granting
  <2>2. NoTBE \in TBE BY DEF NoTBE, TBE
  <2>3. Mem.a \in Counters => e.st = "I"
    BY <1>1, <1>2 DEF TypeInv, CounterStates, Evicting
  <2>4. QED BY <1>1, <1>2, <1>3, <2>1, <2>2, <2>3, MemHeadType, LineStep
<1>5. reqQ' \in Seq(Request) /\ waitQ' \subseteq Request /\ IsFiniteSet(waitQ')
  BY WakeType DEF EvictionDone, TypeInv
<1>6. memQ' \in Seq(MemMsg) BY <1>1, MemHeadType DEF EvictionDone
<1>7. QED BY <1>4, <1>5, <1>6, DirFrame, Unchanged DEF EvictionDone

\* No transition on a memory answer disturbs TypeInv.
LEMMA MemoryPortType == TypeInv /\ MemoryPort => TypeInv'
BY GrantSharedType, GrantExclusiveType, CounterDataType, EvictionDoneType, FaultInv
   DEF MemoryPort, MemoryPanic

-----------------------------------------------------------------------------
(* Evictions of the LLC.                                                   *)

\* What every replacement has at hand: a typed clock after the step, and a victim
\* in a state and with an event its action serves.
LEMMA ReplaceType ==
    ASSUME TypeInv, NEW v \in Addrs, NEW states, NEW events, Replace(v, states, events)
    PROVE  /\ mts' \in Nat /\ dir[v].st \in states /\ ReplEvent(v) \in events
           /\ dir[v] \in DirEntry /\ llc[v].val \in Nat
<1>1. dir[v] \in DirEntry /\ llc[v] \in LLCEntry BY DEF TypeInv, TypeOK, DirTypeOK
<1>2. mts' \in Nat
  <2>1. CASE MemoryNeedsRoom /\ UNCHANGED mts BY <2>1, MtsType
  <2>2. CASE ResponseNeedsRoom /\ AdvanceMts
    BY <2>2, ResponseStep DEF ResponseNeedsRoom
  <2>3. QED BY <2>1, <2>2 DEF Replace
<1>3. QED BY <1>1, <1>2 DEF Replace, LLCEntry

\* The TBE of a parked victim has the type of a TBE.
LEMMA ParkType ==
    ASSUME TypeInv, NEW v \in Addrs
    PROVE  [NoTBE EXCEPT !.wts = dir[v].wts, !.val = llc[v].val] \in TBE
BY DEF TypeInv, TypeOK, DirTypeOK, DirEntry, LLCEntry, NoTBE, TBE

\* Dropping a line keeps the LLC typed.
LEMMA DropType ==
    ASSUME NEW v \in Addrs, NEW L \in [Addrs -> LLCEntry], Drop(v, L)
    PROVE  llc' \in [Addrs -> LLCEntry]
<1>1. NoLLC \in LLCEntry BY DEF NoLLC, LLCEntry
<1>2. QED BY <1>1 DEF Drop

\* The victim v is parked in a new state st.
LEMMA ParkStep ==
    ASSUME TypeInv, NEW v \in Addrs, NEW st \in DirStates \ Granting,
           v \in Counters => st \in {"I", "C_M", "I_Evict_Auth", "I_Evicting"},
           Park(v), SetDir(v, [dir[v] EXCEPT !.st = st])
    PROVE  /\ dir' \in [Addrs -> DirEntry] /\ tbe' \in [Addrs -> TBE]
           /\ RequestorsKnown' /\ CounterStates'
<1> DEFINE e == [dir[v] EXCEPT !.st = st]
           t == [NoTBE EXCEPT !.wts = dir[v].wts, !.val = llc[v].val]
<1>1. e \in DirEntry /\ e.st = st BY DEF TypeInv, TypeOK, DirTypeOK, DirEntry
<1>2. t \in TBE BY ParkType
<1>3. tbe' = [tbe EXCEPT ![v] = t] /\ SetDir(v, e) BY DEF Park
<1> HIDE DEF e, t
<1>4. QED BY <1>1, <1>2, <1>3, LineStep

\* The states a victim enters are directory states that grant nothing.
LEMMA EvictStates ==
    {"I_Evicting", "S_Evicting", "I_Evict_Auth", "S_Evict_Auth", "E_Evict_Flush"}
      \subseteq DirStates \ Granting
BY DEF DirStates, Granting, Evicting, EvictAuth

\* TypeInv types the LLC and the directory.
LEMMA TypeInvLLC == TypeInv => llc \in [Addrs -> LLCEntry] /\ dir \in [Addrs -> DirEntry]
BY DEF TypeInv, TypeOK, DirTypeOK

\* Dropping a clean victim keeps TypeInv.
LEMMA EvictCleanType ==
    ASSUME TypeInv, NEW v \in Addrs, EvictClean(v) PROVE TypeInv'
<1>1. mts' \in Nat BY ReplaceType DEF EvictClean
<1>2. llc' \in [Addrs -> LLCEntry] BY TypeInvLLC, DropType DEF EvictClean
<1>3. RequestorsKnown' /\ CounterStates' /\ dir' \in [Addrs -> DirEntry] /\ tbe' \in [Addrs -> TBE]
  BY DEF EvictClean, TypeInv, TypeOK, DirTypeOK, RequestorsKnown, CounterStates
<1>4. QED BY <1>1, <1>2, <1>3, DirFrame, Unchanged DEF EvictClean, chanVars, memVars

\* Writing back a dirty victim keeps TypeInv.
LEMMA EvictDirtyType ==
    ASSUME TypeInv, NEW v \in Addrs, EvictDirty(v) PROVE TypeInv'
<1> DEFINE ks == Branch(v, InLLC)
           D == Modified(dir, ks)
           st == IF dir[v].st = "I" THEN "I_Evicting" ELSE "S_Evicting"
           e == [dir[v] EXCEPT !.st = st]
           t == [NoTBE EXCEPT !.wts = dir[v].wts, !.val = llc[v].val]
           L == Dirtied(llc, ks)
<1>1. mts' \in Nat /\ dir[v].st \in {"I", "S"} /\ dir[v] \in DirEntry /\ llc[v].val \in Nat
  BY ReplaceType DEF EvictDirty
<1>2. dir' = [D EXCEPT ![v] = e] /\ CountInRoot(v) /\ Park(v)
      /\ SendMem("MEMORY_WB", v, llc[v].val) /\ Drop(v, L)
  BY Zenon DEF EvictDirty
<1>3. st \in DirStates \ Granting BY EvictStates
<1>4. e \in DirEntry /\ e.st = st BY <1>1, <1>3 DEF DirEntry
<1>5. v \in Counters => e.st = "I_Evicting"
  BY <1>1, <1>4 DEF TypeInv, CounterStates
<1>6. ks \in SUBSET Counters BY BranchType
<1> HIDE DEF ks, st, e
<1>7. D \in [Addrs -> DirEntry]
      /\ \A y \in Addrs : D[y].st = dir[y].st \/ (y \in Counters /\ D[y].st = "C_M")
  BY <1>6, TypeInvLLC, ModifiedType
<1>8. t \in TBE /\ tbe' = [tbe EXCEPT ![v] = t] BY <1>2, ParkType DEF Park
<1>9. L \in [Addrs -> LLCEntry] BY TypeInvLLC, DirtiedType
<1> HIDE DEF D, t, L
<1>10. dir' \in [Addrs -> DirEntry] /\ tbe' \in [Addrs -> TBE] /\ RequestorsKnown' /\ CounterStates'
  BY <1>2, <1>3, <1>4, <1>5, <1>7, <1>8, EntryStep
<1>11. llc' \in [Addrs -> LLCEntry] BY <1>2, <1>9, DropType
<1>12. memPend' \in [Addrs -> Seq(MemOp)] BY <1>1, <1>2, SendMemType DEF TypeInv
<1>13. root' \in [0..2 -> Nat] BY <1>2, CountInRootType DEF TypeInv
<1>14. QED BY <1>1, <1>10, <1>11, <1>12, <1>13, DirFrame, Unchanged DEF EvictDirty, chanVars

\* Writing back a modified counter keeps TypeInv.
LEMMA EvictCounterType ==
    ASSUME TypeInv, NEW v \in Addrs, EvictCounter(v) PROVE TypeInv'
<1>1. mts' \in Nat /\ llc[v].val \in Nat BY ReplaceType DEF EvictCounter
<1>2. dir' \in [Addrs -> DirEntry] /\ tbe' \in [Addrs -> TBE] /\ RequestorsKnown' /\ CounterStates'
  BY EvictStates, ParkStep DEF EvictCounter
<1>3. llc' \in [Addrs -> LLCEntry] BY TypeInvLLC, DropType DEF EvictCounter
<1>4. memPend' \in [Addrs -> Seq(MemOp)] BY <1>1, SendMemType DEF EvictCounter, TypeInv
<1>5. QED BY <1>1, <1>2, <1>3, <1>4, DirFrame, Unchanged DEF EvictCounter, chanVars

\* A dirty victim whose branch is not complete waits for a counter.
LEMMA AwaitedCounter ==
    ASSUME NEW v \in Addrs, ReplEvent(v) = "LLC_Repl_Dirty_Auth_Miss"
    PROVE  FirstMissing(v, InLLC) \in Counters
BY FirstMissingType DEF ReplEvent

\* Parking a dirty victim on its counter keeps TypeInv.
LEMMA EvictAwaitingCounterType ==
    ASSUME TypeInv, NEW v \in Addrs, EvictAwaitingCounter(v) PROVE TypeInv'
<1> DEFINE st == IF dir[v].st = "I" THEN "I_Evict_Auth" ELSE "S_Evict_Auth"
<1>1. mts' \in Nat /\ dir[v].st \in {"I", "S"} /\ ReplEvent(v) = "LLC_Repl_Dirty_Auth_Miss"
  BY ReplaceType DEF EvictAwaitingCounter
<1>2. st \in DirStates \ Granting BY EvictStates
<1>3. v \in Counters => st = "I_Evict_Auth" BY <1>1 DEF TypeInv, CounterStates
<1>4. SetDir(v, [dir[v] EXCEPT !.st = st]) /\ Park(v) BY DEF EvictAwaitingCounter
<1> HIDE DEF st
<1>5. dir' \in [Addrs -> DirEntry] /\ tbe' \in [Addrs -> TBE] /\ RequestorsKnown' /\ CounterStates'
  BY <1>2, <1>3, <1>4, ParkStep
<1>6. llc' \in [Addrs -> LLCEntry] BY TypeInvLLC, DropType DEF EvictAwaitingCounter
<1>7. memPend' \in [Addrs -> Seq(MemOp)] /\ auth' \in [Counters -> AuthTBE]
  BY <1>1, AwaitedCounter, FetchCounterForEvictionType DEF EvictAwaitingCounter, TypeInv
<1>8. root' \in [0..2 -> Nat] BY CountInRootType DEF EvictAwaitingCounter, TypeInv
<1>9. QED BY <1>1, <1>5, <1>6, <1>7, <1>8, DirFrame, Unchanged
          DEF EvictAwaitingCounter, chanVars

\* Parking a modified counter on its parent keeps TypeInv.
LEMMA EvictCounterAwaitingParentType ==
    ASSUME TypeInv, NEW v \in Addrs, EvictCounterAwaitingParent(v) PROVE TypeInv'
<1>1. mts' \in Nat /\ ReplEvent(v) = "LLC_Repl_Dirty_Auth_Miss"
  BY ReplaceType DEF EvictCounterAwaitingParent
<1>2. dir' \in [Addrs -> DirEntry] /\ tbe' \in [Addrs -> TBE] /\ RequestorsKnown' /\ CounterStates'
  BY EvictStates, ParkStep DEF EvictCounterAwaitingParent
<1>3. llc' \in [Addrs -> LLCEntry] BY TypeInvLLC, DropType DEF EvictCounterAwaitingParent
<1>4. memPend' \in [Addrs -> Seq(MemOp)] /\ auth' \in [Counters -> AuthTBE]
  BY <1>1, AwaitedCounter, FetchCounterForEvictionType
     DEF EvictCounterAwaitingParent, TypeInv
<1>5. QED BY <1>1, <1>2, <1>3, <1>4, DirFrame, Unchanged
          DEF EvictCounterAwaitingParent, chanVars

\* Recalling an owned victim keeps TypeInv.
LEMMA EvictOwnedLineType ==
    ASSUME TypeInv, NEW v \in Addrs, EvictOwnedLine(v) PROVE TypeInv'
<1>1. mts' \in Nat /\ dir[v].st = "E" BY ReplaceType DEF EvictOwnedLine
<1>2. v \in Lines /\ v \notin Counters BY <1>1 DEF TypeInv, CounterStates, Addrs
<1>3. dir' \in [Addrs -> DirEntry] /\ tbe' \in [Addrs -> TBE] /\ RequestorsKnown' /\ CounterStates'
  BY <1>2, EvictStates, ParkStep DEF EvictOwnedLine
<1>4. llc' \in [Addrs -> LLCEntry] BY TypeInvLLC, DropType DEF EvictOwnedLine
<1>5. fwd' \subseteq Forward BY <1>2, AskOwnerType DEF EvictOwnedLine, TypeInv
<1>6. QED BY <1>1, <1>3, <1>4, <1>5, DirFrame, Unchanged DEF EvictOwnedLine, memVars

\* No replacement in the LLC disturbs TypeInv.
LEMMA ReplacementType ==
    ASSUME TypeInv, NEW v \in Addrs, Replacement(v) PROVE TypeInv'
BY EvictCleanType, EvictDirtyType, EvictCounterType, EvictAwaitingCounterType,
   EvictCounterAwaitingParentType, EvictOwnedLineType, FaultInv
   DEF Replacement, ReplacePanic

-----------------------------------------------------------------------------
(* The system.                                                             *)

\* No transition of the directory disturbs TypeInv.
LEMMA DirType == TypeInv /\ DirNext => TypeInv'
BY RequestPortType, ResponsePortType, MemoryPortType, ReplacementType DEF DirNext

\* Memory serving a request keeps TypeInv.
LEMMA MemServeType ==
    ASSUME TypeInv, NEW x \in Addrs, MemServe(x) PROVE TypeInv'
<1>1. memPend \in [Addrs -> Seq(MemOp)] /\ mem \in [Addrs -> Nat] /\ memQ \in Seq(MemMsg)
  BY DEF TypeInv, TypeOK, MemTypeOK
<1>2. memPend[x] \in Seq(MemOp) /\ memPend[x] # <<>> BY <1>1 DEF MemServe
<1>3. Head(memPend[x]) \in MemOp /\ Tail(memPend[x]) \in Seq(MemOp)
  BY <1>2, HeadTailProperties
<1>4. memPend' \in [Addrs -> Seq(MemOp)] BY <1>1, <1>3 DEF MemServe
<1>5. /\ [type |-> "MEMORY_READ", a |-> x, val |-> mem[x]] \in MemMsg
      /\ [type |-> "MEMORY_WB", a |-> x, val |-> 0] \in MemMsg
      /\ Head(memPend[x]).val \in Nat
  BY <1>1, <1>3 DEF MemMsg, MemOp
<1>6. memQ' \in Seq(MemMsg) /\ mem' \in [Addrs -> Nat]
  <2>1. CASE Head(memPend[x]).type = "MEMORY_READ"
    <3>1. memQ' = Append(memQ, [type |-> "MEMORY_READ", a |-> x, val |-> mem[x]]) /\ mem' = mem
      BY <2>1 DEF MemServe
    <3>2. QED BY <1>1, <1>5, <3>1
  <2>2. CASE Head(memPend[x]).type # "MEMORY_READ"
    <3>1. /\ memQ' = Append(memQ, [type |-> "MEMORY_WB", a |-> x, val |-> 0])
          /\ mem' = [mem EXCEPT ![x] = Head(memPend[x]).val]
      BY <2>2 DEF MemServe
    <3>2. QED BY <1>1, <1>5, <3>1
  <2>3. QED BY <2>1, <2>2
<1>7. QED
  BY <1>4, <1>6 DEF MemServe, TypeInv, TypeOK, L1TypeOK, BuffersTypeOK, DirTypeOK, MemTypeOK,
     HistoryTypeOK, RequestorsKnown, CounterStates, l1Vars, chanVars, dirVars, ghostVars

\* No transition of an L1 disturbs the whole invariant.
LEMMA L1Inv ==
    ASSUME TypeInv, NEW c \in Cores, L1Next(c) PROVE TypeInv'
<1>1. TypeOK' BY L1Type DEF TypeInv
<1>2. UNCHANGED <<dir, tbe, waitQ>>
  BY DEF L1Next, CoreIssue, Miss, LoadHit, Renew, Upgrade, OwnerLoad, OwnerStore,
         MandatoryStall, MandatoryPanic, EvictShared, EvictOwned, EvictStall, ShRep,
         RenewRep, ExRepMiss, ExRepUpgrade, UpgRep, AckRep, CompleteStore, FlushReq,
         FlushReqEvicting, FlushReqPanic, L1Unchanged, chanVars, dirVars
<1>3. QED BY <1>1, <1>2 DEF TypeInv, RequestorsKnown, CounterStates

\* The initial states satisfy TypeInv.
LEMMA InitType == Init => TypeInv
<1> SUFFICES ASSUME Init PROVE TypeInv OBVIOUS
<1>1. L1TypeOK
  <2>1. NewEntry \in L1Entry BY NumbersAssumption DEF NewEntry, L1Entry, L1States
  <2>2. QED BY <2>1, NumbersAssumption DEF Init, L1TypeOK
<1>2. BuffersTypeOK /\ IsFiniteSet(waitQ) BY FS_EmptySet DEF Init, BuffersTypeOK
<1>3. DirTypeOK
  <2>1. [st |-> "I", wts |-> 0, rts |-> 0, owner |-> {}] \in DirEntry
    BY DEF DirEntry, DirStates
  <2>2. NoTBE \in TBE /\ NoLLC \in LLCEntry /\ NoAuth \in AuthTBE
    BY DEF NoTBE, TBE, NoLLC, LLCEntry, NoAuth, AuthTBE
  <2>3. QED BY <2>1, <2>2 DEF Init, DirTypeOK
<1>4. MemTypeOK /\ HistoryTypeOK BY DEF Init, MemTypeOK, HistoryTypeOK
<1>5. RequestorsKnown /\ CounterStates
  BY DEF Init, RequestorsKnown, CounterStates, Granting, Addrs
<1>6. QED BY <1>1, <1>2, <1>3, <1>4, <1>5 DEF TypeInv, TypeOK

\* Every step keeps TypeInv.
LEMMA NextType == TypeInv /\ [Next]_vars => TypeInv'
<1> SUFFICES ASSUME TypeInv, [Next]_vars PROVE TypeInv' OBVIOUS
<1>1. CASE \E c \in Cores : L1Next(c) BY <1>1, L1Inv
<1>2. CASE DirNext BY <1>2, DirType
<1>3. CASE \E x \in Addrs : MemServe(x) BY <1>3, MemServeType
<1>4. CASE Stop \/ UNCHANGED vars BY <1>4, FaultInv DEF Stop, vars
<1>5. QED BY <1>1, <1>2, <1>3, <1>4 DEF Next

\* Every variable keeps its type, every grant knows its requestor, and no counter
\* is ever shared, owned or granted, whatever the cores, lines and trees.
THEOREM TypeCorrect == Spec => []TypeInv
<1>1. Init => TypeInv BY InitType
<1>2. TypeInv /\ [Next]_vars => TypeInv' BY NextType
<1>3. QED BY <1>1, <1>2, PTL DEF Spec

-----------------------------------------------------------------------------
(* Clocks.                                                                 *)

ClockStep == /\ \A c \in Cores : lts'[c] >= lts[c] /\ sts'[c] >= sts[c]
             /\ mts' >= mts

\* A core that sets its timestamps to no less than they were.
LEMMA SetClocksAdvances ==
    ASSUME TypeOK, NEW c \in Cores, NEW l \in Nat, NEW s \in Nat, SetClocks(c, l, s),
           l >= lts[c], s >= sts[c], mts' = mts
    PROVE  ClockStep
BY DEF TypeOK, L1TypeOK, DirTypeOK, SetClocks, ClockStep

\* A step that keeps lts and sts and does not lower mts moves no clock backwards.
LEMMA ClocksRest ==
    ASSUME TypeOK, lts' = lts, sts' = sts, mts' >= mts
    PROVE  ClockStep
BY DEF TypeOK, L1TypeOK, ClockStep

\* Serving the mandatory queue moves no clock backwards, barrier and livelock
\* tick included.
LEMMA MandatoryClocks ==
    ASSUME TypeOK, NEW c \in Cores,
           \/ Miss(c) \/ LoadHit(c) \/ Renew(c) \/ Upgrade(c)
           \/ OwnerLoad(c) \/ OwnerStore(c) \/ MandatoryStall(c)
    PROVE  ClockStep
<1>1. Pending(c) /\ mts' = mts
  BY DEF Miss, LoadHit, Renew, Upgrade, OwnerLoad, OwnerStore, MandatoryStall, Mandatory,
         L1Unchanged, dirVars
<1> DEFINE pk == Peek(c)
<1>2. /\ pk.lts \in Nat /\ pk.lts >= lts[c]
      /\ pk.sts \in Nat /\ pk.sts >= sts[c]
      /\ pk.e \in L1Entry /\ lts[c] \in Nat /\ sts[c] \in Nat
  BY <1>1, PeekType DEF TypeOK, L1TypeOK
<1>3. pk.e.wts \in Nat BY <1>2 DEF L1Entry
<1> DEFINE hit == Max2(pk.lts, pk.e.wts)
<1>4. hit \in Nat /\ hit >= pk.lts BY <1>2, <1>3, MaxType
<1>5. /\ Stored(pk.e, pk.sts).wts \in Nat
      /\ Stored(pk.e, pk.sts).wts >= pk.sts
  BY <1>2, StoredType DEF L1Entry
<1> DEFINE new == Stored(pk.e, pk.sts).wts
<1>6. \/ SetClocks(c, pk.lts, pk.sts)
      \/ SetClocks(c, hit, pk.sts)
      \/ SetClocks(c, pk.lts, new)
  BY DEF Miss, LoadHit, Renew, Upgrade, OwnerLoad, OwnerStore, MandatoryStall
<1>7. hit >= lts[c] /\ new >= sts[c] BY <1>2, <1>4, <1>5
<1> HIDE DEF pk, hit, new
<1>8. pk.lts \in Nat /\ pk.sts \in Nat /\ hit \in Nat /\ new \in Nat
  BY <1>2, <1>4, <1>5 DEF new, pk
<1>9. QED BY <1>1, <1>2, <1>6, <1>7, <1>8, SetClocksAdvances

\* An L1 eviction moves no clock backwards.
LEMMA EvictionClocks ==
    ASSUME TypeOK, NEW c \in Cores, NEW v \in Lines,
           EvictShared(c, v) \/ EvictOwned(c, v) \/ EvictStall(c, v)
    PROVE  ClockStep
<1>1. Pending(c) /\ SetClocks(c, BarrierLts(c), BarrierSts(c)) /\ mts' = mts
  BY DEF EvictShared, EvictOwned, EvictStall, Victim, L1Unchanged, dirVars
<1>2. QED BY <1>1, BarrierType, SetClocksAdvances

\* A reply moves the clocks of its core forwards only.
LEMMA ResponseClocks ==
    ASSUME TypeOK, NEW c \in Cores, NEW m \in rep,
           \/ ShRep(c, m) \/ RenewRep(c, m) \/ ExRepMiss(c, m)
           \/ ExRepUpgrade(c, m) \/ UpgRep(c, m) \/ AckRep(c, m)
    PROVE  ClockStep
<1>1. m \in ToCache BY DEF TypeOK, BuffersTypeOK
<1>2. m.a \in Lines /\ m.wts \in Nat /\ m.rts \in Nat /\ m.val \in Nat BY <1>1 DEF ToCache
<1> DEFINE e == Entry(c, m.a)
<1>3. e \in L1Entry BY <1>2, EntryType
<1>4. lts[c] \in Nat /\ sts[c] \in Nat BY DEF TypeOK, L1TypeOK
<1>5. mts' = mts /\ mts \in Nat
  BY DEF ShRep, RenewRep, ExRepMiss, ExRepUpgrade, UpgRep, AckRep, CompleteStore,
         L1Unchanged, dirVars, TypeOK, DirTypeOK
<1>6. ASSUME NEW w \in Nat, SetClocks(c, Max2(lts[c], w), sts[c]) PROVE ClockStep
  <2>1. Max2(lts[c], w) \in Nat /\ Max2(lts[c], w) >= lts[c] BY <1>4, MaxType
  <2>2. QED BY <1>4, <1>5, <1>6, <2>1, SetClocksAdvances
<1>7. CASE ShRep(c, m) BY <1>2, <1>6, <1>7 DEF ShRep
<1>8. CASE RenewRep(c, m)
  <2>1. e.wts \in Nat BY <1>3 DEF L1Entry
  <2>2. QED BY <1>6, <1>8, <2>1 DEF RenewRep
<1>9. ASSUME NEW f \in L1Entry, CompleteStore(c, m, f) PROVE ClockStep
  <2>1. Stored(f, sts[c]).wts \in Nat /\ Stored(f, sts[c]).wts >= sts[c]
    BY <1>4, StoredType DEF L1Entry
  <2>2. SetClocks(c, lts[c], Stored(f, sts[c]).wts) BY <1>9 DEF CompleteStore
  <2>3. QED BY <1>4, <1>5, <2>1, <2>2, SetClocksAdvances
<1>10. CASE ExRepMiss(c, m)
  <2>1. [e EXCEPT !.val = m.val, !.wts = m.wts, !.rts = m.rts] \in L1Entry
    BY <1>2, <1>3 DEF L1Entry
  <2>2. QED BY <1>9, <1>10, <2>1 DEF ExRepMiss
<1>11. CASE ExRepUpgrade(c, m)
  <2>1. [e EXCEPT !.val = m.val] \in L1Entry BY <1>2, <1>3 DEF L1Entry
  <2>2. QED BY <1>9, <1>11, <2>1 DEF ExRepUpgrade
<1>12. CASE UpgRep(c, m)
  <2>1. [e EXCEPT !.rts = m.rts] \in L1Entry BY <1>2, <1>3 DEF L1Entry
  <2>2. QED BY <1>9, <1>12, <2>1 DEF UpgRep
<1>13. CASE AckRep(c, m) BY <1>5, <1>13, ClocksRest DEF AckRep
<1>14. QED BY <1>7, <1>8, <1>10, <1>11, <1>12, <1>13

\* No transition of an L1 moves a clock backwards.
LEMMA L1Clocks ==
    ASSUME TypeOK, NEW c \in Cores, L1Next(c) PROVE ClockStep
<1>1. mts \in Nat BY DEF TypeOK, DirTypeOK
<1>2. CASE CoreIssue(c) \/ MandatoryPanic(c)
  BY <1>1, <1>2, ClocksRest DEF CoreIssue, MandatoryPanic, l1Vars, dirVars
<1>3. CASE \/ Miss(c) \/ LoadHit(c) \/ Renew(c) \/ Upgrade(c)
           \/ OwnerLoad(c) \/ OwnerStore(c) \/ MandatoryStall(c)
  BY <1>3, MandatoryClocks
<1>4. CASE \E v \in Lines : EvictShared(c, v) \/ EvictOwned(c, v) \/ EvictStall(c, v)
  BY <1>4, EvictionClocks
<1>5. CASE \E m \in rep : \/ ShRep(c, m) \/ RenewRep(c, m) \/ ExRepMiss(c, m)
                         \/ ExRepUpgrade(c, m) \/ UpgRep(c, m) \/ AckRep(c, m)
  BY <1>5, ResponseClocks
<1>6. CASE \E m \in fwd : FlushReq(c, m) \/ FlushReqEvicting(c, m) \/ FlushReqPanic(c, m)
  BY <1>1, <1>6, ClocksRest
     DEF FlushReq, FlushReqEvicting, FlushReqPanic, L1Unchanged, l1Vars, dirVars
<1>7. QED BY <1>2, <1>3, <1>4, <1>5, <1>6 DEF L1Next

\* No transition of the directory moves a clock backwards.
LEMMA DirClocks ==
    ASSUME TypeInv, DirNext PROVE ClockStep
<1>1. mts \in Nat /\ TypeOK BY MtsType DEF TypeInv
<1>2. ASSUME rspQ # <<>>, AdvanceMts PROVE mts' >= mts
  BY <1>1, <1>2, RspType, MaxType DEF AdvanceMts
<1>3. CASE RequestPort
  BY <1>1, <1>3, ClocksRest
     DEF RequestPort, FetchFromMemory, HitShared, HitExclusive, UpgradeOwner, WritebackOwner,
         FlushOwner, AuthMiss, AuthWait, Bounce, RequestStall, RequestPanic, DirUnchanged,
         l1Vars, dirVars
<1>4. CASE ResponsePort
  <2>1. lts' = lts /\ sts' = sts
    BY <1>4 DEF ResponsePort, TakeBack, GrantAfterWriteback, GrantAfterFlush,
         FlushedVictimWrittenBack, FlushedVictimAwaitsCounter, FlushedVictim, ResponseBounce,
         ResponseStall, DirUnchanged, l1Vars
  <2>2. rspQ # <<>> /\ (AdvanceMts \/ mts' = mts)
    BY <1>4 DEF ResponsePort, TakeBack, GrantAfterWriteback, GrantAfterFlush,
         FlushedVictimWrittenBack, FlushedVictimAwaitsCounter, FlushedVictim, ResponseBounce,
         ResponseStall, AtResponse
  <2>3. QED BY <1>1, <1>2, <2>1, <2>2, ClocksRest
<1>5. CASE MemoryPort
  <2>1. lts' = lts /\ sts' = sts /\ mts' = mts
    <3>1. CASE CounterData BY <3>1, Zenon DEF CounterData, DirUnchanged, l1Vars
    <3>2. CASE GrantShared \/ GrantExclusive \/ EvictionDone \/ MemoryPanic
      BY <3>2 DEF GrantShared, GrantExclusive, EvictionDone, MemoryPanic, DirUnchanged,
         l1Vars, dirVars
    <3>3. QED BY <1>5, <3>1, <3>2 DEF MemoryPort
  <2>2. QED BY <1>1, <2>1, ClocksRest
<1>6. CASE \E v \in Addrs : Replacement(v)
  <2>1. lts' = lts /\ sts' = sts
    BY <1>6 DEF Replacement, EvictClean, EvictDirty, EvictCounter, EvictAwaitingCounter,
         EvictCounterAwaitingParent, EvictOwnedLine, ReplacePanic, DirUnchanged, l1Vars
  <2>2. mts' = mts \/ (rspQ # <<>> /\ AdvanceMts)
    BY <1>6 DEF Replacement, EvictClean, EvictDirty, EvictCounter, EvictAwaitingCounter,
         EvictCounterAwaitingParent, EvictOwnedLine, ReplacePanic, Replace,
         ResponseNeedsRoom, dirVars
  <2>3. QED BY <1>1, <1>2, <2>1, <2>2, ClocksRest
<1>7. QED BY <1>3, <1>4, <1>5, <1>6 DEF DirNext

\* No logical clock of a core or of the directory ever runs backwards, whatever
\* barriers, polls and evictions do to it.
THEOREM ClocksNeverRunBack == Spec => ClocksAdvance
<1>1. TypeInv /\ [Next]_vars => [ClockStep]_vars
  <2> SUFFICES ASSUME TypeInv, Next PROVE ClockStep \/ UNCHANGED vars OBVIOUS
  <2>1. TypeOK /\ mts \in Nat BY MtsType DEF TypeInv
  <2>2. CASE \E c \in Cores : L1Next(c) BY <2>1, <2>2, L1Clocks
  <2>3. CASE DirNext BY <2>3, DirClocks
  <2>4. CASE \E x \in Addrs : MemServe(x)
    BY <2>1, <2>4, ClocksRest DEF MemServe, l1Vars, dirVars
  <2>5. CASE Stop BY <2>5 DEF Stop
  <2>6. QED BY <2>2, <2>3, <2>4, <2>5 DEF Next
<1>2. QED BY <1>1, TypeCorrect, PTL DEF Spec, ClocksAdvance, ClockStep

-----------------------------------------------------------------------------
(* Ownership of lines.                                                     *)

-----------------------------------------------------------------------------
(* The invariant of ownership.                                             *)

\* The requests of the caches that the directory has not taken up, and the responses
\* it has not processed.
Open == {reqQ[i] : i \in 1..Len(reqQ)} \cup waitQ
Back == {rspQ[i] : i \in 1..Len(rspQ)}

\* No request is in two places, no line has two write backs on their way.
NoRequestTwice ==
    /\ \A i, j \in 1..Len(reqQ) : reqQ[i] = reqQ[j] => i = j
    /\ \A i \in 1..Len(reqQ) : reqQ[i] \notin waitQ
NoResponseTwice == \A i, j \in 1..Len(rspQ) : rspQ[i].a = rspQ[j].a => i = j

\* What core c has of line x, and what is under way for x.
State(c, x) == l1[c][x].st
OpenOf(x) == {r \in Open : r.a = x}
BackOf(x) == {b \in Back : b.a = x}
RepOf(x)  == {m \in rep : m.a = x}
FwdOf(x)  == {f \in fwd : f.a = x}

\* A grant of ownership; the directory states of a line that is out; those that
\* record an owner.
IsGrant(m) == m.type \in {"EX_REP", "UPGR_REP"}
OutStates == {"E", "E_Fetch_Auth", "ES", "EE", "E_Evict_Flush"}
Recorded == {"E", "E_Fetch_Auth", "E_Evict_Flush"}

\* Core c holds the right to write x, or has it on the way to or from it.
Holds(c, x) ==
    \/ State(c, x) = "E"
    \/ \E m \in RepOf(x) : IsGrant(m) /\ m.to = c
    \/ \E b \in BackOf(x) : b.from = c

\* The right to write x is one token, out exactly while the directory says so.
OneToken(x) ==
    /\ \A c, d \in Cores : State(c, x) = "E" /\ State(d, x) = "E" => c = d
    /\ \A m, n \in RepOf(x) : IsGrant(m) /\ IsGrant(n) => m = n
    /\ \A b, d \in BackOf(x) : b = d
    /\ \A c \in Cores, m \in RepOf(x) : ~(State(c, x) = "E" /\ IsGrant(m))
    /\ \A c \in Cores, b \in BackOf(x) : State(c, x) # "E"
    /\ \A m \in RepOf(x), b \in BackOf(x) : ~IsGrant(m)
    /\ dir[x].st \in OutStates <=> \E c \in Cores : Holds(c, x)

\* The owners recorded are the holders, in the states that record one.
OwnerKnown(x) ==
    \A c \in Cores : c \in dir[x].owner <=> dir[x].st \in Recorded /\ Holds(c, x)

\* A recall finds its line in E or on its way out, or overtakes the grant; none is
\* under way to an owner that has not been recalled, and none twice.
RecallsReach(x) ==
    /\ \A f \in FwdOf(x) :
         /\ \/ State(f.to, x) \in {"E", "EI"}
            \/ \E m \in RepOf(x) : IsGrant(m) /\ m.to = f.to
         /\ dir[x].st \in OwnedStates => f.to \notin dir[x].owner
    /\ \A f, g \in FwdOf(x) : f.to = g.to => f = g

\* A write back of its own accord leaves the L1 in EI until it is acknowledged, and
\* nothing else for that line is under way to or from the L1 then.
WriteBacksAcked(x) ==
    /\ \A b \in BackOf(x) : dir[x].st \in OwnedStates => State(b.from, x) = "EI"
    /\ \A m \in RepOf(x) : m.type = "ACK_REP" =>
         /\ \A f \in FwdOf(x) : f.to # m.to
         /\ \A b \in BackOf(x) : b.from # m.to

\* What the copy of a core is when it asks with timestamp w.
AsksToRead(c, x, w) ==
    State(c, x) \in {"IS", "S_EXP"} /\ (w > 0 => State(c, x) = "S_EXP" /\ l1[c][x].wts = w)
AsksToWrite(c, x, w) == State(c, x) \in {"IE", "SE"} /\ (w > 0 => State(c, x) = "SE")

\* An open request is one its core is waiting for ...
RequestsMatch(x) ==
    \A r \in OpenOf(x) :
        IF r.type = "SH_REQ" THEN AsksToRead(r.from, x, r.wts) ELSE AsksToWrite(r.from, x, r.wts)

\* ... as is the one a TBE stands for ...
TBEMatches(x) ==
    /\ dir[x].st = "IS" => AsksToRead(tbe[x].req, x, tbe[x].wts)
    /\ dir[x].st = "ES" => AsksToRead(tbe[x].req, x, 0)
    /\ dir[x].st \in {"IE", "SE", "EE"} => AsksToWrite(tbe[x].req, x, 0)

\* ... and every reply is the one its core awaits, with a lease in order.
RepliesMatch(x) ==
    \A m \in RepOf(x) :
        /\ m.type \in Awaited(State(m.to, x))
        /\ m.type = "RENEW_REP" => l1[m.to][x].wts <= m.rts
        /\ m.type \in {"SH_REP", "EX_REP"} => m.wts <= m.rts

\* A core has one transaction for a line: an open request, a TBE, or a reply.
OneTransaction(x) ==
    /\ \A r, s \in OpenOf(x) : r.from = s.from => r = s
    /\ \A r \in OpenOf(x) : dir[x].st \in Granting => tbe[x].req # r.from
    /\ \A m \in RepOf(x) : m.type # "ACK_REP" =>
         /\ \A r \in OpenOf(x) : r.from # m.to
         /\ dir[x].st \in Granting => tbe[x].req # m.to
    /\ \A m, n \in RepOf(x) : m.to = n.to => m = n

\* No lease ends before it begins.
LeasesOrdered(x) ==
    /\ \A c \in Cores : l1[c][x].wts <= l1[c][x].rts
    /\ dir[x].wts <= dir[x].rts
    /\ \A b \in BackOf(x) : b.wts <= b.rts

\* What holds of a line.
LineInv(x) ==
    /\ OneToken(x) /\ OwnerKnown(x) /\ RecallsReach(x) /\ WriteBacksAcked(x)
    /\ RequestsMatch(x) /\ TBEMatches(x) /\ RepliesMatch(x) /\ OneTransaction(x) /\ LeasesOrdered(x)

\* The states of a copy that is being asked for.
Asking == {"IS", "IE", "SE", "S_EXP"}

\* A core queues one access per line, and none to a line it is asking for: a load
\* there would poll a lease it does not have.
QueueInv(c) ==
    /\ \A i, j \in 1..Len(mq[c]) : mq[c][i].a = mq[c][j].a => i = j
    /\ \A i \in 1..Len(mq[c]) : State(c, mq[c][i].a) \notin Asking

\* A line in transition to or from memory is not in the LLC, a counter in C_M is
\* dirty there, and one being read is not cached.
Uncached == {"IS", "IE", "SE", "E_Evict_Flush"} \cup FetchAuth \cup EvictAuth \cup Evicting
CacheInv ==
    /\ \A x \in Addrs : dir[x].st \in Uncached => llc[x].st = "none"
    /\ \A x \in Addrs : dir[x].st = "C_M" => llc[x].st = "dirty"
    /\ \A q \in Counters : auth[q].busy => llc[q].st = "none"

\* The ownership invariant.
OwnInv ==
    /\ NoRequestTwice /\ NoResponseTwice
    /\ \A x \in Lines : LineInv(x)
    /\ \A c \in Cores : QueueInv(c)
    /\ CacheInv
    /\ OnlyKnownFaults

-----------------------------------------------------------------------------
(* A line that nothing happens to.                                         *)

\* The classes of directory states the invariant tells apart.
SameClass(st, new) ==
    /\ st \in OutStates <=> new \in OutStates
    /\ st \in Recorded <=> new \in Recorded
    /\ new \in OwnedStates => st \in OwnedStates
    /\ new \in Granting => new = st

\* A line none of whose messages, copies and records changes but for what a hit
\* or the wait for a counter changes.
Kept(x) ==
    /\ \A c \in Cores : /\ l1'[c][x].st = l1[c][x].st
                        /\ l1[c][x].st # "E" => l1'[c][x].wts = l1[c][x].wts
                        /\ l1'[c][x].wts <= l1'[c][x].rts
    /\ OpenOf(x)' = OpenOf(x) /\ BackOf(x)' = BackOf(x)
    /\ RepOf(x)' = RepOf(x) /\ FwdOf(x)' = FwdOf(x)
    /\ SameClass(dir[x].st, dir'[x].st)
    /\ dir'[x].owner = dir[x].owner
    /\ dir'[x].wts <= dir'[x].rts
    /\ dir'[x].st \in Granting => tbe'[x] = tbe[x]

\* What the views of a line hold is typed, and so are its entry, its TBE and its copies.
LEMMA ViewTypes ==
    ASSUME TypeInv, NEW x \in Lines
    PROVE  /\ \A r \in OpenOf(x) : r \in Request /\ r.from \in Cores /\ r.a = x
           /\ \A b \in BackOf(x) : b \in FromCache /\ b.from \in Cores /\ b.a = x
           /\ \A m \in RepOf(x) : m \in ToCache /\ m.to \in Cores /\ m.a = x
           /\ \A f \in FwdOf(x) : f \in Forward /\ f.to \in Cores /\ f.a = x
           /\ dir[x] \in DirEntry /\ tbe[x] \in TBE
           /\ dir[x].st \in Granting => tbe[x].req \in Cores
           /\ \A c \in Cores : l1[c][x] \in L1Entry
<1>1. x \in Addrs BY DEF Addrs
<1>2. /\ reqQ \in Seq(Request) /\ waitQ \subseteq Request /\ rspQ \in Seq(FromCache)
      /\ rep \subseteq ToCache /\ fwd \subseteq Forward
  BY DEF TypeInv, TypeOK, BuffersTypeOK
<1>3. \A r \in OpenOf(x) : r \in Request /\ r.from \in Cores /\ r.a = x
  <2>1. \A i \in 1..Len(reqQ) : reqQ[i] \in Request BY <1>2
  <2>2. Open \subseteq Request BY <1>2, <2>1 DEF Open
  <2>3. QED BY <2>2 DEF OpenOf, Request
<1>4. \A b \in BackOf(x) : b \in FromCache /\ b.from \in Cores /\ b.a = x
  <2>1. \A i \in 1..Len(rspQ) : rspQ[i] \in FromCache BY <1>2
  <2>2. Back \subseteq FromCache BY <2>1 DEF Back
  <2>3. QED BY <2>2 DEF BackOf, FromCache
<1>5. \A m \in RepOf(x) : m \in ToCache /\ m.to \in Cores /\ m.a = x
  BY <1>2 DEF RepOf, ToCache
<1>6. \A f \in FwdOf(x) : f \in Forward /\ f.to \in Cores /\ f.a = x
  BY <1>2 DEF FwdOf, Forward
<1>7. dir[x] \in DirEntry /\ tbe[x] \in TBE /\ (dir[x].st \in Granting => tbe[x].req \in Cores)
  BY <1>1 DEF TypeInv, TypeOK, DirTypeOK, RequestorsKnown
<1>8. \A c \in Cores : l1[c][x] \in L1Entry BY DEF TypeInv, TypeOK, L1TypeOK
<1>9. QED BY <1>3, <1>4, <1>5, <1>6, <1>7, <1>8

\* A line that is kept in this sense keeps its invariant.
LEMMA LineKept ==
    ASSUME TypeInv, NEW x \in Lines, LineInv(x), Kept(x)
    PROVE  LineInv(x)'
<1> USE ViewTypes DEF Kept
<1>1. OneToken(x)' BY DEF LineInv, OneToken, SameClass, Holds, State
<1>2. OwnerKnown(x)' BY DEF LineInv, OwnerKnown, SameClass, Holds, State
<1>3. RecallsReach(x)' BY DEF LineInv, RecallsReach, SameClass, State
<1>4. WriteBacksAcked(x)' BY DEF LineInv, WriteBacksAcked, SameClass, State
<1>5. RequestsMatch(x)' BY DEF LineInv, RequestsMatch, AsksToRead, AsksToWrite, State
<1>6. TBEMatches(x)' BY DEF LineInv, TBEMatches, SameClass, AsksToRead, AsksToWrite, State, Granting
<1>7. RepliesMatch(x)' BY DEF LineInv, RepliesMatch, State, Awaited
<1>8. OneTransaction(x)' BY DEF LineInv, OneTransaction, SameClass
<1>9. LeasesOrdered(x)' BY DEF LineInv, LeasesOrdered
<1>10. QED BY <1>1, <1>2, <1>3, <1>4, <1>5, <1>6, <1>7, <1>8, <1>9 DEF LineInv

-----------------------------------------------------------------------------
(* What becomes of a line: steps of a core.                                *)

\* Of the copies of a line, that of core c becomes e.
CopyStep(c, x, e) == \A d \in Cores : l1'[d][x] = IF d = c THEN e ELSE l1[d][x]
DirKept(x) == dir'[x] = dir[x] /\ tbe'[x] = tbe[x]

\* A core asks for a line it does not hold.
LEMMA LineAsked ==
    ASSUME TypeInv, NEW x \in Lines, LineInv(x), NEW c \in Cores, NEW e \in L1Entry,
           CopyStep(c, x, e), DirKept(x), State(c, x) \in {"I", "S_LSD"}, e.wts <= e.rts,
           NEW r, OpenOf(x)' = OpenOf(x) \cup {r}, r.from = c,
           IF r.type = "SH_REQ" THEN e.st \in {"IS", "S_EXP"} /\ (r.wts > 0 => e.st = "S_EXP" /\ e.wts = r.wts)
                                ELSE e.st \in {"IE", "SE"} /\ (r.wts > 0 => e.st = "SE"),
           BackOf(x)' = BackOf(x), RepOf(x)' = RepOf(x), FwdOf(x)' = FwdOf(x)
    PROVE  LineInv(x)'
<1> USE ViewTypes DEF CopyStep, DirKept
<1>1. OneToken(x)' BY DEF LineInv, OneToken, Holds, State, IsGrant, OutStates
<1>2. OwnerKnown(x)'
  BY DEF LineInv, OneToken, OwnerKnown, Holds, State, IsGrant, Recorded, OutStates
<1>3. RecallsReach(x)'
  BY DEF LineInv, RecallsReach, OwnerKnown, OneToken, Holds, State, IsGrant, OwnedStates, Recorded
<1>4. WriteBacksAcked(x)'
  BY
    DEF LineInv, WriteBacksAcked, RecallsReach, OwnerKnown, OneToken, Holds, State, OwnedStates, IsGrant, Recorded
<1>5. RequestsMatch(x)'
  BY DEF LineInv, RequestsMatch, OneTransaction, AsksToRead, AsksToWrite, State
<1>6. TBEMatches(x)'
  BY
    DEF LineInv, TBEMatches, RequestsMatch, OneTransaction, AsksToRead, AsksToWrite, State, Granting
<1>7. RepliesMatch(x)'
  BY
    DEF LineInv, RepliesMatch, RequestsMatch, TBEMatches, OneTransaction, AsksToRead, AsksToWrite, State, Awaited
<1>8. OneTransaction(x)'
  BY
    DEF LineInv, OneTransaction, RepliesMatch, RequestsMatch, TBEMatches, AsksToRead, AsksToWrite, State, Awaited, Granting
<1>9. LeasesOrdered(x)' BY DEF LineInv, LeasesOrdered
<1>10. QED BY <1>1, <1>2, <1>3, <1>4, <1>5, <1>6, <1>7, <1>8, <1>9 DEF LineInv

\* A core drops a leased copy.
LEMMA LineDropped ==
    ASSUME TypeInv, NEW x \in Lines, LineInv(x), NEW c \in Cores, NEW e \in L1Entry,
           CopyStep(c, x, e), DirKept(x), State(c, x) = "S_LSD", e.st = "I", e.wts <= e.rts,
           OpenOf(x)' = OpenOf(x), BackOf(x)' = BackOf(x), RepOf(x)' = RepOf(x), FwdOf(x)' = FwdOf(x)
    PROVE  LineInv(x)'
<1> USE ViewTypes DEF CopyStep, DirKept
<1>1. OneToken(x)' BY DEF LineInv, OneToken, Holds, State, IsGrant, OutStates
<1>2. OwnerKnown(x)'
  BY DEF LineInv, OneToken, OwnerKnown, Holds, State, IsGrant, Recorded, OutStates
<1>3. RecallsReach(x)'
  BY DEF LineInv, RecallsReach, OwnerKnown, OneToken, Holds, State, IsGrant, OwnedStates, Recorded
<1>4. WriteBacksAcked(x)'
  BY
    DEF LineInv, WriteBacksAcked, RecallsReach, OwnerKnown, OneToken, Holds, State, OwnedStates, IsGrant, Recorded
<1>5. RequestsMatch(x)'
  BY DEF LineInv, RequestsMatch, OneTransaction, AsksToRead, AsksToWrite, State
<1>6. TBEMatches(x)'
  BY
    DEF LineInv, TBEMatches, RequestsMatch, OneTransaction, AsksToRead, AsksToWrite, State, Granting
<1>7. RepliesMatch(x)'
  BY
    DEF LineInv, RepliesMatch, RequestsMatch, TBEMatches, OneTransaction, AsksToRead, AsksToWrite, State, Awaited
<1>8. OneTransaction(x)'
  BY
    DEF LineInv, OneTransaction, RepliesMatch, RequestsMatch, TBEMatches, AsksToRead, AsksToWrite, State, Awaited, Granting
<1>9. LeasesOrdered(x)' BY DEF LineInv, LeasesOrdered
<1>10. QED BY <1>1, <1>2, <1>3, <1>4, <1>5, <1>6, <1>7, <1>8, <1>9 DEF LineInv

\* The owner hands the line back.
LEMMA LineHandedBack ==
    ASSUME TypeInv, NEW x \in Lines, LineInv(x), NEW c \in Cores, NEW e \in L1Entry,
           CopyStep(c, x, e), DirKept(x), State(c, x) = "E", e.wts <= e.rts,
           NEW b, BackOf(x)' = BackOf(x) \cup {b}, b.from = c, b.wts <= b.rts,
           \/ e.st = "EI" /\ FwdOf(x)' = FwdOf(x)
           \/ e.st = "S_LSD" /\ \E f \in FwdOf(x) : f.to = c /\ FwdOf(x)' = FwdOf(x) \ {f},
           OpenOf(x)' = OpenOf(x), RepOf(x)' = RepOf(x)
    PROVE  LineInv(x)'
<1> USE ViewTypes DEF CopyStep, DirKept
<1>1. OneToken(x)' BY DEF LineInv, OneToken, Holds, State, IsGrant, OutStates
<1>2. OwnerKnown(x)'
  BY DEF LineInv, OneToken, OwnerKnown, Holds, State, IsGrant, Recorded, OutStates
<1>3. RecallsReach(x)'
  BY DEF LineInv, RecallsReach, OwnerKnown, OneToken, Holds, State, IsGrant, OwnedStates, Recorded
<1>4. WriteBacksAcked(x)' 
  <2>1. dir[x].st \in OwnedStates => e.st = "EI"
    BY DEF LineInv, RecallsReach, OwnerKnown, Holds, OwnedStates, Recorded, State
  <2>2. \A m \in RepOf(x) : m.to # c BY DEF LineInv, RepliesMatch, Awaited
  <2>3. QED BY <2>1, <2>2 DEF LineInv, WriteBacksAcked, OneToken, OwnedStates, State
<1>5. RequestsMatch(x)'
  BY DEF LineInv, RequestsMatch, OneTransaction, AsksToRead, AsksToWrite, State
<1>6. TBEMatches(x)'
  BY
    DEF LineInv, TBEMatches, RequestsMatch, OneTransaction, AsksToRead, AsksToWrite, State, Granting
<1>7. RepliesMatch(x)'
  BY
    DEF LineInv, RepliesMatch, RequestsMatch, TBEMatches, OneTransaction, AsksToRead, AsksToWrite, State, Awaited
<1>8. OneTransaction(x)'
  BY
    DEF LineInv, OneTransaction, RepliesMatch, RequestsMatch, TBEMatches, AsksToRead, AsksToWrite, State, Awaited, Granting
<1>9. LeasesOrdered(x)' BY DEF LineInv, LeasesOrdered
<1>10. QED BY <1>1, <1>2, <1>3, <1>4, <1>5, <1>6, <1>7, <1>8, <1>9 DEF LineInv

\* A recall finds the line on its way back.
LEMMA LineRecalledEvicting ==
    ASSUME TypeInv, NEW x \in Lines, LineInv(x), NEW c \in Cores, NEW e \in L1Entry,
           CopyStep(c, x, e), DirKept(x), State(c, x) = "EI", e.st = "I", e.wts <= e.rts,
           NEW f \in FwdOf(x), f.to = c, FwdOf(x)' = FwdOf(x) \ {f},
           OpenOf(x)' = OpenOf(x), BackOf(x)' = BackOf(x), RepOf(x)' = RepOf(x)
    PROVE  LineInv(x)'
<1> USE ViewTypes DEF CopyStep, DirKept
<1>1. OneToken(x)' BY DEF LineInv, OneToken, Holds, State, IsGrant, OutStates
<1>2. OwnerKnown(x)'
  BY DEF LineInv, OneToken, OwnerKnown, Holds, State, IsGrant, Recorded, OutStates
<1>3. RecallsReach(x)'
  BY DEF LineInv, RecallsReach, OwnerKnown, OneToken, Holds, State, IsGrant, OwnedStates, Recorded
<1>4. WriteBacksAcked(x)'
  BY
    DEF LineInv, WriteBacksAcked, RecallsReach, OwnerKnown, OneToken, Holds, State, OwnedStates, IsGrant, Recorded
<1>5. RequestsMatch(x)'
  BY DEF LineInv, RequestsMatch, OneTransaction, AsksToRead, AsksToWrite, State
<1>6. TBEMatches(x)'
  BY
    DEF LineInv, TBEMatches, RequestsMatch, OneTransaction, AsksToRead, AsksToWrite, State, Granting
<1>7. RepliesMatch(x)' 
  <2>1. \A m \in RepOf(x) : m.to # c BY DEF LineInv, WriteBacksAcked, RepliesMatch, Awaited
  <2>2. QED BY <2>1 DEF LineInv, RepliesMatch, State
<1>8. OneTransaction(x)'
  BY
    DEF LineInv, OneTransaction, RepliesMatch, RequestsMatch, TBEMatches, AsksToRead, AsksToWrite, State, Awaited, Granting
<1>9. LeasesOrdered(x)' BY DEF LineInv, LeasesOrdered
<1>10. QED BY <1>1, <1>2, <1>3, <1>4, <1>5, <1>6, <1>7, <1>8, <1>9 DEF LineInv

\* A reader gets its lease.
LEMMA LineRead ==
    ASSUME TypeInv, NEW x \in Lines, LineInv(x), NEW c \in Cores, NEW e \in L1Entry,
           CopyStep(c, x, e), DirKept(x), e.wts <= e.rts, e.st = "S_LSD",
           NEW m \in RepOf(x), m.to = c, m.type \in {"SH_REP", "RENEW_REP"}, RepOf(x)' = RepOf(x) \ {m},
           OpenOf(x)' = OpenOf(x), BackOf(x)' = BackOf(x), FwdOf(x)' = FwdOf(x)
    PROVE  LineInv(x)'
<1> USE ViewTypes DEF CopyStep, DirKept
<1>a. State(c, x) \in {"IS", "S_EXP"} BY DEF LineInv, RepliesMatch, Awaited, IsGrant
<1>b. \A n \in RepOf(x) : n.to = c => n = m
  BY DEF LineInv, OneTransaction, IsGrant, RepliesMatch, Awaited
<1>c. /\ \A r \in OpenOf(x) : r.from # c
      /\ dir[x].st \in Granting => tbe[x].req # c
  BY
    DEF LineInv, OneTransaction, IsGrant, RequestsMatch, TBEMatches, AsksToRead, AsksToWrite, Granting
<1>1. OneToken(x)' BY <1>a, <1>b, <1>c DEF LineInv, OneToken, Holds, State, IsGrant, OutStates
<1>2. OwnerKnown(x)'
  BY <1>a, <1>b, <1>c DEF LineInv, OneToken, OwnerKnown, Holds, State, IsGrant, Recorded, OutStates
<1>3. RecallsReach(x)'
  BY <1>a, <1>b, <1>c
    DEF LineInv, RecallsReach, OwnerKnown, OneToken, Holds, State, IsGrant, OwnedStates, Recorded
<1>4. WriteBacksAcked(x)'
  BY <1>a, <1>b, <1>c
    DEF LineInv, WriteBacksAcked, RecallsReach, OwnerKnown, OneToken, Holds, State, OwnedStates, IsGrant, Recorded
<1>5. RequestsMatch(x)'
  BY <1>a, <1>b, <1>c DEF LineInv, RequestsMatch, OneTransaction, AsksToRead, AsksToWrite, State
<1>6. TBEMatches(x)'
  BY <1>a, <1>b, <1>c
    DEF LineInv, TBEMatches, RequestsMatch, OneTransaction, AsksToRead, AsksToWrite, State, Granting
<1>7. RepliesMatch(x)'
  BY <1>a, <1>b, <1>c
    DEF LineInv, RepliesMatch, RequestsMatch, TBEMatches, OneTransaction, AsksToRead, AsksToWrite, State, Awaited
<1>8. OneTransaction(x)'
  BY <1>a, <1>b, <1>c
    DEF LineInv, OneTransaction, RepliesMatch, RequestsMatch, TBEMatches, AsksToRead, AsksToWrite, State, Awaited, Granting
<1>9. LeasesOrdered(x)' BY <1>a, <1>b, <1>c DEF LineInv, LeasesOrdered
<1>10. QED BY <1>1, <1>2, <1>3, <1>4, <1>5, <1>6, <1>7, <1>8, <1>9 DEF LineInv

\* A writer gets the line.
LEMMA LineWritten ==
    ASSUME TypeInv, NEW x \in Lines, LineInv(x), NEW c \in Cores, NEW e \in L1Entry,
           CopyStep(c, x, e), DirKept(x), e.wts <= e.rts, e.st = "E",
           NEW m \in RepOf(x), m.to = c, IsGrant(m), RepOf(x)' = RepOf(x) \ {m},
           OpenOf(x)' = OpenOf(x), BackOf(x)' = BackOf(x), FwdOf(x)' = FwdOf(x)
    PROVE  LineInv(x)'
<1> USE ViewTypes DEF CopyStep, DirKept
<1>a. State(c, x) \in {"IE", "SE"} BY DEF LineInv, RepliesMatch, Awaited, IsGrant
<1>b. \A n \in RepOf(x) : n.to = c => n = m
  BY DEF LineInv, OneTransaction, IsGrant, RepliesMatch, Awaited
<1>c. /\ \A r \in OpenOf(x) : r.from # c
      /\ dir[x].st \in Granting => tbe[x].req # c
  BY
    DEF LineInv, OneTransaction, IsGrant, RequestsMatch, TBEMatches, AsksToRead, AsksToWrite, Granting
<1>1. OneToken(x)' BY <1>a, <1>b, <1>c DEF LineInv, OneToken, Holds, State, IsGrant, OutStates
<1>2. OwnerKnown(x)'
  BY <1>a, <1>b, <1>c DEF LineInv, OneToken, OwnerKnown, Holds, State, IsGrant, Recorded, OutStates
<1>3. RecallsReach(x)'
  BY <1>a, <1>b, <1>c
    DEF LineInv, RecallsReach, OwnerKnown, OneToken, Holds, State, IsGrant, OwnedStates, Recorded
<1>4. WriteBacksAcked(x)'
  BY <1>a, <1>b, <1>c
    DEF LineInv, WriteBacksAcked, RecallsReach, OwnerKnown, OneToken, Holds, State, OwnedStates, IsGrant, Recorded
<1>5. RequestsMatch(x)'
  BY <1>a, <1>b, <1>c DEF LineInv, RequestsMatch, OneTransaction, AsksToRead, AsksToWrite, State
<1>6. TBEMatches(x)'
  BY <1>a, <1>b, <1>c
    DEF LineInv, TBEMatches, RequestsMatch, OneTransaction, AsksToRead, AsksToWrite, State, Granting
<1>7. RepliesMatch(x)'
  BY <1>a, <1>b, <1>c
    DEF LineInv, RepliesMatch, RequestsMatch, TBEMatches, OneTransaction, AsksToRead, AsksToWrite, State, Awaited
<1>8. OneTransaction(x)'
  BY <1>a, <1>b, <1>c
    DEF LineInv, OneTransaction, RepliesMatch, RequestsMatch, TBEMatches, AsksToRead, AsksToWrite, State, Awaited, Granting
<1>9. LeasesOrdered(x)' BY <1>a, <1>b, <1>c DEF LineInv, LeasesOrdered
<1>10. QED BY <1>1, <1>2, <1>3, <1>4, <1>5, <1>6, <1>7, <1>8, <1>9 DEF LineInv

\* A write back is acknowledged.
LEMMA LineAcked ==
    ASSUME TypeInv, NEW x \in Lines, LineInv(x), NEW c \in Cores, NEW e \in L1Entry,
           CopyStep(c, x, e), DirKept(x), e.wts <= e.rts, e.st = "I",
           NEW m \in RepOf(x), m.to = c, m.type = "ACK_REP", RepOf(x)' = RepOf(x) \ {m},
           OpenOf(x)' = OpenOf(x), BackOf(x)' = BackOf(x), FwdOf(x)' = FwdOf(x)
    PROVE  LineInv(x)'
<1> USE ViewTypes DEF CopyStep, DirKept
<1>a. State(c, x) \in {"EI"} BY DEF LineInv, RepliesMatch, Awaited, IsGrant
<1>b. \A n \in RepOf(x) : n.to = c => n = m
  BY <1>a DEF LineInv, OneTransaction, IsGrant, RepliesMatch, Awaited
<1>c. /\ \A r \in OpenOf(x) : r.from # c
      /\ dir[x].st \in Granting => tbe[x].req # c
  BY <1>a
    DEF LineInv, OneTransaction, IsGrant, RequestsMatch, TBEMatches, AsksToRead, AsksToWrite, Granting
<1>1. OneToken(x)' BY <1>a, <1>b, <1>c DEF LineInv, OneToken, Holds, State, IsGrant, OutStates
<1>2. OwnerKnown(x)'
  BY <1>a, <1>b, <1>c DEF LineInv, OneToken, OwnerKnown, Holds, State, IsGrant, Recorded, OutStates
<1>3. RecallsReach(x)' 
  <2>1. \A f \in FwdOf(x) : f.to # c BY DEF LineInv, WriteBacksAcked
  <2>2. QED BY <1>b, <2>1 DEF LineInv, RecallsReach, State, IsGrant
<1>4. WriteBacksAcked(x)'
  BY <1>a, <1>b, <1>c
    DEF LineInv, WriteBacksAcked, RecallsReach, OwnerKnown, OneToken, Holds, State, OwnedStates, IsGrant, Recorded
<1>5. RequestsMatch(x)'
  BY <1>a, <1>b, <1>c DEF LineInv, RequestsMatch, OneTransaction, AsksToRead, AsksToWrite, State
<1>6. TBEMatches(x)'
  BY <1>a, <1>b, <1>c
    DEF LineInv, TBEMatches, RequestsMatch, OneTransaction, AsksToRead, AsksToWrite, State, Granting
<1>7. RepliesMatch(x)'
  BY <1>a, <1>b, <1>c
    DEF LineInv, RepliesMatch, RequestsMatch, TBEMatches, OneTransaction, AsksToRead, AsksToWrite, State, Awaited
<1>8. OneTransaction(x)'
  BY <1>a, <1>b, <1>c
    DEF LineInv, OneTransaction, RepliesMatch, RequestsMatch, TBEMatches, AsksToRead, AsksToWrite, State, Awaited, Granting
<1>9. LeasesOrdered(x)' BY <1>a, <1>b, <1>c DEF LineInv, LeasesOrdered
<1>10. QED BY <1>1, <1>2, <1>3, <1>4, <1>5, <1>6, <1>7, <1>8, <1>9 DEF LineInv

-----------------------------------------------------------------------------
(* What becomes of a line: steps of the directory.                         *)

\* No copy of a line changes.
CopiesKept(x) == \A c \in Cores : l1'[c][x] = l1[c][x]

\* A request is taken up and the line read from memory.
LEMMA LineFetched ==
    ASSUME TypeInv, NEW x \in Lines, LineInv(x), CopiesKept(x),
           NEW r \in OpenOf(x), OpenOf(x)' = OpenOf(x) \ {r},
           dir[x].st \in {"I", "S"}, dir'[x].owner = dir[x].owner, dir'[x].wts <= dir'[x].rts,
           tbe'[x].req = r.from,
           IF r.type = "SH_REQ" THEN dir'[x].st = "IS" /\ tbe'[x].wts = r.wts ELSE dir'[x].st \in {"IE", "SE"},
           BackOf(x)' = BackOf(x), RepOf(x)' = RepOf(x), FwdOf(x)' = FwdOf(x)
    PROVE  LineInv(x)'
<1> USE ViewTypes DEF CopiesKept
<1>1. OneToken(x)' BY DEF LineInv, OneToken, Holds, State, IsGrant, OutStates
<1>2. OwnerKnown(x)'
  BY DEF LineInv, OneToken, OwnerKnown, Holds, State, IsGrant, Recorded, OutStates
<1>3. RecallsReach(x)'
  BY DEF LineInv, RecallsReach, OwnerKnown, OneToken, Holds, State, IsGrant, OwnedStates, Recorded
<1>4. WriteBacksAcked(x)'
  BY
    DEF LineInv, WriteBacksAcked, RecallsReach, OwnerKnown, OneToken, Holds, State, OwnedStates, IsGrant, Recorded
<1>5. RequestsMatch(x)'
  BY DEF LineInv, RequestsMatch, OneTransaction, AsksToRead, AsksToWrite, State
<1>6. TBEMatches(x)'
  BY
    DEF LineInv, TBEMatches, RequestsMatch, OneTransaction, AsksToRead, AsksToWrite, State, Granting
<1>7. RepliesMatch(x)'
  BY
    DEF LineInv, RepliesMatch, RequestsMatch, TBEMatches, OneTransaction, AsksToRead, AsksToWrite, State, Awaited
<1>8. OneTransaction(x)'
  BY
    DEF LineInv, OneTransaction, RepliesMatch, RequestsMatch, TBEMatches, AsksToRead, AsksToWrite, State, Awaited, Granting
<1>9. LeasesOrdered(x)' BY DEF LineInv, LeasesOrdered
<1>10. QED BY <1>1, <1>2, <1>3, <1>4, <1>5, <1>6, <1>7, <1>8, <1>9 DEF LineInv

\* A reader is answered from the LLC.
LEMMA LineLeased ==
    ASSUME TypeInv, NEW x \in Lines, LineInv(x), CopiesKept(x),
           NEW r \in OpenOf(x), OpenOf(x)' = OpenOf(x) \ {r}, r.type = "SH_REQ",
           dir[x].st \in {"I", "S"}, dir'[x].st = "S", dir'[x].owner = dir[x].owner,
           dir'[x].wts <= dir'[x].rts,
           NEW m, m.to = r.from, RepOf(x)' = RepOf(x) \cup {m},
           \/ m.type = "RENEW_REP" /\ r.wts > 0 /\ r.wts <= m.rts
           \/ m.type = "SH_REP" /\ m.wts <= m.rts,
           BackOf(x)' = BackOf(x), FwdOf(x)' = FwdOf(x)
    PROVE  LineInv(x)'
<1> USE ViewTypes DEF CopiesKept
<1>1. OneToken(x)' BY DEF LineInv, OneToken, Holds, State, IsGrant, OutStates
<1>2. OwnerKnown(x)'
  BY DEF LineInv, OneToken, OwnerKnown, Holds, State, IsGrant, Recorded, OutStates
<1>3. RecallsReach(x)'
  BY DEF LineInv, RecallsReach, OwnerKnown, OneToken, Holds, State, IsGrant, OwnedStates, Recorded
<1>4. WriteBacksAcked(x)'
  BY
    DEF LineInv, WriteBacksAcked, RecallsReach, OwnerKnown, OneToken, Holds, State, OwnedStates, IsGrant, Recorded
<1>5. RequestsMatch(x)'
  BY DEF LineInv, RequestsMatch, OneTransaction, AsksToRead, AsksToWrite, State
<1>6. TBEMatches(x)'
  BY
    DEF LineInv, TBEMatches, RequestsMatch, OneTransaction, AsksToRead, AsksToWrite, State, Granting
<1>7. RepliesMatch(x)'
  BY
    DEF LineInv, RepliesMatch, RequestsMatch, TBEMatches, OneTransaction, AsksToRead, AsksToWrite, State, Awaited
<1>8. OneTransaction(x)'
  BY
    DEF LineInv, OneTransaction, RepliesMatch, RequestsMatch, TBEMatches, AsksToRead, AsksToWrite, State, Awaited, Granting
<1>9. LeasesOrdered(x)' BY DEF LineInv, LeasesOrdered
<1>10. QED BY <1>1, <1>2, <1>3, <1>4, <1>5, <1>6, <1>7, <1>8, <1>9 DEF LineInv

\* A writer is granted the line.
LEMMA LineGranted ==
    ASSUME TypeInv, NEW x \in Lines, LineInv(x), CopiesKept(x),
           NEW r \in OpenOf(x), OpenOf(x)' = OpenOf(x) \ {r}, r.type = "EX_REQ",
           dir[x].st \in {"I", "S"}, dir'[x].st = "E", dir'[x].owner = dir[x].owner \cup {r.from},
           dir'[x].wts <= dir'[x].rts,
           NEW m, m.to = r.from, RepOf(x)' = RepOf(x) \cup {m},
           \/ m.type = "UPGR_REP" /\ r.wts > 0
           \/ m.type = "EX_REP" /\ m.wts <= m.rts,
           BackOf(x)' = BackOf(x), FwdOf(x)' = FwdOf(x)
    PROVE  LineInv(x)'
<1> USE ViewTypes DEF CopiesKept
<1>a. /\ State(r.from, x) \in {"IE", "SE"}
      /\ \A n \in RepOf(x) : n.to # r.from
  BY DEF LineInv, RequestsMatch, AsksToWrite, OneTransaction, RepliesMatch, Awaited
<1>b. /\ BackOf(x) = {}
      /\ \A n \in RepOf(x) : ~IsGrant(n)
      /\ \A c \in Cores : State(c, x) # "E"
  BY DEF LineInv, OneToken, OutStates, Holds
<1>c. \A f \in FwdOf(x) : f.to # r.from
  BY <1>a, <1>b DEF LineInv, RecallsReach
<1>1. OneToken(x)' BY <1>a, <1>b, <1>c DEF LineInv, OneToken, Holds, State, IsGrant, OutStates
<1>2. OwnerKnown(x)'
  BY <1>a, <1>b, <1>c DEF LineInv, OneToken, OwnerKnown, Holds, State, IsGrant, Recorded, OutStates
<1>3. RecallsReach(x)'
  BY <1>a, <1>b, <1>c
    DEF LineInv, RecallsReach, OwnerKnown, OneToken, Holds, State, IsGrant, OwnedStates, Recorded
<1>4. WriteBacksAcked(x)'
  BY <1>a, <1>b, <1>c
    DEF LineInv, WriteBacksAcked, RecallsReach, OwnerKnown, OneToken, Holds, State, OwnedStates, IsGrant, Recorded
<1>5. RequestsMatch(x)'
  BY <1>a, <1>b, <1>c DEF LineInv, RequestsMatch, OneTransaction, AsksToRead, AsksToWrite, State
<1>6. TBEMatches(x)'
  BY <1>a, <1>b, <1>c
    DEF LineInv, TBEMatches, RequestsMatch, OneTransaction, AsksToRead, AsksToWrite, State, Granting
<1>7. RepliesMatch(x)'
  BY <1>a, <1>b, <1>c
    DEF LineInv, RepliesMatch, RequestsMatch, TBEMatches, OneTransaction, AsksToRead, AsksToWrite, State, Awaited
<1>8. OneTransaction(x)'
  BY <1>a, <1>b, <1>c
    DEF LineInv, OneTransaction, RepliesMatch, RequestsMatch, TBEMatches, AsksToRead, AsksToWrite, State, Awaited, Granting
<1>9. LeasesOrdered(x)' BY <1>a, <1>b, <1>c DEF LineInv, LeasesOrdered
<1>10. QED BY <1>1, <1>2, <1>3, <1>4, <1>5, <1>6, <1>7, <1>8, <1>9 DEF LineInv

\* The owner is asked for the line on behalf of another core.
LEMMA LineRecalled ==
    ASSUME TypeInv, NEW x \in Lines, LineInv(x), CopiesKept(x),
           NEW r \in OpenOf(x), OpenOf(x)' = OpenOf(x) \ {r},
           dir[x].st = "E", dir'[x].owner = {}, dir'[x].wts <= dir'[x].rts,
           tbe'[x].req = r.from, dir'[x].st = IF r.type = "SH_REQ" THEN "ES" ELSE "EE",
           NEW F, FwdOf(x)' = FwdOf(x) \cup F, \A f \in F : f.to \in dir[x].owner,
           \A f, g \in F : f.to = g.to => f = g,
           BackOf(x)' = BackOf(x), RepOf(x)' = RepOf(x)
    PROVE  LineInv(x)'
<1> USE ViewTypes DEF CopiesKept
<1>a. \A c \in dir[x].owner : /\ c \in Cores
                             /\ \/ State(c, x) \in {"E", "EI"}
                                \/ \E m \in RepOf(x) : IsGrant(m) /\ m.to = c
  BY DEF DirEntry, LineInv, OwnerKnown, Holds, WriteBacksAcked, OwnedStates
<1>b. \A m \in RepOf(x) : m.type = "ACK_REP" => m.to \notin dir[x].owner
  BY DEF LineInv, OwnerKnown, Holds, WriteBacksAcked, OneTransaction, RepliesMatch, Awaited, IsGrant
<1>c. \A f \in FwdOf(x) : f.to \notin dir[x].owner
  BY DEF LineInv, RecallsReach, OwnedStates
<1>1. OneToken(x)' BY <1>a, <1>b, <1>c DEF LineInv, OneToken, Holds, State, IsGrant, OutStates
<1>2. OwnerKnown(x)'
  BY <1>a, <1>b, <1>c DEF LineInv, OneToken, OwnerKnown, Holds, State, IsGrant, Recorded, OutStates
<1>3. RecallsReach(x)'
  BY <1>a, <1>b, <1>c
    DEF LineInv, RecallsReach, OwnerKnown, OneToken, Holds, State, IsGrant, OwnedStates, Recorded
<1>4. WriteBacksAcked(x)'
  BY <1>a, <1>b, <1>c
    DEF LineInv, WriteBacksAcked, RecallsReach, OwnerKnown, OneToken, Holds, State, OwnedStates, IsGrant, Recorded
<1>5. RequestsMatch(x)'
  BY <1>a, <1>b, <1>c DEF LineInv, RequestsMatch, OneTransaction, AsksToRead, AsksToWrite, State
<1>6. TBEMatches(x)'
  BY <1>a, <1>b, <1>c
    DEF LineInv, TBEMatches, RequestsMatch, OneTransaction, AsksToRead, AsksToWrite, State, Granting
<1>7. RepliesMatch(x)'
  BY <1>a, <1>b, <1>c
    DEF LineInv, RepliesMatch, RequestsMatch, TBEMatches, OneTransaction, AsksToRead, AsksToWrite, State, Awaited
<1>8. OneTransaction(x)'
  BY <1>a, <1>b, <1>c
    DEF LineInv, OneTransaction, RepliesMatch, RequestsMatch, TBEMatches, AsksToRead, AsksToWrite, State, Awaited, Granting
<1>9. LeasesOrdered(x)' BY <1>a, <1>b, <1>c DEF LineInv, LeasesOrdered
<1>10. QED BY <1>1, <1>2, <1>3, <1>4, <1>5, <1>6, <1>7, <1>8, <1>9 DEF LineInv

\* The owner is asked for the line on behalf of an eviction.
LEMMA LineFlushed ==
    ASSUME TypeInv, NEW x \in Lines, LineInv(x), CopiesKept(x),
           dir[x].st = "E", dir'[x].st = "E_Evict_Flush", dir'[x].owner = dir[x].owner,
           dir'[x].wts <= dir'[x].rts,
           NEW F, FwdOf(x)' = FwdOf(x) \cup F, \A f \in F : f.to \in dir[x].owner,
           \A f, g \in F : f.to = g.to => f = g,
           OpenOf(x)' = OpenOf(x), BackOf(x)' = BackOf(x), RepOf(x)' = RepOf(x)
    PROVE  LineInv(x)'
<1> USE ViewTypes DEF CopiesKept
<1>a. \A c \in dir[x].owner : /\ c \in Cores
                             /\ \/ State(c, x) \in {"E", "EI"}
                                \/ \E m \in RepOf(x) : IsGrant(m) /\ m.to = c
  BY DEF DirEntry, LineInv, OwnerKnown, Holds, WriteBacksAcked, OwnedStates
<1>b. \A m \in RepOf(x) : m.type = "ACK_REP" => m.to \notin dir[x].owner
  BY DEF LineInv, OwnerKnown, Holds, WriteBacksAcked, OneTransaction, RepliesMatch, Awaited, IsGrant
<1>c. \A f \in FwdOf(x) : f.to \notin dir[x].owner
  BY DEF LineInv, RecallsReach, OwnedStates
<1>1. OneToken(x)' BY <1>a, <1>b, <1>c DEF LineInv, OneToken, Holds, State, IsGrant, OutStates
<1>2. OwnerKnown(x)'
  BY <1>a, <1>b, <1>c DEF LineInv, OneToken, OwnerKnown, Holds, State, IsGrant, Recorded, OutStates
<1>3. RecallsReach(x)'
  BY <1>a, <1>b, <1>c
    DEF LineInv, RecallsReach, OwnerKnown, OneToken, Holds, State, IsGrant, OwnedStates, Recorded
<1>4. WriteBacksAcked(x)'
  BY <1>a, <1>b, <1>c
    DEF LineInv, WriteBacksAcked, RecallsReach, OwnerKnown, OneToken, Holds, State, OwnedStates, IsGrant, Recorded
<1>5. RequestsMatch(x)'
  BY <1>a, <1>b, <1>c DEF LineInv, RequestsMatch, OneTransaction, AsksToRead, AsksToWrite, State
<1>6. TBEMatches(x)'
  BY <1>a, <1>b, <1>c
    DEF LineInv, TBEMatches, RequestsMatch, OneTransaction, AsksToRead, AsksToWrite, State, Granting
<1>7. RepliesMatch(x)'
  BY <1>a, <1>b, <1>c
    DEF LineInv, RepliesMatch, RequestsMatch, TBEMatches, OneTransaction, AsksToRead, AsksToWrite, State, Awaited
<1>8. OneTransaction(x)'
  BY <1>a, <1>b, <1>c
    DEF LineInv, OneTransaction, RepliesMatch, RequestsMatch, TBEMatches, AsksToRead, AsksToWrite, State, Awaited, Granting
<1>9. LeasesOrdered(x)' BY <1>a, <1>b, <1>c DEF LineInv, LeasesOrdered
<1>10. QED BY <1>1, <1>2, <1>3, <1>4, <1>5, <1>6, <1>7, <1>8, <1>9 DEF LineInv

\* The owner has evicted the line.
LEMMA LineTakenBack ==
    ASSUME TypeInv, NEW x \in Lines, LineInv(x), CopiesKept(x),
           NEW b \in BackOf(x), BackOf(x)' = BackOf(x) \ {b},
           dir[x].st = "E", dir'[x].st = "S", dir'[x].owner = {}, dir'[x].wts <= dir'[x].rts,
           NEW m, m.to = b.from, m.type = "ACK_REP", RepOf(x)' = RepOf(x) \cup {m},
           OpenOf(x)' = OpenOf(x), FwdOf(x)' = FwdOf(x)
    PROVE  LineInv(x)'
<1> USE ViewTypes DEF CopiesKept
<1>a. /\ State(b.from, x) = "EI"
      /\ \A n \in RepOf(x) : n.to # b.from
  BY DEF LineInv, WriteBacksAcked, OwnedStates, RepliesMatch, Awaited
<1>b. \A f \in FwdOf(x) : f.to # b.from
  BY DEF LineInv, RecallsReach, OwnerKnown, Holds, Recorded, OwnedStates
<1>c. \A r \in OpenOf(x) : r.from # b.from
  BY <1>a DEF LineInv, RequestsMatch, AsksToRead, AsksToWrite
<1>1. OneToken(x)' BY <1>a, <1>b, <1>c DEF LineInv, OneToken, Holds, State, IsGrant, OutStates
<1>2. OwnerKnown(x)'
  BY <1>a, <1>b, <1>c DEF LineInv, OneToken, OwnerKnown, Holds, State, IsGrant, Recorded, OutStates
<1>3. RecallsReach(x)'
  BY <1>a, <1>b, <1>c
    DEF LineInv, RecallsReach, OwnerKnown, OneToken, Holds, State, IsGrant, OwnedStates, Recorded
<1>4. WriteBacksAcked(x)'
  BY <1>a, <1>b, <1>c
    DEF LineInv, WriteBacksAcked, RecallsReach, OwnerKnown, OneToken, Holds, State, OwnedStates, IsGrant, Recorded
<1>5. RequestsMatch(x)'
  BY <1>a, <1>b, <1>c DEF LineInv, RequestsMatch, OneTransaction, AsksToRead, AsksToWrite, State
<1>6. TBEMatches(x)'
  BY <1>a, <1>b, <1>c
    DEF LineInv, TBEMatches, RequestsMatch, OneTransaction, AsksToRead, AsksToWrite, State, Granting
<1>7. RepliesMatch(x)'
  BY <1>a, <1>b, <1>c
    DEF LineInv, RepliesMatch, RequestsMatch, TBEMatches, OneTransaction, AsksToRead, AsksToWrite, State, Awaited
<1>8. OneTransaction(x)'
  BY <1>a, <1>b, <1>c
    DEF LineInv, OneTransaction, RepliesMatch, RequestsMatch, TBEMatches, AsksToRead, AsksToWrite, State, Awaited, Granting
<1>9. LeasesOrdered(x)' BY <1>a, <1>b, <1>c DEF LineInv, LeasesOrdered
<1>10. QED BY <1>1, <1>2, <1>3, <1>4, <1>5, <1>6, <1>7, <1>8, <1>9 DEF LineInv

\* A line recalled for an eviction arrives.
LEMMA LineArrived ==
    ASSUME TypeInv, NEW x \in Lines, LineInv(x), CopiesKept(x),
           NEW b \in BackOf(x), BackOf(x)' = BackOf(x) \ {b},
           dir[x].st = "E_Evict_Flush", dir'[x].st \in {"I_Evict_Auth", "I_Evicting"},
           dir'[x].owner = {}, dir'[x].wts <= dir'[x].rts,
           OpenOf(x)' = OpenOf(x), RepOf(x)' = RepOf(x), FwdOf(x)' = FwdOf(x)
    PROVE  LineInv(x)'
<1> USE ViewTypes DEF CopiesKept
<1>1. OneToken(x)' BY DEF LineInv, OneToken, Holds, State, IsGrant, OutStates
<1>2. OwnerKnown(x)'
  BY DEF LineInv, OneToken, OwnerKnown, Holds, State, IsGrant, Recorded, OutStates
<1>3. RecallsReach(x)'
  BY DEF LineInv, RecallsReach, OwnerKnown, OneToken, Holds, State, IsGrant, OwnedStates, Recorded
<1>4. WriteBacksAcked(x)'
  BY
    DEF LineInv, WriteBacksAcked, RecallsReach, OwnerKnown, OneToken, Holds, State, OwnedStates, IsGrant, Recorded
<1>5. RequestsMatch(x)'
  BY DEF LineInv, RequestsMatch, OneTransaction, AsksToRead, AsksToWrite, State
<1>6. TBEMatches(x)'
  BY
    DEF LineInv, TBEMatches, RequestsMatch, OneTransaction, AsksToRead, AsksToWrite, State, Granting
<1>7. RepliesMatch(x)'
  BY
    DEF LineInv, RepliesMatch, RequestsMatch, TBEMatches, OneTransaction, AsksToRead, AsksToWrite, State, Awaited
<1>8. OneTransaction(x)'
  BY
    DEF LineInv, OneTransaction, RepliesMatch, RequestsMatch, TBEMatches, AsksToRead, AsksToWrite, State, Awaited, Granting
<1>9. LeasesOrdered(x)' BY DEF LineInv, LeasesOrdered
<1>10. QED BY <1>1, <1>2, <1>3, <1>4, <1>5, <1>6, <1>7, <1>8, <1>9 DEF LineInv

\* The reader a line was fetched or recalled for is answered.
LEMMA LineServedReader ==
    ASSUME TypeInv, NEW x \in Lines, LineInv(x), CopiesKept(x),
           dir[x].st \in {"IS", "ES"}, dir'[x].st = "S",
           dir'[x].owner = dir[x].owner, dir'[x].wts <= dir'[x].rts,
           IF dir[x].st = "ES" THEN \E b \in BackOf(x) : BackOf(x)' = BackOf(x) \ {b} ELSE BackOf(x)' = BackOf(x),
           NEW m, m.to = tbe[x].req, RepOf(x)' = RepOf(x) \cup {m},
           \/ m.type = "RENEW_REP" /\ dir[x].st = "IS" /\ tbe[x].wts > 0 /\ tbe[x].wts <= m.rts
           \/ m.type = "SH_REP" /\ m.wts <= m.rts,
           OpenOf(x)' = OpenOf(x), FwdOf(x)' = FwdOf(x)
    PROVE  LineInv(x)'
<1> USE ViewTypes DEF CopiesKept
<1>a. tbe[x].req \in Cores BY DEF Granting
<1>b. AsksToRead(tbe[x].req, x, IF dir[x].st = "IS" THEN tbe[x].wts ELSE 0)
  BY DEF LineInv, TBEMatches
<1>c. \A n \in RepOf(x) : n.to # tbe[x].req
  BY <1>a, <1>b DEF LineInv, OneTransaction, RepliesMatch, Awaited, AsksToRead, Granting, State
<1>1. OneToken(x)' BY <1>a, <1>b, <1>c DEF LineInv, OneToken, Holds, State, IsGrant, OutStates
<1>2. OwnerKnown(x)'
  BY <1>a, <1>b, <1>c DEF LineInv, OneToken, OwnerKnown, Holds, State, IsGrant, Recorded, OutStates
<1>3. RecallsReach(x)'
  BY <1>a, <1>b, <1>c
    DEF LineInv, RecallsReach, OwnerKnown, OneToken, Holds, State, IsGrant, OwnedStates, Recorded
<1>4. WriteBacksAcked(x)'
  BY <1>a, <1>b, <1>c
    DEF LineInv, WriteBacksAcked, RecallsReach, OwnerKnown, OneToken, Holds, State, OwnedStates, IsGrant, Recorded
<1>5. RequestsMatch(x)'
  BY <1>a, <1>b, <1>c DEF LineInv, RequestsMatch, OneTransaction, AsksToRead, AsksToWrite, State
<1>6. TBEMatches(x)'
  BY <1>a, <1>b, <1>c
    DEF LineInv, TBEMatches, RequestsMatch, OneTransaction, AsksToRead, AsksToWrite, State, Granting
<1>7. RepliesMatch(x)'
  BY <1>a, <1>b, <1>c
    DEF LineInv, RepliesMatch, RequestsMatch, TBEMatches, OneTransaction, AsksToRead, AsksToWrite, State, Awaited
<1>8. OneTransaction(x)'
  BY <1>a, <1>b, <1>c
    DEF LineInv, OneTransaction, RepliesMatch, RequestsMatch, TBEMatches, AsksToRead, AsksToWrite, State, Awaited, Granting
<1>9. LeasesOrdered(x)' BY <1>a, <1>b, <1>c DEF LineInv, LeasesOrdered
<1>10. QED BY <1>1, <1>2, <1>3, <1>4, <1>5, <1>6, <1>7, <1>8, <1>9 DEF LineInv

\* The writer a line was fetched or recalled for is granted it.
LEMMA LineServedWriter ==
    ASSUME TypeInv, NEW x \in Lines, LineInv(x), CopiesKept(x),
           dir[x].st \in {"IE", "SE", "EE"}, dir'[x].st = "E",
           dir'[x].owner = {tbe[x].req}, dir'[x].wts <= dir'[x].rts,
           IF dir[x].st = "EE" THEN \E b \in BackOf(x) : BackOf(x)' = BackOf(x) \ {b} ELSE BackOf(x)' = BackOf(x),
           NEW m, m.to = tbe[x].req, RepOf(x)' = RepOf(x) \cup {m}, m.type = "EX_REP", m.wts <= m.rts,
           OpenOf(x)' = OpenOf(x), FwdOf(x)' = FwdOf(x)
    PROVE  LineInv(x)'
<1> USE ViewTypes DEF CopiesKept
<1>a. tbe[x].req \in Cores BY DEF Granting
<1>b. State(tbe[x].req, x) \in {"IE", "SE"}
  BY DEF LineInv, TBEMatches, AsksToWrite
<1>c. \A n \in RepOf(x) : n.to # tbe[x].req
  BY <1>a, <1>b DEF LineInv, OneTransaction, RepliesMatch, Awaited, Granting
<1>d. /\ \A n \in RepOf(x) : ~IsGrant(n)
      /\ \A c \in Cores : State(c, x) # "E"
      /\ BackOf(x)' = {}
  BY DEF LineInv, OneToken, OutStates, Holds
<1>e. \A f \in FwdOf(x) : f.to # tbe[x].req
  BY <1>b, <1>d DEF LineInv, RecallsReach
<1>1. OneToken(x)'
  BY <1>a, <1>b, <1>c, <1>d, <1>e DEF LineInv, OneToken, Holds, State, IsGrant, OutStates
<1>2. OwnerKnown(x)'
  BY <1>a, <1>b, <1>c, <1>d, <1>e
    DEF LineInv, OneToken, OwnerKnown, Holds, State, IsGrant, Recorded, OutStates
<1>3. RecallsReach(x)'
  BY <1>a, <1>b, <1>c, <1>d, <1>e
    DEF LineInv, RecallsReach, OwnerKnown, OneToken, Holds, State, IsGrant, OwnedStates, Recorded
<1>4. WriteBacksAcked(x)'
  BY <1>a, <1>b, <1>c, <1>d, <1>e
    DEF LineInv, WriteBacksAcked, RecallsReach, OwnerKnown, OneToken, Holds, State, OwnedStates, IsGrant, Recorded
<1>5. RequestsMatch(x)'
  BY <1>a, <1>b, <1>c, <1>d, <1>e
    DEF LineInv, RequestsMatch, OneTransaction, AsksToRead, AsksToWrite, State
<1>6. TBEMatches(x)'
  BY <1>a, <1>b, <1>c, <1>d, <1>e
    DEF LineInv, TBEMatches, RequestsMatch, OneTransaction, AsksToRead, AsksToWrite, State, Granting
<1>7. RepliesMatch(x)'
  BY <1>a, <1>b, <1>c, <1>d, <1>e
    DEF LineInv, RepliesMatch, RequestsMatch, TBEMatches, OneTransaction, AsksToRead, AsksToWrite, State, Awaited
<1>8. OneTransaction(x)'
  BY <1>a, <1>b, <1>c, <1>d, <1>e
    DEF LineInv, OneTransaction, RepliesMatch, RequestsMatch, TBEMatches, AsksToRead, AsksToWrite, State, Awaited, Granting
<1>9. LeasesOrdered(x)' BY <1>a, <1>b, <1>c, <1>d, <1>e DEF LineInv, LeasesOrdered
<1>10. QED BY <1>1, <1>2, <1>3, <1>4, <1>5, <1>6, <1>7, <1>8, <1>9 DEF LineInv

-----------------------------------------------------------------------------
(* What the buffers hold as sets.                                          *)

\* The elements of a sequence with one put in at its end.
LEMMA AppendElements ==
    ASSUME NEW T, NEW q \in Seq(T), NEW r \in T
    PROVE  /\ Append(q, r) \in Seq(T) /\ Len(Append(q, r)) = Len(q) + 1
           /\ \A i \in 1..Len(q) : Append(q, r)[i] = q[i]
           /\ Append(q, r)[Len(q) + 1] = r
OBVIOUS

\* The elements of a sequence without its first.
LEMMA TailElements ==
    ASSUME NEW T, NEW q \in Seq(T), q # <<>>
    PROVE  /\ Head(q) = q[1] /\ Head(q) \in T /\ Tail(q) \in Seq(T) /\ Len(q) \in Nat \ {0}
           /\ Len(Tail(q)) = Len(q) - 1
           /\ \A i \in 1..Len(Tail(q)) : Tail(q)[i] = q[i + 1]
OBVIOUS

\* The elements of q with s put in after the k-th.
LEMMA InsertElements ==
    ASSUME NEW q \in Seq(Request), NEW s \in Seq(Request), NEW k \in 0..Len(q)
    PROVE  /\ Insert(q, k, s) \in Seq(Request) /\ Len(Insert(q, k, s)) = Len(q) + Len(s)
           /\ \A i \in 1..k : Insert(q, k, s)[i] = q[i]
           /\ \A i \in 1..Len(s) : Insert(q, k, s)[k + i] = s[i]
           /\ \A i \in (k + 1)..Len(q) : Insert(q, k, s)[Len(s) + i] = q[i]
<1>1. Len(q) \in Nat /\ Len(s) \in Nat /\ k \in Nat /\ k <= Len(q) OBVIOUS
<1> DEFINE a == SubSeq(q, 1, k)
           b == SubSeq(q, k + 1, Len(q))
<1>2. /\ a \in Seq(Request) /\ Len(a) = k /\ \A i \in 1..k : a[i] = q[i]
  <2>1. \A i \in 1..k : q[i] \in Request BY <1>1
  <2>2. QED BY <1>1, <2>1, SubSeqProperties
<1>3. /\ b \in Seq(Request) /\ Len(b) = Len(q) - k /\ \A i \in 1..(Len(q) - k) : b[i] = q[k + i]
  <2>1. \A i \in (k + 1)..Len(q) : q[i] \in Request BY <1>1
  <2>2. k + 1 \in 1..Len(q)+1 BY <1>1
  <2>3. CASE k = Len(q)
    <3>1. b = <<>> BY <2>3, <1>1, SubSeqEmpty
    <3>2. QED BY <2>3, <3>1, <1>1
  <2>4. CASE k < Len(q)
    <3>1. k + 1 \in 1..Len(q) BY <1>1, <2>4
    <3>2. QED BY <3>1, <2>1, <1>1, SubSeqProperties
  <2>5. QED BY <1>1, <2>3, <2>4
<1> HIDE DEF a, b
<1>4. Insert(q, k, s) = (a \o s) \o b BY DEF Insert, a, b
<1>5. /\ a \o s \in Seq(Request) /\ Len(a \o s) = k + Len(s)
      /\ \A i \in 1..k : (a \o s)[i] = q[i]
      /\ \A i \in 1..Len(s) : (a \o s)[k + i] = s[i]
  BY <1>1, <1>2
<1> DEFINE t == a \o s
<1> HIDE DEF t
<1>6. /\ t \o b \in Seq(Request) /\ Len(t \o b) = k + Len(s) + (Len(q) - k)
      /\ \A i \in 1..(k + Len(s)) : (t \o b)[i] = t[i]
      /\ \A i \in 1..(Len(q) - k) : (t \o b)[k + Len(s) + i] = b[i]
  <2>1. t \in Seq(Request) /\ Len(t) = k + Len(s) BY <1>5 DEF t
  <2>2. Len(t \o b) = Len(t) + Len(b) /\ t \o b \in Seq(Request)
    BY <2>1, <1>3, ConcatProperties
  <2>3. \A i \in 1..Len(t) : (t \o b)[i] = t[i] BY <2>1, <1>3
  <2>4. \A i \in 1..Len(b) : (t \o b)[Len(t) + i] = b[i] BY <2>1, <1>3
  <2>5. QED BY <1>1, <1>3, <2>1, <2>2, <2>3, <2>4
<1>7. \A i \in (k + 1)..Len(q) : (t \o b)[Len(s) + i] = q[i]
  <2> TAKE i \in (k + 1)..Len(q)
  <2>1. i - k \in 1..(Len(q) - k) /\ k + (i - k) = i /\ k + Len(s) + (i - k) = Len(s) + i BY <1>1
  <2>2. QED BY <1>3, <1>6, <2>1
<1>8. \A i \in 1..Len(s) : (t \o b)[k + i] = s[i]
  BY <1>1, <1>5, <1>6 DEF t
<1>9. \A i \in 1..k : (t \o b)[i] = q[i] BY <1>1, <1>5, <1>6 DEF t
<1>10. Insert(q, k, s) = t \o b /\ Len(t \o b) = Len(q) + Len(s) BY <1>1, <1>4, <1>6 DEF t
<1>11. QED BY <1>6, <1>7, <1>8, <1>9, <1>10

\* The same for a single request put in.
LEMMA InsertOne ==
    ASSUME NEW q \in Seq(Request), NEW r \in Request, NEW k \in 0..Len(q)
    PROVE  /\ Len(Insert(q, k, <<r>>)) = Len(q) + 1
           /\ \A i \in 1..k : Insert(q, k, <<r>>)[i] = q[i]
           /\ Insert(q, k, <<r>>)[k + 1] = r
           /\ \A i \in (k + 1)..Len(q) : Insert(q, k, <<r>>)[1 + i] = q[i]
<1> DEFINE s == <<r>>
<1>1. s \in Seq(Request) /\ Len(s) = 1 /\ s[1] = r OBVIOUS
<1> HIDE DEF s
<1>2. /\ Len(Insert(q, k, s)) = Len(q) + Len(s)
      /\ \A i \in 1..k : Insert(q, k, s)[i] = q[i]
      /\ \A i \in 1..Len(s) : Insert(q, k, s)[k + i] = s[i]
      /\ \A i \in (k + 1)..Len(q) : Insert(q, k, s)[Len(s) + i] = q[i]
  BY <1>1, InsertElements
<1>3. 1 \in 1..Len(s) BY <1>1
<1>4. QED BY <1>1, <1>2, <1>3 DEF s

\* A request that is sent is open from then on; none is in two places.
LEMMA RequestSent ==
    ASSUME TypeInv, NoRequestTwice, NEW r \in Request, r \notin Open,
           reqQ' = Append(reqQ, r), waitQ' = waitQ
    PROVE  NoRequestTwice' /\ Open' = Open \cup {r}
<1>1. reqQ \in Seq(Request) BY DEF TypeInv, TypeOK, BuffersTypeOK
<1>2. /\ Len(reqQ') = Len(reqQ) + 1 /\ Len(reqQ) \in Nat
      /\ \A i \in 1..Len(reqQ) : reqQ'[i] = reqQ[i]
      /\ reqQ'[Len(reqQ) + 1] = r
  BY <1>1, AppendElements
<1>3. Open' = Open \cup {r} BY <1>2 DEF Open
<1>4. NoRequestTwice' BY <1>2 DEF NoRequestTwice, Open
<1>5. QED BY <1>3, <1>4

\* A request that is taken up is no longer open.
LEMMA RequestTaken ==
    ASSUME TypeInv, NoRequestTwice, reqQ # <<>>, PopRequest
    PROVE  NoRequestTwice' /\ Req \in Open /\ Open' = Open \ {Req}
<1>1. reqQ \in Seq(Request) BY DEF TypeInv, TypeOK, BuffersTypeOK
<1>2. /\ Req = reqQ[1] /\ Len(reqQ) \in Nat \ {0} /\ Len(reqQ') = Len(reqQ) - 1
      /\ \A i \in 1..Len(reqQ') : reqQ'[i] = reqQ[i + 1]
      /\ waitQ' = waitQ
  BY <1>1, TailElements DEF PopRequest, Req
<1>3. Req \in Open /\ Req \notin waitQ BY <1>2 DEF Open, NoRequestTwice
<1>4. Open' = Open \ {Req}
  <2>1. \A i \in 2..Len(reqQ) : i - 1 \in 1..Len(reqQ') /\ reqQ'[i - 1] = reqQ[i] BY <1>2
  <2>2. \A i \in 1..Len(reqQ) : i = 1 \/ i \in 2..Len(reqQ) BY <1>2
  <2>3. Open \ {Req} \subseteq Open' BY <1>2, <2>1, <2>2 DEF Open
  <2>4. Open' \subseteq Open BY <1>2 DEF Open
  <2>5. Req \notin Open' BY <1>2, <1>3 DEF Open, NoRequestTwice
  <2>6. QED BY <2>3, <2>4, <2>5
<1>5. NoRequestTwice' BY <1>2 DEF NoRequestTwice
<1>6. QED BY <1>3, <1>4, <1>5

\* stall_and_wait moves the head request among those put aside: it stays open.
LEMMA RequestPutAside ==
    ASSUME TypeInv, NoRequestTwice, reqQ # <<>>, waitQ' = waitQ \cup {Req}, reqQ' = Tail(reqQ)
    PROVE  NoRequestTwice' /\ Open' = Open
<1>1. reqQ \in Seq(Request) BY DEF TypeInv, TypeOK, BuffersTypeOK
<1>2. /\ Req = reqQ[1] /\ Len(reqQ) \in Nat \ {0} /\ Len(reqQ') = Len(reqQ) - 1
      /\ \A i \in 1..Len(reqQ') : reqQ'[i] = reqQ[i + 1]
  BY <1>1, TailElements DEF Req
<1>3. Open' = Open
  <2>1. \A i \in 2..Len(reqQ) : i - 1 \in 1..Len(reqQ') /\ reqQ'[i - 1] = reqQ[i] BY <1>2
  <2>2. \A i \in 1..Len(reqQ) : i = 1 \/ i \in 2..Len(reqQ) BY <1>2
  <2>3. Open \subseteq Open'
    <3>1. Req \in Open' BY DEF Open
    <3>2. \A i \in 1..Len(reqQ) : reqQ[i] \in Open' BY <1>2, <2>1, <2>2, <3>1 DEF Open
    <3>3. QED BY <3>2 DEF Open
  <2>4. Open' \subseteq Open BY <1>2 DEF Open
  <2>5. QED BY <2>3, <2>4
<1>4. NoRequestTwice' BY <1>2 DEF NoRequestTwice
<1>5. QED BY <1>3, <1>4

\* recycle moves the head request to the end of its queue, or behind what is on
\* its way there: it stays open.
LEMMA RequestRecycled ==
    ASSUME TypeInv, NoRequestTwice, reqQ # <<>>, Recycle, waitQ' = waitQ
    PROVE  NoRequestTwice' /\ Open' = Open
<1>1. reqQ \in Seq(Request) BY DEF TypeInv, TypeOK, BuffersTypeOK
<1> DEFINE t == Tail(reqQ)
<1>2. /\ Req = reqQ[1] /\ Req \in Request /\ Len(reqQ) \in Nat \ {0}
      /\ t \in Seq(Request) /\ Len(t) = Len(reqQ) - 1
      /\ \A i \in 1..Len(t) : t[i] = reqQ[i + 1]
  BY <1>1, TailElements DEF Req
<1> HIDE DEF t
<1>3. PICK k \in 0..(Len(reqQ) - 1) : reqQ' = Insert(t, k, <<Req>>) BY DEF Recycle, t
<1>5. /\ Len(reqQ') = Len(reqQ)
      /\ \A i \in 1..k : reqQ'[i] = t[i]
      /\ reqQ'[k + 1] = Req
      /\ \A i \in (k + 1)..Len(t) : reqQ'[1 + i] = t[i]
  <2>1. k \in 0..Len(t) BY <1>2
  <2>2. t \in Seq(Request) /\ Req \in Request BY <1>2
  <2>3. /\ Len(Insert(t, k, <<Req>>)) = Len(t) + 1
        /\ \A i \in 1..k : Insert(t, k, <<Req>>)[i] = t[i]
        /\ Insert(t, k, <<Req>>)[k + 1] = Req
        /\ \A i \in (k + 1)..Len(t) : Insert(t, k, <<Req>>)[1 + i] = t[i]
    BY <2>1, <2>2, InsertOne
  <2>4. Len(t) + 1 = Len(reqQ) BY <1>2
  <2>5. QED BY <1>3, <2>3, <2>4

\* where the element at each place comes from
<1> DEFINE from(j) == IF j <= k THEN j + 1 ELSE IF j = k + 1 THEN 1 ELSE j
<1>6. \A j \in 1..Len(reqQ) : from(j) \in 1..Len(reqQ) /\ reqQ'[j] = reqQ[from(j)]
  <2> TAKE j \in 1..Len(reqQ)
  <2>1. CASE j <= k BY <1>2, <1>5, <2>1
  <2>2. CASE j = k + 1 BY <1>2, <1>5, <2>2
  <2>3. CASE j > k + 1
    <3>1. j - 1 \in (k + 1)..Len(t) /\ 1 + (j - 1) = j /\ (j - 1) + 1 = j BY <1>2, <2>3
    <3>2. reqQ'[1 + (j - 1)] = t[j - 1] /\ t[j - 1] = reqQ[(j - 1) + 1] BY <1>2, <1>5, <3>1
    <3>3. QED BY <2>3, <3>1, <3>2
  <2>4. QED BY <1>2, <2>1, <2>2, <2>3
<1>7. \A i \in 1..Len(reqQ) : \E j \in 1..Len(reqQ) : from(j) = i
  <2> TAKE i \in 1..Len(reqQ)
  <2>1. CASE i = 1 BY <1>2, <2>1
  <2>2. CASE i > 1 /\ i <= k + 1
    <3>1. i - 1 \in 1..Len(reqQ) /\ from(i - 1) = i BY <1>2, <2>2
    <3>2. QED BY <3>1
  <2>3. CASE i > k + 1
    <3>1. from(i) = i BY <1>2, <2>3
    <3>2. QED BY <3>1
  <2>4. QED BY <1>2, <2>1, <2>2, <2>3
<1>8. \A i, j \in 1..Len(reqQ) : from(i) = from(j) => i = j BY <1>2
<1> HIDE DEF from
<1>9. Open' = Open
  <2>1. Open' \subseteq Open BY <1>5, <1>6 DEF Open
  <2>2. \A i \in 1..Len(reqQ) : reqQ[i] \in Open'
    <3> TAKE i \in 1..Len(reqQ)
    <3>1. PICK j \in 1..Len(reqQ) : from(j) = i BY <1>7
    <3>2. reqQ'[j] = reqQ[i] BY <1>6, <3>1
    <3>3. QED BY <1>5, <3>2 DEF Open
  <2>3. QED BY <2>1, <2>2 DEF Open
<1>10. NoRequestTwice'
  <2>1. \A i, j \in 1..Len(reqQ) : reqQ'[i] = reqQ'[j] => from(i) = from(j)
    BY <1>6 DEF NoRequestTwice
  <2>2. \A i \in 1..Len(reqQ) : reqQ'[i] \notin waitQ BY <1>6 DEF NoRequestTwice
  <2>3. Len(reqQ') = Len(reqQ) BY <1>5
  <2>4. QED BY <1>8, <2>1, <2>2, <2>3 DEF NoRequestTwice
<1>11. QED BY <1>9, <1>10

\* An order of a finite set names each of its elements once.
LEMMA OrdersElements ==
    ASSUME NEW W \in SUBSET Request, IsFiniteSet(W), NEW s \in Orders(W)
    PROVE  /\ s \in Seq(Request) /\ Len(s) = Cardinality(W) /\ Len(s) \in Nat
           /\ \A i \in 1..Len(s) : s[i] \in W
           /\ \A w \in W : \E i \in 1..Len(s) : s[i] = w
           /\ \A i, j \in 1..Len(s) : s[i] = s[j] => i = j
<1>1. Cardinality(W) \in Nat BY FS_CardinalityType
<1> DEFINE n == Cardinality(W)
<1>2. s \in [1..n -> W] /\ \A i, j \in 1..n : s[i] = s[j] => i = j BY DEF Orders
<1>3. s \in Seq(Request) /\ Len(s) = n BY <1>1, OrdersType, <1>2
<1>4. \A w \in W : \E i \in 1..n : s[i] = w
  <2>1. IsFiniteSet(1..n) /\ Cardinality(1..n) = n
    <3>1. 0 \in Int /\ n \in Int BY <1>1
    <3>2. QED BY <1>1, FS_Interval
  <2>2. s \in Injection(1..n, W) BY <1>2 DEF Injection, IsInjective
  <2>3. s \in Surjection(1..n, W) BY <2>1, <2>2, FS_Injection
  <2>4. QED BY <2>3 DEF Surjection
<1>5. QED BY <1>1, <1>2, <1>3, <1>4

\* Requests put aside that are woken are in the queue again, each once.
LEMMA RequestsWoken ==
    ASSUME TypeInv, NoRequestTwice, NEW S, Wake(S)
    PROVE  NoRequestTwice' /\ Open' = Open
<1>1. /\ reqQ \in Seq(Request) /\ waitQ \subseteq Request /\ IsFiniteSet(waitQ) /\ Len(reqQ) \in Nat
  BY DEF TypeInv, TypeOK, BuffersTypeOK
<1> DEFINE woken == {r \in waitQ : r.a \in S}
<1>2. PICK k \in 0..Len(reqQ), s \in Orders(woken) : reqQ' = Insert(reqQ, k, s)
  BY DEF Wake
<1>3. waitQ' = waitQ \ woken BY DEF Wake
<1>4. woken \subseteq waitQ /\ IsFiniteSet(woken) BY <1>1, FS_Subset
<1> HIDE DEF woken
<1>5. woken \in SUBSET Request BY <1>1, <1>4
<1>6. /\ s \in Seq(Request) /\ Len(s) \in Nat
      /\ \A i \in 1..Len(s) : s[i] \in woken
      /\ \A w \in woken : \E i \in 1..Len(s) : s[i] = w
      /\ \A i, j \in 1..Len(s) : s[i] = s[j] => i = j
  BY <1>4, <1>5, OrdersElements
<1>7. /\ Len(reqQ') = Len(reqQ) + Len(s)
      /\ \A i \in 1..k : reqQ'[i] = reqQ[i]
      /\ \A i \in 1..Len(s) : reqQ'[k + i] = s[i]
      /\ \A i \in (k + 1)..Len(reqQ) : reqQ'[Len(s) + i] = reqQ[i]
  <2>1. reqQ \in Seq(Request) /\ s \in Seq(Request) BY <1>1, <1>6
  <2>2. /\ Len(Insert(reqQ, k, s)) = Len(reqQ) + Len(s)
        /\ \A i \in 1..k : Insert(reqQ, k, s)[i] = reqQ[i]
        /\ \A i \in 1..Len(s) : Insert(reqQ, k, s)[k + i] = s[i]
        /\ \A i \in (k + 1)..Len(reqQ) : Insert(reqQ, k, s)[Len(s) + i] = reqQ[i]
    BY <2>1, InsertElements
  <2>3. QED BY <1>2, <2>2
<1>8. k \in Nat /\ k <= Len(reqQ) BY <1>1

\* each place is filled from the queue or from the woken requests
<1>9. \A j \in 1..Len(reqQ') :
        \/ j <= k /\ reqQ'[j] = reqQ[j]
        \/ j > k /\ j <= k + Len(s) /\ j - k \in 1..Len(s) /\ reqQ'[j] = s[j - k]
        \/ /\ j > k + Len(s) /\ j - Len(s) \in (k + 1)..Len(reqQ)
           /\ reqQ'[j] = reqQ[j - Len(s)]
  <2> TAKE j \in 1..Len(reqQ')
  <2>1. CASE j <= k BY <1>7, <1>8, <2>1
  <2>2. CASE j > k /\ j <= k + Len(s)
    <3>1. j - k \in 1..Len(s) /\ k + (j - k) = j BY <1>6, <1>8, <2>2
    <3>2. reqQ'[k + (j - k)] = s[j - k] BY <1>7, <3>1
    <3>3. QED BY <2>2, <3>1, <3>2
  <2>3. CASE j > k + Len(s)
    <3>1. j - Len(s) \in (k + 1)..Len(reqQ) /\ Len(s) + (j - Len(s)) = j
      BY <1>1, <1>6, <1>7, <1>8, <2>3
    <3>2. reqQ'[Len(s) + (j - Len(s))] = reqQ[j - Len(s)] BY <1>7, <3>1
    <3>3. QED BY <2>3, <3>1, <3>2
  <2>4. QED BY <1>6, <1>8, <2>1, <2>2, <2>3
<1>10. Open' = Open
  <2>1. \A j \in 1..Len(reqQ') : reqQ'[j] \in Open
    <3> TAKE j \in 1..Len(reqQ')
    <3>1. CASE j <= k /\ reqQ'[j] = reqQ[j] BY <1>1, <1>8, <3>1 DEF Open
    <3>2. CASE j - k \in 1..Len(s) /\ reqQ'[j] = s[j - k] BY <1>4, <1>6, <3>2 DEF Open
    <3>3. CASE j - Len(s) \in (k + 1)..Len(reqQ) /\ reqQ'[j] = reqQ[j - Len(s)]
      <4>1. j - Len(s) \in 1..Len(reqQ) BY <1>1, <1>8, <3>3
      <4>2. QED BY <3>3, <4>1 DEF Open
    <3>4. QED BY <1>9, <3>1, <3>2, <3>3
  <2>2. Open' \subseteq Open BY <1>3, <2>1 DEF Open
  <2>3. \A i \in 1..Len(reqQ) : reqQ[i] \in Open'
    <3> TAKE i \in 1..Len(reqQ)
    <3>1. CASE i <= k
      <4>1. i \in 1..k /\ i \in 1..Len(reqQ') BY <1>1, <1>6, <1>7, <1>8, <3>1
      <4>2. QED BY <1>7, <4>1 DEF Open
    <3>2. CASE i > k
      <4>1. i \in (k + 1)..Len(reqQ) /\ Len(s) + i \in 1..Len(reqQ')
        BY <1>1, <1>6, <1>7, <1>8, <3>2
      <4>2. reqQ'[Len(s) + i] = reqQ[i] BY <1>7, <4>1
      <4>3. QED BY <4>1, <4>2 DEF Open
    <3>3. QED BY <1>8, <3>1, <3>2
  <2>4. \A w \in woken : w \in Open'
    <3> TAKE w \in woken
    <3>1. PICK i \in 1..Len(s) : s[i] = w BY <1>6
    <3>2. k + i \in 1..Len(reqQ') BY <1>1, <1>6, <1>7, <1>8
    <3>3. reqQ'[k + i] = w BY <1>7, <3>1
    <3>4. QED BY <3>2, <3>3 DEF Open
  <2>5. QED BY <1>3, <2>2, <2>3, <2>4 DEF Open
<1>11. NoRequestTwice'
  <2>1. \A i, j \in 1..Len(reqQ) : reqQ[i] = reqQ[j] => i = j BY DEF NoRequestTwice
  <2>2. \A i \in 1..Len(reqQ) : reqQ[i] \notin waitQ BY DEF NoRequestTwice
  <2>3. ASSUME NEW i \in 1..Len(reqQ'), NEW j \in 1..Len(reqQ'), reqQ'[i] = reqQ'[j], i < j
        PROVE  FALSE
    <3>1. i \in Nat /\ j \in Nat BY <1>1, <1>6, <1>7
    <3>2. CASE i <= k /\ reqQ'[i] = reqQ[i]
      <4>1. i \in 1..Len(reqQ) BY <1>1, <1>8, <3>1, <3>2
      <4>2. CASE j <= k /\ reqQ'[j] = reqQ[j] 
        <5>1. j \in 1..Len(reqQ) BY <1>1, <1>8, <3>1, <4>2
        <5>2. reqQ[i] = reqQ[j] BY <2>3, <3>2, <4>2
        <5>3. i = j BY <2>1, <4>1, <5>1, <5>2
        <5>4. QED BY <2>3, <3>1, <5>3
      <4>3. CASE j - k \in 1..Len(s) /\ reqQ'[j] = s[j - k]
        BY <1>4, <1>6, <2>2, <2>3, <3>2, <4>1, <4>3
      <4>4. CASE j > k + Len(s) /\ j - Len(s) \in (k + 1)..Len(reqQ) /\ reqQ'[j] = reqQ[j - Len(s)]
        <5>1. j - Len(s) \in 1..Len(reqQ) /\ i # j - Len(s) BY <1>1, <1>6, <1>8, <3>1, <3>2, <4>4
        <5>2. QED BY <2>1, <2>3, <3>2, <4>1, <4>4, <5>1
      <4>5. QED BY <1>9, <4>2, <4>3, <4>4
    <3>3. CASE i > k /\ i - k \in 1..Len(s) /\ reqQ'[i] = s[i - k]
      <4>1. CASE j - k \in 1..Len(s) /\ reqQ'[j] = s[j - k]
        <5>1. i - k = j - k BY <1>6, <2>3, <3>3, <4>1
        <5>2. QED BY <1>8, <2>3, <3>1, <5>1
      <4>2. CASE j - Len(s) \in (k + 1)..Len(reqQ) /\ reqQ'[j] = reqQ[j - Len(s)]
        <5>1. j - Len(s) \in 1..Len(reqQ) BY <1>1, <1>8, <4>2
        <5>2. QED BY <1>4, <1>6, <2>2, <2>3, <3>3, <4>2, <5>1
      <4>3. QED 
        <5>1. j > k BY <1>8, <2>3, <3>1, <3>3
        <5>2. QED BY <1>8, <1>9, <3>1, <4>1, <4>2, <5>1
    <3>4. CASE i > k + Len(s) /\ i - Len(s) \in (k + 1)..Len(reqQ) /\ reqQ'[i] = reqQ[i - Len(s)]
      <4>1. /\ j - Len(s) \in (k + 1)..Len(reqQ) /\ reqQ'[j] = reqQ[j - Len(s)]
        
        <5>1. j > k + Len(s) BY <1>6, <1>8, <2>3, <3>1, <3>4
        <5>2. QED BY <1>6, <1>8, <1>9, <3>1, <5>1
      <4>2. i - Len(s) \in 1..Len(reqQ) /\ j - Len(s) \in 1..Len(reqQ) BY <1>1, <1>8, <3>4, <4>1
      <4>3. i - Len(s) = j - Len(s) BY <2>1, <2>3, <3>4, <4>1, <4>2
      <4>4. QED BY <1>6, <2>3, <3>1, <4>3
    <3>5. QED BY <1>9, <3>2, <3>3, <3>4
  <2>4. \A i, j \in 1..Len(reqQ') : reqQ'[i] = reqQ'[j] => i = j
    <3> SUFFICES ASSUME NEW i \in 1..Len(reqQ'), NEW j \in 1..Len(reqQ'), reqQ'[i] = reqQ'[j], i # j
                 PROVE  FALSE
      OBVIOUS
    <3>1. i < j \/ j < i BY <1>1, <1>6, <1>7
    <3>2. QED BY <2>3, <3>1
  <2>5. \A i \in 1..Len(reqQ') : reqQ'[i] \notin waitQ'
    <3> TAKE i \in 1..Len(reqQ')
    <3>1. CASE i <= k /\ reqQ'[i] = reqQ[i] BY <1>1, <1>3, <1>8, <2>2, <3>1
    <3>2. CASE i - k \in 1..Len(s) /\ reqQ'[i] = s[i - k] BY <1>3, <1>6, <3>2
    <3>3. CASE i - Len(s) \in (k + 1)..Len(reqQ) /\ reqQ'[i] = reqQ[i - Len(s)]
      <4>1. i - Len(s) \in 1..Len(reqQ) BY <1>1, <1>8, <3>3
      <4>2. QED BY <1>3, <2>2, <3>3, <4>1
    <3>4. QED BY <1>9, <3>1, <3>2, <3>3
  <2>6. QED BY <2>4, <2>5 DEF NoRequestTwice
<1>12. QED BY <1>10, <1>11

\* A write back is sent to the directory, and taken by it.
LEMMA ResponseSent ==
    ASSUME TypeInv, NoResponseTwice, NEW b \in FromCache, BackOf(b.a) = {}, rspQ' = Append(rspQ, b)
    PROVE  NoResponseTwice' /\ Back' = Back \cup {b}
<1>1. rspQ \in Seq(FromCache) BY DEF TypeInv, TypeOK, BuffersTypeOK
<1>2. /\ Len(rspQ') = Len(rspQ) + 1 /\ Len(rspQ) \in Nat
      /\ \A i \in 1..Len(rspQ) : rspQ'[i] = rspQ[i]
      /\ rspQ'[Len(rspQ) + 1] = b
  BY <1>1, AppendElements
<1>3. Back' = Back \cup {b} BY <1>2 DEF Back
<1>4. \A i \in 1..Len(rspQ) : rspQ[i].a # b.a BY DEF BackOf, Back
<1>5. NoResponseTwice' BY <1>2, <1>4 DEF NoResponseTwice
<1>6. QED BY <1>3, <1>5

\* A response that is taken leaves its queue, and no other is lost.
LEMMA ResponseTaken ==
    ASSUME TypeInv, NoResponseTwice, rspQ # <<>>, rspQ' = Tail(rspQ)
    PROVE  NoResponseTwice' /\ Rsp \in Back /\ Back' = Back \ {Rsp}
<1>1. rspQ \in Seq(FromCache) BY DEF TypeInv, TypeOK, BuffersTypeOK
<1>2. /\ Rsp = rspQ[1] /\ Len(rspQ) \in Nat \ {0} /\ Len(rspQ') = Len(rspQ) - 1
      /\ \A i \in 1..Len(rspQ') : rspQ'[i] = rspQ[i + 1]
  BY <1>1, TailElements DEF Rsp
<1>3. Rsp \in Back BY <1>2 DEF Back
<1>4. Back' = Back \ {Rsp}
  <2>1. \A i \in 2..Len(rspQ) : i - 1 \in 1..Len(rspQ') /\ rspQ'[i - 1] = rspQ[i] BY <1>2
  <2>2. \A i \in 1..Len(rspQ) : i = 1 \/ i \in 2..Len(rspQ) BY <1>2
  <2>3. Back \ {Rsp} \subseteq Back' BY <1>2, <2>1, <2>2 DEF Back
  <2>4. Back' \subseteq Back BY <1>2 DEF Back
  <2>5. Rsp \notin Back' BY <1>2, <1>3 DEF Back, NoResponseTwice
  <2>6. QED BY <2>3, <2>4, <2>5
<1>5. NoResponseTwice' BY <1>2 DEF NoResponseTwice
<1>6. QED BY <1>3, <1>4, <1>5

-----------------------------------------------------------------------------
(* Steps of the L1 caches.                                                 *)

\* Nothing that belongs to another line than a changes.
OnlyLine(a) ==
    \A y \in Lines \ {a} :
        /\ CopiesKept(y) /\ DirKept(y)
        /\ OpenOf(y)' = OpenOf(y) /\ BackOf(y)' = BackOf(y)
        /\ RepOf(y)' = RepOf(y) /\ FwdOf(y)' = FwdOf(y)

\* A step about one line keeps the invariant of all of them.
LEMMA OtherLines ==
    ASSUME TypeInv, OwnInv, NEW a \in Lines, OnlyLine(a), LineInv(a)'
    PROVE  \A y \in Lines : LineInv(y)'
<1> SUFFICES ASSUME NEW y \in Lines, y # a PROVE LineInv(y)' OBVIOUS
<1>1. LineInv(y) BY DEF OwnInv
<1>2. Kept(y)
  BY <1>1 DEF OnlyLine, CopiesKept, DirKept, Kept, SameClass, LineInv, LeasesOrdered
<1>3. QED BY <1>1, <1>2, LineKept

\* What an L1 cannot change.
LEMMA L1Rest ==
    ASSUME OwnInv, L1Unchanged, fault' = fault
    PROVE  /\ CacheInv' /\ OnlyKnownFaults' /\ waitQ' = waitQ
           /\ \A x \in Lines : DirKept(x)
BY DEF OwnInv, CacheInv, OnlyKnownFaults, L1Unchanged, dirVars, DirKept, KnownFaults, InLLC

\* The views of a line are those of its messages.
LEMMA Views ==
    ASSUME NEW x
    PROVE  /\ \A r : (Open' = Open \cup {r} /\ r.a = x) => OpenOf(x)' = OpenOf(x) \cup {r}
           /\ \A r : (Open' = Open \cup {r} /\ r.a # x) => OpenOf(x)' = OpenOf(x)
           /\ \A r : Open' = Open \ {r} => OpenOf(x)' = OpenOf(x) \ {r}
           /\ \A r : (Open' = Open \ {r} /\ r.a # x) => OpenOf(x)' = OpenOf(x)
           /\ Open' = Open => OpenOf(x)' = OpenOf(x)
           /\ \A b : (Back' = Back \cup {b} /\ b.a = x) => BackOf(x)' = BackOf(x) \cup {b}
           /\ \A b : (Back' = Back \cup {b} /\ b.a # x) => BackOf(x)' = BackOf(x)
           /\ \A b : Back' = Back \ {b} => BackOf(x)' = BackOf(x) \ {b}
           /\ \A b : (Back' = Back \ {b} /\ b.a # x) => BackOf(x)' = BackOf(x)
           /\ Back' = Back => BackOf(x)' = BackOf(x)
           /\ \A m : (rep' = rep \cup {m} /\ m.a = x) => RepOf(x)' = RepOf(x) \cup {m}
           /\ \A m : (rep' = rep \cup {m} /\ m.a # x) => RepOf(x)' = RepOf(x)
           /\ \A m : rep' = rep \ {m} => RepOf(x)' = RepOf(x) \ {m}
           /\ \A m : (rep' = rep \ {m} /\ m.a # x) => RepOf(x)' = RepOf(x)
           /\ rep' = rep => RepOf(x)' = RepOf(x)
           /\ \A f : fwd' = fwd \ {f} => FwdOf(x)' = FwdOf(x) \ {f}
           /\ \A f : (fwd' = fwd \ {f} /\ f.a # x) => FwdOf(x)' = FwdOf(x)
           /\ fwd' = fwd => FwdOf(x)' = FwdOf(x)
BY DEF OpenOf, BackOf, RepOf, FwdOf

\* Queues that do not change have the same elements.
LEMMA QueuesKept ==
    /\ reqQ' = reqQ /\ waitQ' = waitQ => Open' = Open /\ (NoRequestTwice => NoRequestTwice')
    /\ rspQ' = rspQ => Back' = Back /\ (NoResponseTwice => NoResponseTwice')
BY DEF Open, Back, NoRequestTwice, NoResponseTwice

\* A new entry for one line in one L1 is a step of that copy alone.
LEMMA SetEntryStep ==
    ASSUME TypeInv, NEW c \in Cores, NEW a \in Lines, NEW e, SetEntry(c, a, e)
    PROVE  CopyStep(c, a, e) /\ \A y \in Lines \ {a} : CopiesKept(y)
BY DEF TypeInv, TypeOK, L1TypeOK, SetEntry, CopyStep, CopiesKept

\* A step that makes no line of a core busy keeps the queues of the cores in order.
LEMMA QueueKept ==
    ASSUME TypeInv, OwnInv, mq' = mq,
           \A d \in Cores, y \in Lines : l1'[d][y].st \in Asking => State(d, y) \in Asking
    PROVE  \A d \in Cores : QueueInv(d)'
<1> SUFFICES ASSUME NEW d \in Cores PROVE QueueInv(d)' OBVIOUS
<1>1. QueueInv(d) /\ mq[d] \in Seq(CoreReq) BY DEF OwnInv, TypeInv, TypeOK, L1TypeOK
<1>2. \A i \in 1..Len(mq[d]) : mq[d][i] \in CoreReq /\ mq[d][i].a \in Lines
  <2>1. \A i \in 1..Len(mq[d]) : mq[d][i] \in CoreReq BY <1>1
  <2>2. QED BY <2>1 DEF CoreReq
<1>3. QED BY <1>1, <1>2 DEF QueueInv, State

\* The same for a step that takes the head of a core's queue and may make its line busy.
LEMMA QueuePopped ==
    ASSUME TypeInv, OwnInv, NEW c \in Cores, Pending(c), PopMandatory(c),
           \A d \in Cores, y \in Lines :
             l1'[d][y].st \in Asking => State(d, y) \in Asking \/ (d = c /\ y = Head(mq[c]).a)
    PROVE  \A d \in Cores : QueueInv(d)'
<1> SUFFICES ASSUME NEW d \in Cores PROVE QueueInv(d)' OBVIOUS
<1>1. QueueInv(d) /\ mq[d] \in Seq(CoreReq) /\ mq \in [Cores -> Seq(CoreReq)]
  BY DEF OwnInv, TypeInv, TypeOK, L1TypeOK
<1>2. \A i \in 1..Len(mq[d]) : mq[d][i] \in CoreReq /\ mq[d][i].a \in Lines
  <2>1. \A i \in 1..Len(mq[d]) : mq[d][i] \in CoreReq BY <1>1
  <2>2. QED BY <2>1 DEF CoreReq
<1>3. CASE d # c
  <2>1. mq'[d] = mq[d] BY <1>1, <1>3 DEF PopMandatory
  <2>2. QED BY <1>1, <1>2, <1>3, <2>1 DEF QueueInv, State
<1>4. CASE d = c
  <2>1. mq'[d] = Tail(mq[d]) /\ mq[d] # <<>> BY <1>1, <1>4 DEF PopMandatory, Pending
  <2>2. /\ Head(mq[d]) = mq[d][1] /\ Len(mq[d]) \in Nat \ {0} /\ Len(mq'[d]) = Len(mq[d]) - 1
        /\ \A i \in 1..Len(mq'[d]) : mq'[d][i] = mq[d][i + 1]
    BY <1>1, <2>1, TailElements
  <2>3. ASSUME NEW i \in 1..Len(mq'[d])
        PROVE  /\ i + 1 \in 1..Len(mq[d]) /\ mq'[d][i] = mq[d][i + 1]
               /\ mq'[d][i].a # Head(mq[d]).a
    <3>1. i + 1 \in 1..Len(mq[d]) /\ 1 \in 1..Len(mq[d]) /\ i + 1 # 1 BY <2>2
    <3>2. QED BY <1>1, <2>2, <3>1 DEF QueueInv
  <2>4. \A i \in 1..Len(mq'[d]) : l1'[d][mq'[d][i].a].st \notin Asking
    <3> SUFFICES ASSUME NEW i \in 1..Len(mq'[d]) PROVE l1'[d][mq'[d][i].a].st \notin Asking OBVIOUS
    <3>1. mq'[d][i].a \in Lines /\ mq'[d][i].a # Head(mq[d]).a BY <1>2, <2>3
    <3>2. l1[d][mq[d][i + 1].a].st \notin Asking BY <1>1, <2>3 DEF QueueInv, State
    <3>3. QED BY <1>4, <2>3, <3>1, <3>2 DEF State
  <2>5. ASSUME NEW i \in 1..Len(mq'[d]), NEW j \in 1..Len(mq'[d]), mq'[d][i].a = mq'[d][j].a
        PROVE  i = j
    <3>1. i + 1 \in 1..Len(mq[d]) /\ j + 1 \in 1..Len(mq[d]) /\ mq[d][i + 1].a = mq[d][j + 1].a
      BY <2>3, <2>5
    <3>2. i + 1 = j + 1 BY <1>1, <3>1 DEF QueueInv
    <3>3. QED BY <3>2
  <2>6. QED BY <2>4, <2>5 DEF QueueInv, State
<1>5. QED BY <1>3, <1>4

\* A step of an L1 keeps the invariant when it keeps it for its own line and in
\* the queues.
LEMMA CoreStep ==
    ASSUME TypeInv, OwnInv, L1Unchanged, fault' = fault,
           NEW a \in Lines, OnlyLine(a), LineInv(a)',
           NoRequestTwice', NoResponseTwice', \A d \in Cores : QueueInv(d)'
    PROVE  OwnInv'
<1>1. \A y \in Lines : LineInv(y)' BY OtherLines
<1>2. CacheInv' /\ OnlyKnownFaults' BY L1Rest
<1>3. QED BY <1>1, <1>2 DEF OwnInv

\* The peek of mandatory_in changes neither the state of the entry nor its lease.
LEMMA PeekKeeps ==
    ASSUME TypeInv, NEW c \in Cores, Pending(c)
    PROVE  /\ Peek(c).a \in Lines /\ Peek(c).a = Head(mq[c]).a
           /\ Peek(c).lts \in Nat /\ Peek(c).e \in L1Entry
           /\ Peek(c).e.st = State(c, Peek(c).a)
           /\ Peek(c).e.wts = l1[c][Peek(c).a].wts /\ Peek(c).e.rts = l1[c][Peek(c).a].rts
<1> DEFINE r == Head(mq[c])
           e == l1[c][r.a]
           counted == r.op = "LD" /\ e.st # "I"
<1>1. TypeOK BY DEF TypeInv
<1>2. /\ Peek(c).a \in Lines /\ Peek(c).a = r.a
      /\ Peek(c).lts \in Nat /\ Peek(c).e \in L1Entry
  BY <1>1, PeekType
<1>3. e \in L1Entry BY <1>1, <1>2 DEF TypeOK, L1TypeOK
<1>4. Peek(c).e = IF counted THEN CountLoad(e) ELSE e BY Zenon DEF Peek, Entry
<1>5. CountLoad(e).st = e.st /\ CountLoad(e).wts = e.wts /\ CountLoad(e).rts = e.rts
  BY <1>3 DEF CountLoad, L1Entry
<1>6. QED BY <1>2, <1>4, <1>5 DEF State

\* An entry that has just been allocated.
LEMMA NewEntryType ==
    /\ NewEntry \in L1Entry /\ NewEntry.st = "I" /\ NewEntry.wts = 0 /\ NewEntry.rts = 0
    /\ \A st \in L1States :
         LET e == [NewEntry EXCEPT !.st = st] IN
         e \in L1Entry /\ e.st = st /\ e.wts = 0 /\ e.rts = 0
BY NumbersAssumption DEF NewEntry, L1Entry, L1States

\* Asking for a line that is not held (Miss, Renew, Upgrade).
LEMMA AskStep ==
    ASSUME TypeInv, OwnInv, NEW c \in Cores, Pending(c),
           NEW a \in Lines, a = Head(mq[c]).a, State(c, a) \in {"I", "S_LSD"},
           NEW e \in L1Entry, SetEntry(c, a, e), e.wts <= e.rts,
           NEW type \in {"SH_REQ", "EX_REQ"}, NEW w \in Nat, NEW l \in Nat,
           SendRequest(c, type, a, w, l),
           IF type = "SH_REQ" THEN e.st \in {"IS", "S_EXP"} /\ (w > 0 => e.st = "S_EXP" /\ e.wts = w)
                              ELSE e.st \in {"IE", "SE"} /\ (w > 0 => e.st = "SE"),
           PopMandatory(c), UNCHANGED <<rspQ, fwd, rep, fault>>, L1Unchanged
    PROVE  OwnInv'
<1> DEFINE r == [type |-> type, a |-> a, from |-> c, wts |-> w, lts |-> l]
<1>1. r \in Request /\ r.type = type /\ r.a = a /\ r.from = c /\ r.wts = w BY DEF Request
<1>2. LineInv(a) /\ NoRequestTwice /\ NoResponseTwice BY DEF OwnInv
<1>3. r \notin Open
  <2>1. SUFFICES ASSUME r \in Open PROVE FALSE OBVIOUS
  <2>2. r \in OpenOf(a) BY <1>1, <2>1 DEF OpenOf
  <2>3. State(c, a) \in {"IS", "S_EXP", "IE", "SE"}
    BY <1>1, <1>2, <2>2 DEF LineInv, RequestsMatch, AsksToRead, AsksToWrite
  <2>4. QED BY <2>3
<1>4. waitQ' = waitQ /\ (\A x \in Lines : DirKept(x)) BY L1Rest
<1>5. NoRequestTwice' /\ Open' = Open \cup {r}
  <2>1. reqQ' = Append(reqQ, r) BY DEF SendRequest
  <2>2. QED BY <1>1, <1>2, <1>3, <1>4, <2>1, RequestSent
<1>6. NoResponseTwice' /\ Back' = Back BY <1>2, QueuesKept
<1>7. CopyStep(c, a, e) /\ \A y \in Lines \ {a} : CopiesKept(y) BY SetEntryStep
<1>8. /\ OpenOf(a)' = OpenOf(a) \cup {r} /\ BackOf(a)' = BackOf(a)
      /\ RepOf(a)' = RepOf(a) /\ FwdOf(a)' = FwdOf(a)
  BY <1>1, <1>5, <1>6, Views
<1>9. LineInv(a)'
  <2> HIDE DEF r
  <2>1. IF r.type = "SH_REQ" THEN e.st \in {"IS", "S_EXP"} /\ (r.wts > 0 => e.st = "S_EXP" /\ e.wts = r.wts)
                             ELSE e.st \in {"IE", "SE"} /\ (r.wts > 0 => e.st = "SE")
    BY <1>1
  <2>2. DirKept(a) BY <1>4
  <2>3. QED BY <1>1, <1>2, <1>7, <1>8, <2>1, <2>2, LineAsked
<1>10. OnlyLine(a)
  <2> SUFFICES ASSUME NEW y \in Lines \ {a}
               PROVE  /\ OpenOf(y)' = OpenOf(y) /\ BackOf(y)' = BackOf(y)
                      /\ RepOf(y)' = RepOf(y) /\ FwdOf(y)' = FwdOf(y)
    BY <1>4, <1>7 DEF OnlyLine
  <2>1. QED BY <1>1, <1>5, <1>6, Views
<1>11. \A d \in Cores : QueueInv(d)'
  <2>1. \A d \in Cores, y \in Lines :
          l1'[d][y].st \in Asking => State(d, y) \in Asking \/ (d = c /\ y = Head(mq[c]).a)
    BY <1>7 DEF CopyStep, CopiesKept, State
  <2>2. QED BY <2>1, QueuePopped
<1>12. QED BY <1>5, <1>6, <1>9, <1>10, <1>11, CoreStep

\* A step of an L1 that sends and receives nothing and leaves the state of its
\* line alone: hits, and what a stalled head does.
LEMMA HitStep ==
    ASSUME TypeInv, OwnInv, NEW c \in Cores,
           NEW a \in Lines, NEW e \in L1Entry, SetEntry(c, a, e),
           e.st = State(c, a), e.st # "E" => e.wts = l1[c][a].wts, e.wts <= e.rts,
           mq' = mq \/ (Pending(c) /\ PopMandatory(c)),
           UNCHANGED <<reqQ, rspQ, fwd, rep, fault>>, L1Unchanged
    PROVE  OwnInv'
<1>1. LineInv(a) /\ NoRequestTwice /\ NoResponseTwice BY DEF OwnInv
<1>2. waitQ' = waitQ /\ (\A x \in Lines : DirKept(x)) BY L1Rest
<1>3. /\ NoRequestTwice' /\ Open' = Open
      /\ NoResponseTwice' /\ Back' = Back
  BY <1>1, <1>2, QueuesKept
<1>4. CopyStep(c, a, e) /\ \A y \in Lines \ {a} : CopiesKept(y) BY SetEntryStep
<1>5. \A y \in Lines : /\ OpenOf(y)' = OpenOf(y) /\ BackOf(y)' = BackOf(y)
                       /\ RepOf(y)' = RepOf(y) /\ FwdOf(y)' = FwdOf(y)
  BY <1>3, Views
<1>6. LineInv(a)'
  <2>1. Kept(a)
    <3>1. DirKept(a) BY <1>2
    <3>2. \A d \in Cores : /\ l1'[d][a].st = l1[d][a].st
                           /\ l1[d][a].st # "E" => l1'[d][a].wts = l1[d][a].wts
                           /\ l1'[d][a].wts <= l1'[d][a].rts
      BY <1>1, <1>4 DEF CopyStep, State, LineInv, LeasesOrdered
    <3>3. QED BY <1>1, <1>5, <3>1, <3>2 DEF Kept, DirKept, SameClass, LineInv, LeasesOrdered
  <2>2. QED BY <1>1, <2>1, LineKept
<1>7. OnlyLine(a) BY <1>2, <1>4, <1>5 DEF OnlyLine
<1>8. \A d \in Cores : QueueInv(d)'
  <2>1. \A d \in Cores, y \in Lines : l1'[d][y].st = State(d, y)
    BY <1>4 DEF CopyStep, CopiesKept, State
  <2>2. CASE mq' = mq BY <2>1, <2>2, QueueKept
  <2>3. CASE Pending(c) /\ PopMandatory(c) BY <2>1, <2>3, QueuePopped
  <2>4. QED BY <2>2, <2>3
<1>9. QED BY <1>3, <1>6, <1>7, <1>8, CoreStep

\* An owner's entry after a store.
LEMMA StoredOrder ==
    ASSUME NEW e \in L1Entry, NEW s \in Nat
    PROVE  /\ Stored(e, s) \in L1Entry /\ Stored(e, s).st = "E"
           /\ Stored(e, s).wts <= Stored(e, s).rts
<1> DEFINE t == Max2(s, e.rts + 1)
<1>1. e.rts + 1 \in Nat BY DEF L1Entry
<1>2. t \in Nat BY <1>1, MaxType
<1>3. Stored(e, s) = [e EXCEPT !.st = "E", !.wts = t, !.rts = t, !.val = e.val + 1]
  BY Zenon DEF Stored
<1>4. Stored(e, s) \in L1Entry BY StoredType
<1>5. QED BY <1>2, <1>3, <1>4 DEF L1Entry

\* The transitions on a request of the core.
LEMMA MandatoryOwn ==
    ASSUME TypeInv, OwnInv, NEW c \in Cores,
           \/ Miss(c) \/ LoadHit(c) \/ Renew(c) \/ Upgrade(c)
           \/ OwnerLoad(c) \/ OwnerStore(c) \/ MandatoryStall(c)
    PROVE  OwnInv'
<1> DEFINE p == Peek(c)
           a == p.a
<1>1. Pending(c) /\ L1Unchanged
  BY DEF Miss, LoadHit, Renew, Upgrade, OwnerLoad, OwnerStore, MandatoryStall, Mandatory
<1>2. /\ a \in Lines /\ a = Head(mq[c]).a /\ p.lts \in Nat /\ p.e \in L1Entry
      /\ p.e.st = State(c, a) /\ p.e.wts = l1[c][a].wts /\ p.e.rts = l1[c][a].rts
  BY <1>1, PeekKeeps
<1>3. p.sts \in Nat BY <1>1, PeekType DEF TypeInv
<1>4. p.e.wts <= p.e.rts BY <1>2 DEF OwnInv, LineInv, LeasesOrdered
<1>5. p.e.wts \in Nat /\ p.e.rts \in Nat BY <1>2 DEF L1Entry
<1>6. State(c, a) = Entry(c, Head(mq[c]).a).st BY <1>2 DEF State, Entry
<1> HIDE DEF p
<1>7. CASE Miss(c)
  <2>1. State(c, a) = "I" BY <1>6, <1>7 DEF Miss, Mandatory
  <2>2. PopMandatory(c) /\ UNCHANGED <<rspQ, fwd, rep, fault>> BY <1>7 DEF Miss
  <2>3. CASE p.ev = "Load"
    <3> DEFINE e == [NewEntry EXCEPT !.st = "IS"]
    <3>1. SetEntry(c, a, e) /\ SendRequest(c, "SH_REQ", a, 0, p.lts)
      BY <1>7, <2>3 DEF Miss, p
    <3>2. e \in L1Entry /\ e.st = "IS" /\ e.wts = 0 /\ e.rts = 0
      BY NewEntryType DEF L1States
    <3> HIDE DEF e
    <3>3. QED BY <1>1, <1>2, <2>1, <2>2, <3>1, <3>2, AskStep
  <2>4. CASE p.ev # "Load"
    <3> DEFINE e == [NewEntry EXCEPT !.st = "IE"]
    <3>1. SetEntry(c, a, e) /\ SendRequest(c, "EX_REQ", a, 0, 0)
      BY <1>7, <2>4 DEF Miss, p
    <3>2. e \in L1Entry /\ e.st = "IE" /\ e.wts = 0 /\ e.rts = 0
      BY NewEntryType DEF L1States
    <3> HIDE DEF e
    <3>3. QED BY <1>1, <1>2, <2>1, <2>2, <3>1, <3>2, AskStep
  <2>5. QED BY <2>3, <2>4
<1>8. CASE Renew(c)
  <2> DEFINE e == [p.e EXCEPT !.st = "S_EXP"]
  <2>1. State(c, a) = "S_LSD" BY <1>6, <1>8 DEF Renew, Mandatory
  <2>2. PopMandatory(c) /\ UNCHANGED <<rspQ, fwd, rep, fault>> BY <1>8 DEF Renew
  <2>3. SetEntry(c, a, e) /\ SendRequest(c, "SH_REQ", a, p.e.wts, p.lts) BY <1>8 DEF Renew, p
  <2>4. e \in L1Entry /\ e.st = "S_EXP" /\ e.wts = p.e.wts /\ e.rts = p.e.rts
    BY <1>2 DEF L1Entry, L1States
  <2> HIDE DEF e
  <2>5. QED BY <1>1, <1>2, <1>4, <1>5, <2>1, <2>2, <2>3, <2>4, AskStep
<1>9. CASE Upgrade(c)
  <2> DEFINE e == [p.e EXCEPT !.st = "SE"]
  <2>1. State(c, a) = "S_LSD" BY <1>6, <1>9 DEF Upgrade, Mandatory
  <2>2. PopMandatory(c) /\ UNCHANGED <<rspQ, fwd, rep, fault>> BY <1>9 DEF Upgrade
  <2>3. SetEntry(c, a, e) /\ SendRequest(c, "EX_REQ", a, p.e.wts, 0) BY <1>9 DEF Upgrade, p
  <2>4. e \in L1Entry /\ e.st = "SE" /\ e.wts = p.e.wts /\ e.rts = p.e.rts
    BY <1>2 DEF L1Entry, L1States
  <2> HIDE DEF e
  <2>5. QED BY <1>1, <1>2, <1>4, <1>5, <2>1, <2>2, <2>3, <2>4, AskStep
<1>10. CASE LoadHit(c)
  <2>1. SetEntry(c, a, p.e) BY <1>10 DEF LoadHit, p
  <2>2. PopMandatory(c) /\ UNCHANGED <<reqQ, rspQ, fwd, rep, fault>> BY <1>10 DEF LoadHit
  <2>3. QED BY <1>1, <1>2, <1>4, <2>1, <2>2, HitStep
<1>11. CASE MandatoryStall(c)
  <2>1. SetEntry(c, a, p.e) BY <1>11 DEF MandatoryStall, p
  <2>2. UNCHANGED <<mq, reqQ, rspQ, fwd, rep, fault>> BY <1>11 DEF MandatoryStall
  <2>3. QED BY <1>1, <1>2, <1>4, <2>1, <2>2, HitStep
<1>12. CASE OwnerLoad(c)
  <2> DEFINE r == Max2(Max2(p.lts, p.e.wts), p.e.rts)
             e == [p.e EXCEPT !.rts = r]
  <2>1. State(c, a) = "E" BY <1>6, <1>12 DEF OwnerLoad, Mandatory
  <2>2. PopMandatory(c) /\ UNCHANGED <<reqQ, rspQ, fwd, rep, fault>> BY <1>12 DEF OwnerLoad
  <2>3. SetEntry(c, a, e) BY <1>12 DEF OwnerLoad, p
  <2>4. r \in Nat /\ r >= p.e.rts BY <1>2, <1>5, MaxType
  <2> HIDE DEF r
  <2>5. e \in L1Entry /\ e.st = p.e.st /\ e.wts = p.e.wts /\ e.rts = r
    BY <1>2, <2>4 DEF L1Entry
  <2>6. e.wts <= e.rts BY <1>4, <1>5, <2>4, <2>5
  <2> HIDE DEF e
  <2>7. QED BY <1>1, <1>2, <2>1, <2>2, <2>3, <2>5, <2>6, HitStep
<1>13. CASE OwnerStore(c)
  <2> DEFINE e == Stored(p.e, p.sts)
  <2>1. State(c, a) = "E" BY <1>6, <1>13 DEF OwnerStore, Mandatory
  <2>2. PopMandatory(c) /\ UNCHANGED <<reqQ, rspQ, fwd, rep, fault>> BY <1>13 DEF OwnerStore
  <2>3. SetEntry(c, a, e) BY <1>13 DEF OwnerStore, p
  <2>4. e \in L1Entry /\ e.st = "E" /\ e.wts <= e.rts BY <1>2, <1>3, StoredOrder
  <2> HIDE DEF e
  <2>5. QED BY <1>1, <1>2, <2>1, <2>2, <2>3, <2>4, HitStep
<1>14. QED BY <1>7, <1>8, <1>9, <1>10, <1>11, <1>12, <1>13

\* A core issues a request for a line it has no request for.
LEMMA CoreIssueOwn ==
    ASSUME TypeInv, OwnInv, NEW c \in Cores, CoreIssue(c)
    PROVE  OwnInv'
<1>1. PICK a \in Lines, op \in Ops, bar \in Barriers :
        /\ ~Outstanding(c, a)
        /\ mq' = [mq EXCEPT ![c] = Append(mq[c], [op |-> op, a |-> a, bar |-> bar])]
  BY DEF CoreIssue
<1> DEFINE r == [op |-> op, a |-> a, bar |-> bar]
<1>2. r \in CoreReq /\ r.a = a BY RequestsAssumption DEF CoreReq
<1>3. mq \in [Cores -> Seq(CoreReq)] BY DEF TypeInv, TypeOK, L1TypeOK
<1> HIDE DEF r
<1>4. UNCHANGED <<l1, chanVars, dirVars, fault>> BY DEF CoreIssue
<1>5. \A d \in Cores : QueueInv(d)'
  <2> SUFFICES ASSUME NEW d \in Cores PROVE QueueInv(d)' OBVIOUS
  <2>1. QueueInv(d) BY DEF OwnInv
  <2>2. CASE d # c
    <3>1. mq'[d] = mq[d] BY <1>1, <1>3, <2>2
    <3>2. QED BY <1>4, <2>1, <3>1 DEF QueueInv, State
  <2>3. CASE d = c
    <3>1. mq'[d] = Append(mq[d], r) BY <1>1, <1>3, <2>3 DEF r
    <3>2. /\ Len(mq'[d]) = Len(mq[d]) + 1 /\ Len(mq[d]) \in Nat
          /\ \A i \in 1..Len(mq[d]) : mq'[d][i] = mq[d][i]
          /\ mq'[d][Len(mq[d]) + 1] = r
      BY <1>2, <1>3, <3>1, AppendElements
    <3>3. State(c, a) \notin Asking BY <1>1 DEF Outstanding, Entry, State, Asking
    <3>4. \A i \in 1..Len(mq[d]) : mq[d][i].a # a BY <1>1, <2>3 DEF Outstanding
    <3>5. \A i \in 1..Len(mq'[d]) : \/ i \in 1..Len(mq[d]) /\ mq'[d][i] = mq[d][i]
                                    \/ i = Len(mq[d]) + 1 /\ mq'[d][i] = r
      BY <3>2
    <3>6. l1' = l1 BY <1>4
    <3>7. \A i \in 1..Len(mq'[d]) : l1'[d][mq'[d][i].a].st \notin Asking
      BY <1>2, <2>1, <2>3, <3>3, <3>5, <3>6 DEF QueueInv, State
    <3>8. ASSUME NEW i \in 1..Len(mq'[d]), NEW j \in 1..Len(mq'[d]), mq'[d][i].a = mq'[d][j].a
          PROVE  i = j
      BY <1>2, <2>1, <3>4, <3>5, <3>8 DEF QueueInv
    <3>9. QED BY <3>7, <3>8 DEF QueueInv, State
  <2>4. QED BY <2>2, <2>3
<1>6. \A x \in Lines : LineInv(x)'
  <2> SUFFICES ASSUME NEW x \in Lines PROVE LineInv(x)' OBVIOUS
  <2>1. LineInv(x) BY DEF OwnInv
  <2>2. Kept(x)
    BY <1>4, <2>1 DEF Kept, SameClass, LineInv, LeasesOrdered, OpenOf, Open, BackOf, Back,
                      RepOf, FwdOf, chanVars, dirVars
  <2>3. QED BY <2>1, <2>2, LineKept
<1>7. NoRequestTwice' /\ NoResponseTwice' BY <1>4, QueuesKept DEF OwnInv, chanVars
<1>8. CacheInv' /\ OnlyKnownFaults'
  BY <1>4 DEF OwnInv, CacheInv, OnlyKnownFaults, KnownFaults, dirVars
<1>9. QED BY <1>5, <1>6, <1>7, <1>8 DEF OwnInv

\* The evictions of an L1.
LEMMA EvictionOwn ==
    ASSUME TypeInv, OwnInv, NEW c \in Cores, NEW v \in Lines,
           EvictShared(c, v) \/ EvictOwned(c, v) \/ EvictStall(c, v)
    PROVE  OwnInv'
<1> DEFINE e == l1[c][v]
<1>1. L1Unchanged /\ mq' = mq /\ UNCHANGED <<reqQ, fwd, rep, fault>>
  BY DEF EvictShared, EvictOwned, EvictStall
<1>2. LineInv(v) /\ NoRequestTwice /\ NoResponseTwice BY DEF OwnInv
<1>3. waitQ' = waitQ /\ (\A x \in Lines : DirKept(x)) BY <1>1, L1Rest
<1>4. NoRequestTwice' /\ Open' = Open BY <1>1, <1>2, <1>3, QueuesKept
<1>5. e \in L1Entry BY DEF TypeInv, TypeOK, L1TypeOK
<1>6. e.wts <= e.rts BY <1>2 DEF LineInv, LeasesOrdered
<1>7. CASE EvictStall(c, v)
  <2>1. l1' = l1 /\ rspQ' = rspQ BY <1>7 DEF EvictStall
  <2>2. SetEntry(c, v, e) BY <2>1 DEF SetEntry, TypeInv, TypeOK, L1TypeOK
  <2> HIDE DEF e
  <2>3. QED BY <1>1, <1>5, <1>6, <2>1, <2>2, HitStep DEF e, State
<1>8. CASE EvictShared(c, v)
  <2>1. e.st = "S_LSD" /\ SetEntry(c, v, NewEntry) /\ rspQ' = rspQ
    BY <1>8 DEF EvictShared, Victim, Entry
  <2>2. NewEntry \in L1Entry /\ NewEntry.st = "I" /\ NewEntry.wts <= NewEntry.rts
    BY NewEntryType
  <2>3. CopyStep(c, v, NewEntry) /\ \A y \in Lines \ {v} : CopiesKept(y)
    BY <2>1, <2>2, SetEntryStep
  <2>4. NoResponseTwice' /\ Back' = Back BY <1>2, <2>1, QueuesKept
  <2>5. \A y \in Lines : /\ OpenOf(y)' = OpenOf(y) /\ BackOf(y)' = BackOf(y)
                         /\ RepOf(y)' = RepOf(y) /\ FwdOf(y)' = FwdOf(y)
    BY <1>1, <1>4, <2>4, Views
  <2>6. LineInv(v)' BY <1>2, <1>3, <2>1, <2>2, <2>3, <2>5, LineDropped DEF State
  <2>7. OnlyLine(v) BY <1>3, <2>3, <2>5 DEF OnlyLine
  <2>8. \A d \in Cores, y \in Lines : l1'[d][y].st \in Asking => State(d, y) \in Asking
    BY <2>2, <2>3 DEF CopyStep, CopiesKept, State, Asking
  <2>9. \A d \in Cores : QueueInv(d)' BY <1>1, <2>8, QueueKept
  <2>10. QED BY <1>1, <1>4, <2>4, <2>6, <2>7, <2>9, CoreStep
<1>9. CASE EvictOwned(c, v)
  <2> DEFINE n == [e EXCEPT !.st = "EI"]
             b == [type |-> "PUT_REP", a |-> v, from |-> c,
                   wts |-> e.wts, rts |-> e.rts, val |-> e.val]
  <2>1. /\ State(c, v) = "E" /\ SetEntry(c, v, n) /\ rspQ' = Append(rspQ, b)
    BY <1>9 DEF EvictOwned, Victim, Entry, State
  <2>2. n \in L1Entry /\ n.st = "EI" /\ n.wts <= n.rts BY <1>5, <1>6 DEF L1Entry, L1States
  <2>3. b \in FromCache /\ b.a = v /\ b.from = c /\ b.wts <= b.rts
    BY <1>5, <1>6 DEF FromCache, L1Entry
  <2> HIDE DEF n, b
  <2>4. BackOf(v) = {}
    <3>1. \A d \in BackOf(v) : State(c, v) # "E" BY <1>2 DEF LineInv, OneToken
    <3>2. QED BY <2>1, <3>1
  <2>5. NoResponseTwice' /\ Back' = Back \cup {b} BY <1>2, <2>1, <2>3, <2>4, ResponseSent
  <2>6. CopyStep(c, v, n) /\ \A y \in Lines \ {v} : CopiesKept(y)
    BY <2>1, <2>2, SetEntryStep
  <2>7. /\ OpenOf(v)' = OpenOf(v) /\ BackOf(v)' = BackOf(v) \cup {b}
        /\ RepOf(v)' = RepOf(v) /\ FwdOf(v)' = FwdOf(v)
    BY <1>1, <1>4, <2>3, <2>5, Views
  <2>8. LineInv(v)' BY <1>2, <1>3, <2>1, <2>2, <2>3, <2>6, <2>7, LineHandedBack
  <2>9. OnlyLine(v)
    <3> SUFFICES ASSUME NEW y \in Lines \ {v}
                 PROVE  /\ OpenOf(y)' = OpenOf(y) /\ BackOf(y)' = BackOf(y)
                        /\ RepOf(y)' = RepOf(y) /\ FwdOf(y)' = FwdOf(y)
      BY <1>3, <2>6 DEF OnlyLine
    <3>1. QED BY <1>1, <1>4, <2>3, <2>5, Views
  <2>10. \A d \in Cores, y \in Lines : l1'[d][y].st \in Asking => State(d, y) \in Asking
    BY <2>2, <2>6 DEF CopyStep, CopiesKept, State, Asking
  <2>11. \A d \in Cores : QueueInv(d)' BY <1>1, <2>10, QueueKept
  <2>12. QED BY <1>1, <1>4, <2>5, <2>8, <2>9, <2>11, CoreStep
<1>10. QED BY <1>7, <1>8, <1>9

\* A reply is taken by the L1 it is for.
LEMMA ReplyTaken ==
    ASSUME TypeInv, OwnInv, NEW c \in Cores, NEW m \in rep, m.to = c,
           m.a \in Lines, rep' = rep \ {m},
           NEW e \in L1Entry, SetEntry(c, m.a, e), e.wts <= e.rts,
           \/ e.st = "S_LSD" /\ m.type \in {"SH_REP", "RENEW_REP"}
           \/ e.st = "E" /\ m.type \in {"EX_REP", "UPGR_REP"}
           \/ e.st = "I" /\ m.type = "ACK_REP",
           mq' = mq, UNCHANGED <<reqQ, rspQ, fwd, fault>>, L1Unchanged
    PROVE  OwnInv'
<1> DEFINE a == m.a
<1>1. LineInv(a) /\ NoRequestTwice /\ NoResponseTwice BY DEF OwnInv
<1>2. waitQ' = waitQ /\ (\A x \in Lines : DirKept(x)) BY L1Rest
<1>3. /\ NoRequestTwice' /\ Open' = Open
      /\ NoResponseTwice' /\ Back' = Back
  BY <1>1, <1>2, QueuesKept
<1>4. CopyStep(c, a, e) /\ \A y \in Lines \ {a} : CopiesKept(y) BY SetEntryStep
<1>5. /\ OpenOf(a)' = OpenOf(a) /\ BackOf(a)' = BackOf(a)
      /\ RepOf(a)' = RepOf(a) \ {m} /\ FwdOf(a)' = FwdOf(a)
  BY <1>3, Views
<1>6. m \in RepOf(a) BY DEF RepOf
<1>7. LineInv(a)'
  <2>1. CASE e.st = "S_LSD" /\ m.type \in {"SH_REP", "RENEW_REP"}
    BY <1>1, <1>2, <1>4, <1>5, <1>6, <2>1, LineRead
  <2>2. CASE e.st = "E" /\ m.type \in {"EX_REP", "UPGR_REP"}
    BY <1>1, <1>2, <1>4, <1>5, <1>6, <2>2, LineWritten DEF IsGrant
  <2>3. CASE e.st = "I" /\ m.type = "ACK_REP"
    BY <1>1, <1>2, <1>4, <1>5, <1>6, <2>3, LineAcked
  <2>4. QED BY <2>1, <2>2, <2>3
<1>8. OnlyLine(a)
  <2> SUFFICES ASSUME NEW y \in Lines \ {a}
               PROVE  /\ OpenOf(y)' = OpenOf(y) /\ BackOf(y)' = BackOf(y)
                      /\ RepOf(y)' = RepOf(y) /\ FwdOf(y)' = FwdOf(y)
    BY <1>2, <1>4 DEF OnlyLine
  <2>1. QED BY <1>3, Views
<1>9. \A d \in Cores : QueueInv(d)'
  <2>1. \A d \in Cores, y \in Lines : l1'[d][y].st \in Asking => State(d, y) \in Asking
    BY <1>4 DEF CopyStep, CopiesKept, State, Asking
  <2>2. QED BY <2>1, QueueKept
<1>10. QED BY <1>3, <1>7, <1>8, <1>9, CoreStep

\* The replies an L1 receives.
LEMMA ResponseOwn ==
    ASSUME TypeInv, OwnInv, NEW c \in Cores, NEW m \in rep,
           \/ ShRep(c, m) \/ RenewRep(c, m) \/ ExRepMiss(c, m)
           \/ ExRepUpgrade(c, m) \/ UpgRep(c, m) \/ AckRep(c, m)
    PROVE  OwnInv'
<1> DEFINE e == l1[c][m.a]
<1>1. /\ L1Unchanged /\ mq' = mq /\ UNCHANGED <<reqQ, rspQ, fwd, fault>>
      /\ m.to = c /\ rep' = rep \ {m}
  BY DEF ShRep, RenewRep, ExRepMiss, ExRepUpgrade, UpgRep, AckRep, Response, CompleteStore
<1>2. m \in ToCache /\ m.a \in Lines /\ m.wts \in Nat /\ m.rts \in Nat /\ m.val \in Nat
  <2>1. m \in ToCache BY DEF TypeInv, TypeOK, BuffersTypeOK
  <2>2. QED BY <2>1 DEF ToCache
<1>3. e \in L1Entry /\ sts[c] \in Nat BY <1>2 DEF TypeInv, TypeOK, L1TypeOK
<1>4. LineInv(m.a) /\ m \in RepOf(m.a) BY <1>2 DEF OwnInv, RepOf
<1>5. e.wts <= e.rts BY <1>1, <1>4 DEF LineInv, LeasesOrdered
<1>6. /\ m.type = "RENEW_REP" => e.wts <= m.rts
      /\ m.type \in {"SH_REP", "EX_REP"} => m.wts <= m.rts
  BY <1>1, <1>4 DEF LineInv, RepliesMatch
<1>7. ASSUME NEW t \in L1Entry, CompleteStore(c, m, t), m.type \in {"EX_REP", "UPGR_REP"}
      PROVE  OwnInv'
  <2> DEFINE n == Stored(t, sts[c])
  <2>1. n \in L1Entry /\ n.st = "E" /\ n.wts <= n.rts BY <1>3, StoredOrder
  <2>2. SetEntry(c, m.a, n) BY <1>7 DEF CompleteStore
  <2> HIDE DEF n
  <2>3. QED BY <1>1, <1>2, <1>7, <2>1, <2>2, ReplyTaken
<1>8. CASE ShRep(c, m)
  <2> DEFINE n == [e EXCEPT !.st = "S_LSD", !.val = m.val, !.wts = m.wts, !.rts = m.rts]
  <2>1. SetEntry(c, m.a, n) /\ m.type = "SH_REP" BY <1>8 DEF ShRep, Response, Entry
  <2>2. n \in L1Entry /\ n.st = "S_LSD" /\ n.wts <= n.rts
    BY <1>2, <1>3, <1>6, <2>1 DEF L1Entry, L1States
  <2> HIDE DEF n
  <2>3. QED BY <1>1, <1>2, <2>1, <2>2, ReplyTaken
<1>9. CASE RenewRep(c, m)
  <2> DEFINE n == [e EXCEPT !.st = "S_LSD", !.rts = m.rts]
  <2>1. SetEntry(c, m.a, n) /\ m.type = "RENEW_REP" BY <1>9 DEF RenewRep, Response, Entry
  <2>2. n \in L1Entry /\ n.st = "S_LSD" /\ n.wts <= n.rts
    BY <1>2, <1>3, <1>6, <2>1 DEF L1Entry, L1States
  <2> HIDE DEF n
  <2>3. QED BY <1>1, <1>2, <2>1, <2>2, ReplyTaken
<1>10. CASE ExRepMiss(c, m)
  <2> DEFINE t == [e EXCEPT !.val = m.val, !.wts = m.wts, !.rts = m.rts]
  <2>1. t \in L1Entry BY <1>2, <1>3 DEF L1Entry
  <2>2. CompleteStore(c, m, t) /\ m.type = "EX_REP" BY <1>10 DEF ExRepMiss, Response, Entry
  <2> HIDE DEF t
  <2>3. QED BY <1>7, <2>1, <2>2
<1>11. CASE ExRepUpgrade(c, m)
  <2> DEFINE t == [e EXCEPT !.val = m.val]
  <2>1. t \in L1Entry BY <1>2, <1>3 DEF L1Entry
  <2>2. CompleteStore(c, m, t) /\ m.type = "EX_REP" BY <1>11 DEF ExRepUpgrade, Response, Entry
  <2> HIDE DEF t
  <2>3. QED BY <1>7, <2>1, <2>2
<1>12. CASE UpgRep(c, m)
  <2> DEFINE t == [e EXCEPT !.rts = m.rts]
  <2>1. t \in L1Entry BY <1>2, <1>3 DEF L1Entry
  <2>2. CompleteStore(c, m, t) /\ m.type = "UPGR_REP" BY <1>12 DEF UpgRep, Response, Entry
  <2> HIDE DEF t
  <2>3. QED BY <1>7, <2>1, <2>2
<1>13. CASE AckRep(c, m)
  <2>1. SetEntry(c, m.a, NewEntry) /\ m.type = "ACK_REP" BY <1>13 DEF AckRep, Response
  <2>2. NewEntry \in L1Entry /\ NewEntry.st = "I" /\ NewEntry.wts <= NewEntry.rts
    BY NewEntryType
  <2>3. QED BY <1>1, <1>2, <2>1, <2>2, ReplyTaken
<1>14. QED BY <1>8, <1>9, <1>10, <1>11, <1>12, <1>13

\* The recalls an L1 receives.
LEMMA ForwardOwn ==
    ASSUME TypeInv, OwnInv, NEW c \in Cores, NEW m \in fwd,
           FlushReq(c, m) \/ FlushReqEvicting(c, m)
    PROVE  OwnInv'
<1> DEFINE a == m.a
           e == l1[c][a]
<1>1. /\ L1Unchanged /\ mq' = mq /\ UNCHANGED <<reqQ, rep, fault>>
      /\ m.to = c /\ fwd' = fwd \ {m}
  BY DEF FlushReq, FlushReqEvicting
<1>2. m \in Forward /\ a \in Lines /\ m.rts \in Nat
  <2>1. m \in Forward BY DEF TypeInv, TypeOK, BuffersTypeOK
  <2>2. QED BY <2>1 DEF Forward
<1> HIDE DEF a
<1>3. e \in L1Entry BY <1>2 DEF TypeInv, TypeOK, L1TypeOK
<1>4. LineInv(a) /\ NoRequestTwice /\ NoResponseTwice /\ m \in FwdOf(a)
  BY <1>2 DEF OwnInv, FwdOf, a
<1>5. e.wts <= e.rts BY <1>4 DEF LineInv, LeasesOrdered
<1>6. waitQ' = waitQ /\ (\A x \in Lines : DirKept(x)) BY <1>1, L1Rest
<1>7. NoRequestTwice' /\ Open' = Open BY <1>1, <1>4, <1>6, QueuesKept
<1>8. FwdOf(a)' = FwdOf(a) \ {m} /\ \A y \in Lines \ {a} : FwdOf(y)' = FwdOf(y)
  BY <1>1, Views DEF a
<1>9. ASSUME NEW n \in L1Entry, SetEntry(c, a, n), n.st \notin Asking,
             LineInv(a)', NoResponseTwice',
             \A y \in Lines \ {a} : BackOf(y)' = BackOf(y)
      PROVE  OwnInv'
  <2>1. CopyStep(c, a, n) /\ \A y \in Lines \ {a} : CopiesKept(y)
    BY <1>2, <1>9, SetEntryStep
  <2>2. OnlyLine(a) BY <1>1, <1>6, <1>7, <1>8, <1>9, <2>1, Views DEF OnlyLine
  <2>3. \A d \in Cores, y \in Lines : l1'[d][y].st \in Asking => State(d, y) \in Asking
    BY <1>9, <2>1 DEF CopyStep, CopiesKept, State
  <2>4. \A d \in Cores : QueueInv(d)' BY <1>1, <2>3, QueueKept
  <2>5. QED BY <1>1, <1>2, <1>7, <1>9, <2>2, <2>4, CoreStep
<1>10. CASE FlushReq(c, m)
  <2> DEFINE s == Max2(e.rts, e.wts + Lease)
             r == Max2(s, m.rts)
             n == Leased(e, r)
             b == [type |-> "WB_REP", a |-> a, from |-> c,
                   wts |-> e.wts, rts |-> r, val |-> e.val]
  <2>1. State(c, a) = "E" /\ SetEntry(c, a, n) /\ rspQ' = Append(rspQ, b)
    BY <1>10 DEF FlushReq, Entry, State, a
  <2>2. e.wts \in Nat /\ e.rts \in Nat /\ e.val \in Nat /\ e.wts + Lease \in Nat
    BY <1>3, NumbersAssumption DEF L1Entry
  <2>3. r \in Nat /\ r >= e.rts
    <3>1. s \in Nat /\ s >= e.rts BY <2>2, MaxType
    <3> HIDE DEF s
    <3>2. r \in Nat /\ r >= s BY <1>2, <3>1, MaxType
    <3> HIDE DEF r
    <3>3. QED BY <2>2, <3>1, <3>2
  <2> HIDE DEF r
  <2>4. e.wts <= r BY <1>5, <2>2, <2>3
  <2>5. n \in L1Entry /\ n.st = "S_LSD" /\ n.wts = e.wts /\ n.rts = r
    BY <1>3, <2>3 DEF Leased, L1Entry, L1States
  <2>6. b \in FromCache /\ b.a = a /\ b.from = c /\ b.wts = e.wts /\ b.rts = r
    BY <1>2, <2>2, <2>3 DEF FromCache
  <2>7. n.wts <= n.rts /\ b.wts <= b.rts BY <2>4, <2>5, <2>6
  <2> HIDE DEF n, b
  <2>8. BackOf(a) = {}
    <3>1. \A d \in BackOf(a) : State(c, a) # "E" BY <1>4 DEF LineInv, OneToken
    <3>2. QED BY <2>1, <3>1
  <2>9. NoResponseTwice' /\ Back' = Back \cup {b} BY <1>4, <2>1, <2>6, <2>8, ResponseSent
  <2>10. BackOf(a)' = BackOf(a) \cup {b} /\ \A y \in Lines \ {a} : BackOf(y)' = BackOf(y)
    BY <2>6, <2>9, Views
  <2>11. CopyStep(c, a, n) BY <1>2, <2>1, <2>5, SetEntryStep
  <2>12. RepOf(a)' = RepOf(a) /\ OpenOf(a)' = OpenOf(a) BY <1>1, <1>7, Views
  <2>13. LineInv(a)'
    BY <1>1, <1>2, <1>4, <1>6, <1>8, <2>1, <2>5, <2>6, <2>7, <2>10, <2>11, <2>12,
       LineHandedBack
  <2>14. QED BY <1>9, <2>1, <2>5, <2>9, <2>10, <2>13 DEF Asking
<1>11. CASE FlushReqEvicting(c, m)
  <2>1. State(c, a) = "EI" /\ SetEntry(c, a, NewEntry) /\ rspQ' = rspQ
    BY <1>11 DEF FlushReqEvicting, Entry, State, a
  <2>2. NewEntry \in L1Entry /\ NewEntry.st = "I" /\ NewEntry.wts <= NewEntry.rts
    BY NewEntryType
  <2>3. NoResponseTwice' /\ Back' = Back BY <1>4, <2>1, QueuesKept
  <2>4. \A y \in Lines : BackOf(y)' = BackOf(y) BY <2>3, Views
  <2>5. CopyStep(c, a, NewEntry) BY <1>2, <2>1, <2>2, SetEntryStep
  <2>6. RepOf(a)' = RepOf(a) /\ OpenOf(a)' = OpenOf(a) BY <1>1, <1>7, Views
  <2>7. LineInv(a)'
    BY <1>1, <1>2, <1>4, <1>6, <1>8, <2>1, <2>2, <2>4, <2>5, <2>6, LineRecalledEvicting
  <2>8. QED BY <1>9, <2>1, <2>2, <2>3, <2>4, <2>7 DEF Asking
<1>12. QED BY <1>10, <1>11

\* A step that changes nothing the invariant reads, but for a fault it knows.
LEMMA Invisible ==
    ASSUME OwnInv, OnlyKnownFaults', UNCHANGED <<l1, mq, chanVars, dir, tbe, llc, auth>>
    PROVE  OwnInv'
<1>1. Open' = Open /\ Back' = Back BY DEF Open, Back, chanVars
<1>2. NoRequestTwice' /\ NoResponseTwice' /\ CacheInv' /\ \A c \in Cores : QueueInv(c)'
  BY DEF OwnInv, NoRequestTwice, NoResponseTwice, CacheInv, QueueInv, State, chanVars
<1>3. ASSUME NEW x \in Lines PROVE LineInv(x)'
  <2>1. LineInv(x) BY DEF OwnInv
  <2>2. /\ OpenOf(x)' = OpenOf(x) /\ BackOf(x)' = BackOf(x)
        /\ RepOf(x)' = RepOf(x) /\ FwdOf(x)' = FwdOf(x)
    BY <1>1, Views DEF chanVars
  <2>3. QED BY <2>1, <2>2 DEF LineInv, OneToken, OwnerKnown, RecallsReach, WriteBacksAcked,
               RequestsMatch, TBEMatches, RepliesMatch, OneTransaction, LeasesOrdered,
               Holds, State, AsksToRead, AsksToWrite
<1>4. QED BY <1>2, <1>3 DEF OwnInv

\* A fault changes nothing else.
LEMMA FaultOwn ==
    ASSUME OwnInv, OnlyKnownFaults', UNCHANGED <<l1Vars, chanVars, dirVars, memVars, ghostVars>>
    PROVE  OwnInv'
BY Invisible DEF l1Vars, dirVars

\* The pairs an L1 has no transition for: a load of a line on its way out, and a
\* recall that overtakes a grant.
LEMMA L1FaultOwn ==
    ASSUME TypeInv, OwnInv, NEW c \in Cores,
           MandatoryPanic(c) \/ \E m \in fwd : FlushReqPanic(c, m)
    PROVE  OwnInv'
<1>1. CASE MandatoryPanic(c)
  <2>1. /\ Pending(c) /\ Entry(c, Head(mq[c]).a).st \in L1Busy
        /\ fault' = <<"L1", Entry(c, Head(mq[c]).a).st, "LoadLeaseExpired">>
    BY <1>1 DEF MandatoryPanic, Mandatory
  <2>2. Head(mq[c]) = mq[c][1] /\ 1 \in 1..Len(mq[c])
    <3>1. mq[c] \in Seq(CoreReq) /\ mq[c] # <<>> BY <2>1 DEF TypeInv, TypeOK, L1TypeOK, Pending
    <3>2. QED BY <3>1, TailElements
  <2>3. Entry(c, Head(mq[c]).a).st \notin Asking
    BY <2>2 DEF OwnInv, QueueInv, State, Entry
  <2>4. Entry(c, Head(mq[c]).a).st = "EI" BY <2>1, <2>3 DEF L1Busy, Asking
  <2>5. OnlyKnownFaults' BY <2>1, <2>4 DEF OnlyKnownFaults, KnownFaults
  <2>6. QED BY <1>1, <2>5, FaultOwn DEF MandatoryPanic
<1>2. CASE \E m \in fwd : FlushReqPanic(c, m)
  <2>1. PICK m \in fwd : FlushReqPanic(c, m) BY <1>2
  <2>2. m \in Forward BY DEF TypeInv, TypeOK, BuffersTypeOK
  <2>3. m.a \in Lines /\ m \in FwdOf(m.a) /\ m.to = c
    BY <2>1, <2>2 DEF Forward, FwdOf, FlushReqPanic
  <2>4. LineInv(m.a) BY <2>3 DEF OwnInv
  <2>5. \/ State(c, m.a) \in {"E", "EI"}
        \/ \E g \in RepOf(m.a) : IsGrant(g) /\ g.to = c
    BY <2>3, <2>4 DEF LineInv, RecallsReach
  <2>6. State(c, m.a) \in {"E", "EI", "IE", "SE"}
    BY <2>4, <2>5 DEF LineInv, RepliesMatch, Awaited, IsGrant
  <2>7. Entry(c, m.a).st = "SE" BY <2>1, <2>6 DEF FlushReqPanic, State, Entry
  <2>8. OnlyKnownFaults' BY <2>1, <2>7 DEF FlushReqPanic, OnlyKnownFaults, KnownFaults
  <2>9. QED BY <2>1, <2>8, FaultOwn DEF FlushReqPanic
<1>3. QED BY <1>1, <1>2

\* No action of an L1 or of its core disturbs the invariant.
LEMMA L1Own ==
    ASSUME TypeInv, OwnInv, NEW c \in Cores, L1Next(c)
    PROVE  OwnInv'
BY CoreIssueOwn, MandatoryOwn, EvictionOwn, ResponseOwn, ForwardOwn, L1FaultOwn DEF L1Next

-----------------------------------------------------------------------------
(* Steps of the directory.                                                 *)

\* A step of the directory keeps the invariant when it keeps it for the line it is
\* about, in the buffers and in the LLC.
LEMMA DirStep ==
    ASSUME TypeInv, OwnInv, DirUnchanged, fault' = fault, NEW a \in Lines, OnlyLine(a),
           LineInv(a)', NoRequestTwice', NoResponseTwice', CacheInv'
    PROVE  OwnInv'
<1>1. \A y \in Lines : LineInv(y)' BY OtherLines
<1>2. l1' = l1 /\ mq' = mq BY DEF DirUnchanged, l1Vars
<1>3. \A c \in Cores : QueueInv(c)' BY <1>2, QueueKept DEF State
<1>4. OnlyKnownFaults' BY DEF OwnInv, OnlyKnownFaults, KnownFaults
<1>5. QED BY <1>1, <1>3, <1>4 DEF OwnInv

\* The copies in the L1s are no matter of the directory's.
LEMMA CopiesStay ==
    ASSUME DirUnchanged
    PROVE  \A x : CopiesKept(x)
BY DEF DirUnchanged, l1Vars, CopiesKept

\* The entry of one line changes, and its TBE.
LEMMA OneEntry ==
    ASSUME TypeInv, NEW a \in Addrs, NEW e, SetDir(a, e)
    PROVE  dir'[a] = e /\ \A y \in Addrs \ {a} : dir'[y] = dir[y]
BY DEF SetDir, TypeInv, TypeOK, DirTypeOK

\* The TBE of one line changes.
LEMMA OneTBE ==
    ASSUME TypeInv, NEW a \in Addrs, NEW t, tbe' = [tbe EXCEPT ![a] = t]
    PROVE  tbe'[a] = t /\ \A y \in Addrs \ {a} : tbe'[y] = tbe[y]
BY DEF TypeInv, TypeOK, DirTypeOK

\* A step that leaves the LLC alone.
LEMMA CacheKept ==
    ASSUME TypeInv, OwnInv, NEW a \in Lines, NEW e, SetDir(a, e), llc' = llc,
           e.st \in Uncached => llc[a].st = "none", e.st # "C_M",
           \A q \in Counters : auth'[q].busy => auth[q].busy \/ llc[q].st = "none"
    PROVE  CacheInv'
<1>1. a \in Addrs /\ a \notin Counters /\ Counters \subseteq Addrs
  BY SetsAssumption DEF Addrs
<1>2. dir'[a] = e /\ \A y \in Addrs \ {a} : dir'[y] = dir[y] BY <1>1, OneEntry
<1>3. QED BY <1>1, <1>2 DEF OwnInv, CacheInv

\* What the event of a request says of it.
LEMMA EventKind ==
    ASSUME TypeInv, reqQ # <<>>
    PROVE  /\ ReqEvent \in {"ShReq", "ExReq", "Auth_Miss"} => llc[Req.a].st = "none"
           /\ ReqEvent \in {"ShReq", "ShReq_Hit"} => Req.type = "SH_REQ"
           /\ ReqEvent \in {"ExReq", "ExReq_Hit", "UpgReq"} => Req.type = "EX_REQ"
           /\ ReqEvent = "UpgReq" => Req.wts > 0
           /\ ReqEvent = "Auth_Miss" => ParentMissing(Req.a)
<1>1. Req \in Request /\ Req.a \in Addrs BY ReqType
<1>2. Req.type \in {"SH_REQ", "EX_REQ"} BY <1>1 DEF Request
<1>3. Req.a \in InLLC <=> llc[Req.a].st # "none" BY <1>1 DEF InLLC
<1>4. QED BY <1>2, <1>3, Zenon DEF ReqEvent

\* The lease a request reserves moves the end of the lease only, and forward.
LEMMA ReservedOrder ==
    ASSUME TypeInv, OwnInv, reqQ # <<>>
    PROVE  /\ Reserved \in DirEntry /\ Reserved.st = dir[Req.a].st
           /\ Reserved.owner = dir[Req.a].owner /\ Reserved.wts <= Reserved.rts
<1> DEFINE e == dir[Req.a]
           n == Max2(e.wts + Lease, Req.lts + Lease)
           r == Max2(e.rts, n)
<1>1. e \in DirEntry /\ Req.a \in Lines /\ Req.lts \in Nat BY ReqType
<1>2. e.wts \in Nat /\ e.rts \in Nat /\ e.wts + Lease \in Nat /\ Req.lts + Lease \in Nat
  BY <1>1, NumbersAssumption DEF DirEntry
<1>3. e.wts <= e.rts BY <1>1 DEF OwnInv, LineInv, LeasesOrdered
<1>4. n \in Nat BY <1>2, MaxType
<1> HIDE DEF n
<1>5. r \in Nat /\ r >= e.rts BY <1>2, <1>4, MaxType
<1>6. e.wts <= r BY <1>2, <1>3, <1>5
<1>7. Reserved \in {e, [e EXCEPT !.rts = r]} BY Zenon DEF Reserved, r, n
<1> HIDE DEF r
<1>8. QED BY <1>1, <1>3, <1>5, <1>6, <1>7 DEF DirEntry

\* A step that takes the head of the request queue.
LEMMA RequestStep ==
    ASSUME TypeInv, OwnInv, reqQ # <<>>, PopRequest, DirUnchanged,
           UNCHANGED <<rspQ, llc, auth, fault>>,
           NEW a, a = Req.a,
           NEW e, SetDir(a, e), e.st \in Uncached => llc[a].st = "none", e.st # "C_M",
           NEW t, tbe' = tbe \/ tbe' = [tbe EXCEPT ![a] = t],
           \A y \in Lines \ {a} : RepOf(y)' = RepOf(y) /\ FwdOf(y)' = FwdOf(y),
           LineInv(a)'
    PROVE  OwnInv'
<1>1. a \in Lines /\ a \in Addrs /\ Lines \subseteq Addrs BY ReqType DEF Addrs
<1>2. NoRequestTwice' /\ Open' = Open \ {Req} BY RequestTaken DEF OwnInv
<1>3. NoResponseTwice' /\ Back' = Back BY QueuesKept DEF OwnInv
<1>4. \A y \in Lines \ {a} : DirKept(y) BY <1>1, OneEntry, OneTBE DEF DirKept
<1>5. \A y \in Lines \ {a} : OpenOf(y)' = OpenOf(y) /\ BackOf(y)' = BackOf(y)
  BY <1>2, <1>3, Views
<1>6. OnlyLine(a) BY <1>4, <1>5, CopiesStay DEF OnlyLine
<1>7. CacheInv' BY <1>1, CacheKept
<1>8. QED BY <1>1, <1>2, <1>3, <1>6, <1>7, DirStep

\* What the request queue has to say of the line at its head.
LEMMA HeadTaken ==
    ASSUME TypeInv, OwnInv, reqQ # <<>>, PopRequest, DirUnchanged, rspQ' = rspQ,
           NEW r, r = Req, NEW a, a = Req.a
    PROVE  /\ a \in Lines /\ a \in Addrs /\ r \in OpenOf(a) /\ LineInv(a)
           /\ OpenOf(a)' = OpenOf(a) \ {r} /\ BackOf(a)' = BackOf(a)
           /\ CopiesKept(a)
           /\ rep' = rep => \A y \in Lines : RepOf(y)' = RepOf(y)
           /\ fwd' = fwd => \A y \in Lines : FwdOf(y)' = FwdOf(y)
<1>1. a \in Lines /\ a \in Addrs BY ReqType
<1>2. r \in Open /\ Open' = Open \ {r} BY RequestTaken DEF OwnInv
<1>3. Back' = Back BY QueuesKept
<1>4. r \in OpenOf(a) /\ LineInv(a) BY <1>1, <1>2 DEF OwnInv, OpenOf
<1>5. CopiesKept(a) BY CopiesStay
<1>6. OpenOf(a)' = OpenOf(a) \ {r} /\ BackOf(a)' = BackOf(a)
  BY <1>2, <1>3, Views
<1>7. /\ rep' = rep => \A y \in Lines : RepOf(y)' = RepOf(y)
      /\ fwd' = fwd => \A y \in Lines : FwdOf(y)' = FwdOf(y)
  BY Views
<1>8. QED BY <1>1, <1>4, <1>5, <1>6, <1>7

\* The message Reply sends.
ReplyMsg(type, a, c, w, n, v) ==
    [type |-> type, a |-> a, to |-> c, wts |-> w, rts |-> n, val |-> v]

\* A reply to a cache is among the replies for its line only.
LEMMA ReplyView ==
    ASSUME NEW type, NEW a, NEW c, NEW w, NEW n, NEW v, Reply(type, a, c, w, n, v)
    PROVE  /\ ReplyMsg(type, a, c, w, n, v).type = type
           /\ ReplyMsg(type, a, c, w, n, v).to = c
           /\ ReplyMsg(type, a, c, w, n, v).wts = w
           /\ ReplyMsg(type, a, c, w, n, v).rts = n
           /\ RepOf(a)' = RepOf(a) \cup {ReplyMsg(type, a, c, w, n, v)}
           /\ \A y \in Lines \ {a} : RepOf(y)' = RepOf(y)
<1> DEFINE m == ReplyMsg(type, a, c, w, n, v)
<1>1. m.type = type /\ m.a = a /\ m.to = c /\ m.wts = w /\ m.rts = n BY DEF ReplyMsg
<1>2. rep' = rep \cup {m} BY DEF Reply, ReplyMsg
<1> HIDE DEF m
<1>3. RepOf(a)' = RepOf(a) \cup {m} /\ \A y \in Lines \ {a} : RepOf(y)' = RepOf(y)
  BY <1>1, <1>2, Views
<1>4. QED BY <1>1, <1>3 DEF m

\* The messages AskOwner sends.
RecallMsgs(type, a, n) == {[type |-> type, a |-> a, to |-> c, rts |-> n] : c \in dir[a].owner}

\* A recall goes to the owners of its line, once to each.
LEMMA RecallView ==
    ASSUME NEW type, NEW a, NEW n, AskOwner(type, a, n)
    PROVE  /\ \A f \in RecallMsgs(type, a, n) : f.to \in dir[a].owner
           /\ \A f, g \in RecallMsgs(type, a, n) : f.to = g.to => f = g
           /\ FwdOf(a)' = FwdOf(a) \cup RecallMsgs(type, a, n)
           /\ \A y \in Lines \ {a} : FwdOf(y)' = FwdOf(y)
BY DEF AskOwner, FwdOf, RecallMsgs

\* A request that misses the LLC.
LEMMA FetchFromMemoryOwn == TypeInv /\ OwnInv /\ FetchFromMemory => OwnInv'
<1> SUFFICES ASSUME TypeInv, OwnInv, FetchFromMemory, NEW r, r = Req, NEW a, a = Req.a
             PROVE  OwnInv'
  OBVIOUS
<1>1. /\ reqQ # <<>> /\ PopRequest /\ DirUnchanged
      /\ UNCHANGED <<rspQ, fwd, rep, llc, auth, fault>>
      /\ dir[a].st \in {"I", "S"} /\ ReqEvent \in {"ShReq", "ExReq"}
  BY DEF FetchFromMemory, AtRequest
<1>2. /\ a \in Lines /\ a \in Addrs /\ r \in OpenOf(a) /\ LineInv(a) /\ CopiesKept(a)
      /\ OpenOf(a)' = OpenOf(a) \ {r} /\ BackOf(a)' = BackOf(a)
      /\ \A y \in Lines : RepOf(y)' = RepOf(y) /\ FwdOf(y)' = FwdOf(y)
  BY <1>1, HeadTaken
<1> DEFINE st == IF r.type = "SH_REQ" THEN "IS" ELSE IF dir[a].st = "I" THEN "IE" ELSE "SE"
           e == [Reserved EXCEPT !.st = st]
           t == IF r.type = "SH_REQ"
                THEN [req |-> r.from, wts |-> r.wts, lts |-> r.lts, val |-> 0]
                ELSE [NoTBE EXCEPT !.req = r.from]
<1>3. SetDir(a, e) /\ tbe' = [tbe EXCEPT ![a] = t] BY DEF FetchFromMemory
<1>4. e.st = st /\ e.st # "C_M" /\ e.owner = dir[a].owner /\ e.wts <= e.rts
  BY <1>1, ReservedOrder DEF DirEntry
<1>5. t.req = r.from /\ (r.type = "SH_REQ" => t.wts = r.wts) BY DEF NoTBE
<1>6. llc[a].st = "none" BY <1>1, EventKind
<1> HIDE DEF e, t
<1>7. dir'[a] = e /\ tbe'[a] = t
  <2>1. dir'[a] = e BY <1>2, <1>3, OneEntry
  <2>2. tbe'[a] = t BY <1>2, <1>3 DEF TypeInv, TypeOK, DirTypeOK
  <2>3. QED BY <2>1, <2>2
<1>8. LineInv(a)' BY <1>1, <1>2, <1>4, <1>5, <1>7, LineFetched
<1>9. QED BY <1>1, <1>2, <1>3, <1>4, <1>6, <1>8, RequestStep

\* A reader that hits the LLC.
LEMMA HitSharedOwn == TypeInv /\ OwnInv /\ HitShared => OwnInv'
<1> SUFFICES ASSUME TypeInv, OwnInv, HitShared, NEW r, r = Req, NEW a, a = Req.a
             PROVE  OwnInv'
  OBVIOUS
<1>1. /\ reqQ # <<>> /\ PopRequest /\ DirUnchanged
      /\ UNCHANGED <<rspQ, fwd, tbe, llc, auth, fault>>
      /\ dir[a].st \in {"I", "S"} /\ ReqEvent = "ShReq_Hit"
  BY DEF HitShared, AtRequest
<1>2. /\ a \in Lines /\ a \in Addrs /\ r \in OpenOf(a) /\ LineInv(a) /\ CopiesKept(a)
      /\ OpenOf(a)' = OpenOf(a) \ {r} /\ BackOf(a)' = BackOf(a)
      /\ \A y \in Lines : FwdOf(y)' = FwdOf(y)
  BY <1>1, HeadTaken
<1>3. r.type = "SH_REQ" /\ mts \in Nat BY <1>1, EventKind, MtsType
<1> DEFINE e == [Reserved EXCEPT !.st = "S", !.wts = mts, !.rts = mts]
<1>4. SetDir(a, e) BY DEF HitShared
<1>5. e.st = "S" /\ e.owner = dir[a].owner /\ e.wts <= e.rts
  BY <1>1, <1>3, ReservedOrder DEF DirEntry
<1> HIDE DEF e
<1>6. dir'[a] = e BY <1>2, <1>4, OneEntry
<1>7. PICK m : /\ m.to = r.from /\ RepOf(a)' = RepOf(a) \cup {m}
               /\ \/ m.type = "RENEW_REP" /\ r.wts > 0 /\ r.wts <= m.rts
                  \/ m.type = "SH_REP" /\ m.wts <= m.rts
               /\ \A y \in Lines \ {a} : RepOf(y)' = RepOf(y)
  <2>1. CASE Renews(r.wts)
    <3>1. Reply("RENEW_REP", a, r.from, 0, mts, 0) BY <2>1 DEF HitShared
    <3>2. r.wts > 0 /\ r.wts <= mts BY <1>3, <2>1 DEF Renews
    <3>3. QED BY <3>1, <3>2, ReplyView
  <2>2. CASE ~Renews(r.wts)
    <3>1. Reply("SH_REP", a, r.from, mts, mts, llc[a].val) BY <2>2 DEF HitShared
    <3>2. QED BY <1>3, <3>1, ReplyView
  <2>3. QED BY <2>1, <2>2
<1>8. LineInv(a)' BY <1>1, <1>2, <1>3, <1>5, <1>6, <1>7, LineLeased
<1>9. QED
  BY <1>1, <1>2, <1>4, <1>5, <1>7, <1>8, RequestStep DEF Uncached, FetchAuth, EvictAuth, Evicting

\* A writer that hits the LLC, or whose copy is the current version.
LEMMA GrantOwn == TypeInv /\ OwnInv /\ (HitExclusive \/ UpgradeOwner) => OwnInv'
<1> SUFFICES ASSUME TypeInv, OwnInv, HitExclusive \/ UpgradeOwner, NEW r, r = Req, NEW a, a = Req.a
             PROVE  OwnInv'
  OBVIOUS
<1>1. /\ reqQ # <<>> /\ PopRequest /\ DirUnchanged
      /\ UNCHANGED <<rspQ, fwd, tbe, llc, auth, fault>>
      /\ dir[a].st \in {"I", "S"} /\ ReqEvent \in {"ExReq_Hit", "UpgReq"}
  BY DEF HitExclusive, UpgradeOwner, AtRequest
<1>2. /\ a \in Lines /\ a \in Addrs /\ r \in OpenOf(a) /\ LineInv(a) /\ CopiesKept(a)
      /\ OpenOf(a)' = OpenOf(a) \ {r} /\ BackOf(a)' = BackOf(a)
      /\ \A y \in Lines : FwdOf(y)' = FwdOf(y)
  BY <1>1, HeadTaken
<1>3. r.type = "EX_REQ" /\ mts \in Nat /\ dir[a] \in DirEntry BY <1>1, EventKind, MtsType, ReqType
<1>4. ASSUME NEW e, SetDir(a, e), e.st = "E", e.owner = dir[a].owner \cup {r.from}, e.wts <= e.rts,
             NEW m, m.to = r.from, RepOf(a)' = RepOf(a) \cup {m},
             \/ m.type = "UPGR_REP" /\ r.wts > 0
             \/ m.type = "EX_REP" /\ m.wts <= m.rts,
             \A y \in Lines \ {a} : RepOf(y)' = RepOf(y)
      PROVE  OwnInv'
  <2>1. dir'[a] = e BY <1>2, <1>4, OneEntry
  <2>2. LineInv(a)' BY <1>1, <1>2, <1>3, <1>4, <2>1, LineGranted
  <2>3. QED BY <1>1, <1>2, <1>4, <2>2, RequestStep DEF Uncached, FetchAuth, EvictAuth, Evicting
<1>5. CASE HitExclusive
  <2> DEFINE e == [st |-> "E", wts |-> mts, rts |-> mts, owner |-> dir[a].owner \cup {r.from}]
             m == ReplyMsg("EX_REP", a, r.from, mts, mts, llc[a].val)
  <2>1. SetDir(a, e) /\ Reply("EX_REP", a, r.from, mts, mts, llc[a].val) BY <1>5 DEF HitExclusive
  <2>2. e.st = "E" /\ e.owner = dir[a].owner \cup {r.from} /\ e.wts <= e.rts BY <1>3
  <2>3. /\ m.type = "EX_REP" /\ m.to = r.from /\ m.wts <= m.rts
        /\ RepOf(a)' = RepOf(a) \cup {m} /\ \A y \in Lines \ {a} : RepOf(y)' = RepOf(y)
    BY <1>3, <2>1, ReplyView
  <2> HIDE DEF e, m
  <2>4. QED BY <1>4, <2>1, <2>2, <2>3
<1>6. CASE UpgradeOwner
  <2> DEFINE e == [dir[a] EXCEPT !.st = "E", !.owner = dir[a].owner \cup {r.from}]
             m == ReplyMsg("UPGR_REP", a, r.from, 0, dir[a].rts, 0)
  <2>1. SetDir(a, e) /\ Reply("UPGR_REP", a, r.from, 0, dir[a].rts, 0) BY <1>6 DEF UpgradeOwner
  <2>2. e.st = "E" /\ e.owner = dir[a].owner \cup {r.from} /\ e.wts <= e.rts
    BY <1>2, <1>3 DEF DirEntry, LineInv, LeasesOrdered
  <2>3. /\ m.type = "UPGR_REP" /\ m.to = r.from
        /\ RepOf(a)' = RepOf(a) \cup {m} /\ \A y \in Lines \ {a} : RepOf(y)' = RepOf(y)
    BY <2>1, ReplyView
  <2>4. r.wts > 0 BY <1>1, <1>6, EventKind DEF UpgradeOwner, AtRequest
  <2> HIDE DEF e, m
  <2>5. QED BY <1>4, <2>1, <2>2, <2>3, <2>4
<1>7. QED BY <1>5, <1>6

\* A request for a line that is owned.
LEMMA AskingOwn == TypeInv /\ OwnInv /\ (WritebackOwner \/ FlushOwner) => OwnInv'
<1> SUFFICES ASSUME TypeInv, OwnInv, WritebackOwner \/ FlushOwner, NEW r, r = Req, NEW a, a = Req.a
             PROVE  OwnInv'
  OBVIOUS
<1>1. /\ reqQ # <<>> /\ PopRequest /\ DirUnchanged
      /\ UNCHANGED <<rspQ, rep, llc, auth, fault>> /\ dir[a].st = "E"
  BY DEF WritebackOwner, FlushOwner, AtRequest
<1>2. /\ a \in Lines /\ a \in Addrs /\ r \in OpenOf(a) /\ LineInv(a) /\ CopiesKept(a)
      /\ OpenOf(a)' = OpenOf(a) \ {r} /\ BackOf(a)' = BackOf(a)
      /\ \A y \in Lines : RepOf(y)' = RepOf(y)
  BY <1>1, HeadTaken
<1> DEFINE t == [NoTBE EXCEPT !.req = r.from]
<1>3. tbe' = [tbe EXCEPT ![a] = t] /\ t.req = r.from BY DEF WritebackOwner, FlushOwner, NoTBE
<1> HIDE DEF t
<1>4. ASSUME NEW d \in DirEntry, d.wts <= d.rts, SetDir(a, Recall(d, IF r.type = "SH_REQ" THEN "ES" ELSE "EE")),
             NEW type, NEW n, AskOwner(type, a, n)
      PROVE  OwnInv'
  <2> DEFINE e == Recall(d, IF r.type = "SH_REQ" THEN "ES" ELSE "EE")
             F == RecallMsgs(type, a, n)
  <2>1. /\ e.st = IF r.type = "SH_REQ" THEN "ES" ELSE "EE"
        /\ e.owner = {} /\ e.wts <= e.rts
    BY <1>4 DEF Recall, DirEntry
  <2>2. /\ \A f \in F : f.to \in dir[a].owner
        /\ \A f, g \in F : f.to = g.to => f = g
        /\ FwdOf(a)' = FwdOf(a) \cup F
        /\ \A y \in Lines \ {a} : FwdOf(y)' = FwdOf(y)
    BY <1>4, RecallView
  <2> HIDE DEF e, F
  <2>3. SetDir(a, e) BY <1>4 DEF e
  <2>4. dir'[a] = e /\ tbe'[a] = t
    <3>1. dir'[a] = e BY <1>2, <2>3, OneEntry
    <3>2. tbe'[a] = t BY <1>2, <1>3 DEF TypeInv, TypeOK, DirTypeOK
    <3>3. QED BY <3>1, <3>2
  <2>5. LineInv(a)'
    <3>1. /\ dir'[a].owner = {} /\ dir'[a].wts <= dir'[a].rts /\ tbe'[a].req = r.from
          /\ dir'[a].st = IF r.type = "SH_REQ" THEN "ES" ELSE "EE"
      BY <1>3, <2>1, <2>4
    <3>2. RepOf(a)' = RepOf(a) BY <1>2
    <3>3. QED BY <1>1, <1>2, <2>2, <3>1, <3>2, LineRecalled
  <2>6. QED BY <1>1, <1>2, <1>3, <2>1, <2>2, <2>3, <2>5, RequestStep
            DEF Uncached, FetchAuth, EvictAuth, Evicting
<1>5. CASE WritebackOwner
  <2>1. r.type = "SH_REQ" BY <1>1, <1>5, EventKind DEF WritebackOwner, AtRequest
  <2>2. SetDir(a, Recall(Reserved, "ES")) /\ AskOwner("WB_REQ", a, r.lts + Lease)
    BY <1>5 DEF WritebackOwner
  <2>3. Reserved \in DirEntry /\ Reserved.wts <= Reserved.rts BY <1>1, ReservedOrder
  <2>4. QED BY <1>4, <2>1, <2>2, <2>3
<1>6. CASE FlushOwner
  <2>1. r.type = "EX_REQ" BY <1>1, <1>6, EventKind DEF FlushOwner, AtRequest
  <2>2. SetDir(a, Recall(dir[a], "EE")) /\ AskOwner("FLUSH_REQ", a, 0)
    BY <1>6 DEF FlushOwner
  <2>3. dir[a] \in DirEntry /\ dir[a].wts <= dir[a].rts
    BY <1>1, <1>2, ReqType DEF LineInv, LeasesOrdered
  <2>4. QED BY <1>4, <2>1, <2>2, <2>3
<1>7. QED BY <1>5, <1>6

\* A step at the request port that answers nobody: the request is put aside, goes
\* round the queue or stays where it is.
LEMMA RequestKept ==
    ASSUME TypeInv, OwnInv, reqQ # <<>>, DirUnchanged,
           UNCHANGED <<rspQ, fwd, rep, tbe, llc, fault>>,
           NoRequestTwice', Open' = Open,
           NEW a, a = Req.a,
           NEW e, SetDir(a, e), SameClass(dir[a].st, e.st), e.owner = dir[a].owner,
           e.wts <= e.rts, e.st \in Uncached => llc[a].st = "none", e.st # "C_M",
           \A q \in Counters : auth'[q].busy => auth[q].busy \/ llc[q].st = "none"
    PROVE  OwnInv'
<1>1. a \in Lines /\ a \in Addrs /\ Lines \subseteq Addrs BY ReqType DEF Addrs
<1>2. dir'[a] = e /\ \A y \in Lines \ {a} : DirKept(y) BY <1>1, OneEntry DEF DirKept
<1>3. NoResponseTwice' /\ Back' = Back BY QueuesKept DEF OwnInv
<1>4. \A y \in Lines : /\ OpenOf(y)' = OpenOf(y) /\ BackOf(y)' = BackOf(y)
                       /\ RepOf(y)' = RepOf(y) /\ FwdOf(y)' = FwdOf(y)
  BY <1>3, Views
<1>5. \A y : CopiesKept(y) BY CopiesStay
<1>6. LineInv(a)'
  <2>1. LineInv(a) BY <1>1 DEF OwnInv
  <2>2. Kept(a) BY <1>1, <1>2, <1>4, <1>5, <2>1 DEF Kept, CopiesKept, LineInv, LeasesOrdered
  <2>3. QED BY <1>1, <2>1, <2>2, LineKept
<1>7. OnlyLine(a) BY <1>2, <1>4, <1>5 DEF OnlyLine
<1>8. CacheInv' BY <1>1, CacheKept
<1>9. QED BY <1>1, <1>3, <1>6, <1>7, <1>8, DirStep

\* The waits for a counter.
LEMMA AuthMissOwn == TypeInv /\ OwnInv /\ (AuthMiss \/ AuthWait) => OwnInv'
<1> SUFFICES ASSUME TypeInv, OwnInv, AuthMiss \/ AuthWait, NEW a, a = Req.a
             PROVE  OwnInv'
  OBVIOUS
<1>1. /\ reqQ # <<>> /\ DirUnchanged /\ UNCHANGED <<rspQ, fwd, rep, tbe, llc, fault>>
      /\ waitQ' = waitQ \cup {Req} /\ reqQ' = Tail(reqQ) /\ ReqEvent = "Auth_Miss"
  BY DEF AuthMiss, AuthWait, AtRequest
<1>2. NoRequestTwice' /\ Open' = Open BY <1>1, RequestPutAside DEF OwnInv
<1>3. llc[a].st = "none" /\ ParentMissing(a) BY <1>1, EventKind
<1>4. /\ Reserved \in DirEntry /\ Reserved.st = dir[a].st
      /\ Reserved.owner = dir[a].owner /\ Reserved.wts <= Reserved.rts
  BY <1>1, ReservedOrder
<1>5. CASE AuthMiss
  <2> DEFINE e == [Reserved EXCEPT !.st = FetchState(dir[a].st)]
  <2>1. SetDir(a, e) BY <1>5 DEF AuthMiss
  <2>2. dir[a].st \in {"I", "S", "E"} BY <1>5 DEF AuthMiss, AtRequest
  <2>3. SameClass(dir[a].st, FetchState(dir[a].st))
    BY <2>2 DEF SameClass, FetchState, OutStates, Recorded, OwnedStates, Granting
  <2>4. /\ SameClass(dir[a].st, e.st) /\ e.owner = dir[a].owner /\ e.wts <= e.rts
        /\ e.st # "C_M"
    BY <1>4, <2>2, <2>3 DEF DirEntry, FetchState
  <2>5. \A q \in Counters : auth'[q].busy => auth[q].busy \/ llc[q].st = "none"
    <3>1. FetchCounterIfNeeded(Parent(a)) BY <1>5 DEF AuthMiss
    <3>2. Parent(a) \notin InLLC BY <1>3 DEF ParentMissing
    <3>3. \A q \in Counters : q = Parent(a) => llc[q].st = "none"
      BY <3>2 DEF InLLC, Addrs
    <3>4. \A q \in Counters : q # Parent(a) => auth'[q] = auth[q]
      BY <3>1 DEF FetchCounterIfNeeded, TypeInv, TypeOK, DirTypeOK
    <3>5. QED BY <3>3, <3>4
  <2> HIDE DEF e
  <2>6. QED BY <1>1, <1>2, <1>3, <2>1, <2>4, <2>5, RequestKept
<1>6. CASE AuthWait
  <2>1. SetDir(a, Reserved) /\ auth' = auth /\ dir[a].st # "C_M"
    BY <1>6 DEF AuthWait, AtRequest, FetchAuth
  <2>2. SameClass(dir[a].st, dir[a].st) BY DEF SameClass
  <2>3. QED BY <1>1, <1>2, <1>3, <1>4, <2>1, <2>2, RequestKept
<1>7. QED BY <1>5, <1>6

\* A request that bounces, or stalls.
LEMMA BounceOwn == TypeInv /\ OwnInv /\ (Bounce \/ RequestStall) => OwnInv'
<1> SUFFICES ASSUME TypeInv, OwnInv, Bounce \/ RequestStall, NEW a, a = Req.a
             PROVE  OwnInv'
  OBVIOUS
<1>1. /\ reqQ # <<>> /\ DirUnchanged /\ UNCHANGED <<waitQ, rspQ, fwd, rep, tbe, llc, auth, fault>>
  BY DEF Bounce, RequestStall, AtRequest, chanVars
<1>2. /\ Reserved \in DirEntry /\ Reserved.st = dir[a].st
      /\ Reserved.owner = dir[a].owner /\ Reserved.wts <= Reserved.rts
  BY <1>1, ReservedOrder
<1>3. a \in Lines /\ a \in Addrs BY <1>1, ReqType
<1>4. CASE Bounce
  <2> DEFINE e == [Reserved EXCEPT !.st = BaseState(dir[a].st)]
  <2>1. SetDir(a, e) /\ Recycle /\ dir[a].st \in FetchAuth BY <1>4 DEF Bounce, AtRequest
  <2>2. /\ SameClass(dir[a].st, BaseState(dir[a].st)) /\ BaseState(dir[a].st) \notin Uncached
    BY <2>1 DEF SameClass, BaseState, FetchAuth, OutStates, Recorded, OwnedStates, Granting,
                Uncached, EvictAuth, Evicting
  <2>3. /\ SameClass(dir[a].st, e.st) /\ e.owner = dir[a].owner /\ e.wts <= e.rts
        /\ e.st \notin Uncached \cup {"C_M"}
    BY <1>2, <2>1, <2>2 DEF DirEntry, BaseState, FetchAuth
  <2>4. NoRequestTwice' /\ Open' = Open BY <1>1, <2>1, RequestRecycled DEF OwnInv
  <2> HIDE DEF e
  <2>5. QED BY <1>1, <2>1, <2>3, <2>4, RequestKept
<1>5. CASE RequestStall
  <2>1. SetDir(a, Reserved) /\ reqQ' = reqQ /\ dir[a].st # "C_M"
    BY <1>5 DEF RequestStall, chanVars, AtRequest, Granting, Evicting, EvictAuth
  <2>2. SameClass(dir[a].st, dir[a].st) BY DEF SameClass
  <2>3. NoRequestTwice' /\ Open' = Open BY <1>1, <2>1, QueuesKept DEF OwnInv
  <2>4. dir[a].st \in Uncached => llc[a].st = "none" BY <1>3 DEF OwnInv, CacheInv
  <2>5. QED BY <1>1, <1>2, <2>1, <2>2, <2>3, <2>4, RequestKept
<1>6. QED BY <1>4, <1>5

\* An upgrade of a copy the directory has forgotten is a known fault.
LEMMA RequestPanicOwn == TypeInv /\ OwnInv /\ RequestPanic => OwnInv'
BY FaultOwn DEF RequestPanic, OnlyKnownFaults, KnownFaults

\* No transition on a request disturbs the invariant.
LEMMA RequestPortOwn == TypeInv /\ OwnInv /\ RequestPort => OwnInv'
BY FetchFromMemoryOwn, HitSharedOwn, GrantOwn, AskingOwn, AuthMissOwn, BounceOwn,
   RequestPanicOwn DEF RequestPort

\* The first missing ancestor is missing, and the ancestors of a branch are not.
LEMMA MissingAncestor ==
    ASSUME NEW x \in Addrs, NEW here
    PROVE  FirstMissing(x, here) \notin here \/ FirstMissing(x, here) = NoAddr
<1> DEFINE gone == {i \in 1..Len(Path[x]) : /\ Path[x][i] \notin here
                                           /\ \A j \in 1..(i - 1) : Path[x][j] \in here}
<1>1. CASE gone = {} BY <1>1 DEF FirstMissing
<1>2. CASE gone # {}
  <2>1. (CHOOSE i \in gone : TRUE) \in gone BY <1>2
  <2>2. Path[x][CHOOSE i \in gone : TRUE] \notin here BY <2>1
  <2> HIDE DEF gone
  <2>3. FirstMissing(x, here) = Path[x][CHOOSE i \in gone : TRUE]
    BY <1>2 DEF FirstMissing, gone
  <2>4. QED BY <2>2, <2>3
<1>3. QED BY <1>1, <1>2

\* The ancestors updateTreeInCache reaches are cached.
LEMMA BranchHere ==
    ASSUME NEW x \in Addrs, NEW here
    PROVE  Branch(x, here) \subseteq here
<1> SUFFICES ASSUME NEW i \in 1..Len(Path[x]), \A j \in 1..i : Path[x][j] \in here
             PROVE  Path[x][i] \in here
  BY DEF Branch
<1>1. Path[x] \in Seq(Counters) BY PathType
<1>2. i \in 1..i BY <1>1
<1>3. QED BY <1>2

\* The entries of the directory and of the LLC after an update of some counters.
LEMMA ModifiedEntry ==
    ASSUME NEW D \in [Addrs -> DirEntry], NEW ks \in SUBSET Counters, NEW y \in Addrs
    PROVE  /\ y \notin ks => Modified(D, ks)[y] = D[y]
           /\ Modified(D, ks)[y].st = IF y \in ks THEN "C_M" ELSE D[y].st
BY ModifiedType DEF Modified

\* The counters marked dirty are dirty, the other lines of the LLC as they were.
LEMMA DirtiedEntry ==
    ASSUME NEW L \in [Addrs -> LLCEntry], NEW ks, NEW y \in Addrs
    PROVE  Dirtied(L, ks)[y].st = IF y \in ks THEN "dirty" ELSE L[y].st
<1>1. L[y] \in LLCEntry BY Zenon
<1>2. [L[y] EXCEPT !.st = "dirty"].st = "dirty" BY <1>1 DEF LLCEntry
<1>3. Dirtied(L, ks)[y] = IF y \in ks THEN [L[y] EXCEPT !.st = "dirty"] ELSE L[y]
  BY Zenon DEF Dirtied
<1>4. QED BY <1>2, <1>3

\* A counter fetched for an eviction is not in the LLC; no other AuthTBE changes.
LEMMA EvictionFetches ==
    ASSUME TypeInv, NEW x \in Addrs, FetchCounterForEviction(x)
    PROVE  \A q \in Counters : auth'[q].busy => auth[q].busy \/ llc[q].st = "none"
<1> DEFINE k == FirstMissing(x, InLLC)
<1>1. k \in Counters \cup {NoAddr} /\ NoAddr \notin Counters BY FirstMissingType, PathType
<1>2. k \notin InLLC \/ k = NoAddr BY MissingAncestor
<1>3. \A q \in Counters : q = k => llc[q].st = "none" BY <1>1, <1>2 DEF InLLC, Addrs
<1> HIDE DEF k
<1>4. \A q \in Counters : q # k => auth'[q] = auth[q]
  <2>1. auth' = [auth EXCEPT ![k] = [busy |-> TRUE, slot |-> AddWaiters(auth[k].slot, <<x>>, {1})]]
    BY DEF FetchCounterForEviction, k
  <2>2. QED BY <2>1 DEF TypeInv, TypeOK, DirTypeOK
<1>5. QED BY <1>3, <1>4

-----------------------------------------------------------------------------
(* Responses of the caches.                                                *)

\* What the response queue has to say of the line at its head.
LEMMA HeadReturned ==
    ASSUME TypeInv, OwnInv, rspQ # <<>>, PopResponse, DirUnchanged, reqQ' = reqQ, waitQ' = waitQ,
           NEW b, b = Rsp, NEW a, a = Rsp.a
    PROVE  /\ a \in Lines /\ a \in Addrs /\ a \notin Counters
           /\ b \in BackOf(a) /\ b.from \in Cores /\ LineInv(a)
           /\ b.wts \in Nat /\ b.rts \in Nat /\ b.wts <= b.rts
           /\ OpenOf(a)' = OpenOf(a) /\ BackOf(a)' = BackOf(a) \ {b}
           /\ CopiesKept(a) /\ NoRequestTwice' /\ NoResponseTwice'
           /\ \A y \in Lines \ {a} : OpenOf(y)' = OpenOf(y) /\ BackOf(y)' = BackOf(y)
<1>1. /\ a \in Lines /\ a \in Addrs /\ a \notin Counters
      /\ b.from \in Cores /\ b.wts \in Nat /\ b.rts \in Nat
  BY RspType
<1>2. b \in Back /\ Back' = Back \ {b} /\ NoResponseTwice'
  BY ResponseTaken DEF OwnInv, PopResponse
<1>3. Open' = Open /\ NoRequestTwice' BY QueuesKept DEF OwnInv
<1>4. b \in BackOf(a) /\ LineInv(a) BY <1>1, <1>2 DEF OwnInv, BackOf
<1>5. b.wts <= b.rts BY <1>4 DEF LineInv, LeasesOrdered
<1>6. CopiesKept(a) BY CopiesStay
<1>7. OpenOf(a)' = OpenOf(a) /\ BackOf(a)' = BackOf(a) \ {b} BY <1>2, <1>3, Views
<1>8. \A y \in Lines \ {a} : OpenOf(y)' = OpenOf(y) /\ BackOf(y)' = BackOf(y)
  BY <1>2, <1>3, Views
<1>9. QED BY <1>1, <1>2, <1>3, <1>4, <1>5, <1>6, <1>7, <1>8

\* A response that is taken.
LEMMA ReturnedStep ==
    ASSUME TypeInv, OwnInv, rspQ # <<>>, PopResponse, DirUnchanged,
           UNCHANGED <<reqQ, waitQ, fwd, fault>>, NEW a, a = Rsp.a,
           \A y \in Lines \ {a} : DirKept(y) /\ RepOf(y)' = RepOf(y),
           LineInv(a)', CacheInv'
    PROVE  OwnInv'
<1>1. /\ a \in Lines /\ NoRequestTwice' /\ NoResponseTwice'
      /\ \A y \in Lines \ {a} : OpenOf(y)' = OpenOf(y) /\ BackOf(y)' = BackOf(y)
  BY HeadReturned
<1>2. \A y : FwdOf(y)' = FwdOf(y) BY Views
<1>3. OnlyLine(a) BY <1>1, <1>2, CopiesStay DEF OnlyLine
<1>4. QED BY <1>1, <1>3, DirStep

\* A line that is stored in the LLC.
LEMMA CacheFilled ==
    ASSUME TypeInv, OwnInv, NEW a \in Lines, NEW e, SetDir(a, e), e.st \notin Uncached \cup {"C_M"},
           NEW n, llc' = [llc EXCEPT ![a] = n], auth' = auth
    PROVE  CacheInv'
<1>1. a \in Addrs /\ a \notin Counters /\ Counters \subseteq Addrs
  BY SetsAssumption DEF Addrs
<1>2. dir'[a] = e /\ \A y \in Addrs \ {a} : dir'[y] = dir[y] BY <1>1, OneEntry
<1>3. \A y \in Addrs \ {a} : llc'[y] = llc[y]
  BY <1>1 DEF TypeInv, TypeOK, DirTypeOK
<1>4. QED BY <1>1, <1>2, <1>3 DEF OwnInv, CacheInv

\* The owner has put the line back.
LEMMA TakeBackOwn == TypeInv /\ OwnInv /\ TakeBack => OwnInv'
<1> SUFFICES ASSUME TypeInv, OwnInv, TakeBack, NEW b, b = Rsp, NEW a, a = Rsp.a
             PROVE  OwnInv'
  OBVIOUS
<1>1. /\ rspQ # <<>> /\ PopResponse /\ DirUnchanged /\ dir[a].st = "E"
      /\ UNCHANGED <<reqQ, waitQ, fwd, tbe, auth, fault>>
  BY DEF TakeBack, AtResponse
<1>2. /\ a \in Lines /\ a \in Addrs /\ b \in BackOf(a) /\ LineInv(a) /\ CopiesKept(a)
      /\ OpenOf(a)' = OpenOf(a) /\ BackOf(a)' = BackOf(a) \ {b} /\ b.wts <= b.rts
  BY <1>1, HeadReturned
<1> DEFINE e == [st |-> "S", wts |-> b.wts, rts |-> b.rts, owner |-> {}]
           m == ReplyMsg("ACK_REP", a, b.from, 0, 0, 0)
           n == [st |-> "dirty", val |-> b.val]
<1>3. /\ SetDir(a, e) /\ Reply("ACK_REP", a, b.from, 0, 0, 0)
      /\ llc' = [llc EXCEPT ![a] = n]
  BY DEF TakeBack, StoreInLLC
<1>4. e.st = "S" /\ e.owner = {} /\ e.wts <= e.rts BY <1>2
<1>5. /\ m.type = "ACK_REP" /\ m.to = b.from
      /\ RepOf(a)' = RepOf(a) \cup {m} /\ \A y \in Lines \ {a} : RepOf(y)' = RepOf(y)
  BY <1>3, ReplyView
<1> HIDE DEF e, m, n
<1>6. dir'[a] = e /\ \A y \in Lines \ {a} : DirKept(y)
  BY <1>1, <1>2, <1>3, OneEntry DEF DirKept, Addrs
<1>7. FwdOf(a)' = FwdOf(a) BY <1>1, Views
<1>8. LineInv(a)' BY <1>1, <1>2, <1>4, <1>5, <1>6, <1>7, LineTakenBack
<1>9. CacheInv' BY <1>1, <1>2, <1>3, <1>4, CacheFilled DEF Uncached, FetchAuth, EvictAuth, Evicting
<1>10. QED BY <1>1, <1>5, <1>6, <1>8, <1>9, ReturnedStep

\* The requestor a line was recalled for is served.
LEMMA GrantAfterOwn ==
    TypeInv /\ OwnInv /\ (GrantAfterWriteback \/ GrantAfterFlush) => OwnInv'
<1> SUFFICES ASSUME TypeInv, OwnInv, GrantAfterWriteback \/ GrantAfterFlush,
                    NEW b, b = Rsp, NEW a, a = Rsp.a
             PROVE  OwnInv'
  OBVIOUS
<1>1. /\ rspQ # <<>> /\ PopResponse /\ DirUnchanged /\ dir[a].st \in {"ES", "EE"}
      /\ UNCHANGED <<reqQ, waitQ, fwd, auth, fault>>
  BY DEF GrantAfterWriteback, GrantAfterFlush, AtResponse
<1>2. /\ a \in Lines /\ a \in Addrs /\ b \in BackOf(a) /\ LineInv(a) /\ CopiesKept(a)
      /\ OpenOf(a)' = OpenOf(a) /\ BackOf(a)' = BackOf(a) \ {b}
      /\ b.wts \in Nat /\ b.rts \in Nat /\ b.wts <= b.rts
  BY <1>1, HeadReturned
<1> DEFINE n == [st |-> "dirty", val |-> b.val]
<1>3. tbe' = [tbe EXCEPT ![a] = NoTBE] /\ llc' = [llc EXCEPT ![a] = n]
  BY DEF GrantAfterWriteback, GrantAfterFlush, StoreInLLC
<1> HIDE DEF n
<1>4. \A y \in Addrs \ {a} : tbe'[y] = tbe[y] BY <1>2, <1>3 DEF TypeInv, TypeOK, DirTypeOK
<1>5. FwdOf(a)' = FwdOf(a) BY <1>1, Views
<1>6. dir[a] \in DirEntry BY <1>1, RspType
<1>7. ASSUME NEW e, SetDir(a, e), e.st \in {"S", "E"}, LineInv(a)',
             \A y \in Lines \ {a} : RepOf(y)' = RepOf(y)
      PROVE  OwnInv'
  <2>1. \A y \in Lines \ {a} : DirKept(y) BY <1>2, <1>4, <1>7, OneEntry DEF DirKept, Addrs
  <2>2. CacheInv'
    BY <1>1, <1>2, <1>3, <1>7, CacheFilled DEF Uncached, FetchAuth, EvictAuth, Evicting
  <2>3. QED BY <1>1, <1>7, <2>1, <2>2, ReturnedStep
<1>8. CASE GrantAfterWriteback
  <2> DEFINE s == Max2(b.wts + Lease, Lease)
             r == Max2(b.rts, s)
             e == [dir[a] EXCEPT !.st = "S", !.wts = b.wts, !.rts = r]
             m == ReplyMsg("SH_REP", a, tbe[a].req, b.wts, r, b.val)
  <2>1. SetDir(a, e) /\ Reply("SH_REP", a, tbe[a].req, b.wts, r, b.val) /\ dir[a].st = "ES"
    BY <1>8 DEF GrantAfterWriteback, AtResponse
  <2>2. r \in Nat /\ r >= b.rts
    <3>1. b.wts + Lease \in Nat /\ Lease \in Nat BY <1>2, NumbersAssumption
    <3>2. s \in Nat BY <3>1, MaxType
    <3> HIDE DEF s
    <3>3. QED BY <1>2, <3>2, MaxType
  <2> HIDE DEF r
  <2>3. b.wts <= r BY <1>2, <2>2
  <2>4. e.st = "S" /\ e.owner = dir[a].owner /\ e.wts <= e.rts BY <1>6, <2>3 DEF DirEntry
  <2>5. /\ m.type = "SH_REP" /\ m.to = tbe[a].req /\ m.wts <= m.rts
        /\ RepOf(a)' = RepOf(a) \cup {m} /\ \A y \in Lines \ {a} : RepOf(y)' = RepOf(y)
    BY <2>1, <2>3, ReplyView
  <2> HIDE DEF e, m
  <2>6. dir'[a] = e BY <1>2, <2>1, OneEntry
  <2>7. LineInv(a)' BY <1>2, <1>5, <2>1, <2>4, <2>5, <2>6, LineServedReader
  <2>8. QED BY <1>7, <2>1, <2>4, <2>5, <2>7
<1>9. CASE GrantAfterFlush
  <2> DEFINE e == [st |-> "E", wts |-> b.wts, rts |-> b.rts, owner |-> {tbe[a].req}]
             m == ReplyMsg("EX_REP", a, tbe[a].req, b.wts, b.rts, b.val)
  <2>1. SetDir(a, e) /\ Reply("EX_REP", a, tbe[a].req, b.wts, b.rts, b.val) /\ dir[a].st = "EE"
    BY <1>9 DEF GrantAfterFlush, AtResponse, OwnerFromTBE
  <2>2. e.st = "E" /\ e.owner = {tbe[a].req} /\ e.wts <= e.rts BY <1>2
  <2>3. /\ m.type = "EX_REP" /\ m.to = tbe[a].req /\ m.wts <= m.rts
        /\ RepOf(a)' = RepOf(a) \cup {m} /\ \A y \in Lines \ {a} : RepOf(y)' = RepOf(y)
    BY <1>2, <2>1, ReplyView
  <2> HIDE DEF e, m
  <2>4. dir'[a] = e BY <1>2, <2>1, OneEntry
  <2>5. LineInv(a)' BY <1>2, <1>5, <2>1, <2>2, <2>3, <2>4, LineServedWriter
  <2>6. QED BY <1>7, <2>1, <2>2, <2>3, <2>5
<1>10. QED BY <1>8, <1>9

\* A victim of the LLC has come back from its owner.
LEMMA FlushedVictimOwn ==
    TypeInv /\ OwnInv /\ (FlushedVictimWrittenBack \/ FlushedVictimAwaitsCounter) => OwnInv'
<1> SUFFICES ASSUME TypeInv, OwnInv, FlushedVictimWrittenBack \/ FlushedVictimAwaitsCounter,
                    NEW b, b = Rsp, NEW a, a = Rsp.a
             PROVE  OwnInv'
  OBVIOUS
<1>1. /\ rspQ # <<>> /\ PopResponse /\ DirUnchanged /\ dir[a].st = "E_Evict_Flush"
      /\ UNCHANGED <<reqQ, waitQ, fwd, rep, fault>>
      /\ tbe' = [tbe EXCEPT ![a].val = b.val]
  BY DEF FlushedVictimWrittenBack, FlushedVictimAwaitsCounter, FlushedVictim, AtResponse
<1>2. /\ a \in Lines /\ a \in Addrs /\ a \notin Counters /\ b \in BackOf(a)
      /\ LineInv(a) /\ CopiesKept(a)
      /\ OpenOf(a)' = OpenOf(a) /\ BackOf(a)' = BackOf(a) \ {b}
  BY <1>1, HeadReturned
<1>3. \A y \in Addrs \ {a} : tbe'[y] = tbe[y] BY <1>1, <1>2 DEF TypeInv, TypeOK, DirTypeOK
<1>4. FwdOf(a)' = FwdOf(a) /\ \A y : RepOf(y)' = RepOf(y) BY <1>1, Views
<1>5. dir[a] \in DirEntry /\ llc[a].st = "none"
  BY <1>1, <1>2, RspType DEF OwnInv, CacheInv, Uncached
<1>6. dir[a].wts <= dir[a].rts BY <1>2 DEF LineInv, LeasesOrdered
<1>7. dir \in [Addrs -> DirEntry] /\ llc \in [Addrs -> LLCEntry] /\ Counters \subseteq Addrs
      /\ Lines \subseteq Addrs /\ Lines \cap Counters = {}
  BY SetsAssumption DEF TypeInv, TypeOK, DirTypeOK, Addrs
<1>8. ASSUME NEW st \in {"I_Evict_Auth", "I_Evicting"}, dir'[a] = Recall(dir[a], st),
             \A y \in Lines \ {a} : dir'[y] = dir[y], CacheInv'
      PROVE  OwnInv'
  <2>1. dir'[a].st = st /\ dir'[a].owner = {} /\ dir'[a].wts <= dir'[a].rts
    BY <1>5, <1>6, <1>8 DEF Recall, DirEntry
  <2>2. LineInv(a)' BY <1>1, <1>2, <1>4, <2>1, LineArrived
  <2>3. \A y \in Lines \ {a} : DirKept(y) /\ RepOf(y)' = RepOf(y)
    BY <1>3, <1>4, <1>7, <1>8 DEF DirKept
  <2>4. QED BY <1>1, <1>8, <2>2, <2>3, ReturnedStep
<1>9. CASE FlushedVictimWrittenBack
  <2> DEFINE ks == Branch(a, InLLC)
             D == Modified(dir, ks)
             e == Recall(dir[a], "I_Evicting")
  <2>1. ks \in SUBSET Counters /\ ks \subseteq InLLC BY <1>2, BranchType, BranchHere
  <2>2. dir' = [D EXCEPT ![a] = e] /\ llc' = Dirtied(llc, ks) /\ auth' = auth
    BY <1>9 DEF FlushedVictimWrittenBack
  <2> HIDE DEF ks, e
  <2>3. D \in [Addrs -> DirEntry] /\ \A y \in Addrs : /\ y \notin ks => D[y] = dir[y]
                                                      /\ y \in ks => D[y].st = "C_M"
    BY <1>7, <2>1, ModifiedType, ModifiedEntry
  <2> HIDE DEF D
  <2>4. dir'[a] = e /\ \A y \in Addrs \ {a} : dir'[y] = D[y] BY <1>2, <2>2, <2>3
  <2>5. \A y \in Addrs : llc'[y].st = IF y \in ks THEN "dirty" ELSE llc[y].st
    BY <1>7, <2>2, DirtiedEntry
  <2>6. \A y \in ks : llc[y].st # "none" BY <2>1 DEF InLLC
  <2>7. CacheInv'
    <3>1. a \notin ks BY <1>2, <2>1
    <3>2. \A x \in Addrs : dir'[x].st \in Uncached => llc'[x].st = "none"
      <4> SUFFICES ASSUME NEW x \in Addrs, dir'[x].st \in Uncached PROVE llc'[x].st = "none"
        OBVIOUS
      <4>1. CASE x = a BY <1>5, <2>5, <3>1, <4>1
      <4>2. CASE x # a
        <5>1. "C_M" \notin Uncached BY DEF Uncached, FetchAuth, EvictAuth, Evicting
        <5>2. x \notin ks /\ dir'[x] = dir[x] BY <2>3, <2>4, <4>2, <5>1
        <5>3. QED BY <2>5, <5>2 DEF OwnInv, CacheInv
      <4>3. QED BY <4>1, <4>2
    <3>3. \A x \in Addrs : dir'[x].st = "C_M" => llc'[x].st = "dirty"
      <4>1. dir'[a].st = "I_Evicting" BY <1>5, <2>4 DEF Recall, DirEntry, e
      <4>2. QED BY <2>3, <2>4, <2>5, <4>1 DEF OwnInv, CacheInv
    <3>4. \A q \in Counters : auth'[q].busy => llc'[q].st = "none"
      BY <1>7, <2>2, <2>5, <2>6 DEF OwnInv, CacheInv
    <3>5. QED BY <3>2, <3>3, <3>4 DEF CacheInv
  <2>8. \A y \in Lines \ {a} : dir'[y] = dir[y] BY <1>7, <2>1, <2>3, <2>4
  <2>9. QED BY <1>8, <2>4, <2>7, <2>8 DEF e
<1>10. CASE FlushedVictimAwaitsCounter
  <2> DEFINE e == Recall(dir[a], "I_Evict_Auth")
  <2>1. SetDir(a, e) /\ FetchCounterForEviction(a) /\ llc' = llc
    BY <1>10 DEF FlushedVictimAwaitsCounter
  <2> HIDE DEF e
  <2>2. dir'[a] = e /\ \A y \in Addrs \ {a} : dir'[y] = dir[y] BY <1>2, <2>1, OneEntry
  <2>3. CacheInv'
    <3>1. e.st = "I_Evict_Auth" BY <1>5 DEF Recall, DirEntry, e
    <3>2. QED BY <1>2, <1>5, <2>1, <3>1, EvictionFetches, CacheKept
  <2>4. QED BY <1>7, <1>8, <2>2, <2>3 DEF e
<1>11. QED BY <1>9, <1>10

\* A response that bounces.  It finds its line in E_Fetch_Auth: a write back is on
\* its way only for a line that is out.
LEMMA ResponseBounceOwn == TypeInv /\ OwnInv /\ ResponseBounce => OwnInv'
<1> SUFFICES ASSUME TypeInv, OwnInv, ResponseBounce, NEW a, a = Rsp.a
             PROVE  OwnInv'
  OBVIOUS
<1>1. /\ rspQ # <<>> /\ DirUnchanged /\ dir[a].st \in FetchAuth
      /\ UNCHANGED <<waitQ, rspQ, fwd, rep, tbe, llc, auth, memVars, current, root>>
  BY DEF ResponseBounce, AtResponse
<1>2. a \in Lines /\ a \in Addrs /\ dir[a] \in DirEntry BY <1>1, RspType
<1>3. LineInv(a) BY <1>2 DEF OwnInv
<1>4. dir[a].st = "E_Fetch_Auth"
  <2>1. rspQ \in Seq(FromCache) /\ Rsp = rspQ[1] /\ 1 \in 1..Len(rspQ) /\ Rsp.from \in Cores
    BY <1>1, RspType, TailElements DEF TypeInv, TypeOK, BuffersTypeOK, Rsp
  <2>2. Rsp \in BackOf(a) BY <2>1 DEF BackOf, Back
  <2>3. Holds(Rsp.from, a) BY <2>2 DEF Holds
  <2>4. dir[a].st \in OutStates BY <1>3, <2>1, <2>3 DEF LineInv, OneToken
  <2>5. QED BY <1>1, <2>4 DEF FetchAuth, OutStates
<1>5. CASE reqQ = <<>>
  <2>1. fault' = <<"Dir", "E_Fetch_Auth", "recycle of an empty queue">>
        /\ UNCHANGED <<dir, reqQ, mts>>
    BY <1>4, <1>5 DEF ResponseBounce
  <2>2. OnlyKnownFaults' BY <2>1 DEF OnlyKnownFaults, KnownFaults
  <2>3. QED BY <1>1, <2>1, <2>2, FaultOwn DEF DirUnchanged, chanVars, dirVars, memVars, ghostVars
<1>6. CASE reqQ # <<>>
  <2> DEFINE e == [dir[a] EXCEPT !.st = BaseState(dir[a].st)]
  <2>1. SetDir(a, e) /\ Recycle /\ fault' = fault BY <1>6 DEF ResponseBounce
  <2>2. /\ SameClass(dir[a].st, e.st) /\ e.st = "E" /\ e.owner = dir[a].owner /\ e.wts <= e.rts
    BY <1>2, <1>3, <1>4 DEF DirEntry, LineInv, LeasesOrdered, SameClass, BaseState, OutStates,
                            Recorded, OwnedStates, Granting
  <2>3. NoRequestTwice' /\ Open' = Open BY <1>1, <1>6, <2>1, RequestRecycled DEF OwnInv
  <2>4. NoResponseTwice' /\ Back' = Back BY <1>1, QueuesKept DEF OwnInv
  <2> HIDE DEF e
  <2>5. dir'[a] = e /\ \A y \in Lines \ {a} : DirKept(y)
    BY <1>1, <1>2, <2>1, OneEntry DEF DirKept, Addrs
  <2>6. \A y \in Lines : /\ OpenOf(y)' = OpenOf(y) /\ BackOf(y)' = BackOf(y)
                         /\ RepOf(y)' = RepOf(y) /\ FwdOf(y)' = FwdOf(y)
    BY <1>1, <2>3, <2>4, Views
  <2>7. \A y : CopiesKept(y) BY <1>1, CopiesStay
  <2>8. LineInv(a)'
    <3>1. Kept(a)
      BY <1>1, <1>2, <1>3, <2>2, <2>5, <2>6, <2>7 DEF Kept, CopiesKept, LineInv, LeasesOrdered
    <3>2. QED BY <1>2, <1>3, <3>1, LineKept
  <2>9. OnlyLine(a) BY <2>5, <2>6, <2>7 DEF OnlyLine
  <2>10. CacheInv'
    BY <1>1, <1>2, <2>1, <2>2, CacheKept DEF Uncached, FetchAuth, EvictAuth, Evicting
  <2>11. QED BY <1>1, <1>2, <2>1, <2>3, <2>4, <2>8, <2>9, <2>10, DirStep
<1>7. QED BY <1>5, <1>6

\* No transition on a response disturbs the invariant.
LEMMA ResponsePortOwn == TypeInv /\ OwnInv /\ ResponsePort => OwnInv'
<1> SUFFICES ASSUME TypeInv, OwnInv, ResponsePort PROVE OwnInv' OBVIOUS
<1>1. ASSUME ResponseStall PROVE OwnInv'
  <2>1. UNCHANGED <<l1, mq, chanVars, dir, tbe, llc, auth, fault>>
    BY <1>1 DEF ResponseStall, DirUnchanged, l1Vars
  <2>2. OnlyKnownFaults' BY <2>1 DEF OwnInv, OnlyKnownFaults, KnownFaults
  <2>3. QED BY <2>1, <2>2, Invisible
<1>2. QED BY <1>1, TakeBackOwn, GrantAfterOwn, FlushedVictimOwn, ResponseBounceOwn
          DEF ResponsePort

-----------------------------------------------------------------------------
(* Answers of the memory.                                                  *)

\* A step after which every line is in the same class of states, its messages and
\* its owner unchanged.
LEMMA LinesKept ==
    ASSUME TypeInv, OwnInv, DirUnchanged, UNCHANGED <<rspQ, fwd, rep, fault>>,
           NoRequestTwice', Open' = Open, CacheInv',
           \A y \in Lines : /\ SameClass(dir[y].st, dir'[y].st)
                            /\ dir'[y].owner = dir[y].owner /\ dir'[y].wts <= dir'[y].rts
                            /\ dir'[y].st \in Granting => tbe'[y] = tbe[y]
    PROVE  OwnInv'
<1>1. NoResponseTwice' /\ Back' = Back BY QueuesKept DEF OwnInv
<1>2. ASSUME NEW y \in Lines PROVE LineInv(y)'
  <2>1. LineInv(y) /\ CopiesKept(y) BY CopiesStay DEF OwnInv
  <2>2. /\ OpenOf(y)' = OpenOf(y) /\ BackOf(y)' = BackOf(y)
        /\ RepOf(y)' = RepOf(y) /\ FwdOf(y)' = FwdOf(y)
    BY <1>1, Views
  <2>3. Kept(y) BY <2>1, <2>2 DEF Kept, CopiesKept, LineInv, LeasesOrdered
  <2>4. QED BY <2>1, <2>3, LineKept
<1>3. l1' = l1 /\ mq' = mq BY DEF DirUnchanged, l1Vars
<1>4. \A c \in Cores : QueueInv(c)' BY <1>3, QueueKept DEF State
<1>5. OnlyKnownFaults' BY DEF OwnInv, OnlyKnownFaults, KnownFaults
<1>6. QED BY <1>1, <1>2, <1>4, <1>5 DEF OwnInv

\* An entry that changes within its class, with the buffers as they are.
LEMMA EntryKept ==
    ASSUME TypeInv, OwnInv, NEW v \in Addrs, NEW st,
           NEW D \in [Addrs -> DirEntry],
           \A y \in Lines : D[y] = dir[y],
           dir' = [D EXCEPT ![v] = [dir[v] EXCEPT !.st = st]],
           SameClass(dir[v].st, st), st \notin Granting,
           NEW t, tbe' = [tbe EXCEPT ![v] = t]
    PROVE  \A y \in Lines :
             /\ SameClass(dir[y].st, dir'[y].st)
             /\ dir'[y].owner = dir[y].owner /\ dir'[y].wts <= dir'[y].rts
             /\ dir'[y].st \in Granting => tbe'[y] = tbe[y]
<1> SUFFICES ASSUME NEW y \in Lines
             PROVE  /\ SameClass(dir[y].st, dir'[y].st)
                    /\ dir'[y].owner = dir[y].owner /\ dir'[y].wts <= dir'[y].rts
                    /\ dir'[y].st \in Granting => tbe'[y] = tbe[y]
  OBVIOUS
<1>1. y \in Addrs /\ dir[y] \in DirEntry /\ dir[v] \in DirEntry /\ tbe \in [Addrs -> TBE]
  BY DEF Addrs, TypeInv, TypeOK, DirTypeOK
<1>2. dir[y].wts <= dir[y].rts BY DEF OwnInv, LineInv, LeasesOrdered
<1>3. CASE y = v
  <2>1. dir'[y] = [dir[y] EXCEPT !.st = st] BY <1>1, <1>3
  <2>2. dir'[y].st = st /\ dir'[y].owner = dir[y].owner /\ dir'[y].wts <= dir'[y].rts
    BY <1>1, <1>2, <2>1 DEF DirEntry
  <2>3. QED BY <1>3, <2>2
<1>4. CASE y # v
  <2>1. dir'[y] = dir[y] /\ tbe'[y] = tbe[y] BY <1>1, <1>4
  <2>2. QED BY <1>2, <2>1 DEF SameClass
<1>5. QED BY <1>3, <1>4

\* The requestor a line was read for is served.
LEMMA GrantFromMemoryOwn ==
    TypeInv /\ OwnInv /\ (GrantShared \/ GrantExclusive) => OwnInv'
<1> SUFFICES ASSUME TypeInv, OwnInv, GrantShared \/ GrantExclusive,
                    NEW a, a = Mem.a, NEW v, v = Mem.val
             PROVE  OwnInv'
  OBVIOUS
<1>1. /\ memQ # <<>> /\ dir[a].st \in {"IS", "IE", "SE"} /\ DirUnchanged
      /\ UNCHANGED <<reqQ, waitQ, rspQ, fwd, auth, fault>>
      /\ tbe' = [tbe EXCEPT ![a] = NoTBE]
  BY DEF GrantShared, GrantExclusive, AtMemory
<1>2. /\ a \in Lines /\ a \in Addrs /\ dir[a] \in DirEntry /\ tbe[a] \in TBE /\ mts \in Nat
      /\ tbe[a].req \in Cores
  BY <1>1, MemHeadType, MtsType DEF Granting
<1>3. LineInv(a) /\ CopiesKept(a) BY <1>1, <1>2, CopiesStay DEF OwnInv
<1>4. NoRequestTwice' /\ NoResponseTwice' /\ Open' = Open /\ Back' = Back
  BY <1>1, QueuesKept DEF OwnInv
<1>5. \A y \in Lines : OpenOf(y)' = OpenOf(y) /\ BackOf(y)' = BackOf(y) /\ FwdOf(y)' = FwdOf(y)
  BY <1>1, <1>4, Views
<1>6. \A y \in Lines \ {a} : tbe'[y] = tbe[y]
  BY <1>1, <1>2 DEF TypeInv, TypeOK, DirTypeOK, Addrs
<1>7. ASSUME NEW e, SetDir(a, e), LineInv(a)', CacheInv',
             \A y \in Lines \ {a} : RepOf(y)' = RepOf(y)
      PROVE  OwnInv'
  <2>1. \A y \in Lines \ {a} : DirKept(y) BY <1>2, <1>6, <1>7, OneEntry DEF DirKept, Addrs
  <2>2. OnlyLine(a) BY <1>1, <1>5, <1>7, <2>1, CopiesStay DEF OnlyLine
  <2>3. QED BY <1>1, <1>2, <1>4, <1>7, <2>2, DirStep
<1> DEFINE n == [st |-> "clean", val |-> v]
<1>8. CASE GrantShared
  <2> DEFINE r == Max2(mts + Lease, tbe[a].lts + Lease)
             e == [dir[a] EXCEPT !.st = "S", !.wts = mts, !.rts = r]
  <2>1. /\ SetDir(a, e) /\ dir[a].st = "IS" /\ llc' = [llc EXCEPT ![a] = n]
        /\ IF Renews(tbe[a].wts)
           THEN Reply("RENEW_REP", a, tbe[a].req, 0, r, 0)
           ELSE Reply("SH_REP", a, tbe[a].req, mts, r, v)
    BY <1>8 DEF GrantShared, AtMemory
  <2>2. r \in Nat /\ mts <= r
    <3>1. /\ mts + Lease \in Nat /\ tbe[a].lts + Lease \in Nat /\ mts <= mts + Lease
      BY <1>2, NumbersAssumption DEF TBE
    <3>2. r \in Nat /\ r >= mts + Lease BY <3>1, MaxType
    <3> HIDE DEF r
    <3>3. QED BY <1>2, <3>1, <3>2, NumbersAssumption
  <2> HIDE DEF r
  <2>3. e.st = "S" /\ e.owner = dir[a].owner /\ e.wts <= e.rts BY <1>2, <2>2 DEF DirEntry
  <2> HIDE DEF e, n
  <2>4. dir'[a] = e BY <1>2, <2>1, OneEntry
  <2>5. PICK m : /\ m.to = tbe[a].req /\ RepOf(a)' = RepOf(a) \cup {m}
                 /\ \A y \in Lines \ {a} : RepOf(y)' = RepOf(y)
                 /\ \/ m.type = "RENEW_REP" /\ tbe[a].wts > 0 /\ tbe[a].wts <= m.rts
                    \/ m.type = "SH_REP" /\ m.wts <= m.rts
    <3>1. CASE Renews(tbe[a].wts)
      <4> DEFINE m == ReplyMsg("RENEW_REP", a, tbe[a].req, 0, r, 0)
      <4>1. Reply("RENEW_REP", a, tbe[a].req, 0, r, 0) BY <2>1, <3>1
      <4>2. /\ m.type = "RENEW_REP" /\ m.to = tbe[a].req /\ m.rts = r
            /\ RepOf(a)' = RepOf(a) \cup {m} /\ \A y \in Lines \ {a} : RepOf(y)' = RepOf(y)
        BY <4>1, ReplyView
      <4>3. tbe[a].wts > 0 /\ tbe[a].wts <= r BY <2>2, <3>1 DEF Renews
      <4> HIDE DEF m
      <4>4. QED BY <4>2, <4>3
    <3>2. CASE ~Renews(tbe[a].wts)
      <4> DEFINE m == ReplyMsg("SH_REP", a, tbe[a].req, mts, r, v)
      <4>1. Reply("SH_REP", a, tbe[a].req, mts, r, v) BY <2>1, <3>2
      <4>2. /\ m.type = "SH_REP" /\ m.to = tbe[a].req /\ m.wts = mts /\ m.rts = r
            /\ RepOf(a)' = RepOf(a) \cup {m} /\ \A y \in Lines \ {a} : RepOf(y)' = RepOf(y)
        BY <4>1, ReplyView
      <4> HIDE DEF m
      <4>3. QED BY <2>2, <4>2
    <3>3. QED BY <3>1, <3>2
  <2>6. LineInv(a)'
    BY <1>2, <1>3, <1>5, <2>1, <2>3, <2>4, <2>5, LineServedReader
  <2>7. CacheInv'
    BY <1>1, <1>2, <2>1, <2>3, CacheFilled DEF Uncached, FetchAuth, EvictAuth, Evicting
  <2>8. QED BY <1>7, <2>1, <2>5, <2>6, <2>7
<1>9. CASE GrantExclusive
  <2> DEFINE e == [st |-> "E", wts |-> mts, rts |-> mts, owner |-> {tbe[a].req}]
             m == ReplyMsg("EX_REP", a, tbe[a].req, mts, mts, v)
  <2>1. /\ SetDir(a, e) /\ dir[a].st \in {"IE", "SE"}
        /\ llc' = IF dir[a].st = "IE" THEN [llc EXCEPT ![a] = n] ELSE llc
        /\ Reply("EX_REP", a, tbe[a].req, mts, mts, v)
    BY <1>9 DEF GrantExclusive, AtMemory, OwnerFromTBE
  <2>2. e.st = "E" /\ e.owner = {tbe[a].req} /\ e.wts <= e.rts BY <1>2
  <2>3. /\ m.type = "EX_REP" /\ m.to = tbe[a].req /\ m.wts <= m.rts
        /\ RepOf(a)' = RepOf(a) \cup {m} /\ \A y \in Lines \ {a} : RepOf(y)' = RepOf(y)
    BY <1>2, <2>1, ReplyView
  <2> HIDE DEF e, m, n
  <2>4. dir'[a] = e BY <1>2, <2>1, OneEntry
  <2>5. LineInv(a)' BY <1>2, <1>3, <1>5, <2>1, <2>2, <2>3, <2>4, LineServedWriter
  <2>6. e.st \notin Uncached \cup {"C_M"}
    BY <2>2 DEF Uncached, FetchAuth, EvictAuth, Evicting
  <2>7. CacheInv'
    <3>1. CASE dir[a].st = "IE" BY <1>1, <1>2, <2>1, <2>6, <3>1, CacheFilled
    <3>2. CASE dir[a].st = "SE" BY <1>1, <1>2, <2>1, <2>6, <3>2, CacheKept
    <3>3. QED BY <2>1, <3>1, <3>2
  <2>8. QED BY <1>7, <2>1, <2>3, <2>5, <2>7
<1>10. QED BY <1>8, <1>9

\* The write back of a victim is acknowledged.
LEMMA EvictionDoneOwn == TypeInv /\ OwnInv /\ EvictionDone => OwnInv'
<1> SUFFICES ASSUME TypeInv, OwnInv, EvictionDone, NEW a, a = Mem.a PROVE OwnInv' OBVIOUS
<1> DEFINE st == IF dir[a].st = "I_Evicting" THEN "I" ELSE "S"
           e == [dir[a] EXCEPT !.st = st]
<1>1. /\ memQ # <<>> /\ dir[a].st \in Evicting /\ DirUnchanged /\ Wake({a})
      /\ UNCHANGED <<rspQ, fwd, rep, llc, auth, fault>>
      /\ SetDir(a, e) /\ tbe' = [tbe EXCEPT ![a] = NoTBE]
  BY DEF EvictionDone, AtMemory
<1>2. a \in Addrs /\ dir[a] \in DirEntry BY <1>1, MemHeadType
<1>3. /\ SameClass(dir[a].st, st) /\ st \notin Granting /\ st \notin Uncached /\ st # "C_M"
  BY <1>1 DEF SameClass, Evicting, OutStates, Recorded, OwnedStates, Granting, Uncached,
              FetchAuth, EvictAuth
<1>4. e.st = st BY <1>2 DEF DirEntry
<1>5. NoRequestTwice' /\ Open' = Open BY <1>1, RequestsWoken DEF OwnInv
<1>6. dir \in [Addrs -> DirEntry] BY DEF TypeInv, TypeOK, DirTypeOK
<1>7. \A y \in Lines : /\ SameClass(dir[y].st, dir'[y].st)
                       /\ dir'[y].owner = dir[y].owner /\ dir'[y].wts <= dir'[y].rts
                       /\ dir'[y].st \in Granting => tbe'[y] = tbe[y]
  <2> HIDE DEF st
  <2>1. QED BY <1>1, <1>2, <1>3, <1>6, EntryKept DEF SetDir
<1>8. CacheInv'
  <2> HIDE DEF st, e
  <2>1. dir'[a] = e /\ \A y \in Addrs \ {a} : dir'[y] = dir[y] BY <1>1, <1>2, OneEntry
  <2>2. QED BY <1>1, <1>3, <1>4, <2>1 DEF OwnInv, CacheInv
<1>9. QED BY <1>1, <1>5, <1>7, <1>8, LinesKept

\* A waiter of k waits next for a counter that is not among those cached.
LEMMA WantedMissing ==
    ASSUME TypeInv, NEW k \in Counters, NEW p \in Counters, p # k, Wanted(k, p)
    PROVE  p \notin InLLC \cup {k}
<1>1. CASE Forwarded(k, p) # {}
  <2>1. PICK s \in Slots : /\ auth[k].slot[s] # NoAddr
                           /\ FirstMissing(auth[k].slot[s], InLLC \cup {k}) = p
    BY <1>1 DEF Forwarded
  <2>2. auth[k].slot[s] \in Addrs BY <2>1 DEF TypeInv, TypeOK, DirTypeOK, AuthTBE
  <2>3. p # NoAddr BY SetsAssumption DEF Addrs
  <2>4. QED BY <2>1, <2>2, <2>3, MissingAncestor
<1>2. CASE p = Parent(k) /\ p \notin InLLC BY <1>2
<1>3. QED BY <1>1, <1>2 DEF Wanted

\* A counter arrives, and with it the evictions that waited for it go on.
LEMMA CounterDataOwn == TypeInv /\ OwnInv /\ CounterData => OwnInv'
<1> SUFFICES ASSUME TypeInv, OwnInv, CounterData, NEW k, k = Mem.a PROVE OwnInv' OBVIOUS
<1> DEFINE here == InLLC \cup {k}
           out == Released(k)
           dirty == UNION {Branch(x, here) : x \in out}
           cached == [llc EXCEPT ![k] = [st |-> "clean", val |-> Mem.val]]
           D == [x \in Addrs |->
                   IF x = k THEN dir[k]
                   ELSE IF x \in out THEN [dir[x] EXCEPT !.st = Written(dir[x].st)]
                   ELSE Modified(dir, dirty)[x]]
<1>1. /\ memQ # <<>> /\ k \in Counters /\ dir[k].st = "I" /\ DirUnchanged
      /\ UNCHANGED <<rspQ, fwd, rep, tbe, fault>>
      /\ UNCHANGED <<reqQ, waitQ>> \/ Wake(Lines)
  BY DEF CounterData, AtMemory
<1>2. llc' = Dirtied(cached, dirty) /\ dir' = D BY Zenon DEF CounterData
<1>3. IF auth[k].busy
      THEN auth' = [p \in Counters |->
                      IF p = k THEN NoAuth
                      ELSE [busy |-> auth[p].busy \/ Wanted(k, p),
                            slot |-> AddWaiters(auth[p].slot, auth[k].slot, Forwarded(k, p))]]
      ELSE auth' = auth
  BY <1>1 DEF CounterData, CounterRead
<1>4. /\ Counters \subseteq Addrs /\ Lines \subseteq Addrs /\ Lines \cap Counters = {}
      /\ dir \in [Addrs -> DirEntry] /\ llc \in [Addrs -> LLCEntry]
  BY SetsAssumption DEF Addrs, TypeInv, TypeOK, DirTypeOK
<1>5. dirty \in SUBSET Counters /\ dirty \subseteq here
  BY BranchType, BranchHere DEF Released
<1>6. cached \in [Addrs -> LLCEntry] /\ \A x \in Addrs \ {k} : cached[x] = llc[x]
  <2>1. [st |-> "clean", val |-> Mem.val] \in LLCEntry BY <1>1, MemHeadType DEF LLCEntry
  <2>2. QED BY <1>4, <2>1
<1> HIDE DEF out, dirty, cached
<1>7. \A x \in Addrs \ {k} : llc'[x].st = IF x \in dirty THEN "dirty" ELSE llc[x].st
  BY <1>2, <1>6, DirtiedEntry
<1>8. \A x \in Addrs : /\ x \in dirty => Modified(dir, dirty)[x].st = "C_M"
                       /\ x \notin dirty => Modified(dir, dirty)[x] = dir[x]
  BY <1>4, <1>5, ModifiedEntry
<1>9. ASSUME NEW st
      PROVE  /\ SameClass(st, Written(st))
             /\ Written(st) \in Uncached => st \in Uncached
             /\ Written(st) = "C_M" => st = "C_M"
  <2>1. CASE st \notin EvictAuth
    <3>1. Written(st) = st BY <2>1 DEF Written, EvictAuth
    <3>2. QED BY <3>1 DEF SameClass
  <2>2. CASE st = "I_Evict_Auth"
    <3>1. Written(st) = "I_Evicting" BY <2>2 DEF Written
    <3>2. QED BY <2>2, <3>1 DEF SameClass, OutStates, Recorded, OwnedStates, Granting,
                                Uncached, EvictAuth
  <2>3. CASE st = "S_Evict_Auth"
    <3>1. Written(st) = "S_Evicting" BY <2>3 DEF Written
    <3>2. QED BY <2>3, <3>1 DEF SameClass, OutStates, Recorded, OwnedStates, Granting,
                                Uncached, EvictAuth
  <2>4. QED BY <2>1, <2>2, <2>3 DEF EvictAuth
<1>10. \A x \in Addrs : LET f == [dir[x] EXCEPT !.st = Written(dir[x].st)]
                        IN  f.st = Written(dir[x].st) /\ f.owner = dir[x].owner
                              /\ f.wts = dir[x].wts /\ f.rts = dir[x].rts
  BY <1>4 DEF DirEntry
<1>11. \A y \in Lines : /\ SameClass(dir[y].st, dir'[y].st)
                        /\ dir'[y].owner = dir[y].owner /\ dir'[y].wts <= dir'[y].rts
                        /\ dir'[y].st \in Granting => tbe'[y] = tbe[y]
  <2> SUFFICES ASSUME NEW y \in Lines
               PROVE  /\ SameClass(dir[y].st, dir'[y].st)
                      /\ dir'[y].owner = dir[y].owner /\ dir'[y].wts <= dir'[y].rts
    BY <1>1
  <2>1. y \in Addrs /\ y # k /\ y \notin dirty BY <1>1, <1>4, <1>5
  <2>2. dir[y].wts <= dir[y].rts BY DEF OwnInv, LineInv, LeasesOrdered
  <2>3. CASE y \in out
    <3>1. dir'[y] = [dir[y] EXCEPT !.st = Written(dir[y].st)] BY <1>2, <2>1, <2>3
    <3>2. QED BY <1>9, <1>10, <2>1, <2>2, <3>1
  <2>4. CASE y \notin out
    <3>1. dir'[y] = dir[y] BY <1>2, <1>8, <2>1, <2>4
    <3>2. QED BY <2>2, <3>1 DEF SameClass
  <2>5. QED BY <2>3, <2>4
<1>12. NoRequestTwice' /\ Open' = Open
  BY <1>1, RequestsWoken, QueuesKept DEF OwnInv
<1>13. CacheInv'
  <2>1. ASSUME NEW x \in Addrs, llc[x].st = "none", x # k PROVE llc'[x].st = "none"
    BY <1>5, <1>7, <2>1 DEF InLLC
  <2>2. ASSUME NEW x \in Addrs
        PROVE  /\ dir'[x].st \in Uncached => llc'[x].st = "none"
               /\ dir'[x].st = "C_M" => llc'[x].st = "dirty"
    <3>1. CASE x = k
      <4>1. dir'[x] = dir[k] BY <1>2, <3>1
      <4>2. QED BY <1>1, <4>1 DEF Uncached, FetchAuth, EvictAuth, Evicting
    <3>2. CASE x # k /\ x \in out
      <4>1. dir'[x].st = Written(dir[x].st) BY <1>2, <1>10, <3>2
      <4>2. /\ dir'[x].st \in Uncached => dir[x].st \in Uncached
            /\ dir'[x].st = "C_M" => dir[x].st = "C_M"
        BY <1>9, <4>1
      <4>3. QED BY <1>7, <2>1, <3>2, <4>2 DEF OwnInv, CacheInv
    <3>3. CASE x # k /\ x \notin out /\ x \in dirty
      <4>1. dir'[x].st = "C_M" BY <1>2, <1>8, <3>3
      <4>2. QED BY <1>7, <3>3, <4>1 DEF Uncached, FetchAuth, EvictAuth, Evicting
    <3>4. CASE x # k /\ x \notin out /\ x \notin dirty
      <4>1. dir'[x] = dir[x] BY <1>2, <1>8, <3>4
      <4>2. QED BY <1>7, <2>1, <3>4, <4>1 DEF OwnInv, CacheInv
    <3>5. QED BY <3>1, <3>2, <3>3, <3>4
  <2>3. ASSUME NEW q \in Counters, auth'[q].busy PROVE llc'[q].st = "none"
    <3>1. CASE q = k
      <4>1. ~NoAuth.busy BY DEF NoAuth
      <4>2. QED BY <1>3, <2>3, <3>1, <4>1
    <3>2. CASE q # k
      <4>1. auth[q].busy \/ Wanted(k, q)
        <5>1. CASE auth[k].busy
          <6> DEFINE A(p) == [busy |-> auth[p].busy \/ Wanted(k, p),
                              slot |-> AddWaiters(auth[p].slot, auth[k].slot, Forwarded(k, p))]
          <6>1. A(q).busy = (auth[q].busy \/ Wanted(k, q)) OBVIOUS
          <6>2. auth' = [p \in Counters |-> IF p = k THEN NoAuth ELSE A(p)] BY <1>3, <5>1
          <6> HIDE DEF A
          <6>3. auth'[q] = A(q) BY <3>2, <6>2
          <6>4. QED BY <2>3, <6>1, <6>3
        <5>2. QED BY <1>3, <2>3, <5>1
      <4>2. CASE auth[q].busy BY <1>4, <2>1, <3>2, <4>2 DEF OwnInv, CacheInv
      <4>3. CASE Wanted(k, q)
        <5>1. q \notin InLLC BY <1>1, <3>2, <4>3, WantedMissing
        <5>2. QED BY <1>4, <2>1, <3>2, <5>1 DEF InLLC
      <4>4. QED BY <4>1, <4>2, <4>3
    <3>3. QED BY <3>1, <3>2
  <2>4. QED BY <2>2, <2>3 DEF CacheInv
<1>14. QED BY <1>1, <1>11, <1>12, <1>13, LinesKept

\* A counter that arrives during its own eviction is a known fault: a counter that
\* is being read is not cached, so it cannot be in C_M.
LEMMA MemoryPanicOwn == TypeInv /\ OwnInv /\ MemoryPanic => OwnInv'
<1> SUFFICES ASSUME TypeInv, OwnInv, MemoryPanic, NEW k, k = Mem.a PROVE OwnInv' OBVIOUS
<1>1. /\ k \in Counters /\ k \in Addrs /\ auth[k].busy /\ dir[k].st # "I"
      /\ fault' = <<"Dir", dir[k].st, "Counter_Data">>
  BY DEF MemoryPanic, AtMemory, CounterRead, Addrs
<1>2. dir[k].st \in {"I", "C_M", "I_Evict_Auth", "I_Evicting"}
  BY <1>1 DEF TypeInv, CounterStates
<1>3. llc[k].st = "none" BY <1>1 DEF OwnInv, CacheInv
<1>4. dir[k].st # "C_M"
  <2>1. dir[k].st = "C_M" => llc[k].st = "dirty" BY <1>1 DEF OwnInv, CacheInv
  <2>2. QED BY <1>3, <2>1
<1>5. OnlyKnownFaults' BY <1>1, <1>2, <1>4 DEF OnlyKnownFaults, KnownFaults
<1>6. QED BY <1>5, FaultOwn DEF MemoryPanic

\* No transition on an answer of the memory disturbs the invariant.
LEMMA MemoryPortOwn == TypeInv /\ OwnInv /\ MemoryPort => OwnInv'
BY GrantFromMemoryOwn, CounterDataOwn, EvictionDoneOwn, MemoryPanicOwn DEF MemoryPort

-----------------------------------------------------------------------------
(* Evictions of the LLC.                                                   *)

\* A victim of the LLC leaves it, and counters cached meanwhile become dirty.
LEMMA VictimDropped ==
    ASSUME TypeInv, OwnInv, NEW v \in Addrs, NEW st, st # "C_M",
           NEW ks \in SUBSET Counters, ks \subseteq InLLC,
           dir' = [Modified(dir, ks) EXCEPT ![v] = [dir[v] EXCEPT !.st = st]],
           Drop(v, Dirtied(llc, ks)),
           \A q \in Counters : auth'[q].busy => auth[q].busy \/ llc[q].st = "none"
    PROVE  CacheInv'
<1>1. /\ Counters \subseteq Addrs /\ dir \in [Addrs -> DirEntry] /\ llc \in [Addrs -> LLCEntry]
  BY DEF Addrs, TypeInv, TypeOK, DirTypeOK
<1> DEFINE e == [dir[v] EXCEPT !.st = st]
<1>2. e.st = st BY <1>1 DEF DirEntry
<1> HIDE DEF e
<1>3. /\ Modified(dir, ks) \in [Addrs -> DirEntry]
      /\ \A y \in Addrs : /\ y \notin ks => Modified(dir, ks)[y] = dir[y]
                          /\ y \in ks => Modified(dir, ks)[y].st = "C_M"
  BY <1>1, ModifiedType, ModifiedEntry
<1>4. /\ Dirtied(llc, ks) \in [Addrs -> LLCEntry]
      /\ \A y \in Addrs : Dirtied(llc, ks)[y].st = IF y \in ks THEN "dirty" ELSE llc[y].st
  BY <1>1, DirtiedType, DirtiedEntry
<1>5. dir'[v].st = st /\ \A y \in Addrs \ {v} : dir'[y] = Modified(dir, ks)[y]
  BY <1>2, <1>3 DEF e
<1>6. llc'[v].st = "none" /\ \A y \in Addrs \ {v} : llc'[y] = Dirtied(llc, ks)[y]
  BY <1>4 DEF Drop, NoLLC
<1>7. \A y \in ks : llc[y].st # "none" BY DEF InLLC
<1>8. ASSUME NEW y \in Addrs, llc[y].st = "none" PROVE llc'[y].st = "none"
  BY <1>4, <1>6, <1>7, <1>8
<1>9. ASSUME NEW y \in Addrs
      PROVE  /\ dir'[y].st \in Uncached => llc'[y].st = "none"
             /\ dir'[y].st = "C_M" => llc'[y].st = "dirty"
  <2>1. CASE y = v BY <1>5, <1>6, <2>1
  <2>2. CASE y # v /\ y \in ks
    <3>1. dir'[y].st = "C_M" /\ llc'[y].st = "dirty" BY <1>3, <1>4, <1>5, <1>6, <2>2
    <3>2. QED BY <3>1 DEF Uncached, FetchAuth, EvictAuth, Evicting
  <2>3. CASE y # v /\ y \notin ks
    <3>1. dir'[y] = dir[y] /\ llc'[y].st = llc[y].st BY <1>3, <1>4, <1>5, <1>6, <2>3
    <3>2. QED BY <3>1 DEF OwnInv, CacheInv
  <2>4. QED BY <2>1, <2>2, <2>3
<1>10. \A q \in Counters : auth'[q].busy => llc'[q].st = "none"
  BY <1>1, <1>8 DEF OwnInv, CacheInv
<1>11. QED BY <1>9, <1>10 DEF CacheInv

\* Nothing is marked where no counter is.
LEMMA NothingMarked ==
    ASSUME TypeInv
    PROVE  Modified(dir, {}) = dir /\ Dirtied(llc, {}) = llc
<1>1. dir \in [Addrs -> DirEntry] /\ llc \in [Addrs -> LLCEntry]
  BY DEF TypeInv, TypeOK, DirTypeOK
<1>2. QED BY <1>1 DEF Modified, Dirtied

\* A victim that stays in its class: it is parked and its block given up.
LEMMA VictimParked ==
    ASSUME TypeInv, OwnInv, NEW v \in Addrs, DirUnchanged, UNCHANGED <<chanVars, fault>>,
           NEW st, SameClass(dir[v].st, st), st \notin Granting, st # "C_M",
           NEW ks \in SUBSET Counters, ks \subseteq InLLC,
           dir' = [Modified(dir, ks) EXCEPT ![v] = [dir[v] EXCEPT !.st = st]],
           Drop(v, Dirtied(llc, ks)), Park(v),
           \A q \in Counters : auth'[q].busy => auth[q].busy \/ llc[q].st = "none"
    PROVE  OwnInv'
<1>1. NoRequestTwice' /\ Open' = Open BY QueuesKept DEF OwnInv, chanVars
<1>2. CacheInv' BY VictimDropped
<1>3. /\ dir \in [Addrs -> DirEntry] /\ Lines \subseteq Addrs /\ Lines \cap Counters = {}
  BY SetsAssumption DEF Addrs, TypeInv, TypeOK, DirTypeOK
<1>4. /\ Modified(dir, ks) \in [Addrs -> DirEntry]
      /\ \A y \in Lines : Modified(dir, ks)[y] = dir[y]
  <2>1. \A y \in Lines : y \in Addrs /\ y \notin ks BY <1>3
  <2>2. QED BY <1>3, <2>1, ModifiedType, ModifiedEntry
<1> DEFINE t == [NoTBE EXCEPT !.wts = dir[v].wts, !.val = llc[v].val]
<1>5. tbe' = [tbe EXCEPT ![v] = t] BY DEF Park
<1> HIDE DEF t
<1>6. \A y \in Lines : /\ SameClass(dir[y].st, dir'[y].st)
                       /\ dir'[y].owner = dir[y].owner /\ dir'[y].wts <= dir'[y].rts
                       /\ dir'[y].st \in Granting => tbe'[y] = tbe[y]
  BY <1>4, <1>5, EntryKept
<1>7. QED BY <1>1, <1>2, <1>6, LinesKept DEF chanVars

\* A clean victim is dropped.
LEMMA EvictCleanOwn ==
    ASSUME TypeInv, OwnInv, NEW v \in Addrs, EvictClean(v)
    PROVE  OwnInv'
<1>1. /\ DirUnchanged /\ UNCHANGED <<chanVars, dir, tbe, auth, fault>>
      /\ dir[v].st \in {"I", "S", "E"} /\ Drop(v, llc)
  BY DEF EvictClean, Replace
<1>2. /\ dir \in [Addrs -> DirEntry] /\ llc \in [Addrs -> LLCEntry]
      /\ Lines \subseteq Addrs /\ Counters \subseteq Addrs
  BY DEF Addrs, TypeInv, TypeOK, DirTypeOK
<1>3. CacheInv'
  <2>1. llc'[v].st = "none" /\ \A y \in Addrs \ {v} : llc'[y] = llc[y]
    BY <1>1, <1>2 DEF Drop, NoLLC
  <2>2. QED BY <1>1, <1>2, <2>1 DEF OwnInv, CacheInv
<1>4. NoRequestTwice' /\ Open' = Open BY <1>1, QueuesKept DEF OwnInv, chanVars
<1>5. \A y \in Lines : dir[y].wts <= dir[y].rts BY DEF OwnInv, LineInv, LeasesOrdered
<1>6. QED BY <1>1, <1>3, <1>4, <1>5, LinesKept DEF chanVars, SameClass

\* A dirty victim is written back and the cached part of its branch marked.
LEMMA EvictDirtyOwn ==
    ASSUME TypeInv, OwnInv, NEW v \in Addrs, EvictDirty(v)
    PROVE  OwnInv'
<1> DEFINE ks == Branch(v, InLLC)
           st == IF dir[v].st = "I" THEN "I_Evicting" ELSE "S_Evicting"
<1>1. /\ DirUnchanged /\ UNCHANGED <<chanVars, auth, fault>>
      /\ dir[v].st \in {"I", "S"} /\ Park(v)
      /\ dir' = [Modified(dir, ks) EXCEPT ![v] = [dir[v] EXCEPT !.st = st]]
      /\ Drop(v, Dirtied(llc, ks))
  BY DEF EvictDirty, Replace
<1>2. ks \in SUBSET Counters /\ ks \subseteq InLLC BY BranchType, BranchHere
<1>3. SameClass(dir[v].st, st) /\ st \notin Granting /\ st # "C_M"
  BY <1>1 DEF SameClass, OutStates, Recorded, OwnedStates, Granting
<1> HIDE DEF ks, st
<1>4. QED BY <1>1, <1>2, <1>3, VictimParked

\* A counter is written back, or a victim waits for a counter.
LEMMA EvictSingleOwn ==
    ASSUME TypeInv, OwnInv, NEW v \in Addrs,
           EvictCounter(v) \/ EvictAwaitingCounter(v) \/ EvictCounterAwaitingParent(v)
    PROVE  OwnInv'
<1> DEFINE st == IF EvictCounter(v) THEN "I_Evicting"
                 ELSE IF dir[v].st = "S" THEN "S_Evict_Auth" ELSE "I_Evict_Auth"
<1>1. /\ DirUnchanged /\ UNCHANGED <<chanVars, fault>> /\ Park(v) /\ Drop(v, llc)
      /\ dir[v].st \in {"I", "S", "C_M"}
  BY DEF EvictCounter, EvictAwaitingCounter, EvictCounterAwaitingParent, Replace
<1>2. \A q \in Counters : auth'[q].busy => auth[q].busy \/ llc[q].st = "none"
  BY EvictionFetches DEF EvictCounter, EvictAwaitingCounter, EvictCounterAwaitingParent
<1>3. \E new \in {"I_Evicting", "I_Evict_Auth", "S_Evict_Auth"} :
        SetDir(v, [dir[v] EXCEPT !.st = new])
  BY DEF EvictCounter, EvictAwaitingCounter, EvictCounterAwaitingParent
<1>4. PICK new \in {"I_Evicting", "I_Evict_Auth", "S_Evict_Auth"} :
        dir' = [dir EXCEPT ![v] = [dir[v] EXCEPT !.st = new]]
  BY <1>3 DEF SetDir
<1>5. SameClass(dir[v].st, new) /\ new \notin Granting /\ new # "C_M"
  BY <1>1 DEF SameClass, OutStates, Recorded, OwnedStates, Granting
<1>6. {} \in SUBSET Counters /\ {} \subseteq InLLC OBVIOUS
<1>7. QED BY <1>1, <1>2, <1>4, <1>5, <1>6, NothingMarked, VictimParked

\* The owner of a victim is asked for it.
LEMMA EvictOwnedLineOwn ==
    ASSUME TypeInv, OwnInv, NEW v \in Addrs, EvictOwnedLine(v)
    PROVE  OwnInv'
<1> DEFINE e == [dir[v] EXCEPT !.st = "E_Evict_Flush"]
           F == RecallMsgs("FLUSH_REQ", v, 0)
<1>1. /\ DirUnchanged /\ UNCHANGED <<reqQ, waitQ, rspQ, rep, auth, fault>>
      /\ dir[v].st = "E" /\ SetDir(v, e) /\ AskOwner("FLUSH_REQ", v, 0) /\ Drop(v, llc)
      /\ Park(v)
  BY DEF EvictOwnedLine, Replace
<1>2. v \in Lines BY <1>1 DEF TypeInv, CounterStates, Addrs
<1>3. LineInv(v) /\ CopiesKept(v) /\ dir[v] \in DirEntry
  BY <1>1, <1>2, CopiesStay DEF OwnInv, TypeInv, TypeOK, DirTypeOK
<1>4. e.st = "E_Evict_Flush" /\ e.owner = dir[v].owner /\ e.wts <= e.rts
  BY <1>3 DEF DirEntry, LineInv, LeasesOrdered
<1>5. /\ \A f \in F : f.to \in dir[v].owner
      /\ \A f, g \in F : f.to = g.to => f = g
      /\ FwdOf(v)' = FwdOf(v) \cup F /\ \A y \in Lines \ {v} : FwdOf(y)' = FwdOf(y)
  BY <1>1, RecallView
<1> HIDE DEF e, F
<1>6. dir'[v] = e /\ \A y \in Addrs \ {v} : dir'[y] = dir[y] BY <1>1, OneEntry
<1>7. \A y \in Lines \ {v} : tbe'[y] = tbe[y]
  BY <1>1 DEF Park, Addrs, TypeInv, TypeOK, DirTypeOK
<1>8. NoRequestTwice' /\ NoResponseTwice' /\ Open' = Open /\ Back' = Back
  BY <1>1, QueuesKept DEF OwnInv
<1>9. \A y \in Lines : OpenOf(y)' = OpenOf(y) /\ BackOf(y)' = BackOf(y) /\ RepOf(y)' = RepOf(y)
  BY <1>1, <1>8, Views
<1>10. LineInv(v)' BY <1>1, <1>2, <1>3, <1>4, <1>5, <1>6, <1>9, LineFlushed
<1>11. OnlyLine(v) BY <1>1, <1>5, <1>6, <1>7, <1>9, CopiesStay DEF OnlyLine, DirKept, Addrs
<1>12. CacheInv'
  <2>1. llc'[v].st = "none" /\ \A y \in Addrs \ {v} : llc'[y] = llc[y]
    BY <1>1 DEF Drop, NoLLC, TypeInv, TypeOK, DirTypeOK
  <2>2. Counters \subseteq Addrs BY DEF Addrs
  <2>3. QED BY <1>1, <1>4, <1>6, <2>1, <2>2 DEF OwnInv, CacheInv
<1>13. QED BY <1>1, <1>2, <1>8, <1>10, <1>11, <1>12, DirStep

\* The victims no transition is declared for: only lines recalled on behalf of
\* another core are met, with a stale block whose branch is incomplete.  A line in
\* another transition is not in the LLC, and a counter in C_M is dirty.
LEMMA ReplacePanicOwn ==
    ASSUME TypeInv, OwnInv, NEW v \in Addrs, ReplacePanic(v)
    PROVE  OwnInv'
<1>1. /\ llc[v].st # "none" /\ ~ReplDefined(dir[v].st, ReplEvent(v))
      /\ fault' = <<"Dir", dir[v].st, ReplEvent(v)>>
  BY DEF ReplacePanic, InLLC
<1>2. dir[v].st \notin Uncached BY <1>1 DEF OwnInv, CacheInv
<1>3. dir[v].st \in DirStates BY DEF TypeInv, TypeOK, DirTypeOK, DirEntry
<1>4. dir[v].st = "C_M" => ReplEvent(v) # "LLC_Repl_Clean"
  <2>1. dir[v].st = "C_M" => llc[v].st = "dirty" BY DEF OwnInv, CacheInv
  <2>2. QED BY <2>1 DEF ReplEvent
<1>5. ReplEvent(v) \in {"LLC_Repl_Clean", "LLC_Repl_Dirty", "LLC_Repl_Dirty_Auth_Miss"}
  BY DEF ReplEvent
<1>6. dir[v].st \in {"ES", "EE"} /\ ReplEvent(v) = "LLC_Repl_Dirty_Auth_Miss"
  BY <1>1, <1>2, <1>3, <1>4, <1>5
     DEF ReplDefined, DirStates, Uncached, Granting, FetchAuth, EvictAuth, Evicting
<1>7. OnlyKnownFaults' BY <1>1, <1>6 DEF OnlyKnownFaults, KnownFaults
<1>8. QED BY <1>7, FaultOwn DEF ReplacePanic

\* No eviction of the LLC disturbs the invariant.
LEMMA ReplacementOwn ==
    ASSUME TypeInv, OwnInv, NEW v \in Addrs, Replacement(v)
    PROVE  OwnInv'
BY EvictCleanOwn, EvictDirtyOwn, EvictSingleOwn, EvictOwnedLineOwn, ReplacePanicOwn
   DEF Replacement

-----------------------------------------------------------------------------
(* The whole system.                                                       *)

\* The memory changes nothing the invariant is about.
LEMMA MemServeOwn ==
    ASSUME OwnInv, NEW x \in Addrs, MemServe(x)
    PROVE  OwnInv'
<1>1. UNCHANGED <<l1, mq, chanVars, dir, tbe, llc, auth, fault>>
  BY DEF MemServe, l1Vars, dirVars
<1>2. OnlyKnownFaults' BY <1>1 DEF OwnInv, OnlyKnownFaults, KnownFaults
<1>3. QED BY <1>1, <1>2, Invisible

\* A step that changes nothing.
LEMMA StutterOwn ==
    ASSUME OwnInv, UNCHANGED vars
    PROVE  OwnInv'
<1>1. UNCHANGED <<l1, mq, chanVars, dir, tbe, llc, auth, fault>>
  BY DEF vars, l1Vars, dirVars
<1>2. OnlyKnownFaults' BY <1>1 DEF OwnInv, OnlyKnownFaults, KnownFaults
<1>3. QED BY <1>1, <1>2, Invisible

\* The invariant holds initially: nothing is out, on its way or asked for.
LEMMA InitOwn == Init => OwnInv
<1> SUFFICES ASSUME Init PROVE OwnInv OBVIOUS
<1>1. /\ reqQ = <<>> /\ rspQ = <<>> /\ waitQ = {} /\ fwd = {} /\ rep = {} /\ fault = NoFault
      /\ \A x \in Addrs : dir[x].st = "I" /\ dir[x].owner = {} /\ dir[x].wts <= dir[x].rts
      /\ \A x \in Addrs : llc[x].st = "none"
      /\ \A c \in Cores, x \in Lines : State(c, x) = "I" /\ l1[c][x].wts <= l1[c][x].rts
      /\ \A c \in Cores : mq[c] = <<>>
  BY DEF Init, NoLLC, NewEntry, State
<1>2. Open = {} /\ Back = {} BY <1>1 DEF Open, Back
<1>3. \A x \in Lines : OpenOf(x) = {} /\ BackOf(x) = {} /\ RepOf(x) = {} /\ FwdOf(x) = {}
  BY <1>1, <1>2 DEF OpenOf, BackOf, RepOf, FwdOf
<1>4. NoRequestTwice /\ NoResponseTwice BY <1>1 DEF NoRequestTwice, NoResponseTwice
<1>5. \A x \in Lines : LineInv(x)
  <2> SUFFICES ASSUME NEW x \in Lines PROVE LineInv(x) OBVIOUS
  <2>1. x \in Addrs BY DEF Addrs
  <2>2. OneToken(x) BY <1>1, <1>3, <2>1 DEF OneToken, Holds, OutStates
  <2>3. OwnerKnown(x) BY <1>1, <1>3, <2>1 DEF OwnerKnown, Recorded
  <2>4. RecallsReach(x) /\ WriteBacksAcked(x) BY <1>1, <1>3 DEF RecallsReach, WriteBacksAcked
  <2>5. RequestsMatch(x) /\ RepliesMatch(x) /\ OneTransaction(x)
    BY <1>1, <1>3 DEF RequestsMatch, RepliesMatch, OneTransaction
  <2>6. TBEMatches(x) BY <1>1, <2>1 DEF TBEMatches
  <2>7. LeasesOrdered(x) BY <1>1, <1>3, <2>1 DEF LeasesOrdered
  <2>8. QED BY <2>2, <2>3, <2>4, <2>5, <2>6, <2>7 DEF LineInv
<1>6. \A c \in Cores : QueueInv(c) BY <1>1 DEF QueueInv
<1>7. CacheInv
  <2>1. \A q \in Counters : q \in Addrs BY DEF Addrs
  <2>2. QED BY <1>1, <2>1 DEF CacheInv, Uncached, FetchAuth, EvictAuth, Evicting
<1>8. OnlyKnownFaults BY <1>1 DEF OnlyKnownFaults
<1>9. QED BY <1>4, <1>5, <1>6, <1>7, <1>8 DEF OwnInv

\* No step of the system disturbs the invariant.
LEMMA NextOwn == TypeInv /\ OwnInv /\ [Next]_vars => OwnInv'
<1> SUFFICES ASSUME TypeInv, OwnInv, [Next]_vars PROVE OwnInv' OBVIOUS
<1>1. CASE \E c \in Cores : L1Next(c) BY <1>1, L1Own
<1>2. CASE Stop BY <1>2, StutterOwn DEF Stop
<1>3. CASE DirNext
  <2>1. ASSUME NEW v \in Addrs, Replacement(v) PROVE OwnInv' BY <2>1, ReplacementOwn
  <2>2. QED BY <1>3, <2>1, RequestPortOwn, ResponsePortOwn, MemoryPortOwn DEF DirNext
<1>4. CASE \E x \in Addrs : MemServe(x) BY <1>4, MemServeOwn
<1>5. CASE UNCHANGED vars BY <1>5, StutterOwn
<1>6. QED BY <1>1, <1>2, <1>3, <1>4, <1>5 DEF Next

\* The ownership invariant holds throughout.
THEOREM OwnershipInvariant == Spec => []OwnInv
<1>1. TypeInv /\ OwnInv /\ [Next]_vars => OwnInv' BY NextOwn
<1>2. QED BY <1>1, InitOwn, TypeCorrect, PTL DEF Spec

-----------------------------------------------------------------------------
(* What the invariant says of the runs' properties.                        *)

\* A set without two different elements has one or none.
LEMMA AtMostOne ==
    ASSUME NEW S, \A a, b \in S : a = b
    PROVE  Cardinality(S) = IF S = {} THEN 0 ELSE 1
<1>1. CASE S = {} BY <1>1, FS_EmptySet
<1>2. CASE S # {}
  <2>1. PICK a \in S : TRUE BY <1>2
  <2>2. S = {a} BY <2>1
  <2>3. QED BY <1>2, <2>2, FS_Singleton
<1>3. QED BY <1>1, <1>2

\* A line has one holder at most.
LEMMA OneHolder ==
    ASSUME TypeInv, OwnInv, NEW x \in Lines
    PROVE  /\ \A c, d \in Cores : Holds(c, x) /\ Holds(d, x) => c = d
           /\ \A c \in Cores : Holds(c, x) <=>
                \/ c \in Owners(x) \/ \E m \in Grants(x) : m.to = c
                \/ \E i \in HandedBack(x) : rspQ[i].from = c
           /\ dir[x].st \in OutStates <=> \E c \in Cores : Holds(c, x)
<1>1. LineInv(x) BY DEF OwnInv
<1>2. OneToken(x) BY <1>1 DEF LineInv
<1>3. \A c, d \in Cores : Holds(c, x) /\ Holds(d, x) => c = d
  BY <1>2 DEF OneToken, Holds
<1>4. \A m : m \in Grants(x) <=> m \in RepOf(x) /\ IsGrant(m)
  BY DEF Grants, RepOf, IsGrant
<1>5. \A b : b \in BackOf(x) <=> \E i \in HandedBack(x) : rspQ[i] = b
  BY DEF HandedBack, BackOf, Back
<1>6. \A c : c \in Owners(x) <=> c \in Cores /\ State(c, x) = "E" BY DEF Owners, State
<1>7. QED BY <1>2, <1>3, <1>4, <1>5, <1>6 DEF OneToken, Holds

\* The token of a line is out exactly while the directory says so, once.
LEMMA TokenCounted == TypeInv /\ OwnInv => OwnershipToken
<1> SUFFICES ASSUME TypeInv, OwnInv, NEW x \in Lines
             PROVE  Cardinality(Owners(x)) + Cardinality(Grants(x)) + Cardinality(HandedBack(x)) =
                      IF dir[x].st \in OwnedStates \cup {"ES", "EE", "E_Evict_Flush"} THEN 1 ELSE 0
  BY DEF OwnershipToken
<1>1. OneToken(x) BY DEF OwnInv, LineInv
<1>2. \A m : m \in Grants(x) <=> m \in RepOf(x) /\ IsGrant(m)
  BY DEF Grants, RepOf, IsGrant
<1>3. \A b : b \in BackOf(x) <=> \E i \in HandedBack(x) : rspQ[i] = b
  BY DEF HandedBack, BackOf, Back
<1>4. \A c : c \in Owners(x) <=> c \in Cores /\ State(c, x) = "E" BY DEF Owners, State
<1>5. \A c, d \in Owners(x) : c = d BY <1>1, <1>4 DEF OneToken
<1>6. \A m, n \in Grants(x) : m = n BY <1>1, <1>2 DEF OneToken
<1>7. \A i, j \in HandedBack(x) : i = j BY DEF OwnInv, NoResponseTwice, HandedBack
<1>8. /\ Cardinality(Owners(x)) = IF Owners(x) = {} THEN 0 ELSE 1
      /\ Cardinality(Grants(x)) = IF Grants(x) = {} THEN 0 ELSE 1
      /\ Cardinality(HandedBack(x)) = IF HandedBack(x) = {} THEN 0 ELSE 1
  BY <1>5, <1>6, <1>7, AtMostOne
<1>9. /\ Owners(x) # {} => Grants(x) = {} /\ HandedBack(x) = {}
      /\ Grants(x) # {} => HandedBack(x) = {}
  <2>1. \A b \in BackOf(x) : b.from \in Cores BY ViewTypes
  <2>2. Owners(x) # {} => Grants(x) = {} BY <1>1, <1>2, <1>4 DEF OneToken
  <2>3. Owners(x) # {} => HandedBack(x) = {} BY <1>1, <1>3, <1>4 DEF OneToken
  <2>4. Grants(x) # {} => HandedBack(x) = {} BY <1>1, <1>2, <1>3 DEF OneToken
  <2>5. QED BY <2>2, <2>3, <2>4
<1>10. dir[x].st \in OutStates <=> Owners(x) # {} \/ Grants(x) # {} \/ HandedBack(x) # {}
  <2>1. /\ \A m \in Grants(x) : m.to \in Cores
        /\ \A i \in HandedBack(x) : rspQ[i].from \in Cores
    BY <1>2, <1>3, ViewTypes
  <2>2. Owners(x) \subseteq Cores BY DEF Owners
  <2>3. QED BY <2>1, <2>2, OneHolder
<1>11. OutStates = OwnedStates \cup {"ES", "EE", "E_Evict_Flush"}
  BY DEF OutStates, OwnedStates
<1>12. QED BY <1>8, <1>9, <1>10, <1>11

\* The owner the directory records is the holder of the token.
LEMMA OwnerCounted == TypeInv /\ OwnInv => OwnerRecorded
<1> SUFFICES ASSUME TypeInv, OwnInv, NEW x \in Lines
             PROVE  IF dir[x].st \in OwnedStates \cup {"E_Evict_Flush"}
                    THEN \E c \in Cores : /\ dir[x].owner = {c}
                                          /\ \/ c \in Owners(x)
                                             \/ \E m \in Grants(x) : m.to = c
                                             \/ \E i \in HandedBack(x) : rspQ[i].from = c
                    ELSE dir[x].owner = {}
  BY DEF OwnerRecorded
<1>1. OwnerKnown(x) /\ dir[x] \in DirEntry BY ViewTypes DEF OwnInv, LineInv
<1>2. dir[x].owner \subseteq Cores BY <1>1 DEF DirEntry
<1>3. Recorded = OwnedStates \cup {"E_Evict_Flush"} /\ Recorded \subseteq OutStates
  BY DEF Recorded, OwnedStates, OutStates
<1>4. CASE dir[x].st \in Recorded
  <2>1. PICK c \in Cores : Holds(c, x) BY <1>3, <1>4, OneHolder
  <2>2. dir[x].owner = {c} BY <1>1, <1>2, <1>4, <2>1, OneHolder DEF OwnerKnown
  <2>3. QED BY <1>3, <1>4, <2>1, <2>2, OneHolder
<1>5. CASE dir[x].st \notin Recorded
  <2>1. dir[x].owner = {} BY <1>1, <1>2, <1>5 DEF OwnerKnown
  <2>2. QED BY <1>3, <1>5, <2>1
<1>6. QED BY <1>4, <1>5

\* A reply is the one its L1 waits for.
LEMMA RepliesAwaited == TypeInv /\ OwnInv => RepliesExpected
<1> SUFFICES ASSUME TypeInv, OwnInv, NEW m \in rep
             PROVE  m.type \in Awaited(l1[m.to][m.a].st)
  BY DEF RepliesExpected
<1>1. m \in ToCache BY DEF TypeInv, TypeOK, BuffersTypeOK
<1>2. m.a \in Lines /\ m \in RepOf(m.a) BY <1>1 DEF ToCache, RepOf
<1>3. RepliesMatch(m.a) BY <1>2 DEF OwnInv, LineInv
<1>4. QED BY <1>2, <1>3 DEF RepliesMatch, State

\* The leases of copies, entries and messages are in order.
LEMMA LeasesCounted == TypeInv /\ OwnInv => TimestampOrder
<1> SUFFICES ASSUME TypeInv, OwnInv PROVE TimestampOrder OBVIOUS
<1>1. \A x \in Lines : LeasesOrdered(x) /\ RepliesMatch(x) BY DEF OwnInv, LineInv
<1>2. /\ \A c \in Cores, x \in Lines : l1[c][x].wts <= l1[c][x].rts
      /\ \A x \in Lines : dir[x].wts <= dir[x].rts
  BY <1>1 DEF LeasesOrdered
<1>3. ASSUME NEW m \in rep, m.type \in {"SH_REP", "EX_REP"} PROVE m.wts <= m.rts
  <2>1. m \in ToCache BY DEF TypeInv, TypeOK, BuffersTypeOK
  <2>2. m.a \in Lines /\ m \in RepOf(m.a) BY <2>1 DEF ToCache, RepOf
  <2>3. QED BY <1>1, <1>3, <2>2 DEF RepliesMatch
<1>4. ASSUME NEW i \in 1..Len(rspQ) PROVE rspQ[i].wts <= rspQ[i].rts
  <2>1. rspQ[i] \in FromCache BY DEF TypeInv, TypeOK, BuffersTypeOK
  <2>2. rspQ[i].a \in Lines /\ rspQ[i] \in BackOf(rspQ[i].a)
    BY <2>1 DEF FromCache, BackOf, Back
  <2>3. QED BY <1>1, <2>2 DEF LeasesOrdered
<1>5. QED BY <1>2, <1>3, <1>4 DEF TimestampOrder

\* The right to write a line is never duplicated and never lost: an L1 in E, a grant
\* on its way or a write back on its way, one in all while the line is out.
THEOREM OneWriter == Spec => []OwnershipToken
BY TypeCorrect, OwnershipInvariant, TokenCounted, PTL

\* The directory knows who holds the line it has given away: the asserts on the
\* number of owners in getState, setState and setOwner hold.
THEOREM OwnerIsHolder == Spec => []OwnerRecorded
BY TypeCorrect, OwnershipInvariant, OwnerCounted, PTL

\* No reply finds its L1 in a state that declares no transition for it.
THEOREM EveryReplyExpected == Spec => []RepliesExpected
BY TypeCorrect, OwnershipInvariant, RepliesAwaited, PTL

\* No lease ends before it begins, in a copy, an entry or a message.
THEOREM LeasesInOrder == Spec => []TimestampOrder
BY TypeCorrect, OwnershipInvariant, LeasesCounted, PTL

\* Of the (state, event) pairs that end the simulation only the known ones are met,
\* whatever the number of cores, the tree and the size of the caches.
THEOREM NoOtherFault == Spec => []OnlyKnownFaults
<1>1. OwnInv => OnlyKnownFaults BY DEF OwnInv
<1>2. QED BY <1>1, OwnershipInvariant, PTL

-----------------------------------------------------------------------------
(* Loads and their leases.                                                 *)

\* The head of a queue of requests, and what it loses with it.
LEMMA RequestHead ==
    ASSUME TypeOK, NEW c \in Cores, mq[c] # <<>>
    PROVE  /\ Head(mq[c]).a \in Lines /\ Entry(c, Head(mq[c]).a) \in L1Entry
           /\ mq[c] # Tail(mq[c])
           /\ \A r : Append(mq[c], r) # Tail(mq[c])
<1>1. mq[c] \in Seq(CoreReq) BY DEF TypeOK, L1TypeOK
<1>2. Head(mq[c]) \in CoreReq /\ Len(Tail(mq[c])) = Len(mq[c]) - 1 /\ Len(mq[c]) \in Nat
  BY <1>1
<1>3. Head(mq[c]).a \in Lines BY <1>2 DEF CoreReq
<1>4. ASSUME NEW r PROVE Append(mq[c], r) # Tail(mq[c])
  <2>1. Len(Append(mq[c], r)) = Len(mq[c]) + 1 BY <1>1
  <2>2. QED BY <1>2, <2>1
<1>5. mq[c] # Tail(mq[c])
  <2> DEFINE q == Tail(mq[c])
  <2>1. Len(q) = Len(mq[c]) - 1 BY <1>2
  <2> HIDE DEF q
  <2>2. mq[c] # q BY <1>2, <2>1
  <2>3. QED BY <2>2 DEF q
<1>6. Entry(c, Head(mq[c]).a) \in L1Entry BY <1>3, EntryType
<1>7. QED BY <1>3, <1>4, <1>5, <1>6

\* A core's queue loses its head when a request of the core is served, and at no other
\* step.
LEMMA HeadServed ==
    ASSUME TypeOK, NEW c \in Cores, mq[c] # <<>>, mq'[c] = Tail(mq[c]), Next
    PROVE  Miss(c) \/ LoadHit(c) \/ Renew(c) \/ Upgrade(c) \/ OwnerLoad(c) \/ OwnerStore(c)
<1>1. mq'[c] # mq[c] /\ mq \in [Cores -> Seq(CoreReq)]
  BY RequestHead DEF TypeOK, L1TypeOK
<1>2. mq' # mq BY <1>1
<1>3. ~DirNext /\ ~(\E x \in Addrs : MemServe(x)) /\ ~Stop
  <2>1. CASE RequestPort
    BY <1>2, <2>1
       DEF RequestPort, FetchFromMemory, HitShared, HitExclusive, UpgradeOwner, WritebackOwner,
         FlushOwner, AuthMiss, AuthWait, Bounce, RequestStall, RequestPanic, DirUnchanged, l1Vars
  <2>2. CASE ResponsePort
    BY <1>2, <2>2 DEF ResponsePort, TakeBack, GrantAfterWriteback, GrantAfterFlush,
         FlushedVictimWrittenBack, FlushedVictimAwaitsCounter, FlushedVictim, ResponseBounce,
         ResponseStall, DirUnchanged, l1Vars
  <2>3. CASE CounterData BY <1>2, <2>3, Zenon DEF CounterData, DirUnchanged, l1Vars
  <2>4. CASE GrantShared \/ GrantExclusive \/ EvictionDone \/ MemoryPanic
    BY <1>2, <2>4 DEF GrantShared, GrantExclusive, EvictionDone, MemoryPanic, DirUnchanged, l1Vars
  <2>5. CASE \E v \in Addrs : Replacement(v)
    BY <1>2, <2>5 DEF Replacement, EvictClean, EvictDirty, EvictCounter, EvictAwaitingCounter,
         EvictCounterAwaitingParent, EvictOwnedLine, ReplacePanic, DirUnchanged, l1Vars
  <2>6. CASE (\E x \in Addrs : MemServe(x)) \/ Stop
    BY <1>2, <2>6 DEF MemServe, Stop, l1Vars, vars
  <2>7. QED BY <2>1, <2>2, <2>3, <2>4, <2>5, <2>6 DEF DirNext, MemoryPort
<1>4. PICK d \in Cores : L1Next(d) BY <1>3 DEF Next
<1>5. ~CoreIssue(d)
  <2>1. SUFFICES ASSUME CoreIssue(d) PROVE FALSE OBVIOUS
  <2>2. PICK r : mq' = [mq EXCEPT ![d] = Append(mq[d], r)] BY <2>1 DEF CoreIssue
  <2>3. mq'[c] \in {mq[c], Append(mq[c], r)} BY <1>1, <2>2
  <2>4. QED BY <1>1, <2>3, RequestHead
<1>6. Miss(d) \/ LoadHit(d) \/ Renew(d) \/ Upgrade(d) \/ OwnerLoad(d) \/ OwnerStore(d)
  BY <1>2, <1>4, <1>5
     DEF L1Next, MandatoryStall, MandatoryPanic, EvictShared, EvictOwned, EvictStall, ShRep,
         RenewRep, ExRepMiss, ExRepUpgrade, UpgRep, CompleteStore, AckRep, FlushReq,
         FlushReqEvicting, FlushReqPanic, l1Vars
<1>7. PopMandatory(d)
  BY <1>6 DEF Miss, LoadHit, Renew, Upgrade, OwnerLoad, OwnerStore
<1>8. d = c BY <1>1, <1>7 DEF PopMandatory
<1>9. QED BY <1>6, <1>8

\* Only a hit on a copy whose lease has not run out leaves the copy leased.
LEMMA LeasedHit ==
    ASSUME TypeOK, TimestampOrder, NEW c \in Cores, mq[c] # <<>>,
           NEW r, r = Head(mq[c]), r.op = "LD", l1[c][r.a].st = "S_LSD", l1'[c][r.a].st = "S_LSD",
           Miss(c) \/ LoadHit(c) \/ Renew(c) \/ Upgrade(c) \/ OwnerLoad(c) \/ OwnerStore(c)
    PROVE  l1'[c][r.a].wts <= lts'[c] /\ lts'[c] <= l1'[c][r.a].rts
<1> DEFINE p == Peek(c)
           e == Entry(c, r.a)
<1>0. Pending(c)
  BY DEF Miss, LoadHit, Renew, Upgrade, OwnerLoad, OwnerStore, Mandatory
<1>1. r.a \in Lines /\ e \in L1Entry /\ e.st = "S_LSD" /\ e.wts <= e.rts
  BY RequestHead DEF Entry, TimestampOrder
<1>2. l1 \in [Cores -> [Lines -> L1Entry]] /\ lts \in [Cores -> Nat]
  BY DEF TypeOK, L1TypeOK
<1>3. LoadHit(c) \/ Renew(c)
  <2>1. e.st \in {"S_LSD"} BY <1>1
  <2>2. ~Miss(c) /\ ~OwnerLoad(c) /\ ~OwnerStore(c)
    BY <2>1 DEF Miss, OwnerLoad, OwnerStore, Mandatory
  <2>3. ~Upgrade(c) BY DEF Upgrade, Mandatory, Peek
  <2>4. QED BY <2>2, <2>3
<1>4. LoadHit(c)
  <2>1. SUFFICES ASSUME Renew(c) PROVE FALSE BY <1>3
  <2>2. SetEntry(c, r.a, [p.e EXCEPT !.st = "S_EXP"]) BY <2>1 DEF Renew, Peek
  <2>3. p.e \in L1Entry BY <1>0, PeekType
  <2>4. l1'[c][r.a].st = "S_EXP" BY <1>1, <1>2, <2>2, <2>3 DEF SetEntry, L1Entry
  <2>5. QED BY <2>4
<1>5. p.ev = "Load" /\ SetEntry(c, r.a, p.e) /\ SetClocks(c, Max2(p.lts, p.e.wts), p.sts)
  BY <1>4 DEF LoadHit, Mandatory, Peek
<1>6. l1'[c][r.a] = p.e /\ lts'[c] = Max2(p.lts, p.e.wts)
  BY <1>1, <1>2, <1>5 DEF SetEntry, SetClocks
<1>7. p.lts <= e.rts
  <2>1. ~Expired(p.lts, e) BY <1>1, <1>5 DEF Peek
  <2>2. p.lts \in Nat /\ e.rts \in Nat
    <3>1. p.lts \in Nat BY <1>0, PeekType
    <3>2. QED BY <1>1, <3>1 DEF L1Entry
  <2>3. QED BY <2>1, <2>2 DEF Expired
<1>8. p.e.wts = e.wts /\ p.e.rts = e.rts
  BY <1>1 DEF Peek, CountLoad, L1Entry
<1>9. p.lts \in Nat /\ e.wts \in Nat /\ e.rts \in Nat
  <2>1. p.lts \in Nat BY <1>0, PeekType
  <2>2. QED BY <1>1, <2>1 DEF L1Entry
<1> HIDE DEF p, e
<1>10. QED BY <1>1, <1>6, <1>7, <1>8, <1>9 DEF Max2

\* A load served by a leased copy is ordered inside the lease: the clock of the core,
\* moved on by barriers and the livelock counter first, ends between its two ends.
THEOREM LoadsInLease == Spec => LoadsInsideLease
<1> DEFINE Inside ==
      \A c \in Cores :
         LET r == Head(mq[c]) IN
           (mq[c] # <<>> /\ mq'[c] = Tail(mq[c]) /\ r.op = "LD"
              /\ l1[c][r.a].st = "S_LSD" /\ l1'[c][r.a].st = "S_LSD")
             => l1'[c][r.a].wts <= lts'[c] /\ lts'[c] <= l1'[c][r.a].rts
<1>1. TypeInv /\ TimestampOrder /\ [Next]_vars => [Inside]_vars
  <2> SUFFICES ASSUME TypeInv, TimestampOrder, Next PROVE Inside OBVIOUS
  <2>1. TypeOK BY DEF TypeInv
  <2>2. QED BY <2>1, HeadServed, LeasedHit
<1> HIDE DEF Inside
<1>2. Spec => [][Inside]_vars BY <1>1, TypeCorrect, LeasesInOrder, PTL DEF Spec
<1>3. QED BY <1>2 DEF LoadsInsideLease, Inside

=============================================================================
