----------------------------- MODULE Directory -----------------------------
(***************************************************************************)
(* TARDISTSO_TECTREE-dir.sm: the timestamp manager.  One controller holds  *)
(* the directory entries, the LLC (which caches data lines and the         *)
(* counters of the integrity tree alike), the TBEs of lines in transition  *)
(* and the AuthTBEs of counters being fetched.                             *)
(*                                                                         *)
(* All modelled lines compete for the same LLC set.  The in_ports are      *)
(* tried in the order memory, response, request; a head message may not    *)
(* have arrived yet, so any port may be the next one to act.               *)
(***************************************************************************)
EXTENDS TardisState

DirUnchanged == UNCHANGED <<l1Vars, mem, written>>

-----------------------------------------------------------------------------
(* The integrity tree and the LLC.                                         *)

InLLC == {a \in Addrs : llc[a].st # "none"}
NeedsRoom(a) == a \notin InLLC /\ Cardinality(InLLC) >= LLCWays

\* getParentAddrDynamic
Parent(a) == IF Path[a] = <<>> THEN NoAddr ELSE Head(Path[a])

ParentMissing(a) == Parent(a) # NoAddr /\ Parent(a) \notin InLLC

\* getFirstMissingParent: the nearest ancestor that is not among the lines here
FirstMissing(a, here) ==
    LET gone == {i \in 1..Len(Path[a]) : /\ Path[a][i] \notin here
                                         /\ \A j \in 1..(i - 1) : Path[a][j] \in here}
    IN  IF gone = {} THEN NoAddr ELSE Path[a][CHOOSE i \in gone : TRUE]

\* The ancestors updateTreeInCache reaches: up to the first one missing.
Branch(a, here) ==
    {Path[a][i] : i \in {n \in 1..Len(Path[a]) : \A j \in 1..n : Path[a][j] \in here}}

\* updateOneLevel on each counter of a set: the cached copy becomes dirty and
\* the directory entry C_M.
Dirtied(L, ks) == [a \in Addrs |-> IF a \in ks THEN [L[a] EXCEPT !.st = "dirty"] ELSE L[a]]
Modified(D, ks) == [a \in Addrs |-> IF a \in ks THEN [D[a] EXCEPT !.st = "C_M"] ELSE D[a]]

\* incrementRootCounter
CountInRoot(a) ==
    root' = [i \in 0..2 |-> IF i = RootSlot[a] THEN root[i] + 1 ELSE root[i]]

SetDir(a, e) == dir' = [dir EXCEPT ![a] = e]

-----------------------------------------------------------------------------
(* Messages.                                                               *)

Reply(type, a, c, w, r, v) ==
    rep' = rep \cup {[type |-> type, a |-> a, to |-> c, wts |-> w, rts |-> r, val |-> v]}

\* FLUSH_REQ / WB_REQ to the owner of a line
AskOwner(type, a, r) ==
    fwd' = fwd \cup {[type |-> type, a |-> a, to |-> c, rts |-> r] : c \in dir[a].owner}

SendMem(type, a, v) ==
    memPend' = [memPend EXCEPT ![a] = Append(memPend[a], [type |-> type, val |-> v])]

\* A requestor whose copy is of the current version gets no data.  (Mutant: any
\* older version will do.)
RenewsAny(w) == w <= mts
Renews(w) == w = mts /\ mts > 0

\* A line recalled from its owner: clearOwner and the new state.  (Mutants: the
\* owner stays recorded; the line stays in E.)
RecallKeepsOwner(d, st) == [d EXCEPT !.st = st]
RecallStays(d, st) == d
Recall(d, st) == [d EXCEPT !.st = st, !.owner = {}]

\* setOwner.  (Mutant: after deallocateTBE.)
OwnerFromNoTBE(a) == {NoTBE.req}
OwnerFromTBE(a) == {tbe[a].req}

\* A counter is read once, however many requests and evictions wait for it.
\* (Mutant: each of them reads it.)
FetchAlways(k) == SendMem("MEMORY_READ", k, 0)
Fetch(k) ==
    IF auth[k].busy THEN UNCHANGED memPend ELSE SendMem("MEMORY_READ", k, 0)

\* The addresses from[i], i in S, enter the free slots of w in order; those
\* that find none are forgotten.
AddWaiters(w, from, S) ==
    LET used == Cardinality({s \in Slots : w[s] # NoAddr})
        Taker(s) == {i \in S : s = used + Cardinality({h \in S : h <= i})}
    IN  [s \in Slots |-> IF w[s] # NoAddr THEN w[s]
                         ELSE IF Taker(s) = {} THEN NoAddr
                         ELSE from[CHOOSE i \in Taker(s) : TRUE]]

\* fetchCounterIfNeeded.  (Mutant: no AuthTBE is allocated.)
FetchCounterUntracked(k) == Fetch(k) /\ UNCHANGED auth
FetchCounterIfNeeded(k) ==
    /\ Fetch(k)
    /\ auth' = [auth EXCEPT ![k] = [auth[k] EXCEPT !.busy = TRUE]]

\* fetchCounterForEviction: a waits in the first free slot, if there is one.
FetchCounterForEviction(a) ==
    LET k == FirstMissing(a, InLLC) IN
    /\ Fetch(k)
    /\ auth' = [auth EXCEPT ![k] = [busy |-> TRUE,
                                    slot |-> AddWaiters(auth[k].slot, <<a>>, {1})]]

\* Requests put aside go back to the queue.  Messages still on their way stay
\* behind them, which ones is left open; so is the order of the woken ones.
Insert(q, k, s) == SubSeq(q, 1, k) \o s \o SubSeq(q, k + 1, Len(q))

Orders(W) == {s \in [1..Cardinality(W) -> W] :
                 \A i, j \in 1..Cardinality(W) : s[i] = s[j] => i = j}

Wake(lines) ==
    LET woken == {r \in waitQ : r.a \in lines} IN
    /\ \E k \in 0..Len(reqQ), s \in Orders(woken) : reqQ' = Insert(reqQ, k, s)
    /\ waitQ' = waitQ \ woken

-----------------------------------------------------------------------------
(* request_in: SH_REQ and EX_REQ.                                          *)

Req == Head(reqQ)

\* Every peek at a SH_REQ reserves its lease, whatever becomes of it.
Reserved == LET d == dir[Req.a] IN
    IF Req.type = "SH_REQ"
    THEN [d EXCEPT !.rts = Max2(d.rts, Max2(d.wts + Lease, Req.lts + Lease))]
    ELSE d

ReqEvent ==
    IF Req.type = "EX_REQ" /\ Req.wts = dir[Req.a].wts /\ Req.wts > 0 THEN "UpgReq"
    ELSE IF Req.a \in InLLC
         THEN IF Req.type = "SH_REQ" THEN "ShReq_Hit" ELSE "ExReq_Hit"
    ELSE IF ParentMissing(Req.a) THEN "Auth_Miss"
    ELSE IF Req.type = "SH_REQ" THEN "ShReq" ELSE "ExReq"

AtRequest(states, events) ==
    /\ fault = NoFault /\ reqQ # <<>>
    /\ dir[Req.a].st \in states
    /\ ReqEvent \in events

PopRequest == reqQ' = Tail(reqQ) /\ UNCHANGED waitQ

\* (I | S, ShReq) -> IS, (I, ExReq) -> IE, (S, ExReq) -> SE
FetchFromMemory ==
    /\ AtRequest({"I", "S"}, {"ShReq", "ExReq"})
    /\ SetDir(Req.a, [Reserved EXCEPT !.st = IF Req.type = "SH_REQ" THEN "IS"
                                             ELSE IF dir[Req.a].st = "I" THEN "IE" ELSE "SE"])
    /\ tbe' = [tbe EXCEPT ![Req.a] =
                 IF Req.type = "SH_REQ"
                 THEN [req |-> Req.from, wts |-> Req.wts, lts |-> Req.lts, val |-> 0]
                 ELSE [NoTBE EXCEPT !.req = Req.from]]
    /\ SendMem("MEMORY_READ", Req.a, 0)
    /\ PopRequest
    /\ UNCHANGED <<rspQ, fwd, rep, llc, auth, mts, root, memQ, current, fault>> /\ DirUnchanged

\* (I | S, ShReq_Hit) -> S: setLLCTimestamps comes before the reply is built.
HitShared ==
    /\ AtRequest({"I", "S"}, {"ShReq_Hit"})
    /\ SetDir(Req.a, [Reserved EXCEPT !.st = "S", !.wts = mts, !.rts = mts])
    /\ IF Renews(Req.wts)
       THEN Reply("RENEW_REP", Req.a, Req.from, 0, mts, 0)
       ELSE Reply("SH_REP", Req.a, Req.from, mts, mts, llc[Req.a].val)
    /\ PopRequest
    /\ UNCHANGED <<rspQ, fwd, tbe, llc, auth, mts, root, memVars, current, fault>> /\ DirUnchanged

\* (I | S, ExReq_Hit) -> E
HitExclusive ==
    /\ AtRequest({"I", "S"}, {"ExReq_Hit"})
    /\ SetDir(Req.a, [st |-> "E", wts |-> mts, rts |-> mts,
                      owner |-> dir[Req.a].owner \cup {Req.from}])
    /\ Reply("EX_REP", Req.a, Req.from, mts, mts, llc[Req.a].val)
    /\ PopRequest
    /\ UNCHANGED <<rspQ, fwd, tbe, llc, auth, mts, root, memVars, current, fault>> /\ DirUnchanged

\* (S, UpgReq) -> E: the requestor's copy is the current version, no data sent
UpgradeOwner ==
    /\ AtRequest({"S"}, {"UpgReq"})
    /\ SetDir(Req.a, [dir[Req.a] EXCEPT !.st = "E", !.owner = dir[Req.a].owner \cup {Req.from}])
    /\ Reply("UPGR_REP", Req.a, Req.from, 0, dir[Req.a].rts, 0)
    /\ PopRequest
    /\ UNCHANGED <<rspQ, fwd, tbe, llc, auth, mts, root, memVars, current, fault>> /\ DirUnchanged

\* (E, ShReq | ShReq_Hit) -> ES
WritebackOwner ==
    /\ AtRequest({"E"}, {"ShReq", "ShReq_Hit"})
    /\ SetDir(Req.a, Recall(Reserved, "ES"))
    /\ tbe' = [tbe EXCEPT ![Req.a] = [NoTBE EXCEPT !.req = Req.from]]
    /\ AskOwner("WB_REQ", Req.a, Req.lts + Lease)
    /\ PopRequest
    /\ UNCHANGED <<rspQ, rep, llc, auth, mts, root, memVars, current, fault>> /\ DirUnchanged

\* (E, ExReq | ExReq_Hit | UpgReq) -> EE
FlushOwner ==
    /\ AtRequest({"E"}, {"ExReq", "ExReq_Hit", "UpgReq"})
    /\ SetDir(Req.a, Recall(dir[Req.a], "EE"))
    /\ tbe' = [tbe EXCEPT ![Req.a] = [NoTBE EXCEPT !.req = Req.from]]
    /\ AskOwner("FLUSH_REQ", Req.a, 0)
    /\ PopRequest
    /\ UNCHANGED <<rspQ, rep, llc, auth, mts, root, memVars, current, fault>> /\ DirUnchanged

\* (I | S | E, Auth_Miss) -> *_Fetch_Auth: the line's own counter comes first
FetchState(st) == CASE st = "I" -> "I_Fetch_Auth" [] st = "S" -> "S_Fetch_Auth"
                    [] st = "E" -> "E_Fetch_Auth"
AuthMiss ==
    /\ AtRequest({"I", "S", "E"}, {"Auth_Miss"})
    /\ SetDir(Req.a, [Reserved EXCEPT !.st = FetchState(dir[Req.a].st)])
    /\ FetchCounterIfNeeded(Parent(Req.a))
    /\ waitQ' = waitQ \cup {Req} /\ reqQ' = Tail(reqQ)
    /\ UNCHANGED <<rspQ, fwd, rep, tbe, llc, mts, root, mem, memQ, current, fault>> /\ DirUnchanged

\* (*_Fetch_Auth, Auth_Miss): wait, the counter is taken to be on its way
AuthWait ==
    /\ AtRequest(FetchAuth, {"Auth_Miss"})
    /\ SetDir(Req.a, Reserved)
    /\ waitQ' = waitQ \cup {Req} /\ reqQ' = Tail(reqQ)
    /\ UNCHANGED <<rspQ, fwd, rep, tbe, llc, auth, mts, root, memVars, current, fault>> /\ DirUnchanged

\* (*_Fetch_Auth, any other request): back to the base state, the head of the
\* request queue is recycled behind the messages that have arrived.  (Mutant:
\* the transition names no next state.)
StaysInFetch(st) == st
BaseState(st) == CASE st = "I_Fetch_Auth" -> "I" [] st = "S_Fetch_Auth" -> "S"
                   [] st = "E_Fetch_Auth" -> "E"
Recycle == \E k \in 0..(Len(reqQ) - 1) : reqQ' = Insert(Tail(reqQ), k, <<Req>>)

Bounce ==
    /\ AtRequest(FetchAuth, {"ShReq", "ShReq_Hit", "ExReq", "ExReq_Hit", "UpgReq"})
    /\ SetDir(Req.a, [Reserved EXCEPT !.st = BaseState(dir[Req.a].st)])
    /\ Recycle
    /\ UNCHANGED <<waitQ, rspQ, fwd, rep, tbe, llc, auth, mts, root, memVars, current, fault>>
    /\ DirUnchanged

\* Requests to a line in transition stay at the head of the queue; the lease
\* a SH_REQ reserves there is the only trace.
RequestStall ==
    /\ AtRequest(Granting \cup Evicting \cup EvictAuth \cup {"E_Evict_Flush"},
                 {"ShReq", "ShReq_Hit", "ExReq", "ExReq_Hit", "UpgReq", "Auth_Miss"})
    /\ Reserved # dir[Req.a]
    /\ SetDir(Req.a, Reserved)
    /\ UNCHANGED <<chanVars, tbe, llc, auth, mts, root, memVars, current, fault>> /\ DirUnchanged

\* No transition is declared for (I, UpgReq).
RequestPanic ==
    /\ AtRequest({"I"}, {"UpgReq"})
    /\ fault' = <<"Dir", "I", "UpgReq">>
    /\ UNCHANGED <<l1Vars, chanVars, dirVars, memVars, ghostVars>>

-----------------------------------------------------------------------------
(* response_in: WB_REP and PUT_REP are the same event.                     *)

Rsp == Head(rspQ)

AtResponse(states) ==
    /\ fault = NoFault /\ rspQ # <<>>
    /\ dir[Rsp.a].st \in states
    /\ dir[Rsp.a].st # "E_Evict_Flush" => ~NeedsRoom(Rsp.a)

\* Every peek advances the memory timestamp.  (Mutant: it follows it.)
FollowMts == mts' = Rsp.rts
AdvanceMts == mts' = Max2(mts, Rsp.rts)

PopResponse ==
    /\ rspQ' = Tail(rspQ)
    /\ current' = [current EXCEPT ![Rsp.a] = Rsp.val]

\* (Mutant: the block is not marked dirty.)
StoreClean == llc' = [llc EXCEPT ![Rsp.a] = [st |-> "clean", val |-> Rsp.val]]
StoreInLLC == llc' = [llc EXCEPT ![Rsp.a] = [st |-> "dirty", val |-> Rsp.val]]

\* (E, FlushRep) -> S: the owner evicted the line
TakeBack ==
    /\ AtResponse({"E"})
    /\ SetDir(Rsp.a, [st |-> "S", wts |-> Rsp.wts, rts |-> Rsp.rts, owner |-> {}])
    /\ StoreInLLC
    /\ Reply("ACK_REP", Rsp.a, Rsp.from, 0, 0, 0)
    /\ AdvanceMts /\ PopResponse
    /\ UNCHANGED <<reqQ, waitQ, fwd, tbe, auth, root, memVars, fault>> /\ DirUnchanged

\* (ES, FlushRep) -> S: the reader is answered with a lease of its own; the lts
\* it asked with is lost, the response carries none.
GrantAfterWriteback ==
    /\ AtResponse({"ES"})
    /\ LET r == Max2(Rsp.rts, Max2(Rsp.wts + Lease, Lease)) IN
         /\ SetDir(Rsp.a, [dir[Rsp.a] EXCEPT !.st = "S", !.wts = Rsp.wts, !.rts = r])
         /\ Reply("SH_REP", Rsp.a, tbe[Rsp.a].req, Rsp.wts, r, Rsp.val)
    /\ StoreInLLC
    /\ tbe' = [tbe EXCEPT ![Rsp.a] = NoTBE]
    /\ AdvanceMts /\ PopResponse
    /\ UNCHANGED <<reqQ, waitQ, fwd, auth, root, memVars, fault>> /\ DirUnchanged

\* (EE, FlushRep) -> E: ownership passes to the waiting requestor
GrantAfterFlush ==
    /\ AtResponse({"EE"})
    /\ SetDir(Rsp.a, [st |-> "E", wts |-> Rsp.wts, rts |-> Rsp.rts, owner |-> OwnerFromTBE(Rsp.a)])
    /\ Reply("EX_REP", Rsp.a, tbe[Rsp.a].req, Rsp.wts, Rsp.rts, Rsp.val)
    /\ StoreInLLC
    /\ tbe' = [tbe EXCEPT ![Rsp.a] = NoTBE]
    /\ AdvanceMts /\ PopResponse
    /\ UNCHANGED <<reqQ, waitQ, fwd, auth, root, memVars, fault>> /\ DirUnchanged

\* (E_Evict_Flush, ..._From_Flush): the line recalled for an eviction of the LLC
\* arrives.  Its timestamps are dropped.
FlushedVictim ==
    /\ AtResponse({"E_Evict_Flush"})
    /\ tbe' = [tbe EXCEPT ![Rsp.a].val = Rsp.val]
    /\ CountInRoot(Rsp.a)
    /\ AdvanceMts /\ PopResponse
    /\ UNCHANGED <<reqQ, waitQ, fwd, rep, memQ, fault>> /\ DirUnchanged

\* ..._Auth_Hit_From_Flush -> I_Evicting
FlushedVictimWrittenBack ==
    /\ FlushedVictim
    /\ ~ParentMissing(Rsp.a)
    /\ dir' = [Modified(dir, Branch(Rsp.a, InLLC)) EXCEPT
                  ![Rsp.a] = Recall(dir[Rsp.a], "I_Evicting")]
    /\ llc' = Dirtied(llc, Branch(Rsp.a, InLLC))
    /\ SendMem("MEMORY_WB", Rsp.a, Rsp.val)
    /\ UNCHANGED auth

\* ..._Auth_Miss_From_Flush -> I_Evict_Auth
FlushedVictimAwaitsCounter ==
    /\ FlushedVictim
    /\ ParentMissing(Rsp.a)
    /\ SetDir(Rsp.a, Recall(dir[Rsp.a], "I_Evict_Auth"))
    /\ FetchCounterForEviction(Rsp.a)
    /\ UNCHANGED llc

\* (E_Fetch_Auth, FlushRep) -> E: what is recycled is the request queue; the
\* response stays at the head of its own.
ResponseBounce ==
    /\ AtResponse(FetchAuth)
    /\ IF reqQ # <<>>
       THEN /\ SetDir(Rsp.a, [dir[Rsp.a] EXCEPT !.st = BaseState(dir[Rsp.a].st)])
            /\ Recycle /\ AdvanceMts /\ UNCHANGED fault
       ELSE /\ fault' = <<"Dir", dir[Rsp.a].st, "recycle of an empty queue">>
            /\ UNCHANGED <<dir, reqQ, mts>>
    /\ UNCHANGED <<waitQ, rspQ, fwd, rep, tbe, llc, auth, root, memVars, current>>
    /\ DirUnchanged

-----------------------------------------------------------------------------
(* memQueue_in                                                             *)

Mem == Head(memQ)

AtMemory(type, states) ==
    /\ fault = NoFault /\ memQ # <<>>
    /\ Mem.type = type
    /\ dir[Mem.a].st \in states
    /\ type = "MEMORY_READ" => ~NeedsRoom(Mem.a)

CounterRead == Mem.a \in Counters /\ auth[Mem.a].busy

\* (IS, Memory_Data) -> S.  The block starts a new life at the memory timestamp.
GrantShared ==
    /\ AtMemory("MEMORY_READ", {"IS"}) /\ ~CounterRead
    /\ LET a == Mem.a
           r == Max2(mts + Lease, tbe[a].lts + Lease)
       IN  /\ SetDir(a, [dir[a] EXCEPT !.st = "S", !.wts = mts, !.rts = r])
           /\ IF Renews(tbe[a].wts)
              THEN Reply("RENEW_REP", a, tbe[a].req, 0, r, 0)
              ELSE Reply("SH_REP", a, tbe[a].req, mts, r, Mem.val)
           /\ llc' = [llc EXCEPT ![a] = [st |-> "clean", val |-> Mem.val]]
           /\ tbe' = [tbe EXCEPT ![a] = NoTBE]
    /\ memQ' = Tail(memQ)
    /\ UNCHANGED <<reqQ, waitQ, rspQ, fwd, auth, mts, root, memPend, current, fault>>
    /\ DirUnchanged

\* (IE | SE, Memory_Data) -> E; from SE the block does not enter the LLC
GrantExclusive ==
    /\ AtMemory("MEMORY_READ", {"IE", "SE"}) /\ ~CounterRead
    /\ LET a == Mem.a IN
         /\ SetDir(a, [st |-> "E", wts |-> mts, rts |-> mts, owner |-> OwnerFromTBE(a)])
         /\ Reply("EX_REP", a, tbe[a].req, mts, mts, Mem.val)
         /\ llc' = IF dir[a].st = "IE"
                   THEN [llc EXCEPT ![a] = [st |-> "clean", val |-> Mem.val]] ELSE llc
         /\ tbe' = [tbe EXCEPT ![a] = NoTBE]
    /\ memQ' = Tail(memQ)
    /\ UNCHANGED <<reqQ, waitQ, rspQ, fwd, auth, mts, root, memPend, current, fault>>
    /\ DirUnchanged

\* resumeEvictions on the AuthTBE of the counter k that has just been cached:
\* only the first ResumeSlots slots are looked at.  The waiters whose branch is
\* complete are written back ...  (Mutant: k does not count as cached yet.)
ReleasedEarly(k) ==
    {a \in Addrs : /\ \E s \in Slots : s <= ResumeSlots /\ auth[k].slot[s] = a
                   /\ FirstMissing(a, InLLC) = NoAddr}
Released(k) ==
    {a \in Addrs : /\ \E s \in Slots : s <= ResumeSlots /\ auth[k].slot[s] = a
                   /\ FirstMissing(a, InLLC \cup {k}) = NoAddr}

\* ... and the others, by their slots, wait for the next ancestor p.
Forwarded(k, p) ==
    {s \in Slots : /\ s <= ResumeSlots /\ auth[k].slot[s] # NoAddr
                   /\ FirstMissing(auth[k].slot[s], InLLC \cup {k}) = p}

Written(st) == CASE st = "I_Evict_Auth" -> "I_Evicting" [] st = "S_Evict_Auth" -> "S_Evicting"
                 [] OTHER -> st

\* checkRecursionAndWakeUp asks for the parent of k if it is missing, too.
Wanted(k, p) == Forwarded(k, p) # {} \/ (p = Parent(k) /\ p \notin InLLC)

\* The messages for line a the waiters of k give rise to, in slot order.
MemoryTraffic(k, a) ==
    LET wb == IF a \in Released(k)
              THEN <<[type |-> "MEMORY_WB", val |-> tbe[a].val]>> ELSE <<>>
        rd == IF a \in Counters \ {k} /\ Wanted(k, a) /\ ~auth[a].busy
              THEN <<[type |-> "MEMORY_READ", val |-> 0]>> ELSE <<>>
        readFirst == a \in Counters /\ \E s \in Forwarded(k, a), t \in Slots :
                        auth[k].slot[t] = a /\ s < t
    IN  IF readFirst THEN rd \o wb ELSE wb \o rd

\* (I, Counter_Data), and (I, Memory_Data) for a counter nobody waits for.
\* The transition leaves k in I even when resumeEvictions has just made it C_M.
CounterData ==
    /\ AtMemory("MEMORY_READ", {"I"}) /\ Mem.a \in Counters
    /\ LET k     == Mem.a
           here  == InLLC \cup {k}
           out   == Released(k)
           dirty == UNION {Branch(a, here) : a \in out}
           cached == [llc EXCEPT ![k] = [st |-> "clean", val |-> Mem.val]]
       IN  /\ llc' = Dirtied(cached, dirty)
           /\ dir' = [a \in Addrs |->
                         IF a = k THEN dir[k]
                         ELSE IF a \in out THEN [dir[a] EXCEPT !.st = Written(dir[a].st)]
                         ELSE Modified(dir, dirty)[a]]
           /\ IF CounterRead
              THEN /\ auth' = [p \in Counters |->
                                IF p = k THEN NoAuth
                                ELSE [busy |-> auth[p].busy \/ Wanted(k, p),
                                      slot |-> AddWaiters(auth[p].slot, auth[k].slot,
                                                          Forwarded(k, p))]]
                   /\ memPend' = [a \in Addrs |-> memPend[a] \o MemoryTraffic(k, a)]
              ELSE UNCHANGED <<auth, memPend>>
           /\ IF CounterRead /\ ParentMissing(k)
              THEN UNCHANGED <<reqQ, waitQ>>
              ELSE Wake(Lines)
    /\ memQ' = Tail(memQ)
    /\ UNCHANGED <<rspQ, fwd, rep, tbe, mts, root, current, fault>> /\ DirUnchanged

\* (*_Evicting, Memory_Ack) -> base state: the victim is safely in memory
EvictionDone ==
    /\ AtMemory("MEMORY_WB", Evicting)
    /\ SetDir(Mem.a, [dir[Mem.a] EXCEPT !.st = IF dir[Mem.a].st = "I_Evicting" THEN "I" ELSE "S"])
    /\ tbe' = [tbe EXCEPT ![Mem.a] = NoTBE]
    /\ Wake({Mem.a})
    /\ memQ' = Tail(memQ)
    /\ UNCHANGED <<rspQ, fwd, rep, llc, auth, mts, root, memPend, current, fault>>
    /\ DirUnchanged

\* Counter_Data is declared for I only: a counter read while its own eviction
\* is under way ends the simulation.
MemoryPanic ==
    /\ AtMemory("MEMORY_READ", DirStates \ {"I"}) /\ CounterRead
    /\ fault' = <<"Dir", dir[Mem.a].st, "Counter_Data">>
    /\ UNCHANGED <<l1Vars, chanVars, dirVars, memVars, ghostVars>>

-----------------------------------------------------------------------------
(* Evictions of the LLC.  A message that needs a free way triggers the     *)
(* event on the victim cacheProbe names, whatever state that one is in.    *)

ReplEvent(v) ==
    IF llc[v].st = "clean" THEN "LLC_Repl_Clean"
    ELSE IF FirstMissing(v, InLLC) = NoAddr THEN "LLC_Repl_Dirty"
    ELSE "LLC_Repl_Dirty_Auth_Miss"

MemoryNeedsRoom == memQ # <<>> /\ Mem.type = "MEMORY_READ" /\ NeedsRoom(Mem.a)
ResponseNeedsRoom ==
    rspQ # <<>> /\ dir[Rsp.a].st # "E_Evict_Flush" /\ NeedsRoom(Rsp.a)

Replace(v, states, events) ==
    /\ fault = NoFault
    /\ v \in InLLC /\ dir[v].st \in states /\ ReplEvent(v) \in events
    /\ \/ MemoryNeedsRoom /\ UNCHANGED mts
       \/ ResponseNeedsRoom /\ AdvanceMts

\* allocateTBE_Eviction, deallocateLLC
Park(v) == tbe' = [tbe EXCEPT ![v] = [NoTBE EXCEPT !.wts = dir[v].wts, !.val = llc[v].val]]
Drop(v, L) == llc' = [L EXCEPT ![v] = NoLLC]

\* (I | S | E, LLC_Repl_Clean)
EvictClean(v) ==
    /\ Replace(v, {"I", "S", "E"}, {"LLC_Repl_Clean"})
    /\ Drop(v, llc)
    /\ UNCHANGED <<chanVars, dir, tbe, auth, root, memVars, current, fault>> /\ DirUnchanged

\* (I | S, LLC_Repl_Dirty) -> *_Evicting: the cached part of the branch changes
EvictDirty(v) ==
    /\ Replace(v, {"I", "S"}, {"LLC_Repl_Dirty"})
    /\ dir' = [Modified(dir, Branch(v, InLLC)) EXCEPT
                  ![v] = [dir[v] EXCEPT !.st = IF dir[v].st = "I" THEN "I_Evicting" ELSE "S_Evicting"]]
    /\ CountInRoot(v)
    /\ Park(v) /\ SendMem("MEMORY_WB", v, llc[v].val)
    /\ Drop(v, Dirtied(llc, Branch(v, InLLC)))
    /\ UNCHANGED <<chanVars, auth, memQ, current, fault>> /\ DirUnchanged

\* (C_M, LLC_Repl_Dirty) -> I_Evicting
EvictCounter(v) ==
    /\ Replace(v, {"C_M"}, {"LLC_Repl_Dirty"})
    /\ SetDir(v, [dir[v] EXCEPT !.st = "I_Evicting"])
    /\ Park(v) /\ SendMem("MEMORY_WB", v, llc[v].val) /\ Drop(v, llc)
    /\ UNCHANGED <<chanVars, auth, root, memQ, current, fault>> /\ DirUnchanged

\* (I | S, LLC_Repl_Dirty_Auth_Miss) -> *_Evict_Auth: parked until its branch
\* of the tree is cached
EvictAwaitingCounter(v) ==
    /\ Replace(v, {"I", "S"}, {"LLC_Repl_Dirty_Auth_Miss"})
    /\ SetDir(v, [dir[v] EXCEPT !.st = IF dir[v].st = "I" THEN "I_Evict_Auth" ELSE "S_Evict_Auth"])
    /\ CountInRoot(v)
    /\ Park(v) /\ FetchCounterForEviction(v) /\ Drop(v, llc)
    /\ UNCHANGED <<chanVars, memQ, current, fault>> /\ DirUnchanged

\* (C_M, LLC_Repl_Dirty_Auth_Miss) -> I_Evict_Auth
EvictCounterAwaitingParent(v) ==
    /\ Replace(v, {"C_M"}, {"LLC_Repl_Dirty_Auth_Miss"})
    /\ SetDir(v, [dir[v] EXCEPT !.st = "I_Evict_Auth"])
    /\ Park(v) /\ FetchCounterForEviction(v) /\ Drop(v, llc)
    /\ UNCHANGED <<chanVars, root, memQ, current, fault>> /\ DirUnchanged

\* (E, LLC_Repl_Dirty | LLC_Repl_Dirty_Auth_Miss) -> E_Evict_Flush: the LLC copy
\* is stale, the owner has to give the line back first
EvictOwnedLine(v) ==
    /\ Replace(v, {"E"}, {"LLC_Repl_Dirty", "LLC_Repl_Dirty_Auth_Miss"})
    /\ SetDir(v, [dir[v] EXCEPT !.st = "E_Evict_Flush"])
    /\ Park(v) /\ AskOwner("FLUSH_REQ", v, 0) /\ Drop(v, llc)
    /\ UNCHANGED <<reqQ, waitQ, rspQ, rep, auth, root, memVars, current, fault>> /\ DirUnchanged

ReplDefined(st, ev) ==
    \/ st \in {"I", "S", "E"}
    \/ st = "C_M" /\ ev # "LLC_Repl_Clean"
    \/ st \in Granting \cup FetchAuth \cup Evicting \cup {"E_Evict_Flush"}
         /\ ev # "LLC_Repl_Dirty_Auth_Miss"
    \/ st \in EvictAuth /\ ev = "LLC_Repl_Clean"

\* A victim in transition stalls the message: all that is left of the attempt is
\* the memory timestamp.
ResponseStall ==
    /\ fault = NoFault /\ rspQ # <<>>
    /\ ResponseNeedsRoom
    /\ \E v \in InLLC : /\ dir[v].st \notin {"I", "S", "E", "C_M"}
                        /\ ReplDefined(dir[v].st, ReplEvent(v))
    /\ AdvanceMts /\ mts' # mts
    /\ UNCHANGED <<chanVars, dir, tbe, llc, auth, root, memVars, current, fault>> /\ DirUnchanged

\* No stall is declared for LLC_Repl_Dirty_Auth_Miss.
ReplacePanic(v) ==
    /\ fault = NoFault /\ v \in InLLC
    /\ MemoryNeedsRoom \/ ResponseNeedsRoom
    /\ ~ReplDefined(dir[v].st, ReplEvent(v))
    /\ fault' = <<"Dir", dir[v].st, ReplEvent(v)>>
    /\ UNCHANGED <<l1Vars, chanVars, dirVars, memVars, ghostVars>>

-----------------------------------------------------------------------------
RequestPort ==
    \/ FetchFromMemory \/ HitShared \/ HitExclusive \/ UpgradeOwner
    \/ WritebackOwner \/ FlushOwner
    \/ AuthMiss \/ AuthWait \/ Bounce \/ RequestStall \/ RequestPanic

ResponsePort ==
    \/ TakeBack \/ GrantAfterWriteback \/ GrantAfterFlush
    \/ FlushedVictimWrittenBack \/ FlushedVictimAwaitsCounter
    \/ ResponseBounce \/ ResponseStall

MemoryPort ==
    GrantShared \/ GrantExclusive \/ CounterData \/ EvictionDone \/ MemoryPanic

\* On behalf of a message at the head of the response or of the memory port.
Replacement(v) ==
    \/ EvictClean(v) \/ EvictDirty(v) \/ EvictCounter(v)
    \/ EvictAwaitingCounter(v) \/ EvictCounterAwaitingParent(v)
    \/ EvictOwnedLine(v) \/ ReplacePanic(v)

DirNext ==
    \/ RequestPort \/ ResponsePort \/ MemoryPort
    \/ \E v \in Addrs : Replacement(v)

=============================================================================
