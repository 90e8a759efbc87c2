------------------------------ MODULE L1Cache ------------------------------
(***************************************************************************)
(* TARDISTSO_TECTREE-cache.sm: the private L1 cache controller of a core,  *)
(* with the core (through its Sequencer) as the source of its requests.    *)
(* An action is one transition of the machine together with what its       *)
(* in_port does to the state before it triggers the event.                 *)
(***************************************************************************)
EXTENDS TardisState

L1Unchanged == UNCHANGED <<dirVars, memVars, waitQ, current>>

Entry(c, a) == l1[c][a]
SetEntry(c, a, e) == l1' = [l1 EXCEPT ![c] = [l1[c] EXCEPT ![a] = e]]

Resident(c) == {a \in Lines : Entry(c, a).st # "I"}
Avail(c, a) == a \in Resident(c) \/ Cardinality(Resident(c)) < L1Ways

-----------------------------------------------------------------------------
(* The core.  The Sequencer keeps one request per line outstanding; the    *)
(* order in which a core issues its requests is left open.                 *)

Outstanding(c, a) ==
    \/ Entry(c, a).st \in {"IS", "IE", "SE", "S_EXP"}
    \/ \E i \in 1..Len(mq[c]) : mq[c][i].a = a

CoreIssue(c) ==
    /\ fault = NoFault
    /\ opsLeft[c] > 0
    /\ Len(mq[c]) < QueueDepth
    /\ \E a \in Lines, op \in Ops, bar \in Barriers :
         /\ ~Outstanding(c, a)
         /\ mq' = [mq EXCEPT ![c] = Append(mq[c], [op |-> op, a |-> a, bar |-> bar])]
    /\ opsLeft' = [opsLeft EXCEPT ![c] = opsLeft[c] - 1]
    /\ UNCHANGED <<l1, lts, sts, chanVars, dirVars, memVars, ghostVars, fault>>

-----------------------------------------------------------------------------
(* mandatory_in: what every peek of the head of the mandatory queue does   *)
(* before an event is triggered.                                           *)

Pending(c) == fault = NoFault /\ mq[c] # <<>>

\* A memory barrier brings both timestamps to their maximum.
BarrierLts(c) == IF Head(mq[c]).bar THEN Max2(lts[c], sts[c]) ELSE lts[c]
BarrierSts(c) == IF Head(mq[c]).bar THEN Max2(lts[c], sts[c]) ELSE sts[c]

\* Livelock prevention: every period-th load of a resident line advances lts.
LivelockTick(e) == (e.loads + 1) % e.period = 0
CountLoad(e) ==
    IF LivelockTick(e)
    THEN [e EXCEPT !.loads = 0, !.period = Max2(1, e.period \div 2)]
    ELSE [e EXCEPT !.loads = e.loads + 1]

\* The lease of a copy has run out for a core whose clock reads l.  (Mutant: a
\* comparison that is off by one.)
ExpiredLate(l, e) == l > e.rts + 1
Expired(l, e) == l > e.rts

\* The event the head triggers once there is room, with the timestamps and
\* the entry as the peek leaves them.
Peek(c) ==
    LET r       == Head(mq[c])
        e       == Entry(c, r.a)
        counted == r.op = "LD" /\ e.st # "I"
        newLts  == BarrierLts(c) + IF counted /\ LivelockTick(e) THEN 1 ELSE 0
    IN  [a   |-> r.a,
         lts |-> newLts,
         sts |-> BarrierSts(c),
         e   |-> IF counted THEN CountLoad(e) ELSE e,
         ev  |-> IF r.op = "ST" THEN "Store"
                 ELSE IF counted /\ Expired(newLts, e) THEN "LoadLeaseExpired"
                 ELSE "Load"]

\* A step taken by the head of the mandatory queue in a given state of its line.
Mandatory(c, states, events) ==
    /\ Pending(c)
    /\ Avail(c, Head(mq[c]).a)
    /\ Entry(c, Head(mq[c]).a).st \in states
    /\ Peek(c).ev \in events

SetClocks(c, l, s) ==
    /\ lts' = [lts EXCEPT ![c] = l]
    /\ sts' = [sts EXCEPT ![c] = s]

PopMandatory(c) == mq' = [mq EXCEPT ![c] = Tail(mq[c])]

SendRequest(c, type, a, w, l) ==
    reqQ' = Append(reqQ, [type |-> type, a |-> a, from |-> c, wts |-> w, lts |-> l])

\* storeHit: the store is ordered after every lease the line has given out.
\* (Mutant: the lease is not moved along with the write timestamp.)
StoredKeepsLease(e, s) == [e EXCEPT !.st = "E", !.wts = Max2(s, e.rts + 1), !.val = e.val + 1]
Stored(e, s) == [e EXCEPT !.st = "E", !.wts = Max2(s, e.rts + 1),
                          !.rts = Max2(s, e.rts + 1), !.val = e.val + 1]

-----------------------------------------------------------------------------
(* Transitions on requests of the core.                                    *)

\* (I, Load) -> IS and (I, Store) -> IE
Miss(c) ==
    /\ Mandatory(c, {"I"}, {"Load", "Store"})
    /\ LET p == Peek(c) IN
         /\ SetEntry(c, p.a, [NewEntry EXCEPT !.st = IF p.ev = "Load" THEN "IS" ELSE "IE"])
         /\ IF p.ev = "Load" THEN SendRequest(c, "SH_REQ", p.a, 0, p.lts)
                             ELSE SendRequest(c, "EX_REQ", p.a, 0, 0)
         /\ SetClocks(c, p.lts, p.sts)
    /\ PopMandatory(c)
    /\ UNCHANGED <<opsLeft, rspQ, fwd, rep, written, fault>> /\ L1Unchanged

\* (S_LSD, Load): hit under a valid lease
LoadHit(c) ==
    /\ Mandatory(c, {"S_LSD"}, {"Load"})
    /\ LET p == Peek(c) IN
         /\ SetEntry(c, p.a, p.e)
         /\ SetClocks(c, Max2(p.lts, p.e.wts), p.sts)
    /\ PopMandatory(c)
    /\ UNCHANGED <<opsLeft, reqQ, rspQ, fwd, rep, written, fault>> /\ L1Unchanged

\* (S_LSD, LoadLeaseExpired) -> S_EXP
Renew(c) ==
    /\ Mandatory(c, {"S_LSD"}, {"LoadLeaseExpired"})
    /\ LET p == Peek(c) IN
         /\ SetEntry(c, p.a, [p.e EXCEPT !.st = "S_EXP"])
         /\ SendRequest(c, "SH_REQ", p.a, p.e.wts, p.lts)
         /\ SetClocks(c, p.lts, p.sts)
    /\ PopMandatory(c)
    /\ UNCHANGED <<opsLeft, rspQ, fwd, rep, written, fault>> /\ L1Unchanged

\* (S_LSD, Store) -> SE
Upgrade(c) ==
    /\ Mandatory(c, {"S_LSD"}, {"Store"})
    /\ LET p == Peek(c) IN
         /\ SetEntry(c, p.a, [p.e EXCEPT !.st = "SE"])
         /\ SendRequest(c, "EX_REQ", p.a, p.e.wts, 0)
         /\ SetClocks(c, p.lts, p.sts)
    /\ PopMandatory(c)
    /\ UNCHANGED <<opsLeft, rspQ, fwd, rep, written, fault>> /\ L1Unchanged

\* (E, {Load, LoadLeaseExpired}): the owner extends its own lease
OwnerLoad(c) ==
    /\ Mandatory(c, {"E"}, {"Load", "LoadLeaseExpired"})
    /\ LET p == Peek(c)
           l == Max2(p.lts, p.e.wts)
       IN  /\ SetEntry(c, p.a, [p.e EXCEPT !.rts = Max2(l, p.e.rts)])
           /\ SetClocks(c, l, p.sts)
    /\ PopMandatory(c)
    /\ UNCHANGED <<opsLeft, reqQ, rspQ, fwd, rep, written, fault>> /\ L1Unchanged

\* (E, Store)
OwnerStore(c) ==
    /\ Mandatory(c, {"E"}, {"Store"})
    /\ LET p == Peek(c)
           e == Stored(p.e, p.sts)
       IN  /\ SetEntry(c, p.a, e)
           /\ SetClocks(c, p.lts, e.wts)
           /\ written' = [written EXCEPT ![p.a] = written[p.a] + 1]
    /\ PopMandatory(c)
    /\ UNCHANGED <<opsLeft, reqQ, rspQ, fwd, rep, fault>> /\ L1Unchanged

\* ({IS, IE, S_EXP, SE, EI}, {Load, Store}): the head stays where it is, but
\* it was peeked: barrier and livelock prevention act again on every retry.
MandatoryStall(c) ==
    /\ Mandatory(c, L1Busy, {"Load", "Store"})
    /\ lts[c] < MaxClock
    /\ LET p == Peek(c) IN
         /\ SetEntry(c, p.a, p.e)
         /\ SetClocks(c, p.lts, p.sts)
         /\ <<p.e, p.lts, p.sts>> # <<Entry(c, p.a), lts[c], sts[c]>>
    /\ UNCHANGED <<mq, opsLeft, reqQ, rspQ, fwd, rep, written, fault>> /\ L1Unchanged

\* No transition is declared for LoadLeaseExpired in a busy state.
MandatoryPanic(c) ==
    /\ Mandatory(c, L1Busy, {"LoadLeaseExpired"})
    /\ fault' = <<"L1", Entry(c, Head(mq[c]).a).st, "LoadLeaseExpired">>
    /\ UNCHANGED <<l1Vars, chanVars, dirVars, memVars, ghostVars>>

-----------------------------------------------------------------------------
(* Eviction: the head's line is absent and its set is full.  The victim is *)
(* whatever cacheProbe returns; the code does not look at its state first. *)

Victim(c, v, states) ==
    /\ Pending(c)
    /\ ~Avail(c, Head(mq[c]).a)
    /\ Entry(c, v).st \in states
    /\ SetClocks(c, BarrierLts(c), BarrierSts(c))

\* (S_LSD, Eviction) -> I: a leased copy is dropped silently
EvictShared(c, v) ==
    /\ Victim(c, v, {"S_LSD"})
    /\ SetEntry(c, v, NewEntry)
    /\ UNCHANGED <<mq, opsLeft, reqQ, rspQ, fwd, rep, written, fault>> /\ L1Unchanged

\* (E, Eviction) -> EI: the owner puts the line back
EvictOwned(c, v) ==
    /\ Victim(c, v, {"E"})
    /\ LET e == Entry(c, v) IN
         /\ SetEntry(c, v, [e EXCEPT !.st = "EI"])
         /\ rspQ' = Append(rspQ, [type |-> "PUT_REP", a |-> v, from |-> c,
                                  wts |-> e.wts, rts |-> e.rts, val |-> e.val])
    /\ UNCHANGED <<mq, opsLeft, reqQ, fwd, rep, written, fault>> /\ L1Unchanged

\* ({IS, IE, S_EXP, SE, EI}, Eviction): stall, the barrier has acted
EvictStall(c, v) ==
    /\ Victim(c, v, L1Busy)
    /\ <<BarrierLts(c), BarrierSts(c)>> # <<lts[c], sts[c]>>
    /\ UNCHANGED <<l1, mq, opsLeft, reqQ, rspQ, fwd, rep, written, fault>> /\ L1Unchanged

-----------------------------------------------------------------------------
(* response_in                                                             *)

Response(c, m, states, types) ==
    /\ fault = NoFault
    /\ m.to = c
    /\ Entry(c, m.a).st \in states
    /\ m.type \in types
    /\ rep' = rep \ {m}

\* ({IS, S_EXP}, ShRep) -> S_LSD
ShRep(c, m) ==
    /\ Response(c, m, {"IS", "S_EXP"}, {"SH_REP"})
    /\ SetEntry(c, m.a, [Entry(c, m.a) EXCEPT !.st = "S_LSD", !.val = m.val,
                                              !.wts = m.wts, !.rts = m.rts])
    /\ SetClocks(c, Max2(lts[c], m.wts), sts[c])
    /\ UNCHANGED <<mq, opsLeft, reqQ, rspQ, fwd, written, fault>> /\ L1Unchanged

\* (S_EXP, RenewRep) -> S_LSD: only the lease changes
RenewRep(c, m) ==
    /\ Response(c, m, {"S_EXP"}, {"RENEW_REP"})
    /\ SetEntry(c, m.a, [Entry(c, m.a) EXCEPT !.st = "S_LSD", !.rts = m.rts])
    /\ SetClocks(c, Max2(lts[c], Entry(c, m.a).wts), sts[c])
    /\ UNCHANGED <<mq, opsLeft, reqQ, rspQ, fwd, written, fault>> /\ L1Unchanged

\* A store that was waiting for the line e completes (externalStoreHit).
CompleteStore(c, m, e) ==
    /\ SetEntry(c, m.a, Stored(e, sts[c]))
    /\ SetClocks(c, lts[c], Stored(e, sts[c]).wts)
    /\ written' = [written EXCEPT ![m.a] = written[m.a] + 1]
    /\ UNCHANGED <<mq, opsLeft, reqQ, rspQ, fwd, fault>> /\ L1Unchanged

\* (IE, ExRep) -> E: data and timestamps of the response
ExRepMiss(c, m) ==
    /\ Response(c, m, {"IE"}, {"EX_REP"})
    /\ CompleteStore(c, m, [Entry(c, m.a) EXCEPT !.val = m.val, !.wts = m.wts,
                                                 !.rts = m.rts])

\* (SE, ExRep) -> E: the data of the response, the timestamps of the old copy
ExRepUpgrade(c, m) ==
    /\ Response(c, m, {"SE"}, {"EX_REP"})
    /\ CompleteStore(c, m, [Entry(c, m.a) EXCEPT !.val = m.val])

\* (SE, UpgRep) -> E: the copy the core holds, with the lease of the response
UpgRep(c, m) ==
    /\ Response(c, m, {"SE"}, {"UPGR_REP"})
    /\ CompleteStore(c, m, [Entry(c, m.a) EXCEPT !.rts = m.rts])

\* (EI, AckRep) -> I
AckRep(c, m) ==
    /\ Response(c, m, {"EI"}, {"ACK_REP"})
    /\ SetEntry(c, m.a, NewEntry)
    /\ UNCHANGED <<lts, sts, mq, opsLeft, reqQ, rspQ, fwd, written, fault>> /\ L1Unchanged

-----------------------------------------------------------------------------
(* forward_in: FLUSH_REQ and WB_REQ are the same event, FlushReq.  In IS   *)
(* and IE the message stays in the buffer (stall), which is no step.       *)

\* What the owner keeps of a line it hands back.  (Mutant: the right to write it.)
LeasedOwned(e, r) == [e EXCEPT !.rts = r]
Leased(e, r) == [e EXCEPT !.st = "S_LSD", !.rts = r]

\* (E, FlushReq) -> S_LSD: the owner hands the line back and keeps a lease
FlushReq(c, m) ==
    /\ fault = NoFault
    /\ m.to = c
    /\ Entry(c, m.a).st = "E"
    /\ LET e == Entry(c, m.a)
           r == Max2(Max2(e.rts, e.wts + Lease), m.rts)
       IN  /\ SetEntry(c, m.a, Leased(e, r))
           /\ rspQ' = Append(rspQ, [type |-> "WB_REP", a |-> m.a, from |-> c,
                                    wts |-> e.wts, rts |-> r, val |-> e.val])
    /\ fwd' = fwd \ {m}
    /\ UNCHANGED <<lts, sts, mq, opsLeft, reqQ, rep, written, fault>> /\ L1Unchanged

\* (EI, FlushReq) -> I: the PUT_REP under way will answer
FlushReqEvicting(c, m) ==
    /\ fault = NoFault
    /\ m.to = c
    /\ Entry(c, m.a).st = "EI"
    /\ SetEntry(c, m.a, NewEntry)
    /\ fwd' = fwd \ {m}
    /\ UNCHANGED <<lts, sts, mq, opsLeft, reqQ, rspQ, rep, written, fault>> /\ L1Unchanged

\* No transition is declared for FlushReq in the other states.
FlushReqPanic(c, m) ==
    /\ fault = NoFault
    /\ m.to = c
    /\ Entry(c, m.a).st \notin {"E", "EI", "IS", "IE"}
    /\ fault' = <<"L1", Entry(c, m.a).st, "FlushReq">>
    /\ UNCHANGED <<l1Vars, chanVars, dirVars, memVars, ghostVars>>

-----------------------------------------------------------------------------
L1Next(c) ==
    \/ CoreIssue(c)
    \/ Miss(c) \/ LoadHit(c) \/ Renew(c) \/ Upgrade(c)
    \/ OwnerLoad(c) \/ OwnerStore(c) \/ MandatoryStall(c) \/ MandatoryPanic(c)
    \/ \E v \in Lines : EvictShared(c, v) \/ EvictOwned(c, v) \/ EvictStall(c, v)
    \/ \E m \in rep : \/ ShRep(c, m) \/ RenewRep(c, m) \/ ExRepMiss(c, m)
                      \/ ExRepUpgrade(c, m) \/ UpgRep(c, m) \/ AckRep(c, m)
    \/ \E m \in fwd : \/ FlushReq(c, m) \/ FlushReqEvicting(c, m)
                      \/ FlushReqPanic(c, m)

=============================================================================
