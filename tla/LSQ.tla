-------------------------------- MODULE LSQ --------------------------------
(***************************************************************************)
(* The load/store queue of the out-of-order CPU: the requests it makes of  *)
(* loads and stores (LSQRequest, SingleDataRequest, SplitDataRequest,      *)
(* UnsquashableDirectRequest), the cache ports they compete for, and the   *)
(* TLBI sync that waits for stale translations.                            *)
(*                                                                         *)
(* A request has no fixed owner.  The queue entry of its instruction owns  *)
(* it until it is freed, by commit or by a squash; if the TLB, the cache   *)
(* or a writeback event still refer to it then, whichever of them comes    *)
(* last deletes it.  A slot stands for one entry, its instruction and its  *)
(* request; it serves again when the request is gone.                      *)
(*                                                                         *)
(* LSQUnit, the instruction queue, the MMU and the cache are not in the    *)
(* repository: their actions do what the calls into LSQ require of them.   *)
(***************************************************************************)
EXTENDS Naturals, FiniteSets

CONSTANTS
  Slots,       \* queue entries
  Kinds,       \* classes of request the accesses need
  LoadPorts, StorePorts,  \* cacheLoadPorts, cacheStorePorts
  Syncs        \* another CPU may ask for a TLBI sync

ASSUME LSQAssumption ==
  /\ IsFiniteSet(Slots)
  /\ Kinds \subseteq {"single", "split", "direct", "masked"}
  /\ LoadPorts \in Nat \ {0} /\ StorePorts \in Nat \ {0}
  /\ Syncs \in BOOLEAN

VARIABLES
  req,       \* the request of each slot, Gone when there is none
  inst,      \* its instruction: what it waits for, whether it is squashed
  walks,     \* fragments the MMU is translating
  flight,    \* packets of the request that are in the memory system
  forwards,  \* slots with a WritebackEvent (store-to-load forwarding)
  call,      \* what pushRequest has still to do: [slot, frag], frag 0 for access
  cacheBlocked, \* _cacheBlocked
  used,      \* usedLoadPorts, usedStorePorts
  waiting,   \* waitingForStaleTranslation
  owed,      \* history: requests the sync is for that are still at work
  panic      \* the assertion that failed, or "none"

portVars == <<cacheBlocked, used>>
syncVars == <<waiting, owed>>
envVars  == <<walks, flight, forwards>>
vars == <<req, inst, envVars, call, portVars, syncVars, panic>>

Flags == {"TranslationStarted", "TranslationFinished", "Sent", "Retry", "Complete",
          "TranslationSquashed", "Discarded", "LSQEntryFreed",
          "WritebackScheduled", "WritebackDone"}
States == {"NotIssued", "Translation", "Request", "Fault", "PartialFault"}
Gone == [kind |-> "gone"]
NoInst == [at |-> "none", load |-> FALSE, squashed |-> FALSE]

\* _reqs.size(): the lines the access touches with some byte enabled.
Frags(kind) == CASE kind = "split" -> {1, 2} [] kind = "masked" -> {} [] OTHER -> {1}

NewRequest(kind) ==
  [kind |-> kind, state |-> "NotIssued", flags |-> {}, numTranslated |-> 0,
   numInTranslation |-> 0, faults |-> {}, packets |-> 0, numOutstanding |-> 0,
   numReceived |-> 0, stale |-> FALSE]

Init ==
  /\ req = [r \in Slots |-> Gone] /\ inst = [r \in Slots |-> NoInst]
  /\ walks = [r \in Slots |-> {}] /\ flight = [r \in Slots |-> {}]
  /\ forwards = {} /\ call = {}
  /\ cacheBlocked = FALSE /\ used = [load |-> 0, store |-> 0]
  /\ waiting = FALSE /\ owed = {} /\ panic = "none"

Idle == panic = "none" /\ call = {}
At(r, place) == inst' = [inst EXCEPT ![r].at = place]
Live(q) == q # Gone

-----------------------------------------------------------------------------
(* LSQRequest: who frees it *)

Outstanding(q) ==
  \/ q.numInTranslation > 0
  \/ q.numOutstanding > 0
  \/ "WritebackScheduled" \in q.flags /\ "WritebackDone" \notin q.flags
Released(q) == q.flags \cap {"LSQEntryFreed", "Discarded"} # {}
Set(q, flag) == [q EXCEPT !.flags = @ \cup {flag}]

\* (Mutants: an entry frees its request at once, whoever still uses it; a
\* request that is only waiting for the TLB is freed at once.)
ReleaseAlways(q, reason) == Gone
ReleaseInTranslation(q, reason) ==
  IF q.numOutstanding = 0 THEN Gone ELSE Set(q, reason)
Release(q, reason) == IF Outstanding(q) THEN Set(q, reason) ELSE Gone

PacketReplied(q) ==
  LET p == [q EXCEPT !.numOutstanding = @ - 1]
  IN IF p.numOutstanding = 0 /\ Released(p) THEN Gone ELSE p

WritebackDone(q) ==
  LET p == Set(q, "WritebackDone")
  IN IF p.numOutstanding = 0 /\ Released(p) THEN Gone ELSE p

\* (Mutant: an orphan is not looked for.)
SquashTranslationOnly(q) == Set(q, "TranslationSquashed")
SquashTranslation(q) ==
  LET p == Set(q, "TranslationSquashed") IN IF Released(p) THEN Gone ELSE p

-----------------------------------------------------------------------------
(* Translation *)

\* finish: fragment i of q is translated, with a fault or not.
FinishFragment(q, i, fault) ==
  [q EXCEPT !.numInTranslation = @ - 1, !.numTranslated = @ + 1,
            !.faults = IF fault THEN @ \cup {i} ELSE @]

\* The first fragment that faults decides; a load keeps what is before it.
StateAfter(q) ==
  CASE q.faults = {} -> "Request" [] 1 \in q.faults -> "Fault" [] OTHER -> "PartialFault"

\* (Mutant: the access goes on when its first fragment is translated.)
FinishEarly(q, i, fault, squashed) ==
  LET p == FinishFragment(q, i, fault)
  IN IF squashed THEN SquashTranslation(p)
     ELSE [Set(p, "TranslationFinished") EXCEPT !.state = StateAfter(p)]
Finish(q, i, fault, squashed) ==
  LET p == FinishFragment(q, i, fault)
  IN IF p.numTranslated < Cardinality(Frags(q.kind)) THEN p
     ELSE IF squashed THEN SquashTranslation(p)
     ELSE [Set(p, "TranslationFinished") EXCEPT !.state = StateAfter(p)]

TranslationComplete(q) == "TranslationStarted" \in q.flags /\ q.state # "Translation"
MemAccessRequired(q, load) ==
  q.state = "Request" \/ (q.state = "PartialFault" /\ load)

\* pushRequest for an instruction without a request, and initiateTranslation.
\* A special command is not translated; an access with no byte enabled has no
\* fragment at all.
PushRequest(r, kind, load) ==
  /\ Idle /\ inst[r].at = "none" /\ ~Live(req[r])
  /\ kind \in {"direct"} => load
  /\ req' = [req EXCEPT ![r] =
       CASE kind = "masked" -> NewRequest(kind)
         [] kind = "direct" ->
              [NewRequest(kind) EXCEPT !.state = "Request",
                 !.flags = {"TranslationStarted", "TranslationFinished"}]
         [] OTHER ->
              [NewRequest(kind) EXCEPT !.state = "Translation",
                 !.flags = {"TranslationStarted"}]]
  /\ inst' = [inst EXCEPT ![r] = [at |-> "execute", load |-> load, squashed |-> FALSE]]
  /\ call' = {[slot |-> r, frag |-> IF kind \in {"single", "split"} THEN 1 ELSE 0]}
  /\ UNCHANGED <<envVars, portVars, syncVars, panic>>

\* sendFragmentToTranslation: the MMU may call finish before it returns.
SendFragmentToTranslation(r, i) ==
  /\ panic = "none" /\ call = {[slot |-> r, frag |-> i]} /\ i > 0
  /\ LET q == [req[r] EXCEPT !.numInTranslation = @ + 1]
     IN \/ /\ req' = [req EXCEPT ![r] = q]
           /\ walks' = [walks EXCEPT ![r] = @ \cup {i}]
        \/ /\ \E fault \in BOOLEAN :
                req' = [req EXCEPT ![r] = Finish(q, i, fault, inst[r].squashed)]
           /\ UNCHANGED walks
  /\ call' = {[slot |-> r, frag |-> IF i + 1 \in Frags(req[r].kind) THEN i + 1 ELSE 0]}
  /\ UNCHANGED <<inst, flight, forwards, portVars, syncVars, panic>>

\* The TLB answers for a walk.
FinishWalk(r, i) ==
  /\ Idle /\ i \in walks[r]
  /\ walks' = [walks EXCEPT ![r] = @ \ {i}]
  /\ IF Live(req[r])
       THEN /\ \E fault \in BOOLEAN :
                 req' = [req EXCEPT ![r] = Finish(req[r], i, fault, inst[r].squashed)]
            /\ UNCHANGED panic
       ELSE panic' = "finish of a deleted request" /\ UNCHANGED req
  /\ UNCHANGED <<inst, flight, forwards, call, portVars, syncVars>>

\* pushRequest again: the instruction's walk is over, or the port it waits for is.
PushAgain(r) ==
  /\ Idle /\ ~inst[r].squashed
  /\ \/ inst[r].at = "deferred" /\ "TranslationFinished" \in req[r].flags
     \/ inst[r].at = "replay"
  /\ call' = {[slot |-> r, frag |-> 0]}
  /\ UNCHANGED <<req, inst, envVars, portVars, syncVars, panic>>

-----------------------------------------------------------------------------
(* The cache ports *)

Port(load) == IF load THEN "load" ELSE "store"
CachePortAvailable(load, n) ==
  IF load THEN used.load + n < LoadPorts ELSE used.store + n < StorePorts

\* buildPackets: one packet for every fragment before the first fault.
BuildPackets(q) ==
  IF q.packets > 0 THEN q
  ELSE [q EXCEPT !.packets =
         Cardinality({i \in Frags(q.kind) : \A j \in 1 .. i : j \notin q.faults})]

\* The packets of q that were sent; the next one follows them.  (Mutant: the
\* count of received packets is forgotten.)
SentOutstanding(q) == q.numOutstanding
SentSoFar(q) == q.numReceived + q.numOutstanding

\* sendPacketToCache: n packets go, and the cache refuses the next one, or there
\* is no port for it, or none is left.
SendPacketToCache(r, q, n) ==
  LET k == SentSoFar(q)  more == k + n < q.packets  load == inst[r].load
  IN /\ k + n <= q.packets
     /\ n > 0 => ~cacheBlocked /\ CachePortAvailable(load, n - 1)
     /\ flight' = [flight EXCEPT ![r] = @ \cup (k + 1 .. k + n)]
     /\ used' = [used EXCEPT ![Port(load)] = @ + n]
     /\ req' = [req EXCEPT ![r] =
          [q EXCEPT !.numOutstanding = @ + n,
             !.flags = IF more THEN (@ \ {"Sent"}) \cup {"Retry"}
                       ELSE IF n > 0 THEN @ \cup {"Sent"} ELSE @]]
     /\ cacheBlocked' = (cacheBlocked \/ (more /\ CachePortAvailable(load, n)))

-----------------------------------------------------------------------------
(* pushRequest's read and write *)

Access(r) == panic = "none" /\ call = {[slot |-> r, frag |-> 0]} /\ call' = {}

\* A load goes to the cache, or waits for it in the instruction queue.
ReadFromCache(r) ==
  /\ Access(r) /\ inst[r].load
  /\ TranslationComplete(req[r]) /\ MemAccessRequired(req[r], TRUE)
  /\ \E n \in 0 .. 2 : SendPacketToCache(r, BuildPackets(req[r]), n)
  /\ At(r, IF "Sent" \in req'[r].flags THEN "memory" ELSE "blocked")
  /\ UNCHANGED <<walks, forwards, syncVars, panic>>

\* All the bytes are in an older store, or the access is local to the CPU.
ReadForwarded(r) ==
  /\ Access(r) /\ inst[r].load
  /\ TranslationComplete(req[r]) /\ MemAccessRequired(req[r], TRUE)
  /\ ~Outstanding(req[r])
  /\ req' = [req EXCEPT ![r] = Set(@, "WritebackScheduled")]
  /\ forwards' = forwards \cup {r}
  /\ At(r, "memory")
  /\ UNCHANGED <<walks, flight, portVars, syncVars, panic>>

\* Some of the bytes are: the request is discarded and the load rescheduled; it
\* will have another request.
ReadPartly(r) ==
  /\ Access(r) /\ inst[r].load /\ req[r].kind # "direct"
  /\ TranslationComplete(req[r]) /\ MemAccessRequired(req[r], TRUE)
  /\ req' = [req EXCEPT ![r] = Release(@, "Discarded")]
  /\ At(r, "none")
  /\ owed' = owed \ {r}
  /\ UNCHANGED <<envVars, portVars, waiting, panic>>

\* A store waits for commit in its entry.
Write(r) ==
  /\ Access(r) /\ ~inst[r].load
  /\ TranslationComplete(req[r]) /\ MemAccessRequired(req[r], FALSE)
  /\ At(r, "executed")
  /\ UNCHANGED <<req, envVars, portVars, syncVars, panic>>

\* Nothing to access: a fault, or no byte enabled.
NoAccess(r) ==
  /\ Access(r)
  /\ \/ TranslationComplete(req[r]) /\ ~MemAccessRequired(req[r], inst[r].load)
     \/ req[r].kind = "masked"
  /\ At(r, "done")
  /\ UNCHANGED <<req, envVars, portVars, syncVars, panic>>

DeferMemInst(r) ==
  /\ Access(r) /\ req[r].state = "Translation"
  /\ At(r, "deferred")
  /\ UNCHANGED <<req, envVars, portVars, syncVars, panic>>

-----------------------------------------------------------------------------
(* Commit, squash *)

\* The store is at the head of the ROB; writebackStores will send it.
CommitStore(r) ==
  /\ Idle /\ inst[r].at = "executed" /\ ~inst[r].squashed
  /\ At(r, "committed")
  /\ UNCHANGED <<req, envVars, call, portVars, syncVars, panic>>

\* Stores are sent one after the other, and again when the cache refused.
WritebackStores(r) ==
  /\ Idle /\ inst[r].at = "committed" /\ ~cacheBlocked
  /\ \A q \in Slots \ {r} : inst[q].at = "committed" => SentSoFar(req[q]) \in {0, req[q].packets}
  /\ LET q == BuildPackets(req[r])
     IN /\ SentSoFar(q) < q.packets
        /\ \E n \in 0 .. 2 : SendPacketToCache(r, q, n)
  /\ UNCHANGED <<inst, walks, forwards, call, syncVars, panic>>

\* The entry of an instruction that is done is freed, in program order.
FreeLSQEntry(r) ==
  /\ Idle /\ inst[r].at = "done" /\ ~inst[r].squashed
  /\ req' = [req EXCEPT ![r] = Release(@, "LSQEntryFreed")]
  /\ At(r, "none")
  /\ owed' = owed \ {r}
  /\ UNCHANGED <<envVars, call, portVars, waiting, panic>>

\* Younger instructions are squashed wherever they are; special commands run
\* when nothing older can squash them, committed stores are not in the ROB.
Squashable(r) ==
  /\ inst[r].at \notin {"none", "committed"}
  /\ req[r].kind # "direct"
  /\ inst[r].load \/ "Complete" \notin req[r].flags

\* The ROB or the instruction queue marks the instruction; its entry is still in
\* the queue, and translations and packets may come back meanwhile.
SetSquashed(r) ==
  /\ Idle /\ Squashable(r) /\ ~inst[r].squashed
  /\ inst' = [inst EXCEPT ![r].squashed = TRUE]
  /\ UNCHANGED <<req, envVars, call, portVars, syncVars, panic>>

\* The squash reaches the queue: the instruction is marked, if it was not yet, and
\* its entry freed.
Squash(r) ==
  /\ Idle /\ Squashable(r)
  /\ req' = [req EXCEPT ![r] = Release(@, "LSQEntryFreed")]
  /\ inst' = [inst EXCEPT ![r].at = "none", ![r].squashed = TRUE]
  /\ owed' = owed \ {r}
  /\ UNCHANGED <<envVars, call, portVars, waiting, panic>>

-----------------------------------------------------------------------------
(* TLBI sync *)

InQueue(r) == inst[r].at # "none" /\ Live(req[r])
\* (Mutant: requests are not marked while they are translated.)
MarkTranslatedOnly(q) == [q EXCEPT !.stale = @ \/ q.state = "Request"]
MarkAsStaleTranslation(q) ==
  [q EXCEPT !.stale =
     q.kind # "direct" /\ (@ \/ ( /\ q.flags \cap {"Complete", "Discarded"} = {}
                                 /\ "TranslationStarted" \in q.flags ))]

\* checkStaleTranslations: the sync is over when no entry of a queue has a stale
\* request.  In reqs the requests are as they are when it is called.
StaleLeft(reqs, insts) ==
  \E r \in Slots : insts[r].at # "none" /\ Live(reqs[r]) /\ reqs[r].stale

\* Every request at work with a translation is owed to the sync, marked or not.
RecvTimingSnoopReq ==
  /\ Syncs /\ Idle /\ ~waiting
  /\ req' = [r \in Slots |-> IF InQueue(r) THEN MarkAsStaleTranslation(req[r]) ELSE req[r]]
  /\ owed' = {r \in Slots : InQueue(r) /\ req[r].kind \in {"single", "split"}
                            /\ req[r].flags \cap {"Complete", "WritebackDone"} = {}}
  /\ waiting' = StaleLeft(req', inst)
  /\ UNCHANGED <<inst, envVars, call, portVars, panic>>

-----------------------------------------------------------------------------
(* Responses *)

\* recvTimingResp of the request, unless it was released.  The stale mark goes
\* with the first response.  (Mutant: any response completes the access.)
ReceivedLast(q) ==
  [q EXCEPT !.numReceived = IF q.kind = "split" THEN @ + 1 ELSE @,
            !.flags = @ \cup {"Complete"},
            !.stale = FALSE]
Received(q) ==
  [q EXCEPT !.numReceived = IF q.kind = "split" THEN @ + 1 ELSE @,
            !.flags = IF q.kind # "split" \/ q.numReceived + 1 = q.packets
                        THEN @ \cup {"Complete"} ELSE @,
            !.stale = FALSE]

\* completeDataAccess lets the load write back and the store leave its queue,
\* now or when the older ones have left, unless the instruction is squashed;
\* packetReplied comes after it.
RecvTimingResp(r, p) ==
  /\ Idle /\ p \in flight[r]
  /\ flight' = [flight EXCEPT ![r] = @ \ {p}]
  /\ IF ~Live(req[r])
       THEN panic' = "response to a deleted request" /\ UNCHANGED <<req, inst, syncVars>>
       ELSE
         LET q == IF Released(req[r]) THEN req[r] ELSE Received(req[r])
             last == ~Released(req[r]) /\ "Complete" \in q.flags
             wanted == last /\ ~inst[r].squashed
         IN /\ \E freed \in IF wanted /\ ~inst[r].load THEN BOOLEAN ELSE {FALSE} :
                 /\ req' = [req EXCEPT ![r] =
                      PacketReplied(IF freed THEN Release(q, "LSQEntryFreed") ELSE q)]
                 /\ IF wanted
                      THEN At(r, IF freed THEN "none" ELSE "done")
                      ELSE UNCHANGED inst
            /\ owed' = IF last THEN owed \ {r} ELSE owed
            /\ waiting' = (waiting /\ StaleLeft(req', inst'))
            /\ UNCHANGED panic
  /\ UNCHANGED <<walks, forwards, call, portVars>>

\* The WritebackEvent of a forwarded load; a squashed load has no use for it.
WritebackEvent(r) ==
  /\ Idle /\ r \in forwards
  /\ forwards' = forwards \ {r}
  /\ IF Live(req[r])
       THEN req' = [req EXCEPT ![r] = WritebackDone(@)] /\ UNCHANGED panic
       ELSE panic' = "writeback of a deleted request" /\ UNCHANGED req
  /\ IF inst[r].at = "memory" /\ ~inst[r].squashed
       THEN At(r, "done") ELSE UNCHANGED inst
  /\ owed' = owed \ {r}
  /\ UNCHANGED <<walks, flight, call, portVars, waiting>>

\* cacheUnblocked of the IEW stage: the instruction queue executes again every
\* load that could not be sent.
CacheUnblocked ==
  inst' = [r \in Slots |-> IF inst[r].at = "blocked" THEN [inst[r] EXCEPT !.at = "replay"]
                                                    ELSE inst[r]]

RecvReqRetry ==
  /\ Idle /\ cacheBlocked
  /\ CacheUnblocked
  /\ cacheBlocked' = FALSE
  /\ UNCHANGED <<req, envVars, call, used, syncVars, panic>>

\* A new cycle frees the ports and wakes the loads that found none.  (Mutant:
\* it looks at the ports after it has freed them.)
TickTooLate ==
  /\ Idle /\ used # [load |-> 0, store |-> 0]
  /\ used' = [load |-> 0, store |-> 0]
  /\ UNCHANGED <<req, inst, envVars, call, cacheBlocked, syncVars, panic>>
Tick ==
  /\ Idle /\ used # [load |-> 0, store |-> 0]
  /\ IF used.load = LoadPorts /\ ~cacheBlocked THEN CacheUnblocked ELSE UNCHANGED inst
  /\ used' = [load |-> 0, store |-> 0]
  /\ UNCHANGED <<req, envVars, call, cacheBlocked, syncVars, panic>>

-----------------------------------------------------------------------------

PushStep(r) ==
  \/ \E i \in {1, 2} : SendFragmentToTranslation(r, i)
  \/ ReadFromCache(r) \/ ReadForwarded(r) \/ ReadPartly(r)
  \/ Write(r) \/ NoAccess(r) \/ DeferMemInst(r)

Next ==
  \/ \E r \in Slots :
       \/ \E kind \in Kinds, load \in BOOLEAN : PushRequest(r, kind, load)
       \/ PushStep(r) \/ PushAgain(r)
       \/ \E i \in {1, 2} : FinishWalk(r, i) \/ RecvTimingResp(r, i)
       \/ WritebackEvent(r)
       \/ CommitStore(r) \/ WritebackStores(r) \/ FreeLSQEntry(r)
       \/ SetSquashed(r) \/ Squash(r)
  \/ RecvTimingSnoopReq \/ RecvReqRetry \/ Tick

Spec == Init /\ [][Next]_vars

\* pushRequest returns, cycles pass and a cache that refused asks for a retry.
\* Strong, for these are events: calls of the LSQ come before them, not for ever.
PortFairness == WF_vars(\E r \in Slots : PushStep(r)) /\ SF_vars(RecvReqRetry) /\ SF_vars(Tick)

\* The MMU and the caches answer and events come when they are scheduled.
Answers == \A r \in Slots :
  /\ SF_vars(WritebackEvent(r)) /\ WF_vars(WritebackStores(r))
  /\ \A i \in {1, 2} : SF_vars(FinishWalk(r, i)) /\ SF_vars(RecvTimingResp(r, i))

PortSpec == Spec /\ PortFairness
FairSpec == Spec /\ PortFairness /\ Answers
=============================================================================
