----------------------------- MODULE TimingCPU -----------------------------
(***************************************************************************)
(* TimingSimpleCPU, the in-order core the repository patches so that a     *)
(* full memory barrier marks the next data access (isMemBarrier).  The     *)
(* code is a set of callbacks around one status: an event (fetch, reply,   *)
(* retry, end of a page walk) calls a chain of functions and returns to    *)
(* the event queue.                                                        *)
(*                                                                         *)
(* stack holds the functions the running event has still to execute, the   *)
(* innermost first.  Events happen only while it is empty, so a chain is   *)
(* atomic, and the frames that wait for a nested call to return are        *)
(* visible: completeIfetch looks at the status once more after             *)
(* initiateAcc.                                                            *)
(***************************************************************************)
EXTENDS Naturals, Sequences, FiniteSets

CONSTANTS
  Threads,    \* hardware threads of the CPU
  Ops,        \* kinds of instruction the threads execute
  MaxMicro,   \* most microops of a macro-op after the first (a bound)
  Split,      \* accesses may cross a cache line
  Faults,     \* translations and instructions may fault
  Suspends,   \* instructions and PC events may suspend their thread
  Drains      \* the simulator may ask the CPU to drain

MemOps == {"load", "store", "amo", "mgmt", "prefetch", "sc"}

ASSUME TimingAssumption ==
  /\ Threads # {} /\ IsFiniteSet(Threads)
  /\ Ops \subseteq MemOps \cup {"alu", "barrier"}
  /\ MaxMicro \in Nat
  /\ {Split, Faults, Suspends, Drains} \subseteq BOOLEAN

VARIABLES
  status,       \* _status
  stack,        \* functions the current event has still to run
  panic,        \* the assertion that failed, or "none"
  fetchEvent,   \* fetchEvent.scheduled()
  drain,        \* drainState(); "Signalled" until drain() is called again
  cur,          \* curThread
  active,       \* activeThreads
  halted,       \* threads whose context is not Active
  inst,         \* curStaticInst, or "none"
  macro,        \* microops of its macro-op or ROM sequence each thread has still to run
  delayed,      \* curStaticInst is a delayed-commit microop
  stay,         \* stayAtPC: the decoder needs more bytes
  ready,        \* history: inst has taken effect and its PC is still to move
  moved,        \* history: changes whenever the PC moves past an instruction
  icache,       \* page walks, packet to send again, packets sent, tick event
  acc,          \* WholeTranslationState of the current data access
  frag,         \* where the packets of the access are
  outstanding,  \* SplitMainSenderState::outstanding
  dcachePkt,    \* dcache_pkt, 0 for NULL
  barrierFetched, \* memoryBarrierFetched
  owed,         \* history: threads whose last barrier no packet has carried
  packet        \* the first packet sent: isMemBarrier, and whether it was owed

cpuVars    == <<status, stack, panic, fetchEvent, drain>>
threadVars == <<cur, active, halted>>
instVars   == <<inst, macro, delayed, stay, ready, moved>>
dataVars   == <<acc, frag, outstanding, dcachePkt, packet>>
flagVars   == <<barrierFetched, owed>>
vars == <<cpuVars, threadVars, instVars, icache, dataVars, flagVars>>

Statuses == {"Idle", "Running", "Faulting", "ITBWaitResponse", "IcacheRetry",
             "IcacheWaitResponse", "DTBWaitResponse", "DcacheRetry",
             "DcacheWaitResponse"}
Places == {"none", "pending", "sent", "refused", "tick", "ipr"}
NoAccess == [split |-> FALSE, walk |-> {}, fault |-> FALSE, barrier |-> FALSE]
Pieces(split) == IF split THEN {1, 2} ELSE {1}
AnyFault == IF Faults THEN BOOLEAN ELSE {FALSE}

Top(f)  == panic = "none" /\ stack # <<>> /\ Head(stack) = f
Event   == panic = "none" /\ stack = <<>>
Call(f) == stack' = <<f>> \o Tail(stack)
Return  == stack' = Tail(stack)
Run(f)  == stack' = <<f>>
Fail(where) == /\ panic' = where
               /\ UNCHANGED <<status, stack, fetchEvent, drain, threadVars,
                              instVars, icache, dataVars, flagVars>>

\* The constructor leaves memoryBarrierFetched uninitialised.
Init ==
  /\ status = "Idle" /\ stack = <<>> /\ panic = "none"
  /\ fetchEvent = FALSE /\ drain = "Running"
  /\ cur \in Threads /\ active = {} /\ halted = Threads
  /\ inst = "none" /\ macro = [t \in Threads |-> 0] /\ delayed = FALSE
  /\ stay = FALSE /\ ready = FALSE /\ moved = FALSE
  /\ icache = [walks |-> 0, retry |-> FALSE, sent |-> 0, tick |-> FALSE]
  /\ acc = NoAccess /\ frag = [f \in {1, 2} |-> "none"]
  /\ outstanding = 0 /\ dcachePkt = 0
  /\ packet = [barrier |-> FALSE, due |-> FALSE]
  /\ barrierFetched \in BOOLEAN /\ owed = {}

-----------------------------------------------------------------------------
(* Threads *)

\* Threads W become active; an idle CPU starts to fetch.  (Mutant: it does not.)
ActivateQuietly(W) ==
  /\ status' = IF W # {} /\ status = "Idle" THEN "Running" ELSE status
  /\ active' = active \cup W /\ halted' = halted \ W
  /\ UNCHANGED fetchEvent
Activate(W) ==
  /\ status' = IF W # {} /\ status = "Idle" THEN "Running" ELSE status
  /\ fetchEvent' = (fetchEvent \/ W # {})
  /\ active' = active \cup W
  /\ halted' = halted \ W

\* Thread t stops.  The last one leaves the CPU idle, without a fetch.  A CPU that is
\* neither idle nor running fails an assertion (SuspendFails).
SuspendContext(t) ==
  /\ status \in {"Idle", "Running"}
  /\ active' = active \ {t}
  /\ halted' = halted \cup {t}
  /\ IF status # "Idle" /\ active' = {}
       THEN status' = "Idle" /\ fetchEvent' = FALSE
       ELSE UNCHANGED <<status, fetchEvent>>

\* Another CPU, an interrupt or a snooped write to a monitored address wakes t.
\* If the CPU had drained, the simulation still runs: it will be asked again.
ActivateContext(t) ==
  /\ Event
  /\ t \in halted
  /\ Activate({t})
  /\ drain' = IF drain = "Drained" THEN "Signalled" ELSE drain
  /\ UNCHANGED <<stack, panic, cur, instVars, icache, dataVars, flagVars>>

\* A store wakes the threads of this CPU that monitor its address.
ThreadSnoop ==
  \E W \in SUBSET (halted \ {cur}) :
    /\ fetchEvent' = (fetchEvent \/ W # {})
    /\ active' = active \cup W
    /\ halted' = halted \ W

\* BaseSimpleCPU::swapActiveThread: any active thread may be next.
SwapActiveThread ==
  IF Cardinality(Threads) > 1 /\ ~delayed /\ ~stay /\ active # {}
    THEN cur' \in active
    ELSE UNCHANGED cur

-----------------------------------------------------------------------------
(* Instruction fetch *)

FetchEvent ==
  /\ Event /\ fetchEvent
  /\ fetchEvent' = FALSE
  /\ Run("fetch")
  /\ UNCHANGED <<status, panic, drain, threadVars, instVars, icache, dataVars, flagVars>>

Fetch ==
  /\ Top("fetch")
  /\ SwapActiveThread
  /\ Call("checkEvents")
  /\ UNCHANGED <<status, panic, fetchEvent, drain, active, halted, instVars,
                 icache, dataVars, flagVars>>

\* The microops of thread cur that are left become n.
SetMicro(n) == macro' = [macro EXCEPT ![cur] = n]

\* Interrupts, then PC events, are served unless the last microop is delayed-commit, also
\* in an instruction that spans two fetches.  The handler of an interrupt may start in
\* the microcode ROM (only while the chain of calls is at most MaxMicro + 1 deep, a
\* bound); a PC event may suspend the thread.
CheckEvents ==
  /\ Top("checkEvents")
  /\ \/ UNCHANGED macro
     \/ ~delayed /\ Len(stack) <= MaxMicro + 1 /\ \E n \in 0..MaxMicro : SetMicro(n)
  /\ \/ UNCHANGED <<status, fetchEvent, active, halted>>
     \/ ~delayed /\ Suspends /\ cur \notin halted /\ SuspendContext(cur)
  /\ IF status' = "Idle" THEN Return ELSE Call("translateFetch")
  /\ UNCHANGED <<panic, drain, cur, inst, delayed, stay, ready, moved, icache, dataVars,
                 flagVars>>

\* A microop that is already decoded needs no fetch.
TranslateFetch ==
  /\ Top("translateFetch")
  /\ IF macro[cur] > 0
       THEN /\ status' = "IcacheWaitResponse"
            /\ Call("completeIfetch")
            /\ UNCHANGED icache
       ELSE \/ /\ status' = "Running"
               /\ \E fault \in AnyFault :
                    Call(IF fault THEN "fetchFault" ELSE "sendFetch")
               /\ UNCHANGED icache
            \/ /\ status' = "ITBWaitResponse"       \* markDelayed
               /\ icache' = [icache EXCEPT !.walks = @ + 1]
               /\ Return
  /\ UNCHANGED <<panic, fetchEvent, drain, threadVars, instVars, dataVars, flagVars>>

\* The page walk of an instruction fetch ends.
FinishFetchTranslation ==
  /\ Event /\ icache.walks > 0
  /\ icache' = [icache EXCEPT !.walks = @ - 1]
  /\ \E fault \in AnyFault : Run(IF fault THEN "fetchFault" ELSE "sendFetch")
  /\ UNCHANGED <<status, panic, fetchEvent, drain, threadVars, instVars, dataVars, flagVars>>

SendFetch ==
  /\ \/ /\ Top("sendFetch")
        /\ \/ /\ status' = "IcacheRetry"
              /\ icache' = [icache EXCEPT !.retry = TRUE]
           \/ /\ status' = "IcacheWaitResponse"
              /\ icache' = [icache EXCEPT !.retry = FALSE, !.sent = @ + 1]
        /\ Return
     \/ /\ Top("fetchFault")
        /\ status' = "Running"
        /\ Call("advanceFault")
        /\ UNCHANGED icache
  /\ UNCHANGED <<panic, fetchEvent, drain, threadVars, instVars, dataVars, flagVars>>

\* The memory system, which refused a fetch, can take it.  (If it refuses again
\* nothing changes.)  (Mutant: the status does not follow.)
IcacheRetryStale ==
  /\ Event /\ icache.retry
  /\ icache' = [icache EXCEPT !.retry = FALSE, !.sent = @ + 1]
  /\ UNCHANGED <<cpuVars, threadVars, instVars, dataVars, flagVars>>
IcacheRetry ==
  /\ Event /\ icache.retry
  /\ IF status # "IcacheRetry" THEN Fail("icache recvReqRetry")
     ELSE /\ status' = "IcacheWaitResponse"
          /\ icache' = [icache EXCEPT !.retry = FALSE, !.sent = @ + 1]
          /\ UNCHANGED <<stack, panic, fetchEvent, drain, threadVars, instVars,
                         dataVars, flagVars>>

IcacheResponse ==
  /\ Event /\ icache.sent > 0
  /\ IF icache.tick THEN Fail("icache recvTimingResp")
     ELSE /\ icache' = [icache EXCEPT !.sent = @ - 1, !.tick = TRUE]
          /\ UNCHANGED <<cpuVars, threadVars, instVars, dataVars, flagVars>>

IcacheTick ==
  /\ Event /\ icache.tick
  /\ icache' = [icache EXCEPT !.tick = FALSE]
  /\ Run("completeIfetch")
  /\ UNCHANGED <<status, panic, fetchEvent, drain, threadVars, instVars, dataVars, flagVars>>

-----------------------------------------------------------------------------
(* Execution *)

\* BaseSimpleCPU::preExecute: the next microop, or an instruction, or none if the
\* bytes fetched do not hold all of it (once per instruction, a bound).  A microop that
\* is not the last one of its sequence is delayed-commit.  (Mutant: a macro-op has one
\* microop too many.)
DecodedLong ==
  [op : Ops, macro : {macro[cur] - 1, macro[cur]}, stay : {FALSE}]
Decoded ==
  IF macro[cur] > 0 THEN [op : Ops, macro : {macro[cur] - 1}, stay : {FALSE}]
  ELSE [op : Ops, macro : 0..MaxMicro, stay : {FALSE}]
       \cup (IF stay THEN {} ELSE {[op |-> "none", macro |-> 0, stay |-> TRUE]})

CompleteIfetch ==
  /\ Top("completeIfetch")
  /\ IF status # "IcacheWaitResponse" THEN Fail("completeIfetch")
     ELSE \E next \in Decoded :
       /\ status' = "Running"
       /\ inst' = next.op /\ SetMicro(next.macro) /\ stay' = next.stay
       /\ delayed' = (next.macro > 0)
       /\ ready' = FALSE /\ UNCHANGED moved
       /\ barrierFetched' = (barrierFetched \/ next.op = "barrier")
       /\ owed' = IF next.op = "barrier" THEN owed \cup {cur} ELSE owed
       /\ stack' = (CASE next.op \in MemOps -> <<"initiateAcc", "afterInitiate">>
                      [] next.op = "none" -> <<"advanceInst">>
                      [] OTHER -> <<"execute">>) \o Tail(stack)
       /\ UNCHANGED <<panic, fetchEvent, drain, threadVars, icache, dataVars>>

\* An instruction without memory access.  The ones that suspend their thread (halt,
\* quiesce) end a macro-op.
Execute ==
  /\ Top("execute")
  /\ \/ /\ ready' = TRUE
        /\ Call("advanceInst")
        /\ \/ UNCHANGED <<status, fetchEvent, active, halted>>
           \/ Suspends /\ macro[cur] = 0 /\ cur \notin halted /\ SuspendContext(cur)
     \/ /\ Faults
        /\ Call("advanceFault")
        /\ UNCHANGED <<ready, status, fetchEvent, active, halted>>
  /\ UNCHANGED <<panic, drain, cur, inst, macro, delayed, stay, moved, icache, dataVars,
                 flagVars>>

\* initiateAcc has returned: the instruction is over if the CPU still runs.  (Mutant:
\* whatever the status is.)
AfterInitiateAlways ==
  /\ Top("afterInitiate") \/ Top("afterInitiateFault")
  /\ Call("advanceInst")
  /\ UNCHANGED <<status, panic, fetchEvent, drain, threadVars, instVars, icache,
                 dataVars, flagVars>>
AfterInitiate ==
  /\ \/ Top("afterInitiate")
     \/ Top("afterInitiateFault")
  /\ IF status # "Running" THEN Return
     ELSE Call(IF Head(stack) = "afterInitiate" THEN "advanceInst" ELSE "advanceFault")
  /\ UNCHANGED <<status, panic, fetchEvent, drain, threadVars, instVars, icache,
                 dataVars, flagVars>>

\* isCpuDrained; microPC is 0 between macro-ops.  (Mutant: in the middle of an
\* instruction that spans two fetches.)
DrainedMidInst == macro[cur] = 0 /\ ~fetchEvent
IsCpuDrained == macro[cur] = 0 /\ ~stay /\ ~fetchEvent

\* (Mutant: in the wrong state.)
DrainTooLate == drain = "Signalled" /\ IsCpuDrained
TryCompleteDrain == drain = "Draining" /\ IsCpuDrained

\* The PC moves (unless the instruction is not complete) and the next fetch begins,
\* or a drain ends here.
AdvanceInst ==
  /\ Top("advanceInst")
  /\ IF status = "Faulting" THEN Return /\ UNCHANGED <<ready, moved, drain>>
     ELSE /\ ready' = (ready /\ stay)
          /\ moved' = IF stay THEN moved ELSE ~moved
          /\ IF TryCompleteDrain
               THEN drain' = "Signalled" /\ Return
               ELSE /\ IF status = "Running" THEN Call("fetch") ELSE Return
                    /\ UNCHANGED drain
  /\ UNCHANGED <<status, panic, fetchEvent, threadVars, inst, macro, delayed, stay,
                 icache, dataVars, flagVars>>

\* The same with a fault: its handler may start in the microcode ROM, and a system
\* call may suspend the thread; else the next fetch is an event of its own.  (Mutant:
\* which is not scheduled.)
FaultWithoutFetch ==
  /\ Top("advanceFault") /\ Return
  /\ ready' = FALSE /\ status' = "Faulting"
  /\ UNCHANGED <<panic, fetchEvent, drain, threadVars, inst, macro, delayed, stay, moved,
                 icache, dataVars, flagVars>>
AdvanceFault ==
  /\ Top("advanceFault")
  /\ Return
  /\ IF status = "Faulting" THEN UNCHANGED <<status, fetchEvent, active, halted, macro, ready>>
     ELSE /\ ready' = FALSE
          /\ \/ /\ \E n \in 0..MaxMicro : SetMicro(n)
                /\ status' = "Faulting" /\ fetchEvent' = TRUE
                /\ UNCHANGED <<active, halted>>
             \/ /\ Suspends /\ SetMicro(0) /\ cur \notin halted
                /\ status \in {"Idle", "Running"}
                /\ active' = active \ {cur} /\ halted' = halted \cup {cur}
                /\ status' = IF active' = {} THEN "Idle" ELSE "Faulting"
                /\ fetchEvent' = (active' # {})
  /\ UNCHANGED <<panic, drain, cur, inst, delayed, stay, moved, icache, dataVars, flagVars>>

\* A PC event, an instruction or a fault suspends a thread of a CPU that is neither
\* idle nor running.
SuspendFails ==
  /\ Suspends /\ cur \notin halted /\ status \notin {"Idle", "Running"}
  /\ \/ Top("checkEvents") /\ ~delayed
     \/ Top("execute") /\ macro[cur] = 0
     \/ Top("advanceFault") /\ status # "Faulting"
  /\ Fail("suspendContext")

-----------------------------------------------------------------------------
(* Data accesses: request and translation *)

\* An access marked if a barrier came before it.  (Mutant: not marked.)
UnmarkedAccess(split) ==
  [split |-> split, walk |-> Pieces(split), fault |-> FALSE, barrier |-> FALSE]
MarkedAccess(split) ==
  [split |-> split, walk |-> Pieces(split), fault |-> FALSE, barrier |-> barrierFetched]

\* The request takes the flag.  The translations of the pieces end now or later.
StartTranslation(split) ==
  /\ status' = "DTBWaitResponse"
  /\ acc' = MarkedAccess(split)
  /\ barrierFetched' = FALSE
  /\ Call("translateData")
  /\ UNCHANGED <<panic, fetchEvent, drain, threadVars, instVars, icache, frag,
                 outstanding, dcachePkt, packet, owed>>

CrossesLine == IF Split THEN BOOLEAN ELSE {FALSE}

InitiateMemRead ==
  /\ Top("initiateAcc") /\ inst \in {"load", "prefetch"}
  /\ \E split \in CrossesLine : StartTranslation(split)

\* A store conditional never crosses a line.
WriteMem ==
  /\ Top("initiateAcc") /\ inst \in {"store", "sc"}
  /\ \E split \in (IF inst = "sc" THEN {FALSE} ELSE CrossesLine) : StartTranslation(split)

InitiateMemAMO ==
  /\ Top("initiateAcc") /\ inst = "amo"
  /\ StartTranslation(FALSE)

\* Not translated.  isMemBarrier is not set, and the flag is left for the next access.
InitiateMemMgmtCmd ==
  /\ Top("initiateAcc") /\ inst = "mgmt"
  /\ acc' = NoAccess
  /\ Call("sendData")
  /\ UNCHANGED <<status, panic, fetchEvent, drain, threadVars, instVars, icache, frag,
                 outstanding, dcachePkt, packet, flagVars>>

\* initiateAcc returns without an access: predicated off, or faulting before it.
InitiateNothing ==
  /\ Top("initiateAcc") /\ inst # "mgmt"
  /\ \/ ready' = TRUE /\ Return
     \/ /\ Faults
        /\ stack' = <<"afterInitiateFault">> \o Tail(Tail(stack))
        /\ UNCHANGED ready
  /\ UNCHANGED <<status, panic, fetchEvent, drain, threadVars, inst, macro, delayed, stay,
                 moved, icache, dataVars, flagVars>>

\* Translations of the pieces in now end, perhaps with a fault; the last one calls
\* finishTranslation.
EndWalks(now, then) ==
  /\ \E fault \in AnyFault :
       acc' = [acc EXCEPT !.walk = @ \ now, !.fault = @ \/ (fault /\ now # {})]
  /\ stack' = (IF acc'.walk = {} THEN <<"finishTranslation">> ELSE <<>>) \o then
  /\ UNCHANGED <<status, panic, fetchEvent, drain, threadVars, instVars, icache, frag,
                 outstanding, dcachePkt, packet, flagVars>>

TranslateData ==
  /\ Top("translateData")
  /\ \E now \in SUBSET acc.walk : EndWalks(now, Tail(stack))

FinishDataTranslation(piece) ==
  /\ Event /\ piece \in acc.walk
  /\ EndWalks({piece}, <<>>)

\* A fault goes to its handler, unless the access is a prefetch, whose fault is dropped.
FinishTranslation ==
  /\ Top("finishTranslation")
  /\ status' = "Running"
  /\ IF ~acc.fault
       THEN Call(IF acc.split /\ inst # "prefetch" THEN "sendSplitData" ELSE "sendData")
            /\ UNCHANGED <<ready, acc>>
       ELSE /\ acc' = NoAccess
            /\ ready' = (inst = "prefetch")
            /\ Call(IF inst = "prefetch" THEN "advanceInst" ELSE "advanceFault")
  /\ UNCHANGED <<panic, fetchEvent, drain, threadVars, inst, macro, delayed, stay, moved,
                 icache, frag, outstanding, dcachePkt, packet, flagVars>>

-----------------------------------------------------------------------------
(* Data accesses: packets *)

\* The first n of the packets P are taken by the memory system and the next one is
\* refused: it stays in dcache_pkt until the retry.
Offer(P, n) ==
  /\ frag' = [f \in {1, 2} |-> IF f \notin P THEN frag[f]
                              ELSE IF Cardinality({g \in P : g <= f}) <= n THEN "sent"
                              ELSE "pending"]
  /\ dcachePkt' = IF n = Cardinality(P) THEN 0
                  ELSE CHOOSE f \in P : frag'[f] = "pending" /\ \A g \in P : frag'[g] = "pending" => f <= g
  /\ status' = IF n = Cardinality(P) THEN "DcacheWaitResponse" ELSE "DcacheRetry"

\* An access the CPU answers itself, after a delay.  (Mutant: it does not wait.)
LocalAccessRunning ==
  /\ frag' = [frag EXCEPT ![1] = "ipr"]
  /\ dcachePkt' = 0
  /\ UNCHANGED status
LocalAccess ==
  /\ frag' = [frag EXCEPT ![1] = "ipr"]
  /\ dcachePkt' = 0
  /\ status' = "DcacheWaitResponse"

\* The first packet leaves for the memory system with the flag of its request.
Carry(barrier) ==
  /\ packet' = [barrier |-> barrier, due |-> inst # "mgmt" /\ cur \in owed]
  /\ owed' = IF inst = "mgmt" THEN owed ELSE owed \ {cur}
  /\ UNCHANGED barrierFetched

HandleReadPacket  == LocalAccess \/ \E n \in {0, 1} : Offer({1}, n)
HandleWritePacket == LocalAccess \/ \E n \in {0, 1} : Offer({1}, n)

SendData ==
  /\ Top("sendData")
  /\ \/ /\ inst \in {"load", "amo", "mgmt", "store", "sc"}
        /\ IF inst \in {"load", "mgmt"}
             THEN HandleReadPacket /\ UNCHANGED <<fetchEvent, active, halted>>
             ELSE HandleWritePacket /\ ThreadSnoop
        /\ \E barrier \in (IF inst = "mgmt" THEN BOOLEAN ELSE {acc.barrier}) : Carry(barrier)
        /\ Return
     \/ /\ inst = "sc"                          \* handleLockedWrite: no access
        /\ status' = "DcacheWaitResponse"
        /\ Call("completeDataAccess")
        /\ UNCHANGED <<fetchEvent, active, halted, frag, dcachePkt, packet, flagVars>>
     \/ /\ inst = "prefetch"                    \* NO_ACCESS
        /\ Call("completeNoAccess")
        /\ UNCHANGED <<status, fetchEvent, active, halted, frag, dcachePkt, packet, flagVars>>
  /\ UNCHANGED <<panic, drain, cur, instVars, icache, acc, outstanding>>

\* The packets of a split access still to be answered.  (Mutant: one.)
OneFragment  == 1
TwoFragments == 2

\* The requests of the two halves are copies of the request, and the copy does not
\* copy isMemBarrier.
SendSplitData ==
  /\ Top("sendSplitData")
  /\ outstanding' = TwoFragments
  /\ \E n \in 0..2 : Offer({1, 2}, n)
  /\ \E barrier \in BOOLEAN : Carry(barrier)
  /\ Return
  /\ UNCHANGED <<panic, fetchEvent, drain, threadVars, instVars, icache, acc>>

\* The memory system takes the packet it refused; of a split access the other packet,
\* if it has not left, follows.
DcacheRetry ==
  /\ Event /\ dcachePkt # 0
  /\ IF status # "DcacheRetry" THEN Fail("dcache recvReqRetry")
     ELSE /\ LET unsent == {f \in {1, 2} : frag[f] = "pending"}
             IN  \E n \in 1..Cardinality(unsent) : Offer(unsent, n)
          /\ UNCHANGED <<stack, panic, fetchEvent, drain, threadVars, instVars, icache,
                         acc, outstanding, packet, flagVars>>

\* One reply per cycle: while the tick event is scheduled the next one is refused.
DcacheResponse(f) ==
  /\ Event /\ frag[f] = "sent"
  /\ frag' = [frag EXCEPT ![f] =
               IF \E g \in {1, 2} : frag[g] = "tick" THEN "refused" ELSE "tick"]
  /\ UNCHANGED <<cpuVars, threadVars, instVars, icache, acc, outstanding, dcachePkt,
                 packet, flagVars>>

\* retryRespEvent: the memory system sends the refused reply again.
RetryResponse(f) ==
  /\ Event /\ frag[f] = "refused"
  /\ \A g \in {1, 2} : frag[g] # "tick"
  /\ frag' = [frag EXCEPT ![f] = "tick"]
  /\ UNCHANGED <<cpuVars, threadVars, instVars, icache, acc, outstanding, dcachePkt,
                 packet, flagVars>>

\* The tick event or the event of a local access delivers a reply.
DcacheTick(f) ==
  /\ Event /\ frag[f] \in {"tick", "ipr"}
  /\ frag' = [frag EXCEPT ![f] = "none"]
  /\ Run("completeDataAccess")
  /\ UNCHANGED <<status, panic, fetchEvent, drain, threadVars, instVars, icache, acc,
                 outstanding, dcachePkt, packet, flagVars>>

\* A reply is counted; the last one completes the instruction.
CompleteDataAccess ==
  /\ Top("completeDataAccess") \/ Top("completeNoAccess")
  /\ IF status \notin {"DcacheWaitResponse", "DTBWaitResponse"} /\ Top("completeDataAccess")
       THEN Fail("completeDataAccess")
     ELSE IF outstanding > 1
       THEN /\ outstanding' = outstanding - 1
            /\ Return
            /\ UNCHANGED <<status, panic, fetchEvent, drain, threadVars, instVars, icache,
                           acc, frag, dcachePkt, packet, flagVars>>
     ELSE /\ status' = "Running"
          /\ outstanding' = 0
          /\ acc' = NoAccess
          /\ \E fault \in AnyFault :
               /\ ready' = ~fault
               /\ Call(IF fault THEN "advanceFault" ELSE "advanceInst")
          /\ UNCHANGED <<panic, fetchEvent, drain, threadVars, inst, macro, delayed, stay,
                         moved, icache, frag, dcachePkt, packet, flagVars>>

-----------------------------------------------------------------------------
(* Draining *)

\* The simulator asks the CPU to drain, and again until drain() itself says so.
Drain ==
  /\ Event /\ Drains /\ drain # "Drained"
  /\ IF status = "Idle" \/ (status = "Running" /\ IsCpuDrained)
       THEN /\ drain' = "Drained"
            /\ active' = {}
            /\ UNCHANGED fetchEvent
       ELSE /\ drain' = "Draining"
            /\ fetchEvent' = (fetchEvent \/ status = "Running")
            /\ UNCHANGED active
  /\ UNCHANGED <<status, stack, panic, cur, halted, instVars, icache, dataVars, flagVars>>

\* Every object has drained: the threads that are not suspended run on.
DrainResume ==
  /\ Event /\ drain = "Drained"
  /\ IF fetchEvent THEN Fail("drainResume")
     ELSE /\ drain' = "Running"
          /\ active' = Threads \ halted
          /\ status' = IF active' = {} THEN "Idle" ELSE "Running"
          /\ fetchEvent' = (active' # {})
          /\ UNCHANGED <<stack, panic, cur, halted, instVars, icache, dataVars, flagVars>>

\* What switchOut asserts of a CPU that has drained.
SwitchOutAsserts == ~fetchEvent /\ status \in {"Running", "Idle"} /\ ~stay
                    /\ macro[cur] = 0

\* A failed assertion ends the simulation.
Aborted == panic # "none" /\ UNCHANGED vars

Call_Step ==
  \/ Fetch \/ CheckEvents \/ TranslateFetch \/ SendFetch \/ CompleteIfetch \/ Execute
  \/ AfterInitiate \/ AdvanceInst \/ AdvanceFault \/ SuspendFails
  \/ InitiateMemRead \/ WriteMem \/ InitiateMemAMO \/ InitiateMemMgmtCmd \/ InitiateNothing \/ TranslateData
  \/ FinishTranslation \/ SendData \/ SendSplitData \/ CompleteDataAccess

Memory_Step ==
  \/ FinishFetchTranslation \/ IcacheRetry \/ IcacheResponse \/ DcacheRetry
  \/ \E f \in {1, 2} : FinishDataTranslation(f) \/ DcacheResponse(f) \/ RetryResponse(f)

Tick_Step == FetchEvent \/ IcacheTick \/ \E f \in {1, 2} : DcacheTick(f)

Next ==
  \/ Call_Step \/ Memory_Step \/ Tick_Step
  \/ \E t \in Threads : ActivateContext(t)
  \/ Drain \/ DrainResume \/ Aborted

Spec == Init /\ [][Next]_vars

\* A chain of calls returns, scheduled events happen, and the memory system ends
\* walks, answers and takes again what it refused.
FairSpec ==
  /\ Spec
  /\ WF_vars(Call_Step) /\ WF_vars(FetchEvent) /\ WF_vars(IcacheTick)
  /\ WF_vars(FinishFetchTranslation) /\ WF_vars(IcacheRetry) /\ WF_vars(IcacheResponse)
  /\ WF_vars(DcacheRetry)
  /\ \A f \in {1, 2} : /\ WF_vars(DcacheTick(f)) /\ WF_vars(FinishDataTranslation(f))
                       /\ WF_vars(DcacheResponse(f)) /\ WF_vars(RetryResponse(f))

=============================================================================
