------------------------- MODULE Requestors_proofs --------------------------
(***************************************************************************)
(* Proofs about two sources of requests: TimingSimpleCPU with one hardware *)
(* thread, and the DMA controller.                                         *)
(*                                                                         *)
(* With several threads the properties of the CPU are false: a thread that *)
(* wakes up schedules a fetch whatever the CPU is waiting for (README).    *)
(*                                                                         *)
(* The invariant of the CPU says what each function finds when it is       *)
(* called and what an event finds when none is running: what the status    *)
(* says is under way and nothing else.  On it stand the assertions of the  *)
(* code, what a drained CPU leaves, the move of the PC and the flag of a   *)
(* barrier, each under the conditions it needs.                            *)
(***************************************************************************)
EXTENDS TimingProperties, DMA, TLAPS, FiniteSetTheorems

-----------------------------------------------------------------------------
(* The invariant                                                           *)

\* What the CPU knows of its instruction fetch.
Icache(walks, retry, sent, tick) ==
  icache = [walks |-> walks, retry |-> retry, sent |-> sent, tick |-> tick]

NoFetch == Icache(0, FALSE, 0, FALSE)
NoPacket == frag[1] = "none" /\ frag[2] = "none" /\ outstanding = 0
NoData == acc.walk = {} /\ NoPacket

\* Nothing is under way.
Nothing == ~fetchEvent /\ NoFetch /\ NoData

\* Packets are under way, as many as the counter of a split access says.
Counted ==
  \/ outstanding = 0 /\ frag[1] # "none" /\ frag[2] = "none"
  \/ outstanding = 1 /\ frag[1] # "none" /\ frag[2] = "none"
  \/ outstanding = 1 /\ frag[1] = "none" /\ frag[2] # "none"
  \/ outstanding = 2 /\ frag[1] # "none" /\ frag[2] # "none"
Unsent == frag[1] = "pending" \/ frag[2] = "pending"

InFetch ==
  /\ ~fetchEvent /\ NoData
  /\ \/ status = "ITBWaitResponse" /\ Icache(1, FALSE, 0, FALSE)
     \/ status = "IcacheRetry" /\ Icache(0, TRUE, 0, FALSE)
     \/ status = "IcacheWaitResponse" /\ Icache(0, FALSE, 1, FALSE)
     \/ status = "IcacheWaitResponse" /\ Icache(0, FALSE, 0, TRUE)

InTranslation == status = "DTBWaitResponse" /\ acc.walk # {} /\ NoPacket

InMemory ==
  /\ acc.walk = {} /\ Counted
  /\ \/ status = "DcacheRetry" /\ dcachePkt # 0 /\ frag[dcachePkt] = "pending"
     \/ status = "DcacheWaitResponse" /\ ~Unsent

InAccess == ~fetchEvent /\ NoFetch /\ (InTranslation \/ InMemory)

Stopped ==
  \/ status = "Idle" /\ Nothing
  \/ status = "Faulting" /\ fetchEvent /\ NoFetch /\ NoData
  \/ status = "Running" /\ drain = "Signalled" /\ Nothing

\* What a chain of calls leaves.
Parked == InFetch \/ InAccess \/ Stopped

\* What there is between two events.
AtRest ==
  \/ Parked
  \/ status = "Running" /\ fetchEvent /\ NoFetch /\ NoData
  \/ status = "Running" /\ drain = "Drained" /\ Nothing

FetchFrames == {"fetch", "checkEvents", "translateFetch"}
RunFrames == {"execute", "initiateAcc", "afterInitiateFault", "advanceFault", "sendData",
              "sendSplitData", "completeNoAccess"}
DataFrames == {"execute", "initiateAcc", "translateData", "finishTranslation", "sendData",
               "sendSplitData", "completeDataAccess", "completeNoAccess"}
DataStatuses == {"DTBWaitResponse", "DcacheRetry", "DcacheWaitResponse"}

\* A reply is being delivered: it is no longer counted among the packets.
Delivering ==
  /\ ~fetchEvent /\ NoFetch /\ acc.walk = {}
  /\ \/ outstanding \in {0, 1} /\ frag[1] = "none" /\ frag[2] = "none"
     \/ outstanding = 2 /\ frag[1] # "none" /\ frag[2] = "none"
     \/ outstanding = 2 /\ frag[1] = "none" /\ frag[2] # "none"
  /\ status \in {"DcacheRetry", "DcacheWaitResponse"}
  /\ status = "DcacheWaitResponse" => ~Unsent

\* What each function finds when it is called.
Called(f) ==
  \/ f \in FetchFrames /\ status \in {"Running", "Faulting"} /\ Nothing
  \/ f \in {"sendFetch", "fetchFault"} /\ status \in {"Running", "ITBWaitResponse"} /\ Nothing
  \/ f = "completeIfetch" /\ status = "IcacheWaitResponse" /\ Nothing
  \/ f \in RunFrames /\ status = "Running" /\ Nothing
  \/ f = "advanceInst" /\ status \in {"Running", "Idle"} /\ Nothing
  \/ f = "finishTranslation" /\ status = "DTBWaitResponse" /\ Nothing
  \/ f = "translateData" /\ ~fetchEvent /\ NoFetch /\ InTranslation
  \/ f = "completeDataAccess" /\ Delivering
  \/ f = "afterInitiate" /\ Parked
  \/ f = "afterInitiate" /\ status = "Running" /\ Nothing

Chain ==
  /\ \A i \in 2 .. Len(stack) : stack[i] = "afterInitiate"
  /\ Top("initiateAcc") => Len(stack) > 1
  /\ IF stack = <<>> THEN AtRest ELSE Called(Head(stack))

Threaded ==
  /\ halted # {} => status = "Idle"
  /\ drain = "Drained" => stack = <<>> /\ status \in {"Idle", "Running"} /\ Nothing

Effect ==
  /\ ready => /\ ~stay /\ Nothing
              /\ Top("advanceInst") \/ (Top("afterInitiate") /\ status = "Running")
  /\ stay => /\ status \notin DataStatuses
             /\ stack # <<>> => Head(stack) \notin DataFrames

CoreInv == panic = "none" => Chain /\ Threaded /\ Effect

\* Shapes of what the invariant looks into.
Shapes ==
  /\ cur \in Threads /\ halted \subseteq Threads /\ active \subseteq Threads
  /\ acc \in [split : BOOLEAN, walk : SUBSET {1, 2}, fault : BOOLEAN, barrier : {acc.barrier}]
  /\ frag \in [{1, 2} -> Places] /\ dcachePkt \in 0 .. 2
Booleans == fetchEvent \in BOOLEAN /\ ready \in BOOLEAN /\ stay \in BOOLEAN

Inv == stack \in Seq(Frames) /\ Shapes /\ Booleans /\ CoreInv

OneThread == \A t, u \in Threads : t = u

Nested == \A i \in 2 .. Len(stack) : stack[i] = "afterInitiate"

-----------------------------------------------------------------------------
(* The stack *)

LEMMA Calls ==
  ASSUME stack \in Seq(Frames), stack # <<>>, Nested, NEW f \in Frames, Call(f)
  PROVE  /\ stack' \in Seq(Frames) /\ stack' # <<>> /\ Head(stack') = f /\ Nested'
         /\ Len(stack') = Len(stack)
BY DEF Call, Nested

LEMMA Returns ==
  ASSUME stack \in Seq(Frames), stack # <<>>, Nested, Return
  PROVE  /\ stack' \in Seq(Frames) /\ Nested'
         /\ stack' # <<>> => Head(stack') = "afterInitiate"
         /\ Len(stack) > 1 => stack' # <<>>
<1>1. stack' \in Seq(Frames) /\ Len(stack') = Len(stack) - 1 /\ Len(stack) \in Nat
      /\ \A i \in 1 .. Len(stack') : stack'[i] = stack[i + 1]
  BY DEF Return
<1>2. Nested' BY <1>1 DEF Nested
<1>3. ASSUME stack' # <<>> PROVE Head(stack') = "afterInitiate"
  <2>1. Len(stack') > 0 BY <1>1, <1>3
  <2>2. Head(stack') = stack'[1] BY <1>1, <2>1
  <2>3. stack'[1] = stack[2] BY <1>1, <2>1
  <2>4. QED BY <1>1, <2>1, <2>2, <2>3 DEF Nested
<1>4. Len(stack) > 1 => stack' # <<>> BY <1>1
<1>5. QED BY <1>1, <1>2, <1>3, <1>4

LEMMA MemCalled ==
  ASSUME stack \in Seq(Frames), stack # <<>>, Nested,
         stack' = <<"initiateAcc", "afterInitiate">> \o Tail(stack)
  PROVE  /\ stack' \in Seq(Frames) /\ stack' # <<>> /\ Head(stack') = "initiateAcc"
         /\ Len(stack') > 1 /\ Nested'
BY DEF Nested, Frames

LEMMA FaultCalled ==
  ASSUME stack \in Seq(Frames), Len(stack) > 1, Nested,
         stack' = <<"afterInitiateFault">> \o Tail(Tail(stack))
  PROVE  /\ stack' \in Seq(Frames) /\ stack' # <<>> /\ Head(stack') = "afterInitiateFault"
         /\ Nested'
<1> DEFINE s == Tail(stack)
<1>1. /\ s \in Seq(Frames) /\ Len(s) = Len(stack) - 1 /\ Len(stack) \in Nat
      /\ \A i \in 1 .. Len(s) : s[i] = stack[i + 1]
  OBVIOUS
<1>2. stack' = <<"afterInitiateFault">> \o Tail(s) OBVIOUS
<1> HIDE DEF s
<1>3. s # <<>> /\ \A i \in 1 .. Len(s) : s[i] = "afterInitiate" BY <1>1 DEF Nested
<1>4. QED BY <1>1, <1>2, <1>3 DEF Nested, Frames

LEMMA Runs ==
  ASSUME NEW f \in Frames, Run(f)
  PROVE  stack' \in Seq(Frames) /\ stack' # <<>> /\ Head(stack') = f /\ Nested'
BY DEF Run, Nested

-----------------------------------------------------------------------------
(* What is left to show of a step *)

\* A function calls f, or an event does.
LEMMA AfterCall ==
  ASSUME Inv, NEW f \in Frames, f # "initiateAcc", panic = "none",
         (stack # <<>> /\ Call(f)) \/ Run(f),
         Shapes', Booleans', panic' = "none", Called(f)',
         halted' # {} => status' = "Idle", drain' # "Drained",
         ready' => ~stay' /\ f = "advanceInst" /\ Nothing',
         stay' => status' \notin DataStatuses /\ f \notin DataFrames
  PROVE  Inv'
<1>1. stack' \in Seq(Frames) /\ stack' # <<>> /\ Head(stack') = f /\ Nested'
  <2>1. CASE stack # <<>> /\ Call(f) BY <2>1, Calls DEF Inv, CoreInv, Chain, Nested
  <2>2. CASE Run(f) BY <2>2, Runs
  <2>3. QED BY <2>1, <2>2
<1>2. Chain' BY <1>1 DEF Chain, Nested, Top
<1>3. Threaded' BY DEF Threaded
<1>4. Effect' BY <1>1 DEF Effect, Top
<1>5. QED BY <1>1, <1>2, <1>3, <1>4 DEF Inv, CoreInv

\* A function returns.
LEMMA AfterReturn ==
  ASSUME Inv, panic = "none", stack # <<>>, Return,
         Shapes', Booleans', panic' = "none", Parked',
         halted' # {} => status' = "Idle", drain' # "Drained", ~ready',
         stay' => status' \notin DataStatuses
  PROVE  Inv'
<1>1. /\ stack' \in Seq(Frames) /\ Nested'
      /\ stack' # <<>> => Head(stack') = "afterInitiate"
  BY Returns DEF Inv, CoreInv, Chain, Nested
<1>2. CASE stack' = <<>>
  <2>1. Chain' BY <1>1, <1>2 DEF Chain, Nested, AtRest, Top
  <2>2. QED BY <1>1, <1>2, <2>1 DEF Inv, CoreInv, Threaded, Effect
<1>3. CASE stack' # <<>>
  <2>1. Chain' BY <1>1, <1>3 DEF Chain, Nested, Called, Top
  <2>2. Effect' BY <1>1, <1>3 DEF Effect, DataFrames
  <2>3. QED BY <1>1, <1>3, <2>1, <2>2 DEF Inv, CoreInv, Threaded
<1>4. QED BY <1>2, <1>3

\* An event calls nothing.
LEMMA AfterEvent ==
  ASSUME Inv, Event, UNCHANGED stack, Shapes', Booleans', panic' = "none", AtRest',
         halted' # {} => status' = "Idle", ~ready',
         drain' = "Drained" => status' \in {"Idle", "Running"} /\ Nothing',
         stay' => status' \notin DataStatuses
  PROVE  Inv'
<1>1. stack' = <<>> /\ stack' \in Seq(Frames) BY DEF Event, Inv
<1>2. Chain' BY <1>1 DEF Chain, Top
<1>3. Threaded' BY <1>1 DEF Threaded
<1>4. Effect' BY <1>1 DEF Effect
<1>5. QED BY <1>1, <1>2, <1>3, <1>4 DEF Inv, CoreInv

\* An assertion fails.
LEMMA AfterFail ==
  ASSUME Inv, NEW where, where # "none", Fail(where)
  PROVE  Inv'
<1>1. panic' # "none" BY DEF Fail
<1>2. UNCHANGED <<stack, fetchEvent, ready, stay>> BY DEF Fail, instVars
<1>3. UNCHANGED <<cur, active, halted, acc, frag, dcachePkt>>
  BY DEF Fail, threadVars, dataVars
<1>4. Booleans' BY <1>2 DEF Inv, Booleans
<1>5. Shapes' BY <1>3 DEF Inv, Shapes
<1>6. QED BY <1>1, <1>2, <1>4, <1>5 DEF Inv, CoreInv

\* What a function finds, and what an event finds.
LEMMA InFrame ==
  ASSUME Inv, NEW f, Top(f)
  PROVE  /\ panic = "none" /\ stack # <<>> /\ Called(f) /\ drain # "Drained"
         /\ halted # {} => status = "Idle"
         /\ ready => /\ ~stay /\ Nothing
                     /\ f = "advanceInst" \/ (f = "afterInitiate" /\ status = "Running")
         /\ stay => status \notin DataStatuses /\ f \notin DataFrames
         /\ f = "initiateAcc" => Len(stack) > 1
BY DEF Inv, CoreInv, Top, Chain, Threaded, Effect

LEMMA InEvent ==
  ASSUME Inv, Event
  PROVE  /\ panic = "none" /\ stack = <<>> /\ AtRest /\ ~ready
         /\ halted # {} => status = "Idle"
         /\ drain = "Drained" => status \in {"Idle", "Running"} /\ Nothing
         /\ stay => status \notin DataStatuses
BY DEF Inv, CoreInv, Event, Chain, Threaded, Effect, Top

-----------------------------------------------------------------------------
(* Threads, draining, fetch *)

LEMMA ActivateContextInv ==
  ASSUME OneThread, Inv, NEW t \in Threads, ActivateContext(t)
  PROVE  Inv'
<1>1. /\ Event /\ t \in halted /\ UNCHANGED <<stack, panic, cur, ready, stay>>
      /\ UNCHANGED <<icache, acc, frag, outstanding, dcachePkt>>
      /\ status' = IF status = "Idle" THEN "Running" ELSE status
      /\ halted' = halted \ {t} /\ active' = active \cup {t} /\ fetchEvent' = TRUE
      /\ drain' = IF drain = "Drained" THEN "Signalled" ELSE drain
  BY DEF ActivateContext, Activate, instVars, dataVars
<1>2. status = "Idle" /\ Nothing /\ ~ready /\ panic = "none"
  BY <1>1, InEvent DEF AtRest, Parked, InFetch, InAccess, InTranslation, InMemory, Stopped
<1>3. AtRest' BY <1>1, <1>2 DEF AtRest, Nothing, NoFetch, NoData, NoPacket, Icache
<1>4. halted' = {} /\ drain' # "Drained" /\ status' = "Running"
  BY <1>1, <1>2 DEF Inv, Shapes, OneThread
<1>5. Shapes' BY <1>1 DEF Inv, Shapes
<1>6. Booleans' BY <1>1 DEF Inv, Booleans
<1>7. QED BY <1>1, <1>2, <1>3, <1>4, <1>5, <1>6, AfterEvent DEF DataStatuses

LEMMA FetchEventInv == ASSUME Inv, FetchEvent PROVE Inv'
<1>1. /\ Event /\ fetchEvent /\ fetchEvent' = FALSE /\ Run("fetch")
      /\ UNCHANGED <<panic, status, drain, cur, active, halted, stay, ready>>
      /\ UNCHANGED <<icache, acc, frag, outstanding, dcachePkt>>
  BY DEF FetchEvent, threadVars, instVars, dataVars
<1>2. status \in {"Running", "Faulting"} /\ NoFetch /\ NoData /\ ~ready /\ panic = "none"
      /\ drain # "Drained" /\ halted = {}
  BY <1>1, InEvent DEF AtRest, Parked, InFetch, InAccess, InTranslation, InMemory, Stopped, Nothing
<1>3. Called("fetch")'
  BY <1>1, <1>2 DEF Called, FetchFrames, Nothing, NoFetch, NoData, NoPacket, Icache
<1>4. Shapes' BY <1>1 DEF Inv, Shapes
<1>5. Booleans' BY <1>1 DEF Inv, Booleans
<1>6. QED BY <1>1, <1>2, <1>3, <1>4, <1>5, AfterCall DEF Frames, DataFrames, DataStatuses

LEMMA FetchInv == ASSUME Inv, Fetch PROVE Inv'
<1>1. /\ Top("fetch") /\ Call("checkEvents") /\ cur' \in active \cup {cur}
      /\ UNCHANGED <<panic, status, fetchEvent, drain, active, halted, stay, ready>>
      /\ UNCHANGED <<icache, acc, frag, outstanding, dcachePkt>>
  BY DEF Fetch, SwapActiveThread, instVars, dataVars
<1>2. /\ panic = "none" /\ stack # <<>> /\ drain # "Drained" /\ ~ready
      /\ status \in {"Running", "Faulting"} /\ Nothing /\ halted = {}
  BY <1>1, InFrame DEF Called, FetchFrames, RunFrames
<1>3. Called("checkEvents")'
  BY <1>1, <1>2 DEF Called, FetchFrames, Nothing, NoFetch, NoData, NoPacket, Icache
<1>4. Shapes' BY <1>1 DEF Inv, Shapes
<1>5. Booleans' BY <1>1 DEF Inv, Booleans
<1>6. QED BY <1>1, <1>2, <1>3, <1>4, <1>5, AfterCall DEF Frames, DataFrames, DataStatuses

\* The only thread stops: the CPU is idle.
LEMMA Suspended ==
  ASSUME OneThread, Inv, cur \notin halted, SuspendContext(cur), ~fetchEvent
  PROVE  status' = "Idle" /\ fetchEvent' = FALSE /\ halted' \subseteq Threads /\ active' = {}
<1>1. active' = {} BY DEF SuspendContext, Inv, Shapes, OneThread
<1>2. halted' \subseteq Threads BY DEF SuspendContext, Inv, Shapes
<1>3. fetchEvent' = FALSE BY <1>1 DEF SuspendContext, Inv, Booleans
<1>4. status' = "Idle" BY <1>1 DEF SuspendContext
<1>5. QED BY <1>1, <1>2, <1>3, <1>4

LEMMA CheckEventsInv == ASSUME OneThread, Inv, CheckEvents PROVE Inv'
<1>1. /\ Top("checkEvents") /\ UNCHANGED <<panic, drain, cur, stay, ready>>
      /\ UNCHANGED <<icache, acc, frag, outstanding, dcachePkt>>
  BY DEF CheckEvents, instVars, dataVars
<1>2. /\ panic = "none" /\ stack # <<>> /\ drain # "Drained" /\ ~ready
      /\ status \in {"Running", "Faulting"} /\ Nothing /\ halted = {}
  BY <1>1, InFrame DEF Called, FetchFrames, RunFrames
<1>3. CASE UNCHANGED <<status, fetchEvent, active, halted>>
  <2>1. Call("translateFetch") BY <1>2, <1>3 DEF CheckEvents
  <2>2. Called("translateFetch")'
    BY <1>1, <1>2, <1>3 DEF Called, FetchFrames, Nothing, NoFetch, NoData, NoPacket, Icache
  <2>3. Shapes' BY <1>1, <1>3 DEF Inv, Shapes
  <2>4. Booleans' BY <1>1, <1>3 DEF Inv, Booleans
  <2>5. QED BY <1>1, <1>2, <1>3, <2>1, <2>2, <2>3, <2>4, AfterCall
    DEF Frames, DataFrames, DataStatuses
<1>4. CASE cur \notin halted /\ SuspendContext(cur)
  <2>1. status' = "Idle" /\ fetchEvent' = FALSE /\ halted' \subseteq Threads /\ active' = {}
    BY <1>2, <1>4, Suspended DEF Nothing
  <2>2. Return BY <2>1 DEF CheckEvents
  <2>3. Parked'
    BY <1>1, <1>2, <2>1 DEF Parked, Stopped, Nothing, NoFetch, NoData, NoPacket, Icache
  <2>4. Shapes' BY <1>1, <2>1 DEF Inv, Shapes
  <2>5. Booleans' BY <1>1, <2>1 DEF Inv, Booleans
  <2>6. QED BY <1>1, <1>2, <2>1, <2>2, <2>3, <2>4, <2>5, AfterReturn DEF DataStatuses
<1>5. QED BY <1>3, <1>4 DEF CheckEvents

LEMMA TranslateFetchInv == ASSUME Inv, TranslateFetch PROVE Inv'
<1>1. /\ Top("translateFetch")
      /\ UNCHANGED <<panic, fetchEvent, drain, cur, active, halted, stay, ready>>
      /\ UNCHANGED <<acc, frag, outstanding, dcachePkt>>
  BY DEF TranslateFetch, threadVars, instVars, dataVars
<1>2. /\ panic = "none" /\ stack # <<>> /\ drain # "Drained" /\ ~ready
      /\ status \in {"Running", "Faulting"} /\ Nothing /\ halted = {}
  BY <1>1, InFrame DEF Called, FetchFrames, RunFrames
<1>3. Shapes' BY <1>1 DEF Inv, Shapes
<1>4. Booleans' BY <1>1 DEF Inv, Booleans
<1>5. CASE status' = "IcacheWaitResponse" /\ Call("completeIfetch") /\ UNCHANGED icache
  <2>1. Called("completeIfetch")'
    BY <1>1, <1>2, <1>5 DEF Called, Nothing, NoFetch, NoData, NoPacket, Icache
  <2>2. QED BY <1>1, <1>2, <1>3, <1>4, <1>5, <2>1, AfterCall
    DEF Frames, DataFrames, DataStatuses
<1>6. ASSUME status' = "Running", UNCHANGED icache, NEW f \in {"fetchFault", "sendFetch"}, Call(f)
      PROVE  Inv'
  <2>1. Called(f)'
    BY <1>1, <1>2, <1>6 DEF Called, Nothing, NoFetch, NoData, NoPacket, Icache
  <2>2. f \in Frames /\ f \notin DataFrames /\ f # "initiateAcc" BY <1>6 DEF Frames, DataFrames
  <2>3. QED BY <1>1, <1>2, <1>3, <1>4, <1>6, <2>1, <2>2, AfterCall DEF DataStatuses
<1>7. CASE status' = "ITBWaitResponse" /\ icache' = [icache EXCEPT !.walks = @ + 1] /\ Return
  <2>1. Icache(1, FALSE, 0, FALSE)'
    <3>1. icache.walks + 1 = 1 BY <1>2 DEF Nothing, NoFetch, Icache
    <3>2. icache' = [icache EXCEPT !.walks = 1] BY <1>7, <3>1
    <3>3. QED BY <1>2, <3>2 DEF Nothing, NoFetch, Icache
  <2>2. Parked' BY <1>1, <1>2, <1>7, <2>1 DEF Parked, InFetch, Nothing, NoData, NoPacket
  <2>3. QED BY <1>1, <1>2, <1>3, <1>4, <1>7, <2>2, AfterReturn DEF DataStatuses
<1>8. QED BY <1>5, <1>6, <1>7 DEF TranslateFetch

LEMMA FinishFetchTranslationInv == ASSUME Inv, FinishFetchTranslation PROVE Inv'
<1>1. /\ Event /\ icache.walks > 0 /\ icache' = [icache EXCEPT !.walks = @ - 1]
      /\ UNCHANGED <<status, panic, fetchEvent, drain, cur, active, halted, stay, ready>>
      /\ UNCHANGED <<acc, frag, outstanding, dcachePkt>>
  BY DEF FinishFetchTranslation, threadVars, instVars, dataVars
<1>2. PICK f \in {"fetchFault", "sendFetch"} : Run(f) BY DEF FinishFetchTranslation
<1>3. /\ status = "ITBWaitResponse" /\ Icache(1, FALSE, 0, FALSE) /\ ~fetchEvent /\ NoData
      /\ ~ready /\ panic = "none" /\ drain # "Drained" /\ halted = {}
  BY <1>1, InEvent DEF AtRest, Parked, InFetch, InAccess, Stopped, Nothing, NoFetch, Icache
<1>4. NoFetch'
  <2>1. icache.walks - 1 = 0 BY <1>3 DEF Icache
  <2>2. icache' = [icache EXCEPT !.walks = 0] BY <1>1, <2>1
  <2>3. QED BY <1>3, <2>2 DEF NoFetch, Icache
<1>5. Called(f)' BY <1>1, <1>2, <1>3, <1>4 DEF Called, Nothing, NoData, NoPacket
<1>6. Shapes' BY <1>1 DEF Inv, Shapes
<1>7. Booleans' BY <1>1 DEF Inv, Booleans
<1>8. f \in Frames /\ f \notin DataFrames /\ f # "initiateAcc" BY <1>2 DEF Frames, DataFrames
<1>9. QED BY <1>1, <1>2, <1>3, <1>5, <1>6, <1>7, <1>8, AfterCall DEF DataStatuses

LEMMA SendFetchInv == ASSUME Inv, SendFetch PROVE Inv'
<1>1. UNCHANGED <<panic, fetchEvent, drain, cur, active, halted, stay, ready>>
      /\ UNCHANGED <<acc, frag, outstanding, dcachePkt>>
  BY DEF SendFetch, threadVars, instVars, dataVars
<1>2. /\ panic = "none" /\ stack # <<>> /\ drain # "Drained" /\ ~ready /\ Nothing /\ halted = {}
  BY InFrame DEF SendFetch, Called, FetchFrames, RunFrames
<1>3. Shapes' BY <1>1 DEF Inv, Shapes
<1>4. Booleans' BY <1>1 DEF Inv, Booleans
<1>5. CASE Top("sendFetch")
  <2>1. Return BY <1>5 DEF SendFetch, Top
  <2>2. \/ status' = "IcacheRetry" /\ Icache(0, TRUE, 0, FALSE)'
        \/ status' = "IcacheWaitResponse" /\ Icache(0, FALSE, 1, FALSE)'
    <3>1. icache.sent + 1 = 1 BY <1>2 DEF Nothing, NoFetch, Icache
    <3>2. \/ status' = "IcacheRetry" /\ icache' = [icache EXCEPT !.retry = TRUE]
          \/ /\ status' = "IcacheWaitResponse"
             /\ icache' = [icache EXCEPT !.retry = FALSE, !.sent = 1]
      BY <1>5, <3>1 DEF SendFetch, Top
    <3>3. QED BY <1>2, <3>2 DEF Nothing, NoFetch, Icache
  <2>3. Parked' BY <1>1, <1>2, <2>2 DEF Parked, InFetch, Nothing, NoData, NoPacket
  <2>4. QED BY <1>1, <1>2, <1>3, <1>4, <2>1, <2>2, <2>3, AfterReturn DEF DataStatuses
<1>6. CASE Top("fetchFault")
  <2>1. status' = "Running" /\ Call("advanceFault") /\ UNCHANGED icache
    BY <1>6 DEF SendFetch, Top
  <2>2. Called("advanceFault")'
    BY <1>1, <1>2, <2>1 DEF Called, RunFrames, Nothing, NoFetch, NoData, NoPacket, Icache
  <2>3. QED BY <1>1, <1>2, <1>3, <1>4, <2>1, <2>2, AfterCall
    DEF Frames, DataFrames, DataStatuses
<1>7. QED BY <1>5, <1>6 DEF SendFetch

LEMMA IcacheRetryInv == ASSUME Inv, IcacheRetry PROVE Inv'
<1>1. CASE status # "IcacheRetry" BY <1>1, AfterFail DEF IcacheRetry
<1>2. CASE status = "IcacheRetry"
  <2>1. /\ Event /\ status' = "IcacheWaitResponse"
        /\ icache' = [icache EXCEPT !.retry = FALSE, !.sent = @ + 1]
        /\ UNCHANGED <<stack, panic, fetchEvent, drain, cur, active, halted, stay, ready>>
        /\ UNCHANGED <<acc, frag, outstanding, dcachePkt>>
    BY <1>2 DEF IcacheRetry, threadVars, instVars, dataVars
  <2>2. /\ Icache(0, TRUE, 0, FALSE) /\ ~fetchEvent /\ NoData
        /\ ~ready /\ panic = "none" /\ drain # "Drained" /\ halted = {}
    BY <1>2, <2>1, InEvent DEF AtRest, Parked, InFetch, InAccess, InTranslation, InMemory, Stopped
  <2>3. Icache(0, FALSE, 1, FALSE)'
    <3>1. icache.sent + 1 = 1 BY <2>2 DEF Icache
    <3>2. icache' = [icache EXCEPT !.retry = FALSE, !.sent = 1] BY <2>1, <3>1
    <3>3. QED BY <2>2, <3>2 DEF Icache
  <2>4. AtRest' BY <2>1, <2>2, <2>3 DEF AtRest, Parked, InFetch, NoData, NoPacket
  <2>5. Shapes' BY <2>1 DEF Inv, Shapes
  <2>6. Booleans' BY <2>1 DEF Inv, Booleans
  <2>7. QED BY <2>1, <2>2, <2>4, <2>5, <2>6, AfterEvent DEF DataStatuses
<1>3. QED BY <1>1, <1>2

LEMMA IcacheResponseInv == ASSUME Inv, IcacheResponse PROVE Inv'
<1>1. CASE icache.tick BY <1>1, AfterFail DEF IcacheResponse
<1>2. CASE ~icache.tick
  <2>1. /\ Event /\ icache.sent > 0 /\ icache' = [icache EXCEPT !.sent = @ - 1, !.tick = TRUE]
        /\ UNCHANGED <<status, stack, panic, fetchEvent, drain, cur, active, halted, stay, ready>>
        /\ UNCHANGED <<acc, frag, outstanding, dcachePkt>>
    BY <1>2 DEF IcacheResponse, cpuVars, threadVars, instVars, dataVars
  <2>2. /\ status = "IcacheWaitResponse" /\ Icache(0, FALSE, 1, FALSE) /\ ~fetchEvent /\ NoData
        /\ ~ready /\ panic = "none" /\ drain # "Drained" /\ halted = {}
    BY <1>2, <2>1, InEvent DEF AtRest, Parked, InFetch, InAccess, Stopped, Nothing, NoFetch, Icache
  <2>3. Icache(0, FALSE, 0, TRUE)'
    <3>1. icache.sent - 1 = 0 BY <2>2 DEF Icache
    <3>2. icache' = [icache EXCEPT !.sent = 0, !.tick = TRUE] BY <2>1, <3>1
    <3>3. QED BY <2>2, <3>2 DEF Icache
  <2>4. AtRest' BY <2>1, <2>2, <2>3 DEF AtRest, Parked, InFetch, NoData, NoPacket
  <2>5. Shapes' BY <2>1 DEF Inv, Shapes
  <2>6. Booleans' BY <2>1 DEF Inv, Booleans
  <2>7. QED BY <2>1, <2>2, <2>4, <2>5, <2>6, AfterEvent DEF DataStatuses
<1>3. QED BY <1>1, <1>2

LEMMA IcacheTickInv == ASSUME Inv, IcacheTick PROVE Inv'
<1>1. /\ Event /\ icache.tick /\ icache' = [icache EXCEPT !.tick = FALSE]
      /\ Run("completeIfetch")
      /\ UNCHANGED <<status, panic, fetchEvent, drain, cur, active, halted, stay, ready>>
      /\ UNCHANGED <<acc, frag, outstanding, dcachePkt>>
  BY DEF IcacheTick, threadVars, instVars, dataVars
<1>2. /\ status = "IcacheWaitResponse" /\ Icache(0, FALSE, 0, TRUE) /\ ~fetchEvent /\ NoData
      /\ ~ready /\ panic = "none" /\ drain # "Drained" /\ halted = {}
  BY <1>1, InEvent DEF AtRest, Parked, InFetch, InAccess, Stopped, Nothing, NoFetch, Icache
<1>3. NoFetch' BY <1>1, <1>2 DEF NoFetch, Icache
<1>4. Called("completeIfetch")' BY <1>1, <1>2, <1>3 DEF Called, Nothing, NoData, NoPacket
<1>5. Shapes' BY <1>1 DEF Inv, Shapes
<1>6. Booleans' BY <1>1 DEF Inv, Booleans
<1>7. QED BY <1>1, <1>2, <1>4, <1>5, <1>6, AfterCall DEF Frames, DataFrames, DataStatuses

-----------------------------------------------------------------------------
(* Draining *)

LEMMA DrainInv == ASSUME Inv, Drain PROVE Inv'
<1>1. /\ Event /\ drain # "Drained"
      /\ UNCHANGED <<status, stack, panic, cur, halted, stay, ready>>
      /\ UNCHANGED <<icache, acc, frag, outstanding, dcachePkt>>
  BY DEF Drain, instVars, dataVars
<1>2. AtRest /\ ~ready /\ panic = "none"
      /\ (stay => status \notin DataStatuses) /\ (halted # {} => status = "Idle")
  BY <1>1, InEvent
<1>3. CASE status = "Idle" \/ (status = "Running" /\ IsCpuDrained)
  <2>1. drain' = "Drained" /\ active' = {} /\ UNCHANGED fetchEvent BY <1>3 DEF Drain
  <2>2. Nothing /\ status \in {"Idle", "Running"}
    BY <1>2, <1>3
    DEF AtRest, Parked, InFetch, InAccess, InTranslation, InMemory, Stopped, IsCpuDrained
  <2>3. Nothing' BY <1>1, <2>1, <2>2 DEF Nothing, NoFetch, NoData, NoPacket, Icache
  <2>4. AtRest' BY <1>1, <2>1, <2>2, <2>3 DEF AtRest, Parked, Stopped
  <2>5. Shapes' BY <1>1, <2>1 DEF Inv, Shapes
  <2>6. Booleans' BY <1>1, <2>1 DEF Inv, Booleans
  <2>7. QED BY <1>1, <1>2, <2>1, <2>2, <2>3, <2>4, <2>5, <2>6, AfterEvent
<1>4. CASE ~(status = "Idle" \/ (status = "Running" /\ IsCpuDrained))
  <2>1. drain' = "Draining" /\ UNCHANGED active /\ fetchEvent' = (fetchEvent \/ status = "Running")
    BY <1>4 DEF Drain
  <2>2. Shapes' BY <1>1, <2>1 DEF Inv, Shapes
  <2>3. Booleans' BY <1>1, <2>1 DEF Inv, Booleans
  <2>4. CASE status = "Running"
    <3>1. fetchEvent' = TRUE BY <2>1, <2>4
    <3>2. NoFetch /\ NoData
      BY <1>2, <2>4
      DEF AtRest, Parked, InFetch, InAccess, InTranslation, InMemory, Stopped, Nothing
    <3>3. AtRest' BY <1>1, <2>4, <3>1, <3>2 DEF AtRest, NoFetch, NoData, NoPacket, Icache
    <3>4. QED BY <1>1, <1>2, <2>1, <2>2, <2>3, <3>3, AfterEvent
  <2>5. CASE status # "Running"
    <3>1. UNCHANGED fetchEvent BY <2>1, <2>5 DEF Inv, Booleans
    <3>2. InFetch \/ InAccess \/ (Stopped /\ status # "Running")
      BY <1>2, <2>5 DEF AtRest, Parked
    <3>3. Parked'
      <4>1. InFetch => InFetch' BY <1>1, <3>1 DEF InFetch, NoData, NoPacket, Icache
      <4>2. InAccess => InAccess'
        BY <1>1, <3>1
        DEF InAccess, InTranslation, InMemory, Counted, Unsent, NoFetch, NoPacket, Icache
      <4>3. Stopped /\ status # "Running" => Stopped'
        BY <1>1, <3>1 DEF Stopped, Nothing, NoFetch, NoData, NoPacket, Icache
      <4>4. QED BY <3>2, <4>1, <4>2, <4>3 DEF Parked
    <3>4. QED BY <1>1, <1>2, <2>1, <2>2, <2>3, <3>3, AfterEvent DEF AtRest
  <2>6. QED BY <2>4, <2>5
<1>5. QED BY <1>3, <1>4

LEMMA DrainResumeInv == ASSUME OneThread, Inv, DrainResume PROVE Inv'
<1>1. CASE fetchEvent BY <1>1, AfterFail DEF DrainResume
<1>2. CASE ~fetchEvent
  <2>1. /\ Event /\ drain = "Drained" /\ drain' = "Running" /\ active' = Threads \ halted
        /\ status' = IF active' = {} THEN "Idle" ELSE "Running"
        /\ fetchEvent' = (active' # {})
        /\ UNCHANGED <<stack, panic, cur, halted, stay, ready>>
        /\ UNCHANGED <<icache, acc, frag, outstanding, dcachePkt>>
    BY <1>2 DEF DrainResume, instVars, dataVars
  <2>2. Nothing /\ ~ready /\ panic = "none" /\ (halted # {} => status = "Idle")
    BY <2>1, InEvent
  <2>3. AtRest'
    BY <2>1, <2>2 DEF AtRest, Parked, Stopped, Nothing, NoFetch, NoData, NoPacket, Icache
  <2>4. Shapes' BY <2>1 DEF Inv, Shapes
  <2>5. Booleans' BY <2>1 DEF Inv, Booleans
  <2>6. halted' # {} => status' = "Idle"
    BY <2>1 DEF Inv, Shapes, OneThread
  <2>7. QED BY <2>1, <2>2, <2>3, <2>4, <2>5, <2>6, AfterEvent DEF DataStatuses
<1>3. QED BY <1>1, <1>2

-----------------------------------------------------------------------------
(* Execution *)

LEMMA CompleteIfetchInv == ASSUME Inv, CompleteIfetch PROVE Inv'
<1>1. CASE status # "IcacheWaitResponse" BY <1>1, AfterFail DEF CompleteIfetch
<1>2. CASE status = "IcacheWaitResponse"
  <2>1. /\ Top("completeIfetch")
        /\ UNCHANGED <<panic, fetchEvent, drain, cur, active, halted, icache>>
        /\ UNCHANGED <<acc, frag, outstanding, dcachePkt>>
    BY <1>2 DEF CompleteIfetch, threadVars, dataVars
  <2>2. /\ panic = "none" /\ stack # <<>> /\ drain # "Drained" /\ Nothing /\ halted = {}
    BY <1>2, <2>1, InFrame DEF Called, FetchFrames, RunFrames
  <2>3. PICK next \in Decoded :
          /\ status' = "Running" /\ inst' = next.op /\ stay' = next.stay /\ ready' = FALSE
          /\ stack' = (CASE next.op \in MemOps -> <<"initiateAcc", "afterInitiate">>
                         [] next.op = "none" -> <<"advanceInst">>
                         [] OTHER -> <<"execute">>) \o Tail(stack)
    BY <1>2 DEF CompleteIfetch
  <2>4. next.stay \in BOOLEAN /\ (next.stay => next.op = "none")
    <3>1. \/ next \in [op : Ops, macro : {macro[cur] - 1}, stay : {FALSE}]
          \/ next \in [op : Ops, macro : 0..MaxMicro, stay : {FALSE}]
          \/ next = [op |-> "none", macro |-> 0, stay |-> TRUE]
      BY DEF Decoded
    <3>2. ASSUME NEW M, next \in [op : Ops, macro : M, stay : {FALSE}] PROVE next.stay = FALSE
      BY <3>2
    <3>3. next = [op |-> "none", macro |-> 0, stay |-> TRUE] => next.stay = TRUE /\ next.op = "none"
      OBVIOUS
    <3>4. QED BY <3>1, <3>2, <3>3
  <2>5. Shapes' BY <2>1 DEF Inv, Shapes
  <2>6. Booleans' BY <2>1, <2>3, <2>4 DEF Inv, Booleans
  <2>7. Nothing' BY <2>1, <2>2 DEF Nothing, NoFetch, NoData, NoPacket, Icache
  <2>8. CASE next.op = "none"
    <3>1. Call("advanceInst") BY <2>3, <2>8 DEF MemOps, Call
    <3>2. Called("advanceInst")' BY <2>3, <2>7 DEF Called
    <3>3. QED BY <2>1, <2>2, <2>3, <2>5, <2>6, <3>1, <3>2, AfterCall
      DEF Frames, DataFrames, DataStatuses
  <2>9. CASE next.op \notin MemOps /\ next.op # "none"
    <3>1. Call("execute") BY <2>3, <2>9 DEF Call
    <3>2. Called("execute")' BY <2>3, <2>7 DEF Called, RunFrames
    <3>3. QED BY <2>1, <2>2, <2>3, <2>4, <2>5, <2>6, <2>9, <3>1, <3>2, AfterCall
      DEF Frames, DataFrames, DataStatuses
  <2>10. CASE next.op \in MemOps
    <3>1. stack' = <<"initiateAcc", "afterInitiate">> \o Tail(stack) BY <2>3, <2>10 DEF MemOps
    <3>2. stack \in Seq(Frames) /\ Nested
      BY <2>2 DEF Inv, CoreInv, Chain, Nested
    <3>3. /\ stack' \in Seq(Frames) /\ stack' # <<>> /\ Head(stack') = "initiateAcc"
          /\ Len(stack') > 1 /\ Nested'
      BY <2>2, <3>1, <3>2, MemCalled
    <3>4. Called("initiateAcc")' BY <2>3, <2>7 DEF Called, RunFrames
    <3>5. Chain' BY <2>3, <2>10, <3>3, <3>4 DEF Chain, Nested, Top
    <3>6. ~stay' BY <2>3, <2>4, <2>10 DEF MemOps
    <3>7. Threaded' /\ Effect' BY <2>1, <2>2, <2>3, <3>6 DEF Threaded, Effect, Top
    <3>8. QED BY <2>5, <2>6, <3>3, <3>5, <3>7 DEF Inv, CoreInv
  <2>11. QED BY <2>8, <2>9, <2>10
<1>3. QED BY <1>1, <1>2

LEMMA ExecuteInv == ASSUME OneThread, Inv, Execute PROVE Inv'
<1>1. /\ Top("execute") /\ UNCHANGED <<panic, drain, cur, stay>>
      /\ UNCHANGED <<icache, acc, frag, outstanding, dcachePkt>>
  BY DEF Execute, dataVars
<1>2. /\ panic = "none" /\ stack # <<>> /\ drain # "Drained" /\ ~ready /\ ~stay
      /\ status = "Running" /\ Nothing /\ halted = {}
  BY <1>1, InFrame DEF Called, FetchFrames, RunFrames, DataFrames
<1>3. CASE ready' = TRUE /\ Call("advanceInst") /\ UNCHANGED <<status, fetchEvent, active, halted>>
  <2>1. Nothing' BY <1>1, <1>2, <1>3 DEF Nothing, NoFetch, NoData, NoPacket, Icache
  <2>2. Called("advanceInst")' BY <1>2, <1>3, <2>1 DEF Called
  <2>3. Shapes' BY <1>1, <1>3 DEF Inv, Shapes
  <2>4. Booleans' BY <1>1, <1>3 DEF Inv, Booleans
  <2>5. QED BY <1>1, <1>2, <1>3, <2>1, <2>2, <2>3, <2>4, AfterCall DEF Frames, DataFrames
<1>4. CASE ready' = TRUE /\ Call("advanceInst") /\ cur \notin halted /\ SuspendContext(cur)
  <2>1. status' = "Idle" /\ fetchEvent' = FALSE /\ halted' \subseteq Threads /\ active' = {}
    BY <1>2, <1>4, Suspended DEF Nothing
  <2>2. Nothing' BY <1>1, <1>2, <2>1 DEF Nothing, NoFetch, NoData, NoPacket, Icache
  <2>3. Called("advanceInst")' BY <2>1, <2>2 DEF Called
  <2>4. Shapes' BY <1>1, <2>1 DEF Inv, Shapes
  <2>5. Booleans' BY <1>1, <1>4, <2>1 DEF Inv, Booleans
  <2>6. QED BY <1>1, <1>2, <1>4, <2>1, <2>2, <2>3, <2>4, <2>5, AfterCall DEF Frames, DataFrames
<1>5. CASE Call("advanceFault") /\ UNCHANGED <<ready, status, fetchEvent, active, halted>>
  <2>1. Called("advanceFault")'
    BY <1>1, <1>2, <1>5 DEF Called, RunFrames, Nothing, NoFetch, NoData, NoPacket, Icache
  <2>2. Shapes' BY <1>1, <1>5 DEF Inv, Shapes
  <2>3. Booleans' BY <1>1, <1>5 DEF Inv, Booleans
  <2>4. QED BY <1>1, <1>2, <1>5, <2>1, <2>2, <2>3, AfterCall DEF Frames, DataFrames
<1>6. QED BY <1>3, <1>4, <1>5 DEF Execute

LEMMA AfterInitiateInv == ASSUME Inv, AfterInitiate PROVE Inv'
<1>1. /\ UNCHANGED <<panic, status, fetchEvent, drain, cur, active, halted, inst, stay, ready>>
      /\ UNCHANGED <<icache, acc, frag, outstanding, dcachePkt>>
  BY DEF AfterInitiate, threadVars, instVars, dataVars
<1>2. Shapes' BY <1>1 DEF Inv, Shapes
<1>3. Booleans' BY <1>1 DEF Inv, Booleans
<1>4. CASE Top("afterInitiateFault")
  <2>1. /\ panic = "none" /\ stack # <<>> /\ drain # "Drained" /\ ~ready
        /\ status = "Running" /\ Nothing /\ halted = {}
    BY <1>4, InFrame DEF Called, FetchFrames, RunFrames
  <2>2. Call("advanceFault") BY <1>4, <2>1 DEF AfterInitiate, Top
  <2>3. Called("advanceFault")'
    BY <1>1, <2>1 DEF Called, RunFrames, Nothing, NoFetch, NoData, NoPacket, Icache
  <2>4. QED BY <1>1, <1>2, <1>3, <2>1, <2>2, <2>3, AfterCall DEF Frames, DataFrames, DataStatuses
<1>5. CASE Top("afterInitiate") /\ status = "Running"
  <2>1. /\ panic = "none" /\ stack # <<>> /\ drain # "Drained" /\ Nothing /\ halted = {}
        /\ ready => ~stay
    BY <1>5, InFrame
    DEF Called, FetchFrames, RunFrames, Parked, InFetch, InAccess, InTranslation, InMemory, Stopped
  <2>2. Call("advanceInst") BY <1>5 DEF AfterInitiate, Top
  <2>3. Nothing' BY <1>1, <2>1 DEF Nothing, NoFetch, NoData, NoPacket, Icache
  <2>4. Called("advanceInst")' BY <1>1, <1>5, <2>3 DEF Called
  <2>5. QED BY <1>1, <1>2, <1>3, <1>5, <2>1, <2>2, <2>3, <2>4, AfterCall
    DEF Frames, DataFrames, DataStatuses
<1>6. CASE Top("afterInitiate") /\ status # "Running"
  <2>1. /\ panic = "none" /\ stack # <<>> /\ drain # "Drained" /\ Parked
        /\ (halted # {} => status = "Idle") /\ (stay => status \notin DataStatuses) /\ ~ready
    BY <1>6, InFrame DEF Called, FetchFrames, RunFrames
  <2>2. Return BY <1>6 DEF AfterInitiate, Top
  <2>3. Parked'
    BY <1>1, <2>1
    DEF Parked, InFetch, InAccess, InTranslation, InMemory, Stopped, Counted, Unsent, Nothing,
        NoFetch, NoData, NoPacket, Icache
  <2>4. QED BY <1>1, <1>2, <1>3, <2>1, <2>2, <2>3, AfterReturn
<1>7. QED BY <1>4, <1>5, <1>6 DEF AfterInitiate

LEMMA AdvanceInstInv == ASSUME Inv, AdvanceInst PROVE Inv'
<1>1. /\ Top("advanceInst")
      /\ UNCHANGED <<status, panic, fetchEvent, cur, active, halted, stay>>
      /\ UNCHANGED <<icache, acc, frag, outstanding, dcachePkt>>
  BY DEF AdvanceInst, threadVars, dataVars
<1>2. /\ panic = "none" /\ stack # <<>> /\ drain # "Drained" /\ Nothing
      /\ status \in {"Running", "Idle"} /\ (halted # {} => status = "Idle") /\ (ready => ~stay)
  BY <1>1, InFrame DEF Called, FetchFrames, RunFrames
<1>3. ready' = FALSE BY <1>2 DEF AdvanceInst
<1>4. Shapes' BY <1>1 DEF Inv, Shapes
<1>5. Booleans' BY <1>1, <1>3 DEF Inv, Booleans
<1>6. Nothing' BY <1>1, <1>2 DEF Nothing, NoFetch, NoData, NoPacket, Icache
<1>7. CASE Return /\ (drain' = "Signalled" \/ (status = "Idle" /\ UNCHANGED drain))
  <2>1. Parked' BY <1>1, <1>2, <1>6, <1>7 DEF Parked, Stopped
  <2>2. QED BY <1>1, <1>2, <1>3, <1>4, <1>5, <1>7, <2>1, AfterReturn DEF DataStatuses
<1>8. CASE Call("fetch") /\ status = "Running" /\ UNCHANGED drain
  <2>1. Called("fetch")' BY <1>1, <1>6, <1>8 DEF Called, FetchFrames
  <2>2. QED BY <1>1, <1>2, <1>3, <1>4, <1>5, <1>8, <2>1, AfterCall
    DEF Frames, DataFrames, DataStatuses
<1>9. QED BY <1>2, <1>7, <1>8 DEF AdvanceInst

LEMMA AdvanceFaultInv == ASSUME OneThread, Inv, AdvanceFault PROVE Inv'
<1>1. /\ Top("advanceFault") /\ Return /\ UNCHANGED <<panic, drain, cur, inst, stay>>
      /\ UNCHANGED <<icache, acc, frag, outstanding, dcachePkt>>
  BY DEF AdvanceFault, dataVars
<1>2. /\ panic = "none" /\ stack # <<>> /\ drain # "Drained" /\ ~ready
      /\ status = "Running" /\ Nothing /\ halted = {}
  BY <1>1, InFrame DEF Called, FetchFrames, RunFrames
<1>3. ready' = FALSE BY <1>2 DEF AdvanceFault
<1>4. CASE status' = "Faulting" /\ fetchEvent' = TRUE /\ UNCHANGED <<active, halted>>
  <2>1. Parked' BY <1>1, <1>2, <1>4 DEF Parked, Stopped, Nothing, NoFetch, NoData, NoPacket, Icache
  <2>2. Shapes' BY <1>1, <1>4 DEF Inv, Shapes
  <2>3. Booleans' BY <1>1, <1>3, <1>4 DEF Inv, Booleans
  <2>4. QED BY <1>1, <1>2, <1>3, <1>4, <2>1, <2>2, <2>3, AfterReturn DEF DataStatuses
<1>5. CASE /\ active' = active \ {cur} /\ halted' = halted \cup {cur}
           /\ status' = IF active' = {} THEN "Idle" ELSE "Faulting"
           /\ fetchEvent' = (active' # {})
  <2>1. active' = {} BY <1>5 DEF Inv, Shapes, OneThread
  <2>2. status' = "Idle" /\ fetchEvent' = FALSE BY <1>5, <2>1
  <2>3. Parked' BY <1>1, <1>2, <2>2 DEF Parked, Stopped, Nothing, NoFetch, NoData, NoPacket, Icache
  <2>4. Shapes' BY <1>1, <1>5, <2>1 DEF Inv, Shapes
  <2>5. Booleans' BY <1>1, <1>3, <2>2 DEF Inv, Booleans
  <2>6. QED BY <1>1, <1>2, <1>3, <2>2, <2>3, <2>4, <2>5, AfterReturn DEF DataStatuses
<1>6. QED BY <1>2, <1>4, <1>5 DEF AdvanceFault

-----------------------------------------------------------------------------
(* Data accesses *)

LEMMA StartTranslationInv ==
  ASSUME Inv, Top("initiateAcc"), NEW split \in BOOLEAN, StartTranslation(split)
  PROVE  Inv'
<1>1. /\ status' = "DTBWaitResponse" /\ acc' = MarkedAccess(split) /\ Call("translateData")
      /\ UNCHANGED <<panic, fetchEvent, drain, cur, active, halted, stay, ready, icache>>
      /\ UNCHANGED <<frag, outstanding, dcachePkt>>
  BY DEF StartTranslation, threadVars, instVars
<1>2. /\ panic = "none" /\ stack # <<>> /\ drain # "Drained" /\ ~ready /\ ~stay
      /\ Nothing /\ halted = {}
  BY InFrame DEF Called, FetchFrames, RunFrames, DataFrames
<1>3. acc'.walk = Pieces(split) /\ Pieces(split) # {} /\ Pieces(split) \subseteq {1, 2}
  BY <1>1 DEF MarkedAccess, Pieces
<1>4. acc' \in [split : BOOLEAN, walk : SUBSET {1, 2}, fault : BOOLEAN, barrier : {acc'.barrier}]
  BY <1>1, <1>3 DEF MarkedAccess
<1>5. Shapes' BY <1>1, <1>4 DEF Inv, Shapes
<1>6. Booleans' BY <1>1 DEF Inv, Booleans
<1>7. Called("translateData")'
  BY <1>1, <1>2, <1>3 DEF Called, InTranslation, Nothing, NoFetch, NoData, NoPacket, Icache
<1>8. QED BY <1>1, <1>2, <1>5, <1>6, <1>7, AfterCall DEF Frames, DataFrames

LEMMA InitiateInv ==
  ASSUME Inv, InitiateMemRead \/ WriteMem \/ InitiateMemAMO PROVE Inv'
<1>1. Top("initiateAcc") /\ \E split \in BOOLEAN : StartTranslation(split)
  BY DEF InitiateMemRead, WriteMem, InitiateMemAMO, CrossesLine
<1>2. QED BY <1>1, StartTranslationInv

LEMMA InitiateMemMgmtCmdInv == ASSUME Inv, InitiateMemMgmtCmd PROVE Inv'
<1>1. /\ Top("initiateAcc") /\ inst = "mgmt" /\ acc' = NoAccess /\ Call("sendData")
      /\ UNCHANGED <<panic, status, fetchEvent, drain, cur, active, halted, inst, stay, ready, icache>>
      /\ UNCHANGED <<frag, outstanding, dcachePkt>>
  BY DEF InitiateMemMgmtCmd, threadVars, instVars
<1>2. /\ panic = "none" /\ stack # <<>> /\ drain # "Drained" /\ ~ready /\ ~stay
      /\ status = "Running" /\ Nothing /\ halted = {}
  BY <1>1, InFrame DEF Called, FetchFrames, RunFrames, DataFrames
<1>3. Shapes' BY <1>1 DEF Inv, Shapes, NoAccess
<1>4. Booleans' BY <1>1 DEF Inv, Booleans
<1>5. Called("sendData")'
  BY <1>1, <1>2 DEF Called, RunFrames, Nothing, NoFetch, NoData, NoPacket, Icache, NoAccess
<1>6. QED BY <1>1, <1>2, <1>3, <1>4, <1>5, AfterCall DEF Frames, MemOps

LEMMA InitiateNothingInv == ASSUME Inv, InitiateNothing PROVE Inv'
<1>1. /\ Top("initiateAcc")
      /\ UNCHANGED <<panic, status, fetchEvent, drain, cur, active, halted, inst, stay, icache>>
      /\ UNCHANGED <<acc, frag, outstanding, dcachePkt>>
  BY DEF InitiateNothing, threadVars, dataVars
<1>2. /\ panic = "none" /\ stack # <<>> /\ drain # "Drained" /\ ~ready /\ ~stay
      /\ status = "Running" /\ Nothing /\ halted = {} /\ Len(stack) > 1
  BY <1>1, InFrame DEF Called, FetchFrames, RunFrames, DataFrames
<1>3. Shapes' BY <1>1 DEF Inv, Shapes
<1>4. Nothing' BY <1>1, <1>2 DEF Nothing, NoFetch, NoData, NoPacket, Icache
<1>5. stack \in Seq(Frames) /\ Nested BY <1>2 DEF Inv, CoreInv, Chain, Nested
<1>6. CASE ready' = TRUE /\ Return
  <2>1. stack' \in Seq(Frames) /\ Nested' /\ stack' # <<>> /\ Head(stack') = "afterInitiate"
    BY <1>2, <1>5, <1>6, Returns
  <2>2. Booleans' BY <1>1, <1>6 DEF Inv, Booleans
  <2>3. Chain' BY <1>1, <1>2, <1>4, <2>1 DEF Chain, Nested, Called, Top
  <2>4. Threaded' /\ Effect' BY <1>1, <1>2, <1>4, <1>6, <2>1 DEF Threaded, Effect, Top
  <2>5. QED BY <1>3, <2>1, <2>2, <2>3, <2>4 DEF Inv, CoreInv
<1>7. CASE stack' = <<"afterInitiateFault">> \o Tail(Tail(stack)) /\ UNCHANGED ready
  <2>1. /\ stack' \in Seq(Frames) /\ Nested' /\ stack' # <<>>
        /\ Head(stack') = "afterInitiateFault"
    BY <1>2, <1>5, <1>7, FaultCalled
  <2>2. Booleans' BY <1>1, <1>7 DEF Inv, Booleans
  <2>3. Called("afterInitiateFault")' BY <1>1, <1>2, <1>4 DEF Called, RunFrames
  <2>4. Chain' BY <2>1, <2>3 DEF Chain, Nested, Top
  <2>5. Threaded' /\ Effect' BY <1>1, <1>2, <1>7 DEF Threaded, Effect
  <2>6. QED BY <1>3, <2>1, <2>2, <2>4, <2>5 DEF Inv, CoreInv
<1>8. QED BY <1>6, <1>7 DEF InitiateNothing

\* Some walks end.  What is left of the stack is the callers, or nothing.
LEMMA WalksEnd ==
  ASSUME Inv, panic = "none", InTranslation, ~fetchEvent, NoFetch, ~ready, ~stay, halted = {},
         drain # "Drained", NEW now \in SUBSET acc.walk, NEW then \in Seq(Frames),
         \A i \in 1 .. Len(then) : then[i] = "afterInitiate", EndWalks(now, then)
  PROVE  Inv'
<1>1. /\ UNCHANGED <<panic, status, fetchEvent, drain, cur, active, halted, inst, stay, ready, icache>>
      /\ UNCHANGED <<frag, outstanding, dcachePkt>>
      /\ stack' = (IF acc'.walk = {} THEN <<"finishTranslation">> ELSE <<>>) \o then
  BY DEF EndWalks, threadVars, instVars
<1>2. PICK fault \in AnyFault :
        acc' = [acc EXCEPT !.walk = @ \ now, !.fault = @ \/ (fault /\ now # {})]
  BY DEF EndWalks
<1>3. acc' \in [split : BOOLEAN, walk : SUBSET {1, 2}, fault : BOOLEAN, barrier : {acc'.barrier}]
  BY <1>2 DEF Inv, Shapes
<1>4. Shapes' BY <1>1, <1>3 DEF Inv, Shapes
<1>5. Booleans' BY <1>1 DEF Inv, Booleans
<1>6. Threaded' BY <1>1 DEF Threaded
<1>7. CASE acc'.walk = {}
  <2>1. stack' = <<"finishTranslation">> \o then BY <1>1, <1>7
  <2>2. stack' \in Seq(Frames) /\ stack' # <<>> /\ Head(stack') = "finishTranslation" /\ Nested'
    BY <2>1 DEF Frames, Nested
  <2>3. Called("finishTranslation")'
    BY <1>1, <1>7 DEF Called, Nothing, NoFetch, NoData, NoPacket, Icache, InTranslation
  <2>4. Chain' BY <2>2, <2>3 DEF Chain, Nested, Top
  <2>5. Effect' BY <1>1 DEF Effect
  <2>6. QED BY <1>1, <1>4, <1>5, <1>6, <2>2, <2>4, <2>5 DEF Inv, CoreInv
<1>8. CASE acc'.walk # {}
  <2>1. stack' = then BY <1>1, <1>8
  <2>2. stack' # <<>> => Head(stack') = "afterInitiate" BY <2>1
  <2>3. Nested' BY <2>1 DEF Nested
  <2>4. Parked'
    BY <1>1, <1>8 DEF Parked, InAccess, InTranslation, NoFetch, NoPacket, Icache
  <2>5. Chain' BY <2>2, <2>3, <2>4 DEF Chain, Nested, Top, AtRest, Called
  <2>6. Effect' BY <1>1 DEF Effect
  <2>7. QED BY <1>1, <1>4, <1>5, <1>6, <2>1, <2>5, <2>6 DEF Inv, CoreInv
<1>9. QED BY <1>7, <1>8

LEMMA TranslateDataInv == ASSUME Inv, TranslateData PROVE Inv'
<1>1. Top("translateData") BY DEF TranslateData
<1>2. PICK now \in SUBSET acc.walk : EndWalks(now, Tail(stack)) BY DEF TranslateData
<1>3. /\ panic = "none" /\ stack # <<>> /\ drain # "Drained" /\ ~ready /\ ~stay
      /\ InTranslation /\ ~fetchEvent /\ NoFetch /\ halted = {}
  BY <1>1, InFrame DEF Called, FetchFrames, RunFrames, DataFrames, InTranslation
<1>4. stack \in Seq(Frames) /\ Nested BY <1>3 DEF Inv, CoreInv, Chain, Nested
<1>5. Tail(stack) \in Seq(Frames) /\ \A i \in 1 .. Len(Tail(stack)) : Tail(stack)[i] = "afterInitiate"
  BY <1>3, <1>4 DEF Nested
<1>6. QED BY <1>2, <1>3, <1>5, WalksEnd

LEMMA FinishDataTranslationInv ==
  ASSUME Inv, NEW piece \in {1, 2}, FinishDataTranslation(piece) PROVE Inv'
<1>1. Event /\ piece \in acc.walk /\ EndWalks({piece}, <<>>) BY DEF FinishDataTranslation
<1>2. /\ panic = "none" /\ stack = <<>> /\ drain # "Drained" /\ ~ready /\ ~stay
      /\ InTranslation /\ ~fetchEvent /\ NoFetch /\ halted = {}
  BY <1>1, InEvent
  DEF AtRest, Parked, InFetch, InAccess, InTranslation, InMemory, Stopped, Nothing, NoData, DataStatuses
<1>3. {piece} \in SUBSET acc.walk /\ <<>> \in Seq(Frames)
      /\ \A i \in 1 .. Len(<<>>) : <<>>[i] = "afterInitiate"
  BY <1>1
<1>4. QED BY <1>1, <1>2, <1>3, WalksEnd

LEMMA FinishTranslationInv == ASSUME Inv, FinishTranslation PROVE Inv'
<1>1. /\ Top("finishTranslation") /\ status' = "Running"
      /\ UNCHANGED <<panic, fetchEvent, drain, cur, active, halted, inst, stay, icache>>
      /\ UNCHANGED <<frag, outstanding, dcachePkt>>
  BY DEF FinishTranslation, threadVars
<1>2. /\ panic = "none" /\ stack # <<>> /\ drain # "Drained" /\ ~ready /\ ~stay
      /\ Nothing /\ halted = {}
  BY <1>1, InFrame DEF Called, FetchFrames, RunFrames, DataFrames
<1>3. CASE ~acc.fault
  <2>1. UNCHANGED <<ready, acc>> BY <1>3 DEF FinishTranslation
  <2>2. PICK f \in {"sendData", "sendSplitData"} : Call(f) BY <1>3 DEF FinishTranslation
  <2>3. Shapes' BY <1>1, <2>1 DEF Inv, Shapes
  <2>4. Booleans' BY <1>1, <2>1 DEF Inv, Booleans
  <2>5. Called(f)'
    BY <1>1, <1>2, <2>1, <2>2 DEF Called, RunFrames, Nothing, NoFetch, NoData, NoPacket, Icache
  <2>6. f \in Frames /\ f # "initiateAcc" BY <2>2 DEF Frames
  <2>7. QED BY <1>1, <1>2, <2>1, <2>2, <2>3, <2>4, <2>5, <2>6, AfterCall
<1>4. CASE acc.fault
  <2>1. acc' = NoAccess /\ ready' = (inst = "prefetch")
        /\ Call(IF inst = "prefetch" THEN "advanceInst" ELSE "advanceFault")
    BY <1>4 DEF FinishTranslation
  <2>2. PICK f \in {"advanceInst", "advanceFault"} : Call(f) /\ (ready' => f = "advanceInst")
    BY <2>1
  <2>3. Shapes' BY <1>1, <2>1 DEF Inv, Shapes, NoAccess
  <2>4. Booleans' BY <1>1, <2>1 DEF Inv, Booleans
  <2>5. Nothing' BY <1>1, <1>2, <2>1 DEF Nothing, NoFetch, NoData, NoPacket, Icache, NoAccess
  <2>6. Called(f)' BY <1>1, <2>2, <2>5 DEF Called, RunFrames
  <2>7. f \in Frames /\ f \notin {"initiateAcc", "sendData"} /\ f \notin DataFrames
    BY <2>2 DEF Frames, DataFrames
  <2>8. QED BY <1>1, <1>2, <2>2, <2>3, <2>4, <2>5, <2>6, <2>7, AfterCall
<1>5. QED BY <1>3, <1>4

-----------------------------------------------------------------------------
(* Packets *)

LEMMA Sizes ==
  /\ Cardinality({1}) = 1 /\ Cardinality({2}) = 1 /\ Cardinality({1, 2}) = 2
<1>1. IsFiniteSet({1}) /\ Cardinality({1}) = 1 /\ Cardinality({2}) = 1
  BY FS_Singleton
<1>2. {1, 2} = {1} \cup {2} /\ 2 \notin {1} OBVIOUS
<1>3. Cardinality({1} \cup {2}) = 2 BY <1>1, <1>2, FS_AddElement
<1>4. QED BY <1>1, <1>2, <1>3

\* Packets P are offered: all are taken, or the first that is refused is kept.
LEMMA Offered ==
  ASSUME frag \in [{1, 2} -> Places], NEW P \in {{1}, {2}, {1, 2}}, NEW n \in 0 .. Cardinality(P),
         Offer(P, n)
  PROVE  /\ frag' \in [{1, 2} -> Places] /\ dcachePkt' \in 0 .. 2
         /\ \A f \in P : frag'[f] \in {"sent", "pending"}
         /\ \A f \in {1, 2} \ P : frag'[f] = frag[f]
         /\ \/ status' = "DcacheWaitResponse" /\ \A f \in P : frag'[f] = "sent"
            \/ status' = "DcacheRetry" /\ dcachePkt' \in P /\ frag'[dcachePkt'] = "pending"
<1>1. /\ frag' = [f \in {1, 2} |-> IF f \notin P THEN frag[f]
                                  ELSE IF Cardinality({g \in P : g <= f}) <= n THEN "sent"
                                  ELSE "pending"]
      /\ dcachePkt' = IF n = Cardinality(P) THEN 0
           ELSE CHOOSE f \in P : frag'[f] = "pending" /\ \A g \in P : frag'[g] = "pending" => f <= g
      /\ status' = IF n = Cardinality(P) THEN "DcacheWaitResponse" ELSE "DcacheRetry"
  BY DEF Offer
<1>2. P \subseteq {1, 2} OBVIOUS
<1>3. /\ frag' \in [{1, 2} -> Places]
      /\ \A f \in P : frag'[f] \in {"sent", "pending"}
      /\ \A f \in {1, 2} \ P : frag'[f] = frag[f]
  BY <1>1, <1>2 DEF Places
<1>4. /\ Cardinality({1}) = 1 /\ Cardinality({2}) = 1 /\ Cardinality({1, 2}) = 2
  BY Sizes
<1>5. \A f \in P : LET C == Cardinality({g \in P : g <= f}) IN C \in 1 .. Cardinality(P)
  <2> SUFFICES ASSUME NEW f \in P PROVE Cardinality({g \in P : g <= f}) \in 1 .. Cardinality(P)
    OBVIOUS
  <2>1. {g \in P : g <= f} \in {{1}, {2}, {1, 2}} /\ (P # {1, 2} => {g \in P : g <= f} # {1, 2})
    <3>1. CASE P = {1} BY <3>1
    <3>2. CASE P = {2} BY <3>2
    <3>3. CASE P = {1, 2} /\ f = 1 BY <3>3
    <3>4. CASE P = {1, 2} /\ f = 2 BY <3>4
    <3>5. QED BY <3>1, <3>2, <3>3, <3>4
  <2>2. QED BY <1>4, <2>1
<1>6. CASE n = Cardinality(P)
  <2>1. \A f \in P : frag'[f] = "sent" BY <1>1, <1>2, <1>4, <1>5, <1>6
  <2>2. QED BY <1>1, <1>3, <1>6, <2>1
<1>7. CASE n # Cardinality(P)
  <2>1. \E f \in P : Cardinality({g \in P : g <= f}) = Cardinality(P)
    <3>1. CASE P = {1}
      <4>1. {g \in P : g <= 1} = P BY <3>1
      <4>2. QED BY <3>1, <4>1
    <3>2. CASE P = {2} \/ P = {1, 2}
      <4>1. {g \in P : g <= 2} = P BY <3>2
      <4>2. QED BY <3>2, <4>1
    <3>3. QED BY <3>1, <3>2
  <2>2. PICK f \in P : Cardinality({g \in P : g <= f}) = Cardinality(P) BY <2>1
  <2>3. frag'[f] = "pending" BY <1>1, <1>2, <1>4, <1>7, <2>2
  <2>4. \E q \in P : frag'[q] = "pending" /\ \A g \in P : frag'[g] = "pending" => q <= g
    <3>1. CASE P = {1} \/ P = {2} BY <2>3, <3>1
    <3>2. CASE P = {1, 2} /\ frag'[1] = "pending" BY <3>2
    <3>3. CASE P = {1, 2} /\ frag'[1] # "pending" BY <2>3, <3>3
    <3>4. QED BY <3>1, <3>2, <3>3
  <2>5. dcachePkt' \in P /\ frag'[dcachePkt'] = "pending"
    <3> DEFINE Q(q) == frag'[q] = "pending" /\ \A g \in P : frag'[g] = "pending" => q <= g
    <3>1. dcachePkt' = CHOOSE q \in P : Q(q) BY <1>1, <1>7
    <3>2. \E q \in P : Q(q) BY <2>4
    <3> HIDE DEF Q
    <3>3. dcachePkt' \in P /\ Q(dcachePkt') BY <3>1, <3>2
    <3>4. QED BY <3>3 DEF Q
  <2>6. status' = "DcacheRetry" BY <1>1, <1>7
  <2>7. dcachePkt' \in 0 .. 2 BY <1>2, <2>5
  <2>8. QED BY <1>3, <2>5, <2>6, <2>7
<1>8. QED BY <1>6, <1>7

\* The fragments of an offer are under way.
LEMMA SendDataInv == ASSUME OneThread, Inv, SendData PROVE Inv'
<1>1. /\ Top("sendData")
      /\ UNCHANGED <<panic, drain, cur, stay, ready, icache>> /\ UNCHANGED <<acc, outstanding>>
  BY DEF SendData, instVars
<1>2. /\ panic = "none" /\ stack # <<>> /\ drain # "Drained" /\ ~ready /\ ~stay
      /\ status = "Running" /\ Nothing /\ halted = {}
  BY <1>1, InFrame DEF Called, FetchFrames, RunFrames, DataFrames
<1>3. CASE /\ HandleReadPacket \/ HandleWritePacket
           /\ UNCHANGED <<fetchEvent, active, halted>> \/ ThreadSnoop
           /\ Return
  <2>1. UNCHANGED fetchEvent /\ halted' = {} /\ active' \subseteq Threads
    <3>1. CASE UNCHANGED <<fetchEvent, active, halted>> BY <1>2, <3>1 DEF Inv, Shapes
    <3>2. CASE ThreadSnoop
      <4>1. PICK W \in SUBSET (halted \ {cur}) :
              /\ fetchEvent' = (fetchEvent \/ W # {})
              /\ active' = active \cup W /\ halted' = halted \ W
        BY <3>2 DEF ThreadSnoop
      <4>2. W = {} BY <1>2, <4>1
      <4>3. fetchEvent' = fetchEvent BY <4>1, <4>2 DEF Inv, Booleans
      <4>4. QED BY <1>2, <4>1, <4>2, <4>3 DEF Inv, Shapes
    <3>3. QED BY <1>3, <3>1, <3>2
  <2>2. /\ frag' \in [{1, 2} -> Places] /\ dcachePkt' \in 0 .. 2
        /\ frag'[1] # "none" /\ frag'[2] = "none"
        /\ \/ status' = "DcacheWaitResponse" /\ frag'[1] # "pending"
           \/ status' = "DcacheRetry" /\ dcachePkt' # 0 /\ frag'[dcachePkt'] = "pending"
    <3>1. frag \in [{1, 2} -> Places] /\ frag[2] = "none" BY <1>2 DEF Inv, Shapes, Nothing, NoData, NoPacket
    <3>2. CASE LocalAccess BY <3>1, <3>2 DEF LocalAccess, Places
    <3>3. CASE \E n \in {0, 1} : Offer({1}, n)
      <4>1. PICK n \in {0, 1} : Offer({1}, n) BY <3>3
      <4>2. n \in 0 .. Cardinality({1}) BY Sizes
      <4>3. /\ frag' \in [{1, 2} -> Places] /\ dcachePkt' \in 0 .. 2
            /\ \A f \in {1} : frag'[f] \in {"sent", "pending"}
            /\ \A f \in {1, 2} \ {1} : frag'[f] = frag[f]
            /\ \/ status' = "DcacheWaitResponse" /\ \A f \in {1} : frag'[f] = "sent"
               \/ status' = "DcacheRetry" /\ dcachePkt' \in {1} /\ frag'[dcachePkt'] = "pending"
        BY <3>1, <4>1, <4>2, Offered
      <4>4. QED BY <3>1, <4>3
    <3>4. QED BY <1>3, <3>2, <3>3 DEF HandleReadPacket, HandleWritePacket
  <2>3. Parked'
    BY <1>1, <1>2, <2>1, <2>2
    DEF Parked, InAccess, InMemory, Counted, Unsent, Nothing, NoFetch, NoData, NoPacket, Icache
  <2>4. Shapes' BY <1>1, <1>2, <2>1, <2>2 DEF Inv, Shapes
  <2>5. Booleans' BY <1>1, <2>1 DEF Inv, Booleans
  <2>6. QED BY <1>1, <1>2, <1>3, <2>1, <2>3, <2>4, <2>5, AfterReturn
<1>4. CASE /\ status' = "DcacheWaitResponse" /\ Call("completeDataAccess")
           /\ UNCHANGED <<fetchEvent, active, halted, frag, dcachePkt>>
  <2>1. Called("completeDataAccess")'
    BY <1>1, <1>2, <1>4
    DEF Called, Delivering, Unsent, Nothing, NoFetch, NoData, NoPacket, Icache
  <2>2. Shapes' BY <1>1, <1>4 DEF Inv, Shapes
  <2>3. Booleans' BY <1>1, <1>4 DEF Inv, Booleans
  <2>4. QED BY <1>1, <1>2, <1>4, <2>1, <2>2, <2>3, AfterCall DEF Frames
<1>5. CASE /\ Call("completeNoAccess")
           /\ UNCHANGED <<status, fetchEvent, active, halted, frag, dcachePkt>>
  <2>1. Called("completeNoAccess")'
    BY <1>1, <1>2, <1>5 DEF Called, RunFrames, Nothing, NoFetch, NoData, NoPacket, Icache
  <2>2. Shapes' BY <1>1, <1>5 DEF Inv, Shapes
  <2>3. Booleans' BY <1>1, <1>5 DEF Inv, Booleans
  <2>4. QED BY <1>1, <1>2, <1>5, <2>1, <2>2, <2>3, AfterCall DEF Frames
<1>6. QED BY <1>3, <1>4, <1>5 DEF SendData

LEMMA SendSplitDataInv == ASSUME Inv, SendSplitData PROVE Inv'
<1>1. /\ Top("sendSplitData") /\ Return /\ outstanding' = 2
      /\ UNCHANGED <<panic, fetchEvent, drain, cur, active, halted, stay, ready, icache, acc>>
  BY DEF SendSplitData, threadVars, instVars, TwoFragments
<1>2. /\ panic = "none" /\ stack # <<>> /\ drain # "Drained" /\ ~ready /\ ~stay
      /\ status = "Running" /\ Nothing /\ halted = {}
  BY <1>1, InFrame DEF Called, FetchFrames, RunFrames, DataFrames
<1>3. PICK n \in 0 .. 2 : Offer({1, 2}, n) BY DEF SendSplitData
<1>4. /\ frag \in [{1, 2} -> Places] /\ n \in 0 .. Cardinality({1, 2})
  BY Sizes DEF Inv, Shapes
<1>5. /\ frag' \in [{1, 2} -> Places] /\ dcachePkt' \in 0 .. 2
      /\ \A f \in {1, 2} : frag'[f] \in {"sent", "pending"}
      /\ \/ status' = "DcacheWaitResponse" /\ \A f \in {1, 2} : frag'[f] = "sent"
         \/ status' = "DcacheRetry" /\ dcachePkt' \in {1, 2} /\ frag'[dcachePkt'] = "pending"
  BY <1>3, <1>4, Offered
<1>6. Parked'
  BY <1>1, <1>2, <1>5
  DEF Parked, InAccess, InMemory, Counted, Unsent, Nothing, NoFetch, NoData, NoPacket, Icache
<1>7. Shapes' BY <1>1, <1>5 DEF Inv, Shapes
<1>8. Booleans' BY <1>1 DEF Inv, Booleans
<1>9. QED BY <1>1, <1>2, <1>6, <1>7, <1>8, AfterReturn

LEMMA DcacheRetryInv == ASSUME Inv, DcacheRetry PROVE Inv'
<1>1. CASE status # "DcacheRetry" BY <1>1, AfterFail DEF DcacheRetry
<1>2. CASE status = "DcacheRetry"
  <2> DEFINE P == {f \in {1, 2} : frag[f] = "pending"}
  <2>1. /\ Event
        /\ UNCHANGED <<stack, panic, fetchEvent, drain, cur, active, halted, stay, ready, icache>>
        /\ UNCHANGED <<acc, outstanding>>
    BY <1>2 DEF DcacheRetry, threadVars, instVars
  <2>2. PICK n \in 1 .. Cardinality(P) : Offer(P, n) BY <1>2 DEF DcacheRetry
  <2>3. /\ panic = "none" /\ drain # "Drained" /\ ~ready /\ ~stay /\ halted = {}
        /\ ~fetchEvent /\ NoFetch /\ acc.walk = {} /\ Counted
        /\ dcachePkt # 0 /\ frag[dcachePkt] = "pending"
    BY <1>2, <2>1, InEvent
    DEF AtRest, Parked, InFetch, InAccess, InTranslation, InMemory, Stopped, Nothing, DataStatuses
  <2>4. frag \in [{1, 2} -> Places] /\ dcachePkt \in {1, 2} BY <2>3 DEF Inv, Shapes
  <2>5. P \in {{1}, {2}, {1, 2}}
    <3>1. P # {} BY <2>3, <2>4
    <3>2. QED BY <3>1
  <2>6. n \in 0 .. Cardinality(P) BY <2>5, Sizes
  <2>7. \A f \in {1, 2} \ P : frag[f] # "pending" OBVIOUS
  <2>8. \A f \in P : frag[f] # "none" OBVIOUS
  <2> HIDE DEF P
  <2>9. /\ frag' \in [{1, 2} -> Places] /\ dcachePkt' \in 0 .. 2
        /\ \A f \in P : frag'[f] \in {"sent", "pending"}
        /\ \A f \in {1, 2} \ P : frag'[f] = frag[f]
        /\ \/ status' = "DcacheWaitResponse" /\ \A f \in P : frag'[f] = "sent"
           \/ status' = "DcacheRetry" /\ dcachePkt' \in P /\ frag'[dcachePkt'] = "pending"
    BY <2>2, <2>4, <2>5, <2>6, Offered
  <2>10. /\ frag'[1] = "none" <=> frag[1] = "none"
         /\ frag'[2] = "none" <=> frag[2] = "none"
    BY <2>8, <2>9
  <2>11. Counted' BY <2>1, <2>3, <2>10 DEF Counted
  <2>12. status' = "DcacheWaitResponse" => ~Unsent' BY <2>7, <2>9 DEF Unsent
  <2>13. status' = "DcacheRetry" => dcachePkt' # 0 /\ frag'[dcachePkt'] = "pending"
    BY <2>5, <2>9
  <2>14. status' \in {"DcacheWaitResponse", "DcacheRetry"} BY <2>9
  <2>15. Parked'
    BY <2>1, <2>3, <2>11, <2>12, <2>13, <2>14 DEF Parked, InAccess, InMemory, NoFetch, Icache
  <2>16. Shapes' BY <2>1, <2>9 DEF Inv, Shapes
  <2>17. Booleans' BY <2>1 DEF Inv, Booleans
  <2>18. QED BY <2>1, <2>3, <2>15, <2>16, <2>17, AfterEvent DEF AtRest
<1>3. QED BY <1>1, <1>2

\* A reply comes, now or later: the packet is still counted.
LEMMA ReplyInv ==
  ASSUME Inv, NEW f \in {1, 2}, DcacheResponse(f) \/ RetryResponse(f) PROVE Inv'
<1>1. /\ Event /\ frag[f] \in {"sent", "refused"}
      /\ UNCHANGED <<status, stack, panic, fetchEvent, drain, cur, active, halted, stay, ready, icache>>
      /\ UNCHANGED <<acc, outstanding, dcachePkt>>
  BY DEF DcacheResponse, RetryResponse, cpuVars, threadVars, instVars
<1>2. PICK to \in {"refused", "tick"} : frag' = [frag EXCEPT ![f] = to]
  BY DEF DcacheResponse, RetryResponse
<1>3. frag \in [{1, 2} -> Places] /\ dcachePkt \in 0 .. 2 BY DEF Inv, Shapes
<1>4. frag' \in [{1, 2} -> Places] /\ frag'[f] = to /\ \A g \in {1, 2} : g # f => frag'[g] = frag[g]
  BY <1>2, <1>3 DEF Places
<1>5. /\ panic = "none" /\ drain # "Drained" /\ ~ready /\ ~stay /\ halted = {}
      /\ ~fetchEvent /\ NoFetch /\ InMemory
  <2>1. ~NoPacket BY <1>1 DEF NoPacket
  <2>2. QED
    BY <1>1, <2>1, InEvent
    DEF AtRest, Parked, InFetch, InAccess, InTranslation, InMemory, Stopped, Nothing, NoData, DataStatuses
<1>6. Counted' BY <1>1, <1>4, <1>5 DEF InMemory, Counted
<1>7. InMemory' BY <1>1, <1>3, <1>4, <1>5, <1>6 DEF InMemory, Unsent
<1>8. AtRest' BY <1>1, <1>5, <1>7 DEF AtRest, Parked, InAccess, NoFetch, Icache
<1>9. Shapes' BY <1>1, <1>4 DEF Inv, Shapes
<1>10. Booleans' BY <1>1 DEF Inv, Booleans
<1>11. QED BY <1>1, <1>5, <1>8, <1>9, <1>10, AfterEvent

LEMMA DcacheTickInv == ASSUME Inv, NEW f \in {1, 2}, DcacheTick(f) PROVE Inv'
<1>1. /\ Event /\ frag[f] \in {"tick", "ipr"} /\ frag' = [frag EXCEPT ![f] = "none"]
      /\ Run("completeDataAccess")
      /\ UNCHANGED <<status, panic, fetchEvent, drain, cur, active, halted, stay, ready, icache>>
      /\ UNCHANGED <<acc, outstanding, dcachePkt>>
  BY DEF DcacheTick, threadVars, instVars
<1>2. frag \in [{1, 2} -> Places] BY DEF Inv, Shapes
<1>3. frag' \in [{1, 2} -> Places] /\ frag'[f] = "none" /\ \A g \in {1, 2} : g # f => frag'[g] = frag[g]
  BY <1>1, <1>2 DEF Places
<1>4. /\ panic = "none" /\ drain # "Drained" /\ ~ready /\ ~stay /\ halted = {}
      /\ ~fetchEvent /\ NoFetch /\ InMemory
  <2>1. ~NoPacket BY <1>1 DEF NoPacket
  <2>2. QED
    BY <1>1, <2>1, InEvent
    DEF AtRest, Parked, InFetch, InAccess, InTranslation, InMemory, Stopped, Nothing, NoData, DataStatuses
<1>5. Delivering'
  <2>1. ~fetchEvent' /\ NoFetch' /\ (acc.walk = {})'
        /\ status' \in {"DcacheRetry", "DcacheWaitResponse"}
    BY <1>1, <1>4 DEF NoFetch, Icache, InMemory
  <2>2. status' = "DcacheWaitResponse" => ~Unsent' BY <1>1, <1>3, <1>4 DEF InMemory, Unsent
  <2>3. \/ outstanding' \in {0, 1} /\ frag'[1] = "none" /\ frag'[2] = "none"
        \/ outstanding' = 2 /\ frag'[1] # "none" /\ frag'[2] = "none"
        \/ outstanding' = 2 /\ frag'[1] = "none" /\ frag'[2] # "none"
    BY <1>1, <1>3, <1>4 DEF InMemory, Counted
  <2>4. QED BY <2>1, <2>2, <2>3 DEF Delivering
<1>6. Called("completeDataAccess")' BY <1>5 DEF Called
<1>7. Shapes' BY <1>1, <1>3 DEF Inv, Shapes
<1>8. Booleans' BY <1>1 DEF Inv, Booleans
<1>9. QED BY <1>1, <1>4, <1>6, <1>7, <1>8, AfterCall DEF Frames

LEMMA CompleteDataAccessInv == ASSUME Inv, CompleteDataAccess PROVE Inv'
<1>1. /\ panic = "none" /\ stack # <<>> /\ drain # "Drained" /\ ~ready /\ ~stay /\ halted = {}
      /\ \/ Delivering /\ Top("completeDataAccess")
         \/ Nothing /\ status = "Running" /\ Top("completeNoAccess")
  BY InFrame
  DEF CompleteDataAccess, Called, FetchFrames, RunFrames, DataFrames, Delivering
<1>2. CASE status = "DcacheRetry"
  <2>1. Fail("completeDataAccess") BY <1>1, <1>2 DEF CompleteDataAccess
  <2>2. QED BY <2>1, AfterFail
<1>3. CASE status # "DcacheRetry" /\ outstanding > 1
  <2>1. /\ outstanding' = outstanding - 1 /\ Return
        /\ UNCHANGED <<status, panic, fetchEvent, drain, cur, active, halted, stay, ready, icache>>
        /\ UNCHANGED <<acc, frag, dcachePkt>>
    BY <1>1, <1>3 DEF CompleteDataAccess, threadVars, instVars, Delivering, Top
  <2>2. Delivering /\ outstanding = 2 /\ status = "DcacheWaitResponse"
    BY <1>1, <1>3 DEF Delivering, Nothing, NoData, NoPacket
  <2>3. Parked'
    BY <2>1, <2>2 DEF Parked, InAccess, InMemory, Counted, Unsent, Delivering, NoFetch, Icache
  <2>4. Shapes' BY <2>1 DEF Inv, Shapes
  <2>5. Booleans' BY <2>1 DEF Inv, Booleans
  <2>6. QED BY <1>1, <2>1, <2>3, <2>4, <2>5, AfterReturn
<1>4. CASE status # "DcacheRetry" /\ ~(outstanding > 1)
  <2>1. /\ status' = "Running" /\ outstanding' = 0 /\ acc' = NoAccess
        /\ \E fault \in AnyFault :
             ready' = ~fault /\ Call(IF fault THEN "advanceFault" ELSE "advanceInst")
        /\ UNCHANGED <<panic, fetchEvent, drain, cur, active, halted, stay, icache>>
        /\ UNCHANGED <<frag, dcachePkt>>
    BY <1>1, <1>4 DEF CompleteDataAccess, threadVars, Delivering, Top
  <2>2. PICK f \in {"advanceInst", "advanceFault"} :
          Call(f) /\ (ready' => f = "advanceInst") /\ ready' \in BOOLEAN
    BY <2>1 DEF AnyFault
  <2>3. ~fetchEvent /\ NoFetch /\ frag[1] = "none" /\ frag[2] = "none"
    BY <1>1, <1>4 DEF Delivering, Nothing, NoData, NoPacket
  <2>4. Nothing' BY <2>1, <2>3 DEF Nothing, NoFetch, NoData, NoPacket, Icache, NoAccess
  <2>5. Called(f)' BY <2>1, <2>2, <2>4 DEF Called, RunFrames
  <2>6. Shapes' BY <2>1 DEF Inv, Shapes, NoAccess
  <2>7. Booleans' BY <2>1, <2>2 DEF Inv, Booleans
  <2>8. f \in Frames /\ f \notin {"initiateAcc", "sendData"} /\ f \notin DataFrames
    BY <2>2 DEF Frames, DataFrames
  <2>9. QED BY <1>1, <2>1, <2>2, <2>4, <2>5, <2>6, <2>7, <2>8, AfterCall
<1>5. QED BY <1>2, <1>3, <1>4

\* Nothing changes.
LEMMA StutterInv == ASSUME Inv, UNCHANGED vars PROVE Inv'
<1>1. UNCHANGED <<status, stack, panic, fetchEvent, drain, cur, active, halted, inst, macro, stay, ready, icache, acc, frag, outstanding, dcachePkt, packet>>
  BY DEF vars, cpuVars, threadVars, instVars, dataVars
<1>2. Shapes' BY <1>1 DEF Inv, Shapes
<1>3. Booleans' BY <1>1 DEF Inv, Booleans
<1>4. Chain' /\ Threaded' /\ Effect' <=> Chain /\ Threaded /\ Effect
  BY <1>1
  DEF Chain, Threaded, Effect, AtRest, Called, Delivering, Parked, InFetch, InAccess, InTranslation,
      InMemory, Stopped, Counted, Unsent, Nothing, NoFetch, NoData, NoPacket, Icache, Top
<1>5. QED BY <1>1, <1>2, <1>3, <1>4 DEF Inv, CoreInv

\* A thread is suspended when it should not be.
LEMMA SuspendFailsInv == ASSUME Inv, SuspendFails PROVE Inv'
BY AfterFail DEF SuspendFails

-----------------------------------------------------------------------------
(* The status of a CPU with one thread *)

LEMMA InitInv == ASSUME Init PROVE Inv
<1>1. stack = <<>> /\ stack \in Seq(Frames) /\ panic = "none" BY DEF Init
<1>2. Shapes BY DEF Init, Shapes, NoAccess, Places
<1>3. Booleans BY DEF Init, Booleans
<1>4. Nothing BY DEF Init, Nothing, NoFetch, NoData, NoPacket, Icache, NoAccess
<1>5. Chain BY <1>1, <1>4 DEF Init, Chain, AtRest, Parked, Stopped, Top
<1>6. Threaded /\ Effect BY <1>1, <1>4 DEF Init, Threaded, Effect
<1>7. QED BY <1>1, <1>2, <1>3, <1>5, <1>6 DEF Inv, CoreInv

LEMMA NextInv == ASSUME OneThread, Inv, [Next]_vars PROVE Inv'
<1>1. CASE Call_Step
  <2>1. QED
    BY <1>1, FetchInv, CheckEventsInv, TranslateFetchInv, SendFetchInv, CompleteIfetchInv,
       ExecuteInv, AfterInitiateInv, AdvanceInstInv, AdvanceFaultInv, InitiateInv,
       InitiateMemMgmtCmdInv, InitiateNothingInv, TranslateDataInv, FinishTranslationInv,
       SendDataInv, SendSplitDataInv, CompleteDataAccessInv, SuspendFailsInv
    DEF Call_Step
<1>2. CASE Memory_Step
  BY <1>2, FinishFetchTranslationInv, IcacheRetryInv, IcacheResponseInv, DcacheRetryInv,
     FinishDataTranslationInv, ReplyInv
  DEF Memory_Step
<1>3. CASE Tick_Step
  BY <1>3, FetchEventInv, IcacheTickInv, DcacheTickInv DEF Tick_Step
<1>4. CASE \E t \in Threads : ActivateContext(t) BY <1>4, ActivateContextInv
<1>5. CASE Drain \/ DrainResume BY <1>5, DrainInv, DrainResumeInv
<1>6. CASE Aborted \/ UNCHANGED vars BY <1>6, StutterInv DEF Aborted
<1>7. QED BY <1>1, <1>2, <1>3, <1>4, <1>5, <1>6 DEF Next

\* What is under way between two events.
LEMMA NoneLive ==
  ASSUME Inv
  PROVE  /\ (frag[1] = "none" /\ frag[2] = "none") <=> Live = {}
BY DEF Live

\* The seven things a CPU may wait for.
Waits == << fetchEvent, icache.walks, icache.retry, icache.sent, icache.tick,
            acc.walk # {}, Live # {} >>

LEMMA WaitsNothing ==
  ASSUME Inv, NoFetch, NoData
  PROVE  /\ ~fetchEvent => Waits = <<FALSE, 0, FALSE, 0, FALSE, FALSE, FALSE>>
         /\ fetchEvent => Waits = <<TRUE, 0, FALSE, 0, FALSE, FALSE, FALSE>>
<1>1. fetchEvent \in BOOLEAN BY DEF Inv, Booleans
<1>2. icache.walks = 0 /\ icache.retry = FALSE /\ icache.sent = 0 /\ icache.tick = FALSE
  BY DEF NoFetch, Icache
<1>3. acc.walk = {} /\ Live = {} BY NoneLive DEF NoData, NoPacket
<1>4. QED BY <1>1, <1>2, <1>3 DEF Waits

LEMMA WaitsFetch ==
  ASSUME Inv, ~fetchEvent, NoData
  PROVE  /\ Icache(1, FALSE, 0, FALSE) => Waits = <<FALSE, 1, FALSE, 0, FALSE, FALSE, FALSE>>
         /\ Icache(0, TRUE, 0, FALSE) => Waits = <<FALSE, 0, TRUE, 0, FALSE, FALSE, FALSE>>
         /\ Icache(0, FALSE, 1, FALSE) => Waits = <<FALSE, 0, FALSE, 1, FALSE, FALSE, FALSE>>
         /\ Icache(0, FALSE, 0, TRUE) => Waits = <<FALSE, 0, FALSE, 0, TRUE, FALSE, FALSE>>
<1>1. fetchEvent = FALSE BY DEF Inv, Booleans
<1>2. acc.walk = {} /\ Live = {} BY NoneLive DEF NoData, NoPacket
<1>3. ASSUME NEW i, NEW j, NEW k, NEW l, Icache(i, j, k, l)
      PROVE  Waits = <<FALSE, i, j, k, l, FALSE, FALSE>>
  <2>1. icache.walks = i /\ icache.retry = j /\ icache.sent = k /\ icache.tick = l
    BY <1>3 DEF Icache
  <2>2. QED BY <1>1, <1>2, <2>1 DEF Waits
<1>4. QED BY <1>3

LEMMA WaitsData ==
  ASSUME Inv, ~fetchEvent, NoFetch
  PROVE  /\ InTranslation => Waits = <<FALSE, 0, FALSE, 0, FALSE, TRUE, FALSE>>
         /\ InMemory => Waits = <<FALSE, 0, FALSE, 0, FALSE, FALSE, TRUE>>
<1>1. fetchEvent = FALSE BY DEF Inv, Booleans
<1>2. icache.walks = 0 /\ icache.retry = FALSE /\ icache.sent = 0 /\ icache.tick = FALSE
  BY DEF NoFetch, Icache
<1>3. InTranslation => acc.walk # {} /\ Live = {} BY NoneLive DEF InTranslation, NoPacket
<1>4. InMemory => acc.walk = {} /\ Live # {} BY NoneLive DEF InMemory, Counted
<1>5. QED BY <1>1, <1>2, <1>3, <1>4 DEF Waits

LEMMA InvStatus == ASSUME Inv PROVE StatusTellsWhatIsAwaited
<1> DEFINE idle == <<FALSE, 0, FALSE, 0, FALSE, FALSE, FALSE>>
<1> SUFFICES ASSUME Event
             PROVE  CASE status = "Idle" -> Waits = idle
                      [] status \in {"Running", "Faulting"} ->
                           \/ Waits = [idle EXCEPT ![1] = TRUE]
                           \/ /\ status = "Running" /\ drain \in {"Signalled", "Drained"}
                              /\ Waits = idle
                      [] status = "ITBWaitResponse" -> Waits = [idle EXCEPT ![2] = 1]
                      [] status = "IcacheRetry" -> Waits = [idle EXCEPT ![3] = TRUE]
                      [] status = "IcacheWaitResponse" ->
                           Waits = [idle EXCEPT ![4] = 1] \/ Waits = [idle EXCEPT ![5] = TRUE]
                      [] status = "DTBWaitResponse" -> Waits = [idle EXCEPT ![6] = TRUE]
                      [] status = "DcacheRetry" ->
                           /\ Waits = [idle EXCEPT ![7] = TRUE]
                           /\ dcachePkt # 0 /\ frag[dcachePkt] = "pending"
                      [] status = "DcacheWaitResponse" ->
                           /\ Waits = [idle EXCEPT ![7] = TRUE]
                           /\ \A f \in {1, 2} : frag[f] # "pending"
  BY DEF StatusTellsWhatIsAwaited, Waits
<1>1. AtRest BY InEvent
<1>2. /\ [idle EXCEPT ![1] = TRUE] = <<TRUE, 0, FALSE, 0, FALSE, FALSE, FALSE>>
      /\ [idle EXCEPT ![2] = 1] = <<FALSE, 1, FALSE, 0, FALSE, FALSE, FALSE>>
      /\ [idle EXCEPT ![3] = TRUE] = <<FALSE, 0, TRUE, 0, FALSE, FALSE, FALSE>>
      /\ [idle EXCEPT ![4] = 1] = <<FALSE, 0, FALSE, 1, FALSE, FALSE, FALSE>>
      /\ [idle EXCEPT ![5] = TRUE] = <<FALSE, 0, FALSE, 0, TRUE, FALSE, FALSE>>
      /\ [idle EXCEPT ![6] = TRUE] = <<FALSE, 0, FALSE, 0, FALSE, TRUE, FALSE>>
      /\ [idle EXCEPT ![7] = TRUE] = <<FALSE, 0, FALSE, 0, FALSE, FALSE, TRUE>>
  <2> DEFINE F == FALSE
             T == TRUE
  <2>1. /\ [<<F, 0, F, 0, F, F, F>> EXCEPT ![1] = T] = <<T, 0, F, 0, F, F, F>>
        /\ [<<F, 0, F, 0, F, F, F>> EXCEPT ![2] = 1] = <<F, 1, F, 0, F, F, F>>
        /\ [<<F, 0, F, 0, F, F, F>> EXCEPT ![3] = T] = <<F, 0, T, 0, F, F, F>>
        /\ [<<F, 0, F, 0, F, F, F>> EXCEPT ![4] = 1] = <<F, 0, F, 1, F, F, F>>
        /\ [<<F, 0, F, 0, F, F, F>> EXCEPT ![5] = T] = <<F, 0, F, 0, T, F, F>>
        /\ [<<F, 0, F, 0, F, F, F>> EXCEPT ![6] = T] = <<F, 0, F, 0, F, T, F>>
        /\ [<<F, 0, F, 0, F, F, F>> EXCEPT ![7] = T] = <<F, 0, F, 0, F, F, T>>
    <3> HIDE DEF F, T
    <3>1. QED OBVIOUS
  <2>2. QED BY <2>1
<1>3. CASE InFetch BY <1>2, <1>3, WaitsFetch DEF InFetch
<1>4. CASE InAccess
  <2>1. CASE InTranslation BY <1>2, <1>4, <2>1, WaitsData DEF InAccess, InTranslation
  <2>2. CASE InMemory
    <3>1. Waits = [idle EXCEPT ![7] = TRUE] BY <1>2, <1>4, <2>2, WaitsData DEF InAccess
    <3>2. \/ status = "DcacheRetry" /\ dcachePkt # 0 /\ frag[dcachePkt] = "pending"
          \/ status = "DcacheWaitResponse" /\ \A f \in {1, 2} : frag[f] # "pending"
      BY <2>2 DEF InMemory, Unsent
    <3> HIDE DEF idle
    <3>3. QED BY <3>1, <3>2
  <2>3. QED BY <1>4, <2>1, <2>2 DEF InAccess
<1>5. CASE Nothing /\ (status = "Idle" \/ (status = "Running" /\ drain \in {"Signalled", "Drained"}))
  <2>1. Waits = idle BY <1>5, WaitsNothing DEF Nothing
  <2> HIDE DEF idle
  <2>2. QED BY <1>5, <2>1
<1>6. CASE fetchEvent /\ NoFetch /\ NoData /\ status \in {"Running", "Faulting"}
  <2>1. Waits = [idle EXCEPT ![1] = TRUE] BY <1>2, <1>6, WaitsNothing
  <2> HIDE DEF idle
  <2>2. QED BY <1>6, <2>1
<1>7. QED BY <1>1, <1>3, <1>4, <1>5, <1>6 DEF AtRest, Parked, Stopped

\* Between two events the CPU waits for what its status says and for nothing else, if it
\* has one hardware thread (timing.cc keeps the two apart).
THEOREM WaitsForWhatItSays ==
  ASSUME OneThread PROVE Spec => []StatusTellsWhatIsAwaited
<1>1. Init => Inv BY InitInv
<1>2. Inv /\ [Next]_vars => Inv' BY NextInv
<1>3. Inv => StatusTellsWhatIsAwaited BY InvStatus
<1>4. QED BY <1>1, <1>2, <1>3, PTL DEF Spec

-----------------------------------------------------------------------------
(* Steps of an in-order core *)

\* Only one thing goes on at a time.
Exclusive ==
  /\ Fetching => Live = {} /\ ~ready
  /\ Live # {} => ~ready

LEMMA InvExclusive == ASSUME Inv, panic = "none" PROVE Exclusive
<1>1. NoFetch => ~Fetching BY DEF NoFetch, Icache, Fetching
<1>2. NoData => Live = {} BY NoneLive DEF NoData, NoPacket
<1>3. ready => NoFetch /\ NoData BY DEF Inv, CoreInv, Effect, Nothing
<1>4. NoFetch \/ NoData
  <2>1. Parked => NoFetch \/ NoData BY DEF Parked, InFetch, InAccess, Stopped, Nothing
  <2>2. stack = <<>> => NoFetch \/ NoData
    BY <2>1 DEF Inv, CoreInv, Chain, AtRest, Nothing
  <2>3. stack # <<>> => NoFetch \/ NoData
    BY <2>1 DEF Inv, CoreInv, Chain, Called, Delivering, Nothing
  <2>4. QED BY <2>2, <2>3
<1>5. QED BY <1>1, <1>2, <1>3, <1>4 DEF Exclusive

\* A step changes one of the things the core tells apart, or it moves the PC.
OneChange ==
  \/ UNCHANGED <<Live, ready, moved>>
  \/ UNCHANGED <<Fetching, Live, moved>> /\ ~ready
  \/ UNCHANGED <<Fetching, Live>> /\ ready /\ ready' = FALSE /\ moved' = ~moved
  \/ MovesAgain /\ ~stay
  \/ /\ UNCHANGED <<Fetching, ready, moved>>
     /\ \/ Live = {} /\ Live' \in SUBSET {1, 2}
        \/ \E p \in Live : p \in {1, 2} /\ Live' = Live \ {p}

\* Such a step is a step of the core, or moves the PC again.
LEMMA OneThing ==
  ASSUME Inv, Exclusive, Exclusive', ready \in BOOLEAN, ready' \in BOOLEAN, OneChange
  PROVE  [Core!Next \/ (MovesAgain /\ ~stay)]_(Core!coreVars)
<1>1. Fetching \in BOOLEAN /\ Fetching' \in BOOLEAN BY DEF Fetching
<1>2. CASE UNCHANGED <<Fetching, Live, ready, moved>> BY <1>2 DEF Core!coreVars
<1>3. CASE UNCHANGED <<Live, ready, moved>> /\ Fetching' # Fetching
  <2>1. CASE Fetching
    <3>1. Core!EndFetch BY <1>1, <1>3, <2>1 DEF Core!EndFetch
    <3>2. QED BY <3>1 DEF Core!Next
  <2>2. CASE ~Fetching
    <3>1. Core!BeginFetch BY <1>1, <1>3, <2>2 DEF Core!BeginFetch, Core!Quiet, Exclusive
    <3>2. QED BY <3>1 DEF Core!Next
  <2>3. QED BY <2>1, <2>2
<1>4. CASE UNCHANGED <<Fetching, Live, moved>> /\ ~ready /\ ready' # ready
  <2>1. Core!TakeEffect BY <1>4 DEF Core!TakeEffect, Core!Quiet, Exclusive
  <2>2. QED BY <2>1 DEF Core!Next
<1>5. CASE UNCHANGED <<Fetching, Live>> /\ ready /\ ready' = FALSE /\ moved' = ~moved
  <2>1. Core!MovePC BY <1>5 DEF Core!MovePC
  <2>2. QED BY <2>1 DEF Core!Next
<1>6. CASE UNCHANGED <<Fetching, ready, moved>> /\ Live = {} /\ Live' \in SUBSET {1, 2} /\ Live' # {}
  <2>1. ~Fetching BY <1>6 DEF Exclusive
  <2>2. ~ready BY <1>6 DEF Exclusive
  <2>3. Core!Quiet BY <1>6, <2>1, <2>2 DEF Core!Quiet
  <2>4. Live' \in (SUBSET {1, 2}) \ {{}} BY <1>6
  <2>5. Core!Access BY <1>6, <2>3, <2>4 DEF Core!Access
  <2>6. QED BY <2>5 DEF Core!Next
<1>7. CASE UNCHANGED <<Fetching, ready, moved>> /\ \E p \in Live : p \in {1, 2} /\ Live' = Live \ {p}
  <2>1. PICK p \in Live : p \in {1, 2} /\ Live' = Live \ {p} BY <1>7
  <2>2. Core!Answer(p) BY <1>7, <2>1 DEF Core!Answer
  <2>3. QED BY <2>1, <2>2 DEF Core!Next
<1>8. QED BY <1>2, <1>3, <1>4, <1>5, <1>6, <1>7 DEF OneChange

LEMMA SameThings ==
  /\ UNCHANGED icache => UNCHANGED Fetching
  /\ UNCHANGED frag => UNCHANGED Live
BY DEF Fetching, Live

\* Fetches, translations, drains and wakeups leave the access and the PC alone.
LEMMA FetchChanges ==
  ASSUME \/ FetchEvent \/ Fetch \/ CheckEvents \/ TranslateFetch \/ FinishFetchTranslation
         \/ SendFetch \/ IcacheRetry \/ IcacheResponse \/ IcacheTick \/ SuspendFails
  PROVE  OneChange
<1>1. UNCHANGED <<frag, ready, moved>>
  BY DEF FetchEvent, Fetch, CheckEvents, TranslateFetch, FinishFetchTranslation, SendFetch,
         IcacheRetry, IcacheResponse, IcacheTick, SuspendFails, Fail, instVars, dataVars
<1>2. QED BY <1>1, SameThings DEF OneChange

LEMMA QuietChanges ==
  ASSUME \/ AfterInitiate \/ InitiateMemRead \/ WriteMem \/ InitiateMemAMO
         \/ InitiateMemMgmtCmd \/ TranslateData
         \/ \E piece \in {1, 2} : FinishDataTranslation(piece)
         \/ Drain \/ DrainResume \/ \E t \in Threads : ActivateContext(t)
         \/ Aborted \/ UNCHANGED vars
  PROVE  OneChange
<1>1. UNCHANGED <<frag, ready, moved>>
  <2>1. CASE AfterInitiate BY <2>1 DEF AfterInitiate, instVars, dataVars
  <2>2. CASE InitiateMemRead \/ WriteMem \/ InitiateMemAMO \/ InitiateMemMgmtCmd
    BY <2>2 DEF InitiateMemRead, WriteMem, InitiateMemAMO, InitiateMemMgmtCmd,
                StartTranslation, instVars
  <2>3. CASE TranslateData \/ \E piece \in {1, 2} : FinishDataTranslation(piece)
    BY <2>3 DEF TranslateData, FinishDataTranslation, EndWalks, instVars
  <2>4. CASE Drain \/ DrainResume BY <2>4 DEF Drain, DrainResume, Fail, instVars, dataVars
  <2>5. CASE \E t \in Threads : ActivateContext(t)
    BY <2>5 DEF ActivateContext, instVars, dataVars
  <2>6. CASE Aborted \/ UNCHANGED vars BY <2>6 DEF Aborted, vars, instVars, dataVars
  <2>7. QED BY <2>1, <2>2, <2>3, <2>4, <2>5, <2>6
<1>2. QED BY <1>1, SameThings DEF OneChange

\* An instruction takes effect.
LEMMA EffectChanges ==
  ASSUME Inv, \/ CompleteIfetch \/ Execute \/ AdvanceFault \/ InitiateNothing
              \/ FinishTranslation \/ CompleteDataAccess
  PROVE  OneChange
<1>1. UNCHANGED <<icache, frag, moved>>
  BY DEF CompleteIfetch, Execute, AdvanceFault, InitiateNothing, FinishTranslation,
         CompleteDataAccess, Fail, instVars, dataVars
<1>2. \E f \in Frames \ {"advanceInst", "afterInitiate"} : Top(f)
  BY DEF CompleteIfetch, Execute, AdvanceFault, InitiateNothing, FinishTranslation,
         CompleteDataAccess, Frames
<1>3. ~ready BY <1>2, InFrame
<1>4. QED BY <1>1, <1>3, SameThings DEF OneChange

\* The PC moves past an instruction that has taken effect, unless the last one ended a
\* drain.
Late == Top("advanceInst") /\ ~stay => ready \/ drain = "Signalled"

LEMMA AdvanceChanges ==
  ASSUME Inv, Late, AdvanceInst
  PROVE  OneChange
<1>1. /\ Top("advanceInst") /\ UNCHANGED <<icache, frag, stay>>
      /\ \/ UNCHANGED <<ready, moved>>
         \/ ready' = (ready /\ stay) /\ moved' = IF stay THEN moved ELSE ~moved
  BY DEF AdvanceInst, dataVars
<1>2. UNCHANGED <<Fetching, Live>> BY <1>1, SameThings
<1>3. (ready => ~stay) /\ ready \in BOOLEAN BY <1>1, InFrame DEF Inv, Booleans
<1>4. CASE UNCHANGED <<ready, moved>> BY <1>2, <1>4 DEF OneChange
<1>5. CASE ready' = (ready /\ stay) /\ moved' = IF stay THEN moved ELSE ~moved
  <2>1. CASE ready BY <1>2, <1>3, <1>5, <2>1 DEF OneChange
  <2>2. CASE ~ready /\ stay BY <1>2, <1>3, <1>5, <2>2 DEF OneChange
  <2>3. CASE ~ready /\ ~stay
    <3>1. ready' = ready /\ moved' = ~moved /\ drain = "Signalled"
      BY <1>1, <1>3, <1>5, <2>3 DEF Late
    <3>2. QED BY <1>1, <1>2, <2>3, <3>1 DEF OneChange, MovesAgain
  <2>4. QED BY <2>1, <2>2, <2>3
<1>6. QED BY <1>1, <1>4, <1>5

\* The packets of an access leave while there are none.
LEMMA SendChanges ==
  ASSUME Inv, SendData \/ SendSplitData
  PROVE  OneChange
<1>1. UNCHANGED <<icache, ready, moved>> BY DEF SendData, SendSplitData, instVars
<1>2. Nothing
  <2>1. \E f \in {"sendData", "sendSplitData"} : Called(f)
    BY InFrame DEF SendData, SendSplitData
  <2>2. QED BY <2>1 DEF Called, FetchFrames
<1>3. Live = {} BY <1>2, NoneLive DEF Nothing, NoData, NoPacket
<1>4. Live' \in SUBSET {1, 2} BY DEF Live
<1>5. QED BY <1>1, <1>3, <1>4, SameThings DEF OneChange

\* What the memory system takes or answers is still under way.
LEMMA MemoryChanges ==
  ASSUME Inv, DcacheRetry \/ \E f \in {1, 2} : DcacheResponse(f) \/ RetryResponse(f)
  PROVE  OneChange
<1>1. UNCHANGED <<ready, moved>> BY DEF DcacheRetry, DcacheResponse, RetryResponse, Fail, instVars
<1>2. UNCHANGED Live
  <2>1. CASE \E f \in {1, 2} : DcacheResponse(f) \/ RetryResponse(f)
    <3>1. PICK f \in {1, 2}, place \in {"refused", "tick"} :
             frag[f] # "none" /\ frag' = [frag EXCEPT ![f] = place]
      BY <2>1 DEF DcacheResponse, RetryResponse
    <3>2. frag'[f] # "none" /\ \A g \in {1, 2} \ {f} : frag'[g] = frag[g]
      BY <3>1 DEF Inv, Shapes
    <3>3. QED BY <3>1, <3>2 DEF Live
  <2>2. CASE DcacheRetry
    <3>1. CASE UNCHANGED frag BY <3>1, SameThings
    <3>2. CASE ~UNCHANGED frag
      <4> DEFINE unsent == {f \in {1, 2} : frag[f] = "pending"}
      <4>1. PICK n : Offer(unsent, n) BY <2>2, <3>2 DEF DcacheRetry, Fail, dataVars
      <4>2. \A f \in {1, 2} : IF f \in unsent THEN frag'[f] \in {"sent", "pending"}
                              ELSE frag'[f] = frag[f]
        BY <4>1 DEF Offer
      <4>3. \A f \in {1, 2} : frag'[f] # "none" <=> frag[f] # "none" BY <4>2
      <4>4. QED BY <4>3 DEF Live
    <3>3. QED BY <3>1, <3>2
  <2>3. QED BY <2>1, <2>2
<1>3. QED BY <1>1, <1>2 DEF OneChange

\* A reply is delivered.
LEMMA TickChanges ==
  ASSUME Inv, NEW f \in {1, 2}, DcacheTick(f)
  PROVE  OneChange
<1>1. UNCHANGED <<icache, ready, moved>> BY DEF DcacheTick, instVars
<1>2. frag[f] # "none" /\ frag' = [frag EXCEPT ![f] = "none"] BY DEF DcacheTick
<1>3. f \in Live BY <1>2 DEF Live
<1>4. frag'[f] = "none" /\ \A g \in {1, 2} \ {f} : frag'[g] = frag[g]
  BY <1>2 DEF Inv, Shapes
<1>5. Live' = Live \ {f} BY <1>4 DEF Live
<1>6. QED BY <1>1, <1>3, <1>5, SameThings DEF OneChange

LEMMA NextChanges == ASSUME Inv, Late, [Next]_vars PROVE OneChange
BY FetchChanges, QuietChanges, EffectChanges, AdvanceChanges, SendChanges, MemoryChanges,
   TickChanges
DEF Next, Call_Step, Memory_Step, Tick_Step

\* A failed assertion changes nothing else.
LEMMA FailedSteps ==
  ASSUME [Next]_vars, panic # "none" \/ panic' # "none"
  PROVE  UNCHANGED <<icache, frag, ready, moved>>
<1>1. CASE panic # "none"
  <2>1. UNCHANGED vars
    BY <1>1 DEF Next, Call_Step, Memory_Step, Tick_Step, Aborted, Top, Event, Fetch, CheckEvents,
       TranslateFetch, SendFetch, CompleteIfetch, Execute, AfterInitiate, AdvanceInst,
       AdvanceFault, SuspendFails, InitiateMemRead, WriteMem, InitiateMemAMO, InitiateMemMgmtCmd,
       InitiateNothing, TranslateData, FinishTranslation, SendData, SendSplitData,
       CompleteDataAccess, FinishFetchTranslation, IcacheRetry, IcacheResponse, DcacheRetry,
       FinishDataTranslation, DcacheResponse, RetryResponse, FetchEvent, IcacheTick,
       DcacheTick, ActivateContext, Drain, DrainResume
  <2>2. QED BY <2>1 DEF vars, instVars, dataVars
<1>2. CASE panic = "none" /\ panic' # "none"
  <2>1. UNCHANGED panic \/ (\E where : Fail(where))
    <3>1. CASE Call_Step
      BY <3>1 DEF Call_Step, Fetch, CheckEvents,
       TranslateFetch, SendFetch, CompleteIfetch, Execute, AfterInitiate, AdvanceInst,
       AdvanceFault, SuspendFails, InitiateMemRead, WriteMem, InitiateMemAMO, InitiateMemMgmtCmd,
       InitiateNothing, TranslateData, FinishTranslation, SendData, SendSplitData,
       CompleteDataAccess, StartTranslation, EndWalks
    <3>2. CASE Memory_Step
      BY <3>2 DEF Memory_Step, FinishFetchTranslation, IcacheRetry, IcacheResponse, DcacheRetry,
         FinishDataTranslation, DcacheResponse, RetryResponse, EndWalks, cpuVars
    <3>3. CASE Tick_Step BY <3>3 DEF Tick_Step, FetchEvent, IcacheTick, DcacheTick
    <3>4. CASE (\E t \in Threads : ActivateContext(t)) \/ Drain \/ DrainResume
      BY <3>4 DEF ActivateContext, Drain, DrainResume
    <3>5. CASE Aborted \/ UNCHANGED vars BY <3>5 DEF Aborted, vars, cpuVars
    <3>6. QED BY <3>1, <3>2, <3>3, <3>4, <3>5 DEF Next
  <2>2. QED BY <1>2, <2>1 DEF Fail, instVars, dataVars
<1>3. QED BY <1>1, <1>2

-----------------------------------------------------------------------------
(* What a step leaves on the stack                                         *)

\* The function that runs next is one of S, if the event is not over.
NewTop(S) == stack' # <<>> => Head(stack') \in S
OnFault(S) == IF Faults THEN S ELSE {}

\* A function is called in place of the running one, or the one below it goes on.
LEMMA CalledNext ==
  ASSUME Inv, NEW f, Top(f)
  PROVE  /\ stack # <<>> /\ Head(stack) = f
         /\ \A g \in Frames : Call(g) => /\ stack' # <<>> /\ Head(stack') = g
                                         /\ Len(stack') = Len(stack)
         /\ Return => /\ stack' # <<>> => Head(stack') = "afterInitiate"
                      /\ Len(stack') = Len(stack) - 1
         /\ Len(stack) \in Nat \ {0}
<1>1. stack \in Seq(Frames) /\ stack # <<>> /\ Nested /\ Head(stack) = f
  BY DEF Inv, CoreInv, Chain, Nested, Top
<1>2. Return => Len(stack') = Len(stack) - 1 BY <1>1 DEF Return
<1>3. QED BY <1>1, <1>2, Calls, Returns

\* Functions that lead to a fetch.
LEMMA FetchTops ==
  ASSUME Inv
  PROVE  /\ FetchEvent => NewTop({"fetch"})
         /\ Fetch => NewTop({"checkEvents"})
         /\ CheckEvents => NewTop({"translateFetch", "afterInitiate"})
         /\ TranslateFetch =>
              NewTop({"completeIfetch", "sendFetch", "afterInitiate"} \cup OnFault({"fetchFault"}))
         /\ FinishFetchTranslation => NewTop({"sendFetch"} \cup OnFault({"fetchFault"}))
         /\ SendFetch => \/ Top("sendFetch") /\ NewTop({"afterInitiate"})
                         \/ Top("fetchFault") /\ NewTop({"advanceFault"})
         /\ IcacheTick => NewTop({"completeIfetch"})
         /\ IcacheRetry \/ IcacheResponse => UNCHANGED stack
<1> USE DEF NewTop, Frames
<1>1. FetchEvent => NewTop({"fetch"}) BY DEF FetchEvent, Run
<1>2. Fetch => NewTop({"checkEvents"}) BY CalledNext DEF Fetch
<1>3. CheckEvents => NewTop({"translateFetch", "afterInitiate"}) BY CalledNext DEF CheckEvents
<1>4. TranslateFetch =>
        NewTop({"completeIfetch", "sendFetch", "afterInitiate"} \cup OnFault({"fetchFault"}))
  <2>1. SUFFICES ASSUME TranslateFetch
                 PROVE  NewTop({"completeIfetch", "sendFetch", "afterInitiate"} \cup OnFault({"fetchFault"}))
    OBVIOUS
  <2>2. \/ Call("completeIfetch") \/ Return \/ Call("sendFetch")
        \/ Faults /\ Call("fetchFault")
    BY <2>1 DEF TranslateFetch, AnyFault
  <2>3. Top("translateFetch") BY <2>1 DEF TranslateFetch
  <2>4. QED BY <2>2, <2>3, CalledNext DEF OnFault
<1>5. FinishFetchTranslation => NewTop({"sendFetch"} \cup OnFault({"fetchFault"}))
  <2>1. SUFFICES ASSUME FinishFetchTranslation PROVE NewTop({"sendFetch"} \cup OnFault({"fetchFault"}))
    OBVIOUS
  <2>2. Run("sendFetch") \/ (Faults /\ Run("fetchFault"))
    BY <2>1 DEF FinishFetchTranslation, AnyFault
  <2>3. QED BY <2>2 DEF Run, OnFault
<1>6. SendFetch => \/ Top("sendFetch") /\ NewTop({"afterInitiate"})
                   \/ Top("fetchFault") /\ NewTop({"advanceFault"})
  BY CalledNext DEF SendFetch
<1>7. IcacheTick => NewTop({"completeIfetch"}) BY DEF IcacheTick, Run
<1>8. IcacheRetry \/ IcacheResponse => UNCHANGED stack
  BY DEF IcacheRetry, IcacheResponse, Fail, cpuVars
<1>9. QED BY <1>1, <1>2, <1>3, <1>4, <1>5, <1>6, <1>7, <1>8

\* Functions that execute an instruction.
LEMMA ExecuteTops ==
  ASSUME Inv
  PROVE  /\ CompleteIfetch /\ panic' = "none" => NewTop({"initiateAcc", "advanceInst", "execute"})
         /\ Execute => \/ ready' = TRUE /\ NewTop({"advanceInst"})
                       \/ Faults /\ NewTop({"advanceFault"})
         /\ AfterInitiate =>
              \/ Top("afterInitiate") /\ status = "Running" /\ NewTop({"advanceInst"})
              \/ Top("afterInitiateFault") /\ NewTop({"advanceFault"})
              \/ status # "Running" /\ NewTop({"afterInitiate"})
         /\ AdvanceInst => NewTop({"fetch", "afterInitiate"})
         /\ AdvanceFault => NewTop({"afterInitiate"})
         /\ InitiateNothing => \/ ready' = TRUE /\ NewTop({"afterInitiate"})
                               \/ Faults /\ NewTop({"afterInitiateFault"})
<1> USE DEF NewTop, Frames
<1>1. CompleteIfetch /\ panic' = "none" => NewTop({"initiateAcc", "advanceInst", "execute"})
  <2>1. SUFFICES ASSUME CompleteIfetch, panic' = "none"
                 PROVE  NewTop({"initiateAcc", "advanceInst", "execute"})
    OBVIOUS
  <2>2. PICK op : stack' = (CASE op \in MemOps -> <<"initiateAcc", "afterInitiate">>
                              [] op = "none" -> <<"advanceInst">>
                              [] OTHER -> <<"execute">>) \o Tail(stack)
    BY <2>1 DEF CompleteIfetch, Fail
  <2>3. stack \in Seq(Frames) /\ stack # <<>> BY <2>1 DEF Inv, CompleteIfetch, Top
  <2>4. CASE op \in MemOps
    <3>1. stack' = <<"initiateAcc", "afterInitiate">> \o Tail(stack) BY <2>2, <2>4 DEF MemOps
    <3>2. QED BY <2>3, <3>1
  <2>5. CASE op = "none"
    <3>1. stack' = <<"advanceInst">> \o Tail(stack) BY <2>2, <2>5 DEF MemOps
    <3>2. QED BY <2>3, <3>1
  <2>6. CASE op \notin MemOps /\ op # "none"
    <3>1. stack' = <<"execute">> \o Tail(stack) BY <2>2, <2>6
    <3>2. QED BY <2>3, <3>1
  <2>7. QED BY <2>4, <2>5, <2>6
<1>2. Execute => \/ ready' = TRUE /\ NewTop({"advanceInst"})
                 \/ Faults /\ NewTop({"advanceFault"})
  BY CalledNext DEF Execute
<1>3. AfterInitiate =>
        \/ Top("afterInitiate") /\ status = "Running" /\ NewTop({"advanceInst"})
        \/ Top("afterInitiateFault") /\ NewTop({"advanceFault"})
        \/ status # "Running" /\ NewTop({"afterInitiate"})
  BY CalledNext DEF AfterInitiate, Top
<1>4. AdvanceInst => NewTop({"fetch", "afterInitiate"}) BY CalledNext DEF AdvanceInst
<1>5. AdvanceFault => NewTop({"afterInitiate"}) BY CalledNext DEF AdvanceFault
<1>6. InitiateNothing => \/ ready' = TRUE /\ NewTop({"afterInitiate"})
                         \/ Faults /\ NewTop({"afterInitiateFault"})
  <2>1. SUFFICES ASSUME InitiateNothing
                 PROVE  \/ ready' = TRUE /\ NewTop({"afterInitiate"})
                        \/ Faults /\ NewTop({"afterInitiateFault"})
    OBVIOUS
  <2>2. Top("initiateAcc") BY <2>1 DEF InitiateNothing
  <2>3. CASE ready' = TRUE /\ Return BY <2>2, <2>3, CalledNext
  <2>4. CASE Faults /\ stack' = <<"afterInitiateFault">> \o Tail(Tail(stack))
    <3>1. stack \in Seq(Frames) /\ Len(stack) > 1 /\ Nested
      BY <2>2, InFrame DEF Inv, CoreInv, Chain, Nested
    <3>2. Head(stack') = "afterInitiateFault" BY <2>4, <3>1, FaultCalled
    <3>3. QED BY <2>4, <3>2
  <2>5. QED BY <2>1, <2>3, <2>4 DEF InitiateNothing
<1>7. QED BY <1>1, <1>2, <1>3, <1>4, <1>5, <1>6

\* Functions of a data access.
LEMMA AccessTops ==
  ASSUME Inv
  PROVE  /\ \A split \in BOOLEAN :
              Top("initiateAcc") /\ StartTranslation(split) => NewTop({"translateData"})
         /\ InitiateMemMgmtCmd => NewTop({"sendData"})
         /\ TranslateData \/ (\E f \in {1, 2} : FinishDataTranslation(f)) =>
              /\ NewTop({"finishTranslation", "afterInitiate"})
              /\ acc'.walk = {} => stack' # <<>> /\ Head(stack') = "finishTranslation"
         /\ FinishTranslation =>
              \/ ~acc.fault /\ ~(acc.split /\ inst # "prefetch") /\ NewTop({"sendData"})
              \/ ~acc.fault /\ acc.split /\ NewTop({"sendSplitData"})
              \/ acc.fault /\ inst = "prefetch" /\ ready' = TRUE /\ NewTop({"advanceInst"})
              \/ acc.fault /\ inst # "prefetch" /\ NewTop({"advanceFault"})
         /\ SendData => \/ NewTop({"afterInitiate"})
                        \/ inst = "sc" /\ NewTop({"completeDataAccess"})
                        \/ inst = "prefetch" /\ NewTop({"completeNoAccess"})
         /\ SendSplitData => NewTop({"afterInitiate"})
         /\ (\E f \in {1, 2} : DcacheTick(f)) => NewTop({"completeDataAccess"})
         /\ CompleteDataAccess /\ panic' = "none" =>
              \/ status' # "Running" /\ NewTop({"afterInitiate"})
              \/ ready' = TRUE /\ NewTop({"advanceInst"})
              \/ Faults /\ NewTop({"advanceFault"})
<1> USE DEF NewTop, Frames
<1>1. \A split \in BOOLEAN :
        Top("initiateAcc") /\ StartTranslation(split) => NewTop({"translateData"})
  BY CalledNext DEF StartTranslation
<1>2. InitiateMemMgmtCmd => NewTop({"sendData"}) BY CalledNext DEF InitiateMemMgmtCmd
<1>3. TranslateData \/ (\E f \in {1, 2} : FinishDataTranslation(f)) =>
        /\ NewTop({"finishTranslation", "afterInitiate"})
        /\ acc'.walk = {} => stack' # <<>> /\ Head(stack') = "finishTranslation"
  <2>1. SUFFICES ASSUME TranslateData \/ (\E f \in {1, 2} : FinishDataTranslation(f))
                 PROVE  /\ NewTop({"finishTranslation", "afterInitiate"})
                        /\ acc'.walk = {} => stack' # <<>> /\ Head(stack') = "finishTranslation"
    OBVIOUS
  <2>2. PICK then \in Seq(Frames) :
          /\ then # <<>> => Head(then) = "afterInitiate"
          /\ stack' = (IF acc'.walk = {} THEN <<"finishTranslation">> ELSE <<>>) \o then
    <3>1. CASE TranslateData
      <4>1. stack \in Seq(Frames) /\ stack # <<>> /\ Nested
        BY <3>1 DEF TranslateData, Inv, CoreInv, Chain, Nested, Top
      <4>2. Tail(stack) \in Seq(Frames) /\ (Tail(stack) # <<>> => Head(Tail(stack)) = "afterInitiate")
        BY <4>1 DEF Nested
      <4>3. QED BY <3>1, <4>2 DEF TranslateData, EndWalks
    <3>2. CASE \E f \in {1, 2} : FinishDataTranslation(f)
      <4>1. <<>> \in Seq(Frames) OBVIOUS
      <4>2. QED BY <3>2, <4>1 DEF FinishDataTranslation, EndWalks
    <3>3. QED BY <2>1, <3>1, <3>2
  <2>3. CASE acc'.walk = {}
    <3>1. stack' = <<"finishTranslation">> \o then BY <2>2, <2>3
    <3>2. stack' # <<>> /\ Head(stack') = "finishTranslation" BY <3>1
    <3>3. QED BY <3>2
  <2>4. CASE acc'.walk # {}
    <3>1. stack' = then BY <2>2, <2>4
    <3>2. QED BY <2>2, <2>4, <3>1
  <2>5. QED BY <2>3, <2>4
<1>4. FinishTranslation =>
        \/ ~acc.fault /\ ~(acc.split /\ inst # "prefetch") /\ NewTop({"sendData"})
        \/ ~acc.fault /\ acc.split /\ NewTop({"sendSplitData"})
        \/ acc.fault /\ inst = "prefetch" /\ ready' = TRUE /\ NewTop({"advanceInst"})
        \/ acc.fault /\ inst # "prefetch" /\ NewTop({"advanceFault"})
  BY CalledNext DEF FinishTranslation
<1>5. SendData => \/ NewTop({"afterInitiate"})
                  \/ inst = "sc" /\ NewTop({"completeDataAccess"})
                  \/ inst = "prefetch" /\ NewTop({"completeNoAccess"})
  <2>1. SUFFICES ASSUME SendData
                 PROVE  \/ NewTop({"afterInitiate"})
                        \/ inst = "sc" /\ NewTop({"completeDataAccess"})
                        \/ inst = "prefetch" /\ NewTop({"completeNoAccess"})
    OBVIOUS
  <2>2. Top("sendData") BY <2>1 DEF SendData
  <2>3. \/ Return
        \/ inst = "sc" /\ Call("completeDataAccess")
        \/ inst = "prefetch" /\ Call("completeNoAccess")
    BY <2>1 DEF SendData
  <2>4. QED BY <2>2, <2>3, CalledNext
<1>6. SendSplitData => NewTop({"afterInitiate"}) BY CalledNext DEF SendSplitData
<1>7. (\E f \in {1, 2} : DcacheTick(f)) => NewTop({"completeDataAccess"}) BY DEF DcacheTick, Run
<1>8. CompleteDataAccess /\ panic' = "none" =>
        \/ status' # "Running" /\ NewTop({"afterInitiate"})
        \/ ready' = TRUE /\ NewTop({"advanceInst"})
        \/ Faults /\ NewTop({"advanceFault"})
  <2>1. SUFFICES ASSUME CompleteDataAccess, panic' = "none"
                 PROVE  \/ status' # "Running" /\ NewTop({"afterInitiate"})
                        \/ ready' = TRUE /\ NewTop({"advanceInst"})
                        \/ Faults /\ NewTop({"advanceFault"})
    OBVIOUS
  <2>2. PICK f \in {"completeDataAccess", "completeNoAccess"} : Top(f)
    BY <2>1 DEF CompleteDataAccess
  <2>3. CASE outstanding > 1
    <3>1. /\ f = "completeDataAccess" /\ Delivering
      BY <2>2, <2>3, InFrame DEF Called, FetchFrames, RunFrames, Nothing, NoData, NoPacket
    <3>2. Return /\ UNCHANGED status
      BY <2>1, <2>2, <2>3, <3>1 DEF CompleteDataAccess, Fail, Delivering
    <3>3. QED BY <2>2, <3>1, <3>2, CalledNext DEF Delivering
  <2>4. CASE ~(outstanding > 1)
    <3>1. PICK fault \in AnyFault :
            ready' = ~fault /\ Call(IF fault THEN "advanceFault" ELSE "advanceInst")
      BY <2>1, <2>4 DEF CompleteDataAccess, Fail
    <3>2. QED BY <2>2, <3>1, CalledNext DEF AnyFault
  <2>5. QED BY <2>3, <2>4
<1>9. QED BY <1>1, <1>2, <1>3, <1>4, <1>5, <1>6, <1>7, <1>8

\* Events that call nothing.
LEMMA EventTops ==
  ASSUME \/ DcacheRetry \/ (\E f \in {1, 2} : DcacheResponse(f) \/ RetryResponse(f))
         \/ Drain \/ DrainResume \/ (\E t \in Threads : ActivateContext(t))
  PROVE  stack = <<>> /\ stack' = <<>>
BY DEF DcacheRetry, DcacheResponse, RetryResponse, Drain, DrainResume, ActivateContext, Fail,
       Event, cpuVars

-----------------------------------------------------------------------------
(* The step that fails an assertion                                        *)

\* Functions of an access, and the steps outside of one.
AccessFrames == {"translateData", "finishTranslation", "sendData", "sendSplitData",
                 "completeDataAccess", "completeNoAccess"}
QuietStep ==
  \/ FetchEvent \/ Fetch \/ CheckEvents \/ TranslateFetch \/ FinishFetchTranslation
  \/ SendFetch \/ IcacheTick \/ IcacheRetry \/ IcacheResponse
  \/ CompleteIfetch \/ Execute \/ AfterInitiate \/ AdvanceInst \/ AdvanceFault
  \/ InitiateNothing \/ Drain \/ DrainResume \/ \E t \in Threads : ActivateContext(t)
AccessStep ==
  \/ InitiateMemRead \/ WriteMem \/ InitiateMemAMO \/ InitiateMemMgmtCmd
  \/ TranslateData \/ (\E f \in {1, 2} : FinishDataTranslation(f))
  \/ FinishTranslation \/ SendData \/ SendSplitData \/ CompleteDataAccess
  \/ DcacheRetry \/ \E f \in {1, 2} : DcacheResponse(f) \/ RetryResponse(f) \/ DcacheTick(f)

\* Every step is one of the two kinds, or fails to suspend a thread.
LEMMA Steps ==
  ASSUME [Next]_vars PROVE QuietStep \/ AccessStep \/ SuspendFails \/ UNCHANGED vars
BY DEF Next, Call_Step, Memory_Step, Tick_Step, QuietStep, AccessStep, Aborted

LEMMA GoodSteps ==
  ASSUME [Next]_vars, panic' = "none" PROVE QuietStep \/ AccessStep \/ UNCHANGED vars
BY Steps DEF SuspendFails, Fail

\* A step outside of an access leaves it alone.
LEMMA QuietTop ==
  ASSUME Inv, QuietStep, panic' = "none"
  PROVE  /\ UNCHANGED <<acc, frag, outstanding, dcachePkt, packet>>
         /\ \A f \in AccessFrames : ~Top(f) /\ ~Top(f)'
<1>1. UNCHANGED <<acc, frag, outstanding, dcachePkt, packet>>
  <2>1. CASE \/ FetchEvent \/ Fetch \/ CheckEvents \/ TranslateFetch \/ FinishFetchTranslation
             \/ SendFetch \/ IcacheTick \/ IcacheRetry \/ IcacheResponse
    BY <2>1 DEF FetchEvent, Fetch, CheckEvents, TranslateFetch, FinishFetchTranslation, SendFetch,
                IcacheTick, IcacheRetry, IcacheResponse, Fail, dataVars
  <2>2. CASE CompleteIfetch \/ Execute \/ AfterInitiate \/ AdvanceInst \/ AdvanceFault \/ InitiateNothing
    BY <2>2 DEF CompleteIfetch, Execute, AfterInitiate, AdvanceInst, AdvanceFault, InitiateNothing,
                Fail, dataVars
  <2>3. CASE Drain \/ DrainResume \/ \E t \in Threads : ActivateContext(t)
    BY <2>3 DEF Drain, DrainResume, ActivateContext, Fail, dataVars
  <2>4. QED BY <2>1, <2>2, <2>3 DEF QuietStep
<1>2. ASSUME NEW f \in AccessFrames PROVE ~Top(f)
  BY DEF QuietStep, AccessFrames, Top, Event, FetchEvent, Fetch, CheckEvents, TranslateFetch,
         FinishFetchTranslation, SendFetch, IcacheTick, IcacheRetry, IcacheResponse,
         CompleteIfetch, Execute, AfterInitiate, AdvanceInst, AdvanceFault, InitiateNothing,
         Drain, DrainResume, ActivateContext
<1>3. stack' # <<>> => Head(stack') \notin AccessFrames
  <2>1. CASE \/ FetchEvent \/ Fetch \/ CheckEvents \/ TranslateFetch \/ FinishFetchTranslation
             \/ SendFetch \/ IcacheTick
    BY <2>1, FetchTops DEF NewTop, AccessFrames, OnFault
  <2>2. CASE CompleteIfetch \/ Execute \/ AfterInitiate \/ AdvanceInst \/ AdvanceFault \/ InitiateNothing
    BY <2>2, ExecuteTops DEF NewTop, AccessFrames
  <2>3. CASE Drain \/ DrainResume \/ \E t \in Threads : ActivateContext(t)
    BY <2>3, EventTops
  <2>4. CASE IcacheRetry \/ IcacheResponse
    BY <2>4, FetchTops DEF IcacheRetry, IcacheResponse, Event
  <2>5. QED BY <2>1, <2>2, <2>3, <2>4 DEF QuietStep
<1>4. QED BY <1>1, <1>2, <1>3 DEF Top

\* A packet is kept for the retry only while the status says so.
PacketInv == panic = "none" /\ dcachePkt # 0 => status = "DcacheRetry"

\* Only a step that refuses a packet keeps one.
LEMMA PacketKept == ASSUME Inv, PacketInv, [Next]_vars PROVE PacketInv'
<1> SUFFICES ASSUME panic' = "none", dcachePkt' # 0 PROVE status' = "DcacheRetry"
  BY DEF PacketInv
<1>1. ASSUME \E P, n : Offer(P, n) PROVE status' = "DcacheRetry"
  BY <1>1 DEF Offer
<1>2. CASE SendData
  <2>1. \/ HandleReadPacket \/ HandleWritePacket \/ UNCHANGED dcachePkt BY <1>2 DEF SendData
  <2>2. CASE HandleReadPacket \/ HandleWritePacket
    BY <1>1, <2>2 DEF HandleReadPacket, HandleWritePacket, LocalAccess
  <2>3. CASE UNCHANGED dcachePkt
    <3>1. status = "Running" /\ panic = "none"
      BY <1>2, InFrame DEF SendData, Called, FetchFrames, RunFrames
    <3>2. QED BY <2>3, <3>1 DEF PacketInv
  <2>4. QED BY <2>1, <2>2, <2>3
<1>3. CASE SendSplitData BY <1>1, <1>3 DEF SendSplitData
<1>4. CASE DcacheRetry BY <1>1, <1>4 DEF DcacheRetry, Fail
<1>5. ASSUME UNCHANGED dcachePkt, panic = "none", UNCHANGED status \/ status # "DcacheRetry"
      PROVE  status' = "DcacheRetry"
  BY <1>5 DEF PacketInv
<1>6. CASE \/ InitiateMemRead \/ WriteMem \/ InitiateMemAMO \/ InitiateMemMgmtCmd
           \/ TranslateData \/ FinishTranslation
  <2>1. PICK f \in {"initiateAcc", "translateData", "finishTranslation"} : Top(f)
    BY <1>6 DEF InitiateMemRead, WriteMem, InitiateMemAMO, InitiateMemMgmtCmd, TranslateData,
                FinishTranslation
  <2>2. panic = "none" /\ status # "DcacheRetry"
    BY <2>1, InFrame DEF Called, FetchFrames, RunFrames, InTranslation
  <2>3. UNCHANGED dcachePkt
    BY <1>6 DEF InitiateMemRead, WriteMem, InitiateMemAMO, InitiateMemMgmtCmd, TranslateData,
                FinishTranslation, StartTranslation, EndWalks
  <2>4. QED BY <1>5, <2>2, <2>3
<1>7. CASE \E f \in {1, 2} : \/ FinishDataTranslation(f) \/ DcacheResponse(f)
                             \/ RetryResponse(f) \/ DcacheTick(f)
  BY <1>5, <1>7 DEF FinishDataTranslation, DcacheResponse, RetryResponse, DcacheTick, EndWalks,
                    cpuVars, Event
<1>8. CASE CompleteDataAccess
  <2>1. CASE status = "DcacheRetry"
    <3>1. Top("completeDataAccess")
      BY <1>8, <2>1, InFrame DEF CompleteDataAccess, Called, FetchFrames, RunFrames
    <3>2. QED BY <1>8, <2>1, <3>1 DEF CompleteDataAccess, Fail
  <2>2. CASE status # "DcacheRetry"
    <3>1. UNCHANGED dcachePkt /\ panic = "none"
      BY <1>8 DEF CompleteDataAccess, Fail, dataVars, Top
    <3>2. QED BY <1>5, <2>2, <3>1
  <2>3. QED BY <2>1, <2>2
<1>9. CASE QuietStep
  <2>1. UNCHANGED dcachePkt BY <1>9, QuietTop
  <2>2. CASE \/ FetchEvent \/ FinishFetchTranslation \/ IcacheTick \/ IcacheResponse \/ Drain
    BY <1>5, <2>1, <2>2 DEF FetchEvent, FinishFetchTranslation, IcacheTick, IcacheResponse, Drain,
       Event, Fail, cpuVars
  <2>3. CASE IcacheRetry
    BY <1>5, <2>1, <2>3 DEF IcacheRetry, Event, Fail
  <2>4. CASE \E t \in Threads : ActivateContext(t)
    <3>1. panic = "none" /\ (UNCHANGED status \/ status = "Idle")
      BY <2>4 DEF ActivateContext, Activate, Event
    <3>2. QED BY <1>5, <2>1, <3>1
  <2>5. CASE DrainResume
    <3>1. Event /\ drain = "Drained" BY <2>5 DEF DrainResume
    <3>2. panic = "none" /\ status \in {"Idle", "Running"} BY <3>1, InEvent
    <3>3. QED BY <1>5, <2>1, <3>2
  <2>6. CASE \/ Fetch \/ CheckEvents \/ TranslateFetch \/ SendFetch \/ CompleteIfetch
             \/ Execute \/ AdvanceInst \/ AdvanceFault \/ InitiateNothing
    <3>1. PICK f \in {"fetch", "checkEvents", "translateFetch", "sendFetch", "fetchFault",
                      "completeIfetch", "execute", "advanceInst", "advanceFault", "initiateAcc"} : Top(f)
      BY <2>6 DEF Fetch, CheckEvents, TranslateFetch, SendFetch, CompleteIfetch, Execute,
                  AdvanceInst, AdvanceFault, InitiateNothing
    <3>2. panic = "none" /\ status # "DcacheRetry"
      BY <3>1, InFrame DEF Called, FetchFrames, RunFrames
    <3>3. QED BY <1>5, <2>1, <3>2
  <2>7. CASE AfterInitiate
    BY <1>5, <2>1, <2>7 DEF AfterInitiate, Top
  <2>8. QED BY <1>9, <2>2, <2>3, <2>4, <2>5, <2>6, <2>7 DEF QuietStep
<1>10. CASE UNCHANGED vars BY <1>5, <1>10 DEF vars, cpuVars, dataVars
<1>11. QED BY <1>2, <1>3, <1>4, <1>6, <1>7, <1>8, <1>9, <1>10, GoodSteps DEF AccessStep

\* The assertions that can fail are that of completeDataAccess, for a reply to an access
\* one of whose packets has still to be taken, and that of suspendContext, when a PC
\* event suspends the thread before the first fetch of a fault handler.
LEMMA FailsOnly ==
  ASSUME Inv, PacketInv, [Next]_vars, panic = "none"
  PROVE  \/ panic' = "none"
         \/ panic' = "completeDataAccess" /\ Top("completeDataAccess") /\ status = "DcacheRetry"
         \/ panic' = "suspendContext" /\ Top("checkEvents") /\ status = "Faulting" /\ Suspends
<1>1. CASE IcacheRetry
  <2>1. Event /\ icache.retry BY <1>1 DEF IcacheRetry
  <2>2. status = "IcacheRetry"
    BY <2>1, InEvent DEF AtRest, Parked, InFetch, InAccess, Stopped, Nothing, NoFetch, Icache
  <2>3. QED BY <1>1, <2>2 DEF IcacheRetry
<1>2. CASE IcacheResponse
  <2>1. Event /\ icache.sent > 0 BY <1>2 DEF IcacheResponse
  <2>2. ~icache.tick
    BY <2>1, InEvent DEF AtRest, Parked, InFetch, InAccess, Stopped, Nothing, NoFetch, Icache
  <2>3. QED BY <1>2, <2>2 DEF IcacheResponse, cpuVars
<1>3. CASE CompleteIfetch
  <2>1. status = "IcacheWaitResponse"
    BY <1>3, InFrame DEF CompleteIfetch, Called, FetchFrames, RunFrames
  <2>2. QED BY <1>3, <2>1 DEF CompleteIfetch
<1>4. CASE DcacheRetry
  <2>1. status = "DcacheRetry" BY <1>4 DEF DcacheRetry, PacketInv
  <2>2. QED BY <1>4, <2>1 DEF DcacheRetry
<1>5. CASE DrainResume
  <2>1. ~fetchEvent BY <1>5, InEvent DEF DrainResume, Nothing
  <2>2. QED BY <1>5, <2>1 DEF DrainResume
<1>6. CASE CompleteDataAccess
  <2>1. CASE Top("completeDataAccess") /\ status # "DcacheRetry"
    <3>1. status \in {"DcacheWaitResponse", "DTBWaitResponse"}
      BY <2>1, InFrame DEF Called, FetchFrames, RunFrames, Delivering
    <3>2. QED BY <1>6, <3>1 DEF CompleteDataAccess
  <2>2. CASE ~Top("completeDataAccess") BY <1>6, <2>2 DEF CompleteDataAccess
  <2>3. CASE Top("completeDataAccess") /\ status = "DcacheRetry"
    BY <1>6, <2>3 DEF CompleteDataAccess, Fail
  <2>4. QED BY <2>1, <2>2, <2>3
<1>7. ASSUME \/ FetchEvent \/ Fetch \/ CheckEvents \/ TranslateFetch \/ FinishFetchTranslation
             \/ SendFetch \/ IcacheTick \/ Execute \/ AfterInitiate \/ AdvanceInst \/ AdvanceFault
             \/ InitiateNothing \/ Drain \/ \E t \in Threads : ActivateContext(t)
      PROVE  panic' = "none"
  BY <1>7 DEF FetchEvent, Fetch, CheckEvents, TranslateFetch, FinishFetchTranslation,
       SendFetch, IcacheTick, Execute, AfterInitiate, AdvanceInst, AdvanceFault,
       InitiateNothing, Drain, ActivateContext
<1>8. ASSUME \/ InitiateMemRead \/ WriteMem \/ InitiateMemAMO \/ InitiateMemMgmtCmd
             \/ TranslateData \/ (\E f \in {1, 2} : FinishDataTranslation(f))
             \/ FinishTranslation \/ SendData \/ SendSplitData
             \/ \E f \in {1, 2} : DcacheResponse(f) \/ RetryResponse(f) \/ DcacheTick(f)
      PROVE  panic' = "none"
  BY <1>8 DEF InitiateMemRead, WriteMem, InitiateMemAMO, InitiateMemMgmtCmd, StartTranslation,
       TranslateData, FinishDataTranslation, EndWalks, FinishTranslation, SendData, SendSplitData,
       DcacheResponse, RetryResponse, DcacheTick, cpuVars
<1>9. CASE UNCHANGED vars BY <1>9 DEF vars, cpuVars
<1>10. CASE SuspendFails
  <2>1. /\ Suspends /\ status \notin {"Idle", "Running"} /\ panic' = "suspendContext"
        /\ Top("checkEvents") \/ Top("execute") \/ Top("advanceFault")
    BY <1>10 DEF SuspendFails, Fail
  <2>2. ~Top("execute") /\ ~Top("advanceFault")
    BY <2>1, InFrame DEF Called, FetchFrames, RunFrames
  <2>3. Top("checkEvents") /\ status = "Faulting"
    BY <2>1, <2>2, InFrame DEF Called, FetchFrames, RunFrames
  <2>4. QED BY <2>1, <2>3
<1>11. QED BY <1>1, <1>2, <1>3, <1>4, <1>5, <1>6, <1>7, <1>8, <1>9, <1>10, Steps
  DEF QuietStep, AccessStep

\* After a failed assertion nothing happens.
LEMMA NothingAfter == ASSUME [Next]_vars, panic # "none" PROVE UNCHANGED vars
BY DEF Next, Call_Step, Memory_Step, Tick_Step, Aborted, Top, Event, Fetch, CheckEvents,
       TranslateFetch, SendFetch, CompleteIfetch, Execute, AfterInitiate, AdvanceInst,
       AdvanceFault, SuspendFails, InitiateMemRead, WriteMem, InitiateMemAMO,
       InitiateMemMgmtCmd, InitiateNothing, TranslateData, FinishTranslation, SendData,
       SendSplitData, CompleteDataAccess, FinishFetchTranslation, IcacheRetry, IcacheResponse, DcacheRetry,
       FinishDataTranslation, DcacheResponse, RetryResponse, FetchEvent, IcacheTick,
       DcacheTick, ActivateContext, Drain, DrainResume

LEMMA PanicStays == ASSUME [Next]_vars, panic # "none" PROVE UNCHANGED panic
BY NothingAfter DEF vars, cpuVars

\* No access is split, so that a reply finds no packet that has still to be taken.
WholeInv ==
  panic = "none" => /\ ~acc.split /\ outstanding = 0 /\ ~Top("sendSplitData")
                    /\ Top("completeDataAccess") => status # "DcacheRetry"

\* Every step keeps it, as long as no assertion fails.
LEMMA WholeKept ==
  ASSUME ~Split, Inv, WholeInv, [Next]_vars, panic = "none" PROVE WholeInv'
<1> SUFFICES ASSUME panic' = "none" PROVE WholeInv'
  BY DEF WholeInv
<1>1. /\ ~acc.split /\ outstanding = 0 /\ ~Top("sendSplitData")
      /\ Top("completeDataAccess") => status # "DcacheRetry"
  BY DEF WholeInv
<1>2. ASSUME NewTop(Frames \ {"sendSplitData", "completeDataAccess"}), ~acc'.split, outstanding' = 0
      PROVE  WholeInv'
  BY <1>2 DEF NewTop, WholeInv, Top
<1>3. CASE QuietStep BY <1>1, <1>3, QuietTop DEF WholeInv, AccessFrames
<1>4. CASE InitiateMemRead \/ WriteMem \/ InitiateMemAMO
  <2>1. Top("initiateAcc") /\ StartTranslation(FALSE)
    BY <1>4 DEF InitiateMemRead, WriteMem, InitiateMemAMO, CrossesLine
  <2>2. NewTop({"translateData"}) BY <2>1, AccessTops
  <2>3. ~acc'.split /\ UNCHANGED outstanding BY <2>1 DEF StartTranslation, MarkedAccess
  <2>4. QED BY <1>1, <1>2, <2>2, <2>3 DEF NewTop, Frames
<1>5. CASE InitiateMemMgmtCmd
  <2>1. NewTop({"sendData"}) BY <1>5, AccessTops
  <2>2. ~acc'.split /\ UNCHANGED outstanding BY <1>5 DEF InitiateMemMgmtCmd, NoAccess
  <2>3. QED BY <1>1, <1>2, <2>1, <2>2 DEF NewTop, Frames
<1>6. CASE TranslateData \/ \E f \in {1, 2} : FinishDataTranslation(f)
  <2>1. NewTop({"finishTranslation", "afterInitiate"}) BY <1>6, AccessTops
  <2>2. acc'.split = acc.split /\ UNCHANGED outstanding
    BY <1>6 DEF TranslateData, FinishDataTranslation, EndWalks, Inv, Shapes
  <2>3. QED BY <1>1, <1>2, <2>1, <2>2 DEF NewTop, Frames
<1>7. CASE FinishTranslation
  <2>1. NewTop({"sendData", "advanceInst", "advanceFault"})
    BY <1>1, <1>7, AccessTops DEF NewTop
  <2>2. acc' \in {acc, NoAccess} /\ UNCHANGED outstanding BY <1>7 DEF FinishTranslation
  <2>3. QED BY <1>1, <1>2, <2>1, <2>2 DEF NewTop, Frames, NoAccess
<1>8. CASE SendData
  <2>1. UNCHANGED <<acc, outstanding>> /\ Top("sendData") BY <1>8 DEF SendData
  <2>2. \/ status' = "DcacheWaitResponse"
        \/ NewTop({"afterInitiate", "completeNoAccess"})
    <3>1. \/ Return \/ status' = "DcacheWaitResponse" \/ Call("completeNoAccess")
      BY <1>8 DEF SendData
    <3>2. QED BY <2>1, <3>1, CalledNext DEF NewTop, Frames
  <2>3. NewTop({"afterInitiate", "completeNoAccess", "completeDataAccess"})
    BY <1>8, AccessTops DEF NewTop
  <2>4. QED BY <1>1, <2>1, <2>2, <2>3 DEF NewTop, WholeInv, Top
<1>9. CASE SendSplitData BY <1>1, <1>9 DEF SendSplitData
<1>10. CASE CompleteDataAccess
  <2>1. NewTop({"afterInitiate", "advanceInst", "advanceFault"})
    BY <1>10, AccessTops DEF NewTop
  <2>2. acc' = NoAccess /\ outstanding' = 0
    BY <1>1, <1>10 DEF CompleteDataAccess, Fail
  <2>3. QED BY <1>2, <2>1, <2>2 DEF NewTop, Frames, NoAccess
<1>11. CASE DcacheRetry \/ \E f \in {1, 2} : DcacheResponse(f) \/ RetryResponse(f)
  <2>1. stack' = <<>> BY <1>11, EventTops
  <2>2. UNCHANGED <<acc, outstanding>>
    BY <1>11 DEF DcacheRetry, DcacheResponse, RetryResponse, Fail
  <2>3. QED BY <1>1, <1>2, <2>1, <2>2 DEF NewTop
<1>12. CASE \E f \in {1, 2} : DcacheTick(f)
  <2>1. PICK f \in {1, 2} : DcacheTick(f) BY <1>12
  <2>2. Event /\ frag[f] \in {"tick", "ipr"} /\ UNCHANGED <<acc, outstanding, status>>
    BY <2>1 DEF DcacheTick
  <2>3. InMemory
    <3>1. ~NoPacket BY <2>2 DEF NoPacket
    <3>2. QED
      BY <2>2, <3>1, InEvent
      DEF AtRest, Parked, InFetch, InAccess, InTranslation, InMemory, Stopped, Nothing, NoData
  <2>4. frag[1] # "none" /\ frag[2] = "none" /\ dcachePkt \in 0 .. 2
    BY <1>1, <2>3 DEF InMemory, Counted, Inv, Shapes
  <2>5. frag[1] # "pending" BY <2>2, <2>4
  <2>6. status = "DcacheWaitResponse" BY <2>3, <2>4, <2>5 DEF InMemory
  <2>7. NewTop({"completeDataAccess"}) BY <1>12, AccessTops
  <2>8. QED BY <1>1, <2>2, <2>6, <2>7 DEF WholeInv, NewTop, Top
<1>13. CASE UNCHANGED vars
  <2>1. UNCHANGED <<stack, panic, status, acc, outstanding>>
    BY <1>13 DEF vars, cpuVars, dataVars
  <2>2. QED BY <1>1, <2>1 DEF WholeInv, Top
<1>14. QED
  BY <1>3, <1>4, <1>5, <1>6, <1>7, <1>8, <1>9, <1>10, <1>11, <1>12, <1>13, GoodSteps DEF AccessStep

-----------------------------------------------------------------------------
(* The packets of a split access                                           *)

\* An access is split from its translation to its last reply, and only while its packets
\* are out are replies counted.
SplitInv ==
  panic = "none" =>
    /\ acc.split => \/ acc.walk # {} \/ Top("finishTranslation") \/ Top("sendSplitData")
                    \/ inst = "prefetch" /\ (Top("sendData") \/ Top("completeNoAccess"))
                    \/ outstanding > 0
    /\ outstanding > 0 \/ Top("sendSplitData") => acc.split /\ inst # "prefetch"

\* Where the packets can be.
LEMMA WhereItIs ==
  ASSUME Inv, panic = "none"
  PROVE  \/ NoPacket
         \/ InMemory /\ ~Top("completeDataAccess")
         \/ Top("completeDataAccess") /\ Delivering
<1>1. CASE stack = <<>>
  BY <1>1, InEvent
  DEF Event, AtRest, Parked, InFetch, InAccess, InTranslation, Stopped, Nothing, NoData, Top
<1>2. CASE stack # <<>>
  <2>1. Top(Head(stack)) BY <1>2 DEF Top
  <2>2. Called(Head(stack)) BY <2>1, InFrame
  <2>3. QED
    BY <1>2, <2>1, <2>2
    DEF Called, Parked, InFetch, InAccess, InTranslation, Stopped, Nothing, NoData, Top
<1>3. QED BY <1>1, <1>2

\* Every step keeps it.
LEMMA SplitKept ==
  ASSUME Inv, SplitInv, [Next]_vars, panic = "none" PROVE SplitInv'
<1> SUFFICES ASSUME panic' = "none" PROVE SplitInv'
  BY DEF SplitInv
<1>1. /\ acc.split => \/ acc.walk # {} \/ Top("finishTranslation") \/ Top("sendSplitData")
                      \/ inst = "prefetch" /\ (Top("sendData") \/ Top("completeNoAccess"))
                      \/ outstanding > 0
      /\ outstanding > 0 \/ Top("sendSplitData") => acc.split /\ inst # "prefetch"
  BY DEF SplitInv
<1>2. ASSUME ~acc'.split, outstanding' = 0, NewTop(Frames \ {"sendSplitData"}) PROVE SplitInv'
  BY <1>2 DEF SplitInv, NewTop, Top
<1>3. ASSUME NEW f, Top(f), Called(f), f \in {"completeIfetch", "initiateAcc"}
      PROVE  ~acc.split /\ outstanding = 0 /\ acc.walk = {}
  <2>1. outstanding = 0 /\ acc.walk = {}
    BY <1>3 DEF Called, FetchFrames, RunFrames, Nothing, NoData, NoPacket
  <2>2. QED BY <1>1, <1>3, <2>1 DEF Top
<1>4. CASE QuietStep /\ ~CompleteIfetch
  <2>1. UNCHANGED inst
    BY <1>4 DEF QuietStep, FetchEvent, Fetch, CheckEvents, TranslateFetch, FinishFetchTranslation,
                SendFetch, IcacheTick, IcacheRetry, IcacheResponse, Execute, AfterInitiate,
                AdvanceInst, AdvanceFault, InitiateNothing, Drain, DrainResume, ActivateContext,
                Fail, instVars
  <2>2. QED BY <1>1, <1>4, <2>1, QuietTop DEF AccessFrames, SplitInv
<1>5. CASE CompleteIfetch
  <2>1. ~acc.split /\ outstanding = 0
    BY <1>3, <1>5, InFrame DEF CompleteIfetch
  <2>2. UNCHANGED <<acc, outstanding>> BY <1>5, QuietTop DEF QuietStep
  <2>3. NewTop({"initiateAcc", "advanceInst", "execute"}) BY <1>5, ExecuteTops
  <2>4. QED BY <1>2, <2>1, <2>2, <2>3 DEF NewTop, Frames
<1>6. CASE InitiateMemRead \/ WriteMem \/ InitiateMemAMO
  <2>1. PICK split \in BOOLEAN : Top("initiateAcc") /\ StartTranslation(split)
    BY <1>6 DEF InitiateMemRead, WriteMem, InitiateMemAMO, CrossesLine
  <2>2. outstanding = 0 BY <1>3, <2>1, InFrame
  <2>3. acc'.walk # {} /\ UNCHANGED outstanding
    BY <2>1 DEF StartTranslation, MarkedAccess, Pieces
  <2>4. NewTop({"translateData"}) BY <2>1, AccessTops
  <2>5. QED BY <2>2, <2>3, <2>4 DEF NewTop, SplitInv, Top
<1>7. CASE InitiateMemMgmtCmd
  <2>1. outstanding = 0 BY <1>3, <1>7, InFrame DEF InitiateMemMgmtCmd
  <2>2. ~acc'.split /\ UNCHANGED outstanding BY <1>7 DEF InitiateMemMgmtCmd, NoAccess
  <2>3. NewTop({"sendData"}) BY <1>7, AccessTops
  <2>4. QED BY <1>2, <2>1, <2>2, <2>3 DEF NewTop, Frames
<1>8. CASE TranslateData \/ \E f \in {1, 2} : FinishDataTranslation(f)
  <2>1. outstanding = 0
    <3>1. CASE TranslateData
      BY <3>1, InFrame DEF TranslateData, Called, FetchFrames, RunFrames, InTranslation, NoPacket
    <3>2. CASE \E f \in {1, 2} : FinishDataTranslation(f)
      <4>1. Event /\ acc.walk # {} BY <3>2 DEF FinishDataTranslation
      <4>2. QED
        BY <4>1, InEvent DEF AtRest, Parked, InFetch, InAccess, InTranslation, InMemory, Stopped,
                             Nothing, NoData, NoPacket
    <3>3. QED BY <1>8, <3>1, <3>2
  <2>2. UNCHANGED outstanding BY <1>8 DEF TranslateData, FinishDataTranslation, EndWalks
  <2>3. /\ NewTop({"finishTranslation", "afterInitiate"})
        /\ acc'.walk = {} => stack' # <<>> /\ Head(stack') = "finishTranslation"
    BY <1>8, AccessTops
  <2>4. QED BY <2>1, <2>2, <2>3 DEF SplitInv, NewTop, Top
<1>9. CASE FinishTranslation
  <2>1. Top("finishTranslation") /\ UNCHANGED <<inst, outstanding>>
    BY <1>9 DEF FinishTranslation
  <2>2. outstanding = 0
    BY <2>1, InFrame DEF Called, FetchFrames, RunFrames, Nothing, NoData, NoPacket
  <2>3. CASE acc.fault
    <3>1. ~acc'.split BY <1>9, <2>3 DEF FinishTranslation, NoAccess
    <3>2. NewTop({"advanceInst", "advanceFault"})
      BY <1>9, <2>3, AccessTops DEF NewTop
    <3>3. QED BY <1>2, <2>1, <2>2, <3>1, <3>2 DEF NewTop, Frames
  <2>4. CASE ~acc.fault /\ acc.split /\ inst # "prefetch"
    <3>1. Call("sendSplitData") /\ UNCHANGED acc BY <1>9, <2>4 DEF FinishTranslation
    <3>2. Top("sendSplitData")' BY <2>1, <3>1, CalledNext DEF Top, Frames
    <3>3. QED BY <2>1, <2>2, <2>4, <3>1, <3>2 DEF SplitInv
  <2>5. CASE ~acc.fault /\ ~(acc.split /\ inst # "prefetch")
    <3>1. Call("sendData") /\ UNCHANGED acc BY <1>9, <2>5 DEF FinishTranslation
    <3>2. Top("sendData")' /\ ~Top("sendSplitData")'
      BY <2>1, <3>1, CalledNext DEF Top, Frames
    <3>3. QED BY <2>1, <2>2, <2>5, <3>1, <3>2 DEF SplitInv
  <2>6. QED BY <2>3, <2>4, <2>5
<1>10. CASE SendData
  <2>1. Top("sendData") /\ UNCHANGED <<acc, outstanding, inst>> BY <1>10 DEF SendData, instVars
  <2>2. outstanding = 0 /\ acc.walk = {}
    BY <2>1, InFrame DEF Called, FetchFrames, RunFrames, Nothing, NoData, NoPacket
  <2>3. acc.split => inst = "prefetch" BY <1>1, <2>1, <2>2 DEF Top
  <2>4. CASE inst = "prefetch"
    <3>1. Call("completeNoAccess") BY <1>10, <2>4 DEF SendData
    <3>2. Top("completeNoAccess")' /\ ~Top("sendSplitData")'
      BY <2>1, <3>1, CalledNext DEF Top, Frames
    <3>3. QED BY <2>1, <2>2, <2>4, <3>2 DEF SplitInv
  <2>5. CASE inst # "prefetch"
    <3>1. NewTop({"afterInitiate", "completeDataAccess"}) BY <1>10, <2>5, AccessTops DEF NewTop
    <3>2. QED BY <1>2, <2>1, <2>2, <2>3, <2>5, <3>1 DEF NewTop, Frames
  <2>6. QED BY <2>4, <2>5
<1>11. CASE SendSplitData
  <2>1. acc.split /\ inst # "prefetch" BY <1>1, <1>11 DEF SendSplitData
  <2>2. outstanding' = 2 /\ UNCHANGED <<acc, inst>>
    BY <1>11 DEF SendSplitData, TwoFragments, instVars
  <2>3. outstanding' > 0 BY <2>2
  <2>4. QED BY <2>1, <2>2, <2>3 DEF SplitInv
<1>12. CASE CompleteDataAccess
  <2>1. NewTop({"afterInitiate", "advanceInst", "advanceFault"})
    BY <1>12, AccessTops DEF NewTop
  <2>2. CASE outstanding > 1
    <3>1. PICK f \in {"completeDataAccess", "completeNoAccess"} : Top(f)
      BY <1>12 DEF CompleteDataAccess
    <3>2. f = "completeDataAccess" /\ Delivering
      BY <2>2, <3>1, InFrame DEF Called, FetchFrames, RunFrames, Nothing, NoData, NoPacket
    <3>3. outstanding = 2 BY <2>2, <3>2 DEF Delivering
    <3>4. outstanding' = outstanding - 1 /\ UNCHANGED <<acc, inst>>
      BY <1>12, <2>2 DEF CompleteDataAccess, Fail, instVars
    <3>5. outstanding > 0 /\ outstanding' > 0 BY <3>3, <3>4
    <3>6. QED BY <1>1, <3>4, <3>5 DEF SplitInv
  <2>3. CASE ~(outstanding > 1)
    <3>1. outstanding' = 0 /\ acc' = NoAccess
      BY <1>12, <2>3 DEF CompleteDataAccess, Fail
    <3>2. QED BY <1>2, <2>1, <3>1 DEF NewTop, Frames, NoAccess
  <2>4. QED BY <2>2, <2>3
<1>13. CASE DcacheRetry \/ \E f \in {1, 2} : DcacheResponse(f) \/ RetryResponse(f) \/ DcacheTick(f)
  <2>1. UNCHANGED <<acc, outstanding, inst>>
    BY <1>13 DEF DcacheRetry, DcacheResponse, RetryResponse, DcacheTick, Fail, instVars
  <2>2. stack = <<>> /\ NewTop({"completeDataAccess"})
    BY <1>13, EventTops, AccessTops DEF DcacheTick, Event, NewTop
  <2>3. ~Top("sendSplitData")' BY <2>2 DEF NewTop, Top
  <2>4. QED BY <1>1, <2>1, <2>2, <2>3 DEF SplitInv, Top
<1>14. CASE UNCHANGED vars
  <2>1. UNCHANGED <<stack, panic, acc, outstanding, inst>>
    BY <1>14 DEF vars, cpuVars, dataVars, instVars
  <2>2. QED BY <1>1, <2>1 DEF SplitInv, Top
<1>15. QED
  BY <1>4, <1>5, <1>6, <1>7, <1>8, <1>9, <1>10, <1>11, <1>12, <1>13, <1>14, GoodSteps
  DEF QuietStep, AccessStep

\* The counter of a state: a reply that is being delivered is no longer a packet.
LEMMA InvCounted == ASSUME Inv, SplitInv, panic = "none" PROVE SplitCounted
<1> DEFINE open == /\ acc.split /\ ~Top("sendSplitData") /\ acc.walk = {}
                   /\ inst # "prefetch" /\ ~Top("finishTranslation")
           delivered == IF Top("completeDataAccess") THEN 1 ELSE 0
<1>1. SUFFICES outstanding = IF open THEN Cardinality(Live) + delivered ELSE 0
  BY DEF SplitCounted
<1>2. open => outstanding > 0 BY DEF SplitInv
<1>3. CASE NoPacket
  <2>1. outstanding = 0 /\ ~(outstanding > 0) BY <1>3 DEF NoPacket
  <2>2. QED BY <1>2, <2>1
<1>4. CASE ~NoPacket /\ InMemory /\ ~Top("completeDataAccess")
  <2>1. acc.walk = {} /\ Counted BY <1>4 DEF InMemory
  <2>2. CASE outstanding = 0
    <3>1. ~(outstanding > 0) BY <2>2
    <3>2. QED BY <1>2, <2>2, <3>1
  <2>3. CASE outstanding # 0
    <3>1. outstanding \in {1, 2} /\ outstanding > 0 BY <2>1, <2>3 DEF Counted
    <3>2. open
      <4>1. acc.split /\ inst # "prefetch" BY <3>1 DEF SplitInv
      <4>2. ~Top("sendSplitData") /\ ~Top("finishTranslation")
        BY <1>4, InFrame DEF Called, FetchFrames, RunFrames, Nothing, NoData
      <4>3. QED BY <2>1, <4>1, <4>2
    <3>3. Cardinality(Live) = outstanding
      <4>1. CASE outstanding = 1 /\ frag[1] # "none" /\ frag[2] = "none"
        <5>1. Live = {1} BY <4>1 DEF Live
        <5>2. QED BY <4>1, <5>1, FS_Singleton
      <4>2. CASE outstanding = 1 /\ frag[1] = "none" /\ frag[2] # "none"
        <5>1. Live = {2} BY <4>2 DEF Live
        <5>2. QED BY <4>2, <5>1, FS_Singleton
      <4>3. CASE outstanding = 2 /\ frag[1] # "none" /\ frag[2] # "none"
        <5>1. Live = {1, 2} BY <4>3 DEF Live
        <5>2. Cardinality({1, 2}) = 2 BY Sizes
        <5>3. QED BY <4>3, <5>1, <5>2
      <4>4. QED BY <2>1, <2>3, <4>1, <4>2, <4>3 DEF Counted
    <3>4. QED BY <1>4, <3>1, <3>2, <3>3
  <2>4. QED BY <2>2, <2>3
<1>5. CASE ~NoPacket /\ Top("completeDataAccess") /\ Delivering
  <2>1. acc.walk = {} /\ ~Top("sendSplitData") /\ ~Top("finishTranslation")
    BY <1>5 DEF Delivering, Top
  <2>2. outstanding \in {1, 2} /\ outstanding > 0
    BY <1>5 DEF Delivering, NoPacket
  <2>3. open BY <2>1, <2>2 DEF SplitInv
  <2>4. Cardinality(Live) = outstanding - 1
    <3>1. CASE outstanding = 1
      <4>1. Live = {} BY <1>5, <3>1 DEF Delivering, Live
      <4>2. QED BY <3>1, <4>1, FS_EmptySet
    <3>2. CASE outstanding = 2
      <4>1. Live = {1} \/ Live = {2} BY <1>5, <3>2 DEF Delivering, Live
      <4>2. QED BY <3>2, <4>1, FS_Singleton
    <3>3. QED BY <2>2, <3>1, <3>2
  <2>5. QED BY <1>5, <2>2, <2>3, <2>4
<1>6. QED BY <1>3, <1>4, <1>5, WhereItIs

\* An assertion that fails changes nothing else.
LEMMA FailsAlone ==
  ASSUME [Next]_vars, panic = "none", panic' # "none"
  PROVE  UNCHANGED <<stack, acc, frag, outstanding, inst>>
<1>1. ASSUME NEW where, Fail(where) PROVE UNCHANGED <<stack, acc, frag, outstanding, inst>>
  BY <1>1 DEF Fail, instVars, dataVars
<1>2. \E where : Fail(where)
  BY DEF Next, Call_Step, Memory_Step, Tick_Step, Aborted, Fetch, CheckEvents,
         TranslateFetch, SendFetch, CompleteIfetch, Execute, AfterInitiate,
         AdvanceInst, AdvanceFault, SuspendFails, InitiateMemRead, WriteMem, InitiateMemAMO,
         InitiateMemMgmtCmd, InitiateNothing, TranslateData, StartTranslation, EndWalks,
         FinishTranslation, SendData, SendSplitData, CompleteDataAccess,
         FinishFetchTranslation, IcacheRetry, IcacheResponse, DcacheRetry,
         FinishDataTranslation, DcacheResponse, RetryResponse, FetchEvent, IcacheTick,
         DcacheTick, ActivateContext, Drain, DrainResume, vars, cpuVars
<1>3. QED BY <1>1, <1>2

\* The counter of a split access is the number of its packets that are not answered,
\* while replies are refused, delayed and overtake retries, and when one of them fails
\* the assertion (timing.hh:80).
THEOREM RepliesCounted ==
  ASSUME OneThread PROVE Spec => []SplitCounted
<1> DEFINE I == Inv /\ PacketInv /\ SplitInv /\ (panic # "none" => SplitCounted)
<1>1. Init => I
  <2>1. SUFFICES ASSUME Init PROVE I OBVIOUS
  <2>2. /\ panic = "none" /\ stack = <<>> /\ dcachePkt = 0 /\ outstanding = 0
        /\ acc.split = FALSE
    BY <2>1 DEF Init, NoAccess
  <2>3. PacketInv /\ SplitInv BY <2>2 DEF PacketInv, SplitInv, Top
  <2>4. QED BY <2>1, <2>2, <2>3, InitInv
<1>2. I /\ [Next]_vars => I'
  <2>1. SUFFICES ASSUME I, [Next]_vars
                 PROVE  SplitInv' /\ (panic # "none" => SplitCounted)'
    BY NextInv, PacketKept
  <2>2. CASE panic # "none"
    <3>1. UNCHANGED vars BY <2>1, <2>2, NothingAfter
    <3>2. UNCHANGED <<panic, stack, acc, frag, outstanding, inst>>
      BY <3>1 DEF vars, cpuVars, dataVars, instVars
    <3>3. QED BY <2>1, <2>2, <3>2 DEF SplitInv, SplitCounted, Top, Live
  <2>3. CASE panic = "none" /\ panic' = "none"
    BY <2>1, <2>3, SplitKept
  <2>4. CASE panic = "none" /\ panic' # "none"
    <3>1. \/ panic' = "completeDataAccess" /\ Top("completeDataAccess")
          \/ panic' = "suspendContext" /\ Top("checkEvents")
      BY <2>1, <2>4, FailsOnly
    <3>2. SplitInv' BY <2>4 DEF SplitInv
    <3>3. UNCHANGED <<stack, acc, frag, outstanding, inst>> BY <2>1, <2>4, FailsAlone
    <3>4. SplitCounted BY <2>1, <2>4, InvCounted
    <3>5. QED BY <2>4, <3>1, <3>2, <3>3, <3>4 DEF SplitCounted, Top, Live
  <2>5. QED BY <2>2, <2>3, <2>4
<1>3. I => SplitCounted BY InvCounted
<1>4. QED BY <1>1, <1>2, <1>3, PTL DEF Spec

-----------------------------------------------------------------------------
(* Where nothing faults                                                    *)

\* Where nothing faults no function that handles a fault runs.
FaultFrames == {"fetchFault", "advanceFault", "afterInitiateFault"}
NoFaultInv ==
  panic = "none" => status # "Faulting" /\ ~acc.fault /\ \A f \in FaultFrames : ~Top(f)

\* Only advancePC, with a fault, makes the CPU Faulting.
LEMMA BecomesFaulting ==
  ASSUME [Next]_vars, status # "Faulting", ~Top("advanceFault") PROVE status' # "Faulting"
<1>1. ASSUME NEW P, NEW n, Offer(P, n) PROVE status' # "Faulting" BY <1>1 DEF Offer
<1>2. CASE \/ FetchEvent \/ Fetch \/ CheckEvents \/ TranslateFetch \/ FinishFetchTranslation
           \/ SendFetch \/ IcacheRetry \/ IcacheResponse \/ IcacheTick \/ SuspendFails
  BY <1>2 DEF FetchEvent, Fetch, CheckEvents, SuspendContext, TranslateFetch,
     FinishFetchTranslation, SendFetch, IcacheRetry, IcacheResponse, IcacheTick, SuspendFails,
     Fail, cpuVars
<1>3. CASE \/ CompleteIfetch \/ Execute \/ AfterInitiate \/ AdvanceInst \/ AdvanceFault
           \/ InitiateNothing \/ Drain \/ DrainResume \/ \E t \in Threads : ActivateContext(t)
  BY <1>3 DEF CompleteIfetch, Execute, SuspendContext, AfterInitiate, AdvanceInst, AdvanceFault,
     InitiateNothing, Drain, DrainResume, ActivateContext, Activate, Fail
<1>4. CASE \/ InitiateMemRead \/ WriteMem \/ InitiateMemAMO \/ InitiateMemMgmtCmd \/ TranslateData
           \/ FinishTranslation \/ CompleteDataAccess
           \/ \E f \in {1, 2} : \/ FinishDataTranslation(f) \/ DcacheResponse(f)
                                \/ RetryResponse(f) \/ DcacheTick(f)
  BY <1>4 DEF InitiateMemRead, WriteMem, InitiateMemAMO, StartTranslation, InitiateMemMgmtCmd,
     TranslateData, FinishDataTranslation, EndWalks, FinishTranslation, CompleteDataAccess,
     DcacheResponse, RetryResponse, DcacheTick, Fail, cpuVars
<1>5. CASE SendData
  <2>1. HandleReadPacket \/ HandleWritePacket \/ status' \in {"DcacheWaitResponse", status}
    BY <1>5 DEF SendData
  <2>2. QED BY <1>1, <2>1 DEF HandleReadPacket, HandleWritePacket, LocalAccess
<1>6. CASE SendSplitData BY <1>1, <1>6 DEF SendSplitData
<1>7. CASE DcacheRetry BY <1>1, <1>7 DEF DcacheRetry, Fail
<1>8. CASE UNCHANGED vars BY <1>8 DEF vars, cpuVars
<1>9. QED BY <1>2, <1>3, <1>4, <1>5, <1>6, <1>7, <1>8, Steps DEF QuietStep, AccessStep

\* Every step keeps it, as long as no assertion fails.
LEMMA NoFaultKept ==
  ASSUME ~Faults, Inv, NoFaultInv, [Next]_vars, panic = "none" PROVE NoFaultInv'
<1> SUFFICES ASSUME panic' = "none" PROVE NoFaultInv'
  BY DEF NoFaultInv
<1>1. status # "Faulting" /\ ~acc.fault /\ \A f \in FaultFrames : ~Top(f) BY DEF NoFaultInv
<1>0. status' # "Faulting" BY <1>1, BecomesFaulting DEF FaultFrames
<1>2. ASSUME NewTop(Frames \ FaultFrames), ~acc'.fault PROVE NoFaultInv'
  BY <1>0, <1>2 DEF NewTop, NoFaultInv, Top
<1>3. CASE QuietStep
  <2>1. ~acc'.fault BY <1>1, <1>3, QuietTop
  <2>2. OnFault({"fetchFault"}) = {} BY DEF OnFault
  <2>3. CASE \/ FetchEvent \/ Fetch \/ CheckEvents \/ TranslateFetch \/ FinishFetchTranslation
             \/ SendFetch \/ IcacheTick
    <3>1. NewTop({"fetch", "checkEvents", "translateFetch", "completeIfetch", "sendFetch", "afterInitiate"})
      BY <1>1, <2>2, <2>3, FetchTops DEF NewTop, FaultFrames
    <3>2. QED BY <1>2, <2>1, <3>1 DEF NewTop, Frames, FaultFrames
  <2>4. CASE CompleteIfetch \/ Execute \/ AfterInitiate \/ AdvanceInst \/ AdvanceFault \/ InitiateNothing
    <3>1. NewTop({"initiateAcc", "advanceInst", "execute", "fetch", "afterInitiate"})
      BY <1>1, <2>4, ExecuteTops DEF NewTop, FaultFrames
    <3>2. QED BY <1>2, <2>1, <3>1 DEF NewTop, Frames, FaultFrames
  <2>5. CASE Drain \/ DrainResume \/ \E t \in Threads : ActivateContext(t)
    BY <1>2, <2>1, <2>5, EventTops DEF NewTop
  <2>6. CASE IcacheRetry \/ IcacheResponse
    BY <1>2, <2>1, <2>6, FetchTops DEF IcacheRetry, IcacheResponse, Event, NewTop
  <2>7. QED BY <1>3, <2>3, <2>4, <2>5, <2>6 DEF QuietStep
<1>4. CASE InitiateMemRead \/ WriteMem \/ InitiateMemAMO
  <2>1. PICK split \in BOOLEAN : Top("initiateAcc") /\ StartTranslation(split)
    BY <1>4 DEF InitiateMemRead, WriteMem, InitiateMemAMO, CrossesLine
  <2>2. NewTop({"translateData"}) BY <2>1, AccessTops
  <2>3. ~acc'.fault BY <2>1 DEF StartTranslation, MarkedAccess
  <2>4. QED BY <1>2, <2>2, <2>3 DEF NewTop, Frames, FaultFrames
<1>5. CASE InitiateMemMgmtCmd
  <2>1. NewTop({"sendData"}) BY <1>5, AccessTops
  <2>2. ~acc'.fault BY <1>5 DEF InitiateMemMgmtCmd, NoAccess
  <2>3. QED BY <1>2, <2>1, <2>2 DEF NewTop, Frames, FaultFrames
<1>6. CASE TranslateData \/ \E f \in {1, 2} : FinishDataTranslation(f)
  <2>1. NewTop({"finishTranslation", "afterInitiate"}) BY <1>6, AccessTops
  <2>2. ~acc'.fault
    <3>1. PICK now, then : EndWalks(now, then)
      BY <1>6 DEF TranslateData, FinishDataTranslation
    <3>2. PICK fault \in {FALSE} :
            acc' = [acc EXCEPT !.walk = @ \ now, !.fault = @ \/ (fault /\ now # {})]
      BY <3>1 DEF EndWalks, AnyFault
    <3>3. QED BY <1>1, <3>2 DEF Inv, Shapes
  <2>3. QED BY <1>2, <2>1, <2>2 DEF NewTop, Frames, FaultFrames
<1>7. CASE FinishTranslation
  <2>1. NewTop({"sendData", "sendSplitData"})
    BY <1>1, <1>7, AccessTops DEF NewTop
  <2>2. UNCHANGED acc BY <1>1, <1>7 DEF FinishTranslation
  <2>3. QED BY <1>1, <1>2, <2>1, <2>2 DEF NewTop, Frames, FaultFrames
<1>8. CASE SendData
  <2>1. UNCHANGED acc BY <1>8 DEF SendData
  <2>2. NewTop({"afterInitiate", "completeNoAccess", "completeDataAccess"})
    BY <1>8, AccessTops DEF NewTop
  <2>3. QED BY <1>1, <1>2, <2>1, <2>2 DEF NewTop, Frames, FaultFrames
<1>9. CASE SendSplitData
  <2>1. UNCHANGED acc /\ NewTop({"afterInitiate"}) BY <1>9, AccessTops DEF SendSplitData
  <2>2. QED BY <1>1, <1>2, <2>1 DEF NewTop, Frames, FaultFrames
<1>10. CASE CompleteDataAccess
  <2>1. NewTop({"afterInitiate", "advanceInst"})
    BY <1>10, AccessTops DEF NewTop
  <2>2. acc' \in {acc, NoAccess} BY <1>10 DEF CompleteDataAccess, Fail
  <2>3. QED BY <1>1, <1>2, <2>1, <2>2 DEF NewTop, Frames, FaultFrames, NoAccess
<1>11. CASE DcacheRetry \/ \E f \in {1, 2} : DcacheResponse(f) \/ RetryResponse(f)
  <2>1. stack' = <<>> BY <1>11, EventTops
  <2>2. UNCHANGED acc
    BY <1>11 DEF DcacheRetry, DcacheResponse, RetryResponse, Fail
  <2>3. QED BY <1>1, <1>2, <2>1, <2>2 DEF NewTop
<1>12. CASE \E f \in {1, 2} : DcacheTick(f)
  <2>1. UNCHANGED acc /\ NewTop({"completeDataAccess"})
    BY <1>12, AccessTops DEF DcacheTick
  <2>2. QED BY <1>1, <1>2, <2>1 DEF NewTop, Frames, FaultFrames
<1>13. CASE UNCHANGED vars
  <2>1. UNCHANGED <<stack, panic, acc>> BY <1>13 DEF vars, cpuVars, dataVars
  <2>2. QED BY <1>0, <1>1, <2>1 DEF NoFaultInv, Top
<1>14. QED
  BY <1>3, <1>4, <1>5, <1>6, <1>7, <1>8, <1>9, <1>10, <1>11, <1>12, <1>13, GoodSteps DEF AccessStep

-----------------------------------------------------------------------------
(* Assertions                                                              *)

OnlyTwoFail ==
  panic # "none" => \/ panic = "completeDataAccess" /\ Split
                    \/ panic = "suspendContext" /\ Faults /\ Suspends

\* Of the assertions modelled only two can fail: a fragment of a split access is answered
\* while the other, refused, waits for its retry (timing.cc:987), and a PC event suspends
\* the thread of a CPU that is about to fetch a fault handler (timing.cc:246).
THEOREM OthersHold ==
  ASSUME OneThread PROVE Spec => []OnlyTwoFail
<1> DEFINE I == /\ Inv /\ PacketInv /\ OnlyTwoFail
                /\ ~Split => WholeInv
                /\ ~Faults => NoFaultInv
<1>1. Init => I
  <2>1. SUFFICES ASSUME Init PROVE I OBVIOUS
  <2>2. /\ panic = "none" /\ status = "Idle" /\ stack = <<>> /\ dcachePkt = 0 /\ outstanding = 0
        /\ acc.split = FALSE /\ acc.fault = FALSE
    BY <2>1 DEF Init, NoAccess
  <2>3. QED BY <2>1, <2>2, InitInv DEF PacketInv, WholeInv, NoFaultInv, OnlyTwoFail, Top
<1>2. I /\ [Next]_vars => I'
  <2>1. SUFFICES ASSUME I, [Next]_vars
                 PROVE  OnlyTwoFail' /\ (~Split => WholeInv') /\ (~Faults => NoFaultInv')
    BY NextInv, PacketKept
  <2>2. CASE panic = "none"
    <3>1. ~Split => WholeInv' BY <2>1, <2>2, WholeKept
    <3>2. ~Faults => NoFaultInv' BY <2>1, <2>2, NoFaultKept
    <3>3. Top("completeDataAccess") /\ status = "DcacheRetry" => Split
      BY <2>1, <2>2 DEF WholeInv
    <3>4. status = "Faulting" => Faults BY <2>1, <2>2 DEF NoFaultInv
    <3>5. OnlyTwoFail' BY <2>1, <2>2, <3>3, <3>4, FailsOnly DEF OnlyTwoFail
    <3>6. QED BY <3>1, <3>2, <3>5
  <2>3. CASE panic # "none"
    <3>1. UNCHANGED panic BY <2>1, <2>3, PanicStays
    <3>2. QED BY <2>1, <2>3, <3>1 DEF OnlyTwoFail, WholeInv, NoFaultInv
  <2>4. QED BY <2>2, <2>3
<1>3. QED BY <1>1, <1>2, PTL DEF Spec

\* Without split accesses, and without faults or without suspensions, no assertion of the
\* CPU fails, whatever is refused, delayed or drained.
THEOREM AssertionsHold ==
  ASSUME OneThread, ~Split, ~Faults \/ ~Suspends PROVE Spec => []NoAssertionFails
<1>1. OnlyTwoFail => NoAssertionFails BY DEF OnlyTwoFail, NoAssertionFails
<1>2. QED BY <1>1, OthersHold, PTL

-----------------------------------------------------------------------------
(* What a CPU that has drained leaves                                      *)

\* A CPU without a thread to run, or that has drained, stands between two instructions.
BetweenInv ==
  panic = "none" /\ (status = "Idle" \/ drain = "Drained") => macro[cur] = 0 /\ ~stay

\* Every step keeps it where no thread is suspended: what ends a drain comes between
\* macro-ops.
LEMMA BetweenKept ==
  ASSUME OneThread, ~Suspends, Inv, BetweenInv, [Next]_vars, panic = "none"
  PROVE  BetweenInv'
<1> SUFFICES ASSUME panic' = "none", status' = "Idle" \/ drain' = "Drained"
             PROVE  macro'[cur'] = 0 /\ ~stay'
  BY DEF BetweenInv
<1>1. status = "Idle" \/ drain = "Drained" => macro[cur] = 0 /\ ~stay BY DEF BetweenInv
<1>2. ASSUME UNCHANGED <<status, drain, cur, macro, stay>> PROVE macro'[cur'] = 0 /\ ~stay'
  BY <1>1, <1>2
<1>3. ASSUME NEW f, Top(f) PROVE drain # "Drained" BY <1>3, InFrame
<1>4. CASE \/ FetchEvent \/ FinishFetchTranslation \/ IcacheTick \/ IcacheResponse
           \/ AfterInitiate \/ InitiateMemMgmtCmd \/ InitiateNothing
           \/ TranslateData \/ (\E f \in {1, 2} : FinishDataTranslation(f))
           \/ \E f \in {1, 2} : DcacheResponse(f) \/ RetryResponse(f) \/ DcacheTick(f)
  <2>1. UNCHANGED <<status, drain, cur, macro, stay>>
    BY <1>4 DEF FetchEvent, FinishFetchTranslation, IcacheTick, IcacheResponse, AfterInitiate,
                InitiateMemMgmtCmd, InitiateNothing, TranslateData, FinishDataTranslation, EndWalks,
                DcacheResponse, RetryResponse, DcacheTick, Fail, cpuVars, threadVars, instVars
  <2>2. QED BY <1>2, <2>1
<1>5. CASE Fetch \/ CheckEvents
  <2>1. PICK f \in {"fetch", "checkEvents"} : Top(f) BY <1>5 DEF Fetch, CheckEvents
  <2>2. status # "Idle" BY <2>1, InFrame DEF Called, FetchFrames, RunFrames
  <2>3. UNCHANGED <<status, drain>> BY <1>5 DEF Fetch, CheckEvents
  <2>4. QED BY <1>3, <2>1, <2>2, <2>3
<1>6. CASE \/ TranslateFetch \/ SendFetch \/ CompleteIfetch \/ InitiateMemRead \/ WriteMem
           \/ InitiateMemAMO \/ FinishTranslation \/ SendData \/ SendSplitData
  <2>1. PICK f \in {"translateFetch", "sendFetch", "fetchFault", "completeIfetch", "initiateAcc",
                    "finishTranslation", "sendData", "sendSplitData"} : Top(f)
    BY <1>6 DEF TranslateFetch, SendFetch, CompleteIfetch, InitiateMemRead, WriteMem,
                InitiateMemAMO, FinishTranslation, SendData, SendSplitData
  <2>2. UNCHANGED drain
    BY <1>6 DEF TranslateFetch, SendFetch, CompleteIfetch, InitiateMemRead, WriteMem,
                InitiateMemAMO, FinishTranslation, SendData, SendSplitData, StartTranslation, Fail
  <2>3. \/ status' # "Idle"
        \/ UNCHANGED status
    <3>1. CASE TranslateFetch \/ SendFetch \/ CompleteIfetch \/ InitiateMemRead \/ WriteMem
               \/ InitiateMemAMO \/ FinishTranslation
      BY <3>1 DEF TranslateFetch, SendFetch, CompleteIfetch, InitiateMemRead, WriteMem,
                  InitiateMemAMO, FinishTranslation, StartTranslation, Fail
    <3>2. CASE SendData
      <4>1. \/ HandleReadPacket \/ HandleWritePacket \/ status' = "DcacheWaitResponse"
            \/ UNCHANGED status
        BY <3>2 DEF SendData, instVars
      <4>2. QED BY <4>1 DEF HandleReadPacket, HandleWritePacket, LocalAccess, Offer
    <3>3. CASE SendSplitData BY <3>3 DEF SendSplitData, Offer
    <3>4. QED BY <1>6, <3>1, <3>2, <3>3
  <2>4. status # "Idle" BY <2>1, InFrame DEF Called, FetchFrames, RunFrames, InTranslation
  <2>5. QED BY <1>3, <2>1, <2>2, <2>3, <2>4
<1>7. CASE IcacheRetry
  <2>1. Event /\ UNCHANGED <<drain, cur, macro, stay>>
        /\ (UNCHANGED status \/ status' # "Idle")
    BY <1>7 DEF IcacheRetry, threadVars, instVars, Fail
  <2>2. QED BY <1>1, <2>1
<1>8. CASE Execute
  <2>1. Top("execute") /\ UNCHANGED <<drain, status>> BY <1>8 DEF Execute
  <2>2. status # "Idle" BY <2>1, InFrame DEF Called, FetchFrames, RunFrames
  <2>3. QED BY <1>3, <2>1, <2>2
<1>9. CASE AdvanceInst
  <2>1. Top("advanceInst") /\ UNCHANGED <<status, cur, macro, stay>> /\ drain' \in {drain, "Signalled"}
    BY <1>9 DEF AdvanceInst, threadVars
  <2>2. QED BY <1>1, <1>3, <2>1
<1>10. CASE AdvanceFault
  <2>1. Top("advanceFault") /\ UNCHANGED drain BY <1>10 DEF AdvanceFault
  <2>2. status = "Running" BY <2>1, InFrame DEF Called, FetchFrames, RunFrames
  <2>3. status' = "Faulting" BY <1>10, <2>2 DEF AdvanceFault
  <2>4. QED BY <1>3, <2>1, <2>3
<1>11. CASE CompleteDataAccess
  <2>1. PICK f \in {"completeDataAccess", "completeNoAccess"} : Top(f)
    BY <1>11 DEF CompleteDataAccess
  <2>2. UNCHANGED drain /\ (status' = "Running" \/ UNCHANGED status)
    BY <1>11 DEF CompleteDataAccess, Fail
  <2>3. status # "Idle"
    BY <2>1, InFrame DEF Called, FetchFrames, RunFrames, Delivering
  <2>4. QED BY <1>3, <2>1, <2>2, <2>3
<1>12. CASE DcacheRetry
  <2>1. Event /\ UNCHANGED <<drain, cur, macro, stay>> BY <1>12 DEF DcacheRetry, threadVars, instVars, Fail
  <2>2. status' # "Idle"
    BY <1>12 DEF DcacheRetry, Fail, Offer
  <2>3. QED BY <1>1, <2>1, <2>2
<1>13. CASE Drain
  <2>1. UNCHANGED <<status, cur, macro, stay>>
        /\ (drain' = "Drained" => status = "Idle" \/ IsCpuDrained)
    BY <1>13 DEF Drain, threadVars, instVars
  <2>2. QED BY <1>1, <2>1 DEF IsCpuDrained
<1>14. CASE DrainResume
  BY <1>1, <1>14 DEF DrainResume, Fail, threadVars, instVars
<1>15. CASE \E t \in Threads : ActivateContext(t)
  <2>1. UNCHANGED <<cur, macro, stay>> /\ drain' # "Drained" /\ (UNCHANGED status \/ status = "Idle")
    BY <1>15 DEF ActivateContext, Activate, instVars
  <2>2. QED BY <1>1, <2>1
<1>16. CASE UNCHANGED vars BY <1>2, <1>16 DEF vars, cpuVars, threadVars, instVars
<1>17. QED
  BY <1>4, <1>5, <1>6, <1>7, <1>8, <1>9, <1>10, <1>11, <1>12, <1>13, <1>14, <1>15, <1>16, GoodSteps
  DEF QuietStep, AccessStep

\* What the simulator finds.
LEMMA InvDrained == ASSUME Inv, BetweenInv PROVE DrainedCanSwitchOut
<1> SUFFICES ASSUME drain = "Drained", Event
             PROVE  SwitchOutAsserts /\ Live = {} /\ ~Fetching /\ acc.walk = {}
  BY DEF DrainedCanSwitchOut
<1>1. Nothing /\ status \in {"Idle", "Running"} /\ panic = "none" BY InEvent
<1>2. macro[cur] = 0 /\ ~stay BY <1>1 DEF BetweenInv
<1>3. Live = {} /\ acc.walk = {} BY <1>1, NoneLive DEF Nothing, NoData, NoPacket
<1>4. ~Fetching BY <1>1 DEF Nothing, NoFetch, Icache, Fetching
<1>5. QED BY <1>1, <1>2, <1>3, <1>4 DEF SwitchOutAsserts, Nothing

\* Where nothing suspends a thread, a CPU that has drained is between two instructions
\* with nothing in flight, whatever it was doing when it was asked.  (A PC event or a fault
\* in the second fetch of an instruction may suspend the thread in its middle.)
THEOREM DrainedIsDone ==
  ASSUME OneThread, ~Suspends PROVE Spec => []DrainedCanSwitchOut
<1> DEFINE I == Inv /\ BetweenInv
<1>1. Init => I
  <2>1. SUFFICES ASSUME Init PROVE I OBVIOUS
  <2>2. macro[cur] = 0 /\ stay = FALSE BY <2>1 DEF Init
  <2>3. QED BY <2>1, <2>2, InitInv DEF BetweenInv
<1>2. I /\ [Next]_vars => I'
  <2>1. SUFFICES ASSUME I, [Next]_vars PROVE BetweenInv' BY NextInv
  <2>2. CASE panic = "none" BY <2>1, <2>2, BetweenKept
  <2>3. CASE panic # "none"
    <3>1. UNCHANGED panic BY <2>1, <2>3, PanicStays
    <3>2. QED BY <2>3, <3>1 DEF BetweenInv
  <2>4. QED BY <2>2, <2>3
<1>3. I => DrainedCanSwitchOut BY InvDrained
<1>4. QED BY <1>1, <1>2, <1>3, PTL DEF Spec

-----------------------------------------------------------------------------
(* The PC moves once per instruction                                       *)

\* Instructions that may end before initiateAcc returns.
EndAtOnce == {"prefetch", "sc"}

\* Where none does, only the functions that start an access run inside initiateAcc.
WithinFrames == {"initiateAcc", "translateData", "finishTranslation", "sendData",
                 "sendSplitData", "advanceFault"}
DepthInv ==
  panic = "none" =>
    /\ inst \in Ops \cup {"none"} /\ Len(stack) <= 2
    /\ stack # <<>> /\ Head(stack) \notin WithinFrames => Len(stack) = 1

\* Short sequences of functions.
LEMMA Short ==
  ASSUME NEW s \in Seq(Frames)
  PROVE  /\ Len(s) \in Nat
         /\ Len(s) = 0 => s = <<>>
         /\ Len(s) = 1 => Tail(s) = <<>>
         /\ Len(s) = 2 => Tail(Tail(s)) = <<>>
<1>1. Len(s) \in Nat OBVIOUS
<1>2. ASSUME NEW t \in Seq(Frames), Len(t) = 0 PROVE t = <<>>
  BY <1>2
<1>3. ASSUME NEW t \in Seq(Frames), Len(t) = 1 PROVE Tail(t) = <<>>
  <2>1. t # <<>>
    <3>1. Len(<<>>) = 0 OBVIOUS
    <3>2. 0 # 1 OBVIOUS
    <3>3. QED BY <1>3, <3>1, <3>2, Zenon
  <2>2. Tail(t) \in Seq(Frames) BY <2>1
  <2>3. Len(Tail(t)) = 0 BY <1>3, <2>1
  <2>4. QED BY <1>2, <2>2, <2>3
<1>4. ASSUME Len(s) = 2 PROVE Tail(Tail(s)) = <<>>
  <2>1. s # <<>> BY <1>4
  <2>2. Tail(s) \in Seq(Frames) BY <2>1
  <2>3. Len(Tail(s)) = 1 BY <1>4, <2>1
  <2>4. QED BY <1>3, <2>2, <2>3
<1>5. QED BY <1>1, <1>2, <1>3, <1>4

\* The functions a decoded instruction goes on with.
LEMMA AfterDecode ==
  /\ Len(<<"initiateAcc", "afterInitiate">>) = 2 /\ Head(<<"initiateAcc", "afterInitiate">>) = "initiateAcc"
  /\ Len(<<"advanceInst">>) = 1 /\ Len(<<"execute">>) = 1 /\ Len(<<"afterInitiateFault">>) = 1
  /\ Len(<<"finishTranslation">>) = 1 /\ Head(<<"finishTranslation">>) = "finishTranslation"
  /\ \A s \in {<<"initiateAcc", "afterInitiate">>, <<"advanceInst">>, <<"execute">>, <<"afterInitiateFault">>} : s \o <<>> = s
OBVIOUS

\* What the decoder returns: an instruction, or the wish for more bytes.
LEMMA NextDecoded ==
  ASSUME NEW next \in Decoded
  PROVE  (next.op \in Ops /\ next.stay = FALSE) \/ (next.op = "none" /\ next.stay = TRUE)
<1>1. ASSUME NEW M, next \in [op : Ops, macro : M, stay : {FALSE}]
      PROVE  next.op \in Ops /\ next.stay = FALSE
  BY <1>1
<1>2. CASE next = [op |-> "none", macro |-> 0, stay |-> TRUE] BY <1>2
<1>3. \/ next \in [op : Ops, macro : {macro[cur] - 1}, stay : {FALSE}]
      \/ next \in [op : Ops, macro : 0..MaxMicro, stay : {FALSE}]
      \/ next = [op |-> "none", macro |-> 0, stay |-> TRUE]
  BY DEF Decoded
<1>4. QED BY <1>1, <1>2, <1>3

\* completeIfetch waits below initiateAcc.
LEMMA CalledTwice ==
  ASSUME Inv, Top("initiateAcc") PROVE Len(stack) > 1
BY InFrame

\* Every step keeps it.
LEMMA DepthKept ==
  ASSUME Ops \cap EndAtOnce = {}, Inv, DepthInv, [Next]_vars, panic = "none" PROVE DepthInv'
<1> SUFFICES ASSUME panic' = "none" PROVE DepthInv'
  BY DEF DepthInv
<1>1. /\ inst \in Ops \cup {"none"} /\ Len(stack) <= 2
      /\ stack # <<>> /\ Head(stack) \notin WithinFrames => Len(stack) = 1
  BY DEF DepthInv
<1>2. ASSUME NEW f, Top(f), NEW g \in Frames, Call(g), f \in WithinFrames => g \in WithinFrames,
             inst' \in Ops \cup {"none"}
      PROVE  DepthInv'
  BY <1>1, <1>2, CalledNext DEF DepthInv
<1>3. ASSUME NEW f, Top(f), Return, UNCHANGED inst
      PROVE  DepthInv'
  <2>1. /\ stack' # <<>> => Head(stack') = "afterInitiate"
        /\ Len(stack') = Len(stack) - 1 /\ Len(stack) \in Nat \ {0} /\ stack' \in Seq(Frames)
    BY <1>3, CalledNext DEF Return, Inv, Top
  <2>2. Len(stack') <= 1 /\ (stack' # <<>> => Len(stack') = 1) BY <1>1, <2>1
  <2>3. QED BY <1>1, <1>3, <2>2 DEF DepthInv
<1>4. ASSUME NEW g, Run(g), UNCHANGED inst PROVE DepthInv'
  BY <1>1, <1>4 DEF Run, DepthInv
<1>5. ASSUME stack' = <<>>, UNCHANGED inst PROVE DepthInv'
  BY <1>1, <1>5 DEF DepthInv
<1>6. CASE QuietStep
  <2>1. CASE FetchEvent \/ FinishFetchTranslation \/ IcacheTick
    BY <1>4, <2>1 DEF FetchEvent, FinishFetchTranslation, IcacheTick, instVars
  <2>2. CASE IcacheRetry \/ IcacheResponse
    BY <1>5, <2>2, FetchTops DEF IcacheRetry, IcacheResponse, Event, instVars, Fail
  <2>3. CASE Drain \/ DrainResume \/ \E t \in Threads : ActivateContext(t)
    BY <1>5, <2>3, EventTops DEF Drain, DrainResume, ActivateContext, instVars, Fail
  <2>4. CASE \/ Fetch \/ CheckEvents \/ TranslateFetch \/ SendFetch \/ Execute \/ AdvanceInst
             \/ AdvanceFault \/ AfterInitiate
    <3>1. PICK f \in {"fetch", "checkEvents", "translateFetch", "sendFetch", "fetchFault", "execute",
                      "advanceInst", "advanceFault", "afterInitiate", "afterInitiateFault"} :
             /\ Top(f) /\ (f = "advanceFault" => Return)
             /\ \/ Return
                \/ \E g \in Frames : Call(g)
      <4>1. CASE Fetch \/ CheckEvents \/ TranslateFetch
        BY <4>1 DEF Fetch, CheckEvents, TranslateFetch, Frames
      <4>2. CASE SendFetch BY <4>2 DEF SendFetch, Frames
      <4>3. CASE Execute \/ AdvanceInst \/ AdvanceFault
        BY <4>3 DEF Execute, AdvanceInst, AdvanceFault, Frames
      <4>4. CASE AfterInitiate BY <4>4 DEF AfterInitiate, Frames
      <4>5. QED BY <2>4, <4>1, <4>2, <4>3, <4>4
    <3>2. UNCHANGED inst
      BY <2>4 DEF Fetch, CheckEvents, TranslateFetch, SendFetch, Execute, AdvanceInst,
                  AdvanceFault, AfterInitiate, instVars
    <3>3. CASE Return BY <1>3, <3>1, <3>2, <3>3
    <3>4. CASE f # "advanceFault" /\ \E g \in Frames : Call(g)
      <4>1. f \notin WithinFrames BY <3>1, <3>4 DEF WithinFrames
      <4>2. QED BY <1>1, <1>2, <3>1, <3>2, <3>4, <4>1
    <3>5. QED BY <3>1, <3>3, <3>4
  <2>5. CASE InitiateNothing
    <3>1. Top("initiateAcc") /\ UNCHANGED inst BY <2>5 DEF InitiateNothing
    <3>2. CASE Return BY <1>3, <3>1, <3>2
    <3>3. CASE stack' = <<"afterInitiateFault">> \o Tail(Tail(stack))
      <4>1. stack \in Seq(Frames) /\ Len(stack) \in Nat /\ stack # <<>>
        BY <3>1 DEF Inv, Top
      <4>2. Len(stack) = 2
        <5>1. Len(stack) > 1 BY <3>1, CalledTwice
        <5>2. Len(stack) <= 2 BY <1>1
        <5>3. Len(stack) \in Nat BY <4>1
        <5>4. \A n \in Nat : n > 1 /\ n <= 2 => n = 2 OBVIOUS
        <5>5. QED BY <5>1, <5>2, <5>3, <5>4, Zenon
      <4>5. Tail(Tail(stack)) = <<>> BY <4>1, <4>2, Short
      <4>6. stack' = <<"afterInitiateFault">> BY <3>3, <4>5, AfterDecode
      <4>7. Len(stack') = 1 BY <4>6, AfterDecode
      <4>8. QED BY <1>1, <3>1, <4>7 DEF DepthInv
    <3>4. QED BY <2>5, <3>2, <3>3 DEF InitiateNothing
  <2>6. CASE CompleteIfetch
    <3>1. Top("completeIfetch") BY <2>6 DEF CompleteIfetch
    <3>2. stack \in Seq(Frames) /\ Len(stack) = 1
      BY <1>1, <3>1 DEF Inv, Top, WithinFrames
    <3>3. PICK next \in Decoded :
            /\ inst' = next.op
            /\ stack' = (CASE next.op \in MemOps -> <<"initiateAcc", "afterInitiate">>
                           [] next.op = "none" -> <<"advanceInst">>
                           [] OTHER -> <<"execute">>) \o Tail(stack)
      BY <2>6 DEF CompleteIfetch, Fail
    <3>4. next.op \in Ops \cup {"none"}
      BY NextDecoded
    <3>6. Tail(stack) = <<>> BY <3>2, Short
    <3>7. CASE next.op \in MemOps
      <4>1. stack' = <<"initiateAcc", "afterInitiate">> 
        BY <3>3, <3>6, <3>7, AfterDecode DEF MemOps
      <4>2. Len(stack') = 2 /\ Head(stack') = "initiateAcc" BY <4>1, AfterDecode
      <4>3. inst' \in Ops \cup {"none"} BY <3>3, <3>4
      <4>4. QED BY <4>2, <4>3 DEF DepthInv, WithinFrames
    <3>8. CASE next.op \notin MemOps
      <4>1. stack' \in {<<"advanceInst">>, <<"execute">>} 
        BY <3>3, <3>6, <3>8, AfterDecode DEF MemOps
      <4>2. Len(stack') = 1 BY <4>1, AfterDecode
      <4>3. inst' \in Ops \cup {"none"} BY <3>3, <3>4
      <4>4. QED BY <4>2, <4>3 DEF DepthInv
    <3>9. QED BY <3>7, <3>8
  <2>7. QED BY <1>6, <2>1, <2>2, <2>3, <2>4, <2>5, <2>6 DEF QuietStep
<1>7. CASE InitiateMemRead \/ WriteMem \/ InitiateMemAMO \/ InitiateMemMgmtCmd
  <2>1. Top("initiateAcc") /\ UNCHANGED inst /\ (Call("translateData") \/ Call("sendData"))
    BY <1>7 DEF InitiateMemRead, WriteMem, InitiateMemAMO, InitiateMemMgmtCmd, StartTranslation,
                instVars
  <2>2. QED BY <1>1, <1>2, <2>1 DEF Frames, WithinFrames
<1>8. CASE TranslateData
  <2>1. Top("translateData") /\ UNCHANGED inst BY <1>8 DEF TranslateData, EndWalks, instVars
  <2>2. stack' = (IF acc'.walk = {} THEN <<"finishTranslation">> ELSE <<>>) \o Tail(stack)
    BY <1>8 DEF TranslateData, EndWalks
  <2>3. stack \in Seq(Frames) /\ stack # <<>> BY <2>1 DEF Inv, Top
  <2>4. CASE acc'.walk = {}
    <3>1. Call("finishTranslation") BY <2>2, <2>4 DEF Call
    <3>2. QED BY <1>1, <1>2, <2>1, <3>1 DEF Frames, WithinFrames
  <2>5. CASE acc'.walk # {}
    <3>1. Return BY <2>2, <2>3, <2>5 DEF Return
    <3>2. QED BY <1>3, <2>1, <3>1
  <2>6. QED BY <2>4, <2>5
<1>9. CASE \E f \in {1, 2} : FinishDataTranslation(f)
  <2>1. UNCHANGED inst /\ stack' \in {<<"finishTranslation">>, <<>>}
    BY <1>9 DEF FinishDataTranslation, EndWalks, instVars
  <2>2. CASE stack' = <<>> BY <1>5, <2>1, <2>2
  <2>3. CASE stack' = <<"finishTranslation">>
    <3>1. Len(stack') = 1 BY <2>3
    <3>2. QED BY <1>1, <2>1, <3>1 DEF DepthInv
  <2>4. QED BY <2>1, <2>2, <2>3
<1>10. CASE FinishTranslation
  <2>1. Top("finishTranslation") /\ UNCHANGED inst /\ inst # "prefetch"
    BY <1>1, <1>10 DEF FinishTranslation, EndAtOnce
  <2>2. Call("sendSplitData") \/ Call("sendData") \/ Call("advanceFault")
    BY <1>10, <2>1 DEF FinishTranslation
  <2>3. QED BY <1>1, <1>2, <2>1, <2>2 DEF Frames, WithinFrames
<1>11. CASE SendData
  <2>1. Top("sendData") /\ UNCHANGED inst /\ inst \notin EndAtOnce
    BY <1>1, <1>11 DEF SendData, EndAtOnce, instVars
  <2>2. Return BY <1>11, <2>1 DEF SendData, EndAtOnce
  <2>3. QED BY <1>3, <2>1, <2>2
<1>12. CASE SendSplitData
  BY <1>3, <1>12 DEF SendSplitData, instVars
<1>13. CASE CompleteDataAccess
  <2>1. PICK f \in {"completeDataAccess", "completeNoAccess"} : Top(f)
    BY <1>13 DEF CompleteDataAccess
  <2>2. UNCHANGED inst BY <1>13 DEF CompleteDataAccess, Fail, instVars
  <2>3. Return \/ Call("advanceFault") \/ Call("advanceInst")
    BY <1>13 DEF CompleteDataAccess, Fail
  <2>4. QED BY <1>1, <1>2, <1>3, <2>1, <2>2, <2>3 DEF Frames, WithinFrames
<1>14. CASE DcacheRetry \/ \E f \in {1, 2} : DcacheResponse(f) \/ RetryResponse(f)
  <2>1. stack' = <<>> BY <1>14, EventTops
  <2>2. UNCHANGED inst BY <1>14 DEF DcacheRetry, DcacheResponse, RetryResponse, Fail, instVars
  <2>3. QED BY <1>5, <2>1, <2>2
<1>15. CASE \E f \in {1, 2} : DcacheTick(f)
  BY <1>4, <1>15 DEF DcacheTick, instVars
<1>16. CASE UNCHANGED vars
  <2>1. UNCHANGED <<stack, panic, inst>> BY <1>16 DEF vars, cpuVars, instVars
  <2>2. QED BY <1>1, <2>1 DEF DepthInv
<1>17. QED
  BY <1>6, <1>7, <1>8, <1>9, <1>10, <1>11, <1>12, <1>13, <1>14, <1>15, <1>16, GoodSteps DEF AccessStep

\* The PC is about to move past an instruction that has taken effect, at the end of a
\* chain of calls or when initiateAcc returns and the CPU still runs.
OnceInv ==
  panic = "none" =>
    /\ Top("advanceInst") => ready \/ stay
    /\ Top("afterInitiate") /\ status = "Running" => ready

\* Every step keeps it.  advanceInst, which may return to a CPU that runs only when a drain
\* ends there, is then the last function of its event.
LEMMA OnceKept ==
  ASSUME ~(AdvanceInst /\ TryCompleteDrain) \/ DepthInv, Inv, OnceInv, [Next]_vars,
         panic = "none"
  PROVE  OnceInv'
<1> SUFFICES ASSUME panic' = "none" PROVE OnceInv'
  BY DEF OnceInv
<1>1. ASSUME NewTop(Frames \ {"advanceInst", "afterInitiate"}) PROVE OnceInv'
  BY <1>1 DEF NewTop, OnceInv, Top
<1>2. ASSUME NewTop(Frames \ {"advanceInst"}), status' # "Running" PROVE OnceInv'
  BY <1>2 DEF NewTop, OnceInv, Top
<1>3. ASSUME ready' = TRUE PROVE OnceInv'
  BY <1>3 DEF OnceInv
<1>4. CASE QuietStep
  <2>1. CASE FetchEvent \/ Fetch \/ FinishFetchTranslation \/ IcacheTick
    <3>1. NewTop({"fetch", "checkEvents", "sendFetch", "fetchFault", "completeIfetch"})
      BY <2>1, FetchTops DEF NewTop, OnFault
    <3>2. QED BY <1>1, <3>1 DEF NewTop, Frames
  <2>2. CASE CheckEvents
    <3>1. Top("checkEvents") BY <2>2 DEF CheckEvents
    <3>2. (Return /\ status' = "Idle") \/ Call("translateFetch") BY <2>2 DEF CheckEvents
    <3>3. \/ status' # "Running" /\ NewTop({"afterInitiate"})
          \/ NewTop({"translateFetch"})
      BY <3>1, <3>2, CalledNext DEF NewTop, Frames
    <3>4. QED BY <1>1, <1>2, <3>3 DEF NewTop, Frames
  <2>3. CASE TranslateFetch
    <3>1. Top("translateFetch") BY <2>3 DEF TranslateFetch
    <3>2. \/ Return /\ status' = "ITBWaitResponse"
          \/ \E f \in {"completeIfetch", "sendFetch", "fetchFault"} : Call(f)
      BY <2>3 DEF TranslateFetch
    <3>3. \/ status' # "Running" /\ NewTop({"afterInitiate"})
          \/ NewTop({"completeIfetch", "sendFetch", "fetchFault"})
      BY <3>1, <3>2, CalledNext DEF NewTop, Frames
    <3>4. QED BY <1>1, <1>2, <3>3 DEF NewTop, Frames
  <2>4. CASE SendFetch
    <3>1. \/ Top("sendFetch") /\ NewTop({"afterInitiate"})
          \/ Top("fetchFault") /\ NewTop({"advanceFault"})
      BY <2>4, FetchTops
    <3>2. Top("sendFetch") => status' # "Running" BY <2>4 DEF SendFetch, Top
    <3>3. QED BY <1>1, <1>2, <3>1, <3>2 DEF NewTop, Frames
  <2>5. CASE IcacheRetry \/ IcacheResponse
    BY <1>1, <2>5, FetchTops DEF IcacheRetry, IcacheResponse, Event, NewTop
  <2>6. CASE Drain \/ DrainResume \/ \E t \in Threads : ActivateContext(t)
    BY <1>1, <2>6, EventTops DEF NewTop
  <2>7. CASE CompleteIfetch
    <3>1. NewTop({"initiateAcc", "advanceInst", "execute"}) BY <2>7, ExecuteTops
    <3>2. PICK next \in Decoded :
            /\ stay' = next.stay
            /\ stack' = (CASE next.op \in MemOps -> <<"initiateAcc", "afterInitiate">>
                           [] next.op = "none" -> <<"advanceInst">>
                           [] OTHER -> <<"execute">>) \o Tail(stack)
      BY <2>7 DEF CompleteIfetch, Fail
    <3>3. next.op = "none" => next.stay = TRUE
      <4>1. "none" \notin Ops BY TimingAssumption DEF MemOps
      <4>2. QED BY <4>1, NextDecoded
    <3>4. stack \in Seq(Frames) /\ stack # <<>> BY <2>7 DEF CompleteIfetch, Inv, Top
    <3>5. CASE next.op = "none" BY <3>1, <3>2, <3>3, <3>5 DEF OnceInv, NewTop, Top
    <3>6. CASE next.op \in MemOps
      <4>1. stack' = <<"initiateAcc", "afterInitiate">> \o Tail(stack) BY <3>2, <3>6 DEF MemOps
      <4>2. Head(stack') = "initiateAcc" BY <3>4, <4>1
      <4>3. QED BY <4>2 DEF OnceInv, Top
    <3>7. CASE next.op \notin MemOps /\ next.op # "none"
      <4>1. stack' = <<"execute">> \o Tail(stack) BY <3>2, <3>7
      <4>2. Head(stack') = "execute" BY <3>4, <4>1
      <4>3. QED BY <4>2 DEF OnceInv, Top
    <3>8. QED BY <3>5, <3>6, <3>7
  <2>8. CASE Execute
    BY <1>1, <1>3, <2>8, ExecuteTops DEF NewTop, Frames
  <2>9. CASE AfterInitiate
    <3>1. UNCHANGED <<status, ready>> BY <2>9 DEF AfterInitiate, instVars
    <3>2. CASE Top("afterInitiate") /\ status = "Running"
      <4>1. ready' = TRUE BY <3>1, <3>2 DEF OnceInv, Inv, Booleans
      <4>2. QED BY <1>3, <4>1
    <3>3. CASE NewTop({"advanceFault"}) BY <1>1, <3>3 DEF NewTop, Frames
    <3>4. CASE status # "Running" /\ NewTop({"afterInitiate"})
      BY <1>2, <3>1, <3>4 DEF NewTop, Frames
    <3>5. QED BY <2>9, <3>2, <3>3, <3>4, ExecuteTops
  <2>10. CASE AdvanceInst
    <3>1. Top("advanceInst") /\ UNCHANGED status BY <2>10 DEF AdvanceInst
    <3>2. CASE Return /\ status = "Running"
      <4>1. TryCompleteDrain
        BY <2>10, <3>1, <3>2, CalledNext DEF AdvanceInst, Frames
      <4>2. Len(stack) = 1 BY <2>10, <3>1, <4>1 DEF DepthInv, WithinFrames, Top
      <4>3. stack' = <<>> BY <3>1, <3>2, <4>2 DEF Return, Inv
      <4>4. QED BY <1>1, <4>3 DEF NewTop
    <3>3. CASE Return /\ status # "Running"
      BY <1>2, <3>1, <3>3, CalledNext DEF NewTop, Frames
    <3>4. CASE Call("fetch")
      BY <1>1, <3>1, <3>4, CalledNext DEF NewTop, Frames
    <3>5. QED BY <2>10, <3>2, <3>3, <3>4 DEF AdvanceInst
  <2>11. CASE AdvanceFault
    <3>1. Top("advanceFault") BY <2>11 DEF AdvanceFault
    <3>2. status = "Running" BY <3>1, InFrame DEF Called, FetchFrames, RunFrames
    <3>3. status' # "Running" BY <2>11, <3>2 DEF AdvanceFault
    <3>4. QED BY <1>2, <2>11, <3>3, ExecuteTops DEF NewTop, Frames
  <2>12. CASE InitiateNothing
    BY <1>1, <1>3, <2>12, ExecuteTops DEF NewTop, Frames
  <2>13. QED
    BY <1>4, <2>1, <2>2, <2>3, <2>4, <2>5, <2>6, <2>7, <2>8, <2>9, <2>10, <2>11, <2>12 DEF QuietStep
<1>5. CASE InitiateMemRead \/ WriteMem \/ InitiateMemAMO
  <2>1. PICK split \in BOOLEAN : Top("initiateAcc") /\ StartTranslation(split)
    BY <1>5 DEF InitiateMemRead, WriteMem, InitiateMemAMO, CrossesLine
  <2>2. NewTop({"translateData"}) BY <2>1, AccessTops
  <2>3. QED BY <1>1, <2>2 DEF NewTop, Frames
<1>6. CASE InitiateMemMgmtCmd BY <1>1, <1>6, AccessTops DEF NewTop, Frames
<1>7. CASE TranslateData \/ \E f \in {1, 2} : FinishDataTranslation(f)
  <2>1. UNCHANGED status BY <1>7 DEF TranslateData, FinishDataTranslation, EndWalks
  <2>2. status = "DTBWaitResponse"
    <3>1. CASE TranslateData
      BY <3>1, InFrame DEF TranslateData, Called, FetchFrames, RunFrames, InTranslation
    <3>2. CASE \E f \in {1, 2} : FinishDataTranslation(f)
      <4>1. Event /\ acc.walk # {} BY <3>2 DEF FinishDataTranslation
      <4>2. QED
        BY <4>1, InEvent
        DEF AtRest, Parked, InFetch, InAccess, InTranslation, InMemory, Stopped, Nothing, NoData
    <3>3. QED BY <1>7, <3>1, <3>2
  <2>3. QED BY <1>2, <1>7, <2>1, <2>2, AccessTops DEF NewTop, Frames
<1>8. CASE FinishTranslation
  BY <1>1, <1>3, <1>8, AccessTops DEF NewTop, Frames
<1>9. CASE SendData
  <2>1. Top("sendData") BY <1>9 DEF SendData
  <2>2. \/ Return /\ (HandleReadPacket \/ HandleWritePacket)
        \/ Call("completeDataAccess") \/ Call("completeNoAccess")
    BY <1>9 DEF SendData
  <2>3. HandleReadPacket \/ HandleWritePacket => status' # "Running"
    BY DEF HandleReadPacket, HandleWritePacket, LocalAccess, Offer
  <2>4. \/ status' # "Running" /\ NewTop({"afterInitiate"})
        \/ NewTop({"completeDataAccess", "completeNoAccess"})
    BY <2>1, <2>2, <2>3, CalledNext DEF NewTop, Frames
  <2>5. QED BY <1>1, <1>2, <2>4 DEF NewTop, Frames
<1>10. CASE SendSplitData
  <2>1. status' # "Running" BY <1>10 DEF SendSplitData, Offer
  <2>2. QED BY <1>2, <1>10, <2>1, AccessTops DEF NewTop, Frames
<1>11. CASE CompleteDataAccess
  BY <1>1, <1>2, <1>3, <1>11, AccessTops DEF NewTop, Frames
<1>12. CASE DcacheRetry \/ \E f \in {1, 2} : DcacheResponse(f) \/ RetryResponse(f)
  BY <1>1, <1>12, EventTops DEF NewTop
<1>13. CASE \E f \in {1, 2} : DcacheTick(f)
  BY <1>1, <1>13, AccessTops DEF NewTop, Frames
<1>14. CASE UNCHANGED vars
  <2>1. UNCHANGED <<stack, panic, status, ready, stay>> BY <1>14 DEF vars, cpuVars, instVars
  <2>2. QED BY <2>1 DEF OnceInv, Top
<1>15. QED
  BY <1>4, <1>5, <1>6, <1>7, <1>8, <1>9, <1>10, <1>11, <1>12, <1>13, <1>14, GoodSteps DEF AccessStep

\* Without a request to drain there is no drain.
LEMMA NeverDraining ==
  ASSUME ~Drains, [Next]_vars, drain # "Draining" PROVE drain' # "Draining"
<1>1. UNCHANGED drain \/ AdvanceInst \/ DrainResume \/ \E t \in Threads : ActivateContext(t)
  BY DEF Next, Call_Step, Memory_Step, Tick_Step, Aborted, Fetch, CheckEvents,
     TranslateFetch, SendFetch, CompleteIfetch, Execute, AfterInitiate,
     AdvanceFault, SuspendFails, InitiateMemRead, WriteMem, InitiateMemAMO, InitiateMemMgmtCmd,
     InitiateNothing, TranslateData, FinishTranslation, SendData, SendSplitData,
     CompleteDataAccess, FinishFetchTranslation, IcacheRetry, IcacheResponse, DcacheRetry,
     FinishDataTranslation, DcacheResponse, RetryResponse, FetchEvent, IcacheTick,
     DcacheTick, Drain, vars, cpuVars, StartTranslation, EndWalks, Fail
<1>2. QED BY <1>1 DEF AdvanceInst, DrainResume, ActivateContext, Fail

\* What is so of a CPU that never drains, or has no instruction that ends at once.
Moving == /\ OnceInv /\ (~Drains => drain # "Draining")
          /\ Ops \cap EndAtOnce = {} => DepthInv

LEMMA InitMoving == ASSUME Init PROVE Moving
<1>1. panic = "none" /\ stack = <<>> /\ drain = "Running" /\ inst = "none" BY DEF Init
<1>2. QED BY <1>1 DEF Moving, OnceInv, DepthInv, Top

LEMMA MovingKept ==
  ASSUME ~Drains \/ Ops \cap EndAtOnce = {}, Inv, Moving, [Next]_vars
  PROVE  Moving'
<1>1. ~Drains => drain' # "Draining" BY NeverDraining DEF Moving
<1>2. CASE panic = "none"
  <2>1. ~TryCompleteDrain \/ DepthInv BY DEF Moving, TryCompleteDrain
  <2>2. OnceInv' BY <1>2, <2>1, OnceKept DEF Moving
  <2>3. Ops \cap EndAtOnce = {} => DepthInv' BY <1>2, DepthKept DEF Moving
  <2>4. QED BY <1>1, <2>2, <2>3 DEF Moving
<1>3. CASE panic # "none"
  <2>1. UNCHANGED panic BY <1>3, PanicStays
  <2>2. QED BY <1>1, <1>3, <2>1 DEF Moving, OnceInv, DepthInv
<1>4. QED BY <1>2, <1>3

\* The PC moves only past an instruction that has taken effect, and once, unless a drain
\* meets an access that ends before initiateAcc returns (timing.cc:890).
THEOREM MovesOnce ==
  ASSUME OneThread, ~Drains \/ Ops \cap EndAtOnce = {} PROVE Spec => []AdvancesOnce
<1> DEFINE I == Inv /\ Moving
<1>1. Init => I BY InitInv, InitMoving
<1>2. I /\ [Next]_vars => I' BY NextInv, MovingKept
<1>3. I => AdvancesOnce
  <2>1. SUFFICES ASSUME I, Top("advanceInst"), ~stay PROVE ready
    BY DEF AdvancesOnce
  <2>2. QED BY <2>1 DEF Moving, OnceInv, Top
<1> HIDE DEF I
<1>4. QED BY <1>1, <1>2, <1>3, PTL DEF Spec

\* A drain that has ended in the chain excuses the next move.
LateInv ==
  panic = "none" =>
    /\ Top("advanceInst") => ready \/ stay \/ drain = "Signalled"
    /\ Top("afterInitiate") /\ status = "Running" => ready \/ drain = "Signalled"

LEMMA InitLate == ASSUME Init PROVE LateInv
BY DEF Init, LateInv, Top

LEMMA LateNow == ASSUME LateInv PROVE Late
BY DEF LateInv, Late, Top

\* Only the end of a drain changes its state while functions run.
LEMMA DrainStays ==
  ASSUME [Next]_vars, stack # <<>>
  PROVE  UNCHANGED drain \/ (AdvanceInst /\ TryCompleteDrain)
<1>1. ~Event BY DEF Event
<1>2. CASE AdvanceInst BY <1>2 DEF AdvanceInst
<1>3. CASE ~AdvanceInst
  BY <1>1, <1>3 DEF Next, Call_Step, Memory_Step, Tick_Step, Aborted, Fetch, CheckEvents,
     TranslateFetch, SendFetch, CompleteIfetch, Execute, AfterInitiate,
     AdvanceFault, SuspendFails, InitiateMemRead, WriteMem, InitiateMemAMO, InitiateMemMgmtCmd,
     InitiateNothing, TranslateData, FinishTranslation, SendData, SendSplitData,
     CompleteDataAccess, FinishFetchTranslation, IcacheRetry, IcacheResponse, DcacheRetry,
     FinishDataTranslation, DcacheResponse, RetryResponse, FetchEvent, IcacheTick,
     DcacheTick, Drain, DrainResume, ActivateContext, vars, cpuVars, StartTranslation,
     EndWalks, Fail
<1>4. QED BY <1>2, <1>3

\* Every step keeps it.
LEMMA LateKept ==
  ASSUME Inv, LateInv, [Next]_vars
  PROVE  LateInv'
<1> SUFFICES ASSUME panic' = "none" PROVE LateInv'
  BY DEF LateInv
<1>1. panic = "none" BY PanicStays
<1>2. CASE AdvanceInst /\ TryCompleteDrain
  <2>1. drain' = "Signalled"
    <3>1. status # "Faulting"
      BY <1>2, InFrame DEF AdvanceInst, Called, FetchFrames, RunFrames
    <3>2. QED BY <1>2, <3>1 DEF AdvanceInst
  <2>2. QED BY <2>1 DEF LateInv
<1>3. CASE ~(AdvanceInst /\ TryCompleteDrain)
  <2>1. CASE drain = "Signalled" /\ stack # <<>>
    <3>1. drain' = "Signalled" BY <1>3, <2>1, DrainStays
    <3>2. QED BY <3>1 DEF LateInv
  <2>2. CASE drain # "Signalled" \/ stack = <<>>
    <3>1. OnceInv BY <1>1, <2>2 DEF LateInv, OnceInv, Top
    <3>2. OnceInv' BY <1>1, <1>3, <3>1, OnceKept
    <3>3. QED BY <3>2 DEF OnceInv, LateInv
  <2>3. QED BY <2>1, <2>2
<1>4. QED BY <1>2, <1>3

-----------------------------------------------------------------------------
(* The CPU is an in-order core                                             *)

OneAtATime == panic = "none" => Exclusive

LEMMA CoreStep ==
  ASSUME Inv, Inv', OneAtATime, OneAtATime', Late, [Next]_vars
  PROVE  [Core!Next \/ (MovesAgain /\ ~stay)]_(Core!coreVars)
<1>1. CASE panic # "none" \/ panic' # "none"
  <2>1. UNCHANGED <<icache, frag, ready, moved>> BY <1>1, FailedSteps
  <2>2. QED BY <2>1, SameThings DEF Core!coreVars
<1>2. CASE panic = "none" /\ panic' = "none"
  <2>1. Exclusive BY <1>2 DEF OneAtATime
  <2>2. Exclusive' BY <1>2 DEF OneAtATime
  <2>3. ready \in BOOLEAN /\ ready' \in BOOLEAN BY DEF Inv, Booleans
  <2>4. QED BY <2>1, <2>2, <2>3, NextChanges, OneThing
<1>3. QED BY <1>1, <1>2

LEMMA CoreInit == ASSUME Init PROVE Core!Init
<1>1. NoFetch /\ ready = FALSE /\ moved = FALSE /\ frag[1] = "none" /\ frag[2] = "none"
  BY DEF Init, NoFetch, Icache
<1>2. ~Fetching BY <1>1 DEF NoFetch, Icache, Fetching
<1>3. Fetching = FALSE BY <1>2 DEF Fetching
<1>4. Live = {} BY <1>1 DEF Live
<1>5. QED BY <1>1, <1>3, <1>4 DEF Core!Init

\* A CPU with one hardware thread takes the steps of an in-order core: it fetches, then
\* makes at most one access, which ends with its last reply, and only then moves the PC,
\* once; it moves it again only when a drain has ended inside initiateAcc
\* (timing.cc:890, 987).
THEOREM IsAnInOrderCore ==
  ASSUME OneThread PROVE Spec => StepsLikeCore
<1> DEFINE I == Inv /\ LateInv
<1>1. Init => I BY InitInv, InitLate
<1>2. I /\ [Next]_vars => I' BY NextInv, LateKept
<1>3. Init => Core!Init BY CoreInit
<1>4. I => OneAtATime /\ Late BY InvExclusive, LateNow DEF OneAtATime
<1>5. I /\ I' /\ OneAtATime /\ OneAtATime' /\ Late /\ [Next]_vars
        => [Core!Next \/ MovesAgain]_(Core!coreVars)
  BY CoreStep
<1> HIDE DEF I
<1>6. QED BY <1>1, <1>2, <1>3, <1>4, <1>5, PTL DEF Spec, StepsLikeCore

\* Where the CPU is never drained, or no instruction ends before initiateAcc returns, it
\* takes only those steps: the PC moves once past each instruction.
THEOREM IsStrictlyInOrder ==
  ASSUME OneThread, ~Drains \/ Ops \cap EndAtOnce = {} PROVE Spec => CoreSteps
<1> DEFINE I == Inv /\ Moving
<1>1. Init => I BY InitInv, InitMoving
<1>2. I /\ [Next]_vars => I' BY NextInv, MovingKept
<1>3. Init => Core!Init BY CoreInit
<1>4. I => OneAtATime BY InvExclusive DEF OneAtATime
<1>5. I /\ I' /\ OneAtATime /\ OneAtATime' /\ [Next]_vars => [Core!Next]_(Core!coreVars)
  <2>1. SUFFICES ASSUME I, I', OneAtATime, OneAtATime', [Next]_vars
                 PROVE  [Core!Next]_(Core!coreVars)
    OBVIOUS
  <2>2. Top("advanceInst") => ready \/ stay BY <2>1 DEF Moving, OnceInv, Top
  <2>3. ~(MovesAgain /\ ~stay) BY <2>2 DEF MovesAgain
  <2>4. Late BY <2>2 DEF Late
  <2>5. QED BY <2>1, <2>3, <2>4, CoreStep
<1> HIDE DEF I
<1>6. QED BY <1>1, <1>2, <1>3, <1>4, <1>5, PTL DEF Spec, CoreSteps, Core!Safety

-----------------------------------------------------------------------------
(* A barrier marks the next packet                                         *)

\* An access that has taken the flag of the last barrier has still to send its packet.
Marking == acc.walk # {} \/ Top("finishTranslation") \/ (Top("sendData") /\ inst # "mgmt")
FlagInv ==
  panic = "none" =>
    /\ owed \subseteq Threads
    /\ acc.walk # {} \/ Top("finishTranslation") => inst # "mgmt"
    /\ owed # {} => IF Marking THEN acc.barrier = TRUE ELSE barrierFetched = TRUE
    /\ packet.due => packet.barrier = TRUE

\* Every step keeps it: the flag goes from the CPU to the access and to its packet.
LEMMA FlagKept ==
  ASSUME OneThread, Ops \cap EndAtOnce = {}, Inv, WholeInv, NoFaultInv, DepthInv, FlagInv,
         [Next]_vars, panic = "none"
  PROVE  FlagInv'
<1> SUFFICES ASSUME panic' = "none" PROVE FlagInv'
  BY DEF FlagInv
<1>1. /\ owed \subseteq Threads
      /\ acc.walk # {} \/ Top("finishTranslation") => inst # "mgmt"
      /\ owed # {} => IF Marking THEN acc.barrier = TRUE ELSE barrierFetched = TRUE
      /\ packet.due => packet.barrier = TRUE
  BY DEF FlagInv
<1>2. ASSUME ~Marking, NewTop(Frames \ {"finishTranslation", "sendData"}), acc'.walk = {},
             UNCHANGED <<owed, barrierFetched, packet>>
      PROVE  FlagInv'
  <2>1. ~Marking' /\ ~Top("finishTranslation")' BY <1>2 DEF Marking, NewTop, Top
  <2>2. QED BY <1>1, <1>2, <2>1 DEF FlagInv
<1>3. ASSUME Marking, Marking', acc'.barrier = acc.barrier, inst # "mgmt",
             UNCHANGED <<inst, owed, packet>>
      PROVE  FlagInv'
  BY <1>1, <1>3 DEF FlagInv
<1>4. ASSUME UNCHANGED acc, UNCHANGED inst, UNCHANGED <<owed, barrierFetched, packet>>,
             \A f \in {"finishTranslation", "sendData"} : ~Top(f) /\ ~Top(f)'
      PROVE  FlagInv'
  <2>1. Marking' <=> Marking BY <1>4 DEF Marking
  <2>2. QED BY <1>1, <1>4, <2>1 DEF FlagInv
<1>5. ASSUME NEW f, Top(f), f \notin {"finishTranslation", "sendData", "afterInitiate"},
             acc.walk = {}
      PROVE  ~Marking
  BY <1>5 DEF Marking, Top
<1>6. CASE QuietStep /\ ~CompleteIfetch
  <2>1. UNCHANGED <<inst, flagVars>>
    BY <1>6 DEF QuietStep, FetchEvent, Fetch, CheckEvents, TranslateFetch, FinishFetchTranslation,
                SendFetch, IcacheTick, IcacheRetry, IcacheResponse, Execute, AfterInitiate,
                AdvanceInst, AdvanceFault, InitiateNothing, Drain, DrainResume, ActivateContext,
                Fail, instVars
  <2>2. QED BY <1>4, <1>6, <2>1, QuietTop DEF AccessFrames, flagVars
<1>7. CASE CompleteIfetch
  <2>1. Top("completeIfetch") /\ status = "IcacheWaitResponse" /\ acc.walk = {}
    BY <1>7, InFrame DEF CompleteIfetch, Called, FetchFrames, RunFrames, Nothing, NoData
  <2>2. ~Marking BY <1>5, <2>1
  <2>3. UNCHANGED <<acc, packet>> BY <1>7, QuietTop DEF QuietStep
  <2>4. NewTop({"initiateAcc", "advanceInst", "execute"}) BY <1>7, ExecuteTops
  <2>5. ~Marking' /\ ~Top("finishTranslation")' BY <2>1, <2>3, <2>4 DEF Marking, NewTop, Top
  <2>6. PICK op : /\ barrierFetched' = (barrierFetched \/ op = "barrier")
                  /\ owed' = IF op = "barrier" THEN owed \cup {cur} ELSE owed
    BY <1>7, <2>1 DEF CompleteIfetch
  <2>7. owed' # {} => barrierFetched' = TRUE BY <1>1, <2>2, <2>6
  <2>8. owed' \subseteq Threads BY <1>1, <2>6 DEF Inv, Shapes
  <2>9. QED BY <1>1, <2>1, <2>3, <2>5, <2>7, <2>8 DEF FlagInv
<1>8. CASE InitiateMemRead \/ WriteMem \/ InitiateMemAMO
  <2>1. PICK split \in BOOLEAN : Top("initiateAcc") /\ StartTranslation(split)
    BY <1>8 DEF InitiateMemRead, WriteMem, InitiateMemAMO, CrossesLine
  <2>2. UNCHANGED <<inst, owed, packet>> /\ inst # "mgmt"
    BY <1>8, <2>1 DEF InitiateMemRead, WriteMem, InitiateMemAMO, StartTranslation, instVars
  <2>3. acc.walk = {}
    BY <2>1, InFrame DEF Called, FetchFrames, RunFrames, Nothing, NoData
  <2>4. ~Marking BY <1>5, <2>1, <2>3
  <2>5. acc'.walk # {} /\ acc'.barrier = barrierFetched
    BY <2>1 DEF StartTranslation, MarkedAccess, Pieces
  <2>6. Marking' BY <2>5 DEF Marking
  <2>7. QED BY <1>1, <2>2, <2>4, <2>5, <2>6 DEF FlagInv
<1>9. CASE InitiateMemMgmtCmd
  <2>1. Top("initiateAcc") /\ inst = "mgmt" /\ acc' = NoAccess
        /\ UNCHANGED <<inst, owed, barrierFetched, packet>>
    BY <1>9 DEF InitiateMemMgmtCmd, instVars, flagVars
  <2>2. acc.walk = {}
    BY <2>1, InFrame DEF Called, FetchFrames, RunFrames, Nothing, NoData
  <2>3. ~Marking BY <1>5, <2>1, <2>2
  <2>4. NewTop({"sendData"}) BY <1>9, AccessTops
  <2>5. ~Marking' /\ ~Top("finishTranslation")' /\ acc'.walk = {}
    BY <2>1, <2>4 DEF Marking, NewTop, Top, NoAccess
  <2>6. QED BY <1>1, <2>1, <2>3, <2>5 DEF FlagInv
<1>10. CASE TranslateData \/ \E f \in {1, 2} : FinishDataTranslation(f)
  <2>1. acc.walk # {}
    <3>1. CASE TranslateData
      BY <3>1, InFrame DEF TranslateData, Called, FetchFrames, RunFrames, InTranslation
    <3>2. CASE \E f \in {1, 2} : FinishDataTranslation(f)
      BY <3>2 DEF FinishDataTranslation
    <3>3. QED BY <1>10, <3>1, <3>2
  <2>2. Marking /\ inst # "mgmt" BY <1>1, <2>1 DEF Marking
  <2>3. UNCHANGED <<inst, owed, packet>> /\ acc'.barrier = acc.barrier
    BY <1>10 DEF TranslateData, FinishDataTranslation, EndWalks, instVars, flagVars, Inv, Shapes
  <2>4. Marking' BY <1>10, AccessTops DEF Marking, Top
  <2>5. QED BY <1>3, <2>2, <2>3, <2>4
<1>11. CASE FinishTranslation
  <2>1. Top("finishTranslation") /\ inst # "mgmt" /\ Marking
    BY <1>1, <1>11 DEF FinishTranslation, Marking
  <2>2. ~acc.fault /\ ~acc.split BY DEF NoFaultInv, WholeInv
  <2>3. UNCHANGED <<acc, inst, owed, packet>> /\ Call("sendData")
    BY <1>11, <2>2 DEF FinishTranslation, flagVars
  <2>4. Top("sendData")' BY <2>1, <2>3, CalledNext DEF Top, Frames
  <2>5. Marking' BY <2>1, <2>3, <2>4 DEF Marking
  <2>6. QED BY <1>3, <2>1, <2>3, <2>5
<1>12. CASE SendData
  <2>1. Top("sendData") /\ inst \notin EndAtOnce /\ UNCHANGED <<acc, cur, inst>>
    BY <1>12 DEF DepthInv, EndAtOnce, SendData, instVars
  <2>2. acc.walk = {}
    BY <2>1, InFrame DEF Called, FetchFrames, RunFrames, Nothing, NoData
  <2>3. NewTop({"afterInitiate"}) BY <1>12, <2>1, AccessTops DEF EndAtOnce
  <2>4. PICK barrier \in (IF inst = "mgmt" THEN BOOLEAN ELSE {acc.barrier}) : Carry(barrier)
    BY <1>12, <2>1 DEF SendData, EndAtOnce
  <2>5. ~Marking' /\ ~Top("finishTranslation")' /\ acc'.walk = {}
    BY <2>1, <2>2, <2>3 DEF Marking, NewTop, Top
  <2>6. CASE inst = "mgmt"
    <3>1. ~Marking BY <2>1, <2>2, <2>6 DEF Marking, Top
    <3>2. UNCHANGED <<owed, barrierFetched>> /\ packet'.due = FALSE BY <2>4, <2>6 DEF Carry
    <3>3. QED BY <1>1, <2>5, <3>1, <3>2 DEF FlagInv
  <2>7. CASE inst # "mgmt"
    <3>1. Marking BY <2>1, <2>7 DEF Marking
    <3>2. owed' = owed \ {cur} /\ packet' = [barrier |-> acc.barrier, due |-> cur \in owed]
      BY <2>4, <2>7 DEF Carry
    <3>3. owed' = {} BY <1>1, <3>2 DEF OneThread, Inv, Shapes
    <3>4. packet'.due => packet'.barrier = TRUE BY <1>1, <3>1, <3>2
    <3>5. QED BY <2>5, <3>3, <3>4 DEF FlagInv
  <2>8. QED BY <2>6, <2>7
<1>13. CASE SendSplitData BY <1>13 DEF SendSplitData, WholeInv
<1>14. CASE CompleteDataAccess
  <2>1. PICK f \in {"completeDataAccess", "completeNoAccess"} : Top(f)
    BY <1>14 DEF CompleteDataAccess
  <2>2. acc.walk = {}
    BY <2>1, InFrame DEF Called, FetchFrames, RunFrames, Nothing, NoData, Delivering
  <2>3. ~Marking BY <1>5, <2>1, <2>2
  <2>4. UNCHANGED <<owed, barrierFetched, packet>> /\ acc' \in {acc, NoAccess}
    BY <1>14 DEF CompleteDataAccess, Fail, flagVars, dataVars
  <2>5. NewTop({"afterInitiate", "advanceInst", "advanceFault"})
    BY <1>14, AccessTops DEF NewTop
  <2>6. QED BY <1>2, <2>2, <2>3, <2>4, <2>5 DEF NewTop, Frames, NoAccess
<1>15. CASE DcacheRetry \/ \E f \in {1, 2} : DcacheResponse(f) \/ RetryResponse(f) \/ DcacheTick(f)
  <2>1. UNCHANGED acc /\ UNCHANGED inst /\ UNCHANGED <<owed, barrierFetched, packet>>
    BY <1>15 DEF DcacheRetry, DcacheResponse, RetryResponse, DcacheTick, Fail, instVars, flagVars,
                 dataVars
  <2>2. stack = <<>> /\ NewTop({"completeDataAccess"})
    BY <1>15, EventTops, AccessTops DEF DcacheTick, Event, NewTop
  <2>3. \A f \in {"finishTranslation", "sendData"} : ~Top(f) /\ ~Top(f)'
    BY <2>2 DEF Top, NewTop
  <2>4. QED BY <1>4, <2>1, <2>3
<1>16. CASE UNCHANGED vars
  <2>1. UNCHANGED <<stack, panic, inst, acc, packet, barrierFetched, owed>>
    BY <1>16 DEF vars, cpuVars, dataVars, instVars, flagVars
  <2>2. Marking' <=> Marking BY <2>1 DEF Marking, Top
  <2>3. Top("finishTranslation")' <=> Top("finishTranslation") BY <2>1 DEF Top
  <2>4. QED BY <1>1, <2>1, <2>2, <2>3 DEF FlagInv
<1>17. QED
  BY <1>6, <1>7, <1>8, <1>9, <1>10, <1>11, <1>12, <1>13, <1>14, <1>15, <1>16, GoodSteps
  DEF QuietStep, AccessStep

\* Where no access is split, nothing faults and no instruction ends before it has sent its
\* packet, the first packet a thread sends after a barrier is marked, however long
\* translations take and whatever is refused (timing.cc:473, 564, 630).
THEOREM BarrierCarried ==
  ASSUME OneThread, ~Split, ~Faults, Ops \cap EndAtOnce = {} PROVE Spec => []BarrierReachesMemory
<1> DEFINE I == /\ Inv /\ PacketInv /\ WholeInv /\ NoFaultInv /\ DepthInv /\ FlagInv
                /\ NoAssertionFails
<1>1. Init => I
  <2>1. SUFFICES ASSUME Init PROVE I OBVIOUS
  <2>2. /\ panic = "none" /\ stack = <<>> /\ dcachePkt = 0 /\ outstanding = 0 /\ inst = "none"
        /\ acc.split = FALSE /\ acc.fault = FALSE /\ acc.walk = {} /\ owed = {}
        /\ packet.due = FALSE /\ status = "Idle"
    BY <2>1 DEF Init, NoAccess
  <2>3. ~Marking /\ \A f : ~Top(f) BY <2>2 DEF Marking, Top
  <2>4. Len(stack) = 0 BY <2>2
  <2>5. PacketInv /\ WholeInv /\ NoFaultInv /\ NoAssertionFails
    BY <2>2, <2>3 DEF PacketInv, WholeInv, NoFaultInv, NoAssertionFails
  <2>6. DepthInv /\ FlagInv BY <2>2, <2>3, <2>4 DEF DepthInv, FlagInv
  <2>7. QED BY <2>1, <2>5, <2>6, InitInv
<1>2. I /\ [Next]_vars => I'
  <2>1. SUFFICES ASSUME I, [Next]_vars PROVE I' OBVIOUS
  <2>2. panic = "none" BY <2>1 DEF NoAssertionFails
  <2>3. Inv' /\ PacketInv' BY <2>1, NextInv, PacketKept
  <2>4. WholeInv' /\ NoFaultInv' /\ DepthInv'
    BY <2>1, <2>2, WholeKept, NoFaultKept, DepthKept
  <2>5. FlagInv' BY <2>1, <2>2, FlagKept
  <2>6. NoAssertionFails'
    BY <2>1, <2>2, FailsOnly DEF NoAssertionFails, WholeInv, NoFaultInv
  <2>7. QED BY <2>3, <2>4, <2>5, <2>6
<1>3. I => BarrierReachesMemory BY DEF FlagInv, NoAssertionFails, BarrierReachesMemory
<1>4. QED BY <1>1, <1>2, <1>3, PTL DEF Spec

-----------------------------------------------------------------------------
(* The DMA controller                                                      *)

Transactions == DMATypeOK /\ OneTransactionPerLine

\* What a step does to the messages of a line.
LEMMA DmaStarts ==
  ASSUME Transactions, NEW r \in Requests, StartRequest(r)
  PROVE  Transactions'
<1> DEFINE line == LineOf[r]
           m == [req |-> r, type |-> IF IsRead[r] THEN "READ" ELSE "WRITE"]
           st == IF IsRead[r] THEN "BUSY_RD" ELSE "BUSY_WR"
<1>1. /\ line \in Lines /\ st \in {"BUSY_RD", "BUSY_WR"} /\ m.req = r
      /\ m \in [req : Requests, type : {"READ", "WRITE"}]
  BY DMAAssumption
<1>2. /\ tbe[line] = "READY" /\ tbe' = [tbe EXCEPT ![line] = st]
      /\ requestToDir' = requestToDir \cup {m}
      /\ mandatoryQueue' \subseteq mandatoryQueue
      /\ UNCHANGED <<stalled, responseFromDir, called>>
  BY DEF StartRequest, Ready
<1>3. DMATypeOK'
  BY <1>1, <1>2 DEF Transactions, DMATypeOK, States
<1>4. ASSUME NEW l \in Lines
      PROVE  /\ InFlight(l)' = IF l = line THEN {m} ELSE InFlight(l)
             /\ tbe'[l] = IF l = line THEN st ELSE tbe[l]
  <2>1. InFlight(line) = {}
    BY <1>1, <1>2 DEF Transactions, OneTransactionPerLine
  <2>2. InFlight(l)' = IF l = line THEN InFlight(l) \cup {m} ELSE InFlight(l)
    BY <1>1, <1>2 DEF InFlight
  <2> QED
    BY <1>1, <1>2, <2>1, <2>2 DEF Transactions, DMATypeOK
<1>5. OneTransactionPerLine'
  <2> HIDE DEF m, line
  <2> SUFFICES ASSUME NEW l \in Lines
               PROVE  /\ \A a, b \in InFlight(l)' : a = b
                      /\ InFlight(l)' = {} <=> tbe'[l] = "READY"
                      /\ \A a \in InFlight(l)' :
                           tbe'[l] = IF IsRead[a.req] THEN "BUSY_RD" ELSE "BUSY_WR"
    BY DEF OneTransactionPerLine
  <2>1. CASE l = line
    BY <1>1, <1>4, <2>1
  <2>2. CASE l # line
    BY <1>4, <2>2 DEF Transactions, OneTransactionPerLine
  <2> QED
    BY <2>1, <2>2
<1> QED
  BY <1>3, <1>5 DEF Transactions

\* A request and its answer are not the same message.
LEMMA DmaAnswers ==
  ASSUME Transactions, NEW m \in requestToDir, DirectoryAnswers(m)
  PROVE  Transactions'
<1> DEFINE a == [req |-> m.req, type |-> Answer(m.type)]
           line == LineOf[m.req]
<1>1. m \in [req : Requests, type : {"READ", "WRITE"}]
  BY DEF Transactions, DMATypeOK
<1>2. /\ a \in [req : Requests, type : {"DATA", "ACK"}] /\ a.req = m.req
      /\ line \in Lines
  BY <1>1, DMAAssumption DEF Answer
<1>3. /\ requestToDir' = requestToDir \ {m} /\ responseFromDir' = responseFromDir \cup {a}
      /\ UNCHANGED <<mandatoryQueue, stalled, tbe, called>>
  BY DEF DirectoryAnswers
<1>4. DMATypeOK'
  BY <1>2, <1>3 DEF Transactions, DMATypeOK
<1>5. m \in InFlight(line) /\ \A n \in InFlight(line) : n = m
  BY <1>2 DEF Transactions, OneTransactionPerLine, InFlight
<1>6. m \notin responseFromDir
  BY <1>1 DEF Transactions, DMATypeOK
<1>7. ASSUME NEW l \in Lines
      PROVE  InFlight(l)' = IF l = line THEN {a} ELSE InFlight(l)
  <2> HIDE DEF a
  <2>1. CASE l = line
    BY <1>2, <1>3, <1>5, <1>6, <2>1 DEF InFlight
  <2>2. CASE l # line
    BY <1>2, <1>3, <2>2 DEF InFlight
  <2> QED
    BY <2>1, <2>2
<1>8. OneTransactionPerLine'
  <2> HIDE DEF a, line
  <2> SUFFICES ASSUME NEW l \in Lines
               PROVE  /\ \A b, c \in InFlight(l)' : b = c
                      /\ InFlight(l)' = {} <=> tbe'[l] = "READY"
                      /\ \A b \in InFlight(l)' :
                           tbe'[l] = IF IsRead[b.req] THEN "BUSY_RD" ELSE "BUSY_WR"
    BY DEF OneTransactionPerLine
  <2>1. CASE l = line
    BY <1>2, <1>3, <1>5, <1>7, <2>1 DEF Transactions, OneTransactionPerLine
  <2>2. CASE l # line
    BY <1>3, <1>7, <2>2 DEF Transactions, OneTransactionPerLine
  <2> QED
    BY <2>1, <2>2
<1> QED
  BY <1>4, <1>8 DEF Transactions

LEMMA DmaEnds ==
  ASSUME Transactions, NEW m \in responseFromDir, EndRequest(m)
  PROVE  Transactions'
<1> DEFINE line == LineOf[m.req]
<1>1. m \in [req : Requests, type : {"DATA", "ACK"}]
  BY DEF Transactions, DMATypeOK
<1>2. line \in Lines
  BY <1>1, DMAAssumption
<1>3. /\ responseFromDir' = responseFromDir \ {m} /\ tbe' = [tbe EXCEPT ![line] = "READY"]
      /\ called' = called \cup {[req |-> m.req, type |-> m.type]}
      /\ mandatoryQueue' = mandatoryQueue \cup stalled /\ stalled' = {}
      /\ UNCHANGED requestToDir
  BY DEF EndRequest, Popped, WakeUpAllBuffers
<1>4. DMATypeOK'
  BY <1>1, <1>2, <1>3 DEF Transactions, DMATypeOK, States
<1>5. m \in InFlight(line) /\ \A n \in InFlight(line) : n = m
  BY <1>2 DEF Transactions, OneTransactionPerLine, InFlight
<1>6. m \notin requestToDir
  BY <1>1 DEF Transactions, DMATypeOK
<1>7. ASSUME NEW l \in Lines
      PROVE  /\ InFlight(l)' = IF l = line THEN {} ELSE InFlight(l)
             /\ tbe'[l] = IF l = line THEN "READY" ELSE tbe[l]
  <2>1. tbe'[l] = IF l = line THEN "READY" ELSE tbe[l]
    BY <1>2, <1>3 DEF Transactions, DMATypeOK
  <2>2. CASE l = line
    BY <1>2, <1>3, <1>5, <1>6, <2>1, <2>2 DEF InFlight
  <2>3. CASE l # line
    BY <1>2, <1>3, <2>1, <2>3 DEF InFlight
  <2> QED
    BY <2>2, <2>3
<1>8. OneTransactionPerLine'
  <2> HIDE DEF line
  <2> SUFFICES ASSUME NEW l \in Lines
               PROVE  /\ \A b, c \in InFlight(l)' : b = c
                      /\ InFlight(l)' = {} <=> tbe'[l] = "READY"
                      /\ \A b \in InFlight(l)' :
                           tbe'[l] = IF IsRead[b.req] THEN "BUSY_RD" ELSE "BUSY_WR"
    BY DEF OneTransactionPerLine
  <2> QED
    BY <1>7 DEF Transactions, OneTransactionPerLine
<1> QED
  BY <1>4, <1>8 DEF Transactions

LEMMA TransactionsKept ==
  ASSUME Transactions, [DMANext]_dmaVars PROVE Transactions'
<1>1. ASSUME NEW r \in Requests, MakeRequest(r) \/ StallRequest(r)
      PROVE  Transactions'
  BY <1>1 DEF MakeRequest, StallRequest, Transactions, DMATypeOK,
              OneTransactionPerLine, InFlight
<1>2. CASE UNCHANGED dmaVars
  BY <1>2 DEF dmaVars, Transactions, DMATypeOK, OneTransactionPerLine, InFlight
<1> QED
  BY <1>1, <1>2, DmaStarts, DmaAnswers, DmaEnds
  DEF DMANext, RequestPort, ResponsePort, Answers

\* A line that is busy waits for one message, of the kind its state declares, whatever
\* the requests and the order of the answers; a line that is ready waits for none
\* (TARDISTSO_TECTREE-dma.sm).
THEOREM OneTransactionAtATime ==
  DMASpec => []OneTransactionPerLine
<1>1. DMAInit => Transactions
  BY DEF DMAInit, Transactions, DMATypeOK, OneTransactionPerLine, InFlight, States
<1>2. Transactions /\ [DMANext]_dmaVars => Transactions'
  BY TransactionsKept
<1>3. Transactions => OneTransactionPerLine
  BY DEF Transactions
<1> QED
  BY <1>1, <1>2, <1>3, PTL DEF DMASpec

\* A request is in one place: made, set aside, under way, or answered.
OnePlace ==
  /\ \A r \in mandatoryQueue : r \notin stalled
  /\ \A m \in requestToDir \cup responseFromDir : m.req \notin mandatoryQueue \cup stalled
Answered == CalledOnce /\ StalledIsAwaited /\ OnePlace

LEMMA EndAnswers ==
  ASSUME Transactions, Answered, NEW m \in responseFromDir, EndRequest(m)
  PROVE  Answered'
<1> DEFINE line == LineOf[m.req]
           c == [req |-> m.req, type |-> m.type]
<1>1. /\ m \in [req : Requests, type : {"DATA", "ACK"}]
      /\ m \notin requestToDir
  BY DEF Transactions, DMATypeOK
<1>2. /\ line \in Lines /\ m \in InFlight(line)
      /\ c.req = m.req /\ c.type = m.type
  BY <1>1, DMAAssumption DEF InFlight
<1>3. /\ responseFromDir' = responseFromDir \ {m}
      /\ called' = called \cup {c}
      /\ mandatoryQueue' = mandatoryQueue \cup stalled /\ stalled' = {}
      /\ UNCHANGED requestToDir
      /\ tbe[line] = IF m.type = "DATA" THEN "BUSY_RD" ELSE "BUSY_WR"
  BY DEF EndRequest, Popped, WakeUpAllBuffers
<1>4. c.type = IF IsRead[c.req] THEN "DATA" ELSE "ACK"
  BY <1>1, <1>2, <1>3 DEF Transactions, OneTransactionPerLine
<1>5. \A n \in requestToDir \cup (responseFromDir \ {m}) : n.req # m.req
  BY <1>1, <1>2 DEF Transactions, OneTransactionPerLine, InFlight
<1> HIDE DEF c
<1>6. CalledOnce'
  BY <1>1, <1>2, <1>3, <1>4, <1>5 DEF Answered, CalledOnce, OnePlace
<1>7. StalledIsAwaited' /\ OnePlace'
  BY <1>3 DEF Answered, OnePlace, StalledIsAwaited
<1> QED
  BY <1>6, <1>7 DEF Answered

LEMMA AnswerAnswers ==
  ASSUME Transactions, Answered, NEW m \in requestToDir, DirectoryAnswers(m)
  PROVE  Answered'
<1> DEFINE a == [req |-> m.req, type |-> Answer(m.type)]
<1>1. a.req = m.req
  OBVIOUS
<1>2. /\ requestToDir' = requestToDir \ {m} /\ responseFromDir' = responseFromDir \cup {a}
      /\ UNCHANGED <<mandatoryQueue, stalled, tbe, called>>
  BY DEF DirectoryAnswers
<1> HIDE DEF a
<1>3. CalledOnce'
  BY <1>1, <1>2 DEF Answered, CalledOnce
<1>4. StalledIsAwaited' /\ OnePlace'
  BY <1>1, <1>2 DEF Answered, StalledIsAwaited, OnePlace
<1> QED
  BY <1>3, <1>4 DEF Answered

LEMMA StartAnswers ==
  ASSUME Transactions, Answered, NEW r \in Requests, StartRequest(r)
  PROVE  Answered'
<1> DEFINE line == LineOf[r]
           m == [req |-> r, type |-> IF IsRead[r] THEN "READ" ELSE "WRITE"]
           st == IF IsRead[r] THEN "BUSY_RD" ELSE "BUSY_WR"
<1>1. /\ line \in Lines /\ st # "READY" /\ m.req = r
  BY DMAAssumption
<1>2. /\ r \in mandatoryQueue /\ tbe' = [tbe EXCEPT ![line] = st]
      /\ requestToDir' = requestToDir \cup {m}
      /\ mandatoryQueue' = mandatoryQueue \ {r}
      /\ UNCHANGED <<stalled, responseFromDir, called>>
  BY DEF StartRequest
<1> HIDE DEF m, line, st
<1>3. CalledOnce'
  BY <1>1, <1>2 DEF Answered, CalledOnce
<1>4. tbe'[line] # "READY"
  BY <1>1, <1>2 DEF Transactions, DMATypeOK
<1>5. StalledIsAwaited' /\ OnePlace'
  BY <1>1, <1>2, <1>4 DEF Answered, StalledIsAwaited, OnePlace
<1> QED
  BY <1>3, <1>5 DEF Answered

\* A device is called back once for each request, with data for a read and without for
\* a write, and a request that is set aside has a busy line whose end will wake it,
\* although a line that becomes ready wakes the requests for every line
\* (TARDISTSO_TECTREE-dma.sm).
THEOREM RequestsAnsweredOnce ==
  DMASpec => [](CalledOnce /\ StalledIsAwaited)
<1>1. DMAInit => Transactions /\ Answered
  BY DEF DMAInit, Transactions, DMATypeOK, OneTransactionPerLine, InFlight, States,
         Answered, CalledOnce, StalledIsAwaited, OnePlace
<1>2. ASSUME Transactions, Answered, [DMANext]_dmaVars PROVE Answered'
  <2>1. ASSUME NEW r \in Requests, MakeRequest(r)
        PROVE  Answered'
    BY <1>2, <2>1 DEF MakeRequest, Known, Answered, CalledOnce, StalledIsAwaited, OnePlace
  <2>2. ASSUME NEW r \in Requests, StallRequest(r)
        PROVE  Answered'
    <3>1. LineOf[r] \in Lines /\ tbe[LineOf[r]] # "READY"
      BY <2>2, DMAAssumption DEF StallRequest, Ready
    <3> QED
      BY <1>2, <2>2, <3>1
      DEF StallRequest, Answered, CalledOnce, StalledIsAwaited, OnePlace
  <2>3. CASE UNCHANGED dmaVars
    BY <1>2, <2>3 DEF dmaVars, Answered, CalledOnce, StalledIsAwaited, OnePlace
  <2> QED
    BY <1>2, <2>1, <2>2, <2>3, StartAnswers, AnswerAnswers, EndAnswers
    DEF DMANext, RequestPort, ResponsePort, Answers
<1>3. ASSUME Transactions, [DMANext]_dmaVars PROVE Transactions'
  BY <1>3, TransactionsKept
<1>4. Answered => CalledOnce /\ StalledIsAwaited
  BY DEF Answered
<1> QED
  BY <1>1, <1>2, <1>3, <1>4, PTL DEF DMASpec
=============================================================================
