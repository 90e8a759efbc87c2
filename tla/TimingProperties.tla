-------------------------- MODULE TimingProperties --------------------------
(***************************************************************************)
(* Properties of TimingSimpleCPU.                                          *)
(***************************************************************************)
EXTENDS TimingCPU

Frames == {"fetch", "checkEvents", "translateFetch", "sendFetch", "fetchFault",
  "completeIfetch", "execute", "initiateAcc", "afterInitiate", "afterInitiateFault",
  "advanceInst", "advanceFault", "translateData", "finishTranslation", "sendData",
  "sendSplitData", "completeDataAccess", "completeNoAccess"}

\* Type invariant.
TypeOK ==
  /\ status \in Statuses /\ stack \in Seq(Frames)
  /\ panic \in {"none", "icache recvReqRetry", "icache recvTimingResp", "completeIfetch",
                "dcache recvReqRetry", "completeDataAccess", "drainResume", "suspendContext"}
  /\ fetchEvent \in BOOLEAN /\ drain \in {"Running", "Draining", "Signalled", "Drained"}
  /\ cur \in Threads /\ active \subseteq Threads /\ halted \subseteq Threads
  /\ inst \in Ops \cup {"none"} /\ macro \in [Threads -> 0..MaxMicro]
  /\ {delayed, stay, ready, moved} \subseteq BOOLEAN
  /\ icache \in [walks : Nat, retry : BOOLEAN, sent : Nat, tick : BOOLEAN]
  /\ acc \in [split : BOOLEAN, walk : SUBSET {1, 2}, fault : BOOLEAN, barrier : BOOLEAN]
  /\ frag \in [{1, 2} -> Places] /\ outstanding \in 0..2 /\ dcachePkt \in 0..2
  /\ packet \in [barrier : BOOLEAN, due : BOOLEAN]
  /\ barrierFetched \in BOOLEAN /\ owed \subseteq Threads

Live == {f \in {1, 2} : frag[f] # "none"}
Fetching == icache.walks > 0 \/ icache.retry \/ icache.sent > 0 \/ icache.tick

\* Between two events the CPU waits for exactly what its status says and for nothing
\* else: no lost wakeup, no second activity.  (timing.cc keeps the two apart: a status
\* here, events, packets and translations there.)
StatusTellsWhatIsAwaited ==
  Event =>
    LET only(what) == << fetchEvent, icache.walks, icache.retry, icache.sent,
                         icache.tick, acc.walk # {}, Live # {} >> = what
        idle == <<FALSE, 0, FALSE, 0, FALSE, FALSE, FALSE>>
    IN  CASE status = "Idle" -> only(idle)
          [] status \in {"Running", "Faulting"} ->
               \/ only([idle EXCEPT ![1] = TRUE])
               \/ status = "Running" /\ drain \in {"Signalled", "Drained"} /\ only(idle)
          [] status = "ITBWaitResponse" -> only([idle EXCEPT ![2] = 1])
          [] status = "IcacheRetry" -> only([idle EXCEPT ![3] = TRUE])
          [] status = "IcacheWaitResponse" ->
               only([idle EXCEPT ![4] = 1]) \/ only([idle EXCEPT ![5] = TRUE])
          [] status = "DTBWaitResponse" -> only([idle EXCEPT ![6] = TRUE])
          [] status = "DcacheRetry" ->
               only([idle EXCEPT ![7] = TRUE]) /\ dcachePkt # 0 /\ frag[dcachePkt] = "pending"
          [] status = "DcacheWaitResponse" ->
               only([idle EXCEPT ![7] = TRUE]) /\ \A f \in {1, 2} : frag[f] # "pending"

\* The counter of a split access counts the packets not answered, while replies are
\* refused, delayed and overtake retries (timing.hh:80).
SplitCounted ==
  outstanding = IF acc.split /\ ~Top("sendSplitData") /\ acc.walk = {} /\ inst # "prefetch"
                  /\ ~Top("finishTranslation")
                THEN Cardinality(Live) + (IF Top("completeDataAccess") \/ panic = "completeDataAccess" THEN 1 ELSE 0)
                ELSE 0

\* The PC moves only past an instruction that has taken effect, and once
\* (timing.cc:890: a CPU that still runs after initiateAcc has not completed it).
AdvancesOnce == Top("advanceInst") /\ ~stay /\ status # "Faulting" => ready

\* A CPU that has drained can be switched out, whatever it was doing when it was asked,
\* and nothing of it is left in flight (timing.hh:350).
DrainedCanSwitchOut ==
  drain = "Drained" /\ Event => SwitchOutAsserts /\ Live = {} /\ ~Fetching /\ acc.walk = {}

\* The first packet a thread sends after a barrier is marked (timing.cc:473, 564, 630).
BarrierReachesMemory == packet.due => packet.barrier

\* The CPU never has two instruction fetches under way (timing.cc:951).
OneFetch == icache.walks + icache.sent + (IF icache.tick THEN 1 ELSE 0) <= 1

\* No reply reaches an access that cannot take it (timing.cc:987).
RepliesFindTheirAccess == panic # "completeDataAccess"

\* No assertion fails.
NoAssertionFails == panic = "none"

\* Whatever is refused, delayed or faults, the CPU comes back to fetch, unless it has
\* no thread to run or has drained.
NeverHangs ==
  []<>(Top("fetch") \/ status = "Idle" \/ drain \in {"Signalled", "Drained"} \/ panic # "none")

\* A drain that was asked for ends, with the signal of advanceInst or because the CPU
\* has nothing to run.
DrainEnds == (drain = "Draining") ~> (drain # "Draining" \/ status = "Idle" \/ panic # "none")

\* Where translations fault, it ends if the faults do: each handler is another
\* instruction to complete.
DrainEndsAfterFaults == <>[](status # "Faulting") => DrainEnds

\* The CPU is an in-order core: it fetches, then makes at most one access, which ends
\* with its last reply, and only then moves the PC, once.
Core == INSTANCE InOrderCore WITH
  Parts <- {1, 2}, fetching <- Fetching, waiting <- Live, done <- ready, pc <- moved
ImplementsCore == Core!Spec

\* The steps of the same, where an assertion may end the run before the last reply.
CoreSteps == Core!Safety

\* A drain that ends inside initiateAcc leaves the CPU Running, and completeIfetch, which
\* takes that for an instruction without an access (timing.cc:893), moves the PC again.
MovesAgain == /\ Top("advanceInst") /\ drain = "Signalled" /\ ~ready
              /\ moved' = ~moved /\ UNCHANGED <<Fetching, Live, ready>>

\* But for that one move the CPU steps like an in-order core, whatever it executes and
\* whenever it is asked to drain.
StepsLikeCore == Core!Init /\ [][Core!Next \/ MovesAgain]_(Core!coreVars)
=============================================================================
