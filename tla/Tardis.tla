------------------------------- MODULE Tardis -------------------------------
(***************************************************************************)
(* The coherence protocol as a whole: L1 caches, timestamp manager and the *)
(* memory behind it.  What they promise together is in TardisProperties.   *)
(***************************************************************************)
EXTENDS L1Cache, Directory

(* Memory.  Not part of src/: gem5's memory controller behind the message  *)
(* buffers of AbstractController.  It serves the requests for one line in  *)
(* order, those for different lines in any order.                          *)
MemServe(a) ==
    /\ fault = NoFault
    /\ memPend[a] # <<>>
    /\ LET op == Head(memPend[a]) IN
         IF op.type = "MEMORY_READ"
         THEN /\ memQ' = Append(memQ, [type |-> "MEMORY_READ", a |-> a, val |-> mem[a]])
              /\ UNCHANGED mem
         ELSE /\ mem' = [mem EXCEPT ![a] = op.val]
              /\ memQ' = Append(memQ, [type |-> "MEMORY_WB", a |-> a, val |-> 0])
    /\ memPend' = [memPend EXCEPT ![a] = Tail(memPend[a])]
    /\ UNCHANGED <<l1Vars, chanVars, dirVars, ghostVars, fault>>

\* Every request issued has completed and every buffer is empty.
Quiescent ==
    /\ \A c \in Cores : mq[c] = <<>> /\ \A a \in Lines : l1[c][a].st \notin L1Busy
    /\ reqQ = <<>> /\ waitQ = {} /\ rspQ = <<>> /\ fwd = {} /\ rep = {}
    /\ memQ = <<>> /\ \A a \in Addrs : memPend[a] = <<>>

\* The program ends when the cores have no more requests to issue, or with the
\* first fault.
Stop ==
    /\ fault # NoFault \/ (Quiescent /\ \A c \in Cores : opsLeft[c] = 0)
    /\ UNCHANGED vars

Next ==
    \/ \E c \in Cores : L1Next(c)
    \/ Stop
    \/ DirNext
    \/ \E a \in Addrs : MemServe(a)

Spec == Init /\ [][Next]_vars

\* A controller is woken as long as a port of it has a message that is ready, and
\* the memory answers every request.  A stalled head starves only the ports after
\* its own: where the LLC evicts nothing these are never what it waits for.
FairSpec ==
    /\ Spec
    /\ \A c \in Cores : WF_vars(L1Next(c))
    /\ WF_vars(RequestPort) /\ WF_vars(ResponsePort) /\ WF_vars(MemoryPort)
    /\ \A a \in Addrs : WF_vars(MemServe(a))

-----------------------------------------------------------------------------
L1TypeOK ==
    /\ l1 \in [Cores -> [Lines -> L1Entry]]
    /\ lts \in [Cores -> Nat] /\ sts \in [Cores -> Nat]
    /\ mq \in [Cores -> Seq(CoreReq)]
    /\ opsLeft \in [Cores -> Nat]
BuffersTypeOK ==
    /\ reqQ \in Seq(Request) /\ waitQ \subseteq Request
    /\ rspQ \in Seq(FromCache)
    /\ fwd \subseteq Forward /\ rep \subseteq ToCache
DirTypeOK ==
    /\ dir \in [Addrs -> DirEntry]
    /\ tbe \in [Addrs -> TBE]
    /\ llc \in [Addrs -> LLCEntry]
    /\ auth \in [Counters -> AuthTBE]
    /\ mts \in Nat /\ root \in [0..2 -> Nat]
MemTypeOK ==
    /\ mem \in [Addrs -> Nat]
    /\ memPend \in [Addrs -> Seq(MemOp)] /\ memQ \in Seq(MemMsg)
HistoryTypeOK == written \in [Lines -> Nat] /\ current \in [Lines -> Nat]

\* Every message, entry and buffer has the shape its SLICC structure declares.
TypeOK == L1TypeOK /\ BuffersTypeOK /\ DirTypeOK /\ MemTypeOK /\ HistoryTypeOK

=============================================================================
