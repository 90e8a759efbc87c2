-------------------------------- MODULE DMA --------------------------------
(***************************************************************************)
(* The DMA controller: it turns the requests of a device into READ and     *)
(* WRITE messages for the directory, one per line at a time, and calls the *)
(* device back.  Requests for a line that is busy are set aside and all of *)
(* those set aside are woken together when any line becomes ready.         *)
(*                                                                         *)
(* The DMA sequencer, the message buffers and a directory that serves DMA  *)
(* (the one of this protocol has no port for it) are external.             *)
(***************************************************************************)
EXTENDS Naturals, FiniteSets

CONSTANTS
  Lines,
  Requests,      \* the requests of the device
  LineOf, IsRead \* the line each is for, and which are reads

ASSUME DMAAssumption ==
  /\ IsFiniteSet(Requests)
  /\ LineOf \in [Requests -> Lines] /\ IsRead \in [Requests -> BOOLEAN]

VARIABLES
  mandatoryQueue,  \* requests the request port may find at its head
  stalled,         \* requests set aside
  tbe,             \* the state of each line: a TBE is there unless it is READY
  requestToDir,    \* messages [req, type]
  responseFromDir, \* messages [req, type]
  called           \* callbacks made: [req, type]

dmaVars == <<mandatoryQueue, stalled, tbe, requestToDir, responseFromDir, called>>

States == {"READY", "BUSY_RD", "BUSY_WR"}

DMAInit ==
  /\ mandatoryQueue = {} /\ stalled = {}
  /\ tbe = [l \in Lines |-> "READY"]
  /\ requestToDir = {} /\ responseFromDir = {} /\ called = {}

Known == mandatoryQueue \cup stalled
           \cup {m.req : m \in requestToDir \cup responseFromDir \cup called}

\* The sequencer makes a request; the machine does not rely on its holding back
\* requests for one line.
MakeRequest(r) ==
  /\ r \notin Known
  /\ mandatoryQueue' = mandatoryQueue \cup {r}
  /\ UNCHANGED <<stalled, tbe, requestToDir, responseFromDir, called>>

-----------------------------------------------------------------------------

\* (Mutant: the state of a line is not looked at.)
AlwaysReady(l) == TRUE
Ready(l) == tbe[l] = "READY"

StartRequest(r) ==
  /\ r \in mandatoryQueue /\ Ready(LineOf[r])
  /\ mandatoryQueue' = mandatoryQueue \ {r}
  /\ tbe' = [tbe EXCEPT ![LineOf[r]] = IF IsRead[r] THEN "BUSY_RD" ELSE "BUSY_WR"]
  /\ requestToDir' =
       requestToDir \cup {[req |-> r, type |-> IF IsRead[r] THEN "READ" ELSE "WRITE"]}
  /\ UNCHANGED <<stalled, responseFromDir, called>>

StallRequest(r) ==
  /\ r \in mandatoryQueue /\ ~Ready(LineOf[r])
  /\ mandatoryQueue' = mandatoryQueue \ {r} /\ stalled' = stalled \cup {r}
  /\ UNCHANGED <<tbe, requestToDir, responseFromDir, called>>

\* wakeUpAllBuffers: whatever line they wait for.  (Mutant: none.)
WakeNone == UNCHANGED <<mandatoryQueue, stalled>>
WakeUpAllBuffers == mandatoryQueue' = mandatoryQueue \cup stalled /\ stalled' = {}

\* (Mutant: the response is not popped.)
Unpopped(m) == responseFromDir
Popped(m) == responseFromDir \ {m}

\* The line is ready again and the device is called back.  No other pair of state
\* and response has a transition.
EndRequest(m) ==
  /\ m \in responseFromDir
  /\ tbe[LineOf[m.req]] = IF m.type = "DATA" THEN "BUSY_RD" ELSE "BUSY_WR"
  /\ responseFromDir' = Popped(m)
  /\ tbe' = [tbe EXCEPT ![LineOf[m.req]] = "READY"]
  /\ called' = called \cup {[req |-> m.req, type |-> m.type]}
  /\ WakeUpAllBuffers
  /\ UNCHANGED requestToDir

\* A directory that serves DMA answers a READ with DATA and a WRITE with an ACK.
\* (Mutant: it echoes the request.)
Echo(type) == type
Answer(type) == IF type = "READ" THEN "DATA" ELSE "ACK"
DirectoryAnswers(m) ==
  /\ m \in requestToDir
  /\ requestToDir' = requestToDir \ {m}
  /\ responseFromDir' = responseFromDir \cup
       {[req |-> m.req, type |-> Answer(m.type)]}
  /\ UNCHANGED <<mandatoryQueue, stalled, tbe, called>>

RequestPort == \E r \in Requests : StartRequest(r) \/ StallRequest(r)
ResponsePort == \E m \in responseFromDir : EndRequest(m)
Answers == \E m \in requestToDir : DirectoryAnswers(m)

DMANext == (\E r \in Requests : MakeRequest(r)) \/ RequestPort \/ ResponsePort \/ Answers
DMASpec == DMAInit /\ [][DMANext]_dmaVars

\* The ports are tried while a message is there; messages travel and are answered.
DMAFairSpec == DMASpec /\ WF_dmaVars(RequestPort) /\ WF_dmaVars(ResponsePort) /\ WF_dmaVars(Answers)

-----------------------------------------------------------------------------
(* Properties *)

DMATypeOK ==
  /\ mandatoryQueue \subseteq Requests /\ stalled \subseteq Requests
  /\ tbe \in [Lines -> States]
  /\ requestToDir \subseteq [req : Requests, type : {"READ", "WRITE"}]
  /\ responseFromDir \subseteq [req : Requests, type : {"DATA", "ACK"}]
  /\ called \subseteq [req : Requests, type : {"DATA", "ACK"}]

\* What a busy line waits for is under way, once, and is of the kind its state
\* declares; a line that is ready waits for nothing.
InFlight(l) == {m \in requestToDir \cup responseFromDir : LineOf[m.req] = l}
OneTransactionPerLine ==
  \A l \in Lines :
    /\ \A m, n \in InFlight(l) : m = n
    /\ InFlight(l) = {} <=> tbe[l] = "READY"
    /\ \A m \in InFlight(l) : tbe[l] = IF IsRead[m.req] THEN "BUSY_RD" ELSE "BUSY_WR"

\* A device is called back once for a request, with data for a read.
CalledOnce ==
  /\ \A m \in called : m.type = IF IsRead[m.req] THEN "DATA" ELSE "ACK"
  /\ \A m \in called : m.req \notin mandatoryQueue \cup stalled
                         \cup {n.req : n \in requestToDir \cup responseFromDir}

\* A request set aside has a line to wait for: somebody will wake it.
StalledIsAwaited ==
  stalled # {} => \E l \in Lines : tbe[l] # "READY"

\* Every request is called back.
AllServed == \A r \in Requests : r \in mandatoryQueue ~> r \in {m.req : m \in called}
=============================================================================
