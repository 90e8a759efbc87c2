------------------------------ MODULE LSQShare ------------------------------
(***************************************************************************)
(* How the threads of an SMT CPU share the load and store queues: the size *)
(* the policy gives each thread's queues, and the questions rename and     *)
(* IEW ask before they insert.  The queues are LSQUnits, one for each      *)
(* thread; only their occupancy matters here.                              *)
(***************************************************************************)
EXTENDS Naturals, FiniteSets, Functions

CONSTANTS
  Threads,              \* active threads
  Policy,               \* lsqPolicy
  LQEntries, SQEntries, \* entries of the whole queues
  SMTThreshold          \* smtLSQThreshold

\* What a configuration the LSQ accepts looks like.
ShareAssumption ==
  /\ IsFiniteSet(Threads) /\ Threads # {}
  /\ Policy \in {"Dynamic", "Partitioned", "Threshold"}
  /\ {LQEntries, SQEntries, SMTThreshold} \subseteq Nat
  /\ Policy = "Threshold" => SMTThreshold > LQEntries /\ SMTThreshold > SQEntries

VARIABLES
  loads, stores,   \* entries in use in the queues of each thread
  panic            \* what stopped the CPU, or "none"

vars == <<loads, stores, panic>>

\* (Mutant: partitions are as large as the whole.)
MaxAllocationWhole(entries) == entries
MaxLSQAllocation(entries) ==
  CASE Policy = "Dynamic"     -> entries
    [] Policy = "Partitioned" -> entries \div Cardinality(Threads)
    [] Policy = "Threshold"   -> SMTThreshold
MaxLQEntries == MaxLSQAllocation(LQEntries)
MaxSQEntries == MaxLSQAllocation(SQEntries)

Init == /\ loads = [t \in Threads |-> 0] /\ stores = [t \in Threads |-> 0]
        /\ panic = "none"

\* lqFull(): the queues of all the threads.  lqFull(tid): the thread's own, unless
\* the policy is dynamic.  (Mutant of it: always all of them.)
LqFullAll == \A u \in Threads : loads[u] = MaxLQEntries
LqFullForAll(t) == LqFullAll
LqFull(t) == IF Policy = "Dynamic" THEN LqFullAll ELSE loads[t] = MaxLQEntries

\* sqFull() asks sqFull(tid) of each thread and, if the policy is dynamic,
\* sqFull(tid) asks sqFull(): the calls do not end.
SqFullReturns == Policy # "Dynamic"
SqFull(t) == stores[t] = MaxSQEntries

-----------------------------------------------------------------------------

\* IEW inserts a load unless lqFull(tid); LSQUnit asserts that there is room.
InsertLoad(t) ==
  /\ panic = "none" /\ ~LqFull(t)
  /\ IF loads[t] < MaxLQEntries
       THEN loads' = [loads EXCEPT ![t] = @ + 1] /\ UNCHANGED panic
       ELSE panic' = "insert into a full queue" /\ UNCHANGED loads
  /\ UNCHANGED stores

\* (Mutant: a store is inserted without asking.)
InsertStoreUnasked(t) ==
  /\ panic = "none" /\ SqFullReturns
  /\ stores' = [stores EXCEPT ![t] = @ + 1] /\ UNCHANGED <<loads, panic>>
InsertStore(t) ==
  /\ panic = "none"
  /\ IF ~SqFullReturns
       THEN panic' = "sqFull does not return" /\ UNCHANGED stores
       ELSE /\ ~SqFull(t)
            /\ stores' = [stores EXCEPT ![t] = @ + 1] /\ UNCHANGED panic
  /\ UNCHANGED loads

\* Commit, completion or a squash frees an entry.
RemoveLoad(t) ==
  /\ panic = "none" /\ loads[t] > 0
  /\ loads' = [loads EXCEPT ![t] = @ - 1] /\ UNCHANGED <<stores, panic>>
RemoveStore(t) ==
  /\ panic = "none" /\ stores[t] > 0
  /\ stores' = [stores EXCEPT ![t] = @ - 1] /\ UNCHANGED <<loads, panic>>

Next == \E t \in Threads :
  InsertLoad(t) \/ InsertStore(t) \/ RemoveLoad(t) \/ RemoveStore(t)

Spec == Init /\ [][Next]_vars

-----------------------------------------------------------------------------
(* Properties *)

TypeOK ==
  /\ loads \in [Threads -> 0 .. MaxLQEntries]
  /\ stores \in [Threads -> 0 .. MaxSQEntries]
  /\ panic \in {"none", "insert into a full queue", "sqFull does not return"}

\* "Returns if the LQ of a given thread is full": what lqFull(tid) lets pass finds
\* room in the thread's own queue.
NoOverflow == panic # "insert into a full queue"

\* The question whether a store may be inserted is answered (LSQ::sqFull).
SqFullAnswers == panic # "sqFull does not return"

\* The shares of all the threads fit in "Total Size of LQ Entries" and "Total Size
\* of SQ Entries", the sizes the queues are configured with.
SharesFit ==
  SumFunction(loads) <= LQEntries /\ SumFunction(stores) <= SQEntries
=============================================================================
