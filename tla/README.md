# TARDISTSO_TECTREE: models, checks and proofs

TLA+ models of what this repository adds to gem5 or changes in it, with the TLC runs that check them and the TLAPS
proofs about them:

* the coherence protocol Tardis-TSO, a directory protocol whose read permissions are leases in logical time,
  with the TEC-Tree, an integrity tree of counters that shares the last-level cache (LLC) with the data;
* the processor models that feed it — the in-order CPU, and the load/store queue and the IEW stage of the
  out-of-order one — patched so that a memory barrier leaves a mark, `isMemBarrier`, on the next access;
* the Ruby cache array its controllers keep their lines in, and the DMA controller.

The references are the SLICC code in `src/src/learning_gem5/tardis_tso_tectree/` (`cache.sm`, `dir.sm` and `dma.sm` below
stand for `TARDISTSO_TECTREE-cache.sm`, ...), the address arithmetic in `src/src/mem/ruby/slicc_interface/RubySlicc_Util.hh`
(`Util.hh`), `src/src/cpu/simple/timing.cc`, `src/src/cpu/o3/lsq.cc` and `iew.cc` and
`src/src/mem/ruby/structures/CacheMemory.cc`, with their headers.

## 1. Inventory

| Component | State | Operations | Correct when |
|---|---|---|---|
| **L1 cache controller**, one per core (`cache.sm`) | entry per line: state I, S_LSD, E, IS, IE, SE, S_EXP, EI; wts, rts, data, load counter and livelock period; the core's clocks lts and sts | load, store, fetch; barrier; eviction; SH/EX/RENEW/UPGR/ACK replies; FLUSH_REQ, WB_REQ | one writer per line; loads inside their lease; stores after every lease; clocks monotone; every reply meets a state that declares it |
| **Timestamp manager** (directory, `dir.sm`) | per line: state, wts, rts, owner set, TBE; memory timestamp mts | SH_REQ, EX_REQ with four events each (hit, miss, counter missing, upgrade); WB_REP and PUT_REP; memory data | owner recorded exactly while there is one; the data it hands out is the last it was handed back; no request is left waiting |
| **LLC** (inside `dir.sm`) | which lines are cached, Dirty, data | fill, update, replacement of clean, dirty and owned victims, parked victims | no eviction loses data; one write back per victim |
| **AuthTBEs** (inside `dir.sm`) | per counter being fetched: up to 128 waiting victims | fetchCounterIfNeeded, fetchCounterForEviction, resumeEvictions, checkRecursionAndWakeUp | a counter is read once; every waiter is resumed |
| **Integrity tree** (`Util.hh`, `getL6Index`) | none | parent of a line, level, root register | six disjoint levels; whole branches; the register is the branch's |
| **In-order CPU** (`timing.cc`) | status, fetch event, outstanding translations, packets and retries, drain manager, threads, the barrier flag | fetch, translate, execute, access (split or not), advance; suspend, activate, drain, resume, switch out; every callback of TLB and caches | it waits for exactly what its status says; the PC moves once per instruction; drains end; the barrier's mark is on the next packet |
| **O3 load/store queue** (`lsq.cc`) | requests with flags and counters, cache ports, retries, the TLBI sync | push, translate, send, receive, write back, squash, discard; `recvReqRetry`, `tick`, stale marks; the sharing policies | a request is deleted once, by whoever is last; each fragment is sent once; blocked loads are woken; a sync covers what it is for |
| **O3 IEW: dispatch** (`iew.cc`) | stage status, skid buffer, wires from and to rename, free entries told | block, unblock, squash, dispatch, credits | the skid buffer holds what arrives; rename agrees on being blocked; nothing is reported twice or never |
| **O3 IEW: execute** (`iew.cc`) | redirect of the cycle, writeback slots, barrier flag | executeInsts, squash signals, instToCommit, writebackInsts | one squash stands for all redirects; commit gets what dependents know of; one mark per barrier |
| **Barrier flag** (`request.hh`, `RubyRequest.hh`) | `isMemBarrier` | set, copied, split | it reaches the memory with the first access after the barrier |
| **Ruby cache array** (`CacheMemory.cc`) | array, tag index, replacement data, locks, transactional marks | allocate, deallocate, touch, probe, lock, clear, commit, abort, record | index, array and entries say the same; it behaves as a map with an order of use |
| **DMA controller** (`dma.sm`) | one TBE per line, requests set aside | READ, WRITE | one transaction per line; every request called back once |
| **Memory, Sequencer**, TLB, rename, commit, instruction queue, LSQUnit (gem5, not in the repository) | | | modelled from their use, marked external |
| AuthTBETable, configuration, scripts, results, thesis | | container; wire parameters | a function; inputs and constants |

**Interaction.** A CPU sends packets through its ports to a Sequencer, which puts one request per line into the mandatory
queue of the core's L1; the mark of a barrier travels in the request, and the L1 reads it there to move its clock. An L1 sends
requests to the directory (`requestFromCache`), replies to recalls and puts evicted lines back (`responseFromCache`). The
directory answers on `responseFromDir` and recalls lines on `forwardFromDir`, two different virtual
networks. It talks to memory through two buffers. Requests that miss their counter are moved to a side buffer
(`stall_and_wait`) and woken all together by `wakeUpAllBuffers`. In every cycle the directory tries its
ports in the order memory, response, request. Inside the out-of-order CPU, rename and IEW talk through time buffers: what one says,
the other reads cycles later; IEW hands memory references to the load/store queue, whose requests the TLB, the cache and the writeback
event of the unit hold by plain pointers.

**What is hard.** The directory never waits: between the steps of one transaction it
serves others, so evictions, recalls, renewals and fetches of counters interleave freely. Three message classes
overtake each other. An LLC eviction is triggered by a message for *another* line, on a victim in any
state. The eviction of a dirty line may need counters that are not cached, whose arrival may evict further dirty
lines. Timestamps stand in for invalidations: nobody tells a reader that a new version exists.
The CPUs are call graphs without threads: a callback of the TLB or a cache may come inside the call that asked for it or events later, and the
caller looks at the state afterwards; two fragments of an access are refused, retried, answered and squashed independently; squashes,
blocks and unblocks cross on wires. `PROJECT.json` lists these hazards line by line with the properties that watch them.

## 2. Modules

| Module | Models |
|---|---|
| `TardisState` | constants and their assumptions, variables, record types (SLICC structures and messages), `Init` |
| `L1Cache` | `cache.sm`: one action per transition, with what `mandatory_in` does to clocks and entry at each peek |
| `Directory` | `dir.sm`: one action per transition of the request, response and memory ports and per LLC replacement |
| `Tardis` | composition, memory, termination, fairness, `TypeOK` |
| `TardisProperties`, `MC_Tardis` | the properties; instances for TLC |
| `LineMemory` | abstract: one line as an object with a chain of versions |
| `Tardis_proofs` | proofs about the protocol: types, clocks, ownership, leases |
| `TardisMemory_proofs` | proofs about lines on their way to and from memory, about parked victims, and about the versions of a line: the refinement of `LineMemory` |
| `TecTree`, `MC_TecTree`, `TecTree_proofs` | address arithmetic of the tree, its instance and its proofs |
| `TimingCPU` | `timing.cc`: one action per function or callback |
| `InOrderCore` | abstract: what an in-order core promises of an instruction |
| `TimingProperties` | the properties, and `TimingCPU` as an implementation of `InOrderCore` |
| `LSQ` | `lsq.cc`: the life of requests, the ports, retries, the TLBI sync |
| `RequestLifetime` | abstract: the state diagram in the comment of `LSQRequest` |
| `LSQProperties`, `LSQ_proofs` | the properties, `LSQ` as an implementation of `RequestLifetime`, and proofs about who owns a request and how far an access is |
| `LSQShare` | the sharing policies of the queues; the proof that they do not overflow ends `LSQ_proofs` |
| `Dispatch` | the dispatch half of `iew.cc`, with rename and commit as its environment |
| `DispatchProperties`, `DispatchLive`, `MC_Dispatch`, `Dispatch_proofs` | safety properties; cycles and liveness; instances; proofs |
| `Execute`, `Execute_proofs` | the execute and writeback half of `iew.cc` and the barrier mark; proofs |
| `CacheMemory`, `LineStore`, `CacheMemory_proofs` | the cache array with LRU; abstract: a map with an order of use; proofs |
| `DMA`, `MC_DMA` | `dma.sm` against a directory that serves it |
| `Requestors_proofs` | proofs about `TimingCPU`, its refinement of `InOrderCore`, and `DMA` |

### Correspondence to the code: the protocol

* *An action is a SLICC transition* together with the peek of its in_port, because the ports
  change state before they trigger: a SH_REQ reserves its lease at every peek (`Reserved`, dir.sm:683),
  a response advances mts (`AdvanceMts`, dir.sm:636), barriers and the livelock counter act on
  every retry of a stalled request (`Peek`, cache.sm:275–309).
  Hence stalls are actions where a retry leaves a trace (`MandatoryStall`, `EvictStall`, `RequestStall`, `ResponseStall`) and no step where it does not.
* *An undefined (state, event) pair* is a panic in gem5. It is an action too: it sets `fault`, after which nothing happens. `OnlyKnownFaults`
  says which pairs are met; of the failures inside an action, recycling an empty queue is a fault too, a null entry or a full table is not modelled.
* *Transitions without a next state* keep the state the line had, whatever their actions wrote: a counter
  that has just arrived is in I although `allocateCounterLLC` wrote C_V (and `resumeEvictions` perhaps C_M).
* *Time.* Latencies are left out: any port with a head message may act next, replies and recalls travel in any
  order, requests and responses to the directory are FIFO. `crypto_latency` and `is_ctr_mode` only change latencies.
* *Recycled and woken requests* re-enter the request queue at any position: messages in
  the buffer that have not arrived yet keep their place behind them, and the order `wakeUpAllBuffers` produces is not fixed.
* *Data.* The content of a data line is the number of stores it reflects (every store is the increment of
  `ping_pong`). Contents of counters do not influence the protocol and are 0.
* *Replacement.* `cacheProbe` may name any line of the set: every MRU policy, including the randomised one, is covered. All lines map
  to one L1 set and one LLC set.
* *The tree* of the protocol models is a constant, `Path`, from each line to the top.
  `TecTree` checks and proves that the arithmetic of `Util.hh` does give such paths.
* *History variables* `written` (stores made) and `current` (last data an L1 handed back) appear in no guard.

### Correspondence to the code: CPUs, cache array, DMA

* *`TimingCPU`: calls inside calls.* The code's functions call each other and look at `_status` when the call returns, so a step
  must be smaller than an event. `stack` holds the frames still to run, the innermost first; an action runs the part of a function up to its
  next call. Events (`Event`: the stack is empty) are the callbacks of the event queue, the TLB and the two ports. The TLB may finish a translation inside
  the call or later, a cache may refuse a packet, a fault handler is another instruction. `packet` (the first packet sent: was it due the mark, and
  did it carry it), `owed` (threads whose last barrier no packet has carried), `ready` (the instruction has taken effect) and `moved` (flips when the PC moves) are history.
  Interrupts and PC events are served before every fetch unless a delayed-commit microop was the last, also between the two fetches of an instruction (timing.cc:712); `macro` is per thread.
  `suspendContext` asserts a CPU that is idle or running (timing.cc:246): `SuspendFails`.
* *`LSQ`: plain pointers.* A slot of the model is an entry of the queue with its request. `walks`, `flight` and `forwards` are the pointers to a
  request that the TLB, the cache and the writeback event hold; a request deleted while one is left is used after it was freed, and
  `panic` says so. `call` is the translation or packet the LSQ is in the middle of. Values — addresses, data, byte masks — are left out; `Kinds` tells
  single, split, uncacheable-command and fully masked accesses apart. `owed` is history: the requests a TLBI sync was for.
  That an instruction is marked squashed (`SetSquashed`) and that the queue frees its entry (`Squash`) are two steps, since the one is asked by `finish` and `recvTimingResp` (`isSquashed()`, lsq.cc:880, 919) and the
  other by the request (`isReleased()`, lsq.hh:404): between them callbacks arrive.
* *`Dispatch`: one step is one cycle*, `IEW::tick`'s dispatch half with rename before it; `wire` and `back` are the time buffers, so what is read
  is what was written as many cycles ago as the delays say. What commit and the instruction queue do in a cycle is chosen freely within what they may do; of each
  queue at most one entry is freed in a cycle, a bound.
* *`Execute`: ticks and what happens between them.* Instructions are their sequence numbers; a window of `N` is executed in any order the
  instruction queue allows. A tick executes what was issued, one instruction at a step, then writes back. Loads answer between ticks. A squash goes to
  commit at the end of the tick (`doomed`) and comes back before a later one (`CommitSquash`), so instructions already issued may
  still execute, or be skipped as squashed. `wanted`, `unseen`, `handed` and `unfenced` are history.
* *`CacheMemory`* follows the code with LRU replacement: `older` relates, per set, two ways when the first was used last before the second was. The set of a line
  is taken from the address with a power of two, `SetSpan`, whatever the number of sets is.
* *`DMA`* models all transitions of `dma.sm`; the directory of this protocol has no port for its messages, so one that answers them is external.

## 3. Runs

### The protocol

Bounds common to the protocol runs: each core issues `MaxOps` requests, `QueueDepth` of them queued; `MaxClock` stops a stalled load from advancing its
clock for ever; `Lease` is 2 instead of 90 and `LivelockPeriod` 1, 2 or 32 so that leases do expire
within a few steps. Two LLC ways and two or three lines make replacement certain; a branch of two counters
is the smallest in which a parked eviction has to move from one AuthTBE to the next and the counters evict
each other; `tree` has a waiter slot more than are looked at, two, as the code has 128 and 16: enough for all the victims there can be.

| Run | Instance | Shows |
|---|---|---|
| `coherence` | 2 cores, 1 line, 1 counter, 3 requests each, barriers, fetches; fairness; 43,710 states | `OwnershipToken`, `RepliesExpected`, `TimestampOrder`, `LoadsInsideLease`, `ClocksAdvance`, `RequestsComplete`; no deadlock |
| `pressure` | 1 core, 3 lines, 2-way caches, no tree, 4 requests; 359,578 states | `OwnerRecorded`, `FreshData`; no deadlock |
| `sharing` | 2 cores, 2 lines, 2 counters side by side; 227,108 states | `OneMemoryTransaction` |
| `tree` | 2 cores that only store, 2 lines under a branch of 2 counters, one-way L1s; 129,205 states | `TypeInv`, `DataSafe`, `WaitersParked`, `OnlyKnownFaults` |
| `lost_update` | 3 cores, 1 line; expects a violation | `NoLostUpdate` fails, see below |
| `tectree` | arity 15, 344 data lines over the whole range and around its boundaries | `OnLevel`, `WholeBranch`, `RootSlotOfBranch` |

The cores of `tree` only store, which keeps every line moving through E, its evictions and the counters they need; loads beside evictions and counters are the subject of `sharing`.
`sharing` and `tree` do not check deadlock: the system does stop there, which is the subject of `deadlock.cfg`. In `pressure`
a data line without a parent stands for one whose branch is always cached.
Every property holds only while no fault has happened, since a panic ends the simulation. Each property is checked in one instance, chosen for the actors and the evictions it needs;
`OwnershipToken` holds in `tree` as well, `OwnerRecorded` and `RepliesExpected` in `sharing`, `DataSafe` in `pressure`, `FreshData` and `OneMemoryTransaction` in `tree`.

`coherence` never evicts a counter, and its branch of one counter has no recursion: it asks for completion under races for a line. With evictions of counters completion is false (`deadlock.cfg`), and the recursion is exercised
in `tree`, without fairness.

Properties worth a word: `OwnershipToken` counts owners, grants and write backs in flight: together they are one
exactly while the directory thinks so. `DataSafe` follows a line through LLC, TBE, write back and memory across evictions.
`WaitersParked` ties a victim in `*_Evict_Auth` to exactly one waiter slot. `RequestsComplete` is the liveness
property: each busy L1 line becomes stable or the simulation ends in a fault.

### CPUs, cache array, DMA

| Run | Instance | Shows |
|---|---|---|
| `timing` | 1 thread, 8 kinds of access, split or not, with faults, suspension and drains, instructions of up to 3 micro-ops; fairness; 144,460 states | `StatusTellsWhatIsAwaited`, `SplitCounted`, `NeverHangs`, `DrainEndsAfterFaults`, `StepsLikeCore` (refinement) |
| `lsq` | 2 entries of every class, one load and one store port, a TLBI sync; 869,891 states up to exchange of the entries | `NoUseAfterFree`, `CountersExact`, `FragmentsSentOnce`, `WholeAccess`, `BlockedLoadsWoken`, `SyncCoversUnsplit`, `StepsLikeLifetime` (refinement) |
| `dispatch` | batches of two that travel for two cycles, dispatch of one a cycle, full queues, squashes; 59,535 states | `SkidFits`, `RenameAgrees`, `CreditsExact`, `NoOvertaking` |
| `execute` | every program of 3 branches, loads, stores and fences in every order; 41,609 states | `SquashExact`, `WokenBeforeCommit`, `OneMarkPerBarrier` |
| `cache` | 3 sets of 2 ways of which the index reaches 2, 3 lines that compete for one set, locks of 2 contexts, transactions; 7,058 states | `TagIndexExact`, `CheckpointComplete`, `ImplementsLineStore` (refinement) |
| `dma` | 5 requests for 2 lines; fairness; 3,075 states | `OneTransactionPerLine`, `AllServed` |

Bounds. In `timing` one thread is enough for every interleaving of an access with its own replies, faults and drains; a second one leads to
`OneFetch` below. The handler of an interrupt starts ROM microops only while the chain of calls is at most `MaxMicro` + 1 deep: accesses that end at once lead from one microop to the next within a chain, without end otherwise. In `lsq` two entries are what ports, retries and stale marks are contended by, and every access has at most two fragments.
In `dispatch` the instruction queue has 7 entries and the load queue 1 (`MC_Dispatch`), so the load queue alone, the whole queue and the bandwidth each
block the stage. In `execute` three instructions hold a barrier, the access it marks and the one that overtakes it, or three redirects in a cycle.
In `cache` the order of use of a set and its victims only depend on lines that share the set. `dma` may end with all requests served, hence no deadlock check.

`StatusTellsWhatIsAwaited` says, for every state between two events, which one thing the CPU waits for: `_status` on one
side, packets, events and translations on the other. `NoUseAfterFree` and `CountersExact` are about three parties that hold plain pointers to a
request, and the two counters that decide who deletes it. `SkidFits` and `RenameAgrees` relate the stage to what rename believes, signals on their way included. `SquashExact`
compares the one squash a cycle signals with all redirects found in it. `CheckpointComplete` says what a checkpoint of the array must list after transactions and aborts.

**Fairness.** `Tardis!FairSpec` is weakly fair to each L1, each port of the directory and the memory: gem5
wakes a controller as long as a buffer of it is non-empty, the ports are tried in every wake-up, and memory answers. A message that stalls
at the head of a port keeps ports of lower priority from being tried in that cycle. In the instance with fairness the LLC has room for everything, so only
requests ever stall, and they have the lowest priority; the fairness of the three ports is then what the loop provides.
`TimingCPU!FairSpec` is fair to the frames of a call (they run), to scheduled events (the queue is served) and to answers and retries of
TLB and caches; nothing is assumed of faults, suspension, activation or drains. `DMA!FairSpec` is fair to its two ports and to the directory's answers.
`DispatchLive` adds a clock so that a cycle in which nothing changes is a step, and assumes that cycles pass, that what is in the queues leaves and that squashes end.

**Refinement.** `InOrderCore` sees four things of a CPU: `fetching` is a fetch in any form, `waiting` the fragments not answered, `done` an instruction that has taken
effect, `pc` a bit that flips with every move of the PC (`moved`), so no move is a stutter: a move needs `done` and takes it back. `TimingCPU` does not implement it as it stands (`CoreSteps` fails, below): when a drain ends inside `initiateAcc` the PC
moves a second time. `StepsLikeCore`, checked by `timing`, allows this one step beside those of the core, `MovesAgain`: a move without effect while the drain just signalled is `advanceInst`'s. Without drains, or without accesses that end at once,
there is none (theorem `IsStrictlyInOrder`). With splits and faults it is the safety part only, since an assertion may end the run (`RepliesFindTheirAccess` below);
without them and without accesses that end at once, `ImplementsCore` in `timing_plain.cfg`, liveness included. `CacheMemory` implements `LineStore`, in which no ways and no index exist. `LSQ`
implements the state diagram its source draws (lsq.hh:130, `RequestLifetime`): `StepsLikeLifetime`. The diagram has no place for a request whose instruction is squashed while its entry is still there when the TLB is done (lsq.cc:880);
it is `dropped`, left to the queue, which frees it. `Tardis`, up to the first lost update, implements `LineMemory` for each line: only who gets hold of it
makes versions, each from the one before and stamped later, and what may be read was the latest version once (`ImplementsLineMemory`, `line_memory.cfg`).

### Further instances

Configurations that ask the same models further questions; `tlc -config X.cfg Module` runs one.

| Configuration | Module | Instance |
|---|---|---|
| `timing_plain` | `TimingProperties` | accesses without splits and faults, none of which ends at once: `AdvancesOnce`, `BarrierReachesMemory`, `NoAssertionFails`, `DrainEnds`, `ImplementsCore` hold; 17,018 states |
| `line_memory` | `MC_Tardis` | the instance of `lost_update`, were (SE, ExRep) to advance the timestamp (`AdvancingSpec`): `ImplementsLineMemory` holds; 843,511 states |
| `dispatch_live` | `DispatchLive` | `SkidEmptied`, `RenameReleased`, `DrainEnds` hold; 3,829 states |
| `leases`, `flush_order`, `response_bounce`, `deadlock`, `waiter_slots` | `MC_Tardis` | violations, below |
| `root_slot` | `MC_TecTree` | violation, below |
| `barrier_split` | `TimingProperties` | violation, below |
| `sync_early` | `LSQProperties` | violation, below |
| `skid_delay` | `MC_Dispatch` | violation, below |
| `barrier_o3` | `Execute` | violation, below |

### Disagreements between code and documentation

Each was found by a run on an instance like those above. The run `lost_update` is the one that matters most and is recorded with the others; the
configuration is named where there is one, else the instance.

| Property that fails | Where | What happens |
|---|---|---|
| `NoLostUpdate` | run `lost_update` | (SE, ExRep) keeps the timestamps of the old copy. The wts of the new version can then equal that of an older one; a core still holding the older version is upgraded without data and an increment is lost. |
| `StoresFollowLeases` | `leases` | A grant from LLC or memory sets wts = rts = mts although longer leases are out; the next owner stores inside a lease that is still read. |
| `FlushFindsOwner` | `flush_order` | A recall overtakes the UPGR_REP/EX_REP of an upgrade and finds SE, which does not declare it (IS and IE stall it). |
| `ResponsesBounce` | `response_bounce` | A write back in `E_Fetch_Auth` recycles the *request* queue, which may be empty. |
| `DeadlockFree` | `deadlock` | A request to a line in `*_Fetch_Auth` is put aside although its counter, fetched and evicted meanwhile, is not under way. Nothing wakes it. |
| `WaitersParked` | `waiter_slots` | 128 slots are filled, 16 are read (2 and 1 here); the victims in the others stay parked for ever. |
| `RootSlotOfBranch` | `root_slot` | `getL6Index` divides by 15⁶ for every arity. |
| `BarrierReachesMemory` | `barrier_split` | The fragments of a split access are copies of the request, and the copy constructor (request.hh:506) leaves out `isMemBarrier`. |
| the same | `TimingProperties`, `Faults` | The flag is cleared when the request is built (timing.cc:473); if the translation then faults no packet carries it. |
| the same | `TimingProperties`, failed `sc` or dropped `prefetch` | The access takes the mark and ends without a packet. |
| the same | `barrier_o3` (`Execute`) | The mark goes to the access that executes next (iew.cc:1170): a store takes it and a younger, unmarked load reaches the memory first; or the access that took it is squashed. |
| `OneFetch` | `TimingProperties`, 2 threads | `activateContext` (timing.cc:217) schedules a fetch whatever the status: two are under way, against the comment at timing.cc:951. |
| `RepliesFindTheirAccess` | `TimingProperties`, `Split` | The second fragment is refused, the first is answered before the retry: the assertion at timing.cc:987 does not allow `DcacheRetry`. |
| `DrainedCanSwitchOut` | `TimingProperties`, `Suspends` | A PC event before the second fetch of an instruction (timing.cc:712: no instruction is decoded, so none is delayed), or a fault in it, suspends the thread in its middle; the idle CPU counts as drained, but `switchOut` asserts `!stayAtPC`. |
| `NoAssertionFails` | `TimingProperties`, `Faults` and `Suspends`, no splits | After a fault the CPU is `Faulting` until the fetch of the handler; a PC event served just before it (timing.cc:714) that suspends the thread meets `assert(_status == Running)` (timing.cc:246). |
| `AdvancesOnce`, `CoreSteps` | `TimingProperties`, `Drains`, accesses that end at once | A drain that completes inside `initiateAcc` leaves Running, which timing.cc:893 takes for an instruction without an access: the PC moves twice. |
| `SyncCoversAll` | `sync_early` | The first response of a split access clears the stale mark (lsq.cc:1227) of a request whose other fragment is still at work. |
| `SyncEnds` | `LSQProperties`, `FairSpec`, one single access, `Syncs` | A marked request that is squashed, faults or is forwarded has no response, and no one else looks (lsq.cc:437). |
| `NoOverflow`, `SqFullAnswers` | `LSQShare`, dynamic policy | `lqFull(tid)` asks whether *all* queues are full (lsq.cc:655); `sqFull(tid)` and `sqFull()` call each other (lsq.cc:684). |
| `SharesFit` | `LSQShare`, threshold policy | The constructor demands a threshold above the size of the whole queue (lsq.cc:103). |
| `SkidFits` | `skid_delay` | `skidBufferMax` (iew.cc:117) does not count the cycles a block takes to reach rename. |
| `CreditsFresh` | `MC_Dispatch` | `updatedQueues` is set at dispatch only in a status the stage never has (iew.cc:1068): rename counts on entries that are taken. |

Met on the way: `Counter_Data` is declared in I only, though a counter whose eviction is parked or under way can be read again, in spite of the
comment at dir.sm:5046; `LLC_Repl_Dirty_Auth_Miss` is not declared for lines in transition; a line recalled for an
eviction returns from I while leased copies are left, whose upgrade (I, UpgReq) is undeclared; a counter in I is evicted like
a data line and bumps a root register; the claim of `README.md:236` that any arity fits the address layout fails below arity
15; data between 2 GB and 3 GB counts as metadata. The first three are in `KnownFaults`.

## 4. Proofs

All theorems hold for every value of the constants that satisfies the named assumptions of the modules they are about, and
further hypotheses where they are given here.

### Types, clocks, ownership, leases (`Tardis_proofs`)

* **`TypeCorrect`** (`Spec => []TypeInv`). `TypeOK` alone is not inductive. Replies go to
  the requestor a TBE names, which is a core only in states that have one: `RequestorsKnown`. A write back
  or a memory answer changes the directory entry of the line it names, and messages to L1s must name data lines: `CounterStates` says
  counters are never granted. `Wake` inserts a permutation of the waiting requests, a sequence
  only if they are finitely many. `TypeInv` is the conjunction, kept by one lemma per group of L1 transitions and one per transition of the directory.
* **`ClocksNeverRunBack`** (`Spec => ClocksAdvance`), an action property: per action, the new clocks are
  maxima over the old ones; the types of entries and messages come from `TypeCorrect`.
* **`OneWriter`**, **`OwnerIsHolder`**, **`EveryReplyExpected`**, **`LeasesInOrder`**, **`NoOtherFault`** (`OwnershipToken`, `OwnerRecorded`, `RepliesExpected`,
  `TimestampOrder`, `OnlyKnownFaults`) follow from one invariant, `OwnInv`; none is inductive alone, since what a reply finds depends on who was recorded
  when its request was served. Per line, `LineInv` ties together the L1s' states, the messages under way and the directory's entry and TBE:
  one token of ownership (`OneToken`), held by whom the directory knows (`OwnerKnown`); a recall reaches an owner or the one to be
  (`RecallsReach`), an owner that has written back waits in `EI`, and nothing else for the line is on its way to or from an L1 that is being acknowledged (`WriteBacksAcked`); each core that waits has one request *or* one reply or a place in a TBE
  (`RequestsMatch`, `TBEMatches`, `RepliesMatch`, `OneTransaction`); leases are in order wherever they are kept (`LeasesOrdered`).
  Across lines, no request or response is in its queue twice, an L1's queue does not ask for a line that is being asked for (`QueueInv`), and a line in transition is not in
  the LLC (`CacheInv`). A step concerns one line; a lemma per kind of step says how that line's view changes, and that the other views stay.
* **`LoadsInLease`** (`Spec => LoadsInsideLease`), an action property: a load is served from a leased copy only after its peek has moved the clock, and
  the hit tests it against the lease; that the lease's ends are in order comes from `LeasesInOrder`.

### Memory, data, parked victims (`TardisMemory_proofs`)

* **`AskedOnce`**, **`NothingLost`**, **`RepliesAreFresh`** (`OneMemoryTransaction`, `DataSafe`, `FreshData`) follow from `MemInv`, which needs `OwnInv`. `TrafficInv`: for
  each line and each kind of request, one is under way exactly when the directory's state (or a busy AuthTBE) says so. `ParkedInv`: only
  parked victims are in waiter slots, each in one at most. `DataInv`: what an L1 last handed back is in the LLC, else in the write back, else in memory; a clean copy agrees with
  memory, so it may be dropped. The hard step is the arrival of a counter: it writes back some waiters, moves others to the next AuthTBE, and may ask for two counters at once.
* **`NobodyForgotten`**: if `ResumeSlots < WaiterSlots`, as in the code, then `WaitersParked` holds as long as no AuthTBE ever holds
  more waiters than `resumeEvictions` looks at (`[]SlotsSuffice`). Without that it is false (`waiter_slots.cfg`). `WaitInv` adds to `MemInv` that the slots of an AuthTBE are filled from the first and that
  each parked victim is in one. **`FewNeverForgotten`**: no condition on behaviours is needed for a system of at most `ResumeSlots` lines.
* **`RequestsAwaited`** (`WaitersAreAwaited`), as long as no step evicts a counter (`[][CountersStay]_vars`; data lines may go). `AwaitInv` adds to the property that the counter of every line in
  `*_Fetch_Auth` is cached or being read. Without the condition it is false: a request put aside there may wait for a counter that was fetched and evicted meanwhile (`deadlock.cfg`).
  No run checks it: where counters are evicted it is false, and where they are not
  it says only what the theorem does. **`RoomyNeverWaits`**: the condition holds where all lines and counters fit the LLC, since nothing needs room.

### Versions and leases (`TardisMemory_proofs`)

`NoLostUpdate` and `StoresFollowLeases` are false. What is proved is why: each holds as long as no step of the code does what breaks it, and the steps are named.

* **`OnlyUpgradesLoseUpdates`**: `NoLostUpdate` holds as long as the store of an upgrade answered with data, (SE, ExRep), gets a later wts than the data (`[][UpgradesAdvance]_vars`). The
  code keeps the timestamps of the old copy there; nothing else in the protocol can lose a store. The invariant, **`VersionsInOrder`** (`VersionsInv`): the copies of a line, readable, under renewal or
  upgrade, or on their way, are versions of it in the order of their wts, and none is newer than the latest, which has all stores and is with the owner, on its way back or at the
  directory. That equal timestamps mean equal data is what the comparison at dir.sm:739 relies on.
* **`LinesAreObjects`**: under the same condition each line implements `LineMemory` (`ImplementsLineMemory`), messages, recalls, evictions and the tree left out of sight. The mapping
  finds the latest version by who has the token of `OwnershipToken`.
* **`StoresFollow`**: `StoresFollowLeases` holds as long as the store of such an upgrade follows the lease of the data, and a grant does not overwrite a longer lease (`[][UpgradesOutlast /\ GrantsKeepLeases]_vars`).
  `LeaseInv` says until when the leases of a line run: before the owner's version, else at most to the timestamp from which the next owner will store.
* **`StampsKept`**, without conditions: the directory's wts of a line is never ahead of mts, and an upgrade in a queue names the timestamp its core's copy still has.

All rest on one lemma, `NextMoves`: whatever a step does to a line is a quiet step, a store, a hand back, a return or a gift (`Quiet`, `StoredBy`, `HandedBackBy`, `Returned`, `Given`). The
transitions of both machines are gone through once, there, and each invariant then has five cases. The conditions are not vacuous: `line_memory` explores
the behaviours that meet the first, with three cores, renewals and upgrades; it holds on the instances of `pressure`, `sharing`
and `tree` under the same specification, too.

### The tree, the cache array

* **`LevelsDisjoint`** and **`BranchesWhole`** (`OnLevel`, `WholeBranch`): for every arity of at least 15 a walk of n steps from any data line below 2 GB
  stands on level n, and ends at level 6 only. The inductive invariant bounds the offset of the walk inside its level by the level's size; each
  level is at least a fifteenth of the one below. The assumption is needed: below arity 15 the levels overlap.
* **`RegistersMatch`** (`RootSlotOfBranch`) for arity 15: on every level a walk keeps the number of the group of 15ⁿ data lines it began in (`InGroup`), so the register `getL6Index` names is the one its counter of level 6 is under.
  For other arities it is false (`root_slot.cfg`).
* **`IndexExact`** (`Spec => []TagIndexExact`) of `CacheMemory`, for any number of sets, ways and lines, and **`EntriesTyped`** on which it rests:
  entries stand in the ways with their types and every tag leads to a way. Both directions are needed together — each tag leads to an entry of its line, each
  entry has its tag and remembers its own place — because deallocation goes by the place and lookup by the tag.
  **`CheckpointsWhole`** (`CheckpointComplete`) follows: each line that is found and readable is recorded once.
* **`IsALineStore`** (`Spec => ImplementsLineStore`): the array implements a map with an order of use. Beside the index it needs only that `older` relates ways of a set (`OrderInv`);
  the abstract order relates the lines in them. That a line is refused room exactly when its set is full comes from counting its ways.

### Dispatch, execute

* **`SignalsAgree`**, **`CreditsAreExact`**, **`ArrivalsWaitTheirTurn`** (`RenameAgrees`, `CreditsExact`, `NoOvertaking`) of `Dispatch`, for all widths, queue sizes and *all* delays of the wires. With the types the three are inductive together:
  what a tick makes of the stage (`Outcome`) keeps the number of instructions that are somewhere, and says of block and unblock what it says of the status.
* **`SkidNeverOverflows`** (`SkidFits`), when signals to rename take one cycle
  (with two it is false, `skid_delay.cfg`). The invariant counts: after k blocked cycles at most k + 1 batches have arrived, and the last k places of the
  wire are empty (`Room`), since a rename that is stalled sends nothing.
* **`SquashIsExact`**, **`DependentsWoken`**, **`MarksAreCounted`** (`SquashExact`, `WokenBeforeCommit`, `OneMarkPerBarrier`) and **`TypeCorrect`** of `Execute`, for any number of instructions and any width. `SlotInv` is the part that must be found: each
  instruction handed over is in one slot (`OneSlotEach`), the slots of a cycle are taken without gaps (`NoGaps`) — `writebackInsts` stops at the first free one — and the search for
  a free slot never runs off the queue (`Room`), by a pigeonhole argument, the queue having two slots per instruction. Marks are counted: one more per barrier that passed, at most, with the flag as a mark not yet given.

### The load/store queue

* **`SharesNeverOverflow`** of `LSQShare`, which `LSQ_proofs` instantiates: under every policy but the dynamic one, what `lqFull(tid)` lets pass finds room in the thread's queue,
  for any number of threads and any size that satisfy `ShareAssumption`.
* **`NeverFreedTooEarly`**, **`CountersAgree`** and **`SentOnce`** (`NoUseAfterFree`, `CountersExact`, `FragmentsSentOnce`) and `NoOrphanForgotten` of `LSQ`, for any number of queue entries
  and ports. The inductive invariant `IInv` speaks of one slot at a time: its request, its instruction, the walks, packets and events under way for it, and the step of `pushRequest` still to
  do. The counters alone are not inductive. What makes them so: while a request is translated nobody else has it, it is written back by an event or sent, never both, packets go out in order, and a
  request whose entry is free is in use and marked. A lemma per operation says what it makes of a slot, `Frame` that the other slots stay as they are.
* **`LivesAsDrawn`** (`Spec => StepsLikeLifetime`): `LSQ` implements `RequestLifetime`, whose one addition to the diagram is the `dropped` request of section 3. Only one slot moves in a step (`OneMoves`), and what it may
  become follows from `IInv` before and after; it needs one fact more, that a request in translation has a fragment with the TLB, or a squash would free it where the diagram keeps an orphan.
* **`AccessesWhole`**, **`BlockedAreWoken`**, **`SyncWaitsForUnsplit`** (`WholeAccess`, `BlockedLoadsWoken`, `SyncCoversUnsplit`) follow from a second invariant, `AInv`, how far each access is: nothing is sent before
  it is executed (`Untouched`), its state tells which fragments were translated and which faulted (`Translated`), a load that waits for a port has something left to send (`InProgress`), and who is owed to a sync
  is marked when it has one packet (`Marked`). `IInv` gives it which fragments are still with whom.

### The in-order CPU, DMA (`Requestors_proofs`)

* **`WaitsForWhatItSays`** (`StatusTellsWhatIsAwaited`) of `TimingCPU`, for any instructions and any `MaxMicro`, with or without splits, faults, suspension
  and drains, with one hardware thread (`OneThread`). The property speaks of the states between events, the invariant of all: for each function that may stand on `stack` it says what is under way when the function is
  called and what the frames below find when it returns, and for the empty stack, status by status, what an event finds. `translate` may answer inside the call or not, a cache may refuse either fragment, a fault or a
  suspension may come in the middle: each of these is a case of the function that called.
  One thread is needed: an activation or a thread's own restart schedules a fetch whatever the CPU waits for, which with two threads breaks it (`OneFetch`, section 3).
* **`IsAnInOrderCore`** (`StepsLikeCore`) under the same assumption: every step of the CPU is one of `InOrderCore`, or the second move of the PC that a drain ending inside `initiateAcc` makes. It needs that of fetch, access and effect at
  most one is there (`OneAtATime`), and that the PC is about to move only past an instruction that has taken effect, or just after such a drain (`LateInv`). **`IsStrictlyInOrder`** (`CoreSteps`): without drains, or without accesses that end
  at once, there is no such second move.
* **`OthersHold`** (`OnlyTwoFail`): of the assertions modelled only two can fail, and each does (section 3): timing.cc:987 where accesses are split, and timing.cc:246 where faults and suspensions meet.
  **`AssertionsHold`** (`NoAssertionFails`): without splits, and without faults or without suspensions, none does. A refused packet is there only in `DcacheRetry` (`PacketInv`); an access in one piece is never with
  the memory while it is refused (`WholeInv`); without faults the CPU is never `Faulting` (`NoFaultInv`).
* **`RepliesCounted`** (`SplitCounted`): the counter of a split access (timing.hh:80) is the number of its packets without an answer, whatever is refused, retried and answered in between, also in the state an assertion fails in.
* **`DrainedIsDone`** (`DrainedCanSwitchOut`): a CPU that has drained is between two instructions with nothing in flight, so the assertions of `switchOut` hold, if nothing suspends its thread; faults may occur.
  `BetweenInv` says that a CPU that idles or has drained stands between two instructions.
* **`MovesOnce`** (`AdvancesOnce`): the PC moves past an instruction once and only after its effect, if there are no drains or no accesses that end before `initiateAcc` returns. `OnceInv` says that where
  the PC is about to move the instruction has taken effect; `DepthInv`, that inside `initiateAcc` only the functions that start an access run.
* **`BarrierCarried`** (`BarrierReachesMemory`): the first packet after a barrier carries its mark if no access is split, nothing faults and no access ends without a packet. `FlagInv` says that an access
  which has taken the mark has still to send its packet (`Marking`).

Each of these conditions is needed: without it there is a counterexample (section 3).

* **`OneTransactionAtATime`** (`OneTransactionPerLine` of `DMA`), for any lines and requests: with the types of the messages it is inductive,
  since a request is sent only for a line that is ready, and then nothing is under way for it. **`RequestsAnsweredOnce`**: each request is called back at most once. It adds that a request set
  aside, in a buffer or with a transaction is in one of these places, and that stalled ones wait for a transaction of their line.

**Model-checked only.** All liveness (`RequestsComplete`, `NeverHangs`, `DrainEndsAfterFaults`, `AllServed` and the further instances) and deadlock freedom,
which need fairness and ENABLED; and the liveness half of the refinement of `InOrderCore` (`ImplementsCore`). Properties that are false in
general — those of section 3 — are proved under the conditions that make them true where there is a theorem above (`NoLostUpdate`, `StoresFollowLeases`, `WaitersParked`, `WaitersAreAwaited`, those of the in-order CPU); the
others have none. No module declares a RECURSIVE operator.

## 5. Plan

1. *(done)* The protocol core, the arithmetic of the tree, types and clocks proved.
2. *(done)* The patched CPUs, the cache array and the DMA machine, each with its abstract specification where it has one; index, skid buffer, shares, the ownership of requests and their refinement proved.
3. *(done)* `OwnerRecorded`, `OwnershipToken`, `RepliesExpected`, `TimestampOrder`, `OnlyKnownFaults` and `LoadsInsideLease` proved from one invariant per line.
4. *(done)* `OneMemoryTransaction`, `DataSafe`, `FreshData`; `WaitersParked` as long as the slots suffice, `WaitersAreAwaited` as long as counters stay.
5. *(done)* The refinement of `LineStore`; agreement and credits of `Dispatch`; `Execute`; the accesses of `LSQ`.
6. *(done)* `StatusTellsWhatIsAwaited` of `TimingCPU`, over the frames of `stack`, and with it the safety part of the refinement of `InOrderCore`; `OneTransactionPerLine` of `DMA`.
7. *(done)* The versions and leases of a line, and `LineMemory`, a memory whose lines move between cores and home, refined up to the first lost update; the assertions, drains and marks of `TimingCPU`; `DMA` answers once.
8. The wake-up loop of the directory: port priority and `stall` within a cycle, on a model with several LLC sets.
9. An abstract specification of the AuthTBE table, a set of waiters per counter, each resumed once, refined by the directory while the slots suffice.
10. Several threads in `Dispatch`.

## 6. Not modelled

* `AuthTBETable` beyond the function it implements: `dir.sm` looks an entry up only where it has just allocated it or
  `isPresent` says that it is there (dir.sm:611, 1426).
* The in-order CPU: hardware transactional memory, snoops and the monitors of other threads, functional accesses, printing.
* The out-of-order CPU: `LSQUnit`, rename, commit, the instruction queue and the TLB are not in the repository and appear as what IEW and the LSQ require of them; draining
  and switching over of the LSQ, activity tracking (`updateStatus`) and the order of several threads in IEW, HTM and checker hooks, and statistics.
* The cache array: banks, which no request type of this protocol asks for, statistics, and policies other than LRU (the protocol models leave the victim open).
* DMA in the directory: it has no port for `dma.sm`'s messages.
* Latencies, `DPRINTF`; overflow of the 32-bit timestamps; `invalidate`/LL-SC
  monitors of the Sequencer; declared but unused states (L1 ES and SS, directory Meta_Auth, C_V, E_Evicting, E_Evict_Auth).
* System configuration, scripts, results, benchmarks and the thesis: no state of their own; their parameters are constants here.
