-------------------------- MODULE TardisProperties --------------------------
(***************************************************************************)
(* What L1 caches, directory and memory promise together.  A fault ends    *)
(* the simulation: a state in which one has occurred promises nothing.     *)
(***************************************************************************)
EXTENDS Tardis

Running == fault = NoFault

-----------------------------------------------------------------------------
(* Types.                                                                  *)

\* A line being granted to a requestor has one: setOwner and the reply read it
\* from the TBE.
RequestorsKnown == \A x \in Addrs : dir[x].st \in Granting => tbe[x].req \in Cores

\* Requests name data lines only: a counter is never shared, owned or granted.
CounterStates == \A q \in Counters : dir[q].st \in {"I", "C_M", "I_Evict_Auth", "I_Evicting"}

\* The types of all variables, with what makes them inductive: a reply goes to
\* the requestor of a TBE, and Wake() permutes a finite set of requests.
TypeInv == TypeOK /\ IsFiniteSet(waitQ) /\ RequestorsKnown /\ CounterStates

-----------------------------------------------------------------------------
(* Ownership.                                                              *)

Owners(x)     == {c \in Cores : l1[c][x].st = "E"}
Grants(x)     == {m \in rep : m.a = x /\ m.type \in {"EX_REP", "UPGR_REP"}}
HandedBack(x) == {i \in 1..Len(rspQ) : rspQ[i].a = x}

OwnedStates == {"E", "E_Fetch_Auth"}

\* The right to write a line is one token: it is an L1 in E, a grant on its way
\* to an L1, or a write back on its way to the directory.  It is out exactly
\* while the directory says E or waits for the line (ES, EE, E_Evict_Flush).
OwnershipToken ==
    Running => \A x \in Lines :
        Cardinality(Owners(x)) + Cardinality(Grants(x)) + Cardinality(HandedBack(x)) =
            IF dir[x].st \in OwnedStates \cup {"ES", "EE", "E_Evict_Flush"} THEN 1 ELSE 0

\* The directory records one owner in E and while it recalls the line for an
\* eviction, none otherwise (the asserts on Owner.count() in getState, setState
\* and setOwner), and the owner it records is the holder of the token.
OwnerRecorded ==
    Running => \A x \in Lines :
        IF dir[x].st \in OwnedStates \cup {"E_Evict_Flush"}
        THEN \E c \in Cores : /\ dir[x].owner = {c}
                              /\ \/ c \in Owners(x)
                                 \/ \E m \in Grants(x) : m.to = c
                                 \/ \E i \in HandedBack(x) : rspQ[i].from = c
        ELSE dir[x].owner = {}

\* A reply finds its L1 in a state that declares a transition for it, whatever
\* was written back, evicted or renewed while it was on its way.
Awaited(st) ==
    CASE st = "IS"    -> {"SH_REP"}
      [] st = "S_EXP" -> {"SH_REP", "RENEW_REP"}
      [] st = "IE"    -> {"EX_REP"}
      [] st = "SE"    -> {"EX_REP", "UPGR_REP"}
      [] st = "EI"    -> {"ACK_REP"}
      [] OTHER        -> {}
RepliesExpected == Running => \A m \in rep : m.type \in Awaited(l1[m.to][m.a].st)

-----------------------------------------------------------------------------
(* Data.                                                                   *)

\* Where the directory keeps a line that no L1 owns: the LLC, else the write
\* back the memory has not served, else the memory.
AtRest(x) == IF x \in InLLC THEN llc[x].val
           ELSE IF \E i \in 1..Len(memPend[x]) : memPend[x][i].type = "MEMORY_WB"
                THEN LET wbs == {i \in 1..Len(memPend[x]) : memPend[x][i].type = "MEMORY_WB"}
                     IN  memPend[x][CHOOSE i \in wbs : \A j \in wbs : j <= i].val
           ELSE mem[x]

\* No eviction, write back or parked eviction loses what an L1 last handed back:
\* it is in the LLC, on its way to memory or in memory, or, while the line waits
\* for its counter, in the TBE; and a read under way returns it.
DataSafe ==
    Running => \A x \in Lines :
        /\ dir[x].st \in {"I", "S", "IS", "IE", "SE", "I_Fetch_Auth", "S_Fetch_Auth"} \cup Evicting
             => AtRest(x) = current[x]
        /\ dir[x].st \in EvictAuth => tbe[x].val = current[x]
        /\ \A i \in 1..Len(memQ) :
             memQ[i].a = x /\ memQ[i].type = "MEMORY_READ" => memQ[i].val = current[x]

\* Data the directory sends to an L1 is what an L1 last handed back to it.
FreshData ==
    [][\A m \in rep' \ rep : m.type \in {"SH_REP", "EX_REP"} => m.val = current'[m.a]]_vars

\* A core that may write a line holds every store made to it so far: the atomic
\* increments of the ping_pong microbenchmark are never lost.
NoLostUpdate ==
    Running => \A c \in Cores, x \in Lines : l1[c][x].st = "E" => l1[c][x].val = written[x]

-----------------------------------------------------------------------------
(* Timestamps.                                                             *)

\* A lease never ends before it begins, in an L1, in the directory and in every
\* message that carries one.
TimestampOrder ==
    /\ \A c \in Cores, x \in Lines : l1[c][x].wts <= l1[c][x].rts
    /\ \A x \in Lines : dir[x].wts <= dir[x].rts
    /\ \A m \in rep : m.type \in {"SH_REP", "EX_REP"} => m.wts <= m.rts
    /\ \A i \in 1..Len(rspQ) : rspQ[i].wts <= rspQ[i].rts

\* No logical clock runs backwards: not a core's load and store timestamps, and
\* not the directory's memory timestamp.
ClocksAdvance ==
    [][/\ \A c \in Cores : lts'[c] >= lts[c] /\ sts'[c] >= sts[c]
       /\ mts' >= mts]_vars

\* A load served by a leased copy is ordered inside the lease: the core's load
\* timestamp ends up between the copy's wts and rts.
LoadsInsideLease ==
    [][\A c \in Cores :
         LET r == Head(mq[c]) IN
           (mq[c] # <<>> /\ mq'[c] = Tail(mq[c]) /\ r.op = "LD"
              /\ l1[c][r.a].st = "S_LSD" /\ l1'[c][r.a].st = "S_LSD")
             => l1'[c][r.a].wts <= lts'[c] /\ lts'[c] <= l1'[c][r.a].rts]_vars

\* The states in which the directory takes a line for a version written at mts: a grant
\* from I overwrites what the entry says (C_M is a counter's).
AtMts == {"I", "C_M", "I_Fetch_Auth", "I_Evict_Auth", "I_Evicting", "IS", "IE"}

\* The latest version of a line, with its owner, on its way back or at the directory;
\* and the versions that may be read, renewed or upgraded, or are on their way to it.
Version(k) == [wts |-> k.wts, val |-> k.val]
Newest(x) ==
    IF Owners(x) # {} THEN Version(l1[CHOOSE c \in Owners(x) : TRUE][x])
    ELSE IF HandedBack(x) # {} THEN Version(rspQ[CHOOSE i \in HandedBack(x) : TRUE])
    ELSE [wts |-> IF dir[x].st \in AtMts THEN mts ELSE dir[x].wts, val |-> current[x]]
Readable(x) ==
    {Version(l1[c][x]) : c \in {d \in Cores : l1[d][x].st \in {"S_LSD", "S_EXP", "SE"}}}
      \cup {Version(m) : m \in {n \in rep : n.a = x /\ n.type = "SH_REP"}}

Line(x) == INSTANCE LineMemory WITH
    granted <- {m.to : m \in Grants(x)}, held <- Owners(x), returned <- HandedBack(x) # {},
    latest <- Newest(x), copies <- Readable(x)

\* Every line behaves as one object with a history of versions, whatever becomes of its
\* copies, grants and write backs.
ImplementsLineMemory ==
    /\ \A x \in Lines : Line(x)!Init
    /\ [][\A x \in Lines : [Line(x)!Next]_(Line(x)!vars)]_vars

\* The store that completes an upgrade answered with data is a newer version than the
\* data.  (SE, ExRep) of cache.sm keeps the timestamps of the old copy, and need not
\* make one.
UpgradesAdvance == \A c \in Cores : \A m \in rep : ExRepUpgrade(c, m) => l1'[c][m.a].wts > m.wts

\* A store is ordered after every lease under which an older version of the line
\* may still be read.
StoresFollowLeases ==
    Running => \A c, o \in Cores, x \in Lines :
        l1[o][x].st = "E" /\ l1[c][x].st = "S_LSD" /\ l1[c][x].val < l1[o][x].val
          => l1[c][x].rts < l1[o][x].wts

-----------------------------------------------------------------------------
(* Counters and evictions.                                                 *)

ReadsOf(x) ==
    {<<"pending", i>> : i \in {n \in 1..Len(memPend[x]) : memPend[x][n].type = "MEMORY_READ"}}
      \cup {<<"served", i>> : i \in {n \in 1..Len(memQ) : memQ[n].a = x /\ memQ[n].type = "MEMORY_READ"}}
WritesOf(x) ==
    {<<"pending", i>> : i \in {n \in 1..Len(memPend[x]) : memPend[x][n].type = "MEMORY_WB"}}
      \cup {<<"served", i>> : i \in {n \in 1..Len(memQ) : memQ[n].a = x /\ memQ[n].type = "MEMORY_WB"}}

\* A line is read from memory once per miss, a counter once per AuthTBE however
\* many requests and evictions wait for it, and a victim is written back once.
OneMemoryTransaction ==
    Running =>
        /\ \A x \in Lines :
             Cardinality(ReadsOf(x)) = IF dir[x].st \in {"IS", "IE", "SE"} THEN 1 ELSE 0
        /\ \A q \in Counters : auth[q].busy => Cardinality(ReadsOf(q)) = 1
        /\ \A q \in Counters : ~auth[q].busy => ReadsOf(q) = {}
        /\ \A x \in Addrs :
             Cardinality(WritesOf(x)) = IF dir[x].st \in Evicting THEN 1 ELSE 0

\* A victim parked until its branch of the tree is cached is remembered by
\* exactly one waiter slot; nothing else is.
WaitersParked ==
    Running => \A x \in Addrs :
        Cardinality({w \in Counters \X Slots : auth[w[1]].slot[w[2]] = x}) =
            IF dir[x].st \in EvictAuth THEN 1 ELSE 0

\* A request put aside waits for a counter that has been asked for.
WaitersAreAwaited ==
    Running /\ waitQ # {} => \E q \in Counters : auth[q].busy

-----------------------------------------------------------------------------
(* The undefined (state, event) pairs.                                     *)

\* Of the pairs the two machines declare no transition for, and of the asserts
\* on their way, only these are ever met: a recall that overtakes a grant, a load
\* of a line on its way out, an upgrade of a copy the directory has forgotten, a
\* write back that bounces with no request to recycle, a counter that is read
\* during its own eviction, and a recalled line named as a dirty victim.
KnownFaults ==
    {<<"L1", "SE", "FlushReq">>, <<"L1", "EI", "LoadLeaseExpired">>,
     <<"Dir", "I", "UpgReq">>, <<"Dir", "E_Fetch_Auth", "recycle of an empty queue">>}
      \cup {<<"Dir", st, "Counter_Data">> : st \in {"I_Evict_Auth", "I_Evicting"}}
      \cup {<<"Dir", st, "LLC_Repl_Dirty_Auth_Miss">> : st \in {"ES", "EE"}}
OnlyKnownFaults == fault \in KnownFaults \cup {NoFault}

\* A FLUSH_REQ or WB_REQ reaches its owner after the grant that made it one.
FlushFindsOwner == fault # <<"L1", "SE", "FlushReq">>

\* A response that finds its line in E_Fetch_Auth bounces to E and is processed
\* again: it never depends on a request that happens to be queued.
ResponsesBounce == fault # <<"Dir", "E_Fetch_Auth", "recycle of an empty queue">>

-----------------------------------------------------------------------------
(* Progress.                                                               *)

\* With requests still open, some controller can always act.
DeadlockFree ==
    Running /\ (\A c \in Cores : opsLeft[c] = 0) /\ ~Quiescent => ENABLED Next

\* Every miss, upgrade, renewal and write back of an L1 is answered.
RequestsComplete ==
    \A c \in Cores, x \in Lines :
        l1[c][x].st \in L1Busy ~> (l1[c][x].st \notin L1Busy \/ ~Running)

=============================================================================
