---------------------------- MODULE TardisState ----------------------------
(***************************************************************************)
(* State shared by the controllers of the TARDISTSO_TECTREE protocol:      *)
(* private L1 caches, the timestamp manager (directory + LLC + AuthTBEs),  *)
(* the message buffers between them and the memory behind the directory.   *)
(*                                                                         *)
(* A data line's contents are a counter: every store is the atomic         *)
(* increment of the ping_pong microbenchmark, so a line's value is the     *)
(* number of stores it reflects.  A counter line's contents never matter   *)
(* to the code (only its presence and its Dirty bit do).                   *)
(***************************************************************************)
EXTENDS Integers, Sequences, FiniteSets

CONSTANTS
    Cores,           \* L1 cache controllers
    Lines,           \* data lines
    Counters,        \* lines of the integrity tree (L1..L6 counter chunks)
    Path,            \* [line |-> <<parent, grandparent, ...>>], up to the top
    RootSlot,        \* getL6Index: [line |-> 0..3], 3 names no root register
    Lease,           \* lease added to a granted timestamp
    LivelockPeriod,  \* initial livelock_period of an L1 entry (32)
    L1Ways,          \* entries of the L1 set all lines map to
    LLCWays,         \* entries of the LLC set all lines map to
    WaiterSlots,     \* Waiter slots of an AuthTBE (128)
    ResumeSlots,     \* Waiter slots resumeEvictions looks at (16)
    Ops,             \* kinds of requests the cores issue
    Barriers,        \* values isMemBarrier may take in a request
    QueueDepth,      \* bound on a mandatory queue
    MaxOps,          \* bound on the requests each core issues
    MaxClock,        \* bound on the lts a stalled load may reach by polling
    NoAddr,          \* address 0: "no parent", "no missing parent"
    NoCore           \* no machine

Addrs == Lines \cup Counters

ASSUME SetsAssumption ==
    /\ IsFiniteSet(Cores) /\ IsFiniteSet(Lines) /\ IsFiniteSet(Counters)
    /\ Lines \cap Counters = {}
    /\ NoAddr \notin Addrs
    /\ NoCore \notin Cores
ASSUME TreeAssumption ==
    /\ Path \in [Addrs -> Seq(Counters)]
    /\ \A a \in Addrs : Path[a] # <<>> => Path[Head(Path[a])] = Tail(Path[a])
    /\ RootSlot \in [Addrs -> 0..3]
ASSUME NumbersAssumption ==
    /\ Lease \in Nat /\ MaxOps \in Nat /\ MaxClock \in Nat
    /\ LivelockPeriod \in Nat \ {0}
    /\ L1Ways \in Nat \ {0} /\ LLCWays \in Nat \ {0}
    /\ WaiterSlots \in Nat /\ ResumeSlots \in Nat
    /\ QueueDepth \in Nat \ {0}
ASSUME RequestsAssumption ==
    /\ Ops \subseteq {"LD", "IFETCH", "ST"}
    /\ Barriers \subseteq BOOLEAN

VARIABLES
    \* one L1 cache controller per core
    l1,        \* [Cores -> [Lines -> L1Entry]]
    lts, sts,  \* load and store timestamps of each core
    mq,        \* mandatoryQueue of each core
    opsLeft,   \* requests each core may still issue
    \* message buffers
    reqQ,      \* requestFromCache, FIFO
    waitQ,     \* requests put aside by stall_and_wait, a set
    rspQ,      \* responseFromCache, FIFO
    fwd,       \* forwardFromDir messages in flight
    rep,       \* responseFromDir messages in flight
    \* the directory
    dir,       \* [Addrs -> DirEntry]
    tbe,       \* [Addrs -> TBE], meaningful in the states that hold one
    llc,       \* [Addrs -> LLCEntry]
    auth,      \* [Counters -> AuthTBE]
    mts,       \* memory timestamp
    root,      \* root_cnt_0, root_cnt_1, root_cnt_2
    \* memory
    mem,       \* [Addrs -> Nat]
    memPend,   \* requests the memory has not served, FIFO per line
    memQ,      \* responseFromMemory, FIFO
    \* history, read by properties only
    written,   \* [Lines -> Nat], stores performed on a line
    current,   \* [Lines -> Nat], last contents an L1 handed to the directory
    \* an undefined (state, event) pair or a failed assert ends the simulation
    fault

l1Vars    == <<l1, lts, sts, mq, opsLeft>>
chanVars  == <<reqQ, waitQ, rspQ, fwd, rep>>
dirVars   == <<dir, tbe, llc, auth, mts, root>>
memVars   == <<mem, memPend, memQ>>
ghostVars == <<written, current>>
vars      == <<l1Vars, chanVars, dirVars, memVars, ghostVars, fault>>

NoFault == <<>>

Max2(i, j) == IF i > j THEN i ELSE j

-----------------------------------------------------------------------------
(* The records.                                                            *)

L1States  == {"I", "S_LSD", "E", "IS", "IE", "SE", "S_EXP", "EI"}
L1Busy    == {"IS", "IE", "SE", "S_EXP", "EI"}
L1Entry   == [st : L1States, wts : Nat, rts : Nat, val : Nat,
              loads : Nat, period : Nat]
NewEntry  == [st |-> "I", wts |-> 0, rts |-> 0, val |-> 0,
              loads |-> 0, period |-> LivelockPeriod]

CoreReq   == [op : Ops, a : Lines, bar : BOOLEAN]

FetchAuth == {"I_Fetch_Auth", "S_Fetch_Auth", "E_Fetch_Auth"}
EvictAuth == {"I_Evict_Auth", "S_Evict_Auth"}
Evicting  == {"I_Evicting", "S_Evicting"}
Granting  == {"IS", "IE", "SE", "ES", "EE"}
DirStates == {"I", "S", "E", "C_M", "E_Evict_Flush"}
               \cup FetchAuth \cup EvictAuth \cup Evicting \cup Granting
DirEntry  == [st : DirStates, wts : Nat, rts : Nat, owner : SUBSET Cores]

TBE       == [req : Cores \cup {NoCore}, wts : Nat, lts : Nat, val : Nat]
NoTBE     == [req |-> NoCore, wts |-> 0, lts |-> 0, val |-> 0]

LLCEntry  == [st : {"none", "clean", "dirty"}, val : Nat]
NoLLC     == [st |-> "none", val |-> 0]

Slots     == 1..WaiterSlots
AuthTBE   == [busy : BOOLEAN, slot : [Slots -> Addrs \cup {NoAddr}]]
NoAuth    == [busy |-> FALSE, slot |-> [s \in Slots |-> NoAddr]]

\* RequestMsg to the directory (SH_REQ, EX_REQ)
Request   == [type : {"SH_REQ", "EX_REQ"}, a : Lines, from : Cores,
              wts : Nat, lts : Nat]
\* RequestMsg to an L1 (FLUSH_REQ, WB_REQ)
Forward   == [type : {"FLUSH_REQ", "WB_REQ"}, a : Lines, to : Cores, rts : Nat]
\* ResponseMsg to the directory (WB_REP, PUT_REP)
FromCache == [type : {"WB_REP", "PUT_REP"}, a : Lines, from : Cores,
              wts : Nat, rts : Nat, val : Nat]
\* ResponseMsg to an L1
ToCache   == [type : {"SH_REP", "EX_REP", "RENEW_REP", "UPGR_REP", "ACK_REP"},
              a : Lines, to : Cores, wts : Nat, rts : Nat, val : Nat]
\* MemoryMsg, in both directions
MemOp     == [type : {"MEMORY_READ", "MEMORY_WB"}, val : Nat]
MemMsg    == [type : {"MEMORY_READ", "MEMORY_WB"}, a : Addrs, val : Nat]

-----------------------------------------------------------------------------
Init ==
    /\ l1 = [c \in Cores |-> [a \in Lines |-> NewEntry]]
    /\ lts = [c \in Cores |-> 1]
    /\ sts = [c \in Cores |-> 1]
    /\ mq = [c \in Cores |-> <<>>]
    /\ opsLeft = [c \in Cores |-> MaxOps]
    /\ reqQ = <<>> /\ rspQ = <<>>
    /\ waitQ = {} /\ fwd = {} /\ rep = {}
    /\ dir = [a \in Addrs |-> [st |-> "I", wts |-> 0, rts |-> 0, owner |-> {}]]
    /\ tbe = [a \in Addrs |-> NoTBE]
    /\ llc = [a \in Addrs |-> NoLLC]
    /\ auth = [k \in Counters |-> NoAuth]
    /\ mts = 1
    /\ root = [i \in 0..2 |-> 0]
    /\ mem = [a \in Addrs |-> 0]
    /\ memPend = [a \in Addrs |-> <<>>]
    /\ memQ = <<>>
    /\ written = [a \in Lines |-> 0]
    /\ current = [a \in Lines |-> 0]
    /\ fault = NoFault

=============================================================================
