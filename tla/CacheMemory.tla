---------------------------- MODULE CacheMemory ----------------------------
(***************************************************************************)
(* The set-associative array under every Ruby controller (the L1s and the  *)
(* LLC of the tree).  A line is found through a tag index that gives its   *)
(* way; its set comes from the address; the entry itself remembers both,   *)
(* for deallocate.  The replacement data belong to the ways and outlive    *)
(* the entries.  The policy is LRU: older[s] orders the ways of s by their *)
(* last use.                                                               *)
(***************************************************************************)
EXTENDS Naturals, FiniteSets

CONSTANTS
  NumSets,   \* m_cache_num_sets
  SetSpan,   \* 2 ^ m_cache_num_set_bits
  Assoc,     \* m_cache_assoc
  Lines,     \* line numbers
  Contexts,  \* hardware contexts that lock lines
  Perms,     \* access permissions the protocol gives its lines
  Htm        \* the controller uses hardware transactional memory

\* floorLog2 gives the largest power of two, so a set count that is not one
\* leaves the sets after it unused.
ASSUME CacheAssumption ==
  /\ NumSets \in Nat /\ NumSets > 1
  /\ SetSpan \in 1..NumSets /\ NumSets < 2 * SetSpan
  /\ \E bits \in 1..NumSets : SetSpan = 2 ^ bits
  /\ Assoc \in Nat /\ Assoc > 0
  /\ Lines \subseteq Nat
  /\ "Invalid" \in Perms /\ Perms \subseteq {"Invalid", "Busy", "Read_Only", "Read_Write"}
  /\ "none" \notin Contexts
  /\ Htm \in BOOLEAN

VARIABLES
  cache,     \* m_cache: an entry or null at each way of each set
  tagIndex,  \* m_tag_index: the way of each line that is present
  older      \* replacement_data, compared by last use: <<v, w>> is in older[s] when
             \* way v of set s was used before way w

vars == <<cache, tagIndex, older>>

Sets == 0 .. NumSets - 1
Ways == 0 .. Assoc - 1
Null == [ptr |-> "nullptr"]
Entries == [line : Lines, set : Sets, way : Ways, perm : Perms,
            lock : Contexts \cup {"none"}, marks : SUBSET {"read", "written"}]
IsEntry(e) == e # Null

Init ==
  /\ cache = [s \in Sets |-> [w \in Ways |-> Null]]
  /\ tagIndex = <<>>
  /\ older = [s \in Sets |-> {p \in Ways \X Ways : p[1] < p[2]}]

-----------------------------------------------------------------------------
(* Looking a line up *)

AddressToCacheSet(a) == a % SetSpan

FindTagInSet(a) == IF a \in DOMAIN tagIndex THEN tagIndex[a] ELSE Assoc
IsTagPresent(a) == FindTagInSet(a) # Assoc
Lookup(a) == cache[AddressToCacheSet(a)][FindTagInSet(a)]

\* The line is in its set, whatever the index says, or a way of the set is free.
\* (Mutant: the line itself is not looked for.)
AvailIfFree(a) ==
  \E w \in Ways : ~IsEntry(cache[AddressToCacheSet(a)][w])
CacheAvail(a) ==
  \E w \in Ways : LET e == cache[AddressToCacheSet(a)][w]
                  IN IsEntry(e) => e.line = a

\* The line to evict when the set is full: getVictim over its ways.
Oldest(s) == CHOOSE w \in Ways : \A v \in Ways \ {w} : <<w, v>> \in older[s]
CacheProbe(a) == cache[AddressToCacheSet(a)][Oldest(AddressToCacheSet(a))].line

-----------------------------------------------------------------------------
(* Replacement data: a touched way is the youngest of its set, an          *)
(* invalidated one the oldest.                                             *)

Others(s, w) == {p \in older[s] : w \notin {p[1], p[2]}}
Rest(w) == Ways \ {w}
Touch(s, w) == older' = [older EXCEPT ![s] = Others(s, w) \cup (Rest(w) \X {w})]
Invalidate(s, w) == older' = [older EXCEPT ![s] = Others(s, w) \cup ({w} \X Rest(w))]

\* A hit of any kind: tryCacheAccess whether or not it has the permission,
\* testCacheAccess, and the three forms of setMRU.  The data are those of the
\* way the entry was put in.
SetMRU(a) ==
  /\ IsTagPresent(a)
  /\ Touch(Lookup(a).set, Lookup(a).way)
  /\ UNCHANGED <<cache, tagIndex>>

\* What tryCacheAccess answers for a line it found.
HasPermission(perm, load) ==
  perm = "Read_Write" \/ (perm = "Read_Only" /\ load)

-----------------------------------------------------------------------------
(* Lines come and go *)

\* Into the first open way, whatever was evicted from the others since.
Allocate(a) ==
  /\ ~IsTagPresent(a) /\ CacheAvail(a)
  /\ LET s == AddressToCacheSet(a)
     IN \E w \in Ways :
          /\ ~IsEntry(cache[s][w])
          /\ \A v \in Ways : ~IsEntry(cache[s][v]) => w <= v
          /\ cache' = [cache EXCEPT ![s][w] =
                         [line |-> a, set |-> s, way |-> w, perm |-> "Invalid",
                          lock |-> "none", marks |-> {}]]
          /\ tagIndex' = [b \in DOMAIN tagIndex \cup {a} |->
                            IF b = a THEN w ELSE tagIndex[b]]
          /\ Touch(s, w)

\* The entry says where it is.  (Mutant: its tag stays in the index.)
DeallocateKeepsTag(a) ==
  /\ IsTagPresent(a) /\ IsEntry(Lookup(a))
  /\ Invalidate(Lookup(a).set, Lookup(a).way)
  /\ cache' = [cache EXCEPT ![Lookup(a).set][Lookup(a).way] = Null]
  /\ UNCHANGED tagIndex
Deallocate(a) ==
  /\ IsTagPresent(a)
  /\ Invalidate(Lookup(a).set, Lookup(a).way)
  /\ cache' = [cache EXCEPT ![Lookup(a).set][Lookup(a).way] = Null]
  /\ tagIndex' = [b \in DOMAIN tagIndex \ {a} |-> tagIndex[b]]

-----------------------------------------------------------------------------
(* The fields of the entries *)

Update(a, e) ==
  /\ IsTagPresent(a)
  /\ cache' = [cache EXCEPT ![AddressToCacheSet(a)][FindTagInSet(a)] = e]
  /\ UNCHANGED <<tagIndex, older>>

ChangePermission(a, p) == Update(a, [Lookup(a) EXCEPT !.perm = p])
SetLocked(a, c) == Update(a, [Lookup(a) EXCEPT !.lock = c])
ClearLocked(a) == Update(a, [Lookup(a) EXCEPT !.lock = "none"])
SetInHtm(a, m) == Htm /\ Update(a, [Lookup(a) EXCEPT !.marks = @ \cup {m}])

IsLocked(a, c) == IsTagPresent(a) /\ Lookup(a).lock = c

\* Every entry of every way, in one call.
ForEach(f(_)) ==
  /\ cache' = [s \in Sets |-> [w \in Ways |->
                IF IsEntry(cache[s][w]) THEN f(cache[s][w]) ELSE Null]]
  /\ UNCHANGED <<tagIndex, older>>

ClearLockedAll(c) ==
  ForEach(LAMBDA e : IF e.lock = c THEN [e EXCEPT !.lock = "none"] ELSE e)

HtmCommitTransaction ==
  Htm /\ ForEach(LAMBDA e : [e EXCEPT !.marks = {}, !.lock = "none"])

\* Lines written in the transaction are invalidated, before their mark goes.
\* (Mutant: their locks stay.)
HtmAbortKeepsLocks ==
  Htm /\ ForEach(LAMBDA e :
           [e EXCEPT !.perm = IF "written" \in e.marks THEN "Invalid" ELSE @,
                     !.marks = {}])
HtmAbortTransaction ==
  Htm /\ ForEach(LAMBDA e :
           [e EXCEPT !.perm = IF "written" \in e.marks THEN "Invalid" ELSE @,
                     !.marks = {}, !.lock = "none"])

-----------------------------------------------------------------------------
(* Checkpoints walk the array, not the index.  (Mutant: from the second set.) *)

\* The line at position i of the array, 0 for one that holds nothing valid.
GetAddressAtIdx(i) ==
  LET e == cache[i \div Assoc][i - (i \div Assoc) * Assoc]
  IN IF ~IsEntry(e) \/ e.perm = "Invalid" THEN 0 ELSE e.line

\* The requests that will load the cache again: recordCacheContents.
RequestType(perm) == IF perm = "Read_Write" THEN "ST"
                     ELSE IF perm = "Read_Only" THEN "LD" ELSE "NULL"
RecordFromSecondSet ==
  {r \in {<<s, w, cache[s][w]>> : s \in Sets \ {0}, w \in Ways} :
     IsEntry(r[3]) /\ RequestType(r[3].perm) # "NULL"}
RecordCacheContents ==
  {r \in {<<s, w, cache[s][w]>> : s \in Sets, w \in Ways} :
     IsEntry(r[3]) /\ RequestType(r[3].perm) # "NULL"}

-----------------------------------------------------------------------------

Next ==
  \/ \E a \in Lines :
       \/ Allocate(a) \/ Deallocate(a) \/ SetMRU(a) \/ ClearLocked(a)
       \/ \E p \in Perms : ChangePermission(a, p)
       \/ \E c \in Contexts : SetLocked(a, c)
       \/ \E m \in {"read", "written"} : SetInHtm(a, m)
  \/ \E c \in Contexts : ClearLockedAll(c)
  \/ HtmCommitTransaction
  \/ HtmAbortTransaction

Spec == Init /\ [][Next]_vars

-----------------------------------------------------------------------------
(* Properties *)

\* Entries stand in the ways and the replacement data order all of them.
EntriesInWays ==
  /\ cache \in [Sets -> [Ways -> Entries \cup {Null}]]
  /\ DOMAIN tagIndex \subseteq Lines
  /\ tagIndex \in [DOMAIN tagIndex -> Ways]
TypeOK ==
  /\ EntriesInWays
  /\ older \in [Sets -> SUBSET (Ways \X Ways)]
  /\ \A s \in Sets, v, w \in Ways : v # w =>
       /\ <<v, v>> \notin older[s]
       /\ <<v, w>> \in older[s] <=> <<w, v>> \notin older[s]

\* The index, the array and the position kept in the entry agree: a tag leads to
\* its own line, and no line is in the array without its tag.  lookup, allocate
\* and deallocate each trust one of the three.
TagIndexExact ==
  /\ \A a \in DOMAIN tagIndex :
       LET e == cache[AddressToCacheSet(a)][tagIndex[a]] IN IsEntry(e) /\ e.line = a
  /\ \A s \in Sets, w \in Ways :
       LET e == cache[s][w]
       IN IsEntry(e) => /\ e.line \in DOMAIN tagIndex
                        /\ AddressToCacheSet(e.line) = s /\ tagIndex[e.line] = w
                        /\ e.set = s /\ e.way = w

\* When allocate would be refused, cacheProbe names a line whose eviction makes
\* room: another line, present, and of the same set.
ProbeMakesRoom ==
  \A a \in Lines :
    ~CacheAvail(a) => LET v == CacheProbe(a)
                      IN /\ v # a /\ IsTagPresent(v)
                         /\ AddressToCacheSet(v) = AddressToCacheSet(a)

\* A checkpoint, which walks the array, has every line the controllers find by
\* its tag and may read, once, and no line that an abort threw away.
CheckpointComplete ==
  LET rec == RecordCacheContents
  IN /\ {r[3].line : r \in rec} =
          {a \in DOMAIN tagIndex : HasPermission(Lookup(a).perm, TRUE)}
     /\ \A r, q \in rec : r[3].line = q[3].line => r = q
     /\ \A r \in rec : GetAddressAtIdx(r[1] * Assoc + r[2]) = r[3].line

\* The array with its index behaves as a map from lines with an order of use.
Field(a) == [perm |-> Lookup(a).perm, lock |-> Lookup(a).lock, marks |-> Lookup(a).marks]
Older(a, b) == /\ AddressToCacheSet(a) = AddressToCacheSet(b)
               /\ <<tagIndex[a], tagIndex[b]>> \in older[AddressToCacheSet(a)]
Store == INSTANCE LineStore WITH
  SetOf  <- AddressToCacheSet,
  held   <- [a \in DOMAIN tagIndex |-> Field(a)],
  before <- {p \in (DOMAIN tagIndex) \X (DOMAIN tagIndex) : Older(p[1], p[2])}
ImplementsLineStore == Store!Spec
=============================================================================
