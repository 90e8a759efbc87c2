------------------------- MODULE CacheMemory_proofs -------------------------
(***************************************************************************)
(* For every number of sets and ways: the tag index is exact, no operation *)
(* of CacheMemory leaving a tag without its line or a line without its     *)
(* tag; checkpoints are complete; and the array implements LineStore.      *)
(***************************************************************************)
EXTENDS CacheMemory, TLAPS, FunctionTheorems, FiniteSetTheorems

IInv == EntriesInWays /\ TagIndexExact

\* An address selects a set of the array (CacheMemory::addressToCacheSet).
LEMMA SetInRange ==
  ASSUME NEW a \in Lines
  PROVE  AddressToCacheSet(a) \in Sets
<1>1. a \in Nat /\ SetSpan \in 1..NumSets /\ NumSets \in Nat
  BY CacheAssumption
<1>2. a % SetSpan \in 0..(SetSpan - 1)
  BY <1>1, SMT
<1> QED
  BY <1>1, <1>2, SMT DEF AddressToCacheSet, Sets

\* No entry is the null pointer.
LEMMA EntryNotNull ==
  ASSUME NEW e \in Entries
  PROVE  IsEntry(e)
<1>1. e = [line |-> e.line, set |-> e.set, way |-> e.way, perm |-> e.perm,
           lock |-> e.lock, marks |-> e.marks]
  BY DEF Entries
<1>2. "line" \in DOMAIN e
  BY <1>1
<1>3. "line" \notin DOMAIN Null
  BY DEF Null
<1> QED
  BY <1>2, <1>3 DEF IsEntry

\* A present line has a way, and its entry is its own (CacheMemory::lookup).
LEMMA LookupFinds ==
  ASSUME IInv, NEW a \in Lines, IsTagPresent(a)
  PROVE  /\ a \in DOMAIN tagIndex
         /\ FindTagInSet(a) = tagIndex[a] /\ tagIndex[a] \in Ways
         /\ AddressToCacheSet(a) \in Sets
         /\ Lookup(a) \in Entries /\ Lookup(a).line = a
         /\ Lookup(a).set = AddressToCacheSet(a) /\ Lookup(a).way = tagIndex[a]
         /\ Lookup(a) = cache[AddressToCacheSet(a)][tagIndex[a]]
<1>1. a \in DOMAIN tagIndex /\ FindTagInSet(a) = tagIndex[a]
  BY DEF IsTagPresent, FindTagInSet
<1>2. tagIndex[a] \in Ways /\ AddressToCacheSet(a) \in Sets
  BY <1>1, SetInRange DEF IInv, EntriesInWays
<1>3. Lookup(a) = cache[AddressToCacheSet(a)][tagIndex[a]]
  BY <1>1 DEF Lookup
<1>4. IsEntry(Lookup(a)) /\ Lookup(a).line = a
  BY <1>1, <1>3 DEF IInv, TagIndexExact
<1>5. Lookup(a) \in Entries
  BY <1>2, <1>3, <1>4 DEF IInv, EntriesInWays, IsEntry
<1>6. Lookup(a).set = AddressToCacheSet(a) /\ Lookup(a).way = tagIndex[a]
  BY <1>2, <1>3, <1>4 DEF IInv, TagIndexExact
<1> QED
  BY <1>1, <1>2, <1>3, <1>4, <1>5, <1>6

\* Changing fields of entries, one or all of them, moves none: what each way has
\* is the same line in the same place.
LEMMA FieldsOnly ==
  ASSUME IInv, UNCHANGED tagIndex,
         cache' \in [Sets -> [Ways -> Entries \cup {Null}]],
         \A s \in Sets, w \in Ways :
           /\ IsEntry(cache'[s][w]) <=> IsEntry(cache[s][w])
           /\ IsEntry(cache[s][w]) => /\ cache'[s][w].line = cache[s][w].line
                                      /\ cache'[s][w].set = cache[s][w].set
                                      /\ cache'[s][w].way = cache[s][w].way
  PROVE  IInv'
<1>1. EntriesInWays'
  BY DEF IInv, EntriesInWays
<1>2. ASSUME NEW a \in DOMAIN tagIndex
      PROVE  /\ IsEntry(cache'[AddressToCacheSet(a)][tagIndex[a]])
             /\ cache'[AddressToCacheSet(a)][tagIndex[a]].line = a
  <2>1. AddressToCacheSet(a) \in Sets /\ tagIndex[a] \in Ways
    BY SetInRange DEF IInv, EntriesInWays
  <2> QED
    BY <2>1 DEF IInv, TagIndexExact
<1>3. ASSUME NEW s \in Sets, NEW w \in Ways, IsEntry(cache'[s][w])
      PROVE  /\ cache'[s][w].line \in DOMAIN tagIndex
             /\ AddressToCacheSet(cache'[s][w].line) = s
             /\ tagIndex[cache'[s][w].line] = w
             /\ cache'[s][w].set = s /\ cache'[s][w].way = w
  BY <1>3 DEF IInv, TagIndexExact
<1>4. TagIndexExact'
  BY <1>2, <1>3 DEF TagIndexExact, AddressToCacheSet, IsEntry
<1> QED
  BY <1>1, <1>4 DEF IInv

\* An operation on the fields of one entry (setLocked, changePermission, ...).
LEMMA UpdateSafe ==
  ASSUME IInv, NEW a \in Lines, NEW e \in Entries, Update(a, e),
         e.line = Lookup(a).line, e.set = Lookup(a).set, e.way = Lookup(a).way
  PROVE  IInv'
<1>1. IsTagPresent(a) /\ UNCHANGED tagIndex
  BY DEF Update
<1> DEFINE s0 == AddressToCacheSet(a)
           w0 == tagIndex[a]
<1>2. s0 \in Sets /\ w0 \in Ways /\ Lookup(a) = cache[s0][w0] /\ Lookup(a) \in Entries
      /\ FindTagInSet(a) = w0
  BY <1>1, LookupFinds
<1>3. cache' = [cache EXCEPT ![s0][w0] = e]
  BY <1>2 DEF Update
<1>4. cache \in [Sets -> [Ways -> Entries \cup {Null}]]
  BY DEF IInv, EntriesInWays
<1> HIDE DEF s0, w0
<1>5. cache' \in [Sets -> [Ways -> Entries \cup {Null}]]
  BY <1>2, <1>3, <1>4
<1>6. \A s \in Sets, w \in Ways :
        cache'[s][w] = IF s = s0 /\ w = w0 THEN e ELSE cache[s][w]
  BY <1>2, <1>3, <1>4
<1>7. IsEntry(e) /\ IsEntry(cache[s0][w0])
  BY <1>2, EntryNotNull
<1> QED
  BY <1>1, <1>2, <1>5, <1>6, <1>7, FieldsOnly

\* An operation on every entry of the array (clearLockedAll, the transactions).
LEMMA ForEachSafe ==
  ASSUME IInv, UNCHANGED tagIndex,
         \A s \in Sets, w \in Ways :
           IsEntry(cache[s][w]) =>
             /\ cache'[s][w] \in Entries
             /\ cache'[s][w].line = cache[s][w].line
             /\ cache'[s][w].set = cache[s][w].set
             /\ cache'[s][w].way = cache[s][w].way,
         \A s \in Sets, w \in Ways : ~IsEntry(cache[s][w]) => cache'[s][w] = Null,
         cache' \in [Sets -> [Ways -> Entries \cup {Null}]]
  PROVE  IInv'
<1>1. ASSUME NEW s \in Sets, NEW w \in Ways
      PROVE  IsEntry(cache'[s][w]) <=> IsEntry(cache[s][w])
  <2>1. CASE IsEntry(cache[s][w])
    BY <2>1, EntryNotNull
  <2>2. CASE ~IsEntry(cache[s][w])
    BY <2>2 DEF IsEntry
  <2> QED
    BY <2>1, <2>2
<1> QED
  BY <1>1, FieldsOnly

\* allocate puts the line where nothing was and indexes it there.
LEMMA AllocateSafe ==
  ASSUME IInv, NEW a \in Lines, Allocate(a)
  PROVE  IInv'
<1> DEFINE s0 == AddressToCacheSet(a)
<1>1. PICK w0 \in Ways :
        /\ ~IsEntry(cache[s0][w0])
        /\ cache' = [cache EXCEPT ![s0][w0] =
                       [line |-> a, set |-> s0, way |-> w0, perm |-> "Invalid",
                        lock |-> "none", marks |-> {}]]
        /\ tagIndex' = [b \in DOMAIN tagIndex \cup {a} |->
                          IF b = a THEN w0 ELSE tagIndex[b]]
  BY DEF Allocate
<1> DEFINE e == [line |-> a, set |-> s0, way |-> w0, perm |-> "Invalid",
                 lock |-> "none", marks |-> {}]
<1>2. s0 \in Sets
  BY SetInRange
<1>3. e \in Entries
  BY <1>2, CacheAssumption DEF Entries
<1>4. IsEntry(e)
  BY <1>3, EntryNotNull
<1>5. e.line = a /\ e.set = s0 /\ e.way = w0
  OBVIOUS
<1>6. a \notin DOMAIN tagIndex
  <2>1. FindTagInSet(a) = Assoc
    BY DEF Allocate, IsTagPresent
  <2>2. Assoc \notin Ways
    BY CacheAssumption, SMT DEF Ways
  <2> QED
    BY <2>1, <2>2 DEF FindTagInSet, IInv, EntriesInWays
<1>7. cache \in [Sets -> [Ways -> Entries \cup {Null}]]
  BY DEF IInv, EntriesInWays
<1>8. cache' = [cache EXCEPT ![s0][w0] = e]
  BY <1>1
<1> HIDE DEF e, s0
<1>9. /\ cache' \in [Sets -> [Ways -> Entries \cup {Null}]]
      /\ \A s \in Sets, w \in Ways :
           cache'[s][w] = IF s = s0 /\ w = w0 THEN e ELSE cache[s][w]
  BY <1>2, <1>3, <1>7, <1>8
<1>10. /\ DOMAIN tagIndex' = DOMAIN tagIndex \cup {a}
       /\ tagIndex'[a] = w0
       /\ \A b \in DOMAIN tagIndex : tagIndex'[b] = tagIndex[b]
  BY <1>1, <1>6
<1>11. EntriesInWays'
  BY <1>1, <1>9, <1>10 DEF IInv, EntriesInWays
<1>12. ASSUME NEW b \in DOMAIN tagIndex'
       PROVE  /\ IsEntry(cache'[AddressToCacheSet(b)][tagIndex'[b]])
              /\ cache'[AddressToCacheSet(b)][tagIndex'[b]].line = b
  <2>1. CASE b = a
    BY <2>1, <1>2, <1>4, <1>5, <1>9, <1>10 DEF s0
  <2>2. CASE b # a
    <3>1. b \in DOMAIN tagIndex /\ b \in Lines
      BY <2>2, <1>10 DEF IInv, EntriesInWays
    <3>2. AddressToCacheSet(b) \in Sets /\ tagIndex[b] \in Ways
      BY <3>1, SetInRange DEF IInv, EntriesInWays
    <3>3. ~(AddressToCacheSet(b) = s0 /\ tagIndex[b] = w0)
      BY <1>1, <3>1 DEF IInv, TagIndexExact
    <3> QED
      BY <3>1, <3>2, <3>3, <1>9, <1>10 DEF IInv, TagIndexExact
  <2> QED
    BY <2>1, <2>2
<1>13. ASSUME NEW s \in Sets, NEW w \in Ways, IsEntry(cache'[s][w])
       PROVE  /\ cache'[s][w].line \in DOMAIN tagIndex'
              /\ AddressToCacheSet(cache'[s][w].line) = s
              /\ tagIndex'[cache'[s][w].line] = w
              /\ cache'[s][w].set = s /\ cache'[s][w].way = w
  <2>1. CASE s = s0 /\ w = w0
    BY <2>1, <1>5, <1>9, <1>10 DEF s0
  <2>2. CASE ~(s = s0 /\ w = w0)
    <3>1. cache'[s][w] = cache[s][w]
      BY <2>2, <1>9
    <3>2. IsEntry(cache[s][w])
      BY <3>1, <1>13
    <3>3. /\ cache[s][w].line \in DOMAIN tagIndex
          /\ AddressToCacheSet(cache[s][w].line) = s
          /\ tagIndex[cache[s][w].line] = w
          /\ cache[s][w].set = s /\ cache[s][w].way = w
      BY <3>2 DEF IInv, TagIndexExact
    <3> QED
      BY <3>1, <3>3, <1>10
  <2> QED
    BY <2>1, <2>2
<1>14. TagIndexExact'
  BY <1>12, <1>13 DEF TagIndexExact, AddressToCacheSet, IsEntry
<1> QED
  BY <1>11, <1>14 DEF IInv

\* deallocate frees the way the entry names and forgets its tag: they are the
\* way and the tag of the same line.
LEMMA DeallocateSafe ==
  ASSUME IInv, NEW a \in Lines, Deallocate(a)
  PROVE  IInv'
<1> DEFINE s0 == AddressToCacheSet(a)
           w0 == tagIndex[a]
<1>1. IsTagPresent(a)
  BY DEF Deallocate
<1>2. /\ a \in DOMAIN tagIndex /\ s0 \in Sets /\ w0 \in Ways
      /\ Lookup(a).set = s0 /\ Lookup(a).way = w0
  BY <1>1, LookupFinds
<1>3. cache' = [cache EXCEPT ![s0][w0] = Null]
  BY <1>2 DEF Deallocate
<1>4. tagIndex' = [b \in DOMAIN tagIndex \ {a} |-> tagIndex[b]]
  BY DEF Deallocate
<1>5. cache \in [Sets -> [Ways -> Entries \cup {Null}]]
  BY DEF IInv, EntriesInWays
<1>6. \A b \in DOMAIN tagIndex :
        AddressToCacheSet(b) \in Sets /\ tagIndex[b] \in Ways
  BY SetInRange DEF IInv, EntriesInWays
<1>7. \A b \in DOMAIN tagIndex : b # a =>
        ~(AddressToCacheSet(b) = s0 /\ tagIndex[b] = w0)
  BY <1>2 DEF IInv, TagIndexExact
<1>8. \A s \in Sets, w \in Ways : IsEntry(cache[s][w]) /\ cache[s][w].line = a
                                    => s = s0 /\ w = w0
  BY DEF IInv, TagIndexExact
<1> HIDE DEF s0, w0
<1>9. /\ cache' \in [Sets -> [Ways -> Entries \cup {Null}]]
      /\ \A s \in Sets, w \in Ways :
           cache'[s][w] = IF s = s0 /\ w = w0 THEN Null ELSE cache[s][w]
  BY <1>2, <1>3, <1>5
<1>10. /\ DOMAIN tagIndex' = DOMAIN tagIndex \ {a}
       /\ \A b \in DOMAIN tagIndex' : tagIndex'[b] = tagIndex[b]
  BY <1>4
<1>11. EntriesInWays'
  BY <1>4, <1>9, <1>10 DEF IInv, EntriesInWays
<1>12. ASSUME NEW b \in DOMAIN tagIndex'
       PROVE  /\ IsEntry(cache'[AddressToCacheSet(b)][tagIndex'[b]])
              /\ cache'[AddressToCacheSet(b)][tagIndex'[b]].line = b
  BY <1>6, <1>7, <1>9, <1>10 DEF IInv, TagIndexExact
<1>13. ASSUME NEW s \in Sets, NEW w \in Ways, IsEntry(cache'[s][w])
       PROVE  /\ cache'[s][w].line \in DOMAIN tagIndex'
              /\ AddressToCacheSet(cache'[s][w].line) = s
              /\ tagIndex'[cache'[s][w].line] = w
              /\ cache'[s][w].set = s /\ cache'[s][w].way = w
  <2>1. ~(s = s0 /\ w = w0)
    BY <1>9, <1>13 DEF IsEntry
  <2>2. cache'[s][w] = cache[s][w] /\ IsEntry(cache[s][w])
    BY <2>1, <1>9, <1>13
  <2>3. cache[s][w].line # a
    BY <2>1, <2>2, <1>8
  <2> QED
    BY <2>2, <2>3, <1>10 DEF IInv, TagIndexExact
<1>14. TagIndexExact'
  BY <1>12, <1>13 DEF TagIndexExact, AddressToCacheSet, IsEntry
<1> QED
  BY <1>11, <1>14 DEF IInv

\* The invariant holds of the empty cache and is preserved by every operation.
LEMMA InitIInv == Init => IInv
  BY DEF Init, IInv, EntriesInWays, TagIndexExact, IsEntry

LEMMA NextIInv == IInv /\ [Next]_vars => IInv'
<1> SUFFICES ASSUME IInv, [Next]_vars
             PROVE  IInv'
  OBVIOUS
<1>1. ASSUME NEW a \in Lines, Allocate(a) PROVE IInv'
  BY <1>1, AllocateSafe
<1>2. ASSUME NEW a \in Lines, Deallocate(a) PROVE IInv'
  BY <1>2, DeallocateSafe
<1>3. ASSUME NEW a \in Lines, SetMRU(a) PROVE IInv'
  BY <1>3 DEF SetMRU, IInv, EntriesInWays, TagIndexExact, AddressToCacheSet, IsEntry
<1>4. ASSUME NEW a \in Lines, ClearLocked(a) PROVE IInv'
  <2>1. IsTagPresent(a)
    BY <1>4 DEF ClearLocked, Update
  <2>2. [Lookup(a) EXCEPT !.lock = "none"] \in Entries
    BY <2>1, LookupFinds DEF Entries
  <2> QED
    BY <1>4, <2>1, <2>2, LookupFinds, UpdateSafe DEF ClearLocked, Entries
<1>5. ASSUME NEW a \in Lines, NEW p \in Perms, ChangePermission(a, p) PROVE IInv'
  <2>1. IsTagPresent(a)
    BY <1>5 DEF ChangePermission, Update
  <2>2. [Lookup(a) EXCEPT !.perm = p] \in Entries
    BY <2>1, LookupFinds DEF Entries
  <2> QED
    BY <1>5, <2>1, <2>2, LookupFinds, UpdateSafe DEF ChangePermission, Entries
<1>6. ASSUME NEW a \in Lines, NEW c \in Contexts, SetLocked(a, c) PROVE IInv'
  <2>1. IsTagPresent(a)
    BY <1>6 DEF SetLocked, Update
  <2>2. [Lookup(a) EXCEPT !.lock = c] \in Entries
    BY <2>1, LookupFinds DEF Entries
  <2> QED
    BY <1>6, <2>1, <2>2, LookupFinds, UpdateSafe DEF SetLocked, Entries
<1>7. ASSUME NEW a \in Lines, NEW m \in {"read", "written"}, SetInHtm(a, m)
      PROVE  IInv'
  <2>1. IsTagPresent(a)
    BY <1>7 DEF SetInHtm, Update
  <2>2. [Lookup(a) EXCEPT !.marks = Lookup(a).marks \cup {m}] \in Entries
    BY <2>1, LookupFinds DEF Entries
  <2> QED
    BY <1>7, <2>1, <2>2, LookupFinds, UpdateSafe DEF SetInHtm, Entries
<1>8. \A s \in Sets, w \in Ways : IsEntry(cache[s][w]) => cache[s][w] \in Entries
  BY DEF IInv, EntriesInWays, IsEntry
<1>9. ASSUME NEW c \in Contexts, ClearLockedAll(c) PROVE IInv'
  <2>1. /\ UNCHANGED tagIndex
        /\ cache' = [s \in Sets |-> [w \in Ways |->
             IF IsEntry(cache[s][w])
               THEN IF cache[s][w].lock = c THEN [cache[s][w] EXCEPT !.lock = "none"]
                                            ELSE cache[s][w]
               ELSE Null]]
    BY <1>9 DEF ClearLockedAll, ForEach
  <2>2. ASSUME NEW s \in Sets, NEW w \in Ways, IsEntry(cache[s][w])
        PROVE  /\ cache'[s][w] \in Entries
               /\ cache'[s][w].line = cache[s][w].line
               /\ cache'[s][w].set = cache[s][w].set
               /\ cache'[s][w].way = cache[s][w].way
    <3>1. cache[s][w] \in Entries
      BY <1>8, <2>2
    <3>2. CASE cache[s][w].lock = c
      <4>1. cache'[s][w] = [cache[s][w] EXCEPT !.lock = "none"]
        BY <2>1, <2>2, <3>2
      <4> QED
        BY <3>1, <4>1 DEF Entries
    <3>3. CASE cache[s][w].lock # c
      <4>1. cache'[s][w] = cache[s][w]
        BY <2>1, <2>2, <3>3
      <4> QED
        BY <3>1, <4>1
    <3> QED
      BY <3>2, <3>3
  <2>3. ASSUME NEW s \in Sets, NEW w \in Ways, ~IsEntry(cache[s][w])
        PROVE  cache'[s][w] = Null
    BY <2>1, <2>3
  <2>4. cache' \in [Sets -> [Ways -> Entries \cup {Null}]]
    BY <2>1, <2>2, <2>3
  <2> QED
    BY <2>1, <2>2, <2>3, <2>4, ForEachSafe
<1>10. ASSUME HtmCommitTransaction PROVE IInv'
  <2>1. /\ UNCHANGED tagIndex
        /\ cache' = [s \in Sets |-> [w \in Ways |->
             IF IsEntry(cache[s][w])
               THEN [cache[s][w] EXCEPT !.marks = {}, !.lock = "none"] ELSE Null]]
    BY <1>10 DEF HtmCommitTransaction, ForEach
  <2>2. ASSUME NEW s \in Sets, NEW w \in Ways, IsEntry(cache[s][w])
        PROVE  /\ cache'[s][w] \in Entries
               /\ cache'[s][w].line = cache[s][w].line
               /\ cache'[s][w].set = cache[s][w].set
               /\ cache'[s][w].way = cache[s][w].way
    BY <1>8, <2>1, <2>2 DEF Entries
  <2>3. ASSUME NEW s \in Sets, NEW w \in Ways, ~IsEntry(cache[s][w])
        PROVE  cache'[s][w] = Null
    BY <2>1, <2>3
  <2>4. cache' \in [Sets -> [Ways -> Entries \cup {Null}]]
    BY <2>1, <2>2, <2>3
  <2> QED
    BY <2>1, <2>2, <2>3, <2>4, ForEachSafe
<1>11. ASSUME HtmAbortTransaction PROVE IInv'
  <2>1. /\ UNCHANGED tagIndex
        /\ cache' = [s \in Sets |-> [w \in Ways |->
             IF IsEntry(cache[s][w])
               THEN [cache[s][w] EXCEPT
                       !.perm = IF "written" \in cache[s][w].marks THEN "Invalid" ELSE @,
                       !.marks = {}, !.lock = "none"]
               ELSE Null]]
    BY <1>11 DEF HtmAbortTransaction, ForEach
  <2>2. ASSUME NEW s \in Sets, NEW w \in Ways, IsEntry(cache[s][w])
        PROVE  /\ cache'[s][w] \in Entries
               /\ cache'[s][w].line = cache[s][w].line
               /\ cache'[s][w].set = cache[s][w].set
               /\ cache'[s][w].way = cache[s][w].way
    <3>1. cache[s][w] \in Entries
      BY <1>8, <2>2
    <3> DEFINE p == IF "written" \in cache[s][w].marks THEN "Invalid" ELSE cache[s][w].perm
    <3>2. p \in Perms
      BY <3>1, CacheAssumption DEF Entries
    <3>3. cache'[s][w] = [cache[s][w] EXCEPT !.perm = p, !.marks = {}, !.lock = "none"]
      BY <2>1, <2>2, <3>1 DEF Entries
    <3> HIDE DEF p
    <3> QED
      BY <3>1, <3>2, <3>3 DEF Entries
  <2>3. ASSUME NEW s \in Sets, NEW w \in Ways, ~IsEntry(cache[s][w])
        PROVE  cache'[s][w] = Null
    BY <2>1, <2>3
  <2>4. cache' \in [Sets -> [Ways -> Entries \cup {Null}]]
    BY <2>1, <2>2, <2>3
  <2> QED
    BY <2>1, <2>2, <2>3, <2>4, ForEachSafe
<1>12. CASE UNCHANGED vars
  BY <1>12 DEF vars, IInv, EntriesInWays, TagIndexExact, AddressToCacheSet, IsEntry
<1> QED
  BY <1>1, <1>2, <1>3, <1>4, <1>5, <1>6, <1>7, <1>9, <1>10, <1>11, <1>12 DEF Next

\* In every reachable state the tag index, the array and the positions kept in
\* the entries agree: a lookup never follows a null entry and deallocate frees
\* the line it was asked to free.
THEOREM IndexExact == Spec => []TagIndexExact
<1>1. IInv => TagIndexExact
  BY DEF IInv
<1> QED
  BY <1>1, InitIInv, NextIInv, PTL DEF Spec

\* In every reachable state each way holds one entry or none and each tag a way.
THEOREM EntriesTyped == Spec => []EntriesInWays
<1>1. IInv => EntriesInWays
  BY DEF IInv
<1> QED
  BY <1>1, InitIInv, NextIInv, PTL DEF Spec

-----------------------------------------------------------------------------
(* Checkpoints.                                                            *)

\* What the walk of the array records: the readable lines, each where it is.
Recorded(r) ==
  /\ r[1] \in Sets /\ r[2] \in Ways /\ r[3] = cache[r[1]][r[2]]
  /\ IsEntry(r[3]) /\ HasPermission(r[3].perm, TRUE)

\* A line is recorded where it is and nowhere else.
LEMMA RecordedEntries ==
  ASSUME IInv, NEW r \in RecordCacheContents
  PROVE  /\ Recorded(r) /\ r = <<r[1], r[2], r[3]>> /\ r[3].line \in DOMAIN tagIndex
         /\ r[1] = AddressToCacheSet(r[3].line) /\ r[2] = tagIndex[r[3].line]
         /\ Lookup(r[3].line) = r[3]
<1>1. PICK s \in Sets, w \in Ways : r = <<s, w, cache[s][w]>>
  BY DEF RecordCacheContents
<1>2. IsEntry(r[3]) /\ RequestType(r[3].perm) # "NULL"
  BY DEF RecordCacheContents
<1>3. HasPermission(r[3].perm, TRUE)
  BY <1>2 DEF RequestType, HasPermission
<1>4. /\ r[3].line \in DOMAIN tagIndex
      /\ AddressToCacheSet(r[3].line) = s /\ tagIndex[r[3].line] = w
  BY <1>1, <1>2 DEF IInv, TagIndexExact
<1> QED
  BY <1>1, <1>2, <1>3, <1>4 DEF Recorded, Lookup, FindTagInSet

\* A readable line that is present is recorded.
LEMMA ReadableRecorded ==
  ASSUME IInv, NEW a \in DOMAIN tagIndex, HasPermission(Lookup(a).perm, TRUE)
  PROVE  \E r \in RecordCacheContents : r[3].line = a
<1>1. a \in Lines /\ tagIndex[a] \in Ways
  BY DEF IInv, EntriesInWays
<1>2. FindTagInSet(a) = tagIndex[a] /\ AddressToCacheSet(a) \in Sets
  BY <1>1, SetInRange DEF FindTagInSet
<1> DEFINE r == <<AddressToCacheSet(a), tagIndex[a], cache[AddressToCacheSet(a)][tagIndex[a]]>>
<1>3. r[3] = Lookup(a) /\ IsEntry(r[3]) /\ r[3].line = a
  BY <1>2 DEF Lookup, IInv, TagIndexExact
<1>4. RequestType(r[3].perm) # "NULL"
  BY <1>3 DEF RequestType, HasPermission
<1>5. r \in RecordCacheContents
  BY <1>1, <1>2, <1>3, <1>4 DEF RecordCacheContents
<1> QED
  BY <1>3, <1>5

\* The position getAddressAtIdx takes for a way of a set is the way's.
LEMMA PositionOfWay ==
  ASSUME NEW s \in Sets, NEW w \in Ways
  PROVE  (s * Assoc + w) \div Assoc = s /\ (s * Assoc + w) - s * Assoc = w
<1>1. Assoc \in Nat /\ Assoc > 0 /\ s \in Nat /\ w \in Nat /\ w < Assoc
  BY CacheAssumption DEF Sets, Ways
<1>2. s * Assoc \in Nat
  BY <1>1
<1> DEFINE q == (s * Assoc + w) \div Assoc
<1>3. q \in Nat /\ q * Assoc <= s * Assoc + w /\ s * Assoc + w < q * Assoc + Assoc
  BY <1>1, <1>2
<1> HIDE DEF q
<1>4. ~(q > s)
  <2>1. SUFFICES ASSUME q >= s + 1 PROVE FALSE
    BY <1>1, <1>3
  <2>2. q * Assoc >= (s + 1) * Assoc
    BY <1>1, <1>3, <2>1
  <2>3. (s + 1) * Assoc = s * Assoc + Assoc
    BY <1>1
  <2> QED
    BY <1>1, <1>2, <1>3, <2>2, <2>3
<1>5. ~(q < s)
  <2>1. SUFFICES ASSUME q + 1 <= s PROVE FALSE
    BY <1>1, <1>3
  <2>2. (q + 1) * Assoc <= s * Assoc
    BY <1>1, <1>3, <2>1
  <2>3. (q + 1) * Assoc = q * Assoc + Assoc
    BY <1>1, <1>3
  <2> QED
    BY <1>1, <1>2, <1>3, <2>2, <2>3
<1>6. q = s
  BY <1>1, <1>3, <1>4, <1>5
<1> QED
  BY <1>1, <1>2, <1>6 DEF q

\* A checkpoint has exactly the lines that can be found and read, each once and at
\* the position getAddressAtIdx will look at.
THEOREM CheckpointsWhole == Spec => []CheckpointComplete
<1>1. IInv => CheckpointComplete
  <2> SUFFICES ASSUME IInv
               PROVE  CheckpointComplete
    OBVIOUS
  <2>1. {r[3].line : r \in RecordCacheContents} =
          {a \in DOMAIN tagIndex : HasPermission(Lookup(a).perm, TRUE)}
    <3>1. ASSUME NEW r \in RecordCacheContents
          PROVE  r[3].line \in DOMAIN tagIndex /\ HasPermission(Lookup(r[3].line).perm, TRUE)
      BY RecordedEntries DEF Recorded
    <3>2. ASSUME NEW a \in DOMAIN tagIndex, HasPermission(Lookup(a).perm, TRUE)
          PROVE  \E r \in RecordCacheContents : r[3].line = a
      BY <3>2, ReadableRecorded
    <3> QED
      BY <3>1, <3>2
  <2>2. ASSUME NEW r \in RecordCacheContents, NEW q \in RecordCacheContents,
               r[3].line = q[3].line
        PROVE  r = q
    <3>1. /\ r = <<r[1], r[2], r[3]>> /\ q = <<q[1], q[2], q[3]>>
          /\ r[1] = q[1] /\ r[2] = q[2] /\ r[3] = q[3]
      BY <2>2, RecordedEntries
    <3> QED
      BY <3>1
  <2>3. ASSUME NEW r \in RecordCacheContents
        PROVE  GetAddressAtIdx(r[1] * Assoc + r[2]) = r[3].line
    <3>1. Recorded(r)
      BY RecordedEntries
    <3>2. /\ (r[1] * Assoc + r[2]) \div Assoc = r[1]
          /\ (r[1] * Assoc + r[2]) - r[1] * Assoc = r[2]
      BY <3>1, PositionOfWay DEF Recorded
    <3>3. r[3].perm # "Invalid"
      BY <3>1 DEF Recorded, HasPermission
    <3> QED
      BY <3>1, <3>2, <3>3 DEF GetAddressAtIdx, Recorded
  <2> QED
    BY <2>1, <2>2, <2>3 DEF CheckpointComplete
<1> QED
  BY <1>1, InitIInv, NextIInv, PTL DEF Spec

-----------------------------------------------------------------------------
(* The array is a LineStore.                                               *)

\* What the refinement makes of the array: the fields of the lines it holds, and
\* which of two lines of a set was used first.
Held == [a \in DOMAIN tagIndex |-> Field(a)]
Before == {p \in (DOMAIN tagIndex) \X (DOMAIN tagIndex) : Older(p[1], p[2])}

\* Replacement data exist for every set.
OrderInv == older \in [Sets -> SUBSET (Ways \X Ways)]

\* Two sets of pairs with the same pairs are the same.
LEMMA SamePairs ==
  ASSUME NEW S, NEW T, NEW A, S \subseteq A \X A, T \subseteq A \X A,
         \A a, b \in A : <<a, b>> \in S <=> <<a, b>> \in T
  PROVE  S = T
<1>1. ASSUME NEW p \in A \X A PROVE p \in S <=> p \in T
  <2>1. p = <<p[1], p[2]>> /\ p[1] \in A /\ p[2] \in A
    OBVIOUS
  <2> QED
    BY <2>1
<1> QED
  BY <1>1

\* Which pairs of lines are in order.
LEMMA BeforePairs ==
  \A a, b : <<a, b>> \in Before <=> a \in DOMAIN tagIndex /\ b \in DOMAIN tagIndex /\ Older(a, b)
BY DEF Before

\* A line that is present is in its set, at the way of its tag.
LEMMA PresentLine ==
  ASSUME IInv, NEW a \in DOMAIN tagIndex
  PROVE  /\ a \in Lines /\ tagIndex[a] \in Ways /\ AddressToCacheSet(a) \in Sets
         /\ IsTagPresent(a)
         /\ Lookup(a) = cache[AddressToCacheSet(a)][tagIndex[a]]
         /\ Lookup(a) \in Entries /\ Lookup(a).line = a
         /\ Lookup(a).set = AddressToCacheSet(a) /\ Lookup(a).way = tagIndex[a]
<1>1. a \in Lines /\ tagIndex[a] \in Ways
  BY DEF IInv, EntriesInWays
<1>2. tagIndex[a] # Assoc
  BY <1>1, CacheAssumption DEF Ways
<1>3. IsTagPresent(a)
  BY <1>2 DEF IsTagPresent, FindTagInSet
<1> QED
  BY <1>1, <1>3, LookupFinds

\* Two lines of a set are at two ways.
LEMMA OneLinePerWay ==
  ASSUME IInv, NEW a \in DOMAIN tagIndex, NEW b \in DOMAIN tagIndex,
         AddressToCacheSet(a) = AddressToCacheSet(b), tagIndex[a] = tagIndex[b]
  PROVE  a = b
BY DEF IInv, TagIndexExact

\* An empty cache is an empty store.
LEMMA InitStore == Init => Store!Init
<1> SUFFICES ASSUME Init
             PROVE  Store!Init
  OBVIOUS
<1>1. tagIndex = <<>> /\ DOMAIN tagIndex = {}
  BY DEF Init
<1>2. Held = <<>> /\ Before = {}
  BY <1>1 DEF Held, Before
<1> QED
  BY <1>2 DEF Store!Init, Held, Before

\* What a touch makes of the order of the ways.
LEMMA TouchedOrder ==
  ASSUME OrderInv, NEW s \in Sets, NEW w \in Ways, Touch(s, w)
  PROVE  /\ OrderInv'
         /\ \A t \in Sets, v, x \in Ways :
              <<v, x>> \in older'[t] <=>
                IF t = s THEN v # w /\ (x = w \/ <<v, x>> \in older[s])
                         ELSE <<v, x>> \in older[t]
<1>1. older' = [older EXCEPT ![s] = Others(s, w) \cup (Rest(w) \X {w})]
  BY DEF Touch
<1>2. Others(s, w) \cup (Rest(w) \X {w}) \in SUBSET (Ways \X Ways)
  BY DEF Others, Rest, OrderInv
<1>3. OrderInv'
  BY <1>1, <1>2 DEF OrderInv
<1>4. \A v, x : <<v, x>> \in Others(s, w) <=> <<v, x>> \in older[s] /\ v # w /\ x # w
  BY DEF Others
<1>5. \A v \in Ways : \A x : <<v, x>> \in Rest(w) \X {w} <=> v # w /\ x = w
  BY DEF Rest
<1>6. /\ older'[s] = Others(s, w) \cup (Rest(w) \X {w})
      /\ \A t \in Sets : t # s => older'[t] = older[t]
  BY <1>1 DEF OrderInv
<1> QED
  BY <1>3, <1>4, <1>5, <1>6

\* What an invalidation makes of it.
LEMMA InvalidatedOrder ==
  ASSUME OrderInv, NEW s \in Sets, NEW w \in Ways, Invalidate(s, w)
  PROVE  /\ OrderInv'
         /\ \A t \in Sets, v, x \in Ways :
              (t = s /\ (v = w \/ x = w)) \/ (<<v, x>> \in older'[t] <=> <<v, x>> \in older[t])
<1>1. older' = [older EXCEPT ![s] = Others(s, w) \cup ({w} \X Rest(w))]
  BY DEF Invalidate
<1>2. Others(s, w) \cup ({w} \X Rest(w)) \in SUBSET (Ways \X Ways)
  BY DEF Others, Rest, OrderInv
<1>3. OrderInv'
  BY <1>1, <1>2 DEF OrderInv
<1>4. \A v, x : <<v, x>> \in Others(s, w) <=> <<v, x>> \in older[s] /\ v # w /\ x # w
  BY DEF Others
<1>5. \A v, x : <<v, x>> \in {w} \X Rest(w) => v = w
  BY DEF Rest
<1>6. /\ older'[s] = Others(s, w) \cup ({w} \X Rest(w))
      /\ \A t \in Sets : t # s => older'[t] = older[t]
  BY <1>1 DEF OrderInv
<1> QED
  BY <1>3, <1>4, <1>5, <1>6

\* A hit is a use of the line.
LEMMA SetMRUStore ==
  ASSUME IInv, OrderInv, NEW a \in Lines, SetMRU(a)
  PROVE  OrderInv' /\ Store!Use(a)
<1> DEFINE s == AddressToCacheSet(a)
           w == tagIndex[a]
           D == DOMAIN tagIndex
<1>1. /\ a \in D /\ s \in Sets /\ w \in Ways
      /\ Lookup(a).set = s /\ Lookup(a).way = w
  BY LookupFinds DEF SetMRU
<1>2. Touch(s, w) /\ tagIndex' = tagIndex /\ cache' = cache
  BY <1>1 DEF SetMRU
<1>3. /\ OrderInv'
      /\ \A t \in Sets, v, x \in Ways :
           <<v, x>> \in older'[t] <=>
             IF t = s THEN v # w /\ (x = w \/ <<v, x>> \in older[s])
                      ELSE <<v, x>> \in older[t]
  BY <1>1, <1>2, TouchedOrder
<1>4. Held' = Held
  BY <1>2 DEF Held, Field, Lookup, FindTagInSet, AddressToCacheSet
<1> DEFINE beside == {b \in D : AddressToCacheSet(b) = s} \ {a}
           kept == {p \in Before : a \notin {p[1], p[2]}}
<1>5. Before' = kept \cup (beside \X {a})
  <2>1. kept \cup (beside \X {a}) \subseteq D \X D
    BY <1>1 DEF Before
  <2>2. Before' \subseteq D \X D
    BY <1>2 DEF Before
  <2>3. ASSUME NEW b \in D, NEW c \in D
        PROVE  <<b, c>> \in Before' <=> <<b, c>> \in kept \cup (beside \X {a})
    <3>1. /\ tagIndex[b] \in Ways /\ tagIndex[c] \in Ways
          /\ AddressToCacheSet(b) \in Sets /\ AddressToCacheSet(c) \in Sets
      BY PresentLine
    <3>2. /\ AddressToCacheSet(b) = s /\ tagIndex[b] = w => b = a
          /\ AddressToCacheSet(c) = s /\ tagIndex[c] = w => c = a
      BY <1>1, OneLinePerWay
    <3>3. <<b, c>> \in Before' <=>
            /\ AddressToCacheSet(b) = AddressToCacheSet(c)
            /\ <<tagIndex[b], tagIndex[c]>> \in older'[AddressToCacheSet(b)]
      BY <1>2 DEF Before, Older, AddressToCacheSet
    <3>4. <<b, c>> \in Before <=>
            /\ AddressToCacheSet(b) = AddressToCacheSet(c)
            /\ <<tagIndex[b], tagIndex[c]>> \in older[AddressToCacheSet(b)]
      BY DEF Before, Older
    <3>5. <<b, c>> \in kept <=> <<b, c>> \in Before /\ b # a /\ c # a
      OBVIOUS
    <3>6. <<b, c>> \in beside \X {a} <=> AddressToCacheSet(b) = s /\ b # a /\ c = a
      OBVIOUS
    <3> HIDE DEF kept, beside
    <3>7. CASE AddressToCacheSet(b) # AddressToCacheSet(c)
      BY <3>3, <3>4, <3>5, <3>6, <3>7
    <3>8. CASE AddressToCacheSet(b) = AddressToCacheSet(c) /\ AddressToCacheSet(b) # s
      BY <1>3, <3>1, <3>3, <3>4, <3>5, <3>6, <3>8
    <3>9. CASE AddressToCacheSet(b) = AddressToCacheSet(c) /\ AddressToCacheSet(b) = s
      BY <1>3, <3>1, <3>2, <3>3, <3>4, <3>5, <3>6, <3>9
    <3> QED
      BY <3>7, <3>8, <3>9
  <2> HIDE DEF kept, beside
  <2> QED
    BY <2>1, <2>2, <2>3, SamePairs
<1>6. DOMAIN Held = D
  BY DEF Held
<1> QED
  BY <1>1, <1>3, <1>4, <1>5, <1>6
  DEF Store!Use, Store!Present, Store!Without, Store!Beside, Held, Before

\* A set in which allocate finds room has fewer lines than ways.
LEMMA RoomInSet ==
  ASSUME IInv, NEW a \in Lines, ~IsTagPresent(a), CacheAvail(a)
  PROVE  Cardinality({b \in DOMAIN tagIndex :
                        AddressToCacheSet(b) = AddressToCacheSet(a)} \ {a}) < Assoc
<1> DEFINE s == AddressToCacheSet(a)
           B == {b \in DOMAIN tagIndex : AddressToCacheSet(b) = s} \ {a}
<1>1. s \in Sets
  BY SetInRange
<1>2. PICK w \in Ways : IsEntry(cache[s][w]) => cache[s][w].line = a
  BY DEF CacheAvail
<1>3. ~IsEntry(cache[s][w])
  <2>1. SUFFICES ASSUME cache[s][w].line = a, IsEntry(cache[s][w])
                 PROVE  FALSE
    BY <1>2
  <2>2. a \in DOMAIN tagIndex
    BY <1>1, <2>1 DEF IInv, TagIndexExact
  <2> QED
    BY <2>2, PresentLine
<1>4. \A b \in B : tagIndex[b] \in Ways \ {w}
  <2> SUFFICES ASSUME NEW b \in B
               PROVE  tagIndex[b] \in Ways \ {w}
    OBVIOUS
  <2>1. tagIndex[b] \in Ways
    BY PresentLine
  <2>2. IsEntry(cache[s][tagIndex[b]])
    BY DEF IInv, TagIndexExact
  <2> QED
    BY <1>3, <2>1, <2>2
<1>5. \A b, c \in B : tagIndex[b] = tagIndex[c] => b = c
  BY OneLinePerWay
<1>6. IsFiniteSet(Ways \ {w}) /\ Cardinality(Ways \ {w}) = Assoc - 1
  <2>1. Assoc \in Nat /\ Assoc > 0 /\ 0 \in Int /\ Assoc - 1 \in Int
    BY CacheAssumption
  <2>2. IsFiniteSet(0 .. Assoc - 1) /\ Cardinality(0 .. Assoc - 1) = Assoc
    BY <2>1, FS_Interval
  <2> QED
    BY <2>2, FS_RemoveElement DEF Ways
<1> HIDE DEF B
<1>7. [b \in B |-> tagIndex[b]] \in Injection(B, Ways \ {w})
  BY <1>4, <1>5, Fun_IsInj
<1>8. IsFiniteSet(B) /\ Cardinality(B) <= Assoc - 1
  BY <1>6, <1>7, FS_Injection
<1>9. Cardinality(B) \in Nat
  BY <1>8, FS_CardinalityType
<1> QED
  BY <1>8, <1>9, CacheAssumption DEF B

\* allocate inserts the line, as the youngest of its set.
LEMMA AllocateStore ==
  ASSUME IInv, OrderInv, NEW a \in Lines, Allocate(a)
  PROVE  OrderInv' /\ Store!Insert(a)
<1> DEFINE s == AddressToCacheSet(a)
           D == DOMAIN tagIndex
<1>1. ~IsTagPresent(a) /\ CacheAvail(a) /\ s \in Sets
  BY SetInRange DEF Allocate
<1>2. PICK w \in Ways :
        /\ ~IsEntry(cache[s][w])
        /\ cache' = [cache EXCEPT ![s][w] =
                       [line |-> a, set |-> s, way |-> w, perm |-> "Invalid",
                        lock |-> "none", marks |-> {}]]
        /\ tagIndex' = [b \in DOMAIN tagIndex \cup {a} |->
                          IF b = a THEN w ELSE tagIndex[b]]
        /\ Touch(s, w)
  BY DEF Allocate
<1>3. a \notin D
  BY <1>1, PresentLine
<1>4. /\ DOMAIN tagIndex' = D \cup {a} /\ tagIndex'[a] = w
      /\ \A b \in D : tagIndex'[b] = tagIndex[b]
  BY <1>2, <1>3
<1>5. /\ OrderInv'
      /\ \A t \in Sets, v, x \in Ways :
           <<v, x>> \in older'[t] <=>
             IF t = s THEN v # w /\ (x = w \/ <<v, x>> \in older[s])
                      ELSE <<v, x>> \in older[t]
  BY <1>1, <1>2, TouchedOrder
<1>6. \A b \in D : /\ tagIndex[b] \in Ways /\ AddressToCacheSet(b) \in Sets
                   /\ ~(AddressToCacheSet(b) = s /\ tagIndex[b] = w)
  <2> SUFFICES ASSUME NEW b \in D
               PROVE  /\ tagIndex[b] \in Ways /\ AddressToCacheSet(b) \in Sets
                      /\ ~(AddressToCacheSet(b) = s /\ tagIndex[b] = w)
    OBVIOUS
  <2>1. IsEntry(cache[AddressToCacheSet(b)][tagIndex[b]])
    BY DEF IInv, TagIndexExact
  <2> QED
    BY <1>2, <2>1, PresentLine
<1>7. /\ Field(a)' = [perm |-> "Invalid", lock |-> "none", marks |-> {}]
      /\ \A b \in D : Field(b)' = Field(b)
  <2> DEFINE e == [line |-> a, set |-> s, way |-> w, perm |-> "Invalid",
                   lock |-> "none", marks |-> {}]
  <2>1. cache \in [Sets -> [Ways -> Entries \cup {Null}]]
    BY DEF IInv, EntriesInWays
  <2>2. \A t \in Sets, v \in Ways :
          cache'[t][v] = IF t = s /\ v = w THEN e ELSE cache[t][v]
    BY <1>1, <1>2, <2>1
  <2>3. Lookup(a)' = e
    BY <1>1, <1>4, <2>2 DEF Lookup, FindTagInSet, AddressToCacheSet
  <2>4. ASSUME NEW b \in D PROVE Lookup(b)' = Lookup(b)
    <3>1. /\ FindTagInSet(b)' = tagIndex[b] /\ FindTagInSet(b) = tagIndex[b]
          /\ AddressToCacheSet(b)' = AddressToCacheSet(b)
      BY <1>4 DEF FindTagInSet, AddressToCacheSet
    <3> QED
      BY <1>6, <2>2, <3>1 DEF Lookup
  <2> QED
    BY <2>3, <2>4 DEF Field
<1>8. Held' = [b \in D \cup {a} |->
                 IF b = a THEN [perm |-> "Invalid", lock |-> "none", marks |-> {}]
                          ELSE Held[b]]
  BY <1>3, <1>4, <1>7 DEF Held
<1> DEFINE beside == {b \in D : AddressToCacheSet(b) = s} \ {a}
<1>9. Before' = Before \cup (beside \X {a})
  <2> DEFINE E == D \cup {a}
  <2>1. Before \cup (beside \X {a}) \subseteq E \X E
    BY DEF Before
  <2>2. Before' \subseteq E \X E
    BY <1>4 DEF Before
  <2>3. ASSUME NEW b \in E, NEW c \in E
        PROVE  <<b, c>> \in Before' <=> <<b, c>> \in Before \cup (beside \X {a})
    <3>1. <<b, c>> \in Before' <=>
            /\ AddressToCacheSet(b) = AddressToCacheSet(c)
            /\ <<tagIndex'[b], tagIndex'[c]>> \in older'[AddressToCacheSet(b)]
      BY <1>4 DEF Before, Older, AddressToCacheSet
    <3>2. <<b, c>> \in Before <=>
            /\ b \in D /\ c \in D /\ AddressToCacheSet(b) = AddressToCacheSet(c)
            /\ <<tagIndex[b], tagIndex[c]>> \in older[AddressToCacheSet(b)]
      BY DEF Before, Older
    <3>3. <<b, c>> \in beside \X {a} <=> b \in D /\ AddressToCacheSet(b) = s /\ c = a
      BY <1>3
    <3> HIDE DEF beside
    <3>4. CASE b = a
      <4>1. tagIndex'[b] = w /\ AddressToCacheSet(b) = s
        BY <1>4, <3>4
      <4>2. tagIndex'[c] \in Ways
        BY <1>4, <1>6
      <4>3. <<tagIndex'[b], tagIndex'[c]>> \notin older'[s]
        BY <1>1, <1>5, <4>1, <4>2
      <4> QED
        BY <1>3, <3>1, <3>2, <3>3, <3>4, <4>1, <4>3
    <3>5. CASE b \in D /\ c = a
      <4>1. tagIndex'[b] = tagIndex[b] /\ tagIndex'[c] = w /\ AddressToCacheSet(c) = s
        BY <1>4, <3>5
      <4> QED
        BY <1>1, <1>3, <1>5, <1>6, <3>1, <3>2, <3>3, <3>5, <4>1
    <3>6. CASE b \in D /\ c \in D
      <4>1. tagIndex'[b] = tagIndex[b] /\ tagIndex'[c] = tagIndex[c] /\ c # a
        BY <1>3, <1>4, <3>6
      <4> QED
        BY <1>5, <1>6, <3>1, <3>2, <3>3, <3>6, <4>1
    <3> QED
      BY <3>4, <3>5, <3>6
  <2> HIDE DEF beside, E
  <2> QED
    BY <2>1, <2>2, <2>3, SamePairs
<1>10. DOMAIN Held = D
  BY DEF Held
<1>11. Cardinality(beside) < Assoc
  BY <1>1, RoomInSet
<1>12. Store!Beside(a) = beside
  BY <1>10 DEF Store!Beside, Held
<1>13. Store!Cardinality(beside) = Cardinality(beside)
  BY DEF Store!Cardinality, Cardinality
<1>14. ~Store!Present(a) /\ Store!Room(a)
  BY <1>3, <1>10, <1>11, <1>12, <1>13 DEF Store!Present, Store!Room, Held
<1> HIDE DEF beside
<1> QED
  BY <1>5, <1>8, <1>9, <1>10, <1>12, <1>14 DEF Store!Insert, Store!Unlocked, Held, Before

\* deallocate removes the line.
LEMMA DeallocateStore ==
  ASSUME IInv, OrderInv, NEW a \in Lines, Deallocate(a)
  PROVE  OrderInv' /\ Store!Remove(a)
<1> DEFINE s == AddressToCacheSet(a)
           w == tagIndex[a]
           D == DOMAIN tagIndex
<1>1. /\ a \in D /\ s \in Sets /\ w \in Ways
      /\ Lookup(a).set = s /\ Lookup(a).way = w
  BY LookupFinds DEF Deallocate
<1>2. /\ Invalidate(s, w) /\ cache' = [cache EXCEPT ![s][w] = Null]
      /\ tagIndex' = [b \in D \ {a} |-> tagIndex[b]]
  BY <1>1 DEF Deallocate
<1>3. /\ OrderInv'
      /\ \A t \in Sets, v, x \in Ways :
           (t = s /\ (v = w \/ x = w)) \/ (<<v, x>> \in older'[t] <=> <<v, x>> \in older[t])
  BY <1>1, <1>2, InvalidatedOrder
<1>4. /\ DOMAIN tagIndex' = D \ {a}
      /\ \A b \in D \ {a} : tagIndex'[b] = tagIndex[b]
  BY <1>2
<1>5. \A b \in D \ {a} : /\ tagIndex[b] \in Ways /\ AddressToCacheSet(b) \in Sets
                         /\ ~(AddressToCacheSet(b) = s /\ tagIndex[b] = w)
  BY <1>1, PresentLine, OneLinePerWay
<1>6. \A b \in D \ {a} : Field(b)' = Field(b)
  <2>1. cache \in [Sets -> [Ways -> Entries \cup {Null}]]
    BY DEF IInv, EntriesInWays
  <2>2. \A t \in Sets, v \in Ways :
          cache'[t][v] = IF t = s /\ v = w THEN Null ELSE cache[t][v]
    BY <1>1, <1>2, <2>1
  <2>3. ASSUME NEW b \in D \ {a} PROVE Lookup(b)' = Lookup(b)
    <3>1. /\ FindTagInSet(b)' = tagIndex[b] /\ FindTagInSet(b) = tagIndex[b]
          /\ AddressToCacheSet(b)' = AddressToCacheSet(b)
      BY <1>4 DEF FindTagInSet, AddressToCacheSet
    <3> QED
      BY <1>5, <2>2, <3>1 DEF Lookup
  <2> QED
    BY <2>3 DEF Field
<1>7. Held' = [b \in D \ {a} |-> Held[b]]
  BY <1>4, <1>6 DEF Held
<1> DEFINE kept == {p \in Before : a \notin {p[1], p[2]}}
<1>8. Before' = kept
  <2>1. kept \subseteq D \X D
    BY DEF Before
  <2>2. Before' \subseteq D \X D
    BY <1>4 DEF Before
  <2>3. ASSUME NEW b \in D, NEW c \in D
        PROVE  <<b, c>> \in Before' <=> <<b, c>> \in kept
    <3>1. <<b, c>> \in Before' <=>
            /\ b # a /\ c # a /\ AddressToCacheSet(b) = AddressToCacheSet(c)
            /\ <<tagIndex'[b], tagIndex'[c]>> \in older'[AddressToCacheSet(b)]
      BY <1>4 DEF Before, Older, AddressToCacheSet
    <3>2. <<b, c>> \in kept <=>
            /\ b # a /\ c # a /\ AddressToCacheSet(b) = AddressToCacheSet(c)
            /\ <<tagIndex[b], tagIndex[c]>> \in older[AddressToCacheSet(b)]
      BY DEF Before, Older
    <3>3. CASE b # a /\ c # a /\ AddressToCacheSet(b) = AddressToCacheSet(c)
      <4>1. tagIndex'[b] = tagIndex[b] /\ tagIndex'[c] = tagIndex[c]
        BY <1>4, <3>3
      <4>2. <<tagIndex[b], tagIndex[c]>> \in older'[AddressToCacheSet(b)] <=>
              <<tagIndex[b], tagIndex[c]>> \in older[AddressToCacheSet(b)]
        BY <1>3, <1>5, <3>3
      <4> QED
        BY <3>1, <3>2, <4>1, <4>2
    <3> QED
      BY <3>1, <3>2, <3>3
  <2>4. \A b, c \in D : <<b, c>> \in Before' <=> <<b, c>> \in kept
    BY <2>3
  <2> HIDE DEF kept, D
  <2> QED
    BY <2>1, <2>2, <2>4, SamePairs
<1>9. DOMAIN Held = D
  BY DEF Held
<1> QED
  BY <1>1, <1>3, <1>7, <1>8, <1>9 DEF Store!Remove, Store!Present, Store!Without, Held, Before

\* What stays when only fields of entries change.
LEMMA OrderStays ==
  ASSUME OrderInv, UNCHANGED <<tagIndex, older>>
  PROVE  /\ OrderInv' /\ Before' = Before /\ DOMAIN tagIndex' = DOMAIN tagIndex
         /\ \A b : Lookup(b)' = cache'[AddressToCacheSet(b)][FindTagInSet(b)]
BY DEF OrderInv, Before, Older, AddressToCacheSet, Lookup, FindTagInSet

\* A change of the fields of one entry.
LEMMA UpdateStore ==
  ASSUME IInv, OrderInv, NEW a \in Lines, NEW e, Update(a, e)
  PROVE  /\ OrderInv' /\ Before' = Before /\ a \in DOMAIN Held
         /\ Held' = [Held EXCEPT ![a] = [perm |-> e.perm, lock |-> e.lock, marks |-> e.marks]]
<1> DEFINE s == AddressToCacheSet(a)
           w == tagIndex[a]
           D == DOMAIN tagIndex
<1>1. /\ a \in D /\ s \in Sets /\ w \in Ways /\ FindTagInSet(a) = w
  BY LookupFinds DEF Update
<1>2. cache' = [cache EXCEPT ![s][w] = e] /\ UNCHANGED <<tagIndex, older>>
  BY <1>1 DEF Update
<1>3. cache \in [Sets -> [Ways -> Entries \cup {Null}]]
  BY DEF IInv, EntriesInWays
<1>4. \A t \in Sets, v \in Ways :
        cache'[t][v] = IF t = s /\ v = w THEN e ELSE cache[t][v]
  BY <1>1, <1>2, <1>3
<1>5. ASSUME NEW b \in D PROVE Lookup(b)' = IF b = a THEN e ELSE Lookup(b)
  <2>1. /\ FindTagInSet(b) = tagIndex[b]
        /\ Lookup(b)' = cache'[AddressToCacheSet(b)][tagIndex[b]]
    BY <1>2, OrderStays DEF FindTagInSet
  <2>2. tagIndex[b] \in Ways /\ AddressToCacheSet(b) \in Sets
    BY PresentLine
  <2>3. AddressToCacheSet(b) = s /\ tagIndex[b] = w => b = a
    BY <1>1, OneLinePerWay
  <2> QED
    BY <1>4, <2>1, <2>2, <2>3 DEF Lookup
<1>6. \A b \in D : Field(b)' = IF b = a THEN [perm |-> e.perm, lock |-> e.lock, marks |-> e.marks]
                                        ELSE Field(b)
  BY <1>5 DEF Field
<1> QED
  BY <1>1, <1>2, <1>6, OrderStays DEF Held

\* A permission, a lock or a mark is a change of the line.
LEMMA ChangeStore ==
  ASSUME IInv, OrderInv, NEW a \in Lines,
         \/ \E p \in Perms : ChangePermission(a, p)
         \/ ClearLocked(a)
         \/ \E c \in Contexts : SetLocked(a, c)
         \/ \E m \in {"read", "written"} : SetInHtm(a, m)
  PROVE  OrderInv' /\ Store!Change(a)
<1> DEFINE R == [perm : Perms, lock : Contexts \cup {"none"},
                 marks : SUBSET {"read", "written"}]
<1>1. IsTagPresent(a)
  BY DEF ChangePermission, ClearLocked, SetLocked, SetInHtm, Update
<1>2. /\ Lookup(a) \in Entries /\ a \in DOMAIN tagIndex
      /\ Held[a] = [perm |-> Lookup(a).perm, lock |-> Lookup(a).lock, marks |-> Lookup(a).marks]
  BY <1>1, LookupFinds DEF Held, Field
<1>3. CASE \E p \in Perms : ChangePermission(a, p)
  <2>1. PICK p \in Perms : ChangePermission(a, p)
    BY <1>3
  <2>2. /\ OrderInv' /\ Before' = Before /\ a \in DOMAIN Held
        /\ Held' = [Held EXCEPT ![a] = [perm |-> p, lock |-> Lookup(a).lock,
                                        marks |-> Lookup(a).marks]]
    BY <1>2, <2>1, UpdateStore DEF ChangePermission, Entries
  <2>3. Held' = [Held EXCEPT ![a].perm = p]
    <3>1. [Held[a] EXCEPT !.perm = p] =
           [perm |-> p, lock |-> Lookup(a).lock, marks |-> Lookup(a).marks]
      BY <1>2
    <3> QED
      BY <2>2, <3>1
  <2> QED
    BY <2>2, <2>3 DEF Store!Change, Store!Present, Store!Permit, Held, Before
<1>4. CASE ClearLocked(a)
  <2>1. /\ OrderInv' /\ Before' = Before /\ a \in DOMAIN Held
        /\ Held' = [Held EXCEPT ![a] = [perm |-> Lookup(a).perm, lock |-> "none",
                                        marks |-> Lookup(a).marks]]
    BY <1>2, <1>4, UpdateStore DEF ClearLocked, Entries
  <2>2. Held' = [Held EXCEPT ![a].lock = "none"]
    <3>1. [Held[a] EXCEPT !.lock = "none"] =
           [perm |-> Lookup(a).perm, lock |-> "none", marks |-> Lookup(a).marks]
      BY <1>2
    <3> QED
      BY <2>1, <3>1
  <2> QED
    BY <2>1, <2>2 DEF Store!Change, Store!Present, Store!Lock, Store!Unlocked, Held, Before
<1>5. CASE \E c \in Contexts : SetLocked(a, c)
  <2>1. PICK c \in Contexts : SetLocked(a, c)
    BY <1>5
  <2>2. /\ OrderInv' /\ Before' = Before /\ a \in DOMAIN Held
        /\ Held' = [Held EXCEPT ![a] = [perm |-> Lookup(a).perm, lock |-> c,
                                        marks |-> Lookup(a).marks]]
    BY <1>2, <2>1, UpdateStore DEF SetLocked, Entries
  <2>3. Held' = [Held EXCEPT ![a].lock = c]
    <3>1. [Held[a] EXCEPT !.lock = c] =
           [perm |-> Lookup(a).perm, lock |-> c, marks |-> Lookup(a).marks]
      BY <1>2
    <3> QED
      BY <2>2, <3>1
  <2> QED
    BY <2>2, <2>3 DEF Store!Change, Store!Present, Store!Lock, Held, Before
<1>6. CASE \E m \in {"read", "written"} : SetInHtm(a, m)
  <2>1. PICK m \in {"read", "written"} : SetInHtm(a, m)
    BY <1>6
  <2>2. /\ OrderInv' /\ Before' = Before /\ a \in DOMAIN Held
        /\ Held' = [Held EXCEPT ![a] = [perm |-> Lookup(a).perm, lock |-> Lookup(a).lock,
                                        marks |-> Lookup(a).marks \cup {m}]]
    BY <1>2, <2>1, UpdateStore DEF SetInHtm, Entries
  <2>3. Held' = [Held EXCEPT ![a].marks = Held[a].marks \cup {m}]
    <3>1. [Held[a] EXCEPT !.marks = Held[a].marks \cup {m}] =
           [perm |-> Lookup(a).perm, lock |-> Lookup(a).lock,
            marks |-> Lookup(a).marks \cup {m}]
      <4>1. Held[a].marks = Lookup(a).marks
        BY <1>2
      <4>2. Held[a] \in R /\ Lookup(a).marks \cup {m} \in SUBSET {"read", "written"}
        BY <1>2 DEF Entries
      <4>3. [Held[a] EXCEPT !.marks = Lookup(a).marks \cup {m}] =
              [perm |-> Held[a].perm, lock |-> Held[a].lock, marks |-> Lookup(a).marks \cup {m}]
        BY <4>2
      <4> QED
        BY <1>2, <4>1, <4>3
    <3> QED
      BY <2>2, <3>1
  <2> QED
    BY <2>2, <2>3 DEF Store!Change, Store!Present, Store!Mark, Held, Before
<1> QED
  BY <1>3, <1>4, <1>5, <1>6

\* An operation on all entries is one on all lines: every entry is that of a line.
LEMMA EachStore ==
  ASSUME IInv, OrderInv, UNCHANGED <<tagIndex, older>>, NEW b \in DOMAIN tagIndex
  PROVE  /\ Lookup(b)' = cache'[AddressToCacheSet(b)][tagIndex[b]]
         /\ Lookup(b) = cache[AddressToCacheSet(b)][tagIndex[b]]
         /\ IsEntry(cache[AddressToCacheSet(b)][tagIndex[b]])
         /\ Lookup(b) \in Entries /\ AddressToCacheSet(b) \in Sets /\ tagIndex[b] \in Ways
         /\ Held[b] = [perm |-> Lookup(b).perm, lock |-> Lookup(b).lock, marks |-> Lookup(b).marks]
<1>1. FindTagInSet(b) = tagIndex[b]
  BY DEF FindTagInSet
<1> QED
  BY <1>1, OrderStays, PresentLine, EntryNotNull DEF Held, Field

\* Giving up the locks of a context.
LEMMA UnlockStore ==
  ASSUME IInv, OrderInv, NEW c \in Contexts, ClearLockedAll(c)
  PROVE  OrderInv' /\ Store!Unlock(c)
<1>1. /\ UNCHANGED <<tagIndex, older>>
      /\ cache' = [s \in Sets |-> [w \in Ways |->
           IF IsEntry(cache[s][w])
             THEN IF cache[s][w].lock = c THEN [cache[s][w] EXCEPT !.lock = "none"]
                                          ELSE cache[s][w]
             ELSE Null]]
  BY DEF ClearLockedAll, ForEach
<1>2. ASSUME NEW b \in DOMAIN tagIndex
      PROVE  Field(b)' = IF Held[b].lock = c THEN [Held[b] EXCEPT !.lock = "none"] ELSE Held[b]
  <2>1. /\ Lookup(b) \in Entries
        /\ Held[b] = [perm |-> Lookup(b).perm, lock |-> Lookup(b).lock, marks |-> Lookup(b).marks]
    BY <1>1, EachStore
  <2>2. Lookup(b)' = IF Lookup(b).lock = c THEN [Lookup(b) EXCEPT !.lock = "none"] ELSE Lookup(b)
    BY <1>1, EachStore
  <2>3. CASE Lookup(b).lock = c
    <3>1. Lookup(b)' = [Lookup(b) EXCEPT !.lock = "none"]
      BY <2>2, <2>3
    <3> QED
      BY <2>1, <2>3, <3>1 DEF Field, Entries
  <2>4. CASE Lookup(b).lock # c
    <3>1. Lookup(b)' = Lookup(b)
      BY <2>2, <2>4
    <3> QED
      BY <2>1, <2>4, <3>1 DEF Field
  <2> QED
    BY <2>3, <2>4
<1>3. Held' = [b \in DOMAIN Held |->
                 IF Held[b].lock = c THEN [Held[b] EXCEPT !.lock = "none"] ELSE Held[b]]
  BY <1>1, <1>2 DEF Held
<1> QED
  BY <1>1, <1>3, OrderStays DEF Store!Unlock, Store!OnEach, Store!Unlocked, Held, Before

\* The end of a transaction.
LEMMA CommitStore ==
  ASSUME IInv, OrderInv, HtmCommitTransaction
  PROVE  OrderInv' /\ Store!Commit
<1>1. /\ UNCHANGED <<tagIndex, older>>
      /\ cache' = [s \in Sets |-> [w \in Ways |->
           IF IsEntry(cache[s][w])
             THEN [cache[s][w] EXCEPT !.marks = {}, !.lock = "none"] ELSE Null]]
  BY DEF HtmCommitTransaction, ForEach
<1>2. ASSUME NEW b \in DOMAIN tagIndex
      PROVE  Field(b)' = [perm |-> Held[b].perm, lock |-> "none", marks |-> {}]
  <2>1. /\ Lookup(b) \in Entries
        /\ Held[b] = [perm |-> Lookup(b).perm, lock |-> Lookup(b).lock, marks |-> Lookup(b).marks]
    BY <1>1, EachStore
  <2>2. Lookup(b)' = [Lookup(b) EXCEPT !.marks = {}, !.lock = "none"]
    BY <1>1, EachStore
  <2>3. Field(b)' = [perm |-> Lookup(b).perm, lock |-> "none", marks |-> {}]
    BY <2>1, <2>2 DEF Field, Entries
  <2> QED
    BY <2>1, <2>3
<1>3. Held' = [b \in DOMAIN Held |-> [perm |-> Held[b].perm, lock |-> "none", marks |-> {}]]
  BY <1>1, <1>2 DEF Held
<1> QED
  BY <1>1, <1>3, OrderStays DEF Store!Commit, Store!OnEach, Store!Unlocked, Held, Before

\* Its abort.
LEMMA AbortStore ==
  ASSUME IInv, OrderInv, HtmAbortTransaction
  PROVE  OrderInv' /\ Store!Abort
<1>1. /\ UNCHANGED <<tagIndex, older>>
      /\ cache' = [s \in Sets |-> [w \in Ways |->
           IF IsEntry(cache[s][w])
             THEN [cache[s][w] EXCEPT
                     !.perm = IF "written" \in cache[s][w].marks THEN "Invalid" ELSE @,
                     !.marks = {}, !.lock = "none"]
             ELSE Null]]
  BY DEF HtmAbortTransaction, ForEach
<1>2. ASSUME NEW b \in DOMAIN tagIndex
      PROVE  Field(b)' = [perm |-> IF "written" \in Held[b].marks THEN "Invalid" ELSE Held[b].perm,
                          lock |-> "none", marks |-> {}]
  <2>1. /\ Lookup(b) \in Entries
        /\ Held[b] = [perm |-> Lookup(b).perm, lock |-> Lookup(b).lock, marks |-> Lookup(b).marks]
    BY <1>1, EachStore
  <2> DEFINE p == IF "written" \in Lookup(b).marks THEN "Invalid" ELSE Lookup(b).perm
  <2>2. Lookup(b)' = [Lookup(b) EXCEPT !.perm = p, !.marks = {}, !.lock = "none"]
    BY <1>1, <2>1, EachStore DEF Entries
  <2> HIDE DEF p
  <2>3. Field(b)' = [perm |-> p, lock |-> "none", marks |-> {}]
    BY <2>1, <2>2 DEF Field, Entries
  <2> QED
    BY <2>1, <2>3 DEF p
<1>3. Held' = [b \in DOMAIN Held |->
                 [perm |-> IF "written" \in Held[b].marks THEN "Invalid" ELSE Held[b].perm,
                  lock |-> "none", marks |-> {}]]
  BY <1>1, <1>2 DEF Held
<1> QED
  BY <1>1, <1>3, OrderStays DEF Store!Abort, Store!OnEach, Store!Unlocked, Held, Before

\* The array with its tag index, whatever its sets and ways, behaves as a map from
\* lines with an order of use (LineStore): no operation of CacheMemory does to a
\* line, to another line or to their order what LineStore does not.
THEOREM IsALineStore == Spec => ImplementsLineStore
<1>1. Init => OrderInv
  BY DEF Init, OrderInv
<1>2. IInv /\ OrderInv /\ [Next]_vars => OrderInv' /\ [Store!Next]_(Store!vars)
  <2> SUFFICES ASSUME IInv, OrderInv, [Next]_vars
               PROVE  OrderInv' /\ [Store!Next]_(Store!vars)
    OBVIOUS
  <2>1. ASSUME NEW a \in Lines, Allocate(a) PROVE OrderInv' /\ Store!Insert(a)
    BY <2>1, AllocateStore
  <2>2. ASSUME NEW a \in Lines, Deallocate(a) PROVE OrderInv' /\ Store!Remove(a)
    BY <2>2, DeallocateStore
  <2>3. ASSUME NEW a \in Lines, SetMRU(a) PROVE OrderInv' /\ Store!Use(a)
    BY <2>3, SetMRUStore
  <2>4. ASSUME NEW a \in Lines,
               \/ \E p \in Perms : ChangePermission(a, p)
               \/ ClearLocked(a)
               \/ \E c \in Contexts : SetLocked(a, c)
               \/ \E m \in {"read", "written"} : SetInHtm(a, m)
        PROVE  OrderInv' /\ Store!Change(a)
    BY <2>4, ChangeStore
  <2>5. ASSUME NEW c \in Contexts, ClearLockedAll(c) PROVE OrderInv' /\ Store!Unlock(c)
    BY <2>5, UnlockStore
  <2>6. CASE HtmCommitTransaction
    BY <2>6, CommitStore DEF Store!Next
  <2>7. CASE HtmAbortTransaction
    BY <2>7, AbortStore DEF Store!Next
  <2>8. CASE UNCHANGED vars
    <3>1. OrderInv'
      BY <2>8 DEF vars, OrderInv
    <3>2. Held' = Held /\ Before' = Before
      BY <2>8 DEF vars, Held, Before, Field, Lookup, FindTagInSet, AddressToCacheSet, Older
    <3> QED
      BY <3>1, <3>2 DEF Store!vars, Held, Before
  <2> QED
    BY <2>1, <2>2, <2>3, <2>4, <2>5, <2>6, <2>7, <2>8 DEF Next, Store!Next
<1> QED
  BY <1>1, <1>2, InitIInv, NextIInv, InitStore, PTL DEF Spec, ImplementsLineStore, Store!Spec
=============================================================================
