--------------------------- MODULE TecTree_proofs ---------------------------
(***************************************************************************)
(* The tree the base addresses lay out has room for every arity from 15    *)
(* up: no walk leaves the levels, and none ends early.                     *)
(***************************************************************************)
EXTENDS TecTree, TLAPS

\* A group of at least 15 lines: m groups hold fewer lines than 15 * m leaves.
LEMMA GroupsFit ==
    ASSUME NEW q \in Nat, NEW x \in Nat, NEW m \in Nat,
           Arity >= 15, x < 15 * m, Arity * q <= x
    PROVE  q < m
<1>1. Arity \in Nat BY ArityAssumption
<1>2. SUFFICES ASSUME q >= m PROVE FALSE OBVIOUS
<1>3. Arity * q >= 15 * q BY <1>1
<1>4. 15 * q >= 15 * m BY <1>2
<1>5. QED BY <1>1, <1>3, <1>4

\* The quotient of an offset by the arity, as an inequality without division.
LEMMA Quotient ==
    ASSUME NEW x \in Nat
    PROVE  /\ x \div Arity \in Nat
           /\ Arity * (x \div Arity) <= x
BY ArityAssumption

\* An offset below 15 * m has its parent among the first m lines of the next level.
LEMMA DivBound ==
    ASSUME NEW x \in Nat, NEW m \in Nat, Arity >= 15, x < 15 * m
    PROVE  x \div Arity \in 0..(m - 1)
<1>1. /\ x \div Arity \in Nat
      /\ Arity * (x \div Arity) <= x
  BY Quotient
<1>2. x \div Arity < m BY <1>1, GroupsFit
<1>3. QED BY <1>1, <1>2

\* What matters of the base addresses: each level starts after the one below, and
\* holds a fifteenth of it.
LEMMA Layout ==
    /\ \A n \in 1..7 : Base[n] \in Nat \ {0}
    /\ MetadataEnd \in Nat /\ Base[7] < MetadataEnd
    /\ Base[1] < Base[2] /\ Base[2] < Base[3] /\ Base[3] < Base[4]
    /\ Base[4] < Base[5] /\ Base[5] < Base[6] /\ Base[6] < Base[7]
    /\ Base[1] <= 15 * (Base[2] - Base[1])
    /\ \A n \in 1..5 : Base[n + 1] - Base[n] <= 15 * (Base[n + 2] - Base[n + 1])
BY SMT DEF Base, MetadataEnd

\* The arithmetic of one step.
LEMMA ParentOfData ==
    ASSUME NEW x \in 0..(Base[1] - 1)
    PROVE  ParentLine(x) = Base[1] + x \div Arity
BY Layout DEF ParentLine, IsMetadata

\* The parent of a counter keeps its group's offset on the next level.
LEMMA ParentOfCounter ==
    ASSUME NEW n \in 1..5, NEW x \in Nat, IsLevel(n, x)
    PROVE  ParentLine(x) = Base[n + 1] + (x - Base[n]) \div Arity
<1> USE Layout DEF ParentLine, IsMetadata, IsLevel
<1>1. CASE n = 1 BY <1>1
<1>2. CASE n = 2 BY <1>2
<1>3. CASE n = 3 BY <1>3
<1>4. CASE n = 4 BY <1>4
<1>5. CASE n = 5 BY <1>5
<1>6. QED BY <1>1, <1>2, <1>3, <1>4, <1>5

\* The parent of a data line is on the first level.
LEMMA DataStep ==
    ASSUME Arity >= 15, NEW x \in 0..(Base[1] - 1)
    PROVE  ParentLine(x) \in Nat /\ IsLevel(1, ParentLine(x))
<1>1. /\ Base[1] \in Nat /\ Base[2] - Base[1] \in Nat
      /\ Base[1] <= 15 * (Base[2] - Base[1])
  BY Layout
<1>2. x \in Nat /\ x < 15 * (Base[2] - Base[1]) BY <1>1
<1>3. x \div Arity \in 0..(Base[2] - Base[1] - 1) BY <1>1, <1>2, DivBound
<1>4. QED BY <1>3, Layout, ParentOfData DEF IsLevel

\* The parent of a counter below the sixth level is a counter of the next level.
LEMMA CounterStep ==
    ASSUME Arity >= 15, NEW n \in 1..5, NEW x \in Nat, IsLevel(n, x)
    PROVE  ParentLine(x) \in Nat /\ IsLevel(n + 1, ParentLine(x))
<1>1. /\ Base[n] \in Nat /\ Base[n + 1] \in Nat /\ Base[n + 2] \in Nat
      /\ Base[n + 1] - Base[n] <= 15 * (Base[n + 2] - Base[n + 1])
      /\ Base[n + 1] < Base[n + 2]
  BY Layout
<1>2. x - Base[n] \in Nat /\ x - Base[n] < 15 * (Base[n + 2] - Base[n + 1])
  BY <1>1 DEF IsLevel
<1>3. (x - Base[n]) \div Arity \in 0..(Base[n + 2] - Base[n + 1] - 1)
  BY <1>1, <1>2, DivBound
<1>4. QED BY <1>1, <1>3, ParentOfCounter DEF IsLevel

\* A counter of the sixth level has no parent.
LEMMA TopStep ==
    ASSUME NEW x \in Nat, IsLevel(6, x)
    PROVE  ParentLine(x) = NoParent
BY Layout DEF ParentLine, IsMetadata, IsLevel

-----------------------------------------------------------------------------
\* The inductive invariant: OnLevel, on a natural number, which at level 0 is a
\* data line below the tree (an address above it would not be metadata either).
Walk == at \in Nat /\ (level = 0 => at < Base[1]) /\ OnLevel

\* A walk starts on a data line below the tree.
LEMMA WalkInit == Init => Walk
BY DataAssumption, Layout DEF Init, Walk, OnLevel, IsMetadata

\* A step of the walk climbs one level or ends above the sixth.
LEMMA WalkNext ==
    ASSUME Arity >= 15, Walk, [Next]_vars
    PROVE  Walk'
<1> USE DEF Walk, OnLevel
<1>1. CASE Climb
  <2>1. CASE level = 0
    <3>1. at \in 0..(Base[1] - 1) BY <2>1, Layout
    <3>2. ParentLine(at) \in Nat /\ IsLevel(1, ParentLine(at)) BY <3>1, DataStep
    <3>3. at' = ParentLine(at) /\ level' = 1 BY <1>1, <2>1 DEF Climb
    <3>4. QED BY <3>2, <3>3 DEF IsLevel
  <2>2. CASE level \in 1..5
    <3>1. ParentLine(at) \in Nat /\ IsLevel(level + 1, ParentLine(at))
      BY <2>2, CounterStep
    <3>2. at' = ParentLine(at) /\ level' = level + 1 BY <1>1 DEF Climb
    <3>3. QED BY <2>2, <3>1, <3>2 DEF IsLevel
  <2>3. CASE level = 6
    <3>1. ParentLine(at) = NoParent BY <2>3, TopStep
    <3>2. QED BY <1>1, <3>1 DEF Climb
  <2>4. QED BY <2>1, <2>2, <2>3
<1>2. CASE Top
  BY <1>2 DEF Top, vars, IsLevel, IsMetadata
<1>3. CASE UNCHANGED vars
  BY <1>3 DEF vars, IsLevel, IsMetadata
<1>4. QED BY <1>1, <1>2, <1>3 DEF Next

\* The levels of the tree do not overlap for any arity from 15 up: after n steps
\* getParentAddrDynamic stands on a counter of level n, at most the sixth.
THEOREM LevelsDisjoint ==
    ASSUME Arity >= 15
    PROVE  Spec => []OnLevel
<1>1. Walk => OnLevel BY DEF Walk
<1>2. Walk /\ [Next]_vars => Walk' BY WalkNext
<1>3. QED BY WalkInit, <1>1, <1>2, PTL DEF Spec

\* No branch ends early for any arity from 15 up: a missing parent that is not
\* found is a whole branch of six counters.
THEOREM BranchesWhole ==
    ASSUME Arity >= 15
    PROVE  Spec => []WholeBranch
<1>1. Walk => WholeBranch
  <2> SUFFICES ASSUME Walk, ParentLine(at) = NoParent, level # 6 PROVE FALSE
    BY DEF WholeBranch
  <2>1. CASE level = 0
    <3>1. at \in 0..(Base[1] - 1) BY <2>1, Layout DEF Walk
    <3>2. IsLevel(1, NoParent) BY <3>1, DataStep
    <3>3. QED BY <3>2, Layout DEF IsLevel, NoParent
  <2>2. CASE level \in 1..5
    <3>1. IsLevel(level + 1, NoParent) BY <2>2, CounterStep DEF Walk, OnLevel
    <3>2. QED BY <2>2, <3>1, Layout DEF IsLevel, NoParent
  <2>3. QED BY <2>1, <2>2 DEF Walk, OnLevel
<1>2. Walk /\ [Next]_vars => Walk' BY WalkNext
<1>3. QED BY WalkInit, <1>1, <1>2, PTL DEF Spec

-----------------------------------------------------------------------------
(* The root register.                                                      *)

\* The data lines under one counter of each level when the arity is 15.
Leaves == <<15, 225, 3375, 50625, 759375, 11390625>>

\* The walk keeps the number of the group its leaf is in, on every level.
InGroup ==
    /\ leaf \in Nat
    /\ level = 0 => at = leaf
    /\ level \in 1..6 => at = Base[level] + leaf \div Leaves[level]

\* The groups of a level are made of 15 groups of the level below.
LEMMA GroupOfGroup ==
    ASSUME NEW n \in 1..5, NEW x \in Nat
    PROVE  (x \div Leaves[n]) \div 15 = x \div Leaves[n + 1]
<1>1. CASE n = 1 BY <1>1, (x \div 15) \div 15 = x \div 225 DEF Leaves
<1>2. CASE n = 2 BY <1>2, (x \div 225) \div 15 = x \div 3375 DEF Leaves
<1>3. CASE n = 3 BY <1>3, (x \div 3375) \div 15 = x \div 50625 DEF Leaves
<1>4. CASE n = 4 BY <1>4, (x \div 50625) \div 15 = x \div 759375 DEF Leaves
<1>5. CASE n = 5 BY <1>5, (x \div 759375) \div 15 = x \div 11390625 DEF Leaves
<1>6. QED BY <1>1, <1>2, <1>3, <1>4, <1>5

\* A step takes the walk from its group to the group that has it.
LEMMA GroupNext ==
    ASSUME Arity = 15, Walk, InGroup, [Next]_vars
    PROVE  InGroup'
<1>1. CASE Climb
  <2>1. at' = ParentLine(at) /\ level' = level + 1 /\ leaf' = leaf BY <1>1 DEF Climb
  <2>2. CASE level = 0
    <3>1. at \in 0..(Base[1] - 1) /\ at = leaf
      BY <2>2, Layout DEF Walk, InGroup
    <3>2. at' = Base[1] + leaf \div 15 BY <2>1, <3>1, ParentOfData
    <3>3. QED BY <2>1, <2>2, <3>2 DEF InGroup, Leaves
  <2>3. CASE level \in 1..5
    <3>1. /\ at \in Nat /\ IsLevel(level, at) /\ leaf \in Nat
          /\ at = Base[level] + leaf \div Leaves[level]
      BY <2>3 DEF Walk, OnLevel, InGroup
    <3>2. at' = Base[level + 1] + (at - Base[level]) \div 15
      BY <2>1, <2>3, <3>1, ParentOfCounter
    <3>3. at - Base[level] = leaf \div Leaves[level]
      <4>1. leaf \div Leaves[level] \in Int BY <2>3, <3>1 DEF Leaves
      <4>2. QED BY <2>3, <3>1, <4>1, Layout
    <3>4. at' = Base[level + 1] + leaf \div Leaves[level + 1]
      BY <2>3, <3>1, <3>2, <3>3, GroupOfGroup
    <3>5. QED BY <2>1, <2>3, <3>1, <3>4 DEF InGroup
  <2>4. CASE level = 6
    <3>1. ParentLine(at) = NoParent BY <2>4, TopStep DEF Walk, OnLevel
    <3>2. QED BY <1>1, <3>1 DEF Climb
  <2>5. QED BY <2>2, <2>3, <2>4 DEF Walk, OnLevel
<1>2. CASE UNCHANGED vars BY <1>2 DEF vars, InGroup
<1>3. QED BY <1>1, <1>2 DEF Next, Top

\* With the arity the registers were laid out for, 15, getL6Index of a data line is
\* the register of the counter its branch ends at.
THEOREM RegistersMatch ==
    ASSUME Arity = 15
    PROVE  Spec => []RootSlotOfBranch
<1>1. Init => InGroup
  BY DataAssumption, Layout DEF Init, InGroup
<1>2. Walk /\ [Next]_vars => Walk' BY WalkNext
<1>3. Walk /\ InGroup /\ [Next]_vars => InGroup' BY GroupNext
<1>4. InGroup => RootSlotOfBranch BY DEF InGroup, RootSlotOfBranch, Leaves, L6Index
<1>5. QED BY WalkInit, <1>1, <1>2, <1>3, <1>4, PTL DEF Spec

=============================================================================
