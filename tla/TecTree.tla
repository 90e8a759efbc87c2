------------------------------ MODULE TecTree ------------------------------
(***************************************************************************)
(* The address arithmetic of the integrity tree (RubySlicc_Util.hh) and    *)
(* the walk over it that the directory repeats wherever it looks for a     *)
(* parent: from a data line up to the counter that has none.               *)
(*                                                                         *)
(* Addresses are in lines of 64 bytes.  getParentAddrDynamic divides by    *)
(* arity * 64 and multiplies by 64, which for the address of a line is a   *)
(* division of the line number by the arity.                               *)
(***************************************************************************)
EXTENDS Integers

CONSTANTS
    Arity,   \* tectree_arity
    Data     \* the data lines whose branches are walked

ASSUME ArityAssumption == Arity \in Nat \ {0}

\* getL1BaseAddr ... getL7BaseAddr: 0x80000000 and the lines of each level
Base == << 33554432, 33554432 + 2236963, 33554432 + 2386094, 33554432 + 2396037,
           33554432 + 2396700, 33554432 + 2396745, 33554432 + 2396748 >>

\* Data lines live below the tree.
ASSUME DataAssumption == Data \subseteq 0..(Base[1] - 1)

\* isMetadataAddr: from 0x80000000 to 0xC0000000
MetadataEnd == 50331648
IsMetadata(x) == x >= Base[1] /\ x < MetadataEnd

\* isL1Addr ... isL6Addr
IsLevel(n, x) == x >= Base[n] /\ x < Base[n + 1]

NoParent == 0

\* getParentAddrDynamic.  (Mutants: L5 is taken for the top; the offset of a
\* counter is not taken from the base of its own level.)
ParentStopsEarly(x) ==
    IF ~IsMetadata(x) THEN Base[1] + x \div Arity
    ELSE IF IsLevel(1, x) THEN Base[2] + (x - Base[1]) \div Arity
    ELSE IF IsLevel(2, x) THEN Base[3] + (x - Base[2]) \div Arity
    ELSE IF IsLevel(3, x) THEN Base[4] + (x - Base[3]) \div Arity
    ELSE IF IsLevel(4, x) THEN Base[5] + (x - Base[4]) \div Arity
    ELSE NoParent
ParentFromL1(x) ==
    IF ~IsMetadata(x) THEN Base[1] + x \div Arity
    ELSE IF \E n \in 1..5 : IsLevel(n, x)
    THEN Base[CHOOSE n \in 2..6 : IsLevel(n - 1, x)] + (x - Base[1]) \div Arity
    ELSE NoParent
ParentLine(x) ==
    IF ~IsMetadata(x) THEN Base[1] + x \div Arity
    ELSE IF IsLevel(1, x) THEN Base[2] + (x - Base[1]) \div Arity
    ELSE IF IsLevel(2, x) THEN Base[3] + (x - Base[2]) \div Arity
    ELSE IF IsLevel(3, x) THEN Base[4] + (x - Base[3]) \div Arity
    ELSE IF IsLevel(4, x) THEN Base[5] + (x - Base[4]) \div Arity
    ELSE IF IsLevel(5, x) THEN Base[6] + (x - Base[5]) \div Arity
    ELSE NoParent

\* getL6Index: the root register of a line.  (Mutant: one level short.)
L5Index(x) == x \div 759375
L6Index(x) == x \div 11390625

-----------------------------------------------------------------------------
VARIABLES
    leaf,   \* the data line the walk started from
    at,     \* where it is
    level   \* how many parents it has taken

vars == <<leaf, at, level>>

Init == leaf \in Data /\ at = leaf /\ level = 0

Climb ==
    /\ ParentLine(at) # NoParent
    /\ at' = ParentLine(at)
    /\ level' = level + 1
    /\ UNCHANGED leaf

Top == ParentLine(at) = NoParent /\ UNCHANGED vars

Next == Climb \/ Top

Spec == Init /\ [][Next]_vars

-----------------------------------------------------------------------------
\* The levels do not overlap: a walk that has taken n parents stands on a
\* counter of level n, and the deepest level is the sixth.
OnLevel ==
    /\ level \in 0..6
    /\ IF level = 0 THEN ~IsMetadata(at) ELSE IsLevel(level, at)

\* No branch ends below the sixth level: whoever finds no missing parent has
\* seen the whole of it.
WholeBranch == ParentLine(at) = NoParent => level = 6

\* The root register of a data line (root_cnt_0..2, "L6 ramo n") is the one of
\* the sixth-level counter at the top of its branch.
RootSlotOfBranch == level = 6 => at = Base[6] + L6Index(leaf)

=============================================================================
