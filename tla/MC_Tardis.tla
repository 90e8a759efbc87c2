----------------------------- MODULE MC_Tardis -----------------------------
(***************************************************************************)
(* Instances of the protocol for TLC: cores c1, c2, c3, data lines la, lb, *)
(* ld and counters k1, k2.  A tree is given by the path of each line to    *)
(* the top, lower than the six levels of the real one.                     *)
(***************************************************************************)
EXTENDS TardisProperties, TLC

CONSTANTS c1, c2, c3, la, lb, ld, k1, k2

\* No integrity tree.
FlatPath  == [x \in Addrs |-> <<>>]
\* One counter for one line.
OnePath   == (la :> <<k1>>) @@ (k1 :> <<>>)
\* A counter for each of two lines.
ForkPath  == (la :> <<k1>>) @@ (lb :> <<k2>>) @@ (k1 :> <<>>) @@ (k2 :> <<>>)
\* Two lines under one branch of two counters.
ChainPath == (la :> <<k1, k2>>) @@ (lb :> <<k1, k2>>) @@ (k1 :> <<k2>>) @@ (k2 :> <<>>)

\* Counters start in the middle of the range of register 2 and end in that of
\* a fourth one there is not.
Slot == [x \in Addrs |-> IF x = k1 THEN 2 ELSE IF x = k2 THEN 3 ELSE 0]

\* The protocol, were (SE, ExRep) to advance the timestamp of every version it makes.
AdvancingSpec == Init /\ [][Next /\ UpgradesAdvance]_vars

CoreSymmetry == Permutations(Cores)

=============================================================================
