----------------------------- MODULE LineStore -----------------------------
(***************************************************************************)
(* What a Ruby cache promises the controller that owns it: a partial map   *)
(* from lines to what is known of them, at most Assoc lines to a set, and  *)
(* the lines of each set in the order of their last use.  Nothing here     *)
(* knows of ways, of a tag index or of where a line is.                    *)
(***************************************************************************)
EXTENDS Naturals, FiniteSets

CONSTANTS Lines, Assoc, Contexts, Perms, SetOf(_)

VARIABLES
  held,     \* the lines in the cache, each with its permission, lock and marks
  before    \* <<a, b>> when a and b are in the same set and a was used first

vars == <<held, before>>

Unlocked == "none"
Present(a) == a \in DOMAIN held
Beside(a)  == {b \in DOMAIN held : SetOf(b) = SetOf(a)} \ {a}
Room(a)    == Cardinality(Beside(a)) < Assoc
Without(a) == {p \in before : a \notin {p[1], p[2]}}
OnEach(f(_)) == held' = [a \in DOMAIN held |-> f(held[a])]

Init == held = <<>> /\ before = {}

Insert(a) ==
  /\ ~Present(a) /\ Room(a)
  /\ held' = [b \in DOMAIN held \cup {a} |->
               IF b = a THEN [perm |-> "Invalid", lock |-> Unlocked, marks |-> {}]
                        ELSE held[b]]
  /\ before' = before \cup (Beside(a) \X {a})

Remove(a) ==
  /\ Present(a)
  /\ held' = [b \in DOMAIN held \ {a} |-> held[b]]
  /\ before' = Without(a)

Use(a) ==
  /\ Present(a)
  /\ before' = Without(a) \cup (Beside(a) \X {a})
  /\ UNCHANGED held

Permit(a) == \E p \in Perms : held' = [held EXCEPT ![a].perm = p]
Lock(a)   == \E c \in Contexts \cup {Unlocked} : held' = [held EXCEPT ![a].lock = c]
Mark(a)   == \E m \in {"read", "written"} : held' = [held EXCEPT ![a].marks = @ \cup {m}]
Change(a) == Present(a) /\ (Permit(a) \/ Lock(a) \/ Mark(a)) /\ UNCHANGED before

Unlock(c) ==
  /\ OnEach(LAMBDA e : IF e.lock = c THEN [e EXCEPT !.lock = Unlocked] ELSE e)
  /\ UNCHANGED before

Commit ==
  /\ OnEach(LAMBDA e : [perm |-> e.perm, lock |-> Unlocked, marks |-> {}])
  /\ UNCHANGED before

Abort ==
  /\ OnEach(LAMBDA e :
       [perm |-> IF "written" \in e.marks THEN "Invalid" ELSE e.perm,
        lock |-> Unlocked, marks |-> {}])
  /\ UNCHANGED before

Next ==
  \/ \E a \in Lines : Insert(a) \/ Remove(a) \/ Use(a) \/ Change(a)
  \/ \E c \in Contexts : Unlock(c)
  \/ Commit \/ Abort

Spec == Init /\ [][Next]_vars
=============================================================================
