----------------------------- MODULE LineMemory -----------------------------
(***************************************************************************)
(* What the protocol promises of one line, in terms that know nothing of   *)
(* states, messages and leases: a chain of versions, each made by a store  *)
(* from the one before and stamped later.  The line is at home, granted to *)
(* a core, held by it, or on its way back; only who gets hold of it makes  *)
(* versions, and a copy, whenever it is read, was the latest version once. *)
(***************************************************************************)
EXTENDS Naturals

CONSTANT Cores

VARIABLES
  granted,   \* the core the line is on its way to, if any
  held,      \* the core that may store to it, if any
  returned,  \* it is on its way home
  latest,    \* the latest version: val stores, stamped wts
  copies     \* the versions that may be read without holding the line

vars == <<granted, held, returned, latest, copies>>

Init ==
  /\ granted = {} /\ held = {} /\ returned = FALSE
  /\ latest \in [wts : Nat, val : {0}]
  /\ copies = {}

\* Nobody has the line or is to get it: it is at home or on its way there.
Free == granted = {} /\ held = {}

\* At home a version may be stamped anew, never earlier.
Stamp == latest'.val = latest.val /\ latest'.wts >= latest.wts

\* The line comes home, or is there; copies of it may be handed out.
Keep ==
  /\ Free /\ Stamp
  /\ granted' = {} /\ held' = {} /\ returned' = FALSE
  /\ copies' \subseteq copies \cup {latest'}

\* It is granted to one core, from home or from its way there.
Grant(c) ==
  /\ Free /\ Stamp
  /\ granted' = {c} /\ held' = {} /\ returned' = FALSE
  /\ copies' \subseteq copies

\* The core that gets hold of the line stores to it, and may store again.
Store(c) ==
  /\ granted \cup held = {c} /\ ~returned
  /\ granted' = {} /\ held' = {c} /\ returned' = FALSE
  /\ latest'.val = latest.val + 1 /\ latest'.wts > latest.wts
  /\ copies' \subseteq copies

\* It gives the line up, and may keep a copy.
HandBack(c) ==
  /\ held = {c}
  /\ granted' = {} /\ held' = {} /\ returned' = TRUE
  /\ latest' = latest
  /\ copies' \subseteq copies \cup {latest}

\* Copies disappear at any time.
Forget == copies' \subseteq copies /\ UNCHANGED <<granted, held, returned, latest>>

Next ==
  \/ Keep \/ Forget
  \/ \E c \in Cores : Grant(c) \/ Store(c) \/ HandBack(c)

Spec == Init /\ [][Next]_vars

=============================================================================
