-------------------------- MODULE RequestLifetime --------------------------
(***************************************************************************)
(* The life of an LSQRequest as the comment before its class draws it: the *)
(* LSQ creates and owns it, translates it, sends it and frees it; squashed *)
(* on the way, the request owns itself until the TLB or the memory is done *)
(* with it.                                                                *)
(***************************************************************************)
CONSTANT Requests

VARIABLE life   \* where each request stands in its life

vars == <<life>>

Owned == {"translation", "dropped", "sending"}
Orphan == {"selfTranslation", "selfResponse"}

Init == life = [r \in Requests |-> "free"]

Becomes(r, from, to) ==
  life[r] \in from /\ life' = [life EXCEPT ![r] = to]

Create(r)     == Becomes(r, {"free"}, "translation")
\* A masked access has nothing to translate, a special command needs not be.
CreateDone(r) == Becomes(r, {"free"}, "sending")
Translated(r) == Becomes(r, {"translation"}, "sending")
\* The instruction is squashed, but its entry still there when the TLB is done: the
\* diagram has no place for it, and the queue is left to free the request.
Dropped(r)    == Becomes(r, {"translation"}, "dropped")
Free(r)       == Becomes(r, {"sending", "dropped"}, "free")
SquashedInTranslation(r) == Becomes(r, {"translation"}, "selfTranslation")
SquashedInFlight(r)      == Becomes(r, {"sending"}, "selfResponse")
\* The last translation or the last response frees the orphan.
SelfDestruct(r) == Becomes(r, Orphan, "free")

Next == \E r \in Requests :
  \/ Create(r) \/ CreateDone(r) \/ Translated(r) \/ Dropped(r) \/ Free(r)
  \/ SquashedInTranslation(r) \/ SquashedInFlight(r) \/ SelfDestruct(r)

Safety == Init /\ [][Next]_vars

\* And an orphan does not live for ever.
Spec == /\ Safety
        /\ \A r \in Requests : WF_vars(SelfDestruct(r))
=============================================================================
