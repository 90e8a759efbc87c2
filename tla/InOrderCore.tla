---------------------------- MODULE InOrderCore ----------------------------
(***************************************************************************)
(* What an in-order core promises of each instruction: it is fetched, its  *)
(* data access, if any, is made of parts that are all answered before the  *)
(* instruction is done, the PC moves past it only then and once, and no    *)
(* fetch is under way beside an access or after the instruction has taken  *)
(* effect.                                                                 *)
(***************************************************************************)
CONSTANT Parts

VARIABLES
  fetching,  \* the next instruction is on its way
  waiting,   \* parts of the access not answered yet
  done,      \* the instruction has taken effect, the PC has not moved
  pc         \* changes whenever the PC moves past an instruction
coreVars == <<fetching, waiting, done, pc>>

Quiet == ~fetching /\ waiting = {} /\ ~done

Init == fetching = FALSE /\ waiting = {} /\ done = FALSE /\ pc = FALSE

BeginFetch == Quiet /\ fetching' = TRUE /\ UNCHANGED <<waiting, done, pc>>

EndFetch == fetching /\ fetching' = FALSE /\ UNCHANGED <<waiting, done, pc>>

Access == /\ Quiet
          /\ waiting' \in (SUBSET Parts) \ {{}}
          /\ UNCHANGED <<fetching, done, pc>>

Answer(p) == /\ p \in waiting
             /\ waiting' = waiting \ {p}
             /\ UNCHANGED <<fetching, done, pc>>

TakeEffect == Quiet /\ done' = TRUE /\ UNCHANGED <<fetching, waiting, pc>>

\* The only step that moves the PC, so an instruction without effect is not passed.
MovePC == done /\ done' = FALSE /\ pc' = ~pc /\ UNCHANGED <<fetching, waiting>>

Next == \/ BeginFetch \/ EndFetch \/ Access \/ TakeEffect \/ MovePC
        \/ \E p \in Parts : Answer(p)

Safety == Init /\ [][Next]_coreVars

\* And a part that is waited for is answered.
Spec == Safety /\ \A p \in Parts : WF_coreVars(Answer(p))
=============================================================================
