--------------------------- MODULE LSQProperties ---------------------------
(* What the load/store queue must guarantee. *)
EXTENDS LSQ, TLC

\* The slots are interchangeable.
SlotSymmetry == Permutations(Slots)

\* Shapes of the variables.
TypeOK ==
  /\ \A r \in Slots :
       \/ req[r] = Gone
       \/ /\ req[r].kind \in Kinds /\ req[r].state \in States
          /\ req[r].flags \subseteq Flags /\ req[r].faults \subseteq Frags(req[r].kind)
          /\ {req[r].numTranslated, req[r].numInTranslation, req[r].packets,
              req[r].numOutstanding, req[r].numReceived} \subseteq 0 .. 2
          /\ req[r].stale \in BOOLEAN
  /\ inst \in [Slots -> [at : {"none", "execute", "deferred", "replay", "blocked", "memory",
                               "executed", "committed", "done"},
                         load : BOOLEAN, squashed : BOOLEAN]]
  /\ walks \in [Slots -> SUBSET {1, 2}] /\ flight \in [Slots -> SUBSET {1, 2}]
  /\ forwards \subseteq Slots /\ owed \subseteq Slots
  /\ call \subseteq [slot : Slots, frag : 0 .. 2]
  /\ used.load \in 0 .. LoadPorts /\ used.store \in 0 .. StorePorts
  /\ {cacheBlocked, waiting} \subseteq BOOLEAN

\* The MMU, the cache and the writeback event never come back to a request that
\* is deleted: three parties hold plain pointers to it and each may be last.
NoUseAfterFree == panic = "none"

\* The two counters that decide when a request may go agree with what is really
\* under way for it, through squashes, partial faults and retries.
CountersExact ==
  \A r \in Slots :
    IF Live(req[r])
      THEN /\ req[r].numInTranslation = Cardinality(walks[r])
           /\ req[r].numOutstanding = Cardinality(flight[r])
           /\ r \in forwards <=> /\ "WritebackScheduled" \in req[r].flags
                                 /\ "WritebackDone" \notin req[r].flags
      ELSE walks[r] = {} /\ flight[r] = {} /\ r \notin forwards /\ inst[r].at = "none"

\* A request whose entry is freed is gone, or marked as freed and still in use: it
\* neither leaks nor looks owned to the response that will delete it.
OrphansInUse ==
  \A r \in Slots :
    Live(req[r]) /\ inst[r].at = "none" => Outstanding(req[r]) /\ Released(req[r])

\* Every fragment of an access is sent once, however often the cache refuses it
\* and whatever replies come between two attempts.
FragmentsSentOnce ==
  \A r \in Slots : Live(req[r]) /\ req[r].kind = "split" =>
    req[r].numReceived + req[r].numOutstanding <= req[r].packets

\* An access that the memory served is done only when each of its fragments was
\* translated, and each packet before the first fault has been answered.
WholeAccess ==
  \A r \in Slots :
    inst[r].at = "done" /\ Live(req[r]) /\ req[r].packets > 0 /\ ~Released(req[r])
      => /\ req[r].numTranslated \in {0, Cardinality(Frags(req[r].kind))}
         /\ flight[r] = {} /\ walks[r] = {}
         /\ "Complete" \in req[r].flags =>
              req[r].numReceived \in {0, req[r].packets}

\* A load that could not be sent will be woken: either the cache owes a retry, or
\* the next cycle will find every load port used in this one.
BlockedLoadsWoken ==
  (\E r \in Slots : inst[r].at = "blocked") => cacheBlocked \/ used.load = LoadPorts

\* It is: a load does not stay blocked (LSQ::tick, LSQ::recvReqRetry).
LoadsRetried == \A r \in Slots : inst[r].at = "blocked" ~> inst[r].at # "blocked"

\* The TLBI sync is answered only when no request it was for is still at work
\* with the translation it had (LSQ::checkStaleTranslations).
SyncCoversAll == ~waiting => owed = {}

\* At least accesses of one packet are: for those of several see sync_early.cfg.
SyncCoversUnsplit == ~waiting => \A r \in owed : req[r].kind = "split"

\* And it is answered, once no entry has a request marked for it.
SyncEnds == waiting /\ ~StaleLeft(req, inst) ~> ~waiting

\* Where a request stands in its life.
LifeInQueue(q) == IF q.state # "Translation" THEN "sending"
                  ELSE IF "TranslationSquashed" \in q.flags THEN "dropped" ELSE "translation"
LifeOfOrphan(q) == IF q.numInTranslation > 0 THEN "selfTranslation" ELSE "selfResponse"
Life(r) ==
  IF ~Live(req[r]) THEN "free"
  ELSE IF inst[r].at # "none" THEN LifeInQueue(req[r]) ELSE LifeOfOrphan(req[r])

\* Requests live as the comment of LSQRequest says.
Lifetime == INSTANCE RequestLifetime WITH
  Requests <- Slots, life <- [r \in Slots |-> Life(r)]
FollowsLifetime == Lifetime!Spec

\* The same without its fairness.
StepsLikeLifetime == Lifetime!Safety
=============================================================================
