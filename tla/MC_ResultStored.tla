--------------------------- MODULE MC_ResultStored ---------------------------
(* The eventual storing of a result, on the union of two scopes that are too  *)
(* large together: a server may die and Redis forget, or the room moves while  *)
(* its players resume, entries run out and old ones come back.  In both the    *)
(* calls of the worker fail and joins are undone and repeated.  Servers are    *)
(* interchangeable: one of them has the room first.                            *)
EXTENDS ResultPipeline

VARIABLE scope

svars == <<vars, scope>>

Crashes ==
    \/ RoomCloses
    \/ \E s \in Server : ServerDies(s)
    \/ RedisForgets

Moves ==
    \/ \E p \in Server : RoomMoves(p)
    \/ EntryRunsOut \/ \E s \in Server, m \in MatchOrNone : BelatedEntry(s, m)
    \/ \E q \in Request : ResumeStep(q)

Always ==
    \/ RequestStart \/ GameEnds \/ PublishRoom
    \/ \E s \in Server :
         \/ PersistPending(s) \/ PublishFails(s)
         \/ \E r \in saving[s] : Enqueue(s, r)
         \/ \E r \in journal : Acknowledge(s, r) \/ TakeLease(s, r)
         \/ \E e \in Entry : Publish(s, e)
         \/ GrantMatch(s) \/ GrantExpires(s)
    \/ \E w \in Worker : WorkerStepOf(w)
    \/ JoinStep
    \/ \E m \in Match : LeaseExpires(m)

ScopedNext ==
    /\ Always \/ (scope = "crashes" /\ Crashes) \/ (scope = "moves" /\ Moves)
    /\ UNCHANGED scope

First == CHOOSE s \in Server : TRUE

ScopedInit == Init /\ at = First /\ scope \in {"crashes", "moves"}

ScopedFairSpec == ScopedInit /\ [][ScopedNext]_svars /\ Fairness
==============================================================================
