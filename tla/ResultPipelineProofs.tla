------------------------ MODULE ResultPipelineProofs ------------------------
(***************************************************************************)
(* No result of a finished game is lost, and a room plays only ids that    *)
(* follow stored results, for any number of servers, workers, requests,    *)
(* matches and moves; with one worker it plays each of them once.          *)
(***************************************************************************)
EXTENDS ResultPipeline, TLAPS

\* An entry a worker holds is the one it works on.
LEMMA HeldResult ==
    ASSUME NEW w \in Worker, NEW e \in Entry, wentry[w] = {e}
    PROVE  TheResult(w) = e.result
BY DEF TheResult

\* What a worker that is past record() works on, and that it is stored.
LEMMA Held ==
    ASSUME ReceiptInv, NEW w \in Worker, wstep[w] \in WorkerStep \ {"idle", "ack"}
    PROVE  /\ TheResult(w) \in Result /\ TheResult(w).match \in recorded
           /\ TheResult(w).match \in Match /\ TheResult(w).server \in Server
<1>1. PICK e \in Entry : wentry[w] = {e} /\ e.result.match \in recorded
  BY DEF ReceiptInv
<1>2. TheResult(w) = e.result
  BY <1>1, HeldResult
<1> QED
  BY <1>1, <1>2 DEF Entry, Result

\* The grant a worker is about to send has an id and a row.
LEMMA HeldGrant ==
    ASSUME GrantInv, NEW w \in Worker, wstep[w] \in {"reassign", "send"}
    PROVE  /\ NextMatchId(TheResult(w).match) \in Match
           /\ NextMatchId(TheResult(w).match) \in Issued
<1>1. PICK e \in Entry : wentry[w] = {e} /\ NextMatchId(e.result.match) \in Issued
  BY DEF GrantInv
<1> QED
  BY <1>1, HeldResult DEF Issued

\* Rewriting the server of a row makes no row.
LEMMA ReassignedRows ==
    ASSUME NEW m \in Match, NEW s \in Server, row \in [Match -> ServerOrNone]
    PROVE  /\ Reassigned(m, s) \in [Match -> ServerOrNone]
           /\ \A k \in Match : Reassigned(m, s)[k] = NoServer <=> row[k] = NoServer
BY PipelineAssumption DEF Reassigned, ServerOrNone

\* What is to be persisted ends up on disk or stays in the queue.
LEMMA PersistKeeps ==
    ASSUME NEW s \in Server, NEW pending, Persist(s, pending), s \in DOMAIN queue
    PROVE  /\ journal \subseteq journal' /\ pending \subseteq journal' \cup queue'[s]
           /\ \A p \in Server : p # s => queue'[p] = queue[p]
BY DEF Persist

\* Persisting results leaves results on disk and in the queue.
LEMMA PersistTypes ==
    ASSUME NEW s \in Server, NEW pending, Persist(s, pending), pending \subseteq Result,
           journal \subseteq Result, queue \in [Server -> SUBSET Result]
    PROVE  journal' \subseteq Result /\ queue' \in [Server -> SUBSET Result]
BY DEF Persist

\* The initial values have their types.
LEMMA TypeInit == Init => TypeOK
<1> SUFFICES ASSUME Init PROVE TypeOK
  OBVIOUS
<1>1. 0 \in Match
  BY PipelineAssumption DEF Match
<1>2. drained \subseteq Server
  BY DEF Init
<1>3. grants \in [Server -> Seq(Match)] /\ plays \in [Match -> Nat]
  BY DEF Init
<1>4. row \in [Match -> ServerOrNone]
  BY <1>1 DEF Init, ServerOrNone
<1>5. request \in [Request -> [step: {"idle", "reassign", "reserve"},
                              server: ServerOrNone, match: MatchOrNone]]
  BY DEF Init, NoRequest, ServerOrNone, MatchOrNone
<1> QED
  BY <1>1, <1>2, <1>3, <1>4, <1>5 DEF Init, TypeOK, MatchOrNone, ServerOrNone, WorkerStep

(* What each kind of step leaves alone. *)
\* Publishing, running out and belated entries touch nothing but the directory entry.
LEMMA EntryFrame ==
    ASSUME EntryStep
    PROVE  UNCHANGED <<at, current, granted, played, playing, connected, drained, dead, saving,
                       queue, publishing, journal, lease, stream, receipt, grants, row, recorded,
                       unassigned, wstep, wentry, wowner, request, finished, perished, plays>>
BY DEF EntryStep, PublishRoom, EntryRunsOut, BelatedEntry, roomVars, outboxVars, workerVars,
   histVars

\* Joins touch nothing but who is assigned.
LEMMA JoinFrame ==
    ASSUME JoinStep
    PROVE  UNCHANGED <<at, current, granted, played, playing, connected, drained, dead, saving,
                       queue, publishing, journal, lease, stream, receipt, grants, directory, row,
                       recorded, wstep, wentry, wowner, request, finished, perished, plays>>
BY DEF JoinStep, JoinIsUndone, JoinIsRepeated, roomVars, outboxVars, workerVars, histVars

\* A step of the room changes nothing outside it but its directory entry and its results.
LEMMA RoomFrame ==
    ASSUME RoomStep
    PROVE  UNCHANGED <<dead, queue, publishing, journal, lease, stream, receipt, grants,
                       row, recorded, wstep, wentry, wowner, request, perished>>
BY EntryFrame DEF RoomStep, RequestStart, GameEnds, RoomCloses, RoomMoves, outboxVars,
   workerVars, histVars

\* An in-game server touches neither the database nor the workers.
LEMMA OutboxFrame ==
    ASSUME NEW s \in Server, OutboxStep(s)
    PROVE  UNCHANGED <<current, played, drained, receipt, directory, row, recorded,
                       wstep, wentry, wowner, request, finished, plays>>
BY DEF OutboxStep, ServerDies, PersistPending, PublishFails, Enqueue, Acknowledge, TakeLease,
   Publish, GrantMatch, GrantExpires, roomVars, outboxVars, workerVars, histVars

\* A worker touches neither room nor outbox, and takes no result back.
LEMMA WorkerFrame ==
    ASSUME NEW w \in Worker, WorkerStepOf(w)
    PROVE  /\ UNCHANGED <<at, current, granted, played, playing, connected, drained, dead,
                         saving, queue, publishing, journal, lease, directory, request,
                         finished, perished, plays>>
           /\ recorded \subseteq recorded'
BY DEF WorkerStepOf, Record, Committed, ReadOwner, IssueNextMatch, ReassignToOwner, SendGrant,
   WriteReceipt, Ack, Throw, roomVars, outboxVars, histVars

\* A resume request changes at most a row, itself and who is connected.
LEMMA ResumeFrame ==
    ASSUME NEW q \in Request, ResumeStep(q)
    PROVE  UNCHANGED <<at, current, granted, played, playing, drained, dead, saving, queue,
                       publishing, journal, lease, stream, receipt, grants, directory,
                       recorded, wstep, wentry, wowner, finished, perished, plays>>
BY DEF ResumeStep, ResumeReads, ResumeReassigns, ResumeConnects, roomVars, outboxVars,
   workerVars, histVars

\* Redis only forgets.
LEMMA RedisFrame ==
    ASSUME RedisStep
    PROVE  /\ UNCHANGED <<at, current, granted, played, playing, connected, drained, dead,
                         saving, queue, publishing, journal, grants, directory, row, recorded,
                         wstep, wentry, wowner, request, finished, perished, plays>>
           /\ receipt' \subseteq receipt /\ stream' \subseteq stream
BY DEF RedisStep, LeaseExpires, RedisForgets, roomVars, outboxVars, workerVars, histVars

\* Every action keeps every variable in its domain.
LEMMA TypeStep ==
    ASSUME TypeOK, PlaceInv, ReceiptInv, GrantInv, Next
    PROVE  TypeOK'
<1> USE DEF TypeOK, PlaceInv, MatchOrNone, ServerOrNone, WorkerStep, NoRequest
<1>1. CASE RequestStart
  <2>1. GameId \in Match
    BY <1>1 DEF RequestStart, GameId
  <2>2. plays' \in [Match -> Nat]
    BY <1>1, <2>1 DEF RequestStart
  <2> QED
    BY <1>1, <2>1, <2>2 DEF RequestStart, roomVars, outboxVars, workerVars, histVars
<1>2. CASE GameEnds
  <2>1. at \in Server
    BY <1>2 DEF GameEnds
  <2>2. [match |-> current, server |-> at] \in Result
    BY <2>1 DEF Result
  <2> QED
    BY <1>2, <2>1, <2>2 DEF GameEnds, roomVars, outboxVars, workerVars, histVars
<1>3. CASE RoomCloses
  BY <1>3 DEF RoomCloses, outboxVars, workerVars, histVars
<1>4. CASE EntryStep
  <2>1. unassigned' = unassigned
    BY <1>4, EntryFrame
  <2>2. directory' \in [server: ServerOrNone, pending: MatchOrNone]
    BY <1>4 DEF EntryStep, PublishRoom, EntryRunsOut, BelatedEntry, NoEntry, PendingMatch
  <2> QED
    BY <1>4, <2>1, <2>2, EntryFrame
<1>5. ASSUME NEW p \in Server, RoomMoves(p) PROVE TypeOK'
  <2>1. drained' \subseteq Server
    BY <1>5 DEF RoomMoves
  <2>2. PendingMatch \in MatchOrNone
    BY DEF PendingMatch
  <2>3. directory' \in [server: ServerOrNone, pending: MatchOrNone]
    BY <1>5, <2>2 DEF RoomMoves
  <2> QED
    BY <1>5, <2>1, <2>3 DEF RoomMoves, roomVars, outboxVars, workerVars, histVars
<1>6. ASSUME NEW s \in Server, ServerDies(s) PROVE TypeOK'
  BY <1>6 DEF ServerDies, workerVars
<1>7. ASSUME NEW s \in Server, PersistPending(s) PROVE TypeOK'
  <2>1. queue[s] \subseteq Result
    OBVIOUS
  <2>2. journal' \subseteq Result /\ queue' \in [Server -> SUBSET Result]
    BY <1>7, <2>1, PersistTypes DEF PersistPending
  <2> QED
    BY <1>7, <2>2 DEF PersistPending, roomVars, outboxVars, workerVars, histVars
<1>8. ASSUME NEW s \in Server, PublishFails(s) PROVE TypeOK'
  <2>1. PICK r \in publishing[s] :
           /\ lease' \in {lease, lease \ {r.match}}
           /\ \/ UNCHANGED stream
              \/ \E n \in 1..MaxCopies : stream' = stream \cup {[result |-> r, copy |-> n]}
    BY <1>8 DEF PublishFails
  <2>2. stream' \subseteq Entry
    BY <2>1 DEF Entry
  <2>3. lease' \subseteq Match
    BY <2>1
  <2>4. publishing' \in [Server -> SUBSET Result]
    BY <1>8 DEF PublishFails
  <2> QED
    BY <1>8, <2>2, <2>3, <2>4 DEF PublishFails, roomVars, outboxVars, workerVars, histVars
<1>9. ASSUME NEW s \in Server, NEW r \in saving[s], Enqueue(s, r) PROVE TypeOK'
  <2>1. queue[s] \cup {r} \subseteq Result
    BY queue[s] \subseteq Result, r \in Result
  <2>2. saving' \in [Server -> SUBSET Result]
    BY <1>9 DEF Enqueue
  <2>3. journal' \subseteq Result /\ queue' \in [Server -> SUBSET Result]
    BY <1>9, <2>1, PersistTypes DEF Enqueue
  <2> QED
    BY <1>9, <2>2, <2>3 DEF Enqueue, roomVars, outboxVars, workerVars, histVars
<1>10. ASSUME NEW s \in Server, NEW r \in journal, Acknowledge(s, r) PROVE TypeOK'
  BY <1>10 DEF Acknowledge, roomVars, workerVars, histVars
<1>11. ASSUME NEW s \in Server, NEW r \in journal, TakeLease(s, r) PROVE TypeOK'
  <2>1. r \in Result /\ r.match \in Match
    BY DEF Result
  <2>2. publishing' \in [Server -> SUBSET Result]
    BY <1>11, <2>1 DEF TakeLease
  <2> QED
    BY <1>11, <2>1, <2>2 DEF TakeLease, roomVars, outboxVars, workerVars, histVars
<1>12. ASSUME NEW s \in Server, NEW e \in Entry, Publish(s, e) PROVE TypeOK'
  BY <1>12 DEF Publish, roomVars, workerVars, histVars
<1>13. ASSUME NEW s \in Server, GrantMatch(s) PROVE TypeOK'
  <2>1. Head(grants[s]) \in Match /\ Tail(grants[s]) \in Seq(Match)
    BY <1>13 DEF GrantMatch
  <2>2. grants' \in [Server -> Seq(Match)]
    BY <1>13, <2>1 DEF GrantMatch
  <2> QED
    BY <1>13, <2>1, <2>2 DEF GrantMatch, roomVars, outboxVars, workerVars, histVars
<1>14. ASSUME NEW s \in Server, GrantExpires(s) PROVE TypeOK'
  <2>1. Tail(grants[s]) \in Seq(Match)
    BY <1>14 DEF GrantExpires
  <2>2. grants' \in [Server -> Seq(Match)]
    BY <1>14, <2>1 DEF GrantExpires
  <2> QED
    BY <1>14, <2>2 DEF GrantExpires, roomVars, outboxVars, workerVars, histVars
<1>15. ASSUME NEW w \in Worker, NEW e \in stream, Record(w, e) PROVE TypeOK'
  <2>1. e.result.match \in Match /\ e \in Entry
    BY DEF Entry, Result
  <2>2. recorded' \subseteq Match
    BY <1>15, <2>1 DEF Record, Committed
  <2>3. wstep' \in [Worker -> WorkerStep]
    BY <1>15 DEF Record, AfterRecord
  <2> QED
    BY <1>15, <2>1, <2>2, <2>3 DEF Record, roomVars, outboxVars, workerVars, histVars
<1>16. ASSUME NEW w \in Worker, ReadOwner(w) PROVE TypeOK'
  <2>1. TheResult(w).server \in Server
    BY <1>16, Held DEF ReadOwner
  <2>2. wowner' \in [Worker -> ServerOrNone]
    BY <1>16, <2>1 DEF ReadOwner
  <2> QED
    BY <1>16, <2>2 DEF ReadOwner, roomVars, outboxVars, workerVars, histVars
<1>17. ASSUME NEW w \in Worker, IssueNextMatch(w) PROVE TypeOK'
  <2>1. row' \in [Match -> ServerOrNone]
    BY <1>17 DEF IssueNextMatch
  <2>2. wstep' \in [Worker -> WorkerStep]
    BY <1>17 DEF IssueNextMatch
  <2>3. unassigned' \subseteq Match
    BY <1>17 DEF IssueNextMatch, MayIssue
  <2> QED
    BY <1>17, <2>1, <2>2, <2>3 DEF IssueNextMatch, roomVars, outboxVars, workerVars, histVars
<1>18. ASSUME NEW w \in Worker, ReassignToOwner(w) PROVE TypeOK'
  <2>1. wowner[w] \in Server /\ NextMatchId(TheResult(w).match) \in Match
    BY <1>18, HeldGrant DEF ReassignToOwner
  <2>2. row' \in [Match -> ServerOrNone]
    BY <1>18, <2>1, ReassignedRows DEF ReassignToOwner
  <2> QED
    BY <1>18, <2>2 DEF ReassignToOwner, roomVars, outboxVars, workerVars, histVars
<1>19. ASSUME NEW w \in Worker, SendGrant(w) PROVE TypeOK'
  <2>1. wowner[w] \in Server /\ NextMatchId(TheResult(w).match) \in Match
    BY <1>19, HeldGrant DEF SendGrant
  <2>2. Append(grants[wowner[w]], NextMatchId(TheResult(w).match)) \in Seq(Match)
    BY <2>1
  <2>3. grants' \in [Server -> Seq(Match)]
    BY <1>19, <2>1, <2>2 DEF SendGrant
  <2> QED
    BY <1>19, <2>3 DEF SendGrant, roomVars, outboxVars, workerVars, histVars
<1>20. ASSUME NEW w \in Worker, WriteReceipt(w) PROVE TypeOK'
  <2>1. TheResult(w).match \in Match
    BY <1>20, Held DEF WriteReceipt
  <2> QED
    BY <1>20, <2>1 DEF WriteReceipt, roomVars, outboxVars, workerVars, histVars
<1>21. ASSUME NEW w \in Worker, Ack(w) PROVE TypeOK'
  BY <1>21 DEF Ack, roomVars, outboxVars, histVars
<1>22. ASSUME NEW w \in Worker, Throw(w) PROVE TypeOK'
  BY <1>22 DEF Throw, roomVars, outboxVars, histVars
<1>23. ASSUME NEW q \in Request, ResumeReads(q) PROVE TypeOK'
  BY <1>23 DEF ResumeReads, roomVars, outboxVars, workerVars, histVars
<1>24. ASSUME NEW q \in Request, ResumeReassigns(q) PROVE TypeOK'
  <2>1. request[q].server \in Server
    BY <1>24 DEF ResumeReassigns
  <2>2. row' \in [Match -> ServerOrNone]
    BY <1>24, <2>1, ReassignedRows DEF ResumeReassigns
  <2> DEFINE R == [step: {"idle", "reassign", "reserve"},
                   server: ServerOrNone, match: MatchOrNone]
  <2>0. request[q] \in R
    OBVIOUS
  <2>3. [request[q] EXCEPT !.step = "reserve"] \in R
    BY <2>0
  <2>4. request' \in [Request -> R]
    BY <1>24, <2>3 DEF ResumeReassigns
  <2> QED
    BY <1>24, <2>2, <2>4 DEF ResumeReassigns, roomVars, outboxVars, workerVars, histVars
<1>25. ASSUME NEW q \in Request, ResumeConnects(q) PROVE TypeOK'
  BY <1>25 DEF ResumeConnects, outboxVars, workerVars, histVars
<1>26. ASSUME NEW m \in Match, LeaseExpires(m) PROVE TypeOK'
  BY <1>26 DEF LeaseExpires, roomVars, outboxVars, workerVars, histVars
<1>27. CASE RedisForgets
  BY <1>27 DEF RedisForgets, roomVars, outboxVars, workerVars, histVars
<1>28. CASE JoinStep
  <2>1. unassigned' \subseteq Match
    BY <1>28 DEF JoinStep, JoinIsUndone, JoinIsRepeated
  <2> QED
    BY <1>28, <2>1, JoinFrame
<1> QED
  BY <1>1, <1>2, <1>3, <1>4, <1>5, <1>6, <1>7, <1>8, <1>9, <1>10, <1>11, <1>12, <1>13,
     <1>14, <1>15, <1>16, <1>17, <1>18, <1>19, <1>20, <1>21, <1>22, <1>23, <1>24, <1>25,
     <1>26, <1>27, <1>28 DEF Next, RoomStep, OutboxStep, WorkerStepOf, ResumeStep, RedisStep

\* Running games, grants and resumes go on naming a server.
LEMMA PlaceStep ==
    ASSUME TypeOK, PlaceInv, ReceiptInv, Next
    PROVE  PlaceInv'
<1> USE DEF TypeOK, PlaceInv, ServerOrNone, WorkerStep, NoRequest
<1>1. CASE RequestStart
  BY <1>1 DEF RequestStart, GameId, workerVars
<1>2. CASE GameEnds
  BY <1>2 DEF GameEnds, workerVars
<1>3. CASE RoomCloses
  BY <1>3 DEF RoomCloses, workerVars
<1>4. CASE EntryStep
  BY <1>4, EntryFrame
<1>5. ASSUME NEW p \in Server, RoomMoves(p) PROVE PlaceInv'
  BY <1>5, PipelineAssumption DEF RoomMoves, roomVars, outboxVars, workerVars, histVars
<1>6. ASSUME NEW s \in Server, ServerDies(s) PROVE PlaceInv'
  BY <1>6 DEF ServerDies, workerVars
<1>7. ASSUME NEW s \in Server, PersistPending(s) PROVE PlaceInv'
  BY <1>7 DEF PersistPending, roomVars, workerVars
<1>8. ASSUME NEW s \in Server, PublishFails(s) PROVE PlaceInv'
  BY <1>8 DEF PublishFails, roomVars, workerVars
<1>9. ASSUME NEW s \in Server, NEW r \in saving[s], Enqueue(s, r) PROVE PlaceInv'
  BY <1>9 DEF Enqueue, roomVars, workerVars
<1>10. ASSUME NEW s \in Server, NEW r \in journal, Acknowledge(s, r) PROVE PlaceInv'
  BY <1>10 DEF Acknowledge, roomVars, workerVars
<1>11. ASSUME NEW s \in Server, NEW r \in journal, TakeLease(s, r) PROVE PlaceInv'
  BY <1>11 DEF TakeLease, roomVars, workerVars
<1>12. ASSUME NEW s \in Server, NEW e \in Entry, Publish(s, e) PROVE PlaceInv'
  BY <1>12 DEF Publish, roomVars, workerVars
<1>13. ASSUME NEW s \in Server, GrantMatch(s) PROVE PlaceInv'
  BY <1>13 DEF GrantMatch, workerVars
<1>14. ASSUME NEW s \in Server, GrantExpires(s) PROVE PlaceInv'
  BY <1>14 DEF GrantExpires, roomVars, workerVars
<1>15. ASSUME NEW w \in Worker, NEW e \in stream, Record(w, e) PROVE PlaceInv'
  BY <1>15 DEF Record, AfterRecord, roomVars
<1>16. ASSUME NEW w \in Worker, ReadOwner(w) PROVE PlaceInv'
  <2>1. TheResult(w).server \in Server
    BY <1>16, Held DEF ReadOwner
  <2>2. wowner'[w] # NoServer
    BY <1>16, <2>1, PipelineAssumption DEF ReadOwner
  <2> QED
    BY <1>16, <2>2 DEF ReadOwner, roomVars, outboxVars, workerVars, histVars
<1>17. ASSUME NEW w \in Worker, IssueNextMatch(w) PROVE PlaceInv'
  BY <1>17 DEF IssueNextMatch, roomVars
<1>18. ASSUME NEW w \in Worker, ReassignToOwner(w) PROVE PlaceInv'
  BY <1>18 DEF ReassignToOwner, roomVars
<1>19. ASSUME NEW w \in Worker, SendGrant(w) PROVE PlaceInv'
  BY <1>19 DEF SendGrant, roomVars
<1>20. ASSUME NEW w \in Worker, WriteReceipt(w) PROVE PlaceInv'
  BY <1>20 DEF WriteReceipt, roomVars
<1>21. ASSUME NEW w \in Worker, Ack(w) PROVE PlaceInv'
  BY <1>21 DEF Ack, roomVars
<1>22. ASSUME NEW w \in Worker, Throw(w) PROVE PlaceInv'
  BY <1>22 DEF Throw, roomVars
<1>23. ASSUME NEW q \in Request, ResumeReads(q) PROVE PlaceInv'
  BY <1>23 DEF ResumeReads, roomVars, workerVars
<1>24. ASSUME NEW q \in Request, ResumeReassigns(q) PROVE PlaceInv'
  <2>1. \A p \in Request : request'[p].step = "reassign" =>
           request[p].step = "reassign" /\ request'[p].server = request[p].server
    BY <1>24 DEF ResumeReassigns
  <2> QED
    BY <1>24, <2>1 DEF ResumeReassigns, roomVars, outboxVars, workerVars, histVars
<1>25. ASSUME NEW q \in Request, ResumeConnects(q) PROVE PlaceInv'
  BY <1>25 DEF ResumeConnects, workerVars
<1>26. CASE RedisStep \/ JoinStep
  BY <1>26, RedisFrame, JoinFrame
<1> QED
  BY <1>1, <1>2, <1>3, <1>4, <1>5, <1>6, <1>7, <1>8, <1>9, <1>10, <1>11, <1>12, <1>13,
     <1>14, <1>15, <1>16, <1>17, <1>18, <1>19, <1>20, <1>21, <1>22, <1>23, <1>24, <1>25,
     <1>26 DEF Next, RoomStep, OutboxStep, WorkerStepOf, ResumeStep

\* No step loses a result: what leaves memory is on disk or perished with its
\* process, what leaves the disk has a receipt.
LEMMA KeptStep ==
    ASSUME TypeOK, PlaceInv, ReceiptInv, NoResultIsLost, Next
    PROVE  NoResultIsLost'
<1> USE DEF NoResultIsLost, TypeOK, PlaceInv, ServerOrNone
<1>1. CASE RequestStart
  BY <1>1 DEF RequestStart, GameId, outboxVars
<1>2. CASE GameEnds
  <2> DEFINE x == [match |-> current, server |-> at]
  <2>1. at \in Server /\ x \in saving'[at]
    BY <1>2 DEF GameEnds
  <2>2. \A s \in Server : saving[s] \subseteq saving'[s]
    BY <1>2 DEF GameEnds
  <2>3. finished' = finished \cup {x}
    BY <1>2 DEF GameEnds
  <2> QED
    BY <1>2, <2>1, <2>2, <2>3 DEF GameEnds, roomVars, outboxVars, workerVars, histVars
<1>3. CASE RoomCloses
  BY <1>3 DEF RoomCloses, outboxVars, histVars
<1>4. CASE EntryStep
  BY <1>4, EntryFrame
<1>5. ASSUME NEW p \in Server, RoomMoves(p) PROVE NoResultIsLost'
  BY <1>5 DEF RoomMoves, outboxVars, histVars
<1>6. ASSUME NEW s \in Server, ServerDies(s) PROVE NoResultIsLost'
  <2>1. \A p \in Server : p # s => saving'[p] = saving[p] /\ queue'[p] = queue[p]
    BY <1>6 DEF ServerDies
  <2>2. \A r : r \in saving[s] \cup queue[s] => r \in journal \/ r \in perished'
    BY <1>6 DEF ServerDies
  <2> QED
    BY <1>6, <2>1, <2>2 DEF ServerDies, roomVars, outboxVars, workerVars, histVars
<1>7. ASSUME NEW s \in Server, PersistPending(s) PROVE NoResultIsLost'
  <2>1. /\ journal \subseteq journal' /\ queue[s] \subseteq journal' \cup queue'[s]
        /\ \A p \in Server : p # s => queue'[p] = queue[p]
    BY <1>7, PersistKeeps DEF PersistPending
  <2> QED
    BY <1>7, <2>1 DEF PersistPending, histVars
<1>8. ASSUME NEW s \in Server, PublishFails(s) PROVE NoResultIsLost'
  BY <1>8 DEF PublishFails, histVars
<1>9. ASSUME NEW s \in Server, NEW r \in saving[s], Enqueue(s, r) PROVE NoResultIsLost'
  <2>1. \A p \in Server : p # s => saving'[p] = saving[p]
    BY <1>9 DEF Enqueue
  <2>2. saving[s] = saving'[s] \cup {r}
    BY <1>9 DEF Enqueue
  <2>3. /\ journal \subseteq journal' /\ queue[s] \cup {r} \subseteq journal' \cup queue'[s]
        /\ \A p \in Server : p # s => queue'[p] = queue[p]
    BY <1>9, PersistKeeps DEF Enqueue
  <2> QED
    BY <1>9, <2>1, <2>2, <2>3 DEF Enqueue, histVars
<1>10. ASSUME NEW s \in Server, NEW r \in journal, Acknowledge(s, r) PROVE NoResultIsLost'
  <2>1. r.match \in recorded
    BY <1>10 DEF Acknowledge, Persisted, ReceiptInv
  <2>2. \A x : x \in journal => x \in journal' \/ x = r
    BY <1>10 DEF Acknowledge
  <2> QED
    BY <1>10, <2>1, <2>2 DEF Acknowledge, roomVars, outboxVars, workerVars, histVars
<1>11. ASSUME NEW s \in Server, NEW r \in journal, TakeLease(s, r) PROVE NoResultIsLost'
  BY <1>11 DEF TakeLease, histVars
<1>12. ASSUME NEW s \in Server, NEW e \in Entry, Publish(s, e) PROVE NoResultIsLost'
  BY <1>12 DEF Publish, histVars
<1>13. ASSUME NEW s \in Server, GrantMatch(s) PROVE NoResultIsLost'
  BY <1>13 DEF GrantMatch, outboxVars, histVars
<1>14. ASSUME NEW s \in Server, GrantExpires(s) PROVE NoResultIsLost'
  BY <1>14 DEF GrantExpires, outboxVars, histVars
<1>15. ASSUME NEW w \in Worker, WorkerStepOf(w) PROVE NoResultIsLost'
  BY <1>15, WorkerFrame
<1>16. ASSUME NEW q \in Request, ResumeStep(q) PROVE NoResultIsLost'
  BY <1>16, ResumeFrame
<1>17. CASE RedisStep \/ JoinStep
  BY <1>17, RedisFrame, JoinFrame
<1> QED
  BY <1>1, <1>2, <1>3, <1>4, <1>5, <1>6, <1>7, <1>8, <1>9, <1>10, <1>11, <1>12, <1>13,
     <1>14, <1>15, <1>16, <1>17 DEF Next, RoomStep, OutboxStep

\* A receipt is written, and a worker goes past record(), only for a stored result.
LEMMA ReceiptStep ==
    ASSUME TypeOK, ReceiptInv, Next
    PROVE  ReceiptInv'
<1> USE DEF ReceiptInv, WorkerStep
<1>1. CASE RoomStep
  BY <1>1, RoomFrame
<1>2. ASSUME NEW s \in Server, OutboxStep(s) PROVE ReceiptInv'
  BY <1>2, OutboxFrame
<1>3. ASSUME NEW w \in Worker, NEW e \in stream, Record(w, e) PROVE ReceiptInv'
  <2>1. e \in Entry
    BY DEF TypeOK
  <2>2. recorded \subseteq recorded'
    BY <1>3 DEF Record, Committed
  <2>3. Outcome(e.result) # "invalid" => e.result.match \in recorded'
    BY <1>3 DEF Record, Committed, Outcome
  <2>4. wentry'[w] = {e} /\ (wstep'[w] = "ack" \/ Outcome(e.result) # "invalid")
    BY <1>3 DEF Record, AfterRecord, TypeOK
  <2>5. \A v \in Worker : v # w => wstep'[v] = wstep[v] /\ wentry'[v] = wentry[v]
    BY <1>3 DEF Record, TypeOK
  <2>6. receipt' = receipt
    BY <1>3 DEF Record
  <2> QED
    BY <2>1, <2>2, <2>3, <2>4, <2>5, <2>6
<1>4. ASSUME NEW w \in Worker, ReadOwner(w) PROVE ReceiptInv'
  <2>1. wstep[w] = "owner" /\ UNCHANGED <<recorded, receipt, wentry>>
    BY <1>4 DEF ReadOwner
  <2>2. \A v \in Worker : v # w => wstep'[v] = wstep[v]
    BY <1>4 DEF ReadOwner, TypeOK
  <2> QED
    BY <2>1, <2>2
<1>5. ASSUME NEW w \in Worker, IssueNextMatch(w) PROVE ReceiptInv'
  <2>1. wstep[w] = "issue" /\ UNCHANGED <<recorded, receipt, wentry>>
    BY <1>5 DEF IssueNextMatch
  <2>2. \A v \in Worker : v # w => wstep'[v] = wstep[v]
    BY <1>5 DEF IssueNextMatch, TypeOK
  <2> QED
    BY <2>1, <2>2
<1>6. ASSUME NEW w \in Worker, ReassignToOwner(w) PROVE ReceiptInv'
  <2>1. wstep[w] = "reassign" /\ UNCHANGED <<recorded, receipt, wentry>>
    BY <1>6 DEF ReassignToOwner
  <2>2. \A v \in Worker : v # w => wstep'[v] = wstep[v]
    BY <1>6 DEF ReassignToOwner, TypeOK
  <2> QED
    BY <2>1, <2>2
<1>7. ASSUME NEW w \in Worker, SendGrant(w) PROVE ReceiptInv'
  <2>1. wstep[w] = "send" /\ UNCHANGED <<recorded, receipt, wentry>>
    BY <1>7 DEF SendGrant
  <2>2. \A v \in Worker : v # w => wstep'[v] = wstep[v]
    BY <1>7 DEF SendGrant, TypeOK
  <2> QED
    BY <2>1, <2>2
<1>8. ASSUME NEW w \in Worker, WriteReceipt(w) PROVE ReceiptInv'
  <2>1. TheResult(w).match \in recorded
    BY <1>8, Held DEF WriteReceipt
  <2>2. receipt' \subseteq recorded' /\ recorded' = recorded /\ wentry' = wentry
    BY <1>8, <2>1 DEF WriteReceipt
  <2>3. \A v \in Worker : wstep'[v] # "ack" => wstep'[v] = wstep[v]
    BY <1>8 DEF WriteReceipt, TypeOK
  <2> QED
    BY <2>2, <2>3
<1>9. ASSUME NEW w \in Worker, Ack(w) PROVE ReceiptInv'
  <2>1. UNCHANGED <<recorded, receipt>> /\ wstep'[w] = "idle"
    BY <1>9 DEF Ack, TypeOK
  <2>2. \A v \in Worker : v # w => wstep'[v] = wstep[v] /\ wentry'[v] = wentry[v]
    BY <1>9 DEF Ack, TypeOK
  <2> QED
    BY <2>1, <2>2
<1>10. ASSUME NEW w \in Worker, Throw(w) PROVE ReceiptInv'
  <2>1. UNCHANGED <<recorded, receipt>> /\ wstep'[w] = "idle"
    BY <1>10 DEF Throw, TypeOK
  <2>2. \A v \in Worker : v # w => wstep'[v] = wstep[v] /\ wentry'[v] = wentry[v]
    BY <1>10 DEF Throw, TypeOK
  <2> QED
    BY <2>1, <2>2
<1>11. ASSUME NEW q \in Request, ResumeStep(q) PROVE ReceiptInv'
  BY <1>11, ResumeFrame
<1>12. CASE RedisStep \/ JoinStep
  BY <1>12, RedisFrame, JoinFrame
<1> QED
  BY <1>1, <1>2, <1>3, <1>4, <1>5, <1>6, <1>7, <1>8, <1>9, <1>10, <1>11, <1>12 DEF
     Next, WorkerStepOf

\* While rows and recorded results stay, so do the issued ids.
LEMMA IssuedStays ==
    ASSUME recorded \subseteq recorded',
           \A k \in Match : row[k] # NoServer => row'[k] # NoServer
    PROVE  Issued \subseteq Issued' /\ Seq(Issued) \subseteq Seq(Issued')
<1>1. Issued \subseteq Issued'
  BY DEF Issued
<1>2. ASSUME NEW A, NEW B, A \subseteq B PROVE Seq(A) \subseteq Seq(B)
  BY <1>2
<1> QED
  BY <1>1, <1>2

\* Rows are not deleted and results are not taken back.
DatabaseOnlyGrows ==
    /\ recorded \subseteq recorded'
    /\ \A k \in Match : row[k] # NoServer => row'[k] # NoServer

\* No step deletes a row or takes a recorded result back.
LEMMA GrowsStep ==
    ASSUME TypeOK, PlaceInv, GrantInv, Next
    PROVE  DatabaseOnlyGrows
<1> USE DEF DatabaseOnlyGrows
<1>1. CASE RoomStep
  BY <1>1, RoomFrame
<1>2. ASSUME NEW s \in Server, OutboxStep(s) PROVE DatabaseOnlyGrows
  BY <1>2, OutboxFrame
<1>3. ASSUME NEW w \in Worker, NEW e \in stream, Record(w, e) PROVE DatabaseOnlyGrows
  BY <1>3 DEF Record, Committed, roomVars, outboxVars, workerVars, histVars
<1>4. ASSUME NEW w \in Worker, ReadOwner(w) PROVE DatabaseOnlyGrows
  BY <1>4 DEF ReadOwner
<1>5. ASSUME NEW w \in Worker, IssueNextMatch(w) PROVE DatabaseOnlyGrows
  <2>1. wowner[w] # NoServer /\ recorded' = recorded
    BY <1>5 DEF IssueNextMatch, PlaceInv
  <2> QED
    BY <1>5, <2>1 DEF IssueNextMatch, TypeOK
<1>6. ASSUME NEW w \in Worker, ReassignToOwner(w) PROVE DatabaseOnlyGrows
  <2>1. wowner[w] \in Server /\ NextMatchId(TheResult(w).match) \in Match
    BY <1>6, HeldGrant DEF ReassignToOwner, TypeOK, PlaceInv, ServerOrNone
  <2>2. row \in [Match -> ServerOrNone]
    BY DEF TypeOK
  <2> QED
    BY <1>6, <2>1, <2>2, ReassignedRows DEF ReassignToOwner
<1>7. ASSUME NEW w \in Worker, SendGrant(w) PROVE DatabaseOnlyGrows
  BY <1>7 DEF SendGrant
<1>8. ASSUME NEW w \in Worker, WriteReceipt(w) PROVE DatabaseOnlyGrows
  BY <1>8 DEF WriteReceipt
<1>9. ASSUME NEW w \in Worker, Ack(w) PROVE DatabaseOnlyGrows
  BY <1>9 DEF Ack
<1>10. ASSUME NEW w \in Worker, Throw(w) PROVE DatabaseOnlyGrows
  BY <1>10 DEF Throw
<1>11. ASSUME NEW q \in Request, ResumeReads(q) PROVE DatabaseOnlyGrows
  BY <1>11 DEF ResumeReads
<1>12. ASSUME NEW q \in Request, ResumeReassigns(q) PROVE DatabaseOnlyGrows
  <2>1. request[q].server \in Server /\ request[q].match \in MatchOrNone
    BY <1>12 DEF ResumeReassigns, TypeOK, PlaceInv, ServerOrNone
  <2> QED
    BY <1>12, <2>1, ReassignedRows DEF ResumeReassigns, TypeOK, MatchOrNone
<1>13. ASSUME NEW q \in Request, ResumeConnects(q) PROVE DatabaseOnlyGrows
  BY <1>13 DEF ResumeConnects
<1>14. CASE RedisStep \/ JoinStep
  BY <1>14, RedisFrame, JoinFrame
<1> QED
  BY <1>1, <1>2, <1>3, <1>4, <1>5, <1>6, <1>7, <1>8, <1>9, <1>10, <1>11, <1>12, <1>13,
     <1>14 DEF Next, WorkerStepOf, ResumeStep

\* Ids reach rows, commands and rooms only after the results before them.
LEMMA GrantStep ==
    ASSUME TypeOK, PlaceInv, ReceiptInv, GrantInv, Next
    PROVE  GrantInv'
<1> USE DEF GrantInv
<1>0. Issued \subseteq Issued' /\ Seq(Issued) \subseteq Seq(Issued')
  BY GrowsStep, IssuedStays DEF DatabaseOnlyGrows
<1>1. CASE RequestStart
  <2>1. GameId \in Issued
    BY <1>1 DEF RequestStart, GameId
  <2> QED
    BY <1>1, <1>0, <2>1 DEF RequestStart, workerVars
<1>2. CASE GameEnds
  BY <1>2, <1>0 DEF GameEnds, workerVars
<1>3. CASE RoomCloses
  BY <1>3, <1>0 DEF RoomCloses, workerVars
<1>4. CASE EntryStep
  BY <1>4, <1>0, EntryFrame
<1>5. ASSUME NEW p \in Server, RoomMoves(p) PROVE GrantInv'
  BY <1>5, <1>0 DEF RoomMoves, workerVars
<1>6. ASSUME NEW s \in Server, ServerDies(s) PROVE GrantInv'
  BY <1>6, <1>0 DEF ServerDies, workerVars
<1>7. ASSUME NEW s \in Server, PersistPending(s) PROVE GrantInv'
  BY <1>7, <1>0 DEF PersistPending, roomVars, workerVars
<1>8. ASSUME NEW s \in Server, PublishFails(s) PROVE GrantInv'
  BY <1>8, <1>0 DEF PublishFails, roomVars, workerVars
<1>9. ASSUME NEW s \in Server, NEW r \in saving[s], Enqueue(s, r) PROVE GrantInv'
  BY <1>9, <1>0 DEF Enqueue, roomVars, workerVars
<1>10. ASSUME NEW s \in Server, NEW r \in journal, Acknowledge(s, r) PROVE GrantInv'
  BY <1>10, <1>0 DEF Acknowledge, roomVars, workerVars
<1>11. ASSUME NEW s \in Server, NEW r \in journal, TakeLease(s, r) PROVE GrantInv'
  BY <1>11, <1>0 DEF TakeLease, roomVars, workerVars
<1>12. ASSUME NEW s \in Server, NEW e \in Entry, Publish(s, e) PROVE GrantInv'
  BY <1>12, <1>0 DEF Publish, roomVars, workerVars
<1>13. ASSUME NEW s \in Server, GrantMatch(s) PROVE GrantInv'
  <2>1. Head(grants[s]) \in Issued /\ Tail(grants[s]) \in Seq(Issued)
    BY <1>13 DEF GrantMatch
  <2>2. \A p \in Server : grants'[p] \in Seq(Issued)
    BY <1>13, <2>1 DEF GrantMatch, TypeOK
  <2>3. granted' \in Issued \cup {NoMatch}
    BY <1>13, <2>1 DEF GrantMatch
  <2> QED
    BY <1>13, <1>0, <2>2, <2>3 DEF GrantMatch, workerVars
<1>14. ASSUME NEW s \in Server, GrantExpires(s) PROVE GrantInv'
  <2>1. Tail(grants[s]) \in Seq(Issued)
    BY <1>14 DEF GrantExpires
  <2>2. \A p \in Server : grants'[p] \in Seq(Issued)
    BY <1>14, <2>1 DEF GrantExpires, TypeOK
  <2> QED
    BY <1>14, <1>0, <2>2 DEF GrantExpires, roomVars, workerVars
<1>15. ASSUME NEW w \in Worker, NEW e \in stream, Record(w, e) PROVE GrantInv'
  <2>1. \A v \in Worker : wstep'[v] \in {"reassign", "send"} =>
           wstep[v] \in {"reassign", "send"} /\ wentry'[v] = wentry[v]
    BY <1>15 DEF Record, AfterRecord, TypeOK
  <2> QED
    BY <1>15, <1>0, <2>1 DEF Record, roomVars
<1>16. ASSUME NEW w \in Worker, ReadOwner(w) PROVE GrantInv'
  <2>1. \A v \in Worker : wstep'[v] \in {"reassign", "send"} =>
           wstep[v] \in {"reassign", "send"} /\ wentry'[v] = wentry[v]
    BY <1>16 DEF ReadOwner, TypeOK
  <2> QED
    BY <1>16, <1>0, <2>1 DEF ReadOwner, roomVars
<1>17. ASSUME NEW w \in Worker, IssueNextMatch(w) PROVE GrantInv'
  <2> DEFINE next == NextMatchId(TheResult(w).match)
  <2>1. /\ TheResult(w).match \in recorded /\ TheResult(w).match \in Match
        /\ TheResult(w).server \in Server
        /\ wowner[w] \in Server
    BY <1>17, Held DEF IssueNextMatch, TypeOK, PlaceInv, ServerOrNone, WorkerStep
  <2>2. CASE row' = row /\ wstep' = [wstep EXCEPT ![w] = "receipt"]
    <3>1. \A v \in Worker : wstep'[v] \in {"reassign", "send"} => wstep[v] = wstep'[v]
      BY <2>2 DEF TypeOK
    <3> QED
      BY <1>17, <1>0, <2>2, <3>1 DEF IssueNextMatch, roomVars
  <2>3. CASE /\ row[TheResult(w).match] = TheResult(w).server /\ next \in Match
             /\ wstep' = [wstep EXCEPT ![w] = "reassign"]
             /\ row' = [row EXCEPT ![next] = IF row[next] = NoServer THEN wowner[w] ELSE row[next]]
    <3>1. \A k \in Match : k < TheResult(w).match => k \in recorded
      BY <2>1, <2>3, PipelineAssumption DEF Issued
    <3>2. \A k \in Match : k < next => k \in recorded
      BY <2>1, <3>1, PipelineAssumption DEF NextMatchId, Match
    <3>3. row'[next] # NoServer
      BY <2>1, <2>3, PipelineAssumption DEF TypeOK
    <3>4. next \in Issued'
      BY <1>17, <2>3, <3>2, <3>3 DEF Issued, IssueNextMatch
    <3>5. \A k \in Match : k # next => row'[k] = row[k]
      BY <2>3 DEF TypeOK
    <3>6. PICK e \in Entry : wentry[w] = {e}
      BY <1>17 DEF IssueNextMatch, ReceiptInv, WorkerStep
    <3>7. NextMatchId(e.result.match) = next /\ wentry' = wentry
      BY <1>17, <3>6, HeldResult DEF IssueNextMatch
    <3>8. \A v \in Worker : v # w => wstep'[v] = wstep[v]
      BY <2>3 DEF TypeOK
    <3>9. \A v \in Worker : wstep'[v] \in {"reassign", "send"} =>
             \E f \in Entry : wentry'[v] = {f} /\ NextMatchId(f.result.match) \in Issued'
      BY <1>0, <3>4, <3>6, <3>7, <3>8
    <3>10. \A m \in Match : row'[m] # NoServer => m \in Issued'
      BY <1>0, <3>4, <3>5
    <3>11. UNCHANGED <<current, granted, grants>>
      BY <1>17 DEF IssueNextMatch, roomVars
    <3> QED
      BY <1>0, <3>9, <3>10, <3>11
  <2>4. \/ row' = row /\ wstep' = [wstep EXCEPT ![w] = "receipt"]
        \/ /\ row[TheResult(w).match] = TheResult(w).server /\ next \in Match
           /\ wstep' = [wstep EXCEPT ![w] = "reassign"]
           /\ row' = [row EXCEPT ![next] = IF row[next] = NoServer THEN wowner[w] ELSE row[next]]
    BY <1>17 DEF IssueNextMatch, MayIssue
  <2> QED
    BY <2>2, <2>3, <2>4
<1>18. ASSUME NEW w \in Worker, ReassignToOwner(w) PROVE GrantInv'
  <2>1. \A v \in Worker : wstep'[v] \in {"reassign", "send"} =>
           wstep[v] \in {"reassign", "send"} /\ wentry'[v] = wentry[v]
    BY <1>18 DEF ReassignToOwner, TypeOK
  <2>2. NextMatchId(TheResult(w).match) \in Match /\ wowner[w] \in Server
    BY <1>18, HeldGrant DEF ReassignToOwner, TypeOK, PlaceInv, ServerOrNone
  <2>3. row' = Reassigned(NextMatchId(TheResult(w).match), wowner[w])
    BY <1>18 DEF ReassignToOwner
  <2>4. row \in [Match -> ServerOrNone]
    BY DEF TypeOK
  <2>5. \A k \in Match : row'[k] # NoServer => row[k] # NoServer
    BY <2>2, <2>3, <2>4, ReassignedRows
  <2> QED
    BY <1>18, <1>0, <2>1, <2>5 DEF ReassignToOwner, roomVars
<1>19. ASSUME NEW w \in Worker, SendGrant(w) PROVE GrantInv'
  <2>1. \A v \in Worker : wstep'[v] \in {"reassign", "send"} =>
           wstep[v] \in {"reassign", "send"} /\ wentry'[v] = wentry[v]
    BY <1>19 DEF SendGrant, TypeOK
  <2>2. NextMatchId(TheResult(w).match) \in Issued /\ wowner[w] \in Server
    BY <1>19, HeldGrant DEF SendGrant, TypeOK, PlaceInv, ServerOrNone
  <2>3. Append(grants[wowner[w]], NextMatchId(TheResult(w).match)) \in Seq(Issued)
    BY <2>2
  <2>4. \A p \in Server : grants'[p] \in Seq(Issued)
    BY <1>19, <2>2, <2>3 DEF SendGrant, TypeOK
  <2> QED
    BY <1>19, <1>0, <2>1, <2>4 DEF SendGrant, roomVars
<1>20. ASSUME NEW w \in Worker, WriteReceipt(w) PROVE GrantInv'
  <2>1. \A v \in Worker : wstep'[v] \in {"reassign", "send"} =>
           wstep[v] \in {"reassign", "send"} /\ wentry'[v] = wentry[v]
    BY <1>20 DEF WriteReceipt, TypeOK
  <2> QED
    BY <1>20, <1>0, <2>1 DEF WriteReceipt, roomVars
<1>21. ASSUME NEW w \in Worker, Ack(w) PROVE GrantInv'
  <2>1. \A v \in Worker : wstep'[v] \in {"reassign", "send"} =>
           wstep[v] \in {"reassign", "send"} /\ wentry'[v] = wentry[v]
    BY <1>21 DEF Ack, TypeOK
  <2> QED
    BY <1>21, <1>0, <2>1 DEF Ack, roomVars
<1>22. ASSUME NEW w \in Worker, Throw(w) PROVE GrantInv'
  <2>1. \A v \in Worker : wstep'[v] \in {"reassign", "send"} =>
           wstep[v] \in {"reassign", "send"} /\ wentry'[v] = wentry[v]
    BY <1>22 DEF Throw, TypeOK
  <2> QED
    BY <1>22, <1>0, <2>1 DEF Throw, roomVars
<1>23. ASSUME NEW q \in Request, ResumeReads(q) PROVE GrantInv'
  BY <1>23, <1>0 DEF ResumeReads, roomVars, workerVars
<1>24. ASSUME NEW q \in Request, ResumeReassigns(q) PROVE GrantInv'
  <2>1. request[q].server \in Server /\ request[q].match \in MatchOrNone
    BY <1>24 DEF ResumeReassigns, TypeOK, PlaceInv, ServerOrNone
  <2>2. row \in [Match -> ServerOrNone]
    BY DEF TypeOK
  <2>3. \/ row' = row
        \/ request[q].match \in Match /\ row' = Reassigned(request[q].match, request[q].server)
    BY <1>24, <2>1 DEF ResumeReassigns, MatchOrNone
  <2>4. \A k \in Match : row'[k] # NoServer => row[k] # NoServer
    BY <2>1, <2>2, <2>3, ReassignedRows
  <2> QED
    BY <1>24, <1>0, <2>4 DEF ResumeReassigns, roomVars, workerVars
<1>25. ASSUME NEW q \in Request, ResumeConnects(q) PROVE GrantInv'
  BY <1>25, <1>0 DEF ResumeConnects, workerVars
<1>26. CASE RedisStep \/ JoinStep
  BY <1>26, <1>0, RedisFrame, JoinFrame
<1> QED
  BY <1>1, <1>2, <1>3, <1>4, <1>5, <1>6, <1>7, <1>8, <1>9, <1>10, <1>11, <1>12, <1>13,
     <1>14, <1>15, <1>16, <1>17, <1>18, <1>19, <1>20, <1>21, <1>22, <1>23, <1>24, <1>25,
     <1>26 DEF Next, RoomStep, OutboxStep, WorkerStepOf, ResumeStep

\* The first match has a row and nothing is under way.
LEMMA InvInit == Init => PipelineInv
<1> SUFFICES ASSUME Init PROVE PipelineInv
  OBVIOUS
<1>1. TypeOK
  BY TypeInit
<1>2. PlaceInv /\ NoResultIsLost /\ ReceiptInv
  BY DEF Init, PlaceInv, NoResultIsLost, ReceiptInv, NoRequest
<1>3. \A k \in Match : ~ (k < 0)
  BY PipelineAssumption DEF Match
<1>4. 0 \in Issued /\ \A m \in Match : row[m] # NoServer => m = 0
  BY <1>1, <1>3, PipelineAssumption DEF Init, Issued, TypeOK
<1>5. GrantInv
  BY <1>4 DEF Init, GrantInv
<1> QED
  BY <1>1, <1>2, <1>5 DEF PipelineInv

\* The induction step, from the lemmas on the parts of the invariant.
LEMMA InvStep == PipelineInv /\ [Next]_vars => PipelineInv'
<1> SUFFICES ASSUME PipelineInv, [Next]_vars PROVE PipelineInv'
  OBVIOUS
<1>1. CASE Next
  <2>1. TypeOK' /\ PlaceInv'
    BY <1>1, TypeStep, PlaceStep DEF PipelineInv
  <2>2. NoResultIsLost' /\ ReceiptInv'
    BY <1>1, KeptStep, ReceiptStep DEF PipelineInv
  <2>3. GrantInv'
    BY <1>1, GrantStep DEF PipelineInv
  <2> QED
    BY <2>1, <2>2, <2>3 DEF PipelineInv
<1>2. CASE UNCHANGED vars
  <2>1. UNCHANGED <<at, current, granted, played, playing, connected, drained, dead, saving,
                    queue, publishing, journal, lease, stream, receipt, grants, directory,
                    row, recorded, unassigned, wstep, wentry, wowner, request, finished,
                    perished, plays>>
    BY <1>2 DEF vars, roomVars, outboxVars, workerVars, histVars
  <2>2. Issued' = Issued
    BY <2>1 DEF Issued
  <2> QED
    BY <2>1, <2>2 DEF PipelineInv, TypeOK, PlaceInv, NoResultIsLost, ReceiptInv, GrantInv
<1> QED
  BY <1>1, <1>2

\* The invariant holds in every run, however often processes die, calls fail, Redis
\* forgets and workers repeat each other (result-outbox.ts, result.worker.ts).
THEOREM Invariant == Spec => []PipelineInv
BY InvInit, InvStep, PTL DEF Spec

\* No result of a finished game is lost: the journal keeps it until the database has
\* it (ResultOutbox.#flushJournal, ResultJournal.acknowledge).
THEOREM ResultsSurvive == Spec => []NoResultIsLost
<1>1. PipelineInv => NoResultIsLost
  BY DEF PipelineInv
<1> QED
  BY Invariant, <1>1, PTL

\* A room plays and is promised only issued ids, each after the result before it is
\* stored (grantNextMatch, issueNextMatch, Room.grantMatchId).
THEOREM GrantsFollow == Spec => []GrantsFollowStoredResults
<1>1. PipelineInv => GrantsFollowStoredResults
  BY PipelineAssumption DEF PipelineInv, GrantInv, Issued, GrantsFollowStoredResults, Match
<1> QED
  BY Invariant, <1>1, PTL

(* A single worker grants no id twice.                                          *)

\* The result a worker holds is that of a game that ended.
LEMMA HeldFinished ==
    ASSUME ReceiptInv, TraceInv, NEW w \in Worker, wstep[w] \in WorkerStep \ {"idle", "ack"}
    PROVE  TheResult(w) \in finished
<1>1. PICK e \in Entry : wentry[w] = {e}
  BY DEF ReceiptInv
<1>2. e \in UNION {wentry[v] : v \in Worker}
  BY <1>1
<1> QED
  BY <1>1, <1>2, HeldResult DEF TraceInv

\* What is on disk or in the queue afterwards was there, or was to be persisted.
LEMMA PersistAdds ==
    ASSUME NEW s \in Server, NEW pending, Persist(s, pending), s \in DOMAIN queue
    PROVE  /\ journal' \subseteq journal \cup pending /\ queue'[s] \subseteq pending
           /\ \A p \in Server : p # s => queue'[p] = queue[p]
BY DEF Persist

\* Results come from games that ended, whichever way they go.
LEMMA TraceStep ==
    ASSUME TypeOK, PlaceInv, ReceiptInv, TraceInv, Next
    PROVE  TraceInv'
<1> USE DEF TraceInv, TypeOK
<1>1. CASE RequestStart
  BY <1>1 DEF RequestStart, outboxVars, workerVars
<1>2. CASE GameEnds
  <2> DEFINE x == [match |-> current, server |-> at]
  <2>1. at \in Server /\ finished' = finished \cup {x} /\ played' = played /\ played
    BY <1>2 DEF GameEnds, PlaceInv, ServerOrNone
  <2>2. \A s \in Server : saving'[s] \subseteq saving[s] \cup {x}
    BY <1>2, <2>1 DEF GameEnds
  <2>3. UNCHANGED <<queue, publishing, journal, stream, recorded, wentry>>
    BY <1>2 DEF GameEnds, workerVars
  <2> QED
    BY <2>1, <2>2, <2>3
<1>3. CASE RoomCloses \/ EntryStep \/ \E p \in Server : RoomMoves(p)
  BY <1>3, EntryFrame DEF RoomCloses, RoomMoves, roomVars, outboxVars, workerVars, histVars
<1>4. ASSUME NEW s \in Server, ServerDies(s) PROVE TraceInv'
  <2>1. /\ UNCHANGED <<played, journal, stream, recorded, wentry, finished>>
        /\ playing' => playing
    BY <1>4 DEF ServerDies, workerVars
  <2>2. \A p \in Server : /\ saving'[p] \subseteq saving[p] /\ queue'[p] \subseteq queue[p]
                          /\ publishing'[p] \subseteq publishing[p]
    BY <1>4 DEF ServerDies
  <2> QED
    BY <2>1, <2>2
<1>5. ASSUME NEW s \in Server, PersistPending(s) PROVE TraceInv'
  <2>1. /\ journal' \subseteq journal \cup queue[s] /\ queue'[s] \subseteq queue[s]
        /\ \A p \in Server : p # s => queue'[p] = queue[p]
    BY <1>5, PersistAdds DEF PersistPending
  <2>2. UNCHANGED <<played, playing, saving, publishing, stream, recorded, wentry, finished>>
    BY <1>5 DEF PersistPending, roomVars, workerVars, histVars
  <2>3. \A p \in Server : queue'[p] \subseteq queue[p]
    BY <2>1
  <2>4. journal' \subseteq finished
    BY <2>1
  <2> QED
    BY <2>2, <2>3, <2>4
<1>6. ASSUME NEW s \in Server, NEW r \in saving[s], Enqueue(s, r) PROVE TraceInv'
  <2>1. /\ journal' \subseteq journal \cup queue[s] \cup {r} /\ queue'[s] \subseteq queue[s] \cup {r}
        /\ \A p \in Server : p # s => queue'[p] = queue[p]
    BY <1>6, PersistAdds DEF Enqueue
  <2>2. UNCHANGED <<played, playing, publishing, stream, recorded, wentry, finished>>
    BY <1>6 DEF Enqueue, roomVars, workerVars, histVars
  <2>3. \A p \in Server : saving'[p] \subseteq saving[p]
    BY <1>6 DEF Enqueue
  <2> QED
    BY <2>1, <2>2, <2>3
<1>7. ASSUME NEW s \in Server, NEW r \in journal, Acknowledge(s, r) PROVE TraceInv'
  BY <1>7 DEF Acknowledge, roomVars, workerVars, histVars
<1>8. ASSUME NEW s \in Server, NEW r \in journal, TakeLease(s, r) PROVE TraceInv'
  <2>1. \A p \in Server : publishing'[p] \subseteq publishing[p] \cup {r}
    BY <1>8 DEF TakeLease
  <2> QED
    BY <1>8, <2>1 DEF TakeLease, roomVars, workerVars, histVars
<1>9. ASSUME NEW s \in Server, NEW e \in Entry, Publish(s, e) PROVE TraceInv'
  <2>1. \A p \in Server : publishing'[p] \subseteq publishing[p]
    BY <1>9 DEF Publish
  <2>2. stream' = stream \cup {e} /\ e.result \in finished
    BY <1>9 DEF Publish
  <2>3. UNCHANGED <<played, playing, saving, queue, journal, recorded, wentry, finished>>
    BY <1>9 DEF Publish, roomVars, workerVars, histVars
  <2> QED
    BY <2>1, <2>2, <2>3
<1>10. ASSUME NEW s \in Server, PublishFails(s) PROVE TraceInv'
  <2>1. \A p \in Server : publishing'[p] \subseteq publishing[p]
    BY <1>10 DEF PublishFails
  <2>2. PICK r \in publishing[s] :
           stream' = stream \/ \E n \in 1..MaxCopies : stream' = stream \cup {[result |-> r, copy |-> n]}
    BY <1>10 DEF PublishFails
  <2>3. \A e \in stream' : e \in stream \/ e.result = r
    BY <2>2
  <2>4. UNCHANGED <<played, playing, saving, queue, journal, recorded, wentry, finished>>
    BY <1>10 DEF PublishFails, roomVars, workerVars, histVars
  <2> QED
    BY <2>1, <2>2, <2>3, <2>4
<1>11. ASSUME NEW s \in Server, GrantMatch(s) \/ GrantExpires(s) PROVE TraceInv'
  BY <1>11 DEF GrantMatch, GrantExpires, roomVars, outboxVars, workerVars, histVars
<1>12. ASSUME NEW w \in Worker, NEW e \in stream, Record(w, e) PROVE TraceInv'
  <2>1. e.result \in finished /\ played
    OBVIOUS
  <2>2. \A v \in Worker : wentry'[v] \subseteq wentry[v] \cup {e}
    BY <1>12 DEF Record
  <2>3. UNCHANGED <<played, playing, saving, queue, publishing, journal, stream, finished>>
    BY <1>12 DEF Record, roomVars, outboxVars, histVars
  <2> QED
    BY <2>1, <2>2, <2>3
<1>13. ASSUME NEW w \in Worker, \/ ReadOwner(w) \/ IssueNextMatch(w) \/ ReassignToOwner(w)
                                \/ SendGrant(w) \/ WriteReceipt(w)
       PROVE  TraceInv'
  BY <1>13 DEF ReadOwner, IssueNextMatch, ReassignToOwner, SendGrant, WriteReceipt,
     roomVars, outboxVars, histVars
<1>14. ASSUME NEW w \in Worker, Ack(w) \/ Throw(w) PROVE TraceInv'
  <2>1. \A v \in Worker : wentry'[v] \subseteq wentry[v]
    BY <1>14 DEF Ack, Throw
  <2>2. stream' \subseteq stream
    BY <1>14 DEF Ack, Throw
  <2>3. UNCHANGED <<played, playing, saving, queue, publishing, journal, recorded, finished>>
    BY <1>14 DEF Ack, Throw, roomVars, outboxVars, histVars
  <2> QED
    BY <2>1, <2>2, <2>3
<1>15. ASSUME NEW q \in Request, ResumeStep(q) PROVE TraceInv'
  BY <1>15, ResumeFrame
<1>16. CASE RedisStep \/ JoinStep
  BY <1>16, RedisFrame, JoinFrame
<1> QED
  BY <1>1, <1>2, <1>3, <1>4, <1>5, <1>6, <1>7, <1>8, <1>9, <1>10, <1>11, <1>12, <1>13,
     <1>14, <1>15, <1>16 DEF Next, RoomStep, OutboxStep, WorkerStepOf

\* Grants are sent only to a server that has the room or gave it away.
LEMMA HomeStep ==
    ASSUME TypeOK, PlaceInv, ReceiptInv, TraceInv, HomeInv, Next
    PROVE  HomeInv'
<1> USE DEF HomeInv, TypeOK
<1>1. CASE RequestStart
  BY <1>1 DEF RequestStart, workerVars
<1>2. CASE GameEnds
  BY <1>2 DEF GameEnds, workerVars
<1>3. CASE RoomCloses
  BY <1>3 DEF RoomCloses
<1>4. CASE EntryStep
  <2>1. directory'.server \in drained \cup {at, NoServer}
    BY <1>4 DEF EntryStep, PublishRoom, EntryRunsOut, BelatedEntry, NoEntry
  <2> QED
    BY <1>4, <2>1, EntryFrame
<1>5. ASSUME NEW p \in Server, RoomMoves(p) PROVE HomeInv'
  BY <1>5 DEF RoomMoves, workerVars, histVars
<1>6. ASSUME NEW s \in Server, ServerDies(s) PROVE HomeInv'
  BY <1>6 DEF ServerDies, workerVars
<1>7. ASSUME NEW s \in Server, \/ PersistPending(s) \/ PublishFails(s)
                               \/ \E r \in saving[s] : Enqueue(s, r)
                               \/ \E r \in journal : Acknowledge(s, r) \/ TakeLease(s, r)
                               \/ \E e \in Entry : Publish(s, e)
      PROVE  HomeInv'
  <2>1. UNCHANGED <<at, drained, directory, wowner, finished, grants>>
    BY <1>7 DEF PersistPending, PublishFails, Enqueue, Acknowledge, TakeLease, Publish,
       roomVars, workerVars, histVars
  <2> QED
    BY <2>1
<1>8. ASSUME NEW s \in Server, GrantMatch(s) \/ GrantExpires(s) PROVE HomeInv'
  <2>1. UNCHANGED <<at, drained, directory, wowner, finished>>
    BY <1>8 DEF GrantMatch, GrantExpires, roomVars, workerVars, histVars
  <2>2. grants[s] # <<>> /\ \A p \in Server : p # s => grants'[p] = grants[p]
    BY <1>8 DEF GrantMatch, GrantExpires
  <2> QED
    BY <2>1, <2>2
<1>9. ASSUME NEW w \in Worker, ReadOwner(w) PROVE HomeInv'
  <2>1. TheResult(w) \in finished
    BY <1>9, HeldFinished DEF ReadOwner, WorkerStep
  <2>2. UNCHANGED <<at, drained, directory, finished, grants>>
    BY <1>9 DEF ReadOwner, roomVars, histVars
  <2>3. at # NoServer => wowner'[w] \in drained \cup {at}
    BY <1>9, <2>1 DEF ReadOwner
  <2>4. \A v \in Worker : v # w => wowner'[v] = wowner[v]
    BY <1>9 DEF ReadOwner
  <2> QED
    BY <2>2, <2>3, <2>4
<1>10. ASSUME NEW w \in Worker, SendGrant(w) PROVE HomeInv'
  <2>1. UNCHANGED <<at, drained, directory, finished, wowner>> /\ wowner[w] \in Server
    BY <1>10 DEF SendGrant, roomVars, histVars, PlaceInv, ServerOrNone
  <2>2. \A p \in Server : p # wowner[w] => grants'[p] = grants[p]
    BY <1>10 DEF SendGrant
  <2>3. at # NoServer => wowner[w] \in drained \cup {at}
    BY <1>10 DEF SendGrant, PlaceInv
  <2> QED
    BY <2>1, <2>2, <2>3
<1>11. ASSUME NEW w \in Worker, \/ \E e \in stream : Record(w, e)
                                \/ IssueNextMatch(w) \/ ReassignToOwner(w) \/ WriteReceipt(w)
       PROVE  HomeInv'
  <2>1. UNCHANGED <<at, drained, directory, wowner, finished, grants>>
    BY <1>11 DEF Record, IssueNextMatch, ReassignToOwner, WriteReceipt, roomVars, histVars
  <2> QED
    BY <2>1
<1>12. ASSUME NEW w \in Worker, Ack(w) \/ Throw(w) PROVE HomeInv'
  <2>1. UNCHANGED <<at, drained, directory, finished, grants>>
    BY <1>12 DEF Ack, Throw, roomVars, histVars
  <2>2. \A v \in Worker : wowner'[v] \in {wowner[v], NoServer}
    BY <1>12 DEF Ack, Throw
  <2> QED
    BY <2>1, <2>2
<1>13. ASSUME NEW q \in Request, ResumeStep(q) PROVE HomeInv'
  BY <1>13, ResumeFrame
<1>14. CASE RedisStep \/ JoinStep
  BY <1>14, RedisFrame, JoinFrame
<1> QED
  BY <1>1, <1>2, <1>3, <1>4, <1>5, <1>6, <1>7, <1>8, <1>9, <1>10, <1>11, <1>12, <1>13,
     <1>14 DEF Next, RoomStep, OutboxStep, WorkerStepOf

\* One result worker: the hypothesis of what follows.
OneWorker == \A v, w \in Worker : v = w

\* Ids below an issued one have results: an issued id is not above one that has none.
LEMMA IssuedOrder ==
    ASSUME NEW k \in Issued, NEW m \in Match, m \notin recorded
    PROVE  k <= m
BY PipelineAssumption DEF Issued, Match

\* No id in the stream of the room's server is older than one before it.
LEMMA OrderStep ==
    ASSUME OneWorker, TypeOK, PlaceInv, ReceiptInv, GrantInv, HomeInv, OrderInv, OnceInv, Next
    PROVE  OrderInv'
<1> USE DEF OrderInv, TypeOK
<1>0. NoMatch \notin Match /\ \A m \in Match : m \in Nat
  BY PipelineAssumption DEF Match
<1>1. CASE RequestStart
  <2>1. UNCHANGED <<at, grants, recorded, wstep, wentry>>
    BY <1>1 DEF RequestStart, workerVars
  <2>2. Latest' = Latest
    BY <1>1 DEF RequestStart, GameId, Latest, OnceInv
  <2> QED
    BY <2>1, <2>2
<1>2. CASE GameEnds \/ RoomCloses \/ EntryStep
  <2>1. UNCHANGED <<current, granted, grants, recorded, wstep, wentry>> /\ at' \in {at, NoServer}
    BY <1>2, EntryFrame DEF GameEnds, RoomCloses, roomVars, workerVars
  <2> QED
    BY <2>1 DEF Latest
<1>3. ASSUME NEW p \in Server, RoomMoves(p) PROVE OrderInv'
  <2>1. UNCHANGED <<current, granted, grants, recorded, wstep, wentry>> /\ at' = p
    BY <1>3 DEF RoomMoves, workerVars
  <2>2. grants'[p] = <<>>
    BY <1>3, <2>1 DEF RoomMoves, HomeInv
  <2> QED
    BY <2>1, <2>2
<1>4. ASSUME NEW s \in Server, ServerDies(s) PROVE OrderInv'
  <2>1. UNCHANGED <<current, granted, grants, recorded, wstep, wentry>> /\ at' \in {at, NoServer}
    BY <1>4 DEF ServerDies, workerVars
  <2> QED
    BY <2>1 DEF Latest
<1>5. ASSUME NEW s \in Server, \/ PersistPending(s) \/ PublishFails(s)
                               \/ \E r \in saving[s] : Enqueue(s, r)
                               \/ \E r \in journal : Acknowledge(s, r) \/ TakeLease(s, r)
                               \/ \E e \in Entry : Publish(s, e)
      PROVE  OrderInv'
  <2>1. UNCHANGED <<at, current, granted, grants, recorded, wstep, wentry>>
    BY <1>5 DEF PersistPending, PublishFails, Enqueue, Acknowledge, TakeLease, Publish,
       roomVars, workerVars
  <2> QED
    BY <2>1 DEF Latest
<1>6. ASSUME NEW s \in Server, GrantMatch(s) \/ GrantExpires(s) PROVE OrderInv'
  <2>1. UNCHANGED <<at, current, recorded, wstep, wentry>>
    BY <1>6 DEF GrantMatch, GrantExpires, roomVars, workerVars
  <2>2. CASE s # at
    <3>1. granted' = granted
      BY <1>6, <2>2 DEF GrantMatch, GrantExpires, roomVars
    <3>2. at # NoServer => grants'[at] = grants[at]
      BY <1>6, <2>2 DEF GrantMatch, GrantExpires, ServerOrNone
    <3> QED
      BY <2>1, <3>1, <3>2 DEF Latest
  <2>3. CASE s = at
    <3>1. PICK g \in Seq(Match) : g = grants[at] /\ g # <<>>
      BY <1>6, <2>3 DEF GrantMatch, GrantExpires
    <3>2. grants'[at] = Tail(g)
      BY <1>6, <2>3, <3>1 DEF GrantMatch, GrantExpires
    <3>3. \A i, j \in 1..Len(g) : Latest <= g[i] /\ (i <= j => g[i] <= g[j])
      BY <2>3, <3>1, PipelineAssumption
    <3>4. granted' \in {granted, g[1]} /\ g[1] \in Match /\ 1 \in 1..Len(g)
      BY <1>6, <3>1, <2>3 DEF GrantMatch, GrantExpires, roomVars
    <3>5. \A i \in 1..Len(Tail(g)) : i + 1 \in 1..Len(g) /\ Tail(g)[i] = g[i + 1] /\ 1 <= i + 1
      BY <3>1
    <3>6. Latest' \in {Latest, g[1]}
      BY <1>0, <2>1, <3>4 DEF Latest
    <3>7. \A i \in 1..Len(Tail(g)) : Latest' <= Tail(g)[i]
      BY <3>3, <3>4, <3>5, <3>6
    <3>8. \A i, j \in 1..Len(Tail(g)) : i <= j => Tail(g)[i] <= Tail(g)[j]
      BY <3>3, <3>5
    <3> QED
      BY <2>1, <3>2, <3>7, <3>8
  <2> QED
    BY <2>2, <2>3
<1>7. ASSUME NEW w \in Worker, \/ \E e \in stream : Record(w, e)
                               \/ ReadOwner(w) \/ WriteReceipt(w) \/ Ack(w) \/ Throw(w)
      PROVE  OrderInv'
  <2>1. UNCHANGED <<at, current, granted, grants>>
    BY <1>7 DEF Record, ReadOwner, WriteReceipt, Ack, Throw, roomVars
  <2>2. wstep'[w] \notin {"reassign", "send"} /\ \A v \in Worker : v = w
    BY <1>7 DEF Record, AfterRecord, ReadOwner, WriteReceipt, Ack, Throw, OneWorker
  <2> QED
    BY <2>1, <2>2 DEF Latest
<1>8. ASSUME NEW w \in Worker, IssueNextMatch(w) \/ ReassignToOwner(w) PROVE OrderInv'
  <2>1. UNCHANGED <<at, current, granted, grants, recorded, wentry>>
    BY <1>8 DEF IssueNextMatch, ReassignToOwner, roomVars
  <2>2. \A v \in Worker : v = w
    BY DEF OneWorker
  <2>3. PICK e \in Entry : wentry[w] = {e} /\ TheResult(w) = e.result
    BY <1>8, HeldResult DEF IssueNextMatch, ReassignToOwner, ReceiptInv, WorkerStep
  <2>4. wstep'[w] \in {"reassign", "send"} => NextMatchId(e.result.match) \notin recorded
    BY <1>8, <2>3 DEF IssueNextMatch, MayIssue, ReassignToOwner
  <2> QED
    BY <2>1, <2>2, <2>3, <2>4 DEF Latest
<1>9. ASSUME NEW w \in Worker, SendGrant(w) PROVE OrderInv'
  <2> DEFINE next == NextMatchId(TheResult(w).match)
  <2>1. UNCHANGED <<at, current, granted, recorded, wentry>>
    BY <1>9 DEF SendGrant, roomVars
  <2>2. wstep'[w] = "receipt" /\ \A v \in Worker : v = w
    BY <1>9 DEF SendGrant, OneWorker
  <2>3. next \in Match /\ next \notin recorded /\ wowner[w] \in Server
    <3>1. PICK e \in Entry : wentry[w] = {e} /\ TheResult(w) = e.result
      BY <1>9, HeldResult DEF SendGrant, ReceiptInv, WorkerStep
    <3> QED
      BY <1>9, <3>1, HeldGrant DEF SendGrant, PlaceInv, ServerOrNone
  <2>4. current <= next /\ (granted # NoMatch => granted <= next)
    BY <2>3, IssuedOrder DEF GrantInv
  <2> HIDE DEF next
  <2>5. at # NoServer => \A i, j \in 1..Len(grants'[at]) :
           Latest <= grants'[at][i] /\ (i <= j => grants'[at][i] <= grants'[at][j])
    <3>1. CASE wowner[w] # at
      <4>1. at # NoServer => grants'[at] = grants[at]
        BY <1>9, <2>3, <3>1 DEF SendGrant
      <4> QED
        BY <4>1
    <3>2. CASE wowner[w] = at
      <4>1. PICK g : g = grants[at] /\ g \in Seq(Match) /\ g \in Seq(Issued)
        BY <2>3, <3>2 DEF GrantInv
      <4>2. grants'[at] = Append(g, next)
        BY <1>9, <2>3, <3>2, <4>1 DEF SendGrant, next
      <4>3. \A i \in 1..Len(g) : g[i] <= next
        BY <2>3, <4>1, IssuedOrder
      <4>4. at # NoServer => \A i, j \in 1..Len(g) : Latest <= g[i] /\ (i <= j => g[i] <= g[j])
        BY <4>1
      <4>5. Latest <= next
        BY <2>4 DEF Latest
      <4>6. \A i \in 1..Len(Append(g, next)) :
               \/ i \in 1..Len(g) /\ Append(g, next)[i] = g[i]
               \/ i = Len(g) + 1 /\ Append(g, next)[i] = next
        BY <4>1
      <4>7. next <= next
        BY <1>0, <2>3
      <4>8. Len(g) \in Nat
        BY <4>1
      <4> QED
        BY <4>2, <4>3, <4>4, <4>5, <4>6, <4>7, <4>8
    <3> QED
      BY <3>1, <3>2
  <2> QED
    BY <2>1, <2>2, <2>5 DEF Latest
<1>10. ASSUME NEW q \in Request, ResumeStep(q) PROVE OrderInv'
  BY <1>10, ResumeFrame DEF Latest
<1>11. CASE RedisStep \/ JoinStep
  BY <1>11, RedisFrame, JoinFrame DEF Latest
<1> QED
  BY <1>1, <1>2, <1>3, <1>4, <1>5, <1>6, <1>7, <1>8, <1>9, <1>10, <1>11
     DEF Next, RoomStep, OutboxStep, WorkerStepOf

\* What is granted anew is younger than every id that was ever played.
LEMMA OnceStep ==
    ASSUME TypeOK, PlaceInv, GrantInv, TraceInv, OrderInv, OnceInv, Next
    PROVE  OnceInv'
<1> USE DEF OnceInv, TypeOK, MatchOrNone
<1>0. NoMatch \notin Match /\ 0 \in Match /\ \A m \in Match : m \in Nat
  BY PipelineAssumption DEF Match
<1>1. CASE RequestStart
  <2>1. PICK g \in Match : g = GameId
    BY <1>1 DEF RequestStart, GameId
  <2>2. /\ current' = g /\ played' /\ plays' = [plays EXCEPT ![g] = @ + 1]
        /\ granted' = IF played THEN NoMatch ELSE granted
    BY <1>1, <2>1 DEF RequestStart
  <2>3. current <= g /\ plays[g] = 0
    BY <1>0, <2>1 DEF GameId
  <2>4. granted' = NoMatch
    BY <2>2
  <2>5. \A m \in Match : plays'[m] = IF m = g THEN 1 ELSE plays[m]
    BY <2>2, <2>3
  <2> QED
    BY <1>0, <2>2, <2>3, <2>4, <2>5
<1>2. CASE GameEnds \/ RoomCloses \/ EntryStep \/ \E p \in Server : RoomMoves(p)
  <2>1. UNCHANGED <<current, granted, played, plays>>
    BY <1>2, EntryFrame DEF GameEnds, RoomCloses, RoomMoves, roomVars, histVars
  <2> QED
    BY <2>1
<1>3. ASSUME NEW s \in Server, GrantMatch(s) PROVE OnceInv'
  <2>1. UNCHANGED <<current, played, plays>>
    BY <1>3 DEF GrantMatch, histVars
  <2>2. CASE granted' = granted
    BY <2>1, <2>2
  <2>3. CASE granted' # granted
    <3>1. PICK g \in Seq(Match) : g = grants[s] /\ g # <<>> /\ g \in Seq(Issued)
      BY <1>3 DEF GrantMatch, GrantInv
    <3>2. at = s /\ granted' = g[1] /\ g[1] # current /\ 1 \in 1..Len(g)
      BY <1>3, <2>3, <3>1 DEF GrantMatch, FreshGrant
    <3>3. Latest <= g[1] /\ g[1] \in Match /\ g[1] \in Issued
      BY <3>1, <3>2, PipelineAssumption DEF OrderInv
    <3>4. current < g[1]
      BY <1>0, <3>2, <3>3 DEF Latest
    <3>5. played
      <4>1. 0 < g[1]
        BY <1>0, <3>3, <3>4
      <4>2. 0 \in recorded
        BY <1>0, <3>3, <4>1 DEF Issued
      <4> QED
        BY <4>2 DEF TraceInv
    <3> QED
      BY <2>1, <3>2, <3>4, <3>5
  <2> QED
    BY <2>2, <2>3
<1>4. ASSUME NEW s \in Server, OutboxStep(s), ~ GrantMatch(s) PROVE OnceInv'
  <2>1. UNCHANGED <<current, granted, played, plays>>
    BY <1>4, OutboxFrame DEF OutboxStep, ServerDies, PersistPending, PublishFails, Enqueue,
       Acknowledge, TakeLease, Publish, GrantExpires, roomVars
  <2> QED
    BY <2>1
<1>5. ASSUME NEW w \in Worker, WorkerStepOf(w) PROVE OnceInv'
  BY <1>5, WorkerFrame
<1>6. ASSUME NEW q \in Request, ResumeStep(q) PROVE OnceInv'
  BY <1>6, ResumeFrame
<1>7. CASE RedisStep \/ JoinStep
  BY <1>7, RedisFrame, JoinFrame
<1> QED
  BY <1>1, <1>2, <1>3, <1>4, <1>5, <1>6, <1>7 DEF Next, RoomStep

\* Nothing was played, nothing granted.
LEMMA SingleInit == Init => SingleWorkerInv
<1> SUFFICES ASSUME Init PROVE SingleWorkerInv
  OBVIOUS
<1>1. PipelineInv
  BY InvInit
<1>2. TraceInv /\ HomeInv
  BY DEF Init, TraceInv, HomeInv
<1>3. OrderInv /\ OnceInv
  BY PipelineAssumption DEF Init, OrderInv, OnceInv, Match
<1> QED
  BY <1>1, <1>2, <1>3 DEF SingleWorkerInv

\* The induction step of the stronger invariant.
LEMMA SingleStep ==
    ASSUME OneWorker
    PROVE  SingleWorkerInv /\ [Next]_vars => SingleWorkerInv'
<1> SUFFICES ASSUME SingleWorkerInv, [Next]_vars PROVE SingleWorkerInv'
  OBVIOUS
<1> USE DEF SingleWorkerInv, PipelineInv
<1>1. PipelineInv'
  BY InvStep
<1>2. CASE Next
  <2>1. TraceInv' /\ HomeInv'
    BY <1>2, TraceStep, HomeStep
  <2>2. OrderInv' /\ OnceInv'
    BY <1>2, OrderStep, OnceStep
  <2> QED
    BY <1>1, <2>1, <2>2
<1>3. CASE UNCHANGED vars
  <2>1. UNCHANGED <<at, current, granted, played, playing, drained, saving, queue, publishing,
                    journal, stream, grants, directory, recorded, wstep, wentry, wowner,
                    finished, plays>>
    BY <1>3 DEF vars, roomVars, outboxVars, workerVars, histVars
  <2>2. TraceInv' /\ HomeInv' /\ OrderInv' /\ OnceInv'
    BY <2>1 DEF TraceInv, HomeInv, OrderInv, OnceInv, Latest
  <2> QED
    BY <1>1, <2>2
<1> QED
  BY <1>2, <1>3

\* With one result worker no id is played twice, whatever Redis, the worker or a resume
\* repeats, drops or delays, and wherever the room goes (Room.grantMatchId,
\* ResultWorker.grantNextMatch, ResultService.issueNextMatch).
THEOREM GrantsPlayOnce ==
    ASSUME OneWorker
    PROVE  Spec => []EachGrantPlaysOnce
<1>1. SingleWorkerInv /\ [Next]_vars => SingleWorkerInv'
  BY SingleStep
<1>2. SingleWorkerInv => EachGrantPlaysOnce
  BY DEF SingleWorkerInv, OnceInv, EachGrantPlaysOnce
<1> QED
  BY <1>1, <1>2, SingleInit, PTL DEF Spec

=============================================================================
