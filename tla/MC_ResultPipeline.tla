-------------------------- MODULE MC_ResultPipeline --------------------------
(* Small instances of the result pipeline.  Workers and requests are          *)
(* interchangeable; servers are too, safety is checked up to permutation.     *)
EXTENDS ResultPipeline, TLC

Symmetry == Permutations(Server) \cup Permutations(Worker) \cup Permutations(Request)

(* Safety is checked in three scopes that are too large together:              *)
(* several games in a row on a server that may die, until the last one begins,  *)
(* and one game while the room moves and two servers drain, either with players *)
(* that resume and entries that run out, or with joins that are undone.         *)
Stay == directory.server \in {at, NoServer} /\ (at # NoServer => directory.server = at)
NoResumes == \A q \in Request : request[q] = NoRequest

Rematches ==
    /\ drained = {} /\ dead \subseteq {row[0]}
    /\ \A r \in finished : r.match < MaxMatch
    /\ \A s \in Server \ {row[0]} : publishing[s] = {}
    /\ Stay /\ NoResumes /\ unassigned = {}

Moves ==
    /\ dead = {} /\ current = 0 /\ unassigned = {}
    /\ directory.server \in {at, NoServer} \/ finished = {}

Refusals == dead = {} /\ current = 0 /\ NoResumes

VARIABLE scope

InScope ==
    \/ scope = "rematches" /\ Rematches'
    \/ scope = "moves" /\ Moves'
    \/ scope = "refusals" /\ Refusals'

ScopedInit == Init /\ scope \in {"rematches", "moves", "refusals"}

ScopedNext == Next /\ InScope /\ UNCHANGED scope

ScopedSpec == ScopedInit /\ [][ScopedNext]_<<vars, scope>>
==============================================================================
