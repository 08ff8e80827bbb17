----------------------------- MODULE PathSearch -----------------------------
(***************************************************************************)
(* DijkstraPathFinder.find (road_network/dijkstra.py) as the loop it is:   *)
(* a step pops the heap or relaxes one neighbour of the node popped last.  *)
(* A label [cost, edges, nodes] is a path from the start; best holds the   *)
(* best label of every node reached so far.  The distance, minutes and     *)
(* risk of the path returned are module RoadNetwork's PathAlong.           *)
(***************************************************************************)
EXTENDS RoadGraph

CONSTANT Queries  \* calls of find: [start, target, objective, weight, blocked, excluded]

\* A road of the network joins two of its nodes and has a positive length
\* and time, as every row of the seed and of the map import does.
ASSUME RoadAssumption ==
    \A e \in Edge :
        /\ Road[e].from \in Node /\ Road[e].to \in Node
        /\ Road[e].km \in Nat \ {0}
        /\ Road[e].base \in Nat \ {0}
        /\ Road[e].congestion \in Nat \ {0}
        /\ Road[e].risk \in {"LOW", "MEDIUM", "HIGH"}

ASSUME EdgesAreNaturals == Edge \subseteq Nat

ASSUME QueriesAssumption ==
    \A q \in Queries : q.objective \in Objectives

VARIABLES query,   \* the arguments, with the edges its snapshot shows blocked
          adjacency, heap, best,
          visited, \* the nodes popped with their best label
          todo,    \* <<label, edge, node>>: neighbours left of the node popped last
          answer

vars == <<query, adjacency, heap, best, visited, todo, answer>>

Pending == [returned |-> FALSE, found |-> FALSE]
NoPathFound == [returned |-> TRUE, found |-> FALSE]
Found(label) == [returned |-> TRUE, found |-> TRUE, label |-> label]

Origin == [cost |-> 0, edges |-> <<>>, nodes |-> <<query.start>>]
End(label) == label.nodes[Len(label.nodes)]

\* The edges this call may use.
Open == Usable([e \in Edge |-> IF e \in query.blocked THEN "BLOCKED" ELSE "OPEN"],
               query.weight, query.excluded)

Init ==
    /\ query \in Queries
    /\ adjacency = <<>>
    /\ heap = {}
    /\ best = <<>>
    /\ visited = {}
    /\ todo = {}
    /\ answer = Pending

\* Nodes the network does not have, and a start that is the target, are
\* answered at once; otherwise the search starts.
Call ==
    /\ answer = Pending /\ DOMAIN best = {}
    /\ IF query.start \notin Node \/ query.target \notin Node
       THEN answer' = NoPathFound /\ UNCHANGED <<adjacency, heap, best>>
       ELSE IF query.start = query.target
       THEN answer' = Found(Origin) /\ UNCHANGED <<adjacency, heap, best>>
       ELSE /\ adjacency' = [n \in Node |-> Hops(Open, n)]
            /\ heap' = {Origin}
            /\ best' = [n \in {query.start} |-> Origin]
            /\ UNCHANGED answer
    /\ UNCHANGED <<query, visited, todo>>

\* top is the label that heappop returns.
Popped(top) ==
    /\ answer = Pending /\ todo = {}
    /\ top \in heap
    /\ \A h \in heap : h = top \/ Cheaper(top, h)
    /\ heap' = heap \ {top}

\* A better label of its node was found since this one was pushed.
PopStale(top) ==
    /\ Popped(top)
    /\ best[End(top)] # top
    /\ UNCHANGED <<query, adjacency, best, visited, todo, answer>>

\* The target is popped with its best label: the search returns it.
PopTarget(top) ==
    /\ Popped(top)
    /\ best[End(top)] = top /\ End(top) = query.target
    /\ visited' = visited \cup {End(top)}
    /\ answer' = Found(top)
    /\ UNCHANGED <<query, adjacency, best, todo>>

\* Any other node is expanded.
PopNode(top) ==
    /\ Popped(top)
    /\ best[End(top)] = top /\ End(top) # query.target
    /\ visited' = visited \cup {End(top)}
    /\ todo' = {<<top, h[1], h[2]>> : h \in adjacency[End(top)]}
    /\ UNCHANGED <<query, adjacency, best, answer>>

\* The label of a path one edge longer.
Candidate(label, e, n) ==
    [cost  |-> label.cost + EdgeWeight(e, query.objective),
     edges |-> Append(label.edges, e),
     nodes |-> Append(label.nodes, n)]

Improves(candidate, n) == n \notin DOMAIN best \/ Cheaper(candidate, best[n])

\* Mutant: the search returns as soon as it reaches the target.
RelaxReturning(t) ==
    /\ answer = Pending /\ t \in todo /\ \A u \in todo : t[2] <= u[2]
    /\ todo' = todo \ {t}
    /\ IF Improves(Candidate(t[1], t[2], t[3]), t[3])
       THEN /\ best' = [n \in DOMAIN best \cup {t[3]} |->
                           IF n = t[3] THEN Candidate(t[1], t[2], t[3]) ELSE best[n]]
            /\ heap' = heap \cup {Candidate(t[1], t[2], t[3])}
            /\ answer' = IF t[3] = query.target
                         THEN Found(Candidate(t[1], t[2], t[3])) ELSE answer
       ELSE UNCHANGED <<heap, best, answer>>
    /\ UNCHANGED <<query, adjacency, visited>>

\* The neighbours are taken in the order of their edges.
Relax(t) ==
    /\ answer = Pending /\ t \in todo /\ \A u \in todo : t[2] <= u[2]
    /\ todo' = todo \ {t}
    /\ IF Improves(Candidate(t[1], t[2], t[3]), t[3])
       THEN /\ best' = [n \in DOMAIN best \cup {t[3]} |->
                           IF n = t[3] THEN Candidate(t[1], t[2], t[3]) ELSE best[n]]
            /\ heap' = heap \cup {Candidate(t[1], t[2], t[3])}
       ELSE UNCHANGED <<heap, best>>
    /\ UNCHANGED <<query, adjacency, visited, answer>>

Exhausted ==
    /\ answer = Pending /\ DOMAIN best # {} /\ todo = {} /\ heap = {}
    /\ answer' = NoPathFound
    /\ UNCHANGED <<query, adjacency, heap, best, visited, todo>>

\* The call has returned.
Done == answer.returned /\ UNCHANGED vars

Next ==
    \/ Call
    \/ \E top \in heap : PopStale(top) \/ PopTarget(top) \/ PopNode(top)
    \/ \E t \in todo : Relax(t)
    \/ Exhausted
    \/ Done

Spec == Init /\ [][Next]_vars

-----------------------------------------------------------------------------
\* The vehicle of call q may drive edge e from node m to node n.
Joins(q, e, m, n) ==
    /\ e \notin q.blocked \cup q.excluded /\ q.weight <= Road[e].limit
    /\ \/ Road[e].from = m /\ Road[e].to = n
       \/ Road[e].both /\ Road[e].to = m /\ Road[e].from = n

\* The label is a drive from the start of q.
Drivable(q, l) ==
    /\ l \in [cost : Nat, edges : Seq(Edge), nodes : Seq(Node)]
    /\ Len(l.nodes) = Len(l.edges) + 1
    /\ l.nodes[1] = q.start
    /\ \A i \in 1..Len(l.edges) : Joins(q, l.edges[i], l.nodes[i], l.nodes[i + 1])

\* The neighbour has a label no dearer than the path through n.
Settled(n, h) ==
    /\ h[2] \in DOMAIN best
    /\ best[h[2]].cost <= best[n].cost + EdgeWeight(h[1], query.objective)

LabelsAreDrives ==
    /\ \A n \in DOMAIN best : n \in Node /\ Drivable(query, best[n]) /\ End(best[n]) = n
    /\ \A h \in heap : Drivable(query, h) /\ End(h) \in DOMAIN best
                                   /\ best[End(h)].cost <= h.cost
    /\ \A t \in todo : /\ End(t[1]) \in visited /\ t[1] = best[End(t[1])]
                       /\ <<t[2], t[3]>> \in adjacency[End(t[1])]
                       /\ t = <<t[1], t[2], t[3]>>

\* What the loop maintains: the visited nodes are the cheapest ones, their
\* labels are final, and the others wait on the heap.
Frontier ==
    /\ visited \subseteq DOMAIN best
    /\ query.target \in visited => answer.found
    /\ \A n \in DOMAIN best \ visited : best[n] \in heap
    /\ \A v \in visited : \A h \in heap : best[v].cost <= h.cost
    /\ \A v \in visited : \A t \in todo : best[v].cost <= t[1].cost
    /\ \A v \in visited \ {query.target} : \A h \in adjacency[v] :
          <<best[v], h[1], h[2]>> \in todo \/ Settled(v, h)

\* What an answer commits the search to while and after it is given.
AnswerHolds ==
    /\ answer \in {Pending, NoPathFound} \/ answer = Found(answer.label)
    /\ answer.returned => todo = {}
    /\ answer.found =>
          /\ Drivable(query, answer.label) /\ End(answer.label) = query.target
          /\ \/ DOMAIN best = {} /\ answer.label.cost = 0
             \/ query.target \in visited /\ answer.label = best[query.target]
    /\ answer = NoPathFound =>
          IF DOMAIN best = {} THEN query.start \notin Node \/ query.target \notin Node
          ELSE heap = {}
    /\ DOMAIN best # {} => /\ adjacency = [n \in Node |-> Hops(Open, n)]
                           /\ query.start \in DOMAIN best /\ query.target \in Node
                           /\ best[query.start].cost = 0
                           /\ query.start # query.target

SearchInv ==
    /\ query \in Queries
    /\ LabelsAreDrives
    /\ Frontier
    /\ AnswerHolds

\* A lower bound on the cost of reaching n, read off the labels at return.
LowerBound(n) ==
    IF n \in DOMAIN best /\ best[n].cost < answer.label.cost
    THEN best[n].cost ELSE answer.label.cost

(***************************************************************************)
(* The answer of find comes with a certificate.  A path found is a drive   *)
(* from the start to the target, and the labels left behind bound the cost *)
(* of every drive from below: zero at the start, no more than the weight   *)
(* of an edge added along it, the cost of the path at the target, so no    *)
(* drive is cheaper.  When nothing is found, the visited nodes hold the    *)
(* start, are closed under usable edges and lack the target.               *)
(***************************************************************************)
AnswerIsCertified ==
    /\ answer.found =>
          /\ Drivable(query, answer.label) /\ End(answer.label) = query.target
          /\ LowerBound(query.start) = 0
          /\ LowerBound(query.target) = answer.label.cost
          /\ \A e \in Edge : \A m, n \in {Road[e].from, Road[e].to} :
                 Joins(query, e, m, n) =>
                    LowerBound(n) <= LowerBound(m) + EdgeWeight(e, query.objective)
    /\ answer = NoPathFound /\ query.start \in Node /\ query.target \in Node =>
          /\ query.start \in visited /\ query.target \notin visited
          /\ \A e \in Edge : \A m, n \in {Road[e].from, Road[e].to} :
                 Joins(query, e, m, n) /\ m \in visited => n \in visited
=============================================================================
