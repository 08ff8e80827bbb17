---------------------------- MODULE RoadNetwork ----------------------------
(***************************************************************************)
(* DijkstraPathFinder.find as a function of the network, for the agents    *)
(* that call it, next to a reference that enumerates every simple path.    *)
(* Module PathSearch has the same loop as steps.                           *)
(***************************************************************************)
EXTENDS RoadGraph, FiniteSets, SequencesExt, TLC

Total(f(_), edges) == FoldLeft(LAMBDA sum, e : sum + f(e), 0, edges)

\* A PathResult: minutes are rounded up for display.
PathAlong(nodes, edges) ==
    [found |-> TRUE, nodes |-> nodes, edges |-> edges,
     km |-> Total(LAMBDA e : Road[e].km, edges),
     minutes |-> (Total(TenthMinutes, edges) + 9) \div 10,
     risk |-> Total(RiskPenalty, edges)]

NoPath == [found |-> FALSE, nodes |-> <<>>, edges |-> <<>>,
           km |-> 0, minutes |-> 0, risk |-> 0]

HeapTop(heap) == CHOOSE h \in heap : \A g \in heap : g = h \/ Cheaper(h, g)

(***************************************************************************)
(* The loop of find.  The heap holds labels [cost, edges, nodes]; the      *)
(* smallest is popped, dropped when a better label of its node has been    *)
(* found since, and otherwise relaxed.  Relaxing parallel edges one after  *)
(* the other or at once leaves the same best labels: a label that is no    *)
(* longer best is dropped when it is popped.                               *)
(***************************************************************************)
RECURSIVE Search(_, _, _, _, _)
Search(usable, objective, target, heap, best) ==
    IF heap = {} THEN NoPath
    ELSE
    LET top  == HeapTop(heap)
        node == Last(top.nodes)
        rest == heap \ {top}
    IN  IF best[node] # top THEN Search(usable, objective, target, rest, best)
        ELSE IF node = target THEN PathAlong(top.nodes, top.edges)
        ELSE
        LET reached  == {[cost  |-> top.cost + EdgeWeight(h[1], objective),
                          edges |-> Append(top.edges, h[1]),
                          nodes |-> Append(top.nodes, h[2])] : h \in Hops(usable, node)}
            improved == {r \in reached : \/ Last(r.nodes) \notin DOMAIN best
                                         \/ Cheaper(r, best[Last(r.nodes)])}
        IN  Search(usable, objective, target, rest \cup improved,
                   [n \in {Last(r.nodes) : r \in improved} |->
                        HeapTop({r \in improved : Last(r.nodes) = n})] @@ best)

\* DijkstraPathFinder.find ...
Find(usable, objective, start, target) ==
    LET origin == [cost |-> 0, edges |-> <<>>, nodes |-> <<start>>]
    IN  Search(usable, objective, target, {origin}, start :> origin)

\* ... as a table over the network, and for nodes the network may not have.
\* (The empty function merged into a table has TLC compute the table once.)
PathTable == [usable \in SUBSET Edge, objective \in Objectives, start, target \in Node |->
                  Find(usable, objective, start, target)] @@ <<>>

PathBetween(usable, objective, start, target) ==
    IF start \in Node /\ target \in Node
    THEN PathTable[usable, objective, start, target] ELSE NoPath

(***************************************************************************)
(* Reference: the cheapest among all sequences of distinct usable edges    *)
(* that lead from start to target, each driven in a permitted direction.   *)
(***************************************************************************)
Drive(n, e) == IF Road[e].from = n THEN Road[e].to
               ELSE IF Road[e].both /\ Road[e].to = n THEN Road[e].from
               ELSE "nowhere"

Drives == SetToAllKPermutations(Edge)

DriveTable == [objective \in Objectives, start, target \in Node |->
    {[cost |-> Total(LAMBDA e : EdgeWeight(e, objective), p), edges |-> p] :
        p \in {q \in Drives : FoldLeft(Drive, start, q) = target}}] @@ <<>>

\* What find promises: no path exactly when the target is out of reach, and
\* otherwise the cheapest, ties broken by the edge identifiers.
FindsTheBest(usable, objective, start, target) ==
    LET drives == {d \in DriveTable[objective, start, target] : Range(d.edges) \subseteq usable}
        path   == PathTable[usable, objective, start, target]
    IN  IF drives = {} THEN ~ path.found
        ELSE path.found /\ \E d \in drives : /\ d.edges = path.edges
                                             /\ \A c \in drives : c = d \/ Cheaper(d, c)
=============================================================================
