----------------------------- MODULE RoadGraph -----------------------------
(***************************************************************************)
(* The offline road network (road_network/models.py) as the path finder    *)
(* sees it: which edges a vehicle may use, what an edge costs under an     *)
(* objective, and the order of the labels on the finder's heap.  Edge      *)
(* identifiers are naturals: the code compares tuples of zero-padded       *)
(* identifiers, which is the order of their numbers.                       *)
(*                                                                         *)
(* Minutes are kept in tenths (base_minutes times a congestion factor in   *)
(* tenths), so the sums of Decimals the code forms are exact here too.     *)
(***************************************************************************)
EXTENDS Integers, Sequences

CONSTANTS Node,  \* road nodes
          Edge,  \* road edges, a set of naturals
          Road   \* Edge -> [from, to, both, km, base, congestion, risk, limit]

Objectives == {"FASTEST", "SHORTEST", "SAFEST"}

RiskPenalty(e) ==
    IF Road[e].risk = "LOW" THEN 0 ELSE IF Road[e].risk = "MEDIUM" THEN 4 ELSE 12

TenthMinutes(e) == Road[e].base * Road[e].congestion

EdgeWeight(e, objective) ==
    IF objective = "SHORTEST" THEN Road[e].km
    ELSE IF objective = "FASTEST" THEN TenthMinutes(e)
    ELSE TenthMinutes(e) + 10 * RiskPenalty(e)

\* Mutant: the weight limit of the edge is not looked at.
UsableAtAnyWeight(status, weight, excluded) ==
    {e \in Edge : e \notin excluded /\ status[e] # "BLOCKED"}

\* The edges a search may use: those its snapshot does not show blocked, that
\* the caller does not exclude and that carry the vehicle.
Usable(status, weight, excluded) ==
    {e \in Edge : /\ e \notin excluded
                  /\ status[e] # "BLOCKED"
                  /\ weight <= Road[e].limit}

\* The adjacency list of node n: <<edge, next node>> pairs.
Hops(usable, n) ==
    {<<e, Road[e].to>> : e \in {f \in usable : Road[f].from = n}}
    \cup {<<e, Road[e].from>> : e \in {f \in usable : Road[f].both /\ Road[f].to = n}}

\* Python's order on tuples: a proper prefix is smaller.
TupleLess(p, q) ==
    \E i \in 1..Len(q) :
        /\ \A j \in 1..(i - 1) : j <= Len(p) /\ p[j] = q[j]
        /\ i > Len(p) \/ p[i] < q[i]

\* The order of heap entries, and of the best label of a node.
Cheaper(g, h) == g.cost < h.cost \/ (g.cost = h.cost /\ TupleLess(g.edges, h.edges))
=============================================================================
