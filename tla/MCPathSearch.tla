---------------------------- MODULE MCPathSearch ----------------------------
(***************************************************************************)
(* Path searches over the seeded county: the delivery of every order with  *)
(* its own vehicle, under every objective, in the open network and with    *)
(* any one road closed; the pick-up of every order under way by every      *)
(* vehicle of the fleet; and a node that the network does not have.        *)
(***************************************************************************)
EXTENDS PathSearch, CountySeed, FiniteSetsExt, TLC

CountyNode == ROAD_NODES
EdgeIds == {r[1] : r \in ROAD_EDGES}
CountyEdge == EdgeIds

\* As seed_new_county_sandtable inserts the roads: both ways, congestion 1.00.
RoadTable ==
    [e \in EdgeIds |->
        LET r == CHOOSE x \in ROAD_EDGES : x[1] = e
        IN  [from |-> r[2], to |-> r[3], both |-> TRUE, km |-> r[4], base |-> r[5],
             congestion |-> 10, risk |-> r[6], limit |-> r[7]]] @@ <<>>

\* (TLC keeps the value of RoadTable; a constant given by <- is evaluated anew.)
CountyRoad == RoadTable

VehicleRow(v) == CHOOSE r \in VEHICLES : r[1] = v
StationNode(s) == (CHOOSE r \in STATIONS : r[1] = s)[2]

Deliver(o, objective, shut) ==
    [start |-> StationNode(o[4]), target |-> StationNode(o[5]), objective |-> objective,
     weight |-> VehicleRow(o[6])[4], blocked |-> shut, excluded |-> {}]

Deliveries ==
    {Deliver(o, ob, shut) :
        o \in ORDERS, ob \in Objectives, shut \in {{}} \cup {{e} : e \in CountyEdge}}

Pickups ==
    {[start |-> v[7], target |-> VehicleRow(o[6])[7], objective |-> "FASTEST",
      weight |-> v[4], blocked |-> {}, excluded |-> {4}] :
        v \in VEHICLES, o \in {p \in ORDERS : p[7] = "IN_TRANSIT"}}

UnknownNode ==
    {[start |-> 0, target |-> n, objective |-> "FASTEST",
      weight |-> 20, blocked |-> {}, excluded |-> {}] : n \in {1, 6}}

CountyQueries == Deliveries \cup Pickups \cup UnknownNode

-----------------------------------------------------------------------------
\* The reference: rounds over all edges, each keeping the least (cost, edges)
\* label of every node, until a round changes nothing.
Least(labels) == CHOOSE l \in labels : \A k \in labels : k = l \/ Cheaper(l, k)

LeastAt(n, labels) == Least({l \in labels : End(l) = n})

Merge(labels) == [n \in {End(l) : l \in labels} |-> LeastAt(n, labels)]

Longer(known) ==
    UNION {{Candidate(known[n], h[1], h[2]) : h \in Hops(Open, n)} : n \in DOMAIN known}

Round(known) == Merge({known[n] : n \in DOMAIN known} \cup Longer(known))

RECURSIVE Rounds(_, _)
Rounds(known, next) == IF next = known THEN known ELSE Rounds(next, Round(next))

CheapestLabels == LET first == [n \in {query.start} |-> Origin] IN Rounds(first, Round(first))

\* find returns the cheapest drive of the seeded county and, among equally
\* cheap ones, the one whose edge numbers come first, for every order and
\* objective, also when any one road is closed; it returns None exactly when
\* no drive exists.  (The tie-break is what makes two plans of the same
\* incident name the same roads.)
FindsCheapest ==
    answer.returned /\ query.start \in Node =>
        \E cheapest \in {CheapestLabels} :
            /\ answer.found <=> query.target \in DOMAIN cheapest
            /\ answer.found => answer.label = cheapest[query.target]
=============================================================================
