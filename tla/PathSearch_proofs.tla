-------------------------- MODULE PathSearch_proofs --------------------------
(***************************************************************************)
(* The path search is correct on every road network: SearchInv is          *)
(* inductive, and it implies that every answer is certified.               *)
(***************************************************************************)
EXTENDS PathSearch, TLAPS

\* A product of positive naturals is positive.
LEMMA PositiveProduct ==
    ASSUME NEW a \in Nat \ {0}, NEW b \in Nat \ {0}
    PROVE  a * b \in Nat \ {0}
OBVIOUS

\* Every edge costs something under every objective (_weight).
LEMMA WeightIsPositive ==
    ASSUME NEW e \in Edge, NEW o \in Objectives
    PROVE  EdgeWeight(e, o) \in Nat \ {0}
<1>1. TenthMinutes(e) \in Nat \ {0}
  BY RoadAssumption, PositiveProduct DEF TenthMinutes
<1>2. RiskPenalty(e) \in Nat
  BY RoadAssumption DEF RiskPenalty
<1>3. QED
  BY <1>1, <1>2, RoadAssumption DEF EdgeWeight, Objectives

\* The adjacency list of a node holds exactly the edges that may be driven
\* from it.
LEMMA HopsAreDriven ==
    ASSUME NEW m \in Node, NEW e, NEW n
    PROVE  <<e, n>> \in Hops(Open, m) <=> e \in Edge /\ Joins(query, e, m, n)
BY RoadAssumption, ZenonT(30) DEF Hops, Open, Usable, Joins

LEMMA HopIsPair ==
    ASSUME NEW m \in Node, NEW h \in Hops(Open, m)
    PROVE  /\ h = <<h[1], h[2]>> /\ h[1] \in Edge /\ h[2] \in Node
           /\ Joins(query, h[1], m, h[2])
<1>1. CASE \E e \in Open : h = <<e, Road[e].to>>
  <2>1. PICK e \in Open : h = <<e, Road[e].to>>
    BY <1>1
  <2>2. h[1] = e /\ h[2] = Road[e].to /\ e \in Edge
    BY <2>1 DEF Open, Usable
  <2>3. QED
    BY <2>1, <2>2, RoadAssumption, HopsAreDriven
<1>2. CASE \E e \in Open : h = <<e, Road[e].from>>
  <2>1. PICK e \in Open : h = <<e, Road[e].from>>
    BY <1>2
  <2>2. h[1] = e /\ h[2] = Road[e].from /\ e \in Edge
    BY <2>1 DEF Open, Usable
  <2>3. QED
    BY <2>1, <2>2, RoadAssumption, HopsAreDriven
<1>3. QED
  BY <1>1, <1>2 DEF Hops

\* Taking one more edge from the end of a drive gives a drive, and a dearer one.
LEMMA CandidateIsDrive ==
    ASSUME query \in Queries, NEW l, Drivable(query, l), NEW e \in Edge, NEW n \in Node,
           Joins(query, e, End(l), n)
    PROVE  /\ Drivable(query, Candidate(l, e, n))
           /\ End(Candidate(l, e, n)) = n
           /\ Candidate(l, e, n).cost = l.cost + EdgeWeight(e, query.objective)
           /\ Candidate(l, e, n).cost > l.cost
<1> DEFINE c == Candidate(l, e, n)
<1>1. EdgeWeight(e, query.objective) \in Nat \ {0}
  BY WeightIsPositive, QueriesAssumption
<1>2. /\ l.cost \in Nat /\ l.edges \in Seq(Edge) /\ l.nodes \in Seq(Node)
      /\ Len(l.edges) \in Nat /\ Len(l.nodes) = Len(l.edges) + 1
  BY DEF Drivable
<1>3. c \in [cost : Nat, edges : Seq(Edge), nodes : Seq(Node)]
  BY <1>1, <1>2 DEF Candidate
<1>4. /\ c.edges = Append(l.edges, e) /\ c.nodes = Append(l.nodes, n)
      /\ c.cost = l.cost + EdgeWeight(e, query.objective)
  BY DEF Candidate
<1>5. Len(c.nodes) = Len(c.edges) + 1 /\ c.nodes[1] = query.start /\ End(c) = n
  BY <1>2, <1>4 DEF Drivable, End
<1>6. ASSUME NEW i \in 1..Len(c.edges)
      PROVE  Joins(query, c.edges[i], c.nodes[i], c.nodes[i + 1])
  <2>1. CASE i = Len(l.edges) + 1
    <3>1. c.edges[i] = e /\ c.nodes[i] = End(l) /\ c.nodes[i + 1] = n
      BY <2>1, <1>2, <1>4 DEF End
    <3>2. QED
      BY <3>1
  <2>2. CASE i \in 1..Len(l.edges)
    <3>1. c.edges[i] = l.edges[i] /\ c.nodes[i] = l.nodes[i] /\ c.nodes[i + 1] = l.nodes[i + 1]
      BY <2>2, <1>2, <1>4
    <3>2. QED
      BY <2>2, <3>1 DEF Drivable
  <2>3. QED
    BY <2>1, <2>2, <1>2, <1>4
<1>7. QED
  BY <1>1, <1>2, <1>3, <1>4, <1>5, <1>6, SMTT(30) DEF Drivable

\* The empty path is a drive.
LEMMA OriginIsDrive ==
    ASSUME query.start \in Node
    PROVE  Drivable(query, Origin) /\ End(Origin) = query.start /\ Origin.cost = 0
BY DEF Drivable, Origin, End

-----------------------------------------------------------------------------
\* Nothing is labelled before the call.
LEMMA SearchStarts == Init => SearchInv
<1> SUFFICES ASSUME Init PROVE SearchInv
  OBVIOUS
<1> USE DEF Init, Pending
<1>1. DOMAIN best = {}
  OBVIOUS
<1>2. LabelsAreDrives /\ Frontier
  BY <1>1 DEF LabelsAreDrives, Frontier
<1>3. AnswerHolds
  BY <1>1 DEF AnswerHolds, NoPathFound
<1>4. QED
  BY <1>2, <1>3 DEF SearchInv

LEMMA CallKeepsInv == SearchInv /\ Call => SearchInv'
<1> SUFFICES ASSUME SearchInv, Call PROVE SearchInv'
  OBVIOUS
<1>0. /\ answer = Pending /\ DOMAIN best = {} /\ visited = {} /\ todo = {}
      /\ query \in Queries /\ heap = {}
      /\ query' = query /\ visited' = visited /\ todo' = todo
  BY ZenonT(30) DEF Call, SearchInv, Frontier, LabelsAreDrives, AnswerHolds
<1>1. CASE query.start \notin Node \/ query.target \notin Node
  <2>1. answer' = NoPathFound /\ best' = best /\ heap' = heap /\ adjacency' = adjacency
    BY <1>1 DEF Call
  <2>2. QED
    BY <1>0, <1>1, <2>1 DEF SearchInv, LabelsAreDrives, Frontier, AnswerHolds, NoPathFound
<1>2. CASE query.start \in Node /\ query.target \in Node /\ query.start = query.target
  <2>1. answer' = Found(Origin) /\ best' = best /\ heap' = heap /\ adjacency' = adjacency
    BY <1>2 DEF Call
  <2>2. /\ answer'.label = Origin /\ answer'.returned /\ answer'.found
        /\ answer' # NoPathFound /\ answer' = Found(answer'.label)
    BY <2>1 DEF Found, NoPathFound
  <2>3. Drivable(query', answer'.label) /\ End(answer'.label) = query.target /\ answer'.label.cost = 0
    BY <1>0, <1>2, <2>2, OriginIsDrive
  <2>4. AnswerHolds'
    BY <1>0, <2>1, <2>2, <2>3 DEF AnswerHolds
  <2>5. (LabelsAreDrives /\ Frontier)'
    BY <1>0, <2>1 DEF LabelsAreDrives, Frontier
  <2>6. QED
    BY <1>0, <2>4, <2>5 DEF SearchInv
<1>3. CASE query.start \in Node /\ query.target \in Node /\ query.start # query.target
  <2>1. /\ answer' = answer /\ heap' = {Origin} /\ DOMAIN best' = {query.start}
        /\ best'[query.start] = Origin /\ adjacency' = [n \in Node |-> Hops(Open, n)]
    BY <1>3 DEF Call
  <2>2. Drivable(query', Origin) /\ End(Origin) = query.start /\ Origin.cost = 0
    BY <1>0, <1>3, OriginIsDrive
  <2>3. LabelsAreDrives'
    BY <1>0, <1>3, <2>1, <2>2 DEF LabelsAreDrives, Drivable
  <2>4. Frontier'
    BY <1>0, <2>1 DEF Frontier
  <2>5. AnswerHolds'
    BY <1>0, <1>3, <2>1, <2>2 DEF AnswerHolds, Pending, NoPathFound, Open
  <2>6. QED
    BY <1>0, <2>3, <2>4, <2>5 DEF SearchInv
<1>4. QED
  BY <1>1, <1>2, <1>3

\* Popping keeps what the labels left on the heap satisfy.
LEMMA PoppedLabel ==
    ASSUME SearchInv, NEW top \in heap, Popped(top)
    PROVE  /\ answer = Pending /\ todo = {} /\ heap' = heap \ {top}
           /\ Drivable(query, top) /\ End(top) \in DOMAIN best /\ End(top) \in Node
           /\ \A h \in heap : top.cost <= h.cost
<1>1. \A h \in heap : Drivable(query, h)
  BY DEF SearchInv, LabelsAreDrives
<1>2. \A h \in heap : h.cost \in Nat
  BY <1>1 DEF Drivable
<1>3. QED
  BY <1>1, <1>2 DEF Popped, Cheaper, SearchInv, LabelsAreDrives

LEMMA PopStaleKeepsInv ==
    ASSUME SearchInv, NEW top \in heap, PopStale(top)
    PROVE  SearchInv'
<1>0. /\ heap' = heap \ {top} /\ best[End(top)] # top
      /\ UNCHANGED <<query, adjacency, best, visited, todo, answer>>
      /\ answer = Pending
  BY PoppedLabel DEF PopStale, Popped
<1>1. LabelsAreDrives'
  BY <1>0 DEF SearchInv, LabelsAreDrives
<1>2. Frontier'
  <2>1. \A n \in DOMAIN best \ visited : best[n] \in heap \ {top}
    BY <1>0 DEF SearchInv, Frontier, LabelsAreDrives
  <2>2. QED
    BY <1>0, <2>1 DEF SearchInv, Frontier, Settled
<1>3. AnswerHolds'
  BY <1>0 DEF SearchInv, AnswerHolds, Pending, NoPathFound, Open
<1>4. QED
  BY <1>0, <1>1, <1>2, <1>3 DEF SearchInv

LEMMA PopTargetKeepsInv ==
    ASSUME SearchInv, NEW top \in heap, PopTarget(top)
    PROVE  SearchInv'
<1>0. /\ heap' = heap \ {top} /\ best[End(top)] = top /\ End(top) = query.target
      /\ visited' = visited \cup {query.target} /\ answer' = Found(top)
      /\ UNCHANGED <<query, adjacency, best, todo>>
      /\ todo = {} /\ Drivable(query, top) /\ query.target \in DOMAIN best
      /\ \A h \in heap : top.cost <= h.cost
  BY PoppedLabel DEF PopTarget
<1>1. LabelsAreDrives'
  BY <1>0 DEF SearchInv, LabelsAreDrives
<1>2. /\ answer'.found /\ answer'.returned /\ answer'.label = top
      /\ answer' # NoPathFound /\ answer' = Found(answer'.label)
  BY <1>0 DEF Found, NoPathFound
<1>3. Frontier'
  <2>1. \A n \in DOMAIN best \ visited' : best[n] \in heap'
    BY <1>0 DEF SearchInv, Frontier, LabelsAreDrives
  <2>2. \A v \in visited' : \A h \in heap' : best[v].cost <= h.cost
    BY <1>0 DEF SearchInv, Frontier
  <2>3. \A v \in visited' \ {query.target} : \A h \in adjacency[v] : Settled(v, h)'
    BY <1>0 DEF SearchInv, Frontier, Settled
  <2>4. QED
    BY <1>0, <1>2, <2>1, <2>2, <2>3 DEF SearchInv, Frontier
<1>4. AnswerHolds'
  BY <1>0, <1>2 DEF SearchInv, AnswerHolds, Open
<1>5. QED
  BY <1>0, <1>1, <1>3, <1>4 DEF SearchInv

LEMMA PopNodeKeepsInv ==
    ASSUME SearchInv, NEW top \in heap, PopNode(top)
    PROVE  SearchInv'
<1> DEFINE node == End(top)
<1>0. /\ heap' = heap \ {top} /\ best[node] = top /\ node # query.target
      /\ visited' = visited \cup {node}
      /\ todo' = {<<top, h[1], h[2]>> : h \in adjacency[node]}
      /\ UNCHANGED <<query, adjacency, best, answer>>
      /\ answer = Pending /\ todo = {} /\ node \in DOMAIN best /\ node \in Node
      /\ \A h \in heap : top.cost <= h.cost
  BY PoppedLabel DEF PopNode
<1>1. adjacency[node] = Hops(Open, node)
  BY <1>0 DEF SearchInv, AnswerHolds
<1>2. LabelsAreDrives'
  <2>1. ASSUME NEW t \in todo'
        PROVE  /\ End(t[1]) \in visited' /\ t[1] = best[End(t[1])]
               /\ <<t[2], t[3]>> \in adjacency[End(t[1])] /\ t = <<t[1], t[2], t[3]>>
    <3>1. PICK h \in adjacency[node] : t = <<top, h[1], h[2]>>
      BY <1>0
    <3>2. h = <<h[1], h[2]>>
      BY <1>0, <1>1, HopIsPair
    <3>3. t[1] = top /\ t[2] = h[1] /\ t[3] = h[2]
      BY <3>1
    <3>4. QED
      BY <1>0, <3>1, <3>2, <3>3
  <2>2. QED
    BY <1>0, <2>1 DEF SearchInv, LabelsAreDrives
<1>3. Frontier'
  <2>1. \A n \in DOMAIN best \ visited' : best[n] \in heap'
    BY <1>0 DEF SearchInv, Frontier, LabelsAreDrives
  <2>2. \A v \in visited' : \A h \in heap' : best[v].cost <= h.cost
    BY <1>0 DEF SearchInv, Frontier
  <2>3. \A v \in visited' : best[v].cost <= top.cost
    <3>1. top.cost \in Nat
      BY DEF SearchInv, LabelsAreDrives, Drivable
    <3>2. QED
      BY <1>0, <3>1 DEF SearchInv, Frontier
  <2>4. \A v \in visited' : \A t \in todo' : best[v].cost <= t[1].cost
    BY <1>0, <2>3
  <2>5. ASSUME NEW v \in visited' \ {query.target}, NEW h \in adjacency[v]
        PROVE  <<best[v], h[1], h[2]>> \in todo' \/ Settled(v, h)'
    BY <1>0 DEF SearchInv, Frontier, Settled
  <2>6. QED
    BY <1>0, <2>1, <2>2, <2>4, <2>5 DEF SearchInv, Frontier, Pending
<1>4. AnswerHolds'
  BY <1>0 DEF SearchInv, AnswerHolds, Pending, NoPathFound, Open
<1>5. QED
  BY <1>0, <1>2, <1>3, <1>4 DEF SearchInv

LEMMA ExhaustedKeepsInv == SearchInv /\ Exhausted => SearchInv'
<1> SUFFICES ASSUME SearchInv, Exhausted PROVE SearchInv'
  OBVIOUS
<1>1. LabelsAreDrives'
  BY DEF SearchInv, LabelsAreDrives, Exhausted
<1>2. Frontier'
  BY DEF SearchInv, Frontier, Exhausted, Settled, Pending
<1>3. AnswerHolds'
  BY DEF SearchInv, AnswerHolds, Exhausted, NoPathFound, Open
<1>4. QED
  BY <1>1, <1>2, <1>3 DEF SearchInv, Exhausted

\* The neighbour taken up, and the label of the path to it.
LEMMA RelaxedHop ==
    ASSUME SearchInv, NEW t \in todo, Relax(t)
    PROVE  /\ answer = Pending /\ query \in Queries
           /\ t = <<t[1], t[2], t[3]>> /\ t[2] \in Edge /\ t[3] \in Node
           /\ End(t[1]) \in visited /\ End(t[1]) \in DOMAIN best /\ t[1] = best[End(t[1])]
           /\ t[1].cost \in Nat
           /\ Drivable(query, Candidate(t[1], t[2], t[3]))
           /\ End(Candidate(t[1], t[2], t[3])) = t[3]
           /\ Candidate(t[1], t[2], t[3]).cost
                 = t[1].cost + EdgeWeight(t[2], query.objective)
           /\ Candidate(t[1], t[2], t[3]).cost \in Nat
           /\ Candidate(t[1], t[2], t[3]).cost > t[1].cost
<1>1. /\ answer = Pending /\ query \in Queries /\ t = <<t[1], t[2], t[3]>>
      /\ End(t[1]) \in visited /\ t[1] = best[End(t[1])]
      /\ End(t[1]) \in DOMAIN best
      /\ <<t[2], t[3]>> \in adjacency[End(t[1])]
  BY DEF Relax, SearchInv, LabelsAreDrives, Frontier
<1>2. Drivable(query, t[1]) /\ End(t[1]) \in Node
  BY <1>1 DEF SearchInv, LabelsAreDrives
<1>3. adjacency[End(t[1])] = Hops(Open, End(t[1]))
  BY <1>1, <1>2 DEF SearchInv, AnswerHolds
<1>4. t[2] \in Edge /\ t[3] \in Node /\ Joins(query, t[2], End(t[1]), t[3])
  <2> DEFINE h == <<t[2], t[3]>>
  <2>1. h \in Hops(Open, End(t[1])) /\ h[1] = t[2] /\ h[2] = t[3]
    BY <1>1, <1>3
  <2>2. QED
    BY <1>2, <2>1, HopIsPair
<1>5. t[1].cost \in Nat
  BY <1>2 DEF Drivable
<1>6. /\ Drivable(query, Candidate(t[1], t[2], t[3]))
      /\ End(Candidate(t[1], t[2], t[3])) = t[3]
      /\ Candidate(t[1], t[2], t[3]).cost = t[1].cost + EdgeWeight(t[2], query.objective)
      /\ Candidate(t[1], t[2], t[3]).cost > t[1].cost
  BY <1>1, <1>2, <1>4, CandidateIsDrive
<1>7. Candidate(t[1], t[2], t[3]).cost \in Nat
  BY <1>6 DEF Drivable
<1>8. QED
  BY <1>1, <1>4, <1>5, <1>6, <1>7

\* A candidate that is no better leaves its neighbour settled.
LEMMA RelaxInVainKeepsInv ==
    ASSUME SearchInv, NEW t \in todo, Relax(t),
           ~ Improves(Candidate(t[1], t[2], t[3]), t[3])
    PROVE  SearchInv'
<1> DEFINE c == Candidate(t[1], t[2], t[3])
<1>0. /\ todo' = todo \ {t}
      /\ UNCHANGED <<query, adjacency, heap, best, visited, answer>>
  BY DEF Relax
<1>1. t[3] \in DOMAIN best /\ ~ Cheaper(c, best[t[3]])
  BY DEF Improves
<1>2. best[t[3]].cost \in Nat
  BY <1>1 DEF SearchInv, LabelsAreDrives, Drivable
<1>3. best[t[3]].cost <= t[1].cost + EdgeWeight(t[2], query.objective)
  BY <1>1, <1>2, RelaxedHop DEF Cheaper
<1>4. LabelsAreDrives'
  BY <1>0 DEF SearchInv, LabelsAreDrives
<1>5. Frontier'
  <2>1. ASSUME NEW v \in visited \ {query.target}, NEW h \in adjacency[v],
               <<best[v], h[1], h[2]>> = t
        PROVE  Settled(v, h)
    <3>1. t[1] = best[v] /\ t[2] = h[1] /\ t[3] = h[2]
      BY <2>1
    <3>2. QED
      BY <1>1, <1>3, <3>1 DEF Settled
  <2>2. QED
    BY <1>0, <2>1 DEF SearchInv, Frontier, Settled
<1>6. AnswerHolds'
  BY <1>0, RelaxedHop DEF SearchInv, AnswerHolds, Pending, NoPathFound, Open
<1>7. QED
  BY <1>0, <1>4, <1>5, <1>6 DEF SearchInv

\* A better candidate is never one for a visited node, whose label is final.
LEMMA RelaxBetterKeepsInv ==
    ASSUME SearchInv, NEW t \in todo, Relax(t),
           Improves(Candidate(t[1], t[2], t[3]), t[3])
    PROVE  SearchInv'
<1> DEFINE c == Candidate(t[1], t[2], t[3])
           w == EdgeWeight(t[2], query.objective)
<1>0. /\ todo' = todo \ {t} /\ heap' = heap \cup {c}
      /\ best' = [n \in DOMAIN best \cup {t[3]} |-> IF n = t[3] THEN c ELSE best[n]]
      /\ UNCHANGED <<query, adjacency, visited, answer>>
  BY DEF Relax
<1>1. /\ DOMAIN best' = DOMAIN best \cup {t[3]} /\ best'[t[3]] = c
      /\ \A n \in DOMAIN best \ {t[3]} : best'[n] = best[n]
  BY <1>0
<1>2. /\ Drivable(query, c) /\ End(c) = t[3] /\ c.cost = t[1].cost + w
      /\ c.cost \in Nat /\ c.cost > t[1].cost /\ t[1].cost \in Nat
      /\ t[3] \in Node /\ answer = Pending
  BY RelaxedHop
<1>3. \A n \in DOMAIN best : best[n].cost \in Nat
  BY DEF SearchInv, LabelsAreDrives, Drivable
<1>4. \A v \in visited : v \in DOMAIN best /\ best[v].cost <= t[1].cost
  BY DEF SearchInv, Frontier
<1>5. t[3] \notin visited
  BY <1>2, <1>3, <1>4 DEF Improves, Cheaper
<1>6. \A v \in visited : best'[v] = best[v]
  BY <1>1, <1>4, <1>5
<1>7. \A n \in DOMAIN best : best'[n].cost <= best[n].cost
  BY <1>1, <1>2, <1>3 DEF Improves, Cheaper
<1>8. LabelsAreDrives'
  <2>1. \A n \in DOMAIN best' : n \in Node /\ Drivable(query, best'[n]) /\ End(best'[n]) = n
    BY <1>1, <1>2 DEF SearchInv, LabelsAreDrives
  <2>2. ASSUME NEW h \in heap'
        PROVE  Drivable(query, h) /\ End(h) \in DOMAIN best' /\ best'[End(h)].cost <= h.cost
    <3>1. CASE h = c
      BY <3>1, <1>1, <1>2
    <3>2. CASE h \in heap
      <4>1. Drivable(query, h) /\ End(h) \in DOMAIN best /\ best[End(h)].cost <= h.cost
        BY <3>2 DEF SearchInv, LabelsAreDrives
      <4>2. h.cost \in Nat /\ best'[End(h)].cost \in Nat
        BY <4>1, <1>1, <1>2, <1>3, ZenonT(30) DEF Drivable
      <4>3. QED
        BY <4>1, <4>2, <1>1, <1>3, <1>7
    <3>3. QED
      BY <3>1, <3>2, <1>0
  <2>3. ASSUME NEW u \in todo'
        PROVE  /\ End(u[1]) \in visited /\ u[1] = best'[End(u[1])]
               /\ <<u[2], u[3]>> \in adjacency[End(u[1])] /\ u = <<u[1], u[2], u[3]>>
    BY <1>0, <1>6, ZenonT(30) DEF SearchInv, LabelsAreDrives
  <2>4. QED
    BY <1>0, <2>1, <2>2, <2>3, SMTT(30) DEF LabelsAreDrives
<1>9. Frontier'
  <2>1. visited \subseteq DOMAIN best'
    BY <1>1, <1>4
  <2>2. \A n \in DOMAIN best' \ visited : best'[n] \in heap'
    BY <1>0, <1>1 DEF SearchInv, Frontier
  <2>3. \A v \in visited : \A h \in heap' : best'[v].cost <= h.cost
    <3>1. \A v \in visited : best'[v].cost <= c.cost
      BY <1>2, <1>3, <1>4, <1>6
    <3>2. \A v \in visited : \A h \in heap : best'[v].cost <= h.cost
      BY <1>6 DEF SearchInv, Frontier
    <3>3. QED
      BY <3>1, <3>2, <1>0
  <2>4. \A v \in visited : \A u \in todo' : best'[v].cost <= u[1].cost
    BY <1>0, <1>6, ZenonT(30) DEF SearchInv, Frontier
  <2>5. ASSUME NEW v \in visited \ {query.target}, NEW h \in adjacency[v]
        PROVE  <<best'[v], h[1], h[2]>> \in todo' \/ Settled(v, h)'
    <3>1. CASE <<best[v], h[1], h[2]>> = t
      <4>1. t[1] = best[v] /\ t[2] = h[1] /\ t[3] = h[2]
        BY <3>1
      <4>2. best'[h[2]] = c /\ best'[v] = t[1] /\ h[2] \in DOMAIN best'
        BY <4>1, <1>1, <1>6
      <4>3. best'[h[2]].cost = best'[v].cost + EdgeWeight(h[1], query.objective)
        BY <4>1, <4>2, <1>2
      <4>4. best'[h[2]].cost \in Nat
        BY <4>2, <1>2
      <4>5. QED
        BY <4>2, <4>3, <4>4, <1>0 DEF Settled
    <3>2. CASE <<best[v], h[1], h[2]>> \in todo \ {t}
      BY <3>2, <1>0, <1>6, ZenonT(30)
    <3>3. CASE Settled(v, h)
      <4>1. h[1] \in Edge
        BY <1>4, HopIsPair DEF SearchInv, AnswerHolds, LabelsAreDrives
      <4>2. EdgeWeight(h[1], query.objective) \in Nat
        BY <4>1, WeightIsPositive, QueriesAssumption DEF SearchInv
      <4>3. h[2] \in DOMAIN best /\ best'[h[2]].cost <= best[h[2]].cost
        BY <3>3, <1>7 DEF Settled
      <4>4. best'[h[2]].cost \in Nat /\ best[h[2]].cost \in Nat /\ best[v].cost \in Nat
        BY <4>3, <1>1, <1>2, <1>3, <1>4
      <4>5. best[h[2]].cost <= best[v].cost + EdgeWeight(h[1], query.objective)
        BY <3>3 DEF Settled
      <4>6. best'[h[2]].cost <= best[v].cost + EdgeWeight(h[1], query.objective)
        BY <4>2, <4>3, <4>4, <4>5
      <4>7. best'[v] = best[v] /\ h[2] \in DOMAIN best'
        BY <4>3, <1>1, <1>6
      <4>8. QED
        BY <4>6, <4>7, <1>0 DEF Settled
    <3>4. QED
      BY <3>1, <3>2, <3>3 DEF SearchInv, Frontier
  <2>6. QED
    BY <1>0, <1>2, <2>1, <2>2, <2>3, <2>4, <2>5, ZenonT(30) DEF SearchInv, Frontier
<1>10. AnswerHolds'
  <2>1. DOMAIN best # {}
    BY RelaxedHop
  <2>2. query.start \in DOMAIN best /\ best[query.start].cost = 0
    BY <2>1 DEF SearchInv, AnswerHolds
  <2>3. query.start # t[3]
    BY <2>2, <1>2 DEF Improves, Cheaper
  <2>4. best'[query.start].cost = 0
    BY <2>2, <2>3, <1>1
  <2>5. QED
    BY <1>0, <1>1, <1>2, <2>1, <2>2, <2>4
    DEF SearchInv, AnswerHolds, Pending, NoPathFound, Open
<1>11. QED
  BY <1>0, <1>8, <1>9, <1>10 DEF SearchInv

\* The search invariant is inductive.
THEOREM SearchInvariant == Spec => []SearchInv
<1>1. SearchInv /\ [Next]_vars => SearchInv'
  <2> SUFFICES ASSUME SearchInv, [Next]_vars PROVE SearchInv'
    OBVIOUS
  <2>1. CASE Call
    BY <2>1, CallKeepsInv
  <2>2. ASSUME NEW top \in heap, PopStale(top) \/ PopTarget(top) \/ PopNode(top)
        PROVE  SearchInv'
    BY <2>2, PopStaleKeepsInv, PopTargetKeepsInv, PopNodeKeepsInv
  <2>3. ASSUME NEW t \in todo, Relax(t)
        PROVE  SearchInv'
    BY <2>3, RelaxInVainKeepsInv, RelaxBetterKeepsInv
  <2>4. CASE Exhausted
    BY <2>4, ExhaustedKeepsInv
  <2>5. CASE Done \/ UNCHANGED vars
    BY <2>5 DEF Done, vars, SearchInv, LabelsAreDrives, Frontier, AnswerHolds, Settled, Open
  <2>6. QED
    BY <2>1, <2>2, <2>3, <2>4, <2>5 DEF Next
<1>2. QED
  BY SearchStarts, <1>1, PTL DEF Spec

\* At return the labels are a lower bound along every edge that may be driven.
LEMMA BoundsAddUp ==
    ASSUME SearchInv, answer.found,
           NEW e \in Edge, NEW m \in Node, NEW n \in Node, Joins(query, e, m, n)
    PROVE  LowerBound(n) <= LowerBound(m) + EdgeWeight(e, query.objective)
<1> DEFINE total == answer.label.cost
           w == EdgeWeight(e, query.objective)
<1>1. w \in Nat \ {0}
  BY WeightIsPositive, QueriesAssumption DEF SearchInv
<1>2. total \in Nat
  BY DEF SearchInv, AnswerHolds, Drivable
<1>3. \A k \in DOMAIN best : best[k].cost \in Nat
  BY DEF SearchInv, LabelsAreDrives, Drivable
<1>4. LowerBound(n) \in Nat /\ LowerBound(n) <= total
  BY <1>2, <1>3 DEF LowerBound
<1>5. CASE ~ (m \in DOMAIN best /\ best[m].cost < total)
  BY <1>5, <1>1, <1>2, <1>4 DEF LowerBound
<1>6. CASE m \in DOMAIN best /\ best[m].cost < total
  <2>1. query.target \in visited /\ answer.label = best[query.target]
    BY <1>6, <1>3 DEF SearchInv, AnswerHolds
  <2>2. m \in visited
    BY <1>3, <1>6, <2>1 DEF SearchInv, Frontier
  <2>3. m # query.target
    BY <1>2, <1>6, <2>1
  <2>4. <<e, n>> \in adjacency[m]
    BY <1>6, HopsAreDriven DEF SearchInv, AnswerHolds
  <2>5. todo = {}
    BY DEF SearchInv, AnswerHolds, Pending, NoPathFound, Found
  <2>6. n \in DOMAIN best /\ best[n].cost <= best[m].cost + w
    <3> DEFINE h == <<e, n>>
    <3>1. h \in adjacency[m] /\ h[1] = e /\ h[2] = n
      BY <2>4
    <3>2. Settled(m, h)
      BY <2>2, <2>3, <2>5, <3>1 DEF SearchInv, Frontier
    <3>3. QED
      BY <3>1, <3>2 DEF Settled
  <2>7. QED
    BY <1>1, <1>2, <1>3, <1>4, <1>6, <2>6 DEF LowerBound
<1>7. QED
  BY <1>5, <1>6

\* On every network and for every call: a path that find returns is a drive
\* that no drive undercuts, and None is returned only when none exists.
THEOREM AnswersAreCertified == Spec => []AnswerIsCertified
<1>1. SearchInv => AnswerIsCertified
  <2> SUFFICES ASSUME SearchInv PROVE AnswerIsCertified
    OBVIOUS
  <2>1. ASSUME answer.found
        PROVE  /\ Drivable(query, answer.label) /\ End(answer.label) = query.target
               /\ LowerBound(query.start) = 0
               /\ LowerBound(query.target) = answer.label.cost
    <3>1. Drivable(query, answer.label) /\ End(answer.label) = query.target
      BY <2>1 DEF SearchInv, AnswerHolds
    <3>2. answer.label.cost \in Nat
      BY <3>1 DEF Drivable
    <3>3. CASE DOMAIN best = {} /\ answer.label.cost = 0
      BY <3>1, <3>3 DEF LowerBound
    <3>4. CASE query.target \in visited /\ answer.label = best[query.target]
      <4>1. DOMAIN best # {}
        BY <3>4 DEF SearchInv, Frontier
      <4>2. query.start \in DOMAIN best /\ best[query.start].cost = 0
        BY <4>1 DEF SearchInv, AnswerHolds
      <4>3. QED
        BY <3>1, <3>2, <3>4, <4>2 DEF LowerBound
    <3>5. QED
      BY <2>1, <3>3, <3>4 DEF SearchInv, AnswerHolds
  <2>2. ASSUME answer.found, NEW e \in Edge, NEW m \in {Road[e].from, Road[e].to},
               NEW n \in {Road[e].from, Road[e].to}, Joins(query, e, m, n)
        PROVE  LowerBound(n) <= LowerBound(m) + EdgeWeight(e, query.objective)
    <3>1. m \in Node /\ n \in Node
      BY RoadAssumption
    <3>2. QED
      BY <2>2, <3>1, BoundsAddUp
  <2>3. ASSUME answer = NoPathFound, query.start \in Node, query.target \in Node
        PROVE  /\ query.start \in visited /\ query.target \notin visited
               /\ \A e \in Edge : \A m, n \in {Road[e].from, Road[e].to} :
                      Joins(query, e, m, n) /\ m \in visited => n \in visited
    <3>1. DOMAIN best # {} /\ heap = {} /\ todo = {}
      BY <2>3 DEF SearchInv, AnswerHolds, NoPathFound
    <3>2. visited = DOMAIN best
      BY <3>1 DEF SearchInv, Frontier
    <3>3. query.start \in visited /\ query.target \notin visited
      BY <2>3, <3>1, <3>2 DEF SearchInv, AnswerHolds, Frontier, NoPathFound
    <3>4. ASSUME NEW e \in Edge, NEW m \in visited, NEW n \in Node, Joins(query, e, m, n)
          PROVE  n \in visited
      <4> DEFINE h == <<e, n>>
      <4>1. m \in Node /\ m # query.target
        BY <3>2, <3>3 DEF SearchInv, LabelsAreDrives
      <4>2. h \in adjacency[m] /\ h[2] = n
        BY <3>1, <3>4, <4>1, HopsAreDriven DEF SearchInv, AnswerHolds
      <4>3. Settled(m, h)
        BY <3>1, <4>1, <4>2 DEF SearchInv, Frontier
      <4>4. QED
        BY <3>2, <4>2, <4>3 DEF Settled
    <3>5. QED
      BY <3>3, <3>4, RoadAssumption
  <2>4. QED
    BY <2>1, <2>2, <2>3 DEF AnswerIsCertified
<1>2. QED
  BY SearchInvariant, <1>1, PTL
=============================================================================
