-------------------------- MODULE MCDispatchAgents --------------------------
(***************************************************************************)
(* A network of four nodes and five edges, five vehicles, two tasks.       *)
(* The depot and the destination are joined by two routes; a short cut is  *)
(* too weak for the heavy vehicle.                                         *)
(***************************************************************************)
EXTENDS DispatchAgents

MCNode == {"depot", "market", "bridge", "village"}
Link(a, b, both, km, base, congestion, risk, limit) ==
    [from |-> a, to |-> b, both |-> both, km |-> km, base |-> base,
     congestion |-> congestion, risk |-> risk, limit |-> limit]
MCRoad ==
    (1 :> Link("depot", "market", TRUE, 8, 15, 10, "LOW", 9)) @@
    (2 :> Link("market", "village", TRUE, 5, 9, 15, "LOW", 9)) @@
    (3 :> Link("depot", "bridge", TRUE, 5, 8, 10, "MEDIUM", 9)) @@
    (4 :> Link("bridge", "village", TRUE, 4, 7, 10, "HIGH", 4)) @@
    (5 :> Link("bridge", "market", FALSE, 2, 5, 12, "LOW", 9))
MCEdge == DOMAIN MCRoad

Truck(status, node, tons, remaining, load, cold, driver, licensed) ==
    [status |-> status, node |-> node, tons |-> tons, remaining |-> remaining,
     load |-> load, cold |-> cold, driver |-> driver, licensed |-> licensed]
MCFleet == <<
    Truck("IN_TRANSIT", "market", 3, 5, 40, FALSE, "ON_DUTY", TRUE),
    Truck("AVAILABLE", "bridge", 3, 5, 20, TRUE, "ON_DUTY", TRUE),
    Truck("IN_TRANSIT", "depot", 6, 9, 90, TRUE, "ON_DUTY", TRUE),
    Truck("AVAILABLE", "market", 3, 5, 0, TRUE, "ON_DUTY", FALSE),
    Truck("AVAILABLE", "depot", 6, 5, 0, FALSE, "ON_DUTY", TRUE) >>
MCVehicle == DOMAIN MCFleet

CONSTANTS t1, t2, t3, w1, w2

MCOrder ==
    (t1 :> [known |-> TRUE, vehicle |-> 1, kg |-> 2, cold |-> TRUE,
            from |-> "depot", to |-> "village"]) @@
    (t2 :> [known |-> TRUE, vehicle |-> 3, kg |-> 2, cold |-> FALSE,
            from |-> "depot", to |-> "village"]) @@
    (t3 :> [known |-> FALSE])

Report(type, words, vehicle, status) ==
    [type |-> type, words |-> words, described |-> TRUE, vehicle |-> vehicle,
     own_driver |-> TRUE, status |-> status, node |-> None, edge |-> None,
     says_node |-> None, says_edge |-> None, says_vehicle |-> None,
     route |-> "xinping-road", recall |-> None,
     environment |-> [condition |-> "dry", risk |-> "low"]]

Breakdown(v) == Report("VEHICLE_BREAKDOWN", "VEHICLE_BREAKDOWN", v, "BROKEN")
At(r, node) == [r EXCEPT !.says_node = node]
Blocked(v, e) == [Report("ROAD_BLOCKED", "ROAD_BLOCKED", v, "NORMAL")
                  EXCEPT !.edge = e, !.says_edge = e]
Weather(v) == Report("WEATHER", "WEATHER", v, "NORMAL")
Closed(r) == [r EXCEPT !.environment = [condition |-> "closed", risk |-> "critical"]]
Unanswered(r) == [r EXCEPT !.environment = None]
Unnamed(r) == [r EXCEPT !.vehicle = None]
Saying(r, v) == [Unnamed(r) EXCEPT !.says_vehicle = v]
Remembering(r, route) == [r EXCEPT !.recall = route]

Nothing == [t \in {t1, t2, t3} |-> None]

\* One task at a time: every branch of intake and of the later nodes.
Alone ==
    {[Nothing EXCEPT ![t1] = r] : r \in {
        At(Breakdown(1), "village"), [Breakdown(1) EXCEPT !.described = FALSE],
        [Breakdown(3) EXCEPT !.node = "market"],
        Unnamed(Blocked(1, None)), Report("DELAY", "CARGO", 1, "NORMAL"),
        Closed([Weather(1) EXCEPT !.described = FALSE]),
        Closed(Remembering(Weather(3), "county-308")), Weather(1),
        Saying(At(Breakdown(1), "market"), 1), Saying(Weather(3), 3),
        [At(Weather(1), "market") EXCEPT !.status = "MAINTENANCE"],
        Remembering(Unanswered(Weather(1)), "error")}}
    \cup {[Nothing EXCEPT ![t2] = Weather(3)]}
    \cup {[Nothing EXCEPT ![t3] = r] : r \in {Breakdown(1), Weather(1)}}

\* Two tasks that meet: for a replacement vehicle, or on the roads.
Together ==
    {[Nothing EXCEPT ![t1] = p[1], ![t2] = p[2]] : p \in {
        <<Unanswered(Breakdown(1)), At(Breakdown(3), "bridge")>>,
        <<At(Breakdown(1), "market"), Blocked(3, 2)>>,
        <<Blocked(1, 2), Blocked(3, 1)>>}}

MCScenarios == Alone \cup Together
=============================================================================
