--------------------------- MODULE DispatchAgents ---------------------------
(***************************************************************************)
(* The eight agents of the dispatch graph (graph/builder.py, agents/) and  *)
(* the services they call, run for several tasks by several workers on one *)
(* road network, one fleet and one database.                               *)
(*                                                                         *)
(* A task's graph state is checkpointed after every node; a node returns a *)
(* patch that is merged over it.  A worker may die at any node, also after *)
(* the node's database effects and before its checkpoint: the task then    *)
(* runs that node again.  That a task is run by one worker at a time is    *)
(* the execution lock of module DispatchPipeline.                          *)
(***************************************************************************)
EXTENDS RoadNetwork

CONSTANTS Task, Worker,
          Vehicle,      \* a set of naturals: the order of vehicle identifiers
          Fleet,        \* Vehicle -> status, node, tons, remaining, load, cold, driver, licensed
          Order,        \* Task -> the order row: known, vehicle, kg, cold, from, to
          Scenarios,    \* the requests submitted together: functions from Task
                        \* to a request (with what the memory and environment
                        \* providers answer it), or None if not submitted
          MaxCrashes, FailureThreshold, LimitedLoad, UnavailableLoad,
          None

ASSUME Vehicle \subseteq Nat /\ Edge \subseteq Nat /\ FailureThreshold > 0

VARIABLES edge_status,     \* road_edges.status
          vehicle_status,  \* fleet_vehicles.status
          dispatches,      \* dispatches row of each task, or None
          audits,          \* audit_records row of each task's dispatch, or None
          request,         \* the submitted request of each task
          state,           \* checkpointed graph state of each task
          runner,          \* the task each worker process is running
          attempt,         \* which replacement candidate the worker tries
          breaker,         \* each process's environment circuit breaker
          crashes

vars == <<edge_status, vehicle_status, dispatches, audits, request, state,
          runner, attempt, breaker, crashes>>
database == <<edge_status, vehicle_status, dispatches, audits, request>>

Broken == {"BROKEN", "UNAVAILABLE", "MAINTENANCE"}
NonRoute == {"VEHICLE_BREAKDOWN", "CARGO", "CAPACITY", "OTHER"}
Known == NonRoute \cup {"ROAD_BLOCKED", "ROAD_HAZARD", "WEATHER"}

\* Route identifiers: a catalogue route has a name, a planned one is named
\* by a digest of its edges.
Named(name) == [name |-> name, edges |-> <<>>]
Planned(edges) == [name |-> "RTE", edges |-> edges]

NODE_ORDER == <<"intake", "entity_memory", "graph_memory", "environment",
                "capacity", "routing", "dispatch", "audit", "done">>
After(node) == NODE_ORDER[1 + CHOOSE i \in 1..8 : NODE_ORDER[i] = node]

ClosedBreaker == [open |-> FALSE, failures |-> 0]

\* task_message_to_graph_input: the payload, before any node has run.
GraphInput(r) ==
    [node |-> "intake", loaded |-> None, review |-> FALSE, error |-> None,
     vehicle |-> r.vehicle, own_driver |-> r.own_driver, weight |-> None,
     cargo |-> FALSE, located |-> FALSE, incident |-> r.node,
     affected |-> IF r.edge = None THEN {} ELSE {r.edge}, blocked |-> {},
     snapshot |-> None, memory |-> None, adopted |-> FALSE,
     condition |-> "unknown", risk |-> "elevated", capacity |-> None,
     candidates |-> <<>>, selected |-> None, active |-> None,
     path |-> NoPath, network |-> None, route |-> None, issue |-> None,
     decision |-> "MANUAL_REVIEW", result |-> None, audit |-> None]

Absent == [node |-> "done", located |-> FALSE, error |-> None, audit |-> None,
           candidates |-> <<>>, affected |-> {}]

Init ==
    /\ edge_status = [e \in Edge |-> "OPEN"]
    /\ vehicle_status = [v \in Vehicle |-> Fleet[v].status]
    /\ dispatches = [t \in Task |-> None]
    /\ audits = [t \in Task |-> None]
    /\ request \in Scenarios
    /\ state = [t \in Task |-> IF request[t] = None THEN Absent
                               ELSE GraphInput(request[t])]
    /\ runner = [w \in Worker |-> None]
    /\ attempt = [w \in Worker |-> 1]
    /\ breaker = [w \in Worker |-> ClosedBreaker]
    /\ crashes = 0

-----------------------------------------------------------------------------
\* Merge the node's patch and checkpoint the state: the task moves on.
Checkpoint(w, patch) ==
    LET t    == runner[w]
        next == After(state[t].node)
    IN  /\ state' = [state EXCEPT ![t] = patch @@ [@ EXCEPT !.node = next]]
        /\ runner' = [runner EXCEPT ![w] = IF next = "done" THEN None ELSE @]
        /\ attempt' = [attempt EXCEPT ![w] = 1]
        /\ UNCHANGED crashes

\* The process dies; what it had not checkpointed is gone.
Die(w) ==
    /\ crashes < MaxCrashes
    /\ crashes' = crashes + 1
    /\ runner' = [runner EXCEPT ![w] = None]
    /\ attempt' = [attempt EXCEPT ![w] = 1]
    /\ breaker' = [breaker EXCEPT ![w] = ClosedBreaker]
    /\ UNCHANGED state

\* A node with database effects: they are committed before the checkpoint.
CheckpointOrDie(w, patch) ==
    \/ Checkpoint(w, patch) /\ UNCHANGED breaker
    \/ Die(w)

Running(w, node) == runner[w] # None /\ state[runner[w]].node = node

Take(w, t) ==
    /\ runner[w] = None
    /\ state[t].node \notin {"done", "failed"}
    /\ \A u \in Worker : runner[u] # t
    /\ runner' = [runner EXCEPT ![w] = t]
    /\ UNCHANGED <<database, state, attempt, breaker, crashes>>

Crash(w) ==
    /\ runner[w] # None
    /\ Die(w)
    /\ UNCHANGED database

-----------------------------------------------------------------------------
(***************************************************************************)
(* intake_node with SandtableContextService.resolve.  Blocking the edge    *)
(* and capturing the snapshot are two transactions; another task's edge    *)
(* blocked in between is the same as one blocked before.                   *)
(***************************************************************************)
Assigned(t) ==
    LET o == Order[t]
    IN  [vehicle |-> o.vehicle,
         own_driver |-> Fleet[o.vehicle].driver # "NONE",
         weight |-> Fleet[o.vehicle].tons, active |-> Fleet[o.vehicle].tons]

Located(t, incident, affected, status) ==
    Assigned(t) @@
    [loaded |-> TRUE, review |-> FALSE, cargo |-> TRUE, located |-> TRUE,
     incident |-> incident, affected |-> affected, blocked |-> affected,
     snapshot |-> status]

\* The vehicle of the request, or else the one the description names.
ReportedVehicle(r) == IF r.vehicle # None THEN r.vehicle ELSE r.says_vehicle

Intake(w) ==
    /\ Running(w, "intake")
    /\ LET t == runner[w]
           r == request[t]
           mismatch == Order[t].known /\ ReportedVehicle(r) \notin {None, Order[t].vehicle}
           blocks == r.type = "ROAD_BLOCKED" /\ r.says_edge # None
           patch ==
               CASE ~ r.described ->
                        [review |-> TRUE, error |-> "INTAKE_VALIDATION_ERROR"]
                 [] r.described /\ ~ Order[t].known ->
                        [review |-> FALSE, loaded |-> FALSE]
                 [] r.described /\ mismatch ->
                        Assigned(t) @@
                        [loaded |-> TRUE, review |-> TRUE,
                         error |-> "VEHICLE_ASSIGNMENT_MISMATCH"]
                 [] r.described /\ Order[t].known /\ ~ mismatch
                    /\ r.type = "ROAD_BLOCKED" /\ ~ blocks ->
                        [loaded |-> TRUE, review |-> TRUE,
                         error |-> "ROAD_LOCATION_UNRESOLVED"]
                 [] r.described /\ Order[t].known /\ ~ mismatch /\ blocks ->
                        Located(t, None, {r.says_edge}, edge_status')
                 [] OTHER -> Located(t, r.says_node, {}, edge_status')
       IN  /\ edge_status' =
                  IF r.described /\ Order[t].known /\ ~ mismatch /\ blocks
                  THEN [edge_status EXCEPT ![r.says_edge] = "BLOCKED"]
                  ELSE edge_status
           /\ CheckpointOrDie(w, patch)
    /\ UNCHANGED <<vehicle_status, dispatches, audits, request>>

\* entity_memory_node: the best recall above the adoption threshold, if it
\* names a route; a failing provider leaves no recall and an error code.
EntityMemory(w) ==
    /\ Running(w, "entity_memory")
    /\ Checkpoint(w, IF request[runner[w]].recall = "error"
                     THEN [memory |-> None, error |-> "MEMORY_RECALL_ERROR"]
                     ELSE [memory |-> request[runner[w]].recall])
    /\ UNCHANGED <<database, breaker>>

\* graph_memory_node adds facts that later nodes only quote as evidence.
GraphMemory(w) ==
    /\ Running(w, "graph_memory")
    /\ Checkpoint(w, [x \in {} |-> None])
    /\ UNCHANGED <<database, breaker>>

-----------------------------------------------------------------------------
(***************************************************************************)
(* environment_node: EnvironmentService.get_environment behind the         *)
(* process's circuit breaker.  Whether an open breaker has cooled down is  *)
(* the clock's choice; the process runs one task at a time, so a half-open *)
(* probe is over when the node is.  The fallback gives a reason every time.*)
(***************************************************************************)
Fallback == [condition |-> "unknown", risk |-> "elevated"]

BreakerAfterFailure(b) ==
    IF b.open THEN b
    ELSE [open |-> b.failures + 1 >= FailureThreshold, failures |-> b.failures + 1]

EnvironmentAnswers(w) ==
    /\ Running(w, "environment")
    /\ request[runner[w]].environment # None
    /\ Checkpoint(w, request[runner[w]].environment)
    /\ breaker' = [breaker EXCEPT ![w] = ClosedBreaker]
    /\ UNCHANGED database

EnvironmentFails(w) ==
    /\ Running(w, "environment")
    /\ request[runner[w]].environment = None
    /\ Checkpoint(w, Fallback)
    /\ breaker' = [breaker EXCEPT ![w] = BreakerAfterFailure(@)]
    /\ UNCHANGED database

EnvironmentSkipped(w) ==
    /\ Running(w, "environment")
    /\ breaker[w].open
    /\ Checkpoint(w, Fallback)
    /\ UNCHANGED <<database, breaker>>

-----------------------------------------------------------------------------
\* CapacityService.evaluate on FleetCapacityProvider's snapshot.
Evaluate(t, st) ==
    LET v == Fleet[st.vehicle]
    IN  IF \/ request[t].status \in Broken
           \/ st.vehicle = None
           \/ ~ (st.own_driver /\ v.driver = "ON_DUTY")
           \/ vehicle_status[st.vehicle] \notin {"AVAILABLE", "IN_TRANSIT"}
           \/ st.cargo /\ v.remaining < Order[t].kg
           \/ st.cargo /\ Order[t].cold /\ ~ v.cold
           \/ v.load >= UnavailableLoad
        THEN "UNAVAILABLE"
        ELSE IF v.load >= LimitedLoad THEN "LIMITED" ELSE "AVAILABLE"

\* FleetAllocationService: the pickup and delivery paths of a vehicle, the
\* vehicles with no exclusion reason ...
FastestTo(status, v, from, to) ==
    PathBetween(Usable(status, Fleet[v].tons, {}), "FASTEST", from, to)

Eligible(t, st, status, incident) ==
    {v \in Vehicle :
        /\ v # st.vehicle
        /\ vehicle_status[v] = "AVAILABLE"
        /\ Fleet[v].driver = "ON_DUTY" /\ Fleet[v].licensed
        /\ st.cargo => Fleet[v].remaining >= Order[t].kg
        /\ st.cargo /\ Order[t].cold => Fleet[v].cold
        /\ FastestTo(status, v, Fleet[v].node, incident).found
        /\ st.located => FastestTo(status, v, incident, Order[t].to).found}

\* ... and FLEET_SCORE_V1 of a vehicle and its pickup path, in tenths.
FleetScore(t, st, incident, v, pickup) ==
    1000 - 15 * pickup.minutes - 20 * pickup.km - 2 * Fleet[v].load
    - (IF pickup.risk >= 12 THEN 150 ELSE IF pickup.risk > 0 THEN 60 ELSE 0)
    + (IF Fleet[v].node = incident THEN 80 ELSE 0)
    + (IF Fleet[v].cold = (st.cargo /\ Order[t].cold) THEN 100 ELSE 0)

FleetRank(t, st, incident, v, pickup) ==
    <<- FleetScore(t, st, incident, v, pickup), pickup.minutes, v>>

RankedBy(rank) == SetToSortSeq(DOMAIN rank, LAMBDA a, b : TupleLess(rank[a], rank[b]))

Allocate(t, st, status, incident) ==
    RankedBy([v \in Eligible(t, st, status, incident) |->
                  FleetRank(t, st, incident, v,
                            FastestTo(status, v, Fleet[v].node, incident))] @@ <<>>)

\* capacity_node.
Allocated(ranked) ==
    IF ranked = <<>>
    THEN [capacity |-> "UNAVAILABLE", review |-> TRUE, error |-> "NO_REPLACEMENT_VEHICLE"]
    ELSE [capacity |-> "REASSIGNED", candidates |-> ranked, selected |-> Head(ranked),
          active |-> Fleet[Head(ranked)].tons, review |-> FALSE]

Cargo(t, st) == IF st.incident # None THEN st.incident
                ELSE IF st.located THEN Order[t].from ELSE None

CapacityPatch(t, st) ==
    IF st.loaded = FALSE
    THEN [capacity |-> IF request[t].status = "NORMAL" THEN "AVAILABLE" ELSE "UNAVAILABLE"]
    ELSE IF request[t].status \notin Broken THEN [capacity |-> Evaluate(t, st)]
    ELSE Allocated(Allocate(t, st, IF st.snapshot = None THEN edge_status ELSE st.snapshot,
                            Cargo(t, st)))

Capacity(w) ==
    /\ Running(w, "capacity")
    /\ Checkpoint(w, CapacityPatch(runner[w], state[runner[w]]))
    /\ UNCHANGED <<database, breaker>>

-----------------------------------------------------------------------------
\* RoutingService.route: the catalogue, scored in tenths.
Catalog == {"xinping-road", "national-102", "county-308"}

CatalogScore(st, c) ==
    CASE c = "xinping-road" -> 780
      [] c = "national-102" -> 714
      [] c = "county-308" -> 670 - (IF st.risk \in {"high", "critical"} THEN 150 ELSE 0)

RouteFromCatalog(st, current) ==
    LET unsafe(c) == c = current /\ st.condition \in {"slippery", "closed"}
        score(c) == CatalogScore(st, c)
                    + (IF c = st.memory THEN 300 ELSE 0)
                    - (IF st.capacity = "LIMITED" THEN 50 ELSE 0)
        best == CHOOSE c \in Catalog :
                    ~ unsafe(c) /\ \A d \in Catalog : unsafe(d) \/ score(c) >= score(d)
    IN  IF st.capacity = "UNAVAILABLE"
        THEN [route |-> None, decision |-> "MANUAL_REVIEW", review |-> TRUE,
              adopted |-> FALSE]
        ELSE [route |-> Named(best), review |-> FALSE, adopted |-> best = st.memory,
              decision |-> IF best = current THEN "KEEP_ROUTE" ELSE "REROUTE"]

\* ROUTE_SCORE_V1: the weighted penalty of a path, over the common
\* denominator of the three maxima.
Maximum(S) == CHOOSE x \in S : \A y \in S : y <= x

RoutePenalty(paths, p) ==
    LET m == Maximum({q.minutes : q \in paths})
        d == Maximum({q.km : q \in paths})
        r == Maximum({q.risk : q \in paths})
        k == IF r = 0 THEN 1 ELSE r
    IN  IF Cardinality(paths) = 1 THEN 0
        ELSE 45 * p.minutes * d * k + 30 * p.km * m * k + 25 * p.risk * m * d

Recommended(paths) ==
    LET rank == [p \in paths |-> <<RoutePenalty(paths, p), p.minutes, p.km>> \o p.edges]
    IN  CHOOSE p \in paths : \A q \in paths : q = p \/ TupleLess(rank[p], rank[q])

\* RoutingService.plan on the task's snapshot: the fastest path with the
\* reported edges open, and the paths found without them.
Reopened(st) == [e \in Edge |-> IF e \in st.affected THEN "OPEN" ELSE st.snapshot[e]]

OriginalPath(t, st) ==
    PathBetween(Usable(Reopened(st), st.weight, {}), "FASTEST", Order[t].from, Order[t].to)

PathsFound(t, st) ==
    {p \in {PathBetween(Usable(st.snapshot, st.active, st.affected), o,
                        Cargo(t, st), Order[t].to) : o \in Objectives} : p.found}

NoRoute == [route |-> None, decision |-> "MANUAL_REVIEW", review |-> TRUE,
            adopted |-> FALSE, path |-> NoPath]

RouteAlong(st, original, best) ==
    [route |-> Planned(best.edges), review |-> FALSE, adopted |-> FALSE, path |-> best,
     decision |-> IF \/ st.affected # {}
                     \/ original.found /\ original.edges # best.edges
                  THEN "REROUTE" ELSE "KEEP_ROUTE"]

RouteAmong(t, st, found) ==
    [blocked |-> st.affected, network |-> st.snapshot] @@
    (IF found = {} THEN NoRoute @@ [error |-> "NO_REACHABLE_ROUTE"]
     ELSE RouteAlong(st, OriginalPath(t, st), Recommended(found)))

Plan(t, st) ==
    IF st.capacity = "UNAVAILABLE"
    THEN NoRoute @@ [blocked |-> {}, network |-> None]
    ELSE RouteAmong(t, st, PathsFound(t, st))

\* IssueRecommendationService: the category comes from the type, or else
\* from the words of the description.  The recommended route is always one
\* of the available candidates, so _verified_route keeps it.
Category(r) == IF r.type \in Known THEN r.type ELSE r.words

RecommendationPatch(st, result, issue) ==
    LET reassigned == issue = "VEHICLE_BREAKDOWN" /\ st.capacity = "REASSIGNED"
        route == IF issue \in NonRoute /\ ~ reassigned THEN None ELSE result.route
        review == \/ result.review
                  \/ issue \in NonRoute /\ ~ reassigned
                  \/ result.decision = "REROUTE" /\ route = None
    IN  [route |-> route, issue |-> issue, review |-> review,
         decision |-> IF review THEN "MANUAL_REVIEW" ELSE result.decision] @@ result

\* routing_node.  A path with no edge has no real-road geometry: the node
\* raises, at every retry, and the task fails.
RoutingResult(t, st) ==
    IF st.located THEN Plan(t, st)
    ELSE RouteFromCatalog(st, request[t].route) @@ [path |-> NoPath]

Routed(w, t, result) ==
    IF result.path.found /\ result.path.edges = <<>>
    THEN /\ state' = [state EXCEPT ![t].node = "failed"]
         /\ runner' = [runner EXCEPT ![w] = None]
         /\ UNCHANGED <<attempt, crashes>>
    ELSE Checkpoint(w, RecommendationPatch(state[t], result, Category(request[t])))

Routing(w) ==
    /\ Running(w, "routing")
    /\ Routed(w, runner[w], RoutingResult(runner[w], state[runner[w]]))
    /\ UNCHANGED <<database, breaker>>

-----------------------------------------------------------------------------
(***************************************************************************)
(* dispatch_node.  Each attempt of DispatchService.execute is one          *)
(* transaction: the row and the reservation commit together, the vehicle's *)
(* version check makes a concurrent reservation a conflict, and an         *)
(* existing row of the task is returned as it is.                          *)
(***************************************************************************)
Candidate(st, i) == IF st.candidates = <<>> THEN None ELSE st.candidates[i]
Attempts(st) == IF Len(st.candidates) > 1 THEN 2 ELSE 1

\* Mutant: the evidence names the best candidate, whichever was reserved.
EvidenceOfBest(st, target) ==
    [candidates |-> st.candidates, target |-> Candidate(st, 1),
     reassigned |-> target # None /\ target # st.vehicle]

FleetEvidence(st, target) ==
    [candidates |-> st.candidates, target |-> target,
     reassigned |-> target # None /\ target # st.vehicle]

RouteEvidence(st) ==
    LET relevant == Range(st.path.edges) \cup st.blocked
    IN  [planned |-> st.network # None, path |-> <<st.path.nodes, st.path.edges>>,
         blocked |-> st.blocked, roads |-> [e \in relevant |-> st.network[e]]]

NewDispatch(t, st, target) ==
    LET manual == st.review \/ st.decision = "MANUAL_REVIEW"
    IN  [status |-> IF manual THEN "REVIEW_REQUIRED"
                    ELSE IF st.decision = "REROUTE" THEN "REROUTED" ELSE "KEPT_ROUTE",
         route |-> IF manual \/ st.route # None THEN st.route ELSE Named(request[t].route),
         original |-> IF st.weight = None THEN None ELSE st.vehicle,
         target |-> target,
         evidence |-> FleetEvidence(st, target) @@ RouteEvidence(st)]

DispatchPatch(st, row) ==
    [result |-> row, review |-> row.status = "REVIEW_REQUIRED",
     selected |-> IF row.target = None THEN st.selected ELSE row.target]

\* Mutant: the node that runs again answers with what it would write now.
DispatchAgain(w) ==
    /\ Running(w, "dispatch")
    /\ LET t == runner[w]
       IN  /\ dispatches[t] # None
           /\ Checkpoint(w, DispatchPatch(state[t],
                      NewDispatch(t, state[t], Candidate(state[t], attempt[w]))))
    /\ UNCHANGED <<database, breaker>>

DispatchExisting(w) ==
    /\ Running(w, "dispatch")
    /\ LET t == runner[w]
       IN  /\ dispatches[t] # None
           /\ Checkpoint(w, DispatchPatch(state[t], dispatches[t]))
    /\ UNCHANGED <<database, breaker>>

Reserve(v) == [vehicle_status EXCEPT ![v] = "RESERVED"]

DispatchCreate(w) ==
    /\ Running(w, "dispatch")
    /\ LET t == runner[w]
           target == Candidate(state[t], attempt[w])
           row == NewDispatch(t, state[t], target)
       IN  /\ dispatches[t] = None
           /\ target # None => vehicle_status[target] = "AVAILABLE"
           /\ vehicle_status' = IF target = None THEN vehicle_status ELSE Reserve(target)
           /\ dispatches' = [dispatches EXCEPT ![t] = row]
           /\ CheckpointOrDie(w, DispatchPatch(state[t], row))
    /\ UNCHANGED <<edge_status, audits, request>>

DispatchConflict(w) ==
    /\ Running(w, "dispatch")
    /\ LET t == runner[w]
           target == Candidate(state[t], attempt[w])
       IN  /\ dispatches[t] = None
           /\ target # None
           /\ vehicle_status[target] # "AVAILABLE"
           /\ IF attempt[w] < Attempts(state[t])
              THEN /\ attempt' = [attempt EXCEPT ![w] = @ + 1]
                   /\ UNCHANGED <<state, runner, crashes>>
              ELSE Checkpoint(w, [review |-> TRUE, error |-> "VEHICLE_RESERVATION_CONFLICT"])
    /\ UNCHANGED <<database, breaker>>

-----------------------------------------------------------------------------
\* AuditService: the path check against the edges the routing node recorded.
PathConnects(p) ==
    /\ p.edges # <<>>
    /\ Len(p.nodes) = Len(p.edges) + 1
    /\ \A i \in 1..Len(p.edges) :
           LET road == Road[p.edges[i]]
               ends == <<p.nodes[i], p.nodes[i + 1]>>
           IN  ends = <<road.from, road.to>> \/ (road.both /\ ends = <<road.to, road.from>>)

PathAvoids(p, blocked, status) ==
    \A i \in 1..Len(p.edges) : p.edges[i] \notin blocked /\ status[p.edges[i]] # "BLOCKED"

AssignmentSound(st) ==
    /\ st.result # None
    /\ st.result.target # None
    /\ st.result.target # IF st.result.original # None THEN st.result.original ELSE st.vehicle
    /\ st.result.target \in Range(st.candidates)
    /\ st.selected = st.result.target
    /\ Fleet[st.result.target].driver = "ON_DUTY"

CapacitySound(t, st) ==
    /\ st.cargo
    /\ Fleet[st.result.target].remaining >= Order[t].kg
    /\ Order[t].cold => Fleet[st.result.target].cold

RouteConsistent(t, st) ==
    LET executed == st.result # None /\ st.result.status # "REVIEW_REQUIRED"
    IN  CASE st.decision = "REROUTE" -> executed /\ st.route # None /\ st.result.route = st.route
          [] st.decision = "KEEP_ROUTE" -> executed /\ st.result.route = Named(request[t].route)
          [] OTHER -> TRUE

ChecksPass(t, st) ==
    /\ st.issue = "VEHICLE_BREAKDOWN" => AssignmentSound(st) /\ CapacitySound(t, st)
    /\ st.issue = "ROAD_BLOCKED" \/ st.blocked # {} =>
           st.network # None /\ PathConnects(st.path) /\ PathAvoids(st.path, st.blocked, st.network)
    /\ RouteConsistent(t, st)
    /\ st.adopted => st.memory # None

\* Mutant: the audit does not look at the review flag and the error code.
AuditIgnoresReview(t, st) == IF ChecksPass(t, st) THEN "APPROVED" ELSE "REJECTED"

AuditVerdict(t, st) ==
    IF \/ st.decision = "MANUAL_REVIEW" \/ st.review
       \/ st.error = "VEHICLE_RESERVATION_CONFLICT"
    THEN "REVIEW_REQUIRED"
    ELSE IF ChecksPass(t, st) THEN "APPROVED" ELSE "REJECTED"

\* The evidence_json of the record: the same facts, read from the state at
\* the end of the graph.
AuditEvidence(st) ==
    LET target == IF st.result # None /\ st.result.target # None
                  THEN st.result.target ELSE st.selected
    IN  [candidates |-> st.candidates, target |-> target] @@ RouteEvidence(st)

\* audit_node: one record per dispatch; without a dispatch nothing is stored.
Audit(w) ==
    /\ Running(w, "audit")
    /\ LET t == runner[w]
           verdict == AuditVerdict(t, state[t])
           stored == state[t].result # None /\ audits[t] = None
       IN  /\ audits' = IF stored THEN [audits EXCEPT ![t] = [result |-> verdict,
                                                         evidence |-> AuditEvidence(state[t])]]
                        ELSE audits
           /\ CheckpointOrDie(w, [audit |-> verdict, review |-> verdict # "APPROVED"])
    /\ UNCHANGED <<edge_status, vehicle_status, dispatches, request>>

\* AuditPersistenceError: the database refused the record.
AuditNotStored(w) ==
    /\ Running(w, "audit")
    /\ state[runner[w]].result # None
    /\ Checkpoint(w, [review |-> TRUE, error |-> "AUDIT_PERSISTENCE_ERROR"])
    /\ UNCHANGED <<database, breaker>>

\* DispatchTaskApiService.result: the vehicles and the path shown for a
\* verdict.  The evidence is shown whole or not at all: a catalogue route has
\* no path fields and fails the response schema, and so does evidence that
\* names another vehicle than the row.
EvidenceResponses(row) ==
    IF /\ row.evidence.planned
       /\ row.evidence.target = row.target
       /\ row.target # None => row.target \in Range(row.evidence.candidates)
    THEN [target |-> row.target, path |-> row.evidence.path]
    ELSE [target |-> None, path |-> None]

\* The cost of a replacement: shown when the vehicle changed.
DispatchImpact(row) ==
    /\ EvidenceResponses(row).path # None
    /\ row.original # None /\ row.target \notin {None, row.original}

ResultView(t) ==
    IF dispatches[t] = None THEN [target |-> None, path |-> None, impact |-> FALSE]
    ELSE [target |-> EvidenceResponses(dispatches[t]).target,
          path   |-> EvidenceResponses(dispatches[t]).path,
          impact |-> DispatchImpact(dispatches[t])]

-----------------------------------------------------------------------------
RunNode(w) ==
    \/ Intake(w) \/ EntityMemory(w) \/ GraphMemory(w)
    \/ EnvironmentAnswers(w) \/ EnvironmentFails(w) \/ EnvironmentSkipped(w)
    \/ Capacity(w) \/ Routing(w)
    \/ DispatchExisting(w) \/ DispatchCreate(w) \/ DispatchConflict(w)
    \/ Audit(w) \/ AuditNotStored(w)

Finished ==
    /\ \A t \in Task : state[t].node \in {"done", "failed"}
    /\ UNCHANGED vars

Next ==
    \/ \E w \in Worker, t \in Task : Take(w, t)
    \/ \E w \in Worker : RunNode(w) \/ Crash(w)
    \/ Finished

Spec == Init /\ [][Next]_vars

-----------------------------------------------------------------------------
Executed == {"REROUTED", "KEPT_ROUTE"}
Ended(t) == state[t].node \in {"done", "failed"}
Approved(t) == state[t].audit = "APPROVED"

\* A dispatch approved for a located task follows a connected path from
\* where the cargo is to its destination, over edges that were open in the
\* task's snapshot, that the task did not report blocked, and that carry the
\* vehicle the path was planned for.
ApprovedPathIsDrivable ==
    \A t \in Task : Approved(t) /\ state[t].located =>
        LET st == state[t]
        IN  /\ PathConnects(st.path)
            /\ Head(st.path.nodes) = Cargo(t, st) /\ Last(st.path.nodes) = Order[t].to
            /\ PathAvoids(st.path, st.affected, st.snapshot)
            /\ \A e \in Range(st.path.edges) : st.active <= Road[e].limit

\* A missing replacement, an unreachable destination and a lost reservation
\* end in human review although later nodes overwrite the review flag.
ReviewReasonsHold ==
    \A t \in Task :
        (/\ state[t].error \in {"NO_REPLACEMENT_VEHICLE", "NO_REACHABLE_ROUTE",
                                "VEHICLE_RESERVATION_CONFLICT"}
         /\ state[t].node = "done")
        => state[t].review /\ state[t].audit = "REVIEW_REQUIRED"

\* The stored audit record is the verdict the graph ends with, approves only
\* an executed dispatch, and quotes the path and the vehicle the dispatch row
\* was written with, however often the dispatch and audit nodes ran.
RecordedVerdictStands ==
    \A t \in Task : audits[t] # None =>
        /\ state[t].audit # None => audits[t].result = state[t].audit
        /\ audits[t].result = "APPROVED" =>
               /\ dispatches[t].status \in Executed
               /\ \A fact \in {"target", "candidates", "path", "blocked", "roads"} :
                      audits[t].evidence[fact] = dispatches[t].evidence[fact]

\* What the result API shows of an approved dispatch is the dispatch: for a
\* located task the vehicle the row reserved and the path the audit passed,
\* with the cost of the replacement exactly when the vehicle changed.  The
\* API leaves the evidence out whenever it disagrees with the row, so this
\* needs evidence written for the candidate that was reserved, also after
\* the first one was lost to another task, and no rewrite of it when the
\* node runs again.
ApprovedIsShown ==
    \A t \in Task : Approved(t) /\ state[t].located =>
        LET st == state[t]
        IN  ResultView(t) =
                [target |-> dispatches[t].target,
                 path   |-> <<st.path.nodes, st.path.edges>>,
                 impact |-> dispatches[t].target \notin {None, Order[t].vehicle}]

=============================================================================
