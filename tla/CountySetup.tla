----------------------------- MODULE CountySetup -----------------------------
(***************************************************************************)
(* The setup of a development county (app/seed.py), which runs before the  *)
(* services at every start, on whatever database earlier versions and the  *)
(* work since then have left: one transaction that migrates and seeds,     *)
(* then the first breakdown case, the entity memory and the graph memory.  *)
(* It may die between any two of these and is then simply run again.       *)
(*                                                                         *)
(* db holds the rows the seed reads or writes; a seeding function of the   *)
(* source is an operator from db to db.  Identifiers are their numbers, an *)
(* order is the fingerprint the conflict checks compare, 0 is no one.      *)
(***************************************************************************)
EXTENDS CountySeed, FiniteSets

CONSTANTS
    None,               \* no row
    RuntimeProfile,
    GraphMemoryBackend,
    Generations,        \* databases earlier versions have left
    WorkedCases, WorkedEdges, WorkedVehicles,   \* rows work touches meanwhile
    MaxWork             \* bound: steps of work

VARIABLES
    db,
    memory, graph,      \* what the seed has put in Qdrant and Neo4j
    pc,                 \* how far the setup has come
    seeded,             \* the database as the last setup left it
    work

vars == <<db, memory, graph, pc, seeded, work>>

-----------------------------------------------------------------------------
(* Tables *)

Nobody == 0
DEVELOPMENT_RUNTIME_PROFILES == {"local", "test", "docker-dev"}
DEMO_RUNTIME_STATUSES == <<"RUNNING", "STABLE", "OVERRIDING", "TERMINAL">>
DEMO_DELIVERY_EMPLOYEE_SUBJECT_IDS == <<1, 6>>
DEMO_EMPLOYEE_SUBJECT_BY_DRIVER_ID(d) == CASE d = 2 -> 1 [] d = 3 -> 6 [] OTHER -> Nobody
DEMO_FLEET_VISUAL_STATES ==
    [v \in {13, 15, 16, 19} |-> IF v \in {13, 16} THEN "BROKEN" ELSE "DISPATCHING"]
DEMO_REPORT_SOURCE_TASKS == 1..20
DEMO_EMPLOYEE_ACCOUNTS ==
    <<"EMPLOYEE", "OPERATOR", "SUPERVISOR", "AUDITOR", "ADMIN", "EMPLOYEE", "DISPATCHER">>
\* the severities of the cases
DEMO_BUSINESS_CASES ==
    <<"HIGH", "HIGH", "MEDIUM", "HIGH", "MEDIUM", "HIGH", "MEDIUM", "LOW", "LOW", "LOW">>
Cases == DOMAIN DEMO_BUSINESS_CASES
LIVE_MAP_EDGE_MINUTE_UPGRADES ==
    [e \in {27, 32, 33, 34} |-> CASE e = 27 -> <<9, 15>> [] e = 32 -> <<3, 7>>
                                  [] e = 33 -> <<5, 9>> [] e = 34 -> <<4, 7>>]
STANDBY_DRIVER_ASSIGNMENTS == [v \in {3, 11} |-> IF v = 3 THEN 11 ELSE 12]
STANDBY_DRIVER_IDS == {11, 12}

row(table, id) == CHOOSE r \in table : r[1] = id
ids(table) == {r[1] : r \in table}

Empty == [
    accounts |-> [a \in DOMAIN DEMO_EMPLOYEE_ACCOUNTS |-> None],
    demo_orders |-> [n \in ids(ORDERS) |-> None],           \* DEMO-ORDER-n
    case_orders |-> [n \in Cases |-> None],                 \* LEGACY-DEMO-ORDER-n
    report_orders |-> {}, e2e |-> FALSE,
    anomalies |-> {}, dispatches |-> {}, audits |-> {},
    tasks |-> [n \in Cases |-> None],
    threads |-> [n \in Cases |-> None],
    reports |-> [n \in DEMO_REPORT_SOURCE_TASKS |-> None],
    drivers |-> [d \in ids(DRIVERS) |-> None],
    vehicles |-> [v \in ids(VEHICLES) |-> None],
    edges |-> [e \in ids(ROAD_EDGES) |-> None],
    missions |-> {},            \* "old": the case of DEMO-TASK-REPORT-002, "first": the seeded one, under way
    unit |-> None,              \* the rescue unit: AVAILABLE or DISPATCHED
    old_order |-> FALSE,        \* the maintenance order of the old case
    bay |-> None,               \* the order in the bay: "none", "old" or "first"
    first |-> FALSE]            \* DEMO-TASK-REPORT-VEHICLE has its case

-----------------------------------------------------------------------------
(* The transaction of seed_database *)

seed_demo_employee_accounts(d) == [d EXCEPT !.accounts = DEMO_EMPLOYEE_ACCOUNTS]

\* migrate_legacy_demo_business_case_orders: orders of the first version get the new key.
legacy_pending(d) ==
    {n \in Cases : d.case_orders[n] = None /\ d.demo_orders[n] \notin {None, "sandtable"}}
legacy_conflict(d) == \E n \in legacy_pending(d) : d.demo_orders[n] # "legacy"
migrate_legacy_demo_business_case_orders(d) ==
    [d EXCEPT !.case_orders = [n \in Cases |-> IF n \in legacy_pending(d) THEN "legacy" ELSE @[n]],
              !.demo_orders = [n \in DOMAIN @ |-> IF n \in legacy_pending(d) THEN None ELSE @[n]]]

sandtable_conflict(d) == \E n \in ids(ORDERS) : d.demo_orders[n] \notin {None, "sandtable"}

add_missing(table, new) == [k \in DOMAIN table |-> IF table[k] = None THEN new[k] ELSE table[k]]

\* Drivers and vehicles of the table; standby crews are only paired afterwards.
add_drivers(d) ==
    [d EXCEPT !.drivers = add_missing(@, [x \in DOMAIN @ |->
        [status |-> row(DRIVERS, x)[3],
         vehicle |-> IF x \in STANDBY_DRIVER_IDS THEN Nobody ELSE row(DRIVERS, x)[4]]])]
add_vehicles(d) ==
    [d EXCEPT !.vehicles = add_missing(@, [v \in DOMAIN @ |->
        [status |-> row(VEHICLES, v)[6],
         driver |-> IF v \in DOMAIN STANDBY_DRIVER_ASSIGNMENTS THEN Nobody ELSE row(VEHICLES, v)[8],
         order |-> "none"]])]

standby_free(d, v) ==
    LET x == STANDBY_DRIVER_ASSIGNMENTS[v] IN
    /\ d.vehicles[v].status = "AVAILABLE" /\ d.drivers[x].status = "ON_DUTY"
    /\ d.vehicles[v].driver \in {Nobody, x} /\ d.drivers[x].vehicle \in {Nobody, v}
assign_standby(d) ==
    LET now == {v \in DOMAIN STANDBY_DRIVER_ASSIGNMENTS : standby_free(d, v)} IN
    [d EXCEPT !.vehicles = [v \in DOMAIN @ |->
                  IF v \in now THEN [@[v] EXCEPT !.driver = STANDBY_DRIVER_ASSIGNMENTS[v]] ELSE @[v]],
              !.drivers = [x \in DOMAIN @ |->
                  IF \E v \in now : STANDBY_DRIVER_ASSIGNMENTS[v] = x
                  THEN [@[x] EXCEPT !.vehicle = CHOOSE v \in now : STANDBY_DRIVER_ASSIGNMENTS[v] = x]
                  ELSE @[x]]]

upgraded_unchecked(e, edge) ==
    IF e \in DOMAIN LIVE_MAP_EDGE_MINUTE_UPGRADES
    THEN [edge EXCEPT !.minutes = @ + LIVE_MAP_EDGE_MINUTE_UPGRADES[e][2] - LIVE_MAP_EDGE_MINUTE_UPGRADES[e][1]]
    ELSE edge
upgraded(e, edge) ==
    IF e \in DOMAIN LIVE_MAP_EDGE_MINUTE_UPGRADES /\ edge.minutes = LIVE_MAP_EDGE_MINUTE_UPGRADES[e][1]
    THEN [edge EXCEPT !.minutes = LIVE_MAP_EDGE_MINUTE_UPGRADES[e][2]] ELSE edge
add_edges(d) ==
    [d EXCEPT !.edges = [e \in DOMAIN @ |->
        IF @[e] = None THEN [status |-> "OPEN", minutes |-> row(ROAD_EDGES, e)[5]] ELSE upgraded(e, @[e])]]

seed_new_county_sandtable(d) ==
    LET orders == [d EXCEPT !.demo_orders = add_missing(@, [n \in DOMAIN @ |-> "sandtable"])]
    IN  add_edges(assign_standby(add_vehicles(add_drivers(orders))))

seed_demo_fleet_visual_states(d) ==
    [d EXCEPT !.vehicles = [v \in DOMAIN @ |->
        IF v \in DOMAIN DEMO_FLEET_VISUAL_STATES
        THEN [@[v] EXCEPT !.status = DEMO_FLEET_VISUAL_STATES[v]] ELSE @[v]]]

seed_vehicle_operation_resources(d) ==
    [d EXCEPT !.unit = IF @ = None THEN "AVAILABLE" ELSE @, !.bay = IF @ = None THEN "none" ELSE @]

requires_review(n) == DEMO_BUSINESS_CASES[n] = "HIGH"
expected_assignee(n) == DEMO_DELIVERY_EMPLOYEE_SUBJECT_IDS[1 + ((n - 1) % 2)]

seed_execution_case_anew(d, n) ==
    [task |-> [status |-> IF requires_review(n) THEN "REVIEW_REQUIRED" ELSE "APPROVED",
               assignee |-> expected_assignee(n)],
     thread |-> IF d.threads[n] = None THEN DEMO_RUNTIME_STATUSES[1 + ((n - 1) % 4)] ELSE d.threads[n]]
\* The task keeps its status; its assignee is put right every time.
seed_demo_execution_case(d, n) ==
    [task |-> [status |-> IF d.tasks[n] # None THEN d.tasks[n].status
                          ELSE IF requires_review(n) THEN "REVIEW_REQUIRED" ELSE "APPROVED",
               assignee |-> expected_assignee(n)],
     thread |-> IF d.threads[n] = None THEN DEMO_RUNTIME_STATUSES[1 + ((n - 1) % 4)] ELSE d.threads[n]]

seed_demo_business_cases(d) ==
    [d EXCEPT !.case_orders = add_missing(@, [n \in Cases |-> "legacy"]),
              !.anomalies = @ \cup Cases,
              !.tasks = [n \in Cases |-> seed_demo_execution_case(d, n).task],
              !.dispatches = @ \cup Cases, !.audits = @ \cup Cases,
              !.threads = [n \in Cases |-> seed_demo_execution_case(d, n).thread]]

\* The sources of the drivers' reports are in progress again after every setup.
source_task(d, n) ==
    LET crew == row(VEHICLES, n)[8]
        breakdown == n = 1 /\ 4 \in d.anomalies
    IN  [status |-> "IN_PROGRESS", assignee |-> DEMO_EMPLOYEE_SUBJECT_BY_DRIVER_ID(crew),
         anomaly |-> breakdown \/ (d.reports[n] # None /\ d.reports[n].anomaly)]
seed_demo_report_source_tasks(d) ==
    [d EXCEPT !.report_orders = DEMO_REPORT_SOURCE_TASKS,
              !.reports = [n \in DEMO_REPORT_SOURCE_TASKS |-> source_task(d, n)]]

old_unit_idle(d) == d.missions = {"old"}

\* An earlier version opened a case for the source task 002: it is taken back,
\* unless its unit serves another mission or its bay another order by now.
migrate_legacy_employee_operation_case(d) ==
    IF d.reports[2] = None \/ d.reports[2].anomaly \/ ("old" \notin d.missions /\ ~d.old_order) THEN d
    ELSE [d EXCEPT
        !.unit = IF old_unit_idle(d) THEN "AVAILABLE" ELSE @,
        !.bay = IF d.old_order /\ @ = "old" THEN "none" ELSE @,
        !.vehicles[2] = IF d.old_order /\ @.order = "old"
                        THEN [@ EXCEPT !.status = "IN_TRANSIT", !.order = "none"] ELSE @,
        !.missions = @ \ {"old"}, !.old_order = FALSE]

seed_docker_e2e_case(d) == [d EXCEPT !.e2e = TRUE]

migrated(d) == migrate_legacy_demo_business_case_orders(seed_demo_employee_accounts(d))
conflict(d) == legacy_conflict(d) \/ sandtable_conflict(migrated(d))
seed_database(d) ==
    seed_docker_e2e_case(
      migrate_legacy_employee_operation_case(
        seed_demo_report_source_tasks(
          seed_demo_business_cases(
            seed_vehicle_operation_resources(
              seed_demo_fleet_visual_states(
                seed_new_county_sandtable(migrated(d))))))))

-----------------------------------------------------------------------------

Init ==
    /\ db \in Generations
    /\ memory = FALSE /\ graph = FALSE
    /\ pc = "down"
    /\ seeded = None
    /\ work = 0

development == RuntimeProfile \in DEVELOPMENT_RUNTIME_PROFILES

SeedDatabase ==
    /\ pc = "down" /\ development /\ ~conflict(db)
    /\ db' = seed_database(db) /\ seeded' = db'
    /\ pc' = "seeded"
    /\ UNCHANGED <<memory, graph, work>>

\* LegacyDemoOrderConflictError, SandtableOrderConflictError: nothing is committed.
SeedRefused ==
    /\ pc = "down" /\ development /\ conflict(db)
    /\ pc' = "refused"
    /\ UNCHANGED <<db, memory, graph, seeded, work>>

\* One transaction: V-001 breaks down, V-005 takes over, the unit sets out and the
\* bay is kept for the repair.  The roads between N15 and N04 are taken as open.
case_refused(d) ==
    \/ d.unit # "AVAILABLE" \/ d.bay # "none"
    \/ d.vehicles[1].status \notin {"AVAILABLE", "IN_TRANSIT"}
    \/ d.vehicles[5].status \notin {"AVAILABLE", "RESERVED"}
create_breakdown_case(d) ==
    [d EXCEPT !.first = TRUE, !.missions = @ \cup {"first"}, !.unit = "DISPATCHED", !.bay = "first",
              !.vehicles[1].status = "WAITING_RESCUE", !.vehicles[1].order = "first",
              !.vehicles[5].status = "IN_TRANSIT"]

\* The breakdown of V-001; a case that is there already is left alone.
Orchestrate ==
    /\ pc = "seeded"
    /\ db.first \/ ~case_refused(db)
    /\ db' = IF db.first THEN db ELSE create_breakdown_case(db)
    /\ pc' = "orchestrated"
    /\ UNCHANGED <<memory, graph, seeded, work>>

\* VehicleOperationsConflict, InvalidStateTransition: the setup ends there.
OrchestrateRefused ==
    /\ pc = "seeded"
    /\ ~db.first /\ case_refused(db)
    /\ pc' = "refused"
    /\ UNCHANGED <<db, memory, graph, seeded, work>>

SeedMemory ==
    /\ pc = "orchestrated"
    /\ memory' = TRUE
    /\ pc' = "remembered"
    /\ UNCHANGED <<db, graph, seeded, work>>

SeedGraph ==
    /\ pc = "remembered"
    /\ graph' = (graph \/ GraphMemoryBackend = "neo4j")
    /\ pc' = "up"
    /\ UNCHANGED <<db, memory, seeded, work>>

\* The container is stopped, or a store does not answer; or the county is started anew.
Restart ==
    /\ pc # "down"
    /\ pc' = "down"
    /\ UNCHANGED <<db, memory, graph, seeded, work>>

-----------------------------------------------------------------------------
(* Work on the county meanwhile *)

working ==
    /\ work < MaxWork /\ work' = work + 1
    /\ seeded # None
    /\ UNCHANGED <<memory, graph, pc, seeded>>

\* A reviewer decides, and the thread ends.
DecideCase(n) ==
    /\ working
    /\ db.tasks[n].status = "REVIEW_REQUIRED"
    /\ db' = [db EXCEPT !.tasks[n].status = "APPROVED", !.threads[n] = "TERMINAL"]

set_edge_status(e, status) ==
    /\ working
    /\ db.edges[e].status # status
    /\ db' = [db EXCEPT !.edges[e].status = status]

\* The fleet's own transitions, as far as the seed can tell them apart.
MoveVehicle(v, status) ==
    /\ working
    /\ db.vehicles[v].status # status
    /\ db' = [db EXCEPT !.vehicles[v].status = status]

\* The seeded case goes on: the vehicle is brought to the station, then repaired.
DeliverFirst ==
    /\ working
    /\ "first" \in db.missions
    /\ db' = [db EXCEPT !.missions = @ \ {"first"}, !.unit = "AVAILABLE", !.vehicles[1].status = "MAINTENANCE"]
RepairFirst ==
    /\ working
    /\ "first" \notin db.missions /\ db.bay = "first"
    /\ db' = [db EXCEPT !.bay = "none", !.vehicles[1].status = "AVAILABLE", !.vehicles[1].order = "none"]

\* DemoScenarioResetService.reset: both scenarios reopen the roads, one the vehicles too.
reset_roads(d) == [d EXCEPT !.edges[4].status = "OPEN", !.edges[10].status = "OPEN"]
reset_crews ==
    [v \in {2, 3, 5, 11} |-> CASE v = 2 -> 2 [] v = 3 -> 11 [] v = 5 -> 3 [] v = 11 -> 12]
reset_vehicle_breakdown(d) ==
    [d EXCEPT
        !.vehicles = [v \in DOMAIN @ |->
            IF v \in DOMAIN reset_crews
            THEN [status |-> IF v \in {2, 5} THEN "IN_TRANSIT" ELSE "AVAILABLE",
                  driver |-> reset_crews[v], order |-> "none"] ELSE @[v]],
        !.drivers = [x \in DOMAIN @ |->
            IF \E v \in DOMAIN reset_crews : reset_crews[v] = x
            THEN [status |-> "ON_DUTY", vehicle |-> CHOOSE v \in DOMAIN reset_crews : reset_crews[v] = x]
            ELSE @[x]],
        !.missions = @ \cap {"old"}, !.unit = "AVAILABLE", !.bay = "none"]
ResetRoads == working /\ db' = reset_roads(db)
ResetBreakdown == working /\ db' = reset_vehicle_breakdown(reset_roads(db))

Work ==
    \/ \E n \in WorkedCases : DecideCase(n)
    \/ \E e \in WorkedEdges, status \in {"OPEN", "CLOSED"} : set_edge_status(e, status)
    \/ \E v \in WorkedVehicles, status \in {"AVAILABLE", "RESERVED"} : MoveVehicle(v, status)
    \/ DeliverFirst \/ RepairFirst \/ ResetRoads \/ ResetBreakdown

Next ==
    \/ SeedDatabase \/ SeedRefused \/ Orchestrate \/ OrchestrateRefused \/ SeedMemory \/ SeedGraph \/ Restart
    \/ Work

Spec == Init /\ [][Next]_vars

-----------------------------------------------------------------------------

\* A second setup of what the first has left changes nothing (seed_database).
SetupIsIdempotent == [][SeedDatabase /\ db = seeded => db' = db]_vars

\* A setup takes back no work: decided cases and their threads, closed roads and
\* the vehicles stay as they are, but for the vehicles of DEMO_FLEET_VISUAL_STATES
\* and the one of the old case.
Kept(d, e) ==
    /\ \A n \in Cases : d.tasks[n] # None => e.tasks[n].status = d.tasks[n].status
    /\ \A n \in Cases : d.threads[n] # None => e.threads[n] = d.threads[n]
    /\ \A x \in DOMAIN d.edges : d.edges[x] # None => e.edges[x].status = d.edges[x].status
    /\ \A v \in DOMAIN d.vehicles \ DOMAIN DEMO_FLEET_VISUAL_STATES :
          (d.vehicles[v] # None /\ d.vehicles[v].order # "old") => e.vehicles[v].status = d.vehicles[v].status
\* Whenever the setup has run, that work is as it was (seed_database).
SetupKeepsWork == [][SeedDatabase => Kept(db, db')]_vars

=============================================================================
