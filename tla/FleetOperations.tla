---------------------------- MODULE FleetOperations ----------------------------
(***************************************************************************)
(* The physical fleet as MySQL records it: vehicles, the single rescue     *)
(* unit, maintenance bays, and the rescue mission and maintenance order of *)
(* every vehicle breakdown.                                                *)
(*                                                                         *)
(* Three kinds of writer share these rows:                                 *)
(*   - the dispatch workers, which reserve a replacement vehicle           *)
(*     (dispatch/service.py: an unlocked read, then an update guarded by   *)
(*     the row's version) and open the breakdown case of an approved       *)
(*     dispatch (vehicle_operations/service.py);                           *)
(*   - the progressor, which moves missions and orders forward when their  *)
(*     timer is due (vehicle_operations/progressor.py);                    *)
(*   - people: an inspector deciding an order, an operator resetting the   *)
(*     demonstration scenario (demo_reset/service.py).                     *)
(*                                                                         *)
(* One database transaction that takes its row locks before it decides is  *)
(* one action.  A transaction that decides on an unlocked read is two.     *)
(* Clock values are abstracted to "a timer is set": a set timer may be due *)
(* at any moment.                                                          *)
(***************************************************************************)
EXTENDS Naturals, Sequences, FiniteSets

CONSTANTS
    Tasks,         \* dispatch tasks about a vehicle breakdown
    Vehicles,      \* fleet_vehicles rows
    Bays,          \* maintenance_bays rows
    Workers,       \* concurrent callers of the dispatch and orchestration services
    OrderVehicle,  \* [Tasks -> Vehicles]: the vehicle that broke down
    Suffix,        \* [Tasks -> ...]: _suffix(task_id), the tail of mission_no
    Days,          \* calendar days a case may be opened on
    SeedStatus,    \* [Vehicles -> ...]: the fleet as the seed scripts leave it
    DemoStatus,    \* status the demo reset gives to each vehicle it resets
    Situations,    \* who takes part in a behaviour, how many resets there are, and
                   \* whether the progressor may stop (see limits)
    None           \* SQL NULL

VehicleOperationalStatus ==
    {"AVAILABLE", "RESERVED", "IN_TRANSIT", "DISPATCHING", "BROKEN", "WAITING_RESCUE",
     "IN_RESCUE", "MAINTENANCE", "QA_PENDING", "OUT_OF_SERVICE"}

\* The seed leaves vehicles in any status, some of them off the road without a case.
ASSUME FleetAssumption ==
    /\ OrderVehicle \in [Tasks -> Vehicles]
    /\ DOMAIN Suffix = Tasks
    /\ SeedStatus \in [Vehicles -> VehicleOperationalStatus]
    /\ DOMAIN DemoStatus \subseteq Vehicles
    /\ \A v \in DOMAIN DemoStatus : DemoStatus[v] \in {"AVAILABLE", "IN_TRANSIT"}
    /\ Situations \subseteq [tasks : SUBSET Tasks, workers : SUBSET Workers, resets : Nat,
                             stops : BOOLEAN]
    /\ None \notin Tasks \cup Vehicles \cup Bays

VARIABLES
    vehicle_status, vehicle_version, vehicle_order,
    dispatched, target,
    unit_status, mission_status, mission_timer, mission_no,
    order_status, order_timer, order_manual, order_result, order_bay,
    bay_order, outbox, routed, job, resets,
    progressor,  \* the asyncio task of the progressor: "running" or "stopped"
    limits       \* the situation of this behaviour, which never changes

vehicleVars == <<vehicle_status, vehicle_version, vehicle_order>>
dispatchVars == <<dispatched, target>>
missionVars == <<unit_status, mission_status, mission_timer, mission_no>>
orderVars == <<order_status, order_timer, order_manual, order_result, order_bay, bay_order>>
vars == <<vehicleVars, dispatchVars, missionVars, orderVars, outbox, routed, job, resets,
          progressor, limits>>
\* FAILED missions are part of the enumeration, but no code ever writes that status.
RescueStatus == {"CREATED", "DISPATCHED", "ARRIVED", "LOADED", "DELIVERED", "FAILED", "CANCELLED"}
MaintenanceStatus ==
    {"SCHEDULED", "WAITING_BAY", "DIAGNOSING", "REPAIRING", "QA_PENDING", "COMPLETED",
     "FAILED", "CANCELLED"}

VehicleTransitions ==
    {<<"AVAILABLE", "RESERVED">>, <<"AVAILABLE", "DISPATCHING">>, <<"AVAILABLE", "BROKEN">>,
     <<"RESERVED", "DISPATCHING">>, <<"DISPATCHING", "IN_TRANSIT">>, <<"IN_TRANSIT", "BROKEN">>,
     <<"BROKEN", "WAITING_RESCUE">>, <<"WAITING_RESCUE", "IN_RESCUE">>,
     <<"IN_RESCUE", "MAINTENANCE">>, <<"MAINTENANCE", "QA_PENDING">>,
     <<"QA_PENDING", "AVAILABLE">>, <<"QA_PENDING", "OUT_OF_SERVICE">>}

ActiveRescue == {"DISPATCHED", "ARRIVED", "LOADED"}
ActiveMaintenance == {"WAITING_BAY", "DIAGNOSING", "REPAIRING", "QA_PENDING"}
OpenOrder == ActiveMaintenance \cup {"SCHEDULED"}

Events ==
    {"VEHICLE_STOPPED", "REPLACEMENT_DISPATCHED", "RESCUE_DISPATCHED", "RESCUE_ARRIVED",
     "VEHICLE_LOADED", "TOW_DELIVERED", "MAINTENANCE_SCHEDULED", "MAINTENANCE_DIAGNOSING",
     "MAINTENANCE_REPAIRING", "MAINTENANCE_QA_PENDING", "MAINTENANCE_COMPLETED",
     "INSPECTION_DECIDED", "VEHICLE_AVAILABLE", "VEHICLE_OUT_OF_SERVICE"}

IdleJob == [pc |-> "idle", task |-> None, attempts |-> <<>>, version |-> 0]

\* No case yet, every resource free.
Init ==
    /\ vehicle_status = SeedStatus
    /\ vehicle_version = [v \in Vehicles |-> 1]
    /\ vehicle_order = [v \in Vehicles |-> None]
    /\ dispatched = {}
    /\ target = [t \in Tasks |-> None]
    /\ unit_status = "AVAILABLE"
    /\ mission_status = [t \in Tasks |-> "NONE"]
    /\ mission_timer = [t \in Tasks |-> FALSE]
    /\ mission_no = [t \in Tasks |-> None]
    /\ order_status = [t \in Tasks |-> "NONE"]
    /\ order_timer = [t \in Tasks |-> FALSE]
    /\ order_manual = [t \in Tasks |-> FALSE]
    /\ order_result = [t \in Tasks |-> "NONE"]
    /\ order_bay = [t \in Tasks |-> None]
    /\ bay_order = [b \in Bays |-> None]
    /\ outbox = [t \in Tasks |-> <<>>]
    /\ routed = [t \in Tasks |-> FALSE]
    /\ job = [w \in Workers |-> IdleJob]
    /\ resets = 0
    /\ progressor = "running"
    /\ limits \in Situations

emit(t, events) == outbox' = [outbox EXCEPT ![t] = @ \o events]

--------------------------------------------------------------------------------
(* Reserving a replacement vehicle: DispatchService.execute                *)

\* Eligible candidates as FleetAllocationService.allocate ranked them: other vehicles
\* that were AVAILABLE when the capacity step looked.  execute() tries the first two.
CandidateLists(t) ==
    LET free == {v \in Vehicles \ {OrderVehicle[t]} : vehicle_status[v] = "AVAILABLE"}
    IN  {<<None>>} \cup {<<v>> : v \in free}
          \cup {<<p[1], p[2]>> : p \in {q \in free \X free : q[1] # q[2]}}

start_dispatch(w, t) ==
    /\ job[w].pc = "idle"
    /\ \E attempts \in CandidateLists(t) :
         job' = [job EXCEPT ![w] = [pc |-> "execute", task |-> t, attempts |-> attempts, version |-> 0]]
    /\ UNCHANGED <<vehicleVars, dispatchVars, missionVars, orderVars, outbox, routed, resets>>

\* _CandidateReservationConflict: go on with the next candidate, or give up.
next_candidate(w) ==
    job' = [job EXCEPT ![w] = IF Len(job[w].attempts) = 1 THEN IdleJob
                              ELSE [job[w] EXCEPT !.pc = "execute",
                                                  !.attempts = Tail(job[w].attempts)]]

\* _execute_once up to the flush: every row is read without a lock.
execute_read(w) ==
    LET t == job[w].task
        v == Head(job[w].attempts)
    IN  /\ job[w].pc = "execute"
        /\ \/ /\ t \in dispatched
              /\ job' = [job EXCEPT ![w] = IdleJob]
           \/ /\ t \notin dispatched
              /\ v # None
              /\ vehicle_status[v] # "AVAILABLE"
              /\ next_candidate(w)
           \/ /\ t \notin dispatched
              /\ v = None
              /\ job' = [job EXCEPT ![w].pc = "flush"]
           \/ /\ t \notin dispatched
              /\ v # None
              /\ vehicle_status[v] = "AVAILABLE"
              /\ job' = [job EXCEPT ![w].pc = "flush", ![w].version = vehicle_version[v]]
        /\ UNCHANGED <<vehicleVars, dispatchVars, missionVars, orderVars, outbox, routed, resets>>

\* The version column of fleet_vehicles: UPDATE ... WHERE version = <the version read>.
version_ignored(w, v) == TRUE
version_matches(w, v) == v # None => vehicle_version[v] = job[w].version

\* The flush and commit: the vehicle row first, then the dispatch row with its unique
\* task_id.  Another worker's dispatch for the same task rolls this one back.
execute_commit(w) ==
    LET t == job[w].task
        v == Head(job[w].attempts)
    IN  /\ job[w].pc = "flush"
        /\ \/ /\ ~version_matches(w, v)
              /\ next_candidate(w)
              /\ UNCHANGED <<vehicleVars, dispatchVars>>
           \/ /\ version_matches(w, v)
              /\ t \in dispatched
              /\ job' = [job EXCEPT ![w] = IdleJob]
              /\ UNCHANGED <<vehicleVars, dispatchVars>>
           \/ /\ version_matches(w, v)
              /\ t \notin dispatched
              /\ dispatched' = dispatched \cup {t}
              /\ target' = [target EXCEPT ![t] = v]
              /\ IF v = None THEN UNCHANGED vehicleVars
                 ELSE /\ vehicle_status' = [vehicle_status EXCEPT ![v] = "RESERVED"]
                      /\ vehicle_version' = [vehicle_version EXCEPT ![v] = @ + 1]
                      /\ UNCHANGED vehicle_order
              /\ job' = [job EXCEPT ![w] = IdleJob]
        /\ UNCHANGED <<missionVars, orderVars, outbox, routed, resets>>

--------------------------------------------------------------------------------
(* The breakdown case of an approved dispatch: RescueOrchestrationService  *)

\* handle_approved_breakdown and orchestrate.  Without a case the worker goes on to
\* create one; with a case whose replacement route is still empty it recomputes the
\* route, which may be empty again.  No route at all raises and changes nothing.
orchestrate(w, t) ==
    /\ job[w].pc = "idle"
    /\ t \in dispatched
    /\ \/ /\ mission_status[t] = "NONE"
          /\ job' = [job EXCEPT ![w] = [IdleJob EXCEPT !.pc = "create", !.task = t]]
          /\ UNCHANGED routed
       \/ /\ mission_status[t] # "NONE"
          /\ target[t] # None
          /\ ~routed[t]
          /\ routed' = [routed EXCEPT ![t] = TRUE]
          /\ UNCHANGED job
    /\ UNCHANGED <<vehicleVars, dispatchVars, missionVars, orderVars, outbox, resets>>

VehicleMay(v, s) == <<vehicle_status[v], s>> \in VehicleTransitions

\* The locked part of create_breakdown_case either commits the whole case or raises
\* and rolls back: no unit, no bay, an illegal vehicle transition, or a unique key
\* (task_id, mission_no) already taken.
unit_free == unit_status = "AVAILABLE"

free_bays == {b \in Bays : bay_order[b] = None}

vehicles_may_move(t) ==
    /\ VehicleMay(OrderVehicle[t], "BROKEN")
    /\ target[t] # None => VehicleMay(target[t], "DISPATCHING")

no_unique_keys(t, no) == TRUE
unique_keys_free(t, no) ==
    /\ mission_status[t] = "NONE"
    /\ \A u \in Tasks : mission_no[u] # no

case_can_commit(t, no) ==
    unit_free /\ free_bays # {} /\ vehicles_may_move(t) /\ unique_keys_free(t, no)

commit_case(t, no) ==
    LET v == OrderVehicle[t]
        r == target[t]
        touched == {v} \cup ({r} \ {None})
    IN  /\ vehicle_status' = [x \in Vehicles |-> IF x = v THEN "WAITING_RESCUE"
                                               ELSE IF x = r THEN "IN_TRANSIT"
                                               ELSE vehicle_status[x]]
        /\ vehicle_version' = [x \in Vehicles |-> IF x \in touched THEN vehicle_version[x] + 1
                                                ELSE vehicle_version[x]]
        /\ vehicle_order' = [vehicle_order EXCEPT ![v] = t]
        /\ unit_status' = "DISPATCHED"
        /\ mission_status' = [mission_status EXCEPT ![t] = "DISPATCHED"]
        /\ mission_timer' = [mission_timer EXCEPT ![t] = TRUE]
        /\ mission_no' = [mission_no EXCEPT ![t] = no]
        /\ order_status' = [order_status EXCEPT ![t] = "SCHEDULED"]
        /\ order_manual' \in {[order_manual EXCEPT ![t] = m] : m \in BOOLEAN}
        /\ \E b \in free_bays :
             /\ order_bay' = [order_bay EXCEPT ![t] = b]
             /\ bay_order' = [bay_order EXCEPT ![b] = t]
        /\ routed' \in {[routed EXCEPT ![t] = e] : e \in IF r = None THEN {FALSE} ELSE BOOLEAN}
        /\ emit(t, <<"VEHICLE_STOPPED">> \o (IF r = None THEN <<>> ELSE <<"REPLACEMENT_DISPATCHED">>)
                     \o <<"RESCUE_DISPATCHED", "MAINTENANCE_SCHEDULED">>)
        /\ UNCHANGED <<order_timer, order_result>>

create_breakdown_case(w) ==
    LET t == job[w].task
    IN  /\ job[w].pc = "create"
        /\ job' = [job EXCEPT ![w] = IdleJob]
        /\ \E day \in Days :
             \/ /\ case_can_commit(t, <<day, Suffix[t]>>)
                /\ commit_case(t, <<day, Suffix[t]>>)
             \/ /\ ~case_can_commit(t, <<day, Suffix[t]>>)
                /\ UNCHANGED <<vehicleVars, missionVars, orderVars, outbox, routed>>
        /\ UNCHANGED <<dispatchVars, resets>>

\* A worker process dies: its open transaction is rolled back.
crash(w) ==
    /\ job[w].pc # "idle"
    /\ job' = [job EXCEPT ![w] = IdleJob]
    /\ UNCHANGED <<vehicleVars, dispatchVars, missionVars, orderVars, outbox, routed, resets>>

--------------------------------------------------------------------------------
(* The progressor and the inspector                                        *)

\* _transition_vehicle, with the version bump of the row update.
move_vehicle(v, s) ==
    /\ VehicleMay(v, s)
    /\ vehicle_status' = [vehicle_status EXCEPT ![v] = s]
    /\ vehicle_version' = [vehicle_version EXCEPT ![v] = @ + 1]

rescue_arrives(t) ==
    /\ mission_status[t] = "DISPATCHED"
    /\ mission_status' = [mission_status EXCEPT ![t] = "ARRIVED"]
    /\ emit(t, <<"RESCUE_ARRIVED">>)
    /\ UNCHANGED <<vehicleVars, unit_status, mission_timer, orderVars>>

vehicle_loaded(t) ==
    /\ mission_status[t] = "ARRIVED"
    /\ mission_status' = [mission_status EXCEPT ![t] = "LOADED"]
    /\ move_vehicle(OrderVehicle[t], "IN_RESCUE")
    /\ emit(t, <<"VEHICLE_LOADED">>)
    /\ UNCHANGED <<vehicle_order, unit_status, mission_timer, orderVars>>

release_unit == unit_status' = "AVAILABLE"

order_waits_for_bay(t) ==
    /\ order_status[t] = "SCHEDULED"
    /\ order_status' = [order_status EXCEPT ![t] = "WAITING_BAY"]
    /\ order_timer' = [order_timer EXCEPT ![t] = TRUE]

tow_delivered(t) ==
    /\ mission_status[t] = "LOADED"
    /\ mission_status' = [mission_status EXCEPT ![t] = "DELIVERED"]
    /\ mission_timer' = [mission_timer EXCEPT ![t] = FALSE]
    /\ move_vehicle(OrderVehicle[t], "MAINTENANCE")
    /\ release_unit
    /\ order_waits_for_bay(t)
    /\ emit(t, <<"TOW_DELIVERED">>)
    /\ UNCHANGED <<vehicle_order, order_manual, order_result, order_bay, bay_order>>

advance_one_due_rescue(t) ==
    /\ mission_timer[t]
    /\ rescue_arrives(t) \/ vehicle_loaded(t) \/ tow_delivered(t)
    /\ UNCHANGED <<dispatchVars, mission_no, routed, job, resets>>

\* _release_vehicle_and_bay.  A failed inspection leaves the order number on the vehicle.
release_vehicle_and_bay(t, passed) ==
    /\ move_vehicle(OrderVehicle[t], IF passed THEN "AVAILABLE" ELSE "OUT_OF_SERVICE")
    /\ vehicle_order' = IF passed THEN [vehicle_order EXCEPT ![OrderVehicle[t]] = None]
                        ELSE vehicle_order
    /\ bay_order' = [bay_order EXCEPT ![order_bay[t]] = None]

nobody_needed(t) == FALSE
needs_person(t) == order_manual[t] /\ order_result[t] = "NONE"

\* QA_PENDING that waits for a person: the timer is cleared and nothing else happens.
await_inspection(t) ==
    /\ order_status[t] = "QA_PENDING"
    /\ needs_person(t)
    /\ order_timer' = [order_timer EXCEPT ![t] = FALSE]
    /\ UNCHANGED <<vehicleVars, order_status, order_result, bay_order, outbox>>

start_repair_stage(t) ==
    /\ \/ /\ order_status[t] = "WAITING_BAY"
          /\ order_status' = [order_status EXCEPT ![t] = "DIAGNOSING"]
          /\ emit(t, <<"MAINTENANCE_DIAGNOSING">>)
       \/ /\ order_status[t] = "DIAGNOSING"
          /\ order_status' = [order_status EXCEPT ![t] = "REPAIRING"]
          /\ emit(t, <<"MAINTENANCE_REPAIRING">>)
    /\ UNCHANGED <<vehicleVars, order_timer, order_result, bay_order>>

start_qa_timer_lost(t) ==
    /\ order_status[t] = "REPAIRING"
    /\ order_status' = [order_status EXCEPT ![t] = "QA_PENDING"]
    /\ order_timer' = [order_timer EXCEPT ![t] = FALSE]
    /\ move_vehicle(OrderVehicle[t], "QA_PENDING")
    /\ emit(t, <<"MAINTENANCE_QA_PENDING">>)
    /\ UNCHANGED <<vehicle_order, order_result, bay_order>>

start_qa(t) ==
    /\ order_status[t] = "REPAIRING"
    /\ order_status' = [order_status EXCEPT ![t] = "QA_PENDING"]
    /\ move_vehicle(OrderVehicle[t], "QA_PENDING")
    /\ emit(t, <<"MAINTENANCE_QA_PENDING">>)
    /\ UNCHANGED <<vehicle_order, order_timer, order_result, bay_order>>

complete_order(t) ==
    /\ order_status[t] = "QA_PENDING"
    /\ ~needs_person(t)
    /\ order_status' = [order_status EXCEPT ![t] = "COMPLETED"]
    /\ order_timer' = [order_timer EXCEPT ![t] = FALSE]
    /\ order_result' = [order_result EXCEPT ![t] = "PASSED"]
    /\ release_vehicle_and_bay(t, TRUE)
    /\ emit(t, <<"MAINTENANCE_COMPLETED", "VEHICLE_AVAILABLE">>)

advance_one_due_maintenance(t) ==
    /\ order_timer[t]
    /\ \/ await_inspection(t)
       \/ start_repair_stage(t)
       \/ start_qa(t)
       \/ complete_order(t)
    /\ UNCHANGED <<dispatchVars, missionVars, order_manual, order_bay, routed, job, resets>>

record_inspection(t, passed) ==
    /\ order_status[t] = "QA_PENDING"
    /\ order_status' = [order_status EXCEPT ![t] = IF passed THEN "COMPLETED" ELSE "FAILED"]
    /\ order_result' = [order_result EXCEPT ![t] = IF passed THEN "PASSED" ELSE "FAILED"]
    /\ order_timer' = [order_timer EXCEPT ![t] = FALSE]
    /\ release_vehicle_and_bay(t, passed)
    /\ emit(t, <<IF passed THEN "VEHICLE_AVAILABLE" ELSE "VEHICLE_OUT_OF_SERVICE",
                 "INSPECTION_DECIDED">>)
    /\ UNCHANGED <<dispatchVars, missionVars, order_manual, order_bay, routed, job, resets>>

cancel_missions ==
    /\ mission_status' = [t \in Tasks |-> IF mission_status[t] \in ActiveRescue THEN "CANCELLED"
                                         ELSE mission_status[t]]
    /\ mission_timer' = [t \in Tasks |-> mission_timer[t] /\ mission_status[t] \notin ActiveRescue]

cancel_orders ==
    /\ order_status' = [t \in Tasks |-> IF order_status[t] \in OpenOrder THEN "CANCELLED"
                                       ELSE order_status[t]]
    /\ order_timer' = [t \in Tasks |-> order_timer[t] /\ order_status[t] \notin OpenOrder]

free_units == unit_status' = "AVAILABLE"

free_all_bays == bay_order' = [b \in Bays |-> None]

\* DemoScenarioResetService: every open mission and order is cancelled and every unit and
\* bay freed, but only the demonstration vehicles are put back.  Dispatch rows stay.  A row
\* the reset does not change keeps its version; a vehicle row may change in a column that
\* is not modelled (node, driver).
reset_vehicle_breakdown ==
    /\ resets < limits.resets
    /\ resets' = resets + 1
    /\ vehicle_status' = [v \in Vehicles |-> IF v \in DOMAIN DemoStatus THEN DemoStatus[v]
                                            ELSE vehicle_status[v]]
    /\ \E touched \in SUBSET DOMAIN DemoStatus :
         /\ \A v \in DOMAIN DemoStatus :
              vehicle_status[v] # DemoStatus[v] \/ vehicle_order[v] # None => v \in touched
         /\ vehicle_version' = [v \in Vehicles |-> IF v \in touched THEN vehicle_version[v] + 1
                                                  ELSE vehicle_version[v]]
    /\ vehicle_order' = [v \in Vehicles |-> IF v \in DOMAIN DemoStatus THEN None
                                           ELSE vehicle_order[v]]
    /\ cancel_missions
    /\ cancel_orders
    /\ free_units
    /\ free_all_bays
    /\ UNCHANGED <<dispatchVars, mission_no, order_manual, order_result, order_bay, outbox,
                   routed, job>>

\* An exception escapes run_once, which has no try: the database ends the transaction
\* (the reset locks vehicles before missions, the progressor missions before vehicles,
\* and InnoDB breaks such a deadlock) or cannot be reached.  The transaction is rolled
\* back, run_forever is over, and nothing awaits the task before shutdown.
run_once_fails ==
    /\ limits.stops
    /\ progressor = "running"
    /\ progressor' = "stopped"

\* Only the start of an API process creates the task.
start_vehicle_operations_progressor ==
    /\ progressor = "stopped"
    /\ progressor' = "running"

Next ==
    /\ \/ /\ \/ \E w \in Workers \cap limits.workers :
                  \/ \E t \in Tasks \cap limits.tasks : start_dispatch(w, t) \/ orchestrate(w, t)
                  \/ execute_read(w) \/ execute_commit(w) \/ create_breakdown_case(w) \/ crash(w)
             \/ /\ progressor = "running"
                /\ \E t \in Tasks : advance_one_due_rescue(t) \/ advance_one_due_maintenance(t)
             \/ \E t \in Tasks, passed \in BOOLEAN : record_inspection(t, passed)
             \/ reset_vehicle_breakdown
          /\ UNCHANGED progressor
       \/ /\ run_once_fails \/ start_vehicle_operations_progressor
          /\ UNCHANGED <<vehicleVars, dispatchVars, missionVars, orderVars, outbox, routed, job, resets>>
    /\ UNCHANGED limits

Spec == Init /\ [][Next]_vars

\* A progressor that runs polls once a second and takes the row whose timer is oldest, so
\* a due mission or order is not passed over for ever.  Nothing is assumed of a stopped
\* one, nor that it is started again, nor of workers, inspectors or operators.
Fairness ==
    LET Runs == progressor = "running" /\ UNCHANGED <<progressor, limits>>
    IN  \A t \in Tasks : /\ WF_vars(Runs /\ advance_one_due_rescue(t))
                        /\ WF_vars(Runs /\ advance_one_due_maintenance(t))

FairSpec == Spec /\ Fairness

--------------------------------------------------------------------------------
(* Properties                                                              *)

Job == [pc : {"idle", "execute", "flush", "create"}, task : Tasks \cup {None},
        attempts : Seq(Vehicles \cup {None}), version : Nat]

RowTypeOK ==
    /\ vehicle_status \in [Vehicles -> VehicleOperationalStatus]
    /\ vehicle_version \in [Vehicles -> Nat]
    /\ vehicle_order \in [Vehicles -> Tasks \cup {None}]
    /\ dispatched \subseteq Tasks
    /\ target \in [Tasks -> Vehicles \cup {None}]
    /\ unit_status \in {"AVAILABLE", "DISPATCHED"}
    /\ mission_status \in [Tasks -> RescueStatus \cup {"NONE"}]
    /\ mission_timer \in [Tasks -> BOOLEAN]
    /\ mission_no \in [Tasks -> (Days \X {Suffix[t] : t \in Tasks}) \cup {None}]
    /\ order_status \in [Tasks -> MaintenanceStatus \cup {"NONE"}]
    /\ order_timer \in [Tasks -> BOOLEAN]
    /\ order_manual \in [Tasks -> BOOLEAN]
    /\ order_result \in [Tasks -> {"NONE", "PASSED", "FAILED"}]
    /\ order_bay \in [Tasks -> Bays \cup {None}]
    /\ bay_order \in [Bays -> Tasks \cup {None}]
    /\ outbox \in [Tasks -> Seq(Events)]
    /\ routed \in [Tasks -> BOOLEAN]
    /\ resets \in Nat

TypeOK == RowTypeOK /\ job \in [Workers -> Job]

\* The one rescue unit serves at most one mission, and is marked DISPATCHED exactly while
\* it serves one: no interleaving of two workers, the progressor and a demo reset sends
\* it twice or leaves it dispatched with nothing to do.
RescueUnitExclusive ==
    /\ \A t, u \in Tasks :
         mission_status[t] \in ActiveRescue /\ mission_status[u] \in ActiveRescue => t = u
    /\ unit_status = "DISPATCHED" <=> \E t \in Tasks : mission_status[t] \in ActiveRescue

\* A bay is held by one open order, and an open order holds its own bay: releasing a bay
\* (by the progressor or by an inspector) never frees a bay another order holds.
BayHeldByItsOrder ==
    /\ \A b \in Bays : bay_order[b] # None =>
         order_status[bay_order[b]] \in OpenOrder /\ order_bay[bay_order[b]] = b
    /\ \A t \in Tasks : order_status[t] \in OpenOrder =>
         order_bay[t] \in Bays /\ bay_order[order_bay[t]] = t

\* What the vehicle of an open case must be doing at each stage of the case.
Lockstep(t) ==
    LET v == OrderVehicle[t]
    IN  /\ mission_status[t] \in {"DISPATCHED", "ARRIVED"} =>
             order_status[t] = "SCHEDULED" /\ vehicle_status[v] = "WAITING_RESCUE"
        /\ mission_status[t] = "LOADED" =>
             order_status[t] = "SCHEDULED" /\ vehicle_status[v] = "IN_RESCUE"
        /\ order_status[t] = "SCHEDULED" => mission_status[t] \in ActiveRescue
        /\ order_status[t] \in ActiveMaintenance =>
             /\ mission_status[t] = "DELIVERED"
             /\ vehicle_status[v] = IF order_status[t] = "QA_PENDING" THEN "QA_PENDING"
                                    ELSE "MAINTENANCE"
        /\ order_status[t] \in OpenOrder => vehicle_order[v] = t

\* Mission, order and vehicle of a case move together whoever moves them, so the
\* require_*_transition checks of the progressor never fail: a failing check would
\* escape run_forever and stop the progressor for every case.
CaseInLockstep == \A t \in Tasks : Lockstep(t)

\* Nothing is stranded: a mission or order that still has a step to take has its timer
\* set, unless the order waits for a manual inspection.
NothingStranded ==
    \A t \in Tasks :
        /\ mission_status[t] \in ActiveRescue => mission_timer[t]
        /\ order_status[t] \in ActiveMaintenance =>
             order_timer[t] \/ (order_status[t] = "QA_PENDING" /\ order_manual[t])

\* A vehicle is taken by the dispatch service only from AVAILABLE, although the service
\* reads the status without a lock: a vehicle that broke down or went into repair
\* between the read and the commit is not reserved.
ReservedOnlyWhenAvailable ==
    [][\A v \in Vehicles : vehicle_status'[v] = "RESERVED" /\ vehicle_status[v] # "RESERVED"
         => vehicle_status[v] = "AVAILABLE"]_vars

\* As long as nobody resets the demonstration, a vehicle is promised to at most one
\* dispatch that has not sent it out yet.
OneReservationPerVehicle ==
    resets = 0 =>
        \A t, u \in dispatched :
            /\ target[t] = target[u] /\ target[t] # None
            /\ mission_status[t] = "NONE" /\ mission_status[u] = "NONE"
            => t = u

\* As long as nobody resets the demonstration, a vehicle a case took out of circulation is
\* on an open case that will bring it back.  A vehicle the seed put there (V-006 and V-018
\* are seeded in MAINTENANCE) stays as it was seeded: no step of the program moves it.
NoVehicleForgotten ==
    resets = 0 =>
        \A v \in Vehicles :
            vehicle_status[v] \in {"WAITING_RESCUE", "IN_RESCUE", "MAINTENANCE", "QA_PENDING"} =>
                \/ \E t \in Tasks : OrderVehicle[t] = v /\ order_status[t] \in OpenOrder
                \/ vehicle_status[v] = SeedStatus[v]

\* Redelivered tasks and concurrent workers record each event of a case once
\* (a vehicle is stopped, towed and released once).
EventsRecordedOnce ==
    \A t \in Tasks : \A i, j \in DOMAIN outbox[t] : outbox[t][i] = outbox[t][j] => i = j

\* An order that needs a manual inspection puts the vehicle back on the road only after
\* a person decided, never by its timer.
ManualOrderDecidedByPerson ==
    \A t \in Tasks : order_manual[t] /\ order_status[t] = "COMPLETED" =>
        \E i \in DOMAIN outbox[t] : outbox[t][i] = "INSPECTION_DECIDED"

\* Once the progressor stays up, whatever it missed while it was stopped and whatever the
\* reset left behind, the rescue unit always comes back and every order ends or waits for
\* its inspector.  (A task has one case: all cases being there again and again says this
\* of each.)  A progressor that stopped for good leaves its cases where they are.
CasesEnd ==
    []<>(\/ progressor = "stopped"
         \/ /\ unit_status = "AVAILABLE"
            /\ \A t \in Tasks :
                 order_status[t] \in OpenOrder =>
                     order_status[t] = "QA_PENDING" /\ order_manual[t] /\ ~order_timer[t])

--------------------------------------------------------------------------------
(* The inductive invariant behind the safety properties                    *)

\* What a job remembers is still usable: the candidates exclude the broken vehicle, and a
\* vehicle whose version did not move since the read is still AVAILABLE.
JobInv ==
    \A w \in Workers :
        /\ job[w].pc # "idle" => job[w].task \in Tasks
        /\ job[w].pc \in {"execute", "flush"} =>
             /\ Len(job[w].attempts) \in {1, 2}
             /\ \A i \in DOMAIN job[w].attempts : job[w].attempts[i] # OrderVehicle[job[w].task]
        /\ job[w].pc = "flush" /\ Head(job[w].attempts) # None =>
             /\ job[w].version <= vehicle_version[Head(job[w].attempts)]
             /\ job[w].version = vehicle_version[Head(job[w].attempts)] =>
                  vehicle_status[Head(job[w].attempts)] = "AVAILABLE"

\* A timer runs only while there is a step to take.
TimerInv ==
    \A t \in Tasks :
        /\ mission_timer[t] => mission_status[t] \in ActiveRescue
        /\ order_timer[t] => order_status[t] \in ActiveMaintenance

\* Without resets, the vehicle of a dispatch that has no case yet is still held for it.
HeldInv ==
    /\ \A t \in Tasks : target[t] # None => t \in dispatched /\ target[t] # OrderVehicle[t]
    /\ resets = 0 =>
         \A t \in Tasks : target[t] # None /\ mission_status[t] = "NONE" =>
             vehicle_status[target[t]] = "RESERVED"

\* When an event is in a case's outbox, the case has passed the step that records it.
Past(t, event) ==
    /\ mission_status[t] # "NONE"
    /\ event = "RESCUE_ARRIVED" => mission_status[t] # "DISPATCHED"
    /\ event = "VEHICLE_LOADED" => mission_status[t] \notin {"DISPATCHED", "ARRIVED"}
    /\ event = "TOW_DELIVERED" => mission_status[t] \notin ActiveRescue
    /\ event = "MAINTENANCE_DIAGNOSING" => order_status[t] \notin {"SCHEDULED", "WAITING_BAY"}
    /\ event = "MAINTENANCE_REPAIRING" => order_status[t] \notin {"SCHEDULED", "WAITING_BAY", "DIAGNOSING"}
    /\ event = "MAINTENANCE_QA_PENDING" => order_status[t] \notin OpenOrder \ {"QA_PENDING"}
    /\ event \in {"MAINTENANCE_COMPLETED", "VEHICLE_AVAILABLE", "VEHICLE_OUT_OF_SERVICE", "INSPECTION_DECIDED"} =>
         order_status[t] \notin OpenOrder

\* The outbox of a case tells its past, and an order gets its result when it ends.
HistoryInv ==
    /\ EventsRecordedOnce
    /\ ManualOrderDecidedByPerson
    /\ \A t \in Tasks :
         /\ \A i \in DOMAIN outbox[t] : Past(t, outbox[t][i])
         /\ mission_status[t] = "NONE" => order_status[t] = "NONE" /\ order_result[t] = "NONE"
         /\ order_status[t] \in OpenOrder => order_result[t] = "NONE"

\* Everything the rows and the jobs promise together.
OperationsInv ==
    /\ TypeOK
    /\ RescueUnitExclusive
    /\ BayHeldByItsOrder
    /\ CaseInLockstep
    /\ NothingStranded
    /\ OneReservationPerVehicle
    /\ NoVehicleForgotten
    /\ JobInv
    /\ TimerInv
    /\ HeldInv

\* Rows, jobs and outboxes: closed under every step, which none of the safety properties
\* above is by itself.
FleetInv == OperationsInv /\ HistoryInv /\ progressor \in {"running", "stopped"}

================================================================================
