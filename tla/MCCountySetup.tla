---------------------------- MODULE MCCountySetup ----------------------------
(* The county with all its tables, started on the databases that may be there. *)
EXTENDS CountySetup

\* the orders, anomalies and nothing else of the first version
FirstVersion ==
    [Empty EXCEPT !.demo_orders = [n \in DOMAIN @ |-> IF n \in Cases THEN "legacy" ELSE None],
                  !.anomalies = Cases]

\* the sand table before there were standby crews and travel times of the live map
SecondVersion(status) ==
    LET d == seed_database(Empty) IN
    [d EXCEPT
        !.drivers = [x \in DOMAIN @ |-> IF x \in STANDBY_DRIVER_IDS THEN None ELSE @[x]],
        !.vehicles = [v \in DOMAIN @ |-> IF v \in DOMAIN STANDBY_DRIVER_ASSIGNMENTS
                                         THEN [@[v] EXCEPT !.driver = Nobody, !.status = status] ELSE @[v]],
        !.edges = [e \in DOMAIN @ |-> IF e \in DOMAIN LIVE_MAP_EDGE_MINUTE_UPGRADES
                                      THEN [@[e] EXCEPT !.minutes = LIVE_MAP_EDGE_MINUTE_UPGRADES[e][1]] ELSE @[e]]]

\* the version that opened a case for the source task 002
ThirdVersion ==
    [seed_database(Empty) EXCEPT
        !.missions = {"old"}, !.unit = "DISPATCHED", !.old_order = TRUE, !.bay = "old",
        !.vehicles[2].status = "MAINTENANCE", !.vehicles[2].order = "old"]

\* ... and whose unit and bay have gone over to the seeded case
ThirdVersionLater ==
    [create_breakdown_case(ThirdVersion) EXCEPT !.vehicles[2].status = "AVAILABLE", !.vehicles[2].order = "none"]

\* an order of somebody else under a demo key
ForeignOrder == [Empty EXCEPT !.demo_orders[12] = "foreign"]

Databases == {Empty, ForeignOrder, FirstVersion, SecondVersion("AVAILABLE"), SecondVersion("RESERVED"),
              ThirdVersion, ThirdVersionLater}
MCGenerations == Databases
=============================================================================
