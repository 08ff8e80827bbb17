-------------------------- MODULE MCFleetOperations --------------------------
(* Instances of FleetOperations for TLC. *)
EXTENDS FleetOperations, TLC

CONSTANTS t1, t2, t3, t4, v1, v2, v3, v4, w1, w2

\* t2 is about the vehicle that may replace the broken vehicle of t1; t3 is about the
\* same vehicle as t1: its breakdown follows the repair; t4 is about a vehicle the seed
\* put into maintenance, which no case can take.
MCOrderVehicle == t1 :> v1 @@ t2 :> v2 @@ t3 :> v1 @@ t4 :> v4

MCSuffix == t1 :> 7 @@ t2 :> 42 @@ t3 :> 113 @@ t4 :> 5

\* v1 is on the road, v2 and v3 are free to replace it, v4 is seeded off the road.
MCSeedStatus ==
    v1 :> "IN_TRANSIT" @@ v2 :> "AVAILABLE" @@ v3 :> "AVAILABLE" @@ v4 :> "MAINTENANCE"

\* The reset knows v1 and v2; v3 is a fleet vehicle outside the demonstration.
MCDemoStatus == v1 :> "IN_TRANSIT" @@ v2 :> "AVAILABLE"

\* Two workers at once; a reset among the steps of one; a progressor that stops and is
\* started again, with a reset in between.
MCSituations ==
    {[tasks |-> {t1, t2}, workers |-> {w1, w2}, resets |-> 0, stops |-> FALSE],
     [tasks |-> {t1, t3}, workers |-> {w1}, resets |-> 1, stops |-> FALSE],
     [tasks |-> {t1, t4}, workers |-> {w1}, resets |-> 1, stops |-> TRUE]}

================================================================================
