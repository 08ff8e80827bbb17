-------------------------- MODULE MCTaskSubmission --------------------------
(* Two drivers, a dispatcher and up to three requests among them. *)
EXTENDS TaskSubmission, TLC

CONSTANTS p1, p2, d1, d2, boss, k1, c1, c2, c1_padded, s1, s2, s3, s4, s5

MCProcesses == {p1, p2}
ProcessSymmetry == Permutations(MCProcesses)
MCSubjects == {d1, d2, boss}
MCActive == {d1}         \* d2 has lost the account, s5 no task row
MCStripped == (c1 :> c1) @@ (c2 :> c2) @@ (c1_padded :> c1)
MCVerdicts == {"APPROVED", "DLQ"}

Delivery == [order |-> 1, assignee |-> d1, status |-> "REVIEW_REQUIRED", anomaly |-> FALSE, driver |-> FALSE,
             vehicle |-> TRUE, vehicle_driver |-> TRUE, route |-> FALSE, stations |-> TRUE]
MCSourceRow ==
    (s1 :> Delivery)
    @@ (s2 :> [Delivery EXCEPT !.anomaly = TRUE, !.status = "IN_PROGRESS"])
    @@ (s3 :> [Delivery EXCEPT !.vehicle = FALSE, !.status = "ASSIGNED"])
    @@ (s4 :> [Delivery EXCEPT !.assignee = d2, !.status = "APPROVED"])

Report(subject, source, content) ==
    [kind |-> "report", subject |-> subject, key |-> k1, source |-> source, content |-> content]
Direct(order_id, content, employee) ==
    [kind |-> "submit", subject |-> boss, key |-> k1, order |-> order_id,
     content |-> content, assignee |-> employee]

Read == [kind |-> "read", subject |-> boss, key |-> k1]

\* Retries and races of one report; reports that differ or are refused; direct
\* submissions; admission.
MixTable ==
    {[inputs |-> {Report(d1, s1, c1)}, requests |-> 3, until |-> 0],
     [inputs |-> {Report(d1, s1, c1), Report(d1, s1, c2), Report(d1, s1, c1_padded), Report(d2, s1, c1),
                  Report(d2, s4, c1), Report(d1, s2, c1), Report(d1, s3, c1), Report(d1, s5, c1)},
      requests |-> 2, until |-> 0],
     [inputs |-> {Direct(1, c1, None), Direct(1, c2, d1), Direct(2, c1, None), Direct(1, c1, d2)},
      requests |-> 2, until |-> 0],
     [inputs |-> {Direct(1, c1, None), Read}, requests |-> 2, until |-> 1],
     [inputs |-> {Read}, requests |-> 3, until |-> 3]}
MCMixes == MixTable

MCPolicies ==
    ("dispatch_submit" :> [capacity |-> 3, refill_per_minute |-> 1])
    @@ ("observability_read" :> [capacity |-> 1, refill_per_minute |-> 1])
=============================================================================
