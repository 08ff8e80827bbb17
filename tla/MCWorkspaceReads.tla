-------------------------- MODULE MCWorkspaceReads --------------------------
(***************************************************************************)
(* Three rows to a table, pages of one row, two drivers of whom one has an *)
(* account at first.  Two databases to start from: the seeded one with a   *)
(* task in each of three stages, and one with an order and no task.        *)
(***************************************************************************)
EXTENDS WorkspaceReads

Nothing == <<>>

SeededTables ==
    [orders |-> (1 :> [status |-> "IN_TRANSIT"] @@ 2 :> [status |-> "OPEN"]),
     anomalies |-> (1 :> [order |-> 1, risk |-> "HIGH", status |-> "OPEN"]),
     tasks |-> (1 :> [status |-> "REVIEW_REQUIRED", assignee |-> "e1"]
             @@ 2 :> [status |-> "PROCESSING", assignee |-> "e1"]
             @@ 3 :> [status |-> "APPROVED", assignee |-> "e2"]),
     threads |-> (1 :> "STABLE" @@ 2 :> "RUNNING" @@ 3 :> "TERMINAL"),
     members |-> {"e1"},
     points |-> {1, 3}]

FreshTables ==
    [orders |-> (1 :> [status |-> "IN_TRANSIT"]), anomalies |-> Nothing, tasks |-> Nothing,
     threads |-> Nothing, members |-> {}, points |-> {}]

Tables == {SeededTables, FreshTables}
=============================================================================
