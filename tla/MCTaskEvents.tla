---------------------------- MODULE MCTaskEvents ----------------------------
(* One task of two nodes, an API process beside the worker, one client. *)
EXTENDS TaskEvents, TLC

CONSTANT c1

MCClients == {c1}
MCNodes == <<"capacity", "audit">>
MCApiEvents == ("api" :> <<TaskEvent("ACCEPTED")>>)
=============================================================================
