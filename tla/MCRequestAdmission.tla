------------------------- MODULE MCRequestAdmission -------------------------
(***************************************************************************)
(* Three concurrent requests; a dispatcher's token on an old key, and an   *)
(* employee's on a new one.  The cache lasts one unit of time, the old     *)
(* token two.                                                              *)
(***************************************************************************)
EXTENDS RequestAdmission

KidOf == [t1 |-> "old", t2 |-> "new"]
RolesOf == [t1 |-> {"DISPATCHER", "GUEST"}, t2 |-> {"EMPLOYEE"}]
TokenCalls == {<<"t1", "write">>, <<"t1", "logout">>, <<"t2", "write">>, <<"t2", "read">>}
\* A request without a token is refused in one step and meets no other: the last one may be one.
ClientCalls == [r \in Requests |-> IF r = 3 THEN TokenCalls \cup {<<None, "read">>, <<Malformed, "read">>}
                                   ELSE TokenCalls]
ExpOf == [t1 |-> 2, t2 |-> 3]
=============================================================================
