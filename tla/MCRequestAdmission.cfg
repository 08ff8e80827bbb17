SPECIFICATION Spec
CONSTANTS
    Requests = {1, 2, 3}
    Tokens = {"t1", "t2"}
    Calls <- ClientCalls
    Kids = {"old", "new"}
    FirstKeys = {{"old"}, {"old", "new"}}
    Kid <- KidOf
    Roles <- RolesOf
    Verifies = {"t1", "t2"}
    Exp <- ExpOf
    CacheTtl = 1
    Leeway = 1
    SessionTtl = 2
    Transit = 1
    MaxTime = 3
    MaxFaults = 1
    MaxRotations = 1
    None = None
INVARIANTS
    WithdrawnKeyLapses
    PublishedKeyIsFound
    LoggedOutIsRefused
PROPERTIES
    EveryRequestAnswered
CHECK_DEADLOCK FALSE
