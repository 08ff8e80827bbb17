CONSTANTS
    t1 = t1
    t2 = t2
    t3 = t3
    Task = {t1, t2, t3}
    w1 = w1
    w2 = w2
    Worker = {w1, w2}
    None = None
    Node <- MCNode
    Edge <- MCEdge
    Road <- MCRoad
    Vehicle <- MCVehicle
    Fleet <- MCFleet
    Order <- MCOrder
    Scenarios <- MCScenarios
    MaxCrashes = 2
    FailureThreshold = 1
    LimitedLoad = 80
    UnavailableLoad = 100

SPECIFICATION Spec
INVARIANTS
    ApprovedPathIsDrivable
    ReviewReasonsHold
    RecordedVerdictStands
    ApprovedIsShown
