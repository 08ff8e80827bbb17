CONSTANTS
    t1 = t1
    t2 = t2
    t3 = t3
    t4 = t4
    v1 = v1
    v2 = v2
    v3 = v3
    v4 = v4
    w1 = w1
    w2 = w2
    Tasks = {t1, t2, t3, t4}
    Vehicles = {v1, v2, v3, v4}
    Bays = {b1}
    Workers = {w1, w2}
    OrderVehicle <- MCOrderVehicle
    Suffix <- MCSuffix
    Days = {d1}
    SeedStatus <- MCSeedStatus
    DemoStatus <- MCDemoStatus
    Situations <- MCSituations
    None = None
SPECIFICATION FairSpec
INVARIANTS
    FleetInv
    EventsRecordedOnce
    ManualOrderDecidedByPerson
PROPERTIES
    ReservedOnlyWhenAvailable
    CasesEnd
CHECK_DEADLOCK FALSE
