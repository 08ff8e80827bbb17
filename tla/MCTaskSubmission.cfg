SPECIFICATION Spec
CONSTANTS
    None = None
    p1 = p1
    p2 = p2
    d1 = d1
    d2 = d2
    boss = boss
    k1 = k1
    c1 = c1
    c2 = c2
    c1_padded = c1_padded
    s1 = s1
    s2 = s2
    s3 = s3
    s4 = s4
    s5 = s5
    Processes <- MCProcesses
    Subjects <- MCSubjects
    Mixes <- MCMixes
    Verdicts <- MCVerdicts
    SourceRow <- MCSourceRow
    Policies <- MCPolicies
    Stripped <- MCStripped
    ActiveEmployees <- MCActive
    Minute = 2
    EmergencyCapacity = 1
    EmergencyWindow = 2
    MaxClock = 3
    MaxFaults = 2
SYMMETRY ProcessSymmetry
INVARIANTS
    UnqueuedIsAccountedFor
    VerdictShownUnlessQueueFailed
    AdmissionBounded
