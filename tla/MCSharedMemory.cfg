SPECIFICATION Spec
CONSTANTS
    None = None
    k1 = k1
    k2 = k2
    k3 = k3
    a = a
    b = b
    Keys = {k1, k2, k3}
    Command <- MCCommand
    Calls = {c1, c2}
    Kinds = {"ATTRIBUTE", "HYBRID"}
    MinConfidence = 5
    RejectDelta = 2
    MaxCalls = 3
    MaxFaults = 1
    MaxDisturbed = 1
SYMMETRY MemorySymmetry
CHECK_DEADLOCK FALSE
INVARIANTS OneAuthorPerVersion VisibleIsCanonical
PROPERTIES FactAdvances AppliedWhenVisible RetiredWhenReplaced
