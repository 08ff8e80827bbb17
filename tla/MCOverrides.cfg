SPECIFICATION FairSpec
CONSTANTS
  k1 = k1
  k2 = k2
  Workers = {w1}
  Operators = {o1, o2}
  Keys = {k1, k2}
  NewValue <- MCNewValue
  NamesNext = {k1, k2}
  Boundary = 1
  LastNode = 2
  MaxCalls = 2
  MaxFaults = 1
  MaxRuns = 8
  None = None
INVARIANTS
  OverrideTakesEffect
  AppliedOnce
PROPERTIES
  CanonicalLine
  ThreadEnds
CHECK_DEADLOCK FALSE
