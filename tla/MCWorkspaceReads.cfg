SPECIFICATION Spec
CONSTANTS
    MaxRows = 3
    Limit = 1
    CursorMax = 3
    Employees = {"e1", "e2"}
    Found = {1, 3}
    InitialTables <- Tables
    MaxWrites = 3
    None = None
INVARIANTS
    WalkListsSteadyRows
