CONSTANTS
    Node = {1, 2, 3}
    Self = 1
    MtIds = {0, 1}
    Metric = {1, 2}
    MaxCost = 100
    UninitCost = {0}
    None = None
    Databases <- PartialDatabases
SPECIFICATION Spec
CHECK_DEADLOCK FALSE
INVARIANTS
    RoutesCorrect
