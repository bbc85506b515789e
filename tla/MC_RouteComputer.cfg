\* Four routers, two topologies: every graph with one metric per link
\* shared by both topologies, and every graph on routers 1..3 with DOWN
\* links and a metric per topology, enumerated by MixedInit (Databases is
\* not used).
CONSTANTS
    Node = {1, 2, 3, 4}
    Self = 1
    MtIds = {0, 1}
    Metric = {1, 2}
    MaxCost = 100
    UninitCost = {0}
    None = None
    Databases = {}
SPECIFICATION MixedSpec
CHECK_DEADLOCK FALSE
INVARIANTS
    TypeOK
    RoutesCorrect
PROPERTIES
    Terminates
