CONSTANTS
    MaxConnected = 4
    Grouped = FALSE
    Limit = 12
SPECIFICATION CallingSpec
INVARIANTS TypeOK ListBounded
PROPERTIES DeadNodesCollected
