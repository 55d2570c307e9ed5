CONSTANTS
    g1 = g1
    g2 = g2
    g3 = g3
    Groups <- MCGroups
    Rank <- MCRank
    StoredRank <- MCStoredRank
    NoGroup = NoGroup
    End = End
    Nodes = {n1, n2, n3, n4}
SPECIFICATION Spec
INVARIANTS GroupMapExact
PROPERTIES EntersInPlace ImplementsOrderedSlots
