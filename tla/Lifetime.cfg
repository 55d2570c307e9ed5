CONSTANTS
    Procs = {p1, p2}
    Signals = {s1, s2}
    Impls = {i1, i2}
    PlainSlots = 1
    MaxCalls = 2
    None = None
SPECIFICATION Spec
INVARIANTS OneOwner NestedCallsAlive
SYMMETRY Symmetry
