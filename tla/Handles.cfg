CONSTANTS
    None = None
    Bodies = {b1, b2}
    Plain = {c1}
    Scoped = {s1, s2}
    Blocks = {k1, k2, k3}
    Blockers = {x1, x2, x3, x4}
    Calls = {"copy", "disconnect", "destroy_signal"}
SPECIFICATION Spec
INVARIANTS TypeOK BlockedByBlocks BlockingIsBlocked
PROPERTY ScopedHandsOver
SYMMETRY Symmetry
