CONSTANTS
    Objs = {o1}
    Invokers = {i1, i2}
    h1 = h1
    h2 = h2
    Handles <- MCHandles
    None = None
    MaxFailures = 1
    MaxPost = 2
    Slots = {s1, s2}
    Callers = {c1}
    Trackables = {t1, t2}
    Tokens = {1, 2, 3}
    MaxTracked = 2
SPECIFICATION SlotsSpec
INVARIANTS SlotsTypeOK AccessibleIsComplete PredestructedOnce PostconstructedOnce TrackedAliveWhileRunning TrackableExpiresWithObject
SYMMETRY Symmetry
