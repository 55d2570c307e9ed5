CONSTANTS
    b1 = b1
    b2 = b2
    o1 = o1
    o2 = o2
    Threads = {t1, t2}
    Bodies = {b1, b2}
    Objs = {o1, o2}
    Tracked <- MCTracked
    Wrapped <- MCWrapped
    Local = Local
    None = None
    Calls = {"disconnect", "connected", "disconnect_slot", "connect", "set_combiner", "next", "end"}
SPECIFICATION Spec
INVARIANTS DestructorsRunUnlocked SlotsDestroyedOnce SlotOutlivesCall
SYMMETRY Symmetry
