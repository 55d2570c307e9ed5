CONSTANTS
    g = g
    b1 = b1
    b2 = b2
    b3 = b3
    o = o
    f1 = f1
    f2 = f2
    Groups <- MCGroups
    Rank <- MCRank
    NoGroup = NoGroup
    End = End
    None = None
    Procs = {p1, p2}
    Bodies = {b1, b2}
    KeyOf <- MCKeyOf
    Objs = {}
    Tracked <- MCTracked
    Functions = {f1, f2}
    FunctionOf <- MCFunctionOf
    Lists = {l1, l2, l3}
    Combs = {c1, c2, c3}
    Combiners = {comb, comb2}
    DefaultCombiner = comb
    Calls = {"connect", "disconnect", "invoke"}
SPECIFICATION SettingCombinerSpec
PROPERTY SnapshotStable
SYMMETRY Symmetry
