CONSTANTS
    Buffers = {x, y}
    N = 2
    Elems = {e1,e2}
    Default = e1
    MaxSize = 3
    Blocks = {h1, h2, h3}
    Raw = Raw
    Bad = Bad
    None = None
    Calls = {}
SPECIFICATION Spec
INVARIANTS CellsExact AssertionsHold
PROPERTY ImplementsContents
SYMMETRY Symmetry
