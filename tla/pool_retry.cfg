CONSTANTS
    Nodes = {n1, n2}
    Algs = {a1, a2}
    MaxEdits = 1
    Steps = 6
    None = None
SYMMETRY Symmetry
SPECIFICATION Spec
INVARIANTS
    RetryNamesPool
