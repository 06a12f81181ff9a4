CONSTANTS
    Nodes = {n1, n2}
    Algs = {a1, a2}
    MaxEdits = 1
    None = None
SPECIFICATION Spec
INVARIANTS
    NodesMatched
CHECK_DEADLOCK FALSE
