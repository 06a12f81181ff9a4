CONSTANTS
    Nodes = {n1, n2}
    Algs = {a1, a2}
    MaxEdits = 1
    Steps = 2
    None = None
SYMMETRY Symmetry
SPECIFICATION Spec
INVARIANTS
    TypeOK
    NoSelfConflict
    NeverStuck
PROPERTIES
    Refines
    StableServed
    AloneExact
    LastMemberKept
    CallsBounded
