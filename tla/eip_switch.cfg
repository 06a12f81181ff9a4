CONSTANTS
    s1 = s1
    s2 = s2
    lb1 = lb1
    lb2 = lb2
    u1 = u1
    Services = {s1}
    Specs <- EipSwitchSpecs
    SharedLBs = {}
    ExistingLBs = {}
    UserSlots = {}
    Keys <- OneKey
    Nodes <- OneNode
    UserEips = {u1}
    MaxAutoEips = 1
    GroupIds = {g1, g2, g3}
    MaxEdits = 2
    MaxFaults = 0
    User = User
    None = None
SPECIFICATION Spec
INVARIANTS
    UserEipsKept
