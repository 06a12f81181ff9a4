CONSTANTS
    s1 = s1
    s2 = s2
    lb1 = lb1
    lb2 = lb2
    u1 = u1
    Services = {s1}
    Specs <- LifecycleSpecs
    SharedLBs = {}
    ExistingLBs = {}
    UserSlots = {}
    Keys <- OwnKeys
    Nodes <- TwoNodes
    UserEips = {}
    MaxAutoEips = 2
    GroupIds = {g1, g2, g3}
    MaxEdits = 2
    MaxFaults = 1
    User = User
    None = None
SPECIFICATION Spec
INVARIANTS
    TypeOK
    SettledMeansServed
    WhitelistBeforeBackends
    GoneLeavesNoListener
    TeardownNeverRefused
PROPERTIES
    NeverDrained
    ReleasedOnRequest
