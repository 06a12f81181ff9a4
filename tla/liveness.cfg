CONSTANTS
    s1 = s1
    s2 = s2
    lb1 = lb1
    lb2 = lb2
    u1 = u1
    Services = {s1}
    Specs <- LivenessSpecs
    SharedLBs = {lb1, lb2}
    ExistingLBs = {lb1}
    UserSlots = {}
    Keys <- OwnKeys
    Nodes <- OneNode
    UserEips = {}
    MaxAutoEips = 2
    GroupIds = {g1, g2, g3}
    MaxEdits = 2
    MaxFaults = 1
    User = User
    None = None
SPECIFICATION FairSpec
PROPERTIES
    EventuallyServed
    DeletionCompletes
