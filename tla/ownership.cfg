CONSTANTS
    s1 = s1
    s2 = s2
    lb1 = lb1
    lb2 = lb2
    u1 = u1
    Services = {s1, s2}
    Specs <- OwnershipSpecs
    SharedLBs = {lb1, lb2}
    ExistingLBs = {lb1, lb2}
    UserSlots <- SshOnLb1
    Keys <- RetargetKeys
    Nodes <- OneNode
    UserEips = {u1}
    MaxAutoEips = 2
    GroupIds = {g1, g2, g3}
    MaxEdits = 2
    MaxFaults = 0
    User = User
    None = None
SPECIFICATION Spec
INVARIANTS
    OwnershipInv
    SharedBalancersKept
    UserEipsKept
    GoneLeavesNoEip
PROPERTIES
    ForeignListenersSurvive
