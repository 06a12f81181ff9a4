CONSTANTS
    Callers = {c1, c2}
    Loop = loop
    Interval = 3
    Life = 4
    MaxFaults = 3
SPECIFICATION FairSpec
INVARIANTS
    TypeOK
    OneSession
    Fresh
PROPERTIES
    CallsReturn
    RefreshStops
    Heals
