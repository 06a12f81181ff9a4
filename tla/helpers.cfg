CONSTANTS
    Entries = {"10.0.0.0/8", "172.16.0.0/12", "192.168.0.0/16"}
    MaxLen = 3
    MaxSeconds = 3700
    MaxName = 8
SPECIFICATION Spec
INVARIANTS
    ListsEqualAsSets
    PersistenceCovers
    AddressScanned
    SettingsUsable
    RemovalReadable
    EnvOnlyCompletes
    NamesTellApart
