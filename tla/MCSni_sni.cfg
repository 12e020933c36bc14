SPECIFICATION Spec
CONSTANTS
    Service = {s1, s2}
    ByName = {s2}
    HasMenu = {s1, s2}
    LoadsIcon = {s1}
    Reliable = {s1}
    Slot = {p1, p2}
    Null = Null
    MaxItems = 2
    MaxEvents = 5
INVARIANTS
    TypeOK
    TrayMatchesItems
    MenuFlagHonest
PROPERTIES
    ConnectionComesBack
    ItemsAreServed
CHECK_DEADLOCK FALSE
