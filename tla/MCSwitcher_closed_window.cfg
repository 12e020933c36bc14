SPECIFICATION Spec
CONSTANTS
    Client = {c1, c2}
    NoClient = NoClient
    Tag = {1, 2}
    MaxActs = 4
INVARIANTS
    ShowsManaged
CHECK_DEADLOCK FALSE
