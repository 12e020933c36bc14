SPECIFICATION Spec
CONSTANTS
    MaxVisible = 2
    Heights = {1, 2}
    Dpis = {1, 2}
    MaxId = 4
INVARIANTS
    TypeOK
    NoOverlap
PROPERTIES
    ImplementsService
    PopupsExpire
