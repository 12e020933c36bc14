SPECIFICATION Spec
CONSTANTS
    Client = {c1}
    Popup = {p1}
    Geometry <- Resizing
    HasPresent = TRUE
    Features = {"tags", "bypass", "drag", "hide"}
    MaxEvents = 2
    MaxVblanks = 2
INVARIANTS
    TypeOK
    RepaintScheduled
    ReportsAreRead
