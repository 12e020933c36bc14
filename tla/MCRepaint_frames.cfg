SPECIFICATION Spec
CONSTANTS
    Client = {c1}
    Popup = {p1}
    Geometry <- Resizing
    HasPresent = TRUE
    Features = {"resize", "bypass", "present"}
    MaxEvents = 2
    MaxVblanks = 2
INVARIANTS
    OutdatedIsKnown
PROPERTIES
    FramesAreShown
