\* One window fades and is moved by its program, the other asks for a bypass.
SPECIFICATION Spec
CONSTANTS
    Client = {c1, c2}
    NoClient = NoClient
    NumMonitors = 2
    Fading = {c1}
    Hinting = {c2}
    Moving = {c1}
INVARIANTS
    TypeOK
    WindowedIsComposited
    PauseAccounted
    BypassIsCovered
PROPERTIES
    BypassEnds
