\* Three windows, one of them the scratchpad, on up to two monitors, hidden,
\* reordered, moved and asked for.
SPECIFICATION Spec
CONSTANTS
    Client = {c1, c2, c3}
    NoClient = NoClient
    NumTags = 2
    MinMonitors = 1
    MaxMonitors = 2
    Bindings <- ListBindings
    Placements = {"plain", "scratch"}
    RuleTags <- NoRules
    Scratch <- OneWindow
    NeverFocus <- NoWindows
SYMMETRY PlainSymmetry
INVARIANTS
    VisibleIsOwned
    SelectionsOwned
    RequestsReachWindow
PROPERTIES
    OneWindowRetagged
