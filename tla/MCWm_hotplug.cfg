\* One to three monitors that come and go.
SPECIFICATION Spec
CONSTANTS
    Client = {c1, c2}
    NoClient = NoClient
    NumTags = 3
    MinMonitors = 1
    MaxMonitors = 3
    Bindings <- HotplugBindings
    Placements = {"plain"}
    RuleTags <- NoRules
    Scratch <- NoWindows
    NeverFocus <- NoWindows
SYMMETRY WindowSymmetry
INVARIANTS
    OwnersLive
    DisjointViews
