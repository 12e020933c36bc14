\* Every binding of config.h except the scratchpad's, every placement, two
\* windows, one of which takes no input focus, and one or two monitors.
SPECIFICATION Spec
CONSTANTS
    Client = {c1, c2}
    NoClient = NoClient
    NumTags = 2
    MinMonitors = 1
    MaxMonitors = 2
    Bindings <- AllBindings
    Placements = {"plain", "rule", "transient"}
    RuleTags <- SomeTags
    Scratch <- NoWindows
    NeverFocus <- OneWindow
INVARIANTS
    TypeOK
    ListsAgree
    FocusFollowsSelection
