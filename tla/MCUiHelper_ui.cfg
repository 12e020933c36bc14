CHECK_DEADLOCK FALSE
SPECIFICATION Spec
CONSTANTS
    Window = {w1, w2}
    DoneCap = 1
    MaxHelpers = 2
    MaxShows = 2
    MaxChanges = 3
    MaxQueue = 2
INVARIANTS
    TypeOK
    SnapshotsOwned
    FlagNotStuck
    SettingsDelivered
PROPERTIES
    HelperComesBack
