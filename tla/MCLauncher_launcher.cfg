SPECIFICATION LauncherSpec
CONSTANTS
    Desktop <- FewFiles
    Path <- FewPrograms
    Text <- TwoTexts
    Match <- Matches
    MaxActs = 8
    MaxCount = 3
INVARIANTS
    LauncherTypeOK
    SettledSelection
    HistoryKept
CHECK_DEADLOCK FALSE
