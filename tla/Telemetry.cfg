SPECIFICATION Spec
CONSTANTS
    Kinds <- TwoTables
    Retain <- KeepTwo
    RecentSize = 1
    Interval = 2
    Pause = 1
    MaxPass = 1
    Wall = {1, 2}
    None = None
    MaxTime = 7
    MaxRecords = 2
    MaxFaults = 2
INVARIANTS
    LossIsBounded
    NewestFirst
    CleanStopKeepsRecords
PROPERTY ImplementsJournal
