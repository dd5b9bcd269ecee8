SPECIFICATION FairSpec
CONSTANTS
    phone = phone
    modem = modem
    Order <- ByLabel
    Channel = {1, 6}
    DefaultChannel = 6
    None = None
    FastS = 1
    MediumS = 4
    Budget = 3
    Timeout = 4
    PingTime = 2
    ScanGap = 6
    ScanTime = 1
    MaxEvents = 3
INVARIANTS
    FailoverIsPrompt
PROPERTIES
    ScanIsRare
    AnchorIsStill
    ConflictEnds
    DeadIsNoticed
