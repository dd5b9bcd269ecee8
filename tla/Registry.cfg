SPECIFICATION FairSpec
CONSTANTS
    AtomicId = {usb}
    Wired = {usb}
    Loop = loop
    ApiThreads = {api}
    None = None
    Empty = Empty
    Torn = Torn
    MaxDecisions = 2
    MaxCrashes = 1
    MaxFailures = 1
INVARIANTS
    PresenceMatchesHealth
    ChoiceIsRemembered
PROPERTY DiskCatchesUp
