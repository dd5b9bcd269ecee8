SPECIFICATION HSpec
CONSTANTS
    wifi = wifi
    phone = phone
    usb = usb
    None = None
    AtomicId <- ThreeLinks
    Profiles <- Both
    Worlds <- AllWorlds
    Demands <- AllDemands
    ActivationDeficit = 2
    RecoveryMargin = 4
    ActivationDwell = 2
    RecoveryDwell = 2
    LivenessInterval = 4
    BootstrapHeadroom = 1
    MaxTime = 5
INVARIANTS
    TypeOK
    BackupOnlyAfterSustainedShortfall
    PromptActivation
    LivenessBudget
    SharesAreConsistent
    JournalExplainsSpending
PROPERTY NoBounce
