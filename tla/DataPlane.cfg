SPECIFICATION FairDSpec
CONSTANTS
    wifi = wifi
    phone = phone
    None = None
    AtomicId <- TwoLinks
    Profiles <- Both
    Worlds <- FailoverWorlds
    Demands <- FailoverDemands
    Upload <- Uploads
    ActivationDeficit = 50
    RecoveryMargin = 50
    ActivationDwell = 1
    RecoveryDwell = 1
    LivenessInterval = 9
    BootstrapHeadroom = 1
    MaxTime = 1
    MaxMoves = 2
    MaxFaults = 1
    MaxFailing = 2
INVARIANTS
    
    NoBestEffortTableOnBackup
PROPERTIES
    KernelConverges
    TunnelFollowsPrimary
