SPECIFICATION FairSpec
CONSTANTS
    Key = {home}
    Worker = {w1}
    None = None
    PoolSize = 3
    MaxCalls = 1
    MaxCrashes = 1
    MaxFaults = 0
PROPERTY AppliancesStayAttached
CHECK_DEADLOCK FALSE
