SPECIFICATION FairSpec
CONSTANTS
    Port = {eth0, eth1}
    None = None
    MaxWorkers = 1
    MaxMoves = 2
    MaxRestarts = 1
    MaxChoices = 1
    MaxFaults = 1
INVARIANTS
    
    LanOutIsServed
PROPERTY EveryPortIsClassified
