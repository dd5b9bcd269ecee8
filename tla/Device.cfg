SPECIFICATION Spec
CONSTANTS
    Version = {v1, v2, v3}
    Factory = v1
    Broken = {v2}
    Hosts = {"any", "gateway"}
    Threshold = 2
    Attempts = 2
    None = None
    Empty = Empty
    MaxEvents = 3
    MaxCount = 3
INVARIANTS
    RollbackOnce
    CurrentIsWhole
    BadUpdateIsUndone
    NoFalseAlarm
    ResetIsDeliberate
    ResetIsFinished
PROPERTY IdentityIsImmutable
