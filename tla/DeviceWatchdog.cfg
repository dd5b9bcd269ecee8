SPECIFICATION Spec
CONSTANTS
    Version = {v1, v2}
    Factory = v1
    Broken = {}
    Hosts = {"gateway"}
    Threshold = 2
    Attempts = 2
    None = None
    Empty = Empty
    MaxEvents = 1
    MaxCount = 3
INVARIANT WorkingReleaseIsKept
