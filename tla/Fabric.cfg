SPECIFICATION Spec
CONSTANTS
    Key = {home, van, boat}
    Worker = {w1, w2}
    None = None
    PoolSize = 3
    MaxCalls = 3
    MaxCrashes = 1
    MaxFaults = 1
INVARIANTS
    NoSharedAddress
    AttachedIsServed
    IdentityIsKept
    LockMeansInside
PROPERTY AddressIsKept
CHECK_DEADLOCK FALSE
SYMMETRY NameSymmetry
