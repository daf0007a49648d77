\* A listing that fails while a governed entry is being joined.
SPECIFICATION Spec
CONSTANTS
    Requests = {r1, r2}
    Keys = {k1, k2}
    GovernedKeys = {k1, k2}
    MaxEntries = 4
    Capacity = 1
    MaxSignatures = 1
    MaxLeaks = 1
    NoKey = NoKey
SYMMETRY CacheSymmetry
INVARIANTS BoundedWhenIdle
\* The lifespan ends.
CHECK_DEADLOCK FALSE
