\* A job without signatures and an unreadable one, against the ledger a client sees.
SPECIFICATION Spec
CONSTANTS
    Jobs = {j1, j2}
    Workers = {w1, w2}
    Digests = {d1}
    GovernedJobs = {}
    UnreadableJobs = {j2}
    NumItems = 1
    MaxFaults = 2
    PushOutlivesLease = FALSE
    NoJob = NoJob
    NoDigest = NoDigest
PROPERTIES ImplementsLedger
SYMMETRY WorkerSymmetry
\* Idle workers with nothing left to deliver only poll.
CHECK_DEADLOCK FALSE
