\* The same setting against the claim that publication is fenced.
SPECIFICATION Spec
CONSTANTS
    Jobs = {j1}
    Workers = {w1, w2}
    Digests = {d1, d2}
    GovernedJobs = {}
    UnreadableJobs = {}
    NumItems = 1
    MaxFaults = 1
    PushOutlivesLease = TRUE
    NoJob = NoJob
    NoDigest = NoDigest
PROPERTIES PublicationIsFenced
\* Idle workers with nothing left to deliver only poll.
CHECK_DEADLOCK FALSE
