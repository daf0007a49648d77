\* A governed job of two items, under fairness: recovery, signatures and the second push.
SPECIFICATION FairSpec
CONSTANTS
    Jobs = {j1}
    Workers = {w1, w2}
    Digests = {d1, d2}
    GovernedJobs = {j1}
    UnreadableJobs = {}
    NumItems = 2
    MaxFaults = 2
    PushOutlivesLease = FALSE
    NoJob = NoJob
    NoDigest = NoDigest
INVARIANTS TypeOK PublicationAgrees ItemsMatchStatus Resumable
PROPERTIES PublishedOnce TerminalIsFinal EveryJobSettles
\* Idle workers with nothing left to deliver only poll.
CHECK_DEADLOCK FALSE
