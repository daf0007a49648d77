\* Two requests on two keys and room for one entry, under fairness.
SPECIFICATION FairSpec
CONSTANTS
    Requests = {r1, r2}
    Keys = {k1, k2}
    GovernedKeys = {k1}
    MaxEntries = 4
    Capacity = 1
    MaxSignatures = 1
    MaxLeaks = 1
    NoKey = NoKey
INVARIANTS TypeOK DirectoriesFollowUsers KeptOnlyInUse AnswersAreFresh
PROPERTIES RequestsEnd
\* The lifespan ends.
CHECK_DEADLOCK FALSE
