\* One query, one redaction, nothing fails.
SPECIFICATION FairSpec
CONSTANTS
    q1 = q1
    q2 = q2
    Queries = {q1}
    Blocks = {1, 2}
    MaxEvents = 1
INVARIANTS ErasureLeavesNoCopy
