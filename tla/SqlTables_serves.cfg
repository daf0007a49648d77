\* Two queries over one block, two changes to the brain, under fairness.
SPECIFICATION FairSpec
CONSTANTS
    q1 = q1
    q2 = q2
    Queries = {q1, q2}
    Blocks = {1}
    MaxEvents = 2
INVARIANTS TypeOK AnswersAreExact OnlyTheOvertakenKeep
PROPERTIES ErasedCopiesGo
