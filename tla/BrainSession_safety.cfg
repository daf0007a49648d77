\* Two tasks on one loop and a thread; nested writes; two views.
SPECIFICATION Spec
CONSTANTS
    t1 = t1
    t2 = t2
    p = p
    loop = loop
    own = own
    Actors = {t1, t2, p}
    Threads = {loop, own}
    Tasks = {t1, t2}
    Thread <- TwoTasksAndAThread
    Capabilities = {INSPECT, WRITE}
    WRITE = WRITE
    MaxHead = 2
    MaxDepth = 2
    MaxGeneration = 1
    None = None
SYMMETRY TaskSymmetry
VIEW LiveState
INVARIANTS TypeOK OneWriter CachesDescribeTheHead WritesBuildOnTheHead ReadsFollowWrites
PROPERTIES PinnedAnswersAreCurrent
