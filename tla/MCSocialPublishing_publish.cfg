SPECIFICATION FairSpec
CONSTANTS
    Photos = {p1}
    Reels = {r1}
    Workers = {w1}
    Requests = {q1}
    MaxMishaps = 2
    MaxCrashes = 1
    None = None
    p1 = p1 r1 = r1 w1 = w1 q1 = q1
    MaxMoves = 3
    MaxTroubles = 3
INVARIANTS PhotoCopiesExplained ReelOnce
PROPERTIES BoardKept DueIsDecided
CHECK_DEADLOCK FALSE
ACTION_CONSTRAINTS FewTroubles UnseenAtOnce
