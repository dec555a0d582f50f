SPECIFICATION FairSpec
CONSTANTS
    s1 = s1  s2 = s2  w1 = w1  w2 = w2
    Subscribers = {s1, s2}
    Senders = {w1, w2}
    MaxCrashes = 2
    MaxUnwinds = 1
    MaxMishaps = 2
    MaxTroubles = 2
    None = None
ACTION_CONSTRAINT FewTroubles
INVARIANTS NobodyForgotten CopiesExplained
PROPERTIES SettledStays SendingEnds
CHECK_DEADLOCK FALSE
