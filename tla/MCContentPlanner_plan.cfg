SPECIFICATION FairSpec
CONSTANTS
    k1 = k1
    Weeks = {1, 2}
    Workers = {k1}
    MaxAttempts = 2
    MaxMoves = 2
    MaxCrashes = 1
    MaxFailures = 2
    MaxTroubles = 3
    MaxFaults = 2
    Edited = {1}
    None = None
ACTION_CONSTRAINT FewTroubles
PROPERTIES SendsWhatIsAllowed SkippedStaysEmpty WeeksSettle
CHECK_DEADLOCK FALSE
