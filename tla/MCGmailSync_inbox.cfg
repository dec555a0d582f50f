SPECIFICATION FairSpec
CONSTANTS
    Threads = {1, 2}
    Unstorable = {1}
    PendingSize = 1
    RecoverySize = 1
    PageLimit = 1
    MaxMail = 2
    MaxMoves = 2
    MaxFaults = 1
    MaxBad = 1
ACTION_CONSTRAINT FewTroubles
INVARIANTS PushSurvives Accounted
PROPERTIES CatchesUp
CHECK_DEADLOCK FALSE
