SPECIFICATION Spec
CONSTANTS
    MaxGid = 2
    MaxRestored = 1
    MaxFaults = 2
INVARIANTS
    BaseMatchesMetaState
    ImagesExact
    LatestReachable
    Recoverable
    
CHECK_DEADLOCK FALSE
