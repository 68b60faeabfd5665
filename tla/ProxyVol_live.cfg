SPECIFICATION FairSpec
CONSTANTS
    Archives = {a1}
    Workers = {w1, w2}
    Stoppers = {s1}
    MaxGid = 1
    MaxCrashes = 1
PROPERTIES
    NeverStuck
    EmptyEnds
CHECK_DEADLOCK FALSE
