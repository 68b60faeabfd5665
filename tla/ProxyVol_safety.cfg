SPECIFICATION Spec
CONSTANTS
    Archives = {a1}
    Workers = {w1, w2}
    Stoppers = {s1}
    MaxGid = 2
    MaxCrashes = 1
INVARIANTS
    AckedIsKept
    UnsentIsScheduled
    ManagersMatchFiles
    NoGapIsSent
PROPERTY EmptyMeansEmpty
SYMMETRY Symmetry
CHECK_DEADLOCK FALSE
