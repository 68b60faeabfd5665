SPECIFICATION Spec
CONSTANTS
    Blocks = {"b1", "b2"}
    MaxGid = 3
    Written <- Log
    Explicit = {1}
    MaxOpenDiffs = 2
    MaxCrashes = 1
    MaxRestored = 1
    Commands = {"apply", "merge", "recv", "restore", "gc", "snapshot"}
INVARIANTS
    BaseExact
    RestoredExact
    LatestReadable
    AckedIsDurable
    KeptIsRestorable
    AddNeverRefused
    ApplyProgresses
CHECK_DEADLOCK FALSE
