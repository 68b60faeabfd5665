SPECIFICATION FairSpec
CONSTANTS
    Blocks = {"b1", "b2"}
    MaxGid = 2
    Written <- Log
    Explicit = {}
    MaxOpenDiffs = 1
    MaxCrashes = 1
    MaxRestored = 1
    Commands = {"apply", "merge", "recv", "restore"}
PROPERTY ProceduresEnd
CHECK_DEADLOCK FALSE
