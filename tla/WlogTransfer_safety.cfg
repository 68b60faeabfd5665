SPECIFICATION FairSpec
CONSTANTS
    PackSizes = {2}
    MaxWlogSendPbs = {2, 5}
    LogCapacityPb = 5
    Gid0 = 4
    MaxLsid = 6
    MaxNrSnaps = 1
    MaxNrCrashes = 1
INVARIANTS
    AssertsHold
    WlogKept
    SnapshotsExact
    GidsIdentifyLsids
PROPERTIES
    DoneFollowsDelivery
    ImplementsRelay
    EverythingTransferred
CHECK_DEADLOCK FALSE
