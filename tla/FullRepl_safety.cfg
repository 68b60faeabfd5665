SPECIFICATION FairSpec
CONSTANTS
    Sources <- TwoSources
    Gids <- MCGids
    Content <- MCContent
    Size = 5
    Bulk = 3
    FsyncInterval = 2
INVARIANTS
    ReplicaExact
PROPERTIES
    ReplCompletes
