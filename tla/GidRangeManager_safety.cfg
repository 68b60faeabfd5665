SPECIFICATION Spec
CONSTANTS
    MaxGid = 4
    Diffs <- AllDiffs
INVARIANTS
    SearchExact
