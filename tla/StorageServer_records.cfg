SPECIFICATION Spec
CONSTANTS
    Workers = {w1, w2}
    Stoppers = {s1}
    MaxEpoch = 2
    MaxNrCrashes = 0
SYMMETRY Symmetry
INVARIANTS
    TransferRecordsStable
