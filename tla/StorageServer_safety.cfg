SPECIFICATION Spec
CONSTANTS
    Workers = {w1, w2}
    Stoppers = {s1, s2}
    MaxEpoch = 2
    MaxNrCrashes = 1
SYMMETRY Symmetry
INVARIANTS
    OneActionAtATime
    
    QuietWhenStopped
    MonitoredWhenActive
    StateFileAgrees
