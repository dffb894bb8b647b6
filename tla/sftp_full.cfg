SPECIFICATION Spec
CONSTANTS
    Worker = {w1, w2}
    Pkg = {p1}
    File = {f1, f2}
    NoOne = NoOne
    NoFile = NoFile
    MaxFaults = 1
    MaxKills = 1
    Cancels = TRUE
    Cleanups <- AnyCleanup
SYMMETRY Symmetric
INVARIANTS TypeOK OneWriter AreaIsTree CancelStops
