SPECIFICATION Spec
CONSTANTS
    Worker = {w1, w2}
    Pkg = {p1}
    File = {f1}
    NoOne = NoOne
    NoFile = NoFile
    MaxFaults = 0
    MaxKills = 0
    Cancels = FALSE
    Cleanups <- NoCleanup
SYMMETRY Symmetric
INVARIANT InFlightHasThread
