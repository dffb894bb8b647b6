SPECIFICATION Spec
CONSTANTS
    Worker = {w1}
    Pkg = {p1}
    File = {f1, f2}
    NoOne = NoOne
    NoFile = NoFile
    MaxFaults = 0
    MaxKills = 0
    Cancels = FALSE
    Cleanups <- NoCleanup
SYMMETRY Symmetric
PROPERTY CompleteIsComplete
