SPECIFICATION Spec
CONSTANTS
    Worker = {w1, w2}
    Pkg = {p1, p2}
    File = {f1}
    NoOne = NoOne
    Op <- AllRequests
    Overlap = TRUE
    MaxCrashes = 0
SYMMETRY Symmetric
INVARIANT RemovedOnlyVerified
