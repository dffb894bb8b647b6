SPECIFICATION Spec
CONSTANTS
    Worker = {w1, w2}
    Pkg = {p1, p2}
    File = {f1, f2}
    NoOne = NoOne
    Op <- AllRequests
    Overlap = FALSE
    MaxCrashes = 1
SYMMETRY Symmetric
INVARIANTS TypeOK LockIsOwned RemovedOnlyVerified
PROPERTY CustodySpec
