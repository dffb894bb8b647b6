SPECIFICATION FairSpec
CONSTANTS
    Worker = {w1, w2}
    Pkg = {p1}
    File = {f1, f2}
    NoOne = NoOne
    Op <- AllRequests
    Overlap = TRUE
    MaxCrashes = 1
INVARIANTS DirHoldsEntries ReleasedUnlessStale
PROPERTY Answered
