SPECIFICATION FairSpec
CONSTANTS
    Worker = {w1}
    Pkg = {p1, p2}
    File = {f1, f2}
    NoOne = NoOne
    NoFile = NoFile
    MaxFaults = 1
    MaxKills = 0
    Cancels = FALSE
    Cleanups <- NoCleanup
INVARIANT OutcomeKnown
PROPERTIES CompleteAtRest Settles
