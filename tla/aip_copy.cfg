SPECIFICATION Spec
CONSTANTS
    Caller = {w1, w2}
    NoOne = NoOne
    Sizeless = FALSE
    MaxKills = 2
SYMMETRY Symmetric
INVARIANTS TypeOK RefutedIsRemoved ProgressMeansActive
PROPERTIES GoodKept LostToStaleProbe OkIsSized
