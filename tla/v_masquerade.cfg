SPECIFICATION Spec
CONSTANTS
    Caller = {w1}
    NoOne = NoOne
    Sizeless = FALSE
    MaxKills = 0
PROPERTY NoMasquerade
