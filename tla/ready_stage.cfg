CONSTANTS
    Script = {s1, s2}
    Batch <- MCBatch
    Title = {f1, f2}
    Contents <- MCContents
    Mappings <- MCMappings
    NoId = NoId
    NoPackage = NoPackage
    PageSize = 1
    MaxRows = 4
    MaxTrouble = 1
    MaxEdits = 1
    Check = {r1, r2}
    Parcel = {q1, q2}
    Item = {g1, g2}
    Home <- MCHome
    NameStart <- MCNameStart
    Gone = Gone
    MaxHidden = 1
    Client = {c1, c2}
    Empty = Empty
    Mixture = Mixture
    Trees <- MCTrees
    p1 = p1
    p2 = p2
    f1 = f1
    f2 = f2
    a = a
    b = b
    c = c
    q1 = q1
    q2 = q2
    g1 = g1
    g2 = g2
SPECIFICATION MCSpec
SYMMETRY Symmetry
INVARIANTS
    ReadyTypesOK
    SuccessMeansDone
    NoDuplicates
    HalfDoneHasCause
    KalturaOwn
    LostOnlyToAlike
    AnsweredIsNormal
    SentinelIsOwn
    NeverOutOfSight
    SweepsAgree
PROPERTIES
    RowsKept
