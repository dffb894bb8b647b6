SPECIFICATION MCSpec
CONSTANTS
    ChunkSize = 3
    ChunkCounts = {1, 2, 3}
    MaxResumes = 1
    MaxChunkRetries = 2
    MaxParts = 2
    DefaultPart = 2
    Grain = 2
    ObjectSize = 4
    MaxBreaks = 2
    MaxReplacements = 1
    c1 = c1
    c2 = c2
    c3 = c3
    k1 = k1
    k2 = k2
    Caller = {c1, c2, c3}
    Worker = {k1, k2}
    worker <- MCWorker
    Sessions = 2
    MaxConnects = 2
    Free = Free
    MaxWorkersKilled = 1
    Poll = {r1, r2}
    Walk = {u1, u2}
    MaxForced = 1
    MaxDead = 1
    MaxOverlaps = 1
    mets = mets
    pdf = pdf
    tif = tif
    q1 = q1
    q2 = q2
    DipFile = {mets, pdf, tif}
    Served = {mets, pdf}
    Mets = mets
    Multi = {pdf}
    Alike = {pdf}
    Request = {q1, q2}
    Backfill = {q2}
    MaxTransient = 1
    MaxRenewals = 1
    i1 = i1
    i2 = i2
    Conversion = {v1, v2}
    Viewer = {g1}
    Image = {i1, i2}
    Pieces <- MCPieces
    MaxShared = 1
    Missing = Missing
    Hole = Hole
INVARIANTS TransferTypesOK PartsFit SlotHasLiveHolder CacheWhole DipOkMeansThere DerivativesKept
PROPERTIES ChunksVerified DcpVerified TransfersEnd
CHECK_DEADLOCK FALSE
