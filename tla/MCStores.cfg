SPECIFICATION MCSpec
CONSTANTS
    i = i
    j = j
    q1 = q1
    q2 = q2
    q3 = q3
    t1 = t1
    t2 = t2
    Source <- MCSource
    Computed <- MCComputed
    DepChoices <- MCDepChoices
    Caller <- MCCaller
    MaxRevision = 2
    MaxParallel = 1
    NoJob = NoJob
    NoNode = NoNode
    DepList <- MCDepList
    MaxReads = 5
    MaxDepth = 3
    CacheKey = {ck1, ck2, ck3}
    Putter = {p1, p2}
    MaxChoices = {0, 1}
    MaxPuts = 5
    MaxOverlaps = 4
    NoPut = NoPut
    Word = {w1, w2, w3}
    IdLimit = 3
    Interner = {n1, n2}
    NoIntern = NoIntern
    NoTable = NoTable
    NoSave = NoSave
    Capacity = 2
    MaxSent = 3
    NoEvent = NoEvent
    inputs = inputs
    cells = cells
    moreCells = moreCells
    interns = interns
    Section <- MCSections
    SectionType <- MCTypes
    Saved <- MCSaved
    Refers <- MCRefers
    FileBytes = 3
    MaxLength = 4
    LengthBytes <- MCLengthBytes
    Limit = {1, 3, 7, 9, 13, 17}
    NoLimit = NoLimit
    ValueSet <- MCValueSet
    Height <- MCHeight
    MaxHeight = 3
    Key <- Atoms
    Unequal = {"NaN"}
    NoValue = NoValue
INVARIANTS
    NoPhantomEdge
    EdgesMirrored
    StaleIsAnnounced
    PathsAreTheSimpleOnes
    ReportsAgree
    EvictableAreBounded
    NewestAreKept
    IdsAreStable
    SavedTableLoads
    TraceHasNoGap
    NothingDangles
    DroppingSuffices
    RevisionIffChanged
PROPERTIES
    WritesEnd
    EventsAreRecorded
