SPECIFICATION ReadOnlySpec
CONSTANTS
    a = a
    b = b
    outer = outer
    inner = inner
    live = live
    s1 = s1
    BadInput = BadInput
    CycleError = CycleError
    Cycle = CycleError
    Live = live
    None = None
    NoWrite = NoWrite
    Error <- MCErrors
    NoEntry = NoEntry
    NoKey = NoKey
    NoResult = NoResult
    NoValue = NoValue
    NoRecord = NoRecord
    NoView = NoView
    NoAnswer = NoAnswer
    Truth <- RefTruth
    NoContents = NoContents
    NoAsk = NoAsk
    View = {live, s1}
    Input <- BothInputs
    Query <- BothQueries
    InputValue = {1, 2}
    Ingredients <- TwoAndTwo
    MaxRev = 3
    Task = {t1}
    Program <- ChainProgram
    MaxReads = 2
    QueryValue = {0, 1, 2}
    Cancellable = {}
    Entry = {e1, e2}
INVARIANTS
    TypeOK
    RevalidationIsSound
PROPERTIES
    ImplementsService
