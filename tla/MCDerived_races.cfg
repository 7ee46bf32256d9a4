SPECIFICATION FairSingleSpec
CONSTANTS
    a = a
    b = b
    outer = outer
    inner = inner
    live = live
    s1 = s1
    BadInput = BadInput
    CycleError = CycleError
    Cycle = CycleError
    Live = live
    None = None
    NoWrite = NoWrite
    Error <- MCErrors
    NoEntry = NoEntry
    NoKey = NoKey
    NoResult = NoResult
    NoValue = NoValue
    NoRecord = NoRecord
    NoView = NoView
    NoAnswer = NoAnswer
    Truth <- RefTruth
    NoContents = NoContents
    NoAsk = NoAsk
    View = {live}
    Input <- InputA
    Query <- OnlyOuter
    InputValue = {1}
    Ingredients <- OneAndOne
    MaxRev = 2
    Task = {t1, t2}
    Program <- CopyProgram
    MaxReads = 1
    QueryValue = {0, 1}
    Cancellable = {}
    Entry = {e1, e2}
INVARIANTS
    RunningIsOwned
    NoSleepOnSettledCell
PROPERTIES
    ImplementsRegistry
    AccessesReturn
