SPECIFICATION QuietSpec
CONSTANTS
    a = a
    b = b
    outer = outer
    inner = inner
    live = live
    s1 = s1
    BadInput = BadInput
    CycleError = CycleError
    Cycle = CycleError
    Live = live
    None = None
    NoWrite = NoWrite
    Error <- MCErrors
    NoEntry = NoEntry
    NoKey = NoKey
    NoResult = NoResult
    NoValue = NoValue
    NoRecord = NoRecord
    NoView = NoView
    NoAnswer = NoAnswer
    Truth <- RefTruth
    NoContents = NoContents
    NoAsk = NoAsk
    View = {live}
    Input <- InputA
    Query <- BothQueries
    InputValue = {1, 2}
    Ingredients <- OneAndTwo
    MaxRev = 3
    Task = {t1, t2}
    Program <- LoopProgram
    MaxReads = 2
    QueryValue = {1}
    Cancellable = {}
    Entry = {e1, e2, e3, e4}
INVARIANTS
    OneOwner
    CellMeaning
PROPERTIES
    ImplementsService
CHECK_DEADLOCK FALSE
