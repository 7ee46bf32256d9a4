SPECIFICATION FairQuietSpec
CONSTANTS
    a = a
    b = b
    outer = outer
    inner = inner
    live = live
    s1 = s1
    BadInput = BadInput
    CycleError = CycleError
    Cycle = CycleError
    Live = live
    None = None
    NoWrite = NoWrite
    Error <- MCErrors
    NoEntry = NoEntry
    NoKey = NoKey
    NoResult = NoResult
    NoValue = NoValue
    NoRecord = NoRecord
    NoView = NoView
    NoAnswer = NoAnswer
    Truth <- RefTruth
    NoContents = NoContents
    NoAsk = NoAsk
    View = {live}
    Input <- BothInputs
    Query <- BothQueries
    InputValue = {1}
    Ingredients <- TwoAndTwo
    MaxRev = 4
    Task = {t1}
    Program <- TwoFailsProgram
    MaxReads = 2
    QueryValue = {1}
    Cancellable = {}
    Entry = {e1, e2}
PROPERTIES
    AccessesReturn
CHECK_DEADLOCK FALSE
