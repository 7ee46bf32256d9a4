SPECIFICATION Spec
CONSTANTS
    a = a
    b = b
    outer = outer
    inner = inner
    live = live
    s1 = s1
    BadInput = BadInput
    CycleError = CycleError
    Cycle = CycleError
    Live = live
    None = None
    NoWrite = NoWrite
    Error <- MCErrors
    NoEntry = NoEntry
    NoKey = NoKey
    NoResult = NoResult
    NoValue = NoValue
    NoRecord = NoRecord
    NoView = NoView
    NoAnswer = NoAnswer
    Truth <- RefTruth
    NoContents = NoContents
    NoAsk = NoAsk
    View = {live}
    Input <- InputA
    Query <- OnlyOuter
    InputValue = {1}
    Ingredients <- OneAndOne
    MaxRev = 1
    Task = {t1}
    Program <- CopyProgram
    MaxReads = 1
    QueryValue = {0, 1}
    Cancellable = {}
    Entry = {e1}
INVARIANTS
    CurrentCellIsTrue
