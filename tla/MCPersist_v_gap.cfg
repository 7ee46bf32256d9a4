SPECIFICATION BusySpec
CONSTANTS
    k1 = k1
    k2 = k2
    Key <- MCKey
    Value = {val1}
    None = None
    Eval <- MCEval
    Memo = Memo
    MaxRev = 2
    MaxLog = 2
    NoCell = NoCell
    NoOp = NoOp
    NoWriter = NoWriter
    NoFile = NoFile
    NoReplay = NoReplay
SYMMETRY Symmetry
INVARIANT FlushedIsDurable
