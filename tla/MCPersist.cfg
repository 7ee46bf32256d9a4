SPECIFICATION QuietSpec
CONSTANTS
    k1 = k1
    k2 = k2
    Key <- MCKey
    Value = {val1}
    None = None
    Eval <- MCEval
    Memo = Memo
    MaxRev = 3
    MaxLog = 4
    NoCell = NoCell
    NoOp = NoOp
    NoWriter = NoWriter
    NoFile = NoFile
    NoReplay = NoReplay
SYMMETRY Symmetry
INVARIANTS
    TypeOK
    FlushedIsDurable
    CacheIsSound
    RevisionCovers
