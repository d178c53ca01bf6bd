SPECIFICATION Spec
CONSTANTS
    Conns = {c1, c2}
    Streams = {out, err}
    MaxLines = 3
    BatchSize = 2
    Capacity = 2
    MaxPage = 2
    DefaultPage = 2
    Limits <- AskedLimits
    MaxRetries = 1
    NoConn = NoConn
SYMMETRY Alike
INVARIANTS
    IInv
    CalmTranscript
    ReaderSkipsNothing
CHECK_DEADLOCK FALSE
