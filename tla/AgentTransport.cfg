\* Two senders, a buffer for two frames, a writer that outlives its connection; fairness.
SPECIFICATION TransportFairSpec
CONSTANTS
    s1 = s1
    s2 = s2
    c1 = c1
    c2 = c2
    NoConn = NoConn
    NoFrame = NoFrame
    Senders <- TwoSenders
    Conns <- TwoConns
    MaxFrames = 4
    Capacity = 2
    MaxDelayStep = 1
INVARIANTS
    TransportInv
PROPERTIES
    
    KeepsConnecting
    BufferDrains
\* The agent stops, or its device is refused.
CHECK_DEADLOCK FALSE
