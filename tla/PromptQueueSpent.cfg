\* One prompt, no fault: its attempts are used up and it is never marked failed.
SPECIFICATION FairSpec
CONSTANTS
    a1 = a1
    a2 = a2
    b1 = b1
    A = A
    B = B
    NoConn = NoConn
    NumPrompts = 1
    MaxDeliveryAttempts = 2
    FlushLimit = 2
    SweepLimit = 2
    AckLimit = 2
    SendQueueSize = 1
    OutboxSize = 1
    MaxLate = 1
    MaxFaults = 0
    Instances <- OneInstance
    Workers <- OneWorkers
    InstanceOf <- OneInstanceOf
PROPERTIES
    SpentIsMarked
\* Everything settled and no fault left: nothing remains to be done.
CHECK_DEADLOCK FALSE
