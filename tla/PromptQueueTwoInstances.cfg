\* Two backend instances, one prompt, two attempts, one fault.
SPECIFICATION Spec
CONSTANTS
    a1 = a1
    a2 = a2
    b1 = b1
    A = A
    B = B
    NoConn = NoConn
    NumPrompts = 1
    MaxDeliveryAttempts = 2
    FlushLimit = 1
    SweepLimit = 1
    AckLimit = 1
    SendQueueSize = 1
    OutboxSize = 2
    MaxLate = 1
    MaxFaults = 1
    Instances <- TwoInstances
    Workers <- TwoWorkers
    InstanceOf <- TwoInstanceOf
SYMMETRY TwoSymmetry
INVARIANTS
    AttemptsWereWritten
PROPERTIES
    SettledIsFinal
    WithdrawnNeverTaken
    PromiseSpec
\* Everything settled and no fault left: nothing remains to be done.
CHECK_DEADLOCK FALSE
