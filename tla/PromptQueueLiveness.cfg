\* One instance, one prompt, two faults, fairness; the invariant of the proofs.
SPECIFICATION FairSpec
CONSTANTS
    a1 = a1
    a2 = a2
    b1 = b1
    A = A
    B = B
    NoConn = NoConn
    NumPrompts = 1
    MaxDeliveryAttempts = 2
    FlushLimit = 2
    SweepLimit = 2
    AckLimit = 2
    SendQueueSize = 1
    OutboxSize = 1
    MaxLate = 1
    MaxFaults = 2
    Instances <- OneInstance
    Workers <- OneWorkers
    InstanceOf <- OneInstanceOf
INVARIANTS
    IInv
PROPERTIES
    EventuallySettledOrSpent
\* Everything settled and no fault left: nothing remains to be done.
CHECK_DEADLOCK FALSE
