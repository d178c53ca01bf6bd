\* Two connections of one device on two instances, fairness.
SPECIFICATION FairSpec
CONSTANTS
    c1 = c1
    c2 = c2
    A = A
    B = B
    n1 = n1
    n2 = n2
    NoConn = NoConn
    NoInstance = NoInstance
    Conns <- TwoConns
    Instances <- TwoInstances
    Names <- OneName
INVARIANTS
    IInv
PROPERTIES
    RevocationHolds
    OrphansEnd
    PresenceConverges
\* A deleted device without connections: nothing remains to be done.
CHECK_DEADLOCK FALSE
