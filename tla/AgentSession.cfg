\* One session, a request to stop it and a shutdown, fairness.
SPECIFICATION FairSpec
CONSTANTS
    Request = Request
    Shutdown = Shutdown
INVARIANTS
    IInv
    InhibitionFollowsWork
    ShutdownIsComplete
PROPERTIES
    EndIsReported
    StatusConverges
\* The agent process ends.
CHECK_DEADLOCK FALSE
