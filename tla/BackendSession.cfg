\* Two sessions of one device, two handlers at a time, fairness.
SPECIFICATION FairSpec
CONSTANTS
    s1 = s1
    s2 = s2
    w1 = w1
    w2 = w2
    Sessions <- TwoSessions
    Workers <- TwoWorkers
INVARIANTS
    IInv
    OneActive
PROPERTIES
    EndedIsFinal
    LegalTransitions
    AbandonedIsEnded
