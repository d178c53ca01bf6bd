\* Three prompts through a queue of two, one of them sent twice, two read loops, one fault, fairness.
SPECIFICATION PromptsFairSpec
CONSTANTS
    p1 = p1
    p2 = p2
    p3 = p3
    c1 = c1
    c2 = c2
    NoPrompt = NoPrompt
    NoReader = NoReader
    Prompts <- ThreePrompts
    Readers <- TwoReaders
    MaxOfflinePrompts = 2
    MaxDeliveries <- OneTwice
    MaxFaults = 1
INVARIANTS
    PromptsInv
PROPERTIES
    QueuedInjectedOnReconnect
\* Every frame handled and no fault left: nothing remains to be done.
CHECK_DEADLOCK FALSE
