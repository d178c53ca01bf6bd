\* Two tabs, two logins, three tokens.
SPECIFICATION Spec
CONSTANTS
    t1 = t1
    t2 = t2
    None = None
    Tabs <- TwoTabs
    MaxTokens = 3
    MaxLogins = 2
SYMMETRY TabsAlike
INVARIANTS
    IInv
    TurnsAreClean
PROPERTIES
    RevokedStaysRevoked
\* The logins and tokens run out.
CHECK_DEADLOCK FALSE
