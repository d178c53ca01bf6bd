SPECIFICATION FairSpec
CONSTANTS
    Older = Older
    Newer = Newer
    Instances = {Older, Newer}
    Embeds <- RollingDeploy
    MaxVersion = 2
    Requires = {Newer}
    Pooled = FALSE
    None = None
INVARIANTS
    IInv
    OneSweeper
PROPERTIES
    StartEnds
    ShutdownEnds
