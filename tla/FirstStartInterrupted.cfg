SPECIFICATION FairSpec
CONSTANTS
    None = None
    Sizes = {1}
    MaxMail = 2
    MaxMissing = 0
    MaxLag = 1
    Cuts = {0}
    MaxCrashes = 1
PROPERTY
    RestartImports
