CONSTANTS
    Views <- MCViews
    Listed <- MCListed
    MaxFaults = 1
    MaxCommands = 1
SPECIFICATION MCSpec
INVARIANTS
    CacheSound
    CacheServes
    ColorShown
PROPERTY StopsAsking
CHECK_DEADLOCK FALSE
