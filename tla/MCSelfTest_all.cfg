CONSTANTS
    ProfileCount = 3
    Bindings = 2
    Edits = 1
    Undos = 2
    LiveTries = 2
    MaxFaults = 2
    MaxPresses = 1
SPECIFICATION SelfTestSpec
CHECK_DEADLOCK FALSE
INVARIANTS
    SelfTestSound
    UndisturbedPasses
    PassIsEarned
