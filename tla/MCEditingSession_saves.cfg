CONSTANTS
    v1 = v1
    v2 = v2
    Profile <- MCProfile
    Version <- MCVersion
    MaxEdits = 2
    MaxFaults = 1
    MaxOthers = 1
    MaxQueue = 1
SPECIFICATION Spec
SYMMETRY MCSymmetry
INVARIANTS
    Consistent
    NothingLost
    UndoReachesBackup
