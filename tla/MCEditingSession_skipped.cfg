CONSTANTS
    v1 = v1
    v2 = v2
    Profile <- MCProfile
    Version <- MCVersion
    MaxEdits = 3
    MaxFaults = 1
    MaxOthers = 1
    MaxQueue = 1
SPECIFICATION Spec
INVARIANT ChangesSaveThemselves
