CONSTANTS
    ProfileCount = 2
    v1 = v1
    v2 = v2
    f1 = f1
    f2 = f2
    f3 = f3
    Versions <- MCVersions
    Factory = v1
    FactoryOn = {1}
    Erased = Erased
    Torn = Torn
    Noise = Noise
    NoFile = NoFile
    NotSaved = NotSaved
    HalfFile = HalfFile
    InitialMemories <- MCInitial
    FileName = {f1, f2, f3}
    MaxFaults = 3
    MaxNoise = 1
SPECIFICATION Spec
SYMMETRY MCFileSymmetry
CHECK_DEADLOCK FALSE
INVARIANTS
    Consistent
    BackupPrecedesWrites
    Recoverable
    RestoresAreExact
