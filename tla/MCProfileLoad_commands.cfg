CONSTANTS
    ProfileCount = 3
    MaxFaults = 2
    MaxPresses = 1
SPECIFICATION Spec
INVARIANTS
    Consistent
    ReportIsTrue
    StaysInUse
