CONSTANTS
    dir = dir
    p1 = p1
    p2 = p2
    oldDir = oldDir
    newDir = newDir
    old = old
    new = new
    torn = torn
    Sector <- MCSector
    Content <- MCContent
    Damage <- MCDamage
    JobPlans <- MCPlans
    MaxFaults = 3
SPECIFICATION Spec
INVARIANTS
    TypeOK
    MemoryFollowsPlan
    ReportIsTrue
PROPERTY ImplementsAtomicWrites
