CONSTANTS
    m1 = m1
    m2 = m2
    NoMouse = NoMouse
    Mouse = {m1, m2}
    Verified = {}
    Wired = {m1}
    ProfileCount = 2
    MaxEdits = 2
    MaxEvents = 1
    MaxQueue = 1
SPECIFICATION MCSpec
INVARIANTS
    Consistent
    WrittenAsAgreed
    LetsGo
PROPERTIES
    
    FollowsMouse
    EditsSettle
