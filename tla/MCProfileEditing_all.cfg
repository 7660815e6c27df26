CONSTANTS
    MaxLevels = 3
    Lowest = 2
    Highest = 6
    Step = 2
    Intervals = {1, 2}
    g4 = g4
    wheel = wheel
    click = click
    Slot = {g4, wheel}
    Button = {g4}
    Disabled = Disabled
    NoText = NoText
    Action = {click, Disabled}
    Bytes = {0, 7, 255}
    Plain = 0
    Stored <- MCStored
    None = None
    MaxEdits = 3
    MaxSurprises = 1
SPECIFICATION Spec
INVARIANTS
    Consistent
    RolesKept
PROPERTIES
    SavedAsDrafted
    OthersKept
