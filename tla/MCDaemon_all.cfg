CONSTANTS
    a = a
    b = b
    App <- MCApp
    Profile <- MCProfile
    Enabled <- MCEnabled
    Rules <- MCRules
    MaxChanges = 3
    MaxStalls = 2
SPECIFICATION Spec
INVARIANTS
    Consistent
    RuleFollowed
PROPERTY Settles
