CONSTANTS
    Release <- MCRelease
    PluginFiles <- MCPluginFiles
    Broken = 9
    MaxFaults = 1
    MaxOthers = 2
SPECIFICATION Spec
INVARIANTS
    Consistent
    DoneIsDone
    ShellIsCurrent
PROPERTY UninstallerGoesLast
