CONSTANTS
    ProfileCount = 3
    RomProfileCount = 2
    Room = 4
    RomDirectories <- MCRom
    MaxDamage = 1
SPECIFICATION DirectorySpec
INVARIANTS
    DirectorySound
PROPERTIES
    RepairIsOldOrNew
CHECK_DEADLOCK FALSE
