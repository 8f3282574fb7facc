CONSTANTS
    MaxLines = 2
    MaxDays = 1
    Base = 3
    Width = 1
    MaxTime = 3
    MaxRecords = 4
SPECIFICATION LogSpec
INVARIANTS LogSound NothingVanishes
PROPERTIES YoungFilesKept
