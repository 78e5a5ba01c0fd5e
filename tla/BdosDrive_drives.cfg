SPECIFICATION Spec
CHECK_DEADLOCK FALSE
CONSTANTS
 Drive = {0, 2}
 NumDir = 4
 EntPerSec = 2
 NumCheck = 2
 NumBlock = 2
 NumDirBlock = 1
 FirstMark = 2
 SumSize = 16
 AlvStride = 1
 CsvStride = 1
 Disks <- MCDisks
 MayChange = TRUE
 LogOffActive = FALSE
 MayIgnore = FALSE
INVARIANTS TypeOK NoFalseAlarm Noticed SameSector CurrentKept
PROPERTY TakeFree
