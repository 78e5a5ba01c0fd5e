SPECIFICATION Spec
CHECK_DEADLOCK FALSE
CONSTANTS
 Drive = {0, 1}
 NumDir = 4
 EntPerSec = 2
 NumCheck = 1
 NumBlock = 2
 NumDirBlock = 1
 FirstMark = 2
 SumSize = 16
 AlvStride = 1
 CsvStride = 1
 Disks <- MCDisks
 MayChange = FALSE
 LogOffActive = FALSE
 MayIgnore = FALSE
PROPERTY TakeFree
