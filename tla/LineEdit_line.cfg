SPECIFICATION Spec
CONSTANTS
 Rows = 5
 Cols = 5
 Byte = 16
 TabStop = 4
 MaxLen = 4
 Keys = {"a", "^A", "^C", "tab", "bs", "del", "^E", "^R", "^U", "^X", "cr"}
 BackAcross = FALSE
 Overlong = FALSE
 Prompts = {0, 2}
 MaxKeys = 6
CHECK_DEADLOCK FALSE
INVARIANTS TypeOK ColumnKept Shown
