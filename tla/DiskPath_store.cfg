SPECIFICATION FairPath
CONSTANTS
  NumDisk = 2
  Track = {0, 1, 2, 3, 4, 5}
  SecPerTrk = 2
  Byte = 4
  Value = {v, w}
  NumSys = 2
  LateFault = FALSE
  Word = 8
  Offset = 1
  Record = {1, 4}
INVARIANTS TypeOK
PROPERTIES Implements Exact TransferEnds
