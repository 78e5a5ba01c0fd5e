SPECIFICATION Spec
CONSTANTS
  Name = {n1}
  Fcb = {f1}
  Value = {z}
  Zero = z
  NoValue = NoValue
  NumBlock = 3
  NumDirBlock = 1
  NumDir = 2
  FirstMark = 1
  RecsPerBlock = 1
  RecsPerExt = 1
  ExtPerEntry = 1
  NumExt = 2
  StaleSeek = TRUE
INVARIANT ProperRecord
