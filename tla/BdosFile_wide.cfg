SPECIFICATION FairSpec
CONSTANTS
  Name = {n1}
  Fcb = {f1}
  Value = {z}
  Zero = z
  NoValue = NoValue
  NumBlock = 4
  NumDirBlock = 1
  NumDir = 2
  FirstMark = 1
  RecsPerBlock = 1
  RecsPerExt = 1
  ExtPerEntry = 2
  NumExt = 4
  StaleSeek = FALSE
INVARIANTS Durable OneEntry Closable ReadBack
PROPERTIES WalkComplete CallReturns
