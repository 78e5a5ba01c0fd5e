SPECIFICATION Spec
CONSTANTS
  Name = {n1}
  Fcb = {f1}
  Value = {z, w}
  Zero = z
  NoValue = NoValue
  NumBlock = 3
  NumDirBlock = 1
  NumDir = 2
  FirstMark = 1
  RecsPerBlock = 2
  RecsPerExt = 2
  ExtPerEntry = 1
  NumExt = 2
  StaleSeek = FALSE
INVARIANTS Durable Pending
PROPERTY ExtentKept
