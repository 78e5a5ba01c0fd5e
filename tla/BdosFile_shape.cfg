SPECIFICATION Spec
CONSTANTS
  Name = {n1, n2}
  Fcb = {f1, f2}
  Value = {z}
  Zero = z
  NoValue = NoValue
  NumBlock = 3
  NumDirBlock = 1
  NumDir = 2
  FirstMark = 1
  RecsPerBlock = 1
  RecsPerExt = 1
  ExtPerEntry = 2
  NumExt = 2
  StaleSeek = TRUE
INVARIANTS TypeOK NoCrossLink AllocSound MarkCovers
PROPERTY ProtectedButAttr
