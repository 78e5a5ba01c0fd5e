SPECIFICATION Spec
CONSTANTS
 Plain = {}
 MaxQueue = 3
 MaxTyped = 2
INVARIANT StatusKeeps
