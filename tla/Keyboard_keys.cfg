SPECIFICATION FairSpec
CONSTANTS
 Plain = {}
 MaxQueue = 3
 MaxTyped = 3
INVARIANTS TypeOK Meant
PROPERTIES InLine Wakes
