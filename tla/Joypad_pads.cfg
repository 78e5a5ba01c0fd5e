SPECIFICATION FairSpec
CONSTANTS
 Fingers <- MCFingers
 MaxPress = 4
INVARIANTS TypeOK Served
PROPERTIES Settles
