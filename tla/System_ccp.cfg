SPECIFICATION FairSpec
CONSTANTS
 NumPage = 8
 CcpPage = 5
 NumSys = 2
 NumLoad = 5
 LoaderPage = 4
 ReadFault = FALSE
 NumDrive = 2
 NumUser = 2
 MaxLine = 3
 MaxBatch = 2
 MaxBreak = 1
 Upsets = {}
INVARIANTS TypeOK Whole PromptDrive InTurn 
PROPERTIES BatchEnds
