CONSTANTS
    MaxServices = 1
    MaxNumber = 1
    MaxStarts = 2
    MaxBlocks = 1
SPECIFICATION FairSpec
PROPERTIES
    EndedSettles
CHECK_DEADLOCK FALSE
