CONSTANTS
    MaxServices = 2
    MaxNumber = 1
    MaxStarts = 2
    MaxBlocks = 1
SPECIFICATION Spec
PROPERTIES
    CompletedIsFinal
CHECK_DEADLOCK FALSE
