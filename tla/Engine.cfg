\* Two transfers; a block compresses to one or two source symbols and the
\* second size outgrows the field, so encode succeeds and fails.
CONSTANTS
    Ids = {t1, t2}
    MaxBlocks = 2
    MaxSource = 2
    FieldLimit = 2
SPECIFICATION FairSpec
INVARIANTS
    TypeOK
    
    CancelStopsSymbols
    
    EndedIsClean
    EngineInv
PROPERTIES
    CancelIsFinal
    HandleSpec
    ThreadsEnd
