CONSTANTS
    MaxPeers = 2
    MaxPending = 3
    MaxCalls = 3
SPECIFICATION FairSpec
INVARIANTS
    TypeOK
    
    IndicatorBacked
    QuietAgrees
    NativeFollows
PROPERTIES
    IndicatorClears
