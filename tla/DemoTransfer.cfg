\* Two transfers, of which one may come in, up to two strays each.  The
\* bounded system stops once every transfer is over.
CONSTANTS
    MaxTransfers = 2
    MaxListens = 1
    MaxStray = 2
    Whole = 3
SPECIFICATION FairSpec
INVARIANTS
    TypeOK
    ActiveIsTicking
    TimerHasState
PROPERTIES
    OverIsFrozen
    ActiveSettles
    StraysEnd
CHECK_DEADLOCK FALSE
