\* Two services that share the engine, two numbers each and two transfers in
\* all.  The bounded system stops once every entry has settled.
CONSTANTS
    MaxServices = 2
    MaxNumber = 2
    MaxStarts = 2
    MaxBlocks = 2
SPECIFICATION FairSpec
INVARIANTS
    TypeOK
    PollsOwnTransfer
    ListNotAhead
    FailedSendIsStopped
PROPERTIES
    FailedIsFinal
    QueuedSettles
    CountedSettles
CHECK_DEADLOCK FALSE
