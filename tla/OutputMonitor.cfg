SPECIFICATION FairSpec
CONSTANTS
    MaxWorks = 3
    MaxClientDrains = 1
    MaxResets = 1
    MaxFaults = 1
    MayHangUp = TRUE
INVARIANTS
    TypeOK
    AtMostOneNotification
    DescriptorsOutliveThread
    DeadThreadIsKnown
PROPERTIES
    ReadyOutputIsDrained
    StopReturns
    HangUpIsReported
CHECK_DEADLOCK FALSE
