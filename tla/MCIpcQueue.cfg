CONSTANTS
    NumWriters = 2
    Capacity = 2
    IndexWidth = 1
    MaxPushes = 3
SPECIFICATION FairQueueSpec
CHECK_DEADLOCK FALSE
INVARIANTS
    QueueTypeOK
    OneNotification
PROPERTIES
    ImplementsFifos
    AwakeReaderPops
