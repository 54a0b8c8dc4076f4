SPECIFICATION Spec
CONSTANTS
    l1 = l1
    l2 = l2
    Listeners <- TwoListeners
    MaxVersion = 2
    MaxLimbo = 1
    MaxMessages = 3
    MaxFaults = 2
CHECK_DEADLOCK FALSE
INVARIANTS
    TypeOK
    AssertsHold
    SyncedIsServers
    ResumesFromDisk
PROPERTIES
    ImplementsDocumentListener
    NewestIsShown
    ComesBackInSync
