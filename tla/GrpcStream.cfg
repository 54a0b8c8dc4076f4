SPECIFICATION Spec
CONSTANTS
    MaxMessages = 2
    MaxWrites = 3
CHECK_DEADLOCK FALSE
INVARIANTS
    AssertsHold
PROPERTIES
    ImplementsObservedStream
    EndsInTime
