SPECIFICATION Spec
CONSTANTS
    doc1 = doc1
    doc2 = doc2
    Targets <- MCTargets
    RemovesListeners = TRUE
    SwitchesNetwork = TRUE
    ServerEndsOK = FALSE
    MaxCloses = 5
SYMMETRY Symmetry
INVARIANTS
    TypeOK
    AssertsHold
    NeededIsTried
    OnlineIsOpen
PROPERTIES
    ImplementsOnlineLink
