CONSTANTS
    Boxes <- MCBoxes
    MaxBoxes = 4
    Limit = 2
    ThreshNum = 4
    ThreshDen = 10
SPECIFICATION Spec
INVARIANTS
    ResultIsIndependent
    ResultCovers
    ResultIsBest
PROPERTIES
    ImplementsGreedy
\* The function returns.
CHECK_DEADLOCK FALSE
