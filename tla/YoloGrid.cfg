SPECIFICATION GridSpec
CONSTANTS
    gridSize <- MCGridSize
    boxesPerCell = 2
    numClasses = 2
    Maps <- MCMaps
INVARIANTS
    ReadsEachOnce
    FindsWhatIsThere
