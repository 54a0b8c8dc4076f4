CONSTANTS
    c1 = c1
    c2 = c2
    Cells <- MCCells
    Rows = {1, 2}
    NoRow = NoRow
    NoPicture = NoPicture
    MaxVersions = 2
    MaxDequeues <- MCMaxDequeues
SPECIFICATION CellsSpec
INVARIANTS
    PictureFromOwnPast
PROPERTIES
    RowGetsPicture
\* The app traps.
CHECK_DEADLOCK FALSE
