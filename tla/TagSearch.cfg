CONSTANTS
    bulguksa = bulguksa
    tower = tower
    nowhere = nowhere
    slashed = slashed
    p1 = p1
    p2 = p2
    Tags <- MCTags
    BadTexts = {slashed}
    Empty = Empty
    Pictures <- MCPictures
    NoPicture = NoPicture
    Contents <- MCContents
    MaxSearches = 2
    MaxTaps = 2
SPECIFICATION Spec
INVARIANTS
    RowsAgree
    FoundStays
    NothingListedTwice
    StoryIsTapped
PROPERTIES
    SearchIsListed
\* The app traps, and a screen that is gone may have nothing left to wait for.
CHECK_DEADLOCK FALSE
