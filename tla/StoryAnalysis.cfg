CONSTANTS
    bulguksa = bulguksa
    tower = tower
    cheomseongdae = cheomseongdae
    p1 = p1
    p2 = p2
    p3 = p3
    Pictures <- MCPictures
    NoPicture = NoPicture
    Classes <- MCClasses
    Known <- MCKnown
    NoClass = NoClass
    Empty = Empty
    Contents <- MCContents
    labels <- MCLabels
    MaxBoundingBoxes = 2
    MaxTaps = 2
SPECIFICATION StorySpec
INVARIANTS
    TagsAreObjects
    PictureIsChosen
\* The app traps, and a story may have nothing left to wait for.
CHECK_DEADLOCK FALSE
