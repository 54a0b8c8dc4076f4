CONSTANTS
    korea = korea
    kosovo = kosovo
    japan = japan
    NoLabel = NoLabel
    Countries <- MCCountries
    Lists <- MCLists
    Texts <- MCTexts
    Empty = ""
    Matches <- MCMatches
    MaxLists = 2
SPECIFICATION TravelSpec
INVARIANTS
    RowsAgree
    FilteredIsSearch
PROPERTIES
    CountryIsListed
    ImplementsListScreen
\* The app traps.
CHECK_DEADLOCK FALSE
