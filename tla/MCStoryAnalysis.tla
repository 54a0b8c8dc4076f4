--------------------------- MODULE MCStoryAnalysis ---------------------------
EXTENDS StoryAnalysis

CONSTANTS bulguksa, tower, cheomseongdae, p1, p2, p3

MCPictures == {p1, p2, p3}

\* The model knows more sights than the switch does.
MCKnown == {bulguksa, tower}
MCClasses == {bulguksa, tower, cheomseongdae}

\* A document that changes once, and none.
MCContents == (bulguksa :> <<<<p1>>, <<p2, p1>>>>) @@ (tower :> <<<<>>>>)

\* Three of the eighty labels.
MCLabels == <<"person", "bicycle", "car">>
=============================================================================
