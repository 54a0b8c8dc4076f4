----------------------------- MODULE MCTagSearch -----------------------------
EXTENDS TagSearch

CONSTANTS bulguksa, tower, nowhere, slashed, p1, p2

MCTags == {bulguksa, tower, nowhere}
MCPictures == {p1, p2}

\* A document that changes once, one with a picture of the first, and a tag
\* without a document.
MCContents ==
    (bulguksa :> <<<<p1>>, <<p2, p1>>>>) @@ (tower :> <<<<p1>>>>) @@ (nowhere :> <<>>)
=============================================================================
