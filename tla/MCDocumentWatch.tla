--------------------------- MODULE MCDocumentWatch ---------------------------
EXTENDS DocumentWatch

CONSTANTS l1, l2

TwoListeners == {l1, l2}
=============================================================================
