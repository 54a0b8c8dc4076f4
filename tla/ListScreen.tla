------------------------------ MODULE ListScreen ------------------------------
(****************************************************************************)
(* What a screen with a list of rows promises its user, whatever the code   *)
(* behind it does to its arrays: a row that shows a label keeps showing it  *)
(* until the whole list is laid out anew or the row scrolls away, and a tap *)
(* opens the thing the tapped row shows.                                    *)
(****************************************************************************)
CONSTANTS
    Labels,   \* what a row may show
    NoLabel   \* a row laid out whose cell has not been made yet

VARIABLES
    rows,     \* what each row on the screen shows
    opened    \* what the screen opened last (NoLabel: nothing yet)

vars == <<rows, opened>>

Init == opened = NoLabel /\ rows = [r \in {} |-> NoLabel]

\* The list is laid out anew: any rows, none with a label yet.
Relist == rows' = [r \in DOMAIN rows' |-> NoLabel] /\ UNCHANGED opened

\* A blank row gets its label.
Fill(r, label) ==
    /\ rows[r] = NoLabel
    /\ rows' = [rows EXCEPT ![r] = label]
    /\ UNCHANGED opened

\* A row scrolls away and is blank again.
Clear(r) == rows' = [rows EXCEPT ![r] = NoLabel] /\ UNCHANGED opened

\* A row that shows something is tapped.
Open(r) ==
    /\ rows[r] # NoLabel
    /\ opened' = rows[r]
    /\ UNCHANGED rows

Next ==
    \/ Relist
    \/ \E r \in DOMAIN rows :
          \/ \E label \in Labels : Fill(r, label)
          \/ Clear(r)
          \/ Open(r)

Spec == Init /\ [][Next]_vars
=============================================================================
