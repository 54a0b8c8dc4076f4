----------------------------- MODULE TravelScreen -----------------------------
(****************************************************************************)
(* TravelController: the list of countries and its search bar.              *)
(*                                                                          *)
(* The list is fed by a Firestore snapshot listener that appends to images; *)
(* the search bar's callbacks switch the list between images and filtered.  *)
(* UIKit asks for rows and cells on its own schedule: it lays out as many   *)
(* rows as numberOfItemsInSection returned at the last reloadData, makes a  *)
(* cell when a row comes on screen, and reports taps by row number.  The    *)
(* code keeps nothing that ties a row to what it showed.                    *)
(****************************************************************************)
EXTENDS Naturals, Sequences, FiniteSets, SequencesExt

CONSTANTS
    Countries,    \* the strings of the document's array "Country"
    Lists,        \* the arrays it may hold: sequences of Countries
    Texts,        \* what the user may type into the search bar
    Empty,        \* the empty text
    Matches,      \* Matches[t]: the countries whose name contains t, ignoring case
    NoLabel,      \* a row without a cell; not a country
    MaxLists      \* bound: how many versions of the document there are

ASSUME TravelAssumption ==
    /\ Lists \subseteq Seq(Countries)
    /\ Empty \in Texts
    /\ Matches \in [Texts -> SUBSET Countries]
    /\ Matches[Empty] = {}   \* NSString's range(of: "") is NSNotFound
    /\ NoLabel \notin Countries
    /\ MaxLists \in Nat

VARIABLES
    versions,     \* the document travel/travel: every version written so far
    delivered,    \* the version the listener was last called with (0: none)
    listening,    \* the listener is registered
    images,       \* every country of every snapshot delivered
    filtered,     \* the result of the last search
    searchActive, \* the list shows filtered, not images
    text,         \* the text in the search bar
    searched,     \* history: the text filtered was computed from
    editing,      \* the search bar is first responder (the keyboard is up)
    rows,         \* the rows laid out, with the label of each cell made
    page,         \* "travel": on screen; "detail": covered by the screen it pushed;
                  \* "gone": popped, though the listener's closure keeps it alive
    opened,       \* rcvlabel of the DetailController pushed last
    fate          \* "running", or what killed the app

doc == <<versions, delivered, listening>>
list == <<images, filtered, searched, searchActive>>
bar == <<text, editing>>
screen == <<rows, page, opened, fate>>
travelVars == <<doc, list, bar, screen>>

-----------------------------------------------------------------------------
\* What numberOfItemsInSection and cellForItemAt read.
Source == IF searchActive THEN filtered ELSE images

\* Where s has a country whose name contains t, ignoring case.
Hits(s, t) == {k \in DOMAIN s : s[k] \in Matches[t]}

\* images.filter { ... }: the hits, in the order of the array.  (The set has one
\* member, the array with every hit once.)
Filtered(s, t) ==
    {[m \in DOMAIN h |-> s[h[m]]] :
        h \in {g \in [1..Cardinality(Hits(s, t)) -> Hits(s, t)] :
                  \A m, n \in DOMAIN g : m < n => g[m] < g[n]}}

\* reloadData: the rows are counted and laid out anew, from what the callback
\* leaves behind; their cells are made later.
Reload == rows' = [r \in DOMAIN Source' |-> NoLabel]

Alive == fate = "running"

\* The callbacks of the search bar and of taps, which reach only the screen on top.
OnTop == Alive /\ page = "travel"

\* viewDidLoad has run: delegates set, the listener added by test().
TravelInit ==
    /\ versions \in {<<l>> : l \in Lists}
    /\ delivered = 0
    /\ listening = TRUE
    /\ images = <<>>
    /\ filtered = <<>>
    /\ searchActive = FALSE
    /\ text = Empty
    /\ searched = Empty
    /\ editing = FALSE
    /\ rows = [r \in {} |-> NoLabel]
    /\ page = "travel"
    /\ opened = NoLabel
    /\ fate = "running"

-----------------------------------------------------------------------------
(* The document and its listener.                                           *)

\* Someone edits the document.
PublishList(l) ==
    /\ Alive
    /\ Len(versions) < MaxLists
    /\ versions' = Append(versions, l)
    /\ UNCHANGED <<delivered, listening, list, bar, screen>>

\* Mutant: the document is read once (getDocument for addSnapshotListener).
DeliverOnce(v) ==
    /\ Alive
    /\ listening
    /\ delivered = 0
    /\ delivered' = v
    /\ images' = images \o versions[v]
    /\ UNCHANGED <<filtered, searched, searchActive>>
    /\ Reload
    /\ UNCHANGED <<versions, listening, bar, page, opened, fate>>

\* Mutant: the new version replaces the list, and filtered stays as it was.
DeliverReplaces(v) ==
    /\ Alive
    /\ listening
    /\ delivered < v
    /\ delivered' = v
    /\ images' = versions[v]
    /\ UNCHANGED <<filtered, searched, searchActive>>
    /\ Reload
    /\ UNCHANGED <<versions, listening, bar, page, opened, fate>>

\* The listener is called with a version newer than the last: first perhaps
\* one from the cache, and never every version in between.
Deliver(v) ==
    /\ Alive
    /\ listening
    /\ delivered < v
    /\ delivered' = v
    /\ images' = images \o versions[v]
    /\ UNCHANGED <<filtered, searched, searchActive>>
    /\ Reload
    /\ UNCHANGED <<versions, listening, bar, page, opened, fate>>

\* Offline with nothing cached, the first snapshot is of a document that does
\* not exist: document.get("Country") is nil, and as! traps.
DeliverMissing ==
    /\ Alive
    /\ listening
    /\ delivered = 0
    /\ fate' = "noField"
    /\ UNCHANGED <<doc, list, bar, rows, page, opened>>

\* The listener is called with an error: it prints, returns, and is not called again.
DeliverError ==
    /\ Alive
    /\ listening
    /\ listening' = FALSE
    /\ UNCHANGED <<versions, delivered, list, bar, screen>>

-----------------------------------------------------------------------------
(* The search bar.                                                          *)

\* searchBarTextDidBeginEditing: the list turns to what was last filtered.
BeginEditing ==
    /\ OnTop
    /\ ~editing
    /\ editing' = TRUE
    /\ searchActive' = TRUE
    /\ UNCHANGED <<images, filtered, searched>>
    /\ Reload
    /\ UNCHANGED <<doc, text, page, opened, fate>>

\* The user types: textDidChange does nothing, the list stays as it is.
Type(t) ==
    /\ OnTop
    /\ editing
    /\ text' = t
    /\ UNCHANGED <<doc, list, editing, screen>>

\* searchBarTextDidEndEditing: the keyboard is dismissed, or the search bar
\* leaves the window because its screen is covered or popped.
EndEditing ==
    /\ Alive
    /\ editing
    /\ editing' = FALSE
    /\ searchActive' = FALSE
    /\ UNCHANGED <<images, filtered, searched>>
    /\ Reload
    /\ UNCHANGED <<doc, text, page, opened, fate>>

\* searchBarCancelButtonClicked.  Resigning first responder calls
\* searchBarTextDidEndEditing on the way, which changes nothing more.
CancelButton ==
    /\ OnTop
    /\ searchActive' = FALSE
    /\ filtered' = <<>>
    /\ searched' = Empty
    /\ text' = Empty
    /\ editing' = FALSE
    /\ UNCHANGED images
    /\ Reload
    /\ UNCHANGED <<doc, page, opened, fate>>

\* Mutant: no reload after a search.
SearchNoReload ==
    /\ OnTop
    /\ editing
    /\ text # Empty
    /\ filtered' \in Filtered(images, text)
    /\ searched' = text
    /\ searchActive' = (filtered' # <<>>)
    /\ UNCHANGED <<doc, images, bar, screen>>

\* searchBarSearchButtonClicked.  The key is enabled when there is text; the
\* keyboard stays up, and a search without a hit turns the list to images.
SearchButton ==
    /\ OnTop
    /\ editing
    /\ text # Empty
    /\ filtered' \in Filtered(images, text)
    /\ searched' = text
    /\ searchActive' = (filtered' # <<>>)
    /\ UNCHANGED images
    /\ Reload
    /\ UNCHANGED <<doc, bar, page, opened, fate>>

-----------------------------------------------------------------------------
(* The rows.                                                                *)

\* cellForItemAt: a row comes on screen, or is prefetched, and its cell is
\* labelled from the array that counts now; a row beyond its end traps.
CellForItemAt(r) ==
    /\ Alive
    /\ page # "gone"
    /\ r \in DOMAIN rows
    /\ rows[r] = NoLabel
    /\ IF r \in DOMAIN Source
         THEN rows' = [rows EXCEPT ![r] = Source[r]] /\ UNCHANGED fate
         ELSE fate' = "badIndex" /\ UNCHANGED rows
    /\ UNCHANGED <<doc, list, bar, page, opened>>

\* The row scrolls away and its cell is recycled.
ScrollAway(r) ==
    /\ OnTop
    /\ r \in DOMAIN rows
    /\ rows[r] # NoLabel
    /\ rows' = [rows EXCEPT ![r] = NoLabel]
    /\ UNCHANGED <<doc, list, bar, page, opened, fate>>

\* Mutant: the tap is looked up in images even in a search.
SelectInImages(r) ==
    /\ OnTop
    /\ r \in DOMAIN rows
    /\ rows[r] # NoLabel
    /\ IF r \in DOMAIN images
         THEN opened' = images[r] /\ page' = "detail" /\ UNCHANGED fate
         ELSE fate' = "badIndex" /\ UNCHANGED <<page, opened>>
    /\ UNCHANGED <<doc, list, bar, rows>>

\* didSelectItemAt: the row of a cell on screen is looked up again in the array.
\* In a search the array is filtered once more, by the text as it is now,
\* without a reload, before the detail screen is pushed.
DidSelect(r) ==
    /\ OnTop
    /\ r \in DOMAIN rows
    /\ rows[r] # NoLabel
    /\ IF r \in DOMAIN Source
         THEN /\ opened' = Source[r]
              /\ IF searchActive
                   THEN filtered' \in Filtered(images, text) /\ searched' = text
                   ELSE UNCHANGED <<filtered, searched>>
              /\ page' = "detail"
              /\ UNCHANGED fate
         ELSE /\ fate' = "badIndex"
              /\ UNCHANGED <<filtered, searched, page, opened>>
    /\ UNCHANGED <<doc, images, searchActive, bar, rows>>

\* The user goes back to this screen.  By then the search bar, out of the
\* window meanwhile, is no longer first responder.
Return ==
    /\ Alive
    /\ page = "detail"
    /\ ~editing
    /\ page' = "travel"
    /\ UNCHANGED <<doc, list, bar, rows, opened, fate>>

\* The user goes back from this screen.
Leave ==
    /\ OnTop
    /\ page' = "gone"
    /\ UNCHANGED <<doc, list, bar, rows, opened, fate>>

TravelNext ==
    \/ \E l \in Lists : PublishList(l)
    \/ \E v \in DOMAIN versions : Deliver(v)
    \/ DeliverMissing
    \/ DeliverError
    \/ BeginEditing
    \/ \E t \in Texts : Type(t)
    \/ EndEditing
    \/ CancelButton
    \/ SearchButton
    \/ \E r \in DOMAIN rows : \/ CellForItemAt(r)
                              \/ ScrollAway(r)
                              \/ DidSelect(r)
    \/ Return
    \/ Leave

\* Firestore brings a live listener up to the newest version.
TravelFairness == WF_travelVars(\E v \in DOMAIN versions : Deliver(v))

TravelSpec == TravelInit /\ [][TravelNext]_travelVars /\ TravelFairness

-----------------------------------------------------------------------------
TravelTypeOK ==
    /\ versions \in Seq(Lists)
    /\ delivered \in 0..Len(versions)
    /\ listening \in BOOLEAN
    /\ images \in Seq(Countries)
    /\ filtered \in Seq(Countries)
    /\ searchActive \in BOOLEAN
    /\ text \in Texts
    /\ searched \in Texts
    /\ editing \in BOOLEAN
    /\ rows \in [DOMAIN rows -> Countries \cup {NoLabel}]
    /\ DOMAIN rows \subseteq Nat
    /\ page \in {"travel", "detail", "gone"}
    /\ opened \in Countries \cup {NoLabel}
    /\ fate \in {"running", "noField", "badIndex"}

\* The rows on screen are the rows of the array the callbacks read: every
\* change of images, filtered or searchActive is followed by a reload, but for
\* the one of a tap in a search, which lasts until the search bar lets go.
RowsAgree ==
    ~(page = "detail" /\ searchActive) =>
        /\ DOMAIN rows = DOMAIN Source
        /\ \A r \in DOMAIN rows : rows[r] \in {NoLabel, Source[r]}

\* No cell and no tap reaches beyond the array while the list is on top: the
\* one window for the trap is between a tap in a search and the end of editing.
NoRowBeyond == fate = "badIndex" => page = "detail" /\ searchActive

\* filtered is never shown unless the keyboard is up; in particular a user who
\* comes back from the detail screen finds the whole list.
SearchOnlyWhileEditing == searchActive => editing

\* f is the first hits of a search of s for t: in the order of s, none passed over.
FirstHits(f, s, t) ==
    \E h \in [DOMAIN f -> Hits(s, t)] :
        /\ \A m, n \in DOMAIN h : m < n => h[m] < h[n]
        /\ \A m \in DOMAIN h : f[m] = s[h[m]]
        /\ \A m \in DOMAIN h, k \in Hits(s, t) : k < h[m] => \E n \in DOMAIN h : h[n] = k

\* filtered is a beginning of what a search for its text finds in the list now:
\* snapshots that came in since the search have only added to the end.
FilteredIsSearch == FirstHits(filtered, images, searched)

\* A country in the newest version comes to the list, unless the listener
\* ended, the app died, or a version without the country replaced that one.
CountryIsListed ==
    \A c \in Countries :
        (c \in ToSet(Last(versions))) ~>
            \/ c \in ToSet(images)
            \/ ~listening
            \/ ~Alive
            \/ c \notin ToSet(Last(versions))

List == INSTANCE ListScreen WITH Labels <- Countries

\* Rows change only by a reload or from and to blank, and a tap opens what
\* the tapped row shows.
ImplementsListScreen == List!Spec
=============================================================================
