------------------------------ MODULE TagSearch ------------------------------
(****************************************************************************)
(* SearchController: the search for pictures by tag.                        *)
(*                                                                          *)
(* Every search adds a snapshot listener that is never removed; each of its *)
(* calls appends the document's pictures to filtered, whatever was searched *)
(* or cancelled since.  A tap starts a download whose answer, whenever it   *)
(* comes, pushes a story onto the navigation stack, if the screen still is  *)
(* on one.                                                                  *)
(****************************************************************************)
EXTENDS Naturals, Sequences, FiniteSets, SequencesExt

CONSTANTS
    Tags,        \* texts that are the path of a collection
    BadTexts,    \* texts that are not: an even number of segments, as "a/b"
    Empty,       \* the empty text
    Pictures,    \* the strings of the documents' arrays "Picture"
    NoPicture,   \* the rcvimage of a story whose download is under way
    Contents,    \* Contents[t]: the versions of the array of tag t's document, in
                 \* the order they are written; <<>> if there is no document
    MaxSearches, \* bound: searches
    MaxTaps      \* bound: taps

ASSUME TagSearchAssumption ==
    /\ Contents \in [Tags -> Seq(Seq(Pictures))]
    /\ Empty \notin Tags \cup BadTexts
    /\ Tags \cap BadTexts = {}
    /\ NoPicture \notin Pictures
    /\ MaxSearches \in Nat
    /\ MaxTaps \in Nat

VARIABLES
    published, \* how many versions of each tag's document there are
    text,      \* the text in the search bar
    searches,  \* the listeners: the tag of each, the version it was called with
               \* last, the version it had when the list was cleared last, and
               \* whether it still listens
    filtered,  \* the pictures found
    rows,      \* the rows laid out: what filtered was at the last reload
    taps,      \* the closures of the taps: the row and what it showed, the story's
               \* rcvimage, and whether the download is under way
    stories,   \* the stories on the stack above this screen, as taps
    page,      \* "search": on the stack; "gone": popped, but kept alive by closures
    process    \* "running", or what killed the app

bar == <<published, text>>
list == <<filtered, rows>>
vars == <<bar, searches, list, taps, stories, page, process>>

Running == process = "running"

\* The screen is the one the user sees and touches.
OnTop == Running /\ page = "search" /\ stories = <<>>

Trap(cause) == process' = cause /\ UNCHANGED <<bar, searches, list, taps, stories, page>>

Init ==
    /\ published = [t \in Tags |-> IF Contents[t] = <<>> THEN 0 ELSE 1]
    /\ text = Empty
    /\ searches = <<>>
    /\ filtered = <<>>
    /\ rows = <<>>
    /\ taps = <<>>
    /\ stories = <<>>
    /\ page = "search"
    /\ process = "running"

-----------------------------------------------------------------------------
\* The user types; no callback of the screen listens.
Type(t) ==
    /\ OnTop
    /\ text' = t
    /\ UNCHANGED <<published, searches, list, taps, stories, page, process>>

\* A listener for the tag t more.  What was found before stays in the list.
Listen(t) ==
    /\ OnTop
    /\ Len(searches) < MaxSearches
    /\ searches' = Append(searches, [tag |-> t, told |-> 0, cleared |-> 0, live |-> TRUE])
    /\ UNCHANGED <<bar, list, taps, stories, page, process>>

\* searchBarSearchButtonClicked, whose key is enabled when there is text.
Search == text \in Tags /\ Listen(text)

\* The same with a text that is no collection's path: Firestore throws.
SearchBadText == OnTop /\ text \in BadTexts /\ Trap("badPath")

\* What a cancel does; laid is what the rows become.
ClearAnd(laid) ==
    /\ OnTop
    /\ filtered' = <<>>
    /\ text' = Empty
    /\ rows' = laid
    /\ searches' = [k \in DOMAIN searches |->
                       [searches[k] EXCEPT !.cleared = searches[k].told]]
    /\ UNCHANGED <<published, taps, stories, page, process>>

\* Mutant: no reload.
CancelNoReload == ClearAnd(rows)

\* searchBarCancelButtonClicked: the list is cleared, the listeners stay.
\* (cleared is history, for the properties; the code keeps nothing.)
Cancel == ClearAnd(<<>>)

-----------------------------------------------------------------------------
\* Someone edits the document of tag t.
Publish(t) ==
    /\ Running
    /\ published[t] \in 1 .. (Len(Contents[t]) - 1)
    /\ published' = [published EXCEPT ![t] = @ + 1]
    /\ UNCHANGED <<text, searches, list, taps, stories, page, process>>

\* The listener of search k is called with version v, and found is the list then.
Called(k, v, found) ==
    /\ Running
    /\ searches[k].live
    /\ v \in (searches[k].told + 1) .. published[searches[k].tag]
    /\ searches' = [searches EXCEPT ![k].told = v]
    /\ filtered' = found
    /\ rows' = filtered'
    /\ UNCHANGED <<bar, taps, stories, page, process>>

\* Mutant: the newest search replaces what was found.
NotifyReplaces(k, v) == Called(k, v, Contents[searches[k].tag][v])

\* Mutant: the array is appended for every search of the tag.
NotifyRepeats(k, v) ==
    Called(k, v, filtered \o FlattenSeq([n \in DOMAIN searches |->
        IF searches[n].tag = searches[k].tag THEN Contents[searches[k].tag][v] ELSE <<>>]))

\* Mutant: the document is read once (getDocument for addSnapshotListener).
NotifyOnce(k, v) ==
    searches[k].told = 0 /\ Called(k, v, filtered \o Contents[searches[k].tag][v])

\* The listener of search k is called with a version it has not seen, perhaps
\* an old one from the cache first, and appends its pictures.
Notify(k, v) == Called(k, v, filtered \o Contents[searches[k].tag][v])

\* There is no document, or no connection and nothing cached: the first
\* snapshot is of a document that does not exist, and as! traps.
NotifyMissing(k) ==
    Running /\ searches[k].live /\ searches[k].told = 0 /\ Trap("noField")

\* The listener is called with an error: it prints, returns, and is not called again.
NotifyError(k) ==
    /\ Running
    /\ searches[k].live
    /\ searches' = [searches EXCEPT ![k].live = FALSE]
    /\ UNCHANGED <<bar, list, taps, stories, page, process>>

-----------------------------------------------------------------------------
\* didSelectItemAt, up to the download: the row is looked up in filtered.
Tap(r) ==
    /\ OnTop
    /\ r \in DOMAIN rows
    /\ Len(taps) < MaxTaps
    /\ IF r \in DOMAIN filtered
         THEN /\ taps' = Append(taps, [row |-> r, shown |-> rows[r], url |-> filtered[r],
                                       rcvimage |-> NoPicture, busy |-> TRUE])
              /\ UNCHANGED <<bar, searches, list, stories, page, process>>
         ELSE Trap("badIndex")

\* The download of tap k ends with the picture p, and pushed is the stack then.
Answered(k, p, pushed) ==
    /\ Running
    /\ taps[k].busy
    /\ taps' = [taps EXCEPT ![k].rcvimage = p, ![k].busy = FALSE]
    /\ stories' = pushed
    /\ UNCHANGED <<bar, searches, list, page, process>>

\* Mutant: the closure looks the row up when the answer comes.
AnswerByRow(k) ==
    /\ taps[k].row \in DOMAIN filtered
    /\ Answered(k, filtered[taps[k].row],
                IF page = "gone" THEN stories ELSE Append(stories, k))

\* A download ends: the story gets the picture and is pushed, also above other
\* stories.  A screen that is gone has no navigation controller: nothing happens.
Answer(k) == Answered(k, taps[k].url, IF page = "gone" THEN stories ELSE Append(stories, k))

\* The download fails, and url! traps; or what came is no image, and the story,
\* pushed with nothing, unwraps rcvimage! in viewDidLoad.
AnswerError(k) == Running /\ taps[k].busy /\ Trap("noURL")
AnswerNoImage(k) == Running /\ taps[k].busy /\ page # "gone" /\ Trap("noImage")

\* The answer never comes, or comes to a screen that is gone and is no image.
AnswerLost(k) ==
    /\ Running
    /\ taps[k].busy
    /\ taps' = [taps EXCEPT ![k].busy = FALSE]
    /\ UNCHANGED <<bar, searches, list, stories, page, process>>

\* The user goes back, from a story or from this screen.
Back ==
    /\ Running
    /\ page = "search"
    /\ IF stories = <<>> THEN page' = "gone" /\ UNCHANGED stories
                         ELSE stories' = Front(stories) /\ UNCHANGED page
    /\ UNCHANGED <<bar, searches, list, taps, process>>

-----------------------------------------------------------------------------
Listener(k) == \/ \E v \in 1 .. published[searches[k].tag] : Notify(k, v)
               \/ NotifyMissing(k)
               \/ NotifyError(k)

Download(k) == Answer(k) \/ AnswerError(k) \/ AnswerNoImage(k) \/ AnswerLost(k)

Next ==
    \/ \E t \in Tags \cup BadTexts \cup {Empty} : Type(t)
    \/ Search
    \/ SearchBadText
    \/ Cancel
    \/ \E t \in Tags : Publish(t)
    \/ \E k \in DOMAIN searches : Listener(k)
    \/ \E r \in DOMAIN rows : Tap(r)
    \/ \E k \in DOMAIN taps : Download(k)
    \/ Back

\* Firestore calls each new listener, and brings each that still listens up to
\* date; an error is never owed.
Fairness ==
    \A k \in 1 .. MaxSearches :
        /\ WF_vars(k \in DOMAIN searches /\ searches[k].told = 0 /\ Listener(k))
        /\ WF_vars(/\ k \in DOMAIN searches
                   /\ \E v \in 1 .. published[searches[k].tag] : Notify(k, v))

Spec == Init /\ [][Next]_vars /\ Fairness

-----------------------------------------------------------------------------
Search_ == [tag : Tags, told : Nat, cleared : Nat, live : BOOLEAN]
Tap_ == [row : Nat, shown : Pictures, url : Pictures,
         rcvimage : Pictures \cup {NoPicture}, busy : BOOLEAN]

TypeOK ==
    /\ published \in [Tags -> Nat]
    /\ \A t \in Tags : published[t] <= Len(Contents[t])
    /\ text \in Tags \cup BadTexts \cup {Empty}
    /\ searches \in Seq(Search_)
    /\ \A k \in DOMAIN searches :
          /\ searches[k].cleared <= searches[k].told
          /\ searches[k].told <= published[searches[k].tag]
    /\ filtered \in Seq(Pictures)
    /\ rows \in Seq(Pictures)
    /\ taps \in Seq(Tap_)
    /\ stories \in Seq(DOMAIN taps)
    /\ page \in {"search", "gone"}
    /\ process \in {"running", "badPath", "noField", "badIndex", "noURL", "noImage"}

\* The rows laid out are the pictures found, whatever listeners called in
\* between, and so no tap and no cell reaches beyond the array.
RowsAgree == rows = filtered /\ process # "badIndex"

\* A story on the stack shows the picture of the row that was tapped for it,
\* though the list may have changed before the download ended.
StoryIsTapped ==
    \A n \in DOMAIN stories :
        /\ ~taps[stories[n]].busy
        /\ taps[stories[n]].rcvimage = taps[stories[n]].shown

\* No search takes pictures of another away: what a listener was told of after
\* the list was cleared last is in the list, whichever search came later.
FoundStays ==
    \A k \in DOMAIN searches :
        searches[k].told > searches[k].cleared =>
            ToSet(Contents[searches[k].tag][searches[k].told]) \subseteq ToSet(filtered)

Places(s, p) == {n \in DOMAIN s : s[n] = p}

\* Each search with each version it may have been told of since the list was
\* cleared, and where p is in those versions.
Tellings == UNION {{k} \X ((searches[k].cleared + 1) .. searches[k].told) : k \in DOMAIN searches}
ToldOf(p) == UNION {{d} \X Places(Contents[searches[d[1]].tag][d[2]], p) : d \in Tellings}

\* A picture is listed as often as searches were told of it since the list was
\* cleared, and not once more: a listener appends each version it is told of once.
NothingListedTwice ==
    \A p \in Pictures : Cardinality(Places(filtered, p)) <= Cardinality(ToldOf(p))

\* A screen that was left pushes nothing, though its downloads still end.
GoneIsQuiet == [][page = "gone" => stories' = stories]_vars

Listed(k) ==
    LET t == searches[k].tag
    IN  /\ k \in DOMAIN searches
        /\ \/ ~searches[k].live
           \/ published[t] > 0 /\ searches[k].cleared = published[t]
           \/ /\ published[t] > 0
              /\ searches[k].told = published[t]
              /\ ToSet(Contents[t][published[t]]) \subseteq ToSet(filtered)

\* A search comes to list the newest version of its document, unless its
\* listener was told an error, the list was cleared after that version came,
\* or the app died.
SearchIsListed ==
    \A k \in 1 .. MaxSearches :
        (k \in DOMAIN searches) ~> (~Running \/ Listed(k))
=============================================================================
