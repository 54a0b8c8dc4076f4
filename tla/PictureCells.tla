----------------------------- MODULE PictureCells -----------------------------
(****************************************************************************)
(* How the rows of the lists get their pictures.  cellForItemAt dequeues a  *)
(* cell, writes its label at once and starts an asynchronous chain whose    *)
(* end writes the picture, or nil if what came is none, into the cell the   *)
(* closure captured, whatever the cell shows by then.                       *)
(*                                                                          *)
(* Main, Travel and Detail screens (watched): a snapshot listener per       *)
(* dequeue reads the URL in the row's document, and each of its calls       *)
(* starts a download.  Gallery, Search and Story screens: one download per  *)
(* dequeue.  No listener is ever removed, no download ever cancelled, and   *)
(* a recycled cell keeps its picture until another is written into it.      *)
(****************************************************************************)
EXTENDS Naturals, Sequences

CONSTANTS
    Rows,         \* the rows of the list
    Cells,        \* the cell objects; they are reused
    NoRow,        \* the "row" of a cell in the reuse queue
    NoPicture,    \* nil, the picture of an empty image view
    MaxVersions,  \* bound: the versions of the picture of one row
    MaxDequeues   \* bound: the calls of cellForItemAt, for watched rows and others

ASSUME CellsAssumption ==
    /\ NoRow \notin Rows
    /\ NoPicture \notin Rows
    /\ MaxVersions \in Nat \ {0}
    /\ MaxDequeues \in [BOOLEAN -> Nat]

VARIABLES
    watched,   \* which screen: Main, Travel, Detail, or Gallery, Search, Story
    version,   \* the newest version of each row's picture
    shownAt,   \* the row each cell stands at, or NoRow
    label,     \* the row whose label each cell shows, or NoRow
    picture,   \* the row whose picture each cell shows, or NoPicture
    blanked,   \* history: the cells into which nil was written last, since they
               \* were dequeued last
    chains,    \* one record for each dequeue: the closure's cell and row, the
               \* version it was told of last, whether its listener is registered
               \* and, as history, whether the download of that version was lost
    downloads, \* the downloads under way, as <<chain, version>>
    app        \* "running", or what killed the app

cells == <<shownAt, label, picture, blanked>>
cellsVars == <<watched, version, cells, chains, downloads, app>>

AppRuns == app = "running"

CellsInit ==
    /\ watched \in BOOLEAN
    /\ version = [r \in Rows |-> 1]
    /\ shownAt = [c \in Cells |-> NoRow]
    /\ label = [c \in Cells |-> NoRow]
    /\ picture = [c \in Cells |-> NoPicture]
    /\ blanked = {}
    /\ chains = <<>>
    /\ downloads = {}
    /\ app = "running"

-----------------------------------------------------------------------------
\* Mutant: a download is not started while one for the same row is under way.
CellForItemDeduped(r, c) ==
    /\ AppRuns
    /\ Len(chains) < MaxDequeues[watched]
    /\ \A d \in Cells : shownAt[d] # r
    /\ shownAt[c] = NoRow
    /\ shownAt' = [shownAt EXCEPT ![c] = r]
    /\ label' = [label EXCEPT ![c] = r]
    /\ blanked' = blanked \ {c}
    /\ chains' = Append(chains, [cell |-> c, row |-> r, live |-> watched, lost |-> FALSE,
                                 told |-> IF watched THEN 0 ELSE version[r]])
    /\ downloads' = IF watched \/ \E d \in downloads : chains[d[1]].row = r
                      THEN downloads
                      ELSE downloads \cup {<<Len(chains) + 1, version[r]>>}
    /\ UNCHANGED <<watched, version, picture, app>>

\* cellForItemAt: row r gets a cell, new or recycled.  A watched row's listener
\* is yet to be called; otherwise the download starts here.
CellForItem(r, c) ==
    /\ AppRuns
    /\ Len(chains) < MaxDequeues[watched]
    /\ \A d \in Cells : shownAt[d] # r
    /\ shownAt[c] = NoRow
    /\ shownAt' = [shownAt EXCEPT ![c] = r]
    /\ label' = [label EXCEPT ![c] = r]
    /\ blanked' = blanked \ {c}
    /\ chains' = Append(chains, [cell |-> c, row |-> r, live |-> watched, lost |-> FALSE,
                                 told |-> IF watched THEN 0 ELSE version[r]])
    /\ downloads' = IF watched THEN downloads
                               ELSE downloads \cup {<<Len(chains) + 1, version[r]>>}
    /\ UNCHANGED <<watched, version, picture, app>>

\* The row scrolls away or the list is reloaded: the cell may be dequeued again.
Recycle(c) ==
    /\ AppRuns
    /\ shownAt[c] # NoRow
    /\ shownAt' = [shownAt EXCEPT ![c] = NoRow]
    /\ UNCHANGED <<watched, version, label, picture, blanked, chains, downloads, app>>

\* Someone gives the row's document another picture.
Publish(r) ==
    /\ AppRuns
    /\ version[r] < MaxVersions
    /\ version' = [version EXCEPT ![r] = @ + 1]
    /\ UNCHANGED <<watched, cells, chains, downloads, app>>

-----------------------------------------------------------------------------
\* The listener of dequeue k is called with a version of its document newer than
\* the last, at first perhaps an old one from the cache, and starts a download.
Notify(k, v) ==
    /\ AppRuns
    /\ chains[k].live
    /\ v \in (chains[k].told + 1) .. version[chains[k].row]
    /\ chains' = [chains EXCEPT ![k].told = v, ![k].lost = FALSE]
    /\ downloads' = downloads \cup {<<k, v>>}
    /\ UNCHANGED <<watched, version, cells, app>>

\* The listener is called with an error: it returns, and is not called again.
NotifyError(k) ==
    /\ AppRuns
    /\ chains[k].live
    /\ chains' = [chains EXCEPT ![k].live = FALSE]
    /\ UNCHANGED <<watched, version, cells, downloads, app>>

\* Offline with nothing cached, the first snapshot is of a document that does
\* not exist: as! traps.
NotifyMissing(k) ==
    /\ AppRuns
    /\ chains[k].live
    /\ chains[k].told = 0
    /\ app' = "noField"
    /\ UNCHANGED <<watched, version, cells, chains, downloads>>

\* Download d ends, and its callback writes the picture p into cell c.
Write(d, c, p) ==
    /\ AppRuns
    /\ picture' = [picture EXCEPT ![c] = p]
    /\ blanked' = IF p = NoPicture THEN blanked \cup {c} ELSE blanked \ {c}
    /\ downloads' = downloads \ {d}
    /\ UNCHANGED <<watched, version, shownAt, label, chains, app>>

\* Mutant: the callback writes into the cell dequeued last, not the one it captured.
FinishIntoLastCell(d) == Write(d, chains[Len(chains)].cell, chains[d[1]].row)

\* A download ends with an image, which goes to the cell the closure captured.
Finish(d) == Write(d, chains[d[1]].cell, chains[d[1]].row)

\* What came is no image: UIImage(data:) is nil, and nil is written all the same.
FinishNoImage(d) == Write(d, chains[d[1]].cell, NoPicture)

\* A download fails: url is nil, or nothing is found there, and the callback
\* unwraps it all the same.
Fail(d) ==
    /\ AppRuns
    /\ app' = "noURL"
    /\ UNCHANGED <<watched, version, cells, chains, downloads>>

\* The download task is gone before its answer: there is no callback.  The
\* listener that started it stays, and its next call starts another.
Lose(d) ==
    /\ AppRuns
    /\ downloads' = downloads \ {d}
    /\ chains' = [chains EXCEPT ![d[1]].lost = (@ \/ d[2] = chains[d[1]].told)]
    /\ UNCHANGED <<watched, version, cells, app>>

Chain(k) == \/ \E v \in 1 .. version[chains[k].row] : Notify(k, v)
            \/ NotifyError(k)
            \/ NotifyMissing(k)
Download(d) == Finish(d) \/ FinishNoImage(d) \/ Fail(d) \/ Lose(d)

CellsNext ==
    \/ \E r \in Rows, c \in Cells : CellForItem(r, c)
    \/ \E c \in Cells : Recycle(c)
    \/ \E r \in Rows : Publish(r)
    \/ \E k \in DOMAIN chains : Chain(k)
    \/ \E d \in downloads : Download(d)

Lags(k) == k \in DOMAIN chains /\ chains[k].told < version[chains[k].row]

\* Firestore calls a listener that lags behind, and owes no call to one that
\* does not; a download ends one way or another.
CellsFairness ==
    /\ \A k \in 1..MaxDequeues[TRUE] : WF_cellsVars(Lags(k) /\ Chain(k))
    /\ WF_cellsVars(\E d \in downloads : Download(d))

CellsSpec == CellsInit /\ [][CellsNext]_cellsVars /\ CellsFairness

-----------------------------------------------------------------------------
CellsTypeOK ==
    /\ watched \in BOOLEAN
    /\ version \in [Rows -> 1..MaxVersions]
    /\ shownAt \in [Cells -> Rows \cup {NoRow}]
    /\ label \in [Cells -> Rows \cup {NoRow}]
    /\ picture \in [Cells -> Rows \cup {NoPicture}]
    /\ blanked \subseteq Cells
    /\ chains \in Seq([cell : Cells, row : Rows, told : 0..MaxVersions,
                       live : BOOLEAN, lost : BOOLEAN])
    /\ downloads \subseteq (DOMAIN chains) \X (1..MaxVersions)
    /\ app \in {"running", "noField", "noURL"}

\* The chains that will write, or have written, into a cell.
ChainsOf(c) == {k \in DOMAIN chains : chains[k].cell = c}

\* What is written later may be wrong, but only because the cell was reused: a
\* cell shows the picture of a row it was once dequeued for.  A cell that only
\* ever stood at one row shows no other row's picture.
PictureFromOwnPast ==
    \A c \in Cells : picture[c] # NoPicture =>
        \E k \in ChainsOf(c) : chains[k].row = picture[c] /\ chains[k].told > 0

\* The dequeue k is the last one of the cell c, and nothing will come of it: its
\* listener ended before it was told of a version, or the download of the
\* version it was told of last was lost.
ComesToNothing(k, c) ==
    /\ k \in ChainsOf(c)
    /\ \A j \in ChainsOf(c) : j <= k
    /\ \/ chains[k].told = 0 /\ ~chains[k].live
       \/ chains[k].lost

\* A row on screen gets a picture, unless it scrolls away first, what came last
\* for its cell was no image, its own listener ended without a word or its
\* newest download was lost, or the app dies.
RowGetsPicture ==
    \A c \in Cells :
        (shownAt[c] # NoRow) ~>
            \/ picture[c] # NoPicture
            \/ shownAt[c] = NoRow
            \/ ~AppRuns
            \/ c \in blanked
            \/ \E k \in DOMAIN chains : ComesToNothing(k, c)
=============================================================================
