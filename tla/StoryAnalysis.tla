---------------------------- MODULE StoryAnalysis ----------------------------
(****************************************************************************)
(* StoryController: a picture is classified and searched for objects when   *)
(* the screen loads; the class picks a document whose pictures are listed   *)
(* below, and the user may choose one of them instead.                      *)
(*                                                                          *)
(* All of viewDidLoad is one step on the main thread.  Showing the objects  *)
(* is posted to the same thread and comes before any tap; snapshots and     *)
(* downloads come when they come.                                           *)
(****************************************************************************)
EXTENDS Naturals, Sequences, FiniteSets, SequencesExt

CONSTANTS
    Pictures,
    NoPicture,        \* UIImage? nil
    Classes,          \* the classes ImageClassifier knows
    Known,            \* those the switch of predict() knows
    Empty,            \* the empty text
    NoClass,          \* there was no buffer for the picture, or the model threw
    Contents,         \* Contents[c]: the versions of the array "Picture" of c's document
    labels,           \* the names of the detector's classes
    MaxBoundingBoxes, \* YOLO.maxBoundingBoxes
    MaxTaps           \* bound: pictures chosen

ASSUME StoryAssumption ==
    /\ NoPicture \notin Pictures
    /\ Known \subseteq Classes
    /\ NoClass \notin Classes
    /\ Empty \notin Classes \cup {NoClass}
    /\ Contents \in [Known -> Seq(Seq(Pictures))]
    /\ labels \in Seq(STRING)
    /\ MaxBoundingBoxes \in Nat \ {0}
    /\ MaxTaps \in Nat

VARIABLES
    rcvimage, \* the picture handed over
    class,    \* the document listened to; NoClass if none
    told,     \* the version the listener was called with last
    live,     \* the listener listens
    images,   \* the pictures listed; every change is followed by a reload
    posted,   \* the predictions show() was posted with, in a set; {} before and after
    objects,  \* history: the predictions show() was called with
    tag,      \* the line of tags, as the labels it names
    picture,  \* what Main_Images shows
    taps,     \* the downloads of the pictures chosen: each url, and how it ended
    process   \* "new", "running", or what killed the app

listing == <<class, told, live, images>>
detection == <<posted, objects, tag>>
storyVars == <<rcvimage, listing, detection, picture, taps, process>>

Running == process = "running"

Trap(cause) == process' = cause /\ UNCHANGED <<rcvimage, listing, detection, picture, taps>>

\* What computeBoundingBoxes returns: class indices, no more than its limit.
Predictions == UNION {[1 .. n -> DOMAIN labels] : n \in 0 .. MaxBoundingBoxes}

StoryInit ==
    /\ rcvimage \in Pictures \cup {NoPicture}
    /\ class = NoClass
    /\ told = 0
    /\ live = FALSE
    /\ images = <<>>
    /\ posted = {}
    /\ objects = <<>>
    /\ tag = <<>>
    /\ picture = NoPicture
    /\ taps = <<>>
    /\ process = "new"

-----------------------------------------------------------------------------
\* Mutant: one too few.
FewerBoxes == 1 .. (MaxBoundingBoxes - 1)

\* setUpBoundingBoxes.  The boxes are hidden from the start, and show() only
\* hides them again, so they matter as the bound of its loop.
Boxes == 1 .. MaxBoundingBoxes

\* ttag: what the switch makes of a class.
Ttag(c) == IF c \in Known \cup {NoClass} THEN c ELSE Empty

\* viewDidLoad with a picture of class c, or none, and the predictions in seen,
\* or none (no buffer, or no resized buffer to draw into).  The empty text
\* is no collection's path, and Firestore throws; without a picture rcvimage! traps.
ViewDidLoad(c, seen) ==
    /\ process = "new"
    /\ IF rcvimage = NoPicture THEN Trap("noImage")
       ELSE IF Ttag(c) = Empty THEN Trap("badPath")
       ELSE /\ class' = Ttag(c)
            /\ live' = (class' # NoClass)
            /\ posted' = seen
            /\ picture' = rcvimage
            /\ process' = "running"
            /\ UNCHANGED <<rcvimage, told, images, objects, tag, taps>>

\* tag = tag + "#" + t + " " for each t of labelArray, the Set of the labels of
\* the predictions there is a box for: each label once, in any order.
TagLines(seen) == SetToSeqs({labels[seen[b]] : b \in DOMAIN seen \cap Boxes})

\* show(predictions:), from the main queue.
Show(seen) ==
    /\ Running
    /\ seen \in posted
    /\ posted' = {}
    /\ objects' = seen
    /\ tag' \in TagLines(seen)
    /\ UNCHANGED <<rcvimage, listing, picture, taps, process>>

-----------------------------------------------------------------------------

\* The listener is called with a version it has not seen, and appends.
Deliver(v) ==
    /\ Running
    /\ live
    /\ told < v
    /\ told' = v
    /\ images' = images \o Contents[class][v]
    /\ UNCHANGED <<rcvimage, class, live, detection, picture, taps, process>>

\* There is no document, or none cached and no connection: as! traps.
DeliverMissing == Running /\ live /\ told = 0 /\ Trap("noField")

\* The listener is called with an error, returns, and is not called again.
DeliverError ==
    /\ Running
    /\ live
    /\ live' = FALSE
    /\ UNCHANGED <<rcvimage, class, told, images, detection, picture, taps, process>>

\* didSelectItemAt, up to the download.
Choose(r) ==
    /\ Running
    /\ posted = {}
    /\ r \in DOMAIN images
    /\ Len(taps) < MaxTaps
    /\ taps' = Append(taps, [url |-> images[r], end |-> "open"])
    /\ UNCHANGED <<rcvimage, listing, detection, picture, process>>

\* A download ends, and p is shown.
Answered(k, how, p) ==
    /\ Running
    /\ taps[k].end = "open"
    /\ taps' = [taps EXCEPT ![k].end = how]
    /\ picture' = p
    /\ UNCHANGED <<rcvimage, listing, detection, process>>

\* Mutant: the closure shows what was chosen last.
AnswerLastChosen(k) == Answered(k, "shown", taps[Len(taps)].url)

\* The download of choice k ends: its picture is shown, whatever was chosen since.
Answer(k) == Answered(k, "shown", taps[k].url)

\* What came is no image: nothing is shown.
AnswerNoImage(k) == Answered(k, "noImage", NoPicture)

\* The answer never comes.
AnswerLost(k) == Answered(k, "lost", picture)

\* The download fails: url! traps.
AnswerError(k) == Running /\ taps[k].end = "open" /\ Trap("noURL")

Download(k) == Answer(k) \/ AnswerNoImage(k) \/ AnswerLost(k) \/ AnswerError(k)

StoryNext ==
    \/ \E c \in Classes \cup {NoClass}, seen \in {{}} \cup {{s} : s \in Predictions} :
          ViewDidLoad(c, seen)
    \/ \E seen \in posted : Show(seen)
    \/ class # NoClass /\ \E v \in DOMAIN Contents[class] : Deliver(v)
    \/ DeliverMissing
    \/ DeliverError
    \/ \E r \in DOMAIN images : Choose(r)
    \/ \E k \in DOMAIN taps : Download(k)

StorySpec == StoryInit /\ [][StoryNext]_storyVars

-----------------------------------------------------------------------------
StoryTypeOK ==
    /\ rcvimage \in Pictures \cup {NoPicture}
    /\ class \in Known \cup {NoClass}
    /\ told \in Nat
    /\ class # NoClass => told <= Len(Contents[class])
    /\ live \in BOOLEAN
    /\ images \in Seq(Pictures)
    /\ posted \subseteq Predictions
    /\ objects \in Predictions
    /\ tag \in Seq(Range(labels))
    /\ picture \in Pictures \cup {NoPicture}
    /\ taps \in Seq([url : Pictures, end : {"open", "shown", "noImage", "lost"}])
    /\ process \in {"new", "running", "noImage", "badPath", "noField", "noURL"}

\* The line of tags names every object found, and each kind once: the detector
\* never finds more than there are boxes.
TagsAreObjects ==
    /\ IsInjective(tag)
    /\ Range(tag) = {labels[c] : c \in Range(objects)}

\* The picture shown is one the user chose and whose download has ended, and the
\* one handed over only as long as there is none.
PictureIsChosen ==
    LET ended == {k \in DOMAIN taps : taps[k].end \in {"shown", "noImage"}}
    IN  process # "new" /\ process # "badPath" =>
            IF ended = {} THEN picture = rcvimage
            ELSE \E k \in ended :
                    picture = (IF taps[k].end = "shown" THEN taps[k].url ELSE NoPicture)
=============================================================================
