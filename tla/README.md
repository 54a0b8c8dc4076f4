# Verification of Youroute

Youroute is an iOS app for travellers: it lists countries and travel days kept
in Firestore, shows pictures kept in Firebase Storage, searches pictures by
tag, and analyses a picture with two Core ML models. The app is the Swift code
in `src/Gallery/Gallery` (about 2000 lines). The repository also carries the
source of the libraries the app is built with, under `src/Gallery/Pods`; of these
the part of the Firestore client that stands between the server and the app's
listeners is modelled too, because what every screen relies on - in which order
listeners are called, with what, and what happens offline - is decided there.
The app has no tests and no design documents, so every definition here is
translated from the code.

## The system

All callbacks of the app run on the main thread, one at a time. What makes the
code hard is not parallelism but order: UIKit, Firestore and Storage call it
back in orders the code does not control, and every screen keeps arrays that
those callbacks change.

| Component | State | Operations | Hard part |
|---|---|---|---|
| Login screen (`ViewController`) | two text fields, an alert | sign in, offer an account, create it | overlapping sign-ins; answers after the screen has moved on |
| Main screen (`MainController`) | `images`, a switch, a location | snapshots, cells, taps, the trip switch with its alerts, buttons to Travel and Gallery | cells written late; the switch shown against the answers given |
| Travel screen (`TravelController`) | `images`, `filtered`, `searchActive`, the search bar | snapshots, five search bar callbacks, cells, taps | row numbers outliving the arrays they index |
| Detail screen (`DetailController`) | `images`, `rcvlabel` | snapshots, cells, taps | cells written late |
| Tag search screen (`SearchController`) | `filtered`, the search bar | search, cancel, cells, taps | listeners of earlier searches that still answer; stories pushed late |
| Gallery screen (`GalleryController`) | `images` | `listAll`, cells, taps, two ways to the tag search | partial listings; a picture that is not in the bundle |
| Story screen (`StoryController`) | picture, `images`, `labelArray`, ten bounding boxes | classify, detect, show, choose a picture | choices answered out of order; index ranges that must agree |
| Detector (`YOLO`, `Helpers`) | none | decode three feature maps, suppress overlapping boxes | limits, thresholds, offsets |
| Map screen (`MapController`) | annotations, overlays, region | four direction requests | answers in any order |
| Pixel buffers (two extensions) | a locked buffer, allocated bytes | create, draw, resize | early returns between lock and unlock |
| Camera (`VideoCapture`) | a capture session | set up, start, stop | not used by any screen |
| gRPC stream (`grpc_stream.cc`, `grpc_completion.cc`) | operations gRPC holds, callbacks on the worker queue, a write buffer | start, read, write, the three ways to end | two threads; a blocking wait for operations of the other thread |
| Watch connection (`stream.cc`, `remote_store.cc`, `online_state_tracker.cc`) | stream state, close count, token requests, three timers, online state | listen, stop, answers, timers, messages, closes, network and user changes | late answers and timers; retries; never giving up while needed |
| Document listeners (`remote_event.cc`, `remote_store.cc`, `local_store.cc`, `sync_engine.cc`, `view.cc`, `query_listener.cc`) | the aggregator's target states, the cache on disk, the view, its limbo document | requests, watch changes, snapshots, events to the app | lost and crossing messages, restarts, lagging servers, offline |

The Firestore client runs on one worker queue of its own, next to a thread that
takes finished operations off gRPC's completion queue; its listeners are called on
the main thread. The screens are connected by the navigation controller (each pushes the next
and hands it a value: `rcvlabel`, `rcvimage`) and by nothing else; they share
the Firestore and Storage clients. A screen that is popped stays alive, because
its listeners capture it and are never removed.

## The modules

### `NonMaxSuppression`, `GreedySelection` - which boxes the detector keeps

`NonMaxSuppression` is the function `nonMaxSuppression` of `Helpers.swift`, one
action per turn of its two loops, with `IOU` over integer rectangles and the
threshold as a fraction. `i`, `j`, `active`, `numActive` and `selected` are the
code's variables (from 1, not 0), and `pc` says which loop is at its head.
Swift does not promise a stable sort, so `SortedIndices` allows boxes of equal
score in any order. `GreedySelection` is what the function promises: take the
best remaining box, drop what overlaps it, until none remains or the limit is
reached. The refinement mapping computes the remaining boxes from the flags;
while the inner loop runs, a box it has not reached yet counts as dropped if it
overlaps the box just selected.

Run `nms` explores every array of up to four boxes built from six rectangles
and two scores, with limit 2 and threshold 4/10. Four boxes are enough for a
chain of overlaps with a box outside it; the rectangles include one that shares
exactly 4/10 with another and one without area; limit 2 is reached by some
arrays and not by others. The properties: no two selected boxes overlap
(`ResultIsIndependent`), what is dropped is covered by something better
(`ResultCovers`), the limit cuts off the weakest (`ResultIsBest`), and the function
does what the greedy rule does, to the end (`ImplementsGreedy`, with fairness).
That `numActive` is exact and its early exit dead code (`NumActiveCounts`) is
proved: `break outer` on line 40 is never taken, as the selected box keeps its own
flag and the count never reaches zero.

### `TravelScreen`, `ListScreen` - the list of countries and its search bar

`TravelScreen` has one action per callback of `TravelController`. `rows` is what
UIKit has laid out: `reloadData` counts the rows anew and blanks them, and
`cellForItemAt` later labels them one by one, from the array that counts at that
time. A reload takes effect with the end of the callback that asked for it,
because the layout pass comes after it on the same thread; so `Reload` reads the
values the callback leaves behind. `Type` does nothing but change the text, as
`textDidChange` is empty. `DidSelect` is the whole handler, including the second
filtering by the text as it is then, which no reload follows.

What UIKit and Firestore do is modelled from how the code uses them: a listener
is called with versions of the document in order, perhaps an old one from the
cache first, and may skip some (`Deliver`); offline with nothing cached the first
snapshot is of a document that does not exist and the forced cast traps
(`DeliverMissing`); after an error there are no more calls (`DeliverError`). That
this is all Firestore may do is what `DocumentListener` below says and
`DocumentWatch` is shown to keep: `Version`, `Missing` and `Failed` there are these
three actions here, and in `TagSearch`, `StoryAnalysis` and `PictureCells`. The
search bar gives up first responder at the latest when its view leaves the
window, so a screen is never back on top while editing (`Return`); the search
key needs text. The Cancel button is taken to work at any time. Two callbacks
cannot be called and are left out: `updateSearchResults` (its search controller
is never installed) and `searchBarBookmarkButtonClicked` (no such button).

`ListScreen` is the promise: rows change only by a reload or from and to blank,
and a tap opens what the tapped row shows. Run `travel` uses three countries,
two versions of the document, and the texts "ko" (two hits) and "kor" (one of
them), so that typing on after a search narrows the result. It checks:

- `RowsAgree`: the rows laid out are those of the array the callbacks read,
  except between a tap in a search and the end of editing.
- `FilteredIsSearch`: `filtered` is a beginning of what a search for its text finds in
  the list now, in the order of the list and with no hit passed over, though snapshots
  lengthened the list since.
- `CountryIsListed`: the newest version gets listed. (Old rows are never removed:
  after a change of the document the countries it kept are listed twice.)
- `ImplementsListScreen`: the refinement.

Proved, and not run, are `SearchOnlyWhileEditing` (results are shown only while the
keyboard is up) and `NoRowBeyond` (in the window named by `RowsAgree` alone an index
can be beyond the array). The window is real: search "ko", type on to "kor", tap;
the array is now shorter than the list, and a cell prefetched before the search bar
lets go traps. TLC shows this behaviour when asked for `fate # "badIndex"`;
nothing in the repository promises the contrary, so it is described here and not
counted as a finding. `RowsAgree` and `NoRowBeyond` say that this window is the only one;
no property says anything of what happens in it.

Fairness: only that Firestore brings a live listener up to date (`Deliver`).
Nothing is assumed of the user.

### `PictureCells` - how rows get their pictures

One model for the six list screens, since they share one pattern: dequeue a cell,
write its label, start a chain that ends in a write to the captured cell.
`watched`, chosen at the start, tells the chain of Main, Travel and Detail (a
listener, and a download for each of its calls) from that of Gallery, Search and
Story (one download). A chain record stands for the closure: which cell it captured, for
which row, of which version it was told, and whether its listener is registered. Nothing
is ever removed or cancelled. A listener is called with any version newer than the last,
so perhaps with an old one from the cache first. A download ends in one of four ways:
with an image (`Finish`), with bytes that are none, for which nil is written
(`FinishNoImage`), with a trap where the callback unwraps nil (`Fail`), or without a
callback (`Lose`), after which the listener that started it is still called.
`blanked` and a chain's `lost` are history: the cells that nil was written into last, and
whether the download of the version told last was lost. No guard reads them.

Run `cells` makes two dequeues of watched rows, whose documents change once, and
three of others, with two cells and two rows: enough for a cell that
is reused for the other row while its first chain is under way, and for two
downloads of one chain that end in either order. It shows that a wrong picture
needs a reused cell (`PictureFromOwnPast`), and that a row gets a picture unless what came
last for its cell was no image, or nothing can come: its own listener ended before it was
told of a version, or its newest download was lost (`RowGetsPicture`). A row that lost a
download gets its picture with the next version; a late answer without an image blanks
a row that had its picture, also from the chain of a row the cell had before. TLC finds
the property violated as soon as either exception is left out. It does not show that a reused cell ends with the right
picture: it need not, since the old chain may end last, and an old listener writes
again whenever its document changes. Nor does it show that the newest version wins
over an older one.

Fairness: a listener that lags behind is called, or ends with an error, and a
download ends in one of the four ways, silently because Storage holds its task weakly.

### `TagSearch` - searches that never stop listening

One action per callback of `SearchController`. `searches` are the listeners: one
more for each search, none ever removed, each appending the array of its document
to `filtered` whenever it is called, whatever was searched or cancelled since. A
record says which version it was told last and, as history for the properties,
which one it had been told when the list was cleared last. `taps` are the closures
of the downloads a tap starts; `stories` is the stack above the screen. Of a text
it matters whether it is a tag with a document, a tag without, or no collection's
path (`SearchBadText`: Firestore throws).

Run `tags` makes two searches, of a tag whose document changes, one that shares a
picture with it and one without a document, and lets two taps answer in any order.
Two searches are enough for an older listener that answers into the results of a
later search or after a cancel, and for one tag searched twice. It shows that rows
and array agree after every callback (`RowsAgree`), that no search takes away what
another found (`FoundStays`), that nothing is listed more often than listeners were
told of it since the last cancel (`NothingListedTwice`), that a search comes to list
the newest version (`SearchIsListed`) and that a story shows the picture of the row
tapped, though the list may be another by then (`StoryIsTapped`). That a screen that
was left pushes nothing (`GoneIsQuiet`) is proved. What the code does *not* do is clear: results of several searches
pile up until a cancel, a search of the same tag lists its pictures again, and
after a cancel an old listener may bring its pictures back when its document
changes.

Fairness: Firestore answers a new listener and brings a live one up to date.

### `StoryAnalysis` - one picture analysed

`ViewDidLoad` is all of `viewDidLoad` with the two predictions it calls: they run
on the main thread in one piece. `c` is the class the classifier gives (or none:
no buffer, or the model threw), `seen` what the detector returns. `Ttag` is the
switch over three names. The classifier knows ten sights, so for seven of them the
default branch leaves the empty text, which is no collection's path, and Firestore
throws; the model has this as the trap `badPath`. No text in the repository says
what should happen, so it is not counted as a finding. `Show` is posted to the main
queue; the ten bounding boxes are made hidden and stay so, and matter only as
the bound of its loop. `Boxes` and the detector's limit are the same constant in
the code, which is what `TagsAreObjects` depends on.

Run `story`: all classes, up to two objects of three labels, two pictures chosen.
`PictureIsChosen` says that the picture shown is one chosen and answered, not that
it is the one chosen last: answers in the other order leave the older choice. A
download that is no image leaves an empty view.

### `LoginFlow` - sign-ins that overlap

`requests` are the calls to Firebase: what with which credentials, what the server
made of it and how the completion was called; the two are separate, since an
answer may be lost after an account was created. The Continue button is never
disabled, so requests overlap. An alert is shown only where UIKit can present it;
elsewhere it is dropped (`SignInFailed`). `createUser` succeeding signs the user
in and moves nowhere (`Created`); the user has to press Continue again.

Run `login`: two emails, one with an account, two passwords, three requests. Three
are enough for two sign-ins that race and an account created in between.
Properties: who sees a main screen is signed in, with a password that is the
account's (`UserHasProof`); an account is only created with credentials that a
sign-in failed with before, however the fields changed meanwhile
(`AccountsWereOffered`); a tap leads to a main screen or an alert
(`TapIsAnswered`). Two taps may stack two main screens.
Fairness: Firebase calls every completion, if only to report that it gave up. Nothing is assumed of the user or the server.

### `AppNavigation` - the screens together

The navigation stack: who pushes whom, by a touch or late by an answer, and the
trip switch of the main screen. It composes the hand-overs of the other modules
in abstract form: `Continue`, `SignedIn`, `SignInFailed` are those of `LoginFlow`,
`SelectFound` and `Answer` those of `TagSearch`. `screens` are all screens ever
made, each with the one that pushed it; `alert` is the main screen whose question
is shown. A `UISwitch` is set back at once by the handler, so `Toggle` leaves it as it
was; only the OK moves it.

Run `navigation`: eight screens, two sign-ins, two late downloads. Eight is the
longest way through the app (Login, Main, Travel, Detail, Map, Gallery, Search,
Story); the shorter ways leave room for a second main screen and for two stories
pushed late, each above whatever is on top. `OpenerBelow`: a screen
stands above the one that pushed it, even when pushed late.
`SwitchAwaitsAnswer`: a switch moves only by the OK to its own screen's question, even if a late sign-in puts another main screen on top.

### `YoloGrid` - where the detector reads

The four loops of `computeBoundingBoxes`, one step per box, reading arrays laid out
channel by channel and row by row through `offset`. The features are given by what
they say (`hot`), and `Element` undoes the layout. Raw values are 0 or 1, far apart:
a single class above the others passes the threshold; two classes that share the
softmax pass neither. Run `yolo` takes two grids (2 and 3 cells wide), two boxes
per cell, two classes, and every pair of detections. Two sizes suffice for a
stride or bound taken from the wrong grid, two boxes and classes for channels that
overlap. It shows that each element of each array is read once, and none outside
(`ReadsEachOnce`), and that each detection is returned at its
cell, box and class (`FindsWhatIsThere`). A swap of rows and columns is in range
on square grids, which is why the last one is needed. That Core ML's strides are
those of a dense array is assumed; the code takes them from the array. The code's `i` is
`grid` here, and the operators of the specification are named `GridInit` to `GridSpec`, so
that both parts of the detector can be extended by one module of proofs.

### `WatchConnection`, `OnlineLink` - the connection all listeners share

Every snapshot listener of the app goes through one stream. `WatchConnection` is
that stream's life: the state machine of `stream.cc`, the part of `RemoteStore` that
starts, stops and restarts it, and the `OnlineStateTracker` that tells the views what
to think. All of it runs on the worker queue, so an action is one operation of that
queue with every call it makes; the functions of the code are operators with the
code's names, from the record `conn` before the call to the one after it. `tokens`
are the requests for a credential under way, each with the close count it was made
at (`AnswerToken` compares it, as the lambda in `RequestCredentials` does). A failed
`HARD_ASSERT` sets `asserted`. `RemovesListeners` and `SwitchesNetwork` say whether the
client's user removes listeners and switches the network; the app does neither, the
library supports both.

Run `watch_connection` allows both, with two targets and five closes. Five are
enough for a close in each state of the stream, and for an answer to a token request
that is several attempts old. It shows that no assertion fails (`AssertsHold`), that
as long as something is listened to the client is at it (`NeededIsTried`: a token
awaited, an open stream, or a backoff whose timer runs), that nobody is told Online
without a stream (`OnlineIsOpen`), and that the whole is, to those above, the small
`OnlineLink` (`ImplementsOnlineLink`).

Run `watch_doubt` finds the one disagreement with the code's own words; see Findings.

The server may end the stream with status OK (`ServerEndsOK`); the runs exclude it.
`OnWatchStreamClose` asserts that this does not happen while something is listened to
(`remote_store.cc:234-237`), and `stream.cc:295-306` hands on whatever status gRPC
reports: with `ServerEndsOK = TRUE`, `AssertsHold` fails at once. The code's authors
rely on a server that never does so, and so does the model.

`OnlineLink` is instantiated by `DocumentWatch`, whose actions on the stream each take
one step of it; this is how the two modules compose.

### `DocumentWatch`, `DocumentListener` - from the stream to the app's listeners

`DocumentWatch` follows one document from the server to the listeners the app added:
the requests for its target, the messages of the watch stream, the aggregator that
holds changes back until a consistent snapshot (`remote_event.cc`), the cache on disk
(`local_store.cc`), the view and the limbo document (`view.cc`, `sync_engine.cc`) and
the listeners (`query_listener.cc`, `event_manager.cc`). `client` is all of it as one
record; what is on disk is a part of it that `Restart` leaves. `Receive` takes one
message with everything that is called for it; `old` says whether the persisted resume
token is older than five minutes, which decides whether a new one is written.

The server and the network are external. The server's end reads the document's history
up to some point (`Advance`), serves requests no earlier than their resume token, and
sends for each target what it has not sent: the document, a deletion, an existence
filter or nothing if the target never had it; then `CURRENT` and the global snapshot.
A new stream may reach a server that lags. Faults are streams that end with all that
was under way, restarts of the app between any two steps, targets started over, and
targets rejected.

`DocumentListener` is the promise to the app: a listener is never shown an older
version than any listener of this phone was shown before, also after a restart; no
version twice running; that the document is missing only if it was, after all that
was shown, or in a first call when the client is Offline and has none; and nothing
after an error. The screens' models rest on it.

Run `document_watch`: two listeners, two versions of the document, one limbo
resolution, three messages under way and two faults. Two listeners are needed for a
first call made from a view that is there already; two faults for a reconnect to a
lagging server after a restart, or a reset after a lost stream; three messages for a
document, its `CURRENT` and its snapshot under way together. (One listener with three
versions, four messages and three faults, 10 million states, was run as well, with the
same result.) It shows:

- `AssertsHold`: no assertion on the way fails, whatever was lost or crossed.
- `SyncedIsServers`: a snapshot not marked as from the cache shows what the server had
  at the resume token or later, as long as the server takes nothing back.
- `ResumesFromDisk`: the app may be ended at any moment and resume from its token; the
  server will skip nothing the client does not have, again as long as it takes nothing
  back.
- `ImplementsDocumentListener`: the refinement.
- `NewestIsShown`: who listens is shown the newest version at last, or an error, or the
  server took something back.
- `ComesBackInSync`: a view that lost its currency when Offline gets it back.

`retracted` remembers that the server took something back: that it started a target over
or rejected it while a document was on its way to the listeners, or that it rejected a
limbo target. The client's guarantees end there, in two ways. A document that the
aggregator holds back in `pending_document_updates_` stays there when its target is reset
or removed (`remote_event.cc:400-417`, `remote_store.cc:361`), and comes with the next
snapshot although no target vouches for it. And a rejected limbo target deletes its
document by an event made up for the purpose, with version `None`
(`sync_engine.cc:302-340`), which the cache takes over any version it has: if the app's
target was told meanwhile that the document is there, its keys go on holding a document
the cache no longer has. Both heal when the document changes again. Without the
condition the properties fail from three versions and three faults on. So what these
properties say ends with a rejected limbo target; that the rejection itself is handled,
and leaves no view in doubt for ever, is what `ComesBackInSync` says, which has no such
condition. A target that is unwatched and watched again under the same number on one
stream is not reached: limbo numbers are used once, and the app's target is given up only
by the server.

Fairness: the server catches up, serves, and sends; the stream opens again whenever it
is closed (`NeededIsTried` above, with a network that comes back); and the worker queue
takes the next message. Faults are bounded, as for ever failing streams show nothing.

### `GrpcStream`, `ObservedStream` - one stream between two threads

Below the connection, `GrpcStream` is one stream of `grpc_stream.cc` with its
completions. This is where two threads meet: the worker queue, and the thread of
`Datastore::PollGrpcQueue` that takes an operation off gRPC's completion queue
(`Complete`) and posts its callback to the worker queue. Before a stream ends, the
worker waits until gRPC holds nothing of it; while it waits, only the other thread
moves. So the rest of a function after its wait is in `todo`, and each part of it is a
step of its own (`AwaitEnds`, `Finishes`, `Drains`, `UnsetsObserver`, `Notifies`,
`Destroys`). `held` are the operations gRPC has, `completions` those the stream still
waits for; `posted` are callbacks on the worker queue. `asserted` also stands for the
rules the code must keep without asserting them: one operation of a type at a time,
`Finish` last and once, no callback on a stream that is gone, no stream gone with
operations under way.

Run `grpc_stream`: two messages of the server and three of the observer, which is
enough for one write under way and two waiting. It shows `AssertsHold`, that the
observer sees an `ObservedStream` (`ImplementsObservedStream`: messages in order on
both sides, none twice, one word of the end at most and nothing after it) and that
everything ends (`EndsInTime`: no wait for ever, and a call that is over leaves a
stream that is finished). The model also shows that a message may be handed to gRPC
after `Finish` was: a read fails, `OnOperationFailed` issues `Finish`, and the observer
writes before the result is in. The TODO at `grpc_stream.cc:236-237` takes for
granted that the write buffer "should never be called again after a call to Finish". The call is over anyway, so such a message is lost like those
that were under way.

Fairness: the worker queue runs its operations, and gRPC gives back the operations of a
call that is over, as its completion queue promises. Of a live call nothing is assumed.

## Findings

`watch_doubt`, property `UnknownIsTimed`. The comment at `online_state_tracker.cc:44-46`
promises that a connection attempt that neither succeeds nor fails is given up for
Offline after a timeout. The timer is started with the attempt. When the last listener
is removed while the attempt is under way, `StopListening` calls `UpdateState(Unknown)`,
which cancels the timer and not the attempt; a listener added then finds the stream
started and starts no timer (`remote_store.cc:163-168` and `187`). Its first snapshot
waits as long as the attempt takes. Youroute never removes a listener, so the app is not
exposed; for such a client `DoubtTimed` proves that the doubt is always timed.

Two smaller facts that no run counts. When the server rejects the last target, the
stream stays open and nothing marks it idle (`remote_store.cc:354-366`), although
`stream.h:47` says an idle stream is closed after a minute. And the traps of the app
(`process` in the models, `fate` in `TravelScreen`) are what the code does where a forced cast or unwrap meets
nil; no text in the repository says otherwise.

## Proofs

TLC checks small instances; what follows is proved for every value of the constants
that satisfies the assumptions named.

`DetectorProofs` holds the proofs of the detector. Of `NonMaxSuppression` it proves, for
every array of boxes with natural scores and integer rectangles, every positive limit
and every threshold, that the invariants of run `nms` hold. The inductive invariant
`IndInv` relates the flags to the result: what is still on and ahead of the loops is clear of every box it
was compared with (`AheadIsClear`), what is off is covered by a selected box
(`OffIsCovered`), what is on and behind is selected (`OnIsSelected`), and the
result came from the part of the order already passed (`SelectedFromPast`).
None of the checked properties is inductive without these: independence of the
next box is a fact about the flags ahead, not about the result. That the overlap
test is symmetric (`IOUSymmetric`) carries independence from one order of two
boxes to the other. From the same invariant `SelectsGreedily` derives that each step does
what `GreedySelection` does or changes nothing: `Select` takes the best box that remains,
and no other step changes what remains, because a box the inner loop has not reached
yet is counted as dropped already (`LivePositions`), and none is left that overlaps when
that loop ends. Assumed is `NMSAssumption`, the types of the parameters.
Of `YoloGrid` it proves `ReadsEachOnce` and `FindsWhatIsThere` for any number and sizes of
grids, boxes, classes and detections. The invariant compares what was read and predicted
with the boxes the four nested loops have passed (`Past`): a turn passes exactly one more
(`OnePassed`), its elements are read by no other box (`FieldsDiffer`: an offset has one
box, row, column and channel, as a number has one quotient and remainder), every element of
an array belongs to a box (`ElementsAreFields`), and the class that passes the threshold is
the one said alone (`DetectedIsSure`). Assumed is `YoloAssumption`.

`TagSearchProofs` proves, for any tags, documents, searches and taps, the
invariants `TypeOK`, `RowsAgree`, `StoryIsTapped`, `FoundStays` and `NothingListedTwice`,
and the action property `GoneIsQuiet`. The invariant that is missing for induction is
`TapsAreShown`: every closure, answered or not, holds the picture its row showed.
It follows from `RowsAgree` at the time of the tap, which is why a reload left out
anywhere would break stories, not just rows. `NothingListedTwice` counts sets: the places
of a picture in the list against the places in the versions each search was told of
(`ToldOf`). A callback tells one search of one version that it was not told of before, so
what is added on the right is disjoint from what was there (`ToldGrows`) and as large as
what the list grew by (`PlacesConcat`). Assumed is `TagSearchAssumption`.

`LoginStoryProofs` holds the proofs of two screens. Of `LoginFlow` it proves `TypeOK`,
`UserHasProof` and `AccountsWereOffered` for any accounts and any number of requests.
`GrantedMatches` is what makes them inductive: what the server granted is still what the
account says, since an account that has a password never changes. `SuccessWasGranted` ties the completions to it, and
`AlertIsOfFailure` keeps the credentials of an alert tied to a failed sign-in while the
fields change. Assumed is `LoginAssumption`; that the login server decides as `Serve`
does is a part of the model. Of `StoryAnalysis` it proves `StoryTypeOK`, `TagsAreObjects`
and `PictureIsChosen` for any labels, pictures, documents and order of the downloads. What has
to be added is only that nothing is shown or chosen before the screen has loaded
(`BeforeLoading`); the lines of tags need that a set of labels is no larger than the
predictions that carry them, so the boxes suffice (`TagLinesNameAll`). Assumed is
`StoryAssumption`.

`ScreensProofs` holds the proofs of three modules. Of `PictureCells` it proves
`CellsTypeOK` and `PictureFromOwnPast` for any rows, cells and dequeues. What has to be
added is `DownloadsWereTold`: a download belongs to a chain that was told of a version;
and that no step takes a chain's cell, row or news away (`ChainsKept`), so a picture's
past cannot be lost. What a download writes is its chain's row's picture or nil
(`WriteStep`), and a listener that ends or a download that is lost changes no chain's
past (`SilentStep`). Of `AppNavigation` it proves `TypeOK`, `OpenerBelow` and
`SwitchAwaitsAnswer` for any number of screens, sign-ins and late answers. Needed
besides is `RootIsLogin`: the login screen is never popped, so a late sign-in always has
its opener below. A late story is pushed only by a screen on the stack, for the same
reason; without that guard `PushStep` cannot be proved. Of `TravelScreen` it proves the
invariants `TravelTypeOK`, `RowsAgree`, `NoRowBeyond` and `SearchOnlyWhileEditing`,
together inductive, and from them that it implements `ListScreen`, for every set of
countries, document and search. `RowsAgree` needs `SearchOnlyWhileEditing`, because
coming back with the search still on would expose the array of the last tap; a tap opens
what its row shows because of `RowsAgree`. `FilteredIsSearch` is kept by every step as
well: the filter has as many places as there are hits, all different, so it leaves none
out (`FilterIsFirst`), and what a snapshot appends comes after every hit found before
(`FirstInLonger`). Its definition names the places of the hits, and not the sequence
`SelectSeq` returns, because the prover knows nothing of `SelectSeq`. Assumed are
`CellsAssumption`,
`NavigationAssumption` and `TravelAssumption`.

`WatchConnectionProofs` proves all the invariants of run `watch_connection`, and its
refinement, for any targets and number of closes. `Sound` adds to the type why they
hold: a token request for the current close count exists exactly while the stream is
starting, none for a later one ever, the timers run only in the states they belong to,
and the aggregator is set while the stream is started. There is one lemma for each function of the code. Assumed are
`ConnectionAssumption` and `~ServerEndsOK`, as explained above; `DoubtTimed` assumes
the app's use of the library too.

`GrpcStreamProofs` proves the safety properties of run `grpc_stream` for any number of
messages. `Core` says what holds of buffers and operations at all times (messages are
read and written in order, what is posted is awaited, once for each operation); `Planned`
says what was done before each step that is still in `todo`: when `Finish` is to be issued
gRPC holds nothing, when the stream is to be destroyed nothing can come back. Together
they are inductive; neither is alone, because a callback may only run when no step is
planned. Assumed is `StreamAssumption`.

`DocumentWatchProofs` proves `TypeOK` and `AssertsHold` of `DocumentWatch` for any
number of listeners, versions, limbo resolutions, messages and faults. That no count of
outstanding responses falls below zero, and that a target is told of a modification or a
removal only of what it was given, cannot be seen in the client alone. `Protocol` counts
for every target the answers that are still owed, a request that is not served or its
answer under way: exactly, for a target that is listened to, and at most what the
aggregator waits for, for one that was given up, as the server does not answer an
unwatch request for a target it has rejected. That is enough because the number of a
limbo target is never used again, and because the app's target, which only the server
gives up, is silent when it is listened to again: of a target's messages "added" is the
first and "rejected" the last (`InOrder`). `Coherent` says which targets are
listened to (the app's if there is a view, the limbo document's if there is one) and that
the change pending at a target fits what the target is known to hold: this is what the
assertions of `View`, `SyncEngine` and `LocalStore` ask for. Both hold with the client's
type of what is under way (`Sound`), and there is a lemma for each function of the client
that says what it changes and that it keeps `Sound`. `IInv` adds the types of what is not the
client's, and that without a stream the server has nothing to report. Assumed is
`WatchAssumption`.

`DocumentListenerProofs` goes on from there to the document itself, under the same
assumption: `SyncedIsServers`, `ResumesFromDisk`, and that `DocumentWatch` implements
`DocumentListener`. The invariant is `DInv`, on top of `IInv`:

- `Told` follows, for every target listened to, the line from its resume token over the
  messages on their way to what the server has sent it. A mark is a global snapshot on its
  way, or the end of the queue; at each mark, the last message before it that tells the
  target anything says what the document was at the mark's version (`LastTold`); where
  nothing does, the change pending in the aggregator says it already, or the token does
  (`FirstMarks`, `Fits`); and between two marks something is told or nothing changed
  (`NothingNew`). So a snapshot may come at any point of the queue, after resets,
  filters and answers in any order, and the target then holds the document if and only
  if the server had it at the snapshot.
- `Faithful` says that every version on disk or held back is one the server had, that
  disk, view and token agree (the keys on disk are those at the token on disk, which is
  not after the view's, which is not after the disk's last snapshot), and that what each
  listener was shown last is the view.
- `Unbroken` holds as long as `retracted` does not: each document held back is what some
  target that is not pending is told (`Backs`), nothing is held back when a reset or a
  rejection comes (`Undisturbed`), the document on disk is as it was at the token or
  later (`Resumable`), and nothing was shown that is newer than the disk (`Upward`).
  The two ways in which a client's guarantees end, described above, are steps that break
  `Undisturbed` or `Backs`.

Each handler of a message takes these three from before the message to after it
(`HandleAddedTakes` to `LimboRejectedTakes`), and each action keeps `DInv`. Writing out
one global snapshot takes the most: the token on disk is only replaced when something
changed, when it was zero or when it is old, so that `Resumable` has to look from the
view's token and not the disk's (`Latest`). The steps of the client show nothing but what
`Shows` allows, and `ShownIsAllowed` derives from that and `DInv` what `DocumentListener`
promises: a version is not older than the newest shown because it is the disk's, and
a missing document was missing after it, as `Upward` has it, or is missing on the server,
as `SyncedIsServers` has it, or the client is Offline and this is a first call.

Only model-checked: every liveness property (`CountryIsListed`, `RowGetsPicture`,
`SearchIsListed`, `TapIsAnswered`, `NewestIsShown`, `ComesBackInSync`, `EndsInTime`),
as fairness is beyond the proof system; and for the same reason the fairness of
`GreedySelection`, which says that the rule is followed to the end. Every invariant
and every action property that a passing run checks is proved, under the assumptions
named above.

## Runs

Bounds are constants of the MC modules and configurations. `CHECK_DEADLOCK FALSE`
stands where the app may trap or a bound ends a behaviour.

| Run | Bounds |
|---|---|
| `nms` | up to 4 boxes of 6 rectangles and 2 scores, limit 2, threshold 4/10 |
| `travel` | 3 countries, 2 versions, 2 searches |
| `cells` | 2 cells, 2 rows, 2 versions, 2 dequeues of watched rows or 3 of others |
| `tags` | 3 tags, 2 versions, 2 searches, 2 taps |
| `story` | 3 classes, 2 boxes, 3 labels, 2 taps |
| `login` | 2 emails, 2 passwords, 3 requests |
| `navigation` | 8 screens, 2 sign-ins, 2 downloads |
| `yolo` | grids of 2 and 3, 2 boxes per cell, 2 classes, 2 detections |
| `watch_connection`, `watch_doubt` | 2 targets, 5 closes; symmetric in the targets |
| `document_watch` | 2 listeners, 2 versions, 1 limbo resolution, 3 messages, 2 faults |
| `grpc_stream` | 2 messages of the server, 3 of the observer |

The largest are `tags` (1.6 million states), `document_watch` (0.5 million) and
`cells` (0.36 million).

## Abstractions

Scores and rectangles are integers where the code has floats; NaN and overflow
of `exp` are not modelled. Names, URLs and pictures are members of small sets;
a search text is what it matches. A trap ends the app. Layout, animation, fonts,
colours and logging are left out, and so is `dismiss` where nothing is presented.
In the Firestore client a document is its version and whether it exists; backoff
delays and timeouts are timers that may elapse at any time; a resume token is the
version it stands for; the two status codes that only change a delay (resource
exhausted, unauthenticated) are errors like others.

## Not modelled

- The map screen: four route requests whose answers each draw an overlay and move
  the region. No state of the app depends on their order.
- The pixel buffers: straight-line conversions, each on a buffer of its own. The early
  return at `UIImage+CVPixelBuffer.swift:47` leaves a buffer locked, which shows by
  reading it.
- The camera, which no screen creates; the delegates, whose callbacks are empty; the
  location manager.
- The arrays of Main, Detail and Gallery, which only grow by snapshots (or by one
  listing) as the one of Travel. A failed page makes `listAll` complete twice, and the
  gallery's handler then reads the second result; nothing interleaves with it.
- Of the Firestore client: the write stream, local writes, transactions, unary calls and
  batch reads, none of which the app makes; queries of more than one document; garbage
  collection, as the cache stays below its threshold; multiple tabs and bundles.
- All other libraries under Pods, which appear as environment actions only.

## Plan

Done are the detector, the screens with state of their own, the cells and the
navigation they share, and the Firestore client from the gRPC stream to the app's
listeners. What is left, in the order of its worth:

1. `AppNavigation`'s hand-overs shown to be those of `LoginFlow`.
2. Limbo resolution for queries of several documents, should the app come to use them.

`TagSearch` is not on the list: its rows have their labels as soon as they are laid out
and a tap opens something only when its download ends, so it does not follow
`ListScreen`; what a tap opens there is the subject of `StoryIsTapped`.
