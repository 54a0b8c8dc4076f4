--------------------------- MODULE DocumentListener ---------------------------
(****************************************************************************)
(* What a snapshot listener of a document promises the app, whatever        *)
(* happens to the connection, to the other listeners of the document and to *)
(* the app's process: what the listeners of this phone are shown follows    *)
(* the history of the document on the server, never backwards.  The models  *)
(* of the app's screens rest on it.  The promise ends when the server takes *)
(* back what it has sent, by starting a target over or rejecting it.        *)
(****************************************************************************)
EXTENDS Naturals, Sequences

CONSTANT Listeners

VARIABLES
    history,  \* history[v]: whether the document's version v exists (or is missing)
    newest,   \* the newest version any listener was shown, ever, on this phone
    retracted, \* the server took back what was on its way to the listeners
    shown,    \* shown[l]: what l was called with last
    online    \* what the client takes itself for

promise == <<history, newest, retracted, shown, online>>

Nothing == [kind |-> "nothing"]           \* not called yet
Missing == [kind |-> "missing"]           \* called: the document does not exist
Failed == [kind |-> "failed"]             \* called with an error
Version(v) == [kind |-> "version", is |-> v]

Init ==
    /\ history \in {<<TRUE>>, <<FALSE>>}
    /\ newest = 0
    /\ retracted = FALSE
    /\ shown = [l \in Listeners |-> Nothing]
    /\ online = "Unknown"

Write ==
    /\ \E b \in BOOLEAN : history' = Append(history, b)
    /\ UNCHANGED <<newest, retracted, shown, online>>

\* What l may be shown next.  A version is never older than one shown before, to
\* whichever listener, and is not shown to one listener twice running.  The
\* document is missing because it was on the server after all that was shown, or,
\* in a first call, because the client is Offline and has none.  Of what the
\* server took back nothing is promised.
MayShow(l, e) ==
    \/ retracted'
    \/ e = shown[l]
    \/ /\ shown[l] # Failed
       /\ \/ e = Missing /\ \E w \in DOMAIN history : w >= newest /\ ~history[w]
          \/ e = Missing /\ shown[l] = Nothing /\ online' = "Offline"
          \/ e = Failed
          \/ \E v \in DOMAIN history :
                /\ history[v]
                /\ v >= newest
                /\ shown[l] # Version(v)
                /\ e = Version(v)

\* Any of the listeners are called.
Show ==
    /\ \A l \in Listeners : MayShow(l, shown'[l])
    /\ newest' \in {newest} \cup {v \in DOMAIN history : \E l \in Listeners : shown'[l] = Version(v)}
    /\ \A l \in Listeners, v \in DOMAIN history : shown'[l] = Version(v) => v <= newest'
    /\ UNCHANGED history

\* The app is ended and started again.
Restart ==
    /\ shown' = [l \in Listeners |-> Nothing]
    /\ online' = "Unknown"
    /\ UNCHANGED <<history, newest, retracted>>

Next == Write \/ Show \/ Restart

Spec == Init /\ [][Next]_promise
=============================================================================
