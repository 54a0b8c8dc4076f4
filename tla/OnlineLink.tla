------------------------------ MODULE OnlineLink ------------------------------
(****************************************************************************)
(* What the connection promises the views above it: whether the stream is   *)
(* open, and what the client takes itself for.  WatchConnection implements  *)
(* it, and DocumentWatch runs on top of it.                                 *)
(****************************************************************************)
VARIABLES
    open,    \* the watch stream is open
    online,  \* "Unknown", "Online" or "Offline"
    timed    \* a timer runs that ends a doubt

link == <<open, online, timed>>

Init == open = FALSE /\ online = "Unknown" /\ timed \in BOOLEAN

Opens == ~open /\ open' = TRUE /\ UNCHANGED <<online, timed>>

\* A message of the server makes the client Online.
Hears == open /\ online' = "Online" /\ timed' = FALSE /\ UNCHANGED open

\* The stream ends, or an attempt starts, fails or is given up: nobody is Online
\* without a stream, and only a doubt is timed.
Closes ==
    /\ open' = FALSE
    /\ online' \in {"Unknown", "Offline"}
    /\ timed' \in BOOLEAN
    /\ timed' => online' = "Unknown"

\* The only way to be Offline on an open stream: the attempt was timed, and no
\* message came in time.
TimesOut ==
    /\ timed
    /\ online' = "Offline"
    /\ timed' = FALSE
    /\ UNCHANGED open

\* The network is enabled once more, while it was: a doubt without a timer.
Reenabled == open /\ online' = "Unknown" /\ timed' = FALSE /\ UNCHANGED open

Next == Opens \/ Hears \/ Closes \/ TimesOut \/ Reenabled

Spec == Init /\ [][Next]_link
=============================================================================
