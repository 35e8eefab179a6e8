--------------------------- MODULE PlaybackContract ---------------------------
(***************************************************************************)
(* What the video view promises about its streams and its render threads,  *)
(* without saying how: one thread renders at a time, it reads open streams *)
(* only, and a stream is closed only while nothing renders.  A stream that *)
(* nobody uses may also just be reclaimed.                                 *)
(***************************************************************************)
CONSTANTS
    Threads,  \* render threads
    Streams,  \* camera streams
    NoStream  \* no stream

VARIABLES
    renderers, \* the threads that render
    inUse,     \* the stream each thread reads
    lease      \* "none", "open" or "closed" for each stream

contractVars == <<renderers, inUse, lease>>

Init ==
    /\ renderers = {}
    /\ inUse = [t \in Threads |-> NoStream]
    /\ lease = [s \in Streams |-> "none"]

Open(s) ==
    /\ lease[s] = "none"
    /\ lease' = [lease EXCEPT ![s] = "open"]
    /\ UNCHANGED <<renderers, inUse>>

Start(t) ==
    /\ renderers = {}
    /\ renderers' = {t}
    /\ UNCHANGED <<inUse, lease>>

Take(t, s) ==
    /\ t \in renderers
    /\ inUse[t] = NoStream
    /\ lease[s] = "open"
    /\ inUse' = [inUse EXCEPT ![t] = s]
    /\ UNCHANGED <<renderers, lease>>

Release(t) ==
    /\ inUse[t] # NoStream
    /\ inUse' = [inUse EXCEPT ![t] = NoStream]
    /\ UNCHANGED <<renderers, lease>>

Finish(t) ==
    /\ renderers = {t}
    /\ renderers' = {}
    /\ inUse' = [inUse EXCEPT ![t] = NoStream]
    /\ UNCHANGED lease

Close(s) ==
    /\ renderers = {}
    /\ lease[s] = "open"
    /\ lease' = [lease EXCEPT ![s] = "closed"]
    /\ UNCHANGED <<renderers, inUse>>

Reclaim(s) ==
    /\ \A t \in Threads : inUse[t] # s
    /\ lease' = [lease EXCEPT ![s] = "none"]
    /\ UNCHANGED <<renderers, inUse>>

Next ==
    \/ \E t \in Threads : Start(t) \/ Release(t) \/ Finish(t)
    \/ \E s \in Streams : Open(s) \/ Close(s) \/ Reclaim(s)
    \/ \E t \in Threads, s \in Streams : Take(t, s)

Spec == Init /\ [][Next]_contractVars

=============================================================================
