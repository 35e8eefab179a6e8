------------------------------ MODULE MjpegView ------------------------------
(***************************************************************************)
(* The video half of the home monitor: com.camera.simplemjpeg.MjpegView,   *)
(* its MjpegViewThread, the DoRead tasks that open the camera's stream and *)
(* the frame buffer rgb of the native library ImageProc.                   *)
(*                                                                         *)
(* Three kinds of thread meet here.  The UI thread runs the view's methods *)
(* and the surface callbacks, one at a time; it blocks in stopPlayback     *)
(* until the render thread has ended.  A render thread loops over the      *)
(* frames of a stream.  A background thread connects to the camera and     *)
(* posts the stream (or null) to the UI thread.  Nothing but Thread.join   *)
(* and the surface lock orders their accesses to the shared fields.        *)
(*                                                                         *)
(* The client of the view is left free: it may ask for playback, pause it, *)
(* free the native memory and lose or regain the surface in any order.     *)
(***************************************************************************)
EXTENDS Integers, Sequences

CONSTANTS
    Threads,    \* MjpegViewThread objects; a collected one is used again
    Streams,    \* MjpegInputStream objects; a collected one is used again
    NoThread,   \* Java's null for a thread
    NoStream,   \* Java's null for a stream
    MaxReads    \* bound: DoRead tasks that are queued or wait for delivery

ASSUME NullAssumption ==
    /\ NoThread \notin Threads
    /\ NoStream \notin Streams

ASSUME MaxReadsAssumption == MaxReads \in Nat \ {0}

VARIABLES
    mIn,         \* MjpegView.mIn, the stream the view holds
    mRun,        \* MjpegView.mRun, also the answer of isStreaming()
    suspending,  \* MjpegView.suspending
    surfaceDone, \* MjpegView.surfaceDone
    thread,      \* MjpegView.thread
    surface,     \* the surface is valid: lockCanvas does not return null
    ui,          \* where the UI thread is
    pc,          \* where each render thread is
    reading,     \* the stream in whose readMjpegFrame each thread is
    buf,         \* the pointer each thread has taken from rgb
    rgb,         \* the native frame buffer
    sized,       \* IMG_WIDTH # -1 in ImageProc
    status,      \* open or closed, for each stream
    queued,      \* DoRead tasks the serial executor has not run
    posted,      \* results on their way to onPostExecute, oldest first
    fault,       \* what killed the process, "none" while it lives
    events       \* history: what has happened that can lead to a fault

viewVars   == <<mIn, mRun, suspending, thread>>
renderVars == <<pc, reading>>
nativeVars == <<buf, rgb, sized>>
taskVars   == <<queued, posted>>
vars == <<viewVars, surfaceDone, surface, ui, renderVars, nativeVars, status,
          taskVars, fault, events>>

-----------------------------------------------------------------------------

UIStates == {"idle", "join", "freed", "destroyed"}

\* "none": no object; "new": constructed, not started; "dead": run() is over.
ThreadStates == {"none", "new", "dead",
                 "loop", "frame", "read", "decode", "write", "copy",
                 "copying", "lock", "draw"}

\* What can kill the process: in the view, and in its client.
ClientFaults == {"nullPlayer", "notRegistered"}
Faults == {"none", "nullStream", "illegalStart", "nullCanvas",
           "useAfterFree", "nullBuffer", "badFrame"} \cup ClientFaults

Events == {"nullSource", "ended", "surfaceLost", "freed", "freedLive"}

Results == Streams \cup {NoStream}

TypeOK ==
    /\ mIn \in Results
    /\ mRun \in BOOLEAN
    /\ suspending \in BOOLEAN
    /\ surfaceDone \in BOOLEAN
    /\ thread \in Threads \cup {NoThread}
    /\ surface \in BOOLEAN
    /\ ui \in UIStates
    /\ pc \in [Threads -> ThreadStates]
    /\ reading \in [Threads -> Results]
    /\ buf \in [Threads -> {"none", "null", "live", "freed"}]
    /\ rgb \in {"null", "live", "dangling"}
    /\ sized \in BOOLEAN
    /\ status \in [Streams -> {"none", "open", "closed"}]
    /\ queued \in Nat
    /\ posted \in Seq(Results)
    /\ fault \in Faults
    /\ events \in SUBSET Events

\* Thread.isAlive(): started, and run() has not returned.
Alive(t) == pc[t] \notin {"none", "new", "dead"}
Rendering == \E t \in Threads : Alive(t)

\* MjpegView.isStreaming()
isStreaming == mRun

\* History: the events in S have happened, if the condition holds.
Note(condition, S) == events' = IF condition THEN events \cup S ELSE events

-----------------------------------------------------------------------------
(* The UI thread.                                                          *)

\* The UI thread takes its next callback or call when the last one is over.
UIReady == fault = "none" /\ ui = "idle"

\* MjpegView(Context, AttributeSet): a thread is made, but not started.
Init ==
    /\ mIn = NoStream
    /\ mRun = FALSE
    /\ suspending = FALSE
    /\ surfaceDone = FALSE
    /\ thread \in Threads
    /\ surface = FALSE
    /\ ui = "idle"
    /\ pc = [t \in Threads |-> IF t = thread THEN "new" ELSE "none"]
    /\ reading = [t \in Threads |-> NoStream]
    /\ buf = [t \in Threads |-> "none"]
    /\ rgb = "null"
    /\ sized = FALSE
    /\ status = [s \in Streams |-> "none"]
    /\ queued = 0
    /\ posted = <<>>
    /\ fault = "none"
    /\ events = {}

\* The stream the view holds is closed, and the view forgets it.
CloseSource ==
    /\ status' = [s \in Streams |-> IF s = mIn THEN "closed" ELSE status[s]]
    /\ mIn' = NoStream

\* Mutant of stopPlayback: the stream is closed before the join.
stopPlaybackClosesFirst ==
    /\ suspending' = (suspending \/ mRun)
    /\ mRun' = FALSE
    /\ ui' = IF thread = NoThread THEN "idle" ELSE "join"
    /\ CloseSource
    /\ UNCHANGED <<thread, renderVars, nativeVars, taskVars, fault, events>>

\* Mutant of stopPlayback: mRun is not cleared.
stopPlaybackKeepsRunning ==
    /\ suspending' = (suspending \/ mRun)
    /\ thread # NoThread
    /\ ui' = "join"
    /\ UNCHANGED <<mIn, mRun, status, thread, renderVars, nativeVars,
                   taskVars, fault, events>>

\* stopPlayback up to the join, or to its end when there is no thread.
stopPlayback ==
    /\ suspending' = (suspending \/ mRun)
    /\ mRun' = FALSE
    /\ \/ /\ thread # NoThread
          /\ ui' = "join"
          /\ UNCHANGED <<mIn, status>>
       \/ /\ thread = NoThread
          /\ ui' = "idle"
          /\ CloseSource
    /\ UNCHANGED <<thread, renderVars, nativeVars, taskVars, fault, events>>

\* Mutant of JoinReturns: the UI thread does not wait.
JoinReturnsUnjoined ==
    /\ fault = "none"
    /\ ui = "join"
    /\ pc' = IF Alive(thread) THEN pc ELSE [pc EXCEPT ![thread] = "none"]
    /\ thread' = NoThread
    /\ CloseSource
    /\ ui' = "idle"
    /\ UNCHANGED <<mRun, suspending, surfaceDone, surface, reading,
                   nativeVars, taskVars, fault, events>>

\* stopPlayback from the join on: Thread.join returns once the thread is not
\* alive, which a thread that was never started is from the beginning.
JoinReturns ==
    /\ fault = "none"
    /\ ui = "join"
    /\ ~Alive(thread)
    /\ pc' = [pc EXCEPT ![thread] = "none"]
    /\ thread' = NoThread
    /\ CloseSource
    /\ ui' = "idle"
    /\ UNCHANGED <<mRun, suspending, surfaceDone, surface, reading,
                   nativeVars, taskVars, fault, events>>

\* MainActivity.pauseVideo
PauseVideo ==
    /\ UIReady
    /\ isStreaming
    /\ stopPlayback
    /\ UNCHANGED <<surfaceDone, surface>>

\* MainActivity.playVideo: one more DoRead for the serial executor.
PlayVideo ==
    /\ UIReady
    /\ queued + Len(posted) < MaxReads
    /\ queued' = queued + 1
    /\ UNCHANGED <<viewVars, surfaceDone, surface, ui, renderVars, nativeVars,
                   status, posted, fault, events>>

\* MainActivity.stopVideo: freeCameraMemory, down to free(rgb).  Pointers the
\* render thread has taken from rgb dangle from here on.
FreeCameraMemory ==
    /\ UIReady
    /\ mIn # NoStream
    /\ rgb = "live"
    /\ rgb' = "dangling"
    /\ buf' = [t \in Threads |-> IF buf[t] = "live" THEN "freed" ELSE buf[t]]
    /\ ui' = "freed"
    /\ events' = events \cup {"freed"}
                        \cup (IF Rendering THEN {"freedLive"} ELSE {})
    /\ UNCHANGED <<viewVars, surfaceDone, surface, renderVars, sized, status,
                   taskVars, fault>>

\* freeCameraMemory: rgb = NULL, after the free.
ClearCameraMemory ==
    /\ fault = "none"
    /\ ui = "freed"
    /\ rgb' = "null"
    /\ ui' = "idle"
    /\ UNCHANGED <<viewVars, surfaceDone, surface, renderVars, buf, sized,
                   status, taskVars, fault, events>>

\* The window gets its surface, and the callback says so.
SurfaceCreated ==
    /\ UIReady
    /\ ~surface
    /\ surface' = TRUE
    /\ surfaceDone' = TRUE
    /\ UNCHANGED <<viewVars, ui, renderVars, nativeVars, status, taskVars,
                   fault, events>>

\* The window loses its surface: SurfaceView takes the surface lock for it,
\* which a thread that draws holds, and calls surfaceDestroyed afterwards.
SurfaceLost ==
    /\ UIReady
    /\ surface
    /\ \A t \in Threads : pc[t] # "draw"
    /\ surface' = FALSE
    /\ ui' = "destroyed"
    /\ Note(Rendering, {"surfaceLost"})
    /\ UNCHANGED <<viewVars, surfaceDone, renderVars, nativeVars, status,
                   taskVars, fault>>

SurfaceDestroyed ==
    /\ fault = "none"
    /\ ui = "destroyed"
    /\ surfaceDone' = FALSE
    /\ stopPlayback
    /\ UNCHANGED surface

\* An exception in the client's own code.
ClientDies ==
    /\ UIReady
    /\ fault' \in ClientFaults
    /\ UNCHANGED <<viewVars, surfaceDone, surface, ui, renderVars, nativeVars,
                   status, taskVars, events>>

-----------------------------------------------------------------------------
(* DoRead: the background thread connects, the UI thread gets the result.  *)

\* Mutant of DoInBackground: a result without a task.
DoInBackgroundUnasked ==
    /\ fault = "none"
    /\ queued' = queued - 1
    /\ posted' = Append(posted, NoStream)
    /\ UNCHANGED <<viewVars, surfaceDone, surface, ui, renderVars, nativeVars,
                   status, fault, events>>

\* doInBackground: a stream, or null after any error.
DoInBackground ==
    /\ fault = "none"
    /\ queued > 0
    /\ queued' = queued - 1
    /\ \/ /\ posted' = Append(posted, NoStream)
          /\ UNCHANGED status
       \/ \E s \in Streams :
             /\ status[s] = "none"
             /\ status' = [status EXCEPT ![s] = "open"]
             /\ posted' = Append(posted, s)
    /\ UNCHANGED <<viewVars, surfaceDone, surface, ui, renderVars, nativeVars,
                   fault, events>>

\* A thread made now and started.
StartNewThread ==
    \E t \in Threads :
        /\ pc[t] = "none"
        /\ thread' = t
        /\ pc' = [pc EXCEPT ![t] = "loop"]

\* Mutant of startPlayback: a thread that exists counts as started.
startPlaybackIfNoThread(source) ==
    /\ ~suspending
    /\ source # NoStream
    /\ mRun' = TRUE
    /\ \/ /\ thread = NoThread
          /\ StartNewThread
       \/ /\ thread # NoThread
          /\ UNCHANGED <<thread, pc>>
    /\ UNCHANGED <<suspending, fault>>

\* Mutant of startPlayback: mIn is not looked at.
startPlaybackUnchecked(source) ==
    /\ ~suspending
    /\ mRun' = TRUE
    /\ thread # NoThread
    /\ pc' = [pc EXCEPT ![thread] = IF pc[thread] = "new" THEN "loop" ELSE @]
    /\ UNCHANGED <<thread, suspending, fault>>

startPlayback(source) ==
    /\ ~suspending
    /\ source # NoStream
    /\ mRun' = TRUE
    /\ \/ /\ thread = NoThread
          /\ StartNewThread
          /\ UNCHANGED fault
       \/ /\ thread # NoThread
          /\ pc[thread] = "new"
          /\ pc' = [pc EXCEPT ![thread] = "loop"]
          /\ UNCHANGED <<thread, fault>>
       \/ /\ thread # NoThread
          /\ Alive(thread)        \* "already started": a warning, no more
          /\ UNCHANGED <<thread, pc, fault>>
       \/ /\ thread # NoThread
          /\ pc[thread] = "dead"  \* Thread.start throws
          /\ fault' = "illegalStart"
          /\ UNCHANGED <<thread, pc>>
    /\ UNCHANGED suspending

\* Mutant of resumePlayback: mRun stays false.
resumePlaybackNotRunning(source) ==
    /\ suspending
    /\ source # NoStream
    /\ StartNewThread
    /\ suspending' = FALSE
    /\ UNCHANGED <<mRun, fault>>

resumePlayback(source) ==
    /\ suspending
    /\ source # NoStream
    /\ mRun' = TRUE
    /\ StartNewThread
    /\ suspending' = FALSE
    /\ UNCHANGED fault

\* The view takes a new source, or null, and starts or resumes playback.  A
\* source it had before is not closed.
setSource(source) ==
    /\ mIn' = source
    /\ \/ startPlayback(source)
       \/ resumePlayback(source)
       \/ /\ source = NoStream
          /\ UNCHANGED <<mRun, suspending, thread, pc, fault>>

\* onPostExecute hands the result to the view.
OnPostExecute ==
    /\ UIReady
    /\ posted # <<>>
    /\ setSource(Head(posted))
    /\ Note(Head(posted) = NoStream /\ Rendering, {"nullSource"})
    /\ posted' = Tail(posted)
    /\ UNCHANGED <<surfaceDone, surface, ui, reading, nativeVars, status,
                   queued>>

\* The garbage collector takes a stream nobody refers to, closed or not.
Collect(s) ==
    /\ fault = "none"
    /\ status[s] # "none"
    /\ mIn # s
    /\ \A t \in Threads : reading[t] # s
    /\ \A i \in 1..Len(posted) : posted[i] # s
    /\ status' = [status EXCEPT ![s] = "none"]
    /\ UNCHANGED <<viewVars, surfaceDone, surface, ui, renderVars, nativeVars,
                   taskVars, fault, events>>

-----------------------------------------------------------------------------
(* MjpegViewThread.run, and below it readMjpegFrame and pixeltobmp.        *)

\* Thread t goes from one place in run() to another.
Goes(t, from, to) ==
    /\ fault = "none"
    /\ pc[t] = from
    /\ pc' = [pc EXCEPT ![t] = to]

\* An uncaught exception or a signal ends the process.
Dies(t, from, why) ==
    /\ fault = "none"
    /\ pc[t] = from
    /\ fault' = why
    /\ UNCHANGED <<pc, reading, nativeVars, events>>

\* run() returns on its own, because readMjpegFrame answered -1.
Ends(t, from) ==
    /\ Goes(t, from, "dead")
    /\ reading' = [reading EXCEPT ![t] = NoStream]
    /\ buf' = [buf EXCEPT ![t] = "none"]
    /\ events' = events \cup {"ended"}
    /\ UNCHANGED <<rgb, sized, fault>>

\* Mutant of Loop: without a surface run() returns.
LoopEndsWithoutSurface(t) ==
    /\ \/ (~mRun \/ ~surfaceDone) /\ Goes(t, "loop", "dead")
       \/ mRun /\ surfaceDone /\ Goes(t, "loop", "frame")
    /\ UNCHANGED <<reading, nativeVars, fault, events>>

\* while (mRun) { if (surfaceDone) ...: without a surface the loop spins.
Loop(t) ==
    /\ \/ ~mRun /\ Goes(t, "loop", "dead")
       \/ mRun /\ surfaceDone /\ Goes(t, "loop", "frame")
    /\ UNCHANGED <<reading, nativeVars, fault, events>>

\* mIn.readMjpegFrame(bmp): the field mIn is read now.
Frame(t) ==
    \/ /\ mIn = NoStream
       /\ Dies(t, "frame", "nullStream")
    \/ /\ mIn # NoStream
       /\ Goes(t, "frame", "read")
       /\ reading' = [reading EXCEPT ![t] = mIn]
       /\ UNCHANGED <<nativeVars, fault, events>>

\* readMjpegFrame up to pixeltobmp: a whole frame; -1 when the stream ends in
\* the header; an IOException, which run() swallows; an unchecked exception
\* when the stream has no frame markers within FRAME_MAX_LENGTH.
Read(t) ==
    \/ /\ \/ Goes(t, "read", "decode")
          \/ Goes(t, "read", "loop")
       /\ reading' = [reading EXCEPT ![t] = NoStream]
       /\ UNCHANGED <<nativeVars, fault, events>>
    \/ Ends(t, "read")
    \/ Dies(t, "read", "badFrame")

\* processimage up to the first row.  A corrupt frame longjmps out of it
\* before the buffer is looked at.
Decode(t) ==
    \/ /\ Goes(t, "decode", "copy")
       /\ UNCHANGED <<reading, nativeVars, fault, events>>
    \/ /\ Goes(t, "decode", "write")
       /\ LET allocate == rgb = "null" \/ ~sized IN
             /\ rgb' = IF allocate THEN "live" ELSE rgb
             /\ sized' = TRUE
             /\ buf' = [buf EXCEPT ![t] = IF allocate \/ rgb = "live"
                                          THEN "live" ELSE "freed"]
       /\ UNCHANGED <<reading, fault, events>>

\* processimage writes its rows through outp.
Write(t) ==
    \/ /\ buf[t] = "freed"
       /\ Dies(t, "write", "useAfterFree")
    \/ /\ buf[t] # "freed"
       /\ Goes(t, "write", "copy")
       /\ buf' = [buf EXCEPT ![t] = "none"]
       /\ UNCHANGED <<reading, rgb, sized, fault, events>>

\* pixeltobmp after processimage: -1 unless the bitmap has the frame's size,
\* else lrgb = &rgb[0].
Copy(t) ==
    \/ Ends(t, "copy")
    \/ /\ sized
       /\ Goes(t, "copy", "copying")
       /\ buf' = [buf EXCEPT ![t] = CASE rgb = "null" -> "null"
                                      [] rgb = "live" -> "live"
                                      [] rgb = "dangling" -> "freed"]
       /\ UNCHANGED <<reading, rgb, sized, fault, events>>

\* pixeltobmp copies the frame to the bitmap.
Copying(t) ==
    \/ /\ buf[t] = "null"
       /\ Dies(t, "copying", "nullBuffer")
    \/ /\ buf[t] = "freed"
       /\ Dies(t, "copying", "useAfterFree")
    \/ /\ buf[t] = "live"
       /\ Goes(t, "copying", "lock")
       /\ buf' = [buf EXCEPT ![t] = "none"]
       /\ UNCHANGED <<reading, rgb, sized, fault, events>>

\* lockCanvas returns null without a surface, and c.drawBitmap is next.
Lock(t) ==
    \/ /\ ~surface
       /\ Dies(t, "lock", "nullCanvas")
    \/ /\ surface
       /\ Goes(t, "lock", "draw")
       /\ UNCHANGED <<reading, nativeVars, fault, events>>

\* The frame is drawn and posted, the surface lock released.
Draw(t) ==
    /\ Goes(t, "draw", "loop")
    /\ UNCHANGED <<reading, nativeVars, fault, events>>

Render(t) ==
    /\ \/ Loop(t)
       \/ Frame(t)
       \/ Read(t)
       \/ Decode(t)
       \/ Write(t)
       \/ Copy(t)
       \/ Copying(t)
       \/ Lock(t)
       \/ Draw(t)
    /\ UNCHANGED <<viewVars, surfaceDone, surface, ui, status, taskVars>>

-----------------------------------------------------------------------------

\* A killed process takes no step.
Dead ==
    /\ fault # "none"
    /\ UNCHANGED vars

Client ==
    \/ PlayVideo
    \/ PauseVideo
    \/ FreeCameraMemory
    \/ SurfaceCreated
    \/ SurfaceLost
    \/ ClientDies

UIThread ==
    \/ JoinReturns
    \/ ClearCameraMemory
    \/ SurfaceDestroyed
    \/ OnPostExecute

Next ==
    \/ Client
    \/ UIThread
    \/ DoInBackground
    \/ \E t \in Threads : Render(t)
    \/ \E s \in Streams : Collect(s)
    \/ Dead

Spec == Init /\ [][Next]_vars

-----------------------------------------------------------------------------
(* Properties.                                                             *)

\* At most one render thread is alive, whatever the client does: startPlayback
\* and resumePlayback never start a second one beside it (MjpegView.java 203
\* to 228), because stopPlayback forgets a thread only after the join.
AtMostOneRenderer ==
    \A t, u \in Threads : Alive(t) /\ Alive(u) => t = u

\* A render thread is never inside readMjpegFrame of a stream that the UI
\* thread has closed or the collector has taken: stopPlayback closes mIn only
\* after the join, and setSource replaces a stream without closing it.
OnlyOpenStreamsAreRead ==
    \A t \in Threads : reading[t] # NoStream => status[reading[t]] = "open"

\* pauseVideo trusts isStreaming() and does nothing when it is false.  So when
\* it is false there must be nothing to stop: no thread renders and no stream
\* is held open by the view.
NothingRunsBehindPause ==
    ui = "idle" /\ ~isStreaming => ~Rendering /\ mIn = NoStream

\* A stream the view holds is being rendered, unless a render thread has ended
\* by itself (readMjpegFrame answered -1): that is the one way to lose a start.
HeldStreamIsRendered ==
    ui = "idle" /\ mIn # NoStream /\ fault = "none"
        => Rendering \/ "ended" \in events

\* Each way in which the process can be killed needs its own misuse of the
\* view, which the protocol of stopPlayback otherwise prevents:
\*   - mIn is null in the loop only after a failed connection was delivered to
\*     a view that was rendering;
\*   - start() meets a finished thread only after a thread ended by itself;
\*   - lockCanvas fails only after the surface was lost during rendering;
\*   - freed memory is touched only if it was freed during rendering;
\*   - rgb is null in pixeltobmp only if it has been freed before.
FaultHasCause ==
    /\ fault = "nullStream"   => "nullSource" \in events
    /\ fault = "illegalStart" => "ended" \in events
    /\ fault = "nullCanvas"   => "surfaceLost" \in events
    /\ fault = "useAfterFree" => "freedLive" \in events
    /\ fault = "nullBuffer"   => "freed" \in events

\* A view that is not rendering begins to render only on a stream that
\* onPostExecute has just delivered: neither the surface callbacks nor the end
\* of stopPlayback wake it up, and a failed connection does not either.
RenderingBeginsWithASource ==
    [][~Rendering /\ Rendering' =>
          /\ posted # <<>>
          /\ Head(posted) # NoStream
          /\ mIn' = Head(posted)]_vars

\* The view keeps its promises about streams and render threads.
Contract == INSTANCE PlaybackContract WITH
                renderers <- {t \in Threads : Alive(t)},
                inUse     <- reading,
                lease     <- status

ContractSpec == Contract!Spec

=============================================================================
