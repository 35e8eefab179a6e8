--------------------------- MODULE MjpegView_proof ---------------------------
(***************************************************************************)
(* Theorems about MjpegView, for every set of threads and of streams and   *)
(* every bound on the tasks.  IInv is the inductive invariant behind them. *)
(***************************************************************************)
EXTENDS MjpegView, TLAPS, SequenceTheorems

\* A thread object that exists is the one the view knows.
ThreadInv ==
    /\ \A t \in Threads : pc[t] # "none" => thread = t
    /\ thread # NoThread => pc[thread] # "none"

\* What mRun and suspending say about the thread and the stream, outside
\* stopPlayback and while it waits.
StopInv ==
    /\ ui = "join" => thread # NoThread /\ ~mRun
    /\ suspending => ~mRun /\ (thread = NoThread \/ ui = "join")
    /\ mRun => thread # NoThread /\ pc[thread] # "new"
    /\ Rendering => mRun \/ ui = "join"
    /\ mIn # NoStream => mRun \/ ui = "join"

\* Who refers to a stream, and that no stream is posted twice.
StreamInv ==
    /\ mIn # NoStream => status[mIn] = "open"
    /\ \A t \in Threads : reading[t] # NoStream => status[reading[t]] = "open"
    /\ \A t \in Threads : pc[t] = "read" <=> reading[t] # NoStream
    /\ \A i \in 1..Len(posted) :
          posted[i] # NoStream => status[posted[i]] = "open" /\ posted[i] # mIn
    /\ \A i, j \in 1..Len(posted) :
          posted[i] # NoStream /\ i # j => posted[i] # posted[j]

\* A thread that is past surfaceDone without a surface has lost it there.
SurfaceInv ==
    /\ ~surface /\ surfaceDone => ui = "destroyed"
    /\ \A t \in Threads :
          Alive(t) /\ ~surface /\ (surfaceDone \/ pc[t] # "loop")
             => "surfaceLost" \in events

\* rgb dangles inside freeCameraMemory only, and a render thread holds a
\* pointer into it only while it writes or copies a frame.
BufferInv ==
    /\ rgb = "dangling" <=> ui = "freed"
    /\ rgb = "dangling" => "freed" \in events
    /\ rgb = "dangling" /\ Rendering => "freedLive" \in events
    /\ rgb = "null" /\ sized => "freed" \in events
    /\ rgb # "null" => sized
    /\ \A t \in Threads :
          /\ buf[t] # "none" => pc[t] \in {"write", "copying"}
          /\ buf[t] = "freed" => "freedLive" \in events
          /\ buf[t] = "null" => "freed" \in events

\* A thread renders without a stream, or is over before it is stopped, only
\* after the event that leads to it.
SourceInv ==
    /\ Rendering /\ mIn = NoStream => "nullSource" \in events
    /\ thread # NoThread /\ pc[thread] = "dead"
          => "ended" \in events \/ ui = "join"

\* What the threads and the UI thread know of each other.
ProtocolInv == TypeOK /\ ThreadInv /\ StopInv

IInv ==
    /\ ProtocolInv
    /\ StreamInv
    /\ SurfaceInv
    /\ BufferInv
    /\ SourceInv
    /\ FaultHasCause

USE NullAssumption, MaxReadsAssumption

-----------------------------------------------------------------------------
(* Types.                                                                  *)

\* A newly made view is well typed.
LEMMA InitTypeOK == Init => TypeOK
<1> SUFFICES ASSUME Init PROVE TypeOK
  OBVIOUS
<1> USE DEF Init
<1>1. posted \in Seq(Results)
  OBVIOUS
<1>2. pc \in [Threads -> ThreadStates]
  BY DEF ThreadStates
<1>3. reading \in [Threads -> Results] /\ mIn \in Results
  BY DEF Results
<1>4. /\ buf \in [Threads -> {"none", "null", "live", "freed"}]
      /\ status \in [Streams -> {"none", "open", "closed"}]
  OBVIOUS
<1> QED
  BY <1>1, <1>2, <1>3, <1>4 DEF TypeOK, UIStates, Faults, ClientFaults, Events

\* The stream at the head of posted is a result, and so are those behind it.
LEMMA PostedHead ==
    ASSUME posted \in Seq(Results), posted # <<>>
    PROVE  /\ Head(posted) \in Results
           /\ Tail(posted) \in Seq(Results)
BY HeadTailProperties

\* No step of the view takes a variable out of its type.
LEMMA StepTypeOK == TypeOK /\ [Next]_vars => TypeOK'
<1> SUFFICES ASSUME TypeOK, [Next]_vars PROVE TypeOK'
  OBVIOUS
<1> USE DEF TypeOK, UIStates, ThreadStates, Faults, ClientFaults, Events,
            viewVars, renderVars, nativeVars, taskVars, Note, Alive
<1>1. CASE PauseVideo
  BY <1>1 DEF PauseVideo, stopPlayback, CloseSource, UIReady, Results
<1>2. CASE PlayVideo
  BY <1>2 DEF PlayVideo, UIReady
<1>3. CASE FreeCameraMemory
  BY <1>3 DEF FreeCameraMemory, UIReady
<1>4. CASE ClearCameraMemory
  BY <1>4 DEF ClearCameraMemory
<1>5. CASE SurfaceCreated
  BY <1>5 DEF SurfaceCreated, UIReady
<1>6. CASE SurfaceLost
  BY <1>6 DEF SurfaceLost, UIReady
<1>7. CASE SurfaceDestroyed
  BY <1>7 DEF SurfaceDestroyed, stopPlayback, CloseSource, Results
<1>8. CASE JoinReturns
  BY <1>8 DEF JoinReturns, CloseSource, Results
<1>9. CASE DoInBackground
  <2>1. queued' \in Nat
    BY <1>9 DEF DoInBackground
  <2>3. ASSUME NEW r \in Results, posted' = Append(posted, r)
        PROVE  posted' \in Seq(Results)
    BY <2>3, AppendProperties
  <2>4. \E r \in Results : posted' = Append(posted, r)
    BY <1>9 DEF DoInBackground, Results
  <2>2. status' \in [Streams -> {"none", "open", "closed"}]
    BY <1>9 DEF DoInBackground
  <2> QED
    BY <1>9, <2>1, <2>2, <2>3, <2>4 DEF DoInBackground
<1>10. CASE OnPostExecute
  <2>1. mIn' \in Results /\ posted' \in Seq(Results)
    BY <1>10, PostedHead DEF OnPostExecute, setSource
  <2> QED
    BY <1>10, <2>1 DEF OnPostExecute, setSource, startPlayback, resumePlayback,
       StartNewThread, UIReady
<1>11. ASSUME NEW t \in Threads, Render(t)
       PROVE  TypeOK'
  <2> USE DEF Render, Goes, Dies, Ends
  <2>1. CASE Loop(t)
    BY <1>11, <2>1 DEF Loop
  <2>2. CASE Frame(t)
    <3>1. fault' \in Faults
      BY <1>11, <2>2 DEF Frame
    <3>2. pc' \in [Threads -> ThreadStates]
      BY <1>11, <2>2 DEF Frame
    <3>3. reading' \in [Threads -> Results]
      BY <1>11, <2>2 DEF Frame, Results
    <3> QED
      BY <1>11, <2>2, <3>1, <3>2, <3>3 DEF Frame
  <2>3. CASE Read(t)
    <3>1. fault' \in Faults
      BY <1>11, <2>3 DEF Read
    <3>2. pc' \in [Threads -> ThreadStates]
      BY <1>11, <2>3 DEF Read
    <3>3. reading' \in [Threads -> Results]
      BY <1>11, <2>3 DEF Read, Results
    <3> QED
      BY <1>11, <2>3, <3>1, <3>2, <3>3 DEF Read
  <2>4. CASE Decode(t)
    BY <1>11, <2>4 DEF Decode
  <2>5. CASE Write(t)
    BY <1>11, <2>5 DEF Write
  <2>6. CASE Copy(t)
    BY <1>11, <2>6 DEF Copy, Results
  <2>7. CASE Copying(t)
    <3>1. fault' \in Faults
      BY <1>11, <2>7 DEF Copying
    <3>2. pc' \in [Threads -> ThreadStates]
      BY <1>11, <2>7 DEF Copying
    <3>3. reading' \in [Threads -> Results]
      BY <1>11, <2>7 DEF Copying, Results
    <3> QED
      BY <1>11, <2>7, <3>1, <3>2, <3>3 DEF Copying
  <2>8. CASE Lock(t)
    BY <1>11, <2>8 DEF Lock
  <2>9. CASE Draw(t)
    BY <1>11, <2>9 DEF Draw
  <2> QED
    BY <1>11, <2>1, <2>2, <2>3, <2>4, <2>5, <2>6, <2>7, <2>8, <2>9
<1>12. ASSUME NEW s \in Streams, Collect(s)
       PROVE  TypeOK'
  BY <1>12 DEF Collect
<1>13. CASE UNCHANGED vars
  BY <1>13 DEF vars
<1>14. CASE ClientDies
  BY <1>14 DEF ClientDies, UIReady
<1> QED
  BY <1>1, <1>2, <1>3, <1>4, <1>5, <1>6, <1>7, <1>8, <1>9, <1>10, <1>11,
     <1>12, <1>13, <1>14 DEF Next, Client, UIThread, Dead

-----------------------------------------------------------------------------
(* The threads and the UI thread.                                          *)

\* What a step of a render thread may do to its place in run().
LEMMA RenderMoves ==
    ASSUME TypeOK, NEW t \in Threads, Render(t)
    PROVE  /\ Alive(t)
           /\ \E to \in ThreadStates \ {"none", "new"} :
                 /\ pc' = [pc EXCEPT ![t] = to]
                 /\ to = "dead" => ~mRun \/ "ended" \in events'
           /\ events \subseteq events'
           /\ UNCHANGED <<viewVars, surfaceDone, surface, ui, status,
                          taskVars>>
<1>1. ASSUME NEW from \in ThreadStates \ {"none", "new", "dead"},
             NEW why \in Faults, Dies(t, from, why)
      PROVE  /\ Alive(t)
             /\ pc' = [pc EXCEPT ![t] = from]
             /\ from # "dead"
             /\ events' = events
  BY <1>1 DEF Dies, TypeOK, Alive
<1>2. ASSUME NEW from \in ThreadStates \ {"none", "new", "dead"},
             NEW to \in ThreadStates \ {"none", "new"}, Goes(t, from, to)
      PROVE  Alive(t) /\ pc' = [pc EXCEPT ![t] = to]
  BY <1>2 DEF Goes, Alive
<1> DEFINE Move ==
      \E to \in ThreadStates \ {"none", "new"} :
         /\ pc' = [pc EXCEPT ![t] = to]
         /\ to = "dead" => ~mRun \/ "ended" \in events'
<1> SUFFICES Alive(t) /\ Move /\ events \subseteq events'
  BY DEF Render
<1> USE DEF ThreadStates, Faults, ClientFaults
<1>3. CASE Loop(t)
  BY <1>3, <1>2 DEF Loop
<1>4. CASE Frame(t)
  BY <1>4, <1>1, <1>2 DEF Frame
<1>5. CASE Read(t)
  <2>1. CASE Ends(t, "read")
    BY <2>1, <1>2 DEF Ends
  <2>2. CASE Dies(t, "read", "badFrame")
    BY <2>2, <1>1
  <2>3. CASE /\ Goes(t, "read", "decode") \/ Goes(t, "read", "loop")
             /\ events' = events
    BY <2>3, <1>2
  <2> QED
    BY <1>5, <2>1, <2>2, <2>3 DEF Read
<1>6. CASE Decode(t)
  BY <1>6, <1>2 DEF Decode
<1>7. CASE Write(t)
  BY <1>7, <1>1, <1>2 DEF Write
<1>8. CASE Copy(t)
  BY <1>8, <1>2 DEF Copy, Ends
<1>9. CASE Copying(t)
  BY <1>9, <1>1, <1>2 DEF Copying
<1>10. CASE Lock(t)
  BY <1>10, <1>1, <1>2 DEF Lock
<1>11. CASE Draw(t)
  BY <1>11, <1>2 DEF Draw
<1> QED
  BY <1>3, <1>4, <1>5, <1>6, <1>7, <1>8, <1>9, <1>10, <1>11 DEF Render

\* A newly made view has one thread, which has not been started.
LEMMA InitProtocolInv == Init => ProtocolInv
BY InitTypeOK DEF Init, ProtocolInv, ThreadInv, StopInv, Alive, Rendering

\* The actions that touch neither the view's fields nor the render threads.
LEMMA QuietProtocolInv ==
    ASSUME ProtocolInv, TypeOK', UNCHANGED <<viewVars, pc>>,
           ui' = "join" <=> ui = "join"
    PROVE  ProtocolInv'
BY DEF ProtocolInv, ThreadInv, StopInv, viewVars, Rendering, Alive

\* stopPlayback leaves the thread to the join, or has none to wait for.
LEMMA stopPlaybackProtocolInv ==
    ASSUME ProtocolInv, TypeOK', ui # "join", stopPlayback
    PROVE  ProtocolInv'
<1> USE DEF ProtocolInv, ThreadInv, StopInv, renderVars, Alive, Rendering
<1>1. ThreadInv'
  BY DEF stopPlayback
<1>2. CASE thread = NoThread
  <2>1. ~Rendering'
    BY <1>2 DEF stopPlayback
  <2> QED
    BY <1>1, <1>2, <2>1 DEF stopPlayback, CloseSource
<1>3. CASE thread # NoThread
  BY <1>1, <1>3 DEF stopPlayback
<1> QED
  BY <1>2, <1>3

\* Every step keeps the bond between mRun, mIn and the one thread.
LEMMA StepProtocolInv == ProtocolInv /\ [Next]_vars => ProtocolInv'
<1> SUFFICES ASSUME ProtocolInv, [Next]_vars PROVE ProtocolInv'
  OBVIOUS
<1>t. TypeOK /\ TypeOK'
  BY StepTypeOK DEF ProtocolInv
<1>1. CASE PauseVideo
  BY <1>1, <1>t, stopPlaybackProtocolInv DEF PauseVideo, UIReady
<1>2. CASE PlayVideo
  BY <1>2, <1>t, QuietProtocolInv DEF PlayVideo, renderVars
<1>3. CASE FreeCameraMemory
  BY <1>3, <1>t, QuietProtocolInv DEF FreeCameraMemory, UIReady, renderVars
<1>4. CASE ClearCameraMemory
  BY <1>4, <1>t, QuietProtocolInv DEF ClearCameraMemory, renderVars
<1>5. CASE SurfaceCreated
  BY <1>5, <1>t, QuietProtocolInv DEF SurfaceCreated, renderVars
<1>6. CASE SurfaceLost
  BY <1>6, <1>t, QuietProtocolInv DEF SurfaceLost, UIReady, renderVars
<1>7. CASE SurfaceDestroyed
  BY <1>7, <1>t, stopPlaybackProtocolInv DEF SurfaceDestroyed
<1>8. CASE JoinReturns
  BY <1>8, <1>t DEF JoinReturns, CloseSource, ProtocolInv, TypeOK, ThreadInv,
     StopInv, Rendering, Alive
<1>9. CASE DoInBackground
  BY <1>9, <1>t, QuietProtocolInv DEF DoInBackground, renderVars
<1>10. CASE OnPostExecute
  <2> DEFINE source == Head(posted)
  <2>1. mIn' = source /\ ui = "idle" /\ ui' = "idle"
    BY <1>10 DEF OnPostExecute, setSource, UIReady
  <2> USE DEF ProtocolInv, TypeOK, ThreadInv, StopInv, Rendering, Alive
  <2>2. CASE startPlayback(source)
    <3>1. CASE thread = NoThread
      BY <1>t, <2>1, <2>2, <3>1 DEF startPlayback, StartNewThread
    <3>2. CASE thread # NoThread
      BY <1>t, <2>1, <2>2, <3>2 DEF startPlayback
    <3> QED
      BY <3>1, <3>2
  <2>3. CASE resumePlayback(source)
    BY <1>t, <2>1, <2>3 DEF resumePlayback, StartNewThread
  <2>4. CASE source = NoStream /\ UNCHANGED <<mRun, suspending, thread, pc>>
    BY <1>t, <2>1, <2>4
  <2> QED
    BY <1>10, <2>2, <2>3, <2>4 DEF OnPostExecute, setSource
<1>11. ASSUME NEW t \in Threads, Render(t)
       PROVE  ProtocolInv'
  <2>1. PICK to \in ThreadStates \ {"none", "new"} :
           pc' = [pc EXCEPT ![t] = to]
    BY <1>11, <1>t, RenderMoves
  <2>2. Alive(t) /\ UNCHANGED <<viewVars, ui>>
    BY <1>11, <1>t, RenderMoves
  <2> QED
    BY <1>t, <2>1, <2>2 DEF ProtocolInv, TypeOK, ThreadInv, StopInv,
       Rendering, Alive, viewVars
<1>12. ASSUME NEW s \in Streams, Collect(s)
       PROVE  ProtocolInv'
  BY <1>12, <1>t, QuietProtocolInv DEF Collect, renderVars
<1>13. CASE UNCHANGED vars
  BY <1>13, <1>t, QuietProtocolInv DEF vars, renderVars
<1>14. CASE ClientDies
  BY <1>14, <1>t, QuietProtocolInv DEF ClientDies, renderVars
<1> QED
  BY <1>1, <1>2, <1>3, <1>4, <1>5, <1>6, <1>7, <1>8, <1>9, <1>10, <1>11,
     <1>12, <1>13, <1>14 DEF Next, Client, UIThread, Dead

-----------------------------------------------------------------------------
(* The streams.                                                            *)

\* At first no stream is held, read or posted.
LEMMA InitStreamInv == Init => StreamInv
BY DEF Init, StreamInv

\* The actions that leave the streams and the tasks alone.
LEMMA QuietStreamInv ==
    ASSUME StreamInv, UNCHANGED <<mIn, pc, reading, status, posted>>
    PROVE  StreamInv'
BY DEF StreamInv

\* Closing the view's stream leaves every other stream as it was.
LEMMA CloseSourceStreamInv ==
    ASSUME TypeOK, StreamInv, CloseSource, UNCHANGED <<reading, posted>>,
           \A t \in Threads : pc[t] # "read" /\ pc'[t] # "read"
    PROVE  StreamInv'
<1>1. \A t \in Threads : reading[t] = NoStream
  BY DEF StreamInv
<1>2. \A i \in 1..Len(posted) : posted[i] \in Results
  BY DEF TypeOK
<1>3. \A i \in 1..Len(posted) :
         posted[i] # NoStream => status'[posted[i]] = status[posted[i]]
  BY <1>2 DEF StreamInv, CloseSource, Results
<1> QED
  BY <1>1, <1>2, <1>3 DEF StreamInv, CloseSource

\* stopPlayback closes the view's stream only when nothing reads it.
LEMMA stopPlaybackStreamInv ==
    ASSUME ProtocolInv, StreamInv, stopPlayback
    PROVE  StreamInv'
<1>1. CASE thread # NoThread
  BY <1>1, QuietStreamInv DEF stopPlayback, renderVars, taskVars
<1>2. CASE thread = NoThread
  <2>1. \A t \in Threads : pc[t] = "none"
    BY <1>2 DEF ProtocolInv, ThreadInv
  <2> QED
    BY <1>2, <2>1, CloseSourceStreamInv
       DEF stopPlayback, renderVars, taskVars, ProtocolInv
<1> QED
  BY <1>1, <1>2

\* After the join no thread reads the stream that is closed.
LEMMA JoinReturnsStreamInv ==
    ASSUME ProtocolInv, StreamInv, JoinReturns
    PROVE  StreamInv'
<1>1. \A t \in Threads : pc[t] # "read" /\ pc'[t] # "read"
  BY DEF JoinReturns, ProtocolInv, TypeOK, ThreadInv, Alive
<1> QED
  BY <1>1, CloseSourceStreamInv DEF JoinReturns, ProtocolInv, taskVars

\* A stream that is opened now was nobody's before.
LEMMA DoInBackgroundStreamInv ==
    ASSUME TypeOK, StreamInv, DoInBackground
    PROVE  StreamInv'
<1>1. ASSUME NEW r \in Results,
             posted' = Append(posted, r),
             r = NoStream => status' = status,
             r # NoStream => /\ status[r] = "none"
                             /\ status' = [status EXCEPT ![r] = "open"],
             UNCHANGED <<mIn, pc, reading>>
      PROVE  StreamInv'
  <2>1. /\ Len(posted') = Len(posted) + 1
        /\ Len(posted) \in Nat
        /\ posted'[Len(posted) + 1] = r
        /\ \A i \in 1..Len(posted) :
              posted'[i] = posted[i] /\ posted[i] \in Results
    BY <1>1, AppendProperties DEF TypeOK
  <2>2. \A s \in Streams : status[s] = "open" => status'[s] = "open"
    BY <1>1 DEF TypeOK, Results
  <2>3. r # NoStream => /\ r # mIn
                        /\ status'[r] = "open"
                        /\ \A i \in 1..Len(posted) : posted[i] # r
    BY <1>1 DEF TypeOK, Results, StreamInv
  <2>4. /\ mIn' # NoStream => status'[mIn'] = "open"
        /\ \A t \in Threads :
              reading'[t] # NoStream => status'[reading'[t]] = "open"
        /\ \A t \in Threads : pc'[t] = "read" <=> reading'[t] # NoStream
    BY <1>1, <2>2 DEF TypeOK, Results, StreamInv
  <2>5. \A i \in 1..Len(posted') :
           posted'[i] # NoStream
              => status'[posted'[i]] = "open" /\ posted'[i] # mIn'
    <3> TAKE i \in 1..Len(posted')
    <3>1. CASE i \in 1..Len(posted)
      BY <1>1, <2>1, <2>2, <3>1 DEF Results, StreamInv
    <3>2. CASE i = Len(posted) + 1
      BY <1>1, <2>1, <2>3, <3>2
    <3> QED
      BY <2>1, <3>1, <3>2
  <2>6. \A i, j \in 1..Len(posted') :
           posted'[i] # NoStream /\ i # j => posted'[i] # posted'[j]
    <3> TAKE i, j \in 1..Len(posted')
    <3>1. CASE i \in 1..Len(posted) /\ j \in 1..Len(posted)
      BY <2>1, <3>1 DEF StreamInv
    <3>2. CASE i = Len(posted) + 1 /\ j \in 1..Len(posted)
      BY <2>1, <2>3, <3>2
    <3>3. CASE i \in 1..Len(posted) /\ j = Len(posted) + 1
      BY <2>1, <2>3, <3>3
    <3> QED
      BY <2>1, <3>1, <3>2, <3>3
  <2> QED
    BY <2>4, <2>5, <2>6 DEF StreamInv
<1> QED
  BY <1>1 DEF DoInBackground, viewVars, renderVars, Results

\* The stream at the head of posted becomes the view's, open as it is.
LEMMA OnPostExecuteStreamInv ==
    ASSUME ProtocolInv, StreamInv, OnPostExecute
    PROVE  StreamInv'
<1>1. /\ posted' = Tail(posted)
      /\ mIn' = Head(posted)
      /\ UNCHANGED <<reading, status>>
  BY DEF OnPostExecute, setSource
<1>2. /\ Len(posted') = Len(posted) - 1
      /\ Len(posted) \in Nat \ {0}
      /\ posted[1] = mIn'
      /\ \A i \in 1..Len(posted') : posted'[i] = posted[i + 1]
  BY <1>1, HeadTailProperties DEF OnPostExecute, ProtocolInv, TypeOK
<1>3. \A t \in Threads : pc'[t] = "read" <=> pc[t] = "read"
  BY DEF OnPostExecute, setSource, startPlayback, resumePlayback,
     StartNewThread, ProtocolInv, TypeOK
<1>4. mIn' # NoStream => status'[mIn'] = "open"
  BY <1>1, <1>2 DEF StreamInv
<1>5. \A i \in 1..Len(posted') :
         posted'[i] # NoStream
            => status'[posted'[i]] = "open" /\ posted'[i] # mIn'
  <2> TAKE i \in 1..Len(posted')
  <2>1. i + 1 \in 1..Len(posted) /\ i + 1 # 1 /\ 1 \in 1..Len(posted)
    BY <1>2
  <2> QED
    BY <1>1, <1>2, <2>1 DEF StreamInv
<1>6. \A i, j \in 1..Len(posted') :
         posted'[i] # NoStream /\ i # j => posted'[i] # posted'[j]
  <2> TAKE i, j \in 1..Len(posted')
  <2>1. /\ i + 1 \in 1..Len(posted) /\ j + 1 \in 1..Len(posted)
        /\ i # j => i + 1 # j + 1
    BY <1>2
  <2> QED
    BY <1>2, <2>1 DEF StreamInv
<1> QED
  BY <1>1, <1>3, <1>4, <1>5, <1>6 DEF StreamInv

\* Only Frame takes a stream to read, and only the view's stream.
LEMMA RenderStreamInv ==
    ASSUME TypeOK, StreamInv, NEW t \in Threads, Render(t)
    PROVE  StreamInv'
<1>1. UNCHANGED <<mIn, status, posted>>
  BY DEF Render, viewVars, taskVars
<1> SUFFICES
      /\ \A u \in Threads :
            reading'[u] # NoStream => status[reading'[u]] = "open"
      /\ \A u \in Threads : pc'[u] = "read" <=> reading'[u] # NoStream
  BY <1>1 DEF StreamInv
<1> USE DEF TypeOK, StreamInv, Goes, Dies, Ends
<1>2. CASE Loop(t)
  BY <1>2 DEF Loop
<1>3. CASE Frame(t)
  BY <1>3 DEF Frame, Results
<1>4. CASE Read(t)
  <2>1. CASE /\ Goes(t, "read", "decode") \/ Goes(t, "read", "loop")
             /\ reading' = [reading EXCEPT ![t] = NoStream]
    BY <2>1
  <2>2. CASE Ends(t, "read")
    BY <2>2
  <2>3. CASE Dies(t, "read", "badFrame")
    BY <2>3
  <2> QED
    BY <1>4, <2>1, <2>2, <2>3 DEF Read
<1>5. CASE Decode(t)
  BY <1>5 DEF Decode
<1>6. CASE Write(t)
  BY <1>6 DEF Write
<1>7. CASE Copy(t)
  BY <1>7 DEF Copy
<1>8. CASE Copying(t)
  BY <1>8 DEF Copying
<1>9. CASE Lock(t)
  BY <1>9 DEF Lock
<1>10. CASE Draw(t)
  BY <1>10 DEF Draw
<1> QED
  BY <1>2, <1>3, <1>4, <1>5, <1>6, <1>7, <1>8, <1>9, <1>10 DEF Render

\* The collector takes only what nobody refers to.
LEMMA CollectStreamInv ==
    ASSUME StreamInv, TypeOK, NEW s \in Streams, Collect(s)
    PROVE  StreamInv'
BY DEF Collect, StreamInv, TypeOK, Results, viewVars, renderVars, taskVars

\* Every step keeps the streams that are held, read or posted open.
LEMMA StepStreamInv ==
    ProtocolInv /\ StreamInv /\ [Next]_vars => StreamInv'
<1> SUFFICES ASSUME ProtocolInv, StreamInv, [Next]_vars PROVE StreamInv'
  OBVIOUS
<1>t. TypeOK
  BY DEF ProtocolInv
<1> USE DEF viewVars, renderVars, taskVars
<1>1. CASE PauseVideo
  BY <1>1, stopPlaybackStreamInv DEF PauseVideo
<1>2. CASE PlayVideo
  BY <1>2, QuietStreamInv DEF PlayVideo
<1>3. CASE FreeCameraMemory
  BY <1>3, QuietStreamInv DEF FreeCameraMemory
<1>4. CASE ClearCameraMemory
  BY <1>4, QuietStreamInv DEF ClearCameraMemory
<1>5. CASE SurfaceCreated
  BY <1>5, QuietStreamInv DEF SurfaceCreated
<1>6. CASE SurfaceLost
  BY <1>6, QuietStreamInv DEF SurfaceLost
<1>7. CASE SurfaceDestroyed
  BY <1>7, stopPlaybackStreamInv DEF SurfaceDestroyed
<1>8. CASE UNCHANGED vars
  BY <1>8, QuietStreamInv DEF vars
<1>9. CASE ClientDies
  BY <1>9, QuietStreamInv DEF ClientDies
<1> QED
  BY <1>t, <1>1, <1>2, <1>3, <1>4, <1>5, <1>6, <1>7, <1>8, <1>9,
     JoinReturnsStreamInv, DoInBackgroundStreamInv, OnPostExecuteStreamInv,
     RenderStreamInv, CollectStreamInv DEF Next, Client, UIThread, Dead

-----------------------------------------------------------------------------
(* The surface.                                                            *)

\* A newly made view has no surface and knows it.
LEMMA InitSurfaceInv == Init => SurfaceInv
BY DEF Init, SurfaceInv, Alive

\* No thread comes to life, and what was noted stays noted.
LEMMA QuietSurfaceInv ==
    ASSUME SurfaceInv, UNCHANGED <<surface, surfaceDone, pc>>,
           ui = "destroyed" => ui' = "destroyed", events \subseteq events'
    PROVE  SurfaceInv'
BY DEF SurfaceInv, Alive

\* Every step keeps what a thread near the canvas knows of the surface.
LEMMA StepSurfaceInv ==
    ProtocolInv /\ SurfaceInv /\ [Next]_vars => SurfaceInv'
<1> SUFFICES ASSUME ProtocolInv, SurfaceInv, [Next]_vars PROVE SurfaceInv'
  OBVIOUS
<1>t. TypeOK
  BY DEF ProtocolInv
<1> USE DEF viewVars, renderVars
<1>1. CASE PauseVideo
  BY <1>1, QuietSurfaceInv DEF PauseVideo, stopPlayback, UIReady
<1>2. CASE PlayVideo
  BY <1>2, QuietSurfaceInv DEF PlayVideo
<1>3. CASE FreeCameraMemory
  BY <1>3, QuietSurfaceInv DEF FreeCameraMemory, UIReady
<1>4. CASE ClearCameraMemory
  BY <1>4, QuietSurfaceInv DEF ClearCameraMemory
<1>5. CASE SurfaceCreated
  BY <1>5 DEF SurfaceCreated, SurfaceInv
<1>6. CASE SurfaceLost
  BY <1>6 DEF SurfaceLost, SurfaceInv, Note, Rendering, Alive
<1>7. CASE SurfaceDestroyed
  BY <1>7 DEF SurfaceDestroyed, stopPlayback, SurfaceInv, Alive
<1>8. CASE JoinReturns
  BY <1>8, <1>t DEF JoinReturns, SurfaceInv, Alive, TypeOK
<1>9. CASE DoInBackground
  BY <1>9, QuietSurfaceInv DEF DoInBackground
<1>10. CASE OnPostExecute
  \* A thread that starts is at the loop, and the surface is not going.
  <2>1. /\ ui = "idle"
        /\ UNCHANGED <<surface, surfaceDone, ui>>
        /\ events \subseteq events'
    BY <1>10 DEF OnPostExecute, setSource, UIReady, Note
  <2>2. \A t \in Threads : pc'[t] # "loop" => pc'[t] = pc[t]
    BY <1>10, <1>t DEF OnPostExecute, setSource, startPlayback, resumePlayback,
       StartNewThread, TypeOK
  <2> QED
    BY <2>1, <2>2 DEF SurfaceInv, Alive
<1>11. ASSUME NEW t \in Threads, Render(t)
       PROVE  SurfaceInv'
  <2>1. PICK to \in ThreadStates \ {"none", "new"} :
           pc' = [pc EXCEPT ![t] = to]
    BY <1>11, <1>t, RenderMoves
  <2>2. /\ Alive(t)
        /\ events \subseteq events'
        /\ UNCHANGED <<surface, surfaceDone, ui>>
    BY <1>11, <1>t, RenderMoves
  <2>3. ~surface /\ pc[t] = "loop" /\ ~surfaceDone => to \in {"loop", "dead"}
    BY <1>11, <1>t, <2>1 DEF Render, Loop, Frame, Read, Decode, Write, Copy,
       Copying, Lock, Draw, Goes, Dies, Ends, TypeOK
  <2> QED
    BY <1>t, <2>1, <2>2, <2>3 DEF SurfaceInv, Alive, TypeOK
<1>12. ASSUME NEW s \in Streams, Collect(s)
       PROVE  SurfaceInv'
  BY <1>12, QuietSurfaceInv DEF Collect
<1>13. CASE UNCHANGED vars
  BY <1>13, QuietSurfaceInv DEF vars
<1>14. CASE ClientDies
  BY <1>14, QuietSurfaceInv DEF ClientDies
<1> QED
  BY <1>1, <1>2, <1>3, <1>4, <1>5, <1>6, <1>7, <1>8, <1>9, <1>10, <1>11,
     <1>12, <1>13, <1>14 DEF Next, Client, UIThread, Dead

-----------------------------------------------------------------------------
(* The stream that goes missing, the thread that ends by itself.           *)

\* At first no thread is in its loop.
LEMMA InitSourceInv == Init => SourceInv
BY DEF Init, SourceInv, Rendering, Alive

\* The view's fields stay, and no thread moves on or comes to life.
LEMMA QuietSourceInv ==
    ASSUME SourceInv, UNCHANGED <<mIn, thread, pc>>,
           ui = "join" => ui' = "join", events \subseteq events'
    PROVE  SourceInv'
BY DEF SourceInv, Rendering, Alive

\* With no thread left there is nothing to say.
LEMMA NoThreadSourceInv ==
    ASSUME ProtocolInv', thread' = NoThread
    PROVE  SourceInv'
BY DEF ProtocolInv, ThreadInv, SourceInv, Rendering, Alive

\* stopPlayback forgets the stream only when there is no thread.
LEMMA stopPlaybackSourceInv ==
    ASSUME ProtocolInv', SourceInv, ui # "join", stopPlayback
    PROVE  SourceInv'
<1>1. CASE thread # NoThread
  BY <1>1, QuietSourceInv DEF stopPlayback, renderVars
<1>2. CASE thread = NoThread
  BY <1>2, NoThreadSourceInv DEF stopPlayback
<1> QED
  BY <1>1, <1>2

\* Every step keeps a thread's source, until null is delivered to it.
LEMMA StepSourceInv ==
    ProtocolInv /\ SourceInv /\ [Next]_vars => SourceInv'
<1> SUFFICES ASSUME ProtocolInv, SourceInv, [Next]_vars PROVE SourceInv'
  OBVIOUS
<1>t. TypeOK
  BY DEF ProtocolInv
<1>p. ProtocolInv'
  BY StepProtocolInv
<1> USE DEF viewVars, renderVars
<1>1. CASE PauseVideo
  BY <1>1, <1>p, stopPlaybackSourceInv DEF PauseVideo, UIReady
<1>2. CASE PlayVideo
  BY <1>2, QuietSourceInv DEF PlayVideo
<1>3. CASE FreeCameraMemory
  BY <1>3, QuietSourceInv DEF FreeCameraMemory, UIReady
<1>4. CASE ClearCameraMemory
  BY <1>4, QuietSourceInv DEF ClearCameraMemory
<1>5. CASE SurfaceCreated
  BY <1>5, QuietSourceInv DEF SurfaceCreated
<1>6. CASE SurfaceLost
  BY <1>6, QuietSourceInv DEF SurfaceLost, UIReady, Note
<1>7. CASE SurfaceDestroyed
  BY <1>7, <1>p, stopPlaybackSourceInv DEF SurfaceDestroyed
<1>8. CASE JoinReturns
  BY <1>8, <1>p, NoThreadSourceInv DEF JoinReturns
<1>9. CASE DoInBackground
  BY <1>9, QuietSourceInv DEF DoInBackground
<1>10. CASE OnPostExecute
  <2> DEFINE source == Head(posted)
  <2>1. /\ mIn' = source
        /\ ui' = "idle" /\ ui = "idle"
        /\ events \subseteq events'
        /\ source = NoStream /\ Rendering => "nullSource" \in events'
    BY <1>10 DEF OnPostExecute, setSource, UIReady, Note
  <2>2. CASE source = NoStream
    BY <1>10, <2>1, <2>2 DEF OnPostExecute, setSource, startPlayback,
       resumePlayback, SourceInv, Rendering, Alive
  <2>3. CASE source # NoStream
    <3>1. /\ thread' # NoThread /\ pc'[thread'] = "dead"
             => thread' = thread /\ pc[thread] = "dead"
      BY <1>10, <1>t, <2>3 DEF OnPostExecute, setSource, startPlayback,
         resumePlayback, StartNewThread, TypeOK
    <3> QED
      BY <2>1, <2>3, <3>1 DEF SourceInv
  <2> QED
    BY <2>2, <2>3
<1>11. ASSUME NEW t \in Threads, Render(t)
       PROVE  SourceInv'
  <2>1. PICK to \in ThreadStates \ {"none", "new"} :
           /\ pc' = [pc EXCEPT ![t] = to]
           /\ to = "dead" => ~mRun \/ "ended" \in events'
    BY <1>11, <1>t, RenderMoves
  <2>2. /\ Alive(t)
        /\ events \subseteq events'
        /\ UNCHANGED <<mIn, mRun, thread, ui>>
    BY <1>11, <1>t, RenderMoves
  <2>3. Rendering /\ (mRun \/ ui = "join")
    BY <2>2 DEF Rendering, ProtocolInv, StopInv
  <2> QED
    BY <1>t, <2>1, <2>2, <2>3 DEF SourceInv, TypeOK
<1>12. ASSUME NEW s \in Streams, Collect(s)
       PROVE  SourceInv'
  BY <1>12, QuietSourceInv DEF Collect
<1>13. CASE UNCHANGED vars
  BY <1>13, QuietSourceInv DEF vars
<1>14. CASE ClientDies
  BY <1>14, QuietSourceInv DEF ClientDies
<1> QED
  BY <1>1, <1>2, <1>3, <1>4, <1>5, <1>6, <1>7, <1>8, <1>9, <1>10, <1>11,
     <1>12, <1>13, <1>14 DEF Next, Client, UIThread, Dead

-----------------------------------------------------------------------------
(* The native frame buffer.                                                *)

\* At first there is no buffer and no pointer to it.
LEMMA InitBufferInv == Init => BufferInv
BY DEF Init, BufferInv, Rendering, Alive

\* The buffer is left alone and no thread comes to life.
LEMMA QuietBufferInv ==
    ASSUME BufferInv, UNCHANGED <<nativeVars, pc>>,
           ui' = "freed" <=> ui = "freed", events \subseteq events'
    PROVE  BufferInv'
BY DEF BufferInv, nativeVars, Rendering, Alive

\* The render thread takes pointers to freed memory only after a free.
LEMMA RenderBufferInv ==
    ASSUME ProtocolInv, BufferInv, NEW t \in Threads, Render(t)
    PROVE  BufferInv'
<1>t. TypeOK
  BY DEF ProtocolInv
<1>1. PICK to \in ThreadStates \ {"none", "new"} : pc' = [pc EXCEPT ![t] = to]
  BY <1>t, RenderMoves
<1>2. /\ Rendering
      /\ events \subseteq events'
      /\ ui' = ui
  BY <1>t, RenderMoves DEF Rendering
<1>3. ASSUME UNCHANGED nativeVars, buf[t] = "none"
      PROVE  BufferInv'
  BY <1>t, <1>1, <1>2, <1>3 DEF BufferInv, nativeVars, TypeOK
<1>4. ASSUME UNCHANGED <<rgb, sized>>, buf' = [buf EXCEPT ![t] = "none"]
      PROVE  BufferInv'
  BY <1>t, <1>1, <1>2, <1>4 DEF BufferInv, TypeOK
<1>5. ASSUME UNCHANGED <<nativeVars, pc>>
      PROVE  BufferInv'
  BY <1>2, <1>5, QuietBufferInv
<1>6. ASSUME NEW from, pc[t] = from, from \notin {"write", "copying"}
      PROVE  buf[t] = "none"
  BY <1>6 DEF BufferInv
<1> USE DEF Goes, Dies, Ends
<1>7. CASE Loop(t)
  BY <1>7, <1>3, <1>6 DEF Loop
<1>8. CASE Frame(t)
  BY <1>8, <1>3, <1>5, <1>6 DEF Frame
<1>9. CASE Read(t)
  BY <1>9, <1>3, <1>4, <1>5, <1>6 DEF Read
<1>10. CASE Decode(t)
  <2>1. CASE Goes(t, "decode", "copy") /\ UNCHANGED nativeVars
    BY <2>1, <1>3, <1>6
  <2>2. CASE Goes(t, "decode", "write") /\ ~UNCHANGED nativeVars
    BY <1>10, <1>t, <1>2, <2>2 DEF Decode, BufferInv, TypeOK, Rendering, Alive
  <2> QED
    BY <1>10, <2>1, <2>2, <1>3, <1>6 DEF Decode
<1>11. CASE Write(t)
  BY <1>11, <1>4, <1>5 DEF Write
<1>12. CASE Copy(t)
  <2>1. CASE Ends(t, "copy")
    BY <2>1, <1>4
  <2>2. CASE Goes(t, "copy", "copying") /\ sized
    BY <1>12, <1>t, <1>2, <2>2 DEF Copy, BufferInv, TypeOK, Rendering, Alive
  <2> QED
    BY <1>12, <2>1, <2>2 DEF Copy
<1>13. CASE Copying(t)
  BY <1>13, <1>4, <1>5 DEF Copying
<1>14. CASE Lock(t)
  BY <1>14, <1>3, <1>5, <1>6 DEF Lock
<1>15. CASE Draw(t)
  BY <1>15, <1>3, <1>6 DEF Draw
<1> QED
  BY <1>7, <1>8, <1>9, <1>10, <1>11, <1>12, <1>13, <1>14, <1>15 DEF Render

\* Every step keeps what is known of rgb and the pointers into it.
LEMMA StepBufferInv ==
    ProtocolInv /\ BufferInv /\ [Next]_vars => BufferInv'
<1> SUFFICES ASSUME ProtocolInv, BufferInv, [Next]_vars PROVE BufferInv'
  OBVIOUS
<1>t. TypeOK
  BY DEF ProtocolInv
<1> USE DEF renderVars
<1>1. CASE PauseVideo
  BY <1>1, QuietBufferInv DEF PauseVideo, stopPlayback, UIReady
<1>2. CASE PlayVideo
  BY <1>2, QuietBufferInv DEF PlayVideo
<1>3. CASE FreeCameraMemory
  BY <1>3, <1>t DEF FreeCameraMemory, UIReady, BufferInv, Rendering, Alive,
     TypeOK
<1>4. CASE ClearCameraMemory
  BY <1>4 DEF ClearCameraMemory, BufferInv, Rendering, Alive
<1>5. CASE SurfaceCreated
  BY <1>5, QuietBufferInv DEF SurfaceCreated
<1>6. CASE SurfaceLost
  BY <1>6, QuietBufferInv DEF SurfaceLost, UIReady, Note
<1>7. CASE SurfaceDestroyed
  BY <1>7, QuietBufferInv DEF SurfaceDestroyed, stopPlayback
<1>8. CASE JoinReturns
  BY <1>8, <1>t DEF JoinReturns, BufferInv, Rendering, Alive, TypeOK,
     nativeVars
<1>9. CASE DoInBackground
  BY <1>9, QuietBufferInv DEF DoInBackground
<1>10. CASE OnPostExecute
  <2>1. /\ ui = "idle" /\ ui' = "idle"
        /\ UNCHANGED nativeVars
        /\ events \subseteq events'
    BY <1>10 DEF OnPostExecute, setSource, UIReady, Note
  <2>2. \A t \in Threads : pc[t] \in {"write", "copying"} => pc'[t] = pc[t]
    BY <1>10, <1>t DEF OnPostExecute, setSource, startPlayback, resumePlayback,
       StartNewThread, TypeOK
  <2> QED
    BY <2>1, <2>2 DEF BufferInv, nativeVars
<1>11. ASSUME NEW t \in Threads, Render(t)
       PROVE  BufferInv'
  BY <1>11, RenderBufferInv
<1>12. ASSUME NEW s \in Streams, Collect(s)
       PROVE  BufferInv'
  BY <1>12, QuietBufferInv DEF Collect
<1>13. CASE UNCHANGED vars
  BY <1>13, QuietBufferInv DEF vars
<1>14. CASE ClientDies
  BY <1>14, QuietBufferInv DEF ClientDies
<1> QED
  BY <1>1, <1>2, <1>3, <1>4, <1>5, <1>6, <1>7, <1>8, <1>9, <1>10, <1>11,
     <1>12, <1>13, <1>14 DEF Next, Client, UIThread, Dead

-----------------------------------------------------------------------------
(* What kills the process.                                                 *)

\* A step that kills the process finds its cause among the events.
LEMMA StepFaultHasCause == IInv /\ [Next]_vars => FaultHasCause'
<1> SUFFICES ASSUME IInv, [Next]_vars PROVE FaultHasCause'
  OBVIOUS
<1> USE DEF IInv, ProtocolInv
<1>1. CASE UNCHANGED fault /\ events \subseteq events'
  BY <1>1 DEF FaultHasCause
<1>2. CASE OnPostExecute
  <2>1. CASE UNCHANGED fault
    BY <1>1, <1>2, <2>1 DEF OnPostExecute, Note
  <2>2. CASE fault' # fault
    <3>1. /\ fault' = "illegalStart"
          /\ thread # NoThread /\ pc[thread] = "dead" /\ ui = "idle"
      BY <1>2, <2>2 DEF OnPostExecute, setSource, startPlayback,
         resumePlayback, UIReady
    <3>2. "ended" \in events'
      BY <1>2, <3>1 DEF SourceInv, OnPostExecute, Note
    <3> QED
      BY <3>1, <3>2 DEF FaultHasCause
  <2> QED
    BY <2>1, <2>2
<1>3. ASSUME NEW t \in Threads, Render(t)
      PROVE  FaultHasCause'
  <2> USE DEF Goes, Dies, Ends
  <2>1. CASE UNCHANGED fault
    BY <1>1, <1>3, <2>1, RenderMoves
  <2>2. CASE Frame(t) /\ fault' = "nullStream"
    BY <1>3, <2>2, RenderMoves DEF Frame, SourceInv, Rendering, FaultHasCause
  <2>3. CASE fault' = "badFrame"
    BY <2>3 DEF FaultHasCause
  <2>4. CASE Write(t) /\ fault' = "useAfterFree"
    BY <2>4 DEF Write, BufferInv, FaultHasCause
  <2>5. CASE Copying(t) /\ fault' # fault
    BY <2>5 DEF Copying, BufferInv, FaultHasCause
  <2>6. CASE Lock(t) /\ fault' = "nullCanvas"
    BY <2>6 DEF Lock, SurfaceInv, FaultHasCause, Alive
  <2> QED
    BY <1>3, <2>1, <2>2, <2>3, <2>4, <2>5, <2>6 DEF Render, Loop, Frame,
       Read, Decode, Write, Copy, Copying, Lock, Draw
<1>4. CASE ClientDies
  BY <1>4 DEF ClientDies, ClientFaults, FaultHasCause
<1> QED
  BY <1>1, <1>2, <1>3, <1>4 DEF Next, Client, UIThread, Dead, vars, PlayVideo,
     PauseVideo, FreeCameraMemory, SurfaceCreated, SurfaceLost, Note,
     stopPlayback, JoinReturns, ClearCameraMemory, SurfaceDestroyed,
     DoInBackground, Collect

-----------------------------------------------------------------------------
(* The theorems.                                                           *)

\* A newly made view satisfies the inductive invariant.
LEMMA InitIInv == Init => IInv
BY InitProtocolInv, InitStreamInv, InitSurfaceInv, InitBufferInv,
   InitSourceInv DEF IInv, Init, FaultHasCause

\* Every step of the view keeps the inductive invariant.
LEMMA StepIInv == IInv /\ [Next]_vars => IInv'
BY StepProtocolInv, StepStreamInv, StepSurfaceInv, StepBufferInv,
   StepSourceInv, StepFaultHasCause DEF IInv

\* The inductive invariant holds of every behaviour of the view.
THEOREM Invariance == Spec => []IInv
BY InitIInv, StepIInv, PTL DEF Spec

\* Every variable keeps its type.
THEOREM TypeCorrect == Spec => []TypeOK
<1>1. IInv => TypeOK
  BY DEF IInv, ProtocolInv
<1> QED
  BY <1>1, Invariance, PTL

\* However the client calls the view, two render threads never run at once:
\* every live thread is the one in the field thread (MjpegView.java 203-251).
THEOREM OneRenderer == Spec => []AtMostOneRenderer
<1>1. IInv => AtMostOneRenderer
  BY DEF IInv, ProtocolInv, ThreadInv, AtMostOneRenderer, Alive
<1> QED
  BY <1>1, Invariance, PTL

\* No render thread is inside readMjpegFrame of a stream that stopPlayback has
\* closed or that has been collected.
THEOREM OpenStreams == Spec => []OnlyOpenStreamsAreRead
<1>1. IInv => OnlyOpenStreamsAreRead
  BY DEF IInv, StreamInv, OnlyOpenStreamsAreRead
<1> QED
  BY <1>1, Invariance, PTL

\* When isStreaming() is false and the UI thread is free, pauseVideo has
\* nothing to stop.
THEOREM PauseIsComplete == Spec => []NothingRunsBehindPause
<1>1. IInv => NothingRunsBehindPause
  BY DEF IInv, ProtocolInv, StopInv, NothingRunsBehindPause, isStreaming
<1> QED
  BY <1>1, Invariance, PTL

\* A stream the view holds is rendered, unless a render thread has ended by
\* itself.
THEOREM NoLostStart == Spec => []HeldStreamIsRendered
<1>1. IInv => HeldStreamIsRendered
  <2> SUFFICES ASSUME IInv, ui = "idle", mIn # NoStream, "ended" \notin events
               PROVE  Rendering
    BY DEF HeldStreamIsRendered
  <2> USE DEF IInv, ProtocolInv
  <2>1. thread \in Threads /\ pc[thread] \notin {"none", "new"}
    BY DEF StopInv, ThreadInv, TypeOK
  <2>2. pc[thread] # "dead"
    BY <2>1 DEF SourceInv
  <2> QED
    BY <2>1, <2>2 DEF Rendering, Alive
<1> QED
  BY <1>1, Invariance, PTL

\* Every way to kill the process needs the misuse of the view that leads to it.
THEOREM Causes == Spec => []FaultHasCause
<1>1. IInv => FaultHasCause
  BY DEF IInv
<1> QED
  BY <1>1, Invariance, PTL

\* Only onPostExecute, with a stream, can make a view render that does not.
LEMMA WakingStep ==
    ASSUME ProtocolInv, [Next]_vars, ~Rendering, Rendering'
    PROVE  OnPostExecute /\ Head(posted) # NoStream
<1>1. ~(\A t \in Threads : pc'[t] = pc[t] \/ pc'[t] = "none")
  BY DEF Rendering, Alive
<1>2. ~(\E t \in Threads : Render(t))
  BY RenderMoves DEF ProtocolInv, Rendering
<1>3. ~JoinReturns
  BY <1>1 DEF JoinReturns, ProtocolInv, TypeOK
<1>4. OnPostExecute
  BY <1>1, <1>2, <1>3 DEF Next, Client, UIThread, Dead, vars, renderVars,
     PlayVideo, PauseVideo, FreeCameraMemory, SurfaceCreated, SurfaceLost,
     ClientDies, stopPlayback, ClearCameraMemory, SurfaceDestroyed,
     DoInBackground, Collect
<1>5. Head(posted) # NoStream
  BY <1>1, <1>4 DEF OnPostExecute, setSource, startPlayback, resumePlayback
<1> QED
  BY <1>4, <1>5

\* Rendering begins only with a stream that onPostExecute has just delivered.
THEOREM NoSpontaneousStart == Spec => RenderingBeginsWithASource
<1>1. ASSUME IInv, [Next]_vars
      PROVE  [~Rendering /\ Rendering' =>
                 /\ posted # <<>>
                 /\ Head(posted) # NoStream
                 /\ mIn' = Head(posted)]_vars
  BY <1>1, WakingStep DEF IInv, OnPostExecute, setSource
<1> QED
  BY <1>1, Invariance, PTL DEF Spec, RenderingBeginsWithASource

-----------------------------------------------------------------------------
(* The view implements PlaybackContract.                                   *)

renderers == {t \in Threads : Alive(t)}

\* Nothing the contract speaks of changes.
LEMMA StutteringStep ==
    ASSUME UNCHANGED <<reading, status>>,
           \A t \in Threads : Alive(t)' <=> Alive(t)
    PROVE  UNCHANGED Contract!contractVars
<1>1. {t \in Threads : Alive(t)'} = renderers
  BY DEF renderers
<1> QED
  BY <1>1 DEF Contract!contractVars, renderers

\* With no thread, stopPlayback closes a stream or does nothing.
LEMMA stopPlaybackImplements ==
    ASSUME ProtocolInv, ui # "join", stopPlayback
    PROVE  UNCHANGED Contract!contractVars
<1>1. thread = NoThread => mIn = NoStream
  BY DEF ProtocolInv, StopInv
<1>2. status' = status
  BY <1>1 DEF stopPlayback, CloseSource, ProtocolInv, TypeOK
<1> QED
  BY <1>2, StutteringStep DEF stopPlayback, renderVars, Alive

\* The end of the join closes the stream the view held, if any.
LEMMA JoinReturnsImplements ==
    ASSUME IInv, JoinReturns
    PROVE  [Contract!Next]_Contract!contractVars
<1> USE DEF IInv, ProtocolInv
<1>1. renderers = {}
  BY DEF renderers, JoinReturns, ThreadInv, Alive
<1>2. \A t \in Threads : ~Alive(t)'
  BY <1>1 DEF renderers, JoinReturns, Alive, TypeOK
<1>3. CASE mIn = NoStream
  BY <1>1, <1>2, <1>3, StutteringStep DEF renderers, JoinReturns, CloseSource,
     TypeOK
<1>4. CASE mIn # NoStream
  <2>1. mIn \in Streams /\ status[mIn] = "open"
    BY <1>4 DEF TypeOK, Results, StreamInv
  <2>2. status' = [status EXCEPT ![mIn] = "closed"]
    BY DEF JoinReturns, CloseSource, TypeOK
  <2>3. {t \in Threads : Alive(t)'} = {}
    BY <1>2
  <2>4. Contract!Close(mIn)
    BY <1>1, <2>1, <2>2, <2>3 DEF Contract!Close, renderers, JoinReturns
  <2> QED
    BY <2>1, <2>4 DEF Contract!Next
<1> QED
  BY <1>3, <1>4

\* DoRead opens a stream, or does nothing the contract sees.
LEMMA DoInBackgroundImplements ==
    ASSUME DoInBackground
    PROVE  [Contract!Next]_Contract!contractVars
<1>1. UNCHANGED <<pc, reading>> /\ \A t \in Threads : Alive(t)' <=> Alive(t)
  BY DEF DoInBackground, renderVars, Alive
<1>2. CASE UNCHANGED status
  BY <1>1, <1>2, StutteringStep
<1>3. ASSUME NEW s \in Streams, status[s] = "none",
             status' = [status EXCEPT ![s] = "open"]
      PROVE  Contract!Next
  <2>1. {t \in Threads : Alive(t)'} = {t \in Threads : Alive(t)}
    BY <1>1
  <2>2. Contract!Open(s)
    BY <1>1, <1>3, <2>1 DEF Contract!Open
  <2> QED
    BY <2>2 DEF Contract!Next
<1> QED
  BY <1>2, <1>3 DEF DoInBackground

\* A delivered stream starts one thread, or does nothing visible.
LEMMA OnPostExecuteImplements ==
    ASSUME ProtocolInv, OnPostExecute
    PROVE  [Contract!Next]_Contract!contractVars
<1> USE DEF ProtocolInv, TypeOK
<1>1. UNCHANGED <<reading, status>>
  BY DEF OnPostExecute, setSource
<1>2. CASE \A t \in Threads : Alive(t)' <=> Alive(t)
  BY <1>1, <1>2, StutteringStep
<1>3. CASE ~(\A t \in Threads : Alive(t)' <=> Alive(t))
  <2>1. PICK t \in Threads : /\ ~Alive(t)
                             /\ pc' = [pc EXCEPT ![t] = "loop"]
                             /\ thread \in {NoThread, t}
    BY <1>3 DEF OnPostExecute, setSource, startPlayback, resumePlayback,
       StartNewThread, StopInv, UIReady, Alive
  <2>2. {u \in Threads : Alive(u)} = {}
    BY <2>1 DEF ThreadInv, Alive
  <2>3. {u \in Threads : Alive(u)'} = {t}
    BY <2>1, <2>2 DEF Alive
  <2>4. Contract!Start(t)
    BY <1>1, <2>2, <2>3 DEF Contract!Start
  <2> QED
    BY <2>4 DEF Contract!Next
<1> QED
  BY <1>2, <1>3

\* Frame takes a stream, Read releases it, run() finishes.
LEMMA RenderImplements ==
    ASSUME IInv, NEW t \in Threads, Render(t)
    PROVE  [Contract!Next]_Contract!contractVars
<1> USE DEF IInv, ProtocolInv
<1>1. {u \in Threads : Alive(u)} = {t}
  BY RenderMoves DEF ThreadInv, Alive
<1>2. UNCHANGED status
  BY RenderMoves
<1>3. ASSUME NEW to, pc' = [pc EXCEPT ![t] = to],
             to \notin {"none", "new", "dead"}
      PROVE  /\ {u \in Threads : Alive(u)'} = {t}
             /\ \A u \in Threads : Alive(u)' <=> Alive(u)
  BY <1>1, <1>3 DEF Alive, TypeOK
<1>4. ASSUME pc' = pc
      PROVE  \A u \in Threads : Alive(u)' <=> Alive(u)
  BY <1>4 DEF Alive
<1>5. ASSUME pc' = [pc EXCEPT ![t] = "dead"],
             reading' = [reading EXCEPT ![t] = NoStream]
      PROVE  Contract!Next
  <2>1. {u \in Threads : Alive(u)'} = {}
    BY <1>1, <1>5 DEF Alive, TypeOK
  <2>2. Contract!Finish(t)
    BY <1>1, <1>2, <1>5, <2>1 DEF Contract!Finish
  <2> QED
    BY <2>2 DEF Contract!Next
<1>6. ASSUME pc[t] # "read"
      PROVE  reading[t] = NoStream
  BY <1>6 DEF StreamInv
<1> USE DEF Goes, Dies, Ends
<1>7. CASE Loop(t)
  <2>1. CASE pc' = [pc EXCEPT ![t] = "frame"]
    BY <1>2, <1>3, <1>7, <2>1, StutteringStep DEF Loop
  <2>2. CASE pc' = [pc EXCEPT ![t] = "dead"] /\ pc[t] = "loop"
    <3>1. reading' = [reading EXCEPT ![t] = NoStream]
      BY <1>6, <1>7, <2>2 DEF Loop, TypeOK
    <3> QED
      BY <1>5, <2>2, <3>1
  <2> QED
    BY <1>7, <2>1, <2>2 DEF Loop
<1>8. CASE Frame(t)
  <2>1. CASE Goes(t, "frame", "read") /\ mIn # NoStream
    <3>1. mIn \in Streams /\ status[mIn] = "open" /\ reading[t] = NoStream
      BY <1>6, <2>1 DEF TypeOK, Results, StreamInv
    <3>2. Contract!Take(t, mIn)
      BY <1>1, <1>2, <1>3, <1>8, <2>1, <3>1 DEF Contract!Take, Frame
    <3> QED
      BY <3>1, <3>2 DEF Contract!Next
  <2>2. CASE Dies(t, "frame", "nullStream")
    BY <1>2, <1>4, <2>2, StutteringStep
  <2> QED
    BY <1>8, <2>1, <2>2 DEF Frame
<1>9. CASE Read(t)
  <2>1. CASE /\ Goes(t, "read", "decode") \/ Goes(t, "read", "loop")
             /\ reading' = [reading EXCEPT ![t] = NoStream]
    <3>1. reading[t] # NoStream
      BY <2>1 DEF StreamInv
    <3>2. {u \in Threads : Alive(u)'} = {t}
      BY <1>3, <2>1
    <3>3. Contract!Release(t)
      BY <1>1, <1>2, <2>1, <3>1, <3>2 DEF Contract!Release
    <3> QED
      BY <3>3 DEF Contract!Next
  <2>2. CASE Ends(t, "read")
    BY <1>5, <2>2
  <2>3. CASE Dies(t, "read", "badFrame")
    BY <1>2, <1>4, <2>3, StutteringStep
  <2> QED
    BY <1>9, <2>1, <2>2, <2>3 DEF Read
<1>10. CASE Decode(t)
  BY <1>2, <1>3, <1>10, StutteringStep DEF Decode
<1>11. CASE Write(t)
  BY <1>2, <1>3, <1>4, <1>11, StutteringStep DEF Write
<1>12. CASE Copy(t)
  BY <1>2, <1>3, <1>5, <1>12, StutteringStep DEF Copy
<1>13. CASE Copying(t)
  BY <1>2, <1>3, <1>4, <1>13, StutteringStep DEF Copying
<1>14. CASE Lock(t)
  BY <1>2, <1>3, <1>4, <1>14, StutteringStep DEF Lock
<1>15. CASE Draw(t)
  BY <1>2, <1>3, <1>15, StutteringStep DEF Draw
<1> QED
  BY <1>7, <1>8, <1>9, <1>10, <1>11, <1>12, <1>13, <1>14, <1>15 DEF Render

\* The collector reclaims a stream that nobody reads.
LEMMA CollectImplements ==
    ASSUME NEW s \in Streams, Collect(s)
    PROVE  Contract!Next
<1>1. {u \in Threads : Alive(u)'} = {u \in Threads : Alive(u)}
  BY DEF Collect, renderVars, Alive
<1>2. Contract!Reclaim(s)
  BY <1>1 DEF Contract!Reclaim, Collect, renderVars
<1> QED
  BY <1>2 DEF Contract!Next

\* Every step of the view is a step of the contract, or a stutter.
LEMMA StepImplements ==
    IInv /\ [Next]_vars => [Contract!Next]_Contract!contractVars
<1> SUFFICES ASSUME IInv, [Next]_vars
             PROVE  [Contract!Next]_Contract!contractVars
  OBVIOUS
<1>1. CASE UNCHANGED <<pc, reading, status>>
  BY <1>1, StutteringStep DEF Alive
<1>2. CASE PauseVideo \/ SurfaceDestroyed
  BY <1>2, stopPlaybackImplements DEF IInv, PauseVideo, SurfaceDestroyed,
     UIReady
<1>3. CASE \/ PlayVideo \/ FreeCameraMemory \/ ClearCameraMemory
           \/ SurfaceCreated \/ SurfaceLost \/ ClientDies
           \/ UNCHANGED vars
  BY <1>1, <1>3 DEF PlayVideo, FreeCameraMemory, ClearCameraMemory,
     SurfaceCreated, SurfaceLost, ClientDies, vars, renderVars
<1> QED
  BY <1>2, <1>3, JoinReturnsImplements, DoInBackgroundImplements,
     OnPostExecuteImplements, RenderImplements, CollectImplements
     DEF IInv, Next, Client, UIThread, Dead

\* Every behaviour of the view, under the mapping of Contract, is a behaviour
\* of PlaybackContract: one renderer at a time, open streams only, and no
\* stream closed under a renderer.
THEOREM Refinement == Spec => ContractSpec
<1>1. Init => Contract!Init
  BY DEF Init, Contract!Init, Alive
<1> QED
  BY <1>1, StepImplements, Invariance, PTL
     DEF Spec, ContractSpec, Contract!Spec

=============================================================================
