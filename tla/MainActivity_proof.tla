-------------------------- MODULE MainActivity_proof --------------------------
(***************************************************************************)
(* Theorems about MainActivity.  The activity implements the specification *)
(* of the view, so what MjpegView_proof says of the view holds of it here. *)
(* Then what plays after a pause and away from the foreground, and what it *)
(* takes to kill the process: for every set of threads and streams, every  *)
(* bound on the reads, with and without sound.                             *)
(***************************************************************************)
EXTENDS MainActivity, MjpegView_proof

-----------------------------------------------------------------------------
(* Lists of calls.                                                         *)

\* Two calls before one or two.
LEMMA ShortConcats ==
    ASSUME NEW S, NEW a \in S, NEW b \in S, NEW c \in S, NEW d \in S
    PROVE  /\ <<a, b>> \o <<c>> = <<a, b, c>>
           /\ <<a, b>> \o <<c, d>> = <<a, b, c, d>>
<1>1. <<a, b>> \o <<c>> = <<a, b, c>>
  <2> DEFINE l == <<a, b>>
             r == <<c>>
             w == <<a, b, c>>
  <2>1. /\ l \in Seq(S) /\ r \in Seq(S) /\ w \in Seq(S)
        /\ Len(l) = 2 /\ Len(r) = 1 /\ Len(w) = 3
    OBVIOUS
  <2>2. /\ l \o r \in Seq(S) /\ Len(l \o r) = 3
        /\ \A i \in 1..3 : (l \o r)[i] = IF i <= 2 THEN l[i] ELSE r[i - 2]
    BY <2>1, ConcatProperties
  <2>3. \A i \in 1..3 : w[i] = IF i <= 2 THEN l[i] ELSE r[i - 2]
    OBVIOUS
  <2> HIDE DEF l, r, w
  <2>4. l \o r = w
    BY <2>1, <2>2, <2>3, SeqEqual
  <2> QED
    BY <2>4 DEF l, r, w
<1>2. <<a, b>> \o <<c, d>> = <<a, b, c, d>>
  <2> DEFINE l == <<a, b>>
             r == <<c, d>>
             w == <<a, b, c, d>>
  <2>1. /\ l \in Seq(S) /\ r \in Seq(S) /\ w \in Seq(S)
        /\ Len(l) = 2 /\ Len(r) = 2 /\ Len(w) = 4
    OBVIOUS
  <2>2. /\ l \o r \in Seq(S) /\ Len(l \o r) = 4
        /\ \A i \in 1..4 : (l \o r)[i] = IF i <= 2 THEN l[i] ELSE r[i - 2]
    BY <2>1, ConcatProperties
  <2>3. \A i \in 1..4 : w[i] = IF i <= 2 THEN l[i] ELSE r[i - 2]
    OBVIOUS
  <2> HIDE DEF l, r, w
  <2>4. l \o r = w
    BY <2>1, <2>2, <2>3, SeqEqual
  <2> QED
    BY <2>4 DEF l, r, w
<1> QED
  BY <1>1, <1>2

\* The lists that are put together from two.
LEMMA LongLists ==
    /\ play \o <<"registerReceiver">>
          = <<"playVideo", "playAudio", "registerReceiver">>
    /\ stop \o play = <<"stopVideo", "stopAudio", "playVideo", "playAudio">>
<1>1. /\ "playVideo" \in Methods /\ "playAudio" \in Methods
      /\ "stopVideo" \in Methods /\ "stopAudio" \in Methods
      /\ "registerReceiver" \in Methods
  BY DEF Methods
<1>2. /\ <<"playVideo", "playAudio">> \o <<"registerReceiver">>
            = <<"playVideo", "playAudio", "registerReceiver">>
      /\ <<"stopVideo", "stopAudio">> \o <<"playVideo", "playAudio">>
            = <<"stopVideo", "stopAudio", "playVideo", "playAudio">>
  <2>1. ASSUME NEW a \in Methods, NEW b \in Methods, NEW c \in Methods
        PROVE  <<a, b>> \o <<c>> = <<a, b, c>>
    BY ShortConcats
  <2>2. ASSUME NEW a \in Methods, NEW b \in Methods, NEW c \in Methods,
               NEW d \in Methods
        PROVE  <<a, b>> \o <<c, d>> = <<a, b, c, d>>
    BY ShortConcats
  <2>3. <<"playVideo", "playAudio">> \o <<"registerReceiver">>
            = <<"playVideo", "playAudio", "registerReceiver">>
    BY <1>1, <2>1
  <2>4. <<"stopVideo", "stopAudio">> \o <<"playVideo", "playAudio">>
            = <<"stopVideo", "stopAudio", "playVideo", "playAudio">>
    BY <1>1, <2>2
  <2> QED
    BY <2>3, <2>4
<1> QED
  BY <1>2 DEF play, stop

USE NullAssumption, MaxReadsAssumption, HasSoundAssumption

-----------------------------------------------------------------------------
(* The activity implements MjpegView's specification.                      *)

\* Each call of the activity is a step of the view, or a stutter.
LEMMA CallsImplement == Calls => [Next]_vars
<1> SUFFICES ASSUME Calls PROVE [Next]_vars
  OBVIOUS
<1> USE DEF Next, Client
<1>1. CASE MainPauseVideo
  BY <1>1 DEF MainPauseVideo
<1>2. CASE PauseAudio
  BY <1>2 DEF PauseAudio
<1>3. CASE MainPlayVideo
  BY <1>3 DEF MainPlayVideo
<1>4. CASE PlayAudio
  BY <1>4 DEF PlayAudio
<1>5. CASE StopVideo
  BY <1>5 DEF StopVideo
<1>6. CASE StopAudio
  BY <1>6 DEF StopAudio
<1>7. CASE RegisterReceiver
  BY <1>7 DEF RegisterReceiver
<1>8. CASE UnregisterReceiver
  BY <1>8 DEF UnregisterReceiver
<1> QED
  BY <1>1, <1>2, <1>3, <1>4, <1>5, <1>6, <1>7, <1>8 DEF Calls

\* The callbacks of the activity leave the view alone, or die.
LEMMA CallbacksImplement ==
    Lifecycle \/ OnClick \/ OnReceive \/ AudioCallbacks => [Next]_vars
<1>1. Lifecycle => UNCHANGED vars
  BY DEF Lifecycle, OnStart, OnResume, OnPause, OnStop, OnDestroy, Callback
<1>2. OnClick \/ OnReceive => UNCHANGED vars
  BY DEF OnClick, OnReceive, Callback
<1>3. OnFocusLoss \/ OnPrepared \/ AudioEnds \/ OnBufferingUpdate
         => UNCHANGED vars
  BY DEF OnFocusLoss, Callback, OnPrepared, AudioEnds, OnBufferingUpdate
<1>4. OnFocusDuck \/ OnFocusGain => ClientDies \/ UNCHANGED vars
  BY DEF OnFocusDuck, OnFocusGain, SetVolume
<1> QED
  BY <1>1, <1>2, <1>3, <1>4 DEF AudioCallbacks, Next, Client

\* Every step of the activity is a step of the view, or a stutter.
LEMMA MainNextImplements == [MainNext]_mainVars => [Next]_vars
<1>1. MainSurfaceCreated \/ MainSurfaceLost \/ MainOnPostExecute => Next
  BY DEF MainSurfaceCreated, MainSurfaceLost, MainOnPostExecute, Next, Client,
     UIThread
<1>2. ViewStep => Next
  BY DEF ViewStep, ViewReturns, Behind, Next, UIThread
<1>3. Gone \/ UNCHANGED mainVars => UNCHANGED vars
  BY DEF Gone, mainVars
<1> QED
  BY <1>1, <1>2, <1>3, CallsImplement, CallbacksImplement DEF MainNext

\* Whatever the user, the system and the home monitor do, the activity uses
\* the view only as MjpegView's specification says.
THEOREM ActivityImplementsView == MainSpec => ViewSpec
<1>1. MainInit => Init
  BY DEF MainInit
<1> QED
  BY <1>1, MainNextImplements, PTL DEF MainSpec, ViewSpec, Spec

\* So the view's invariant holds in the application.
THEOREM ActivityKeepsViewInvariant == MainSpec => []IInv
BY ActivityImplementsView, Invariance, PTL DEF ViewSpec

-----------------------------------------------------------------------------
(* Types.                                                                  *)

\* A newly made activity is well typed.
LEMMA InitMainTypeOK == MainInit => MainTypeOK
<1> SUFFICES ASSUME MainInit PROVE MainTypeOK
  OBVIOUS
<1>1. TypeOK
  BY InitTypeOK DEF MainInit
<1>2. calls \in Seq(Methods)
  BY DEF MainInit
<1> QED
  BY <1>1, <1>2 DEF MainInit, MainTypeOK

\* The lists of calls that the callbacks make.
LEMMA CallLists ==
    /\ <<>> \in Seq(Methods)
    /\ play \in Seq(Methods)
    /\ pause \in Seq(Methods)
    /\ stop \in Seq(Methods)
    /\ <<"registerReceiver">> \in Seq(Methods)
    /\ <<"stopAudio", "stopVideo", "unregisterReceiver">> \in Seq(Methods)
    /\ play \o <<"registerReceiver">> \in Seq(Methods)
    /\ stop \o play \in Seq(Methods)
<1>1. /\ <<>> \in Seq(Methods)
      /\ play \in Seq(Methods)
      /\ pause \in Seq(Methods)
      /\ stop \in Seq(Methods)
      /\ <<"registerReceiver">> \in Seq(Methods)
      /\ <<"stopAudio", "stopVideo", "unregisterReceiver">> \in Seq(Methods)
  BY DEF play, pause, stop, Methods
<1> QED
  BY <1>1, ConcatProperties

\* What is left of a list of calls is a list of calls.
LEMMA CallsType ==
    ASSUME MainTypeOK, NEW m, Call(m)
    PROVE  calls' \in Seq(Methods)
BY HeadTailProperties DEF MainTypeOK, Call

\* No step of the activity takes a variable out of its type.
LEMMA StepMainTypeOK == MainTypeOK /\ [MainNext]_mainVars => MainTypeOK'
<1> SUFFICES ASSUME MainTypeOK, [MainNext]_mainVars PROVE MainTypeOK'
  OBVIOUS
<1>t. TypeOK'
  BY MainNextImplements, StepTypeOK DEF MainTypeOK
<1> USE DEF MainTypeOK, activityVars, audioVars, Mishap, Mishaps
<1>1. CASE Calls
  <2>1. calls' \in Seq(Methods)
    BY <1>1, CallsType DEF Calls, MainPauseVideo, PauseAudio, MainPlayVideo,
       PlayAudio, StopVideo, StopAudio, RegisterReceiver, UnregisterReceiver
  <2>2. CASE MainPauseVideo
    BY <1>t, <2>1, <2>2 DEF MainPauseVideo
  <2>3. CASE PauseAudio
    BY <1>t, <2>1, <2>3 DEF PauseAudio
  <2>4. CASE MainPlayVideo
    BY <1>t, <2>1, <2>4 DEF MainPlayVideo
  <2>5. CASE PlayAudio
    BY <1>t, <2>1, <2>5 DEF PlayAudio
  <2>6. CASE StopVideo
    BY <1>t, <2>1, <2>6 DEF StopVideo
  <2>7. CASE StopAudio
    BY <1>t, <2>1, <2>7 DEF StopAudio
  <2>8. CASE RegisterReceiver \/ UnregisterReceiver
    BY <1>t, <2>1, <2>8 DEF RegisterReceiver, UnregisterReceiver
  <2> QED
    BY <1>1, <2>2, <2>3, <2>4, <2>5, <2>6, <2>7, <2>8 DEF Calls
<1>2. CASE Lifecycle
  BY <1>2, <1>t, CallLists DEF Lifecycle, OnStart, OnResume, OnPause, OnStop,
     OnDestroy, Callback
<1>3. CASE OnClick
  BY <1>3, <1>t, CallLists DEF OnClick, Callback
<1>8. CASE OnReceive
  <2>1. mishaps' \in SUBSET Mishaps
    BY <1>8 DEF OnReceive
  <2> QED
    BY <1>8, <1>t, <2>1, CallLists DEF OnReceive, Callback
<1>4. CASE AudioCallbacks
  <2>1. CASE OnFocusLoss
    BY <1>t, <2>1, CallLists DEF OnFocusLoss, Callback
  <2>2. CASE OnFocusDuck
    BY <1>t, <2>2 DEF OnFocusDuck
  <2>3. CASE OnFocusGain
    BY <1>t, <2>3, CallLists DEF OnFocusGain
  <2>4. CASE OnPrepared \/ AudioEnds \/ OnBufferingUpdate
    BY <1>t, <2>4 DEF OnPrepared, AudioEnds, OnBufferingUpdate
  <2> QED
    BY <1>4, <2>1, <2>2, <2>3, <2>4 DEF AudioCallbacks
<1>5. CASE MainSurfaceCreated \/ MainSurfaceLost \/ MainOnPostExecute
  <2>1. /\ UNCHANGED <<activityVars, audioVars>>
        /\ mishaps' \in {mishaps, mishaps \cup {"lateRead"}}
    BY <1>5 DEF MainSurfaceCreated, MainSurfaceLost, MainOnPostExecute
  <2> QED
    BY <1>t, <2>1
<1>6. CASE ViewStep
  <2>1. UNCHANGED <<activityVars, audioVars, mishaps>>
    BY <1>6 DEF ViewStep, ViewReturns, Behind
  <2> QED
    BY <1>t, <2>1
<1>7. CASE Gone \/ UNCHANGED mainVars
  BY <1>7, <1>t DEF Gone, mainVars
<1> QED
  BY <1>1, <1>2, <1>3, <1>4, <1>5, <1>6, <1>7, <1>8 DEF MainNext

\* Every variable of the activity keeps its type.
THEOREM MainTypeCorrect == MainSpec => []MainTypeOK
BY InitMainTypeOK, StepMainTypeOK, PTL DEF MainSpec

-----------------------------------------------------------------------------
(* The audio player obeys pause().                                         *)

\* A player that prepares after a pause() remembers it, and a paused monitor
\* has given the focus away.
AudioInv ==
    /\ audio = "playing" => wanted
    /\ audio = "preparing" => wanted \/ pauseBeforePlaying
    /\ label = "play" => focus = "none"

\* Every step keeps the player, the label and the focus in agreement.
LEMMA StepAudioInv == AudioInv /\ [MainNext]_mainVars => AudioInv'
<1> SUFFICES ASSUME AudioInv, [MainNext]_mainVars PROVE AudioInv'
  OBVIOUS
<1> USE DEF AudioInv, audioVars
<1>1. CASE Calls
  BY <1>1 DEF Calls, MainPauseVideo, PauseAudio, MainPlayVideo, PlayAudio,
     StopVideo, StopAudio, RegisterReceiver, UnregisterReceiver
<1>2. CASE Lifecycle \/ OnClick \/ OnReceive
  BY <1>2 DEF Lifecycle, OnStart, OnResume, OnPause, OnStop, OnDestroy,
     OnClick, OnReceive, Callback
<1>3. CASE AudioCallbacks
  BY <1>3 DEF AudioCallbacks, OnFocusLoss, OnFocusDuck, OnFocusGain,
     OnPrepared, AudioEnds, OnBufferingUpdate, Callback, paused
<1>4. CASE MainSurfaceCreated \/ MainSurfaceLost \/ MainOnPostExecute
  BY <1>4 DEF MainSurfaceCreated, MainSurfaceLost, MainOnPostExecute
<1>5. CASE ViewStep \/ Gone \/ UNCHANGED mainVars
  BY <1>5 DEF ViewStep, ViewReturns, Behind, Gone, mainVars
<1> QED
  BY <1>1, <1>2, <1>3, <1>4, <1>5 DEF MainNext

\* The audio invariant holds of every behaviour of the activity.
LEMMA AudioInvariance == MainSpec => []AudioInv
<1>1. MainInit => AudioInv
  BY DEF MainInit, AudioInv
<1> QED
  BY <1>1, StepAudioInv, PTL DEF MainSpec

\* Audio sounds only after play(), however pause(), the preparation of the
\* player and its callbacks interleave.
THEOREM AudioPauses == MainSpec => []AudioObeysPause
<1>1. AudioInv => AudioObeysPause
  BY DEF AudioInv, AudioObeysPause
<1> QED
  BY <1>1, AudioInvariance, PTL

\* A paused monitor holds no audio focus, so AUDIOFOCUS_GAIN does not wake it.
THEOREM PauseGivesFocusUp == MainSpec => []PausedHoldsNoFocus
<1>1. AudioInv => PausedHoldsNoFocus
  BY DEF AudioInv, PausedHoldsNoFocus, paused
<1> QED
  BY <1>1, AudioInvariance, PTL

-----------------------------------------------------------------------------
(* The lists of calls, by what comes next.                                 *)

Starting    == {play, <<"playVideo", "playAudio", "registerReceiver">>}
Sounding    == {<<"playAudio">>, <<"playAudio", "registerReceiver">>}
Registering == {<<"registerReceiver">>}
Pausing     == {pause}
Muting      == {<<"pauseAudio">>}
Stopping    == {stop, <<"stopAudio">>,
                <<"stopAudio", "stopVideo", "unregisterReceiver">>,
                <<"stopVideo", "unregisterReceiver">>,
                <<"unregisterReceiver">>}
Replacing   == {<<"stopVideo", "stopAudio", "playVideo", "playAudio">>}
Replaced    == {<<"stopAudio", "playVideo", "playAudio">>}

\* The view has something to show.
Live == Rendering \/ mIn # NoStream

\* Where a callback stands, and when the view is not known.
CallsInv ==
    /\ calls \in {<<>>} \cup Starting \cup Sounding \cup Registering
                  \cup Pausing \cup Muting \cup Stopping \cup Replacing
                  \cup Replaced
    /\ calls \in Stopping => life # "resumed"
    /\ life = "resumed" /\ ~mv => calls \in Starting \cup Replaced

\* Unless a stream came late, the view is live only while it is wanted and
\* the activity resumed, or until the pause that is under way has joined.
VideoInv ==
    "lateRead" \notin mishaps =>
        /\ Live => wanted
        /\ Live /\ life # "resumed" => calls \in Pausing \cup Muting
        /\ Live /\ calls \in Muting => ui = "join"
        /\ Live /\ calls \in Pausing => mv
        /\ Live /\ calls \in Replacing => "liveMessage" \in mishaps
        /\ "surfaceLost" \notin events
        /\ events \cap {"freed", "freedLive"} # {}
              => "liveMessage" \in mishaps

\* Unless a message came late, a player is missing only while it is being
\* replaced, and away from the foreground nothing sounds or has the focus.
SoundInv ==
    /\ fault = "nullPlayer" => "lateMessage" \in mishaps
    /\ "lateMessage" \notin mishaps /\ fault = "none" =>
        /\ life # "resumed" =>
              calls \notin Starting \cup Sounding \cup Replacing \cup Replaced
        /\ life # "resumed" /\ calls \notin Pausing \cup Muting =>
              /\ focus = "none"
              /\ audio # "playing"
              /\ audio = "preparing" => pauseBeforePlaying
        /\ audio = "none" /\ (life = "resumed" \/ calls \in Pausing \cup Muting)
              => calls \in Starting \cup Sounding

\* Unless two reads overlapped, at most one is under way, for a view that has
\* been stopped.
OverlapInv ==
    "overlap" \notin mishaps =>
        /\ queued + Len(posted) <= 1
        /\ queued + Len(posted) = 1 => ~mRun
        /\ "nullSource" \notin events
        /\ fault # "illegalStart"

-----------------------------------------------------------------------------
(* What comes after a call.                                                *)

\* The tails of short lists.
LEMMA ShortTails ==
    ASSUME NEW S, NEW a \in S, NEW b \in S, NEW c \in S, NEW d \in S
    PROVE  /\ Tail(<<a>>) = <<>>
           /\ Tail(<<a, b>>) = <<b>>
           /\ Tail(<<a, b, c>>) = <<b, c>>
           /\ Tail(<<a, b, c, d>>) = <<b, c, d>>
<1>1. Tail(<<a>>) = <<>> /\ Tail(<<a, b>>) = <<b>>
  OBVIOUS
<1>2. Tail(<<a, b, c>>) = <<b, c>>
  <2> DEFINE l == <<a, b, c>>
  <2>1. /\ l \in Seq(S) /\ l # <<>> /\ Len(l) = 3
        /\ <<b, c>> \in Seq(S) /\ Len(<<b, c>>) = 2
    OBVIOUS
  <2>2. /\ Tail(l) \in Seq(S) /\ Len(Tail(l)) = 2
        /\ \A i \in 1..2 : Tail(l)[i] = l[i + 1]
    BY <2>1, HeadTailProperties
  <2>3. \A i \in 1..2 : <<b, c>>[i] = l[i + 1]
    OBVIOUS
  <2> HIDE DEF l
  <2>4. Tail(l) = <<b, c>>
    BY <2>1, <2>2, <2>3, SeqEqual
  <2> QED
    BY <2>4 DEF l
<1>3. Tail(<<a, b, c, d>>) = <<b, c, d>>
  <2> DEFINE l == <<a, b, c, d>>
  <2>1. /\ l \in Seq(S) /\ l # <<>> /\ Len(l) = 4
        /\ <<b, c, d>> \in Seq(S) /\ Len(<<b, c, d>>) = 3
    OBVIOUS
  <2>2. /\ Tail(l) \in Seq(S) /\ Len(Tail(l)) = 3
        /\ \A i \in 1..3 : Tail(l)[i] = l[i + 1]
    BY <2>1, HeadTailProperties
  <2>3. \A i \in 1..3 : <<b, c, d>>[i] = l[i + 1]
    OBVIOUS
  <2> HIDE DEF l
  <2>4. Tail(l) = <<b, c, d>>
    BY <2>1, <2>2, <2>3, SeqEqual
  <2> QED
    BY <2>4 DEF l
<1> QED
  BY <1>1, <1>2, <1>3

\* No list of calls is of two kinds.
LEMMA Apart ==
    ASSUME NEW c
    PROVE  /\ c = <<>> => c \notin Starting \cup Sounding \cup Registering
                  \cup Pausing \cup Muting \cup Stopping \cup Replacing
                  \cup Replaced
           /\ c \in Starting => c \notin Sounding \cup Registering
                  \cup Pausing \cup Muting \cup Stopping \cup Replacing
                  \cup Replaced
           /\ c \in Sounding => c \notin Registering \cup Pausing
                  \cup Muting \cup Stopping \cup Replacing \cup Replaced
           /\ c \in Registering => c \notin Pausing \cup Muting
                  \cup Stopping \cup Replacing \cup Replaced
           /\ c \in Pausing => c \notin Muting \cup Stopping
                  \cup Replacing \cup Replaced
           /\ c \in Muting => c \notin Stopping \cup Replacing \cup Replaced
           /\ c \in Stopping => c \notin Replacing \cup Replaced
           /\ c \in Replacing => c \notin Replaced
<1> USE DEF play, pause, stop
<1>1. c = <<>> => c \notin Starting \cup Sounding \cup Registering \cup
           Pausing \cup Muting \cup Stopping \cup Replacing \cup Replaced
  BY DEF Starting, Sounding, Registering, Pausing, Muting, Stopping,
     Replacing, Replaced
<1>2. c \in Starting => c \notin Sounding \cup Registering \cup Pausing
           \cup Muting \cup Stopping \cup Replacing \cup Replaced
  BY DEF Starting, Sounding, Registering, Pausing, Muting, Stopping,
     Replacing, Replaced
<1>3. c \in Sounding => c \notin Registering \cup Pausing \cup Muting \cup
           Stopping \cup Replacing \cup Replaced
  BY DEF Sounding, Registering, Pausing, Muting, Stopping, Replacing,
     Replaced
<1>4. c \in Registering => c \notin Pausing \cup Muting \cup Stopping \cup
           Replacing \cup Replaced
  BY DEF Registering, Pausing, Muting, Stopping, Replacing, Replaced
<1>5. c \in Pausing => c \notin Muting \cup Stopping \cup Replacing \cup
           Replaced
  BY DEF Pausing, Muting, Stopping, Replacing, Replaced
<1>6. c \in Muting => c \notin Stopping \cup Replacing \cup Replaced
  BY DEF Muting, Stopping, Replacing, Replaced
<1>7. c \in Stopping => c \notin Replacing \cup Replaced
  BY DEF Stopping, Replacing, Replaced
<1>8. c \in Replacing => c \notin Replaced
  BY DEF Replacing, Replaced
<1> QED
  BY <1>1, <1>2, <1>3, <1>4, <1>5, <1>6, <1>7, <1>8

\* What is first in each list, and what is left of it.
LEMMA Heads ==
    /\ Head(play) = "playVideo" /\ Tail(play) = <<"playAudio">>
    /\ Head(<<"playVideo", "playAudio", "registerReceiver">>) = "playVideo"
    /\ Tail(<<"playVideo", "playAudio", "registerReceiver">>)
          = <<"playAudio", "registerReceiver">>
    /\ Head(<<"playAudio">>) = "playAudio" /\ Tail(<<"playAudio">>) = <<>>
    /\ Head(<<"playAudio", "registerReceiver">>) = "playAudio"
    /\ Tail(<<"playAudio", "registerReceiver">>) = <<"registerReceiver">>
    /\ Head(<<"registerReceiver">>) = "registerReceiver"
    /\ Tail(<<"registerReceiver">>) = <<>>
    /\ Head(pause) = "pauseVideo" /\ Tail(pause) = <<"pauseAudio">>
    /\ Head(<<"pauseAudio">>) = "pauseAudio" /\ Tail(<<"pauseAudio">>) = <<>>
    /\ Head(stop) = "stopVideo" /\ Tail(stop) = <<"stopAudio">>
    /\ Head(<<"stopAudio">>) = "stopAudio" /\ Tail(<<"stopAudio">>) = <<>>
    /\ Head(<<"stopAudio", "stopVideo", "unregisterReceiver">>) = "stopAudio"
    /\ Tail(<<"stopAudio", "stopVideo", "unregisterReceiver">>)
          = <<"stopVideo", "unregisterReceiver">>
    /\ Head(<<"stopVideo", "unregisterReceiver">>) = "stopVideo"
    /\ Tail(<<"stopVideo", "unregisterReceiver">>) = <<"unregisterReceiver">>
    /\ Head(<<"unregisterReceiver">>) = "unregisterReceiver"
    /\ Tail(<<"unregisterReceiver">>) = <<>>
    /\ Head(<<"stopVideo", "stopAudio", "playVideo", "playAudio">>)
          = "stopVideo"
    /\ Tail(<<"stopVideo", "stopAudio", "playVideo", "playAudio">>)
          = <<"stopAudio", "playVideo", "playAudio">>
    /\ Head(<<"stopAudio", "playVideo", "playAudio">>) = "stopAudio"
    /\ Tail(<<"stopAudio", "playVideo", "playAudio">>) = play
<1>1. ASSUME NEW a \in Methods, NEW b \in Methods, NEW c \in Methods,
             NEW d \in Methods
      PROVE  /\ Head(<<a>>) = a /\ Head(<<a, b>>) = a
             /\ Head(<<a, b, c>>) = a /\ Head(<<a, b, c, d>>) = a
  OBVIOUS
<1>2. /\ "playVideo" \in Methods /\ "playAudio" \in Methods
      /\ "pauseVideo" \in Methods /\ "pauseAudio" \in Methods
      /\ "stopVideo" \in Methods /\ "stopAudio" \in Methods
      /\ "registerReceiver" \in Methods /\ "unregisterReceiver" \in Methods
  BY DEF Methods
<1>3. /\ Head(play) = "playVideo" /\ Tail(play) = <<"playAudio">>
      /\ Head(<<"playVideo", "playAudio", "registerReceiver">>) = "playVideo"
      /\ Tail(<<"playVideo", "playAudio", "registerReceiver">>)
            = <<"playAudio", "registerReceiver">>
      /\ Head(<<"playAudio">>) = "playAudio" /\ Tail(<<"playAudio">>) = <<>>
      /\ Head(<<"playAudio", "registerReceiver">>) = "playAudio"
      /\ Tail(<<"playAudio", "registerReceiver">>) = <<"registerReceiver">>
      /\ Head(<<"registerReceiver">>) = "registerReceiver"
      /\ Tail(<<"registerReceiver">>) = <<>>
  BY <1>1, <1>2, ShortTails DEF play
<1>4. /\ Head(pause) = "pauseVideo" /\ Tail(pause) = <<"pauseAudio">>
      /\ Head(<<"pauseAudio">>) = "pauseAudio" /\ Tail(<<"pauseAudio">>) = <<>>
  BY <1>1, <1>2, ShortTails DEF pause
<1>5. /\ Head(stop) = "stopVideo" /\ Tail(stop) = <<"stopAudio">>
      /\ Head(<<"stopAudio">>) = "stopAudio" /\ Tail(<<"stopAudio">>) = <<>>
      /\ Head(<<"stopAudio", "stopVideo", "unregisterReceiver">>) = "stopAudio"
      /\ Tail(<<"stopAudio", "stopVideo", "unregisterReceiver">>)
            = <<"stopVideo", "unregisterReceiver">>
      /\ Head(<<"stopVideo", "unregisterReceiver">>) = "stopVideo"
      /\ Tail(<<"stopVideo", "unregisterReceiver">>) = <<"unregisterReceiver">>
      /\ Head(<<"unregisterReceiver">>) = "unregisterReceiver"
      /\ Tail(<<"unregisterReceiver">>) = <<>>
  BY <1>1, <1>2, ShortTails DEF stop
<1>6. /\ Head(<<"stopVideo", "stopAudio", "playVideo", "playAudio">>)
            = "stopVideo"
      /\ Tail(<<"stopVideo", "stopAudio", "playVideo", "playAudio">>)
            = <<"stopAudio", "playVideo", "playAudio">>
      /\ Head(<<"stopAudio", "playVideo", "playAudio">>) = "stopAudio"
      /\ Tail(<<"stopAudio", "playVideo", "playAudio">>) = play
  BY <1>1, <1>2, ShortTails DEF play
<1> QED
  BY <1>3, <1>4, <1>5, <1>6

\* Which calls there are, and what is left after each.
LEMMA NextCall ==
    ASSUME CallsInv, NEW m, Call(m)
    PROVE  \/ /\ calls \in Starting
              /\ m = "playVideo" /\ calls' \in Sounding
           \/ /\ calls \in Sounding
              /\ m = "playAudio" /\ calls' \in Registering \cup {<<>>}
           \/ /\ calls \in Registering
              /\ m = "registerReceiver" /\ calls' = <<>>
           \/ /\ calls \in Pausing
              /\ m = "pauseVideo" /\ calls' \in Muting
           \/ /\ calls \in Muting
              /\ m = "pauseAudio" /\ calls' = <<>>
           \/ /\ calls \in Stopping
              /\ m \in {"stopVideo", "stopAudio", "unregisterReceiver"}
              /\ calls' \in Stopping \cup {<<>>}
           \/ /\ calls \in Replacing
              /\ m = "stopVideo" /\ calls' \in Replaced
           \/ /\ calls \in Replaced
              /\ m = "stopAudio" /\ calls' \in Starting
<1>1. calls # <<>> /\ Head(calls) = m /\ calls' = Tail(calls)
  BY DEF Call
<1>2. CASE calls \in Starting
  BY <1>1, <1>2, Heads DEF Starting, Sounding
<1>3. CASE calls \in Sounding
  BY <1>1, <1>3, Heads DEF Sounding, Registering
<1>4. CASE calls \in Registering
  BY <1>1, <1>4, Heads DEF Registering
<1>5. CASE calls \in Pausing
  BY <1>1, <1>5, Heads DEF Pausing, Muting
<1>6. CASE calls \in Muting
  BY <1>1, <1>6, Heads DEF Muting
<1>7. CASE calls \in Stopping
  BY <1>1, <1>7, Heads DEF Stopping
<1>8. CASE calls \in Replacing
  BY <1>1, <1>8, Heads DEF Replacing, Replaced
<1>9. CASE calls \in Replaced
  BY <1>1, <1>9, Heads DEF Replaced, Starting
<1> QED
  BY <1>1, <1>2, <1>3, <1>4, <1>5, <1>6, <1>7, <1>8, <1>9 DEF CallsInv

\* The lists that callbacks make.
LEMMA NewLists ==
    /\ play \in Starting
    /\ play \o <<"registerReceiver">> \in Starting
    /\ pause \in Pausing
    /\ stop \in Stopping
    /\ <<"stopAudio", "stopVideo", "unregisterReceiver">> \in Stopping
    /\ stop \o play \in Replacing
BY LongLists DEF Starting, Pausing, Stopping, Replacing

-----------------------------------------------------------------------------
(* Where a callback stands.                                                *)

\* A call comes when it is next, and leaves the activity's life alone.
LEMMA CallEffects ==
    ASSUME CallsInv
    PROVE  /\ Calls => UIReady /\ UNCHANGED life
           /\ MainPlayVideo => calls \in Starting /\ calls' \in Sounding
           /\ PlayAudio => /\ calls \in Sounding
                           /\ calls' \in Registering \cup {<<>>}
           /\ RegisterReceiver => calls \in Registering /\ calls' = <<>>
           /\ MainPauseVideo => calls \in Pausing /\ calls' \in Muting
           /\ PauseAudio => calls \in Muting /\ calls' = <<>>
           /\ StopVideo =>
                 \/ calls \in Stopping /\ calls' \in Stopping \cup {<<>>}
                 \/ calls \in Replacing /\ calls' \in Replaced
           /\ StopAudio =>
                 \/ calls \in Stopping /\ calls' \in Stopping \cup {<<>>}
                 \/ calls \in Replaced /\ calls' \in Starting
           /\ UnregisterReceiver =>
                 calls \in Stopping /\ calls' \in Stopping \cup {<<>>}
<1>0. ASSUME NEW m, Call(m) PROVE UIReady
  BY <1>0 DEF Call
<1>1. ASSUME MainPlayVideo
      PROVE  /\ Call("playVideo") /\ UNCHANGED life
             /\ calls \in Starting /\ calls' \in Sounding
  <2>1. Call("playVideo") /\ UNCHANGED life
    BY <1>1 DEF MainPlayVideo
  <2> QED
    BY <2>1, NextCall
<1>2. ASSUME PlayAudio
      PROVE  /\ Call("playAudio") /\ UNCHANGED life
             /\ calls \in Sounding /\ calls' \in Registering \cup {<<>>}
  <2>1. Call("playAudio") /\ UNCHANGED life
    BY <1>2 DEF PlayAudio
  <2> QED
    BY <2>1, NextCall
<1>3. ASSUME RegisterReceiver
      PROVE  /\ Call("registerReceiver") /\ UNCHANGED life
             /\ calls \in Registering /\ calls' = <<>>
  <2>1. Call("registerReceiver") /\ UNCHANGED life
    BY <1>3 DEF RegisterReceiver
  <2> QED
    BY <2>1, NextCall
<1>4. ASSUME MainPauseVideo
      PROVE  /\ Call("pauseVideo") /\ UNCHANGED life
             /\ calls \in Pausing /\ calls' \in Muting
  <2>1. Call("pauseVideo") /\ UNCHANGED life
    BY <1>4 DEF MainPauseVideo
  <2> QED
    BY <2>1, NextCall
<1>5. ASSUME PauseAudio
      PROVE  /\ Call("pauseAudio") /\ UNCHANGED life
             /\ calls \in Muting /\ calls' = <<>>
  <2>1. Call("pauseAudio") /\ UNCHANGED life
    BY <1>5 DEF PauseAudio
  <2> QED
    BY <2>1, NextCall
<1>6. ASSUME StopVideo
      PROVE  /\ Call("stopVideo") /\ UNCHANGED life
             /\ \/ calls \in Stopping /\ calls' \in Stopping \cup {<<>>}
                \/ calls \in Replacing /\ calls' \in Replaced
  <2>1. Call("stopVideo") /\ UNCHANGED life
    BY <1>6 DEF StopVideo
  <2> QED
    BY <2>1, NextCall
<1>7. ASSUME StopAudio
      PROVE  /\ Call("stopAudio") /\ UNCHANGED life
             /\ \/ calls \in Stopping /\ calls' \in Stopping \cup {<<>>}
                \/ calls \in Replaced /\ calls' \in Starting
  <2>1. Call("stopAudio") /\ UNCHANGED life
    BY <1>7 DEF StopAudio
  <2> QED
    BY <2>1, NextCall
<1>8. ASSUME UnregisterReceiver
      PROVE  /\ Call("unregisterReceiver") /\ UNCHANGED life
             /\ calls \in Stopping /\ calls' \in Stopping \cup {<<>>}
  <2>1. Call("unregisterReceiver") /\ UNCHANGED life
    BY <1>8 DEF UnregisterReceiver
  <2> QED
    BY <2>1, NextCall
<1> QED
  BY <1>0, <1>1, <1>2, <1>3, <1>4, <1>5, <1>6, <1>7, <1>8 DEF Calls

\* Every step keeps the list of calls one of those that the callbacks make.
LEMMA StepCallsInv == CallsInv /\ [MainNext]_mainVars => CallsInv'
<1> SUFFICES ASSUME CallsInv, [MainNext]_mainVars PROVE CallsInv'
  OBVIOUS
<1> USE DEF CallsInv
<1>q. CASE UNCHANGED <<calls, life, mv>>
  BY <1>q
<1>1. CASE Calls
  <2>1. CASE MainPlayVideo
    BY <1>1, <2>1, CallEffects, Apart DEF MainPlayVideo
  <2>2. CASE MainPauseVideo \/ PlayAudio \/ RegisterReceiver \/ PauseAudio
    <3>1. UNCHANGED <<life, mv>>
      BY <2>2 DEF MainPauseVideo, PlayAudio, RegisterReceiver, PauseAudio
    <3> QED
      BY <2>2, <3>1, CallEffects, Apart
  <2>3. CASE StopVideo
    BY <1>1, <2>3, CallEffects, Apart
  <2>4. CASE StopAudio \/ UnregisterReceiver
    <3>1. UNCHANGED <<life, mv>>
      BY <2>4 DEF StopAudio, UnregisterReceiver
    <3> QED
      BY <2>4, <3>1, CallEffects, Apart
  <2> QED
    BY <1>1, <2>1, <2>2, <2>3, <2>4 DEF Calls
<1>2. CASE Lifecycle
  BY <1>2, NewLists, Apart DEF Lifecycle, OnStart, OnResume, OnPause, OnStop,
     OnDestroy, Callback, Idle
<1>3. CASE OnClick \/ OnReceive
  BY <1>3, NewLists, Apart DEF OnClick, OnReceive, Callback, Idle
<1>4. CASE OnFocusLoss \/ OnFocusGain
  BY <1>4, NewLists, Apart DEF OnFocusLoss, OnFocusGain, Callback, Idle
<1>5. CASE OnFocusDuck \/ OnPrepared \/ AudioEnds \/ OnBufferingUpdate
  BY <1>5, <1>q DEF OnFocusDuck, OnPrepared, AudioEnds, OnBufferingUpdate,
     activityVars
<1>6. CASE MainSurfaceCreated \/ MainSurfaceLost \/ MainOnPostExecute
  BY <1>6, <1>q DEF MainSurfaceCreated, MainSurfaceLost, MainOnPostExecute,
     activityVars
<1>7. CASE ViewStep \/ Gone \/ UNCHANGED mainVars
  BY <1>7, <1>q DEF ViewStep, ViewReturns, Behind, Gone, mainVars,
     activityVars
<1> QED
  BY <1>1, <1>2, <1>3, <1>4, <1>5, <1>6, <1>7 DEF MainNext, AudioCallbacks

-----------------------------------------------------------------------------
(* What the view does meanwhile.                                           *)

\* When the UI thread is not in stopPlayback, the view is live only while
\* isStreaming() says so.
LEMMA LiveStreams == ProtocolInv /\ Live => mRun \/ ui = "join"
BY DEF ProtocolInv, StopInv, Live

\* stopPlayback leaves the view to the join, or there is nothing to join.
LEMMA stopPlaybackEffects ==
    ASSUME ProtocolInv, stopPlayback, ui # "join"
    PROVE  /\ Live' => Live /\ ui' = "join"
           /\ ~mRun'
           /\ UNCHANGED <<queued, posted, events, fault>>
<1> USE DEF stopPlayback, renderVars, taskVars
<1>1. CASE thread # NoThread
  BY <1>1 DEF Live, Rendering, Alive
<1>2. CASE thread = NoThread
  <2>1. ~Rendering'
    BY <1>2, NullAssumption DEF ProtocolInv, ThreadInv, Rendering, Alive
  <2> QED
    BY <1>2, <2>1 DEF Live, CloseSource
<1> QED
  BY <1>1, <1>2

\* Behind the activity the view stops being live when the join returns, and
\* does not become live; no task is added, and nothing is lost or freed.
LEMMA ViewStepEffects ==
    ASSUME ProtocolInv, ViewStep
    PROVE  /\ UNCHANGED <<activityVars, audioVars, mishaps>>
           /\ Live' => Live /\ (ui = "join" => ui' = "join")
           /\ mRun' => mRun
           /\ queued' + Len(posted') = queued + Len(posted)
           /\ events' \subseteq events \cup {"ended"}
           /\ fault # "none" => fault' = fault
           /\ fault' # fault => fault' \notin {"nullPlayer", "illegalStart"}
<1> USE DEF viewVars, renderVars, taskVars
<1>0. UNCHANGED <<activityVars, audioVars, mishaps>>
  BY DEF ViewStep, ViewReturns, Behind
<1>1. CASE JoinReturns
  <2>1. \A t \in Threads : ~(pc'[t] \notin {"none", "new", "dead"})
    BY <1>1 DEF JoinReturns, ProtocolInv, TypeOK, ThreadInv, Alive
  <2>2. ~Live'
    BY <1>1, <2>1 DEF JoinReturns, CloseSource, Live, Rendering, Alive
  <2> QED
    BY <1>0, <1>1, <2>2 DEF JoinReturns
<1>2. CASE ClearCameraMemory
  BY <1>0, <1>2 DEF ClearCameraMemory, Live, Rendering, Alive
<1>3. CASE SurfaceDestroyed
  BY <1>0, <1>3, stopPlaybackEffects DEF SurfaceDestroyed
<1>4. CASE DoInBackground
  <2>1. /\ UNCHANGED <<viewVars, ui, pc, events, fault>>
        /\ queued' = queued - 1
        /\ \E r \in Results : posted' = Append(posted, r)
    BY <1>4 DEF DoInBackground, Results
  <2>2. Len(posted') = Len(posted) + 1
    BY <2>1, AppendProperties DEF ProtocolInv, TypeOK
  <2>3. queued' + Len(posted') = queued + Len(posted)
    BY <2>1, <2>2, LenProperties DEF ProtocolInv, TypeOK
  <2> QED
    BY <1>0, <2>1, <2>3 DEF Live, Rendering, Alive
<1>5. ASSUME NEW t \in Threads, Render(t)
      PROVE  /\ Live' => Live /\ (ui = "join" => ui' = "join")
             /\ mRun' => mRun
             /\ queued' + Len(posted') = queued + Len(posted)
             /\ events' \subseteq events \cup {"ended"}
             /\ fault # "none" => fault' = fault
             /\ fault' # fault
                   => fault' \notin {"nullPlayer", "illegalStart"}
  <2>1. /\ Alive(t)
        /\ UNCHANGED <<viewVars, ui, taskVars>>
    BY <1>5, RenderMoves DEF ProtocolInv
  <2>2. Live
    BY <2>1 DEF Live, Rendering
  <2>3. /\ events' \subseteq events \cup {"ended"}
        /\ fault = "none"
        /\ fault' # fault => fault' \notin {"nullPlayer", "illegalStart"}
    BY <1>5 DEF Render, Loop, Frame, Read, Decode, Write, Copy, Copying, Lock,
       Draw, Goes, Dies, Ends
  <2> QED
    BY <2>1, <2>2, <2>3
<1>6. CASE (\E s \in Streams : Collect(s)) \/ Dead
  BY <1>0, <1>6 DEF Collect, Dead, vars, Live, Rendering, Alive
<1> QED
  BY <1>0, <1>1, <1>2, <1>3, <1>4, <1>5, <1>6
     DEF ViewStep, ViewReturns, Behind

\* A delivered stream, and nothing else, makes the view live.
LEMMA OnPostExecuteEffects ==
    ASSUME ProtocolInv, OnPostExecute
    PROVE  /\ Live' => Live \/ mIn' # NoStream
           /\ UNCHANGED <<queued, ui>>
           /\ Len(posted') = Len(posted) - 1 /\ Len(posted) \in Nat \ {0}
           /\ events' \subseteq events \cup {"nullSource"}
           /\ events' # events => Rendering
           /\ fault = "none"
           /\ fault' # fault => /\ fault' = "illegalStart"
                                /\ thread # NoThread /\ pc[thread] = "dead"
<1>1. CASE Head(posted) = NoStream
  <2>1. UNCHANGED pc
    BY <1>1 DEF OnPostExecute, setSource, startPlayback, resumePlayback
  <2> QED
    BY <1>1, <2>1, HeadTailProperties
       DEF OnPostExecute, setSource, startPlayback, resumePlayback, Note,
           UIReady, Live, Rendering, Alive, ProtocolInv, TypeOK
<1>2. CASE Head(posted) # NoStream
  <2>1. mIn' # NoStream
    BY <1>2 DEF OnPostExecute, setSource
  <2>2. Len(posted') = Len(posted) - 1 /\ Len(posted) \in Nat \ {0}
    BY HeadTailProperties DEF OnPostExecute, ProtocolInv, TypeOK
  <2>3. fault' # fault => /\ fault' = "illegalStart"
                          /\ thread # NoThread /\ pc[thread] = "dead"
    BY <1>2 DEF OnPostExecute, setSource, startPlayback, resumePlayback
  <2> QED
    BY <1>2, <2>1, <2>2, <2>3 DEF OnPostExecute, Note, UIReady
<1> QED
  BY <1>1, <1>2

-----------------------------------------------------------------------------
(* Video.                                                                  *)

\* The view's fields and threads are what makes it live.
LEMMA QuietLive == UNCHANGED <<mIn, pc>> => Live' = Live
BY DEF Live, Rendering, Alive

\* What a step that leaves the view alone does not change.
LEMMA QuietVars ==
    UNCHANGED vars => UNCHANGED <<mIn, pc, ui, mRun, queued, posted, events,
                                  fault, thread>>
BY DEF vars, viewVars, renderVars, taskVars

\* The view is not live, and nothing was lost or freed.
LEMMA DeadVideoInv ==
    ASSUME VideoInv, ~Live', mishaps \subseteq mishaps', events' = events
    PROVE  VideoInv'
BY DEF VideoInv

\* The activity stays where it is, and the view does not become live.
LEMMA QuietVideoInv ==
    ASSUME VideoInv, UNCHANGED <<life, wanted, calls, mv>>,
           Live' => Live /\ (ui = "join" => ui' = "join"),
           events' \subseteq events \cup {"ended", "nullSource"},
           mishaps \subseteq mishaps'
    PROVE  VideoInv'
BY DEF VideoInv

\* The activity's calls keep the view from being live unwanted.
LEMMA CallsVideoInv ==
    ASSUME ProtocolInv, CallsInv, VideoInv, Calls
    PROVE  VideoInv'
<1>0. Live => mRun
  BY LiveStreams, CallEffects DEF UIReady
<1>1. CASE MainPauseVideo
  <2>1. /\ calls \in Pausing /\ calls' \in Muting
        /\ UNCHANGED <<life, mv, wanted, mishaps>>
    BY <1>1, CallEffects, Apart DEF MainPauseVideo, audioVars
  <2>2. CASE PauseVideo
    <3>1. Live' => Live /\ ui' = "join"
      BY <2>2, stopPlaybackEffects DEF PauseVideo, UIReady
    <3>2. events' = events
      BY <2>2, stopPlaybackEffects DEF PauseVideo, UIReady
    <3> QED
      BY <2>1, <3>1, <3>2, Apart DEF VideoInv
  <2>3. CASE ~(mv /\ mRun) /\ UNCHANGED vars
    <3>1. Live => mv \/ "lateRead" \in mishaps
      BY <2>1 DEF VideoInv
    <3> QED
      BY <1>0, <2>1, <2>3, <3>1, QuietLive, QuietVars, DeadVideoInv
         DEF VideoInv
  <2> QED
    BY <1>1, <2>2, <2>3 DEF MainPauseVideo, isStreaming
<1>2. CASE PauseAudio
  <2>1. /\ calls \in Muting /\ ui = "idle" /\ UNCHANGED mishaps
        /\ UNCHANGED <<mIn, pc, events>>
    BY <1>2, CallEffects, Apart, QuietVars
       DEF PauseAudio, UIReady, ClientDies, viewVars, renderVars
  <2>2. Live => "lateRead" \in mishaps
    BY <2>1 DEF VideoInv
  <2> QED
    BY <2>1, <2>2, QuietLive, DeadVideoInv DEF VideoInv
<1>3. CASE MainPlayVideo
  <2>1. /\ calls \in Starting /\ calls' \in Sounding
        /\ UNCHANGED <<life, wanted, events, mIn, pc>>
        /\ mishaps \subseteq mishaps'
        /\ mishaps' \subseteq mishaps \cup {"overlap"}
    BY <1>3, CallEffects, Apart
       DEF MainPlayVideo, PlayVideo, audioVars, Mishap, viewVars, renderVars
  <2> QED
    BY <2>1, Apart, QuietLive DEF VideoInv
<1>4. CASE PlayAudio
  <2>1. /\ calls \in Sounding /\ calls' \in Registering \cup {<<>>}
        /\ wanted' = TRUE /\ UNCHANGED <<life, mishaps, events, mIn, pc>>
    BY <1>4, CallEffects, Apart, QuietVars DEF PlayAudio
  <2> QED
    BY <2>1, Apart, QuietLive DEF VideoInv
<1>5. CASE RegisterReceiver
  <2>1. /\ calls \in Registering /\ calls' = <<>>
        /\ UNCHANGED <<life, wanted, mishaps, events, mIn, pc>>
    BY <1>5, CallEffects, Apart, QuietVars DEF RegisterReceiver, audioVars
  <2> QED
    BY <2>1, Apart, QuietLive DEF VideoInv
<1>6. CASE StopVideo
  <2>1. /\ \/ calls \in Stopping /\ calls' \in Stopping \cup {<<>>}
           \/ calls \in Replacing /\ calls' \in Replaced
        /\ UNCHANGED <<life, wanted, mishaps>>
    BY <1>6, CallEffects, Apart DEF StopVideo, audioVars
  <2>2. CASE FreeCameraMemory
    <3>1. /\ Live /\ UNCHANGED <<mIn, pc>>
          /\ events' \subseteq events \cup {"freed", "freedLive"}
      BY <2>2 DEF FreeCameraMemory, Live, viewVars, renderVars
    <3> QED
      BY <2>1, <3>1, Apart, QuietLive DEF VideoInv, CallsInv
  <2>3. CASE UNCHANGED vars
    BY <2>1, <2>3, Apart, QuietLive, QuietVars DEF VideoInv
  <2> QED
    BY <1>6, <2>2, <2>3 DEF StopVideo
<1>7. CASE StopAudio \/ UnregisterReceiver
  <2>1. /\ \/ calls \in Stopping /\ calls' \in Stopping \cup {<<>>}
           \/ calls \in Replaced /\ calls' \in Starting
        /\ UNCHANGED <<life, wanted, mishaps, events, mIn, pc>>
    BY <1>7, CallEffects, Apart, QuietVars
       DEF StopAudio, UnregisterReceiver, ClientDies, audioVars, viewVars,
           renderVars
  <2> QED
    BY <2>1, Apart, QuietLive DEF VideoInv
<1> QED
  BY <1>1, <1>2, <1>3, <1>4, <1>5, <1>6, <1>7 DEF Calls

\* A callback finds a live view wanted, known and in the foreground.
LEMMA CallbackVideoInv ==
    ASSUME ProtocolInv, CallsInv, VideoInv, Idle,
           UNCHANGED <<vars, mv, wanted>>, mishaps \subseteq mishaps',
           life = "resumed" => life' = "resumed" \/ calls' \in Pausing,
           calls' \notin Muting,
           calls' \in Replacing /\ mRun => "liveMessage" \in mishaps'
    PROVE  VideoInv'
<1>1. /\ calls = <<>> /\ ui = "idle"
      /\ UNCHANGED <<mIn, pc, events>>
  BY QuietVars DEF Idle, UIReady
<1>2. /\ Live' = Live
      /\ Live => mRun
  BY <1>1, QuietLive, LiveStreams
<1>3. CASE "lateRead" \in mishaps'
  BY <1>3 DEF VideoInv
<1>4. CASE "lateRead" \notin mishaps'
  <2>1. Live => wanted /\ life = "resumed" /\ mv
    BY <1>1, <1>4, Apart DEF VideoInv, CallsInv
  <2> QED
    BY <1>1, <1>2, <1>4, <2>1 DEF VideoInv
<1> QED
  BY <1>3, <1>4

\* Every step keeps the view from being live unwanted.
LEMMA StepVideoInv ==
    ProtocolInv /\ CallsInv /\ VideoInv /\ [MainNext]_mainVars => VideoInv'
<1> SUFFICES ASSUME ProtocolInv, CallsInv, VideoInv, [MainNext]_mainVars
             PROVE  VideoInv'
  OBVIOUS
<1>1. CASE Calls
  BY <1>1, CallsVideoInv
<1>2. CASE Lifecycle
  BY <1>2, CallbackVideoInv, NewLists, Apart
     DEF Lifecycle, OnStart, OnResume, OnPause, OnStop, OnDestroy, Callback,
         audioVars
<1>3. CASE OnClick
  BY <1>3, CallbackVideoInv, NewLists, Apart DEF OnClick, Callback, audioVars
<1>4. CASE OnReceive
  BY <1>4, CallbackVideoInv, NewLists, Apart
     DEF OnReceive, Callback, audioVars, isStreaming
<1>5. CASE OnFocusLoss
  BY <1>5, CallbackVideoInv, NewLists, Apart
     DEF OnFocusLoss, Callback, audioVars
<1>6. CASE OnFocusGain /\ calls' = play /\ UNCHANGED vars
  BY <1>6, CallbackVideoInv, NewLists, Apart DEF OnFocusGain
<1>q. ASSUME UNCHANGED <<activityVars, wanted, mIn, pc, ui, events, mishaps>>
      PROVE  VideoInv'
  BY <1>q, QuietLive, QuietVideoInv DEF activityVars
<1>7. CASE (OnFocusGain /\ SetVolume /\ UNCHANGED calls) \/ OnFocusDuck
  <2>1. SetVolume \/ UNCHANGED vars
    BY <1>7 DEF OnFocusDuck
  <2>2. UNCHANGED <<mIn, pc, ui, events>>
    BY <2>1, QuietVars DEF SetVolume, ClientDies, viewVars, renderVars
  <2> QED
    BY <1>7, <1>q, <2>2 DEF OnFocusGain, OnFocusDuck, activityVars
<1>8. CASE OnPrepared \/ AudioEnds \/ OnBufferingUpdate
  BY <1>8, <1>q, QuietVars DEF OnPrepared, AudioEnds, OnBufferingUpdate
<1>9. CASE MainSurfaceCreated
  BY <1>9, <1>q DEF MainSurfaceCreated, SurfaceCreated, viewVars, renderVars,
     audioVars
<1>10. CASE MainSurfaceLost
  <2>1. /\ calls = <<>> /\ life # "resumed"
        /\ UNCHANGED <<activityVars, audioVars, mishaps, mIn, pc>>
        /\ Rendering \/ events' = events
    BY <1>10 DEF MainSurfaceLost, SurfaceLost, Note, viewVars, renderVars
  <2>2. Live => "lateRead" \in mishaps
    BY <2>1, Apart DEF VideoInv
  <2>3. Rendering => Live
    BY DEF Live
  <2> QED
    BY <2>1, <2>2, <2>3, QuietLive, DeadVideoInv DEF VideoInv
<1>11. CASE MainOnPostExecute
  <2>1. /\ calls = <<>> /\ UNCHANGED <<activityVars, audioVars>>
        /\ OnPostExecute
        /\ mishaps \subseteq mishaps'
        /\ mIn' # NoStream =>
              "lateRead" \in mishaps' \/ (wanted /\ life = "resumed")
    BY <1>11 DEF MainOnPostExecute, Mishap
  <2>2. /\ Live' => Live \/ mIn' # NoStream
        /\ ui' = ui
        /\ events' \subseteq events \cup {"nullSource"}
    BY <2>1, OnPostExecuteEffects
  <2>3. CASE mIn' = NoStream
    BY <2>1, <2>2, <2>3, QuietVideoInv DEF activityVars, audioVars
  <2>4. CASE mIn' # NoStream
    BY <2>1, <2>2, <2>4, Apart DEF VideoInv, activityVars, audioVars
  <2> QED
    BY <2>3, <2>4
<1>12. CASE ViewStep
  BY <1>12, ViewStepEffects, QuietVideoInv DEF activityVars, audioVars
<1>13. CASE Gone \/ UNCHANGED mainVars
  BY <1>13, <1>q, QuietVars DEF Gone, mainVars, activityVars, audioVars
<1> QED
  BY <1>1, <1>2, <1>3, <1>4, <1>5, <1>6, <1>7, <1>8, <1>9, <1>10, <1>11,
     <1>12, <1>13 DEF MainNext, AudioCallbacks, OnFocusGain

-----------------------------------------------------------------------------
(* Sound.                                                                  *)

\* The activity's calls keep the player and the focus to the foreground.
LEMMA CallsSoundInv ==
    ASSUME CallsInv, SoundInv, Calls
    PROVE  SoundInv'
<1>0. fault = "none"
  BY CallEffects DEF UIReady
<1> USE DEF SoundInv
<1>1. CASE MainPauseVideo
  <2>1. /\ calls \in Pausing /\ calls' \in Muting
        /\ UNCHANGED <<life, audio, focus, pauseBeforePlaying, mishaps, fault>>
    BY <1>1, CallEffects, Apart, QuietVars
       DEF MainPauseVideo, audioVars, PauseVideo, stopPlayback
  <2> QED
    BY <2>1, Apart
<1>2. CASE PauseAudio
  <2>1. calls \in Muting /\ calls' = <<>> /\ UNCHANGED <<life, mishaps>>
    BY <1>2, CallEffects, Apart DEF PauseAudio
  <2>2. CASE audio = "none"
    <3>1. "lateMessage" \in mishaps
      BY <1>0, <2>1, <2>2, Apart
    <3> QED
      BY <2>1, <3>1
  <2>3. CASE audio # "none"
    <3>1. /\ fault' = fault /\ focus' = "none" /\ audio' # "playing"
          /\ audio' # "none"
          /\ audio' = "preparing" => pauseBeforePlaying'
      BY <1>2, <2>3, QuietVars DEF PauseAudio
    <3> QED
      BY <1>0, <2>1, <3>1, Apart
  <2> QED
    BY <2>2, <2>3
<1>3. CASE MainPlayVideo
  <2>1. /\ calls \in Starting /\ calls' \in Sounding
        /\ UNCHANGED <<life, audio, focus, pauseBeforePlaying, fault>>
        /\ mishaps' \cup {"overlap"} = mishaps \cup {"overlap"}
    BY <1>3, CallEffects, Apart
       DEF MainPlayVideo, PlayVideo, audioVars, Mishap
  <2> QED
    BY <2>1, Apart
<1>4. CASE PlayAudio
  <2>1. /\ calls \in Sounding /\ calls' \in Registering \cup {<<>>}
        /\ audio' \in {"preparing", "idle"}
        /\ UNCHANGED <<life, mishaps, fault>>
    BY <1>4, CallEffects, Apart, QuietVars DEF PlayAudio
  <2> QED
    BY <2>1, Apart
<1>5. CASE RegisterReceiver
  <2>1. /\ calls \in Registering /\ calls' = <<>>
        /\ UNCHANGED <<life, audio, focus, pauseBeforePlaying, mishaps, fault>>
    BY <1>5, CallEffects, Apart, QuietVars DEF RegisterReceiver, audioVars
  <2> QED
    BY <2>1, Apart
<1>6. CASE StopVideo
  <2>1. /\ \/ calls \in Stopping /\ calls' \in Stopping \cup {<<>>}
           \/ calls \in Replacing /\ calls' \in Replaced
        /\ UNCHANGED <<life, audio, focus, pauseBeforePlaying, mishaps, fault>>
    BY <1>6, CallEffects, Apart, QuietVars
       DEF StopVideo, FreeCameraMemory, audioVars
  <2> QED
    BY <2>1, Apart DEF CallsInv
<1>7. CASE StopAudio
  <2>1. /\ \/ calls \in Stopping /\ calls' \in Stopping \cup {<<>>}
           \/ calls \in Replaced /\ calls' \in Starting
        /\ audio' = "none"
        /\ UNCHANGED <<life, focus, mishaps, fault>>
    BY <1>7, CallEffects, Apart, QuietVars DEF StopAudio
  <2> QED
    BY <2>1, Apart DEF CallsInv
<1>8. CASE UnregisterReceiver
  <2>1. /\ calls \in Stopping /\ calls' \in Stopping \cup {<<>>}
        /\ fault' # fault => fault' = "notRegistered"
        /\ UNCHANGED <<life, audio, focus, pauseBeforePlaying, mishaps>>
    BY <1>8, CallEffects, Apart, QuietVars DEF UnregisterReceiver, audioVars
  <2> QED
    BY <1>0, <2>1, Apart DEF CallsInv
<1> QED
  BY <1>1, <1>2, <1>3, <1>4, <1>5, <1>6, <1>7, <1>8 DEF Calls

\* A callback finds no player and no focus out of the foreground.
LEMMA IdleSoundInv ==
    ASSUME SoundInv, Idle, "lateMessage" \notin mishaps
    PROVE  IF life = "resumed" THEN audio # "none"
           ELSE /\ focus = "none"
                /\ audio # "playing"
                /\ audio = "preparing" => pauseBeforePlaying
BY Apart DEF SoundInv, Idle, UIReady

\* A callback that makes calls leaves the player to them.
LEMMA CallbackSoundInv ==
    ASSUME SoundInv, Idle, UNCHANGED <<vars, audio, pauseBeforePlaying>>,
           mishaps \subseteq mishaps',
           focus # "none" \/ focus' = "none",
           life = "resumed" => life' = "resumed" \/ calls' \in Pausing,
           \/ calls' \in Starting
           \/ life # "resumed" /\ calls' \in Stopping \cup {<<>>}
           \/ calls' \in Pausing /\ (life = "resumed" \/ focus # "none")
           \/ calls' \in Replacing,
           \/ life' = "resumed" \/ calls' \notin Starting \cup Replacing
           \/ "lateMessage" \in mishaps' \/ focus # "none",
           life' = "resumed" => life = "resumed" \/ calls' \in Starting
    PROVE  SoundInv'
<1>1. fault = "none" /\ fault' = "none"
  BY QuietVars DEF Idle, UIReady
<1>2. CASE "lateMessage" \in mishaps'
  BY <1>1, <1>2 DEF SoundInv
<1>3. CASE "lateMessage" \notin mishaps'
  <2>1. IF life = "resumed" THEN audio # "none"
        ELSE /\ focus = "none"
             /\ audio # "playing"
             /\ audio = "preparing" => pauseBeforePlaying
    BY <1>3, IdleSoundInv
  <2> QED
    BY <1>1, <1>3, <2>1, Apart DEF SoundInv
<1> QED
  BY <1>2, <1>3

\* Every step keeps the player and the focus to the foreground.
LEMMA StepSoundInv ==
    ProtocolInv /\ CallsInv /\ SoundInv /\ [MainNext]_mainVars => SoundInv'
<1> SUFFICES ASSUME ProtocolInv, CallsInv, SoundInv, [MainNext]_mainVars
             PROVE  SoundInv'
  OBVIOUS
<1> USE DEF activityVars, audioVars
<1>1. CASE Calls
  BY <1>1, CallsSoundInv
<1>2. CASE Lifecycle
  BY <1>2, CallbackSoundInv, NewLists, Apart
     DEF Lifecycle, OnStart, OnResume, OnPause, OnStop, OnDestroy, Callback
<1>3. CASE OnClick
  BY <1>3, CallbackSoundInv, NewLists, Apart DEF OnClick, Callback
<1>4. CASE OnReceive
  BY <1>4, CallbackSoundInv, NewLists, Apart DEF OnReceive, Callback
<1>5. CASE OnFocusLoss
  BY <1>5, CallbackSoundInv, NewLists, Apart DEF OnFocusLoss, Callback
<1>6. CASE OnFocusGain /\ calls' = play /\ UNCHANGED vars
  BY <1>6, CallbackSoundInv, NewLists, Apart DEF OnFocusGain
<1>7. CASE (OnFocusGain /\ SetVolume /\ UNCHANGED calls) \/ OnFocusDuck
  <2>1. /\ Idle /\ focus # "none" /\ focus' # "none"
        /\ UNCHANGED <<life, calls, audio, pauseBeforePlaying, mishaps>>
        /\ SetVolume \/ UNCHANGED vars
    BY <1>7 DEF OnFocusGain, OnFocusDuck
  <2>2. CASE "lateMessage" \in mishaps
    BY <2>1, <2>2 DEF SoundInv
  <2>3. CASE "lateMessage" \notin mishaps
    <3>1. life = "resumed" /\ audio # "none"
      BY <2>1, <2>3, IdleSoundInv
    <3>2. fault' = fault
      BY <2>1, <3>1, QuietVars DEF SetVolume
    <3> QED
      BY <2>1, <3>1, <3>2 DEF SoundInv
  <2> QED
    BY <2>2, <2>3
<1>8. CASE OnPrepared \/ AudioEnds \/ OnBufferingUpdate
  <2>1. /\ Idle /\ audio # "none"
        /\ UNCHANGED <<life, calls, focus, pauseBeforePlaying, mishaps, vars>>
    BY <1>8 DEF OnPrepared, AudioEnds, OnBufferingUpdate
  <2>2. \/ audio' = audio
        \/ audio' \in {"silent", "idle"}
        \/ audio' = "playing" /\ audio = "preparing" /\ ~pauseBeforePlaying
    BY <1>8 DEF OnPrepared, AudioEnds, OnBufferingUpdate
  <2> QED
    BY <2>1, <2>2, QuietVars, Apart DEF SoundInv, Idle
<1>q. ASSUME UNCHANGED <<life, calls, audio, pauseBeforePlaying, focus>>,
             mishaps \subseteq mishaps',
             fault # "none" => fault' = fault,
             fault' # fault => fault' # "nullPlayer"
      PROVE  SoundInv'
  BY <1>q DEF SoundInv
<1>9. CASE MainSurfaceCreated \/ MainSurfaceLost
  BY <1>9, <1>q
     DEF MainSurfaceCreated, SurfaceCreated, MainSurfaceLost, SurfaceLost
<1>10. CASE MainOnPostExecute
  <2>1. /\ UNCHANGED <<activityVars, audioVars>> /\ OnPostExecute
        /\ mishaps \subseteq mishaps'
    BY <1>10 DEF MainOnPostExecute, Mishap
  <2> QED
    BY <1>q, <2>1, OnPostExecuteEffects
<1>11. CASE ViewStep
  BY <1>11, <1>q, ViewStepEffects
<1>12. CASE Gone \/ UNCHANGED mainVars
  BY <1>12, <1>q, QuietVars DEF Gone, mainVars
<1> QED
  BY <1>1, <1>2, <1>3, <1>4, <1>5, <1>6, <1>7, <1>8, <1>9, <1>10, <1>11,
     <1>12 DEF MainNext, AudioCallbacks, OnFocusGain

-----------------------------------------------------------------------------
(* One read at a time.                                                     *)

\* A thread that was started is running, or the join waits for it.
StartedInv ==
    thread # NoThread /\ pc[thread] # "new" => mRun \/ ui = "join"

\* Every step keeps a started thread running or waited for.
LEMMA StepStartedInv ==
    ProtocolInv /\ StartedInv /\ [Next]_vars => StartedInv'
<1> SUFFICES ASSUME ProtocolInv, StartedInv, [Next]_vars PROVE StartedInv'
  OBVIOUS
<1> USE NullAssumption DEF StartedInv, viewVars, renderVars
<1>1. CASE Client
  <2>1. CASE PauseVideo
    BY <2>1 DEF PauseVideo, stopPlayback, renderVars
  <2> QED
    BY <1>1, <2>1 DEF Client, PlayVideo, FreeCameraMemory, SurfaceCreated,
       SurfaceLost, ClientDies, UIReady
<1>2. CASE JoinReturns
  BY <1>2 DEF JoinReturns
<1>3. CASE ClearCameraMemory
  BY <1>3 DEF ClearCameraMemory
<1>4. CASE SurfaceDestroyed
  BY <1>4 DEF SurfaceDestroyed, stopPlayback
<1>5. CASE OnPostExecute
  <2>1. CASE startPlayback(Head(posted)) \/ resumePlayback(Head(posted))
    BY <2>1 DEF startPlayback, resumePlayback
  <2>2. CASE UNCHANGED <<mRun, suspending, thread, pc, fault>>
    BY <1>5, <2>2 DEF OnPostExecute
  <2> QED
    BY <1>5, <2>1, <2>2 DEF OnPostExecute, setSource
<1>6. CASE DoInBackground \/ UNCHANGED vars
  BY <1>6 DEF DoInBackground, vars
<1>7. ASSUME NEW t \in Threads, Render(t) PROVE StartedInv'
  <2>1. /\ Alive(t) /\ UNCHANGED <<viewVars, ui>>
    BY <1>7, RenderMoves DEF ProtocolInv
  <2>2. thread = t /\ pc[t] # "new"
    BY <2>1 DEF Alive, ProtocolInv, ThreadInv
  <2> QED
    BY <2>1, <2>2
<1>8. ASSUME NEW s \in Streams, Collect(s) PROVE StartedInv'
  BY <1>8 DEF Collect
<1> QED
  BY <1>1, <1>2, <1>3, <1>4, <1>5, <1>6, <1>7, <1>8 DEF Next, UIThread, Dead

\* A step that asks for no read and delivers none.
LEMMA QuietOverlapInv ==
    ASSUME OverlapInv, queued' + Len(posted') = queued + Len(posted),
           mRun' => mRun,
           "nullSource" \in events' => "nullSource" \in events,
           fault' # fault => fault' # "illegalStart",
           mishaps \subseteq mishaps'
    PROVE  OverlapInv'
BY DEF OverlapInv

\* Every step of an activity that has not overlapped two reads has at most one
\* under way.
LEMMA StepOverlapInv ==
    ProtocolInv /\ StartedInv /\ OverlapInv /\ [MainNext]_mainVars
        => OverlapInv'
<1> SUFFICES ASSUME ProtocolInv, StartedInv, OverlapInv, [MainNext]_mainVars
             PROVE  OverlapInv'
  OBVIOUS
<1> USE DEF audioVars, activityVars, viewVars, taskVars
<1>q. ASSUME UNCHANGED <<mRun, queued, posted, events>>,
             fault' # fault => fault' # "illegalStart",
             mishaps \subseteq mishaps'
      PROVE  OverlapInv'
  BY <1>q, QuietOverlapInv
<1>1. CASE MainPlayVideo
  <2>1. /\ queued' = queued + 1
        /\ UNCHANGED <<posted, mRun, events, fault>>
        /\ (~mRun /\ queued + Len(posted) <= 0) \/ "overlap" \in mishaps'
        /\ mishaps \subseteq mishaps'
    BY <1>1 DEF MainPlayVideo, PlayVideo, Mishap, isStreaming, Outstanding,
       ProtocolInv, TypeOK
  <2>2. queued \in Nat /\ Len(posted) \in Nat
    BY LenProperties DEF ProtocolInv, TypeOK
  <2> QED
    BY <2>1, <2>2 DEF OverlapInv
<1>2. CASE MainPauseVideo
  <2>1. CASE PauseVideo
    <3>1. ui # "join"
      BY <2>1 DEF PauseVideo, UIReady
    <3>2. ~mRun' /\ UNCHANGED <<queued, posted, events, fault>>
      BY <2>1, <3>1, stopPlaybackEffects DEF PauseVideo
    <3> QED
      BY <1>2, <3>2, QuietOverlapInv DEF MainPauseVideo
  <2>2. CASE UNCHANGED vars
    BY <1>2, <1>q, <2>2, QuietVars DEF MainPauseVideo
  <2> QED
    BY <1>2, <2>1, <2>2 DEF MainPauseVideo
<1>3. CASE StopVideo
  <2>1. CASE FreeCameraMemory
    <3>1. /\ UNCHANGED <<mRun, queued, posted, fault>>
          /\ "nullSource" \in events' => "nullSource" \in events
      BY <2>1 DEF FreeCameraMemory
    <3> QED
      BY <1>3, <3>1, QuietOverlapInv DEF StopVideo
  <2>2. CASE UNCHANGED vars
    BY <1>3, <1>q, <2>2, QuietVars DEF StopVideo
  <2> QED
    BY <1>3, <2>1, <2>2 DEF StopVideo
<1>4. CASE PauseAudio \/ PlayAudio \/ StopAudio \/ RegisterReceiver
           \/ UnregisterReceiver
  <2>1. /\ UNCHANGED mishaps
        /\ \/ UNCHANGED vars
           \/ ClientDies /\ fault' \in {"nullPlayer", "notRegistered"}
    BY <1>4 DEF PauseAudio, PlayAudio, StopAudio, RegisterReceiver,
       UnregisterReceiver
  <2> QED
    BY <1>q, <2>1, QuietVars DEF ClientDies
<1>5. CASE Lifecycle \/ OnClick \/ OnReceive \/ OnFocusLoss
  <2>1. UNCHANGED vars /\ mishaps \subseteq mishaps'
    BY <1>5 DEF Lifecycle, OnStart, OnResume, OnPause, OnStop, OnDestroy,
       OnClick, OnReceive, OnFocusLoss, Callback
  <2> QED
    BY <1>q, <2>1, QuietVars
<1>6. CASE OnFocusDuck \/ OnFocusGain \/ OnPrepared \/ AudioEnds
           \/ OnBufferingUpdate
  <2>1. UNCHANGED mishaps /\ (UNCHANGED vars \/ SetVolume)
    BY <1>6 DEF OnFocusDuck, OnFocusGain, OnPrepared, AudioEnds,
       OnBufferingUpdate
  <2> QED
    BY <1>q, <2>1, QuietVars DEF SetVolume, ClientDies
<1>7. CASE MainSurfaceCreated \/ MainSurfaceLost
  <2>1. /\ UNCHANGED <<mRun, queued, posted, fault, mishaps>>
        /\ "nullSource" \in events' => "nullSource" \in events
    BY <1>7 DEF MainSurfaceCreated, SurfaceCreated, MainSurfaceLost,
       SurfaceLost, Note
  <2> QED
    BY <2>1, QuietOverlapInv
<1>8. CASE MainOnPostExecute
  <2>1. OnPostExecute /\ mishaps \subseteq mishaps'
    BY <1>8 DEF MainOnPostExecute, Mishap
  <2>2. /\ queued' = queued /\ Len(posted') = Len(posted) - 1
        /\ queued \in Nat /\ Len(posted) \in Nat \ {0}
        /\ events' # events => Rendering
        /\ fault' # fault => thread # NoThread /\ pc[thread] = "dead"
    BY <2>1, OnPostExecuteEffects DEF ProtocolInv, TypeOK
  <2>3. CASE "overlap" \in mishaps
    BY <2>1, <2>3 DEF OverlapInv
  <2>4. CASE "overlap" \notin mishaps
    <3>1. queued + Len(posted) = 1 /\ queued' + Len(posted') = 0
      BY <2>2, <2>4 DEF OverlapInv
    <3>2. ~mRun /\ ui = "idle"
      BY <2>1, <2>4, <3>1 DEF OverlapInv, OnPostExecute, UIReady
    <3>3. events' = events /\ fault' = fault
      BY <2>2, <3>2 DEF ProtocolInv, StopInv, StartedInv
    <3> QED
      BY <2>4, <3>1, <3>3 DEF OverlapInv
  <2> QED
    BY <2>3, <2>4
<1>9. CASE ViewStep
  <2>1. "nullSource" \in events' => "nullSource" \in events
    BY <1>9, ViewStepEffects
  <2> QED
    BY <1>9, <2>1, ViewStepEffects, QuietOverlapInv
<1>10. CASE Gone \/ UNCHANGED mainVars
  BY <1>10, <1>q, QuietVars DEF Gone, mainVars
<1> QED
  BY <1>1, <1>2, <1>3, <1>4, <1>5, <1>6, <1>7, <1>8, <1>9, <1>10
     DEF MainNext, Calls, AudioCallbacks

-----------------------------------------------------------------------------
(* The theorems.                                                           *)

\* What the activity, its view and its player know of each other.
MainInv ==
    /\ IInv
    /\ StartedInv
    /\ CallsInv
    /\ VideoInv
    /\ SoundInv
    /\ OverlapInv

\* A newly made activity satisfies the invariant.
LEMMA InitMainInv == MainInit => MainInv
<1> SUFFICES ASSUME MainInit PROVE MainInv
  OBVIOUS
<1>1. IInv
  BY InitIInv DEF MainInit
<1>2. /\ ~Live /\ StartedInv
      /\ fault = "none" /\ events = {} /\ ~mRun
      /\ queued + Len(posted) = 0
  BY DEF MainInit, Init, Live, Rendering, Alive, StartedInv
<1>3. CallsInv /\ SoundInv
  BY <1>2, Apart DEF MainInit, CallsInv, SoundInv
<1>4. VideoInv /\ OverlapInv
  BY <1>2 DEF VideoInv, OverlapInv
<1> QED
  BY <1>1, <1>2, <1>3, <1>4 DEF MainInv

\* Every step of the activity keeps the invariant.
LEMMA StepMainInv == MainInv /\ [MainNext]_mainVars => MainInv'
<1> SUFFICES ASSUME MainInv, [MainNext]_mainVars PROVE MainInv'
  OBVIOUS
<1>1. [Next]_vars /\ ProtocolInv
  BY MainNextImplements DEF MainInv, IInv
<1> QED
  BY <1>1, StepIInv, StepStartedInv, StepCallsInv, StepVideoInv,
     StepSoundInv, StepOverlapInv DEF MainInv

\* The invariant holds of every behaviour of the activity.
LEMMA MainInvariance == MainSpec => []MainInv
BY InitMainInv, StepMainInv, PTL DEF MainSpec

\* A paused monitor shows no video, whatever threads and streams there are,
\* unless a stream arrived after the pause (MainActivity.java 162-182).
THEOREM VideoPauses == MainSpec => []VideoObeysPause
<1>1. MainInv => VideoObeysPause
  BY DEF MainInv, VideoInv, VideoObeysPause, Live
<1> QED
  BY <1>1, MainInvariance, PTL

\* Away from the foreground the monitor is silent and dark, unless a message
\* or a stream came to it there (MainActivity.java 455-490).
THEOREM BackgroundQuiet == MainSpec => []BackgroundIsQuiet
<1>1. MainInv => BackgroundIsQuiet
  <2> SUFFICES ASSUME MainInv, Idle, life # "resumed"
               PROVE  /\ audio = "playing" => "lateMessage" \in mishaps
                      /\ Rendering => "lateRead" \in mishaps
    BY DEF BackgroundIsQuiet
  <2>1. fault = "none" /\ calls \notin Pausing \cup Muting
    BY Apart DEF Idle, UIReady
  <2> QED
    BY <2>1 DEF MainInv, VideoInv, SoundInv, Live
<1> QED
  BY <1>1, MainInvariance, PTL

\* A bad frame and an unregistered receiver apart, nothing kills the process
\* but a read, a message or a play() out of step.
THEOREM FaultsNeedMishaps == MainSpec => []FaultNeedsMishap
<1>1. MainInv => FaultNeedsMishap
  BY DEF MainInv, IInv, FaultHasCause, VideoInv, SoundInv, OverlapInv,
     FaultNeedsMishap
<1> QED
  BY <1>1, MainInvariance, PTL

=============================================================================
