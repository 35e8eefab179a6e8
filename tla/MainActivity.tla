----------------------------- MODULE MainActivity -----------------------------
(***************************************************************************)
(* com.sourceauditor.sahomemonitor.MainActivity: the client of MjpegView.  *)
(* It plays, pauses and stops the camera's video and audio as the activity *)
(* goes through its life, as the button is pressed, as the audio focus     *)
(* comes and goes and as messages from the home monitor arrive.            *)
(*                                                                         *)
(* All of this runs on the UI thread.  A callback is a list of calls that  *)
(* the UI thread works off one by one; the render thread and the DoRead    *)
(* tasks run in between, and no other callback does.                       *)
(***************************************************************************)
EXTENDS MjpegView

CONSTANT
    HasSound \* whether the home monitor's audio source can be opened

ASSUME HasSoundAssumption == HasSound \in BOOLEAN

VARIABLES
    life,       \* where the activity is in its life
    registered, \* mReceiver is registered
    mv,         \* the field mv is not null
    calls,      \* what the UI thread has still to call in this callback
    audio,      \* audioPlayer: "none" is null, "idle" has nothing to play
    pauseBeforePlaying,
    focus,      \* the listener's place with the AudioManager
    label,      \* the button's text: "play", or "other" for Pause and N%
    wanted,     \* history: the last of play() and pause() was play()
    mishaps     \* history: what has happened out of step

activityVars == <<life, registered, mv, calls>>
audioVars    == <<audio, pauseBeforePlaying, focus, label, wanted>>
mainVars     == <<vars, activityVars, audioVars, mishaps>>

-----------------------------------------------------------------------------

Methods == {"playVideo", "playAudio", "pauseVideo", "pauseAudio",
            "stopVideo", "stopAudio", "registerReceiver",
            "unregisterReceiver"}

play  == <<"playVideo", "playAudio">>
pause == <<"pauseVideo", "pauseAudio">>
stop  == <<"stopVideo", "stopAudio">>

Mishaps == {"overlap", "lateRead", "liveMessage", "lateMessage"}

MainTypeOK ==
    /\ TypeOK
    /\ life \in {"created", "stopped", "started", "resumed", "destroyed"}
    /\ registered \in BOOLEAN
    /\ mv \in BOOLEAN
    /\ calls \in Seq(Methods)
    /\ audio \in {"none", "idle", "preparing", "silent", "playing"}
    /\ pauseBeforePlaying \in BOOLEAN
    /\ focus \in {"none", "held", "ducked"}
    /\ label \in {"play", "other"}
    /\ wanted \in BOOLEAN
    /\ mishaps \in SUBSET Mishaps

\* MainActivity.paused()
paused == label = "play"

\* The UI thread takes the next callback.
Idle == UIReady /\ calls = <<>>

\* DoRead tasks that have been asked for and have not been delivered.
Outstanding == queued + Len(posted)

\* Bound: a callback that plays is not taken while MaxReads are outstanding.
MayPlay == Outstanding < MaxReads

Mishap(condition, what) ==
    mishaps' = IF condition THEN mishaps \cup {what} ELSE mishaps

MainInit ==
    /\ Init
    /\ life = "created"
    /\ registered = FALSE
    /\ mv = FALSE
    /\ calls = <<>>
    /\ audio = "none"
    /\ pauseBeforePlaying = FALSE
    /\ focus = "none"
    /\ label = "other"
    /\ wanted = FALSE
    /\ mishaps = {}

-----------------------------------------------------------------------------
(* The calls.                                                              *)

\* The UI thread makes the next call, and keeps the rest for later.
Call(method) ==
    /\ UIReady
    /\ calls # <<>>
    /\ Head(calls) = method
    /\ calls' = Tail(calls)

\* Mutant of MainPauseVideo: the view is not stopped.
MainPauseVideoNot ==
    /\ Call("pauseVideo")
    /\ UNCHANGED <<vars, life, registered, mv, audioVars, mishaps>>

\* Mutant of MainPauseVideo: isStreaming() is not looked at.
MainPauseVideoAlways ==
    /\ Call("pauseVideo")
    /\ \/ mv /\ stopPlayback /\ UNCHANGED <<surfaceDone, surface>>
       \/ ~mv /\ UNCHANGED vars
    /\ UNCHANGED <<life, registered, mv, audioVars, mishaps>>

\* pauseVideo stops a view that is known and streaming.
MainPauseVideo ==
    /\ Call("pauseVideo")
    /\ \/ mv /\ PauseVideo
       \/ ~(mv /\ isStreaming) /\ UNCHANGED vars
    /\ UNCHANGED <<life, registered, mv, audioVars, mishaps>>

\* Mutant of PauseAudio: a player that is not playing is left alone.
PauseAudioIfPlaying ==
    /\ Call("pauseAudio")
    /\ audio' = IF audio = "playing" THEN "silent" ELSE audio
    /\ focus' = "none"
    /\ label' = "play"
    /\ wanted' = FALSE
    /\ UNCHANGED <<vars, life, registered, mv, pauseBeforePlaying, mishaps>>

\* Mutant of PauseAudio: the audio focus is kept.
PauseAudioKeepsFocus ==
    /\ Call("pauseAudio")
    /\ audio' = IF audio = "playing" THEN "silent" ELSE audio
    /\ pauseBeforePlaying' = (pauseBeforePlaying \/ audio # "playing")
    /\ label' = "play"
    /\ wanted' = FALSE
    /\ UNCHANGED <<vars, life, registered, mv, focus, mishaps>>

\* pauseAudio, and the label that ends pause().
PauseAudio ==
    /\ Call("pauseAudio")
    /\ \/ /\ audio = "none"
          /\ ClientDies /\ fault' = "nullPlayer"
          /\ UNCHANGED audioVars
       \/ /\ audio # "none"
          /\ \/ /\ audio = "playing"
                /\ audio' = "silent"
                /\ UNCHANGED pauseBeforePlaying
             \/ /\ audio # "playing"
                /\ pauseBeforePlaying' = TRUE
                /\ UNCHANGED audio
          /\ focus' = "none"
          /\ label' = "play"
          /\ wanted' = FALSE
          /\ UNCHANGED vars
    /\ UNCHANGED <<life, registered, mv, mishaps>>

\* playVideo finds the view and asks for a DoRead.
MainPlayVideo ==
    /\ Call("playVideo")
    /\ PlayVideo
    /\ mv' = TRUE
    /\ Mishap(isStreaming \/ Outstanding > 0, "overlap")
    /\ UNCHANGED <<life, registered, audioVars>>

\* playAudio, and the label that ends play().  A new or a reset player gets
\* its source and prepares, unless the source fails or the focus is refused.
PlayAudio ==
    /\ Call("playAudio")
    /\ \/ /\ HasSound
          /\ audio' = "preparing"
          /\ focus' = "held"
          /\ pauseBeforePlaying' = FALSE
       \/ /\ audio' = "idle"
          /\ UNCHANGED <<focus, pauseBeforePlaying>>
    /\ label' = "other"
    /\ wanted' = TRUE
    /\ UNCHANGED <<vars, life, registered, mv, mishaps>>

\* stopVideo frees the frame buffer, if a view with a stream is known, and
\* forgets the view.  It does not stop the render thread.
StopVideo ==
    /\ Call("stopVideo")
    /\ \/ mv /\ FreeCameraMemory
       \/ ~(mv /\ mIn # NoStream /\ rgb = "live") /\ UNCHANGED vars
    /\ mv' = FALSE
    /\ UNCHANGED <<life, registered, audioVars, mishaps>>

\* stopAudio gives the player back, but not the audio focus.
StopAudio ==
    /\ Call("stopAudio")
    /\ audio' = "none"
    /\ pauseBeforePlaying' = (pauseBeforePlaying /\ audio = "none")
    /\ UNCHANGED <<vars, life, registered, mv, focus, label, wanted, mishaps>>

RegisterReceiver ==
    /\ Call("registerReceiver")
    /\ registered' = TRUE
    /\ UNCHANGED <<vars, life, mv, audioVars, mishaps>>

UnregisterReceiver ==
    /\ Call("unregisterReceiver")
    /\ \/ registered /\ UNCHANGED vars
       \/ ~registered /\ ClientDies /\ fault' = "notRegistered"
    /\ registered' = FALSE
    /\ UNCHANGED <<life, mv, audioVars, mishaps>>

-----------------------------------------------------------------------------
(* The activity's callbacks.                                               *)

\* A callback of the activity makes these calls.
Callback(methods) ==
    /\ Idle
    /\ calls' = methods
    /\ UNCHANGED <<vars, registered, mv, audioVars>>

OnStart ==
    /\ life \in {"created", "stopped"}
    /\ Callback(<<>>)
    /\ life' = "started"
    /\ UNCHANGED mishaps

OnResume ==
    /\ life = "started"
    /\ MayPlay
    /\ Callback(play \o <<"registerReceiver">>)
    /\ life' = "resumed"
    /\ UNCHANGED mishaps

OnPause ==
    /\ life = "resumed"
    /\ Callback(pause)
    /\ life' = "started"
    /\ UNCHANGED mishaps

OnStop ==
    /\ life = "started"
    /\ Callback(stop)
    /\ life' = "stopped"
    /\ UNCHANGED mishaps

OnDestroy ==
    /\ life = "stopped"
    /\ Callback(<<"stopAudio", "stopVideo", "unregisterReceiver">>)
    /\ life' = "destroyed"
    /\ UNCHANGED mishaps

\* The button can be pressed while the activity has the window's focus.
OnClick ==
    /\ life = "resumed"
    /\ \/ paused /\ MayPlay /\ Callback(play)
       \/ ~paused /\ Callback(pause)
    /\ UNCHANGED <<life, mishaps>>

\* processMessageFromHome, when the message brings a new URL.
OnReceive ==
    /\ registered
    /\ MayPlay
    /\ Callback(stop \o play)
    /\ mishaps' = mishaps
          \cup (IF isStreaming THEN {"liveMessage"} ELSE {})
          \cup (IF life # "resumed" THEN {"lateMessage"} ELSE {})
    /\ UNCHANGED life

\* onAudioFocusChange: AUDIOFOCUS_LOSS and AUDIOFOCUS_LOSS_TRANSIENT.
OnFocusLoss ==
    /\ focus # "none"
    /\ Callback(pause)
    /\ UNCHANGED <<life, mishaps>>

\* audioPlayer.setVolume, of a player that may be null.
SetVolume ==
    \/ audio = "none" /\ ClientDies /\ fault' = "nullPlayer"
    \/ audio # "none" /\ UNCHANGED vars

\* onAudioFocusChange: AUDIOFOCUS_LOSS_TRANSIENT_CAN_DUCK.
OnFocusDuck ==
    /\ Idle
    /\ focus = "held"
    /\ focus' = "ducked"
    /\ \/ paused /\ UNCHANGED vars
       \/ ~paused /\ SetVolume
    /\ UNCHANGED <<activityVars, audio, pauseBeforePlaying, label, wanted,
                   mishaps>>

\* onAudioFocusChange: AUDIOFOCUS_GAIN, after the focus was lost for a while.
\* A paused monitor plays again; PausedHoldsNoFocus says there is none.
OnFocusGain ==
    /\ Idle
    /\ focus = "ducked"
    /\ focus' = "held"
    /\ \/ paused /\ MayPlay /\ calls' = play /\ UNCHANGED vars
       \/ ~paused /\ SetVolume /\ UNCHANGED calls
    /\ UNCHANGED <<life, registered, mv, audio, pauseBeforePlaying, label,
                   wanted, mishaps>>

\* onPrepared starts the player, unless pause() came first.
OnPrepared ==
    /\ Idle
    /\ audio = "preparing"
    /\ \/ /\ ~pauseBeforePlaying
          /\ audio' = "playing"
          /\ label' = "other"
       \/ /\ audio' = "silent"
          /\ UNCHANGED label
    /\ UNCHANGED <<vars, activityVars, pauseBeforePlaying, focus, wanted,
                   mishaps>>

\* The stream ends, which nobody listens for, or fails: onError says so.
AudioEnds ==
    /\ Idle
    /\ \/ audio = "playing" /\ audio' = "silent"
       \/ audio \in {"preparing", "silent", "playing"} /\ audio' = "idle"
    /\ UNCHANGED <<vars, activityVars, pauseBeforePlaying, focus, label,
                   wanted, mishaps>>

\* onBufferingUpdate sets the label to a percentage or to Pause.
OnBufferingUpdate ==
    /\ Idle
    /\ audio \in {"preparing", "silent", "playing"}
    /\ label' = "other"
    /\ UNCHANGED <<vars, activityVars, audio, pauseBeforePlaying, focus,
                   wanted, mishaps>>

-----------------------------------------------------------------------------
(* What the view, its threads and the window do meanwhile.                 *)

MainSurfaceCreated ==
    /\ calls = <<>>
    /\ life \in {"started", "resumed"}
    /\ SurfaceCreated
    /\ UNCHANGED <<activityVars, audioVars, mishaps>>

\* The window is hidden once the activity is no longer resumed.
MainSurfaceLost ==
    /\ calls = <<>>
    /\ life # "resumed"
    /\ SurfaceLost
    /\ UNCHANGED <<activityVars, audioVars, mishaps>>

MainOnPostExecute ==
    /\ calls = <<>>
    /\ OnPostExecute
    /\ Mishap(mIn' # NoStream /\ (~wanted \/ life # "resumed"), "lateRead")
    /\ UNCHANGED <<activityVars, audioVars>>

\* The rest is the view's own business.
Behind(A) == A /\ UNCHANGED <<activityVars, audioVars, mishaps>>

ViewReturns == Behind(JoinReturns \/ ClearCameraMemory \/ SurfaceDestroyed)

ViewStep ==
    \/ ViewReturns
    \/ Behind(DoInBackground)
    \/ \E t \in Threads : Behind(Render(t))
    \/ \E s \in Streams : Behind(Collect(s))
    \/ Behind(Dead)

Calls ==
    \/ MainPauseVideo
    \/ PauseAudio
    \/ MainPlayVideo
    \/ PlayAudio
    \/ StopVideo
    \/ StopAudio
    \/ RegisterReceiver
    \/ UnregisterReceiver

Lifecycle ==
    \/ OnStart
    \/ OnResume
    \/ OnPause
    \/ OnStop
    \/ OnDestroy

AudioCallbacks ==
    \/ OnFocusLoss
    \/ OnFocusDuck
    \/ OnFocusGain
    \/ OnPrepared
    \/ AudioEnds
    \/ OnBufferingUpdate

\* A destroyed activity gets no more callbacks of its own.
Gone ==
    /\ life = "destroyed"
    /\ Idle
    /\ UNCHANGED mainVars

MainNext ==
    \/ Calls
    \/ Lifecycle
    \/ OnClick
    \/ OnReceive
    \/ AudioCallbacks
    \/ MainSurfaceCreated
    \/ MainSurfaceLost
    \/ MainOnPostExecute
    \/ ViewStep
    \/ Gone

MainSpec == MainInit /\ [][MainNext]_mainVars

\* The kernel schedules the render threads, and the UI thread gets on with
\* what it has begun; nothing is assumed of the user, the system, the camera
\* or the home monitor.
MainFairness ==
    /\ \A t \in Threads : WF_mainVars(Behind(Render(t)))
    /\ WF_mainVars(Calls \/ ViewReturns)

MainFairSpec == MainSpec /\ MainFairness

-----------------------------------------------------------------------------
(* Properties.                                                             *)

\* Audio sounds only after play(): a pause() that comes while the player
\* prepares is remembered, and neither the preparation nor a late callback
\* starts a player that has been paused (MainActivity.java 162-236, 525-534).
AudioObeysPause == Idle /\ audio = "playing" => wanted

\* A paused monitor shows no video, unless a stream arrived after the pause.
VideoObeysPause ==
    Idle /\ ~wanted /\ Rendering => "lateRead" \in mishaps

\* Away from the foreground there is neither sound nor video, unless a message
\* restarted the player there, or a stream arrived there.
BackgroundIsQuiet ==
    Idle /\ life # "resumed" =>
        /\ audio = "playing" => "lateMessage" \in mishaps
        /\ Rendering => "lateRead" \in mishaps

\* While the button says Play the activity does not hold the audio focus.  So
\* AUDIOFOCUS_GAIN never finds it paused, and never makes it play again.
PausedHoldsNoFocus == Idle /\ focus # "none" => ~paused

\* What it takes to kill the process, a bad frame apart:
\*   - a null audioPlayer is used only after a message was handled out of the
\*     foreground, which takes the focus for a player that onStop releases;
\*   - a render thread loses its stream, or is started twice, only after a
\*     play() that did not wait for the last one;
\*   - the surface goes during rendering only after a late stream;
\*   - the frame buffer is freed under the render thread only by a message for
\*     a streaming view, or after a late stream.
FaultNeedsMishap ==
    /\ fault = "nullPlayer" => "lateMessage" \in mishaps
    /\ fault \in {"nullStream", "illegalStart"} => "overlap" \in mishaps
    /\ fault = "nullCanvas" => "lateRead" \in mishaps
    /\ fault \in {"useAfterFree", "nullBuffer"}
          => mishaps \cap {"liveMessage", "lateRead"} # {}

\* After the audio focus is lost, and after every other pause(), playback has
\* paused: no video is rendered (MainActivity.java 548).
PlaybackPauses == Idle /\ ~wanted => ~Rendering

\* The UI thread always comes back for the next callback: no call of the view
\* holds it for ever (or the process has been killed meanwhile).
UIReturns == ~Idle ~> Idle \/ fault # "none"

\* The activity calls the view as the view's specification allows.
ViewSpec == Spec

=============================================================================
