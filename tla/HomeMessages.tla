---------------------------- MODULE HomeMessages ----------------------------
(***************************************************************************)
(* How a message from the home monitor reaches the user:                   *)
(* MyFirebaseMessagingService (onMessageReceived and what it calls) and    *)
(* the half of MainActivity that decides what is shown and played          *)
(* (processMessageFromHome, getHomeMonitorUrl, getAudioUri,                *)
(* getHomeMessage).                                                        *)
(*                                                                         *)
(* A message takes three ways at once: into the preferences, by a          *)
(* broadcast to a running activity, and into the tray as a notification    *)
(* whose pending intent the system keeps.  The user taps or dismisses the  *)
(* notification, starts and leaves the activity; the process may die and   *)
(* the activity be made again from the intent it was started with.         *)
(*                                                                         *)
(* A value that is missing or blank in a message is Nothing.               *)
(***************************************************************************)
EXTENDS Naturals, Sequences

CONSTANTS
    Values,      \* the texts and URLs that messages carry
    Nothing,     \* no value
    Messages,    \* the messages that the server sends
    MaxMessages  \* bound: messages received

Urls   == {"video", "audio"}
Keys   == Urls \cup {"message"}
Extras == [Keys -> Values \cup {Nothing}]

MessagesAssumption ==
    /\ Nothing \notin Values
    /\ Messages \subseteq Extras
    /\ MaxMessages \in Nat

NoExtras == [k \in Keys |-> Nothing]

\* An intent of the activity; from the launcher it has no extras.
Actions      == {"MAIN", "HOME_NOTIFICATION"}
Intent       == [action : Actions, extras : Extras]
LaunchIntent == [action |-> "MAIN", extras |-> NoExtras]

VARIABLES
    received,   \* how many messages have come
    properties, \* preferences under the PROPERTY_ keys
    remembered, \* preferences under the EXTRA_ keys
    broadcasts, \* the extras of the broadcasts on their way
    tray,       \* the extras shown by the notification, or {}
    pending,    \* the extras of the pending intent the system keeps, or {}
    activity,   \* "none", "resumed" or "background"
    intent,     \* getIntent() of the activity
    started,    \* the system's copy of the intent the activity began with
    playing,    \* the URLs that were last played, Nothing for the default
    shown       \* the text in the activity

prefVars     == <<properties, remembered>>
systemVars   == <<tray, pending, started>>
activityVars == <<activity, intent, playing, shown>>
vars == <<received, broadcasts, prefVars, systemVars, activityVars>>

Init ==
    /\ received = 0
    /\ properties = [k \in Urls |-> Nothing]
    /\ remembered = NoExtras
    /\ broadcasts = <<>>
    /\ tray = {}
    /\ pending = {}
    /\ activity = "none"
    /\ intent = LaunchIntent
    /\ started = LaunchIntent
    /\ playing = [k \in Urls |-> Nothing]
    /\ shown = Nothing

TypeOK ==
    /\ received \in 0..MaxMessages
    /\ properties \in [Urls -> Values \cup {Nothing}]
    /\ remembered \in Extras
    /\ broadcasts \in Seq(Extras)
    /\ tray = {} \/ \E e \in Extras : tray = {e}
    /\ pending = {} \/ \E e \in Extras : pending = {e}
    /\ activity \in {"none", "resumed", "background"}
    /\ intent \in Intent
    /\ started \in Intent
    /\ playing \in [Urls -> Values \cup {Nothing}]
    /\ shown \in Values \cup {Nothing}

-----------------------------------------------------------------------------
(* MyFirebaseMessagingService.                                             *)

\* A slip: the values of an intent are not replaced.
PutIfNew(extras, more) ==
    [k \in Keys |-> IF extras[k] = Nothing THEN more[k] ELSE extras[k]]

\* The extras of an intent to which those of another are put.
Put(extras, more) ==
    [k \in Keys |-> IF more[k] = Nothing THEN extras[k] ELSE more[k]]

\* PendingIntent.getActivity finds the intent that is still there: only the
\* extras differ, and FLAG_UPDATE_CURRENT is not given.
PendingIntentFor(data) == IF pending = {} THEN {data} ELSE pending

onMessageReceived(data) ==
    /\ received < MaxMessages
    /\ received' = received + 1
    /\ remembered' = Put(remembered, data)
    /\ broadcasts' = Append(broadcasts, data)
    /\ pending' = PendingIntentFor(data)
    /\ tray' = {data}
    /\ UNCHANGED <<properties, started, activityVars>>

-----------------------------------------------------------------------------
(* MainActivity.                                                           *)

\* getHomeMonitorUrl and getAudioUri: the intent's if a notification started
\* the activity, and then it is kept; else the preference.
Url(in, k) == IF in.action = "HOME_NOTIFICATION" /\ in.extras[k] # Nothing
              THEN in.extras[k]
              ELSE properties[k]

\* playVideo and playAudio with the intent in.
Play(in) ==
    LET urls == [k \in Urls |-> Url(in, k)]
    IN  playing' = urls /\ properties' = urls

\* onCreate, onStart and onResume of an activity with the intent in.
Create(in) ==
    /\ activity' = "resumed"
    /\ intent' = in
    /\ shown' = in.extras["message"]
    /\ Play(in)

\* onResume of the activity that is there.
onResume ==
    /\ activity = "background"
    /\ activity' = "resumed"
    /\ shown' = intent.extras["message"]
    /\ Play(intent)
    /\ UNCHANGED <<received, broadcasts, remembered, systemVars, intent>>

\* onPause and onStop.
Leave ==
    /\ activity = "resumed"
    /\ activity' = "background"
    /\ UNCHANGED <<received, broadcasts, prefVars, systemVars, intent,
                   playing, shown>>

\* The receiver's onReceive, registered until onDestroy.
processMessageFromHome ==
    /\ broadcasts # <<>>
    /\ broadcasts' = Tail(broadcasts)
    /\ IF activity = "none"
       THEN UNCHANGED <<properties, intent, playing, shown>>
       ELSE LET message == Head(broadcasts)
                in == [intent EXCEPT !.extras = Put(@, message)]
            IN  /\ intent' = in
                /\ shown' = IF message["message"] = Nothing
                            THEN shown ELSE message["message"]
                /\ IF \E k \in Urls : in.extras[k] # intent.extras[k]
                   THEN Play(in)
                   ELSE UNCHANGED <<properties, playing>>
    /\ UNCHANGED <<received, remembered, systemVars, activity>>

-----------------------------------------------------------------------------
(* The user and the system.                                                *)

\* From the launcher, when no activity is there.
Launch ==
    /\ activity = "none"
    /\ started' = LaunchIntent
    /\ Create(LaunchIntent)
    /\ UNCHANGED <<received, broadcasts, remembered, tray, pending>>

\* The pending intent is sent, once, and the notification goes.
\* FLAG_ACTIVITY_CLEAR_TOP: an activity that is there is finished and made
\* again.
Tap ==
    /\ tray # {}
    /\ \E extras \in pending :
         LET in == [action |-> "HOME_NOTIFICATION", extras |-> extras]
         IN  started' = in /\ Create(in)
    /\ tray' = {}
    /\ pending' = {}
    /\ UNCHANGED <<received, broadcasts, remembered>>

\* The pending intent outlives the notification until it is collected.
Dismiss ==
    /\ tray # {}
    /\ tray' = {}
    /\ UNCHANGED <<received, broadcasts, prefVars, pending, started,
                   activityVars>>

Collect ==
    /\ tray = {} /\ pending # {}
    /\ pending' = {}
    /\ UNCHANGED <<received, broadcasts, prefVars, tray, started,
                   activityVars>>

\* Back: onDestroy.
Finish ==
    /\ activity # "none"
    /\ activity' = "none"
    /\ started' = LaunchIntent
    /\ UNCHANGED <<received, broadcasts, prefVars, tray, pending, intent,
                   playing, shown>>

\* The process ends in the background; the activity comes back with the
\* intent that the system has kept.
RestoreAfterDeath ==
    /\ activity = "background"
    /\ broadcasts' = <<>>
    /\ Create(started)
    /\ UNCHANGED <<received, remembered, systemVars>>

Next ==
    \/ \E data \in Messages : onMessageReceived(data)
    \/ processMessageFromHome
    \/ onResume \/ Leave
    \/ Launch \/ Tap \/ Dismiss \/ Collect \/ Finish \/ RestoreAfterDeath

Spec == Init /\ [][Next]_vars

-----------------------------------------------------------------------------
(* Properties.                                                             *)

\* What plays is what the preferences remember, so that an activity which is
\* started again without a message plays it again: "add the last home monitor
\* URL to the preferences" (MainActivity, getHomeMonitorUrl and getAudioUri).
LastUrlRemembered == activity # "none" => playing = properties

\* In an activity that a notification has started, a message with a URL is
\* followed by that URL, whatever was started, resumed or restored before it.
MessageIsFollowed ==
    [][processMessageFromHome /\ activity # "none"
         /\ intent.action = "HOME_NOTIFICATION" =>
         \A k \in Urls : Head(broadcasts)[k] # Nothing =>
                           playing'[k] = Head(broadcasts)[k]]_vars

\* Not so: what a message has put into the preferences is what an activity
\* started from the launcher plays ("Update the preferences with any data
\* received from the server"; updatePrefs, getHomeMonitorUrl).
PreferencesAreUsed ==
    [][Launch => \A k \in Urls : remembered[k] # Nothing =>
                                   playing'[k] = remembered[k]]_vars
=============================================================================
