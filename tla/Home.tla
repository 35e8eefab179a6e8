--------------------------------- MODULE Home ---------------------------------
(***************************************************************************)
(* The parts of the application around the view and the activity: how a    *)
(* message from home is followed (HomeMessages), the one background thread *)
(* (HomeExecutor), the frames of a connection (FrameReader), the server's  *)
(* response (ReadResponse), a frame on its way to the bitmap (ImageProc)   *)
(* and the default Huffman tables (OdmlTables).                            *)
(*                                                                         *)
(* The six share no state.  A behaviour is that of one of them: part says  *)
(* of which, and the variables of the others keep a value without meaning. *)
(***************************************************************************)
EXTENDS Integers, Sequences

CONSTANTS
    Chosen,                      \* the parts that are looked at
    Values, Nothing, Sent, MaxMessages,        \* HomeMessages
    MaxTasks,                                  \* HomeExecutor
    Cameras, MaxParts, FRAME_MAX_LENGTH,       \* FrameReader
    MaxLength,                                 \* ReadResponse
    MaxWidth, MaxHeight, BitmapWidth, BitmapHeight, MaxFrames \* ImageProc

VARIABLES
    part,
    received, properties, remembered, broadcasts, tray, pending, activity,
    intent, started, playing, shown,               \* HomeMessages
    tasks, posted, source, silent, job,            \* HomeExecutor
    parts, stream, at, mContentLength, frames, outcome, \* FrameReader
    text, closes, read, sb, braceCount, reading,   \* ReadResponse
    pc, count, frame, rgb, IMG_WIDTH, IMG_HEIGHT, jpegbuffer,
    output_scanline, y, bitmap, fault, freed,      \* ImageProc
    own, pos, length, dc_tables, ac_tables, result, chosen, ctbl, dtbl,
    probe                                          \* OdmlTables

messageVars  == <<received, properties, remembered, broadcasts, tray, pending,
                  activity, intent, started, playing, shown>>
executorVars == <<tasks, posted, source, silent, job>>
frameVars    == <<parts, stream, at, mContentLength, frames, outcome>>
responseVars == <<text, closes, read, sb, braceCount, reading>>
imageVars    == <<pc, count, frame, rgb, IMG_WIDTH, IMG_HEIGHT, jpegbuffer,
                  output_scanline, y, bitmap, fault, freed>>
tableVars    == <<own, pos, length, dc_tables, ac_tables, result, chosen,
                  ctbl, dtbl, probe>>
vars == <<part, messageVars, executorVars, frameVars, responseVars, imageVars,
          tableVars>>

-----------------------------------------------------------------------------
(* The parts.                                                              *)

Messages == INSTANCE HomeMessages WITH Messages <- Sent
Executor == INSTANCE HomeExecutor
Frames   == INSTANCE FrameReader WITH Servers <- Cameras, pos <- at
Response == INSTANCE ReadResponse WITH pc <- reading
Image    == INSTANCE ImageProc
Tables   == INSTANCE OdmlTables WITH MaxLen <- 16, Lookahead <- 8

ASSUME HomeAssumptions ==
    /\ Messages!MessagesAssumption /\ Executor!TasksAssumption
    /\ Frames!FrameAssumption /\ Response!LengthAssumption
    /\ Image!SizesAssumption /\ Tables!LengthsAssumption

-----------------------------------------------------------------------------
(* The values of variables whose part is not looked at.                    *)

NoMessages ==
    /\ received = 0 /\ properties = <<>> /\ remembered = <<>>
    /\ broadcasts = <<>> /\ tray = {} /\ pending = {} /\ activity = "none"
    /\ intent = <<>> /\ started = <<>> /\ playing = <<>> /\ shown = <<>>

NoExecutor ==
    tasks = <<>> /\ posted = <<>> /\ source = 0 /\ silent = {} /\ job = 0

NoFrames ==
    /\ parts = <<>> /\ stream = <<>> /\ at = 0 /\ mContentLength = -1
    /\ frames = <<>> /\ outcome = "none"

NoResponse ==
    /\ text = <<>> /\ closes = FALSE /\ read = 0 /\ sb = <<>>
    /\ braceCount = 0 /\ reading = "none"

NoImage ==
    /\ pc = "none" /\ count = 0 /\ frame = <<>> /\ rgb = <<>>
    /\ IMG_WIDTH = -1 /\ IMG_HEIGHT = -1 /\ jpegbuffer = <<>>
    /\ output_scanline = 0 /\ y = 0 /\ bitmap = <<>> /\ fault = "none"
    /\ freed = FALSE

NoTables ==
    /\ own = FALSE /\ pos = 0 /\ length = 0 /\ dc_tables = <<>>
    /\ ac_tables = <<>> /\ result = 0 /\ chosen = <<>> /\ ctbl = <<>>
    /\ dtbl = <<>> /\ probe = -1

Init ==
    /\ part \in Chosen
    /\ IF part = "messages" THEN Messages!Init ELSE NoMessages
    /\ IF part = "executor" THEN Executor!Init ELSE NoExecutor
    /\ IF part = "frames"   THEN Frames!Init   ELSE NoFrames
    /\ IF part = "response" THEN Response!Init ELSE NoResponse
    /\ IF part = "image"    THEN Image!Init    ELSE NoImage
    /\ IF part = "tables"   THEN Tables!Init   ELSE NoTables

Next ==
    \/ /\ part = "messages" /\ Messages!Next
       /\ UNCHANGED <<part, executorVars, frameVars, responseVars,
                      imageVars, tableVars>>
    \/ /\ part = "executor" /\ Executor!Next
       /\ UNCHANGED <<part, messageVars, frameVars, responseVars,
                      imageVars, tableVars>>
    \/ /\ part = "frames" /\ Frames!Next
       /\ UNCHANGED <<part, messageVars, executorVars, responseVars,
                      imageVars, tableVars>>
    \/ /\ part = "response" /\ Response!Next
       /\ UNCHANGED <<part, messageVars, executorVars, frameVars,
                      imageVars, tableVars>>
    \/ /\ part = "image" /\ Image!Next
       /\ UNCHANGED <<part, messageVars, executorVars, frameVars,
                      responseVars, tableVars>>
    \/ /\ part = "tables" /\ Tables!Next
       /\ UNCHANGED <<part, messageVars, executorVars, frameVars,
                      responseVars, imageVars>>

Spec == Init /\ [][Next]_vars /\ Executor!Fairness

-----------------------------------------------------------------------------
(* Properties: those of the components, which say what each is about.      *)

\* What plays is what is remembered for the next start, and an activity that
\* a notification started follows every later URL, through restarts, deaths
\* of the process and messages that overtake each other (onMessageReceived,
\* processMessageFromHome, getHomeMonitorUrl, getAudioUri).
MessagesAreFollowed ==
    /\ [](part = "messages" =>
            Messages!TypeOK /\ Messages!LastUrlRemembered)
    /\ Messages!MessageIsFollowed

\* Reads and registrations on one serial executor: an older read never
\* replaces the stream of a newer one, only a camera that does not answer
\* holds up a registration, and every read comes through while the servers
\* answer (DoRead, RegisterTask).
TasksTakeTurns ==
    /\ [](part = "executor" => Executor!TypeOK)
    /\ Executor!NewestStreamStays
    /\ Executor!OnlyCameraHoldsJob
    /\ Executor!ReadsComeThrough

\* The frames of a connection come in order: by the lengths in the headers
\* all of them and each exactly; without lengths all of them, or all but the
\* last, whose end was counted with the header in front of it
\* (readMjpegFrame).  readResponse ends where the braces are even, which is
\* the end of an object whose strings have none.
InputsAreRead ==
    /\ part = "frames" =>
         /\ Frames!TypeOK
         /\ Frames!FramesInOrder
         /\ Frames!FramesAreFound
         /\ Frames!LosesOnlyTheLast
    /\ part = "response" =>
         /\ Response!TypeOK
         /\ Response!ReturnsObject
         /\ Response!EndsWithEvenBraces

\* Whatever frames came before, a whole frame of the bitmap's size is shown
\* as it is; no pixel is ever out of place, and only a frame that is cut
\* short or too high, or a free before a damaged one, ends the process
\* (processimage, pixeltobmp).
FramesAreShown ==
    /\ [](part = "image" => /\ Image!TypeOK /\ Image!PixelsInPlace
                            /\ Image!FaultHasCause)
    /\ Image!BitmapShowsFrame

\* The default tables hold what a baseline frame may use, and the decoder
\* reads every symbol's code back (my_jpeg_load_dht).
TablesAreLoaded ==
    part = "tables" =>
        /\ Tables!TypeOK
        /\ Tables!LoadsWhatFramesUse
        /\ Tables!LoadedTablesDecode

\* Not so: what a message has put into the preferences is what is played.
PreferencesAreUsed == Messages!PreferencesAreUsed
=============================================================================
