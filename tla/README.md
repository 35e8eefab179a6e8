# A verification of SAHomeMonitor

SAHomeMonitor is an Android application that shows the live video of a camera
at home (motion JPEG over HTTP), plays the sound that comes with it, and
registers itself with the home monitor's server so that the server can send it
messages ("somebody is at the door") through Firebase.  This directory holds
TLA+ models of the application, the TLC configurations that check them, and
theorems about them that TLAPS proves.

The application has no tests and no documents of its own.  What it is to do is
said by its comments, by its strings and by the interfaces it implements; the
properties below come from there and from what the code itself relies on.  Nine
tenths of the repository's code is the JPEG library it decodes frames with,
libjpeg 8d, which comes as source and with a manual (`libjpeg.txt`); it is
modelled where it has state, control or arithmetic that is hard to get right.

Paths: the application is under `src/sAHomeMonitoreclipse/src/main/`.  Short
names used below, with line numbers after them:

| name | file |
|---|---|
| V | `java/com/camera/simplemjpeg/MjpegView.java` |
| I | `java/com/camera/simplemjpeg/MjpegInputStream.java` |
| D | `java/com/camera/simplemjpeg/DoRead.java` |
| C | `jni/ImageProc/ImageProc.c` |
| M | `java/com/sourceauditor/sahomemonitor/MainActivity.java` |
| R | `java/com/sourceauditor/sahomemonitor/RegisterNewClientJob.java` |
| F | `java/com/sourceauditor/sahomemonitor/MyFirebaseMessagingService.java` |

## 1. Inventory

Four kinds of thread meet in the process:

* the **UI thread** runs every callback of the activity, the view, the audio
  player, the broadcast receiver, the job service and the results of the
  background tasks, one after the other;
* a **render thread** (`MjpegViewThread`) loops over the frames of a stream and
  draws them;
* the **serial executor** of `AsyncTask` runs `DoRead` and `RegisterTask`, one
  task at a time for the whole process;
* Firebase's own thread calls the messaging service.

| component | state it keeps | operations | talks to | correct when |
|---|---|---|---|---|
| `MjpegView`, `MjpegViewThread` (V) | `mIn`, `mRun`, `suspending`, `surfaceDone`, `thread` | `setSource`, `startPlayback`, `resumePlayback`, `stopPlayback`, `freeCameraMemory`, surface callbacks, `run` | the UI thread and the render thread share all of its fields without a lock; `Thread.join` and the surface lock are the only order between them | one thread renders; a stream is closed only when nothing reads it; after a pause nothing renders; what is held is rendered; `stopPlayback` returns |
| `DoRead` (D) | the view it reads for | `doInBackground`, `onPostExecute` | made by `MainActivity`, runs on the executor, calls `setSource` on the UI thread | a stream, or null, arrives once |
| `ImageProc` (C) | the globals `rgb`, `IMG_WIDTH`, `IMG_HEIGHT` | `pixeltobmp`, `processimage`, `freeCameraMemory` | called by the render thread and, to free, by the UI thread | memory is written and read only while allocated; rows stay inside it |
| `MjpegInputStream` (I) | `headerLen`, `mContentLength`, the singleton's skip counter, the buffered bytes | `readMjpegFrame`, `getEndOfSequence`, `parseContentLength` | called by the render thread | a frame is found whole, or an error is reported |
| `MainActivity` (M) | `mv`, `audioPlayer`, `pauseBeforePlaying`, the button's label, preferences | life cycle, button, audio player and focus callbacks, `mReceiver`, `registerWithHomeMonitor` | client of the view and of `DoRead`; gets broadcasts from the messaging service; schedules the registration job | sound and video obey play and pause; nothing plays in the background; the registration asked for is made |
| `RegisterNewClientJob` (R) | `mRegisterTask`; the system keeps job 0 and its extras | `sendRegistrationToServer`, `onStartJob`, `onStopJob`, `RegisterTask` | scheduled by the activity and the messaging service; run by the job scheduler; its task is on the executor | the newest token reaches the server, or the user knows that it did not |
| `MyFirebaseMessagingService` (F) | preferences | `onMessageReceived`, `onNewToken` | broadcasts to the activity or posts a notification; schedules job 0 | a message is shown, a URL in it is remembered |
| manifest, resources, Gradle files | - | - | used by the above | without behaviour |

Of libjpeg (files under `jni/jpeg8d/`):

| part | state it keeps | operations | correct when |
|---|---|---|---|
| decompression control (`jdapimin.c`, `jdapistd.c`, `jdinput.c`, `jdcoefct.c`, `jdmaster.c`) | `global_state`, the scan and iMCU counters of input and output, the coefficient arrays | `jpeg_read_header` to `jpeg_finish_decompress`, each of which may be suspended and called again | no data are lost, no line is shown from data not yet read, every call returns, the object is ready for the next image |
| marker reader (`jdmarker.c`, `jdatasrc.c`) | `unread_marker`, the marker being saved, the tables | `read_markers`, one routine per marker | the tables are those of the file, however it arrives |
| output rows (`jdmainct.c`, `jdsample.c`, `jdmerge.c`, `jdpostct.c`) | buffers, two pointer lists, counters | `process_data`, `upsample`, `post_process_data` | every row is made of the right samples, once, none below the bottom |
| Huffman coding (`jchuff.c`, `jdhuff.c`, the restarts of `jdmarker.c`) | bit buffers, predictions, runs, statistics | tables, `encode_mcu`, `decode_mcu`, `jpeg_resync_to_restart` | what was coded is decoded, after losses too |
| arithmetic coding (`jcarith.c`, `jdarith.c`, `jaricom.c`) | the interval registers, the statistics bins | `arith_encode`, `arith_decode`, the models of four kinds of scan | the decoder asks for the bin the encoder used |
| DCT (`jidctint.c`, `jfdctint.c`, `jddctmgr.c`, `jcdctmgr.c`) | multiplier and divisor tables | 64 routines, `start_pass` | forward undoes inverse; tables fit their routine |
| memory manager (`jmemmgr.c`) | virtual arrays and their windows | `request_`, `realize_`, `access_virt_` | an array reads back what was written |
| fast and floating-point DCT, compression control, colour, quantizers, `transupp.c`, programs, file formats | - | - | not modelled, section 6 |

The application decodes baseline frames from memory on one thread, so most of
libjpeg's control is sequential; what is hard in it is that any call may be
suspended between two bytes and made again, and that the same value passes
through many hands (a restart counter, a pointer list, a pending run) which must
agree over a whole file.

What makes this code hard is: unlocked fields shared by the UI thread and the
render thread; a result (`DoRead`, `getToken`, `onPrepared`, a task's result)
that arrives after the situation it was asked in; callbacks that come in orders
the code does not expect (a message in the background, a focus change without a
player); native memory freed under a reader; a job that is replaced, stopped
and retried while its task cannot be interrupted; the death of the process.
`PROJECT.json` lists these hazards one by one, each with its line and the
properties that would notice it going wrong.

## 2. Plan

| module | what | state |
|---|---|---|
| `MjpegView`, abstract `PlaybackContract` | the view, its threads, `DoRead`, the life of the native buffer; any client | checked, proved |
| `MainActivity` EXTENDS `MjpegView` | the activity as the view's client; refinement to `MjpegView!Spec` | checked, proved |
| `RegisterNewClientJob` | job 0, its task, the death of the process | checked, proved |
| `HomeMessages` | F and the half of M that chooses URLs | checked, proved |
| `HomeExecutor` | `DoRead` and `RegisterTask` on one thread | checked, proved |
| `FrameReader`, `ReadResponse` | where a frame or a response ends among the bytes | checked, proved |
| `ImageProc` | rows of frames of any size into the buffer | checked, proved |
| `OdmlTables` | the default Huffman tables | checked |
| `Home` | the five around the view, and the tables, side by side | checked, proved part by part |
| `JpegDecompress` | the calls of a decompression, over tokens | checked, proved |
| `MarkerReader` | the markers before the calls | checked, proved |
| `OutputRows` | the rows after them | checked, proved |
| `Decompress` | these three side by side | checked, proved |
| `HuffmanTables`, `HuffmanOptimizer` | Huffman tables | checked |
| `BitStream`, `HuffmanScan`, `ProgressiveScan` | the scans they code | checked; what the encoders write proved |
| `Huffman` | tables and both kinds of scan side by side | checked; what the encoders write proved |
| `ArithCoder` | the coder of decisions | checked |
| `ArithModel` | the decisions of a picture | checked; the bins of the decoder proved |
| `InverseDctManager`, `ForwardDctManager`, `DctTables` | the two managers and the tables they choose from | checked, proved |
| `IdctKernels`, `FdctKernels`, `ScaledDct` | the DCT routines | checked |
| `Coefficients` | DCT, managers and arithmetic coding side by side | checked; the managers and the bins proved |
| `VirtualArray`, abstract `WholeArray` | virtual arrays and their backing store | checked, proved |

Next would be: the compression side's control (`jcmaster.c`, `jccoefct.c`,
`jcmarker.c`), the colour quantizers and the lossless transforms of `transupp.c`.

## 3. The models

### MjpegView

The variables are the fields of V by their names, plus what the threads and
the system know: `surface` (whether `lockCanvas` would succeed), `ui` and `pc`
(where the UI thread and each render thread are), `reading` (the stream whose
`readMjpegFrame` a thread is inside), `buf` (the pointer a thread has taken
from `rgb`), `rgb` and `sized` (the native globals), `status` (of each stream),
`queued` and `posted` (the tasks on the executor, and their results on the way
to the UI thread), `fault` (what has killed the process) and the history
`events`.

* `stopPlayback` is cut in two where the UI thread blocks: `stopPlayback` up to
  the join, `JoinReturns` from the join on.  It has two callers, `PauseVideo`
  (M 177) and `SurfaceDestroyed` (V 269).
* `OnPostExecute` is all of `setSource` with `startPlayback` or
  `resumePlayback`, and `SurfaceDestroyed` clears `surfaceDone` and `mRun`, each
  in one step.  The render thread cannot tell: when it lives, `setSource`
  changes nothing but `mIn` (`mRun` is true already); and between the two
  writes of `surfaceDestroyed` its loop can only spin.  The other way round
  atomicity would hide something, so the render thread's steps are cut at each
  read of a shared field: a step of the UI thread can come between the read of
  `surfaceDone` and the read of `mIn`, or between `surfaceDone` and
  `lockCanvas`.
* `run()` becomes the actions `Loop` (V 124-129, tests of `mRun` and
  `surfaceDone`), `Frame` (V 134, the read of `mIn`), `Read` (all that
  `readMjpegFrame` may do), `Decode` and `Write` (`processimage`), `Copy` and
  `Copying` (`pixeltobmp`), `Lock` and `Draw` (V 141-177).  The fields are not
  volatile; since the loop's body makes calls, the model reads them afresh each
  time, as the code that is built does.
* `freeCameraMemory` is cut between `free(rgb)` and `rgb = NULL` (C 315-316):
  `FreeCameraMemory`, `ClearCameraMemory`.
* A fault ends everything: an uncaught exception on any thread, or a signal,
  ends an Android process.  A step that dies leaves the rest unchanged.
* `Collect` is the garbage collector.  A stream or a thread nobody refers to can
  be used again for a new object; so a small set of objects stands for all that
  are ever made.

The client is left free: any order of `PlayVideo`, `PauseVideo`,
`FreeCameraMemory` and surface callbacks.  What is proved of the view is hence
true for every client; `MainActivity` says what this application's client adds.

`PlaybackContract` is what a client may rely on, said without fields: one
renderer, open streams, closing only when nothing renders.  `MjpegView`
implements it with the live threads as `renderers`, `reading` as `inUse` and
`status` as `lease`.

### MainActivity

EXTENDS `MjpegView` and replaces its free client.  A callback puts the calls it
makes into `calls` (`play`, `pause` and `stop` are pairs, as in M 158-204 and
469), and the UI thread works them off with the actions in the section "The
calls"; while any is left no other callback is taken.  That is how a join in
`pauseVideo` delays `pauseAudio` but nothing else.  `audio` is the state of
`audioPlayer` (`none` is null; `idle` has no source; `preparing`; `silent` is
prepared, paused or complete; `playing`), `focus` is what the audio manager
thinks of the listener, `label` is the button's text, from which `paused()` is
read (M 158).  `wanted` and `mishaps` are history: whether the last of `play()`
and `pause()` was `play()`, and what has happened out of step.  Mishaps are not
assumed away; they happen in the runs, and the properties say what each can
lead to.

### RegisterNewClientJob

A job is known by the number of the call that scheduled it; all have the id 0,
so the system has at most one that waits (`pending`) and one that was started
(`active`).  `sendRegistrationToServer` replaces the waiting one and makes the
system stop the active one (`stopping`).  `StartJob` and `StopJob` are the
scheduler's decisions, `StopUnstarted` a stop that comes before the start;
`onStartJob`, `onStopJob` the callbacks on the main thread;
`tasks` the `RegisterTask`s with the place each has reached.
`cancel(true)` does not stop a task that connects or reads, since these cannot
be interrupted; it only turns its result away from `onPostExecute`.
`ProcessDies` ends everything in the process and lets the scheduler retry the
active job; `DeviceRestarts` loses the jobs too (they are not persisted, R 210).

`onNewToken` is one step with the issue of the token.  A `getToken()` answer is
taken when it is asked for and delivered later.  `onStopJob` for a job whose
`jobFinished` has been called has nothing to cancel and is left out.  Left out
too: a missing scheduler, an empty token, and the request number and one-time
password, which no property is about.

### HomeMessages, HomeExecutor

A message takes three ways at once: into the preferences (`remembered` under the
EXTRA_ keys), as a broadcast to an activity that runs (`broadcasts`), and into a
notification whose pending intent the system keeps (`tray`, `pending`: a second
notification changes what is shown and not what a tap sends, F 153).  The user
taps or dismisses it and starts and leaves the activity; the process may die and
the activity be made again from the intent it was started with.  `playing` is
what was last given to `playVideo` and `playAudio`.

`HomeExecutor` is the one background thread that `MjpegView` and
`RegisterNewClientJob` each see alone.  `silent` are the servers that do not
answer: `DoRead` has no timeout for connecting (D 28-33), `RegisterTask` has.

### FrameReader, ReadResponse, ImageProc, OdmlTables

`FrameReader` reads the bytes of a connection as `readMjpegFrame` does, with the
mark, the reset and the field `mContentLength`; the header line that gives a
length is one byte.  Its positions are compared with those of the parts that the
server sent.  Where no header gives a length the search for the end marker
starts at half the length found the time before, which may have counted the
header too (I 98): it misses the end of a frame that is not longer than half of
the part before it, or meets it in the middle.  `WithoutLength` excludes such
frames, and parts of which a search does not reach the end.  Four ends of the
reading are told apart: the stream ends where a header is due (`ended`), the
stream ends inside a frame (`ioException`), `reset()` does not reach the mark
(`markLost`), and an array or a read of length -1 (`badLength`).
`ReadResponse` reads all texts over braces, quotes, backslash and a letter up to
a length, on connections that close, stay open or break off at any character.
`ImageProc` follows the rows of frames of different sizes,
damaged in the header or later or cut short, into `rgb` and the bitmap; a row of
the library is the value the frame has there, and rows outside the buffer are a
fault. `OdmlTables` is the walk of `my_jpeg_load_dht` over the default tables,
byte by byte, and the derived tables a scan gets from them.

### MarkerReader, JpegDecompress, OutputRows

All three have an input or a caller that may stop anywhere.

* `MarkerReader` has one action per group of fields a marker routine stores.
  `pos` is the restart point, `at` the routine's local pointer; a routine that
  misses a byte returns FALSE, forgets its locals, and starts over from `pos`
  with what it had stored still stored.  `Documents` in `MCMarkerReader` are
  written in two ways that know nothing of routines: as bytes, and as what they
  mean.
* `JpegDecompress` has one action per decision of the calls' loops, over files of
  tokens (a frame header, tables, a scan header, an MCU, the end).  `in` and
  `out` are the input and output halves of the object; the coefficient arrays
  are the number of scans each block holds.
* `OutputRows` has the buffers, pointer lists and counters; a sample is the
  number of the row it comes from, so that a row of the image is the rows it was
  made of, and is compared with those that lie there.

Any application is modelled: it asks for any number of lines, in plain or
buffered-image mode, for any scan, stops in the middle, and goes on to another
image.  Context rows are followed although no upsampler of the library asks for
them when decompressing: the controller has the code.

### Huffman coding

`HuffmanTables` is the arithmetic of a table (`jpeg_make_c_derived_tbl`,
`jpeg_make_d_derived_tbl`, `HUFF_DECODE`), `HuffmanOptimizer` the steps of
`jpeg_gen_optimal_table`, `BitStream` the bit buffers of both sides and the
restart logic of both.  `HuffmanScan` takes a sequential scan through gathering,
encoding, a channel that may lose what is between two restart markers, and
decoding; both ends may be made to wait inside an MCU.  `ProgressiveScan` takes
a picture through the scans of a script, with runs of blocks, correction bits
and the decoder's undo list.  The constants that only say how large things are
(16 bits of length, 8 of look-ahead, 1000 correction bits, 0x7FFF blocks) are
parameters, so that small pictures reach every limit.

### Arithmetic coding

`ArithCoder` has the registers of both sides with their widths, the stacked 0xFF
bytes, the pending zeros and the probability table of `jaricom.c`.  `ArithModel`
has the statistics: which bin each decision of a block uses, on both sides.  The
bits go through as they are, so that a wrong bin is seen at once; damaged data
are any bits from some point on.

### The DCT

`IdctKernels` and `FdctKernels` are the one-dimensional transforms of all sizes
in the integers of the source, `ScaledDct` the 32 routines of two passes made of
them and the tables that choose them.  `InverseDctManager` and
`ForwardDctManager` have the tables of multipliers and divisors, the cached
method and the latched quantization tables.  The divisors belong to a
quantization table, not to a component: a later component that names the same
table writes them anew, by its own method.

### VirtualArray

The control block of one array, its window over a backing store and the file.
`WholeArray` is what it promises: a plain array of rows.

## 4. The runs

A run checks one part of the system, or several that share no state: `Home`,
`Coefficients`, `Decompress` and `Huffman` instantiate their components side by
side, with a variable `part` that says whose behaviour it is.  Their properties
are the components' own, one conjunct each.  They keep the constants of their
components, so that theorems can be about them; `MCHome`, `MCCoefficients`,
`MCDecompress` and `MCHuffman` give TLC the values.

| run | module, configuration | what it shows |
|---|---|---|
| `view` | `MjpegView`, `MjpegView.cfg` | see below; any client |
| `main_video` | `MCMainActivity`, `MainVideo.cfg` | the activity with two streams and two reads on the way |
| `main_sound` | `MCMainActivity`, `MainSound.cfg` | the activity with sound, one stream; no callback blocks the UI thread for ever |
| `main_pauses` | `MCMainActivity`, `MainPauses.cfg` | violation, finding 1 |
| `register` | `RegisterNewClientJob`, `Register.cfg` | order of tokens, nothing forgotten, every job ends |
| `home` | `MCHome`, `Home.cfg` | messages, the executor, frames, responses, the bitmap, the default tables |
| `messages_preferences` | `MCHome`, `HomePreferences.cfg` | violation, finding 2 |
| `decompress` | `MCDecompress`, `Decompress.cfg` | markers, calls and rows of the decompressor |
| `huffman` | `MCHuffman`, `Huffman.cfg` | tables, sequential and progressive scans |
| `coefficients` | `MCCoefficients`, `Coefficients.cfg` | the DCT, its managers, arithmetic coding |
| `coefficients_shared` | `MCCoefficients`, `CoefficientsShared.cfg` | violation, finding 3 |
| `virtual_array` | `VirtualArray`, `VirtualArray.cfg` | the window implements the plain array |

Properties of the view:

* `AtMostOneRenderer` - `startPlayback` and `resumePlayback` never start a second
  thread beside one that lives.  It hangs on `stopPlayback` forgetting the
  thread only after the join.
* `OnlyOpenStreamsAreRead` - no stream is closed or collected under its reader.
* `NothingRunsBehindPause` - `pauseVideo` does nothing when `isStreaming()` is
  false; this says that there is then nothing to do.
* `HeldStreamIsRendered` - a stream given to the view is rendered, except after
  a thread has ended by itself.
* `FaultHasCause` - which event each death of the process needs: a null source
  for a rendering view, a thread that ended by itself, a surface lost during
  rendering, memory freed during rendering, memory freed at all.
* `RenderingBeginsWithASource` - a step property: rendering begins only when a
  stream is delivered.
* `ContractSpec` - the refinement.

Properties of the activity:

* `VideoObeysPause`, `AudioObeysPause` - what plays after a pause.  Audio never
  does.  Video does when a stream arrives late.
* `BackgroundIsQuiet` - the same for an activity that is not in the foreground.
* `PausedHoldsNoFocus` - `AUDIOFOCUS_GAIN` plays if `paused()` (M 540); that it
  never undoes a pause depends on every pause giving the focus away.
* `FaultNeedsMishap` - which step out of order each death of the process needs.
* `ViewSpec` - the activity is one of the clients the view's model allows.
* `UIReturns` - every callback of the activity comes to its end.

Properties of the registration:

* `TokensSentInOrder` - no token is sent after a newer one, by a task that was
  stopped and runs on, by a retry or after a death.  It depends on the serial
  executor.  The exception is a menu request whose token was overtaken.
* `NoCallForgotten` - the last call waits, runs, or has ended with an answer or
  an error, unless the device was restarted.
* `FinishIsCurrent` - `jobFinished` is never called for a run that is over.
* `EveryJobEnds` - a started job ends; while it does not, none after it can run.

Properties around them (`home`):

* `MessagesAreFollowed` - what plays is what the next start will play
  (`LastUrlRemembered`), and an activity that a notification started follows
  every URL that comes, through restarts, deaths and messages that overtake each
  other.
* `TasksTakeTurns` - an older read never replaces the stream of a newer one; only
  a camera that does not answer can hold up the registration; reads come through.
* `InputsAreRead` - what `readMjpegFrame` makes of a connection and
  `readResponse` of a response, good and bad.
  - Where every header gives the length of its frame, the frames come exactly, in
    order, all of them, and no call fails before the stream ends.
  - Where none does, a frame that comes begins where it should and has all of its
    image, none is skipped, and no call fails for want of a length or of the mark.
    But the last frame of the connection may be lost: if the search near the last
    length misses its end (it is the only frame, or one half as long again as the
    one before), the worst case counts the header too, and `readFully` wants so
    many bytes more than there are.  On a connection that goes on those bytes
    are the next part's header, and its frame still comes.  The frames are
    supposed to be without markers inside and longer than half of the part before
    (`WithoutLength`, `PlainFrames`).
  - A response that is an object whose strings have no braces is returned whole as
    soon as it is read.  Whatever the strings are, the response ends where the
    braces are even for the first time, those of strings counted, or with the
    connection: closed, which is appended as a character, or silent until the
    timeout.  A connection that breaks off is an exception, and nothing is
    returned.
* `FramesAreShown` - whatever came before, a whole frame of the bitmap's size is
  shown as it is; no pixel is ever out of place; and what it takes to write
  outside the buffer.
* `TablesAreLoaded` - the default tables hold all that a baseline frame may use,
  and every code is read back.

Properties of libjpeg:

* `ReadingKeepsItsPlace` - whatever the pieces in which a file comes, the marker
  reader looks at no byte before it is there, the restart point never moves back,
  saved bytes of a marker are kept, and a marker that comes on
  `cinfo->marker_list` is, code, length and data, what stands in the file.
* `ReadingSucceeds` - `read_markers` returns with what the file's bytes mean; no
  marker needs more of the buffer than a table does; a file that breaks off is
  read to an end through the fake EOI markers; and every call of a decompression
  returns, also for a scan number that the file does not reach.
* `ImagesComeWhole` - no MCU is skipped or read twice, output stays behind input
  by what it needs, lines come in order and none from an abandoned pass, and
  `jpeg_finish_decompress` has read the EOI.
* `RowsComeRight` - each row is made of the right sample rows, in all buffering
  modes, for images of every height around one to three iMCU rows, taken in any
  pieces; a call that is not suspended delivers a row.
* `TablesAreSound` - optimal tables are legal, without the all-ones code, of the
  least cost where no length had to be cut, and every code is read back, also
  where the data end within the look-ahead.
* `ScansAreSound` - what the encoders write: the gathering pass counts the symbols
  that the next pass emits, whatever is started over, put off or forced out by a
  restart, so that optimal tables have a code for each of them; no byte of the
  data imitates a marker; and a run of blocks that is put off leaves room for the
  correction bits of the next block (1000 of them in the code, 0x7FFF blocks).
* `ScansSurvive` - what the decoders make of it: a sequential scan comes through
  as it was, and after losses every intact interval does; after each progressive
  scan the decoder has each coefficient to the precision sent so far, however
  often it had to wait in the middle of a block; and no decoder waits for bytes
  that cannot come.
* `DecisionsSurvive` - the arithmetic coder's decisions are decoded, across
  carries, stuffing, dropped zeros and restarts; the decoder asks for the encoder's
  bin, decision by decision, gets the picture back and recovers from damage at the
  next restart.
* `DecoderKeepsToItsBins` - with damaged data too the decoder stays inside its
  statistics areas, the scan's coefficients and the MCU's blocks, or gives up.
* `ScaledSizesAgree` - for every block size the forward routine undoes the inverse
  one, up to rounding; flipped and transposed blocks are drawn flipped and
  transposed; the shortcuts for zero coefficients agree with the full routine.
* `PassShowsItsScan` - a finished output pass has shown every component, once its
  data had arrived, with the multipliers of its own table and method.
* `QuantizesByItsOwnStep` - each coefficient is divided by the step of its own
  component's table, in the scale of its own routine, if the last component that
  computes the divisors of the table has the same DCT method (that others before
  it had another does no harm); and no coefficient at all is divided by zero.
* `CleanMeansSaved`, `IsOneArray` - a window that is clean may be dropped, and the
  whole behaves as `WholeArray`.

### Findings

1. `main_pauses`: a stream that arrives after `pause()` is played.  A pause
   while `DoRead` connects finds nothing to stop, and nothing remembers it (the
   audio half has `pauseBeforePlaying` for the same case).
2. `messages_preferences`: `updatePrefs` writes the URLs of a message under the
   EXTRA_ keys (F 72), and the activity reads the PROPERTY_ keys (M 258, 285).
   What a message brought is not what an activity started from the launcher
   plays.
3. `coefficients_shared`: the divisors of a quantization table are those of the
   last component that names it.  With JDCT_IFAST, blocks of 8 by 8 use divisors
   scaled by the AA&N factors, blocks of any other size (chroma that fancy
   downsampling leaves to the DCT) unscaled ones; if both name one table, as after
   `cjpeg -dct fast -qslots 0`, the first component's coefficients are divided by
   the second's divisors.  The comment (`jcdctmgr.c` 356) says that computing a
   table's divisors more than once is "not a big deal".

Other behaviours of the code that the models have, that no property rules out,
and that a maintainer should know of:

* `mReceiver` is registered in `onResume` and unregistered only in `onDestroy` (M
  460, 485), so messages restart playback in the background, whereas its comment
  (M 87-89) says that it is for an activity in the foreground.  It is the mishap
  `lateMessage`.
* The Toast for a failed registration is made and never shown (R 183).
* An activity that the launcher started does not look at the URL of a message
  that it receives in the foreground: `getHomeMonitorUrl` reads it from the
  intent only when a notification has set its action (M 255-292).
* A tap on a notification that replaced an untouched one starts the activity with
  the first one's extras (F 153: `FLAG_ONE_SHOT` without `FLAG_UPDATE_CURRENT`).
* A frame that is cut short makes the row loop (C 235) turn for ever without a new
  row, since `jpeg_read_scanlines` may return 0 and is not asked.
* Braces inside strings move the end of a response (R 150): a closing one cuts it
  short, an opening one makes the call wait for the connection's end or the
  timeout.
* Without lengths in the headers, the last frame of a connection can be lost (I
  225): see `InputsAreRead`.
* `processimage` loads the default Huffman tables after the header (C 211), over
  tables that the frame itself brought.
* The row passes of the 12- and 14-point forward DCTs add a term that lacks a
  shift by `CONST_BITS` (`jfdctint.c` 1472, 1874; also in 12x6 and 14x7):
  `ScaledSizesAgree` leaves these four sizes out of the round trip.
* An output pass started before the first scan of a component has no multipliers
  for it and shows it flat although its data arrive in time (`jddctmgr.c` 270);
  the constant `Ahead` of `InverseDctManager` admits such passes.
* With a vertical sampling factor above two and two-pass quantization, a strip read
  in two calls delivers rows below the image (`jdpostct.c` 224).
* In the view's models, a failed connection delivered to a rendering view, a
  message for a streaming view, or a second `play()` before the first is over
  can end the process; the properties say which event each fault needs.

### Bounds, and why they are enough

* `Threads`: two objects in `view`, so that a second renderer could exist; one
  in the activity's runs, where the view's theorem `OneRenderer` already says
  that a second one never lives.
* `Streams`: three in `view`: one read by a thread, one held, one posted.  A
  stream that nobody refers to may be collected and used again, so the number
  of streams over a whole behaviour is not bounded.
* `MaxReads`: the `DoRead`s on their way at one time; two is the least at which
  one result can overtake the situation another has made.
* `HasSound`: `main_video` has no sound source, so that what it says of audio
  is vacuous and rests on the theorems; `main_sound` has one stream and one read
  at a time.  The two halves share only the callbacks; each run has all
  callbacks.
* `MaxTokens` 2, `MaxAsks` 1, `MaxCalls` 3, `MaxStarts` 4: a token, a newer one
  and a menu request that can fall between or after; one start for each call and
  one for a retry.
* `home`: three messages (both URLs, a video URL alone, a text alone) are the
  least at which one overtakes another that replaced a third; four tasks hold a
  read on either side of a registration; connections of two kinds of camera have
  up to four parts of frames of four to ten bytes, so that every place of the
  search occurs, with `FRAME_MAX_LENGTH` 20 (four, since what a frame leaves
  behind in `mContentLength` is used for the next, and again for the one after);
  texts have up to five characters; two frames after each other, of up to 2 by 2
  pixels, in all sizes; the default tables at full size.
* `decompress`: documents with every kind of marker and of error, cut after
  every byte, in buffers of 70 and of 42 bytes (the longest standard marker here
  has fewer, the comment more); images of two rows of two MCUs in up to two
  scans followed by another image, so that an image can end, be cut or be
  abandoned in the middle of a row and of a scan; output images of every height
  that ends in any row of a strip, a row group and an iMCU row.
* `huffman`: five symbols with four kinds of count and codes of up to three
  bits, where two lengths have to be cut; blocks of two by two coefficients with
  all run and size symbols, in four MCUs with restart intervals; limits of three
  blocks per run and eleven correction bits, which these pictures exceed.
* `coefficients`: each DCT routine at a DC term with every single AC term (the
  transforms are linear up to rounding, so that a wrong constant shows in one of
  them); the managers at three positions of a block, one of each kind of scale
  factor; the arithmetic coder with patterns of decisions that visit the whole
  probability table and with three that carry through two 0xFF bytes; blocks of
  64 with coefficients of every category; damaged data in blocks of three
  coefficients with two categories, where every sequence of decisions is tried.
* `virtual_array`: five rows in strips of up to two, so that the last window is
  partial; no memory, two rows and all.
* Symmetry under permutations of threads and of streams is used in the safety
  runs of the activity only.

The theorems hold without these bounds, whatever the sets and numbers.

### Fairness, and why the code justifies it

* `Render(t)` of each thread is weakly fair: the kernel schedules threads that
  can run, and the only thing a render thread waits for besides the processor is
  the network, where `DoRead` has set a read timeout of five seconds (D 30), and
  `readMjpegFrame` reads a bounded number of bytes for a frame.
* The UI thread is weakly fair in what it has begun (the end of a join, the rest
  of a callback, posted results).  Nothing is assumed of the user, the system's
  life-cycle decisions, the camera or the home monitor.
* `MainThread` and `Executor` of the registration are weakly fair: the main
  looper takes its messages, and connect and read have timeouts of two seconds
  (R 67, 68).  A server that sends on for ever without closing its braces would
  keep `readResponse` busy all the same; that it does not is an assumption on
  the server.  Nothing else is assumed of the job scheduler, the network or the
  messaging service.
* The executor's thread and the main thread of `HomeExecutor` are weakly fair; a
  task of a silent camera never ends.
* A call of `JpegDecompress` that can go on does; nothing is assumed of the
  application or of when data arrive, and a call that waits for data has
  returned (with JPEG_SUSPENDED).
* For `ReadingSucceeds` the application calls again after a suspension, and feeds
  the buffer whenever there is room (strongly fair, since calls take turns with
  it): that is the contract of a suspending source (`libjpeg.txt`, "I/O
  suspension").

## 5. The proofs

| module | theorem | states |
|---|---|---|
| `MjpegView_proof` | `Invariance`, `TypeCorrect`, `OneRenderer`, `OpenStreams`, `PauseIsComplete`, `NoLostStart`, `Causes` | `Spec => []...` for `IInv` and each state property of the view |
| | `NoSpontaneousStart` | `RenderingBeginsWithASource` |
| | `Refinement` | `Spec => ContractSpec` |
| `MainActivity_proof` | `ActivityImplementsView`, `ActivityKeepsViewInvariant` | `MainSpec => ViewSpec`, and so `MainSpec => []IInv` |
| | `MainTypeCorrect`, `AudioPauses`, `PauseGivesFocusUp` | `MainTypeOK`, `AudioObeysPause`, `PausedHoldsNoFocus` |
| | `VideoPauses`, `BackgroundQuiet`, `FaultsNeedMishaps` | `VideoObeysPause`, `BackgroundIsQuiet`, `FaultNeedsMishap` |
| `VirtualArray_proof` | `Inductive`, `TypeCorrect`, `CleanIsSaved`, `StripStaysInBuffer`, `NeverVirtualBug` | `IInv`, types, `CleanMeansSaved`, every strip inside its buffer, no JERR_VIRTUAL_BUG |
| | `Refinement` | `Spec => IsOneArray` |
| `Home_proof` | `LastUrl`, `FollowsMessages`, `Followed` | `LastUrlRemembered`, the step property, and both as `MessagesAreFollowed` |
| | `FramesCome`, `WholeObject`, `InputsRead` | the frames, the responses, and both as `InputsAreRead` |
| | `PixelsStay`, `ShowsFrame`, `Shown` | the bitmap's pixels, the step property, and both as `FramesAreShown` |
| | `ExecutorInvariance`, `NewestStays`, `ReadsComeInOrder` | `ExecutorInv`, `NewestStreamStays`, and the latter with the types in Home's behaviours (the safety part of `TasksTakeTurns`) |
| `Coefficients_proof` | `OwnStep`, `Quantizes` | `QuantizesByItsOwnStep` |
| | `TablesFitRoutines`, `PassShows`, `Shows` | multipliers fit their routine; `PassShowsItsScan` |
| | `BinsStayInRange`, `KeepsToItsBins` | the arithmetic decoder's bins; `DecoderKeepsToItsBins` |
| `Decompress_proof` | `CallsAreSafe`, `ComeWhole` | `CallsInv` for any sequence of calls; `ImagesComeWhole` |
| | `RowsAreComplete` | `RowsComeRight`, where two-pass quantization meets no sampling factor above two |
| | `ReadingIsFaithful` | `ReadingKeepsItsPlace` |
| `Huffman_proof` | `SequentialPassesAgree`, `ProgressivePassesAgree` | the two passes of a scan agree on its symbols |
| | `OnlyMarkersMeant`, `PendingRunsFit` | no byte imitates a marker; pending runs have room |
| | `WhatIsWrittenIsSound` | all of these as `ScansAreSound` |
| `RegisterNewClientJob_proof` | `Invariance`, `TypeCorrect`, `CallsRemembered`, `TokensInOrder`, `FinishesCurrentRun` | `IInv`, `TypeOK`, `NoCallForgotten`, `TokensSentInOrder`, `FinishIsCurrent` |

Assumptions: null is neither a thread nor a stream, `MaxReads` is a positive
number, `HasSound` is a Boolean, the bounds of the registration are numbers.
Nothing is assumed of how many threads, streams, tokens, calls or starts there
are.  A virtual array has at least one row and strips of at least one.
Messages are any set of extras, tasks any number.  Bitmap and largest frame have
at least one pixel, sizes being otherwise free.  A camera may send any parts whose
headers are text that fits the buffer with the start marker, and whose frames
begin and end with their markers.  The DCT managers have any set of components
and of positions in a block; quantization steps are positive, the scans cover the
components (as a file whose end is read does), sizes are those that have a
routine.  An image has any number of rows and columns of MCUs and of lines per
row; files are any sequences of the tokens, the intact and the broken; no
application asks for raw data and two-pass quantization at once (`jdmaster.c`
refuses it, 300).  For the rows, heights are any positive numbers, row groups per
row of blocks 1 to 16, and each component's sampling factor divides the largest,
which is at most 4; `RowsAreComplete` supposes at most 2 with two-pass
quantization, without which it is false (`jdpostct.c` 224, section 4).

**The view.**  None of the properties is inductive by itself.  `IInv` is

* `ProtocolInv`: types; every live thread is the one in `thread`, and it lives
  only while `mRun` is set or the UI thread is in the join; a stream is held
  only while `mRun` is set or in the join (`ThreadInv`, `StopInv`).  One
  renderer and complete pauses follow.
* `StreamInv`: what is held, read or posted is open, and no stream is in two of
  the places held and posted, or posted twice; so that closing the held one
  closes nobody else's.
* `SurfaceInv`: a thread past the test of `surfaceDone` without a surface has
  lost it there.
* `BufferInv`: `rgb` dangles only inside `freeCameraMemory`; pointers into freed
  memory come only from a free during rendering.
* `SourceInv`: a thread without a source, or one that ended by itself, has its
  event; and `FaultHasCause` itself.

Each part has a lemma per group of actions, and `StepIInv` puts them together.
The refinement uses `IInv` as a known invariant and maps each action to one
step of the contract or a stutter.

**The activity.**  Every action of the activity is an action of the view or
leaves its variables alone, so `MainSpec => Spec`, and the view's theorems are
the activity's too.  `AudioInv` adds that a preparing player after a pause
remembers it, and that the label "Play" goes with no audio focus.

What happens between two calls of one callback is what makes the other
properties fail to be inductive.  `MainActivity_proof` sorts the lists of
calls by what comes next (`Starting`, `Sounding`, `Pausing`, ..., `Replaced`;
`Apart` says that no list is of two kinds, `NextCall` which kind follows which),
and `MainInv` says of each kind what holds while such calls are left:

* `CallsInv`: only these lists occur; away from the foreground alone is anything
  stopped for good; the view is unknown only before `playVideo`.
* `VideoInv`: short of a late stream, a view that holds a stream or renders is
  wanted and in the foreground, or in the hands of the pause under way, of which
  only the join is left once `pauseVideo` has been called.
* `SoundInv`: short of a late message, a player is missing only before
  `playAudio`, and out of the foreground the focus and the sound are gone as soon
  as `pauseAudio` has been called.
* `OverlapInv`: short of an overlap, at most one read is under way, and none for
  a view that streams; with `StartedInv` (a started thread runs or is being
  waited for) no thread is started twice and no null source meets a renderer.

`FaultsNeedMishaps` joins these with `FaultHasCause`, which the activity has from
the view: the view says which event a fault needs, the activity which mishap an
event needs.

**The registration.**  `OrderInv`: the jobs of the tasks, the active and the
waiting job are in the order of the calls, and what has been sent is no younger
than what is unsent.  `SerialInv`: the tasks before one that has begun have
left the executor.  `RunInv`: a task that is neither over nor cancelled belongs
to the current run.  `TokenInv`: tokens are scheduled in the order of issue,
late answers apart.

**The executor.**  `ExecutorInv` has two essential parts.  `SerialInv`: what comes
after a task that is not over is queued.  `ResultInv`: the results on their way are
in the order of their tasks and newer than what the view shows.

**The virtual array.**  `IInv` adds to the types: a window with a backing store
can hold any legal strip, and one without holds the whole array (`WindowOK`);
the strip in the caller's hands lies in the window and has made it dirty
(`ViewOK`); what the caller sees of rows nobody has written is zero
(`FreshIsZero`); and every defined row outside a dirty window is in the store.
`WindowHoldsStrip` shows that the new window of a forward or a backward scan
holds the strip, the step theorem that writing back, moving and zeroing keep the
contents, where a row's contents are the buffer's inside the window and the
store's outside; that function is the refinement mapping's `array`.

**Messages.**  `LastUrlRemembered` is inductive with the types, but the step
property is not implied by it: `IntentPlayed` adds that the URLs in the intent of
an activity that a notification started are the ones that play, so that a message
that brings only one of them leaves the other playing.

**Frames.**  `FramesInv` says of `at` that it is where the last frame ended
(`InOrder`, with lengths; `Searched` without, where it may also be behind the next
header, since the search from the mark counts the header too), and of
`mContentLength` that it lies between the last frame's length and its part's: that
is what makes half of it a place from which the next end marker, and no other, is
found.  Under it lie lemmas about the searches: where the byte-by-byte match,
which does not look again at a byte that did not match, first completes
(`SearchFinds`), and what the two ways to a length then return (`SearchedFound`).
That a search never finds nothing (`markLost`, `badLength`) follows from these;
`EndsSearched` adds when the bytes it wants are not there (`LastIsLost`).

**Responses.**  The loop's counter is the depth that a parser of objects has
there (`ReadsObject`), for every beginning of the text that is a whole object; so
the loop ends with the first of them.  For texts of any kind it is the number of
opening less that of closing braces (`CountsBraces`, over the cardinality of the
places that have them), and none before was even.

**The bitmap.**  `ImageInv` says what the buffer holds while the rows come: the
rows of the frame that have come are in their places, as wide as the buffer
(`RowsWritten`), everything in it is a pixel of the column it lies in
(`RgbInPlace`), the rows repeated for a frame that is cut short apart; rows are
written one below the other until a row outside the buffer is the fault that
`FaultHasCause` accounts for.

**The DCT managers.**  `ForwardInv`: of what the loop of `start_pass_fdctmgr` has
passed, the routine is known and the table is there (`Ready`), and the table's
divisors are those of the last component before `ci` that computes them, in that
component's scale (`Remains`).  At the end of the loop that one is the last of all,
and has the component's own method where `KeepsItsDivisors` says so.  `InverseInv`: a component's table is latched at its first
scan (`Latched`), what has been built is built from that (`Built`), and in a pass
the table is that of the routine (`Fits`).  That the first scan of a component is
the least of those with it is the well-founded minimum of the library.

**The calls of a decompression.**  Their properties compare output with input,
which `jpeg_consume_input` may move at any time.  `CallsInv` is

* `InputTypes`, with `NothingLost`: each place of the coefficient arrays and of
  the file is where the counters say.
* `Control`: which call may be under way in which `global_state`, with which of
  the application's options.
* `Stages`: where in the file each state is.  `ScanInv` says that in an intact
  file the token before the MCUs decoded so far is the SOS of the current scan,
  so that the scan ends exactly when its MCUs do; and that a block has been
  brought by every scan up to this one if it lies before the counters, and by all
  but this one otherwise.
* `OutInv`: lines out and lines left make up the rows that were decoded, each kept
  or shown line is in its place, and shows no fewer scans than were asked for;
  what a two-pass application has saved is all of the image once it is cranked.
* `PassInv`: the pass against the input.  At the end of the file no pass is ahead
  of it; without the arrays output and input go in lockstep; in plain mode a line
  of a multi-scan file shows all scans.

There is a lemma per call and per way of consuming input, for each part that it
can disturb; calls that consume input are composed of the same lemmas.

**The rows.**  `RowsInv` follows a sample from the decoder to the application:

* `MainType`, `UpType`, `PostType`: the state of the three controllers.
* `Ready`: while rows are to come, the main controller and the upsampler are at
  the same row group, so many times `V` rows down the image (`UpOK`, with what the
  conversion buffer or the spare row holds of it).  Without context the buffer is
  the last row of blocks decoded (`SimpleOK`).
* With context, `ContextOK`: every entry of both pointer lists, in a closed form
  (`Listed`, and `BottomListed` below the last row of blocks); the buffer read
  through the list has the row of blocks at hand (`Current`) and the last two row
  groups of the one above (`Previous`); and which of the three states of
  `process_data_context_main` goes with which counters (`Stage`).  `AroundRow` and
  `AroundPostponed` conclude that a sample row and its two neighbours are read
  where they are.
* `PostOK` and `FinalOK`: the image that the dummy pass keeps is right down to the
  row that the upsampler is at, and the final pass shows it from there.
* `ShownOK`: the rows shown, one after another from the top.

A lemma for each routine says what it brings (`Brings`, `Yields`, `Delivered`), and
the step lemmas compose them as the routines call one another.  That a call
delivers at least one row, which in the dummy pass distinguishes it from a
suspended one, is part of `Yields`.

**The markers.**  `MarkersInv` has four parts.  `PlacesInv`: the local pointer is
not before the restart point, and of a source that suspends not beyond what has
arrived, unless that was skipped too.  `FoundInv`: a marker that was found and is
not being saved stands at the restart point, until its routine is done with it.
`SavingInv`: the `bytes_read` bytes before the restart point are those that are
saved of the marker, and before them stand its length and its code.  That is why a
copy that was interrupted goes on at the right byte, and it is all there is to tell
`save_marker` so.  `LocalsInv` is about the counts that a step adds to a pointer;
that the sixteen counts of a Huffman table add up to a number (`TotalIsNat`) is
proved by the least size for which a fold over a set would not be what its
definition says.  Every step is of one of seven kinds (`Fails`, `ReadsOn`,
`MovesOn`, `Turns`, `GivesUp`, `Ends`, `Saves`), and each kind keeps the invariant.
The files, the setups and the order in which bytes arrive are arbitrary
(`SetupsOK`: limits and buffer sizes are numbers, files are bytes).

**The arithmetic decoder.**  `ModelInv` says where the decoder may be in an MCU
(`PcOK`) and that a DC context is one of five (`DecOK`).  Its essential part is
`MoreOK`: while the category of a magnitude is read, the bin is the number of the
category away from the first one, and the value that is doubled with it is that
power of two.  `arith_decode` is asked for a bin before the code looks at the
value, and nothing looks at the bin: that the bin stays in its area follows from
the comparison of the value with 0x8000 only because the two go up together.
Whether the data are damaged makes no difference to the proof, which takes any bit
for any decision.  Assumed is what the headers are checked for before a scan is
decoded (`ModelAssumption`: 1 to 63 AC coefficients, a legal scan, each component
with blocks in a row of the MCU).

**What the Huffman encoders write.**  `HuffmanInv` has four parts, two for each kind
of scan.

* `PassesInv` and `ScanPassesInv` are why the passes agree.  The gathering pass
  leaves nothing behind but its counts, and the writing pass begins from the start
  again; that both take the same way is said by a function `g` from the number of
  MCUs done to what the coder carries over from one MCU to the next (the last DC
  values, the restart counter, the symbols so far, and in a progressive scan the
  pending run with its bits).  While the first pass runs, `g` is the way so far;
  when it ends, `g` is complete; and while the second runs, its state is `g` at its
  place and the counts are the symbols at the end of `g`.  In a progressive scan the
  way exists only for a fixed image, scan and interval, hence `BlockSame` and
  `ScanSame`: a step that leaves these alone leaves the way alone.  An MCU that the
  output makes wait changes nothing that `g` is about.
* `SequentialInv` is why there are no markers but those meant.  `Writes(w, n)` says
  of a writer that its bytes have an FF with something other than a zero behind it
  exactly at the n restart markers, in their order, and that no FF is left without
  its zero at the end; `Counted(n)` says which n belongs to the place in the scan.
  The state to which an MCU that must wait returns is the one that is written from,
  so the invariant is about `saved`.  Under it lie `ValueIsByte` (eight bits are a byte) and
  `MarkedStuffed` (so many bytes more, each FF followed by zero), which go through
  the bytes one by one.
* `ProgressiveInv` is why a pending run has room.  `PendingFits` is kept by each step
  of a block: an end of block counts itself in and is forced out at the limit
  (`CountFits`), a coefficient sends the run off first (`EobrunFits`), and within one
  block there are never more correction bits than coefficients passed
  (`RefineTurns`), which is what the room must be for.

Assumed are intervals and pictures of the declared shapes, scans of the legal ones
(`ScansAssumption`, as `validate_script` of `jcmaster.c` sees to), a buffer of correction bits that
holds those of one block, and tables in which each symbol of the pictures has a code
(`PicturesAssumption`; `jpeg_gen_optimal_table` and the default tables give one, and
the coder stops with an error where there is none).  That the decoder gets back what
was written is not proved: a code is read back by recursion over its lengths, for
every table.

Only model-checked: `UIReturns`, `EveryJobEnds`, `TasksTakeTurns` but for
`ReadsComeInOrder`, `ReadingSucceeds` (liveness under fairness is beyond the
prover, and what a document means, which is half of it, is known of the documents
of the run only); `TablesAreLoaded`, `TablesAreSound`, `ScansSurvive`,
`DecisionsSurvive`, `ScaledSizesAgree` (what recursive definitions,
a code or a transform, compute for every input).

## 6. What is not modelled

* Connections that are broken in other ways than by ending: a part that is cut off
  inside, a Content-Length that is wrong or negative, a header that is longer than
  the buffer or ends in 0xFF.  What the code makes of them is in `readMjpegFrame`'s
  definition (but for a negative length, I 255, which fails like `badLength`), but
  no camera of `MCHome` sends them and no property speaks of them.
* Display size, aspect ratio, overlay and frame counter of the view; volume
  key, speakerphone, dialogs and menus of the activity: no state that the
  properties could see.
* A second activity after the first (the models follow one activity and one
  view from their creation to their end, except `HomeMessages`, which has
  restarts).
* Android and Firebase: external; modelled where the code meets them (threads,
  looper, executor, surface lock, job scheduler, notifications, collector).
* Of libjpeg: the fast and the floating-point DCT (their choice and their tables
  are modelled); colour conversion and the arithmetic of upsampling within a
  row; block smoothing; the colour quantizers; all of compression but the
  entropy coders and the DCT, which are the other half of the decoder's round
  trips; `transupp.c`, the programs and the file formats, which the Android build
  does not compile.  The backing store of a virtual array is external: the
  Android build links `jmemnobs.c`, where a window is the whole array.
* The pools of the memory manager: state that no caller sees.
* Gradle files, manifest and resources: no behaviour of their own.
