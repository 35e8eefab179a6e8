------------------------------ MODULE Decompress ------------------------------
(***************************************************************************)
(* Decompression: the markers of a file (MarkerReader), the calls of the   *)
(* application over input and output (JpegDecompress), and the rows of an  *)
(* image on their way through the output side's buffers (OutputRows).      *)
(*                                                                         *)
(* A behaviour is that of one of the three: part says of which.  Markers   *)
(* and calls share the file and the places in it; the other variables that *)
(* the part does not have keep a value without meaning.                    *)
(***************************************************************************)
EXTENDS MarkerReader

CONSTANTS
  Chosen,                                          \* the parts looked at
  ImageFiles, Rows, Cols, Lines, Options, Wanted,  \* JpegDecompress
  Shapes, MaxLines                                 \* OutputRows

VARIABLES
  part,
  state, call, opts, in, coef, out, saved, shown,    \* JpegDecompress
  shape, pass, output_scanline, main, up, post, rows \* OutputRows

fileVars   == <<file, avail, pos>>
markerVars == <<setup, at, proc, loc, unread_marker, cinfo, cur_marker,
                bytes_read, discarded, warned, status, results>>
callVars   == <<state, call, opts, in, coef, out, saved, shown>>
rowVars    == <<shape, pass, output_scanline, main, up, post, rows>>
allVars    == <<part, fileVars, markerVars, callVars, rowVars>>

Calls  == INSTANCE JpegDecompress WITH Files <- ImageFiles
Output == INSTANCE OutputRows WITH shown <- rows

ASSUME DecompressAssumptions ==
  /\ SetupsOK
  /\ Calls!SizesOK /\ Calls!OptionsOK /\ Calls!FilesOK /\ Output!ShapesOK

-----------------------------------------------------------------------------
NoMarkers ==
  /\ setup = "none" /\ at = 0 /\ proc = "none" /\ loc = <<>>
  /\ unread_marker = 0 /\ cinfo = <<>> /\ cur_marker = <<>>
  /\ bytes_read = 0 /\ discarded = 0 /\ warned = <<>> /\ status = "none"
  /\ results = <<>>

NoCalls ==
  /\ state = "none" /\ call = "none" /\ opts = <<>> /\ in = <<>>
  /\ coef = <<>> /\ out = <<>> /\ saved = <<>> /\ shown = <<>>

NoOutput ==
  /\ shape = <<>> /\ pass = "none" /\ output_scanline = 0
  /\ main = [full |-> FALSE]
  /\ up = <<>> /\ post = <<>> /\ rows = <<>>

NoFile == file = <<>> /\ avail = 0 /\ pos = 0

PartsInit ==
  /\ part \in Chosen
  /\ \/ part = "markers" /\ Init /\ NoCalls /\ NoOutput
     \/ part = "calls" /\ Calls!Init /\ NoMarkers /\ NoOutput
     \/ part = "rows" /\ Output!Init /\ NoFile /\ NoMarkers /\ NoCalls

PartsNext ==
  \/ part = "markers" /\ Next /\ UNCHANGED <<part, callVars, rowVars>>
  \/ part = "calls" /\ Calls!Next /\ UNCHANGED <<part, markerVars, rowVars>>
  \/ /\ part = "rows" /\ Output!Next
     /\ UNCHANGED <<part, fileVars, markerVars, callVars>>
  \/ part = "markers" /\ FileEnded /\ UNCHANGED allVars

\* The application calls again after a suspension, and feeds the buffer
\* whenever there is room in it.
MarkerFairness ==
  /\ WF_vars(part = "markers" /\ Step)
  /\ WF_vars(part = "markers" /\ Call)
  /\ SF_vars(part = "markers" /\ \E n \in 1 .. BufferSize : Arrive(n))

PartsSpec ==
  PartsInit /\ [][PartsNext]_allVars /\ MarkerFairness /\ Calls!Fairness

-----------------------------------------------------------------------------
(* Properties: those of the components, which say what each is about.      *)

\* Reading never looks at a byte that has not arrived, never goes back behind
\* the restart point, nor over what is saved of a marker, and a marker on the
\* list is what stands in the file (fill_input_buffer's FALSE, skip_variable,
\* save_marker).
ReadingKeepsItsPlace ==
  /\ [](part = "markers" => TypeOK /\ ReadsWhatArrived)
  /\ [][part = "markers" => GoesForward /\ SavesWhatIsWritten]_allVars

\* However often calls wait for data, and whatever was abandoned before: no
\* data are skipped, lines come in order, from scans that have been read,
\* outside buffered-image mode from the whole file, and an object is ready
\* for the next image exactly after the last one's end (jpeg_read_header to
\* jpeg_finish_decompress).
ImagesComeWhole ==
  part = "calls" =>
    /\ Calls!TypeOK /\ Calls!NothingLost /\ Calls!RowsInOrder
    /\ Calls!NotAheadOfInput /\ Calls!ShowsAllScans
    /\ Calls!StopsAfterEOI

\* Each row is made of the samples at, above and below it, is delivered once
\* and in order, and none beyond the bottom, however many are asked for; a
\* call that is not suspended delivers one (jdmainct.c, jdsample.c,
\* jdmerge.c, jdpostct.c).
RowsComeRight ==
  /\ [](part = "rows" =>
          /\ Output!TypeOK /\ Output!RowsAreRight /\ Output!StopsAtBottom
          /\ Output!CountsAgree)
  /\ Output!CallsProgress
=============================================================================
