--------------------------- MODULE JpegDecompress ---------------------------
(***************************************************************************)
(* The life of a decompression object: the calls of the application        *)
(* (jdapimin.c, jdapistd.c), the input controller that they drive          *)
(* (jdinput.c), the coefficient controller between input and output        *)
(* (jdcoefct.c) and the choice of passes (jdmaster.c), over a data source  *)
(* that may have no more data at any point.                                *)
(*                                                                         *)
(* A file is a sequence of tokens, one image after another: "SOF1" for a   *)
(* frame of one component, "SOFM" for one that takes several scans, "DQT"  *)
(* for a marker with tables, "SOS", "PSOS" for a scan of no component,     *)
(* "MCU" and "EOI".  A call runs until it returns, one marker, one MCU or  *)
(* one decision of its loops at a time; `call' is the call in progress.    *)
(***************************************************************************)
EXTENDS Integers, Sequences

CONSTANTS
  Files,    \* sequences of tokens
  Rows,     \* total_iMCU_rows
  Cols,     \* MCUs_per_row
  Lines,    \* output rows of an iMCU row
  Options,  \* what the application sets before jpeg_start_decompress
  Wanted    \* the scan numbers it asks for in jpeg_start_output
SizesOK == {Rows, Cols, Lines} \subseteq Nat \ {0}
OptionsOK ==
  /\ Options \subseteq [buffered : BOOLEAN, raw : BOOLEAN, twoPass : BOOLEAN]
  /\ \A o \in Options : o.raw => ~o.twoPass
  /\ Wanted \subseteq Int
FilesOK ==
  Files \subseteq Seq({"SOF1", "SOFM", "DQT", "SOS", "PSOS", "MCU", "EOI"})

VARIABLES
  file, pos, avail,  \* the tokens, how many are read and how many have come
  state,             \* global_state
  call,              \* "none" or the call in progress
  opts,              \* buffered_image, raw_data_out, two_pass_quantize
  \* the input controller: where consume_input points, inheaders,
  \* eoi_reached, has_multiple_scans, saw_SOF, input_scan_number,
  \* input_iMCU_row, MCU_ctr, and "lost": data was skipped or made up
  in,
  coef,              \* the coefficients: the last scan decoded at [row][col]
  \* the output side: output_scan_number, output_iMCU_row, output_scanline,
  \* is_dummy_pass, colormap, whether smoothing is on, and the main
  \* controller's: "crank", the rows left in its buffer and what they are
  out,
  saved,             \* the whole image of two-pass quantization
  shown              \* the scanlines that this pass has delivered
vars == <<file, pos, avail, state, call, opts, in, coef, out, saved, shown>>

Height == Rows * Lines
Blank == [r \in 0..(Rows - 1) |-> [c \in 0..(Cols - 1) |-> 0]]
NoRow == [row |-> -1, scan |-> 0, want |-> 0]
MinOf(S) == CHOOSE x \in S : \A y \in S : x <= y
MaxOf(S) == CHOOSE x \in S : \A y \in S : x >= y

Token == file[pos + 1]
Empty == pos = avail
UseCBuffer == in.multi \/ opts.buffered

\* A new image: where the last one stopped within its rows does not matter.
reset_input_controller(i) ==
  [i EXCEPT !.consume = "markers", !.inheaders = 1, !.eoi = FALSE,
            !.multi = FALSE, !.sof = "none", !.scan = 0, !.lost = FALSE]

Init ==
  /\ file \in Files /\ pos = 0 /\ avail = 0
  /\ state = "START" /\ call = "none" /\ opts \in Options
  /\ in = [consume |-> "markers", inheaders |-> 1, eoi |-> FALSE,
           multi |-> FALSE, sof |-> "none", scan |-> 0, row |-> 0, ctr |-> 0,
           lost |-> FALSE]
  /\ coef = Blank
  /\ out = [scan |-> 0, row |-> 0, line |-> 0, dummy |-> FALSE,
            colormap |-> FALSE, smooth |-> FALSE, crank |-> FALSE,
            left |-> 0, held |-> NoRow]
  /\ saved = <<>> /\ shown = <<>>

-----------------------------------------------------------------------------
(* consume_input: each disjunct is one step; ret is what it returns, "more" *)
(* while it goes on                                                        *)

start_input_pass(i) == [i EXCEPT !.row = 0, !.ctr = 0, !.consume = "data"]

\* At the end of the file there is no later scan to wait for.
Limit(o, i) == IF o.scan > i.scan THEN [o EXCEPT !.scan = i.scan] ELSE o

FirstSOS(i) ==
  [i EXCEPT !.multi = IF i.inheaders = 1 THEN i.sof = "SOFM" ELSE @]

ReachEOI(ret) ==
  /\ in' = [in EXCEPT !.eoi = TRUE]
  /\ ret = IF in.inheaders # 0 /\ in.sof # "none" THEN "error" ELSE "EOI"
  /\ out' = IF in.inheaders # 0 THEN out ELSE Limit(out, in)

ReachSOS(ret) ==
  LET i == [in EXCEPT !.scan = @ + 1] IN
  /\ out' = out
  /\ CASE in.sof = "none" -> ret = "error" /\ in' = in
       [] in.sof # "none" /\ in.inheaders # 0 ->
            ret = "SOS" /\ in' = [FirstSOS(i) EXCEPT !.inheaders = 0]
       [] in.sof # "none" /\ in.inheaders = 0 /\ ~in.multi ->
            ret = "error" /\ in' = i
       [] OTHER -> ret = "SOS" /\ in' = start_input_pass(i)

\* A scan of no component is passed over; before the first scan it has set
\* up the image.
ReachPseudoSOS ==
  in' = IF in.inheaders # 0 THEN [FirstSOS(in) EXCEPT !.inheaders = 2] ELSE in

consume_markers(ret) ==
  /\ in.consume = "markers"
  /\ UNCHANGED coef
  /\ \/ /\ in.eoi /\ ret = "EOI" /\ UNCHANGED <<pos, in, out>>
     \/ /\ ~in.eoi /\ Empty /\ ret = "SUSPENDED" /\ UNCHANGED <<pos, in, out>>
     \/ /\ ~in.eoi /\ ~Empty /\ pos' = pos + 1
        /\ \/ Token = "EOI" /\ ReachEOI(ret)
           \/ Token = "SOS" /\ ReachSOS(ret)
           \/ /\ ret = "more" /\ UNCHANGED out
              /\ \/ Token = "PSOS" /\ ReachPseudoSOS
                 \/ /\ Token \in {"SOF1", "SOFM"}
                    /\ in' = [in EXCEPT !.sof = Token]
                 \/ Token = "DQT" /\ in' = in
                 \/ Token = "MCU" /\ in' = [in EXCEPT !.lost = TRUE]

\* An MCU at MCU_ctr of the row.  A marker in its place is left for later
\* and the MCU made up from nothing.
NextMCU(i) ==
  IF i.ctr + 1 < Cols THEN [i EXCEPT !.ctr = @ + 1]
  ELSE [i EXCEPT !.ctr = 0, !.row = @ + 1,
                 !.consume = IF i.row + 1 < Rows THEN @ ELSE "markers"]
decode_mcu(ret) ==
  /\ in.consume = "data"
  /\ IF Empty
     THEN ret = "SUSPENDED" /\ UNCHANGED <<pos, in, coef>>
     ELSE /\ pos' = IF Token = "MCU" THEN pos + 1 ELSE pos
          /\ coef' = [coef EXCEPT ![in.row][in.ctr] = in.scan]
          /\ in' = [NextMCU(in) EXCEPT !.lost = @ \/ Token # "MCU"]
          /\ ret = IF in.ctr + 1 < Cols THEN "more"
                   ELSE IF in.row + 1 < Rows THEN "ROW" ELSE "SCAN"

consume_data(ret) ==
  /\ UNCHANGED out
  /\ IF UseCBuffer THEN decode_mcu(ret)
     ELSE /\ in.consume = "data" /\ ret = "SUSPENDED"
          /\ UNCHANGED <<pos, in, coef>>

consume_input(ret) == consume_markers(ret) \/ consume_data(ret)
Results == {"more", "SUSPENDED", "SOS", "EOI", "ROW", "SCAN", "error"}

-----------------------------------------------------------------------------
(* calls: how they begin *)

Source == <<file, avail>>
MayCall(states) == call = "none" /\ state \in states
Running(c) == call = c

\* jpeg_read_header, and jpeg_consume_input before the first scan.
BeginInput(c) ==
  /\ call' = c
  /\ IF state = "START"
     THEN in' = reset_input_controller(in) /\ state' = "INHEADER"
     ELSE UNCHANGED <<in, state>>
  /\ UNCHANGED <<Source, pos, opts, coef, out, saved, shown>>
jpeg_read_header == MayCall({"START", "INHEADER"}) /\ BeginInput("header")
jpeg_consume_input ==
  /\ MayCall({"START", "INHEADER", "PRELOAD", "PRESCAN", "SCANNING", "RAW_OK",
              "BUFIMAGE", "BUFPOST", "STOPPING"})
  /\ BeginInput("consume")

\* The first call sets up the modules; later ones go on where it waited.
jpeg_start_decompress ==
  /\ MayCall({"READY", "PRELOAD", "PRESCAN"})
  /\ state = "PRESCAN" => ~opts.buffered
  /\ IF state = "READY"
     THEN /\ in' = start_input_pass(in) /\ coef' = Blank
          /\ out' = [out EXCEPT !.dummy = FALSE, !.colormap = FALSE]
          /\ state' = IF opts.buffered THEN "BUFIMAGE" ELSE "PRELOAD"
          /\ call' = IF opts.buffered THEN "none" ELSE "preload"
     ELSE /\ call' = IF state = "PRELOAD" THEN "preload" ELSE "setup"
          /\ UNCHANGED <<in, coef, out, state>>
  /\ UNCHANGED <<Source, pos, opts, saved, shown>>

\* The scan to show, among those there are once all have been read.
Clip(n) ==
  LET m == IF n <= 0 THEN 1 ELSE n
  IN IF in.eoi /\ m > in.scan THEN in.scan ELSE m
jpeg_start_output(n) ==
  /\ MayCall({"BUFIMAGE", "PRESCAN"}) /\ opts.buffered
  /\ out' = [out EXCEPT !.scan = Clip(n)] /\ call' = "setup"
  /\ UNCHANGED <<Source, pos, state, opts, in, coef, saved, shown>>

\* jpeg_read_scanlines, one line, and jpeg_read_raw_data.
BeginRead ==
  /\ MayCall({"SCANNING", "RAW_OK"}) /\ out.line < Height
  /\ call' = "read"
  /\ UNCHANGED <<Source, pos, state, opts, in, coef, out, saved, shown>>

BeginFinish(from, to, c) ==
  /\ MayCall(from \cup {to})
  /\ state' = to /\ call' = c
  /\ UNCHANGED <<Source, pos, opts, in, coef, out, saved, shown>>
jpeg_finish_output ==
  /\ opts.buffered
  /\ BeginFinish({"SCANNING", "RAW_OK"}, "BUFPOST", "finish_output")
jpeg_finish_decompress ==
  IF opts.buffered THEN BeginFinish({"BUFIMAGE"}, "STOPPING", "finish")
  ELSE /\ state # "STOPPING" => out.line = Height
       /\ BeginFinish({"SCANNING", "RAW_OK"}, "STOPPING", "finish")

\* jpeg_abort keeps everything but the state; the application then goes to
\* the next image of its file.  It is also what follows an error.
Images == {0, Len(file)} \cup {i \in 1..Len(file) : file[i] = "EOI"}
jpeg_abort ==
  /\ call = "none" /\ state # "START"
  /\ state' = "START"
  /\ pos' = MinOf({i \in Images : i >= pos})
  /\ avail' = MaxOf({avail, pos'})
  /\ UNCHANGED <<file, call, opts, in, coef, out, saved, shown>>

\* Between two passes the application may want a new choice of colours.
DropColormap ==
  /\ MayCall({"BUFIMAGE"}) /\ out.colormap
  /\ out' = [out EXCEPT !.colormap = FALSE]
  /\ UNCHANGED <<Source, pos, state, call, opts, in, coef, saved, shown>>

-----------------------------------------------------------------------------
(* calls: how they go on *)

\* A call that only reads input: what becomes of it and of the state.
HeaderStep ==
  /\ Running("header")
  /\ \E ret \in Results :
       /\ consume_input(ret)
       /\ state' = CASE ret = "SOS" -> "READY"
                     [] ret = "EOI" -> "START"
                     [] ret = "error" -> "FAILED"
                     [] OTHER -> state
       /\ call' = IF ret = "more" THEN call ELSE "none"
  /\ UNCHANGED <<Source, opts, saved, shown>>

ConsumeStep ==
  /\ Running("consume")
  /\ \E ret \in Results :
       /\ consume_input(ret)
       /\ state' = CASE ret = "SOS" /\ state = "INHEADER" -> "READY"
                     [] ret = "error" -> "FAILED"
                     [] OTHER -> state
       /\ call' = IF ret = "more" THEN call ELSE "none"
  /\ UNCHANGED <<Source, opts, saved, shown>>

\* One step of input within a loop: the call ends when it has to wait.
Wait(ret) ==
  /\ consume_input(ret)
  /\ state' = IF ret = "error" THEN "FAILED" ELSE state
  /\ call' = IF ret \in {"SUSPENDED", "error"} THEN "none" ELSE call

\* The whole file goes to the coefficient buffer before the first line.
PreloadStep ==
  /\ Running("preload") /\ in.multi /\ ~in.eoi
  /\ \E ret \in Results : Wait(ret)
  /\ UNCHANGED <<Source, opts, saved, shown>>
Preloaded ==
  /\ Running("preload") /\ (in.multi => in.eoi)
  /\ out' = [out EXCEPT !.scan = in.scan] /\ call' = "setup"
  /\ UNCHANGED <<Source, pos, state, opts, in, coef, saved, shown>>

FinishStep ==
  /\ \/ Running("finish")
     \/ Running("finish_output") /\ in.scan <= out.scan
  /\ ~in.eoi
  /\ \E ret \in Results : Wait(ret)
  /\ UNCHANGED <<Source, opts, saved, shown>>
FinishedOutput ==
  /\ Running("finish_output") /\ (in.scan <= out.scan => in.eoi)
  /\ state' = "BUFIMAGE" /\ call' = "none"
  /\ UNCHANGED <<Source, pos, opts, in, coef, out, saved, shown>>

\* The source keeps what follows the EOI: that is where the next image is.
Finished ==
  /\ Running("finish") /\ in.eoi
  /\ state' = "START" /\ call' = "none"
  /\ UNCHANGED <<Source, pos, opts, in, coef, out, saved, shown>>

-----------------------------------------------------------------------------
(* output passes *)

\* A slip: rows left over from the last pass go into the next one.
PreparedKeepsBuffer(o, smooth) ==
  IF o.dummy THEN [o EXCEPT !.dummy = FALSE, !.crank = TRUE, !.line = 0]
  ELSE [o EXCEPT !.dummy = opts.twoPass /\ ~o.colormap, !.crank = FALSE,
                 !.row = 0, !.line = 0, !.smooth = smooth]
\* prepare_for_output_pass: a dummy pass when colours have to be chosen, the
\* final one over the saved image after it, or a plain pass.
Prepared(o, smooth) ==
  IF o.dummy THEN [o EXCEPT !.dummy = FALSE, !.crank = TRUE, !.line = 0]
  ELSE [o EXCEPT !.dummy = opts.twoPass /\ ~o.colormap, !.crank = FALSE,
                 !.row = 0, !.line = 0, !.left = 0, !.smooth = smooth]

SetupPass ==
  /\ Running("setup") /\ state # "PRESCAN"
  /\ \E smooth \in {FALSE, in.sof = "SOFM" /\ UseCBuffer} :
       out' = Prepared(out, smooth)
  /\ state' = "PRESCAN" /\ shown' = <<>>
  /\ saved' = <<>>
  /\ UNCHANGED <<Source, pos, call, opts, in, coef>>
SetupDone ==
  /\ Running("setup") /\ state = "PRESCAN" /\ ~out.dummy
  /\ state' = IF opts.raw THEN "RAW_OK" ELSE "SCANNING"
  /\ call' = "none"
  /\ UNCHANGED <<Source, pos, opts, in, coef, out, saved, shown>>
DummyDone ==
  /\ Running("setup") /\ state = "PRESCAN" /\ out.dummy /\ out.line = Height
  /\ out' = Prepared([out EXCEPT !.colormap = TRUE], FALSE)
  /\ UNCHANGED <<Source, pos, state, call, opts, in, coef, saved, shown>>

\* A row of iMCUs is wanted: a line is asked for and no row is buffered.
WantsRow ==
  /\ \/ Running("read") /\ ~out.crank
     \/ Running("setup") /\ state = "PRESCAN" /\ out.dummy
        /\ out.line < Height
  /\ out.left = 0

\* decompress_data must not get ahead of the input; with smoothing it needs
\* the row below as well while that is being refined from a DC scan.
Ss == IF in.scan <= 1 THEN 0 ELSE 1
AheadOfInput ==
  IF out.smooth
  THEN /\ in.scan <= out.scan /\ ~in.eoi
       /\ in.scan = out.scan =>
            in.row <= out.row + (IF Ss = 0 THEN 1 ELSE 0)
  ELSE \/ in.scan < out.scan
       \/ in.scan = out.scan /\ in.row <= out.row

ForceInput ==
  /\ WantsRow /\ UseCBuffer /\ AheadOfInput
  /\ \E ret \in Results : Wait(ret)
  /\ UNCHANGED <<Source, opts, saved, shown>>

Held(r, c) ==
  [row |-> r, scan |-> MinOf({c[r][k] : k \in 0..(Cols - 1)}),
   want |-> out.scan]
decompress_data ==
  /\ WantsRow /\ UseCBuffer /\ ~AheadOfInput
  /\ out' = [out EXCEPT !.row = @ + 1, !.left = Lines,
                        !.held = Held(out.row, coef)]
  /\ UNCHANGED <<Source, pos, state, call, opts, in, coef, saved, shown>>

\* Input and output in lockstep.
decompress_onepass ==
  /\ WantsRow /\ ~UseCBuffer
  /\ \E ret \in Results :
       /\ decode_mcu(ret)
       /\ call' = IF ret = "SUSPENDED" THEN "none" ELSE call
       /\ out' = IF ret \notin {"ROW", "SCAN"} THEN out
                 ELSE [out EXCEPT !.row = @ + 1, !.left = Lines,
                                  !.held = Held(in.row, coef')]
  /\ UNCHANGED <<Source, state, opts, saved, shown>>

Line == IF out.crank THEN saved[out.line + 1] ELSE out.held

\* One line to the application, or a row of them as raw data.
ReadLine ==
  /\ Running("read") /\ (out.crank \/ out.left > 0)
  /\ LET n == IF opts.raw THEN out.left ELSE 1 IN
     /\ shown' = shown \o [i \in 1..n |-> Line]
     /\ out' = [out EXCEPT !.line = @ + n,
                           !.left = IF out.crank THEN @ ELSE @ - n]
  /\ call' = "none"
  /\ UNCHANGED <<Source, pos, state, opts, in, coef, saved>>

SaveLine ==
  /\ Running("setup") /\ out.dummy /\ out.left > 0
  /\ saved' = Append(saved, out.held)
  /\ out' = [out EXCEPT !.line = @ + 1, !.left = @ - 1]
  /\ UNCHANGED <<Source, pos, state, call, opts, in, coef, shown>>

Arrive ==
  /\ call = "none" /\ avail < Len(file)
  /\ avail' = avail + 1
  /\ UNCHANGED <<file, pos, state, call, opts, in, coef, out, saved, shown>>

Begin ==
  \/ jpeg_read_header \/ jpeg_consume_input \/ jpeg_start_decompress
  \/ \E n \in Wanted : jpeg_start_output(n)
  \/ BeginRead \/ jpeg_finish_output \/ jpeg_finish_decompress
  \/ jpeg_abort \/ DropColormap
Step ==
  \/ HeaderStep \/ ConsumeStep \/ PreloadStep \/ Preloaded \/ FinishStep
  \/ FinishedOutput \/ Finished \/ SetupPass \/ SetupDone \/ DummyDone
  \/ ForceInput \/ decompress_data \/ decompress_onepass \/ ReadLine
  \/ SaveLine
Next == Begin \/ Step \/ Arrive

\* A call runs until it returns.
Fairness == WF_vars(Step)
Spec == Init /\ [][Next]_vars /\ Fairness

-----------------------------------------------------------------------------
(* properties *)

TypeOK ==
  /\ pos \in 0..avail /\ avail \in 0..Len(file)
  /\ state \in {"START", "INHEADER", "READY", "PRELOAD", "PRESCAN", "SCANNING",
                "RAW_OK", "BUFIMAGE", "BUFPOST", "STOPPING", "FAILED"}
  /\ call \in {"none", "header", "consume", "preload", "setup", "read",
               "finish_output", "finish"}
  /\ in.consume \in {"markers", "data"} /\ in.inheaders \in 0..2
  /\ in.row \in 0..Rows /\ in.ctr \in 0..(Cols - 1)
  /\ in.consume = "data" => in.row < Rows
  /\ out.row \in 0..Rows /\ out.line \in 0..Height /\ out.left \in 0..Lines

\* Every scan of a file has all its MCUs, and they are nowhere else.
Intact ==
  \A i \in 1..Len(file) :
    file[i] = "MCU" <=> \E k \in 1..(Rows * Cols) :
                          k < i /\ file[i - k] \in {"SOS"}

\* From an intact file nothing is skipped or made up, wherever the data
\* source lets the calls wait and whatever was abandoned before.
NothingLost == Intact => ~in.lost

\* A pass delivers the rows of the image in order, each of its lines once.
RowsInOrder ==
  \A k \in DOMAIN shown : shown[k].row = (k - 1) \div Lines

\* A line is never shown before the input has decoded its row, in the scan
\* that was asked for or a later one.
NotAheadOfInput ==
  \A k \in DOMAIN shown : shown[k].scan >= shown[k].want

\* Outside buffered-image mode the lines come from the whole file.
ShowsAllScans ==
  /\ state \in {"SCANNING", "RAW_OK"} /\ ~opts.buffered /\ in.multi
  => in.eoi /\ \A k \in DOMAIN shown : shown[k].scan = in.scan

\* An object that is ready for the next image has read exactly to the end of
\* the last one.
StopsAfterEOI == state = "START" => pos \in Images

\* Every call returns: none waits for a scan that will not come.
CallsReturn == (call # "none") ~> (call = "none")
=============================================================================
