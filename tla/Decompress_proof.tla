-------------------------- MODULE Decompress_proof --------------------------
(***************************************************************************)
(* Proofs about Decompress.  The calls (JpegDecompress): whatever the      *)
(* file, the size of its image, the options and the order of the calls,    *)
(* and wherever the data source makes them wait, images come whole.  The   *)
(* rows (OutputRows): whatever the image, its sampling, the upsampler, the *)
(* colour quantization and the lines asked for, each row is made of the    *)
(* right samples and delivered once and in order.  The markers             *)
(* (MarkerReader): whatever the file and the pieces in which it arrives,   *)
(* the reader keeps its place and saves what is written.                   *)
(*                                                                         *)
(* The invariant of the calls has a part for the input, which says where   *)
(* in the file and in the scan it is and which coefficients the scan has   *)
(* brought, one for the output side's counts and lines, and one that       *)
(* relates the two: what an output pass may show of what has been read.    *)
(*                                                                         *)
(* The invariant of the rows says which row group the main controller and  *)
(* the upsampler are both at, what the buffer holds, where each entry of   *)
(* both pointer lists leads, what the upsampler has kept of a row group    *)
(* and what the postprocessor has kept of the image.                       *)
(*                                                                         *)
(* The invariant of the markers says where in the file the two pointers    *)
(* may be, which code stands at the restart point, and which bytes before  *)
(* it are the marker that is being saved.  A step of the reader is one of  *)
(* seven kinds - it fails, reads, passes, turns, gives up, ends or saves a *)
(* marker - and each kind keeps the invariant.                             *)
(***************************************************************************)
EXTENDS Decompress, TLAPS, WellFoundedInduction, SequenceTheorems,
        FiniteSetTheorems
-----------------------------------------------------------------------------
(* The calls of the application: the types of their state.                 *)

Ways == {"markers", "data"}
Headers == 0..2
FrameKinds == {"none", "SOF1", "SOFM"}

Input == [consume : Ways, inheaders : Headers, eoi : BOOLEAN,
          multi : BOOLEAN, sof : FrameKinds, scan : Nat,
          row : Nat, ctr : Nat, lost : BOOLEAN]
Row == [row : Int, scan : Int, want : Int]
Side == [scan : Int, row : Nat, line : Nat, dummy : BOOLEAN,
         colormap : BOOLEAN, smooth : BOOLEAN, crank : BOOLEAN,
         left : Int, held : Row]

\* Members of the sets above.
LEMMA Members ==
    /\ "markers" \in Ways /\ "data" \in Ways
    /\ \A w \in Ways : w = "markers" \/ w = "data"
    /\ 0 \in Headers /\ 1 \in Headers /\ 2 \in Headers
    /\ "none" \in FrameKinds /\ "SOF1" \in FrameKinds
    /\ "SOFM" \in FrameKinds
    /\ FALSE \in BOOLEAN /\ TRUE \in BOOLEAN
BY DEF Ways, Headers, FrameKinds

\* What the assumptions say of sizes, options and files.
LEMMA CallFacts ==
    /\ Rows \in Nat \ {0} /\ Cols \in Nat \ {0} /\ Lines \in Nat \ {0}
    /\ Options \subseteq [buffered : BOOLEAN, raw : BOOLEAN, twoPass : BOOLEAN]
    /\ \A o \in Options : o.raw => ~o.twoPass
    /\ Wanted \subseteq Int
    /\ \A f \in ImageFiles : Len(f) \in Nat /\ DOMAIN f = 1..Len(f)
BY DecompressAssumptions DEF Calls!SizesOK, Calls!OptionsOK, Calls!FilesOK

\* What a restart of the input controller leaves.
LEMMA ResetFacts ==
    ASSUME NEW i \in Input
    PROVE  LET j == Calls!reset_input_controller(i)
           IN  /\ j \in Input /\ j.consume = "markers" /\ j.inheaders = 1
               /\ j.scan = 0 /\ j.row = i.row /\ j.ctr = i.ctr
               /\ ~j.eoi /\ ~j.lost /\ ~j.multi
<1> DEFINE j == Calls!reset_input_controller(i)
<1>1. j \in Input
  BY Members DEF Calls!reset_input_controller, Input
<1>2. /\ j.consume = "markers" /\ j.inheaders = 1
      /\ j.scan = 0 /\ j.row = i.row /\ j.ctr = i.ctr
  BY DEF Calls!reset_input_controller, Input
<1>3. ~j.eoi /\ ~j.lost /\ ~j.multi
  BY DEF Calls!reset_input_controller, Input
<1> QED
  BY <1>1, <1>2, <1>3

\* An input pass starts at the first MCU.
LEMMA StartInputFacts ==
    ASSUME NEW i \in Input
    PROVE  LET j == Calls!start_input_pass(i)
           IN  /\ j \in Input /\ j.consume = "data" /\ j.row = 0 /\ j.ctr = 0
               /\ j.inheaders = i.inheaders /\ j.scan = i.scan
               /\ j.eoi = i.eoi /\ j.multi = i.multi /\ j.lost = i.lost
               /\ j.sof = i.sof
BY Members DEF Calls!start_input_pass, Input

\* The controller behind an MCU.
LEMMA NextMCUFacts ==
    ASSUME NEW i \in Input, NEW b \in BOOLEAN
    PROVE  LET j == [Calls!NextMCU(i) EXCEPT !.lost = @ \/ b]
           IN  /\ j \in Input
               /\ j.inheaders = i.inheaders /\ j.scan = i.scan
               /\ j.eoi = i.eoi /\ j.multi = i.multi /\ j.sof = i.sof
               /\ j.lost <=> i.lost \/ b
               /\ j.row = IF i.ctr + 1 < Cols THEN i.row ELSE i.row + 1
               /\ j.ctr = IF i.ctr + 1 < Cols THEN i.ctr + 1 ELSE 0
               /\ j.consume = IF i.ctr + 1 < Cols \/ i.row + 1 < Rows
                              THEN i.consume ELSE "markers"
<1> DEFINE k == Calls!NextMCU(i)
           j == [k EXCEPT !.lost = @ \/ b]
           way == IF i.row + 1 < Rows THEN i.consume ELSE "markers"
<1>1. /\ i.ctr + 1 \in Nat /\ i.row + 1 \in Nat /\ i.consume \in Ways
      /\ 0 \in Nat
  BY DEF Input
<1>2. way \in Ways
  BY <1>1, Members
<1>3. CASE i.ctr + 1 < Cols
  <2>1. k = [i EXCEPT !.ctr = i.ctr + 1]
    BY <1>3 DEF Calls!NextMCU
  <2>2. /\ k \in Input /\ k.inheaders = i.inheaders /\ k.scan = i.scan
        /\ k.eoi = i.eoi /\ k.multi = i.multi /\ k.lost = i.lost
        /\ k.sof = i.sof
        /\ k.row = i.row /\ k.ctr = i.ctr + 1 /\ k.consume = i.consume
    BY <1>1, <2>1 DEF Input
  <2> HIDE DEF k
  <2>3. (k.lost \/ b) \in BOOLEAN
    OBVIOUS
  <2>4. /\ j \in Input /\ j.inheaders = k.inheaders /\ j.scan = k.scan
        /\ j.eoi = k.eoi /\ j.multi = k.multi /\ j.sof = k.sof
        /\ j.row = k.row /\ j.ctr = k.ctr /\ j.consume = k.consume
        /\ j.lost = (k.lost \/ b)
    BY <2>2, <2>3 DEF Input
  <2> QED
    BY <1>3, <2>2, <2>4 DEF k
<1>4. CASE ~(i.ctr + 1 < Cols)
  <2>1. k = [i EXCEPT !.ctr = 0, !.row = i.row + 1, !.consume = way]
    BY <1>4 DEF Calls!NextMCU
  <2> HIDE DEF way
  <2>2. /\ k \in Input /\ k.inheaders = i.inheaders /\ k.scan = i.scan
        /\ k.eoi = i.eoi /\ k.multi = i.multi /\ k.lost = i.lost
        /\ k.sof = i.sof
        /\ k.row = i.row + 1 /\ k.ctr = 0 /\ k.consume = way
    BY <1>1, <1>2, <2>1 DEF Input
  <2> HIDE DEF k
  <2>3. (k.lost \/ b) \in BOOLEAN
    OBVIOUS
  <2>4. /\ j \in Input /\ j.inheaders = k.inheaders /\ j.scan = k.scan
        /\ j.eoi = k.eoi /\ j.multi = k.multi /\ j.sof = k.sof
        /\ j.row = k.row /\ j.ctr = k.ctr /\ j.consume = k.consume
        /\ j.lost = (k.lost \/ b)
    BY <2>2, <2>3 DEF Input
  <2> QED
    BY <1>4, <2>2, <2>4 DEF k, way
<1> QED
  BY <1>3, <1>4

\* The output side at the start of a pass.
LEMMA PreparedFacts ==
    ASSUME NEW o \in Side, NEW smooth \in BOOLEAN
    PROVE  LET p == Calls!Prepared(o, smooth)
           IN  /\ p \in Side
               /\ p.scan = o.scan /\ p.line = 0 /\ p.held = o.held
               /\ o.dummy => /\ ~p.dummy /\ p.crank
                             /\ p.row = o.row /\ p.left = o.left
               /\ ~o.dummy => /\ ~p.crank /\ p.row = 0 /\ p.left = 0
                              /\ (p.dummy => opts.twoPass)
<1> DEFINE p == Calls!Prepared(o, smooth)
           new == opts.twoPass /\ ~o.colormap
<1>1. CASE o.dummy
  <2>1. p = [o EXCEPT !.dummy = FALSE, !.crank = TRUE, !.line = 0]
    BY <1>1 DEF Calls!Prepared
  <2> HIDE DEF p
  <2>2. p \in Side
    BY <2>1 DEF Side
  <2>3. p.scan = o.scan /\ p.line = 0 /\ p.held = o.held
    BY <2>1 DEF Side
  <2>4. p.row = o.row /\ p.left = o.left /\ ~p.dummy /\ p.crank
    BY <2>1 DEF Side
  <2> QED
    BY <1>1, <2>2, <2>3, <2>4 DEF p
<1>2. CASE ~o.dummy
  <2>1. p = [o EXCEPT !.dummy = new, !.crank = FALSE, !.row = 0, !.line = 0,
                      !.left = 0, !.smooth = smooth]
    BY <1>2 DEF Calls!Prepared
  <2>2. new \in BOOLEAN /\ FALSE \in BOOLEAN /\ 0 \in Nat /\ 0 \in Int
    OBVIOUS
  <2> HIDE DEF new
  <2> HIDE DEF p
  <2>3. p \in Side
    BY <2>1, <2>2 DEF Side
  <2>4. p.scan = o.scan /\ p.line = 0 /\ p.held = o.held
    BY <2>1 DEF Side
  <2>5. p.row = 0 /\ p.left = 0 /\ ~p.crank
    BY <2>1 DEF Side
  <2>6. p.dummy = new
    BY <2>1 DEF Side
  <2>7. p.dummy => opts.twoPass
    BY <2>6 DEF new
  <2> QED
    BY <1>2, <2>3, <2>4, <2>5, <2>7 DEF p
<1> QED
  BY <1>1, <1>2

-----------------------------------------------------------------------------
(* Input: the part of the invariant that consume_input keeps.              *)

\* The MCUs of the current scan that have been decoded.
Decoded == in.row * Cols + in.ctr

\* Whether the current scan has brought the MCU at a place.
Brought(r, c) ==
    \/ in.consume = "markers"
    \/ r < in.row
    \/ r = in.row /\ c < in.ctr

\* Places in the file and in the image.
InputTypes ==
    /\ file \in ImageFiles /\ in \in Input
    /\ pos \in 0..avail /\ avail \in 0..Len(file)
    /\ in.row \in 0..Rows /\ in.ctr \in 0..(Cols - 1)
    /\ in.consume = "data" => in.row < Rows
    /\ coef \in [0..(Rows - 1) -> [0..(Cols - 1) -> Int]]
    /\ Calls!NothingLost

\* Where markers are looked for there is one, in an intact file.
AtMarker == Calls!Intact /\ pos < Len(file) => file[pos + 1] # "MCU"

\* While the header is read, when it has been, and from then on.
HeaderInv ==
    /\ in.consume = "markers" /\ in.inheaders # 0 /\ in.scan = 0
    /\ in.eoi => pos \in Calls!Images
    /\ AtMarker
ReadyInv ==
    /\ in.inheaders = 0 /\ in.scan = 1 /\ ~in.eoi /\ in.sof # "none"
    /\ pos > 0 /\ file[pos] = "SOS"
ScanInv ==
    /\ in.inheaders = 0 /\ in.sof # "none"
    /\ in.eoi => in.consume = "markers" /\ pos \in Calls!Images
    /\ in.consume = "markers" => AtMarker
    /\ in.consume = "data" /\ Calls!Intact =>
         pos - Decoded >= 1 /\ file[pos - Decoded] = "SOS"
    /\ \A r \in 0..(Rows - 1), c \in 0..(Cols - 1) :
         coef[r][c] = IF Brought(r, c) THEN in.scan ELSE in.scan - 1

\* The file as a sequence.
LEMMA FileFacts ==
    ASSUME file \in ImageFiles
    PROVE  Len(file) \in Nat /\ DOMAIN file = 1..Len(file)
BY CallFacts

\* In an intact file no MCU follows a token that is neither in a scan nor
\* starts one.
LEMMA AfterOther ==
    ASSUME file \in ImageFiles, Calls!Intact, NEW i \in 1..Len(file),
           file[i] # "MCU", file[i] # "SOS", i < Len(file)
    PROVE  file[i + 1] # "MCU"
<1> DEFINE size == Rows * Cols
<1>1. size \in Nat /\ Len(file) \in Nat /\ i \in Nat
  BY CallFacts, FileFacts
<1>2. \A j \in 1..Len(file) :
        file[j] = "MCU" <=> \E k \in 1..size : k < j /\ file[j - k] = "SOS"
  BY DEF Calls!Intact
<1> HIDE DEF size
<1>3. SUFFICES ASSUME NEW k \in 1..size, k < i + 1, file[i + 1 - k] = "SOS"
               PROVE  FALSE
  BY <1>1, <1>2
<1>4. CASE k = 1
  BY <1>1, <1>3, <1>4
<1>5. CASE k > 1
  <2>1. k - 1 \in 1..size /\ k - 1 < i /\ i - (k - 1) = i + 1 - k
    BY <1>1, <1>3, <1>5
  <2> QED
    BY <1>1, <1>2, <1>3, <2>1
<1> QED
  BY <1>4, <1>5

\* In an intact file the MCUs of a scan follow its SOS, and nothing but a
\* marker follows the last.
LEMMA AfterSOS ==
    ASSUME file \in ImageFiles, Calls!Intact, NEW s \in 1..Len(file),
           file[s] = "SOS", NEW n \in Nat, s + n + 1 <= Len(file)
    PROVE  /\ n < Rows * Cols => file[s + n + 1] = "MCU"
           /\ n = Rows * Cols => file[s + n + 1] # "MCU"
<1> DEFINE size == Rows * Cols
<1>1. size \in Nat /\ Len(file) \in Nat /\ s \in Nat
  BY CallFacts, FileFacts
<1>2. \A j \in 1..Len(file) :
        file[j] = "MCU" <=> \E k \in 1..size : k < j /\ file[j - k] = "SOS"
  BY DEF Calls!Intact
<1> HIDE DEF size
<1>3. ASSUME NEW m \in Nat, m < size, s + m + 1 <= Len(file)
      PROVE  file[s + m + 1] = "MCU"
  <2>1. /\ m + 1 \in 1..size /\ m + 1 < s + m + 1
        /\ s + m + 1 - (m + 1) = s /\ s + m + 1 \in 1..Len(file)
    BY <1>1, <1>3
  <2> QED
    BY <1>2, <2>1
<1>4. ASSUME n = size PROVE file[s + n + 1] # "MCU"
  <2>1. SUFFICES ASSUME NEW k \in 1..size, file[s + n + 1 - k] = "SOS"
                 PROVE  FALSE
    <3> s + n + 1 \in 1..Len(file)
      BY <1>1
    <3> QED
      BY <1>2
  <2> DEFINE m == n - k
  <2>2. m \in Nat /\ m < size /\ s + m + 1 = s + n + 1 - k
        /\ s + m + 1 <= Len(file)
    BY <1>1, <1>4, <2>1
  <2> HIDE DEF m
  <2> QED
    BY <1>3, <2>1, <2>2
<1> QED
  BY <1>3, <1>4 DEF size

\* Markers are looked for at the start of a file and behind an EOI.
LEMMA ImagesAtMarker ==
    ASSUME file \in ImageFiles, pos \in Calls!Images
    PROVE  AtMarker
<1> SUFFICES ASSUME Calls!Intact, pos < Len(file)
             PROVE  file[pos + 1] # "MCU"
  BY DEF AtMarker
<1>1. pos = 0 \/ (pos \in 1..Len(file) /\ file[pos] = "EOI")
                   \/ pos = Len(file)
  BY DEF Calls!Images
<1>2. CASE pos = 0
  <2>1. 1 \in 1..Len(file) /\ Rows * Cols \in Nat
    BY <1>2, FileFacts, CallFacts
  <2>2. ~ \E k \in 1..(Rows * Cols) : k < 1 /\ file[1 - k] \in {"SOS"}
    BY <2>1
  <2> QED
    BY <1>2, <2>1, <2>2 DEF Calls!Intact
<1>3. CASE pos \in 1..Len(file) /\ file[pos] = "EOI"
  BY <1>3, AfterOther
<1>4. pos # Len(file)
  BY FileFacts
<1> QED
  BY <1>1, <1>2, <1>3, <1>4

\* Behind a token that is no SOS, markers may be looked for again.
LEMMA NextAtMarker ==
    ASSUME file \in ImageFiles, AtMarker, pos \in Nat, pos < Len(file),
           file[pos + 1] # "SOS", pos' = pos + 1, file' = file
    PROVE  AtMarker'
<1> SUFFICES ASSUME Calls!Intact', pos' < Len(file')
             PROVE  file'[pos' + 1] # "MCU"
  BY DEF AtMarker
<1>1. Calls!Intact
  BY DEF Calls!Intact
<1>2. pos + 1 \in 1..Len(file) /\ file[pos + 1] # "MCU"
  BY <1>1, FileFacts DEF AtMarker
<1> QED
  BY <1>1, <1>2, AfterOther

\* One field of the input controller changes.
LEMMA SetFacts ==
    ASSUME NEW i \in Input
    PROVE  /\ \A v \in BOOLEAN :
                LET j == [i EXCEPT !.eoi = v]
                IN  /\ j \in Input /\ j.eoi = v
                    /\ j.consume = i.consume /\ j.inheaders = i.inheaders
                    /\ j.multi = i.multi /\ j.sof = i.sof /\ j.scan = i.scan
                    /\ j.row = i.row /\ j.ctr = i.ctr /\ j.lost = i.lost
           /\ \A v \in FrameKinds :
                LET j == [i EXCEPT !.sof = v]
                IN  /\ j \in Input /\ j.eoi = i.eoi
                    /\ j.consume = i.consume /\ j.inheaders = i.inheaders
                    /\ j.multi = i.multi /\ j.sof = v /\ j.scan = i.scan
                    /\ j.row = i.row /\ j.ctr = i.ctr /\ j.lost = i.lost
           /\ LET j == [i EXCEPT !.scan = @ + 1]
              IN  /\ j \in Input /\ j.eoi = i.eoi
                  /\ j.consume = i.consume /\ j.inheaders = i.inheaders
                  /\ j.multi = i.multi /\ j.sof = i.sof
                  /\ j.scan = i.scan + 1
                  /\ j.row = i.row /\ j.ctr = i.ctr /\ j.lost = i.lost
<1>1. i.scan + 1 \in Nat
  BY DEF Input
<1>2. ASSUME NEW v \in BOOLEAN
      PROVE  LET j == [i EXCEPT !.eoi = v]
             IN  /\ j \in Input /\ j.eoi = v
                 /\ j.consume = i.consume /\ j.inheaders = i.inheaders
                 /\ j.multi = i.multi /\ j.sof = i.sof /\ j.scan = i.scan
                 /\ j.row = i.row /\ j.ctr = i.ctr /\ j.lost = i.lost
  BY DEF Input
<1>3. ASSUME NEW v \in FrameKinds
      PROVE  LET j == [i EXCEPT !.sof = v]
             IN  /\ j \in Input /\ j.eoi = i.eoi
                 /\ j.consume = i.consume /\ j.inheaders = i.inheaders
                 /\ j.multi = i.multi /\ j.sof = v /\ j.scan = i.scan
                 /\ j.row = i.row /\ j.ctr = i.ctr /\ j.lost = i.lost
  BY DEF Input
<1>4. LET j == [i EXCEPT !.scan = i.scan + 1]
      IN  /\ j \in Input /\ j.eoi = i.eoi
          /\ j.consume = i.consume /\ j.inheaders = i.inheaders
          /\ j.multi = i.multi /\ j.sof = i.sof /\ j.scan = i.scan + 1
          /\ j.row = i.row /\ j.ctr = i.ctr /\ j.lost = i.lost
  BY <1>1 DEF Input
<1> QED
  BY <1>2, <1>3, <1>4

\* The first SOS of an image, or a scan of no component before it.
LEMMA FirstSOSFacts ==
    ASSUME NEW i \in Input, NEW n \in Headers
    PROVE  LET j == [Calls!FirstSOS(i) EXCEPT !.inheaders = n]
           IN  /\ j \in Input /\ j.inheaders = n
               /\ j.consume = i.consume /\ j.scan = i.scan
               /\ j.row = i.row /\ j.ctr = i.ctr /\ j.sof = i.sof
               /\ j.eoi = i.eoi /\ j.lost = i.lost
<1> DEFINE m == IF i.inheaders = 1 THEN i.sof = "SOFM" ELSE i.multi
           k == Calls!FirstSOS(i)
           j == [k EXCEPT !.inheaders = n]
<1>1. m \in BOOLEAN
  BY DEF Input
<1>2. k = [i EXCEPT !.multi = m]
  BY DEF Calls!FirstSOS
<1> HIDE DEF m, k
<1>3. /\ k \in Input
      /\ k.consume = i.consume /\ k.scan = i.scan
      /\ k.row = i.row /\ k.ctr = i.ctr /\ k.sof = i.sof
      /\ k.eoi = i.eoi /\ k.lost = i.lost
  BY <1>1, <1>2 DEF Input
<1>4. /\ j \in Input /\ j.inheaders = n
      /\ j.consume = k.consume /\ j.scan = k.scan
      /\ j.row = k.row /\ j.ctr = k.ctr /\ j.sof = k.sof
      /\ j.eoi = k.eoi /\ j.lost = k.lost
  BY <1>3 DEF Input
<1> QED
  BY <1>3, <1>4 DEF k

\* One step that reads a token: where it leaves the place in the file.
LEMMA PlaceMoves ==
    ASSUME InputTypes, ~Calls!Empty, pos' = pos + 1, UNCHANGED <<file, avail>>
    PROVE  /\ pos \in Nat /\ pos < Len(file) /\ pos + 1 \in 1..Len(file)
           /\ pos' \in 0..avail' /\ avail' \in 0..Len(file')
           /\ file' \in ImageFiles
           /\ Calls!Intact' = Calls!Intact
<1>1. pos \in 0..avail /\ avail \in 0..Len(file) /\ pos # avail
      /\ Len(file) \in Nat /\ file \in ImageFiles
  BY FileFacts DEF InputTypes, Calls!Empty
<1>2. Calls!Intact' = Calls!Intact
  BY DEF Calls!Intact
<1> QED
  BY <1>1, <1>2

\* What a token that is an EOI means for the place behind it.
LEMMA BehindEOI ==
    ASSUME file' = file, pos + 1 \in 1..Len(file), file[pos + 1] = "EOI",
           pos' = pos + 1
    PROVE  (pos \in Calls!Images)'
BY DEF Calls!Images

\* A step in the header: it goes on, or the image is ready, or there is none.
LEMMA ConsumeHeader ==
    ASSUME InputTypes, HeaderInv, NEW ret, Calls!consume_input(ret),
           UNCHANGED <<file, avail>>
    PROVE  /\ InputTypes' /\ UNCHANGED <<coef, out>>
           /\ ret = "SOS" => ReadyInv'
           /\ ret = "EOI" => (pos \in Calls!Images)'
           /\ ret \notin {"SOS", "error"} => HeaderInv'
<1>1. Calls!consume_markers(ret)
  BY DEF Calls!consume_input, Calls!consume_data, Calls!decode_mcu, HeaderInv
<1>2. /\ in \in Input /\ in.consume = "markers" /\ in.inheaders # 0
      /\ in.scan = 0 /\ AtMarker /\ (in.eoi => pos \in Calls!Images)
      /\ file \in ImageFiles
  BY DEF InputTypes, HeaderInv
<1>3. UNCHANGED coef
  BY <1>1 DEF Calls!consume_markers
<1>4. CASE UNCHANGED <<pos, in, out>> /\ ret \notin {"SOS", "error"}
           /\ (ret = "EOI" => in.eoi)
  <2>1. InputTypes' /\ HeaderInv'
    BY <1>3, <1>4
       DEF InputTypes, HeaderInv, AtMarker, Calls!NothingLost, Calls!Intact,
           Calls!Images
  <2>2. ret = "EOI" => (pos \in Calls!Images)'
    BY <1>2, <1>4 DEF Calls!Images
  <2> QED
    BY <1>3, <1>4, <2>1, <2>2
<1>5. CASE /\ ~in.eoi /\ ~Calls!Empty /\ pos' = pos + 1
           /\ \/ file[pos + 1] = "EOI" /\ Calls!ReachEOI(ret)
              \/ file[pos + 1] = "SOS" /\ Calls!ReachSOS(ret)
              \/ /\ ret = "more" /\ UNCHANGED out
                 /\ \/ file[pos + 1] = "PSOS" /\ Calls!ReachPseudoSOS
                    \/ /\ file[pos + 1] \in {"SOF1", "SOFM"}
                       /\ in' = [in EXCEPT !.sof = file[pos + 1]]
                    \/ file[pos + 1] = "DQT" /\ in' = in
                    \/ /\ file[pos + 1] = "MCU"
                       /\ in' = [in EXCEPT !.lost = TRUE]
  <2>1. /\ pos \in Nat /\ pos < Len(file) /\ pos + 1 \in 1..Len(file)
        /\ pos' \in 0..avail' /\ avail' \in 0..Len(file')
        /\ file' \in ImageFiles /\ Calls!Intact' = Calls!Intact
    BY <1>5, PlaceMoves
  <2> DEFINE same == /\ in'.row = in.row /\ in'.ctr = in.ctr
                     /\ in'.consume = in.consume /\ in'.lost = in.lost
  <2>2. ASSUME in' \in Input, same PROVE InputTypes'
    BY <1>3, <2>1, <2>2 DEF InputTypes, Calls!NothingLost
  <2>3. file[pos + 1] # "SOS" => AtMarker'
    BY <1>2, <1>5, <2>1, NextAtMarker
  <2>4. ASSUME in' \in Input, same, in'.inheaders # 0, in'.scan = 0, ~in'.eoi,
               file[pos + 1] # "SOS"
        PROVE  HeaderInv'
    BY <1>2, <2>3, <2>4 DEF HeaderInv
  <2>5. CASE file[pos + 1] = "EOI" /\ Calls!ReachEOI(ret)
    <3>1. in' = [in EXCEPT !.eoi = TRUE] /\ out' = out
          /\ ret \in {"error", "EOI"}
      BY <1>2, <2>5 DEF Calls!ReachEOI
    <3>2. in' \in Input /\ same /\ in'.inheaders = in.inheaders
          /\ in'.scan = in.scan
      BY <1>2, <3>1, SetFacts
    <3>3. (pos \in Calls!Images)'
      BY <1>5, <2>1, <2>5, BehindEOI
    <3>4. HeaderInv'
      BY <1>2, <2>3, <2>5, <3>2, <3>3 DEF HeaderInv
    <3> QED
      BY <1>3, <2>2, <3>1, <3>2, <3>3, <3>4
  <2>6. CASE file[pos + 1] = "SOS" /\ Calls!ReachSOS(ret)
    <3> DEFINE i == [in EXCEPT !.scan = @ + 1]
    <3>1. i \in Input /\ i.eoi = in.eoi /\ i.consume = in.consume
          /\ i.sof = in.sof /\ i.scan = in.scan + 1 /\ i.row = in.row
          /\ i.ctr = in.ctr /\ i.lost = in.lost
      BY <1>2, SetFacts
    <3>2. CASE in.sof = "none"
      <4>1. ret = "error" /\ in' = in /\ out' = out
        BY <1>2, <2>6, <3>2 DEF Calls!ReachSOS
      <4> QED
        BY <1>2, <1>3, <2>2, <4>1
    <3>3. CASE in.sof # "none"
      <4>1. /\ ret = "SOS" /\ out' = out
            /\ in' = [Calls!FirstSOS(i) EXCEPT !.inheaders = 0]
        BY <1>2, <2>6, <3>3 DEF Calls!ReachSOS
      <4> HIDE DEF i
      <4>2. /\ in' \in Input /\ in'.inheaders = 0
            /\ in'.consume = i.consume /\ in'.scan = i.scan
            /\ in'.row = i.row /\ in'.ctr = i.ctr /\ in'.sof = i.sof
            /\ in'.eoi = i.eoi /\ in'.lost = i.lost
        BY <3>1, <4>1, FirstSOSFacts, Members
      <4>3. in' \in Input /\ same /\ in'.inheaders = 0 /\ in'.scan = 1
            /\ in'.sof = in.sof /\ in'.eoi = in.eoi
        BY <1>2, <3>1, <4>2
      <4>4. ReadyInv'
        <5>1. (pos > 0 /\ file[pos] = "SOS")'
          BY <1>5, <2>1, <2>6
        <5>2. ~in'.eoi
          BY <1>5, <4>3
        <5> QED
          BY <3>3, <4>3, <5>1, <5>2 DEF ReadyInv
      <4> QED
        BY <1>3, <2>2, <4>1, <4>3, <4>4
    <3> QED
      BY <3>2, <3>3
  <2>7. CASE ret = "more" /\ out' = out /\ file[pos + 1] = "PSOS"
             /\ Calls!ReachPseudoSOS
    <3>1. in' = [Calls!FirstSOS(in) EXCEPT !.inheaders = 2]
      BY <1>2, <2>7 DEF Calls!ReachPseudoSOS
    <3>2. in' \in Input /\ same /\ in'.inheaders = 2 /\ in'.scan = in.scan
          /\ in'.eoi = in.eoi
      BY <1>2, <3>1, FirstSOSFacts, Members
    <3>3. HeaderInv'
      BY <1>2, <1>5, <2>4, <2>7, <3>2
    <3> QED
      BY <1>3, <2>2, <2>7, <3>2, <3>3
  <2>8. CASE ret = "more" /\ out' = out /\ file[pos + 1] \in {"SOF1", "SOFM"}
             /\ in' = [in EXCEPT !.sof = file[pos + 1]]
    <3>1. file[pos + 1] \in FrameKinds
      BY <2>8, Members
    <3>2. in' \in Input /\ same /\ in'.inheaders = in.inheaders
          /\ in'.scan = in.scan /\ in'.eoi = in.eoi
      BY <1>2, <2>8, <3>1, SetFacts
    <3>3. HeaderInv'
      BY <1>2, <1>5, <2>4, <2>8, <3>2
    <3> QED
      BY <1>3, <2>2, <2>8, <3>2, <3>3
  <2>9. CASE ret = "more" /\ out' = out /\ file[pos + 1] = "DQT" /\ in' = in
    <3>1. HeaderInv'
      BY <1>2, <1>5, <2>4, <2>9
    <3> QED
      BY <1>2, <1>3, <2>2, <2>9, <3>1
  <2>10. CASE ret = "more" /\ out' = out /\ file[pos + 1] = "MCU"
              /\ in' = [in EXCEPT !.lost = TRUE]
    <3>1. /\ in' \in Input /\ in'.row = in.row /\ in'.ctr = in.ctr
          /\ in'.consume = in.consume /\ in'.inheaders = in.inheaders
          /\ in'.scan = in.scan /\ in'.eoi = in.eoi
      BY <1>2, <2>10 DEF Input
    <3>2. ~Calls!Intact
      BY <1>2, <2>1, <2>10 DEF AtMarker
    <3>3. InputTypes'
      BY <1>3, <2>1, <3>1, <3>2 DEF InputTypes, Calls!NothingLost
    <3>4. AtMarker'
      BY <2>1, <3>2 DEF AtMarker
    <3>5. HeaderInv'
      BY <1>2, <1>5, <3>1, <3>4 DEF HeaderInv
    <3> QED
      BY <1>3, <2>10, <3>3, <3>5
  <2> QED
    BY <1>5, <2>5, <2>6, <2>7, <2>8, <2>9, <2>10
<1> QED
  <2>1. \/ in.eoi /\ ret = "EOI" /\ UNCHANGED <<pos, in, out>>
        \/ ~in.eoi /\ ret = "SUSPENDED" /\ UNCHANGED <<pos, in, out>>
        \/ /\ ~in.eoi /\ ~Calls!Empty /\ pos' = pos + 1
           /\ \/ file[pos + 1] = "EOI" /\ Calls!ReachEOI(ret)
              \/ file[pos + 1] = "SOS" /\ Calls!ReachSOS(ret)
              \/ /\ ret = "more" /\ UNCHANGED out
                 /\ \/ file[pos + 1] = "PSOS" /\ Calls!ReachPseudoSOS
                    \/ /\ file[pos + 1] \in {"SOF1", "SOFM"}
                       /\ in' = [in EXCEPT !.sof = file[pos + 1]]
                    \/ file[pos + 1] = "DQT" /\ in' = in
                    \/ /\ file[pos + 1] = "MCU"
                       /\ in' = [in EXCEPT !.lost = TRUE]
    BY <1>1 DEF Calls!consume_markers, Calls!Token
  <2> QED
    BY <1>4, <1>5, <2>1

\* The MCUs up to a place are fewer than those of a scan.
LEMMA DecodedFacts ==
    ASSUME NEW r \in Nat, NEW c \in Nat, r < Rows, c < Cols
    PROVE  /\ r * Cols + c \in Nat /\ r * Cols + c < Rows * Cols
           /\ (r + 1) * Cols + 0 = r * Cols + Cols
           /\ r + 1 = Rows => r * Cols + Cols = Rows * Cols
<1>1. Rows \in Nat /\ Cols \in Nat
  BY CallFacts
<1> DEFINE x == r * Cols
           gap == Rows - (r + 1)
           y == gap * Cols
<1>2. x \in Nat /\ gap \in Nat /\ (r + 1) * Cols = x + Cols
  BY <1>1
<1>3. y \in Nat /\ Rows * Cols = y + (r + 1) * Cols
  <2>1. Rows = gap + (r + 1)
    BY <1>1
  <2> HIDE DEF gap
  <2>2. (gap + (r + 1)) * Cols = gap * Cols + (r + 1) * Cols
    BY <1>1, <1>2
  <2> QED
    BY <1>1, <1>2, <2>1, <2>2
<1>4. r + 1 = Rows => (r + 1) * Cols = Rows * Cols
  OBVIOUS
<1> HIDE DEF x, y, gap
<1> QED
  BY <1>1, <1>2, <1>3, <1>4 DEF x

\* An MCU is decoded, or made up: the place in the scan moves on with the
\* place in the file, and the coefficients come from this scan.
LEMMA DecodeMCU ==
    ASSUME InputTypes, ScanInv, NEW ret, Calls!decode_mcu(ret),
           UNCHANGED <<file, avail>>
    PROVE  /\ InputTypes' /\ ScanInv'
           /\ in'.scan = in.scan /\ in'.multi = in.multi /\ ~in'.eoi
           /\ in.consume = "data"
           /\ \/ ret = "SUSPENDED" /\ UNCHANGED <<pos, in, coef>>
              \/ ret = "more" /\ in'.row = in.row /\ in'.consume = "data"
              \/ /\ ret \in {"ROW", "SCAN"} /\ in'.row = in.row + 1
                 /\ in.row < Rows
                 /\ \A c \in 0..(Cols - 1) : coef'[in.row][c] = in.scan
<1>1. /\ in \in Input /\ in.consume = "data" /\ ~in.eoi
      /\ in.inheaders = 0 /\ in.sof # "none" /\ file \in ImageFiles
      /\ in.row \in Nat /\ in.row < Rows /\ in.ctr \in Nat /\ in.ctr < Cols
      /\ Rows \in Nat /\ Cols \in Nat /\ in.scan \in Int
      /\ pos \in 0..avail /\ avail \in 0..Len(file) /\ Len(file) \in Nat
  BY CallFacts, FileFacts
     DEF InputTypes, ScanInv, Calls!decode_mcu, Input
<1>2. CASE Calls!Empty
  <2>1. ret = "SUSPENDED" /\ UNCHANGED <<pos, in, coef>>
    BY <1>2 DEF Calls!decode_mcu
  <2>2. InputTypes'
    BY <2>1 DEF InputTypes, Calls!NothingLost, Calls!Intact
  <2>3. ScanInv'
    BY <2>1 DEF ScanInv, AtMarker, Decoded, Brought, Calls!Intact,
                Calls!Images
  <2> QED
    BY <1>1, <2>1, <2>2, <2>3
<1>3. CASE ~Calls!Empty
  <2> DEFINE made == file[pos + 1] # "MCU"
             s == pos - Decoded
             more == in.ctr + 1 < Cols
  <2>1. /\ pos' = IF file[pos + 1] = "MCU" THEN pos + 1 ELSE pos
        /\ coef' = [coef EXCEPT ![in.row][in.ctr] = in.scan]
        /\ in' = [Calls!NextMCU(in) EXCEPT !.lost = @ \/ made]
        /\ ret = IF more THEN "more"
                 ELSE IF in.row + 1 < Rows THEN "ROW" ELSE "SCAN"
    BY <1>3 DEF Calls!decode_mcu, Calls!Token
  <2>2. made \in BOOLEAN
    OBVIOUS
  <2> HIDE DEF made
  <2>3. /\ in' \in Input
        /\ in'.inheaders = in.inheaders /\ in'.scan = in.scan
        /\ in'.eoi = in.eoi /\ in'.multi = in.multi /\ in'.sof = in.sof
        /\ (in'.lost <=> in.lost \/ made)
        /\ in'.row = IF more THEN in.row ELSE in.row + 1
        /\ in'.ctr = IF more THEN in.ctr + 1 ELSE 0
        /\ in'.consume = IF more \/ in.row + 1 < Rows THEN in.consume
                         ELSE "markers"
    BY <1>1, <2>1, <2>2, NextMCUFacts
  <2>4. /\ Decoded \in Nat /\ Decoded < Rows * Cols
        /\ in'.consume = "data" => Decoded' = Decoded + 1
        /\ in'.consume = "markers" => Decoded + 1 = Rows * Cols
    <3>1. /\ Decoded \in Nat /\ Decoded < Rows * Cols
          /\ (in.row + 1) * Cols + 0 = in.row * Cols + Cols
          /\ in.row + 1 = Rows => in.row * Cols + Cols = Rows * Cols
      BY <1>1, DecodedFacts DEF Decoded
    <3>2. CASE more
      <4>1. Decoded' = in.row * Cols + (in.ctr + 1)
        BY <2>3, <3>2 DEF Decoded
      <4>2. Decoded' = Decoded + 1
        <5> DEFINE x == in.row * Cols
        <5>1. x \in Nat /\ Decoded = x + in.ctr /\ Decoded' = x + (in.ctr + 1)
          BY <1>1, <4>1 DEF Decoded
        <5> HIDE DEF x
        <5> QED
          BY <1>1, <5>1
      <4> QED
        BY <1>1, <2>3, <3>1, <3>2, <4>2
    <3>3. CASE ~more
      <4>1. Decoded' = (in.row + 1) * Cols + 0
        BY <2>3, <3>3 DEF Decoded
      <4>2. Decoded + 1 = in.row * Cols + Cols
        <5> DEFINE x == in.row * Cols
        <5>1. x \in Nat /\ Decoded = x + in.ctr /\ in.ctr + 1 = Cols
          BY <1>1, <3>3 DEF Decoded
        <5> HIDE DEF x
        <5>2. Decoded + 1 = x + Cols
          BY <1>1, <5>1
        <5> QED
          BY <5>2 DEF x
      <4>3. in'.consume = "markers" => in.row + 1 = Rows
        BY <1>1, <2>3, <3>3
      <4> QED
        BY <3>1, <4>1, <4>2, <4>3
    <3> QED
      BY <3>2, <3>3
  <2>5. Calls!Intact' = Calls!Intact /\ file' = file
    BY DEF Calls!Intact
  <2>6. pos \in Nat /\ pos < Len(file) /\ pos' \in 0..avail'
        /\ avail' \in 0..Len(file')
    BY <1>1, <1>3, <2>1 DEF Calls!Empty
  <2>7. ASSUME Calls!Intact
        PROVE  /\ s \in 1..Len(file) /\ file[s] = "SOS"
               /\ ~made /\ pos' = pos + 1 /\ s + Decoded = pos
               /\ in'.consume = "markers" => (AtMarker)'
    <3>1. s >= 1 /\ file[s] = "SOS"
      BY <1>1, <2>7 DEF ScanInv
    <3>2. s \in 1..Len(file) /\ s + Decoded = pos
      BY <1>1, <2>4, <2>6, <3>1
    <3> HIDE DEF s
    <3>3. s + Decoded + 1 = pos + 1 /\ pos + 1 <= Len(file)
      BY <2>4, <2>6, <3>2
    <3>4. file[pos + 1] = "MCU"
      BY <1>1, <2>4, <2>7, <3>1, <3>2, <3>3, AfterSOS
    <3>5. pos' = pos + 1 /\ ~made
      BY <2>1, <3>4 DEF made
    <3>6. ASSUME in'.consume = "markers", pos' < Len(file)
          PROVE  file[pos' + 1] # "MCU"
      <4>1. /\ Decoded + 1 \in Nat /\ Decoded + 1 = Rows * Cols
            /\ s + (Decoded + 1) + 1 = pos' + 1
            /\ s + (Decoded + 1) + 1 <= Len(file)
        BY <1>1, <2>4, <2>6, <3>2, <3>5, <3>6
      <4> QED
        BY <1>1, <2>7, <3>1, <3>2, <4>1, AfterSOS
    <3> QED
      BY <2>5, <3>1, <3>2, <3>5, <3>6 DEF AtMarker
  <2>8. InputTypes'
    <3>1. in'.row \in 0..Rows /\ in'.ctr \in 0..(Cols - 1)
          /\ (in'.consume = "data" => in'.row < Rows)
      BY <1>1, <2>3
    <3>2. coef' \in [0..(Rows - 1) -> [0..(Cols - 1) -> Int]]
      BY <1>1, <2>1 DEF InputTypes
    <3>3. Calls!Intact' => ~in'.lost
      BY <2>3, <2>5, <2>7 DEF InputTypes, Calls!NothingLost
    <3> QED
      BY <1>1, <2>3, <2>5, <2>6, <3>1, <3>2, <3>3
         DEF InputTypes, Calls!NothingLost
  <2>9. ASSUME NEW r \in 0..(Rows - 1), NEW c \in 0..(Cols - 1)
        PROVE  coef'[r][c] = IF Brought(r, c)' THEN in'.scan
                             ELSE in'.scan - 1
    <3>1. coef'[r][c] = IF r = in.row /\ c = in.ctr THEN in.scan
                        ELSE coef[r][c]
      BY <1>1, <2>1 DEF InputTypes
    <3>2. coef[r][c] = IF Brought(r, c) THEN in.scan ELSE in.scan - 1
      BY DEF ScanInv
    <3>3. Brought(r, c)' <=> Brought(r, c) \/ (r = in.row /\ c = in.ctr)
      <4>1. CASE more
        BY <1>1, <2>3, <4>1 DEF Brought
      <4>2. CASE ~more /\ in.row + 1 < Rows
        BY <1>1, <2>3, <4>2 DEF Brought
      <4>3. CASE ~more /\ ~(in.row + 1 < Rows)
        BY <1>1, <2>3, <4>3 DEF Brought
      <4> QED
        BY <4>1, <4>2, <4>3
    <3> QED
      BY <2>3, <3>1, <3>2, <3>3
  <2>10. ScanInv'
    <3>1. in'.consume = "data" /\ Calls!Intact' =>
            (pos - Decoded >= 1 /\ file[pos - Decoded] = "SOS")'
      <4> SUFFICES ASSUME in'.consume = "data", Calls!Intact
                   PROVE  pos' - Decoded' >= 1
                          /\ file'[pos' - Decoded'] = "SOS"
        BY <2>5
      <4>1. /\ s \in 1..Len(file) /\ file[s] = "SOS" /\ pos' = pos + 1
            /\ s + Decoded = pos /\ Decoded' = Decoded + 1
        BY <2>4, <2>7
      <4>2. pos' - Decoded' = s
        BY <1>1, <2>4, <4>1
      <4>3. s >= 1
        BY <4>1
      <4> QED
        BY <2>5, <4>1, <4>2, <4>3
    <3>2. in'.consume = "markers" => (AtMarker)'
      BY <2>5, <2>7 DEF AtMarker
    <3> QED
      BY <1>1, <2>3, <2>9, <3>1, <3>2 DEF ScanInv
  <2>11. CASE more
    BY <1>1, <2>1, <2>3, <2>8, <2>10, <2>11
  <2>12. CASE ~more
    <3>1. ASSUME NEW c \in 0..(Cols - 1) PROVE coef'[in.row][c] = in.scan
      <4>1. PICK r \in 0..(Rows - 1) : r = in.row
        BY <1>1
      <4>2. Brought(r, c)'
        BY <1>1, <2>3, <2>12, <4>1 DEF Brought
      <4> QED
        BY <2>3, <2>9, <4>1, <4>2
    <3>2. ret \in {"ROW", "SCAN"}
      BY <2>1, <2>12
    <3> QED
      BY <1>1, <2>3, <2>8, <2>10, <2>12, <3>1, <3>2
  <2> QED
    BY <2>11, <2>12
<1> QED
  BY <1>2, <1>3

\* The output side when the file ends.
LEMMA LimitFacts ==
    ASSUME NEW o \in Side, NEW i \in Input
    PROVE  LET p == Calls!Limit(o, i)
           IN  /\ p \in Side /\ p.scan <= i.scan
               /\ o.scan <= i.scan => p.scan = o.scan
               /\ p.row = o.row /\ p.line = o.line /\ p.dummy = o.dummy
               /\ p.colormap = o.colormap /\ p.smooth = o.smooth
               /\ p.crank = o.crank /\ p.left = o.left /\ p.held = o.held
<1> DEFINE p == Calls!Limit(o, i)
<1>1. i.scan \in Int /\ o.scan \in Int
  BY DEF Input, Side
<1>2. CASE o.scan > i.scan
  <2>1. p = [o EXCEPT !.scan = i.scan]
    BY <1>2 DEF Calls!Limit
  <2> HIDE DEF p
  <2>2. p \in Side
    BY <1>1, <2>1 DEF Side
  <2>3. p.scan = i.scan /\ p.row = o.row /\ p.line = o.line
    BY <2>1 DEF Side
  <2>4. p.dummy = o.dummy /\ p.colormap = o.colormap
    BY <2>1 DEF Side
  <2>5. p.smooth = o.smooth /\ p.crank = o.crank
    BY <2>1 DEF Side
  <2>6. p.left = o.left /\ p.held = o.held
    BY <2>1 DEF Side
  <2> QED
    BY <1>1, <1>2, <2>2, <2>3, <2>4, <2>5, <2>6 DEF p
<1>3. CASE ~(o.scan > i.scan)
  <2>1. p = o
    BY <1>3 DEF Calls!Limit
  <2> QED
    BY <1>1, <1>3, <2>1
<1> QED
  BY <1>2, <1>3

\* A step of input once decompression has started.
LEMMA ConsumeScan ==
    ASSUME InputTypes, ScanInv, NEW ret, Calls!consume_input(ret),
           UNCHANGED <<file, avail>>
    PROVE  /\ InputTypes'
           /\ ret # "error" => ScanInv'
           /\ in'.multi = in.multi
           /\ in.eoi => UNCHANGED <<in, coef, out>>
           /\ ret # "error" /\ ~in.multi /\ ~opts.buffered =>
                /\ in'.scan = in.scan /\ in'.row = in.row
                /\ in'.consume = in.consume
           /\ \/ out' = out /\ (in'.eoi <=> in.eoi)
              \/ out' = Calls!Limit(out, in) /\ in'.scan = in.scan
<1>1. /\ in \in Input /\ in.inheaders = 0 /\ in.sof # "none"
      /\ file \in ImageFiles
  BY DEF InputTypes, ScanInv
<1>2. CASE Calls!consume_data(ret)
  <2>1. out' = out
    BY <1>2 DEF Calls!consume_data
  <2>2. CASE in.multi \/ opts.buffered
    <3>1. Calls!decode_mcu(ret)
      BY <1>2, <2>2 DEF Calls!consume_data, Calls!UseCBuffer
    <3>2. /\ InputTypes' /\ ScanInv' /\ in.consume = "data"
          /\ in'.multi = in.multi /\ ~in'.eoi
      BY <3>1, DecodeMCU
    <3>3. ~in.eoi
      BY <3>2 DEF ScanInv
    <3> QED
      BY <2>1, <2>2, <3>2, <3>3
  <2>3. CASE ~in.multi /\ ~opts.buffered
    <3>1. UNCHANGED <<pos, in, coef>>
      BY <1>2, <2>3 DEF Calls!consume_data, Calls!UseCBuffer
    <3>2. InputTypes' /\ ScanInv'
      BY <3>1 DEF InputTypes, Calls!NothingLost, Calls!Intact, ScanInv,
                  AtMarker, Decoded, Brought, Calls!Images
    <3> QED
      BY <2>1, <3>1, <3>2
  <2> QED
    BY <2>2, <2>3
<1>3. CASE Calls!consume_markers(ret)
  <2>1. in.consume = "markers" /\ UNCHANGED coef /\ AtMarker
    BY <1>3 DEF Calls!consume_markers, ScanInv
  <2>2. CASE UNCHANGED <<pos, in, out>>
    <3>1. InputTypes' /\ ScanInv'
      BY <2>1, <2>2 DEF InputTypes, Calls!NothingLost, Calls!Intact, ScanInv,
                        AtMarker, Decoded, Brought, Calls!Images
    <3> QED
      BY <2>1, <2>2, <3>1
  <2>3. CASE /\ ~in.eoi /\ ~Calls!Empty /\ pos' = pos + 1
             /\ \/ file[pos + 1] = "EOI" /\ Calls!ReachEOI(ret)
                \/ file[pos + 1] = "SOS" /\ Calls!ReachSOS(ret)
                \/ /\ ret = "more" /\ UNCHANGED out
                   /\ \/ file[pos + 1] = "PSOS" /\ Calls!ReachPseudoSOS
                      \/ /\ file[pos + 1] \in {"SOF1", "SOFM"}
                         /\ in' = [in EXCEPT !.sof = file[pos + 1]]
                      \/ file[pos + 1] = "DQT" /\ in' = in
                      \/ /\ file[pos + 1] = "MCU"
                         /\ in' = [in EXCEPT !.lost = TRUE]
    <3>1. /\ pos \in Nat /\ pos < Len(file) /\ pos + 1 \in 1..Len(file)
          /\ pos' \in 0..avail' /\ avail' \in 0..Len(file')
          /\ file' \in ImageFiles /\ Calls!Intact' = Calls!Intact
      BY <2>3, PlaceMoves
    <3> DEFINE place == /\ in'.row = in.row /\ in'.ctr = in.ctr
                        /\ in'.consume = in.consume
               same == place /\ in'.lost = in.lost
    <3>2. ASSUME in' \in Input, same PROVE InputTypes'
      BY <2>1, <3>1, <3>2 DEF InputTypes, Calls!NothingLost
    <3>3. file[pos + 1] # "SOS" => AtMarker'
      BY <1>1, <2>1, <2>3, <3>1, NextAtMarker
    <3>4. ASSUME in' \in Input, place, in'.inheaders = 0, in'.scan = in.scan,
                 in'.sof # "none", in'.eoi => (pos \in Calls!Images)', AtMarker'
          PROVE  ScanInv'
      <4>1. ASSUME NEW r \in 0..(Rows - 1), NEW c \in 0..(Cols - 1)
            PROVE  coef'[r][c] = IF Brought(r, c)' THEN in'.scan
                                 ELSE in'.scan - 1
        BY <2>1, <3>4, <4>1 DEF ScanInv, Brought
      <4> QED
        BY <2>1, <3>4, <4>1 DEF ScanInv
    <3>5. CASE file[pos + 1] = "EOI" /\ Calls!ReachEOI(ret)
      <4>1. in' = [in EXCEPT !.eoi = TRUE] /\ out' = Calls!Limit(out, in)
        BY <1>1, <3>5 DEF Calls!ReachEOI
      <4>2. /\ in' \in Input /\ same /\ in'.inheaders = in.inheaders
            /\ in'.scan = in.scan /\ in'.sof = in.sof
            /\ in'.multi = in.multi
        BY <1>1, <4>1, SetFacts
      <4>3. (pos \in Calls!Images)'
        BY <2>3, <3>1, <3>5, BehindEOI
      <4>4. ScanInv'
        BY <1>1, <3>3, <3>4, <3>5, <4>2, <4>3
      <4> QED
        BY <2>3, <3>2, <4>1, <4>2, <4>4
    <3>6. CASE file[pos + 1] = "SOS" /\ Calls!ReachSOS(ret)
      <4> DEFINE i == [in EXCEPT !.scan = @ + 1]
      <4>1. i \in Input /\ i.eoi = in.eoi /\ i.consume = in.consume
            /\ i.sof = in.sof /\ i.scan = in.scan + 1 /\ i.row = in.row
            /\ i.ctr = in.ctr /\ i.lost = in.lost /\ i.multi = in.multi
            /\ i.inheaders = in.inheaders
        BY <1>1, SetFacts
      <4>2. CASE ~in.multi
        <5>1. ret = "error" /\ in' = i /\ out' = out
          BY <1>1, <3>6, <4>2 DEF Calls!ReachSOS
        <5> QED
          BY <2>3, <3>2, <4>1, <5>1
      <4>3. CASE in.multi
        <5>1. ret = "SOS" /\ in' = Calls!start_input_pass(i) /\ out' = out
          BY <1>1, <3>6, <4>3 DEF Calls!ReachSOS
        <5> HIDE DEF i
        <5>2. /\ in' \in Input /\ in'.consume = "data" /\ in'.row = 0
              /\ in'.ctr = 0 /\ in'.inheaders = 0 /\ in'.scan = in.scan + 1
              /\ in'.eoi = in.eoi /\ in'.multi = in.multi
              /\ in'.lost = in.lost /\ in'.sof = in.sof
          BY <1>1, <4>1, <5>1, StartInputFacts
        <5>3. InputTypes'
          <6>1. 0 \in 0..Rows /\ 0 \in 0..(Cols - 1) /\ 0 < Rows
            BY CallFacts
          <6> QED
            BY <2>1, <3>1, <5>2, <6>1 DEF InputTypes, Calls!NothingLost
        <5>4. Decoded' = 0
          <6>1. 0 * Cols + 0 = 0
            BY CallFacts
          <6> QED
            BY <5>2, <6>1 DEF Decoded
        <5>5. (pos - Decoded >= 1 /\ file[pos - Decoded] = "SOS")'
          <6>1. pos' - Decoded' = pos'
            BY <2>3, <3>1, <5>4
          <6> QED
            BY <2>3, <3>1, <3>6, <6>1
        <5>6. ASSUME NEW r \in 0..(Rows - 1), NEW c \in 0..(Cols - 1)
              PROVE  coef'[r][c] = IF Brought(r, c)' THEN in'.scan
                                   ELSE in'.scan - 1
          <6>1. ~Brought(r, c)'
            BY <5>2, CallFacts DEF Brought
          <6>2. coef[r][c] = in.scan /\ in.scan \in Int
            BY <1>1, <2>1 DEF ScanInv, Brought, Input
          <6> QED
            BY <2>1, <5>2, <6>1, <6>2
        <5>7. ScanInv'
          BY <1>1, <2>3, <5>2, <5>5, <5>6 DEF ScanInv
        <5> QED
          BY <2>3, <4>3, <5>1, <5>2, <5>3, <5>7
      <4> QED
        BY <4>2, <4>3
    <3>7. CASE ret = "more" /\ out' = out /\ in' = in
               /\ file[pos + 1] \in {"PSOS", "DQT"}
      <4>1. ScanInv'
        BY <1>1, <2>3, <3>3, <3>4, <3>7
      <4> QED
        BY <1>1, <2>3, <3>2, <3>7, <4>1
    <3>8. CASE ret = "more" /\ out' = out /\ file[pos + 1] \in {"SOF1", "SOFM"}
               /\ in' = [in EXCEPT !.sof = file[pos + 1]]
      <4>1. file[pos + 1] \in FrameKinds
        BY <3>8, Members
      <4>2. PICK v \in FrameKinds : v = file[pos + 1]
        BY <4>1
      <4>3. in' = [in EXCEPT !.sof = v]
        BY <3>8, <4>2
      <4>4. in' \in Input /\ same /\ in'.inheaders = in.inheaders
            /\ in'.scan = in.scan /\ in'.eoi = in.eoi
            /\ in'.sof = v /\ in'.multi = in.multi
        BY <1>1, <4>3, SetFacts
      <4>5. v # "none"
        BY <3>8, <4>2
      <4>6. ScanInv'
        BY <1>1, <2>3, <3>3, <3>4, <3>8, <4>4, <4>5
      <4> QED
        BY <2>3, <3>2, <3>8, <4>4, <4>6
    <3>9. CASE ret = "more" /\ out' = out /\ file[pos + 1] = "MCU"
               /\ in' = [in EXCEPT !.lost = TRUE]
      <4>1. /\ in' \in Input /\ place /\ in'.inheaders = in.inheaders
            /\ in'.scan = in.scan /\ in'.eoi = in.eoi /\ in'.sof = in.sof
            /\ in'.multi = in.multi
        BY <1>1, <3>9 DEF Input
      <4>2. ~Calls!Intact
        BY <2>1, <3>1, <3>9 DEF AtMarker
      <4>3. InputTypes'
        BY <2>1, <3>1, <4>1, <4>2 DEF InputTypes, Calls!NothingLost
      <4>4. AtMarker'
        BY <3>1, <4>2 DEF AtMarker
      <4>5. ScanInv'
        BY <1>1, <2>3, <3>4, <4>1, <4>4
      <4> QED
        BY <2>3, <3>9, <4>1, <4>3, <4>5
    <3> QED
      <4>1. file[pos + 1] = "PSOS" /\ Calls!ReachPseudoSOS => in' = in
        BY <1>1 DEF Calls!ReachPseudoSOS
      <4> QED
        BY <2>3, <3>5, <3>6, <3>7, <3>8, <3>9, <4>1
  <2> QED
    BY <1>3, <2>2, <2>3 DEF Calls!consume_markers, Calls!Token
<1> QED
  BY <1>2, <1>3 DEF Calls!consume_input

-----------------------------------------------------------------------------
(* The inductive invariant.                                                *)

Passes == {"PRESCAN", "SCANNING", "RAW_OK"}
Started == {"PRELOAD", "BUFIMAGE", "BUFPOST", "STOPPING"} \cup Passes

\* Which call may be in progress, and what the application asked for.
Control ==
    /\ opts \in Options
    /\ state \in {"START", "INHEADER", "READY", "FAILED"} \cup Started
    /\ call \in {"none", "header", "consume", "preload", "setup", "read",
                 "finish_output", "finish"}
    /\ call = "header" => state = "INHEADER"
    /\ call = "consume" => state \in {"INHEADER"} \cup Started
    /\ call = "preload" => state = "PRELOAD"
    /\ call = "setup" => state \in {"PRELOAD", "BUFIMAGE", "PRESCAN"}
    /\ call = "read" => /\ state \in {"SCANNING", "RAW_OK"}
                        /\ out.line < Calls!Height
    /\ call = "finish_output" => state = "BUFPOST"
    /\ call = "finish" => state = "STOPPING"
    /\ state = "PRELOAD" => ~opts.buffered
    /\ state \in {"BUFIMAGE", "BUFPOST"} => opts.buffered
    /\ state = "RAW_OK" => opts.raw
    /\ state = "SCANNING" => ~opts.raw

\* Where the input is.
Stages ==
    /\ state = "START" => pos \in Calls!Images
    /\ state = "INHEADER" => HeaderInv
    /\ state = "READY" => ReadyInv
    /\ state \in Started => ScanInv

\* A line in its place, and one of the whole file where that is promised.
Placed(k, h) == h.row = (k - 1) \div Lines /\ h.scan >= h.want
Complete(h) == ~opts.buffered /\ in.multi => h.scan = in.scan

\* The output side's counts and lines, whatever it is used for next.
OutInv ==
    /\ out \in Side
    /\ out.row \in 0..Rows /\ out.line \in 0..Calls!Height
    /\ out.left \in 0..Lines
    /\ saved \in Seq(Row) /\ shown \in Seq(Row)
    /\ ~out.crank => out.line + out.left = out.row * Lines
    /\ out.dummy => ~out.crank /\ opts.twoPass /\ Len(saved) = out.line
    /\ out.crank => /\ opts.twoPass /\ out.left = 0
                    /\ Len(saved) = Calls!Height
    /\ out.left > 0 => /\ out.held.row = out.row - 1
                       /\ out.held.scan >= out.held.want
    /\ \A k \in DOMAIN saved : Placed(k, saved[k])
    /\ \A k \in DOMAIN shown : Placed(k, shown[k])

\* The output pass against the input.
PassInv ==
    /\ state \in Started /\ state # "PRESCAN" => ~out.dummy
    /\ state \in Started /\ in.eoi => out.scan <= in.scan
    /\ state = "PRESCAN" => shown = <<>>
    /\ state \in Passes =>
         /\ ~out.dummy => Len(shown) = out.line
         /\ out.left > 0 => Complete(out.held)
         /\ \A k \in DOMAIN saved : Complete(saved[k])
         /\ \A k \in DOMAIN shown : Complete(shown[k])
    /\ (state \in Passes \/ call = "setup") /\ ~opts.buffered =>
         out.scan = in.scan /\ (in.multi => in.eoi)
    /\ ~in.multi /\ ~opts.buffered =>
         /\ state = "PRELOAD" => in.row = 0 /\ in.consume = "data"
         /\ state \in Passes => in.row = out.row

CallsInv == InputTypes /\ Control /\ Stages /\ OutInv /\ PassInv

-----------------------------------------------------------------------------
(* Steps that leave the input alone.                                       *)

\* What is in use keeps its invariant while the input does not move.
LEMMA Frame ==
    ASSUME InputTypes, UNCHANGED <<file, pos, avail, in, coef>>
    PROVE  /\ InputTypes' /\ Calls!Images' = Calls!Images
           /\ HeaderInv => HeaderInv'
           /\ ReadyInv => ReadyInv'
           /\ ScanInv => ScanInv'
<1>1. InputTypes'
  BY DEF InputTypes, Calls!NothingLost, Calls!Intact
<1>2. Calls!Images' = Calls!Images
  BY DEF Calls!Images
<1>3. HeaderInv => HeaderInv'
  BY <1>2 DEF HeaderInv, AtMarker, Calls!Intact
<1>4. ReadyInv => ReadyInv'
  BY DEF ReadyInv
<1>5. ScanInv => ScanInv'
  BY <1>2 DEF ScanInv, AtMarker, Calls!Intact, Brought, Decoded
<1> QED
  BY <1>1, <1>2, <1>3, <1>4, <1>5

\* The same when only the state of the object changes.
LEMMA Calm ==
    ASSUME CallsInv,
           UNCHANGED <<file, pos, avail, opts, in, coef, out, saved, shown>>
    PROVE  InputTypes' /\ OutInv'
<1>1. InputTypes'
  BY Frame DEF CallsInv
<1>2. OutInv'
  BY DEF CallsInv, OutInv, Placed, Calls!Height
<1> QED
  BY <1>1, <1>2

\* A line is asked for.
LEMMA BeginReadKeeps ==
    ASSUME CallsInv, Calls!BeginRead PROVE CallsInv'
<1>1. /\ UNCHANGED <<file, pos, avail, opts, in, coef, out, saved, shown>>
      /\ state' = state /\ call' = "read" /\ out.line < Calls!Height
      /\ state \in {"SCANNING", "RAW_OK"}
  BY DEF Calls!BeginRead, Calls!MayCall, Calls!Source
<1>2. InputTypes' /\ OutInv'
  BY <1>1, Calm
<1>3. Control'
  BY <1>1 DEF CallsInv, Control, Started, Passes, Calls!Height
<1>4. Stages'
  BY <1>1, Frame DEF CallsInv, Stages, Started, Passes
<1>5. PassInv'
  BY <1>1 DEF CallsInv, PassInv, Complete, Started, Passes
<1> QED
  BY <1>2, <1>3, <1>4, <1>5 DEF CallsInv

\* A pass of buffered-image mode is to end.
LEMMA FinishOutputKeeps ==
    ASSUME CallsInv, Calls!jpeg_finish_output PROVE CallsInv'
<1>1. /\ UNCHANGED <<file, pos, avail, opts, in, coef, out, saved, shown>>
      /\ state' = "BUFPOST" /\ call' = "finish_output" /\ opts.buffered
      /\ state \in {"SCANNING", "RAW_OK", "BUFPOST"}
  BY DEF Calls!jpeg_finish_output, Calls!BeginFinish, Calls!MayCall,
         Calls!Source
<1>2. InputTypes' /\ OutInv'
  BY <1>1, Calm
<1>3. Control'
  BY <1>1 DEF CallsInv, Control, Started, Passes
<1>4. Stages'
  BY <1>1, Frame DEF CallsInv, Stages, Started, Passes
<1>5. PassInv'
  BY <1>1 DEF CallsInv, PassInv, Complete, Started, Passes
<1> QED
  BY <1>2, <1>3, <1>4, <1>5 DEF CallsInv

\* Decompression is to end.
LEMMA FinishDecompressKeeps ==
    ASSUME CallsInv, Calls!jpeg_finish_decompress PROVE CallsInv'
<1>1. /\ UNCHANGED <<file, pos, avail, opts, in, coef, out, saved, shown>>
      /\ state' = "STOPPING" /\ call' = "finish"
      /\ state \in {"SCANNING", "RAW_OK", "BUFIMAGE", "STOPPING"}
  BY DEF Calls!jpeg_finish_decompress, Calls!BeginFinish, Calls!MayCall,
         Calls!Source
<1>2. InputTypes' /\ OutInv'
  BY <1>1, Calm
<1>3. Control'
  BY <1>1 DEF CallsInv, Control, Started, Passes
<1>4. Stages'
  BY <1>1, Frame DEF CallsInv, Stages, Started, Passes
<1>5. PassInv'
  BY <1>1 DEF CallsInv, PassInv, Complete, Started, Passes
<1> QED
  BY <1>2, <1>3, <1>4, <1>5 DEF CallsInv

\* A pass of buffered-image mode has ended.
LEMMA FinishedOutputKeeps ==
    ASSUME CallsInv, Calls!FinishedOutput PROVE CallsInv'
<1>1. /\ UNCHANGED <<file, pos, avail, opts, in, coef, out, saved, shown>>
      /\ state' = "BUFIMAGE" /\ call' = "none" /\ state = "BUFPOST"
  BY DEF Calls!FinishedOutput, Calls!Running, Calls!Source, CallsInv, Control
<1>2. InputTypes' /\ OutInv'
  BY <1>1, Calm
<1>3. Control'
  BY <1>1 DEF CallsInv, Control, Started, Passes
<1>4. Stages'
  BY <1>1, Frame DEF CallsInv, Stages, Started, Passes
<1>5. PassInv'
  BY <1>1 DEF CallsInv, PassInv, Complete, Started, Passes
<1> QED
  BY <1>2, <1>3, <1>4, <1>5 DEF CallsInv

\* Decompression has ended, exactly behind the EOI.
LEMMA FinishedKeeps ==
    ASSUME CallsInv, Calls!Finished PROVE CallsInv'
<1>1. /\ UNCHANGED <<file, pos, avail, opts, in, coef, out, saved, shown>>
      /\ state' = "START" /\ call' = "none" /\ state = "STOPPING" /\ in.eoi
  BY DEF Calls!Finished, Calls!Running, Calls!Source, CallsInv, Control
<1>2. InputTypes' /\ OutInv'
  BY <1>1, Calm
<1>3. Control'
  BY <1>1 DEF CallsInv, Control, Started, Passes
<1>4. pos \in Calls!Images
  BY <1>1 DEF CallsInv, Stages, Started, ScanInv
<1>5. Stages'
  BY <1>1, <1>4, Frame DEF CallsInv, Stages, Started, Passes
<1>6. PassInv'
  BY <1>1 DEF CallsInv, PassInv, Complete, Started, Passes
<1> QED
  BY <1>2, <1>3, <1>5, <1>6 DEF CallsInv

\* A pass has been set up.
LEMMA SetupDoneKeeps ==
    ASSUME CallsInv, Calls!SetupDone PROVE CallsInv'
<1>1. /\ UNCHANGED <<file, pos, avail, opts, in, coef, out, saved, shown>>
      /\ state' = IF opts.raw THEN "RAW_OK" ELSE "SCANNING"
      /\ call' = "none" /\ call = "setup" /\ state = "PRESCAN" /\ ~out.dummy
  BY DEF Calls!SetupDone, Calls!Running, Calls!Source
<1>2. InputTypes' /\ OutInv'
  BY <1>1, Calm
<1>3. Control'
  BY <1>1 DEF CallsInv, Control, Started, Passes
<1>4. Stages'
  BY <1>1, Frame DEF CallsInv, Stages, Started, Passes
<1>5. PassInv'
  BY <1>1 DEF CallsInv, PassInv, Complete, Started, Passes
<1> QED
  BY <1>2, <1>3, <1>4, <1>5 DEF CallsInv

\* More of the file comes.
LEMMA ArriveKeeps ==
    ASSUME CallsInv, Calls!Arrive PROVE CallsInv'
<1>1. /\ UNCHANGED <<file, pos, opts, in, coef, out, saved, shown, state, call>>
      /\ avail < Len(file) /\ avail' = avail + 1
  BY DEF Calls!Arrive
<1>2. InputTypes'
  BY <1>1, FileFacts DEF CallsInv, InputTypes, Calls!NothingLost, Calls!Intact
<1>3. OutInv'
  BY <1>1 DEF CallsInv, OutInv, Placed, Calls!Height
<1>4. Control'
  BY <1>1 DEF CallsInv, Control, Started, Passes, Calls!Height
<1>5. /\ Calls!Images' = Calls!Images
      /\ HeaderInv => HeaderInv'
      /\ ReadyInv => ReadyInv'
      /\ ScanInv => ScanInv'
  <2>1. Calls!Images' = Calls!Images
    BY <1>1 DEF Calls!Images
  <2>2. HeaderInv => HeaderInv'
    BY <1>1, <2>1 DEF HeaderInv, AtMarker, Calls!Intact
  <2>3. ReadyInv => ReadyInv'
    BY <1>1 DEF ReadyInv
  <2>4. ScanInv => ScanInv'
    BY <1>1, <2>1 DEF ScanInv, AtMarker, Calls!Intact, Brought, Decoded
  <2> QED
    BY <2>1, <2>2, <2>3, <2>4
<1>6. Stages'
  BY <1>1, <1>5 DEF CallsInv, Stages, Started, Passes
<1>7. PassInv'
  BY <1>1 DEF CallsInv, PassInv, Complete, Started, Passes
<1> QED
  BY <1>2, <1>3, <1>4, <1>6, <1>7 DEF CallsInv

\* Input is asked for: a new image begins, or an old one goes on.
LEMMA BeginInputKeeps ==
    ASSUME CallsInv, NEW c, Calls!BeginInput(c), call = "none",
           \/ c = "header" /\ state \in {"START", "INHEADER"}
           \/ c = "consume" /\ state \in {"START", "INHEADER"} \cup Started
    PROVE  CallsInv'
<1>1. /\ UNCHANGED <<file, pos, avail, opts, coef, out, saved, shown>>
      /\ call' = c
      /\ IF state = "START"
         THEN in' = Calls!reset_input_controller(in) /\ state' = "INHEADER"
         ELSE UNCHANGED <<in, state>>
  BY DEF Calls!BeginInput, Calls!Source
<1>2. OutInv'
  BY <1>1 DEF CallsInv, OutInv, Placed, Calls!Height
<1>3. Control'
  BY <1>1 DEF CallsInv, Control, Started, Passes, Calls!Height
<1>4. CASE state = "START"
  <2>1. /\ in' \in Input /\ in'.consume = "markers" /\ in'.inheaders = 1
        /\ in'.scan = 0 /\ in'.row = in.row /\ in'.ctr = in.ctr
        /\ ~in'.eoi /\ ~in'.lost /\ ~in'.multi
    BY <1>1, <1>4, ResetFacts DEF CallsInv, InputTypes
  <2>2. InputTypes'
    BY <1>1, <2>1 DEF CallsInv, InputTypes, Calls!NothingLost
  <2>3. AtMarker
    BY <1>4, ImagesAtMarker DEF CallsInv, Stages, InputTypes
  <2>4. AtMarker'
    BY <1>1, <2>3 DEF AtMarker, Calls!Intact
  <2>5. HeaderInv'
    BY <2>1, <2>4 DEF HeaderInv
  <2>6. Stages'
    BY <1>1, <1>4, <2>5 DEF Stages, Started, Passes
  <2>7. PassInv'
    BY <1>1, <1>4 DEF PassInv, Started, Passes
  <2> QED
    BY <1>2, <1>3, <2>2, <2>6, <2>7 DEF CallsInv
<1>5. CASE state # "START"
  <2>1. InputTypes' /\ Stages'
    BY <1>1, <1>5, Frame DEF CallsInv, Stages, Started, Passes
  <2>2. PassInv'
    BY <1>1, <1>5 DEF CallsInv, PassInv, Complete, Started, Passes
  <2> QED
    BY <1>2, <1>3, <2>1, <2>2 DEF CallsInv
<1> QED
  BY <1>4, <1>5

\* A set of natural numbers has a least element.
LEMMA LeastOfNat ==
    ASSUME NEW T, T \subseteq Nat, T # {}
    PROVE  \E n \in T : \A m \in T : n <= m
<1> DEFINE R == OpToRel(<, Nat)
<1>1. IsWellFoundedOn(R, Nat)
  BY NatLessThanWellFounded
<1>2. PICK n \in T : \A m \in T : ~ (<<m, n>> \in R)
  <2> HIDE DEF R
  <2> QED
    BY <1>1, WFMin
<1>3. ASSUME NEW m \in T PROVE n <= m
  <2>1. <<m, n>> \notin R /\ m \in Nat /\ n \in Nat
    BY <1>2
  <2> QED
    BY <2>1 DEF OpToRel
<1> QED
  BY <1>3

\* The application gives an image up and goes to the next.
LEMMA AbortKeeps ==
    ASSUME CallsInv, Calls!jpeg_abort PROVE CallsInv'
<1>1. /\ UNCHANGED <<file, call, opts, in, coef, out, saved, shown>>
      /\ call = "none" /\ state' = "START"
      /\ pos' = Calls!MinOf({i \in Calls!Images : i >= pos})
      /\ avail' = Calls!MaxOf({avail, pos'})
  BY DEF Calls!jpeg_abort
<1>2. /\ file \in ImageFiles /\ pos \in 0..avail /\ avail \in 0..Len(file)
      /\ Len(file) \in Nat
  BY FileFacts DEF CallsInv, InputTypes
<1>3. pos' \in Calls!Images /\ pos' \in 0..Len(file)
  <2> DEFINE T == {i \in Calls!Images : i >= pos}
  <2>1. Calls!Images \subseteq 0..Len(file) /\ Len(file) \in Calls!Images
    BY <1>2 DEF Calls!Images
  <2>2. T \subseteq Nat /\ Len(file) \in T
    <3>1. pos \in Nat /\ Len(file) >= pos
      BY <1>2
    <3>2. Len(file) \in T
      BY <2>1, <3>1
    <3>3. \A m \in T : m \in Nat
      BY <1>2, <2>1
    <3> QED
      BY <3>2, <3>3
  <2>3. PICK n \in T : \A m \in T : n <= m
    BY <2>2, LeastOfNat
  <2>4. Calls!MinOf(T) \in T
    BY <2>3 DEF Calls!MinOf
  <2> HIDE DEF T
  <2>5. pos' \in T
    BY <1>1, <2>4 DEF T
  <2> QED
    BY <2>1, <2>5 DEF T
<1>4. avail' \in 0..Len(file) /\ pos' <= avail'
  <2> DEFINE most == IF avail >= pos' THEN avail ELSE pos'
             T == {avail, pos'}
  <2>1. most \in T /\ \A y \in T : most >= y
    BY <1>2, <1>3
  <2>2. Calls!MaxOf(T) \in T /\ \A y \in T : Calls!MaxOf(T) >= y
    BY <2>1 DEF Calls!MaxOf
  <2> HIDE DEF T
  <2>3. avail' \in T /\ \A y \in T : avail' >= y
    BY <1>1, <2>2 DEF T
  <2> QED
    BY <1>2, <1>3, <2>3 DEF T
<1>5. InputTypes'
  BY <1>1, <1>2, <1>3, <1>4
     DEF CallsInv, InputTypes, Calls!NothingLost, Calls!Intact
<1>6. OutInv'
  BY <1>1 DEF CallsInv, OutInv, Placed, Calls!Height
<1>7. Control'
  BY <1>1 DEF CallsInv, Control, Started, Passes
<1>8. Stages'
  <2>1. Calls!Images' = Calls!Images
    BY <1>1 DEF Calls!Images
  <2> QED
    BY <1>1, <1>3, <2>1 DEF Stages, Started, Passes
<1>9. PassInv'
  BY <1>1 DEF PassInv, Started, Passes
<1> QED
  BY <1>5, <1>6, <1>7, <1>8, <1>9 DEF CallsInv

\* Some fields of the output side change.
LEMMA SideFacts ==
    ASSUME NEW o \in Side
    PROVE  /\ LET p == [o EXCEPT !.dummy = FALSE, !.colormap = FALSE]
              IN  /\ p \in Side /\ ~p.dummy /\ p.scan = o.scan
                  /\ p.row = o.row /\ p.line = o.line /\ p.crank = o.crank
                  /\ p.left = o.left /\ p.held = o.held
           /\ \A v \in BOOLEAN :
                LET p == [o EXCEPT !.colormap = v]
                IN  /\ p \in Side /\ p.dummy = o.dummy /\ p.scan = o.scan
                    /\ p.row = o.row /\ p.line = o.line /\ p.crank = o.crank
                    /\ p.left = o.left /\ p.held = o.held
           /\ \A v \in Int :
                LET p == [o EXCEPT !.scan = v]
                IN  /\ p \in Side /\ p.dummy = o.dummy /\ p.scan = v
                    /\ p.row = o.row /\ p.line = o.line /\ p.crank = o.crank
                    /\ p.left = o.left /\ p.held = o.held
<1>1. FALSE \in BOOLEAN
  OBVIOUS
<1>2. LET p == [o EXCEPT !.dummy = FALSE, !.colormap = FALSE]
      IN  /\ p \in Side /\ ~p.dummy /\ p.scan = o.scan
          /\ p.row = o.row /\ p.line = o.line /\ p.crank = o.crank
          /\ p.left = o.left /\ p.held = o.held
  BY <1>1 DEF Side
<1>3. ASSUME NEW v \in BOOLEAN
      PROVE  LET p == [o EXCEPT !.colormap = v]
             IN  /\ p \in Side /\ p.dummy = o.dummy /\ p.scan = o.scan
                 /\ p.row = o.row /\ p.line = o.line /\ p.crank = o.crank
                 /\ p.left = o.left /\ p.held = o.held
  BY DEF Side
<1>4. ASSUME NEW v \in Int
      PROVE  LET p == [o EXCEPT !.scan = v]
             IN  /\ p \in Side /\ p.dummy = o.dummy /\ p.scan = v
                 /\ p.row = o.row /\ p.line = o.line /\ p.crank = o.crank
                 /\ p.left = o.left /\ p.held = o.held
  BY DEF Side
<1> QED
  BY <1>2, <1>3, <1>4

\* Decompression starts, or goes on after a suspension.
LEMMA StartDecompressKeeps ==
    ASSUME CallsInv, Calls!jpeg_start_decompress PROVE CallsInv'
<1>1. /\ UNCHANGED <<file, pos, avail, opts, saved, shown>>
      /\ call = "none" /\ state \in {"READY", "PRELOAD", "PRESCAN"}
  BY DEF Calls!jpeg_start_decompress, Calls!Source, Calls!MayCall
<1>2. CASE state = "READY"
  <2>1. /\ in' = Calls!start_input_pass(in) /\ coef' = Calls!Blank
        /\ out' = [out EXCEPT !.dummy = FALSE, !.colormap = FALSE]
        /\ state' = IF opts.buffered THEN "BUFIMAGE" ELSE "PRELOAD"
        /\ call' = IF opts.buffered THEN "none" ELSE "preload"
    BY <1>2 DEF Calls!jpeg_start_decompress
  <2>2. /\ in' \in Input /\ in'.consume = "data" /\ in'.row = 0 /\ in'.ctr = 0
        /\ in'.inheaders = in.inheaders /\ in'.scan = in.scan
        /\ in'.eoi = in.eoi /\ in'.multi = in.multi /\ in'.lost = in.lost
        /\ in'.sof = in.sof
    BY <2>1, StartInputFacts DEF CallsInv, InputTypes
  <2>3. /\ out' \in Side /\ ~out'.dummy /\ out'.scan = out.scan
        /\ out'.row = out.row /\ out'.line = out.line
        /\ out'.crank = out.crank /\ out'.left = out.left
        /\ out'.held = out.held
    BY <2>1, SideFacts DEF CallsInv, OutInv
  <2>4. ReadyInv
    BY <1>2 DEF CallsInv, Stages
  <2>5. /\ Rows \in Nat /\ Cols \in Nat /\ Rows > 0 /\ Cols > 0
    BY CallFacts
  <2>6. InputTypes'
    <3>1. coef' \in [0..(Rows - 1) -> [0..(Cols - 1) -> Int]]
      BY <2>1 DEF Calls!Blank
    <3>2. 0 \in 0..Rows /\ 0 \in 0..(Cols - 1) /\ 0 < Rows
      BY <2>5
    <3> QED
      BY <1>1, <2>2, <3>1, <3>2
         DEF CallsInv, InputTypes, Calls!NothingLost, Calls!Intact
  <2>7. ScanInv'
    <3>1. Decoded' = 0
      <4>1. 0 * Cols + 0 = 0
        BY CallFacts
      <4> QED
        BY <2>2, <4>1 DEF Decoded
    <3>2. (pos - Decoded >= 1 /\ file[pos - Decoded] = "SOS")'
      <4>1. pos \in Nat
        BY FileFacts DEF CallsInv, InputTypes
      <4>2. pos' - Decoded' = pos
        BY <1>1, <3>1, <4>1
      <4> QED
        BY <1>1, <2>4, <4>1, <4>2 DEF ReadyInv
    <3>3. ASSUME NEW r \in 0..(Rows - 1), NEW c \in 0..(Cols - 1)
          PROVE  coef'[r][c] = IF Brought(r, c)' THEN in'.scan
                               ELSE in'.scan - 1
      <4>1. ~Brought(r, c)'
        BY <2>2, <2>5 DEF Brought
      <4>2. coef'[r][c] = 0
        BY <2>1 DEF Calls!Blank
      <4>3. in'.scan - 1 = 0
        BY <2>2, <2>4 DEF ReadyInv
      <4> QED
        BY <4>1, <4>2, <4>3
    <3> QED
      BY <2>2, <2>4, <3>2, <3>3 DEF ScanInv, ReadyInv
  <2>8. OutInv'
    BY <1>1, <2>3 DEF CallsInv, OutInv, Placed, Calls!Height
  <2>9. Control'
    BY <1>1, <2>1 DEF CallsInv, Control, Started, Passes
  <2>10. Stages'
    BY <2>1, <2>7 DEF Stages, Started, Passes
  <2>11. PassInv'
    <3>1. ~in'.eoi
      BY <2>2, <2>4 DEF ReadyInv
    <3>2. state' \in {"BUFIMAGE", "PRELOAD"} /\ call' # "setup"
      BY <2>1
    <3> QED
      BY <2>2, <2>3, <3>1, <3>2 DEF PassInv, Started, Passes
  <2> QED
    BY <2>6, <2>8, <2>9, <2>10, <2>11 DEF CallsInv
<1>3. CASE state # "READY"
  <2>1. /\ UNCHANGED <<in, coef, out, state>>
        /\ call' = IF state = "PRELOAD" THEN "preload" ELSE "setup"
        /\ state = "PRESCAN" => ~opts.buffered
    BY <1>3 DEF Calls!jpeg_start_decompress
  <2>2. InputTypes' /\ OutInv'
    BY <1>1, <2>1, Calm
  <2>3. Control'
    BY <1>1, <1>3, <2>1 DEF CallsInv, Control, Started, Passes
  <2>4. Stages'
    BY <1>1, <1>3, <2>1, Frame DEF CallsInv, Stages, Started, Passes
  <2>5. PassInv'
    BY <1>1, <1>3, <2>1 DEF CallsInv, PassInv, Complete, Started, Passes
  <2> QED
    BY <2>2, <2>3, <2>4, <2>5 DEF CallsInv
<1> QED
  BY <1>2, <1>3

\* A pass begins in buffered-image mode.
LEMMA StartOutputKeeps ==
    ASSUME CallsInv, NEW n \in Wanted, Calls!jpeg_start_output(n)
    PROVE  CallsInv'
<1>1. /\ UNCHANGED <<file, pos, avail, state, opts, in, coef, saved, shown>>
      /\ call = "none" /\ state \in {"BUFIMAGE", "PRESCAN"} /\ opts.buffered
      /\ out' = [out EXCEPT !.scan = Calls!Clip(n)] /\ call' = "setup"
  BY DEF Calls!jpeg_start_output, Calls!Source, Calls!MayCall
<1>2. Calls!Clip(n) \in Int /\ (in.eoi => Calls!Clip(n) <= in.scan)
  <2>1. n \in Int /\ in.scan \in Int
    BY CallFacts DEF CallsInv, InputTypes, Input
  <2> QED
    BY <2>1 DEF Calls!Clip
<1>3. /\ out' \in Side /\ out'.dummy = out.dummy
      /\ out'.scan = Calls!Clip(n)
      /\ out'.row = out.row /\ out'.line = out.line
      /\ out'.crank = out.crank /\ out'.left = out.left
      /\ out'.held = out.held
  <2>1. PICK v \in Int : v = Calls!Clip(n)
    BY <1>2
  <2>2. out \in Side /\ out' = [out EXCEPT !.scan = v]
    BY <1>1, <2>1 DEF CallsInv, OutInv
  <2> QED
    BY <2>1, <2>2, SideFacts
<1>4. InputTypes' /\ Stages'
  BY <1>1, Frame DEF CallsInv, Stages, Started, Passes
<1>5. OutInv'
  BY <1>1, <1>3 DEF CallsInv, OutInv, Placed, Calls!Height
<1>6. Control'
  BY <1>1 DEF CallsInv, Control, Started, Passes
<1>7. PassInv'
  BY <1>1, <1>2, <1>3 DEF CallsInv, PassInv, Complete, Started, Passes
<1> QED
  BY <1>4, <1>5, <1>6, <1>7 DEF CallsInv

\* The application wants a new choice of colours.
LEMMA DropColormapKeeps ==
    ASSUME CallsInv, Calls!DropColormap PROVE CallsInv'
<1>1. /\ UNCHANGED <<file, pos, avail, state, call, opts, in, coef, saved,
                     shown>>
      /\ call = "none" /\ out' = [out EXCEPT !.colormap = FALSE]
  BY DEF Calls!DropColormap, Calls!Source, Calls!MayCall
<1>2. /\ out' \in Side /\ out'.dummy = out.dummy /\ out'.scan = out.scan
      /\ out'.row = out.row /\ out'.line = out.line
      /\ out'.crank = out.crank /\ out'.left = out.left
      /\ out'.held = out.held
  BY <1>1, SideFacts, Members DEF CallsInv, OutInv
<1>3. InputTypes' /\ Stages'
  BY <1>1, Frame DEF CallsInv, Stages, Started, Passes
<1>4. OutInv'
  BY <1>1, <1>2 DEF CallsInv, OutInv, Placed, Calls!Height
<1>5. Control'
  BY <1>1 DEF CallsInv, Control, Started, Passes
<1>6. PassInv'
  BY <1>1, <1>2 DEF CallsInv, PassInv, Complete, Started, Passes
<1> QED
  BY <1>3, <1>4, <1>5, <1>6 DEF CallsInv

\* All the input is there that is waited for.
LEMMA PreloadedKeeps ==
    ASSUME CallsInv, Calls!Preloaded PROVE CallsInv'
<1>1. /\ UNCHANGED <<file, pos, avail, state, opts, in, coef, saved, shown>>
      /\ call = "preload" /\ call' = "setup" /\ (in.multi => in.eoi)
      /\ out' = [out EXCEPT !.scan = in.scan] /\ state = "PRELOAD"
  BY DEF Calls!Preloaded, Calls!Source, Calls!Running, CallsInv, Control
<1>2. in.scan \in Int
  BY DEF CallsInv, InputTypes, Input
<1>3. /\ out' \in Side /\ out'.dummy = out.dummy /\ out'.scan = in.scan
      /\ out'.row = out.row /\ out'.line = out.line
      /\ out'.crank = out.crank /\ out'.left = out.left
      /\ out'.held = out.held
  <2>1. PICK v \in Int : v = in.scan
    BY <1>2
  <2>2. out \in Side /\ out' = [out EXCEPT !.scan = v]
    BY <1>1, <2>1 DEF CallsInv, OutInv
  <2> QED
    BY <2>1, <2>2, SideFacts
<1>4. InputTypes' /\ Stages'
  BY <1>1, Frame DEF CallsInv, Stages, Started, Passes
<1>5. OutInv'
  BY <1>1, <1>3 DEF CallsInv, OutInv, Placed, Calls!Height
<1>6. Control'
  BY <1>1 DEF CallsInv, Control, Started, Passes
<1>7. PassInv'
  BY <1>1, <1>2, <1>3 DEF CallsInv, PassInv, Complete, Started, Passes
<1> QED
  BY <1>4, <1>5, <1>6, <1>7 DEF CallsInv

-----------------------------------------------------------------------------
(* Steps of the input.                                                     *)

\* A step of input that is not part of an output step leaves the output
\* side as it is, or stops it at the last scan.
LEMMA InputMoves ==
    ASSUME CallsInv, state \in Started, NEW ret, Calls!consume_input(ret),
           UNCHANGED <<file, avail, opts, saved, shown>>
    PROVE  /\ InputTypes' /\ OutInv'
           /\ out'.line = out.line
           /\ ret # "error" => ScanInv'
           /\ /\ ret # "error" /\ state' = state
              /\ call' = "setup" => call = "setup"
              => PassInv'
<1>1. /\ InputTypes /\ ScanInv /\ out \in Side /\ in \in Input
      /\ in.scan \in Int /\ out.scan \in Int
  BY DEF CallsInv, Stages, OutInv, InputTypes, Input, Side
<1>2. /\ InputTypes'
      /\ ret # "error" => ScanInv'
      /\ in'.multi = in.multi
      /\ in.eoi => UNCHANGED <<in, coef, out>>
      /\ ret # "error" /\ ~in.multi /\ ~opts.buffered =>
           /\ in'.scan = in.scan /\ in'.row = in.row
           /\ in'.consume = in.consume
      /\ \/ out' = out /\ (in'.eoi <=> in.eoi)
         \/ out' = Calls!Limit(out, in) /\ in'.scan = in.scan
  BY <1>1, ConsumeScan
<1>3. /\ out' \in Side
      /\ out.scan <= in.scan => out'.scan = out.scan
      /\ out'.row = out.row /\ out'.line = out.line /\ out'.dummy = out.dummy
      /\ out'.crank = out.crank /\ out'.left = out.left
      /\ out'.held = out.held
  <2>1. CASE out' = out
    BY <1>1, <2>1
  <2>2. CASE out' = Calls!Limit(out, in)
    BY <1>1, <2>2, LimitFacts
  <2> QED
    BY <1>2, <2>1, <2>2
<1>4. OutInv'
  BY <1>3 DEF CallsInv, OutInv, Placed, Calls!Height
<1>5. ASSUME ret # "error", state' = state, call' = "setup" => call = "setup"
      PROVE  PassInv'
  <2>1. in'.eoi => out'.scan <= in'.scan
    <3>1. CASE in.eoi
      BY <1>1, <1>2, <3>1 DEF CallsInv, PassInv
    <3>2. CASE ~in.eoi /\ out' = Calls!Limit(out, in) /\ in'.scan = in.scan
      BY <1>1, <3>2, LimitFacts
    <3> QED
      BY <1>2, <3>1, <3>2
  <2>2. /\ (state \in Passes \/ call = "setup") /\ ~opts.buffered =>
             in'.scan = in.scan /\ out'.scan = out.scan
                /\ out.scan = in.scan /\ (in.multi => in.eoi)
    <3> SUFFICES ASSUME state \in Passes \/ call = "setup", ~opts.buffered
                 PROVE  in'.scan = in.scan /\ out'.scan = out.scan
                        /\ out.scan = in.scan /\ (in.multi => in.eoi)
      OBVIOUS
    <3>1. out.scan = in.scan /\ (in.multi => in.eoi)
      BY DEF CallsInv, PassInv
    <3>2. in'.scan = in.scan
      BY <1>2, <1>5, <3>1
    <3> QED
      BY <1>1, <1>3, <3>1, <3>2
  <2>3. in.multi /\ in.eoi => in'.eoi
    BY <1>2
  <2>4. state' = "PRESCAN" => shown' = <<>>
    BY <1>5 DEF CallsInv, PassInv
  <2>5. state' \in Started /\ state' # "PRESCAN" => ~out'.dummy
    BY <1>3, <1>5 DEF CallsInv, PassInv
  <2>6. state' \in Passes =>
          /\ ~out'.dummy => Len(shown') = out'.line
          /\ (out.left > 0 => Complete(out.held))'
          /\ (\A k \in DOMAIN saved : Complete(saved[k]))'
          /\ (\A k \in DOMAIN shown : Complete(shown[k]))'
    <3> SUFFICES ASSUME state \in Passes
                 PROVE  /\ ~out'.dummy => Len(shown') = out'.line
                        /\ (out.left > 0 => Complete(out.held))'
                        /\ (\A k \in DOMAIN saved : Complete(saved[k]))'
                        /\ (\A k \in DOMAIN shown : Complete(shown[k]))'
      BY <1>5
    <3>1. /\ ~out.dummy => Len(shown) = out.line
          /\ out.left > 0 => Complete(out.held)
          /\ \A k \in DOMAIN saved : Complete(saved[k])
          /\ \A k \in DOMAIN shown : Complete(shown[k])
      BY DEF CallsInv, PassInv
    <3>2. opts' = opts /\ in'.multi = in.multi
          /\ (~opts.buffered => in'.scan = in.scan)
      BY <1>2, <2>2
    <3>3. (out.left > 0 => Complete(out.held))'
      BY <1>3, <3>1, <3>2 DEF Complete
    <3>5. (\A k \in DOMAIN saved : Complete(saved[k]))'
      BY <3>1, <3>2 DEF Complete
    <3>6. (\A k \in DOMAIN shown : Complete(shown[k]))'
      BY <3>1, <3>2 DEF Complete
    <3> QED
      BY <1>3, <3>1, <3>3, <3>5, <3>6
  <2>7. (state' \in Passes \/ call' = "setup") /\ ~opts'.buffered =>
          out'.scan = in'.scan /\ (in'.multi => in'.eoi)
    BY <1>2, <1>5, <2>2, <2>3
  <2>8. ~in'.multi /\ ~opts'.buffered =>
          /\ state' = "PRELOAD" => in'.row = 0 /\ in'.consume = "data"
          /\ state' \in Passes => in'.row = out'.row
    BY <1>2, <1>3, <1>5 DEF CallsInv, PassInv
  <2> QED
    BY <2>1, <2>4, <2>5, <2>6, <2>7, <2>8 DEF PassInv
<1> QED
  BY <1>2, <1>3, <1>4, <1>5

\* A step of a call that only reads the header.
LEMMA HeaderKeeps ==
    ASSUME CallsInv, state = "INHEADER", NEW ret, Calls!consume_input(ret),
           UNCHANGED <<file, avail, opts, saved, shown>>,
           \/ ret = "SOS" /\ state' = "READY"
           \/ ret = "EOI" /\ state' \in {"START", "INHEADER"}
           \/ ret = "error" /\ state' = "FAILED"
           \/ ret \notin {"SOS", "EOI", "error"} /\ state' = "INHEADER",
           call' \in {call, "none"}, call \in {"header", "consume"},
           call' # "none" => state' = "INHEADER"
    PROVE  CallsInv'
<1>1. InputTypes /\ HeaderInv
  BY DEF CallsInv, Stages
<1>2. /\ InputTypes' /\ UNCHANGED <<coef, out>>
      /\ ret = "SOS" => ReadyInv'
      /\ ret = "EOI" => (pos \in Calls!Images)'
      /\ ret \notin {"SOS", "error"} => HeaderInv'
  BY <1>1, ConsumeHeader
<1>3. OutInv'
  BY <1>2 DEF CallsInv, OutInv, Placed, Calls!Height
<1>4. Control'
  BY DEF CallsInv, Control, Started, Passes
<1>5. Stages'
  BY <1>2 DEF Stages, Started, Passes
<1>6. PassInv'
  BY DEF PassInv, Started, Passes
<1> QED
  BY <1>2, <1>3, <1>4, <1>5, <1>6 DEF CallsInv

\* jpeg_read_header goes on.
LEMMA HeaderStepKeeps ==
    ASSUME CallsInv, Calls!HeaderStep PROVE CallsInv'
<1>1. PICK ret \in Calls!Results :
        /\ Calls!consume_input(ret)
        /\ state' = CASE ret = "SOS" -> "READY"
                      [] ret = "EOI" -> "START"
                      [] ret = "error" -> "FAILED"
                      [] OTHER -> state
        /\ call' = IF ret = "more" THEN call ELSE "none"
  BY DEF Calls!HeaderStep
<1>2. UNCHANGED <<file, avail, opts, saved, shown>> /\ call = "header"
  BY DEF Calls!HeaderStep, Calls!Source, Calls!Running
<1>3. state = "INHEADER"
  BY <1>2 DEF CallsInv, Control
<1>4. \/ ret = "SOS" /\ state' = "READY"
      \/ ret = "EOI" /\ state' \in {"START", "INHEADER"}
      \/ ret = "error" /\ state' = "FAILED"
      \/ ret \notin {"SOS", "EOI", "error"} /\ state' = "INHEADER"
  BY <1>1, <1>3
<1> QED
  BY <1>1, <1>2, <1>3, <1>4, HeaderKeeps

\* A step of input while decompression goes on: the call goes on, or ends
\* when it has to wait or fails.
LEMMA WaitKeeps ==
    ASSUME CallsInv, state \in Started, NEW ret, Calls!consume_input(ret),
           UNCHANGED <<file, avail, opts, saved, shown>>,
           state' = IF ret = "error" THEN "FAILED" ELSE state,
           call' \in {call, "none"}, ret = "error" => call' = "none"
    PROVE  CallsInv'
<1>1. /\ InputTypes' /\ OutInv' /\ out'.line = out.line
      /\ ret # "error" => ScanInv' /\ PassInv'
  BY InputMoves
<1>2. Control'
  BY <1>1 DEF CallsInv, Control, Started, Passes, Calls!Height
<1>3. Stages'
  BY <1>1 DEF Stages, Started, Passes
<1>4. PassInv'
  <2>1. CASE ret = "error"
    BY <2>1 DEF PassInv, Started, Passes
  <2> QED
    BY <1>1, <2>1
<1> QED
  BY <1>1, <1>2, <1>3, <1>4 DEF CallsInv

\* jpeg_consume_input goes on, in the header or behind it.
LEMMA ConsumeStepKeeps ==
    ASSUME CallsInv, Calls!ConsumeStep PROVE CallsInv'
<1>1. PICK ret \in Calls!Results :
        /\ Calls!consume_input(ret)
        /\ state' = CASE ret = "SOS" /\ state = "INHEADER" -> "READY"
                      [] ret = "error" -> "FAILED"
                      [] OTHER -> state
        /\ call' = IF ret = "more" THEN call ELSE "none"
  BY DEF Calls!ConsumeStep
<1>2. UNCHANGED <<file, avail, opts, saved, shown>> /\ call = "consume"
  BY DEF Calls!ConsumeStep, Calls!Source, Calls!Running
<1>3. state \in {"INHEADER"} \cup Started
  BY <1>2 DEF CallsInv, Control
<1>4. CASE state = "INHEADER"
  <2>1. \/ ret = "SOS" /\ state' = "READY"
        \/ ret = "EOI" /\ state' \in {"START", "INHEADER"}
        \/ ret = "error" /\ state' = "FAILED"
        \/ ret \notin {"SOS", "EOI", "error"} /\ state' = "INHEADER"
    BY <1>1, <1>4
  <2> QED
    BY <1>1, <1>2, <1>4, <2>1, HeaderKeeps
<1>5. CASE state \in Started
  <2>1. state # "INHEADER"
    BY <1>5 DEF Started, Passes
  <2>2. state' = IF ret = "error" THEN "FAILED" ELSE state
    BY <1>1, <2>1
  <2> QED
    BY <1>1, <1>2, <1>5, <2>2, WaitKeeps
<1> QED
  BY <1>3, <1>4, <1>5

\* The file goes to the coefficient buffer.
LEMMA PreloadStepKeeps ==
    ASSUME CallsInv, Calls!PreloadStep PROVE CallsInv'
<1>1. PICK ret \in Calls!Results : Calls!Wait(ret)
  BY DEF Calls!PreloadStep
<1>2. UNCHANGED <<file, avail, opts, saved, shown>> /\ call = "preload"
  BY DEF Calls!PreloadStep, Calls!Source, Calls!Running
<1>3. state \in Started
  BY <1>2 DEF CallsInv, Control, Started
<1> QED
  BY <1>1, <1>2, <1>3, WaitKeeps DEF Calls!Wait

\* The rest of a scan, or of the file, is read over.
LEMMA FinishStepKeeps ==
    ASSUME CallsInv, Calls!FinishStep PROVE CallsInv'
<1>1. PICK ret \in Calls!Results : Calls!Wait(ret)
  BY DEF Calls!FinishStep
<1>2. /\ UNCHANGED <<file, avail, opts, saved, shown>>
      /\ call \in {"finish", "finish_output"}
  BY DEF Calls!FinishStep, Calls!Source, Calls!Running
<1>3. state \in Started
  BY <1>2 DEF CallsInv, Control, Started
<1> QED
  BY <1>1, <1>2, <1>3, WaitKeeps DEF Calls!Wait

\* Input that an output row has to wait for.
LEMMA ForceInputKeeps ==
    ASSUME CallsInv, Calls!ForceInput PROVE CallsInv'
<1>1. PICK ret \in Calls!Results : Calls!Wait(ret)
  BY DEF Calls!ForceInput
<1>2. /\ UNCHANGED <<file, avail, opts, saved, shown>>
      /\ call \in {"read", "setup"}
  BY DEF Calls!ForceInput, Calls!Source, Calls!WantsRow, Calls!Running
<1>3. state \in Started
  BY <1>2 DEF CallsInv, Control, Started, Passes
<1> QED
  BY <1>1, <1>2, <1>3, WaitKeeps DEF Calls!Wait

-----------------------------------------------------------------------------
(* Steps of the output.                                                    *)

\* The lines up to an iMCU row.
LEMMA HeightFacts ==
    ASSUME NEW r \in 0..Rows
    PROVE  /\ Calls!Height \in Nat /\ r * Lines \in Nat
           /\ r * Lines <= Calls!Height
           /\ r * Lines < Calls!Height => r < Rows
           /\ (r + 1) * Lines = r * Lines + Lines
<1>1. Rows \in Nat /\ Lines \in Nat /\ r \in Nat
  BY CallFacts
<1> DEFINE gap == Rows - r
           x == r * Lines
           y == gap * Lines
<1>2. gap \in Nat /\ x \in Nat /\ y \in Nat /\ Rows = gap + r
  BY <1>1
<1>3. Calls!Height = y + x
  <2>1. (gap + r) * Lines = gap * Lines + r * Lines
    BY <1>1, <1>2
  <2> HIDE DEF gap
  <2> QED
    BY <1>2, <2>1 DEF Calls!Height
<1>4. (r + 1) * Lines = x + Lines
  BY <1>1
<1>5. r = Rows => x = Calls!Height
  BY DEF Calls!Height
<1> HIDE DEF gap, x, y
<1> QED
  BY <1>1, <1>2, <1>3, <1>4, <1>5 DEF x

\* The iMCU row that a line is in.
LEMMA LineRow ==
    ASSUME NEW r \in Nat, NEW k \in Nat, k < r * Lines,
           k + Lines >= r * Lines
    PROVE  k \div Lines = r - 1
<1> DEFINE n == Lines
           x == (r - 1) * n
           left == k - x
<1>1. n \in Nat /\ n > 0
  BY CallFacts
<1>2. r > 0
  <2>1. r # 0
    <3>1. 0 * Lines = 0
      BY CallFacts
    <3> QED
      BY <3>1
  <2> QED
    BY <2>1
<1>3. r * n = x + n /\ x \in Int
  BY <1>1
<1>4. left \in 0..(n - 1) /\ k = x + left
  <2> HIDE DEF x
  <2> QED
    BY <1>1, <1>3
<1> HIDE DEF n, left
<1>5. k = (r - 1) * n + left
  BY <1>4
<1>6. k \div n = r - 1
  BY <1>1, <1>4, <1>5
<1> QED
  BY <1>6 DEF n

\* What is known of a decoded row: the least of its scans.
LEMMA HeldFacts ==
    ASSUME NEW r \in 0..(Rows - 1), NEW s \in Int, out.scan \in Int
    PROVE  \A f : (\A c \in 0..(Cols - 1) : f[r][c] = s \/ f[r][c] = s - 1) =>
             LET h == Calls!Held(r, f)
             IN  /\ h \in Row /\ h.row = r /\ h.want = out.scan
                 /\ h.scan \in {s, s - 1}
                 /\ (\A c \in 0..(Cols - 1) : f[r][c] = s) => h.scan = s
<1> SUFFICES ASSUME NEW f,
                    \A c \in 0..(Cols - 1) : f[r][c] = s \/ f[r][c] = s - 1
             PROVE  LET h == Calls!Held(r, f)
                    IN  /\ h \in Row /\ h.row = r /\ h.want = out.scan
                        /\ h.scan \in {s, s - 1}
                        /\ (\A c \in 0..(Cols - 1) : f[r][c] = s) =>
                             h.scan = s
  OBVIOUS
<1> DEFINE T == {f[r][k] : k \in 0..(Cols - 1)}
           m == Calls!MinOf(T)
<1>1. T \subseteq {s, s - 1} /\ f[r][0] \in T
  BY CallFacts
<1>2. \E x \in T : \A y \in T : x <= y
  <2>1. CASE s - 1 \in T
    BY <1>1, <2>1
  <2>2. CASE s - 1 \notin T
    <3>1. T = {s}
      BY <1>1, <2>2
    <3> QED
      BY <3>1
  <2> QED
    BY <2>1, <2>2
<1>3. m \in T
  BY <1>2 DEF Calls!MinOf
<1>4. Calls!Held(r, f) = [row |-> r, scan |-> m, want |-> out.scan]
  BY DEF Calls!Held
<1>5. m \in {s, s - 1} /\ m \in Int
  BY <1>1, <1>3
<1>6. (\A c \in 0..(Cols - 1) : f[r][c] = s) => m = s
  BY <1>3
<1> HIDE DEF m
<1> QED
  BY <1>4, <1>5, <1>6 DEF Row

\* A decoded row goes to the main controller's buffer.
LEMMA TakeRowFacts ==
    ASSUME NEW o \in Side, NEW h \in Row
    PROVE  LET p == [o EXCEPT !.row = @ + 1, !.left = Lines, !.held = h]
           IN  /\ p \in Side /\ p.row = o.row + 1 /\ p.left = Lines
               /\ p.held = h /\ p.dummy = o.dummy /\ p.scan = o.scan
               /\ p.line = o.line /\ p.crank = o.crank
<1> DEFINE p == [o EXCEPT !.row = o.row + 1, !.left = Lines, !.held = h]
<1>1. o.row + 1 \in Nat /\ Lines \in Int
  BY CallFacts DEF Side
<1>2. p \in Side
  BY <1>1 DEF Side
<1>3. p.row = o.row + 1 /\ p.left = Lines /\ p.held = h
  BY DEF Side
<1>4. p.dummy = o.dummy /\ p.scan = o.scan
  BY DEF Side
<1>5. p.line = o.line /\ p.crank = o.crank
  BY DEF Side
<1> QED
  BY <1>2, <1>3, <1>4, <1>5

\* Lines leave it.
LEMMA TakeLinesFacts ==
    ASSUME NEW o \in Side, NEW n \in Nat, NEW l \in Int
    PROVE  LET p == [o EXCEPT !.line = @ + n, !.left = l]
           IN  /\ p \in Side /\ p.line = o.line + n /\ p.left = l
               /\ p.held = o.held /\ p.dummy = o.dummy /\ p.scan = o.scan
               /\ p.row = o.row /\ p.crank = o.crank
<1> DEFINE p == [o EXCEPT !.line = o.line + n, !.left = l]
<1>1. o.line + n \in Nat
  BY DEF Side
<1>2. p \in Side
  BY <1>1 DEF Side
<1>3. p.line = o.line + n /\ p.left = l /\ p.held = o.held
  BY DEF Side
<1>4. p.dummy = o.dummy /\ p.scan = o.scan
  BY DEF Side
<1>5. p.row = o.row /\ p.crank = o.crank
  BY DEF Side
<1> QED
  BY <1>2, <1>3, <1>4, <1>5

\* Some copies of a line behind others.
LEMMA CopiesFacts ==
    ASSUME NEW s \in Seq(Row), NEW n \in Nat, NEW h \in Row
    PROVE  LET t == s \o [i \in 1..n |-> h]
           IN  /\ t \in Seq(Row) /\ Len(t) = Len(s) + n
               /\ \A k \in DOMAIN t :
                    \/ k \in DOMAIN s /\ t[k] = s[k]
                    \/ k \in (Len(s) + 1)..(Len(s) + n) /\ t[k] = h
<1> DEFINE u == [i \in 1..n |-> h]
           t == s \o u
<1>1. u \in Seq(Row) /\ Len(u) = n /\ \A i \in 1..n : u[i] = h
  OBVIOUS
<1> HIDE DEF u
<1>2. t \in Seq(Row) /\ Len(t) = Len(s) + n
  BY <1>1
<1>3. ASSUME NEW k \in DOMAIN t
      PROVE  \/ k \in DOMAIN s /\ t[k] = s[k]
             \/ k \in (Len(s) + 1)..(Len(s) + n) /\ t[k] = h
  <2>1. k \in 1..(Len(s) + n) /\ Len(s) \in Nat /\ DOMAIN s = 1..Len(s)
    BY <1>2
  <2>2. CASE k <= Len(s)
    BY <1>1, <2>1, <2>2
  <2>3. CASE k > Len(s)
    BY <1>1, <2>1, <2>3
  <2> QED
    BY <2>1, <2>2, <2>3
<1> QED
  BY <1>2, <1>3 DEF u

\* The types that the output steps need.
LEMMA OutTypes ==
    ASSUME CallsInv
    PROVE  /\ out \in Side /\ out.row \in 0..Rows /\ out.line \in Nat
           /\ out.line \in 0..Calls!Height /\ out.left \in 0..Lines
           /\ out.scan \in Int /\ out.held \in Row /\ out.left \in Nat
           /\ in \in Input /\ in.scan \in Int /\ in.row \in Nat
           /\ in.multi \in BOOLEAN /\ Lines \in Nat /\ Lines > 0
           /\ opts \in Options /\ opts.buffered \in BOOLEAN
           /\ (opts.raw => ~opts.twoPass)
<1>1. out \in Side /\ out.row \in 0..Rows /\ out.line \in Nat
      /\ out.line \in 0..Calls!Height /\ out.left \in 0..Lines
      /\ out.scan \in Int /\ out.held \in Row
  BY DEF CallsInv, OutInv, Side
<1>2. in \in Input /\ in.scan \in Int /\ in.row \in Nat
      /\ in.multi \in BOOLEAN
  BY DEF CallsInv, InputTypes, Input
<1>3. opts \in Options /\ opts.buffered \in BOOLEAN
      /\ (opts.raw => ~opts.twoPass)
  BY CallFacts DEF CallsInv, Control
<1>4. Lines \in Nat /\ Lines > 0
  BY CallFacts
<1>5. out.left \in Nat
  BY <1>1, <1>4
<1> QED
  BY <1>1, <1>2, <1>3, <1>4, <1>5

\* A pass begins: nothing is left in the buffers, nothing shown.
LEMMA SetupPassKeeps ==
    ASSUME CallsInv, Calls!SetupPass PROVE CallsInv'
<1>1. /\ UNCHANGED <<file, pos, avail, opts, in, coef, call>>
      /\ call = "setup" /\ state # "PRESCAN" /\ state' = "PRESCAN"
      /\ shown' = <<>> /\ saved' = <<>>
  BY DEF Calls!SetupPass, Calls!Source, Calls!Running
<1>2. PICK smooth \in BOOLEAN : out' = Calls!Prepared(out, smooth)
  BY DEF Calls!SetupPass
<1>3. state \in {"PRELOAD", "BUFIMAGE"} /\ (state = "BUFIMAGE" => opts.buffered)
  BY <1>1 DEF CallsInv, Control
<1>4. ~out.dummy
  BY <1>3 DEF CallsInv, PassInv, Started
<1>5. /\ out' \in Side /\ out'.scan = out.scan /\ out'.line = 0
      /\ ~out'.crank /\ out'.row = 0 /\ out'.left = 0
      /\ out'.dummy => opts.twoPass
  BY <1>2, <1>4, OutTypes, PreparedFacts
<1>6. InputTypes' /\ Stages'
  BY <1>1, <1>3, Frame DEF CallsInv, Stages, Started, Passes
<1>7. OutInv'
  <2>1. 0 + 0 = 0 * Lines /\ 0 \in 0..Rows /\ 0 \in 0..Lines
        /\ 0 \in 0..Calls!Height
    <3>1. 0 \in 0..Rows /\ 0 \in 0..Lines /\ 0 * Lines = 0
      BY CallFacts
    <3>2. Calls!Height \in Nat
      BY <3>1, HeightFacts
    <3> QED
      BY <3>1, <3>2
  <2>2. <<>> \in Seq(Row) /\ Len(<<>>) = 0 /\ DOMAIN <<>> = {}
    OBVIOUS
  <2>3. Calls!Height' = Calls!Height
    BY DEF Calls!Height
  <2> QED
    BY <1>1, <1>5, <2>1, <2>2, <2>3 DEF OutInv
<1>8. Control'
  BY <1>1 DEF CallsInv, Control, Started, Passes
<1>9. PassInv'
  <2>1. in.eoi => out.scan <= in.scan
    BY <1>3 DEF CallsInv, PassInv, Started
  <2>2. ~opts.buffered => out.scan = in.scan /\ (in.multi => in.eoi)
    BY <1>1 DEF CallsInv, PassInv
  <2>3. ~in.multi /\ ~opts.buffered => in.row = 0
    BY <1>3 DEF CallsInv, PassInv
  <2>4. Len(<<>>) = 0 /\ DOMAIN <<>> = {}
    OBVIOUS
  <2> QED
    BY <1>1, <1>5, <2>1, <2>2, <2>3, <2>4 DEF PassInv, Started, Passes
<1> QED
  BY <1>6, <1>7, <1>8, <1>9 DEF CallsInv

\* The colours are chosen; the lines are all in the saved image.
LEMMA DummyDoneKeeps ==
    ASSUME CallsInv, Calls!DummyDone PROVE CallsInv'
<1> DEFINE o == [out EXCEPT !.colormap = TRUE]
<1>1. /\ UNCHANGED <<file, pos, avail, opts, in, coef, call, state, saved,
                     shown>>
      /\ call = "setup" /\ state = "PRESCAN" /\ out.dummy
      /\ out.line = Calls!Height /\ out' = Calls!Prepared(o, FALSE)
  BY DEF Calls!DummyDone, Calls!Source, Calls!Running
<1>2. /\ o \in Side /\ o.dummy = out.dummy /\ o.scan = out.scan
      /\ o.row = out.row /\ o.line = out.line /\ o.crank = out.crank
      /\ o.left = out.left /\ o.held = out.held
  BY OutTypes, SideFacts, Members
<1> HIDE DEF o
<1>3. /\ out' \in Side /\ out'.scan = out.scan /\ out'.line = 0
      /\ out'.held = out.held /\ ~out'.dummy /\ out'.crank
      /\ out'.row = out.row /\ out'.left = out.left
  BY <1>1, <1>2, PreparedFacts, Members
<1>4. /\ ~out.crank /\ opts.twoPass /\ Len(saved) = out.line
      /\ out.line + out.left = out.row * Lines
  BY <1>1 DEF CallsInv, OutInv
<1>5. out.left = 0
  <2> DEFINE x == out.row * Lines
  <2>1. x \in Nat /\ x <= Calls!Height /\ Calls!Height \in Nat
    BY OutTypes, HeightFacts
  <2>2. out.line + out.left = x
    BY <1>4
  <2> HIDE DEF x
  <2> QED
    BY <1>1, <2>1, <2>2, OutTypes
<1>6. InputTypes' /\ Stages'
  BY <1>1, Frame DEF CallsInv, Stages, Started, Passes
<1>7. OutInv'
  <2>1. 0 \in 0..Calls!Height /\ Calls!Height' = Calls!Height
    BY OutTypes, HeightFacts DEF Calls!Height
  <2> QED
    BY <1>1, <1>3, <1>4, <1>5, <2>1 DEF CallsInv, OutInv, Placed
<1>8. Control'
  BY <1>1 DEF CallsInv, Control, Started, Passes
<1>9. PassInv'
  <2>1. Len(<<>>) = 0
    OBVIOUS
  <2> QED
    BY <1>1, <1>3, <1>5, <2>1
       DEF CallsInv, PassInv, Complete, Started, Passes
<1> QED
  BY <1>6, <1>7, <1>8, <1>9 DEF CallsInv

\* A row is wanted only in a pass, above the bottom, when none is buffered.
LEMMA WantsRowFacts ==
    ASSUME CallsInv, Calls!WantsRow
    PROVE  /\ call \in {"read", "setup"} /\ state \in Passes
           /\ ~out.crank /\ out.left = 0 /\ out.line < Calls!Height
           /\ out.line = out.row * Lines /\ out.row < Rows
           /\ (out.row + 1) * Lines = out.line + Lines
<1>1. /\ call \in {"read", "setup"} /\ state \in Passes
      /\ out.left = 0 /\ out.line < Calls!Height
  BY DEF Calls!WantsRow, Calls!Running, CallsInv, Control, Passes
<1>2. ~out.crank
  BY DEF Calls!WantsRow, CallsInv, OutInv
<1>3. out.line = out.row * Lines
  <2> DEFINE x == out.row * Lines
  <2>1. out.line + out.left = x /\ x \in Int
    BY <1>2, OutTypes, HeightFacts DEF CallsInv, OutInv
  <2> HIDE DEF x
  <2>2. out.line = x
    BY <1>1, <2>1, OutTypes
  <2> QED
    BY <2>2 DEF x
<1>4. out.row < Rows /\ (out.row + 1) * Lines = out.line + Lines
  BY <1>1, <1>3, OutTypes, HeightFacts
<1> QED
  BY <1>1, <1>2, <1>3, <1>4

\* A row of the pass is decoded: what is kept of it is in place and not
\* older than was asked for.
LEMMA TakeRowKeeps ==
    ASSUME CallsInv, Calls!WantsRow, NEW h \in Row,
           out' = [out EXCEPT !.row = @ + 1, !.left = Lines, !.held = h],
           h.row = out.row, h.scan >= h.want,
           UNCHANGED <<opts, state, saved, shown>>
    PROVE  OutInv'
<1>1. /\ out' \in Side /\ out'.row = out.row + 1 /\ out'.left = Lines
      /\ out'.held = h /\ out'.dummy = out.dummy /\ out'.scan = out.scan
      /\ out'.line = out.line /\ out'.crank = out.crank
  BY OutTypes, TakeRowFacts
<1>2. /\ ~out.crank /\ out.row < Rows
      /\ (out.row + 1) * Lines = out.line + Lines
  BY WantsRowFacts
<1>3. /\ out'.row \in 0..Rows /\ out'.left \in 0..Lines
      /\ out'.held.row = out'.row - 1 /\ Rows \in Nat
      /\ out'.line + out'.left = out'.row * Lines
  <2>1. out'.row * Lines = (out.row + 1) * Lines
    BY <1>1
  <2>2. out'.line + out'.left = out.line + Lines
    BY <1>1
  <2>3. /\ out'.row \in 0..Rows /\ out'.left \in 0..Lines
        /\ out'.held.row = out'.row - 1 /\ Rows \in Nat
    <3>1. out.row \in 0..Rows /\ Rows \in Nat /\ Lines \in Nat
      BY OutTypes, CallFacts
    <3>2. out.row + 1 \in 0..Rows /\ out.row + 1 - 1 = out.row
          /\ Lines \in 0..Lines
      BY <1>2, <3>1
    <3> QED
      BY <1>1, <3>1, <3>2
  <2> QED
    BY <1>2, <2>1, <2>2, <2>3
<1>4. Calls!Height' = Calls!Height
  BY DEF Calls!Height
<1> QED
  BY <1>1, <1>2, <1>3, <1>4 DEF CallsInv, OutInv, Placed

\* A row comes from the coefficient buffer: the input is ahead of it.
LEMMA DecompressDataKeeps ==
    ASSUME CallsInv, Calls!decompress_data PROVE CallsInv'
<1> DEFINE h == Calls!Held(out.row, coef)
<1>1. /\ UNCHANGED <<file, pos, avail, opts, in, coef, call, state, saved,
                     shown>>
      /\ Calls!WantsRow /\ ~Calls!AheadOfInput
      /\ in.multi \/ opts.buffered
      /\ out' = [out EXCEPT !.row = @ + 1, !.left = Lines, !.held = h]
  BY DEF Calls!decompress_data, Calls!Source, Calls!UseCBuffer
<1>2. /\ state \in Passes /\ ~out.crank /\ out.row < Rows
      /\ out.line < Calls!Height
  BY <1>1, WantsRowFacts
<1>3. /\ ScanInv /\ InputTypes
      /\ in.eoi => out.scan <= in.scan
      /\ ~opts.buffered => out.scan = in.scan /\ (in.multi => in.eoi)
  BY <1>2 DEF CallsInv, Stages, PassInv, Started
<1>4. out.row \in 0..(Rows - 1)
  BY <1>2, OutTypes, CallFacts
<1>5. \A c \in 0..(Cols - 1) :
        coef[out.row][c] = IF Brought(out.row, c) THEN in.scan
                           ELSE in.scan - 1
  BY <1>3, <1>4 DEF ScanInv
<1>6. /\ h \in Row /\ h.row = out.row /\ h.want = out.scan
      /\ h.scan \in {in.scan, in.scan - 1}
      /\ (\A c \in 0..(Cols - 1) : coef[out.row][c] = in.scan) =>
           h.scan = in.scan
  <2>1. \A c \in 0..(Cols - 1) : \/ coef[out.row][c] = in.scan
                                   \/ coef[out.row][c] = in.scan - 1
    BY <1>5
  <2>2. out.scan \in Int
    BY OutTypes
  <2>3. PICK r \in 0..(Rows - 1) : r = out.row
    BY <1>4
  <2>4. PICK s \in Int : s = in.scan
    BY OutTypes
  <2>5. \A c \in 0..(Cols - 1) : coef[r][c] = s \/ coef[r][c] = s - 1
    BY <2>1, <2>3, <2>4
  <2>6. /\ Calls!Held(r, coef) \in Row
        /\ Calls!Held(r, coef).row = r
        /\ Calls!Held(r, coef).want = out.scan
        /\ Calls!Held(r, coef).scan \in {s, s - 1}
        /\ (\A c \in 0..(Cols - 1) : coef[r][c] = s) =>
             Calls!Held(r, coef).scan = s
    <3>1. \A f : (\A c \in 0..(Cols - 1) : f[r][c] = s \/ f[r][c] = s - 1) =>
             LET k == Calls!Held(r, f)
             IN  /\ k \in Row /\ k.row = r /\ k.want = out.scan
                 /\ k.scan \in {s, s - 1}
                 /\ (\A c \in 0..(Cols - 1) : f[r][c] = s) => k.scan = s
      BY <2>2, HeldFacts
    <3> QED
      BY <2>5, <3>1
  <2> QED
    BY <2>3, <2>4, <2>6
<1>7. in.eoi => h.scan = in.scan
  <2> SUFFICES ASSUME in.eoi PROVE h.scan = in.scan
    OBVIOUS
  <2>1. in.consume = "markers"
    BY <1>3 DEF ScanInv
  <2> QED
    BY <1>5, <1>6, <2>1 DEF Brought
<1>8. in.row > out.row => h.scan = in.scan
  <2> SUFFICES ASSUME in.row > out.row PROVE h.scan = in.scan
    OBVIOUS
  <2>1. \A c \in 0..(Cols - 1) : Brought(out.row, c)
    BY OutTypes DEF Brought
  <2> QED
    BY <1>5, <1>6, <2>1
<1> HIDE DEF h
<1>9. h.scan >= h.want
  <2>1. in.eoi \/ in.scan > out.scan \/ (in.scan = out.scan /\ in.row > out.row)
    <3>1. CASE out.smooth
      BY <1>1, <3>1, OutTypes DEF Calls!AheadOfInput
    <3>2. CASE ~out.smooth
      BY <1>1, <3>2, OutTypes DEF Calls!AheadOfInput
    <3> QED
      BY <3>1, <3>2
  <2>2. CASE in.eoi
    BY <1>3, <1>6, <1>7, <2>2, OutTypes
  <2>3. CASE in.scan > out.scan
    BY <1>6, <2>3, OutTypes
  <2>4. CASE in.scan = out.scan /\ in.row > out.row
    BY <1>6, <1>8, <2>4, OutTypes
  <2> QED
    BY <2>1, <2>2, <2>3, <2>4
<1>10. InputTypes' /\ Stages'
  BY <1>1, <1>2, Frame DEF CallsInv, Stages, Started, Passes
<1>11. OutInv'
  BY <1>1, <1>6, <1>9, TakeRowKeeps
<1>12. /\ out'.row = out.row + 1 /\ out'.held = h /\ out'.dummy = out.dummy
       /\ out'.scan = out.scan /\ out'.line = out.line
  BY <1>1, <1>6, OutTypes, TakeRowFacts
<1>13. Control'
  BY <1>1, <1>12 DEF CallsInv, Control, Started, Passes, Calls!Height
<1>14. PassInv'
  <2>1. ~opts.buffered /\ in.multi => h.scan = in.scan
    BY <1>3, <1>7
  <2>2. (out.left > 0 => Complete(out.held))'
    BY <1>1, <1>12, <2>1 DEF Complete
  <2> QED
    BY <1>1, <1>12, <2>2 DEF CallsInv, PassInv, Complete, Started, Passes
<1> QED
  BY <1>10, <1>11, <1>13, <1>14 DEF CallsInv

\* Input and output in lockstep.
LEMMA DecompressOnepassKeeps ==
    ASSUME CallsInv, Calls!decompress_onepass PROVE CallsInv'
<1> DEFINE h == Calls!Held(in.row, coef')
<1>1. /\ UNCHANGED <<file, avail, opts, state, saved, shown>>
      /\ Calls!WantsRow /\ ~in.multi /\ ~opts.buffered
  BY DEF Calls!decompress_onepass, Calls!Source, Calls!UseCBuffer
<1>2. PICK ret \in Calls!Results :
        /\ Calls!decode_mcu(ret)
        /\ call' = IF ret = "SUSPENDED" THEN "none" ELSE call
        /\ out' = IF ret \notin {"ROW", "SCAN"} THEN out
                  ELSE [out EXCEPT !.row = @ + 1, !.left = Lines, !.held = h]
  BY DEF Calls!decompress_onepass
<1>3. /\ state \in Passes /\ ~out.crank /\ out.row < Rows
      /\ out.line < Calls!Height /\ call \in {"read", "setup"}
  BY <1>1, WantsRowFacts
<1>4. /\ ScanInv /\ InputTypes
      /\ out.scan = in.scan /\ in.row = out.row
  BY <1>1, <1>3 DEF CallsInv, Stages, PassInv, Started
<1>5. /\ InputTypes' /\ ScanInv'
      /\ in'.scan = in.scan /\ in'.multi = in.multi /\ ~in'.eoi
      /\ \/ ret = "SUSPENDED" /\ in'.row = in.row
         \/ ret = "more" /\ in'.row = in.row
         \/ /\ ret \in {"ROW", "SCAN"} /\ in'.row = in.row + 1
            /\ \A c \in 0..(Cols - 1) : coef'[in.row][c] = in.scan
  BY <1>1, <1>2, <1>4, DecodeMCU
<1>6. Stages'
  BY <1>1, <1>3, <1>5 DEF Stages, Started, Passes
<1>7. CASE ret \notin {"ROW", "SCAN"}
  <2>1. out' = out /\ in'.row = in.row
    BY <1>2, <1>5, <1>7
  <2>2. OutInv'
    BY <1>1, <2>1 DEF CallsInv, OutInv, Placed, Calls!Height
  <2>3. Control'
    BY <1>1, <1>2, <2>1 DEF CallsInv, Control, Started, Passes, Calls!Height
  <2>4. PassInv'
    BY <1>1, <1>3, <1>4, <1>5, <2>1
       DEF CallsInv, PassInv, Complete, Started, Passes
  <2> QED
    BY <1>5, <1>6, <2>2, <2>3, <2>4 DEF CallsInv
<1>8. CASE ret \in {"ROW", "SCAN"}
  <2>1. out' = [out EXCEPT !.row = @ + 1, !.left = Lines, !.held = h]
    BY <1>2, <1>8
  <2>2. in'.row = in.row + 1 /\ call' = call
    BY <1>2, <1>5, <1>8
  <2>3. h \in Row /\ h.row = out.row /\ h.want = out.scan /\ h.scan = in.scan
    <3>1. PICK r \in 0..(Rows - 1) : r = in.row
      BY <1>3, <1>4, OutTypes, CallFacts
    <3>2. PICK s \in Int : s = in.scan
      BY OutTypes
    <3>3. \A c \in 0..(Cols - 1) : coef'[r][c] = s
      BY <1>5, <1>8, <3>1, <3>2
    <3>4. PICK f : f = coef'
      OBVIOUS
    <3>5. \A g : (\A c \in 0..(Cols - 1) : g[r][c] = s \/ g[r][c] = s - 1) =>
             LET k == Calls!Held(r, g)
             IN  /\ k \in Row /\ k.row = r /\ k.want = out.scan
                 /\ k.scan \in {s, s - 1}
                 /\ (\A c \in 0..(Cols - 1) : g[r][c] = s) => k.scan = s
      BY HeldFacts, OutTypes
    <3>6. \A c \in 0..(Cols - 1) : f[r][c] = s
      BY <3>3, <3>4
    <3> DEFINE k == Calls!Held(r, f)
    <3>7. k \in Row /\ k.row = r /\ k.want = out.scan /\ k.scan = s
      BY <3>5, <3>6
    <3>8. h = k
      BY <3>1, <3>4
    <3> HIDE DEF h, k
    <3> QED
      BY <1>4, <3>1, <3>2, <3>7, <3>8
  <2> HIDE DEF h
  <2>4. h.scan >= h.want
    BY <1>4, <2>3, OutTypes
  <2>5. OutInv'
    BY <1>1, <2>1, <2>3, <2>4, TakeRowKeeps
  <2>6. /\ out'.row = out.row + 1 /\ out'.held = h /\ out'.dummy = out.dummy
        /\ out'.scan = out.scan /\ out'.line = out.line
    BY <2>1, <2>3, OutTypes, TakeRowFacts
  <2>7. Control'
    BY <1>1, <2>2, <2>6
       DEF CallsInv, Control, Started, Passes, Calls!Height
  <2>8. PassInv'
    BY <1>1, <1>3, <1>4, <1>5, <2>2, <2>6
       DEF CallsInv, PassInv, Complete, Started, Passes
  <2> QED
    BY <1>5, <1>6, <2>5, <2>7, <2>8 DEF CallsInv
<1> QED
  BY <1>7, <1>8

\* The line to be delivered is the one below the last.
LEMMA HeldPlaced ==
    ASSUME CallsInv, out.left > 0, NEW k \in Nat,
           k > out.line, k <= out.line + out.left
    PROVE  Placed(k, out.held)
<1>1. /\ out.held.row = out.row - 1 /\ out.held.scan >= out.held.want
      /\ ~out.crank
  BY DEF CallsInv, OutInv
<1>2. out.line + out.left = out.row * Lines
  BY <1>1 DEF CallsInv, OutInv
<1> DEFINE x == out.row * Lines
<1>3. x \in Nat /\ out.line + out.left = x
  BY <1>2, OutTypes, HeightFacts
<1>4. out.row \in Nat /\ k - 1 \in Nat /\ k - 1 < x /\ k - 1 + Lines >= x
  <2> HIDE DEF x
  <2>1. out.row \in Nat /\ out.line \in Nat /\ out.left \in 0..Lines
        /\ Lines \in Nat
    BY OutTypes, CallFacts
  <2> QED
    BY <1>3, <2>1
<1>5. (k - 1) \div Lines = out.row - 1
  BY <1>4, LineRow
<1> QED
  BY <1>1, <1>5 DEF Placed

\* Lines go to the application.
LEMMA ReadLineKeeps ==
    ASSUME CallsInv, Calls!ReadLine PROVE CallsInv'
<1> DEFINE n == IF opts.raw THEN out.left ELSE 1
           l == IF out.crank THEN out.left ELSE out.left - n
           h == Calls!Line
<1>1. /\ UNCHANGED <<file, pos, avail, state, opts, in, coef, saved>>
      /\ call = "read" /\ call' = "none" /\ (out.crank \/ out.left > 0)
      /\ shown' = shown \o [i \in 1..n |-> h]
      /\ out' = [out EXCEPT !.line = @ + n, !.left = l]
  BY DEF Calls!ReadLine, Calls!Source, Calls!Running
<1>2. /\ state \in {"SCANNING", "RAW_OK"} /\ out.line < Calls!Height
      /\ Calls!Height \in Nat
  BY <1>1, OutTypes, HeightFacts DEF CallsInv, Control
<1>3. /\ ~out.dummy /\ Len(shown) = out.line /\ shown \in Seq(Row)
      /\ saved \in Seq(Row)
      /\ out.left > 0 => Complete(out.held)
      /\ \A k \in DOMAIN saved : Complete(saved[k]) /\ Placed(k, saved[k])
      /\ \A k \in DOMAIN shown : Complete(shown[k]) /\ Placed(k, shown[k])
  BY <1>2 DEF CallsInv, OutInv, PassInv, Started, Passes
<1>4. out.crank => ~opts.raw /\ out.left = 0 /\ Len(saved) = Calls!Height
  BY OutTypes DEF CallsInv, OutInv
<1>5. /\ n \in Nat /\ n > 0 /\ out.line + n <= Calls!Height
      /\ l \in 0..Lines
      /\ ~out.crank => n <= out.left /\ out.line + n + l = out.row * Lines
  <2>1. CASE out.crank
    BY <1>2, <1>4, <2>1, OutTypes
  <2>2. CASE ~out.crank
    <3> DEFINE x == out.row * Lines
    <3>1. out.left > 0 /\ out.line + out.left = x
      BY <1>1, <2>2 DEF CallsInv, OutInv
    <3>2. x \in Nat /\ x <= Calls!Height
      BY OutTypes, HeightFacts
    <3> HIDE DEF x
    <3>3. n \in Nat /\ n > 0 /\ n <= out.left /\ l = out.left - n
      BY <2>2, <3>1, OutTypes
    <3> HIDE DEF n, l
    <3>4. out.line + n + l = x /\ l \in 0..Lines
          /\ out.line + n <= Calls!Height
      BY <1>2, <3>1, <3>2, <3>3, OutTypes
    <3> QED
      BY <2>2, <3>3, <3>4 DEF x
  <2> QED
    BY <2>1, <2>2
<1>6. /\ h \in Row /\ Complete(h)
      /\ \A k \in (out.line + 1)..(out.line + n) : Placed(k, h)
  <2>1. CASE out.crank
    <3>1. h = saved[out.line + 1] /\ n = 1
      BY <1>4, <2>1 DEF Calls!Line
    <3>2. out.line + 1 \in DOMAIN saved
      BY <1>2, <1>3, <1>4, <2>1, OutTypes
    <3>3. h \in Row
      BY <1>3, <3>1, <3>2
    <3> HIDE DEF h, n
    <3>4. Complete(h) /\ Placed(out.line + 1, h)
      BY <1>3, <3>1, <3>2
    <3>5. \A k \in (out.line + 1)..(out.line + n) : k = out.line + 1
      BY <3>1, OutTypes
    <3> QED
      BY <3>3, <3>4, <3>5
  <2>2. CASE ~out.crank
    <3>1. h = out.held /\ out.left > 0
      BY <1>1, <2>2 DEF Calls!Line
    <3> HIDE DEF h, n
    <3>2. ASSUME NEW k \in (out.line + 1)..(out.line + n)
          PROVE  Placed(k, out.held)
      <4>1. k \in Nat /\ k > out.line /\ k <= out.line + out.left
        BY <1>5, <2>2, OutTypes
      <4> QED
        BY <3>1, <4>1, HeldPlaced
    <3> QED
      BY <1>3, <3>1, <3>2, OutTypes
  <2> QED
    BY <2>1, <2>2
<1> HIDE DEF n, l, h
<1>7. /\ shown' \in Seq(Row) /\ Len(shown') = out.line + n
      /\ \A k \in DOMAIN shown' :
           \/ k \in DOMAIN shown /\ shown'[k] = shown[k]
           \/ k \in (out.line + 1)..(out.line + n) /\ shown'[k] = h
  <2> DEFINE t == shown \o [i \in 1..n |-> h]
  <2>1. n \in Nat /\ h \in Row /\ shown \in Seq(Row)
    BY <1>3, <1>5, <1>6
  <2>2. /\ t \in Seq(Row) /\ Len(t) = Len(shown) + n
        /\ \A k \in DOMAIN t :
             \/ k \in DOMAIN shown /\ t[k] = shown[k]
             \/ k \in (Len(shown) + 1)..(Len(shown) + n) /\ t[k] = h
    BY <2>1, CopiesFacts
  <2>3. shown' = t
    BY <1>1
  <2> HIDE DEF t
  <2> QED
    BY <1>3, <2>2, <2>3
<1>8. \A k \in DOMAIN shown' : Placed(k, shown'[k]) /\ Complete(shown'[k])
  BY <1>3, <1>6, <1>7
<1>9. /\ out' \in Side /\ out'.line = out.line + n /\ out'.left = l
      /\ out'.held = out.held /\ out'.dummy = out.dummy
      /\ out'.scan = out.scan /\ out'.row = out.row
      /\ out'.crank = out.crank
  <2>1. l \in Int /\ out \in Side
    BY <1>5, OutTypes
  <2> QED
    BY <1>1, <1>5, <2>1, TakeLinesFacts
<1>10. InputTypes' /\ Stages'
  BY <1>1, <1>2, Frame DEF CallsInv, Stages, Started, Passes
<1>11. OutInv'
  <2>1. out'.line \in 0..Calls!Height /\ Calls!Height' = Calls!Height
        /\ out'.left \in 0..Lines
    BY <1>2, <1>5, <1>9, OutTypes DEF Calls!Height
  <2>2. ~out'.crank => out'.line + out'.left = out'.row * Lines
    BY <1>5, <1>9
  <2>3. (out.left > 0 => /\ out.held.row = out.row - 1
                         /\ out.held.scan >= out.held.want)'
    <3>1. l > 0 => out.left > 0
      BY <1>5, OutTypes DEF l
    <3> QED
      BY <1>9, <3>1 DEF CallsInv, OutInv
  <2>4. (\A k \in DOMAIN shown : Placed(k, shown[k]))'
    BY <1>8 DEF Placed
  <2>5. (\A k \in DOMAIN saved : Placed(k, saved[k]))'
    BY <1>1, <1>3 DEF Placed
  <2>6. out'.crank => out'.left = 0
    BY <1>4, <1>9 DEF l
  <2>7. /\ out'.row \in 0..Rows /\ saved' \in Seq(Row) /\ ~out'.dummy
        /\ out'.crank => opts'.twoPass /\ Len(saved') = Calls!Height
    BY <1>1, <1>3, <1>4, <1>9, OutTypes DEF CallsInv, OutInv
  <2> QED
    BY <1>7, <1>9, <2>1, <2>2, <2>3, <2>4, <2>5, <2>6, <2>7 DEF OutInv
<1>12. Control'
  BY <1>1 DEF CallsInv, Control, Started, Passes
<1>13. PassInv'
  <2>1. (out.left > 0 => Complete(out.held))'
    <3>1. l > 0 => out.left > 0
      BY <1>5, OutTypes DEF l
    <3> QED
      BY <1>1, <1>3, <1>9, <3>1 DEF Complete
  <2>2. (\A k \in DOMAIN shown : Complete(shown[k]))'
    BY <1>1, <1>8 DEF Complete
  <2>3. (\A k \in DOMAIN saved : Complete(saved[k]))'
    BY <1>1, <1>3 DEF Complete
  <2>4. state' \in Passes /\ state' # "PRESCAN" /\ call' # "setup"
    BY <1>1, <1>2 DEF Passes
  <2> QED
    BY <1>1, <1>2, <1>3, <1>7, <1>9, <2>1, <2>2, <2>3, <2>4
       DEF CallsInv, PassInv, Started
<1> QED
  BY <1>10, <1>11, <1>12, <1>13 DEF CallsInv

\* A line goes to the saved image.
LEMMA SaveLineKeeps ==
    ASSUME CallsInv, Calls!SaveLine PROVE CallsInv'
<1>1. /\ UNCHANGED <<file, pos, avail, state, call, opts, in, coef, shown>>
      /\ call = "setup" /\ out.dummy /\ out.left > 0
      /\ saved' = Append(saved, out.held)
      /\ out' = [out EXCEPT !.line = @ + 1, !.left = @ - 1]
  BY DEF Calls!SaveLine, Calls!Source, Calls!Running
<1>2. state = "PRESCAN"
  BY <1>1 DEF CallsInv, Control, PassInv, Started, Passes
<1>3. /\ ~out.crank /\ opts.twoPass /\ Len(saved) = out.line
      /\ out.line + out.left = out.row * Lines
      /\ saved \in Seq(Row) /\ Complete(out.held)
      /\ \A k \in DOMAIN saved : Complete(saved[k]) /\ Placed(k, saved[k])
  BY <1>1, <1>2 DEF CallsInv, OutInv, PassInv, Passes
<1>4. /\ out' \in Side /\ out'.line = out.line + 1
      /\ out'.left = out.left - 1
      /\ out'.held = out.held /\ out'.dummy = out.dummy
      /\ out'.scan = out.scan /\ out'.row = out.row
      /\ out'.crank = out.crank
  <2>1. out.left - 1 \in Int /\ 1 \in Nat /\ out \in Side
    BY OutTypes
  <2> QED
    BY <1>1, <2>1, TakeLinesFacts
<1>5. /\ out'.line \in 0..Calls!Height /\ out'.left \in 0..Lines
      /\ out'.line + out'.left = out'.row * Lines
      /\ out'.row \in 0..Rows
  <2> DEFINE x == out.row * Lines
  <2>1. x \in Nat /\ x <= Calls!Height /\ Calls!Height \in Nat
    BY OutTypes, HeightFacts
  <2>2. out.line + out.left = x /\ out'.row * Lines = x
    BY <1>3, <1>4
  <2> HIDE DEF x
  <2>3. out.line + 1 <= x /\ out.line + 1 + (out.left - 1) = x
    BY <1>1, <2>1, <2>2, OutTypes
  <2> QED
    BY <1>1, <1>4, <2>1, <2>2, <2>3, OutTypes
<1>6. Placed(out.line + 1, out.held)
  <2>1. out.line + 1 \in Nat /\ out.line + 1 > out.line
        /\ out.line + 1 <= out.line + out.left
    BY <1>1, OutTypes
  <2> QED
    BY <1>1, <2>1, HeldPlaced
<1>7. /\ saved' \in Seq(Row) /\ Len(saved') = out.line + 1
      /\ \A k \in DOMAIN saved' : Complete(saved'[k]) /\ Placed(k, saved'[k])
  <2>1. saved' \in Seq(Row) /\ Len(saved') = Len(saved) + 1
    BY <1>1, <1>3, OutTypes
  <2>2. ASSUME NEW k \in DOMAIN saved'
        PROVE  \/ k \in DOMAIN saved /\ saved'[k] = saved[k]
               \/ k = out.line + 1 /\ saved'[k] = out.held
    BY <1>1, <1>3, OutTypes
  <2> QED
    BY <1>3, <1>6, <2>1, <2>2
<1>8. InputTypes' /\ Stages'
  BY <1>1, Frame DEF CallsInv, Stages, Started, Passes
<1>9. OutInv'
  <2>1. Calls!Height' = Calls!Height
    BY DEF Calls!Height
  <2>2. (\A k \in DOMAIN saved : Placed(k, saved[k]))'
    BY <1>7 DEF Placed
  <2>3. (\A k \in DOMAIN shown : Placed(k, shown[k]))'
    BY <1>1 DEF CallsInv, OutInv, Placed
  <2>4. shown' \in Seq(Row)
    BY <1>1 DEF CallsInv, OutInv
  <2>5. out'.held.row = out'.row - 1 /\ out'.held.scan >= out'.held.want
    BY <1>1, <1>4 DEF CallsInv, OutInv
  <2> QED
    BY <1>1, <1>3, <1>4, <1>5, <1>7, <2>1, <2>2, <2>3, <2>4, <2>5 DEF OutInv
<1>10. Control'
  BY <1>1, <1>2 DEF CallsInv, Control, Started, Passes
<1>11. PassInv'
  <2>1. (\A k \in DOMAIN saved : Complete(saved[k]))'
    BY <1>1, <1>7 DEF Complete
  <2> QED
    BY <1>1, <1>2, <1>3, <1>4, <2>1
       DEF CallsInv, PassInv, Complete, Started, Passes
<1> QED
  BY <1>8, <1>9, <1>10, <1>11 DEF CallsInv

-----------------------------------------------------------------------------
(* The invariant from the start, and what follows from it.                 *)

\* The invariant holds at the start.
LEMMA CallsStart ==
    ASSUME Calls!Init PROVE CallsInv
<1>1. /\ file \in ImageFiles /\ pos = 0 /\ avail = 0 /\ state = "START"
      /\ call = "none" /\ opts \in Options /\ coef = Calls!Blank
      /\ saved = <<>> /\ shown = <<>>
  BY DEF Calls!Init
<1>2. /\ in \in Input /\ in.consume = "markers" /\ in.row = 0 /\ in.ctr = 0
      /\ ~in.lost
  <2>1. 0 \in Nat
    OBVIOUS
  <2> QED
    BY <2>1, Members DEF Calls!Init, Input
<1>3. /\ out \in Side /\ out.row = 0 /\ out.line = 0 /\ out.left = 0
      /\ ~out.dummy /\ ~out.crank
  <2>1. out = [scan |-> 0, row |-> 0, line |-> 0, dummy |-> FALSE,
               colormap |-> FALSE, smooth |-> FALSE, crank |-> FALSE,
               left |-> 0, held |-> Calls!NoRow]
    BY DEF Calls!Init
  <2>2. Calls!NoRow \in Row
    BY DEF Calls!NoRow, Row
  <2>3. out \in Side
    BY <2>1, <2>2, Members DEF Side
  <2>4. out.row = 0 /\ out.line = 0 /\ out.left = 0
    BY <2>1
  <2>5. ~out.dummy /\ ~out.crank
    BY <2>1
  <2> QED
    BY <2>3, <2>4, <2>5
<1>4. InputTypes
  <2>1. coef \in [0..(Rows - 1) -> [0..(Cols - 1) -> Int]]
    BY <1>1 DEF Calls!Blank
  <2>2. 0 \in 0..Rows /\ 0 \in 0..(Cols - 1) /\ 0 \in 0..Len(file)
        /\ 0 \in 0..0
    BY <1>1, CallFacts, FileFacts
  <2> QED
    BY <1>1, <1>2, <2>1, <2>2 DEF InputTypes, Calls!NothingLost
<1>5. Control
  BY <1>1 DEF Control, Started, Passes
<1>6. Stages
  BY <1>1 DEF Stages, Started, Passes, Calls!Images
<1>7. OutInv
  <2>1. 0 + 0 = 0 * Lines /\ 0 \in 0..Rows /\ 0 \in 0..Lines
        /\ 0 \in 0..Calls!Height
    <3>1. 0 \in 0..Rows /\ 0 \in 0..Lines /\ 0 * Lines = 0
      BY CallFacts
    <3>2. Calls!Height \in Nat
      BY <3>1, HeightFacts
    <3> QED
      BY <3>1, <3>2
  <2>2. <<>> \in Seq(Row) /\ Len(<<>>) = 0 /\ DOMAIN <<>> = {}
    OBVIOUS
  <2> QED
    BY <1>1, <1>3, <2>1, <2>2 DEF OutInv
<1>8. PassInv
  BY <1>1 DEF PassInv, Started, Passes
<1> QED
  BY <1>4, <1>5, <1>6, <1>7, <1>8 DEF CallsInv

\* Every step of the calls keeps the invariant.
LEMMA CallsStep ==
    ASSUME CallsInv, Calls!Next PROVE CallsInv'
<1>1. CASE Calls!jpeg_read_header
  <2>1. Calls!BeginInput("header") /\ call = "none"
        /\ state \in {"START", "INHEADER"}
    BY <1>1 DEF Calls!jpeg_read_header, Calls!MayCall
  <2> QED
    BY <2>1, BeginInputKeeps
<1>2. CASE Calls!jpeg_consume_input
  <2>1. Calls!BeginInput("consume") /\ call = "none"
        /\ state \in {"START", "INHEADER"} \cup Started
    BY <1>2 DEF Calls!jpeg_consume_input, Calls!MayCall, Started, Passes
  <2> QED
    BY <2>1, BeginInputKeeps
<1>3. CASE \E n \in Wanted : Calls!jpeg_start_output(n)
  BY <1>3, StartOutputKeeps
<1>4. CASE \/ Calls!jpeg_start_decompress \/ Calls!BeginRead
           \/ Calls!jpeg_finish_output \/ Calls!jpeg_finish_decompress
           \/ Calls!jpeg_abort \/ Calls!DropColormap \/ Calls!Arrive
  BY <1>4, StartDecompressKeeps, BeginReadKeeps, FinishOutputKeeps,
     FinishDecompressKeeps, AbortKeeps, DropColormapKeeps, ArriveKeeps
<1>5. CASE \/ Calls!HeaderStep \/ Calls!ConsumeStep \/ Calls!PreloadStep
           \/ Calls!Preloaded \/ Calls!FinishStep \/ Calls!FinishedOutput
           \/ Calls!Finished \/ Calls!ForceInput
  BY <1>5, HeaderStepKeeps, ConsumeStepKeeps, PreloadStepKeeps,
     PreloadedKeeps, FinishStepKeeps, FinishedOutputKeeps, FinishedKeeps,
     ForceInputKeeps
<1>6. CASE \/ Calls!SetupPass \/ Calls!SetupDone \/ Calls!DummyDone
           \/ Calls!decompress_data \/ Calls!decompress_onepass
           \/ Calls!ReadLine \/ Calls!SaveLine
  BY <1>6, SetupPassKeeps, SetupDoneKeeps, DummyDoneKeeps,
     DecompressDataKeeps, DecompressOnepassKeeps, ReadLineKeeps,
     SaveLineKeeps
<1> QED
  BY <1>1, <1>2, <1>3, <1>4, <1>5, <1>6
     DEF Calls!Next, Calls!Begin, Calls!Step

\* What the application may rely on follows from the invariant.
LEMMA CallsPromise ==
    ASSUME CallsInv
    PROVE  /\ Calls!TypeOK /\ Calls!NothingLost /\ Calls!RowsInOrder
           /\ Calls!NotAheadOfInput /\ Calls!ShowsAllScans
           /\ Calls!StopsAfterEOI
<1>1. Calls!TypeOK
  BY DEF CallsInv, InputTypes, Control, OutInv, Started, Passes, Input, Ways,
         Headers, Calls!TypeOK
<1>2. Calls!NothingLost
  BY DEF CallsInv, InputTypes
<1>3. Calls!RowsInOrder /\ Calls!NotAheadOfInput
  BY DEF CallsInv, OutInv, Placed, Calls!RowsInOrder, Calls!NotAheadOfInput
<1>4. Calls!ShowsAllScans
  BY DEF CallsInv, PassInv, Complete, Passes, Calls!ShowsAllScans
<1>5. Calls!StopsAfterEOI
  BY DEF CallsInv, Stages, Calls!StopsAfterEOI
<1> QED
  BY <1>1, <1>2, <1>3, <1>4, <1>5

\* A step that is none keeps the invariant.
LEMMA CallsStutter ==
    ASSUME CallsInv, UNCHANGED <<fileVars, callVars>> PROVE CallsInv'
<1>1. UNCHANGED <<file, pos, avail, state, call, opts, in, coef, out, saved,
                  shown>>
  BY DEF fileVars, callVars
<1>2. InputTypes' /\ OutInv'
  BY <1>1, Calm
<1>3. Control'
  BY <1>1 DEF CallsInv, Control, Calls!Height, Started, Passes
<1>4. Stages'
  BY <1>1, Frame DEF CallsInv, Stages, Started, Passes
<1>5. PassInv'
  BY <1>1 DEF CallsInv, PassInv, Complete, Started, Passes
<1> QED
  BY <1>2, <1>3, <1>4, <1>5 DEF CallsInv

\* The calls alone keep the invariant.
THEOREM CallsAreSafe == Calls!Spec => []CallsInv
<1>1. Calls!Init => CallsInv
  BY CallsStart
<1>2. CallsInv /\ [Calls!Next]_(Calls!vars) => CallsInv'
  <2>1. CallsInv /\ UNCHANGED Calls!vars => CallsInv'
    BY CallsStutter DEF Calls!vars, fileVars, callVars
  <2> QED
    BY <2>1, CallsStep
<1> QED
  BY <1>1, <1>2, PTL DEF Calls!Spec

\* Images come whole.
THEOREM ComeWhole == PartsSpec => []ImagesComeWhole
<1> DEFINE Inv == part = "calls" => CallsInv
<1>1. PartsInit => Inv
  BY CallsStart DEF PartsInit
<1>2. Inv /\ [PartsNext]_allVars => Inv'
  <2> SUFFICES ASSUME Inv, [PartsNext]_allVars, part' = "calls"
               PROVE  CallsInv'
    OBVIOUS
  <2>1. CASE part = "calls" /\ Calls!Next
    BY <2>1, CallsStep
  <2>2. CASE UNCHANGED allVars
    <3>1. part = "calls" /\ UNCHANGED <<fileVars, callVars>>
      BY <2>2 DEF allVars
    <3> QED
      BY <3>1, CallsStutter
  <2> QED
    BY <2>1, <2>2 DEF PartsNext
<1>3. Inv => ImagesComeWhole
  BY CallsPromise DEF ImagesComeWhole
<1> HIDE DEF Inv
<1> QED
  BY <1>1, <1>2, <1>3, PTL DEF PartsSpec
-----------------------------------------------------------------------------
(* The rows that come out: the image's sizes.  Everything is said of a     *)
(* shape s, so that it can be said of the next state too.                  *)

\* The sample rows of a component, the rows of blocks of the image, and what
\* a row of samples, or an output row, is to be.
DownHeight(s, c) == (s.H * s.rg[c] + s.V - 1) \div s.V
TotalRows(s) == (s.H + s.V * s.M - 1) \div (s.V * s.M)
ImageRow(s, c, r) == IF r < DownHeight(s, c) THEN r ELSE -1
Within(x, hi) == IF x < 0 THEN 0 ELSE IF x > hi THEN hi ELSE x
RightRow(s, y) ==
    [c \in DOMAIN s.rg |->
        LET r    == (y * s.rg[c]) \div s.V
            last == DownHeight(s, c) - 1
        IN  IF s.up = "context"
              THEN <<Within(r - 1, last), r, Within(r + 1, last)>>
              ELSE <<r>>]

\* The row within a row group of a component that output row k is made of.
Offset(s, c, k) == ((k - 1) * s.rg[c]) \div s.V

\* There are few ways to sample.
LEMMA Sampling ==
    ASSUME NEW s, Output!ShapeOK(s), NEW c \in DOMAIN s.rg
    PROVE  /\ \/ s.V = 1 /\ s.rg[c] = 1
              \/ s.V = 2 /\ s.rg[c] = 1
              \/ s.V = 2 /\ s.rg[c] = 2
              \/ s.V = 3 /\ s.rg[c] = 1
              \/ s.V = 3 /\ s.rg[c] = 3
              \/ s.V = 4 /\ s.rg[c] = 1
              \/ s.V = 4 /\ s.rg[c] = 2
              \/ s.V = 4 /\ s.rg[c] = 4
           /\ s.M \in 1..16 /\ s.H \in Nat \ {0} /\ 1 \in DOMAIN s.rg
           /\ s.up = "context" => s.M >= 2
           /\ s.up \in {"separate", "context", "merged"}
           /\ s.quant \in {"none", "one", "two"}
           /\ s.up = "merged" => s.V = 2
<1>1. /\ s.V \in 1..4 /\ s.rg[c] \in 1..s.V /\ s.V % s.rg[c] = 0
      /\ s.M \in 1..16 /\ s.H \in Nat \ {0} /\ 1 \in DOMAIN s.rg
      /\ s.up = "context" => s.M >= 2
      /\ s.up \in {"separate", "context", "merged"}
      /\ s.quant \in {"none", "one", "two"}
      /\ s.up = "merged" => s.V = 2
  BY DEF Output!ShapeOK
<1> DEFINE v == s.V
           g == s.rg[c]
<1>2. v \in {1, 2, 3, 4} /\ g \in {1, 2, 3, 4} /\ g <= v /\ v % g = 0
  BY <1>1
<1> HIDE DEF v, g
<1>3. \/ v = 1 /\ g = 1
      \/ v = 2 /\ g = 1
      \/ v = 2 /\ g = 2
      \/ v = 3 /\ g = 1
      \/ v = 3 /\ g = 3
      \/ v = 4 /\ g = 1
      \/ v = 4 /\ g = 2
      \/ v = 4 /\ g = 4
  BY <1>2
<1> QED
  BY <1>1, <1>3 DEF v, g

\* Rows of samples are as far down the image as the output rows made of them.
LEMMA RowsBelow ==
    ASSUME NEW s, Output!ShapeOK(s), NEW c \in DOMAIN s.rg, NEW q \in Int
    PROVE  /\ DownHeight(s, c) \in Nat \ {0}
           /\ q * s.V < s.H <=> q * s.rg[c] < DownHeight(s, c)
<1> DEFINE h == s.H
           d == DownHeight(s, c)
<1>1. h \in Nat \ {0}
  BY Sampling
<1>2. \/ s.V = 1 /\ s.rg[c] = 1 /\ d = (h * 1 + 0) \div 1
      \/ s.V = 2 /\ s.rg[c] = 1 /\ d = (h * 1 + 1) \div 2
      \/ s.V = 2 /\ s.rg[c] = 2 /\ d = (h * 2 + 1) \div 2
      \/ s.V = 3 /\ s.rg[c] = 1 /\ d = (h * 1 + 2) \div 3
      \/ s.V = 3 /\ s.rg[c] = 3 /\ d = (h * 3 + 2) \div 3
      \/ s.V = 4 /\ s.rg[c] = 1 /\ d = (h * 1 + 3) \div 4
      \/ s.V = 4 /\ s.rg[c] = 2 /\ d = (h * 2 + 3) \div 4
      \/ s.V = 4 /\ s.rg[c] = 4 /\ d = (h * 4 + 3) \div 4
  BY <1>1, Sampling DEF DownHeight
<1> HIDE DEF d, h
<1>3. d \in Nat \ {0}
  BY <1>1, <1>2
<1>4. q * s.V < h <=> q * s.rg[c] < d
  BY <1>1, <1>2
<1> QED
  BY <1>3, <1>4 DEF d, h

\* Where the samples of an output row are.
LEMMA RowOfGroup ==
    ASSUME NEW s, Output!ShapeOK(s), NEW c \in DOMAIN s.rg, NEW q \in Nat,
           NEW k \in 1..s.V
    PROVE  /\ Offset(s, c, k) \in 0..(s.rg[c] - 1)
           /\ ((q * s.V + k - 1) * s.rg[c]) \div s.V
                = q * s.rg[c] + Offset(s, c, k)
           /\ q * s.V + k - 1 < s.H =>
                q * s.rg[c] + Offset(s, c, k) < DownHeight(s, c)
<1> DEFINE h == s.H
           d == DownHeight(s, c)
           v == s.V
           g == s.rg[c]
           o == Offset(s, c, k)
<1>1. h \in Nat \ {0} /\ k \in Nat /\ k >= 1 /\ k <= v
  BY Sampling
<1>2. d = (h * g + v - 1) \div v /\ o = ((k - 1) * g) \div v
  BY DEF DownHeight, Offset
<1>3. \/ v = 1 /\ g = 1
      \/ v = 2 /\ g = 1
      \/ v = 2 /\ g = 2
      \/ v = 3 /\ g = 1
      \/ v = 3 /\ g = 3
      \/ v = 4 /\ g = 1
      \/ v = 4 /\ g = 2
      \/ v = 4 /\ g = 4
  BY Sampling
<1> HIDE DEF d, h, v, g, o
<1> DEFINE Right == /\ o \in 0..(g - 1)
                    /\ ((q * v + k - 1) * g) \div v = q * g + o
                    /\ q * v + k - 1 < h => q * g + o < d
<1> SUFFICES Right
  BY DEF d, h, v, g, o
<1>4. CASE v = 1 /\ g = 1
  <2>1. k = 1
    BY <1>1, <1>4
  <2>2. /\ ((q * v + k - 1) * g) \div v = (q * 1 + (k - 1) * 1) \div 1
        /\ q * g = q * 1 /\ q * v = q * 1 /\ g - 1 = 0
    BY <1>1, <1>4
  <2>3. d = (h * 1 + 0) \div 1 /\ o = ((k - 1) * 1) \div 1
    BY <1>2, <1>4
  <2> QED
    BY <1>1, <2>1, <2>2, <2>3
<1>5. CASE v = 2 /\ g = 1
  <2>1. k = 1 \/ k = 2
    BY <1>1, <1>5
  <2>2. /\ ((q * v + k - 1) * g) \div v = (q * 2 + (k - 1) * 1) \div 2
        /\ q * g = q * 1 /\ q * v = q * 2 /\ g - 1 = 0
    BY <1>1, <1>5
  <2>3. d = (h * 1 + 1) \div 2 /\ o = ((k - 1) * 1) \div 2
    BY <1>2, <1>5
  <2> QED
    BY <1>1, <2>1, <2>2, <2>3
<1>6. CASE v = 2 /\ g = 2
  <2>1. k = 1 \/ k = 2
    BY <1>1, <1>6
  <2>2. /\ ((q * v + k - 1) * g) \div v = (q * 4 + (k - 1) * 2) \div 2
        /\ q * g = q * 2 /\ q * v = q * 2 /\ g - 1 = 1
    BY <1>1, <1>6
  <2>3. d = (h * 2 + 1) \div 2 /\ o = ((k - 1) * 2) \div 2
    BY <1>2, <1>6
  <2> QED
    BY <1>1, <2>1, <2>2, <2>3
<1>7. CASE v = 3 /\ g = 1
  <2>1. k = 1 \/ k = 2 \/ k = 3
    BY <1>1, <1>7
  <2>2. /\ ((q * v + k - 1) * g) \div v = (q * 3 + (k - 1) * 1) \div 3
        /\ q * g = q * 1 /\ q * v = q * 3 /\ g - 1 = 0
    BY <1>1, <1>7
  <2>3. d = (h * 1 + 2) \div 3 /\ o = ((k - 1) * 1) \div 3
    BY <1>2, <1>7
  <2> QED
    BY <1>1, <2>1, <2>2, <2>3
<1>8. CASE v = 3 /\ g = 3
  <2>1. k = 1 \/ k = 2 \/ k = 3
    BY <1>1, <1>8
  <2>2. /\ ((q * v + k - 1) * g) \div v = (q * 9 + (k - 1) * 3) \div 3
        /\ q * g = q * 3 /\ q * v = q * 3 /\ g - 1 = 2
    BY <1>1, <1>8
  <2>3. d = (h * 3 + 2) \div 3 /\ o = ((k - 1) * 3) \div 3
    BY <1>2, <1>8
  <2> QED
    BY <1>1, <2>1, <2>2, <2>3
<1>9. CASE v = 4 /\ g = 1
  <2>1. k = 1 \/ k = 2 \/ k = 3 \/ k = 4
    BY <1>1, <1>9
  <2>2. /\ ((q * v + k - 1) * g) \div v = (q * 4 + (k - 1) * 1) \div 4
        /\ q * g = q * 1 /\ q * v = q * 4 /\ g - 1 = 0
    BY <1>1, <1>9
  <2>3. d = (h * 1 + 3) \div 4 /\ o = ((k - 1) * 1) \div 4
    BY <1>2, <1>9
  <2> QED
    BY <1>1, <2>1, <2>2, <2>3
<1>10. CASE v = 4 /\ g = 2
  <2>1. k = 1 \/ k = 2 \/ k = 3 \/ k = 4
    BY <1>1, <1>10
  <2>2. /\ ((q * v + k - 1) * g) \div v = (q * 8 + (k - 1) * 2) \div 4
        /\ q * g = q * 2 /\ q * v = q * 4 /\ g - 1 = 1
    BY <1>1, <1>10
  <2>3. d = (h * 2 + 3) \div 4 /\ o = ((k - 1) * 2) \div 4
    BY <1>2, <1>10
  <2> QED
    BY <1>1, <2>1, <2>2, <2>3
<1>11. CASE v = 4 /\ g = 4
  <2>1. k = 1 \/ k = 2 \/ k = 3 \/ k = 4
    BY <1>1, <1>11
  <2>2. /\ ((q * v + k - 1) * g) \div v = (q * 16 + (k - 1) * 4) \div 4
        /\ q * g = q * 4 /\ q * v = q * 4 /\ g - 1 = 3
    BY <1>1, <1>11
  <2>3. d = (h * 4 + 3) \div 4 /\ o = ((k - 1) * 4) \div 4
    BY <1>2, <1>11
  <2> QED
    BY <1>1, <2>1, <2>2, <2>3
<1> QED
  BY <1>3, <1>4, <1>5, <1>6, <1>7, <1>8, <1>9, <1>10, <1>11

\* How many times a number fits, rounded up.
LEMMA RoundedUp ==
    ASSUME NEW a \in Nat \ {0}, NEW b \in Nat \ {0}, NEW n \in Int
    PROVE  /\ (a + b - 1) \div b \in Nat \ {0}
           /\ n < (a + b - 1) \div b <=> n * b < a
<1> DEFINE q == (a + b - 1) \div b
           r == (a + b - 1) % b
           x == q * b
           y == n * b
<1>1. q \in Int /\ r \in 0..(b - 1) /\ a + b - 1 = x + r
  BY b > 0
<1>2. q >= 1
  <2>1. q < 1 => q * b <= 0
    BY <1>1
  <2> QED
    BY <1>1, <2>1
<1>3. n < q => y + b <= x
  <2>1. n < q => (q - n - 1) * b >= 0
    BY <1>1
  <2>2. (q - n - 1) * b = x - y - b
    BY <1>1
  <2>3. x \in Int /\ y \in Int
    BY <1>1
  <2> HIDE DEF x, y
  <2> QED
    BY <2>1, <2>2, <2>3
<1>4. n >= q => y >= x
  <2>1. n >= q => (n - q) * b >= 0
    BY <1>1
  <2>2. (n - q) * b = y - x
    BY <1>1
  <2>3. x \in Int /\ y \in Int
    BY <1>1
  <2> HIDE DEF x, y
  <2> QED
    BY <2>1, <2>2, <2>3
<1>5. x \in Int /\ y \in Int
  BY <1>1
<1> HIDE DEF q, r, x, y
<1>6. q \in Nat \ {0} /\ (n < q <=> y < a)
  BY <1>1, <1>2, <1>3, <1>4, <1>5
<1> QED
  BY <1>6 DEF q, y

\* There is another row of blocks exactly while there are output rows below.
LEMMA RowsOfBlocks ==
    ASSUME NEW s, Output!ShapeOK(s), NEW n \in Int
    PROVE  /\ TotalRows(s) \in Nat \ {0}
           /\ n < TotalRows(s) <=> (n * s.M) * s.V < s.H
<1> DEFINE w == s.V * s.M
<1>1. 1 \in DOMAIN s.rg
  BY DEF Output!ShapeOK
<1>2. /\ s.V \in Nat \ {0} /\ s.M \in Nat \ {0} /\ s.H \in Nat \ {0}
  BY <1>1, Sampling
<1>3. w \in Nat \ {0} /\ n * w = (n * s.M) * s.V
  BY <1>2
<1> HIDE DEF w
<1>4. /\ (s.H + w - 1) \div w \in Nat \ {0}
      /\ n < (s.H + w - 1) \div w <=> n * w < s.H
  BY <1>2, <1>3, RoundedUp
<1> QED
  BY <1>3, <1>4 DEF TotalRows, w

\* What remains of a division.
LEMMA Remainder ==
    ASSUME NEW t \in Int, NEW h \in Nat \ {0}, NEW r \in 0..(h - 1)
    PROVE  (t * h + r) % h = r
<1> DEFINE d == t * h + r
           q == d \div h
           e == d % h
           y == (t - q) * h
<1>1. d \in Int /\ q \in Int /\ e \in 0..(h - 1) /\ d = q * h + e
  BY h > 0
<1>2. y = e - r
  BY <1>1
<1>3. t - q >= 1 => y >= h
  <2>1. t - q >= 1 => (t - q - 1) * h >= 0
    BY <1>1
  <2> QED
    BY <1>1, <2>1
<1>4. t - q <= -1 => y <= -h
  <2>1. t - q <= -1 => (q - t - 1) * h >= 0
    BY <1>1
  <2> QED
    BY <1>1, <2>1
<1> HIDE DEF d, q, e, y
<1>5. t = q
  BY <1>1, <1>2, <1>3, <1>4
<1>6. e = r
  <2>1. y = 0
    BY <1>1, <1>5 DEF y
  <2> QED
    BY <1>1, <1>2, <2>1
<1> QED
  BY <1>6 DEF e, d

\* What is left of the image for the last row of blocks, in rows of samples
\* and in row groups.
Bottom(s, c) ==
    LET h == s.rg[c] * s.M
    IN  IF DownHeight(s, c) % h = 0 THEN h ELSE DownHeight(s, c) % h
BottomGroups(s) == (Bottom(s, 1) - 1) \div s.rg[1] + 1

\* The last row of blocks ends at the bottom of each component.
LEMMA BottomRows ==
    ASSUME NEW s, Output!ShapeOK(s), NEW c \in DOMAIN s.rg
    PROVE  /\ Bottom(s, c) \in 1..s.rg[c] * s.M
           /\ ((TotalRows(s) - 1) * s.M) * s.rg[c] + Bottom(s, c)
                = DownHeight(s, c)
<1> DEFINE t == TotalRows(s)
           m == s.M
           g == s.rg[c]
           h == g * m
           d == DownHeight(s, c)
           x == (t - 1) * h
           rest == d - x
<1>1. m \in Nat \ {0} /\ g \in Nat \ {0} /\ t \in Nat \ {0}
  BY Sampling, RowsOfBlocks
<1>2. ((t - 1) * m) * g = x /\ (t * m) * g = x + h /\ (t - 1) * m \in Int
      /\ t * m \in Int /\ h \in Nat \ {0} /\ x \in Nat
  BY <1>1
<1>3. d \in Nat \ {0} /\ x < d /\ d <= x + h
  <2>1. t - 1 < t /\ ~(t < t) /\ t - 1 \in Int /\ t \in Int
    BY <1>1
  <2>2. ((t - 1) * m) * s.V < s.H /\ ~((t * m) * s.V < s.H)
    BY <2>1, RowsOfBlocks
  <2>3. ((t - 1) * m) * g < d /\ ~((t * m) * g < d) /\ d \in Nat \ {0}
    BY <1>2, <2>2, RowsBelow
  <2> QED
    BY <1>2, <2>3
<1>4. rest \in 1..h /\ d = (t - 1) * h + rest
  <2> HIDE DEF x, d, h
  <2>1. rest \in 1..h /\ d = x + rest
    BY <1>2, <1>3
  <2> QED
    BY <2>1 DEF x
<1>5. Bottom(s, c) = IF d % h = 0 THEN h ELSE d % h
  BY DEF Bottom
<1> HIDE DEF rest, d, h, t
<1>6. CASE rest = h
  <2>1. d = t * h + 0
    BY <1>1, <1>2, <1>4, <1>6
  <2>2. d % h = 0
    <3>1. 0 \in 0..(h - 1) /\ t \in Int
      BY <1>1, <1>2
    <3>2. (t * h + 0) % h = 0
      BY <1>2, <3>1, Remainder
    <3> QED
      BY <2>1, <3>2
  <2> QED
    BY <1>2, <1>4, <1>5, <1>6, <2>2 DEF x, t, d, h
<1>7. CASE rest # h
  <2>1. d = (t - 1) * h + rest /\ rest \in 0..(h - 1) /\ t - 1 \in Int
    BY <1>1, <1>2, <1>4, <1>7
  <2>2. d % h = rest
    BY <1>2, <2>1, Remainder
  <2> QED
    BY <1>2, <1>4, <1>5, <1>7, <2>2 DEF x, t, d, h
<1> QED
  BY <1>6, <1>7

\* The row groups left for the last row of blocks are those that make output
\* rows.
LEMMA BottomOutput ==
    ASSUME NEW s, Output!ShapeOK(s), NEW a \in Nat
    PROVE  /\ BottomGroups(s) \in 1..s.M
           /\ a < BottomGroups(s) <=>
                ((TotalRows(s) - 1) * s.M + a) * s.V < s.H
<1> DEFINE t == TotalRows(s)
           m == s.M
           g == s.rg[1]
           q == (t - 1) * m
           b == Bottom(s, 1)
           d == DownHeight(s, 1)
<1>1. 1 \in DOMAIN s.rg
  BY DEF Output!ShapeOK
<1>2. m \in Nat \ {0} /\ g \in {1, 2, 3, 4} /\ t \in Nat \ {0} /\ q \in Int
  BY <1>1, Sampling, RowsOfBlocks
<1>3. b \in 1..g * m /\ q * g + b = d
  BY <1>1, BottomRows
<1>4. q + a \in Int
  BY <1>2
<1>5. (q + a) * s.V < s.H <=> (q + a) * g < d
  BY <1>1, <1>4, RowsBelow
<1>6. BottomGroups(s) = (b - 1) \div g + 1
  BY DEF BottomGroups
<1> HIDE DEF t, m, g, q, b, d
<1>7. CASE g = 1
  BY <1>2, <1>3, <1>5, <1>6, <1>7 DEF t, m, q
<1>8. CASE g = 2
  BY <1>2, <1>3, <1>5, <1>6, <1>8 DEF t, m, q
<1>9. CASE g = 3
  BY <1>2, <1>3, <1>5, <1>6, <1>9 DEF t, m, q
<1>10. CASE g = 4
  BY <1>2, <1>3, <1>5, <1>6, <1>10 DEF t, m, q
<1> QED
  BY <1>2, <1>7, <1>8, <1>9, <1>10

-----------------------------------------------------------------------------
(* The upsampler.                                                          *)

\* A row that the application may get: one of the image, or none.
RowSet(s) == {RightRow(s, y) : y \in 0..(s.H - 1)} \cup {<<>>}

\* The first rows of f are output rows of the image, from row y on.
AreRows(s, f, n, y) == \A i \in 1..n : y + i - 1 < s.H =>
                                          f[i] = RightRow(s, y + i - 1)

\* The upsampler before row group G: which of its rows have been taken, and
\* what it keeps of the others.
IsUp(u) == u = [next_row_out |-> u.next_row_out, rows_to_go |-> u.rows_to_go,
                spare_full |-> u.spare_full, color_buf |-> u.color_buf,
                spare_row |-> u.spare_row]
UpType(s, u) ==
    /\ IsUp(u)
    /\ u.next_row_out \in 0..s.V /\ u.rows_to_go \in 0..s.H
    /\ u.spare_full \in BOOLEAN
UpOK(s, u, G) ==
    /\ UpType(s, u)
    /\ IF s.up = "merged"
         THEN /\ s.H - u.rows_to_go = G * s.V + (IF u.spare_full THEN 1 ELSE 0)
              /\ u.spare_full /\ G * s.V + 1 < s.H =>
                   u.spare_row = RightRow(s, G * s.V + 1)
         ELSE /\ s.H - u.rows_to_go =
                   G * s.V + (IF u.next_row_out < s.V THEN u.next_row_out
                                                      ELSE 0)
              /\ u.next_row_out < s.V =>
                   AreRows(s, u.color_buf, s.V, G * s.V)

\* The model's rows are these.
LEMMA SameRows ==
    /\ \A y : Output!Expected(y) = RightRow(shape, y)
    /\ \A c : Output!DownsampledHeight(c) = DownHeight(shape, c)
    /\ Output!TotalIMCURows = TotalRows(shape)
    /\ \A c : Output!RowsLeft(c) = Bottom(shape, c)
BY DEF Output!Expected, Output!DownsampledHeight, Output!TotalIMCURows,
       Output!CeilDiv, Output!Comps, Output!V, Output!M, Output!Clamp,
       Output!RowsLeft, RightRow, DownHeight, TotalRows, Bottom, Within

\* The least of numbers is one of them.
LEMMA LeastFacts ==
    /\ \A x, y \in Int : LET z == Output!Least({x, y})
                         IN  z \in {x, y} /\ z <= x /\ z <= y
    /\ \A x, y, z \in Int : LET w == Output!Least({x, y, z})
                            IN  w \in {x, y, z} /\ w <= x /\ w <= y /\ w <= z
<1>1. ASSUME NEW x \in Int, NEW y \in Int
      PROVE  LET z == Output!Least({x, y})
             IN  z \in {x, y} /\ z <= x /\ z <= y
  <2>1. \E z \in {x, y} : \A w \in {x, y} : z <= w
    <3>1. x <= y \/ y <= x
      OBVIOUS
    <3> QED
      BY <3>1
  <2> QED
    BY <2>1 DEF Output!Least
<1>2. ASSUME NEW x \in Int, NEW y \in Int, NEW z \in Int
      PROVE  LET w == Output!Least({x, y, z})
             IN  w \in {x, y, z} /\ w <= x /\ w <= y /\ w <= z
  <2>1. \E v \in {x, y, z} : \A w \in {x, y, z} : v <= w
    <3>1. (x <= y /\ x <= z) \/ (y <= x /\ y <= z) \/ (z <= x /\ z <= y)
      OBVIOUS
    <3> QED
      BY <3>1
  <2> QED
    BY <2>1 DEF Output!Least
<1> QED
  BY <1>1, <1>2

\* A slice of right rows.
LEMMA SliceOfRows ==
    ASSUME NEW s, NEW f, NEW a \in Nat, NEW n \in Nat, NEW y \in Nat,
           s.H \in Nat, \A i \in 1..n : f[a + i] = RightRow(s, y + i - 1),
           y + n <= s.H
    PROVE  /\ SubSeq(f, a + 1, a + n) \in Seq(RowSet(s))
           /\ Len(SubSeq(f, a + 1, a + n)) = n
           /\ AreRows(s, SubSeq(f, a + 1, a + n), n, y)
<1>1. \A i \in (a + 1)..(a + n) : f[i] \in RowSet(s)
  <2> SUFFICES ASSUME NEW i \in (a + 1)..(a + n) PROVE f[i] \in RowSet(s)
    OBVIOUS
  <2>1. i - a \in 1..n /\ i = a + (i - a)
    OBVIOUS
  <2>2. f[i] = RightRow(s, y + (i - a) - 1)
    BY <2>1
  <2>3. y + (i - a) - 1 \in 0..(s.H - 1)
    BY <2>1
  <2> QED
    BY <2>2, <2>3 DEF RowSet
<1>2. a + 1 \in Int /\ a + n \in Int
  OBVIOUS
<1>3. /\ SubSeq(f, a + 1, a + n) \in Seq(RowSet(s))
      /\ Len(SubSeq(f, a + 1, a + n)) =
           IF a + 1 <= a + n THEN (a + n) - (a + 1) + 1 ELSE 0
      /\ \A i \in 1..((a + n) - (a + 1) + 1) :
           SubSeq(f, a + 1, a + n)[i] = f[(a + 1) + i - 1]
  BY <1>1, <1>2, SubSeqProperties
<1>4. Len(SubSeq(f, a + 1, a + n)) = n
  BY <1>3
<1>5. \A i \in 1..n : SubSeq(f, a + 1, a + n)[i] = RightRow(s, y + i - 1)
  <2> SUFFICES ASSUME NEW i \in 1..n
               PROVE  SubSeq(f, a + 1, a + n)[i] = RightRow(s, y + i - 1)
    OBVIOUS
  <2>1. i \in 1..((a + n) - (a + 1) + 1) /\ (a + 1) + i - 1 = a + i
    OBVIOUS
  <2> QED
    BY <1>3, <2>1
<1> QED
  BY <1>3, <1>4, <1>5 DEF AreRows

\* What a call of the upsampler brings: the next rows of the image, some, no
\* more than there is room for; and it has gone on to the next row group or
\* kept what is left of this one.
Brings(s, r, m, u, G, room) ==
    LET n == Len(r.rows)
        d == s.H - u.rows_to_go
    IN  /\ r.rows \in Seq(RowSet(s)) /\ n \in 1..room
        /\ AreRows(s, r.rows, n, d)
        /\ r.u.rows_to_go = u.rows_to_go - n
        /\ \/ r.m = m /\ UpOK(s, r.u, G)
           \/ /\ r.m = [m EXCEPT !.ctr = @ + 1] /\ UpOK(s, r.u, G + 1)
              /\ s.H - r.u.rows_to_go = (G + 1) * s.V

\* So does the separate upsampler (sep_upsample), from its conversion buffer.
LEMMA SeparateBrings ==
    ASSUME Output!ShapeOK(shape), shape.up # "merged", NEW G \in Nat,
           NEW m, NEW u, UpOK(shape, u, G), u.rows_to_go > 0,
           NEW room \in Int, room >= 1,
           AreRows(shape, Output!RowGroup(m), shape.V, G * shape.V)
    PROVE  Brings(shape, Output!sep_upsample(m, u, room), m, u, G, room)
<1> DEFINE v == shape.V
           H == shape.H
           b == Output!Filled(m, u)
           a == b.next_row_out
           togo == u.rows_to_go
           n == Output!Least({v - a, b.rows_to_go, room})
           d == H - togo
           x == G * v
           r == Output!sep_upsample(m, u, room)
<1>1. /\ v \in 1..4 /\ H \in Nat \ {0} /\ x \in Nat
  <2>1. 1 \in DOMAIN shape.rg
    BY DEF Output!ShapeOK
  <2>2. v \in 1..4 /\ H \in Nat \ {0}
    BY <2>1, Sampling
  <2> QED
    BY <2>2
<1>2. UpType(shape, u) /\ togo \in 1..H
  BY DEF UpOK, UpType
<1>3. /\ IsUp(b) /\ a \in 0..(v - 1) /\ b.rows_to_go = togo
      /\ b.spare_full = u.spare_full
      /\ AreRows(shape, b.color_buf, v, x)
      /\ d = x + a
  <2>1. CASE u.next_row_out >= v
    <3>1. b = [u EXCEPT !.color_buf = Output!RowGroup(m), !.next_row_out = 0]
      BY <2>1 DEF Output!Filled, Output!V
    <3>2. /\ IsUp(b) /\ a = 0 /\ b.rows_to_go = togo
          /\ b.spare_full = u.spare_full
          /\ b.color_buf = Output!RowGroup(m)
      BY <1>2, <3>1 DEF UpType, IsUp
    <3>3. d = x
      BY <1>1, <1>2, <2>1 DEF UpOK, UpType
    <3> QED
      BY <1>1, <3>2, <3>3
  <2>2. CASE u.next_row_out < v
    <3>1. b = u
      BY <1>1, <1>2, <2>2 DEF Output!Filled, Output!V, UpType
    <3> QED
      BY <1>1, <1>2, <2>2, <3>1 DEF UpOK, UpType
  <2> QED
    BY <1>1, <1>2, <2>1, <2>2 DEF UpType
<1>4. n \in 1..room /\ n <= v - a /\ n <= togo
  <2>1. v - a \in Int /\ b.rows_to_go \in Int /\ room \in Int
    BY <1>1, <1>2, <1>3
  <2>2. /\ n \in {v - a, b.rows_to_go, room}
        /\ n <= v - a /\ n <= b.rows_to_go /\ n <= room
    BY <2>1, LeastFacts
  <2> HIDE DEF n, b, a, v, togo
  <2> QED
    BY <1>1, <1>2, <1>3, <2>1, <2>2 DEF togo
<1>5. /\ r = [m |-> IF a + n >= v THEN [m EXCEPT !.ctr = @ + 1] ELSE m,
              u |-> [b EXCEPT !.next_row_out = @ + n, !.rows_to_go = @ - n],
              rows |-> SubSeq(b.color_buf, a + 1, a + n)]
  BY DEF Output!sep_upsample, Output!ConvertSome, Output!Converted, Output!V
<1> HIDE DEF n, b, r, a, d, x, togo, v, H
<1>6. /\ IsUp(r.u) /\ r.u.next_row_out = a + n
      /\ r.u.rows_to_go = togo - n /\ r.u.spare_full = b.spare_full
      /\ r.u.color_buf = b.color_buf
  <2>1. /\ r.u = [b EXCEPT !.next_row_out = @ + n, !.rows_to_go = @ - n]
    BY <1>5
  <2> QED
    BY <1>3, <2>1 DEF IsUp, a, b
<1>7. /\ r.rows \in Seq(RowSet(shape)) /\ Len(r.rows) = n
      /\ AreRows(shape, r.rows, n, d)
  <2>1. d \in Nat /\ d + n <= shape.H /\ shape.H \in Nat
    BY <1>1, <1>2, <1>4 DEF d, H
  <2>2. \A i \in 1..n : b.color_buf[a + i] = RightRow(shape, d + i - 1)
    <3> SUFFICES ASSUME NEW i \in 1..n
                 PROVE  b.color_buf[a + i] = RightRow(shape, d + i - 1)
      OBVIOUS
    <3>1. a + i \in 1..v /\ x + (a + i) - 1 = d + i - 1
          /\ d + i - 1 < shape.H
      BY <1>1, <1>3, <1>4, <2>1
    <3> QED
      BY <1>3, <3>1 DEF AreRows
  <2>3. a \in Nat /\ n \in Nat
    BY <1>1, <1>3, <1>4
  <2>4. r.rows = SubSeq(b.color_buf, a + 1, a + n)
    BY <1>5
  <2>5. /\ SubSeq(b.color_buf, a + 1, a + n) \in Seq(RowSet(shape))
        /\ Len(SubSeq(b.color_buf, a + 1, a + n)) = n
        /\ AreRows(shape, SubSeq(b.color_buf, a + 1, a + n), n, d)
    BY <2>1, <2>2, <2>3, SliceOfRows
  <2> QED
    BY <2>4, <2>5
<1>8. UpType(shape, r.u)
  BY <1>1, <1>2, <1>3, <1>4, <1>6 DEF UpType, v, H, togo
<1>9. CASE a + n < v
  <2>1. r.m = m
    BY <1>1, <1>3, <1>4, <1>5, <1>9
  <2>2. H - (togo - n) = x + (a + n)
    BY <1>1, <1>2, <1>3, <1>4 DEF d
  <2>3. UpOK(shape, r.u, G)
    BY <1>3, <1>6, <1>8, <1>9, <2>2 DEF UpOK, v, H, togo, x
  <2> QED
    BY <1>4, <1>6, <1>7, <2>1, <2>3 DEF Brings, r, togo, d, H
<1>10. CASE a + n >= v
  <2>1. r.m = [m EXCEPT !.ctr = @ + 1]
    BY <1>5, <1>10
  <2>2. a + n = v
    BY <1>1, <1>3, <1>4, <1>10
  <2>3. H - (togo - n) = (G + 1) * v + 0
    <3>1. (G + 1) * v = x + v
      BY <1>1 DEF x
    <3> QED
      BY <1>1, <1>2, <1>3, <1>4, <2>2, <3>1 DEF d
  <2>4. ~(v < v)
    BY <1>1
  <2>5. UpOK(shape, r.u, G + 1)
    BY <1>6, <1>8, <2>2, <2>3, <2>4 DEF UpOK, v, H, togo
  <2>6. H - r.u.rows_to_go = (G + 1) * v
    <3>1. (G + 1) * v + 0 = (G + 1) * v
      BY <1>1
    <3> QED
      BY <1>6, <2>3, <3>1
  <2> QED
    BY <1>4, <1>6, <1>7, <2>1, <2>5, <2>6 DEF Brings, r, togo, d, H, v
<1>11. a + n < v \/ a + n >= v
  BY <1>1, <1>3, <1>4
<1> QED
  BY <1>9, <1>10, <1>11 DEF r

\* So does the merged one (merged_2v_upsample), with its spare row.
LEMMA MergedBrings ==
    ASSUME Output!ShapeOK(shape), shape.up = "merged", NEW G \in Nat,
           NEW m, NEW u, UpOK(shape, u, G), u.rows_to_go > 0,
           NEW room \in Int, room >= 1,
           AreRows(shape, Output!RowGroup(m), shape.V, G * shape.V)
    PROVE  Brings(shape, Output!merged_2v_upsample(m, u, room), m, u, G, room)
<1> DEFINE H == shape.H
           two == Output!RowGroup(m)
           togo == u.rows_to_go
           n == Output!Least({2, togo, room})
           d == H - togo
           x == G * shape.V
           r == Output!merged_2v_upsample(m, u, room)
<1>1. shape.V = 2 /\ H \in Nat \ {0} /\ x \in Nat /\ (G + 1) * shape.V = x + 2
  <2>1. 1 \in DOMAIN shape.rg
    BY DEF Output!ShapeOK
  <2>2. shape.V = 2 /\ H \in Nat \ {0}
    BY <2>1, Sampling
  <2> QED
    BY <2>2
<1>2. UpType(shape, u) /\ togo \in 1..H /\ u.spare_full \in BOOLEAN
  BY DEF UpOK, UpType
<1>3. /\ d = x + (IF u.spare_full THEN 1 ELSE 0)
      /\ u.spare_full /\ x + 1 < H => u.spare_row = RightRow(shape, x + 1)
  BY DEF UpOK
<1>4. AreRows(shape, two, 2, x)
  BY <1>1
<1> HIDE DEF r, two
<1>5. CASE u.spare_full
  <2>1. r = [m |-> [m EXCEPT !.ctr = @ + 1],
             u |-> [u EXCEPT !.spare_full = FALSE, !.rows_to_go = @ - 1],
             rows |-> <<u.spare_row>>]
    BY <1>5 DEF Output!merged_2v_upsample, r
  <2>2. /\ IsUp(r.u) /\ r.u.next_row_out = u.next_row_out
        /\ r.u.rows_to_go = togo - 1 /\ r.u.spare_full = FALSE
    BY <1>2, <2>1 DEF UpType, IsUp
  <2>3. x + 1 = d /\ x + 1 < H
    BY <1>1, <1>2, <1>3, <1>5
  <2>4. u.spare_row = RightRow(shape, d)
    BY <1>3, <1>5, <2>3
  <2>5. u.spare_row \in RowSet(shape) /\ d \in Nat
    <3>1. d \in 0..(shape.H - 1)
      BY <1>1, <2>3
    <3> QED
      BY <2>4, <3>1 DEF RowSet
  <2>6. /\ r.rows \in Seq(RowSet(shape)) /\ Len(r.rows) = 1
        /\ r.rows[1] = RightRow(shape, d)
    <3>1. r.rows = <<u.spare_row>>
      BY <2>1
    <3> QED
      BY <2>4, <2>5, <3>1
  <2>7. AreRows(shape, r.rows, 1, d)
    <3> SUFFICES ASSUME NEW i \in 1..1, d + i - 1 < shape.H
                 PROVE  r.rows[i] = RightRow(shape, d + i - 1)
      BY DEF AreRows
    <3>1. i = 1 /\ d + i - 1 = d
      BY <2>5
    <3> QED
      BY <2>6, <3>1
  <2>8. UpType(shape, r.u)
    <3>1. r.u.spare_full \in BOOLEAN
      BY <2>2
    <3>2. /\ r.u.next_row_out \in 0..shape.V
          /\ r.u.rows_to_go \in 0..shape.H
      BY <1>1, <1>2, <2>2 DEF UpType
    <3> QED
      BY <2>2, <3>1, <3>2 DEF UpType
  <2>9. H - (togo - 1) = x + 2
    BY <1>1, <1>2, <2>3
  <2>10. UpOK(shape, r.u, G + 1)
    BY <1>1, <2>2, <2>8, <2>9 DEF UpOK
  <2>11. /\ r.m = [m EXCEPT !.ctr = @ + 1]
         /\ H - r.u.rows_to_go = (G + 1) * shape.V
    BY <1>1, <2>1, <2>2, <2>9
  <2> HIDE DEF togo, d, H
  <2>12. Len(r.rows) \in 1..room
    BY <2>6
  <2> QED
    BY <2>2, <2>6, <2>7, <2>10, <2>11, <2>12 DEF Brings, r, togo, d, H
<1>6. CASE ~u.spare_full
  <2>1. n \in 1..room /\ n <= 2 /\ n <= togo
    <3>1. 2 \in Int /\ togo \in Int /\ room \in Int
      BY <1>2
    <3>2. n \in {2, togo, room} /\ n <= 2 /\ n <= togo /\ n <= room
      BY <3>1, LeastFacts
    <3> HIDE DEF n, togo
    <3> QED
      BY <1>2, <3>1, <3>2
  <2>2. r = [m |-> IF n > 1 THEN [m EXCEPT !.ctr = @ + 1] ELSE m,
             u |-> [u EXCEPT !.rows_to_go = @ - n, !.spare_full = n <= 1,
                             !.spare_row = IF n > 1 THEN @ ELSE two[2]],
             rows |-> SubSeq(two, 1, n)]
    BY <1>6 DEF Output!merged_2v_upsample, Output!Merged, r, two
  <2> HIDE DEF n
  <2>3. /\ IsUp(r.u) /\ r.u.next_row_out = u.next_row_out
        /\ r.u.rows_to_go = togo - n
        /\ r.u.spare_full \in BOOLEAN /\ (r.u.spare_full <=> n <= 1)
        /\ n <= 1 => r.u.spare_row = two[2]
    <3> DEFINE one  == n <= 1
               kept == IF n > 1 THEN u.spare_row ELSE two[2]
    <3>1. r.u = [u EXCEPT !.rows_to_go = togo - n, !.spare_full = one,
                          !.spare_row = kept]
      BY <2>2
    <3>2. one \in BOOLEAN /\ (one <=> n <= 1) /\ (one => kept = two[2])
      BY <2>1
    <3> HIDE DEF one, kept
    <3>3. /\ IsUp(r.u) /\ r.u.next_row_out = u.next_row_out
          /\ r.u.rows_to_go = togo - n /\ r.u.spare_full = one
          /\ r.u.spare_row = kept
      BY <1>2, <3>1 DEF UpType, IsUp
    <3> QED
      BY <3>2, <3>3
  <2>4. d = x
    BY <1>1, <1>3, <1>6
  <2>5. x \in Nat /\ n \in Nat /\ shape.H \in Nat /\ x + n <= shape.H
        /\ 0 \in Nat
    BY <1>1, <1>2, <2>1, <2>4
  <2>6. \A i \in 1..n : two[0 + i] = RightRow(shape, x + i - 1)
    <3> SUFFICES ASSUME NEW i \in 1..n
                 PROVE  two[0 + i] = RightRow(shape, x + i - 1)
      OBVIOUS
    <3>1. i \in 1..2 /\ 0 + i = i /\ x + i - 1 < shape.H
      BY <2>1, <2>5
    <3> QED
      BY <1>4, <3>1 DEF AreRows
  <2>7. /\ SubSeq(two, 0 + 1, 0 + n) \in Seq(RowSet(shape))
        /\ Len(SubSeq(two, 0 + 1, 0 + n)) = n
        /\ AreRows(shape, SubSeq(two, 0 + 1, 0 + n), n, x)
    BY <2>5, <2>6, SliceOfRows
  <2>8. r.rows = SubSeq(two, 0 + 1, 0 + n)
    <3>1. 0 + 1 = 1 /\ 0 + n = n
      BY <2>5
    <3> QED
      BY <2>2, <3>1
  <2>9. UpType(shape, r.u)
    BY <1>1, <1>2, <2>1, <2>3 DEF UpType
  <2>10. CASE n > 1
    <3>1. r.m = [m EXCEPT !.ctr = @ + 1]
      BY <2>2, <2>10
    <3>2. H - (togo - n) = x + 2 /\ n = 2
      BY <1>1, <1>2, <2>1, <2>4, <2>10
    <3>3. ~r.u.spare_full
      BY <2>3, <3>2
    <3>4. UpOK(shape, r.u, G + 1)
      BY <1>1, <2>3, <2>9, <3>2, <3>3 DEF UpOK
    <3>5. H - r.u.rows_to_go = (G + 1) * shape.V
      BY <1>1, <2>3, <3>2
    <3> HIDE DEF togo, d, H
    <3> QED
      BY <2>1, <2>3, <2>4, <2>7, <2>8, <3>1, <3>4, <3>5 DEF Brings, r, togo, d, H
  <2>11. CASE ~(n > 1)
    <3>1. n = 1 /\ r.m = m
      BY <2>1, <2>2, <2>11
    <3>2. H - (togo - n) = x + 1
      BY <1>1, <1>2, <2>4, <3>1
    <3>3. r.u.spare_full /\ r.u.spare_row = two[2]
      BY <2>3, <3>1
    <3>4. x + 1 < H => two[2] = RightRow(shape, x + 1)
      <4>1. 2 \in 1..2 /\ x + 2 - 1 = x + 1
        BY <1>1
      <4> QED
        BY <1>4, <4>1 DEF AreRows
    <3>5. UpOK(shape, r.u, G)
      BY <2>3, <2>9, <3>2, <3>3, <3>4 DEF UpOK
    <3> HIDE DEF togo, d, H
    <3> QED
      BY <2>1, <2>3, <2>4, <2>7, <2>8, <3>1, <3>5 DEF Brings, r, togo, d, H
  <2> QED
    BY <2>10, <2>11
<1> QED
  BY <1>5, <1>6 DEF r

\* The rows that a row group at hand makes are right.
Reads(m, G) == AreRows(shape, Output!RowGroup(m), shape.V, G * shape.V)

\* So does either.
LEMMA UpsampleBrings ==
    ASSUME Output!ShapeOK(shape), NEW G \in Nat,
           NEW m, NEW u, UpOK(shape, u, G), u.rows_to_go > 0,
           NEW room \in Int, room >= 1, Reads(m, G)
    PROVE  Brings(shape, Output!upsample(m, u, room), m, u, G, room)
BY SeparateBrings, MergedBrings DEF Output!upsample, Reads

-----------------------------------------------------------------------------
(* The postprocessor.                                                      *)

\* Its state; in the dummy pass the rows above its place are in its image.
IsPost(p) == p = [starting_row |-> p.starting_row, next_row |-> p.next_row,
                  whole_image |-> p.whole_image]
PostType(s, p) ==
    /\ IsPost(p) /\ p.starting_row \in Nat /\ p.next_row \in 0..(s.V - 1)
    /\ 1..s.H \subseteq DOMAIN p.whole_image
Keeps(s, p, n) == \A y \in 1..n : p.whole_image[y] = RightRow(s, y - 1)
PostOK(s, ps, p, u) ==
    /\ PostType(s, p)
    /\ ps = "dummy" =>
         /\ p.starting_row + p.next_row = s.H - u.rows_to_go
         /\ Keeps(s, p, s.H - u.rows_to_go)

\* The strip moves on by some of its rows.
LEMMA AdvanceFacts ==
    ASSUME NEW p, IsPost(p), p.starting_row \in Nat, shape.V \in 1..4,
           p.next_row \in 0..(shape.V - 1),
           NEW n \in Nat, n <= shape.V - p.next_row
    PROVE  LET q == Output!Advance(p, n)
           IN  /\ IsPost(q) /\ q.whole_image = p.whole_image
               /\ q.starting_row \in Nat /\ q.next_row \in 0..(shape.V - 1)
               /\ q.starting_row + q.next_row
                    = p.starting_row + p.next_row + n
               /\ q.starting_row
                    = p.starting_row + (IF p.next_row + n >= shape.V
                                          THEN shape.V ELSE 0)
<1> DEFINE q == Output!Advance(p, n)
<1>1. CASE p.next_row + n >= shape.V
  <2>1. q = [p EXCEPT !.starting_row = @ + shape.V, !.next_row = 0]
    BY <1>1 DEF Output!Advance, Output!strip_height, Output!V
  <2>2. /\ IsPost(q) /\ q.whole_image = p.whole_image
        /\ q.starting_row = p.starting_row + shape.V /\ q.next_row = 0
    BY <2>1 DEF IsPost
  <2> QED
    BY <1>1, <2>2
<1>2. CASE ~(p.next_row + n >= shape.V)
  <2>1. q = [p EXCEPT !.next_row = @ + n]
    BY <1>2 DEF Output!Advance, Output!strip_height, Output!V
  <2>2. /\ IsPost(q) /\ q.whole_image = p.whole_image
        /\ q.starting_row = p.starting_row /\ q.next_row = p.next_row + n
    BY <2>1 DEF IsPost
  <2> QED
    BY <1>2, <2>2
<1> QED
  BY <1>1, <1>2

\* What a call of the postprocessor brings while rows are upsampled, to the
\* application or to its image.
IsResult(r) == r = [m |-> r.m, u |-> r.u, p |-> r.p, rows |-> r.rows]
Yields(s, ps, r, u, room) ==
    LET n == Len(r.rows)
    IN  /\ IsResult(r)
        /\ r.rows \in Seq(RowSet(s)) /\ n \in Nat \ {0}
        /\ ps = "only" => n <= room
        /\ AreRows(s, r.rows, n, s.H - u.rows_to_go)
        /\ r.u.rows_to_go = u.rows_to_go - n
        /\ PostOK(s, ps, r.p, r.u)
GoesOn(s, r, m, G) ==
    \/ r.m = m /\ UpOK(s, r.u, G)
    \/ /\ r.m = [m EXCEPT !.ctr = @ + 1] /\ UpOK(s, r.u, G + 1)
       /\ s.H - r.u.rows_to_go = (G + 1) * s.V

\* Rows that go on as they are.
LEMMA PassedOn ==
    ASSUME NEW s, NEW G, NEW m, NEW u, NEW p, NEW r, NEW room \in Int,
           NEW limit \in Int, limit <= room,
           PostType(s, p), Brings(s, r, m, u, G, limit)
    PROVE  LET q == Output!PassOn(r, p)
           IN  Yields(s, "only", q, u, room) /\ GoesOn(s, q, m, G)
<1> DEFINE q == Output!PassOn(r, p)
<1>1. /\ q = [m |-> r.m, u |-> r.u, p |-> p, rows |-> r.rows]
      /\ IsResult(q) /\ q.m = r.m /\ q.u = r.u /\ q.p = p /\ q.rows = r.rows
  BY DEF Output!PassOn, IsResult
<1> HIDE DEF q
<1>2. PostOK(s, "only", p, r.u)
  BY DEF PostOK
<1>3. /\ r.rows \in Seq(RowSet(s)) /\ Len(r.rows) \in 1..limit
      /\ AreRows(s, r.rows, Len(r.rows), s.H - u.rows_to_go)
      /\ r.u.rows_to_go = u.rows_to_go - Len(r.rows)
      /\ GoesOn(s, r, m, G)
  BY DEF Brings, GoesOn
<1>4. Len(r.rows) \in Nat \ {0} /\ Len(r.rows) <= room
  BY <1>3
<1> QED
  BY <1>1, <1>2, <1>3, <1>4 DEF Yields, GoesOn, q

\* Rows that go into the image.
LEMMA KeptRows ==
    ASSUME NEW G, NEW m, NEW u, NEW p, NEW r, NEW room, NEW limit \in Int,
           shape.V \in 1..4, shape.H \in Nat, UpType(shape, u),
           limit <= shape.V - p.next_row,
           PostOK(shape, "dummy", p, u), Brings(shape, r, m, u, G, limit)
    PROVE  LET q == Output!Keep(r, p)
           IN  Yields(shape, "dummy", q, u, room) /\ GoesOn(shape, q, m, G)
<1> DEFINE q == Output!Keep(r, p)
           k == Output!Kept(p, r.rows)
           a == Output!Advance(k, Len(r.rows))
           n == Len(r.rows)
           d == shape.H - u.rows_to_go
<1>1. /\ q = [m |-> r.m, u |-> r.u, p |-> a, rows |-> r.rows]
      /\ IsResult(q) /\ q.m = r.m /\ q.u = r.u /\ q.p = a /\ q.rows = r.rows
  BY DEF Output!Keep, Output!PassOn, IsResult
<1>2. /\ r.rows \in Seq(RowSet(shape)) /\ n \in 1..limit
      /\ AreRows(shape, r.rows, n, d)
      /\ r.u.rows_to_go = u.rows_to_go - n
      /\ GoesOn(shape, r, m, G)
  BY DEF Brings, GoesOn
<1>3. /\ IsPost(p) /\ p.starting_row \in Nat /\ p.next_row \in 0..(shape.V - 1)
      /\ 1..shape.H \subseteq DOMAIN p.whole_image
      /\ p.starting_row + p.next_row = d /\ Keeps(shape, p, d)
  BY DEF PostOK, PostType
<1>4. d \in Nat /\ n \in Nat \ {0} /\ n <= shape.V - p.next_row
  BY <1>2, <1>3
<1>5. u.rows_to_go \in 0..shape.H /\ r.u.rows_to_go \in 0..shape.H
  <2>1. UpType(shape, r.u)
    BY <1>2 DEF GoesOn, UpOK
  <2> QED
    BY <2>1 DEF UpType
<1>6. d + n <= shape.H /\ shape.H - r.u.rows_to_go = d + n
  BY <1>2, <1>4, <1>5
<1> DEFINE image == [i \in DOMAIN p.whole_image |->
                       IF i - d \in 1..n THEN r.rows[i - d]
                       ELSE p.whole_image[i]]
<1>7. k = [p EXCEPT !.whole_image = image]
  BY <1>3 DEF Output!Kept
<1> HIDE DEF q, k, a, n, d, image
<1>8. /\ IsPost(k) /\ k.starting_row = p.starting_row
      /\ k.next_row = p.next_row /\ k.whole_image = image
  BY <1>3, <1>7 DEF IsPost
<1>9. /\ IsPost(a) /\ a.whole_image = image
      /\ a.starting_row \in Nat /\ a.next_row \in 0..(shape.V - 1)
      /\ a.starting_row + a.next_row = d + n
  BY <1>3, <1>4, <1>8, AdvanceFacts DEF a, n
<1>10. PostType(shape, a)
  BY <1>3, <1>9 DEF PostType, image
<1>11. \A y \in 1..(d + n) : image[y] = RightRow(shape, y - 1)
  <2> SUFFICES ASSUME NEW y \in 1..(d + n)
               PROVE  image[y] = RightRow(shape, y - 1)
    OBVIOUS
  <2>1. y \in 1..shape.H
    BY <1>4, <1>6
  <2>2. y \in DOMAIN p.whole_image
    BY <1>3, <2>1
  <2>3. image[y] = IF y - d \in 1..n THEN r.rows[y - d] ELSE p.whole_image[y]
    BY <2>2 DEF image
  <2>4. CASE y <= d
    <3>1. y \in 1..d /\ ~(y - d \in 1..n)
      BY <1>4, <2>4
    <3> QED
      BY <1>3, <2>3, <3>1 DEF Keeps
  <2>5. CASE y > d
    <3>1. y - d \in 1..n /\ d + (y - d) - 1 = y - 1 /\ y - 1 < shape.H
      BY <1>4, <2>1, <2>5
    <3>2. r.rows[y - d] = RightRow(shape, d + (y - d) - 1)
      BY <1>2, <3>1 DEF AreRows
    <3> QED
      BY <2>3, <3>1, <3>2
  <2> QED
    BY <1>4, <2>4, <2>5
<1>12. PostOK(shape, "dummy", a, r.u)
  BY <1>6, <1>9, <1>10, <1>11 DEF PostOK, Keeps
<1>13. Len(q.rows) = n
  BY <1>1 DEF n
<1>14. Yields(shape, "dummy", q, u, room)
  BY <1>1, <1>2, <1>4, <1>12, <1>13 DEF Yields, d
<1>15. GoesOn(shape, q, m, G)
  BY <1>1, <1>2 DEF GoesOn
<1> QED
  BY <1>14, <1>15 DEF q

\* The postprocessor delivers or keeps what the upsampler brings
\* (post_process_1pass, post_process_prepass, or none).
LEMMA PostYields ==
    ASSUME Output!ShapeOK(shape), pass \in {"only", "dummy"}, NEW G \in Nat,
           NEW m, NEW u, UpOK(shape, u, G), u.rows_to_go > 0, Reads(m, G),
           NEW p, PostOK(shape, pass, p, u),
           NEW room \in Int, pass = "only" => room >= 1
    PROVE  LET r == Output!post_process_data(m, u, p, room)
           IN  Yields(shape, pass, r, u, room) /\ GoesOn(shape, r, m, G)
<1>1. shape.V \in 1..4 /\ shape.H \in Nat
  <2>1. 1 \in DOMAIN shape.rg
    BY DEF Output!ShapeOK
  <2> QED
    BY <2>1, Sampling
<1>2. PostType(shape, p) /\ UpType(shape, u)
  BY DEF PostOK, UpOK
<1>3. CASE pass = "dummy"
  <2> DEFINE limit == shape.V - p.next_row
             r == Output!upsample(m, u, limit)
  <2>1. limit \in Int /\ limit >= 1
    BY <1>1, <1>2 DEF PostType
  <2>2. Brings(shape, r, m, u, G, limit)
    BY <2>1, UpsampleBrings
  <2>3. Output!post_process_data(m, u, p, room) = Output!Keep(r, p)
    BY <1>3 DEF Output!post_process_data, Output!post_process_prepass,
                Output!strip_height, Output!V
  <2> HIDE DEF r
  <2>4. PostOK(shape, "dummy", p, u)
    BY <1>3
  <2>5. /\ Yields(shape, "dummy", Output!Keep(r, p), u, room)
        /\ GoesOn(shape, Output!Keep(r, p), m, G)
    <3>1. limit <= shape.V - p.next_row
      BY <2>1
    <3> HIDE DEF limit
    <3> QED
      BY <1>1, <1>2, <2>1, <2>2, <2>4, <3>1, KeptRows
  <2> QED
    BY <1>3, <2>3, <2>5
<1>4. CASE pass = "only" /\ shape.quant # "none"
  <2> DEFINE limit == Output!Least({room, shape.V})
             r == Output!upsample(m, u, limit)
  <2>1. limit \in Int /\ limit >= 1 /\ limit <= room
    <3>1. room \in Int /\ shape.V \in Int
      BY <1>1
    <3>2. limit \in {room, shape.V} /\ limit <= room /\ limit <= shape.V
      BY <3>1, LeastFacts
    <3> HIDE DEF limit
    <3> QED
      BY <1>1, <1>4, <3>1, <3>2
  <2> HIDE DEF limit
  <2>2. Brings(shape, r, m, u, G, limit)
    BY <2>1, UpsampleBrings
  <2>3. Output!post_process_data(m, u, p, room) = Output!PassOn(r, p)
    BY <1>4 DEF Output!post_process_data, Output!post_process_1pass,
                Output!strip_height, Output!V, limit
  <2> HIDE DEF r
  <2>4. /\ Yields(shape, "only", Output!PassOn(r, p), u, room)
        /\ GoesOn(shape, Output!PassOn(r, p), m, G)
    BY <1>2, <2>1, <2>2, PassedOn
  <2> QED
    BY <1>4, <2>3, <2>4
<1>5. CASE pass = "only" /\ shape.quant = "none"
  <2> DEFINE r == Output!upsample(m, u, room)
  <2>1. Brings(shape, r, m, u, G, room)
    BY <1>5, UpsampleBrings
  <2>2. Output!post_process_data(m, u, p, room) = Output!PassOn(r, p)
    BY <1>5 DEF Output!post_process_data
  <2> HIDE DEF r
  <2>3. room <= room
    OBVIOUS
  <2>4. /\ Yields(shape, "only", Output!PassOn(r, p), u, room)
        /\ GoesOn(shape, Output!PassOn(r, p), m, G)
    BY <1>2, <2>1, <2>3, PassedOn
  <2> QED
    BY <1>5, <2>2, <2>4
<1> QED
  BY <1>3, <1>4, <1>5

-----------------------------------------------------------------------------
(* The main controller without context.                                    *)

Groups(s) == IF s.up = "context" THEN s.M + 2 ELSE s.M
IsMain(m) == m = [full |-> m.full, ctr |-> m.ctr, avail |-> m.avail,
                  whichptr |-> m.whichptr, state |-> m.state,
                  seen |-> m.seen, imcu |-> m.imcu, buffer |-> m.buffer,
                  xbuffer |-> m.xbuffer]
BufferType(s, b) == \A c \in DOMAIN s.rg :
                      DOMAIN b[c] = 0..(s.rg[c] * Groups(s) - 1)
MainType(s, m) ==
    /\ IsMain(m)
    /\ m.full \in BOOLEAN /\ m.ctr \in 0..(s.M + 2) /\ m.avail \in 0..(s.M + 2)
    /\ m.whichptr \in {0, 1} /\ m.state \in {"prepare", "process", "postponed"}
    /\ m.seen \in 0..TotalRows(s) /\ m.imcu \in 0..TotalRows(s)
    /\ BufferType(s, m.buffer)

\* The buffer holds the row of blocks that was decoded last.
SimpleOK(s, m) ==
    /\ m.ctr \in 0..(s.M - 1)
    /\ ~m.full => m.ctr = 0
    /\ m.full =>
         /\ m.imcu >= 1
         /\ \A c \in DOMAIN s.rg : \A i \in 0..(s.rg[c] * s.M - 1) :
              m.buffer[c][i]
                = ImageRow(s, c, ((m.imcu - 1) * s.M) * s.rg[c] + i)
SimpleGroup(s, m) ==
    IF m.full THEN (m.imcu - 1) * s.M + m.ctr ELSE m.imcu * s.M

\* A row of a row group is in the buffer of so many row groups.
LEMMA InGroups ==
    ASSUME NEW n \in Nat, NEW a \in 0..(n - 1), NEW g \in 1..4,
           NEW o \in 0..(g - 1)
    PROVE  a * g + o \in 0..(g * n - 1)
<1>1. CASE g = 1
  BY <1>1
<1>2. CASE g = 2
  BY <1>2
<1>3. CASE g = 3
  BY <1>3
<1>4. CASE g = 4
  BY <1>4
<1> QED
  BY <1>1, <1>2, <1>3, <1>4

\* What a row group is made of.
LEMMA RowGroupFacts ==
    ASSUME NEW m, NEW k \in 1..shape.V
    PROVE  /\ shape.up # "context" =>
                Output!RowGroup(m)[k] = [c \in DOMAIN shape.rg |->
                  <<Output!Sample(m, c,
                      m.ctr * shape.rg[c] + Offset(shape, c, k))>>]
           /\ shape.up = "context" =>
                Output!RowGroup(m)[k] = [c \in DOMAIN shape.rg |->
                  <<Output!Sample(m, c,
                      (m.ctr * shape.rg[c] + Offset(shape, c, k)) - 1),
                    Output!Sample(m, c,
                      m.ctr * shape.rg[c] + Offset(shape, c, k)),
                    Output!Sample(m, c,
                      m.ctr * shape.rg[c] + Offset(shape, c, k) + 1)>>]
<1>1. CASE shape.up # "context"
  BY <1>1 DEF Output!RowGroup, Output!V, Output!Comps, Offset
<1>2. CASE shape.up = "context"
  BY <1>2 DEF Output!RowGroup, Output!V, Output!Comps, Offset
<1> QED
  BY <1>1, <1>2

\* A row group of a row of blocks without context makes its output rows.
LEMMA SimpleReads ==
    ASSUME Output!ShapeOK(shape), shape.up # "context", NEW m, m.full,
           m.imcu \in Nat, MainType(shape, m), SimpleOK(shape, m)
    PROVE  Reads(m, SimpleGroup(shape, m)) /\ SimpleGroup(shape, m) \in Nat
<1> DEFINE n == m.imcu - 1
           Q == n * shape.M
           G == Q + m.ctr
<1>1. /\ 1 \in DOMAIN shape.rg /\ shape.M \in 1..16
  <2>1. 1 \in DOMAIN shape.rg
    BY DEF Output!ShapeOK
  <2> QED
    BY <2>1, Sampling
<1>2. n \in Nat /\ Q \in Nat /\ m.ctr \in 0..(shape.M - 1) /\ G \in Nat
      /\ SimpleGroup(shape, m) = G
  BY <1>1 DEF SimpleOK, SimpleGroup
<1> HIDE DEF G, n
<1>3. ASSUME NEW k \in 1..shape.V, G * shape.V + k - 1 < shape.H
      PROVE  Output!RowGroup(m)[k] = RightRow(shape, G * shape.V + k - 1)
  <2>1. ASSUME NEW c \in DOMAIN shape.rg
        PROVE  /\ Output!Sample(m, c, m.ctr * shape.rg[c] + Offset(shape, c, k))
                    = G * shape.rg[c] + Offset(shape, c, k)
               /\ ((G * shape.V + k - 1) * shape.rg[c]) \div shape.V
                    = G * shape.rg[c] + Offset(shape, c, k)
    <3> DEFINE g == shape.rg[c]
               o == Offset(shape, c, k)
               i == m.ctr * g + o
               r == G * g + o
    <3>1. /\ o \in 0..(g - 1) /\ r < DownHeight(shape, c)
          /\ ((G * shape.V + k - 1) * g) \div shape.V = r
      BY <1>2, <1>3, RowOfGroup
    <3>2. g \in 1..4
      BY Sampling
    <3>3. i \in 0..(g * shape.M - 1)
      BY <1>1, <1>2, <3>1, <3>2, InGroups
    <3>4. (n * shape.M) * g + i = r
      <4>1. Q * g + (m.ctr * g + o) = (Q + m.ctr) * g + o
        BY <1>1, <1>2, <3>1, <3>2
      <4> QED
        BY <4>1 DEF G
    <3>5. m.buffer[c][i] = ImageRow(shape, c, (n * shape.M) * g + i)
      BY <3>3 DEF SimpleOK, n
    <3>6. m.buffer[c][i] = r
      BY <3>1, <3>4, <3>5 DEF ImageRow
    <3>7. i \in DOMAIN m.buffer[c]
      BY <3>3 DEF MainType, BufferType, Groups
    <3>8. Output!Pointers(m, c)[i] = i /\ i # Output!OLD
      <4>1. Output!Pointers(m, c) = [j \in DOMAIN m.buffer[c] |-> j]
        BY DEF Output!Pointers
      <4> HIDE DEF i
      <4>2. i # Output!OLD
        BY <1>1, <3>2, <3>3 DEF Output!OLD
      <4> QED
        BY <3>7, <4>1, <4>2
    <3> HIDE DEF i
    <3>9. Output!Sample(m, c, i) = m.buffer[c][i]
      BY <3>8 DEF Output!Sample
    <3> QED
      BY <3>1, <3>6, <3>9 DEF i
  <2>2. Output!RowGroup(m)[k] = [c \in DOMAIN shape.rg |->
          <<Output!Sample(m, c, m.ctr * shape.rg[c] + Offset(shape, c, k))>>]
    BY RowGroupFacts
  <2>3. RightRow(shape, G * shape.V + k - 1) = [c \in DOMAIN shape.rg |->
          <<((G * shape.V + k - 1) * shape.rg[c]) \div shape.V>>]
    BY DEF RightRow
  <2> QED
    BY <2>1, <2>2, <2>3
<1>4. Reads(m, G)
  BY <1>3 DEF Reads, AreRows
<1> QED
  BY <1>2, <1>4

\* The next row of blocks fills the buffer.
LEMMA SimpleDecodes ==
    ASSUME Output!ShapeOK(shape), shape.up # "context", NEW m, ~m.full,
           MainType(shape, m), SimpleOK(shape, m), m.imcu < TotalRows(shape)
    PROVE  LET n == Output!decompress_data(m)
           IN  /\ MainType(shape, n) /\ SimpleOK(shape, n) /\ n.full
               /\ SimpleGroup(shape, n) = SimpleGroup(shape, m)
<1> DEFINE n == Output!decompress_data(m)
           DecodedRow(c, i) == ImageRow(shape, c,
                                 m.imcu * (shape.rg[c] * shape.M) + i)
           b == [c \in DOMAIN shape.rg |->
                  LET h == shape.rg[c] * shape.M
                      x == Output!Pointers(m, c)
                  IN [p \in DOMAIN m.buffer[c] |->
                        IF \E i \in 0..(h - 1) : x[i] = p
                        THEN DecodedRow(c, CHOOSE i \in 0..(h - 1) : x[i] = p)
                        ELSE m.buffer[c][p]]]
<1>1. n = [m EXCEPT !.full = TRUE, !.imcu = @ + 1, !.buffer = b]
  BY SameRows DEF Output!decompress_data, Output!Comps, Output!M, Output!PAD,
                  ImageRow
<1> HIDE DEF b
<1>2. /\ IsMain(n) /\ n.full = TRUE /\ n.imcu = m.imcu + 1 /\ n.buffer = b
      /\ n.ctr = m.ctr /\ n.avail = m.avail /\ n.whichptr = m.whichptr
      /\ n.state = m.state /\ n.seen = m.seen
  BY <1>1 DEF MainType, IsMain
<1> HIDE DEF n
<1>3. /\ 1 \in DOMAIN shape.rg /\ shape.M \in 1..16
      /\ TotalRows(shape) \in Nat \ {0}
  <2>1. 1 \in DOMAIN shape.rg
    BY DEF Output!ShapeOK
  <2> QED
    BY <2>1, Sampling, RowsOfBlocks
<1>4. m.imcu \in Nat /\ m.ctr = 0
  BY <1>3 DEF MainType, SimpleOK
<1>5. ASSUME NEW c \in DOMAIN shape.rg
      PROVE  /\ DOMAIN b[c] = 0..(shape.rg[c] * shape.M - 1)
             /\ \A i \in 0..(shape.rg[c] * shape.M - 1) :
                  b[c][i] = ImageRow(shape, c,
                                     (m.imcu * shape.M) * shape.rg[c] + i)
  <2> DEFINE h == shape.rg[c] * shape.M
  <2>1. DOMAIN m.buffer[c] = 0..(h - 1)
    BY DEF MainType, BufferType, Groups
  <2>2. m.imcu * (shape.rg[c] * shape.M) = (m.imcu * shape.M) * shape.rg[c]
    BY <1>3, <1>4, Sampling
  <2>3. ASSUME NEW i \in 0..(h - 1)
        PROVE  b[c][i] = DecodedRow(c, i)
    <3> DEFINE x == Output!Pointers(m, c)
    <3>1. x = [j \in 0..(h - 1) |-> j]
      BY <2>1 DEF Output!Pointers
    <3> HIDE DEF x, h
    <3>2. x[i] = i /\ (CHOOSE j \in 0..(h - 1) : x[j] = i) = i
      BY <3>1
    <3> HIDE DEF DecodedRow
    <3>3. b[c][i] = IF \E j \in 0..(h - 1) : x[j] = i
                    THEN DecodedRow(c, CHOOSE j \in 0..(h - 1) : x[j] = i)
                    ELSE m.buffer[c][i]
      BY <2>1, <2>3 DEF b, x, h
    <3> QED
      BY <2>3, <3>2, <3>3
  <2> QED
    BY <2>1, <2>2, <2>3 DEF b
<1>6. BufferType(shape, n.buffer)
  BY <1>2, <1>5 DEF BufferType, Groups
<1>7. MainType(shape, n)
  <2>0. n.full \in BOOLEAN
    BY <1>2
  <2>1. n.full \in BOOLEAN /\ n.imcu \in 0..TotalRows(shape)
    BY <1>2, <1>3, <1>4, <2>0
  <2> QED
    BY <1>2, <1>6, <2>1 DEF MainType
<1>8. n.imcu - 1 = m.imcu
  BY <1>2, <1>4
<1>9. SimpleOK(shape, n)
  BY <1>2, <1>3, <1>4, <1>5, <1>8 DEF SimpleOK
<1>10. SimpleGroup(shape, n) = SimpleGroup(shape, m)
  <2>1. m.imcu * shape.M \in Int
    BY <1>3, <1>4
  <2> QED
    BY <1>2, <1>4, <1>8, <2>1 DEF SimpleGroup
<1> QED
  BY <1>2, <1>7, <1>9, <1>10 DEF n

-----------------------------------------------------------------------------
(* The main controller with context: where the pointer lists lead.  Here g *)
(* is the rows of a component in a row group and h those of a row of       *)
(* blocks; the buffer has h + 2 * g rows.                                  *)

\* List w inside the buffer: the second one has its last four row groups
\* swapped, two with two.
Core(g, h, w, i) ==
    IF w = 1 /\ i >= h - 2 * g
      THEN IF i < h THEN i + 2 * g ELSE i - 2 * g
      ELSE i

\* All of list w, before and after it is wrapped around, and with the rows
\* from n on standing for the last one of the image.
Listed(g, h, w, wrapped, i) ==
    IF i < 0
      THEN IF wrapped THEN Core(g, h, w, h + 2 * g + i)
                      ELSE IF w = 0 THEN 0 ELSE -2
      ELSE IF i >= h + 2 * g
             THEN IF wrapped THEN Core(g, h, w, i - (h + 2 * g)) ELSE -2
             ELSE Core(g, h, w, i)
BottomListed(g, h, w, wrapped, n, i) ==
    IF i >= n /\ i < n + 2 * g THEN Core(g, h, w, n - 1)
                               ELSE Listed(g, h, w, wrapped, i)

\* A list never leads to one row twice, nor outside the buffer.
LEMMA CoreFacts ==
    ASSUME NEW g \in 1..4, NEW h \in Nat, h >= 2 * g, NEW w \in {0, 1},
           NEW i \in 0..(h + 2 * g - 1)
    PROVE  /\ Core(g, h, w, i) \in 0..(h + 2 * g - 1)
           /\ \A j \in 0..(h + 2 * g - 1) :
                Core(g, h, w, i) = Core(g, h, w, j) => i = j
BY DEF Core

\* What is read through a list.
Through(x, b, i) == IF x[i] = -2 THEN -2 ELSE b[x[i]]

\* A list is as it should be, the buffer has the row of blocks that starts
\* with sample row q, and the last two row groups of the one above.
ListIs(x, g, h, w, wrapped) ==
    \A j \in (-g)..(h + 3 * g - 1) : x[j] = Listed(g, h, w, wrapped, j)
BottomListIs(x, g, h, w, wrapped, n) ==
    \A j \in (-g)..(h + 3 * g - 1) : x[j] = BottomListed(g, h, w, wrapped, n, j)
HasRows(b, g, h, w, q, D) ==
    \A j \in 0..(h - 1) : b[Core(g, h, w, j)] = IF q + j < D THEN q + j ELSE -1
HasAbove(b, g, h, w, q) ==
    \A j \in h..(h + 2 * g - 1) : b[Core(g, h, w, j)] = q + j - (h + 2 * g)

\* A row is where it should be, and so are the ones above and below it.
Near(x, b, i, r, D) ==
    /\ Through(x, b, i) = r
    /\ Through(x, b, i - 1) = Within(r - 1, D - 1)
    /\ Through(x, b, i + 1) = Within(r + 1, D - 1)

\* While a row of blocks is read, that is so.
RowRead(x, b, g, h, w, D, q, n, prev, i) ==
    /\ g \in 1..4 /\ h \in Nat /\ h >= 2 * g /\ w \in {0, 1}
    /\ D \in Nat \ {0} /\ q \in Nat /\ n \in 1..h /\ prev \in BOOLEAN
    /\ i \in 0..(h - 1) /\ q + i < D
    /\ ~prev => q = 0 /\ w = 0
    /\ \/ q + n = D /\ BottomListIs(x, g, h, w, prev, n)
       \/ q + h < D /\ i <= h - 2 /\ ListIs(x, g, h, w, prev)
    /\ HasRows(b, g, h, w, q, D)
    /\ prev => q >= 1 /\ HasAbove(b, g, h, w, q)

\* Then the sample row and its neighbours are read through the list.
LEMMA AroundRow ==
    ASSUME NEW x, NEW b, NEW g, NEW h, NEW w, NEW D, NEW q, NEW n, NEW prev,
           NEW i, RowRead(x, b, g, h, w, D, q, n, prev, i)
    PROVE  Near(x, b, i, q + i, D)
<1> /\ g \in 1..4 /\ h \in Nat /\ h >= 2 * g /\ w \in {0, 1}
    /\ D \in Nat \ {0} /\ q \in Nat /\ n \in 1..h /\ prev \in BOOLEAN
    /\ i \in 0..(h - 1) /\ q + i < D
    /\ ~prev => q = 0 /\ w = 0
    /\ \/ q + n = D /\ BottomListIs(x, g, h, w, prev, n)
       \/ q + h < D /\ i <= h - 2 /\ ListIs(x, g, h, w, prev)
    /\ HasRows(b, g, h, w, q, D)
    /\ prev => q >= 1 /\ HasAbove(b, g, h, w, q)
  BY DEF RowRead
<1>1. ASSUME NEW j \in 0..(h - 1), q + j < D
      PROVE  Through(x, b, j) = q + j
  <2>1. j \in (-g)..(h + 3 * g - 1) /\ j \in 0..(h + 2 * g - 1)
    OBVIOUS
  <2>2. q + n = D => j < n
    BY <1>1
  <2>3. x[j] = Core(g, h, w, j)
    BY <2>1, <2>2 DEF BottomListIs, ListIs, BottomListed, Listed
  <2>4. x[j] # -2
    <3>1. Core(g, h, w, j) \in 0..(h + 2 * g - 1)
      BY <2>1, CoreFacts
    <3> QED
      BY <2>3, <3>1
  <2>5. b[Core(g, h, w, j)] = q + j
    BY <1>1 DEF HasRows
  <2> QED
    BY <2>3, <2>4, <2>5 DEF Through
<1>2. Through(x, b, i) = q + i
  BY <1>1
<1>3. Through(x, b, i - 1) = Within(q + i - 1, D - 1)
  <2>1. CASE i > 0
    <3>1. i - 1 \in 0..(h - 1) /\ q + (i - 1) < D /\ q + (i - 1) = q + i - 1
      BY <2>1
    <3>2. Through(x, b, i - 1) = q + (i - 1)
      BY <1>1, <3>1
    <3> QED
      BY <3>1, <3>2 DEF Within
  <2>2. CASE i = 0
    <3>1. i - 1 = -1 /\ -1 \in (-g)..(h + 3 * g - 1) /\ q + i - 1 = q - 1
      BY <2>2
    <3>2. x[-1] = Listed(g, h, w, prev, -1)
      BY <3>1 DEF BottomListIs, ListIs, BottomListed
    <3>3. CASE prev
      <4> DEFINE j == h + 2 * g - 1
      <4>1. j \in h..(h + 2 * g - 1) /\ h + 2 * g + -1 = j
            /\ j \in 0..(h + 2 * g - 1)
        OBVIOUS
      <4>2. x[-1] = Core(g, h, w, j)
        BY <3>2, <3>3, <4>1 DEF Listed
      <4>3. x[-1] # -2
        <5>1. Core(g, h, w, j) \in 0..(h + 2 * g - 1)
          BY <4>1, CoreFacts
        <5> QED
          BY <4>2, <5>1
      <4>4. b[Core(g, h, w, j)] = q - 1
        <5>1. b[Core(g, h, w, j)] = q + j - (h + 2 * g)
          BY <3>3, <4>1 DEF HasAbove
        <5> QED
          BY <5>1
      <4>5. Through(x, b, -1) = q - 1
        BY <4>2, <4>3, <4>4 DEF Through
      <4> QED
        BY <2>2, <3>1, <3>3, <4>5 DEF Within
    <3>4. CASE ~prev
      <4>1. x[-1] = 0 /\ q = 0 /\ w = 0
        BY <3>2, <3>4 DEF Listed
      <4>2. b[Core(g, h, w, 0)] = 0 /\ Core(g, h, w, 0) = 0
        <5>1. 0 \in 0..(h - 1) /\ q + 0 < D /\ q + 0 = 0
          BY <4>1
        <5> QED
          BY <4>1, <5>1 DEF Core, HasRows
      <4>3. Through(x, b, -1) = 0
        BY <4>1, <4>2 DEF Through
      <4> QED
        BY <2>2, <3>1, <4>1, <4>3 DEF Within
    <3> QED
      BY <3>3, <3>4
  <2> QED
    BY <2>1, <2>2
<1>4. Through(x, b, i + 1) = Within(q + i + 1, D - 1)
  <2>1. CASE q + (i + 1) < D
    <3>1. i + 1 \in 0..(h - 1)
      BY <2>1
    <3>2. Through(x, b, i + 1) = q + (i + 1)
      BY <1>1, <2>1, <3>1
    <3> QED
      BY <2>1, <3>2 DEF Within
  <2>2. CASE ~(q + (i + 1) < D)
    <3>1. q + n = D /\ BottomListIs(x, g, h, w, prev, n)
          /\ i + 1 = n /\ q + i + 1 > D - 1 /\ D - 1 = q + i
      BY <2>2
    <3>2. i + 1 \in (-g)..(h + 3 * g - 1) /\ n - 1 = i
          /\ i + 1 >= n /\ i + 1 < n + 2 * g
      BY <3>1
    <3>3. x[i + 1] = Core(g, h, w, i)
      BY <3>1, <3>2 DEF BottomListIs, BottomListed
    <3>4. x[i] = Core(g, h, w, i)
      <4>1. i \in (-g)..(h + 3 * g - 1) /\ i < n /\ i >= 0 /\ i < h + 2 * g
        BY <3>2
      <4> QED
        BY <3>1, <4>1 DEF BottomListIs, BottomListed, Listed
    <3>5. Through(x, b, i + 1) = q + i
      BY <1>2, <3>3, <3>4 DEF Through
    <3> QED
      BY <3>1, <3>5 DEF Within
  <2> QED
    BY <2>1, <2>2
<1>5. q + i - 1 = (q + i) - 1
  OBVIOUS
<1> QED
  BY <1>2, <1>3, <1>4, <1>5 DEF Near

\* The last row group of a row of blocks, read from the other list when the
\* row of blocks below it, which starts with sample row q, is there too.
PostponedRead(x, b, g, h, w, D, q, i, r) ==
    /\ g \in 1..4 /\ h \in Nat /\ h >= 2 * g /\ w \in {0, 1}
    /\ D \in Nat \ {0} /\ q \in Nat /\ q < D /\ q >= h
    /\ i \in (h + g)..(h + 2 * g - 1) /\ r = q + i - (h + 2 * g)
    /\ ListIs(x, g, h, w, TRUE)
    /\ HasRows(b, g, h, w, q, D)
    /\ HasAbove(b, g, h, w, q)

\* So are those of the last row group, by then.
LEMMA AroundPostponed ==
    ASSUME NEW x, NEW b, NEW g, NEW h, NEW w, NEW D, NEW q, NEW i, NEW r,
           PostponedRead(x, b, g, h, w, D, q, i, r)
    PROVE  Near(x, b, i, r, D)
<1> /\ g \in 1..4 /\ h \in Nat /\ h >= 2 * g /\ w \in {0, 1}
    /\ D \in Nat \ {0} /\ q \in Nat /\ q < D /\ q >= h
    /\ i \in (h + g)..(h + 2 * g - 1) /\ r = q + i - (h + 2 * g)
    /\ ListIs(x, g, h, w, TRUE)
    /\ HasRows(b, g, h, w, q, D)
    /\ HasAbove(b, g, h, w, q)
  BY DEF PostponedRead
<1>1. ASSUME NEW j \in h..(h + 2 * g - 1)
      PROVE  Through(x, b, j) = q + j - (h + 2 * g)
  <2>1. j \in (-g)..(h + 3 * g - 1) /\ j \in 0..(h + 2 * g - 1)
    OBVIOUS
  <2>2. x[j] = Core(g, h, w, j)
    BY <2>1 DEF Listed, ListIs
  <2>3. x[j] # -2
    <3>1. Core(g, h, w, j) \in 0..(h + 2 * g - 1)
      BY <2>1, CoreFacts
    <3> QED
      BY <2>2, <3>1
  <2>4. b[Core(g, h, w, j)] = q + j - (h + 2 * g)
    BY <1>1 DEF HasAbove
  <2> QED
    BY <2>2, <2>3, <2>4 DEF Through
<1>2. Through(x, b, i) = r
  <2>1. i \in h..(h + 2 * g - 1)
    OBVIOUS
  <2> QED
    BY <1>1, <2>1
<1>3. Through(x, b, i - 1) = r - 1
  <2>1. i - 1 \in h..(h + 2 * g - 1) /\ q + (i - 1) - (h + 2 * g) = r - 1
    OBVIOUS
  <2> QED
    BY <1>1, <2>1
<1>4. Through(x, b, i + 1) = r + 1
  <2>1. CASE i < h + 2 * g - 1
    <3>1. i + 1 \in h..(h + 2 * g - 1) /\ q + (i + 1) - (h + 2 * g) = r + 1
      BY <2>1
    <3> QED
      BY <1>1, <3>1
  <2>2. CASE i = h + 2 * g - 1
    <3>1. i + 1 = h + 2 * g /\ r + 1 = q /\ i + 1 \in (-g)..(h + 3 * g - 1)
          /\ 0 \in 0..(h - 1) /\ q + 0 < D /\ 0 \in 0..(h + 2 * g - 1)
          /\ (i + 1) - (h + 2 * g) = 0
      BY <2>2
    <3>2. x[i + 1] = Core(g, h, w, 0)
      BY <3>1 DEF Listed, ListIs
    <3>3. x[i + 1] # -2
      <4>1. Core(g, h, w, 0) \in 0..(h + 2 * g - 1)
        BY <3>1, CoreFacts
      <4> QED
        BY <3>2, <4>1
    <3>4. b[Core(g, h, w, 0)] = q
      BY <3>1 DEF HasRows
    <3> QED
      BY <3>1, <3>2, <3>3, <3>4 DEF Through
  <2> QED
    BY <2>1, <2>2
<1>5. r \in Nat /\ r - 1 >= 0 /\ r + 1 <= D - 1
  OBVIOUS
<1> QED
  BY <1>2, <1>3, <1>4, <1>5 DEF Within, Near

\* How many rows of blocks are above the one that the main controller fills
\* or reads, and whether the lists are wrapped around.
Before(m) == IF m.full THEN m.seen - 1 ELSE m.seen
Wrapped(m) == Before(m) >= 1

\* The lists lead where they should.
Span(s, c) == (-s.rg[c])..(s.rg[c] * s.M + 3 * s.rg[c] - 1)
Lists(s, x, wrapped) ==
    DOMAIN x = {0, 1} /\ \A w \in {0, 1} : \A c \in DOMAIN s.rg :
      /\ DOMAIN x[w][c] = Span(s, c)
      /\ ListIs(x[w][c], s.rg[c], s.rg[c] * s.M, w, wrapped)
LastList(s, x, w, wrapped) ==
    \A c \in DOMAIN s.rg :
      BottomListIs(x[w][c], s.rg[c], s.rg[c] * s.M, w, wrapped, Bottom(s, c))
ListsOK(s, m) ==
    IF m.state = "process" /\ m.seen = TotalRows(s)
      THEN LastList(s, m.xbuffer, m.whichptr, Wrapped(m))
      ELSE Lists(s, m.xbuffer, Wrapped(m))

\* The row of blocks at hand, and the last two row groups of the one above.
Current(s, m) ==
    \A c \in DOMAIN s.rg :
      HasRows(m.buffer[c], s.rg[c], s.rg[c] * s.M, m.whichptr,
              (Before(m) * s.M) * s.rg[c], DownHeight(s, c))
Previous(s, m) ==
    \A c \in DOMAIN s.rg :
      HasAbove(m.buffer[c], s.rg[c], s.rg[c] * s.M, m.whichptr,
               (Before(m) * s.M) * s.rg[c])

\* Which row groups of a row of blocks are read at once, and where the main
\* controller is between two calls.
Avail(s, m) == IF m.seen = TotalRows(s) THEN BottomGroups(s) ELSE s.M - 1
Stage(s, m) ==
    \/ m.state = "prepare" /\ ~m.full /\ m.seen = 0
    \/ m.state = "prepare" /\ m.full /\ m.seen >= 1
    \/ /\ m.state = "process" /\ m.full /\ m.seen >= 1
       /\ m.avail = Avail(s, m) /\ m.ctr < m.avail
    \/ /\ m.state = "postponed" /\ m.ctr = s.M + 1 /\ m.avail = s.M + 2
       /\ Before(m) >= 1 /\ (~m.full => m.seen < TotalRows(s))
ContextOK(s, m) ==
    /\ m.imcu = m.seen /\ Stage(s, m)
    /\ Before(m) = 0 => m.whichptr = 0
    /\ ListsOK(s, m)
    /\ m.full => Current(s, m)
    /\ Wrapped(m) => Previous(s, m)
ContextGroup(s, m) ==
    Before(m) * s.M + (IF m.state = "postponed" THEN -1
                       ELSE IF m.state = "process" THEN m.ctr ELSE 0)

\* Where the rows of a row of blocks are in the image.
LEMMA Places ==
    ASSUME NEW s, Output!ShapeOK(s), s.up = "context",
           NEW c \in DOMAIN s.rg, NEW n \in Nat
    PROVE  /\ s.rg[c] \in 1..4 /\ s.M \in 2..16
           /\ s.rg[c] * s.M \in Nat /\ s.rg[c] * s.M >= 2 * s.rg[c]
           /\ (n * s.M) * s.rg[c] \in Nat /\ DownHeight(s, c) \in Nat \ {0}
           /\ n < TotalRows(s) => (n * s.M) * s.rg[c] < DownHeight(s, c)
           /\ n + 1 < TotalRows(s) =>
                (n * s.M) * s.rg[c] + s.rg[c] * s.M < DownHeight(s, c)
           /\ Bottom(s, c) \in 1..(s.rg[c] * s.M)
           /\ n + 1 = TotalRows(s) =>
                (n * s.M) * s.rg[c] + Bottom(s, c) = DownHeight(s, c)
           /\ n = 0 => (n * s.M) * s.rg[c] = 0
           /\ n >= 1 => (n * s.M) * s.rg[c] >= s.rg[c] * s.M
<1> DEFINE g == s.rg[c]
           h == g * s.M
           q == (n * s.M) * g
<1>1. g \in 1..4 /\ s.M \in 2..16
  BY Sampling
<1>2. h \in Nat /\ q \in Nat /\ n * s.M \in Nat /\ (n + 1) * s.M \in Nat
  BY <1>1
<1>3. h >= 2 * g
  <2>1. g = 1 \/ g = 2 \/ g = 3 \/ g = 4
    BY <1>1
  <2> QED
    BY <1>1, <2>1
<1>4. ((n + 1) * s.M) * g = q + h
  BY <1>1
<1>5. DownHeight(s, c) \in Nat \ {0}
  BY <1>2, RowsBelow
<1>6. n < TotalRows(s) => q < DownHeight(s, c)
  <2>1. n < TotalRows(s) <=> (n * s.M) * s.V < s.H
    BY RowsOfBlocks
  <2> QED
    BY <1>2, <2>1, RowsBelow
<1>7. n + 1 < TotalRows(s) => q + h < DownHeight(s, c)
  <2>1. n + 1 < TotalRows(s) <=> ((n + 1) * s.M) * s.V < s.H
    BY RowsOfBlocks
  <2>2. ((n + 1) * s.M) * s.V < s.H
          <=> ((n + 1) * s.M) * g < DownHeight(s, c)
    BY <1>2, RowsBelow
  <2> QED
    BY <1>4, <2>1, <2>2
<1>8. /\ Bottom(s, c) \in 1..h
      /\ n + 1 = TotalRows(s) => q + Bottom(s, c) = DownHeight(s, c)
  <2>1. n + 1 = TotalRows(s) => TotalRows(s) - 1 = n
    OBVIOUS
  <2> QED
    BY <2>1, BottomRows
<1>9. (n = 0 => q = 0) /\ (n >= 1 => q >= h)
  <2>1. n >= 1 => (n - 1) * h >= 0
    BY <1>2
  <2>2. (n - 1) * h = q - h
    BY <1>1
  <2>3. n = 0 => q = 0
    BY <1>1
  <2> HIDE DEF q, h
  <2> QED
    BY <1>2, <2>1, <2>2, <2>3
<1> QED
  BY <1>1, <1>2, <1>3, <1>5, <1>6, <1>7, <1>8, <1>9

\* Samples are read through the list of the row of blocks at hand.
LEMMA SampleFacts ==
    ASSUME shape.up = "context", NEW m, NEW c, NEW i
    PROVE  Output!Sample(m, c, i)
             = Through(m.xbuffer[m.whichptr][c], m.buffer[c], i)
BY DEF Output!Sample, Output!Pointers, Through, Output!OLD

\* A row group that is made of right samples in every component is right.
LEMMA GroupReads ==
    ASSUME Output!ShapeOK(shape), shape.up = "context", NEW m, NEW G \in Nat,
           \A k \in 1..shape.V : \A c \in DOMAIN shape.rg :
             LET o == Offset(shape, c, k)
                 i == m.ctr * shape.rg[c] + o
                 r == G * shape.rg[c] + o
                 d == DownHeight(shape, c)
                 x == m.xbuffer[m.whichptr][c]
                 b == m.buffer[c]
             IN  o \in 0..(shape.rg[c] - 1) /\ r < d => Near(x, b, i, r, d)
    PROVE  Reads(m, G)
<1>1. ASSUME NEW k \in 1..shape.V, G * shape.V + k - 1 < shape.H
      PROVE  Output!RowGroup(m)[k] = RightRow(shape, G * shape.V + k - 1)
  <2>1. ASSUME NEW c \in DOMAIN shape.rg
        PROVE  LET i == m.ctr * shape.rg[c] + Offset(shape, c, k)
                   r == ((G * shape.V + k - 1) * shape.rg[c]) \div shape.V
                   d == DownHeight(shape, c)
               IN  /\ Output!Sample(m, c, i) = r
                   /\ Output!Sample(m, c, i - 1) = Within(r - 1, d - 1)
                   /\ Output!Sample(m, c, i + 1) = Within(r + 1, d - 1)
    <3>1. /\ Offset(shape, c, k) \in 0..(shape.rg[c] - 1)
          /\ ((G * shape.V + k - 1) * shape.rg[c]) \div shape.V
               = G * shape.rg[c] + Offset(shape, c, k)
          /\ G * shape.rg[c] + Offset(shape, c, k) < DownHeight(shape, c)
      BY <1>1, RowOfGroup
    <3> QED
      BY <3>1, SampleFacts DEF Near
  <2>2. Output!RowGroup(m)[k] = [c \in DOMAIN shape.rg |->
          <<Output!Sample(m, c,
              (m.ctr * shape.rg[c] + Offset(shape, c, k)) - 1),
            Output!Sample(m, c,
              m.ctr * shape.rg[c] + Offset(shape, c, k)),
            Output!Sample(m, c,
              m.ctr * shape.rg[c] + Offset(shape, c, k) + 1)>>]
    BY RowGroupFacts
  <2>3. RightRow(shape, G * shape.V + k - 1) = [c \in DOMAIN shape.rg |->
          LET r == ((G * shape.V + k - 1) * shape.rg[c]) \div shape.V
              d == DownHeight(shape, c)
          IN  <<Within(r - 1, d - 1), r, Within(r + 1, d - 1)>>]
    BY DEF RightRow
  <2> QED
    BY <2>1, <2>2, <2>3
<1> QED
  BY <1>1 DEF Reads, AreRows

\* What the main controller gives the upsampler to read is right: while a row
\* of blocks is read, and when the last row group of the one above is.
LEMMA ProcessReads ==
    ASSUME Output!ShapeOK(shape), shape.up = "context", NEW m,
           MainType(shape, m), ContextOK(shape, m), m.state = "process"
    PROVE  /\ Reads(m, ContextGroup(shape, m))
           /\ ContextGroup(shape, m) \in Nat
<1> DEFINE n == m.seen - 1
           G == n * shape.M + m.ctr
           T == TotalRows(shape)
           last == m.seen = T
<1>1. 1 \in DOMAIN shape.rg /\ T \in Nat \ {0}
  BY RowsOfBlocks DEF Output!ShapeOK
<1>2. /\ m.full /\ m.avail = Avail(shape, m) /\ m.ctr < m.avail
      /\ n \in Nat /\ n < T /\ m.ctr \in Nat
      /\ Before(m) = n /\ m.whichptr \in {0, 1}
      /\ shape.M \in 2..16
  <2>1. m.full /\ m.avail = Avail(shape, m) /\ m.ctr < m.avail /\ m.seen >= 1
    BY DEF ContextOK, Stage
  <2>2. m.seen \in 0..T /\ m.ctr \in 0..(shape.M + 2) /\ m.whichptr \in {0, 1}
    BY DEF MainType
  <2>3. 0 \in Nat
    OBVIOUS
  <2>4. shape.M \in 2..16
    BY <1>1, <2>3, Places
  <2> HIDE DEF T
  <2> QED
    BY <1>1, <2>1, <2>2, <2>4 DEF Before
<1>3. G \in Nat /\ ContextGroup(shape, m) = G
  BY <1>2 DEF ContextGroup
<1>4. m.ctr \in 0..(shape.M - 1) /\ (~last => m.ctr \in 0..(shape.M - 2))
  <2>1. BottomGroups(shape) \in 1..shape.M
    <3> 0 \in Nat
      OBVIOUS
    <3> QED
      BY BottomOutput
  <2> QED
    BY <1>2, <2>1 DEF Avail
<1> HIDE DEF G, n, T
<1>5. ASSUME NEW k \in 1..shape.V, NEW c \in DOMAIN shape.rg,
             Offset(shape, c, k) \in 0..(shape.rg[c] - 1),
             G * shape.rg[c] + Offset(shape, c, k) < DownHeight(shape, c)
      PROVE  LET o == Offset(shape, c, k)
                 i == m.ctr * shape.rg[c] + o
                 r == G * shape.rg[c] + o
                 d == DownHeight(shape, c)
                 x == m.xbuffer[m.whichptr][c]
                 b == m.buffer[c]
             IN  Near(x, b, i, r, d)
  <2> DEFINE g == shape.rg[c]
             h == g * shape.M
             q == (n * shape.M) * g
             D == DownHeight(shape, c)
             o == Offset(shape, c, k)
             i == m.ctr * g + o
             r == G * g + o
             x == m.xbuffer[m.whichptr][c]
             b == m.buffer[c]
             w == m.whichptr
             e == Bottom(shape, c)
             prev == Wrapped(m)
  <2>1. /\ g \in 1..4 /\ h \in Nat /\ h >= 2 * g /\ q \in Nat
        /\ D \in Nat \ {0} /\ e \in 1..h
        /\ n + 1 < T => q + h < D
        /\ n + 1 = T => q + e = D
        /\ n = 0 => q = 0
        /\ n >= 1 => q >= h
    BY <1>2, Places DEF T
  <2>2. last => q + e = D
    BY <1>1, <2>1, <1>2 DEF n, T
  <2>3. ~last => q + h < D
    <3>1. m.seen \in 0..T
      BY DEF MainType, T
    <3>2. ~last => n + 1 < T
      BY <1>1, <3>1 DEF n
    <3> QED
      BY <2>1, <3>2
  <2>4. (prev <=> n >= 1) /\ prev \in BOOLEAN
    BY <1>2 DEF Wrapped
  <2>5. ~prev => q = 0 /\ w = 0
    <3>1. ~prev => n = 0
      BY <1>2, <2>4
    <3>2. Before(m) = 0 => w = 0
      BY DEF ContextOK
    <3> QED
      BY <1>2, <2>1, <3>1, <3>2
  <2>6. i \in 0..(h - 1)
    BY <1>2, <1>4, <1>5, <2>1, InGroups
  <2>7. ~last => i <= h - 2
    <3>1. ASSUME ~last PROVE i \in 0..(g * (shape.M - 1) - 1)
      <4>1. shape.M - 1 \in Nat /\ m.ctr \in 0..((shape.M - 1) - 1)
        BY <1>2, <1>4, <3>1
      <4> QED
        BY <1>5, <2>1, <4>1, InGroups
    <3>2. g * (shape.M - 1) = h - g
      BY <1>2, <2>1
    <3> HIDE DEF h, i
    <3> QED
      BY <2>1, <3>1, <3>2
  <2>8. q + i = r
    <3>1. (n * shape.M) * g + (m.ctr * g + o) = (n * shape.M + m.ctr) * g + o
      BY <1>2, <1>5, <2>1
    <3> QED
      BY <3>1 DEF G
  <2>9. \/ q + e = D /\ BottomListIs(x, g, h, w, prev, e)
        \/ q + h < D /\ i <= h - 2 /\ ListIs(x, g, h, w, prev)
    <3>1. last => BottomListIs(x, g, h, w, prev, e)
      BY DEF ContextOK, ListsOK, LastList, T
    <3>2. ~last => ListIs(x, g, h, w, prev)
      BY <1>2 DEF ContextOK, ListsOK, Lists, T
    <3> HIDE DEF g, h, q, D, i, x, w, e, prev, last
    <3> QED
      BY <2>2, <2>3, <2>7, <3>1, <3>2
  <2>10. HasRows(b, g, h, w, q, D)
    BY <1>2 DEF ContextOK, Current
  <2>11. prev => q >= 1 /\ HasAbove(b, g, h, w, q)
    <3>1. prev => q >= 1
      BY <2>1, <2>4
    <3>2. prev => HasAbove(b, g, h, w, q)
      BY <1>2 DEF ContextOK, Previous
    <3> QED
      BY <3>1, <3>2
  <2> HIDE DEF g, h, q, D, o, i, x, b, w, e, prev, last
  <2>12. q + i < D
    BY <1>5, <2>8 DEF g, o, D
  <2>13. w \in {0, 1}
    BY <1>2 DEF w
  <2>14. RowRead(x, b, g, h, w, D, q, e, prev, i)
    BY <2>1, <2>4, <2>5, <2>6, <2>9, <2>10, <2>11, <2>12, <2>13 DEF RowRead
  <2>15. Near(x, b, i, r, D)
    BY <2>8, <2>14, AroundRow
  <2> QED
    BY <2>15 DEF g, o, i, r, D, x, b, w
<1>6. Reads(m, G)
  BY <1>3, <1>5, GroupReads
<1> QED
  BY <1>3, <1>6

\* The last row group of the row of blocks above, with the next one there.
LEMMA PostponedReads ==
    ASSUME Output!ShapeOK(shape), shape.up = "context", NEW m, m.full,
           MainType(shape, m), ContextOK(shape, m), m.state = "postponed"
    PROVE  /\ Reads(m, ContextGroup(shape, m))
           /\ ContextGroup(shape, m) \in Nat
<1> DEFINE n == m.seen - 1
           G == n * shape.M + -1
           T == TotalRows(shape)
<1>1. 1 \in DOMAIN shape.rg /\ T \in Nat \ {0}
  BY RowsOfBlocks DEF Output!ShapeOK
<1>2. /\ m.ctr = shape.M + 1 /\ n \in Nat /\ n >= 1 /\ n < T
      /\ Before(m) = n /\ m.whichptr \in {0, 1}
      /\ shape.M \in 2..16
  <2>1. m.ctr = shape.M + 1 /\ Before(m) >= 1
    BY DEF ContextOK, Stage
  <2>2. m.seen \in 0..T /\ m.whichptr \in {0, 1}
    BY DEF MainType
  <2>3. 0 \in Nat
    OBVIOUS
  <2>4. shape.M \in 2..16
    BY <1>1, <2>3, Places
  <2> HIDE DEF T
  <2> QED
    BY <1>1, <2>1, <2>2, <2>4 DEF Before
<1>3. G \in Nat /\ ContextGroup(shape, m) = G
  <2>1. n * shape.M >= 1
    <3>1. (n - 1) * shape.M >= 0
      BY <1>2
    <3>2. (n - 1) * shape.M = n * shape.M - shape.M /\ n * shape.M \in Int
      BY <1>2
    <3> QED
      BY <1>2, <3>1, <3>2
  <2> QED
    BY <1>2, <2>1 DEF ContextGroup
<1> HIDE DEF G, n, T
<1>4. ASSUME NEW k \in 1..shape.V, NEW c \in DOMAIN shape.rg,
             Offset(shape, c, k) \in 0..(shape.rg[c] - 1)
      PROVE  LET o == Offset(shape, c, k)
                 i == m.ctr * shape.rg[c] + o
                 r == G * shape.rg[c] + o
                 d == DownHeight(shape, c)
                 x == m.xbuffer[m.whichptr][c]
                 b == m.buffer[c]
             IN  Near(x, b, i, r, d)
  <2> DEFINE g == shape.rg[c]
             h == g * shape.M
             q == (n * shape.M) * g
             D == DownHeight(shape, c)
             o == Offset(shape, c, k)
             i == m.ctr * g + o
             r == G * g + o
             x == m.xbuffer[m.whichptr][c]
             b == m.buffer[c]
             w == m.whichptr
  <2>1. /\ g \in 1..4 /\ h \in Nat /\ h >= 2 * g /\ q \in Nat
        /\ D \in Nat \ {0} /\ q < D /\ q >= h
    BY <1>2, Places DEF T
  <2>2. i = h + g + o /\ r = q - g + o
    <3>1. (shape.M + 1) * g + o = g * shape.M + g + o
      BY <1>2, <1>4, <2>1
    <3>2. (n * shape.M + -1) * g + o = (n * shape.M) * g - g + o
      BY <1>2, <1>4, <2>1
    <3> QED
      BY <1>2, <3>1, <3>2 DEF G
  <2>3. ListIs(x, g, h, w, TRUE)
    <3>1. Wrapped(m) = TRUE
      BY <1>2 DEF Wrapped
    <3>2. Lists(shape, m.xbuffer, TRUE)
      BY <3>1 DEF ContextOK, ListsOK
    <3> QED
      BY <1>2, <3>2 DEF Lists
  <2>4. HasRows(b, g, h, w, q, D)
    BY <1>2 DEF ContextOK, Current
  <2>5. HasAbove(b, g, h, w, q)
    BY <1>2 DEF ContextOK, Previous, Wrapped
  <2> HIDE DEF g, h, q, D, o, i, r, x, b, w
  <2>6. o \in 0..(g - 1) /\ w \in {0, 1}
    BY <1>2, <1>4 DEF o, g, w
  <2>7. i \in (h + g)..(h + 2 * g - 1) /\ r = q + i - (h + 2 * g)
    BY <2>1, <2>2, <2>6
  <2>8. PostponedRead(x, b, g, h, w, D, q, i, r)
    BY <2>1, <2>3, <2>4, <2>5, <2>6, <2>7 DEF PostponedRead
  <2>9. Near(x, b, i, r, D)
    BY <2>8, AroundPostponed
  <2> QED
    BY <2>9 DEF g, o, i, r, D, x, b, w
<1>5. Reads(m, G)
  BY <1>3, <1>4, GroupReads
<1> QED
  BY <1>3, <1>5

-----------------------------------------------------------------------------
(* The steps of the main controller with context.                          *)

\* A row of blocks decoded through a list takes the place of the one that is
\* two above it.
DecodedBuffer(b, x, h, q, D) ==
    [p \in DOMAIN b |->
       IF \E i \in 0..(h - 1) : x[i] = p
       THEN LET i == CHOOSE i \in 0..(h - 1) : x[i] = p
            IN  IF q + i < D THEN q + i ELSE -1
       ELSE b[p]]

\* The row of blocks is where its list says, and the two row groups above it
\* are not written over.
LEMMA DecodedRows ==
    ASSUME NEW g \in 1..4, NEW h \in Nat, h >= 2 * g, NEW w \in {0, 1},
           NEW D, NEW q, NEW b, NEW x, NEW wrapped,
           DOMAIN b = 0..(h + 2 * g - 1), ListIs(x, g, h, w, wrapped)
    PROVE  LET n == DecodedBuffer(b, x, h, q, D)
           IN  /\ DOMAIN n = DOMAIN b
               /\ HasRows(n, g, h, w, q, D)
               /\ HasAbove(b, g, h, w, q) => HasAbove(n, g, h, w, q)
<1> DEFINE n == DecodedBuffer(b, x, h, q, D)
           Val(i) == IF q + i < D THEN q + i ELSE -1
<1>1. DOMAIN n = DOMAIN b
  BY DEF DecodedBuffer
<1>2. \A i \in 0..(h - 1) : x[i] = Core(g, h, w, i)
  <2> SUFFICES ASSUME NEW i \in 0..(h - 1) PROVE x[i] = Core(g, h, w, i)
    OBVIOUS
  <2>1. i \in (-g)..(h + 3 * g - 1) /\ i >= 0 /\ ~(i >= h + 2 * g)
    OBVIOUS
  <2>2. x[i] = Listed(g, h, w, wrapped, i)
    BY <2>1 DEF ListIs
  <2> QED
    BY <2>1, <2>2 DEF Listed
<1>3. ASSUME NEW i \in 0..(h - 1) PROVE n[Core(g, h, w, i)] = Val(i)
  <2> DEFINE p == Core(g, h, w, i)
  <2>1. i \in 0..(h + 2 * g - 1)
    OBVIOUS
  <2>2. /\ p \in DOMAIN b
        /\ \A j \in 0..(h + 2 * g - 1) : p = Core(g, h, w, j) => i = j
    BY <2>1, CoreFacts
  <2>3. x[i] = p /\ \A j \in 0..(h - 1) : x[j] = p => j = i
    <3> SUFFICES ASSUME NEW j \in 0..(h - 1), x[j] = p PROVE j = i
      BY <1>2
    <3>1. x[j] = Core(g, h, w, j) /\ j \in 0..(h + 2 * g - 1)
      BY <1>2
    <3> QED
      BY <2>2, <3>1
  <2> HIDE DEF p
  <2>4. (CHOOSE j \in 0..(h - 1) : x[j] = p) = i
    BY <2>3
  <2>5. n[p] = Val(CHOOSE j \in 0..(h - 1) : x[j] = p)
    BY <2>2, <2>3 DEF DecodedBuffer
  <2> QED
    BY <2>4, <2>5 DEF p
<1>4. ASSUME NEW i \in h..(h + 2 * g - 1)
      PROVE  n[Core(g, h, w, i)] = b[Core(g, h, w, i)]
  <2> DEFINE p == Core(g, h, w, i)
  <2>1. i \in 0..(h + 2 * g - 1)
    OBVIOUS
  <2>2. /\ p \in DOMAIN b
        /\ \A j \in 0..(h + 2 * g - 1) : p = Core(g, h, w, j) => i = j
    BY <2>1, CoreFacts
  <2>3. ~ \E j \in 0..(h - 1) : x[j] = p
    <3> SUFFICES ASSUME NEW j \in 0..(h - 1), x[j] = p PROVE FALSE
      OBVIOUS
    <3>1. x[j] = Core(g, h, w, j) /\ j \in 0..(h + 2 * g - 1) /\ i # j
      BY <1>2
    <3> QED
      BY <2>2, <3>1
  <2> QED
    BY <2>2, <2>3 DEF DecodedBuffer
<1>5. HasRows(n, g, h, w, q, D)
  BY <1>3 DEF HasRows
<1>6. HasAbove(b, g, h, w, q) => HasAbove(n, g, h, w, q)
  BY <1>4 DEF HasAbove
<1> QED
  BY <1>1, <1>5, <1>6

\* A row of blocks is there and nothing of it has been read.
Loaded(s, m) ==
    /\ m.full /\ m.seen >= 1 /\ m.imcu = m.seen
    /\ Before(m) = 0 => m.whichptr = 0
    /\ Lists(s, m.xbuffer, Wrapped(m))
    /\ Current(s, m)
    /\ Wrapped(m) => Previous(s, m)

\* decompress_data with context leaves the main controller at the same row
\* group, with the next row of blocks loaded.
LEMMA ContextDecodes ==
    ASSUME Output!ShapeOK(shape), shape.up = "context", NEW m, ~m.full,
           MainType(shape, m), ContextOK(shape, m)
    PROVE  LET n == [Output!decompress_data(m) EXCEPT !.seen = @ + 1]
           IN  /\ MainType(shape, n) /\ ContextOK(shape, n) /\ Loaded(shape, n)
               /\ n.state = m.state /\ n.state # "process"
               /\ n.ctr = m.ctr /\ n.avail = m.avail
               /\ ContextGroup(shape, n) = ContextGroup(shape, m)
<1> DEFINE k == Output!decompress_data(m)
           n == [k EXCEPT !.seen = @ + 1]
           b == [c \in DOMAIN shape.rg |->
                  DecodedBuffer(m.buffer[c], m.xbuffer[m.whichptr][c],
                                shape.rg[c] * shape.M,
                                m.imcu * (shape.rg[c] * shape.M),
                                DownHeight(shape, c))]
           T == TotalRows(shape)
<1>1. k = [m EXCEPT !.full = TRUE, !.imcu = @ + 1, !.buffer = b]
  BY SameRows DEF Output!decompress_data, Output!Comps, Output!M, Output!PAD,
                  Output!Pointers, DecodedBuffer
<1> HIDE DEF b
<1>2. /\ IsMain(k) /\ k.full = TRUE /\ k.imcu = m.imcu + 1 /\ k.buffer = b
      /\ k.ctr = m.ctr /\ k.avail = m.avail /\ k.whichptr = m.whichptr
      /\ k.state = m.state /\ k.seen = m.seen /\ k.xbuffer = m.xbuffer
  BY <1>1 DEF MainType, IsMain
<1> HIDE DEF k
<1>3. /\ IsMain(n) /\ n.full = TRUE /\ n.imcu = m.imcu + 1 /\ n.buffer = b
      /\ n.ctr = m.ctr /\ n.avail = m.avail /\ n.whichptr = m.whichptr
      /\ n.state = m.state /\ n.seen = m.seen + 1 /\ n.xbuffer = m.xbuffer
  BY <1>2 DEF IsMain
<1> HIDE DEF n
<1>4. /\ T \in Nat \ {0} /\ m.seen \in Nat /\ m.seen < T /\ m.imcu = m.seen
      /\ m.whichptr \in {0, 1}
      /\ \/ m.state = "prepare" /\ m.seen = 0
         \/ /\ m.state = "postponed" /\ m.seen >= 1
            /\ m.ctr = shape.M + 1 /\ m.avail = shape.M + 2
  <2>1. T \in Nat \ {0}
    BY RowsOfBlocks
  <2>2. m.seen \in 0..T /\ m.whichptr \in {0, 1}
    BY DEF MainType
  <2>3. m.imcu = m.seen
    BY DEF ContextOK
  <2> QED
    BY <2>1, <2>2, <2>3 DEF ContextOK, Stage, Before
<1>5. /\ Before(n) = m.seen /\ Before(m) = m.seen
      /\ Wrapped(n) = Wrapped(m) /\ n.state # "process"
  BY <1>3, <1>4 DEF Before, Wrapped
<1>6. Lists(shape, n.xbuffer, Wrapped(n)) /\ Lists(shape, m.xbuffer, Wrapped(m))
  <2>1. Lists(shape, m.xbuffer, Wrapped(m))
    BY <1>4 DEF ContextOK, ListsOK
  <2> QED
    BY <1>3, <1>5, <2>1
<1>7. ASSUME NEW c \in DOMAIN shape.rg
      PROVE  LET g == shape.rg[c]
                 h == g * shape.M
                 q == (m.seen * shape.M) * g
             IN  /\ DOMAIN b[c] = 0..(g * Groups(shape) - 1)
                 /\ HasRows(b[c], g, h, m.whichptr, q, DownHeight(shape, c))
                 /\ HasAbove(m.buffer[c], g, h, m.whichptr, q)
                      => HasAbove(b[c], g, h, m.whichptr, q)
  <2> DEFINE g == shape.rg[c]
             h == g * shape.M
             q == (m.seen * shape.M) * g
             D == DownHeight(shape, c)
             x == m.xbuffer[m.whichptr][c]
             w == m.whichptr
  <2>1. g \in 1..4 /\ h \in Nat /\ h >= 2 * g /\ shape.M \in 2..16
    BY <1>4, Places
  <2>2. g * Groups(shape) - 1 = h + 2 * g - 1
    <3>1. g * (shape.M + 2) = h + 2 * g
      BY <2>1
    <3>2. Groups(shape) = shape.M + 2
      BY DEF Groups
    <3>3. g * Groups(shape) = h + 2 * g
      BY <3>1, <3>2
    <3>4. g \in Int /\ h \in Int
      BY <2>1
    <3> HIDE DEF g, h
    <3> QED
      BY <3>3, <3>4
  <2>3. DOMAIN m.buffer[c] = 0..(h + 2 * g - 1)
    BY <2>2 DEF MainType, BufferType
  <2>4. ListIs(x, g, h, w, Wrapped(m))
    BY <1>4, <1>6 DEF Lists
  <2>5. m.imcu * (g * shape.M) = q
    BY <1>4, <2>1
  <2>6. b[c] = DecodedBuffer(m.buffer[c], x, h, q, D)
    BY <2>5 DEF b
  <2> HIDE DEF g, h, q, D, x
  <2>7. LET z == DecodedBuffer(m.buffer[c], x, h, q, D)
        IN  /\ DOMAIN z = DOMAIN m.buffer[c]
            /\ HasRows(z, g, h, w, q, D)
            /\ HasAbove(m.buffer[c], g, h, w, q) => HasAbove(z, g, h, w, q)
    BY <1>4, <2>1, <2>3, <2>4, DecodedRows
  <2> QED
    BY <2>2, <2>3, <2>6, <2>7 DEF g, h, q, D, x
<1>8. MainType(shape, n)
  <2>1. BufferType(shape, n.buffer)
    BY <1>3, <1>7 DEF BufferType
  <2>2. n.full \in BOOLEAN
    BY <1>3
  <2>3. n.seen \in 0..T /\ n.imcu \in 0..T
    BY <1>3, <1>4
  <2> QED
    BY <1>3, <2>1, <2>2, <2>3 DEF MainType, T
<1>9. Current(shape, n)
  BY <1>3, <1>5, <1>7 DEF Current
<1>10. Wrapped(n) => Previous(shape, n)
  <2>1. Wrapped(n) => Previous(shape, m)
    BY <1>5 DEF ContextOK
  <2> QED
    BY <1>3, <1>5, <1>7, <2>1 DEF Previous
<1>11. Before(n) = 0 => n.whichptr = 0
  BY <1>3, <1>5 DEF ContextOK
<1>12. n.full /\ n.seen >= 1 /\ n.imcu = n.seen
  BY <1>3, <1>4
<1>13. Loaded(shape, n)
  BY <1>6, <1>9, <1>10, <1>11, <1>12 DEF Loaded
<1>14. Stage(shape, n)
  BY <1>3, <1>4, <1>5, <1>12 DEF Stage
<1>15. ContextOK(shape, n)
  BY <1>5, <1>6, <1>9, <1>10, <1>11, <1>12, <1>14 DEF ContextOK, ListsOK
<1>16. ContextGroup(shape, n) = ContextGroup(shape, m)
  BY <1>3, <1>5 DEF ContextGroup
<1> QED
  BY <1>3, <1>5, <1>8, <1>13, <1>15, <1>16 DEF n, k

\* The row of blocks is made ready to be read; below the last one the list
\* leads to the last row of the image.
LEMMA Prepares ==
    ASSUME Output!ShapeOK(shape), shape.up = "context", NEW m,
           MainType(shape, m), Loaded(shape, m)
    PROVE  LET n == Output!PrepareForIMCU(m)
           IN  /\ MainType(shape, n) /\ ContextOK(shape, n)
               /\ n.state = "process"
               /\ ContextGroup(shape, n) = Before(m) * shape.M
<1> DEFINE T == TotalRows(shape)
           some == shape.M - 1
           k == [m EXCEPT !.ctr = 0, !.avail = some, !.state = "process"]
           n == Output!PrepareForIMCU(m)
<1>1. /\ T \in Nat \ {0} /\ m.seen \in 0..T /\ m.whichptr \in {0, 1}
      /\ 1 \in DOMAIN shape.rg /\ shape.M \in 2..16
      /\ BottomGroups(shape) \in 1..shape.M
  <2>1. 1 \in DOMAIN shape.rg /\ 0 \in Nat
    BY DEF Output!ShapeOK
  <2> QED
    BY <2>1, Places, RowsOfBlocks, BottomOutput DEF MainType
<1> HIDE DEF some
<1>0. k = [m EXCEPT !.ctr = 0, !.avail = some, !.state = "process"]
  OBVIOUS
<1> HIDE DEF k
<1>2. /\ IsMain(k) /\ k.full = m.full /\ k.imcu = m.imcu /\ k.buffer = m.buffer
      /\ k.ctr = 0 /\ k.avail = some /\ k.whichptr = m.whichptr
      /\ k.state = "process" /\ k.seen = m.seen /\ k.xbuffer = m.xbuffer
  BY <1>0 DEF MainType, IsMain
<1>3. n = IF k.seen = T THEN Output!set_bottom_pointers(k) ELSE k
  BY SameRows DEF Output!PrepareForIMCU, Output!M, k, some
<1>4. /\ IsMain(n) /\ n.full = m.full /\ n.imcu = m.imcu /\ n.buffer = m.buffer
      /\ n.ctr = 0 /\ n.avail = Avail(shape, m) /\ n.whichptr = m.whichptr
      /\ n.state = "process" /\ n.seen = m.seen
      /\ m.seen # T => n.xbuffer = m.xbuffer
      /\ m.seen = T => LastList(shape, n.xbuffer, m.whichptr, Wrapped(m))
  <2>1. CASE m.seen # T
    BY <1>2, <1>3, <2>1 DEF Avail, some
  <2>2. CASE m.seen = T
    <3> DEFINE y == [c \in DOMAIN shape.rg |->
                       [i \in DOMAIN m.xbuffer[m.whichptr][c] |->
                          IF i >= Bottom(shape, c)
                             /\ i < Bottom(shape, c) + 2 * shape.rg[c]
                          THEN m.xbuffer[m.whichptr][c][Bottom(shape, c) - 1]
                          ELSE m.xbuffer[m.whichptr][c][i]]]
               z == [m.xbuffer EXCEPT ![m.whichptr] = y]
    <3>1. n = [k EXCEPT !.avail = BottomGroups(shape), !.xbuffer = z]
      <4>1. n = Output!set_bottom_pointers(k)
        BY <1>2, <1>3, <2>2
      <4>2. n = [k EXCEPT
                   !.avail = BottomGroups(shape),
                   !.xbuffer = [@ EXCEPT ![k.whichptr] =
                     [c \in DOMAIN shape.rg |->
                       [i \in DOMAIN k.xbuffer[k.whichptr][c] |->
                          IF i >= Bottom(shape, c)
                             /\ i < Bottom(shape, c) + 2 * shape.rg[c]
                          THEN k.xbuffer[k.whichptr][c][Bottom(shape, c) - 1]
                          ELSE k.xbuffer[k.whichptr][c][i]]]]]
        BY <4>1 DEF Output!set_bottom_pointers, Output!Comps, Output!RowsLeft,
                    Output!DownsampledHeight, Output!CeilDiv, Output!V,
                    Output!M, Bottom, BottomGroups, DownHeight
      <4> QED
        BY <1>2, <4>2
    <3> HIDE DEF z
    <3>2. /\ IsMain(n) /\ n.full = m.full /\ n.imcu = m.imcu
          /\ n.buffer = m.buffer /\ n.xbuffer = z
          /\ n.ctr = 0 /\ n.avail = BottomGroups(shape)
          /\ n.whichptr = m.whichptr
          /\ n.state = "process" /\ n.seen = m.seen
      BY <1>2, <3>1 DEF IsMain
    <3>3. LastList(shape, z, m.whichptr, Wrapped(m))
      <4> SUFFICES ASSUME NEW c \in DOMAIN shape.rg
                   PROVE  BottomListIs(z[m.whichptr][c], shape.rg[c],
                                       shape.rg[c] * shape.M, m.whichptr,
                                       Wrapped(m), Bottom(shape, c))
        BY DEF LastList
      <4> DEFINE g == shape.rg[c]
                 h == g * shape.M
                 w == m.whichptr
                 x == m.xbuffer[w][c]
                 e == Bottom(shape, c)
      <4>1. /\ g \in 1..4 /\ h \in Nat /\ h >= 2 * g /\ e \in 1..h
        <5> 0 \in Nat
          OBVIOUS
        <5> QED
          BY Places
      <4>2. DOMAIN x = (-g)..(h + 3 * g - 1) /\ ListIs(x, g, h, w, Wrapped(m))
        BY <1>1 DEF Loaded, Lists, Span
      <4>3. w \in DOMAIN m.xbuffer
        BY <1>1 DEF Loaded, Lists
      <4>4. z[w][c] = [i \in DOMAIN x |->
                         IF i >= e /\ i < e + 2 * g THEN x[e - 1] ELSE x[i]]
        BY <4>3 DEF z
      <4> HIDE DEF g, h, x, e, w, z
      <4>5. x[e - 1] = Core(g, h, w, e - 1)
        <5>1. e - 1 \in (-g)..(h + 3 * g - 1) /\ e - 1 >= 0
              /\ ~(e - 1 >= h + 2 * g)
          BY <4>1
        <5>2. x[e - 1] = Listed(g, h, w, Wrapped(m), e - 1)
          BY <4>2, <5>1 DEF ListIs
        <5> QED
          BY <5>1, <5>2 DEF Listed
      <4>6. BottomListIs(z[w][c], g, h, w, Wrapped(m), e)
        BY <4>2, <4>4, <4>5 DEF BottomListIs, BottomListed, ListIs
      <4> QED
        BY <4>6 DEF g, h, w, e
    <3> QED
      BY <2>2, <3>2, <3>3 DEF Avail
  <2> QED
    BY <2>1, <2>2
<1> HIDE DEF n
<1>5. /\ Before(n) = Before(m) /\ (Wrapped(n) <=> Wrapped(m))
      /\ Wrapped(n) = Wrapped(m)
  BY <1>4 DEF Before, Wrapped
<1>6. Avail(shape, n) = Avail(shape, m) /\ Avail(shape, m) \in 1..shape.M
  BY <1>1, <1>4 DEF Avail
<1>7. MainType(shape, n)
  BY <1>1, <1>4, <1>6 DEF MainType
<1>8. ContextOK(shape, n)
  <2>1. ListsOK(shape, n)
    BY <1>4, <1>5 DEF ListsOK, Loaded
  <2>2. Current(shape, n) /\ (Wrapped(n) => Previous(shape, n))
    BY <1>4, <1>5 DEF Loaded, Current, Previous
  <2>3. Stage(shape, n)
    BY <1>1, <1>4, <1>6 DEF Stage, Loaded
  <2> QED
    BY <1>4, <1>5, <2>1, <2>2, <2>3 DEF ContextOK, Loaded
<1>9. ContextGroup(shape, n) = Before(m) * shape.M
  <2>1. Before(m) * shape.M + 0 = Before(m) * shape.M
    BY <1>1 DEF Before
  <2> QED
    BY <1>4, <1>5, <2>1 DEF ContextGroup
<1> QED
  BY <1>4, <1>7, <1>8, <1>9 DEF n

\* The lists at the start of a pass, and when they are wrapped around.
LEMMA FunnyPointers ==
    ASSUME Output!ShapeOK(shape), shape.up = "context"
    PROVE  Lists(shape, Output!make_funny_pointers, FALSE)
<1> DEFINE f == Output!make_funny_pointers
<1>1. DOMAIN f = {0, 1}
  BY DEF Output!make_funny_pointers
<1>2. ASSUME NEW w \in {0, 1}, NEW c \in DOMAIN shape.rg
      PROVE  /\ DOMAIN f[w][c] = Span(shape, c)
             /\ ListIs(f[w][c], shape.rg[c], shape.rg[c] * shape.M, w, FALSE)
  <2> DEFINE g == shape.rg[c]
             h == g * shape.M
  <2>1. g \in 1..4 /\ h \in Nat /\ h >= 2 * g /\ shape.M \in 2..16
    <3> 0 \in Nat
      OBVIOUS
    <3> QED
      BY Places
  <2>2. /\ g * (shape.M + 3) = h + 3 * g /\ g * (shape.M + 2) = h + 2 * g
        /\ g * (shape.M - 2) = h - 2 * g
    BY <2>1
  <2>3. f[w][c] = [i \in (-g)..(g * (shape.M + 3) - 1) |->
          CASE i < 0 -> IF w = 0 THEN 0 ELSE -2
            [] i >= g * (shape.M + 2) -> -2
            [] w = 1 /\ i >= g * (shape.M - 2) /\ i < g * shape.M -> i + 2 * g
            [] w = 1 /\ i >= g * shape.M /\ i < g * (shape.M + 2) -> i - 2 * g
            [] OTHER -> i]
    <3>1. w \in 0..1
      OBVIOUS
    <3> QED
      BY <3>1 DEF Output!make_funny_pointers, Output!Comps, Output!M,
                  Output!OLD
  <2> DEFINE up3 == g * (shape.M + 3)
             up2 == g * (shape.M + 2)
             low == g * (shape.M - 2)
  <2>4. f[w][c] = [i \in (-g)..(up3 - 1) |->
          CASE i < 0 -> IF w = 0 THEN 0 ELSE -2
            [] i >= up2 -> -2
            [] w = 1 /\ i >= low /\ i < h -> i + 2 * g
            [] w = 1 /\ i >= h /\ i < up2 -> i - 2 * g
            [] OTHER -> i]
    BY <2>3
  <2>5. up3 = h + 3 * g /\ up2 = h + 2 * g /\ low = h - 2 * g
    BY <2>2
  <2> HIDE DEF f, g, h, up3, up2, low
  <2>6. ASSUME NEW i \in (-g)..(h + 3 * g - 1)
        PROVE  f[w][c][i] = Listed(g, h, w, FALSE, i)
    <3>0. f[w][c][i] =
            CASE i < 0 -> IF w = 0 THEN 0 ELSE -2
              [] i >= up2 -> -2
              [] w = 1 /\ i >= low /\ i < h -> i + 2 * g
              [] w = 1 /\ i >= h /\ i < up2 -> i - 2 * g
              [] OTHER -> i
      BY <2>1, <2>4, <2>5
    <3>1. f[w][c][i] =
            CASE i < 0 -> IF w = 0 THEN 0 ELSE -2
              [] i >= h + 2 * g -> -2
              [] w = 1 /\ i >= h - 2 * g /\ i < h -> i + 2 * g
              [] w = 1 /\ i >= h /\ i < h + 2 * g -> i - 2 * g
              [] OTHER -> i
      BY <2>5, <3>0
    <3>2. i \in Int /\ g \in Int /\ h \in Int /\ h >= 2 * g /\ g >= 1
      BY <2>1
    <3>3. CASE i < 0
      BY <3>1, <3>2, <3>3 DEF Listed
    <3>4. CASE i >= h + 2 * g
      <4>1. ~(i < 0) /\ ~(i < h) /\ ~(i < h + 2 * g)
        BY <3>2, <3>4
      <4>2. f[w][c][i] = -2
        BY <3>1, <3>4, <4>1
      <4> QED
        BY <3>4, <4>1, <4>2 DEF Listed
    <3>5. CASE i >= 0 /\ i < h + 2 * g /\ w = 1 /\ i >= h - 2 * g /\ i < h
      BY <3>1, <3>2, <3>5 DEF Listed, Core
    <3>6. CASE i >= 0 /\ i < h + 2 * g /\ w = 1 /\ i >= h
      BY <3>1, <3>2, <3>6 DEF Listed, Core
    <3>7. CASE i >= 0 /\ i < h + 2 * g /\ (w = 0 \/ i < h - 2 * g)
      BY <3>1, <3>2, <3>7 DEF Listed, Core
    <3>8. \/ i < 0
          \/ i >= h + 2 * g
          \/ i >= 0 /\ i < h + 2 * g /\ w = 1 /\ i >= h - 2 * g /\ i < h
          \/ i >= 0 /\ i < h + 2 * g /\ w = 1 /\ i >= h
          \/ i >= 0 /\ i < h + 2 * g /\ (w = 0 \/ i < h - 2 * g)
      BY <3>2
    <3> QED
      BY <3>3, <3>4, <3>5, <3>6, <3>7, <3>8
  <2>7. DOMAIN f[w][c] = (-g)..(h + 3 * g - 1)
    <3>1. up3 - 1 = h + 3 * g - 1
      BY <2>1, <2>5
    <3> QED
      BY <2>4, <3>1
  <2>8. ListIs(f[w][c], g, h, w, FALSE)
    BY <2>6 DEF ListIs
  <2> QED
    BY <2>7, <2>8 DEF Span, g, h
<1> QED
  BY <1>1, <1>2 DEF Lists

\* set_wraparound_pointers joins both ends of each list.
LEMMA WrapsAround ==
    ASSUME Output!ShapeOK(shape), shape.up = "context", NEW x,
           Lists(shape, x, FALSE)
    PROVE  Lists(shape, Output!set_wraparound_pointers(x), TRUE)
<1> DEFINE f == Output!set_wraparound_pointers(x)
<1>1. DOMAIN f = {0, 1}
  BY DEF Output!set_wraparound_pointers
<1>2. ASSUME NEW w \in {0, 1}, NEW c \in DOMAIN shape.rg
      PROVE  /\ DOMAIN f[w][c] = Span(shape, c)
             /\ ListIs(f[w][c], shape.rg[c], shape.rg[c] * shape.M, w, TRUE)
  <2> DEFINE g == shape.rg[c]
             h == g * shape.M
             y == x[w][c]
  <2>1. g \in 1..4 /\ h \in Nat /\ h >= 2 * g /\ shape.M \in 2..16
    <3> 0 \in Nat
      OBVIOUS
    <3> QED
      BY Places
  <2>2. g * (shape.M + 2) = h + 2 * g
    BY <2>1
  <2>3. f[w][c] = [i \in DOMAIN y |->
          CASE i < 0 -> y[g * (shape.M + 2) + i]
            [] i >= g * (shape.M + 2) -> y[i - g * (shape.M + 2)]
            [] OTHER -> y[i]]
    <3>1. w \in 0..1
      OBVIOUS
    <3> QED
      BY <3>1 DEF Output!set_wraparound_pointers, Output!Comps, Output!M
  <2>4. DOMAIN y = (-g)..(h + 3 * g - 1) /\ ListIs(y, g, h, w, FALSE)
    BY DEF Lists, Span
  <2>5. f[w][c] = [i \in (-g)..(h + 3 * g - 1) |->
          CASE i < 0 -> y[(h + 2 * g) + i]
            [] i >= h + 2 * g -> y[i - (h + 2 * g)]
            [] OTHER -> y[i]]
    BY <2>2, <2>3, <2>4
  <2> HIDE DEF f, g, h, y
  <2>6. ASSUME NEW j \in 0..(h + 2 * g - 1) PROVE y[j] = Core(g, h, w, j)
    <3>1. j \in (-g)..(h + 3 * g - 1) /\ j >= 0 /\ ~(j >= h + 2 * g)
      BY <2>1
    <3>2. y[j] = Listed(g, h, w, FALSE, j)
      BY <2>4, <3>1 DEF ListIs
    <3> QED
      BY <3>1, <3>2 DEF Listed
  <2>7. ASSUME NEW i \in (-g)..(h + 3 * g - 1)
        PROVE  f[w][c][i] = Listed(g, h, w, TRUE, i)
    <3>1. f[w][c][i] = CASE i < 0 -> y[(h + 2 * g) + i]
                         [] i >= h + 2 * g -> y[i - (h + 2 * g)]
                         [] OTHER -> y[i]
      BY <2>5
    <3>2. i \in Int /\ g \in Int /\ h \in Int /\ h >= 2 * g /\ g >= 1
      BY <2>1
    <3>3. CASE i < 0
      <4>1. (h + 2 * g) + i \in 0..(h + 2 * g - 1)
        BY <3>2, <3>3
      <4>2. f[w][c][i] = y[(h + 2 * g) + i]
        BY <3>1, <3>2, <3>3
      <4>3. Listed(g, h, w, TRUE, i) = Core(g, h, w, h + 2 * g + i)
        BY <3>3 DEF Listed
      <4> QED
        BY <2>6, <4>1, <4>2, <4>3
    <3>4. CASE i >= h + 2 * g
      <4>1. i - (h + 2 * g) \in 0..(h + 2 * g - 1) /\ ~(i < 0)
        BY <3>2, <3>4
      <4>2. f[w][c][i] = y[i - (h + 2 * g)]
        BY <3>1, <3>4, <4>1
      <4>3. Listed(g, h, w, TRUE, i) = Core(g, h, w, i - (h + 2 * g))
        BY <3>4, <4>1 DEF Listed
      <4> QED
        BY <2>6, <4>1, <4>2, <4>3
    <3>5. CASE i >= 0 /\ i < h + 2 * g
      <4>1. i \in 0..(h + 2 * g - 1) /\ ~(i < 0) /\ ~(i >= h + 2 * g)
        BY <3>2, <3>5
      <4>2. f[w][c][i] = y[i]
        BY <3>1, <4>1
      <4>3. Listed(g, h, w, TRUE, i) = Core(g, h, w, i)
        BY <4>1 DEF Listed
      <4> QED
        BY <2>6, <4>1, <4>2, <4>3
    <3>6. i < 0 \/ i >= h + 2 * g \/ (i >= 0 /\ i < h + 2 * g)
      BY <3>2
    <3> QED
      BY <3>3, <3>4, <3>5, <3>6
  <2> QED
    BY <2>5, <2>7 DEF ListIs, Span, g, h
<1> QED
  BY <1>1, <1>2 DEF Lists

\* The last row group of a row of blocks has to wait for the next one.
LEMMA PostponeTypes ==
    ASSUME Output!ShapeOK(shape), shape.up = "context", NEW m,
           MainType(shape, m)
    PROVE  LET n == Output!PostponeLast(m)
           IN  /\ MainType(shape, n) /\ n.full = FALSE
               /\ n.ctr = shape.M + 1 /\ n.avail = shape.M + 2
               /\ n.whichptr = 1 - m.whichptr /\ n.state = "postponed"
               /\ n.seen = m.seen /\ n.imcu = m.imcu /\ n.buffer = m.buffer
               /\ n.xbuffer = IF m.seen = 1
                              THEN Output!set_wraparound_pointers(m.xbuffer)
                              ELSE m.xbuffer
<1> DEFINE n == Output!PostponeLast(m)
           x == IF m.seen = 1 THEN Output!set_wraparound_pointers(m.xbuffer)
                ELSE m.xbuffer
           one == shape.M + 1
           two == shape.M + 2
           other == 1 - m.whichptr
<1>1. n = [m EXCEPT !.xbuffer = x, !.whichptr = other, !.full = FALSE,
                    !.ctr = one, !.avail = two, !.state = "postponed"]
  BY DEF Output!PostponeLast, Output!M
<1>2. one \in 0..(shape.M + 2) /\ two \in 0..(shape.M + 2)
      /\ other \in {0, 1}
  <2>1. 1 \in DOMAIN shape.rg /\ 0 \in Nat
    BY DEF Output!ShapeOK
  <2>2. shape.M \in 2..16
    BY <2>1, Places
  <2> QED
    BY <2>2 DEF MainType
<1> HIDE DEF n, x, one, two, other
<1>3. /\ IsMain(n) /\ n.full = FALSE /\ n.imcu = m.imcu /\ n.buffer = m.buffer
      /\ n.ctr = one /\ n.avail = two /\ n.whichptr = other
      /\ n.state = "postponed" /\ n.seen = m.seen /\ n.xbuffer = x
  BY <1>1 DEF MainType, IsMain
<1>4. n.full \in BOOLEAN
  BY <1>3
<1>5. MainType(shape, n)
  BY <1>2, <1>3, <1>4 DEF MainType
<1> QED
  BY <1>3, <1>5 DEF n, x, one, two, other

\* From then on the other list is used, and the row group is the last of the
\* row of blocks above (process_data_context_main).
LEMMA Postpones ==
    ASSUME Output!ShapeOK(shape), shape.up = "context", NEW m,
           MainType(shape, m), Loaded(shape, m), m.seen < TotalRows(shape)
    PROVE  LET n == Output!PostponeLast(m)
           IN  /\ ContextOK(shape, n)
               /\ ContextGroup(shape, n) = m.seen * shape.M + -1
<1> DEFINE n == Output!PostponeLast(m)
           T == TotalRows(shape)
           v == m.whichptr
           w == 1 - m.whichptr
<1>1. /\ T \in Nat \ {0} /\ m.seen \in 1..T /\ v \in {0, 1} /\ w \in {0, 1}
      /\ m.full /\ m.imcu = m.seen
  <2>1. T \in Nat \ {0}
    BY RowsOfBlocks
  <2>2. m.seen \in 0..T /\ m.seen >= 1 /\ v \in {0, 1}
    BY DEF MainType, Loaded
  <2> QED
    BY <2>1, <2>2 DEF Loaded
<1>2. /\ n.full = FALSE /\ n.ctr = shape.M + 1 /\ n.avail = shape.M + 2
      /\ n.whichptr = w /\ n.state = "postponed"
      /\ n.seen = m.seen /\ n.imcu = m.imcu /\ n.buffer = m.buffer
      /\ n.xbuffer = IF m.seen = 1
                     THEN Output!set_wraparound_pointers(m.xbuffer)
                     ELSE m.xbuffer
  BY PostponeTypes
<1> HIDE DEF n, T
<1>3. /\ Before(n) = m.seen /\ Before(m) = m.seen - 1
      /\ Wrapped(n) = TRUE
  BY <1>1, <1>2 DEF Before, Wrapped
<1>4. Lists(shape, n.xbuffer, TRUE)
  <2>1. Lists(shape, m.xbuffer, Wrapped(m))
    BY DEF Loaded
  <2>2. CASE m.seen = 1
    <3>1. Wrapped(m) = FALSE
      BY <1>3, <2>2 DEF Wrapped
    <3>2. Lists(shape, m.xbuffer, FALSE)
      BY <2>1, <3>1
    <3>3. n.xbuffer = Output!set_wraparound_pointers(m.xbuffer)
      BY <1>2, <2>2
    <3> QED
      BY <3>2, <3>3, WrapsAround
  <2>3. CASE m.seen # 1
    <3>1. Wrapped(m) = TRUE
      BY <1>1, <1>3, <2>3 DEF Wrapped
    <3> QED
      BY <1>2, <2>1, <2>3, <3>1
  <2> QED
    BY <2>2, <2>3
<1>5. Previous(shape, n)
  <2> SUFFICES ASSUME NEW c \in DOMAIN shape.rg
               PROVE  HasAbove(m.buffer[c], shape.rg[c],
                               shape.rg[c] * shape.M, w,
                               (m.seen * shape.M) * shape.rg[c])
    BY <1>2, <1>3 DEF Previous
  <2> DEFINE g == shape.rg[c]
             h == g * shape.M
             k == m.seen - 1
             q == (k * shape.M) * g
             D == DownHeight(shape, c)
             b == m.buffer[c]
  <2>1. /\ g \in 1..4 /\ h \in Nat /\ h >= 2 * g /\ q \in Nat
        /\ D \in Nat \ {0} /\ q + h < D /\ shape.M \in 2..16
    <3>1. k \in Nat /\ k + 1 < T
      BY <1>1 DEF T
    <3> QED
      BY <3>1, Places DEF T
  <2>2. (m.seen * shape.M) * g = q + h
    <3>1. k \in Nat /\ m.seen = k + 1
      BY <1>1
    <3> HIDE DEF k
    <3>2. g \in 1..4 /\ shape.M \in 2..16 /\ k \in Nat
      BY <2>1, <3>1
    <3>3. ((k + 1) * shape.M) * g = (k * shape.M) * g + g * shape.M
      <4> DEFINE e == shape.M
      <4> HIDE DEF g, e
      <4>1. e \in Int /\ g \in Int /\ k \in Int
        BY <3>2 DEF e
      <4>2. ((k + 1) * e) * g = (k * e) * g + g * e
        BY <4>1
      <4> QED
        BY <4>2 DEF e
    <3> QED
      BY <3>1, <3>3
  <2>3. HasRows(b, g, h, v, q, D)
    BY <1>3 DEF Loaded, Current
  <2> HIDE DEF g, h, q, D, b
  <2>4. HasAbove(b, g, h, w, q + h)
    <3> SUFFICES ASSUME NEW i \in h..(h + 2 * g - 1)
                 PROVE  b[Core(g, h, w, i)] = q + h + i - (h + 2 * g)
      BY DEF HasAbove
    <3>1. i - 2 * g \in 0..(h - 1) /\ q + (i - 2 * g) < D
          /\ q + h + i - (h + 2 * g) = q + (i - 2 * g)
      BY <2>1
    <3>2. Core(g, h, w, i) = Core(g, h, v, i - 2 * g)
      BY <1>1, <2>1 DEF Core
    <3>3. b[Core(g, h, v, i - 2 * g)] = q + (i - 2 * g)
      BY <2>3, <3>1 DEF HasRows
    <3> QED
      BY <3>1, <3>2, <3>3
  <2> QED
    BY <2>2, <2>4 DEF g, h, b
<1>6. Stage(shape, n)
  BY <1>1, <1>2, <1>3 DEF Stage, T
<1>7. ContextOK(shape, n)
  <2>1. ListsOK(shape, n)
    BY <1>2, <1>3, <1>4 DEF ListsOK
  <2>2. Before(n) # 0
    BY <1>1, <1>3
  <2> QED
    BY <1>1, <1>2, <1>5, <1>6, <2>1, <2>2 DEF ContextOK
<1>8. ContextGroup(shape, n) = m.seen * shape.M + -1
  BY <1>2, <1>3 DEF ContextGroup
<1> QED
  BY <1>7, <1>8 DEF n

-----------------------------------------------------------------------------
(* What a call of the main controller brings.                              *)

\* Rows and the rows below them.
LEMMA AppendRows ==
    ASSUME NEW s, NEW f \in Seq(RowSet(s)), NEW e \in Seq(RowSet(s)),
           NEW d \in Nat, AreRows(s, f, Len(f), d),
           AreRows(s, e, Len(e), d + Len(f))
    PROVE  /\ f \o e \in Seq(RowSet(s)) /\ Len(f \o e) = Len(f) + Len(e)
           /\ AreRows(s, f \o e, Len(f \o e), d)
<1>1. /\ f \o e \in Seq(RowSet(s)) /\ Len(f \o e) = Len(f) + Len(e)
      /\ Len(f) \in Nat /\ Len(e) \in Nat
  OBVIOUS
<1>2. \A i \in 1..(Len(f) + Len(e)) :
        (f \o e)[i] = IF i <= Len(f) THEN f[i] ELSE e[i - Len(f)]
  OBVIOUS
<1>3. ASSUME NEW i \in 1..(Len(f) + Len(e)), d + i - 1 < s.H
      PROVE  (f \o e)[i] = RightRow(s, d + i - 1)
  <2>1. CASE i <= Len(f)
    <3>1. i \in 1..Len(f)
      BY <1>1, <2>1
    <3> QED
      BY <1>2, <1>3, <2>1, <3>1 DEF AreRows
  <2>2. CASE i > Len(f)
    <3>1. /\ i - Len(f) \in 1..Len(e) /\ ~(i <= Len(f))
          /\ d + Len(f) + (i - Len(f)) - 1 = d + i - 1
      BY <1>1, <2>2
    <3>2. e[i - Len(f)] = RightRow(s, d + Len(f) + (i - Len(f)) - 1)
      BY <1>3, <3>1 DEF AreRows
    <3>3. (f \o e)[i] = e[i - Len(f)]
      BY <1>2, <3>1
    <3> QED
      BY <3>1, <3>2, <3>3
  <2> QED
    BY <1>1, <2>1, <2>2
<1> QED
  BY <1>1, <1>3 DEF AreRows

\* Behind a call: the main controller and the upsampler are at the same row
\* group, as long as there are rows to come.
ContextReady(s, m, u) ==
    u.rows_to_go > 0 => ContextOK(s, m) /\ UpOK(s, u, ContextGroup(s, m))

\* The state of the main controller in the middle of a row of blocks does not
\* depend on how much of it has been read.
LEMMA StaysLoaded ==
    ASSUME NEW s, NEW m, ContextOK(s, m), m.full, m.seen >= 1,
           m.state # "process" \/ m.seen # TotalRows(s),
           NEW n, n.full, n.seen = m.seen, n.imcu = m.imcu,
           n.whichptr = m.whichptr, n.xbuffer = m.xbuffer,
           n.buffer = m.buffer
    PROVE  Loaded(s, n)
<1>1. Before(n) = Before(m) /\ Wrapped(n) = Wrapped(m)
  BY DEF Before, Wrapped
<1>2. Lists(s, n.xbuffer, Wrapped(n))
  BY <1>1 DEF ContextOK, ListsOK
<1>3. Current(s, n) /\ (Wrapped(n) => Previous(s, n))
  BY <1>1 DEF ContextOK, Current, Previous
<1> QED
  BY <1>1, <1>2, <1>3 DEF Loaded, ContextOK

\* The row groups of a row of blocks are read one after another, and when the
\* last of those at hand is, the next one is postponed.
LEMMA ProcessStep ==
    ASSUME Output!ShapeOK(shape), shape.up = "context",
           pass \in {"only", "dummy"}, NEW m, MainType(shape, m),
           ContextOK(shape, m), m.state = "process",
           NEW u, UpOK(shape, u, ContextGroup(shape, m)), u.rows_to_go > 0,
           NEW p, PostOK(shape, pass, p, u),
           NEW room \in Int, pass = "only" => room >= 1
    PROVE  LET r == Output!post_process_data(m, u, p, room)
               n == IF r.m.ctr < r.m.avail THEN r.m
                    ELSE Output!PostponeLast(r.m)
           IN  /\ Yields(shape, pass, r, u, room)
               /\ MainType(shape, n) /\ UpType(shape, r.u)
               /\ ContextReady(shape, n, r.u)
<1> DEFINE r == Output!post_process_data(m, u, p, room)
           G == ContextGroup(shape, m)
           T == TotalRows(shape)
           past == m.seen - 1
<1>1. G \in Nat /\ Reads(m, G)
  BY ProcessReads
<1>2. Yields(shape, pass, r, u, room) /\ GoesOn(shape, r, m, G)
  <2> HIDE DEF G
  <2> QED
    BY <1>1, PostYields DEF G
<1> HIDE DEF r
<1>3. /\ m.full /\ m.seen \in 1..T /\ m.avail = Avail(shape, m)
      /\ m.ctr < m.avail /\ m.ctr \in Nat
      /\ T \in Nat \ {0} /\ shape.M \in 2..16 /\ shape.V \in 1..4
      /\ shape.H \in Nat
      /\ BottomGroups(shape) \in 1..shape.M
      /\ m.avail \in 1..shape.M
  <2>1. 1 \in DOMAIN shape.rg /\ 0 \in Nat
    BY DEF Output!ShapeOK
  <2>2. T \in Nat \ {0} /\ shape.M \in 2..16 /\ shape.V \in 1..4
        /\ BottomGroups(shape) \in 1..shape.M /\ shape.H \in Nat
    BY <2>1, Places, RowsOfBlocks, BottomOutput, Sampling
  <2>3. m.full /\ m.avail = Avail(shape, m) /\ m.ctr < m.avail /\ m.seen >= 1
    BY DEF ContextOK, Stage
  <2>4. m.seen \in 0..T /\ m.ctr \in 0..(shape.M + 2)
    BY DEF MainType
  <2>5. m.avail \in 1..shape.M
    BY <2>2, <2>3 DEF Avail
  <2> HIDE DEF T
  <2> QED
    BY <2>2, <2>3, <2>4, <2>5
<1>4. G = past * shape.M + m.ctr /\ past \in Nat
  BY <1>3 DEF ContextGroup, Before
<1> HIDE DEF T, G
<1>5. CASE r.m = m /\ UpOK(shape, r.u, G)
  BY <1>2, <1>3, <1>5 DEF ContextReady, G, r, UpOK
<1>6. CASE r.m = [m EXCEPT !.ctr = @ + 1] /\ UpOK(shape, r.u, G + 1)
  <2> DEFINE k == r.m
  <2>1. /\ IsMain(k) /\ k.full = m.full /\ k.imcu = m.imcu
        /\ k.buffer = m.buffer /\ k.ctr = m.ctr + 1 /\ k.avail = m.avail
        /\ k.whichptr = m.whichptr /\ k.state = m.state /\ k.seen = m.seen
        /\ k.xbuffer = m.xbuffer
    <3>1. k = [m EXCEPT !.ctr = @ + 1]
      BY <1>6
    <3> HIDE DEF k
    <3> QED
      BY <3>1 DEF MainType, IsMain
  <2> HIDE DEF k
  <2>2. UpType(shape, r.u) /\ r.u.rows_to_go \in 0..shape.H
    BY <1>6 DEF UpOK, UpType
  <2>3. MainType(shape, k)
    <3>1. k.ctr \in 0..(shape.M + 2)
      BY <1>3, <2>1
    <3> QED
      BY <2>1, <3>1 DEF MainType
  <2>4. Before(k) = past /\ Before(m) = past /\ Wrapped(k) = Wrapped(m)
    BY <1>3, <2>1 DEF Before, Wrapped
  <2>5. CASE k.ctr < k.avail
    <3>1. Stage(shape, k)
      BY <1>3, <2>1, <2>5 DEF Stage, Avail
    <3>2. ContextOK(shape, k)
      BY <2>1, <2>4, <3>1
         DEF ContextOK, ListsOK, Current, Previous
    <3>3. ContextGroup(shape, k) = G + 1
      BY <1>3, <1>4, <2>1, <2>4 DEF ContextGroup
    <3> QED
      BY <1>2, <1>6, <2>2, <2>3, <2>5, <3>2, <3>3 DEF ContextReady, k, r
  <2>6. CASE ~(k.ctr < k.avail)
    <3> DEFINE n == Output!PostponeLast(k)
    <3>1. MainType(shape, n)
      BY <2>3, PostponeTypes
    <3>2. m.ctr + 1 = m.avail
      BY <1>3, <2>1, <2>6
    <3>3. CASE m.seen = T
      <4>1. G + 1 = (T - 1) * shape.M + BottomGroups(shape)
        <5>1. past = T - 1 /\ m.avail = BottomGroups(shape)
          BY <1>3, <3>3 DEF Avail, T
        <5>2. G + 1 = past * shape.M + m.avail
          BY <1>3, <1>4, <3>2
        <5> QED
          BY <5>1, <5>2
      <4>2. ~(((T - 1) * shape.M + BottomGroups(shape)) * shape.V < shape.H)
        <5>1. BottomGroups(shape) \in Nat
                /\ ~(BottomGroups(shape) < BottomGroups(shape))
          BY <1>3
        <5> QED
          BY <5>1, BottomOutput DEF T
      <4>3. (G + 1) * shape.V >= shape.H /\ (G + 1) * shape.V \in Int
        BY <1>1, <1>3, <4>1, <4>2 DEF G
      <4>4. shape.H - r.u.rows_to_go >= (G + 1) * shape.V
        <5>1. r.u.next_row_out \in 0..shape.V
          BY <2>2 DEF UpType
        <5>2. shape.up # "merged"
          OBVIOUS
        <5>3. shape.H - r.u.rows_to_go =
                (G + 1) * shape.V + (IF r.u.next_row_out < shape.V
                                       THEN r.u.next_row_out ELSE 0)
          BY <1>6, <5>2 DEF UpOK
        <5> QED
          BY <4>3, <5>1, <5>3
      <4>5. r.u.rows_to_go = 0
        BY <1>3, <2>2, <4>3, <4>4
      <4>6. ContextReady(shape, n, r.u)
        BY <4>5 DEF ContextReady
      <4> QED
        BY <1>2, <2>2, <2>6, <3>1, <4>6 DEF n, k, r
    <3>4. CASE m.seen # T
      <4>1. Loaded(shape, k)
        <5>1. k.full /\ k.seen = m.seen /\ m.full /\ m.seen >= 1
          BY <1>3, <2>1
        <5>2. m.seen # TotalRows(shape)
          BY <3>4 DEF T
        <5> QED
          BY <2>1, <5>1, <5>2, StaysLoaded
      <4>2. k.seen < T
        BY <1>3, <2>1, <3>4
      <4>3. ContextOK(shape, n) /\ ContextGroup(shape, n) = k.seen * shape.M + -1
        BY <2>3, <4>1, <4>2, Postpones DEF T
      <4>4. k.seen * shape.M + -1 = G + 1
        <5>1. m.avail = shape.M - 1
          BY <1>3, <3>4 DEF Avail, T
        <5>2. G + 1 = past * shape.M + (shape.M - 1)
          BY <1>3, <1>4, <3>2, <5>1
        <5>3. past * shape.M + shape.M = (past + 1) * shape.M /\ past + 1 = k.seen
          BY <1>3, <1>4, <2>1
        <5>4. past * shape.M \in Int /\ shape.M \in Int
          BY <1>3, <1>4
        <5> QED
          BY <5>2, <5>3, <5>4
      <4>5. ContextReady(shape, n, r.u)
        BY <1>6, <4>3, <4>4 DEF ContextReady
      <4> QED
        BY <1>2, <2>2, <2>6, <3>1, <4>5 DEF n, k, r
    <3> QED
      BY <3>3, <3>4
  <2> QED
    BY <2>5, <2>6
<1> QED
  BY <1>2, <1>5, <1>6 DEF GoesOn, r

\* What a call delivers, and leaves behind.
ContextDelivers(s, ps, r, u, room) ==
    /\ Yields(s, ps, r, u, room)
    /\ MainType(s, r.m) /\ UpType(s, r.u) /\ ContextReady(s, r.m, r.u)

\* Rows that a call has got so far, from an upsampler that was at u.
Got(s, r, u) ==
    /\ IsResult(r) /\ r.rows \in Seq(RowSet(s))
    /\ AreRows(s, r.rows, Len(r.rows), s.H - u.rows_to_go)
    /\ r.u.rows_to_go = u.rows_to_go - Len(r.rows)

\* A call in the middle of a row of blocks adds to the rows it has got.
LEMMA ProcessDelivers ==
    ASSUME Output!ShapeOK(shape), shape.up = "context",
           pass \in {"only", "dummy"}, NEW r, MainType(shape, r.m),
           ContextOK(shape, r.m), r.m.state = "process",
           UpOK(shape, r.u, ContextGroup(shape, r.m)), r.u.rows_to_go > 0,
           PostOK(shape, pass, r.p, r.u),
           NEW u, UpType(shape, u), Got(shape, r, u),
           NEW room \in Int, pass = "only" => room - Len(r.rows) >= 1
    PROVE  ContextDelivers(shape, pass, Output!ProcessIMCU(r, room), u, room)
<1> DEFINE k == Len(r.rows)
           y == Output!post_process_data(r.m, r.u, r.p, room - k)
           q == Output!ProcessIMCU(r, room)
           n == IF y.m.ctr < y.m.avail THEN y.m ELSE Output!PostponeLast(y.m)
<1>1. k \in Nat /\ room - k \in Int /\ u.rows_to_go \in 0..shape.H
      /\ shape.H \in Nat
  <2>1. k \in Nat
    BY DEF Got
  <2>2. 1 \in DOMAIN shape.rg
    BY DEF Output!ShapeOK
  <2> QED
    BY <2>1, <2>2, Sampling DEF UpType
<1>2. /\ Yields(shape, pass, y, r.u, room - k)
      /\ MainType(shape, n) /\ UpType(shape, y.u)
      /\ ContextReady(shape, n, y.u)
  <2> HIDE DEF k
  <2> QED
    BY <1>1, ProcessStep DEF k
<1> DEFINE a == [y EXCEPT !.rows = r.rows \o @]
<1>3. q = IF a.m.ctr < a.m.avail THEN a
          ELSE [a EXCEPT !.m = Output!PostponeLast(@)]
  BY DEF Output!ProcessIMCU, Output!PostponeWhenRead, Output!After
<1> HIDE DEF y, q
<1>4. /\ IsResult(a) /\ a.m = y.m /\ a.u = y.u /\ a.p = y.p
      /\ a.rows = r.rows \o y.rows
  <2> DEFINE joined == r.rows \o y.rows
  <2>1. IsResult(y)
    BY <1>2 DEF Yields
  <2>2. a = [y EXCEPT !.rows = joined]
    OBVIOUS
  <2> HIDE DEF a, joined
  <2>3. /\ IsResult(a) /\ a.m = y.m /\ a.u = y.u /\ a.p = y.p
        /\ a.rows = joined
    BY <2>1, <2>2 DEF IsResult
  <2> QED
    BY <2>3 DEF joined
<1> HIDE DEF a
<1>5. /\ IsResult(q) /\ q.m = n /\ q.u = y.u /\ q.p = y.p
      /\ q.rows = r.rows \o y.rows
  <2>1. CASE a.m.ctr < a.m.avail
    BY <1>3, <1>4, <2>1
  <2>2. CASE ~(a.m.ctr < a.m.avail)
    <3>1. q = [a EXCEPT !.m = Output!PostponeLast(@)]
      BY <1>3, <2>2
    <3>2. IsResult(q) /\ q.m = Output!PostponeLast(a.m)
          /\ q.u = a.u /\ q.p = a.p /\ q.rows = a.rows
      BY <1>4, <3>1 DEF IsResult
    <3> QED
      BY <1>4, <2>2, <3>2
  <2> QED
    BY <2>1, <2>2
<1>6. /\ y.rows \in Seq(RowSet(shape)) /\ Len(y.rows) \in Nat \ {0}
      /\ pass = "only" => Len(y.rows) <= room - k
      /\ AreRows(shape, y.rows, Len(y.rows), shape.H - r.u.rows_to_go)
      /\ y.u.rows_to_go = r.u.rows_to_go - Len(y.rows)
      /\ PostOK(shape, pass, y.p, y.u)
  BY <1>2 DEF Yields
<1>7. /\ r.rows \in Seq(RowSet(shape))
      /\ AreRows(shape, r.rows, k, shape.H - u.rows_to_go)
      /\ r.u.rows_to_go = u.rows_to_go - k
  BY DEF Got
<1>8. /\ q.rows \in Seq(RowSet(shape)) /\ Len(q.rows) = k + Len(y.rows)
      /\ AreRows(shape, q.rows, Len(q.rows), shape.H - u.rows_to_go)
  <2> DEFINE d == shape.H - u.rows_to_go
  <2>1. d \in Nat /\ shape.H - r.u.rows_to_go = d + k
    BY <1>1, <1>7
  <2> HIDE DEF d
  <2>2. AreRows(shape, y.rows, Len(y.rows), d + Len(r.rows))
    BY <1>6, <2>1
  <2>3. AreRows(shape, r.rows, Len(r.rows), d)
    BY <1>7 DEF d
  <2>4. /\ r.rows \o y.rows \in Seq(RowSet(shape))
        /\ Len(r.rows \o y.rows) = k + Len(y.rows)
        /\ AreRows(shape, r.rows \o y.rows, Len(r.rows \o y.rows), d)
    BY <1>6, <1>7, <2>1, <2>2, <2>3, AppendRows
  <2> QED
    BY <1>5, <2>4 DEF d
<1>9. /\ Len(q.rows) \in Nat \ {0}
      /\ pass = "only" => Len(q.rows) <= room
      /\ q.u.rows_to_go = u.rows_to_go - Len(q.rows)
  <2> HIDE DEF k
  <2> QED
    BY <1>1, <1>5, <1>6, <1>7, <1>8
<1>10. Yields(shape, pass, q, u, room)
  BY <1>5, <1>6, <1>8, <1>9 DEF Yields
<1> QED
  BY <1>2, <1>5, <1>10 DEF ContextDelivers, q

\* The last row group of the row of blocks above, and what follows it.
LEMMA PostponedDelivers ==
    ASSUME Output!ShapeOK(shape), shape.up = "context",
           pass \in {"only", "dummy"}, NEW m, MainType(shape, m),
           ContextOK(shape, m), m.state = "postponed", m.full,
           NEW u, UpOK(shape, u, ContextGroup(shape, m)), u.rows_to_go > 0,
           NEW p, PostOK(shape, pass, p, u),
           NEW room \in Int, pass = "only" => room >= 1
    PROVE  ContextDelivers(shape, pass,
             Output!AfterPostponed(Output!post_process_data(m, u, p, room),
                                   room), u, room)
<1> DEFINE y == Output!post_process_data(m, u, p, room)
           q == Output!AfterPostponed(y, room)
           T == TotalRows(shape)
           n == m.seen - 1
           G == n * shape.M + -1
<1>1. ContextGroup(shape, m) \in Nat /\ Reads(m, ContextGroup(shape, m))
  BY PostponedReads
<1>2. /\ Yields(shape, pass, y, u, room)
      /\ GoesOn(shape, y, m, ContextGroup(shape, m))
  BY <1>1, PostYields
<1>3. /\ n \in Nat /\ n >= 1 /\ n < T /\ m.seen \in 1..T /\ Before(m) = n
      /\ m.ctr = shape.M + 1 /\ m.avail = shape.M + 2 /\ shape.M \in 2..16
      /\ shape.H \in Nat /\ T \in Nat \ {0}
  <2>1. 1 \in DOMAIN shape.rg /\ 0 \in Nat
    BY DEF Output!ShapeOK
  <2>2. T \in Nat \ {0} /\ shape.M \in 2..16 /\ shape.H \in Nat
    BY <2>1, Places, RowsOfBlocks, Sampling
  <2>3. Before(m) >= 1 /\ m.ctr = shape.M + 1 /\ m.avail = shape.M + 2
    BY DEF ContextOK, Stage
  <2>4. m.seen \in 0..T /\ Before(m) = n
    BY DEF MainType, Before
  <2> HIDE DEF T
  <2> QED
    BY <2>2, <2>3, <2>4
<1>4. ContextGroup(shape, m) = G
  BY <1>3 DEF ContextGroup
<1> HIDE DEF y, q, T, G
<1>5. /\ UpType(shape, u) /\ IsResult(y)
  BY <1>2 DEF UpOK, Yields
<1>6. UpType(shape, y.u) /\ y.u.rows_to_go \in 0..shape.H
  <2>1. UpType(shape, y.u)
    BY <1>2 DEF GoesOn, UpOK
  <2> QED
    BY <2>1 DEF UpType
<1>7. CASE y.m = m /\ UpOK(shape, y.u, G)
  <2>1. q = y
    <3>1. y.m.ctr < y.m.avail
      BY <1>3, <1>7
    <3> QED
      BY <3>1 DEF q, Output!AfterPostponed
  <2>2. ContextReady(shape, m, y.u)
    BY <1>4, <1>7 DEF ContextReady
  <2> QED
    BY <1>2, <1>6, <1>7, <2>1, <2>2 DEF ContextDelivers, q, y
<1>8. CASE /\ y.m = [m EXCEPT !.ctr = @ + 1] /\ UpOK(shape, y.u, G + 1)
           /\ shape.H - y.u.rows_to_go = (G + 1) * shape.V
  <2> DEFINE k == y.m
  <2>1. /\ IsMain(k) /\ k.full = m.full /\ k.imcu = m.imcu
        /\ k.buffer = m.buffer /\ k.ctr = shape.M + 2 /\ k.avail = m.avail
        /\ k.whichptr = m.whichptr /\ k.state = m.state /\ k.seen = m.seen
        /\ k.xbuffer = m.xbuffer
    <3>1. k = [m EXCEPT !.ctr = @ + 1]
      BY <1>8
    <3>2. m.ctr + 1 = shape.M + 2
      BY <1>3
    <3> HIDE DEF k
    <3> QED
      BY <3>1, <3>2 DEF MainType, IsMain
  <2> HIDE DEF k
  <2>2. MainType(shape, k)
    <3>1. k.ctr \in 0..(shape.M + 2)
      BY <1>3, <2>1
    <3> QED
      BY <2>1, <3>1 DEF MainType
  <2>3. Loaded(shape, k) /\ Before(k) = n
    <3>1. k.full /\ m.seen >= 1 /\ m.state # "process"
      BY <1>3, <2>1
    <3>2. Before(k) = n
      BY <2>1 DEF Before
    <3> QED
      BY <2>1, <3>1, <3>2, StaysLoaded
  <2>4. ~(k.ctr < k.avail)
    BY <1>3, <2>1
  <2>5. n * shape.M \in Nat /\ G + 1 = n * shape.M
    BY <1>3 DEF G
  <2>6. y.u.rows_to_go > 0
    <3>1. (n * shape.M) * shape.V < shape.H
      BY <1>3, RowsOfBlocks DEF T
    <3>2. shape.H - y.u.rows_to_go < shape.H
      BY <1>8, <2>5, <3>1
    <3> QED
      BY <1>3, <1>6, <3>2
  <2>7. CASE pass = "dummy" \/ Len(y.rows) >= room
    <3> DEFINE j == [k EXCEPT !.state = "prepare"]
    <3>1. q = [y EXCEPT !.m.state = "prepare"]
      BY <2>4, <2>7 DEF q, Output!AfterPostponed, k
    <3>2. /\ IsResult(q) /\ q.m = j /\ q.u = y.u /\ q.p = y.p
          /\ q.rows = y.rows
      BY <1>5, <3>1 DEF IsResult, k
    <3>3. /\ IsMain(j) /\ j.full = k.full /\ j.imcu = k.imcu
          /\ j.buffer = k.buffer /\ j.ctr = k.ctr /\ j.avail = k.avail
          /\ j.whichptr = k.whichptr /\ j.state = "prepare"
          /\ j.seen = k.seen /\ j.xbuffer = k.xbuffer
      <4>1. j = [k EXCEPT !.state = "prepare"]
        OBVIOUS
      <4> HIDE DEF j
      <4> QED
        BY <2>1, <4>1 DEF IsMain
    <3> HIDE DEF j
    <3>4. MainType(shape, j)
      BY <2>2, <3>3 DEF MainType
    <3>5. Before(j) = n /\ Wrapped(j) = Wrapped(k)
      BY <2>3, <3>3 DEF Before, Wrapped
    <3>6. ContextOK(shape, j)
      <4>1. Stage(shape, j)
        BY <1>3, <2>1, <3>3 DEF Stage
      <4>2. ListsOK(shape, j)
        BY <2>3, <3>3, <3>5 DEF ListsOK, Loaded
      <4>3. Current(shape, j) /\ (Wrapped(j) => Previous(shape, j))
        BY <2>3, <3>3, <3>5 DEF Loaded, Current, Previous
      <4> QED
        BY <2>3, <3>3, <3>5, <4>1, <4>2, <4>3 DEF ContextOK, Loaded
    <3>7. ContextGroup(shape, j) = G + 1
      BY <2>5, <3>3, <3>5 DEF ContextGroup
    <3>8. ContextReady(shape, j, q.u)
      BY <1>8, <3>2, <3>6, <3>7 DEF ContextReady
    <3>9. Yields(shape, pass, q, u, room)
      BY <1>2, <3>2 DEF Yields
    <3> QED
      BY <1>6, <3>2, <3>4, <3>8, <3>9 DEF ContextDelivers, q, y
  <2>8. CASE ~(pass = "dummy" \/ Len(y.rows) >= room)
    <3> DEFINE r == [y EXCEPT !.m = Output!PrepareForIMCU(@)]
    <3>1. q = Output!ProcessIMCU(r, room)
      BY <2>4, <2>8 DEF q, Output!AfterPostponed, Output!Prepared, k
    <3>2. /\ IsResult(r) /\ r.m = Output!PrepareForIMCU(k) /\ r.u = y.u
          /\ r.p = y.p /\ r.rows = y.rows
      BY <1>5 DEF IsResult, k
    <3> HIDE DEF r
    <3>3. /\ MainType(shape, r.m) /\ ContextOK(shape, r.m)
          /\ r.m.state = "process"
          /\ ContextGroup(shape, r.m) = Before(k) * shape.M
      BY <2>2, <2>3, <3>2, Prepares
    <3>4. UpOK(shape, r.u, ContextGroup(shape, r.m)) /\ r.u.rows_to_go > 0
      BY <1>8, <2>3, <2>5, <2>6, <3>2, <3>3
    <3>5. PostOK(shape, pass, r.p, r.u) /\ Got(shape, r, u)
      BY <1>2, <3>2 DEF Yields, Got
    <3>6. room - Len(r.rows) >= 1
      <4>1. Len(y.rows) \in Nat
        BY <1>2 DEF Yields
      <4> QED
        BY <2>8, <3>2, <4>1
    <3>7. ContextDelivers(shape, pass, Output!ProcessIMCU(r, room), u, room)
      BY <1>5, <3>3, <3>4, <3>5, <3>6, ProcessDelivers
    <3> QED
      BY <3>1, <3>7 DEF q, y
  <2> QED
    BY <2>7, <2>8
<1> QED
  BY <1>2, <1>4, <1>7, <1>8 DEF GoesOn

\* A call without context: it decodes a row of blocks when the last one has
\* been read, and says so when it has read one.
SimpleReady(s, m, u) ==
    u.rows_to_go > 0 => SimpleOK(s, m) /\ UpOK(s, u, SimpleGroup(s, m))
SimpleDelivered(s, ps, r, u, room) ==
    /\ Yields(s, ps, r, u, room)
    /\ MainType(s, r.m) /\ UpType(s, r.u) /\ SimpleReady(s, r.m, r.u)

\* There is a row of blocks to read as long as there are rows to come.
LEMMA SimpleLoads ==
    ASSUME Output!ShapeOK(shape), shape.up # "context", NEW m,
           MainType(shape, m), SimpleOK(shape, m),
           NEW u, u.rows_to_go > 0, UpOK(shape, u, SimpleGroup(shape, m))
    PROVE  LET n == IF m.full THEN m ELSE Output!decompress_data(m)
           IN  /\ MainType(shape, n) /\ SimpleOK(shape, n) /\ n.full
               /\ SimpleGroup(shape, n) = SimpleGroup(shape, m)
<1>1. CASE ~m.full
  <2> DEFINE x == (m.imcu * shape.M) * shape.V
             T == TotalRows(shape)
  <2>1. 1 \in DOMAIN shape.rg
    BY DEF Output!ShapeOK
  <2>2. /\ shape.M \in 1..16 /\ shape.V \in 1..4 /\ shape.H \in Nat
        /\ T \in Nat \ {0}
    BY <2>1, Sampling, RowsOfBlocks
  <2>3. m.imcu \in Nat /\ u.rows_to_go \in 1..shape.H
        /\ u.next_row_out \in 0..shape.V
    BY <2>2 DEF MainType, UpOK, UpType
  <2>4. x \in Nat
    BY <2>2, <2>3
  <2>5. SimpleGroup(shape, m) = m.imcu * shape.M
    BY <1>1 DEF SimpleGroup
  <2> HIDE DEF x, T
  <2>6. \E k \in Nat : shape.H - u.rows_to_go = x + k
    <3>1. CASE shape.up = "merged"
      BY <2>5, <3>1 DEF UpOK, x
    <3>2. CASE shape.up # "merged"
      BY <2>3, <2>5, <3>2 DEF UpOK, x
    <3> QED
      BY <3>1, <3>2
  <2>7. x < shape.H
    BY <2>2, <2>3, <2>4, <2>6
  <2>8. m.imcu < T
    <3>1. m.imcu \in Int
      BY <2>3
    <3> QED
      BY <2>7, <3>1, RowsOfBlocks DEF x, T
  <2> QED
    BY <1>1, <2>8, SimpleDecodes DEF T
<1>2. CASE m.full
  BY <1>2
<1> QED
  BY <1>1, <1>2

\* One call of process_data_simple_main.
LEMMA SimpleDelivers ==
    ASSUME Output!ShapeOK(shape), shape.up # "context",
           pass \in {"only", "dummy"}, NEW m, MainType(shape, m),
           NEW u, u.rows_to_go > 0, SimpleReady(shape, m, u),
           NEW p, PostOK(shape, pass, p, u),
           NEW room \in Int, pass = "only" => room >= 1
    PROVE  SimpleDelivered(shape, pass,
             Output!EmptyWhenRead(Output!post_process_data(
               IF m.full THEN m ELSE Output!decompress_data(m), u, p, room)),
             u, room)
<1> DEFINE G == SimpleGroup(shape, m)
           n == IF m.full THEN m ELSE Output!decompress_data(m)
           y == Output!post_process_data(n, u, p, room)
           q == Output!EmptyWhenRead(y)
<1>1. SimpleOK(shape, m) /\ UpOK(shape, u, G)
  BY DEF SimpleReady
<1>2. /\ MainType(shape, n) /\ SimpleOK(shape, n) /\ n.full
      /\ SimpleGroup(shape, n) = G
  BY <1>1, SimpleLoads
<1>3. /\ shape.M \in 1..16 /\ shape.V \in 1..4 /\ shape.H \in Nat
      /\ TotalRows(shape) \in Nat \ {0}
  <2>1. 1 \in DOMAIN shape.rg
    BY DEF Output!ShapeOK
  <2> QED
    BY <2>1, Sampling, RowsOfBlocks
<1> HIDE DEF n, G
<1>4. n.imcu \in Nat /\ n.ctr \in 0..(shape.M - 1) /\ n.imcu >= 1
  BY <1>2, <1>3 DEF MainType, SimpleOK
<1>5. Reads(n, G) /\ G \in Nat
  BY <1>2, <1>4, SimpleReads
<1>6. Yields(shape, pass, y, u, room) /\ GoesOn(shape, y, n, G)
  BY <1>1, <1>5, PostYields
<1>7. q = IF y.m.ctr >= shape.M
          THEN [y EXCEPT !.m.full = FALSE, !.m.ctr = 0] ELSE y
  BY DEF Output!EmptyWhenRead, Output!M
<1>8. G = (n.imcu - 1) * shape.M + n.ctr
      /\ (n.imcu - 1) * shape.M \in Nat
      /\ (n.imcu - 1) * shape.M + shape.M = n.imcu * shape.M
  BY <1>2, <1>3, <1>4 DEF SimpleGroup
<1> HIDE DEF y, q
<1>9. IsResult(y)
  BY <1>6 DEF Yields
<1>10. CASE y.m = n /\ UpOK(shape, y.u, G)
  <2>1. q = y
    BY <1>3, <1>4, <1>7, <1>10
  <2>2. SimpleReady(shape, n, y.u) /\ UpType(shape, y.u)
    BY <1>2, <1>10 DEF SimpleReady, UpOK
  <2> QED
    BY <1>2, <1>6, <1>10, <2>1, <2>2 DEF SimpleDelivered, q, y, n
<1>11. CASE y.m = [n EXCEPT !.ctr = @ + 1] /\ UpOK(shape, y.u, G + 1)
  <2> DEFINE k == y.m
             t == n.ctr + 1
  <2>1. t \in 1..shape.M
    BY <1>3, <1>4
  <2>2. /\ IsMain(k) /\ k.full = n.full /\ k.imcu = n.imcu
        /\ k.buffer = n.buffer /\ k.ctr = t /\ k.avail = n.avail
        /\ k.whichptr = n.whichptr /\ k.state = n.state /\ k.seen = n.seen
    <3>1. k = [n EXCEPT !.ctr = t]
      BY <1>11
    <3> HIDE DEF k, t
    <3> QED
      BY <1>2, <3>1 DEF MainType, IsMain
  <2>3. UpType(shape, y.u)
    BY <1>11 DEF UpOK
  <2>4. CASE t < shape.M
    <3>1. q = y
      BY <1>3, <1>4, <1>7, <2>2, <2>4
    <3>2. MainType(shape, k)
      <4>1. k.ctr \in 0..(shape.M + 2)
        BY <1>3, <2>1, <2>2
      <4> HIDE DEF k, t
      <4> QED
        BY <1>2, <2>2, <4>1 DEF MainType
    <3>3. SimpleOK(shape, k)
      <4>1. k.ctr \in 0..(shape.M - 1) /\ k.full
        BY <1>2, <1>3, <2>1, <2>2, <2>4
      <4> HIDE DEF k, t
      <4> QED
        BY <1>2, <2>2, <4>1 DEF SimpleOK
    <3>4. SimpleGroup(shape, k) = G + 1
      <4>1. SimpleGroup(shape, k) = (n.imcu - 1) * shape.M + t
        BY <1>2, <2>2 DEF SimpleGroup
      <4> QED
        BY <1>4, <1>8, <4>1
    <3>5. SimpleReady(shape, k, y.u)
      BY <1>11, <3>3, <3>4 DEF SimpleReady
    <3> QED
      BY <1>6, <2>3, <3>1, <3>2, <3>5 DEF SimpleDelivered, q, y, n
  <2>5. CASE t = shape.M
    <3> DEFINE j == [k EXCEPT !.full = FALSE, !.ctr = 0]
    <3>1. q = [y EXCEPT !.m.full = FALSE, !.m.ctr = 0]
      BY <1>3, <1>4, <1>7, <2>2, <2>5
    <3>2. /\ IsResult(q) /\ q.m = j /\ q.u = y.u /\ q.p = y.p
          /\ q.rows = y.rows
      BY <1>9, <3>1 DEF IsResult
    <3>3. /\ IsMain(j) /\ j.full = FALSE /\ j.imcu = n.imcu
          /\ j.buffer = n.buffer /\ j.ctr = 0 /\ j.avail = n.avail
          /\ j.whichptr = n.whichptr /\ j.state = n.state /\ j.seen = n.seen
      <4>1. j = [k EXCEPT !.full = FALSE, !.ctr = 0]
        OBVIOUS
      <4> HIDE DEF j, k
      <4> QED
        BY <2>2, <4>1 DEF IsMain
    <3> HIDE DEF j, k
    <3>4. MainType(shape, j)
      <4>1. j.full \in BOOLEAN
        BY <3>3
      <4>2. j.ctr \in 0..(shape.M + 2)
        BY <1>3, <3>3
      <4> QED
        BY <1>2, <3>3, <4>1, <4>2 DEF MainType
    <3>5. SimpleOK(shape, j)
      BY <1>3, <3>3 DEF SimpleOK
    <3>6. SimpleGroup(shape, j) = G + 1
      <4>1. SimpleGroup(shape, j) = n.imcu * shape.M
        BY <3>3 DEF SimpleGroup
      <4> QED
        BY <1>3, <1>4, <1>8, <2>5, <4>1
    <3>7. SimpleReady(shape, j, q.u)
      BY <1>11, <3>2, <3>5, <3>6 DEF SimpleReady
    <3>8. Yields(shape, pass, q, u, room)
      BY <1>6, <3>2 DEF Yields
    <3> QED
      BY <2>3, <3>2, <3>4, <3>7, <3>8 DEF SimpleDelivered, q, y, n
  <2>6. t < shape.M \/ t = shape.M
    BY <1>3, <2>1
  <2> QED
    BY <2>4, <2>5, <2>6
<1> QED
  BY <1>6, <1>10, <1>11 DEF GoesOn

\* A call with context, from wherever the one before it has left off.
LEMMA ContextDeliversFrom ==
    ASSUME Output!ShapeOK(shape), shape.up = "context",
           pass \in {"only", "dummy"}, NEW m, MainType(shape, m),
           ContextOK(shape, m), m.full, UpType(shape, up),
           UpOK(shape, up, ContextGroup(shape, m)), up.rows_to_go > 0,
           PostOK(shape, pass, post, up),
           NEW room \in Int, pass = "only" => room >= 1
    PROVE  ContextDelivers(shape, pass, Output!ContextMain(m, room), up, room)
<1> DEFINE r == Output!NoRows(m)
<1>1. /\ r = [m |-> m, u |-> up, p |-> post, rows |-> <<>>]
      /\ IsResult(r) /\ r.m = m /\ r.u = up /\ r.p = post /\ r.rows = <<>>
  BY DEF Output!NoRows, IsResult
<1>2. up.rows_to_go \in Nat
  <2>1. shape.H \in Nat
    <3>1. 1 \in DOMAIN shape.rg
      BY DEF Output!ShapeOK
    <3> QED
      BY <3>1, Sampling
  <2> QED
    BY <2>1 DEF UpType
<1> HIDE DEF r
<1>3. ASSUME NEW z, IsResult(z), z.u = up, z.rows = <<>>
      PROVE  Got(shape, z, up)
  <2>1. z.rows \in Seq(RowSet(shape)) /\ Len(z.rows) = 0
    BY <1>3
  <2>2. AreRows(shape, z.rows, Len(z.rows), shape.H - up.rows_to_go)
    BY <2>1 DEF AreRows
  <2>3. z.u.rows_to_go = up.rows_to_go - Len(z.rows)
    BY <1>2, <1>3, <2>1
  <2> QED
    BY <1>3, <2>1, <2>2, <2>3 DEF Got
<1>4. CASE m.state = "postponed"
  <2>1. Output!ContextMain(m, room) = Output!AfterPostponed(
          Output!post_process_data(m, up, post, room), room)
    BY <1>4 DEF Output!ContextMain
  <2> QED
    BY <1>4, <2>1, PostponedDelivers
<1>5. CASE m.state = "process"
  <2>1. Output!ContextMain(m, room) = Output!ProcessIMCU(r, room)
    BY <1>5 DEF Output!ContextMain, r
  <2>2. Got(shape, r, up)
    BY <1>1, <1>3
  <2>3. pass = "only" => room - Len(r.rows) >= 1
    BY <1>1
  <2>4. ContextDelivers(shape, pass, Output!ProcessIMCU(r, room), up, room)
    BY <1>1, <1>5, <2>2, <2>3, ProcessDelivers
  <2> QED
    BY <2>1, <2>4
<1>6. CASE m.state = "prepare"
  <2> DEFINE z == [r EXCEPT !.m = Output!PrepareForIMCU(@)]
  <2>1. Output!ContextMain(m, room) = Output!ProcessIMCU(z, room)
    BY <1>6 DEF Output!ContextMain, Output!Prepared, r
  <2>2. /\ IsResult(z) /\ z.m = Output!PrepareForIMCU(m) /\ z.u = up
        /\ z.p = post /\ z.rows = <<>>
    BY <1>1 DEF IsResult
  <2> HIDE DEF z
  <2>3. Loaded(shape, m)
    <3>1. m.seen >= 1 /\ m.state # "process"
      BY <1>6 DEF ContextOK, Stage
    <3> QED
      BY <3>1, StaysLoaded
  <2>4. /\ MainType(shape, z.m) /\ ContextOK(shape, z.m)
        /\ z.m.state = "process"
        /\ ContextGroup(shape, z.m) = Before(m) * shape.M
    BY <2>2, <2>3, Prepares
  <2>5. ContextGroup(shape, m) = Before(m) * shape.M
    <3>1. Before(m) * shape.M \in Int
      <4>1. m.seen \in Int /\ shape.M \in Int
        <5>1. 1 \in DOMAIN shape.rg /\ TotalRows(shape) \in Nat
          BY RowsOfBlocks DEF Output!ShapeOK
        <5> QED
          BY <5>1, Sampling DEF MainType
      <4> QED
        BY <4>1 DEF Before
    <3> QED
      BY <1>6, <3>1 DEF ContextGroup
  <2>6. Got(shape, z, up)
    BY <1>3, <2>2
  <2>7. pass = "only" => room - Len(z.rows) >= 1
    BY <2>2
  <2>8. ContextDelivers(shape, pass, Output!ProcessIMCU(z, room), up, room)
    BY <2>2, <2>4, <2>5, <2>6, <2>7, ProcessDelivers
  <2> QED
    BY <2>1, <2>8
<1> QED
  BY <1>4, <1>5, <1>6 DEF MainType

-----------------------------------------------------------------------------
(* What a call of process_data delivers while rows are upsampled.          *)

Ready(s, m, u) == IF s.up = "context" THEN ContextReady(s, m, u)
                                      ELSE SimpleReady(s, m, u)
Delivered(s, ps, r, u, room) ==
    /\ Yields(s, ps, r, u, room)
    /\ MainType(s, r.m) /\ UpType(s, r.u) /\ Ready(s, r.m, r.u)

\* One call, with or without context.
LEMMA ProcessDataDelivers ==
    ASSUME Output!ShapeOK(shape), pass \in {"only", "dummy"},
           MainType(shape, main), UpType(shape, up), up.rows_to_go > 0,
           Ready(shape, main, up), PostOK(shape, pass, post, up),
           NEW room \in Int, pass = "only" => room >= 1
    PROVE  Delivered(shape, pass, Output!process_data(room), up, room)
<1>1. CASE shape.up # "context"
  <2>1. Output!process_data(room) = Output!EmptyWhenRead(
          Output!post_process_data(
            IF main.full THEN main ELSE Output!decompress_data(main),
            up, post, room))
    BY <1>1 DEF Output!process_data, Output!process_data_simple_main
  <2>2. SimpleReady(shape, main, up)
    BY <1>1 DEF Ready
  <2>3. SimpleDelivered(shape, pass, Output!process_data(room), up, room)
    BY <1>1, <2>1, <2>2, SimpleDelivers
  <2> QED
    BY <1>1, <2>3 DEF SimpleDelivered, Delivered, Ready
<1>2. CASE shape.up = "context"
  <2> DEFINE m == IF main.full THEN main
                  ELSE [Output!decompress_data(main) EXCEPT !.seen = @ + 1]
  <2>1. Output!process_data(room) = Output!ContextMain(m, room)
    BY <1>2 DEF Output!process_data, Output!process_data_context_main
  <2>2. ContextOK(shape, main) /\ UpOK(shape, up, ContextGroup(shape, main))
    BY <1>2 DEF Ready, ContextReady
  <2>3. /\ MainType(shape, m) /\ ContextOK(shape, m) /\ m.full
        /\ ContextGroup(shape, m) = ContextGroup(shape, main)
    <3>1. CASE main.full
      BY <2>2, <3>1
    <3>2. CASE ~main.full
      BY <1>2, <2>2, <3>2, ContextDecodes DEF Loaded
    <3> QED
      BY <3>1, <3>2
  <2> HIDE DEF m
  <2>4. UpOK(shape, up, ContextGroup(shape, m))
    BY <2>2, <2>3
  <2>5. ContextDelivers(shape, pass, Output!ContextMain(m, room), up, room)
    BY <1>2, <2>3, <2>4, ContextDeliversFrom
  <2> QED
    BY <1>2, <2>1, <2>5 DEF ContextDelivers, Delivered, Ready
<1> QED
  BY <1>1, <1>2

-----------------------------------------------------------------------------
(* The final pass shows what the dummy pass has kept.                      *)

FinalOK(s, p, y) ==
    /\ PostType(s, p) /\ Keeps(s, p, s.H)
    /\ p.starting_row + p.next_row = y

\* Where the strip is never taller than two rows, the second pass stops at
\* the bottom of the image: it looks only at where the strip starts.
LEMMA FinalDelivers ==
    ASSUME Output!ShapeOK(shape), pass = "final", shape.V <= 2,
           NEW y \in Nat, y < shape.H, FinalOK(shape, post, y),
           NEW room \in Int, room >= 1
    PROVE  LET r == Output!process_data(room)
           IN  /\ IsResult(r) /\ r.m = main /\ r.u = up
               /\ r.rows \in Seq(RowSet(shape)) /\ Len(r.rows) \in Nat \ {0}
               /\ AreRows(shape, r.rows, Len(r.rows), y)
               /\ y + Len(r.rows) <= shape.H
               /\ FinalOK(shape, r.p, y + Len(r.rows))
<1> DEFINE a == post.starting_row
           b == post.next_row
           v == shape.V
           n == Output!Least({v - b, room, shape.H - a})
           f == post.whole_image
           q == Output!Advance(post, n)
           r == Output!process_data(room)
<1>1. /\ v \in 1..2 /\ shape.H \in Nat /\ a \in Nat /\ b \in 0..(v - 1)
      /\ a + b = y /\ IsPost(post) /\ 1..shape.H \subseteq DOMAIN f
      /\ Keeps(shape, post, shape.H)
  <2>1. 1 \in DOMAIN shape.rg
    BY DEF Output!ShapeOK
  <2>2. v \in 1..2 /\ shape.H \in Nat
    BY <2>1, Sampling
  <2> QED
    BY <2>2 DEF FinalOK, PostType
<1>2. n \in 1..(v - b) /\ y + n <= shape.H
  <2>1. v - b \in Int /\ room \in Int /\ shape.H - a \in Int
    BY <1>1
  <2>2. /\ n \in {v - b, room, shape.H - a}
        /\ n <= v - b /\ n <= room /\ n <= shape.H - a
    BY <2>1, LeastFacts
  <2> HIDE DEF n, a, b, v
  <2> QED
    BY <1>1, <2>1, <2>2
<1>3. r = [m |-> main, u |-> up, p |-> q, rows |-> SubSeq(f, y + 1, y + n)]
  <2>1. r = Output!post_process_2pass(main, up, post, room)
    BY DEF Output!process_data, Output!post_process_data
  <2>2. post.starting_row + post.next_row = y
    BY <1>1
  <2> QED
    BY <2>1, <2>2 DEF Output!post_process_2pass, Output!strip_height,
                      Output!V
<1> HIDE DEF n, r, a, b, v, f, q
<1>4. n \in Nat \ {0}
  BY <1>1, <1>2
<1>5. /\ IsPost(q) /\ q.whole_image = f
      /\ q.starting_row \in Nat /\ q.next_row \in 0..(v - 1)
      /\ q.starting_row + q.next_row = y + n
  <2>1. /\ shape.V \in 1..4 /\ post.starting_row \in Nat
        /\ post.next_row \in 0..(shape.V - 1) /\ n <= shape.V - post.next_row
        /\ n \in Nat /\ post.starting_row + post.next_row = y
    BY <1>1, <1>2, <1>4 DEF a, b, v
  <2>2. /\ IsPost(q) /\ q.whole_image = post.whole_image
        /\ q.starting_row \in Nat /\ q.next_row \in 0..(shape.V - 1)
        /\ q.starting_row + q.next_row
             = post.starting_row + post.next_row + n
    BY <1>1, <2>1, AdvanceFacts DEF q
  <2> QED
    BY <2>1, <2>2 DEF f, v
<1>6. /\ SubSeq(f, y + 1, y + n) \in Seq(RowSet(shape))
      /\ Len(SubSeq(f, y + 1, y + n)) = n
      /\ AreRows(shape, SubSeq(f, y + 1, y + n), n, y)
  <2>1. \A i \in 1..n : f[y + i] = RightRow(shape, y + i - 1)
    <3> SUFFICES ASSUME NEW i \in 1..n
                 PROVE  f[y + i] = RightRow(shape, y + i - 1)
      OBVIOUS
    <3>1. y + i \in 1..shape.H /\ (y + i) - 1 = y + i - 1
      BY <1>1, <1>2, <1>4
    <3> QED
      BY <1>1, <3>1 DEF Keeps, f
  <2>2. n \in Nat /\ y + n <= shape.H /\ shape.H \in Nat /\ y \in Nat
    BY <1>1, <1>2, <1>4
  <2> QED
    BY <2>1, <2>2, SliceOfRows
<1>7. /\ IsResult(r) /\ r.m = main /\ r.u = up /\ r.p = q
      /\ r.rows = SubSeq(f, y + 1, y + n)
  BY <1>3 DEF IsResult
<1>8. FinalOK(shape, q, y + n)
  BY <1>1, <1>5 DEF FinalOK, PostType, Keeps, v, f
<1> QED
  BY <1>2, <1>4, <1>6, <1>7, <1>8 DEF r

\* A pass starts at the top, with everything empty.
LEMMA StartsReady ==
    ASSUME Output!ShapeOK(shape), NEW m, IsMain(m),
           BufferType(shape, m.buffer), m.full = FALSE, m.ctr = 0,
           m.avail \in 0..(shape.M + 2), m.whichptr = 0, m.state = "prepare",
           m.seen = 0, m.imcu = 0, m.xbuffer = Output!make_funny_pointers,
           NEW u, IsUp(u), u.next_row_out = shape.V,
           u.rows_to_go = shape.H, u.spare_full = FALSE
    PROVE  MainType(shape, m) /\ UpType(shape, u) /\ Ready(shape, m, u)
<1>1. /\ shape.M \in 1..16 /\ shape.V \in 1..4 /\ shape.H \in Nat
      /\ TotalRows(shape) \in Nat \ {0}
  <2>1. 1 \in DOMAIN shape.rg
    BY DEF Output!ShapeOK
  <2> QED
    BY <2>1, Sampling, RowsOfBlocks
<1>2. m.full \in BOOLEAN /\ u.spare_full \in BOOLEAN
  <2>1. m.full \in BOOLEAN
    OBVIOUS
  <2>2. u.spare_full \in BOOLEAN
    OBVIOUS
  <2> QED
    BY <2>1, <2>2
<1>3. MainType(shape, m)
  BY <1>1, <1>2 DEF MainType
<1>4. UpType(shape, u)
  BY <1>1, <1>2 DEF UpType
<1>5. UpOK(shape, u, 0)
  <2>1. /\ shape.H - u.rows_to_go = 0 /\ 0 * shape.V + 0 = 0
        /\ ~(u.next_row_out < shape.V)
    BY <1>1
  <2> QED
    BY <1>4, <2>1 DEF UpOK
<1>6. 0 * shape.M = 0 /\ 0 * shape.M + 0 = 0
  BY <1>1
<1>7. CASE shape.up = "context"
  <2>1. Before(m) = 0 /\ ~Wrapped(m)
    BY DEF Before, Wrapped
  <2>2. Lists(shape, m.xbuffer, FALSE)
    BY <1>7, FunnyPointers
  <2>3. Wrapped(m) = FALSE
    BY <2>1 DEF Wrapped
  <2>4. ListsOK(shape, m)
    BY <2>2, <2>3 DEF ListsOK
  <2>5. ContextOK(shape, m)
    BY <2>1, <2>4 DEF ContextOK, Stage
  <2>6. ContextGroup(shape, m) = 0
    BY <1>6, <2>1 DEF ContextGroup
  <2> QED
    BY <1>3, <1>4, <1>5, <1>7, <2>5, <2>6 DEF Ready, ContextReady
<1>8. CASE shape.up # "context"
  <2>1. SimpleOK(shape, m)
    BY <1>1 DEF SimpleOK
  <2>2. SimpleGroup(shape, m) = 0
    BY <1>6 DEF SimpleGroup
  <2> QED
    BY <1>3, <1>4, <1>5, <1>8, <2>1, <2>2 DEF Ready, SimpleReady
<1> QED
  BY <1>7, <1>8

-----------------------------------------------------------------------------
(* The rows' invariant.                                                    *)

ShownOK ==
    /\ rows \in Seq(RowSet(shape))
    /\ Len(rows) = IF pass = "dummy" THEN 0 ELSE output_scanline
    /\ AreRows(shape, rows, Len(rows), 0)
RowsInv ==
    /\ shape \in Shapes /\ pass \in {"only", "dummy", "final"}
    /\ pass # "only" => shape.quant = "two"
    /\ output_scanline \in 0..shape.H
    /\ MainType(shape, main) /\ UpType(shape, up) /\ PostType(shape, post)
    /\ pass # "final" =>
         /\ Ready(shape, main, up) /\ PostOK(shape, pass, post, up)
         /\ output_scanline + up.rows_to_go = shape.H
    /\ pass = "final" => FinalOK(shape, post, output_scanline)
    /\ ShownOK

\* It holds when decompression starts.
LEMMA RowsInvStarts == Output!Init => RowsInv
<1> SUFFICES ASSUME Output!Init PROVE RowsInv
  OBVIOUS
<1>1. shape \in Shapes /\ Output!ShapeOK(shape)
  BY DecompressAssumptions DEF Output!Init, Output!ShapesOK
<1>2. /\ shape.M \in 1..16 /\ shape.V \in 1..4 /\ shape.H \in Nat \ {0}
      /\ shape.quant \in {"none", "one", "two"}
  <2>1. 1 \in DOMAIN shape.rg
    BY <1>1 DEF Output!ShapeOK
  <2> QED
    BY <1>1, <2>1, Sampling
<1>3. MainType(shape, main) /\ UpType(shape, up) /\ Ready(shape, main, up)
  <2>1. /\ IsMain(main) /\ main.buffer = Output!EmptyBuffer
        /\ main.full = FALSE /\ main.ctr = 0 /\ main.avail = 0
        /\ main.whichptr = 0 /\ main.state = "prepare" /\ main.seen = 0
        /\ main.imcu = 0 /\ main.xbuffer = Output!make_funny_pointers
    BY DEF Output!Init, IsMain
  <2>2. BufferType(shape, main.buffer)
    <3>1. \A c \in DOMAIN shape.rg : DOMAIN Output!EmptyBuffer[c]
            = 0..(shape.rg[c] * Groups(shape) - 1)
      BY DEF Output!EmptyBuffer, Output!Comps, Output!NGroups, Output!M,
             Groups
    <3> QED
      BY <2>1, <3>1 DEF BufferType
  <2>3. /\ IsUp(up) /\ up.next_row_out = shape.V /\ up.rows_to_go = shape.H
        /\ up.spare_full = FALSE
    BY DEF Output!Init, Output!V, IsUp
  <2>4. main.avail \in 0..(shape.M + 2)
    BY <1>2, <2>1
  <2> QED
    BY <1>1, <2>1, <2>2, <2>3, <2>4, StartsReady
<1>4. /\ IsPost(post) /\ post.starting_row = 0 /\ post.next_row = 0
      /\ DOMAIN post.whole_image
           = 1..(Output!CeilDiv(shape.H, shape.V) * shape.V)
  BY DEF Output!Init, Output!V, IsPost
<1>5. PostType(shape, post)
  <2> DEFINE t == (shape.H + shape.V - 1) \div shape.V
  <2>1. t * shape.V >= shape.H /\ t \in Nat
    <3>1. t \in Nat \ {0} /\ ~(t < t)
      BY <1>2, RoundedUp
    <3>2. t < t <=> t * shape.V < shape.H
      <4>1. t \in Int
        BY <3>1
      <4> QED
        BY <1>2, <4>1, RoundedUp
    <3>3. t * shape.V \in Int
      BY <1>2, <3>1
    <3> HIDE DEF t
    <3> QED
      BY <1>2, <3>1, <3>2, <3>3
  <2>2. Output!CeilDiv(shape.H, shape.V) = t
    BY DEF Output!CeilDiv
  <2> HIDE DEF t
  <2>3. 1..shape.H \subseteq DOMAIN post.whole_image
    <3>1. t * shape.V \in Int
      BY <1>2, <2>1
    <3> QED
      BY <1>2, <1>4, <2>1, <2>2, <3>1
  <2> QED
    BY <1>2, <1>4, <2>3 DEF PostType
<1>6. up.rows_to_go = shape.H /\ output_scanline = 0 /\ rows = <<>>
      /\ pass = IF shape.quant = "two" THEN "dummy" ELSE "only"
  BY DEF Output!Init
<1>7. PostOK(shape, pass, post, up)
  <2>1. shape.H - up.rows_to_go = 0
    BY <1>2, <1>6
  <2>2. Keeps(shape, post, 0)
    BY DEF Keeps
  <2> QED
    BY <1>4, <1>5, <2>1, <2>2 DEF PostOK
<1>8. ShownOK
  <2>1. rows \in Seq(RowSet(shape)) /\ Len(rows) = 0
    BY <1>6
  <2> QED
    BY <1>6, <2>1 DEF ShownOK, AreRows
<1> QED
  BY <1>1, <1>2, <1>3, <1>5, <1>6, <1>7, <1>8 DEF RowsInv

\* A call that upsamples keeps it and gets on.
LEMMA RowsInvDelivers ==
    ASSUME RowsInv, Output!ShapeOK(shape), pass \in {"only", "dummy"},
           output_scanline < shape.H,
           NEW room \in Int, pass = "only" => room >= 1,
           Output!Deliver(Output!process_data(room), pass = "only")
    PROVE  RowsInv' /\ output_scanline' > output_scanline
<1> DEFINE r == Output!process_data(room)
           n == Len(r.rows)
<1>1. /\ shape.H \in Nat /\ output_scanline \in 0..shape.H
      /\ up.rows_to_go \in 0..shape.H
      /\ output_scanline + up.rows_to_go = shape.H
      /\ MainType(shape, main) /\ UpType(shape, up)
      /\ Ready(shape, main, up) /\ PostOK(shape, pass, post, up)
  <2>1. shape.H \in Nat
    <3>1. 1 \in DOMAIN shape.rg
      BY DEF Output!ShapeOK
    <3> QED
      BY <3>1, Sampling
  <2> QED
    BY <2>1 DEF RowsInv, UpType
<1>2. up.rows_to_go > 0
  BY <1>1
<1>3. Delivered(shape, pass, r, up, room)
  BY <1>1, <1>2, ProcessDataDelivers
<1>4. /\ main' = r.m /\ up' = r.u /\ post' = r.p
      /\ output_scanline' = output_scanline + n
      /\ rows' = IF pass = "only" THEN rows \o r.rows ELSE rows
      /\ shape' = shape /\ pass' = pass
  BY DEF Output!Deliver
<1> HIDE DEF r
<1>5. /\ r.rows \in Seq(RowSet(shape)) /\ n \in Nat \ {0}
      /\ AreRows(shape, r.rows, n, shape.H - up.rows_to_go)
      /\ r.u.rows_to_go = up.rows_to_go - n
      /\ PostOK(shape, pass, r.p, r.u)
      /\ MainType(shape, r.m) /\ UpType(shape, r.u) /\ Ready(shape, r.m, r.u)
  BY <1>3 DEF Delivered, Yields
<1>6. r.u.rows_to_go \in 0..shape.H
  BY <1>5 DEF UpType
<1> HIDE DEF n
<1>7. /\ output_scanline + n \in 0..shape.H
      /\ (output_scanline + n) + r.u.rows_to_go = shape.H
      /\ shape.H - up.rows_to_go = output_scanline
  BY <1>1, <1>5, <1>6
<1>8. ShownOK'
  <2>1. /\ rows \in Seq(RowSet(shape)) /\ AreRows(shape, rows, Len(rows), 0)
        /\ Len(rows) = IF pass = "dummy" THEN 0 ELSE output_scanline
    BY DEF RowsInv, ShownOK
  <2>2. CASE pass = "dummy"
    <3>1. rows' = rows
      BY <1>4, <2>2
    <3> QED
      BY <1>4, <2>1, <2>2, <3>1 DEF ShownOK
  <2>3. CASE pass = "only"
    <3>1. rows' = rows \o r.rows /\ Len(rows) = output_scanline
      BY <1>4, <2>1, <2>3
    <3>2. AreRows(shape, r.rows, Len(r.rows), 0 + Len(rows))
      <4>1. 0 + Len(rows) = output_scanline
        BY <1>1, <3>1
      <4> QED
        BY <1>5, <1>7, <4>1 DEF n
    <3>3. /\ rows \o r.rows \in Seq(RowSet(shape))
          /\ Len(rows \o r.rows) = Len(rows) + Len(r.rows)
          /\ AreRows(shape, rows \o r.rows, Len(rows \o r.rows), 0)
      BY <1>5, <2>1, <3>2, AppendRows
    <3>4. Len(rows \o r.rows) = output_scanline + n
      BY <3>1, <3>3 DEF n
    <3> HIDE DEF r
    <3> QED
      BY <1>4, <2>3, <3>1, <3>3, <3>4 DEF ShownOK
  <2> QED
    BY <2>2, <2>3
<1>9. /\ shape \in Shapes /\ (pass # "only" => shape.quant = "two")
      /\ pass \in {"only", "dummy", "final"}
  BY DEF RowsInv
<1>10. PostType(shape, r.p)
  BY <1>5 DEF PostOK
<1>11. output_scanline + n > output_scanline
  BY <1>1, <1>5
<1>12. output_scanline' > output_scanline
  BY <1>4, <1>11
<1>13. pass # "final"
  OBVIOUS
<1> QED
  BY <1>4, <1>5, <1>7, <1>8, <1>9, <1>10, <1>12, <1>13 DEF RowsInv

\* So does a call of the final pass.
LEMMA RowsInvShows ==
    ASSUME RowsInv, Output!ShapeOK(shape), pass = "final", shape.V <= 2,
           output_scanline < shape.H, NEW room \in Int, room >= 1,
           Output!Deliver(Output!process_data(room), TRUE)
    PROVE  RowsInv' /\ output_scanline' > output_scanline
<1> DEFINE r == Output!process_data(room)
           n == Len(r.rows)
<1>1. /\ shape.H \in Nat /\ output_scanline \in Nat
      /\ FinalOK(shape, post, output_scanline)
      /\ MainType(shape, main) /\ UpType(shape, up)
      /\ shape \in Shapes /\ shape.quant = "two"
  <2>1. shape.H \in Nat
    <3>1. 1 \in DOMAIN shape.rg
      BY DEF Output!ShapeOK
    <3> QED
      BY <3>1, Sampling
  <2> QED
    BY <2>1 DEF RowsInv
<1>2. /\ r.m = main /\ r.u = up
      /\ r.rows \in Seq(RowSet(shape)) /\ n \in Nat \ {0}
      /\ AreRows(shape, r.rows, n, output_scanline)
      /\ output_scanline + n <= shape.H
      /\ FinalOK(shape, r.p, output_scanline + n)
  BY <1>1, FinalDelivers
<1>3. /\ main' = r.m /\ up' = r.u /\ post' = r.p
      /\ output_scanline' = output_scanline + n
      /\ rows' = rows \o r.rows /\ shape' = shape /\ pass' = pass
  BY DEF Output!Deliver
<1> HIDE DEF r
<1>4. ShownOK'
  <2>1. /\ rows \in Seq(RowSet(shape)) /\ AreRows(shape, rows, Len(rows), 0)
        /\ Len(rows) = output_scanline
    BY DEF RowsInv, ShownOK
  <2>2. AreRows(shape, r.rows, Len(r.rows), 0 + Len(rows))
    <3>1. 0 + Len(rows) = output_scanline
      BY <1>1, <2>1
    <3> QED
      BY <1>2, <3>1
  <2>3. /\ rows \o r.rows \in Seq(RowSet(shape))
        /\ Len(rows \o r.rows) = Len(rows) + Len(r.rows)
        /\ AreRows(shape, rows \o r.rows, Len(rows \o r.rows), 0)
    BY <1>2, <2>1, <2>2, AppendRows
  <2>4. Len(rows \o r.rows) = output_scanline + n
    BY <2>1, <2>3
  <2> QED
    BY <1>3, <2>3, <2>4 DEF ShownOK
<1> HIDE DEF n
<1>5. output_scanline + n \in 0..shape.H
      /\ output_scanline + n > output_scanline
  BY <1>1, <1>2
<1>6. PostType(shape, r.p)
  BY <1>2 DEF FinalOK
<1> QED
  BY <1>1, <1>2, <1>3, <1>4, <1>5, <1>6 DEF RowsInv

\* Another pass keeps it.
LEMMA RowsInvPasses ==
    ASSUME RowsInv, Output!ShapeOK(shape),
           Output!StartFinalPass \/ Output!NextPass
    PROVE  RowsInv'
<1>1. shape.H \in Nat \ {0} /\ shape.M \in 1..16 /\ shape.V \in 1..4
  <2>1. 1 \in DOMAIN shape.rg
    BY DEF Output!ShapeOK
  <2> QED
    BY <2>1, Sampling
<1> DEFINE p == Output!start_pass_dpost(post)
<1>2. /\ IsPost(p) /\ p.starting_row = 0 /\ p.next_row = 0
      /\ p.whole_image = post.whole_image /\ PostType(shape, p)
  <2>1. PostType(shape, post)
    BY DEF RowsInv
  <2>2. p = [post EXCEPT !.starting_row = 0, !.next_row = 0]
    BY DEF Output!start_pass_dpost
  <2> HIDE DEF p
  <2>3. /\ IsPost(p) /\ p.starting_row = 0 /\ p.next_row = 0
        /\ p.whole_image = post.whole_image
    BY <2>1, <2>2 DEF PostType, IsPost
  <2> QED
    BY <1>1, <2>1, <2>3 DEF PostType
<1> HIDE DEF p
<1>3. CASE Output!StartFinalPass
  <2>1. /\ pass = "dummy" /\ output_scanline >= shape.H
        /\ pass' = "final" /\ output_scanline' = 0 /\ post' = p
        /\ shape' = shape /\ main' = main /\ up' = up /\ rows' = rows
    BY <1>3 DEF Output!StartFinalPass, p
  <2>2. /\ output_scanline \in 0..shape.H
        /\ output_scanline + up.rows_to_go = shape.H
        /\ MainType(shape, main) /\ UpType(shape, up)
        /\ PostOK(shape, "dummy", post, up)
        /\ shape \in Shapes /\ shape.quant = "two" /\ ShownOK
    BY <2>1 DEF RowsInv
  <2>3. up.rows_to_go \in 0..shape.H
    BY <2>2 DEF UpType
  <2>4. shape.H - up.rows_to_go = shape.H
    BY <1>1, <2>1, <2>2, <2>3
  <2>5. FinalOK(shape, p, 0)
    BY <1>2, <2>2, <2>4 DEF FinalOK, PostOK, Keeps
  <2>6. ShownOK'
    BY <2>1, <2>2 DEF ShownOK
  <2>7. 0 \in 0..shape.H
    BY <1>1
  <2> QED
    BY <1>2, <2>1, <2>2, <2>5, <2>6, <2>7 DEF RowsInv
<1>4. CASE Output!NextPass
  <2> DEFINE m == Output!start_pass_main(main)
             u == Output!start_pass_upsample(up)
  <2>1. /\ main' = m /\ up' = u /\ post' = p /\ output_scanline' = 0
        /\ rows' = <<>> /\ pass' = "only" /\ shape' = shape
    BY <1>4 DEF Output!NextPass, Output!StartPass, p
  <2>2. MainType(shape, main) /\ UpType(shape, up) /\ shape \in Shapes
    BY DEF RowsInv
  <2>3. /\ IsMain(m) /\ m.full = FALSE /\ m.ctr = 0 /\ m.avail = main.avail
        /\ m.whichptr = 0 /\ m.state = "prepare" /\ m.seen = 0 /\ m.imcu = 0
        /\ m.buffer = main.buffer
        /\ m.xbuffer = Output!make_funny_pointers
    <3>1. m = [main EXCEPT !.full = FALSE, !.ctr = 0, !.whichptr = 0,
                           !.state = "prepare", !.seen = 0, !.imcu = 0,
                           !.xbuffer = Output!make_funny_pointers]
      BY DEF Output!start_pass_main
    <3> HIDE DEF m
    <3> QED
      BY <2>2, <3>1 DEF MainType, IsMain
  <2>4. /\ IsUp(u) /\ u.next_row_out = shape.V /\ u.rows_to_go = shape.H
        /\ u.spare_full = FALSE
    <3>1. u = [up EXCEPT !.next_row_out = shape.V, !.rows_to_go = shape.H,
                         !.spare_full = FALSE]
      BY DEF Output!start_pass_upsample, Output!V
    <3> HIDE DEF u
    <3> QED
      BY <2>2, <3>1 DEF UpType, IsUp
  <2> HIDE DEF m, u
  <2>5. BufferType(shape, m.buffer) /\ m.avail \in 0..(shape.M + 2)
    BY <2>2, <2>3 DEF MainType
  <2>6. MainType(shape, m) /\ UpType(shape, u) /\ Ready(shape, m, u)
    BY <2>3, <2>4, <2>5, StartsReady
  <2>7. PostOK(shape, "only", p, u)
    BY <1>2 DEF PostOK
  <2>8. ShownOK'
    <3>1. <<>> \in Seq(RowSet(shape)) /\ Len(<<>>) = 0
      OBVIOUS
    <3> QED
      BY <2>1, <3>1 DEF ShownOK, AreRows
  <2>9. 0 \in 0..shape.H /\ 0 + u.rows_to_go = shape.H
    BY <1>1, <2>4
  <2> QED
    BY <1>2, <2>1, <2>2, <2>6, <2>7, <2>8, <2>9 DEF RowsInv
<1> QED
  BY <1>3, <1>4

\* What a step of the rows does: the invariant stays, and the application
\* gets on, goes to another pass or starts one again.
Progresses ==
    \/ output_scanline' > output_scanline
    \/ pass' # pass
    \/ output_scanline' = 0 /\ rows' = <<>> /\ ~main'.full
    \/ UNCHANGED rowVars

\* Every step of the rows keeps the invariant and progresses.
LEMMA RowsInvStep ==
    ASSUME \A s \in Shapes : s.quant = "two" => s.V <= 2,
           RowsInv, [Output!Next]_rowVars
    PROVE  RowsInv' /\ Progresses
<1>1. Output!ShapeOK(shape) /\ shape \in Shapes
  BY DecompressAssumptions DEF RowsInv, Output!ShapesOK
<1>2. ASSUME NEW n \in 1..MaxLines, Output!ReadScanlines(n)
      PROVE  RowsInv' /\ output_scanline' > output_scanline
  <2>1. /\ n \in Int /\ n >= 1
    OBVIOUS
  <2>2. /\ pass \in {"only", "final"} /\ output_scanline < shape.H
        /\ Output!Deliver(Output!process_data(n), TRUE)
    BY <1>2 DEF Output!ReadScanlines
  <2>3. CASE pass = "only"
    <3>1. Output!Deliver(Output!process_data(n), pass = "only")
      BY <2>2, <2>3 DEF Output!Deliver
    <3> QED
      BY <1>1, <2>1, <2>2, <2>3, <3>1, RowsInvDelivers
  <2>4. CASE pass = "final"
    <3>1. shape.V <= 2
      BY <1>1, <2>4 DEF RowsInv
    <3> QED
      BY <1>1, <2>1, <2>2, <2>4, <3>1, RowsInvShows
  <2> QED
    BY <2>2, <2>3, <2>4
<1>3. CASE Output!DummyPass
  <2>1. /\ pass = "dummy" /\ output_scanline < shape.H /\ 0 \in Int
        /\ Output!Deliver(Output!process_data(0), pass = "only")
    BY <1>3 DEF Output!DummyPass, Output!Deliver
  <2>2. RowsInv' /\ output_scanline' > output_scanline
    BY <1>1, <2>1, RowsInvDelivers
  <2> QED
    BY <2>2 DEF Progresses
<1>4. CASE Output!StartFinalPass
  <2>1. pass' # pass
    BY <1>4 DEF Output!StartFinalPass
  <2> QED
    BY <1>1, <1>4, <2>1, RowsInvPasses DEF Progresses
<1>5. CASE Output!NextPass
  <2>1. output_scanline' = 0 /\ rows' = <<>>
    BY <1>5 DEF Output!NextPass, Output!StartPass
  <2>2. ~main'.full
    <3>1. main' = [main EXCEPT !.full = FALSE, !.ctr = 0, !.whichptr = 0,
                               !.state = "prepare", !.seen = 0, !.imcu = 0,
                               !.xbuffer = Output!make_funny_pointers]
      BY <1>5 DEF Output!NextPass, Output!StartPass, Output!start_pass_main
    <3>2. IsMain(main)
      BY DEF RowsInv, MainType
    <3>3. main'.full = FALSE
      BY <3>1, <3>2 DEF IsMain
    <3> QED
      BY <3>3
  <2> QED
    BY <1>1, <1>5, <2>1, <2>2, RowsInvPasses DEF Progresses
<1>6. CASE UNCHANGED rowVars
  <2>1. RowsInv'
    BY <1>6 DEF rowVars, RowsInv, ShownOK
  <2> QED
    BY <1>6, <2>1 DEF Progresses
<1>7. CASE Output!Done
  <2>1. UNCHANGED rowVars
    BY <1>7 DEF Output!Done, Output!vars, rowVars
  <2> QED
    BY <1>6, <2>1
<1> QED
  BY <1>2, <1>3, <1>4, <1>5, <1>6, <1>7 DEF Output!Next, Progresses

\* The invariant is what the property says.
LEMMA RowsInvSays ==
    ASSUME RowsInv
    PROVE  /\ Output!TypeOK /\ Output!RowsAreRight /\ Output!StopsAtBottom
           /\ Output!CountsAgree
<1>1. Output!ShapeOK(shape)
  BY DecompressAssumptions DEF RowsInv, Output!ShapesOK
<1>2. shape.H \in Nat \ {0}
  <2>1. 1 \in DOMAIN shape.rg
    BY <1>1 DEF Output!ShapeOK
  <2> QED
    BY <1>1, <2>1, Sampling
<1>3. Output!TypeOK
  BY SameRows DEF RowsInv, MainType, UpType, PostType, Output!TypeOK,
                  Output!M, Output!V, Output!strip_height
<1>4. Output!RowsAreRight
  <2> SUFFICES ASSUME NEW y \in DOMAIN rows, y <= shape.H
               PROVE  rows[y] = Output!Expected(y - 1)
    BY DEF Output!RowsAreRight
  <2>1. rows \in Seq(RowSet(shape)) /\ AreRows(shape, rows, Len(rows), 0)
    BY DEF RowsInv, ShownOK
  <2>2. y \in 1..Len(rows) /\ 0 + y - 1 = y - 1 /\ y - 1 < shape.H
    BY <1>2, <2>1
  <2>3. rows[y] = RightRow(shape, y - 1)
    BY <2>1, <2>2 DEF AreRows
  <2> QED
    BY <2>3, SameRows
<1>5. Output!StopsAtBottom
  BY <1>2 DEF RowsInv, Output!StopsAtBottom
<1>6. Output!CountsAgree
  <2>1. pass = "only" => output_scanline + up.rows_to_go = shape.H
    BY DEF RowsInv
  <2>2. output_scanline \in Int /\ up.rows_to_go \in Int
    BY <1>2 DEF RowsInv, UpType
  <2> QED
    BY <2>1, <2>2 DEF Output!CountsAgree
<1> QED
  BY <1>3, <1>4, <1>5, <1>6

\* Every row comes right, once and in order, and none beyond the bottom,
\* whatever the application asks for (jpeg_read_scanlines through jdmainct.c,
\* jdsample.c, jdmerge.c and jdpostct.c): for every image, as long as two-pass
\* quantization meets no sampling factor above two.
THEOREM RowsAreComplete ==
    ASSUME \A s \in Shapes : s.quant = "two" => s.V <= 2
    PROVE  PartsSpec => RowsComeRight
<1> DEFINE I == part = "rows" => RowsInv
           P == part = "rows" =>
                  /\ Output!TypeOK /\ Output!RowsAreRight
                  /\ Output!StopsAtBottom /\ Output!CountsAgree
           Q == \/ output_scanline' > output_scanline
                \/ pass' # pass
                \/ output_scanline' = 0 /\ rows' = <<>> /\ ~main'.full
<1>1. PartsInit => I
  BY RowsInvStarts DEF PartsInit
<1>2. I /\ [PartsNext]_allVars => I' /\ [Q]_(Output!vars)
  <2> SUFFICES ASSUME I, [PartsNext]_allVars PROVE I' /\ [Q]_(Output!vars)
    OBVIOUS
  <2>1. CASE part # "rows"
    <3>1. part' = part /\ UNCHANGED rowVars
      BY <2>1 DEF PartsNext, allVars
    <3>2. UNCHANGED Output!vars
      BY <3>1 DEF rowVars, Output!vars
    <3> QED
      BY <2>1, <3>1, <3>2
  <2>2. CASE part = "rows"
    <3>1. [Output!Next]_rowVars /\ part' = part
      BY <2>2 DEF PartsNext, allVars
    <3>2. RowsInv' /\ Progresses
      BY <2>2, <3>1, RowsInvStep
    <3>3. UNCHANGED rowVars => UNCHANGED Output!vars
      BY DEF rowVars, Output!vars
    <3> QED
      BY <3>2, <3>3 DEF Progresses
  <2> QED
    BY <2>1, <2>2
<1>3. I => P
  BY RowsInvSays
<1> HIDE DEF I
<1> QED
  BY <1>1, <1>2, <1>3, PTL DEF PartsSpec, RowsComeRight, Output!CallsProgress
-----------------------------------------------------------------------------
(* The markers.  The inductive invariant has a part for the places in the  *)
(* file, one for the marker that was found, one for the marker that is     *)
(* being saved, and one for the locals that steps count with.              *)

Byte == 0..255
Outcomes == {"SOS", "EOI"}
Statuses == {"idle", "reading", "suspended"} \cup Errors
Savable == Appn \cup {M_COM}

\* A marker as it is kept.
Note == [marker : Nat, original_length : Nat, data : Seq(Byte),
         data_length : Nat]

\* Routines that find a marker, and parts of routines that begin at the
\* restart point.
Finding == {"first_marker", "next_marker", "next_marker_code"}
Restarts == {"read_markers", "save_marker", "save_copy"}

PlacesInv ==
    /\ setup \in DOMAIN Setups /\ file \in Files[setup]
    /\ avail \in 0..Len(file)
    /\ pos \in Nat /\ at \in Nat /\ pos <= at
    /\ Fed => at <= avail \/ at = pos
    /\ proc \in Restarts => at = pos
    /\ discarded \in Nat
    /\ status \in Statuses
    /\ results \in Seq(Outcomes)

\* A marker that was found and is not being saved stands at the restart
\* point, until its routine has done with it.
FoundInv ==
    /\ unread_marker \in 0..254
    /\ proc \in Finding => unread_marker = 0
    /\ unread_marker # 0 /\ cur_marker = NoMarker =>
         FileByte(pos) = unread_marker

\* The marker being saved stands before the restart point, as far as it is
\* saved, and is the one read_markers goes back to.
SavingInv ==
    /\ bytes_read \in Nat
    /\ cur_marker # NoMarker =>
         /\ cur_marker \in Note
         /\ proc \in {"read_markers", "save_copy"}
         /\ unread_marker = cur_marker.marker
         /\ unread_marker \in Savable /\ SaveLimit(unread_marker) > 0
         /\ bytes_read < cur_marker.data_length
         /\ cur_marker.data_length =
              Min({cur_marker.original_length, SaveLimit(unread_marker)})
         /\ FileByte(pos - bytes_read - 2) = unread_marker
         /\ FileWord(pos - bytes_read - 1) = cur_marker.original_length + 2
         /\ cur_marker.data =
              [i \in 1..bytes_read |-> FileByte(pos - bytes_read + i)]
    /\ proc = "save_copy" =>
         cur_marker # NoMarker /\ loc.read = bytes_read
    /\ proc = "save_marker" =>
         /\ cur_marker = NoMarker
         /\ unread_marker \in Savable /\ SaveLimit(unread_marker) > 0

LocalsInv ==
    /\ "marker_list" \in DOMAIN cinfo
    /\ cinfo.marker_list \in Seq(Note)
    /\ proc \in {"get_dht_values", "appn_data"} => loc.count \in Nat
    /\ proc = "appn_data" => loc.length \in Int

MarkersInv == PlacesInv /\ FoundInv /\ SavingInv /\ LocalsInv

-----------------------------------------------------------------------------
(* Facts about the operators of the marker reader.                         *)

\* The least and the greatest of two numbers.
LEMMA PairFacts ==
    ASSUME NEW a \in Int, NEW b \in Int
    PROVE  /\ Min({a, b}) = IF a <= b THEN a ELSE b
           /\ Max({a, b}) = IF a <= b THEN b ELSE a
<1> DEFINE lo == IF a <= b THEN a ELSE b
           hi == IF a <= b THEN b ELSE a
<1>1. /\ lo \in {a, b} /\ \A y \in {a, b} : lo <= y
      /\ \A x \in {a, b} : (\A y \in {a, b} : x <= y) => x = lo
  OBVIOUS
<1>2. /\ hi \in {a, b} /\ \A y \in {a, b} : hi >= y
      /\ \A x \in {a, b} : (\A y \in {a, b} : x >= y) => x = hi
  OBVIOUS
<1> HIDE DEF lo, hi
<1>3. Min({a, b}) = lo
  BY <1>1 DEF Min
<1>4. Max({a, b}) = hi
  BY <1>2 DEF Max
<1> QED
  BY <1>3, <1>4 DEF lo, hi

\* What the assumptions say of a setup and its files.
LEMMA SetupFacts ==
    ASSUME setup \in DOMAIN Setups
    PROVE  /\ Fed \in BOOLEAN /\ BufferSize \in Nat
           /\ \A m \in Byte : LengthLimit[m] \in Nat
           /\ Files[setup] \subseteq Seq(Byte)
BY DecompressAssumptions DEF SetupsOK, Fed, BufferSize, LengthLimit, Byte

\* Bytes are numbers.
LEMMA ByteIsNat == \A b : b \in Byte <=> b \in Nat /\ b <= 255
BY DEF Byte

\* The source delivers bytes, whatever the place.
LEMMA ByteFacts ==
    ASSUME file \in Seq(Byte), NEW i \in Int, i > 0
    PROVE  FileByte(i) \in Byte
<1>1. Len(file) \in Nat
  OBVIOUS
<1>2. EndOfFile(i) \in Byte
  BY <1>1 DEF EndOfFile, Byte, M_EOI
<1>3. i <= Len(file) => file[i] \in Byte
  BY <1>1
<1> QED
  BY <1>2, <1>3 DEF FileByte

\* A word is a number.
LEMMA WordFacts ==
    ASSUME file \in Seq(Byte), NEW i \in Int, i > 0
    PROVE  FileWord(i) \in Nat
<1> DEFINE x == FileByte(i)
           y == FileByte(i + 1)
<1>1. i + 1 \in Int /\ i + 1 > 0
  OBVIOUS
<1>2. x \in Byte /\ y \in Byte
  BY <1>1, ByteFacts
<1>3. x \in Nat /\ y \in Nat
  BY <1>2, ByteIsNat
<1>4. FileWord(i) = 256 * x + y
  BY DEF FileWord
<1> HIDE DEF x, y
<1> QED
  BY <1>3, <1>4

\* The same for what is read from the local pointer on.
LEMMA ReadFacts ==
    ASSUME file \in Seq(Byte), at \in Nat, NEW i \in Nat \ {0}
    PROVE  B(i) \in Byte /\ B(i) \in Nat /\ B(i) <= 255 /\ W(i) \in Nat
<1>1. at + i \in Int /\ at + i > 0
  OBVIOUS
<1>2. B(i) \in Byte
  BY <1>1, ByteFacts DEF B
<1>3. W(i) \in Nat
  BY <1>1, WordFacts DEF W
<1> QED
  BY <1>2, <1>3, ByteIsNat

\* What an application asked to save is limited by a number.
LEMMA SaveLimitFacts ==
    ASSUME setup \in DOMAIN Setups, NEW m \in Byte
    PROVE  SaveLimit(m) \in Nat
<1>1. LengthLimit[m] \in Nat
  BY SetupFacts
<1>2. WantedItself(m) \in Nat
  BY DEF WantedItself, APP0_DATA_LEN, APP14_DATA_LEN, M_APP0, M_APP14
<1> DEFINE x == LengthLimit[m]
           y == WantedItself(m)
<1> HIDE DEF x, y
<1>3. Max({x, y}) \in Nat
  <2>1. x \in Int /\ y \in Int /\ x >= 0 /\ y >= 0
    BY <1>1, <1>2 DEF x, y
  <2>2. Max({x, y}) = IF x <= y THEN y ELSE x
    BY <2>1, PairFacts, Zenon
  <2> QED
    BY <2>1, <2>2
<1> QED
  BY <1>3 DEF SaveLimit, x, y

\* How many bytes the parts of the routines take at a time.
LEMMA NeedFacts ==
    /\ proc = "get_dht_counts" => Need = 17
    /\ proc = "get_sof" => Need = 8
    /\ proc \in {"get_sos", "get_sos_params", "get_sof_component"} => Need = 3
    /\ proc \in {"get_dqt_table"} => Need = 1
    /\ proc \in {"get_dht_values", "appn_data"} => Need = loc.count
    /\ proc = "get_dqt_value" => Need \in {1, 2}
    /\ proc = "save_copy" => Need = 1
    /\ proc \in {"get_sos_component", "get_dac", "get_dac_pair", "get_dht",
                 "get_dqt", "get_dri", "get_dri_value",
                 "get_interesting_appn", "skip_variable", "save_marker"} =>
         Need = 2
BY DEF Need, GroupSize

\* A sum over a set is what its definition says, for sets of up to n members.
SumRule(g, S, n, f) ==
    \A s \in SUBSET S :
      Cardinality(s) <= n =>
        f[s] = IF s = {} THEN 0
               ELSE g[CHOOSE x \in s : TRUE] + f[s \ {CHOOSE x \in s : TRUE}]

\* Some function adds up, by the least size that none adds up.
LEMMA SumRuleHolds ==
    ASSUME NEW S, IsFiniteSet(S), NEW g, NEW n \in Nat
    PROVE  \E f : f = [s \in SUBSET S |-> f[s]] /\ SumRule(g, S, n, f)
<1> DEFINE Holds(m) == \E f : /\ f = [s \in SUBSET S |-> f[s]]
                              /\ SumRule(g, S, m, f)
           Bad == {m \in Nat : ~Holds(m)}
<1>1. \A s \in SUBSET S : /\ IsFiniteSet(s) /\ Cardinality(s) \in Nat
                          /\ Cardinality(s) = 0 <=> s = {}
  BY FS_Subset, FS_CardinalityType, FS_EmptySet
<1>2. \A s \in SUBSET S : s # {} =>
        LET x == CHOOSE x \in s : TRUE
        IN  /\ x \in s /\ s \ {x} \in SUBSET S
            /\ Cardinality(s \ {x}) = Cardinality(s) - 1
  <2> TAKE s \in SUBSET S
  <2> HAVE s # {}
  <2> DEFINE x == CHOOSE x \in s : TRUE
  <2>1. x \in s
    OBVIOUS
  <2> HIDE DEF x
  <2>2. Cardinality(s \ {x}) = Cardinality(s) - 1
    BY <1>1, <2>1, FS_RemoveElement
  <2> QED
    BY <2>1, <2>2 DEF x
<1>3. Holds(0)
  <2> DEFINE f == [s \in SUBSET S |-> 0]
  <2>1. f = [s \in SUBSET S |-> f[s]]
    OBVIOUS
  <2>2. SumRule(g, S, 0, f)
    <3> SUFFICES ASSUME NEW s \in SUBSET S, Cardinality(s) <= 0
                 PROVE  s = {} /\ f[s] = 0
      BY DEF SumRule
    <3> QED
      BY <1>1
  <2> QED
    BY <2>1, <2>2
<1>4. ASSUME NEW m \in Nat, Holds(m)
      PROVE  Holds(m + 1)
  <2>1. PICK e : e = [s \in SUBSET S |-> e[s]] /\ SumRule(g, S, m, e)
    BY <1>4
  <2> DEFINE Pick(s) == CHOOSE x \in s : TRUE
             f == [s \in SUBSET S |-> IF s = {} THEN 0
                                      ELSE g[Pick(s)] + e[s \ {Pick(s)}]]
  <2>2. f = [s \in SUBSET S |-> f[s]]
    OBVIOUS
  <2>3. \A s \in SUBSET S : Cardinality(s) <= m => f[s] = e[s]
    BY <2>1 DEF SumRule
  <2>4. ASSUME NEW s \in SUBSET S, Cardinality(s) <= m + 1, s # {}
        PROVE  f[s] = g[Pick(s)] + f[s \ {Pick(s)}]
    <3> DEFINE r == s \ {Pick(s)}
    <3>1. /\ r \in SUBSET S /\ Cardinality(r) = Cardinality(s) - 1
          /\ Cardinality(s) \in Nat
      BY <1>1, <1>2, <2>4
    <3>2. f[s] = g[Pick(s)] + e[r]
      BY <2>4
    <3> HIDE DEF f, r
    <3>3. Cardinality(r) <= m
      BY <3>1, <2>4
    <3>4. f[r] = e[r]
      BY <2>3, <3>1, <3>3
    <3> QED
      BY <3>2, <3>4 DEF r
  <2>5. f[{}] = 0
    OBVIOUS
  <2> HIDE DEF f
  <2>6. SumRule(g, S, m + 1, f)
    BY <2>4, <2>5 DEF SumRule
  <2> QED
    BY <2>2, <2>6
<1> HIDE DEF Holds
<1>5. Bad = {}
  <2> SUFFICES ASSUME Bad # {} PROVE FALSE
    OBVIOUS
  <2>1. IsWellFoundedOn(OpToRel(<, Nat), Nat)
    BY NatLessThanWellFounded
  <2>2. PICK m \in Bad : \A k \in Bad : ~(<<k, m>> \in OpToRel(<, Nat))
    <3>1. Bad \subseteq Nat
      OBVIOUS
    <3> QED
      BY <2>1, <3>1, WFMin
  <2>3. \A k \in Bad : ~(k < m)
    BY <2>2 DEF OpToRel
  <2>4. m \in Nat /\ m # 0 /\ ~Holds(m)
    BY <1>3
  <2>5. m - 1 \in Nat /\ m - 1 < m /\ m - 1 \notin Bad
    BY <2>3, <2>4
  <2>6. Holds(m - 1)
    BY <2>5
  <2> QED
    BY <1>4, <2>4, <2>5, <2>6
<1> QED
  BY <1>5 DEF Holds

\* The sum of a finite family of numbers is a number.
LEMMA TotalIsNat ==
    ASSUME NEW g, IsFiniteSet(DOMAIN g), \A x \in DOMAIN g : g[x] \in Nat
    PROVE  Total(g) \in Nat
<1> DEFINE S == DOMAIN g
           Rule(f) ==
             f = [s \in SUBSET S |->
                    IF s = {} THEN 0
                    ELSE g[CHOOSE x \in s : TRUE]
                           + f[s \ {CHOOSE x \in s : TRUE}]]
           sum == CHOOSE f : Rule(f)
<1>0. IsFiniteSet(S) /\ \A x \in S : g[x] \in Nat
  OBVIOUS
<1>a. Total(g) = sum[S]
  BY DEF MapThenSumSet, MapThenFoldSet, sum, Total
<1> HIDE DEF S
<1>1. \A s \in SUBSET S : /\ IsFiniteSet(s) /\ Cardinality(s) \in Nat
                          /\ Cardinality(s) <= Cardinality(S)
                          /\ Cardinality(s) = 0 <=> s = {}
  BY <1>0, FS_Subset, FS_CardinalityType, FS_EmptySet
<1>2. Cardinality(S) \in Nat
  BY <1>1
<1>3. PICK e : e = [s \in SUBSET S |-> e[s]] /\ SumRule(g, S, Cardinality(S), e)
  BY <1>0, <1>2, SumRuleHolds
<1>4. Rule(e)
  <2>1. \A s \in SUBSET S :
          e[s] = IF s = {} THEN 0
                 ELSE g[CHOOSE x \in s : TRUE]
                        + e[s \ {CHOOSE x \in s : TRUE}]
    BY <1>1, <1>3 DEF SumRule
  <2> QED
    BY <1>3, <2>1
<1>5. Rule(sum)
  <2> HIDE DEF Rule
  <2> QED
    BY <1>4
<1> HIDE DEF sum
<1>6. \A s \in SUBSET S : sum[s] \in Nat
  <2> DEFINE Bad == {n \in Nat : \E s \in SUBSET S : Cardinality(s) = n
                                                     /\ sum[s] \notin Nat}
  <2>1. Bad = {}
    <3> SUFFICES ASSUME Bad # {} PROVE FALSE
      OBVIOUS
    <3>1. Bad \subseteq Nat
      OBVIOUS
    <3>2. PICK n \in Bad : \A m \in Bad : n <= m
      <4> HIDE DEF Bad
      <4> QED
        BY <3>1, LeastOfNat
    <3>3. PICK s \in SUBSET S : Cardinality(s) = n /\ sum[s] \notin Nat
      OBVIOUS
    <3>4. s # {}
      BY <1>5, <3>3
    <3> DEFINE x == CHOOSE x \in s : TRUE
               r == s \ {x}
    <3>5. x \in s
      BY <3>4
    <3>6. sum[s] = g[x] + sum[r]
      BY <1>5, <3>4
    <3> HIDE DEF x
    <3>7. r \in SUBSET S /\ Cardinality(r) = n - 1 /\ n \in Nat
      BY <1>1, <3>3, <3>5, FS_RemoveElement
    <3> HIDE DEF r
    <3>8. sum[r] \notin Nat
      BY <1>0, <3>3, <3>5, <3>6
    <3>9. n - 1 \in Nat
      BY <1>1, <3>7
    <3>10. n - 1 \in Bad
      BY <3>7, <3>8, <3>9
    <3> QED
      BY <3>2, <3>7, <3>10
  <2> SUFFICES ASSUME NEW s \in SUBSET S PROVE sum[s] \in Nat
    OBVIOUS
  <2>2. Cardinality(s) \in Nat /\ Cardinality(s) \notin Bad
    BY <1>1, <2>1
  <2> QED
    BY <2>2
<1> QED
  BY <1>6, <1>a

-----------------------------------------------------------------------------
(* The kinds of steps the reader takes, and that each of them keeps the    *)
(* invariant, goes forward and saves what is written.                      *)

\* What all of them leave alone, or in its type.
Same ==
    /\ UNCHANGED <<setup, file, avail>>
    /\ discarded' \in Nat
    /\ status' \in Statuses
    /\ results' \in Seq(Outcomes)
    /\ "marker_list" \in DOMAIN cinfo'

KeepsList == cinfo'.marker_list = cinfo.marker_list

SavingUnchanged == UNCHANGED <<cur_marker, bytes_read>>

\* An error: nothing moves.
Fails ==
    /\ Same /\ KeepsList /\ SavingUnchanged
    /\ UNCHANGED <<pos, at, proc, loc, unread_marker>>

\* Bytes are read that may have to be read again.
ReadsOn ==
    /\ Same /\ KeepsList /\ SavingUnchanged
    /\ UNCHANGED <<pos, unread_marker>>
    /\ at' \in Nat /\ at' >= at /\ (Fed => at' <= avail)
    /\ proc \notin Restarts /\ proc' \notin Restarts
    /\ proc' \in Finding => proc \in Finding
    /\ proc' \in {"get_dht_values", "appn_data"} => loc'.count \in Nat
    /\ proc' = "appn_data" => loc'.length \in Int

\* A marker is done with, or found, or garbage is given up.
MovesOn ==
    /\ Same /\ KeepsList /\ SavingUnchanged /\ cur_marker = NoMarker
    /\ at' \in Nat /\ at' >= at /\ pos' = at'
    /\ proc' \in {"read_markers", "next_marker"}
    /\ unread_marker' \in 0..254
    /\ proc' = "next_marker" => unread_marker' = 0
    /\ unread_marker' # 0 => FileByte(pos') = unread_marker'

\* read_markers calls a routine.
Turns ==
    /\ Same /\ KeepsList /\ SavingUnchanged
    /\ UNCHANGED <<pos, at, unread_marker>>
    /\ proc = "read_markers"
    /\ proc' \notin {"read_markers", "get_dht_values", "appn_data"}
    /\ proc' \in Finding => unread_marker = 0
    /\ proc' = "save_copy" => cur_marker # NoMarker /\ loc'.read = bytes_read
    /\ proc' = "save_marker" =>
         /\ cur_marker = NoMarker
         /\ unread_marker \in Savable /\ SaveLimit(unread_marker) > 0
    /\ cur_marker # NoMarker => proc' = "save_copy"

\* A routine gives up, or is about to be called again.
GivesUp ==
    /\ Same /\ KeepsList /\ SavingUnchanged
    /\ UNCHANGED <<pos, unread_marker>>
    /\ at' = pos
    /\ \/ proc' = "read_markers"
       \/ UNCHANGED <<proc, loc>>

\* What a step has to keep.
StepOK == MarkersInv' /\ GoesForward /\ SavesWhatIsWritten

\* Saved bytes that stay are a prefix of themselves.
LEMMA SavedStays ==
    ASSUME SavingInv, SavingUnchanged
    PROVE  cur_marker # NoMarker =>
             IsPrefix(SubSeq(cur_marker.data, 1, bytes_read), cur_marker'.data)
<1> SUFFICES ASSUME cur_marker # NoMarker
             PROVE  IsPrefix(SubSeq(cur_marker.data, 1, bytes_read),
                             cur_marker.data)
  BY DEF SavingUnchanged
<1> DEFINE d == cur_marker.data
           k == bytes_read
<1>1. d \in Seq(Byte) /\ k \in Nat
  BY DEF SavingInv, Note
<1>2. d = [i \in 1..k |-> FileByte(pos - k + i)]
  BY DEF SavingInv
<1>3. Len(d) = k
  BY <1>1, <1>2
<1> HIDE DEF d, k
<1>4. SubSeq(d, 1, k) = d
  BY <1>1, <1>3
<1>5. IsPrefix(d, d)
  BY <1>1, <1>3 DEF IsPrefix
<1> QED
  BY <1>4, <1>5 DEF d, k

\* Bytes of the file stay what they are.
LEMMA FileStays ==
    ASSUME UNCHANGED file
    PROVE  \A i : FileByte(i)' = FileByte(i) /\ FileWord(i)' = FileWord(i)
BY DEF FileByte, FileWord, EndOfFile

\* What the application set up stays.
LEMMA LimitStays ==
    ASSUME UNCHANGED setup
    PROVE  /\ Fed' = Fed
           /\ \A m : SaveLimit(m)' = SaveLimit(m)
BY DEF SaveLimit, LengthLimit, Fed

\* What the invariant and the parts of a step say of the file and the setup.
LEMMA InvFacts ==
    ASSUME MarkersInv
    PROVE  /\ setup \in DOMAIN Setups
           /\ file \in Seq(Byte) /\ Len(file) \in Nat /\ avail \in Nat
           /\ pos \in Nat /\ at \in Nat /\ pos <= at
           /\ Fed \in BOOLEAN
BY SetupFacts DEF MarkersInv, PlacesInv

\* The places in the file, by a step that leaves the source alone.
LEMMA PlacesKept ==
    ASSUME MarkersInv, Same,
           pos' \in Nat, at' \in Nat, pos' <= at',
           Fed => at' <= avail \/ at' = pos',
           proc' \in Restarts => at' = pos'
    PROVE  PlacesInv'
<1>1. Fed' = Fed /\ Statuses' = Statuses /\ Outcomes' = Outcomes
  BY LimitStays DEF Same, Statuses, Outcomes, Errors
<1>2. setup' = setup /\ file' = file /\ avail' = avail
  BY DEF Same
<1> QED
  BY <1>1, <1>2 DEF MarkersInv, PlacesInv, Same, Restarts

\* The list of the saved markers, by a step that does not touch it.
LEMMA ListKept ==
    ASSUME MarkersInv, Same, KeepsList,
           proc' \in {"get_dht_values", "appn_data"} => loc'.count \in Nat,
           proc' = "appn_data" => loc'.length \in Int
    PROVE  LocalsInv' /\ SavesWhatIsWritten
BY DEF MarkersInv, LocalsInv, Same, KeepsList, SavesWhatIsWritten

\* The marker being saved, while the restart point stays.
LEMMA SavingKept ==
    ASSUME MarkersInv, Same, SavingUnchanged, UNCHANGED <<pos, unread_marker>>,
           cur_marker # NoMarker => proc' \in {"read_markers", "save_copy"},
           proc' = "save_copy" => cur_marker # NoMarker
                                  /\ loc'.read = bytes_read,
           proc' = "save_marker" =>
             /\ cur_marker = NoMarker
             /\ unread_marker \in Savable /\ SaveLimit(unread_marker) > 0
    PROVE  SavingInv'
<1>1. /\ cur_marker' = cur_marker /\ bytes_read' = bytes_read /\ pos' = pos
      /\ unread_marker' = unread_marker
  BY DEF SavingUnchanged
<1>2. \A i : FileByte(i)' = FileByte(i) /\ FileWord(i)' = FileWord(i)
  BY FileStays DEF Same
<1>3. \A m : SaveLimit(m)' = SaveLimit(m)
  BY LimitStays DEF Same
<1>4. SavingInv
  BY DEF MarkersInv
<1>5. FileByte(pos - bytes_read - 2)' = FileByte(pos - bytes_read - 2)
  BY <1>1, FileStays DEF Same, FileByte, EndOfFile
<1>6. FileWord(pos - bytes_read - 1)' = FileWord(pos - bytes_read - 1)
  BY <1>1 DEF Same, FileWord, FileByte, EndOfFile
<1>7. [i \in 1..bytes_read |-> FileByte(pos - bytes_read + i)]'
        = [i \in 1..bytes_read |-> FileByte(pos - bytes_read + i)]
  BY <1>1 DEF Same, FileByte, EndOfFile
<1>8. SaveLimit(unread_marker)' = SaveLimit(unread_marker)
  BY <1>1, LimitStays DEF Same, SaveLimit, LengthLimit
<1> QED
  BY <1>1, <1>4, <1>5, <1>6, <1>7, <1>8 DEF SavingInv, NoMarker

\* The same when no marker is being saved, wherever the restart point goes.
LEMMA NothingSaved ==
    ASSUME MarkersInv, SavingUnchanged, cur_marker = NoMarker,
           proc' \notin {"save_copy", "save_marker"}
    PROVE  SavingInv'
BY DEF MarkersInv, SavingInv, SavingUnchanged, NoMarker

\* The marker that was found, while the restart point stays.
LEMMA FoundKept ==
    ASSUME MarkersInv, Same, SavingUnchanged, UNCHANGED <<pos, unread_marker>>,
           proc' \in Finding => unread_marker = 0
    PROVE  FoundInv'
<1>1. FileByte(pos)' = FileByte(pos)
  BY DEF Same, FileByte, EndOfFile
<1> QED
  BY <1>1 DEF MarkersInv, FoundInv, SavingUnchanged, NoMarker, Finding

\* An error leaves all that matters as it is.
LEMMA FailsOK ==
    ASSUME MarkersInv, Fails
    PROVE  StepOK
<1>1. PlacesInv'
  <2>1. Fed => at <= avail \/ at = pos
    BY DEF MarkersInv, PlacesInv
  <2>2. proc \in Restarts => at = pos
    BY DEF MarkersInv, PlacesInv
  <2> QED
    BY <2>1, <2>2, InvFacts, PlacesKept DEF Fails
<1>2. LocalsInv' /\ SavesWhatIsWritten
  BY ListKept DEF Fails, MarkersInv, LocalsInv
<1>3. SavingInv'
  BY SavingKept DEF Fails, MarkersInv, SavingInv
<1>4. FoundInv'
  BY FoundKept DEF Fails, MarkersInv, FoundInv
<1>5. GoesForward
  BY SavedStays, InvFacts DEF Fails, MarkersInv, GoesForward
<1> QED
  BY <1>1, <1>2, <1>3, <1>4, <1>5 DEF StepOK, MarkersInv

\* Bytes that may have to be read again.
LEMMA ReadsOK ==
    ASSUME MarkersInv, ReadsOn
    PROVE  StepOK
<1>1. PlacesInv'
  BY InvFacts, PlacesKept DEF ReadsOn
<1>2. LocalsInv' /\ SavesWhatIsWritten
  BY ListKept DEF ReadsOn
<1>3. SavingInv'
  <2>1. cur_marker = NoMarker
    BY DEF ReadsOn, MarkersInv, SavingInv, Restarts
  <2>2. proc' \notin {"save_copy", "save_marker"}
    BY DEF ReadsOn, Restarts
  <2> QED
    BY <2>1, <2>2, NothingSaved DEF ReadsOn
<1>4. FoundInv'
  BY FoundKept DEF ReadsOn, MarkersInv, FoundInv
<1>5. GoesForward
  BY SavedStays, InvFacts DEF ReadsOn, MarkersInv, GoesForward
<1> QED
  BY <1>1, <1>2, <1>3, <1>4, <1>5 DEF StepOK, MarkersInv

\* A marker that is done with, or found, or garbage.
LEMMA PassesOK ==
    ASSUME MarkersInv, MovesOn
    PROVE  StepOK
<1>1. PlacesInv'
  BY InvFacts, PlacesKept DEF MovesOn
<1>2. LocalsInv' /\ SavesWhatIsWritten
  BY ListKept DEF MovesOn
<1>3. SavingInv'
  BY NothingSaved DEF MovesOn
<1>4. FoundInv'
  <2>1. FileByte(pos)' = FileByte(pos')
    BY DEF MovesOn, Same, FileByte, EndOfFile
  <2> QED
    BY <2>1 DEF MovesOn, FoundInv, Finding
<1>5. GoesForward
  BY InvFacts DEF MovesOn, GoesForward
<1> QED
  BY <1>1, <1>2, <1>3, <1>4, <1>5 DEF StepOK, MarkersInv

\* A routine is called.
LEMMA TurnsOK ==
    ASSUME MarkersInv, Turns
    PROVE  StepOK
<1>0. at = pos
  BY DEF Turns, MarkersInv, PlacesInv, Restarts
<1>1. PlacesInv'
  BY <1>0, InvFacts, PlacesKept DEF Turns
<1>2. LocalsInv' /\ SavesWhatIsWritten
  BY ListKept DEF Turns
<1>3. SavingInv'
  BY SavingKept DEF Turns
<1>4. FoundInv'
  BY FoundKept DEF Turns
<1>5. GoesForward
  BY SavedStays, InvFacts DEF Turns, MarkersInv, GoesForward
<1> QED
  BY <1>1, <1>2, <1>3, <1>4, <1>5 DEF StepOK, MarkersInv

\* A routine that gives up begins again at the restart point.
LEMMA GivesUpOK ==
    ASSUME MarkersInv, GivesUp
    PROVE  StepOK
<1>1. PlacesInv'
  BY InvFacts, PlacesKept DEF GivesUp
<1>2. LocalsInv' /\ SavesWhatIsWritten
  BY ListKept DEF GivesUp, MarkersInv, LocalsInv
<1>3. SavingInv'
  BY SavingKept DEF GivesUp, MarkersInv, SavingInv
<1>4. FoundInv'
  BY FoundKept DEF GivesUp, MarkersInv, FoundInv, Finding
<1>5. GoesForward
  BY SavedStays, InvFacts DEF GivesUp, MarkersInv, GoesForward
<1> QED
  BY <1>1, <1>2, <1>3, <1>4, <1>5 DEF StepOK, MarkersInv

\* A marker comes on the list.
Ends ==
    /\ Same
    /\ cur_marker' = NoMarker /\ bytes_read' \in Nat
    /\ at' \in Nat /\ at' >= at /\ pos' = at'
    /\ proc' = "read_markers" /\ unread_marker' = 0
    /\ \E m \in Note :
         /\ cinfo'.marker_list = Append(cinfo.marker_list, m)
         /\ StandsBefore(m, pos')

\* What is there of a marker to be saved is saved.
Saves ==
    /\ Same /\ KeepsList
    /\ at' \in Nat /\ at' >= at /\ pos' = at'
    /\ UNCHANGED unread_marker
    /\ proc' = "save_copy" /\ loc'.read = bytes_read'
    /\ bytes_read' \in Nat
    /\ cur_marker' \in Note /\ cur_marker' # NoMarker
    /\ unread_marker = cur_marker'.marker
    /\ unread_marker \in Savable /\ SaveLimit(unread_marker) > 0
    /\ bytes_read' < cur_marker'.data_length
    /\ cur_marker'.data_length =
         Min({cur_marker'.original_length, SaveLimit(unread_marker)})
    /\ FileByte(pos' - bytes_read' - 2) = unread_marker
    /\ FileWord(pos' - bytes_read' - 1) = cur_marker'.original_length + 2
    /\ cur_marker'.data =
         [i \in 1..bytes_read' |-> FileByte(pos' - bytes_read' + i)]
    /\ cur_marker # NoMarker =>
         IsPrefix(SubSeq(cur_marker.data, 1, bytes_read), cur_marker'.data)

\* A marker that comes on the list stands in the file.
LEMMA EndsOK ==
    ASSUME MarkersInv, Ends
    PROVE  StepOK
<1>1. PlacesInv'
  BY InvFacts, PlacesKept DEF Ends
<1>2. PICK m \in Note : /\ cinfo'.marker_list = Append(cinfo.marker_list, m)
                        /\ StandsBefore(m, pos')
  BY DEF Ends
<1>3. cinfo.marker_list \in Seq(Note)
  BY DEF MarkersInv, LocalsInv
<1>4. /\ Append(cinfo.marker_list, m) \in Seq(Note)
      /\ Last(Append(cinfo.marker_list, m)) = m
  BY <1>3 DEF Last
<1>5. LocalsInv'
  <2>1. Note' = Note
    BY DEF Note, Byte
  <2> QED
    BY <1>2, <1>4, <2>1 DEF Ends, Same, LocalsInv
<1>6. SavesWhatIsWritten
  BY <1>2, <1>4 DEF SavesWhatIsWritten
<1>7. SavingInv'
  BY DEF Ends, SavingInv, NoMarker
<1>8. FoundInv'
  BY DEF Ends, FoundInv, Finding
<1>9. GoesForward
  BY InvFacts DEF Ends, GoesForward, NoMarker
<1> QED
  BY <1>1, <1>5, <1>6, <1>7, <1>8, <1>9 DEF StepOK, MarkersInv

\* What was saved before is kept, and more of it is saved.
LEMMA SavesOK ==
    ASSUME MarkersInv, Saves
    PROVE  StepOK
<1>1. PlacesInv'
  BY InvFacts, PlacesKept DEF Saves
<1>2. LocalsInv' /\ SavesWhatIsWritten
  BY ListKept DEF Saves
<1>3. SavingInv'
  <2>1. /\ FileByte(pos - bytes_read - 2)' = FileByte(pos' - bytes_read' - 2)
        /\ FileWord(pos - bytes_read - 1)' = FileWord(pos' - bytes_read' - 1)
        /\ [i \in 1..bytes_read |-> FileByte(pos - bytes_read + i)]'
             = [i \in 1..bytes_read' |-> FileByte(pos' - bytes_read' + i)]
    BY DEF Saves, Same, FileByte, FileWord, EndOfFile
  <2>2. SaveLimit(unread_marker)' = SaveLimit(unread_marker)
    BY DEF Saves, Same, SaveLimit, LengthLimit
  <2> QED
    BY <2>1, <2>2 DEF Saves, SavingInv, NoMarker, Note, Byte, Savable
<1>4. FoundInv'
  <2>1. cur_marker' # NoMarker' /\ unread_marker' = unread_marker
    BY DEF Saves, NoMarker
  <2> QED
    BY <2>1 DEF Saves, MarkersInv, FoundInv, Finding
<1>5. GoesForward
  BY InvFacts DEF Saves, GoesForward
<1> QED
  BY <1>1, <1>2, <1>3, <1>4, <1>5 DEF StepOK, MarkersInv

\* A copy of bytes from the file goes on where the last one ended.
LEMMA CopyFacts ==
    ASSUME MarkersInv, cur_marker # NoMarker, at = pos, NEW n \in Nat
    PROVE  LET k == bytes_read
               d == SubSeq(cur_marker.data, 1, k) \o Bytes(n)
           IN  /\ d \in Seq(Byte)
               /\ d = [i \in 1..(k + n) |-> FileByte(pos - k + i)]
               /\ IsPrefix(SubSeq(cur_marker.data, 1, k), d)
<1> DEFINE k == bytes_read
           c == cur_marker.data
           b == Bytes(n)
           d == c \o b
           e == [i \in 1..(k + n) |-> FileByte(pos - k + i)]
<1>1. /\ c \in Seq(Byte) /\ k \in Nat
      /\ c = [i \in 1..k |-> FileByte(pos - k + i)]
  BY DEF MarkersInv, SavingInv, Note
<1>2. b = [i \in 1..n |-> FileByte(pos + i)]
  BY DEF Bytes, B
<1>3. b \in Seq(Byte) /\ Len(b) = n
  <2>1. \A i \in 1..n : FileByte(pos + i) \in Byte
    BY InvFacts, ByteFacts
  <2> QED
    BY <1>2, <2>1
<1>4. Len(c) = k
  BY <1>1
<1>5. pos \in Nat
  BY InvFacts
<1>6. SubSeq(c, 1, k) = c
  BY <1>1, <1>4
<1>7. d \in Seq(Byte) /\ Len(d) = k + n
  BY <1>1, <1>3, <1>4
<1>8. \A i \in 1..(k + n) : d[i] = IF i <= k THEN c[i] ELSE b[i - k]
  BY <1>1, <1>3, <1>4
<1>9. \A i \in 1..(k + n) : d[i] = FileByte(pos - k + i)
  <2> TAKE i \in 1..(k + n)
  <2>1. CASE i <= k
    BY <1>1, <1>8, <2>1
  <2>2. CASE ~(i <= k)
    <3>1. i - k \in 1..n /\ pos + (i - k) = pos - k + i
      BY <1>1, <1>5, <2>2
    <3>2. b[i - k] = FileByte(pos + (i - k))
      BY <1>2, <3>1
    <3> QED
      BY <1>8, <2>2, <3>1, <3>2
  <2> QED
    BY <2>1, <2>2
<1>10. d = e
  BY <1>7, <1>9
<1>11. IsPrefix(c, d)
  <2>1. SubSeq(d, 1, k) = c
    BY <1>1, <1>3, <1>4, <1>7, <1>8
  <2> QED
    BY <1>1, <1>4, <1>6, <1>7, <2>1 DEF IsPrefix
<1> HIDE DEF d, e
<1> QED
  BY <1>6, <1>7, <1>10, <1>11 DEF d, e

-----------------------------------------------------------------------------
(* Every step of the reader is of one of these kinds.                      *)

\* A part of a routine that has the bytes it takes at a time.
LEMMA TakesFacts ==
    ASSUME MarkersInv, NEW p, Takes(p), p \notin Restarts
    PROVE  /\ proc = p /\ status = "reading" /\ cur_marker = NoMarker
           /\ proc \notin Restarts
           /\ UNCHANGED <<setup, file, avail>> /\ discarded' \in Nat
           /\ Fed => at + Need <= avail
BY DEF MarkersInv, PlacesInv, SavingInv, Takes, Running, CanRead,
       CountUnchanged, Restarts

\* The end of a step that has read n bytes: an error, the next group of
\* fields, or the end of the segment.
Went(n) ==
    \/ /\ status' \in Errors /\ SaveUnchanged
       /\ UNCHANGED <<pos, at, proc, loc, unread_marker, results>>
    \/ /\ at' = at + n /\ pos' = pos /\ SaveUnchanged
       /\ UNCHANGED <<unread_marker, status, results>>
       /\ proc' \notin Restarts \cup Finding
       /\ proc' \in {"get_dht_values", "appn_data"} => loc'.count \in Nat
       /\ proc' = "appn_data" => loc'.length \in Int
    \/ /\ pos' = at' /\ at' \in Nat /\ at' >= at + n /\ SaveUnchanged
       /\ proc' = "read_markers" /\ unread_marker' = 0
       /\ status' \in Statuses /\ results' \in Seq(Outcomes)

\* A step that reads a group of fields keeps the invariant.
LEMMA WentOK ==
    ASSUME MarkersInv, NEW p, Takes(p), p \notin Restarts,
           NEW n \in Nat, n = Need, Went(n),
           "marker_list" \in DOMAIN cinfo', KeepsList
    PROVE  StepOK
<1>1. /\ proc = p /\ status = "reading" /\ cur_marker = NoMarker
      /\ proc \notin Restarts
      /\ UNCHANGED <<setup, file, avail>> /\ discarded' \in Nat
      /\ Fed => at + n <= avail
  BY TakesFacts
<1>2. /\ pos \in Nat /\ at \in Nat /\ pos <= at
      /\ status \in Statuses /\ results \in Seq(Outcomes)
  BY DEF MarkersInv, PlacesInv
<1>3. CASE /\ status' \in Errors /\ SaveUnchanged
           /\ UNCHANGED <<pos, at, proc, loc, unread_marker, results>>
  <2>1. Fails
    BY <1>1, <1>2, <1>3
    DEF Fails, Same, SavingUnchanged, SaveUnchanged, Statuses
  <2> QED
    BY <2>1, FailsOK
<1>4. CASE /\ at' = at + n /\ pos' = pos /\ SaveUnchanged
           /\ UNCHANGED <<unread_marker, status, results>>
           /\ proc' \notin Restarts \cup Finding
           /\ proc' \in {"get_dht_values", "appn_data"} => loc'.count \in Nat
           /\ proc' = "appn_data" => loc'.length \in Int
  <2>1. ReadsOn
    BY <1>1, <1>2, <1>4 DEF ReadsOn, Same, SavingUnchanged, SaveUnchanged
  <2> QED
    BY <2>1, ReadsOK
<1>5. CASE /\ pos' = at' /\ at' \in Nat /\ at' >= at + n /\ SaveUnchanged
           /\ proc' = "read_markers" /\ unread_marker' = 0
           /\ status' \in Statuses /\ results' \in Seq(Outcomes)
  <2>1. MovesOn
    BY <1>1, <1>2, <1>5 DEF MovesOn, Same, SavingUnchanged, SaveUnchanged
  <2> QED
    BY <2>1, PassesOK
<1> QED
  BY <1>3, <1>4, <1>5 DEF Went

\* The frame header.
LEMMA SofOK ==
    ASSUME MarkersInv, get_sof
    PROVE  StepOK
<1> DEFINE n == 8
<1>1. /\ Takes("get_sof") /\ proc = "get_sof"
      /\ "get_sof" \notin Restarts
  BY DEF get_sof, Takes, Running, Restarts
<1>2. n \in Nat /\ n = Need
  BY <1>1, NeedFacts DEF MarkersInv, LocalsInv
<1>3. "marker_list" \in DOMAIN cinfo' /\ KeepsList
  BY DEF get_sof, MarkersInv, LocalsInv, KeepsList, Dimensions, None
<1>4. /\ at \in Nat /\ status \in Statuses /\ results \in Seq(Outcomes)
  BY DEF MarkersInv, PlacesInv
<1>5. Went(n)
  BY <1>1, <1>2, <1>4
  DEF get_sof, GoOn, Advance, Go, Sync, SyncAndSkip, Processed,
      ErrExit, Errors, Restarts, Finding, Went, SaveUnchanged, Dimensions, None
<1> HIDE DEF n
<1> QED
  BY <1>1, <1>2, <1>3, <1>5, WentOK

\* A component of the frame.
LEMMA SofComponentOK ==
    ASSUME MarkersInv, get_sof_component
    PROVE  StepOK
<1> DEFINE n == 3
<1>1. /\ Takes("get_sof_component") /\ proc = "get_sof_component"
      /\ "get_sof_component" \notin Restarts
  BY DEF get_sof_component, Takes, Running, Restarts
<1>2. n \in Nat /\ n = Need
  BY <1>1, NeedFacts DEF MarkersInv, LocalsInv
<1>3. "marker_list" \in DOMAIN cinfo' /\ KeepsList
  BY DEF get_sof_component, MarkersInv, LocalsInv, KeepsList
<1>4. /\ at \in Nat /\ status \in Statuses /\ results \in Seq(Outcomes)
  BY DEF MarkersInv, PlacesInv
<1>5. Went(n)
  BY <1>1, <1>2, <1>4
  DEF get_sof_component, GoOn, Advance, Go, Sync, SyncAndSkip, Processed,
      ErrExit, Errors, Restarts, Finding, Went, SaveUnchanged
<1> HIDE DEF n
<1> QED
  BY <1>1, <1>2, <1>3, <1>5, WentOK

\* The scan header.
LEMMA SosOK ==
    ASSUME MarkersInv, get_sos
    PROVE  StepOK
<1> DEFINE n == 3
<1>1. /\ Takes("get_sos") /\ proc = "get_sos"
      /\ "get_sos" \notin Restarts
  BY DEF get_sos, Takes, Running, Restarts
<1>2. n \in Nat /\ n = Need
  BY <1>1, NeedFacts DEF MarkersInv, LocalsInv
<1>3. "marker_list" \in DOMAIN cinfo' /\ KeepsList
  BY DEF get_sos, MarkersInv, LocalsInv, KeepsList
<1>4. /\ at \in Nat /\ status \in Statuses /\ results \in Seq(Outcomes)
  BY DEF MarkersInv, PlacesInv
<1>5. Went(n)
  BY <1>1, <1>2, <1>4
  DEF get_sos, GoOn, Advance, Go, Sync, SyncAndSkip, Processed,
      ErrExit, Errors, Restarts, Finding, Went, SaveUnchanged
<1> HIDE DEF n
<1> QED
  BY <1>1, <1>2, <1>3, <1>5, WentOK

\* A component of the scan.
LEMMA SosComponentOK ==
    ASSUME MarkersInv, get_sos_component
    PROVE  StepOK
<1> DEFINE n == 2
<1>1. /\ Takes("get_sos_component") /\ proc = "get_sos_component"
      /\ "get_sos_component" \notin Restarts
  BY DEF get_sos_component, Takes, Running, Restarts
<1>2. n \in Nat /\ n = Need
  BY <1>1, NeedFacts DEF MarkersInv, LocalsInv
<1>3. "marker_list" \in DOMAIN cinfo' /\ KeepsList
  BY DEF get_sos_component, MarkersInv, LocalsInv, KeepsList
<1>4. /\ at \in Nat /\ status \in Statuses /\ results \in Seq(Outcomes)
  BY DEF MarkersInv, PlacesInv
<1>5. Went(n)
  BY <1>1, <1>2, <1>4
  DEF get_sos_component, GoOn, Advance, Go, Sync, SyncAndSkip, Processed,
      ErrExit, Errors, Restarts, Finding, Went, SaveUnchanged
<1> HIDE DEF n
<1> QED
  BY <1>1, <1>2, <1>3, <1>5, WentOK

\* The length of an arithmetic conditioning segment.
LEMMA DacOK ==
    ASSUME MarkersInv, get_dac
    PROVE  StepOK
<1> DEFINE n == 2
<1>1. /\ Takes("get_dac") /\ proc = "get_dac"
      /\ "get_dac" \notin Restarts
  BY DEF get_dac, Takes, Running, Restarts
<1>2. n \in Nat /\ n = Need
  BY <1>1, NeedFacts DEF MarkersInv, LocalsInv
<1>3. "marker_list" \in DOMAIN cinfo' /\ KeepsList
  BY DEF get_dac, MarkersInv, LocalsInv, KeepsList
<1>4. /\ at \in Nat /\ status \in Statuses /\ results \in Seq(Outcomes)
  BY DEF MarkersInv, PlacesInv
<1>5. Went(n)
  BY <1>1, <1>2, <1>4
  DEF get_dac, GoOn, Advance, Go, Sync, SyncAndSkip, Processed,
      ErrExit, Errors, Restarts, Finding, Went, SaveUnchanged
<1> HIDE DEF n
<1> QED
  BY <1>1, <1>2, <1>3, <1>5, WentOK

\* A conditioning value.
LEMMA DacPairOK ==
    ASSUME MarkersInv, get_dac_pair
    PROVE  StepOK
<1> DEFINE n == 2
<1>1. /\ Takes("get_dac_pair") /\ proc = "get_dac_pair"
      /\ "get_dac_pair" \notin Restarts
  BY DEF get_dac_pair, Takes, Running, Restarts
<1>2. n \in Nat /\ n = Need
  BY <1>1, NeedFacts DEF MarkersInv, LocalsInv
<1>3. "marker_list" \in DOMAIN cinfo' /\ KeepsList
  BY DEF get_dac_pair, MarkersInv, LocalsInv, KeepsList
<1>4. /\ at \in Nat /\ status \in Statuses /\ results \in Seq(Outcomes)
  BY DEF MarkersInv, PlacesInv
<1>5. Went(n)
  BY <1>1, <1>2, <1>4
  DEF get_dac_pair, GoOn, Advance, Go, Sync, SyncAndSkip, Processed,
      ErrExit, Errors, Restarts, Finding, Went, SaveUnchanged
<1> HIDE DEF n
<1> QED
  BY <1>1, <1>2, <1>3, <1>5, WentOK

\* The length of a segment of Huffman tables.
LEMMA DhtOK ==
    ASSUME MarkersInv, get_dht
    PROVE  StepOK
<1> DEFINE n == 2
<1>1. /\ Takes("get_dht") /\ proc = "get_dht"
      /\ "get_dht" \notin Restarts
  BY DEF get_dht, Takes, Running, Restarts
<1>2. n \in Nat /\ n = Need
  BY <1>1, NeedFacts DEF MarkersInv, LocalsInv
<1>3. "marker_list" \in DOMAIN cinfo' /\ KeepsList
  BY DEF get_dht, MarkersInv, LocalsInv, KeepsList
<1>4. /\ at \in Nat /\ status \in Statuses /\ results \in Seq(Outcomes)
  BY DEF MarkersInv, PlacesInv
<1>5. Went(n)
  BY <1>1, <1>2, <1>4
  DEF get_dht, GoOn, Advance, Go, Sync, SyncAndSkip, Processed,
      ErrExit, Errors, Restarts, Finding, Went, SaveUnchanged
<1> HIDE DEF n
<1> QED
  BY <1>1, <1>2, <1>3, <1>5, WentOK

\* A Huffman table's values.
LEMMA DhtValuesOK ==
    ASSUME MarkersInv, get_dht_values
    PROVE  StepOK
<1> DEFINE n == loc.count
<1>1. /\ Takes("get_dht_values") /\ proc = "get_dht_values"
      /\ "get_dht_values" \notin Restarts
  BY DEF get_dht_values, Takes, Running, Restarts
<1>2. n \in Nat /\ n = Need
  BY <1>1, NeedFacts DEF MarkersInv, LocalsInv
<1>3. "marker_list" \in DOMAIN cinfo' /\ KeepsList
  BY DEF get_dht_values, MarkersInv, LocalsInv, KeepsList
<1>4. /\ at \in Nat /\ status \in Statuses /\ results \in Seq(Outcomes)
  BY DEF MarkersInv, PlacesInv
<1>5. Went(n)
  BY <1>1, <1>2, <1>4
  DEF get_dht_values, GoOn, Advance, Go, Sync, SyncAndSkip, Processed,
      ErrExit, Errors, Restarts, Finding, Went, SaveUnchanged
<1> HIDE DEF n
<1> QED
  BY <1>1, <1>2, <1>3, <1>5, WentOK

\* The length of a segment of quantization tables.
LEMMA DqtOK ==
    ASSUME MarkersInv, get_dqt
    PROVE  StepOK
<1> DEFINE n == 2
<1>1. /\ Takes("get_dqt") /\ proc = "get_dqt"
      /\ "get_dqt" \notin Restarts
  BY DEF get_dqt, Takes, Running, Restarts
<1>2. n \in Nat /\ n = Need
  BY <1>1, NeedFacts DEF MarkersInv, LocalsInv
<1>3. "marker_list" \in DOMAIN cinfo' /\ KeepsList
  BY DEF get_dqt, MarkersInv, LocalsInv, KeepsList
<1>4. /\ at \in Nat /\ status \in Statuses /\ results \in Seq(Outcomes)
  BY DEF MarkersInv, PlacesInv
<1>5. Went(n)
  BY <1>1, <1>2, <1>4
  DEF get_dqt, GoOn, Advance, Go, Sync, SyncAndSkip, Processed,
      ErrExit, Errors, Restarts, Finding, Went, SaveUnchanged
<1> HIDE DEF n
<1> QED
  BY <1>1, <1>2, <1>3, <1>5, WentOK

\* A quantization table's number.
LEMMA DqtTableOK ==
    ASSUME MarkersInv, get_dqt_table
    PROVE  StepOK
<1> DEFINE n == 1
<1>1. /\ Takes("get_dqt_table") /\ proc = "get_dqt_table"
      /\ "get_dqt_table" \notin Restarts
  BY DEF get_dqt_table, Takes, Running, Restarts
<1>2. n \in Nat /\ n = Need
  BY <1>1, NeedFacts DEF MarkersInv, LocalsInv
<1>3. "marker_list" \in DOMAIN cinfo' /\ KeepsList
  BY DEF get_dqt_table, MarkersInv, LocalsInv, KeepsList
<1>4. /\ at \in Nat /\ status \in Statuses /\ results \in Seq(Outcomes)
  BY DEF MarkersInv, PlacesInv
<1>5. Went(n)
  BY <1>1, <1>2, <1>4
  DEF get_dqt_table, GoOn, Advance, Go, Sync, SyncAndSkip, Processed,
      ErrExit, Errors, Restarts, Finding, Went, SaveUnchanged
<1> HIDE DEF n
<1> QED
  BY <1>1, <1>2, <1>3, <1>5, WentOK

\* A quantization value.
LEMMA DqtValueOK ==
    ASSUME MarkersInv, get_dqt_value
    PROVE  StepOK
<1> DEFINE n == Need
<1>1. /\ Takes("get_dqt_value") /\ proc = "get_dqt_value"
      /\ "get_dqt_value" \notin Restarts
  BY DEF get_dqt_value, Takes, Running, Restarts
<1>2. n \in Nat /\ n = Need
  BY <1>1, NeedFacts DEF MarkersInv, LocalsInv
<1>3. "marker_list" \in DOMAIN cinfo' /\ KeepsList
  BY DEF get_dqt_value, MarkersInv, LocalsInv, KeepsList
<1>4. /\ at \in Nat /\ status \in Statuses /\ results \in Seq(Outcomes)
  BY DEF MarkersInv, PlacesInv
<1>5. Went(n)
  BY <1>1, <1>2, <1>4
  DEF get_dqt_value, GoOn, Advance, Go, Sync, SyncAndSkip, Processed,
      ErrExit, Errors, Restarts, Finding, Went, SaveUnchanged
<1> HIDE DEF n
<1> QED
  BY <1>1, <1>2, <1>3, <1>5, WentOK

\* The length of a restart interval segment.
LEMMA DriOK ==
    ASSUME MarkersInv, get_dri
    PROVE  StepOK
<1> DEFINE n == 2
<1>1. /\ Takes("get_dri") /\ proc = "get_dri"
      /\ "get_dri" \notin Restarts
  BY DEF get_dri, Takes, Running, Restarts
<1>2. n \in Nat /\ n = Need
  BY <1>1, NeedFacts DEF MarkersInv, LocalsInv
<1>3. "marker_list" \in DOMAIN cinfo' /\ KeepsList
  BY DEF get_dri, MarkersInv, LocalsInv, KeepsList, NoLocals
<1>4. /\ at \in Nat /\ status \in Statuses /\ results \in Seq(Outcomes)
  BY DEF MarkersInv, PlacesInv
<1>5. Went(n)
  BY <1>1, <1>2, <1>4
  DEF get_dri, GoOn, Advance, Go, Sync, SyncAndSkip, Processed,
      ErrExit, Errors, Restarts, Finding, Went, SaveUnchanged, NoLocals
<1> HIDE DEF n
<1> QED
  BY <1>1, <1>2, <1>3, <1>5, WentOK

\* The restart interval.
LEMMA DriValueOK ==
    ASSUME MarkersInv, get_dri_value
    PROVE  StepOK
<1> DEFINE n == 2
<1>1. /\ Takes("get_dri_value") /\ proc = "get_dri_value"
      /\ "get_dri_value" \notin Restarts
  BY DEF get_dri_value, Takes, Running, Restarts
<1>2. n \in Nat /\ n = Need
  BY <1>1, NeedFacts DEF MarkersInv, LocalsInv
<1>3. "marker_list" \in DOMAIN cinfo' /\ KeepsList
  BY DEF get_dri_value, MarkersInv, LocalsInv, KeepsList, NoLocals
<1>4. /\ at \in Nat /\ status \in Statuses /\ results \in Seq(Outcomes)
  BY DEF MarkersInv, PlacesInv
<1>5. Went(n)
  BY <1>1, <1>2, <1>4
  DEF get_dri_value, GoOn, Advance, Go, Sync, SyncAndSkip, Processed,
      ErrExit, Errors, Restarts, Finding, Went, SaveUnchanged, NoLocals
<1> HIDE DEF n
<1> QED
  BY <1>1, <1>2, <1>3, <1>5, WentOK

\* A table's counts add up to a number of values.
LEMMA DhtCountsOK ==
    ASSUME MarkersInv, get_dht_counts
    PROVE  StepOK
<1> DEFINE bits == [i \in 1 .. 16 |-> B(i + 1)]
           count == Total(bits)
<1>1. /\ Takes("get_dht_counts") /\ proc = "get_dht_counts"
      /\ "get_dht_counts" \notin Restarts
  BY DEF get_dht_counts, Takes, Running, Restarts
<1>2. Need = 17
  BY <1>1, NeedFacts
<1>3. "marker_list" \in DOMAIN cinfo' /\ KeepsList
  BY DEF get_dht_counts, MarkersInv, LocalsInv, KeepsList
<1>4. /\ at \in Nat /\ status \in Statuses /\ results \in Seq(Outcomes)
  BY DEF MarkersInv, PlacesInv
<1>5. count \in Nat
  <2> DEFINE top == 16
  <2>0. top \in Int /\ DOMAIN bits = 1..top
    OBVIOUS
  <2> HIDE DEF top
  <2>1. IsFiniteSet(1..top)
    BY <2>0, FS_Interval
  <2>2. \A i \in 1..16 : bits[i] \in Nat
    <3> TAKE i \in 1..16
    <3>1. B(i + 1) \in Nat
      BY InvFacts, ReadFacts
    <3> QED
      BY <3>1
  <2>3. \A i \in DOMAIN bits : bits[i] \in Nat
    BY <2>2
  <2> HIDE DEF bits
  <2> QED
    BY <2>0, <2>1, <2>3, TotalIsNat
<1>6. \/ ErrExit("BAD_HUFF_TABLE")
      \/ GoOn(17, 0, TRUE, "get_dht_values",
              [length |-> loc.length - 17, index |-> B(1), bits |-> bits,
               count |-> count])
  BY DEF get_dht_counts
<1> HIDE DEF bits, count
<1>7. Went(17)
  BY <1>1, <1>4, <1>5, <1>6
  DEF GoOn, Advance, Go, ErrExit, Errors, Restarts, Finding, Went,
      SaveUnchanged
<1> QED
  BY <1>1, <1>2, <1>3, <1>7, WentOK

\* The last fields of the scan header.
LEMMA SosParamsOK ==
    ASSUME MarkersInv, get_sos_params
    PROVE  StepOK
<1>1. /\ Takes("get_sos_params") /\ proc = "get_sos_params"
      /\ "get_sos_params" \notin Restarts
  BY DEF get_sos_params, Takes, Running, Restarts
<1>2. Need = 3
  BY <1>1, NeedFacts
<1>3. "marker_list" \in DOMAIN cinfo' /\ KeepsList
  BY DEF get_sos_params, MarkersInv, LocalsInv, KeepsList
<1>4. /\ at \in Nat /\ status \in Statuses /\ results \in Seq(Outcomes)
  BY DEF MarkersInv, PlacesInv
<1>5. Append(results, "SOS") \in Seq(Outcomes) /\ "idle" \in Statuses
  BY <1>4 DEF Outcomes, Statuses
<1>6. Went(3)
  BY <1>4, <1>5
  DEF get_sos_params, Sync, SyncAndSkip, Return, Went, SaveUnchanged
<1> QED
  BY <1>1, <1>2, <1>3, <1>6, WentOK

\* The length of a marker the library looks at itself.
LEMMA InterestingAppnOK ==
    ASSUME MarkersInv, get_interesting_appn
    PROVE  StepOK
<1> DEFINE length == W(1) - 2
           read == IF length < 0 THEN 0 ELSE Min({length, APPN_DATA_LEN})
<1>1. /\ Takes("get_interesting_appn") /\ proc = "get_interesting_appn"
      /\ "get_interesting_appn" \notin Restarts
  BY DEF get_interesting_appn, Takes, Running, Restarts
<1>2. Need = 2
  BY <1>1, NeedFacts
<1>3. "marker_list" \in DOMAIN cinfo' /\ KeepsList
  BY DEF get_interesting_appn, MarkersInv, LocalsInv, KeepsList
<1>4. /\ at \in Nat /\ status \in Statuses /\ results \in Seq(Outcomes)
  BY DEF MarkersInv, PlacesInv
<1>5. length \in Int /\ read \in Nat
  <2>1. W(1) \in Nat
    BY InvFacts, ReadFacts
  <2>2. length \in Int
    BY <2>1
  <2> HIDE DEF length
  <2> DEFINE top == APPN_DATA_LEN
  <2>3. top \in Nat /\ top \in Int
    BY DEF APPN_DATA_LEN
  <2> HIDE DEF top
  <2>4. Min({length, top}) = IF length <= top THEN length ELSE top
    BY <2>2, <2>3, PairFacts, Zenon
  <2> QED
    BY <2>2, <2>3, <2>4 DEF top
<1>6. GoOn(2, 0, TRUE, "appn_data",
           [count |-> read, length |-> length - read])
  BY DEF get_interesting_appn
<1> HIDE DEF length, read
<1>7. Went(2)
  BY <1>1, <1>4, <1>5, <1>6
  DEF GoOn, Advance, Go, Restarts, Finding, Went, SaveUnchanged
<1> QED
  BY <1>1, <1>2, <1>3, <1>7, WentOK

\* What the library looks at itself in a marker leaves the list alone.
LEMMA ExaminedFacts ==
    ASSUME "marker_list" \in DOMAIN cinfo, NEW data
    PROVE  /\ "marker_list" \in DOMAIN Examined(data)
           /\ Examined(data).marker_list = cinfo.marker_list
BY DEF Examined, examine_app0, examine_app14, M_APP0, M_APP14

\* What it looks at, and the rest, which is skipped.
LEMMA AppnDataOK ==
    ASSUME MarkersInv, appn_data
    PROVE  StepOK
<1> DEFINE n == loc.count
<1>1. /\ Takes("appn_data") /\ proc = "appn_data"
      /\ "appn_data" \notin Restarts
  BY DEF appn_data, Takes, Running, Restarts
<1>2. n \in Nat /\ n = Need /\ loc.length \in Int
  BY <1>1, NeedFacts DEF MarkersInv, LocalsInv
<1>3. "marker_list" \in DOMAIN cinfo' /\ KeepsList
  BY ExaminedFacts DEF appn_data, MarkersInv, LocalsInv, KeepsList
<1>4. /\ at \in Nat /\ status \in Statuses /\ results \in Seq(Outcomes)
  BY DEF MarkersInv, PlacesInv
<1>5. Went(n)
  BY <1>2, <1>4 DEF appn_data, SyncAndSkip, Processed, Went, SaveUnchanged
<1> HIDE DEF n
<1> QED
  BY <1>1, <1>2, <1>3, <1>5, WentOK

\* A marker nobody wants.
LEMMA SkipVariableOK ==
    ASSUME MarkersInv, skip_variable
    PROVE  StepOK
<1>1. /\ Takes("skip_variable") /\ proc = "skip_variable"
      /\ "skip_variable" \notin Restarts
  BY DEF skip_variable, Takes, Running, Restarts
<1>2. Need = 2
  BY <1>1, NeedFacts
<1>3. "marker_list" \in DOMAIN cinfo' /\ KeepsList
  BY DEF skip_variable, MarkersInv, LocalsInv, KeepsList
<1>4. /\ at \in Nat /\ status \in Statuses /\ results \in Seq(Outcomes)
      /\ W(1) \in Nat
  BY InvFacts, ReadFacts DEF MarkersInv, PlacesInv
<1>5. Went(2)
  BY <1>4 DEF skip_variable, SyncAndSkip, Processed, Went, SaveUnchanged
<1> QED
  BY <1>1, <1>2, <1>3, <1>5, WentOK

\* The first marker of a file.
LEMMA FirstMarkerOK ==
    ASSUME MarkersInv, first_marker
    PROVE  StepOK
<1>1. /\ proc = "first_marker" /\ cur_marker = NoMarker
      /\ UNCHANGED <<setup, file, avail, cinfo>> /\ discarded' \in Nat
  BY DEF first_marker, Running, CountUnchanged, MarkersInv, PlacesInv, SavingInv
<1>2. "marker_list" \in DOMAIN cinfo' /\ KeepsList
  BY <1>1 DEF MarkersInv, LocalsInv, KeepsList
<1>3. /\ at \in Nat /\ status \in Statuses /\ results \in Seq(Outcomes)
      /\ at >= pos
  BY DEF MarkersInv, PlacesInv
<1>4. CASE B(1) # 255 \/ B(2) # M_SOI
  <2>1. Fails
    BY <1>1, <1>2, <1>3, <1>4
    DEF first_marker, ErrExit, Fails, Same, SavingUnchanged, Statuses, Errors
  <2> QED
    BY <2>1, FailsOK
<1>5. CASE ~(B(1) # 255 \/ B(2) # M_SOI)
  <2>1. /\ unread_marker' = B(2) /\ B(2) = 216
        /\ pos' = at + 2 /\ at' = at + 2
        /\ proc' = "read_markers" /\ SaveUnchanged
        /\ UNCHANGED <<loc, status, results>>
    BY <1>3, <1>5 DEF first_marker, Sync, SyncAndSkip, M_SOI
  <2>2. B(2) = FileByte(pos')
    BY <2>1 DEF B
  <2>3. MovesOn
    BY <1>1, <1>2, <1>3, <2>1, <2>2
    DEF MovesOn, Same, SavingUnchanged, SaveUnchanged
  <2> QED
    BY <2>3, PassesOK
<1> QED
  BY <1>4, <1>5

\* Garbage before a marker.
LEMMA SeekOK ==
    ASSUME MarkersInv, next_marker_seek
    PROVE  StepOK
<1>1. /\ proc = "next_marker" /\ cur_marker = NoMarker
      /\ UNCHANGED <<setup, file, avail, cinfo>> /\ discarded' \in Nat
      /\ unread_marker = 0 /\ (Fed => at + 1 <= avail)
  BY DEF next_marker_seek, Running, CanRead, MarkersInv, PlacesInv, SavingInv,
         FoundInv, Finding
<1>2. "marker_list" \in DOMAIN cinfo' /\ KeepsList
  BY <1>1 DEF MarkersInv, LocalsInv, KeepsList
<1>3. /\ at \in Nat /\ status \in Statuses /\ results \in Seq(Outcomes)
      /\ at >= pos
  BY DEF MarkersInv, PlacesInv
<1>4. CASE B(1) # 255
  <2>1. MovesOn
    BY <1>1, <1>2, <1>3, <1>4
    DEF next_marker_seek, Sync, SyncAndSkip, Go, SaveUnchanged, MovesOn, Same,
        SavingUnchanged
  <2> QED
    BY <2>1, PassesOK
<1>5. CASE B(1) = 255
  <2>1. ReadsOn
    BY <1>1, <1>2, <1>3, <1>5
    DEF next_marker_seek, Advance, Go, SaveUnchanged, ReadsOn, Same,
        SavingUnchanged, Restarts, Finding
  <2> QED
    BY <2>1, ReadsOK
<1> QED
  BY <1>4, <1>5

\* The byte after FF: a pad byte, a stuffed zero or a marker.
LEMMA CodeOK ==
    ASSUME MarkersInv, next_marker_code
    PROVE  StepOK
<1>1. /\ proc = "next_marker_code" /\ cur_marker = NoMarker
      /\ UNCHANGED <<setup, file, avail, cinfo>> /\ discarded' \in Nat
      /\ unread_marker = 0 /\ (Fed => at + 1 <= avail)
  BY DEF next_marker_code, CountUnchanged, Running, CanRead, MarkersInv,
         PlacesInv, SavingInv, FoundInv, Finding
<1>2. "marker_list" \in DOMAIN cinfo' /\ KeepsList
  BY <1>1 DEF next_marker_code, MarkersInv, LocalsInv, KeepsList
<1>3. /\ at \in Nat /\ status \in Statuses /\ results \in Seq(Outcomes)
      /\ at >= pos
  BY DEF MarkersInv, PlacesInv
<1>4. CASE B(1) = 255
  <2>1. ReadsOn
    BY <1>1, <1>2, <1>3, <1>4
    DEF next_marker_code, Advance, Go, SaveUnchanged, ReadsOn, Same,
        SavingUnchanged, Restarts, Finding
  <2> QED
    BY <2>1, ReadsOK
<1>5. CASE B(1) = 0
  <2>1. MovesOn
    BY <1>1, <1>2, <1>3, <1>5
    DEF next_marker_code, Sync, SyncAndSkip, Go, SaveUnchanged, MovesOn, Same,
        SavingUnchanged
  <2> QED
    BY <2>1, PassesOK
<1>6. CASE B(1) # 255 /\ B(1) # 0
  <2>1. /\ unread_marker' = B(1)
        /\ pos' = at + 1 /\ at' = at + 1
        /\ proc' = "read_markers" /\ SaveUnchanged
        /\ UNCHANGED <<loc, status, results>>
    BY <1>3, <1>6 DEF next_marker_code, Sync, SyncAndSkip
  <2>2. B(1) = FileByte(pos')
    BY <2>1 DEF B
  <2>3. B(1) \in 0..254
    <3>1. B(1) \in Nat /\ B(1) <= 255
      BY InvFacts, ReadFacts
    <3> QED
      BY <1>6, <3>1
  <2>4. MovesOn
    BY <1>1, <1>2, <1>3, <2>1, <2>2, <2>3
    DEF MovesOn, Same, SavingUnchanged, SaveUnchanged
  <2> QED
    BY <2>4, PassesOK
<1> QED
  BY <1>4, <1>5, <1>6

-----------------------------------------------------------------------------
(* read_markers.                                                           *)

\* The markers an application may have saved are no others.
LEMMA SavableFacts ==
    \A m \in Savable :
       /\ m \in Byte /\ m \in Nat /\ m # 0
       /\ m \notin {M_SOI, M_EOI, M_SOS, M_DQT, M_DHT, M_DAC, M_DRI, M_DNL,
                    M_TEM}
       /\ m \notin Rst /\ m \notin DOMAIN SofType /\ m \notin SofUnsupported
BY DEF Savable, Appn, Byte, M_COM, M_SOI, M_EOI, M_SOS, M_DQT, M_DHT, M_DAC,
       M_DRI, M_DNL, M_TEM, Rst, SofType, SofUnsupported

\* A marker to be saved gets the routine that saves, and no other does.
LEMMA RoutineFacts ==
    ASSUME NEW m
    PROVE  /\ Routine(m) \notin {"read_markers", "get_dht_values", "appn_data"}
           /\ Routine(m) \notin Finding
           /\ Routine(m) \in {"save_marker", "save_copy"} =>
                m \in Savable /\ SaveLimit(m) > 0
           /\ Routine(m) = "save_marker" => cur_marker = NoMarker
           /\ Routine(m) = "save_copy" => cur_marker # NoMarker
           /\ m \in Savable /\ SaveLimit(m) > 0 /\ cur_marker # NoMarker =>
                Routine(m) = "save_copy"
<1> DEFINE some == SaveLimit(m) > 0
<1> HIDE DEF some
<1>1. CASE m \in Savable
  <2>1. Routine(m) = IF some
                     THEN IF cur_marker = NoMarker THEN "save_marker"
                                                   ELSE "save_copy"
                     ELSE IF m \in {M_APP0, M_APP14} THEN "get_interesting_appn"
                     ELSE "skip_variable"
    <3>1. m \in Appn \union {M_COM}
      BY <1>1 DEF Savable
    <3> QED
      BY <1>1, <3>1, SavableFacts DEF Routine, some
  <2> QED
    BY <1>1, <2>1 DEF Finding, some
<1>2. CASE m \notin Savable
  <2>1. Routine(m) \in {"get_sof", "get_sos", "get_dqt", "get_dht", "get_dac",
                        "get_dri", "skip_variable", None}
    <3>1. m \notin Appn \union {M_COM}
      BY <1>2 DEF Savable
    <3> QED
      BY <3>1 DEF Routine
  <2> QED
    BY <1>2, <2>1 DEF Finding, None
<1> QED
  BY <1>1, <1>2

\* The next marker is sought, or one that was found is acted upon.
LEMMA ReadMarkersOK ==
    ASSUME MarkersInv, read_markers
    PROVE  StepOK
<1> DEFINE m == unread_marker
<1>1. /\ proc = "read_markers" /\ status = "reading" /\ at = pos
      /\ UNCHANGED <<setup, file, avail>> /\ discarded' \in Nat
      /\ pos \in Nat /\ at \in Nat
      /\ status \in Statuses /\ results \in Seq(Outcomes)
  BY DEF read_markers, Running, CountUnchanged, MarkersInv, PlacesInv, Restarts
<1>2. /\ "marker_list" \in DOMAIN cinfo
      /\ cur_marker # NoMarker => m \in Savable /\ SaveLimit(m) > 0
  BY DEF MarkersInv, LocalsInv, SavingInv
<1>3. \/ /\ m = 0
         /\ Go(IF cinfo.saw_SOI THEN "next_marker" ELSE "first_marker",
               NoLocals)
         /\ UNCHANGED <<pos, at, cinfo>> /\ SaveUnchanged
      \/ m = M_SOI /\ get_soi
      \/ /\ m = M_EOI /\ Return("EOI")
         /\ UNCHANGED <<pos, at, cinfo>> /\ SaveUnchanged
      \/ /\ m \in Rst \union {M_TEM} /\ Processed
         /\ UNCHANGED <<pos, at, cinfo>> /\ SaveUnchanged
      \/ \E code \in Errors : ErrExit(code) /\ UNCHANGED cinfo
      \/ /\ Routine(m) # None
         /\ cinfo' = IF m \in DOMAIN SofType
                     THEN [cinfo EXCEPT !.process = SofType[m]]
                     ELSE cinfo
         /\ m # 0
         /\ Go(Routine(m), Resume)
         /\ UNCHANGED <<pos, at>> /\ SaveUnchanged
  <2>1. {"SOS_NO_SOF", "SOF_UNSUPPORTED", "UNKNOWN_MARKER"} \subseteq Errors
    BY DEF Errors
  <2>2. Routine(m) = None => Routine(m) # "x"
    BY DEF None
  <2> HIDE DEF m
  <2> QED
    BY <2>1 DEF read_markers, m
<1>4. CASE /\ m = 0
           /\ Go(IF cinfo.saw_SOI THEN "next_marker" ELSE "first_marker",
                 NoLocals)
           /\ UNCHANGED <<pos, at, cinfo>> /\ SaveUnchanged
  <2>1. cur_marker = NoMarker
    BY <1>2, <1>4, SavableFacts
  <2>2. /\ proc' \in {"next_marker", "first_marker"}
        /\ UNCHANGED <<unread_marker, status, results>>
    BY <1>4 DEF Go
  <2>3. Turns
    BY <1>1, <1>2, <1>4, <2>1, <2>2
    DEF Turns, Same, KeepsList, SavingUnchanged, SaveUnchanged
  <2> QED
    BY <2>3, TurnsOK
<1>5. CASE m = M_SOI /\ get_soi
  <2>1. cur_marker = NoMarker
    BY <1>2, <1>5, SavableFacts
  <2>2. CASE cinfo.saw_SOI
    <3>1. Fails
      BY <1>1, <1>2, <1>5, <2>2
      DEF get_soi, ErrExit, Fails, Same, KeepsList, SavingUnchanged, Statuses,
          Errors
    <3> QED
      BY <3>1, FailsOK
  <2>3. CASE ~cinfo.saw_SOI
    <3>1. "marker_list" \in DOMAIN StartOfImage
          /\ StartOfImage.marker_list = cinfo.marker_list
      BY <1>2 DEF StartOfImage
    <3>2. MovesOn
      BY <1>1, <1>2, <1>5, <2>1, <2>3, <3>1
      DEF get_soi, Processed, MovesOn, Same, KeepsList, SavingUnchanged,
          SaveUnchanged
    <3> QED
      BY <3>2, PassesOK
  <2> QED
    BY <2>2, <2>3
<1>6. CASE /\ m = M_EOI /\ Return("EOI")
           /\ UNCHANGED <<pos, at, cinfo>> /\ SaveUnchanged
  <2>1. cur_marker = NoMarker
    BY <1>2, <1>6, SavableFacts
  <2>2. Append(results, "EOI") \in Seq(Outcomes) /\ "idle" \in Statuses
    BY <1>1 DEF Outcomes, Statuses
  <2>3. MovesOn
    BY <1>1, <1>2, <1>6, <2>1, <2>2
    DEF Return, MovesOn, Same, KeepsList, SavingUnchanged, SaveUnchanged
  <2> QED
    BY <2>3, PassesOK
<1>7. CASE /\ m \in Rst \union {M_TEM} /\ Processed
           /\ UNCHANGED <<pos, at, cinfo>> /\ SaveUnchanged
  <2>1. cur_marker = NoMarker
    BY <1>2, <1>7, SavableFacts
  <2>2. MovesOn
    BY <1>1, <1>2, <1>7, <2>1
    DEF Processed, MovesOn, Same, KeepsList, SavingUnchanged, SaveUnchanged
  <2> QED
    BY <2>2, PassesOK
<1>8. CASE \E code \in Errors : ErrExit(code) /\ UNCHANGED cinfo
  <2>1. Fails
    BY <1>1, <1>2, <1>8
    DEF ErrExit, Fails, Same, KeepsList, SavingUnchanged, Statuses
  <2> QED
    BY <2>1, FailsOK
<1>9. CASE /\ Routine(m) # None
           /\ cinfo' = IF m \in DOMAIN SofType
                       THEN [cinfo EXCEPT !.process = SofType[m]]
                       ELSE cinfo
           /\ m # 0
           /\ Go(Routine(m), Resume)
           /\ UNCHANGED <<pos, at>> /\ SaveUnchanged
  <2>1. proc' = Routine(m) /\ loc'.read = bytes_read
    BY <1>9 DEF Go, Resume
  <2>2. "marker_list" \in DOMAIN cinfo' /\ KeepsList
    BY <1>2, <1>9 DEF KeepsList
  <2>3. UNCHANGED <<unread_marker, status, results>>
    BY <1>9 DEF Go
  <2>4. Turns
    BY <1>1, <1>2, <1>9, <2>1, <2>2, <2>3, RoutineFacts
    DEF Turns, Same, SavingUnchanged, SaveUnchanged
  <2> QED
    BY <2>4, TurnsOK
<1> QED
  BY <1>3, <1>4, <1>5, <1>6, <1>7, <1>8, <1>9

\* A routine that lacks bytes gives up, for the next call to begin again.
LEMMA SuspendOK ==
    ASSUME MarkersInv, Suspend \/ Call
    PROVE  StepOK
<1>1. GivesUp
  BY DEF Suspend, Call, GivesUp, Same, KeepsList, SavingUnchanged, Statuses,
         MarkersInv, PlacesInv, LocalsInv
<1> QED
  BY <1>1, GivesUpOK

\* More of the file arrives.
LEMMA ArriveOK ==
    ASSUME MarkersInv, NEW n \in 1..BufferSize, Arrive(n)
    PROVE  StepOK
<1>1. /\ n \in Nat /\ BufferSize \in Nat
      /\ UNCHANGED <<setup, file, pos, at, proc, loc, unread_marker, cinfo,
                     cur_marker, bytes_read, discarded, status, results>>
      /\ avail' = avail + n /\ avail + n <= Len(file)
  BY SetupFacts, InvFacts DEF Arrive
<1>2. Fed' = Fed /\ Statuses' = Statuses /\ Outcomes' = Outcomes
  BY <1>1 DEF Fed, Statuses, Outcomes, Errors
<1>3. PlacesInv'
  BY <1>1, <1>2, InvFacts DEF MarkersInv, PlacesInv, Restarts
<1>4. /\ \A i : FileByte(i)' = FileByte(i)
      /\ FileByte(pos)' = FileByte(pos)
      /\ FileByte(pos - bytes_read - 2)' = FileByte(pos - bytes_read - 2)
      /\ FileWord(pos - bytes_read - 1)' = FileWord(pos - bytes_read - 1)
      /\ [i \in 1..bytes_read |-> FileByte(pos - bytes_read + i)]'
           = [i \in 1..bytes_read |-> FileByte(pos - bytes_read + i)]
      /\ SaveLimit(unread_marker)' = SaveLimit(unread_marker)
  BY <1>1 DEF FileByte, FileWord, EndOfFile, SaveLimit, LengthLimit
<1>5. FoundInv'
  BY <1>1, <1>4 DEF MarkersInv, FoundInv, NoMarker, Finding
<1>6. SavingInv'
  BY <1>1, <1>4 DEF MarkersInv, SavingInv, NoMarker, Note, Byte, Savable
<1>7. LocalsInv'
  BY <1>1 DEF MarkersInv, LocalsInv, Note, Byte
<1>8. GoesForward /\ SavesWhatIsWritten
  BY <1>1, SavedStays, InvFacts
  DEF MarkersInv, GoesForward, SavesWhatIsWritten, SavingUnchanged
<1> QED
  BY <1>3, <1>5, <1>6, <1>7, <1>8 DEF StepOK, MarkersInv

-----------------------------------------------------------------------------
(* save_marker.                                                            *)

\* The length and the place of a marker to be saved.
LEMMA SaveMarkerOK ==
    ASSUME MarkersInv, save_marker
    PROVE  StepOK
<1> DEFINE length == W(1) - 2
           limit  == SaveLimit(unread_marker)
           size   == Min({length, limit})
           marker == [marker |-> unread_marker, original_length |-> length,
                      data_length |-> size, data |-> << >>]
<1>1. /\ Takes("save_marker") /\ proc = "save_marker"
  BY DEF save_marker, Takes, Running
<1>2. /\ Need = 2 /\ at = pos /\ cur_marker = NoMarker
      /\ unread_marker \in Savable /\ limit > 0
      /\ FileByte(pos) = unread_marker
  <2>1. unread_marker \in Savable /\ cur_marker = NoMarker
    BY <1>1 DEF MarkersInv, SavingInv
  <2>2. unread_marker # 0
    BY <2>1, SavableFacts
  <2> QED
    BY <1>1, <2>1, <2>2, NeedFacts
    DEF MarkersInv, PlacesInv, FoundInv, SavingInv, Restarts
<1>3. /\ UNCHANGED <<setup, file, avail>> /\ discarded' \in Nat
      /\ at \in Nat /\ status \in Statuses /\ results \in Seq(Outcomes)
      /\ "marker_list" \in DOMAIN cinfo
  BY <1>1 DEF Takes, Running, CountUnchanged, MarkersInv, PlacesInv, LocalsInv
<1>4. /\ length \in Int /\ limit \in Int /\ limit > 0
      /\ FileWord(at + 1) = length + 2
      /\ unread_marker \in Nat
  <2>1. W(1) \in Nat
    BY InvFacts, ReadFacts
  <2>2. unread_marker \in Byte /\ unread_marker \in Nat
    BY <1>2, SavableFacts
  <2>3. limit \in Nat
    BY <2>2, SaveLimitFacts DEF MarkersInv, PlacesInv
  <2> QED
    BY <1>2, <2>1, <2>2, <2>3 DEF W
<1>5. \/ /\ length < 0
         /\ cinfo' = Examined(<< >>)
         /\ SyncAndSkip(2, length) /\ Processed /\ SaveUnchanged
      \/ length = 0 /\ EndMarker(2, marker) /\ bytes_read' = 0
      \/ /\ ~(length < 0) /\ length # 0
         /\ cur_marker' = marker /\ bytes_read' = 0
         /\ Sync(2) /\ Go("save_copy", [read |-> 0])
         /\ UNCHANGED cinfo
  BY DEF save_marker
<1> HIDE DEF length, limit
<1>6. size = IF length <= limit THEN length ELSE limit
  BY <1>4, PairFacts, Zenon
<1> HIDE DEF size
<1>7. CASE /\ length < 0
           /\ cinfo' = Examined(<< >>)
           /\ SyncAndSkip(2, length) /\ Processed /\ SaveUnchanged
  <2>1. "marker_list" \in DOMAIN cinfo' /\ KeepsList
    BY <1>3, <1>7, ExaminedFacts DEF KeepsList
  <2>2. MovesOn
    BY <1>2, <1>3, <1>4, <1>7, <2>1
    DEF SyncAndSkip, Processed, MovesOn, Same, SavingUnchanged, SaveUnchanged
  <2> QED
    BY <2>2, PassesOK
<1>8. CASE length = 0 /\ EndMarker(2, marker) /\ bytes_read' = 0
  <2>1. marker \in Note
    BY <1>4, <1>6, <1>8 DEF Note
  <2>2. /\ cinfo' = Saved(marker) /\ cur_marker' = NoMarker
        /\ pos' = at + 2 /\ at' = at + 2
        /\ Processed
    BY <1>3, <1>4, <1>6, <1>8 DEF EndMarker, SyncAndSkip
  <2>3. /\ "marker_list" \in DOMAIN cinfo'
        /\ cinfo'.marker_list = Append(cinfo.marker_list, marker)
    BY <1>3, <2>2, ExaminedFacts DEF Saved
  <2>4. StandsBefore(marker, pos')
    <3>1. /\ (pos' - length) - 2 = pos /\ (pos' - length) - 1 = at + 1
      BY <1>2, <1>3, <1>8, <2>2
    <3>2. marker.data_length = Min({length, SaveLimit(unread_marker)})
      BY DEF size, limit
    <3>3. marker.data
            = [i \in 1..marker.data_length |-> FileByte((pos' - length) + i)]
      BY <1>4, <1>6, <1>8
    <3>4. marker.marker = unread_marker /\ marker.original_length = length
      OBVIOUS
    <3> HIDE DEF marker
    <3> QED
      BY <1>2, <1>4, <3>1, <3>2, <3>3, <3>4 DEF StandsBefore
  <2> HIDE DEF marker
  <2>5. Ends
    BY <1>3, <1>8, <2>1, <2>2, <2>3, <2>4 DEF Ends, Same, Processed
  <2> QED
    BY <2>5, EndsOK
<1>9. CASE /\ ~(length < 0) /\ length # 0
           /\ cur_marker' = marker /\ bytes_read' = 0
           /\ Sync(2) /\ Go("save_copy", [read |-> 0])
           /\ UNCHANGED cinfo
  <2>1. /\ marker \in Note /\ marker # NoMarker /\ 0 < marker.data_length
        /\ marker.marker = unread_marker /\ marker.original_length = length
        /\ marker.data = << >>
    <3>1. unread_marker # 0
      BY <1>2, SavableFacts
    <3> QED
      BY <1>4, <1>6, <1>9, <3>1 DEF Note, NoMarker
  <2>2. /\ pos' = at + 2 /\ at' = at + 2
        /\ proc' = "save_copy" /\ loc'.read = 0
        /\ UNCHANGED <<unread_marker, status, results>>
    BY <1>3, <1>9 DEF Sync, SyncAndSkip, Go
  <2>3. /\ pos' - bytes_read' - 2 = pos /\ pos' - bytes_read' - 1 = at + 1
    BY <1>2, <1>3, <1>9, <2>2
  <2>4. marker.data_length
          = Min({marker.original_length, SaveLimit(unread_marker)})
    BY DEF size, limit
  <2>5. marker.data
          = [i \in 1..bytes_read' |-> FileByte(pos' - bytes_read' + i)]
    BY <1>9, <2>1
  <2>6. KeepsList /\ "marker_list" \in DOMAIN cinfo'
    BY <1>3, <1>9 DEF KeepsList
  <2> HIDE DEF marker
  <2>7. Saves
    BY <1>2, <1>3, <1>4, <1>9, <2>1, <2>2, <2>3, <2>4, <2>5, <2>6
    DEF Saves, Same, limit
  <2> QED
    BY <2>7, SavesOK
<1> QED
  BY <1>5, <1>7, <1>8, <1>9

\* As much as there is, of what is wanted of a marker.
LEMMA SaveCopyOK ==
    ASSUME MarkersInv, save_copy
    PROVE  StepOK
<1> DEFINE k      == bytes_read
           size   == cur_marker.data_length
           length == cur_marker.original_length
           limit  == SaveLimit(unread_marker)
           want   == size - loc.read
           there  == avail - at
           n      == IF Fed THEN Min({want, there}) ELSE want
           marker == [cur_marker EXCEPT
                        !.data = SubSeq(@, 1, loc.read) \o Bytes(n)]
<1>1. /\ Takes("save_copy") /\ proc = "save_copy"
  BY DEF save_copy, Takes, Running
<1>2. /\ Need = 1 /\ at = pos /\ cur_marker # NoMarker /\ loc.read = k
      /\ Fed => at + 1 <= avail
  BY <1>1, NeedFacts
  DEF MarkersInv, PlacesInv, SavingInv, Restarts, Takes, CanRead
<1>3. /\ UNCHANGED <<setup, file, avail>> /\ discarded' \in Nat
      /\ at \in Nat /\ pos \in Nat /\ avail \in Nat /\ Fed \in BOOLEAN
      /\ status \in Statuses /\ results \in Seq(Outcomes)
      /\ "marker_list" \in DOMAIN cinfo
  BY <1>1, InvFacts
  DEF Takes, Running, CountUnchanged, MarkersInv, PlacesInv, LocalsInv
<1>4. /\ cur_marker \in Note /\ k \in Nat /\ k < size
      /\ unread_marker = cur_marker.marker
      /\ unread_marker \in Savable /\ limit > 0
      /\ size = Min({length, limit})
      /\ FileByte(pos - k - 2) = unread_marker
      /\ FileWord(pos - k - 1) = length + 2
  BY <1>2 DEF MarkersInv, SavingInv
<1>5. size \in Nat /\ length \in Nat /\ limit \in Nat
  <2>1. unread_marker \in Byte
    BY <1>4, SavableFacts
  <2>2. limit \in Nat
    BY <2>1, SaveLimitFacts DEF MarkersInv, PlacesInv
  <2> QED
    BY <1>4, <2>2 DEF Note
<1>6. size <= length
  <2> HIDE DEF size, length, limit
  <2>1. length \in Int /\ limit \in Int
    BY <1>5
  <2>2. Min({length, limit}) = IF length <= limit THEN length ELSE limit
    BY <2>1, PairFacts, Zenon
  <2> QED
    BY <1>4, <1>5, <2>2
<1>7. n \in Nat /\ 0 < n /\ n <= want /\ want = size - k
  <2>1. want \in Int /\ there \in Int /\ want > 0 /\ (Fed => there > 0)
    BY <1>2, <1>3, <1>4, <1>5
  <2>2. want = size - k
    BY <1>2
  <2> HIDE DEF want, there
  <2>3. Min({want, there}) = IF want <= there THEN want ELSE there
    BY <2>1, PairFacts, Zenon
  <2> QED
    BY <2>1, <2>2, <2>3
<1>8. n = want \/ n # want
  OBVIOUS
<1>9. /\ n = want => EndMarker(n, marker) /\ UNCHANGED bytes_read
      /\ n # want => /\ cur_marker' = marker
                     /\ bytes_read' = loc.read + n
                     /\ Sync(n)
                     /\ Go("save_copy", [read |-> loc.read + n])
                     /\ UNCHANGED cinfo
  BY DEF save_copy
<1>10. marker = [cur_marker EXCEPT !.data = SubSeq(@, 1, k) \o Bytes(n)]
  BY <1>2
<1> HIDE DEF n, want, there, marker
<1> DEFINE d == SubSeq(cur_marker.data, 1, k) \o Bytes(n)
<1>11. /\ d \in Seq(Byte)
       /\ d = [i \in 1..(k + n) |-> FileByte(pos - k + i)]
       /\ IsPrefix(SubSeq(cur_marker.data, 1, k), d)
  BY <1>2, <1>7, CopyFacts
<1>12. /\ marker.data = d /\ marker.marker = unread_marker
       /\ marker.original_length = length /\ marker.data_length = size
  BY <1>4, <1>10 DEF Note
<1>13. marker \in Note
  <2> HIDE DEF d
  <2>1. marker = [cur_marker EXCEPT !.data = d]
    BY <1>10 DEF d
  <2> QED
    BY <1>4, <1>11, <2>1 DEF Note
<1> HIDE DEF d, size, length, limit, k
<1>14. CASE n = want
  <2>1. /\ cinfo' = Saved(marker) /\ cur_marker' = NoMarker
        /\ bytes_read' = bytes_read
        /\ pos' = at + n + (length - size) /\ at' = pos'
        /\ Processed
    BY <1>3, <1>5, <1>6, <1>7, <1>9, <1>12, <1>14 DEF EndMarker, SyncAndSkip
  <2>2. /\ "marker_list" \in DOMAIN cinfo'
        /\ cinfo'.marker_list = Append(cinfo.marker_list, marker)
    BY <1>3, <2>1, ExaminedFacts DEF Saved
  <2>3. /\ pos' - length = pos - k /\ k + n = size
        /\ pos' \in Nat /\ pos' >= at
    <3>1. /\ at = pos /\ pos \in Nat /\ k \in Nat /\ n \in Nat
          /\ n = size - k
      BY <1>2, <1>3, <1>4, <1>7, <1>14
    <3>2. pos' = at + n + (length - size)
      BY <2>1
    <3> QED
      BY <1>5, <1>6, <3>1, <3>2
  <2>4. StandsBefore(marker, pos')
    <3>1. marker.data_length
            = Min({marker.original_length, SaveLimit(marker.marker)})
      BY <1>4, <1>12 DEF limit
    <3>2. marker.data
            = [i \in 1..marker.data_length |-> FileByte(pos - k + i)]
      BY <1>11, <1>12, <2>3
    <3> QED
      BY <1>4, <1>12, <2>3, <3>1, <3>2 DEF StandsBefore
  <2>5. bytes_read \in Nat
    BY <1>4 DEF k
  <2>6. Ends
    BY <1>3, <1>13, <2>1, <2>2, <2>3, <2>4, <2>5 DEF Ends, Same, Processed
  <2> QED
    BY <2>6, EndsOK
<1>15. CASE n # want
  <2>1. /\ cur_marker' = marker /\ bytes_read' = k + n
        /\ pos' = at + n /\ at' = at + n
        /\ proc' = "save_copy" /\ loc'.read = k + n
        /\ UNCHANGED <<cinfo, unread_marker, status, results>>
    BY <1>2, <1>3, <1>7, <1>9, <1>15 DEF Sync, SyncAndSkip, Go
  <2>2. /\ pos' - bytes_read' = pos - k
        /\ bytes_read' < size /\ bytes_read' \in Nat
        /\ pos' \in Nat /\ pos' >= at
    BY <1>2, <1>3, <1>4, <1>5, <1>7, <1>15, <2>1
  <2>3. marker.data
          = [i \in 1..bytes_read' |-> FileByte(pos' - bytes_read' + i)]
    BY <1>11, <1>12, <2>1, <2>2
  <2>4. KeepsList /\ "marker_list" \in DOMAIN cinfo'
    BY <1>3, <2>1 DEF KeepsList
  <2>5. marker # NoMarker
    <3>1. unread_marker # 0
      BY <1>4, SavableFacts
    <3> QED
      BY <1>12, <3>1 DEF NoMarker
  <2>6. IsPrefix(SubSeq(cur_marker.data, 1, bytes_read), marker.data)
    BY <1>11, <1>12 DEF k
  <2>7. /\ marker.data_length
             = Min({marker.original_length, SaveLimit(unread_marker)})
        /\ FileByte(pos' - bytes_read' - 2) = unread_marker
        /\ FileWord(pos' - bytes_read' - 1) = marker.original_length + 2
        /\ unread_marker \in Savable /\ SaveLimit(unread_marker) > 0
    BY <1>4, <1>12, <2>2 DEF limit
  <2>8. Saves
    BY <1>3, <1>12, <1>13, <2>1, <2>2, <2>3, <2>4, <2>5, <2>6, <2>7
    DEF Saves, Same
  <2> QED
    BY <2>8, SavesOK
<1> QED
  BY <1>8, <1>14, <1>15

-----------------------------------------------------------------------------
(* The reader as a whole.                                                  *)

\* Nothing has been read and nothing saved.
LEMMA MarkersInvStarts ==
    ASSUME Init
    PROVE  MarkersInv
<1>1. /\ setup \in DOMAIN Setups /\ file \in Files[setup]
      /\ file \in Seq(Byte) /\ Len(file) \in Nat
  BY SetupFacts DEF Init
<1>2. PlacesInv
  BY <1>1 DEF Init, PlacesInv, Restarts, Statuses
<1>3. FoundInv /\ SavingInv
  BY DEF Init, FoundInv, SavingInv, Finding, NoMarker
<1>4. LocalsInv
  BY DEF Init, LocalsInv, InitInfo
<1> QED
  BY <1>2, <1>3, <1>4 DEF MarkersInv

\* Whatever the reader, the application or the source does.
LEMMA MarkersInvStep ==
    ASSUME MarkersInv, [Next]_vars
    PROVE  StepOK
<1>1. CASE UNCHANGED vars
  <2>1. Fails
    BY <1>1
    DEF vars, Fails, Same, KeepsList, SavingUnchanged, MarkersInv, PlacesInv,
        LocalsInv
  <2> QED
    BY <2>1, FailsOK
<1>2. CASE Call \/ Suspend
  BY <1>2, SuspendOK
<1>3. CASE \E n \in 1 .. BufferSize : Arrive(n)
  BY <1>3, ArriveOK
<1>4. CASE first_marker \/ next_marker_seek \/ next_marker_code
  BY <1>4, FirstMarkerOK, SeekOK, CodeOK
<1>5. CASE get_sof \/ get_sof_component
  BY <1>5, SofOK, SofComponentOK
<1>6. CASE get_sos \/ get_sos_component \/ get_sos_params
  BY <1>6, SosOK, SosComponentOK, SosParamsOK
<1>7. CASE get_dac \/ get_dac_pair
  BY <1>7, DacOK, DacPairOK
<1>8. CASE get_dht \/ get_dht_counts \/ get_dht_values
  BY <1>8, DhtOK, DhtCountsOK, DhtValuesOK
<1>9. CASE get_dqt \/ get_dqt_table \/ get_dqt_value
  BY <1>9, DqtOK, DqtTableOK, DqtValueOK
<1>10. CASE get_dri \/ get_dri_value
  BY <1>10, DriOK, DriValueOK
<1>11. CASE get_interesting_appn \/ appn_data \/ skip_variable
  BY <1>11, InterestingAppnOK, AppnDataOK, SkipVariableOK
<1>12. CASE save_marker \/ save_copy
  BY <1>12, SaveMarkerOK, SaveCopyOK
<1>13. CASE read_markers
  BY <1>13, ReadMarkersOK
<1> QED
  BY <1>1, <1>2, <1>3, <1>4, <1>5, <1>6, <1>7, <1>8, <1>9, <1>10, <1>11,
     <1>12, <1>13 DEF Next, Step

\* The invariant is what the property says.
LEMMA MarkersInvSays ==
    ASSUME MarkersInv
    PROVE  TypeOK /\ ReadsWhatArrived
<1>1. /\ setup \in DOMAIN Setups /\ avail \in 0..Len(file)
      /\ pos \in Nat /\ at \in Nat /\ pos <= at
      /\ unread_marker \in 0..254 /\ discarded \in Nat
      /\ status \in Statuses /\ results \in Seq(Outcomes)
      /\ Len(file) \in Nat
  BY InvFacts DEF MarkersInv, PlacesInv, FoundInv
<1>2. bytes_read \in 0..Len(cur_marker.data) \/ cur_marker = NoMarker
  <2> SUFFICES ASSUME cur_marker # NoMarker
               PROVE  bytes_read \in 0..Len(cur_marker.data)
    OBVIOUS
  <2>1. /\ bytes_read \in Nat /\ cur_marker.data \in Seq(Byte)
        /\ cur_marker.data
             = [i \in 1..bytes_read |-> FileByte(pos - bytes_read + i)]
    BY DEF MarkersInv, SavingInv, Note
  <2>2. Len(cur_marker.data) = bytes_read
    BY <2>1
  <2> QED
    BY <2>1, <2>2
<1>3. Range(results) \subseteq {"SOS", "EOI"}
  BY <1>1 DEF Range, Outcomes
<1>4. TypeOK
  BY <1>1, <1>2, <1>3 DEF TypeOK, Statuses
<1>5. ReadsWhatArrived
  <2> SUFFICES ASSUME Fed PROVE at <= Max({avail, pos})
    BY DEF ReadsWhatArrived
  <2>1. avail \in Int /\ pos \in Int
    BY <1>1
  <2>2. Max({avail, pos}) = IF avail <= pos THEN pos ELSE avail
    BY <2>1, PairFacts, Zenon
  <2>3. at <= avail \/ at = pos
    BY DEF MarkersInv, PlacesInv
  <2> QED
    BY <1>1, <2>1, <2>2, <2>3
<1> QED
  BY <1>4, <1>5

\* However a file arrives, and whatever is in it: no byte is looked at before
\* it is there, the reader never goes back behind the restart point nor over
\* what it has saved of a marker, and every marker on the list stands in the
\* file as it is on the list (fill_input_buffer, skip_variable, save_marker).
THEOREM ReadingIsFaithful == PartsSpec => ReadingKeepsItsPlace
<1> DEFINE I == part = "markers" => MarkersInv
           P == part = "markers" => TypeOK /\ ReadsWhatArrived
           Q == part = "markers" => GoesForward /\ SavesWhatIsWritten
<1>1. PartsInit => I
  BY MarkersInvStarts DEF PartsInit
<1>2. I /\ [PartsNext]_allVars => I' /\ [Q]_allVars
  <2> SUFFICES ASSUME I, [PartsNext]_allVars PROVE I' /\ Q
    OBVIOUS
  <2>1. CASE part # "markers"
    <3>1. part' = part
      BY <2>1 DEF PartsNext, allVars
    <3> QED
      BY <2>1, <3>1
  <2>2. CASE part = "markers"
    <3>1. [Next]_vars /\ part' = part
      BY <2>2 DEF PartsNext, allVars, vars, fileVars, markerVars
    <3>2. StepOK
      BY <2>2, <3>1, MarkersInvStep
    <3> QED
      BY <3>2 DEF StepOK
  <2> QED
    BY <2>1, <2>2
<1>3. I => P
  BY MarkersInvSays
<1> HIDE DEF I
<1> QED
  BY <1>1, <1>2, <1>3, PTL DEF PartsSpec, ReadingKeepsItsPlace
=============================================================================
