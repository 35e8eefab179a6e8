------------------------------ MODULE ImageProc ------------------------------
(***************************************************************************)
(* How the native library ImageProc decodes frames into the bitmap of the  *)
(* view: pixeltobmp, which calls processimage and copies the buffer rgb.   *)
(* The library libjpeg delivers the rows of a frame one by one; a frame    *)
(* may be damaged in its header, damaged further on, or cut short, and     *)
(* frames differ in size.  (That freeCameraMemory may come in between on   *)
(* another thread is in MjpegView.)                                        *)
(***************************************************************************)
EXTENDS Integers, Sequences

CONSTANTS
    MaxWidth, MaxHeight, \* bounds: the size of a frame
    BitmapWidth, BitmapHeight, \* the size of the view's bitmap
    MaxFrames            \* bound: frames decoded

SizesAssumption ==
    /\ MaxWidth \in Nat \ {0} /\ MaxHeight \in Nat \ {0}
    /\ BitmapWidth \in Nat \ {0} /\ BitmapHeight \in Nat \ {0}
    /\ MaxFrames \in Nat

\* A frame: whole; "header": no image can be started from it; "data": an
\* error after some rows; "cut": the data end after some rows.  Its Huffman
\* tables are the standard ones or its own.
Kinds  == {"whole", "header", "data", "cut"}
Frames == {f \in [width : 1..MaxWidth, height : 1..MaxHeight, kind : Kinds,
                  rows : 0..MaxHeight, standard : BOOLEAN] :
             IF f.kind = "whole" THEN f.rows = f.height ELSE f.rows < f.height}

\* A pixel of a frame, by the number of the frame; Junk is what nothing has
\* been written to, or what comes of decoding with other tables.
Junk == [of |-> 0, row |-> 0, column |-> 0]
Pixel(n, f, r, c) == IF f.standard THEN [of |-> n, row |-> r, column |-> c]
                     ELSE Junk

VARIABLES
    pc,         \* "idle", "rows", "copy", or "dead"
    count,      \* frames so far
    frame,      \* the frame being decoded
    rgb,        \* the buffer, <<>> for NULL; index 1 is rgb[0]
    IMG_WIDTH, IMG_HEIGHT,
    jpegbuffer, \* one row of pixels
    output_scanline, \* rows that libjpeg has delivered
    y,          \* where in rgb the next row goes
    bitmap,     \* the pixels of the view's bitmap
    fault,      \* why the process is dead
    freed       \* history: freeCameraMemory has been called

bufferVars == <<rgb, IMG_WIDTH, IMG_HEIGHT>>
rowVars    == <<jpegbuffer, output_scanline, y>>
vars == <<pc, count, frame, bufferVars, rowVars, bitmap, fault, freed>>

Size == BitmapWidth * BitmapHeight

Init ==
    /\ pc = "idle"
    /\ count = 0
    /\ frame \in {[width |-> 1, height |-> 1, kind |-> "header",
                   rows |-> 0, standard |-> TRUE]}
    /\ rgb = <<>>
    /\ IMG_WIDTH = -1 /\ IMG_HEIGHT = -1
    /\ jpegbuffer = <<>>
    /\ output_scanline = 0
    /\ y = 0
    /\ bitmap = [i \in 1..Size |-> Junk]
    /\ fault = "none"
    /\ freed = FALSE

TypeOK ==
    /\ pc \in {"idle", "rows", "copy", "dead"}
    /\ frame \in Frames
    /\ rgb # <<>> => Len(rgb) = IMG_WIDTH * IMG_HEIGHT
    /\ output_scanline \in 0..MaxHeight
    /\ DOMAIN bitmap = 1..Size
    /\ fault \in {"none", "outside", "nullCopy", "notLocked"}
    /\ pc = "dead" <=> fault # "none"

-----------------------------------------------------------------------------

Dies(why) == pc' = "dead" /\ fault' = why

\* The buffer has the size of the first frame, or the first after a free.
Allocate(f) ==
    IF rgb = <<>> \/ IMG_WIDTH = -1
    THEN /\ IMG_WIDTH' = f.width /\ IMG_HEIGHT' = f.height
         /\ rgb' = [i \in 1..(f.width * f.height) |-> Junk]
    ELSE UNCHANGED bufferVars

\* pixeltobmp calls processimage.  When no image can be started, it returns
\* by longjmp before it looks at the buffer.
processimage(f) ==
    /\ pc = "idle" /\ count < MaxFrames
    /\ count' = count + 1
    /\ frame' = f
    /\ IF f.kind = "header"
       THEN /\ pc' = "copy"
            /\ UNCHANGED <<bufferVars, rowVars>>
       ELSE /\ pc' = "rows"
            /\ Allocate(f)
            /\ jpegbuffer' = [c \in 1..f.width |-> Junk]
            /\ output_scanline' = 0
            /\ y' = 0
    /\ UNCHANGED <<bitmap, fault, freed>>

\* A slip: the last column is left out.
WriteRowShort(row) ==
    LET Columns == {c \in 1..Len(row) : c < IMG_WIDTH}
    IN  IF \E c \in Columns : y + c > Len(rgb)
        THEN Dies("outside") /\ UNCHANGED rgb
        ELSE /\ rgb' = [i \in DOMAIN rgb |->
                          IF i - y \in Columns THEN row[i - y] ELSE rgb[i]]
             /\ UNCHANGED <<pc, fault>>

\* The pixels of a row, as many as the buffer is wide, go to rgb[y...].
WriteRow(row) ==
    LET Columns == {c \in 1..Len(row) : c <= IMG_WIDTH}
    IN  IF \E c \in Columns : y + c > Len(rgb)
        THEN Dies("outside") /\ UNCHANGED rgb
        ELSE /\ rgb' = [i \in DOMAIN rgb |->
                          IF i - y \in Columns THEN row[i - y] ELSE rgb[i]]
             /\ UNCHANGED <<pc, fault>>

\* One turn of the loop.  jpeg_read_scanlines delivers a row, or exits, or
\* returns 0 without a row: the loop does not look at what it returns.
ReadScanline ==
    /\ pc = "rows" /\ output_scanline < frame.height
    /\ IF output_scanline < frame.rows
       THEN LET row == [c \in 1..frame.width |->
                          Pixel(count, frame, output_scanline, c - 1)]
            IN  /\ jpegbuffer' = row
                /\ output_scanline' = output_scanline + 1
                /\ y' = y + IMG_WIDTH
                /\ WriteRow(row)
       ELSE IF frame.kind = "data"
       THEN pc' = "copy" /\ UNCHANGED <<rgb, rowVars, fault>>
       ELSE /\ y' = y + IMG_WIDTH
            /\ UNCHANGED <<jpegbuffer, output_scanline>>
            /\ WriteRow(jpegbuffer)
    /\ UNCHANGED <<count, frame, IMG_WIDTH, IMG_HEIGHT, bitmap, freed>>

Finish ==
    /\ pc = "rows" /\ output_scanline = frame.height
    /\ pc' = "copy"
    /\ UNCHANGED <<count, frame, bufferVars, rowVars, bitmap, fault, freed>>

\* The bitmap has the size of the buffer; IMG_WIDTH is -1 before the first
\* frame.
Copyable == IMG_WIDTH = BitmapWidth /\ IMG_HEIGHT = BitmapHeight

\* The second half of pixeltobmp; lockPixels may fail, which is logged.
pixeltobmp ==
    /\ pc = "copy"
    /\ \/ /\ Copyable
          /\ \/ /\ rgb = <<>>
                /\ Dies("nullCopy")
                /\ UNCHANGED bitmap
             \/ /\ Dies("notLocked")
                /\ UNCHANGED bitmap
             \/ /\ rgb # <<>>
                /\ bitmap' = [i \in 1..Size |-> IF i \in DOMAIN rgb
                                                THEN rgb[i] ELSE Junk]
                /\ pc' = "idle"
                /\ UNCHANGED fault
       \/ /\ ~Copyable
          /\ pc' = "idle"
          /\ UNCHANGED <<bitmap, fault>>
    /\ UNCHANGED <<count, frame, bufferVars, rowVars, freed>>

\* Between two frames; IMG_WIDTH stays.
freeCameraMemory ==
    /\ pc = "idle"
    /\ rgb' = <<>>
    /\ freed' = TRUE
    /\ UNCHANGED <<pc, count, frame, IMG_WIDTH, IMG_HEIGHT, rowVars, bitmap,
                   fault>>

Done == pc = "dead" /\ UNCHANGED vars

Next ==
    \/ \E f \in Frames : processimage(f)
    \/ ReadScanline \/ Finish \/ pixeltobmp \/ freeCameraMemory \/ Done

Spec == Init /\ [][Next]_vars

-----------------------------------------------------------------------------
(* Properties.                                                             *)

\* Frames of other sizes, damaged frames and frees before it leave no trace
\* in a whole frame of the bitmap's size when it is copied: every pixel of
\* the bitmap is its own (processimage, the rows; pixeltobmp, the copy).
BitmapShowsFrame ==
    [][pixeltobmp /\ Copyable /\ pc' = "idle" /\ frame.kind = "whole"
         /\ frame.standard
         /\ frame.width = BitmapWidth /\ frame.height = BitmapHeight =>
         \A r \in 0..BitmapHeight - 1, c \in 0..BitmapWidth - 1 :
           bitmap'[r * BitmapWidth + c + 1] = Pixel(count, frame, r, c)]_vars

\* Whatever frames came, a pixel of the bitmap is where it was in its frame.
PixelsInPlace ==
    \A i \in 1..Size :
        bitmap[i] = Junk \/ i = bitmap[i].row * BitmapWidth
                                 + bitmap[i].column + 1

\* Only a frame that is cut short, or higher than the one the buffer was
\* allocated for, is written outside the buffer; and only a free followed by
\* a damaged frame makes a copy from nowhere.
FaultHasCause ==
    /\ fault = "outside" => frame.kind = "cut" \/ frame.height > IMG_HEIGHT
    /\ fault = "nullCopy" => freed /\ frame.kind = "header"

=============================================================================
