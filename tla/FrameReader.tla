----------------------------- MODULE FrameReader -----------------------------
(***************************************************************************)
(* How com.camera.simplemjpeg.MjpegInputStream finds the frames in the     *)
(* bytes of a connection: readMjpegFrame, which searches for the start of  *)
(* an image, parses the header in front of it, and takes the length of the *)
(* frame from there or searches for the end of the image.                  *)
(*                                                                         *)
(* The server sends parts, each a header and a frame.  Bytes are numbers;  *)
(* Length(n) stands for the header line "Content-Length: n", as if it were *)
(* one byte long.  FRAME_MAX_LENGTH is also how far reset() reaches back   *)
(* (mark and the size of the BufferedInputStream).                         *)
(***************************************************************************)
EXTENDS Integers, Sequences, SequencesExt

CONSTANTS
    Servers,          \* for each server: the parts that it may send
    MaxParts,         \* bound: the parts of a connection
    FRAME_MAX_LENGTH

Length(n) == 1000 + n
IsLength(b) == b >= 1000

FF == 255
SOI_MARKER == <<255, 216>>
EOF_MARKER == <<255, 217>>

\* A header is text, short enough for its image to be found; a frame is an
\* image, and plain if its inside looks like no marker's beginning.
IsPart(p) ==
    /\ p.header \in Seq(Nat \ {FF})
    /\ Len(p.header) + Len(SOI_MARKER) <= FRAME_MAX_LENGTH
    /\ p.frame \in Seq(Nat)
    /\ Len(p.frame) >= Len(SOI_MARKER) + Len(EOF_MARKER)
    /\ SubSeq(p.frame, 1, 2) = SOI_MARKER
    /\ SubSeq(p.frame, Len(p.frame) - 1, Len(p.frame)) = EOF_MARKER
    /\ p.plain => \A i \in 2..Len(p.frame) - 2 : p.frame[i] # FF

FrameAssumption ==
    /\ MaxParts \in Nat /\ FRAME_MAX_LENGTH \in Nat
    /\ \A Parts \in Servers : \A p \in Parts : IsPart(p)

VARIABLES
    parts,          \* what the server sends on this connection
    stream,         \* its bytes
    pos,            \* the bytes that have been read
    mContentLength, \* the field: the length of the last frame, -1 at first
    frames,         \* the frames returned, as the positions they take up
    outcome         \* "frame", or what ended the reading

vars == <<parts, stream, pos, mContentLength, frames, outcome>>

PartBytes(p) == p.header \o p.frame

\* Where the frame of part i begins and ends in the stream.
PartEnd(i) ==
    Len(FlattenSeq([j \in 1..i |-> PartBytes(parts[j])]))
PartFrame(i) == [from |-> PartEnd(i) - Len(parts[i].frame), to |-> PartEnd(i)]

Init ==
    /\ \E Parts \in Servers :
         parts \in UNION {[1..n -> Parts] : n \in 1..MaxParts}
    /\ stream = FlattenSeq([i \in DOMAIN parts |-> PartBytes(parts[i])])
    /\ pos = 0
    /\ mContentLength = -1
    /\ frames = <<>>
    /\ outcome = "frame"

Outcomes == {"frame", "ended", "ioException", "markLost", "badLength"}

TypeOK ==
    /\ parts \in Seq(UNION Servers)
    /\ pos \in 0..Len(stream)
    /\ mContentLength \in -1..Len(stream)
    /\ \A f \in ToSet(frames) : 0 <= f.from /\ f.from <= f.to /\ f.to <= pos
    /\ outcome \in Outcomes

-----------------------------------------------------------------------------
(* The searches.  A search reads byte after byte from a position, at most  *)
(* limit of them, and answers how many it has read when the sequence is    *)
(* complete, Missing if it is not among them, AtEnd if they run out.       *)
(* Unmarked stands for a reset() that fails.                               *)

Missing  == -1
AtEnd    == -2
Unmarked == -3

\* The byte that does not match is not looked at again.
getEndOfSeqeunce(from, limit, sequence) ==
    LET seqIndex[i \in 0..limit] ==
          IF i = 0 \/ from + i > Len(stream) THEN 0
          ELSE LET last == seqIndex[i-1]
               IN  IF last = 2 \/ stream[from + i] # sequence[last + 1]
                   THEN 0
                   ELSE last + 1
        ends == {n \in 0..limit : seqIndex[n] = 2}
    IN  IF ends # {} THEN CHOOSE n \in ends : \A m \in ends : n <= m
        ELSE IF from + limit > Len(stream) THEN AtEnd ELSE Missing

\* From half the length of the last frame to one and a half of it.  The
\* field headerLen is always -1: readMjpegFrame sets a local variable of
\* that name.  Integer division rounds to zero, skipBytes does not go back.
headerLen == -1

getEndOfSeqeunceSimplified(from) ==
    LET startPos == IF mContentLength < 0 THEN 0 ELSE mContentLength \div 2
        endPos   == IF mContentLength < 0 THEN -1
                    ELSE (3 * mContentLength) \div 2
        skipped  == IF headerLen + startPos < 0 THEN 0
                    ELSE headerLen + startPos
        n        == IF endPos <= startPos THEN Missing
                    ELSE getEndOfSeqeunce(from + skipped, endPos - startPos,
                                          EOF_MARKER)
    IN  [length |-> IF n < 0 THEN n ELSE headerLen + startPos + n,
         read   |-> IF n < 0 THEN skipped + (IF endPos > startPos
                                             THEN endPos - startPos ELSE 0)
                    ELSE skipped + n]

\* Properties.load and Integer.parseInt: Missing if there is no such line.
parseContentLength(header) ==
    IF \E b \in ToSet(header) : IsLength(b)
    THEN (CHOOSE b \in ToSet(header) : IsLength(b)) - 1000
    ELSE Missing

\* A slip: the worst case does not go back to the mark.
FrameLengthUnreset(hlen) ==
    LET given == parseContentLength(SubSeq(stream, pos + 1, pos + hlen))
        near  == getEndOfSeqeunceSimplified(pos + hlen)
    IN  IF given # Missing THEN given
        ELSE IF near.length # Missing THEN near.length
        ELSE getEndOfSeqeunce(pos + hlen + near.read, FRAME_MAX_LENGTH,
                              EOF_MARKER)

\* The length of the frame behind a header of hlen bytes: the header's own;
\* else by a search near the last frame's length; else, in the worst case,
\* by a search from the mark, which counts the header's bytes too.  reset() fails
\* when more than FRAME_MAX_LENGTH bytes have been read.
FrameLength(hlen) ==
    LET given == parseContentLength(SubSeq(stream, pos + 1, pos + hlen))
        near  == getEndOfSeqeunceSimplified(pos + hlen)
    IN  IF given # Missing THEN given
        ELSE IF near.length = AtEnd THEN AtEnd
        ELSE IF hlen + near.read > FRAME_MAX_LENGTH THEN Unmarked
        ELSE IF near.length # Missing THEN near.length
        ELSE getEndOfSeqeunce(pos, FRAME_MAX_LENGTH, EOF_MARKER)

End(how) ==
    /\ outcome' = how
    /\ UNCHANGED <<parts, stream, pos, mContentLength, frames>>

HeaderLength(n) == IF n < 0 THEN n ELSE n - Len(SOI_MARKER)

\* A missing start asks for an array of length -1 (line 210), a missing end
\* for -1 bytes of the stream (line 255): neither exception is an IOException,
\* as those of a stream that ends and of a reset() that fails are.
readMjpegFrame ==
    /\ outcome = "frame"
    /\ LET hlen == HeaderLength(
                     getEndOfSeqeunce(pos, FRAME_MAX_LENGTH, SOI_MARKER))
           length == FrameLength(hlen)
           to == pos + hlen + length
       IN  CASE hlen = AtEnd -> End("ended")
             [] hlen = Missing -> End("badLength")
             [] hlen >= 0 /\ length = AtEnd -> End("ioException")
             [] hlen >= 0 /\ length = Unmarked -> End("markLost")
             [] hlen >= 0 /\ length = Missing -> End("badLength")
             [] hlen >= 0 /\ length >= 0 ->
                  IF to > Len(stream) THEN End("ioException")
                  ELSE /\ frames' = Append(frames,
                                           [from |-> pos + hlen, to |-> to])
                       /\ pos' = to
                       /\ mContentLength' = length
                       /\ UNCHANGED <<parts, stream, outcome>>

\* The connection stays closed when the reading has ended.
Closed == outcome # "frame" /\ UNCHANGED vars

Next == readMjpegFrame \/ Closed

Spec == Init /\ [][Next]_vars

-----------------------------------------------------------------------------
(* Properties.                                                             *)

\* Every header gives the length of its frame.
WithLength == \A i \in DOMAIN parts :
                 parseContentLength(parts[i].header) = Len(parts[i].frame)

\* No header does, all are equally long, a part is not longer than a search,
\* and a frame is longer than half of what was read for the one before it.
WithoutLength ==
    \A i, j \in DOMAIN parts :
        /\ parseContentLength(parts[i].header) = Missing
        /\ Len(parts[i].header) = Len(parts[j].header)
        /\ Len(PartBytes(parts[i])) <= FRAME_MAX_LENGTH
        /\ i = j + 1 => 2 * Len(parts[i].frame) > Len(PartBytes(parts[j]))

\* The bytes of a marker occur in a frame at its ends only.
PlainFrames == \A i \in DOMAIN parts : parts[i].plain

\* When the headers give the lengths, readMjpegFrame returns the frames of
\* the parts, each exactly and in order, whatever the bytes of the frames
\* are; it never fails, and says that the stream has ended when it has
\* returned them all.
FramesInOrder ==
    WithLength =>
        /\ \A k \in DOMAIN frames : frames[k] = PartFrame(k)
        /\ outcome = "ended" => Len(frames) = Len(parts)
        /\ outcome \in {"frame", "ended"}

\* When they do not, the frames are searched for, and come in order: each one
\* returned begins where that of its part does and has all of it.  It may
\* have as many bytes too many as a header has, which the worst case counts;
\* the next search begins behind them.  When the stream is said to have ended
\* no frame is missing, and there is always a length to read by: both searches
\* reach back to the mark, and the worst case finds the end of the image.
FramesAreFound ==
    WithoutLength /\ PlainFrames =>
        /\ \A k \in DOMAIN frames :
             /\ k <= Len(parts)
             /\ frames[k].from = PartFrame(k).from
             /\ frames[k].to >= PartFrame(k).to
             /\ frames[k].to <= PartFrame(k).to + Len(parts[k].header)
        /\ outcome = "ended" => Len(frames) = Len(parts)
        /\ outcome \notin {"markLost", "badLength"}

\* What is lost: the bytes too many are not there behind the last frame, and
\* the call that wants them fails.  That frame is never returned; all others
\* have been.  It happens after a header only, and to a frame that the search
\* near the length of the frame before misses: one half as long again, or the
\* only frame of the connection.
LosesOnlyTheLast ==
    WithoutLength /\ PlainFrames /\ outcome = "ioException" =>
        LET last == Len(parts)
        IN  /\ Len(frames) = last - 1
            /\ parts[last].header # <<>>
            /\ last > 1 => 2 * Len(parts[last].frame)
                             >= 3 * Len(parts[last - 1].frame) - 1
=============================================================================
