----------------------------- MODULE ArithCoder -----------------------------
(***************************************************************************)
(* The adaptive binary arithmetic coder of jcarith.c and jdarith.c: a scan *)
(* of restart intervals, each a sequence of decisions <<bin, bit>>, is     *)
(* coded, and then decoded from the bytes, the decoder telling a bin at a  *)
(* time.  Which bins the decisions of a block use is ArithModel's matter.  *)
(***************************************************************************)
EXTENDS Integers, Sequences, SequencesExt

CONSTANTS
  Scans,      \* sequences of intervals, that are sequences of <<bin, bit>>
  Bins,       \* the statistics bins
  FixedBin    \* the bin of probability one half, never adapted

VARIABLES
  scan,       \* the intervals to be coded
  coded,      \* <<interval, decisions of it>> that are coded
  e,          \* the encoder's registers
  out,        \* the bytes
  est,        \* the encoder's statistics: bin -> more probable symbol, index
  d,          \* the decoder's registers
  dst,        \* the decoder's statistics
  got,        \* the bits it has decoded, by intervals
  phase       \* "coding" or "decoding"

vars == <<scan, coded, e, out, est, d, dst, got, phase>>

(* jpeg_aritab: Qe, next index after the less probable symbol and after    *)
(* the more probable one, and whether the former exchanges the two.  Index *)
(* i is entry i + 1.                                                       *)
jpeg_aritab ==
  <<<<23069, 1, 1, 1>>, <<9606, 14, 2, 0>>, <<4372, 16, 3, 0>>,
    <<2059, 18, 4, 0>>, <<984, 20, 5, 0>>, <<474, 23, 6, 0>>,
    <<229, 25, 7, 0>>, <<111, 28, 8, 0>>, <<54, 30, 9, 0>>, <<26, 33, 10, 0>>,
    <<13, 35, 11, 0>>, <<6, 9, 12, 0>>, <<3, 10, 13, 0>>, <<1, 12, 13, 0>>,
    <<23167, 15, 15, 1>>, <<16165, 36, 16, 0>>, <<11506, 38, 17, 0>>,
    <<8316, 39, 18, 0>>, <<6073, 40, 19, 0>>, <<4482, 42, 20, 0>>,
    <<3311, 43, 21, 0>>, <<2465, 45, 22, 0>>, <<1839, 46, 23, 0>>,
    <<1372, 48, 24, 0>>, <<1030, 49, 25, 0>>, <<771, 51, 26, 0>>,
    <<576, 52, 27, 0>>, <<433, 54, 28, 0>>, <<324, 56, 29, 0>>,
    <<245, 57, 30, 0>>, <<183, 59, 31, 0>>, <<138, 60, 32, 0>>,
    <<104, 62, 33, 0>>, <<78, 63, 34, 0>>, <<59, 32, 35, 0>>,
    <<44, 33, 9, 0>>, <<23265, 37, 37, 1>>, <<18508, 64, 38, 0>>,
    <<14861, 65, 39, 0>>, <<12017, 67, 40, 0>>, <<9759, 68, 41, 0>>,
    <<7987, 69, 42, 0>>, <<6568, 70, 43, 0>>, <<5400, 72, 44, 0>>,
    <<4471, 73, 45, 0>>, <<3700, 74, 46, 0>>, <<3067, 75, 47, 0>>,
    <<2552, 77, 48, 0>>, <<2145, 78, 49, 0>>, <<1798, 79, 50, 0>>,
    <<1485, 48, 51, 0>>, <<1246, 50, 52, 0>>, <<1039, 50, 53, 0>>,
    <<867, 51, 54, 0>>, <<724, 52, 55, 0>>, <<604, 53, 56, 0>>,
    <<504, 54, 57, 0>>, <<420, 55, 58, 0>>, <<352, 56, 59, 0>>,
    <<293, 57, 60, 0>>, <<246, 58, 61, 0>>, <<203, 59, 62, 0>>,
    <<171, 61, 63, 0>>, <<143, 61, 32, 0>>, <<23314, 65, 65, 1>>,
    <<19716, 80, 66, 0>>, <<16684, 81, 67, 0>>, <<14296, 82, 68, 0>>,
    <<12264, 83, 69, 0>>, <<10556, 84, 70, 0>>, <<9081, 86, 71, 0>>,
    <<7903, 87, 72, 0>>, <<6825, 87, 73, 0>>, <<5966, 72, 74, 0>>,
    <<5156, 72, 75, 0>>, <<4508, 74, 76, 0>>, <<3947, 74, 77, 0>>,
    <<3409, 75, 78, 0>>, <<2998, 77, 79, 0>>, <<2624, 77, 48, 0>>,
    <<22578, 80, 81, 1>>, <<19740, 88, 82, 0>>, <<17294, 89, 83, 0>>,
    <<15325, 90, 84, 0>>, <<13550, 91, 85, 0>>, <<11950, 92, 86, 0>>,
    <<10650, 93, 87, 0>>, <<9494, 86, 71, 0>>, <<21872, 88, 89, 1>>,
    <<19625, 95, 90, 0>>, <<17625, 96, 91, 0>>, <<15906, 97, 92, 0>>,
    <<14372, 99, 93, 0>>, <<12980, 99, 94, 0>>, <<11799, 93, 86, 0>>,
    <<22184, 95, 96, 1>>, <<20294, 101, 97, 0>>, <<18405, 102, 98, 0>>,
    <<16847, 103, 99, 0>>, <<15421, 104, 100, 0>>, <<14174, 99, 93, 0>>,
    <<21041, 105, 102, 0>>, <<19471, 106, 103, 0>>, <<17977, 107, 104, 0>>,
    <<16734, 103, 99, 0>>, <<22055, 105, 106, 1>>, <<20711, 108, 107, 0>>,
    <<19333, 109, 103, 0>>, <<21911, 110, 109, 0>>, <<20559, 111, 107, 0>>,
    <<23056, 110, 111, 1>>, <<21794, 112, 109, 0>>, <<23019, 112, 111, 1>>,
    <<23069, 113, 113, 0>>>>

Qe(s) == jpeg_aritab[s.index + 1][1]
AfterLPS(s) == [index |-> jpeg_aritab[s.index + 1][2],
                mps |-> IF jpeg_aritab[s.index + 1][4] = 1
                        THEN 1 - s.mps ELSE s.mps]
AfterMPS(s) == [s EXCEPT !.index = jpeg_aritab[s.index + 1][3]]

NewStatistics ==
  [b \in Bins |-> [index |-> IF b = FixedBin THEN 113 ELSE 0, mps |-> 0]]

FF == 255
RST0 == 208
EOI == 217
Half == 32768            \* 0x8000
Zeros(n) == [i \in 1 .. n |-> 0]
FFs(n) == [i \in 1 .. 2 * n |-> IF i % 2 = 1 THEN FF ELSE 0]

Stuffed(byte) == IF byte = FF THEN <<FF, 0>> ELSE <<byte>>

(* The shifts that bring a to 0x8000 or more. *)
Shifts(a) == CHOOSE n \in 1 .. 15 : a * 2 ^ n \in Half .. 2 * Half - 1
-------------------------------------------------------------------------------
(***************************************************************************)
(* The encoder.  c is the base of the interval, a its size; the last byte  *)
(* that is not FF waits in buffer (-1: none), behind it sc bytes FF, since *)
(* a carry may still change them; zc zero bytes before them wait too, to   *)
(* be dropped if nothing but zeros follows.                                *)
(***************************************************************************)
Reset == [c |-> 0, a |-> 2 * Half, sc |-> 0, zc |-> 0, ct |-> 11,
          buffer |-> -1]

(* Registers and bytes once a carry has gone through the waiting bytes:    *)
(* the stacked FF bytes become zeros.                                      *)
Carried(w) ==
  [w EXCEPT
     !.out = IF w.e.buffer < 0 THEN @
             ELSE @ \o Zeros(w.e.zc) \o Stuffed(w.e.buffer + 1),
     !.e.zc = (IF w.e.buffer < 0 THEN @ ELSE 0) + w.e.sc,
     !.e.sc = 0]

(* The same when no carry can come any more. *)
Settled(w) ==
  LET kept == CASE w.e.buffer = 0 -> [zc |-> w.e.zc + 1, out |-> w.out]
                [] w.e.buffer > 0 ->
                     [zc |-> 0,
                      out |-> w.out \o Zeros(w.e.zc) \o <<w.e.buffer>>]
                [] OTHER -> [zc |-> w.e.zc, out |-> w.out]
  IN  IF w.e.sc = 0
      THEN [w EXCEPT !.out = kept.out, !.e.zc = kept.zc]
      ELSE [w EXCEPT !.out = kept.out \o Zeros(kept.zc) \o FFs(w.e.sc),
                     !.e.zc = 0, !.e.sc = 0]

(* Slip: one of the bits that went out stays. *)
KeptBits_OneMore(c) == c % 2 ^ 20

KeptBits(c) == c % 2 ^ 19

(* Another byte of c is ready. *)
ByteOut(w) ==
  LET temp == w.e.c \div 2 ^ 19
      next == CASE temp > FF -> [Carried(w) EXCEPT !.e.buffer = temp % 256]
                [] temp = FF -> [w EXCEPT !.e.sc = @ + 1]
                [] OTHER     -> [Settled(w) EXCEPT !.e.buffer = temp]
  IN  [next EXCEPT !.e.c = KeptBits(@), !.e.ct = @ + 8]

ShiftOut(w) ==
  LET shifted == [w EXCEPT !.e.a = 2 * @, !.e.c = 2 * @, !.e.ct = @ - 1]
  IN  IF shifted.e.ct = 0 THEN ByteOut(shifted) ELSE shifted

Renormalized(w) ==
  FoldLeft(LAMBDA x, i : ShiftOut(x), w, [i \in 1 .. Shifts(w.e.a) |-> i])

(* arith_encode.  The symbol with the smaller part of the interval gets    *)
(* the upper one, of size Qe.                                              *)
Lower(s) == [e EXCEPT !.a = @ - Qe(s)]
Upper(s) == [e EXCEPT !.a = Qe(s), !.c = @ + e.a - Qe(s)]

Encoded(s, val) ==
  LET a     == e.a - Qe(s)
      lps   == val # s.mps
      regs  == IF lps = (a >= Qe(s)) THEN Upper(s) ELSE Lower(s)
  IN
    IF ~lps /\ a >= Half
    THEN [e |-> Lower(s), out |-> out, est |-> s]
    ELSE LET w == Renormalized([e |-> regs, out |-> out])
         IN  [e |-> w.e, out |-> w.out,
              est |-> IF lps THEN AfterLPS(s) ELSE AfterMPS(s)]

(* finish_pass: the value of the interval with most trailing zeros, and    *)
(* the bytes of it down to the last that is not zero.                      *)
Shortest ==
  LET top == ((e.a - 1 + e.c) \div 2 ^ 16) * 2 ^ 16
  IN  IF top < e.c THEN top + Half ELSE top

FinalBytes(c, zc) ==
  LET high == (c \div 2 ^ 19) % 256
      low  == (c \div 2 ^ 11) % 256
  IN  IF high = 0 /\ low = 0 THEN << >>
      ELSE Zeros(zc) \o Stuffed(high)
             \o (IF low = 0 THEN << >> ELSE Stuffed(low))

Finished ==
  LET c == Shortest * 2 ^ e.ct
      w == IF c >= 2 ^ 27 THEN Carried([e |-> e, out |-> out])
           ELSE Settled([e |-> e, out |-> out])
  IN  w.out \o FinalBytes(c, w.e.zc)
-------------------------------------------------------------------------------
(***************************************************************************)
(* The decoder.                                                            *)
(***************************************************************************)
NewDecoder == [c |-> 0, a |-> 0, ct |-> -16]

Next255(pos) == CHOOSE i \in pos .. Len(out) :
                  out[i] # FF /\ \A j \in pos .. i - 1 : out[j] = FF

(* The next byte of data: zero once a marker is reached. *)
Fetched(r) ==
  IF r.unread_marker # 0 THEN [r EXCEPT !.data = 0]
  ELSE IF out[r.pos] # FF
  THEN [r EXCEPT !.data = out[r.pos], !.pos = @ + 1]
  ELSE LET i == Next255(r.pos) IN
         IF out[i] = 0 THEN [r EXCEPT !.data = FF, !.pos = i + 1]
         ELSE [r EXCEPT !.data = 0, !.pos = i + 1, !.unread_marker = out[i]]

(* One turn of the renormalization loop.  ct = -16 asks for two bytes.     *)
ShiftIn(r) ==
  IF r.ct > 0
  THEN [r EXCEPT !.ct = @ - 1, !.a = 2 * @]
  ELSE LET f    == Fetched(r)
           ct   == r.ct + 7
           late == IF ct < 0 THEN ct + 1 ELSE ct
       IN  [f EXCEPT !.c = 256 * @ + f.data, !.ct = late,
                     !.a = 2 * (IF ct = -1 THEN Half ELSE @)]

Ready ==
  IF d.a >= Half THEN d
  ELSE FoldLeft(LAMBDA x, i : ShiftIn(x), d,
                [i \in 1 .. (IF d.a = 0 THEN 2 ELSE Shifts(d.a)) |-> i])

(* arith_decode: the registers, the statistics of the bin, and the bit.    *)
Decoded(s) ==
  LET r    == Ready
      a    == r.a - Qe(s)
      cut  == a * 2 ^ r.ct
      lps  == IF r.c >= cut THEN a >= Qe(s) ELSE a < Qe(s)
  IN
    IF r.c < cut /\ a >= Half
    THEN [d |-> [r EXCEPT !.a = a], est |-> s, bit |-> s.mps]
    ELSE [d |-> IF r.c >= cut THEN [r EXCEPT !.c = @ - cut, !.a = Qe(s)]
                ELSE [r EXCEPT !.a = a],
          est |-> IF lps THEN AfterLPS(s) ELSE AfterMPS(s),
          bit |-> IF lps THEN 1 - s.mps ELSE s.mps]
-------------------------------------------------------------------------------
Init ==
  /\ scan \in Scans
  /\ coded = <<1, 0>>
  /\ e = Reset
  /\ out = << >>
  /\ est = NewStatistics
  /\ d = [pos |-> 1, unread_marker |-> 0, data |-> 0] @@ NewDecoder
  /\ dst = NewStatistics
  /\ got = << << >> >>
  /\ phase = "coding"

Interval == scan[coded[1]]

arith_encode ==
  /\ phase = "coding"
  /\ coded[2] < Len(Interval)
  /\ LET bin == Interval[coded[2] + 1][1]
         r   == Encoded(est[bin], Interval[coded[2] + 1][2])
     IN  /\ e' = r.e
         /\ out' = r.out
         /\ est' = [est EXCEPT ![bin] = r.est]
  /\ coded' = <<coded[1], coded[2] + 1>>
  /\ UNCHANGED <<scan, d, dst, got, phase>>

(* finish_pass and a restart marker between two intervals. *)
emit_restart ==
  /\ phase = "coding"
  /\ coded[2] = Len(Interval) /\ coded[1] < Len(scan)
  /\ out' = Finished \o <<FF, RST0 + ((coded[1] - 1) % 8)>>
  /\ e' = Reset
  /\ est' = NewStatistics
  /\ coded' = <<coded[1] + 1, 0>>
  /\ UNCHANGED <<scan, d, dst, got, phase>>

(* After the last one the image is complete. *)
finish_pass ==
  /\ phase = "coding"
  /\ coded[2] = Len(Interval) /\ coded[1] = Len(scan)
  /\ out' = Finished \o <<FF, EOI>>
  /\ phase' = "decoding"
  /\ UNCHANGED <<scan, coded, e, est, d, dst, got>>

Decoding == scan[Len(got)]

arith_decode ==
  /\ phase = "decoding"
  /\ Len(got[Len(got)]) < Len(Decoding)
  /\ LET n   == Len(got)
         bin == Decoding[Len(got[n]) + 1][1]
         r   == Decoded(dst[bin])
     IN  /\ d' = r.d
         /\ dst' = [dst EXCEPT ![bin] = r.est]
         /\ got' = [got EXCEPT ![n] = Append(@, r.bit)]
  /\ UNCHANGED <<scan, coded, e, out, est, phase>>

(* read_restart_marker finds the marker that was run into, or the next one *)
(* in the bytes.                                                           *)
NextMarker ==
  CHOOSE i \in d.pos .. Len(out) - 1 :
    /\ out[i] = FF /\ out[i + 1] \notin {0, FF}
    /\ \A j \in d.pos .. i - 1 : out[j] # FF \/ out[j + 1] \in {0, FF}

process_restart ==
  /\ phase = "decoding"
  /\ Len(got[Len(got)]) = Len(Decoding) /\ Len(got) < Len(scan)
  /\ d' = [pos |-> IF d.unread_marker = 0 THEN NextMarker + 2 ELSE d.pos,
           unread_marker |-> 0, data |-> 0] @@ NewDecoder
  /\ dst' = NewStatistics
  /\ got' = Append(got, << >>)
  /\ UNCHANGED <<scan, coded, e, out, est, phase>>

Next == \/ arith_encode \/ emit_restart \/ finish_pass
        \/ arith_decode \/ process_restart

Spec == Init /\ [][Next]_vars
-------------------------------------------------------------------------------
(* The registers keep to the layout the bit counts rely on: 16 bits and a  *)
(* carry below the spacer bits in the encoder, an interval and at most     *)
(* seven bits below it in the decoder, whose value lies in its interval.   *)
TypeOK ==
  /\ e.a \in Half .. 2 * Half
  /\ e.ct \in 1 .. 11
  /\ e.c + e.a <= 2 ^ (28 - e.ct)
  /\ e.buffer \in -1 .. 254
  /\ e.sc \in Nat /\ e.zc \in Nat
  /\ d.ct \in {-16} \union 0 .. 7
  /\ d.a = 0 \/ d.c < d.a * 2 ^ d.ct
  /\ \A b \in Bins : est[b].index \in 0 .. 113 /\ dst[b].index \in 0 .. 113
  /\ Range(out) \subseteq 0 .. 255

(* What was coded is what is decoded, through carries that reach back over *)
(* any run of FF bytes, exchanges of the symbols and bytes left out at the *)
(* end.                                                                    *)
RoundTrip ==
  \A i \in DOMAIN got : \A k \in DOMAIN got[i] : got[i][k] = scan[i][k][2]

(* No data byte looks like a marker: the only ones are ours, in order.     *)
OnlyOurMarkers ==
  LET places == SelectSeq([i \in DOMAIN out |-> i],
                          LAMBDA i : i < Len(out) /\ out[i] = FF
                                     /\ out[i + 1] # 0)
  IN  \A n \in DOMAIN places :
        out[places[n] + 1] =
          IF n = Len(scan) THEN EOI ELSE RST0 + ((n - 1) % 8)

(* The end of an interval is the shortest possible: no zero byte before    *)
(* its marker but a stuffed one (jcarith.c, "no trailing zero bytes,       *)
(* except for FF stuffing").                                               *)
NoTrailingZeros ==
  \A i \in 3 .. Len(out) - 1 :
    out[i] = FF /\ out[i + 1] # 0 => out[i - 1] # 0 \/ out[i - 2] = FF

(* The decoder comes to the marker by itself: at the end of an interval    *)
(* there are no data bytes left that would be reported as extraneous.      *)
NothingLeftOver ==
  phase = "decoding" /\ Len(got[Len(got)]) = Len(Decoding)
    /\ d.unread_marker = 0
      => out[d.pos] = FF /\ out[d.pos + 1] # 0
===============================================================================
