----------------------------- MODULE BitStream -----------------------------
(***************************************************************************)
(* The entropy-coded bytes of libjpeg: how the Huffman encoders pack bits  *)
(* into bytes and stuff a zero after every FF (jchuff.c), how the decoders *)
(* fetch them again up to a marker (jdhuff.c), and how a restart marker is *)
(* read or, when another one is found, resynchronised to (jdmarker.c).     *)
(*                                                                         *)
(* A writer is the bytes written and the bits that do not fill one yet; a  *)
(* reader is how many of the bytes that have come it has read, the bits it *)
(* holds, the marker it has run into (0 for none), whether the warning of  *)
(* missing data was given, and whether it could go on.                     *)
(***************************************************************************)
EXTENDS HuffmanTables

CONSTANT MinGet   \* MIN_GET_BITS: how far the bit buffer is filled (25)

MinGetAssumption == MinGet \in Nat /\ MinGet > MaxLen

FF == 255
SOF0 == 192
RST0 == 208
EOI == 217
Ones(n) == [i \in 1..n |-> 1]
-----------------------------------------------------------------------------
(* Writing. *)

EmptyWriter == [out |-> <<>>, part |-> <<>>]

\* emit_bits of one code after the other.
Emit(w, bits) ==
  LET all == w.part \o bits
      whole == Len(all) \div 8
      byte(i) == Value(SubSeq(all, 8 * i - 7, 8 * i), 8)
      stuffed(i) == IF byte(i) = FF THEN <<FF, 0>> ELSE <<byte(i)>>
  IN [out |-> w.out \o FlattenSeq([i \in 1..whole |-> stuffed(i)]),
      part |-> SubSeq(all, 8 * whole + 1, Len(all))]

\* flush_bits: ones fill the partial byte.
Flush(w) == [Emit(w, Ones(7)) EXCEPT !.part = <<>>]

Abs(v) == IF v < 0 THEN -v ELSE v
NBits(v) == CHOOSE n \in 0..15 : Abs(v) < 2^n /\ (n > 0 => Abs(v) >= 2^(n - 1))

\* The low n bits of v, or of v - 1 when it is negative.
Extra(v) ==
  LET n == NBits(v) IN BitsOf(IF v < 0 THEN v - 1 + 2^n ELSE v, n)

EmitMarker(w, marker) == [w EXCEPT !.out = @ \o <<FF, marker>>]
-----------------------------------------------------------------------------
(* Reading: data are the bytes that have come so far. *)

NewReader ==
  [pos |-> 0, bits |-> <<>>, marker |-> 0, short |-> FALSE, ok |-> TRUE]

\* The place of the first byte after pos that is not FF, 0 if it has not come.
AfterFFs(data, pos) ==
  LET at == {i \in (pos + 1)..Len(data) : data[i] # FF}
  IN IF at = {} THEN 0 ELSE CHOOSE i \in at : \A j \in at : i <= j

\* One turn of the loop of jpeg_fill_bit_buffer.
FillByte(data, r) ==
  LET next == r.pos + 1
      end == AfterFFs(data, r.pos)
  IN IF ~r.ok \/ r.marker # 0 \/ Len(r.bits) >= MinGet THEN r
     ELSE IF end = 0 THEN [r EXCEPT !.ok = FALSE]
     ELSE IF end = next
          THEN [r EXCEPT !.bits = @ \o BitsOf(data[next], 8), !.pos = next]
     ELSE IF data[end] = 0
          THEN [r EXCEPT !.bits = @ \o Ones(8), !.pos = end]
     ELSE [r EXCEPT !.marker = data[end], !.pos = end]

\* Past a marker there are only zeros, with a warning.
Padded(r, nbits) ==
  IF r.ok /\ r.marker # 0 /\ nbits > Len(r.bits)
  THEN [r EXCEPT !.bits = @ \o [i \in 1..(MinGet - Len(@)) |-> 0],
                 !.short = TRUE]
  ELSE r

\* jpeg_fill_bit_buffer
Fill(data, r, nbits) ==
  LET turn[i \in 0..(MinGet \div 8 + 1)] ==
        IF i = 0 THEN r ELSE FillByte(data, turn[i - 1])
  IN Padded(turn[MinGet \div 8 + 1], nbits)

\* CHECK_BIT_BUFFER
Check(data, r, nbits) ==
  IF r.ok /\ Len(r.bits) < nbits THEN Fill(data, r, nbits) ELSE r

Drop(r, n) == [r EXCEPT !.bits = SubSeq(@, n + 1, Len(@))]

\* The reader with a code dropped, and the symbol d says; or r has to wait.
Decoded(r, now, d) ==
  IF now.ok THEN <<Drop(now, d[2]), d[1]>> ELSE <<[r EXCEPT !.ok = FALSE], 0>>

\* The length at which a code ends, or the first bit that is missing.
Need(tbl, bits, first) ==
  LET stop == {l \in first..(MaxLen + 1) :
                 l > Len(bits) \/ Value(bits, l) <= tbl.maxcode[l]}
  IN CHOOSE l \in stop : \A m \in stop : l <= m

SlowlyDecoded(tbl, r, now, first) ==
  Decoded(r, now, SlowDecode(tbl, now.bits, first))

\* The code of r is looked up in what r1, the filled reader, holds, or read
\* bit by bit, so that the buffer is filled again only at the first bit that
\* is missing.
LookedUp(data, tbl, r, r1) ==
  LET first == IF Len(r1.bits) < Lookahead THEN 1 ELSE Lookahead + 1
  IN IF first > 1 /\ tbl.look[Value(r1.bits, Lookahead)][1] # 0
     THEN Decoded(r, r1, Decode(tbl, r1.bits, Len(r1.bits)))
     ELSE SlowlyDecoded(tbl, r,
            Check(data, r1, Need(tbl, r1.bits, first)), first)

\* HUFF_DECODE
HuffDecode(data, tbl, r) ==
  LookedUp(data, tbl, r,
           IF Len(r.bits) < Lookahead THEN Fill(data, r, 0) ELSE r)

\* HUFF_EXTEND of the next s bits.
Extend(bits, s) ==
  LET v == Value(bits, s)
  IN IF s = 0 THEN 0 ELSE IF v < 2^(s - 1) THEN v - (2^s - 1) ELSE v

Taken(r, s) ==
  IF r.ok THEN <<Drop(r, s), Extend(r.bits, s)>> ELSE <<r, 0>>

Get(data, r, s) == Taken(Check(data, r, s), s)
-----------------------------------------------------------------------------
(* Restart markers. *)

\* next_marker: skips to FF and a byte that is neither 0 nor FF.  Where it
\* has to wait, what was skipped is skipped again from the same place.
NextMarker(data, r) ==
  LET at == {i \in (r.pos + 2)..Len(data) :
               data[i] \notin {0, FF} /\ data[i - 1] = FF}
  IN IF at = {} THEN [r EXCEPT !.ok = FALSE]
     ELSE LET i == CHOOSE i \in at : \A j \in at : i <= j
          IN [r EXCEPT !.pos = i, !.marker = data[i]]

\* A slip: any other marker is skipped.
ResyncActionPastEnd(marker, desired) ==
  IF marker \notin RST0..(RST0 + 7) THEN 2
  ELSE LET ahead == (marker - RST0 - desired) % 8
       IN IF ahead \in {1, 2} THEN 3 ELSE IF ahead \in {6, 7} THEN 2 ELSE 1

\* What jpeg_resync_to_restart makes of a marker: 1 to swallow it, 2 to read
\* on to the next one, 3 to leave it for a later interval.
ResyncAction(marker, desired) ==
  IF marker < SOF0 THEN 2
  ELSE IF marker \notin RST0..(RST0 + 7) THEN 3
  ELSE LET ahead == (marker - RST0 - desired) % 8
       IN IF ahead \in {1, 2} THEN 3 ELSE IF ahead \in {6, 7} THEN 2 ELSE 1

\* read_restart_marker with the default resync_to_restart.
ReadRestart(data, r, desired) ==
  LET r0 == IF r.marker = 0 THEN NextMarker(data, r) ELSE r
      step(q) ==
        IF q.ok /\ ResyncAction(q.marker, desired) = 2
        THEN NextMarker(data, q) ELSE q
      scan[i \in 0..Len(data)] == IF i = 0 THEN r0 ELSE step(scan[i - 1])
      end == scan[Len(data)]
  IN IF ~r0.ok THEN r0
     ELSE IF r0.marker = RST0 + desired THEN [r0 EXCEPT !.marker = 0]
     ELSE IF end.ok /\ ResyncAction(end.marker, desired) = 1
          THEN [end EXCEPT !.marker = 0]
     ELSE end
=============================================================================
