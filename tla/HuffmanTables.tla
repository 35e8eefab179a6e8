--------------------------- MODULE HuffmanTables ---------------------------
(***************************************************************************)
(* The Huffman tables of libjpeg: what the encoder (jchuff.c) and the      *)
(* decoder (jdhuff.c) derive from the counts of codes per length and the   *)
(* list of symbols that a DHT marker carries, and how one symbol is looked *)
(* up in a stream of bits.                                                 *)
(*                                                                         *)
(* Code lengths go to MaxLen (16 in the code) and the decoder's fast table *)
(* is indexed by Lookahead bits (8); both are parameters so that small     *)
(* tables reach the slow path.  A stream is a sequence of 0s and 1s, and   *)
(* the zeros that the decoder feeds itself past the end are part of it.    *)
(***************************************************************************)
EXTENDS Integers, Sequences, FiniteSets, SequencesExt

CONSTANTS MaxLen, Lookahead

LengthsAssumption ==
  MaxLen \in Nat /\ Lookahead \in Nat /\ 0 < Lookahead /\ Lookahead <= MaxLen

\* The value of the first n bits of a stream, zeros after its end.
Value(stream, n) ==
  LET bit(i) == IF i <= Len(stream) THEN stream[i] ELSE 0
      value[i \in 0..n] == IF i = 0 THEN 0 ELSE 2 * value[i - 1] + bit(i)
  IN value[n]

\* The bits of a code, the highest first.
BitsOf(code, size) == [i \in 1..size |-> (code \div 2^(size - i)) % 2]

\* A table as a marker or the optimizer gives it: bits[l] codes of length l,
\* and the symbols in the order of their codes.
HuffSizes(bits) ==
  FlattenSeq([l \in 1..MaxLen |-> [i \in 1..bits[l] |-> l]])

\* The codes: counting up, with a shift wherever the length grows.
HuffCodes(size) ==
  LET code[p \in 1..Len(size)] ==
        IF p = 1 THEN 0
                 ELSE (code[p - 1] + 1) * 2^(size[p] - size[p - 1])
  IN [p \in 1..Len(size) |-> code[p]]

\* The counts make a code tree, with the code of all ones left free.
Fits(size, code) == \A p \in 1..Len(size) : code[p] + 1 < 2^size[p]

LegalCounts(bits, huffval) ==
  LET size == HuffSizes(bits)
  IN /\ Len(size) <= Len(huffval)
     /\ Fits(size, HuffCodes(size))
-----------------------------------------------------------------------------
(* The encoder: a code and a length for every symbol, length 0 for none.   *)

\* jpeg_make_c_derived_tbl refuses symbols out of range and repeated ones.
EncoderAccepts(bits, huffval, symbols) ==
  LET n == Len(HuffSizes(bits))
  IN /\ LegalCounts(bits, huffval)
     /\ \A p \in 1..n : huffval[p] \in symbols
     /\ \A p, q \in 1..n : huffval[p] = huffval[q] => p = q

EncoderTable(bits, huffval, symbols) ==
  LET size == HuffSizes(bits)
      code == HuffCodes(size)
      at(s) == {p \in 1..Len(size) : huffval[p] = s}
  IN [s \in symbols |->
        IF at(s) = {} THEN <<>>
        ELSE LET p == CHOOSE p \in at(s) : TRUE IN BitsOf(code[p], size[p])]
-----------------------------------------------------------------------------
(* The decoder: the largest code of each length, where its symbols start,  *)
(* and the table that the next Lookahead bits index.                       *)

\* jpeg_make_d_derived_tbl does not mind a symbol with two codes.
DecoderAccepts(bits, huffval, symbols) ==
  /\ LegalCounts(bits, huffval)
  /\ \A p \in 1..Len(HuffSizes(bits)) : huffval[p] \in symbols

\* The codes of at most Lookahead bits that a value of Lookahead bits begins
\* with.
Look(size, code, v) ==
  {p \in 1..Len(size) :
     size[p] <= Lookahead /\ v \div 2^(Lookahead - size[p]) = code[p]}

\* The tables for lengths 1 to MaxLen, with the sentinel after them.
DecoderTable(bits, huffval) ==
  LET size == HuffSizes(bits)
      code == HuffCodes(size)
      last(l) == Cardinality({p \in 1..Len(size) : size[p] <= l})
  IN [maxcode |-> [l \in 1..(MaxLen + 1) |->
                     IF l = MaxLen + 1 THEN 2^(MaxLen + 4)
                     ELSE IF bits[l] = 0 THEN -1 ELSE code[last(l)]],
      valoffset |-> [l \in 1..MaxLen |->
                       IF bits[l] = 0 THEN 0
                       ELSE LET p == last(l) - bits[l] + 1 IN p - code[p]],
      look |-> [v \in 0..(2^Lookahead - 1) |->
                  LET hit == Look(size, code, v)
                  IN IF hit = {} THEN <<0, 0>>
                     ELSE LET p == CHOOSE p \in hit : TRUE
                          IN <<size[p], huffval[p]>>],
      huffval |-> huffval]

\* jpeg_huff_decode from a first guess of min_bits: the symbol and the bits
\* used; past the longest code it warns and calls the symbol 0.
SlowDecode(tbl, stream, min_bits) ==
  LET fits(l) == Value(stream, l) <= tbl.maxcode[l]
      l == CHOOSE l \in min_bits..(MaxLen + 1) :
             fits(l) /\ \A m \in min_bits..(l - 1) : ~fits(m)
  IN IF l > MaxLen THEN <<0, l>>
     ELSE <<tbl.huffval[Value(stream, l) + tbl.valoffset[l]], l>>

\* HUFF_DECODE: the fast table when Lookahead bits are at hand and it has an
\* entry, the slow path from the next length when it has none, and from one
\* bit when the data end before.
Decode(tbl, stream, left) ==
  LET look == tbl.look[Value(stream, Lookahead)]
  IN IF left < Lookahead THEN SlowDecode(tbl, stream, 1)
     ELSE IF look[1] # 0 THEN <<look[2], look[1]>>
     ELSE SlowDecode(tbl, stream, Lookahead + 1)
=============================================================================
