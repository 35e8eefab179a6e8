--------------------------- MODULE ProgressiveScan ---------------------------
(***************************************************************************)
(* The scans of a progressive Huffman-coded image (jchuff.c, jdhuff.c).    *)
(* Every scan of the script brings one bit, or the first bits, of a band   *)
(* of the coefficients.  Blocks that end in zeros are counted in a run     *)
(* that goes out before the next code, with the correction bits of its     *)
(* blocks buffered meanwhile.  The decoder adds each scan to the           *)
(* coefficients it holds, and may have to wait in the middle of a block,   *)
(* having changed some of them.                                            *)
(*                                                                         *)
(* The image is a row of blocks of one component, in zigzag order.         *)
(***************************************************************************)
EXTENDS BitStream, Functions

CONSTANTS
  D,           \* the block size: lim_Se is D * D - 1
  RunMax,      \* the longest run of one symbol, and one more than EOBn (15)
  MaxEobRun,   \* the run that is forced out (0x7FFF)
  MaxCorrBits, \* MAX_CORR_BITS: the room for correction bits (1000)
  DcBits, DcVals, AcBits, AcVals,  \* the Huffman tables
  Images,      \* the sequences of blocks that are compressed
  Scripts,     \* sequences of scans [Ss, Se, Ah, Al]
  Intervals    \* restart_interval

Lim == D * D - 1

\* The scans are those that validate_script lets through; the buffer holds the
\* correction bits of one block.
ScansAssumption ==
  /\ D \in 1..8 /\ RunMax \in Nat /\ MaxEobRun \in Nat \ {0}
  /\ MaxCorrBits \in Nat /\ Lim <= MaxCorrBits
  /\ \A m \in Images : m \in Seq([1..(Lim + 1) -> Int])
  /\ \A c \in Scripts :
       /\ c \in Seq([Ss : 0..Lim, Se : 0..Lim, Ah : 0..13, Al : 0..13])
       /\ c # <<>>
       /\ \A i \in DOMAIN c : c[i].Ss <= c[i].Se
                              /\ (c[i].Ss = 0 => c[i].Se = 0)

DcCodes == EncoderTable(DcBits, DcVals, Range(DcVals))
AcCodes == EncoderTable(AcBits, AcVals, Range(AcVals))
DcTable == DecoderTable(DcBits, DcVals)
AcTable == DecoderTable(AcBits, AcVals)

VARIABLES
  image, script, interval,   \* what the application asks for
  scan, phase,               \* the scan, and "gather", "encode" or "decode"
  index,                     \* the blocks that the pass has finished
  last_dc, to_go, num,       \* as in a sequential scan
  EOBRUN, BE,                \* the pending run; its buffered bits (sender)
  counts, used,              \* the symbols counted, and those emitted
  writer, file,              \* the bytes of this scan
  avail, reader,             \* what has come, and where the decoder stands
  coefs                      \* the decoder's coefficients

input == <<image, script, interval>>
pass == <<index, last_dc, to_go, num, EOBRUN, BE>>
receiver == <<avail, reader, coefs>>
vars == <<input, scan, phase, pass, counts, used, writer, file, receiver>>

s == script[scan]
ZeroBlock == [k \in 1..(Lim + 1) |-> 0]

TypeOK ==
  /\ phase \in {"gather", "encode", "decode", "done"}
  /\ scan \in 1..Len(script)
  /\ EOBRUN \in 0..MaxEobRun
  /\ Len(BE) <= MaxCorrBits
  /\ Len(writer.part) < 8
  /\ avail \in 0..Len(file)

Init ==
  /\ image \in Images /\ script \in Scripts /\ interval \in Intervals
  /\ scan = 1 /\ phase = "gather"
  /\ index = 0 /\ last_dc = 0 /\ to_go = interval /\ num = 0
  /\ EOBRUN = 0 /\ BE = <<>>
  /\ counts = <<>> /\ used = <<>> /\ writer = EmptyWriter /\ file = <<>>
  /\ avail = 0 /\ reader = NewReader
  /\ coefs = [i \in DOMAIN image |-> ZeroBlock]

\* start_pass_huff and start_pass_huff_decoder
StartPass ==
  /\ index' = 0 /\ last_dc' = 0 /\ to_go' = interval /\ num' = 0
  /\ EOBRUN' = 0 /\ BE' = <<>>
-----------------------------------------------------------------------------
(* The encoder: a record of the bits and symbols that an MCU emits.        *)

Shifted(v, Al) == v \div 2^Al
Sign(v) == IF v < 0 THEN -1 ELSE 1
Magnitude(v, Al) == Abs(v) \div 2^Al

AcSym(e, symbol, extra) ==
  [e EXCEPT !.bits = @ \o AcCodes[symbol] \o extra,
            !.names = Append(@, symbol)]
Append1(e, bits) == [e EXCEPT !.bits = @ \o bits]

\* emit_eobrun: the run as a power of two and the bits below it, and then
\* the correction bits of its blocks.
EmitEobrun(e) ==
  LET n == NBits(e.run) - 1
      sent == Append1(AcSym(e, 16 * n, BitsOf(e.run - 2^n, n)), e.corr)
  IN IF e.run = 0 THEN e ELSE [sent EXCEPT !.run = 0, !.corr = <<>>]

Restarting == interval # 0 /\ to_go = 0

\* encode_mcu_DC_first and encode_mcu_DC_refine
DcFirst(block, e) ==
  LET diff == Shifted(block[1], s.Al) - (IF Restarting THEN 0 ELSE last_dc)
  IN [e EXCEPT !.bits = @ \o DcCodes[NBits(diff)] \o Extra(diff),
               !.names = Append(@, NBits(diff))]
DcRefine(block, e) == Append1(e, <<Shifted(block[1], s.Al) % 2>>)

\* A slip: the correction bits may fill the buffer up by one bit more.
CountEobLate(e, corr) ==
  LET more == [e EXCEPT !.run = @ + 1, !.corr = @ \o corr]
      full == \/ more.run = MaxEobRun
              \/ s.Ah # 0 /\ Len(more.corr) > MaxCorrBits - D * D + 2
  IN IF full THEN EmitEobrun(more) ELSE more

\* One more block for the pending run, which goes out at its limit.
CountEob(e, corr) ==
  LET more == [e EXCEPT !.run = @ + 1, !.corr = @ \o corr]
      full == \/ more.run = MaxEobRun
              \/ s.Ah # 0 /\ Len(more.corr) > MaxCorrBits - D * D + 1
  IN IF full THEN EmitEobrun(more) ELSE more

\* The ZRLs that leave a run of r short enough.
Zrls(e, r) ==
  LET n == r \div (RunMax + 1)
  IN [e EXCEPT !.bits = @ \o FlattenSeq([i \in 1..n |-> AcCodes[16 * RunMax]]),
               !.names = @ \o [i \in 1..n |-> 16 * RunMax]]

\* A coefficient of which v is left, behind a run of t.r zeros.
FirstCoef(t, v) ==
  LET symbol == 16 * (t.r % (RunMax + 1)) + NBits(v)
  IN IF v = 0 THEN [t EXCEPT !.r = @ + 1]
     ELSE [e |-> AcSym(Zrls(EmitEobrun(t.e), t.r), symbol, Extra(v)), r |-> 0]

\* encode_mcu_AC_first: AC coefficients are divided towards zero.
AcFirst(block, e) ==
  LET v(k) == Sign(block[k + 1]) * Magnitude(block[k + 1], s.Al)
      turn[k \in (s.Ss - 1)..s.Se] ==
        IF k < s.Ss THEN [e |-> e, r |-> 0] ELSE FirstCoef(turn[k - 1], v(k))
      end == turn[s.Se]
  IN IF end.r > 0 THEN CountEob(end.e, <<>>) ELSE end.e

\* A run too long for one symbol is broken up, the correction bits so far
\* going out with its first ZRL; not so when only an end of block follows.
BreakUp(t, follows) ==
  LET zrl == Append1(AcSym(EmitEobrun(t.e), 16 * RunMax, <<>>), t.br)
  IN IF t.r > RunMax /\ follows
     THEN [e |-> Zrls(zrl, t.r - RunMax - 1), r |-> t.r % (RunMax + 1),
           br |-> <<>>]
     ELSE t

\* A coefficient with its sign bit and its magnitude m: nonzero before, it
\* adds a correction bit; newly nonzero, it is a code, and the correction bits
\* of the others passed over on the way to it follow.
RefineCoef(t, bit, m, follows) ==
  LET u == BreakUp(t, follows)
      new == AcSym(EmitEobrun(u.e), 16 * u.r + 1, <<bit>>)
  IN IF m = 0 THEN [t EXCEPT !.r = @ + 1]
     ELSE IF m > 1 THEN [u EXCEPT !.br = Append(@, m % 2)]
     ELSE [e |-> Append1(new, u.br), r |-> 0, br |-> <<>>]

\* encode_mcu_AC_refine
AcRefine(block, e) ==
  LET m(k) == Magnitude(block[k + 1], s.Al)
      bit(k) == IF block[k + 1] < 0 THEN 0 ELSE 1
      EOB == {k \in s.Ss..s.Se : m(k) = 1}
      turn[k \in (s.Ss - 1)..s.Se] ==
        IF k < s.Ss THEN [e |-> e, r |-> 0, br |-> <<>>]
        ELSE RefineCoef(turn[k - 1], bit(k), m(k), \E j \in EOB : k <= j)
      end == turn[s.Se]
  IN IF end.r > 0 \/ end.br # <<>> THEN CountEob(end.e, end.br) ELSE end.e

EncodeBlock(block, e) ==
  IF s.Ss = 0 THEN IF s.Ah = 0 THEN DcFirst(block, e) ELSE DcRefine(block, e)
              ELSE IF s.Ah = 0 THEN AcFirst(block, e) ELSE AcRefine(block, e)

Fresh == [bits |-> <<>>, names |-> <<>>, run |-> EOBRUN, corr |-> BE]

\* A pending run does not cross a restart.
AtRestart(e) == IF Restarting THEN EmitEobrun(e) ELSE e

\* What an MCU emits is counted, or written behind w.
McuEncoded(e, w) ==
  /\ EOBRUN' = e.run /\ BE' = e.corr
  /\ IF phase = "gather"
     THEN counts' = counts \o e.names /\ UNCHANGED <<used, writer>>
     ELSE /\ used' = used \o e.names /\ UNCHANGED counts
          /\ writer' = Emit(w, e.bits)

\* One MCU, with what a restart puts before it.
EncodeMcu ==
  LET before == AtRestart(Fresh)
      block == image[index + 1]
  IN /\ phase \in {"gather", "encode"} /\ index < Len(image)
     /\ index' = index + 1
     /\ last_dc' = IF s.Ss = 0 /\ s.Ah = 0 THEN Shifted(block[1], s.Al)
                                           ELSE last_dc
     /\ to_go' = IF interval = 0 THEN 0
                 ELSE (IF to_go = 0 THEN interval ELSE to_go) - 1
     /\ num' = IF Restarting THEN (num + 1) % 8 ELSE num
     /\ IF Restarting
        THEN McuEncoded(
               EncodeBlock(block, [before EXCEPT !.bits = <<>>]),
               EmitMarker(Flush(Emit(writer, before.bits)), RST0 + num))
        ELSE McuEncoded(EncodeBlock(block, before), writer)
     /\ UNCHANGED <<input, scan, phase, file, receiver>>

\* finish_pass_gather, which flushes the run into the counts, and the start
\* of the pass that writes.
FinishGather ==
  /\ phase = "gather" /\ index = Len(image)
  /\ phase' = "encode" /\ StartPass
  /\ counts' = counts \o EmitEobrun(Fresh).names
  /\ UNCHANGED <<input, scan, used, writer, file, receiver>>

\* finish_pass_huff; the marker that follows the scan stops the decoder.
FinishEncode ==
  /\ phase = "encode" /\ index = Len(image)
  /\ phase' = "decode" /\ StartPass
  /\ LET e == EmitEobrun(Fresh)
         flushed == Flush(Emit(writer, e.bits))
     IN /\ used' = used \o e.names
        /\ writer' = flushed /\ file' = EmitMarker(flushed, EOI).out
  /\ UNCHANGED <<input, scan, counts, receiver>>
-----------------------------------------------------------------------------
(* The decoder. *)

data == SubSeq(file, 1, avail)
P1 == 2^s.Al

\* The DC coefficient from the difference that v reads.
WithDc(t, v) ==
  IF v[1].ok THEN [t EXCEPT !.r = v[1], !.dc = last_dc + v[2],
                            !.block[1] = (last_dc + v[2]) * P1]
             ELSE [t EXCEPT !.r = v[1]]

GetDc(h) == Get(data, h[1], h[2])

DecodeDcFirst(t) == WithDc(t, GetDc(HuffDecode(data, DcTable, t.r)))

\* A bit is set and not added, so that doing it again is harmless.
SetBit(v, bit) == IF bit = 1 /\ (v \div P1) % 2 = 0 THEN v + P1 ELSE v

\* A DC coefficient's next bit, which r begins with.
WithDcBit(t, r) ==
  IF r.ok THEN [t EXCEPT !.r = Drop(r, 1), !.block[1] = SetBit(@, r.bits[1])]
          ELSE [t EXCEPT !.r = r]

DecodeDcRefine(t) == WithDcBit(t, Check(data, t.r, 1))

\* The length of a run, EOBn with the n bits that r begins with.
Length(r, n) ==
  IF r.ok THEN <<Drop(r, n), 2^n + Value(r.bits, n)>> ELSE <<r, 0>>
RunLength(r, n) == Length(Check(data, r, n), n)

\* A newly nonzero coefficient at index k.
Coefficient(t, k, v) ==
  [t EXCEPT !.r = v[1], !.k = k + 1,
            !.block = IF v[1].ok /\ k <= s.Se
                      THEN [@ EXCEPT ![k + 1] = v[2] * P1] ELSE @]

\* A run of blocks that starts with this one.
EndOfBand(t, eob) ==
  [t EXCEPT !.r = eob[1], !.k = s.Se + 1, !.run = eob[2] - 1]

\* What follows the symbol of h: a coefficient, ZRL, or the end of the band.
AfterFirst(t, h) ==
  LET run == h[2] \div 16
      size == h[2] % 16
  IN IF size # 0 THEN Coefficient(t, t.k + run, Get(data, h[1], size))
     ELSE IF run = RunMax
     THEN [t EXCEPT !.r = h[1], !.k = @ + run + 1]
     ELSE EndOfBand(t, RunLength(h[1], run))

FirstTurn(t) ==
  IF t.k > s.Se \/ ~t.r.ok THEN t
  ELSE AfterFirst(t, HuffDecode(data, AcTable, t.r))

DecodeAcFirst(t) ==
  LET turn[i \in 0..(s.Se - s.Ss + 1)] ==
        IF i = 0 THEN t ELSE FirstTurn(turn[i - 1])
  IN IF t.run > 0 THEN [t EXCEPT !.run = @ - 1] ELSE turn[s.Se - s.Ss + 1]

\* A correction that was made before the decoder had to wait is not made
\* again: the bit tells.
Correction(v, bit) ==
  IF bit = 1 /\ (v \div P1) % 2 = 0 THEN v + Sign(v) * P1 ELSE v

\* The coefficient at index k with the bit that r begins with.
Corrected(t, k, r) ==
  IF r.ok THEN [t EXCEPT !.r = Drop(r, 1),
                         !.block[k + 1] = Correction(@, r.bits[1])]
          ELSE [t EXCEPT !.r = r]

CorrectionTurn(t, k) ==
  IF ~t.r.ok \/ t.block[k + 1] = 0 THEN t
  ELSE Corrected(t, k, Check(data, t.r, 1))

\* Reads the correction bits of the nonzero coefficients from..to; those
\* read before the data end stay corrected.
Correct(t, from, to) ==
  LET turn[k \in (from - 1)..to] ==
        IF k < from THEN t ELSE CorrectionTurn(turn[k - 1], k)
  IN turn[to]

\* The index of the zero that a symbol with this run leads to.
Target(t, run) ==
  LET zeros == {j \in t.k..s.Se : t.block[j + 1] = 0}
      at == {j \in zeros : Cardinality({i \in zeros : i < j}) = run}
  IN IF at = {} THEN s.Se + 1 ELSE CHOOSE j \in at : TRUE

\* The zero at index k becomes v.
Renew(c, k, v) ==
  IF c.r.ok /\ v # 0 /\ k <= s.Se
  THEN [c EXCEPT !.k = k + 1, !.block[k + 1] = v, !.new = @ \cup {k}]
  ELSE [c EXCEPT !.k = k + 1]
RefineUpTo(t, k, v) == Renew(Correct(t, t.k, k - 1), k, v)
RefineTo(t, run, v) == RefineUpTo(t, Target(t, run), v)

\* A slip: what a block that has to wait has made nonzero stays so.
UndoNothing(t) == t.block

\* undoit: newly nonzero coefficients are zero again.
Undo(t) == [k \in DOMAIN t.block |-> IF k - 1 \in t.new THEN 0 ELSE t.block[k]]

\* A newly nonzero coefficient behind a run, its sign in the bit that r
\* begins with.
NewlyNonzero(t, run, r) ==
  IF r.ok THEN RefineTo([t EXCEPT !.r = Drop(r, 1)], run,
                        IF r.bits[1] = 1 THEN P1 ELSE -P1)
          ELSE [t EXCEPT !.r = r]

EndOfBlocks(t, eob) == [t EXCEPT !.r = eob[1], !.run = eob[2]]

\* One symbol: over run zeros to a zero that becomes 1 or -1, a ZRL, or the
\* end of the blocks of a run.
AfterRefine(t, h) ==
  LET run == h[2] \div 16
  IN IF ~h[1].ok THEN [t EXCEPT !.r = h[1]]
     ELSE IF h[2] % 16 # 0 THEN NewlyNonzero(t, run, Check(data, h[1], 1))
     ELSE IF run = RunMax THEN RefineTo([t EXCEPT !.r = h[1]], run, 0)
     ELSE EndOfBlocks(t, RunLength(h[1], run))

RefineTurn(t) ==
  IF t.run > 0 \/ t.k > s.Se \/ ~t.r.ok THEN t
  ELSE AfterRefine(t, HuffDecode(data, AcTable, t.r))

\* The last coefficients of a block of a run only have correction bits.
CountBlock(t) == [t EXCEPT !.run = @ - 1]
EndBlock(t) ==
  IF t.run > 0 /\ t.r.ok THEN CountBlock(Correct(t, t.k, s.Se)) ELSE t
OrUndo(t) == IF t.r.ok THEN t ELSE [t EXCEPT !.block = Undo(t)]

DecodeAcRefine(t) ==
  LET turn[i \in 0..(s.Se - s.Ss + 1)] ==
        IF i = 0 THEN t ELSE RefineTurn(turn[i - 1])
  IN OrUndo(EndBlock(turn[s.Se - s.Ss + 1]))

DecodeBlock(t) ==
  IF s.Ss = 0 THEN IF s.Ah = 0 THEN DecodeDcFirst(t) ELSE DecodeDcRefine(t)
              ELSE IF s.Ah = 0 THEN DecodeAcFirst(t) ELSE DecodeAcRefine(t)

Patient(r) == [r EXCEPT !.ok = TRUE]
Decoding == phase = "decode" /\ index < Len(image)
Attempt ==
  DecodeBlock([r |-> reader, k |-> s.Ss, run |-> EOBRUN, dc |-> last_dc,
               block |-> coefs[index + 1], new |-> {}])

\* process_restart, which r is the outcome of.
Restarted(r) ==
  /\ reader' = Patient(r)
  /\ IF r.ok THEN /\ last_dc' = 0 /\ EOBRUN' = 0
                  /\ to_go' = interval /\ num' = (num + 1) % 8
             ELSE UNCHANGED <<last_dc, EOBRUN, to_go, num>>
DecodeRestart ==
  /\ Decoding /\ Restarting
  /\ Restarted(ReadRestart(data, [reader EXCEPT !.bits = <<>>], num))
  /\ UNCHANGED <<input, scan, phase, index, BE, counts, used, writer, file,
                 avail, coefs>>

\* A decode_mcu that has to wait leaves only the coefficients as it made them.
McuDecoded(t) ==
  /\ coefs' = [coefs EXCEPT ![index + 1] = t.block]
  /\ IF t.r.ok
     THEN /\ reader' = t.r /\ last_dc' = t.dc /\ EOBRUN' = t.run
          /\ index' = index + 1 /\ to_go' = to_go - 1
     ELSE UNCHANGED <<reader, last_dc, EOBRUN, index, to_go>>
DecodeMcu ==
  /\ Decoding /\ ~Restarting
  /\ McuDecoded(Attempt)
  /\ UNCHANGED <<input, scan, phase, num, BE, counts, used, writer, file, avail>>

\* More bytes come.
Arrive ==
  /\ phase = "decode" /\ avail < Len(file)
  /\ \E n \in {1, Len(file) - avail} : avail' = avail + n
  /\ UNCHANGED <<input, scan, phase, pass, counts, used, writer, file, reader,
                 coefs>>

NextScan ==
  /\ phase = "decode" /\ index = Len(image)
  /\ IF scan = Len(script) THEN phase' = "done" /\ scan' = scan
                           ELSE phase' = "gather" /\ scan' = scan + 1
  /\ StartPass
  /\ counts' = <<>> /\ used' = <<>> /\ writer' = EmptyWriter /\ file' = <<>>
  /\ avail' = 0 /\ reader' = NewReader
  /\ UNCHANGED <<input, coefs>>

Done == phase = "done" /\ UNCHANGED vars

Next ==
  \/ EncodeMcu \/ FinishGather \/ FinishEncode
  \/ DecodeRestart \/ DecodeMcu \/ Arrive \/ NextScan \/ Done

Spec == Init /\ [][Next]_vars
-----------------------------------------------------------------------------
(* What the scans promise. *)

\* A coefficient as far as its bits from Al up: the DC coefficient rounds
\* down, the others towards zero.
Precise(k, v, Al) ==
  IF k = 0 THEN Shifted(v, Al) * 2^Al ELSE Sign(v) * Magnitude(v, Al) * 2^Al

\* The scans before number n that brought index k, the last one's Al.
SoFar(k, v, n) ==
  LET scans == {i \in 1..n : k \in script[i].Ss..script[i].Se}
  IN IF scans = {} THEN 0
     ELSE Precise(k, v, script[CHOOSE i \in scans : \A j \in scans : j <= i].Al)

\* A block that a scan has finished holds its coefficients to the scan's
\* precision, one it has not reached to that of the scans before it; and a
\* block in which the decoder waits holds each to one of the two.
CoefficientsArePrecise ==
  \A i \in DOMAIN image : \A k \in 0..Lim :
    LET v == image[i][k + 1]
        now == IF phase \in {"decode", "done"} THEN scan ELSE scan - 1
        c == coefs[i][k + 1]
    IN IF phase = "done" \/ (phase = "decode" /\ i <= index)
       THEN c = SoFar(k, v, now)
       ELSE IF phase = "decode" /\ i = index + 1
       THEN c \in {SoFar(k, v, now), SoFar(k, v, now - 1)}
       ELSE c = SoFar(k, v, scan - 1)

\* A scan counts the symbols it emits, runs across blocks and their forced
\* ends included.
GatherAgrees == phase = "decode" => counts = used

\* A pending run has room for one more block, as have its correction bits.
RunsFit ==
  phase \in {"gather", "encode"} =>
    EOBRUN < MaxEobRun /\ Len(BE) + Lim <= MaxCorrBits

\* When the data of a scan have come, no block waits, and none of the data
\* were taken for missing.
NeverWaitsInVain ==
  Decoding /\ avail = Len(file) =>
    /\ IF Restarting THEN ReadRestart(data, reader, num).ok ELSE Attempt.r.ok
    /\ ~reader.short
=============================================================================
