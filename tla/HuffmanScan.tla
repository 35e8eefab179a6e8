---------------------------- MODULE HuffmanScan ----------------------------
(***************************************************************************)
(* A sequential Huffman-coded scan, from the coefficients of the           *)
(* compressor to those of the decompressor: the gathering pass that counts *)
(* the symbols, the encoder (jchuff.c), a channel that may lose parts of   *)
(* the data between two restart markers, and the decoder (jdhuff.c), both  *)
(* of which can be told to wait in the middle of an MCU and start it over. *)
(*                                                                         *)
(* A block is a sequence of coefficients in zigzag order, of D * D of      *)
(* them, D from 1 to 8.  The symbols are 16 * run + size, as in the code.  *)
(***************************************************************************)
EXTENDS BitStream, Folds, Functions

CONSTANTS
  D,            \* the block size in use: lim_Se is D * D - 1
  RunMax,       \* the longest run of one symbol (15)
  Natural,      \* natural_order[]: the <<row, column>> of each zigzag index
  Membership,   \* MCU_membership[]: the component of each block of an MCU
  DcBits, DcVals, AcBits, AcVals,  \* the Huffman tables of the scan
  Pictures,     \* the sequences of MCUs that are compressed
  Intervals,    \* restart_interval, 0 for none
  BufSize,      \* the size of a destination buffer
  Rooms,        \* what is left of it at first
  Wanted,       \* the scaled sizes <<v, h>> per component, <<>> not needed
  Losses        \* the intervals that may be lost, as <<first, last>>

Se == D * D - 1
Comps == {Membership[b] : b \in DOMAIN Membership}
DcSymbols == {DcVals[i] : i \in DOMAIN DcVals}
AcSymbols == {AcVals[i] : i \in DOMAIN AcVals}
DcCodes == EncoderTable(DcBits, DcVals, DcSymbols)
AcCodes == EncoderTable(AcBits, AcVals, AcSymbols)
DcTable == DecoderTable(DcBits, DcVals)
AcTable == DecoderTable(AcBits, AcVals)

VARIABLES
  phase,      \* "gather", "encode", "channel", "decode" or "done"
  mcus, interval, waits, wanted,   \* what the application asks for
  last_dc, to_go, num,   \* last_dc_val[], restarts_to_go, next_restart_num
  index,      \* the MCUs that this pass has finished
  counts, used,  \* the symbols counted, and those emitted
  saved,      \* the encoder's bit buffer and what it has delivered
  room,       \* free_in_buffer
  file,       \* what reaches the decompressor
  lost,       \* the intervals that did not
  avail,      \* how many of its bytes have come
  reader,     \* the data source, unread_marker and bitstate
  out         \* the MCUs decoded

input == <<mcus, interval, waits, wanted>>
coder == <<counts, used, saved, room>>
decoder == <<avail, reader, out>>
vars == <<phase, input, last_dc, to_go, num, index, coder, file, lost, decoder>>

Interval(i) == IF interval = 0 THEN 0 ELSE (i - 1) \div interval

TypeOK ==
  /\ phase \in {"gather", "encode", "channel", "decode", "done"}
  /\ last_dc \in [Comps -> Int]
  /\ to_go \in Int /\ num \in 0..7
  /\ index \in 0..Len(mcus)
  /\ Len(saved.part) < 8
  /\ Range(saved.out) \subseteq 0..255 /\ Range(file) \subseteq 0..255
  /\ avail \in 0..Len(file) /\ reader.pos \in 0..avail
  /\ Len(out) <= Len(mcus)

Zeros == [c \in Comps |-> 0]

Init ==
  /\ phase = "gather"
  /\ mcus \in Pictures /\ interval \in Intervals
  /\ waits \in BOOLEAN /\ wanted \in Wanted
  /\ last_dc = Zeros /\ to_go = interval /\ num = 0 /\ index = 0
  /\ counts = <<>> /\ used = <<>>
  /\ saved = EmptyWriter /\ room \in Rooms
  /\ file = <<>> /\ lost = <<>>
  /\ avail = 0 /\ reader = NewReader /\ out = <<>>
-----------------------------------------------------------------------------
(* Symbols. *)

\* The symbol that a nonzero coefficient at k makes, after ZRLs for all of
\* the run of zeros that is too long for one symbol.
AcSymbol(block, k) ==
  LET before == {j \in 1..(k - 1) : block[j + 1] # 0}
      from == IF before = {} THEN 0 ELSE CHOOSE j \in before :
                                           \A i \in before : i <= j
      run == k - from - 1
      zrls == run \div (RunMax + 1)
  IN [i \in 1..zrls |-> <<16 * RunMax, <<>>>>]
     \o <<<<16 * (run % (RunMax + 1)) + NBits(block[k + 1]),
            Extra(block[k + 1])>>>>

\* The AC symbols of a block with the bits that follow each.
AcSymbolsOf(block) ==
  FlattenSeq([k \in 1..Se |->
    IF block[k + 1] = 0 THEN <<>> ELSE AcSymbol(block, k)])
  \o (IF Se > 0 /\ block[Se + 1] = 0 THEN <<<<0, <<>>>>>> ELSE <<>>)

\* An MCU's symbols as <<table, symbol, bits>>, from the predictions dc.
McuSymbols(mcu, dc) ==
  LET prior(b) == {a \in 1..(b - 1) : Membership[a] = Membership[b]}
      pred(b) == IF prior(b) = {} THEN dc[Membership[b]]
                 ELSE mcu[CHOOSE a \in prior(b) : \A c \in prior(b) : c <= a][1]
      diff(b) == mcu[b][1] - pred(b)
      acs(b) == AcSymbolsOf(mcu[b])
  IN FlattenSeq([b \in DOMAIN mcu |->
       <<<<"dc", NBits(diff(b)), Extra(diff(b))>>>>
       \o [i \in DOMAIN acs(b) |-> <<"ac", acs(b)[i][1], acs(b)[i][2]>>]])

LastDc(mcu, dc) ==
  [c \in Comps |->
     LET blocks == {b \in DOMAIN mcu : Membership[b] = c}
     IN mcu[CHOOSE b \in blocks : \A a \in blocks : a <= b][1]]

CodeBits(symbols) ==
  FlattenSeq([i \in DOMAIN symbols |->
    (IF symbols[i][1] = "dc" THEN DcCodes[symbols[i][2]]
                             ELSE AcCodes[symbols[i][2]]) \o symbols[i][3]])

Names(symbols) == [i \in DOMAIN symbols |-> <<symbols[i][1], symbols[i][2]>>]

Restarting == interval # 0 /\ to_go = 0
CountRestart ==
  to_go' = IF interval = 0 THEN to_go
           ELSE (IF to_go = 0 THEN interval ELSE to_go) - 1

\* Every picture has MCUs of the blocks that membership says, and the tables
\* have a code for each of their symbols: encode_mcu_huff would not go on.
PicturesAssumption ==
  /\ Intervals \subseteq Nat
  /\ \A p \in Pictures :
       /\ p \in Seq([DOMAIN Membership -> [1..(Se + 1) -> Int]]) /\ p # <<>>
       /\ \A i \in DOMAIN p :
            \A dc \in {Zeros} \cup {LastDc(p[j], Zeros) : j \in DOMAIN p} :
              CodeBits(McuSymbols(p[i], dc)) \in Seq({0, 1})
-----------------------------------------------------------------------------
(* The passes of the compressor. *)

StartPass == last_dc' = Zeros /\ to_go' = interval /\ num' = 0 /\ index' = 0

\* encode_mcu_gather
GatherMcu ==
  /\ phase = "gather" /\ index < Len(mcus)
  /\ LET dc == IF Restarting THEN Zeros ELSE last_dc
     IN /\ counts' = counts \o Names(McuSymbols(mcus[index + 1], dc))
        /\ last_dc' = LastDc(mcus[index + 1], dc)
  /\ CountRestart /\ index' = index + 1
  /\ UNCHANGED <<phase, input, num, used, saved, room, file, lost, decoder>>

StartEncoding ==
  /\ phase = "gather" /\ index = Len(mcus)
  /\ phase' = "encode" /\ StartPass
  /\ UNCHANGED <<input, coder, file, lost, decoder>>

\* What encode_mcu_huff makes of the next MCU.
NextMcu ==
  LET mcu == mcus[index + 1]
      dc == IF Restarting THEN Zeros ELSE last_dc
      from == IF Restarting THEN EmitMarker(Flush(saved), RST0 + num) ELSE saved
      symbols == McuSymbols(mcu, dc)
  IN [to |-> Emit(from, CodeBits(symbols)), names |-> Names(symbols),
      dc |-> LastDc(mcu, dc)]

\* encode_mcu_huff into a destination that waits when its buffer is full, in
\* which case nothing of the MCU counts and the application empties the
\* buffer, or into one that never waits.
EncodeMcu ==
  /\ phase = "encode" /\ index < Len(mcus)
  /\ LET next == NextMcu
         bytes == Len(next.to.out) - Len(saved.out)
     IN IF waits /\ bytes >= room
        THEN /\ room' = BufSize
             /\ UNCHANGED <<last_dc, to_go, num, index, used, saved>>
        ELSE /\ saved' = next.to /\ used' = used \o next.names
             /\ last_dc' = next.dc /\ index' = index + 1 /\ CountRestart
             /\ num' = IF Restarting THEN (num + 1) % 8 ELSE num
             /\ room' = IF waits THEN room - bytes ELSE room
  /\ UNCHANGED <<phase, input, counts, file, lost, decoder>>

\* finish_pass_huff, and the EOI that follows the last scan.
FinishEncoding ==
  /\ phase = "encode" /\ index = Len(mcus)
  /\ phase' = "channel"
  /\ saved' = Flush(saved)
  /\ file' = EmitMarker(Flush(saved), EOI).out
  /\ UNCHANGED <<input, last_dc, to_go, num, index, counts, used, room, lost,
                 decoder>>

\* The byte before interval n begins, and the one after its data.
MarkerAt(n) ==
  LET at == {i \in 2..Len(file) : file[i - 1] = FF /\ file[i] \in RST0..(RST0 + 7)}
      nth == {i \in at : Cardinality({j \in at : j < i}) = n - 1}
  IN IF n = 0 THEN 0 ELSE CHOOSE i \in nth : TRUE
LastInterval == Interval(Len(mcus))
After(n) == IF n = LastInterval THEN Len(file) - 1 ELSE MarkerAt(n + 1) - 1

\* The channel keeps the file, loses the data of some intervals in a row,
\* loses one marker, or brings an interval twice; EOI always comes.
Deliver ==
  /\ phase = "channel" /\ phase' = "decode"
  /\ \/ file' = file /\ lost' = <<>>
     \/ \E l \in Losses :
          /\ interval # 0 /\ l[2] <= LastInterval
          /\ LET from == IF l[1] = 0 THEN 0 ELSE MarkerAt(l[1]) - 2
             IN file' = SubSeq(file, 1, from)
                        \o SubSeq(file, After(l[2]), Len(file))
          /\ lost' = l
     \/ \E n \in 1..LastInterval :
          /\ file' = SubSeq(file, 1, MarkerAt(n) - 2)
                     \o SubSeq(file, MarkerAt(n) + 1, Len(file))
          /\ lost' = <<n, n>>
     \/ \E n \in 1..LastInterval :
          /\ file' = SubSeq(file, 1, After(n) - 1)
                     \o SubSeq(file, MarkerAt(n) - 1, Len(file))
          /\ lost' = <<1, 0>>
  /\ StartPass
  /\ UNCHANGED <<input, coder, decoder>>
-----------------------------------------------------------------------------
(* The decompressor. *)

\* coef_limit: the zigzag index of the far corner of what is needed, plus 1.
Limit(c) ==
  IF wanted[c] = <<>> THEN 0
  ELSE CHOOSE k \in 1..(Se + 1) :
         Natural[k] = <<wanted[c][1] - 1, wanted[c][2] - 1>>

Data == SubSeq(file, 1, avail)

\* A coefficient is stored if it is below the limit; an index past Se names a
\* position that the block does not use.
Stored(t, limit, k, v) ==
  [r |-> v[1], k |-> k + 1,
   block |-> IF t.k < limit /\ k <= Se THEN [t.block EXCEPT ![k + 1] = v[2]]
                                       ELSE t.block]

\* What follows the AC symbol of h: a run and a coefficient, ZRL, or the end.
AfterSymbol(t, limit, h) ==
  LET run == h[2] \div 16
      size == h[2] % 16
  IN IF size # 0
     THEN Stored(t, limit, t.k + run, Get(Data, h[1], size))
     ELSE [t EXCEPT !.r = h[1],
                    !.k = IF run = RunMax THEN t.k + RunMax + 1 ELSE Se + 1]

AcTurn(t, limit) ==
  IF t.k > Se \/ ~t.r.ok THEN t
  ELSE AfterSymbol(t, limit, HuffDecode(Data, AcTable, t.r))

\* The AC part of a block from index 1: the coefficients below the limit are
\* stored, also by a run that leads beyond it, the others are thrown away.
DecodeAc(r, limit, block) ==
  LET turn[i \in 0..Se] ==
        IF i = 0 THEN [r |-> r, k |-> 1, block |-> block]
        ELSE AcTurn(turn[i - 1], limit)
  IN turn[Se]

GrayBlock == [k \in 1..(Se + 1) |-> 0]
GrayMcu == [b \in DOMAIN Membership |-> GrayBlock]

\* A component that is not needed keeps its prediction.
WithBlock(t, b, dc, ac) ==
  [r |-> ac.r,
   dc |-> IF wanted[Membership[b]] = <<>> THEN t.dc
          ELSE [t.dc EXCEPT ![Membership[b]] = dc],
   mcu |-> [t.mcu EXCEPT ![b] = ac.block]]

\* A block from its DC difference v on.
AfterDc(t, b, v) ==
  LET c == Membership[b]
      dc == t.dc[c] + v[2]
      block == IF wanted[c] = <<>> THEN GrayBlock
               ELSE [GrayBlock EXCEPT ![1] = dc]
  IN IF v[1].ok THEN WithBlock(t, b, dc, DecodeAc(v[1], Limit(c), block))
     ELSE [t EXCEPT !.r = v[1]]

GetDc(h) == Get(Data, h[1], h[2])

\* One block of an MCU.
DecodeBlock(t, b) ==
  IF t.r.ok THEN AfterDc(t, b, GetDc(HuffDecode(Data, DcTable, t.r))) ELSE t

DecodeMcuBlocks(r, dc) ==
  LET turn[b \in 0..Len(Membership)] ==
        IF b = 0 THEN [r |-> r, dc |-> dc, mcu |-> GrayMcu]
        ELSE DecodeBlock(turn[b - 1], b)
  IN turn[Len(Membership)]

\* process_restart: the bits left over go, and the next interval is believed
\* to have data unless a marker stands in front of it.
ProcessRestart(r) ==
  LET read == ReadRestart(Data, [r EXCEPT !.bits = <<>>], num)
  IN IF read.ok /\ read.marker = 0 THEN [read EXCEPT !.short = FALSE] ELSE read

Patient(r) == [r EXCEPT !.ok = TRUE]

\* A restart marker is read before the MCU, and stays read when the MCU has
\* to wait.
DecodeRestart ==
  /\ phase = "decode" /\ Len(out) < Len(mcus) /\ Restarting
  /\ LET r == ProcessRestart(reader)
     IN /\ reader' = Patient(r)
        /\ IF r.ok THEN /\ last_dc' = Zeros
                        /\ to_go' = interval /\ num' = (num + 1) % 8
                   ELSE UNCHANGED <<last_dc, to_go, num>>
  /\ UNCHANGED <<phase, input, index, coder, file, lost, avail, out>>

\* decode_mcu and decode_mcu_sub: an MCU that has to wait leaves no trace; in
\* an interval known to be short the MCU stays zero.
DecodeMcu ==
  /\ phase = "decode" /\ Len(out) < Len(mcus) /\ ~Restarting
  /\ to_go' = to_go - 1
  /\ LET t == DecodeMcuBlocks(reader, last_dc)
     IN IF reader.short
        THEN out' = Append(out, GrayMcu) /\ UNCHANGED <<reader, last_dc>>
        ELSE /\ t.r.ok
             /\ out' = Append(out, t.mcu) /\ reader' = t.r /\ last_dc' = t.dc
  /\ UNCHANGED <<phase, input, num, index, coder, file, lost, avail>>

\* More bytes come.
Arrive ==
  /\ phase = "decode" /\ avail < Len(file)
  /\ \E n \in {1, Len(file) - avail} : avail' = avail + n
  /\ UNCHANGED <<phase, input, last_dc, to_go, num, index, coder, file, lost,
                 reader, out>>

FinishDecoding ==
  /\ phase = "decode" /\ Len(out) = Len(mcus)
  /\ phase' = "done"
  /\ UNCHANGED <<input, last_dc, to_go, num, index, coder, file, lost, decoder>>

Done == phase = "done" /\ UNCHANGED vars

Next ==
  \/ GatherMcu \/ StartEncoding \/ EncodeMcu \/ FinishEncoding \/ Deliver
  \/ DecodeRestart \/ DecodeMcu \/ Arrive \/ FinishDecoding \/ Done

Spec == Init /\ [][Next]_vars
-----------------------------------------------------------------------------
(* What the compressor and the decompressor promise each other. *)

\* What the decompressor should show of a coefficient: nothing of a component
\* that is not needed, and everything inside the corner that is.
Shows(mcu, seen) ==
  \A b \in DOMAIN Membership : \A k \in 1..(Se + 1) :
    LET w == wanted[Membership[b]]
    IN (w # <<>> /\ Natural[k][1] < w[1] /\ Natural[k][2] < w[2])
         => seen[b][k] = mcu[b][k]

\* Every MCU comes out as it went in, however often either side had to wait
\* and start it over, and whatever corner of its blocks is asked for.
RoundTrip ==
  lost = <<>> => \A i \in DOMAIN out : Shows(mcus[i], out[i])

\* Complete data are never taken for missing: the padding of the last byte
\* and the prefetch into the marker do not raise the warning of corrupt data.
NoFalseAlarm == lost = <<>> => ~reader.short

\* An interval that arrived whole, behind its marker, comes out right even
\* when up to two others before it are lost, a marker is, or one comes twice.
IntactIntervalsSurvive ==
  lost # <<>> /\ phase = "done" =>
    \A i \in DOMAIN out :
      Interval(i) \notin lost[1]..lost[2] => Shows(mcus[i], out[i])

\* The first pass counts exactly the symbols that the second one emits, in
\* spite of the restarts and of the MCUs that are encoded again.
GatherAgrees == phase = "channel" => counts = used

\* An FF in the file is followed by a stuffed zero or starts a marker that
\* was meant: one restart marker per interval, counted modulo 8, and EOI.
OnlyOurMarkers ==
  phase = "channel" =>
    LET at == {i \in 2..Len(file) : file[i - 1] = FF /\ file[i] # 0}
        number(i) == Cardinality({j \in at : j < i})
    IN /\ Cardinality(at) = LastInterval + 1
       /\ \A i \in at : file[i] = IF number(i) = LastInterval THEN EOI
                                  ELSE RST0 + (number(i) % 8)

\* When every byte has come, and EOI with it, no MCU and no restart waits for
\* another one, whatever was lost on the way.
NeverWaitsInVain ==
  phase = "decode" /\ avail = Len(file) /\ Len(out) < Len(mcus) =>
    IF Restarting THEN ProcessRestart(reader).ok
    ELSE reader.short \/ DecodeMcuBlocks(reader, last_dc).r.ok
=============================================================================
