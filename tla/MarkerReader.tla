----------------------------- MODULE MarkerReader -----------------------------
(***************************************************************************)
(* jdmarker.c: read_markers and the routines it calls, over a data source  *)
(* that may run dry at any byte.  A routine works on a local copy of the   *)
(* input pointer (at) and moves the real one, the restart point (pos),     *)
(* only where it can begin again; when bytes are missing it returns FALSE, *)
(* forgets its locals and is called again later from the restart point,    *)
(* with whatever it had already stored still stored.                       *)
(*                                                                         *)
(* A step reads the bytes of one group of fields, the unit that is stored: *)
(* a quantization value, a component, a whole Huffman table.  A routine    *)
(* may give up before any group, with the groups before it stored; fields  *)
(* of a group that were stored before its last byte was missing are stored *)
(* again by the next attempt, before anyone looks.                         *)
(***************************************************************************)
EXTENDS Integers, Sequences, SequencesExt

CONSTANTS
  Setups, \* what an application may set up, by a name: a record of
          \* fed: TRUE when bytes arrive piecemeal and the source suspends,
          \*      FALSE: all is there, then fake EOI markers (jdatasrc.c)
          \* buffer: the bytes the suspending source can hold
          \* limit: what the application asked jpeg_save_markers for, marker
          \*        code -> bytes to save, 0 for none
  Files   \* the byte sequences the source of a setup may hold

SetupsOK ==
  \A s \in DOMAIN Setups :
    /\ Setups[s].fed \in BOOLEAN /\ Setups[s].buffer \in Nat
    /\ \A m \in 0 .. 255 : Setups[s].limit[m] \in Nat
    /\ Files[s] \subseteq Seq(0 .. 255)

M_SOI == 216
M_EOI == 217
M_SOS == 218
M_DQT == 219
M_DNL == 220
M_DRI == 221
M_DHT == 196
M_DAC == 204
M_COM == 254
M_TEM == 1
M_APP0 == 224
M_APP14 == 238
Appn == 224 .. 239
Rst == 208 .. 215

(* SOF types: <<baseline, progressive, arithmetic>>. *)
SofType == [m \in {192, 193, 194, 201, 202} |->
              <<m = 192, m \in {194, 202}, m \in {201, 202}>>]
SofUnsupported == {195, 197, 198, 199, 200, 203, 205, 206, 207}

NUM_TBLS == 4            \* NUM_QUANT_TBLS, NUM_HUFF_TBLS
NUM_ARITH_TBLS == 16
APP0_DATA_LEN == 14
APP14_DATA_LEN == 12
APPN_DATA_LEN == 14
MAX_COMPS_IN_SCAN == 4

VARIABLES
  setup,           \* the name of the application's setup, for good
  file, avail,     \* the file, and how many of its bytes have arrived
  pos, at,         \* bytes before the restart point; before the local pointer
  proc, loc,       \* the routine at work, and its locals
  unread_marker,   \* cinfo->unread_marker
  cinfo,           \* what the markers say, for the rest of the library
  cur_marker,      \* marker being saved, or NoMarker
  bytes_read,      \* data bytes of it that are saved
  discarded,       \* discarded_bytes
  warned,          \* the counts that JWRN_EXTRANEOUS_DATA reported
  status,          \* "idle", "reading", "suspended" or an error code
  results          \* what the finished calls of read_markers returned

vars == <<setup, file, avail, pos, at, proc, loc, unread_marker, cinfo,
          cur_marker,
          bytes_read, discarded, warned, status, results>>

Fed == Setups[setup].fed
BufferSize == Setups[setup].buffer
LengthLimit == Setups[setup].limit

None == "none"
NoMarker == [marker |-> 0, original_length |-> 0, data |-> << >>,
             data_length |-> 0]
NoLocals == [length |-> 0]

(***************************************************************************)
(* The source.                                                             *)
(***************************************************************************)
EndOfFile(i) == IF (i - Len(file)) % 2 = 1 THEN 255 ELSE M_EOI

FileByte(i) == IF i <= Len(file) THEN file[i] ELSE EndOfFile(i)
FileWord(i) == 256 * FileByte(i) + FileByte(i + 1)

(* The i-th byte from the local pointer on, and the 16-bit value there. *)
B(i) == FileByte(at + i)
W(i) == FileWord(at + i)
Bytes(n) == [i \in 1 .. n |-> B(i)]

CanRead(n) == Fed => at + n <= avail

(* Moves the local pointer only. *)
Advance(n) == at' = at + n /\ UNCHANGED pos

(* INPUT_SYNC after n more bytes, and skip_input_data over length more. *)
SyncAndSkip(n, length) ==
  LET end == at + n + (IF length > 0 THEN length ELSE 0)
  IN  pos' = end /\ at' = end

Sync(n) == SyncAndSkip(n, 0)

SaveUnchanged == UNCHANGED <<cur_marker, bytes_read>>
CountUnchanged == UNCHANGED <<discarded, warned>>

(* The routine goes on with another part of its work. *)
Go(part, locals) ==
  /\ proc' = part
  /\ loc' = locals
  /\ UNCHANGED <<unread_marker, status, results>>

(* The routine returned TRUE: read_markers takes the next marker. *)
Processed ==
  /\ proc' = "read_markers"
  /\ loc' = NoLocals
  /\ unread_marker' = 0
  /\ UNCHANGED <<status, results>>

Return(result) ==
  /\ proc' = "read_markers"
  /\ loc' = NoLocals
  /\ unread_marker' = 0
  /\ status' = "idle"
  /\ results' = Append(results, result)

(* ERREXIT: the object is of no use until it is aborted. *)
ErrExit(code) ==
  /\ status' = code
  /\ UNCHANGED <<pos, at, proc, loc, unread_marker, cur_marker, bytes_read,
                 results>>

Running(part) ==
  /\ status = "reading"
  /\ proc = part
  /\ UNCHANGED <<setup, file, avail>>

-------------------------------------------------------------------------------
NoJFIF == [saw |-> FALSE, version |-> <<1, 1>>, unit |-> 0,
           density |-> <<1, 1>>]
NoAdobe == [saw |-> FALSE, transform |-> 0]

NoTable == << >>
NoHuffTable == [bits |-> << >>, huffval |-> << >>]

InitInfo ==
  [saw_SOI |-> FALSE, saw_SOF |-> FALSE,
   process |-> <<FALSE, FALSE, FALSE>>,
   precision |-> 0, height |-> 0, width |-> 0, num_components |-> 0,
   comp_info |-> << >>,
   comps_in_scan |-> 0, cur_comp |-> [i \in 1 .. 4 |-> <<0, 0, 0>>],
   Ss |-> 0, Se |-> 0, Ah |-> 0, Al |-> 0,
   input_scan_number |-> 0, next_restart_num |-> 0,
   restart_interval |-> 0,
   arith_dc |-> [i \in 0 .. NUM_ARITH_TBLS - 1 |-> <<0, 1>>],
   arith_ac_K |-> [i \in 0 .. NUM_ARITH_TBLS - 1 |-> 5],
   quant |-> [n \in 0 .. NUM_TBLS - 1 |-> NoTable],
   dc_huff |-> [n \in 0 .. NUM_TBLS - 1 |-> NoHuffTable],
   ac_huff |-> [n \in 0 .. NUM_TBLS - 1 |-> NoHuffTable],
   JFIF |-> NoJFIF, Adobe |-> NoAdobe,
   marker_list |-> << >>]

Init ==
  /\ setup \in DOMAIN Setups /\ file \in Files[setup]
  /\ avail = 0
  /\ pos = 0 /\ at = 0
  /\ proc = "read_markers"
  /\ loc = NoLocals
  /\ unread_marker = 0
  /\ cinfo = InitInfo
  /\ cur_marker = NoMarker
  /\ bytes_read = 0
  /\ discarded = 0
  /\ warned = << >>
  /\ status = "idle"
  /\ results = << >>

(***************************************************************************)
(* The application: it calls read_markers (through jpeg_consume_input)     *)
(* until EOI, and feeds a suspended source.  Bytes before the restart      *)
(* point are dropped from the buffer, skipped ones never enter it.         *)
(***************************************************************************)
Call ==
  /\ status = "idle" \/ status = "suspended"
  /\ \A i \in DOMAIN results : results[i] # "EOI"
  /\ status' = "reading"
  /\ at' = pos
  /\ UNCHANGED <<setup, file, avail, pos, proc, loc, unread_marker, cinfo, cur_marker,
                 bytes_read, discarded, warned, results>>

Arrive(n) ==
  /\ Fed
  /\ status = "suspended"
  /\ avail + n <= Len(file)
  /\ avail + n - pos <= BufferSize
  /\ avail' = avail + n
  /\ UNCHANGED <<setup, file, pos, at, proc, loc, unread_marker, cinfo, cur_marker,
                 bytes_read, discarded, warned, status, results>>

-------------------------------------------------------------------------------
(***************************************************************************)
(* Finding a marker.                                                       *)
(***************************************************************************)
first_marker ==
  /\ Running("first_marker")
  /\ CanRead(2)
  /\ UNCHANGED cinfo /\ CountUnchanged
  /\ IF B(1) # 255 \/ B(2) # M_SOI
     THEN ErrExit("NO_SOI")
     ELSE /\ unread_marker' = B(2)
          /\ Sync(2)
          /\ proc' = "read_markers"
          /\ SaveUnchanged
          /\ UNCHANGED <<loc, status, results>>

(* Garbage is given up byte by byte. *)
next_marker_seek ==
  /\ Running("next_marker")
  /\ CanRead(1)
  /\ UNCHANGED <<cinfo, warned>> /\ SaveUnchanged
  /\ IF B(1) # 255
     THEN /\ discarded' = discarded + 1
          /\ Sync(1)
          /\ Go("next_marker", loc)
     ELSE /\ Advance(1)
          /\ Go("next_marker_code", loc)
          /\ UNCHANGED discarded

(* Pad bytes are no garbage; a stuffed zero is. *)
next_marker_code ==
  /\ Running("next_marker_code")
  /\ CanRead(1)
  /\ UNCHANGED cinfo /\ SaveUnchanged
  /\ CASE B(1) = 255 -> /\ Advance(1)
                        /\ Go("next_marker_code", loc)
                        /\ CountUnchanged
       [] B(1) = 0   -> /\ Sync(1)
                        /\ discarded' = discarded + 2
                        /\ Go("next_marker", loc)
                        /\ UNCHANGED warned
       [] OTHER      -> /\ Sync(1)
                        /\ unread_marker' = B(1)
                        /\ discarded' = 0
                        /\ warned' = IF discarded = 0 THEN warned
                                     ELSE Append(warned, discarded)
                        /\ proc' = "read_markers"
                        /\ UNCHANGED <<loc, status, results>>

(***************************************************************************)
(* read_markers, between two reads: take the next marker or call the       *)
(* routine that processes the one that was found.                          *)
(***************************************************************************)
StartOfImage ==
  [cinfo EXCEPT !.saw_SOI = TRUE,
                !.arith_dc = InitInfo.arith_dc,
                !.arith_ac_K = InitInfo.arith_ac_K,
                !.restart_interval = 0,
                !.JFIF = NoJFIF, !.Adobe = NoAdobe]

get_soi ==
  IF cinfo.saw_SOI
  THEN ErrExit("SOI_DUPLICATE") /\ UNCHANGED cinfo
  ELSE /\ cinfo' = StartOfImage
       /\ Processed
       /\ SaveUnchanged
       /\ UNCHANGED <<pos, at>>

(* jpeg_save_markers: of APP0 and APP14 the library wants a minimum for     *)
(* itself.                                                                 *)
WantedItself(m) ==
  CASE m = M_APP0  -> APP0_DATA_LEN
    [] m = M_APP14 -> APP14_DATA_LEN
    [] OTHER       -> 0

SaveLimit(m) ==
  IF LengthLimit[m] = 0 THEN 0 ELSE Max({LengthLimit[m], WantedItself(m)})

(* Slip: what was saved before the source ran dry is forgotten. *)
Resume_FromStart == [length |-> 0, read |-> 0]

(* What is known of a marker when its routine begins: how much of it an    *)
(* earlier call has saved.                                                 *)
Resume == [length |-> 0, read |-> bytes_read]

(* The routine for a marker with parameters. *)
Routine(m) ==
  CASE m \in DOMAIN SofType -> "get_sof"
    [] m = M_SOS -> "get_sos"
    [] m = M_DQT -> "get_dqt"
    [] m = M_DHT -> "get_dht"
    [] m = M_DAC -> "get_dac"
    [] m = M_DRI -> "get_dri"
    [] m = M_DNL -> "skip_variable"
    [] m \in Appn \union {M_COM} ->
         IF SaveLimit(m) > 0
         THEN IF cur_marker = NoMarker THEN "save_marker" ELSE "save_copy"
         ELSE IF m \in {M_APP0, M_APP14} THEN "get_interesting_appn"
         ELSE "skip_variable"
    [] OTHER -> None

read_markers ==
  /\ Running("read_markers")
  /\ CountUnchanged
  /\ LET m == unread_marker IN
       CASE m = 0 ->
              /\ Go(IF cinfo.saw_SOI THEN "next_marker" ELSE "first_marker",
                    NoLocals)
              /\ UNCHANGED <<pos, at, cinfo>> /\ SaveUnchanged
         [] m = M_SOI -> get_soi
         [] m = M_EOI ->
              /\ Return("EOI")
              /\ UNCHANGED <<pos, at, cinfo>> /\ SaveUnchanged
         [] m \in Rst \union {M_TEM} ->
              /\ Processed
              /\ UNCHANGED <<pos, at, cinfo>> /\ SaveUnchanged
         [] m = M_SOS /\ ~cinfo.saw_SOF ->
              ErrExit("SOS_NO_SOF") /\ UNCHANGED cinfo
         [] m \in SofUnsupported ->
              ErrExit("SOF_UNSUPPORTED") /\ UNCHANGED cinfo
         [] m # 0 /\ m # M_SOI /\ Routine(m) = None
            /\ m \notin {M_EOI, M_TEM} \union Rst \union SofUnsupported ->
              ErrExit("UNKNOWN_MARKER") /\ UNCHANGED cinfo
         [] OTHER ->
              /\ cinfo' = IF m \in DOMAIN SofType
                          THEN [cinfo EXCEPT !.process = SofType[m]]
                          ELSE cinfo
              /\ Go(Routine(m), Resume)
              /\ UNCHANGED <<pos, at>> /\ SaveUnchanged

(***************************************************************************)
(* Suspension: fill_input_buffer returned FALSE.  The locals are gone.     *)
(***************************************************************************)
(* Bytes that the part of a routine at work takes in one read. *)
GroupSize ==
  CASE proc = "get_dht_counts" -> 17
    [] proc = "get_sof" -> 8
    [] proc \in {"get_sos", "get_sos_params", "get_sof_component"} -> 3
    [] proc \in {"next_marker", "next_marker_code", "get_dqt_table"} -> 1
    [] proc \in {"get_dht_values", "appn_data"} -> loc.count
    [] proc = "get_dqt_value" -> IF loc.prec > 0 THEN 2 ELSE 1
    [] OTHER -> 2

(* Slip: a marker is saved when all that is wanted of it is there. *)
Need_AllAtOnce ==
  IF proc = "save_copy" THEN cur_marker.data_length - loc.read ELSE GroupSize

(* save_marker takes what there is. *)
Need == IF proc = "save_copy" THEN 1 ELSE GroupSize

Suspend ==
  /\ status = "reading"
  /\ proc # "read_markers"
  /\ ~CanRead(Need)
  /\ status' = "suspended"
  /\ proc' = "read_markers"
  /\ loc' = NoLocals
  /\ at' = pos
  /\ UNCHANGED <<setup, file, avail, pos, unread_marker, cinfo, cur_marker,
                 bytes_read, discarded, warned, results>>

(***************************************************************************)
(* The routines with parameters.                                           *)
(***************************************************************************)
Takes(part) == /\ Running(part)
               /\ CanRead(Need)
               /\ CountUnchanged

(* n bytes were read and length bytes of the segment should be left: go on *)
(* with the next group, or end the segment where it should end.            *)
GoOn(n, length, more, part, locals) ==
  IF more
  THEN Advance(n) /\ Go(part, locals) /\ SaveUnchanged
  ELSE IF length = 0
  THEN Sync(n) /\ Processed /\ SaveUnchanged
  ELSE ErrExit("BAD_LENGTH")

(* get_sof. *)
Dimensions ==
  [cinfo EXCEPT !.precision = B(3), !.height = W(4), !.width = W(6),
                !.num_components = B(8)]

NoComponent == [id |-> 0, h |-> 0, v |-> 0, tq |-> 0]

get_sof ==
  /\ Takes("get_sof")
  /\ LET n     == B(8)
         error == IF cinfo.saw_SOF THEN "SOF_DUPLICATE"
                  ELSE IF 0 \in {W(4), W(6), n} THEN "EMPTY_IMAGE"
                  ELSE IF W(1) - 8 # 3 * n THEN "BAD_LENGTH"
                  ELSE None
     IN
       IF error # None
       THEN ErrExit(error) /\ cinfo' = Dimensions
       ELSE /\ cinfo' =
                 IF cinfo.comp_info = << >>
                 THEN [Dimensions EXCEPT
                         !.comp_info = [i \in 1 .. n |-> NoComponent]]
                 ELSE Dimensions
            /\ GoOn(8, 0, TRUE, "get_sof_component", [ci |-> 1])

get_sof_component ==
  /\ Takes("get_sof_component")
  /\ LET c    == [id |-> B(1), h |-> B(2) \div 16, v |-> B(2) % 16,
                  tq |-> B(3)]
         last == loc.ci = cinfo.num_components
     IN
       /\ cinfo' = [cinfo EXCEPT !.comp_info[loc.ci] = c,
                                 !.saw_SOF = last]
       /\ GoOn(3, 0, ~last, "get_sof_component", [ci |-> loc.ci + 1])

(* get_sos. *)
get_sos ==
  /\ Takes("get_sos")
  /\ LET n == B(3) IN
       IF \/ W(1) # 2 * n + 6
          \/ n > MAX_COMPS_IN_SCAN
          \/ n = 0 /\ ~cinfo.process[2]
       THEN ErrExit("BAD_LENGTH") /\ UNCHANGED cinfo
       ELSE /\ cinfo' = [cinfo EXCEPT !.comps_in_scan = n]
            /\ GoOn(3, 0, TRUE,
                    IF n = 0 THEN "get_sos_params" ELSE "get_sos_component",
                    [i |-> 1])

(* The first component of that id. *)
Component(id) ==
  Min({ci \in 1 .. cinfo.num_components : cinfo.comp_info[ci].id = id})

get_sos_component ==
  /\ Takes("get_sos_component")
  /\ IF \A ci \in 1 .. cinfo.num_components : cinfo.comp_info[ci].id # B(1)
     THEN ErrExit("BAD_COMPONENT_ID") /\ UNCHANGED cinfo
     ELSE /\ cinfo' =
               [cinfo EXCEPT
                  !.cur_comp[loc.i] =
                     <<Component(B(1)), B(2) \div 16, B(2) % 16>>]
          /\ GoOn(2, 0, TRUE,
                  IF loc.i = cinfo.comps_in_scan
                  THEN "get_sos_params" ELSE "get_sos_component",
                  [i |-> loc.i + 1])

get_sos_params ==
  /\ Takes("get_sos_params")
  /\ cinfo' =
       [cinfo EXCEPT
          !.Ss = B(1), !.Se = B(2), !.Ah = B(3) \div 16, !.Al = B(3) % 16,
          !.next_restart_num = 0,
          !.input_scan_number = IF cinfo.comps_in_scan > 0 THEN @ + 1 ELSE @]
  /\ Sync(3)
  /\ Return("SOS")
  /\ SaveUnchanged

(* get_dac. *)
get_dac ==
  /\ Takes("get_dac")
  /\ UNCHANGED cinfo
  /\ GoOn(2, W(1) - 2, W(1) > 2, "get_dac_pair", [length |-> W(1) - 2])

get_dac_pair ==
  /\ Takes("get_dac_pair")
  /\ LET index  == B(1)
         length == loc.length - 2
         L      == B(2) % 16
         U      == B(2) \div 16
         next   == GoOn(2, length, length > 0, "get_dac_pair",
                        [length |-> length])
     IN
       IF index >= 2 * NUM_ARITH_TBLS
       THEN ErrExit("DAC_INDEX") /\ UNCHANGED cinfo
       ELSE IF index >= NUM_ARITH_TBLS
       THEN /\ cinfo' = [cinfo EXCEPT
                           !.arith_ac_K[index - NUM_ARITH_TBLS] = B(2)]
            /\ next
       ELSE /\ cinfo' = [cinfo EXCEPT !.arith_dc[index] = <<L, U>>]
            /\ IF L > U THEN ErrExit("DAC_VALUE") ELSE next

(* get_dht. *)
get_dht ==
  /\ Takes("get_dht")
  /\ UNCHANGED cinfo
  /\ GoOn(2, W(1) - 2, W(1) - 2 > 16, "get_dht_counts",
          [length |-> W(1) - 2])

Total(counts) == MapThenSumSet(LAMBDA i : counts[i], DOMAIN counts)

get_dht_counts ==
  /\ Takes("get_dht_counts")
  /\ UNCHANGED cinfo
  /\ LET bits   == [i \in 1 .. 16 |-> B(i + 1)]
         count  == Total(bits)
         length == loc.length - 17
     IN
       IF count > 256 \/ count > length
       THEN ErrExit("BAD_HUFF_TABLE")
       ELSE GoOn(17, 0, TRUE, "get_dht_values",
                 [length |-> length, index |-> B(1), bits |-> bits,
                  count |-> count])

get_dht_values ==
  /\ Takes("get_dht_values")
  /\ LET ac     == (loc.index \div 16) % 2 = 1
         n      == IF ac THEN loc.index - 16 ELSE loc.index
         table  == [bits |-> loc.bits, huffval |-> Bytes(loc.count)]
         length == loc.length - loc.count
     IN
       IF n >= NUM_TBLS
       THEN ErrExit("DHT_INDEX") /\ UNCHANGED cinfo
       ELSE /\ cinfo' = IF ac THEN [cinfo EXCEPT !.ac_huff[n] = table]
                        ELSE [cinfo EXCEPT !.dc_huff[n] = table]
            /\ GoOn(loc.count, length, length > 16, "get_dht_counts",
                    [length |-> length])

(* get_dqt. *)
jpeg_natural_order ==
  << 0,  1,  8, 16,  9,  2,  3, 10, 17, 24, 32, 25, 18, 11,  4,  5,
    12, 19, 26, 33, 40, 48, 41, 34, 27, 20, 13,  6,  7, 14, 21, 28,
    35, 42, 49, 56, 57, 50, 43, 36, 29, 22, 15, 23, 30, 37, 44, 51,
    58, 59, 52, 45, 38, 31, 39, 46, 53, 60, 61, 54, 47, 55, 62, 63>>

(* jpeg_natural_order2 .. 7: the same walk through the top left corner. *)
SquareOrder(k) ==
  SelectSeq(jpeg_natural_order, LAMBDA q : q % 8 < k /\ q \div 8 < k)

natural_order(count) ==
  IF \E k \in 2 .. 7 : count = k * k
  THEN SquareOrder(CHOOSE k \in 2 .. 7 : count = k * k)
  ELSE jpeg_natural_order

Ones == [q \in 0 .. 63 |-> 1]

get_dqt ==
  /\ Takes("get_dqt")
  /\ UNCHANGED cinfo
  /\ GoOn(2, W(1) - 2, W(1) > 2, "get_dqt_table", [length |-> W(1) - 2])

(* A table that is too short is filled up with ones; one that was never    *)
(* there before is written in full.  count is 0 in a segment with nothing  *)
(* left for the table.                                                     *)
get_dqt_table ==
  /\ Takes("get_dqt_table")
  /\ LET prec   == B(1) \div 16
         n      == B(1) % 16
         length == loc.length - 1
         full   == IF prec > 0 THEN 128 ELSE 64
         count  == IF length >= full THEN 64
                   ELSE IF prec > 0 THEN length \div 2 ELSE length
         old    == IF cinfo.quant[n] = NoTable THEN Ones ELSE cinfo.quant[n]
     IN
       IF n >= NUM_TBLS
       THEN ErrExit("DQT_INDEX") /\ UNCHANGED cinfo
       ELSE /\ cinfo' = [cinfo EXCEPT
                           !.quant[n] = IF length < full THEN Ones ELSE old]
            /\ GoOn(1, length, count > 0 \/ length > 0,
                    IF count > 0 THEN "get_dqt_value" ELSE "get_dqt_table",
                    [length |-> length, n |-> n, prec |-> prec,
                     count |-> count, i |-> 0])

get_dqt_value ==
  /\ Takes("get_dqt_value")
  /\ LET tmp  == IF loc.prec > 0 THEN W(1) ELSE B(1)
         q    == natural_order(loc.count)[loc.i + 1]
         left == loc.length - loc.count - (IF loc.prec > 0 THEN loc.count
                                           ELSE 0)
         last == loc.i + 1 = loc.count
     IN
       /\ cinfo' = [cinfo EXCEPT !.quant[loc.n] = [@ EXCEPT ![q] = tmp]]
       /\ IF last
          THEN GoOn(Need, left, left > 0, "get_dqt_table",
                    [length |-> left])
          ELSE GoOn(Need, 0, TRUE, "get_dqt_value",
                    [loc EXCEPT !.i = @ + 1])

(* get_dri. *)
get_dri ==
  /\ Takes("get_dri")
  /\ UNCHANGED cinfo
  /\ GoOn(2, W(1) - 4, W(1) = 4, "get_dri_value", NoLocals)

get_dri_value ==
  /\ Takes("get_dri_value")
  /\ cinfo' = [cinfo EXCEPT !.restart_interval = W(1)]
  /\ GoOn(2, 0, FALSE, None, NoLocals)

(***************************************************************************)
(* APPn and COM: looked at, saved or skipped.                              *)
(***************************************************************************)
StartsWith(data, len, prefix) ==
  /\ Len(data) >= len
  /\ SubSeq(data, 1, Len(prefix)) = prefix

examine_app0(data) ==
  IF StartsWith(data, APP0_DATA_LEN, <<74, 70, 73, 70, 0>>)
  THEN [cinfo EXCEPT
          !.JFIF = [saw |-> TRUE, version |-> <<data[6], data[7]>>,
                    unit |-> data[8],
                    density |-> <<256 * data[9] + data[10],
                                  256 * data[11] + data[12]>>]]
  ELSE cinfo

examine_app14(data) ==
  IF StartsWith(data, APP14_DATA_LEN, <<65, 100, 111, 98, 101>>)
  THEN [cinfo EXCEPT !.Adobe = [saw |-> TRUE, transform |-> data[12]]]
  ELSE cinfo

Examined(data) ==
  CASE unread_marker = M_APP0  -> examine_app0(data)
    [] unread_marker = M_APP14 -> examine_app14(data)
    [] OTHER                   -> cinfo

get_interesting_appn ==
  /\ Takes("get_interesting_appn")
  /\ UNCHANGED cinfo
  /\ LET length == W(1) - 2
         read   == IF length < 0 THEN 0 ELSE Min({length, APPN_DATA_LEN})
     IN  GoOn(2, 0, TRUE, "appn_data",
              [count |-> read, length |-> length - read])

appn_data ==
  /\ Takes("appn_data")
  /\ cinfo' = Examined(Bytes(loc.count))
  /\ SyncAndSkip(loc.count, loc.length)
  /\ Processed
  /\ SaveUnchanged

skip_variable ==
  /\ Takes("skip_variable")
  /\ UNCHANGED cinfo
  /\ SyncAndSkip(2, W(1) - 2)
  /\ Processed
  /\ SaveUnchanged

(* save_marker.  The part that is saved moves the restart point as it is   *)
(* copied, so that it may be longer than the buffer.                       *)
Saved(marker) ==
  [Examined(marker.data) EXCEPT !.marker_list = Append(@, marker)]

EndMarker(n, marker) ==
  /\ cinfo' = Saved(marker)
  /\ cur_marker' = NoMarker
  /\ SyncAndSkip(n, marker.original_length - marker.data_length)
  /\ Processed

save_marker ==
  /\ Takes("save_marker")
  /\ LET length == W(1) - 2
         marker == [marker |-> unread_marker, original_length |-> length,
                    data_length |-> Min({length, SaveLimit(unread_marker)}),
                    data |-> << >>]
     IN
       CASE length < 0 ->
              /\ cinfo' = Examined(<< >>)
              /\ SyncAndSkip(2, length)
              /\ Processed
              /\ SaveUnchanged
         [] length = 0 -> EndMarker(2, marker) /\ bytes_read' = 0
         [] OTHER ->
              /\ cur_marker' = marker
              /\ bytes_read' = 0
              /\ Sync(2)
              /\ Go("save_copy", [read |-> 0])
              /\ UNCHANGED cinfo

(* As much as the buffer holds, or as is wanted. *)
save_copy ==
  /\ Takes("save_copy")
  /\ LET want   == cur_marker.data_length - loc.read
         n      == IF Fed THEN Min({want, avail - at}) ELSE want
         marker == [cur_marker EXCEPT
                      !.data = SubSeq(@, 1, loc.read) \o Bytes(n)]
     IN
       IF n = want
       THEN EndMarker(n, marker) /\ UNCHANGED bytes_read
       ELSE /\ cur_marker' = marker
            /\ bytes_read' = loc.read + n
            /\ Sync(n)
            /\ Go("save_copy", [read |-> loc.read + n])
            /\ UNCHANGED cinfo

-------------------------------------------------------------------------------
Step ==
  \/ read_markers
  \/ first_marker \/ next_marker_seek \/ next_marker_code
  \/ get_sof \/ get_sof_component
  \/ get_sos \/ get_sos_component \/ get_sos_params
  \/ get_dac \/ get_dac_pair
  \/ get_dht \/ get_dht_counts \/ get_dht_values
  \/ get_dqt \/ get_dqt_table \/ get_dqt_value
  \/ get_dri \/ get_dri_value
  \/ get_interesting_appn \/ appn_data
  \/ save_marker \/ save_copy
  \/ skip_variable
  \/ Suspend

Next ==
  \/ Call
  \/ \E n \in 1 .. BufferSize : Arrive(n)
  \/ Step

Spec == Init /\ [][Next]_vars

-------------------------------------------------------------------------------
(* Properties; what a document means, and that it is understood, is in      *)
(* MCMarkerReader.                                                         *)

Errors == {"NO_SOI", "SOI_DUPLICATE", "SOS_NO_SOF", "SOF_UNSUPPORTED",
           "UNKNOWN_MARKER", "SOF_DUPLICATE", "EMPTY_IMAGE", "BAD_LENGTH",
           "BAD_COMPONENT_ID", "DAC_INDEX", "DAC_VALUE", "DQT_INDEX",
           "DHT_INDEX", "BAD_HUFF_TABLE"}

TypeOK ==
  /\ setup \in DOMAIN Setups
  /\ avail \in 0 .. Len(file)
  /\ pos \in Nat /\ at \in Nat /\ pos <= at
  /\ unread_marker \in 0 .. 254
  /\ discarded \in Nat
  /\ bytes_read \in 0 .. Len(cur_marker.data) \/ cur_marker = NoMarker
  /\ status \in {"idle", "reading", "suspended"} \union Errors
  /\ Range(results) \subseteq {"SOS", "EOI"}

(* No byte is looked at before it has arrived, and none that the buffer    *)
(* has already dropped is wanted again.                                    *)
ReadsWhatArrived == Fed => at <= Max({avail, pos})

(* The library never backtracks over data it has skipped, nor over what it *)
(* has saved of a marker: the restart point only moves forward, and saved  *)
(* bytes stay as they are.                                                 *)
GoesForward ==
  /\ pos' >= pos
  /\ cur_marker # NoMarker /\ cur_marker' # NoMarker =>
       IsPrefix(SubSeq(cur_marker.data, 1, bytes_read), cur_marker'.data)

(* m is the marker that ends before the next byte: its code, its length    *)
(* and, as far as they are wanted, its data stand there.                   *)
StandsBefore(m, next) ==
  LET start == next - m.original_length IN
    /\ FileByte(start - 2) = m.marker
    /\ FileWord(start - 1) = m.original_length + 2
    /\ m.data_length = Min({m.original_length, SaveLimit(m.marker)})
    /\ m.data = [i \in 1 .. m.data_length |-> FileByte(start + i)]

(* In however many pieces a marker to be saved arrives, and whatever was   *)
(* saved of it before the source ran dry: it comes on the list once, when  *)
(* it has been read past, as it stands in the file (save_marker).          *)
SavesWhatIsWritten ==
  LET list == cinfo.marker_list IN
    cinfo'.marker_list # list =>
      LET m == Last(cinfo'.marker_list) IN
        cinfo'.marker_list = Append(list, m) /\ StandsBefore(m, pos')

(* Every file is read to an end, to EOI or to an error in it: a suspended  *)
(* call comes back, if the application calls again and feeds the buffer    *)
(* whenever it can, since no marker needs more of the buffer than a        *)
(* standard table does, a note to save or skip included; and the fake EOI  *)
(* markers of a source that breaks off are read through, whatever they are *)
(* taken for.                                                              *)
FileEnded ==
  status \in Errors \/ \E i \in DOMAIN results : results[i] = "EOI"
===============================================================================
