---------------------------- MODULE MCMarkerReader ----------------------------
(***************************************************************************)
(* Documents and setups for MarkerReader, and what is to be true of it.    *)
(* A document is a list of segments; FileOf                                *)
(* says how a segment is written, Meaning what it tells the decoder.  The  *)
(* two know nothing of suspension, restart points or marker routines.      *)
(***************************************************************************)
EXTENDS MarkerReader, SequencesExt

-------------------------------------------------------------------------------
Word(n) == <<n \div 256, n % 256>>
Segment(m, data) == <<255, m>> \o Word(Len(data) + 2) \o data

DqtBytes(t) ==
  <<(IF t.wide THEN 16 ELSE 0) + t.n>>
    \o FlattenSeq([i \in 1 .. Len(t.v) |-> IF t.wide THEN Word(t.v[i])
                                          ELSE <<t.v[i]>>])
DhtBytes(t) == <<(IF t.ac THEN 16 ELSE 0) + t.n>> \o t.bits \o t.huffval
CompBytes(c) == <<c.id, 16 * c.h + c.v, c.tq>>
ScanBytes(c) == <<c[1], 16 * c[2] + c[3]>>

SegmentBytes(s) ==
  CASE s.k = "plain" -> <<255, s.m>>
    [] s.k = "pad"   -> [i \in 1 .. s.n |-> 255]
    [] s.k \in {"junk", "bad"} -> s.b
    [] s.k = "dri"   -> Segment(M_DRI, Word(s.v))
    [] s.k = "dac"   -> Segment(M_DAC, FlattenSeq(s.e))
    [] s.k = "dqt"   ->
         Segment(M_DQT, FlattenSeq([i \in DOMAIN s.t |-> DqtBytes(s.t[i])]))
    [] s.k = "dht"   ->
         Segment(M_DHT, FlattenSeq([i \in DOMAIN s.t |-> DhtBytes(s.t[i])]))
    [] s.k = "sof"   ->
         Segment(s.m, <<8>> \o Word(s.height) \o Word(s.width)
                        \o <<Len(s.c)>>
                        \o FlattenSeq([i \in DOMAIN s.c |->
                                         CompBytes(s.c[i])]))
    [] s.k = "sos"   ->
         Segment(M_SOS, <<Len(s.c)>>
                          \o FlattenSeq([i \in DOMAIN s.c |->
                                           ScanBytes(s.c[i])])
                          \o <<s.Ss, s.Se, 16 * s.Ah + s.Al>>)
    [] s.k = "app"   -> Segment(s.m, s.data)

FileOf(doc) == FlattenSeq([i \in DOMAIN doc |-> SegmentBytes(doc[i])])

-------------------------------------------------------------------------------
(* The places of a size x size block along its diagonals, each walked      *)
(* against the last.                                                       *)
Along(size, d) ==
  LET up == [i \in 1 .. d + 1 |-> <<d + 1 - i, i - 1>>]   \* <<row, column>>
      in == SelectSeq(up, LAMBDA p : p[1] < size /\ p[2] < size)
  IN  IF d % 2 = 0 THEN in ELSE Reverse(in)

ZigZag(size) ==
  LET walk == FlattenSeq([d \in 1 .. 2 * size - 1 |-> Along(size, d - 1)])
  IN  [i \in DOMAIN walk |-> 8 * walk[i][1] + walk[i][2]]

(* A short table is that of a small square block where its length is a     *)
(* square, otherwise the start of a full one.                              *)
Walk(len) == IF \E k \in 2 .. 8 : k * k = len
             THEN ZigZag(CHOOSE k \in 2 .. 8 : k * k = len) ELSE ZigZag(8)

QuantTable(v) ==
  LET walk == Walk(Len(v)) IN
    [q \in 0 .. 63 |->
       IF \E i \in DOMAIN v : walk[i] = q
       THEN v[CHOOSE i \in DOMAIN v : walk[i] = q] ELSE 1]

Fill(tables, new, Is(_), value(_)) ==
  [n \in DOMAIN tables |->
     IF \E i \in DOMAIN new : Is(new[i]) /\ new[i].n = n
     THEN value(new[Max({i \in DOMAIN new : Is(new[i]) /\ new[i].n = n})])
     ELSE tables[n]]

HuffTable(t) == [bits |-> t.bits, huffval |-> t.huffval]

Scanned(c, s) ==
  LET known(id) == CHOOSE i \in DOMAIN c.comp_info : c.comp_info[i].id = id IN
  [c EXCEPT
     !.comps_in_scan = Len(s.c),
     !.cur_comp = [i \in 1 .. 4 |->
                     IF i \in DOMAIN s.c
                     THEN <<known(s.c[i][1]), s.c[i][2], s.c[i][3]>>
                     ELSE @[i]],
     !.Ss = s.Ss, !.Se = s.Se, !.Ah = s.Ah, !.Al = s.Al,
     !.next_restart_num = 0,
     !.input_scan_number = @ + (IF s.c = << >> THEN 0 ELSE 1)]

(* Of a marker whose saving was asked for, the limit, but never less than  *)
(* the library looks at itself.                                            *)
Kept(limit, m) ==
  IF limit[m] = 0 THEN 0
  ELSE Max({limit[m], CASE m = M_APP0 -> 14 [] m = M_APP14 -> 12
                        [] OTHER -> 0})

Noted(limit, c, s) ==
  LET size == Min({Len(s.data), Kept(limit, s.m)})
      saved == [marker |-> s.m, original_length |-> Len(s.data),
                data_length |-> size, data |-> SubSeq(s.data, 1, size)]
      listed == IF limit[s.m] = 0 THEN c
                ELSE [c EXCEPT !.marker_list = Append(@, saved)]
      d == s.data
  IN
    CASE s.m = M_APP0 /\ Len(d) >= 14
         /\ SubSeq(d, 1, 5) = <<74, 70, 73, 70, 0>> ->
           [listed EXCEPT
              !.JFIF = [saw |-> TRUE, version |-> <<d[6], d[7]>>,
                        unit |-> d[8],
                        density |-> <<256 * d[9] + d[10],
                                      256 * d[11] + d[12]>>]]
      [] s.m = M_APP14 /\ Len(d) >= 12
         /\ SubSeq(d, 1, 5) = <<65, 100, 111, 98, 101>> ->
           [listed EXCEPT !.Adobe = [saw |-> TRUE, transform |-> d[12]]]
      [] OTHER -> listed

Told(limit, c, s) ==
  CASE s.k = "plain" /\ s.m = M_SOI -> [c EXCEPT !.saw_SOI = TRUE]
    [] s.k = "dri" -> [c EXCEPT !.restart_interval = s.v]
    [] s.k = "dac" ->
         [c EXCEPT
            !.arith_dc = [i \in DOMAIN @ |->
               IF \E e \in Range(s.e) : e[1] = i
               THEN LET e == CHOOSE e \in Range(s.e) : e[1] = i
                    IN <<e[2] % 16, e[2] \div 16>>
               ELSE @[i]],
            !.arith_ac_K = [i \in DOMAIN @ |->
               IF \E e \in Range(s.e) : e[1] = i + 16
               THEN (CHOOSE e \in Range(s.e) : e[1] = i + 16)[2]
               ELSE @[i]]]
    [] s.k = "dqt" ->
         [c EXCEPT !.quant = Fill(@, s.t, LAMBDA t : TRUE,
                                  LAMBDA t : QuantTable(t.v))]
    [] s.k = "dht" ->
         [c EXCEPT !.ac_huff = Fill(@, s.t, LAMBDA t : t.ac, HuffTable),
                   !.dc_huff = Fill(@, s.t, LAMBDA t : ~t.ac, HuffTable)]
    [] s.k = "sof" ->
         [c EXCEPT !.saw_SOF = TRUE, !.process = SofType[s.m],
                   !.precision = 8, !.height = s.height, !.width = s.width,
                   !.num_components = Len(s.c), !.comp_info = s.c]
    [] s.k = "sos" -> Scanned(c, s)
    [] s.k = "app" -> Noted(limit, c, s)
    [] OTHER -> c

(* What a document has told once its first n segments are read: the        *)
(* decoder's information, and the amounts of garbage that were reported.   *)
Meaning(limit, doc, n) ==
  FoldLeft(LAMBDA r, s :
             IF s.k = "junk" THEN [r EXCEPT !.pending = @ + Len(s.b)]
             ELSE IF s.k = "pad" THEN r
             ELSE [info |-> Told(limit, r.info, s),
                   warned |-> IF r.pending = 0 THEN r.warned
                              ELSE Append(r.warned, r.pending),
                   pending |-> 0],
           [info |-> InitInfo, warned |-> << >>, pending |-> 0],
           SubSeq(doc, 1, n))

(* How a segment at which read_markers comes back makes it come back. *)
Code(s) == CASE s.k = "sos" -> "SOS"
             [] s.k = "bad" -> s.code
             [] s.k = "plain" /\ s.m = M_EOI -> "EOI"
             [] OTHER -> None

(* The segments of doc that are whole in a file that is a beginning of it. *)
Whole(doc, f) ==
  {n \in DOMAIN doc : Len(FileOf(SubSeq(doc, 1, n))) <= Len(f)}

(* The calls that find all they need in a file f: what they come back      *)
(* with.                                                                   *)
OutcomesOf(docs, limit, f) ==
  LET doc == CHOOSE d \in docs : IsPrefix(f, FileOf(d))
      stops == SetToSortSeq({n \in Whole(doc, f) : Code(doc[n]) # None},
                            LAMBDA m, n : m < n)
  IN  [i \in DOMAIN stops |->
         [code |-> Code(doc[stops[i]]),
          told |-> Meaning(limit, doc, stops[i])]]

-------------------------------------------------------------------------------
(* Segments. *)
Plain(m) == [k |-> "plain", m |-> m]
Pad(n) == [k |-> "pad", n |-> n]
Junk(b) == [k |-> "junk", b |-> b]
Dri(v) == [k |-> "dri", v |-> v]
Dac(e) == [k |-> "dac", e |-> e]
Dqt(t) == [k |-> "dqt", t |-> t]
Dht(t) == [k |-> "dht", t |-> t]
App(m, data) == [k |-> "app", m |-> m, data |-> data]
Sof(m, height, width, c) ==
  [k |-> "sof", m |-> m, height |-> height, width |-> width, c |-> c]
Sos(c, Ss, Se, Ah, Al) ==
  [k |-> "sos", c |-> c, Ss |-> Ss, Se |-> Se, Ah |-> Ah, Al |-> Al]
Bad(b, code) == [k |-> "bad", b |-> b, code |-> code]

Quant(n, wide, v) == [n |-> n, wide |-> wide, v |-> v]
Huff(n, ac, counts, huffval) ==
  [n |-> n, ac |-> ac, huffval |-> huffval,
   bits |-> [i \in 1 .. 16 |-> IF i \in DOMAIN counts THEN counts[i]
                               ELSE 0]]
Comp(id, h, v, tq) == [id |-> id, h |-> h, v |-> v, tq |-> tq]

SOI == Plain(M_SOI)
EOI == Plain(M_EOI)
Frame == Sof(192, 300, 2, <<Comp(7, 2, 1, 0)>>)
Scan == Sos(<<<<7, 0, 1>>>>, 0, 63, 0, 0)

Jfif == <<74, 70, 73, 70, 0, 1, 2, 1, 0, 72, 1, 44, 0, 0>>
AdobeData == <<65, 100, 111, 98, 101, 0, 100, 0, 0, 0, 0, 2>>
Text(n) == [i \in 1 .. n |-> 64 + i]

(* Application markers, comments, garbage and markers of no length. *)
NotesDoc ==
  <<SOI, App(M_APP0, Jfif \o <<1, 2, 3>>), App(M_APP14, AdobeData),
    App(M_COM, Text(90)), App(M_APP0 + 2, Text(100)), Junk(<<1, 255, 0, 2>>),
    Pad(2), App(M_COM, << >>), Frame, Junk(<<3>>), Plain(M_TEM), Scan,
    Junk(<<255, 0>>), Plain(209), App(M_COM, Text(3)), EOI>>

(* Several tables in a segment; tables that are short, wide, or of a small *)
(* square block; a table that is defined again.                            *)
TablesDoc ==
  <<SOI,
    Dqt(<<Quant(1, TRUE, <<300, 2, 515>>), Quant(2, FALSE, << >>)>>),
    Dqt(<<Quant(1, FALSE, <<5, 6, 7, 8>>)>>),
    Dht(<<Huff(0, FALSE, <<0, 1>>, <<4>>),
          Huff(0, TRUE, <<1, 1>>, <<9, 17>>)>>),
    Dht(<<Huff(3, FALSE, <<1, 0, 2>>, <<1, 2, 3>>)>>),
    Frame, Dri(260), Scan,
    Dht(<<Huff(0, FALSE, <<2>>, <<6, 5>>)>>),
    EOI>>

FullTableDoc ==
  <<SOI, Dqt(<<Quant(0, FALSE, [i \in 1 .. 64 |-> 2 * i]),
               Quant(2, FALSE, <<3>>)>>), EOI>>

(* Progressive and arithmetic: two scans, then one of no component. *)
ScansDoc ==
  <<SOI, Sof(202, 1, 513, <<Comp(1, 2, 2, 0), Comp(0, 1, 1, 3)>>),
    Dac(<<<<0, 33>>, <<17, 9>>, <<3, 80>>>>),
    Sos(<<<<0, 1, 2>>, <<1, 0, 3>>>>, 0, 0, 0, 1),
    Sos(<<<<1, 2, 1>>>>, 1, 5, 1, 0),
    Sos(<< >>, 6, 9, 0, 2), EOI>>

ErrorDocs ==
  {<<Bad(<<255, M_EOI>>, "NO_SOI")>>,
   <<SOI, Bad(<<255, M_SOI>>, "SOI_DUPLICATE")>>,
   <<SOI, Bad(<<255, M_SOS>>, "SOS_NO_SOF")>>,
   <<SOI, Bad(<<255, 195>>, "SOF_UNSUPPORTED")>>,
   <<SOI, Junk(<<9>>), Bad(<<255, 2>>, "UNKNOWN_MARKER")>>,
   <<SOI, Frame, Bad(SegmentBytes(Frame), "SOF_DUPLICATE")>>,
   <<SOI, Bad(SegmentBytes(Sof(193, 0, 1, <<>>)), "EMPTY_IMAGE")>>,
   <<SOI, Bad(Segment(194, <<8, 0, 1, 0, 1, 1, 1, 1>>), "BAD_LENGTH")>>,
   <<SOI, Frame, Scan,
     Bad(SegmentBytes(Sos(<<<<9, 0, 0>>>>, 0, 63, 0, 0)),
         "BAD_COMPONENT_ID")>>,
   <<SOI, Frame, Bad(SegmentBytes(Sos(<< >>, 0, 63, 0, 0)), "BAD_LENGTH")>>,
   <<SOI, Dac(<<<<0, 16>>>>), Bad(Segment(M_DAC, <<1, 32, 32, 0>>),
                                  "DAC_INDEX")>>,
   <<SOI, Bad(Segment(M_DAC, <<1, 2>>), "DAC_VALUE")>>,
   <<SOI, Bad(Segment(M_DAC, <<1, 32, 2>>), "BAD_LENGTH"), EOI>>,
   <<SOI, Bad(Segment(M_DQT, <<4, 1>>), "DQT_INDEX")>>,
   <<SOI, Bad(<<255, M_DQT, 0, 1>>, "BAD_LENGTH")>>,
   <<SOI, Bad(SegmentBytes(Dht(<<Huff(4, TRUE, <<1>>, <<1>>)>>)),
              "DHT_INDEX")>>,
   <<SOI, Bad(Segment(M_DHT, [i \in 1 .. 18 |-> 1]), "BAD_HUFF_TABLE")>>,
   <<SOI, Bad(Segment(M_DRI, <<1>>), "BAD_LENGTH")>>}

LongDocs == {NotesDoc, TablesDoc, ScansDoc}
OtherDocs == {FullTableDoc} \union ErrorDocs
Documents == LongDocs \union OtherDocs
WholeFiles == {FileOf(d) : d \in Documents}
BrokenFiles ==
  UNION {{SubSeq(f, 1, n) : n \in 1 .. Len(f)} : f \in WholeFiles}

(* Comments are saved in part, JFIF markers with the least the library     *)
(* wants; or everything is saved, and nothing looked at in passing.        *)
SomeSaved ==
  [m \in 0 .. 255 |-> CASE m = M_COM -> 80 [] m = M_APP0 -> 5 [] OTHER -> 0]
AllSaved ==
  [m \in 0 .. 255 |-> IF m \in Appn \union {M_COM} THEN 65535 ELSE 0]

(* A buffer that holds the longest standard marker, but neither the        *)
(* comment to be saved nor the note to be skipped; one that holds any      *)
(* other file; and files that break off at any byte.                       *)
MCSetups ==
  [wide   |-> [fed |-> TRUE, buffer |-> 70, limit |-> SomeSaved],
   tight  |-> [fed |-> TRUE, buffer |-> 42, limit |-> SomeSaved],
   broken |-> [fed |-> FALSE, buffer |-> 0, limit |-> AllSaved]]
MCFiles ==
  [wide |-> {FileOf(d) : d \in OtherDocs},
   tight |-> {FileOf(d) : d \in LongDocs},
   broken |-> BrokenFiles]

WholeOutcomes ==
  [f \in WholeFiles |-> OutcomesOf(Documents, SomeSaved, f)]
BrokenOutcomes ==
  [f \in BrokenFiles |-> OutcomesOf(Documents, AllSaved, f)]

-------------------------------------------------------------------------------
(* Properties.                                                             *)

(* However the file arrives in pieces, and however often a routine has to  *)
(* give up and begin again, read_markers comes back with what the markers  *)
(* before that point say: tables in their natural order, saved markers     *)
(* once and whole, scans counted once, garbage reported once; and an error *)
(* is the one the segment at that place deserves.                          *)
ResultIsMeaning ==
  LET o == IF setup = "broken" THEN BrokenOutcomes[file]
           ELSE WholeOutcomes[file]
      n == Len(results)
  IN
    /\ status = "idle" /\ n \in DOMAIN o =>
         /\ results[n] = o[n].code
         /\ cinfo = o[n].told.info
         /\ warned = o[n].told.warned
    /\ status \in Errors /\ n + 1 \in DOMAIN o => o[n + 1].code = status
===============================================================================
