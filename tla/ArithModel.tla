----------------------------- MODULE ArithModel -----------------------------
(***************************************************************************)
(* How jcarith.c turns coefficients into binary decisions, each with its   *)
(* statistics bin, and how jdarith.c asks for them again.  The two agree   *)
(* only if the decoder, which knows no more than the bits before, always   *)
(* asks for the bin the encoder used; the bits come through ArithCoder.    *)
(*                                                                         *)
(* Coefficients are numbered as in the file (zigzag), 0 .. lim_Se.  With   *)
(* MagBins = 14 the bin numbers are those of the code: 189 and 217 for the *)
(* large AC magnitudes, 14 from a category's bin to the one of its bits,   *)
(* 0x8000 for the overflow; fewer categories make the damaged data small.  *)
(***************************************************************************)
EXTENDS Integers, Sequences, SequencesExt

CONSTANT Jobs
  \* What is coded.  setup is what the tables and the frame header fix:
  \*   membership    the component of each block of an MCU; the blocks of a
  \*                 component follow one another
  \*   dcTbl, acTbl  the statistics area of each component
  \*   limSe         the last coefficient
  \*   magBins       bins for the large magnitude categories
  \*   l, u, kx      conditioning: arith_dc_L, arith_dc_U, arith_ac_K
  \*   faults        TRUE: the data may be damaged from some decision on
  \* A picture is a sequence of MCUs, each a sequence of blocks; a script, a
  \* sequence of scans: progressive or not, component (0: all), Ss, Se, Ah,
  \* Al; a restart interval is in MCUs, 0 for none.

(* What a frame header and the tables may say. *)
SetupOK(s) ==
  /\ DOMAIN s = {"membership", "dcTbl", "acTbl", "limSe", "magBins", "l", "u",
                 "kx", "faults"}
  /\ s.membership \in Seq(DOMAIN s.dcTbl)
  /\ DOMAIN s.acTbl = DOMAIN s.dcTbl
  /\ s.limSe \in 1 .. 63 /\ s.magBins \in 1 .. 14
  /\ s.l \in 0 .. 15 /\ s.u \in s.l .. 15
  /\ s.faults \in BOOLEAN

(* What a scan header may say: the checks of jdarith.c's start_pass. *)
ScanOK(sc, s) ==
  /\ sc.progressive \in BOOLEAN
  /\ sc.Ss \in 0 .. s.limSe /\ sc.Se \in sc.Ss .. s.limSe
  /\ IF sc.progressive THEN sc.Ah \in Nat /\ (sc.Ss = 0 => sc.Se = 0)
     ELSE sc.Ss = 0 /\ sc.Se = s.limSe /\ sc.Ah = 0
  /\ sc.comp # 0 =>
       \E i, j \in DOMAIN s.membership :
         i <= j /\ {b \in DOMAIN s.membership : s.membership[b] = sc.comp}
                     = i .. j

ModelAssumption ==
  \A j \in Jobs :
    /\ SetupOK(j.setup)
    /\ j.script \in Seq(Range(j.script)) /\ Len(j.script) > 0
    /\ \A i \in DOMAIN j.script : ScanOK(j.script[i], j.setup)

VARIABLES
  setup, picture, script, interval,       \* the job
  scan, mcu,      \* the scan being coded, and the MCU of it
  enc,            \* encoder: last_dc_val, dc_context, restarts_to_go
  decisions,      \* the decisions of the MCU: bin and bit
  read,           \* how many the decoder has had
  dec,            \* decoder: the same as the encoder
  pc,             \* where in the decoding of the MCU it is, with its locals
  coefs,          \* the coefficients it has, block by block
  damaged,        \* the bits are no longer those of the encoder
  harmed          \* the MCUs decoded while they were not

job == <<setup, picture, script, interval>>
vars == <<job, scan, mcu, enc, decisions, read, dec, pc,
          coefs, damaged, harmed>>

Membership == setup.membership
DcTbl      == setup.dcTbl
AcTbl      == setup.acTbl
lim_Se     == setup.limSe
MagBins    == setup.magBins
L          == setup.l
U          == setup.u
Kx         == setup.kx
Faults     == setup.faults

Comps == DOMAIN DcTbl
Scan == script[scan]
Restart == <<"restart", 0, 0>>
Fixed == <<"fixed", 0, 0>>
Dc(ci, st) == <<"dc", DcTbl[ci], st>>
Ac(ci, st) == <<"ac", AcTbl[ci], st>>

FirstX == 20

LargeX(k) == 189 + (IF k <= Kx THEN 0 ELSE 2 * MagBins)

Overflow == 2 ^ (MagBins + 1)

Log2(w) == CHOOSE n \in 0 .. 31 : 2 ^ n <= w /\ w < 2 ^ (n + 1)
Abs(v) == IF v < 0 THEN -v ELSE v
IsNegative(v) == IF v < 0 THEN 1 ELSE 0
Scaled(v, Al) == Abs(v) \div 2 ^ Al

(* The blocks of an MCU of the scan, as places <<MCU, block>> in the        *)
(* picture: the MCU's own, or one of a component alone.                    *)
Own == {b \in DOMAIN Membership : Membership[b] = Scan.comp}
FirstOwn == CHOOSE b \in Own : \A c \in Own : b <= c
LastOwn == CHOOSE b \in Own : \A c \in Own : c <= b
OwnCount == LastOwn - FirstOwn + 1
BlocksOf(n) ==
  IF Scan.comp = 0 THEN [b \in DOMAIN Membership |-> <<n, b>>]
  ELSE <<<<(n - 1) \div OwnCount + 1, FirstOwn + ((n - 1) % OwnCount)>>>>
McuCount == Len(picture) * (IF Scan.comp = 0 THEN 1 ELSE OwnCount)

Sample(place, k) == picture[place[1]][place[2]][k]
-------------------------------------------------------------------------------
(***************************************************************************)
(* The encoder.                                                            *)
(***************************************************************************)
(* The bits of w below its highest one. *)
PatternBits(w, bin) ==
  [i \in 1 .. Log2(w) |-> <<bin, (w \div 2 ^ (Log2(w) - i)) % 2>>]

(* Category and bits of a DC difference of magnitude w + 1, from bin st. *)
DcMagnitude(ci, w, st) ==
  IF w = 0 THEN <<<<Dc(ci, st), 0>>>>
  ELSE <<<<Dc(ci, st), 1>>>>
         \o [i \in 1 .. Log2(w) |-> <<Dc(ci, FirstX + i - 1), 1>>]
         \o <<<<Dc(ci, FirstX + Log2(w)), 0>>>>
         \o PatternBits(w, Dc(ci, FirstX + Log2(w) + MagBins))

(* The context that a difference leaves for the next one. *)
DcContext(v) ==
  LET m == IF Abs(v) <= 1 THEN 0 ELSE 2 ^ Log2(Abs(v) - 1)
      small == IF v > 0 THEN 4 ELSE 8
  IN  CASE v = 0 \/ m < 2 ^ L \div 2 -> 0
        [] v # 0 /\ m >= 2 ^ L \div 2 /\ m > 2 ^ U \div 2 -> small + 8
        [] OTHER -> small

(* The decisions for the DC value m, and the encoder after it. *)
EncodeDc(w, ci, m) ==
  LET v  == m - w.last_dc_val[ci]
      S0 == w.dc_context[ci]
  IN  [list |-> w.list \o
         (IF v = 0 THEN <<<<Dc(ci, S0), 0>>>>
          ELSE <<<<Dc(ci, S0), 1>>, <<Dc(ci, S0 + 1), IsNegative(v)>>>>
                 \o DcMagnitude(ci, Abs(v) - 1, S0 + 2 + IsNegative(v))),
       last_dc_val |-> [w.last_dc_val EXCEPT ![ci] = m],
       dc_context |-> [w.dc_context EXCEPT ![ci] = DcContext(v)]]

AcMagnitude(ci, k, w) ==
  LET st == Ac(ci, 3 * (k - 1) + 2)
      n  == Log2(w)
  IN  IF w = 0 THEN <<<<st, 0>>>>
      ELSE IF n = 0 THEN <<<<st, 1>>, <<st, 0>>>>
      ELSE <<<<st, 1>>, <<st, 1>>>>
             \o [i \in 1 .. n - 1 |-> <<Ac(ci, LargeX(k) + i - 1), 1>>]
             \o <<<<Ac(ci, LargeX(k) + n - 1), 0>>>>
             \o PatternBits(w, Ac(ci, LargeX(k) + n - 1 + MagBins))

EndOfBlock(ci, k, bit) == <<<<Ac(ci, 3 * (k - 1)), bit>>>>
ZeroRun(ci, from, to) ==
  [i \in 1 .. to - from |-> <<Ac(ci, 3 * (from + i - 2) + 1), 0>>]

(* Coefficients of a block that are nonzero at precision Al, in order. *)
Nonzero(place, Al) ==
  SelectSeq([i \in 1 .. Scan.Se - Scan.Ss + 1 |-> Scan.Ss + i - 1],
            LAMBDA k : k > 0 /\ Scaled(Sample(place, k), Al) # 0)

(* The first scan of the AC coefficients from..Se of a block. *)
EncodeAc(list, ci, place, from) ==
  LET nz == Nonzero(place, Scan.Al)
      start(i) == IF i = 1 THEN from ELSE nz[i - 1] + 1
      one(i) ==
        LET v == Sample(place, nz[i]) IN
          EndOfBlock(ci, start(i), 0)
            \o ZeroRun(ci, start(i), nz[i])
            \o <<<<Ac(ci, 3 * (nz[i] - 1) + 1), 1>>,
                 <<Fixed, IsNegative(v)>>>>
            \o AcMagnitude(ci, nz[i], Scaled(v, Scan.Al) - 1)
      k == start(Len(nz) + 1)
  IN  list \o FlattenSeq([i \in DOMAIN nz |-> one(i)])
           \o (IF k <= Scan.Se THEN EndOfBlock(ci, k, 1) ELSE << >>)

(* A refinement scan: no end of block is asked for before the last         *)
(* coefficient that was nonzero already.                                   *)
EncodeAcRefine(list, ci, place) ==
  LET nz == Nonzero(place, Scan.Al)
      old == Nonzero(place, Scan.Ah)
      kex == IF old = << >> THEN 0 ELSE Last(old)
      start(i) == IF i = 1 THEN Scan.Ss ELSE nz[i - 1] + 1
      one(i) ==
        LET v == Sample(place, nz[i])
            t == Scaled(v, Scan.Al)
        IN  (IF start(i) > kex THEN EndOfBlock(ci, start(i), 0) ELSE << >>)
              \o ZeroRun(ci, start(i), nz[i])
              \o (IF t > 1 THEN <<<<Ac(ci, 3 * (nz[i] - 1) + 2), t % 2>>>>
                  ELSE <<<<Ac(ci, 3 * (nz[i] - 1) + 1), 1>>,
                         <<Fixed, IsNegative(v)>>>>)
      k == start(Len(nz) + 1)
  IN  list \o FlattenSeq([i \in DOMAIN nz |-> one(i)])
           \o (IF k <= Scan.Se THEN EndOfBlock(ci, k, 1) ELSE << >>)

(* encode_mcu, encode_mcu_DC_first, _AC_first, _DC_refine, _AC_refine. *)
EncodeBlock(w, place) ==
  LET ci == Membership[place[2]]
      dc == Sample(place, 0) \div 2 ^ Scan.Al
  IN
    CASE ~Scan.progressive ->
           LET x == EncodeDc(w, ci, Sample(place, 0))
           IN  [x EXCEPT !.list = EncodeAc(@, ci, place, 1)]
      [] Scan.progressive /\ Scan.Ss = 0 /\ Scan.Ah = 0 -> EncodeDc(w, ci, dc)
      [] Scan.progressive /\ Scan.Ss = 0 /\ Scan.Ah > 0 ->
           [w EXCEPT !.list = Append(@, <<Fixed, dc % 2>>)]
      [] Scan.progressive /\ Scan.Ss > 0 /\ Scan.Ah = 0 ->
           [w EXCEPT !.list = EncodeAc(@, ci, place, Scan.Ss)]
      [] OTHER -> [w EXCEPT !.list = EncodeAcRefine(@, ci, place)]

Reset(w) ==
  [w EXCEPT !.last_dc_val = [c \in Comps |-> 0],
            !.dc_context = [c \in Comps |-> 0]]

(* Only the first DC scan has predictions to reset. *)
Resets == Scan.Ss = 0 /\ Scan.Ah = 0
Restarted(w) == IF Resets THEN Reset(w) ELSE w

Counted(togo) ==
  IF interval = 0 THEN 0 ELSE (IF togo = 0 THEN interval ELSE togo) - 1
-------------------------------------------------------------------------------
(***************************************************************************)
(* The decoder.  pc.at names the decision it waits for; m and v are the    *)
(* magnitude being put together, st its bin.                               *)
(***************************************************************************)
Place == BlocksOf(mcu)[pc.blkn]
Ci == Membership[Place[2]]
AtDc == pc.k = 0

(* The bin it asks for. *)
Ask ==
  CASE pc.at = "restart" -> Restart
    [] pc.at = "dc_zero" -> Dc(Ci, dec.dc_context[Ci])
    [] pc.at = "dc_sign" -> Dc(Ci, dec.dc_context[Ci] + 1)
    [] pc.at \in {"category", "category2", "more", "bits"} ->
         IF AtDc THEN Dc(Ci, pc.st) ELSE Ac(Ci, pc.st)
    [] pc.at \in {"eob", "eob_x"} -> Ac(Ci, 3 * (pc.k - 1))
    [] pc.at \in {"nonzero", "new"} -> Ac(Ci, 3 * (pc.k - 1) + 1)
    [] pc.at = "old" -> Ac(Ci, 3 * (pc.k - 1) + 2)
    [] OTHER -> Fixed

NoPc == [at |-> "done", blkn |-> 0, k |-> 0, st |-> 0, sign |-> 0, m |-> 0,
         v |-> 0, kex |-> 0]

(* The last coefficient of a block the decoder knows to be nonzero. *)
Eobx(place) ==
  LET known == {k \in 1 .. Scan.Se : coefs[place][k] # 0}
  IN  IF known = {} THEN 0 ELSE CHOOSE k \in known : \A j \in known : j <= k

(* The next group of a refinement scan. *)
RefineAt(p, place, known) ==
  IF p.k > p.kex THEN [p EXCEPT !.at = "eob_x"]
  ELSE [p EXCEPT !.at = IF known[place][p.k] # 0 THEN "old" ELSE "new"]

(* The first decision of block b of the n-th MCU. *)
Begin(n, b) ==
  LET p == [NoPc EXCEPT !.blkn = b] IN
    IF b > Len(BlocksOf(n)) THEN NoPc
    ELSE CASE Scan.Ss = 0 /\ Scan.Ah = 0 -> [p EXCEPT !.at = "dc_zero"]
           [] Scan.Ss = 0 /\ Scan.Ah > 0 -> [p EXCEPT !.at = "dc_bit"]
           [] Scan.Ss > 0 /\ Scan.Ah = 0 ->
                [p EXCEPT !.at = "eob", !.k = Scan.Ss]
           [] OTHER ->
                LET place == BlocksOf(n)[b]
                IN  RefineAt([p EXCEPT !.k = Scan.Ss, !.kex = Eobx(place)],
                             place, coefs)

Init ==
  /\ \E j \in Jobs : /\ setup = j.setup
                     /\ picture = j.picture
                     /\ script = j.script
                     /\ interval = j.interval
  /\ scan = 1 /\ mcu = 0
  /\ enc = [last_dc_val |-> [c \in Comps |-> 0],
            dc_context |-> [c \in Comps |-> 0], restarts_to_go |-> interval]
  /\ dec = enc
  /\ decisions = << >> /\ read = 0
  /\ pc = NoPc
  /\ coefs = [p \in (DOMAIN picture) \X (DOMAIN Membership) |->
                [k \in 0 .. lim_Se |-> 0]]
  /\ damaged = FALSE
  /\ harmed = {}

Due(w) == interval > 0 /\ w.restarts_to_go = 0

(* The encoder codes the next MCU; the decoder begins it, with a restart   *)
(* when its own count says so.  After bad code it does nothing until then. *)
NextMcu ==
  /\ pc.at \in {"done", "bad"}
  /\ mcu < McuCount
  /\ mcu' = mcu + 1
  /\ LET start == [(IF Due(enc) THEN Restarted(enc) ELSE enc)
                     EXCEPT !.restarts_to_go = Counted(@)]
         w == FoldLeft(EncodeBlock,
                       [list |-> IF Due(enc) THEN <<<<Restart, 0>>>> ELSE << >>,
                        last_dc_val |-> start.last_dc_val,
                        dc_context |-> start.dc_context],
                       BlocksOf(mcu + 1))
     IN  /\ decisions' = w.list
         /\ enc' = [start EXCEPT !.last_dc_val = w.last_dc_val,
                                 !.dc_context = w.dc_context]
  /\ pc' = CASE Due(dec) -> [NoPc EXCEPT !.at = "restart"]
             [] ~Due(dec) /\ pc.at = "bad" -> pc
             [] OTHER -> Begin(mcu + 1, 1)
  /\ dec' = [dec EXCEPT !.restarts_to_go = Counted(@)]
  /\ harmed' = IF damaged /\ ~Due(dec) THEN harmed \union {mcu + 1} ELSE harmed
  /\ read' = 0
  /\ UNCHANGED <<job, scan, coefs, damaged>>

(* start_pass on both sides. *)
NextScan ==
  /\ pc.at = "done"
  /\ mcu = McuCount /\ scan < Len(script)
  /\ harmed = {}
  /\ scan' = scan + 1
  /\ mcu' = 0
  /\ enc' = [last_dc_val |-> [c \in Comps |-> 0],
             dc_context |-> [c \in Comps |-> 0], restarts_to_go |-> interval]
  /\ dec' = enc'
  /\ decisions' = << >> /\ read' = 0
  /\ UNCHANGED <<job, pc, coefs, damaged, harmed>>

(* The data are damaged from here on. *)
Damage ==
  /\ Faults /\ ~damaged /\ harmed = {}
  /\ pc.at \notin {"done", "restart"}
  /\ damaged' = TRUE
  /\ harmed' = {mcu}
  /\ UNCHANGED <<job, scan, mcu, enc, decisions, read,
                 dec, pc, coefs>>

(* The decision that the decoder waits for at one of these points.         *)
Bit == {b \in {0, 1} :
          damaged \/ (read < Len(decisions) /\ decisions[read + 1][2] = b)}

Decides(points) ==
  /\ pc.at \in points
  /\ read' = IF damaged THEN read ELSE read + 1
  /\ UNCHANGED <<job, scan, mcu, enc, decisions,
                 damaged, harmed>>

Goes(p) == pc' = p /\ UNCHANGED <<dec, coefs>>
BadCode == Goes([NoPc EXCEPT !.at = "bad"])

(* The marker is where the data are whole again. *)
process_restart ==
  /\ pc.at = "restart"
  /\ read' = 1
  /\ damaged' = FALSE
  /\ UNCHANGED <<job, scan, mcu, enc, decisions, harmed>>
  /\ dec' = Restarted(dec)
  /\ pc' = Begin(mcu, 1)
  /\ UNCHANGED coefs

(* On after the DC value, and after AC coefficient k. *)
AfterDc == IF Scan.progressive THEN Begin(mcu, pc.blkn + 1)
           ELSE [pc EXCEPT !.at = "eob", !.k = 1]
AfterAc(k) == IF k < Scan.Se THEN [pc EXCEPT !.at = "eob", !.k = k + 1]
              ELSE Begin(mcu, pc.blkn + 1)

StoreDc(last_dc_val) ==
  coefs' = [coefs EXCEPT ![Place][0] = last_dc_val * 2 ^ Scan.Al]

(* The value is complete: v is its magnitude less one; w is dec, or dec    *)
(* with the new context.                                                   *)
Value(w, v) ==
  LET value == IF pc.sign = 1 THEN -(v + 1) ELSE v + 1 IN
    IF AtDc
    THEN /\ dec' = [w EXCEPT !.last_dc_val[Ci] = @ + value]
         /\ StoreDc(w.last_dc_val[Ci] + value)
         /\ pc' = AfterDc
    ELSE /\ dec' = w
         /\ coefs' = [coefs EXCEPT ![Place][pc.k] = value * 2 ^ Scan.Al]
         /\ pc' = AfterAc(pc.k)

(* The context that the decoder keeps of a category and a sign. *)
ContextAfter(m, sign) ==
  CASE m < 2 ^ L \div 2 -> 0
    [] m > 2 ^ U \div 2 -> 12 + 4 * sign
    [] OTHER            -> 4 + 4 * sign

(* The category is known: its highest bit is m, the others follow. *)
Category(m, st) ==
  LET w == IF AtDc THEN [dec EXCEPT !.dc_context[Ci] = ContextAfter(m, pc.sign)]
           ELSE dec
  IN  IF m <= 1 THEN Value(w, m)
      ELSE /\ dec' = w
           /\ pc' = [pc EXCEPT !.at = "bits", !.v = m, !.m = m \div 2,
                               !.st = st + MagBins]
           /\ UNCHANGED coefs

dc_zero ==
  /\ Decides({"dc_zero"})
  /\ \E bit \in Bit :
       IF bit = 0
       THEN /\ dec' = [dec EXCEPT !.dc_context[Ci] = 0]
            /\ StoreDc(dec.last_dc_val[Ci])
            /\ pc' = AfterDc
       ELSE Goes([pc EXCEPT !.at = "dc_sign"])

dc_sign ==
  /\ Decides({"dc_sign"})
  /\ \E bit \in Bit :
       Goes([pc EXCEPT !.at = "category", !.sign = bit,
                       !.st = dec.dc_context[Ci] + 2 + bit])

category ==
  /\ Decides({"category"})
  /\ \E bit \in Bit :
       CASE bit = 0          -> Category(0, pc.st)
         [] bit = 1 /\ AtDc  -> Goes([pc EXCEPT !.at = "more", !.m = 1,
                                                !.st = FirstX])
         [] bit = 1 /\ ~AtDc -> Goes([pc EXCEPT !.at = "category2"])

category2 ==
  /\ Decides({"category2"})
  /\ \E bit \in Bit :
       IF bit = 0 THEN Category(1, pc.st)
       ELSE Goes([pc EXCEPT !.at = "more", !.m = 2, !.st = LargeX(pc.k)])

(* Slip: the category is looked at before it is doubled. *)
more_Late ==
  /\ Decides({"more"})
  /\ \E bit \in Bit :
       CASE bit = 0 -> Category(pc.m, pc.st)
         [] bit = 1 /\ pc.m = Overflow -> BadCode
         [] bit = 1 /\ pc.m # Overflow ->
              Goes([pc EXCEPT !.m = 2 * @, !.st = @ + 1])

more ==
  /\ Decides({"more"})
  /\ \E bit \in Bit :
       CASE bit = 0 -> Category(pc.m, pc.st)
         [] bit = 1 /\ 2 * pc.m = Overflow -> BadCode
         [] bit = 1 /\ 2 * pc.m # Overflow ->
              Goes([pc EXCEPT !.m = 2 * @, !.st = @ + 1])

bits ==
  /\ Decides({"bits"})
  /\ \E bit \in Bit :
       LET v == pc.v + bit * pc.m IN
         IF pc.m = 1 THEN Value(dec, v)
         ELSE Goes([pc EXCEPT !.v = v, !.m = @ \div 2])

eob ==
  /\ Decides({"eob"})
  /\ \E bit \in Bit :
       Goes(IF bit = 1 THEN Begin(mcu, pc.blkn + 1)
            ELSE [pc EXCEPT !.at = "nonzero"])

nonzero ==
  /\ Decides({"nonzero"})
  /\ \E bit \in Bit :
       CASE bit = 1 -> Goes([pc EXCEPT !.at = "ac_sign"])
         [] bit = 0 /\ pc.k >= Scan.Se -> BadCode
         [] bit = 0 /\ pc.k < Scan.Se  -> Goes([pc EXCEPT !.k = @ + 1])

ac_sign ==
  /\ Decides({"ac_sign"})
  /\ \E bit \in Bit :
       Goes([pc EXCEPT !.at = "category", !.sign = bit,
                       !.st = 3 * (pc.k - 1) + 2])

dc_bit ==
  /\ Decides({"dc_bit"})
  /\ \E bit \in Bit :
       coefs' = [coefs EXCEPT ![Place][0] = @ + bit * 2 ^ Scan.Al]
  /\ pc' = Begin(mcu, pc.blkn + 1)
  /\ UNCHANGED dec

(* A refinement scan. *)
eob_x ==
  /\ Decides({"eob_x"})
  /\ \E bit \in Bit :
       Goes(IF bit = 1 THEN Begin(mcu, pc.blkn + 1)
            ELSE [pc EXCEPT !.at = IF coefs[Place][pc.k] # 0 THEN "old"
                                   ELSE "new"])

(* Coefficient k has its value: on to the next one. *)
Refined(value) ==
  LET now == [coefs EXCEPT ![Place][pc.k] = value] IN
    /\ coefs' = now
    /\ pc' = IF pc.k < Scan.Se
             THEN RefineAt([pc EXCEPT !.k = @ + 1], Place, now)
             ELSE Begin(mcu, pc.blkn + 1)
    /\ UNCHANGED dec

Correction(bit, negative) ==
  (IF negative THEN -bit ELSE bit) * 2 ^ Scan.Al

old ==
  /\ Decides({"old"})
  /\ \E bit \in Bit :
       LET c == coefs[Place][pc.k] IN Refined(c + Correction(bit, c < 0))

new ==
  /\ Decides({"new"})
  /\ \E bit \in Bit :
       CASE bit = 1 -> Goes([pc EXCEPT !.at = "new_sign"])
         [] bit = 0 /\ pc.k >= Scan.Se -> BadCode
         [] bit = 0 /\ pc.k < Scan.Se  ->
              Goes([pc EXCEPT !.k = @ + 1,
                              !.at = IF coefs[Place][pc.k + 1] # 0 THEN "old"
                                     ELSE "new"])

new_sign ==
  /\ Decides({"new_sign"})
  /\ \E bit \in Bit : Refined(Correction(1, bit = 1))

Next ==
  \/ NextMcu \/ NextScan \/ Damage
  \/ process_restart
  \/ dc_zero \/ dc_sign \/ category \/ category2 \/ more \/ bits
  \/ eob \/ nonzero \/ ac_sign
  \/ dc_bit \/ eob_x \/ old \/ new \/ new_sign

Spec == Init /\ [][Next]_vars
-------------------------------------------------------------------------------
(* The decoder always asks for the bin the encoder used, and takes all the *)
(* decisions of an MCU and no more.                                        *)
SameBins ==
  ~damaged =>
    IF pc.at \in {"done", "bad"} THEN read = Len(decisions) /\ pc.at = "done"
    ELSE read < Len(decisions) /\ Ask = decisions[read + 1][1]

(* What is known of a coefficient at the precision of a scan: the DC value *)
(* rounded down, the others towards zero.                                  *)
Known(v, k, Al) ==
  IF k = 0 THEN (v \div 2 ^ Al) * 2 ^ Al
  ELSE (IF v < 0 THEN -1 ELSE 1) * Scaled(v, Al) * 2 ^ Al

(* An MCU that is decoded from undamaged data has the coefficients of the  *)
(* picture, as precise as the scan makes them; damage does not outlive the *)
(* next restart.                                                           *)
RoundTrip ==
  pc.at = "done" /\ mcu > 0 /\ mcu \notin harmed =>
    \A i \in DOMAIN BlocksOf(mcu) : \A k \in Scan.Ss .. Scan.Se :
      LET place == BlocksOf(mcu)[i] IN
        coefs[place][k] = Known(Sample(place, k), k, Scan.Al)

(* Whatever bits come, the decoder keeps to its statistics areas, which    *)
(* jcarith.c says need "at least 49 statistics bins for DC, and 245        *)
(* statistics bins for AC coding" (MagBins = 14), to the coefficients of   *)
(* the scan and to the blocks of the MCU.                                  *)
BinsInRange ==
  /\ pc.k \in 0 .. Scan.Se
  /\ pc.at \notin {"done", "bad", "restart"} =>
       pc.blkn \in 1 .. Len(BlocksOf(mcu)) /\ Ci \in Comps
  /\ pc.at \notin {"done", "bad"} =>
       CASE Ask[1] = "dc" -> Ask[3] \in 0 .. FirstX + 2 * MagBins
         [] Ask[1] = "ac" -> Ask[3] \in 0 .. 189 + 4 * MagBins - 1
         [] OTHER -> TRUE
===============================================================================
