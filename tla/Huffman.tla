------------------------------- MODULE Huffman -------------------------------
(***************************************************************************)
(* Huffman coding: the making of a table (HuffmanOptimizer), a sequential  *)
(* scan through compressor, channel and decompressor (HuffmanScan) and     *)
(* progressive scans (ProgressiveScan).                                    *)
(*                                                                         *)
(* A behaviour is that of one of the three: part says of which.  Variables *)
(* of the same name are one variable here, and those that the part does    *)
(* not have keep a value without meaning.                                  *)
(***************************************************************************)
EXTENDS Integers, Sequences

CONSTANTS
  Chosen,                                  \* the parts that are looked at
  TableMaxLen, TableLookahead, N, Counts, MAX_CLEN, GivenBits,
  GivenVals,                                           \* HuffmanOptimizer
  MaxLen, Lookahead, MinGet, Intervals,                \* any scan
  Baseline, Natural, Membership, Pictures, BufSize, Rooms, Wanted,
  Losses,                                              \* HuffmanScan
  Banded, MaxEobRun, MaxCorrBits, Images, Scripts      \* ProgressiveScan

VARIABLES
  part, phase,
  seen, freq, branch, codesize, bits, huffval, ctbl, dtbl, probe, \* a table
  interval, last_dc, to_go, num, index, counts, used, file, avail,
  reader,                                                         \* any scan
  mcus, waits, wanted, saved, room, lost, out,             \* sequential
  image, script, scan, EOBRUN, BE, writer, coefs           \* progressive

tableVars == <<seen, freq, branch, codesize, bits, huffval, ctbl, dtbl, probe>>
scanVars  == <<interval, last_dc, to_go, num, index, counts, used, file,
               avail, reader>>
sequentialVars  == <<mcus, waits, wanted, saved, room, lost, out>>
progressiveVars == <<image, script, scan, EOBRUN, BE, writer, coefs>>
vars == <<part, phase, tableVars, scanVars, sequentialVars, progressiveVars>>

-----------------------------------------------------------------------------
(* The parts.  Baseline and Banded say how large the blocks of a scan are, *)
(* how long a run one symbol takes, and what its Huffman tables are.       *)

Table == INSTANCE HuffmanOptimizer
           WITH MaxLen <- TableMaxLen, Lookahead <- TableLookahead

Sequential ==
  INSTANCE HuffmanScan
    WITH D <- Baseline.D, RunMax <- Baseline.RunMax,
         DcBits <- Baseline.DcBits, DcVals <- Baseline.DcVals,
         AcBits <- Baseline.AcBits, AcVals <- Baseline.AcVals

Progressive ==
  INSTANCE ProgressiveScan
    WITH D <- Banded.D, RunMax <- Banded.RunMax,
         DcBits <- Banded.DcBits, DcVals <- Banded.DcVals,
         AcBits <- Banded.AcBits, AcVals <- Banded.AcVals

ASSUME HuffmanAssumptions ==
  /\ Table!LengthsAssumption /\ Sequential!LengthsAssumption
  /\ Sequential!MinGetAssumption /\ Progressive!MinGetAssumption
  /\ Sequential!PicturesAssumption /\ Progressive!ScansAssumption

-----------------------------------------------------------------------------
NoTable ==
  /\ seen = <<>> /\ freq = <<>> /\ branch = <<>> /\ codesize = <<>>
  /\ bits = <<>> /\ huffval = <<>> /\ ctbl = <<>> /\ dtbl = <<>> /\ probe = -1

NoScan ==
  /\ interval = 0 /\ last_dc = <<>> /\ to_go = 0 /\ num = 0 /\ index = 0
  /\ counts = <<>> /\ used = <<>> /\ file = <<>> /\ avail = 0 /\ reader = <<>>

NoSequential ==
  /\ mcus = <<>> /\ waits = FALSE /\ wanted = <<>> /\ saved = <<>>
  /\ room = 0 /\ lost = <<>> /\ out = <<>>

NoProgressive ==
  /\ image = <<>> /\ script = <<>> /\ scan = 0 /\ EOBRUN = 0 /\ BE = <<>>
  /\ writer = <<>> /\ coefs = <<>>

Init ==
  /\ part \in Chosen
  /\ \/ part = "table" /\ Table!Init /\ NoScan /\ NoSequential /\ NoProgressive
     \/ part = "sequential" /\ Sequential!Init /\ NoTable /\ NoProgressive
     \/ part = "progressive" /\ Progressive!Init /\ NoTable /\ NoSequential

Next ==
  \/ /\ part = "table" /\ Table!Next
     /\ UNCHANGED <<part, scanVars, sequentialVars, progressiveVars>>
  \/ /\ part = "sequential" /\ Sequential!Next
     /\ UNCHANGED <<part, tableVars, progressiveVars>>
  \/ /\ part = "progressive" /\ Progressive!Next
     /\ UNCHANGED <<part, tableVars, sequentialVars>>

Spec == Init /\ [][Next]_vars

-----------------------------------------------------------------------------
(* Properties: those of the components, which say what each is about.      *)

\* A table made from any counts is legal and as short as a code can be, and
\* whatever table both sides accept codes every symbol so that the decoder
\* reads it back, never the padding (jpeg_gen_optimal_table,
\* jpeg_make_c_derived_tbl, jpeg_make_d_derived_tbl).
TablesAreSound ==
  part = "table" =>
    /\ Table!TypeOK /\ Table!CodesDecode /\ Table!PaddingIsNoSymbol
    /\ Table!OptimalTableIsLegal /\ Table!TreeIsShortest

\* What the encoders write: the pass that counts the symbols counts those that
\* the next one emits, whatever is started over, put off or forced out by a
\* restart (encode_mcu_gather, encode_mcu_huff, emit_eobrun); the data hold no
\* markers but those meant; and a run that is put off leaves room for the next
\* block (encode_mcu_AC_refine).
ScansAreSound ==
  /\ part = "sequential" =>
       Sequential!GatherAgrees /\ Sequential!OnlyOurMarkers
  /\ part = "progressive" =>
       Progressive!GatherAgrees /\ Progressive!RunsFit

\* What the decoders make of it, who may have to wait anywhere and start an MCU
\* over, and who may lose intervals and restart markers: what arrived whole is
\* decoded, scan by scan as precisely as the scans say, and nothing waits for
\* data that do not come (decode_mcu and its progressive siblings,
\* jpeg_resync_to_restart).
ScansSurvive ==
  /\ part = "sequential" =>
       /\ Sequential!TypeOK /\ Sequential!RoundTrip /\ Sequential!NoFalseAlarm
       /\ Sequential!IntactIntervalsSurvive /\ Sequential!NeverWaitsInVain
  /\ part = "progressive" =>
       /\ Progressive!TypeOK /\ Progressive!CoefficientsArePrecise
       /\ Progressive!NeverWaitsInVain
=============================================================================
