----------------------------- MODULE Coefficients -----------------------------
(***************************************************************************)
(* What libjpeg does to coefficients.  The discrete cosine transforms: the *)
(* routines of every block size (ScaledDct), the decoder's manager         *)
(* (InverseDctManager) and the encoder's (ForwardDctManager).  Arithmetic  *)
(* coding: the coder of decisions (ArithCoder) and the decisions a picture *)
(* is made of (ArithModel), whole or damaged.                              *)
(*                                                                         *)
(* A behaviour is that of one of the five: part says of which.  The        *)
(* variables that the part does not have keep a value without meaning.     *)
(***************************************************************************)
EXTENDS Integers, Sequences

CONSTANTS
  Chosen,            \* the parts that are looked at
  Positions,         \* the positions of a block the managers are followed at
  InverseComps, Scans, InverseQuants, InverseSizes,
  DctMethods,                                            \* InverseDctManager
  N, Tables, Quants, BlockSizes, Values,                 \* ForwardDctManager
  Levels, Tolerance,                                     \* ScaledDct
  DecisionScans, Bins, FixedBin,                         \* ArithCoder
  Jobs                                                   \* ArithModel

VARIABLES
  part,
  slot, size, component_needed, input_scan, eoi, quant_table, arrived,
  cur_method, dct_table, routine, output_scan, shown,  \* InverseDctManager
  dct_method, block_size, quant_tbl_no, quant_tbl_ptrs, ci, divisors,
  float_divisors, do_dct, error, quantized,            \* ForwardDctManager
  scaled_size, coef, stage, ws, samples, data,         \* ScaledDct
  scan,                                      \* ArithCoder and ArithModel
  coded, e, out, est, d, dst, got, phase,              \* ArithCoder
  setup, picture, script, interval, mcu, enc, decisions, read, dec, pc,
  coefs, damaged, harmed                               \* ArithModel

inverseVars == <<slot, size, component_needed, input_scan, eoi, quant_table,
                 arrived, cur_method, dct_table, routine, output_scan, shown>>
forwardVars == <<dct_method, block_size, quant_tbl_no, quant_tbl_ptrs, ci,
                 divisors, float_divisors, do_dct, error, quantized>>
scaledVars  == <<scaled_size, coef, stage, ws, samples, data>>
coderVars   == <<coded, e, out, est, d, dst, got, phase>>
modelVars   == <<setup, picture, script, interval, mcu, enc, decisions, read,
                 dec, pc, coefs, damaged, harmed>>
dctVars     == <<inverseVars, forwardVars, scaledVars>>
arithVars   == <<scan, coderVars, modelVars>>
vars == <<part, dctVars, arithVars>>

-----------------------------------------------------------------------------
(* The parts.  An application shows scans that have started.               *)

Inverse == INSTANCE InverseDctManager
             WITH Comps <- InverseComps, Quants <- InverseQuants,
                  Sizes <- InverseSizes, Ahead <- FALSE
Forward == INSTANCE ForwardDctManager
             WITH Sizes <- BlockSizes, size <- block_size, out <- quantized
Scaled  == INSTANCE ScaledDct WITH size <- scaled_size
Coder   == INSTANCE ArithCoder WITH Scans <- DecisionScans
Model   == INSTANCE ArithModel

ASSUME CoefficientAssumptions ==
  /\ Inverse!PositionsAssumption /\ Inverse!ScansAssumption
  /\ Inverse!SizesAssumption /\ Inverse!QuantsAssumption
  /\ Forward!SizesAssumption /\ Forward!ValuesAssumption
  /\ Scaled!DctAssumption
  /\ Model!ModelAssumption

-----------------------------------------------------------------------------
NoInverse ==
  /\ slot = <<>> /\ size = <<>> /\ component_needed = {} /\ input_scan = 0
  /\ eoi = FALSE /\ quant_table = <<>> /\ arrived = {} /\ cur_method = <<>>
  /\ dct_table = <<>> /\ routine = <<>> /\ output_scan = 0 /\ shown = 0

NoForward ==
  /\ dct_method = "-" /\ block_size = <<>> /\ quant_tbl_no = <<>>
  /\ quant_tbl_ptrs = <<>> /\ ci = 0 /\ divisors = <<>>
  /\ float_divisors = <<>> /\ do_dct = <<>> /\ error = FALSE /\ quantized = <<>>

NoScaled ==
  /\ scaled_size = <<>> /\ coef = <<>> /\ stage = "none" /\ ws = <<>>
  /\ samples = <<>> /\ data = <<>>

NoCoder ==
  /\ coded = <<>> /\ e = <<>> /\ out = <<>> /\ est = <<>> /\ d = <<>>
  /\ dst = <<>> /\ got = <<>> /\ phase = "none"

NoModel ==
  /\ setup = <<>> /\ picture = <<>> /\ script = <<>> /\ interval = 0 /\ mcu = 0
  /\ enc = <<>> /\ decisions = <<>> /\ read = 0 /\ dec = <<>> /\ pc = <<>>
  /\ coefs = <<>> /\ damaged = FALSE /\ harmed = {}

NoArith == scan = 0 /\ NoCoder /\ NoModel

Init ==
  /\ part \in Chosen
  /\ \/ part = "inverse" /\ Inverse!Init /\ NoForward /\ NoScaled /\ NoArith
     \/ part = "forward" /\ Forward!Init /\ NoInverse /\ NoScaled /\ NoArith
     \/ part = "scaled" /\ Scaled!Init /\ NoInverse /\ NoForward /\ NoArith
     \/ /\ NoInverse /\ NoForward /\ NoScaled
        /\ \/ part = "coder" /\ Coder!Init /\ NoModel
           \/ part = "model" /\ Model!Init /\ NoCoder

Next ==
  \/ /\ part = "inverse" /\ Inverse!Next
     /\ UNCHANGED <<part, forwardVars, scaledVars, arithVars>>
  \/ /\ part = "forward" /\ Forward!Next
     /\ UNCHANGED <<part, inverseVars, scaledVars, arithVars>>
  \/ /\ part = "scaled" /\ Scaled!Next
     /\ UNCHANGED <<part, inverseVars, forwardVars, arithVars>>
  \/ part = "coder" /\ Coder!Next /\ UNCHANGED <<part, dctVars, modelVars>>
  \/ part = "model" /\ Model!Next /\ UNCHANGED <<part, dctVars, coderVars>>

Spec == Init /\ [][Next]_vars

-----------------------------------------------------------------------------
(* Properties: those of the components, which say what each is about.      *)

\* For every block size the forward routine undoes the inverse one (but for
\* the four that miss a shift), mirrored and transposed blocks are drawn
\* mirrored and transposed, and flat blocks flat (jidctint.c, jfdctint.c).
ScaledSizesAgree ==
  part = "scaled" =>
    /\ Scaled!TypeOK
    /\ Scaled!RoundTrip
    /\ Scaled!FlipMirrors
    /\ Scaled!TransposeCommutes
    /\ Scaled!FlatStaysFlat

\* A finished pass has shown every component that had arrived by its target
\* scan with the multipliers of the component's own table, and no routine
\* reads a table built for another method (start_pass of jddctmgr.c).
PassShowsItsScan ==
  /\ [](part = "inverse" =>
          Inverse!TypeOK /\ Inverse!TablesFitTheirRoutine)
  /\ Inverse!PassShowsItsScan

\* A coefficient is written as the nearest multiple of its own component's
\* quantization step, unless a later component of another method has put its
\* divisors in the place of the component's, as both name one table; no
\* coefficient, of those either, is divided by zero (start_pass_fdctmgr,
\* forward_DCT).
QuantizesByItsOwnStep ==
  part = "forward" =>
    /\ Forward!TypeOK
    /\ Forward!QuantizesByItsOwnStep
    /\ Forward!NoZeroDivisor

\* That the divisors of a table may be computed more than once makes no
\* difference to any component.  Not so, as Forward says (the comment at the
\* divisors of start_pass_fdctmgr).
SharingIsNoBigDeal == part = "forward" => Forward!SharingIsNoBigDeal

\* Whatever decisions are coded, they are decoded, in an interval after
\* others too; carries run through stacked bytes, no byte imitates a marker,
\* and the dropped zeros are the ones the decoder supplies (arith_encode,
\* finish_pass, arith_decode).  The decoder asks for the bins the encoder used
\* and gets the picture back scan by scan; after damage it is right again from
\* the next restart on (encode_mcu, decode_mcu and their progressive siblings).
DecisionsSurvive ==
  /\ part = "coder" =>
       /\ Coder!TypeOK /\ Coder!RoundTrip /\ Coder!OnlyOurMarkers
       /\ Coder!NoTrailingZeros /\ Coder!NothingLeftOver
  /\ part = "model" => Model!SameBins /\ Model!RoundTrip

\* With damaged data too the decoder keeps to its statistics areas and to the
\* coefficients of its blocks, or gives up (the checks for a magnitude and a
\* spectral overflow of decode_mcu and its progressive siblings, jdarith.c).
DecoderKeepsToItsBins == part = "model" => Model!BinsInRange
=============================================================================
