------------------------- MODULE InverseDctManager -------------------------
(***************************************************************************)
(* The inverse DCT manager of libjpeg (jddctmgr.c) in a buffered-image     *)
(* decoder: the file is a sequence of scans, each brings coefficients of   *)
(* some components, and the application may start an output pass at any    *)
(* time, with another DCT method and for any target scan.                  *)
(*                                                                         *)
(* A component's quantization table is latched when the first scan that    *)
(* holds the component starts (latch_quant_tables); its multiplier table   *)
(* is built at the first start_pass after that, and again only when the    *)
(* method changes (cur_method).                                            *)
(***************************************************************************)
EXTENDS DctTables, FiniteSets

CONSTANTS
  Comps,       \* the components of the image
  Scans,       \* the scans of the file: a sequence of sets of components
  Quants,      \* the values a quantization table slot may hold
  Sizes,       \* the sizes the components may be transformed to
  DctMethods,  \* the methods the application asks for
  Ahead        \* may a pass target a scan that has not started yet?

ScansAssumption ==
  /\ Scans \in Seq(SUBSET Comps)
  /\ UNION {Scans[s] : s \in DOMAIN Scans} = Comps
SizesAssumption == \A size \in Sizes : Supported(size)
QuantsAssumption == Quants \subseteq Nat \ {0} /\ DctMethods \subseteq Methods

VARIABLES
  slot,              \* what the table slot holds when each scan starts
  size,              \* DCT_h_scaled_size and DCT_v_scaled_size
  component_needed,  \* the components the output colour space uses
  input_scan,        \* input_scan_number
  eoi,               \* eoi_reached
  quant_table,       \* the latched table of a component, 0 when NULL
  arrived,           \* the components with coefficients in the arrays
  cur_method,        \* what a component's multiplier table is built for
  dct_table,         \* the multiplier tables
  routine,           \* the method of inverse_DCT[ci]
  output_scan,       \* output_scan_number, 0 between passes
  shown              \* the target of the pass just finished, 0 before

input == <<input_scan, eoi, quant_table, arrived>>
pass == <<cur_method, dct_table, routine>>
file == <<slot, size, component_needed>>
vars == <<input, pass, file, output_scan, shown>>

Zero == [p \in Positions |-> 0]
NoMethod == "-1"

TypeOK ==
  /\ slot \in [DOMAIN Scans -> Quants]
  /\ size \in [Comps -> Sizes]
  /\ component_needed \subseteq Comps
  /\ input_scan \in DOMAIN Scans /\ eoi \in BOOLEAN
  /\ quant_table \in [Comps -> Quants \cup {0}]
  /\ arrived \subseteq Comps
  /\ cur_method \in [Comps -> Methods \cup {NoMethod}]
  /\ \A c \in Comps : DOMAIN dct_table[c] = Positions
  /\ routine \in [Comps -> Methods \cup {NoMethod}]
  /\ output_scan \in 0..Len(Scans) /\ shown \in 0..Len(Scans)

-----------------------------------------------------------------------------
\* What start_input_pass does for scan s: a component's table is kept from
\* the first scan that holds it, whatever later scans put in the slot.
Latch(table, s) ==
  [c \in Comps |->
     IF c \in Scans[s] /\ table[c] = 0 THEN slot[s] ELSE table[c]]

\* jpeg_start_decompress of a buffered image: the first SOS has been read and
\* its input pass started; no output pass yet.
Init ==
  /\ slot \in [DOMAIN Scans -> Quants]
  /\ size \in [Comps -> Sizes]
  /\ component_needed \in (SUBSET Comps) \ {{}}
  /\ input_scan = 1 /\ eoi = FALSE
  /\ quant_table = Latch([c \in Comps |-> 0], 1)
  /\ arrived = {}
  /\ cur_method = [c \in Comps |-> NoMethod]
  /\ dct_table = [c \in Comps |-> Zero]
  /\ routine = [c \in Comps |-> NoMethod]
  /\ output_scan = 0 /\ shown = 0

\* The rest of the current scan comes in and the marker after it is read:
\* another SOS starts the next input pass, EOI pulls a target that lies beyond
\* the end back to the last scan.  The application calls jpeg_consume_input,
\* or decompress_data and jpeg_finish_output do it to catch up.
ConsumeScan ==
  /\ ~eoi
  /\ arrived' = arrived \cup Scans[input_scan]
  /\ IF input_scan < Len(Scans)
       THEN /\ input_scan' = input_scan + 1
            /\ quant_table' = Latch(quant_table, input_scan + 1)
            /\ UNCHANGED <<eoi, output_scan>>
       ELSE /\ eoi' = TRUE
            /\ output_scan' = IF output_scan > input_scan THEN input_scan
                                                          ELSE output_scan
            /\ UNCHANGED <<input_scan, quant_table>>
  /\ UNCHANGED <<pass, file, shown>>

\* A slip: a component that has no table yet is not skipped.
SkipUnlatched(c, method) ==
  \/ c \notin component_needed
  \/ cur_method[c] = method
  \/ c \notin arrived

\* The table is built already, or cannot be built yet, or nobody wants it.
Skip(c, method) ==
  \/ c \notin component_needed
  \/ cur_method[c] = method
  \/ quant_table[c] = 0

\* start_pass of the manager for the method the application chose.
StartPass(dct_method) ==
  LET method == [c \in Comps |-> MethodFor(size[c], dct_method)]
      kept == {c \in Comps : Skip(c, method[c])}
  IN /\ routine' = method
     /\ cur_method' =
          [c \in Comps |-> IF c \in kept THEN cur_method[c] ELSE method[c]]
     /\ dct_table' =
          [c \in Comps |-> IF c \in kept THEN dct_table[c]
                           ELSE Multipliers(method[c], quant_table[c])]

\* jpeg_start_output: once the file has ended the target is at most the last
\* scan.
StartOutput ==
  /\ output_scan = 0
  /\ \E target \in DOMAIN Scans, dct_method \in DctMethods :
       /\ Ahead \/ eoi \/ target <= input_scan
       /\ output_scan' = target
       /\ StartPass(dct_method)
  /\ UNCHANGED <<input, file, shown>>

\* decompress_data has shown the last row, which waits for the target scan,
\* and jpeg_finish_output has read the marker after it.
FinishOutput ==
  /\ output_scan > 0
  /\ eoi \/ input_scan > output_scan
  /\ shown' = output_scan
  /\ output_scan' = 0
  /\ UNCHANGED <<input, pass, file>>

Stop == eoi /\ output_scan = 0 /\ shown > 0 /\ UNCHANGED vars

Next == ConsumeScan \/ StartOutput \/ FinishOutput \/ Stop

Spec == Init /\ [][Next]_vars
-----------------------------------------------------------------------------
FirstScan(c) ==
  CHOOSE s \in DOMAIN Scans :
    c \in Scans[s] /\ \A t \in 1..(s - 1) : c \notin Scans[t]

\* What the routine makes of a unit coefficient, against the quantization
\* step q: exactly q, or within the rounding of the scaled integer.
Restores(c, q) ==
  \A p \in Positions :
    IF routine[c] = "IFAST"
      THEN 2 * Abs(dct_table[c][p] * 2^(CONST_BITS - IFAST_SCALE_BITS)
                     - q * Aan(p))
             <= 2^(CONST_BITS - IFAST_SCALE_BITS)
      ELSE dct_table[c][p] = q

\* A multiplier table that has been built suits the routine that will read it
\* and holds the steps of the component's first scan, whatever the slot was
\* redefined to and whatever method earlier passes used (the cur_method test
\* of start_pass).
TablesFitTheirRoutine ==
  \A c \in component_needed :
    (output_scan > 0 /\ cur_method[c] # NoMethod)
      => Restores(c, slot[FirstScan(c)])

\* The pass for a target scan, when it is over, has shown every component the
\* file had brought by that scan with the multipliers of its own table
\* (start_pass and the interlock of decompress_data).
PassShowsItsScan ==
  [][\A c \in component_needed :
       (FinishOutput /\ FirstScan(c) <= output_scan)
         => Restores(c, slot[FirstScan(c)])]_vars
=============================================================================
