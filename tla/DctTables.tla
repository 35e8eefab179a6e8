----------------------------- MODULE DctTables -----------------------------
(***************************************************************************)
(* The arithmetic the two DCT managers of libjpeg share: which kind of     *)
(* multiplier a DCT routine wants, and what each kind computes from the    *)
(* entry of a quantization table.  A table is a function from the          *)
(* positions looked at (CONSTANT Positions, a subset of 0..63, in normal   *)
(* order) to integers; the float tables hold the exact rational, so the    *)
(* quantization entry itself stands for them.                              *)
(***************************************************************************)
EXTENDS Integers, Sequences

CONSTANT Positions

PositionsAssumption == Positions \subseteq 0..63

DCTSIZE == 8
CONST_BITS == 14
IFAST_SCALE_BITS == 2

\* 2^14 times the product of the two AA&N scale factors of a position.
aanscales ==
  <<16384, 22725, 21407, 19266, 16384, 12873,  8867,  4520,
    22725, 31521, 29692, 26722, 22725, 17855, 12299,  6270,
    21407, 29692, 27969, 25172, 21407, 16819, 11585,  5906,
    19266, 26722, 25172, 22654, 19266, 15137, 10426,  5315,
    16384, 22725, 21407, 19266, 16384, 12873,  8867,  4520,
    12873, 17855, 16819, 15137, 12873, 10114,  6967,  3552,
     8867, 12299, 11585, 10426,  8867,  6967,  4799,  2446,
     4520,  6270,  5906,  5315,  4520,  3552,  2446,  1247>>

Aan(p) == aanscales[p + 1]

DESCALE(x, n) == (x + 2^(n - 1)) \div 2^n

Abs(n) == IF n < 0 THEN -n ELSE n

Methods == {"ISLOW", "IFAST", "FLOAT"}

\* The sizes a block can be transformed to or from: squares from 1 to 16, and
\* twice as wide or twice as high.
Supported(size) ==
  /\ size[1] \in 1..16 /\ size[2] \in 1..16
  /\ \/ size[1] = size[2]
     \/ size[1] = 2 * size[2]
     \/ size[2] = 2 * size[1]

\* Only the 8 by 8 routines come in three kinds: every scaled one takes an
\* islow-style table.
MethodFor(size, dct_method) ==
  IF size = <<DCTSIZE, DCTSIZE>> THEN dct_method ELSE "ISLOW"

\* The multipliers of the inverse transform for a quantization table.
Multipliers(method, q) ==
  [p \in Positions |->
     IF method = "IFAST"
       THEN DESCALE(q * Aan(p), CONST_BITS - IFAST_SCALE_BITS)
       ELSE q]

\* The divisors of the forward transform for a quantization table.
Divisors(method, q) ==
  [p \in Positions |->
     IF method = "IFAST" THEN DESCALE(q * Aan(p), CONST_BITS - 3)
                         ELSE q * 8]
=============================================================================
