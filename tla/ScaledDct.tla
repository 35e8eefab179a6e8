----------------------------- MODULE ScaledDct ------------------------------
(***************************************************************************)
(* jidctint.c and jfdctint.c: the inverse and the forward DCT of libjpeg   *)
(* for every block size it supports, the tables of jddctmgr.c and          *)
(* jcdctmgr.c that choose among them, and the range-limit table of         *)
(* jdmaster.c.  A routine is two passes of one-dimensional kernels: the    *)
(* inverse one runs the h-point kernel down the columns and the w-point    *)
(* kernel along the rows, the forward one the rows first; Routine names    *)
(* the two sizes and the two shifts.                                       *)
(*                                                                         *)
(* A behaviour takes one block of dequantized coefficients through the     *)
(* inverse routine of a size, and the samples through the forward routine  *)
(* of the same size.  The steps are the passes of the source.              *)
(***************************************************************************)
EXTENDS FdctKernels

CONSTANTS
  Levels,     \* pairs <<dc, ac>>: the values of the coefficients of a block
  Tolerance   \* what rounding may cost, in eighths of a coefficient

DctAssumption ==
  /\ Levels \subseteq Int \X Int
  /\ Tolerance \in Nat

VARIABLES size, coef, stage, ws, samples, data

vars == <<size, coef, stage, ws, samples, data>>

PASS1_BITS == 2
DCTSIZE == 8
CENTERJSAMPLE == 128
MAXJSAMPLE == 255

Routine(w, h, s1, s2) == [w |-> w, h |-> h, s1 |-> s1, s2 |-> s2]

\* jidctint.c: columns of h points descaled by s1, rows of w points by s2.
jpeg_idct_islow  == Routine(8, 8, 11, 18)
jpeg_idct_7x7    == Routine(7, 7, 11, 18)
jpeg_idct_6x6    == Routine(6, 6, 11, 18)
jpeg_idct_5x5    == Routine(5, 5, 11, 18)
jpeg_idct_4x4    == Routine(4, 4, 11, 18)
jpeg_idct_3x3    == Routine(3, 3, 11, 18)
jpeg_idct_2x2    == Routine(2, 2, 0, 3)
jpeg_idct_1x1    == Routine(1, 1, 0, 3)
jpeg_idct_9x9    == Routine(9, 9, 11, 18)
jpeg_idct_10x10  == Routine(10, 10, 11, 18)
jpeg_idct_11x11  == Routine(11, 11, 11, 18)
jpeg_idct_12x12  == Routine(12, 12, 11, 18)
jpeg_idct_13x13  == Routine(13, 13, 11, 18)
jpeg_idct_14x14  == Routine(14, 14, 11, 18)
jpeg_idct_15x15  == Routine(15, 15, 11, 18)
jpeg_idct_16x16  == Routine(16, 16, 11, 18)
jpeg_idct_16x8   == Routine(16, 8, 11, 18)
jpeg_idct_14x7   == Routine(14, 7, 11, 18)
jpeg_idct_12x6   == Routine(12, 6, 11, 18)
jpeg_idct_10x5   == Routine(10, 5, 11, 18)
jpeg_idct_8x4    == Routine(8, 4, 11, 18)
jpeg_idct_6x3    == Routine(6, 3, 11, 18)
jpeg_idct_4x2    == Routine(4, 2, 0, 16)
jpeg_idct_2x1    == Routine(2, 1, 0, 3)
jpeg_idct_8x16   == Routine(8, 16, 11, 18)
jpeg_idct_7x14   == Routine(7, 14, 11, 18)
jpeg_idct_6x12   == Routine(6, 12, 11, 18)
jpeg_idct_5x10   == Routine(5, 10, 11, 18)
jpeg_idct_4x8    == Routine(4, 8, 11, 18)
jpeg_idct_3x6    == Routine(3, 6, 11, 18)
jpeg_idct_2x4    == Routine(2, 4, 0, 16)
jpeg_idct_1x2    == Routine(1, 2, 0, 3)

InverseRoutines ==
  {jpeg_idct_islow, jpeg_idct_7x7, jpeg_idct_6x6, jpeg_idct_5x5,
   jpeg_idct_4x4, jpeg_idct_3x3, jpeg_idct_2x2, jpeg_idct_1x1, jpeg_idct_9x9,
   jpeg_idct_10x10, jpeg_idct_11x11, jpeg_idct_12x12, jpeg_idct_13x13,
   jpeg_idct_14x14, jpeg_idct_15x15, jpeg_idct_16x16, jpeg_idct_16x8,
   jpeg_idct_14x7, jpeg_idct_12x6, jpeg_idct_10x5, jpeg_idct_8x4,
   jpeg_idct_6x3, jpeg_idct_4x2, jpeg_idct_2x1, jpeg_idct_8x16,
   jpeg_idct_7x14, jpeg_idct_6x12, jpeg_idct_5x10, jpeg_idct_4x8,
   jpeg_idct_3x6, jpeg_idct_2x4, jpeg_idct_1x2}

\* jfdctint.c: rows of w points descaled by s1, columns of h points by s2.
jpeg_fdct_islow  == Routine(8, 8, 11, 15)
jpeg_fdct_7x7    == Routine(7, 7, 11, 15)
jpeg_fdct_6x6    == Routine(6, 6, 11, 15)
jpeg_fdct_5x5    == Routine(5, 5, 10, 15)
jpeg_fdct_4x4    == Routine(4, 4, 9, 15)
jpeg_fdct_3x3    == Routine(3, 3, 9, 15)
jpeg_fdct_2x2    == Routine(2, 2, 0, -4)
jpeg_fdct_1x1    == Routine(1, 1, 0, -6)
jpeg_fdct_9x9    == Routine(9, 9, 12, 15)
jpeg_fdct_10x10  == Routine(10, 10, 12, 15)
jpeg_fdct_11x11  == Routine(11, 11, 12, 15)
jpeg_fdct_12x12  == Routine(12, 12, 13, 14)
jpeg_fdct_13x13  == Routine(13, 13, 13, 14)
jpeg_fdct_14x14  == Routine(14, 14, 13, 14)
jpeg_fdct_15x15  == Routine(15, 15, 13, 15)
jpeg_fdct_16x16  == Routine(16, 16, 11, 17)
jpeg_fdct_16x8   == Routine(16, 8, 11, 16)
jpeg_fdct_14x7   == Routine(14, 7, 11, 16)
jpeg_fdct_12x6   == Routine(12, 6, 11, 16)
jpeg_fdct_10x5   == Routine(10, 5, 11, 15)
jpeg_fdct_8x4    == Routine(8, 4, 10, 15)
jpeg_fdct_6x3    == Routine(6, 3, 10, 15)
jpeg_fdct_4x2    == Routine(4, 2, 8, 2)
jpeg_fdct_2x1    == Routine(2, 1, 0, -5)
jpeg_fdct_8x16   == Routine(8, 16, 11, 16)
jpeg_fdct_7x14   == Routine(7, 14, 11, 15)
jpeg_fdct_6x12   == Routine(6, 12, 11, 15)
jpeg_fdct_5x10   == Routine(5, 10, 11, 15)
jpeg_fdct_4x8    == Routine(4, 8, 10, 15)
jpeg_fdct_3x6    == Routine(3, 6, 10, 15)
jpeg_fdct_2x4    == Routine(2, 4, -3, 13)
jpeg_fdct_1x2    == Routine(1, 2, 0, -5)

ForwardRoutines ==
  {jpeg_fdct_islow, jpeg_fdct_7x7, jpeg_fdct_6x6, jpeg_fdct_5x5,
   jpeg_fdct_4x4, jpeg_fdct_3x3, jpeg_fdct_2x2, jpeg_fdct_1x1, jpeg_fdct_9x9,
   jpeg_fdct_10x10, jpeg_fdct_11x11, jpeg_fdct_12x12, jpeg_fdct_13x13,
   jpeg_fdct_14x14, jpeg_fdct_15x15, jpeg_fdct_16x16, jpeg_fdct_16x8,
   jpeg_fdct_14x7, jpeg_fdct_12x6, jpeg_fdct_10x5, jpeg_fdct_8x4,
   jpeg_fdct_6x3, jpeg_fdct_4x2, jpeg_fdct_2x1, jpeg_fdct_8x16,
   jpeg_fdct_7x14, jpeg_fdct_6x12, jpeg_fdct_5x10, jpeg_fdct_4x8,
   jpeg_fdct_3x6, jpeg_fdct_2x4, jpeg_fdct_1x2}

Sizes == {<<r.w, r.h>> : r \in InverseRoutines}
Low(n) == 0 .. (IF n < DCTSIZE THEN n ELSE DCTSIZE) - 1

\* start_pass of the two DCT managers, for dct_method JDCT_ISLOW.
InverseRoutine(wh) == CHOOSE r \in InverseRoutines : <<r.w, r.h>> = wh
ForwardRoutine(wh) == CHOOSE r \in ForwardRoutines : <<r.w, r.h>> = wh

-----------------------------------------------------------------------------
(* The inverse DCT. *)

\* The table indexed with value & RANGE_MASK: ten bits, shifted by the
\* centre value, limited to the samples, and wrapping beyond that.
range_limit(v) ==
  LET m == v % 1024 IN
  CASE m < 128 -> m + CENTERJSAMPLE
    [] m \in 128 .. 511 -> MAXJSAMPLE
    [] m \in 512 .. 895 -> 0
    [] OTHER -> m - 896

NoAC(x) == \A k \in 1 .. DCTSIZE - 1 : x[k] = 0
Flat(n, v) == [i \in 0 .. n - 1 |-> v]

\* Only the 8-point column pass looks for columns without AC terms.
Column(r, x) ==
  CASE r.h = 8 /\ r.s1 = 11 /\ r # jpeg_idct_8x16 /\ NoAC(x) ->
         Flat(8, x[0] * 2^PASS1_BITS)
    [] r.h = 4 /\ r.s1 = 11 -> Idct4Columns(x)
    [] OTHER -> LET y == Idct(r.h, x) IN
                [i \in 0 .. r.h - 1 |-> DESCALE(y[i], r.s1)]

Columns(r, c) ==
  [u \in Low(r.w) |-> Column(r, [v \in Low(r.h) |-> c[v][u]])]

\* A slip: a row without AC terms is rounded down.
RowSumRoundsDown(r, x) ==
  IF r = jpeg_idct_islow /\ NoAC(x)
  THEN Flat(8, x[0] \div 2^(PASS1_BITS + 3))
  ELSE LET y == Idct(r.w, x) IN
       [i \in 0 .. r.w - 1 |-> DESCALE(y[i], r.s2)]

\* jpeg_idct_islow alone also looks for rows without AC terms.
RowSum(r, x) ==
  IF r = jpeg_idct_islow /\ NoAC(x)
  THEN Flat(8, DESCALE(x[0], PASS1_BITS + 3))
  ELSE LET y == Idct(r.w, x) IN
       [i \in 0 .. r.w - 1 |-> DESCALE(y[i], r.s2)]

Rows(r, work) ==
  [y \in 0 .. r.h - 1 |->
     LET row == RowSum(r, [u \in Low(r.w) |-> work[u][y]]) IN
     [x \in 0 .. r.w - 1 |-> range_limit(row[x])]]

-----------------------------------------------------------------------------
(* The forward DCT. *)

ForwardRows(r, s) ==
  [y \in 0 .. r.h - 1 |->
     LET k == Fdct(r.w, 1, [x \in 0 .. r.w - 1 |-> s[y][x] - CENTERJSAMPLE])
     IN  [u \in Low(r.w) |-> DESCALE(k[u], r.s1)]]

ForwardColumns(r, work) ==
  LET column ==
        [u \in Low(r.w) |->
           LET k == Fdct(r.h, 2, [y \in 0 .. r.h - 1 |-> work[y][u]])
           IN  [v \in Low(r.h) |-> DESCALE(k[v], r.s2)]]
  IN  [v \in Low(8) |-> [u \in Low(8) |->
         IF u \in Low(r.w) /\ v \in Low(r.h) THEN column[u][v] ELSE 0]]

-----------------------------------------------------------------------------
Zero == [v \in Low(8) |-> [u \in Low(8) |-> 0]]

\* A DC term and one other coefficient, among those the size carries.
Block(dc, v, u, ac) ==
  [y \in Low(8) |-> [x \in Low(8) |->
     (IF y = 0 /\ x = 0 THEN dc ELSE 0) + (IF y = v /\ x = u THEN ac ELSE 0)]]

Init ==
  /\ size \in Sizes
  /\ \E l \in Levels, v \in Low(size[2]), u \in Low(size[1]) :
       coef = Block(l[1], v, u, l[2])
  /\ stage = "coefficients"
  /\ ws = <<>> /\ samples = <<>> /\ data = <<>>

InverseColumns ==
  /\ stage = "coefficients"
  /\ ws' = Columns(InverseRoutine(size), coef)
  /\ stage' = "columns"
  /\ UNCHANGED <<size, coef, samples, data>>

InverseRows ==
  /\ stage = "columns"
  /\ samples' = Rows(InverseRoutine(size), ws)
  /\ stage' = "samples"
  /\ UNCHANGED <<size, coef, ws, data>>

FirstPass ==
  /\ stage = "samples"
  /\ ws' = ForwardRows(ForwardRoutine(size), samples)
  /\ stage' = "rows"
  /\ UNCHANGED <<size, coef, samples, data>>

SecondPass ==
  /\ stage = "rows"
  /\ data' = ForwardColumns(ForwardRoutine(size), ws)
  /\ stage' = "data"
  /\ UNCHANGED <<size, coef, ws, samples>>

Next == InverseColumns \/ InverseRows \/ FirstPass \/ SecondPass

Spec == Init /\ [][Next]_vars

-----------------------------------------------------------------------------
(* Properties. *)

\* The samples are bytes; the forward transform's output fits a 16-bit
\* JCOEF after it is divided by 8.
TypeOK ==
  /\ size \in Sizes
  /\ stage \in {"coefficients", "columns", "samples", "rows", "data"}
  /\ stage \in {"samples", "rows", "data"} =>
       \A y \in DOMAIN samples : \A x \in DOMAIN samples[y] :
         samples[y][x] \in 0 .. MAXJSAMPLE
  /\ stage = "data" =>
       \A v, u \in Low(8) : data[v][u] \in -(8 * 32768) .. 8 * 32767

Near(a, b, d) == a - b \in -d .. d

Recovered(tolerance) ==
  \A v, u \in Low(8) : Near(data[v][u], 8 * coef[v][u], tolerance)

\* The forward routine of a size undoes the inverse one: what was drawn with
\* one size is measured with the same one.  The four row passes that miss a
\* shift (FdctKernels) do not, and are left out.
MissesShift == {<<12, 12>>, <<12, 6>>, <<14, 14>>, <<14, 7>>}
RoundTrip ==
  stage = "data" /\ size \notin MissesShift => Recovered(Tolerance)

Draw(wh, c) ==
  Rows(InverseRoutine(wh), Columns(InverseRoutine(wh), c))

\* The lossless flips of transupp.c negate the odd columns of a block and
\* expect its samples mirrored; here is that, up to one step of rounding,
\* for every size.  Rotations also exchange rows and columns.
FlipMirrors ==
  stage = "samples" =>
    LET flipped == [v \in Low(8) |-> [u \in Low(8) |->
                      IF u % 2 = 1 THEN -coef[v][u] ELSE coef[v][u]]]
        drawn == Draw(size, flipped)
    IN  \A y \in 0 .. size[2] - 1 :
          LET row == drawn[y] IN
          \A x \in 0 .. size[1] - 1 :
            Near(row[size[1] - 1 - x], samples[y][x], 1)

TransposeCommutes ==
  stage = "samples" =>
    LET drawn == Draw(<<size[2], size[1]>>,
                      [v \in Low(8) |-> [u \in Low(8) |-> coef[u][v]]])
    IN  \A x \in 0 .. size[1] - 1 :
          LET row == drawn[x] IN
          \A y \in 0 .. size[2] - 1 : Near(row[y], samples[y][x], 1)

\* A block with a DC term only is one flat colour at every size, the colour
\* of the one-pixel version of it: no routine leaves a gradient or a seam
\* between blocks of different sizes.
FlatStaysFlat ==
  stage = "samples" /\ (\A v, u \in Low(8) : v + u > 0 => coef[v][u] = 0) =>
    \A y \in 0 .. size[2] - 1, x \in 0 .. size[1] - 1 :
      samples[y][x] = Draw(<<1, 1>>, coef)[0][0]
=============================================================================
