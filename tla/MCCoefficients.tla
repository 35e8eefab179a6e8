--------------------------- MODULE MCCoefficients ---------------------------
(***************************************************************************)
(* Coefficients for TLC: the values of its constants.                      *)
(***************************************************************************)
EXTENDS Coefficients

CONSTANTS Period, Length   \* of the patterns of decisions that are coded

-----------------------------------------------------------------------------
(* Decoding: three components whose coefficients come one component at a   *)
(* time, the first of them again in a last scan, as in a progressive file. *)
(* Encoding: luma in blocks of 8 by 8, chroma in the same or in the 16 by  *)
(* 16 blocks that fancy downsampling chooses.  ScaledDct: one large AC     *)
(* term at each position, which still keeps every sample away from the     *)
(* limits of a byte.                                                       *)

MCComps         == {"Y", "Cb", "Cr"}
MCScans         == <<{"Y"}, {"Cb"}, {"Y", "Cr"}>>
MCInverseQuants == {7, 99}
MCInverseSizes  == {<<8, 8>>, <<16, 8>>}
MCDctMethods    == {"ISLOW", "IFAST", "FLOAT"}

MCTables     == {0, 1}
MCQuants     == {1, 50, 255}
MCBlockSizes == {<<8, 8>>, <<16, 16>>}
MCValues     == {-8160, -517, -13, -4, 0, 4, 12, 13, 300, 8160}

MCLevels == {<<-160, 300>>}

-----------------------------------------------------------------------------
(* Scans of decisions: patterns of bits that are repeated over the fixed   *)
(* bin and two adaptive ones, so that all parts of the probability table,  *)
(* runs of FF bytes and carries through them occur.                        *)

Bit(pattern, period, i) == (pattern \div 2 ^ (i % period)) % 2

\* The bins in turn, one of three ways.
BinAt(way, i) ==
  CASE way = 1 -> "fixed"
    [] way = 2 -> IF i % 3 = 0 THEN "fixed" ELSE "x"
    [] way = 3 -> IF (i \div 5) % 2 = 0 THEN "x" ELSE "y"

Decisions(way, pattern, period, length) ==
  [i \in 1 .. length |-> <<BinAt(way, i), Bit(pattern, period, i)>>]

\* Patterns, found by trying, with a carry through two FF bytes.
Carrying == {109704689, 840720805, 1050334055}

MCDecisionScans ==
  {<<Decisions(way, pattern, Period, Length)>> :
     way \in 1 .. 3, pattern \in 0 .. 2 ^ Period - 1}
  \union
  {<<Decisions(way, pattern, Period, 21), << >>,
     Decisions(1, pattern, Period, n)>> :
     way \in 2 .. 3, n \in {1, 3, 9}, pattern \in 0 .. 2 ^ Period - 1}
  \union
  {<<Decisions(1, pattern, 30, n)>> : pattern \in Carrying, n \in 40 .. 60}

MCBins == {"fixed", "x", "y"}

-----------------------------------------------------------------------------
(* Pictures: blocks are given by their last index and the coefficients     *)
(* that are not zero.                                                      *)

Block(last, dc, ac) ==
  [k \in 0 .. last |->
     IF k = 0 THEN dc
     ELSE IF \E p \in ac : p[1] = k
     THEN (CHOOSE p \in ac : p[1] = k)[2] ELSE 0]

Flat(dc) == Block(63, dc, {})
Busy ==
  Block(63, -700, {<<1, 1>>, <<2, -1>>, <<5, 17>>, <<6, -300>>, <<40, 2>>})
Ends == Block(63, 2047, {<<1, -5>>, <<63, -9>>})
Deep == Block(63, -16384, {<<4, 16383>>, <<5, -3>>, <<6, 1023>>, <<62, 1>>})
Fine == Block(63, -3, {<<3, 1>>, <<7, -2>>, <<8, 3>>, <<9, -4>>})

Pictures ==
  {<<<<Flat(0), Flat(1), Busy>>, <<Ends, Flat(-3), Fine>>,
     <<Fine, Deep, Flat(12)>>>>,
   <<<<Deep, Busy, Fine>>, <<Flat(3), Flat(4), Flat(5)>>,
     <<Fine, Fine, Ends>>>>}

Sequential(Se) == [progressive |-> FALSE, comp |-> 0, Ss |-> 0, Se |-> Se,
                   Ah |-> 0, Al |-> 0]
Prog(comp, Ss, Se, Ah, Al) ==
  [progressive |-> TRUE, comp |-> comp, Ss |-> Ss, Se |-> Se, Ah |-> Ah,
   Al |-> Al]

Scripts ==
  {<<Sequential(63)>>,
   <<Prog(0, 0, 0, 0, 1), Prog(1, 1, 5, 0, 2), Prog(2, 1, 63, 0, 1),
     Prog(1, 6, 63, 0, 2), Prog(1, 1, 63, 2, 1), Prog(0, 0, 0, 1, 0),
     Prog(2, 1, 63, 1, 0), Prog(1, 1, 63, 1, 0)>>}

Whole ==
  [membership |-> <<1, 1, 2>>, dcTbl |-> <<0, 1>>, acTbl |-> <<0, 0>>,
   limSe |-> 63, magBins |-> 14, l |-> 0, u |-> 1, kx |-> 5, faults |-> FALSE]

(* Small blocks, of three coefficients, for damaged data. *)
SmallPictures ==
  {<<<<Block(2, 3, {<<2, -1>>})>>, <<Block(2, -1, {<<1, 2>>})>>,
     <<Block(2, 2, {<<1, -5>>, <<2, 1>>})>>>>}
SmallScripts ==
  {<<Prog(0, 0, 0, 0, 1), Prog(0, 0, 0, 1, 0)>>,
   <<Prog(1, 1, 2, 0, 1), Prog(1, 1, 2, 1, 0)>>}

Small ==
  [membership |-> <<1>>, dcTbl |-> <<0>>, acTbl |-> <<0>>, limSe |-> 2,
   magBins |-> 2, l |-> 1, u |-> 2, kx |-> 1, faults |-> TRUE]

MCJobs ==
  [setup : {Whole}, picture : Pictures, script : Scripts, interval : {0, 1, 2}]
    \union [setup : {Small}, picture : SmallPictures,
            script : {<<Sequential(2)>>}, interval : {1}]
    \union [setup : {Small}, picture : SmallPictures, script : SmallScripts,
            interval : {2}]
=============================================================================
