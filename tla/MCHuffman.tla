------------------------------ MODULE MCHuffman ------------------------------
(***************************************************************************)
(* Huffman for TLC: the values of its constants.                           *)
(***************************************************************************)
EXTENDS Huffman

-----------------------------------------------------------------------------
(* Tables: codes of up to three bits for five symbols.  Ready-made ones    *)
(* have any choice of up to two codes of each length, with the symbols in  *)
(* order, backwards, with one repeated and with one out of range.          *)

MCCounts    == {0, 1, 4, 9}
MCGivenBits == [1..3 -> 0..2]
MCGivenVals ==
  {[i \in 1..N |-> i - 1], [i \in 1..N |-> N - i],
   [i \in 1..N |-> IF i = 2 THEN 0 ELSE i - 1],
   [i \in 1..N |-> i]}

-----------------------------------------------------------------------------
(* A sequential scan: blocks of 2 by 2 coefficients, three of them to an   *)
(* MCU, and code tables in which long codes begin with ones, so that FF    *)
(* bytes are frequent.  Runs that need a ZRL, blocks with and without an   *)
(* end of block, and the largest difference occur.                         *)

MCBaseline ==
  [D |-> 2, RunMax |-> 1,
   DcBits |-> <<1, 1, 1, 1, 0>>, DcVals |-> <<1, 0, 2, 3>>,
   AcBits |-> <<0, 3, 1, 1, 1>>, AcVals |-> <<0, 1, 16, 6, 17, 22>>]
MCNatural == <<<<0, 0>>, <<0, 1>>, <<1, 0>>, <<1, 1>>>>
MCMembership == <<1, 1, 2>>
MCIntervals == {0, 1, 2}

Flat   == <<0, 0, 0, 0>>
Full   == <<3, 63, 63, -1>>
Sparse == <<-3, 0, 0, 63>>
Middle == <<-2, 0, 63, 0>>
A == <<Flat, Middle, Full>>
B == <<Full, Full, Sparse>>
C == <<Sparse, Flat, Middle>>

MCPictures == {<<A, B, C, B>>, <<C, A, A, B>>}
MCRooms == {5, 16}
MCWanted == {<<<<2, 2>>, <<2, 2>>>>, <<<<1, 2>>, <<>>>>, <<<<>>, <<2, 1>>>>}
MCLosses == {<<0, 0>>, <<1, 1>>, <<1, 2>>, <<2, 3>>}

-----------------------------------------------------------------------------
(* Progressive scans: blocks of 3 by 3 coefficients with runs of at most   *)
(* two zeros to a symbol, end-of-block runs of at most three blocks, and   *)
(* room for three correction bits besides those of one block.              *)

MCBanded ==
  [D |-> 3, RunMax |-> 2,
   DcBits |-> <<0, 1, 3, 1, 0>>, DcVals |-> <<2, 0, 1, 3, 4>>,
   AcBits |-> <<0, 2, 2, 2, 3>>,
   AcVals |-> <<0, 1, 16, 17, 33, 32, 2, 18, 34>>]

Low     == <<-3, 0, 0, 0, 0, 0, 0, 0, 0>>
Spread  == <<5, 7, 0, 0, 0, -2, 0, 1, 0>>
Dense   == <<4, 2, -3, 6, 0, 5, 0, 0, 3>>
Edges   == <<-6, 0, -1, 0, 0, 0, 0, 1, -4>>
One     == <<1, 2, 0, 0, 0, 0, 0, 0, 0>>
Blocks  == {Low, Spread, Dense, Edges, One}

Scan(Ss, Se, Ah, Al) == [Ss |-> Ss, Se |-> Se, Ah |-> Ah, Al |-> Al]

MCImages ==
  {<<a, b, c>> : a \in Blocks, b \in Blocks, c \in {Spread, Dense}}
    \cup {<<Low, Low, Low, Spread>>, <<One, One, Dense, One>>}

MCScripts ==
  {<<Scan(0, 0, 0, 1), Scan(1, 8, 0, 1), Scan(0, 0, 1, 0),
     Scan(1, 8, 1, 0)>>,
   <<Scan(0, 0, 0, 0), Scan(1, 3, 0, 1), Scan(4, 8, 0, 1),
     Scan(4, 8, 1, 0), Scan(1, 3, 1, 0)>>,
   <<Scan(0, 0, 0, 2), Scan(0, 0, 2, 1), Scan(1, 8, 0, 2),
     Scan(1, 8, 2, 1), Scan(1, 8, 1, 0)>>}
=============================================================================
