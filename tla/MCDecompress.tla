---------------------------- MODULE MCDecompress ----------------------------
(***************************************************************************)
(* Decompress for TLC: the values of its constants, and that the documents *)
(* of MCMarkerReader are understood.                                       *)
(***************************************************************************)
EXTENDS Decompress, MCMarkerReader

-----------------------------------------------------------------------------
(* Files of one and two images with one, two or no scans, intact, cut      *)
(* short or with a scan too many; a scan has four MCUs.                    *)

OneScan   == <<"SOS", "MCU", "MCU", "MCU", "MCU">>
Short  == <<"SOS", "MCU", "MCU", "MCU">>
One    == <<"SOF1">> \o OneScan \o <<"EOI">>
Two    == <<"SOFM">> \o OneScan \o <<"DQT">> \o OneScan \o <<"EOI">>
Pseudo == <<"SOFM", "PSOS">> \o OneScan \o <<"PSOS">> \o OneScan \o <<"EOI">>
Tables == <<"DQT", "EOI">>

MCOptions ==
  {o \in [buffered : BOOLEAN, raw : BOOLEAN, twoPass : BOOLEAN] :
     ~(o.raw /\ o.twoPass)}
MCWanted == {0, 2, 5}

MCImages ==
  {Tables \o One, Two, Pseudo, One \o One,
   <<"SOF1">> \o Short \o <<"EOI">> \o One,
   <<"SOFM">> \o Short \o OneScan \o <<"EOI">>,
   <<"SOFM">> \o OneScan \o Short \o <<"EOI">>,
   <<"SOF1">> \o OneScan \o OneScan \o <<"EOI">>,
   <<"SOFM", "EOI">>, <<"SOFM">> \o OneScan \o <<"EOI">> \o One}

-----------------------------------------------------------------------------
(* Images of every height up to two iMCU rows and a bit, so that one ends  *)
(* in each row of a strip, a row group and an iMCU row.                    *)

Of(V, M, rg, up0, quants, heights) ==
  [V : {V}, M : {M}, rg : {rg}, H : heights, up : {up0}, quant : quants]
AllQuants == {"none", "one", "two"}

MCShapes ==
  Of(1, 2, <<1>>, "separate", AllQuants, 1..5)
  \cup Of(2, 1, <<2, 1>>, "separate", AllQuants, 1..5)
  \cup Of(2, 2, <<2, 1, 1>>, "merged", AllQuants, 1..9)
  \cup Of(4, 1, <<4, 1>>, "separate", {"none", "one"}, 1..9)
  \cup Of(3, 2, <<3, 1>>, "separate", {"none", "one"}, {5, 7, 13})
  \cup Of(1, 2, <<1>>, "context", AllQuants, 1..7)
  \cup Of(2, 3, <<2, 1>>, "context", AllQuants, 1..19)
  \cup Of(2, 4, <<1, 2>>, "context", {"none"}, 5..18)

-----------------------------------------------------------------------------
(* Property of the marker reader and the calls together; the others are in *)
(* Decompress.                                                             *)

\* Every file is read to an end, and what its markers say is understood, in
\* spite of every interruption (read_markers and its routines); and every
\* call comes back: none waits for a scan that will not come
\* (jpeg_finish_output).
ReadingSucceeds ==
  /\ [](part = "markers" => ResultIsMeaning)
  /\ <>(part = "markers" => FileEnded)
  /\ Calls!CallsReturn
=============================================================================
