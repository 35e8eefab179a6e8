----------------------------- MODULE OdmlTables -----------------------------
(***************************************************************************)
(* The default Huffman tables of ImageProc.c: a frame of an MJPEG stream   *)
(* may leave them out, so after the header has been read processimage      *)
(* loads the four tables of the OpenDML specification (my_jpeg_load_dht).  *)
(* The segment is walked the way a DHT marker is, and the tables it leaves *)
(* are those that the entropy decoder of libjpeg derives its own from      *)
(* (HuffmanTables) when the frame's scan starts.                           *)
(***************************************************************************)
EXTENDS HuffmanTables

NUM_HUFF_TBLS == 4
NULL == <<>>

my_jpeg_odml_dht == <<
    255, 196, 1, 162, 0, 0, 1, 5, 1, 1, 1, 1, 1, 1, 0, 0, 0,
    0, 0, 0, 0, 0, 1, 2, 3, 4, 5, 6, 7, 8, 9, 10, 11, 1,
    0, 3, 1, 1, 1, 1, 1, 1, 1, 1, 1, 0, 0, 0, 0, 0, 0,
    1, 2, 3, 4, 5, 6, 7, 8, 9, 10, 11, 16, 0, 2, 1, 3, 3,
    2, 4, 3, 5, 5, 4, 4, 0, 0, 1, 125, 1, 2, 3, 0, 4, 17,
    5, 18, 33, 49, 65, 6, 19, 81, 97, 7, 34, 113, 20, 50, 129, 145, 161,
    8, 35, 66, 177, 193, 21, 82, 209, 240, 36, 51, 98, 114, 130, 9, 10, 22,
    23, 24, 25, 26, 37, 38, 39, 40, 41, 42, 52, 53, 54, 55, 56, 57, 58,
    67, 68, 69, 70, 71, 72, 73, 74, 83, 84, 85, 86, 87, 88, 89, 90, 99,
    100, 101, 102, 103, 104, 105, 106, 115, 116, 117, 118, 119, 120, 121, 122, 131, 132,
    133, 134, 135, 136, 137, 138, 146, 147, 148, 149, 150, 151, 152, 153, 154, 162, 163,
    164, 165, 166, 167, 168, 169, 170, 178, 179, 180, 181, 182, 183, 184, 185, 186, 194,
    195, 196, 197, 198, 199, 200, 201, 202, 210, 211, 212, 213, 214, 215, 216, 217, 218,
    225, 226, 227, 228, 229, 230, 231, 232, 233, 234, 241, 242, 243, 244, 245, 246, 247,
    248, 249, 250, 17, 0, 2, 1, 2, 4, 4, 3, 4, 7, 5, 4, 4, 0,
    1, 2, 119, 0, 1, 2, 3, 17, 4, 5, 33, 49, 6, 18, 65, 81, 7,
    97, 113, 19, 34, 50, 129, 8, 20, 66, 145, 161, 177, 193, 9, 35, 51, 82,
    240, 21, 98, 114, 209, 10, 22, 36, 52, 225, 37, 241, 23, 24, 25, 26, 38,
    39, 40, 41, 42, 53, 54, 55, 56, 57, 58, 67, 68, 69, 70, 71, 72, 73,
    74, 83, 84, 85, 86, 87, 88, 89, 90, 99, 100, 101, 102, 103, 104, 105, 106,
    115, 116, 117, 118, 119, 120, 121, 122, 130, 131, 132, 133, 134, 135, 136, 137, 138,
    146, 147, 148, 149, 150, 151, 152, 153, 154, 162, 163, 164, 165, 166, 167, 168, 169,
    170, 178, 179, 180, 181, 182, 183, 184, 185, 186, 194, 195, 196, 197, 198, 199, 200,
    201, 202, 210, 211, 212, 213, 214, 215, 216, 217, 218, 226, 227, 228, 229, 230, 231,
    232, 233, 234, 242, 243, 244, 245, 246, 247, 248, 249, 250 >>

\* The table of a frame that brings its own: three codes, of 1 to 3 bits.
OwnTable == [bits |-> [l \in 1..16 |-> IF l <= 3 THEN 1 ELSE 0],
             huffval |-> <<0, 1, 2>>]

VARIABLES
  own,          \* has the header defined tables 0 of both classes?
  pos, length,  \* where the walk is, and what is left of the segment
  dc_tables, ac_tables,
  result,       \* what my_jpeg_load_dht returned, 1 while it runs
  chosen,       \* the table derived from: <<>> or <<is it DC, its number>>
  ctbl, dtbl,   \* what an encoder and the decoder derive from it
  probe         \* the symbol coded next, -1 before

walk == <<own, pos, length, dc_tables, ac_tables, result>>
vars == <<walk, chosen, ctbl, dtbl, probe>>

\* A slip: the array is read from its second byte.
dhtLate(i) == my_jpeg_odml_dht[i + 2]

dht(i) == my_jpeg_odml_dht[i + 1]
Indices == 0..(NUM_HUFF_TBLS - 1)

TypeOK ==
  /\ own \in BOOLEAN
  /\ pos \in 4..Len(my_jpeg_odml_dht)
  /\ length \in 0..Len(my_jpeg_odml_dht)
  /\ DOMAIN dc_tables = Indices /\ DOMAIN ac_tables = Indices
  /\ result \in {-1, 0, 1}
  /\ probe \in -1..255

Init ==
  /\ pos = 4 /\ length = 256 * dht(2) + dht(3) - 2
  /\ own \in BOOLEAN
  /\ dc_tables = [i \in Indices |-> IF own /\ i = 0 THEN OwnTable ELSE NULL]
  /\ ac_tables = dc_tables
  /\ result = 1
  /\ chosen = <<>> /\ ctbl = <<>> /\ dtbl = <<>> /\ probe = -1

IsAc(index) == (index \div 16) % 2 = 1

Table(count) ==
  [bits |-> [l \in 1..16 |-> dht(pos + l)],
   huffval |-> [i \in 1..count |-> dht(pos + 16 + i)]]

\* The bytes of a table before its symbols.
HEADER == 17

\* One turn of the loop: one table.
LoadTable ==
  /\ result = 1 /\ length > 16
  /\ LET index == dht(pos)
         count[l \in 0..16] ==
           IF l = 0 THEN 0 ELSE count[l - 1] + dht(pos + l)
         i == IF IsAc(index) THEN index - 16 ELSE index
         left == length - HEADER
     IN IF count[16] > 256 \/ count[16] > left \/ i \notin Indices
          THEN result' = -1 /\ UNCHANGED <<pos, length, dc_tables, ac_tables>>
          ELSE /\ pos' = pos + 17 + count[16]
               /\ length' = left - count[16]
               /\ IF IsAc(index)
                    THEN /\ ac_tables' =
                              [ac_tables EXCEPT ![i] = Table(count[16])]
                         /\ UNCHANGED dc_tables
                    ELSE /\ dc_tables' =
                              [dc_tables EXCEPT ![i] = Table(count[16])]
                         /\ UNCHANGED ac_tables
               /\ UNCHANGED result
  /\ UNCHANGED <<own, chosen, ctbl, dtbl, probe>>

Return ==
  /\ result = 1 /\ length <= 16
  /\ result' = IF length # 0 THEN -1 ELSE 0
  /\ UNCHANGED <<own, pos, length, dc_tables, ac_tables, chosen, ctbl, dtbl,
                 probe>>

\* The decoder derives its tables at the start of the frame's scan.
Derive ==
  /\ result # 1 /\ chosen = <<>>
  /\ \E isDC \in BOOLEAN, i \in Indices :
       LET t == IF isDC THEN dc_tables[i] ELSE ac_tables[i]
           symbols == IF isDC THEN 0..15 ELSE 0..255
       IN /\ t # NULL
          /\ chosen' = <<isDC, i>>
          /\ ctbl' = IF EncoderAccepts(t.bits, t.huffval, symbols)
                       THEN EncoderTable(t.bits, t.huffval, symbols) ELSE <<>>
          /\ dtbl' = IF DecoderAccepts(t.bits, t.huffval, symbols)
                       THEN DecoderTable(t.bits, t.huffval) ELSE <<>>
  /\ UNCHANGED <<walk, probe>>

Use ==
  /\ ctbl # <<>> /\ probe = -1
  /\ probe' \in {s \in DOMAIN ctbl : ctbl[s] # <<>>}
  /\ UNCHANGED <<walk, chosen, ctbl, dtbl>>

Stop == chosen # <<>> /\ (probe >= 0 \/ ctbl = <<>>) /\ UNCHANGED vars

Next == LoadTable \/ Return \/ Derive \/ Use \/ Stop

Spec == Init /\ [][Next]_vars
-----------------------------------------------------------------------------
\* What a baseline frame of 8-bit samples may code: DC differences of up to
\* 11 bits, and after a run of up to 15 zeros an AC coefficient of 1 to 10
\* bits, a run of 16 zeros, or the end of the block.
BaselineDC == 0..11
BaselineAC == {16 * r + n : r \in 0..15, n \in 1..10} \cup {0, 240}

\* The walk ends at the end of the segment, with tables 0 and 1 of each class
\* loaded, and every symbol a baseline frame may use has a code in each
\* (my_jpeg_load_dht on my_jpeg_odml_dht).
LoadsWhatFramesUse ==
  /\ (result # 1) =>
       /\ result = 0 /\ pos = Len(my_jpeg_odml_dht)
       /\ \A i \in {0, 1} : dc_tables[i] # NULL /\ ac_tables[i] # NULL
  /\ (chosen # <<>>) =>
       \A s \in IF chosen[1] THEN BaselineDC ELSE BaselineAC : ctbl[s] # <<>>

\* The decoder accepts the tables loaded and reads every symbol's code back,
\* whatever comes after it (my_jpeg_load_dht with jpeg_make_d_derived_tbl).
LoadedTablesDecode ==
  (probe >= 0) =>
    /\ dtbl # <<>>
    /\ \A tail \in {<<>>, BitsOf(255, 8), BitsOf(0, 8), BitsOf(170, 8)} :
         LET stream == ctbl[probe] \o tail
         IN Decode(dtbl, stream, Len(stream)) = <<probe, Len(ctbl[probe])>>
=============================================================================
