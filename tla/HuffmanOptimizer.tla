-------------------------- MODULE HuffmanOptimizer --------------------------
(***************************************************************************)
(* jpeg_gen_optimal_table (jchuff.c) and the tables derived from what it   *)
(* makes: the counts of a gathering pass are merged into a code tree, the  *)
(* lengths are brought down to MaxLen, the pseudo symbol that reserves the *)
(* code of all ones is taken out, and the encoder and the decoder derive   *)
(* their tables from the result.  A table may also come ready-made, from a *)
(* DHT marker or from the application.                                     *)
(*                                                                         *)
(* A branch of the tree is the set of its symbols (the chain of others[]). *)
(***************************************************************************)
EXTENDS HuffmanTables, Functions

CONSTANTS
  N,        \* the symbols are 0..N-1; N is the pseudo symbol (256)
  Counts,   \* how often a symbol may have been seen
  MAX_CLEN, \* the longest code the tree may need before the adjustment (32)
  GivenBits, GivenVals  \* the ready-made tables

VARIABLES
  phase,           \* where the making of the table has got to
  seen,            \* the counts that were gathered
  freq,            \* freq[]: the counts of the branches not merged yet
  branch,          \* the symbols of the branch a symbol stands for
  codesize,        \* codesize[]
  bits, huffval,   \* the table
  ctbl, dtbl,      \* what the encoder and the decoder derive from it
  probe            \* the symbol coded next, -1 before

tree == <<seen, freq, branch, codesize>>
vars == <<phase, tree, bits, huffval, ctbl, dtbl, probe>>

Symbols == 0..(N - 1)
All == 0..N
None == <<>>

TypeOK ==
  /\ phase \in {"merge", "limit", "table", "derived", "error"}
  /\ seen \in [All -> Nat] /\ freq \in [All -> Nat]
  /\ codesize \in [All -> Nat]
  /\ branch \in [All -> SUBSET All]
  /\ bits \in [1..MAX_CLEN -> Nat]
  /\ huffval \in Seq(All)
  /\ probe \in -1..(N - 1)

Init ==
  /\ ctbl = None /\ dtbl = None /\ probe = -1
  /\ codesize = [s \in All |-> 0]
  /\ branch = [s \in All |-> {s}]
  /\ \/ /\ phase = "merge"
        /\ \E f \in [Symbols -> Counts] :
             seen = [s \in All |-> IF s = N THEN 1 ELSE f[s]]
        /\ \E s \in Symbols : seen[s] > 0
        /\ bits = [l \in 1..MAX_CLEN |-> 0] /\ huffval = <<>>
     \/ /\ phase = "table"
        /\ seen = [s \in All |-> 0]
        /\ \E b \in GivenBits :
             bits = [l \in 1..MAX_CLEN |-> IF l <= MaxLen THEN b[l] ELSE 0]
        /\ huffval \in GivenVals
  /\ freq = seen

\* The smallest nonzero count, the larger symbol in a tie.
Smallest(S) ==
  CHOOSE c \in S : \A d \in S : freq[c] < freq[d]
                                \/ (freq[c] = freq[d] /\ c >= d)

Live == {s \in All : freq[s] > 0}

\* One turn of the main loop: the two rarest branches become one, a level
\* deeper.
Merge ==
  LET c1 == Smallest(Live)
      c2 == Smallest(Live \ {c1})
      deeper == branch[c1] \cup branch[c2]
  IN /\ freq' = [freq EXCEPT ![c1] = @ + freq[c2], ![c2] = 0]
     /\ branch' = [branch EXCEPT ![c1] = deeper]
     /\ codesize' = [s \in All |-> codesize[s] + IF s \in deeper THEN 1 ELSE 0]
     /\ UNCHANGED <<phase, seen>>

MergeStep ==
  /\ phase = "merge" /\ Cardinality(Live) > 1
  /\ Merge
  /\ UNCHANGED <<bits, huffval, ctbl, dtbl, probe>>

\* Everything is one tree: count the symbols of each length.
CountLengths ==
  /\ phase = "merge" /\ Cardinality(Live) = 1
  /\ IF \E s \in All : codesize[s] > MAX_CLEN
       THEN phase' = "error" /\ UNCHANGED bits
       ELSE /\ phase' = "limit"
            /\ bits' = [l \in 1..MAX_CLEN |->
                          Cardinality({s \in All : codesize[s] = l})]
  /\ UNCHANGED <<tree, huffval, ctbl, dtbl, probe>>

Longest == CHOOSE l \in 1..MAX_CLEN :
             bits[l] > 0 /\ \A m \in (l + 1)..MAX_CLEN : bits[m] = 0

\* A slip: the shorter code that gives way stays counted.
ShiftPair(i, j) ==
  [bits EXCEPT ![i] = @ - 2, ![i - 1] = @ + 1, ![j + 1] = @ + 2]

\* Two codes of length i: one takes their prefix, the other shares the place
\* of a code of length j with its owner.
MovePair(i, j) ==
  LET b == [bits EXCEPT ![i] = @ - 2]
      c == [b EXCEPT ![i - 1] = @ + 1]
      d == [c EXCEPT ![j + 1] = @ + 2]
  IN [d EXCEPT ![j] = @ - 1]

\* Section K.2: one turn of the loop that shortens codes over MaxLen.
LimitLength ==
  /\ phase = "limit" /\ Longest > MaxLen
  /\ LET i == Longest
         j == CHOOSE j \in 1..(i - 2) :
                bits[j] > 0 /\ \A m \in (j + 1)..(i - 2) : bits[m] = 0
     IN bits' = MovePair(i, j)
  /\ UNCHANGED <<phase, tree, huffval, ctbl, dtbl, probe>>

\* The pseudo symbol has one of the longest codes.
DropPseudo(b) == [b EXCEPT ![Longest] = @ - 1]

\* Take the pseudo symbol out of the longest codes and list the symbols by
\* the lengths the tree gave them.
FinishTable ==
  /\ phase = "limit" /\ Longest <= MaxLen
  /\ bits' = DropPseudo(bits)
  /\ huffval' = SetToSortSeq({s \in Symbols : codesize[s] > 0},
                  LAMBDA s, t : \/ codesize[s] < codesize[t]
                                \/ codesize[s] = codesize[t] /\ s < t)
  /\ phase' = "table"
  /\ UNCHANGED <<tree, ctbl, dtbl, probe>>

\* jpeg_make_c_derived_tbl and jpeg_make_d_derived_tbl, on the same table.
Derive ==
  /\ phase = "table"
  /\ ctbl' = IF EncoderAccepts(bits, huffval, Symbols)
               THEN EncoderTable(bits, huffval, Symbols) ELSE None
  /\ dtbl' = IF DecoderAccepts(bits, huffval, Symbols)
               THEN DecoderTable(bits, huffval) ELSE None
  /\ phase' = IF ctbl' = None \/ dtbl' = None THEN "error" ELSE "derived"
  /\ UNCHANGED <<tree, bits, huffval, probe>>

\* Some symbol is coded next.
Use ==
  /\ phase = "derived" /\ probe = -1
  /\ probe' \in {s \in Symbols : ctbl[s] # <<>>}
  /\ UNCHANGED <<phase, tree, bits, huffval, ctbl, dtbl>>

Stop ==
  /\ \/ phase = "error" \/ probe >= 0
     \/ phase = "derived" /\ \A s \in Symbols : ctbl[s] = <<>>
  /\ UNCHANGED vars

Next == MergeStep \/ CountLengths \/ LimitLength \/ FinishTable \/ Derive
        \/ Use \/ Stop

Spec == Init /\ [][Next]_vars
-----------------------------------------------------------------------------
Optimized == phase \in {"table", "derived"} /\ seen[N] > 0

Tails == UNION {[1..n -> {0, 1}] : n \in 0..Lookahead}

\* Whatever bits follow a symbol's code, and however many of them are left,
\* the decoder reads the symbol back and uses just its code: on the fast path
\* and on the slow one (jpeg_make_c_derived_tbl against HUFF_DECODE).
CodesDecode ==
  (probe >= 0) =>
    \A tail \in Tails :
      LET code == ctbl[probe]
          stream == code \o tail
      IN Decode(dtbl, stream, Len(stream)) = <<probe, Len(code)>>

\* The ones that pad the last byte of a segment never read as a symbol: the
\* decoder runs past the longest code instead (the pseudo symbol of
\* jpeg_gen_optimal_table and the check of both derivations).
PaddingIsNoSymbol ==
  (phase = "derived") =>
    LET ones == [i \in 1..(MaxLen + 1) |-> 1]
    IN Decode(dtbl, ones, Len(ones)) = <<0, MaxLen + 1>>

\* A table made from counts is one both sides accept, with a code of at most
\* MaxLen bits for every symbol that was seen and for no other: the length
\* adjustment does not break the tree (jpeg_gen_optimal_table).
OptimalTableIsLegal ==
  Optimized =>
    LET b == [l \in 1..MaxLen |-> bits[l]]
    IN /\ EncoderAccepts(b, huffval, Symbols)
       /\ Len(HuffSizes(b)) = Cardinality(ToSet(huffval))
       /\ ToSet(huffval) = {s \in Symbols : seen[s] > 0}

\* The lengths a code tree for the symbols seen could have.
Trees ==
  LET used == {s \in All : seen[s] > 0}
      share(size) == MapThenSumSet(LAMBDA s : 2^(N - size[s]), used)
  IN {size \in [used -> 1..N] : share(size) <= 2^N}

Cost(size) == MapThenSumSet(LAMBDA s : seen[s] * size[s], DOMAIN size)

\* Before the adjustment no code tree for the same counts is shorter in total
\* (the merging loop of jpeg_gen_optimal_table, against every choice of
\* lengths that Kraft's inequality allows).
TreeIsShortest ==
  (phase = "merge" /\ Cardinality(Live) = 1) =>
    LET used == {s \in All : seen[s] > 0}
        made == [s \in used |-> codesize[s]]
    IN \A size \in Trees : Cost(made) <= Cost(size)
=============================================================================
