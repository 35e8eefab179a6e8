---------------------------- MODULE Huffman_proof ----------------------------
(***************************************************************************)
(* Theorems about Huffman, for every size of blocks, buffers and intervals *)
(* and any pictures and scripts.                                           *)
(***************************************************************************)
EXTENDS Huffman, TLAPS, SequenceTheorems, FiniteSetTheorems,
        WellFoundedInduction

-----------------------------------------------------------------------------
(* Induction.                                                              *)

\* Induction over the natural numbers, for a set.
LEMMA NatSetInduction ==
    ASSUME NEW S, 0 \in S, \A n \in Nat : n \in S => n + 1 \in S
    PROVE  Nat \subseteq S
<1> SUFFICES ASSUME Nat \ S # {} PROVE FALSE
  OBVIOUS
<1>1. PICK m \in Nat \ S : \A k \in Nat \ S : ~(<<k, m>> \in OpToRel(<, Nat))
  <2>1. Nat \ S \subseteq Nat
    OBVIOUS
  <2> QED
    BY <2>1, NatLessThanWellFounded, WFMin
<1>2. m # 0 /\ m - 1 \in Nat /\ m - 1 < m /\ (m - 1) + 1 = m
  OBVIOUS
<1>3. m - 1 \notin S
  BY <1>2
<1>4. <<m - 1, m>> \in OpToRel(<, Nat)
  BY <1>2 DEF OpToRel
<1> QED
  BY <1>1, <1>2, <1>3, <1>4

\* A sequence behind another one, as a name for the provers.
Behind(a, b) == a \o b

\* The sequences of a sequence, one behind the other, by induction.
LEMMA FlattenDef ==
    ASSUME NEW n \in Nat \ {0}, NEW s, Len(s) = n
    PROVE  \E f : /\ Sequential!FlattenSeq(s) = f[n]
                  /\ f[1] = s[1]
                  /\ \A i \in 2..n : f[i] = Behind(f[i - 1], s[i])
<1> DEFINE At(f, i) == IF i = 1 THEN s[1] ELSE Behind(f[i - 1], s[i])
           Ok == {k \in Nat : \E f : f = [i \in 1..k |-> At(f, i)]}
<1>1. 0 \in Ok
  <2> DEFINE f == [i \in 1..0 |-> 0]
  <2> f = [i \in 1..0 |-> At(f, i)]
    OBVIOUS
  <2> QED
    OBVIOUS
<1>2. ASSUME NEW k \in Ok PROVE k + 1 \in Ok
  <2>1. PICK f : f = [i \in 1..k |-> At(f, i)]
    OBVIOUS
  <2> k \in Nat
    OBVIOUS
  <2> DEFINE g == [i \in 1..k + 1 |-> IF i <= k THEN f[i] ELSE At(f, i)]
  <2>2. ASSUME NEW i \in 1..k + 1 PROVE g[i] = At(g, i)
    <3>1. CASE i = 1
      BY <3>1, <2>1
    <3>2. CASE i # 1
      <4>1. i - 1 \in 1..k /\ g[i - 1] = f[i - 1]
        BY <3>2
      <4>2. At(g, i) = At(f, i)
        BY <4>1, <3>2
      <4>3. i <= k => f[i] = At(f, i)
        BY <2>1
      <4> QED
        BY <4>2, <4>3
    <3> QED
      BY <3>1, <3>2
  <2>3. g = [i \in 1..k + 1 |-> At(g, i)]
    BY <2>2
  <2> HIDE DEF g, At
  <2> QED
    BY <2>3
<1>3. n \in Ok
  <2> HIDE DEF Ok
  <2> QED
    BY <1>1, <1>2, NatSetInduction
<1> DEFINE f == CHOOSE f : f = [i \in 1..n |-> At(f, i)]
<1>4. f = [i \in 1..n |-> At(f, i)]
  BY <1>3
<1>5. Sequential!FlattenSeq(s) = f[n]
  BY <1>4 DEF Sequential!FlattenSeq, Behind
<1> HIDE DEF f
<1>6. f[1] = s[1]
  BY <1>4
<1>7. ASSUME NEW i \in 2..n PROVE f[i] = Behind(f[i - 1], s[i])
  BY <1>4
<1> QED
  BY <1>5, <1>6, <1>7

\* One sequence more.
LEMMA FlattenNext ==
    ASSUME NEW F, NEW n \in Nat \ {0}
    PROVE  Sequential!FlattenSeq([i \in 1..n + 1 |-> F[i]])
             = Behind(Sequential!FlattenSeq([i \in 1..n |-> F[i]]), F[n + 1])
<1> DEFINE s == [i \in 1..n |-> F[i]]
           t == [i \in 1..n + 1 |-> F[i]]
<1>1. Len(s) = n /\ Len(t) = n + 1
  OBVIOUS
<1>2. PICK f : /\ Sequential!FlattenSeq(s) = f[n] /\ f[1] = s[1]
               /\ \A i \in 2..n : f[i] = Behind(f[i - 1], s[i])
  <2> HIDE DEF s
  <2> QED
    BY <1>1, FlattenDef
<1>3. PICK g : /\ Sequential!FlattenSeq(t) = g[n + 1] /\ g[1] = t[1]
               /\ \A i \in 2..n + 1 : g[i] = Behind(g[i - 1], t[i])
  <2> HIDE DEF t
  <2> n + 1 \in Nat \ {0}
    OBVIOUS
  <2> QED
    BY <1>1, FlattenDef
<1> DEFINE Same == {k \in Nat : k + 1 \in 1..n => f[k + 1] = g[k + 1]}
<1>4. 0 \in Same
  BY <1>2, <1>3
<1>5. ASSUME NEW k \in Nat, k \in Same PROVE k + 1 \in Same
  <2> SUFFICES ASSUME k + 2 \in 1..n PROVE f[k + 2] = g[k + 2]
    OBVIOUS
  <2>1. f[k + 1] = g[k + 1]
    BY <1>5
  <2>2. k + 2 \in 2..n /\ k + 2 \in 2..n + 1 /\ (k + 2) - 1 = k + 1
    OBVIOUS
  <2>3. /\ f[k + 2] = Behind(f[k + 1], s[k + 2])
        /\ g[k + 2] = Behind(g[k + 1], t[k + 2])
    <3> HIDE DEF s, t
    <3> QED
      BY <2>2, <1>2, <1>3
  <2> QED
    BY <2>1, <2>2, <2>3
<1>6. f[n] = g[n]
  <2>1. n - 1 \in Same
    <3> HIDE DEF Same
    <3> QED
      BY <1>4, <1>5, NatSetInduction
  <2> QED
    BY <2>1
<1>7. g[n + 1] = Behind(g[n], t[n + 1])
  <2>1. n + 1 \in 2..n + 1 /\ (n + 1) - 1 = n
    OBVIOUS
  <2> HIDE DEF t
  <2> QED
    BY <2>1, <1>3
<1> QED
  BY <1>2, <1>3, <1>6, <1>7

-----------------------------------------------------------------------------
(* HuffmanScan: the two passes over the MCUs.                              *)

\* What a pass makes of the next MCU: its predictions, restarts_to_go and the
\* names of the symbols so far.
McuOf(iv, mcu, x) ==
    LET restarts == iv # 0 /\ x.to_go = 0
        dc == IF restarts THEN Sequential!Zeros ELSE x.dc
    IN [dc |-> Sequential!LastDc(mcu, dc),
        to_go |-> IF iv = 0 THEN x.to_go
                  ELSE (IF x.to_go = 0 THEN iv ELSE x.to_go) - 1,
        names |-> x.names
                    \o Sequential!Names(Sequential!McuSymbols(mcu, dc))]

\* What a pass over ms has come to, MCU by MCU, up to the nth.
PassTo(g, ms, iv, n) ==
    /\ g[0] = [dc |-> Sequential!Zeros, to_go |-> iv, names |-> <<>>]
    /\ \A i \in 1..n : g[i] = McuOf(iv, ms[i], g[i - 1])

\* The first pass is somewhere on that way, the second one has all of it in
\* the counts and is on it again.
PassesInv ==
    /\ phase \in {"gather", "encode"} => index \in 0..Len(mcus)
    /\ phase = "gather" =>
         \E g : /\ PassTo(g, mcus, interval, index)
                /\ g[index] = [dc |-> last_dc, to_go |-> to_go, names |-> counts]
                /\ used = <<>>
    /\ phase = "encode" =>
         \E g : /\ PassTo(g, mcus, interval, Len(mcus))
                /\ g[index] = [dc |-> last_dc, to_go |-> to_go, names |-> used]
                /\ counts = g[Len(mcus)].names
    /\ phase \in {"channel", "decode", "done"} => counts = used
    /\ Len(mcus) \in Nat

\* The way is extended by one MCU.
LEMMA OneMore ==
    ASSUME NEW g, NEW ms, NEW iv, NEW n \in Nat, PassTo(g, ms, iv, n)
    PROVE  \E h : /\ PassTo(h, ms, iv, n + 1)
                  /\ h[n + 1] = McuOf(iv, ms[n + 1], g[n])
<1> DEFINE x == McuOf(iv, ms[n + 1], g[n])
           h == [i \in 0..(n + 1) |-> IF i <= n THEN g[i] ELSE x]
<1> HIDE DEF x
<1>1. h[n + 1] = x /\ \A i \in 0..n : h[i] = g[i]
  OBVIOUS
<1> HIDE DEF h
<1>2. \A i \in 1..(n + 1) : h[i] = McuOf(iv, ms[i], h[i - 1])
  <2>1. SUFFICES ASSUME NEW i \in 1..(n + 1)
                 PROVE  h[i] = McuOf(iv, ms[i], h[i - 1])
    OBVIOUS
  <2>2. i \in 1..n \/ i = n + 1
    OBVIOUS
  <2>3. CASE i \in 1..n
    <3>1. i \in 0..n /\ i - 1 \in 0..n
      BY <2>3
    <3> QED
      BY <1>1, <2>3, <3>1 DEF PassTo
  <2>4. CASE i = n + 1
    <3>1. i - 1 = n /\ n \in 0..n
      BY <2>4
    <3> QED
      BY <1>1, <2>4, <3>1 DEF x
  <2> QED
    BY <2>2, <2>3, <2>4
<1>3. h[0] = g[0]
  BY <1>1
<1>4. PassTo(h, ms, iv, n + 1)
  BY <1>2, <1>3 DEF PassTo
<1> QED
  BY <1>1, <1>4 DEF x

LEMMA GatherMcuStep ==
    ASSUME Sequential!GatherMcu, NEW g,
           g = [dc |-> last_dc, to_go |-> to_go, names |-> counts]
    PROVE  McuOf(interval, mcus[index + 1], g)
             = [dc |-> last_dc', to_go |-> to_go', names |-> counts']
<1> DEFINE dc == IF Sequential!Restarting THEN Sequential!Zeros ELSE last_dc
<1>1. /\ counts' = counts \o Sequential!Names(
                               Sequential!McuSymbols(mcus[index + 1], dc))
      /\ last_dc' = Sequential!LastDc(mcus[index + 1], dc)
      /\ to_go' = IF interval = 0 THEN to_go
                  ELSE (IF to_go = 0 THEN interval ELSE to_go) - 1
  BY DEF Sequential!GatherMcu, Sequential!CountRestart
<1>2. dc = IF interval # 0 /\ g.to_go = 0 THEN Sequential!Zeros ELSE g.dc
  BY DEF Sequential!Restarting
<1>3. g.names = counts /\ g.to_go = to_go
  OBVIOUS
<1> HIDE DEF dc
<1> QED
  BY <1>1, <1>2, <1>3 DEF McuOf

\* What an MCU that counts does.
LEMMA EncodeMcuStep ==
    ASSUME Sequential!EncodeMcu, index' # index, NEW g,
           g = [dc |-> last_dc, to_go |-> to_go, names |-> used]
    PROVE  McuOf(interval, mcus[index + 1], g)
             = [dc |-> last_dc', to_go |-> to_go', names |-> used']
<1> DEFINE dc == IF Sequential!Restarting THEN Sequential!Zeros ELSE last_dc
<1>1. /\ used' = used \o Sequential!NextMcu.names
      /\ last_dc' = Sequential!NextMcu.dc
      /\ to_go' = IF interval = 0 THEN to_go
                  ELSE (IF to_go = 0 THEN interval ELSE to_go) - 1
  BY DEF Sequential!EncodeMcu, Sequential!CountRestart
<1>4. /\ Sequential!NextMcu.names = Sequential!Names(
                               Sequential!McuSymbols(mcus[index + 1], dc))
      /\ Sequential!NextMcu.dc = Sequential!LastDc(mcus[index + 1], dc)
  BY DEF Sequential!NextMcu
<1>2. dc = IF interval # 0 /\ g.to_go = 0 THEN Sequential!Zeros ELSE g.dc
  BY DEF Sequential!Restarting
<1>3. g.names = used /\ g.to_go = to_go
  OBVIOUS
<1> HIDE DEF dc
<1> QED
  BY <1>1, <1>2, <1>3, <1>4 DEF McuOf

LEMMA PassesNext ==
    ASSUME PassesInv, Sequential!Next PROVE PassesInv'
<1>1. CASE Sequential!GatherMcu
  <2>1. /\ phase = "gather" /\ index < Len(mcus) /\ index' = index + 1
        /\ UNCHANGED <<phase, mcus, interval, used>>
    BY <1>1 DEF Sequential!GatherMcu, Sequential!input
  <2>2. index \in Nat /\ index' \in 0..Len(mcus)
    BY <2>1 DEF PassesInv
  <2>3. PICK g : /\ PassTo(g, mcus, interval, index)
                 /\ g[index] = [dc |-> last_dc, to_go |-> to_go,
                                names |-> counts]
    BY <2>1 DEF PassesInv
  <2>4. PICK h : /\ PassTo(h, mcus, interval, index + 1)
                 /\ h[index + 1] = McuOf(interval, mcus[index + 1], g[index])
    BY <2>2, <2>3, OneMore
  <2>5. h[index + 1] = [dc |-> last_dc', to_go |-> to_go', names |-> counts']
    BY <1>1, <2>3, <2>4, GatherMcuStep
  <2> QED
    BY <2>1, <2>2, <2>4, <2>5 DEF PassesInv
<1>2. CASE Sequential!StartEncoding
  <2>1. /\ phase = "gather" /\ phase' = "encode" /\ index = Len(mcus)
        /\ last_dc' = Sequential!Zeros /\ to_go' = interval /\ index' = 0
        /\ UNCHANGED <<mcus, interval, counts, used>>
    BY <1>2 DEF Sequential!StartEncoding, Sequential!StartPass,
                Sequential!input, Sequential!coder
  <2>2. PICK g : /\ PassTo(g, mcus, interval, index)
                 /\ g[index] = [dc |-> last_dc, to_go |-> to_go,
                                names |-> counts]
                 /\ used = <<>>
    BY <2>1 DEF PassesInv
  <2>3. /\ PassTo(g, mcus, interval, Len(mcus))
        /\ counts = g[Len(mcus)].names
        /\ g[0] = [dc |-> last_dc', to_go |-> to_go', names |-> used']
    BY <2>1, <2>2 DEF PassTo
  <2> QED
    BY <2>1, <2>3 DEF PassesInv
<1>3. CASE Sequential!EncodeMcu
  <2>1. /\ phase = "encode" /\ index < Len(mcus)
        /\ UNCHANGED <<phase, mcus, interval, counts>>
    BY <1>3 DEF Sequential!EncodeMcu, Sequential!input
  <2>2. PICK g : /\ PassTo(g, mcus, interval, Len(mcus))
                 /\ g[index] = [dc |-> last_dc, to_go |-> to_go,
                                names |-> used]
                 /\ counts = g[Len(mcus)].names
    BY <2>1 DEF PassesInv
  <2>3. CASE UNCHANGED <<last_dc, to_go, index, used>>
    BY <2>1, <2>2, <2>3 DEF PassesInv
  <2>4. CASE index' = index + 1
    <3>1. index \in Nat /\ index + 1 \in 1..Len(mcus) /\ index' # index
          /\ (index + 1) - 1 = index
      BY <2>1, <2>4 DEF PassesInv
    <3>2. g[index + 1] = McuOf(interval, mcus[index + 1], g[index])
      BY <2>2, <3>1 DEF PassTo
    <3>3. g[index'] = [dc |-> last_dc', to_go |-> to_go', names |-> used']
      BY <1>3, <2>2, <2>4, <3>1, <3>2, EncodeMcuStep
    <3> QED
      BY <2>1, <2>2, <2>4, <3>1, <3>3 DEF PassesInv
  <2> QED
    BY <1>3, <2>3, <2>4 DEF Sequential!EncodeMcu
<1>4. CASE Sequential!FinishEncoding
  BY <1>4 DEF Sequential!FinishEncoding, Sequential!input, PassesInv, PassTo
<1>5. CASE Sequential!Deliver
  BY <1>5 DEF Sequential!Deliver, Sequential!input, Sequential!coder, PassesInv
<1>6. CASE Sequential!DecodeRestart
  BY <1>6
  DEF Sequential!DecodeRestart, Sequential!input, Sequential!coder, PassesInv
<1>7. CASE Sequential!DecodeMcu
  BY <1>7
  DEF Sequential!DecodeMcu, Sequential!input, Sequential!coder, PassesInv
<1>8. CASE Sequential!Arrive
  BY <1>8
  DEF Sequential!Arrive, Sequential!input, Sequential!coder, PassesInv
<1>9. CASE Sequential!FinishDecoding
  BY <1>9
  DEF Sequential!FinishDecoding, Sequential!input, Sequential!coder, PassesInv
<1>10. CASE Sequential!Done
  BY <1>10
  DEF Sequential!Done, Sequential!vars, Sequential!input, Sequential!coder,
      PassesInv
<1> QED
  BY <1>1, <1>2, <1>3, <1>4, <1>5, <1>6, <1>7, <1>8, <1>9, <1>10
  DEF Sequential!Next
-----------------------------------------------------------------------------
(* BitStream: what the encoder writes.                                     *)

\* The loop of Value at i.
BitAt(s, i) == IF i <= Len(s) THEN s[i] ELSE 0
ValueAt(s, f, i) == IF i = 0 THEN 0 ELSE 2 * f[i - 1] + BitAt(s, i)

\* The value of the first bits comes bit by bit.
LEMMA ValueDef ==
    ASSUME NEW s, NEW n \in Nat
    PROVE  \E f : /\ f = [i \in 0..n |-> ValueAt(s, f, i)]
                  /\ Sequential!Value(s, n) = f[n]
<1> DEFINE At(f, i) == ValueAt(s, f, i)
           Ok == {k \in Nat : \E f : f = [i \in 0..k |-> At(f, i)]}
<1>1. 0 \in Ok
  <2> DEFINE f == [i \in 0..0 |-> 0]
  <2>1. f = [i \in 0..0 |-> At(f, i)]
    BY DEF ValueAt
  <2> HIDE DEF f, At
  <2> QED
    BY <2>1
<1>2. ASSUME NEW k \in Nat, k \in Ok PROVE k + 1 \in Ok
  <2>1. PICK f : f = [i \in 0..k |-> At(f, i)]
    BY <1>2
  <2> DEFINE g == [i \in 0..(k + 1) |-> IF i <= k THEN f[i] ELSE At(f, i)]
  <2>2. ASSUME NEW i \in 0..(k + 1) PROVE g[i] = At(g, i)
    <3>1. i > 0 => i - 1 \in 0..k /\ g[i - 1] = f[i - 1]
      OBVIOUS
    <3>2. At(g, i) = At(f, i)
      BY <3>1 DEF ValueAt
    <3>3. i <= k => f[i] = At(f, i)
      <4> HIDE DEF At
      <4> QED
        BY <2>1
    <3> HIDE DEF At
    <3> QED
      BY <3>2, <3>3
  <2>3. g = [i \in 0..(k + 1) |-> At(g, i)]
    <3> HIDE DEF At
    <3> QED
      BY <2>2
  <2> HIDE DEF g, At
  <2> QED
    BY <2>3
<1>3. n \in Ok
  <2> HIDE DEF Ok
  <2> QED
    BY <1>1, <1>2, NatSetInduction
<1> DEFINE f == CHOOSE f : f = [i \in 0..n |-> At(f, i)]
<1>4. f = [i \in 0..n |-> At(f, i)]
  BY <1>3
<1>5. Sequential!Value(s, n) = f[n]
  BY DEF Sequential!Value, ValueAt, BitAt
<1> HIDE DEF f
<1> QED
  BY <1>4, <1>5

Bytes == {b \in Nat : b <= 255}

\* Eight bits are a byte.
LEMMA ValueIsByte ==
    ASSUME NEW s \in Seq({0, 1}) PROVE Sequential!Value(s, 8) \in Bytes
<1>1. PICK f : /\ f = [i \in 0..8 |-> ValueAt(s, f, i)]
               /\ Sequential!Value(s, 8) = f[8]
  <2>1. 8 \in Nat
    OBVIOUS
  <2> QED
    BY <2>1, ValueDef
<1>2. \A i \in 1..8 : BitAt(s, i) \in {0, 1}
  <2>1. \A i \in 1..Len(s) : s[i] \in {0, 1}
    OBVIOUS
  <2> QED
    BY <2>1 DEF BitAt
<1>3. f[0] = 0 /\ \A i \in 1..8 : f[i] = 2 * f[i - 1] + BitAt(s, i)
  BY <1>1 DEF ValueAt
<1>4. f[0] = 0
  BY <1>3
<1>5. f[1] \in Int /\ 0 <= f[1] /\ f[1] <= 1
  <2>1. 1 \in 1..8 /\ 1 - 1 = 0
    OBVIOUS
  <2>2. f[1] = 2 * f[0] + BitAt(s, 1) /\ BitAt(s, 1) \in {0, 1}
    BY <1>2, <1>3, <2>1
  <2> QED
    BY <1>4, <2>2
<1>6. f[2] \in Int /\ 0 <= f[2] /\ f[2] <= 3
  <2>1. 2 \in 1..8 /\ 2 - 1 = 1
    OBVIOUS
  <2>2. f[2] = 2 * f[1] + BitAt(s, 2) /\ BitAt(s, 2) \in {0, 1}
    BY <1>2, <1>3, <2>1
  <2> QED
    BY <1>5, <2>2
<1>7. f[3] \in Int /\ 0 <= f[3] /\ f[3] <= 7
  <2>1. 3 \in 1..8 /\ 3 - 1 = 2
    OBVIOUS
  <2>2. f[3] = 2 * f[2] + BitAt(s, 3) /\ BitAt(s, 3) \in {0, 1}
    BY <1>2, <1>3, <2>1
  <2> QED
    BY <1>6, <2>2
<1>8. f[4] \in Int /\ 0 <= f[4] /\ f[4] <= 15
  <2>1. 4 \in 1..8 /\ 4 - 1 = 3
    OBVIOUS
  <2>2. f[4] = 2 * f[3] + BitAt(s, 4) /\ BitAt(s, 4) \in {0, 1}
    BY <1>2, <1>3, <2>1
  <2> QED
    BY <1>7, <2>2
<1>9. f[5] \in Int /\ 0 <= f[5] /\ f[5] <= 31
  <2>1. 5 \in 1..8 /\ 5 - 1 = 4
    OBVIOUS
  <2>2. f[5] = 2 * f[4] + BitAt(s, 5) /\ BitAt(s, 5) \in {0, 1}
    BY <1>2, <1>3, <2>1
  <2> QED
    BY <1>8, <2>2
<1>10. f[6] \in Int /\ 0 <= f[6] /\ f[6] <= 63
  <2>1. 6 \in 1..8 /\ 6 - 1 = 5
    OBVIOUS
  <2>2. f[6] = 2 * f[5] + BitAt(s, 6) /\ BitAt(s, 6) \in {0, 1}
    BY <1>2, <1>3, <2>1
  <2> QED
    BY <1>9, <2>2
<1>11. f[7] \in Int /\ 0 <= f[7] /\ f[7] <= 127
  <2>1. 7 \in 1..8 /\ 7 - 1 = 6
    OBVIOUS
  <2>2. f[7] = 2 * f[6] + BitAt(s, 7) /\ BitAt(s, 7) \in {0, 1}
    BY <1>2, <1>3, <2>1
  <2> QED
    BY <1>10, <2>2
<1>12. f[8] \in Int /\ 0 <= f[8] /\ f[8] <= 255
  <2>1. 8 \in 1..8 /\ 8 - 1 = 7
    OBVIOUS
  <2>2. f[8] = 2 * f[7] + BitAt(s, 8) /\ BitAt(s, 8) \in {0, 1}
    BY <1>2, <1>3, <2>1
  <2> QED
    BY <1>11, <2>2
<1> QED
  BY <1>1, <1>12 DEF Bytes

\* The markers among the bytes x: where an FF has no zero behind it.
MarkersIn(x) == {i \in 2..Len(x) : x[i - 1] = Sequential!FF /\ x[i] # 0}

\* n restart markers, counted modulo 8, and no FF at the end that what follows
\* could be taken for.
Marked(x, n) ==
    /\ x \in Seq(Bytes) /\ n \in Nat
    /\ Len(x) > 0 => x[Len(x)] # Sequential!FF
    /\ IsFiniteSet(MarkersIn(x)) /\ Cardinality(MarkersIn(x)) = n
    /\ \A i \in MarkersIn(x) : x[i] = Sequential!RST0
                                 + (Cardinality({j \in MarkersIn(x) : j < i}) % 8)

LEMMA MarkedEmpty == Marked(<<>>, 0)
<1>1. MarkersIn(<<>>) = {}
  BY DEF MarkersIn
<1> QED
  BY <1>1, FS_EmptySet DEF Marked

\* A byte that is no FF.
LEMMA MarkedByte ==
    ASSUME NEW x, NEW n, Marked(x, n), NEW b \in Bytes, b # Sequential!FF
    PROVE  Marked(x \o <<b>>, n)
<1> DEFINE y == x \o <<b>>
<1>1. /\ y \in Seq(Bytes) /\ Len(y) = Len(x) + 1 /\ y[Len(y)] = b
      /\ \A i \in 1..Len(x) : y[i] = x[i]
      /\ Len(x) \in Nat
  BY DEF Marked
<1> HIDE DEF y
<1>2. MarkersIn(y) = MarkersIn(x)
  <2>1. ~(Len(x) + 1 \in MarkersIn(y))
    BY <1>1 DEF MarkersIn, Marked
  <2>2. \A i \in 2..Len(x) : y[i] = x[i] /\ y[i - 1] = x[i - 1]
    BY <1>1
  <2> QED
    BY <1>1, <2>1, <2>2 DEF MarkersIn
<1>3. \A i \in MarkersIn(x) : y[i] = x[i]
  BY <1>1 DEF MarkersIn
<1> QED
  BY <1>1, <1>2, <1>3 DEF Marked, y

\* A stuffed FF.
LEMMA MarkedStuffed ==
    ASSUME NEW x, NEW n, Marked(x, n)
    PROVE  Marked(x \o <<Sequential!FF, 0>>, n)
<1> DEFINE y == x \o <<Sequential!FF, 0>>
<1>1. /\ y \in Seq(Bytes) /\ Len(y) = Len(x) + 2
      /\ y[Len(x) + 1] = Sequential!FF /\ y[Len(x) + 2] = 0
      /\ \A i \in 1..Len(x) : y[i] = x[i]
      /\ Len(x) \in Nat
  BY DEF Marked, Sequential!FF, Bytes
<1> HIDE DEF y
<1>2. MarkersIn(y) = MarkersIn(x)
  <2>1. Len(x) + 1 \notin MarkersIn(y) /\ Len(x) + 2 \notin MarkersIn(y)
    BY <1>1 DEF MarkersIn, Marked
  <2>2. \A i \in 2..Len(x) : y[i] = x[i] /\ y[i - 1] = x[i - 1]
    BY <1>1
  <2> QED
    BY <1>1, <2>1, <2>2 DEF MarkersIn
<1>3. \A i \in MarkersIn(x) : y[i] = x[i]
  BY <1>1 DEF MarkersIn
<1> QED
  <2>1. Len(y) \in Nat /\ y[Len(y)] # Sequential!FF
    BY <1>1 DEF Sequential!FF
  <2>2. Marked(y, n)
    BY <1>1, <1>2, <1>3, <2>1 DEF Marked
  <2> QED
    BY <2>2 DEF y

\* The bytes y are x with the marker m behind them.
MarkerMore(x, y, m, n) ==
    /\ y \in Seq(Bytes)
    /\ Len(y) = Len(x) + 2 /\ Len(x) \in Nat /\ y[Len(y)] = m
    /\ MarkersIn(y) = MarkersIn(x) \cup {Len(y)} /\ IsFiniteSet(MarkersIn(y))
    /\ Cardinality(MarkersIn(y)) = n + 1
    /\ \A i \in MarkersIn(x) : /\ y[i] = x[i]
                        /\ i # Len(y)
                        /\ {j \in MarkersIn(y) : j < i} = {j \in MarkersIn(x) : j < i}
    /\ {j \in MarkersIn(y) : j < Len(y)} = MarkersIn(x)

LEMMA MarkersMore ==
    ASSUME NEW x, NEW n, Marked(x, n), NEW m \in Bytes, m # 0,
           NEW y, y = x \o <<Sequential!FF, m>>
    PROVE  MarkerMore(x, y, m, n)
<1>1. /\ y \in Seq(Bytes) /\ Len(y) = Len(x) + 2
      /\ y[Len(x) + 1] = Sequential!FF /\ y[Len(x) + 2] = m
      /\ \A i \in 1..Len(x) : y[i] = x[i]
      /\ Len(x) \in Nat
  BY DEF Marked, Sequential!FF, Bytes
<1>2. MarkersIn(y) = MarkersIn(x) \cup {Len(y)}
  <2>1. Len(x) + 1 \notin MarkersIn(y) /\ Len(x) + 2 \in MarkersIn(y)
    BY <1>1 DEF MarkersIn, Marked, Sequential!FF
  <2>2. \A i \in 2..Len(x) : y[i] = x[i] /\ y[i - 1] = x[i - 1]
    BY <1>1
  <2> QED
    BY <1>1, <2>1, <2>2 DEF MarkersIn
<1>3. \A i \in MarkersIn(x) : i \in 2..Len(x) /\ y[i] = x[i]
  BY <1>1 DEF MarkersIn
<1>4. Len(y) \notin MarkersIn(x)
  BY <1>1, <1>3
<1>5. IsFiniteSet(MarkersIn(y)) /\ Cardinality(MarkersIn(y)) = n + 1
  <2>1. IsFiniteSet(MarkersIn(x)) /\ Cardinality(MarkersIn(x)) = n
    BY DEF Marked
  <2> DEFINE S == MarkersIn(x)
             k == Len(y)
  <2> HIDE DEF S, k
  <2>2. IsFiniteSet(S) /\ k \notin S
    BY <1>4, <2>1 DEF S, k
  <2>3. IsFiniteSet(S \cup {k}) /\ Cardinality(S \cup {k}) = Cardinality(S) + 1
    BY <2>2, FS_AddElement
  <2> QED
    BY <1>2, <2>1, <2>3 DEF S, k
<1>6. \A i \in MarkersIn(x) : {j \in MarkersIn(y) : j < i} = {j \in MarkersIn(x) : j < i}
  <2>1. \A i \in MarkersIn(x) : i \in Int /\ ~(Len(y) < i)
    BY <1>1, <1>3
  <2> QED
    BY <1>2, <2>1
<1>7. {j \in MarkersIn(y) : j < Len(y)} = MarkersIn(x)
  <2>1. (\A i \in MarkersIn(x) : i < Len(y)) /\ ~(Len(y) < Len(y))
    BY <1>1, <1>3
  <2> QED
    BY <1>2, <2>1
<1>8. \A i \in MarkersIn(x) : i # Len(y)
  BY <1>4
<1> QED
  BY <1>1, <1>2, <1>3, <1>5, <1>6, <1>7, <1>8 DEF MarkerMore

\* The next restart marker.
LEMMA MarkedRestart ==
    ASSUME NEW x, NEW n, Marked(x, n)
    PROVE  Marked(x \o <<Sequential!FF, Sequential!RST0 + (n % 8)>>, n + 1)
<1> DEFINE m == Sequential!RST0 + (n % 8)
           y == x \o <<Sequential!FF, m>>
<1>1. m \in Bytes /\ m # 0 /\ m # Sequential!FF /\ n \in Nat /\ n + 1 \in Nat
  BY DEF Marked, Sequential!RST0, Sequential!FF, Bytes
<1> HIDE DEF m
<1>2. MarkerMore(x, y, m, n)
  BY <1>1, MarkersMore
<1> HIDE DEF y
<1>3. ASSUME NEW i \in MarkersIn(y)
      PROVE  y[i] = Sequential!RST0 + (Cardinality({j \in MarkersIn(y) : j < i}) % 8)
  <2>1. CASE i \in MarkersIn(x)
    BY <1>2, <2>1 DEF Marked, MarkerMore
  <2>2. CASE i = Len(y)
    <3>1. Cardinality({j \in MarkersIn(y) : j < i}) = n
      BY <1>2, <2>2 DEF Marked, MarkerMore
    <3> QED
      BY <1>2, <2>2, <3>1 DEF m, MarkerMore
  <2> QED
    BY <1>2, <2>1, <2>2 DEF MarkerMore
<1>4. Marked(y, n + 1)
  BY <1>1, <1>2, <1>3 DEF Marked, MarkerMore
<1> QED
  BY <1>4 DEF y, m

\* The first sequences of a list behind each other.
FlatTo(F, j) == Sequential!FlattenSeq([i \in 1..j |-> F[i]])

\* Bytes of a list, each FF of them stuffed.
LEMMA MarkedList ==
    ASSUME NEW x, NEW n, Marked(x, n), NEW F, NEW k \in Nat,
           \A i \in 1..k : \/ F[i] = <<Sequential!FF, 0>>
                          \/ \E b \in Bytes : /\ b # Sequential!FF
                                              /\ F[i] = <<b>>
    PROVE  Marked(x \o Sequential!FlattenSeq([i \in 1..k |-> F[i]]), n)
<1> DEFINE Ok == {j \in Nat : j <= k => /\ FlatTo(F, j) \in Seq(Bytes)
                                       /\ Marked(x \o FlatTo(F, j), n)}
<1>0. x \in Seq(Bytes)
  BY DEF Marked
<1>1. ASSUME NEW i \in 1..k, NEW y, Marked(y, n)
      PROVE  F[i] \in Seq(Bytes) /\ Marked(y \o F[i], n)
  <2>1. CASE F[i] = <<Sequential!FF, 0>>
    BY <1>1, <2>1, MarkedStuffed DEF Bytes, Sequential!FF
  <2>2. CASE \E b \in Bytes : b # Sequential!FF /\ F[i] = <<b>>
    BY <1>1, <2>2, MarkedByte
  <2> QED
    BY <2>1, <2>2
<1>2. 0 \in Ok
  <2>1. FlatTo(F, 0) = <<>>
    <3>1. [i \in 1..0 |-> F[i]] = <<>>
      OBVIOUS
    <3> QED
      BY <3>1 DEF FlatTo, Sequential!FlattenSeq
  <2>2. x \o <<>> = x
    BY <1>0
  <2>3. <<>> \in Seq(Bytes) /\ Marked(x \o <<>>, n)
    BY <2>2
  <2> DEFINE a == FlatTo(F, 0)
  <2> HIDE DEF a
  <2>4. a \in Seq(Bytes) /\ Marked(x \o a, n)
    BY <2>1, <2>3 DEF a
  <2> QED
    BY <2>4 DEF a
<1>3. ASSUME NEW j \in Nat, j \in Ok PROVE j + 1 \in Ok
  <2> SUFFICES ASSUME j + 1 <= k
               PROVE  /\ FlatTo(F, j + 1) \in Seq(Bytes)
                      /\ Marked(x \o FlatTo(F, j + 1), n)
    OBVIOUS
  <2>1. FlatTo(F, j) \in Seq(Bytes) /\ Marked(x \o FlatTo(F, j), n) /\ j + 1 \in 1..k
    BY <1>3
  <2>2. F[j + 1] \in Seq(Bytes) /\ Marked((x \o FlatTo(F, j)) \o F[j + 1], n)
    <3> QED
      BY <1>1, <2>1
  <2>3. FlatTo(F, j + 1) = FlatTo(F, j) \o F[j + 1]
    <3>1. CASE j = 0
      <4>1. FlatTo(F, 0) = <<>>
        <5>1. [i \in 1..0 |-> F[i]] = <<>>
          OBVIOUS
        <5> QED
          BY <5>1 DEF FlatTo, Sequential!FlattenSeq
      <4>2. FlatTo(F, 1) = F[1]
        <5> DEFINE s == [i \in 1..1 |-> F[i]]
        <5>1. Len(s) = 1 /\ 1 \in Nat \ {0} /\ s[1] = F[1]
          OBVIOUS
        <5> HIDE DEF s
        <5>2. \E f : Sequential!FlattenSeq(s) = f[1] /\ f[1] = s[1]
          BY <5>1, FlattenDef
        <5>3. Sequential!FlattenSeq(s) = s[1]
          BY <5>2
        <5> QED
          BY <5>1, <5>3 DEF s, FlatTo
      <4>3. <<>> \o F[1] = F[1]
        BY <2>2, <3>1
      <4> QED
        BY <3>1, <4>1, <4>2, <4>3
    <3>2. CASE j # 0
      BY <3>2, FlattenNext DEF Behind, FlatTo
    <3> QED
      BY <3>1, <3>2
  <2> DEFINE a == FlatTo(F, j)
             b == F[j + 1]
             c == FlatTo(F, j + 1)
  <2> HIDE DEF a, b, c
  <2>4. /\ a \in Seq(Bytes) /\ b \in Seq(Bytes) /\ c = a \o b
        /\ Marked((x \o a) \o b, n)
    BY <2>1, <2>2, <2>3 DEF a, b, c
  <2>5. c \in Seq(Bytes) /\ x \o c = (x \o a) \o b
    BY <1>0, <2>4
  <2> QED
    BY <2>4, <2>5 DEF c
<1>4. k \in Ok
  <2> HIDE DEF Ok
  <2> QED
    BY <1>2, <1>3, NatSetInduction
<1> QED
  BY <1>4 DEF FlatTo

\* A writer with n restart markers behind it.
Writes(w, n) ==
    /\ w = [out |-> w.out, part |-> w.part]
    /\ Marked(w.out, n) /\ w.part \in Seq({0, 1})

LEMMA EmitWrites ==
    ASSUME NEW w, NEW n, Writes(w, n), NEW b \in Seq({0, 1})
    PROVE  Writes(Sequential!Emit(w, b), n)
<1> DEFINE all == w.part \o b
           whole == Len(all) \div 8
           byte(i) == Sequential!Value(SubSeq(all, 8 * i - 7, 8 * i), 8)
           stuffed(i) == IF byte(i) = Sequential!FF THEN <<Sequential!FF, 0>>
                         ELSE <<byte(i)>>
           F == [i \in 1..whole |-> stuffed(i)]
           new == Sequential!FlattenSeq([i \in 1..whole |-> stuffed(i)])
<1>1. Sequential!Emit(w, b)
        = [out |-> w.out \o new, part |-> SubSeq(all, 8 * whole + 1, Len(all))]
  BY DEF Sequential!Emit
<1>2. all \in Seq({0, 1}) /\ Len(all) \in Nat
  BY DEF Writes
<1> HIDE DEF all
<1>3. whole \in Nat /\ 8 * whole <= Len(all)
  BY <1>2
<1> HIDE DEF whole
<1>4. SubSeq(all, 8 * whole + 1, Len(all)) \in Seq({0, 1})
  BY <1>2, <1>3
<1>5. ASSUME NEW i \in 1..whole PROVE byte(i) \in Bytes
  <2>1. SubSeq(all, 8 * i - 7, 8 * i) \in Seq({0, 1})
    BY <1>2, <1>3
  <2> QED
    BY <2>1, ValueIsByte DEF Bytes
<1>6. \A i \in 1..whole :
        \/ F[i] = <<Sequential!FF, 0>>
        \/ \E c \in Bytes : c # Sequential!FF /\ F[i] = <<c>>
  <2> HIDE DEF byte
  <2> QED
    BY <1>5
<1>7. F = [i \in 1..whole |-> F[i]]
  <2> HIDE DEF stuffed
  <2> QED
    OBVIOUS
<1>8. Marked(w.out \o new, n)
  <2>1. new = Sequential!FlattenSeq([i \in 1..whole |-> F[i]])
    BY <1>7
  <2> HIDE DEF F, new
  <2>2. Marked(w.out, n)
    BY DEF Writes
  <2> QED
    BY <1>3, <1>6, <2>1, <2>2, MarkedList
<1> HIDE DEF new
<1> QED
  BY <1>1, <1>4, <1>8 DEF Writes

LEMMA FlushWrites ==
    ASSUME NEW w, NEW n, Writes(w, n) PROVE Writes(Sequential!Flush(w), n)
<1> DEFINE e == Sequential!Emit(w, Sequential!Ones(7))
<1>1. Sequential!Ones(7) \in Seq({0, 1})
  <2>1. \A k \in Nat : Sequential!Ones(k) \in Seq({0, 1})
    BY DEF Sequential!Ones
  <2>2. 7 \in Nat
    OBVIOUS
  <2> QED
    BY <2>1, <2>2
<1>2. Writes(e, n)
  BY <1>1, EmitWrites
<1>3. Sequential!Flush(w) = [e EXCEPT !.part = <<>>]
  BY DEF Sequential!Flush
<1> HIDE DEF e
<1>4. Sequential!Flush(w) = [out |-> e.out, part |-> <<>>]
  BY <1>2, <1>3 DEF Writes
<1> QED
  BY <1>2, <1>4 DEF Writes

\* The next restart marker.
LEMMA RestartWrites ==
    ASSUME NEW w, NEW n, Writes(w, n)
    PROVE  Writes(Sequential!EmitMarker(w, Sequential!RST0 + (n % 8)), n + 1)
<1> DEFINE o == w.out \o <<Sequential!FF, Sequential!RST0 + (n % 8)>>
<1>1. Marked(o, n + 1)
  BY MarkedRestart DEF Writes
<1>2. Sequential!EmitMarker(w, Sequential!RST0 + (n % 8)) = [w EXCEPT !.out = o]
  BY DEF Sequential!EmitMarker
<1> HIDE DEF o
<1> QED
  BY <1>1, <1>2 DEF Writes

-----------------------------------------------------------------------------
(* HuffmanScan: the markers of the encoder.                                *)

\* Of the nth interval, whose MCUs count down restarts_to_go.
Counted(n) ==
    /\ num = n % 8
    /\ interval = 0 => n = 0
    /\ interval # 0 => /\ to_go \in Nat /\ to_go <= interval
                       /\ index = n * interval + (interval - to_go)
                       /\ index > 0 => to_go < interval

\* The predictions are zeros or the last ones of an MCU.
SequentialInv ==
    /\ phase \in {"gather", "encode", "channel", "decode", "done"}
    /\ mcus \in Pictures /\ interval \in Intervals
    /\ phase \in {"gather", "encode"} =>
         /\ index \in 0..Len(mcus)
         /\ last_dc \in {Sequential!Zeros} \cup
                          {Sequential!LastDc(mcus[j], Sequential!Zeros) :
                             j \in DOMAIN mcus}
    /\ phase = "gather" => saved = Sequential!EmptyWriter
    /\ phase = "encode" => \E n \in Nat : Writes(saved, n) /\ Counted(n)
    /\ phase = "channel" => Sequential!OnlyOurMarkers

LEMMA PictureFacts ==
    ASSUME mcus \in Pictures, interval \in Intervals
    PROVE  /\ interval \in Nat /\ Len(mcus) \in Nat \ {0}
           /\ DOMAIN mcus = 1..Len(mcus)
           /\ \A i \in DOMAIN mcus :
                \A dc \in {Sequential!Zeros} \cup
                            {Sequential!LastDc(mcus[j], Sequential!Zeros) :
                               j \in DOMAIN mcus} :
                  Sequential!CodeBits(Sequential!McuSymbols(mcus[i], dc))
                    \in Seq({0, 1})
<1>1. Sequential!PicturesAssumption
  BY HuffmanAssumptions DEF HuffmanAssumptions
<1>2. mcus \in Seq([DOMAIN Membership -> [1..(Sequential!Se + 1) -> Int]])
      /\ mcus # <<>>
  BY <1>1 DEF Sequential!PicturesAssumption
<1>3. Len(mcus) \in Nat \ {0} /\ DOMAIN mcus = 1..Len(mcus)
  <2> DEFINE S == [DOMAIN Membership -> [1..(Sequential!Se + 1) -> Int]]
  <2> HIDE DEF S
  <2>1. mcus \in Seq(S) /\ mcus # <<>>
    BY <1>2 DEF S
  <2> QED
    BY <2>1
<1>4. interval \in Nat
  BY <1>1 DEF Sequential!PicturesAssumption
<1>5. \A i \in DOMAIN mcus :
        \A dc \in {Sequential!Zeros} \cup
                    {Sequential!LastDc(mcus[j], Sequential!Zeros) :
                       j \in DOMAIN mcus} :
          Sequential!CodeBits(Sequential!McuSymbols(mcus[i], dc)) \in Seq({0, 1})
  BY <1>1 DEF Sequential!PicturesAssumption
<1> QED
  BY <1>3, <1>4, <1>5

\* The MCU's last DC values do not depend on the predictions.
LEMMA LastDcIs ==
    ASSUME NEW mcu, NEW dc
    PROVE  Sequential!LastDc(mcu, dc) = Sequential!LastDc(mcu, Sequential!Zeros)
BY DEF Sequential!LastDc

\* The interval that the index is in.
LEMMA IntervalOf ==
    ASSUME NEW n \in Nat, NEW m \in Nat \ {0}, NEW i \in Nat, NEW t \in Nat,
           t < m, i = n * m + (m - t)
    PROVE  (i - 1) \div m = n
<1> DEFINE r == m - t - 1
           p == n * m
<1>1. r \in Nat /\ r < m
  OBVIOUS
<1>2. p \in Int
  OBVIOUS
<1>3. i - 1 = p + r
  BY <1>2
<1> HIDE DEF r
<1>4. (n * m + r) \div m = n
  BY <1>1
<1> QED
  BY <1>3, <1>4

LEMMA SameCardinality ==
    ASSUME NEW S PROVE Sequential!Cardinality(S) = Cardinality(S)
BY Zenon DEF Sequential!Cardinality, Cardinality

\* EOI behind n restart markers.
EndMarked(y, n) ==
    LET at == MarkersIn(y)
        number(i) == Cardinality({j \in at : j < i})
    IN /\ Cardinality(at) = n + 1
       /\ \A i \in at : y[i] = IF number(i) = n THEN Sequential!EOI
                               ELSE Sequential!RST0 + (number(i) % 8)

LEMMA MarkedEnd ==
    ASSUME NEW x, NEW n, Marked(x, n), NEW y,
           y = x \o <<Sequential!FF, Sequential!EOI>>
    PROVE  EndMarked(y, n)
<1>1. MarkerMore(x, y, Sequential!EOI, n)
  <2>1. Sequential!EOI \in Bytes /\ Sequential!EOI # 0
    BY DEF Bytes, Sequential!EOI
  <2> QED
    BY <2>1, MarkersMore
<1>2. ASSUME NEW i \in MarkersIn(y)
      PROVE  y[i] = IF Cardinality({j \in MarkersIn(y) : j < i}) = n
                    THEN Sequential!EOI
                    ELSE Sequential!RST0
                           + (Cardinality({j \in MarkersIn(y) : j < i}) % 8)
  <2>1. CASE i = Len(y)
    BY <1>1, <2>1 DEF MarkerMore, Marked
  <2>2. CASE i \in MarkersIn(x)
    <3>1. {j \in MarkersIn(x) : j < i} # MarkersIn(x)
      <4>1. i \in Int
        BY <2>2 DEF MarkersIn
      <4> QED
        BY <2>2, <4>1
    <3>2. Cardinality({j \in MarkersIn(x) : j < i}) # n
      <4>1. {j \in MarkersIn(x) : j < i} \in SUBSET MarkersIn(x) /\ IsFiniteSet(MarkersIn(x))
            /\ Cardinality(MarkersIn(x)) = n
        BY DEF Marked
      <4> QED
        BY <3>1, <4>1, FS_Subset
    <3> QED
      BY <1>1, <2>2, <3>2 DEF MarkerMore, Marked
  <2> QED
    BY <1>1, <2>1, <2>2 DEF MarkerMore
<1> QED
  BY <1>1, <1>2 DEF MarkerMore, EndMarked

LEMMA EncodeMcuMarks ==
    ASSUME SequentialInv, Sequential!EncodeMcu PROVE SequentialInv'
<1> DEFINE dc == IF Sequential!Restarting THEN Sequential!Zeros ELSE last_dc
           from == IF Sequential!Restarting
                   THEN Sequential!EmitMarker(Sequential!Flush(saved),
                                              Sequential!RST0 + num)
                   ELSE saved
           b == Sequential!CodeBits(Sequential!McuSymbols(mcus[index + 1], dc))
<1>1. /\ phase = "encode" /\ index < Len(mcus)
      /\ UNCHANGED <<phase, mcus, interval>>
  BY DEF Sequential!EncodeMcu, Sequential!input
<1>2. CASE UNCHANGED <<last_dc, to_go, num, index, saved>>
  BY <1>1, <1>2 DEF SequentialInv, Writes, Marked, Counted, MarkersIn
<1>3. CASE /\ saved' = Sequential!NextMcu.to
           /\ last_dc' = Sequential!NextMcu.dc
           /\ index' = index + 1 /\ Sequential!CountRestart
           /\ num' = IF Sequential!Restarting THEN (num + 1) % 8 ELSE num
  <2>1. saved' = Sequential!Emit(from, b)
        /\ last_dc' = Sequential!LastDc(mcus[index + 1], dc)
    BY <1>3 DEF Sequential!NextMcu
  <2>2. /\ index \in 0..Len(mcus)
        /\ last_dc \in {Sequential!Zeros} \cup
                         {Sequential!LastDc(mcus[j], Sequential!Zeros) :
                            j \in DOMAIN mcus}
    BY <1>1 DEF SequentialInv
  <2>3. /\ index \in Nat /\ interval \in Nat /\ Len(mcus) \in Nat \ {0}
        /\ index + 1 \in DOMAIN mcus /\ index + 1 \in 0..Len(mcus)
    BY <1>1, <2>2, PictureFacts DEF SequentialInv
  <2>4. b \in Seq({0, 1})
    <3>1. dc \in {Sequential!Zeros} \cup
                   {Sequential!LastDc(mcus[j], Sequential!Zeros) :
                      j \in DOMAIN mcus}
      BY <2>2
    <3> HIDE DEF dc
    <3> QED
      BY <2>3, <3>1, PictureFacts DEF SequentialInv
  <2>5. last_dc' = Sequential!LastDc(mcus[index + 1], Sequential!Zeros)
    BY <2>1, LastDcIs
  <2> HIDE DEF b
  <2>6. PICK n \in Nat : Writes(saved, n) /\ Counted(n)
    BY <1>1 DEF SequentialInv
  <2>7. CASE Sequential!Restarting
    <3>1. interval # 0 /\ to_go = 0 /\ num = n % 8
      BY <2>6, <2>7 DEF Sequential!Restarting, Counted
    <3>2. Writes(from, n + 1)
      BY <2>6, <2>7, <3>1, FlushWrites, RestartWrites
    <3> HIDE DEF from
    <3>3. Writes(saved', n + 1)
      BY <2>1, <2>4, <3>2, EmitWrites
    <3>4. index = n * interval + interval
      <4> DEFINE p == n * interval
      <4>1. p \in Int
        BY <2>3
      <4>2. index = p + (interval - to_go)
        BY <2>6, <3>1 DEF Counted
      <4> HIDE DEF p
      <4>3. index = p + interval
        BY <2>3, <3>1, <4>1, <4>2
      <4> QED
        BY <4>3 DEF p
    <3>5. (n + 1) * interval = n * interval + interval
      BY <2>3
    <3>6. num' = (n + 1) % 8 /\ to_go' = interval - 1
      BY <1>3, <2>7, <3>1 DEF Sequential!CountRestart
    <3>7. index' = (n + 1) * interval + (interval - to_go')
      <4> DEFINE q == (n + 1) * interval
      <4> HIDE DEF q
      <4>1. q = index
        BY <3>4, <3>5 DEF q
      <4> QED
        BY <1>3, <2>3, <3>6, <4>1 DEF q
    <3>8. Counted(n + 1)'
      BY <1>1, <2>3, <3>1, <3>6, <3>7 DEF Counted
    <3>9. (Writes(saved, n + 1))'
      BY <3>3 DEF Writes, Marked, MarkersIn
    <3>10. n + 1 \in Nat
      OBVIOUS
    <3> QED
      BY <1>1, <1>3, <2>3, <2>5, <3>8, <3>9, <3>10 DEF SequentialInv
  <2>8. CASE ~Sequential!Restarting
    <3>1. Writes(from, n)
      BY <2>6, <2>8
    <3> HIDE DEF from
    <3>2. Writes(saved', n)
      BY <2>1, <2>4, <3>1, EmitWrites
    <3>3. Counted(n)'
      <4>1. CASE interval = 0
        BY <1>1, <1>3, <2>6, <2>8, <4>1 DEF Counted
      <4>2. CASE interval # 0
        <5>1. to_go # 0 /\ to_go' = to_go - 1 /\ num' = num
          BY <1>3, <2>8, <4>2
          DEF Sequential!Restarting, Sequential!CountRestart
        <5>2. /\ to_go \in Nat /\ to_go <= interval /\ num = n % 8
              /\ index = n * interval + (interval - to_go)
          BY <2>6, <4>2 DEF Counted
        <5> DEFINE p == n * interval
        <5>3. p \in Int
          BY <2>3
        <5> HIDE DEF p
        <5>4. index + 1 = p + (interval - (to_go - 1))
          BY <2>3, <5>2, <5>3 DEF p
        <5>5. index' = n * interval + (interval - to_go')
          BY <1>3, <5>1, <5>4 DEF p
        <5> QED
          BY <1>1, <2>3, <4>2, <5>1, <5>2, <5>5 DEF Counted
      <4> QED
        BY <4>1, <4>2
    <3>4. (Writes(saved, n))'
      BY <3>2 DEF Writes, Marked, MarkersIn
    <3> QED
      BY <1>1, <1>3, <2>3, <2>5, <3>3, <3>4 DEF SequentialInv
  <2> QED
    BY <2>7, <2>8
<1> QED
  BY <1>2, <1>3 DEF Sequential!EncodeMcu

LEMMA FinishEncodingMarks ==
    ASSUME SequentialInv, Sequential!FinishEncoding PROVE SequentialInv'
<1>1. /\ phase = "encode" /\ index = Len(mcus) /\ phase' = "channel"
      /\ file' = Sequential!EmitMarker(Sequential!Flush(saved),
                                       Sequential!EOI).out
      /\ UNCHANGED <<mcus, interval, index>>
  BY DEF Sequential!FinishEncoding, Sequential!input
<1>2. PICK n \in Nat : Writes(saved, n) /\ Counted(n)
  BY <1>1 DEF SequentialInv
<1> DEFINE x == Sequential!Flush(saved).out
<1>3. Writes(Sequential!Flush(saved), n)
  BY <1>2, FlushWrites
<1>4. Marked(x, n)
  BY <1>3 DEF Writes
<1>5. file' = x \o <<Sequential!FF, Sequential!EOI>>
  <2> DEFINE w == Sequential!Flush(saved)
  <2> HIDE DEF w
  <2>1. w = [out |-> w.out, part |-> w.part]
    BY <1>3 DEF w, Writes
  <2>2. file' = w.out \o <<Sequential!FF, Sequential!EOI>>
    BY <1>1, <2>1 DEF w, Sequential!EmitMarker
  <2> QED
    BY <2>2 DEF w
<1> HIDE DEF x
<1>6. n = Sequential!LastInterval
  <2>1. interval \in Nat /\ Len(mcus) \in Nat \ {0}
    BY PictureFacts DEF SequentialInv
  <2>2. CASE interval = 0
    BY <1>2, <2>2 DEF Counted, Sequential!LastInterval, Sequential!Interval
  <2>3. CASE interval # 0
    <3>1. (index - 1) \div interval = n
      BY <1>1, <1>2, <2>1, <2>3, IntervalOf DEF Counted
    <3> QED
      BY <1>1, <2>3, <3>1 DEF Sequential!LastInterval, Sequential!Interval
  <2> QED
    BY <2>2, <2>3
<1>7. EndMarked(file', n)
  BY <1>4, <1>5, MarkedEnd
<1>8. (Sequential!LastInterval)' = n
  BY <1>1, <1>6 DEF Sequential!LastInterval, Sequential!Interval
<1>9. Sequential!OnlyOurMarkers'
  BY <1>7, <1>8, SameCardinality
  DEF Sequential!OnlyOurMarkers, EndMarked, MarkersIn
<1> QED
  BY <1>1, <1>9 DEF SequentialInv

LEMMA SequentialInitInv == Sequential!Init => SequentialInv
<1> SUFFICES ASSUME Sequential!Init PROVE SequentialInv
  OBVIOUS
<1>1. /\ mcus \in Pictures /\ interval \in Intervals /\ index = 0
      /\ last_dc = Sequential!Zeros /\ saved = Sequential!EmptyWriter
      /\ phase = "gather"
  BY DEF Sequential!Init
<1> QED
  BY <1>1, PictureFacts DEF SequentialInv

LEMMA SequentialNextInv ==
    ASSUME SequentialInv, Sequential!Next PROVE SequentialInv'
<1>0. mcus \in Pictures /\ interval \in Intervals
  BY DEF SequentialInv
<1>1. CASE Sequential!GatherMcu
  <2>1. /\ phase = "gather" /\ index < Len(mcus) /\ index' = index + 1
        /\ \E dc : last_dc' = Sequential!LastDc(mcus[index + 1], dc)
        /\ UNCHANGED <<phase, mcus, interval, saved>>
    BY <1>1 DEF Sequential!GatherMcu, Sequential!input
  <2>2. index + 1 \in DOMAIN mcus /\ index + 1 \in 0..Len(mcus)
    BY <1>0, <2>1, PictureFacts DEF SequentialInv
  <2>3. last_dc' = Sequential!LastDc(mcus[index + 1], Sequential!Zeros)
    BY <2>1, LastDcIs
  <2> QED
    BY <2>1, <2>2, <2>3 DEF SequentialInv
<1>2. CASE Sequential!StartEncoding
  <2>1. /\ phase = "gather" /\ phase' = "encode" /\ index' = 0
        /\ last_dc' = Sequential!Zeros /\ to_go' = interval /\ num' = 0
        /\ UNCHANGED <<mcus, interval, saved>>
    BY <1>2 DEF Sequential!StartEncoding, Sequential!StartPass,
                Sequential!input, Sequential!coder
  <2>2. Writes(Sequential!EmptyWriter, 0)
    BY MarkedEmpty DEF Writes, Sequential!EmptyWriter
  <2>3. (Writes(saved, 0))'
    BY <2>1, <2>2 DEF Writes, Marked, MarkersIn, SequentialInv
  <2>4. Counted(0)'
    BY <1>0, <2>1, PictureFacts DEF Counted
  <2>5. 0 \in 0..Len(mcus)
    BY <1>0, PictureFacts
  <2> QED
    BY <1>0, <2>1, <2>3, <2>4, <2>5 DEF SequentialInv
<1>3. CASE Sequential!EncodeMcu
  BY <1>3, EncodeMcuMarks
<1>4. CASE Sequential!FinishEncoding
  BY <1>4, FinishEncodingMarks
<1>5. CASE Sequential!Deliver
  BY <1>5 DEF Sequential!Deliver, Sequential!input, SequentialInv
<1>6. CASE Sequential!DecodeRestart
  BY <1>6 DEF Sequential!DecodeRestart, Sequential!input, SequentialInv
<1>7. CASE Sequential!DecodeMcu
  BY <1>7 DEF Sequential!DecodeMcu, Sequential!input, SequentialInv
<1>8. CASE Sequential!Arrive
  BY <1>8 DEF Sequential!Arrive, Sequential!input, SequentialInv
<1>9. CASE Sequential!FinishDecoding
  BY <1>9 DEF Sequential!FinishDecoding, Sequential!input, SequentialInv
<1>10. CASE Sequential!Done
  BY <1>10
  DEF Sequential!Done, Sequential!vars, Sequential!input, Sequential!coder,
      SequentialInv, Writes, Marked, MarkersIn, Counted, Sequential!OnlyOurMarkers,
      Sequential!LastInterval, Sequential!Interval
<1> QED
  BY <1>1, <1>2, <1>3, <1>4, <1>5, <1>6, <1>7, <1>8, <1>9, <1>10
  DEF Sequential!Next
-----------------------------------------------------------------------------
(* ProgressiveScan: the encoder's run of blocks and its correction bits.   *)

ProgressiveFacts ==
    /\ Progressive!Lim \in Nat /\ Banded.RunMax \in Nat
    /\ Banded.D * Banded.D = Progressive!Lim + 1
    /\ MaxEobRun \in Nat \ {0} /\ MaxCorrBits \in Nat
    /\ Progressive!Lim <= MaxCorrBits

\* The constants are what they should be.
LEMMA ProgressiveConstants == ProgressiveFacts
<1>1. Progressive!ScansAssumption
  BY HuffmanAssumptions DEF HuffmanAssumptions
<1>2. Banded.D \in 1..8 /\ Banded.D * Banded.D \in Nat
      /\ Banded.D * Banded.D >= 1
  <2>1. Banded.D \in 1..8
    BY <1>1 DEF Progressive!ScansAssumption
  <2> QED
    BY <2>1
<1> QED
  BY <1>1, <1>2 DEF Progressive!ScansAssumption, Progressive!Lim,
                    ProgressiveFacts

\* A pending run and its correction bits, with room for another block.
PendingFits(run, corr) ==
    /\ run \in Nat /\ run < MaxEobRun
    /\ corr \in Seq({0, 1})
    /\ Len(corr) + Progressive!Lim <= MaxCorrBits
    /\ run = 0 => corr = <<>>

\* What an MCU has emitted so far.
Whole(e) ==
    e = [bits |-> e.bits, names |-> e.names, run |-> e.run, corr |-> e.corr]

\* What it has emitted leaves such a run.
EncFits(e) == Whole(e) /\ PendingFits(e.run, e.corr)

\* The run is the same behind what is emitted.
SameRun(e, f) == Whole(f) /\ f.run = e.run /\ f.corr = e.corr

\* The record with another run.
LEMMA WithRun ==
    ASSUME NEW e, Whole(e), NEW r, NEW c,
           NEW f, f = [e EXCEPT !.run = r, !.corr = c]
    PROVE  f = [bits |-> e.bits, names |-> e.names, run |-> r, corr |-> c]
BY DEF Whole

\* Emitting something else does not change the run.
LEMMA WithBits ==
    ASSUME NEW e, Whole(e), NEW b, NEW n,
           NEW f, f = [e EXCEPT !.bits = b, !.names = n]
    PROVE  SameRun(e, f)
<1>1. f = [bits |-> b, names |-> n, run |-> e.run, corr |-> e.corr]
  BY DEF Whole
<1> QED
  BY <1>1 DEF Whole, SameRun

LEMMA AcSymRun ==
    ASSUME NEW e, Whole(e), NEW symbol, NEW extra
    PROVE  SameRun(e, Progressive!AcSym(e, symbol, extra))
<1> DEFINE b == e.bits \o Progressive!AcCodes[symbol] \o extra
           n == Append(e.names, symbol)
           f == Progressive!AcSym(e, symbol, extra)
<1>1. f = [e EXCEPT !.bits = b, !.names = n]
  BY DEF Progressive!AcSym
<1> HIDE DEF b, n, f
<1>2. SameRun(e, f)
  BY <1>1, WithBits
<1> QED
  BY <1>2 DEF f

LEMMA AppendRun ==
    ASSUME NEW e, Whole(e), NEW b
    PROVE  SameRun(e, Progressive!Append1(e, b))
<1> DEFINE f == Progressive!Append1(e, b)
           c == e.bits \o b
<1>1. f = [e EXCEPT !.bits = c]
  BY DEF Progressive!Append1
<1> HIDE DEF f, c
<1>2. f = [bits |-> c, names |-> e.names, run |-> e.run, corr |-> e.corr]
  BY <1>1 DEF Whole
<1>3. SameRun(e, f)
  BY <1>2 DEF Whole, SameRun
<1> QED
  BY <1>3 DEF f

LEMMA ZrlsRun ==
    ASSUME NEW e, Whole(e), NEW r
    PROVE  SameRun(e, Progressive!Zrls(e, r))
<1> DEFINE n == r \div (Banded.RunMax + 1)
           b == e.bits \o Progressive!FlattenSeq(
                  [i \in 1..n |-> Progressive!AcCodes[16 * Banded.RunMax]])
           names == e.names \o [i \in 1..n |-> 16 * Banded.RunMax]
           f == Progressive!Zrls(e, r)
<1>1. f = [e EXCEPT !.bits = b, !.names = names]
  BY DEF Progressive!Zrls
<1> HIDE DEF b, names, f
<1>2. SameRun(e, f)
  BY <1>1, WithBits
<1> QED
  BY <1>2 DEF f

\* What fits still does.
LEMMA SameFits ==
    ASSUME NEW e, NEW f, EncFits(e), SameRun(e, f)
    PROVE  EncFits(f)
BY DEF EncFits, SameRun

\* emit_eobrun leaves no run and no bits.
LEMMA EobrunFits ==
    ASSUME NEW e, Whole(e), e.run = 0 => e.corr = <<>>
    PROVE  LET f == Progressive!EmitEobrun(e)
           IN  EncFits(f) /\ f.run = 0 /\ f.corr = <<>>
<1> DEFINE f == Progressive!EmitEobrun(e)
<1>1. PendingFits(0, <<>>)
  BY ProgressiveConstants DEF PendingFits, ProgressiveFacts
<1>2. CASE e.run = 0
  <2>1. f = e
    BY <1>2 DEF Progressive!EmitEobrun
  <2> HIDE DEF f
  <2>2. EncFits(f) /\ f.run = 0 /\ f.corr = <<>>
    BY <1>1, <1>2, <2>1 DEF EncFits
  <2> QED
    BY <2>2 DEF f
<1>3. CASE e.run # 0
  <2> DEFINE n == Progressive!NBits(e.run) - 1
             g == Progressive!AcSym(e, 16 * n,
                                    Progressive!BitsOf(e.run - 2^n, n))
             h == Progressive!Append1(g, e.corr)
  <2>1. f = [h EXCEPT !.run = 0, !.corr = <<>>]
    BY <1>3 DEF Progressive!EmitEobrun
  <2>2. Whole(h)
    <3>1. Whole(g)
      <4> HIDE DEF n
      <4> QED
        BY AcSymRun DEF SameRun
    <3> HIDE DEF g
    <3> QED
      BY <3>1, AppendRun DEF SameRun
  <2> HIDE DEF f, h
  <2>3. f = [bits |-> h.bits, names |-> h.names, run |-> 0, corr |-> <<>>]
    BY <2>1, <2>2, WithRun
  <2>4. EncFits(f) /\ f.run = 0 /\ f.corr = <<>>
    BY <1>1, <2>3 DEF EncFits, Whole
  <2> QED
    BY <2>4 DEF f
<1> QED
  BY <1>2, <1>3

\* One more block for the run: its correction bits leave room for another's,
\* or go out at once.
LEMMA CountFits ==
    ASSUME NEW e, EncFits(e), NEW corr \in Seq({0, 1}),
           Progressive!s.Ah # 0 \/ corr = <<>>
    PROVE  EncFits(Progressive!CountEob(e, corr))
<1> DEFINE r == e.run + 1
           c == e.corr \o corr
           more == [e EXCEPT !.run = r, !.corr = c]
           full == \/ more.run = MaxEobRun
                   \/ /\ Progressive!s.Ah # 0
                      /\ Len(more.corr) > MaxCorrBits - Banded.D * Banded.D + 1
<1>1. Progressive!CountEob(e, corr)
        = IF full THEN Progressive!EmitEobrun(more) ELSE more
  BY DEF Progressive!CountEob
<1>2. more = [bits |-> e.bits, names |-> e.names, run |-> r, corr |-> c]
  <2> HIDE DEF r, c
  <2> QED
    BY WithRun DEF EncFits
<1>3. /\ r \in Nat \ {0} /\ r <= MaxEobRun
      /\ c \in Seq({0, 1}) /\ Len(c) = Len(e.corr) + Len(corr)
  BY ProgressiveConstants DEF EncFits, PendingFits, ProgressiveFacts
<1> HIDE DEF r, c, more
<1>4. Whole(more) /\ more.run = r /\ more.corr = c
  BY <1>2 DEF Whole
<1>5. CASE full
  BY <1>1, <1>3, <1>4, <1>5, EobrunFits
<1>6. CASE ~full
  <2>1. Len(c) + Progressive!Lim <= MaxCorrBits
    <3>1. CASE corr = <<>>
      BY <3>1, <1>3, ProgressiveConstants
      DEF EncFits, PendingFits, ProgressiveFacts
    <3>2. CASE Progressive!s.Ah # 0
      BY <3>2, <1>6, <1>3, <1>4, ProgressiveConstants DEF ProgressiveFacts
    <3> QED
      BY <3>1, <3>2
  <2> QED
    BY <2>1, <1>1, <1>3, <1>4, <1>6, ProgressiveConstants
    DEF EncFits, PendingFits, ProgressiveFacts
<1> QED
  BY <1>5, <1>6

-----------------------------------------------------------------------------
(* A block of an AC scan.                                                  *)

\* What AcFirst knows behind a coefficient.
FirstOK(t) ==
    /\ t = [e |-> t.e, r |-> t.r]
    /\ EncFits(t.e)
    /\ t.r \in Nat

LEMMA FirstCoefOK ==
    ASSUME NEW t, FirstOK(t), NEW v
    PROVE  FirstOK(Progressive!FirstCoef(t, v))
<1>1. CASE v = 0
  <2>1. Progressive!FirstCoef(t, v) = [e |-> t.e, r |-> t.r + 1]
    BY <1>1 DEF Progressive!FirstCoef, FirstOK
  <2> QED
    BY <2>1 DEF FirstOK
<1>2. CASE v # 0
  <2> DEFINE f == Progressive!EmitEobrun(t.e)
             g == Progressive!Zrls(f, t.r)
             symbol == 16 * (t.r % (Banded.RunMax + 1)) + Progressive!NBits(v)
             h == Progressive!AcSym(g, symbol, Progressive!Extra(v))
  <2>1. Progressive!FirstCoef(t, v) = [e |-> h, r |-> 0]
    BY <1>2 DEF Progressive!FirstCoef
  <2>2. EncFits(f)
    BY EobrunFits DEF FirstOK, EncFits, PendingFits
  <2> HIDE DEF f
  <2>3. EncFits(g)
    BY <2>2, ZrlsRun, SameFits DEF EncFits
  <2> HIDE DEF g, symbol
  <2>4. EncFits(h)
    BY <2>3, AcSymRun, SameFits DEF EncFits
  <2> HIDE DEF h
  <2> QED
    BY <2>1, <2>4 DEF FirstOK
<1> QED
  BY <1>1, <1>2

\* What AcRefine knows behind the coefficient at k: the correction bits of the
\* block itself have room behind those of the run.
RefineOK(t, k) ==
    /\ t = [e |-> t.e, r |-> t.r, br |-> t.br]
    /\ EncFits(t.e)
    /\ t.r \in Nat
    /\ t.br \in Seq({0, 1})
    /\ Len(t.br) <= k

LEMMA BreakUpOK ==
    ASSUME NEW t, NEW k \in Nat, RefineOK(t, k), NEW follows \in BOOLEAN
    PROVE  RefineOK(Progressive!BreakUp(t, follows), k)
<1>1. CASE ~(t.r > Banded.RunMax /\ follows)
  BY <1>1 DEF Progressive!BreakUp
<1>2. CASE t.r > Banded.RunMax /\ follows
  <2> DEFINE f == Progressive!EmitEobrun(t.e)
             g == Progressive!AcSym(f, 16 * Banded.RunMax, <<>>)
             zrl == Progressive!Append1(g, t.br)
             h == Progressive!Zrls(zrl, t.r - Banded.RunMax - 1)
  <2>1. Progressive!BreakUp(t, follows)
          = [e |-> h, r |-> t.r % (Banded.RunMax + 1), br |-> <<>>]
    BY <1>2 DEF Progressive!BreakUp
  <2>2. EncFits(f)
    BY EobrunFits DEF RefineOK, EncFits, PendingFits
  <2> HIDE DEF f
  <2>3. EncFits(g)
    BY <2>2, AcSymRun, SameFits DEF EncFits
  <2> HIDE DEF g
  <2>4. EncFits(zrl)
    BY <2>3, AppendRun, SameFits DEF EncFits
  <2> HIDE DEF zrl
  <2>5. EncFits(h)
    BY <2>4, ZrlsRun, SameFits DEF EncFits
  <2> HIDE DEF h
  <2>6. t.r % (Banded.RunMax + 1) \in Nat
    BY ProgressiveConstants DEF RefineOK, ProgressiveFacts
  <2> QED
    BY <2>1, <2>5, <2>6 DEF RefineOK
<1> QED
  BY <1>1, <1>2

LEMMA RefineCoefOK ==
    ASSUME NEW t, NEW k \in Nat, RefineOK(t, k), NEW bit,
           NEW m \in Nat, NEW follows \in BOOLEAN
    PROVE  RefineOK(Progressive!RefineCoef(t, bit, m, follows), k + 1)
<1> DEFINE u == Progressive!BreakUp(t, follows)
           c == Progressive!RefineCoef(t, bit, m, follows)
<1>1. RefineOK(u, k)
  BY BreakUpOK
<1>2. CASE m = 0
  <2>1. c = [e |-> t.e, r |-> t.r + 1, br |-> t.br]
    <3>1. c = [t EXCEPT !.r = @ + 1]
      BY <1>2 DEF Progressive!RefineCoef
    <3> QED
      BY <3>1 DEF RefineOK
  <2> HIDE DEF c
  <2>2. RefineOK(c, k + 1)
    BY <2>1 DEF RefineOK
  <2> QED
    BY <2>2 DEF c
<1>3. CASE m > 1
  <2> DEFINE br == Append(u.br, m % 2)
  <2>1. c = [u EXCEPT !.br = br]
    BY <1>3 DEF Progressive!RefineCoef
  <2>2. br \in Seq({0, 1}) /\ Len(br) <= k + 1
    <3>1. m % 2 \in {0, 1}
      OBVIOUS
    <3> HIDE DEF u
    <3> QED
      BY <1>1, <3>1 DEF RefineOK
  <2> HIDE DEF c, u, br
  <2>3. c = [e |-> u.e, r |-> u.r, br |-> br]
    BY <2>1, <1>1 DEF RefineOK
  <2>4. RefineOK(c, k + 1)
    BY <2>2, <2>3, <1>1 DEF RefineOK
  <2> QED
    BY <2>4 DEF c
<1>4. CASE m = 1
  <2> DEFINE f == Progressive!EmitEobrun(u.e)
             new == Progressive!AcSym(f, 16 * u.r + 1, <<bit>>)
             h == Progressive!Append1(new, u.br)
  <2>1. c = [e |-> h, r |-> 0, br |-> <<>>]
    BY <1>4 DEF Progressive!RefineCoef
  <2> HIDE DEF c, u
  <2>2. EncFits(f)
    BY <1>1, EobrunFits DEF RefineOK, EncFits, PendingFits
  <2> HIDE DEF f
  <2>3. EncFits(new)
    BY <2>2, AcSymRun, SameFits DEF EncFits
  <2> HIDE DEF new
  <2>4. EncFits(h)
    BY <2>3, AppendRun, SameFits DEF EncFits
  <2> HIDE DEF h
  <2>5. RefineOK(c, k + 1)
    BY <2>1, <2>4 DEF RefineOK
  <2> QED
    BY <2>5 DEF c
<1> QED
  BY <1>2, <1>3, <1>4

\* The scan, one of those that validate_script lets through.
ScanOK ==
    /\ Progressive!s.Ss \in Nat /\ Progressive!s.Se \in Nat
    /\ Progressive!s.Ss <= Progressive!s.Se
    /\ Progressive!s.Se <= Progressive!Lim
    /\ Progressive!s.Al \in 0..13

\* The loop of AcFirst at k, and what follows it.
FirstAt(block, e, f, k) ==
    IF k < Progressive!s.Ss THEN [e |-> e, r |-> 0]
    ELSE Progressive!FirstCoef(f[k - 1],
           Progressive!Sign(block[k + 1])
             * Progressive!Magnitude(block[k + 1], Progressive!s.Al))
FirstEnd(end) ==
    IF end.r > 0 THEN Progressive!CountEob(end.e, <<>>) ELSE end.e

\* The loop goes from one coefficient to the next.
LEMMA FirstTurns ==
    ASSUME NEW block, NEW e, ScanOK, Progressive!s.Ss # 0
    PROVE  \E f : /\ f = [k \in (Progressive!s.Ss - 1)..Progressive!s.Se |->
                            FirstAt(block, e, f, k)]
                  /\ Progressive!AcFirst(block, e)
                       = FirstEnd(f[Progressive!s.Se])
<1> DEFINE from == Progressive!s.Ss - 1
           to == Progressive!s.Se
           At(f, k) == FirstAt(block, e, f, k)
           Ok == {n \in Nat : \E f : f = [k \in from..n |-> At(f, k)]}
<1>0. from \in Nat /\ to \in Nat /\ from + 1 = Progressive!s.Ss
  BY DEF ScanOK
<1>1. 0 \in Ok
  <2> DEFINE start == [e |-> e, r |-> 0]
             f == [k \in from..0 |-> start]
  <2>1. \A k \in from..0 : At(f, k) = start
    BY <1>0 DEF FirstAt
  <2>2. f = [k \in from..0 |-> At(f, k)]
    <3> HIDE DEF At, start
    <3> QED
      BY <2>1
  <2> HIDE DEF f, At
  <2> QED
    BY <2>2
<1>2. ASSUME NEW n \in Nat, n \in Ok PROVE n + 1 \in Ok
  <2>1. PICK f : f = [k \in from..n |-> At(f, k)]
    BY <1>2
  <2> DEFINE g == [k \in from..(n + 1) |-> IF k <= n THEN f[k] ELSE At(f, k)]
  <2> HIDE DEF from
  <2>2. ASSUME NEW k \in from..(n + 1) PROVE g[k] = At(g, k)
    <3>1. k \in Int /\ (k = from => At(f, k) = At(g, k))
      <4>1. k = from => k < Progressive!s.Ss
        BY <1>0
      <4> QED
        BY <1>0, <4>1 DEF FirstAt
    <3>2. CASE k = from
      <4>1. k <= n => f[k] = At(f, k)
        <5> HIDE DEF At
        <5> QED
          BY <1>0, <2>1
      <4>2. g[k] = At(f, k)
        <5> HIDE DEF At
        <5> QED
          BY <4>1
      <4> QED
        BY <3>1, <3>2, <4>2
    <3>3. CASE k # from
      <4>1. k - 1 \in from..n /\ g[k - 1] = f[k - 1]
        <5> HIDE DEF At
        <5> QED
          BY <1>0, <3>3
      <4>2. At(g, k) = At(f, k)
        BY <4>1 DEF FirstAt
      <4>3. k <= n => f[k] = At(f, k)
        <5> HIDE DEF At
        <5> QED
          BY <1>0, <2>1
      <4> HIDE DEF At
      <4> QED
        BY <4>2, <4>3
    <3> QED
      BY <3>2, <3>3
  <2>3. g = [k \in from..(n + 1) |-> At(g, k)]
    <3> HIDE DEF At
    <3> QED
      BY <2>2
  <2> HIDE DEF g, At
  <2> QED
    BY <2>3
<1>3. PICK h : h = [k \in from..to |-> At(h, k)]
  <2>1. to \in Ok
    <3> HIDE DEF Ok
    <3> QED
      BY <1>0, <1>1, <1>2, NatSetInduction
  <2> QED
    BY <2>1
<1> DEFINE Body(f, k) ==
             IF k < Progressive!s.Ss THEN [e |-> e, r |-> 0]
             ELSE Progressive!FirstCoef(f[k - 1],
                    Progressive!Sign(block[k + 1])
                      * Progressive!Magnitude(block[k + 1], Progressive!s.Al))
           g == CHOOSE f : f = [k \in from..to |-> Body(f, k)]
<1>4. \A f, k : Body(f, k) = At(f, k)
  BY DEF FirstAt
<1>5. g = [k \in from..to |-> Body(g, k)]
  <2>1. h = [k \in from..to |-> Body(h, k)]
    <3> HIDE DEF Body, At
    <3> QED
      BY <1>3, <1>4
  <2> HIDE DEF Body
  <2> QED
    BY <2>1
<1>6. Progressive!AcFirst(block, e) = FirstEnd(g[to])
  BY DEF Progressive!AcFirst, FirstEnd
<1> HIDE DEF g
<1>7. g = [k \in from..to |-> At(g, k)]
  <2> HIDE DEF Body, At
  <2> QED
    BY <1>4, <1>5
<1> QED
  BY <1>6, <1>7

LEMMA AcFirstFits ==
    ASSUME NEW block, NEW e, EncFits(e), ScanOK, Progressive!s.Ss # 0
    PROVE  EncFits(Progressive!AcFirst(block, e))
<1>1. PICK f : /\ f = [k \in (Progressive!s.Ss - 1)..Progressive!s.Se |->
                         FirstAt(block, e, f, k)]
               /\ Progressive!AcFirst(block, e) = FirstEnd(f[Progressive!s.Se])
  BY FirstTurns
<1> DEFINE from == Progressive!s.Ss - 1
           to == Progressive!s.Se
           Ok == {n \in Nat : n \in from..to => FirstOK(f[n])}
<1>2. from \in Nat /\ to \in Nat /\ from + 1 = Progressive!s.Ss
  BY DEF ScanOK
<1>3. \A k \in from..to : f[k] = FirstAt(block, e, f, k)
  BY <1>1
<1>4. FirstOK([e |-> e, r |-> 0])
  BY DEF FirstOK
<1> HIDE DEF from, to
<1>5. from \in from..to => FirstOK(f[from])
  BY <1>2, <1>3, <1>4 DEF FirstAt
<1>6. 0 \in Ok
  BY <1>2, <1>5
<1>7. ASSUME NEW n \in Nat, n \in Ok PROVE n + 1 \in Ok
  <2> SUFFICES ASSUME n + 1 \in from..to PROVE FirstOK(f[n + 1])
    OBVIOUS
  <2>1. CASE n + 1 = from
    BY <2>1, <1>5
  <2>2. CASE n + 1 # from
    <3>1. n \in from..to /\ ~(n + 1 < Progressive!s.Ss) /\ (n + 1) - 1 = n
      BY <2>2, <1>2
    <3>2. FirstOK(f[n])
      BY <3>1, <1>7
    <3>3. f[n + 1] = Progressive!FirstCoef(f[n],
                       Progressive!Sign(block[(n + 1) + 1])
                         * Progressive!Magnitude(block[(n + 1) + 1],
                                                 Progressive!s.Al))
      BY <3>1, <1>3 DEF FirstAt
    <3> QED
      BY <3>2, <3>3, FirstCoefOK
  <2> QED
    BY <2>1, <2>2
<1>8. FirstOK(f[to])
  <2>1. to \in Ok
    <3> HIDE DEF Ok
    <3> QED
      BY <1>2, <1>6, <1>7, NatSetInduction
  <2>2. to \in from..to
    BY <1>2 DEF from, to, ScanOK
  <2> QED
    BY <2>1, <2>2
<1>9. EncFits(FirstEnd(f[to]))
  <2>1. <<>> \in Seq({0, 1})
    OBVIOUS
  <2> QED
    BY <1>8, <2>1, CountFits DEF FirstEnd, FirstOK
<1> QED
  BY <1>1, <1>9 DEF to

\* What is left of a coefficient is a number.
LEMMA MagnitudeIsNat ==
    ASSUME NEW v \in Int, NEW Al \in 0..13
    PROVE  Progressive!Magnitude(v, Al) \in Nat
<1>1. 2^Al \in Nat \ {0}
  <2>1. Al = 0 \/ Al = 1 \/ Al = 2 \/ Al = 3 \/ Al = 4 \/ Al = 5 \/ Al = 6
        \/ Al = 7 \/ Al = 8 \/ Al = 9 \/ Al = 10 \/ Al = 11 \/ Al = 12
        \/ Al = 13
    OBVIOUS
  <2>2. /\ 2^0 = 1 /\ 2^1 = 2 /\ 2^2 = 4 /\ 2^3 = 8 /\ 2^4 = 16
        /\ 2^5 = 32 /\ 2^6 = 64 /\ 2^7 = 128 /\ 2^8 = 256 /\ 2^9 = 512
        /\ 2^10 = 1024 /\ 2^11 = 2048 /\ 2^12 = 4096 /\ 2^13 = 8192
    OBVIOUS
  <2>3. CASE Al = 0
    BY <2>3, <2>2
  <2>4. CASE Al = 1
    BY <2>4, <2>2
  <2>5. CASE Al = 2
    BY <2>5, <2>2
  <2>6. CASE Al = 3
    BY <2>6, <2>2
  <2>7. CASE Al = 4
    BY <2>7, <2>2
  <2>8. CASE Al = 5
    BY <2>8, <2>2
  <2>9. CASE Al = 6
    BY <2>9, <2>2
  <2>10. CASE Al = 7
    BY <2>10, <2>2
  <2>11. CASE Al = 8
    BY <2>11, <2>2
  <2>12. CASE Al = 9
    BY <2>12, <2>2
  <2>13. CASE Al = 10
    BY <2>13, <2>2
  <2>14. CASE Al = 11
    BY <2>14, <2>2
  <2>15. CASE Al = 12
    BY <2>15, <2>2
  <2>16. CASE Al = 13
    BY <2>16, <2>2
  <2> QED
    BY <2>1, <2>3, <2>4, <2>5, <2>6, <2>7, <2>8, <2>9, <2>10, <2>11, <2>12, <2>13, <2>14, <2>15, <2>16
<1>2. Progressive!Abs(v) \in Nat
  BY DEF Progressive!Abs
<1> QED
  BY <1>1, <1>2 DEF Progressive!Magnitude

\* The loop of AcRefine at k, and what follows it.
LeftAt(block, k) == Progressive!Magnitude(block[k + 1], Progressive!s.Al)
Follows(block, k) ==
    \E j \in {i \in Progressive!s.Ss..Progressive!s.Se : LeftAt(block, i) = 1} :
        k <= j
RefineAt(block, e, f, k) ==
    IF k < Progressive!s.Ss THEN [e |-> e, r |-> 0, br |-> <<>>]
    ELSE Progressive!RefineCoef(f[k - 1], IF block[k + 1] < 0 THEN 0 ELSE 1,
           LeftAt(block, k), Follows(block, k))
RefineEnd(end) ==
    IF end.r > 0 \/ end.br # <<>>
    THEN Progressive!CountEob(end.e, end.br) ELSE end.e

\* The loop goes from one coefficient to the next.
LEMMA RefineTurns ==
    ASSUME NEW block, NEW e, ScanOK, Progressive!s.Ss # 0
    PROVE  \E f : /\ f = [k \in (Progressive!s.Ss - 1)..Progressive!s.Se |->
                            RefineAt(block, e, f, k)]
                  /\ Progressive!AcRefine(block, e)
                       = RefineEnd(f[Progressive!s.Se])
<1> DEFINE from == Progressive!s.Ss - 1
           to == Progressive!s.Se
           At(f, k) == RefineAt(block, e, f, k)
           Ok == {n \in Nat : \E f : f = [k \in from..n |-> At(f, k)]}
<1>0. from \in Nat /\ to \in Nat /\ from + 1 = Progressive!s.Ss
  BY DEF ScanOK
<1>1. 0 \in Ok
  <2> DEFINE start == [e |-> e, r |-> 0, br |-> <<>>]
             f == [k \in from..0 |-> start]
  <2>1. \A k \in from..0 : At(f, k) = start
    BY <1>0 DEF RefineAt
  <2>2. f = [k \in from..0 |-> At(f, k)]
    <3> HIDE DEF At, start
    <3> QED
      BY <2>1
  <2> HIDE DEF f, At
  <2> QED
    BY <2>2
<1>2. ASSUME NEW n \in Nat, n \in Ok PROVE n + 1 \in Ok
  <2>1. PICK f : f = [k \in from..n |-> At(f, k)]
    BY <1>2
  <2> DEFINE g == [k \in from..(n + 1) |-> IF k <= n THEN f[k] ELSE At(f, k)]
  <2> HIDE DEF from
  <2>2. ASSUME NEW k \in from..(n + 1) PROVE g[k] = At(g, k)
    <3>1. k \in Int /\ (k = from => At(f, k) = At(g, k))
      <4>1. k = from => k < Progressive!s.Ss
        BY <1>0
      <4> QED
        BY <1>0, <4>1 DEF RefineAt
    <3>2. CASE k = from
      <4>1. k <= n => f[k] = At(f, k)
        <5> HIDE DEF At
        <5> QED
          BY <1>0, <2>1
      <4>2. g[k] = At(f, k)
        <5> HIDE DEF At
        <5> QED
          BY <4>1
      <4> QED
        BY <3>1, <3>2, <4>2
    <3>3. CASE k # from
      <4>1. k - 1 \in from..n /\ g[k - 1] = f[k - 1]
        <5> HIDE DEF At
        <5> QED
          BY <1>0, <3>3
      <4>2. At(g, k) = At(f, k)
        BY <4>1 DEF RefineAt
      <4>3. k <= n => f[k] = At(f, k)
        <5> HIDE DEF At
        <5> QED
          BY <1>0, <2>1
      <4> HIDE DEF At
      <4> QED
        BY <4>2, <4>3
    <3> QED
      BY <3>2, <3>3
  <2>3. g = [k \in from..(n + 1) |-> At(g, k)]
    <3> HIDE DEF At
    <3> QED
      BY <2>2
  <2> HIDE DEF g, At
  <2> QED
    BY <2>3
<1>3. PICK h : h = [k \in from..to |-> At(h, k)]
  <2>1. to \in Ok
    <3> HIDE DEF Ok
    <3> QED
      BY <1>0, <1>1, <1>2, NatSetInduction
  <2> QED
    BY <2>1
<1> DEFINE Body(f, k) ==
             IF k < Progressive!s.Ss THEN [e |-> e, r |-> 0, br |-> <<>>]
             ELSE Progressive!RefineCoef(f[k - 1],
                    IF block[k + 1] < 0 THEN 0 ELSE 1,
                    Progressive!Magnitude(block[k + 1], Progressive!s.Al),
                    \E j \in {i \in Progressive!s.Ss..Progressive!s.Se :
                                Progressive!Magnitude(block[i + 1],
                                                      Progressive!s.Al) = 1} :
                      k <= j)
           g == CHOOSE f : f = [k \in from..to |-> Body(f, k)]
<1>4. \A f, k : Body(f, k) = At(f, k)
  BY DEF RefineAt, LeftAt, Follows
<1>5. g = [k \in from..to |-> Body(g, k)]
  <2>1. h = [k \in from..to |-> Body(h, k)]
    <3> HIDE DEF Body, At
    <3> QED
      BY <1>3, <1>4
  <2> HIDE DEF Body
  <2> QED
    BY <2>1
<1>6. Progressive!AcRefine(block, e) = RefineEnd(g[to])
  BY DEF Progressive!AcRefine, RefineEnd
<1> HIDE DEF g
<1>7. g = [k \in from..to |-> At(g, k)]
  <2> HIDE DEF Body, At
  <2> QED
    BY <1>4, <1>5
<1> QED
  BY <1>6, <1>7

LEMMA AcRefineFits ==
    ASSUME NEW block \in [1..(Progressive!Lim + 1) -> Int], NEW e, EncFits(e),
           ScanOK, Progressive!s.Ss # 0, Progressive!s.Ah # 0
    PROVE  EncFits(Progressive!AcRefine(block, e))
<1>1. PICK f : /\ f = [k \in (Progressive!s.Ss - 1)..Progressive!s.Se |->
                         RefineAt(block, e, f, k)]
               /\ Progressive!AcRefine(block, e)
                    = RefineEnd(f[Progressive!s.Se])
  BY RefineTurns
<1> DEFINE from == Progressive!s.Ss - 1
           to == Progressive!s.Se
           Ok == {n \in Nat : n \in from..to => RefineOK(f[n], n)}
<1>2. from \in Nat /\ to \in Nat /\ from + 1 = Progressive!s.Ss
  BY DEF ScanOK
<1>3. \A k \in from..to : f[k] = RefineAt(block, e, f, k)
  BY <1>1
<1>4. ASSUME NEW k \in Nat PROVE RefineOK([e |-> e, r |-> 0, br |-> <<>>], k)
  BY DEF RefineOK
<1>5. ASSUME NEW k \in Nat, k <= Progressive!Lim PROVE LeftAt(block, k) \in Nat
  <2>1. k + 1 \in 1..(Progressive!Lim + 1)
    BY <1>5, ProgressiveConstants DEF ProgressiveFacts
  <2>2. block[k + 1] \in Int
    BY <2>1
  <2> QED
    BY <2>2, MagnitudeIsNat DEF LeftAt, ScanOK
<1> HIDE DEF from, to
<1>6. from \in from..to => RefineOK(f[from], from)
  BY <1>2, <1>3, <1>4 DEF RefineAt
<1>7. 0 \in Ok
  BY <1>2, <1>6
<1>8. ASSUME NEW n \in Nat, n \in Ok PROVE n + 1 \in Ok
  <2> SUFFICES ASSUME n + 1 \in from..to PROVE RefineOK(f[n + 1], n + 1)
    OBVIOUS
  <2>1. CASE n + 1 = from
    BY <2>1, <1>6
  <2>2. CASE n + 1 # from
    <3>1. n \in from..to /\ ~(n + 1 < Progressive!s.Ss) /\ (n + 1) - 1 = n
      BY <2>2, <1>2
    <3>2. RefineOK(f[n], n)
      BY <3>1, <1>8
    <3>3. LeftAt(block, n + 1) \in Nat
      <4>1. n + 1 <= Progressive!Lim
        BY ProgressiveConstants DEF ScanOK, to, ProgressiveFacts
      <4> QED
        BY <4>1, <1>5
    <3> DEFINE bit == IF block[(n + 1) + 1] < 0 THEN 0 ELSE 1
    <3>4. f[n + 1] = Progressive!RefineCoef(f[n], bit, LeftAt(block, n + 1),
                                            Follows(block, n + 1))
      BY <3>1, <1>3 DEF RefineAt
    <3>5. Follows(block, n + 1) \in BOOLEAN
      BY DEF Follows
    <3> HIDE DEF bit
    <3> QED
      BY <3>2, <3>3, <3>4, <3>5, RefineCoefOK
  <2> QED
    BY <2>1, <2>2
<1>9. RefineOK(f[to], to)
  <2>1. to \in Ok
    <3> HIDE DEF Ok
    <3> QED
      BY <1>2, <1>7, <1>8, NatSetInduction
  <2>2. to \in from..to
    BY <1>2 DEF from, to, ScanOK
  <2> QED
    BY <2>1, <2>2
<1>10. EncFits(RefineEnd(f[to]))
  BY <1>9, CountFits DEF RefineEnd, RefineOK
<1> QED
  BY <1>1, <1>10 DEF to

-----------------------------------------------------------------------------
(* The encoder's invariant.                                                *)

ProgressiveInv ==
    /\ phase \in {"gather", "encode", "decode", "done"}
    /\ script \in Scripts /\ scan \in 1..Len(script)
    /\ image \in Images /\ index \in 0..Len(image)
    /\ phase \in {"gather", "encode"} => PendingFits(EOBRUN, BE)

\* What the scan at hand is.
LEMMA ScanFacts ==
    ASSUME script \in Scripts, scan \in 1..Len(script)
    PROVE  ScanOK /\ (Progressive!s.Ss = 0 => Progressive!s.Se = 0)
<1>1. Progressive!ScansAssumption
  BY HuffmanAssumptions DEF HuffmanAssumptions
<1>2. /\ script \in Seq([Ss : 0..Progressive!Lim, Se : 0..Progressive!Lim,
                         Ah : 0..13, Al : 0..13])
      /\ \A i \in DOMAIN script :
           /\ script[i].Ss <= script[i].Se
           /\ script[i].Ss = 0 => script[i].Se = 0
  BY <1>1 DEF Progressive!ScansAssumption
<1>3. scan \in DOMAIN script
  BY <1>2
<1>4. script[scan] \in [Ss : 0..Progressive!Lim, Se : 0..Progressive!Lim,
                        Ah : 0..13, Al : 0..13]
  BY <1>2, <1>3, ElementOfSeq
<1> QED
  BY <1>2, <1>3, <1>4, ProgressiveConstants
  DEF ScanOK, Progressive!s, ProgressiveFacts

\* No run is pending when a pass starts.
LEMMA NoRun == PendingFits(0, <<>>)
BY ProgressiveConstants DEF PendingFits, ProgressiveFacts

LEMMA EncodeBlockFits ==
    ASSUME NEW block \in [1..(Progressive!Lim + 1) -> Int], NEW e, EncFits(e),
           ScanOK
    PROVE  EncFits(Progressive!EncodeBlock(block, e))
<1>1. CASE Progressive!s.Ss = 0 /\ Progressive!s.Ah = 0
  <2> DEFINE diff == Progressive!Shifted(block[1], Progressive!s.Al)
                       - (IF Progressive!Restarting THEN 0 ELSE last_dc)
             b == e.bits \o Progressive!DcCodes[Progressive!NBits(diff)]
                    \o Progressive!Extra(diff)
             n == Append(e.names, Progressive!NBits(diff))
             f == Progressive!EncodeBlock(block, e)
  <2>1. f = [e EXCEPT !.bits = b, !.names = n]
    BY <1>1 DEF Progressive!EncodeBlock, Progressive!DcFirst
  <2> HIDE DEF b, n, f
  <2>2. SameRun(e, f)
    BY <2>1, WithBits DEF EncFits
  <2>3. EncFits(f)
    BY <2>2, SameFits
  <2> QED
    BY <2>3 DEF f
<1>2. CASE Progressive!s.Ss = 0 /\ Progressive!s.Ah # 0
  <2> DEFINE b == <<Progressive!Shifted(block[1], Progressive!s.Al) % 2>>
  <2>1. Progressive!EncodeBlock(block, e) = Progressive!Append1(e, b)
    BY <1>2 DEF Progressive!EncodeBlock, Progressive!DcRefine
  <2> HIDE DEF b
  <2> QED
    BY <2>1, AppendRun, SameFits DEF EncFits
<1>3. CASE Progressive!s.Ss # 0 /\ Progressive!s.Ah = 0
  BY <1>3, AcFirstFits DEF Progressive!EncodeBlock
<1>4. CASE Progressive!s.Ss # 0 /\ Progressive!s.Ah # 0
  BY <1>4, AcRefineFits DEF Progressive!EncodeBlock
<1> QED
  BY <1>1, <1>2, <1>3, <1>4

LEMMA EncodeMcuInv ==
    ASSUME ProgressiveInv, Progressive!EncodeMcu PROVE ProgressiveInv'
<1> DEFINE before == Progressive!AtRestart(Progressive!Fresh)
           block == image[index + 1]
           from == IF Progressive!Restarting THEN [before EXCEPT !.bits = <<>>]
                   ELSE before
           e == Progressive!EncodeBlock(block, from)
<1>1. /\ phase \in {"gather", "encode"} /\ index < Len(image)
      /\ index' = index + 1
      /\ UNCHANGED <<phase, script, scan, image>>
      /\ EOBRUN' = e.run /\ BE' = e.corr
  <2>1. e = IF Progressive!Restarting
            THEN Progressive!EncodeBlock(block, [before EXCEPT !.bits = <<>>])
            ELSE Progressive!EncodeBlock(block, before)
    OBVIOUS
  <2> HIDE DEF e
  <2> QED
    BY <2>1 DEF Progressive!EncodeMcu, Progressive!McuEncoded, Progressive!input
<1>2. image \in Seq([1..(Progressive!Lim + 1) -> Int])
  BY HuffmanAssumptions
  DEF HuffmanAssumptions, Progressive!ScansAssumption, ProgressiveInv
<1>3. block \in [1..(Progressive!Lim + 1) -> Int] /\ index + 1 \in 0..Len(image)
  <2> index \in Nat /\ Len(image) \in Nat
    BY <1>2 DEF ProgressiveInv
  <2>1. index + 1 \in 1..Len(image)
    BY <1>1
  <2>2. DOMAIN image = 1..Len(image)
    BY <1>2
  <2> QED
    BY <1>2, <2>1, <2>2, ElementOfSeq
<1>4. EncFits(before)
  <2>1. EncFits(Progressive!Fresh)
    BY <1>1 DEF Progressive!Fresh, EncFits, Whole, ProgressiveInv
  <2> QED
    BY <2>1, EobrunFits DEF Progressive!AtRestart, EncFits, PendingFits
<1> HIDE DEF before
<1>5. EncFits(from)
  <2>1. CASE Progressive!Restarting
    <3> DEFINE f == [before EXCEPT !.bits = <<>>]
    <3>1. f = [bits |-> <<>>, names |-> before.names, run |-> before.run,
               corr |-> before.corr]
      BY <1>4 DEF EncFits, Whole
    <3> HIDE DEF f
    <3>2. EncFits(f)
      BY <3>1, <1>4 DEF EncFits, Whole
    <3> QED
      BY <2>1, <3>2 DEF f
  <2>2. CASE ~Progressive!Restarting
    BY <2>2, <1>4
  <2> QED
    BY <2>1, <2>2
<1> HIDE DEF from
<1>6. EncFits(e)
  BY <1>3, <1>5, ScanFacts, EncodeBlockFits DEF ProgressiveInv
<1> HIDE DEF e
<1> QED
  BY <1>1, <1>3, <1>6 DEF ProgressiveInv, EncFits

LEMMA ProgressiveInitInv == Progressive!Init => ProgressiveInv
<1> SUFFICES ASSUME Progressive!Init PROVE ProgressiveInv
  OBVIOUS
<1>1. script \in Scripts /\ image \in Images /\ scan = 1 /\ index = 0
  BY DEF Progressive!Init
<1>2. /\ script \in Seq([Ss : 0..Progressive!Lim, Se : 0..Progressive!Lim,
                         Ah : 0..13, Al : 0..13]) /\ script # <<>>
      /\ image \in Seq([1..(Progressive!Lim + 1) -> Int])
  BY <1>1, HuffmanAssumptions
  DEF HuffmanAssumptions, Progressive!ScansAssumption
<1>3. 1 \in 1..Len(script) /\ 0 \in 0..Len(image)
  BY <1>2
<1> QED
  BY <1>1, <1>3, NoRun DEF Progressive!Init, ProgressiveInv

LEMMA ProgressiveNextInv ==
    ASSUME ProgressiveInv, Progressive!Next PROVE ProgressiveInv'
<1>0. /\ 0 \in 0..Len(image)
      /\ index \in 0..Len(image)
      /\ index < Len(image) => index + 1 \in 0..Len(image)
      /\ scan # Len(script) => scan + 1 \in 1..Len(script)
  <2>1. /\ script \in Seq([Ss : 0..Progressive!Lim, Se : 0..Progressive!Lim,
                           Ah : 0..13, Al : 0..13])
        /\ image \in Seq([1..(Progressive!Lim + 1) -> Int])
    BY HuffmanAssumptions
    DEF HuffmanAssumptions, Progressive!ScansAssumption, ProgressiveInv
  <2> QED
    BY <2>1 DEF ProgressiveInv
<1>1. CASE Progressive!EncodeMcu
  BY <1>1, EncodeMcuInv
<1>2. CASE Progressive!FinishGather
  BY <1>0, <1>2, NoRun
  DEF Progressive!FinishGather, Progressive!StartPass, Progressive!input,
      ProgressiveInv
<1>3. CASE Progressive!FinishEncode
  BY <1>0, <1>3
  DEF Progressive!FinishEncode, Progressive!StartPass, Progressive!input,
      ProgressiveInv
<1>4. CASE Progressive!DecodeRestart
  BY <1>4
  DEF Progressive!DecodeRestart, Progressive!Decoding, Progressive!input,
      ProgressiveInv
<1>5. CASE Progressive!DecodeMcu
  BY <1>0, <1>5
  DEF Progressive!DecodeMcu, Progressive!McuDecoded, Progressive!Decoding,
      Progressive!input, ProgressiveInv
<1>6. CASE Progressive!Arrive
  BY <1>6
  DEF Progressive!Arrive, Progressive!input, Progressive!pass, ProgressiveInv
<1>7. CASE Progressive!NextScan
  BY <1>0, <1>7, NoRun
  DEF Progressive!NextScan, Progressive!StartPass, Progressive!input,
      ProgressiveInv
<1>8. CASE Progressive!Done
  BY <1>8
  DEF Progressive!Done, Progressive!vars, Progressive!input, Progressive!pass,
      ProgressiveInv
<1> QED
  BY <1>1, <1>2, <1>3, <1>4, <1>5, <1>6, <1>7, <1>8 DEF Progressive!Next

\* A run is forced out before it or its correction bits have no room for
\* another block (jchuff.c 880-890), and nothing is left of it for the next
\* pass.
LEMMA RunsFitInv == ProgressiveInv => Progressive!RunsFit
BY DEF ProgressiveInv, PendingFits, Progressive!RunsFit
-----------------------------------------------------------------------------
(* ProgressiveScan: the two passes over the blocks.                        *)

FirstDc == Progressive!s.Ss = 0 /\ Progressive!s.Ah = 0

\* What EncodeBlock makes of a block, from the prediction dc on.
BlockOf(restarts, dc, block, e) ==
    LET diff == Progressive!Shifted(block[1], Progressive!s.Al)
                  - (IF restarts THEN 0 ELSE dc)
    IN IF FirstDc
       THEN [e EXCEPT
              !.bits = @ \o Progressive!DcCodes[Progressive!NBits(diff)]
                         \o Progressive!Extra(diff),
              !.names = Append(@, Progressive!NBits(diff))]
       ELSE Progressive!EncodeBlock(block, e)

\* What a pass of the scan makes of a block, as McuOf does of an MCU.
StepOf(iv, block, x) ==
    LET restarts == iv # 0 /\ x.to_go = 0
        fresh == [bits |-> <<>>, names |-> <<>>, run |-> x.run, corr |-> x.corr]
        before == IF restarts THEN Progressive!EmitEobrun(fresh) ELSE fresh
        e == BlockOf(restarts, x.dc, block,
               IF restarts THEN [before EXCEPT !.bits = <<>>] ELSE before)
    IN [dc |-> IF FirstDc THEN Progressive!Shifted(block[1], Progressive!s.Al)
               ELSE x.dc,
        to_go |-> IF iv = 0 THEN 0
                  ELSE (IF x.to_go = 0 THEN iv ELSE x.to_go) - 1,
        run |-> e.run, corr |-> e.corr, names |-> x.names \o e.names]

\* A pass over the blocks im up to the nth.
ScanTo(g, im, iv, n) ==
    /\ g[0] = [dc |-> 0, to_go |-> iv, run |-> 0, corr |-> <<>>, names |-> <<>>]
    /\ \A i \in 1..n : g[i] = StepOf(iv, im[i], g[i - 1])

\* The pass is at x, with these symbols so far.
IsAt(x, names) ==
    x = [dc |-> last_dc, to_go |-> to_go, run |-> EOBRUN, corr |-> BE,
         names |-> names]

\* The symbols of the whole pass, with those of the run that is left.
LastNames(x) ==
    x.names \o Progressive!EmitEobrun(
                 [bits |-> <<>>, names |-> <<>>, run |-> x.run,
                  corr |-> x.corr]).names

ScanPassesInv ==
    /\ Len(image) \in Nat /\ index \in 0..Len(image)
    /\ phase = "gather" =>
         \E g, im, iv : /\ im = image /\ iv = interval
                        /\ ScanTo(g, im, iv, index)
                        /\ IsAt(g[index], counts) /\ used = <<>>
    /\ phase = "encode" =>
         \E g, im, iv : /\ im = image /\ iv = interval
                        /\ ScanTo(g, im, iv, Len(im))
                        /\ IsAt(g[index], used)
                        /\ counts = LastNames(g[Len(im)])
    /\ phase \in {"decode", "done"} => counts = used

\* The blocks are coded alike while the scan stays.
LEMMA BlockSame ==
    ASSUME UNCHANGED <<script, scan>>, NEW restarts, NEW dc, NEW block, NEW e
    PROVE  BlockOf(restarts, dc, block, e)' = BlockOf(restarts, dc, block, e)
<1>1. Progressive!s' = Progressive!s
  BY DEF Progressive!s
<1>2. Progressive!AcFirst(block, e)' = Progressive!AcFirst(block, e)
  BY DEF Progressive!AcFirst, Progressive!s, Progressive!CountEob
<1>3. Progressive!AcRefine(block, e)' = Progressive!AcRefine(block, e)
  BY DEF Progressive!AcRefine, Progressive!s, Progressive!CountEob
<1>4. Progressive!DcRefine(block, e)' = Progressive!DcRefine(block, e)
  BY DEF Progressive!DcRefine, Progressive!s
<1>5. ~FirstDc => Progressive!EncodeBlock(block, e)'
                    = Progressive!EncodeBlock(block, e)
  BY <1>1, <1>2, <1>3, <1>4 DEF Progressive!EncodeBlock, FirstDc
<1>6. FirstDc' = FirstDc
  BY <1>1 DEF FirstDc
<1>7. CASE FirstDc
  BY <1>7 DEF BlockOf, FirstDc, Progressive!s
<1>8. CASE ~FirstDc
  BY <1>5, <1>6, <1>8 DEF BlockOf
<1> QED
  BY <1>7, <1>8

LEMMA StepSame ==
    ASSUME UNCHANGED <<script, scan>>, NEW iv, NEW block, NEW x
    PROVE  StepOf(iv, block, x)' = StepOf(iv, block, x)
<1> DEFINE restarts == iv # 0 /\ x.to_go = 0
           fresh == [bits |-> <<>>, names |-> <<>>, run |-> x.run,
                     corr |-> x.corr]
           before == IF restarts THEN Progressive!EmitEobrun(fresh) ELSE fresh
           from == IF restarts THEN [before EXCEPT !.bits = <<>>] ELSE before
           dc == IF FirstDc
                 THEN Progressive!Shifted(block[1], Progressive!s.Al) ELSE x.dc
<1>1. BlockOf(restarts, x.dc, block, from)'
        = BlockOf(restarts, x.dc, block, from)
  <2> DEFINE d == x.dc
  <2> HIDE DEF restarts, from, d
  <2> QED
    BY BlockSame DEF d
<1>2. dc' = dc
  BY DEF FirstDc, Progressive!s
<1> QED
  BY <1>1, <1>2 DEF StepOf

LEMMA ScanSame ==
    ASSUME UNCHANGED <<script, scan>>, NEW g, NEW im, NEW iv, NEW n,
           ScanTo(g, im, iv, n)
    PROVE  ScanTo(g, im, iv, n)'
<1>1. ASSUME NEW i \in 1..n PROVE g[i] = StepOf(iv, im[i], g[i - 1])'
  <2>1. g[i] = StepOf(iv, im[i], g[i - 1])
    BY DEF ScanTo
  <2> DEFINE b == im[i]
             x == g[i - 1]
  <2> HIDE DEF b, x
  <2>2. StepOf(iv, b, x)' = StepOf(iv, b, x)
    BY StepSame
  <2> QED
    BY <2>1, <2>2 DEF b, x
<1> QED
  BY <1>1 DEF ScanTo

LEMMA OneMoreBlock ==
    ASSUME NEW g, NEW im, NEW iv, NEW n \in Nat, ScanTo(g, im, iv, n)
    PROVE  \E h : /\ ScanTo(h, im, iv, n + 1)
                  /\ h[n + 1] = StepOf(iv, im[n + 1], g[n])
<1> DEFINE x == StepOf(iv, im[n + 1], g[n])
           h == [i \in 0..(n + 1) |-> IF i <= n THEN g[i] ELSE x]
<1> HIDE DEF x
<1>1. h[n + 1] = x /\ \A i \in 0..n : h[i] = g[i]
  OBVIOUS
<1> HIDE DEF h
<1>2. \A i \in 1..(n + 1) : h[i] = StepOf(iv, im[i], h[i - 1])
  <2>1. SUFFICES ASSUME NEW i \in 1..(n + 1)
                 PROVE  h[i] = StepOf(iv, im[i], h[i - 1])
    OBVIOUS
  <2>2. i \in 1..n \/ i = n + 1
    OBVIOUS
  <2>3. CASE i \in 1..n
    <3>1. i \in 0..n /\ i - 1 \in 0..n
      BY <2>3
    <3> QED
      BY <1>1, <2>3, <3>1 DEF ScanTo
  <2>4. CASE i = n + 1
    <3>1. i - 1 = n /\ n \in 0..n
      BY <2>4
    <3> QED
      BY <1>1, <2>4, <3>1 DEF x
  <2> QED
    BY <2>2, <2>3, <2>4
<1>3. h[0] = g[0]
  BY <1>1
<1>4. ScanTo(h, im, iv, n + 1)
  BY <1>2, <1>3 DEF ScanTo
<1> QED
  BY <1>1, <1>4 DEF x

\* The action does what StepOf says, and counts or writes its symbols.
LEMMA EncodeMcuIs ==
    ASSUME Progressive!EncodeMcu, NEW x, NEW names, IsAt(x, names)
    PROVE  LET y == StepOf(interval, image[index + 1], x)
           IN \E more :
                /\ y = [dc |-> last_dc', to_go |-> to_go', run |-> EOBRUN',
                        corr |-> BE', names |-> names \o more]
                /\ IF phase = "gather"
                   THEN counts' = counts \o more /\ used' = used
                   ELSE used' = used \o more /\ counts' = counts
<1> DEFINE r == Progressive!Restarting
           before == Progressive!AtRestart(Progressive!Fresh)
           block == image[index + 1]
           from == IF r THEN [before EXCEPT !.bits = <<>>] ELSE before
           e == Progressive!EncodeBlock(block, from)
           f == BlockOf(r, last_dc, block, from)
<1>1. e = IF r
          THEN Progressive!EncodeBlock(block, [before EXCEPT !.bits = <<>>])
          ELSE Progressive!EncodeBlock(block, before)
  OBVIOUS
<1>2. e = f
  BY DEF BlockOf, FirstDc, Progressive!EncodeBlock, Progressive!DcFirst
<1> HIDE DEF e
<1>3. /\ last_dc' = IF FirstDc
                    THEN Progressive!Shifted(block[1], Progressive!s.Al)
                    ELSE last_dc
      /\ to_go' = IF interval = 0 THEN 0
                  ELSE (IF to_go = 0 THEN interval ELSE to_go) - 1
      /\ EOBRUN' = e.run /\ BE' = e.corr
      /\ IF phase = "gather"
         THEN counts' = counts \o e.names /\ used' = used
         ELSE used' = used \o e.names /\ counts' = counts
  BY <1>1 DEF Progressive!EncodeMcu, Progressive!McuEncoded, FirstDc
<1>4. /\ r = (interval # 0 /\ x.to_go = 0)
      /\ x.dc = last_dc /\ x.to_go = to_go /\ x.names = names
      /\ Progressive!Fresh = [bits |-> <<>>, names |-> <<>>, run |-> x.run,
                              corr |-> x.corr]
  BY DEF IsAt, Progressive!Restarting, Progressive!Fresh
<1>5. StepOf(interval, block, x)
        = [dc |-> IF FirstDc
                  THEN Progressive!Shifted(block[1], Progressive!s.Al)
                  ELSE x.dc,
           to_go |-> IF interval = 0 THEN 0
                     ELSE (IF x.to_go = 0 THEN interval ELSE x.to_go) - 1,
           run |-> f.run, corr |-> f.corr, names |-> x.names \o f.names]
  BY <1>4 DEF StepOf, Progressive!AtRestart
<1> HIDE DEF f
<1> QED
  BY <1>2, <1>3, <1>4, <1>5

LEMMA ScanPassesNext ==
    ASSUME ScanPassesInv, Progressive!Next PROVE ScanPassesInv'
<1>1. CASE Progressive!EncodeMcu
  <2>1. /\ phase \in {"gather", "encode"} /\ index < Len(image)
        /\ index' = index + 1
        /\ UNCHANGED <<phase, image, script, interval, scan>>
    BY <1>1 DEF Progressive!EncodeMcu, Progressive!input
  <2>2. index \in Nat /\ index' \in 0..Len(image) /\ index + 1 \in 1..Len(image)
        /\ (index + 1) - 1 = index
    BY <2>1 DEF ScanPassesInv
  <2>0. PICK n : n = index + 1
    OBVIOUS
  <2>3. CASE phase = "gather"
    <3>1. PICK g, im, iv : /\ im = image /\ iv = interval
                           /\ ScanTo(g, im, iv, index)
                           /\ IsAt(g[index], counts) /\ used = <<>>
      BY <2>3 DEF ScanPassesInv
    <3>2. PICK h : /\ ScanTo(h, im, iv, n)
                   /\ h[n] = StepOf(iv, im[n], g[index])
      BY <2>0, <2>2, <3>1, OneMoreBlock
    <3>3. h[n] = [dc |-> last_dc', to_go |-> to_go', run |-> EOBRUN',
                  corr |-> BE', names |-> counts'] /\ used' = used
      BY <1>1, <2>0, <2>3, <3>1, <3>2, EncodeMcuIs
    <3>4. ScanTo(h, im, iv, n)'
      BY <2>1, <3>2, ScanSame
    <3>5. IsAt(h[n], counts)'
      BY <3>3 DEF IsAt
    <3>6. n = index'
      BY <2>0, <2>1
    <3> QED
      BY <2>1, <2>2, <2>3, <3>1, <3>3, <3>4, <3>5, <3>6 DEF ScanPassesInv
  <2>4. CASE phase = "encode"
    <3>1. PICK g, im, iv : /\ im = image /\ iv = interval
                           /\ ScanTo(g, im, iv, Len(im))
                           /\ IsAt(g[index], used)
                           /\ counts = LastNames(g[Len(im)])
      BY <2>4 DEF ScanPassesInv
    <3>2. g[n] = StepOf(iv, im[n], g[index])
      BY <2>0, <2>2, <3>1 DEF ScanTo
    <3>3. g[n] = [dc |-> last_dc', to_go |-> to_go', run |-> EOBRUN',
                  corr |-> BE', names |-> used'] /\ counts' = counts
      BY <1>1, <2>0, <2>4, <3>1, <3>2, EncodeMcuIs
    <3>4. ScanTo(g, im, iv, Len(im))'
      BY <2>1, <3>1, ScanSame
    <3>5. IsAt(g[n], used)'
      BY <3>3 DEF IsAt
    <3>6. n = index'
      BY <2>0, <2>1
    <3> QED
      BY <2>1, <2>2, <2>4, <3>1, <3>3, <3>4, <3>5, <3>6 DEF ScanPassesInv
  <2> QED
    BY <2>1, <2>3, <2>4
<1>2. CASE Progressive!FinishGather
  <2>1. /\ phase = "gather" /\ index = Len(image) /\ phase' = "encode"
        /\ index' = 0 /\ last_dc' = 0 /\ to_go' = interval
        /\ EOBRUN' = 0 /\ BE' = <<>>
        /\ counts' = counts \o Progressive!EmitEobrun(Progressive!Fresh).names
        /\ UNCHANGED <<image, script, interval, scan, used>>
    BY <1>2 DEF Progressive!FinishGather, Progressive!StartPass,
                Progressive!input
  <2>2. PICK g, im, iv : /\ im = image /\ iv = interval
                         /\ ScanTo(g, im, iv, index)
                         /\ IsAt(g[index], counts) /\ used = <<>>
    BY <2>1 DEF ScanPassesInv
  <2>3. ScanTo(g, im, iv, Len(im))'
    BY <2>1, <2>2, ScanSame
  <2>4. counts' = LastNames(g[Len(im)])
    BY <2>1, <2>2 DEF LastNames, IsAt, Progressive!Fresh
  <2>5. IsAt(g[0], used)'
    BY <2>1, <2>2 DEF IsAt, ScanTo
  <2> QED
    BY <2>1, <2>2, <2>3, <2>4, <2>5 DEF ScanPassesInv
<1>3. CASE Progressive!FinishEncode
  <2>1. /\ phase = "encode" /\ index = Len(image) /\ phase' = "decode"
        /\ index' = 0
        /\ used' = used \o Progressive!EmitEobrun(Progressive!Fresh).names
        /\ UNCHANGED <<image, counts>>
    BY <1>3 DEF Progressive!FinishEncode, Progressive!StartPass,
                Progressive!input
  <2>2. PICK g, im : /\ im = image /\ IsAt(g[index], used)
                     /\ counts = LastNames(g[Len(im)])
    BY <2>1 DEF ScanPassesInv
  <2>3. counts' = used'
    <3> DEFINE x == g[index]
    <3> HIDE DEF x
    <3>1. IsAt(x, used) /\ counts = LastNames(x)
      BY <2>1, <2>2 DEF x
    <3>2. x.names = used
          /\ Progressive!Fresh = [bits |-> <<>>, names |-> <<>>, run |-> x.run,
                                  corr |-> x.corr]
      BY <3>1 DEF IsAt, Progressive!Fresh
    <3> QED
      BY <2>1, <3>1, <3>2 DEF LastNames
  <2> QED
    BY <2>1, <2>3 DEF ScanPassesInv
<1>4. CASE Progressive!DecodeRestart
  BY <1>4 DEF Progressive!DecodeRestart, Progressive!Decoding,
              Progressive!input, ScanPassesInv
<1>5. CASE Progressive!DecodeMcu
  <2>1. /\ phase = "decode" /\ index < Len(image)
        /\ index' \in {index, index + 1}
        /\ UNCHANGED <<phase, image, counts, used>>
    BY <1>5 DEF Progressive!DecodeMcu, Progressive!McuDecoded,
                Progressive!Decoding, Progressive!input
  <2> QED
    BY <2>1 DEF ScanPassesInv
<1>6. CASE Progressive!Arrive
  BY <1>6 DEF Progressive!Arrive, Progressive!input, Progressive!pass,
              ScanPassesInv
<1>7. CASE Progressive!NextScan
  <2>1. /\ phase' \in {"gather", "done"} /\ index' = 0 /\ last_dc' = 0
        /\ to_go' = interval /\ EOBRUN' = 0 /\ BE' = <<>>
        /\ counts' = <<>> /\ used' = <<>>
        /\ UNCHANGED <<image, interval>>
    BY <1>7 DEF Progressive!NextScan, Progressive!StartPass, Progressive!input
  <2> DEFINE g == [i \in {0} |-> [dc |-> 0, to_go |-> interval, run |-> 0,
                                  corr |-> <<>>, names |-> <<>>]]
  <2>2. g[0] = [dc |-> 0, to_go |-> interval, run |-> 0, corr |-> <<>>,
                names |-> <<>>]
    OBVIOUS
  <2> HIDE DEF g
  <2>3. PICK h, im, iv : /\ im = image /\ iv = interval
                         /\ h[0] = [dc |-> 0, to_go |-> iv, run |-> 0,
                                    corr |-> <<>>, names |-> <<>>]
    BY <2>2
  <2>4. ScanTo(h, im, iv, 0)'
    BY <2>3 DEF ScanTo
  <2>5. IsAt(h[0], counts)'
    BY <2>1, <2>3 DEF IsAt
  <2> QED
    BY <2>1, <2>3, <2>4, <2>5 DEF ScanPassesInv
<1>8. CASE Progressive!Done
  BY <1>8 DEF Progressive!Done, Progressive!vars, Progressive!input,
              Progressive!pass, ScanPassesInv
<1> QED
  BY <1>1, <1>2, <1>3, <1>4, <1>5, <1>6, <1>7, <1>8 DEF Progressive!Next

-----------------------------------------------------------------------------
(* The parts together.                                                     *)

HuffmanInv ==
    /\ part = "sequential" => PassesInv /\ SequentialInv
    /\ part = "progressive" => ProgressiveInv /\ ScanPassesInv

LEMMA PassesInit == Sequential!Init => PassesInv
<1> SUFFICES ASSUME Sequential!Init PROVE PassesInv
  OBVIOUS
<1>1. /\ phase = "gather" /\ mcus \in Pictures /\ interval \in Intervals
      /\ index = 0 /\ last_dc = Sequential!Zeros /\ to_go = interval
      /\ counts = <<>> /\ used = <<>>
  BY DEF Sequential!Init
<1> DEFINE start == [dc |-> last_dc, to_go |-> to_go, names |-> counts]
           g == [i \in {0} |-> start]
<1>2. g[0] = start
  OBVIOUS
<1> HIDE DEF g
<1>3. PassTo(g, mcus, interval, 0)
  BY <1>1, <1>2 DEF PassTo
<1>4. Len(mcus) \in Nat /\ 0 \in 0..Len(mcus)
  BY <1>1, PictureFacts
<1> QED
  BY <1>1, <1>2, <1>3, <1>4 DEF PassesInv

LEMMA ScanPassesInit == Progressive!Init => ScanPassesInv
<1> SUFFICES ASSUME Progressive!Init PROVE ScanPassesInv
  OBVIOUS
<1>1. /\ phase = "gather" /\ image \in Images
      /\ index = 0 /\ last_dc = 0 /\ to_go = interval
      /\ EOBRUN = 0 /\ BE = <<>> /\ counts = <<>> /\ used = <<>>
  BY DEF Progressive!Init
<1>2. Len(image) \in Nat /\ 0 \in 0..Len(image)
  <2>1. image \in Seq([1..(Progressive!Lim + 1) -> Int])
    BY <1>1, HuffmanAssumptions
    DEF HuffmanAssumptions, Progressive!ScansAssumption
  <2> QED
    BY <2>1
<1> DEFINE start == [dc |-> 0, to_go |-> interval, run |-> 0, corr |-> <<>>,
                     names |-> <<>>]
           g == [i \in {0} |-> start]
<1>3. g[0] = start
  OBVIOUS
<1> HIDE DEF g
<1>4. ScanTo(g, image, interval, 0)
  BY <1>3 DEF ScanTo
<1>5. IsAt(g[0], counts)
  BY <1>1, <1>3 DEF IsAt
<1> QED
  BY <1>1, <1>2, <1>4, <1>5 DEF ScanPassesInv

LEMMA HuffmanInitInv == Init => HuffmanInv
BY PassesInit, SequentialInitInv, ProgressiveInitInv, ScanPassesInit
DEF Init, HuffmanInv

LEMMA HuffmanNextInv == HuffmanInv /\ [Next]_vars => HuffmanInv'
<1> SUFFICES ASSUME HuffmanInv, [Next]_vars PROVE HuffmanInv'
  OBVIOUS
<1>1. CASE part = "table" /\ part' = part
  BY <1>1 DEF HuffmanInv
<1>2. CASE part = "sequential" /\ Sequential!Next /\ part' = part
  BY <1>2, PassesNext, SequentialNextInv DEF HuffmanInv
<1>3. CASE part = "progressive" /\ Progressive!Next /\ part' = part
  BY <1>3, ProgressiveNextInv, ScanPassesNext DEF HuffmanInv
<1>4. CASE UNCHANGED vars
  <2>1. UNCHANGED <<part, phase, interval, last_dc, to_go, num, index, counts,
                    used, file, mcus, saved, image, script, scan, EOBRUN, BE>>
    BY <1>4 DEF vars, scanVars, sequentialVars, progressiveVars
  <2>2. PassesInv => PassesInv'
    BY <2>1 DEF PassesInv, PassTo
  <2>3. SequentialInv => SequentialInv'
    BY <2>1 DEF SequentialInv, Writes, Marked, MarkersIn, Counted,
                Sequential!OnlyOurMarkers, Sequential!LastInterval,
                Sequential!Interval
  <2>4. ProgressiveInv => ProgressiveInv'
    BY <2>1 DEF ProgressiveInv, PendingFits
  <2>5. ScanPassesInv => ScanPassesInv'
    <3> SUFFICES ASSUME ScanPassesInv PROVE ScanPassesInv'
      OBVIOUS
    <3>1. CASE phase = "gather"
      <4>1. PICK g, im, iv, n : /\ im = image /\ iv = interval /\ n = index
                                /\ ScanTo(g, im, iv, n)
                                /\ IsAt(g[n], counts) /\ used = <<>>
        BY <3>1 DEF ScanPassesInv
      <4>2. ScanTo(g, im, iv, n)'
        BY <2>1, <4>1, ScanSame
      <4>3. IsAt(g[n], counts)'
        BY <2>1, <4>1 DEF IsAt
      <4> QED
        BY <2>1, <3>1, <4>1, <4>2, <4>3 DEF ScanPassesInv
    <3>2. CASE phase = "encode"
      <4>1. PICK g, im, iv, n : /\ im = image /\ iv = interval /\ n = index
                                /\ ScanTo(g, im, iv, Len(im))
                                /\ IsAt(g[n], used)
                                /\ counts = LastNames(g[Len(im)])
        BY <3>2 DEF ScanPassesInv
      <4>2. ScanTo(g, im, iv, Len(im))'
        BY <2>1, <4>1, ScanSame
      <4>3. IsAt(g[n], used)'
        BY <2>1, <4>1 DEF IsAt
      <4> QED
        BY <2>1, <3>2, <4>1, <4>2, <4>3 DEF ScanPassesInv
    <3>3. CASE phase \notin {"gather", "encode"}
      BY <2>1, <3>3 DEF ScanPassesInv
    <3> QED
      BY <3>1, <3>2, <3>3
  <2> QED
    BY <2>1, <2>2, <2>3, <2>4, <2>5 DEF HuffmanInv
<1> QED
  BY <1>1, <1>2, <1>3, <1>4 DEF Next

LEMMA HuffmanInvariance == Spec => []HuffmanInv
BY HuffmanInitInv, HuffmanNextInv, PTL DEF Spec

\* What the first pass of a sequential scan counts (encode_mcu_gather) is what
\* the second one emits (encode_mcu_huff), for any picture and interval, with
\* MCUs that are started over and the predictions that each restart sets back:
\* the tables made from the counts have a code for every symbol that comes.
THEOREM SequentialPassesAgree ==
    Spec => [](part = "sequential" => Sequential!GatherAgrees)
<1>1. HuffmanInv => (part = "sequential" => Sequential!GatherAgrees)
  BY DEF HuffmanInv, PassesInv, Sequential!GatherAgrees
<1> QED
  BY <1>1, HuffmanInvariance, PTL

\* Of the bytes of a sequential scan only the markers that were meant are
\* markers (emit_byte's stuffing, flush_bits, emit_restart), one for each
\* interval and counted modulo 8, whatever the codes and the coefficients are
\* and however often an MCU is started over.
THEOREM OnlyMarkersMeant ==
    Spec => [](part = "sequential" => Sequential!OnlyOurMarkers)
<1>1. HuffmanInv => (part = "sequential" => Sequential!OnlyOurMarkers)
  BY DEF HuffmanInv, SequentialInv, Sequential!OnlyOurMarkers
<1> QED
  BY <1>1, HuffmanInvariance, PTL

\* The same of the two passes of a progressive scan, over all the blocks that
\* are put off in a run and the restarts and the end that force it out
\* (emit_eobrun, finish_pass_gather).
THEOREM ProgressivePassesAgree ==
    Spec => [](part = "progressive" => Progressive!GatherAgrees)
<1>1. HuffmanInv => (part = "progressive" => Progressive!GatherAgrees)
  BY DEF HuffmanInv, ScanPassesInv, Progressive!GatherAgrees
<1> QED
  BY <1>1, HuffmanInvariance, PTL

\* Between two blocks the run that is put off can take another block, and the
\* buffer the correction bits of one (encode_mcu_AC_refine), for any size of
\* the buffer that holds one block's.
THEOREM PendingRunsFit ==
    Spec => [](part = "progressive" => Progressive!RunsFit)
<1>1. HuffmanInv => (part = "progressive" => Progressive!RunsFit)
  BY RunsFitInv DEF HuffmanInv
<1> QED
  BY <1>1, HuffmanInvariance, PTL

\* All of that together, as the run checks it.
THEOREM WhatIsWrittenIsSound == Spec => []ScansAreSound
<1>1. /\ (part = "sequential" =>
            Sequential!GatherAgrees /\ Sequential!OnlyOurMarkers)
      /\ (part = "progressive" =>
            Progressive!GatherAgrees /\ Progressive!RunsFit)
      => ScansAreSound
  BY DEF ScansAreSound
<1> QED
  BY <1>1, SequentialPassesAgree, OnlyMarkersMeant, ProgressivePassesAgree,
     PendingRunsFit, PTL
=============================================================================
