-------------------------- MODULE Coefficients_proof --------------------------
(***************************************************************************)
(* Theorems about the managers of Coefficients, for any components, scans, *)
(* quantization tables, sizes and coefficients: the encoder divides each   *)
(* coefficient by its own component's step, and the decoder multiplies by  *)
(* it.  And about arithmetic decoding, for any data: it keeps to its       *)
(* statistics areas.                                                       *)
(***************************************************************************)
EXTENDS Coefficients, TLAPS, WellFoundedInduction

-----------------------------------------------------------------------------
(* The arithmetic of the forward manager.                                  *)

\* The table of the fast routine's scale factors, and numbers not below a
\* sixteenth in its fixed point.
Entries == Forward!aanscales
Factors == {f \in Nat : f >= 1024}

\* No scale factor of a position is below a sixteenth, so that no scaled step
\* is rounded to zero.
LEMMA AanBounds ==
    ASSUME NEW p \in Positions
    PROVE  Forward!Aan(p) \in Nat /\ Forward!Aan(p) >= 1024
<1>1. Entries \in Seq(Factors)
  BY DEF Entries, Forward!aanscales, Factors
<1>2. PICK n \in Nat : n = 64
  OBVIOUS
<1>3. Len(Entries) = n
  BY <1>2 DEF Entries, Forward!aanscales
<1>4. p + 1 \in 1..n
  BY <1>2, CoefficientAssumptions DEF Inverse!PositionsAssumption
<1>5. Forward!Aan(p) = Entries[p + 1]
  BY DEF Forward!Aan, Entries
<1>6. Entries[p + 1] \in Factors
  <2> HIDE DEF Entries, Factors
  <2> QED
    BY <1>1, <1>3, <1>4
<1> QED
  BY <1>5, <1>6 DEF Factors

\* The product of k with x, for an x of at most m.
IsSmall(k, x, m) ==
    -(Forward!Abs(k) * m) <= k * x /\ k * x <= Forward!Abs(k) * m

\* A product with a number that is small is small.
LEMMA SmallProduct ==
    ASSUME NEW k \in Int, NEW x \in Int, NEW m \in Nat, -m <= x, x <= m
    PROVE  IsSmall(k, x, m)
<1> USE DEF IsSmall
<1>1. CASE k < 0
  <2> DEFINE j == -k
  <2>1. j \in Nat /\ k * x = j * (-x) /\ Forward!Abs(k) = j
    BY <1>1 DEF Forward!Abs
  <2>2. j * (m - x) \in Nat /\ j * (m + x) \in Nat
    BY <2>1
  <2> HIDE DEF j
  <2>3. j * (m - x) = j * m - j * x /\ j * (m + x) = j * m + j * x
        /\ j * (-x) = -(j * x)
    BY <2>1
  <2> QED
    BY <2>1, <2>2, <2>3
<1>2. CASE k >= 0
  <2>1. k \in Nat /\ Forward!Abs(k) = k
    BY <1>2 DEF Forward!Abs
  <2>2. k * (m - x) \in Nat /\ k * (m + x) \in Nat
    BY <2>1
  <2>3. k * (m - x) = k * m - k * x /\ k * (m + x) = k * m + k * x
    BY <2>1
  <2> QED
    BY <2>1, <2>2, <2>3
<1> QED
  BY <1>1, <1>2

\* A scaled number is off by half a unit.
LEMMA Descaled ==
    ASSUME NEW x \in Int
    PROVE  /\ Forward!DESCALE(x, 14) \in Int
           /\ -8192 <= 16384 * Forward!DESCALE(x, 14) - x
           /\ 16384 * Forward!DESCALE(x, 14) - x <= 8192
           /\ Forward!DESCALE(x, 11) \in Int
           /\ -1024 <= 2048 * Forward!DESCALE(x, 11) - x
           /\ 2048 * Forward!DESCALE(x, 11) - x <= 1024
           /\ x >= 1024 => Forward!DESCALE(x, 11) >= 1
<1>1. /\ Forward!DESCALE(x, 14) = (x + 8192) \div 16384
      /\ Forward!DESCALE(x, 11) = (x + 1024) \div 2048
  BY DEF Forward!DESCALE
<1> QED
  BY <1>1

\* The division that rounds half away from zero is off by half a divisor.
LEMMA Divided ==
    ASSUME NEW v \in Int, NEW dv \in Nat \ {0}
    PROVE  LET k == Forward!DivideRounding(v, dv)
           IN  /\ k \in Int
               /\ -dv <= 2 * (dv * k - v) /\ 2 * (dv * k - v) <= dv
<1> DEFINE h == dv \div 2
           a == Forward!Abs(v)
           up == a + h
           n == IF up >= dv THEN up \div dv ELSE 0
           k == Forward!DivideRounding(v, dv)
<1>1. k = IF v < 0 THEN -n ELSE n
  BY DEF Forward!DivideRounding
<1>2. a \in Nat /\ h \in Nat /\ 2 * h <= dv /\ dv < 2 * h + 2
      /\ a = IF v < 0 THEN -v ELSE v
  BY DEF Forward!Abs
<1> HIDE DEF a, h, k
<1>3. n \in Nat /\ dv * n <= up /\ up < dv * n + dv
  <2>1. CASE up >= dv
    BY <1>2, <2>1
  <2>2. CASE up < dv
    BY <1>2, <2>2
  <2> QED
    BY <1>2, <2>1, <2>2
<1> HIDE DEF n
<1>4. k \in Int /\ dv * k = IF v < 0 THEN -(dv * n) ELSE dv * n
  BY <1>1, <1>3
<1> DEFINE x == dv * n
           y == dv * k
<1>5. x \in Int /\ y \in Int /\ x <= a + h /\ a + h < x + dv
      /\ y = IF v < 0 THEN -x ELSE x
  BY <1>2, <1>3, <1>4
<1> HIDE DEF x, y
<1>6. -dv <= 2 * (y - v) /\ 2 * (y - v) <= dv
  BY <1>2, <1>5
<1> QED
  BY <1>4, <1>6 DEF y, k

\* That of the float routine, which lets halves go up, too.
LEMMA Floated ==
    ASSUME NEW v \in Int, NEW dv \in Nat \ {0}
    PROVE  LET k == Forward!FloatRounding(v, dv)
           IN  /\ k \in Int
               /\ -dv <= 2 * (dv * k - v) /\ 2 * (dv * k - v) <= dv
<1> DEFINE k == Forward!FloatRounding(v, dv)
           ee == 2 * dv
           x == dv * k
<1>1. k = (2 * v + dv) \div ee /\ ee \in Nat \ {0}
  BY DEF Forward!FloatRounding
<1> HIDE DEF ee
<1>2. k \in Int /\ ee * k <= 2 * v + dv /\ 2 * v + dv < ee * k + ee
  BY <1>1
<1> HIDE DEF k
<1>3. x \in Int /\ ee * k = 2 * x
  BY <1>2 DEF ee
<1> HIDE DEF x
<1>4. -dv <= 2 * (x - v) /\ 2 * (x - v) <= dv
  BY <1>2, <1>3 DEF ee
<1> QED
  BY <1>2, <1>4 DEF x, k

\* What QuantizesByItsOwnStep says of one coefficient.
Near(method, q, p, v, k) ==
    LET miss == 2 * Forward!Abs(8 * q * k - v)
    IN IF method = "IFAST"
         THEN miss * Forward!Aan(p)
                <= 8 * q * Forward!Aan(p) + (2 + Forward!Abs(k)) * 2^14
         ELSE miss <= 8 * q

\* It holds when the divisor is the step, times eight.
LEMMA StepNear ==
    ASSUME NEW q \in Nat \ {0}, NEW p, NEW v \in Int, NEW k \in Int,
           NEW dv \in Nat, dv = q * 8, NEW method, method # "IFAST",
           -dv <= 2 * (dv * k - v), 2 * (dv * k - v) <= dv
    PROVE  Near(method, q, p, v, k)
<1> DEFINE x == 8 * q * k
<1>1. x \in Int /\ dv * k = x
  OBVIOUS
<1>2. Near(method, q, p, v, k) <=> 2 * Forward!Abs(x - v) <= 8 * q
  BY DEF Near
<1> HIDE DEF x
<1>3. 2 * Forward!Abs(x - v) <= 8 * q
  BY <1>1 DEF Forward!Abs
<1> QED
  BY <1>2, <1>3

\* It holds when both the coefficient and the step are scaled.
LEMMA ScaledNear ==
    ASSUME NEW q \in Nat \ {0}, NEW p \in Positions, NEW v \in Int,
           NEW k \in Int, NEW dv \in Nat, NEW w \in Int,
           dv = Forward!DESCALE(q * Forward!Aan(p), 11),
           w = Forward!DESCALE(v * Forward!Aan(p), 14),
           -dv <= 2 * (dv * k - w), 2 * (dv * k - w) <= dv
    PROVE  Near("IFAST", q, p, v, k)
<1> DEFINE a == Forward!Aan(p)
           b == q * a
           m == v * a
           x == 8 * q * k - v
           dk == dv * k
           kb == k * b
           err == k * (2048 * dv - b)
           n == Forward!Abs(k)
<1>1. a \in Nat /\ a >= 1024
  BY AanBounds
<1> HIDE DEF a
<1>2. b \in Int /\ m \in Int /\ x \in Int /\ dk \in Int /\ n \in Nat
  BY <1>1 DEF Forward!Abs
<1>3. /\ -8192 <= 16384 * w - m /\ 16384 * w - m <= 8192
      /\ -1024 <= 2048 * dv - b /\ 2048 * dv - b <= 1024
  BY <1>2, Descaled DEF a
<1>4. kb \in Int /\ err \in Int /\ -(n * 1024) <= err /\ err <= n * 1024
  <2> HIDE DEF b
  <2>1. 2048 * dv - b \in Int /\ kb \in Int
    BY <1>2
  <2> DEFINE z == 2048 * dv - b
  <2>2. z \in Int /\ -1024 <= z /\ z <= 1024
    BY <2>1, <1>3
  <2> HIDE DEF z
  <2>3. -(n * 1024) <= k * z /\ k * z <= n * 1024
    <3> PICK bound \in Nat : bound = 1024
      OBVIOUS
    <3>1. -bound <= z /\ z <= bound
      BY <2>2
    <3>2. IsSmall(k, z, bound)
      BY <2>2, <3>1, SmallProduct
    <3> QED
      BY <3>2 DEF IsSmall
  <2>4. k * z \in Int
    BY <2>2
  <2> QED
    BY <2>1, <2>3, <2>4 DEF z
<1>5. err = 2048 * dk - kb
  <2> HIDE DEF b
  <2> QED
    BY <1>2
<1>6. x * a = 8 * kb - m
  BY <1>1
<1>7. /\ 2 * Forward!Abs(x) * a = 2 * Forward!Abs(x * a)
      /\ x * a \in Int
  <2> HIDE DEF x
  <2>1. x * a \in Int
    BY <1>1, <1>2
  <2>2. CASE x < 0
    <3>1. x * a <= 0 /\ (-x) * a = -(x * a)
      BY <1>1, <1>2, <2>2
    <3> QED
      BY <1>1, <1>2, <2>1, <2>2, <3>1 DEF Forward!Abs
  <2>3. CASE x >= 0
    <3>1. x * a >= 0
      BY <1>1, <1>2, <2>3
    <3> QED
      BY <1>1, <1>2, <2>1, <2>3, <3>1 DEF Forward!Abs
  <2> QED
    BY <1>2, <2>1, <2>2, <2>3
<1>8. Near("IFAST", q, p, v, k)
        <=> 2 * Forward!Abs(x) * a <= 8 * b + (2 + n) * 16384
  <2>1. 8 * q * a = 8 * b /\ 2^14 = 16384
    BY <1>1
  <2>2. Near("IFAST", q, p, v, k)
          <=> 2 * Forward!Abs(x) * a <= 8 * q * a + (2 + n) * 2^14
    BY DEF Near, a
  <2> QED
    BY <2>1, <2>2
<1> HIDE DEF b, m, x, dk, kb, err, n
<1>9. 2 * Forward!Abs(8 * kb - m) <= 8 * b + (2 + n) * 16384
  BY <1>2, <1>3, <1>4, <1>5 DEF Forward!Abs, dk
<1> QED
  BY <1>6, <1>7, <1>8, <1>9

-----------------------------------------------------------------------------
(* The forward manager.                                                    *)

\* The number of a component's table, and the step it holds.
FwdTable(c) == quant_tbl_no[c]
FwdStep(c)  == quant_tbl_ptrs[quant_tbl_no[c]]

\* The routine of a component is known, and so is the step of its table; the
\* float divisors are computed from it.
Ready(c) ==
    /\ do_dct[c] = Forward!MethodOf(c)
    /\ FwdStep(c) \in Nat \ {0}
    /\ Forward!MethodOf(c) = "FLOAT" =>
         float_divisors[FwdTable(c)] = Forward!Divisors("FLOAT", FwdStep(c))

\* Component w is below n, and computes the integer divisors of c's table.
WritesFor(w, n, c) ==
    w < n /\ FwdTable(w) = FwdTable(c) /\ Forward!MethodOf(w) # "FLOAT"

\* The integer divisors of a component's table are those of the last of the
\* components before ci that compute them, by its method.
Remains(c) ==
    Forward!MethodOf(c) # "FLOAT" =>
        \E w \in Forward!Comps :
            /\ WritesFor(w, ci, c)
            /\ \A b \in Forward!Comps : WritesFor(b, ci, c) => b <= w
            /\ divisors[FwdTable(c)]
                 = Forward!Divisors(Forward!MethodOf(w), FwdStep(c))

\* The inductive invariant: what the loop of start_pass has passed is ready.
ForwardInv ==
    /\ Forward!TypeOK
    /\ divisors \in [Tables -> [Positions -> Int]]
    /\ float_divisors \in [Tables -> [Positions -> Int]]
    /\ \A c \in Forward!Comps : c < ci => Ready(c) /\ Remains(c)
    /\ Forward!QuantizesByItsOwnStep

\* Divisors are numbers, and positive.
LEMMA DivisorsPositive ==
    ASSUME NEW method, NEW q \in Nat \ {0}
    PROVE  /\ Forward!Divisors(method, q) \in [Positions -> Int]
           /\ \A p \in Positions : Forward!Divisors(method, q)[p] > 0
<1> SUFFICES ASSUME NEW p \in Positions
             PROVE  /\ Forward!DESCALE(q * Forward!Aan(p), 11) \in Nat \ {0}
                    /\ q * 8 \in Nat \ {0}
  BY DEF Forward!Divisors, Forward!CONST_BITS
<1> DEFINE a == Forward!Aan(p)
           b == q * a
<1>1. a \in Nat /\ a >= 1024
  BY AanBounds
<1> HIDE DEF a
<1>2. b \in Int /\ b >= 1024
  <2>1. (q - 1) * a \in Nat
    BY <1>1
  <2>2. b = (q - 1) * a + a
    BY <1>1
  <2> HIDE DEF b
  <2> QED
    BY <1>1, <2>1, <2>2
<1> HIDE DEF b
<1>3. Forward!DESCALE(b, 11) \in Int /\ Forward!DESCALE(b, 11) >= 1
  BY <1>2, Descaled
<1> QED
  BY <1>3 DEF a, b

\* Before the first turn of the loop.
LEMMA InitForwardInv == Forward!Init => ForwardInv
<1> SUFFICES ASSUME Forward!Init PROVE ForwardInv
  OBVIOUS
<1> USE DEF Forward!Init
<1>1. N \in Nat
  BY CoefficientAssumptions DEF Forward!ValuesAssumption
<1>2. /\ divisors \in [Tables -> [Positions -> Int]]
      /\ float_divisors \in [Tables -> [Positions -> Int]]
  BY DEF Forward!Null
<1>3. Forward!TypeOK
  <2>1. quantized.c = 0 /\ 0 \in 0..N /\ 1 \in 1..(N + 1)
    BY <1>1 DEF Forward!None
  <2>2. \A s \in Tables : /\ DOMAIN divisors[s] = Positions
                          /\ DOMAIN float_divisors[s] = Positions
    BY <1>2
  <2> QED
    BY <2>1, <2>2 DEF Forward!TypeOK
<1>4. \A c \in Forward!Comps : ~(c < ci)
  BY <1>1 DEF Forward!Comps
<1>5. Forward!QuantizesByItsOwnStep
  BY DEF Forward!QuantizesByItsOwnStep
<1> QED
  BY <1>2, <1>3, <1>4, <1>5 DEF ForwardInv

\* The setup does not change, nor does what follows from it alone.
LEMMA SetupStays ==
    ASSUME UNCHANGED Forward!setup
    PROVE  /\ \A c : Forward!MethodOf(c)' = Forward!MethodOf(c)
           /\ \A c : FwdTable(c)' = FwdTable(c)
           /\ \A c : FwdStep(c)' = FwdStep(c)
           /\ \A w, n, c : WritesFor(w, n, c)' <=> WritesFor(w, n, c)
           /\ quantized' = quantized /\ Forward!QuantizesByItsOwnStep
                => Forward!QuantizesByItsOwnStep'
BY DEF Forward!setup, Forward!MethodOf, FwdTable, FwdStep, WritesFor,
       Forward!QuantizesByItsOwnStep, Forward!KeepsItsDivisors,
       Forward!WritesLast, Forward!Writers, Forward!NearestMultiple

\* A turn of the loop makes its component ready, and leaves those before it
\* so: it has become the last one for those that have the same table, or it
\* has left their divisors alone.
LEMMA StartComponentInv ==
    ForwardInv /\ Forward!StartComponent => ForwardInv'
<1> SUFFICES ASSUME ForwardInv, Forward!StartComponent PROVE ForwardInv'
  OBVIOUS
<1> DEFINE method == Forward!MethodOf(ci)
           t == FwdTable(ci)
           q == FwdStep(ci)
<1>1. /\ ci \in Forward!Comps /\ ci + 1 \in 1..(N + 1)
      /\ N \in Nat /\ ci \in Nat
      /\ t \in Tables /\ q \in Quants \cup {0} /\ method \in Forward!Methods
  <2>1. N \in Nat /\ ci \in 1..(N + 1) /\ ci <= N
    BY CoefficientAssumptions
       DEF ForwardInv, Forward!TypeOK, Forward!StartComponent,
           Forward!ValuesAssumption
  <2>2. ci \in Forward!Comps
    BY <2>1 DEF Forward!Comps
  <2>3. method \in Forward!Methods
    BY DEF ForwardInv, Forward!TypeOK, Forward!MethodOf, Forward!MethodFor,
           Forward!Methods
  <2>4. t \in Tables /\ q \in Quants \cup {0}
    BY <2>2 DEF ForwardInv, Forward!TypeOK, FwdTable, FwdStep
  <2> QED
    BY <2>1, <2>2, <2>3, <2>4
<1>2. /\ UNCHANGED <<dct_method, block_size, quant_tbl_no, quant_tbl_ptrs,
                     quantized>>
      /\ do_dct' = [do_dct EXCEPT ![ci] = method]
      /\ IF q = 0
           THEN error' = TRUE /\ UNCHANGED <<ci, divisors, float_divisors>>
           ELSE /\ IF method = "FLOAT"
                     THEN /\ float_divisors' =
                               [float_divisors EXCEPT ![t] =
                                  Forward!Divisors(method, q)]
                          /\ UNCHANGED divisors
                     ELSE /\ divisors' = [divisors EXCEPT ![t] =
                                            Forward!Divisors(method, q)]
                          /\ UNCHANGED float_divisors
                /\ ci' = ci + 1
                /\ UNCHANGED error
  BY DEF Forward!StartComponent, Forward!setup, FwdTable, FwdStep
<1>3. /\ \A c : Forward!MethodOf(c)' = Forward!MethodOf(c)
      /\ \A c : FwdTable(c)' = FwdTable(c)
      /\ \A c : FwdStep(c)' = FwdStep(c)
      /\ \A w, n, c : WritesFor(w, n, c)' <=> WritesFor(w, n, c)
      /\ Forward!QuantizesByItsOwnStep'
  BY <1>2, SetupStays DEF Forward!setup, ForwardInv
<1>4. q # 0 => /\ q \in Nat \ {0}
               /\ Forward!Divisors(method, q) \in [Positions -> Int]
  <2>1. q # 0 => q \in Nat \ {0}
    BY <1>1, CoefficientAssumptions DEF Forward!ValuesAssumption
  <2> QED
    BY <2>1, DivisorsPositive
<1> HIDE DEF method, t, q
<1>5. /\ divisors' \in [Tables -> [Positions -> Int]]
      /\ float_divisors' \in [Tables -> [Positions -> Int]]
  BY <1>1, <1>2, <1>4 DEF ForwardInv
<1>6. Forward!TypeOK'
  <2>1. do_dct' \in [Forward!Comps -> Forward!Methods \cup {"-"}]
    BY <1>1, <1>2 DEF ForwardInv, Forward!TypeOK
  <2>2. error' \in BOOLEAN /\ ci' \in 1..(N + 1)
    BY <1>1, <1>2 DEF ForwardInv, Forward!TypeOK
  <2>3. \A s \in Tables : /\ DOMAIN divisors'[s] = Positions
                          /\ DOMAIN float_divisors'[s] = Positions
    BY <1>5
  <2> QED
    BY <1>2, <2>1, <2>2, <2>3 DEF ForwardInv, Forward!TypeOK
<1>7. PICK k \in Forward!Comps : k = ci
  BY <1>1
<1>8. ASSUME NEW c \in Forward!Comps, c < ci' PROVE c < ci \/ (c = k /\ q # 0)
  BY <1>1, <1>2, <1>7, <1>8 DEF Forward!Comps
<1>9. ASSUME NEW c \in Forward!Comps, c < ci' PROVE Ready(c)'
  <2>1. CASE c < ci
    <3>1. Ready(c) /\ FwdTable(c) \in Tables
      BY <2>1 DEF ForwardInv, Forward!TypeOK, FwdTable
    <3>2. do_dct'[c] = do_dct[c]
      BY <1>1, <1>2, <2>1 DEF ForwardInv, Forward!TypeOK, Forward!Comps
    <3>3. FwdTable(c) = t => FwdStep(c) = q
      BY DEF FwdTable, FwdStep, t, q
    <3>4. float_divisors'[FwdTable(c)] = float_divisors[FwdTable(c)]
            \/ /\ float_divisors'[FwdTable(c)] = Forward!Divisors(method, q)
               /\ method = "FLOAT" /\ FwdTable(c) = t
      BY <1>1, <1>2, <3>1 DEF ForwardInv
    <3> QED
      BY <1>3, <3>1, <3>2, <3>3, <3>4 DEF Ready
  <2>2. CASE c = k /\ q # 0
    <3>1. do_dct'[k] = method
      BY <1>1, <1>2, <1>7 DEF ForwardInv, Forward!TypeOK
    <3>2. FwdTable(k) = t /\ FwdStep(k) = q /\ Forward!MethodOf(k) = method
      BY <1>7 DEF t, q, method
    <3>3. method = "FLOAT" => float_divisors'[t] = Forward!Divisors(method, q)
      BY <1>1, <1>2, <2>2 DEF ForwardInv
    <3> QED
      BY <1>3, <1>4, <2>2, <3>1, <3>2, <3>3 DEF Ready
  <2> QED
    BY <1>8, <1>9, <2>1, <2>2
<1>10. ASSUME NEW c \in Forward!Comps, c < ci' PROVE Remains(c)'
  <2> SUFFICES ASSUME Forward!MethodOf(c) # "FLOAT"
               PROVE  \E w \in Forward!Comps :
                        /\ WritesFor(w, ci', c)
                        /\ \A b \in Forward!Comps :
                             WritesFor(b, ci', c) => b <= w
                        /\ divisors'[FwdTable(c)]
                             = Forward!Divisors(Forward!MethodOf(w), FwdStep(c))
    <3> PICK n : n = ci'
      OBVIOUS
    <3> QED
      BY <1>3 DEF Remains, WritesFor
  <2>1. FwdTable(c) \in Tables /\ c \in Nat
    BY <1>1 DEF ForwardInv, Forward!TypeOK, FwdTable, Forward!Comps
  <2>2. CASE q # 0 /\ FwdTable(c) = t /\ method # "FLOAT"
    <3>1. ci' = ci + 1 /\ FwdStep(c) = q
      BY <1>2, <2>2 DEF FwdStep, FwdTable, t, q
    <3>2. divisors'[t] = Forward!Divisors(method, q)
      BY <1>1, <1>2, <2>2 DEF ForwardInv
    <3>3. FwdTable(k) = t /\ Forward!MethodOf(k) = method
      BY <1>7 DEF t, method
    <3>4. WritesFor(k, ci', c)
      BY <1>1, <1>7, <2>2, <3>1, <3>3 DEF WritesFor
    <3>5. \A b \in Forward!Comps : WritesFor(b, ci', c) => b <= k
      BY <1>1, <1>7, <3>1 DEF WritesFor, Forward!Comps
    <3> QED
      BY <2>2, <3>1, <3>2, <3>3, <3>4, <3>5
  <2>3. CASE ~(q # 0 /\ FwdTable(c) = t /\ method # "FLOAT")
    <3>1. c < ci
      BY <1>7, <1>8, <1>10, <2>3 DEF t, method
    <3>2. PICK w \in Forward!Comps :
            /\ WritesFor(w, ci, c)
            /\ \A b \in Forward!Comps : WritesFor(b, ci, c) => b <= w
            /\ divisors[FwdTable(c)]
                 = Forward!Divisors(Forward!MethodOf(w), FwdStep(c))
      BY <3>1 DEF ForwardInv, Remains
    <3>3. divisors'[FwdTable(c)] = divisors[FwdTable(c)]
      BY <1>1, <1>2, <2>1, <2>3 DEF ForwardInv
    <3>4. WritesFor(w, ci', c)
      BY <1>1, <1>2, <3>2 DEF WritesFor, Forward!Comps
    <3>5. ASSUME NEW b \in Forward!Comps, WritesFor(b, ci', c) PROVE b <= w
      <4>1. b < ci \/ (b = ci /\ q # 0)
        BY <1>1, <1>2, <3>5 DEF WritesFor, Forward!Comps
      <4>2. b = ci => FwdTable(c) = t /\ method # "FLOAT"
        BY <3>5 DEF WritesFor, t, method
      <4>3. b < ci
        BY <2>3, <4>1, <4>2
      <4> QED
        BY <3>2, <3>5, <4>3 DEF WritesFor
    <3> QED
      BY <3>2, <3>3, <3>4, <3>5
  <2> QED
    BY <2>2, <2>3
<1> QED
  BY <1>3, <1>5, <1>6, <1>9, <1>10 DEF ForwardInv

\* A coefficient is divided by what is ready for its component.
LEMMA ForwardDctInv ==
    ASSUME ForwardInv, NEW c \in Forward!Comps, Forward!ForwardDct(c)
    PROVE  ForwardInv'
<1> DEFINE method == Forward!MethodOf(c)
           t == FwdTable(c)
           q == FwdStep(c)
<1>1. PICK p \in Positions, v \in Values :
        quantized' = [c |-> c, p |-> p, v |-> v,
                k |-> IF do_dct[c] = "FLOAT"
                        THEN Forward!FloatRounding(v, float_divisors[t][p])
                        ELSE Forward!DivideRounding(
                               Forward!Workspace(do_dct[c], p, v),
                               divisors[t][p])]
  BY DEF Forward!ForwardDct, FwdTable
<1> DEFINE k == quantized'.k
<1>2. /\ UNCHANGED <<dct_method, block_size, quant_tbl_no, quant_tbl_ptrs, ci,
                     divisors, float_divisors, do_dct, error>>
      /\ ci = N + 1 /\ N \in Nat /\ c < ci
  BY CoefficientAssumptions
     DEF Forward!ForwardDct, Forward!setup, Forward!ValuesAssumption,
         Forward!Comps
<1>3. Ready(c) /\ Remains(c) /\ t \in Tables
  BY <1>2 DEF ForwardInv, Forward!TypeOK, FwdTable
<1>4. v \in Int /\ q \in Nat \ {0} /\ do_dct[c] = method
  BY <1>3, CoefficientAssumptions DEF Ready, Forward!ValuesAssumption
<1>5. /\ \A a : Forward!MethodOf(a)' = Forward!MethodOf(a)
      /\ \A a : FwdTable(a)' = FwdTable(a)
      /\ \A a : FwdStep(a)' = FwdStep(a)
      /\ \A w, n, a : WritesFor(w, n, a)' <=> WritesFor(w, n, a)
  BY <1>2, SetupStays DEF Forward!setup, ForwardInv
<1>6. \A a \in Forward!Comps : a < ci' => Ready(a)' /\ Remains(a)'
  BY <1>2, <1>5 DEF ForwardInv, Ready, Remains, WritesFor
<1>7. Forward!TypeOK'
  <2>1. quantized'.c = c /\ c \in 0..N
    BY <1>1, <1>2 DEF Forward!Comps
  <2> QED
    BY <1>2, <2>1 DEF ForwardInv, Forward!TypeOK
<1>8. quantized'.c = c /\ quantized'.p = p /\ quantized'.v = v
  BY <1>1
<1>9. ASSUME Forward!KeepsItsDivisors(c) PROVE Near(method, q, p, v, k)
  <2> DEFINE dv == Forward!Divisors(method, q)[p]
             w == Forward!Workspace(method, p, v)
  <2>1. dv \in Nat \ {0}
    BY <1>4, DivisorsPositive
  <2>2. CASE method = "FLOAT"
    <3>1. k = Forward!FloatRounding(v, dv)
      BY <1>1, <1>3, <1>4, <2>2 DEF Ready
    <3>2. dv = q * 8
      BY <2>2 DEF Forward!Divisors
    <3>3. k \in Int /\ -dv <= 2 * (dv * k - v) /\ 2 * (dv * k - v) <= dv
      BY <1>4, <2>1, <3>1, Floated
    <3> QED
      BY <1>4, <2>1, <2>2, <3>2, <3>3, StepNear
  <2>3. CASE method # "FLOAT"
    <3>1. k = Forward!DivideRounding(w, dv)
      <4>1. PICK u \in Forward!Comps :
              /\ WritesFor(u, ci, c)
              /\ \A b \in Forward!Comps : WritesFor(b, ci, c) => b <= u
              /\ divisors[t] = Forward!Divisors(Forward!MethodOf(u), q)
        BY <1>3, <2>3 DEF Remains
      <4>2. \A b \in Forward!Comps : b < ci
        BY <1>2 DEF Forward!Comps
      <4>3. Forward!WritesLast(u, quant_tbl_no[c])
        BY <4>1, <4>2
           DEF Forward!WritesLast, Forward!Writers, WritesFor, FwdTable
      <4>4. Forward!MethodOf(u) = method
        BY <1>9, <2>3, <4>3 DEF Forward!KeepsItsDivisors
      <4> QED
        BY <1>1, <1>4, <2>3, <4>1, <4>4
    <3>2. CASE method = "IFAST"
      <4>1. /\ dv = Forward!DESCALE(q * Forward!Aan(p), 11)
            /\ w = Forward!DESCALE(v * Forward!Aan(p), 14)
        BY <3>2 DEF Forward!Divisors, Forward!Workspace, Forward!CONST_BITS
      <4>2. w \in Int
        <5>1. v * Forward!Aan(p) \in Int
          BY <1>4, AanBounds
        <5> QED
          BY <4>1, <5>1, Descaled
      <4> HIDE DEF dv, w, k
      <4>3. k \in Int /\ -dv <= 2 * (dv * k - w) /\ 2 * (dv * k - w) <= dv
        BY <2>1, <3>1, <4>2, Divided
      <4> QED
        BY <1>4, <2>1, <3>2, <4>1, <4>2, <4>3, ScaledNear
    <3>3. CASE method # "IFAST"
      <4>1. dv = q * 8 /\ w = v
        BY <3>3 DEF Forward!Divisors, Forward!Workspace
      <4> HIDE DEF dv, w, k
      <4>2. k \in Int /\ -dv <= 2 * (dv * k - v) /\ 2 * (dv * k - v) <= dv
        BY <1>4, <2>1, <3>1, <4>1, Divided
      <4> QED
        BY <1>4, <2>1, <3>3, <4>1, <4>2, StepNear
    <3> QED
      BY <3>2, <3>3
  <2> QED
    BY <2>2, <2>3
<1>10. Forward!QuantizesByItsOwnStep'
  <2>1. Forward!KeepsItsDivisors(quantized.c)' => Forward!KeepsItsDivisors(c)
    BY <1>2, <1>8
       DEF Forward!KeepsItsDivisors, Forward!WritesLast, Forward!Writers,
           Forward!MethodOf
  <2>2. Near(method, q, p, v, k) => Forward!NearestMultiple'
    BY <1>2, <1>8
       DEF Near, Forward!NearestMultiple, Forward!CONST_BITS,
           Forward!MethodOf, FwdStep
  <2> QED
    BY <1>9, <2>1, <2>2 DEF Forward!QuantizesByItsOwnStep
<1> QED
  BY <1>2, <1>5, <1>6, <1>7, <1>10 DEF ForwardInv

\* Every step of the forward manager.
LEMMA StepForwardInv ==
    ForwardInv /\ [Forward!Next]_(Forward!vars) => ForwardInv'
<1>1. ASSUME ForwardInv, UNCHANGED Forward!vars PROVE ForwardInv'
  <2>1. UNCHANGED <<dct_method, block_size, quant_tbl_no, quant_tbl_ptrs, ci,
                    divisors, float_divisors, do_dct, error, quantized>>
    BY <1>1 DEF Forward!vars, Forward!setup
  <2>2. /\ \A a : Forward!MethodOf(a)' = Forward!MethodOf(a)
        /\ \A a : FwdTable(a)' = FwdTable(a)
        /\ \A a : FwdStep(a)' = FwdStep(a)
        /\ \A w, n, a : WritesFor(w, n, a)' <=> WritesFor(w, n, a)
        /\ Forward!QuantizesByItsOwnStep'
    BY <1>1, <2>1, SetupStays DEF Forward!setup, ForwardInv
  <2>3. \A a \in Forward!Comps : a < ci' => Ready(a)' /\ Remains(a)'
    BY <1>1, <2>1, <2>2 DEF ForwardInv, Ready, Remains, WritesFor
  <2>4. Forward!TypeOK'
    BY <1>1, <2>1 DEF ForwardInv, Forward!TypeOK
  <2> QED
    BY <1>1, <2>1, <2>2, <2>3, <2>4 DEF ForwardInv
<1> QED
  BY <1>1, StartComponentInv, ForwardDctInv
     DEF Forward!Next, Forward!Failed

\* What the invariant says of divisors.
LEMMA ForwardInvImplies ==
    ForwardInv => /\ Forward!TypeOK /\ Forward!QuantizesByItsOwnStep
                  /\ Forward!NoZeroDivisor
<1> SUFFICES ASSUME ForwardInv PROVE Forward!NoZeroDivisor
  BY DEF ForwardInv
<1>1. N \in Nat /\ ci \in 1..(N + 1)
  BY CoefficientAssumptions
     DEF ForwardInv, Forward!TypeOK, Forward!ValuesAssumption
<1>2. ASSUME NEW c \in 1..(ci - 1), NEW p \in Positions
      PROVE  IF do_dct[c] = "FLOAT"
               THEN float_divisors[quant_tbl_no[c]][p] > 0
               ELSE divisors[quant_tbl_no[c]][p] > 0
  <2>1. Ready(c) /\ Remains(c)
    BY <1>1, <1>2 DEF ForwardInv, Forward!Comps
  <2>2. \A method : Forward!Divisors(method, FwdStep(c))[p] > 0
    BY <2>1, DivisorsPositive DEF Ready
  <2> QED
    BY <2>1, <2>2 DEF Ready, Remains, FwdTable
<1> QED
  BY <1>2 DEF Forward!NoZeroDivisor

\* Whatever the tables and the sizes of the components are, and whoever shares
\* a table: no divisor is zero, and a coefficient is divided by its own
\* component's step if the last component that computes the divisors of its
\* table computes them by its method.  (Otherwise it is not so: see
\* SharingIsNoBigDeal.)
THEOREM OwnStep ==
    Forward!Spec => [](Forward!QuantizesByItsOwnStep /\ Forward!NoZeroDivisor)
  BY InitForwardInv, StepForwardInv, ForwardInvImplies, PTL DEF Forward!Spec

-----------------------------------------------------------------------------
(* The inverse manager.                                                    *)

\* A set of natural numbers has a least element.
LEMMA LeastOfNat ==
    ASSUME NEW T, T \subseteq Nat, T # {}
    PROVE  \E n \in T : \A m \in T : n <= m
<1> DEFINE R == OpToRel(<, Nat)
<1>1. IsWellFoundedOn(R, Nat)
  BY NatLessThanWellFounded
<1>2. PICK n \in T : \A m \in T : ~ (<<m, n>> \in R)
  <2> HIDE DEF R
  <2> QED
    BY <1>1, WFMin
<1>3. ASSUME NEW m \in T PROVE n <= m
  <2>1. <<m, n>> \notin R /\ m \in Nat /\ n \in Nat
    BY <1>2
  <2> QED
    BY <2>1 DEF OpToRel
<1> QED
  BY <1>3

\* Every component has a first scan.
LEMMA FirstScanFacts ==
    ASSUME NEW c \in InverseComps
    PROVE  LET s == Inverse!FirstScan(c)
           IN  /\ s \in DOMAIN Scans /\ s \in Nat \ {0} /\ s <= Len(Scans)
               /\ c \in Scans[s]
               /\ \A u \in DOMAIN Scans : u < s => c \notin Scans[u]
<1>1. /\ DOMAIN Scans = 1..Len(Scans) /\ Len(Scans) \in Nat
      /\ UNION {Scans[s] : s \in DOMAIN Scans} = InverseComps
  BY CoefficientAssumptions DEF Inverse!ScansAssumption
<1> DEFINE T == {s \in DOMAIN Scans : c \in Scans[s]}
<1>2. T \subseteq Nat /\ T # {}
  BY <1>1
<1>3. PICK n \in T : \A m \in T : n <= m
  BY <1>2, LeastOfNat
<1>4. /\ n \in DOMAIN Scans /\ c \in Scans[n]
      /\ \A u \in 1..(n - 1) : c \notin Scans[u]
  BY <1>1, <1>3
<1> DEFINE s == Inverse!FirstScan(c)
<1>5. /\ s \in DOMAIN Scans /\ c \in Scans[s]
      /\ \A u \in 1..(s - 1) : c \notin Scans[u]
  BY <1>4 DEF Inverse!FirstScan
<1> HIDE DEF s
<1> QED
  BY <1>1, <1>5 DEF s

\* The table of a component is latched when its first scan starts.
Latched(c) ==
    quant_table[c] = IF Inverse!FirstScan(c) <= input_scan
                       THEN slot[Inverse!FirstScan(c)] ELSE 0

\* A multiplier table is for the component's own quantization table.
Built(c) ==
    cur_method[c] # Inverse!NoMethod =>
        /\ Inverse!FirstScan(c) <= input_scan
        /\ dct_table[c] = Inverse!Multipliers(cur_method[c],
                                              slot[Inverse!FirstScan(c)])

\* In a pass a table that has been built is that of the routine, and all of
\* those that the target scan needs have been.
Fits(c) ==
    output_scan > 0 /\ c \in component_needed =>
        /\ cur_method[c] # Inverse!NoMethod => cur_method[c] = routine[c]
        /\ Inverse!FirstScan(c) <= output_scan =>
             cur_method[c] # Inverse!NoMethod

\* The inductive invariant: what is latched, built and routed.
InverseInv ==
    /\ Inverse!TypeOK
    /\ dct_table \in [InverseComps -> [Positions -> Int]]
    /\ \A c \in InverseComps : Latched(c) /\ Built(c) /\ Fits(c)
    /\ eoi => input_scan = Len(Scans)

\* What the assumptions say of scans, steps and methods.
LEMMA ScansFacts ==
    /\ Scans \in Seq(SUBSET InverseComps)
    /\ DOMAIN Scans = 1..Len(Scans) /\ Len(Scans) \in Nat
    /\ InverseQuants \subseteq Nat \ {0} /\ DctMethods \subseteq Inverse!Methods
BY CoefficientAssumptions DEF Inverse!ScansAssumption, Inverse!QuantsAssumption

\* The multipliers of a quantization step restore it.
LEMMA MultipliersRestore ==
    ASSUME NEW c \in InverseComps, NEW q \in Nat,
           dct_table[c] = Inverse!Multipliers(routine[c], q)
    PROVE  Inverse!Restores(c, q)
<1> SUFFICES ASSUME NEW p \in Positions
             PROVE  IF routine[c] = "IFAST"
                      THEN 2 * Inverse!Abs(dct_table[c][p] * 2^12
                                             - q * Inverse!Aan(p)) <= 2^12
                      ELSE dct_table[c][p] = q
  BY DEF Inverse!Restores, Inverse!CONST_BITS, Inverse!IFAST_SCALE_BITS
<1>1. CASE routine[c] = "IFAST"
  <2> DEFINE x == q * Inverse!Aan(p)
             y == dct_table[c][p]
  <2>1. y = Inverse!DESCALE(x, 12)
    BY <1>1 DEF Inverse!Multipliers, Inverse!CONST_BITS,
                Inverse!IFAST_SCALE_BITS
  <2>2. x \in Int
    <3> Inverse!Aan(p) = Forward!Aan(p)
      BY DEF Inverse!Aan, Forward!Aan, Inverse!aanscales, Forward!aanscales
    <3> QED
      BY AanBounds
  <2> HIDE DEF x, y
  <2>3. y = (x + 2048) \div 4096
    BY <2>1 DEF Inverse!DESCALE
  <2>4. 2 * Inverse!Abs(y * 2^12 - x) <= 2^12
    BY <2>2, <2>3 DEF Inverse!Abs
  <2> QED
    BY <1>1, <2>4 DEF x, y
<1>2. CASE routine[c] # "IFAST"
  BY <1>2 DEF Inverse!Multipliers
<1> QED
  BY <1>1, <1>2

\* The multipliers are numbers.
LEMMA MultipliersType ==
    ASSUME NEW method, NEW q \in Nat
    PROVE  Inverse!Multipliers(method, q) \in [Positions -> Int]
<1> SUFFICES ASSUME NEW p \in Positions
             PROVE  Inverse!DESCALE(q * Inverse!Aan(p), 12) \in Int
  BY DEF Inverse!Multipliers, Inverse!CONST_BITS, Inverse!IFAST_SCALE_BITS
<1> DEFINE x == q * Inverse!Aan(p)
<1>1. x \in Int
  <2> Inverse!Aan(p) = Forward!Aan(p)
    BY DEF Inverse!Aan, Forward!Aan, Inverse!aanscales, Forward!aanscales
  <2> QED
    BY AanBounds
<1> HIDE DEF x
<1>2. Inverse!DESCALE(x, 12) \in Int
  BY <1>1 DEF Inverse!DESCALE
<1> QED
  BY <1>2 DEF x

\* What the table slot holds when the first scan of a component starts.
LEMMA FirstSlot ==
    ASSUME Inverse!TypeOK, NEW c \in InverseComps
    PROVE  /\ slot[Inverse!FirstScan(c)] \in InverseQuants
           /\ slot[Inverse!FirstScan(c)] \in Nat \ {0}
BY FirstScanFacts, ScansFacts DEF Inverse!TypeOK

\* The first scan has started, and nothing has been shown.
LEMMA InitInverseInv == Inverse!Init => InverseInv
<1> SUFFICES ASSUME Inverse!Init PROVE InverseInv
  OBVIOUS
<1> USE DEF Inverse!Init
<1>1. 1 \in DOMAIN Scans
  <2>1. component_needed \in SUBSET InverseComps /\ component_needed \notin {{}}
    OBVIOUS
  <2>2. PICK c \in component_needed : TRUE
    BY <2>1
  <2>3. c \in InverseComps
    BY <2>1, <2>2
  <2> QED
    BY <2>3, ScansFacts, FirstScanFacts
<1>2. ASSUME NEW c \in InverseComps
      PROVE  quant_table[c] = IF c \in Scans[1] THEN slot[1] ELSE 0
  BY DEF Inverse!Latch
<1>3. slot[1] \in InverseQuants
  BY <1>1
<1>4. quant_table \in [InverseComps -> InverseQuants \cup {0}]
  BY <1>3 DEF Inverse!Latch
<1>5. dct_table \in [InverseComps -> [Positions -> Int]]
  BY DEF Inverse!Zero
<1>6. Inverse!TypeOK
  <2>1. 0 \in 0..Len(Scans)
    BY ScansFacts
  <2> QED
    BY <1>1, <1>4, <1>5, <2>1 DEF Inverse!TypeOK
<1>7. ASSUME NEW c \in InverseComps PROVE Latched(c)
  <2> DEFINE f == Inverse!FirstScan(c)
  <2>1. f \in Nat /\ f >= 1 /\ (c \in Scans[1] <=> f = 1)
    BY <1>1, FirstScanFacts
  <2>2. input_scan = 1
    OBVIOUS
  <2>3. quant_table[c] = IF c \in Scans[1] THEN slot[1] ELSE 0
    BY <1>2
  <2> HIDE DEF f
  <2>4. quant_table[c] = IF f <= input_scan THEN slot[f] ELSE 0
    <3>1. CASE f = 1
      BY <2>1, <2>2, <2>3, <3>1
    <3>2. CASE f # 1
      BY <2>1, <2>2, <2>3, <3>2
    <3> QED
      BY <3>1, <3>2
  <2> QED
    BY <2>4 DEF Latched, f
<1>8. ASSUME NEW c \in InverseComps PROVE Built(c) /\ Fits(c)
  BY <1>8 DEF Built, Fits
<1> QED
  BY <1>5, <1>6, <1>7, <1>8 DEF InverseInv

\* A scan comes in, and the next one starts.
LEMMA ConsumeScanInv == InverseInv /\ Inverse!ConsumeScan => InverseInv'
<1> SUFFICES ASSUME InverseInv, Inverse!ConsumeScan PROVE InverseInv'
  OBVIOUS
<1>1. /\ UNCHANGED <<slot, size, component_needed, cur_method, dct_table,
                     routine, shown>>
      /\ arrived' = arrived \cup Scans[input_scan]
      /\ IF input_scan < Len(Scans)
           THEN /\ input_scan' = input_scan + 1
                /\ quant_table' = Inverse!Latch(quant_table, input_scan + 1)
                /\ UNCHANGED <<eoi, output_scan>>
           ELSE /\ eoi' = TRUE
                /\ output_scan' = IF output_scan > input_scan THEN input_scan
                                                              ELSE output_scan
                /\ UNCHANGED <<input_scan, quant_table>>
      /\ eoi = FALSE
  BY DEF Inverse!ConsumeScan, Inverse!pass, Inverse!file, InverseInv,
         Inverse!TypeOK
<1>2. /\ input_scan \in 1..Len(Scans) /\ Len(Scans) \in Nat
      /\ output_scan \in 0..Len(Scans) /\ Inverse!TypeOK
      /\ slot \in [DOMAIN Scans -> InverseQuants]
      /\ DOMAIN Scans = 1..Len(Scans)
  BY ScansFacts DEF InverseInv, Inverse!TypeOK
<1>3. /\ input_scan' \in 1..Len(Scans) /\ input_scan <= input_scan'
      /\ output_scan' \in 0..Len(Scans) /\ output_scan' <= output_scan
  BY <1>1, <1>2
<1>4. quant_table' \in [InverseComps -> InverseQuants \cup {0}]
  <2>1. CASE input_scan < Len(Scans)
    <3>1. slot[input_scan + 1] \in InverseQuants
      BY <1>2, <2>1
    <3> QED
      BY <1>1, <1>2, <2>1, <3>1 DEF Inverse!Latch, Inverse!TypeOK
  <2>2. CASE ~(input_scan < Len(Scans))
    BY <1>1, <1>2, <2>2 DEF Inverse!TypeOK
  <2> QED
    BY <2>1, <2>2
<1>5. Inverse!TypeOK'
  <2>1. arrived' \subseteq InverseComps
    <3> Scans[input_scan] \subseteq InverseComps
      BY <1>2, ScansFacts
    <3> QED
      BY <1>1, <1>2 DEF Inverse!TypeOK
  <2>2. eoi' \in BOOLEAN
    BY <1>1, <1>2 DEF Inverse!TypeOK
  <2> QED
    BY <1>1, <1>2, <1>3, <1>4, <2>1, <2>2 DEF Inverse!TypeOK
<1>6. ASSUME NEW c \in InverseComps PROVE Latched(c)'
  <2> DEFINE f == Inverse!FirstScan(c)
  <2>1. /\ f \in DOMAIN Scans /\ f \in Nat \ {0} /\ c \in Scans[f]
        /\ \A u \in DOMAIN Scans : u < f => c \notin Scans[u]
    BY FirstScanFacts
  <2>2. quant_table[c] = IF f <= input_scan THEN slot[f] ELSE 0
    BY DEF InverseInv, Latched
  <2>3. slot[f] # 0
    BY <1>2, FirstSlot
  <2> HIDE DEF f
  <2>4. quant_table'[c] = IF f <= input_scan' THEN slot'[f] ELSE 0
    <3>1. CASE input_scan < Len(Scans)
      <4>1. quant_table'[c] = IF c \in Scans[input_scan + 1]
                                   /\ quant_table[c] = 0
                                THEN slot[input_scan + 1] ELSE quant_table[c]
        BY <1>1, <3>1 DEF Inverse!Latch
      <4>2. input_scan + 1 \in DOMAIN Scans /\ input_scan' = input_scan + 1
        BY <1>1, <1>2, <3>1
      <4>3. CASE f <= input_scan
        BY <1>1, <1>2, <2>1, <2>2, <2>3, <4>1, <4>2, <4>3
      <4>4. CASE f = input_scan + 1
        BY <1>1, <1>2, <2>1, <2>2, <2>3, <4>1, <4>2, <4>4
      <4>5. CASE f > input_scan + 1
        BY <1>1, <1>2, <2>1, <2>2, <2>3, <4>1, <4>2, <4>5
      <4> QED
        BY <1>2, <2>1, <4>3, <4>4, <4>5
    <3>2. CASE ~(input_scan < Len(Scans))
      BY <1>1, <1>2, <2>2, <3>2
    <3> QED
      BY <3>1, <3>2
  <2> QED
    BY <2>4 DEF Latched, f
<1>7. ASSUME NEW c \in InverseComps PROVE Built(c)' /\ Fits(c)'
  <2> DEFINE f == Inverse!FirstScan(c)
  <2>1. Built(c) /\ Fits(c) /\ f \in Nat
    BY FirstScanFacts DEF InverseInv
  <2>2. Built(c)'
    BY <1>1, <1>2, <1>3, <2>1 DEF Built
  <2>3. Fits(c)'
    BY <1>1, <1>2, <1>3, <2>1 DEF Fits
  <2> QED
    BY <2>2, <2>3
<1>8. eoi' => input_scan' = Len(Scans)
  <2>1. CASE input_scan < Len(Scans)
    <3> ~eoi'
      BY <1>2, <2>1 DEF Inverse!ConsumeScan
    <3> QED
      OBVIOUS
  <2>2. CASE ~(input_scan < Len(Scans))
    <3>1. input_scan' = input_scan
      BY <1>1, <2>2
    <3>2. input_scan = Len(Scans)
      <4>1. input_scan \in 1..Len(Scans) /\ Len(Scans) \in Nat
        BY <1>2
      <4> QED
        BY <2>2, <4>1
    <3> QED
      BY <3>1, <3>2
  <2> QED
    BY <2>1, <2>2
<1> QED
  BY <1>1, <1>5, <1>6, <1>7, <1>8 DEF InverseInv

\* A pass starts: a table is built anew for another method, unless there is
\* nothing to build it from yet.
LEMMA StartOutputInv == InverseInv /\ Inverse!StartOutput => InverseInv'
<1> SUFFICES ASSUME InverseInv, Inverse!StartOutput PROVE InverseInv'
  OBVIOUS
<1>1. PICK target \in DOMAIN Scans, asked \in DctMethods :
        /\ eoi \/ target <= input_scan
        /\ output_scan' = target
        /\ Inverse!StartPass(asked)
  BY DEF Inverse!StartOutput
<1> DEFINE method == [c \in InverseComps |-> Inverse!MethodFor(size[c], asked)]
           Kept(c) == Inverse!Skip(c, method[c])
<1>2. /\ UNCHANGED <<slot, size, component_needed, input_scan, eoi,
                     quant_table, arrived, shown>>
      /\ routine' = method
      /\ cur_method' = [c \in InverseComps |->
                          IF Kept(c) THEN cur_method[c] ELSE method[c]]
      /\ dct_table' =
           [c \in InverseComps |->
              IF Kept(c) THEN dct_table[c]
              ELSE Inverse!Multipliers(method[c], quant_table[c])]
  BY <1>1 DEF Inverse!StartOutput, Inverse!StartPass, Inverse!file,
              Inverse!input
<1>3. \A c \in InverseComps : /\ method[c] \in Inverse!Methods
                       /\ method[c] # Inverse!NoMethod
  BY ScansFacts DEF Inverse!MethodFor, Inverse!Methods, Inverse!NoMethod
<1>4. method \in [InverseComps -> Inverse!Methods]
  BY <1>3
<1>5. /\ target \in 1..Len(Scans) /\ Len(Scans) \in Nat
      /\ input_scan \in 1..Len(Scans) /\ Inverse!TypeOK
  BY ScansFacts DEF InverseInv, Inverse!TypeOK
<1> HIDE DEF method
<1>6. ASSUME NEW c \in InverseComps
      PROVE  Kept(c) <=> \/ c \notin component_needed
                         \/ cur_method[c] = method[c]
                         \/ quant_table[c] = 0
  BY DEF Inverse!Skip
<1>7. ASSUME NEW c \in InverseComps
      PROVE  /\ cur_method'[c] = IF Kept(c) THEN cur_method[c] ELSE method[c]
             /\ dct_table'[c] =
                  IF Kept(c) THEN dct_table[c]
                  ELSE Inverse!Multipliers(method[c], quant_table[c])
             /\ routine'[c] = method[c]
  BY <1>2
<1> HIDE DEF Kept
<1>8. dct_table' \in [InverseComps -> [Positions -> Int]]
  <2>1. ASSUME NEW c \in InverseComps
        PROVE  Inverse!Multipliers(method[c], quant_table[c])
                 \in [Positions -> Int]
    <3>1. quant_table[c] \in InverseQuants \cup {0}
      BY <1>5 DEF Inverse!TypeOK
    <3>2. InverseQuants \subseteq Nat
      BY ScansFacts
    <3> DEFINE q == quant_table[c]
    <3> HIDE DEF q
    <3>3. q \in InverseQuants \/ q = 0
      BY <3>1 DEF q
    <3>4. q \in Nat
      <4>1. CASE q \in InverseQuants
        BY <3>2, <4>1
      <4>2. CASE q = 0
        BY <4>2
      <4> QED
        BY <3>3, <4>1, <4>2
    <3>5. quant_table[c] \in Nat
      BY <3>4 DEF q
    <3> QED
      BY <3>5, MultipliersType
  <2> QED
    BY <1>2, <2>1 DEF InverseInv
<1>9. Inverse!TypeOK'
  <2>1. cur_method' \in
          [InverseComps -> Inverse!Methods \cup {Inverse!NoMethod}]
    BY <1>2, <1>4, <1>5 DEF Inverse!TypeOK
  <2>2. routine' \in [InverseComps -> Inverse!Methods \cup {Inverse!NoMethod}]
    BY <1>2, <1>4
  <2>3. output_scan' \in 0..Len(Scans)
    BY <1>1, <1>5
  <2> QED
    BY <1>2, <1>5, <1>8, <2>1, <2>2, <2>3 DEF Inverse!TypeOK
<1>10. ASSUME NEW c \in InverseComps PROVE Latched(c)' /\ Built(c)' /\ Fits(c)'
  <2> DEFINE f == Inverse!FirstScan(c)
  <2>1. /\ f \in Nat \ {0} /\ f <= Len(Scans) /\ slot[f] # 0
        /\ Latched(c) /\ Built(c) /\ Fits(c)
    BY <1>5, FirstScanFacts, FirstSlot DEF InverseInv
  <2>2. Latched(c)'
    BY <1>2, <2>1 DEF Latched
  <2>3. Built(c)'
    <3>1. CASE Kept(c)
      BY <1>2, <1>7, <2>1, <3>1 DEF Built
    <3>2. CASE ~Kept(c)
      <4>1. f <= input_scan /\ quant_table[c] = slot[f]
        BY <1>6, <2>1, <3>2 DEF Latched
      <4> QED
        BY <1>2, <1>7, <3>2, <4>1 DEF Built
    <3> QED
      BY <3>1, <3>2
  <2>4. f <= target => f <= input_scan
    BY <1>1, <1>5, <2>1 DEF InverseInv
  <2>5. ASSUME c \in component_needed
        PROVE  /\ cur_method'[c] # Inverse!NoMethod
                    => cur_method'[c] = routine'[c]
               /\ f <= target => cur_method'[c] # Inverse!NoMethod
    <3>1. CASE cur_method[c] = method[c] \/ ~Kept(c)
      BY <1>3, <1>7, <3>1
    <3>2. CASE cur_method[c] # method[c] /\ Kept(c)
      <4>1. quant_table[c] = 0
        BY <1>6, <2>5, <3>2
      <4>2. ~(f <= input_scan)
        BY <2>1, <4>1 DEF Latched
      <4>3. cur_method[c] = Inverse!NoMethod
        BY <2>1, <4>2 DEF Built
      <4> QED
        BY <1>7, <2>4, <3>2, <4>2, <4>3
    <3> QED
      BY <3>1, <3>2
  <2>6. Fits(c)'
    BY <1>1, <1>2, <2>5 DEF Fits
  <2> QED
    BY <2>2, <2>3, <2>6
<1> QED
  BY <1>2, <1>8, <1>9, <1>10 DEF InverseInv

\* A pass ends.
LEMMA FinishOutputInv == InverseInv /\ Inverse!FinishOutput => InverseInv'
<1> SUFFICES ASSUME InverseInv, Inverse!FinishOutput PROVE InverseInv'
  OBVIOUS
<1>1. /\ UNCHANGED <<slot, size, component_needed, input_scan, eoi,
                     quant_table, arrived, cur_method, dct_table, routine>>
      /\ shown' = output_scan /\ output_scan' = 0
  BY DEF Inverse!FinishOutput, Inverse!input, Inverse!pass, Inverse!file
<1>2. Inverse!TypeOK'
  <2> 0 \in 0..Len(Scans)
    BY ScansFacts
  <2> QED
    BY <1>1 DEF InverseInv, Inverse!TypeOK
<1>3. ASSUME NEW c \in InverseComps PROVE Latched(c)' /\ Built(c)' /\ Fits(c)'
  BY <1>1 DEF InverseInv, Latched, Built, Fits
<1> QED
  BY <1>1, <1>2, <1>3 DEF InverseInv

\* Every step of the inverse manager.
LEMMA StepInverseInv ==
    InverseInv /\ [Inverse!Next]_(Inverse!vars) => InverseInv'
<1>1. ASSUME InverseInv, UNCHANGED Inverse!vars PROVE InverseInv'
  <2>1. UNCHANGED <<slot, size, component_needed, input_scan, eoi, quant_table,
                    arrived, cur_method, dct_table, routine, output_scan,
                    shown>>
    BY <1>1 DEF Inverse!vars, Inverse!input, Inverse!pass, Inverse!file
  <2>2. Inverse!TypeOK'
    BY <1>1, <2>1 DEF InverseInv, Inverse!TypeOK
  <2>3. ASSUME NEW c \in InverseComps PROVE Latched(c)' /\ Built(c)' /\ Fits(c)'
    BY <1>1, <2>1 DEF InverseInv, Latched, Built, Fits
  <2> QED
    BY <1>1, <2>1, <2>2, <2>3 DEF InverseInv
<1> QED
  BY <1>1, ConsumeScanInv, StartOutputInv, FinishOutputInv
     DEF Inverse!Next, Inverse!Stop

\* In a pass a table that is built restores its component's own steps.
LEMMA InverseInvImplies ==
    ASSUME InverseInv, output_scan > 0, NEW c \in component_needed,
           \/ cur_method[c] # Inverse!NoMethod
           \/ Inverse!FirstScan(c) <= output_scan
    PROVE  Inverse!Restores(c, slot[Inverse!FirstScan(c)])
<1> DEFINE f == Inverse!FirstScan(c)
<1>1. c \in InverseComps /\ Built(c) /\ Fits(c)
  BY DEF InverseInv, Inverse!TypeOK
<1>2. slot[f] \in Nat
  BY <1>1, FirstSlot DEF InverseInv
<1>3. dct_table[c] = Inverse!Multipliers(routine[c], slot[f])
  BY <1>1 DEF Built, Fits
<1> HIDE DEF f
<1>4. Inverse!Restores(c, slot[f])
  BY <1>1, <1>2, <1>3, MultipliersRestore
<1> QED
  BY <1>4 DEF f

\* The invariant implies that tables fit.
LEMMA TablesFit == InverseInv => Inverse!TablesFitTheirRoutine
BY InverseInvImplies DEF Inverse!TablesFitTheirRoutine

\* What a pass that ends has shown.
LEMMA FinishShows ==
    ASSUME InverseInv, Inverse!FinishOutput, NEW c \in component_needed,
           Inverse!FirstScan(c) <= output_scan
    PROVE  Inverse!Restores(c, slot[Inverse!FirstScan(c)])
BY InverseInvImplies DEF Inverse!FinishOutput

\* No routine reads multipliers that were built for another one, whatever the
\* order of scans, passes and methods.
THEOREM TablesFitRoutines == Inverse!Spec => []Inverse!TablesFitTheirRoutine
  BY InitInverseInv, StepInverseInv, TablesFit, PTL DEF Inverse!Spec

\* A finished pass has shown each component that had arrived by its target
\* scan with the component's own multipliers.
THEOREM PassShows == Inverse!Spec => Inverse!PassShowsItsScan
<1>1. InverseInv =>
        [\A c \in component_needed :
           (Inverse!FinishOutput /\ Inverse!FirstScan(c) <= output_scan)
             => Inverse!Restores(c, slot[Inverse!FirstScan(c)])]_(Inverse!vars)
  BY FinishShows
<1> QED
  BY <1>1, InitInverseInv, StepInverseInv, PTL
     DEF Inverse!Spec, Inverse!PassShowsItsScan

-----------------------------------------------------------------------------
(* The parts together.                                                     *)

\* A step of Coefficients is one of its part or leaves it alone.
LEMMA StepOfInverse ==
    [Next]_vars /\ part = "inverse" =>
        [Inverse!Next]_(Inverse!vars) /\ (part = "inverse")'
BY DEF Next, vars, inverseVars, dctVars, Inverse!vars, Inverse!input,
       Inverse!pass, Inverse!file

\* The same for the forward manager.
LEMMA StepOfForward ==
    [Next]_vars /\ part = "forward" =>
        [Forward!Next]_(Forward!vars) /\ (part = "forward")'
BY DEF Next, vars, forwardVars, dctVars, Forward!vars, Forward!setup

\* In a behaviour of Coefficients no coefficient is divided by zero, and each is
\* divided by its own component's step unless a later component of another
\* method has replaced the divisors of the table they share.
THEOREM Quantizes == Spec => []QuantizesByItsOwnStep
<1> DEFINE Inv == part = "forward" => ForwardInv
<1>1. Init => Inv
  BY InitForwardInv DEF Init
<1>2. Inv /\ [Next]_vars => Inv'
  <2>1. [Next]_vars /\ part # "forward" => (part # "forward")'
    BY DEF Next, vars
  <2> QED
    BY <2>1, StepOfForward, StepForwardInv
<1>3. Inv => QuantizesByItsOwnStep
  BY ForwardInvImplies DEF QuantizesByItsOwnStep
<1> QED
  BY <1>1, <1>2, <1>3, PTL DEF Spec

\* In a behaviour of Coefficients every finished pass has shown what its
\* target scan had brought, with the right tables.
THEOREM Shows == Spec => PassShowsItsScan
<1> DEFINE Inv == part = "inverse" => InverseInv
<1>1. Init => Inv
  BY InitInverseInv DEF Init
<1>2. Inv /\ [Next]_vars => Inv'
  <2>1. [Next]_vars /\ part # "inverse" => (part # "inverse")'
    BY DEF Next, vars
  <2> QED
    BY <2>1, StepOfInverse, StepInverseInv
<1>3. Inv => (part = "inverse" =>
                Inverse!TypeOK /\ Inverse!TablesFitTheirRoutine)
  BY TablesFit DEF InverseInv
<1>4. Inv /\ [Next]_vars =>
        [\A c \in component_needed :
           (Inverse!FinishOutput /\ Inverse!FirstScan(c) <= output_scan)
             => Inverse!Restores(c, slot[Inverse!FirstScan(c)])]_(Inverse!vars)
  <2>1. [Next]_vars /\ part # "inverse" => UNCHANGED Inverse!vars
    BY DEF Next, vars, inverseVars, dctVars, Inverse!vars, Inverse!input,
           Inverse!pass, Inverse!file
  <2> QED
    BY <2>1, FinishShows
<1> QED
  BY <1>1, <1>2, <1>3, <1>4, PTL
     DEF Spec, PassShowsItsScan, Inverse!PassShowsItsScan

-----------------------------------------------------------------------------
(* The decoder of arithmetic coding.  The invariant follows the bin of a   *)
(* magnitude: the category number i is in the bin, and the value that is   *)
(* doubled with it (2^i) says when there are no more categories.           *)

Contexts == {0, 4, 8, 12, 16}
DcPoints == {"dc_zero", "dc_sign", "dc_bit"}
AcPoints == {"category2", "eob", "eob_x", "nonzero", "ac_sign", "old", "new",
             "new_sign"}
BothPoints == {"category", "more", "bits"}
Idle == {"done", "bad", "restart"}
PcFields == {"at", "blkn", "k", "st", "sign", "m", "v", "kex"}

\* The bits of a magnitude have their bin.
BitsBin(p, st) ==
  IF p.k = 0 THEN st \in 0 .. 20 + 2 * Model!MagBins
  ELSE st \in 0 .. (189 + 4 * Model!MagBins) - 1

MoreOK(p) ==
  IF p.k = 0
  THEN \E i \in 0 .. Model!MagBins : p.m = 2 ^ i /\ p.st = 20 + i
  ELSE \E i \in 0 .. Model!MagBins - 1 :
         p.m = 2 ^ (i + 1) /\ p.st = Model!LargeX(p.k) + i

CategoryBin(p) ==
  IF p.k = 0 THEN p.st \in 0 .. 19 ELSE p.st = 3 * (p.k - 1) + 2

\* Where the decoder may be in an MCU of so many blocks.
PcOK(p, sc, blocks) ==
  /\ DOMAIN p = PcFields
  /\ p.at \in DcPoints \union AcPoints \union BothPoints \union Idle
  /\ p.k \in 0 .. sc.Se /\ p.sign \in {0, 1}
  /\ p.at \in Idle => p.k = 0
  /\ p.at \notin Idle => p.blkn \in 1 .. blocks
  /\ p.at \in DcPoints => p.k = 0
  /\ p.at \in AcPoints => p.k > 0
  /\ p.at = "category" => CategoryBin(p)
  /\ p.at = "category2" => p.st = 3 * (p.k - 1) + 2
  /\ p.at = "more" => MoreOK(p)
  /\ p.at = "bits" => BitsBin(p, p.st)

DecOK(w) ==
  /\ DOMAIN w = {"last_dc_val", "dc_context", "restarts_to_go"}
  /\ w.dc_context \in [Model!Comps -> Contexts]

JobOK ==
  /\ Model!SetupOK(setup)
  /\ Len(script) \in Nat /\ scan \in 1 .. Len(script)
  /\ \A i \in 1 .. Len(script) : Model!ScanOK(script[i], setup)

Blocks == Len(Model!BlocksOf(mcu))

ModelInv ==
  /\ JobOK
  /\ mcu \in Nat
  /\ pc.at \notin {"done", "bad"} => mcu > 0
  /\ DecOK(dec)
  /\ PcOK(pc, Model!Scan, Blocks)

LEMMA Powers ==
  /\ 2 ^ 0 = 1 /\ 2 ^ 1 = 2 /\ 2 ^ 2 = 4 /\ 2 ^ 3 = 8 /\ 2 ^ 4 = 16
  /\ 2 ^ 5 = 32 /\ 2 ^ 6 = 64 /\ 2 ^ 7 = 128 /\ 2 ^ 8 = 256 /\ 2 ^ 9 = 512
  /\ 2 ^ 10 = 1024 /\ 2 ^ 11 = 2048 /\ 2 ^ 12 = 4096 /\ 2 ^ 13 = 8192
  /\ 2 ^ 14 = 16384 /\ 2 ^ 15 = 32768
OBVIOUS

\* Doubling is the next power of two, as far as the categories go.
LEMMA Doubles == ASSUME NEW i \in 0 .. 14 PROVE 2 ^ (i + 1) = 2 * 2 ^ i
<1>0. CASE i = 0
  BY <1>0, Powers
<1>1. CASE i = 1
  BY <1>1, Powers
<1>2. CASE i = 2
  BY <1>2, Powers
<1>3. CASE i = 3
  BY <1>3, Powers
<1>4. CASE i = 4
  BY <1>4, Powers
<1>5. CASE i = 5
  BY <1>5, Powers
<1>6. CASE i = 6
  BY <1>6, Powers
<1>7. CASE i = 7
  BY <1>7, Powers
<1>8. CASE i = 8
  BY <1>8, Powers
<1>9. CASE i = 9
  BY <1>9, Powers
<1>10. CASE i = 10
  BY <1>10, Powers
<1>11. CASE i = 11
  BY <1>11, Powers
<1>12. CASE i = 12
  BY <1>12, Powers
<1>13. CASE i = 13
  BY <1>13, Powers
<1>14. CASE i = 14
  BY <1>14, Powers
<1> QED
  BY <1>0, <1>1, <1>2, <1>3, <1>4, <1>5, <1>6, <1>7, <1>8, <1>9, <1>10,
     <1>11, <1>12, <1>13, <1>14

\* The scan that is decoded is a legal one of a legal picture.
LEMMA ScanFacts ==
    ASSUME JobOK
    PROVE  /\ Model!ScanOK(Model!Scan, setup)
           /\ Model!Scan.Se \in 0 .. 63 /\ Model!Scan.Ss \in 0 .. Model!Scan.Se
           /\ Model!MagBins \in 1 .. 14
           /\ ~Model!Scan.progressive => Model!Scan.Se > 0
<1>1. Model!ScanOK(Model!Scan, setup)
  BY DEF JobOK, Model!Scan
<1>2. setup.limSe \in 1 .. 63 /\ setup.magBins \in 1 .. 14
  BY DEF JobOK, Model!SetupOK
<1>3. /\ Model!Scan.Ss \in 0 .. setup.limSe
      /\ Model!Scan.Se \in Model!Scan.Ss .. setup.limSe
      /\ ~Model!Scan.progressive => Model!Scan.Se = setup.limSe
  BY <1>1 DEF Model!ScanOK
<1> HIDE DEF Model!Scan
<1> QED
  BY <1>1, <1>2, <1>3 DEF Model!MagBins

\* A component that is decoded alone has blocks i..j of an MCU.
LEMMA OwnFacts ==
    ASSUME JobOK, Model!Scan.comp # 0
    PROVE  /\ Model!OwnCount \in Nat \ {0}
           /\ \A x \in 0 .. Model!OwnCount - 1 :
                Model!FirstOwn + x \in DOMAIN Model!Membership
<1> DEFINE own == Model!Own
           first == Model!FirstOwn
           last == Model!LastOwn
<1>1. PICK i \in DOMAIN setup.membership, j \in DOMAIN setup.membership :
        i <= j /\ own = i .. j
  BY ScanFacts DEF Model!ScanOK, Model!Own, Model!Membership
<1>2. setup.membership \in Seq(Model!Comps)
  BY DEF JobOK, Model!SetupOK, Model!Comps, Model!DcTbl
<1>3. DOMAIN setup.membership = 1 .. Len(setup.membership)
      /\ Len(setup.membership) \in Nat
  BY <1>2
<1>4. i \in Int /\ j \in Int
  BY <1>3
<1>5. last = j
  <2>1. last = CHOOSE b \in own : \A c \in own : c <= b
    BY DEF Model!LastOwn
  <2> HIDE DEF own, last
  <2>2. j \in own /\ \A c \in own : c <= j
    BY <1>1, <1>4
  <2>3. last \in own /\ \A c \in own : c <= last
    BY <2>1, <2>2
  <2> QED
    BY <2>2, <2>3, <1>1, <1>4
<1>6. first = CHOOSE b \in own : \A c \in own : b <= c
  BY DEF Model!FirstOwn
<1>7. first = i
  <2> HIDE DEF own, first, last
  <2>1. i \in own /\ \A c \in own : i <= c
    BY <1>1, <1>4
  <2>2. first \in own /\ \A c \in own : first <= c
    BY <1>6, <2>1
  <2> QED
    BY <2>1, <2>2, <1>1, <1>4
<1>8. \A x \in 0 .. (j - i + 1) - 1 : i + x \in 1 .. Len(setup.membership)
  BY <1>1, <1>3, <1>4
<1>9. Model!OwnCount = j - i + 1
  BY <1>4, <1>5, <1>7 DEF Model!OwnCount
<1> QED
  BY <1>1, <1>3, <1>4, <1>7, <1>8, <1>9 DEF Model!Membership

\* Every block of an MCU is of a component.
LEMMA BlockFacts ==
    ASSUME JobOK, NEW n \in Nat
    PROVE  /\ Len(Model!BlocksOf(n)) \in Nat
           /\ \A b \in 1 .. Len(Model!BlocksOf(n)) :
                Model!Membership[Model!BlocksOf(n)[b][2]] \in Model!Comps
<1>1. setup.membership \in Seq(Model!Comps)
  BY DEF JobOK, Model!SetupOK, Model!Comps, Model!DcTbl
<1>2. DOMAIN setup.membership = 1 .. Len(setup.membership)
      /\ Len(setup.membership) \in Nat
  BY <1>1
<1>3. CASE Model!Scan.comp = 0
  <2>1. Model!BlocksOf(n) = [b \in 1 .. Len(setup.membership) |-> <<n, b>>]
    BY <1>2, <1>3 DEF Model!BlocksOf, Model!Membership
  <2> QED
    BY <1>1, <1>2, <2>1 DEF Model!Membership
<1>4. CASE Model!Scan.comp # 0
  <2> DEFINE card == Model!OwnCount
             x == (n - 1) % card
             place == <<(n - 1) \div card + 1, Model!FirstOwn + x>>
  <2>1. card \in Nat \ {0}
        /\ \A y \in 0 .. card - 1 :
             Model!FirstOwn + y \in DOMAIN Model!Membership
    BY <1>4, OwnFacts
  <2>2. Model!BlocksOf(n) = <<place>>
    BY <1>4 DEF Model!BlocksOf
  <2>3. x \in 0 .. card - 1
    <3> HIDE DEF card
    <3> QED
      BY <2>1
  <2> HIDE DEF x, card
  <2>4. Model!FirstOwn + x \in DOMAIN setup.membership
    BY <2>1, <2>3 DEF Model!Membership
  <2>5. place[2] = Model!FirstOwn + x
    OBVIOUS
  <2> HIDE DEF place
  <2> QED
    BY <1>1, <1>2, <2>2, <2>4, <2>5 DEF Model!Membership
<1> QED
  BY <1>3, <1>4

\* A routine that has just come to a decision.
Comes(p, at, b, k) ==
  DOMAIN p = PcFields /\ p.at = at /\ p.blkn = b /\ p.k = k /\ p.sign = 0

\* A block is begun at one of the first decisions.
LEMMA BeginOK ==
    ASSUME JobOK, NEW n \in Nat, n > 0, NEW b \in Nat, b > 0
    PROVE  PcOK(Model!Begin(n, b), Model!Scan, Len(Model!BlocksOf(n)))
<1> DEFINE sc == Model!Scan
           len == Len(Model!BlocksOf(n))
           p == Model!Begin(n, b)
           first == [Model!NoPc EXCEPT !.blkn = b]
<1>1. len \in Nat
  BY BlockFacts
<1>2. sc.Se \in 0 .. 63 /\ sc.Ss \in 0 .. sc.Se
  BY ScanFacts
<1>3. \/ Comes(p, "done", 0, 0)
      \/ b \in 1 .. len /\ Comes(p, "dc_zero", b, 0)
      \/ b \in 1 .. len /\ Comes(p, "dc_bit", b, 0)
      \/ /\ b \in 1 .. len /\ sc.Ss > 0
         /\ \E at \in {"eob", "eob_x", "old", "new"} : Comes(p, at, b, sc.Ss)
  <2> DEFINE place == Model!BlocksOf(n)[b]
             q == [first EXCEPT !.k = sc.Ss, !.kex = Model!Eobx(place)]
  <2>1. CASE b > len
    BY <2>1 DEF Model!Begin, Model!NoPc, Comes, PcFields
  <2>2. CASE b <= len /\ sc.Ss > 0 /\ sc.Ah # 0
    <3>1. p = Model!RefineAt(q, place, coefs)
      BY <1>1, <1>2, <2>2 DEF Model!Begin
    <3>2. DOMAIN q = PcFields /\ q.blkn = b /\ q.k = sc.Ss /\ q.sign = 0
      BY DEF Model!NoPc, PcFields
    <3> HIDE DEF q, place
    <3>3. \E at \in {"eob_x", "old", "new"} : p = [q EXCEPT !.at = at]
      BY <3>1 DEF Model!RefineAt
    <3>4. \E at \in {"eob_x", "old", "new"} : Comes(p, at, b, sc.Ss)
      <4> HIDE DEF p, sc
      <4> QED
        BY <3>2, <3>3 DEF Comes, PcFields
    <3> QED
      BY <1>1, <2>2, <3>4
  <2>3. CASE b <= len /\ sc.Ss > 0 /\ sc.Ah = 0
    <3>1. p = [first EXCEPT !.at = "eob", !.k = sc.Ss]
      BY <1>1, <1>2, <2>3 DEF Model!Begin
    <3>2. Comes(p, "eob", b, sc.Ss)
      BY <3>1 DEF Model!NoPc, Comes, PcFields
    <3> QED
      BY <1>1, <2>3, <3>2
  <2>4. CASE b <= len /\ sc.Ss = 0
    <3>1. sc.Ah \in Nat
      BY ScanFacts DEF Model!ScanOK
    <3>2. \/ p = [first EXCEPT !.at = "dc_zero"]
          \/ p = [first EXCEPT !.at = "dc_bit"]
      BY <1>1, <2>4, <3>1 DEF Model!Begin
    <3>3. Comes(p, "dc_zero", b, 0) \/ Comes(p, "dc_bit", b, 0)
      BY <3>2 DEF Model!NoPc, Comes, PcFields
    <3> QED
      BY <1>1, <2>4, <3>3
  <2>5. sc.Ss = 0 \/ sc.Ss > 0
    BY <1>2
  <2>6. b > len \/ b <= len
    BY <1>1
  <2> HIDE DEF sc, len, p
  <2> QED
    BY <2>1, <2>2, <2>3, <2>4, <2>5, <2>6
<1> HIDE DEF sc, len, p
<1>4. ASSUME Comes(p, "done", 0, 0) PROVE PcOK(p, sc, len)
  BY <1>2, <1>4 DEF PcOK, Comes, DcPoints, AcPoints, BothPoints, Idle
<1>5. ASSUME b \in 1 .. len, NEW at \in {"dc_zero", "dc_bit"},
             Comes(p, at, b, 0)
      PROVE  PcOK(p, sc, len)
  BY <1>2, <1>5 DEF PcOK, Comes, DcPoints, AcPoints, BothPoints, Idle
<1>6. ASSUME b \in 1 .. len, sc.Ss > 0,
             NEW at \in {"eob", "eob_x", "old", "new"},
             Comes(p, at, b, sc.Ss)
      PROVE  PcOK(p, sc, len)
  BY <1>2, <1>6 DEF PcOK, Comes, DcPoints, AcPoints, BothPoints, Idle
<1>7. PcOK(p, sc, len)
  BY <1>3, <1>4, <1>5, <1>6
<1> QED
  BY <1>7 DEF p, sc, len

\* The variables of a job do not change during an MCU.
Keeps == UNCHANGED <<setup, script, scan, mcu>>

Moved ==
  Keeps /\ DecOK(dec') /\ PcOK(pc', Model!Scan, Blocks)

LEMMA KeepsBlocks ==
    ASSUME Keeps
    PROVE  /\ Blocks' = Blocks /\ Model!Scan' = Model!Scan
           /\ Model!Comps' = Model!Comps /\ Model!MagBins' = Model!MagBins
           /\ \A k : Model!LargeX(k)' = Model!LargeX(k)
<1>1. setup' = setup /\ script' = script /\ scan' = scan /\ mcu' = mcu
  BY DEF Keeps
<1>2. Model!Scan' = Model!Scan /\ Model!Membership' = Model!Membership
  BY <1>1 DEF Model!Scan, Model!Membership
<1>3. Model!Own' = Model!Own
  BY <1>2 DEF Model!Own
<1>4. Model!FirstOwn' = Model!FirstOwn /\ Model!LastOwn' = Model!LastOwn
  BY <1>3 DEF Model!FirstOwn, Model!LastOwn
<1>5. Model!OwnCount' = Model!OwnCount
  BY <1>4 DEF Model!OwnCount
<1>6. Blocks' = Blocks
  BY <1>1, <1>2, <1>4, <1>5 DEF Blocks, Model!BlocksOf
<1> QED
  BY <1>1, <1>2, <1>6
  DEF Model!Comps, Model!DcTbl, Model!MagBins, Model!LargeX, Model!Kx

\* A step to a right place keeps the invariant.
LEMMA MovedOK ==
    ASSUME ModelInv, Moved, mcu > 0
    PROVE  ModelInv'
<1>1. Keeps
  BY DEF Moved
<1>2. JobOK'
  BY <1>1 DEF ModelInv, JobOK, Keeps
<1> QED
  BY <1>1, <1>2, KeepsBlocks
  DEF ModelInv, Moved, Keeps, DecOK, PcOK, CategoryBin, MoreOK, BitsBin

LEMMA PcFacts ==
    ASSUME ModelInv
    PROVE  /\ Model!Scan.Se \in 0 .. 63 /\ Blocks \in Nat
           /\ ~Model!Scan.progressive => Model!Scan.Se > 0
           /\ Model!MagBins \in 1 .. 14
           /\ pc.k \in 0 .. Model!Scan.Se /\ DOMAIN pc = PcFields
           /\ pc.at \notin Idle =>
                /\ mcu > 0 /\ pc.blkn \in 1 .. Blocks
                /\ Model!Ci \in Model!Comps
<1>1. JobOK /\ PcOK(pc, Model!Scan, Blocks)
  BY DEF ModelInv
<1>2. Model!Scan.Se \in 0 .. 63 /\ Model!MagBins \in 1 .. 14
      /\ (~Model!Scan.progressive => Model!Scan.Se > 0)
  BY <1>1, ScanFacts
<1>3. pc.k \in 0 .. Model!Scan.Se /\ DOMAIN pc = PcFields
      /\ (pc.at \notin Idle => pc.blkn \in 1 .. Blocks)
  BY <1>1 DEF PcOK
<1>4. mcu \in Nat /\ (pc.at \notin Idle => mcu > 0)
  BY DEF ModelInv, Idle
<1>5. Blocks \in Nat
  BY <1>1, <1>4, BlockFacts DEF Blocks
<1>6. pc.at \notin Idle => Model!Ci \in Model!Comps
  BY <1>1, <1>3, <1>4, BlockFacts DEF Blocks, Model!Ci, Model!Place
<1> QED
  BY <1>2, <1>3, <1>4, <1>5, <1>6

\* The next block, or the end of the MCU.
LEMMA NextBlockOK ==
    ASSUME ModelInv, pc.at \notin Idle
    PROVE  PcOK(Model!Begin(mcu, pc.blkn + 1), Model!Scan, Blocks)
<1>1. JobOK /\ mcu \in Nat /\ mcu > 0 /\ pc.blkn + 1 \in Nat /\ pc.blkn + 1 > 0
  BY PcFacts DEF ModelInv
<1> QED
  BY <1>1, BeginOK DEF Blocks

\* On to the first AC coefficient of a block that has some.
LEMMA AfterDcOK ==
    ASSUME ModelInv, pc.at \notin Idle
    PROVE  PcOK(Model!AfterDc, Model!Scan, Blocks)
<1> DEFINE sc == Model!Scan
           blocks == Blocks
           q == [pc EXCEPT !.at = "eob", !.k = 1]
<1>1. CASE sc.progressive
  BY <1>1, NextBlockOK DEF Model!AfterDc
<1>2. CASE ~sc.progressive
  <2>1. sc.Se \in 0 .. 63 /\ sc.Se > 0 /\ pc.sign \in {0, 1}
        /\ DOMAIN pc = PcFields /\ pc.blkn \in 1 .. blocks
    BY <1>2, PcFacts DEF ModelInv, PcOK
  <2>2. /\ DOMAIN q = PcFields /\ q.at = "eob" /\ q.k = 1
        /\ q.sign = pc.sign /\ q.blkn = pc.blkn
    BY <2>1 DEF PcFields
  <2>3. Model!AfterDc = q
    BY <1>2 DEF Model!AfterDc
  <2> HIDE DEF sc, blocks, q
  <2>4. PcOK(q, sc, blocks)
    BY <2>1, <2>2 DEF PcOK, DcPoints, AcPoints, BothPoints, Idle
  <2> QED
    BY <2>3, <2>4 DEF sc, blocks
<1> QED
  BY <1>1, <1>2

\* On to the next AC coefficient, or block.
LEMMA AfterAcOK ==
    ASSUME ModelInv, pc.at \notin Idle
    PROVE  PcOK(Model!AfterAc(pc.k), Model!Scan, Blocks)
<1> DEFINE sc == Model!Scan
           blocks == Blocks
           q == [pc EXCEPT !.at = "eob", !.k = pc.k + 1]
<1>1. CASE ~(pc.k < sc.Se)
  BY <1>1, NextBlockOK DEF Model!AfterAc
<1>2. CASE pc.k < sc.Se
  <2>1. sc.Se \in 0 .. 63 /\ pc.k \in 0 .. sc.Se /\ pc.sign \in {0, 1}
        /\ DOMAIN pc = PcFields /\ pc.blkn \in 1 .. blocks
    BY <1>2, PcFacts DEF ModelInv, PcOK
  <2>2. /\ DOMAIN q = PcFields /\ q.at = "eob" /\ q.k = pc.k + 1
        /\ q.sign = pc.sign /\ q.blkn = pc.blkn
    BY <2>1 DEF PcFields
  <2>3. Model!AfterAc(pc.k) = q
    BY <1>2 DEF Model!AfterAc
  <2> HIDE DEF sc, blocks, q
  <2>4. PcOK(q, sc, blocks)
    BY <1>2, <2>1, <2>2 DEF PcOK, DcPoints, AcPoints, BothPoints, Idle
  <2> QED
    BY <2>3, <2>4 DEF sc, blocks
<1> QED
  BY <1>1, <1>2

\* The value is complete.
LEMMA ValueOK ==
    ASSUME ModelInv, pc.at \notin Idle, NEW w, DecOK(w), NEW v,
           Model!Value(w, v)
    PROVE  DecOK(dec') /\ PcOK(pc', Model!Scan, Blocks)
<1>1. CASE pc.k = 0
  <2>1. pc' = Model!AfterDc
    BY <1>1 DEF Model!Value, Model!AtDc
  <2>2. \E x : dec' = [w EXCEPT !.last_dc_val[Model!Ci] = x]
    BY <1>1 DEF Model!Value, Model!AtDc
  <2> QED
    BY <2>1, <2>2, AfterDcOK DEF DecOK
<1>2. CASE pc.k # 0
  <2>1. pc' = Model!AfterAc(pc.k) /\ dec' = w
    BY <1>2 DEF Model!Value, Model!AtDc
  <2> QED
    BY <2>1, AfterAcOK
<1> QED
  BY <1>1, <1>2

\* The context is one of five.
LEMMA ContextOK ==
    ASSUME NEW m, NEW sign \in {0, 1}
    PROVE  Model!ContextAfter(m, sign) \in Contexts
<1>1. 12 + 4 * sign \in Contexts /\ 4 + 4 * sign \in Contexts
  BY DEF Contexts
<1> QED
  BY <1>1 DEF Model!ContextAfter, Contexts

\* The category is complete: its bits have a bin of their own.
LEMMA CategoryOK ==
    ASSUME ModelInv, pc.at \notin Idle, NEW m, NEW st,
           BitsBin(pc, st + Model!MagBins), Model!Category(m, st)
    PROVE  DecOK(dec') /\ PcOK(pc', Model!Scan, Blocks)
<1> DEFINE c == Model!ContextAfter(m, pc.sign)
           w == IF Model!AtDc THEN [dec EXCEPT !.dc_context[Model!Ci] = c]
                ELSE dec
<1>1. DecOK(dec) /\ pc.sign \in {0, 1} /\ Model!Ci \in Model!Comps
  BY PcFacts DEF ModelInv, PcOK
<1>2. c \in Contexts
  BY <1>1, ContextOK
<1>3. DecOK(w)
  <2> HIDE DEF c
  <2> QED
    BY <1>1, <1>2 DEF DecOK
<1>4. CASE m <= 1
  <2>1. Model!Value(w, m)
    BY <1>4 DEF Model!Category
  <2> HIDE DEF w
  <2> QED
    BY <1>3, <2>1, ValueOK
<1>5. CASE ~(m <= 1)
  <2> DEFINE sc == Model!Scan
             blocks == Blocks
             q == [pc EXCEPT !.at = "bits", !.v = m, !.m = m \div 2,
                             !.st = st + Model!MagBins]
  <2>1. dec' = w /\ pc' = q
    BY <1>5 DEF Model!Category
  <2>2. DOMAIN pc = PcFields /\ pc.blkn \in 1 .. blocks
        /\ pc.k \in 0 .. sc.Se
    BY PcFacts
  <2>3. /\ DOMAIN q = PcFields /\ q.at = "bits" /\ q.k = pc.k
        /\ q.sign = pc.sign /\ q.blkn = pc.blkn /\ q.st = st + Model!MagBins
    BY <2>2 DEF PcFields
  <2> HIDE DEF sc, blocks, q
  <2>4. BitsBin(q, q.st)
    BY <2>3 DEF BitsBin
  <2>5. PcOK(q, sc, blocks)
    BY <1>1, <2>2, <2>3, <2>4 DEF PcOK, DcPoints, AcPoints, BothPoints, Idle
  <2> QED
    BY <1>3, <2>1, <2>5 DEF sc, blocks
<1> QED
  BY <1>4, <1>5

\* A routine that waits for a decision is in an MCU and leaves the job alone.
LEMMA WaitsFacts ==
    ASSUME ModelInv, NEW points, Model!Decides(points), points \cap Idle = {}
    PROVE  /\ pc.at \in points /\ pc.at \notin Idle /\ mcu > 0
           /\ Keeps /\ DecOK(dec) /\ PcOK(pc, Model!Scan, Blocks)
<1>1. pc.at \in points /\ pc.at \notin Idle
  BY DEF Model!Decides
<1>2. Keeps
  BY DEF Model!Decides, Keeps, Model!job
<1> QED
  BY <1>1, <1>2, PcFacts DEF ModelInv

\* A decision without a bin to follow.
LEMMA PlainOK ==
    ASSUME NEW p, NEW sc, NEW blocks, PcOK(p, sc, blocks), p.at \notin Idle,
           NEW q, DOMAIN q = PcFields, q.blkn = p.blkn, q.sign \in {0, 1},
           q.k \in 0 .. sc.Se,
           \/ q.at \in DcPoints /\ q.k = 0
           \/ q.at \in AcPoints \ {"category2"} /\ q.k > 0
    PROVE  PcOK(q, sc, blocks)
BY DEF PcOK, DcPoints, AcPoints, BothPoints, Idle

\* A magnitude with its bin.
LEMMA BinOK ==
    ASSUME NEW p, NEW sc, NEW blocks, PcOK(p, sc, blocks), p.at \notin Idle,
           NEW q, DOMAIN q = PcFields, q.blkn = p.blkn, q.sign \in {0, 1},
           q.k = p.k,
           \/ q.at = "category" /\ CategoryBin(q)
           \/ q.at = "category2" /\ q.st = 3 * (q.k - 1) + 2 /\ q.k > 0
           \/ q.at = "more" /\ MoreOK(q)
           \/ q.at = "bits" /\ BitsBin(q, q.st)
    PROVE  PcOK(q, sc, blocks)
BY DEF PcOK, DcPoints, AcPoints, BothPoints, Idle

\* The decoder gives up until the next restart.
LEMMA BadCodeOK ==
    ASSUME ModelInv, Model!BadCode
    PROVE  DecOK(dec') /\ PcOK(pc', Model!Scan, Blocks)
<1> DEFINE q == [Model!NoPc EXCEPT !.at = "bad"]
<1>1. pc' = q /\ dec' = dec
  BY DEF Model!BadCode, Model!Goes
<1>2. DOMAIN q = PcFields /\ q.at = "bad" /\ q.k = 0 /\ q.sign = 0
  BY DEF Model!NoPc, PcFields
<1>3. 0 \in 0 .. Model!Scan.Se
  BY PcFacts
<1> HIDE DEF q
<1>4. PcOK(q, Model!Scan, Blocks)
  BY <1>2, <1>3 DEF PcOK, DcPoints, AcPoints, BothPoints, Idle
<1> QED
  BY <1>1, <1>4 DEF ModelInv

LEMMA DcZeroOK == ASSUME ModelInv, Model!dc_zero PROVE Moved
<1>1. Model!Decides({"dc_zero"})
  BY DEF Model!dc_zero
<1>2. {"dc_zero"} \cap Idle = {}
  BY DEF Idle
<1>3. /\ pc.at = "dc_zero" /\ pc.at \notin Idle /\ Keeps /\ DecOK(dec)
      /\ PcOK(pc, Model!Scan, Blocks) /\ DOMAIN pc = PcFields
      /\ Model!Ci \in Model!Comps
  BY <1>1, <1>2, WaitsFacts, PcFacts
<1>4. \/ dec' = [dec EXCEPT !.dc_context[Model!Ci] = 0] /\ pc' = Model!AfterDc
      \/ dec' = dec /\ pc' = [pc EXCEPT !.at = "dc_sign"]
  BY DEF Model!dc_zero, Model!Goes
<1>5. DecOK(dec')
  BY <1>3, <1>4 DEF DecOK, Contexts
<1>6. PcOK(pc', Model!Scan, Blocks)
  <2>1. CASE pc' = Model!AfterDc
    BY <1>3, <2>1, AfterDcOK
  <2>2. CASE pc' = [pc EXCEPT !.at = "dc_sign"]
    <3>1. pc.k = 0 /\ pc.sign \in {0, 1} /\ pc.k \in 0 .. Model!Scan.Se
      BY <1>3 DEF PcOK, DcPoints
    <3>2. /\ DOMAIN pc' = PcFields /\ pc'.at = "dc_sign" /\ pc'.k = pc.k
          /\ pc'.sign = pc.sign /\ pc'.blkn = pc.blkn
      BY <1>3, <2>2 DEF PcFields
    <3> QED
      BY <1>3, <3>1, <3>2, PlainOK DEF DcPoints
  <2> QED
    BY <1>4, <2>1, <2>2
<1> QED
  BY <1>3, <1>5, <1>6 DEF Moved

LEMMA DcSignOK == ASSUME ModelInv, Model!dc_sign PROVE Moved
<1>1. Model!Decides({"dc_sign"})
  BY DEF Model!dc_sign
<1>2. {"dc_sign"} \cap Idle = {}
  BY DEF Idle
<1>3. /\ pc.at = "dc_sign" /\ pc.at \notin Idle /\ Keeps /\ DecOK(dec)
      /\ PcOK(pc, Model!Scan, Blocks) /\ DOMAIN pc = PcFields
      /\ Model!Ci \in Model!Comps
  BY <1>1, <1>2, WaitsFacts, PcFacts
<1>4. PICK bit \in {0, 1} :
        /\ dec' = dec
        /\ pc' = [pc EXCEPT !.at = "category", !.sign = bit,
                            !.st = dec.dc_context[Model!Ci] + 2 + bit]
  BY DEF Model!dc_sign, Model!Goes, Model!Bit
<1>5. dec.dc_context[Model!Ci] \in Contexts
  BY <1>3 DEF DecOK
<1>6. dec.dc_context[Model!Ci] + 2 + bit \in 0 .. 19
  BY <1>5 DEF Contexts
<1>7. pc.k = 0
  BY <1>3 DEF PcOK, DcPoints
<1>8. /\ DOMAIN pc' = PcFields /\ pc'.at = "category" /\ pc'.k = pc.k
      /\ pc'.sign = bit /\ pc'.blkn = pc.blkn
      /\ pc'.st = dec.dc_context[Model!Ci] + 2 + bit
  BY <1>3, <1>4 DEF PcFields
<1>9. CategoryBin(pc')
  BY <1>6, <1>7, <1>8 DEF CategoryBin
<1>10. PcOK(pc', Model!Scan, Blocks)
  BY <1>3, <1>8, <1>9, BinOK
<1> QED
  BY <1>3, <1>4, <1>10 DEF Moved

\* The first decision of a magnitude: none, or more of it.
LEMMA CategoryStepOK == ASSUME ModelInv, Model!category PROVE Moved
<1>1. Model!Decides({"category"})
  BY DEF Model!category
<1>2. {"category"} \cap Idle = {}
  BY DEF Idle
<1>3. /\ pc.at = "category" /\ pc.at \notin Idle /\ Keeps /\ DecOK(dec)
      /\ PcOK(pc, Model!Scan, Blocks) /\ DOMAIN pc = PcFields
  BY <1>1, <1>2, WaitsFacts, PcFacts
<1>4. /\ CategoryBin(pc) /\ pc.k \in 0 .. 63 /\ Model!MagBins \in 1 .. 14
      /\ pc.sign \in {0, 1}
  BY <1>3, PcFacts DEF PcOK
<1>5. \/ Model!Category(0, pc.st)
      \/ /\ dec' = dec /\ pc.k = 0
         /\ pc' = [pc EXCEPT !.at = "more", !.m = 1, !.st = 20]
      \/ /\ dec' = dec /\ pc.k # 0
         /\ pc' = [pc EXCEPT !.at = "category2"]
  BY DEF Model!category, Model!Goes, Model!Bit, Model!FirstX, Model!AtDc
<1>6. CASE Model!Category(0, pc.st)
  <2>1. BitsBin(pc, pc.st + Model!MagBins)
    BY <1>4 DEF CategoryBin, BitsBin
  <2> QED
    BY <1>3, <1>6, <2>1, CategoryOK DEF Moved
<1>7. CASE /\ dec' = dec /\ pc.k = 0
           /\ pc' = [pc EXCEPT !.at = "more", !.m = 1, !.st = 20]
  <2>1. /\ DOMAIN pc' = PcFields /\ pc'.at = "more" /\ pc'.k = pc.k
        /\ pc'.sign = pc.sign /\ pc'.blkn = pc.blkn /\ pc'.m = 1
        /\ pc'.st = 20
    BY <1>3, <1>7 DEF PcFields
  <2>2. MoreOK(pc')
    <3>1. PICK i \in 0 .. Model!MagBins : i = 0
      BY <1>4
    <3>2. pc'.m = 2 ^ i /\ pc'.st = 20 + i
      BY <2>1, <3>1, Powers
    <3> QED
      BY <1>7, <2>1, <3>2 DEF MoreOK
  <2>3. PcOK(pc', Model!Scan, Blocks)
    BY <1>3, <1>4, <2>1, <2>2, BinOK
  <2> QED
    BY <1>3, <1>7, <2>3 DEF Moved
<1>8. CASE /\ dec' = dec /\ pc.k # 0
           /\ pc' = [pc EXCEPT !.at = "category2"]
  <2>1. /\ DOMAIN pc' = PcFields /\ pc'.at = "category2" /\ pc'.k = pc.k
        /\ pc'.sign = pc.sign /\ pc'.blkn = pc.blkn /\ pc'.st = pc.st
    BY <1>3, <1>8 DEF PcFields
  <2>2. pc'.st = 3 * (pc'.k - 1) + 2 /\ pc'.k > 0
    BY <1>4, <1>8, <2>1 DEF CategoryBin
  <2>3. PcOK(pc', Model!Scan, Blocks)
    BY <1>3, <1>4, <2>1, <2>2, BinOK
  <2> QED
    BY <1>3, <1>8, <2>3 DEF Moved
<1> QED
  BY <1>5, <1>6, <1>7, <1>8

\* The second one of an AC magnitude.
LEMMA Category2OK == ASSUME ModelInv, Model!category2 PROVE Moved
<1>1. Model!Decides({"category2"})
  BY DEF Model!category2
<1>2. {"category2"} \cap Idle = {}
  BY DEF Idle
<1>3. /\ pc.at = "category2" /\ pc.at \notin Idle /\ Keeps /\ DecOK(dec)
      /\ PcOK(pc, Model!Scan, Blocks) /\ DOMAIN pc = PcFields
  BY <1>1, <1>2, WaitsFacts, PcFacts
<1>4. /\ pc.st = 3 * (pc.k - 1) + 2 /\ pc.k \in 0 .. 63 /\ pc.k > 0
      /\ Model!MagBins \in 1 .. 14 /\ pc.sign \in {0, 1}
  BY <1>3, PcFacts DEF PcOK, AcPoints
<1>5. \/ Model!Category(1, pc.st)
      \/ /\ dec' = dec
         /\ pc' = [pc EXCEPT !.at = "more", !.m = 2,
                             !.st = Model!LargeX(pc.k)]
  BY DEF Model!category2, Model!Goes
<1>6. CASE Model!Category(1, pc.st)
  <2>1. BitsBin(pc, pc.st + Model!MagBins)
    BY <1>4 DEF BitsBin
  <2> QED
    BY <1>3, <1>6, <2>1, CategoryOK DEF Moved
<1>7. CASE /\ dec' = dec
           /\ pc' = [pc EXCEPT !.at = "more", !.m = 2,
                               !.st = Model!LargeX(pc.k)]
  <2>1. /\ DOMAIN pc' = PcFields /\ pc'.at = "more" /\ pc'.k = pc.k
        /\ pc'.sign = pc.sign /\ pc'.blkn = pc.blkn /\ pc'.m = 2
        /\ pc'.st = Model!LargeX(pc.k)
    BY <1>3, <1>7 DEF PcFields
  <2>2. Model!LargeX(pc.k) \in Int
    BY <1>4 DEF Model!LargeX
  <2>3. MoreOK(pc')
    <3>1. PICK i \in 0 .. Model!MagBins - 1 : i = 0
      BY <1>4
    <3>2. pc'.m = 2 ^ (i + 1) /\ pc'.st = Model!LargeX(pc'.k) + i
      BY <2>1, <2>2, <3>1, Powers
    <3> QED
      BY <1>4, <2>1, <3>2 DEF MoreOK
  <2>4. PcOK(pc', Model!Scan, Blocks)
    BY <1>3, <1>4, <2>1, <2>3, BinOK
  <2> QED
    BY <1>3, <1>7, <2>4 DEF Moved
<1> QED
  BY <1>5, <1>6, <1>7

\* One more category, unless the magnitude overflows.
LEMMA MoreStepOK == ASSUME ModelInv, Model!more PROVE Moved
<1>1. Model!Decides({"more"})
  BY DEF Model!more
<1>2. {"more"} \cap Idle = {}
  BY DEF Idle
<1>3. /\ pc.at = "more" /\ pc.at \notin Idle /\ Keeps /\ DecOK(dec)
      /\ PcOK(pc, Model!Scan, Blocks) /\ DOMAIN pc = PcFields
  BY <1>1, <1>2, WaitsFacts, PcFacts
<1>4. /\ MoreOK(pc) /\ pc.k \in 0 .. 63 /\ Model!MagBins \in 1 .. 14
      /\ pc.sign \in {0, 1}
  BY <1>3, PcFacts DEF PcOK
<1>5. Model!LargeX(pc.k) \in 189 .. 189 + 2 * Model!MagBins
  BY <1>4 DEF Model!LargeX
<1>6. \/ Model!Category(pc.m, pc.st)
      \/ Model!BadCode
      \/ /\ dec' = dec /\ 2 * pc.m # 2 ^ (Model!MagBins + 1)
         /\ pc' = [pc EXCEPT !.m = 2 * pc.m, !.st = pc.st + 1]
  BY DEF Model!more, Model!Goes, Model!Bit, Model!Overflow
<1>7. CASE Model!Category(pc.m, pc.st)
  <2>1. BitsBin(pc, pc.st + Model!MagBins)
    BY <1>4, <1>5 DEF MoreOK, BitsBin
  <2> QED
    BY <1>3, <1>7, <2>1, CategoryOK DEF Moved
<1>8. CASE Model!BadCode
  BY <1>3, <1>8, BadCodeOK DEF Moved
<1>9. CASE /\ dec' = dec /\ 2 * pc.m # 2 ^ (Model!MagBins + 1)
           /\ pc' = [pc EXCEPT !.m = 2 * pc.m, !.st = pc.st + 1]
  <2>1. /\ DOMAIN pc' = PcFields /\ pc'.at = "more" /\ pc'.k = pc.k
        /\ pc'.sign = pc.sign /\ pc'.blkn = pc.blkn /\ pc'.m = 2 * pc.m
        /\ pc'.st = pc.st + 1
    BY <1>3, <1>9 DEF PcFields
  <2>2. ASSUME pc.k = 0 PROVE MoreOK(pc')
    <3>1. PICK i \in 0 .. Model!MagBins : pc.m = 2 ^ i /\ pc.st = 20 + i
      BY <1>4, <2>2 DEF MoreOK
    <3>2. i \in 0 .. 14
      BY <1>4
    <3>3. 2 ^ (i + 1) = 2 * 2 ^ i
      BY <3>2, Doubles
    <3>4. PICK j \in 0 .. Model!MagBins : j = i + 1
      <4>1. i # Model!MagBins
        BY <1>9, <3>1, <3>3
      <4> QED
        BY <1>4, <4>1
    <3>5. pc'.m = 2 ^ j /\ pc'.st = 20 + j
      BY <2>1, <3>1, <3>2, <3>3, <3>4
    <3> QED
      BY <2>1, <2>2, <3>5 DEF MoreOK
  <2>3. ASSUME pc.k # 0 PROVE MoreOK(pc')
    <3>1. PICK i \in 0 .. Model!MagBins - 1 :
            pc.m = 2 ^ (i + 1) /\ pc.st = Model!LargeX(pc.k) + i
      BY <1>4, <2>3 DEF MoreOK
    <3>2. i + 1 \in 0 .. 14
      BY <1>4
    <3>3. 2 ^ ((i + 1) + 1) = 2 * 2 ^ (i + 1)
      BY <3>2, Doubles
    <3>4. PICK j \in 0 .. Model!MagBins - 1 : j = i + 1
      <4>1. i + 1 # Model!MagBins
        BY <1>9, <3>1, <3>3
      <4> QED
        BY <1>4, <4>1
    <3>5. pc'.m = 2 ^ (j + 1) /\ pc'.st = Model!LargeX(pc'.k) + j
      BY <1>5, <2>1, <3>1, <3>2, <3>3, <3>4
    <3> QED
      BY <2>1, <2>3, <3>5 DEF MoreOK
  <2>4. MoreOK(pc')
    BY <2>2, <2>3
  <2>5. PcOK(pc', Model!Scan, Blocks)
    BY <1>3, <1>4, <2>1, <2>4, BinOK
  <2> QED
    BY <1>3, <1>9, <2>5 DEF Moved
<1> QED
  BY <1>6, <1>7, <1>8, <1>9

\* The bits of a magnitude all have the same bin.
LEMMA BitsStepOK == ASSUME ModelInv, Model!bits PROVE Moved
<1>1. Model!Decides({"bits"})
  BY DEF Model!bits
<1>2. {"bits"} \cap Idle = {}
  BY DEF Idle
<1>3. /\ pc.at = "bits" /\ pc.at \notin Idle /\ Keeps /\ DecOK(dec)
      /\ PcOK(pc, Model!Scan, Blocks) /\ DOMAIN pc = PcFields
  BY <1>1, <1>2, WaitsFacts, PcFacts
<1>4. BitsBin(pc, pc.st) /\ pc.sign \in {0, 1}
  BY <1>3 DEF PcOK
<1>5. PICK bit \in Model!Bit :
        IF pc.m = 1 THEN Model!Value(dec, pc.v + bit * pc.m)
        ELSE Model!Goes([pc EXCEPT !.v = pc.v + bit * pc.m, !.m = @ \div 2])
  BY DEF Model!bits
<1>6. CASE Model!Value(dec, pc.v + bit * pc.m)
  BY <1>3, <1>6, ValueOK DEF Moved
<1>7. CASE Model!Goes([pc EXCEPT !.v = pc.v + bit * pc.m, !.m = @ \div 2])
  <2>1. dec' = dec
        /\ pc' = [pc EXCEPT !.v = pc.v + bit * pc.m, !.m = @ \div 2]
    BY <1>7 DEF Model!Goes
  <2>2. /\ DOMAIN pc' = PcFields /\ pc'.at = "bits" /\ pc'.k = pc.k
        /\ pc'.sign = pc.sign /\ pc'.blkn = pc.blkn /\ pc'.st = pc.st
    BY <1>3, <2>1 DEF PcFields
  <2>3. BitsBin(pc', pc'.st)
    BY <1>4, <2>2 DEF BitsBin
  <2>4. PcOK(pc', Model!Scan, Blocks)
    BY <1>3, <1>4, <2>2, <2>3, BinOK
  <2> QED
    BY <1>3, <2>1, <2>4 DEF Moved
<1> QED
  BY <1>5, <1>6, <1>7

\* An AC scan: the end of the block, or a coefficient.
LEMMA EobOK == ASSUME ModelInv, Model!eob PROVE Moved
<1>1. Model!Decides({"eob"})
  BY DEF Model!eob
<1>2. {"eob"} \cap Idle = {}
  BY DEF Idle
<1>3. /\ pc.at = "eob" /\ pc.at \notin Idle /\ Keeps /\ DecOK(dec)
      /\ PcOK(pc, Model!Scan, Blocks) /\ DOMAIN pc = PcFields
  BY <1>1, <1>2, WaitsFacts, PcFacts
<1>4. /\ pc.k \in 0 .. Model!Scan.Se /\ Model!Scan.Se \in 0 .. 63
      /\ pc.sign \in {0, 1} /\ pc.k > 0
  BY <1>3, PcFacts DEF PcOK, AcPoints
<1>5. \/ dec' = dec /\ pc' = Model!Begin(mcu, pc.blkn + 1)
      \/ dec' = dec /\ pc' = [pc EXCEPT !.at = "nonzero"]
  BY DEF Model!eob, Model!Goes
<1>6. CASE dec' = dec /\ pc' = Model!Begin(mcu, pc.blkn + 1)
  BY <1>3, <1>6, NextBlockOK DEF Moved
<1>7. CASE dec' = dec /\ pc' = [pc EXCEPT !.at = "nonzero"]
  <2>1. /\ DOMAIN pc' = PcFields /\ pc'.at = "nonzero" /\ pc'.k = pc.k
        /\ pc'.sign = pc.sign /\ pc'.blkn = pc.blkn
    BY <1>3, <1>7 DEF PcFields
  <2>2. PcOK(pc', Model!Scan, Blocks)
    BY <1>3, <1>4, <2>1, PlainOK DEF AcPoints
  <2> QED
    BY <1>3, <1>7, <2>2 DEF Moved
<1> QED
  BY <1>5, <1>6, <1>7

\* A run of zeros ends, goes on, or overruns the block.
LEMMA NonzeroOK == ASSUME ModelInv, Model!nonzero PROVE Moved
<1>1. Model!Decides({"nonzero"})
  BY DEF Model!nonzero
<1>2. {"nonzero"} \cap Idle = {}
  BY DEF Idle
<1>3. /\ pc.at = "nonzero" /\ pc.at \notin Idle /\ Keeps /\ DecOK(dec)
      /\ PcOK(pc, Model!Scan, Blocks) /\ DOMAIN pc = PcFields
  BY <1>1, <1>2, WaitsFacts, PcFacts
<1>4. /\ pc.k \in 0 .. Model!Scan.Se /\ Model!Scan.Se \in 0 .. 63
      /\ pc.sign \in {0, 1} /\ pc.k > 0
  BY <1>3, PcFacts DEF PcOK, AcPoints
<1>5. \/ dec' = dec /\ pc' = [pc EXCEPT !.at = "ac_sign"]
      \/ /\ dec' = dec /\ pc.k < Model!Scan.Se
         /\ pc' = [pc EXCEPT !.k = pc.k + 1]
      \/ Model!BadCode
  <2>1. PICK bit \in {0, 1} :
          CASE bit = 1 -> Model!Goes([pc EXCEPT !.at = "ac_sign"])
            [] bit = 0 /\ pc.k >= Model!Scan.Se -> Model!BadCode
            [] bit = 0 /\ pc.k < Model!Scan.Se ->
                 Model!Goes([pc EXCEPT !.k = @ + 1])
    BY DEF Model!nonzero, Model!Bit
  <2>2. pc.k >= Model!Scan.Se \/ pc.k < Model!Scan.Se
    BY <1>4
  <2>3. CASE bit = 1
    BY <2>1, <2>3 DEF Model!Goes
  <2>4. CASE bit = 0 /\ pc.k >= Model!Scan.Se
    <3>1. ~(pc.k < Model!Scan.Se)
      BY <1>4, <2>4
    <3> QED
      BY <2>1, <2>4, <3>1
  <2>5. CASE bit = 0 /\ pc.k < Model!Scan.Se
    <3>1. ~(pc.k >= Model!Scan.Se)
      BY <1>4, <2>5
    <3> QED
      BY <2>1, <2>5, <3>1 DEF Model!Goes
  <2> QED
    BY <2>2, <2>3, <2>4, <2>5
<1>6. CASE dec' = dec /\ pc' = [pc EXCEPT !.at = "ac_sign"]
  <2>1. /\ DOMAIN pc' = PcFields /\ pc'.at = "ac_sign" /\ pc'.k = pc.k
        /\ pc'.sign = pc.sign /\ pc'.blkn = pc.blkn
    BY <1>3, <1>6 DEF PcFields
  <2>2. PcOK(pc', Model!Scan, Blocks)
    BY <1>3, <1>4, <2>1, PlainOK DEF AcPoints
  <2> QED
    BY <1>3, <1>6, <2>2 DEF Moved
<1>7. CASE /\ dec' = dec /\ pc.k < Model!Scan.Se
           /\ pc' = [pc EXCEPT !.k = pc.k + 1]
  <2>1. /\ DOMAIN pc' = PcFields /\ pc'.at = "nonzero" /\ pc'.k = pc.k + 1
        /\ pc'.sign = pc.sign /\ pc'.blkn = pc.blkn
    BY <1>3, <1>7 DEF PcFields
  <2>2. pc.k + 1 \in 0 .. Model!Scan.Se /\ pc.k + 1 > 0
    BY <1>4, <1>7
  <2>3. PcOK(pc', Model!Scan, Blocks)
    BY <1>3, <1>4, <2>1, <2>2, PlainOK DEF AcPoints
  <2> QED
    BY <1>3, <1>7, <2>3 DEF Moved
<1>8. CASE Model!BadCode
  BY <1>3, <1>8, BadCodeOK DEF Moved
<1> QED
  BY <1>5, <1>6, <1>7, <1>8

LEMMA AcSignOK == ASSUME ModelInv, Model!ac_sign PROVE Moved
<1>1. Model!Decides({"ac_sign"})
  BY DEF Model!ac_sign
<1>2. {"ac_sign"} \cap Idle = {}
  BY DEF Idle
<1>3. /\ pc.at = "ac_sign" /\ pc.at \notin Idle /\ Keeps /\ DecOK(dec)
      /\ PcOK(pc, Model!Scan, Blocks) /\ DOMAIN pc = PcFields
  BY <1>1, <1>2, WaitsFacts, PcFacts
<1>4. /\ pc.k \in 0 .. Model!Scan.Se /\ Model!Scan.Se \in 0 .. 63
      /\ pc.sign \in {0, 1} /\ pc.k > 0
  BY <1>3, PcFacts DEF PcOK, AcPoints
<1>5. PICK bit \in {0, 1} :
        /\ dec' = dec
        /\ pc' = [pc EXCEPT !.at = "category", !.sign = bit,
                            !.st = 3 * (pc.k - 1) + 2]
  BY DEF Model!ac_sign, Model!Goes, Model!Bit
<1>6. /\ DOMAIN pc' = PcFields /\ pc'.at = "category" /\ pc'.k = pc.k
      /\ pc'.sign = bit /\ pc'.blkn = pc.blkn
      /\ pc'.st = 3 * (pc.k - 1) + 2
  BY <1>3, <1>5 DEF PcFields
<1>7. CategoryBin(pc')
  BY <1>4, <1>6 DEF CategoryBin
<1>8. PcOK(pc', Model!Scan, Blocks)
  BY <1>3, <1>6, <1>7, BinOK
<1> QED
  BY <1>3, <1>5, <1>8 DEF Moved

LEMMA DcBitOK == ASSUME ModelInv, Model!dc_bit PROVE Moved
<1>1. Model!Decides({"dc_bit"})
  BY DEF Model!dc_bit
<1>2. {"dc_bit"} \cap Idle = {}
  BY DEF Idle
<1>3. /\ pc.at = "dc_bit" /\ pc.at \notin Idle /\ Keeps /\ DecOK(dec)
      /\ PcOK(pc, Model!Scan, Blocks) /\ DOMAIN pc = PcFields
  BY <1>1, <1>2, WaitsFacts, PcFacts
<1>4. /\ pc.k \in 0 .. Model!Scan.Se /\ Model!Scan.Se \in 0 .. 63
      /\ pc.sign \in {0, 1}
  BY <1>3, PcFacts DEF PcOK
<1>5. dec' = dec /\ pc' = Model!Begin(mcu, pc.blkn + 1)
  BY DEF Model!dc_bit
<1> QED
  BY <1>3, <1>5, NextBlockOK DEF Moved

\* A refinement scan: the end of the block, or a coefficient.
LEMMA EobXOK == ASSUME ModelInv, Model!eob_x PROVE Moved
<1>1. Model!Decides({"eob_x"})
  BY DEF Model!eob_x
<1>2. {"eob_x"} \cap Idle = {}
  BY DEF Idle
<1>3. /\ pc.at = "eob_x" /\ pc.at \notin Idle /\ Keeps /\ DecOK(dec)
      /\ PcOK(pc, Model!Scan, Blocks) /\ DOMAIN pc = PcFields
  BY <1>1, <1>2, WaitsFacts, PcFacts
<1>4. /\ pc.k \in 0 .. Model!Scan.Se /\ Model!Scan.Se \in 0 .. 63
      /\ pc.sign \in {0, 1} /\ pc.k > 0
  BY <1>3, PcFacts DEF PcOK, AcPoints
<1>5. \/ dec' = dec /\ pc' = Model!Begin(mcu, pc.blkn + 1)
      \/ dec' = dec /\ pc' = [pc EXCEPT !.at = "old"]
      \/ dec' = dec /\ pc' = [pc EXCEPT !.at = "new"]
  BY DEF Model!eob_x, Model!Goes
<1>6. CASE dec' = dec /\ pc' = Model!Begin(mcu, pc.blkn + 1)
  BY <1>3, <1>6, NextBlockOK DEF Moved
<1>7. CASE dec' = dec /\ pc' = [pc EXCEPT !.at = "old"]
  <2>1. /\ DOMAIN pc' = PcFields /\ pc'.at = "old" /\ pc'.k = pc.k
        /\ pc'.sign = pc.sign /\ pc'.blkn = pc.blkn
    BY <1>3, <1>7 DEF PcFields
  <2>2. PcOK(pc', Model!Scan, Blocks)
    BY <1>3, <1>4, <2>1, PlainOK DEF AcPoints
  <2> QED
    BY <1>3, <1>7, <2>2 DEF Moved
<1>8. CASE dec' = dec /\ pc' = [pc EXCEPT !.at = "new"]
  <2>1. /\ DOMAIN pc' = PcFields /\ pc'.at = "new" /\ pc'.k = pc.k
        /\ pc'.sign = pc.sign /\ pc'.blkn = pc.blkn
    BY <1>3, <1>8 DEF PcFields
  <2>2. PcOK(pc', Model!Scan, Blocks)
    BY <1>3, <1>4, <2>1, PlainOK DEF AcPoints
  <2> QED
    BY <1>3, <1>8, <2>2 DEF Moved
<1> QED
  BY <1>5, <1>6, <1>7, <1>8

\* The coefficient has its value: on to the next one, or block.
LEMMA RefinedOK ==
    ASSUME ModelInv, pc.at \in {"old", "new_sign"}, NEW value,
           Model!Refined(value)
    PROVE  DecOK(dec') /\ PcOK(pc', Model!Scan, Blocks)
<1>1. /\ pc.at \notin Idle /\ PcOK(pc, Model!Scan, Blocks)
      /\ DOMAIN pc = PcFields /\ DecOK(dec)
  BY PcFacts DEF Idle, ModelInv
<1>2. /\ pc.k \in 0 .. Model!Scan.Se /\ Model!Scan.Se \in 0 .. 63
      /\ pc.sign \in {0, 1} /\ pc.k > 0
  BY <1>1, PcFacts DEF PcOK, AcPoints
<1>3. dec' = dec
  BY DEF Model!Refined
<1>4. CASE ~(pc.k < Model!Scan.Se)
  <2>1. pc' = Model!Begin(mcu, pc.blkn + 1)
    BY <1>4 DEF Model!Refined
  <2> QED
    BY <1>1, <1>3, <2>1, NextBlockOK
<1>5. CASE pc.k < Model!Scan.Se
  <2> DEFINE q == [pc EXCEPT !.k = pc.k + 1]
  <2>1. \E known : pc' = Model!RefineAt(q, Model!Place, known)
    BY <1>5 DEF Model!Refined
  <2>2. DOMAIN q = PcFields /\ q.k = pc.k + 1 /\ q.sign = pc.sign
        /\ q.blkn = pc.blkn
    BY <1>1 DEF PcFields
  <2> HIDE DEF q
  <2>3. \E at \in {"eob_x", "old", "new"} : pc' = [q EXCEPT !.at = at]
    BY <2>1 DEF Model!RefineAt
  <2>4. /\ DOMAIN pc' = PcFields /\ pc'.at \in {"eob_x", "old", "new"}
        /\ pc'.k = pc.k + 1 /\ pc'.sign = pc.sign /\ pc'.blkn = pc.blkn
    BY <2>2, <2>3 DEF PcFields
  <2>5. pc.k + 1 \in 0 .. Model!Scan.Se /\ pc.k + 1 > 0
    BY <1>2, <1>5
  <2>6. PcOK(pc', Model!Scan, Blocks)
    BY <1>1, <1>2, <2>4, <2>5, PlainOK DEF AcPoints
  <2> QED
    BY <1>1, <1>3, <2>6
<1> QED
  BY <1>4, <1>5

LEMMA OldOK == ASSUME ModelInv, Model!old PROVE Moved
<1>1. Model!Decides({"old"})
  BY DEF Model!old
<1>2. {"old"} \cap Idle = {}
  BY DEF Idle
<1>3. /\ pc.at = "old" /\ pc.at \notin Idle /\ Keeps /\ DecOK(dec)
      /\ PcOK(pc, Model!Scan, Blocks) /\ DOMAIN pc = PcFields
  BY <1>1, <1>2, WaitsFacts, PcFacts
<1>4. /\ pc.k \in 0 .. Model!Scan.Se /\ Model!Scan.Se \in 0 .. 63
      /\ pc.sign \in {0, 1} /\ pc.k > 0
  BY <1>3, PcFacts DEF PcOK, AcPoints
<1>5. \E value : Model!Refined(value)
  BY DEF Model!old
<1> QED
  BY <1>3, <1>5, RefinedOK DEF Moved

LEMMA NewSignOK == ASSUME ModelInv, Model!new_sign PROVE Moved
<1>1. Model!Decides({"new_sign"})
  BY DEF Model!new_sign
<1>2. {"new_sign"} \cap Idle = {}
  BY DEF Idle
<1>3. /\ pc.at = "new_sign" /\ pc.at \notin Idle /\ Keeps /\ DecOK(dec)
      /\ PcOK(pc, Model!Scan, Blocks) /\ DOMAIN pc = PcFields
  BY <1>1, <1>2, WaitsFacts, PcFacts
<1>4. /\ pc.k \in 0 .. Model!Scan.Se /\ Model!Scan.Se \in 0 .. 63
      /\ pc.sign \in {0, 1} /\ pc.k > 0
  BY <1>3, PcFacts DEF PcOK, AcPoints
<1>5. \E value : Model!Refined(value)
  BY DEF Model!new_sign
<1> QED
  BY <1>3, <1>5, RefinedOK DEF Moved

LEMMA NewOK == ASSUME ModelInv, Model!new PROVE Moved
<1>1. Model!Decides({"new"})
  BY DEF Model!new
<1>2. {"new"} \cap Idle = {}
  BY DEF Idle
<1>3. /\ pc.at = "new" /\ pc.at \notin Idle /\ Keeps /\ DecOK(dec)
      /\ PcOK(pc, Model!Scan, Blocks) /\ DOMAIN pc = PcFields
  BY <1>1, <1>2, WaitsFacts, PcFacts
<1>4. /\ pc.k \in 0 .. Model!Scan.Se /\ Model!Scan.Se \in 0 .. 63
      /\ pc.sign \in {0, 1} /\ pc.k > 0
  BY <1>3, PcFacts DEF PcOK, AcPoints
<1>5. \/ dec' = dec /\ pc' = [pc EXCEPT !.at = "new_sign"]
      \/ /\ dec' = dec /\ pc.k < Model!Scan.Se
         /\ \E at \in {"old", "new"} :
              pc' = [pc EXCEPT !.k = pc.k + 1, !.at = at]
      \/ Model!BadCode
  <2> DEFINE at == IF coefs[Model!Place][pc.k + 1] # 0 THEN "old" ELSE "new"
  <2>1. PICK bit \in {0, 1} :
          CASE bit = 1 -> Model!Goes([pc EXCEPT !.at = "new_sign"])
            [] bit = 0 /\ pc.k >= Model!Scan.Se -> Model!BadCode
            [] bit = 0 /\ pc.k < Model!Scan.Se ->
                 Model!Goes([pc EXCEPT !.k = @ + 1, !.at = at])
    BY DEF Model!new, Model!Bit
  <2>2. pc.k >= Model!Scan.Se \/ pc.k < Model!Scan.Se
    BY <1>4
  <2>3. CASE bit = 1
    BY <2>1, <2>3 DEF Model!Goes
  <2>4. CASE bit = 0 /\ pc.k >= Model!Scan.Se
    <3>1. ~(pc.k < Model!Scan.Se)
      BY <1>4, <2>4
    <3> QED
      BY <2>1, <2>4, <3>1
  <2>5. CASE bit = 0 /\ pc.k < Model!Scan.Se
    <3>1. ~(pc.k >= Model!Scan.Se)
      BY <1>4, <2>5
    <3>2. at \in {"old", "new"}
      OBVIOUS
    <3> HIDE DEF at
    <3> QED
      BY <2>1, <2>5, <3>1, <3>2 DEF Model!Goes
  <2> QED
    BY <2>2, <2>3, <2>4, <2>5
<1>6. CASE dec' = dec /\ pc' = [pc EXCEPT !.at = "new_sign"]
  <2>1. /\ DOMAIN pc' = PcFields /\ pc'.at = "new_sign" /\ pc'.k = pc.k
        /\ pc'.sign = pc.sign /\ pc'.blkn = pc.blkn
    BY <1>3, <1>6 DEF PcFields
  <2>2. PcOK(pc', Model!Scan, Blocks)
    BY <1>3, <1>4, <2>1, PlainOK DEF AcPoints
  <2> QED
    BY <1>3, <1>6, <2>2 DEF Moved
<1>7. CASE /\ dec' = dec /\ pc.k < Model!Scan.Se
           /\ \E at \in {"old", "new"} :
                pc' = [pc EXCEPT !.k = pc.k + 1, !.at = at]
  <2>1. /\ DOMAIN pc' = PcFields /\ pc'.at \in {"old", "new"}
        /\ pc'.k = pc.k + 1 /\ pc'.sign = pc.sign /\ pc'.blkn = pc.blkn
    BY <1>3, <1>7 DEF PcFields
  <2>2. pc.k + 1 \in 0 .. Model!Scan.Se /\ pc.k + 1 > 0
    BY <1>4, <1>7
  <2>3. PcOK(pc', Model!Scan, Blocks)
    BY <1>3, <1>4, <2>1, <2>2, PlainOK DEF AcPoints
  <2> QED
    BY <1>3, <1>7, <2>3 DEF Moved
<1>8. CASE Model!BadCode
  BY <1>3, <1>8, BadCodeOK DEF Moved
<1> QED
  BY <1>5, <1>6, <1>7, <1>8

\* The decoder begins the MCU again after the marker.
LEMMA RestartOK == ASSUME ModelInv, Model!process_restart PROVE Moved
<1>1. pc.at = "restart" /\ Keeps
  BY DEF Model!process_restart, Keeps, Model!job
<1>2. JobOK /\ mcu \in Nat /\ mcu > 0 /\ DecOK(dec)
  BY <1>1 DEF ModelInv
<1>3. PcOK(Model!Begin(mcu, 1), Model!Scan, Blocks)
  BY <1>2, BeginOK DEF Blocks
<1>4. DecOK(dec')
  <2> DEFINE zeros == [c \in Model!Comps |-> 0]
  <2>1. \/ dec' = dec
        \/ dec' = [dec EXCEPT !.last_dc_val = zeros, !.dc_context = zeros]
    BY DEF Model!process_restart, Model!Restarted, Model!Reset
  <2>2. zeros \in [Model!Comps -> Contexts]
    BY DEF Contexts
  <2> HIDE DEF zeros
  <2>3. CASE dec' = [dec EXCEPT !.last_dc_val = zeros, !.dc_context = zeros]
    <3>1. DOMAIN dec' = DOMAIN dec /\ dec'.dc_context = zeros
      BY <1>2, <2>3 DEF DecOK
    <3> QED
      BY <1>2, <2>2, <3>1 DEF DecOK
  <2> QED
    BY <1>2, <2>1, <2>3
<1> QED
  BY <1>1, <1>3, <1>4 DEF Moved, Model!process_restart

LEMMA NextMcuOK == ASSUME ModelInv, Model!NextMcu PROVE ModelInv'
<1> DEFINE n == mcu + 1
<1>1. /\ pc.at \in {"done", "bad"} /\ mcu' = n
      /\ setup' = setup /\ script' = script /\ scan' = scan
  BY DEF Model!NextMcu, Model!job
<1>2. JobOK /\ mcu \in Nat /\ DecOK(dec) /\ PcOK(pc, Model!Scan, Blocks)
  BY DEF ModelInv
<1>3. JobOK'
  BY <1>1, <1>2 DEF JobOK
<1>4. n \in Nat /\ n > 0
  BY <1>2
<1>5. /\ Model!Scan' = Model!Scan /\ Model!Comps' = Model!Comps
      /\ Model!MagBins' = Model!MagBins
      /\ \A k : Model!LargeX(k)' = Model!LargeX(k)
  BY <1>1 DEF Model!Scan, Model!Comps, Model!DcTbl, Model!MagBins,
              Model!LargeX, Model!Kx
<1>6. Blocks' = Len(Model!BlocksOf(n))
  <2>1. Model!Membership' = Model!Membership
    BY <1>1 DEF Model!Membership
  <2>2. Model!Own' = Model!Own
    BY <1>5, <2>1 DEF Model!Own
  <2>3. Model!FirstOwn' = Model!FirstOwn /\ Model!LastOwn' = Model!LastOwn
    BY <2>2 DEF Model!FirstOwn, Model!LastOwn
  <2>4. Model!OwnCount' = Model!OwnCount
    BY <2>3 DEF Model!OwnCount
  <2> QED
    BY <1>1, <1>5, <2>1, <2>3, <2>4 DEF Blocks, Model!BlocksOf
<1>7. DecOK(dec')
  <2>1. \E x : dec' = [dec EXCEPT !.restarts_to_go = x]
    BY DEF Model!NextMcu
  <2> QED
    BY <1>2, <2>1 DEF DecOK
<1>8. PcOK(pc', Model!Scan, Len(Model!BlocksOf(n)))
  <2> DEFINE q == [Model!NoPc EXCEPT !.at = "restart"]
             sc == Model!Scan
             blocks == Len(Model!BlocksOf(n))
  <2>1. \/ pc' = q
        \/ pc.at = "bad" /\ pc' = pc
        \/ pc' = Model!Begin(n, 1)
    BY DEF Model!NextMcu
  <2>2. CASE pc' = q
    <3>1. DOMAIN q = PcFields /\ q.at = "restart" /\ q.k = 0 /\ q.sign = 0
      BY DEF Model!NoPc, PcFields
    <3>2. 0 \in 0 .. sc.Se
      BY PcFacts
    <3> HIDE DEF q, sc, blocks
    <3>3. PcOK(q, sc, blocks)
      BY <3>1, <3>2 DEF PcOK, DcPoints, AcPoints, BothPoints, Idle
    <3> QED
      BY <2>2, <3>3 DEF sc, blocks
  <2>3. CASE pc.at = "bad" /\ pc' = pc
    BY <1>2, <2>3 DEF PcOK, DcPoints, AcPoints, BothPoints, Idle
  <2>4. CASE pc' = Model!Begin(n, 1)
    <3> HIDE DEF n
    <3> QED
      BY <1>2, <1>4, <2>4, BeginOK
  <2> QED
    BY <2>1, <2>2, <2>3, <2>4
<1>9. DecOK(dec)' /\ PcOK(pc, Model!Scan, Blocks)'
  BY <1>5, <1>6, <1>7, <1>8 DEF DecOK, PcOK, CategoryBin, MoreOK, BitsBin
<1> QED
  BY <1>1, <1>3, <1>4, <1>9 DEF ModelInv

LEMMA NextScanOK == ASSUME ModelInv, Model!NextScan PROVE ModelInv'
<1>1. /\ pc.at = "done" /\ mcu' = 0 /\ scan' = scan + 1 /\ pc' = pc
      /\ scan < Len(script) /\ setup' = setup /\ script' = script
  BY DEF Model!NextScan, Model!job
<1>2. JobOK /\ PcOK(pc, Model!Scan, Blocks)
  BY DEF ModelInv
<1>3. JobOK'
  BY <1>1, <1>2 DEF JobOK
<1>4. dec' = [last_dc_val |-> [c \in Model!Comps |-> 0],
              dc_context |-> [c \in Model!Comps |-> 0],
              restarts_to_go |-> interval]
  BY DEF Model!NextScan
<1>5. Model!Comps' = Model!Comps
  BY <1>1 DEF Model!Comps, Model!DcTbl
<1>6. DecOK(dec)'
  BY <1>4, <1>5 DEF DecOK, Contexts
<1>7. /\ DOMAIN pc = PcFields /\ pc.k = 0 /\ pc.sign \in {0, 1}
  BY <1>1, <1>2 DEF PcOK, Idle
<1>8. 0 \in 0 .. Model!Scan'.Se
  <2>1. Model!ScanOK(script[scan + 1], setup) /\ setup.limSe \in 1 .. 63
    BY <1>1, <1>2 DEF JobOK, Model!SetupOK
  <2>2. script[scan + 1].Se \in Nat
    BY <2>1 DEF Model!ScanOK
  <2>3. Model!Scan' = script[scan + 1]
    BY <1>1 DEF Model!Scan
  <2> QED
    BY <2>2, <2>3
<1>9. PcOK(pc, Model!Scan, Blocks)'
  BY <1>1, <1>7, <1>8 DEF PcOK, DcPoints, AcPoints, BothPoints, Idle
<1> QED
  BY <1>1, <1>3, <1>6, <1>9 DEF ModelInv

LEMMA SameOK ==
    ASSUME ModelInv, Keeps, UNCHANGED <<pc, dec>> PROVE ModelInv'
<1>1. JobOK'
  BY DEF ModelInv, JobOK, Keeps
<1>2. mcu' = mcu /\ pc' = pc /\ dec' = dec
  BY DEF Keeps
<1> QED
  BY <1>1, <1>2, KeepsBlocks
  DEF ModelInv, DecOK, PcOK, CategoryBin, MoreOK, BitsBin

\* No step takes the decoder out of its statistics areas.
LEMMA StepModelInv == ModelInv /\ [Model!Next]_(Model!vars) => ModelInv'
<1> SUFFICES ASSUME ModelInv, [Model!Next]_(Model!vars) PROVE ModelInv'
  OBVIOUS
<1>1. ASSUME Moved, pc.at \notin {"done", "bad"} PROVE ModelInv'
  BY <1>1, MovedOK DEF ModelInv
<1>2. CASE Model!NextMcu
  BY <1>2, NextMcuOK
<1>3. CASE Model!NextScan
  BY <1>3, NextScanOK
<1>4. CASE Model!Damage
  BY <1>4, SameOK DEF Model!Damage, Keeps, Model!job
<1>5. CASE Model!process_restart
  BY <1>1, <1>5, RestartOK DEF Model!process_restart
<1>6. CASE Model!dc_zero
  BY <1>1, <1>6, DcZeroOK DEF Model!dc_zero, Model!Decides
<1>7. CASE Model!dc_sign
  BY <1>1, <1>7, DcSignOK DEF Model!dc_sign, Model!Decides
<1>8. CASE Model!category
  BY <1>1, <1>8, CategoryStepOK DEF Model!category, Model!Decides
<1>9. CASE Model!category2
  BY <1>1, <1>9, Category2OK DEF Model!category2, Model!Decides
<1>10. CASE Model!more
  BY <1>1, <1>10, MoreStepOK DEF Model!more, Model!Decides
<1>11. CASE Model!bits
  BY <1>1, <1>11, BitsStepOK DEF Model!bits, Model!Decides
<1>12. CASE Model!eob
  BY <1>1, <1>12, EobOK DEF Model!eob, Model!Decides
<1>13. CASE Model!nonzero
  BY <1>1, <1>13, NonzeroOK DEF Model!nonzero, Model!Decides
<1>14. CASE Model!ac_sign
  BY <1>1, <1>14, AcSignOK DEF Model!ac_sign, Model!Decides
<1>15. CASE Model!dc_bit
  BY <1>1, <1>15, DcBitOK DEF Model!dc_bit, Model!Decides
<1>16. CASE Model!eob_x
  BY <1>1, <1>16, EobXOK DEF Model!eob_x, Model!Decides
<1>17. CASE Model!old
  BY <1>1, <1>17, OldOK DEF Model!old, Model!Decides
<1>18. CASE Model!new
  BY <1>1, <1>18, NewOK DEF Model!new, Model!Decides
<1>19. CASE Model!new_sign
  BY <1>1, <1>19, NewSignOK DEF Model!new_sign, Model!Decides
<1>20. CASE UNCHANGED Model!vars
  BY <1>20, SameOK DEF Model!vars, Keeps, Model!job
<1> QED
  BY <1>2, <1>3, <1>4, <1>5, <1>6, <1>7, <1>8, <1>9, <1>10, <1>11, <1>12,
     <1>13, <1>14, <1>15, <1>16, <1>17, <1>18, <1>19, <1>20 DEF Model!Next

LEMMA InitModelInv == Model!Init => ModelInv
<1> SUFFICES ASSUME Model!Init PROVE ModelInv
  OBVIOUS
<1>1. PICK j \in Jobs : setup = j.setup /\ script = j.script
  BY DEF Model!Init
<1>2. scan = 1 /\ mcu = 0 /\ pc = Model!NoPc
  BY DEF Model!Init
<1>3. JobOK
  <2>1. /\ Model!SetupOK(setup) /\ script \in Seq(Model!Range(script))
        /\ Len(script) > 0
        /\ \A i \in DOMAIN script : Model!ScanOK(script[i], setup)
    BY <1>1, CoefficientAssumptions DEF Model!ModelAssumption
  <2> QED
    BY <1>2, <2>1 DEF JobOK
<1>4. dec = [last_dc_val |-> [c \in Model!Comps |-> 0],
             dc_context |-> [c \in Model!Comps |-> 0],
             restarts_to_go |-> interval]
  BY DEF Model!Init
<1>5. DecOK(dec)
  BY <1>4 DEF DecOK, Contexts
<1>6. PcOK(pc, Model!Scan, Blocks)
  <2>1. 0 \in 0 .. Model!Scan.Se
    BY <1>3, ScanFacts
  <2>2. DOMAIN pc = PcFields /\ pc.at = "done" /\ pc.k = 0 /\ pc.sign = 0
    BY <1>2 DEF Model!NoPc, PcFields
  <2> QED
    BY <2>1, <2>2 DEF PcOK, DcPoints, AcPoints, BothPoints, Idle
<1>7. pc.at = "done"
  BY <1>2 DEF Model!NoPc
<1> QED
  BY <1>2, <1>3, <1>5, <1>6, <1>7 DEF ModelInv

\* Every bin that is asked for is one of the areas.
LEMMA AsksOK == ModelInv => Model!BinsInRange
<1> SUFFICES ASSUME ModelInv PROVE Model!BinsInRange
  OBVIOUS
<1>1. PcOK(pc, Model!Scan, Blocks) /\ DecOK(dec)
  BY DEF ModelInv
<1>2. /\ pc.k \in 0 .. Model!Scan.Se /\ Model!Scan.Se \in 0 .. 63
      /\ Model!MagBins \in 1 .. 14
      /\ pc.at \notin Idle =>
           pc.blkn \in 1 .. Blocks /\ Model!Ci \in Model!Comps
  BY PcFacts
<1>3. pc.k \in 0 .. 63
  BY <1>2
<1> DEFINE right ==
      CASE Model!Ask[1] = "dc" -> Model!Ask[3] \in 0 .. 20 + 2 * Model!MagBins
        [] Model!Ask[1] = "ac" ->
             Model!Ask[3] \in 0 .. (189 + 4 * Model!MagBins) - 1
        [] OTHER -> TRUE
      context == dec.dc_context[Model!Ci]
<1>4. ASSUME NEW st, Model!Ask = Model!Dc(Model!Ci, st),
             st \in 0 .. 20 + 2 * Model!MagBins
      PROVE  right
  BY <1>4 DEF Model!Dc
<1>5. ASSUME NEW st, Model!Ask = Model!Ac(Model!Ci, st),
             st \in 0 .. (189 + 4 * Model!MagBins) - 1
      PROVE  right
  BY <1>5 DEF Model!Ac
<1>6. ASSUME Model!Ask \in {Model!Restart, Model!Fixed} PROVE right
  BY <1>6 DEF Model!Restart, Model!Fixed
<1> HIDE DEF right
<1>7. ASSUME pc.at \notin {"done", "bad"} PROVE right
  <2>1. CASE pc.at \in {"restart", "ac_sign", "dc_bit", "new_sign"}
    <3>1. Model!Ask \in {Model!Restart, Model!Fixed}
      BY <2>1 DEF Model!Ask
    <3> QED
      BY <1>6, <3>1
  <2>2. CASE pc.at \in {"dc_zero", "dc_sign"}
    <3>1. context \in Contexts
      BY <1>1, <1>2, <2>2 DEF DecOK, Idle
    <3>2. context \in 0 .. 16
      BY <3>1 DEF Contexts
    <3> HIDE DEF context
    <3>3. /\ context \in 0 .. 20 + 2 * Model!MagBins
          /\ context + 1 \in 0 .. 20 + 2 * Model!MagBins
      BY <1>2, <3>2
    <3>4. \/ Model!Ask = Model!Dc(Model!Ci, context)
          \/ Model!Ask = Model!Dc(Model!Ci, context + 1)
      BY <2>2 DEF Model!Ask, context
    <3> QED
      BY <1>4, <3>3, <3>4
  <2>3. CASE pc.at \in {"eob", "eob_x", "nonzero", "new", "old"}
    <3>1. pc.k > 0
      BY <1>1, <2>3 DEF PcOK, AcPoints
    <3>2. \E x \in 0 .. 2 : Model!Ask = Model!Ac(Model!Ci, 3 * (pc.k - 1) + x)
      <4>1. 3 * (pc.k - 1) = 3 * (pc.k - 1) + 0
        BY <1>3
      <4> QED
        BY <2>3, <4>1 DEF Model!Ask
    <3>3. \A x \in 0 .. 2 : 3 * (pc.k - 1) + x
                              \in 0 .. (189 + 4 * Model!MagBins) - 1
      BY <1>2, <1>3, <3>1
    <3> QED
      BY <1>5, <3>2, <3>3
  <2>4. CASE pc.at \in {"category", "category2", "more", "bits"}
    <3>1. Model!Ask = IF pc.k = 0 THEN Model!Dc(Model!Ci, pc.st)
                      ELSE Model!Ac(Model!Ci, pc.st)
      BY <2>4 DEF Model!Ask, Model!AtDc
    <3>2. BitsBin(pc, pc.st)
      <4>1. CASE pc.at = "category"
        BY <1>1, <1>2, <1>3, <4>1 DEF PcOK, CategoryBin, BitsBin
      <4>2. CASE pc.at = "category2"
        <5>1. pc.k > 0 /\ pc.st = 3 * (pc.k - 1) + 2
          BY <1>1, <4>2 DEF PcOK, AcPoints
        <5> QED
          BY <1>2, <1>3, <5>1 DEF BitsBin
      <4>3. CASE pc.at = "more"
        <5>1. MoreOK(pc)
          BY <1>1, <4>3 DEF PcOK
        <5>2. Model!LargeX(pc.k) \in 189 .. 189 + 2 * Model!MagBins
          BY <1>2 DEF Model!LargeX
        <5> QED
          BY <1>2, <1>3, <5>1, <5>2 DEF MoreOK, BitsBin
      <4>4. CASE pc.at = "bits"
        BY <1>1, <4>4 DEF PcOK
      <4> QED
        BY <2>4, <4>1, <4>2, <4>3, <4>4
    <3> QED
      BY <1>4, <1>5, <3>1, <3>2 DEF BitsBin
  <2>5. \/ pc.at \in {"restart", "ac_sign", "dc_bit", "new_sign"}
        \/ pc.at \in {"dc_zero", "dc_sign"}
        \/ pc.at \in {"eob", "eob_x", "nonzero", "new", "old"}
        \/ pc.at \in {"category", "category2", "more", "bits"}
    BY <1>1, <1>7 DEF PcOK, DcPoints, AcPoints, BothPoints, Idle
  <2> QED
    BY <2>1, <2>2, <2>3, <2>4, <2>5
<1> QED
  BY <1>2, <1>7 DEF Model!BinsInRange, right, Model!FirstX, Blocks, Idle

\* Whatever the data, decoding keeps to the statistics areas and to the
\* coefficients of its blocks.
THEOREM BinsStayInRange == Model!Spec => []Model!BinsInRange
  BY InitModelInv, StepModelInv, AsksOK, PTL DEF Model!Spec

LEMMA StepOfModel ==
    [Next]_vars /\ part = "model" =>
        [Model!Next]_(Model!vars) /\ (part = "model")'
BY DEF Next, vars, modelVars, arithVars, Model!vars, Model!job

\* In a behaviour of Coefficients the arithmetic decoder keeps to its
\* statistics areas.
THEOREM KeepsToItsBins == Spec => []DecoderKeepsToItsBins
<1> DEFINE Inv == part = "model" => ModelInv
<1>1. Init => Inv
  BY InitModelInv DEF Init
<1>2. Inv /\ [Next]_vars => Inv'
  <2>1. [Next]_vars /\ part # "model" => (part # "model")'
    BY DEF Next, vars
  <2> QED
    BY <2>1, StepOfModel, StepModelInv
<1>3. Inv => DecoderKeepsToItsBins
  BY AsksOK DEF DecoderKeepsToItsBins
<1> QED
  BY <1>1, <1>2, <1>3, PTL DEF Spec
=============================================================================
