------------------------- MODULE ForwardDctManager -------------------------
(***************************************************************************)
(* The forward DCT manager of libjpeg (jcdctmgr.c): start_pass_fdctmgr     *)
(* walks the components, picks a DCT routine for each and computes the     *)
(* divisors of its quantization table; forward_DCT then divides the        *)
(* coefficients of every block by them.  The divisors belong to the        *)
(* quantization table and not to the component: components that name the   *)
(* same table share them.                                                  *)
(*                                                                         *)
(* A block is represented by one coefficient, at one position, given as    *)
(* eight times its true value; the routine returns it scaled the way its   *)
(* method scales it.  The decoder's side is InverseDctManager, over the    *)
(* same tables.                                                            *)
(***************************************************************************)
EXTENDS DctTables

CONSTANTS
  N,          \* the number of components
  Tables,     \* the quantization table slots
  Quants,     \* the values a quantization table may hold
  Sizes,      \* the sizes a component's blocks may have
  Values      \* coefficients, in eighths

SizesAssumption == \A size \in Sizes : Supported(size)
ValuesAssumption == /\ Quants \subseteq Nat \ {0} /\ Values \subseteq Int
                    /\ N \in Nat

VARIABLES
  dct_method,      \* cinfo->dct_method
  size,            \* the DCT size of every component
  quant_tbl_no,    \* the table of every component
  quant_tbl_ptrs,  \* the tables, 0 when NULL
  ci,              \* the component start_pass_fdctmgr is at, N + 1 when done
  divisors,        \* the integer divisors of a table, Null before
  float_divisors,  \* the same for the float routine
  do_dct,          \* the method of each component's routine
  error,           \* start_pass_fdctmgr has left through ERREXIT
  out              \* the last coefficient quantized

setup == <<dct_method, size, quant_tbl_no, quant_tbl_ptrs>>
vars == <<setup, ci, divisors, float_divisors, do_dct, error, out>>

Comps == 1..N
Null == [p \in Positions |-> 0]
None == [c |-> 0, p |-> 0, v |-> 0, k |-> 0]

MethodOf(c) == MethodFor(size[c], dct_method)

TypeOK ==
  /\ dct_method \in Methods
  /\ size \in [Comps -> Sizes]
  /\ quant_tbl_no \in [Comps -> Tables]
  /\ quant_tbl_ptrs \in [Tables -> Quants \cup {0}]
  /\ ci \in 1..(N + 1)
  /\ \A t \in Tables : /\ DOMAIN divisors[t] = Positions
                       /\ DOMAIN float_divisors[t] = Positions
  /\ do_dct \in [Comps -> Methods \cup {"-"}]
  /\ error \in BOOLEAN
  /\ out.c \in 0..N

Init ==
  /\ dct_method \in Methods
  /\ size \in [Comps -> Sizes]
  /\ quant_tbl_no \in [Comps -> Tables]
  /\ quant_tbl_ptrs \in [Tables -> Quants \cup {0}]
  /\ ci = 1
  /\ divisors = [t \in Tables |-> Null]
  /\ float_divisors = [t \in Tables |-> Null]
  /\ do_dct = [c \in Comps |-> "-"]
  /\ error = FALSE
  /\ out = None

\* A slip: the loop runs without the check for a missing table.
StartUnchecked ==
  /\ ci <= N
  /\ LET method == MethodOf(ci)
         t == quant_tbl_no[ci]
         d == Divisors(method, quant_tbl_ptrs[t])
     IN /\ do_dct' = [do_dct EXCEPT ![ci] = method]
        /\ IF method = "FLOAT"
             THEN /\ float_divisors' = [float_divisors EXCEPT ![t] = d]
                  /\ UNCHANGED divisors
             ELSE /\ divisors' = [divisors EXCEPT ![t] = d]
                  /\ UNCHANGED float_divisors
  /\ ci' = ci + 1
  /\ UNCHANGED <<setup, error, out>>

\* One turn of the loop of start_pass_fdctmgr.
StartComponent ==
  /\ ci <= N /\ ~error
  /\ LET method == MethodOf(ci)
         t == quant_tbl_no[ci]
         q == quant_tbl_ptrs[t]
     IN IF q = 0
          THEN /\ error' = TRUE
               /\ do_dct' = [do_dct EXCEPT ![ci] = method]
               /\ UNCHANGED <<ci, divisors, float_divisors>>
          ELSE /\ do_dct' = [do_dct EXCEPT ![ci] = method]
               /\ IF method = "FLOAT"
                    THEN /\ float_divisors' =
                              [float_divisors EXCEPT ![t] =
                                 Divisors(method, q)]
                         /\ UNCHANGED divisors
                    ELSE /\ divisors' = [divisors EXCEPT ![t] =
                                           Divisors(method, q)]
                         /\ UNCHANGED float_divisors
               /\ ci' = ci + 1
               /\ UNCHANGED error
  /\ UNCHANGED <<setup, out>>

\* What a routine leaves in the workspace for a coefficient of v eighths: the
\* AA&N routine leaves the two scale factors of the position in it.
Workspace(method, p, v) ==
  IF method = "IFAST" THEN DESCALE(v * Aan(p), CONST_BITS) ELSE v

\* The division of forward_DCT, half away from zero, with the dividend made
\* positive first.
DivideRounding(v, d) ==
  LET up == Abs(v) + d \div 2
      quotient == IF up >= d THEN up \div d ELSE 0
  IN IF v < 0 THEN -quotient ELSE quotient

\* forward_DCT_float: workspace / divisor + 16384.5 truncated, less 16384;
\* halves go up.
FloatRounding(v, d) == (2 * v + d) \div (2 * d)

\* forward_DCT or forward_DCT_float on one block of component c.
ForwardDct(c) ==
  /\ ci = N + 1
  /\ \E p \in Positions, v \in Values :
       LET method == do_dct[c]
           t == quant_tbl_no[c]
       IN out' = [c |-> c, p |-> p, v |-> v,
                  k |-> IF method = "FLOAT"
                          THEN FloatRounding(v, float_divisors[t][p])
                          ELSE DivideRounding(Workspace(method, p, v),
                                              divisors[t][p])]
  /\ UNCHANGED <<setup, ci, divisors, float_divisors, do_dct, error>>

\* ERREXIT(JERR_NO_QUANT_TABLE) has ended the compression.
Failed == error /\ UNCHANGED vars

Next == StartComponent \/ (\E c \in Comps : ForwardDct(c)) \/ Failed

Spec == Init /\ [][Next]_vars
-----------------------------------------------------------------------------
\* The last coefficient is the nearest multiple of its component's own
\* quantization step, up to the rounding the scaled integers of IFAST cost:
\* half a unit in the workspace, and half a unit in the divisor for each unit
\* of the result.
NearestMultiple ==
  LET q == quant_tbl_ptrs[quant_tbl_no[out.c]]
      miss == 2 * Abs(8 * q * out.k - out.v)
  IN IF MethodOf(out.c) = "IFAST"
       THEN miss * Aan(out.p)
              <= 8 * q * Aan(out.p) + (2 + Abs(out.k)) * 2^CONST_BITS
       ELSE miss <= 8 * q

\* The components that compute the integer divisors of table t, and the last
\* of them, whose divisors remain.
Writers(t) == {d \in Comps : quant_tbl_no[d] = t /\ MethodOf(d) # "FLOAT"}
WritesLast(d, t) == d \in Writers(t) /\ \A b \in Writers(t) : b <= d

\* Component c meets divisors of its own method.
KeepsItsDivisors(c) ==
  \/ MethodOf(c) = "FLOAT"
  \/ \A d \in Comps :
       WritesLast(d, quant_tbl_no[c]) => MethodOf(d) = MethodOf(c)

\* A coefficient is written as the nearest multiple of its component's own
\* quantization step if the last component that computes the divisors of its
\* table has the component's method; components of other methods may have
\* computed them before (forward_DCT with the tables of start_pass_fdctmgr).
QuantizesByItsOwnStep ==
  out # None /\ KeepsItsDivisors(out.c) => NearestMultiple

\* It is so whoever shares the table.  Not so: the comment in
\* start_pass_fdctmgr says that to compute the divisors of a table more than
\* once is "not a big deal", but components of 8 by 8 blocks with IFAST and
\* others, which are always ISLOW, leave each other divisors of another scale.
SharingIsNoBigDeal == out # None => NearestMultiple

\* Dividing never meets a divisor of zero, whoever computed the divisors, neither one that was not computed
\* nor one that its scaling rounded away (the tables of every component that
\* start_pass_fdctmgr has passed).
NoZeroDivisor ==
  \A c \in 1..(ci - 1), p \in Positions :
    IF do_dct[c] = "FLOAT" THEN float_divisors[quant_tbl_no[c]][p] > 0
                           ELSE divisors[quant_tbl_no[c]][p] > 0
=============================================================================
