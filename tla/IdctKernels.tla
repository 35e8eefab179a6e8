---------------------------- MODULE IdctKernels ----------------------------
(***************************************************************************)
(* The one-dimensional inverse DCTs of jidctint.c, one per number of       *)
(* output points.  x[k] is coefficient k of a row or a column, a function  *)
(* from 0; the result is the same kind of function, in the scale the       *)
(* kernel leaves it in, before the caller's shift.  Every two-dimensional  *)
(* routine of the file runs two of them, and each is written there once    *)
(* per pass and routine: the integers are the same in all of them, except  *)
(* for the column pass of the 4-point one.  The constants are the source's *)
(* FIX(c), c * 2^13 rounded; the names are its tmpN and zN, with a letter  *)
(* after a name that is assigned again.                                    *)
(***************************************************************************)
EXTENDS Integers, Sequences

CONST_BITS == 13

\* The arrays of the source start at 0, the tuples of TLA+ at 1.
Vec(s) == [i \in 0 .. Len(s) - 1 |-> s[i + 1]]

\* RIGHT_SHIFT after the "fudge factor": v / 2^n, rounded half up.  A
\* negative n is a shift to the left.
DESCALE(v, n) ==
  CASE n > 0 -> (v + 2^(n - 1)) \div 2^n
    [] n = 0 -> v
    [] OTHER -> v * 2^(-n)

Idct1(x) == Vec(<<x[0]>>)

Idct2(x) == Vec(<<x[0] + x[1], x[0] - x[1]>>)

Idct3(x) ==
  LET tmp0 == 8192 * x[0]  tmp12 == 5793 * x[2]  tmp10 == tmp0 + tmp12
      tmp0a == 10033 * x[1]
  IN  Vec(<<tmp10 + tmp0a, tmp0 - tmp12 - tmp12, tmp10 - tmp0a>>)

Idct4(x) ==
  LET tmp10 == 8192 * (x[0] + x[2])  tmp12 == 8192 * (x[0] - x[2])
      z1 == 4433 * (x[1] + x[3])  tmp0 == z1 + 6270 * x[1]
      tmp2 == z1 - 15137 * x[3]
  IN  Vec(<<tmp10 + tmp0, tmp12 + tmp2, tmp12 - tmp2, tmp10 - tmp0>>)

\* The column pass of jpeg_idct_4x4 and 8x4 descales the odd part by
\* itself and adds it to the even part afterwards.
Idct4Columns(x) ==
  LET tmp10 == 4 * (x[0] + x[2])  tmp12 == 4 * (x[0] - x[2])
      z1 == 4433 * (x[1] + x[3])  tmp0 == DESCALE(z1 + 6270 * x[1], 11)
      tmp2 == DESCALE(z1 - 15137 * x[3], 11)
  IN  Vec(<<tmp10 + tmp0, tmp12 + tmp2, tmp12 - tmp2, tmp10 - tmp0>>)

Idct5(x) ==
  LET tmp12 == 8192 * x[0]  z1 == 6476 * (x[2] + x[4])
      z2 == 2896 * (x[2] - x[4])  z3 == tmp12 + z2  tmp10 == z3 + z1
      tmp11 == z3 - z1  z1a == 6810 * (x[1] + x[3])  tmp0 == z1a + 4209 * x[1]
      tmp1 == z1a - 17828 * x[3]
  IN  Vec(<<tmp10 + tmp0, tmp11 + tmp1, tmp12 - 4 * z2, tmp11 - tmp1,
           tmp10 - tmp0>>)

Idct6(x) ==
  LET tmp0 == 8192 * x[0]  tmp10 == 5793 * x[4]  tmp1 == tmp0 + tmp10
      tmp11 == tmp0 - tmp10 - tmp10  tmp0a == 10033 * x[2]
      tmp10a == tmp1 + tmp0a  tmp12 == tmp1 - tmp0a
      tmp1a == 2998 * (x[1] + x[5])  tmp0b == tmp1a + 8192 * (x[1] + x[3])
      tmp2 == tmp1a + 8192 * (x[5] - x[3])
      tmp1b == 8192 * (x[1] - x[3] - x[5])
  IN  Vec(<<tmp10a + tmp0b, tmp11 + tmp1b, tmp12 + tmp2, tmp12 - tmp2,
           tmp11 - tmp1b, tmp10a - tmp0b>>)

Idct7(x) ==
  LET tmp13 == 8192 * x[0]  tmp10 == 7223 * (x[4] - x[6])
      tmp12 == 2578 * (x[2] - x[4])
      tmp11 == tmp10 + tmp12 + tmp13 - 15083 * x[4]  tmp0 == x[2] + x[6]
      tmp0a == 10438 * tmp0 + tmp13  tmp10a == tmp10 + tmp0a - 637 * x[6]
      tmp12a == tmp12 + tmp0a - 20239 * x[2]  tmp1 == 7663 * (x[1] + x[3])
      tmp2 == 1395 * (x[1] - x[3])  tmp2a == -11295 * (x[3] + x[5])
      tmp1a == tmp1 + tmp2 + tmp2a  z2 == 5027 * (x[1] + x[5])
      tmp0b == tmp1 - tmp2 + z2  tmp2b == tmp2a + z2 + 15326 * x[5]
  IN  Vec(<<tmp10a + tmp0b, tmp11 + tmp1a, tmp12a + tmp2b,
           tmp13 + 11585 * (x[4] - tmp0), tmp12a - tmp2b, tmp11 - tmp1a,
           tmp10a - tmp0b>>)

Idct8(x) ==
  LET z1 == 4433 * (x[2] + x[6])  tmp2 == z1 + 6270 * x[2]
      tmp3 == z1 - 15137 * x[6]  tmp0 == 8192 * (x[0] + x[4])
      tmp1 == 8192 * (x[0] - x[4])  tmp10 == tmp0 + tmp2  tmp13 == tmp0 - tmp2
      tmp11 == tmp1 + tmp3  tmp12 == tmp1 - tmp3  z2 == x[7] + x[3]
      z3 == x[5] + x[1]  z1a == 9633 * (z2 + z3)  z2a == -16069 * z2 + z1a
      z3a == -3196 * z3 + z1a  z1b == -7373 * (x[7] + x[1])
      tmp0a == 2446 * x[7] + z1b + z2a  tmp3a == 12299 * x[1] + z1b + z3a
      z1c == -20995 * (x[5] + x[3])  tmp1a == 16819 * x[5] + z1c + z3a
      tmp2a == 25172 * x[3] + z1c + z2a
  IN  Vec(<<tmp10 + tmp3a, tmp11 + tmp2a, tmp12 + tmp1a, tmp13 + tmp0a,
           tmp13 - tmp0a, tmp12 - tmp1a, tmp11 - tmp2a, tmp10 - tmp3a>>)

Idct9(x) ==
  LET tmp0 == 8192 * x[0]  tmp3 == 5793 * x[6]  tmp1 == tmp0 + tmp3
      tmp2 == tmp0 - tmp3 - tmp3  tmp0a == 5793 * (x[2] - x[4])
      tmp11 == tmp2 + tmp0a  tmp0b == 10887 * (x[2] + x[4])
      tmp2a == 8875 * x[2]  tmp3a == 2012 * x[4]
      tmp10 == tmp1 + tmp0b - tmp3a  tmp12 == tmp1 - tmp0b + tmp2a
      tmp13 == tmp1 - tmp2a + tmp3a  z2 == -10033 * x[3]
      tmp2b == 7447 * (x[1] + x[5])  tmp3b == 3962 * (x[1] + x[7])
      tmp0c == tmp2b + tmp3b - z2  tmp1a == 11409 * (x[5] - x[7])
      tmp2c == tmp2b + z2 - tmp1a  tmp3c == tmp3b + z2 + tmp1a
      tmp1b == 10033 * (x[1] - x[5] - x[7])
  IN  Vec(<<tmp10 + tmp0c, tmp11 + tmp1b, tmp12 + tmp2c, tmp13 + tmp3c,
           tmp2 - tmp0a - tmp0a, tmp13 - tmp3c, tmp12 - tmp2c, tmp11 - tmp1b,
           tmp10 - tmp0c>>)

Idct10(x) ==
  LET z3 == 8192 * x[0]  z1 == 9373 * x[4]  z2 == 3580 * x[4]
      tmp10 == z3 + z1  tmp11 == z3 - z2  tmp22 == z3 - 2 * (z1 - z2)
      z1a == 6810 * (x[2] + x[6])  tmp12 == z1a + 4209 * x[2]
      tmp13 == z1a - 17828 * x[6]  tmp20 == tmp10 + tmp12
      tmp24 == tmp10 - tmp12  tmp21 == tmp11 + tmp13  tmp23 == tmp11 - tmp13
      z3a == 8192 * x[5]  tmp11a == x[3] + x[7]  tmp13a == x[3] - x[7]
      tmp12a == 2531 * tmp13a  z2a == 7791 * tmp11a  z4 == z3a + tmp12a
      tmp10a == 11443 * x[1] + z2a + z4  tmp14 == 1812 * x[1] - z2a + z4
      z2b == 4815 * tmp11a  z4a == z3a - tmp12a - 4096 * tmp13a
      tmp12b == 8192 * (x[1] - tmp13a) - z3a
      tmp11b == 10323 * x[1] - z2b - z4a  tmp13b == 5260 * x[1] - z2b + z4a
  IN  Vec(<<tmp20 + tmp10a, tmp21 + tmp11b, tmp22 + tmp12b, tmp23 + tmp13b,
           tmp24 + tmp14, tmp24 - tmp14, tmp23 - tmp13b, tmp22 - tmp12b,
           tmp21 - tmp11b, tmp20 - tmp10a>>)

Idct11(x) ==
  LET tmp10 == 8192 * x[0]  tmp20 == 20862 * (x[4] - x[6])
      tmp23 == 3529 * (x[4] - x[2])  z4 == x[2] + x[6]  z4a == z4 - x[4]
      tmp25 == tmp10 + 11116 * z4a
      tmp21 == tmp20 + tmp23 + tmp25 - 14924 * x[4]
      tmp20a == tmp20 + tmp25 + 17333 * x[6]
      tmp23a == tmp23 + tmp25 - 12399 * x[2]  tmp24 == -9467 * z4 + tmp25
      tmp22 == tmp24 - 6461 * x[6]
      tmp24a == tmp24 + 15929 * x[4] - 11395 * x[2]  tmp11 == x[1] + x[3]
      tmp14 == 3264 * (tmp11 + x[5] + x[7])  tmp11a == 7274 * tmp11
      tmp12 == 5492 * (x[1] + x[5])  tmp13 == tmp14 + 3000 * (x[1] + x[7])
      tmp10a == tmp11a + tmp12 + tmp13 - 7562 * x[1]
      z1 == tmp14 - 9527 * (x[3] + x[5])  tmp12a == tmp12 + z1 - 9766 * x[5]
      z1a == -14731 * (x[3] + x[7])
      tmp11b == tmp11a + z1 + 16984 * x[3] + z1a
      tmp13a == tmp13 + z1a + 17223 * x[7]
      tmp14a == tmp14 + -12019 * x[3] + 8203 * x[5] - 13802 * x[7]
  IN  Vec(<<tmp20a + tmp10a, tmp21 + tmp11b, tmp22 + tmp12a, tmp23a + tmp13a,
           tmp24a + tmp14a, tmp10 - 11585 * z4a, tmp24a - tmp14a,
           tmp23a - tmp13a, tmp22 - tmp12a, tmp21 - tmp11b, tmp20a - tmp10a>>)

Idct12(x) ==
  LET z3 == 8192 * x[0]  z4 == 10033 * x[4]  tmp10 == z3 + z4
      tmp11 == z3 - z4  z4a == 11190 * x[2]  z1 == 8192 * x[2]
      z2 == 8192 * x[6]  tmp12 == z1 - z2  tmp21 == z3 + tmp12
      tmp24 == z3 - tmp12  tmp12a == z4a + z2  tmp20 == tmp10 + tmp12a
      tmp25 == tmp10 - tmp12a  tmp12b == z4a - z1 - z2
      tmp22 == tmp11 + tmp12b  tmp23 == tmp11 - tmp12b  tmp11a == 10703 * x[3]
      tmp14 == -4433 * x[3]  tmp10a == x[1] + x[5]
      tmp15 == 7053 * (tmp10a + x[7])  tmp12c == tmp15 + 2139 * tmp10a
      tmp10b == tmp12c + tmp11a + 2295 * x[1]  tmp13 == -8565 * (x[5] + x[7])
      tmp12d == tmp12c + tmp13 + tmp14 - 12112 * x[5]
      tmp13a == tmp13 + tmp15 - tmp11a + 12998 * x[7]
      tmp15a == tmp15 + tmp14 - 5540 * x[1] - 16244 * x[7]  z1a == x[1] - x[7]
      z2a == x[3] - x[5]  z3a == 4433 * (z1a + z2a)
      tmp11b == z3a + 6270 * z1a  tmp14a == z3a - 15137 * z2a
  IN  Vec(<<tmp20 + tmp10b, tmp21 + tmp11b, tmp22 + tmp12d, tmp23 + tmp13a,
           tmp24 + tmp14a, tmp25 + tmp15a, tmp25 - tmp15a, tmp24 - tmp14a,
           tmp23 - tmp13a, tmp22 - tmp12d, tmp21 - tmp11b, tmp20 - tmp10b>>)

Idct13(x) ==
  LET z1 == 8192 * x[0]  tmp10 == x[4] + x[6]  tmp11 == x[4] - x[6]
      tmp12 == 9465 * tmp10  tmp13 == 793 * tmp11 + z1
      tmp20 == 11249 * x[2] + tmp12 + tmp13
      tmp22 == 4108 * x[2] - tmp12 + tmp13  tmp12a == 2592 * tmp10
      tmp13a == 3989 * tmp11 + z1  tmp21 == 8672 * x[2] - tmp12a + tmp13a
      tmp25 == -10258 * x[2] + tmp12a + tmp13a  tmp12b == 3570 * tmp10
      tmp13b == 7678 * tmp11 - z1  tmp23 == -1396 * x[2] - tmp12b - tmp13b
      tmp24 == -6581 * x[2] + tmp12b - tmp13b  tmp11a == 10832 * (x[1] + x[3])
      tmp12c == 9534 * (x[1] + x[5])  tmp15 == x[1] + x[7]
      tmp13c == 7682 * tmp15
      tmp10a == tmp11a + tmp12c + tmp13c - 16549 * x[1]
      tmp14 == -2773 * (x[3] + x[5])  tmp14a == -9534 * (x[3] + x[7])
      tmp11b == tmp11a + tmp14 + 6859 * x[3] + tmp14a
      tmp14b == -5384 * (x[5] + x[7])
      tmp12d == tmp12c + tmp14 - 12879 * x[5] + tmp14b
      tmp13d == tmp13c + tmp14a + 18068 * x[7] + tmp14b
      tmp15a == 2773 * tmp15  z1a == 7682 * (x[5] - x[3])
      tmp14c == tmp15a + 2611 * x[1] - 3818 * x[3] + z1a
      tmp15b == tmp15a + z1a + 3150 * x[5] - 14273 * x[7]
  IN  Vec(<<tmp20 + tmp10a, tmp21 + tmp11b, tmp22 + tmp12d, tmp23 + tmp13d,
           tmp24 + tmp14c, tmp25 + tmp15b, 11585 * (tmp11 - x[2]) + z1,
           tmp25 - tmp15b, tmp24 - tmp14c, tmp23 - tmp13d, tmp22 - tmp12d,
           tmp21 - tmp11b, tmp20 - tmp10a>>)

Idct14(x) ==
  LET z1 == 8192 * x[0]  z2 == 10438 * x[4]  z3 == 2578 * x[4]
      z4 == 7223 * x[4]  tmp10 == z1 + z2  tmp11 == z1 + z3  tmp12 == z1 - z4
      tmp23 == z1 - 2 * (z2 + z3 - z4)  z3a == 9058 * (x[2] + x[6])
      tmp13 == z3a + 2237 * x[2]  tmp14 == z3a - 14084 * x[6]
      tmp15 == 5027 * x[2] - 11295 * x[6]  tmp20 == tmp10 + tmp13
      tmp26 == tmp10 - tmp13  tmp21 == tmp11 + tmp14  tmp25 == tmp11 - tmp14
      tmp22 == tmp12 + tmp15  tmp24 == tmp12 - tmp15  z4a == 8192 * x[7]
      tmp14a == x[1] + x[5]  tmp11a == 10935 * (x[1] + x[3])
      tmp12a == 9810 * tmp14a  tmp10a == tmp11a + tmp12a + z4a - 9232 * x[1]
      tmp14b == 6164 * tmp14a  z1a == x[1] - x[3]  tmp15a == 3826 * z1a - z4a
      tmp16 == tmp14b - 8693 * x[1] + tmp15a
      tmp13a == -1297 * (x[3] + x[5]) - z4a
      tmp11b == tmp11a + tmp13a - 3474 * x[3]
      tmp12b == tmp12a + tmp13a - 19447 * x[5]
      tmp13b == 11512 * (x[5] - x[3])
      tmp14c == tmp14b + tmp13b + z4a - 13850 * x[5]
      tmp15b == tmp15a + tmp13b + 5529 * x[3]
      tmp13c == 8192 * (z1a - x[5]) + z4a
  IN  Vec(<<tmp20 + tmp10a, tmp21 + tmp11b, tmp22 + tmp12b, tmp23 + tmp13c,
           tmp24 + tmp14c, tmp25 + tmp15b, tmp26 + tmp16, tmp26 - tmp16,
           tmp25 - tmp15b, tmp24 - tmp14c, tmp23 - tmp13c, tmp22 - tmp12b,
           tmp21 - tmp11b, tmp20 - tmp10a>>)

Idct15(x) ==
  LET z1 == 8192 * x[0]  tmp10 == 3580 * x[6]  tmp11 == 9373 * x[6]
      tmp12 == z1 - tmp10  tmp13 == z1 + tmp11
      z1a == z1 - 2 * (tmp11 - tmp10)  z4 == x[2] - x[4]  z3 == x[4] + x[2]
      tmp10a == 10958 * z3  tmp11a == 374 * z4  z2 == 11795 * x[2]
      tmp20 == tmp13 + tmp10a + tmp11a  tmp23 == tmp12 - tmp10a + tmp11a + z2
      tmp10b == 4482 * z3  tmp11b == 3271 * z4
      tmp25 == tmp13 - tmp10b - tmp11b  tmp26 == tmp12 + tmp10b - tmp11b - z2
      tmp10c == 6476 * z3  tmp11c == 2896 * z4
      tmp21 == tmp12 + tmp10c + tmp11c  tmp24 == tmp13 - tmp10c + tmp11c
      tmp11d == tmp11c + tmp11c  tmp22 == z1a + tmp11d  z3a == 10033 * x[5]
      tmp13a == x[3] - x[7]  tmp15 == 6810 * (x[1] + tmp13a)
      tmp11e == tmp15 + 4209 * x[1]  tmp14 == tmp15 - 17828 * tmp13a
      tmp13b == -6810 * x[3]  tmp15a == -11018 * x[3]  z2a == x[1] - x[7]
      tmp12a == z3a + 11522 * z2a  tmp10d == tmp12a + 20131 * x[7] - tmp15a
      tmp16 == tmp12a - 9113 * x[1] + tmp13b  tmp12b == 10033 * z2a - z3a
      z2b == 4712 * (x[1] + x[7])  tmp13c == tmp13b + z2b + 3897 * x[1] - z3a
      tmp15b == tmp15a + z2b - 7121 * x[7] + z3a
  IN  Vec(<<tmp20 + tmp10d, tmp21 + tmp11e, tmp22 + tmp12b, tmp23 + tmp13c,
           tmp24 + tmp14, tmp25 + tmp15b, tmp26 + tmp16,
           z1a - tmp11d - tmp11d, tmp26 - tmp16, tmp25 - tmp15b,
           tmp24 - tmp14, tmp23 - tmp13c, tmp22 - tmp12b, tmp21 - tmp11e,
           tmp20 - tmp10d>>)

Idct16(x) ==
  LET tmp0 == 8192 * x[0]  tmp1 == 10703 * x[4]  tmp2 == 4433 * x[4]
      tmp10 == tmp0 + tmp1  tmp11 == tmp0 - tmp1  tmp12 == tmp0 + tmp2
      tmp13 == tmp0 - tmp2  z3 == x[2] - x[6]  z4 == 2260 * z3
      z3a == 11363 * z3  tmp0a == z3a + 20995 * x[6]
      tmp1a == z4 + 7373 * x[2]  tmp2a == z3a - 4926 * x[2]
      tmp3 == z4 - 4176 * x[6]  tmp20 == tmp10 + tmp0a  tmp27 == tmp10 - tmp0a
      tmp21 == tmp12 + tmp1a  tmp26 == tmp12 - tmp1a  tmp22 == tmp13 + tmp2a
      tmp25 == tmp13 - tmp2a  tmp23 == tmp11 + tmp3  tmp24 == tmp11 - tmp3
      tmp11a == x[1] + x[5]  tmp1b == 11086 * (x[1] + x[3])
      tmp2b == 10217 * tmp11a  tmp3a == 8956 * (x[1] + x[7])
      tmp10a == 7350 * (x[1] - x[7])  tmp11b == 5461 * tmp11a
      tmp12a == 3363 * (x[1] - x[3])
      tmp0b == tmp1b + tmp2b + tmp3a - 18730 * x[1]
      tmp13a == tmp10a + tmp11b + tmp12a - 15038 * x[1]
      z1 == 1136 * (x[3] + x[5])  z1a == 11529 * (x[5] - x[3])
      z2 == x[3] + x[7]  z1b == -5461 * z2
      tmp1c == tmp1b + z1 + 589 * x[3] + z1b  z2a == -10217 * z2
      tmp12b == tmp12a + z1a + 16154 * x[3] + z2a
      z2b == -11086 * (x[5] + x[7])  tmp2c == tmp2b + z1 - 9222 * x[5] + z2b
      tmp3b == tmp3a + z1b + 8728 * x[7] + z2b  z2c == 3363 * (x[7] - x[5])
      tmp10b == tmp10a + z2a + 25733 * x[7] + z2c
      tmp11c == tmp11b + z1a - 6278 * x[5] + z2c
  IN  Vec(<<tmp20 + tmp0b, tmp21 + tmp1c, tmp22 + tmp2c, tmp23 + tmp3b,
           tmp24 + tmp10b, tmp25 + tmp11c, tmp26 + tmp12b, tmp27 + tmp13a,
           tmp27 - tmp13a, tmp26 - tmp12b, tmp25 - tmp11c, tmp24 - tmp10b,
           tmp23 - tmp3b, tmp22 - tmp2c, tmp21 - tmp1c, tmp20 - tmp0b>>)

Idct(n, x) ==
  CASE n = 1 -> Idct1(x)   [] n = 2 -> Idct2(x)   [] n = 3 -> Idct3(x)
    [] n = 4 -> Idct4(x)   [] n = 5 -> Idct5(x)   [] n = 6 -> Idct6(x)
    [] n = 7 -> Idct7(x)   [] n = 8 -> Idct8(x)   [] n = 9 -> Idct9(x)
    [] n = 10 -> Idct10(x) [] n = 11 -> Idct11(x) [] n = 12 -> Idct12(x)
    [] n = 13 -> Idct13(x) [] n = 14 -> Idct14(x) [] n = 15 -> Idct15(x)
    [] n = 16 -> Idct16(x)
=============================================================================
