---------------------------- MODULE FdctKernels ----------------------------
(***************************************************************************)
(* The one-dimensional forward DCTs of jfdctint.c, one per number of       *)
(* points.  x is a row of samples or a column of the first pass's results, *)
(* a function from 0; at most eight coefficients come out, in the scale    *)
(* before the caller's shift.  The row pass uses the constants of the      *)
(* transform (Rows below), the column pass the same ones times the factor  *)
(* that brings the block to the size of an 8x8 one (Columns), except where *)
(* that factor is a power of two and goes into the shift.  s and d are the *)
(* sums and differences of samples at mirrored places.                     *)
(*                                                                         *)
(* Two of the row passes miss a shift: the 12-point one adds tmp14 - tmp15 *)
(* and the 14-point one tmp6 as they are, without << CONST_BITS, to        *)
(* products that carry CONST_BITS bits of fraction.  In Rows12 the factor  *)
(* of tmp14 - tmp15 is therefore 1, and in Rows14 that of tmp6 is          *)
(* FIX(1.126980169) - 1 = 9231; the column passes have both right.         *)
(***************************************************************************)
EXTENDS IdctKernels

Sums(x, n) == [i \in 0 .. n \div 2 - 1 |-> x[i] + x[n - 1 - i]]
Diffs(x, n) == [i \in 0 .. n \div 2 - 1 |-> x[i] - x[n - 1 - i]]

Fdct1(x) == Vec(<<x[0]>>)

Fdct2(x) == Vec(<<x[0] + x[1], x[0] - x[1]>>)

Rows3 ==
  <<8192, 10033, 5793>>
Columns3 ==
  <<14564, 17837, 10298>>

Fdct3(x, c) ==
  LET s == Sums(x, 3)  d == Diffs(x, 3)
  IN  Vec(<<c[1] * (s[0] + x[1]), c[2] * d[0], c[3] * (s[0] - x[1] - x[1])>>)

Fdct4(x) ==
  LET s == Sums(x, 4)  d == Diffs(x, 4)
      tmp0 == 4433 * (d[0] + d[1])
  IN  Vec(<<8192 * (s[0] + s[1]), tmp0 + 6270 * d[0], 8192 * (s[0] - s[1]),
           tmp0 - 15137 * d[1]>>)

Rows5 ==
  <<6476, 2896, 6810, 8192, 4209, 17828>>
Columns5 ==
  <<8290, 3707, 8716, 10486, 5387, 22820>>

Fdct5(x, c) ==
  LET s == Sums(x, 5)  d == Diffs(x, 5)
      tmp10 == s[0] + s[1]  tmp11 == c[1] * (s[0] - s[1])
      tmp10a == c[2] * (tmp10 - 4 * x[2])  tmp10b == c[3] * (d[0] + d[1])
  IN  Vec(<<c[4] * (tmp10 + x[2]), tmp10b + c[5] * d[0], tmp11 + tmp10a,
           tmp10b - c[6] * d[1], tmp11 - tmp10a>>)

Rows6 ==
  <<2998, 8192, 10033, 5793>>
Columns6 ==
  <<5331, 14564, 17837, 10298>>

Fdct6(x, c) ==
  LET s == Sums(x, 6)  d == Diffs(x, 6)
      tmp10 == s[0] + s[2]  tmp10a == c[1] * (d[0] + d[2])
  IN  Vec(<<c[2] * (tmp10 + s[1]), tmp10a + c[2] * (d[0] + d[1]),
           c[3] * (s[0] - s[2]), c[2] * (d[0] - d[1] - d[2]),
           c[4] * (tmp10 - s[1] - s[1]), tmp10a + c[2] * (d[2] - d[1])>>)

Rows7 ==
  <<2896, 7542, 2578, 7223, 7663, 1395, 11295, 5027, 15326, 8192, 5793>>
Columns7 ==
  <<3783, 9850, 3367, 9434, 10009, 1822, 14752, 6565, 20017, 10700, 7566>>

Fdct7(x, c) ==
  LET s == Sums(x, 7)  d == Diffs(x, 7)
      z1 == s[0] + s[2]  tmp3 == x[3] + x[3]  z1a == c[1] * (z1 - tmp3 - tmp3)
      z2 == c[2] * (s[0] - s[2])  z3 == c[3] * (s[1] - s[2])
      z2a == c[4] * (s[0] - s[1])  tmp1 == c[5] * (d[0] + d[1])
      tmp2 == c[6] * (d[0] - d[1])  tmp2a == -(c[7] * (d[1] + d[2]))
      tmp3a == c[8] * (d[0] + d[2])
  IN  Vec(<<c[10] * (z1 + s[1] + x[3]), tmp1 - tmp2 + tmp3a, z1a + z2 + z3,
           tmp1 + tmp2 + tmp2a, z2a + z3 - c[11] * (s[1] - tmp3),
           tmp2a + tmp3a + c[9] * d[2], z1a - z2 + z2a>>)

Fdct8(x) ==
  LET s == Sums(x, 8)  d == Diffs(x, 8)
      tmp10 == s[0] + s[3]  tmp12 == s[0] - s[3]  tmp11 == s[1] + s[2]
      tmp13 == s[1] - s[2]  z1 == 4433 * (tmp12 + tmp13)
      tmp12a == d[0] + d[2]  tmp13a == d[1] + d[3]
      z1a == 9633 * (tmp12a + tmp13a)  tmp10a == -7373 * (d[0] + d[3])
      tmp11a == -20995 * (d[1] + d[2])  tmp12b == -3196 * tmp12a + z1a
      tmp13b == -16069 * tmp13a + z1a
  IN  Vec(<<8192 * (tmp10 + tmp11), 12299 * d[0] + tmp10a + tmp12b,
           z1 + 6270 * tmp12, 25172 * d[1] + tmp11a + tmp13b,
           8192 * (tmp10 - tmp11), 16819 * d[2] + tmp11a + tmp12b,
           z1 - 15137 * tmp13, 2446 * d[3] + tmp10a + tmp13b>>)

Rows9 ==
  <<10887, 5793, 10033, 7447, 3962, 11409, 8192, 8875, 2012>>
Columns9 ==
  <<17203, 9154, 15855, 11768, 6262, 18029, 12945, 14024, 3179>>

Fdct9(x, c) ==
  LET s == Sums(x, 9)  d == Diffs(x, 9)
      z1 == s[0] + s[2] + s[3]  z2 == s[1] + x[4]  z1a == c[1] * (s[0] - s[2])
      z2a == c[2] * (s[1] - x[4] - x[4])  tmp11 == c[3] * d[1]
      tmp0 == c[4] * (d[0] + d[2])  tmp1 == c[5] * (d[0] + d[3])
      tmp2 == c[6] * (d[2] - d[3])
  IN  Vec(<<c[7] * (z1 + z2), tmp11 + tmp0 + tmp1,
           c[8] * (s[2] - s[3]) + z1a + z2a, c[3] * (d[0] - d[2] - d[3]),
           c[9] * (s[3] - s[0]) + z1a - z2a, tmp0 - tmp11 - tmp2,
           c[2] * (z1 - z2 - z2), tmp1 - tmp11 + tmp2>>)

Rows10 ==
  <<6810, 8192, 7791, 4815, 2531, 4096, 11443, 10323, 5260, 1812, 4209, 9373,
    3580, 17828>>
Columns10 ==
  <<8716, 10486, 9973, 6163, 3240, 5243, 14647, 13213, 6732, 2320, 5387,
    11997, 4582, 22820>>

Fdct10(x, c) ==
  LET s == Sums(x, 10)  d == Diffs(x, 10)
      tmp10 == s[0] + s[4]  tmp13 == s[0] - s[4]  tmp11 == s[1] + s[3]
      tmp14 == s[1] - s[3]  tmp12 == s[2] + s[2]
      tmp10a == c[1] * (tmp13 + tmp14)  tmp10b == d[0] + d[4]
      tmp11a == d[1] - d[3]  tmp2 == c[2] * d[2]
      tmp12a == c[3] * (d[0] - d[4]) - c[4] * (d[1] + d[3])
      tmp13a == c[5] * (tmp10b + tmp11a) + c[6] * tmp11a - tmp2
  IN  Vec(<<c[2] * (tmp10 + tmp11 + s[2]),
           c[7] * d[0] + c[8] * d[1] + tmp2 + c[9] * d[3] + c[10] * d[4],
           tmp10a + c[11] * tmp13, tmp12a + tmp13a,
           c[12] * (tmp10 - tmp12) - c[13] * (tmp11 - tmp12),
           c[2] * (tmp10b - tmp11a - d[2]), tmp10a - c[14] * tmp14,
           tmp12a - tmp13a>>)

Rows11 ==
  <<11116, 1649, 7587, 9746, 10538, 8756, 6263, 14090, 3264, 11467, 10456,
    16294, 10695, 8192, 8342, 11395, 511, 4813, 13275, 6461>>
Columns11 ==
  <<11759, 1744, 8026, 10310, 11148, 9262, 6626, 14905, 3453, 12131, 11061,
    17237, 11314, 8666, 8825, 12054, 540, 5091, 14043, 6835>>

Fdct11(x, c) ==
  LET s == Sums(x, 11)  d == Diffs(x, 11)
      tmp5 == x[5] + x[5]  tmp0 == s[0] - tmp5  tmp1 == s[1] - tmp5
      tmp2 == s[2] - tmp5  tmp3 == s[3] - tmp5  tmp4 == s[4] - tmp5
      z1 == c[1] * (tmp0 + tmp3) + c[2] * (tmp2 + tmp4)
      z2 == c[3] * (tmp1 - tmp3)  z3 == c[4] * (tmp0 - tmp1)
      tmp1a == c[5] * (d[0] + d[1])  tmp2a == c[6] * (d[0] + d[2])
      tmp3a == c[7] * (d[0] + d[3])  tmp4a == -(c[7] * (d[1] + d[2]))
      tmp5a == -(c[10] * (d[1] + d[3]))  tmp10 == c[9] * (d[2] + d[3])
  IN  Vec(<<c[14] * (s[0] + s[1] + s[2] + s[3] + s[4] + x[5]),
           tmp1a + tmp2a + tmp3a - c[8] * d[0] + c[9] * d[4],
           z1 + z2 - c[15] * tmp3 - c[16] * tmp4,
           tmp1a + tmp4a + tmp5a + c[11] * d[1] - c[6] * d[4],
           z2 + z3 + c[17] * tmp1 - c[1] * tmp2 + c[18] * tmp4,
           tmp2a + tmp4a + tmp10 - c[12] * d[2] + c[10] * d[4],
           z1 + z3 - c[19] * tmp0 - c[20] * tmp2,
           tmp3a + tmp5a + tmp10 + c[13] * d[3] - c[5] * d[4]>>)

Rows12 ==
  <<4433, 6270, 15137, 9191, 7053, 4758, 1512, 19165, 5946, 10703, 8192, 1,
    11190, 10033>>
Columns12 ==
  <<3941, 5573, 13455, 8170, 6269, 4229, 1344, 17036, 5285, 9514, 7282, 7282,
    9947, 8918>>

Fdct12(x, c) ==
  LET s == Sums(x, 12)  d == Diffs(x, 12)
      tmp10 == s[0] + s[5]  tmp13 == s[0] - s[5]  tmp14 == s[1] - s[4]
      tmp12 == s[2] + s[3]  tmp15 == s[2] - s[3]
      tmp10a == c[1] * (d[1] + d[4])  tmp14a == tmp10a + c[2] * d[1]
      tmp15a == tmp10a - c[3] * d[4]  tmp12a == c[4] * (d[0] + d[2])
      tmp13a == c[5] * (d[0] + d[3])  tmp11 == -(c[7] * (d[2] + d[3]))
  IN  Vec(<<c[11] * (tmp10 + s[1] + s[4] + tmp12),
           tmp12a + tmp13a + tmp14a - c[6] * d[0] + c[7] * d[5],
           c[12] * (tmp14 - tmp15) + c[13] * (tmp13 + tmp15),
           tmp15a + c[10] * (d[0] - d[3]) - c[1] * (d[2] + d[5]),
           c[14] * (tmp10 - tmp12),
           tmp12a + tmp11 - tmp15a - c[8] * d[2] + c[5] * d[5],
           c[11] * (tmp13 - tmp14 - tmp15),
           tmp13a + tmp11 - tmp14a + c[9] * d[3] - c[4] * d[5]>>)

Rows13 ==
  <<9465, 3570, 2592, 793, 7678, 3989, 10832, 9534, 7682, 2773, 16549, 2611,
    6859, 19183, 5384, 12879, 18515, 18068, 14273, 8192, 11249, 8672, 4108,
    1396, 6581, 10258>>
Columns13 ==
  <<7169, 2704, 1963, 601, 5816, 3021, 8204, 7221, 5819, 2100, 12534, 1978,
    5195, 14529, 4078, 9754, 14023, 13685, 10811, 6205, 8520, 6568, 3112,
    1058, 4985, 7770>>

Fdct13(x, c) ==
  LET s == Sums(x, 13)  d == Diffs(x, 13)
      tmp6 == x[6] + x[6]  tmp0 == s[0] - tmp6  tmp1 == s[1] - tmp6
      tmp2 == s[2] - tmp6  tmp3 == s[3] - tmp6  tmp4 == s[4] - tmp6
      tmp5 == s[5] - tmp6
      z1 == c[1] * (tmp0 - tmp2) - c[2] * (tmp3 - tmp4) - c[3] * (tmp1 - tmp5)
      z2 == c[4] * (tmp0 + tmp2) - c[5] * (tmp3 + tmp4) + c[6] * (tmp1 + tmp5)
      tmp1a == c[7] * (d[0] + d[1])  tmp2a == c[8] * (d[0] + d[2])
      tmp3a == c[9] * (d[0] + d[3]) + c[10] * (d[4] + d[5])
      tmp4a == c[9] * (d[4] - d[5]) - c[10] * (d[1] + d[2])
      tmp5a == -(c[8] * (d[1] + d[3]))  tmp6a == -(c[15] * (d[2] + d[3]))
  IN  Vec(<<c[20] * (s[0] + s[1] + s[2] + s[3] + s[4] + s[5] + x[6]),
           tmp1a + tmp2a + tmp3a - c[11] * d[0] + c[12] * d[4],
           c[21] * tmp0 + c[22] * tmp1 + c[23] * tmp2 - c[24] * tmp3
             - c[25] * tmp4 - c[26] * tmp5,
           tmp1a + tmp4a + tmp5a + c[13] * d[1] - c[14] * d[4], z1 + z2,
           tmp2a + tmp4a + tmp6a - c[16] * d[2] + c[17] * d[5], z1 - z2,
           tmp3a + tmp5a + tmp6a + c[18] * d[3] - c[19] * d[5]>>)

Rows14 ==
  <<9058, 8192, 1297, 11512, 9810, 6164, 10935, 3826, 9232, 9231, 2237, 5027,
    3474, 25148, 10438, 2578, 7223, 19447, 9175, 14084, 11295>>
Columns14 ==
  <<5915, 5350, 847, 7518, 6406, 4025, 7141, 2499, 6029, 679, 1461, 3283,
    2269, 16423, 6817, 1684, 4717, 12700, 5992, 9198, 7376>>

Fdct14(x, c) ==
  LET s == Sums(x, 14)  d == Diffs(x, 14)
      tmp10 == s[0] + s[6]  tmp14 == s[0] - s[6]  tmp11 == s[1] + s[5]
      tmp15 == s[1] - s[5]  tmp12 == s[2] + s[4]  tmp16 == s[2] - s[4]
      tmp13 == s[3] + s[3]  tmp10a == c[1] * (tmp14 + tmp15)
      tmp10b == d[1] + d[2]  tmp11a == d[5] - d[4]  tmp3 == c[2] * d[3]
      tmp10c == -(c[3] * tmp10b) + c[4] * tmp11a - tmp3
      tmp11b == c[5] * (d[0] + d[2]) + c[6] * (d[4] + d[6])
      tmp12a == c[7] * (d[0] + d[1]) + c[8] * (d[5] - d[6])
  IN  Vec(<<c[2] * (tmp10 + tmp11 + tmp12 + s[3]),
           tmp11b + tmp12a + tmp3 - c[9] * d[0] - c[10] * d[6],
           tmp10a + c[11] * tmp14 + c[12] * tmp16,
           tmp10c + tmp12a - c[13] * d[1] - c[14] * d[5],
           c[15] * (tmp10 - tmp13) + c[16] * (tmp11 - tmp13)
             - c[17] * (tmp12 - tmp13),
           tmp10c + tmp11b - c[18] * d[2] + c[19] * d[4],
           tmp10a - c[20] * tmp15 - c[21] * tmp16,
           c[2] * (d[0] - tmp10b + d[3] - tmp11a - d[6])>>)

Rows15 ==
  <<12543, 18336, 6541, 748, 11332, 7752, 6476, 10033, 11018, 6810, 11522,
    4712, 3897, 4209, 13930, 2912, 17828, 7121, 8192, 9373, 3580>>
Columns15 ==
  <<14271, 20862, 7442, 852, 12893, 8820, 7369, 11415, 12536, 7748, 13109,
    5361, 4434, 4788, 15850, 3314, 20284, 8102, 9321, 10664, 4073>>

Fdct15(x, c) ==
  LET s == Sums(x, 15)  d == Diffs(x, 15)
      z1 == s[0] + s[4] + s[5]  z2 == s[1] + s[3] + s[6]  z3 == s[2] + x[7]
      z3a == z3 + z3  tmp2 == s[2] + (s[1] + s[4]) \div 2 - x[7] - x[7]
      z3b == c[5] * (s[0] - s[3]) + c[6] * (s[6] - s[5]) + c[7] * (s[1] - s[4])
      tmp12 == c[8] * d[2]
      tmp4 == c[11] * (d[0] - d[6]) + c[9] * (d[1] + d[4]) + c[12] * (d[3]
            + d[5])
  IN  Vec(<<c[19] * (z1 + z2 + z3),
           c[13] * d[3] - c[14] * d[4] + c[15] * d[6] + tmp4 + tmp12,
           c[1] * (s[3] - tmp2) - c[2] * (s[6] - tmp2) + z3b,
           c[9] * (d[0] - d[4] - d[5]) + c[10] * (d[1] - d[3] - d[6]),
           c[3] * (s[5] - tmp2) - c[4] * (s[0] - tmp2) + z3b,
           c[8] * (d[0] - d[2] - d[3] + d[5] + d[6]),
           c[20] * (z1 - z3a) - c[21] * (z2 - z3a),
           -(c[16] * d[0]) - c[17] * d[1] - c[18] * d[5] + tmp4 - tmp12>>)

Fdct16(x) ==
  LET s == Sums(x, 16)  d == Diffs(x, 16)
      tmp10 == s[0] + s[7]  tmp14 == s[0] - s[7]  tmp11 == s[1] + s[6]
      tmp15 == s[1] - s[6]  tmp12 == s[2] + s[5]  tmp16 == s[2] - s[5]
      tmp13 == s[3] + s[4]  tmp17 == s[3] - s[4]
      tmp10a == 2260 * (tmp17 - tmp15) + 11363 * (tmp14 - tmp16)
      tmp11a == 11086 * (d[0] + d[1]) + 3363 * (d[6] - d[7])
      tmp12a == 10217 * (d[0] + d[2]) + 5461 * (d[5] + d[7])
      tmp13a == 8956 * (d[0] + d[3]) + 7350 * (d[4] - d[7])
      tmp14a == 1136 * (d[1] + d[2]) + 11529 * (d[6] - d[5])
      tmp15a == -5461 * (d[1] + d[3]) - 10217 * (d[4] + d[6])
      tmp16a == -11086 * (d[2] + d[3]) + 3363 * (d[5] - d[4])
  IN  Vec(<<8192 * (tmp10 + tmp11 + tmp12 + tmp13),
           tmp11a + tmp12a + tmp13a - 18730 * d[0] + 6387 * d[7],
           tmp10a + 11893 * tmp15 + 17799 * tmp16,
           tmp11a + tmp14a + tmp15a + 589 * d[1] - 13631 * d[6],
           10703 * (tmp10 - tmp13) + 4433 * (tmp11 - tmp12),
           tmp12a + tmp14a + tmp16a - 9222 * d[2] + 10055 * d[5],
           tmp10a - 1730 * tmp14 - 8697 * tmp17,
           tmp13a + tmp15a + tmp16a + 8728 * d[3] + 17760 * d[4]>>)

Fdct(n, pass, x) ==
  LET Of(rows, columns) == IF pass = 1 THEN rows ELSE columns IN
  CASE n = 1 -> Fdct1(x)
    [] n = 2 -> Fdct2(x)
    [] n = 3 -> Fdct3(x, Of(Rows3, Columns3))
    [] n = 4 -> Fdct4(x)
    [] n = 5 -> Fdct5(x, Of(Rows5, Columns5))
    [] n = 6 -> Fdct6(x, Of(Rows6, Columns6))
    [] n = 7 -> Fdct7(x, Of(Rows7, Columns7))
    [] n = 8 -> Fdct8(x)
    [] n = 9 -> Fdct9(x, Of(Rows9, Columns9))
    [] n = 10 -> Fdct10(x, Of(Rows10, Columns10))
    [] n = 11 -> Fdct11(x, Of(Rows11, Columns11))
    [] n = 12 -> Fdct12(x, Of(Rows12, Columns12))
    [] n = 13 -> Fdct13(x, Of(Rows13, Columns13))
    [] n = 14 -> Fdct14(x, Of(Rows14, Columns14))
    [] n = 15 -> Fdct15(x, Of(Rows15, Columns15))
    [] n = 16 -> Fdct16(x)
=============================================================================
