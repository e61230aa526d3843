------------------------------- MODULE Tower12 -------------------------------
(***************************************************************************)
(* fp12 = fp6[w] with w^2 = v, the field the pairing's values lie in, and  *)
(* its cyclotomic subgroup, in which squarings are cheaper: on all six     *)
(* coefficients (sqr_cyc) or on four of them (sqr_pck), the other two      *)
(* being computed when they are needed (back_cyc).                         *)
(***************************************************************************)
EXTENDS Tower

fp12_one  == <<<<fp2_one, fp2_zero, fp2_zero>>, <<fp2_zero, fp2_zero, fp2_zero>>>>
fp12_zero == <<<<fp2_zero, fp2_zero, fp2_zero>>, <<fp2_zero, fp2_zero, fp2_zero>>>>

(* u1 times w^2 added to u0: the even half of a product. *)
EvenHalf(u0, u1) == <<fp2_addc_low(u0[1], fp2_nord_low(u1[3])),
                      fp2_addc_low(u0[2], u1[1]),
                      fp2_addc_low(u0[3], u1[2])>>

fp12_mul_unr(a, b) ==
  LET Parts(u0, u1, u2) ==
        <<EvenHalf(u0, u1),
          <<fp2_subc_low(u2[1], fp2_addc_low(u0[1], u1[1])),
            fp2_subc_low(u2[2], fp2_addc_low(u0[2], u1[2])),
            fp2_subc_low(u2[3], fp2_addc_low(u0[3], u1[3]))>>>>
  IN  Parts(fp6_mul_unr(a[1], b[1]), fp6_mul_unr(a[2], b[2]),
            fp6_mul_unr(fp6_add(a[1], a[2]), fp6_add(b[1], b[2])))

fp12_rdcn(t) == <<fp6_rdcn(t[1]), fp6_rdcn(t[2])>>

fp12_mul(a, b) == fp12_rdcn(fp12_mul_unr(a, b))

(* By a line b, whose nonzero coefficients are b[0][0], b[1][0], b[1][1]:  *)
(* the curve's twist is of type D.                                         *)
fp12_mul_dxs(a, b) ==
  LET Parts(u0, u1, u2) ==
        <<EvenHalf(u0, u1),
          <<fp2_subc_low(fp2_subc_low(u2[1], u0[1]), u1[1]),
            fp2_subc_low(fp2_subc_low(u2[2], u0[2]), u1[2]),
            fp2_subc_low(fp2_subc_low(u2[3], u0[3]), u1[3])>>>>
  IN  fp12_rdcn(Parts(<<fp2_muln_low(a[1][1], b[1][1]), fp2_muln_low(a[1][2], b[1][1]),
                        fp2_muln_low(a[1][3], b[1][1])>>,
                      fp6_mul_dxs_unr_lazyr(a[2], b[2]),
                      fp6_mul_dxs_unr_lazyr(fp6_add(a[1], a[2]),
                        <<fp2_add(b[1][1], b[2][1]), b[2][2], fp2_zero>>)))

(* Sums of two unreduced squares, halved. *)
HalfSum(a, b) == fp2_hlvd_low(fp2_addd_low(a, b))

(* Chung and Hasan's squaring over fp4. *)
fp12_sqr_unr(a) ==
  LET t1 == <<a[1][2], a[2][3]>>
      s  == <<fp2_add(a[1][1], a[1][2]), fp2_add(a[2][2], a[2][3])>>
      Twice(m)        == <<fp2_addc_low(m[1], m[1]), fp2_addc_low(m[2], m[2])>>
      HalfSums(x, y)  == <<HalfSum(x[1], y[1]), HalfSum(x[2], y[2])>>
      Minus(x, y, z, k) == fp2_subc_low(fp2_subc_low(x[k], y[k]), z[k])
      Parts(u0, u1, u2, u3, u4) ==
        <<<<fp2_addc_low(u0[1], fp2_nord_low(u1[2])),
            Minus(u4, u0, u2, 1),
            fp2_addc_low(Minus(u3, u4, u1, 2), u2[1])>>,
          <<fp2_addc_low(Minus(u3, u4, u1, 1), fp2_nord_low(u2[2])),
            fp2_addc_low(u0[2], u1[1]),
            Minus(u4, u0, u2, 2)>>>>
      WithSum(u3) ==
        Parts(fp4_sqr_unr(<<a[1][1], a[2][2]>>),
              Twice(fp4_mul_unr(<<a[2][1], a[1][3]>>, t1)),
              fp4_sqr_unr(t1), u3,
              HalfSums(fp4_sqr_unr(<<fp2_sub(s[1], a[2][1]), fp2_sub(s[2], a[1][3])>>), u3))
  IN  WithSum(fp4_sqr_unr(<<fp2_add(s[1], a[2][1]), fp2_add(s[2], a[1][3])>>))

fp12_sqr(a) == fp12_rdcn(fp12_sqr_unr(a))

fp12_inv(a) ==
  LET Times(t0) == <<fp6_mul(a[1], t0), fp6_mul(fp6_neg(a[2]), t0)>>
  IN  Times(fp6_inv(fp6_sub(fp6_sqr(a[1]), fp6_mul_art(fp6_sqr(a[2])))))

(* The conjugate: the inverse of a unit of norm one. *)
fp12_inv_cyc(a) == <<a[1], fp6_neg(a[2])>>

fp12_frb1(a) ==
  <<<<fp2_frb(a[1][1]),
      fp2_mul_frb(fp2_frb(a[1][2]), 2),
      fp2_mul_frb(fp2_frb(a[1][3]), 4)>>,
    <<fp2_mul_frb(fp2_frb(a[2][1]), 1),
      fp2_mul_frb(fp2_frb(a[2][2]), 3),
      fp2_mul_frb(fp2_frb(a[2][3]), 5)>>>>

fp12_frb(a, n) ==
  LET frb[k \in 0 .. 11] == IF k = 0 THEN a ELSE fp12_frb1(frb[k - 1])
  IN  frb[n % 12]

-----------------------------------------------------------------------------
(* The cyclotomic subgroup. *)

(* The easy part of the final exponentiation, (p^6 - 1) (p^2 + 1). *)
fp12_conv_cyc(a) ==
  LET Second(c) == fp12_mul(c, fp12_frb(c, 2))
  IN  Second(fp12_mul(fp12_inv_cyc(a), fp12_inv(a)))

fp12_test_cyc(a) == fp12_mul(fp12_frb(a, 4), a) = fp12_frb(a, 2)

(* 3 t - 2 x and 3 t + 2 x. *)
Less(t, x) == fp2_add(fp2_dbl(fp2_sub(t, x)), t)
More(t, x) == fp2_add(fp2_dbl(fp2_add(t, x)), t)

(* a^2 + (QNR + i) b^2 and 2 a b, from the unreduced squares of a and b. *)
SqrNorm(ua, ub) == fp2_rdcn_low(fp2_addc_low(ua, fp2_nord_low(ub)))
TwiceProd(a, b, ua, ub) ==
  fp2_rdcn_low(fp2_subc_low(fp2_sqrn_low(fp2_add(a, b)), fp2_addc_low(ua, ub)))

(* The four coefficients of a square that sqr_pck computes. *)
PackedSqr(a) ==
  LET (* 2 a[1][0] a[0][2], from a reduced square. *)
      Cross(q10, q02) == fp2_sub(fp2_sqr(fp2_add(a[2][1], a[1][3])),
                                 fp2_rdcn_low(fp2_addc_low(q10, q02)))
      Coefs(q01, q12, q10, q02) ==
        [c10 |-> More(fp2_norm_low(TwiceProd(a[1][2], a[2][3], q01, q12)), a[2][1]),
         c02 |-> Less(SqrNorm(q01, q12), a[1][3]),
         c01 |-> Less(SqrNorm(q10, q02), a[1][2]),
         c12 |-> More(Cross(q10, q02), a[2][3])]
  IN  Coefs(fp2_sqrn_low(a[1][2]), fp2_sqrn_low(a[2][3]),
            fp2_sqrn_low(a[2][1]), fp2_sqrn_low(a[1][3]))

fp12_sqr_cyc(a) ==
  LET All(c, q00, q11) ==
        <<<<Less(SqrNorm(q00, q11), a[1][1]), c.c01, c.c02>>,
          <<c.c10, More(TwiceProd(a[1][1], a[2][2], q00, q11), a[2][2]), c.c12>>>>
  IN  All(PackedSqr(a), fp2_sqrn_low(a[1][1]), fp2_sqrn_low(a[2][2]))

(* The other two coefficients keep what they held. *)
fp12_sqr_pck(a) ==
  LET Four(c) == <<<<a[1][1], c.c01, c.c02>>, <<c.c10, a[2][2], c.c12>>>>
  IN  Four(PackedSqr(a))

(* The divisor of the decompression: 4 a[1][0], or a[0][2] where that is   *)
(* zero, or 1 for the neutral element.                                     *)
BackDivisor(a) ==
  IF a = fp12_one THEN fp2_one
  ELSE IF a[2][1] = fp2_zero THEN a[1][3]
  ELSE fp2_dbl(fp2_dbl(a[2][1]))

BackNumerator(a) ==
  LET f == a[2][1] = fp2_zero
      Sum(t)   == fp2_add(fp2_norm_low(fp2_sqr(a[2][3])),
                          fp2_add(fp2_dbl(fp2_sub(t, a[1][3])), t))
      Once(t0) == Sum(IF f THEN fp2_dbl(t0) ELSE t0)
  IN  Once(fp2_mul(a[1][2], IF f THEN a[2][3] ELSE a[1][2]))

(* The packed element with its two coefficients, given a[1][1]. *)
Unpacked(a, c11) ==
  LET Twice(t1) == fp2_sub(fp2_dbl(fp2_sub(fp2_sqr(c11), t1)), t1)
      c00 == fp2_norm_low(fp2_add(Twice(fp2_mul(a[1][3], a[1][2])),
                                  fp2_mul(a[2][1], a[2][3])))
  IN  <<<<fp2_add(c00, fp2_one), a[1][2], a[1][3]>>, <<a[2][1], c11, a[2][3]>>>>

(* All the decompressions share one inversion. *)
fp12_back_cyc_sim(a) ==
  LET Backs(inv) == [k \in 1 .. Len(a) |->
                       Unpacked(a[k], fp2_mul(BackNumerator(a[k]), inv[k]))]
  IN  Backs(fp2_inv_sim([k \in 1 .. Len(a) |-> BackDivisor(a[k])]))

(* The product of a nonempty sequence. *)
Product(u) ==
  LET prod[k \in 1 .. Len(u)] == IF k = 1 THEN u[1] ELSE fp12_mul(prod[k - 1], u[k])
  IN  prod[Len(u)]

Abs(n) == IF n < 0 THEN -n ELSE n

InvIf(neg, a) == IF neg THEN fp12_inv_cyc(a) ELSE a

(* a to the power of the sum of 2^b[k], or -2^-b[k] for the negative ones. *)
(* The term for 2^0 comes first: it is a, and takes no part in the rest.   *)
fp12_exp_cyc_sps(a, b, negative) ==
  LET zero == b[1] = 0
      rest == IF zero THEN Tail(b) ELSE b
      packed[j \in 0 .. Abs(b[Len(b)])] ==
        IF j = 0 THEN a ELSE fp12_sqr_pck(packed[j - 1])
      Terms(of) == [k \in 1 .. Len(rest) |-> InvIf(rest[k] < 0, of[Abs(rest[k])])]
      Powers    == IF rest = <<>> THEN <<>> ELSE fp12_back_cyc_sim(Terms(packed))
  IN  IF b = <<>> THEN fp12_one
      ELSE InvIf(negative, Product((IF zero THEN <<a>> ELSE <<>>) \o Powers))
=============================================================================
