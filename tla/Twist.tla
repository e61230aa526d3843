--------------------------------- MODULE Twist ---------------------------------
(***************************************************************************)
(* Points of the twist and the line functions of the optimal ate pairing   *)
(* (pp_add_k12.c, pp_dbl_k12.c): projective coordinates <<x, y, z>> over   *)
(* fp2, a curve with a = 0 and a twist of type D.  A step returns the new  *)
(* point t and the line l through the points, at a point p of the curve.   *)
(***************************************************************************)
EXTENDS Tower12, Curve

(* ctx->ep2_b, of the twist: B / (QNR + i). *)
ep2_b == fp2_mul(<<Monty(B), 0>>, fp2_inv(<<Monty(QNR), one>>))

fp2_triple(a) == fp2_add(fp2_dbl(a), a)

(* l[0][0], l[1][0] and l[1][1]; the others stay zero. *)
Line(l00, l10, l11) ==
  <<<<l00, fp2_zero, fp2_zero>>, <<l10, l11, fp2_zero>>>>

(* Mutant: the wrong multiple of b's square in the new y. *)
EightTimes(a) == fp2_dbl(fp2_dbl(fp2_dbl(a)))
TwelveTimes(a) ==
  LET Triple(a4) == fp2_add(fp2_dbl(a4), a4) IN Triple(fp2_dbl(fp2_dbl(a)))

(* p comes with 3x and -y. *)
pp_dbl_k12(q, p) ==
  LET Step(t0, t1, t3, t4, t5, t6) ==
        [t |-> <<fp2_mul(fp2_sub(t1, t6), t4),
                 fp2_sub(fp2_sqr(fp2_add(t6, t1)), TwelveTimes(fp2_sqr(t3))),
                 fp2_mul(fp2_dbl(fp2_dbl(t1)), t5)>>,
         l |-> Line(fp2_mul_fp(t5, p[2]), fp2_mul_fp(t0, p[1]), fp2_sub(t3, t1))]
      Squares(t0, t1, t2, t3) ==
        Step(t0, t1, t3,
             fp2_sub(fp2_sub(fp2_sqr(fp2_add(q[1], q[2])), t0), t1),
             fp2_sub(fp2_sqr(fp2_add(q[2], q[3])), fp2_add(t1, t2)),
             fp2_triple(t3))
      WithZ(t2) == Squares(fp2_sqr(q[1]), fp2_sqr(q[2]), t2, fp2_mul(fp2_triple(t2), ep2_b))
  IN  WithZ(fp2_sqr(q[3]))

(* r + q for an affine q. *)
pp_add_k12(r, q, p) ==
  LET Cross(a, b, c, d) ==
        fp2_rdcn_low(fp2_subc_low(fp2_muln_low(a, b), fp2_muln_low(c, d)))
      Step(t0, t1, x, t2, t3) ==
        [t |-> <<fp2_mul(t0, t3), Cross(t1, fp2_sub(x, t3), t2, r[2]),
                 fp2_mul(r[3], t2)>>,
         l |-> Line(fp2_mul_fp(t0, p[2]), fp2_mul_fp(t1, fp_negm_low(p[1])),
                    Cross(q[1], t1, q[2], t0))]
      WithX(t0, t1, x, t2) ==
        Step(t0, t1, x, t2,
             fp2_sub(fp2_sub(fp2_add(t2, fp2_mul(fp2_sqr(t1), r[3])), x), x))
      WithSquare(t0, t1, s) == WithX(t0, t1, fp2_mul(s, r[1]), fp2_mul(t0, s))
      Slopes(t0, t1) == WithSquare(t0, t1, fp2_sqr(t0))
  IN  Slopes(fp2_sub(r[1], fp2_mul(r[3], q[1])), fp2_sub(r[2], fp2_mul(r[3], q[2])))

ep2_neg(q) == <<q[1], fp2_neg(q[2]), q[3]>>

(* Frobenius, by way of the untwisted curve. *)
ep2_frb1(q) == <<fp2_mul(fp2_frb(q[1]), fp2_p1[2]),
                 fp2_mul(fp2_frb(q[2]), fp2_p1[3]), fp2_frb(q[3])>>
================================================================================
