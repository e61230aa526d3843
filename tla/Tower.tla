-------------------------------- MODULE Tower --------------------------------
(***************************************************************************)
(* The extension fields of the pairing, as RELIC computes in them:         *)
(* fp2 = fp[i] with i^2 = -1, fp6 = fp2[v] with v^3 = QNR + i, and         *)
(* fp12 = fp6[w] with w^2 = v.  Products stay in double precision (the     *)
(* operators ending in _unr and muln, sqrn, nord) and each coefficient of  *)
(* a result is reduced once.  Coefficients c[i] of the code are c[i + 1].  *)
(***************************************************************************)
EXTENDS LazyFp, Sequences

CONSTANT QNR   (* fp2_field_get_qnr(): 9 for BN254 with Ethereum's seed     *)

ASSUME TowerAssumption == QNR \in Nat \ {0} /\ P % 8 = 7

-----------------------------------------------------------------------------
(* fp2 *)

fp2_addn_low(a, b) == <<fp_addn_low(a[1], b[1]), fp_addn_low(a[2], b[2])>>
fp2_add(a, b)      == <<fp_addm_low(a[1], b[1]), fp_addm_low(a[2], b[2])>>
fp2_sub(a, b)      == <<fp_subm_low(a[1], b[1]), fp_subm_low(a[2], b[2])>>
fp2_neg(a)         == <<fp_negm_low(a[1]), fp_negm_low(a[2])>>
fp2_dbl(a)         == fp2_add(a, a)
fp2_addc_low(a, b) == <<fp_addc_low(a[1], b[1]), fp_addc_low(a[2], b[2])>>
fp2_addd_low(a, b) == <<fp_addd_low(a[1], b[1]), fp_addd_low(a[2], b[2])>>
fp2_subc_low(a, b) == <<fp_subc_low(a[1], b[1]), fp_subc_low(a[2], b[2])>>
fp2_hlvd_low(a)    == <<fp_hlvd_low(a[1]), fp_hlvd_low(a[2])>>
fp2_rdcn_low(a)    == <<fp_rdcn_low(a[1]), fp_rdcn_low(a[2])>>

fp2_zero == <<0, 0>>
fp2_one  == <<one, 0>>

(* Mutant: the sums of the coefficients reduced into a smaller room. *)
NarrowMuln(a, b) ==
  LET Parts(c0, c1, t2) == <<fp_subd_low(c0, c1), fp_subd_low(t2, fp_addd_low(c0, c1))>>
  IN  Parts(fp_muln_low(a[1], b[1]), fp_muln_low(a[2], b[2]),
            fp_muln_low(fp_addn_low(a[1], a[2]), fp_addn_low(b[1], b[2])))

(* Karatsuba over i^2 = -1; the sums are not reduced. *)
fp2_muln_low(a, b) ==
  LET Parts(c0, c1, t2) == <<fp_subc_low(c0, c1), fp_subd_low(t2, fp_addd_low(c0, c1))>>
  IN  Parts(fp_muln_low(a[1], b[1]), fp_muln_low(a[2], b[2]),
            fp_muln_low(fp_addn_low(a[1], a[2]), fp_addn_low(b[1], b[2])))

fp2_sqrn_low(a) ==
  <<fp_muln_low(fp_addn_low(a[1], a[2]), fp_subm_low(a[1], a[2])),
    fp_muln_low(fp_dblm_low(a[1]), a[2])>>

fp2_mul(a, b) == fp2_rdcn_low(fp2_muln_low(a, b))
fp2_sqr(a)    == fp2_rdcn_low(fp2_sqrn_low(a))

fp2_mul_fp(a, n) == <<fp_mul(a[1], n), fp_mul(a[2], n)>>

(* By i, and by QNR + i: reduced, and in double precision. *)
fp2_mul_art(a) == <<fp_negm_low(a[2]), a[1]>>
fp2_norm_low(a) == fp2_add(fp2_mul_fp(a, fp_prime_conv_dig(QNR)), fp2_mul_art(a))

Repeat(x) == LET sum[n \in 0 .. QNR] == IF n = 0 THEN 0
                                        ELSE fp_addc_low(sum[n - 1], x)
             IN  sum[QNR]

(* Mutant: the two products of i swapped in sign. *)
NordPlus(a) == <<fp_addc_low(Repeat(a[1]), a[2]), fp_addc_low(Repeat(a[2]), a[1])>>

fp2_nord_low(a) ==
  <<fp_subc_low(Repeat(a[1]), a[2]), fp_addc_low(Repeat(a[2]), a[1])>>

fp2_inv(a) ==
  LET Times(n) == <<fp_mul(a[1], n), fp_negm_low(fp_mul(a[2], n))>>
  IN  Times(fp_inv(fp_addm_low(fp_sqr(a[1]), fp_sqr(a[2]))))

(* Montgomery's trick: one inversion for a whole vector.  prods holds the  *)
(* products of the first elements, u the inverse of what is left of them.  *)
fp2_inv_sim(a) ==
  LET n == Len(a)
      prods[k \in 1 .. n] ==
        IF k = 1 THEN <<a[1]>>
        ELSE LET Times(c) == Append(c, fp2_mul(c[k - 1], a[k])) IN Times(prods[k - 1])
      Backward(c) ==
        LET back[k \in 1 .. n] ==
              IF k = n THEN [u |-> fp2_inv(c[n]), inv |-> <<>>]
              ELSE LET Step(s) == [u   |-> fp2_mul(s.u, a[k + 1]),
                                   inv |-> <<fp2_mul(c[k], s.u)>> \o s.inv]
                   IN  Step(back[k + 1])
            All(b) == <<b.u>> \o b.inv
        IN  All(back[1])
  IN  Backward(prods[n])

fp2_frb(a) == <<a[1], fp_negm_low(a[2])>>

(* ctx->fp2_p1: the powers 1 .. 5 of (QNR + i)^((P - 1) / 6). *)
fp2_p1 ==
  LET pow[e \in 0 .. P] ==
        IF e = 0 THEN fp2_one
        ELSE LET s == fp2_sqr(pow[e \div 2])
             IN  IF e % 2 = 0 THEN s ELSE fp2_norm_low(s)
      Powers(g) ==
        LET to[k \in 1 .. 5] == IF k = 1 THEN <<g>>
                                ELSE Append(to[k - 1], fp2_mul(to[k - 1][k - 1], g))
        IN  to[5]
  IN  Powers(pow[(P - 1) \div 6])

fp2_mul_frb(a, j) == fp2_mul(a, fp2_p1[j])

-----------------------------------------------------------------------------
(* fp4 and fp6, unreduced. *)

fp4_mul_unr(a, b) ==
  LET Parts(u0, u1, c1) ==
        <<fp2_addc_low(fp2_nord_low(u1), u0), fp2_subc_low(fp2_subc_low(c1, u0), u1)>>
  IN  Parts(fp2_muln_low(a[1], b[1]), fp2_muln_low(a[2], b[2]),
            fp2_muln_low(fp2_add(a[1], a[2]), fp2_add(b[1], b[2])))

fp4_sqr_unr(a) ==
  LET Parts(u0, u1) ==
        <<fp2_addc_low(fp2_nord_low(u1), u0),
          fp2_subc_low(fp2_sqrn_low(fp2_add(a[1], a[2])), fp2_addc_low(u1, u0))>>
  IN  Parts(fp2_sqrn_low(a[1]), fp2_sqrn_low(a[2]))

(* The sums of elements are not reduced: with those of fp2_muln_low, four  *)
(* elements are added before a product.                                    *)
fp6_mul_unr(a, b) ==
  LET Cross(i, j, s) ==
        fp2_subc_low(fp2_muln_low(fp2_addn_low(a[i], a[j]), fp2_addn_low(b[i], b[j])), s)
      Parts(u0, u1, u2) ==
        <<fp2_addc_low(fp2_nord_low(Cross(2, 3, fp2_addc_low(u1, u2))), u0),
          fp2_addc_low(Cross(1, 2, fp2_addc_low(u0, u1)), fp2_nord_low(u2)),
          fp2_addc_low(Cross(1, 3, fp2_addc_low(u0, u2)), u1)>>
  IN  Parts(fp2_muln_low(a[1], b[1]), fp2_muln_low(a[2], b[2]), fp2_muln_low(a[3], b[3]))

fp6_sqr_unr(a) ==
  LET t3 == fp2_add(a[1], a[3])
      Parts(u0, u1, u2, u3, u4) ==
        <<fp2_addc_low(u0, fp2_nord_low(u1)),
          fp2_addc_low(fp2_subc_low(u3, fp2_addc_low(u1, u4)), fp2_nord_low(u2)),
          fp2_subc_low(u4, fp2_addc_low(u0, u2))>>
      WithSum(u3) ==
        Parts(fp2_sqrn_low(a[1]), fp2_muln_low(fp2_dbl(a[2]), a[3]), fp2_sqrn_low(a[3]), u3,
              fp2_hlvd_low(fp2_addc_low(fp2_sqrn_low(fp2_sub(t3, a[2])), u3)))
  IN  WithSum(fp2_sqrn_low(fp2_add(t3, a[2])))

fp6_add(a, b)   == <<fp2_add(a[1], b[1]), fp2_add(a[2], b[2]), fp2_add(a[3], b[3])>>
fp6_sub(a, b)   == <<fp2_sub(a[1], b[1]), fp2_sub(a[2], b[2]), fp2_sub(a[3], b[3])>>
fp6_neg(a)      == <<fp2_neg(a[1]), fp2_neg(a[2]), fp2_neg(a[3])>>
fp6_rdcn(a)     == <<fp2_rdcn_low(a[1]), fp2_rdcn_low(a[2]), fp2_rdcn_low(a[3])>>
fp6_mul(a, b)   == fp6_rdcn(fp6_mul_unr(a, b))
fp6_sqr(a)      == fp6_rdcn(fp6_sqr_unr(a))
fp6_mul_art(a)  == <<fp2_norm_low(a[3]), a[1], a[2]>>

fp6_inv(a) ==
  LET Scaled(v0, v1, v2, t0) == <<fp2_mul(v0, t0), fp2_mul(v1, t0), fp2_mul(v2, t0)>>
      Parts(v0, v1, v2) ==
        Scaled(v0, v1, v2,
               fp2_inv(fp2_add(fp2_add(fp2_mul(a[1], v0), fp2_norm_low(fp2_mul(a[2], v2))),
                               fp2_norm_low(fp2_mul(a[3], v1)))))
  IN  Parts(fp2_sub(fp2_sqr(a[1]), fp2_norm_low(fp2_mul(a[2], a[3]))),
            fp2_sub(fp2_norm_low(fp2_sqr(a[3])), fp2_mul(a[1], a[2])),
            fp2_sub(fp2_sqr(a[2]), fp2_mul(a[1], a[3])))

(* By b = <<b0, b1, 0>>, as the lines of the Miller loop are. *)
fp6_mul_dxs_unr_lazyr(a, b) ==
  LET Parts(u0, u1, u2) ==
        <<fp2_addc_low(u0, fp2_nord_low(fp2_muln_low(a[3], b[2]))),
          fp2_subc_low(fp2_subc_low(u2, u0), u1),
          fp2_addc_low(u1, fp2_muln_low(a[3], b[1]))>>
  IN  Parts(fp2_muln_low(a[1], b[1]), fp2_muln_low(a[2], b[2]),
            fp2_muln_low(fp2_add(a[1], a[2]), fp2_add(b[1], b[2])))
=============================================================================
