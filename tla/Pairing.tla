-------------------------------- MODULE Pairing --------------------------------
(***************************************************************************)
(* The product of optimal ate pairings that both verifiers compute:        *)
(* pp_map_sim_oatep_k12 leaves out the pairs with a point at infinity,     *)
(* runs one Miller loop over all the others (pp_mil_k12, an action per     *)
(* digit of the parameter), adds two more lines for each (pp_fin_k12) and  *)
(* raises the result to the final exponent (pp_exp_k12).                   *)
(*                                                                         *)
(* The points are multiples of two generators, so that what the product    *)
(* must be is known from the multipliers.                                  *)
(***************************************************************************)
EXTENDS ExactField, Recoding

CONSTANTS
  Gen1,     (* a generator of G1, as plain coordinates <<x, y>>             *)
  Gen2,     (* a generator of G2 on the twist                               *)
  Inputs,   (* sequences of pairs <<a, b>>: multiples of the generators     *)
  Loops     (* "oatep": the loop over 6u + 2 with two more lines, which is  *)
            (* what the code runs; "ate": pp_mil_k12 over 6u^2 alone, also  *)
            (* a pairing.  A small 6u + 2 has a single digit, 6u^2 has      *)
            (* digits of both signs.                                        *)

ASSUME PairingAssumption ==
  /\ Loops \subseteq {"oatep", "ate"}
  /\ Gen1 \in Complex /\ Gen2 \in Complex \X Complex
  /\ Inputs \subseteq Seq(Nat \X Nat)
  /\ Multiple(Order, <<<<Gen1[1], 0>>, <<Gen1[2], 0>>>>) = Infinity
  /\ Multiple(Order, Gen2) = Infinity

(* ep_set_infty: every coordinate zero. *)
G1(a) ==
  LET Point(m) == IF m = Infinity THEN <<0, 0, 0>>
                  ELSE <<Monty(m[1][1]), Monty(m[2][1]), one>>
  IN  Point(Multiple(a, <<<<Gen1[1], 0>>, <<Gen1[2], 0>>>>))
G2(b) ==
  LET Point(m) == IF m = Infinity THEN <<fp2_zero, fp2_zero, fp2_zero>>
                  ELSE <<Monty2(m[1]), Monty2(m[2]), fp2_one>>
  IN  Point(Multiple(b, Gen2))

-----------------------------------------------------------------------------
(* The final exponentiation. *)

(* par_sps: the exponents of two in |u|, negative for those subtracted; a  *)
(* lowest digit of -1 becomes 1 - 2, as it could not carry a sign.         *)
par_sps ==
  LET s0 == bn_rec_naf(Par, 2)
      s  == IF s0[1] = -1 THEN [s0 EXCEPT ![1] = 1, ![2] = -1] ELSE s0
      terms[i \in 0 .. Len(s)] ==
        IF i = 0 \/ (i > 0 /\ s[i] = 0)
        THEN (IF i = 0 THEN <<>> ELSE terms[i - 1])
        ELSE Append(terms[i - 1], s[i] * (i - 1))
  IN  terms[Len(s)]

Exp(a) == fp12_exp_cyc_sps(a, par_sps, FALSE)

(* Mutant: the powers of a negative parameter not inverted. *)
Unsigned(a) == a
Signed(a)   == IF Par < 0 THEN fp12_inv_cyc(a) ELSE a

(* m is a after the easy part; what is computed from a power of m takes it *)
(* as an argument.                                                         *)
pp_exp_bn(a) ==
  LET Last(m, t0, t2, t3) ==
        Product(<<fp12_frb(fp12_mul(fp12_inv_cyc(m), t0), 3), t2, t3, m,
                  fp12_frb(t0, 1), fp12_frb(t3, 2)>>)
      Fourth(m, m2x, t2, t3) == Last(m, fp12_mul(fp12_inv_cyc(Signed(m2x)), t3), t2, t3)
      Third(m, m2x, m6x, t2) ==
        Fourth(m, m2x, t2,
               Product(<<Signed(Exp(fp12_sqr_cyc(t2))), t2, Signed(m6x)>>))
      Second(m, m2x, m6x) == Third(m, m2x, m6x, Exp(m6x))
      First(m, m2x)       == Second(m, m2x, fp12_mul(fp12_sqr_cyc(m2x), m2x))
      Hard(m)             == First(m, fp12_sqr_cyc(Exp(m)))
  IN  Hard(fp12_conv_cyc(a))

-----------------------------------------------------------------------------
VARIABLES
  input,   (* the multiples                                                 *)
  loop,    (* which loop                                                    *)
  pc,      (* start, digit, fin, exp, done                                  *)
  pq,      (* _p, _q: the pairs without a point at infinity                 *)
  t,       (* the points of the Miller loop, one for each pair              *)
  i,       (* the digits still to come                                      *)
  r,       (* the accumulator, and the result                               *)
  n,       (* history: the multiple of q that t is, modulo the order        *)
  exact    (* history: the accumulator in exact arithmetic                  *)

vars == <<input, loop, pc, pq, t, i, r, n, exact>>

Init == /\ input \in Inputs
        /\ loop \in Loops
        /\ pc = "start"
        /\ pq = <<>> /\ t = <<>> /\ i = 0
        /\ r = fp12_one
        /\ n = 1
        /\ exact = One12

param  == IF loop = "oatep" THEN 6 * Par + 2 ELSE 6 * Par * Par
digits == bn_rec_naf(param, 2)

(* Mutant: only the point of the curve is looked at. *)
OnlyFirst(p, q) == p[3] = 0
Skipped(p, q)   == p[3] = 0 \/ q[3] = fp2_zero

(* Compaction; without a pair the result is one. *)
pp_map_sim_oatep_k12 ==
  /\ pc = "start"
  /\ pq' = LET Also(s, p, q) == IF Skipped(p, q) THEN s ELSE Append(s, <<p, q>>)
               kept[k \in 0 .. Len(input)] ==
                 IF k = 0 THEN <<>>
                 ELSE Also(kept[k - 1], G1(input[k][1]), G2(input[k][2]))
           IN  kept[Len(input)]
  /\ t' = [j \in 1 .. Len(pq') |-> pq'[j][2]]
  /\ i' = Len(digits) - 1
  /\ pc' = IF pq' = <<>> THEN "done" ELSE "digit"
  /\ UNCHANGED <<input, loop, r, n, exact>>

(* _p[j]: 3x and -y, for the doublings. *)
Tripled(p) == <<fp_addm_low(fp_addm_low(p[1], p[1]), p[1]), fp_negm_low(p[2])>>

(* The lines of one digit, all pairs in turn. *)
Doubled(j) == pp_dbl_k12(t[j], Tripled(pq[j][1]))
Added(s, j, d) == pp_add_k12(s.t, IF d > 0 THEN pq[j][2] ELSE ep2_neg(pq[j][2]),
                             pq[j][1])

Steps(d) ==
  LET Both(s, j) == IF d = 0 THEN <<s>> ELSE <<s, Added(s, j, d)>>
  IN  [j \in 1 .. Len(pq) |-> Both(Doubled(j), j)]

Lines(steps) ==
  LET all[j \in 0 .. Len(steps)] ==
        IF j = 0 THEN <<>>
        ELSE all[j - 1] \o [k \in 1 .. Len(steps[j]) |-> steps[j][k].l]
  IN  all[Len(steps)]

(* The accumulator times a sequence of lines; a line is its first value.   *)
TimesLines(a, ls) ==
  LET prod[k \in 0 .. Len(ls)] == IF k = 0 THEN a ELSE fp12_mul_dxs(prod[k - 1], ls[k])
  IN  prod[Len(ls)]
ExactLines(a, ls) ==
  LET prod[k \in 0 .. Len(ls)] == IF k = 0 THEN a ELSE Mul12(prod[k - 1], Plain12(ls[k]))
  IN  prod[Len(ls)]

(* The digit below the leading one finds r not started: its first line is  *)
(* the accumulator.  (There the code doubles for every pair before it adds *)
(* for any; the lines are the same.)                                       *)
Times(ls) ==
  /\ r' = IF i = Len(digits) - 1 THEN TimesLines(ls[1], Tail(ls))
          ELSE TimesLines(fp12_sqr(r), ls)
  /\ exact' = ExactLines(Mul12(exact, exact), ls)
Moved(steps) ==
  /\ t' = [j \in 1 .. Len(pq) |-> steps[j][Len(steps[j])].t]
  /\ Times(Lines(steps))

pp_mil_k12 ==
  /\ pc = "digit" /\ i > 0
  /\ Moved(Steps(digits[i]))
  /\ n' = 2 * n + digits[i]
  /\ i' = i - 1
  /\ UNCHANGED <<input, loop, pc, pq>>

(* The signs of a negative parameter, and the end of a loop that is alone. *)
MillerDone ==
  /\ pc = "digit" /\ i = 0
  /\ IF param < 0 THEN /\ r' = fp12_inv_cyc(r)
                       /\ exact' = Conjugate(exact)
                       /\ t' = [j \in 1 .. Len(t) |-> ep2_neg(t[j])]
                       /\ n' = -n
                  ELSE UNCHANGED <<r, exact, t, n>>
  /\ pc' = IF loop = "oatep" THEN "fin" ELSE "exp"
  /\ i' = 1
  /\ UNCHANGED <<input, loop, pq>>

(* Two lines more, through the images of q under Frobenius, for pair i.    *)
pp_fin_k12_oatep ==
  /\ pc = "fin"
  /\ LET Both(s1, s2)  == /\ r' = TimesLines(r, <<s1.l, s2.l>>)
                          /\ exact' = ExactLines(exact, <<s1.l, s2.l>>)
                          /\ t' = [t EXCEPT ![i] = s2.t]
         Second(s1, q1) == Both(s1, pp_add_k12(s1.t, ep2_neg(ep2_frb1(q1)), pq[i][1]))
         First(q1)      == Second(pp_add_k12(t[i], q1, pq[i][1]), q1)
     IN  First(ep2_frb1(pq[i][2]))
  /\ i' = i + 1
  /\ pc' = IF i = Len(pq) THEN "exp" ELSE "fin"
  /\ n' = IF i = Len(pq) THEN n + P - P * P ELSE n
  /\ UNCHANGED <<input, loop, pq>>

pp_exp_k12 ==
  /\ pc = "exp"
  /\ r' = pp_exp_bn(r)
  /\ pc' = "done"
  /\ UNCHANGED <<input, loop, pq, t, i, n, exact>>

Next == pp_map_sim_oatep_k12 \/ pp_mil_k12 \/ MillerDone \/ pp_fin_k12_oatep \/ pp_exp_k12

Spec == Init /\ [][Next]_vars

-----------------------------------------------------------------------------
(* Types: the coefficients of the accumulator are canonical, so that equal *)
(* values are equal digits and fp12_cmp may compare them.                  *)
CanonicalSix(a) == \A k \in 1 .. 3, j \in 1 .. 2 : a[k][j] \in Fp
TypeOK ==
  /\ pc \in {"start", "digit", "fin", "exp", "done"}
  /\ i \in Nat /\ n \in Int
  /\ CanonicalSix(r[1]) /\ CanonicalSix(r[2])
  /\ \A j \in DOMAIN t : CanonicalSix(t[j])

(* The lazily reduced arithmetic loses nothing: the accumulator stands for *)
(* what exact polynomial arithmetic makes of the same lines.               *)
ExactMiller == pc \in {"digit", "fin", "exp"} => Plain12(r) = exact

(* Montgomery reduction subtracts the prime once at most.  Every value     *)
(* that reaches it must be below P * R + P.                                *)
Reducible(six) == \A k \in 1 .. 3, j \in 1 .. 2 : six[k][j] < P * R + P
LazyWithinReach ==
  LET sq == fp12_sqr_unr(r)
      pr == fp12_mul_unr(r, fp12_frb(r, 1))
  IN  /\ Reducible(sq[1]) /\ Reducible(sq[2])
      /\ Reducible(pr[1]) /\ Reducible(pr[2])

(* The point of the Miller loop is the multiple of q that the digits read  *)
(* so far make, and after the two last lines the one that cancels the      *)
(* third image under Frobenius; no step meets an exceptional case.         *)
Affine(pt) == LET z == Inv2(Plain2(pt[3]))
              IN  <<Mul2(Plain2(pt[1]), z), Mul2(Plain2(pt[2]), z)>>
AtMultiple ==
  pc \in {"digit", "exp"} =>
    \A j \in DOMAIN t :
      /\ t[j][3] # fp2_zero
      /\ Affine(t[j]) = Multiple(n % Order, <<Plain2(pq[j][2][1]), Plain2(pq[j][2][2])>>)

(* What Groth16 verification rests on: the product of the pairings is one  *)
(* exactly if the products of the multipliers add up to zero.              *)
Bilinear ==
  LET sum[k \in 0 .. Len(input)] ==
        IF k = 0 THEN 0 ELSE (sum[k - 1] + input[k][1] * input[k][2]) % Order
  IN  pc = "done" => (r = fp12_one <=> sum[Len(input)] = 0)
================================================================================
