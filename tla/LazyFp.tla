-------------------------------- MODULE LazyFp --------------------------------
(***************************************************************************)
(* The prime field of RELIC as the device's verifier builds it: Montgomery *)
(* form, one conditional subtraction per operation, and double-precision   *)
(* values (dv_t) that the towers add and subtract before they reduce them  *)
(* (FPX_RDC = LAZYR).  A field element is an integer below R, a dv_t one   *)
(* below R^2; every operation keeps that width, so what does not fit wraps *)
(* as it does in the digit vectors.                                        *)
(*                                                                         *)
(* relic_fp.h defines RLC_FP_ROOM for a 254-bit prime on 32-bit digits:    *)
(* two bits of the top digit are free, and the towers rely on it by adding *)
(* elements without reducing the sum.  RoomAssumption says what they need. *)
(***************************************************************************)
EXTENDS Integers

CONSTANTS
  P,   (* fp_prime_get()                                                    *)
  R    (* 2^(RLC_DIG * RLC_FP_DIGS): the capacity of an fp_t                *)

ASSUME LazyFpAssumption ==
  /\ P \in Nat /\ R \in Nat
  /\ P > 2 /\ P % 2 = 1

(* Sums of four elements fit an fp_t. *)
ASSUME RoomAssumption == 4 * P < R

(* P is odd and R a power of two, so that -1 / P modulo R exists. *)
ASSUME MontyAssumption == \E u \in 0 .. R - 1 : (u * P) % R = R - 1

Fp == 0 .. P - 1      \* the canonical elements
DV == 0 .. R * R - 1  \* what a dv_t can hold

-----------------------------------------------------------------------------
(* Single precision.  *)

(* No reduction: the carry is dropped by every caller. *)
fp_addn_low(a, b) == (a + b) % R
fp_dbln_low(a)    == fp_addn_low(a, a)

fp_addm_low(a, b) == IF a + b >= P THEN (a + b - P) % R ELSE a + b
fp_subm_low(a, b) == IF a < b THEN (a - b + P) % R ELSE a - b
fp_negm_low(a)    == IF a = 0 THEN 0 ELSE (P - a) % R
fp_dblm_low(a)    == fp_addm_low(a, a)
fp_hlvm_low(a)    == (IF a % 2 = 1 THEN a + P ELSE a) \div 2

-----------------------------------------------------------------------------
(* Double precision.  addc and subc stay below P * R, addd and subd do     *)
(* not reduce.                                                             *)

fp_addd_low(a, b) == (a + b) % (R * R)
fp_subd_low(a, b) == (a - b) % (R * R)

fp_addc_low(a, b) == IF a + b >= P * R THEN (a + b - P * R) % (R * R) ELSE a + b

fp_subc_low(a, b) == IF a < b THEN (a - b + P * R) % (R * R) ELSE a - b

(* Halving: the prime is added to an odd value, not P * R. *)
fp_hlvd_low(a) == ((IF a % 2 = 1 THEN a + P ELSE a) % (R * R)) \div 2

fp_muln_low(a, b) == a * b

-----------------------------------------------------------------------------
(* Montgomery reduction. *)

(* ctx->u taken over the whole vector: -1 / P modulo R. *)
MontyU == CHOOSE u \in 0 .. R - 1 : (u * P) % R = R - 1

(* The multiple of P that clears the low half. *)
MontyM(t) == ((t % R) * MontyU) % R

(* Mutant: no final subtraction. *)
NoFinalSub(t) == ((t + MontyM(t) * P) \div R) % R

(* One subtraction at most, also when the carry r1 is set. *)
fp_rdcn_low(t) ==
  LET Subtracted(q) == IF q >= P THEN (q - P) % R ELSE q
  IN  Subtracted((t + MontyM(t) * P) \div R)

fp_mul(a, b) == fp_rdcn_low(fp_muln_low(a, b))
fp_sqr(a)    == fp_mul(a, a)

(* ctx->one, and the conversion of a small integer. *)
one == R % P
fp_prime_conv_dig(n) == (n * one) % P

(* What fp_inv promises, by Fermat's theorem: the inverse of a # 0. *)
fp_inv(a) ==
  LET pow[e \in 0 .. P - 2] ==
        IF e = 0 THEN one
        ELSE LET s == fp_sqr(pow[e \div 2])
             IN  IF e % 2 = 0 THEN s ELSE fp_mul(s, a)
  IN  pow[P - 2]

-----------------------------------------------------------------------------
(* What the operations are to compute: arithmetic modulo P on the numbers  *)
(* that elements and reductions stand for.                                 *)

RInv == CHOOSE x \in Fp : (x * (R % P)) % P = 1

(* The number an element in Montgomery form stands for. *)
Plain(a) == (a * RInv) % P

(* The element for a number. *)
Monty(n) == (n * (R % P)) % P

(* The reciprocal modulo P, from that of a remainder of P. *)
InvMod[x \in 0 .. P - 1] == IF x < 2 THEN x ELSE ((P - P \div x) * InvMod[P % x]) % P
=============================================================================
