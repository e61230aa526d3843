------------------------------- MODULE Recoding -------------------------------
(***************************************************************************)
(* Signed-digit recodings of scalars (bn/relic_bn_rec.c).                  *)
(***************************************************************************)
EXTENDS Integers, Sequences

(* 2^m. *)
Pow2[m \in Nat] == IF m = 0 THEN 1 ELSE 2 * Pow2[m - 1]

Mag(n) == IF n < 0 THEN -n ELSE n

(* Mutant: the digit 2^(w - 1) + 1 .. 2^w - 1 not made negative. *)
PositiveDigit(t, w) == IF t % 2 = 0 THEN 0 ELSE t % Pow2[w]

(* The next digit for what is left of the scalar: odd, below 2^(w - 1).    *)
NafDigit(t, w) ==
  IF t % 2 = 0 THEN 0
  ELSE IF t % Pow2[w] > Pow2[w - 1] THEN (t % Pow2[w]) - Pow2[w] ELSE t % Pow2[w]

(* Of the absolute value, least significant digit first; *len is Len.      *)
bn_rec_naf(k, w) ==
  LET digits[t \in Nat] ==
        IF t = 0 THEN <<>>
        ELSE LET u == NafDigit(t, w) IN <<u>> \o digits[(t - u) \div 2]
  IN  digits[Mag(k)]

-----------------------------------------------------------------------------
(* Decomposition of a scalar along an endomorphism, k = k0 + k1 * lambda    *)
(* (bn_rec_glv), on two short vectors that ep_curve_set_endom prepares.     *)

Sign(n) == IF n < 0 THEN -1 ELSE 1
Bits(n) == LET b[m \in Nat] == IF m = 0 THEN 0 ELSE 1 + b[m \div 2] IN b[n]

(* Toward zero, as bn_hlv; and the flooring division of bn_div. *)
Halved(n)   == Sign(n) * (Mag(n) \div 2)
bn_div(a, b) == IF b < 0 THEN (-a) \div (-b) ELSE a \div b

(* Two rows of Euclid's extended algorithm, a remainder and the coefficient *)
(* it has of l, and the row they give.                                      *)
Rows        == (Nat \X Int) \X (Nat \X Int)
Below(a, b) == <<a[1] % b[1], a[2] - (a[1] \div b[1]) * b[2]>>

(* The first remainder below the square root of n, (c, d), and the shorter *)
(* of its two neighbours.                                                  *)
bn_gcd_ext_mid(l, n) ==
  LET rows[p \in Rows] == IF (p[2][1] + 1) * (p[2][1] + 1) > n
                          THEN rows[<<p[2], Below(p[1], p[2])>>] ELSE p
      Vector(a)        == <<a[1], -a[2]>>
      Norm2(v)         == v[1] * v[1] + v[2] * v[2]
      Shorter(v, w)    == IF Norm2(v) < Norm2(w) THEN v ELSE w
      Short(p)         == [cd |-> Vector(p[2]),
                           ef |-> Shorter(Vector(p[1]), Vector(Below(p[1], p[2])))]
  IN  Short(rows[<<<<n, 0>>, <<l, 1>>>>])

(* <<v1, v2>>, each with the factor its multiplier is computed with first. *)
Lattice(l, n) ==
  LET g   == bn_gcd_ext_mid(l, n)
      m   == Halved(g.cd[1] * g.ef[2] - g.cd[2] * g.ef[1])
      Scaled(x) == Sign(x) * Mag(x) * Pow2[Bits(n) + 1]
      Up(q)     == IF q < 0 THEN q + 1 ELSE q
      a1 == Up(bn_div(Scaled(g.ef[2]) + Sign(g.ef[2]) * m, 2 * m))
      a2 == -Up(bn_div(Scaled(g.cd[2]) + Sign(g.cd[2]) * 2 * m, 2 * m))
  IN  <<<<a1, g.cd[1], g.cd[2]>>, <<a2, g.ef[1], g.ef[2]>>>>

Rounded(k, v, n) ==
  LET x == k * Mag(v)
  IN  Sign(v) * ((x \div Pow2[Bits(n) + 1]) + ((x \div Pow2[Bits(n)]) % 2))

bn_rec_glv(k, n, v1, v2) ==
  LET b1 == Rounded(k, v1[1], n)
      b2 == Rounded(k, v2[1], n)
  IN  <<k - b1 * v1[2] - b2 * v2[2], -(b1 * v1[3]) - b2 * v2[3]>>
===============================================================================
