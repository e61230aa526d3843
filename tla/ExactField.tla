------------------------------ MODULE ExactField ------------------------------
(***************************************************************************)
(* What the fields and the curves are, by definition: polynomials over the *)
(* integers modulo P, and chords and tangents.  Nothing here follows the   *)
(* code; Pairing is compared with it.  An element of the field of degree   *)
(* twelve is the sequence of the coefficients of w^0 .. w^5, w^6 = QNR + i,*)
(* over the complex numbers modulo P.                                      *)
(***************************************************************************)
EXTENDS Twist, FiniteSets

Complex == Fp \X Fp

Add2(a, b)  == <<(a[1] + b[1]) % P, (a[2] + b[2]) % P>>
Sub2(a, b)  == <<(a[1] - b[1]) % P, (a[2] - b[2]) % P>>
Mul2(a, b)  == <<(a[1] * b[1] - a[2] * b[2]) % P, (a[1] * b[2] + a[2] * b[1]) % P>>
Plain2(a)   == <<Plain(a[1]), Plain(a[2])>>
Monty2(a)   == <<Monty(a[1]), Monty(a[2])>>

Inv2(a) == LET Over(n) == <<(a[1] * n) % P, (-a[2] * n) % P>>
           IN  Over(InvMod[(a[1] * a[1] + a[2] * a[2]) % P])

(* The coefficients of w^k, k = 1 .. 6 for w^0 .. w^5. *)
Plain12(a) == <<Plain2(a[1][1]), Plain2(a[2][1]), Plain2(a[1][2]),
                Plain2(a[2][2]), Plain2(a[1][3]), Plain2(a[2][3])>>

Mul12(x, y) ==
  LET Term(j, k)  == IF j <= k THEN Mul2(x[j], y[k - j + 1])
                     ELSE Mul2(<<QNR, 1>>, Mul2(x[j], y[k - j + 7]))
      Three(j, k) == Add2(Add2(Term(j, k), Term(j + 1, k)), Term(j + 2, k))
      Coef(k)     == Add2(Three(1, k), Three(4, k))
  IN  <<Coef(1), Coef(2), Coef(3), Coef(4), Coef(5), Coef(6)>>

(* w -> -w. *)
Conjugate(x) == LET Minus(c) == Sub2(<<0, 0>>, c)
                IN  <<x[1], Minus(x[2]), x[3], Minus(x[4]), x[5], Minus(x[6])>>

One12 == Plain12(fp12_one)

-----------------------------------------------------------------------------
(* Curve points: <<>> is the point at infinity.  The curve itself is the   *)
(* one over the complex numbers with imaginary parts zero.                 *)

Infinity == <<>>

Slope(p, q) ==
  IF p = q THEN Mul2(Mul2(<<3, 0>>, Mul2(p[1], p[1])), Inv2(Add2(p[2], p[2])))
  ELSE Mul2(Sub2(q[2], p[2]), Inv2(Sub2(q[1], p[1])))

AddPoints(p, q) ==
  IF p = Infinity THEN q
  ELSE IF q = Infinity THEN p
  ELSE IF p[1] = q[1] /\ Add2(p[2], q[2]) = <<0, 0>> THEN Infinity
  ELSE LET Sum(s, x) == <<x, Sub2(Mul2(s, Sub2(p[1], x)), p[2])>>
           Along(s)  == Sum(s, Sub2(Sub2(Mul2(s, s), p[1]), q[1]))
       IN  Along(Slope(p, q))

Multiple(n, p) ==
  LET m[k \in Nat] ==
        IF k = 0 THEN Infinity
        ELSE LET Double(h) == AddPoints(h, h)
                 Last(d)   == IF k % 2 = 0 THEN d ELSE AddPoints(d, p)
             IN  Last(Double(m[k \div 2]))
  IN  m[n]
===============================================================================
