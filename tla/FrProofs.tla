------------------------------- MODULE FrProofs -------------------------------
(***************************************************************************)
(* fr.c for every word size, every modulus of at most half the range of    *)
(* four words and every value: the limb operators compute what their names *)
(* say, no carry that the code drops is ever set, every operation leaves   *)
(* the canonical result in its output and touches nothing else, and what   *)
(* fr_to_be stores is what fr_from_be would load.                          *)
(***************************************************************************)
EXTENDS Fr, TLAPS, WellFoundedInduction

-----------------------------------------------------------------------------
(* Limbs: carries, borrows and half-word products lose nothing. *)

(* Integer division is the only way to write a as q * w + m, 0 <= m < w. *)
LEMMA AtLeastOne ==
  ASSUME NEW d \in Int, NEW w \in Nat \ {0}, d >= 1
  PROVE  d * w >= w
<1>1. (d - 1) * w >= 0
  OBVIOUS
<1>2. (d - 1) * w = d * w - w
  OBVIOUS
<1> QED  BY <1>1, <1>2

LEMMA DivModUnique ==
  ASSUME NEW v \in Int, NEW q \in Int, NEW w \in Nat \ {0},
         NEW m \in 0 .. w - 1, v = q * w + m
  PROVE  v % w = m /\ v \div w = q
<1> DEFINE d == v \div w
           n == v % w
<1>1. d \in Int /\ n \in 0 .. w - 1 /\ v = d * w + n
  OBVIOUS
<1> HIDE DEF d, n
<1>2. (q - d) * w = n - m /\ (d - q) * w = m - n
  BY <1>1
<1>3. ~ (q - d >= 1)
  BY <1>1, <1>2, AtLeastOne
<1>4. ~ (d - q >= 1)
  BY <1>1, <1>2, AtLeastOne
<1>5. q = d
  BY <1>1, <1>3, <1>4
<1> QED  BY <1>1, <1>5 DEF d, n

LEMMA DivMod ==
  ASSUME NEW v \in Int, NEW w \in Nat \ {0}
  PROVE  v \div w \in Int /\ v % w \in 0 .. w - 1 /\ v = (v \div w) * w + (v % w)
OBVIOUS

LEMMA WType == W \in Nat /\ W >= 4 /\ W % 2 = 0 /\ HALF * HALF = W
<1>1. HALF * HALF >= 4
  <2>1. (HALF - 2) * (HALF - 2) + 4 * (HALF - 2) >= 0
    BY HalfAssumption
  <2> QED  BY <2>1, HalfAssumption
<1>2. PICK h \in Int : HALF = h * 2
  <2>1. HALF = (HALF \div 2) * 2 + (HALF % 2) /\ HALF \div 2 \in Int
    BY HalfAssumption, DivMod, 2 \in Nat \ {0}
  <2>2. HALF = (HALF \div 2) * 2
    BY <2>1, HalfAssumption
  <2> QED  BY <2>1, <2>2, Zenon
<1>3. W = (h * HALF) * 2 + 0 /\ h * HALF \in Int
  BY <1>2, HalfAssumption DEF W
<1>4. W % 2 = 0
  BY <1>3, DivModUnique, HalfAssumption DEF W
<1> QED  BY <1>1, <1>4, HalfAssumption DEF W

(* What % W does to a value at most one word away from the range. *)
LEMMA Wrap ==
  ASSUME NEW v \in Int, - W <= v, v < 2 * W
  PROVE  v % W = IF v < 0 THEN v + W ELSE IF v < W THEN v ELSE v - W
<1>1. CASE v < 0
  BY <1>1, WType, DivModUnique, v = (-1) * W + (v + W)
<1>2. CASE 0 <= v /\ v < W
  BY <1>2, WType, DivModUnique, v = 0 * W + v
<1>3. CASE W <= v
  BY <1>3, WType, DivModUnique, v = 1 * W + (v - W)
<1> QED  BY <1>1, <1>2, <1>3, WType

-----------------------------------------------------------------------------
(* One limb of a difference, and one of a sum. *)
LEMMA SubLimbCorrect ==
  ASSUME NEW u \in Word, NEW v \in Word, NEW c \in {0, 1}
  PROVE  /\ SubLimb(u, v, c) \in Word
         /\ SubBorrow(u, v, c) \in {0, 1}
         /\ SubLimb(u, v, c) = u - v - c + W * SubBorrow(u, v, c)
<1> DEFINE d == (u - v) % W
<1>1. u \in Int /\ v \in Int /\ 0 <= u /\ u < W /\ 0 <= v /\ v < W
  BY WType DEF Word
<1>2. d = IF u < v THEN u - v + W ELSE u - v
  BY <1>1, Wrap, WType
<1>3. d \in Int /\ 0 <= d /\ d < W
  BY <1>1, <1>2, WType
<1>4. SubLimb(u, v, c) = IF d < c THEN d - c + W ELSE d - c
  <2> HIDE DEF d
  <2>1. (d - c) % W = IF d < c THEN d - c + W ELSE d - c
    BY <1>3, Wrap, WType
  <2> QED  BY <2>1 DEF SubLimb, d
<1>5. SubBorrow(u, v, c) = IF u < v \/ d < c THEN 1 ELSE 0
  BY DEF SubBorrow, Bool
<1> HIDE DEF d
<1>6. ~ (u < v /\ d < c)
  BY <1>1, <1>2, WType
<1> QED  BY <1>1, <1>2, <1>3, <1>4, <1>5, <1>6, WType DEF Word

LEMMA AddLimbCorrect ==
  ASSUME NEW u \in Word, NEW v \in Word, NEW c \in {0, 1}
  PROVE  /\ AddLimb(u, v, c) \in Word
         /\ AddCarry(u, v, c) \in {0, 1}
         /\ AddLimb(u, v, c) = u + v + c - W * AddCarry(u, v, c)
<1> DEFINE s == (u + c) % W
           t == AddLimb(u, v, c)
<1>1. u \in Int /\ v \in Int /\ 0 <= u /\ u < W /\ 0 <= v /\ v < W
  BY WType DEF Word
<1>2. s = IF u + c < W THEN u + c ELSE u + c - W
  BY <1>1, Wrap, WType
<1>3. s \in Int /\ 0 <= s /\ s < W
  BY <1>1, <1>2, WType
<1>4. t = IF s + v < W THEN s + v ELSE s + v - W
  <2> HIDE DEF s
  <2>1. (s + v) % W = IF s + v < W THEN s + v ELSE s + v - W
    BY <1>1, <1>3, Wrap, WType
  <2> QED  BY <2>1 DEF AddLimb, s
<1>5. AddCarry(u, v, c) = IF s < c \/ t < s THEN 1 ELSE 0
  BY DEF AddCarry, Bool
<1> HIDE DEF s, t
<1>6. t < s <=> s + v >= W
  BY <1>1, <1>3, <1>4, WType
<1>7. s < c <=> u + c >= W
  BY <1>1, <1>2, <1>3, WType
<1>8. ~ (u + c >= W /\ s + v >= W)
  BY <1>1, <1>2, WType
<1>9. t \in Word /\ t = u + v + c - W * AddCarry(u, v, c)
  BY <1>1, <1>2, <1>3, <1>4, <1>5, <1>6, <1>7, <1>8, WType DEF Word
<1> QED  BY <1>5, <1>9 DEF t

LEMMA ValType ==
  ASSUME NEW f \in Limbs
  PROVE  /\ f[0] \in Word /\ f[1] \in Word /\ f[2] \in Word /\ f[3] \in Word
         /\ Val(f) \in Nat
<1>1. f[0] \in Word /\ f[1] \in Word /\ f[2] \in Word /\ f[3] \in Word
  BY DEF Limbs, Limb
<1>2. f[0] \in Nat /\ f[1] \in Nat /\ f[2] \in Nat /\ f[3] \in Nat
  BY <1>1, WType DEF Word
<1>3. \A s, t \in Nat : s + W * t \in Nat
  BY WType
<1> QED  BY <1>1, <1>2, <1>3 DEF Val

-----------------------------------------------------------------------------
(* Four limbs.  The borrow out of the last limb says whether f < g. *)
LEMMA TimesW ==
  ASSUME NEW s \in Int, NEW t \in Int
  PROVE  W * s \in Int /\ W * (s + t) = W * s + W * t
BY WType

(* d is u - v limb by limb: limb k takes the borrow c[k] from the limb     *)
(* below it and hands c[k + 1] to the limb above.                          *)
Differences(d, u, v, c) ==
  /\ c \in [0 .. 4 -> {0, 1}]
  /\ \A k \in Limb : d[k] \in Word /\ u[k] \in Word /\ v[k] \in Word
  /\ \A k \in Limb : d[k] = u[k] - v[k] - c[k] + W * c[k + 1]

LEMMA FourDifferences ==
  ASSUME NEW d, NEW u, NEW v, NEW c, Differences(d, u, v, c)
  PROVE  Val(d) = Val(u) - Val(v) - c[0] + Capacity * c[4]
<1> DEFINE c0 == c[0]  c1 == c[1]  c2 == c[2]  c3 == c[3]  c4 == c[4]
<1>c. /\ c0 \in Int /\ c1 \in Int /\ c2 \in Int /\ c3 \in Int /\ c4 \in Int
      /\ d[0] \in Int /\ d[1] \in Int /\ d[2] \in Int /\ d[3] \in Int
      /\ u[0] \in Int /\ u[1] \in Int /\ u[2] \in Int /\ u[3] \in Int
      /\ v[0] \in Int /\ v[1] \in Int /\ v[2] \in Int /\ v[3] \in Int
  <2>1. c0 \in {0, 1} /\ c1 \in {0, 1} /\ c2 \in {0, 1} /\ c3 \in {0, 1} /\ c4 \in {0, 1}
    BY DEF Differences
  <2>2. \A k \in Limb : d[k] \in Int /\ u[k] \in Int /\ v[k] \in Int
    BY WType DEF Differences, Word
  <2>3. 0 \in Limb /\ 1 \in Limb /\ 2 \in Limb /\ 3 \in Limb
    BY DEF Limb
  <2> HIDE DEF c0, c1, c2, c3, c4
  <2> QED  BY <2>1, <2>2, <2>3
<1>d. /\ d[0] = u[0] - v[0] - c0 + W * c1
      /\ d[1] = u[1] - v[1] - c1 + W * c2
      /\ d[2] = u[2] - v[2] - c2 + W * c3
      /\ d[3] = u[3] - v[3] - c3 + W * c4
  BY DEF Differences, Limb
<1> HIDE DEF c0, c1, c2, c3, c4
<1> DEFINE d0 == d[0]  d1 == d[1]  d2 == d[2]  d3 == d[3]
           u0 == u[0]  u1 == u[1]  u2 == u[2]  u3 == u[3]
           v0 == v[0]  v1 == v[1]  v2 == v[2]  v3 == v[3]
<1>int. /\ d0 \in Int /\ d1 \in Int /\ d2 \in Int /\ d3 \in Int
        /\ u0 \in Int /\ u1 \in Int /\ u2 \in Int /\ u3 \in Int
        /\ v0 \in Int /\ v1 \in Int /\ v2 \in Int /\ v3 \in Int
  BY <1>c
<1>eq. /\ d0 = u0 - v0 - c0 + W * c1   /\ d1 = u1 - v1 - c1 + W * c2
       /\ d2 = u2 - v2 - c2 + W * c3   /\ d3 = u3 - v3 - c3 + W * c4
  BY <1>d
<1>val. /\ Val(d) = d0 + W * (d1 + W * (d2 + W * d3))
        /\ Val(u) = u0 + W * (u1 + W * (u2 + W * u3))
        /\ Val(v) = v0 + W * (v1 + W * (v2 + W * v3))
  BY DEF Val
<1> HIDE DEF d0, d1, d2, d3, u0, u1, u2, u3, v0, v1, v2, v3
<1> DEFINE dd2 == d2 + W * d3   dd1 == d1 + W * dd2   dd0 == d0 + W * dd1
           uu2 == u2 + W * u3   uu1 == u1 + W * uu2   uu0 == u0 + W * uu1
           vv2 == v2 + W * v3   vv1 == v1 + W * vv2   vv0 == v0 + W * vv1
           k3 == W * c4         k2 == W * k3    k1 == W * k2    k0 == W * k1
<1>3. k3 \in Int /\ d3 = u3 - v3 - c3 + k3
  BY <1>eq, <1>c, TimesW
<1> HIDE DEF k3
<1>2. /\ dd2 = uu2 - vv2 - c2 + k2
      /\ dd2 \in Int /\ uu2 \in Int /\ vv2 \in Int /\ k2 \in Int
  <2>1. W * d3 = W * u3 - W * v3 - W * c3 + W * k3
    BY <1>3, <1>int, <1>c, WType
  <2>2. /\ W * d3 \in Int /\ W * u3 \in Int /\ W * v3 \in Int
        /\ W * c3 \in Int /\ W * k3 \in Int
    BY <1>3, <1>int, <1>c, TimesW
  <2> QED  BY <2>1, <2>2, <1>int, <1>eq, <1>c
<1> HIDE DEF dd2, uu2, vv2, k2
<1>1. /\ dd1 = uu1 - vv1 - c1 + k1
      /\ dd1 \in Int /\ uu1 \in Int /\ vv1 \in Int /\ k1 \in Int
  <2>1. W * dd2 = W * uu2 - W * vv2 - W * c2 + W * k2
    BY <1>2, <1>int, <1>c, WType
  <2>2. /\ W * dd2 \in Int /\ W * uu2 \in Int /\ W * vv2 \in Int
        /\ W * c2 \in Int /\ W * k2 \in Int
    BY <1>2, <1>int, <1>c, TimesW
  <2> QED  BY <2>1, <2>2, <1>int, <1>eq, <1>c
<1> HIDE DEF dd1, uu1, vv1, k1
<1>0. /\ dd0 = uu0 - vv0 - c0 + k0
      /\ dd0 \in Int /\ uu0 \in Int /\ vv0 \in Int /\ k0 \in Int
  <2>1. W * dd1 = W * uu1 - W * vv1 - W * c1 + W * k1
    BY <1>1, <1>int, <1>c, WType
  <2>2. /\ W * dd1 \in Int /\ W * uu1 \in Int /\ W * vv1 \in Int
        /\ W * c1 \in Int /\ W * k1 \in Int
    BY <1>1, <1>int, <1>c, TimesW
  <2> QED  BY <2>1, <2>2, <1>int, <1>eq, <1>c
<1>4. k0 = Capacity * c4
  BY <1>c, WType DEF k0, k1, k2, k3, Capacity
<1>5. dd0 = uu0 - vv0 - c0 + Capacity * c4
  <2> HIDE DEF dd0, uu0, vv0, k0
  <2> QED  BY <1>0, <1>4
<1> QED  BY <1>5, <1>val DEF c0, c4, dd0, dd1, dd2, uu0, uu1, uu2, vv0, vv1, vv2

LEMMA Sub4Value ==
  ASSUME NEW f \in Limbs, NEW g \in Limbs
  PROVE  /\ sub4(f, g) \in Limbs
         /\ \E borrow \in {0, 1} :
              Val(sub4(f, g)) = Val(f) - Val(g) + Capacity * borrow
<1> DEFINE b1 == SubBorrow(f[0], g[0], 0)
           b2 == SubBorrow(f[1], g[1], b1)
           b3 == SubBorrow(f[2], g[2], b2)
           b4 == SubBorrow(f[3], g[3], b3)
           d == sub4(f, g)
<1>1. \A k \in 0 .. 3 : f[k] \in Word /\ g[k] \in Word
  BY DEF Limbs, Limb
<1>2. b1 \in {0, 1} /\ d[0] \in Word /\ d[0] = f[0] - g[0] - 0 + W * b1
  <2>1. d[0] = SubLimb(f[0], g[0], 0)
    BY DEF sub4, Limb
  <2> QED  BY <1>1, <2>1, SubLimbCorrect
<1>3. b2 \in {0, 1} /\ d[1] \in Word /\ d[1] = f[1] - g[1] - b1 + W * b2
  <2>1. d[1] = SubLimb(f[1], g[1], b1)
    BY DEF sub4, Limb
  <2> QED  BY <1>1, <1>2, <2>1, SubLimbCorrect
<1>4. b3 \in {0, 1} /\ d[2] \in Word /\ d[2] = f[2] - g[2] - b2 + W * b3
  <2>1. d[2] = SubLimb(f[2], g[2], b2)
    BY DEF sub4, Limb
  <2> QED  BY <1>1, <1>3, <2>1, SubLimbCorrect
<1>5. b4 \in {0, 1} /\ d[3] \in Word /\ d[3] = f[3] - g[3] - b3 + W * b4
  <2>1. d[3] = SubLimb(f[3], g[3], b3)
    BY DEF sub4, Limb
  <2> QED  BY <1>1, <1>4, <2>1, SubLimbCorrect
<1>6. d \in Limbs
  <2>1. d = [k \in Limb |-> d[k]]
    BY DEF sub4
  <2> HIDE DEF d
  <2> QED  BY <2>1, <1>2, <1>3, <1>4, <1>5 DEF Limbs, Limb
<1> HIDE DEF b1, b2, b3, b4, d
<1> DEFINE c == [k \in 0 .. 4 |-> CASE k = 0 -> 0  [] k = 1 -> b1 [] k = 2 -> b2
                                    [] k = 3 -> b3 [] k = 4 -> b4]
<1>7. Differences(d, f, g, c)
  BY <1>1, <1>2, <1>3, <1>4, <1>5 DEF Differences, Limb
<1>8. c[0] = 0 /\ c[4] = b4
  OBVIOUS
<1> HIDE DEF c
<1>9. Val(d) = Val(f) - Val(g) + Capacity * b4
  <2>1. Val(d) = Val(f) - Val(g) - 0 + Capacity * b4
    BY <1>7, <1>8, FourDifferences
  <2> QED  BY <2>1, ValType
<1> QED  BY <1>5, <1>6, <1>9 DEF d

LEMMA Add4Value ==
  ASSUME NEW f \in Limbs, NEW g \in Limbs
  PROVE  /\ add4(f, g).out \in Limbs
         /\ add4(f, g).carry \in {0, 1}
         /\ Val(add4(f, g).out) = Val(f) + Val(g) - Capacity * add4(f, g).carry
<1> DEFINE c1 == AddCarry(f[0], g[0], 0)
           c2 == AddCarry(f[1], g[1], c1)
           c3 == AddCarry(f[2], g[2], c2)
           c4 == AddCarry(f[3], g[3], c3)
           s == add4(f, g).out
<1>1. \A k \in 0 .. 3 : f[k] \in Word /\ g[k] \in Word
  BY DEF Limbs, Limb
<1>2. c1 \in {0, 1} /\ s[0] \in Word /\ s[0] = f[0] + g[0] + 0 - W * c1
  <2>1. s[0] = AddLimb(f[0], g[0], 0)
    BY DEF add4, Limb
  <2> QED  BY <1>1, <2>1, AddLimbCorrect
<1>3. c2 \in {0, 1} /\ s[1] \in Word /\ s[1] = f[1] + g[1] + c1 - W * c2
  <2>1. s[1] = AddLimb(f[1], g[1], c1)
    BY DEF add4, Limb
  <2> QED  BY <1>1, <1>2, <2>1, AddLimbCorrect
<1>4. c3 \in {0, 1} /\ s[2] \in Word /\ s[2] = f[2] + g[2] + c2 - W * c3
  <2>1. s[2] = AddLimb(f[2], g[2], c2)
    BY DEF add4, Limb
  <2> QED  BY <1>1, <1>3, <2>1, AddLimbCorrect
<1>5. c4 \in {0, 1} /\ s[3] \in Word /\ s[3] = f[3] + g[3] + c3 - W * c4
  <2>1. s[3] = AddLimb(f[3], g[3], c3)
    BY DEF add4, Limb
  <2> QED  BY <1>1, <1>4, <2>1, AddLimbCorrect
<1>6. s \in Limbs
  <2>1. s = [k \in Limb |-> s[k]]
    BY DEF add4
  <2> HIDE DEF s
  <2> QED  BY <2>1, <1>2, <1>3, <1>4, <1>5 DEF Limbs, Limb
<1>7. add4(f, g).carry = c4
  BY DEF add4
<1> HIDE DEF c1, c2, c3, c4, s
<1> DEFINE c == [k \in 0 .. 4 |-> CASE k = 0 -> 0  [] k = 1 -> c1 [] k = 2 -> c2
                                    [] k = 3 -> c3 [] k = 4 -> c4]
<1>8. c \in [0 .. 4 -> {0, 1}] /\ c[0] = 0 /\ c[4] = c4
  BY <1>2, <1>3, <1>4, <1>5
<1>9. Differences(f, s, g, c)
  <2>1. c[0] = 0 /\ c[1] = c1 /\ c[2] = c2 /\ c[3] = c3 /\ c[4] = c4
    OBVIOUS
  <2> HIDE DEF c
  <2>2. \A u, v, t, k, w \in Int : t = u + v + k - w => u = t - v - k + w
    OBVIOUS
  <2>3. /\ f[0] \in Int /\ f[1] \in Int /\ f[2] \in Int /\ f[3] \in Int
        /\ g[0] \in Int /\ g[1] \in Int /\ g[2] \in Int /\ g[3] \in Int
        /\ s[0] \in Int /\ s[1] \in Int /\ s[2] \in Int /\ s[3] \in Int
        /\ W * c1 \in Int /\ W * c2 \in Int /\ W * c3 \in Int /\ W * c4 \in Int
    BY <1>1, <1>2, <1>3, <1>4, <1>5, WType DEF Word
  <2>4. f[0] = s[0] - g[0] - c[0] + W * c[1]
    BY <1>2, <2>1, <2>2, <2>3
  <2>5. f[1] = s[1] - g[1] - c[1] + W * c[2]
    BY <1>2, <1>3, <2>1, <2>2, <2>3
  <2>6. f[2] = s[2] - g[2] - c[2] + W * c[3]
    BY <1>3, <1>4, <2>1, <2>2, <2>3
  <2>7. f[3] = s[3] - g[3] - c[3] + W * c[4]
    BY <1>4, <1>5, <2>1, <2>2, <2>3
  <2>8. \A k \in Limb : f[k] \in Word /\ s[k] \in Word /\ g[k] \in Word
    BY <1>1, <1>2, <1>3, <1>4, <1>5 DEF Limb
  <2>9. \A k \in Limb : f[k] = s[k] - g[k] - c[k] + W * c[k + 1]
    BY <2>4, <2>5, <2>6, <2>7 DEF Limb
  <2> QED  BY <1>8, <2>8, <2>9 DEF Differences
<1> HIDE DEF c
<1>10. Val(f) = Val(s) - Val(g) - 0 + Capacity * c4
  BY <1>8, <1>9, FourDifferences
<1>11. Capacity * c4 \in Int
  BY <1>5, WType DEF Capacity
<1>12. Val(s) = Val(f) + Val(g) - Capacity * c4
  BY <1>6, <1>10, <1>11, ValType
<1> QED  BY <1>5, <1>6, <1>7, <1>12 DEF s

-----------------------------------------------------------------------------
(* Four limbs hold exactly the integers below Capacity, and the most       *)
(* significant limb in which two of them differ orders them.               *)
LEMMA LowLimb ==
  ASSUME NEW n \in Nat, NEW u \in Word, NEW s, s \in Nat, s < n
  PROVE  u + W * s < W * n
<1>1. W * s + W <= W * n
  <2>1. (n - s) * W >= W
    BY AtLeastOne, WType
  <2>2. (n - s) * W = W * n - W * s
    BY WType
  <2> QED  BY <2>1, <2>2, WType
<1> QED  BY <1>1, WType DEF Word

LEMMA ValBound ==
  ASSUME NEW f \in Limbs
  PROVE  Val(f) \in 0 .. Capacity - 1
<1> DEFINE s2 == f[2] + W * f[3]  s1 == f[1] + W * s2  s0 == f[0] + W * s1
<1>1. /\ f[0] \in Word /\ f[1] \in Word /\ f[2] \in Word /\ f[3] \in Word
      /\ f[0] \in Nat /\ f[1] \in Nat /\ f[2] \in Nat /\ f[3] \in Nat
  BY ValType, WType DEF Word
<1>2. f[3] < W
  BY <1>1, WType DEF Word
<1>3. W * W \in Nat /\ W * (W * W) \in Nat
  BY WType
<1>4. s2 \in Nat /\ s2 < W * W
  <2>1. W \in Nat /\ W * f[3] \in Nat
    BY <1>1, WType
  <2>2. s2 < W * W
    BY <1>1, <1>2, <2>1, LowLimb
  <2> QED  BY <1>1, <2>1, <2>2
<1> HIDE DEF s2
<1>5. s1 \in Nat /\ s1 < W * (W * W)
  <2>1. W * s2 \in Nat
    BY <1>4, WType
  <2>2. s1 < W * (W * W)
    BY <1>1, <1>3, <1>4, LowLimb
  <2> QED  BY <1>1, <2>1, <2>2
<1> HIDE DEF s1
<1>6. s0 \in Nat /\ s0 < W * (W * (W * W))
  <2>1. W * s1 \in Nat
    BY <1>5, WType
  <2>2. s0 < W * (W * (W * W))
    BY <1>1, <1>3, <1>5, LowLimb
  <2> QED  BY <1>1, <2>1, <2>2
<1>7. W * (W * (W * W)) = Capacity
  BY WType DEF Capacity
<1>8. Val(f) = s0
  BY DEF Val, s1, s2
<1> HIDE DEF s0
<1> QED  BY <1>6, <1>7, <1>8, <1>3, WType DEF Capacity

(* How one more limb below extends an order. *)
LEMMA LimbOrder ==
  ASSUME NEW u \in Word, NEW v \in Word, NEW s \in Nat, NEW t \in Nat
  PROVE  /\ s < t => u + W * s < v + W * t
         /\ u + W * s \in Nat
<1>1. ASSUME s < t PROVE u + W * s < v + W * t
  <2>1. u + W * s < W * t
    BY <1>1, LowLimb
  <2> QED  BY <2>1, WType DEF Word
<1> QED  BY <1>1, WType DEF Word

LEMMA Cmp4Correct ==
  ASSUME NEW f \in Limbs, NEW g \in Limbs
  PROVE  /\ cmp4(f, g) \in {-1, 0, 1}
         /\ cmp4(f, g) < 0 <=> Val(f) < Val(g)
         /\ cmp4(f, g) >= 0 <=> Val(f) >= Val(g)
<1> DEFINE s2 == f[2] + W * f[3]  s1 == f[1] + W * s2  s0 == f[0] + W * s1
           t2 == g[2] + W * g[3]  t1 == g[1] + W * t2  t0 == g[0] + W * t1
           differs(e1) == /\ e1 \in Limb /\ f[e1] # g[e1]
                         /\ \A e2 \in Limb : e2 > e1 => f[e2] = g[e2]
<1>1. /\ f[0] \in Word /\ f[1] \in Word /\ f[2] \in Word /\ f[3] \in Word
      /\ g[0] \in Word /\ g[1] \in Word /\ g[2] \in Word /\ g[3] \in Word
      /\ f[3] \in Nat /\ g[3] \in Nat
  BY ValType, WType DEF Word
<1>2. s2 \in Nat /\ t2 \in Nat /\ (f[3] < g[3] => s2 < t2) /\ (g[3] < f[3] => t2 < s2)
  BY <1>1, LimbOrder
<1>3. s1 \in Nat /\ t1 \in Nat /\ (s2 < t2 => s1 < t1) /\ (t2 < s2 => t1 < s1)
  <2> HIDE DEF s2, t2
  <2> QED  BY <1>1, <1>2, LimbOrder
<1>4. s0 \in Nat /\ t0 \in Nat /\ (s1 < t1 => s0 < t0) /\ (t1 < s1 => t0 < s0)
  <2> HIDE DEF s1, t1
  <2> QED  BY <1>1, <1>3, LimbOrder
<1>5. Val(f) = s0 /\ Val(g) = t0
  BY DEF Val
<1>6. CASE f = g
  BY <1>6, <1>4, <1>5 DEF cmp4
<1>7. CASE f # g
  <2>1. \E e1 \in Limb : f[e1] # g[e1]
    BY <1>7 DEF Limbs
  <2>2. \E e1 : differs(e1)
    BY <2>1 DEF Limb
  <2> DEFINE m == CHOOSE e1 \in Limb : /\ f[e1] # g[e1]
                                      /\ \A e2 \in Limb : e2 > e1 => f[e2] = g[e2]
  <2>3. differs(m)
    BY <2>2, Zenon
  <2>4. cmp4(f, g) = IF f[m] < g[m] THEN -1 ELSE 1
    BY <1>7, Zenon DEF cmp4
  <2> HIDE DEF m
  <2>5. PICK k : k = m
    OBVIOUS
  <2>6. /\ k \in {0, 1, 2, 3} /\ f[k] \in Nat /\ g[k] \in Nat /\ f[k] # g[k]
        /\ cmp4(f, g) = IF f[k] < g[k] THEN -1 ELSE 1
    BY <2>3, <2>4, <2>5, <1>1, WType DEF Limb, Word
  <2>7. f[k] < g[k] => s0 < t0
    <3> SUFFICES ASSUME f[k] < g[k] PROVE s0 < t0
      OBVIOUS
    <3>1. CASE k = 3
      <4> HIDE DEF s0, t0, s1, t1, s2, t2
      <4> QED  BY <3>1, <1>2, <1>3, <1>4
    <3>2. CASE k = 2
      <4>1. f[3] = g[3]
        BY <3>2, <2>3, <2>5 DEF Limb
      <4>2. s2 < t2
        BY <3>2, <4>1, <2>6, <1>1, WType
      <4> HIDE DEF s0, t0, s1, t1, s2, t2
      <4> QED  BY <4>2, <1>3, <1>4
    <3>3. CASE k = 1
      <4>1. s2 = t2
        BY <3>3, <2>3, <2>5 DEF Limb
      <4> HIDE DEF s2, t2
      <4>2. s1 < t1
        BY <3>3, <4>1, <2>6, <1>2, WType
      <4> HIDE DEF s0, t0, s1, t1
      <4> QED  BY <4>2, <1>4
    <3>4. CASE k = 0
      <4>1. s1 = t1
        BY <3>4, <2>3, <2>5 DEF Limb
      <4> HIDE DEF s1, t1
      <4> QED  BY <3>4, <4>1, <2>6, <1>3, WType
    <3> QED  BY <2>6, <3>1, <3>2, <3>3, <3>4
  <2>8. g[k] < f[k] => t0 < s0
    <3> SUFFICES ASSUME g[k] < f[k] PROVE t0 < s0
      OBVIOUS
    <3>1. CASE k = 3
      <4> HIDE DEF s0, t0, s1, t1, s2, t2
      <4> QED  BY <3>1, <1>2, <1>3, <1>4
    <3>2. CASE k = 2
      <4>1. f[3] = g[3]
        BY <3>2, <2>3, <2>5 DEF Limb
      <4>2. t2 < s2
        BY <3>2, <4>1, <2>6, <1>1, WType
      <4> HIDE DEF s0, t0, s1, t1, s2, t2
      <4> QED  BY <4>2, <1>3, <1>4
    <3>3. CASE k = 1
      <4>1. s2 = t2
        BY <3>3, <2>3, <2>5 DEF Limb
      <4> HIDE DEF s2, t2
      <4>2. t1 < s1
        BY <3>3, <4>1, <2>6, <1>2, WType
      <4> HIDE DEF s0, t0, s1, t1
      <4> QED  BY <4>2, <1>4
    <3>4. CASE k = 0
      <4>1. s1 = t1
        BY <3>4, <2>3, <2>5 DEF Limb
      <4> HIDE DEF s1, t1
      <4> QED  BY <3>4, <4>1, <2>6, <1>3, WType
    <3> QED  BY <2>6, <3>1, <3>2, <3>3, <3>4
  <2> HIDE DEF s0, t0
  <2> QED  BY <2>6, <2>7, <2>8, <1>4, <1>5
<1> QED  BY <1>6, <1>7

-----------------------------------------------------------------------------
(* Products.  What does not wrap: the middle sums of mul64, its high word, *)
(* and the carry of a step of the schoolbook product.                      *)
LEMMA Product ==
  ASSUME NEW m \in Nat, NEW n \in Nat, NEW k \in Nat, m <= k, n <= k
  PROVE  m * n \in Nat /\ m * n <= k * k
<1>1. m * n \in Nat /\ m * n <= m * k
  <2>1. m * (k - n) >= 0 /\ m * (k - n) = m * k - m * n
    OBVIOUS
  <2> QED  BY <2>1
<1>2. m * k <= k * k
  <2>1. (k - m) * k >= 0 /\ (k - m) * k = k * k - m * k
    OBVIOUS
  <2> QED  BY <2>1
<1> QED  BY <1>1, <1>2

(* m words above the low word n: m is what the bound on the sum allows. *)
LEMMA HighWord ==
  ASSUME NEW m \in Int, NEW n \in Int, NEW k \in Int, n >= 0, m * W + n < k * W
  PROVE  m < k
<1>1. ~ (m - k >= 0)
  <2> SUFFICES ASSUME m - k >= 0 PROVE FALSE
    OBVIOUS
  <2>1. (m - k) * W >= 0
    BY WType
  <2>2. (m - k) * W = m * W - k * W
    BY WType
  <2> QED  BY <2>1, <2>2, WType
<1> QED  BY <1>1

LEMMA Mul64Exact ==
  ASSUME NEW u \in Word, NEW v \in Word
  PROVE  /\ mul64(u, v).hi \in Word /\ mul64(u, v).lo \in Word
         /\ mul64(u, v).hi * W + mul64(u, v).lo = u * v
<1> DEFINE H == HALF
           a0 == u % H   a1 == u \div H
           b0 == v % H   b1 == v \div H
           p00 == a0 * b0
           mid1 == a0 * b1 + p00 \div H
           mid2 == a1 * b0 + (mid1 % H)
           hi == a1 * b1 + mid1 \div H + mid2 \div H
           lo == (mid2 % H) * H + (p00 % H)
<1>0. H \in Nat \ {0} /\ H >= 2 /\ H * H = W /\ W \in Nat \ {0} /\ W >= 4
  BY HalfAssumption, WType
<1>1. \A w \in Word : /\ w \in Nat /\ w % H \in 0 .. H - 1
                       /\ w \div H \in 0 .. H - 1
                       /\ w = (w \div H) * H + (w % H)
  <2> SUFFICES ASSUME NEW w \in Word
               PROVE  /\ w \in Nat /\ w % H \in 0 .. H - 1
                      /\ w \div H \in 0 .. H - 1
                      /\ w = (w \div H) * H + (w % H)
    OBVIOUS
  <2>1. w \in Nat /\ w < H * H
    BY <1>0 DEF Word
  <2>2. w \div H \in Int /\ w % H \in 0 .. H - 1 /\ w = (w \div H) * H + (w % H)
    <3>1. w \in Int /\ H \in Nat \ {0}
      BY <1>0, <2>1
    <3> HIDE DEF H
    <3> QED  BY <3>1, DivMod
  <2> DEFINE q == w \div H
  <2>3. q >= 0
    BY <1>0, <2>1
  <2>4. ~ (q >= H)
    <3> SUFFICES ASSUME q - H >= 0 PROVE FALSE
      BY <2>2, <1>0
    <3>1. (q - H) * H >= 0 /\ (q - H) * H = q * H - H * H
      BY <2>2, <1>0
    <3> QED  BY <3>1, <2>1, <2>2, <1>0
  <2> QED  BY <2>1, <2>2, <2>3, <2>4, <1>0
<1>2. /\ a0 \in 0 .. H - 1 /\ a1 \in 0 .. H - 1 /\ u = a1 * H + a0
      /\ b0 \in 0 .. H - 1 /\ b1 \in 0 .. H - 1 /\ v = b1 * H + b0
  <2>1. u \in Word /\ v \in Word
    OBVIOUS
  <2> HIDE DEF H
  <2> QED  BY <1>1, <2>1
<1> HIDE DEF a0, a1, b0, b1
<1> DEFINE K == (H - 1) * (H - 1)
<1>3. /\ a0 * b0 \in 0 .. K /\ a0 * b1 \in 0 .. K
      /\ a1 * b0 \in 0 .. K /\ a1 * b1 \in 0 .. K
  BY <1>0, <1>2, Product
<1>4. K \in Nat /\ K = W - 2 * H + 1
  BY <1>0
<1> HIDE DEF K
<1>5. p00 \in Nat /\ p00 < W /\ p00 \in Word
  BY <1>0, <1>3, <1>4 DEF Word
<1>6. p00 % H \in 0 .. H - 1 /\ p00 \div H \in 0 .. H - 1
      /\ p00 = (p00 \div H) * H + (p00 % H)
  BY <1>1, <1>5
<1> HIDE DEF p00
<1>7. mid1 \in Nat /\ mid1 < W /\ mid1 \in Word
  BY <1>0, <1>3, <1>4, <1>6 DEF Word
<1>8. mid1 % H \in 0 .. H - 1 /\ mid1 \div H \in 0 .. H - 1
      /\ mid1 = (mid1 \div H) * H + (mid1 % H)
  BY <1>1, <1>7
<1>m1. mid1 = a0 * b1 + p00 \div H
  OBVIOUS
<1> HIDE DEF mid1
<1>9. mid2 \in Nat /\ mid2 < W /\ mid2 \in Word
  BY <1>0, <1>3, <1>4, <1>8 DEF Word
<1>10. mid2 % H \in 0 .. H - 1 /\ mid2 \div H \in 0 .. H - 1
       /\ mid2 = (mid2 \div H) * H + (mid2 % H)
  BY <1>1, <1>9
<1>m2. mid2 = a1 * b0 + (mid1 % H)
  OBVIOUS
<1> HIDE DEF mid2
<1>11. lo \in Nat /\ lo < W /\ (mid2 % H) * H \in 0 .. W - 1
  <2>1. (mid2 % H) * H <= (H - 1) * H /\ (mid2 % H) * H \in Nat
    <3>1. (H - 1 - (mid2 % H)) * H >= 0
      BY <1>0, <1>10
    <3>2. (H - 1 - (mid2 % H)) * H = (H - 1) * H - (mid2 % H) * H
      BY <1>0, <1>10
    <3>3. (mid2 % H) * H \in Nat
      BY <1>0, <1>10
    <3> QED  BY <3>1, <3>2, <3>3, <1>0
  <2>2. (H - 1) * H = W - H
    BY <1>0
  <2>3. p00 % H \in Nat /\ p00 % H < H
    BY <1>0, <1>6
  <2> DEFINE k == (mid2 % H) * H  l == p00 % H
  <2>4. k \in Nat /\ k <= W - H /\ l \in Nat /\ l < H /\ lo = k + l
    BY <2>1, <2>2, <2>3
  <2> HIDE DEF k, l, lo
  <2>5. lo \in Nat /\ lo < W /\ k \in 0 .. W - 1
    BY <2>4, <1>0
  <2> QED  BY <2>5 DEF k
<1>12. (mid2 * H) % W = (mid2 % H) * H
  <2>1. mid2 * H = (mid2 \div H) * W + (mid2 % H) * H
    <3> DEFINE q == mid2 \div H  r == mid2 % H
    <3>1. q \in Int /\ r \in Int /\ mid2 = q * H + r
      BY <1>0, <1>10
    <3> HIDE DEF q, r
    <3>2. (q * H + r) * H = q * (H * H) + r * H
      BY <3>1, <1>0
    <3> QED  BY <3>1, <3>2, <1>0 DEF q, r
  <2>2. mid2 * H \in Int /\ mid2 \div H \in Int
    BY <1>0, <1>9, <1>10
  <2> QED  BY <2>1, <2>2, <1>0, <1>11, DivModUnique
<1>13. hi * W + lo = u * v
  <2> DEFINE q0 == p00 \div H  r0 == p00 % H
             q1 == mid1 \div H  r1 == mid1 % H
             q2 == mid2 \div H  r2 == mid2 % H
  <2>1. /\ q0 \in Int /\ r0 \in Int /\ q1 \in Int /\ r1 \in Int
        /\ q2 \in Int /\ r2 \in Int
        /\ a0 \in Int /\ a1 \in Int /\ b0 \in Int /\ b1 \in Int /\ H \in Int
    BY <1>0, <1>2, <1>6, <1>8, <1>10
  <2>2. /\ a0 * b0 = q0 * H + r0
        /\ a0 * b1 + q0 = q1 * H + r1
        /\ a1 * b0 + r1 = q2 * H + r2
    <3>1. p00 = q0 * H + r0 /\ mid1 = q1 * H + r1 /\ mid2 = q2 * H + r2
      BY <1>6, <1>8, <1>10
    <3>2. mid1 = a0 * b1 + q0 /\ mid2 = a1 * b0 + r1
      BY <1>m1, <1>m2
    <3>3. p00 = a0 * b0
      BY DEF p00
    <3> HIDE DEF q0, r0, q1, r1, q2, r2
    <3> QED  BY <3>1, <3>2, <3>3
  <2>3. hi = a1 * b1 + q1 + q2 /\ lo = r2 * H + r0
    BY DEF hi, lo
  <2> HIDE DEF q0, r0, q1, r1, q2, r2, hi, lo
  <2>4. (a1 * H + a0) * (b1 * H + b0)
          = (a1 * b1) * (H * H) + (a0 * b1) * H + (a1 * b0) * H + a0 * b0
    BY <2>1
  <2>5. /\ (a0 * b1) * H = q1 * (H * H) + r1 * H - q0 * H
        /\ (a1 * b0) * H = q2 * (H * H) + r2 * H - r1 * H
    <3>1. a0 * b1 = q1 * H + r1 - q0 /\ a1 * b0 = q2 * H + r2 - r1
      BY <2>1, <2>2
    <3>2. (q1 * H + r1 - q0) * H = q1 * (H * H) + r1 * H - q0 * H
      BY <2>1
    <3>3. (q2 * H + r2 - r1) * H = q2 * (H * H) + r2 * H - r1 * H
      BY <2>1
    <3> QED  BY <3>1, <3>2, <3>3
  <2>6. (a1 * b1 + q1 + q2) * (H * H)
          = (a1 * b1) * (H * H) + q1 * (H * H) + q2 * (H * H)
    BY <2>1
  <2> QED  BY <2>1, <2>2, <2>3, <2>4, <2>5, <2>6, <1>2, <1>0
<1>14. hi \in Nat
  BY <1>0, <1>3, <1>8, <1>10
<1>15. u * v <= (W - 1) * (W - 1)
  BY Product, WType DEF Word
<1>16. hi < W
  <2> HIDE DEF hi, lo
  <2>1. hi * W + lo < W * W
    <3>1. (W - 1) * (W - 1) < W * W
      BY <1>0
    <3>2. u * v \in Int /\ W * W \in Int /\ (W - 1) * (W - 1) \in Int
      BY <1>0, <1>1
    <3> QED  BY <3>1, <3>2, <1>13, <1>15
  <2> QED  BY <2>1, <1>0, <1>11, <1>14, HighWord
<1>17. mul64(u, v) = [lo |-> lo, hi |-> hi]
  <2>1. p00 % W = p00 /\ mid1 % W = mid1 /\ mid2 % W = mid2
    BY <1>5, <1>7, <1>9, <1>0, Wrap
  <2>2. hi % W = hi
    <3> HIDE DEF hi
    <3> QED  BY <1>14, <1>16, <1>0, Wrap
  <2>3. mul64(u, v) =
          [lo |-> ((mid2 * H) % W) + (p00 % H), hi |-> hi % W]
    BY <2>1 DEF mul64, a0, a1, b0, b1, p00, mid1, mid2
  <2>4. ((mid2 * H) % W) + (p00 % H) = lo
    BY <1>12
  <2> HIDE DEF hi, lo
  <2> QED  BY <2>2, <2>3, <2>4
<1> HIDE DEF hi, lo
<1> QED  BY <1>11, <1>13, <1>14, <1>16, <1>17, <1>0 DEF Word

(* fr.c:126-127: the total of one step is at most 2^128 - 1, so hi + c     *)
(* never wraps, and nothing of the step is lost.                           *)
LEMMA MulAccExact ==
  ASSUME NEW q \in Word, NEW u \in Word, NEW v \in Word, NEW c \in Word
  PROVE  LET m == MulAcc(q, u, v, c)
         IN  /\ m.word \in Word /\ m.carry \in Word
             /\ m.high \in Nat /\ m.high < W
             /\ m.carry * W + m.word = u * v + q + c
<1> DEFINE hi == mul64(u, v).hi
           lo == mul64(u, v).lo
           s == (lo + q) % W
           s2 == (s + c) % W
           k1 == Bool(s < lo)
           k2 == Bool(s2 < s)
<1>0. W \in Nat \ {0} /\ W >= 4
  BY WType
<1>1. /\ hi \in Nat /\ lo \in Nat /\ q \in Nat /\ c \in Nat
      /\ hi < W /\ lo < W /\ q < W /\ c < W
      /\ hi * W + lo = u * v
  BY Mul64Exact, <1>0 DEF Word
<1>m. MulAcc(q, u, v, c) = [word |-> s2, carry |-> (hi + (k1 + k2)) % W,
                            high |-> hi + (k1 + k2)]
  BY DEF MulAcc
<1> HIDE DEF hi, lo
<1>2. s = IF lo + q < W THEN lo + q ELSE lo + q - W
  BY <1>0, <1>1, Wrap
<1>3. s \in Nat /\ s < W
  BY <1>0, <1>1, <1>2
<1>4. k1 \in {0, 1} /\ s + W * k1 = lo + q
  <2> HIDE DEF s
  <2> QED  BY <1>0, <1>1, <1>2 DEF Bool
<1> HIDE DEF s, k1
<1>5. s2 = IF s + c < W THEN s + c ELSE s + c - W
  BY <1>0, <1>1, <1>3, Wrap
<1>6. s2 \in Nat /\ s2 < W
  BY <1>0, <1>1, <1>3, <1>5
<1>7. k2 \in {0, 1} /\ s2 + W * k2 = s + c
  <2> HIDE DEF s2
  <2> QED  BY <1>0, <1>1, <1>3, <1>5 DEF Bool
<1> HIDE DEF s2, k2
<1> DEFINE h == hi + (k1 + k2)
<1>8. h \in Nat /\ h * W = hi * W + W * k1 + W * k2
  BY <1>0, <1>1, <1>4, <1>7
<1> HIDE DEF h
<1>9. h * W + s2 = u * v + q + c
  <2>1. u * v \in Int
    BY <1>0 DEF Word
  <2>2. hi * W \in Int /\ W * k1 \in Int /\ W * k2 \in Int
    BY <1>0, <1>1, <1>4, <1>7
  <2>3. h * W + s2 = hi * W + W * k1 + (s2 + W * k2)
    BY <2>2, <1>1, <1>6, <1>8
  <2>4. h * W + s2 = hi * W + (s + W * k1) + c
    BY <2>2, <2>3, <1>1, <1>3, <1>7
  <2>5. h * W + s2 = (hi * W + lo) + q + c
    BY <2>2, <2>4, <1>1, <1>3, <1>4
  <2> QED  BY <2>1, <2>5, <1>1
<1>10. h < W
  <2>1. u * v \in Int /\ u * v <= (W - 1) * (W - 1)
    BY <1>0, Product DEF Word
  <2>2. (W - 1) * (W - 1) + 2 * (W - 1) < W * W
    BY <1>0
  <2>3. (W - 1) * (W - 1) \in Int /\ W * W \in Int
    BY <1>0
  <2>4. h * W + s2 < W * W
    BY <2>1, <2>2, <2>3, <1>0, <1>1, <1>9
  <2> QED  BY <2>4, <1>0, <1>6, <1>8, HighWord
<1>11. h % W = h
  BY <1>0, <1>8, <1>10, Wrap
<1>12. MulAcc(q, u, v, c) = [word |-> s2, carry |-> h % W, high |-> h]
  BY <1>m DEF h
<1>14. s2 \in Word /\ h \in Word
  BY <1>0, <1>6, <1>8, <1>10 DEF Word
<1> DEFINE m == MulAcc(q, u, v, c)
<1>15. m.word = s2 /\ m.carry = h /\ m.high = h
  <2>1. m = [word |-> s2, carry |-> h % W, high |-> h]
    BY <1>12
  <2> HIDE DEF m
  <2> QED  BY <2>1, <1>11
<1> HIDE DEF m
<1> QED  BY <1>8, <1>9, <1>10, <1>14, <1>15 DEF m

-----------------------------------------------------------------------------
(* rem <<= 1 with a bit of the dividend: the top bit is all it can lose. *)
LEMMA ShiftLimb ==
  ASSUME NEW u \in Word, NEW c \in {0, 1}
  PROVE  /\ TopBit(u) \in {0, 1}
         /\ ((2 * u) % W) + c \in Word
         /\ ((2 * u) % W) + c = u + u + c - W * TopBit(u)
<1> DEFINE h == W \div 2
<1>1. h \in Nat \ {0} /\ W = 2 * h
  <2>1. W \in Int /\ 2 \in Nat \ {0}
    BY WType
  <2>2. W = (W \div 2) * 2 + (W % 2) /\ W \div 2 \in Int
    BY <2>1, DivMod
  <2> QED  BY <2>2, WType
<1>2. u \in Nat /\ u < W
  BY WType DEF Word
<1>3. TopBit(u) = u \div h
  BY DEF TopBit
<1> HIDE DEF h
<1>4. u \div h = IF u < h THEN 0 ELSE 1
  <2>1. CASE u < h
    <3>1. u = 0 * h + u /\ u \in 0 .. h - 1 /\ u \in Int
      BY <2>1, <1>1, <1>2
    <3> QED  BY <3>1, <2>1, <1>1, DivModUnique
  <2>2. CASE ~ (u < h)
    <3>1. u = 1 * h + (u - h) /\ u - h \in 0 .. h - 1 /\ u \in Int
      BY <2>2, <1>1, <1>2
    <3> QED  BY <3>1, <2>2, <1>1, DivModUnique
  <2> QED  BY <2>1, <2>2
<1>5. (2 * u) % W = IF u < h THEN 2 * u ELSE 2 * u - 2 * h
  <2>1. 2 * u \in Int /\ - W <= 2 * u /\ 2 * u < 2 * W
    BY <1>1, <1>2
  <2>2. (2 * u) % W = IF 2 * u < 0 THEN 2 * u + W
                      ELSE IF 2 * u < W THEN 2 * u ELSE 2 * u - W
    BY <2>1, Wrap
  <2> QED  BY <2>2, <1>1, <1>2
<1>6. (2 * u) % W \in Nat /\ (2 * u) % W <= 2 * h - 2
  BY <1>1, <1>2, <1>5
<1>7. CASE u < h
  BY <1>1, <1>2, <1>3, <1>4, <1>5, <1>7 DEF Word
<1>8. CASE ~ (u < h)
  BY <1>1, <1>2, <1>3, <1>4, <1>5, <1>8 DEF Word
<1> QED  BY <1>7, <1>8

LEMMA ShiftInValue ==
  ASSUME NEW part \in Limbs, NEW low \in {0, 1}
  PROVE  /\ ShiftIn(part, low) \in Limbs
         /\ TopBit(part[3]) \in {0, 1}
         /\ Val(ShiftIn(part, low))
               = 2 * Val(part) + low - Capacity * TopBit(part[3])
<1> DEFINE s == ShiftIn(part, low)
           c1 == TopBit(part[0])  c2 == TopBit(part[1])
           c3 == TopBit(part[2])  c4 == TopBit(part[3])
<1>1. part[0] \in Word /\ part[1] \in Word /\ part[2] \in Word /\ part[3] \in Word
  BY ValType
<1>2. /\ s[0] = ((2 * part[0]) % W) + low  /\ s[1] = ((2 * part[1]) % W) + c1
      /\ s[2] = ((2 * part[2]) % W) + c2   /\ s[3] = ((2 * part[3]) % W) + c3
      /\ s = [k \in Limb |-> s[k]]
  BY DEF ShiftIn, Limb
<1> HIDE DEF s
<1>3. c1 \in {0, 1} /\ s[0] \in Word /\ s[0] = part[0] + part[0] + low - W * c1
  BY <1>1, <1>2, ShiftLimb
<1>4. c2 \in {0, 1} /\ s[1] \in Word /\ s[1] = part[1] + part[1] + c1 - W * c2
  BY <1>1, <1>2, <1>3, ShiftLimb
<1>5. c3 \in {0, 1} /\ s[2] \in Word /\ s[2] = part[2] + part[2] + c2 - W * c3
  BY <1>1, <1>2, <1>4, ShiftLimb
<1>6. c4 \in {0, 1} /\ s[3] \in Word /\ s[3] = part[3] + part[3] + c3 - W * c4
  BY <1>1, <1>2, <1>5, ShiftLimb
<1>7. s \in Limbs
  BY <1>2, <1>3, <1>4, <1>5, <1>6 DEF Limbs, Limb
<1>8. c4 = TopBit(part[3])
  OBVIOUS
<1> HIDE DEF c1, c2, c3, c4
<1> DEFINE c == [k \in 0 .. 4 |-> CASE k = 0 -> low [] k = 1 -> c1 [] k = 2 -> c2
                                    [] k = 3 -> c3  [] k = 4 -> c4]
<1>9. /\ c \in [0 .. 4 -> {0, 1}]
      /\ c[0] = low /\ c[1] = c1 /\ c[2] = c2 /\ c[3] = c3 /\ c[4] = c4
  BY <1>3, <1>4, <1>5, <1>6
<1> HIDE DEF c
<1>10. Differences(part, s, part, c)
  <2>2. \A u, v, t, k, w \in Int : t = u + v + k - w => u = t - v - k + w
    OBVIOUS
  <2>3. /\ part[0] \in Int /\ part[1] \in Int /\ part[2] \in Int /\ part[3] \in Int
        /\ s[0] \in Int /\ s[1] \in Int /\ s[2] \in Int /\ s[3] \in Int
        /\ W * c1 \in Int /\ W * c2 \in Int /\ W * c3 \in Int /\ W * c4 \in Int
    BY <1>1, <1>3, <1>4, <1>5, <1>6, WType DEF Word
  <2>4. part[0] = s[0] - part[0] - c[0] + W * c[1]
    BY <1>3, <1>9, <2>2, <2>3
  <2>5. part[1] = s[1] - part[1] - c[1] + W * c[2]
    BY <1>3, <1>4, <1>9, <2>2, <2>3
  <2>6. part[2] = s[2] - part[2] - c[2] + W * c[3]
    BY <1>4, <1>5, <1>9, <2>2, <2>3
  <2>7. part[3] = s[3] - part[3] - c[3] + W * c[4]
    BY <1>5, <1>6, <1>9, <2>2, <2>3
  <2>8. \A k \in Limb : part[k] \in Word /\ s[k] \in Word
    BY <1>1, <1>3, <1>4, <1>5, <1>6 DEF Limb
  <2>9. \A k \in Limb : part[k] = s[k] - part[k] - c[k] + W * c[k + 1]
    BY <2>4, <2>5, <2>6, <2>7 DEF Limb
  <2> QED  BY <1>9, <2>8, <2>9 DEF Differences
<1>11. Val(part) = Val(s) - Val(part) - low + Capacity * c4
  BY <1>9, <1>10, FourDifferences
<1>12. Capacity * c4 \in Int
  BY <1>6, WType DEF Capacity
<1>13. Val(s) = 2 * Val(part) + low - Capacity * c4
  BY <1>7, <1>11, <1>12, ValType
<1> QED  BY <1>6, <1>7, <1>8, <1>13 DEF s

-----------------------------------------------------------------------------
(* Field elements. *)

LEMMA RType ==
  /\ R \in Nat /\ W <= R /\ R >= 4 /\ 2 * R <= Capacity /\ R_MOD \in Limbs
  /\ Capacity \in Nat /\ Capacity * 0 = 0 /\ Capacity * 1 = Capacity
<1>1. R \in Nat /\ W <= R /\ R >= 4 /\ 2 * R <= Capacity /\ R_MOD \in Limbs
  BY FrAssumption, ValType, WType DEF R
<1>2. Capacity \in Nat
  BY WType DEF Capacity
<1> QED  BY <1>1, <1>2

(* Without a borrow out of the last limb, sub4 is subtraction. *)
LEMMA Sub4Exact ==
  ASSUME NEW u \in Limbs, NEW v \in Limbs, Val(u) >= Val(v)
  PROVE  sub4(u, v) \in Limbs /\ Val(sub4(u, v)) = Val(u) - Val(v)
<1>1. PICK borrow \in {0, 1} :
        Val(sub4(u, v)) = Val(u) - Val(v) + Capacity * borrow
  BY Sub4Value
<1>2. /\ sub4(u, v) \in Limbs
      /\ Val(sub4(u, v)) \in Nat /\ Val(sub4(u, v)) < Capacity
      /\ Val(u) \in Nat /\ Val(v) \in Nat /\ Capacity \in Nat
  <2>1. sub4(u, v) \in Limbs
    BY Sub4Value
  <2>2. Val(sub4(u, v)) \in 0 .. Capacity - 1
    BY <2>1, ValBound
  <2> QED  BY <2>1, <2>2, ValType, RType
<1>3. borrow = 0
  BY <1>1, <1>2
<1> QED  BY <1>1, <1>2, <1>3

LEMMA CondSubReduces ==
  ASSUME NEW t \in Limbs, Val(t) < 2 * R
  PROVE  CondSub(t) \in Limbs /\ Val(CondSub(t)) < R
<1>1. Val(t) \in Nat
  BY ValType
<1>2. CASE cmp4(t, R_MOD) >= 0
  <2>1. Val(t) >= R
    BY <1>2, RType, Cmp4Correct DEF R
  <2>2. sub4(t, R_MOD) \in Limbs /\ Val(sub4(t, R_MOD)) = Val(t) - R
    BY <2>1, RType, Sub4Exact DEF R
  <2> QED  BY <1>1, <1>2, <2>2, RType DEF CondSub
<1>3. CASE ~ (cmp4(t, R_MOD) >= 0)
  <2>1. ~ (Val(t) >= R)
    BY <1>3, RType, Cmp4Correct DEF R
  <2> QED  BY <1>1, <1>3, <2>1, RType DEF CondSub
<1> QED  BY <1>2, <1>3

(* fr.c:98: the sum of two reduced elements fits in four limbs, and one    *)
(* subtraction reduces it.                                                 *)
LEMMA SumCorrect ==
  ASSUME NEW u \in Limbs, NEW v \in Limbs, Val(u) < R, Val(v) < R
  PROVE  /\ add4(u, v).carry = 0
         /\ Sum(u, v) \in Limbs
         /\ Val(Sum(u, v)) = (Val(u) + Val(v)) % R
<1> DEFINE t == add4(u, v)
           n == Val(u) + Val(v)
<1>1. /\ t.out \in Limbs /\ t.carry \in {0, 1}
      /\ Val(t.out) = n - Capacity * t.carry
      /\ Val(t.out) \in Nat /\ n \in Nat
  <2>1. /\ t.out \in Limbs /\ t.carry \in {0, 1}
        /\ Val(t.out) = Val(u) + Val(v) - Capacity * t.carry
    BY Add4Value
  <2>2. Val(u) \in Nat /\ Val(v) \in Nat /\ Val(t.out) \in Nat
    BY <2>1, ValType
  <2> HIDE DEF t
  <2> QED  BY <2>1, <2>2, RType
<1>2. t.carry = 0
  <2>1. n < Capacity
    BY ValType, RType
  <2> HIDE DEF n, t
  <2> QED  BY <1>1, <2>1, RType
<1> HIDE DEF t
<1>3. Val(t.out) = n
  <2>1. Capacity * 0 = 0
    BY RType, WType DEF Capacity
  <2> QED  BY <1>1, <1>2, <2>1
<1>4. n < 2 * R
  BY ValType, RType
<1>5. Sum(u, v) = IF cmp4(t.out, R_MOD) >= 0 THEN sub4(t.out, R_MOD) ELSE t.out
  BY <1>2 DEF Sum, t
<1>6. CASE cmp4(t.out, R_MOD) >= 0
  <2>1. n >= R
    BY <1>1, <1>3, <1>6, RType, Cmp4Correct DEF R
  <2>2. Sum(u, v) \in Limbs /\ Val(Sum(u, v)) = n - R
    BY <1>1, <1>3, <1>5, <1>6, <2>1, RType, Sub4Exact DEF R
  <2>3. n = 1 * R + (n - R) /\ n - R \in 0 .. R - 1 /\ R \in Nat \ {0}
    BY <1>1, <1>4, <2>1, RType, WType
  <2> HIDE DEF n
  <2>4. n % R = n - R
    BY <1>1, <2>3, DivModUnique
  <2> QED  BY <1>2, <2>2, <2>4 DEF n, t
<1>7. CASE ~ (cmp4(t.out, R_MOD) >= 0)
  <2>1. ~ (n >= R)
    BY <1>1, <1>3, <1>7, RType, Cmp4Correct DEF R
  <2>3. n = 0 * R + n /\ n \in 0 .. R - 1 /\ R \in Nat \ {0}
    BY <1>1, <2>1, RType, WType
  <2> HIDE DEF n
  <2>4. n % R = n
    BY <1>1, <2>3, DivModUnique
  <2> QED  BY <1>1, <1>2, <1>3, <1>5, <1>7, <2>4 DEF n, t
<1> QED  BY <1>6, <1>7

(* fr.c:110: nor is there a carry out of a + r when b is larger. *)
LEMMA DifferenceCorrect ==
  ASSUME NEW u \in Limbs, NEW v \in Limbs, Val(u) < R, Val(v) < R
  PROVE  /\ add4(u, R_MOD).carry = 0
         /\ Difference(u, v) \in Limbs
         /\ Val(Difference(u, v)) = (Val(u) - Val(v)) % R
<1> DEFINE apr == add4(u, R_MOD)
           n == Val(u) - Val(v)
<1>1. /\ apr.out \in Limbs /\ apr.carry \in {0, 1}
      /\ Val(apr.out) = Val(u) + R - Capacity * apr.carry
      /\ Val(apr.out) \in Nat /\ Val(u) \in Nat /\ Val(v) \in Nat
  BY Add4Value, ValType, RType DEF R
<1>2. apr.carry = 0
  <2>1. Val(u) + R < Capacity
    BY <1>1, RType
  <2> HIDE DEF apr
  <2> QED  BY <1>1, <2>1, RType
<1> HIDE DEF apr
<1>3. Val(apr.out) = Val(u) + R
  <2>1. Capacity * 0 = 0
    BY RType, WType DEF Capacity
  <2> QED  BY <1>1, <1>2, <2>1, RType
<1>4. Difference(u, v) = IF cmp4(u, v) >= 0 THEN sub4(u, v) ELSE sub4(apr.out, v)
  BY DEF Difference, apr
<1>5. CASE cmp4(u, v) >= 0
  <2>1. Val(u) >= Val(v)
    BY <1>5, Cmp4Correct
  <2>2. Difference(u, v) \in Limbs /\ Val(Difference(u, v)) = n
    BY <1>4, <1>5, <2>1, Sub4Exact
  <2>3. n = 0 * R + n /\ n \in 0 .. R - 1 /\ R \in Nat \ {0} /\ n \in Int
    BY <1>1, <2>1, RType, WType
  <2> HIDE DEF n
  <2>4. n % R = n
    BY <2>3, DivModUnique
  <2> QED  BY <1>2, <2>2, <2>4 DEF n, apr
<1>6. CASE ~ (cmp4(u, v) >= 0)
  <2>1. ~ (Val(u) >= Val(v))
    BY <1>6, Cmp4Correct
  <2>2. Difference(u, v) \in Limbs /\ Val(Difference(u, v)) = n + R
    <3>1. Val(apr.out) >= Val(v)
      BY <1>1, <1>3, RType
    <3>2. sub4(apr.out, v) \in Limbs /\ Val(sub4(apr.out, v)) = Val(apr.out) - Val(v)
      BY <1>1, <3>1, Sub4Exact
    <3> QED  BY <1>1, <1>3, <1>4, <1>6, <3>2, RType
  <2>3. n = (-1) * R + (n + R) /\ n + R \in 0 .. R - 1 /\ R \in Nat \ {0} /\ n \in Int
    BY <1>1, <2>1, RType, WType
  <2> HIDE DEF n
  <2>4. n % R = n + R
    BY <2>3, DivModUnique
  <2> QED  BY <1>2, <2>2, <2>4 DEF n, apr
<1> QED  BY <1>5, <1>6

(* rem <<= 1, one bit, one conditional subtraction: no bit is lost. *)
LEMMA DivStepReduces ==
  ASSUME NEW t \in Limbs, NEW c \in {0, 1}, Val(t) < R
  PROVE  /\ TopBit(t[3]) = 0
         /\ CondSub(ShiftIn(t, c)) \in Limbs
         /\ Val(CondSub(ShiftIn(t, c))) < R
<1> DEFINE s == ShiftIn(t, c)
           k == TopBit(t[3])
<1>1. s \in Limbs /\ k \in {0, 1} /\ Val(s) = 2 * Val(t) + c - Capacity * k
  BY ShiftInValue
<1> HIDE DEF s, k
<1>2. Val(s) \in Nat /\ Val(t) \in Nat
  BY <1>1, ValType
<1>3. 2 * Val(t) + c < 2 * R
  BY <1>2, RType
<1>4. k = 0
  BY <1>1, <1>2, <1>3, RType
<1>5. Val(s) < 2 * R
  BY <1>1, <1>2, <1>3, <1>4, RType
<1> QED  BY <1>1, <1>4, <1>5, CondSubReduces DEF s, k

-----------------------------------------------------------------------------
(* What the loops keep: where their indices are; outside fr_from_be every  *)
(* cell is reduced; the upper words of the product are still zero when a   *)
(* row adds its last carry to one; the remainder is reduced.               *)
Loops ==
  /\ pc = "load" => i \in Limb /\ j \in 0 .. BPL - 1
  /\ pc = "rows" => /\ i \in Limb /\ j \in 0 .. 4
                    /\ \A k \in 0 .. 7 : k >= i + 4 => p[k] = 0
                    /\ Val(rem) = 0
  /\ pc = "divide" => Val(rem) < R

Reduced ==
  \A c \in Cells : (c = out /\ pc \in {"load", "reduce"}) \/ Val(mem[c]) < R

IInv == TypeOK /\ Loops /\ Reduced /\ NoCarryLost

LEMMA ZeroValue == Zero \in Limbs /\ Val(Zero) = 0
<1>1. /\ Zero \in Limbs /\ Zero[0] = 0 /\ Zero[1] = 0 /\ Zero[2] = 0 /\ Zero[3] = 0
  BY WType DEF Zero, Limbs, Limb, Word
<1> QED  BY <1>1, WType DEF Val

LEMMA InitInvariant == Init => IInv
<1> SUFFICES ASSUME Init PROVE IInv
  OBVIOUS
<1>1. out \in Cells
  BY FrAssumption DEF Init
<1>2. mem \in [Cells -> Limbs] /\ \A c \in Cells : Val(mem[c]) < R
  BY FrAssumption DEF Init
<1>3. in \in Bytes /\ p \in [0 .. 7 -> Word] /\ 0 \in Word
  BY FrAssumption, WType DEF Init, Bytes, Word
<1>4. TypeOK
  <2>1. 0 \in -1 .. 8 * BITS - 1
    BY FrAssumption
  <2>2. /\ x \in Limbs /\ y \in Limbs /\ rem \in Limbs /\ old = mem
        /\ a = out /\ b = out
    BY ZeroValue DEF Init
  <2>3. /\ pc = "idle" /\ op = "none" /\ limb = 0 /\ i = 0 /\ j = 0 /\ carry = 0
        /\ bit = 0 /\ stage = 0 /\ subs = 0 /\ lost = FALSE
    BY DEF Init
  <2>4. /\ mem \in [Cells -> Limbs] /\ old \in [Cells -> Limbs]
        /\ {out, a, b} \subseteq Cells
    BY <1>1, <1>2, <2>2
  <2>5. limb \in Word /\ carry \in Word /\ bit \in -1 .. 8 * BITS - 1
    BY <1>3, <2>1, <2>3
  <2>6. i \in 0 .. 4 /\ j \in Nat /\ stage \in 0 .. 3 /\ subs \in Nat
    BY <2>3
  <2>8. lost \in BOOLEAN
    BY <2>3, Zenon
  <2>7. /\ pc \in {"idle", "load", "reduce", "rows", "divide", "done"}
        /\ op \in {"none", "set_u64", "from_be", "add", "sub", "mul", "pow5"}
    BY <2>3
  <2> QED  BY <1>3, <2>2, <2>4, <2>5, <2>6, <2>7, <2>8 DEF TypeOK
<1>5. Loops /\ NoCarryLost
  BY DEF Init, Loops, NoCarryLost
<1>6. Reduced
  BY <1>2 DEF Reduced
<1> QED  BY <1>4, <1>5, <1>6 DEF IInv

(* One step of each operation. *)
LEMMA SetU64Step ==
  ASSUME IInv, NEW o \in Cells, NEW n \in Word, fr_set_u64(o, n)
  PROVE  IInv'
<1> DEFINE v == [k \in Limb |-> IF k = 0 THEN n ELSE 0]
<1>1. v \in Limbs /\ v[0] = n /\ v[1] = 0 /\ v[2] = 0 /\ v[3] = 0
  BY WType DEF Limbs, Limb, Word
<1>2. Val(v) < R
  <2> HIDE DEF v
  <2>1. Val(v) = n + W * (0 + W * (0 + W * 0))
    BY <1>1 DEF Val
  <2>2. n \in Nat /\ n < W
    BY WType DEF Word
  <2> QED  BY <2>1, <2>2, WType, RType
<1>3. mem' = [mem EXCEPT ![o] = v] /\ pc' = "done" /\ lost' = lost
  BY DEF fr_set_u64
<1> HIDE DEF v
<1>4. TypeOK'
  BY <1>1, <1>3 DEF IInv, TypeOK, fr_set_u64, Call, mul
<1>5. Loops' /\ NoCarryLost'
  BY <1>3 DEF IInv, Loops, NoCarryLost
<1>6. Reduced'
  BY <1>2, <1>3 DEF IInv, Reduced, TypeOK, fr_set_u64, Call
<1> QED  BY <1>4, <1>5, <1>6 DEF IInv

LEMMA FromBeStep ==
  ASSUME IInv, NEW o \in Cells, NEW bytes \in Bytes, fr_from_be(o, bytes)
  PROVE  IInv'
<1>1. TypeOK'
  BY WType DEF IInv, TypeOK, fr_from_be, Call, mul, Word
<1>2. Loops' /\ NoCarryLost'
  BY FrAssumption DEF IInv, Loops, NoCarryLost, fr_from_be, Call, Limb
<1>3. Reduced'
  BY DEF IInv, Reduced, TypeOK, fr_from_be, Call
<1> QED  BY <1>1, <1>2, <1>3 DEF IInv

LEMMA LoadByteStep == ASSUME IInv, LoadByte PROVE IInv'
<1> DEFINE next == (limb * BYTE + in[i * BPL + j]) % W
<1>0. pc = "load" /\ i \in {0, 1, 2, 3} /\ j \in 0 .. BPL - 1 /\ BPL \in Nat \ {0}
  BY FrAssumption DEF IInv, Loops, LoadByte, Limb
<1>1. in[i * BPL + j] \in Nat
  <2>1. i * BPL + j \in 0 .. 4 * BPL - 1
    BY <1>0
  <2>2. in \in Bytes
    BY DEF IInv, TypeOK
  <2> QED  BY <2>1, <2>2, FrAssumption DEF Bytes
<1>2. next \in Word
  <2>1. limb \in Nat /\ BYTE \in Nat /\ W \in Nat \ {0}
    BY FrAssumption, WType DEF IInv, TypeOK, Word
  <2>2. limb * BYTE + in[i * BPL + j] \in Int
    BY <1>1, <2>1
  <2> QED  BY <2>1, <2>2, DivMod DEF Word
<1> HIDE DEF next
<1>3. /\ out' = out /\ lost' = lost
      /\ \/ j < BPL - 1 /\ limb' = next /\ j' = j + 1 /\ mem' = mem /\ i' = i
         \/ /\ ~ (j < BPL - 1)
            /\ mem' = [mem EXCEPT ![out][3 - i] = next]
            /\ limb' = 0 /\ j' = 0 /\ i' = i + 1
      /\ pc' = IF i' = 4 THEN "reduce" ELSE "load"
  BY <1>0 DEF LoadByte, next, call
<1>4. mem' \in [Cells -> Limbs] /\ \A c \in Cells \ {out} : mem'[c] = mem[c]
  BY <1>0, <1>2, <1>3 DEF IInv, TypeOK, Limbs, Limb
<1>5. limb' \in Word /\ i' \in 0 .. 4 /\ j' \in Nat /\ pc' \in {"load", "reduce"}
  BY <1>0, <1>2, <1>3, WType DEF Word
<1>6. TypeOK'
  BY <1>4, <1>5 DEF IInv, TypeOK, LoadByte, call, mul
<1>7. Loops' /\ NoCarryLost'
  BY <1>0, <1>3, <1>5 DEF IInv, Loops, NoCarryLost, Limb
<1>8. Reduced'
  BY <1>0, <1>3, <1>4, <1>5 DEF IInv, Reduced
<1> QED  BY <1>6, <1>7, <1>8 DEF IInv

LEMMA ReduceStep == ASSUME IInv, Reduce PROVE IInv'
<1>1. mem[out] \in Limbs /\ out \in Cells /\ pc = "reduce"
  BY DEF IInv, TypeOK, Reduce
<1>2. CASE cmp4(mem[out], R_MOD) >= 0
  <2>1. sub4(mem[out], R_MOD) \in Limbs
    BY <1>1, RType, Sub4Value
  <2>2. /\ mem' = [mem EXCEPT ![out] = sub4(mem[out], R_MOD)]
        /\ pc' = "reduce" /\ out' = out /\ lost' = lost /\ subs' = subs + 1
    BY <1>1, <1>2 DEF Reduce, call
  <2>3. TypeOK'
    BY <2>1, <2>2 DEF IInv, TypeOK, Reduce, call, mul
  <2>4. Loops' /\ NoCarryLost'
    BY <2>2 DEF IInv, Loops, NoCarryLost
  <2>5. Reduced'
    BY <1>1, <2>2 DEF IInv, Reduced, TypeOK
  <2> QED  BY <2>3, <2>4, <2>5 DEF IInv
<1>3. CASE ~ (cmp4(mem[out], R_MOD) >= 0)
  <2>1. /\ mem' = mem /\ pc' = "done" /\ out' = out /\ lost' = lost
        /\ subs' = subs
    BY <1>3 DEF Reduce, call
  <2>2. Val(mem[out]) < R
    BY <1>1, <1>3, RType, Cmp4Correct, ValType DEF R
  <2>3. TypeOK'
    BY <2>1 DEF IInv, TypeOK, Reduce, call, mul
  <2>4. Loops' /\ NoCarryLost'
    BY <2>1 DEF IInv, Loops, NoCarryLost
  <2>5. Reduced'
    BY <2>1, <2>2 DEF IInv, Reduced
  <2> QED  BY <2>3, <2>4, <2>5 DEF IInv
<1> QED  BY <1>2, <1>3

LEMMA AddSubStep ==
  ASSUME IInv, NEW o \in Cells, NEW u \in Cells, NEW v \in Cells,
         fr_add(o, u, v) \/ fr_sub(o, u, v)
  PROVE  IInv'
<1>1. /\ mem[u] \in Limbs /\ mem[v] \in Limbs /\ pc = "idle"
      /\ Val(mem[u]) < R /\ Val(mem[v]) < R
  BY DEF IInv, TypeOK, Reduced, fr_add, fr_sub, Call
<1>2. \A n \in Int : n % R < R
  BY RType
<1>3. \E r \in Limbs : Val(r) < R /\ mem' = [mem EXCEPT ![o] = r]
  <2>1. CASE fr_add(o, u, v)
    <3> DEFINE r == Sum(mem[u], mem[v])
    <3>1. r \in Limbs /\ Val(r) = (Val(mem[u]) + Val(mem[v])) % R
      BY <1>1, SumCorrect
    <3>2. Val(mem[u]) + Val(mem[v]) \in Int
      BY <1>1, ValType
    <3>3. mem' = [mem EXCEPT ![o] = r]
      BY <2>1 DEF fr_add
    <3> HIDE DEF r
    <3> QED  BY <1>2, <3>1, <3>2, <3>3
  <2>2. CASE fr_sub(o, u, v)
    <3> DEFINE r == Difference(mem[u], mem[v])
    <3>1. r \in Limbs /\ Val(r) = (Val(mem[u]) - Val(mem[v])) % R
      BY <1>1, DifferenceCorrect
    <3>2. Val(mem[u]) - Val(mem[v]) \in Int
      BY <1>1, ValType
    <3>3. mem' = [mem EXCEPT ![o] = r]
      BY <2>2 DEF fr_sub
    <3> HIDE DEF r
    <3> QED  BY <1>2, <3>1, <3>2, <3>3
  <2> QED  BY <2>1, <2>2
<1>4. lost' = FALSE
  <2>1. CASE fr_add(o, u, v)
    <3>1. ~ (add4(mem[u], mem[v]).carry = 1)
      BY <1>1, SumCorrect
    <3> QED  BY <2>1, <3>1 DEF fr_add
  <2>2. CASE fr_sub(o, u, v)
    <3>1. ~ (cmp4(mem[u], mem[v]) < 0 /\ add4(mem[u], R_MOD).carry = 1)
      BY <1>1, DifferenceCorrect
    <3> QED  BY <2>2, <3>1 DEF fr_sub
  <2> QED  BY <2>1, <2>2
<1>5. /\ pc' = "done" /\ out' = o /\ a' = u /\ b' = v /\ op' \in {"add", "sub"}
      /\ UNCHANGED <<limb, i, j, mul, stage, old, in, subs>>
  BY DEF fr_add, fr_sub, Call
<1>6. TypeOK'
  BY <1>3, <1>4, <1>5 DEF IInv, TypeOK, mul
<1>7. Loops' /\ NoCarryLost'
  BY <1>4, <1>5 DEF Loops, NoCarryLost
<1>8. Reduced'
  BY <1>1, <1>3, <1>5 DEF IInv, Reduced, TypeOK
<1> QED  BY <1>6, <1>7, <1>8 DEF IInv

LEMMA StartMulInvariant ==
  ASSUME IInv, NEW u \in Limbs, NEW v \in Limbs, StartMul(u, v),
         pc # "load", pc # "reduce",
         UNCHANGED <<mem, limb, old, in, subs, lost>>,
         op' \in {"mul", "pow5"}, {out', a', b'} \subseteq Cells, stage' \in 0 .. 3
  PROVE  IInv'
<1>1. p' = [k \in 0 .. 7 |-> 0] /\ p' \in [0 .. 7 -> Word] /\ 0 \in Word
  BY WType DEF StartMul, Word
<1>2. rem' = Zero /\ rem' \in Limbs /\ Val(rem') = 0
  BY ZeroValue DEF StartMul
<1>3. /\ x' = u /\ y' = v /\ i' = 0 /\ j' = 0 /\ carry' = 0 /\ bit' = 0 /\ pc' = "rows"
  BY DEF StartMul
<1>4. TypeOK'
  BY <1>1, <1>2, <1>3, FrAssumption DEF IInv, TypeOK
<1>5. Loops' /\ NoCarryLost'
  BY <1>1, <1>2, <1>3 DEF IInv, Loops, NoCarryLost, Limb
<1>6. Reduced'
  BY <1>3 DEF IInv, Reduced
<1> QED  BY <1>4, <1>5, <1>6 DEF IInv

LEMMA MulColumnStep == ASSUME IInv, MulColumn PROVE IInv'
<1> DEFINE m == MulAcc(p[i + j], x[i], y[j], carry)
<1>1. /\ pc = "rows" /\ i \in {0, 1, 2, 3} /\ j \in {0, 1, 2, 3} /\ i + j \in 0 .. 7
      /\ \A k \in 0 .. 7 : k >= i + 4 => p[k] = 0
  BY DEF IInv, Loops, MulColumn, Limb
<1>2. p[i + j] \in Word /\ x[i] \in Word /\ y[j] \in Word /\ carry \in Word
  BY <1>1 DEF IInv, TypeOK, Limbs, Limb
<1>3. m.word \in Word /\ m.carry \in Word /\ ~ (m.high >= W)
  BY <1>2, MulAccExact, WType
<1>4. /\ p' = [p EXCEPT ![i + j] = m.word] /\ carry' = m.carry /\ j' = j + 1
      /\ lost' = (lost \/ m.high >= W)
      /\ UNCHANGED <<mem, pc, call, limb, x, y, i, bit, rem, stage, old, in, subs>>
  BY DEF MulColumn
<1> HIDE DEF m
<1>5. lost' = FALSE
  BY <1>3, <1>4 DEF IInv, NoCarryLost, TypeOK
<1>6. p' \in [0 .. 7 -> Word] /\ \A k \in 0 .. 7 : k >= i + 4 => p'[k] = 0
  BY <1>1, <1>3, <1>4 DEF IInv, TypeOK
<1>7. TypeOK'
  BY <1>1, <1>3, <1>4, <1>5, <1>6 DEF IInv, TypeOK, call
<1>8. Loops' /\ NoCarryLost'
  BY <1>1, <1>4, <1>5, <1>6 DEF IInv, Loops, NoCarryLost, Limb
<1>9. Reduced'
  BY <1>4 DEF IInv, Reduced, call
<1> QED  BY <1>7, <1>8, <1>9 DEF IInv

LEMMA MulRowStep == ASSUME IInv, MulRow PROVE IInv'
<1>1. /\ pc = "rows" /\ i \in {0, 1, 2, 3} /\ i + 4 \in 0 .. 7
      /\ \A k \in 0 .. 7 : k >= i + 4 => p[k] = 0
  BY DEF IInv, Loops, MulRow, Limb
<1>2. p[i + 4] = 0 /\ carry \in Nat /\ carry < W /\ (p[i + 4] + carry) % W = carry
  <2>1. p[i + 4] = 0 /\ carry \in Nat /\ carry < W
    BY <1>1, WType DEF IInv, TypeOK, Word
  <2>2. p[i + 4] + carry = 0 * W + carry /\ carry \in 0 .. W - 1 /\ W \in Nat \ {0}
    BY <2>1, WType
  <2> QED  BY <2>1, <2>2, DivModUnique
<1>3. /\ p' = [p EXCEPT ![i + 4] = (p[i + 4] + carry) % W]
      /\ lost' = (lost \/ p[i + 4] + carry >= W)
      /\ i' = i + 1 /\ j' = 0 /\ carry' = 0
      /\ IF i = 3 THEN pc' = "divide" /\ bit' = 8 * BITS - 1 ELSE UNCHANGED <<pc, bit>>
      /\ UNCHANGED <<mem, call, limb, x, y, rem, stage, old, in, subs>>
  BY DEF MulRow
<1>4. lost' = FALSE
  <2>1. ~ (p[i + 4] + carry >= W)
    BY <1>2, WType
  <2> QED  BY <1>3, <2>1 DEF IInv, NoCarryLost, TypeOK
<1>5. p' \in [0 .. 7 -> Word] /\ \A k \in 0 .. 7 : k >= i' + 4 => p'[k] = 0
  BY <1>1, <1>2, <1>3, WType DEF IInv, TypeOK, Word
<1>6. bit' \in -1 .. 8 * BITS - 1 /\ pc' \in {"rows", "divide"} /\ 0 \in Word
  BY <1>1, <1>3, FrAssumption, WType DEF IInv, TypeOK, Word
<1>7. TypeOK'
  BY <1>1, <1>3, <1>4, <1>5, <1>6 DEF IInv, TypeOK, call
<1>8. Loops' /\ NoCarryLost'
  BY <1>1, <1>3, <1>4, <1>5, <1>6, RType DEF IInv, Loops, NoCarryLost, Limb
<1>9. Reduced'
  BY <1>1, <1>3, <1>6 DEF IInv, Reduced, call
<1> QED  BY <1>7, <1>8, <1>9 DEF IInv

LEMMA DivStepStep == ASSUME IInv, DivStep PROVE IInv'
<1>1. pc = "divide" /\ bit >= 0 /\ rem \in Limbs /\ Val(rem) < R
  BY DEF IInv, Loops, TypeOK, DivStep
<1>2. ProductBit \in {0, 1}
  BY DEF ProductBit, Bool
<1>3. /\ rem' = CondSub(ShiftIn(rem, ProductBit)) /\ bit' = bit - 1
      /\ lost' = (lost \/ TopBit(rem[3]) = 1)
      /\ UNCHANGED <<mem, pc, call, limb, x, y, i, j, p, carry, stage, old, in, subs>>
  BY DEF DivStep
<1>4. TopBit(rem[3]) = 0 /\ rem' \in Limbs /\ Val(rem') < R
  BY <1>1, <1>2, <1>3, DivStepReduces
<1>5. lost' = FALSE
  <2>1. ~ (TopBit(rem[3]) = 1)
    BY <1>4
  <2> QED  BY <1>3, <2>1 DEF IInv, NoCarryLost, TypeOK
<1>6. bit' \in -1 .. 8 * BITS - 1
  BY <1>1, <1>3, FrAssumption DEF IInv, TypeOK
<1>7. TypeOK'
  BY <1>3, <1>4, <1>5, <1>6 DEF IInv, TypeOK, call
<1>8. Loops' /\ NoCarryLost'
  BY <1>1, <1>3, <1>4, <1>5 DEF IInv, Loops, NoCarryLost
<1>9. Reduced'
  BY <1>3 DEF IInv, Reduced, call
<1> QED  BY <1>7, <1>8, <1>9 DEF IInv

LEMMA MulDoneStep == ASSUME IInv, MulDone PROVE IInv'
<1>1. /\ pc = "divide" /\ rem \in Limbs /\ Val(rem) < R
      /\ out \in Cells /\ a \in Cells /\ b \in Cells /\ mem[a] \in Limbs
  BY DEF IInv, Loops, TypeOK, MulDone
<1>2. CASE op = "pow5" /\ stage < 3
  <2>1. /\ StartMul(rem, IF stage = 1 THEN rem ELSE mem[a]) /\ stage' = stage + 1
        /\ UNCHANGED <<mem, limb, old, in, subs, lost, call>>
    BY <1>2 DEF MulDone
  <2>2. (IF stage = 1 THEN rem ELSE mem[a]) \in Limbs
    BY <1>1
  <2>3. stage' \in 0 .. 3 /\ op' = "pow5" /\ {out', a', b'} \subseteq Cells
    BY <1>1, <1>2, <2>1 DEF IInv, TypeOK, call
  <2> QED  BY <1>1, <2>1, <2>2, <2>3, StartMulInvariant
<1>3. CASE ~ (op = "pow5" /\ stage < 3)
  <2>1. /\ mem' = [mem EXCEPT ![out] = rem] /\ pc' = "done"
        /\ UNCHANGED <<i, j, mul, stage, call, limb, old, in, subs, lost>>
    BY <1>3 DEF MulDone
  <2>2. TypeOK'
    BY <1>1, <2>1 DEF IInv, TypeOK, call, mul
  <2>3. Loops' /\ NoCarryLost'
    BY <2>1 DEF IInv, Loops, NoCarryLost
  <2>4. Reduced'
    BY <1>1, <2>1 DEF IInv, Reduced, TypeOK, call
  <2> QED  BY <2>2, <2>3, <2>4 DEF IInv
<1> QED  BY <1>2, <1>3

(* IInv is inductive. *)
THEOREM FrInvariance == Spec => []IInv
<1>1. ASSUME IInv, [Next]_vars PROVE IInv'
  <2>1. ASSUME NEW o \in Cells, NEW n \in Word, fr_set_u64(o, n) PROVE IInv'
    BY <1>1, <2>1, SetU64Step
  <2>2. ASSUME NEW o \in Cells, NEW bytes \in Bytes, fr_from_be(o, bytes) PROVE IInv'
    BY <1>1, <2>2, FromBeStep
  <2>3. ASSUME NEW o \in Cells, NEW u \in Cells, fr_pow5(o, u) PROVE IInv'
    <3>1. mem[u] \in Limbs
      BY <1>1 DEF IInv, TypeOK
    <3>2. /\ StartMul(mem[u], mem[u]) /\ pc = "idle"
          /\ UNCHANGED <<mem, limb, old, in, subs, lost>>
          /\ op' = "pow5" /\ {out', a', b'} \subseteq Cells /\ stage' \in 0 .. 3
      BY <2>3 DEF fr_pow5, Call
    <3> QED  BY <1>1, <3>1, <3>2, StartMulInvariant
  <2>4. ASSUME NEW o \in Cells, NEW u \in Cells, NEW v \in Cells,
               fr_add(o, u, v) \/ fr_sub(o, u, v)
        PROVE  IInv'
    BY <1>1, <2>4, AddSubStep
  <2>5. ASSUME NEW o \in Cells, NEW u \in Cells, NEW v \in Cells, fr_mul(o, u, v)
        PROVE  IInv'
    <3>1. mem[u] \in Limbs /\ mem[v] \in Limbs /\ stage \in 0 .. 3
      BY <1>1 DEF IInv, TypeOK
    <3>2. /\ StartMul(mem[u], mem[v]) /\ pc = "idle"
          /\ UNCHANGED <<mem, limb, stage, old, in, subs, lost>>
          /\ op' = "mul" /\ {out', a', b'} \subseteq Cells
      BY <2>5 DEF fr_mul, Call
    <3> QED  BY <1>1, <3>1, <3>2, StartMulInvariant
  <2>6. CASE LoadByte  BY <1>1, <2>6, LoadByteStep
  <2>7. CASE Reduce    BY <1>1, <2>7, ReduceStep
  <2>8. CASE MulColumn BY <1>1, <2>8, MulColumnStep
  <2>9. CASE MulRow    BY <1>1, <2>9, MulRowStep
  <2>10. CASE DivStep  BY <1>1, <2>10, DivStepStep
  <2>11. CASE MulDone  BY <1>1, <2>11, MulDoneStep
  <2>12. CASE UNCHANGED vars
    BY <1>1, <2>12 DEF IInv, TypeOK, Loops, Reduced, NoCarryLost, vars, call, mul
  <2> QED
    BY <1>1, <2>1, <2>2, <2>3, <2>4, <2>5, <2>6, <2>7, <2>8, <2>9, <2>10, <2>11, <2>12
       DEF Next
<1> QED  BY <1>1, InitInvariant, PTL DEF Spec

(* The representation: limbs stay words, indices stay in their loops. *)
THEOREM FrTypes == Spec => []TypeOK
<1>1. IInv => TypeOK
  BY DEF IInv
<1> QED  BY <1>1, FrInvariance, PTL

(* fr.c:98, 110, 126-127 and 139, for every word size and modulus: every   *)
(* carry the code ignores is zero.                                         *)
THEOREM FrNoCarryLost == Spec => []NoCarryLost
<1>1. IInv => NoCarryLost
  BY DEF IInv
<1> QED  BY <1>1, FrInvariance, PTL

-----------------------------------------------------------------------------
(* Who writes what: before the call nothing has changed, and after it only *)
(* the output has.                                                         *)
Frame ==
  /\ pc = "idle" => mem = old
  /\ \A c \in Cells : c # out \/ pc = "idle" => mem[c] = old[c]

(* The operations without a loop: done as soon as they are called. *)
Straight == op \in {"set_u64", "add", "sub"}
StraightCorrect == Straight => pc = "done" /\ Val(mem[out]) = Expected

LEMMA SetU64Correct ==
  ASSUME IInv, NEW o \in Cells, NEW n \in Word, fr_set_u64(o, n)
  PROVE  StraightCorrect'
<1> DEFINE v == [k \in Limb |-> IF k = 0 THEN n ELSE 0]
<1>1. v[0] = n /\ v[1] = 0 /\ v[2] = 0 /\ v[3] = 0
  BY DEF Limb
<1>2. mem' = [mem EXCEPT ![o] = v] /\ pc' = "done" /\ op' = "set_u64"
      /\ out' = o /\ limb' = n
  BY DEF fr_set_u64, Call
<1> HIDE DEF v
<1>3. mem'[out'] = v
  BY <1>2 DEF IInv, TypeOK
<1>4. Val(v) = n
  BY <1>1, WType DEF Val, Word
<1>5. Expected' = n
  BY <1>2 DEF Expected
<1> QED  BY <1>2, <1>3, <1>4, <1>5 DEF StraightCorrect

LEMMA AddSubCorrect ==
  ASSUME IInv, Frame, NEW o \in Cells, NEW u \in Cells, NEW v \in Cells,
         fr_add(o, u, v) \/ fr_sub(o, u, v)
  PROVE  StraightCorrect'
<1>1. /\ mem[u] \in Limbs /\ mem[v] \in Limbs /\ pc = "idle"
      /\ Val(mem[u]) < R /\ Val(mem[v]) < R /\ mem = old
  BY DEF IInv, TypeOK, Reduced, Frame, fr_add, fr_sub, Call
<1>2. CASE fr_add(o, u, v)
  <2>1. mem'[o] = Sum(mem[u], mem[v])
    BY <1>2 DEF fr_add, IInv, TypeOK
  <2>2. pc' = "done" /\ op' = "add" /\ out' = o /\ a' = u /\ b' = v /\ old' = mem
    BY <1>1, <1>2 DEF fr_add, Call
  <2>3. Expected' = (Val(mem[u]) + Val(mem[v])) % R
    BY <2>2 DEF Expected
  <2> QED  BY <1>1, <2>1, <2>2, <2>3, SumCorrect DEF StraightCorrect
<1>3. CASE fr_sub(o, u, v)
  <2>1. mem'[o] = Difference(mem[u], mem[v])
    BY <1>3 DEF fr_sub, IInv, TypeOK
  <2>2. pc' = "done" /\ op' = "sub" /\ out' = o /\ a' = u /\ b' = v /\ old' = mem
    BY <1>1, <1>3 DEF fr_sub, Call
  <2>3. Expected' = (Val(mem[u]) - Val(mem[v])) % R
    BY <2>2 DEF Expected
  <2> QED  BY <1>1, <2>1, <2>2, <2>3, DifferenceCorrect DEF StraightCorrect
<1> QED  BY <1>2, <1>3

LEMMA FrameSteps ==
  ASSUME IInv, Frame, Next
  PROVE  Frame'
<1>1. /\ \A c \in Cells : c # out' => mem'[c] = mem[c]
      /\ old' = old
      /\ pc' # "idle"
      /\ pc # "idle" => out' = out
  <2>1. ASSUME NEW o \in Cells, NEW u \in Cells, NEW v \in Cells, NEW n \in Word,
               NEW bytes \in Bytes,
               \/ fr_set_u64(o, n) \/ fr_from_be(o, bytes) \/ fr_pow5(o, u)
               \/ fr_add(o, u, v) \/ fr_sub(o, u, v) \/ fr_mul(o, u, v)
        PROVE  /\ \A c \in Cells : c # out' => mem'[c] = mem[c]
               /\ old' = old
               /\ pc' # "idle"
               /\ pc # "idle" => out' = out
    BY <2>1 DEF fr_set_u64, fr_from_be, fr_pow5, fr_add, fr_sub, fr_mul, Call,
                StartMul, IInv, TypeOK
  <2>2. CASE LoadByte \/ Reduce \/ MulColumn \/ MulRow \/ DivStep \/ MulDone
    BY <2>2 DEF LoadByte, Reduce, MulColumn, MulRow, DivStep, MulDone, StartMul,
                call, IInv, TypeOK
  <2>3. Word # {} /\ Bytes # {}
    <3>1. 0 \in Word
      BY WType DEF Word
    <3>2. [k \in 0 .. 4 * BPL - 1 |-> 0] \in Bytes
      BY FrAssumption DEF Bytes
    <3> QED  BY <3>1, <3>2
  <2> QED  BY <2>1, <2>2, <2>3 DEF Next
<1> QED  BY <1>1 DEF Frame

LEMMA StraightSteps ==
  ASSUME IInv, Frame, StraightCorrect, Next
  PROVE  StraightCorrect'
<1>1. ASSUME NEW o \in Cells, NEW n \in Word, fr_set_u64(o, n)
      PROVE  StraightCorrect'
  BY <1>1, SetU64Correct
<1>2. ASSUME NEW o \in Cells, NEW u \in Cells, NEW v \in Cells,
             fr_add(o, u, v) \/ fr_sub(o, u, v)
      PROVE  StraightCorrect'
  BY <1>2, AddSubCorrect
<1>3. ASSUME NEW o \in Cells, NEW u \in Cells, NEW v \in Cells, NEW bytes \in Bytes,
             fr_from_be(o, bytes) \/ fr_pow5(o, u) \/ fr_mul(o, u, v)
      PROVE  StraightCorrect'
  BY <1>3 DEF fr_from_be, fr_pow5, fr_mul, Call, StraightCorrect, Straight
<1>4. ASSUME LoadByte \/ Reduce \/ MulColumn \/ MulRow \/ DivStep \/ MulDone
      PROVE  StraightCorrect'
  <2>1. pc # "done" /\ op' = op
    BY <1>4 DEF LoadByte, Reduce, MulColumn, MulRow, DivStep, MulDone, call
  <2> QED  BY <2>1 DEF StraightCorrect, Straight
<1>5. Bytes # {}
  <2>1. [k \in 0 .. 4 * BPL - 1 |-> 0] \in Bytes
    BY FrAssumption DEF Bytes
  <2> QED  BY <2>1
<1> QED  BY <1>1, <1>2, <1>3, <1>4, <1>5 DEF Next

LEMMA NatLeast ==
  ASSUME NEW T, T \subseteq Nat, T # {}
  PROVE  \E m \in T : \A l \in T : ~ (l < m)
<1>1. IsWellFoundedOn(OpToRel(<, Nat), Nat)
  BY NatLessThanWellFounded, Zenon
<1>2. \E m \in T : \A l \in T : <<l, m>> \notin OpToRel(<, Nat)
  BY <1>1, WFMin, Zenon
<1>3. PICK m \in T : \A l \in T : <<l, m>> \notin OpToRel(<, Nat)
  BY <1>2, Zenon
<1>4. ASSUME NEW l \in T, l < m PROVE FALSE
  <2>1. l \in Nat /\ m \in Nat
    OBVIOUS
  <2>2. <<l, m>> \in OpToRel(<, Nat)
    BY <1>4, <2>1, Zenon DEF OpToRel
  <2> QED BY <1>3, <2>2, Zenon
<1> QED BY <1>4, Zenon

LEMMA UpTo ==
  ASSUME NEW n \in Nat, NEW S, 0 \in S, \A k \in 0 .. n - 1 : k \in S => k + 1 \in S
  PROVE  \A k \in 0 .. n : k \in S
<1> DEFINE T == (0 .. n) \ S
<1>1. SUFFICES ASSUME T # {} PROVE FALSE
  OBVIOUS
<1>2. PICK m \in T : \A l \in T : ~ (l < m)
  <2>1. T \subseteq Nat
    OBVIOUS
  <2> HIDE DEF T
  <2> QED BY <1>1, <2>1, NatLeast, Zenon
<1>3. m - 1 \in 0 .. n - 1 /\ m - 1 \notin T
  BY <1>2
<1> QED BY <1>3

(* v % w depends on v up to multiples of w. *)
LEMMA ModShift ==
  ASSUME NEW u \in Int, NEW v \in Int, NEW w \in Nat \ {0}, \E k \in Int : u = v + k * w
  PROVE  u % w = v % w
<1>0. PICK k \in Int : u = v + k * w
  OBVIOUS
<1> DEFINE q == v \div w
           m == v % w
<1>1. q \in Int /\ m \in 0 .. w - 1 /\ v = q * w + m
  BY DivMod
<1> HIDE DEF q, m
<1>2. u = (q + k) * w + m /\ q + k \in Int
  BY <1>0, <1>1
<1>3. u % w = m
  <2> DEFINE d == q + k
  <2>1. d \in Int /\ u = d * w + m
    BY <1>2
  <2> HIDE DEF d
  <2> QED BY <1>1, <2>1, DivModUnique
<1> QED BY <1>3 DEF m

(* A factor may be reduced before the product is. *)
LEMMA ModProduct ==
  ASSUME NEW u \in Int, NEW v \in Int, NEW w \in Nat \ {0}
  PROVE  ((u % w) * v) % w = (u * v) % w /\ (v * (u % w)) % w = (v * u) % w
<1> DEFINE q == u \div w
           m == u % w
<1>1. q \in Int /\ m \in 0 .. w - 1 /\ u = q * w + m
  BY DivMod
<1> HIDE DEF q, m
<1>2. u * v = m * v + (q * v) * w /\ m * v \in Int /\ u * v \in Int /\ q * v \in Int
  BY <1>1
<1> DEFINE s == u * v
           t == m * v
           k == q * v
<1>3. s \in Int /\ t \in Int /\ k \in Int /\ s = t + k * w
  BY <1>2
<1> HIDE DEF s, t, k
<1>4. s % w = t % w
  BY <1>3, ModShift
<1>5. v * m = t /\ v * u = s
  BY <1>1 DEF s, t
<1> QED BY <1>4, <1>5 DEF s, t, m

(* One more bit below a remainder. *)
LEMMA ModDouble ==
  ASSUME NEW u \in Nat, NEW c \in {0, 1}, NEW w \in Nat \ {0}
  PROVE  (2 * (u % w) + c) % w = (2 * u + c) % w
<1> DEFINE q == u \div w
           m == u % w
<1>1. q \in Int /\ m \in 0 .. w - 1 /\ u = q * w + m
  BY DivMod
<1> HIDE DEF q, m
<1> DEFINE s == 2 * u + c
           t == 2 * m + c
           k == 2 * q
<1>2. s \in Int /\ t \in Int /\ k \in Int /\ s = t + k * w
  BY <1>1
<1> HIDE DEF s, t, k
<1>3. s % w = t % w
  BY <1>2, ModShift
<1> QED BY <1>3 DEF s, t, m

(* Dividing by c w is dividing by w and then by c. *)
LEMMA Divided ==
  ASSUME NEW v \in Nat, NEW w \in Nat \ {0}, NEW c \in Nat \ {0}
  PROVE  /\ v \div w \in Nat /\ (v \div w) % c \in 0 .. c - 1
         /\ v \div w = c * (v \div (c * w)) + ((v \div w) % c)
<1> DEFINE d == v \div w
           m == v % w
           f == d \div c
           g == d % c
<1>1. d \in Int /\ m \in 0 .. w - 1 /\ v = d * w + m
  BY DivMod
<1>2. d \in Nat
  <2> HIDE DEF d, m
  <2>1. ~ (-d >= 1)
    <3>1. -d \in Int /\ (-d) * w = m - v
      BY <1>1
    <3> QED BY <1>1, <3>1, AtLeastOne
  <2> QED BY <1>1, <2>1
<1> HIDE DEF d, m
<1>3. f \in Int /\ g \in 0 .. c - 1 /\ d = f * c + g
  BY <1>1, DivMod
<1> HIDE DEF f, g
<1> DEFINE n == g * w + m
           e == c * w
<1>4. n \in 0 .. e - 1 /\ e \in Nat \ {0}
  <2>1. (c - 1 - g) * w >= 0 /\ g * w >= 0
    BY <1>3
  <2>2. (c - 1 - g) * w = e - w - g * w
    BY <1>3
  <2>3. e \in Nat \ {0} /\ g * w \in Int
    BY <1>3
  <2> HIDE DEF e
  <2> QED BY <1>1, <2>1, <2>2, <2>3
<1>5. v = f * e + n
  <2>1. v = (f * c + g) * w + m
    BY <1>1, <1>3
  <2>2. (f * c + g) * w + m = f * (c * w) + (g * w + m)
    BY <1>1, <1>3
  <2> QED BY <2>1, <2>2
<1> HIDE DEF n, e
<1>6. v \div e = f
  BY <1>3, <1>4, <1>5, DivModUnique
<1>7. d = c * f + g
  BY <1>3
<1> QED BY <1>2, <1>3, <1>6, <1>7 DEF d, e, f, g

LEMMA Halved ==
  ASSUME NEW v \in Nat, NEW w \in Nat \ {0}
  PROVE  /\ v \div w \in Nat /\ (v \div w) % 2 \in {0, 1}
         /\ v \div w = 2 * (v \div (2 * w)) + ((v \div w) % 2)
<1> DEFINE g == (v \div w) % 2
<1>1. /\ v \div w \in Nat /\ g \in 0 .. 2 - 1
      /\ v \div w = 2 * (v \div (2 * w)) + g
  BY Divided, 2 \in Nat \ {0}
<1> HIDE DEF g
<1>2. g \in {0, 1}
  BY <1>1
<1> QED BY <1>1, <1>2 DEF g

-----------------------------------------------------------------------------
(* Powers of two *)

Two(n) == 2^n

LEMMA TwoFacts ==
  /\ Two(0) = 1 /\ Two(BITS) = W
  /\ \A n \in 0 .. 8 * BITS : Two(n) \in Nat \ {0} /\ Two(n + 1) = 2 * Two(n)
<1> DEFINE S == {n \in 0 .. 8 * BITS : Two(n) \in Nat \ {0}}
<1>1. Two(0) = 1 /\ Two(BITS) = W /\ \A n \in 0 .. 8 * BITS : Two(n + 1) = 2 * Two(n)
  BY PowerAssumption, FrAssumption DEF Two
<1>2. 8 * BITS \in Nat
  BY FrAssumption
<1>3. 0 \in S
  BY <1>1, <1>2
<1>4. \A k \in 0 .. 8 * BITS - 1 : k \in S => k + 1 \in S
  <2> TAKE k \in 0 .. 8 * BITS - 1
  <2>1. k \in 0 .. 8 * BITS /\ k + 1 \in 0 .. 8 * BITS
    BY <1>2
  <2> QED BY <1>1, <2>1
<1> HIDE DEF S
<1>5. \A k \in 0 .. 8 * BITS : k \in S
  BY <1>2, <1>3, <1>4, UpTo
<1> QED BY <1>1, <1>5 DEF S

LEMMA TwoSum ==
  ASSUME NEW m \in Nat, NEW n \in Nat, m + n <= 8 * BITS
  PROVE  Two(m + n) = Two(m) * Two(n)
<1> DEFINE S == {k \in 0 .. n : Two(m + k) = Two(m) * Two(k)}
<1>0. 8 * BITS \in Nat
  BY FrAssumption
<1>1. \A k \in 0 .. n : /\ m + k \in 0 .. 8 * BITS /\ k \in 0 .. 8 * BITS
  BY <1>0
<1>2. Two(m) \in Nat \ {0}
  BY <1>0, TwoFacts
<1>3. 0 \in S
  <2>1. m + 0 = m /\ Two(m) * 1 = Two(m)
    BY <1>2
  <2> QED BY <2>1, TwoFacts
<1>4. \A k \in 0 .. n - 1 : k \in S => k + 1 \in S
  <2> TAKE k \in 0 .. n - 1
  <2>1. k \in 0 .. n /\ k + 1 \in 0 .. n /\ m + (k + 1) = (m + k) + 1
    OBVIOUS
  <2>2. /\ Two(k) \in Nat /\ Two(m + k) \in Nat
        /\ Two(k + 1) = 2 * Two(k) /\ Two((m + k) + 1) = 2 * Two(m + k)
    BY <1>1, <2>1, TwoFacts
  <2>3. Two(m + k) = Two(m) * Two(k) => 2 * Two(m + k) = Two(m) * (2 * Two(k))
    BY <1>2, <2>2
  <2> QED BY <2>1, <2>2, <2>3
<1> HIDE DEF S
<1>5. \A k \in 0 .. n : k \in S
  BY <1>3, <1>4, UpTo
<1>6. n \in S
  BY <1>5
<1> QED BY <1>6 DEF S

(* The weight of limb k. *)
Place(k) == Two(BITS * k)

LEMMA PlaceFacts ==
  /\ Place(0) = 1
  /\ \A k \in 0 .. 7 : Place(k) \in Nat \ {0} /\ Place(k + 1) = W * Place(k)
  /\ \A m, n \in 0 .. 7 : m + n <= 8 => Place(m + n) = Place(m) * Place(n)
  /\ Place(4) = Capacity /\ Place(8) = Two(8 * BITS) /\ Place(8) \in Nat \ {0}
<1>0. BITS \in Nat \ {0}
  BY FrAssumption
<1>1. Place(0) = 1
  <2>1. BITS * 0 = 0
    BY <1>0
  <2> QED BY <2>1, TwoFacts DEF Place
<1>2. ASSUME NEW m \in 0 .. 8, NEW n \in 0 .. 8, m + n <= 8 PROVE Place(m + n) = Place(m) * Place(n)
  <2> DEFINE u == BITS * m
             v == BITS * n
  <2>1. u \in Nat /\ v \in Nat /\ u + v <= 8 * BITS /\ BITS * (m + n) = u + v
    <3>1. u \in Nat /\ v \in Nat /\ BITS * (m + n) = u + v
      BY <1>0
    <3>2. BITS * (8 - (m + n)) >= 0 /\ BITS * (8 - (m + n)) = 8 * BITS - BITS * (m + n)
      BY <1>0, <1>2
    <3> QED BY <1>0, <3>1, <3>2
  <2> HIDE DEF u, v
  <2>2. Two(u + v) = Two(u) * Two(v)
    BY <2>1, TwoSum
  <2> QED BY <2>1, <2>2 DEF Place, u, v
<1>3. Place(1) = W
  <2>1. BITS * 1 = BITS
    BY <1>0
  <2> QED BY <2>1, TwoFacts DEF Place
<1>4. \A k \in 0 .. 8 : Place(k) \in Nat \ {0}
  <2> TAKE k \in 0 .. 8
  <2> DEFINE u == BITS * k
  <2>1. u \in 0 .. 8 * BITS
    <3>1. BITS * (8 - k) >= 0 /\ BITS * (8 - k) = 8 * BITS - BITS * k /\ BITS * k >= 0
      BY <1>0
    <3> QED BY <1>0, <3>1
  <2> HIDE DEF u
  <2>2. Two(u) \in Nat \ {0}
    BY <2>1, TwoFacts
  <2> QED BY <2>2 DEF Place, u
<1>5. \A k \in 0 .. 7 : Place(k + 1) = W * Place(k)
  <2> TAKE k \in 0 .. 7
  <2>1. Place(1 + k) = Place(1) * Place(k) /\ 1 + k = k + 1
    BY <1>2
  <2> QED BY <1>3, <2>1
<1>6. Place(4) = Capacity
  <2>1. Place(2) = W * W /\ Place(3) = W * (W * W) /\ Place(4) = W * (W * (W * W))
    BY <1>3, <1>5
  <2>2. W * (W * (W * W)) = W * W * W * W
    BY WType
  <2> QED BY <2>1, <2>2 DEF Capacity
<1>7. Place(8) = Two(8 * BITS)
  <2>1. BITS * 8 = 8 * BITS
    BY <1>0
  <2> QED BY <2>1 DEF Place
<1> QED BY <1>1, <1>2, <1>4, <1>5, <1>6, <1>7

LEMMA PlaceType ==
  /\ Place(0) = 1 /\ W \in Int
  /\ \A k \in 0 .. 8 : Place(k) \in Nat \ {0} /\ Place(k) \in Int
<1>1. \A k \in 0 .. 8 : k \in 0 .. 7 \/ k = 8
  OBVIOUS
<1> QED BY <1>1, PlaceFacts, WType

LEMMA PlaceNext == ASSUME NEW k \in 0 .. 7 PROVE Place(k + 1) = W * Place(k)
BY PlaceFacts

-----------------------------------------------------------------------------
(* Words as digits *)

Term(v, k, n) == IF k < n THEN v[k] * Place(k) ELSE 0

(* The integer of the first n words. *)
Low(v, n) ==
  Term(v, 0, n) + Term(v, 1, n) + Term(v, 2, n) + Term(v, 3, n)
    + Term(v, 4, n) + Term(v, 5, n) + Term(v, 6, n) + Term(v, 7, n)

(* Four limbs, or the eight words of a product. *)
Digits(v, n) == (v \in Limbs /\ n = 4) \/ (v \in [0 .. 7 -> Word] /\ n = 8)

LEMMA DigitsFacts ==
  ASSUME NEW v, NEW n, Digits(v, n)
  PROVE  n \in {4, 8} /\ \A k \in 0 .. n - 1 : v[k] \in Word
BY DEF Digits, Limbs, Limb

LEMMA TermType ==
  ASSUME NEW v, NEW n, Digits(v, n), NEW k \in 0 .. 7, NEW m \in 0 .. n
  PROVE  Term(v, k, m) \in Int
<1>1. CASE k < m
  <2>1. v[k] \in Int /\ Place(k) \in Int
    <3>1. k \in 0 .. n - 1
      BY <1>1, DigitsFacts
    <3>2. Place(k) \in Int
      BY PlaceType
    <3> QED BY <3>1, <3>2, DigitsFacts, WType DEF Word
  <2>2. v[k] * Place(k) \in Int
    BY <2>1
  <2> QED BY <1>1, <2>2 DEF Term
<1>2. CASE ~ (k < m)
  BY <1>2 DEF Term
<1> QED BY <1>1, <1>2

LEMMA LowNext ==
  ASSUME NEW v, NEW n, Digits(v, n), NEW m \in 0 .. n - 1
  PROVE  Low(v, m) \in Int /\ Low(v, m + 1) = Low(v, m) + v[m] * Place(m)
<1> DEFINE T(k) == Term(v, k, m)
           N(k) == Term(v, k, m + 1)
           d == v[m] * Place(m)
<1>0. n \in {4, 8} /\ m \in 0 .. 7 /\ m \in 0 .. n /\ m + 1 \in 0 .. n
  BY DigitsFacts
<1>1. \A k \in 0 .. 7 : T(k) \in Int /\ N(k) \in Int
  BY <1>0, TermType
<1>2. \A k \in 0 .. 7 : k # m => N(k) = T(k)
  BY <1>0 DEF Term
<1>3. N(m) = d /\ T(m) = 0
  BY <1>0 DEF Term
<1>4. d \in Int
  BY <1>0, <1>1, <1>3
<1>5. /\ Low(v, m) = T(0) + T(1) + T(2) + T(3) + T(4) + T(5) + T(6) + T(7)
      /\ Low(v, m + 1) = N(0) + N(1) + N(2) + N(3) + N(4) + N(5) + N(6) + N(7)
  BY DEF Low
<1> HIDE DEF T, N, d
<1>6. T(0) \in Int /\ T(1) \in Int /\ T(2) \in Int /\ T(3) \in Int /\ T(4) \in Int /\ T(5) \in Int
      /\ T(6) \in Int /\ T(7) \in Int
  BY <1>1
<1>7. m = 0 \/ m = 1 \/ m = 2 \/ m = 3 \/ m = 4 \/ m = 5 \/ m = 6 \/ m = 7
  BY <1>0
<1>8. Low(v, m + 1) = Low(v, m) + d
  BY <1>2, <1>3, <1>4, <1>5, <1>6, <1>7
<1> QED BY <1>5, <1>6, <1>8 DEF d

LEMMA LowZero == ASSUME NEW v PROVE Low(v, 0) = 0
BY DEF Low, Term

LEMMA LowBound ==
  ASSUME NEW v, NEW n, Digits(v, n)
  PROVE  \A m \in 0 .. n : Low(v, m) \in 0 .. Place(m) - 1
<1> DEFINE S == {m \in 0 .. n : Low(v, m) \in 0 .. Place(m) - 1}
<1>0. n \in Nat /\ n \in {4, 8}
  BY DigitsFacts
<1>1. 0 \in S
  BY <1>0, LowZero, PlaceType
<1>2. ASSUME NEW m \in 0 .. n - 1, m \in S PROVE m + 1 \in S
  <2> DEFINE l == Low(v, m)
             t == Low(v, m + 1)
             w == v[m]
             P == Place(m)
             Q == Place(m + 1)
  <2>1. l \in 0 .. P - 1 /\ t = l + w * P
    BY <1>2, LowNext
  <2>2. P \in Nat \ {0} /\ Q = W * P
    <3>1. m \in 0 .. 7 /\ m \in 0 .. 8
      BY <1>0
    <3> QED BY <3>1, PlaceType, PlaceNext
  <2>3. w \in 0 .. W - 1
    BY DigitsFacts DEF Word
  <2>4. m + 1 \in 0 .. n
    BY <1>0
  <2> HIDE DEF l, t, w, P, Q
  <2>5. (W - 1 - w) * P >= 0 /\ w * P >= 0
    BY <2>2, <2>3, WType
  <2>6. (W - 1 - w) * P = Q - P - w * P
    BY <2>2, <2>3, WType
  <2>7. t \in 0 .. Q - 1
    BY <2>1, <2>2, <2>3, <2>5, <2>6, WType
  <2> QED BY <2>4, <2>7 DEF t, Q
<1> HIDE DEF S
<1>3. \A m \in 0 .. n : m \in S
  BY <1>0, <1>1, <1>2, UpTo
<1> QED BY <1>3 DEF S

(* The integer of four words and of eight. *)
LEMMA LowIsVal ==
  /\ \A v \in Limbs : Low(v, 4) = Val(v)
  /\ \A v \in [0 .. 7 -> Word] : Low(v, 8) = Val8(v)
<1>1. /\ Place(0) = 1 /\ Place(1) = W /\ Place(2) = W * W /\ Place(3) = W * W * W
      /\ Place(4) = Capacity /\ Place(5) = Capacity * W /\ Place(6) = Capacity * (W * W)
      /\ Place(7) = Capacity * (W * W * W)
  <2>1. Capacity \in Int /\ W \in Int
    BY RType, WType
  <2>2. Place(1) = W * Place(0) /\ Place(2) = W * Place(1) /\ Place(3) = W * Place(2)
        /\ Place(5) = W * Place(4) /\ Place(6) = W * Place(5) /\ Place(7) = W * Place(6)
    BY PlaceFacts
  <2> QED BY <2>1, <2>2, PlaceFacts
<1>2. ASSUME NEW v \in Limbs PROVE Low(v, 4) = Val(v)
  <2>1. v[0] \in Int /\ v[1] \in Int /\ v[2] \in Int /\ v[3] \in Int
    BY ValType, WType DEF Word
  <2>2. Low(v, 4) = v[0] * Place(0) + v[1] * Place(1) + v[2] * Place(2) + v[3] * Place(3)
    <3> DEFINE e0 == v[0] * Place(0)
               e1 == v[1] * Place(1)
               e2 == v[2] * Place(2)
               e3 == v[3] * Place(3)
    <3>1. e0 \in Int /\ e1 \in Int /\ e2 \in Int /\ e3 \in Int
      <4>1. Place(0) \in Int /\ Place(1) \in Int /\ Place(2) \in Int /\ Place(3) \in Int
        BY PlaceType
      <4> QED BY <2>1, <4>1
    <3>2. Low(v, 4) = e0 + e1 + e2 + e3 + 0 + 0 + 0 + 0
      BY DEF Low, Term
    <3> HIDE DEF e0, e1, e2, e3
    <3>3. Low(v, 4) = e0 + e1 + e2 + e3
      BY <3>1, <3>2
    <3> QED BY <3>3 DEF e0, e1, e2, e3
  <2>3. Low(v, 4) = v[0] + v[1] * W + v[2] * (W * W) + v[3] * (W * W * W)
    BY <1>1, <2>1, <2>2
  <2>4. v[0] + v[1] * W + v[2] * (W * W) + v[3] * (W * W * W)
          = v[0] + W * (v[1] + W * (v[2] + W * v[3]))
    BY <2>1, PlaceType
  <2> QED BY <2>3, <2>4 DEF Val
<1>3. ASSUME NEW v \in [0 .. 7 -> Word] PROVE Low(v, 8) = Val8(v)
  <2> DEFINE f == [k \in Limb |-> v[k]]
             g == [k \in Limb |-> v[k + 4]]
             t(k) == v[k] * Place(k)
  <2>1. f \in Limbs /\ g \in Limbs
    BY DEF Limbs, Limb
  <2>2. /\ f[0] = v[0] /\ f[1] = v[1] /\ f[2] = v[2] /\ f[3] = v[3]
        /\ g[0] = v[4] /\ g[1] = v[5] /\ g[2] = v[6] /\ g[3] = v[7]
    BY DEF Limb
  <2>3. \A k \in 0 .. 7 : v[k] \in Int /\ t(k) \in Int
    <3> TAKE k \in 0 .. 7
    <3>1. v[k] \in Int /\ Place(k) \in Int
      <4>1. v[k] \in Word /\ k \in 0 .. 8
        OBVIOUS
      <4> QED BY <4>1, WType, PlaceType DEF Word
    <3> QED BY <3>1
  <2>4. Low(v, 8) = t(0) + t(1) + t(2) + t(3) + t(4) + t(5) + t(6) + t(7)
    BY DEF Low, Term
  <2> DEFINE c == Capacity
  <2>5. c \in Int /\ W \in Int
    BY RType, WType
  <2>6. /\ t(0) + t(1) + t(2) + t(3) = Low(f, 4)
        /\ t(4) + t(5) + t(6) + t(7) = c * Low(g, 4)
    <3> DEFINE m0 == g[0]
               m1 == g[1]
               m2 == g[2]
               m3 == g[3]
    <3>1. /\ Low(f, 4) = Val(f) /\ Low(g, 4) = Val(g)
      BY <1>2, <2>1
    <3>2. m0 \in Int /\ m1 \in Int /\ m2 \in Int /\ m3 \in Int
      BY <2>2, <2>3
    <3>3. t(4) = m0 * c /\ t(5) = m1 * (c * W) /\ t(6) = m2 * (c * (W * W)) /\ t(7) = m3 * (c * (W * W * W))
      BY <1>1, <2>2
    <3>4. Val(g) = m0 + W * (m1 + W * (m2 + W * m3))
      BY DEF Val
    <3>5. t(0) = f[0] /\ t(1) = f[1] * W /\ t(2) = f[2] * (W * W) /\ t(3) = f[3] * (W * W * W)
      BY <1>1, <2>2, <2>3
    <3>6. Val(f) = f[0] + W * (f[1] + W * (f[2] + W * f[3]))
      BY DEF Val
    <3>7. f[0] \in Int /\ f[1] \in Int /\ f[2] \in Int /\ f[3] \in Int
      BY <2>2, <2>3
    <3> HIDE DEF t, f, g, m0, m1, m2, m3, c
    <3>8. t(0) + t(1) + t(2) + t(3) = Val(f)
      BY <2>5, <3>5, <3>6, <3>7
    <3>9. c * (m0 + W * (m1 + W * (m2 + W * m3)))
            = m0 * c + m1 * (c * W) + m2 * (c * (W * W)) + m3 * (c * (W * W * W))
      BY <2>5, <3>2
    <3> QED BY <3>1, <3>3, <3>4, <3>8, <3>9
  <2>7. Low(v, 8) = Low(f, 4) + c * Low(g, 4)
    <3>1. \A k \in 0 .. 7 : t(k) \in Int
      BY <2>3
    <3> HIDE DEF t, c
    <3>2. t(0) \in Int /\ t(1) \in Int /\ t(2) \in Int /\ t(3) \in Int /\ t(4) \in Int /\ t(5) \in Int
          /\ t(6) \in Int /\ t(7) \in Int
      BY <3>1
    <3>3. t(0) + t(1) + t(2) + t(3) + t(4) + t(5) + t(6) + t(7)
            = (t(0) + t(1) + t(2) + t(3)) + (t(4) + t(5) + t(6) + t(7))
      BY <3>2
    <3> QED BY <2>4, <2>6, <3>3
  <2>8. Low(f, 4) = Val(f) /\ Low(g, 4) = Val(g)
    BY <1>2, <2>1
  <2> QED BY <2>7, <2>8 DEF Val8, f, g, c
<1> QED BY <1>2, <1>3

-----------------------------------------------------------------------------
(* The long division *)

LEMMA LowAbove ==
  ASSUME NEW v, NEW n, Digits(v, n)
  PROVE  \A k \in 0 .. n : \E h \in Nat : Low(v, n) = Low(v, k) + h * Place(k)
<1> DEFINE S == {m \in 0 .. n : \E h \in Nat : Low(v, n) = Low(v, n - m) + h * Place(n - m)}
<1>0. n \in Nat /\ n \in {4, 8}
  BY DigitsFacts
<1>1. \A k \in 0 .. n : Low(v, k) \in Int /\ Place(k) \in Nat \ {0}
  <2> TAKE k \in 0 .. n
  <2>1. k \in 0 .. 8
    BY <1>0
  <2>2. Place(k) \in Nat \ {0}
    BY <2>1, PlaceType
  <2> QED BY <2>2, LowBound
<1>2. 0 \in S
  <2>1. n - 0 = n /\ Low(v, n) = Low(v, n) + 0 * Place(n)
    BY <1>0, <1>1
  <2> QED BY <1>0, <2>1
<1>3. ASSUME NEW m \in 0 .. n - 1, m \in S PROVE m + 1 \in S
  <2>1. PICK h \in Nat : Low(v, n) = Low(v, n - m) + h * Place(n - m)
    BY <1>3
  <2> DEFINE k == n - (m + 1)
             d == v[k]
             l == Low(v, k)
             P == Place(k)
             u == Low(v, k + 1)
             Q == Place(k + 1)
             t == Low(v, n)
  <2>2. k \in 0 .. n - 1 /\ k \in 0 .. n /\ k \in 0 .. 7 /\ n - m = k + 1 /\ m + 1 \in 0 .. n
    BY <1>0
  <2>3. u = l + d * P /\ d \in Word
    BY <2>2, LowNext, DigitsFacts
  <2>4. Q = W * P
    BY <2>2, PlaceNext
  <2>5. l \in Int /\ P \in Nat /\ t = u + h * Q
    BY <1>1, <2>1, <2>2
  <2> DEFINE g == d + W * h
  <2>6. g \in Nat
    BY <2>3, WType DEF Word
  <2>7. d \in Int /\ W \in Int
    BY <2>3, WType DEF Word
  <2> HIDE DEF d, l, P, u, Q, t
  <2>8. t = l + g * P
    BY <2>3, <2>4, <2>5, <2>7
  <2> HIDE DEF g
  <2> QED BY <2>2, <2>6, <2>8 DEF k, l, P, t
<1>4. \A m \in 0 .. n : m \in S
  <2> HIDE DEF S
  <2> QED BY <1>0, <1>2, <1>3, UpTo
<1>5. ASSUME NEW k \in 0 .. n PROVE \E h \in Nat : Low(v, n) = Low(v, k) + h * Place(k)
  <2>1. n - k \in 0 .. n /\ n - (n - k) = k
    BY <1>0
  <2> QED BY <1>4, <2>1
<1> QED BY <1>5

(* Word k of v, what is above it and what is below. *)
LEMMA Around ==
  ASSUME NEW v \in [0 .. 7 -> Word], NEW k \in 0 .. 7
  PROVE  \E h \in Nat, l \in 0 .. Place(k) - 1 : Val8(v) = (h * W + v[k]) * Place(k) + l
<1> DEFINE d == v[k]
           l == Low(v, k)
           P == Place(k)
           u == Low(v, k + 1)
           Q == Place(k + 1)
           t == Low(v, 8)
<1>1. Digits(v, 8) /\ k \in 0 .. 8 - 1 /\ k + 1 \in 0 .. 8 /\ k \in 0 .. 8
  BY DEF Digits
<1>2. PICK h \in Nat : t = u + h * Q
  BY <1>1, LowAbove
<1>3. u = l + d * P
  BY <1>1, LowNext
<1>4. l \in 0 .. P - 1
  BY <1>1, LowBound
<1>5. Q = W * P /\ P \in Nat /\ W \in Int
  <2>1. P \in Nat /\ W \in Int
    BY <1>1, PlaceType
  <2> QED BY <2>1, PlaceNext
<1>6. d \in Int
  <2>1. d \in Word
    OBVIOUS
  <2> QED BY <2>1, WType DEF Word
<1>7. t = Val8(v)
  BY LowIsVal
<1> HIDE DEF d, l, P, u, Q, t
<1>8. t = (h * W + d) * P + l
  BY <1>2, <1>3, <1>4, <1>5, <1>6
<1> QED BY <1>4, <1>7, <1>8 DEF d, P

(* A bit of a word is a bit of the number the word is part of. *)
LEMMA BitInside ==
  ASSUME NEW w \in Nat, NEW h \in Nat, NEW P \in Nat \ {0}, NEW l \in 0 .. P - 1,
         NEW T \in Nat \ {0}, NEW S \in Nat
  PROVE  (((h * (S * (2 * T)) + w) * P + l) \div (T * P)) % 2 = (w \div T) % 2
<1> DEFINE d == w \div T
           m == w % T
           Q == T * P
           v == (h * (S * (2 * T)) + w) * P + l
           n == m * P + l
           k == h * S
           e == d + k * 2
<1>1. d \in Int /\ m \in 0 .. T - 1 /\ w = d * T + m
  BY DivMod
<1> HIDE DEF d, m
<1>2. k \in Int
  OBVIOUS
<1>3. Q \in Nat \ {0} /\ v \in Int /\ e \in Int
  BY <1>1
<1>4. n \in 0 .. Q - 1
  <2>1. (T - 1 - m) * P >= 0 /\ m * P >= 0
    BY <1>1
  <2>2. (T - 1 - m) * P = Q - P - m * P
    BY <1>1
  <2>3. Q \in Int /\ m * P \in Int
    BY <1>1
  <2> HIDE DEF Q
  <2> QED BY <2>1, <2>2, <2>3
<1>5. v = e * Q + n
  <2>1. (h * (S * (2 * T)) + w) = (d + (h * S) * 2) * T + m
    BY <1>1
  <2>2. v = ((d + (h * S) * 2) * T + m) * P + l
    BY <2>1
  <2>3. ((d + (h * S) * 2) * T + m) * P + l = (d + (h * S) * 2) * (T * P) + (m * P + l)
    <3> DEFINE f == d + (h * S) * 2
    <3>1. f \in Int
      BY <1>1
    <3> HIDE DEF f
    <3>2. (f * T + m) * P + l = f * (T * P) + (m * P + l)
      BY <1>1, <3>1
    <3> QED BY <3>2 DEF f
  <2> QED BY <2>2, <2>3
<1> HIDE DEF Q, v, n, k
<1>6. v \div Q = e
  BY <1>3, <1>4, <1>5, DivModUnique
<1>7. e % 2 = d % 2
  BY <1>1, <1>2, <1>3, ModShift, 2 \in Nat \ {0}
<1> QED BY <1>6, <1>7 DEF Q, v, d

(* The bit that DivStep brings down. *)
BitOf(v, n) == (v[n \div BITS] \div 2^(n % BITS)) % 2

LEMMA BitOfProduct ==
  ASSUME NEW v \in [0 .. 7 -> Word], NEW n \in 0 .. 8 * BITS - 1
  PROVE  BitOf(v, n) = (Val8(v) \div Two(n)) % 2
<1> DEFINE k == n \div BITS
           t == n % BITS
           w == v[k]
           P == Place(k)
           T == Two(t)
           S == Two(BITS - (t + 1))
<1>1. BITS \in Nat \ {0} /\ n \in Nat
  BY FrAssumption
<1>2. k \in Int /\ t \in 0 .. BITS - 1 /\ n = k * BITS + t
  BY <1>1, DivMod
<1>3. k \in 0 .. 7
  <2> HIDE DEF k, t
  <2>1. ~ (k - 7 >= 1)
    <3>1. (k - 7) * BITS = n - t - 7 * BITS
      BY <1>1, <1>2
    <3>2. (k - 7) * BITS < BITS
      BY <1>1, <1>2, <3>1
    <3> QED BY <1>1, <1>2, <3>2, AtLeastOne
  <2>2. ~ (-k >= 1)
    <3>1. (-k) * BITS = t - n
      BY <1>1, <1>2
    <3>2. (-k) * BITS < BITS
      BY <1>1, <1>2, <3>1
    <3> QED BY <1>1, <1>2, <3>2, AtLeastOne
  <2> QED BY <1>2, <2>1, <2>2
<1>4. w \in Nat
  <2>1. w \in Word
    BY <1>3
  <2> QED BY <2>1, WType DEF Word
<1> HIDE DEF k, t, w
<1>5. Two(n) = T * P
  <2> DEFINE m == BITS * k
  <2>1. m \in Nat /\ n = m + t /\ n <= 8 * BITS
    BY <1>1, <1>2, <1>3
  <2> HIDE DEF m
  <2>2. t \in Nat
    BY <1>1, <1>2
  <2>3. 8 * BITS \in Nat
    BY <1>1
  <2>4. Two(m + t) = Two(m) * Two(t) /\ Two(m) \in Int /\ Two(t) \in Int
    <3>1. m \in 0 .. 8 * BITS /\ t \in 0 .. 8 * BITS
      BY <1>1, <2>1, <2>2, <2>3
    <3>2. Two(m) \in Int /\ Two(t) \in Int
      BY <3>1, TwoFacts
    <3> QED BY <2>1, <2>2, <3>2, TwoSum
  <2>5. Two(m) = P
    BY DEF m, Place
  <2>6. Two(n) = Two(m) * Two(t)
    BY <2>1, <2>4
  <2> HIDE DEF P
  <2> QED BY <2>4, <2>5, <2>6
<1>6. W = S * (2 * T) /\ T \in Nat \ {0} /\ S \in Nat
  <2> DEFINE r == BITS - (t + 1)
             s == t + 1
  <2>1. r \in Nat /\ s \in Nat /\ r + s = BITS /\ r + s <= 8 * BITS /\ t \in 0 .. 8 * BITS
        /\ r \in 0 .. 8 * BITS
    BY <1>1, <1>2
  <2> HIDE DEF r
  <2>2. Two(s) = 2 * T /\ T \in Nat \ {0}
    BY <2>1, TwoFacts
  <2> HIDE DEF s
  <2>3. Two(r + s) = Two(r) * Two(s)
    BY <2>1, TwoSum
  <2>4. Two(r) \in Nat
    BY <2>1, TwoFacts
  <2>5. Two(BITS) = W
    BY TwoFacts
  <2>6. W = Two(r) * Two(s)
    BY <2>1, <2>3, <2>5
  <2> HIDE DEF T
  <2> QED BY <2>2, <2>4, <2>6 DEF r
<1>7. PICK h \in Nat, l \in 0 .. P - 1 : Val8(v) = (h * W + w) * P + l
  BY <1>3, Around DEF w
<1>8. P \in Nat \ {0}
  <2>1. k \in 0 .. 8
    BY <1>3
  <2> QED BY <2>1, PlaceType
<1> HIDE DEF P, T, S
<1>9. (((h * (S * (2 * T)) + w) * P + l) \div (T * P)) % 2 = (w \div T) % 2
  <2>1. T \in Nat \ {0} /\ S \in Nat /\ h \in Nat /\ l \in 0 .. P - 1
    BY <1>6, <1>7
  <2>2. \A w1 \in Nat, h1 \in Nat, P1 \in Nat \ {0} : \A l1 \in 0 .. P1 - 1, T1 \in Nat \ {0}, S1 \in Nat :
          (((h1 * (S1 * (2 * T1)) + w1) * P1 + l1) \div (T1 * P1)) % 2 = (w1 \div T1) % 2
    BY BitInside
  <2>3. w \in Nat /\ h \in Nat /\ P \in Nat \ {0}
    BY <1>4, <1>8, <2>1
  <2>4. \A l1 \in 0 .. P - 1, T1 \in Nat \ {0}, S1 \in Nat :
          (((h * (S1 * (2 * T1)) + w) * P + l1) \div (T1 * P)) % 2 = (w \div T1) % 2
    BY <2>2, <2>3, Zenon
  <2> QED BY <2>1, <2>4, Zenon
<1>10. (Val8(v) \div Two(n)) % 2 = (w \div T) % 2
  BY <1>5, <1>6, <1>7, <1>9
<1>11. BitOf(v, n) = (w \div T) % 2
  BY DEF BitOf, Two, w, k, t, T
<1> QED BY <1>10, <1>11

(* One step of the division on the remainder. *)
LEMMA DivStepValue ==
  ASSUME NEW t \in Limbs, NEW c \in {0, 1}, Val(t) < R
  PROVE  Val(CondSub(ShiftIn(t, c))) = (2 * Val(t) + c) % R
<1> DEFINE s == ShiftIn(t, c)
           n == 2 * Val(t) + c
<1>1. s \in Limbs /\ Val(s) = n - Capacity * TopBit(t[3]) /\ TopBit(t[3]) = 0
  <2>1. s \in Limbs /\ Val(s) = 2 * Val(t) + c - Capacity * TopBit(t[3])
    BY ShiftInValue
  <2>2. TopBit(t[3]) = 0
    BY DivStepReduces
  <2>3. Val(t) \in Int /\ Capacity * 0 = 0
    BY ValType, RType
  <2> DEFINE z == Val(t)
             k == Capacity * TopBit(t[3])
  <2>4. z \in Int /\ k = 0
    BY <2>2, <2>3
  <2>5. Val(s) = 2 * z + c - k
    BY <2>1
  <2> HIDE DEF z, k, s
  <2>6. Val(s) = (2 * z + c) - k
    BY <2>4, <2>5
  <2> QED BY <2>1, <2>2, <2>6 DEF z, k, s
<1>2. Val(t) \in Nat
  BY ValType
<1>3. n \in Nat /\ n < 2 * R
  BY <1>2, RType
<1>4. Val(s) = n
  <2> HIDE DEF s, n
  <2> QED BY <1>1, <1>3, RType
<1> HIDE DEF s, n
<1>5. CASE n >= R
  <2>1. cmp4(s, R_MOD) >= 0
    BY <1>1, <1>4, <1>5, RType, Cmp4Correct DEF R
  <2>2. Val(sub4(s, R_MOD)) = n - R
    BY <1>1, <1>4, <1>5, RType, Sub4Exact DEF R
  <2>3. n % R = n - R
    <3>1. n = 1 * R + (n - R) /\ n - R \in 0 .. R - 1
      BY <1>3, <1>5, RType
    <3> QED BY <1>3, <3>1, RType, DivModUnique
  <2> QED BY <2>1, <2>2, <2>3 DEF CondSub, s, n
<1>6. CASE n < R
  <2>1. ~ (cmp4(s, R_MOD) >= 0)
    <3>1. ~ (Val(s) >= R)
      BY <1>3, <1>4, <1>6, RType
    <3> QED BY <1>1, <3>1, RType, Cmp4Correct DEF R
  <2>2. n % R = n
    <3>1. n = 0 * R + n /\ n \in 0 .. R - 1
      BY <1>3, <1>6, RType
    <3> QED BY <1>3, <3>1, RType, DivModUnique
  <2> QED BY <1>4, <2>1, <2>2 DEF CondSub, s, n
<1> QED BY <1>3, <1>5, <1>6, RType

(* Remainder n: of what v has from bit n on. *)
LEMMA BringDown ==
  ASSUME NEW v \in [0 .. 7 -> Word], NEW n \in 0 .. 8 * BITS - 1, NEW t \in Limbs,
         Val(t) = (Val8(v) \div Two(n + 1)) % R
  PROVE  Val(CondSub(ShiftIn(t, BitOf(v, n)))) = (Val8(v) \div Two(n)) % R
<1> DEFINE V == Val8(v)
           T == Two(n)
           U == Two(n + 1)
           c == BitOf(v, n)
           d == V \div U
           r == Val(t)
<1>1. T \in Nat \ {0} /\ U = 2 * T
  <2>1. n \in 0 .. 8 * BITS
    BY FrAssumption
  <2> QED BY <2>1, TwoFacts
<1>2. V \in Nat
  <2>1. Digits(v, 8) /\ 8 \in 0 .. 8
    BY DEF Digits
  <2>2. Low(v, 8) \in 0 .. Place(8) - 1
    BY <2>1, LowBound
  <2>3. Low(v, 8) = V
    BY LowIsVal
  <2> HIDE DEF V
  <2> QED BY <2>2, <2>3
<1>3. c = (V \div T) % 2
  BY BitOfProduct
<1> HIDE DEF c, V, T, U
<1>4. c \in {0, 1} /\ V \div T = 2 * (V \div (2 * T)) + c
  BY <1>1, <1>2, <1>3, Halved
<1>5. d \in Nat /\ V \div T = 2 * d + c
  <2>1. 2 * T \in Nat \ {0}
    BY <1>1
  <2>2. U \in Nat \ {0}
    BY <1>1
  <2>3. d \in Nat
    BY <1>2, <2>2, Halved
  <2> QED BY <1>1, <1>4, <2>3
<1>6. r = d % R
  BY DEF V, U
<1>7. R \in Nat \ {0}
  BY RType
<1> HIDE DEF d
<1>8. r < R
  BY <1>5, <1>6, <1>7
<1>9. Val(CondSub(ShiftIn(t, c))) = (2 * r + c) % R
  BY <1>4, <1>8, DivStepValue
<1>10. (2 * r + c) % R = (2 * d + c) % R
  <2> HIDE DEF r
  <2> QED BY <1>4, <1>5, <1>6, <1>7, ModDouble
<1> QED BY <1>5, <1>9, <1>10 DEF c, V, T

-----------------------------------------------------------------------------
(* The schoolbook product *)

LEMMA Val8Update ==
  ASSUME NEW v \in [0 .. 7 -> Word], NEW k \in 0 .. 7, NEW w \in Word
  PROVE  Val8([v EXCEPT ![k] = w]) = Val8(v) + (w - v[k]) * Place(k)
<1> DEFINE u == [v EXCEPT ![k] = w]
           T(n) == Term(v, n, 8)
           N(n) == Term(u, n, 8)
           d == (w - v[k]) * Place(k)
<1>1. u \in [0 .. 7 -> Word] /\ Digits(u, 8) /\ Digits(v, 8)
  BY DEF Digits
<1>2. \A n \in 0 .. 7 : T(n) \in Int /\ N(n) \in Int
  BY <1>1, TermType
<1>3. \A n \in 0 .. 7 : n # k => N(n) = T(n)
  BY DEF Term
<1>4. w \in Int /\ v[k] \in Int /\ Place(k) \in Int
  <2>1. v[k] \in Word /\ k \in 0 .. 8
    OBVIOUS
  <2> QED BY <2>1, WType, PlaceType DEF Word
<1>5. N(k) = w * Place(k) /\ T(k) = v[k] * Place(k)
  BY DEF Term
<1>6. N(k) = T(k) + d /\ d \in Int
  BY <1>4, <1>5
<1>7. /\ Low(v, 8) = T(0) + T(1) + T(2) + T(3) + T(4) + T(5) + T(6) + T(7)
      /\ Low(u, 8) = N(0) + N(1) + N(2) + N(3) + N(4) + N(5) + N(6) + N(7)
  BY DEF Low
<1>8. Low(u, 8) = Val8(u) /\ Low(v, 8) = Val8(v)
  BY <1>1, LowIsVal
<1> HIDE DEF T, N, d, u
<1>9. T(0) \in Int /\ T(1) \in Int /\ T(2) \in Int /\ T(3) \in Int /\ T(4) \in Int /\ T(5) \in Int
      /\ T(6) \in Int /\ T(7) \in Int
  BY <1>2
<1>10. k = 0 \/ k = 1 \/ k = 2 \/ k = 3 \/ k = 4 \/ k = 5 \/ k = 6 \/ k = 7
  OBVIOUS
<1>11. Low(u, 8) = Low(v, 8) + d
  BY <1>3, <1>6, <1>7, <1>9, <1>10
<1> QED BY <1>8, <1>11 DEF d, u

LEMMA LimbType ==
  ASSUME NEW v \in Limbs, NEW k \in 0 .. 3
  PROVE  v[k] \in Word /\ v[k] \in Int /\ Val(v) \in Int /\ Digits(v, 4)
<1>1. v[k] \in Word /\ Digits(v, 4)
  BY DEF Limbs, Limb, Digits
<1>2. Val(v) \in Int
  BY ValType
<1> QED BY <1>1, <1>2, WType DEF Word

(* A partial product: rows below r, and columns below s of row r. *)
Partial(u, v, r, s) == Low(u, r) * Val(v) + (u[r] * Place(r)) * Low(v, s)

(* What the words of q and the carry out of column s of row r amount to. *)
AddsUp(q, u, v, r, s, c) == Val8(q) + c * Place(r + s) = Partial(u, v, r, s)

(* MulAccExact: no part of the column's product is lost. *)
Column(q, u, v, r, s, c, w, e) == e * W + w = u[r] * v[s] + q[r + s] + c

(* The word at r + s and the carry take in one more column. *)
LEMMA ColumnValue ==
  ASSUME NEW q \in [0 .. 7 -> Word], NEW u \in Limbs, NEW v \in Limbs,
         NEW r \in 0 .. 3, NEW s \in 0 .. 3, NEW c \in Word, NEW w \in Word, NEW e \in Word,
         Column(q, u, v, r, s, c, w, e), AddsUp(q, u, v, r, s, c)
  PROVE  AddsUp([q EXCEPT ![r + s] = w], u, v, r, s + 1, e)
<1> DEFINE k == r + s
           z == q[k]
           f == u[r]
           g == v[s]
           A == Low(u, r) * Val(v)
           L == Low(v, s)
           Pr == Place(r)
           Ps == Place(s)
           P == Place(k)
           V == Val8(q)
           U == Val8([q EXCEPT ![k] = w])
<1>1. k \in 0 .. 7 /\ k \in 0 .. 8 /\ z \in Word
  OBVIOUS
<1>2. /\ f \in Int /\ g \in Int
  BY LimbType
<1>3. z \in Int /\ c \in Int /\ w \in Int /\ e \in Int /\ W \in Int
  BY <1>1, WType DEF Word
<1>4. P \in Int /\ Pr \in Int /\ Ps \in Int /\ P = Pr * Ps /\ Place(k + 1) = W * P
  <2>1. r \in 0 .. 7 /\ s \in 0 .. 7 /\ r + s <= 8 /\ r \in 0 .. 8 /\ s \in 0 .. 8
    OBVIOUS
  <2>2. P = Pr * Ps
    BY <2>1, PlaceFacts
  <2>3. P \in Int /\ Pr \in Int /\ Ps \in Int
    BY <1>1, <2>1, PlaceType
  <2>4. Place(k + 1) = W * P
    BY <1>1, PlaceNext
  <2> QED BY <2>2, <2>3, <2>4
<1>5. L \in Int /\ Low(v, s + 1) = L + g * Ps
  <2>1. Digits(v, 4) /\ s \in 0 .. 4 - 1
    BY LimbType
  <2> QED BY <2>1, LowNext
<1>6. A \in Int
  <2>1. Digits(u, 4) /\ r \in 0 .. 4 - 1 /\ Val(v) \in Int
    BY LimbType
  <2>2. Low(u, r) \in Int
    BY <2>1, LowNext
  <2> QED BY <2>1, <2>2
<1>7. U = V + (w - z) * P /\ V \in Int
  <2>1. U = V + (w - z) * P
    BY <1>1, Val8Update
  <2>2. Digits(q, 8) /\ 8 \in 0 .. 8
    BY DEF Digits
  <2>3. Low(q, 8) \in 0 .. Place(8) - 1
    BY <2>2, LowBound
  <2>4. Low(q, 8) = V /\ Place(8) \in Int
    BY LowIsVal, PlaceType
  <2> HIDE DEF V
  <2> QED BY <2>1, <2>3, <2>4
<1>8. V + c * P = A + (f * Pr) * L
  BY DEF AddsUp, Partial
<1>9. e * W + w = f * g + z + c
  BY DEF Column
<1>10. Partial(u, v, r, s + 1) = A + (f * Pr) * (L + g * Ps)
  BY <1>5 DEF Partial
<1> HIDE DEF z, f, g, A, L, Pr, Ps, P, V, U
<1>11. (V + (w - z) * P) + e * (W * P) = A + (f * Pr) * (L + g * Ps)
  <2> DEFINE t == e * W + w
             fg == f * g
             fp == f * Pr
  <2>1. t = fg + z + c /\ t \in Int /\ fg \in Int /\ fp \in Int
    BY <1>2, <1>3, <1>4, <1>9
  <2>2. (V + (w - z) * P) + e * (W * P) = V + (t - z) * P
    BY <1>3, <1>4, <1>7
  <2>3. fp * (L + g * Ps) = fp * L + fg * P
    <3>1. fp * (g * Ps) = fg * P
      BY <1>2, <1>4
    <3>2. g * Ps \in Int
      BY <1>2, <1>4
    <3> DEFINE h == g * Ps
    <3> HIDE DEF fp, fg, h
    <3>3. fp * (L + h) = fp * L + fp * h
      BY <1>5, <2>1, <3>2 DEF h
    <3> QED BY <3>1, <3>3 DEF h
  <2> HIDE DEF t, fg
  <2>4. (t - z) * P = fg * P + c * P
    <3>1. t - z = fg + c
      BY <1>3, <2>1
    <3> QED BY <1>3, <1>4, <2>1, <3>1
  <2>5. fp * L \in Int /\ fg * P \in Int /\ c * P \in Int
    BY <1>3, <1>4, <1>5, <2>1
  <2>6. V + c * P = A + fp * L
    BY <1>8
  <2>7. (V + (w - z) * P) + e * (W * P) = A + fp * (L + g * Ps)
    <3> DEFINE n1 == c * P
               n2 == fp * L
               n3 == fg * P
    <3>1. n1 \in Int /\ n2 \in Int /\ n3 \in Int /\ V + n1 = A + n2 /\ (t - z) * P = n3 + n1
          /\ fp * (L + g * Ps) = n2 + n3
      BY <2>3, <2>4, <2>5, <2>6
    <3> HIDE DEF n1, n2, n3
    <3>2. V + (n3 + n1) = A + (n2 + n3)
      BY <1>6, <1>7, <3>1
    <3> QED BY <2>2, <3>1, <3>2
  <2> QED BY <2>7
<1>12. r + (s + 1) = k + 1
  OBVIOUS
<1> QED BY <1>4, <1>7, <1>10, <1>11, <1>12 DEF AddsUp, U, k

(* The carry out of a row lands in a word that was still zero. *)
LEMMA RowValue ==
  ASSUME NEW q \in [0 .. 7 -> Word], NEW u \in Limbs, NEW v \in Limbs,
         NEW r \in 0 .. 3, NEW c \in Word, q[r + 4] = 0, AddsUp(q, u, v, r, 4, c)
  PROVE  Val8([q EXCEPT ![r + 4] = c]) = Low(u, r + 1) * Val(v)
<1> DEFINE P == Place(r + 4)
           V == Val8(q)
           f == u[r]
           Pr == Place(r)
           A == Low(u, r)
           B == Val(v)
<1>1. Val8([q EXCEPT ![r + 4] = c]) = V + (c - 0) * P
  <2>1. r + 4 \in 0 .. 7
    OBVIOUS
  <2> QED BY <2>1, Val8Update
<1>2. c \in Int /\ f \in Int /\ B \in Int /\ Digits(u, 4) /\ r \in 0 .. 4 - 1
  <2>1. f \in Int /\ B \in Int /\ Digits(u, 4)
    BY LimbType
  <2> QED BY <2>1, WType DEF Word
<1>3. P \in Int /\ Pr \in Int
  <2>1. r \in 0 .. 8 /\ r + 4 \in 0 .. 8
    OBVIOUS
  <2> QED BY <2>1, PlaceType
<1>4. A \in Int /\ Low(u, r + 1) = A + f * Pr
  BY <1>2, LowNext
<1>5. Low(v, 4) = B
  BY LowIsVal
<1>6. V + c * P = A * B + (f * Pr) * B
  BY <1>5 DEF AddsUp, Partial
<1> HIDE DEF P, V, f, Pr, A, B
<1>7. A * B + (f * Pr) * B = (A + f * Pr) * B
  <2> DEFINE g == f * Pr
  <2>1. g \in Int
    BY <1>2, <1>3
  <2> HIDE DEF g
  <2>2. A * B + g * B = (A + g) * B
    BY <1>2, <1>4, <2>1
  <2> QED BY <2>2 DEF g
<1>8. (c - 0) * P = c * P
  BY <1>2, <1>3
<1> QED BY <1>1, <1>4, <1>6, <1>7, <1>8 DEF B

-----------------------------------------------------------------------------
(* fr_mul and fr_pow5 *)

(* While the rows are added up, and once they are. *)
Rows ==
  /\ pc = "rows" => AddsUp(p, x, y, i, j, carry)
  /\ pc = "divide" => Val8(p) = Val(x) * Val(y)

(* What is being multiplied: fr_pow5 makes the square, its square, and the *)
(* product of that with the operand, which is still where it was.          *)
Operands ==
  pc \in {"rows", "divide"} =>
    LET u == Val(old[a])
    IN  /\ mem = old
        /\ \/ op = "mul" /\ x = old[a] /\ y = old[b]
           \/ op = "pow5" /\ stage = 1 /\ Val(x) = u /\ Val(y) = u
           \/ op = "pow5" /\ stage = 2 /\ Val(x) = (u * u) % R /\ Val(y) = (u * u) % R
           \/ op = "pow5" /\ stage = 3 /\ Val(x) = (u * u * u * u) % R /\ y = old[a]

Loading == pc \in {"load", "reduce"} => op = "from_be"

ProductCorrect == pc = "done" /\ op \in {"mul", "pow5"} => Val(mem[out]) = Expected

ProductInv == Rows /\ RemainderOfUpperPart /\ Operands /\ Loading /\ ProductCorrect

LEMMA StartRows ==
  ASSUME NEW u \in Limbs, NEW v \in Limbs
  PROVE  AddsUp([k \in 0 .. 7 |-> 0], u, v, 0, 0, 0)
<1> DEFINE q == [k \in 0 .. 7 |-> 0]
           t == Val8(q)
           f == u[0]
           B == Val(v)
<1>1. 0 \in Word
  BY WType DEF Word
<1>2. q \in [0 .. 7 -> Word]
  BY <1>1
<1>3. Low(q, 8) = t
  BY <1>2, LowIsVal
<1>4. Low(q, 8) = 0
  <2>1. \A k \in 0 .. 7 : Term(q, k, 8) = 0
    <3> TAKE k \in 0 .. 7
    <3>1. q[k] = 0 /\ Place(k) \in Int
      <4>1. k \in 0 .. 8
        OBVIOUS
      <4> QED BY <4>1, PlaceType
    <3> HIDE DEF q
    <3> QED BY <3>1 DEF Term
  <2> HIDE DEF q
  <2> QED BY <2>1 DEF Low
<1>5. f \in Int /\ B \in Int
  BY LimbType, 0 \in 0 .. 3
<1>6. Low(u, 0) = 0 /\ Low(v, 0) = 0 /\ Place(0) = 1 /\ 0 + 0 = 0
  BY LowZero, PlaceType
<1> HIDE DEF q, t, f, B
<1>7. Partial(u, v, 0, 0) = 0 * B + (f * 1) * 0
  BY <1>6 DEF Partial, f, B
<1>8. 0 * B + (f * 1) * 0 = 0 /\ t + 0 * 1 = 0
  BY <1>3, <1>4, <1>5
<1> QED BY <1>6, <1>7, <1>8 DEF AddsUp, t, q

LEMMA StartMulRows ==
  ASSUME NEW u \in Limbs, NEW v \in Limbs, StartMul(u, v)
  PROVE  Rows' /\ RemainderOfUpperPart' /\ Loading' /\ ProductCorrect'
<1>1. /\ x' = u /\ y' = v /\ i' = 0 /\ j' = 0 /\ carry' = 0 /\ p' = [k \in 0 .. 7 |-> 0]
      /\ pc' = "rows"
  BY DEF StartMul
<1>2. Rows'
  BY <1>1, StartRows DEF Rows
<1>3. RemainderOfUpperPart' /\ Loading' /\ ProductCorrect'
  BY <1>1 DEF RemainderOfUpperPart, Loading, ProductCorrect
<1> QED BY <1>2, <1>3

LEMMA MulCalled ==
  ASSUME IInv, Frame, NEW o \in Cells, NEW u \in Cells, NEW v \in Cells,
         fr_mul(o, u, v) \/ (fr_pow5(o, u) /\ u = v)
  PROVE  ProductInv'
<1>1. mem[u] \in Limbs /\ mem[v] \in Limbs
  BY DEF IInv, TypeOK
<1>2. StartMul(mem[u], mem[v]) /\ pc = "idle" /\ UNCHANGED <<mem, old>>
  BY DEF fr_mul, fr_pow5, Call
<1>3. mem = old /\ x' = mem[u] /\ y' = mem[v]
  BY <1>2 DEF Frame, StartMul
<1>4. \/ op' = "mul" /\ a' = u /\ b' = v
      \/ op' = "pow5" /\ a' = u /\ stage' = 1 /\ u = v
  BY DEF fr_mul, fr_pow5, Call
<1>5. Operands'
  BY <1>2, <1>3, <1>4 DEF Operands
<1>6. Rows' /\ RemainderOfUpperPart' /\ Loading' /\ ProductCorrect'
  BY <1>1, <1>2, StartMulRows
<1> QED BY <1>5, <1>6 DEF ProductInv

LEMMA MulColumnValue == ASSUME IInv, ProductInv, MulColumn PROVE ProductInv'
<1> DEFINE m == MulAcc(p[i + j], x[i], y[j], carry)
           w == m.word
           e == m.carry
           z == p[i + j]
           f == x[i]
           g == y[j]
<1>1. /\ pc = "rows" /\ i \in 0 .. 3 /\ j \in 0 .. 3
  <2>1. pc = "rows" /\ i \in 0 .. 3 /\ j \in 0 .. 4 /\ j < 4
    BY DEF IInv, Loops, MulColumn, Limb
  <2> QED BY <2>1
<1>2. p \in [0 .. 7 -> Word] /\ x \in Limbs /\ y \in Limbs /\ carry \in Word
  BY DEF IInv, TypeOK
<1>3. z \in Word /\ f \in Word /\ g \in Word
  BY <1>1, <1>2, LimbType
<1>4. w \in Word /\ e \in Word /\ Column(p, x, y, i, j, carry, w, e)
  BY <1>2, <1>3, MulAccExact DEF Column
<1>5. /\ p' = [p EXCEPT ![i + j] = w] /\ carry' = e /\ j' = j + 1
      /\ UNCHANGED <<mem, pc, call, x, y, i, bit, rem, stage, old>>
  BY DEF MulColumn
<1>6. AddsUp(p, x, y, i, j, carry)
  BY <1>1 DEF ProductInv, Rows
<1> HIDE DEF m, w, e
<1>7. AddsUp([p EXCEPT ![i + j] = w], x, y, i, j + 1, e)
  BY <1>1, <1>2, <1>4, <1>6, ColumnValue
<1>9. Rows'
  BY <1>1, <1>5, <1>7 DEF Rows
<1>10. Operands' /\ RemainderOfUpperPart' /\ Loading' /\ ProductCorrect'
  BY <1>1, <1>5 DEF ProductInv, Operands, RemainderOfUpperPart, Loading, ProductCorrect, call
<1> QED BY <1>9, <1>10 DEF ProductInv

(* The product fits in eight words: nothing is above the first bit. *)
LEMMA NothingAbove ==
  ASSUME NEW q \in [0 .. 7 -> Word]
  PROVE  (Val8(q) \div Two(8 * BITS)) % R = 0 /\ Val8(q) \in Nat
<1> DEFINE V == Val8(q)
           w == Two(8 * BITS)
<1>1. Digits(q, 8) /\ 8 \in 0 .. 8
  BY DEF Digits
<1>2. Low(q, 8) \in 0 .. Place(8) - 1
  BY <1>1, LowBound
<1>3. Place(8) = w /\ Place(8) \in Nat \ {0} /\ Low(q, 8) = V
  BY PlaceFacts, LowIsVal
<1> HIDE DEF V, w
<1>4. V \in 0 .. w - 1 /\ w \in Nat \ {0}
  BY <1>2, <1>3
<1>5. V = 0 * w + V
  BY <1>4
<1>6. V \div w = 0
  BY <1>4, <1>5, DivModUnique
<1>7. R \in Nat \ {0} /\ 0 = 0 * R + 0 /\ 0 \in 0 .. R - 1
  BY RType
<1>8. 0 % R = 0
  BY <1>7, DivModUnique
<1> QED BY <1>4, <1>6, <1>8 DEF V, w

LEMMA MulRowValue == ASSUME IInv, ProductInv, MulRow PROVE ProductInv'
<1>1. /\ pc = "rows" /\ i \in 0 .. 3 /\ j = 4 /\ p[i + 4] = 0 /\ i + 4 \in 0 .. 7
      /\ Val(rem) = 0
  <2>1. pc = "rows" /\ i \in 0 .. 3 /\ j = 4 /\ Val(rem) = 0
        /\ \A k \in 0 .. 7 : k >= i + 4 => p[k] = 0
    BY DEF IInv, Loops, MulRow, Limb
  <2> QED BY <2>1
<1>2. p \in [0 .. 7 -> Word] /\ x \in Limbs /\ y \in Limbs /\ carry \in Word
  BY DEF IInv, TypeOK
<1>3. (p[i + 4] + carry) % W = carry
  <2>1. carry \in 0 .. W - 1 /\ W \in Nat \ {0} /\ carry \in Int
    BY <1>2, WType DEF Word
  <2>2. p[i + 4] + carry = carry /\ carry = 0 * W + carry
    BY <1>1, <2>1
  <2>3. carry % W = carry
    BY <2>1, <2>2, DivModUnique
  <2> QED BY <2>2, <2>3
<1>4. /\ p' = [p EXCEPT ![i + 4] = carry]
      /\ i' = i + 1 /\ j' = 0 /\ carry' = 0
      /\ IF i = 3 THEN pc' = "divide" /\ bit' = 8 * BITS - 1 ELSE UNCHANGED <<pc, bit>>
      /\ UNCHANGED <<mem, call, x, y, rem, stage, old>>
  BY <1>3 DEF MulRow
<1>5. AddsUp(p, x, y, i, 4, carry)
  BY <1>1 DEF ProductInv, Rows
<1> DEFINE q == [p EXCEPT ![i + 4] = carry]
<1>6. Val8(q) = Low(x, i + 1) * Val(y)
  <2>1. i \in 0 .. 3 /\ p[i + 4] = 0
    BY <1>1
  <2>2. Val8([p EXCEPT ![i + 4] = carry]) = Low(x, i + 1) * Val(y)
    BY <1>2, <1>5, <2>1, RowValue, Zenon
  <2> QED BY <2>2
<1>7. q \in [0 .. 7 -> Word]
  BY <1>2
<1> HIDE DEF q
<1>8. p' = q
  BY <1>4 DEF q
<1>9. pc' \in {"rows", "divide"} /\ op' = op /\ pc' # "done"
  BY <1>1, <1>4 DEF call
<1>10. Operands' /\ Loading' /\ ProductCorrect'
  BY <1>1, <1>4, <1>9 DEF ProductInv, Operands, Loading, ProductCorrect, call
<1>11. CASE i = 3
  <2>1. pc' = "divide" /\ bit' = 8 * BITS - 1 /\ x' = x /\ y' = y /\ rem' = rem
    BY <1>4, <1>11
  <2>2. Low(x, i + 1) = Val(x)
    <3>1. i + 1 = 4
      BY <1>11
    <3> QED BY <1>2, <3>1, LowIsVal
  <2>3. Rows'
    BY <1>6, <1>8, <2>1, <2>2 DEF Rows
  <2>4. bit' + 1 = 8 * BITS
    BY <2>1, FrAssumption
  <2>5. (Val8(q) \div 2^(8 * BITS)) % R = 0
    BY <1>7, NothingAbove DEF Two
  <2>6. RemainderOfUpperPart'
    BY <1>1, <1>8, <2>1, <2>4, <2>5 DEF RemainderOfUpperPart
  <2> QED BY <1>10, <2>3, <2>6 DEF ProductInv
<1>12. CASE i # 3
  <2>1. pc' = "rows" /\ x' = x /\ y' = y
    BY <1>1, <1>4, <1>12
  <2> DEFINE n == i + 1
             V == Val8(q)
             f == x[n]
             B == Val(y)
             P == Place(n)
             A == Low(x, n) * B
  <2>2. n \in 0 .. 3 /\ n \in 0 .. 8 /\ n + 0 = n
    BY <1>1, <1>12
  <2>3. f \in Int /\ P \in Int /\ B \in Int
    BY <1>2, <2>2, LimbType, PlaceType
  <2>4. V \in Int
    BY <1>7, NothingAbove
  <2>5. V = A
    BY <1>6
  <2>6. Low(y, 0) = 0
    BY LowZero
  <2> HIDE DEF V, f, P, A, B
  <2>7. V + 0 * P = A + (f * P) * 0
    BY <2>3, <2>4, <2>5
  <2>8. Partial(x, y, n, 0) = A + (f * P) * 0
    BY <2>6 DEF Partial, A, f, P, B
  <2>9. AddsUp(q, x, y, n, 0, 0)
    BY <2>2, <2>7, <2>8 DEF AddsUp, V, P
  <2>10. Rows'
    BY <1>4, <1>8, <2>1, <2>9 DEF Rows
  <2>11. RemainderOfUpperPart'
    BY <2>1 DEF RemainderOfUpperPart
  <2> QED BY <1>10, <2>10, <2>11 DEF ProductInv
<1> QED BY <1>11, <1>12

LEMMA DivStepRemainder == ASSUME IInv, ProductInv, DivStep PROVE ProductInv'
<1>1. /\ pc = "divide" /\ bit >= 0 /\ rem \in Limbs /\ p \in [0 .. 7 -> Word]
      /\ bit \in -1 .. 8 * BITS - 1
  BY DEF IInv, TypeOK, DivStep
<1>2. /\ rem' = CondSub(ShiftIn(rem, ProductBit)) /\ bit' = bit - 1
      /\ UNCHANGED <<mem, pc, call, x, y, i, j, p, carry, stage, old>>
  BY DEF DivStep
<1>3. bit \in 0 .. 8 * BITS - 1 /\ bit' + 1 = bit
  BY <1>1, <1>2, FrAssumption
<1>4. ProductBit = BitOf(p, bit)
  <2> DEFINE e == BitOf(p, bit)
  <2>1. e \in {0, 1}
    <3>1. e = (Val8(p) \div Two(bit)) % 2
      BY <1>1, <1>3, BitOfProduct
    <3>2. Val8(p) \in Nat
      BY <1>1, NothingAbove
    <3>3. Two(bit) \in Nat \ {0}
      <4>1. bit \in 0 .. 8 * BITS
        BY <1>3, FrAssumption
      <4> QED BY <4>1, TwoFacts
    <3> HIDE DEF e
    <3> QED BY <3>1, <3>2, <3>3, Halved
  <2>2. ProductBit = IF e = 1 THEN 1 ELSE 0
    BY DEF ProductBit, Bool, BitOf
  <2> HIDE DEF e
  <2>3. ProductBit = e
    BY <2>1, <2>2
  <2> QED BY <2>3 DEF e
<1>5. Val(rem) = (Val8(p) \div Two(bit + 1)) % R
  BY <1>1 DEF ProductInv, RemainderOfUpperPart, Two
<1>6. Val(CondSub(ShiftIn(rem, BitOf(p, bit)))) = (Val8(p) \div Two(bit)) % R
  BY <1>1, <1>3, <1>5, BringDown
<1>7. RemainderOfUpperPart'
  BY <1>2, <1>3, <1>4, <1>6 DEF RemainderOfUpperPart, Two
<1>8. Rows' /\ Operands' /\ Loading' /\ ProductCorrect'
  BY <1>1, <1>2 DEF ProductInv, Rows, Operands, Loading, ProductCorrect, call
<1> QED BY <1>7, <1>8 DEF ProductInv

LEMMA Powers ==
  ASSUME NEW u \in Nat
  PROVE  /\ (((u * u) % R) * ((u * u) % R)) % R = (u * u * u * u) % R
         /\ (((u * u * u * u) % R) * u) % R = (u * u * u * u * u) % R
<1> DEFINE s == u * u
           m == s % R
           f == u * u * u * u
<1>1. s \in Int /\ f \in Int /\ s * s = f /\ R \in Nat \ {0}
  BY RType
<1>2. m \in Int
  <2> HIDE DEF s
  <2> QED BY <1>1
<1> HIDE DEF s, f
<1>3. (m * m) % R = (s * m) % R
  <2>1. ((s % R) * m) % R = (s * m) % R
    <3> HIDE DEF m
    <3> QED BY <1>1, <1>2, ModProduct
  <2> QED BY <2>1
<1>4. (s * m) % R = (s * s) % R
  BY <1>1, ModProduct DEF m
<1>5. ((f % R) * u) % R = (f * u) % R
  <2>1. f \in Int /\ u \in Int /\ R \in Nat \ {0}
    BY <1>1
  <2> QED BY <2>1, ModProduct, Zenon
<1> QED BY <1>1, <1>3, <1>4, <1>5 DEF s, f, m

LEMMA MulDoneProduct == ASSUME IInv, ProductInv, MulDone PROVE ProductInv'
<1>1. /\ pc = "divide" /\ rem \in Limbs /\ p \in [0 .. 7 -> Word]
      /\ mem \in [Cells -> Limbs] /\ old \in [Cells -> Limbs]
      /\ out \in Cells /\ a \in Cells /\ b \in Cells
  BY DEF IInv, TypeOK, MulDone
<1>2. bit = -1
  <2>1. bit \in -1 .. 8 * BITS - 1 /\ bit < 0
    BY DEF IInv, TypeOK, MulDone
  <2> QED BY <2>1, FrAssumption
<1>3. Val(rem) = (Val(x) * Val(y)) % R
  <2> DEFINE V == Val8(p)
  <2>1. V = Val(x) * Val(y)
    BY <1>1 DEF ProductInv, Rows
  <2>2. Val(rem) = (V \div 2^(bit + 1)) % R
    BY <1>1 DEF ProductInv, RemainderOfUpperPart
  <2>3. 2^(bit + 1) = 1
    <3>1. bit + 1 = 0
      BY <1>2
    <3> QED BY <3>1, PowerAssumption
  <2>4. V \in Nat
    BY <1>1, NothingAbove
  <2> HIDE DEF V
  <2>5. V \div 1 = V
    BY <2>4, DivModUnique, V = V * 1 + 0, 0 \in 0 .. 1 - 1, 1 \in Nat \ {0}
  <2> QED BY <2>1, <2>2, <2>3, <2>5
<1> DEFINE u == Val(old[a])
           q2 == (u * u) % R
           q4 == (u * u * u * u) % R
           q5 == (u * u * u * u * u) % R
<1>4. (q2 * q2) % R = q4 /\ (q4 * u) % R = q5
  <2>1. u \in Nat
    BY <1>1, ValType
  <2> HIDE DEF u
  <2> QED BY <2>1, Powers
<1>5. /\ mem = old
      /\ \/ op = "mul" /\ x = old[a] /\ y = old[b]
         \/ op = "pow5" /\ stage = 1 /\ Val(x) = u /\ Val(y) = u
         \/ op = "pow5" /\ stage = 2 /\ Val(x) = q2 /\ Val(y) = q2
         \/ op = "pow5" /\ stage = 3 /\ Val(x) = q4 /\ y = old[a]
  BY <1>1 DEF ProductInv, Operands
<1>6. CASE op = "pow5" /\ stage < 3
  <2>1. /\ StartMul(rem, IF stage = 1 THEN rem ELSE mem[a]) /\ stage' = stage + 1
        /\ UNCHANGED <<mem, old, call>>
    BY <1>6 DEF MulDone
  <2>2. (IF stage = 1 THEN rem ELSE mem[a]) \in Limbs
    BY <1>1
  <2>3. Rows' /\ RemainderOfUpperPart' /\ Loading' /\ ProductCorrect'
    BY <1>1, <2>1, <2>2, StartMulRows
  <2>4. op' = "pow5" /\ old' = old /\ mem' = old' /\ a' = a
    BY <1>5, <1>6, <2>1 DEF call
  <2>5. CASE stage = 1
    <3>1. Val(x) = u /\ Val(y) = u
      <4> HIDE DEF u, q2, q4
      <4> QED BY <1>5, <1>6, <2>5
    <3>2. Val(rem) = q2
      BY <1>3, <3>1, Zenon
    <3>3. x' = rem /\ y' = rem /\ stage' = 2
      BY <2>1, <2>5 DEF StartMul
    <3>4. Operands'
      BY <2>4, <3>2, <3>3 DEF Operands
    <3> QED BY <2>3, <3>4 DEF ProductInv
  <2>6. CASE stage = 2
    <3>1. Val(x) = q2 /\ Val(y) = q2
      <4> HIDE DEF u, q2, q4
      <4> QED BY <1>5, <1>6, <2>6
    <3>2. Val(rem) = q4
      <4> HIDE DEF u, q2, q4
      <4> QED BY <1>3, <1>4, <3>1, Zenon
    <3>3. x' = rem /\ y' = old[a] /\ stage' = 3
      BY <1>5, <2>1, <2>6 DEF StartMul
    <3>4. Operands'
      BY <2>4, <3>2, <3>3 DEF Operands
    <3> QED BY <2>3, <3>4 DEF ProductInv
  <2>7. stage = 1 \/ stage = 2
    <3> HIDE DEF u, q2, q4
    <3> QED BY <1>5, <1>6
  <2> QED BY <2>5, <2>6, <2>7
<1>7. CASE ~ (op = "pow5" /\ stage < 3)
  <2>1. /\ mem' = [mem EXCEPT ![out] = rem] /\ pc' = "done"
        /\ UNCHANGED <<call, old>>
    BY <1>7 DEF MulDone
  <2>2. mem'[out'] = rem /\ op' = op /\ a' = a /\ b' = b /\ old' = old
    BY <1>1, <2>1 DEF call
  <2>3. op = "mul" => Val(rem) = Expected'
    <3> SUFFICES ASSUME op = "mul" PROVE Val(rem) = Expected'
      OBVIOUS
    <3>1. x = old[a] /\ y = old[b]
      <4> HIDE DEF u, q2, q4
      <4> QED BY <1>5
    <3>2. Expected' = (Val(old[a]) * Val(old[b])) % R
      BY <2>2 DEF Expected
    <3> QED BY <1>3, <3>1, <3>2, Zenon
  <2>4. op = "pow5" => Val(rem) = Expected'
    <3> SUFFICES ASSUME op = "pow5" PROVE Val(rem) = Expected'
      OBVIOUS
    <3>1. Val(x) = q4 /\ y = old[a]
      <4> HIDE DEF u, q2, q4
      <4> QED BY <1>5, <1>7
    <3>2. Val(rem) = (q4 * u) % R
      BY <1>3, <3>1, Zenon
    <3>3. Expected' = q5
      BY <2>2 DEF Expected
    <3> HIDE DEF u, q4, q5
    <3> QED BY <1>4, <3>2, <3>3
  <2>5. Val(rem) = Expected'
    <3> HIDE DEF u, q2, q4
    <3> QED BY <1>5, <2>3, <2>4, Zenon
  <2>6. ProductCorrect'
    BY <2>2, <2>5 DEF ProductCorrect
  <2>7. Rows' /\ RemainderOfUpperPart' /\ Operands' /\ Loading'
    BY <2>1 DEF Rows, RemainderOfUpperPart, Operands, Loading
  <2> QED BY <2>6, <2>7 DEF ProductInv
<1> QED BY <1>6, <1>7

(* The other operations do not multiply. *)
LEMMA NotAProduct ==
  ASSUME pc' \in {"load", "reduce", "done"}, op' \in {"set_u64", "from_be", "add", "sub"},
         pc' # "done" => op' = "from_be"
  PROVE  ProductInv'
BY DEF ProductInv, Rows, RemainderOfUpperPart, Operands, Loading, ProductCorrect

LEMMA ProductSteps ==
  ASSUME IInv, Frame, ProductInv, Next
  PROVE  ProductInv'
<1>1. ASSUME NEW o \in Cells, NEW n \in Word, fr_set_u64(o, n) PROVE ProductInv'
  BY <1>1, NotAProduct DEF fr_set_u64, Call
<1>2. ASSUME NEW o \in Cells, NEW bytes \in Bytes, fr_from_be(o, bytes) PROVE ProductInv'
  BY <1>2, NotAProduct DEF fr_from_be, Call
<1>3. ASSUME NEW o \in Cells, NEW u \in Cells, fr_pow5(o, u) PROVE ProductInv'
  BY <1>3, MulCalled
<1>4. ASSUME NEW o \in Cells, NEW u \in Cells, NEW v \in Cells, fr_add(o, u, v) \/ fr_sub(o, u, v)
      PROVE  ProductInv'
  BY <1>4, NotAProduct DEF fr_add, fr_sub, Call
<1>5. ASSUME NEW o \in Cells, NEW u \in Cells, NEW v \in Cells, fr_mul(o, u, v) PROVE ProductInv'
  BY <1>5, MulCalled
<1>6. CASE LoadByte
  <2>1. pc \in {"load", "reduce"} /\ op' = op /\ pc' \in {"load", "reduce"}
    BY <1>6 DEF LoadByte, call
  <2>2. op = "from_be"
    BY <2>1 DEF ProductInv, Loading
  <2> QED BY <2>1, <2>2, NotAProduct
<1>7. CASE Reduce
  <2>1. pc = "reduce" /\ op' = op /\ pc' \in {"reduce", "done"}
    BY <1>7 DEF Reduce, call
  <2>2. op = "from_be"
    BY <2>1 DEF ProductInv, Loading
  <2> QED BY <2>1, <2>2, NotAProduct
<1>8. CASE MulColumn BY <1>8, MulColumnValue
<1>9. CASE MulRow    BY <1>9, MulRowValue
<1>10. CASE DivStep  BY <1>10, DivStepRemainder
<1>11. CASE MulDone  BY <1>11, MulDoneProduct
<1> QED BY <1>1, <1>2, <1>3, <1>4, <1>5, <1>6, <1>7, <1>8, <1>9, <1>10, <1>11 DEF Next

-----------------------------------------------------------------------------
(* Bytes *)

Pow(n) == BYTE^n

LEMMA PowFacts ==
  /\ Pow(0) = 1 /\ Pow(BPL) = W /\ BYTE \in Nat /\ BYTE >= 2 /\ BPL \in Nat \ {0}
  /\ \A n \in 0 .. BPL : Pow(n) \in Nat \ {0} /\ Pow(n) <= W
  /\ \A n \in 0 .. BPL - 1 : Pow(n + 1) = BYTE * Pow(n)
<1>0. BYTE \in Nat /\ BYTE >= 2 /\ BPL \in Nat \ {0}
  BY FrAssumption
<1>1. Pow(0) = 1 /\ Pow(BPL) = W /\ \A n \in 0 .. BPL - 1 : Pow(n + 1) = BYTE * Pow(n)
  <2>1. \A n \in 0 .. BPL - 1 : n \in 0 .. BPL
    BY <1>0
  <2> QED BY <2>1, PowerAssumption, FrAssumption DEF Pow
<1> DEFINE S == {n \in 0 .. BPL : Pow(n) \in Nat \ {0}}
           T == {n \in 0 .. BPL : Pow(BPL - n) <= W}
<1>2. \A n \in 0 .. BPL : n \in S
  <2>1. 0 \in S
    BY <1>0, <1>1
  <2>2. ASSUME NEW k \in 0 .. BPL - 1, k \in S PROVE k + 1 \in S
    <3> DEFINE u == Pow(k)
               v == Pow(k + 1)
    <3>1. u \in Nat \ {0} /\ v = BYTE * u /\ k + 1 \in 0 .. BPL
      BY <1>0, <1>1, <2>2
    <3> HIDE DEF u, v
    <3>2. v \in Nat \ {0}
      BY <1>0, <3>1
    <3> QED BY <3>1, <3>2 DEF v
  <2> HIDE DEF S
  <2> QED BY <1>0, <2>1, <2>2, UpTo
<1>3. \A n \in 0 .. BPL : n \in T
  <2>1. 0 \in T
    <3>1. BPL - 0 = BPL /\ 0 \in 0 .. BPL
      BY <1>0
    <3> QED BY <1>1, <3>1, WType
  <2>2. ASSUME NEW k \in 0 .. BPL - 1, k \in T PROVE k + 1 \in T
    <3> DEFINE n == BPL - (k + 1)
               u == Pow(n)
               v == Pow(n + 1)
    <3>1. n \in 0 .. BPL - 1 /\ n \in 0 .. BPL /\ n + 1 = BPL - k /\ k + 1 \in 0 .. BPL
      BY <1>0
    <3>2. v <= W
      BY <2>2, <3>1
    <3>3. v = BYTE * u /\ u \in Nat
      BY <1>1, <1>2, <3>1
    <3> HIDE DEF u, v
    <3>4. u <= W
      <4>1. (BYTE - 1) * u >= 0 /\ (BYTE - 1) * u = v - u
        BY <1>0, <3>3
      <4>2. v \in Nat
        BY <1>0, <3>3
      <4> QED BY <3>2, <3>3, <4>1, <4>2, WType
    <3> QED BY <3>1, <3>4 DEF u
  <2> HIDE DEF T
  <2> QED BY <1>0, <2>1, <2>2, UpTo
<1>4. ASSUME NEW n \in 0 .. BPL PROVE Pow(n) \in Nat \ {0} /\ Pow(n) <= W
  <2>1. BPL - n \in 0 .. BPL /\ BPL - (BPL - n) = n
    BY <1>0
  <2> QED BY <1>2, <1>3, <2>1
<1> QED BY <1>0, <1>1, <1>4

(* The values of the loop v of BigEndian. *)
Horner(f, s) ==
  /\ f \in [0 .. 4 * BPL -> Nat]
  /\ f[0] = 0
  /\ \A k \in 0 .. 4 * BPL - 1 : f[k + 1] = f[k] * BYTE + s[k]

LEMMA ByteType ==
  ASSUME NEW s \in Bytes, NEW k \in 0 .. 4 * BPL - 1
  PROVE  s[k] \in 0 .. BYTE - 1 /\ s[k] \in Nat
BY PowFacts DEF Bytes

LEMMA BigEndianFacts ==
  ASSUME NEW s \in Bytes
  PROVE  \E f : Horner(f, s) /\ BigEndian(s) = f[4 * BPL]
<1> DEFINE N == 4 * BPL
           Upto(f, n) == /\ f \in [0 .. n -> Nat] /\ f[0] = 0
                         /\ \A k \in 0 .. n - 1 : f[k + 1] = f[k] * BYTE + s[k]
           S == {n \in 0 .. N : \E f : Upto(f, n)}
<1>0. N \in Nat /\ BYTE \in Nat
  BY PowFacts
<1>1. \A k \in 0 .. N - 1 : s[k] \in Nat
  BY ByteType
<1> HIDE DEF N
<1>2. 0 \in S
  <2>1. Upto([k \in 0 .. 0 |-> 0], 0)
    OBVIOUS
  <2> HIDE DEF Upto
  <2> QED BY <1>0, <2>1
<1>3. ASSUME NEW n \in 0 .. N - 1, n \in S PROVE n + 1 \in S
  <2>1. PICK f : Upto(f, n)
    BY <1>3
  <2> DEFINE g == [k \in 0 .. n + 1 |-> IF k = n + 1 THEN f[n] * BYTE + s[n] ELSE f[k]]
  <2>2. f[n] * BYTE + s[n] \in Nat
    <3>1. f[n] \in Nat /\ s[n] \in Nat
      BY <1>1, <2>1
    <3> QED BY <1>0, <3>1
  <2>3. g \in [0 .. n + 1 -> Nat] /\ g[0] = 0
    BY <2>1, <2>2
  <2>4. ASSUME NEW k \in 0 .. (n + 1) - 1 PROVE g[k + 1] = g[k] * BYTE + s[k]
    <3>1. g[k] = f[k]
      OBVIOUS
    <3>2. CASE k = n
      <4>1. g[k + 1] = f[n] * BYTE + s[n]
        BY <3>2
      <4> HIDE DEF g
      <4> QED BY <3>1, <3>2, <4>1
    <3>3. CASE k # n
      <4>1. g[k + 1] = f[k + 1] /\ k \in 0 .. n - 1
        BY <3>3
      <4>2. f[k + 1] = f[k] * BYTE + s[k]
        BY <2>1, <4>1
      <4> HIDE DEF g
      <4> QED BY <3>1, <4>1, <4>2
    <3> QED BY <3>2, <3>3
  <2> HIDE DEF g
  <2>5. Upto(g, n + 1)
    BY <2>3, <2>4
  <2>6. n + 1 \in 0 .. N
    BY <1>0
  <2> HIDE DEF Upto
  <2> QED BY <2>5, <2>6
<1>4. N \in S
  <2>1. \A n \in 0 .. N : n \in S
    <3> HIDE DEF S
    <3> QED BY <1>0, <1>2, <1>3, UpTo
  <2> HIDE DEF S
  <2> QED BY <1>0, <2>1
<1>5. PICK g : Upto(g, N)
  BY <1>4
<1> DEFINE Steps(f) == f = [k \in 0 .. N |-> IF k = 0 THEN 0 ELSE f[k - 1] * BYTE + s[k - 1]]
           v == CHOOSE f : Steps(f)
<1>6. Steps(g)
  <2>1. \A k \in 0 .. N : g[k] = IF k = 0 THEN 0 ELSE g[k - 1] * BYTE + s[k - 1]
    <3> SUFFICES ASSUME NEW k \in 0 .. N, k # 0 PROVE g[k] = g[k - 1] * BYTE + s[k - 1]
      BY <1>5
    <3>1. k - 1 \in 0 .. N - 1 /\ (k - 1) + 1 = k
      BY <1>0
    <3> QED BY <1>5, <3>1
  <2>2. g = [k \in 0 .. N |-> g[k]]
    BY <1>5
  <2> HIDE DEF Upto
  <2> QED BY <2>1, <2>2
<1>7. Steps(v)
  <2> HIDE DEF Steps
  <2> QED BY <1>6, Zenon
<1>8. \A k \in 0 .. N : v[k] = g[k]
  <2> DEFINE T == {k \in 0 .. N : v[k] = g[k]}
  <2> HIDE DEF v
  <2>1. 0 \in T
    BY <1>0, <1>6, <1>7
  <2>2. ASSUME NEW k \in 0 .. N - 1, k \in T PROVE k + 1 \in T
    <3>1. k + 1 \in 0 .. N /\ (k + 1) - 1 = k /\ k + 1 # 0
      BY <1>0
    <3>2. v[k + 1] = v[k] * BYTE + s[k]
      BY <1>7, <3>1
    <3>3. g[k + 1] = g[k] * BYTE + s[k]
      BY <1>5
    <3>4. v[k] = g[k]
      BY <2>2
    <3> QED BY <3>1, <3>2, <3>3, <3>4
  <2>3. \A k \in 0 .. N : k \in T
    <3> HIDE DEF T
    <3> QED BY <1>0, <2>1, <2>2, UpTo
  <2> QED BY <2>3
<1>9. BigEndian(s) = v[N]
  BY DEF BigEndian, N
<1> HIDE DEF v
<1>10. BigEndian(s) = g[N]
  BY <1>0, <1>8, <1>9
<1>11. Horner(g, s)
  BY <1>5 DEF Horner, N
<1> QED BY <1>10, <1>11 DEF N

-----------------------------------------------------------------------------
(* Limbs from the top *)

Top(v, n) ==
  CASE n = 0 -> 0
    [] n = 1 -> v[3]
    [] n = 2 -> v[3] * W + v[2]
    [] n = 3 -> (v[3] * W + v[2]) * W + v[1]
    [] n = 4 -> ((v[3] * W + v[2]) * W + v[1]) * W + v[0]

LEMMA TopIs ==
  ASSUME NEW v
  PROVE  /\ Top(v, 0) = 0 /\ Top(v, 1) = v[3] /\ Top(v, 2) = v[3] * W + v[2]
         /\ Top(v, 3) = (v[3] * W + v[2]) * W + v[1]
         /\ Top(v, 4) = ((v[3] * W + v[2]) * W + v[1]) * W + v[0]
BY DEF Top

LEMMA TopFacts ==
  ASSUME NEW v \in Limbs
  PROVE  /\ \A n \in 0 .. 4 : Top(v, n) \in Nat
         /\ \A n \in 0 .. 3 : Top(v, n + 1) = Top(v, n) * W + v[3 - n]
         /\ Top(v, 4) = Val(v)
<1> DEFINE v0 == v[0]
           v1 == v[1]
           v2 == v[2]
           v3 == v[3]
<1>1. v0 \in Nat /\ v1 \in Nat /\ v2 \in Nat /\ v3 \in Nat /\ W \in Nat
  BY ValType, WType DEF Word
<1>2. /\ Top(v, 0) = 0 /\ Top(v, 1) = v3 /\ Top(v, 2) = v3 * W + v2
      /\ Top(v, 3) = (v3 * W + v2) * W + v1
      /\ Top(v, 4) = ((v3 * W + v2) * W + v1) * W + v0
  BY TopIs
<1>3. Val(v) = v0 + W * (v1 + W * (v2 + W * v3))
  BY DEF Val
<1>4. /\ v[3 - 0] = v3 /\ v[3 - 1] = v2 /\ v[3 - 2] = v1 /\ v[3 - 3] = v0
  OBVIOUS
<1> HIDE DEF v0, v1, v2, v3
<1>5. Top(v, 4) = Val(v)
  BY <1>1, <1>2, <1>3
<1>6. v3 * W + v2 \in Nat /\ (v3 * W + v2) * W + v1 \in Nat /\ ((v3 * W + v2) * W + v1) * W + v0 \in Nat
  <2>1. \A s, t \in Nat : s * W + t \in Nat
    BY <1>1
  <2> QED BY <1>1, <2>1
<1>7. ASSUME NEW n \in 0 .. 4 PROVE Top(v, n) \in Nat
  <2>1. n = 0 \/ n = 1 \/ n = 2 \/ n = 3 \/ n = 4
    OBVIOUS
  <2> QED BY <1>1, <1>2, <1>6, <2>1
<1>8. /\ Top(v, 0 + 1) = Top(v, 0) * W + v[3 - 0]
      /\ Top(v, 1 + 1) = Top(v, 1) * W + v[3 - 1]
      /\ Top(v, 2 + 1) = Top(v, 2) * W + v[3 - 2]
      /\ Top(v, 3 + 1) = Top(v, 3) * W + v[3 - 3]
  BY <1>1, <1>2, <1>4
<1>9. ASSUME NEW n \in 0 .. 3 PROVE Top(v, n + 1) = Top(v, n) * W + v[3 - n]
  <2>1. n = 0 \/ n = 1 \/ n = 2 \/ n = 3
    OBVIOUS
  <2> QED BY <1>8, <2>1, Zenon
<1> QED BY <1>5, <1>7, <1>9

LEMMA TopBelow ==
  ASSUME NEW v \in Limbs, NEW n \in 0 .. 3, NEW w \in Word
  PROVE  Top([v EXCEPT ![3 - n] = w], n) = Top(v, n)
<1> DEFINE u == [v EXCEPT ![3 - n] = w]
<1>1. n = 0 \/ n = 1 \/ n = 2 \/ n = 3
  OBVIOUS
<1>2. \A k \in Limb : k # 3 - n => u[k] = v[k]
  BY DEF Limbs
<1>3. 3 \in Limb /\ 2 \in Limb /\ 1 \in Limb
  BY DEF Limb
<1> SUFFICES Top(u, n) = Top(v, n)
  OBVIOUS
<1> HIDE DEF u
<1>4. CASE n = 0
  BY <1>4, TopIs
<1>5. CASE n = 1
  <2>1. u[3] = v[3]
    BY <1>2, <1>3, <1>5
  <2> QED BY <1>5, <2>1, TopIs, Zenon
<1>6. CASE n = 2
  <2>1. u[3] = v[3] /\ u[2] = v[2]
    BY <1>2, <1>3, <1>6
  <2> QED BY <1>6, <2>1, TopIs, Zenon
<1>7. CASE n = 3
  <2>1. u[3] = v[3] /\ u[2] = v[2] /\ u[1] = v[1]
    BY <1>2, <1>3, <1>7
  <2> QED BY <1>7, <2>1, TopIs, Zenon
<1> QED BY <1>1, <1>4, <1>5, <1>6, <1>7

-----------------------------------------------------------------------------
(* fr_from_be *)

(* One more byte below the top n of a limb: limb never leaves its word. *)
LEMMA OneMoreByte ==
  ASSUME NEW t \in Nat, NEW n \in 0 .. BPL - 1, NEW l \in 0 .. Pow(n) - 1,
         NEW d \in 0 .. BYTE - 1
  PROVE  /\ (l * BYTE + d) % W = l * BYTE + d
         /\ l * BYTE + d \in 0 .. Pow(n + 1) - 1
         /\ (t * Pow(n) + l) * BYTE + d = t * Pow(n + 1) + (l * BYTE + d)
<1> DEFINE P == Pow(n)
           Q == Pow(n + 1)
           v == l * BYTE + d
<1>1. P \in Nat \ {0} /\ Q = BYTE * P /\ Q <= W /\ BYTE \in Nat /\ W \in Nat \ {0}
  <2>1. n \in 0 .. BPL /\ n + 1 \in 0 .. BPL
    BY PowFacts
  <2>2. P \in Nat \ {0} /\ Q <= W /\ BYTE \in Nat
    BY <2>1, PowFacts
  <2>3. Q = BYTE * P
    BY PowFacts
  <2> QED BY <2>2, <2>3, WType
<1> HIDE DEF P, Q
<1>2. v \in 0 .. Q - 1
  <2>1. l \in 0 .. P - 1
    BY DEF P
  <2>2. (P - 1 - l) * BYTE >= 0 /\ l * BYTE >= 0 /\ l * BYTE \in Int
    BY <1>1, <2>1
  <2>3. (P - 1 - l) * BYTE = Q - BYTE - l * BYTE /\ Q \in Int
    BY <1>1, <2>1
  <2> QED BY <1>1, <2>2, <2>3
<1>3. (t * P + l) * BYTE + d = t * Q + v
  <2>1. l \in Int
    BY <1>1 DEF P
  <2> QED BY <1>1, <2>1
<1>4. v % W = v
  <2> HIDE DEF v
  <2>1. v \in 0 .. W - 1 /\ v = 0 * W + v /\ v \in Int
    BY <1>1, <1>2
  <2> QED BY <1>1, <2>1, DivModUnique
<1> QED BY <1>2, <1>3, <1>4 DEF P, Q

(* The loaded bytes are the limbs above and the part of this one. *)
LoadedSoFar(f, v, n, m, l) == f[n * BPL + m] = Top(v, n) * Pow(m) + l

Loaded ==
  /\ pc = "load" => /\ limb \in 0 .. Pow(j) - 1
                    /\ \A f : Horner(f, in) => LoadedSoFar(f, mem[out], i, j, limb)
  /\ pc = "reduce" => \A f : Horner(f, in) => Val(mem[out]) % R = f[4 * BPL] % R
  /\ pc = "done" /\ op = "from_be" => Val(mem[out]) = Expected

LEMMA FromBeLoaded ==
  ASSUME IInv, NEW o \in Cells, NEW s \in Bytes, fr_from_be(o, s)
  PROVE  Loaded'
<1>1. pc' = "load" /\ limb' = 0 /\ i' = 0 /\ j' = 0 /\ mem' = mem /\ out' = o
  BY DEF fr_from_be, Call
<1>2. Pow(0) = 1 /\ 0 * BPL + 0 = 0
  BY PowFacts
<1>3. 0 \in 0 .. Pow(0) - 1
  BY <1>2
<1>4. ASSUME NEW f, Horner(f, in') PROVE LoadedSoFar(f, mem'[out'], 0, 0, 0)
  <2>1. f[0] = 0
    BY <1>4 DEF Horner
  <2>2. Top(mem'[out'], 0) = 0
    BY TopIs
  <2> QED BY <1>2, <2>1, <2>2 DEF LoadedSoFar
<1> QED BY <1>1, <1>3, <1>4 DEF Loaded

LEMMA Index ==
  ASSUME NEW n \in 0 .. 3, NEW m \in 0 .. BPL - 1
  PROVE  /\ n * BPL + m \in 0 .. 4 * BPL - 1
         /\ (n * BPL + m) \div BPL = n /\ (n * BPL + m) % BPL = m
<1> DEFINE k == n * BPL + m
<1>1. BPL \in Nat \ {0}
  BY PowFacts
<1>2. k \in 0 .. 4 * BPL - 1
  <2>1. (3 - n) * BPL >= 0 /\ n * BPL >= 0 /\ (3 - n) * BPL = 3 * BPL - n * BPL
    BY <1>1
  <2> QED BY <1>1, <2>1
<1>3. k \in Int /\ k = n * BPL + m
  BY <1>1
<1> HIDE DEF k
<1>4. k \div BPL = n /\ k % BPL = m
  BY <1>1, <1>3, DivModUnique
<1> QED BY <1>2, <1>4 DEF k

(* The byte read, within the limb or at its end. *)
LEMMA LoadNext ==
  ASSUME NEW s \in Bytes, NEW f, Horner(f, s), NEW v \in Limbs, NEW n \in 0 .. 3,
         NEW m \in 0 .. BPL - 1, NEW l \in 0 .. Pow(m) - 1, LoadedSoFar(f, v, n, m, l)
  PROVE  LET r == (l * BYTE + s[n * BPL + m]) % W
         IN  /\ r \in Word /\ r \in 0 .. Pow(m + 1) - 1
             /\ LoadedSoFar(f, v, n, m + 1, r)
<1> DEFINE k == n * BPL + m
           d == s[k]
           t == Top(v, n)
           r == l * BYTE + d
<1>1. k \in 0 .. 4 * BPL - 1 /\ n * BPL + (m + 1) = k + 1
  <2>1. k \in 0 .. 4 * BPL - 1
    BY Index
  <2>2. BPL \in Int /\ n * BPL \in Int
    BY PowFacts
  <2> QED BY <2>1, <2>2
<1>2. d \in 0 .. BYTE - 1
  BY <1>1, ByteType
<1>3. t \in Nat
  BY TopFacts, n \in 0 .. 4
<1>4. f[k + 1] = f[k] * BYTE + d
  BY <1>1 DEF Horner
<1>5. f[k] = t * Pow(m) + l
  BY DEF LoadedSoFar
<1> HIDE DEF k, d, t
<1>6. /\ r % W = r /\ r \in 0 .. Pow(m + 1) - 1
      /\ (t * Pow(m) + l) * BYTE + d = t * Pow(m + 1) + r
  BY <1>2, <1>3, OneMoreByte
<1>7. r \in Word
  <2>1. m + 1 \in 0 .. BPL
    BY PowFacts
  <2>2. Pow(m + 1) \in Nat /\ Pow(m + 1) <= W
    BY <2>1, PowFacts
  <2> HIDE DEF r
  <2> QED BY <1>6, <2>2, WType DEF Word
<1>8. f[n * BPL + (m + 1)] = t * Pow(m + 1) + r
  BY <1>1, <1>4, <1>5, <1>6
<1>9. LoadedSoFar(f, v, n, m + 1, r)
  BY <1>8 DEF LoadedSoFar, t
<1> QED BY <1>6, <1>7, <1>9 DEF d, k

(* A full limb is the next digit. *)
LEMMA LimbFull ==
  ASSUME NEW f, NEW v \in Limbs, NEW n \in 0 .. 3, NEW l \in Word, LoadedSoFar(f, v, n, BPL, l)
  PROVE  LET u == [v EXCEPT ![3 - n] = l]
         IN  /\ f[(n + 1) * BPL] = Top(u, n + 1)
             /\ LoadedSoFar(f, u, n + 1, 0, 0)
<1> DEFINE u == [v EXCEPT ![3 - n] = l]
           t == Top(v, n)
           T == Top(u, n + 1)
<1>1. u \in Limbs /\ u[3 - n] = l
  BY DEF Limbs, Limb
<1>2. Top(u, n) = t
  BY TopBelow
<1> HIDE DEF u
<1>3. T = t * W + l /\ T \in Nat
  <2>1. T = Top(u, n) * W + u[3 - n]
    BY <1>1, TopFacts
  <2>2. T \in Nat
    BY <1>1, TopFacts, n + 1 \in 0 .. 4
  <2> QED BY <1>1, <1>2, <2>1, <2>2
<1>4. f[n * BPL + BPL] = t * W + l
  BY PowFacts DEF LoadedSoFar
<1>5. (n + 1) * BPL = n * BPL + BPL /\ (n + 1) * BPL + 0 = n * BPL + BPL
  BY PowFacts
<1> HIDE DEF t
<1>6. f[(n + 1) * BPL] = T
  BY <1>3, <1>4, <1>5
<1> HIDE DEF T
<1>7. f[(n + 1) * BPL + 0] = T * 1 + 0
  BY <1>3, <1>4, <1>5
<1>8. LoadedSoFar(f, u, n + 1, 0, 0)
  BY <1>7, PowFacts DEF LoadedSoFar, T
<1> QED BY <1>6, <1>8 DEF u, T

LEMMA LoadByteLoaded == ASSUME IInv, Loaded, LoadByte PROVE Loaded'
<1> DEFINE r == (limb * BYTE + in[i * BPL + j]) % W
           v == mem[out]
<1>1. pc = "load" /\ i \in 0 .. 3 /\ j \in 0 .. BPL - 1
  BY DEF IInv, Loops, LoadByte, Limb
<1>2. in \in Bytes /\ v \in Limbs /\ out \in Cells /\ mem \in [Cells -> Limbs]
  BY DEF IInv, TypeOK
<1>3. limb \in 0 .. Pow(j) - 1
  BY <1>1 DEF Loaded
<1>4. ASSUME NEW f, Horner(f, in)
      PROVE  r \in Word /\ r \in 0 .. Pow(j + 1) - 1 /\ LoadedSoFar(f, v, i, j + 1, r)
  <2>1. LoadedSoFar(f, v, i, j, limb)
    BY <1>1, <1>4 DEF Loaded
  <2> HIDE DEF v
  <2> QED BY <1>1, <1>2, <1>3, <1>4, <2>1, LoadNext
<1>5. r \in Word /\ r \in 0 .. Pow(j + 1) - 1
  <2>1. \E f : Horner(f, in)
    BY <1>2, BigEndianFacts
  <2> HIDE DEF r
  <2> QED BY <1>4, <2>1
<1>6. /\ IF j < BPL - 1
         THEN /\ limb' = r /\ j' = j + 1
              /\ UNCHANGED <<mem, i>>
         ELSE /\ mem' = [mem EXCEPT ![out][3 - i] = r]
              /\ limb' = 0 /\ j' = 0 /\ i' = i + 1
      /\ pc' = IF i' = 4 THEN "reduce" ELSE pc
      /\ out' = out /\ in' = in
  BY DEF LoadByte, call
<1> HIDE DEF r
<1>7. CASE j < BPL - 1
  <2>1. limb' = r /\ j' = j + 1 /\ mem' = mem /\ i' = i /\ pc' = "load" /\ out' = out /\ in' = in
    <3>1. limb' = r /\ j' = j + 1 /\ mem' = mem /\ i' = i
      BY <1>6, <1>7
    <3> QED BY <1>1, <1>6, <3>1
  <2> QED BY <1>4, <1>5, <2>1 DEF Loaded
<1>8. CASE ~ (j < BPL - 1)
  <2> DEFINE u == [v EXCEPT ![3 - i] = r]
  <2>1. j + 1 = BPL
    BY <1>1, <1>8, PowFacts
  <2>2. mem' = [mem EXCEPT ![out][3 - i] = r] /\ limb' = 0 /\ j' = 0 /\ i' = i + 1
    BY <1>6, <1>8
  <2>3. mem'[out'] = u
    BY <1>2, <1>6, <2>2
  <2>4. u \in Limbs
    BY <1>2, <1>5 DEF Limbs
  <2>5. ASSUME NEW f, Horner(f, in)
        PROVE  f[(i + 1) * BPL] = Top(u, i + 1) /\ LoadedSoFar(f, u, i + 1, 0, 0)
    <3>1. LoadedSoFar(f, v, i, BPL, r)
      BY <1>4, <2>1, <2>5
    <3> HIDE DEF v
    <3> QED BY <1>1, <1>2, <1>5, <3>1, LimbFull
  <2> HIDE DEF u
  <2>6. CASE i + 1 = 4
    <3>1. pc' = "reduce"
      BY <1>6, <2>2, <2>6
    <3>2. Top(u, 4) = Val(u)
      BY <2>4, TopFacts
    <3>3. ASSUME NEW f, Horner(f, in) PROVE Val(u) % R = f[4 * BPL] % R
      BY <2>5, <2>6, <3>2, <3>3
    <3> QED BY <1>6, <2>3, <3>1, <3>3 DEF Loaded
  <2>7. CASE i + 1 # 4
    <3>1. pc' = "load"
      BY <1>1, <1>6, <2>2, <2>7
    <3>2. 0 \in 0 .. Pow(0) - 1
      BY PowFacts
    <3> QED BY <1>6, <2>2, <2>3, <2>5, <3>1, <3>2 DEF Loaded
  <2> QED BY <2>6, <2>7
<1> QED BY <1>7, <1>8

LEMMA ReduceLoaded == ASSUME IInv, Loaded, Loading, Reduce PROVE Loaded'
<1> DEFINE v == mem[out]
           n == Val(v)
<1>1. pc = "reduce" /\ op = "from_be"
  BY DEF Reduce, Loading
<1>2. in \in Bytes /\ v \in Limbs /\ out \in Cells /\ mem \in [Cells -> Limbs] /\ n \in Nat
  BY ValType DEF IInv, TypeOK
<1>3. \A f : Horner(f, in) => n % R = f[4 * BPL] % R
  BY <1>1 DEF Loaded
<1>4. out' = out /\ in' = in /\ op' = op
  BY DEF Reduce, call
<1>5. CASE cmp4(v, R_MOD) >= 0
  <2> DEFINE u == sub4(v, R_MOD)
  <2>1. mem' = [mem EXCEPT ![out] = u] /\ pc' = "reduce"
    BY <1>1, <1>5 DEF Reduce
  <2>2. mem'[out'] = u
    BY <1>2, <1>4, <2>1
  <2>3. Val(u) = n - R
    <3>1. Val(v) >= Val(R_MOD)
      <4> HIDE DEF v
      <4> QED BY <1>2, <1>5, RType, Cmp4Correct
    <3> HIDE DEF v
    <3> QED BY <1>2, <3>1, RType, Sub4Exact DEF R
  <2>4. Val(u) % R = n % R
    <3> HIDE DEF n, u
    <3> DEFINE k == Val(u)
    <3>1. R \in Nat \ {0} /\ k = n + (-1) * R /\ k \in Int /\ -1 \in Int
      BY <1>2, <2>3, RType
    <3> HIDE DEF k
    <3>2. \E e \in Int : k = n + e * R
      BY <3>1
    <3>3. n \in Int
      BY <1>2
    <3>4. k % R = n % R
      BY <3>1, <3>2, <3>3, ModShift, Zenon
    <3> QED BY <3>4 DEF k
  <2> HIDE DEF u, n
  <2> QED BY <1>3, <1>4, <2>1, <2>2, <2>4 DEF Loaded
<1>6. CASE ~ (cmp4(v, R_MOD) >= 0)
  <2>1. mem' = mem /\ pc' = "done"
    BY <1>6 DEF Reduce
  <2>2. n < R
    <3>1. ~ (Val(v) >= Val(R_MOD))
      <4> HIDE DEF v
      <4> QED BY <1>2, <1>6, RType, Cmp4Correct
    <3> QED BY <1>2, <3>1, RType DEF R
  <2>3. n % R = n
    <3> HIDE DEF n
    <3>1. n \in 0 .. R - 1 /\ n = 0 * R + n /\ R \in Nat \ {0} /\ n \in Int
      BY <1>2, <2>2, RType
    <3> QED BY <3>1, DivModUnique
  <2>4. PICK f : Horner(f, in) /\ BigEndian(in) = f[4 * BPL]
    BY <1>2, BigEndianFacts
  <2>5. Expected' = BigEndian(in) % R
    BY <1>1, <1>4 DEF Expected
  <2>6. n = Expected'
    <3> HIDE DEF n
    <3> QED BY <1>3, <2>3, <2>4, <2>5
  <2>7. Val(mem'[out']) = Expected'
    BY <1>4, <2>1, <2>6
  <2> QED BY <2>1, <2>7 DEF Loaded
<1> QED BY <1>5, <1>6

LEMMA LoadedSteps ==
  ASSUME IInv, Loaded, Loading, ProductInv, Next
  PROVE  Loaded'
<1>1. ASSUME NEW o \in Cells, NEW u \in Cells, NEW v \in Cells, NEW n \in Word,
             \/ fr_set_u64(o, n) \/ fr_pow5(o, u)
             \/ fr_add(o, u, v) \/ fr_sub(o, u, v) \/ fr_mul(o, u, v)
      PROVE  Loaded'
  <2>1. pc' \in {"rows", "done"} /\ op' \in {"set_u64", "add", "sub", "mul", "pow5"}
    BY <1>1 DEF fr_set_u64, fr_pow5, fr_add, fr_sub, fr_mul, Call, StartMul
  <2> QED BY <2>1 DEF Loaded
<1>2. ASSUME NEW o \in Cells, NEW bytes \in Bytes, fr_from_be(o, bytes) PROVE Loaded'
  BY <1>2, FromBeLoaded
<1>3. CASE LoadByte BY <1>3, LoadByteLoaded
<1>4. CASE Reduce   BY <1>4, ReduceLoaded
<1>5. CASE MulColumn \/ MulRow \/ DivStep \/ MulDone
  <2>1. pc \in {"rows", "divide"} /\ op' = op /\ pc' \in {"rows", "divide", "done"}
    BY <1>5 DEF MulColumn, MulRow, DivStep, MulDone, StartMul, call
  <2>2. op # "from_be"
    BY <2>1 DEF ProductInv, Operands
  <2> QED BY <2>1, <2>2 DEF Loaded
<1>6. 0 \in Word
  BY WType DEF Word
<1> QED BY <1>1, <1>2, <1>3, <1>4, <1>5, <1>6 DEF Next

-----------------------------------------------------------------------------
(* Every operation *)

Named == pc # "idle" => op # "none"

LEMMA NamedSteps == ASSUME Named, Next PROVE Named'
<1>1. ASSUME NEW o \in Cells, NEW u \in Cells, NEW v \in Cells, NEW n, NEW bytes,
             \/ fr_set_u64(o, n) \/ fr_from_be(o, bytes) \/ fr_pow5(o, u)
             \/ fr_add(o, u, v) \/ fr_sub(o, u, v) \/ fr_mul(o, u, v)
      PROVE  Named'
  BY <1>1 DEF fr_set_u64, fr_from_be, fr_pow5, fr_add, fr_sub, fr_mul, Call, Named
<1>2. CASE LoadByte \/ Reduce \/ MulColumn \/ MulRow \/ DivStep \/ MulDone
  <2>1. pc # "idle" /\ op' = op
    BY <1>2 DEF LoadByte, Reduce, MulColumn, MulRow, DivStep, MulDone, call
  <2> QED BY <2>1 DEF Named
<1> QED BY <1>1, <1>2 DEF Next

LoopInv == Frame /\ StraightCorrect /\ ProductInv /\ Loaded /\ Named

(* The loops of fr_mul, fr_pow5 and fr_from_be compute what they should.   *)
LEMMA LoopInvariance == Spec => []LoopInv
<1>1. Init => LoopInv
  BY DEF Init, LoopInv, Frame, StraightCorrect, Straight, ProductInv, Rows,
         RemainderOfUpperPart, Operands, Loading, ProductCorrect, Loaded, Named
<1>2. ASSUME IInv, LoopInv, [Next]_vars PROVE LoopInv'
  <2>1. CASE UNCHANGED vars
    <3>1. Frame' /\ StraightCorrect'
      BY <1>2, <2>1 DEF LoopInv, Frame, StraightCorrect, Straight, Expected, vars, call
    <3>2. ProductInv'
      BY <1>2, <2>1 DEF LoopInv, ProductInv, Rows, RemainderOfUpperPart, Operands, Loading,
                        ProductCorrect, Expected, vars, call, mul
    <3>3. Loaded' /\ Named'
      BY <1>2, <2>1 DEF LoopInv, Loaded, Named, Expected, vars, call
    <3> QED BY <3>1, <3>2, <3>3 DEF LoopInv
  <2>2. CASE Next
    <3>1. Frame /\ StraightCorrect /\ ProductInv /\ Loaded /\ Loading /\ Named
      BY <1>2 DEF LoopInv, ProductInv
    <3>2. Frame'
      BY <1>2, <2>2, <3>1, FrameSteps
    <3>3. StraightCorrect'
      BY <1>2, <2>2, <3>1, StraightSteps
    <3>4. ProductInv'
      BY <1>2, <2>2, <3>1, ProductSteps
    <3>5. Loaded'
      BY <1>2, <2>2, <3>1, LoadedSteps
    <3>6. Named'
      BY <2>2, <3>1, NamedSteps
    <3> QED BY <3>2, <3>3, <3>4, <3>5, <3>6 DEF LoopInv
  <2> QED BY <1>2, <2>1, <2>2
<1> QED BY <1>1, <1>2, FrInvariance, PTL DEF Spec

(* Every operation of fr.c, for every word size, modulus and operands, in  *)
(* cells that may coincide: the output is the canonical result and no      *)
(* other cell changes.                                                     *)
THEOREM FrResultCorrect == Spec => []ResultCorrect
<1>1. IInv /\ LoopInv => ResultCorrect
  <2> SUFFICES ASSUME IInv, LoopInv, pc = "done" PROVE ResultCorrect
    BY DEF ResultCorrect
  <2>1. op \in {"none", "set_u64", "from_be", "add", "sub", "mul", "pow5"}
    BY DEF IInv, TypeOK
  <2>2. op # "none"
    BY DEF LoopInv, Named
  <2>3. Val(mem[out]) = Expected
    BY <2>1, <2>2 DEF LoopInv, StraightCorrect, Straight, ProductInv, ProductCorrect, Loaded
  <2>4. \A c \in Cells \ {out} : mem[c] = old[c]
    BY DEF LoopInv, Frame
  <2> QED BY <2>3, <2>4 DEF ResultCorrect
<1> QED BY <1>1, FrInvariance, LoopInvariance, PTL

(* The long division of fr.c:126-139: at every bit the remainder is that   *)
(* of the bits above, for a product of any two operands.                   *)
THEOREM FrRemainder == Spec => []RemainderOfUpperPart
<1>1. LoopInv => RemainderOfUpperPart
  BY DEF LoopInv, ProductInv
<1> QED BY <1>1, LoopInvariance, PTL

-----------------------------------------------------------------------------
(* fr_to_be *)

LEMMA StoreType ==
  ASSUME NEW v \in Limbs
  PROVE  fr_to_be(v) \in Bytes
<1>1. ASSUME NEW k \in 0 .. 4 * BPL - 1
      PROVE  (v[3 - k \div BPL] \div BYTE^(BPL - 1 - (k % BPL))) % BYTE \in 0 .. BYTE - 1
  <2> DEFINE n == k \div BPL
             m == k % BPL
             u == Pow(BPL - 1 - m)
             w == v[3 - n]
  <2>1. n \in Int /\ m \in 0 .. BPL - 1 /\ k = n * BPL + m /\ BPL \in Nat \ {0}
    <3>1. BPL \in Nat \ {0} /\ k \in Int
      BY PowFacts
    <3> QED BY <3>1, DivMod
  <2> HIDE DEF n, m
  <2>2. n \in 0 .. 3
    <3>1. ~ (n - 3 >= 1)
      <4>1. (n - 3) * BPL = k - m - 3 * BPL
        BY <2>1
      <4>2. (n - 3) * BPL < BPL
        BY <2>1, <4>1
      <4> QED BY <2>1, <4>2, AtLeastOne
    <3>2. ~ (-n >= 1)
      <4>1. (-n) * BPL = m - k
        BY <2>1
      <4>2. (-n) * BPL < BPL
        BY <2>1, <4>1
      <4> QED BY <2>1, <4>2, AtLeastOne
    <3> QED BY <2>1, <3>1, <3>2
  <2>3. w \in Nat
    <3>1. 3 - n \in Limb
      BY <2>2 DEF Limb
    <3>2. w \in Word
      BY <3>1 DEF Limbs
    <3> QED BY <3>2, WType DEF Word
  <2>4. u \in Nat \ {0}
    <3>1. BPL - 1 - m \in 0 .. BPL
      BY <2>1
    <3> QED BY <3>1, PowFacts
  <2> HIDE DEF u, w
  <2>5. BYTE \in Nat \ {0}
    BY PowFacts
  <2>6. (w \div u) % BYTE \in 0 .. BYTE - 1
    BY <2>3, <2>4, <2>5, Divided
  <2> QED BY <2>6 DEF n, m, u, w, Pow
<1> QED BY <1>1 DEF fr_to_be, Bytes

LEMMA StoredByte ==
  ASSUME NEW v \in Limbs, NEW n \in 0 .. 3, NEW m \in 0 .. BPL - 1
  PROVE  fr_to_be(v)[n * BPL + m] = (v[3 - n] \div Pow(BPL - (m + 1))) % BYTE
<1> DEFINE k == n * BPL + m
<1>1. k \in 0 .. 4 * BPL - 1 /\ k \div BPL = n /\ k % BPL = m
  BY Index
<1>2. BPL - 1 - m = BPL - (m + 1)
  BY PowFacts
<1> HIDE DEF k
<1>3. fr_to_be(v)[k] = (v[3 - n] \div BYTE^(BPL - 1 - m)) % BYTE
  BY <1>1 DEF fr_to_be
<1> QED BY <1>2, <1>3 DEF k, Pow

(* The bytes of one limb, from the top. *)
LEMMA StoredLimb ==
  ASSUME NEW v \in Limbs, NEW f, Horner(f, fr_to_be(v)), NEW n \in 0 .. 3,
         f[n * BPL] = Top(v, n)
  PROVE  f[(n + 1) * BPL] = Top(v, n + 1)
<1> DEFINE w == v[3 - n]
           t == Top(v, n)
           A(m) == w \div Pow(BPL - m)
           S == {m \in 0 .. BPL : f[n * BPL + m] = t * Pow(m) + A(m)}
<1>0. BPL \in Nat \ {0} /\ BYTE \in Nat \ {0} /\ W \in Nat \ {0} /\ Pow(0) = 1 /\ Pow(BPL) = W
  BY PowFacts, WType
<1>1. w \in Nat /\ w \in 0 .. W - 1 /\ t \in Nat
  <2>1. 3 - n \in Limb /\ n \in 0 .. 4
    BY DEF Limb
  <2>2. w \in Word
    BY <2>1 DEF Limbs
  <2>3. t \in Nat
    BY <2>1, TopFacts
  <2> QED BY <2>2, <2>3, WType DEF Word
<1> HIDE DEF w, t
<1>2. 0 \in S
  <2>1. w \div W = 0
    <3>1. w = 0 * W + w
      BY <1>0, <1>1
    <3> QED BY <1>0, <1>1, <3>1, DivModUnique
  <2>2. BPL - 0 = BPL /\ n * BPL + 0 = n * BPL
    BY <1>0
  <2>3. A(0) = 0
    BY <1>0, <2>1, <2>2
  <2> HIDE DEF A
  <2>4. f[n * BPL + 0] = t * Pow(0) + A(0)
    BY <1>0, <1>1, <2>2, <2>3 DEF t
  <2> QED BY <1>0, <2>4
<1>3. ASSUME NEW m \in 0 .. BPL - 1, m \in S PROVE m + 1 \in S
  <2> DEFINE k == n * BPL + m
             u == Pow(BPL - (m + 1))
             P == Pow(m)
             Q == Pow(m + 1)
             a0 == w \div (BYTE * u)
             a1 == w \div u
             c == a1 % BYTE
  <2>1. /\ k \in 0 .. 4 * BPL - 1 /\ n * BPL + (m + 1) = k + 1
        /\ BPL - (m + 1) \in 0 .. BPL - 1 /\ BPL - (m + 1) \in 0 .. BPL
        /\ (BPL - (m + 1)) + 1 = BPL - m /\ m + 1 \in 0 .. BPL /\ m \in 0 .. BPL
    <3>1. k \in 0 .. 4 * BPL - 1
      BY Index
    <3>2. n * BPL \in Int
      BY <1>0
    <3> QED BY <1>0, <3>1, <3>2
  <2>2. u \in Nat \ {0} /\ Pow(BPL - m) = BYTE * u
    BY <2>1, PowFacts
  <2>3. P \in Nat /\ Q = BYTE * P
    BY <2>1, PowFacts
  <2>4. A(m) = a0 /\ A(m + 1) = a1
    BY <2>2
  <2>5. f[k] = t * P + a0
    BY <1>3, <2>4
  <2>6. f[k + 1] = f[k] * BYTE + c
    <3>1. fr_to_be(v)[k] = c
      BY StoredByte DEF w
    <3>2. f[k + 1] = f[k] * BYTE + fr_to_be(v)[k]
      BY <2>1 DEF Horner
    <3> QED BY <3>1, <3>2
  <2> HIDE DEF k, u, P, Q
  <2>7. a1 = BYTE * a0 + c /\ a1 \in Nat /\ c \in Int
    <3>1. a1 \in Nat /\ c \in 0 .. BYTE - 1 /\ a1 = BYTE * a0 + c
      BY <1>0, <1>1, <2>2, Divided
    <3> HIDE DEF a1, c, a0
    <3> QED BY <1>0, <3>1
  <2>8. a0 \in Nat
    <3>1. BYTE * u \in Nat \ {0}
      BY <1>0, <2>2
    <3> QED BY <1>0, <1>1, <3>1, Divided
  <2> HIDE DEF a0, a1, c
  <2>9. f[k + 1] = t * Q + a1
    <3>1. (t * P + a0) * BYTE + c = t * (BYTE * P) + (BYTE * a0 + c)
      BY <1>0, <1>1, <2>3, <2>7, <2>8
    <3> QED BY <2>3, <2>5, <2>6, <2>7, <3>1
  <2> HIDE DEF A
  <2>10. f[n * BPL + (m + 1)] = t * Pow(m + 1) + A(m + 1)
    BY <2>1, <2>4, <2>9 DEF Q
  <2> QED BY <2>1, <2>10
<1>4. BPL \in S
  <2>1. \A m \in 0 .. BPL : m \in S
    <3> HIDE DEF S
    <3> QED BY <1>0, <1>2, <1>3, UpTo
  <2> HIDE DEF S
  <2> QED BY <1>0, <2>1
<1>5. A(BPL) = w
  <2>1. BPL - BPL = 0
    BY <1>0
  <2>2. w \div 1 = w
    BY <1>1, DivModUnique, w = w * 1 + 0, 0 \in 0 .. 1 - 1, 1 \in Nat \ {0}
  <2> QED BY <1>0, <2>1, <2>2
<1> HIDE DEF A
<1>6. f[n * BPL + BPL] = t * W + w
  BY <1>0, <1>4, <1>5
<1>7. (n + 1) * BPL = n * BPL + BPL
  BY <1>0
<1>8. Top(v, n + 1) = t * W + w
  BY TopFacts DEF t, w
<1> QED BY <1>6, <1>7, <1>8

LEMMA StoredValue ==
  ASSUME NEW v \in Limbs
  PROVE  BigEndian(fr_to_be(v)) = Val(v)
<1> DEFINE s == fr_to_be(v)
<1>1. s \in Bytes
  BY StoreType
<1>2. PICK f : Horner(f, s) /\ BigEndian(s) = f[4 * BPL]
  <2> HIDE DEF s
  <2> QED BY <1>1, BigEndianFacts
<1>3. f[0 * BPL] = Top(v, 0)
  <2>1. 0 * BPL = 0
    BY PowFacts
  <2> QED BY <1>2, <2>1, TopIs DEF Horner
<1>4. ASSUME NEW n \in 0 .. 3, f[n * BPL] = Top(v, n) PROVE f[(n + 1) * BPL] = Top(v, n + 1)
  BY <1>2, <1>4, StoredLimb
<1>5. f[4 * BPL] = Top(v, 4)
  <2>1. f[1 * BPL] = Top(v, 1)
    BY <1>3, <1>4, 0 + 1 = 1
  <2>2. f[2 * BPL] = Top(v, 2)
    BY <1>4, <2>1, 1 + 1 = 2
  <2>3. f[3 * BPL] = Top(v, 3)
    BY <1>4, <2>2, 2 + 1 = 3
  <2> QED BY <1>4, <2>3, 3 + 1 = 4
<1> QED BY <1>2, <1>5, TopFacts

(* fr_to_be and fr_from_be: what is stored is what would be loaded, for    *)
(* every word size and every element.                                      *)
THEOREM FrStoreLoads == Spec => []StoreLoads
<1>1. TypeOK => StoreLoads
  <2> SUFFICES ASSUME TypeOK PROVE BigEndian(fr_to_be(mem[out])) = Val(mem[out])
    BY DEF StoreLoads
  <2>1. mem[out] \in Limbs
    BY DEF TypeOK
  <2> QED BY <2>1, StoredValue
<1> QED BY <1>1, FrTypes, PTL
=============================================================================
