---------------------------- MODULE RelicProofs ----------------------------
(***************************************************************************)
(* Theorems about the device's pairing library, for every field and curve  *)
(* the assumptions allow: what the prime field and its towers compute,     *)
(* that every value stays in the width the code stores it in, and that the *)
(* Miller loop of Pairing is exact at every step.                          *)
(***************************************************************************)
EXTENDS Pairing, WellFoundedInduction, TLAPS

LEMMA DivMod ==
  ASSUME NEW v \in Int, NEW w \in Nat \ {0}
  PROVE  v \div w \in Int /\ v % w \in 0 .. w - 1 /\ v = (v \div w) * w + (v % w)
OBVIOUS

LEMMA NoMultipleBetween ==
  ASSUME NEW d \in Int, NEW w \in Nat \ {0}, d >= 1
  PROVE  d * w >= w
<1>1. (d - 1) * w >= 0
  OBVIOUS
<1>2. (d - 1) * w = d * w - w
  OBVIOUS
<1> QED BY <1>1, <1>2

LEMMA NatLeast ==
  ASSUME NEW T, T \subseteq Nat, T # {}
  PROVE  \E m \in T : \A l \in T : ~ (l < m)
<1>1. IsWellFoundedOn(OpToRel(<, Nat), Nat)
  BY NatLessThanWellFounded, Zenon
<1>2. \E m \in T : \A l \in T : <<l, m>> \notin OpToRel(<, Nat)
  BY <1>1, WFMin, Zenon
<1>3. PICK m \in T : \A l \in T : <<l, m>> \notin OpToRel(<, Nat)
  BY <1>2, Zenon
<1>4. ASSUME NEW l \in T, l < m PROVE FALSE
  <2>1. l \in Nat /\ m \in Nat
    OBVIOUS
  <2>2. <<l, m>> \in OpToRel(<, Nat)
    BY <1>4, <2>1, Zenon DEF OpToRel
  <2> QED BY <1>3, <2>2, Zenon
<1> QED BY <1>4, Zenon

LEMMA UpTo ==
  ASSUME NEW c \in Nat, NEW S, 0 \in S, \A k \in 0 .. c - 1 : k \in S => k + 1 \in S
  PROVE  \A k \in 0 .. c : k \in S
<1> DEFINE T == (0 .. c) \ S
<1>1. SUFFICES ASSUME T # {} PROVE FALSE
  OBVIOUS
<1>2. PICK m \in T : \A l \in T : ~ (l < m)
  <2>1. T \subseteq Nat
    OBVIOUS
  <2> HIDE DEF T
  <2> QED BY <1>1, <2>1, NatLeast, Zenon
<1>3. m - 1 \in 0 .. c - 1 /\ m - 1 \notin T
  BY <1>2
<1> QED BY <1>3


-----------------------------------------------------------------------------
(* Recursive functions.  A function may call itself at one argument, which *)
(* must be smaller: this is the most the field arithmetic does.            *)

Solves(f, M, Base, E, s, H) ==
  f = [x \in M |-> IF x \in Base THEN E[x] ELSE H[<<x, f[s[x]]>>]]

LEMMA RecursionExists ==
  ASSUME NEW M, NEW D, NEW mu \in [M -> Nat], NEW Base \in SUBSET M,
         NEW E \in [Base -> D], NEW s \in [M -> M], NEW H \in [M \X D -> D],
         \A x \in M \ Base : mu[s[x]] < mu[x]
  PROVE  \E f \in [M -> D] : Solves(f, M, Base, E, s, H)
<1> DEFINE Part(h)     == {x \in M : mu[x] <= h}
           Eq(f, x)    == IF x \in Base THEN E[x] ELSE H[<<x, f[s[x]]>>]
           Good(f, h)  == f \in [Part(h) -> D] /\ \A x \in Part(h) : f[x] = Eq(f, x)
<1>1. ASSUME NEW h \in Nat, NEW f, Good(f, h), NEW x \in Part(h + 1)
      PROVE  Eq(f, x) \in D
  <2>1. CASE x \in Base
    BY <2>1
  <2>2. CASE x \notin Base
    <3>1. x \in M /\ s[x] \in M /\ mu[x] \in Nat /\ mu[s[x]] \in Nat
      OBVIOUS
    <3>2. mu[s[x]] < mu[x] /\ mu[x] <= h + 1
      BY <2>2
    <3>3. s[x] \in Part(h)
      BY <3>1, <3>2
    <3>4. <<x, f[s[x]]>> \in M \X D
      BY <1>1, <3>1, <3>3
    <3> QED BY <2>2, <3>4
  <2> QED BY <2>1, <2>2
<1>2. \A h \in Nat : \E f : Good(f, h)
  <2> SUFFICES ASSUME NEW h0 \in Nat PROVE \E f : Good(f, h0)
    OBVIOUS
  <2> DEFINE S == {h \in 0 .. h0 : \E f : Good(f, h)}
  <2>1. 0 \in S
    <3> DEFINE g == [x \in Part(0) |-> E[x]]
    <3>1. ASSUME NEW x \in Part(0) PROVE x \in Base
      <4> SUFFICES ASSUME x \notin Base PROVE FALSE
        OBVIOUS
      <4>1. x \in M /\ s[x] \in M /\ mu[x] \in Nat /\ mu[s[x]] \in Nat /\ mu[x] <= 0
        OBVIOUS
      <4>2. mu[s[x]] < mu[x]
        BY <4>1
      <4> QED BY <4>1, <4>2
    <3>2. g \in [Part(0) -> D] /\ \A x \in Part(0) : g[x] = Eq(g, x)
      BY <3>1
    <3> HIDE DEF g, Part, Eq
    <3>3. \E f : Good(f, 0)
      BY <3>2
    <3> HIDE DEF Good
    <3> QED BY <3>3
  <2>2. ASSUME NEW h \in 0 .. h0 - 1, h \in S PROVE h + 1 \in S
    <3>0. h \in Nat /\ h + 1 \in 0 .. h0
      OBVIOUS
    <3>1. PICK f : Good(f, h)
      BY <2>2
    <3> DEFINE g == [x \in Part(h + 1) |-> Eq(f, x)]
    <3>2. g \in [Part(h + 1) -> D]
      <4> HIDE DEF Part, Eq, Good
      <4> QED BY <1>1, <3>0, <3>1
    <3>3. ASSUME NEW x \in Part(h + 1) PROVE g[x] = Eq(g, x)
      <4>1. g[x] = Eq(f, x)
        <5> HIDE DEF Eq, Part
        <5> QED OBVIOUS
      <4>2. CASE x \in Base
        BY <4>1, <4>2
      <4>3. CASE x \notin Base
        <5>1. x \in M /\ s[x] \in M /\ mu[x] \in Nat /\ mu[s[x]] \in Nat
          OBVIOUS
        <5>2. mu[s[x]] < mu[x] /\ mu[x] <= h + 1
          BY <4>3
        <5>3. s[x] \in Part(h) /\ s[x] \in Part(h + 1)
          BY <3>0, <5>1, <5>2
        <5>4. g[s[x]] = Eq(f, s[x]) /\ f[s[x]] = Eq(f, s[x])
          <6> HIDE DEF Eq, Part
          <6> QED BY <5>3, <3>1
        <5>5. g[s[x]] = f[s[x]]
          BY <5>4, Zenon
        <5> HIDE DEF g
        <5> QED BY <4>1, <4>3, <5>5
      <4> QED BY <4>2, <4>3
    <3> HIDE DEF g, Part, Eq
    <3>4. \E f1 : Good(f1, h + 1)
      BY <3>2, <3>3
    <3> HIDE DEF Good
    <3> QED BY <3>0, <3>4
  <2>3. h0 \in S
    <3> HIDE DEF S
    <3>1. \A h \in 0 .. h0 : h \in S
      BY <2>1, <2>2, UpTo
    <3> QED BY <3>1
  <2> HIDE DEF Good
  <2> QED BY <2>3
<1>3. ASSUME NEW f, NEW g, NEW h \in Nat, NEW h1 \in Nat, Good(f, h), Good(g, h1),
             NEW x \in Part(h), x \in Part(h1)
      PROVE  f[x] = g[x]
  <2> DEFINE Bad == {l \in Nat : \E y \in M : /\ y \in Part(h) /\ y \in Part(h1)
                                             /\ f[y] # g[y] /\ mu[y] = l}
  <2> SUFFICES ASSUME f[x] # g[x] PROVE FALSE
    OBVIOUS
  <2>1. mu[x] \in Bad
    <3>1. x \in M /\ mu[x] \in Nat /\ mu[x] = mu[x]
      OBVIOUS
    <3> HIDE DEF Part
    <3> QED BY <1>3, <3>1, Zenon
  <2>2. PICK l \in Bad : \A o \in Bad : ~ (o < l)
    <3>1. Bad \subseteq Nat /\ Bad # {}
      BY <2>1
    <3> HIDE DEF Bad
    <3> QED BY <3>1, NatLeast, Zenon
  <2>3. PICK y \in M : y \in Part(h) /\ y \in Part(h1) /\ f[y] # g[y] /\ mu[y] = l
    BY <2>2
  <2>4. f[y] = Eq(f, y) /\ g[y] = Eq(g, y)
    <3> HIDE DEF Eq, Part
    <3> QED BY <1>3, <2>3
  <2>5. y \notin Base
    BY <2>3, <2>4
  <2>6. mu[s[y]] < l /\ s[y] \in M /\ mu[s[y]] \in Nat /\ l \in Nat /\ l <= h /\ l <= h1
    BY <2>3, <2>5
  <2>7. s[y] \in Part(h) /\ s[y] \in Part(h1)
    BY <2>6
  <2>8. mu[s[y]] \notin Bad
    <3> HIDE DEF Bad
    <3> QED BY <2>2, <2>6
  <2>9. f[s[y]] = g[s[y]]
    BY <2>6, <2>7, <2>8
  <2> QED BY <2>3, <2>4, <2>5, <2>9
<1> DEFINE G(h) == CHOOSE f : Good(f, h)
           F == [x \in M |-> G(mu[x])[x]]
<1>4. ASSUME NEW h \in Nat PROVE Good(G(h), h)
  <2> HIDE DEF Good
  <2> QED BY <1>2
<1>5. ASSUME NEW x \in M
      PROVE  mu[x] \in Nat /\ x \in Part(mu[x]) /\ Good(G(mu[x]), mu[x]) /\ F[x] = G(mu[x])[x]
  <2>1. mu[x] \in Nat /\ x \in Part(mu[x])
    OBVIOUS
  <2> HIDE DEF Good, G
  <2> QED BY <2>1, <1>4
<1> HIDE DEF G, F
<1>6. ASSUME NEW x \in M PROVE F[x] \in D /\ F[x] = Eq(F, x)
  <2>1. F[x] \in D /\ F[x] = Eq(G(mu[x]), x)
    <3> HIDE DEF Part, Eq
    <3> QED BY <1>5
  <2>2. CASE x \in Base
    BY <2>1, <2>2
  <2>3. CASE x \notin Base
    <3>1. /\ s[x] \in M /\ mu[s[x]] \in Nat /\ mu[s[x]] < mu[x] /\ mu[x] \in Nat
      BY <2>3
    <3>2. s[x] \in Part(mu[x]) /\ s[x] \in Part(mu[s[x]])
      BY <3>1
    <3>3. Good(G(mu[x]), mu[x]) /\ Good(G(mu[s[x]]), mu[s[x]]) /\ F[s[x]] = G(mu[s[x]])[s[x]]
      BY <1>5, <3>1
    <3>4. F[s[x]] = G(mu[x])[s[x]]
      <4> HIDE DEF Part, Good
      <4> QED BY <1>3, <3>1, <3>2, <3>3
    <3> QED BY <2>1, <2>3, <3>4
  <2> QED BY <2>2, <2>3
<1>7. F = [x \in M |-> F[x]]
  BY DEF F
<1>8. F \in [M -> D]
  BY <1>6, <1>7
<1>9. F = [x \in M |-> Eq(F, x)]
  <2> HIDE DEF Eq
  <2> QED BY <1>6, <1>7
<1> QED BY <1>8, <1>9 DEF Solves

(* The loops: from 0 up to a bound. *)
LoopOf(f, N, base, H) ==
  f = [k \in 0 .. N |-> IF k = 0 THEN base ELSE H[<<k, f[k - 1]>>]]

LEMMA LoopExists ==
  ASSUME NEW N \in Nat, NEW D, NEW base \in D, NEW H \in [(1 .. N) \X D -> D]
  PROVE  \E f \in [0 .. N -> D] : LoopOf(f, N, base, H)
<1> DEFINE M  == 0 .. N
           mu == [k \in M |-> k]
           E  == [k \in {0} |-> base]
           s  == [k \in M |-> IF k = 0 THEN 0 ELSE k - 1]
           J  == [w \in M \X D |-> IF w[1] = 0 THEN base ELSE H[w]]
<1>1. mu \in [M -> Nat] /\ E \in [{0} -> D] /\ s \in [M -> M] /\ {0} \in SUBSET M
  OBVIOUS
<1>2. J \in [M \X D -> D]
  <2> SUFFICES ASSUME NEW w \in M \X D PROVE (IF w[1] = 0 THEN base ELSE H[w]) \in D
    BY Zenon
  <2>1. CASE w[1] = 0
    BY <2>1
  <2>2. CASE w[1] # 0
    <3>1. w[1] \in 1 .. N /\ w[2] \in D /\ w = <<w[1], w[2]>>
      BY <2>2
    <3>2. w \in (1 .. N) \X D
      BY <3>1
    <3> QED BY <2>2, <3>2
  <2> QED BY <2>1, <2>2
<1>3. \A x \in M \ {0} : mu[s[x]] < mu[x]
  OBVIOUS
<1> HIDE DEF mu, E, s, J
<1>4. PICK f \in [M -> D] : Solves(f, M, {0}, E, s, J)
  <2> HIDE DEF M
  <2> QED BY <1>1, <1>2, <1>3, RecursionExists, Zenon
<1>5. \A k \in M : f[k] = IF k = 0 THEN base ELSE H[<<k, f[k - 1]>>]
  <2> SUFFICES ASSUME NEW k \in M PROVE f[k] = IF k = 0 THEN base ELSE H[<<k, f[k - 1]>>]
    OBVIOUS
  <2>1. f[k] = IF k \in {0} THEN E[k] ELSE J[<<k, f[s[k]]>>]
    BY <1>4 DEF Solves
  <2>2. CASE k = 0
    BY <2>1, <2>2 DEF E
  <2>3. CASE k # 0
    <3>1. s[k] = k - 1 /\ k - 1 \in M
      BY <2>3 DEF s
    <3>2. <<k, f[k - 1]>> \in M \X D
      BY <3>1
    <3>3. J[<<k, f[k - 1]>>] = H[<<k, f[k - 1]>>]
      BY <2>3, <3>2 DEF J
    <3> QED BY <2>1, <2>3, <3>1, <3>3
  <2> QED BY <2>2, <2>3
<1> QED BY <1>5 DEF LoopOf

-----------------------------------------------------------------------------
(* The arithmetic of RELIC that decoding and pairing rest on.  The prime   *)
(* field computes modulo P, and its results are canonical, for every odd   *)
(* prime and every capacity with the room RLC_FP_ROOM speaks of.           *)
(* Montgomery reduction is the heart of it: what it returns, times R, is   *)
(* what it was given, and one subtraction makes it canonical as long as    *)
(* the argument is below P * R + P (RdcnCorrect).                          *)
(* Then multiplication in fp2 with lazy reduction: sums of coefficients    *)
(* are multiplied unreduced, products are subtracted in double precision,  *)
(* and each coefficient is reduced once.  Nothing wraps on the way, and    *)
(* what is reduced is within reach of one reduction.                       *)

LEMMA Sizes == P \in Nat /\ R \in Nat /\ P \in Nat \ {0} /\ R \in Nat \ {0} /\ P > 2 /\ 4 * P < R
BY LazyFpAssumption, RoomAssumption

LEMMA Remainder ==
  ASSUME NEW v \in Int, NEW q \in Int, NEW w \in Nat \ {0},
         NEW m \in 0 .. w - 1, v = q * w + m
  PROVE  v % w = m /\ v \div w = q
<1> DEFINE e == v \div w
           c == v % w
<1>1. e \in Int /\ c \in 0 .. w - 1 /\ v = e * w + c
  BY DivMod
<1> HIDE DEF e, c
<1>2. (e - q) * w = m - c /\ (q - e) * w = c - m
  BY <1>1
<1>3. ~ (e - q >= 1)
  BY <1>1, <1>2, NoMultipleBetween
<1>4. ~ (q - e >= 1)
  BY <1>1, <1>2, NoMultipleBetween
<1>5. e = q
  BY <1>1, <1>3, <1>4
<1>6. c = m
  BY <1>1, <1>2, <1>5
<1> QED BY <1>5, <1>6 DEF e, c

(* Numbers that differ by a multiple of P have the same remainder. *)
LEMMA MultipleAdded ==
  ASSUME NEW v \in Int, NEW k \in Int
  PROVE  (v + k * P) % P = v % P
<1>1. v \div P \in Int /\ v % P \in 0 .. P - 1 /\ v = (v \div P) * P + (v % P)
  BY Sizes, DivMod
<1>2. v + k * P = (v \div P + k) * P + (v % P)
  <2> DEFINE e == v \div P  m == v % P
  <2>1. e \in Int /\ m \in Int /\ P \in Int /\ v = e * P + m
    BY <1>1, Sizes
  <2> HIDE DEF e, m
  <2>2. v + k * P = (e + k) * P + m
    BY <2>1
  <2> QED BY <2>2 DEF e, m
<1>3. v \div P + k \in Int /\ v + k * P \in Int
  BY <1>1, Sizes
<1> DEFINE x == v + k * P  q == v \div P + k  m == v % P
<1>4. x \in Int /\ q \in Int /\ m \in 0 .. P - 1 /\ x = q * P + m /\ P \in Nat \ {0}
  BY <1>1, <1>2, <1>3, Sizes
<1> HIDE DEF x, q, m
<1>5. x % P = m
  BY <1>4, Remainder
<1> QED BY <1>5 DEF x, m

LEMMA Small == ASSUME NEW v \in Fp PROVE v % P = v
<1>1. v \in Int /\ v \in 0 .. P - 1 /\ v = 0 * P + v
  BY Sizes DEF Fp
<1> QED BY <1>1, Sizes, Remainder

LEMMA SmallR == ASSUME NEW v \in 0 .. R - 1 PROVE v % R = v
<1>1. v \in Int /\ v = 0 * R + v
  BY Sizes
<1> QED BY <1>1, Sizes, Remainder

-----------------------------------------------------------------------------
(* Single precision. *)

LEMMA FpInt == ASSUME NEW a \in Fp PROVE a \in Int /\ 0 <= a /\ a < P
BY Sizes DEF Fp

(* fp_addm_low is addition modulo the prime: the sum of two elements fits  *)
(* the digits, and one conditional subtraction is enough.                  *)
THEOREM AddmCorrect ==
  ASSUME NEW a \in Fp, NEW b \in Fp
  PROVE  fp_addm_low(a, b) \in Fp /\ fp_addm_low(a, b) = (a + b) % P
<1>1. a \in Int /\ b \in Int /\ 0 <= a /\ a < P /\ 0 <= b /\ b < P
  BY FpInt
<1>2. CASE a + b < P
  <2>1. fp_addm_low(a, b) = a + b /\ a + b \in Fp
    BY <1>1, <1>2, Sizes DEF fp_addm_low, Fp
  <2> QED BY <2>1, Small
<1>3. CASE a + b >= P
  <2>1. a + b - P \in Fp /\ a + b - P \in 0 .. R - 1
    BY <1>1, <1>3, Sizes DEF Fp
  <2>2. fp_addm_low(a, b) = a + b - P
    BY <1>3, <2>1, SmallR DEF fp_addm_low
  <2>3. ((a + b - P) + 1 * P) % P = a + b - P
    <3>1. a + b - P \in Int /\ 1 \in Int
      BY <1>1, Sizes
    <3>2. ((a + b - P) + 1 * P) % P = (a + b - P) % P
      BY <3>1, MultipleAdded
    <3> QED BY <2>1, <3>2, Small
  <2>4. (a + b - P) + 1 * P = a + b
    BY <1>1, Sizes
  <2> QED BY <2>1, <2>2, <2>3, <2>4
<1> QED BY <1>1, <1>2, <1>3, Sizes

(* fp_subm_low is subtraction modulo the prime: a borrow is answered by    *)
(* one addition of the prime, which takes the wrapped difference back.     *)
THEOREM SubmCorrect ==
  ASSUME NEW a \in Fp, NEW b \in Fp
  PROVE  fp_subm_low(a, b) \in Fp /\ fp_subm_low(a, b) = (a - b) % P
<1>1. a \in Int /\ b \in Int /\ 0 <= a /\ a < P /\ 0 <= b /\ b < P
  BY FpInt
<1>2. CASE a >= b
  <2>1. fp_subm_low(a, b) = a - b /\ a - b \in Fp
    BY <1>1, <1>2, Sizes DEF fp_subm_low, Fp
  <2> QED BY <2>1, Small
<1>3. CASE a < b
  <2>1. a - b + P \in Fp /\ a - b + P \in 0 .. R - 1
    BY <1>1, <1>3, Sizes DEF Fp
  <2>2. fp_subm_low(a, b) = a - b + P
    BY <1>3, <2>1, SmallR DEF fp_subm_low
  <2>3. ((a - b) + 1 * P) % P = (a - b) % P
    BY <1>1, MultipleAdded
  <2>4. (a - b) + 1 * P = a - b + P
    BY <1>1, Sizes
  <2>5. (a - b + P) % P = a - b + P
    BY <2>1, Small
  <2> QED BY <2>1, <2>2, <2>3, <2>4, <2>5
<1> QED BY <1>1, <1>2, <1>3

(* fp_negm_low is negation modulo the prime, zero included.                *)
THEOREM NegmCorrect ==
  ASSUME NEW a \in Fp
  PROVE  fp_negm_low(a) \in Fp /\ fp_negm_low(a) = (0 - a) % P
<1>1. a \in Int /\ 0 <= a /\ a < P
  BY FpInt
<1>2. CASE a = 0
  <2>1. fp_negm_low(a) = 0
    BY <1>2 DEF fp_negm_low
  <2>2. 0 \in Fp
    BY Sizes DEF Fp
  <2>3. 0 - a = 0
    BY <1>1, <1>2
  <2> QED BY <2>1, <2>2, <2>3, Small
<1>3. CASE a # 0
  <2>1. P - a \in Fp /\ P - a \in 0 .. R - 1
    BY <1>1, <1>3, Sizes DEF Fp
  <2>2. fp_negm_low(a) = P - a
    BY <1>3, <2>1, SmallR DEF fp_negm_low
  <2>3. ((0 - a) + 1 * P) % P = (0 - a) % P
    <3>1. 0 - a \in Int /\ 1 \in Int
      BY <1>1
    <3> QED BY <3>1, MultipleAdded
  <2>5. (0 - a) + 1 * P = P - a
    BY <1>1, Sizes
  <2>4. (P - a) % P = P - a
    BY <2>1, Small
  <2> QED BY <2>1, <2>2, <2>3, <2>4, <2>5
<1> QED BY <1>2, <1>3

-----------------------------------------------------------------------------
(* Montgomery reduction. *)

LEMMA MontyUFact == MontyU \in 0 .. R - 1 /\ (MontyU * P) % R = R - 1
BY MontyAssumption DEF MontyU

(* The sum that reduction divides is a multiple of R. *)
LEMMA LowHalfClear ==
  ASSUME NEW d \in Nat
  PROVE  /\ MontyM(d) \in 0 .. R - 1
         /\ (d + MontyM(d) * P) \div R \in Int
         /\ ((d + MontyM(d) * P) \div R) * R = d + MontyM(d) * P
<1> DEFINE h == d \div R  l == d % R  m == MontyM(d)
           j == (l * MontyU) \div R  k == (MontyU * P) \div R
<1>1. h \in Int /\ l \in Int /\ d = h * R + l
  BY Sizes, DivMod
<1>2. MontyU \in Int /\ P \in Int /\ R \in Int /\ MontyU * P \in Int
  BY MontyUFact, Sizes
<1>3. l * MontyU \in Int
  BY <1>1, <1>2
<1>4. j \in Int /\ m \in 0 .. R - 1 /\ l * MontyU = j * R + m
  BY <1>3, Sizes, DivMod DEF MontyM
<1>5. k \in Int /\ MontyU * P = k * R + (R - 1)
  BY <1>2, MontyUFact, Sizes, DivMod
<1> DEFINE u == MontyU
           q == h + l * (k + 1) - j * P
<1>6. u \in Int /\ u * P = k * R + (R - 1) /\ l * u = j * R + m /\ m \in Int
  BY <1>2, <1>4, <1>5, Sizes
<1> HIDE DEF h, l, m, j, k, u
<1>7. (l * u) * P = (j * R + m) * P
  BY <1>6
<1>8. (l * u) * P = l * (k * R + (R - 1))
  <2>1. (l * u) * P = l * (u * P)
    BY <1>1, <1>2, <1>6
  <2> QED BY <2>1, <1>6
<1>9. (j * R + m) * P = j * R * P + m * P
  BY <1>2, <1>4, <1>6
<1>10. l * (k * R + (R - 1)) = l * (k + 1) * R - l
  BY <1>1, <1>2, <1>5
<1>11. m * P = l * (k + 1) * R - l - j * R * P
  BY <1>1, <1>2, <1>4, <1>5, <1>6, <1>7, <1>8, <1>9, <1>10
<1>12. d + m * P = h * R + l * (k + 1) * R - j * R * P
  BY <1>1, <1>2, <1>4, <1>5, <1>6, <1>11
<1>13. q \in Int
  BY <1>1, <1>2, <1>4, <1>5
<1>14. q * R = h * R + l * (k + 1) * R - j * R * P
  BY <1>1, <1>2, <1>4, <1>5
<1> HIDE DEF q
<1>15. d + m * P \in Int /\ 0 \in 0 .. R - 1 /\ d + m * P = q * R + 0
  BY <1>2, <1>6, <1>12, <1>13, <1>14, Sizes
<1>16. (d + m * P) \div R = q
  BY <1>13, <1>15, Sizes, Remainder
<1>17. m \in 0 .. R - 1 /\ (d + m * P) \div R \in Int /\ ((d + m * P) \div R) * R = d + m * P
  BY <1>4, <1>13, <1>15, <1>16, Sizes
<1> QED BY <1>17 DEF m

(* What a reduction can be given: the result is canonical, and stands for  *)
(* the argument divided by R.                                              *)
THEOREM RdcnCorrect ==
  ASSUME NEW d \in 0 .. P * R + P - 1
  PROVE  fp_rdcn_low(d) \in Fp /\ (fp_rdcn_low(d) * R) % P = d % P
<1> DEFINE m == MontyM(d)
           q == (d + m * P) \div R
<1>0. P * R \in Int /\ d \in Int /\ 0 <= d /\ d < P * R + P /\ d \in Nat
  BY Sizes
<1>1. m \in 0 .. R - 1 /\ q \in Int /\ q * R = d + m * P
  BY <1>0, LowHalfClear
<1>2. fp_rdcn_low(d) = IF q >= P THEN (q - P) % R ELSE q
  BY DEF fp_rdcn_low
<1> HIDE DEF m, q
<1>3. m \in Int /\ 0 <= m /\ m <= R - 1
  BY <1>1, Sizes
<1>4. 0 <= m * P /\ m * P <= R * P - P
  <2>1. 0 <= m * P
    BY <1>3, Sizes
  <2>2. 0 <= (R - 1 - m) * P
    BY <1>3, Sizes
  <2>3. (R - 1 - m) * P = R * P - P - m * P
    BY <1>3, Sizes
  <2> QED BY <2>1, <2>2, <2>3, <1>3, Sizes
<1>5. 0 <= q * R /\ q * R < 2 * P * R
  BY <1>0, <1>1, <1>3, <1>4, Sizes
<1>6. 0 <= q
  <2>1. ~ (- q >= 1)
    <3> SUFFICES ASSUME - q >= 1 PROVE FALSE
      OBVIOUS
    <3>1. (- q) * R >= R
      BY <1>1, Sizes, NoMultipleBetween
    <3>2. (- q) * R = - (q * R)
      BY <1>1, Sizes
    <3> QED BY <3>1, <3>2, <1>1, <1>5, Sizes
  <2> QED BY <2>1, <1>1
<1>7. q < 2 * P
  <2> SUFFICES ASSUME q >= 2 * P PROVE FALSE
    BY <1>1, Sizes
  <2>1. (q - 2 * P) * R >= 0
    BY <1>1, Sizes
  <2>2. (q - 2 * P) * R = q * R - 2 * P * R
    BY <1>1, Sizes
  <2> QED BY <2>1, <2>2, <1>1, <1>5, Sizes
<1>8. CASE q < P
  <2>1. fp_rdcn_low(d) = q /\ q \in Fp
    BY <1>1, <1>2, <1>6, <1>8, Sizes DEF Fp
  <2>2. (q * R) % P = d % P
    BY <1>0, <1>1, <1>3, MultipleAdded
  <2> QED BY <2>1, <2>2
<1>9. CASE q >= P
  <2>1. q - P \in Fp /\ q - P \in 0 .. R - 1
    BY <1>1, <1>7, <1>9, Sizes DEF Fp
  <2>2. fp_rdcn_low(d) = q - P
    BY <1>2, <1>9, <2>1, SmallR
  <2>3. (q - P) * R = d + (m - R) * P
    <3>1. (q - P) * R = q * R - P * R
      BY <1>1, Sizes
    <3>2. (m - R) * P = m * P - P * R
      BY <1>3, Sizes
    <3>3. m * P \in Int /\ P * R \in Int
      BY <1>3, Sizes
    <3> QED BY <3>1, <3>2, <3>3, <1>0, <1>1
  <2>4. (d + (m - R) * P) % P = d % P
    <3>1. d \in Int /\ m - R \in Int
      BY <1>0, <1>3, Sizes
    <3> QED BY <3>1, MultipleAdded
  <2> QED BY <2>1, <2>2, <2>3, <2>4
<1> QED BY <1>1, <1>8, <1>9, Sizes

(* Sums of two elements are multiplied as they are: fp_addn_low drops no   *)
(* carry, and the room of two bits keeps their product within reach of one *)
(* reduction.                                                              *)
THEOREM LazyMulCorrect ==
  ASSUME NEW a \in 0 .. 2 * P - 1, NEW b \in 0 .. 2 * P - 1
  PROVE  fp_mul(a, b) \in Fp /\ (fp_mul(a, b) * R) % P = (a * b) % P
<1>1. a \in Int /\ b \in Int /\ 0 <= a /\ a <= 2 * P - 1 /\ 0 <= b /\ b <= 2 * P - 1 /\ P \in Int
  BY Sizes
<1>2. 0 <= a * b
  BY <1>1
<1>3. a * b <= (2 * P) * (2 * P)
  <2>1. 0 <= (2 * P - a) * b
    BY <1>1
  <2>2. 0 <= (2 * P - b) * (2 * P)
    BY <1>1, Sizes
  <2>3. (2 * P - a) * b = 2 * P * b - a * b
    BY <1>1
  <2>4. (2 * P - b) * (2 * P) = (2 * P) * (2 * P) - 2 * P * b
    BY <1>1
  <2> QED BY <2>1, <2>2, <2>3, <2>4, <1>1
<1>4. (2 * P) * (2 * P) < P * R
  <2>1. 0 < (R - 4 * P) * P
    <3>1. (R - 4 * P) * P >= P
      BY Sizes, NoMultipleBetween
    <3> QED BY <3>1, Sizes
  <2>2. (R - 4 * P) * P = P * R - (2 * P) * (2 * P)
    BY Sizes
  <2>3. P * R \in Int /\ (2 * P) * (2 * P) \in Int
    BY Sizes
  <2> QED BY <2>1, <2>2, <2>3
<1>5. a * b \in 0 .. P * R + P - 1
  <2>1. a * b \in Int /\ P * R \in Int /\ (2 * P) * (2 * P) \in Int
    BY <1>1, Sizes
  <2> QED BY <2>1, <1>2, <1>3, <1>4, Sizes
<1> QED BY <1>5, RdcnCorrect DEF fp_mul, fp_muln_low

(* fp_addn_low of two elements does not wrap: the unreduced sum is below   *)
(* twice the prime.                                                        *)
THEOREM AddnCorrect ==
  ASSUME NEW a \in Fp, NEW b \in Fp
  PROVE  fp_addn_low(a, b) = a + b /\ a + b \in 0 .. 2 * P - 1
<1>1. a \in Int /\ b \in Int /\ 0 <= a /\ a < P /\ 0 <= b /\ b < P
  BY FpInt
<1>2. a + b \in 0 .. R - 1
  BY <1>1, Sizes
<1> QED BY <1>1, <1>2, Sizes, SmallR DEF fp_addn_low

-----------------------------------------------------------------------------
(* Double precision: sums and differences stay where reduction can take    *)
(* them, and stand for the same element.                                   *)
Unreduced == 0 .. P * R - 1

LEMMA UnreducedFits ==
  /\ P * R \in Nat /\ 2 * (P * R) <= R * R
  /\ R * R \in Nat \ {0}
  /\ \A v \in Unreduced : v \in Int /\ 0 <= v /\ v < P * R /\ v % (R * R) = v
<1>1. P * R \in Nat /\ R * R \in Nat /\ R * R \in Int
  BY Sizes
<1>2. 0 <= (R - 2 * P) * R
  BY Sizes
<1>3. (R - 2 * P) * R = R * R - 2 * (P * R)
  BY Sizes
<1>4. 2 * (P * R) <= R * R
  BY <1>1, <1>2, <1>3
<1>5. P * R >= R
  BY Sizes, NoMultipleBetween
<1>6. R * R \in Nat \ {0}
  BY <1>1, <1>4, <1>5, Sizes
<1>7. ASSUME NEW v \in Unreduced
      PROVE  v \in Int /\ 0 <= v /\ v < P * R /\ v % (R * R) = v
  <2> DEFINE RR == R * R
  <2>1. v \in Int /\ 0 <= v /\ v < P * R
    BY <1>1 DEF Unreduced
  <2>2. RR \in Nat \ {0} /\ v \in 0 .. RR - 1
    BY <2>1, <1>1, <1>4, <1>6
  <2> HIDE DEF RR
  <2>3. v = 0 * RR + v
    BY <2>1, <2>2
  <2>4. v % RR = v
    BY <2>1, <2>2, <2>3, Remainder
  <2> QED BY <2>1, <2>4 DEF RR
<1> QED BY <1>1, <1>4, <1>6, <1>7

(* fp_addc_low, which subtracts P R when a double-width sum reaches it,    *)
(* keeps the value where reduction accepts it and its residue right.       *)
THEOREM AddcCorrect ==
  ASSUME NEW a \in Unreduced, NEW b \in Unreduced
  PROVE  /\ fp_addc_low(a, b) \in Unreduced
         /\ fp_addc_low(a, b) % P = (a + b) % P
<1>1. a \in Int /\ b \in Int /\ 0 <= a /\ a < P * R /\ 0 <= b /\ b < P * R /\ P * R \in Int
  BY UnreducedFits
<1>2. CASE a + b < P * R
  BY <1>1, <1>2 DEF fp_addc_low, Unreduced
<1>3. CASE a + b >= P * R
  <2>1. a + b - P * R \in Unreduced
    BY <1>1, <1>3 DEF Unreduced
  <2>2. fp_addc_low(a, b) = a + b - P * R
    BY <1>3, <2>1, UnreducedFits DEF fp_addc_low
  <2>3. ((a + b) + (- R) * P) % P = (a + b) % P
    <3>1. a + b \in Int /\ - R \in Int
      BY <1>1, Sizes
    <3> QED BY <3>1, MultipleAdded
  <2>4. (a + b) + (- R) * P = a + b - P * R
    BY <1>1, Sizes
  <2> QED BY <2>1, <2>2, <2>3, <2>4
<1> QED BY <1>1, <1>2, <1>3

(* fp_subc_low, which adds P R after a borrow, does the same for a         *)
(* difference.                                                             *)
THEOREM SubcCorrect ==
  ASSUME NEW a \in Unreduced, NEW b \in Unreduced
  PROVE  /\ fp_subc_low(a, b) \in Unreduced
         /\ fp_subc_low(a, b) % P = (a - b) % P
<1>1. a \in Int /\ b \in Int /\ 0 <= a /\ a < P * R /\ 0 <= b /\ b < P * R /\ P * R \in Int
  BY UnreducedFits
<1>2. CASE a >= b
  BY <1>1, <1>2 DEF fp_subc_low, Unreduced
<1>3. CASE a < b
  <2>1. a - b + P * R \in Unreduced
    BY <1>1, <1>3 DEF Unreduced
  <2>2. fp_subc_low(a, b) = a - b + P * R
    BY <1>3, <2>1, UnreducedFits DEF fp_subc_low
  <2>3. ((a - b) + R * P) % P = (a - b) % P
    <3>1. a - b \in Int /\ R \in Int
      BY <1>1, Sizes
    <3> QED BY <3>1, MultipleAdded
  <2>4. (a - b) + R * P = a - b + P * R
    BY <1>1, Sizes
  <2> QED BY <2>1, <2>2, <2>3, <2>4
<1> QED BY <1>1, <1>2, <1>3

-----------------------------------------------------------------------------
(* Multiplication in fp2. *)

Sum2 == 0 .. 2 * P - 1   \* sums of two elements, as fp_addn_low leaves them

LEMMA ProductBounds ==
  ASSUME NEW x \in Int, NEW y \in Int, NEW m \in Int, NEW c \in Int,
         0 <= x, x <= m, 0 <= y, y <= c
  PROVE  x * y \in Int /\ 0 <= x * y /\ x * y <= m * c
<1>1. 0 <= x * y
  OBVIOUS
<1>2. 0 <= (m - x) * c
  OBVIOUS
<1>3. 0 <= x * (c - y)
  OBVIOUS
<1>4. (m - x) * c = m * c - x * c /\ x * (c - y) = x * c - x * y
  OBVIOUS
<1>5. x * y \in Int /\ m * c \in Int /\ x * c \in Int
  OBVIOUS
<1> QED BY <1>1, <1>2, <1>3, <1>4, <1>5

(* Sixteen squares of the prime fit a dv_t, four of them P * R.            *)
LEMMA SquaresFit ==
  /\ P * P \in Int /\ P * P >= P
  /\ 4 * (P * P) < P * R /\ 8 * (P * P) < R * R /\ 16 * (P * P) < R * R
<1>1. P * P \in Int /\ P * R \in Int /\ R * R \in Int
  BY Sizes
<1>2. P * P >= P
  BY Sizes, NoMultipleBetween
<1>3. (R - 4 * P) * P >= P
  BY Sizes, NoMultipleBetween
<1>4. (R - 4 * P) * P = P * R - 4 * (P * P)
  BY Sizes
<1>5. (R - 4 * P) * R >= R
  BY Sizes, NoMultipleBetween
<1>6. (R - 4 * P) * R = R * R - 4 * (P * R)
  BY Sizes
<1> QED BY <1>1, <1>2, <1>3, <1>4, <1>5, <1>6, Sizes

LEMMA FitsDV == ASSUME NEW v \in Int, 0 <= v, v < R * R PROVE v % (R * R) = v
<1> DEFINE RR == R * R
<1>1. RR \in Nat \ {0}
  BY UnreducedFits
<1>2. v \in 0 .. RR - 1
  BY <1>1
<1> HIDE DEF RR
<1>3. v = 0 * RR + v
  BY <1>1, <1>2
<1>4. v % RR = v
  BY <1>1, <1>2, <1>3, Remainder
<1> QED BY <1>4 DEF RR

(* Karatsuba's identity. *)
LEMMA Cross ==
  ASSUME NEW a1 \in Int, NEW a2 \in Int, NEW b1 \in Int, NEW b2 \in Int
  PROVE  (a1 + a2) * (b1 + b2) - (a1 * b1 + a2 * b2) = a1 * b2 + a2 * b1
<1>1. (a1 + a2) * (b1 + b2) = a1 * (b1 + b2) + a2 * (b1 + b2)
  OBVIOUS
<1>2. a1 * (b1 + b2) = a1 * b1 + a1 * b2 /\ a2 * (b1 + b2) = a2 * b1 + a2 * b2
  OBVIOUS
<1>3. a1 * b1 \in Int /\ a1 * b2 \in Int /\ a2 * b1 \in Int /\ a2 * b2 \in Int
  OBVIOUS
<1> QED BY <1>1, <1>2, <1>3

-----------------------------------------------------------------------------
(* The product of two values of fp2 whose coefficients may be sums of two  *)
(* elements: the first coefficient is within reach of one reduction and    *)
(* right modulo P, the second is exact.                                    *)
THEOREM Fp2MulnLazy ==
  ASSUME NEW a1 \in Sum2, NEW a2 \in Sum2, NEW b1 \in Sum2, NEW b2 \in Sum2
  PROVE  LET c == fp2_muln_low(<<a1, a2>>, <<b1, b2>>)
         IN  /\ c[1] \in Unreduced /\ c[1] % P = (a1 * b1 - a2 * b2) % P
             /\ c[2] = a1 * b2 + a2 * b1 /\ c[2] \in 0 .. 2 * (P * R)
<1>1. /\ a1 \in Int /\ 0 <= a1 /\ a1 <= 2 * P /\ a2 \in Int /\ 0 <= a2 /\ a2 <= 2 * P
      /\ b1 \in Int /\ 0 <= b1 /\ b1 <= 2 * P /\ b2 \in Int /\ 0 <= b2 /\ b2 <= 2 * P
      /\ 2 * P \in Int /\ 4 * P \in Int
  BY Sizes DEF Sum2
<1>2. (2 * P) * (2 * P) = 4 * (P * P) /\ (4 * P) * (4 * P) = 16 * (P * P)
  BY Sizes
<1>3. /\ a1 * b1 \in Int /\ 0 <= a1 * b1 /\ a1 * b1 <= 4 * (P * P)
      /\ a2 * b2 \in Int /\ 0 <= a2 * b2 /\ a2 * b2 <= 4 * (P * P)
  BY <1>1, <1>2, ProductBounds
<1>4. /\ a1 * b2 \in Int /\ 0 <= a1 * b2 /\ a1 * b2 <= 4 * (P * P)
      /\ a2 * b1 \in Int /\ 0 <= a2 * b1 /\ a2 * b1 <= 4 * (P * P)
  BY <1>1, <1>2, ProductBounds
<1>5. fp_addn_low(a1, a2) = a1 + a2 /\ fp_addn_low(b1, b2) = b1 + b2
  <2>1. a1 + a2 \in 0 .. R - 1 /\ b1 + b2 \in 0 .. R - 1
    BY Sizes DEF Sum2
  <2> QED BY <2>1, SmallR DEF fp_addn_low
<1>6. a1 * b1 \in Unreduced /\ a2 * b2 \in Unreduced
  BY <1>3, SquaresFit, UnreducedFits DEF Unreduced
<1>7. fp_addd_low(a1 * b1, a2 * b2) = a1 * b1 + a2 * b2
  <2>1. a1 * b1 + a2 * b2 \in Int /\ 0 <= a1 * b1 + a2 * b2 /\ a1 * b1 + a2 * b2 < R * R
    BY <1>3, SquaresFit, UnreducedFits
  <2> QED BY <2>1, FitsDV DEF fp_addd_low
<1>8. /\ (a1 + a2) * (b1 + b2) - (a1 * b1 + a2 * b2) = a1 * b2 + a2 * b1
      /\ (a1 * b2 + a2 * b1) % (R * R) = a1 * b2 + a2 * b1
  <2>1. a1 * b2 + a2 * b1 \in Int /\ 0 <= a1 * b2 + a2 * b1 /\ a1 * b2 + a2 * b1 < R * R
    BY <1>4, SquaresFit, UnreducedFits
  <2> QED BY <2>1, <1>1, Cross, FitsDV
<1>9. fp2_muln_low(<<a1, a2>>, <<b1, b2>>)
        = <<fp_subc_low(a1 * b1, a2 * b2), a1 * b2 + a2 * b1>>
  BY <1>5, <1>7, <1>8 DEF fp2_muln_low, fp_muln_low, fp_subd_low
<1>10. a1 * b2 + a2 * b1 \in 0 .. 2 * (P * R)
  BY <1>4, SquaresFit, UnreducedFits
<1> QED BY <1>6, <1>9, <1>10, SubcCorrect

(* fp2_mul is the product of complex numbers modulo P, in Montgomery form. *)
THEOREM Fp2MulCorrect ==
  ASSUME NEW a1 \in Fp, NEW a2 \in Fp, NEW b1 \in Fp, NEW b2 \in Fp
  PROVE  LET c == fp2_mul(<<a1, a2>>, <<b1, b2>>)
         IN  /\ c[1] \in Fp /\ (c[1] * R) % P = (a1 * b1 - a2 * b2) % P
             /\ c[2] \in Fp /\ (c[2] * R) % P = (a1 * b2 + a2 * b1) % P
<1> DEFINE c == fp2_muln_low(<<a1, a2>>, <<b1, b2>>)
<1>1. /\ a1 \in Int /\ 0 <= a1 /\ a1 <= P /\ a2 \in Int /\ 0 <= a2 /\ a2 <= P
      /\ b1 \in Int /\ 0 <= b1 /\ b1 <= P /\ b2 \in Int /\ 0 <= b2 /\ b2 <= P
  BY FpInt, Sizes
<1>2. a1 \in Sum2 /\ a2 \in Sum2 /\ b1 \in Sum2 /\ b2 \in Sum2
  BY Sizes DEF Sum2, Fp
<1>3. /\ c[1] \in Unreduced /\ c[1] % P = (a1 * b1 - a2 * b2) % P
      /\ c[2] = a1 * b2 + a2 * b1
  BY <1>2, Fp2MulnLazy
<1>4. /\ a1 * b2 \in Int /\ 0 <= a1 * b2 /\ a1 * b2 <= P * P
      /\ a2 * b1 \in Int /\ 0 <= a2 * b1 /\ a2 * b1 <= P * P
  BY <1>1, ProductBounds, Sizes
<1>5. c[1] \in 0 .. P * R + P - 1 /\ c[2] \in 0 .. P * R + P - 1
  <2>1. c[1] \in 0 .. P * R + P - 1
    BY <1>3, UnreducedFits, Sizes DEF Unreduced
  <2>2. c[2] \in 0 .. P * R + P - 1
    BY <1>3, <1>4, SquaresFit, UnreducedFits, Sizes
  <2> QED BY <2>1, <2>2
<1>6. /\ fp_rdcn_low(c[1]) \in Fp /\ (fp_rdcn_low(c[1]) * R) % P = c[1] % P
      /\ fp_rdcn_low(c[2]) \in Fp /\ (fp_rdcn_low(c[2]) * R) % P = c[2] % P
  BY <1>5, RdcnCorrect
<1>7. fp2_mul(<<a1, a2>>, <<b1, b2>>) = <<fp_rdcn_low(c[1]), fp_rdcn_low(c[2])>>
  BY DEF fp2_mul, fp2_rdcn_low
<1> QED BY <1>3, <1>6, <1>7

(* fp2_sqr, whose difference is reduced and whose sum is not, is the       *)
(* product of a number with itself.                                        *)
THEOREM Fp2SqrCorrect ==
  ASSUME NEW a1 \in Fp, NEW a2 \in Fp
  PROVE  LET c == fp2_sqr(<<a1, a2>>)
         IN  /\ c[1] \in Fp /\ (c[1] * R) % P = (a1 * a1 - a2 * a2) % P
             /\ c[2] \in Fp /\ (c[2] * R) % P = (2 * a1 * a2) % P
<1> DEFINE s == fp_addn_low(a1, a2)
           d == fp_subm_low(a1, a2)
           e == fp_dblm_low(a1)
<1>1. a1 \in Int /\ a2 \in Int /\ 0 <= a2 /\ a2 < P /\ P \in Int /\ P \in Nat \ {0}
  BY FpInt, Sizes
<1>2. s = a1 + a2 /\ s \in 0 .. 2 * P - 1
  BY AddnCorrect
<1>3. d \in Fp /\ d = (a1 - a2) % P
  BY SubmCorrect
<1>4. e \in Fp /\ e = (a1 + a1) % P
  BY AddmCorrect DEF fp_dblm_low
<1>5. d \in 0 .. 2 * P - 1 /\ e \in 0 .. 2 * P - 1 /\ a2 \in 0 .. 2 * P - 1
  BY <1>1, <1>3, <1>4 DEF Fp
<1>6. fp_mul(s, d) \in Fp /\ (fp_mul(s, d) * R) % P = (s * d) % P
  BY <1>2, <1>5, LazyMulCorrect
<1>7. fp_mul(e, a2) \in Fp /\ (fp_mul(e, a2) * R) % P = (e * a2) % P
  BY <1>5, LazyMulCorrect
<1>8. (s * d) % P = (a1 * a1 - a2 * a2) % P
  <2>1. PICK k \in Int : a1 - a2 = k * P + d
    <3>1. a1 - a2 \in Int
      BY <1>1
    <3>2. (a1 - a2) \div P \in Int /\ a1 - a2 = ((a1 - a2) \div P) * P + ((a1 - a2) % P)
      BY <1>1, <3>1, DivMod
    <3> QED BY <3>2, <1>3
  <2>2. d \in Int /\ s \in Int
    BY <1>1, <1>2, <1>3, FpInt
  <2>3. (a1 + a2) * (a1 - a2) = a1 * a1 - a2 * a2
    BY <1>1
  <2>4. s * (k * P + d) = s * d + (s * k) * P
    BY <1>1, <2>2
  <2>5. s * d \in Int /\ s * k \in Int
    BY <2>2
  <2>6. (s * d + (s * k) * P) % P = (s * d) % P
    BY <2>5, MultipleAdded
  <2> QED BY <1>2, <2>1, <2>3, <2>4, <2>6
<1>9. (e * a2) % P = (2 * a1 * a2) % P
  <2>1. PICK k \in Int : a1 + a1 = k * P + e
    <3>1. a1 + a1 \in Int
      BY <1>1
    <3>2. (a1 + a1) \div P \in Int /\ a1 + a1 = ((a1 + a1) \div P) * P + ((a1 + a1) % P)
      BY <1>1, <3>1, DivMod
    <3> QED BY <3>2, <1>4
  <2>2. e \in Int
    BY <1>4, FpInt
  <2>3. (a1 + a1) * a2 = 2 * a1 * a2
    BY <1>1
  <2>4. (k * P + e) * a2 = e * a2 + (k * a2) * P
    BY <1>1, <2>2
  <2>5. e * a2 \in Int /\ k * a2 \in Int
    BY <1>1, <2>2
  <2>6. (e * a2 + (k * a2) * P) % P = (e * a2) % P
    BY <2>5, MultipleAdded
  <2> QED BY <2>1, <2>3, <2>4, <2>6
<1>10. fp2_sqr(<<a1, a2>>) = <<fp_mul(s, d), fp_mul(e, a2)>>
  BY DEF fp2_sqr, fp2_sqrn_low, fp2_rdcn_low, fp_mul
<1> QED BY <1>6, <1>7, <1>8, <1>9, <1>10

-----------------------------------------------------------------------------
(* Lazy reduction through the tower.  What fp6 and fp12 add, subtract and  *)
(* halve of unreduced products stays within reach of one reduction, for    *)
(* all canonical arguments.                                                *)
Fp2   == Fp \X Fp
Fp6   == Fp2 \X Fp2 \X Fp2
Fp12  == Fp6 \X Fp6
Un2   == Unreduced \X Unreduced
Un6   == Un2 \X Un2 \X Un2

Within  == 0 .. P * R + P - 1   \* within reach of one reduction
Within2 == Within \X Within
Within6 == Within2 \X Within2 \X Within2

LEMMA UnreducedIsWithin == Unreduced \subseteq Within
<1>1. P * R \in Int /\ P \in Nat
  BY Sizes
<1> QED BY <1>1 DEF Unreduced, Within

LEMMA ReducedFp2 == ASSUME NEW d \in Within2 PROVE fp2_rdcn_low(d) \in Fp2
BY RdcnCorrect DEF fp2_rdcn_low, Within2, Within, Fp2

LEMMA ReducedFp6 == ASSUME NEW d \in Within6 PROVE fp6_rdcn(d) \in Fp6
<1>1. d[1] \in Within2 /\ d[2] \in Within2 /\ d[3] \in Within2
  BY DEF Within6
<1>2. fp2_rdcn_low(d[1]) \in Fp2 /\ fp2_rdcn_low(d[2]) \in Fp2 /\ fp2_rdcn_low(d[3]) \in Fp2
  BY <1>1, ReducedFp2
<1> QED BY <1>2 DEF fp6_rdcn, Fp6

LEMMA Fp2Closed ==
  ASSUME NEW a \in Fp2, NEW b \in Fp2
  PROVE  /\ fp2_add(a, b) \in Fp2 /\ fp2_sub(a, b) \in Fp2
         /\ fp2_dbl(a) \in Fp2 /\ fp2_neg(a) \in Fp2
<1>1. a[1] \in Fp /\ a[2] \in Fp /\ b[1] \in Fp /\ b[2] \in Fp
  BY DEF Fp2
<1>2. /\ fp_addm_low(a[1], b[1]) \in Fp /\ fp_addm_low(a[2], b[2]) \in Fp
      /\ fp_addm_low(a[1], a[1]) \in Fp /\ fp_addm_low(a[2], a[2]) \in Fp
  BY <1>1, AddmCorrect
<1>3. /\ fp_subm_low(a[1], b[1]) \in Fp /\ fp_subm_low(a[2], b[2]) \in Fp
      /\ fp_negm_low(a[1]) \in Fp /\ fp_negm_low(a[2]) \in Fp
  BY <1>1, SubmCorrect, NegmCorrect
<1> QED BY <1>2, <1>3 DEF fp2_add, fp2_sub, fp2_dbl, fp2_neg, Fp2

LEMMA Un2Closed ==
  ASSUME NEW a \in Un2, NEW b \in Un2
  PROVE  fp2_addc_low(a, b) \in Un2 /\ fp2_subc_low(a, b) \in Un2
<1>1. a[1] \in Unreduced /\ a[2] \in Unreduced /\ b[1] \in Unreduced /\ b[2] \in Unreduced
  BY DEF Un2
<1>2. fp_addc_low(a[1], b[1]) \in Unreduced /\ fp_addc_low(a[2], b[2]) \in Unreduced
  BY <1>1, AddcCorrect
<1>3. fp_subc_low(a[1], b[1]) \in Unreduced /\ fp_subc_low(a[2], b[2]) \in Unreduced
  BY <1>1, SubcCorrect
<1> QED BY <1>2, <1>3 DEF fp2_addc_low, fp2_subc_low, Un2

(* A product of canonical values; its second coefficient is exact.         *)
LEMMA MulnCanonical ==
  ASSUME NEW a \in Fp2, NEW b \in Fp2
  PROVE  /\ fp2_muln_low(a, b) \in Un2
         /\ fp2_muln_low(a, b)[2] = a[1] * b[2] + a[2] * b[1]
<1>1. /\ a[1] \in Fp /\ a[2] \in Fp /\ b[1] \in Fp /\ b[2] \in Fp
      /\ a = <<a[1], a[2]>> /\ b = <<b[1], b[2]>>
  BY DEF Fp2
<1>2. a[1] \in Sum2 /\ a[2] \in Sum2 /\ b[1] \in Sum2 /\ b[2] \in Sum2
  BY <1>1, Sizes DEF Fp, Sum2
<1>3. /\ fp2_muln_low(a, b)[1] \in Unreduced
      /\ fp2_muln_low(a, b)[2] = a[1] * b[2] + a[2] * b[1]
  <2> DEFINE c == fp2_muln_low(<<a[1], a[2]>>, <<b[1], b[2]>>)
  <2>1. c[1] \in Unreduced /\ c[2] = a[1] * b[2] + a[2] * b[1]
    BY <1>2, Fp2MulnLazy
  <2> QED BY <2>1, <1>1, Zenon
<1>4. /\ a[1] * b[2] \in Int /\ 0 <= a[1] * b[2] /\ a[1] * b[2] <= P * P
      /\ a[2] * b[1] \in Int /\ 0 <= a[2] * b[1] /\ a[2] * b[1] <= P * P
  <2>1. /\ a[1] \in Int /\ 0 <= a[1] /\ a[1] <= P /\ a[2] \in Int /\ 0 <= a[2] /\ a[2] <= P
        /\ b[1] \in Int /\ 0 <= b[1] /\ b[1] <= P /\ b[2] \in Int /\ 0 <= b[2] /\ b[2] <= P
        /\ P \in Int
    BY <1>1, FpInt, Sizes
  <2> QED BY <2>1, ProductBounds
<1>5. fp2_muln_low(a, b)[2] \in Unreduced
  BY <1>3, <1>4, SquaresFit, UnreducedFits DEF Unreduced
<1>6. fp2_muln_low(a, b) = <<fp2_muln_low(a, b)[1], fp2_muln_low(a, b)[2]>>
  BY DEF fp2_muln_low
<1> QED BY <1>3, <1>5, <1>6 DEF Un2

(* A square, whose coefficients are products of a sum or double with a     *)
(* reduced difference or element.                                          *)
LEMMA SqrnCanonical == ASSUME NEW a \in Fp2 PROVE fp2_sqrn_low(a) \in Un2
<1> DEFINE s == fp_addn_low(a[1], a[2])  d == fp_subm_low(a[1], a[2])  e == fp_dblm_low(a[1])
<1>1. a[1] \in Fp /\ a[2] \in Fp
  BY DEF Fp2
<1>2. s \in 0 .. 2 * P - 1 /\ d \in Fp /\ e \in Fp
  BY <1>1, AddnCorrect, SubmCorrect, AddmCorrect DEF fp_dblm_low
<1>3. /\ s \in Int /\ 0 <= s /\ s <= 2 * P /\ d \in Int /\ 0 <= d /\ d <= P
      /\ e \in Int /\ 0 <= e /\ e <= P /\ a[2] \in Int /\ 0 <= a[2] /\ a[2] <= P
      /\ P \in Int /\ 2 * P \in Int /\ (2 * P) * P = 2 * (P * P)
  BY <1>1, <1>2, FpInt, Sizes
<1> HIDE DEF s, d, e
<1>4. /\ s * d \in Int /\ 0 <= s * d /\ s * d <= (2 * P) * P
      /\ e * a[2] \in Int /\ 0 <= e * a[2] /\ e * a[2] <= P * P
  BY <1>3, ProductBounds
<1>5. s * d \in Unreduced /\ e * a[2] \in Unreduced
  BY <1>3, <1>4, SquaresFit, UnreducedFits DEF Unreduced
<1>6. fp2_sqrn_low(a) = <<s * d, e * a[2]>>
  BY DEF fp2_sqrn_low, fp_muln_low, s, d, e
<1> QED BY <1>5, <1>6 DEF Un2

(* QNR times an unreduced value, by repeated addition.                     *)
LEMMA RepeatLoop ==
  ASSUME NEW x
  PROVE  \E v : /\ Repeat(x) = v[QNR] /\ v[0] = 0
                /\ \A k \in 0 .. QNR - 1 : v[k + 1] = fp_addc_low(v[k], x)
<1> DEFINE Upto(f, c) == /\ f = [k \in 0 .. c |-> f[k]] /\ f[0] = 0
                         /\ \A k \in 0 .. c - 1 : f[k + 1] = fp_addc_low(f[k], x)
           S == {c \in 0 .. QNR : \E f : Upto(f, c)}
<1>0. QNR \in Nat
  BY TowerAssumption
<1>1. 0 \in S
  <2> DEFINE f == [k \in 0 .. 0 |-> 0]
  <2>1. Upto(f, 0)
    OBVIOUS
  <2> HIDE DEF Upto
  <2> QED BY <1>0, <2>1
<1>2. ASSUME NEW c \in 0 .. QNR - 1, c \in S PROVE c + 1 \in S
  <2>1. PICK f : Upto(f, c)
    BY <1>2
  <2> DEFINE g == [k \in 0 .. c + 1 |-> IF k = c + 1 THEN fp_addc_low(f[c], x) ELSE f[k]]
  <2>2. g[c + 1] = fp_addc_low(f[c], x) /\ \A k \in 0 .. c : g[k] = f[k]
    BY <1>0
  <2>3. g = [k \in 0 .. c + 1 |-> g[k]]
    OBVIOUS
  <2> HIDE DEF g
  <2>4. ASSUME NEW k \in 0 .. c PROVE g[k + 1] = fp_addc_low(g[k], x)
    <3>1. CASE k = c
      BY <2>2, <3>1, <1>0
    <3>2. CASE k # c
      <4>1. k \in 0 .. c - 1 /\ k + 1 \in 0 .. c
        BY <3>2, <1>0
      <4>2. g[k + 1] = f[k + 1] /\ g[k] = f[k]
        BY <2>2, <4>1
      <4>3. f[k + 1] = fp_addc_low(f[k], x)
        BY <2>1, <4>1
      <4> QED BY <4>2, <4>3, Zenon
    <3> QED BY <3>1, <3>2
  <2>5. g[0] = 0
    BY <2>1, <2>2, <1>0
  <2>6. (c + 1) - 1 = c /\ c + 1 \in 0 .. QNR
    BY <1>0
  <2>7. Upto(g, c + 1)
    BY <2>3, <2>4, <2>5, <2>6
  <2> HIDE DEF Upto
  <2> QED BY <2>6, <2>7
<1>3. QNR \in S
  <2> HIDE DEF S
  <2>1. \A c \in 0 .. QNR : c \in S
    BY <1>0, <1>1, <1>2, UpTo
  <2> QED BY <1>0, <2>1
<1>4. PICK g : Upto(g, QNR)
  BY <1>3
<1> DEFINE Sums(f) == f = [c \in 0 .. QNR |-> IF c = 0 THEN 0 ELSE fp_addc_low(f[c - 1], x)]
           v == CHOOSE f : Sums(f)
<1>5. Sums(g)
  <2>1. \A k \in 0 .. QNR : g[k] = IF k = 0 THEN 0 ELSE fp_addc_low(g[k - 1], x)
    <3> SUFFICES ASSUME NEW k \in 0 .. QNR, k # 0 PROVE g[k] = fp_addc_low(g[k - 1], x)
      BY <1>4
    <3>1. k - 1 \in 0 .. QNR - 1 /\ (k - 1) + 1 = k
      BY <1>0
    <3>2. g[(k - 1) + 1] = fp_addc_low(g[k - 1], x)
      BY <1>4, <3>1
    <3> QED BY <3>1, <3>2
  <2>2. g = [k \in 0 .. QNR |-> g[k]]
    BY <1>4
  <2> HIDE DEF Upto
  <2> QED BY <2>1, <2>2
<1>6. Sums(v)
  <2> HIDE DEF Sums
  <2> QED BY <1>5, Zenon
<1>7. Repeat(x) = v[QNR]
  BY DEF Repeat
<1> HIDE DEF v
<1>8. v[0] = 0
  BY <1>0, <1>6
<1>9. ASSUME NEW k \in 0 .. QNR - 1 PROVE v[k + 1] = fp_addc_low(v[k], x)
  <2>1. k + 1 \in 0 .. QNR /\ (k + 1) - 1 = k /\ k + 1 # 0
    BY <1>0
  <2>2. v[k + 1] = fp_addc_low(v[(k + 1) - 1], x)
    BY <1>6, <2>1
  <2> QED BY <2>1, <2>2
<1> QED BY <1>7, <1>8, <1>9

LEMMA RepeatFits == ASSUME NEW x \in Unreduced PROVE Repeat(x) \in Unreduced
<1> DEFINE Loops1(v) == /\ Repeat(x) = v[QNR] /\ v[0] = 0
                        /\ \A k \in 0 .. QNR - 1 : v[k + 1] = fp_addc_low(v[k], x)
<1>0. QNR \in Nat
  BY TowerAssumption
<1>1. PICK v : Loops1(v)
  BY RepeatLoop
<1> DEFINE F == {k \in 0 .. QNR : v[k] \in Unreduced}
<1>10. 0 \in F
  <2>1. 0 \in Unreduced
    BY Sizes, SquaresFit, UnreducedFits DEF Unreduced
  <2> QED BY <1>0, <1>1, <2>1
<1>11. ASSUME NEW k \in 0 .. QNR - 1, k \in F PROVE k + 1 \in F
  <2>1. fp_addc_low(v[k], x) \in Unreduced /\ k + 1 \in 0 .. QNR
    BY <1>11, <1>0, AddcCorrect
  <2> QED BY <2>1, <1>1
<1>12. QNR \in F
  <2> HIDE DEF F
  <2>1. \A k \in 0 .. QNR : k \in F
    BY <1>0, <1>10, <1>11, UpTo
  <2> QED BY <1>0, <2>1
<1> QED BY <1>1, <1>12

LEMMA NordFits == ASSUME NEW a \in Un2 PROVE fp2_nord_low(a) \in Un2
<1>1. a[1] \in Unreduced /\ a[2] \in Unreduced
  BY DEF Un2
<1>2. Repeat(a[1]) \in Unreduced /\ Repeat(a[2]) \in Unreduced
  BY <1>1, RepeatFits
<1>3. fp_subc_low(Repeat(a[1]), a[2]) \in Unreduced /\ fp_addc_low(Repeat(a[2]), a[1]) \in Unreduced
  BY <1>1, <1>2, SubcCorrect, AddcCorrect
<1> QED BY <1>3 DEF fp2_nord_low, Un2

(* A middle coefficient of a product in fp6: the product of two unreduced  *)
(* sums without the products of their parts.  The product alone may pass   *)
(* P * R in its second coefficient, but what is subtracted from it was not *)
(* reduced, so that the difference is exact and back within reach.         *)
LEMMA MiddleFits ==
  ASSUME NEW a \in Fp2, NEW b \in Fp2, NEW c \in Fp2, NEW d \in Fp2
  PROVE  fp2_subc_low(fp2_muln_low(fp2_addn_low(a, b), fp2_addn_low(c, d)),
                      fp2_addc_low(fp2_muln_low(a, c), fp2_muln_low(b, d))) \in Un2
<1> DEFINE m == fp2_muln_low(fp2_addn_low(a, b), fp2_addn_low(c, d))
           u == fp2_muln_low(a, c)
           w == fp2_muln_low(b, d)
           s == fp2_addc_low(u, w)
<1>1. /\ a[1] \in Fp /\ a[2] \in Fp /\ b[1] \in Fp /\ b[2] \in Fp
      /\ c[1] \in Fp /\ c[2] \in Fp /\ d[1] \in Fp /\ d[2] \in Fp
  BY DEF Fp2
<1>2. /\ u \in Un2 /\ u[2] = a[1] * c[2] + a[2] * c[1]
      /\ w \in Un2 /\ w[2] = b[1] * d[2] + b[2] * d[1]
  BY MulnCanonical
<1>3. s \in Un2
  BY <1>2, Un2Closed
<1>4. /\ fp2_addn_low(a, b) = <<a[1] + b[1], a[2] + b[2]>>
      /\ fp2_addn_low(c, d) = <<c[1] + d[1], c[2] + d[2]>>
      /\ a[1] + b[1] \in Sum2 /\ a[2] + b[2] \in Sum2
      /\ c[1] + d[1] \in Sum2 /\ c[2] + d[2] \in Sum2
  BY <1>1, AddnCorrect DEF fp2_addn_low, Sum2
<1>5. /\ m[1] \in Unreduced
      /\ m[2] = (a[1] + b[1]) * (c[2] + d[2]) + (a[2] + b[2]) * (c[1] + d[1])
  BY <1>4, Fp2MulnLazy
<1>6. /\ a[1] \in Int /\ 0 <= a[1] /\ a[1] <= P /\ a[2] \in Int /\ 0 <= a[2] /\ a[2] <= P
      /\ b[1] \in Int /\ 0 <= b[1] /\ b[1] <= P /\ b[2] \in Int /\ 0 <= b[2] /\ b[2] <= P
      /\ c[1] \in Int /\ 0 <= c[1] /\ c[1] <= P /\ c[2] \in Int /\ 0 <= c[2] /\ c[2] <= P
      /\ d[1] \in Int /\ 0 <= d[1] /\ d[1] <= P /\ d[2] \in Int /\ 0 <= d[2] /\ d[2] <= P
      /\ P \in Int
  BY <1>1, FpInt, Sizes
<1>7. /\ a[1] * c[2] \in Int /\ 0 <= a[1] * c[2] /\ a[1] * c[2] <= P * P
      /\ a[2] * c[1] \in Int /\ 0 <= a[2] * c[1] /\ a[2] * c[1] <= P * P
      /\ b[1] * d[2] \in Int /\ 0 <= b[1] * d[2] /\ b[1] * d[2] <= P * P
      /\ b[2] * d[1] \in Int /\ 0 <= b[2] * d[1] /\ b[2] * d[1] <= P * P
  BY <1>6, ProductBounds
<1>8. /\ a[1] * d[2] \in Int /\ 0 <= a[1] * d[2] /\ a[1] * d[2] <= P * P
      /\ a[2] * d[1] \in Int /\ 0 <= a[2] * d[1] /\ a[2] * d[1] <= P * P
      /\ b[1] * c[2] \in Int /\ 0 <= b[1] * c[2] /\ b[1] * c[2] <= P * P
      /\ b[2] * c[1] \in Int /\ 0 <= b[2] * c[1] /\ b[2] * c[1] <= P * P
  BY <1>6, ProductBounds
<1>9. s[2] = a[1] * c[2] + a[2] * c[1] + (b[1] * d[2] + b[2] * d[1])
  <2>1. s[2] = fp_addc_low(u[2], w[2])
    BY DEF fp2_addc_low
  <2>2. u[2] + w[2] < P * R
    BY <1>2, <1>7, SquaresFit, UnreducedFits
  <2>3. ~ (u[2] + w[2] >= P * R)
    BY <2>2, <1>2, <1>7, UnreducedFits
  <2> HIDE DEF u, w, s
  <2>4. s[2] = u[2] + w[2]
    BY <2>1, <2>3 DEF fp_addc_low
  <2> QED BY <2>4, <1>2
<1>10. /\ m[2] - s[2] = a[1] * d[2] + b[1] * c[2] + (a[2] * d[1] + b[2] * c[1])
       /\ m[2] \in Int /\ s[2] \in Int
  <2> HIDE DEF m, s
  <2>1. (a[1] + b[1]) * (c[2] + d[2])
          = a[1] * c[2] + a[1] * d[2] + (b[1] * c[2] + b[1] * d[2])
    BY <1>6
  <2>2. (a[2] + b[2]) * (c[1] + d[1])
          = a[2] * c[1] + a[2] * d[1] + (b[2] * c[1] + b[2] * d[1])
    BY <1>6
  <2> QED BY <2>1, <2>2, <1>5, <1>7, <1>8, <1>9
<1> HIDE DEF m, u, w, s
<1>11. fp_subc_low(m[2], s[2]) \in Unreduced
  <2>1. ~ (m[2] < s[2]) /\ m[2] - s[2] \in Unreduced
    BY <1>10, <1>8, SquaresFit, UnreducedFits DEF Unreduced
  <2> QED BY <2>1 DEF fp_subc_low
<1>12. fp_subc_low(m[1], s[1]) \in Unreduced
  <2>1. s[1] \in Unreduced
    BY <1>3 DEF Un2
  <2> QED BY <1>5, <2>1, SubcCorrect
<1>13. fp2_subc_low(m, s) \in Un2
  BY <1>11, <1>12 DEF fp2_subc_low, Un2
<1> QED BY <1>13 DEF m, u, w, s

LEMMA Fp6Parts ==
  ASSUME NEW a \in Fp6
  PROVE  a[1] \in Fp2 /\ a[2] \in Fp2 /\ a[3] \in Fp2
BY DEF Fp6

LEMMA Un6Parts ==
  ASSUME NEW a \in Un6
  PROVE  a[1] \in Un2 /\ a[2] \in Un2 /\ a[3] \in Un2
BY DEF Un6

LEMMA Fp6Closed ==
  ASSUME NEW a \in Fp6, NEW b \in Fp6
  PROVE  fp6_add(a, b) \in Fp6 /\ fp6_sub(a, b) \in Fp6 /\ fp6_neg(a) \in Fp6
<1>1. /\ a[1] \in Fp2 /\ a[2] \in Fp2 /\ a[3] \in Fp2
      /\ b[1] \in Fp2 /\ b[2] \in Fp2 /\ b[3] \in Fp2
  BY Fp6Parts
<1>2. fp2_add(a[1], b[1]) \in Fp2 /\ fp2_add(a[2], b[2]) \in Fp2 /\ fp2_add(a[3], b[3]) \in Fp2
  BY <1>1, Fp2Closed
<1>3. fp2_sub(a[1], b[1]) \in Fp2 /\ fp2_sub(a[2], b[2]) \in Fp2 /\ fp2_sub(a[3], b[3]) \in Fp2
  BY <1>1, Fp2Closed
<1>4. fp2_neg(a[1]) \in Fp2 /\ fp2_neg(a[2]) \in Fp2 /\ fp2_neg(a[3]) \in Fp2
  BY <1>1, Fp2Closed
<1> QED BY <1>2, <1>3, <1>4 DEF fp6_add, fp6_sub, fp6_neg, Fp6

(* The product in fp6 before it is reduced. *)
LEMMA Fp6MulUnreduced ==
  ASSUME NEW a \in Fp6, NEW b \in Fp6
  PROVE  fp6_mul_unr(a, b) \in Un6
<1> DEFINE u0 == fp2_muln_low(a[1], b[1])
           u1 == fp2_muln_low(a[2], b[2])
           u2 == fp2_muln_low(a[3], b[3])
           Mid(k, l, s) ==
             fp2_subc_low(fp2_muln_low(fp2_addn_low(a[k], a[l]), fp2_addn_low(b[k], b[l])), s)
           m23 == Mid(2, 3, fp2_addc_low(u1, u2))
           m12 == Mid(1, 2, fp2_addc_low(u0, u1))
           m13 == Mid(1, 3, fp2_addc_low(u0, u2))
<1>1. /\ a[1] \in Fp2 /\ a[2] \in Fp2 /\ a[3] \in Fp2
      /\ b[1] \in Fp2 /\ b[2] \in Fp2 /\ b[3] \in Fp2
  BY Fp6Parts
<1>2. u0 \in Un2 /\ u1 \in Un2 /\ u2 \in Un2
  BY <1>1, MulnCanonical
<1>3. m23 \in Un2 /\ m12 \in Un2 /\ m13 \in Un2
  BY <1>1, MiddleFits
<1>4. fp6_mul_unr(a, b) = <<fp2_addc_low(fp2_nord_low(m23), u0),
                            fp2_addc_low(m12, fp2_nord_low(u2)),
                            fp2_addc_low(m13, u1)>>
  BY DEF fp6_mul_unr
<1> HIDE DEF u0, u1, u2, m23, m12, m13
<1>5. fp2_nord_low(m23) \in Un2 /\ fp2_nord_low(u2) \in Un2
  BY <1>2, <1>3, NordFits
<1>6. /\ fp2_addc_low(fp2_nord_low(m23), u0) \in Un2
      /\ fp2_addc_low(m12, fp2_nord_low(u2)) \in Un2
      /\ fp2_addc_low(m13, u1) \in Un2
  BY <1>2, <1>3, <1>5, Un2Closed
<1> QED BY <1>4, <1>6 DEF Un6

(* The product by a line's half. *)
LEMMA Fp6MulDxsUnreduced ==
  ASSUME NEW a \in Fp6, NEW b, b[1] \in Fp2, b[2] \in Fp2
  PROVE  fp6_mul_dxs_unr_lazyr(a, b) \in Un6
<1> DEFINE u0 == fp2_muln_low(a[1], b[1])
           u1 == fp2_muln_low(a[2], b[2])
           v0 == fp2_muln_low(a[3], b[2])
           v1 == fp2_muln_low(a[3], b[1])
           u2 == fp2_muln_low(fp2_add(a[1], a[2]), fp2_add(b[1], b[2]))
<1>1. a[1] \in Fp2 /\ a[2] \in Fp2 /\ a[3] \in Fp2
  BY Fp6Parts
<1>2. fp2_add(a[1], a[2]) \in Fp2 /\ fp2_add(b[1], b[2]) \in Fp2
  BY <1>1, Fp2Closed
<1>3. u0 \in Un2 /\ u1 \in Un2 /\ u2 \in Un2 /\ v0 \in Un2 /\ v1 \in Un2
  BY <1>1, <1>2, MulnCanonical
<1>4. fp6_mul_dxs_unr_lazyr(a, b) = <<fp2_addc_low(u0, fp2_nord_low(v0)),
                                      fp2_subc_low(fp2_subc_low(u2, u0), u1),
                                      fp2_addc_low(u1, v1)>>
  BY DEF fp6_mul_dxs_unr_lazyr
<1> HIDE DEF u0, u1, u2, v0, v1
<1>5. fp2_nord_low(v0) \in Un2 /\ fp2_subc_low(u2, u0) \in Un2
  BY <1>3, NordFits, Un2Closed
<1>6. /\ fp2_addc_low(u0, fp2_nord_low(v0)) \in Un2
      /\ fp2_subc_low(fp2_subc_low(u2, u0), u1) \in Un2
      /\ fp2_addc_low(u1, v1) \in Un2
  BY <1>3, <1>5, Un2Closed
<1> QED BY <1>4, <1>6 DEF Un6

LEMMA EvenHalfFits ==
  ASSUME NEW u \in Un6, NEW w \in Un6
  PROVE  EvenHalf(u, w) \in Un6
<1>1. /\ u[1] \in Un2 /\ u[2] \in Un2 /\ u[3] \in Un2
      /\ w[1] \in Un2 /\ w[2] \in Un2 /\ w[3] \in Un2
  BY Un6Parts
<1>2. fp2_nord_low(w[3]) \in Un2
  BY <1>1, NordFits
<1>3. /\ fp2_addc_low(u[1], fp2_nord_low(w[3])) \in Un2
      /\ fp2_addc_low(u[2], w[1]) \in Un2 /\ fp2_addc_low(u[3], w[2]) \in Un2
  BY <1>1, <1>2, Un2Closed
<1> QED BY <1>3 DEF EvenHalf, Un6

LEMMA Un6IsWithin == ASSUME NEW u \in Un6 PROVE u \in Within6
BY UnreducedIsWithin DEF Un6, Un2, Within6, Within2

(* The dense product in fp12, every coefficient below P * R.               *)
LEMMA Fp12MulUnreduced ==
  ASSUME NEW a \in Fp12, NEW b \in Fp12
  PROVE  fp12_mul_unr(a, b) \in Un6 \X Un6
<1> DEFINE u0 == fp6_mul_unr(a[1], b[1])
           u1 == fp6_mul_unr(a[2], b[2])
           u2 == fp6_mul_unr(fp6_add(a[1], a[2]), fp6_add(b[1], b[2]))
<1>1. a[1] \in Fp6 /\ a[2] \in Fp6 /\ b[1] \in Fp6 /\ b[2] \in Fp6
  BY DEF Fp12
<1>2. fp6_add(a[1], a[2]) \in Fp6 /\ fp6_add(b[1], b[2]) \in Fp6
  BY <1>1, Fp6Closed
<1>3. u0 \in Un6 /\ u1 \in Un6 /\ u2 \in Un6
  BY <1>1, <1>2, Fp6MulUnreduced
<1>4. fp12_mul_unr(a, b) = <<EvenHalf(u0, u1),
                             <<fp2_subc_low(u2[1], fp2_addc_low(u0[1], u1[1])),
                               fp2_subc_low(u2[2], fp2_addc_low(u0[2], u1[2])),
                               fp2_subc_low(u2[3], fp2_addc_low(u0[3], u1[3]))>>>>
  BY DEF fp12_mul_unr
<1> HIDE DEF u0, u1, u2
<1>5. ASSUME NEW k \in 1 .. 3
      PROVE  fp2_subc_low(u2[k], fp2_addc_low(u0[k], u1[k])) \in Un2
  <2>1. u0[k] \in Un2 /\ u1[k] \in Un2 /\ u2[k] \in Un2
    BY <1>3, Un6Parts
  <2>2. fp2_addc_low(u0[k], u1[k]) \in Un2
    BY <2>1, Un2Closed
  <2> QED BY <2>1, <2>2, Un2Closed
<1>6. EvenHalf(u0, u1) \in Un6
  BY <1>3, EvenHalfFits
<1> QED BY <1>4, <1>5, <1>6 DEF Un6

(* Values that halving has left above P * R: an unreduced value added to   *)
(* one or subtracted from it leaves it within reach.                       *)
LEMMA WithinFacts ==
  /\ P * R \in Int /\ P * R >= P /\ 2 * (P * R) + P < R * R
  /\ \A v \in Within : v \in Int /\ 0 <= v /\ v < P * R + P
<1>1. P * R \in Int /\ R * R \in Int /\ 4 * P < R /\ P \in Int /\ P > 2 /\ R \in Int
  BY Sizes
<1>2. (R - 4 * P) * R >= R /\ (R - 4 * P) * R = R * R - 4 * (P * R)
  BY Sizes, NoMultipleBetween
<1>3. P * R >= R
  BY Sizes, NoMultipleBetween
<1>4. P * R >= P /\ 2 * (P * R) + P < R * R
  BY <1>1, <1>2, <1>3
<1> QED BY <1>1, <1>4 DEF Within

LEMMA WithinMixed ==
  ASSUME NEW a \in Within, NEW b \in Unreduced
  PROVE  fp_addc_low(a, b) \in Within /\ fp_subc_low(a, b) \in Within
<1>1. /\ a \in Int /\ 0 <= a /\ a < P * R + P /\ b \in Int /\ 0 <= b /\ b < P * R
      /\ P * R \in Int /\ P \in Int /\ R * R \in Int
  BY WithinFacts, UnreducedFits, Sizes
<1>2. ASSUME a + b >= P * R PROVE fp_addc_low(a, b) \in Within
  <2>1. a + b - P * R \in Int /\ 0 <= a + b - P * R /\ a + b - P * R < P * R + P
    BY <1>1, <1>2
  <2>2. a + b - P * R < R * R
    BY <1>1, <2>1, WithinFacts
  <2>3. (a + b - P * R) % (R * R) = a + b - P * R
    BY <2>1, <2>2, FitsDV
  <2>4. fp_addc_low(a, b) = a + b - P * R
    BY <1>2, <2>3 DEF fp_addc_low
  <2> QED BY <1>1, <2>1, <2>4 DEF Within
<1>3. ASSUME ~ (a + b >= P * R) PROVE fp_addc_low(a, b) \in Within
  <2>1. fp_addc_low(a, b) = a + b
    BY <1>3 DEF fp_addc_low
  <2> QED BY <1>1, <1>3, <2>1, Sizes DEF Within
<1>4. ASSUME a < b PROVE fp_subc_low(a, b) \in Within
  <2>1. a - b + P * R \in Int /\ 0 <= a - b + P * R /\ a - b + P * R < P * R
    BY <1>1, <1>4
  <2>2. (a - b + P * R) % (R * R) = a - b + P * R
    BY <2>1, UnreducedFits DEF Unreduced
  <2>3. fp_subc_low(a, b) = a - b + P * R
    BY <1>4, <2>2 DEF fp_subc_low
  <2> QED BY <1>1, <2>1, <2>3, Sizes DEF Within
<1>5. ASSUME ~ (a < b) PROVE fp_subc_low(a, b) \in Within
  <2>1. fp_subc_low(a, b) = a - b
    BY <1>5 DEF fp_subc_low
  <2> QED BY <1>1, <1>5, <2>1 DEF Within
<1>6. fp_addc_low(a, b) \in Within
  BY <1>2, <1>3
<1>7. fp_subc_low(a, b) \in Within
  BY <1>4, <1>5
<1> QED BY <1>6, <1>7

LEMMA Within2Mixed ==
  ASSUME NEW a \in Within2, NEW b \in Un2
  PROVE  fp2_addc_low(a, b) \in Within2 /\ fp2_subc_low(a, b) \in Within2
<1>1. a[1] \in Within /\ a[2] \in Within /\ b[1] \in Unreduced /\ b[2] \in Unreduced
  BY DEF Within2, Un2
<1>2. /\ fp_addc_low(a[1], b[1]) \in Within /\ fp_addc_low(a[2], b[2]) \in Within
      /\ fp_subc_low(a[1], b[1]) \in Within /\ fp_subc_low(a[2], b[2]) \in Within
  BY <1>1, WithinMixed
<1> QED BY <1>2 DEF fp2_addc_low, fp2_subc_low, Within2

(* Half the sum of two unreduced values may pass P * R, by less than P;    *)
(* subtracted from either of the two, it does not wrap.                    *)
HalfOf(x, y) == fp_hlvd_low(fp_addd_low(x, y))

LEMMA HalfOfSum ==
  ASSUME NEW x \in Unreduced, NEW y \in Unreduced
  PROVE  HalfOf(x, y) \in Within /\ fp_subc_low(y, HalfOf(x, y)) \in Unreduced
<1> DEFINE e == IF (x + y) % 2 = 1 THEN x + y + P ELSE x + y
           h == e \div 2
<1>1. /\ x \in Int /\ 0 <= x /\ x < P * R /\ y \in Int /\ 0 <= y /\ y < P * R
      /\ P * R \in Int /\ P \in Int /\ P > 2 /\ R * R \in Int
  BY UnreducedFits, Sizes
<1>2. fp_addd_low(x, y) = x + y
  <2>1. x + y \in Int /\ 0 <= x + y /\ x + y < R * R
    BY <1>1, WithinFacts
  <2> QED BY <2>1, FitsDV DEF fp_addd_low
<1>3. e \in Int /\ x + y <= e /\ e <= x + y + P
  BY <1>1
<1>4. e % (R * R) = e
  <2>1. 0 <= e /\ e < R * R
    BY <1>1, <1>3, WithinFacts
  <2> HIDE DEF e
  <2> QED BY <1>3, <2>1, FitsDV
<1>5. HalfOf(x, y) = h
  BY <1>2, <1>4 DEF HalfOf, fp_hlvd_low
<1>6. h \in Int /\ 2 * h <= e /\ e <= 2 * h + 1
  <2> HIDE DEF e
  <2>1. e \div 2 \in Int /\ e % 2 \in 0 .. 1 /\ e = (e \div 2) * 2 + (e % 2)
    BY <1>3, DivMod
  <2> QED BY <2>1, <1>3
<1> HIDE DEF e, h
<1>7. 0 <= h /\ h < P * R + P
  BY <1>1, <1>3, <1>6
<1>8. CASE y < h
  <2>1. y - h + P * R \in Unreduced
    BY <1>1, <1>3, <1>6, <1>8, WithinFacts DEF Unreduced
  <2>2. fp_subc_low(y, h) = y - h + P * R
    BY <1>8, <2>1, UnreducedFits DEF fp_subc_low
  <2> QED BY <1>1, <1>5, <1>6, <1>7, <2>1, <2>2 DEF Within
<1>9. CASE ~ (y < h)
  <2>1. fp_subc_low(y, h) = y - h
    BY <1>9 DEF fp_subc_low
  <2>2. y - h \in Unreduced
    BY <1>1, <1>6, <1>7, <1>9 DEF Unreduced
  <2> QED BY <1>1, <1>5, <1>6, <1>7, <2>1, <2>2 DEF Within
<1> QED BY <1>8, <1>9

LEMMA HalfSumFits ==
  ASSUME NEW a \in Un2, NEW b \in Un2
  PROVE  HalfSum(a, b) \in Within2 /\ fp2_subc_low(b, HalfSum(a, b)) \in Un2
<1>1. a[1] \in Unreduced /\ a[2] \in Unreduced /\ b[1] \in Unreduced /\ b[2] \in Unreduced
  BY DEF Un2
<1>2. HalfSum(a, b) = <<HalfOf(a[1], b[1]), HalfOf(a[2], b[2])>>
  BY DEF HalfSum, HalfOf, fp2_hlvd_low, fp2_addd_low
<1>3. /\ HalfOf(a[1], b[1]) \in Within /\ fp_subc_low(b[1], HalfOf(a[1], b[1])) \in Unreduced
      /\ HalfOf(a[2], b[2]) \in Within /\ fp_subc_low(b[2], HalfOf(a[2], b[2])) \in Unreduced
  BY <1>1, HalfOfSum
<1> QED BY <1>2, <1>3 DEF fp2_subc_low, Within2, Un2

Un4 == Un2 \X Un2

LEMMA Fp4MulUnreduced ==
  ASSUME NEW a, NEW b, a[1] \in Fp2, a[2] \in Fp2, b[1] \in Fp2, b[2] \in Fp2
  PROVE  fp4_mul_unr(a, b) \in Un4
<1> DEFINE u0 == fp2_muln_low(a[1], b[1])
           u1 == fp2_muln_low(a[2], b[2])
           c1 == fp2_muln_low(fp2_add(a[1], a[2]), fp2_add(b[1], b[2]))
<1>1. fp2_add(a[1], a[2]) \in Fp2 /\ fp2_add(b[1], b[2]) \in Fp2
  BY Fp2Closed
<1>2. u0 \in Un2 /\ u1 \in Un2 /\ c1 \in Un2
  BY <1>1, MulnCanonical
<1>3. fp4_mul_unr(a, b) = <<fp2_addc_low(fp2_nord_low(u1), u0),
                            fp2_subc_low(fp2_subc_low(c1, u0), u1)>>
  BY DEF fp4_mul_unr
<1> HIDE DEF u0, u1, c1
<1>4. fp2_nord_low(u1) \in Un2 /\ fp2_subc_low(c1, u0) \in Un2
  BY <1>2, NordFits, Un2Closed
<1>5. fp2_addc_low(fp2_nord_low(u1), u0) \in Un2 /\ fp2_subc_low(fp2_subc_low(c1, u0), u1) \in Un2
  BY <1>2, <1>4, Un2Closed
<1> QED BY <1>3, <1>5 DEF Un4

LEMMA Fp4SqrUnreduced ==
  ASSUME NEW a, a[1] \in Fp2, a[2] \in Fp2
  PROVE  fp4_sqr_unr(a) \in Un4
<1> DEFINE u0 == fp2_sqrn_low(a[1])
           u1 == fp2_sqrn_low(a[2])
           c1 == fp2_sqrn_low(fp2_add(a[1], a[2]))
<1>1. fp2_add(a[1], a[2]) \in Fp2
  BY Fp2Closed
<1>2. u0 \in Un2 /\ u1 \in Un2 /\ c1 \in Un2
  BY <1>1, SqrnCanonical
<1>3. fp4_sqr_unr(a) = <<fp2_addc_low(fp2_nord_low(u1), u0),
                         fp2_subc_low(c1, fp2_addc_low(u1, u0))>>
  BY DEF fp4_sqr_unr
<1> HIDE DEF u0, u1, c1
<1>4. fp2_nord_low(u1) \in Un2 /\ fp2_addc_low(u1, u0) \in Un2
  BY <1>2, NordFits, Un2Closed
<1>5. fp2_addc_low(fp2_nord_low(u1), u0) \in Un2 /\ fp2_subc_low(c1, fp2_addc_low(u1, u0)) \in Un2
  BY <1>2, <1>4, Un2Closed
<1> QED BY <1>3, <1>5 DEF Un4

(* The square in fp12: two coefficients come from the halved sum.          *)
LEMMA Fp12SqrUnreduced ==
  ASSUME NEW a \in Fp12
  PROVE  fp12_sqr_unr(a) \in Within6 \X Within6
<1> DEFINE t1 == <<a[1][2], a[2][3]>>
           s1 == fp2_add(a[1][1], a[1][2])
           s2 == fp2_add(a[2][2], a[2][3])
           u0 == fp4_sqr_unr(<<a[1][1], a[2][2]>>)
           m  == fp4_mul_unr(<<a[2][1], a[1][3]>>, t1)
           u1 == <<fp2_addc_low(m[1], m[1]), fp2_addc_low(m[2], m[2])>>
           u2 == fp4_sqr_unr(t1)
           u3 == fp4_sqr_unr(<<fp2_add(s1, a[2][1]), fp2_add(s2, a[1][3])>>)
           x  == fp4_sqr_unr(<<fp2_sub(s1, a[2][1]), fp2_sub(s2, a[1][3])>>)
           u4 == <<HalfSum(x[1], u3[1]), HalfSum(x[2], u3[2])>>
           c12 == fp2_subc_low(fp2_subc_low(u4[1], u0[1]), u2[1])
           c23 == fp2_subc_low(fp2_subc_low(u4[2], u0[2]), u2[2])
           d1 == fp2_subc_low(fp2_subc_low(u3[1], u4[1]), u1[1])
           d2 == fp2_subc_low(fp2_subc_low(u3[2], u4[2]), u1[2])
<1>1. /\ a[1][1] \in Fp2 /\ a[1][2] \in Fp2 /\ a[1][3] \in Fp2
      /\ a[2][1] \in Fp2 /\ a[2][2] \in Fp2 /\ a[2][3] \in Fp2
  <2>1. a[1] \in Fp6 /\ a[2] \in Fp6
    BY DEF Fp12
  <2> QED BY <2>1, Fp6Parts
<1>2. s1 \in Fp2 /\ s2 \in Fp2
  BY <1>1, Fp2Closed
<1>3. /\ fp2_add(s1, a[2][1]) \in Fp2 /\ fp2_add(s2, a[1][3]) \in Fp2
      /\ fp2_sub(s1, a[2][1]) \in Fp2 /\ fp2_sub(s2, a[1][3]) \in Fp2
  <2> HIDE DEF s1, s2
  <2> QED BY <1>1, <1>2, Fp2Closed
<1>4. u0 \in Un4 /\ u2 \in Un4 /\ u3 \in Un4 /\ x \in Un4 /\ m \in Un4
  <2>1. u0 \in Un4 /\ u2 \in Un4
    BY <1>1, Fp4SqrUnreduced
  <2>2. m \in Un4
    BY <1>1, Fp4MulUnreduced
  <2> HIDE DEF s1, s2
  <2>3. u3 \in Un4 /\ x \in Un4
    BY <1>3, Fp4SqrUnreduced
  <2> QED BY <2>1, <2>2, <2>3
<1>5. fp12_sqr_unr(a)
        = <<<<fp2_addc_low(u0[1], fp2_nord_low(u1[2])), c12, fp2_addc_low(d2, u2[1])>>,
            <<fp2_addc_low(d1, fp2_nord_low(u2[2])), fp2_addc_low(u0[2], u1[1]), c23>>>>
  BY DEF fp12_sqr_unr
<1> HIDE DEF u0, m, u2, u3, x
<1>6. /\ u0[1] \in Un2 /\ u0[2] \in Un2 /\ u2[1] \in Un2 /\ u2[2] \in Un2
      /\ u3[1] \in Un2 /\ u3[2] \in Un2 /\ x[1] \in Un2 /\ x[2] \in Un2
      /\ m[1] \in Un2 /\ m[2] \in Un2
  BY <1>4 DEF Un4
<1>7. u1[1] \in Un2 /\ u1[2] \in Un2
  BY <1>6, Un2Closed
<1>8. /\ u4[1] \in Within2 /\ fp2_subc_low(u3[1], u4[1]) \in Un2
      /\ u4[2] \in Within2 /\ fp2_subc_low(u3[2], u4[2]) \in Un2
  BY <1>6, HalfSumFits
<1> HIDE DEF u1, u4
<1>9. d1 \in Un2 /\ d2 \in Un2
  BY <1>7, <1>8, Un2Closed
<1>10. c12 \in Within2 /\ c23 \in Within2
  <2>1. fp2_subc_low(u4[1], u0[1]) \in Within2 /\ fp2_subc_low(u4[2], u0[2]) \in Within2
    BY <1>6, <1>8, Within2Mixed
  <2> QED BY <2>1, <1>6, Within2Mixed
<1> HIDE DEF d1, d2, c12, c23
<1>11. fp2_nord_low(u1[2]) \in Un2 /\ fp2_nord_low(u2[2]) \in Un2
  BY <1>6, <1>7, NordFits
<1>12. /\ fp2_addc_low(u0[1], fp2_nord_low(u1[2])) \in Un2
       /\ fp2_addc_low(d2, u2[1]) \in Un2
       /\ fp2_addc_low(d1, fp2_nord_low(u2[2])) \in Un2
       /\ fp2_addc_low(u0[2], u1[1]) \in Un2
  BY <1>6, <1>7, <1>9, <1>11, Un2Closed
<1>13. Un2 \subseteq Within2
  BY UnreducedIsWithin DEF Un2, Within2
<1>14. /\ fp2_addc_low(u0[1], fp2_nord_low(u1[2])) \in Within2
       /\ fp2_addc_low(d2, u2[1]) \in Within2
       /\ fp2_addc_low(d1, fp2_nord_low(u2[2])) \in Within2
       /\ fp2_addc_low(u0[2], u1[1]) \in Within2
  BY <1>12, <1>13
<1> QED BY <1>5, <1>10, <1>14 DEF Within6

(* The lazily reduced arithmetic of fp12 within reach of its reductions:   *)
(* nothing that a product or a square hands to Montgomery reduction, which *)
(* subtracts the prime once at most, is P * R + P or more, for every prime *)
(* with the room RLC_FP_ROOM speaks of and all canonical arguments.        *)
THEOREM DenseWithinReach ==
  ASSUME NEW a \in Fp12, NEW b \in Fp12
  PROVE  /\ fp12_mul_unr(a, b) \in Within6 \X Within6
         /\ fp12_sqr_unr(a) \in Within6 \X Within6
<1>1. fp12_mul_unr(a, b) \in Un6 \X Un6
  BY Fp12MulUnreduced
<1>2. fp12_mul_unr(a, b) \in Within6 \X Within6
  BY <1>1, Un6IsWithin
<1> QED BY <1>2, Fp12SqrUnreduced

LEMMA ReducedFp12 == ASSUME NEW d \in Within6 \X Within6 PROVE fp12_rdcn(d) \in Fp12
<1>1. d[1] \in Within6 /\ d[2] \in Within6
  OBVIOUS
<1>2. fp6_rdcn(d[1]) \in Fp6 /\ fp6_rdcn(d[2]) \in Fp6
  BY <1>1, ReducedFp6
<1> QED BY <1>2 DEF fp12_rdcn, Fp12

(* A line has three coefficients that are not zero. *)
LineValues == {b \in Fp12 : b[1][2] = fp2_zero /\ b[1][3] = fp2_zero /\ b[2][3] = fp2_zero}

(* So every product, square and product by a line of the Miller loop is    *)
(* canonical again, and fp12_cmp may compare digits.                       *)
THEOREM ProductsCanonical ==
  ASSUME NEW a \in Fp12, NEW b \in Fp12, NEW l \in LineValues
  PROVE  /\ fp12_mul(a, b) \in Fp12 /\ fp12_sqr(a) \in Fp12
         /\ fp12_mul_dxs(a, l) \in Fp12
<1>1. fp12_mul(a, b) \in Fp12 /\ fp12_sqr(a) \in Fp12
  BY DenseWithinReach, ReducedFp12 DEF fp12_mul, fp12_sqr
<1>2. /\ l[1][1] \in Fp2 /\ l[2][1] \in Fp2 /\ l[2][2] \in Fp2
      /\ a[1] \in Fp6 /\ a[2] \in Fp6
  BY DEF LineValues, Fp12, Fp6
<1> DEFINE u0 == <<fp2_muln_low(a[1][1], l[1][1]), fp2_muln_low(a[1][2], l[1][1]),
                   fp2_muln_low(a[1][3], l[1][1])>>
           u1 == fp6_mul_dxs_unr_lazyr(a[2], l[2])
           u2 == fp6_mul_dxs_unr_lazyr(fp6_add(a[1], a[2]),
                                       <<fp2_add(l[1][1], l[2][1]), l[2][2], fp2_zero>>)
           Rest(k) == fp2_subc_low(fp2_subc_low(u2[k], u0[k]), u1[k])
<1>3. fp12_mul_dxs(a, l) = fp12_rdcn(<<EvenHalf(u0, u1), <<Rest(1), Rest(2), Rest(3)>>>>)
  BY DEF fp12_mul_dxs
<1>4. u0 \in Un6
  <2>1. a[1][1] \in Fp2 /\ a[1][2] \in Fp2 /\ a[1][3] \in Fp2
    BY <1>2, Fp6Parts
  <2>2. /\ fp2_muln_low(a[1][1], l[1][1]) \in Un2 /\ fp2_muln_low(a[1][2], l[1][1]) \in Un2
        /\ fp2_muln_low(a[1][3], l[1][1]) \in Un2
    BY <1>2, <2>1, MulnCanonical
  <2> QED BY <2>2 DEF Un6
<1>5. u1 \in Un6
  BY <1>2, Fp6MulDxsUnreduced
<1>6. u2 \in Un6
  <2>1. fp2_add(l[1][1], l[2][1]) \in Fp2 /\ fp6_add(a[1], a[2]) \in Fp6
    BY <1>2, Fp2Closed, Fp6Closed
  <2> QED BY <1>2, <2>1, Fp6MulDxsUnreduced
<1> HIDE DEF u0, u1, u2
<1>7. ASSUME NEW k \in 1 .. 3 PROVE Rest(k) \in Un2
  <2>1. u0[k] \in Un2 /\ u1[k] \in Un2 /\ u2[k] \in Un2
    BY <1>4, <1>5, <1>6, Un6Parts
  <2>2. fp2_subc_low(u2[k], u0[k]) \in Un2
    BY <2>1, Un2Closed
  <2> QED BY <2>1, <2>2, Un2Closed
<1> HIDE DEF Rest
<1>8. EvenHalf(u0, u1) \in Un6 /\ <<Rest(1), Rest(2), Rest(3)>> \in Un6
  BY <1>4, <1>5, <1>7, EvenHalfFits DEF Un6
<1>9. EvenHalf(u0, u1) \in Within6 /\ <<Rest(1), Rest(2), Rest(3)>> \in Within6
  BY <1>8, Un6IsWithin
<1>10. <<EvenHalf(u0, u1), <<Rest(1), Rest(2), Rest(3)>>>> \in Within6 \X Within6
  BY <1>9
<1>11. fp12_mul_dxs(a, l) \in Fp12
  BY <1>3, <1>10, ReducedFp12
<1> QED BY <1>1, <1>11

-----------------------------------------------------------------------------
(* Everything the pairing computes is canonical. *)

LEMMA OneTyped == one \in Fp /\ 0 \in Fp
<1>1. R \in Int /\ R % P \in 0 .. P - 1
  BY Sizes, DivMod
<1> QED BY <1>1, Sizes DEF one, Fp

LEMMA UnitsTyped == fp2_one \in Fp2 /\ fp2_zero \in Fp2 /\ fp12_one \in Fp12
<1>1. fp2_one \in Fp2 /\ fp2_zero \in Fp2
  BY OneTyped DEF fp2_one, fp2_zero, Fp2
<1>2. <<fp2_one, fp2_zero, fp2_zero>> \in Fp6 /\ <<fp2_zero, fp2_zero, fp2_zero>> \in Fp6
  BY <1>1 DEF Fp6
<1> QED BY <1>1, <1>2 DEF fp12_one, Fp12

LEMMA MulTyped ==
  ASSUME NEW a \in Fp, NEW b \in Fp
  PROVE  fp_mul(a, b) \in Fp /\ fp_sqr(a) \in Fp
<1>1. a \in 0 .. 2 * P - 1 /\ b \in 0 .. 2 * P - 1
  BY Sizes DEF Fp
<1> QED BY <1>1, LazyMulCorrect DEF fp_sqr

LEMMA MontyTyped == ASSUME NEW v \in Int PROVE Monty(v) \in Fp
<1>1. R \in Int /\ R % P \in 0 .. P - 1
  BY Sizes, DivMod
<1>2. v * (R % P) \in Int
  BY <1>1, Sizes
<1>3. (v * (R % P)) % P \in 0 .. P - 1
  BY <1>2, Sizes, DivMod
<1> QED BY <1>3 DEF Monty, Fp

LEMMA ConvTyped == fp_prime_conv_dig(QNR) \in Fp
<1>1. QNR \in Int /\ one \in Int
  BY TowerAssumption, OneTyped, FpInt
<1>2. QNR * one \in Int
  BY <1>1
<1>3. (QNR * one) % P \in 0 .. P - 1
  BY <1>2, Sizes, DivMod
<1> QED BY <1>3 DEF fp_prime_conv_dig, Fp

(* Half of a positive number is smaller. *)
LEMMA Halves ==
  ASSUME NEW e \in Nat
  PROVE  /\ e \div 2 \in Nat /\ e \div 2 <= e
         /\ e # 0 => e \div 2 < e
<1>1. e \div 2 \in Int /\ e % 2 \in 0 .. 1 /\ e = (e \div 2) * 2 + (e % 2)
  BY DivMod
<1> QED BY <1>1

(* Square and multiply, on a set that contains what it computes.           *)
PowersOf(f, N, base, H) ==
  f = [e \in 0 .. N |-> IF e = 0 THEN base ELSE H[<<e, f[e \div 2]>>]]

LEMMA PowersExist ==
  ASSUME NEW N \in Nat, NEW D, NEW base \in D, NEW H \in [(0 .. N) \X D -> D]
  PROVE  \E f \in [0 .. N -> D] : PowersOf(f, N, base, H)
<1> DEFINE M  == 0 .. N
           mu == [e \in M |-> e]
           E  == [e \in {0} |-> base]
           s  == [e \in M |-> e \div 2]
<1>1. mu \in [M -> Nat] /\ E \in [{0} -> D] /\ {0} \in SUBSET M
  OBVIOUS
<1>2. \A e \in M : e \div 2 \in M
  BY Halves
<1>3. s \in [M -> M]
  <2> HIDE DEF M
  <2> QED BY <1>2
<1>4. \A x \in M \ {0} : mu[s[x]] < mu[x]
  <2> SUFFICES ASSUME NEW x \in M, x # 0 PROVE mu[s[x]] < mu[x]
    OBVIOUS
  <2>1. x \div 2 \in M /\ x \div 2 < x /\ s[x] = x \div 2
    BY Halves, <1>2
  <2> QED BY <2>1
<1> HIDE DEF mu, E, s
<1>5. PICK f \in [M -> D] : Solves(f, M, {0}, E, s, H)
  <2> HIDE DEF M
  <2> QED BY <1>1, <1>3, <1>4, RecursionExists, Zenon DEF M
<1>6. \A e \in M : f[e] = IF e = 0 THEN base ELSE H[<<e, f[e \div 2]>>]
  <2> SUFFICES ASSUME NEW e \in M PROVE f[e] = IF e = 0 THEN base ELSE H[<<e, f[e \div 2]>>]
    OBVIOUS
  <2>1. f[e] = IF e \in {0} THEN E[e] ELSE H[<<e, f[s[e]]>>]
    BY <1>5 DEF Solves
  <2>2. s[e] = e \div 2 /\ (e = 0 => E[e] = base)
    BY DEF s, E
  <2> QED BY <2>1, <2>2
<1> QED BY <1>6 DEF PowersOf

LEMMA HalvingArguments ==
  ASSUME NEW N \in Nat, NEW S, 0 \in S, \A e \in 1 .. N : e \div 2 \in S => e \in S
  PROVE  \A e \in 0 .. N : e \in S
<1> DEFINE T == (0 .. N) \ S
<1>1. SUFFICES ASSUME T # {} PROVE FALSE
  OBVIOUS
<1>2. PICK m \in T : \A l \in T : ~ (l < m)
  <2>1. T \subseteq Nat
    OBVIOUS
  <2> HIDE DEF T
  <2> QED BY <1>1, <2>1, NatLeast, Zenon
<1>3. m \in 1 .. N /\ m \in Nat /\ m # 0
  BY <1>2
<1>4. m \div 2 \in Nat /\ m \div 2 < m
  BY <1>3, Halves
<1>5. m \div 2 \in T
  BY <1>2, <1>3, <1>4
<1> QED BY <1>2, <1>4, <1>5

LEMMA InvTyped == ASSUME NEW a \in Fp PROVE fp_inv(a) \in Fp
<1> DEFINE N == P - 2
           Next0(e, y) == LET s == fp_sqr(y) IN IF e % 2 = 0 THEN s ELSE fp_mul(s, a)
           Is(f) == f = [e \in 0 .. N |-> IF e = 0 THEN one ELSE Next0(e, f[e \div 2])]
           H == [w \in (0 .. N) \X Fp |-> Next0(w[1], w[2])]
           v == CHOOSE f : Is(f)
<1>1. N \in Nat
  BY Sizes
<1>2. ASSUME NEW e, NEW y \in Fp PROVE Next0(e, y) \in Fp
  BY MulTyped
<1> HIDE DEF Next0, N
<1>3. H \in [(0 .. N) \X Fp -> Fp]
  BY <1>2
<1>4. PICK f \in [0 .. N -> Fp] : PowersOf(f, N, one, H)
  <2> HIDE DEF H
  <2> QED BY <1>1, <1>3, OneTyped, PowersExist, Zenon
<1>5. Is(f)
  <2>1. \A e \in 0 .. N : e \div 2 \in 0 .. N
    BY <1>1, Halves
  <2>2. \A e \in 0 .. N : H[<<e, f[e \div 2]>>] = Next0(e, f[e \div 2])
    BY <2>1
  <2> HIDE DEF H, Next0
  <2> QED BY <1>4, <2>2 DEF PowersOf
<1>6. Is(v)
  <2> HIDE DEF Is
  <2> QED BY <1>5, Zenon
<1>7. fp_inv(a) = v[P - 2]
  BY DEF fp_inv, N, Next0
<1> HIDE DEF v
<1>8. v[0] = one /\ \A e \in 1 .. N : v[e] = Next0(e, v[e \div 2])
  BY <1>1, <1>6
<1> DEFINE S == {e \in 0 .. N : v[e] \in Fp}
<1>9. 0 \in S
  BY <1>1, <1>8, OneTyped
<1>10. ASSUME NEW e \in 1 .. N, e \div 2 \in S PROVE e \in S
  <2>1. v[e] \in Fp
    BY <1>2, <1>8, <1>10
  <2> QED BY <2>1, <1>1
<1> HIDE DEF S
<1>11. \A e \in 0 .. N : e \in S
  BY <1>1, <1>9, <1>10, HalvingArguments
<1>12. v[N] \in Fp
  BY <1>1, <1>11 DEF S
<1> QED BY <1>7, <1>12 DEF N

LEMMA Un2Reduced ==
  ASSUME NEW d \in Un2
  PROVE  d \in Within2 /\ fp2_rdcn_low(d) \in Fp2
<1>1. d \in Within2
  BY UnreducedIsWithin DEF Un2, Within2
<1> QED BY <1>1, ReducedFp2

LEMMA Fp2Products ==
  ASSUME NEW a \in Fp2, NEW b \in Fp2
  PROVE  fp2_mul(a, b) \in Fp2 /\ fp2_sqr(a) \in Fp2
BY MulnCanonical, SqrnCanonical, Un2Reduced DEF fp2_mul, fp2_sqr

LEMMA Fp2Others ==
  ASSUME NEW a \in Fp2, NEW c \in Fp
  PROVE  /\ fp2_mul_fp(a, c) \in Fp2 /\ fp2_mul_art(a) \in Fp2
         /\ fp2_norm_low(a) \in Fp2 /\ fp2_frb(a) \in Fp2
<1>1. a[1] \in Fp /\ a[2] \in Fp
  BY DEF Fp2
<1>2. ASSUME NEW e \in Fp PROVE fp2_mul_fp(a, e) \in Fp2
  <2>1. fp_mul(a[1], e) \in Fp /\ fp_mul(a[2], e) \in Fp
    BY <1>1, MulTyped
  <2> QED BY <2>1 DEF fp2_mul_fp, Fp2
<1>3. fp2_mul_art(a) \in Fp2 /\ fp2_frb(a) \in Fp2
  BY <1>1, NegmCorrect DEF fp2_mul_art, fp2_frb, Fp2
<1>4. fp2_norm_low(a) \in Fp2
  BY <1>2, <1>3, ConvTyped, Fp2Closed DEF fp2_norm_low
<1> QED BY <1>2, <1>3, <1>4

LEMMA Fp2InvTyped == ASSUME NEW a \in Fp2 PROVE fp2_inv(a) \in Fp2
<1> DEFINE v == fp_inv(fp_addm_low(fp_sqr(a[1]), fp_sqr(a[2])))
<1>1. a[1] \in Fp /\ a[2] \in Fp
  BY DEF Fp2
<1>2. v \in Fp
  BY <1>1, MulTyped, AddmCorrect, InvTyped
<1>3. fp2_inv(a) = <<fp_mul(a[1], v), fp_negm_low(fp_mul(a[2], v))>>
  BY DEF fp2_inv
<1> HIDE DEF v
<1>4. fp_mul(a[1], v) \in Fp /\ fp_negm_low(fp_mul(a[2], v)) \in Fp
  BY <1>1, <1>2, MulTyped, NegmCorrect
<1> QED BY <1>3, <1>4 DEF Fp2

LEMMA HalfTyped == ASSUME NEW x \in Unreduced PROVE fp_hlvd_low(x) \in Unreduced
<1> DEFINE e == IF x % 2 = 1 THEN x + P ELSE x
<1>1. x \in Int /\ 0 <= x /\ x < P * R /\ P * R \in Int /\ P \in Int /\ P > 2 /\ R * R \in Int
  BY UnreducedFits, Sizes
<1>2. e \in Int /\ 0 <= e /\ e < P * R + P /\ e < R * R
  BY <1>1, WithinFacts
<1> HIDE DEF e
<1>3. e % (R * R) = e
  BY <1>2, FitsDV
<1>4. e \div 2 \in Int /\ e % 2 \in 0 .. 1 /\ e = (e \div 2) * 2 + (e % 2)
  BY <1>2, DivMod
<1>5. e \div 2 \in Unreduced
  BY <1>1, <1>2, <1>4, WithinFacts DEF Unreduced
<1>6. fp_hlvd_low(x) = e \div 2
  BY <1>3 DEF fp_hlvd_low, e
<1> QED BY <1>5, <1>6

LEMMA Half2Typed == ASSUME NEW u \in Un2 PROVE fp2_hlvd_low(u) \in Un2
BY HalfTyped DEF fp2_hlvd_low, Un2

LEMMA Fp6SqrUnreduced == ASSUME NEW a \in Fp6 PROVE fp6_sqr_unr(a) \in Un6
<1> DEFINE t3 == fp2_add(a[1], a[3])
           u0 == fp2_sqrn_low(a[1])
           u1 == fp2_muln_low(fp2_dbl(a[2]), a[3])
           u2 == fp2_sqrn_low(a[3])
           u3 == fp2_sqrn_low(fp2_add(t3, a[2]))
           u4 == fp2_hlvd_low(fp2_addc_low(fp2_sqrn_low(fp2_sub(t3, a[2])), u3))
<1>1. a[1] \in Fp2 /\ a[2] \in Fp2 /\ a[3] \in Fp2
  BY Fp6Parts
<1>2. t3 \in Fp2 /\ fp2_dbl(a[2]) \in Fp2
  BY <1>1, Fp2Closed
<1>3. u0 \in Un2 /\ u1 \in Un2 /\ u2 \in Un2
  BY <1>1, <1>2, SqrnCanonical, MulnCanonical
<1>4. u3 \in Un2 /\ u4 \in Un2
  <2> HIDE DEF t3
  <2>1. fp2_add(t3, a[2]) \in Fp2 /\ fp2_sub(t3, a[2]) \in Fp2
    BY <1>1, <1>2, Fp2Closed
  <2>2. u3 \in Un2 /\ fp2_sqrn_low(fp2_sub(t3, a[2])) \in Un2
    BY <2>1, SqrnCanonical
  <2> QED BY <2>2, Un2Closed, Half2Typed
<1>5. fp6_sqr_unr(a) = <<fp2_addc_low(u0, fp2_nord_low(u1)),
                         fp2_addc_low(fp2_subc_low(u3, fp2_addc_low(u1, u4)), fp2_nord_low(u2)),
                         fp2_subc_low(u4, fp2_addc_low(u0, u2))>>
  BY DEF fp6_sqr_unr
<1> HIDE DEF u0, u1, u2, u3, u4
<1>6. /\ fp2_nord_low(u1) \in Un2 /\ fp2_nord_low(u2) \in Un2
      /\ fp2_addc_low(u1, u4) \in Un2 /\ fp2_addc_low(u0, u2) \in Un2
  BY <1>3, <1>4, NordFits, Un2Closed
<1>7. fp2_subc_low(u3, fp2_addc_low(u1, u4)) \in Un2
  BY <1>4, <1>6, Un2Closed
<1>8. /\ fp2_addc_low(u0, fp2_nord_low(u1)) \in Un2
      /\ fp2_addc_low(fp2_subc_low(u3, fp2_addc_low(u1, u4)), fp2_nord_low(u2)) \in Un2
      /\ fp2_subc_low(u4, fp2_addc_low(u0, u2)) \in Un2
  BY <1>3, <1>4, <1>6, <1>7, Un2Closed
<1> QED BY <1>5, <1>8 DEF Un6

LEMMA Fp6Products ==
  ASSUME NEW a \in Fp6, NEW b \in Fp6
  PROVE  fp6_mul(a, b) \in Fp6 /\ fp6_sqr(a) \in Fp6 /\ fp6_mul_art(a) \in Fp6
<1>1. fp6_mul_unr(a, b) \in Within6 /\ fp6_sqr_unr(a) \in Within6
  BY Fp6MulUnreduced, Fp6SqrUnreduced, Un6IsWithin
<1>2. fp6_mul(a, b) \in Fp6 /\ fp6_sqr(a) \in Fp6
  BY <1>1, ReducedFp6 DEF fp6_mul, fp6_sqr
<1>3. a[1] \in Fp2 /\ a[2] \in Fp2 /\ a[3] \in Fp2
  BY Fp6Parts
<1>4. fp2_norm_low(a[3]) \in Fp2
  BY <1>3, OneTyped, Fp2Others
<1> QED BY <1>2, <1>3, <1>4 DEF fp6_mul_art, Fp6

LEMMA Fp6InvTyped == ASSUME NEW a \in Fp6 PROVE fp6_inv(a) \in Fp6
<1> DEFINE v0 == fp2_sub(fp2_sqr(a[1]), fp2_norm_low(fp2_mul(a[2], a[3])))
           v1 == fp2_sub(fp2_norm_low(fp2_sqr(a[3])), fp2_mul(a[1], a[2]))
           v2 == fp2_sub(fp2_sqr(a[2]), fp2_mul(a[1], a[3]))
           t0 == fp2_inv(fp2_add(fp2_add(fp2_mul(a[1], v0), fp2_norm_low(fp2_mul(a[2], v2))),
                                 fp2_norm_low(fp2_mul(a[3], v1))))
<1>1. a[1] \in Fp2 /\ a[2] \in Fp2 /\ a[3] \in Fp2
  BY Fp6Parts
<1>2. v0 \in Fp2 /\ v1 \in Fp2 /\ v2 \in Fp2
  <2>1. /\ fp2_sqr(a[1]) \in Fp2 /\ fp2_sqr(a[2]) \in Fp2 /\ fp2_sqr(a[3]) \in Fp2
        /\ fp2_mul(a[2], a[3]) \in Fp2 /\ fp2_mul(a[1], a[2]) \in Fp2 /\ fp2_mul(a[1], a[3]) \in Fp2
    BY <1>1, Fp2Products
  <2>2. fp2_norm_low(fp2_mul(a[2], a[3])) \in Fp2 /\ fp2_norm_low(fp2_sqr(a[3])) \in Fp2
    BY <2>1, OneTyped, Fp2Others
  <2> QED BY <2>1, <2>2, Fp2Closed
<1>3. t0 \in Fp2
  <2> HIDE DEF v0, v1, v2
  <2>1. fp2_mul(a[1], v0) \in Fp2 /\ fp2_mul(a[2], v2) \in Fp2 /\ fp2_mul(a[3], v1) \in Fp2
    BY <1>1, <1>2, Fp2Products
  <2>2. fp2_norm_low(fp2_mul(a[2], v2)) \in Fp2 /\ fp2_norm_low(fp2_mul(a[3], v1)) \in Fp2
    BY <2>1, OneTyped, Fp2Others
  <2>3. fp2_add(fp2_mul(a[1], v0), fp2_norm_low(fp2_mul(a[2], v2))) \in Fp2
    BY <2>1, <2>2, Fp2Closed
  <2>4. fp2_add(fp2_add(fp2_mul(a[1], v0), fp2_norm_low(fp2_mul(a[2], v2))),
                fp2_norm_low(fp2_mul(a[3], v1))) \in Fp2
    BY <2>2, <2>3, Fp2Closed
  <2> QED BY <2>4, Fp2InvTyped
<1>4. fp6_inv(a) = <<fp2_mul(v0, t0), fp2_mul(v1, t0), fp2_mul(v2, t0)>>
  BY DEF fp6_inv
<1> HIDE DEF v0, v1, v2, t0
<1>5. fp2_mul(v0, t0) \in Fp2 /\ fp2_mul(v1, t0) \in Fp2 /\ fp2_mul(v2, t0) \in Fp2
  BY <1>2, <1>3, Fp2Products
<1> QED BY <1>4, <1>5 DEF Fp6

LEMMA Fp12Others ==
  ASSUME NEW a \in Fp12
  PROVE  fp12_inv(a) \in Fp12 /\ fp12_inv_cyc(a) \in Fp12
<1> DEFINE t0 == fp6_inv(fp6_sub(fp6_sqr(a[1]), fp6_mul_art(fp6_sqr(a[2]))))
<1>1. a[1] \in Fp6 /\ a[2] \in Fp6
  BY DEF Fp12
<1>2. fp6_neg(a[2]) \in Fp6 /\ fp6_sqr(a[1]) \in Fp6 /\ fp6_mul_art(fp6_sqr(a[2])) \in Fp6
  BY <1>1, Fp6Closed, Fp6Products
<1>3. t0 \in Fp6
  BY <1>2, Fp6Closed, Fp6InvTyped
<1>4. fp12_inv(a) = <<fp6_mul(a[1], t0), fp6_mul(fp6_neg(a[2]), t0)>>
  BY DEF fp12_inv
<1> HIDE DEF t0
<1>5. fp6_mul(a[1], t0) \in Fp6 /\ fp6_mul(fp6_neg(a[2]), t0) \in Fp6
  BY <1>1, <1>2, <1>3, Fp6Products
<1> QED BY <1>1, <1>2, <1>4, <1>5 DEF fp12_inv_cyc, Fp12

(* A loop whose values are in T[k] after k rounds, T being a chain of sets *)
(* that a round leads along.                                               *)
Leads(T, N, H, first) == \A k \in first .. N : \A y \in T[k - 1] : H[<<k, y>>] \in T[k]

LEMMA LoopTyped ==
  ASSUME NEW N \in Nat, NEW D, NEW T \in [0 .. N -> SUBSET D], NEW base \in T[0], NEW H,
         Leads(T, N, H, 1)
  PROVE  \E f \in [0 .. N -> D] : LoopOf(f, N, base, H)
<1> DEFINE J == [w \in (1 .. N) \X D |-> IF w[2] \in T[w[1] - 1] THEN H[w] ELSE w[2]]
<1>0. base \in D
  <2>1. T[0] \in SUBSET D
    OBVIOUS
  <2> QED BY <2>1
<1>1. J \in [(1 .. N) \X D -> D]
  <2> SUFFICES ASSUME NEW k \in 1 .. N, NEW y \in D, y \in T[k - 1]
               PROVE  H[<<k, y>>] \in D
    OBVIOUS
  <2>1. H[<<k, y>>] \in T[k] /\ T[k] \in SUBSET D
    BY DEF Leads
  <2> QED BY <2>1
<1> HIDE DEF J
<1>2. PICK f \in [0 .. N -> D] : LoopOf(f, N, base, J)
  BY <1>0, <1>1, LoopExists, Zenon
<1>3. f[0] = base /\ \A k \in 1 .. N : f[k] = J[<<k, f[k - 1]>>]
  BY <1>2 DEF LoopOf
<1> DEFINE S == {k \in 0 .. N : f[k] \in T[k]}
<1>4. 0 \in S
  BY <1>3
<1>5. ASSUME NEW k \in 0 .. N - 1, k \in S PROVE k + 1 \in S
  <2> DEFINE m == k + 1
  <2>1. m \in 1 .. N /\ m - 1 = k /\ f[k] \in D /\ f[k] \in T[k]
    BY <1>5
  <2> HIDE DEF m
  <2>2. <<m, f[k]>> \in (1 .. N) \X D
    BY <2>1
  <2>3. J[<<m, f[k]>>] = H[<<m, f[k]>>]
    BY <2>1, <2>2 DEF J
  <2>4. f[m] = J[<<m, f[k]>>]
    BY <2>1, <1>3
  <2>5. H[<<m, f[k]>>] \in T[m]
    BY <2>1 DEF Leads
  <2>6. m \in S
    BY <2>1, <2>3, <2>4, <2>5
  <2> QED BY <2>6 DEF m
<1> HIDE DEF S
<1>6. \A k \in 0 .. N : k \in S
  BY <1>4, <1>5, UpTo
<1>7. \A k \in 1 .. N : f[k] = H[<<k, f[k - 1]>>]
  <2> SUFFICES ASSUME NEW k \in 1 .. N PROVE f[k] = H[<<k, f[k - 1]>>]
    OBVIOUS
  <2>1. k - 1 \in 0 .. N
    OBVIOUS
  <2>2. f[k - 1] \in T[k - 1] /\ f[k - 1] \in D
    BY <1>6, <2>1 DEF S
  <2>3. J[<<k, f[k - 1]>>] = H[<<k, f[k - 1]>>]
    BY <2>2 DEF J
  <2> QED BY <1>3, <2>3
<1> QED BY <1>3, <1>7 DEF LoopOf

(* The same for the loops that begin at 1. *)
LoopFromOne(f, N, base, H) ==
  f = [k \in 1 .. N |-> IF k = 1 THEN base ELSE H[<<k, f[k - 1]>>]]

LEMMA LoopFromOneTyped ==
  ASSUME NEW N \in Nat \ {0}, NEW D, NEW T \in [1 .. N -> SUBSET D], NEW base \in T[1], NEW H,
         Leads(T, N, H, 2)
  PROVE  \E f \in [1 .. N -> D] : LoopFromOne(f, N, base, H)
<1> DEFINE T0 == [k \in 0 .. N - 1 |-> T[k + 1]]
           H0 == [w \in (1 .. N - 1) \X D |-> H[<<w[1] + 1, w[2]>>]]
<1>1. N - 1 \in Nat /\ T0 \in [0 .. N - 1 -> SUBSET D] /\ base \in T0[0]
  <2>1. \A k \in 0 .. N - 1 : k + 1 \in 1 .. N
    OBVIOUS
  <2>2. T0[0] = T[1]
    OBVIOUS
  <2> QED BY <2>1, <2>2
<1>2. Leads(T0, N - 1, H0, 1)
  <2> SUFFICES ASSUME NEW k \in 1 .. N - 1, NEW y \in T0[k - 1] PROVE H0[<<k, y>>] \in T0[k]
    BY DEF Leads
  <2>1. T0[k - 1] = T[k] /\ T0[k] = T[k + 1] /\ k + 1 \in 2 .. N /\ (k + 1) - 1 = k
    OBVIOUS
  <2>2. y \in T[k] /\ T[k] \in SUBSET D
    BY <2>1
  <2>3. H0[<<k, y>>] = H[<<k + 1, y>>]
    BY <2>2
  <2>4. \A z \in T[(k + 1) - 1] : H[<<k + 1, z>>] \in T[k + 1]
    BY <2>1 DEF Leads
  <2> QED BY <2>1, <2>2, <2>3, <2>4
<1> HIDE DEF T0, H0
<1>3. PICK f \in [0 .. N - 1 -> D] : LoopOf(f, N - 1, base, H0)
  BY <1>1, <1>2, LoopTyped, Zenon
<1> DEFINE g == [k \in 1 .. N |-> f[k - 1]]
<1>4. g \in [1 .. N -> D]
  OBVIOUS
<1>5. ASSUME NEW k \in 1 .. N PROVE g[k] = IF k = 1 THEN base ELSE H[<<k, g[k - 1]>>]
  <2>0. k - 1 \in 0 .. N - 1 /\ g[k] = f[k - 1]
    OBVIOUS
  <2>1. f[k - 1] = IF k - 1 = 0 THEN base ELSE H0[<<k - 1, f[(k - 1) - 1]>>]
    BY <1>3, <2>0 DEF LoopOf
  <2>2. CASE k = 1
    BY <2>0, <2>1, <2>2
  <2>3. CASE k # 1
    <3>1. /\ k - 1 \in 1 .. N - 1 /\ k - 1 # 0 /\ (k - 1) + 1 = k
          /\ (k - 1) - 1 \in 0 .. N - 1 /\ k - 1 \in 1 .. N
      BY <2>3
    <3>2. g[k - 1] = f[(k - 1) - 1] /\ f[(k - 1) - 1] \in D
      BY <3>1
    <3>3. H0[<<k - 1, f[(k - 1) - 1]>>] = H[<<k, f[(k - 1) - 1]>>]
      BY <3>1, <3>2 DEF H0
    <3> QED BY <2>0, <2>1, <2>3, <3>1, <3>2, <3>3
  <2> QED BY <2>2, <2>3
<1>6. g = [k \in 1 .. N |-> g[k]]
  OBVIOUS
<1> HIDE DEF g
<1>7. LoopFromOne(g, N, base, H)
  BY <1>5, <1>6 DEF LoopFromOne
<1> QED BY <1>4, <1>7

(* Induction from 1. *)
LEMMA FromOne ==
  ASSUME NEW N \in Nat \ {0}, NEW S, 1 \in S, \A k \in 2 .. N : k - 1 \in S => k \in S
  PROVE  \A k \in 1 .. N : k \in S
<1> DEFINE S0 == {k \in 0 .. N - 1 : k + 1 \in S}
<1>1. 0 \in S0
  OBVIOUS
<1>2. ASSUME NEW k \in 0 .. (N - 1) - 1, k \in S0 PROVE k + 1 \in S0
  <2>1. (k + 1) + 1 \in 2 .. N /\ ((k + 1) + 1) - 1 = k + 1 /\ k + 1 \in 0 .. N - 1
    BY <1>2
  <2> QED BY <1>2, <2>1
<1>3. N - 1 \in Nat
  OBVIOUS
<1> HIDE DEF S0
<1>4. \A k \in 0 .. N - 1 : k \in S0
  BY <1>1, <1>2, <1>3, UpTo
<1>5. ASSUME NEW k \in 1 .. N PROVE k \in S
  <2>1. k - 1 \in 0 .. N - 1 /\ (k - 1) + 1 = k
    OBVIOUS
  <2>2. k - 1 \in S0
    BY <1>4, <2>1
  <2> QED BY <2>1, <2>2 DEF S0
<1> QED BY <1>5

-----------------------------------------------------------------------------
(* Frobenius. *)

(* The powers 1 .. 5 of an element. *)
PowerSeq(g) ==
  LET to[k \in 1 .. 5] == IF k = 1 THEN <<g>> ELSE Append(to[k - 1], fp2_mul(to[k - 1][k - 1], g))
  IN  to[5]

LEMMA PowerSeqTyped ==
  ASSUME NEW g \in Fp2
  PROVE  Len(PowerSeq(g)) = 5 /\ \A j \in 1 .. 5 : PowerSeq(g)[j] \in Fp2
<1> DEFINE D == Seq(Fp2)
           Next0(k, y) == Append(y, fp2_mul(y[k - 1], g))
           Is(f) == f = [k \in 1 .. 5 |-> IF k = 1 THEN <<g>> ELSE Next0(k, f[k - 1])]
           H == [w \in (1 .. 5) \X D |-> Next0(w[1], w[2])]
           T == [k \in 1 .. 5 |-> {y \in D : Len(y) = k}]
           v == CHOOSE f : Is(f)
<1>1. ASSUME NEW k \in 2 .. 5, NEW y \in T[k - 1] PROVE Next0(k, y) \in T[k] /\ y \in D
  <2>1. y \in Seq(Fp2) /\ Len(y) = k - 1 /\ k - 1 \in 1 .. Len(y)
    OBVIOUS
  <2>2. y[k - 1] \in Fp2
    BY <2>1
  <2> DEFINE z == fp2_mul(y[k - 1], g)
  <2>3. z \in Fp2
    BY <2>2, Fp2Products
  <2> HIDE DEF T, z
  <2>4. Append(y, z) \in Seq(Fp2) /\ Len(Append(y, z)) = k
    BY <2>1, <2>3
  <2>5. Next0(k, y) \in Seq(Fp2) /\ Len(Next0(k, y)) = k
    BY <2>4 DEF z
  <2> HIDE DEF Next0
  <2> QED BY <2>1, <2>5 DEF T
<1>2. T \in [1 .. 5 -> SUBSET D] /\ <<g>> \in T[1]
  <2>1. <<g>> \in Seq(Fp2) /\ Len(<<g>>) = 1
    OBVIOUS
  <2> QED BY <2>1
<1> HIDE DEF Next0, T, D
<1>3. Leads(T, 5, H, 2)
  <2> SUFFICES ASSUME NEW k \in 2 .. 5, NEW y \in T[k - 1] PROVE H[<<k, y>>] \in T[k]
    BY DEF Leads
  <2>1. <<k, y>> \in (1 .. 5) \X D /\ Next0(k, y) \in T[k]
    BY <1>1
  <2> QED BY <2>1
<1>4. PICK f \in [1 .. 5 -> D] : LoopFromOne(f, 5, <<g>>, H)
  <2>1. 5 \in Nat \ {0}
    OBVIOUS
  <2> HIDE DEF H
  <2> QED BY <1>2, <1>3, <2>1, LoopFromOneTyped, Zenon
<1>5. Is(f)
  <2>1. \A k \in 2 .. 5 : k - 1 \in 1 .. 5 /\ H[<<k, f[k - 1]>>] = Next0(k, f[k - 1])
    OBVIOUS
  <2> HIDE DEF H
  <2> QED BY <1>4, <2>1 DEF LoopFromOne
<1>6. Is(v)
  <2> HIDE DEF Is
  <2> QED BY <1>5, Zenon
<1>7. PowerSeq(g) = v[5]
  BY DEF PowerSeq, Next0
<1> HIDE DEF v
<1>8. v[1] = <<g>> /\ \A k \in 2 .. 5 : v[k] = Next0(k, v[k - 1])
  BY <1>6
<1> DEFINE S == {k \in 1 .. 5 : v[k] \in T[k]}
<1>9. 1 \in S /\ \A k \in 2 .. 5 : k - 1 \in S => k \in S
  <2> SUFFICES ASSUME NEW k \in 2 .. 5, k - 1 \in S PROVE k \in S
    BY <1>2, <1>8
  <2> QED BY <1>1, <1>8
<1> HIDE DEF S
<1>10. \A k \in 1 .. 5 : k \in S
  <2>1. 5 \in Nat \ {0}
    OBVIOUS
  <2> QED BY <1>9, <2>1, FromOne
<1>11. v[5] \in T[5]
  BY <1>10 DEF S
<1> QED BY <1>7, <1>11 DEF T, D

LEMMA FrobeniusConstants == \A j \in 1 .. 5 : fp2_p1[j] \in Fp2
<1> DEFINE Next0(e, y) == LET s == fp2_sqr(y) IN IF e % 2 = 0 THEN s ELSE fp2_norm_low(s)
           Is(f) == f = [e \in 0 .. P |-> IF e = 0 THEN fp2_one ELSE Next0(e, f[e \div 2])]
           H == [w \in (0 .. P) \X Fp2 |-> Next0(w[1], w[2])]
           v == CHOOSE f : Is(f)
<1>1. P \in Nat
  BY Sizes
<1>2. ASSUME NEW e, NEW y \in Fp2 PROVE Next0(e, y) \in Fp2
  BY Fp2Products, OneTyped, Fp2Others
<1> HIDE DEF Next0
<1>3. H \in [(0 .. P) \X Fp2 -> Fp2]
  BY <1>2
<1>4. PICK f \in [0 .. P -> Fp2] : PowersOf(f, P, fp2_one, H)
  <2> HIDE DEF H
  <2> QED BY <1>1, <1>3, UnitsTyped, PowersExist, Zenon
<1>5. Is(f)
  <2>1. \A e \in 0 .. P : e \div 2 \in 0 .. P
    BY <1>1, Halves
  <2>2. \A e \in 0 .. P : H[<<e, f[e \div 2]>>] = Next0(e, f[e \div 2])
    BY <2>1
  <2> HIDE DEF H
  <2> QED BY <1>4, <2>2 DEF PowersOf
<1>6. Is(v)
  <2> HIDE DEF Is
  <2> QED BY <1>5, Zenon
<1>7. fp2_p1 = PowerSeq(v[(P - 1) \div 6])
  BY DEF fp2_p1, PowerSeq, Next0
<1> HIDE DEF v
<1>8. v[0] = fp2_one /\ \A e \in 1 .. P : v[e] = Next0(e, v[e \div 2])
  <2>1. \A e \in 0 .. P : v[e] = IF e = 0 THEN fp2_one ELSE Next0(e, v[e \div 2])
    BY <1>6
  <2> QED BY <1>1, <2>1
<1> DEFINE S == {e \in 0 .. P : v[e] \in Fp2}
<1>9. 0 \in S
  BY <1>1, <1>8, UnitsTyped
<1>10. ASSUME NEW e \in 1 .. P, e \div 2 \in S PROVE e \in S
  <2>1. v[e] \in Fp2
    BY <1>2, <1>8, <1>10
  <2> QED BY <2>1, <1>1
<1> HIDE DEF S
<1>11. \A e \in 0 .. P : e \in S
  BY <1>1, <1>9, <1>10, HalvingArguments
<1>12. (P - 1) \div 6 \in 0 .. P
  <2> DEFINE x == P - 1
           q == x \div 6
  <2>0. x \in Int /\ 0 <= x
    BY Sizes
  <2> HIDE DEF x
  <2>1. q \in Int /\ x % 6 \in 0 .. 6 - 1 /\ x = q * 6 + (x % 6)
    BY <2>0, DivMod
  <2> HIDE DEF q
  <2>2. q \in 0 .. P
    BY <2>0, <2>1, Sizes DEF x
  <2> QED BY <2>2 DEF q, x
<1>13. v[(P - 1) \div 6] \in Fp2
  BY <1>11, <1>12 DEF S
<1> QED BY <1>7, <1>13, PowerSeqTyped

LEMMA Frb1Typed == ASSUME NEW a \in Fp12 PROVE fp12_frb1(a) \in Fp12
<1>1. a[1] \in Fp6 /\ a[2] \in Fp6
  BY DEF Fp12
<1>2. /\ fp2_frb(a[1][1]) \in Fp2 /\ fp2_frb(a[1][2]) \in Fp2 /\ fp2_frb(a[1][3]) \in Fp2
      /\ fp2_frb(a[2][1]) \in Fp2 /\ fp2_frb(a[2][2]) \in Fp2 /\ fp2_frb(a[2][3]) \in Fp2
  BY <1>1, Fp6Parts, OneTyped, Fp2Others
<1>3. /\ fp2_mul_frb(fp2_frb(a[1][2]), 2) \in Fp2 /\ fp2_mul_frb(fp2_frb(a[1][3]), 4) \in Fp2
      /\ fp2_mul_frb(fp2_frb(a[2][1]), 1) \in Fp2 /\ fp2_mul_frb(fp2_frb(a[2][2]), 3) \in Fp2
      /\ fp2_mul_frb(fp2_frb(a[2][3]), 5) \in Fp2
  <2>1. fp2_p1[1] \in Fp2 /\ fp2_p1[2] \in Fp2 /\ fp2_p1[3] \in Fp2 /\ fp2_p1[4] \in Fp2
        /\ fp2_p1[5] \in Fp2
    BY FrobeniusConstants
  <2> QED BY <1>2, <2>1, Fp2Products DEF fp2_mul_frb
<1>4. fp2_frb(a[1][1]) \in Fp2
  BY <1>2
<1> QED BY <1>3, <1>4 DEF fp12_frb1, Fp12, Fp6

LEMMA FrbTyped == ASSUME NEW a \in Fp12, NEW j \in Nat PROVE fp12_frb(a, j) \in Fp12
<1> DEFINE Next0(k, y) == fp12_frb1(y)
           Is(f) == f = [k \in 0 .. 11 |-> IF k = 0 THEN a ELSE Next0(k, f[k - 1])]
           H == [w \in (1 .. 11) \X Fp12 |-> Next0(w[1], w[2])]
           v == CHOOSE f : Is(f)
<1>1. 11 \in Nat
  OBVIOUS
<1>2. ASSUME NEW k, NEW y \in Fp12 PROVE Next0(k, y) \in Fp12
  BY Frb1Typed
<1> HIDE DEF Next0
<1>3. H \in [(1 .. 11) \X Fp12 -> Fp12]
  BY <1>2
<1>4. PICK f \in [0 .. 11 -> Fp12] : LoopOf(f, 11, a, H)
  <2> HIDE DEF H
  <2> QED BY <1>1, <1>3, LoopExists, Zenon
<1>5. Is(f)
  <2>1. \A k \in 1 .. 11 : k - 1 \in 0 .. 11 /\ H[<<k, f[k - 1]>>] = Next0(k, f[k - 1])
    OBVIOUS
  <2> HIDE DEF H
  <2> QED BY <1>4, <2>1 DEF LoopOf
<1>6. Is(v)
  <2> HIDE DEF Is
  <2> QED BY <1>5, Zenon
<1>7. fp12_frb(a, j) = v[j % 12]
  BY DEF fp12_frb, Next0
<1> HIDE DEF v
<1>8. v[0] = a /\ \A k \in 1 .. 11 : v[k] = Next0(k, v[k - 1])
  BY <1>6
<1> DEFINE S == {k \in 0 .. 11 : v[k] \in Fp12}
<1>9. 0 \in S /\ \A k \in 0 .. 11 - 1 : k \in S => k + 1 \in S
  <2> SUFFICES ASSUME NEW k \in 0 .. 10, k \in S PROVE k + 1 \in S
    BY <1>8
  <2>1. k + 1 \in 1 .. 11 /\ (k + 1) - 1 = k
    OBVIOUS
  <2> QED BY <1>2, <1>8, <2>1
<1> HIDE DEF S
<1>10. \A k \in 0 .. 11 : k \in S
  BY <1>1, <1>9, UpTo
<1>11. j % 12 \in 0 .. 11
  OBVIOUS
<1> QED BY <1>7, <1>10, <1>11 DEF S

LEMMA ConvCycTyped == ASSUME NEW a \in Fp12 PROVE fp12_conv_cyc(a) \in Fp12
<1> DEFINE c == fp12_mul(fp12_inv_cyc(a), fp12_inv(a))
<1>0. fp12_zero \in Fp12 /\ fp12_zero \in LineValues
  <2>1. fp2_zero \in Fp2
    BY UnitsTyped
  <2> QED BY <2>1 DEF fp12_zero, Fp12, Fp6, LineValues
<1>1. c \in Fp12
  BY <1>0, Fp12Others, ProductsCanonical
<1>2. fp12_conv_cyc(a) = fp12_mul(c, fp12_frb(c, 2))
  BY DEF fp12_conv_cyc
<1> HIDE DEF c
<1>3. fp12_frb(c, 2) \in Fp12
  BY <1>1, FrbTyped
<1> QED BY <1>0, <1>1, <1>2, <1>3, ProductsCanonical

-----------------------------------------------------------------------------
(* And down to 1. *)
LoopDown(f, N, base, H) ==
  f = [k \in 1 .. N |-> IF k = N THEN base ELSE H[<<k, f[k + 1]>>]]

LEMMA LoopDownTyped ==
  ASSUME NEW N \in Nat \ {0}, NEW D, NEW T \in [1 .. N -> SUBSET D], NEW base \in T[N], NEW H,
         \A k \in 1 .. N - 1 : \A y \in T[k + 1] : H[<<k, y>>] \in T[k]
  PROVE  \E f \in [1 .. N -> D] : LoopDown(f, N, base, H)
<1> DEFINE T0 == [k \in 0 .. N - 1 |-> T[N - k]]
           H0 == [w \in (1 .. N - 1) \X D |-> H[<<N - w[1], w[2]>>]]
<1>1. N - 1 \in Nat /\ T0 \in [0 .. N - 1 -> SUBSET D] /\ base \in T0[0]
  <2>1. \A k \in 0 .. N - 1 : N - k \in 1 .. N
    OBVIOUS
  <2>2. T0[0] = T[N]
    OBVIOUS
  <2> QED BY <2>1, <2>2
<1>2. Leads(T0, N - 1, H0, 1)
  <2> SUFFICES ASSUME NEW k \in 1 .. N - 1, NEW y \in T0[k - 1] PROVE H0[<<k, y>>] \in T0[k]
    BY DEF Leads
  <2>1. T0[k - 1] = T[(N - k) + 1] /\ T0[k] = T[N - k] /\ N - k \in 1 .. N - 1
    <3>1. k - 1 \in 0 .. N - 1 /\ N - (k - 1) = (N - k) + 1
      OBVIOUS
    <3> QED BY <3>1
  <2>2. y \in T[(N - k) + 1] /\ y \in D
    <3>1. (N - k) + 1 \in 1 .. N
      BY <2>1
    <3> QED BY <2>1, <3>1
  <2>3. H0[<<k, y>>] = H[<<N - k, y>>]
    BY <2>2
  <2> QED BY <2>1, <2>2, <2>3
<1> HIDE DEF T0, H0
<1>3. PICK f \in [0 .. N - 1 -> D] : LoopOf(f, N - 1, base, H0)
  BY <1>1, <1>2, LoopTyped, Zenon
<1> DEFINE g == [k \in 1 .. N |-> f[N - k]]
<1>4. g \in [1 .. N -> D]
  OBVIOUS
<1>5. ASSUME NEW k \in 1 .. N PROVE g[k] = IF k = N THEN base ELSE H[<<k, g[k + 1]>>]
  <2>0. N - k \in 0 .. N - 1 /\ g[k] = f[N - k]
    OBVIOUS
  <2>1. f[N - k] = IF N - k = 0 THEN base ELSE H0[<<N - k, f[(N - k) - 1]>>]
    BY <1>3, <2>0 DEF LoopOf
  <2>2. CASE k = N
    BY <2>0, <2>1, <2>2
  <2>3. CASE k # N
    <3>1. /\ N - k \in 1 .. N - 1 /\ N - k # 0 /\ N - (N - k) = k
          /\ (N - k) - 1 \in 0 .. N - 1 /\ k + 1 \in 1 .. N /\ (N - k) - 1 = N - (k + 1)
      BY <2>3
    <3>2. g[k + 1] = f[(N - k) - 1] /\ f[(N - k) - 1] \in D
      BY <3>1
    <3>3. H0[<<N - k, f[(N - k) - 1]>>] = H[<<k, f[(N - k) - 1]>>]
      BY <3>1, <3>2 DEF H0
    <3> QED BY <2>0, <2>1, <2>3, <3>1, <3>2, <3>3
  <2> QED BY <2>2, <2>3
<1>6. g = [k \in 1 .. N |-> g[k]]
  OBVIOUS
<1> HIDE DEF g
<1>7. LoopDown(g, N, base, H)
  BY <1>5, <1>6 DEF LoopDown
<1> QED BY <1>4, <1>7

LEMMA DownFrom ==
  ASSUME NEW N \in Nat \ {0}, NEW S, N \in S, \A k \in 1 .. N - 1 : k + 1 \in S => k \in S
  PROVE  1 \in S
<1> DEFINE S0 == {k \in 0 .. N - 1 : N - k \in S}
<1>1. 0 \in S0
  OBVIOUS
<1>2. ASSUME NEW k \in 0 .. (N - 1) - 1, k \in S0 PROVE k + 1 \in S0
  <2>1. N - (k + 1) \in 1 .. N - 1 /\ (N - (k + 1)) + 1 = N - k
    BY <1>2
  <2> QED BY <1>2, <2>1
<1>3. N - 1 \in Nat
  OBVIOUS
<1> HIDE DEF S0
<1>4. N - 1 \in S0
  BY <1>1, <1>2, <1>3, UpTo
<1> QED BY <1>4 DEF S0

-----------------------------------------------------------------------------
(* One inversion for many elements. *)

Prefixes(a) ==
  LET prods[k \in 1 .. Len(a)] ==
        IF k = 1 THEN <<a[1]>>
        ELSE LET Times1(c) == Append(c, fp2_mul(c[k - 1], a[k])) IN Times1(prods[k - 1])
  IN  prods[Len(a)]

Inverses(a, c) ==
  LET back[k \in 1 .. Len(a)] ==
        IF k = Len(a) THEN [u |-> fp2_inv(c[Len(a)]), inv |-> <<>>]
        ELSE LET Step(s) == [u   |-> fp2_mul(s.u, a[k + 1]),
                             inv |-> <<fp2_mul(c[k], s.u)>> \o s.inv]
             IN  Step(back[k + 1])
  IN  back[1]

LEMMA InvSimParts ==
  ASSUME NEW a
  PROVE  fp2_inv_sim(a) = <<Inverses(a, Prefixes(a)).u>> \o Inverses(a, Prefixes(a)).inv
BY DEF fp2_inv_sim, Prefixes, Inverses

LEMMA PrefixesTyped ==
  ASSUME NEW a \in Seq(Fp2), a # <<>>
  PROVE  Prefixes(a) \in Seq(Fp2) /\ Len(Prefixes(a)) = Len(a)
<1> DEFINE N == Len(a)
           D == Seq(Fp2)
           Next0(k, y) == Append(y, fp2_mul(y[k - 1], a[k]))
           Is(f) == f = [k \in 1 .. N |-> IF k = 1 THEN <<a[1]>> ELSE Next0(k, f[k - 1])]
           H == [w \in (1 .. N) \X D |-> Next0(w[1], w[2])]
           T == [k \in 1 .. N |-> {y \in D : Len(y) = k}]
           v == CHOOSE f : Is(f)
<1>0. N \in Nat \ {0} /\ \A k \in 1 .. N : a[k] \in Fp2
  OBVIOUS
<1>1. ASSUME NEW k \in 2 .. N, NEW y \in T[k - 1] PROVE Next0(k, y) \in T[k] /\ y \in D
  <2>0. k \in 1 .. N /\ k - 1 \in 1 .. N
    BY <1>0
  <2>1. y \in Seq(Fp2) /\ Len(y) = k - 1 /\ k - 1 \in 1 .. Len(y) /\ a[k] \in Fp2
    BY <1>0, <2>0
  <2>2. y[k - 1] \in Fp2
    BY <2>1
  <2> DEFINE z == fp2_mul(y[k - 1], a[k])
  <2>3. z \in Fp2
    BY <2>1, <2>2, Fp2Products
  <2> HIDE DEF T, z
  <2>4. Append(y, z) \in Seq(Fp2) /\ Len(Append(y, z)) = k
    BY <2>1, <2>3
  <2>5. Next0(k, y) \in Seq(Fp2) /\ Len(Next0(k, y)) = k
    BY <2>4 DEF z
  <2> HIDE DEF Next0, N
  <2> QED BY <2>0, <2>1, <2>5 DEF T
<1>2. T \in [1 .. N -> SUBSET D] /\ <<a[1]>> \in T[1]
  <2>1. <<a[1]>> \in Seq(Fp2) /\ Len(<<a[1]>>) = 1 /\ 1 \in 1 .. N
    BY <1>0
  <2> HIDE DEF N
  <2> QED BY <2>1
<1> HIDE DEF Next0, T, D, N
<1>3. Leads(T, N, H, 2)
  <2> SUFFICES ASSUME NEW k \in 2 .. N, NEW y \in T[k - 1] PROVE H[<<k, y>>] \in T[k]
    BY DEF Leads
  <2>1. <<k, y>> \in (1 .. N) \X D /\ Next0(k, y) \in T[k]
    BY <1>0, <1>1
  <2> QED BY <2>1
<1>4. PICK f \in [1 .. N -> D] : LoopFromOne(f, N, <<a[1]>>, H)
  <2> HIDE DEF H
  <2> QED BY <1>0, <1>2, <1>3, LoopFromOneTyped, Zenon
<1>5. Is(f)
  <2>1. \A k \in 2 .. N : k - 1 \in 1 .. N /\ H[<<k, f[k - 1]>>] = Next0(k, f[k - 1])
    BY <1>0
  <2>2. \A k \in 1 .. N : k = 1 \/ k \in 2 .. N
    BY <1>0
  <2> HIDE DEF H
  <2> QED BY <1>4, <2>1, <2>2 DEF LoopFromOne
<1>6. Is(v)
  <2> HIDE DEF Is
  <2> QED BY <1>5, Zenon
<1>7. Prefixes(a) = v[N]
  BY DEF Prefixes, Next0, N
<1> HIDE DEF v
<1>8. v[1] = <<a[1]>> /\ \A k \in 2 .. N : v[k] = Next0(k, v[k - 1])
  <2>1. \A k \in 1 .. N : v[k] = IF k = 1 THEN <<a[1]>> ELSE Next0(k, v[k - 1])
    BY <1>6
  <2> QED BY <1>0, <2>1
<1> DEFINE S == {k \in 1 .. N : v[k] \in T[k]}
<1>9. 1 \in S
  <2>1. 1 \in 1 .. N
    BY <1>0
  <2> QED BY <1>2, <1>8, <2>1
<1>12. \A k \in 2 .. N : k - 1 \in S => k \in S
  BY <1>0, <1>1, <1>8
<1> HIDE DEF S
<1>10. \A k \in 1 .. N : k \in S
  BY <1>0, <1>9, <1>12, FromOne
<1>11. v[N] \in T[N] /\ N \in 1 .. N
  BY <1>0, <1>10 DEF S
<1> QED BY <1>7, <1>11 DEF T, D, N

Rest == [u : Fp2, inv : Seq(Fp2)]

LEMMA InversesTyped ==
  ASSUME NEW a \in Seq(Fp2), a # <<>>, NEW c \in Seq(Fp2), Len(c) = Len(a)
  PROVE  Inverses(a, c) \in Rest /\ Len(Inverses(a, c).inv) = Len(a) - 1
<1> DEFINE N == Len(a)
           base == [u |-> fp2_inv(c[N]), inv |-> <<>>]
           Next0(k, s) == [u |-> fp2_mul(s.u, a[k + 1]), inv |-> <<fp2_mul(c[k], s.u)>> \o s.inv]
           Is(f) == f = [k \in 1 .. N |-> IF k = N THEN base ELSE Next0(k, f[k + 1])]
           H == [w \in (1 .. N) \X Rest |-> Next0(w[1], w[2])]
           T == [k \in 1 .. N |-> {y \in Rest : Len(y.inv) = N - k}]
           v == CHOOSE f : Is(f)
<1>0. N \in Nat \ {0} /\ \A k \in 1 .. N : a[k] \in Fp2 /\ c[k] \in Fp2
  OBVIOUS
<1>1. ASSUME NEW k \in 1 .. N - 1, NEW y \in T[k + 1] PROVE Next0(k, y) \in T[k] /\ y \in Rest
  <2>0. k \in 1 .. N /\ k + 1 \in 1 .. N /\ N - (k + 1) = (N - k) - 1
    BY <1>0
  <2>1. y \in Rest /\ Len(y.inv) = N - (k + 1) /\ a[k + 1] \in Fp2 /\ c[k] \in Fp2
    BY <1>0, <2>0
  <2>2. y.u \in Fp2 /\ y.inv \in Seq(Fp2)
    BY <2>1 DEF Rest
  <2> DEFINE z == fp2_mul(c[k], y.u)  x == fp2_mul(y.u, a[k + 1])
  <2>3. z \in Fp2 /\ x \in Fp2
    BY <2>1, <2>2, Fp2Products
  <2> HIDE DEF T, z, x
  <2>4. <<z>> \o y.inv \in Seq(Fp2) /\ Len(<<z>> \o y.inv) = 1 + Len(y.inv)
    BY <2>2, <2>3
  <2>5. Next0(k, y) = [u |-> x, inv |-> <<z>> \o y.inv]
    BY DEF z, x
  <2>6. Next0(k, y) \in Rest /\ Next0(k, y).inv = <<z>> \o y.inv
    BY <2>3, <2>4, <2>5 DEF Rest
  <2> HIDE DEF Next0, N
  <2>7. Len(Next0(k, y).inv) = N - k
    BY <1>0, <2>0, <2>1, <2>4, <2>6
  <2> QED BY <2>0, <2>1, <2>6, <2>7 DEF T
<1>2. T \in [1 .. N -> SUBSET Rest] /\ base \in T[N]
  <2>1. fp2_inv(c[N]) \in Fp2 /\ N \in 1 .. N /\ N - N = 0
    BY <1>0, Fp2InvTyped
  <2>2. base \in Rest /\ Len(base.inv) = 0
    BY <2>1 DEF Rest
  <2> HIDE DEF N, base
  <2> QED BY <2>1, <2>2
<1> HIDE DEF Next0, T, N, base
<1>3. \A k \in 1 .. N - 1 : \A y \in T[k + 1] : H[<<k, y>>] \in T[k]
  <2> SUFFICES ASSUME NEW k \in 1 .. N - 1, NEW y \in T[k + 1] PROVE H[<<k, y>>] \in T[k]
    OBVIOUS
  <2>1. <<k, y>> \in (1 .. N) \X Rest /\ Next0(k, y) \in T[k]
    BY <1>0, <1>1
  <2> QED BY <2>1
<1>4. PICK f \in [1 .. N -> Rest] : LoopDown(f, N, base, H)
  <2> HIDE DEF H
  <2> QED BY <1>0, <1>2, <1>3, LoopDownTyped, Zenon
<1>5. Is(f)
  <2>1. \A k \in 1 .. N - 1 : k + 1 \in 1 .. N /\ H[<<k, f[k + 1]>>] = Next0(k, f[k + 1])
    BY <1>0
  <2>2. \A k \in 1 .. N : k = N \/ k \in 1 .. N - 1
    BY <1>0
  <2> HIDE DEF H
  <2> QED BY <1>4, <2>1, <2>2 DEF LoopDown
<1>6. Is(v)
  <2> HIDE DEF Is
  <2> QED BY <1>5, Zenon
<1>7. Inverses(a, c) = v[1]
  BY DEF Inverses, Next0, N, base
<1> HIDE DEF v
<1>8. v[N] = base /\ \A k \in 1 .. N - 1 : v[k] = Next0(k, v[k + 1])
  <2>1. \A k \in 1 .. N : v[k] = IF k = N THEN base ELSE Next0(k, v[k + 1])
    BY <1>6
  <2> QED BY <1>0, <2>1
<1> DEFINE S == {k \in 1 .. N : v[k] \in T[k]}
<1>9. N \in S /\ \A k \in 1 .. N - 1 : k + 1 \in S => k \in S
  <2> SUFFICES ASSUME NEW k \in 1 .. N - 1, k + 1 \in S PROVE k \in S
    BY <1>0, <1>2, <1>8
  <2> QED BY <1>0, <1>1, <1>8
<1> HIDE DEF S
<1>10. 1 \in S
  BY <1>0, <1>9, DownFrom
<1>11. v[1] \in T[1] /\ 1 \in 1 .. N
  BY <1>0, <1>10 DEF S
<1> QED BY <1>7, <1>11 DEF T, N

LEMMA InvSimTyped ==
  ASSUME NEW a \in Seq(Fp2), a # <<>>
  PROVE  fp2_inv_sim(a) \in Seq(Fp2) /\ Len(fp2_inv_sim(a)) = Len(a)
<1> DEFINE b == Inverses(a, Prefixes(a))
<1>1. b \in Rest /\ Len(b.inv) = Len(a) - 1
  BY PrefixesTyped, InversesTyped
<1> HIDE DEF b
<1>2. b.u \in Fp2 /\ b.inv \in Seq(Fp2) /\ Len(a) \in Nat
  BY <1>1 DEF Rest
<1>3. <<b.u>> \o b.inv \in Seq(Fp2) /\ Len(<<b.u>> \o b.inv) = 1 + Len(b.inv)
  BY <1>2
<1>4. fp2_inv_sim(a) = <<b.u>> \o b.inv
  BY InvSimParts DEF b
<1> QED BY <1>1, <1>2, <1>3, <1>4

-----------------------------------------------------------------------------
(* Recodings.  Functions on all natural numbers. *)

NatLoopOf(f, base, H) == f = [k \in Nat |-> IF k = 0 THEN base ELSE H[<<k, f[k - 1]>>]]

LEMMA NatLoopExists ==
  ASSUME NEW D, NEW base \in D, NEW H \in [Nat \X D -> D]
  PROVE  \E f \in [Nat -> D] : NatLoopOf(f, base, H)
<1> DEFINE mu == [k \in Nat |-> k]
           E  == [k \in {0} |-> base]
           s  == [k \in Nat |-> IF k = 0 THEN 0 ELSE k - 1]
<1>1. mu \in [Nat -> Nat] /\ E \in [{0} -> D] /\ s \in [Nat -> Nat] /\ {0} \in SUBSET Nat
  OBVIOUS
<1>2. \A k \in Nat \ {0} : mu[s[k]] < mu[k]
  OBVIOUS
<1> HIDE DEF mu, E, s
<1>3. PICK f \in [Nat -> D] : Solves(f, Nat, {0}, E, s, H)
  BY <1>1, <1>2, RecursionExists, Zenon
<1>4. \A k \in Nat : f[k] = IF k = 0 THEN base ELSE H[<<k, f[k - 1]>>]
  <2> SUFFICES ASSUME NEW k \in Nat PROVE f[k] = IF k = 0 THEN base ELSE H[<<k, f[k - 1]>>]
    OBVIOUS
  <2>1. f[k] = IF k \in {0} THEN E[k] ELSE H[<<k, f[s[k]]>>]
    BY <1>3 DEF Solves
  <2>2. (k = 0 => E[k] = base) /\ (k # 0 => s[k] = k - 1)
    BY DEF s, E
  <2> QED BY <2>1, <2>2
<1>5. f = [k \in Nat |-> f[k]]
  OBVIOUS
<1> HIDE DEF E, s, mu
<1> QED BY <1>4, <1>5 DEF NatLoopOf

LEMMA Powers2 ==
  /\ Pow2[0] = 1
  /\ \A m \in Nat \ {0} : Pow2[m] = 2 * Pow2[m - 1]
  /\ \A m \in Nat : Pow2[m] \in Nat \ {0}
<1> DEFINE D == Nat \ {0}
           Is(f) == f = [m \in Nat |-> IF m = 0 THEN 1 ELSE 2 * f[m - 1]]
           H == [w \in Nat \X D |-> 2 * w[2]]
<1>1. H \in [Nat \X D -> D] /\ 1 \in D
  OBVIOUS
<1>2. PICK f \in [Nat -> D] : NatLoopOf(f, 1, H)
  <2> HIDE DEF H, D
  <2> QED BY <1>1, NatLoopExists, Zenon
<1>3. Is(f)
  <2>1. \A k \in Nat : k # 0 => k - 1 \in Nat /\ H[<<k, f[k - 1]>>] = 2 * f[k - 1]
    OBVIOUS
  <2> HIDE DEF H
  <2> QED BY <1>2, <2>1 DEF NatLoopOf
<1>4. Is(Pow2)
  <2>1. Pow2 = CHOOSE f1 : Is(f1)
    BY DEF Pow2
  <2> HIDE DEF Is
  <2> QED BY <1>3, <2>1, Zenon
<1>5. Pow2[0] = 1 /\ \A m \in Nat \ {0} : Pow2[m] = 2 * Pow2[m - 1]
  BY <1>4
<1>6. ASSUME NEW c \in Nat PROVE Pow2[c] \in Nat \ {0}
  <2> DEFINE S == {m \in 0 .. c : Pow2[m] \in Nat \ {0}}
  <2>1. 0 \in S
    BY <1>5
  <2>2. ASSUME NEW m \in 0 .. c - 1, m \in S PROVE m + 1 \in S
    <3>1. m + 1 \in Nat \ {0} /\ (m + 1) - 1 = m /\ m + 1 \in 0 .. c
      OBVIOUS
    <3>2. Pow2[m + 1] = 2 * Pow2[m] /\ Pow2[m] \in Nat \ {0}
      BY <1>5, <3>1, <2>2
    <3> QED BY <3>1, <3>2
  <2> HIDE DEF S
  <2>3. \A m \in 0 .. c : m \in S
    BY <2>1, <2>2, UpTo
  <2> QED BY <2>3 DEF S
<1> QED BY <1>5, <1>6

(* What is left of the scalar after a digit. *)
NafNext(k, w) == (k - NafDigit(k, w)) \div 2

LEMMA NafDigits ==
  ASSUME NEW k \in Nat \ {0}, NEW w \in Nat \ {0, 1}
  PROVE  /\ NafDigit(k, w) \in Int /\ NafNext(k, w) \in Nat /\ NafNext(k, w) < k
         /\ k = NafDigit(k, w) + 2 * NafNext(k, w)
         /\ - Pow2[w - 1] < NafDigit(k, w) /\ NafDigit(k, w) < Pow2[w - 1]
         /\ NafDigit(k, w) # 0 => NafDigit(k, w) % 2 = 1
         /\ NafDigit(k, w) # 0 => \E q \in Nat : NafNext(k, w) = q * Pow2[w - 1]
<1> DEFINE W == Pow2[w]
           V == Pow2[w - 1]
           x == k % W
           q == k \div W
<1>1. V \in Nat \ {0} /\ W = 2 * V /\ W \in Nat \ {0}
  <2>1. w - 1 \in Nat /\ w \in Nat \ {0}
    OBVIOUS
  <2> QED BY <2>1, Powers2
<1>2. PICK h \in Nat : V = 2 * h
  <2>1. w - 1 \in Nat \ {0} /\ (w - 1) - 1 \in Nat
    OBVIOUS
  <2>2. Pow2[w - 1] = 2 * Pow2[(w - 1) - 1] /\ Pow2[(w - 1) - 1] \in Nat
    BY <2>1, Powers2
  <2> QED BY <2>2
<1> HIDE DEF W, V
<1>3. q \in Int /\ x \in 0 .. W - 1 /\ k = q * W + x
  <2>1. k \in Int
    OBVIOUS
  <2> QED BY <1>1, <2>1, DivMod
<1>4. NafDigit(k, w) = IF k % 2 = 0 THEN 0 ELSE IF x > V THEN x - W ELSE x
  BY DEF NafDigit, W, V, x
<1> DEFINE u == NafDigit(k, w)
<1> HIDE DEF x, q
<1>5. q >= 0
  <2> SUFFICES ASSUME ~ (q >= 0) PROVE FALSE
    OBVIOUS
  <2>1. - q \in Int /\ - q >= 1
    BY <1>3
  <2>2. (- q) * W >= W
    BY <1>1, <2>1, NoMultipleBetween
  <2>3. (- q) * W = - (q * W)
    BY <1>1, <1>3
  <2> QED BY <2>2, <2>3, <1>1, <1>3
<1>6. q * W = 2 * (q * V) /\ q * V \in Int
  BY <1>1, <1>3
<1>7. q * V >= 0
  BY <1>1, <1>3, <1>5
<1> DEFINE g == q * V
<1>8. g \in Int /\ g >= 0 /\ k = 2 * g + x
  BY <1>3, <1>6, <1>7
<1> HIDE DEF g
<1>9. CASE k % 2 = 0
  <2>1. u = 0
    BY <1>4, <1>9
  <2>2. k \div 2 \in Nat /\ k \div 2 < k /\ k = 2 * (k \div 2)
    BY <1>9
  <2>3. NafNext(k, w) = k \div 2
    BY <2>1 DEF NafNext
  <2> HIDE DEF u
  <2> QED BY <1>1, <2>1, <2>2, <2>3 DEF V, u
<1>10. CASE k % 2 # 0 /\ x > V
  <2>1. u = x - W
    BY <1>4, <1>10
  <2>2. k - u = 2 * (g + V)
    BY <1>1, <1>3, <1>8, <2>1
  <2>3. (k - u) \div 2 = g + V
    BY <1>1, <1>8, <2>2
  <2>4. x % 2 = 1
    BY <1>3, <1>8, <1>10
  <2>5. u \in Int /\ u % 2 = 1
    BY <1>1, <1>3, <2>1, <2>4
  <2>6. - V < u /\ u < V
    BY <1>1, <1>3, <1>10, <2>1
  <2>7. g + V = (q + 1) * V /\ q + 1 \in Nat
    BY <1>1, <1>3, <1>5 DEF g
  <2>8. g + V < k /\ g + V \in Nat
    BY <1>1, <1>3, <1>8, <1>10
  <2> HIDE DEF u
  <2>9. NafNext(k, w) = g + V
    BY <2>3 DEF NafNext, u
  <2> QED BY <1>1, <1>8, <2>2, <2>5, <2>6, <2>7, <2>8, <2>9 DEF V, u
<1>11. CASE k % 2 # 0 /\ ~ (x > V)
  <2>1. u = x
    BY <1>4, <1>11
  <2>2. k - u = 2 * g
    BY <1>3, <1>8, <2>1
  <2>3. (k - u) \div 2 = g
    BY <1>8, <2>2
  <2>4. x % 2 = 1
    BY <1>3, <1>8, <1>11
  <2>5. u \in Int /\ u % 2 = 1
    BY <1>1, <1>3, <2>1, <2>4
  <2>6. - V < u /\ u < V
    BY <1>1, <1>2, <1>3, <1>11, <2>1, <2>4
  <2>7. g = q * V /\ q \in Nat
    BY <1>1, <1>3, <1>5 DEF g
  <2>8. g < k /\ g \in Nat
    BY <1>1, <1>3, <1>8, <1>11
  <2> HIDE DEF u
  <2>9. NafNext(k, w) = g
    BY <2>3 DEF NafNext, u
  <2> QED BY <1>1, <1>8, <2>2, <2>5, <2>6, <2>7, <2>8, <2>9 DEF V, u
<1> QED BY <1>9, <1>10, <1>11

(* The digits of k: the first, and those of what is left. *)
NafOf(k, w) ==
  LET left[m \in Nat] ==
        IF m = 0 THEN <<>>
        ELSE LET u == NafDigit(m, w) IN <<u>> \o left[(m - u) \div 2]
  IN  left[k]

Small2(w) == {d \in Int : - Pow2[w - 1] < d /\ d < Pow2[w - 1]}

LEMMA NatStrong ==
  ASSUME NEW S, \A k \in Nat : (\A l \in 0 .. k - 1 : l \in S) => k \in S
  PROVE  \A k \in Nat : k \in S
<1> DEFINE T == Nat \ S
<1>1. SUFFICES ASSUME T # {} PROVE FALSE
  OBVIOUS
<1>2. PICK m \in T : \A l \in T : ~ (l < m)
  <2>1. T \subseteq Nat
    OBVIOUS
  <2> HIDE DEF T
  <2> QED BY <1>1, <2>1, NatLeast, Zenon
<1>3. \A l \in 0 .. m - 1 : l \in S
  BY <1>2
<1> QED BY <1>2, <1>3

LEMMA NafUnfold ==
  ASSUME NEW w \in Nat \ {0, 1}
  PROVE  /\ NafOf(0, w) = <<>>
         /\ \A k \in Nat \ {0} : NafOf(k, w) = <<NafDigit(k, w)>> \o NafOf(NafNext(k, w), w)
<1> DEFINE D  == Seq(Int)
           mu == [m \in Nat |-> m]
           E  == [m \in {0} |-> <<>>]
           s  == [m \in Nat |-> IF m = 0 THEN 0 ELSE NafNext(m, w)]
           H  == [a \in Nat \X D |-> IF a[1] = 0 THEN <<>> ELSE <<NafDigit(a[1], w)>> \o a[2]]
           Next0(m, f) == LET u == NafDigit(m, w) IN <<u>> \o f[(m - u) \div 2]
           Is(f) == f = [m \in Nat |-> IF m = 0 THEN <<>> ELSE Next0(m, f)]
           v  == CHOOSE f : Is(f)
<1>1. mu \in [Nat -> Nat] /\ E \in [{0} -> D] /\ {0} \in SUBSET Nat
  OBVIOUS
<1>2. s \in [Nat -> Nat] /\ \A x \in Nat \ {0} : mu[s[x]] < mu[x]
  <2>1. \A x \in Nat \ {0} : NafNext(x, w) \in Nat /\ NafNext(x, w) < x
    BY NafDigits
  <2> QED BY <2>1
<1>3. H \in [Nat \X D -> D]
  <2> SUFFICES ASSUME NEW x \in Nat \ {0}, NEW y \in D PROVE <<NafDigit(x, w)>> \o y \in D
    OBVIOUS
  <2>1. NafDigit(x, w) \in Int
    BY NafDigits
  <2> QED BY <2>1
<1> HIDE DEF H, mu, E
<1>4. PICK f \in [Nat -> D] : Solves(f, Nat, {0}, E, s, H)
  <2> HIDE DEF s, D
  <2> QED BY <1>1, <1>2, <1>3, RecursionExists, Zenon
<1>5. \A x \in Nat : f[x] = IF x = 0 THEN <<>> ELSE <<NafDigit(x, w)>> \o f[NafNext(x, w)]
  <2> SUFFICES ASSUME NEW x \in Nat
               PROVE  f[x] = IF x = 0 THEN <<>> ELSE <<NafDigit(x, w)>> \o f[NafNext(x, w)]
    OBVIOUS
  <2>1. f[x] = IF x \in {0} THEN E[x] ELSE H[<<x, f[s[x]]>>]
    BY <1>4 DEF Solves
  <2>2. CASE x = 0
    BY <2>1, <2>2 DEF E
  <2>3. CASE x # 0
    <3>1. s[x] = NafNext(x, w) /\ s[x] \in Nat
      BY <1>2, <2>3
    <3> HIDE DEF D, s
    <3>2. f[s[x]] \in D
      BY <3>1
    <3>3. H[<<x, f[s[x]]>>] = <<NafDigit(x, w)>> \o f[s[x]]
      BY <2>3, <3>2 DEF H
    <3> QED BY <2>1, <2>3, <3>1, <3>3
  <2> QED BY <2>2, <2>3
<1>6. Is(f)
  <2>1. f = [x \in Nat |-> f[x]]
    OBVIOUS
  <2>2. \A x \in Nat : Next0(x, f) = <<NafDigit(x, w)>> \o f[NafNext(x, w)]
    BY DEF NafNext
  <2> HIDE DEF Next0
  <2> QED BY <1>5, <2>1, <2>2
<1>7. Is(v)
  <2> HIDE DEF Is
  <2> QED BY <1>6, Zenon
<1>8. \A k \in Nat : NafOf(k, w) = v[k]
  BY DEF NafOf
<1> HIDE DEF v
<1>9. \A x \in Nat : v[x] = IF x = 0 THEN <<>> ELSE Next0(x, v)
  BY <1>7
<1>10. \A x \in Nat \ {0} : Next0(x, v) = <<NafDigit(x, w)>> \o v[NafNext(x, w)]
  BY DEF NafNext
<1>11. NafOf(0, w) = <<>>
  BY <1>8, <1>9
<1> HIDE DEF Next0, Is
<1>12. ASSUME NEW k \in Nat \ {0}
       PROVE  NafOf(k, w) = <<NafDigit(k, w)>> \o NafOf(NafNext(k, w), w)
  <2>1. NafNext(k, w) \in Nat
    BY NafDigits
  <2>2. NafOf(k, w) = v[k] /\ NafOf(NafNext(k, w), w) = v[NafNext(k, w)]
    BY <1>8, <2>1
  <2>3. v[k] = <<NafDigit(k, w)>> \o v[NafNext(k, w)]
    BY <1>9, <1>10
  <2> QED BY <2>2, <2>3
<1> QED BY <1>11, <1>12

LEMMA MagNat == ASSUME NEW k \in Int PROVE Mag(k) \in Nat
BY DEF Mag

LEMMA NafIs == ASSUME NEW k \in Int, NEW w PROVE bn_rec_naf(k, w) = NafOf(Mag(k), w)
BY DEF bn_rec_naf, NafOf

(* Nonzero digits are odd and less than half the window. *)
NafDigitSet(w) == {d \in Int : /\ - Pow2[w - 1] < d /\ d < Pow2[w - 1]
                               /\ d # 0 => d % 2 = 1}

LEMMA NafTyped ==
  ASSUME NEW w \in Nat \ {0, 1}, NEW k \in Nat
  PROVE  NafOf(k, w) \in Seq(NafDigitSet(w))
<1> DEFINE S == {m \in Nat : NafOf(m, w) \in Seq(NafDigitSet(w))}
<1>1. ASSUME NEW m \in Nat, \A l \in 0 .. m - 1 : l \in S PROVE m \in S
  <2>1. CASE m = 0
    <3>1. NafOf(0, w) = <<>>
      BY NafUnfold, Zenon
    <3>2. \A A : <<>> \in Seq(A)
      OBVIOUS
    <3>3. NafOf(0, w) \in Seq(NafDigitSet(w))
      BY <3>1, <3>2, Zenon
    <3> QED BY <2>1, <3>3
  <2>2. CASE m # 0
    <3> DEFINE d == NafDigit(m, w)  l == NafNext(m, w)
    <3>1. d \in NafDigitSet(w) /\ l \in 0 .. m - 1
      BY <2>2, NafDigits DEF NafDigitSet
    <3>2. NafOf(l, w) \in Seq(NafDigitSet(w))
      BY <1>1, <3>1
    <3>3. NafOf(m, w) = <<d>> \o NafOf(l, w)
      BY <2>2, NafUnfold
    <3> HIDE DEF d, l
    <3>4. NafOf(m, w) \in Seq(NafDigitSet(w))
      BY <3>1, <3>2, <3>3
    <3> QED BY <3>4
  <2> QED BY <2>1, <2>2
<1> HIDE DEF S
<1>2. \A m \in Nat : m \in S
  BY <1>1, NatStrong
<1> QED BY <1>2 DEF S

LEMMA NafNonempty ==
  ASSUME NEW w \in Nat \ {0, 1}, NEW k \in Nat \ {0}
  PROVE  NafOf(k, w) # <<>>
<1>1. NafDigit(k, w) \in Int /\ NafNext(k, w) \in Nat
  BY NafDigits
<1>2. NafOf(NafNext(k, w), w) \in Seq(NafDigitSet(w))
  BY <1>1, NafTyped
<1>3. NafOf(k, w) = <<NafDigit(k, w)>> \o NafOf(NafNext(k, w), w)
  BY NafUnfold
<1>4. NafOf(NafNext(k, w), w) \in Seq(Int)
  BY <1>2 DEF NafDigitSet
<1>5. Len(NafOf(k, w)) = 1 + Len(NafOf(NafNext(k, w), w))
  BY <1>1, <1>3, <1>4
<1> QED BY <1>4, <1>5

LEMMA WidthTwo == NafDigitSet(2) \subseteq {-1, 0, 1}
<1>1. Pow2[0] = 1
  BY Powers2
<1>2. 1 \in Nat \ {0} /\ 1 - 1 = 0 /\ 2 - 1 = 1
  OBVIOUS
<1>3. Pow2[1] = 2
  BY <1>1, <1>2, Powers2
<1> QED BY <1>2, <1>3 DEF NafDigitSet

-----------------------------------------------------------------------------
(* The cyclotomic subgroup. *)

LEMMA LessMore ==
  ASSUME NEW a \in Fp2, NEW b \in Fp2
  PROVE  Less(a, b) \in Fp2 /\ More(a, b) \in Fp2
<1>1. fp2_sub(a, b) \in Fp2 /\ fp2_add(a, b) \in Fp2
  BY Fp2Closed
<1>2. fp2_dbl(fp2_sub(a, b)) \in Fp2 /\ fp2_dbl(fp2_add(a, b)) \in Fp2
  BY <1>1, Fp2Closed
<1> QED BY <1>2, Fp2Closed DEF Less, More

LEMMA SqrNormTyped ==
  ASSUME NEW a \in Un2, NEW b \in Un2
  PROVE  SqrNorm(a, b) \in Fp2
BY NordFits, Un2Closed, Un2Reduced DEF SqrNorm

LEMMA TwiceProdTyped ==
  ASSUME NEW a \in Fp2, NEW b \in Fp2, NEW c \in Un2, NEW d \in Un2
  PROVE  TwiceProd(a, b, c, d) \in Fp2
<1>1. fp2_sqrn_low(fp2_add(a, b)) \in Un2 /\ fp2_addc_low(c, d) \in Un2
  BY Fp2Closed, SqrnCanonical, Un2Closed
<1> QED BY <1>1, Un2Closed, Un2Reduced DEF TwiceProd

LEMMA Fp12Parts ==
  ASSUME NEW a \in Fp12
  PROVE  /\ a[1][1] \in Fp2 /\ a[1][2] \in Fp2 /\ a[1][3] \in Fp2
         /\ a[2][1] \in Fp2 /\ a[2][2] \in Fp2 /\ a[2][3] \in Fp2
<1>1. a[1] \in Fp6 /\ a[2] \in Fp6
  BY DEF Fp12
<1> QED BY <1>1, Fp6Parts

LEMMA PackedTyped ==
  ASSUME NEW a \in Fp12
  PROVE  /\ PackedSqr(a).c10 \in Fp2 /\ PackedSqr(a).c02 \in Fp2
         /\ PackedSqr(a).c01 \in Fp2 /\ PackedSqr(a).c12 \in Fp2
<1> DEFINE q01 == fp2_sqrn_low(a[1][2])
           q12 == fp2_sqrn_low(a[2][3])
           q10 == fp2_sqrn_low(a[2][1])
           q02 == fp2_sqrn_low(a[1][3])
           cr  == fp2_sub(fp2_sqr(fp2_add(a[2][1], a[1][3])), fp2_rdcn_low(fp2_addc_low(q10, q02)))
           tp  == fp2_norm_low(TwiceProd(a[1][2], a[2][3], q01, q12))
           n1  == SqrNorm(q01, q12)
           n2  == SqrNorm(q10, q02)
<1>1. /\ a[1][1] \in Fp2 /\ a[1][2] \in Fp2 /\ a[1][3] \in Fp2
      /\ a[2][1] \in Fp2 /\ a[2][2] \in Fp2 /\ a[2][3] \in Fp2
  BY Fp12Parts
<1>2. q01 \in Un2 /\ q12 \in Un2 /\ q10 \in Un2 /\ q02 \in Un2
  BY <1>1, SqrnCanonical
<1>3. PackedSqr(a) = [c10 |-> More(tp, a[2][1]), c02 |-> Less(n1, a[1][3]),
                      c01 |-> Less(n2, a[1][2]), c12 |-> More(cr, a[2][3])]
  BY DEF PackedSqr
<1> HIDE DEF q01, q12, q10, q02
<1>4. n1 \in Fp2 /\ n2 \in Fp2
  BY <1>2, SqrNormTyped
<1>5. tp \in Fp2
  <2>1. TwiceProd(a[1][2], a[2][3], q01, q12) \in Fp2
    BY <1>1, <1>2, TwiceProdTyped
  <2> QED BY <2>1, OneTyped, Fp2Others
<1>6. cr \in Fp2
  <2>0. fp2_add(a[2][1], a[1][3]) \in Fp2
    BY <1>1, Fp2Closed
  <2>1. fp2_sqr(fp2_add(a[2][1], a[1][3])) \in Fp2
    BY <2>0, Fp2Products
  <2>2. fp2_rdcn_low(fp2_addc_low(q10, q02)) \in Fp2
    BY <1>2, Un2Closed, Un2Reduced
  <2> QED BY <2>1, <2>2, Fp2Closed
<1> HIDE DEF n1, n2, tp, cr
<1>7. /\ More(tp, a[2][1]) \in Fp2 /\ Less(n1, a[1][3]) \in Fp2
      /\ Less(n2, a[1][2]) \in Fp2 /\ More(cr, a[2][3]) \in Fp2
  BY <1>1, <1>4, <1>5, <1>6, LessMore
<1> QED BY <1>3, <1>7

LEMMA CycSquares ==
  ASSUME NEW a \in Fp12
  PROVE  fp12_sqr_cyc(a) \in Fp12 /\ fp12_sqr_pck(a) \in Fp12
<1> DEFINE c   == PackedSqr(a)
           q00 == fp2_sqrn_low(a[1][1])
           q11 == fp2_sqrn_low(a[2][2])
           x   == Less(SqrNorm(q00, q11), a[1][1])
           y   == More(TwiceProd(a[1][1], a[2][2], q00, q11), a[2][2])
<1>1. a[1][1] \in Fp2 /\ a[2][2] \in Fp2
  BY Fp12Parts
<1>2. c.c10 \in Fp2 /\ c.c02 \in Fp2 /\ c.c01 \in Fp2 /\ c.c12 \in Fp2
  BY PackedTyped
<1>3. q00 \in Un2 /\ q11 \in Un2
  BY <1>1, SqrnCanonical
<1>4. /\ fp12_sqr_cyc(a) = <<<<x, c.c01, c.c02>>, <<c.c10, y, c.c12>>>>
      /\ fp12_sqr_pck(a) = <<<<a[1][1], c.c01, c.c02>>, <<c.c10, a[2][2], c.c12>>>>
  BY DEF fp12_sqr_cyc, fp12_sqr_pck
<1> HIDE DEF c, q00, q11
<1>5. x \in Fp2 /\ y \in Fp2
  <2>1. SqrNorm(q00, q11) \in Fp2 /\ TwiceProd(a[1][1], a[2][2], q00, q11) \in Fp2
    BY <1>1, <1>3, SqrNormTyped, TwiceProdTyped
  <2> QED BY <1>1, <2>1, LessMore
<1> HIDE DEF x, y
<1>6. /\ <<x, c.c01, c.c02>> \in Fp6 /\ <<c.c10, y, c.c12>> \in Fp6
      /\ <<a[1][1], c.c01, c.c02>> \in Fp6 /\ <<c.c10, a[2][2], c.c12>> \in Fp6
  BY <1>1, <1>2, <1>5 DEF Fp6
<1> QED BY <1>4, <1>6 DEF Fp12

LEMMA BackTyped ==
  ASSUME NEW a \in Fp12
  PROVE  BackDivisor(a) \in Fp2 /\ BackNumerator(a) \in Fp2
<1>1. /\ a[1][1] \in Fp2 /\ a[1][2] \in Fp2 /\ a[1][3] \in Fp2
      /\ a[2][1] \in Fp2 /\ a[2][2] \in Fp2 /\ a[2][3] \in Fp2
  BY Fp12Parts
<1>2. BackDivisor(a) \in Fp2
  <2>1. fp2_dbl(fp2_dbl(a[2][1])) \in Fp2
    BY <1>1, Fp2Closed
  <2> QED BY <1>1, <2>1, UnitsTyped DEF BackDivisor
<1> DEFINE f  == a[2][1] = fp2_zero
           t0 == fp2_mul(a[1][2], IF f THEN a[2][3] ELSE a[1][2])
           s  == IF f THEN fp2_dbl(t0) ELSE t0
<1>3. t0 \in Fp2
  BY <1>1, Fp2Products
<1>4. BackNumerator(a) = fp2_add(fp2_norm_low(fp2_sqr(a[2][3])),
                                 fp2_add(fp2_dbl(fp2_sub(s, a[1][3])), s))
  BY DEF BackNumerator
<1>5. s \in Fp2
  <2> HIDE DEF t0, f
  <2>1. fp2_dbl(t0) \in Fp2
    BY <1>3, Fp2Closed
  <2> QED BY <1>3, <2>1
<1> HIDE DEF s
<1>6. fp2_add(fp2_dbl(fp2_sub(s, a[1][3])), s) \in Fp2
  <2>1. fp2_sub(s, a[1][3]) \in Fp2
    BY <1>1, <1>5, Fp2Closed
  <2>2. fp2_dbl(fp2_sub(s, a[1][3])) \in Fp2
    BY <2>1, Fp2Closed
  <2> QED BY <1>5, <2>2, Fp2Closed
<1>7. fp2_norm_low(fp2_sqr(a[2][3])) \in Fp2
  BY <1>1, Fp2Products, OneTyped, Fp2Others
<1>8. BackNumerator(a) \in Fp2
  BY <1>4, <1>6, <1>7, Fp2Closed
<1> QED BY <1>2, <1>8

LEMMA UnpackedTyped ==
  ASSUME NEW a \in Fp12, NEW c \in Fp2
  PROVE  Unpacked(a, c) \in Fp12
<1>1. /\ a[1][1] \in Fp2 /\ a[1][2] \in Fp2 /\ a[1][3] \in Fp2
      /\ a[2][1] \in Fp2 /\ a[2][2] \in Fp2 /\ a[2][3] \in Fp2
  BY Fp12Parts
<1> DEFINE x == fp2_mul(a[1][3], a[1][2])
           y == fp2_sub(fp2_dbl(fp2_sub(fp2_sqr(c), x)), x)
           z == fp2_norm_low(fp2_add(y, fp2_mul(a[2][1], a[2][3])))
<1>2. Unpacked(a, c) = <<<<fp2_add(z, fp2_one), a[1][2], a[1][3]>>, <<a[2][1], c, a[2][3]>>>>
  BY DEF Unpacked
<1>3. x \in Fp2
  BY <1>1, Fp2Products
<1>4. y \in Fp2
  <2> HIDE DEF x
  <2>1. fp2_sub(fp2_sqr(c), x) \in Fp2
    BY <1>3, Fp2Products, Fp2Closed
  <2>2. fp2_dbl(fp2_sub(fp2_sqr(c), x)) \in Fp2
    BY <2>1, Fp2Closed
  <2> QED BY <1>3, <2>2, Fp2Closed
<1>5. z \in Fp2
  <2> HIDE DEF y
  <2>1. fp2_mul(a[2][1], a[2][3]) \in Fp2
    BY <1>1, Fp2Products
  <2>2. fp2_add(y, fp2_mul(a[2][1], a[2][3])) \in Fp2
    BY <1>4, <2>1, Fp2Closed
  <2> QED BY <2>2, OneTyped, Fp2Others
<1> HIDE DEF z
<1>6. fp2_add(z, fp2_one) \in Fp2
  BY <1>5, UnitsTyped, Fp2Closed
<1> QED BY <1>1, <1>2, <1>6 DEF Fp12, Fp6

LEMMA BackSimTyped ==
  ASSUME NEW a \in Seq(Fp12), a # <<>>
  PROVE  fp12_back_cyc_sim(a) \in Seq(Fp12) /\ Len(fp12_back_cyc_sim(a)) = Len(a)
<1> DEFINE N == Len(a)
           d == [k \in 1 .. N |-> BackDivisor(a[k])]
           e == fp2_inv_sim(d)
           b == [k \in 1 .. N |-> Unpacked(a[k], fp2_mul(BackNumerator(a[k]), e[k]))]
<1>1. N \in Nat \ {0} /\ \A k \in 1 .. N : a[k] \in Fp12
  OBVIOUS
<1>2. fp12_back_cyc_sim(a) = b
  BY DEF fp12_back_cyc_sim
<1>3. d \in Seq(Fp2) /\ Len(d) = N /\ d # <<>>
  <2>1. d \in [1 .. N -> Fp2]
    BY <1>1, BackTyped
  <2> HIDE DEF d, N
  <2>2. d \in Seq(Fp2) /\ Len(d) = N
    BY <1>1, <2>1
  <2> QED BY <1>1, <2>2
<1> HIDE DEF d
<1>4. e \in Seq(Fp2) /\ Len(e) = N
  BY <1>3, InvSimTyped
<1> HIDE DEF e
<1>5. b \in [1 .. N -> Fp12]
  <2> SUFFICES ASSUME NEW k \in 1 .. N
               PROVE  Unpacked(a[k], fp2_mul(BackNumerator(a[k]), e[k])) \in Fp12
    OBVIOUS
  <2>1. e[k] \in Fp2
    BY <1>4
  <2>2. a[k] \in Fp12
    BY <1>1
  <2> QED BY <2>1, <2>2, BackTyped, Fp2Products, UnpackedTyped
<1> HIDE DEF b, N
<1>6. b \in Seq(Fp12) /\ Len(b) = N
  BY <1>1, <1>5
<1> QED BY <1>2, <1>6 DEF N

LEMMA ZeroLine == fp12_zero \in LineValues
<1>1. fp2_zero \in Fp2
  BY UnitsTyped
<1> QED BY <1>1 DEF fp12_zero, Fp12, Fp6, LineValues

LEMMA Fp12Products ==
  ASSUME NEW a \in Fp12, NEW b \in Fp12
  PROVE  fp12_mul(a, b) \in Fp12 /\ fp12_sqr(a) \in Fp12
BY ZeroLine, ProductsCanonical

LEMMA ProductTyped ==
  ASSUME NEW u \in Seq(Fp12), u # <<>>
  PROVE  Product(u) \in Fp12
<1> DEFINE N == Len(u)
           Next0(k, y) == fp12_mul(y, u[k])
           Is(f) == f = [k \in 1 .. N |-> IF k = 1 THEN u[1] ELSE Next0(k, f[k - 1])]
           H == [w \in (1 .. N) \X Fp12 |-> Next0(w[1], w[2])]
           T == [k \in 1 .. N |-> Fp12]
           v == CHOOSE f : Is(f)
<1>0. N \in Nat \ {0} /\ \A k \in 1 .. N : u[k] \in Fp12
  OBVIOUS
<1>1. ASSUME NEW k \in 1 .. N, NEW y \in Fp12 PROVE Next0(k, y) \in Fp12
  BY <1>0, Fp12Products
<1> HIDE DEF Next0, N
<1>2. T \in [1 .. N -> SUBSET Fp12] /\ u[1] \in T[1] /\ u[1] \in Fp12
  <2>1. 1 \in 1 .. N
    BY <1>0
  <2> QED BY <1>0, <2>1
<1>3. Leads(T, N, H, 2)
  <2> SUFFICES ASSUME NEW k \in 2 .. N, NEW y \in T[k - 1] PROVE H[<<k, y>>] \in T[k]
    BY DEF Leads
  <2>1. k \in 1 .. N /\ k - 1 \in 1 .. N
    BY <1>0
  <2>2. y \in Fp12
    BY <2>1
  <2> QED BY <1>1, <2>1, <2>2
<1>4. PICK f \in [1 .. N -> Fp12] : LoopFromOne(f, N, u[1], H)
  <2> HIDE DEF H, T
  <2> QED BY <1>0, <1>2, <1>3, LoopFromOneTyped, Zenon
<1>5. Is(f)
  <2>1. \A k \in 2 .. N : k - 1 \in 1 .. N /\ H[<<k, f[k - 1]>>] = Next0(k, f[k - 1])
    BY <1>0
  <2>2. \A k \in 1 .. N : k = 1 \/ k \in 2 .. N
    BY <1>0
  <2> HIDE DEF H
  <2> QED BY <1>4, <2>1, <2>2 DEF LoopFromOne
<1>6. Is(v)
  <2> HIDE DEF Is
  <2> QED BY <1>5, Zenon
<1>7. Product(u) = v[N]
  BY DEF Product, Next0, N
<1> HIDE DEF v
<1>8. v[1] = u[1] /\ \A k \in 2 .. N : v[k] = Next0(k, v[k - 1])
  <2>1. \A k \in 1 .. N : v[k] = IF k = 1 THEN u[1] ELSE Next0(k, v[k - 1])
    BY <1>6
  <2> QED BY <1>0, <2>1
<1> DEFINE S == {k \in 1 .. N : v[k] \in Fp12}
<1>9. 1 \in S
  BY <1>0, <1>2, <1>8
<1>10. \A k \in 2 .. N : k - 1 \in S => k \in S
  BY <1>0, <1>1, <1>8
<1> HIDE DEF S
<1>11. \A k \in 1 .. N : k \in S
  BY <1>0, <1>9, <1>10, FromOne
<1> QED BY <1>0, <1>7, <1>11 DEF S

(* The packed squares of a. *)
PackedPowers(a, N) ==
  LET packed[m \in 0 .. N] == IF m = 0 THEN a ELSE fp12_sqr_pck(packed[m - 1])
  IN  packed

LEMMA PackedPowersTyped ==
  ASSUME NEW a \in Fp12, NEW N \in Nat
  PROVE  \A m \in 0 .. N : PackedPowers(a, N)[m] \in Fp12
<1> DEFINE Next0(k, y) == fp12_sqr_pck(y)
           Is(f) == f = [k \in 0 .. N |-> IF k = 0 THEN a ELSE Next0(k, f[k - 1])]
           H == [w \in (1 .. N) \X Fp12 |-> Next0(w[1], w[2])]
           v == CHOOSE f : Is(f)
<1>2. ASSUME NEW k, NEW y \in Fp12 PROVE Next0(k, y) \in Fp12
  BY CycSquares
<1> HIDE DEF Next0
<1>3. H \in [(1 .. N) \X Fp12 -> Fp12]
  BY <1>2
<1>4. PICK f \in [0 .. N -> Fp12] : LoopOf(f, N, a, H)
  <2> HIDE DEF H
  <2> QED BY <1>3, LoopExists, Zenon
<1>5. Is(f)
  <2>1. \A k \in 1 .. N : k - 1 \in 0 .. N /\ H[<<k, f[k - 1]>>] = Next0(k, f[k - 1])
    OBVIOUS
  <2>2. \A k \in 0 .. N : k = 0 \/ k \in 1 .. N
    OBVIOUS
  <2> HIDE DEF H
  <2> QED BY <1>4, <2>1, <2>2 DEF LoopOf
<1>6. Is(v)
  <2> HIDE DEF Is
  <2> QED BY <1>5, Zenon
<1>7. PackedPowers(a, N) = v
  BY DEF PackedPowers, Next0
<1> HIDE DEF v
<1>8. v[0] = a /\ \A k \in 1 .. N : v[k] = Next0(k, v[k - 1])
  <2>1. \A k \in 0 .. N : v[k] = IF k = 0 THEN a ELSE Next0(k, v[k - 1])
    BY <1>6
  <2> QED BY <2>1
<1> DEFINE S == {k \in 0 .. N : v[k] \in Fp12}
<1>9. 0 \in S
  BY <1>8
<1>10. ASSUME NEW k \in 0 .. N - 1, k \in S PROVE k + 1 \in S
  <2>1. k + 1 \in 1 .. N /\ (k + 1) - 1 = k /\ k + 1 \in 0 .. N
    OBVIOUS
  <2>2. v[k + 1] = Next0(k + 1, v[k])
    BY <1>8, <2>1
  <2> QED BY <1>2, <1>10, <2>1, <2>2
<1> HIDE DEF S
<1>11. \A k \in 0 .. N : k \in S
  BY <1>9, <1>10, UpTo
<1> QED BY <1>7, <1>11 DEF S

LEMMA InvIfTyped == ASSUME NEW a \in Fp12, NEW neg PROVE InvIf(neg, a) \in Fp12
BY Fp12Others DEF InvIf

(* Exponents whose last one is the greatest. *)
LastGreatest(b) == \A k \in 1 .. Len(b) : Abs(b[k]) <= Abs(b[Len(b)])

LEMMA AbsNat == ASSUME NEW k \in Int PROVE Abs(k) \in Nat
BY DEF Abs

LEMMA ExpSpsTyped ==
  ASSUME NEW a \in Fp12, NEW b \in Seq(Int), NEW neg, LastGreatest(b)
  PROVE  fp12_exp_cyc_sps(a, b, neg) \in Fp12
<1>1. CASE b = <<>>
  BY <1>1, UnitsTyped DEF fp12_exp_cyc_sps
<1>2. CASE b # <<>>
  <2> DEFINE N    == Abs(b[Len(b)])
             zero == b[1] = 0
             rest == IF zero THEN Tail(b) ELSE b
             pk   == PackedPowers(a, N)
             tm   == [k \in 1 .. Len(rest) |-> InvIf(rest[k] < 0, pk[Abs(rest[k])])]
             pw   == IF rest = <<>> THEN <<>> ELSE fp12_back_cyc_sim(tm)
             all  == (IF zero THEN <<a>> ELSE <<>>) \o pw
  <2>1. fp12_exp_cyc_sps(a, b, neg) = InvIf(neg, Product(all))
    BY <1>2 DEF fp12_exp_cyc_sps, PackedPowers
  <2>2. Len(b) \in Nat \ {0} /\ b[Len(b)] \in Int /\ N \in Nat
    BY <1>2, AbsNat
  <2>3. rest \in Seq(Int) /\ \A k \in 1 .. Len(rest) : Abs(rest[k]) \in 0 .. N
    <3>1. \A k \in 1 .. Len(b) : Abs(b[k]) \in 0 .. N
      <4> SUFFICES ASSUME NEW k \in 1 .. Len(b) PROVE Abs(b[k]) \in 0 .. N
        OBVIOUS
      <4>1. b[k] \in Int
        OBVIOUS
      <4>2. Abs(b[k]) \in Nat /\ Abs(b[k]) <= N
        BY <4>1, AbsNat DEF LastGreatest
      <4> HIDE DEF N
      <4> QED BY <2>2, <4>2
    <3>2. CASE zero
      <4>1. Tail(b) \in Seq(Int) /\ Len(Tail(b)) = Len(b) - 1
        BY <1>2
      <4>2. \A k \in 1 .. Len(b) - 1 : Tail(b)[k] = b[k + 1] /\ k + 1 \in 1 .. Len(b)
        BY <1>2, <2>2
      <4> HIDE DEF N
      <4> QED BY <3>1, <3>2, <4>1, <4>2
    <3>3. CASE ~ zero
      BY <3>1, <3>3
    <3> QED BY <3>2, <3>3
  <2>4. \A m \in 0 .. N : pk[m] \in Fp12
    <3> HIDE DEF N
    <3> QED BY <2>2, PackedPowersTyped
  <2> HIDE DEF N, rest, pk
  <2>5. tm \in Seq(Fp12) /\ Len(tm) = Len(rest)
    <3>1. tm \in [1 .. Len(rest) -> Fp12]
      BY <2>3, <2>4, InvIfTyped
    <3>2. Len(rest) \in Nat
      BY <2>3
    <3> HIDE DEF tm
    <3> QED BY <3>1, <3>2
  <2>6. rest # <<>> => tm # <<>>
    BY <2>3, <2>5
  <2> HIDE DEF tm
  <2>7. pw \in Seq(Fp12) /\ (rest # <<>> => Len(pw) = Len(rest))
    BY <2>5, <2>6, BackSimTyped
  <2>8. all \in Seq(Fp12) /\ all # <<>>
    <3> HIDE DEF pw
    <3>1. CASE zero
      <4>1. <<a>> \o pw \in Seq(Fp12) /\ Len(<<a>> \o pw) = 1 + Len(pw)
        BY <2>7
      <4> QED BY <2>7, <3>1, <4>1
    <3>2. CASE ~ zero
      <4>1. rest = b
        BY <3>2 DEF rest
      <4>2. <<>> \o pw = pw /\ pw # <<>>
        BY <1>2, <2>2, <2>7, <4>1
      <4> QED BY <2>7, <3>2, <4>2
    <3> QED BY <3>1, <3>2
  <2> HIDE DEF all
  <2> QED BY <2>1, <2>8, ProductTyped, InvIfTyped
<1> QED BY <1>1, <1>2

-----------------------------------------------------------------------------
(* The parameter as a sum of powers of two, and the final exponentiation.  *)

ParTerms(s) ==
  LET terms[m \in 0 .. Len(s)] ==
        IF m = 0 \/ (m > 0 /\ s[m] = 0)
        THEN (IF m = 0 THEN <<>> ELSE terms[m - 1])
        ELSE Append(terms[m - 1], s[m] * (m - 1))
  IN  terms[Len(s)]

Exponents(m) == {y \in Seq(Int) : LastGreatest(y) /\ \A k \in 1 .. Len(y) : Abs(y[k]) < m}

LEMMA ParTermsTyped ==
  ASSUME NEW s \in Seq({-1, 0, 1})
  PROVE  ParTerms(s) \in Seq(Int) /\ LastGreatest(ParTerms(s))
<1> DEFINE N == Len(s)
           D == Seq(Int)
           Next0(m, y) == IF s[m] = 0 THEN y ELSE Append(y, s[m] * (m - 1))
           Is(f) == f = [m \in 0 .. N |-> IF m = 0 \/ (m > 0 /\ s[m] = 0)
                                          THEN (IF m = 0 THEN <<>> ELSE f[m - 1])
                                          ELSE Append(f[m - 1], s[m] * (m - 1))]
           H == [w \in (1 .. N) \X D |-> Next0(w[1], w[2])]
           T == [m \in 0 .. N |-> Exponents(m)]
           v == CHOOSE f : Is(f)
<1>0. N \in Nat /\ \A k \in 1 .. N : s[k] \in {-1, 0, 1}
  OBVIOUS
<1>1. ASSUME NEW m \in 1 .. N, NEW y \in Exponents(m - 1)
      PROVE  Next0(m, y) \in Exponents(m) /\ y \in D
  <2>1. /\ y \in Seq(Int) /\ LastGreatest(y) /\ m \in Int /\ m >= 1
        /\ \A k \in 1 .. Len(y) : y[k] \in Int /\ Abs(y[k]) < m - 1
    BY <1>0 DEF Exponents
  <2>2. CASE s[m] = 0
    <3>1. \A k \in 1 .. Len(y) : Abs(y[k]) < m
      BY <2>1 DEF Abs
    <3> QED BY <2>1, <2>2, <3>1 DEF Exponents
  <2>3. CASE s[m] # 0
    <3> DEFINE e == s[m] * (m - 1)
               z == Append(y, e)
    <3>1. e \in Int /\ Abs(e) = m - 1
      <4>1. s[m] = 1 \/ s[m] = -1
        BY <1>0, <2>3
      <4>2. e = m - 1 \/ e = -(m - 1)
        BY <2>1, <4>1
      <4> HIDE DEF e
      <4> QED BY <2>1, <4>2 DEF Abs
    <3> HIDE DEF e
    <3>2. /\ z \in Seq(Int) /\ Len(z) = Len(y) + 1 /\ z[Len(y) + 1] = e
          /\ \A k \in 1 .. Len(y) : z[k] = y[k]
      BY <2>1, <3>1
    <3> HIDE DEF z
    <3>3. \A k \in 1 .. Len(z) : Abs(z[k]) <= m - 1
      <4> SUFFICES ASSUME NEW k \in 1 .. Len(z) PROVE Abs(z[k]) <= m - 1
        OBVIOUS
      <4>1. CASE k = Len(y) + 1
        BY <2>1, <3>1, <3>2, <4>1
      <4>2. CASE k # Len(y) + 1
        <5>1. k \in 1 .. Len(y)
          BY <2>1, <3>2, <4>2
        <5>2. z[k] = y[k] /\ y[k] \in Int /\ Abs(y[k]) < m - 1
          BY <2>1, <3>2, <5>1
        <5> QED BY <2>1, <5>2 DEF Abs
      <4> QED BY <4>1, <4>2
    <3>4. LastGreatest(z)
      BY <3>1, <3>2, <3>3 DEF LastGreatest
    <3>5. \A k \in 1 .. Len(z) : Abs(z[k]) < m
      <4> SUFFICES ASSUME NEW k \in 1 .. Len(z) PROVE Abs(z[k]) < m
        OBVIOUS
      <4>1. z[k] \in Int
        BY <3>2
      <4> QED BY <2>1, <3>3, <4>1 DEF Abs
    <3>6. Next0(m, y) = z
      BY <2>3 DEF z, e
    <3> HIDE DEF Next0
    <3> QED BY <2>1, <3>2, <3>4, <3>5, <3>6 DEF Exponents
  <2> HIDE DEF Next0
  <2> QED BY <2>1, <2>2, <2>3
<1>2. T \in [0 .. N -> SUBSET D] /\ <<>> \in T[0]
  <2>1. \A m \in 0 .. N : Exponents(m) \subseteq D
    BY DEF Exponents
  <2>2. <<>> \in Exponents(0)
    BY DEF Exponents, LastGreatest
  <2>3. 0 \in 0 .. N
    BY <1>0
  <2> HIDE DEF N, D
  <2> QED BY <2>1, <2>2, <2>3
<1> HIDE DEF Next0, D, N
<1>3. Leads(T, N, H, 1)
  <2> SUFFICES ASSUME NEW m \in 1 .. N, NEW y \in T[m - 1] PROVE H[<<m, y>>] \in T[m]
    BY DEF Leads
  <2>1. y \in Exponents(m - 1)
    BY <1>0
  <2>2. <<m, y>> \in (1 .. N) \X D /\ Next0(m, y) \in Exponents(m)
    BY <1>1, <2>1
  <2> QED BY <1>0, <2>2
<1>4. PICK f \in [0 .. N -> D] : LoopOf(f, N, <<>>, H)
  <2> HIDE DEF H, T
  <2> QED BY <1>0, <1>2, <1>3, LoopTyped, Zenon
<1>5. Is(f)
  <2>1. \A k \in 1 .. N : k - 1 \in 0 .. N /\ H[<<k, f[k - 1]>>] = Next0(k, f[k - 1])
    BY <1>0
  <2>2. ASSUME NEW k \in 0 .. N
        PROVE  f[k] = IF k = 0 \/ (k > 0 /\ s[k] = 0) THEN (IF k = 0 THEN <<>> ELSE f[k - 1])
                      ELSE Append(f[k - 1], s[k] * (k - 1))
    <3>1. f[k] = IF k = 0 THEN <<>> ELSE H[<<k, f[k - 1]>>]
      BY <1>4 DEF LoopOf
    <3>2. k # 0 => k > 0 /\ k \in 1 .. N
      BY <1>0
    <3> HIDE DEF H
    <3> QED BY <2>1, <3>1, <3>2 DEF Next0
  <2>3. f = [k \in 0 .. N |-> f[k]]
    OBVIOUS
  <2> HIDE DEF H
  <2> QED BY <2>2, <2>3
<1>6. Is(v)
  <2> HIDE DEF Is
  <2> QED BY <1>5, Zenon
<1>7. ParTerms(s) = v[N]
  BY DEF ParTerms, N
<1> HIDE DEF v
<1>8. v[0] = <<>> /\ \A k \in 1 .. N : v[k] = Next0(k, v[k - 1])
  <2>1. \A k \in 0 .. N : v[k] = IF k = 0 \/ (k > 0 /\ s[k] = 0)
                                 THEN (IF k = 0 THEN <<>> ELSE v[k - 1])
                                 ELSE Append(v[k - 1], s[k] * (k - 1))
    BY <1>6
  <2>2. \A k \in 1 .. N : k # 0 /\ k > 0 /\ k \in 0 .. N
    BY <1>0
  <2> HIDE DEF Is
  <2> QED BY <1>0, <2>1, <2>2 DEF Next0
<1> DEFINE S == {k \in 0 .. N : v[k] \in Exponents(k)}
<1>9. 0 \in S
  BY <1>0, <1>2, <1>8
<1>10. ASSUME NEW k \in 0 .. N - 1, k \in S PROVE k + 1 \in S
  <2>1. k + 1 \in 1 .. N /\ (k + 1) - 1 = k /\ k + 1 \in 0 .. N
    BY <1>0
  <2>2. v[k + 1] = Next0(k + 1, v[k]) /\ v[k] \in Exponents((k + 1) - 1)
    BY <1>8, <1>10, <2>1
  <2> QED BY <1>1, <2>1, <2>2
<1> HIDE DEF S
<1>11. \A k \in 0 .. N : k \in S
  BY <1>0, <1>9, <1>10, UpTo
<1>12. v[N] \in Exponents(N)
  BY <1>0, <1>11 DEF S
<1> QED BY <1>7, <1>12 DEF Exponents

LEMMA SpsTyped == par_sps \in Seq(Int) /\ LastGreatest(par_sps)
<1> DEFINE s0 == bn_rec_naf(Par, 2)
           s  == IF s0[1] = -1 THEN [s0 EXCEPT ![1] = 1, ![2] = -1] ELSE s0
<1>1. s0 \in Seq({-1, 0, 1})
  <2>1. Par \in Int /\ 2 \in Nat \ {0, 1}
    BY CurveAssumption
  <2>2. s0 = NafOf(Mag(Par), 2) /\ Mag(Par) \in Nat
    BY <2>1, NafIs, MagNat
  <2>3. s0 \in Seq(NafDigitSet(2))
    BY <2>1, <2>2, NafTyped
  <2> HIDE DEF s0
  <2> QED BY <2>3, WidthTwo
<1>2. s \in Seq({-1, 0, 1})
  <2> HIDE DEF s0
  <2> DEFINE N == Len(s0)
  <2>1. N \in Nat /\ s0 \in [1 .. N -> {-1, 0, 1}]
    BY <1>1
  <2> HIDE DEF N
  <2>2. [s0 EXCEPT ![1] = 1, ![2] = -1] \in [1 .. N -> {-1, 0, 1}]
    BY <2>1
  <2> DEFINE z == [s0 EXCEPT ![1] = 1, ![2] = -1]
  <2> HIDE DEF z
  <2>3. z \in [1 .. N -> {-1, 0, 1}]
    BY <2>2 DEF z
  <2>4. z \in Seq({-1, 0, 1})
    BY <2>1, <2>3
  <2> QED BY <1>1, <2>4 DEF z
<1>3. par_sps = ParTerms(s)
  BY DEF par_sps, ParTerms
<1> HIDE DEF s
<1> QED BY <1>2, <1>3, ParTermsTyped

LEMMA ExpTyped == ASSUME NEW a \in Fp12 PROVE Exp(a) \in Fp12
BY SpsTyped, ExpSpsTyped DEF Exp

LEMMA SignedTyped == ASSUME NEW a \in Fp12 PROVE Signed(a) \in Fp12
BY Fp12Others DEF Signed

LEMMA FinalTyped == ASSUME NEW a \in Fp12 PROVE pp_exp_bn(a) \in Fp12
<1> DEFINE m   == fp12_conv_cyc(a)
           m2x == fp12_sqr_cyc(Exp(m))
           m6x == fp12_mul(fp12_sqr_cyc(m2x), m2x)
           e2  == Exp(m6x)
           s3  == <<Signed(Exp(fp12_sqr_cyc(e2))), e2, Signed(m6x)>>
           e3  == Product(s3)
           e0  == fp12_mul(fp12_inv_cyc(Signed(m2x)), e3)
           all == <<fp12_frb(fp12_mul(fp12_inv_cyc(m), e0), 3), e2, e3, m,
                    fp12_frb(e0, 1), fp12_frb(e3, 2)>>
<1>1. pp_exp_bn(a) = Product(all)
  BY DEF pp_exp_bn
<1>2. m \in Fp12
  BY ConvCycTyped
<1> HIDE DEF m
<1>3. m2x \in Fp12
  BY <1>2, ExpTyped, CycSquares
<1> HIDE DEF m2x
<1>4. m6x \in Fp12
  BY <1>3, CycSquares, Fp12Products
<1> HIDE DEF m6x
<1>5. e2 \in Fp12
  BY <1>4, ExpTyped
<1> HIDE DEF e2
<1>6. e3 \in Fp12
  <2>1. Signed(Exp(fp12_sqr_cyc(e2))) \in Fp12 /\ Signed(m6x) \in Fp12
    BY <1>4, <1>5, CycSquares, ExpTyped, SignedTyped
  <2>2. s3 \in Seq(Fp12) /\ s3 # <<>>
    BY <1>5, <2>1
  <2> HIDE DEF s3
  <2> QED BY <2>2, ProductTyped
<1> HIDE DEF e3
<1>7. e0 \in Fp12
  <2>1. fp12_inv_cyc(Signed(m2x)) \in Fp12
    BY <1>3, SignedTyped, Fp12Others
  <2> QED BY <2>1, <1>6, Fp12Products
<1> HIDE DEF e0
<1>8. all \in Seq(Fp12) /\ all # <<>>
  <2>1. fp12_mul(fp12_inv_cyc(m), e0) \in Fp12
    BY <1>2, <1>7, Fp12Others, Fp12Products
  <2>2. /\ fp12_frb(fp12_mul(fp12_inv_cyc(m), e0), 3) \in Fp12
        /\ fp12_frb(e0, 1) \in Fp12 /\ fp12_frb(e3, 2) \in Fp12
    BY <2>1, <1>6, <1>7, FrbTyped
  <2> QED BY <2>2, <1>2, <1>5, <1>6
<1> HIDE DEF all
<1> QED BY <1>1, <1>8, ProductTyped

-----------------------------------------------------------------------------
(* Points and lines. *)

LEMMA TwistCoefficient == ep2_b \in Fp2
<1>1. B \in Int /\ QNR \in Int
  BY CurveAssumption, TowerAssumption, FpInt
<1>2. <<Monty(B), 0>> \in Fp2 /\ <<Monty(QNR), one>> \in Fp2
  BY <1>1, MontyTyped, OneTyped DEF Fp2
<1> QED BY <1>2, Fp2InvTyped, Fp2Products DEF ep2_b

LEMMA SmallMultiples ==
  ASSUME NEW a \in Fp2
  PROVE  fp2_triple(a) \in Fp2 /\ TwelveTimes(a) \in Fp2 /\ fp2_dbl(fp2_dbl(a)) \in Fp2
<1>1. fp2_dbl(a) \in Fp2
  BY Fp2Closed
<1>2. fp2_dbl(fp2_dbl(a)) \in Fp2
  BY <1>1, Fp2Closed
<1> DEFINE b == fp2_dbl(fp2_dbl(a))
<1>3. TwelveTimes(a) = fp2_add(fp2_dbl(b), b)
  BY DEF TwelveTimes
<1> HIDE DEF b
<1>4. b \in Fp2
  BY <1>2 DEF b
<1>5. fp2_dbl(b) \in Fp2
  BY <1>4, Fp2Closed
<1> QED BY <1>1, <1>2, <1>3, <1>4, <1>5, Fp2Closed DEF fp2_triple

LEMMA LineTyped ==
  ASSUME NEW a \in Fp2, NEW b \in Fp2, NEW c \in Fp2
  PROVE  Line(a, b, c) \in LineValues
<1>1. fp2_zero \in Fp2
  BY UnitsTyped
<1>2. <<a, fp2_zero, fp2_zero>> \in Fp6 /\ <<b, c, fp2_zero>> \in Fp6
  BY <1>1 DEF Fp6
<1>3. Line(a, b, c) = <<<<a, fp2_zero, fp2_zero>>, <<b, c, fp2_zero>>>>
  BY DEF Line
<1> QED BY <1>2, <1>3 DEF LineValues, Fp12

LEMMA PointTyped ==
  ASSUME NEW a \in Fp2, NEW b \in Fp2, NEW c \in Fp2
  PROVE  <<a, b, c>> \in Fp6
BY DEF Fp6

StepValues == [t : Fp6, l : LineValues]

LEMMA DblTyped ==
  ASSUME NEW q \in Fp6, NEW p, p[1] \in Fp, p[2] \in Fp
  PROVE  pp_dbl_k12(q, p) \in StepValues
<1> DEFINE t0 == fp2_sqr(q[1])
           t1 == fp2_sqr(q[2])
           t2 == fp2_sqr(q[3])
           t3 == fp2_mul(fp2_triple(t2), ep2_b)
           t4 == fp2_sub(fp2_sub(fp2_sqr(fp2_add(q[1], q[2])), t0), t1)
           t5 == fp2_sub(fp2_sqr(fp2_add(q[2], q[3])), fp2_add(t1, t2))
           t6 == fp2_triple(t3)
           x  == fp2_mul(fp2_sub(t1, t6), t4)
           y  == fp2_sub(fp2_sqr(fp2_add(t6, t1)), TwelveTimes(fp2_sqr(t3)))
           z  == fp2_mul(fp2_dbl(fp2_dbl(t1)), t5)
           u0 == fp2_mul_fp(t5, p[2])
           u1 == fp2_mul_fp(t0, p[1])
           u2 == fp2_sub(t3, t1)
<1>1. pp_dbl_k12(q, p) = [t |-> <<x, y, z>>, l |-> Line(u0, u1, u2)]
  BY DEF pp_dbl_k12
<1>2. q[1] \in Fp2 /\ q[2] \in Fp2 /\ q[3] \in Fp2
  BY Fp6Parts
<1>3. t0 \in Fp2 /\ t1 \in Fp2 /\ t2 \in Fp2
  BY <1>2, Fp2Products
<1> HIDE DEF t0, t1, t2
<1>4. t3 \in Fp2
  BY <1>3, SmallMultiples, TwistCoefficient, Fp2Products
<1> HIDE DEF t3
<1>5. t4 \in Fp2
  <2>1. fp2_sqr(fp2_add(q[1], q[2])) \in Fp2
    BY <1>2, Fp2Closed, Fp2Products
  <2>2. fp2_sub(fp2_sqr(fp2_add(q[1], q[2])), t0) \in Fp2
    BY <1>3, <2>1, Fp2Closed
  <2> QED BY <1>3, <2>2, Fp2Closed
<1>6. t5 \in Fp2
  <2>1. fp2_sqr(fp2_add(q[2], q[3])) \in Fp2 /\ fp2_add(t1, t2) \in Fp2
    BY <1>2, <1>3, Fp2Closed, Fp2Products
  <2> QED BY <2>1, Fp2Closed
<1>7. t6 \in Fp2
  BY <1>4, SmallMultiples
<1> HIDE DEF t4, t5, t6
<1>8. x \in Fp2
  BY <1>3, <1>5, <1>7, Fp2Closed, Fp2Products
<1>9. y \in Fp2
  <2>1. fp2_sqr(fp2_add(t6, t1)) \in Fp2
    BY <1>3, <1>7, Fp2Closed, Fp2Products
  <2>2. TwelveTimes(fp2_sqr(t3)) \in Fp2
    BY <1>4, Fp2Products, SmallMultiples
  <2> QED BY <2>1, <2>2, Fp2Closed
<1>10. z \in Fp2
  BY <1>3, <1>6, SmallMultiples, Fp2Products
<1>11. u0 \in Fp2 /\ u1 \in Fp2 /\ u2 \in Fp2
  BY <1>3, <1>4, <1>6, Fp2Others, Fp2Closed
<1> HIDE DEF x, y, z, u0, u1, u2
<1>12. <<x, y, z>> \in Fp6 /\ Line(u0, u1, u2) \in LineValues
  BY <1>8, <1>9, <1>10, <1>11, PointTyped, LineTyped
<1> QED BY <1>1, <1>12 DEF StepValues

LEMMA CrossTyped ==
  ASSUME NEW a \in Fp2, NEW b \in Fp2, NEW c \in Fp2, NEW d \in Fp2
  PROVE  fp2_rdcn_low(fp2_subc_low(fp2_muln_low(a, b), fp2_muln_low(c, d))) \in Fp2
BY MulnCanonical, Un2Closed, Un2Reduced

LEMMA AddTyped ==
  ASSUME NEW s \in Fp6, NEW q, q[1] \in Fp2, q[2] \in Fp2, NEW p, p[1] \in Fp, p[2] \in Fp
  PROVE  pp_add_k12(s, q, p) \in StepValues
<1> DEFINE Cr(a, b, c, d) == fp2_rdcn_low(fp2_subc_low(fp2_muln_low(a, b), fp2_muln_low(c, d)))
           t0 == fp2_sub(s[1], fp2_mul(s[3], q[1]))
           t1 == fp2_sub(s[2], fp2_mul(s[3], q[2]))
           g  == fp2_sqr(t0)
           x  == fp2_mul(g, s[1])
           t2 == fp2_mul(t0, g)
           t3 == fp2_sub(fp2_sub(fp2_add(t2, fp2_mul(fp2_sqr(t1), s[3])), x), x)
           x1 == fp2_mul(t0, t3)
           y1 == Cr(t1, fp2_sub(x, t3), t2, s[2])
           z1 == fp2_mul(s[3], t2)
           u0 == fp2_mul_fp(t0, p[2])
           u1 == fp2_mul_fp(t1, fp_negm_low(p[1]))
           u2 == Cr(q[1], t1, q[2], t0)
<1>1. pp_add_k12(s, q, p) = [t |-> <<x1, y1, z1>>, l |-> Line(u0, u1, u2)]
  BY DEF pp_add_k12
<1>2. s[1] \in Fp2 /\ s[2] \in Fp2 /\ s[3] \in Fp2
  BY Fp6Parts
<1>3. t0 \in Fp2 /\ t1 \in Fp2
  <2>1. fp2_mul(s[3], q[1]) \in Fp2 /\ fp2_mul(s[3], q[2]) \in Fp2
    BY <1>2, Fp2Products
  <2> QED BY <1>2, <2>1, Fp2Closed
<1> HIDE DEF t0, t1
<1>4. g \in Fp2
  BY <1>3, Fp2Products
<1> HIDE DEF g
<1>5. x \in Fp2 /\ t2 \in Fp2
  BY <1>2, <1>3, <1>4, Fp2Products
<1> HIDE DEF x, t2
<1>6. t3 \in Fp2
  <2>0. fp2_sqr(t1) \in Fp2
    BY <1>3, Fp2Products
  <2>1. fp2_mul(fp2_sqr(t1), s[3]) \in Fp2
    BY <1>2, <2>0, Fp2Products
  <2>2. fp2_add(t2, fp2_mul(fp2_sqr(t1), s[3])) \in Fp2
    BY <1>5, <2>1, Fp2Closed
  <2>3. fp2_sub(fp2_add(t2, fp2_mul(fp2_sqr(t1), s[3])), x) \in Fp2
    BY <1>5, <2>2, Fp2Closed
  <2> QED BY <1>5, <2>3, Fp2Closed
<1> HIDE DEF t3
<1>7. x1 \in Fp2 /\ z1 \in Fp2
  BY <1>2, <1>3, <1>5, <1>6, Fp2Products
<1>8. y1 \in Fp2 /\ u2 \in Fp2
  <2>1. fp2_sub(x, t3) \in Fp2
    BY <1>5, <1>6, Fp2Closed
  <2> QED BY <2>1, <1>2, <1>3, <1>5, CrossTyped
<1>9. u0 \in Fp2 /\ u1 \in Fp2
  BY <1>3, NegmCorrect, Fp2Others
<1> HIDE DEF x1, y1, z1, u0, u1, u2
<1>10. <<x1, y1, z1>> \in Fp6 /\ Line(u0, u1, u2) \in LineValues
  BY <1>7, <1>8, <1>9, PointTyped, LineTyped
<1> QED BY <1>1, <1>10 DEF StepValues

LEMMA TwistMaps ==
  ASSUME NEW q \in Fp6
  PROVE  ep2_neg(q) \in Fp6 /\ ep2_frb1(q) \in Fp6
<1>1. q[1] \in Fp2 /\ q[2] \in Fp2 /\ q[3] \in Fp2
  BY Fp6Parts
<1>2. fp2_neg(q[2]) \in Fp2
  BY <1>1, Fp2Closed
<1>3. fp2_frb(q[1]) \in Fp2 /\ fp2_frb(q[2]) \in Fp2 /\ fp2_frb(q[3]) \in Fp2
  BY <1>1, OneTyped, Fp2Others
<1>4. fp2_p1[2] \in Fp2 /\ fp2_p1[3] \in Fp2
  BY FrobeniusConstants
<1>5. fp2_mul(fp2_frb(q[1]), fp2_p1[2]) \in Fp2 /\ fp2_mul(fp2_frb(q[2]), fp2_p1[3]) \in Fp2
  BY <1>3, <1>4, Fp2Products
<1> QED BY <1>1, <1>2, <1>3, <1>5, PointTyped DEF ep2_neg, ep2_frb1

-----------------------------------------------------------------------------
(* The points a run starts from, in plain numbers. *)

LEMMA ModTyped == ASSUME NEW v \in Int PROVE v % P \in Fp
<1>1. v % P \in 0 .. P - 1
  BY Sizes, DivMod
<1> QED BY <1>1 DEF Fp

LEMMA ComplexParts ==
  ASSUME NEW a \in Complex
  PROVE  a[1] \in Fp /\ a[2] \in Fp /\ a[1] \in Int /\ a[2] \in Int /\ a = <<a[1], a[2]>>
<1>1. a[1] \in Fp /\ a[2] \in Fp /\ a = <<a[1], a[2]>>
  BY DEF Complex
<1> QED BY <1>1, FpInt

LEMMA ComplexPair ==
  ASSUME NEW a \in Int, NEW b \in Int
  PROVE  <<a % P, b % P>> \in Complex
BY ModTyped DEF Complex

LEMMA IntSums ==
  ASSUME NEW a, NEW b, a[1] \in Int, a[2] \in Int, b[1] \in Int, b[2] \in Int
  PROVE  Add2(a, b) \in Complex /\ Sub2(a, b) \in Complex /\ Mul2(a, b) \in Complex
<1>1. /\ a[1] + b[1] \in Int /\ a[2] + b[2] \in Int
      /\ a[1] - b[1] \in Int /\ a[2] - b[2] \in Int
      /\ a[1] * b[1] - a[2] * b[2] \in Int /\ a[1] * b[2] + a[2] * b[1] \in Int
  OBVIOUS
<1> QED BY <1>1, ComplexPair DEF Add2, Sub2, Mul2

LEMMA ComplexSums ==
  ASSUME NEW a \in Complex, NEW b \in Complex
  PROVE  Add2(a, b) \in Complex /\ Sub2(a, b) \in Complex /\ Mul2(a, b) \in Complex
BY ComplexParts, IntSums

LEMMA ReciprocalsExist ==
  \E f \in [Fp -> Fp] :
    f = [x \in 0 .. P - 1 |-> IF x < 2 THEN x ELSE ((P - P \div x) * f[P % x]) % P]
<1> DEFINE mu   == [x \in Fp |-> x]
           Base == {0, 1}
           E    == [x \in Base |-> x]
           s    == [x \in Fp |-> IF x < 2 THEN 0 ELSE P % x]
           H    == [w \in Fp \X Fp |-> IF w[1] < 2 THEN 0 ELSE ((P - P \div w[1]) * w[2]) % P]
<1>1. P \in Nat /\ P > 2 /\ Fp \subseteq Nat
  BY Sizes DEF Fp
<1>2. mu \in [Fp -> Nat] /\ Base \in SUBSET Fp /\ E \in [Base -> Fp]
  BY <1>1 DEF Fp
<1>3. ASSUME NEW x \in Fp \ Base PROVE x \in Nat \ {0, 1} /\ P % x \in Fp /\ P % x < x
  <2>1. x \in Nat \ {0} /\ P \in Int /\ x < P
    BY <1>1 DEF Fp
  <2>2. P % x \in 0 .. x - 1
    BY <2>1, DivMod
  <2> QED BY <1>1, <2>1, <2>2 DEF Fp
<1>4. s \in [Fp -> Fp] /\ \A x \in Fp \ Base : mu[s[x]] < mu[x]
  <2>1. \A x \in Fp : x < 2 <=> x \in Base
    BY <1>1
  <2>2. 0 \in Fp
    BY <1>2
  <2>3. \A x \in Fp : s[x] \in Fp
    BY <1>3, <2>1, <2>2
  <2>4. ASSUME NEW x \in Fp \ Base PROVE mu[s[x]] < mu[x]
    <3>1. s[x] = P % x /\ s[x] \in Fp
      BY <1>3, <2>1
    <3> QED BY <1>3, <3>1
  <2> QED BY <2>3, <2>4
<1>5. H \in [Fp \X Fp -> Fp]
  <2> SUFFICES ASSUME NEW x \in Fp, NEW y \in Fp
               PROVE  (IF x < 2 THEN 0 ELSE ((P - P \div x) * y) % P) \in Fp
    OBVIOUS
  <2>1. CASE x < 2
    BY <1>2, <2>1
  <2>2. CASE ~ (x < 2)
    <3>1. x \in Nat \ {0} /\ P \in Int /\ y \in Int
      BY <1>1, <2>2
    <3>2. P \div x \in Int
      BY <3>1, DivMod
    <3>3. (P - P \div x) * y \in Int
      BY <3>1, <3>2
    <3> QED BY <2>2, <3>3, ModTyped
  <2> QED BY <2>1, <2>2
<1> HIDE DEF mu, Base, E, s, H
<1>6. PICK f \in [Fp -> Fp] : Solves(f, Fp, Base, E, s, H)
  BY <1>2, <1>4, <1>5, RecursionExists, Zenon
<1>7. ASSUME NEW x \in Fp
      PROVE  f[x] = IF x < 2 THEN x ELSE ((P - P \div x) * f[P % x]) % P
  <2>1. f[x] = IF x \in Base THEN E[x] ELSE H[<<x, f[s[x]]>>]
    BY <1>6 DEF Solves
  <2>2. CASE x < 2
    BY <1>1, <2>1, <2>2 DEF Base, E
  <2>3. CASE ~ (x < 2)
    <3>1. x \in Fp \ Base /\ s[x] = P % x
      BY <1>1, <2>3 DEF Base, s
    <3>2. f[s[x]] \in Fp
      BY <1>3, <3>1
    <3>3. H[<<x, f[s[x]]>>] = ((P - P \div x) * f[s[x]]) % P
      BY <2>3, <3>2 DEF H
    <3> QED BY <2>1, <2>3, <3>1, <3>3
  <2> QED BY <2>2, <2>3
<1>8. f = [x \in 0 .. P - 1 |-> f[x]]
  BY DEF Fp
<1> QED BY <1>7, <1>8 DEF Fp

LEMMA InvModTyped == InvMod \in [Fp -> Fp]
<1> DEFINE Is(f) == f = [x \in 0 .. P - 1 |->
                           IF x < 2 THEN x ELSE ((P - P \div x) * f[P % x]) % P]
           v == CHOOSE f : Is(f)
<1>1. \E f : f \in [Fp -> Fp] /\ Is(f)
  BY ReciprocalsExist
<1>2. InvMod = v
  BY DEF InvMod
<1>3. Is(v)
  <2> HIDE DEF Is
  <2> QED BY <1>1, Zenon
<1> HIDE DEF v
<1>4. InvMod = [x \in 0 .. P - 1 |-> IF x < 2 THEN x ELSE ((P - P \div x) * InvMod[P % x]) % P]
  BY <1>2, <1>3
<1>5. P \in Nat /\ P > 2 /\ Fp \subseteq Nat
  BY Sizes DEF Fp
<1> DEFINE S == {k \in Nat : k \in Fp => InvMod[k] \in Fp}
<1>6. ASSUME NEW k \in Nat, \A l \in 0 .. k - 1 : l \in S PROVE k \in S
  <2> SUFFICES ASSUME k \in Fp PROVE InvMod[k] \in Fp
    OBVIOUS
  <2>1. InvMod[k] = IF k < 2 THEN k ELSE ((P - P \div k) * InvMod[P % k]) % P
    BY <1>4 DEF Fp
  <2>2. CASE k < 2
    BY <2>1, <2>2
  <2>3. CASE ~ (k < 2)
    <3>1. k \in Nat \ {0} /\ P \in Int /\ k < P
      BY <1>5, <2>3 DEF Fp
    <3>2. P % k \in 0 .. k - 1 /\ P \div k \in Int
      BY <3>1, DivMod
    <3>3. P % k \in S /\ P % k \in Fp
      BY <1>5, <1>6, <3>1, <3>2 DEF Fp
    <3>4. InvMod[P % k] \in Fp
      BY <3>3
    <3>6. InvMod[P % k] \in Int
      BY <3>4, FpInt
    <3>5. (P - P \div k) * InvMod[P % k] \in Int
      BY <3>1, <3>2, <3>6
    <3> QED BY <2>1, <2>3, <3>5, ModTyped
  <2> QED BY <2>2, <2>3
<1> HIDE DEF S
<1>7. \A k \in Nat : k \in S
  BY <1>6, NatStrong
<1>8. \A k \in Fp : InvMod[k] \in Fp
  BY <1>5, <1>7 DEF S
<1>9. InvMod = [x \in Fp |-> InvMod[x]]
  BY <1>4 DEF Fp
<1> QED BY <1>8, <1>9

LEMMA Inv2Typed == ASSUME NEW a \in Complex PROVE Inv2(a) \in Complex
<1> DEFINE m == InvMod[(a[1] * a[1] + a[2] * a[2]) % P]
<1>1. a[1] \in Int /\ a[2] \in Int
  BY ComplexParts
<1>2. a[1] * a[1] + a[2] * a[2] \in Int
  BY <1>1
<1>3. m \in Int
  BY <1>2, ModTyped, InvModTyped, FpInt
<1>4. Inv2(a) = <<(a[1] * m) % P, (-a[2] * m) % P>>
  BY DEF Inv2
<1> HIDE DEF m
<1>5. a[1] * m \in Int /\ -a[2] * m \in Int
  BY <1>1, <1>3
<1> QED BY <1>4, <1>5, ComplexPair

(* Points: affine, or infinity. *)
Affines == Complex \X Complex
Points  == {Infinity} \cup Affines

LEMMA SlopeTyped ==
  ASSUME NEW p \in Affines, NEW q \in Affines
  PROVE  Slope(p, q) \in Complex
<1>1. p[1] \in Complex /\ p[2] \in Complex /\ q[1] \in Complex /\ q[2] \in Complex
  BY DEF Affines
<1>2. CASE p = q
  <2> DEFINE x == Mul2(p[1], p[1])
             y == Inv2(Add2(p[2], p[2]))
  <2>1. x \in Complex /\ y \in Complex
    BY <1>1, ComplexSums, Inv2Typed
  <2>2. Slope(p, q) = Mul2(Mul2(<<3, 0>>, x), y)
    BY <1>2 DEF Slope
  <2> HIDE DEF x, y
  <2>3. Mul2(<<3, 0>>, x) \in Complex
    <3>1. x[1] \in Int /\ x[2] \in Int
      BY <2>1, ComplexParts
    <3> QED BY <3>1, IntSums
  <2> QED BY <2>1, <2>2, <2>3, ComplexSums
<1>3. CASE p # q
  <2> DEFINE x == Sub2(q[2], p[2])
             y == Inv2(Sub2(q[1], p[1]))
  <2>1. x \in Complex /\ y \in Complex
    BY <1>1, ComplexSums, Inv2Typed
  <2>2. Slope(p, q) = Mul2(x, y)
    BY <1>3 DEF Slope
  <2> HIDE DEF x, y
  <2> QED BY <2>1, <2>2, ComplexSums
<1> QED BY <1>2, <1>3

LEMMA AddPointsTyped ==
  ASSUME NEW p \in Points, NEW q \in Points
  PROVE  AddPoints(p, q) \in Points
<1>1. CASE p = Infinity
  BY <1>1 DEF AddPoints
<1>2. CASE q = Infinity
  BY <1>2 DEF AddPoints
<1>3. CASE p # Infinity /\ q # Infinity
  <2> DEFINE s == Slope(p, q)
             x == Sub2(Sub2(Mul2(s, s), p[1]), q[1])
             y == Sub2(Mul2(s, Sub2(p[1], x)), p[2])
  <2>0. p \in Affines /\ q \in Affines
    BY <1>3 DEF Points
  <2>1. p[1] \in Complex /\ p[2] \in Complex /\ q[1] \in Complex /\ q[2] \in Complex
    BY <2>0 DEF Affines
  <2>2. AddPoints(p, q) = Infinity \/ AddPoints(p, q) = <<x, y>>
    BY <1>3 DEF AddPoints
  <2>3. s \in Complex
    BY <2>0, SlopeTyped
  <2> HIDE DEF s
  <2>4. x \in Complex
    <3>1. Mul2(s, s) \in Complex
      BY <2>3, ComplexSums
    <3>2. Sub2(Mul2(s, s), p[1]) \in Complex
      BY <2>1, <3>1, ComplexSums
    <3> QED BY <2>1, <3>2, ComplexSums
  <2> HIDE DEF x
  <2>5. y \in Complex
    <3>1. Sub2(p[1], x) \in Complex
      BY <2>1, <2>4, ComplexSums
    <3>2. Mul2(s, Sub2(p[1], x)) \in Complex
      BY <2>3, <3>1, ComplexSums
    <3> QED BY <2>1, <3>2, ComplexSums
  <2> HIDE DEF y
  <2> QED BY <2>2, <2>4, <2>5 DEF Points, Affines
<1> QED BY <1>1, <1>2, <1>3

(* Double and add, on all natural numbers. *)
HalvesOf(f, base, H) == f = [k \in Nat |-> IF k = 0 THEN base ELSE H[<<k, f[k \div 2]>>]]

LEMMA HalvesExist ==
  ASSUME NEW D, NEW base \in D, NEW H \in [Nat \X D -> D]
  PROVE  \E f \in [Nat -> D] : HalvesOf(f, base, H)
<1> DEFINE mu == [k \in Nat |-> k]
           E  == [k \in {0} |-> base]
           s  == [k \in Nat |-> k \div 2]
<1>1. mu \in [Nat -> Nat] /\ E \in [{0} -> D] /\ {0} \in SUBSET Nat
  OBVIOUS
<1>2. s \in [Nat -> Nat] /\ \A k \in Nat \ {0} : mu[s[k]] < mu[k]
  BY Halves
<1> HIDE DEF mu, E, s
<1>3. PICK f \in [Nat -> D] : Solves(f, Nat, {0}, E, s, H)
  BY <1>1, <1>2, RecursionExists, Zenon
<1>4. \A k \in Nat : f[k] = IF k = 0 THEN base ELSE H[<<k, f[k \div 2]>>]
  <2> SUFFICES ASSUME NEW k \in Nat
               PROVE  f[k] = IF k = 0 THEN base ELSE H[<<k, f[k \div 2]>>]
    OBVIOUS
  <2>1. f[k] = IF k \in {0} THEN E[k] ELSE H[<<k, f[s[k]]>>]
    BY <1>3 DEF Solves
  <2>2. (k = 0 => E[k] = base) /\ s[k] = k \div 2
    BY DEF s, E
  <2> QED BY <2>1, <2>2
<1>5. f = [k \in Nat |-> f[k]]
  OBVIOUS
<1> HIDE DEF E, s, mu
<1> QED BY <1>4, <1>5 DEF HalvesOf

LEMMA MultipleTyped ==
  ASSUME NEW c \in Nat, NEW p \in Points
  PROVE  Multiple(c, p) \in Points
<1> DEFINE Next0(k, y) ==
             IF k % 2 = 0 THEN AddPoints(y, y) ELSE AddPoints(AddPoints(y, y), p)
           Is(f) == f = [k \in Nat |-> IF k = 0 THEN Infinity ELSE Next0(k, f[k \div 2])]
           H == [w \in Nat \X Points |-> Next0(w[1], w[2])]
           v == CHOOSE f : Is(f)
<1>1. \A k \in Nat, y \in Points : Next0(k, y) \in Points
  BY AddPointsTyped
<1>2. H \in [Nat \X Points -> Points] /\ Infinity \in Points
  <2> HIDE DEF Next0
  <2> QED BY <1>1 DEF Points
<1>3. PICK f \in [Nat -> Points] : HalvesOf(f, Infinity, H)
  <2> HIDE DEF H
  <2> QED BY <1>2, HalvesExist, Zenon
<1>4. Is(f)
  <2> HIDE DEF Next0
  <2>1. \A k \in Nat : H[<<k, f[k \div 2]>>] = Next0(k, f[k \div 2])
    BY Halves
  <2> HIDE DEF H
  <2> QED BY <1>3, <2>1 DEF HalvesOf
<1>5. Is(v)
  <2> HIDE DEF Is
  <2> QED BY <1>4, Zenon
<1>6. Multiple(c, p) = v[c]
  BY DEF Multiple
<1> HIDE DEF v
<1>7. \A k \in Nat : v[k] = IF k = 0 THEN Infinity ELSE Next0(k, v[k \div 2])
  BY <1>5
<1> HIDE DEF Next0, Is, H
<1> DEFINE S == {k \in Nat : v[k] \in Points}
<1>8. ASSUME NEW k \in Nat, \A l \in 0 .. k - 1 : l \in S PROVE k \in S
  <2>1. CASE k = 0
    BY <1>2, <1>7, <2>1
  <2>2. CASE k # 0
    <3>1. k \div 2 \in 0 .. k - 1
      BY <2>2, Halves
    <3>2. v[k \div 2] \in Points
      BY <1>8, <3>1
    <3> QED BY <1>1, <1>7, <2>2, <3>2
  <2> QED BY <2>1, <2>2
<1> HIDE DEF S
<1>9. \A k \in Nat : k \in S
  BY <1>8, NatStrong
<1> QED BY <1>6, <1>9 DEF S

-----------------------------------------------------------------------------
(* The Miller loop. *)

CurvePoints == Fp \X Fp \X Fp
Pairs       == CurvePoints \X Fp6

LEMMA G1Typed == ASSUME NEW a \in Nat PROVE G1(a) \in CurvePoints
<1> DEFINE g == <<<<Gen1[1], 0>>, <<Gen1[2], 0>>>>
           m == Multiple(a, g)
<1>1. g \in Points
  <2>1. Gen1[1] \in Fp /\ Gen1[2] \in Fp /\ 0 \in Fp
    BY PairingAssumption, ComplexParts, OneTyped
  <2>2. <<Gen1[1], 0>> \in Complex /\ <<Gen1[2], 0>> \in Complex
    BY <2>1 DEF Complex
  <2> QED BY <2>2 DEF Points, Affines
<1>2. G1(a) = IF m = Infinity THEN <<0, 0, 0>> ELSE <<Monty(m[1][1]), Monty(m[2][1]), one>>
  BY DEF G1
<1> HIDE DEF g
<1>3. m \in Points
  BY <1>1, MultipleTyped
<1> HIDE DEF m
<1>4. CASE m = Infinity
  BY <1>2, <1>4, OneTyped DEF CurvePoints
<1>5. CASE m # Infinity
  <2>1. m[1] \in Complex /\ m[2] \in Complex
    BY <1>3, <1>5 DEF Points, Affines
  <2>2. m[1][1] \in Int /\ m[2][1] \in Int
    BY <2>1, ComplexParts
  <2>3. Monty(m[1][1]) \in Fp /\ Monty(m[2][1]) \in Fp
    BY <2>2, MontyTyped
  <2> QED BY <1>2, <1>5, <2>3, OneTyped DEF CurvePoints
<1> QED BY <1>4, <1>5

LEMMA Monty2Typed == ASSUME NEW a \in Complex PROVE Monty2(a) \in Fp2
<1>1. a[1] \in Int /\ a[2] \in Int
  BY ComplexParts
<1> QED BY <1>1, MontyTyped DEF Monty2, Fp2

LEMMA G2Typed == ASSUME NEW b \in Nat PROVE G2(b) \in Fp6
<1> DEFINE m == Multiple(b, Gen2)
<1>1. Gen2 \in Points
  BY PairingAssumption DEF Points, Affines
<1>2. G2(b) = IF m = Infinity THEN <<fp2_zero, fp2_zero, fp2_zero>>
              ELSE <<Monty2(m[1]), Monty2(m[2]), fp2_one>>
  BY DEF G2
<1>3. m \in Points
  BY <1>1, MultipleTyped
<1> HIDE DEF m
<1>4. CASE m = Infinity
  BY <1>2, <1>4, UnitsTyped, PointTyped
<1>5. CASE m # Infinity
  <2>1. m[1] \in Complex /\ m[2] \in Complex
    BY <1>3, <1>5 DEF Points, Affines
  <2> QED BY <1>2, <1>5, <2>1, Monty2Typed, UnitsTyped, PointTyped
<1> QED BY <1>4, <1>5

(* Compaction. *)
Kept(a) ==
  LET Also(s, p, q) == IF Skipped(p, q) THEN s ELSE Append(s, <<p, q>>)
      kept[k \in 0 .. Len(a)] ==
        IF k = 0 THEN <<>> ELSE Also(kept[k - 1], G1(a[k][1]), G2(a[k][2]))
  IN  kept[Len(a)]

LEMMA KeptTyped == ASSUME NEW a \in Inputs PROVE Kept(a) \in Seq(Pairs)
<1> DEFINE N == Len(a)
           D == Seq(Pairs)
           Next0(k, y) == IF Skipped(G1(a[k][1]), G2(a[k][2])) THEN y
                          ELSE Append(y, <<G1(a[k][1]), G2(a[k][2])>>)
           Is(f) == f = [k \in 0 .. N |-> IF k = 0 THEN <<>> ELSE Next0(k, f[k - 1])]
           H == [w \in (1 .. N) \X D |-> Next0(w[1], w[2])]
           v == CHOOSE f : Is(f)
<1>0. N \in Nat /\ \A k \in 1 .. N : a[k][1] \in Nat /\ a[k][2] \in Nat
  <2>1. a \in Seq(Nat \X Nat)
    BY PairingAssumption
  <2>2. N \in Nat /\ \A k \in 1 .. N : a[k] \in Nat \X Nat
    BY <2>1
  <2> QED BY <2>2
<1>1. ASSUME NEW k \in 1 .. N, NEW y \in D PROVE Next0(k, y) \in D
  <2>1. G1(a[k][1]) \in CurvePoints /\ G2(a[k][2]) \in Fp6
    BY <1>0, G1Typed, G2Typed
  <2>2. <<G1(a[k][1]), G2(a[k][2])>> \in Pairs
    BY <2>1 DEF Pairs
  <2> QED BY <2>2
<1>2. Kept(a) = v[N]
  BY DEF Kept
<1>3. <<>> \in D
  <2>1. \A A : <<>> \in Seq(A)
    OBVIOUS
  <2> QED BY <2>1, Zenon
<1> HIDE DEF Next0, N, D
<1>4. H \in [(1 .. N) \X D -> D]
  BY <1>1
<1>5. PICK f \in [0 .. N -> D] : LoopOf(f, N, <<>>, H)
  <2> HIDE DEF H
  <2> QED BY <1>0, <1>3, <1>4, LoopExists, Zenon
<1>6. Is(f)
  <2>1. \A k \in 1 .. N : k - 1 \in 0 .. N /\ H[<<k, f[k - 1]>>] = Next0(k, f[k - 1])
    BY <1>0
  <2>2. \A k \in 0 .. N : k = 0 \/ k \in 1 .. N
    BY <1>0
  <2> HIDE DEF H
  <2> QED BY <1>5, <2>1, <2>2 DEF LoopOf
<1>7. Is(v)
  <2> HIDE DEF Is
  <2> QED BY <1>6, Zenon
<1> HIDE DEF v
<1>8. v[0] = <<>> /\ \A k \in 1 .. N : v[k] = Next0(k, v[k - 1])
  <2>1. \A k \in 0 .. N : v[k] = IF k = 0 THEN <<>> ELSE Next0(k, v[k - 1])
    BY <1>7
  <2> QED BY <1>0, <2>1
<1> DEFINE S == {k \in 0 .. N : v[k] \in D}
<1>9. 0 \in S
  BY <1>0, <1>3, <1>8
<1>10. ASSUME NEW k \in 0 .. N - 1, k \in S PROVE k + 1 \in S
  <2>1. k + 1 \in 1 .. N /\ (k + 1) - 1 = k /\ k + 1 \in 0 .. N
    BY <1>0
  <2>2. v[k + 1] = Next0(k + 1, v[k])
    BY <1>8, <2>1
  <2> QED BY <1>1, <1>10, <2>1, <2>2
<1> HIDE DEF S
<1>11. \A k \in 0 .. N : k \in S
  BY <1>0, <1>9, <1>10, UpTo
<1>12. v[N] \in D
  BY <1>0, <1>11 DEF S
<1> QED BY <1>2, <1>12 DEF D

(* The digits of the parameter. *)
LEMMA DigitsTyped ==
  ASSUME NEW k \in Int \ {0}
  PROVE  bn_rec_naf(k, 2) \in Seq({-1, 0, 1}) /\ bn_rec_naf(k, 2) # <<>>
<1>1. Mag(k) \in Nat \ {0} /\ 2 \in Nat \ {0, 1}
  BY DEF Mag
<1>2. NafOf(Mag(k), 2) \in Seq(NafDigitSet(2)) /\ NafOf(Mag(k), 2) # <<>>
  BY <1>1, NafTyped, NafNonempty
<1> DEFINE s == NafOf(Mag(k), 2)
<1>3. Len(s) \in Nat /\ s \in [1 .. Len(s) -> NafDigitSet(2)]
  BY <1>2
<1>4. s \in Seq({-1, 0, 1})
  <2> HIDE DEF s
  <2>1. s \in [1 .. Len(s) -> {-1, 0, 1}]
    BY <1>3, WidthTwo
  <2> QED BY <1>3, <2>1
<1> QED BY <1>2, <1>4, NafIs

LEMMA ParamTyped == ASSUME loop \in Loops PROVE param \in Int \ {0}
<1>1. Par \in Int /\ Par # 0
  BY CurveAssumption
<1>2. Par * Par \in Int /\ Par * Par # 0
  BY <1>1
<1>3. 6 * Par * Par = 6 * (Par * Par)
  BY <1>1
<1>4. 6 * Par * Par \in Int \ {0}
  BY <1>2, <1>3
<1>5. 6 * Par + 2 \in Int \ {0}
  BY <1>1
<1> QED BY <1>4, <1>5 DEF param

(* The lines of a digit, in one sequence. *)
StepSeqs == {s \in Seq(StepValues) : Len(s) \in 1 .. 2}

LEMMA LinesTyped ==
  ASSUME NEW N \in Nat, NEW steps \in [1 .. N -> StepSeqs]
  PROVE  /\ Lines(steps) \in Seq(LineValues)
         /\ N # 0 => Lines(steps) # <<>>
<1> DEFINE D == Seq(LineValues)
           Of(k) == [m \in 1 .. Len(steps[k]) |-> steps[k][m].l]
           Next0(k, y) == y \o Of(k)
           Is(f) == f = [k \in 0 .. Len(steps) |-> IF k = 0 THEN <<>> ELSE Next0(k, f[k - 1])]
           T == [k \in 0 .. N |-> {y \in D : Len(y) >= k}]
           H == [w \in (1 .. N) \X D |-> Next0(w[1], w[2])]
           v == CHOOSE f : Is(f)
<1>0. Len(steps) = N /\ steps \in Seq(StepSeqs)
  BY DEF StepSeqs
<1>1. ASSUME NEW k \in 1 .. N PROVE Of(k) \in D /\ Len(Of(k)) \in 1 .. 2
  <2>1. steps[k] \in Seq(StepValues) /\ Len(steps[k]) \in 1 .. 2
    BY DEF StepSeqs
  <2>2. \A m \in 1 .. Len(steps[k]) : steps[k][m] \in StepValues
    BY <2>1
  <2>3. \A m \in 1 .. Len(steps[k]) : steps[k][m].l \in LineValues
    BY <2>2 DEF StepValues
  <2> QED BY <2>1, <2>3
<1>2. Lines(steps) = v[Len(steps)]
  BY DEF Lines
<1> HIDE DEF Of
<1>3. ASSUME NEW k \in 1 .. N, NEW y \in T[k - 1] PROVE Next0(k, y) \in T[k] /\ y \in D
  <2>1. k - 1 \in 0 .. N /\ k \in 0 .. N
    OBVIOUS
  <2>2. y \in D /\ Len(y) >= k - 1 /\ Len(y) \in Nat
    BY <2>1
  <2>3. y \o Of(k) \in D /\ Len(y \o Of(k)) = Len(y) + Len(Of(k))
    BY <1>1, <2>2
  <2>4. Len(Of(k)) \in 1 .. 2 /\ k \in Int
    BY <1>1
  <2> DEFINE a == Len(y)  b == Len(Of(k))  c == Len(y \o Of(k))
  <2>5. a \in Nat /\ a >= k - 1 /\ b \in 1 .. 2 /\ c = a + b
    BY <2>2, <2>3, <2>4
  <2> HIDE DEF a, b, c
  <2>6. c >= k
    BY <2>4, <2>5
  <2>7. Len(y \o Of(k)) >= k
    BY <2>6 DEF c
  <2> QED BY <2>1, <2>2, <2>3, <2>7
<1>4. <<>> \in T[0]
  <2>1. (\A A : <<>> \in Seq(A)) /\ Len(<<>>) >= 0
    OBVIOUS
  <2>2. <<>> \in Seq(LineValues)
    BY <2>1, Zenon
  <2> QED BY <2>1, <2>2
<1>5. T \in [0 .. N -> SUBSET D]
  OBVIOUS
<1> HIDE DEF Next0
<1>6. Leads(T, N, H, 1)
  <2> SUFFICES ASSUME NEW k \in 1 .. N, NEW y \in T[k - 1] PROVE H[<<k, y>>] \in T[k]
    BY DEF Leads
  <2>1. H[<<k, y>>] = Next0(k, y)
    BY <1>3
  <2> QED BY <1>3, <2>1
<1>7. PICK f \in [0 .. N -> D] : LoopOf(f, N, <<>>, H)
  <2> HIDE DEF H, T, D
  <2> QED BY <1>4, <1>5, <1>6, LoopTyped, Zenon
<1>8. Is(f)
  <2>1. \A k \in 1 .. N : k - 1 \in 0 .. N /\ H[<<k, f[k - 1]>>] = Next0(k, f[k - 1])
    OBVIOUS
  <2>2. \A k \in 0 .. N : k = 0 \/ k \in 1 .. N
    OBVIOUS
  <2> HIDE DEF H
  <2> QED BY <1>0, <1>7, <2>1, <2>2 DEF LoopOf
<1>9. Is(v)
  <2> HIDE DEF Is
  <2> QED BY <1>8, Zenon
<1> HIDE DEF v
<1>10. v[0] = <<>> /\ \A k \in 1 .. N : v[k] = Next0(k, v[k - 1])
  <2>1. \A k \in 0 .. N : v[k] = IF k = 0 THEN <<>> ELSE Next0(k, v[k - 1])
    BY <1>0, <1>9
  <2> QED BY <2>1
<1> DEFINE S == {k \in 0 .. N : v[k] \in T[k]}
<1>11. 0 \in S
  <2>1. v[0] \in T[0]
    BY <1>4, <1>10
  <2> HIDE DEF T
  <2> QED BY <2>1
<1>12. ASSUME NEW k \in 0 .. N - 1, k \in S PROVE k + 1 \in S
  <2>1. k + 1 \in 1 .. N /\ (k + 1) - 1 = k /\ k + 1 \in 0 .. N
    OBVIOUS
  <2>2. v[k + 1] = Next0(k + 1, v[k]) /\ v[k] \in T[(k + 1) - 1]
    BY <1>10, <1>12, <2>1
  <2>3. Next0(k + 1, v[k]) \in T[k + 1]
    BY <1>3, <2>1, <2>2
  <2> QED BY <2>1, <2>2, <2>3
<1> HIDE DEF S
<1>13. \A k \in 0 .. N : k \in S
  BY <1>11, <1>12, UpTo
<1>14. v[N] \in T[N]
  BY <1>13 DEF S
<1>15. v[N] \in D /\ Len(v[N]) >= N
  BY <1>14
<1> QED BY <1>0, <1>2, <1>15

(* The accumulator times lines stays canonical. *)
LEMMA TimesLinesTyped ==
  ASSUME NEW a \in Fp12, NEW ls \in Seq(LineValues)
  PROVE  /\ TimesLines(a, <<>>) = a
         /\ TimesLines(a, ls) \in Fp12
<1>1. ASSUME NEW ks \in Seq(LineValues)
      PROVE  TimesLines(a, ks) \in Fp12 /\ (Len(ks) = 0 => TimesLines(a, ks) = a)
  <2> DEFINE N == Len(ks)
             Next0(k, y) == fp12_mul_dxs(y, ks[k])
             Is(f) == f = [k \in 0 .. N |-> IF k = 0 THEN a ELSE Next0(k, f[k - 1])]
             H == [w \in (1 .. N) \X Fp12 |-> Next0(w[1], w[2])]
             v == CHOOSE f : Is(f)
  <2>0. N \in Nat
    OBVIOUS
  <2>1. ASSUME NEW k \in 1 .. N, NEW y \in Fp12 PROVE Next0(k, y) \in Fp12
    <3>1. ks[k] \in LineValues
      OBVIOUS
    <3> QED BY <3>1, ProductsCanonical
  <2>2. TimesLines(a, ks) = v[N]
    BY DEF TimesLines
  <2> HIDE DEF Next0, N
  <2>3. H \in [(1 .. N) \X Fp12 -> Fp12]
    BY <2>1
  <2>4. PICK f \in [0 .. N -> Fp12] : LoopOf(f, N, a, H)
    <3> HIDE DEF H
    <3> QED BY <2>0, <2>3, LoopExists, Zenon
  <2>5. Is(f)
    <3>1. \A k \in 1 .. N : k - 1 \in 0 .. N /\ H[<<k, f[k - 1]>>] = Next0(k, f[k - 1])
      BY <2>0
    <3>2. \A k \in 0 .. N : k = 0 \/ k \in 1 .. N
      BY <2>0
    <3> HIDE DEF H
    <3> QED BY <2>4, <3>1, <3>2 DEF LoopOf
  <2>6. Is(v)
    <3> HIDE DEF Is
    <3> QED BY <2>5, Zenon
  <2> HIDE DEF v
  <2>7. v[0] = a /\ \A k \in 1 .. N : v[k] = Next0(k, v[k - 1])
    <3>1. \A k \in 0 .. N : v[k] = IF k = 0 THEN a ELSE Next0(k, v[k - 1])
      BY <2>6
    <3> QED BY <2>0, <3>1
  <2> DEFINE S == {k \in 0 .. N : v[k] \in Fp12}
  <2>8. 0 \in S
    BY <2>0, <2>7
  <2>9. ASSUME NEW k \in 0 .. N - 1, k \in S PROVE k + 1 \in S
    <3>1. k + 1 \in 1 .. N /\ (k + 1) - 1 = k /\ k + 1 \in 0 .. N
      BY <2>0
    <3>2. v[k + 1] = Next0(k + 1, v[k])
      BY <2>7, <3>1
    <3> QED BY <2>1, <2>9, <3>1, <3>2
  <2> HIDE DEF S
  <2>10. \A k \in 0 .. N : k \in S
    BY <2>0, <2>8, <2>9, UpTo
  <2>11. v[N] \in Fp12
    BY <2>0, <2>10 DEF S
  <2>12. N = 0 => v[N] = a
    BY <2>7
  <2> QED BY <2>2, <2>11, <2>12 DEF N
<1>2. <<>> \in Seq(LineValues) /\ Len(<<>>) = 0
  <2>1. (\A A : <<>> \in Seq(A)) /\ Len(<<>>) = 0
    OBVIOUS
  <2> QED BY <2>1, Zenon
<1> QED BY <1>1, <1>2

(* What TypeOK rests on: the points and the accumulator are canonical, a   *)
(* digit is there to be read, and a pair to be finished.                   *)
Typed ==
  /\ input \in Inputs /\ loop \in Loops
  /\ pc \in {"start", "digit", "fin", "exp", "done"}
  /\ pq \in Seq(Pairs)
  /\ t \in [1 .. Len(pq) -> Fp6]
  /\ i \in Nat /\ n \in Int /\ r \in Fp12
  /\ pc = "digit" => pq # <<>> /\ i \in 0 .. Len(digits) - 1
  /\ pc = "fin" => i \in 1 .. Len(pq)

LEMMA PairTyped ==
  ASSUME NEW x \in Pairs
  PROVE  /\ x[1][1] \in Fp /\ x[1][2] \in Fp /\ x[2] \in Fp6
         /\ Tripled(x[1])[1] \in Fp /\ Tripled(x[1])[2] \in Fp
<1>1. x[1][1] \in Fp /\ x[1][2] \in Fp /\ x[2] \in Fp6
  BY DEF Pairs, CurvePoints
<1>2. fp_addm_low(x[1][1], x[1][1]) \in Fp /\ fp_negm_low(x[1][2]) \in Fp
  BY <1>1, AddmCorrect, NegmCorrect
<1>3. fp_addm_low(fp_addm_low(x[1][1], x[1][1]), x[1][1]) \in Fp
  BY <1>1, <1>2, AddmCorrect
<1> QED BY <1>1, <1>2, <1>3 DEF Tripled

LEMMA StepsTyped ==
  ASSUME Typed, NEW d \in {-1, 0, 1}
  PROVE  Steps(d) \in [1 .. Len(pq) -> StepSeqs]
<1> SUFFICES ASSUME NEW j \in 1 .. Len(pq)
             PROVE  (IF d = 0 THEN <<Doubled(j)>> ELSE <<Doubled(j), Added(Doubled(j), j, d)>>)
                    \in StepSeqs
  BY DEF Steps
<1>1. pq[j] \in Pairs /\ t[j] \in Fp6
  BY DEF Typed
<1>2. Doubled(j) \in StepValues
  BY <1>1, PairTyped, DblTyped DEF Doubled
<1>3. Doubled(j).t \in Fp6
  BY <1>2 DEF StepValues
<1>4. Added(Doubled(j), j, d) \in StepValues
  <2> DEFINE q == IF d > 0 THEN pq[j][2] ELSE ep2_neg(pq[j][2])
  <2>1. q \in Fp6
    BY <1>1, PairTyped, TwistMaps
  <2>2. Added(Doubled(j), j, d) = pp_add_k12(Doubled(j).t, q, pq[j][1])
    BY DEF Added
  <2> HIDE DEF q
  <2>3. q[1] \in Fp2 /\ q[2] \in Fp2
    BY <2>1, Fp6Parts
  <2> QED BY <1>1, <1>3, <2>2, <2>3, PairTyped, AddTyped
<1> HIDE DEF Typed
<1>5. \A x, y \in StepValues : <<x>> \in StepSeqs /\ <<x, y>> \in StepSeqs
  BY DEF StepSeqs
<1> QED BY <1>2, <1>4, <1>5

LEMMA TypedInit == ASSUME Init PROVE Typed
<1>1. Len(<<>>) = 0 /\ <<>> \in [1 .. 0 -> Fp6] /\ \A A : <<>> \in Seq(A)
  OBVIOUS
<1>2. <<>> \in Seq(Pairs)
  BY <1>1, Zenon
<1>3. pq \in Seq(Pairs) /\ t \in [1 .. Len(pq) -> Fp6]
  BY <1>1, <1>2 DEF Init
<1>4. r \in Fp12
  BY UnitsTyped DEF Init
<1> QED BY <1>3, <1>4 DEF Init, Typed

LEMMA DigitsHere == ASSUME Typed PROVE digits \in Seq({-1, 0, 1}) /\ Len(digits) \in Nat \ {0}
<1>1. param \in Int \ {0}
  BY ParamTyped DEF Typed
<1>2. digits \in Seq({-1, 0, 1}) /\ digits # <<>>
  BY <1>1, DigitsTyped DEF digits
<1> HIDE DEF Typed
<1> QED BY <1>2

LEMMA TypedStart == ASSUME Typed, pp_map_sim_oatep_k12 PROVE Typed'
<1>1. digits' = digits /\ digits \in Seq({-1, 0, 1}) /\ Len(digits) \in Nat \ {0}
  BY DigitsHere DEF pp_map_sim_oatep_k12, digits, param
<1>2. pq' = Kept(input)
  BY DEF pp_map_sim_oatep_k12, Kept
<1>3. pq' \in Seq(Pairs)
  BY <1>2, KeptTyped DEF Typed
<1>4. t' \in [1 .. Len(pq') -> Fp6]
  <2>1. \A j \in 1 .. Len(pq') : pq'[j] \in Pairs
    BY <1>3
  <2>2. \A j \in 1 .. Len(pq') : pq'[j][2] \in Fp6
    BY <2>1, PairTyped
  <2>3. t' = [j \in 1 .. Len(pq') |-> pq'[j][2]]
    BY DEF pp_map_sim_oatep_k12
  <2> QED BY <2>2, <2>3
<1>5. i' = Len(digits) - 1
  BY DEF pp_map_sim_oatep_k12
<1>6. pc' \in {"done", "digit"} /\ (pc' = "digit" => pq' # <<>>)
  BY DEF pp_map_sim_oatep_k12
<1>7. input' = input /\ loop' = loop /\ r' = r /\ n' = n
  BY DEF pp_map_sim_oatep_k12
<1>8. i' \in Nat /\ (pc' = "digit" => i' \in 0 .. Len(digits') - 1)
  BY <1>1, <1>5
<1> QED BY <1>3, <1>4, <1>6, <1>7, <1>8 DEF Typed

LEMMA MovedTyped ==
  ASSUME Typed, pq # <<>>, NEW steps \in [1 .. Len(pq) -> StepSeqs], Moved(steps)
  PROVE  t' \in [1 .. Len(pq) -> Fp6] /\ r' \in Fp12
<1>1. ASSUME NEW j \in 1 .. Len(pq) PROVE steps[j][Len(steps[j])].t \in Fp6
  <2>1. steps[j] \in Seq(StepValues) /\ Len(steps[j]) \in 1 .. 2
    BY DEF StepSeqs
  <2> DEFINE s == steps[j]  c == Len(s)
  <2>2. s \in [1 .. c -> StepValues] /\ c \in 1 .. c
    BY <2>1
  <2> HIDE DEF s, c
  <2>3. s[c] \in StepValues
    BY <2>2
  <2>4. steps[j][Len(steps[j])] \in StepValues
    BY <2>3 DEF s, c
  <2> QED BY <2>4 DEF StepValues
<1>2. t' \in [1 .. Len(pq) -> Fp6]
  BY <1>1 DEF Moved
<1> DEFINE ls == Lines(steps)
<1>3. Times(ls)
  BY DEF Moved
<1>4. ls \in Seq(LineValues) /\ ls # <<>>
  <2>1. Len(pq) \in Nat /\ Len(pq) # 0
    BY DEF Typed
  <2> QED BY <2>1, LinesTyped
<1> HIDE DEF ls
<1>5. ls[1] \in Fp12 /\ Tail(ls) \in Seq(LineValues)
  <2>1. ls[1] \in LineValues
    BY <1>4
  <2> QED BY <1>4, <2>1 DEF LineValues
<1>6. r \in Fp12
  BY DEF Typed
<1>7. /\ TimesLines(ls[1], Tail(ls)) \in Fp12
      /\ TimesLines(fp12_sqr(r), ls) \in Fp12
  BY <1>4, <1>5, <1>6, TimesLinesTyped, Fp12Products
<1>8. r' \in Fp12
  BY <1>3, <1>7 DEF Times
<1> QED BY <1>2, <1>8

LEMMA TypedMiller == ASSUME Typed, pp_mil_k12 PROVE Typed'
<1>1. digits' = digits /\ digits \in Seq({-1, 0, 1}) /\ Len(digits) \in Nat \ {0}
  BY DigitsHere DEF pp_mil_k12, digits, param
<1>2. pc = "digit" /\ i > 0 /\ pq # <<>> /\ i \in 0 .. Len(digits) - 1
  BY DEF pp_mil_k12, Typed
<1>3. digits[i] \in {-1, 0, 1}
  BY <1>1, <1>2
<1>4. Steps(digits[i]) \in [1 .. Len(pq) -> StepSeqs] /\ Moved(Steps(digits[i]))
  BY <1>3, StepsTyped DEF pp_mil_k12
<1>5. t' \in [1 .. Len(pq) -> Fp6] /\ r' \in Fp12
  BY <1>2, <1>4, MovedTyped
<1>6. i' = i - 1 /\ n' = 2 * n + digits[i] /\ n \in Int
  BY DEF pp_mil_k12, Typed
<1>7. i' \in Nat /\ i' \in 0 .. Len(digits') - 1 /\ n' \in Int
  BY <1>1, <1>2, <1>3, <1>6
<1>8. input' = input /\ loop' = loop /\ pc' = pc /\ pq' = pq
  BY DEF pp_mil_k12
<1> QED BY <1>2, <1>5, <1>7, <1>8 DEF Typed

LEMMA TypedMillerDone == ASSUME Typed, MillerDone PROVE Typed'
<1>1. input' = input /\ loop' = loop /\ pq' = pq /\ i' = 1 /\ pc' \in {"fin", "exp"}
  BY DEF MillerDone
<1>2. pq # <<>> /\ pq \in Seq(Pairs)
  BY DEF MillerDone, Typed
<1>3. Len(pq) \in Nat \ {0} /\ 1 \in 1 .. Len(pq)
  BY <1>2
<1>4. t' \in [1 .. Len(pq) -> Fp6] /\ r' \in Fp12 /\ n' \in Int
  <2>1. t \in [1 .. Len(pq) -> Fp6] /\ r \in Fp12 /\ n \in Int
    BY DEF Typed
  <2>2. CASE param < 0
    <3>1. r' = fp12_inv_cyc(r) /\ n' = -n /\ t' = [j \in 1 .. Len(t) |-> ep2_neg(t[j])]
      BY <2>2 DEF MillerDone
    <3>2. Len(t) = Len(pq)
      BY <1>3, <2>1
    <3>3. \A j \in 1 .. Len(pq) : ep2_neg(t[j]) \in Fp6
      BY <2>1, TwistMaps
    <3>4. t' \in [1 .. Len(pq) -> Fp6]
      BY <3>1, <3>2, <3>3
    <3> QED BY <2>1, <3>1, <3>4, Fp12Others
  <2>3. CASE ~ (param < 0)
    <3>1. r' = r /\ n' = n /\ t' = t
      BY <2>3 DEF MillerDone
    <3> QED BY <2>1, <3>1
  <2> QED BY <2>2, <2>3
<1> QED BY <1>1, <1>2, <1>3, <1>4 DEF Typed

LEMMA TypedFin == ASSUME Typed, pp_fin_k12_oatep PROVE Typed'
<1>0. pc = "fin" /\ i \in 1 .. Len(pq) /\ pq \in Seq(Pairs) /\ t \in [1 .. Len(pq) -> Fp6] /\ n \in Int
  BY DEF pp_fin_k12_oatep, Typed
<1> DEFINE q1 == ep2_frb1(pq[i][2])
           q2 == ep2_neg(ep2_frb1(q1))
           s1 == pp_add_k12(t[i], q1, pq[i][1])
           s2 == pp_add_k12(s1.t, q2, pq[i][1])
<1>1. r' = TimesLines(r, <<s1.l, s2.l>>) /\ t' = [t EXCEPT ![i] = s2.t]
  BY DEF pp_fin_k12_oatep
<1>2. pq[i] \in Pairs /\ t[i] \in Fp6
  BY <1>0
<1>3. q1 \in Fp6 /\ q2 \in Fp6
  BY <1>2, PairTyped, TwistMaps
<1>4. q1[1] \in Fp2 /\ q1[2] \in Fp2 /\ q2[1] \in Fp2 /\ q2[2] \in Fp2
  BY <1>3, Fp6Parts
<1> HIDE DEF q1, q2
<1>5. s1 \in StepValues
  BY <1>2, <1>4, PairTyped, AddTyped
<1> HIDE DEF s1
<1>6. s1.t \in Fp6 /\ s1.l \in LineValues
  BY <1>5 DEF StepValues
<1>7. s2 \in StepValues
  BY <1>2, <1>4, <1>6, PairTyped, AddTyped
<1> HIDE DEF s2
<1>8. s2.t \in Fp6 /\ s2.l \in LineValues
  BY <1>7 DEF StepValues
<1>9. r' \in Fp12
  <2>1. <<s1.l, s2.l>> \in Seq(LineValues) /\ r \in Fp12
    BY <1>6, <1>8 DEF Typed
  <2> QED BY <1>1, <2>1, TimesLinesTyped
<1>10. t' \in [1 .. Len(pq) -> Fp6]
  BY <1>0, <1>1, <1>8
<1>11. /\ i' = i + 1 /\ (pc' = IF i = Len(pq) THEN "exp" ELSE "fin")
       /\ n' = (IF i = Len(pq) THEN n + P - P * P ELSE n)
       /\ input' = input /\ loop' = loop /\ pq' = pq
  BY DEF pp_fin_k12_oatep
<1>12. n' \in Int
  <2>1. P \in Int /\ P * P \in Int
    BY Sizes
  <2> QED BY <1>0, <1>11, <2>1
<1>13. Len(pq) \in Nat
  BY <1>0
<1>14. i' \in Nat /\ pc' \in {"exp", "fin"} /\ (pc' = "fin" => i' \in 1 .. Len(pq'))
  BY <1>0, <1>11, <1>13
<1> QED BY <1>0, <1>9, <1>10, <1>11, <1>12, <1>14 DEF Typed

LEMMA TypedExp == ASSUME Typed, pp_exp_k12 PROVE Typed'
<1>1. r' \in Fp12
  BY FinalTyped DEF pp_exp_k12, Typed
<1> QED BY <1>1 DEF pp_exp_k12, Typed

LEMMA TypedNext == ASSUME Typed, [Next]_vars PROVE Typed'
<1>1. CASE pp_map_sim_oatep_k12
  BY <1>1, TypedStart
<1>2. CASE pp_mil_k12
  BY <1>2, TypedMiller
<1>3. CASE MillerDone
  BY <1>3, TypedMillerDone
<1>4. CASE pp_fin_k12_oatep
  BY <1>4, TypedFin
<1>5. CASE pp_exp_k12
  BY <1>5, TypedExp
<1>6. CASE UNCHANGED vars
  BY <1>6 DEF vars, Typed, digits, param
<1> QED BY <1>1, <1>2, <1>3, <1>4, <1>5, <1>6 DEF Next

LEMMA TypedAlways == Spec => []Typed
<1>1. Init => Typed
  BY TypedInit
<1>2. Typed /\ [Next]_vars => Typed'
  BY TypedNext
<1> QED BY <1>1, <1>2, PTL DEF Spec

(* Every coefficient of the accumulator and of the points of the Miller    *)
(* loop is canonical, in every state, for every prime, tower, curve and    *)
(* list of points.                                                         *)
THEOREM PairingTypeOK == Spec => []TypeOK
<1>1. ASSUME NEW a \in Fp6 PROVE CanonicalSix(a)
  <2>1. a[1] \in Fp2 /\ a[2] \in Fp2 /\ a[3] \in Fp2
    BY Fp6Parts
  <2>2. \A x \in Fp2 : x[1] \in Fp /\ x[2] \in Fp
    BY DEF Fp2
  <2> QED BY <2>1, <2>2 DEF CanonicalSix
<1>2. Typed => TypeOK
  <2> SUFFICES ASSUME Typed PROVE TypeOK
    OBVIOUS
  <2>1. r[1] \in Fp6 /\ r[2] \in Fp6
    BY DEF Typed, Fp12
  <2>2. \A j \in DOMAIN t : t[j] \in Fp6
    BY DEF Typed
  <2>3. pc \in {"start", "digit", "fin", "exp", "done"} /\ i \in Nat /\ n \in Int
    BY DEF Typed
  <2> HIDE DEF Typed
  <2> QED BY <1>1, <2>1, <2>2, <2>3 DEF TypeOK
<1> QED BY <1>2, TypedAlways, PTL

(* In every state what the square and the dense product of the final       *)
(* exponentiation leave unreduced is within reach of one reduction.        *)
THEOREM PairingLazyWithinReach == Spec => []LazyWithinReach
<1>1. ASSUME NEW a \in Within6 PROVE Reducible(a)
  <2>1. a[1] \in Within2 /\ a[2] \in Within2 /\ a[3] \in Within2
    BY DEF Within6
  <2>2. \A x \in Within2 : x[1] \in Within /\ x[2] \in Within
    BY DEF Within2
  <2>3. \A x \in Within : x < P * R + P
    <3>1. P * R \in Int /\ P \in Int
      BY Sizes
    <3> QED BY <3>1 DEF Within
  <2> QED BY <2>1, <2>2, <2>3 DEF Reducible
<1>2. Typed => LazyWithinReach
  <2> SUFFICES ASSUME Typed PROVE LazyWithinReach
    OBVIOUS
  <2> DEFINE b == fp12_frb(r, 1)
             x == fp12_sqr_unr(r)
             y == fp12_mul_unr(r, b)
  <2>1. r \in Fp12
    BY DEF Typed
  <2>2. b \in Fp12
    BY <2>1, FrbTyped
  <2>3. x \in Within6 \X Within6 /\ y \in Within6 \X Within6
    BY <2>1, <2>2, DenseWithinReach
  <2>4. x[1] \in Within6 /\ x[2] \in Within6 /\ y[1] \in Within6 /\ y[2] \in Within6
    BY <2>3
  <2> HIDE DEF Typed
  <2> QED BY <1>1, <2>4 DEF LazyWithinReach
<1> QED BY <1>2, TypedAlways, PTL

-----------------------------------------------------------------------------
(* Congruence modulo P, of integers and of Gaussian integers.              *)

LEMMA ModSame ==
  ASSUME NEW a \in Int, NEW b \in Int, a % P = b % P
  PROVE  \E k \in Int : a = b + k * P
<1>1. /\ a \div P \in Int /\ a % P \in Int /\ a = (a \div P) * P + (a % P)
      /\ b \div P \in Int /\ b = (b \div P) * P + (b % P)
  BY Sizes, DivMod
<1> DEFINE x == a \div P  y == b \div P  m == a % P
<1>2. x \in Int /\ y \in Int /\ m \in Int /\ P \in Int /\ a = x * P + m /\ b = y * P + m
  BY <1>1, Sizes
<1> HIDE DEF x, y, m
<1>3. a = b + (x - y) * P /\ x - y \in Int
  BY <1>2
<1> QED BY <1>3

LEMMA ModSums ==
  ASSUME NEW a \in Int, NEW b \in Int, NEW c \in Int, NEW d \in Int,
         a % P = c % P, b % P = d % P
  PROVE  /\ (a + b) % P = (c + d) % P
         /\ (a - b) % P = (c - d) % P
         /\ (a * b) % P = (c * d) % P
<1>1. PICK k \in Int : a = c + k * P
  BY ModSame
<1>2. PICK m \in Int : b = d + m * P
  BY ModSame
<1>3. P \in Int
  BY Sizes
<1>4. a + b = (c + d) + (k + m) * P /\ k + m \in Int /\ c + d \in Int
  BY <1>1, <1>2, <1>3
<1>5. a - b = (c - d) + (k - m) * P /\ k - m \in Int /\ c - d \in Int
  BY <1>1, <1>2, <1>3
<1>6. a * b = c * d + (c * m + k * d + k * m * P) * P
  BY <1>1, <1>2, <1>3
<1>7. c * m + k * d + k * m * P \in Int /\ c * d \in Int
  BY <1>3
<1>8. (a + b) % P = (c + d) % P
  BY <1>4, MultipleAdded
<1>9. (a - b) % P = (c - d) % P
  BY <1>5, MultipleAdded
<1>10. (a * b) % P = (c * d) % P
  BY <1>6, <1>7, MultipleAdded
<1> QED BY <1>8, <1>9, <1>10

LEMMA ModTwice == ASSUME NEW a \in Int PROVE (a % P) % P = a % P
<1>1. a % P \in Fp
  BY ModTyped
<1> QED BY <1>1, Small

(* P is odd. *)
LEMMA ModHalf ==
  ASSUME NEW a \in Int, NEW b \in Int, (a + a) % P = (b + b) % P
  PROVE  a % P = b % P
<1>1. PICK k \in Int : a + a = (b + b) + k * P
  <2>1. a + a \in Int /\ b + b \in Int
    OBVIOUS
  <2> QED BY <2>1, ModSame
<1>2. PICK h \in Int : P = 2 * h + 1
  <2>1. P \in Int /\ P % 2 = 1
    BY LazyFpAssumption
  <2> DEFINE h == P \div 2
  <2>2. h \in Int /\ P = h * 2 + (P % 2)
    BY <2>1, DivMod
  <2> HIDE DEF h
  <2>3. P = 2 * h + 1
    BY <2>1, <2>2
  <2> QED BY <2>2, <2>3
<1>3. k * P = 2 * (k * h) + k /\ k * h \in Int
  BY <1>2
<1> DEFINE x == k * h
<1>4. x \in Int /\ a + a = (b + b) + (2 * x + k)
  BY <1>1, <1>3
<1> HIDE DEF x
<1>5. PICK l \in Int : k = 2 * l
  <2>1. k = 2 * (a - b - x) /\ a - b - x \in Int
    BY <1>4
  <2> QED BY <2>1
<1>6. k * P = 2 * (l * P) /\ l * P \in Int
  BY <1>5, Sizes
<1>7. a = b + l * P
  BY <1>1, <1>6
<1> QED BY <1>7, MultipleAdded

Gauss      == Int \X Int
GAdd(x, y) == <<x[1] + y[1], x[2] + y[2]>>
GSub(x, y) == <<x[1] - y[1], x[2] - y[2]>>
GMul(x, y) == <<x[1] * y[1] - x[2] * y[2], x[1] * y[2] + x[2] * y[1]>>
GXi(x)     == GMul(<<QNR, 1>>, x)

(* Congruent modulo P. *)
Same(x, y) == x[1] % P = y[1] % P /\ x[2] % P = y[2] % P

LEMMA GaussParts ==
  ASSUME NEW x \in Gauss
  PROVE  x[1] \in Int /\ x[2] \in Int /\ x = <<x[1], x[2]>>
BY DEF Gauss

LEMMA GaussClosed ==
  ASSUME NEW x \in Gauss, NEW y \in Gauss
  PROVE  GAdd(x, y) \in Gauss /\ GSub(x, y) \in Gauss /\ GMul(x, y) \in Gauss /\ GXi(x) \in Gauss
<1>1. x[1] \in Int /\ x[2] \in Int /\ y[1] \in Int /\ y[2] \in Int /\ QNR \in Int
  BY GaussParts, TowerAssumption
<1>2. /\ x[1] + y[1] \in Int /\ x[2] + y[2] \in Int /\ x[1] - y[1] \in Int /\ x[2] - y[2] \in Int
      /\ x[1] * y[1] - x[2] * y[2] \in Int /\ x[1] * y[2] + x[2] * y[1] \in Int
      /\ QNR * x[1] - 1 * x[2] \in Int /\ QNR * x[2] + 1 * x[1] \in Int
  BY <1>1
<1> QED BY <1>2 DEF GAdd, GSub, GMul, GXi, Gauss

LEMMA SameSums ==
  ASSUME NEW x \in Gauss, NEW y \in Gauss, NEW a \in Gauss, NEW b \in Gauss,
         Same(x, a), Same(y, b)
  PROVE  /\ Same(GAdd(x, y), GAdd(a, b)) /\ Same(GSub(x, y), GSub(a, b))
         /\ Same(GMul(x, y), GMul(a, b))
<1> DEFINE x1 == x[1]  x2 == x[2]  y1 == y[1]  y2 == y[2]
           a1 == a[1]  a2 == a[2]  b1 == b[1]  b2 == b[2]
<1>1. /\ x1 \in Int /\ x2 \in Int /\ y1 \in Int /\ y2 \in Int
      /\ a1 \in Int /\ a2 \in Int /\ b1 \in Int /\ b2 \in Int
  BY GaussParts
<1>2. x1 % P = a1 % P /\ x2 % P = a2 % P /\ y1 % P = b1 % P /\ y2 % P = b2 % P
  BY DEF Same
<1>3. /\ GAdd(x, y) = <<x1 + y1, x2 + y2>> /\ GAdd(a, b) = <<a1 + b1, a2 + b2>>
      /\ GSub(x, y) = <<x1 - y1, x2 - y2>> /\ GSub(a, b) = <<a1 - b1, a2 - b2>>
      /\ GMul(x, y) = <<x1 * y1 - x2 * y2, x1 * y2 + x2 * y1>>
      /\ GMul(a, b) = <<a1 * b1 - a2 * b2, a1 * b2 + a2 * b1>>
  BY DEF GAdd, GSub, GMul
<1> HIDE DEF x1, x2, y1, y2, a1, a2, b1, b2
<1>4. /\ (x1 + y1) % P = (a1 + b1) % P /\ (x2 + y2) % P = (a2 + b2) % P
      /\ (x1 - y1) % P = (a1 - b1) % P /\ (x2 - y2) % P = (a2 - b2) % P
      /\ (x1 * y1 - x2 * y2) % P = (a1 * b1 - a2 * b2) % P
      /\ (x1 * y2 + x2 * y1) % P = (a1 * b2 + a2 * b1) % P
  <2>1. (x1 + y1) % P = (a1 + b1) % P /\ (x1 - y1) % P = (a1 - b1) % P
    BY <1>1, <1>2, ModSums
  <2>2. (x2 + y2) % P = (a2 + b2) % P /\ (x2 - y2) % P = (a2 - b2) % P
    BY <1>1, <1>2, ModSums
  <2>3. (x1 * y1) % P = (a1 * b1) % P /\ (x2 * y2) % P = (a2 * b2) % P
    BY <1>1, <1>2, ModSums
  <2>4. (x1 * y2) % P = (a1 * b2) % P /\ (x2 * y1) % P = (a2 * b1) % P
    BY <1>1, <1>2, ModSums
  <2>5. /\ x1 * y1 \in Int /\ x2 * y2 \in Int /\ x1 * y2 \in Int /\ x2 * y1 \in Int
        /\ a1 * b1 \in Int /\ a2 * b2 \in Int /\ a1 * b2 \in Int /\ a2 * b1 \in Int
    BY <1>1
  <2>6. (x1 * y1 - x2 * y2) % P = (a1 * b1 - a2 * b2) % P
    BY <2>3, <2>5, ModSums
  <2>7. (x1 * y2 + x2 * y1) % P = (a1 * b2 + a2 * b1) % P
    BY <2>4, <2>5, ModSums
  <2> QED BY <2>1, <2>2, <2>6, <2>7
<1> QED BY <1>3, <1>4 DEF Same

LEMMA SameXi ==
  ASSUME NEW x \in Gauss, NEW a \in Gauss, Same(x, a)
  PROVE  Same(GXi(x), GXi(a))
<1>1. <<QNR, 1>> \in Gauss
  BY TowerAssumption DEF Gauss
<1>2. Same(<<QNR, 1>>, <<QNR, 1>>)
  BY DEF Same
<1> QED BY <1>1, <1>2, SameSums DEF GXi

LEMMA SameTwice ==
  ASSUME NEW x, NEW y, NEW z, Same(x, y), Same(y, z)
  PROVE  Same(x, z)
BY DEF Same

LEMMA SameHalf ==
  ASSUME NEW h \in Gauss, NEW z \in Gauss, Same(GAdd(h, h), GAdd(z, z))
  PROVE  Same(h, z)
<1>1. h[1] \in Int /\ h[2] \in Int /\ z[1] \in Int /\ z[2] \in Int
  BY GaussParts
<1>2. (h[1] + h[1]) % P = (z[1] + z[1]) % P /\ (h[2] + h[2]) % P = (z[2] + z[2]) % P
  BY DEF Same, GAdd
<1> QED BY <1>1, <1>2, ModHalf DEF Same

(* The values of the tower are Gaussian integers, and so are unreduced     *)
(* ones.                                                                   *)
LEMMA AreGauss == Fp2 \subseteq Gauss /\ Un2 \subseteq Gauss /\ Within2 \subseteq Gauss
<1>1. \A x \in Fp : x \in Int
  BY FpInt
<1>2. (\A x \in Unreduced : x \in Int) /\ (\A x \in Within : x \in Int)
  BY UnreducedFits, WithinFacts
<1> QED BY <1>1, <1>2 DEF Fp2, Un2, Within2, Gauss

-----------------------------------------------------------------------------
(* What each operation on them computes, modulo P. *)

LEMMA SumSame ==
  ASSUME NEW a \in Fp2, NEW b \in Fp2
  PROVE  Same(fp2_add(a, b), GAdd(a, b)) /\ Same(fp2_sub(a, b), GSub(a, b))
<1>1. a[1] \in Fp /\ a[2] \in Fp /\ b[1] \in Fp /\ b[2] \in Fp
  BY DEF Fp2
<1>2. a[1] \in Int /\ a[2] \in Int /\ b[1] \in Int /\ b[2] \in Int
  BY <1>1, FpInt
<1>3. /\ a[1] + b[1] \in Int /\ a[2] + b[2] \in Int /\ a[1] - b[1] \in Int /\ a[2] - b[2] \in Int
  BY <1>2
<1>4. /\ fp_addm_low(a[1], b[1]) % P = (a[1] + b[1]) % P
      /\ fp_addm_low(a[2], b[2]) % P = (a[2] + b[2]) % P
      /\ fp_subm_low(a[1], b[1]) % P = (a[1] - b[1]) % P
      /\ fp_subm_low(a[2], b[2]) % P = (a[2] - b[2]) % P
  BY <1>1, <1>3, AddmCorrect, SubmCorrect, ModTwice
<1> QED BY <1>4 DEF Same, GAdd, GSub, fp2_add, fp2_sub

LEMMA MulnSame ==
  ASSUME NEW a \in Fp2, NEW b \in Fp2
  PROVE  fp2_muln_low(a, b) \in Un2 /\ Same(fp2_muln_low(a, b), GMul(a, b))
<1>1. /\ a[1] \in Fp /\ a[2] \in Fp /\ b[1] \in Fp /\ b[2] \in Fp
      /\ a = <<a[1], a[2]>> /\ b = <<b[1], b[2]>>
  BY DEF Fp2
<1>2. a[1] \in Sum2 /\ a[2] \in Sum2 /\ b[1] \in Sum2 /\ b[2] \in Sum2
  BY <1>1, Sizes DEF Fp, Sum2
<1> DEFINE c == fp2_muln_low(<<a[1], a[2]>>, <<b[1], b[2]>>)
<1>3. c[1] % P = (a[1] * b[1] - a[2] * b[2]) % P /\ c[2] = a[1] * b[2] + a[2] * b[1]
  BY <1>2, Fp2MulnLazy
<1>4. c = fp2_muln_low(a, b)
  BY <1>1, Zenon
<1> HIDE DEF c
<1>5. Same(c, GMul(a, b))
  BY <1>3 DEF Same, GMul
<1> QED BY <1>4, <1>5, MulnCanonical

LEMMA SqrnSame ==
  ASSUME NEW a \in Fp2
  PROVE  fp2_sqrn_low(a) \in Un2 /\ Same(fp2_sqrn_low(a), GMul(a, a))
<1> DEFINE x == a[1]  y == a[2]
           s == fp_addn_low(x, y)  d == fp_subm_low(x, y)  e == fp_dblm_low(x)
<1>1. x \in Fp /\ y \in Fp /\ x \in Int /\ y \in Int
  BY FpInt DEF Fp2
<1>3. fp2_sqrn_low(a) = <<s * d, e * y>> /\ GMul(a, a) = <<x * x - y * y, x * y + y * x>>
  BY DEF fp2_sqrn_low, fp_muln_low, GMul
<1> HIDE DEF x, y
<1>2. /\ s = x + y /\ d \in Fp /\ d = (x - y) % P
      /\ e \in Fp /\ e = (x + x) % P
  BY <1>1, AddnCorrect, SubmCorrect, AddmCorrect DEF fp_dblm_low
<1> HIDE DEF s, d, e
<1>4. s \in Int /\ d \in Int /\ e \in Int /\ x - y \in Int /\ x + x \in Int
  BY <1>1, <1>2, FpInt
<1>5. d % P = (x - y) % P /\ e % P = (x + x) % P
  BY <1>2, <1>4, ModTwice
<1>6. /\ (s * d) % P = (s * (x - y)) % P
      /\ (e * y) % P = ((x + x) * y) % P
  <2>1. (s * d) % P = (s * (x - y)) % P
    BY <1>4, <1>5, ModSums
  <2>2. (e * y) % P = ((x + x) * y) % P
    BY <1>1, <1>4, <1>5, ModSums
  <2> QED BY <2>1, <2>2
<1>7. /\ s * (x - y) = x * x - y * y
      /\ (x + x) * y = x * y + y * x
  BY <1>1, <1>2
<1>8. Same(<<s * d, e * y>>, <<x * x - y * y, x * y + y * x>>)
  BY <1>6, <1>7 DEF Same
<1> QED BY <1>3, <1>8, SqrnCanonical

LEMMA AddcSame ==
  ASSUME NEW a \in Un2, NEW b \in Un2
  PROVE  /\ fp2_addc_low(a, b) \in Un2 /\ Same(fp2_addc_low(a, b), GAdd(a, b))
         /\ fp2_subc_low(a, b) \in Un2 /\ Same(fp2_subc_low(a, b), GSub(a, b))
<1>1. a[1] \in Unreduced /\ a[2] \in Unreduced /\ b[1] \in Unreduced /\ b[2] \in Unreduced
  BY DEF Un2
<1>2. Same(fp2_addc_low(a, b), GAdd(a, b)) /\ Same(fp2_subc_low(a, b), GSub(a, b))
  BY <1>1, AddcCorrect, SubcCorrect DEF Same, GAdd, GSub, fp2_addc_low, fp2_subc_low
<1> QED BY <1>2, Un2Closed

(* A difference does not wrap if the subtracted value is at most P * R     *)
(* greater.                                                                *)
LEMMA SubcAny ==
  ASSUME NEW a \in Within, NEW b \in Within, a - b + P * R >= 0
  PROVE  fp_subc_low(a, b) % P = (a - b) % P
<1>1. /\ a \in Int /\ 0 <= a /\ a < P * R + P /\ b \in Int /\ 0 <= b
      /\ P * R \in Int /\ P \in Int /\ R \in Int
  BY WithinFacts, Sizes
<1>2. CASE a < b
  <2>1. a - b + P * R \in Unreduced
    BY <1>1, <1>2 DEF Unreduced
  <2>2. fp_subc_low(a, b) = a - b + P * R
    BY <1>2, <2>1, UnreducedFits DEF fp_subc_low
  <2>3. ((a - b) + R * P) % P = (a - b) % P
    <3>1. a - b \in Int
      BY <1>1
    <3> QED BY <1>1, <3>1, MultipleAdded
  <2>4. (a - b) + R * P = a - b + P * R
    BY <1>1
  <2> QED BY <2>2, <2>3, <2>4
<1>3. CASE ~ (a < b)
  BY <1>3 DEF fp_subc_low
<1> QED BY <1>2, <1>3

LEMMA SubcWithin ==
  ASSUME NEW a \in Within2, NEW b \in Un2
  PROVE  fp2_subc_low(a, b) \in Within2 /\ Same(fp2_subc_low(a, b), GSub(a, b))
<1>1. a[1] \in Within /\ a[2] \in Within /\ b[1] \in Unreduced /\ b[2] \in Unreduced
  BY DEF Within2, Un2
<1>2. ASSUME NEW x \in Within, NEW y \in Unreduced PROVE fp_subc_low(x, y) % P = (x - y) % P
  <2>1. x \in Int /\ 0 <= x /\ y \in Int /\ y < P * R /\ P * R \in Int
    BY WithinFacts, UnreducedFits
  <2>2. x - y + P * R >= 0 /\ y \in Within
    BY <2>1, UnreducedIsWithin
  <2> QED BY <2>2, SubcAny
<1>3. Same(fp2_subc_low(a, b), GSub(a, b))
  BY <1>1, <1>2 DEF Same, GSub, fp2_subc_low
<1> QED BY <1>3, Within2Mixed

LEMMA ModOne ==
  ASSUME NEW a \in Int, NEW c \in Int, NEW b \in Int, a % P = c % P
  PROVE  /\ (a + b) % P = (c + b) % P /\ (a - b) % P = (c - b) % P
         /\ (a * b) % P = (c * b) % P /\ (b * a) % P = (b * c) % P
<1> DEFINE d == b
<1>1. d \in Int /\ b % P = d % P
  OBVIOUS
<1> HIDE DEF d
<1>2. (a + b) % P = (c + d) % P
  BY <1>1, ModSums
<1>3. (a - b) % P = (c - d) % P
  BY <1>1, ModSums
<1>4. (a * b) % P = (c * d) % P
  BY <1>1, ModSums
<1>5. (b * a) % P = (d * c) % P
  BY <1>1, ModSums
<1> QED BY <1>2, <1>3, <1>4, <1>5 DEF d

LEMMA RepeatSame == ASSUME NEW x \in Unreduced PROVE Repeat(x) % P = (QNR * x) % P
<1> DEFINE Is(v) == /\ Repeat(x) = v[QNR] /\ v[0] = 0
                    /\ \A k \in 0 .. QNR - 1 : v[k + 1] = fp_addc_low(v[k], x)
<1>0. QNR \in Nat /\ x \in Int
  BY TowerAssumption, UnreducedFits
<1>1. PICK v : Is(v)
  BY RepeatLoop
<1> DEFINE F == {k \in 0 .. QNR : v[k] \in Unreduced /\ v[k] % P = (k * x) % P}
<1>2. 0 \in F
  <2>1. 0 \in Unreduced
    BY Sizes, SquaresFit, UnreducedFits DEF Unreduced
  <2>2. v[0] % P = (0 * x) % P
    BY <1>0, <1>1
  <2> QED BY <1>0, <1>1, <2>1, <2>2
<1>3. ASSUME NEW k \in 0 .. QNR - 1, k \in F PROVE k + 1 \in F
  <2> DEFINE y == v[k]
  <2>1. y \in Unreduced /\ y % P = (k * x) % P /\ y \in Int /\ v[k + 1] = fp_addc_low(y, x)
    BY <1>1, <1>3, UnreducedFits
  <2> HIDE DEF y
  <2>2. fp_addc_low(y, x) \in Unreduced /\ fp_addc_low(y, x) % P = (y + x) % P
    BY <2>1, AddcCorrect
  <2>3. k * x \in Int /\ x % P = x % P
    BY <1>0
  <2>4. (y + x) % P = (k * x + x) % P
    BY <1>0, <2>1, <2>3, ModSums
  <2>5. k * x + x = (k + 1) * x
    BY <1>0
  <2>6. k + 1 \in 0 .. QNR
    BY <1>0
  <2>7. v[k + 1] \in Unreduced /\ v[k + 1] % P = ((k + 1) * x) % P
    BY <2>1, <2>2, <2>4, <2>5
  <2> QED BY <2>6, <2>7
<1>4. QNR \in F
  <2> HIDE DEF F
  <2>1. \A k \in 0 .. QNR : k \in F
    BY <1>0, <1>2, <1>3, UpTo
  <2> QED BY <1>0, <2>1
<1> QED BY <1>1, <1>4

LEMMA NordSame ==
  ASSUME NEW a \in Un2
  PROVE  fp2_nord_low(a) \in Un2 /\ Same(fp2_nord_low(a), GXi(a))
<1> DEFINE x == a[1]  y == a[2]  u == Repeat(x)  w == Repeat(y)
<1>1. x \in Unreduced /\ y \in Unreduced
  BY DEF Un2
<1>2. /\ fp2_nord_low(a) = <<fp_subc_low(u, y), fp_addc_low(w, x)>>
      /\ GXi(a) = <<QNR * x - 1 * y, QNR * y + 1 * x>>
  BY DEF fp2_nord_low, GXi, GMul
<1> HIDE DEF x, y
<1>3. u \in Unreduced /\ w \in Unreduced /\ u % P = (QNR * x) % P /\ w % P = (QNR * y) % P
  BY <1>1, RepeatFits, RepeatSame
<1> HIDE DEF u, w
<1>4. x \in Int /\ y \in Int /\ u \in Int /\ w \in Int /\ QNR \in Int
  BY <1>1, <1>3, UnreducedFits, TowerAssumption
<1>5. QNR * x \in Int /\ QNR * y \in Int /\ 1 * y = y /\ 1 * x = x
  BY <1>4
<1>6. fp_subc_low(u, y) % P = (u - y) % P /\ fp_addc_low(w, x) % P = (w + x) % P
  BY <1>1, <1>3, SubcCorrect, AddcCorrect
<1> DEFINE c == QNR * x  d == QNR * y
<1>10. /\ c \in Int /\ d \in Int /\ u % P = c % P /\ w % P = d % P
       /\ x % P = x % P /\ y % P = y % P
  BY <1>3, <1>5
<1> HIDE DEF c, d
<1>11. (u - y) % P = (c - y) % P
  BY <1>4, <1>10, ModOne
<1>12. (w + x) % P = (d + x) % P
  BY <1>4, <1>10, ModOne
<1>7. (u - y) % P = (QNR * x - y) % P
  BY <1>11 DEF c
<1>8. (w + x) % P = (QNR * y + x) % P
  BY <1>12 DEF d
<1>9. Same(<<fp_subc_low(u, y), fp_addc_low(w, x)>>, <<QNR * x - 1 * y, QNR * y + 1 * x>>)
  BY <1>5, <1>6, <1>7, <1>8 DEF Same
<1> QED BY <1>2, <1>9, NordFits

(* Twice the half of a sum is the sum; what the square in fp12 subtracts   *)
(* it from does not wrap.                                                  *)
LEMMA HalfSame1 ==
  ASSUME NEW x \in Unreduced, NEW y \in Unreduced
  PROVE  /\ HalfOf(x, y) \in Within
         /\ (HalfOf(x, y) + HalfOf(x, y)) % P = (x + y) % P
         /\ fp_subc_low(y, HalfOf(x, y)) \in Unreduced
         /\ fp_subc_low(y, HalfOf(x, y)) % P = (y - HalfOf(x, y)) % P
<1> DEFINE e == IF (x + y) % 2 = 1 THEN x + y + P ELSE x + y
           h == e \div 2
<1>1. /\ x \in Int /\ 0 <= x /\ x < P * R /\ y \in Int /\ 0 <= y /\ y < P * R
      /\ P * R \in Int /\ P \in Int /\ P > 2 /\ R * R \in Int
  BY UnreducedFits, Sizes
<1>2. fp_addd_low(x, y) = x + y
  <2>1. x + y \in Int /\ 0 <= x + y /\ x + y < R * R
    BY <1>1, WithinFacts
  <2> QED BY <2>1, FitsDV DEF fp_addd_low
<1>3. e \in Int /\ x + y <= e /\ e <= x + y + P /\ e % P = (x + y) % P /\ e % 2 = 0
  <2>1. P % 2 = 1
    BY LazyFpAssumption
  <2>2. (x + y + P) % P = (x + y) % P
    <3>1. x + y \in Int /\ x + y + P = (x + y) + 1 * P
      BY <1>1
    <3> QED BY <3>1, MultipleAdded
  <2>3. CASE (x + y) % 2 = 1
    <3>1. (x + y + P) % 2 = 0
      BY <1>1, <2>1, <2>3
    <3> QED BY <1>1, <2>2, <2>3, <3>1
  <2>4. CASE (x + y) % 2 # 1
    <3>1. (x + y) % 2 = 0
      BY <1>1, <2>4
    <3> QED BY <1>1, <2>4, <3>1
  <2> QED BY <2>3, <2>4
<1>4. e % (R * R) = e
  <2>1. 0 <= e /\ e < R * R
    BY <1>1, <1>3, WithinFacts
  <2> HIDE DEF e
  <2> QED BY <1>3, <2>1, FitsDV
<1>5. HalfOf(x, y) = h
  BY <1>2, <1>4 DEF HalfOf, fp_hlvd_low
<1>6. h \in Int /\ h + h = e
  <2> HIDE DEF e
  <2>1. e \div 2 \in Int /\ e = (e \div 2) * 2 + (e % 2)
    BY <1>3, DivMod
  <2> QED BY <2>1, <1>3
<1> HIDE DEF e, h
<1>7. HalfOf(x, y) \in Within /\ fp_subc_low(y, HalfOf(x, y)) \in Unreduced
  BY HalfOfSum
<1>8. y - h + P * R >= 0
  <2>1. h + h <= x + y + P
    BY <1>3, <1>6
  <2> DEFINE c == P * R
  <2>2. c \in Int /\ x < c /\ 0 <= y /\ P <= c
    BY <1>1, WithinFacts
  <2> HIDE DEF c
  <2>3. y - h + c >= 0
    BY <1>1, <1>6, <2>1, <2>2
  <2> QED BY <2>3 DEF c
<1>9. fp_subc_low(y, h) % P = (y - h) % P
  <2>1. y \in Within /\ h \in Within
    BY <1>5, <1>7, UnreducedIsWithin
  <2> QED BY <1>8, <2>1, SubcAny
<1> QED BY <1>3, <1>5, <1>6, <1>7, <1>9

LEMMA HalfSumSame ==
  ASSUME NEW a \in Un2, NEW b \in Un2
  PROVE  /\ HalfSum(a, b) \in Within2
         /\ Same(GAdd(HalfSum(a, b), HalfSum(a, b)), GAdd(a, b))
         /\ fp2_subc_low(b, HalfSum(a, b)) \in Un2
         /\ Same(fp2_subc_low(b, HalfSum(a, b)), GSub(b, HalfSum(a, b)))
<1> DEFINE h1 == HalfOf(a[1], b[1])  h2 == HalfOf(a[2], b[2])
<1>1. a[1] \in Unreduced /\ a[2] \in Unreduced /\ b[1] \in Unreduced /\ b[2] \in Unreduced
  BY DEF Un2
<1>2. HalfSum(a, b) = <<h1, h2>>
  BY DEF HalfSum, HalfOf, fp2_hlvd_low, fp2_addd_low
<1>3. /\ (h1 + h1) % P = (a[1] + b[1]) % P /\ fp_subc_low(b[1], h1) % P = (b[1] - h1) % P
      /\ (h2 + h2) % P = (a[2] + b[2]) % P /\ fp_subc_low(b[2], h2) % P = (b[2] - h2) % P
  BY <1>1, HalfSame1
<1> HIDE DEF h1, h2
<1>4. Same(GAdd(<<h1, h2>>, <<h1, h2>>), GAdd(a, b))
  BY <1>3 DEF Same, GAdd
<1>5. Same(fp2_subc_low(b, <<h1, h2>>), GSub(b, <<h1, h2>>))
  BY <1>3 DEF Same, GSub, fp2_subc_low
<1> QED BY <1>2, <1>4, <1>5, HalfSumFits

(* Reduction divides by R. *)
LEMMA RInverse == RInv \in Fp /\ (RInv * (R % P)) % P = 1 /\ (RInv * R) % P = 1
<1>1. PICK u \in 0 .. R - 1 : (u * P) % R = R - 1
  BY MontyAssumption
<1>2. u \in Int /\ P \in Int /\ R \in Nat \ {0} /\ u * P \in Int
  BY <1>1, Sizes
<1> DEFINE q == (u * P) \div R
<1>3. q \in Int /\ u * P = q * R + (R - 1)
  BY <1>1, <1>2, DivMod
<1> HIDE DEF q
<1>4. (q + 1) * R = 1 + u * P
  BY <1>2, <1>3
<1>5. ((q + 1) * R) % P = 1
  <2>1. (1 + u * P) % P = 1 % P
    <3> DEFINE y == 1
    <3>1. y \in Int
      OBVIOUS
    <3> HIDE DEF y
    <3>2. (y + u * P) % P = y % P
      BY <1>2, <3>1, MultipleAdded
    <3> QED BY <3>2 DEF y
  <2>2. 1 % P = 1
    <3>1. 1 \in Fp
      BY Sizes DEF Fp
    <3> QED BY <3>1, Small
  <2> QED BY <1>4, <2>1, <2>2
<1> DEFINE x == (q + 1) % P
<1>6. x \in Fp /\ x % P = (q + 1) % P /\ (R % P) % P = R % P
  BY <1>2, <1>3, ModTyped, ModTwice
<1>7. x \in Int /\ R % P \in Int /\ q + 1 \in Int /\ R \in Int
  BY <1>2, <1>3, <1>6, ModTyped, FpInt
<1> HIDE DEF x
<1>8. (x * (R % P)) % P = ((q + 1) * R) % P
  BY <1>6, <1>7, ModSums
<1>9. \E y \in Fp : (y * (R % P)) % P = 1
  BY <1>5, <1>6, <1>8
<1>10. RInv \in Fp /\ (RInv * (R % P)) % P = 1
  BY <1>9 DEF RInv
<1>11. (RInv * (R % P)) % P = (RInv * R) % P
  <2>1. RInv \in Int /\ RInv % P = RInv % P
    BY <1>10, FpInt
  <2> QED BY <1>6, <1>7, <2>1, ModSums
<1> QED BY <1>10, <1>11

LEMMA PlainReduced ==
  ASSUME NEW d \in Within
  PROVE  fp_rdcn_low(d) % P = (d * RInv) % P
<1> DEFINE e == fp_rdcn_low(d)
<1>1. e \in Fp /\ (e * R) % P = d % P
  BY RdcnCorrect DEF Within
<1> HIDE DEF e
<1>2. e \in Int /\ d \in Int /\ R \in Int /\ RInv \in Int
  BY <1>1, WithinFacts, RInverse, FpInt, Sizes
<1>3. e * R \in Int /\ RInv * R \in Int /\ RInv % P = RInv % P /\ e % P = e % P /\ 1 \in Int
  BY <1>2
<1>4. ((e * R) * RInv) % P = (d * RInv) % P
  <2> DEFINE c == e * R
  <2>1. c \in Int /\ c % P = d % P /\ RInv % P = RInv % P
    BY <1>1, <1>3
  <2> HIDE DEF c
  <2>2. (c * RInv) % P = (d * RInv) % P
    BY <1>2, <2>1, ModOne
  <2> QED BY <2>2 DEF c
<1>5. (RInv * R) % P = 1 % P
  <2>1. 1 % P = 1
    <3>1. 1 \in Fp
      BY Sizes DEF Fp
    <3> QED BY <3>1, Small
  <2> QED BY <2>1, RInverse
<1>6. (e * (RInv * R)) % P = (e * 1) % P
  BY <1>2, <1>3, <1>5, ModSums
<1>7. (e * R) * RInv = e * (RInv * R) /\ e * 1 = e
  BY <1>2
<1> QED BY <1>4, <1>6, <1>7 DEF e

-----------------------------------------------------------------------------
(* The products of ExactField, coefficient by coefficient, over the        *)
(* Gaussian integers.                                                      *)

GScale(c, x) == <<c * x[1], c * x[2]>>
Mod2(x)      == <<x[1] % P, x[2] % P>>

GTerm(x, y, j, k) == IF j <= k THEN GMul(x[j], y[k - j + 1])
                     ELSE GXi(GMul(x[j], y[k - j + 7]))
GThree(x, y, j, k) == GAdd(GAdd(GTerm(x, y, j, k), GTerm(x, y, j + 1, k)), GTerm(x, y, j + 2, k))
GCoef(x, y, k)     == GAdd(GThree(x, y, 1, k), GThree(x, y, 4, k))

Sixes(S) == S \X S \X S \X S \X S \X S

LEMMA SixParts ==
  ASSUME NEW S, NEW x \in Sixes(S)
  PROVE  /\ \A j \in 1 .. 6 : x[j] \in S
         /\ x = <<x[1], x[2], x[3], x[4], x[5], x[6]>>
<1>1. /\ x[1] \in S /\ x[2] \in S /\ x[3] \in S /\ x[4] \in S /\ x[5] \in S /\ x[6] \in S
      /\ x = <<x[1], x[2], x[3], x[4], x[5], x[6]>>
  BY DEF Sixes
<1>2. \A j \in 1 .. 6 : j = 1 \/ j = 2 \/ j = 3 \/ j = 4 \/ j = 5 \/ j = 6
  OBVIOUS
<1> QED BY <1>1, <1>2

LEMMA SameAsMod ==
  /\ \A x \in Complex : x \in Gauss
  /\ \A x \in Gauss : Mod2(x) \in Complex /\ Same(Mod2(x), x)
  /\ \A x \in Complex, y \in Complex : Same(x, y) => x = y
<1>1. ASSUME NEW x \in Complex PROVE x \in Gauss /\ x[1] \in Fp /\ x[2] \in Fp /\ x = <<x[1], x[2]>>
  <2>1. x[1] \in Fp /\ x[2] \in Fp /\ x = <<x[1], x[2]>>
    BY DEF Complex
  <2> QED BY <2>1, FpInt DEF Gauss
<1>2. ASSUME NEW x \in Gauss PROVE Mod2(x) \in Complex /\ Same(Mod2(x), x)
  <2>1. x[1] \in Int /\ x[2] \in Int
    BY GaussParts
  <2>2. x[1] % P \in Fp /\ x[2] % P \in Fp /\ (x[1] % P) % P = x[1] % P /\ (x[2] % P) % P = x[2] % P
    BY <2>1, ModTyped, ModTwice
  <2> QED BY <2>2 DEF Mod2, Complex, Same
<1>3. ASSUME NEW x \in Complex, NEW y \in Complex, Same(x, y) PROVE x = y
  <2>1. x[1] % P = x[1] /\ x[2] % P = x[2] /\ y[1] % P = y[1] /\ y[2] % P = y[2]
    BY <1>1, Small
  <2> QED BY <1>1, <1>3, <2>1 DEF Same
<1> QED BY <1>1, <1>2, <1>3

LEMMA ExactOps ==
  ASSUME NEW x \in Gauss, NEW y \in Gauss
  PROVE  /\ Add2(x, y) \in Complex /\ Same(Add2(x, y), GAdd(x, y))
         /\ Sub2(x, y) \in Complex /\ Same(Sub2(x, y), GSub(x, y))
         /\ Mul2(x, y) \in Complex /\ Same(Mul2(x, y), GMul(x, y))
<1>1. /\ Add2(x, y) = Mod2(GAdd(x, y)) /\ Sub2(x, y) = Mod2(GSub(x, y))
      /\ Mul2(x, y) = Mod2(GMul(x, y))
  BY DEF Add2, Sub2, Mul2, Mod2, GAdd, GSub, GMul
<1> QED BY <1>1, GaussClosed, SameAsMod

(* From here on it is enough that the operations respect congruence.       *)
LEMMA TermSame ==
  ASSUME NEW x, NEW y, \A j \in 1 .. 6 : x[j] \in Gauss /\ y[j] \in Gauss,
         NEW j \in 1 .. 6, NEW k \in 1 .. 6
  PROVE  GTerm(x, y, j, k) \in Gauss
<1>1. CASE j <= k
  <2>1. k - j + 1 \in 1 .. 6
    BY <1>1
  <2>2. x[j] \in Gauss /\ y[k - j + 1] \in Gauss
    BY <2>1
  <2>3. GMul(x[j], y[k - j + 1]) \in Gauss
    BY <2>2, GaussClosed
  <2> QED BY <1>1, <2>3 DEF GTerm
<1>2. CASE ~ (j <= k)
  <2>1. k - j + 7 \in 1 .. 6
    BY <1>2
  <2>2. x[j] \in Gauss /\ y[k - j + 7] \in Gauss
    BY <2>1
  <2>3. GMul(x[j], y[k - j + 7]) \in Gauss
    BY <2>2, GaussClosed
  <2>4. GXi(GMul(x[j], y[k - j + 7])) \in Gauss
    BY <2>3, GaussClosed
  <2> QED BY <1>2, <2>4 DEF GTerm
<1> QED BY <1>1, <1>2

(* The terms of Mul12. *)
Term12(x, y, j, k) == IF j <= k THEN Mul2(x[j], y[k - j + 1])
                      ELSE Mul2(<<QNR, 1>>, Mul2(x[j], y[k - j + 7]))

LEMMA TermExact ==
  ASSUME NEW x, NEW y, NEW a, NEW b,
         \A j \in 1 .. 6 : /\ x[j] \in Gauss /\ y[j] \in Gauss /\ a[j] \in Gauss /\ b[j] \in Gauss
                           /\ Same(x[j], a[j]) /\ Same(y[j], b[j]),
         NEW j \in 1 .. 6, NEW k \in 1 .. 6
  PROVE  Term12(x, y, j, k) \in Gauss /\ Same(Term12(x, y, j, k), GTerm(a, b, j, k))
<1>1. CASE j <= k
  <2> DEFINE m == k - j + 1
  <2>1. m \in 1 .. 6
    BY <1>1
  <2>2. Term12(x, y, j, k) = Mul2(x[j], y[m]) /\ GTerm(a, b, j, k) = GMul(a[j], b[m])
    BY <1>1 DEF Term12, GTerm
  <2> HIDE DEF m
  <2>3. /\ x[j] \in Gauss /\ y[m] \in Gauss /\ a[j] \in Gauss /\ b[m] \in Gauss
        /\ Same(x[j], a[j]) /\ Same(y[m], b[m])
    BY <2>1
  <2>4. Mul2(x[j], y[m]) \in Gauss /\ Same(Mul2(x[j], y[m]), GMul(x[j], y[m]))
    BY <2>3, ExactOps, SameAsMod
  <2>5. Same(GMul(x[j], y[m]), GMul(a[j], b[m]))
    BY <2>3, SameSums
  <2> QED BY <2>2, <2>4, <2>5, SameTwice
<1>2. CASE ~ (j <= k)
  <2> DEFINE m == k - j + 7
  <2>1. m \in 1 .. 6
    BY <1>2
  <2>2. /\ Term12(x, y, j, k) = Mul2(<<QNR, 1>>, Mul2(x[j], y[m]))
        /\ GTerm(a, b, j, k) = GXi(GMul(a[j], b[m]))
    BY <1>2 DEF Term12, GTerm
  <2> HIDE DEF m
  <2>3. /\ x[j] \in Gauss /\ y[m] \in Gauss /\ a[j] \in Gauss /\ b[m] \in Gauss
        /\ Same(x[j], a[j]) /\ Same(y[m], b[m])
    BY <2>1
  <2> DEFINE c == Mul2(x[j], y[m])  d == GMul(a[j], b[m])
  <2>4. c \in Gauss /\ Same(c, GMul(x[j], y[m]))
    BY <2>3, ExactOps, SameAsMod
  <2>5. Same(GMul(x[j], y[m]), d) /\ d \in Gauss
    BY <2>3, SameSums, GaussClosed
  <2>6. Same(c, d)
    BY <2>4, <2>5, SameTwice
  <2>7. <<QNR, 1>> \in Gauss
    BY TowerAssumption DEF Gauss
  <2> HIDE DEF c, d
  <2>8. Mul2(<<QNR, 1>>, c) \in Gauss /\ Same(Mul2(<<QNR, 1>>, c), GXi(c))
    BY <2>4, <2>7, ExactOps, SameAsMod DEF GXi
  <2>9. Same(GXi(c), GXi(d))
    BY <2>4, <2>5, <2>6, SameXi
  <2>10. Same(Mul2(<<QNR, 1>>, c), GXi(d))
    BY <2>8, <2>9, SameTwice
  <2> QED BY <2>2, <2>8, <2>10 DEF c, d
<1> QED BY <1>1, <1>2

LEMMA SumExact ==
  ASSUME NEW x \in Gauss, NEW y \in Gauss, NEW a \in Gauss, NEW b \in Gauss, Same(x, a), Same(y, b)
  PROVE  /\ Add2(x, y) \in Gauss /\ Add2(x, y) \in Complex /\ GAdd(a, b) \in Gauss
         /\ Same(Add2(x, y), GAdd(a, b))
<1>1. Add2(x, y) \in Complex /\ Add2(x, y) \in Gauss /\ Same(Add2(x, y), GAdd(x, y)) /\ GAdd(a, b) \in Gauss
  BY ExactOps, SameAsMod, GaussClosed
<1>2. Same(GAdd(x, y), GAdd(a, b))
  BY SameSums
<1> QED BY <1>1, <1>2, SameTwice

Three12(x, y, j, k) == Add2(Add2(Term12(x, y, j, k), Term12(x, y, j + 1, k)), Term12(x, y, j + 2, k))
Coef12(x, y, k)     == Add2(Three12(x, y, 1, k), Three12(x, y, 4, k))

LEMMA Mul12Is ==
  ASSUME NEW x, NEW y
  PROVE  Mul12(x, y) = <<Coef12(x, y, 1), Coef12(x, y, 2), Coef12(x, y, 3),
                         Coef12(x, y, 4), Coef12(x, y, 5), Coef12(x, y, 6)>>
BY DEF Mul12, Coef12, Three12, Term12

LEMMA CoefExact ==
  ASSUME NEW x, NEW y, NEW a, NEW b,
         \A j \in 1 .. 6 : /\ x[j] \in Gauss /\ y[j] \in Gauss /\ a[j] \in Gauss /\ b[j] \in Gauss
                           /\ Same(x[j], a[j]) /\ Same(y[j], b[j]),
         NEW k \in 1 .. 6
  PROVE  /\ Coef12(x, y, k) \in Complex /\ GCoef(a, b, k) \in Gauss
         /\ Same(Coef12(x, y, k), GCoef(a, b, k))
<1>1. ASSUME NEW j \in {1, 4}
      PROVE  /\ Three12(x, y, j, k) \in Gauss /\ GThree(a, b, j, k) \in Gauss
             /\ Same(Three12(x, y, j, k), GThree(a, b, j, k))
  <2> DEFINE T(m) == Term12(x, y, m, k)  G(m) == GTerm(a, b, m, k)
  <2>1. j \in 1 .. 6 /\ j + 1 \in 1 .. 6 /\ j + 2 \in 1 .. 6
    OBVIOUS
  <2>2. \A m \in 1 .. 6 : T(m) \in Gauss /\ G(m) \in Gauss /\ Same(T(m), G(m))
    BY TermExact, TermSame
  <2>3. /\ Three12(x, y, j, k) = Add2(Add2(T(j), T(j + 1)), T(j + 2))
        /\ GThree(a, b, j, k) = GAdd(GAdd(G(j), G(j + 1)), G(j + 2))
    BY DEF Three12, GThree
  <2> HIDE DEF T, G
  <2>4. /\ Add2(T(j), T(j + 1)) \in Gauss /\ GAdd(G(j), G(j + 1)) \in Gauss
        /\ Same(Add2(T(j), T(j + 1)), GAdd(G(j), G(j + 1)))
    BY <2>1, <2>2, SumExact
  <2> QED BY <2>1, <2>2, <2>3, <2>4, SumExact
<1>2. /\ Three12(x, y, 1, k) \in Gauss /\ GThree(a, b, 1, k) \in Gauss
      /\ Same(Three12(x, y, 1, k), GThree(a, b, 1, k))
      /\ Three12(x, y, 4, k) \in Gauss /\ GThree(a, b, 4, k) \in Gauss
      /\ Same(Three12(x, y, 4, k), GThree(a, b, 4, k))
  BY <1>1
<1> QED BY <1>2, SumExact DEF Coef12, GCoef

(* Scaling both factors. *)
LEMMA ScaleLaws ==
  ASSUME NEW c \in Int, NEW x \in Gauss, NEW y \in Gauss
  PROVE  /\ GScale(c, x) \in Gauss
         /\ GMul(GScale(c, x), GScale(c, y)) = GScale(c * c, GMul(x, y))
         /\ GXi(GScale(c, x)) = GScale(c, GXi(x))
         /\ GAdd(GScale(c, x), GScale(c, y)) = GScale(c, GAdd(x, y))
<1>1. x[1] \in Int /\ x[2] \in Int /\ y[1] \in Int /\ y[2] \in Int /\ QNR \in Int
  BY GaussParts, TowerAssumption
<1>2. GScale(c, x) \in Gauss
  BY <1>1 DEF GScale, Gauss
<1>3. GMul(GScale(c, x), GScale(c, y)) = GScale(c * c, GMul(x, y))
  BY <1>1 DEF GScale, GMul
<1>4. GXi(GScale(c, x)) = GScale(c, GXi(x))
  BY <1>1 DEF GScale, GXi, GMul
<1>5. GAdd(GScale(c, x), GScale(c, y)) = GScale(c, GAdd(x, y))
  BY <1>1 DEF GScale, GAdd
<1> QED BY <1>2, <1>3, <1>4, <1>5

LEMMA ScaleSame ==
  ASSUME NEW c \in Int, NEW x \in Gauss, NEW y \in Gauss, Same(x, y)
  PROVE  Same(GScale(c, x), GScale(c, y))
<1>1. x[1] \in Int /\ x[2] \in Int /\ y[1] \in Int /\ y[2] \in Int
  BY GaussParts
<1>2. x[1] % P = y[1] % P /\ x[2] % P = y[2] % P
  BY DEF Same
<1>3. (c * x[1]) % P = (c * y[1]) % P /\ (c * x[2]) % P = (c * y[2]) % P
  BY <1>1, <1>2, ModOne
<1> QED BY <1>3 DEF Same, GScale

LEMMA CoefScale ==
  ASSUME NEW x, NEW y, NEW u, NEW v, NEW c \in Int,
         \A j \in 1 .. 6 : /\ x[j] \in Gauss /\ y[j] \in Gauss
                           /\ u[j] = GScale(c, x[j]) /\ v[j] = GScale(c, y[j]),
         NEW k \in 1 .. 6
  PROVE  GCoef(u, v, k) = GScale(c * c, GCoef(x, y, k))
<1>1. ASSUME NEW j \in 1 .. 6 PROVE GTerm(u, v, j, k) = GScale(c * c, GTerm(x, y, j, k))
  <2>1. CASE j <= k
    <3> DEFINE m == k - j + 1
    <3>1. m \in 1 .. 6
      BY <2>1
    <3>2. GTerm(u, v, j, k) = GMul(u[j], v[m]) /\ GTerm(x, y, j, k) = GMul(x[j], y[m])
      BY <2>1 DEF GTerm
    <3> HIDE DEF m
    <3>3. /\ x[j] \in Gauss /\ y[m] \in Gauss
          /\ u[j] = GScale(c, x[j]) /\ v[m] = GScale(c, y[m])
      BY <3>1
    <3> QED BY <3>2, <3>3, ScaleLaws
  <2>2. CASE ~ (j <= k)
    <3> DEFINE m == k - j + 7
    <3>1. m \in 1 .. 6
      BY <2>2
    <3>2. GTerm(u, v, j, k) = GXi(GMul(u[j], v[m])) /\ GTerm(x, y, j, k) = GXi(GMul(x[j], y[m]))
      BY <2>2 DEF GTerm
    <3> HIDE DEF m
    <3>3. /\ x[j] \in Gauss /\ y[m] \in Gauss
          /\ u[j] = GScale(c, x[j]) /\ v[m] = GScale(c, y[m])
      BY <3>1
    <3>4. GMul(u[j], v[m]) = GScale(c * c, GMul(x[j], y[m]))
      BY <3>3, ScaleLaws
    <3>5. GMul(x[j], y[m]) \in Gauss
      BY <3>3, GaussClosed
    <3>6. GXi(GScale(c * c, GMul(x[j], y[m]))) = GScale(c * c, GXi(GMul(x[j], y[m])))
      <4> DEFINE d == c * c
      <4>1. d \in Int
        OBVIOUS
      <4> HIDE DEF d
      <4>2. GXi(GScale(d, GMul(x[j], y[m]))) = GScale(d, GXi(GMul(x[j], y[m])))
        BY <3>5, <4>1, ScaleLaws
      <4> QED BY <4>2 DEF d
    <3> QED BY <3>2, <3>4, <3>6
  <2> QED BY <2>1, <2>2
<1> DEFINE d == c * c
<1>2. d \in Int
  OBVIOUS
<1> HIDE DEF d
<1>3. \A p, q \in Gauss : GAdd(GScale(d, p), GScale(d, q)) = GScale(d, GAdd(p, q)) /\ GAdd(p, q) \in Gauss
  BY <1>2, ScaleLaws, GaussClosed
<1>4. ASSUME NEW j \in {1, 4}
      PROVE  GThree(u, v, j, k) = GScale(d, GThree(x, y, j, k)) /\ GThree(x, y, j, k) \in Gauss
  <2> DEFINE S(m) == GTerm(u, v, m, k)  T(m) == GTerm(x, y, m, k)
  <2>1. \A m \in 1 .. 6 : S(m) = GScale(d, T(m)) /\ T(m) \in Gauss
    BY <1>1, TermSame DEF d
  <2>2. /\ GThree(u, v, j, k) = GAdd(GAdd(S(j), S(j + 1)), S(j + 2))
        /\ GThree(x, y, j, k) = GAdd(GAdd(T(j), T(j + 1)), T(j + 2))
    BY DEF GThree
  <2> HIDE DEF S, T
  <2>3. j \in 1 .. 6 /\ j + 1 \in 1 .. 6 /\ j + 2 \in 1 .. 6
    OBVIOUS
  <2>4. /\ GAdd(S(j), S(j + 1)) = GScale(d, GAdd(T(j), T(j + 1)))
        /\ GAdd(T(j), T(j + 1)) \in Gauss
    BY <1>3, <2>1, <2>3
  <2>5. /\ GAdd(GAdd(S(j), S(j + 1)), S(j + 2)) = GScale(d, GAdd(GAdd(T(j), T(j + 1)), T(j + 2)))
        /\ GAdd(GAdd(T(j), T(j + 1)), T(j + 2)) \in Gauss
    BY <1>3, <2>1, <2>3, <2>4
  <2> QED BY <2>2, <2>5
<1>5. /\ GThree(u, v, 1, k) = GScale(d, GThree(x, y, 1, k)) /\ GThree(x, y, 1, k) \in Gauss
      /\ GThree(u, v, 4, k) = GScale(d, GThree(x, y, 4, k)) /\ GThree(x, y, 4, k) \in Gauss
  BY <1>4
<1>6. GCoef(u, v, k) = GScale(d, GCoef(x, y, k))
  BY <1>3, <1>5 DEF GCoef
<1> QED BY <1>6 DEF d

(* The coefficients of an element of fp12, in the order of Plain12.        *)
Flat(a) == <<a[1][1], a[2][1], a[1][2], a[2][2], a[1][3], a[2][3]>>

LEMMA FlatTyped ==
  /\ \A a \in Fp12 : \A j \in 1 .. 6 : Flat(a)[j] \in Fp2 /\ Flat(a)[j] \in Gauss
  /\ \A u \in Within6 \X Within6 : \A j \in 1 .. 6 : Flat(u)[j] \in Within2 /\ Flat(u)[j] \in Gauss
<1>1. ASSUME NEW S, NEW a \in (S \X S \X S) \X (S \X S \X S), NEW j \in 1 .. 6 PROVE Flat(a)[j] \in S
  <2>1. /\ a[1][1] \in S /\ a[1][2] \in S /\ a[1][3] \in S
        /\ a[2][1] \in S /\ a[2][2] \in S /\ a[2][3] \in S
    OBVIOUS
  <2>2. j = 1 \/ j = 2 \/ j = 3 \/ j = 4 \/ j = 5 \/ j = 6
    OBVIOUS
  <2> QED BY <2>1, <2>2 DEF Flat
<1>2. \A a \in Fp12 : \A j \in 1 .. 6 : Flat(a)[j] \in Fp2
  BY <1>1 DEF Fp12, Fp6
<1>3. \A u \in Within6 \X Within6 : \A j \in 1 .. 6 : Flat(u)[j] \in Within2
  BY <1>1 DEF Within6
<1> QED BY <1>2, <1>3, AreGauss

LEMMA PlainIs ==
  ASSUME NEW a \in Fp2
  PROVE  Plain2(a) = Mod2(GScale(RInv, a)) /\ Plain2(a) \in Complex /\ Same(Plain2(a), GScale(RInv, a))
<1>1. a[1] \in Int /\ a[2] \in Int /\ RInv \in Int /\ a \in Gauss
  BY AreGauss, GaussParts, RInverse, FpInt
<1>2. a[1] * RInv = RInv * a[1] /\ a[2] * RInv = RInv * a[2]
  BY <1>1
<1>3. Plain2(a) = Mod2(GScale(RInv, a))
  BY <1>2 DEF Plain2, Plain, Mod2, GScale
<1>4. GScale(RInv, a) \in Gauss
  BY <1>1, ScaleLaws
<1> QED BY <1>3, <1>4, SameAsMod

LEMMA PlainReduced2 ==
  ASSUME NEW d \in Within2, NEW x \in Gauss, Same(d, x)
  PROVE  /\ fp2_rdcn_low(d) \in Fp2 /\ Plain2(fp2_rdcn_low(d)) \in Complex
         /\ Same(Plain2(fp2_rdcn_low(d)), GScale(RInv * RInv, x))
<1> DEFINE e == fp2_rdcn_low(d)
<1>1. e \in Fp2 /\ e \in Gauss /\ d \in Gauss /\ RInv \in Int
  BY ReducedFp2, AreGauss, RInverse, FpInt
<1>2. d[1] \in Within /\ d[2] \in Within /\ d[1] \in Int /\ d[2] \in Int
  BY <1>1, GaussParts DEF Within2
<1>3. Same(e, GScale(RInv, d))
  <2>1. d[1] * RInv = RInv * d[1] /\ d[2] * RInv = RInv * d[2]
    BY <1>1, <1>2
  <2>2. e[1] % P = (d[1] * RInv) % P /\ e[2] % P = (d[2] * RInv) % P
    BY <1>2, PlainReduced DEF fp2_rdcn_low
  <2> HIDE DEF e
  <2> QED BY <2>1, <2>2 DEF Same, GScale
<1> HIDE DEF e
<1>4. GScale(RInv, d) \in Gauss /\ GScale(RInv, x) \in Gauss
  BY <1>1, ScaleLaws
<1>5. Same(GScale(RInv, d), GScale(RInv, x))
  BY <1>1, ScaleSame
<1>6. Same(e, GScale(RInv, x))
  BY <1>3, <1>5, SameTwice
<1>7. Same(GScale(RInv, e), GScale(RInv, GScale(RInv, x)))
  BY <1>1, <1>4, <1>6, ScaleSame
<1>8. GScale(RInv, GScale(RInv, x)) = GScale(RInv * RInv, x)
  BY <1>1, GaussParts DEF GScale
<1>9. Plain2(e) \in Complex /\ Same(Plain2(e), GScale(RInv, e))
  BY <1>1, PlainIs
<1>10. Same(Plain2(e), GScale(RInv * RInv, x))
  BY <1>7, <1>8, <1>9, SameTwice
<1> QED BY <1>1, <1>9, <1>10 DEF e

(* A product of fp12 is exact if its unreduced coefficients are congruent  *)
(* to those of the product of the polynomials.                             *)
LEMMA ProductExact ==
  ASSUME NEW u \in Within6 \X Within6, NEW a \in Fp12, NEW b \in Fp12,
         \A k \in 1 .. 6 : Same(Flat(u)[k], GCoef(Flat(a), Flat(b), k))
  PROVE  Plain12(fp12_rdcn(u)) = Mul12(Plain12(a), Plain12(b))
<1> DEFINE x == Flat(a)  y == Flat(b)  s == Plain12(a)  v == Plain12(b)
           x1 == [j \in 1 .. 6 |-> GScale(RInv, x[j])]
           y1 == [j \in 1 .. 6 |-> GScale(RInv, y[j])]
           d == Flat(u)
<1>0. RInv \in Int
  BY RInverse, FpInt
<1>1. \A j \in 1 .. 6 : x[j] \in Fp2 /\ y[j] \in Fp2 /\ x[j] \in Gauss /\ y[j] \in Gauss /\ d[j] \in Within2
  BY FlatTyped
<1>2. ASSUME NEW j \in 1 .. 6 PROVE s[j] = Plain2(x[j]) /\ v[j] = Plain2(y[j])
  <2>1. j = 1 \/ j = 2 \/ j = 3 \/ j = 4 \/ j = 5 \/ j = 6
    OBVIOUS
  <2> QED BY <2>1 DEF Plain12, Flat
<1>3. Plain12(fp12_rdcn(u)) = <<Plain2(fp2_rdcn_low(d[1])), Plain2(fp2_rdcn_low(d[2])),
                                Plain2(fp2_rdcn_low(d[3])), Plain2(fp2_rdcn_low(d[4])),
                                Plain2(fp2_rdcn_low(d[5])), Plain2(fp2_rdcn_low(d[6]))>>
  BY DEF Plain12, Flat, fp12_rdcn, fp6_rdcn
<1>4. \A k \in 1 .. 6 : Same(d[k], GCoef(x, y, k))
  OBVIOUS
<1> HIDE DEF x, y, s, v, d
<1>5. \A j \in 1 .. 6 : /\ x1[j] = GScale(RInv, x[j]) /\ y1[j] = GScale(RInv, y[j])
                        /\ x1[j] \in Gauss /\ y1[j] \in Gauss
  BY <1>0, <1>1, ScaleLaws
<1> HIDE DEF x1, y1
<1>6. \A j \in 1 .. 6 : /\ s[j] \in Gauss /\ v[j] \in Gauss /\ x1[j] \in Gauss /\ y1[j] \in Gauss
                        /\ Same(s[j], x1[j]) /\ Same(v[j], y1[j])
  BY <1>1, <1>2, <1>5, PlainIs, SameAsMod
<1>7. ASSUME NEW k \in 1 .. 6 PROVE Plain2(fp2_rdcn_low(d[k])) = Coef12(s, v, k)
  <2> DEFINE g == GCoef(x, y, k)  e == Plain2(fp2_rdcn_low(d[k]))  c == Coef12(s, v, k)
  <2>1. g \in Gauss
    <3>1. \A z \in Gauss : Same(z, z)
      BY DEF Same
    <3>2. \A j \in 1 .. 6 : /\ x[j] \in Gauss /\ y[j] \in Gauss /\ x[j] \in Gauss /\ y[j] \in Gauss
                            /\ Same(x[j], x[j]) /\ Same(y[j], y[j])
      BY <1>1, <3>1
    <3> HIDE DEF g
    <3>3. GCoef(x, y, k) \in Gauss
      BY <3>2, CoefExact
    <3> QED BY <3>3 DEF g
  <2>2. e \in Complex /\ Same(e, GScale(RInv * RInv, g))
    BY <1>1, <1>4, <2>1, PlainReduced2
  <2>3. GCoef(x1, y1, k) = GScale(RInv * RInv, g)
    BY <1>0, <1>1, <1>5, CoefScale
  <2>4. c \in Complex /\ Same(c, GCoef(x1, y1, k))
    BY <1>6, CoefExact
  <2> HIDE DEF e, c, g
  <2>5. Same(e, c)
    BY <2>2, <2>3, <2>4 DEF Same
  <2>6. e = c
    BY <2>2, <2>4, <2>5, SameAsMod
  <2> QED BY <2>6 DEF e, c
<1>8. Mul12(s, v) = <<Coef12(s, v, 1), Coef12(s, v, 2), Coef12(s, v, 3),
                      Coef12(s, v, 4), Coef12(s, v, 5), Coef12(s, v, 6)>>
  BY Mul12Is
<1>9. /\ Plain2(fp2_rdcn_low(d[1])) = Coef12(s, v, 1) /\ Plain2(fp2_rdcn_low(d[2])) = Coef12(s, v, 2)
      /\ Plain2(fp2_rdcn_low(d[3])) = Coef12(s, v, 3) /\ Plain2(fp2_rdcn_low(d[4])) = Coef12(s, v, 4)
      /\ Plain2(fp2_rdcn_low(d[5])) = Coef12(s, v, 5) /\ Plain2(fp2_rdcn_low(d[6])) = Coef12(s, v, 6)
  BY <1>7
<1> QED BY <1>3, <1>8, <1>9 DEF s, v

-----------------------------------------------------------------------------
(* Unreduced values and the Gaussian integers they are congruent to.       *)

Stands(u, x) == u \in Un2 /\ x \in Gauss /\ Same(u, x)
Reads(a, x)  == a \in Fp2 /\ x \in Gauss /\ Same(a, x)

LEMMA StandsSums ==
  ASSUME NEW u, NEW w, NEW x, NEW y, Stands(u, x), Stands(w, y)
  PROVE  /\ Stands(fp2_addc_low(u, w), GAdd(x, y)) /\ Stands(fp2_subc_low(u, w), GSub(x, y))
         /\ Stands(fp2_nord_low(u), GXi(x))
<1>1. /\ u \in Un2 /\ w \in Un2 /\ u \in Gauss /\ w \in Gauss /\ x \in Gauss /\ y \in Gauss
      /\ Same(u, x) /\ Same(w, y)
  BY AreGauss DEF Stands
<1>2. /\ fp2_addc_low(u, w) \in Un2 /\ Same(fp2_addc_low(u, w), GAdd(u, w))
      /\ fp2_subc_low(u, w) \in Un2 /\ Same(fp2_subc_low(u, w), GSub(u, w))
      /\ fp2_nord_low(u) \in Un2 /\ Same(fp2_nord_low(u), GXi(u))
  BY <1>1, AddcSame, NordSame
<1>3. Same(GAdd(u, w), GAdd(x, y)) /\ Same(GSub(u, w), GSub(x, y)) /\ Same(GXi(u), GXi(x))
  BY <1>1, SameSums, SameXi
<1>4. GAdd(x, y) \in Gauss /\ GSub(x, y) \in Gauss /\ GXi(x) \in Gauss
  BY <1>1, GaussClosed
<1> QED BY <1>2, <1>3, <1>4, SameTwice DEF Stands

LEMMA StandsXi == ASSUME NEW u, NEW x, Stands(u, x) PROVE Stands(fp2_nord_low(u), GXi(x))
<1>1. Stands(u, x) /\ Stands(u, x)
  OBVIOUS
<1> QED BY <1>1, StandsSums

LEMMA StandsProducts ==
  ASSUME NEW a, NEW b, NEW x, NEW y, Reads(a, x), Reads(b, y)
  PROVE  /\ Stands(fp2_muln_low(a, b), GMul(x, y)) /\ Stands(fp2_sqrn_low(a), GMul(x, x))
         /\ Reads(fp2_add(a, b), GAdd(x, y)) /\ Reads(fp2_sub(a, b), GSub(x, y))
<1>1. /\ a \in Fp2 /\ b \in Fp2 /\ a \in Gauss /\ b \in Gauss /\ x \in Gauss /\ y \in Gauss
      /\ Same(a, x) /\ Same(b, y)
  BY AreGauss DEF Reads
<1>2. /\ fp2_muln_low(a, b) \in Un2 /\ Same(fp2_muln_low(a, b), GMul(a, b))
      /\ fp2_sqrn_low(a) \in Un2 /\ Same(fp2_sqrn_low(a), GMul(a, a))
      /\ fp2_add(a, b) \in Fp2 /\ Same(fp2_add(a, b), GAdd(a, b))
      /\ fp2_sub(a, b) \in Fp2 /\ Same(fp2_sub(a, b), GSub(a, b))
  BY <1>1, MulnSame, SqrnSame, SumSame, Fp2Closed
<1>3. /\ Same(GMul(a, b), GMul(x, y)) /\ Same(GMul(a, a), GMul(x, x))
      /\ Same(GAdd(a, b), GAdd(x, y)) /\ Same(GSub(a, b), GSub(x, y))
  BY <1>1, SameSums
<1>4. /\ GAdd(x, y) \in Gauss /\ GSub(x, y) \in Gauss
      /\ GMul(x, y) \in Gauss /\ GMul(x, x) \in Gauss
  BY <1>1, GaussClosed
<1> QED BY <1>2, <1>3, <1>4, SameTwice DEF Stands, Reads

LEMMA ReadsItself == ASSUME NEW a \in Fp2 PROVE Reads(a, a)
BY AreGauss DEF Reads, Same

(* Equal Gaussian integers, in the form the next proofs need it.           *)
LEMMA CrossTerms ==
  ASSUME NEW a \in Gauss, NEW b \in Gauss, NEW c \in Gauss, NEW d \in Gauss
  PROVE  GSub(GSub(GMul(GAdd(a, b), GAdd(c, d)), GMul(a, c)), GMul(b, d))
         = GAdd(GMul(a, d), GMul(b, c))
BY GaussParts DEF GMul, GAdd, GSub

LEMMA Fp6DxsStands ==
  ASSUME NEW a, NEW b, NEW x, NEW y,
         Reads(a[1], x[1]), Reads(a[2], x[2]), Reads(a[3], x[3]),
         Reads(b[1], y[1]), Reads(b[2], y[2])
  PROVE  LET u == fp6_mul_dxs_unr_lazyr(a, b)
         IN  /\ Stands(u[1], GAdd(GMul(x[1], y[1]), GXi(GMul(x[3], y[2]))))
             /\ Stands(u[2], GAdd(GMul(x[1], y[2]), GMul(x[2], y[1])))
             /\ Stands(u[3], GAdd(GMul(x[2], y[2]), GMul(x[3], y[1])))
<1> DEFINE u0 == fp2_muln_low(a[1], b[1])
           u1 == fp2_muln_low(a[2], b[2])
           v0 == fp2_muln_low(a[3], b[2])
           v1 == fp2_muln_low(a[3], b[1])
           u2 == fp2_muln_low(fp2_add(a[1], a[2]), fp2_add(b[1], b[2]))
<1>1. Reads(fp2_add(a[1], a[2]), GAdd(x[1], x[2])) /\ Reads(fp2_add(b[1], b[2]), GAdd(y[1], y[2]))
  BY StandsProducts
<1>2. /\ Stands(u0, GMul(x[1], y[1])) /\ Stands(u1, GMul(x[2], y[2]))
      /\ Stands(v0, GMul(x[3], y[2])) /\ Stands(v1, GMul(x[3], y[1]))
      /\ Stands(u2, GMul(GAdd(x[1], x[2]), GAdd(y[1], y[2])))
  BY <1>1, StandsProducts
<1>3. fp6_mul_dxs_unr_lazyr(a, b) = <<fp2_addc_low(u0, fp2_nord_low(v0)),
                                      fp2_subc_low(fp2_subc_low(u2, u0), u1),
                                      fp2_addc_low(u1, v1)>>
  BY DEF fp6_mul_dxs_unr_lazyr
<1> HIDE DEF u0, u1, u2, v0, v1
<1>4. Stands(fp2_nord_low(v0), GXi(GMul(x[3], y[2])))
  BY <1>2, StandsXi
<1>5. Stands(fp2_addc_low(u0, fp2_nord_low(v0)), GAdd(GMul(x[1], y[1]), GXi(GMul(x[3], y[2]))))
  BY <1>2, <1>4, StandsSums
<1>6. Stands(fp2_addc_low(u1, v1), GAdd(GMul(x[2], y[2]), GMul(x[3], y[1])))
  BY <1>2, StandsSums
<1>7. Stands(fp2_subc_low(u2, u0), GSub(GMul(GAdd(x[1], x[2]), GAdd(y[1], y[2])), GMul(x[1], y[1])))
  BY <1>2, StandsSums
<1>8. Stands(fp2_subc_low(fp2_subc_low(u2, u0), u1),
             GSub(GSub(GMul(GAdd(x[1], x[2]), GAdd(y[1], y[2])), GMul(x[1], y[1])), GMul(x[2], y[2])))
  BY <1>2, <1>7, StandsSums
<1>9. x[1] \in Gauss /\ x[2] \in Gauss /\ y[1] \in Gauss /\ y[2] \in Gauss
  BY DEF Reads
<1>10. Stands(fp2_subc_low(fp2_subc_low(u2, u0), u1), GAdd(GMul(x[1], y[2]), GMul(x[2], y[1])))
  BY <1>8, <1>9, CrossTerms
<1> QED BY <1>3, <1>5, <1>6, <1>10

LEMMA Fp6AddReads ==
  ASSUME NEW a \in Fp6, NEW b \in Fp6
  PROVE  LET c == fp6_add(a, b)
         IN  /\ Reads(c[1], GAdd(a[1], b[1])) /\ Reads(c[2], GAdd(a[2], b[2]))
             /\ Reads(c[3], GAdd(a[3], b[3]))
<1>1. /\ a[1] \in Fp2 /\ a[2] \in Fp2 /\ a[3] \in Fp2
      /\ b[1] \in Fp2 /\ b[2] \in Fp2 /\ b[3] \in Fp2
  BY Fp6Parts
<1>2. /\ Reads(fp2_add(a[1], b[1]), GAdd(a[1], b[1])) /\ Reads(fp2_add(a[2], b[2]), GAdd(a[2], b[2]))
      /\ Reads(fp2_add(a[3], b[3]), GAdd(a[3], b[3]))
  BY <1>1, ReadsItself, StandsProducts
<1> QED BY <1>2 DEF fp6_add

-----------------------------------------------------------------------------
(* The product by a line. *)

GZero == <<0, 0>>

LEMMA ZeroLaws ==
  /\ GZero \in Gauss
  /\ \A x \in Gauss : /\ GMul(x, GZero) = GZero /\ GAdd(x, GZero) = x /\ GAdd(GZero, x) = x
  /\ GXi(GZero) = GZero
<1>1. GZero \in Gauss
  BY DEF Gauss, GZero
<1>2. ASSUME NEW x \in Gauss
      PROVE  GMul(x, GZero) = GZero /\ GAdd(x, GZero) = x /\ GAdd(GZero, x) = x
  BY GaussParts DEF GMul, GAdd, GZero
<1>3. GXi(GZero) = GZero
  BY TowerAssumption DEF GXi, GMul, GZero
<1> QED BY <1>1, <1>2, <1>3

(* The six coefficients of a product, term by term. *)
LEMMA CoefTerms ==
  ASSUME NEW x, NEW y
  PROVE  /\ GCoef(x, y, 1) = GAdd(GAdd(GAdd(GMul(x[1], y[1]), GXi(GMul(x[2], y[6]))), GXi(GMul(x[3], y[5]))),
                                  GAdd(GAdd(GXi(GMul(x[4], y[4])), GXi(GMul(x[5], y[3]))), GXi(GMul(x[6], y[2]))))
         /\ GCoef(x, y, 2) = GAdd(GAdd(GAdd(GMul(x[1], y[2]), GMul(x[2], y[1])), GXi(GMul(x[3], y[6]))),
                                  GAdd(GAdd(GXi(GMul(x[4], y[5])), GXi(GMul(x[5], y[4]))), GXi(GMul(x[6], y[3]))))
         /\ GCoef(x, y, 3) = GAdd(GAdd(GAdd(GMul(x[1], y[3]), GMul(x[2], y[2])), GMul(x[3], y[1])),
                                  GAdd(GAdd(GXi(GMul(x[4], y[6])), GXi(GMul(x[5], y[5]))), GXi(GMul(x[6], y[4]))))
         /\ GCoef(x, y, 4) = GAdd(GAdd(GAdd(GMul(x[1], y[4]), GMul(x[2], y[3])), GMul(x[3], y[2])),
                                  GAdd(GAdd(GMul(x[4], y[1]), GXi(GMul(x[5], y[6]))), GXi(GMul(x[6], y[5]))))
         /\ GCoef(x, y, 5) = GAdd(GAdd(GAdd(GMul(x[1], y[5]), GMul(x[2], y[4])), GMul(x[3], y[3])),
                                  GAdd(GAdd(GMul(x[4], y[2]), GMul(x[5], y[1])), GXi(GMul(x[6], y[6]))))
         /\ GCoef(x, y, 6) = GAdd(GAdd(GAdd(GMul(x[1], y[6]), GMul(x[2], y[5])), GMul(x[3], y[4])),
                                  GAdd(GAdd(GMul(x[4], y[3]), GMul(x[5], y[2])), GMul(x[6], y[1])))
<1>1. ASSUME NEW j \in 1 .. 6, NEW k \in 1 .. 6
      PROVE  GTerm(x, y, j, k) = IF j <= k THEN GMul(x[j], y[k - j + 1])
                                 ELSE GXi(GMul(x[j], y[k - j + 7]))
  BY DEF GTerm
<1>2. ASSUME NEW k \in 1 .. 6
      PROVE  GCoef(x, y, k) = GAdd(GAdd(GAdd(GTerm(x, y, 1, k), GTerm(x, y, 2, k)), GTerm(x, y, 3, k)),
                                   GAdd(GAdd(GTerm(x, y, 4, k), GTerm(x, y, 5, k)), GTerm(x, y, 6, k)))
  BY DEF GCoef, GThree
<1>3. /\ GTerm(x, y, 1, 1) = GMul(x[1], y[1]) /\ GTerm(x, y, 2, 1) = GXi(GMul(x[2], y[6]))
      /\ GTerm(x, y, 3, 1) = GXi(GMul(x[3], y[5])) /\ GTerm(x, y, 4, 1) = GXi(GMul(x[4], y[4]))
      /\ GTerm(x, y, 5, 1) = GXi(GMul(x[5], y[3])) /\ GTerm(x, y, 6, 1) = GXi(GMul(x[6], y[2]))
  BY <1>1
<1>4. /\ GTerm(x, y, 1, 2) = GMul(x[1], y[2]) /\ GTerm(x, y, 2, 2) = GMul(x[2], y[1])
      /\ GTerm(x, y, 3, 2) = GXi(GMul(x[3], y[6])) /\ GTerm(x, y, 4, 2) = GXi(GMul(x[4], y[5]))
      /\ GTerm(x, y, 5, 2) = GXi(GMul(x[5], y[4])) /\ GTerm(x, y, 6, 2) = GXi(GMul(x[6], y[3]))
  BY <1>1
<1>5. /\ GTerm(x, y, 1, 3) = GMul(x[1], y[3]) /\ GTerm(x, y, 2, 3) = GMul(x[2], y[2])
      /\ GTerm(x, y, 3, 3) = GMul(x[3], y[1]) /\ GTerm(x, y, 4, 3) = GXi(GMul(x[4], y[6]))
      /\ GTerm(x, y, 5, 3) = GXi(GMul(x[5], y[5])) /\ GTerm(x, y, 6, 3) = GXi(GMul(x[6], y[4]))
  BY <1>1
<1>6. /\ GTerm(x, y, 1, 4) = GMul(x[1], y[4]) /\ GTerm(x, y, 2, 4) = GMul(x[2], y[3])
      /\ GTerm(x, y, 3, 4) = GMul(x[3], y[2]) /\ GTerm(x, y, 4, 4) = GMul(x[4], y[1])
      /\ GTerm(x, y, 5, 4) = GXi(GMul(x[5], y[6])) /\ GTerm(x, y, 6, 4) = GXi(GMul(x[6], y[5]))
  BY <1>1
<1>7. /\ GTerm(x, y, 1, 5) = GMul(x[1], y[5]) /\ GTerm(x, y, 2, 5) = GMul(x[2], y[4])
      /\ GTerm(x, y, 3, 5) = GMul(x[3], y[3]) /\ GTerm(x, y, 4, 5) = GMul(x[4], y[2])
      /\ GTerm(x, y, 5, 5) = GMul(x[5], y[1]) /\ GTerm(x, y, 6, 5) = GXi(GMul(x[6], y[6]))
  BY <1>1
<1>8. /\ GTerm(x, y, 1, 6) = GMul(x[1], y[6]) /\ GTerm(x, y, 2, 6) = GMul(x[2], y[5])
      /\ GTerm(x, y, 3, 6) = GMul(x[3], y[4]) /\ GTerm(x, y, 4, 6) = GMul(x[4], y[3])
      /\ GTerm(x, y, 5, 6) = GMul(x[5], y[2]) /\ GTerm(x, y, 6, 6) = GMul(x[6], y[1])
  BY <1>1
<1> QED BY <1>2, <1>3, <1>4, <1>5, <1>6, <1>7, <1>8

LEMMA GaussClosure ==
  \A x, y \in Gauss : GAdd(x, y) \in Gauss /\ GSub(x, y) \in Gauss /\ GMul(x, y) \in Gauss /\ GXi(x) \in Gauss
BY GaussClosed

(* By a line: l of w^0, m1 of w^1, m2 of w^3. *)
LEMMA LineCoefs ==
  ASSUME NEW x, \A j \in 1 .. 6 : x[j] \in Gauss,
         NEW y, y[1] \in Gauss, y[2] \in Gauss, y[4] \in Gauss,
         y[3] = GZero, y[5] = GZero, y[6] = GZero
  PROVE  /\ GCoef(x, y, 1) = GAdd(GMul(x[1], y[1]), GAdd(GXi(GMul(x[4], y[4])), GXi(GMul(x[6], y[2]))))
         /\ GCoef(x, y, 2) = GAdd(GAdd(GMul(x[1], y[2]), GMul(x[2], y[1])), GXi(GMul(x[5], y[4])))
         /\ GCoef(x, y, 3) = GAdd(GAdd(GMul(x[2], y[2]), GMul(x[3], y[1])), GXi(GMul(x[6], y[4])))
         /\ GCoef(x, y, 4) = GAdd(GAdd(GMul(x[1], y[4]), GMul(x[3], y[2])), GMul(x[4], y[1]))
         /\ GCoef(x, y, 5) = GAdd(GMul(x[2], y[4]), GAdd(GMul(x[4], y[2]), GMul(x[5], y[1])))
         /\ GCoef(x, y, 6) = GAdd(GMul(x[3], y[4]), GAdd(GMul(x[5], y[2]), GMul(x[6], y[1])))
<1>1. /\ x[1] \in Gauss /\ x[2] \in Gauss /\ x[3] \in Gauss
      /\ x[4] \in Gauss /\ x[5] \in Gauss /\ x[6] \in Gauss
  OBVIOUS
<1>2. ASSUME NEW j \in 1 .. 6, NEW k \in {1, 2, 4}
      PROVE  GMul(x[j], y[k]) \in Gauss /\ GXi(GMul(x[j], y[k])) \in Gauss
  BY GaussClosure
<1>3. ASSUME NEW j \in 1 .. 6, NEW k \in {3, 5, 6}
      PROVE  GMul(x[j], y[k]) = GZero /\ GXi(GMul(x[j], y[k])) = GZero
  BY ZeroLaws
<1>4. \A p \in Gauss : GAdd(p, GZero) = p /\ GAdd(GZero, p) = p
  BY ZeroLaws
<1>5. GZero \in Gauss
  BY ZeroLaws
<1>6. GCoef(x, y, 1) = GAdd(GMul(x[1], y[1]), GAdd(GXi(GMul(x[4], y[4])), GXi(GMul(x[6], y[2]))))
  <2>1. GCoef(x, y, 1) = GAdd(GAdd(GAdd(GMul(x[1], y[1]), GZero), GZero),
                              GAdd(GAdd(GXi(GMul(x[4], y[4])), GZero), GXi(GMul(x[6], y[2]))))
    BY <1>3, CoefTerms
  <2> QED BY <2>1, <1>2, <1>4
<1>7. GCoef(x, y, 2) = GAdd(GAdd(GMul(x[1], y[2]), GMul(x[2], y[1])), GXi(GMul(x[5], y[4])))
  <2>1. GCoef(x, y, 2) = GAdd(GAdd(GAdd(GMul(x[1], y[2]), GMul(x[2], y[1])), GZero),
                              GAdd(GAdd(GZero, GXi(GMul(x[5], y[4]))), GZero))
    BY <1>3, CoefTerms
  <2>2. GAdd(GMul(x[1], y[2]), GMul(x[2], y[1])) \in Gauss
    BY <1>2, GaussClosure
  <2> QED BY <2>1, <2>2, <1>2, <1>4
<1>8. GCoef(x, y, 3) = GAdd(GAdd(GMul(x[2], y[2]), GMul(x[3], y[1])), GXi(GMul(x[6], y[4])))
  <2>1. GCoef(x, y, 3) = GAdd(GAdd(GAdd(GZero, GMul(x[2], y[2])), GMul(x[3], y[1])),
                              GAdd(GAdd(GZero, GZero), GXi(GMul(x[6], y[4]))))
    BY <1>3, CoefTerms
  <2> QED BY <2>1, <1>2, <1>4, <1>5
<1>9. GCoef(x, y, 4) = GAdd(GAdd(GMul(x[1], y[4]), GMul(x[3], y[2])), GMul(x[4], y[1]))
  <2>1. GCoef(x, y, 4) = GAdd(GAdd(GAdd(GMul(x[1], y[4]), GZero), GMul(x[3], y[2])),
                              GAdd(GAdd(GMul(x[4], y[1]), GZero), GZero))
    BY <1>3, CoefTerms
  <2> QED BY <2>1, <1>2, <1>4
<1>10. GCoef(x, y, 5) = GAdd(GMul(x[2], y[4]), GAdd(GMul(x[4], y[2]), GMul(x[5], y[1])))
  <2>1. GCoef(x, y, 5) = GAdd(GAdd(GAdd(GZero, GMul(x[2], y[4])), GZero),
                              GAdd(GAdd(GMul(x[4], y[2]), GMul(x[5], y[1])), GZero))
    BY <1>3, CoefTerms
  <2>2. GAdd(GMul(x[4], y[2]), GMul(x[5], y[1])) \in Gauss
    BY <1>2, GaussClosure
  <2> QED BY <2>1, <2>2, <1>2, <1>4
<1>11. GCoef(x, y, 6) = GAdd(GMul(x[3], y[4]), GAdd(GMul(x[5], y[2]), GMul(x[6], y[1])))
  <2>1. GCoef(x, y, 6) = GAdd(GAdd(GAdd(GZero, GZero), GMul(x[3], y[4])),
                              GAdd(GAdd(GZero, GMul(x[5], y[2])), GMul(x[6], y[1])))
    BY <1>3, CoefTerms
  <2> QED BY <2>1, <1>2, <1>4, <1>5
<1> QED BY <1>6, <1>7, <1>8, <1>9, <1>10, <1>11

LEMMA Associates ==
  ASSUME NEW x \in Gauss, NEW y \in Gauss, NEW z \in Gauss
  PROVE  /\ GAdd(GAdd(x, y), z) = GAdd(x, GAdd(y, z))
         /\ GAdd(x, GXi(GAdd(y, z))) = GAdd(x, GAdd(GXi(y), GXi(z)))
<1>1. GAdd(GAdd(x, y), z) = GAdd(x, GAdd(y, z))
  BY GaussParts DEF GAdd
<1>2. GXi(GAdd(y, z)) = GAdd(GXi(y), GXi(z))
  BY TowerAssumption, GaussParts DEF GAdd, GMul, GXi
<1> QED BY <1>1, <1>2

(* The unreduced product by a line. *)
DxsUnr(a, l) ==
  LET u0 == <<fp2_muln_low(a[1][1], l[1][1]), fp2_muln_low(a[1][2], l[1][1]),
              fp2_muln_low(a[1][3], l[1][1])>>
      u1 == fp6_mul_dxs_unr_lazyr(a[2], l[2])
      u2 == fp6_mul_dxs_unr_lazyr(fp6_add(a[1], a[2]),
                                  <<fp2_add(l[1][1], l[2][1]), l[2][2], fp2_zero>>)
  IN  <<EvenHalf(u0, u1),
        <<fp2_subc_low(fp2_subc_low(u2[1], u0[1]), u1[1]),
          fp2_subc_low(fp2_subc_low(u2[2], u0[2]), u1[2]),
          fp2_subc_low(fp2_subc_low(u2[3], u0[3]), u1[3])>>>>

LEMMA DxsCoefs ==
  ASSUME NEW a \in Fp12, NEW b \in LineValues, NEW k \in 1 .. 6
  PROVE  Stands(Flat(DxsUnr(a, b))[k], GCoef(Flat(a), Flat(b), k))
<1> DEFINE x == Flat(a)  y == Flat(b)
           a1 == a[1]  a2 == a[2]  l == b[1][1]  p == b[2][1]  q == b[2][2]
           u0 == <<fp2_muln_low(a1[1], l), fp2_muln_low(a1[2], l), fp2_muln_low(a1[3], l)>>
           u1 == fp6_mul_dxs_unr_lazyr(a2, b[2])
           u2 == fp6_mul_dxs_unr_lazyr(fp6_add(a1, a2), <<fp2_add(l, p), q, fp2_zero>>)
           Odd(j) == fp2_subc_low(fp2_subc_low(u2[j], u0[j]), u1[j])
<1>1. /\ l \in Fp2 /\ p \in Fp2 /\ q \in Fp2 /\ a1 \in Fp6 /\ a2 \in Fp6
      /\ a1[1] \in Fp2 /\ a1[2] \in Fp2 /\ a1[3] \in Fp2
      /\ a2[1] \in Fp2 /\ a2[2] \in Fp2 /\ a2[3] \in Fp2
  BY DEF LineValues, Fp12, Fp6
<1>2. /\ x[1] = a1[1] /\ x[2] = a2[1] /\ x[3] = a1[2] /\ x[4] = a2[2] /\ x[5] = a1[3] /\ x[6] = a2[3]
      /\ y[1] = l /\ y[2] = p /\ y[4] = q
      /\ y[3] = GZero /\ y[5] = GZero /\ y[6] = GZero
  BY DEF Flat, LineValues, fp2_zero, GZero
<1>3. Flat(DxsUnr(a, b)) = <<fp2_addc_low(u0[1], fp2_nord_low(u1[3])), Odd(1),
                             fp2_addc_low(u0[2], u1[1]), Odd(2),
                             fp2_addc_low(u0[3], u1[2]), Odd(3)>>
  BY DEF Flat, DxsUnr, EvenHalf
<1>4. x[1] \in Gauss /\ x[2] \in Gauss /\ x[3] \in Gauss /\ x[4] \in Gauss /\ x[5] \in Gauss /\ x[6] \in Gauss
  BY <1>1, <1>2, AreGauss
<1>5. \A j \in 1 .. 6 : x[j] \in Gauss
  <2>1. \A j \in 1 .. 6 : j = 1 \/ j = 2 \/ j = 3 \/ j = 4 \/ j = 5 \/ j = 6
    OBVIOUS
  <2> QED BY <1>4, <2>1
<1>6. l \in Gauss /\ p \in Gauss /\ q \in Gauss
  BY <1>1, AreGauss
<1>7. /\ Reads(a1[1], x[1]) /\ Reads(a1[2], x[3]) /\ Reads(a1[3], x[5])
      /\ Reads(a2[1], x[2]) /\ Reads(a2[2], x[4]) /\ Reads(a2[3], x[6])
      /\ Reads(l, l) /\ Reads(p, p) /\ Reads(q, q)
  BY <1>1, <1>2, ReadsItself
<1> DEFINE t1 == GMul(x[1], l)  t2 == GMul(x[3], l)  t3 == GMul(x[5], l)
           v1 == GAdd(GMul(x[2], p), GXi(GMul(x[6], q)))
           v2 == GAdd(GMul(x[2], q), GMul(x[4], p))
           v3 == GAdd(GMul(x[4], q), GMul(x[6], p))
           s1 == GAdd(x[1], x[2])  s2 == GAdd(x[3], x[4])  s3 == GAdd(x[5], x[6])  c == GAdd(l, p)
           w1 == GAdd(GMul(s1, c), GXi(GMul(s3, q)))
           w2 == GAdd(GMul(s1, q), GMul(s2, c))
           w3 == GAdd(GMul(s2, q), GMul(s3, c))
<1>8. Stands(u0[1], t1) /\ Stands(u0[2], t2) /\ Stands(u0[3], t3)
  BY <1>7, StandsProducts
<1>9. Stands(u1[1], v1) /\ Stands(u1[2], v2) /\ Stands(u1[3], v3)
  <2> DEFINE g == a2  h == b[2]  z == <<x[2], x[4], x[6]>>  f == <<p, q>>
  <2>1. /\ Reads(g[1], z[1]) /\ Reads(g[2], z[2]) /\ Reads(g[3], z[3])
        /\ Reads(h[1], f[1]) /\ Reads(h[2], f[2])
    BY <1>7
  <2>2. /\ v1 = GAdd(GMul(z[1], f[1]), GXi(GMul(z[3], f[2])))
        /\ v2 = GAdd(GMul(z[1], f[2]), GMul(z[2], f[1]))
        /\ v3 = GAdd(GMul(z[2], f[2]), GMul(z[3], f[1]))
    OBVIOUS
  <2>3. u1 = fp6_mul_dxs_unr_lazyr(g, h)
    OBVIOUS
  <2> HIDE DEF g, h, z, f, u1, v1, v2, v3
  <2> QED BY <2>1, <2>2, <2>3, Fp6DxsStands
<1>10. Stands(u2[1], w1) /\ Stands(u2[2], w2) /\ Stands(u2[3], w3)
  <2> DEFINE g == fp6_add(a1, a2)  h == <<fp2_add(l, p), q, fp2_zero>>
             z == <<s1, s2, s3>>  f == <<c, q>>
  <2>1. Reads(g[1], s1) /\ Reads(g[2], s2) /\ Reads(g[3], s3)
    <3>1. /\ s1 = GAdd(a1[1], a2[1]) /\ s2 = GAdd(a1[2], a2[2]) /\ s3 = GAdd(a1[3], a2[3])
      BY <1>2
    <3> HIDE DEF s1, s2, s3, a1, a2
    <3> QED BY <1>1, <3>1, Fp6AddReads
  <2>2. Reads(h[1], c) /\ Reads(h[2], q)
    BY <1>7, StandsProducts
  <2>3. /\ Reads(g[1], z[1]) /\ Reads(g[2], z[2]) /\ Reads(g[3], z[3])
        /\ Reads(h[1], f[1]) /\ Reads(h[2], f[2])
    BY <2>1, <2>2
  <2>4. /\ w1 = GAdd(GMul(z[1], f[1]), GXi(GMul(z[3], f[2])))
        /\ w2 = GAdd(GMul(z[1], f[2]), GMul(z[2], f[1]))
        /\ w3 = GAdd(GMul(z[2], f[2]), GMul(z[3], f[1]))
    OBVIOUS
  <2>5. u2 = fp6_mul_dxs_unr_lazyr(g, h)
    OBVIOUS
  <2> HIDE DEF g, h, z, f, u2, w1, w2, w3
  <2> QED BY <2>3, <2>4, <2>5, Fp6DxsStands
<1> HIDE DEF u0, u1, u2
<1>11. Stands(Odd(1), GSub(GSub(w1, t1), v1)) /\ Stands(Odd(2), GSub(GSub(w2, t2), v2))
       /\ Stands(Odd(3), GSub(GSub(w3, t3), v3))
  <2> HIDE DEF w1, w2, w3, t1, t2, t3, v1, v2, v3
  <2>1. /\ Stands(fp2_subc_low(u2[1], u0[1]), GSub(w1, t1)) /\ Stands(fp2_subc_low(u2[2], u0[2]), GSub(w2, t2))
        /\ Stands(fp2_subc_low(u2[3], u0[3]), GSub(w3, t3))
    BY <1>8, <1>10, StandsSums
  <2> QED BY <2>1, <1>9, StandsSums
<1>12. /\ Stands(fp2_addc_low(u0[1], fp2_nord_low(u1[3])), GAdd(t1, GXi(v3)))
       /\ Stands(fp2_addc_low(u0[2], u1[1]), GAdd(t2, v1))
       /\ Stands(fp2_addc_low(u0[3], u1[2]), GAdd(t3, v2))
  <2> HIDE DEF w1, w2, w3, t1, t2, t3, v1, v2, v3
  <2>1. Stands(fp2_nord_low(u1[3]), GXi(v3))
    BY <1>9, StandsXi
  <2> QED BY <2>1, <1>8, <1>9, StandsSums
<1> HIDE DEF Odd
<1>13. \A g, h \in {x[1], x[2], x[3], x[4], x[5], x[6], l, p, q} :
         GMul(g, h) \in Gauss /\ GXi(GMul(g, h)) \in Gauss
  BY <1>4, <1>6, GaussClosure
<1>14. /\ GCoef(x, y, 1) = GAdd(GMul(x[1], l), GAdd(GXi(GMul(x[4], q)), GXi(GMul(x[6], p))))
       /\ GCoef(x, y, 2) = GAdd(GAdd(GMul(x[1], p), GMul(x[2], l)), GXi(GMul(x[5], q)))
       /\ GCoef(x, y, 3) = GAdd(GAdd(GMul(x[2], p), GMul(x[3], l)), GXi(GMul(x[6], q)))
       /\ GCoef(x, y, 4) = GAdd(GAdd(GMul(x[1], q), GMul(x[3], p)), GMul(x[4], l))
       /\ GCoef(x, y, 5) = GAdd(GMul(x[2], q), GAdd(GMul(x[4], p), GMul(x[5], l)))
       /\ GCoef(x, y, 6) = GAdd(GMul(x[3], q), GAdd(GMul(x[5], p), GMul(x[6], l)))
  <2> HIDE DEF x, y, l, p, q
  <2>1. y[1] = l /\ y[2] = p /\ y[4] = q
    BY <1>2
  <2>2. y[1] \in Gauss /\ y[2] \in Gauss /\ y[4] \in Gauss
    BY <1>6, <2>1
  <2>3. y[3] = GZero /\ y[5] = GZero /\ y[6] = GZero
    BY <1>2
  <2> QED BY <1>5, <2>1, <2>2, <2>3, LineCoefs
<1> HIDE DEF x, y, l, p, q
<1>15. /\ GSub(GSub(w1, t1), v1) = GCoef(x, y, 2) /\ GSub(GSub(w2, t2), v2) = GCoef(x, y, 4)
       /\ GSub(GSub(w3, t3), v3) = GCoef(x, y, 6)
  <2>1. /\ GSub(GSub(w1, t1), v1) = GAdd(GAdd(GMul(x[1], p), GMul(x[2], l)), GXi(GMul(x[5], q)))
        /\ GSub(GSub(w2, t2), v2) = GAdd(GAdd(GMul(x[1], q), GMul(x[3], p)), GMul(x[4], l))
        /\ GSub(GSub(w3, t3), v3) = GAdd(GMul(x[3], q), GAdd(GMul(x[5], p), GMul(x[6], l)))
    <3> DEFINE g1 == x[1]  g2 == x[3]  g3 == x[5]  h1 == x[2]  h2 == x[4]  h3 == x[6]
    <3>1. /\ g1 \in Gauss /\ g2 \in Gauss /\ g3 \in Gauss /\ h1 \in Gauss /\ h2 \in Gauss /\ h3 \in Gauss
          /\ l \in Gauss /\ p \in Gauss /\ q \in Gauss
      BY <1>4, <1>6
    <3>2. /\ GSub(GSub(w1, t1), v1)
               = GSub(GSub(GAdd(GMul(GAdd(g1, h1), GAdd(l, p)), GXi(GMul(GAdd(g3, h3), q))), GMul(g1, l)),
                      GAdd(GMul(h1, p), GXi(GMul(h3, q))))
          /\ GSub(GSub(w2, t2), v2)
               = GSub(GSub(GAdd(GMul(GAdd(g1, h1), q), GMul(GAdd(g2, h2), GAdd(l, p))), GMul(g2, l)),
                      GAdd(GMul(h1, q), GMul(h2, p)))
          /\ GSub(GSub(w3, t3), v3)
               = GSub(GSub(GAdd(GMul(GAdd(g2, h2), q), GMul(GAdd(g3, h3), GAdd(l, p))), GMul(g3, l)),
                      GAdd(GMul(h2, q), GMul(h3, p)))
      OBVIOUS
    <3> HIDE DEF g1, g2, g3, h1, h2, h3, w1, w2, w3, t1, t2, t3, v1, v2, v3
    <3>3. /\ GSub(GSub(w1, t1), v1) = GAdd(GAdd(GMul(g1, p), GMul(h1, l)), GXi(GMul(g3, q)))
          /\ GSub(GSub(w2, t2), v2) = GAdd(GAdd(GMul(g1, q), GMul(g2, p)), GMul(h2, l))
          /\ GSub(GSub(w3, t3), v3) = GAdd(GMul(g2, q), GAdd(GMul(g3, p), GMul(h3, l)))
      <4>1. GSub(GSub(GAdd(GMul(GAdd(g1, h1), GAdd(l, p)), GXi(GMul(GAdd(g3, h3), q))), GMul(g1, l)),
                 GAdd(GMul(h1, p), GXi(GMul(h3, q))))
            = GAdd(GAdd(GMul(g1, p), GMul(h1, l)), GXi(GMul(g3, q)))
        <5>1. GXi(GMul(GAdd(g3, h3), q)) = GAdd(GXi(GMul(g3, q)), GXi(GMul(h3, q)))
          BY <3>1, TowerAssumption, GaussParts DEF GMul, GAdd, GXi
        <5>2. GXi(GMul(g3, q)) \in Gauss /\ GXi(GMul(h3, q)) \in Gauss
          BY <3>1, GaussClosure
        <5> DEFINE m == GXi(GMul(g3, q))  o == GXi(GMul(h3, q))
        <5>3. m \in Gauss /\ o \in Gauss
          BY <5>2
        <5> HIDE DEF m, o
        <5>4. GSub(GSub(GAdd(GMul(GAdd(g1, h1), GAdd(l, p)), GAdd(m, o)), GMul(g1, l)), GAdd(GMul(h1, p), o))
              = GAdd(GAdd(GMul(g1, p), GMul(h1, l)), m)
          BY <3>1, <5>3, GaussParts DEF GMul, GAdd, GSub
        <5> QED BY <5>1, <5>4 DEF m, o
      <4>2. GSub(GSub(GAdd(GMul(GAdd(g1, h1), q), GMul(GAdd(g2, h2), GAdd(l, p))), GMul(g2, l)),
                 GAdd(GMul(h1, q), GMul(h2, p)))
            = GAdd(GAdd(GMul(g1, q), GMul(g2, p)), GMul(h2, l))
        BY <3>1, GaussParts DEF GMul, GAdd, GSub
      <4>3. GSub(GSub(GAdd(GMul(GAdd(g2, h2), q), GMul(GAdd(g3, h3), GAdd(l, p))), GMul(g3, l)),
                 GAdd(GMul(h2, q), GMul(h3, p)))
            = GAdd(GMul(g2, q), GAdd(GMul(g3, p), GMul(h3, l)))
        BY <3>1, GaussParts DEF GMul, GAdd, GSub
      <4> QED BY <3>2, <4>1, <4>2, <4>3
    <3> QED BY <3>3 DEF g1, g2, g3, h1, h2, h3
  <2> QED BY <2>1, <1>14
<1>16. GAdd(t1, GXi(v3)) = GCoef(x, y, 1)
  <2> DEFINE g == GMul(x[4], q)  h == GMul(x[6], p)
  <2>1. g \in Gauss /\ h \in Gauss /\ t1 \in Gauss
    BY <1>13
  <2>2. GCoef(x, y, 1) = GAdd(t1, GAdd(GXi(g), GXi(h))) /\ v3 = GAdd(g, h)
    BY <1>14
  <2> HIDE DEF g, h, t1, v3
  <2> QED BY <2>1, <2>2, Associates
<1>17. GAdd(t2, v1) = GCoef(x, y, 3)
  <2> DEFINE g == GMul(x[2], p)  h == GXi(GMul(x[6], q))
  <2>1. g \in Gauss /\ h \in Gauss /\ t2 \in Gauss
    BY <1>13
  <2>2. GCoef(x, y, 3) = GAdd(GAdd(g, t2), h) /\ GAdd(t2, v1) = GAdd(t2, GAdd(g, h))
    BY <1>14
  <2> HIDE DEF g, h, t2, v1
  <2>3. GAdd(t2, GAdd(g, h)) = GAdd(GAdd(g, t2), h)
    BY <2>1, GaussParts DEF GAdd
  <2> QED BY <2>2, <2>3
<1>18. GAdd(t3, v2) = GCoef(x, y, 5)
  <2> DEFINE g == GMul(x[2], q)  h == GMul(x[4], p)
  <2>1. g \in Gauss /\ h \in Gauss /\ t3 \in Gauss
    BY <1>13
  <2>2. GCoef(x, y, 5) = GAdd(g, GAdd(h, t3)) /\ GAdd(t3, v2) = GAdd(t3, GAdd(g, h))
    BY <1>14
  <2> HIDE DEF g, h, t3, v2
  <2>3. GAdd(t3, GAdd(g, h)) = GAdd(g, GAdd(h, t3))
    BY <2>1, GaussParts DEF GAdd
  <2> QED BY <2>2, <2>3
<1> HIDE DEF w1, w2, w3, t1, t2, t3, v1, v2, v3
<1> DEFINE d == Flat(DxsUnr(a, b))
<1>19. /\ d[1] = fp2_addc_low(u0[1], fp2_nord_low(u1[3])) /\ d[2] = Odd(1)
       /\ d[3] = fp2_addc_low(u0[2], u1[1]) /\ d[4] = Odd(2)
       /\ d[5] = fp2_addc_low(u0[3], u1[2]) /\ d[6] = Odd(3)
  BY <1>3
<1> HIDE DEF d
<1>20. /\ Stands(d[1], GCoef(x, y, 1)) /\ Stands(d[2], GCoef(x, y, 2)) /\ Stands(d[3], GCoef(x, y, 3))
       /\ Stands(d[4], GCoef(x, y, 4)) /\ Stands(d[5], GCoef(x, y, 5)) /\ Stands(d[6], GCoef(x, y, 6))
  BY <1>11, <1>12, <1>15, <1>16, <1>17, <1>18, <1>19
<1>21. k = 1 \/ k = 2 \/ k = 3 \/ k = 4 \/ k = 5 \/ k = 6
  OBVIOUS
<1>22. Stands(d[k], GCoef(x, y, k))
  BY <1>20, <1>21
<1> QED BY <1>22 DEF d, x, y

(* The Miller loop's products by lines are exact. *)
LEMMA DxsExact ==
  ASSUME NEW a \in Fp12, NEW b \in LineValues
  PROVE  Plain12(fp12_mul_dxs(a, b)) = Mul12(Plain12(a), Plain12(b))
<1> DEFINE u == DxsUnr(a, b)
<1>1. fp12_mul_dxs(a, b) = fp12_rdcn(u)
  BY DEF fp12_mul_dxs, DxsUnr
<1>2. \A k \in 1 .. 6 : Stands(Flat(u)[k], GCoef(Flat(a), Flat(b), k))
  BY DxsCoefs
<1>3. u = <<<<Flat(u)[1], Flat(u)[3], Flat(u)[5]>>, <<Flat(u)[2], Flat(u)[4], Flat(u)[6]>>>>
  BY DEF Flat, DxsUnr, EvenHalf
<1> HIDE DEF u
<1>4. \A k \in 1 .. 6 : Flat(u)[k] \in Within2 /\ Same(Flat(u)[k], GCoef(Flat(a), Flat(b), k))
  BY <1>2, UnreducedIsWithin DEF Stands, Un2, Within2
<1>5. u \in Within6 \X Within6
  <2> DEFINE f == Flat(u)
  <2>1. /\ f[1] \in Within2 /\ f[2] \in Within2 /\ f[3] \in Within2
        /\ f[4] \in Within2 /\ f[5] \in Within2 /\ f[6] \in Within2
    BY <1>4
  <2>2. u = <<<<f[1], f[3], f[5]>>, <<f[2], f[4], f[6]>>>>
    BY <1>3
  <2> HIDE DEF f
  <2> QED BY <2>1, <2>2 DEF Within6
<1>6. b \in Fp12
  BY DEF LineValues
<1> QED BY <1>1, <1>4, <1>5, <1>6, ProductExact

-----------------------------------------------------------------------------
(* The square by Chung and Hasan's method: fp12 over fp4, whose elements   *)
(* are pairs.                                                              *)

Sqr4(g, h) == GAdd(GMul(g, g), GXi(GMul(h, h)))
Dbl4(g, h) == GAdd(GMul(g, h), GMul(g, h))

LEMMA SquareTerms ==
  ASSUME NEW g \in Gauss, NEW h \in Gauss
  PROVE  /\ GAdd(GXi(GMul(h, h)), GMul(g, g)) = Sqr4(g, h)
         /\ GSub(GMul(GAdd(g, h), GAdd(g, h)), GAdd(GMul(h, h), GMul(g, g))) = Dbl4(g, h)
         /\ Sqr4(g, h) \in Gauss /\ Dbl4(g, h) \in Gauss
<1>1. GAdd(GXi(GMul(h, h)), GMul(g, g)) = Sqr4(g, h)
  BY TowerAssumption, GaussParts DEF GMul, GAdd, GXi, Sqr4
<1>2. GSub(GMul(GAdd(g, h), GAdd(g, h)), GAdd(GMul(h, h), GMul(g, g))) = Dbl4(g, h)
  BY GaussParts DEF GMul, GAdd, GSub, Dbl4
<1>3. Sqr4(g, h) \in Gauss /\ Dbl4(g, h) \in Gauss
  BY GaussClosure DEF Sqr4, Dbl4
<1> QED BY <1>1, <1>2, <1>3

LEMMA Fp4SqrStands ==
  ASSUME NEW a, NEW g, NEW h, Reads(a[1], g), Reads(a[2], h)
  PROVE  Stands(fp4_sqr_unr(a)[1], Sqr4(g, h)) /\ Stands(fp4_sqr_unr(a)[2], Dbl4(g, h))
<1> DEFINE u0 == fp2_sqrn_low(a[1])
           u1 == fp2_sqrn_low(a[2])
           c1 == fp2_sqrn_low(fp2_add(a[1], a[2]))
<1>1. Reads(fp2_add(a[1], a[2]), GAdd(g, h)) /\ g \in Gauss /\ h \in Gauss
  BY StandsProducts DEF Reads
<1>2. Stands(u0, GMul(g, g)) /\ Stands(u1, GMul(h, h))
  BY StandsProducts
<1>3. Stands(c1, GMul(GAdd(g, h), GAdd(g, h)))
  BY <1>1, StandsProducts
<1>4. fp4_sqr_unr(a) = <<fp2_addc_low(fp2_nord_low(u1), u0),
                         fp2_subc_low(c1, fp2_addc_low(u1, u0))>>
  BY DEF fp4_sqr_unr
<1> HIDE DEF u0, u1, c1
<1>5. Stands(fp2_nord_low(u1), GXi(GMul(h, h)))
  BY <1>2, StandsXi
<1>6. Stands(fp2_addc_low(fp2_nord_low(u1), u0), GAdd(GXi(GMul(h, h)), GMul(g, g)))
  BY <1>2, <1>5, StandsSums
<1>7. Stands(fp2_addc_low(u1, u0), GAdd(GMul(h, h), GMul(g, g)))
  BY <1>2, StandsSums
<1>8. Stands(fp2_subc_low(c1, fp2_addc_low(u1, u0)),
             GSub(GMul(GAdd(g, h), GAdd(g, h)), GAdd(GMul(h, h), GMul(g, g))))
  BY <1>3, <1>7, StandsSums
<1> QED BY <1>1, <1>4, <1>6, <1>8, SquareTerms

LEMMA Fp4MulStands ==
  ASSUME NEW a, NEW b, NEW g, NEW h, NEW c, NEW d,
         Reads(a[1], g), Reads(a[2], h), Reads(b[1], c), Reads(b[2], d)
  PROVE  /\ Stands(fp4_mul_unr(a, b)[1], GAdd(GXi(GMul(h, d)), GMul(g, c)))
         /\ Stands(fp4_mul_unr(a, b)[2], GAdd(GMul(g, d), GMul(h, c)))
<1> DEFINE u0 == fp2_muln_low(a[1], b[1])
           u1 == fp2_muln_low(a[2], b[2])
           c1 == fp2_muln_low(fp2_add(a[1], a[2]), fp2_add(b[1], b[2]))
<1>1. /\ Reads(fp2_add(a[1], a[2]), GAdd(g, h)) /\ Reads(fp2_add(b[1], b[2]), GAdd(c, d))
      /\ g \in Gauss /\ h \in Gauss /\ c \in Gauss /\ d \in Gauss
  BY StandsProducts DEF Reads
<1>2. Stands(u0, GMul(g, c)) /\ Stands(u1, GMul(h, d))
  BY StandsProducts
<1>3. Stands(c1, GMul(GAdd(g, h), GAdd(c, d)))
  BY <1>1, StandsProducts
<1>4. fp4_mul_unr(a, b) = <<fp2_addc_low(fp2_nord_low(u1), u0),
                            fp2_subc_low(fp2_subc_low(c1, u0), u1)>>
  BY DEF fp4_mul_unr
<1> HIDE DEF u0, u1, c1
<1>5. Stands(fp2_nord_low(u1), GXi(GMul(h, d)))
  BY <1>2, StandsXi
<1>6. Stands(fp2_addc_low(fp2_nord_low(u1), u0), GAdd(GXi(GMul(h, d)), GMul(g, c)))
  BY <1>2, <1>5, StandsSums
<1>7. Stands(fp2_subc_low(c1, u0), GSub(GMul(GAdd(g, h), GAdd(c, d)), GMul(g, c)))
  BY <1>2, <1>3, StandsSums
<1>8. Stands(fp2_subc_low(fp2_subc_low(c1, u0), u1),
             GSub(GSub(GMul(GAdd(g, h), GAdd(c, d)), GMul(g, c)), GMul(h, d)))
  BY <1>2, <1>7, StandsSums
<1> QED BY <1>1, <1>4, <1>6, <1>8, CrossTerms

LEMMA HalfStands ==
  ASSUME NEW u, NEW w, NEW x, NEW y, NEW z \in Gauss,
         Stands(u, x), Stands(w, y), GAdd(x, y) = GAdd(z, z)
  PROVE  /\ HalfSum(u, w) \in Within2 /\ Same(HalfSum(u, w), z)
         /\ Stands(fp2_subc_low(w, HalfSum(u, w)), GSub(y, z))
<1> DEFINE h == HalfSum(u, w)
<1>1. /\ u \in Un2 /\ w \in Un2 /\ u \in Gauss /\ w \in Gauss /\ x \in Gauss /\ y \in Gauss
      /\ Same(u, x) /\ Same(w, y)
  BY AreGauss DEF Stands
<1>2. /\ h \in Within2 /\ Same(GAdd(h, h), GAdd(u, w))
      /\ fp2_subc_low(w, h) \in Un2 /\ Same(fp2_subc_low(w, h), GSub(w, h))
  BY <1>1, HalfSumSame
<1> HIDE DEF h
<1>3. h \in Gauss
  BY <1>2, AreGauss
<1>4. Same(GAdd(u, w), GAdd(x, y))
  BY <1>1, SameSums
<1>5. Same(GAdd(h, h), GAdd(z, z))
  BY <1>2, <1>4, SameTwice
<1>6. Same(h, z)
  BY <1>3, <1>5, SameHalf
<1>7. Same(GSub(w, h), GSub(y, z))
  BY <1>1, <1>3, <1>6, SameSums
<1>8. GSub(y, z) \in Gauss
  BY <1>1, GaussClosed
<1>9. Stands(fp2_subc_low(w, h), GSub(y, z))
  BY <1>2, <1>7, <1>8, SameTwice DEF Stands
<1> QED BY <1>2, <1>6, <1>9 DEF h

(* The half less two unreduced values.                                     *)
LEMMA LessTwice ==
  ASSUME NEW h \in Within2, NEW z \in Gauss, Same(h, z),
         NEW u, NEW w, NEW x, NEW y, Stands(u, x), Stands(w, y)
  PROVE  /\ fp2_subc_low(fp2_subc_low(h, u), w) \in Within2
         /\ Same(fp2_subc_low(fp2_subc_low(h, u), w), GSub(GSub(z, x), y))
<1>1. /\ u \in Un2 /\ w \in Un2 /\ u \in Gauss /\ w \in Gauss /\ x \in Gauss /\ y \in Gauss
      /\ Same(u, x) /\ Same(w, y) /\ h \in Gauss
  BY AreGauss DEF Stands
<1> DEFINE d == fp2_subc_low(h, u)  e == fp2_subc_low(d, w)
<1>2. d \in Within2 /\ Same(d, GSub(h, u)) /\ Same(GSub(h, u), GSub(z, x)) /\ GSub(z, x) \in Gauss
  BY <1>1, SubcWithin, SameSums, GaussClosed
<1> HIDE DEF d
<1>3. Same(d, GSub(z, x)) /\ d \in Gauss
  BY <1>2, SameTwice, AreGauss
<1>4. e \in Within2 /\ Same(e, GSub(d, w))
  BY <1>1, <1>2, SubcWithin
<1>5. Same(GSub(d, w), GSub(GSub(z, x), y))
  BY <1>1, <1>2, <1>3, SameSums
<1> HIDE DEF e
<1>6. Same(e, GSub(GSub(z, x), y))
  BY <1>4, <1>5, SameTwice
<1> QED BY <1>4, <1>6 DEF d, e

(* The identities behind the method, for the six coefficients of a.        *)
LEMMA HalfIdentity ==
  ASSUME NEW g \in Gauss, NEW h \in Gauss, NEW c \in Gauss, NEW d \in Gauss
  PROVE  /\ GAdd(Sqr4(GSub(g, c), GSub(h, d)), Sqr4(GAdd(g, c), GAdd(h, d)))
            = GAdd(GAdd(Sqr4(g, h), Sqr4(c, d)), GAdd(Sqr4(g, h), Sqr4(c, d)))
         /\ GAdd(Dbl4(GSub(g, c), GSub(h, d)), Dbl4(GAdd(g, c), GAdd(h, d)))
            = GAdd(GAdd(Dbl4(g, h), Dbl4(c, d)), GAdd(Dbl4(g, h), Dbl4(c, d)))
<1>1. GAdd(Sqr4(GSub(g, c), GSub(h, d)), Sqr4(GAdd(g, c), GAdd(h, d)))
            = GAdd(GAdd(Sqr4(g, h), Sqr4(c, d)), GAdd(Sqr4(g, h), Sqr4(c, d)))
  BY TowerAssumption, GaussParts DEF GMul, GAdd, GSub, GXi, Sqr4
<1>2. GAdd(Dbl4(GSub(g, c), GSub(h, d)), Dbl4(GAdd(g, c), GAdd(h, d)))
            = GAdd(GAdd(Dbl4(g, h), Dbl4(c, d)), GAdd(Dbl4(g, h), Dbl4(c, d)))
  BY TowerAssumption, GaussParts DEF GMul, GAdd, GSub, GXi, Dbl4
<1> QED BY <1>1, <1>2

(* Twice the products of two sums. *)
Twice1(g, h, c, d) == GAdd(GAdd(GMul(g, c), GMul(g, c)), GXi(GAdd(GMul(h, d), GMul(h, d))))
Twice2(g, h, c, d) == GAdd(GAdd(GMul(g, d), GMul(g, d)), GAdd(GMul(h, c), GMul(h, c)))

LEMMA SumSquares ==
  ASSUME NEW g \in Gauss, NEW h \in Gauss, NEW c \in Gauss, NEW d \in Gauss
  PROVE  /\ Sqr4(GAdd(g, c), GAdd(h, d)) = GAdd(GAdd(Sqr4(g, h), Sqr4(c, d)), Twice1(g, h, c, d))
         /\ Dbl4(GAdd(g, c), GAdd(h, d)) = GAdd(GAdd(Dbl4(g, h), Dbl4(c, d)), Twice2(g, h, c, d))
         /\ Twice1(g, h, c, d) \in Gauss /\ Twice2(g, h, c, d) \in Gauss
<1>1. Sqr4(GAdd(g, c), GAdd(h, d)) = GAdd(GAdd(Sqr4(g, h), Sqr4(c, d)), Twice1(g, h, c, d))
  BY TowerAssumption, GaussParts DEF GMul, GAdd, GSub, GXi, Sqr4, Twice1
<1>2. Dbl4(GAdd(g, c), GAdd(h, d)) = GAdd(GAdd(Dbl4(g, h), Dbl4(c, d)), Twice2(g, h, c, d))
  BY GaussParts DEF GMul, GAdd, GSub, Dbl4, Twice2
<1>3. Twice1(g, h, c, d) \in Gauss /\ Twice2(g, h, c, d) \in Gauss
  BY GaussClosure DEF Twice1, Twice2
<1> QED BY <1>1, <1>2, <1>3

LEMMA Cancels ==
  ASSUME NEW x \in Gauss, NEW y \in Gauss, NEW z \in Gauss
  PROVE  /\ GSub(GAdd(GAdd(x, y), z), GAdd(x, y)) = z
         /\ \A w \in Gauss : GSub(GSub(GAdd(GAdd(GAdd(x, y), z), w), x), y) = GAdd(z, w)
<1>1. GSub(GAdd(GAdd(x, y), z), GAdd(x, y)) = z
  BY GaussParts DEF GAdd, GSub
<1>2. ASSUME NEW w \in Gauss PROVE GSub(GSub(GAdd(GAdd(GAdd(x, y), z), w), x), y) = GAdd(z, w)
  BY GaussParts DEF GAdd, GSub
<1> QED BY <1>1, <1>2

LEMMA SquareCoefs ==
  ASSUME NEW x, \A j \in 1 .. 6 : x[j] \in Gauss
  PROVE  LET m1 == GAdd(GXi(GMul(x[5], x[6])), GMul(x[2], x[3]))
             m2 == GAdd(GMul(x[2], x[6]), GMul(x[5], x[3]))
             s1 == GAdd(x[1], x[3])
             s2 == GAdd(x[4], x[6])
             z1 == GAdd(Sqr4(s1, s2), Sqr4(x[2], x[5]))
             z2 == GAdd(Dbl4(s1, s2), Dbl4(x[2], x[5]))
             t1 == Sqr4(GAdd(s1, x[2]), GAdd(s2, x[5]))
             t2 == Dbl4(GAdd(s1, x[2]), GAdd(s2, x[5]))
         IN  /\ GAdd(Sqr4(x[1], x[4]), GXi(GAdd(m2, m2))) = GCoef(x, x, 1)
             /\ GSub(GSub(z1, Sqr4(x[1], x[4])), Sqr4(x[3], x[6])) = GCoef(x, x, 3)
             /\ GAdd(GSub(GSub(t2, z2), GAdd(m2, m2)), Sqr4(x[3], x[6])) = GCoef(x, x, 5)
             /\ GAdd(GSub(GSub(t1, z1), GAdd(m1, m1)), GXi(Dbl4(x[3], x[6]))) = GCoef(x, x, 2)
             /\ GAdd(Dbl4(x[1], x[4]), GAdd(m1, m1)) = GCoef(x, x, 4)
             /\ GSub(GSub(z2, Dbl4(x[1], x[4])), Dbl4(x[3], x[6])) = GCoef(x, x, 6)
<1> DEFINE a == x[1]  b == x[2]  c == x[3]  d == x[4]  e == x[5]  f == x[6]
           m1 == GAdd(GXi(GMul(e, f)), GMul(b, c))
           m2 == GAdd(GMul(b, f), GMul(e, c))
           s1 == GAdd(a, c)
           s2 == GAdd(d, f)
           z1 == GAdd(Sqr4(s1, s2), Sqr4(b, e))
           z2 == GAdd(Dbl4(s1, s2), Dbl4(b, e))
           t1 == Sqr4(GAdd(s1, b), GAdd(s2, e))
           t2 == Dbl4(GAdd(s1, b), GAdd(s2, e))
<1>1. a \in Gauss /\ b \in Gauss /\ c \in Gauss /\ d \in Gauss /\ e \in Gauss /\ f \in Gauss
  OBVIOUS
<1>11. GCoef(x, x, 1) = GAdd(GAdd(GAdd(GMul(a, a), GXi(GMul(b, f))), GXi(GMul(c, e))),
                              GAdd(GAdd(GXi(GMul(d, d)), GXi(GMul(e, c))), GXi(GMul(f, b))))
  BY CoefTerms
<1>12. GCoef(x, x, 2) = GAdd(GAdd(GAdd(GMul(a, b), GMul(b, a)), GXi(GMul(c, f))),
                              GAdd(GAdd(GXi(GMul(d, e)), GXi(GMul(e, d))), GXi(GMul(f, c))))
  BY CoefTerms
<1>13. GCoef(x, x, 3) = GAdd(GAdd(GAdd(GMul(a, c), GMul(b, b)), GMul(c, a)),
                              GAdd(GAdd(GXi(GMul(d, f)), GXi(GMul(e, e))), GXi(GMul(f, d))))
  BY CoefTerms
<1>14. GCoef(x, x, 4) = GAdd(GAdd(GAdd(GMul(a, d), GMul(b, c)), GMul(c, b)),
                              GAdd(GAdd(GMul(d, a), GXi(GMul(e, f))), GXi(GMul(f, e))))
  BY CoefTerms
<1>15. GCoef(x, x, 5) = GAdd(GAdd(GAdd(GMul(a, e), GMul(b, d)), GMul(c, c)),
                              GAdd(GAdd(GMul(d, b), GMul(e, a)), GXi(GMul(f, f))))
  BY CoefTerms
<1>16. GCoef(x, x, 6) = GAdd(GAdd(GAdd(GMul(a, f), GMul(b, e)), GMul(c, d)),
                              GAdd(GAdd(GMul(d, c), GMul(e, b)), GMul(f, a)))
  BY CoefTerms
<1> HIDE DEF a, b, c, d, e, f
<1>9. s1 \in Gauss /\ s2 \in Gauss
  BY <1>1, GaussClosure
<1>3. GAdd(Sqr4(a, d), GXi(GAdd(m2, m2))) = GCoef(x, x, 1)
  BY <1>1, <1>11, TowerAssumption, GaussParts DEF GMul, GAdd, GXi, Sqr4
<1>4. GSub(GSub(z1, Sqr4(a, d)), Sqr4(c, f)) = GCoef(x, x, 3)
  <2>1. z1 = GAdd(GAdd(GAdd(Sqr4(a, d), Sqr4(c, f)), Twice1(a, d, c, f)), Sqr4(b, e))
    BY <1>1, SumSquares
  <2>2. /\ Sqr4(a, d) \in Gauss /\ Sqr4(c, f) \in Gauss /\ Sqr4(b, e) \in Gauss
        /\ Twice1(a, d, c, f) \in Gauss
    BY <1>1, SumSquares, SquareTerms
  <2>3. GSub(GSub(z1, Sqr4(a, d)), Sqr4(c, f)) = GAdd(Twice1(a, d, c, f), Sqr4(b, e))
    <3> HIDE DEF z1
    <3> QED BY <2>1, <2>2, Cancels
  <2>4. GAdd(Twice1(a, d, c, f), Sqr4(b, e)) = GCoef(x, x, 3)
    BY <1>1, <1>13, TowerAssumption, GaussParts DEF GMul, GAdd, GXi, Sqr4, Twice1
  <2> QED BY <2>3, <2>4
<1>5. GAdd(GSub(GSub(t2, z2), GAdd(m2, m2)), Sqr4(c, f)) = GCoef(x, x, 5)
  <2>1. t2 = GAdd(GAdd(Dbl4(s1, s2), Dbl4(b, e)), Twice2(s1, s2, b, e))
    BY <1>1, <1>9, SumSquares
  <2>2. /\ Dbl4(s1, s2) \in Gauss /\ Dbl4(b, e) \in Gauss /\ Twice2(s1, s2, b, e) \in Gauss
    BY <1>1, <1>9, SumSquares, SquareTerms
  <2>3. GSub(t2, z2) = Twice2(s1, s2, b, e)
    <3>1. z2 = GAdd(Dbl4(s1, s2), Dbl4(b, e))
      OBVIOUS
    <3> HIDE DEF z2, t2, s1, s2
    <3> QED BY <2>1, <2>2, <3>1, Cancels
  <2>4. GAdd(GSub(Twice2(s1, s2, b, e), GAdd(m2, m2)), Sqr4(c, f)) = GCoef(x, x, 5)
    BY <1>1, <1>15, TowerAssumption, GaussParts DEF GMul, GAdd, GSub, GXi, Sqr4, Twice2
  <2> QED BY <2>3, <2>4
<1>6. GAdd(GSub(GSub(t1, z1), GAdd(m1, m1)), GXi(Dbl4(c, f))) = GCoef(x, x, 2)
  <2>1. t1 = GAdd(GAdd(Sqr4(s1, s2), Sqr4(b, e)), Twice1(s1, s2, b, e))
    BY <1>1, <1>9, SumSquares
  <2>2. /\ Sqr4(s1, s2) \in Gauss /\ Sqr4(b, e) \in Gauss /\ Twice1(s1, s2, b, e) \in Gauss
    BY <1>1, <1>9, SumSquares, SquareTerms
  <2>3. GSub(t1, z1) = Twice1(s1, s2, b, e)
    <3>1. z1 = GAdd(Sqr4(s1, s2), Sqr4(b, e))
      OBVIOUS
    <3> HIDE DEF z1, t1, s1, s2
    <3> QED BY <2>1, <2>2, <3>1, Cancels
  <2>4. GAdd(GSub(Twice1(s1, s2, b, e), GAdd(m1, m1)), GXi(Dbl4(c, f))) = GCoef(x, x, 2)
    <3>1. GSub(Twice1(s1, s2, b, e), GAdd(m1, m1)) = Twice1(a, d, b, e)
      BY <1>1, TowerAssumption, GaussParts DEF GMul, GAdd, GSub, GXi, Twice1
    <3>2. GAdd(Twice1(a, d, b, e), GXi(Dbl4(c, f))) = GCoef(x, x, 2)
      BY <1>1, <1>12, TowerAssumption, GaussParts DEF GMul, GAdd, GXi, Dbl4, Twice1
    <3> QED BY <3>1, <3>2
  <2> QED BY <2>3, <2>4
<1>7. GAdd(Dbl4(a, d), GAdd(m1, m1)) = GCoef(x, x, 4)
  BY <1>1, <1>14, TowerAssumption, GaussParts DEF GMul, GAdd, GXi, Dbl4
<1>8. GSub(GSub(z2, Dbl4(a, d)), Dbl4(c, f)) = GCoef(x, x, 6)
  BY <1>1, <1>16, TowerAssumption, GaussParts DEF GMul, GAdd, GSub, GXi, Dbl4
<1> QED BY <1>3, <1>4, <1>5, <1>6, <1>7, <1>8 DEF a, b, c, d, e, f

LEMMA SqrCoefs ==
  ASSUME NEW a \in Fp12, NEW k \in 1 .. 6
  PROVE  Same(Flat(fp12_sqr_unr(a))[k], GCoef(Flat(a), Flat(a), k))
<1> DEFINE y  == Flat(a)
           t1 == <<a[1][2], a[2][3]>>
           s1 == fp2_add(a[1][1], a[1][2])
           s2 == fp2_add(a[2][2], a[2][3])
           u0 == fp4_sqr_unr(<<a[1][1], a[2][2]>>)
           m  == fp4_mul_unr(<<a[2][1], a[1][3]>>, t1)
           u1 == <<fp2_addc_low(m[1], m[1]), fp2_addc_low(m[2], m[2])>>
           u2 == fp4_sqr_unr(t1)
           u3 == fp4_sqr_unr(<<fp2_add(s1, a[2][1]), fp2_add(s2, a[1][3])>>)
           x  == fp4_sqr_unr(<<fp2_sub(s1, a[2][1]), fp2_sub(s2, a[1][3])>>)
           h1 == HalfSum(x[1], u3[1])
           h2 == HalfSum(x[2], u3[2])
           m1 == GAdd(GXi(GMul(y[5], y[6])), GMul(y[2], y[3]))
           m2 == GAdd(GMul(y[2], y[6]), GMul(y[5], y[3]))
           v1 == GAdd(y[1], y[3])
           v2 == GAdd(y[4], y[6])
           z1 == GAdd(Sqr4(v1, v2), Sqr4(y[2], y[5]))
           z2 == GAdd(Dbl4(v1, v2), Dbl4(y[2], y[5]))
           w1 == Sqr4(GAdd(v1, y[2]), GAdd(v2, y[5]))
           w2 == Dbl4(GAdd(v1, y[2]), GAdd(v2, y[5]))
<1>1. /\ y[1] = a[1][1] /\ y[2] = a[2][1] /\ y[3] = a[1][2]
      /\ y[4] = a[2][2] /\ y[5] = a[1][3] /\ y[6] = a[2][3]
  BY DEF Flat
<1>2. \A j \in 1 .. 6 : y[j] \in Fp2 /\ y[j] \in Gauss
  BY FlatTyped
<1>3. Flat(fp12_sqr_unr(a))
        = <<fp2_addc_low(u0[1], fp2_nord_low(u1[2])),
            fp2_addc_low(fp2_subc_low(fp2_subc_low(u3[1], h1), u1[1]), fp2_nord_low(u2[2])),
            fp2_subc_low(fp2_subc_low(h1, u0[1]), u2[1]),
            fp2_addc_low(u0[2], u1[1]),
            fp2_addc_low(fp2_subc_low(fp2_subc_low(u3[2], h2), u1[2]), u2[1]),
            fp2_subc_low(fp2_subc_low(h2, u0[2]), u2[2])>>
  BY DEF Flat, fp12_sqr_unr
<1>4. \A j \in 1 .. 6 : Reads(y[j], y[j])
  BY <1>2, ReadsItself
<1>5. /\ Reads(a[1][1], y[1]) /\ Reads(a[2][1], y[2]) /\ Reads(a[1][2], y[3])
      /\ Reads(a[2][2], y[4]) /\ Reads(a[1][3], y[5]) /\ Reads(a[2][3], y[6])
  <2> HIDE DEF y
  <2>1. /\ Reads(y[1], y[1]) /\ Reads(y[2], y[2]) /\ Reads(y[3], y[3])
        /\ Reads(y[4], y[4]) /\ Reads(y[5], y[5]) /\ Reads(y[6], y[6])
    BY <1>4
  <2> QED BY <1>1, <2>1
<1>6. \A j \in 1 .. 6 : y[j] \in Gauss
  BY <1>2
<1> HIDE DEF y
<1>7. Reads(s1, v1) /\ Reads(s2, v2)
  BY <1>5, StandsProducts
<1> DEFINE p1 == fp2_add(s1, a[2][1])  p2 == fp2_add(s2, a[1][3])
           q1 == fp2_sub(s1, a[2][1])  q2 == fp2_sub(s2, a[1][3])
<1>8. /\ Reads(p1, GAdd(v1, y[2])) /\ Reads(p2, GAdd(v2, y[5]))
      /\ Reads(q1, GSub(v1, y[2])) /\ Reads(q2, GSub(v2, y[5]))
  <2> HIDE DEF s1, s2, v1, v2
  <2> QED BY <1>5, <1>7, StandsProducts
<1>9. Stands(u0[1], Sqr4(y[1], y[4])) /\ Stands(u0[2], Dbl4(y[1], y[4]))
  <2> DEFINE g == <<a[1][1], a[2][2]>>
  <2>1. Reads(g[1], y[1]) /\ Reads(g[2], y[4]) /\ u0 = fp4_sqr_unr(g)
    BY <1>5
  <2> HIDE DEF g, u0
  <2> QED BY <2>1, Fp4SqrStands
<1>10. Stands(u2[1], Sqr4(y[3], y[6])) /\ Stands(u2[2], Dbl4(y[3], y[6]))
  <2>1. Reads(t1[1], y[3]) /\ Reads(t1[2], y[6])
    BY <1>5
  <2> HIDE DEF t1
  <2> QED BY <2>1, Fp4SqrStands
<1>11. Stands(m[1], m1) /\ Stands(m[2], m2)
  <2> DEFINE g == <<a[2][1], a[1][3]>>
  <2>1. /\ Reads(g[1], y[2]) /\ Reads(g[2], y[5]) /\ Reads(t1[1], y[3]) /\ Reads(t1[2], y[6])
        /\ m = fp4_mul_unr(g, t1)
    BY <1>5
  <2> HIDE DEF g, t1, m
  <2> QED BY <2>1, Fp4MulStands
<1>12. Stands(u3[1], w1) /\ Stands(u3[2], w2)
  <2> DEFINE g == <<p1, p2>>  c == GAdd(v1, y[2])  d == GAdd(v2, y[5])
  <2>1. Reads(g[1], c) /\ Reads(g[2], d) /\ u3 = fp4_sqr_unr(g)
    BY <1>8
  <2>2. w1 = Sqr4(c, d) /\ w2 = Dbl4(c, d)
    OBVIOUS
  <2> HIDE DEF g, c, d, u3, w1, w2
  <2> QED BY <2>1, <2>2, Fp4SqrStands
<1> DEFINE e1 == Sqr4(GSub(v1, y[2]), GSub(v2, y[5]))
           e2 == Dbl4(GSub(v1, y[2]), GSub(v2, y[5]))
<1>13. Stands(x[1], e1) /\ Stands(x[2], e2)
  <2> DEFINE g == <<q1, q2>>  c == GSub(v1, y[2])  d == GSub(v2, y[5])
  <2>1. Reads(g[1], c) /\ Reads(g[2], d) /\ x = fp4_sqr_unr(g)
    BY <1>8
  <2>2. e1 = Sqr4(c, d) /\ e2 = Dbl4(c, d)
    OBVIOUS
  <2> HIDE DEF g, c, d, x, e1, e2
  <2> QED BY <2>1, <2>2, Fp4SqrStands
<1>14. GAdd(e1, w1) = GAdd(z1, z1) /\ GAdd(e2, w2) = GAdd(z2, z2) /\ z1 \in Gauss /\ z2 \in Gauss
  <2>1. v1 \in Gauss /\ v2 \in Gauss /\ y[2] \in Gauss /\ y[5] \in Gauss
    BY <1>6, <1>7 DEF Reads
  <2> HIDE DEF v1, v2
  <2>2. GAdd(e1, w1) = GAdd(z1, z1) /\ GAdd(e2, w2) = GAdd(z2, z2)
    BY <2>1, HalfIdentity
  <2>3. /\ Sqr4(v1, v2) \in Gauss /\ Sqr4(y[2], y[5]) \in Gauss
        /\ Dbl4(v1, v2) \in Gauss /\ Dbl4(y[2], y[5]) \in Gauss
    BY <2>1, SquareTerms
  <2>4. z1 \in Gauss /\ z2 \in Gauss
    BY <2>3, GaussClosed
  <2> QED BY <2>2, <2>4
<1>15. /\ GAdd(Sqr4(y[1], y[4]), GXi(GAdd(m2, m2))) = GCoef(y, y, 1)
       /\ GSub(GSub(z1, Sqr4(y[1], y[4])), Sqr4(y[3], y[6])) = GCoef(y, y, 3)
       /\ GAdd(GSub(GSub(w2, z2), GAdd(m2, m2)), Sqr4(y[3], y[6])) = GCoef(y, y, 5)
       /\ GAdd(GSub(GSub(w1, z1), GAdd(m1, m1)), GXi(Dbl4(y[3], y[6]))) = GCoef(y, y, 2)
       /\ GAdd(Dbl4(y[1], y[4]), GAdd(m1, m1)) = GCoef(y, y, 4)
       /\ GSub(GSub(z2, Dbl4(y[1], y[4])), Dbl4(y[3], y[6])) = GCoef(y, y, 6)
  BY <1>6, SquareCoefs
<1> DEFINE b1 == Sqr4(y[1], y[4])  b2 == Dbl4(y[1], y[4])
           c1 == Sqr4(y[3], y[6])  c2 == Dbl4(y[3], y[6])
<1>16. Stands(u0[1], b1) /\ Stands(u0[2], b2) /\ Stands(u2[1], c1) /\ Stands(u2[2], c2)
  BY <1>9, <1>10
<1>17. /\ GAdd(b1, GXi(GAdd(m2, m2))) = GCoef(y, y, 1)
       /\ GSub(GSub(z1, b1), c1) = GCoef(y, y, 3)
       /\ GAdd(GSub(GSub(w2, z2), GAdd(m2, m2)), c1) = GCoef(y, y, 5)
       /\ GAdd(GSub(GSub(w1, z1), GAdd(m1, m1)), GXi(c2)) = GCoef(y, y, 2)
       /\ GAdd(b2, GAdd(m1, m1)) = GCoef(y, y, 4)
       /\ GSub(GSub(z2, b2), c2) = GCoef(y, y, 6)
  BY <1>15
<1> HIDE DEF b1, b2, c1, c2, z1, z2, w1, w2, e1, e2, m1, m2, u0, u2, u3, x, m
<1>18. /\ h1 \in Within2 /\ Same(h1, z1) /\ Stands(fp2_subc_low(u3[1], h1), GSub(w1, z1))
       /\ h2 \in Within2 /\ Same(h2, z2) /\ Stands(fp2_subc_low(u3[2], h2), GSub(w2, z2))
  BY <1>12, <1>13, <1>14, HalfStands
<1> HIDE DEF h1, h2
<1>19. Stands(u1[1], GAdd(m1, m1)) /\ Stands(u1[2], GAdd(m2, m2))
  BY <1>11, StandsSums
<1> HIDE DEF u1
<1> DEFINE d == Flat(fp12_sqr_unr(a))
<1>20. /\ d[1] = fp2_addc_low(u0[1], fp2_nord_low(u1[2]))
       /\ d[2] = fp2_addc_low(fp2_subc_low(fp2_subc_low(u3[1], h1), u1[1]), fp2_nord_low(u2[2]))
       /\ d[3] = fp2_subc_low(fp2_subc_low(h1, u0[1]), u2[1])
       /\ d[4] = fp2_addc_low(u0[2], u1[1])
       /\ d[5] = fp2_addc_low(fp2_subc_low(fp2_subc_low(u3[2], h2), u1[2]), u2[1])
       /\ d[6] = fp2_subc_low(fp2_subc_low(h2, u0[2]), u2[2])
  BY <1>3
<1> HIDE DEF d
<1> DEFINE n1 == GAdd(m1, m1)  n2 == GAdd(m2, m2)  f1 == GSub(w1, z1)  f2 == GSub(w2, z2)
           r1 == fp2_subc_low(u3[1], h1)  r2 == fp2_subc_low(u3[2], h2)
<1>21. Stands(u1[1], n1) /\ Stands(u1[2], n2) /\ Stands(r1, f1) /\ Stands(r2, f2)
  BY <1>18, <1>19
<1>22. Same(d[1], GCoef(y, y, 1)) /\ Same(d[4], GCoef(y, y, 4))
  <2>1. GAdd(b1, GXi(n2)) = GCoef(y, y, 1) /\ GAdd(b2, n1) = GCoef(y, y, 4)
    BY <1>17
  <2> HIDE DEF n1, n2
  <2>2. Stands(fp2_nord_low(u1[2]), GXi(n2))
    BY <1>21, StandsXi
  <2>3. /\ Stands(fp2_addc_low(u0[1], fp2_nord_low(u1[2])), GAdd(b1, GXi(n2)))
        /\ Stands(fp2_addc_low(u0[2], u1[1]), GAdd(b2, n1))
    BY <1>16, <1>21, <2>2, StandsSums
  <2> QED BY <1>20, <2>1, <2>3 DEF Stands
<1>23. Same(d[3], GCoef(y, y, 3)) /\ Same(d[6], GCoef(y, y, 6))
  <2>1. Same(fp2_subc_low(fp2_subc_low(h1, u0[1]), u2[1]), GSub(GSub(z1, b1), c1))
    BY <1>14, <1>16, <1>18, LessTwice
  <2>2. Same(fp2_subc_low(fp2_subc_low(h2, u0[2]), u2[2]), GSub(GSub(z2, b2), c2))
    BY <1>14, <1>16, <1>18, LessTwice
  <2> QED BY <1>17, <1>20, <2>1, <2>2
<1>24. Same(d[2], GCoef(y, y, 2)) /\ Same(d[5], GCoef(y, y, 5))
  <2>1. GAdd(GSub(f1, n1), GXi(c2)) = GCoef(y, y, 2) /\ GAdd(GSub(f2, n2), c1) = GCoef(y, y, 5)
    BY <1>17
  <2>2. /\ d[2] = fp2_addc_low(fp2_subc_low(r1, u1[1]), fp2_nord_low(u2[2]))
        /\ d[5] = fp2_addc_low(fp2_subc_low(r2, u1[2]), u2[1])
    BY <1>20
  <2> HIDE DEF n1, n2, f1, f2, r1, r2
  <2>3. Stands(fp2_subc_low(r1, u1[1]), GSub(f1, n1)) /\ Stands(fp2_subc_low(r2, u1[2]), GSub(f2, n2))
    BY <1>21, StandsSums
  <2>4. Stands(fp2_nord_low(u2[2]), GXi(c2))
    BY <1>16, StandsXi
  <2>5. /\ Stands(fp2_addc_low(fp2_subc_low(r1, u1[1]), fp2_nord_low(u2[2])), GAdd(GSub(f1, n1), GXi(c2)))
        /\ Stands(fp2_addc_low(fp2_subc_low(r2, u1[2]), u2[1]), GAdd(GSub(f2, n2), c1))
    BY <1>16, <2>3, <2>4, StandsSums
  <2> QED BY <2>1, <2>2, <2>5 DEF Stands
<1>25. k = 1 \/ k = 2 \/ k = 3 \/ k = 4 \/ k = 5 \/ k = 6
  OBVIOUS
<1>26. Same(d[k], GCoef(y, y, k))
  BY <1>22, <1>23, <1>24, <1>25
<1> QED BY <1>26 DEF d, y

(* So are the squares.                                                     *)
LEMMA SqrExact ==
  ASSUME NEW a \in Fp12
  PROVE  Plain12(fp12_sqr(a)) = Mul12(Plain12(a), Plain12(a))
<1> DEFINE u == fp12_sqr_unr(a)
<1>1. u \in Within6 \X Within6
  BY Fp12SqrUnreduced
<1>2. \A k \in 1 .. 6 : Same(Flat(u)[k], GCoef(Flat(a), Flat(a), k))
  BY SqrCoefs
<1>3. fp12_sqr(a) = fp12_rdcn(u)
  BY DEF fp12_sqr
<1> HIDE DEF u
<1> QED BY <1>1, <1>2, <1>3, ProductExact

LEMMA PlainTyped == ASSUME NEW a \in Fp12 PROVE Plain12(a) \in Sixes(Complex)
<1> DEFINE x == Flat(a)
<1>1. \A j \in 1 .. 6 : x[j] \in Fp2
  BY FlatTyped
<1>2. Plain12(a) = <<Plain2(x[1]), Plain2(x[2]), Plain2(x[3]), Plain2(x[4]), Plain2(x[5]), Plain2(x[6])>>
  BY DEF Plain12, Flat
<1> HIDE DEF x
<1>3. /\ Plain2(x[1]) \in Complex /\ Plain2(x[2]) \in Complex /\ Plain2(x[3]) \in Complex
      /\ Plain2(x[4]) \in Complex /\ Plain2(x[5]) \in Complex /\ Plain2(x[6]) \in Complex
  BY <1>1, PlainIs
<1> QED BY <1>2, <1>3 DEF Sixes

LEMMA Mul12Typed ==
  ASSUME NEW x \in Sixes(Complex), NEW y \in Sixes(Complex)
  PROVE  /\ Mul12(x, y) \in Sixes(Complex)
         /\ \A k \in 1 .. 6 : Mul12(x, y)[k] \in Complex /\ Same(Mul12(x, y)[k], GCoef(x, y, k))
<1>1. \A j \in 1 .. 6 : x[j] \in Gauss /\ y[j] \in Gauss /\ Same(x[j], x[j]) /\ Same(y[j], y[j])
  <2>1. \A j \in 1 .. 6 : x[j] \in Complex /\ y[j] \in Complex
    BY SixParts
  <2> QED BY <2>1, SameAsMod DEF Same
<1>2. \A k \in 1 .. 6 : Coef12(x, y, k) \in Complex /\ Same(Coef12(x, y, k), GCoef(x, y, k))
  BY <1>1, CoefExact
<1>3. /\ Coef12(x, y, 1) \in Complex /\ Coef12(x, y, 2) \in Complex /\ Coef12(x, y, 3) \in Complex
      /\ Coef12(x, y, 4) \in Complex /\ Coef12(x, y, 5) \in Complex /\ Coef12(x, y, 6) \in Complex
  BY <1>2
<1>4. Mul12(x, y) = <<Coef12(x, y, 1), Coef12(x, y, 2), Coef12(x, y, 3),
                      Coef12(x, y, 4), Coef12(x, y, 5), Coef12(x, y, 6)>>
  BY Mul12Is
<1>5. ASSUME NEW k \in 1 .. 6 PROVE Mul12(x, y)[k] = Coef12(x, y, k)
  <2>1. k = 1 \/ k = 2 \/ k = 3 \/ k = 4 \/ k = 5 \/ k = 6
    OBVIOUS
  <2> QED BY <1>4, <2>1
<1> QED BY <1>2, <1>3, <1>4, <1>5 DEF Sixes

(* The neutral element. *)
GOne == <<1, 0>>

LEMMA OneLaws ==
  /\ GOne \in Gauss /\ GOne \in Complex /\ GZero \in Complex
  /\ \A y \in Gauss : GMul(GOne, y) = y /\ GMul(GZero, y) = GZero
<1>1. 0 \in Fp /\ 1 \in Fp
  BY Sizes DEF Fp
<1>2. GOne \in Gauss /\ GOne \in Complex /\ GZero \in Complex
  BY <1>1 DEF Gauss, GOne, GZero, Complex
<1>3. ASSUME NEW y \in Gauss PROVE GMul(GOne, y) = y /\ GMul(GZero, y) = GZero
  BY GaussParts DEF GMul, GOne, GZero
<1> QED BY <1>2, <1>3

LEMMA One12Is == One12 = <<GOne, GZero, GZero, GZero, GZero, GZero>> /\ One12 \in Sixes(Complex)
<1>1. Plain(one) = 1
  <2>1. one * RInv = RInv * (R % P)
    <3>1. one = R % P /\ R % P \in Int /\ RInv \in Int
      BY Sizes, ModTyped, FpInt, RInverse DEF one
    <3> QED BY <3>1
  <2> QED BY <2>1, RInverse DEF Plain
<1>2. Plain(0) = 0
  <2>1. 0 * RInv = 0 /\ 0 \in Fp
    BY RInverse, FpInt, Sizes DEF Fp
  <2> QED BY <2>1, Small DEF Plain
<1>3. One12 = <<GOne, GZero, GZero, GZero, GZero, GZero>>
  BY <1>1, <1>2 DEF One12, Plain12, Plain2, fp12_one, fp2_one, fp2_zero, GOne, GZero
<1> QED BY <1>3, OneLaws DEF Sixes

LEMMA OneTimes == ASSUME NEW y \in Sixes(Complex) PROVE Mul12(One12, y) = y
<1> DEFINE x == One12
<1>1. x[1] = GOne /\ x[2] = GZero /\ x[3] = GZero /\ x[4] = GZero /\ x[5] = GZero /\ x[6] = GZero
      /\ x \in Sixes(Complex)
  BY One12Is
<1> HIDE DEF x
<1>2. \A j \in 1 .. 6 : y[j] \in Complex /\ y[j] \in Gauss
  BY SixParts, SameAsMod
<1>3. \A p \in Gauss : GAdd(p, GZero) = p /\ GAdd(GZero, p) = p
  BY ZeroLaws
<1>4. GXi(GZero) = GZero /\ GZero \in Gauss
  BY ZeroLaws
<1>5. \A j \in 1 .. 6 : GMul(GOne, y[j]) = y[j] /\ GMul(GZero, y[j]) = GZero
  BY <1>2, OneLaws
<1>6. \A j \in 1 .. 6 : GAdd(y[j], GZero) = y[j] /\ GAdd(GZero, y[j]) = y[j]
  BY <1>2, <1>3
<1>7. GAdd(GZero, GZero) = GZero
  BY <1>3, <1>4
<1>8. /\ GCoef(x, y, 1) = y[1] /\ GCoef(x, y, 2) = y[2] /\ GCoef(x, y, 3) = y[3]
      /\ GCoef(x, y, 4) = y[4] /\ GCoef(x, y, 5) = y[5] /\ GCoef(x, y, 6) = y[6]
  <2>1. /\ GMul(x[1], y[1]) = y[1] /\ GMul(x[1], y[2]) = y[2] /\ GMul(x[1], y[3]) = y[3]
        /\ GMul(x[1], y[4]) = y[4] /\ GMul(x[1], y[5]) = y[5] /\ GMul(x[1], y[6]) = y[6]
    BY <1>1, <1>5
  <2>2. ASSUME NEW j \in 2 .. 6, NEW k \in 1 .. 6
        PROVE  GMul(x[j], y[k]) = GZero /\ GXi(GMul(x[j], y[k])) = GZero
    <3>1. j = 2 \/ j = 3 \/ j = 4 \/ j = 5 \/ j = 6
      OBVIOUS
    <3> QED BY <1>1, <1>4, <1>5, <3>1
  <2>3. \A j \in 1 .. 6 : GAdd(GAdd(GAdd(y[j], GZero), GZero), GAdd(GAdd(GZero, GZero), GZero)) = y[j]
    BY <1>6, <1>7
  <2>4. GCoef(x, y, 1) = GAdd(GAdd(GAdd(y[1], GZero), GZero), GAdd(GAdd(GZero, GZero), GZero))
    BY <2>1, <2>2, CoefTerms
  <2>5. GCoef(x, y, 2) = GAdd(GAdd(GAdd(y[2], GZero), GZero), GAdd(GAdd(GZero, GZero), GZero))
    BY <2>1, <2>2, CoefTerms
  <2>6. GCoef(x, y, 3) = GAdd(GAdd(GAdd(y[3], GZero), GZero), GAdd(GAdd(GZero, GZero), GZero))
    BY <2>1, <2>2, CoefTerms
  <2>7. GCoef(x, y, 4) = GAdd(GAdd(GAdd(y[4], GZero), GZero), GAdd(GAdd(GZero, GZero), GZero))
    BY <2>1, <2>2, CoefTerms
  <2>8. GCoef(x, y, 5) = GAdd(GAdd(GAdd(y[5], GZero), GZero), GAdd(GAdd(GZero, GZero), GZero))
    BY <2>1, <2>2, CoefTerms
  <2>9. GCoef(x, y, 6) = GAdd(GAdd(GAdd(y[6], GZero), GZero), GAdd(GAdd(GZero, GZero), GZero))
    BY <2>1, <2>2, CoefTerms
  <2> QED BY <2>3, <2>4, <2>5, <2>6, <2>7, <2>8, <2>9
<1> DEFINE m == Mul12(x, y)
<1>9. m \in Sixes(Complex) /\ \A k \in 1 .. 6 : m[k] \in Complex /\ Same(m[k], GCoef(x, y, k))
  BY <1>1, Mul12Typed
<1> HIDE DEF m
<1>10. ASSUME NEW k \in 1 .. 6 PROVE m[k] = y[k]
  <2>1. k = 1 \/ k = 2 \/ k = 3 \/ k = 4 \/ k = 5 \/ k = 6
    OBVIOUS
  <2>2. GCoef(x, y, k) = y[k]
    BY <1>8, <2>1
  <2> QED BY <1>2, <1>9, <2>2, SameAsMod
<1>11. m = <<m[1], m[2], m[3], m[4], m[5], m[6]>> /\ y = <<y[1], y[2], y[3], y[4], y[5], y[6]>>
  BY <1>9, SixParts
<1>12. m[1] = y[1] /\ m[2] = y[2] /\ m[3] = y[3] /\ m[4] = y[4] /\ m[5] = y[5] /\ m[6] = y[6]
  BY <1>10
<1>13. m = y
  BY <1>11, <1>12
<1> QED BY <1>13 DEF m, x

(* The inverse by conjugation. *)
LEMMA NegPlain ==
  ASSUME NEW a \in Fp2
  PROVE  Plain2(fp2_neg(a)) = Sub2(<<0, 0>>, Plain2(a))
<1>1. ASSUME NEW x \in Fp PROVE Plain(fp_negm_low(x)) = (0 - Plain(x)) % P
  <2> DEFINE y == fp_negm_low(x)
  <2>1. y \in Fp /\ y = (0 - x) % P
    BY NegmCorrect
  <2>2. x \in Int /\ y \in Int /\ RInv \in Int /\ 0 - x \in Int
    BY <2>1, RInverse, FpInt
  <2>3. y % P = (0 - x) % P
    BY <2>1, <2>2, ModTwice
  <2> HIDE DEF y
  <2>4. (y * RInv) % P = ((0 - x) * RInv) % P
    BY <2>2, <2>3, ModOne
  <2> DEFINE c == x * RInv
  <2>5. c \in Int /\ (0 - x) * RInv = 0 - c /\ Plain(x) = c % P
    BY <2>2 DEF Plain
  <2> HIDE DEF c
  <2>6. c % P \in Int /\ (c % P) % P = c % P
    BY <2>5, ModTyped, FpInt, ModTwice
  <2>7. (0 - (c % P)) % P = (0 - c) % P
    <3> DEFINE d == c % P  z == 0
    <3>1. d \in Int /\ d % P = c % P /\ z \in Int /\ z % P = z % P
      BY <2>6
    <3> HIDE DEF d, z
    <3>2. (z - d) % P = (z - c) % P
      BY <2>5, <3>1, ModSums
    <3> QED BY <3>2 DEF d, z
  <2>8. Plain(y) = (y * RInv) % P
    BY DEF Plain
  <2>9. Plain(y) = (0 - c) % P
    BY <2>4, <2>5, <2>8
  <2>10. (0 - Plain(x)) % P = (0 - c) % P
    BY <2>5, <2>7
  <2> QED BY <2>9, <2>10 DEF y
<1>2. a[1] \in Fp /\ a[2] \in Fp
  BY DEF Fp2
<1> QED BY <1>1, <1>2 DEF Plain2, fp2_neg, Sub2

LEMMA ConjugateExact ==
  ASSUME NEW a \in Fp12
  PROVE  Plain12(fp12_inv_cyc(a)) = Conjugate(Plain12(a))
<1>1. a[2][1] \in Fp2 /\ a[2][2] \in Fp2 /\ a[2][3] \in Fp2
  BY Fp6Parts DEF Fp12
<1>2. /\ Plain2(fp2_neg(a[2][1])) = Sub2(<<0, 0>>, Plain2(a[2][1]))
      /\ Plain2(fp2_neg(a[2][2])) = Sub2(<<0, 0>>, Plain2(a[2][2]))
      /\ Plain2(fp2_neg(a[2][3])) = Sub2(<<0, 0>>, Plain2(a[2][3]))
  BY <1>1, NegPlain
<1> QED BY <1>2 DEF Plain12, fp12_inv_cyc, fp6_neg, Conjugate

-----------------------------------------------------------------------------
(* A sequence of lines, in the tower and in exact arithmetic. *)

LEMMA TimesUnfold ==
  ASSUME NEW a \in Fp12, NEW ls \in Seq(LineValues)
  PROVE  \E f : /\ TimesLines(a, ls) = f[Len(ls)] /\ f[0] = a
                /\ \A k \in 1 .. Len(ls) : f[k] = fp12_mul_dxs(f[k - 1], ls[k])
                /\ \A k \in 0 .. Len(ls) : f[k] \in Fp12
<1> DEFINE N == Len(ls)
           Next0(k, y) == fp12_mul_dxs(y, ls[k])
           Is(f) == f = [k \in 0 .. N |-> IF k = 0 THEN a ELSE Next0(k, f[k - 1])]
           H == [w \in (1 .. N) \X Fp12 |-> Next0(w[1], w[2])]
           v == CHOOSE f : Is(f)
<1>0. N \in Nat
  OBVIOUS
<1>1. ASSUME NEW k \in 1 .. N, NEW y \in Fp12 PROVE Next0(k, y) \in Fp12
  <2>1. ls[k] \in LineValues
    OBVIOUS
  <2> QED BY <2>1, ProductsCanonical
<1>2. TimesLines(a, ls) = v[N]
  BY DEF TimesLines
<1>20. \A k \in 1 .. N, y \in Fp12 : Next0(k, y) = fp12_mul_dxs(y, ls[k])
  OBVIOUS
<1> HIDE DEF Next0, N
<1>3. H \in [(1 .. N) \X Fp12 -> Fp12]
  BY <1>1
<1>4. PICK f \in [0 .. N -> Fp12] : LoopOf(f, N, a, H)
  <2> HIDE DEF H
  <2> QED BY <1>0, <1>3, LoopExists, Zenon
<1>5. Is(f)
  <2>1. \A k \in 1 .. N : k - 1 \in 0 .. N /\ H[<<k, f[k - 1]>>] = Next0(k, f[k - 1])
    BY <1>0
  <2>2. \A k \in 0 .. N : k = 0 \/ k \in 1 .. N
    BY <1>0
  <2> HIDE DEF H
  <2> QED BY <1>4, <2>1, <2>2 DEF LoopOf
<1>6. Is(v)
  <2> HIDE DEF Is
  <2> QED BY <1>5, Zenon
<1> HIDE DEF v
<1>7. v[0] = a /\ \A k \in 1 .. N : v[k] = Next0(k, v[k - 1])
  <2>1. \A k \in 0 .. N : v[k] = IF k = 0 THEN a ELSE Next0(k, v[k - 1])
    BY <1>6
  <2> QED BY <1>0, <2>1
<1> DEFINE S == {k \in 0 .. N : v[k] \in Fp12}
<1>8. 0 \in S
  BY <1>0, <1>7
<1>9. ASSUME NEW k \in 0 .. N - 1, k \in S PROVE k + 1 \in S
  <2>1. k + 1 \in 1 .. N /\ (k + 1) - 1 = k /\ k + 1 \in 0 .. N
    BY <1>0
  <2>2. v[k + 1] = Next0(k + 1, v[k])
    BY <1>7, <2>1
  <2> QED BY <1>1, <1>9, <2>1, <2>2
<1> HIDE DEF S
<1>10. \A k \in 0 .. N : k \in S
  BY <1>0, <1>8, <1>9, UpTo
<1>11. \A k \in 0 .. N : v[k] \in Fp12
  BY <1>10 DEF S
<1>12. \A k \in 1 .. N : v[k] = fp12_mul_dxs(v[k - 1], ls[k])
  <2>1. \A k \in 1 .. N : k - 1 \in 0 .. N
    BY <1>0
  <2> QED BY <1>7, <1>11, <1>20, <2>1
<1>13. TimesLines(a, ls) = v[N] /\ v[0] = a
  BY <1>2, <1>7
<1> HIDE DEF Is
<1> QED BY <1>11, <1>12, <1>13 DEF N

LEMMA ExactUnfold ==
  ASSUME NEW a \in Sixes(Complex), NEW ls \in Seq(LineValues)
  PROVE  \E f : /\ ExactLines(a, ls) = f[Len(ls)] /\ f[0] = a
                /\ \A k \in 1 .. Len(ls) : f[k] = Mul12(f[k - 1], Plain12(ls[k]))
<1> DEFINE D == Sixes(Complex)
           N == Len(ls)
           Next0(k, y) == Mul12(y, Plain12(ls[k]))
           Is(f) == f = [k \in 0 .. N |-> IF k = 0 THEN a ELSE Next0(k, f[k - 1])]
           H == [w \in (1 .. N) \X D |-> Next0(w[1], w[2])]
           v == CHOOSE f : Is(f)
<1>0. N \in Nat
  OBVIOUS
<1>1. ASSUME NEW k \in 1 .. N, NEW y \in D PROVE Next0(k, y) \in D
  <2>1. ls[k] \in LineValues
    OBVIOUS
  <2>2. Plain12(ls[k]) \in D
    BY <2>1, PlainTyped DEF LineValues
  <2> QED BY <2>2, Mul12Typed
<1>2. ExactLines(a, ls) = v[N]
  BY DEF ExactLines
<1>20. \A k, y : Next0(k, y) = Mul12(y, Plain12(ls[k]))
  OBVIOUS
<1> HIDE DEF Next0, N, D
<1>3. H \in [(1 .. N) \X D -> D]
  BY <1>1
<1>4. PICK f \in [0 .. N -> D] : LoopOf(f, N, a, H)
  <2>1. a \in D
    BY DEF D
  <2> HIDE DEF H
  <2> QED BY <1>0, <1>3, <2>1, LoopExists, Zenon
<1>5. Is(f)
  <2>1. \A k \in 1 .. N : k - 1 \in 0 .. N /\ H[<<k, f[k - 1]>>] = Next0(k, f[k - 1])
    BY <1>0
  <2>2. \A k \in 0 .. N : k = 0 \/ k \in 1 .. N
    BY <1>0
  <2> HIDE DEF H
  <2> QED BY <1>4, <2>1, <2>2 DEF LoopOf
<1>6. Is(v)
  <2> HIDE DEF Is
  <2> QED BY <1>5, Zenon
<1> HIDE DEF v
<1>7. v[0] = a /\ \A k \in 1 .. N : v[k] = Next0(k, v[k - 1])
  <2>1. \A k \in 0 .. N : v[k] = IF k = 0 THEN a ELSE Next0(k, v[k - 1])
    BY <1>6
  <2> QED BY <1>0, <2>1
<1>8. \A k \in 1 .. N : v[k] = Mul12(v[k - 1], Plain12(ls[k]))
  BY <1>7, <1>20
<1> HIDE DEF Is
<1> QED BY <1>2, <1>7, <1>8 DEF N

LEMMA LinesExact ==
  ASSUME NEW a \in Fp12, NEW ls \in Seq(LineValues)
  PROVE  Plain12(TimesLines(a, ls)) = ExactLines(Plain12(a), ls)
<1> DEFINE N == Len(ls)
<1>0. N \in Nat /\ \A k \in 1 .. N : ls[k] \in LineValues
  OBVIOUS
<1>1. PICK f : /\ TimesLines(a, ls) = f[Len(ls)] /\ f[0] = a
               /\ \A k \in 1 .. Len(ls) : f[k] = fp12_mul_dxs(f[k - 1], ls[k])
               /\ \A k \in 0 .. Len(ls) : f[k] \in Fp12
  BY TimesUnfold
<1>2. PICK g : /\ ExactLines(Plain12(a), ls) = g[Len(ls)] /\ g[0] = Plain12(a)
               /\ \A k \in 1 .. Len(ls) : g[k] = Mul12(g[k - 1], Plain12(ls[k]))
  BY PlainTyped, ExactUnfold
<1>3. /\ TimesLines(a, ls) = f[N] /\ f[0] = a
      /\ \A k \in 1 .. N : f[k] = fp12_mul_dxs(f[k - 1], ls[k])
      /\ \A k \in 0 .. N : f[k] \in Fp12
      /\ ExactLines(Plain12(a), ls) = g[N] /\ g[0] = Plain12(a)
      /\ \A k \in 1 .. N : g[k] = Mul12(g[k - 1], Plain12(ls[k]))
  BY <1>1, <1>2
<1> HIDE DEF N
<1> DEFINE S == {k \in 0 .. N : Plain12(f[k]) = g[k]}
<1>4. 0 \in S
  BY <1>0, <1>3
<1>5. ASSUME NEW k \in 0 .. N - 1, k \in S PROVE k + 1 \in S
  <2> DEFINE m == k + 1
  <2>1. m \in 1 .. N /\ m - 1 = k /\ m \in 0 .. N
    BY <1>0
  <2> HIDE DEF m
  <2>2. f[m] = fp12_mul_dxs(f[k], ls[m]) /\ g[m] = Mul12(g[k], Plain12(ls[m]))
    BY <1>3, <2>1
  <2>3. f[k] \in Fp12 /\ ls[m] \in LineValues
    BY <1>0, <1>3, <1>5, <2>1
  <2>4. Plain12(fp12_mul_dxs(f[k], ls[m])) = Mul12(Plain12(f[k]), Plain12(ls[m]))
    BY <2>3, DxsExact
  <2>5. m \in S
    BY <1>5, <2>1, <2>2, <2>4
  <2> QED BY <2>5 DEF m
<1> HIDE DEF S
<1>6. \A k \in 0 .. N : k \in S
  BY <1>0, <1>4, <1>5, UpTo
<1> QED BY <1>0, <1>3, <1>6 DEF S

(* The first line as the accumulator. *)
LEMMA FirstLinesExact ==
  ASSUME NEW ls \in Seq(LineValues), ls # <<>>
  PROVE  Plain12(TimesLines(ls[1], Tail(ls))) = ExactLines(One12, ls)
<1> DEFINE N == Len(ls)  ks == Tail(ls)  a == ls[1]
<1>0. /\ N \in Nat \ {0} /\ \A k \in 1 .. N : ls[k] \in LineValues
      /\ ks \in Seq(LineValues) /\ Len(ks) = N - 1 /\ \A k \in 1 .. N - 1 : ks[k] = ls[k + 1]
  OBVIOUS
<1>1. a \in LineValues /\ a \in Fp12
  BY DEF LineValues
<1> HIDE DEF ks
<1>2. PICK f : /\ TimesLines(a, ks) = f[Len(ks)] /\ f[0] = a
               /\ \A k \in 1 .. Len(ks) : f[k] = fp12_mul_dxs(f[k - 1], ks[k])
               /\ \A k \in 0 .. Len(ks) : f[k] \in Fp12
  BY <1>0, <1>1, TimesUnfold
<1>3. PICK g : /\ ExactLines(One12, ls) = g[Len(ls)] /\ g[0] = One12
               /\ \A k \in 1 .. Len(ls) : g[k] = Mul12(g[k - 1], Plain12(ls[k]))
  BY One12Is, ExactUnfold
<1> DEFINE M == N - 1
<1>4. /\ M \in Nat /\ TimesLines(a, ks) = f[M] /\ f[0] = a
      /\ \A k \in 1 .. M : f[k] = fp12_mul_dxs(f[k - 1], ls[k + 1])
      /\ \A k \in 0 .. M : f[k] \in Fp12
      /\ ExactLines(One12, ls) = g[M + 1] /\ g[0] = One12
      /\ \A k \in 1 .. M + 1 : g[k] = Mul12(g[k - 1], Plain12(ls[k]))
      /\ \A k \in 1 .. M + 1 : ls[k] \in LineValues
  BY <1>0, <1>2, <1>3
<1> HIDE DEF M, N
<1> DEFINE S == {k \in 0 .. M : Plain12(f[k]) = g[k + 1]}
<1>5. 0 \in S
  <2>1. g[1] = Mul12(One12, Plain12(ls[1]))
    <3>1. 1 \in 1 .. M + 1
      BY <1>4
    <3>2. g[1] = Mul12(g[1 - 1], Plain12(ls[1]))
      BY <1>4, <3>1
    <3> QED BY <1>4, <3>2
  <2>2. Mul12(One12, Plain12(a)) = Plain12(a)
    BY <1>1, PlainTyped, OneTimes
  <2> QED BY <1>4, <2>1, <2>2
<1>6. ASSUME NEW k \in 0 .. M - 1, k \in S PROVE k + 1 \in S
  <2> DEFINE m == k + 1
  <2>1. m \in 1 .. M /\ m - 1 = k /\ m \in 0 .. M /\ m + 1 \in 1 .. M + 1 /\ (m + 1) - 1 = m
    BY <1>4
  <2>2. Plain12(f[k]) = g[m]
    BY <1>6
  <2> HIDE DEF m
  <2>3. f[m] = fp12_mul_dxs(f[k], ls[m + 1]) /\ g[m + 1] = Mul12(g[m], Plain12(ls[m + 1]))
    BY <1>4, <2>1
  <2>4. f[k] \in Fp12 /\ ls[m + 1] \in LineValues
    BY <1>4, <1>6, <2>1
  <2>5. Plain12(fp12_mul_dxs(f[k], ls[m + 1])) = Mul12(Plain12(f[k]), Plain12(ls[m + 1]))
    BY <2>4, DxsExact
  <2>6. m \in S
    BY <2>1, <2>2, <2>3, <2>5
  <2> QED BY <2>6 DEF m
<1> HIDE DEF S
<1>7. \A k \in 0 .. M : k \in S
  BY <1>4, <1>5, <1>6, UpTo
<1>8. Plain12(f[M]) = g[M + 1]
  BY <1>4, <1>7 DEF S
<1>9. Plain12(TimesLines(a, ks)) = ExactLines(One12, ls)
  BY <1>4, <1>8
<1> QED BY <1>9 DEF a, ks

(* ExactMiller, and what it rests on: until the first digit below the      *)
(* leading one is read the accumulator is one, so that this digit may      *)
(* start it with its first line.                                           *)
Fresh   == r = fp12_one /\ exact = One12
Started == /\ pc = "start" => Fresh
           /\ pc = "digit" /\ i = Len(digits) - 1 => Fresh
ExactInv == Typed /\ Started /\ ExactMiller

LEMMA ExactInit == ASSUME Init PROVE ExactInv
<1>1. Typed
  BY TypedInit
<1>2. Started /\ ExactMiller
  BY DEF Init, Started, Fresh, ExactMiller
<1> QED BY <1>1, <1>2 DEF ExactInv

LEMMA ExactStart == ASSUME ExactInv, pp_map_sim_oatep_k12 PROVE (Started /\ ExactMiller)'
<1>1. r' = r /\ exact' = exact /\ pc = "start" /\ pc' \in {"done", "digit"}
  BY DEF pp_map_sim_oatep_k12
<1>2. r = fp12_one /\ exact = One12
  BY <1>1 DEF ExactInv, Started, Fresh
<1> QED BY <1>1, <1>2 DEF Started, Fresh, ExactMiller, One12

LEMMA ExactMil == ASSUME ExactInv, pp_mil_k12 PROVE (Started /\ ExactMiller)'
<1>0. Typed
  BY DEF ExactInv
<1>1. digits' = digits /\ digits \in Seq({-1, 0, 1}) /\ Len(digits) \in Nat \ {0}
  BY <1>0, DigitsHere DEF pp_mil_k12, digits, param
<1>2. pc = "digit" /\ pc' = "digit" /\ i > 0 /\ pq # <<>> /\ i \in 0 .. Len(digits) - 1 /\ i' = i - 1
  BY <1>0 DEF pp_mil_k12, Typed
<1>3. digits[i] \in {-1, 0, 1}
  BY <1>1, <1>2
<1> DEFINE steps == Steps(digits[i])  ls == Lines(steps)
<1>4. steps \in [1 .. Len(pq) -> StepSeqs] /\ Times(ls)
  BY <1>0, <1>3, StepsTyped DEF pp_mil_k12, Moved
<1>5. ls \in Seq(LineValues) /\ ls # <<>>
  <2>1. Len(pq) \in Nat /\ Len(pq) # 0
    BY <1>0, <1>2 DEF Typed
  <2> HIDE DEF steps
  <2> QED BY <1>4, <2>1, LinesTyped
<1>6. /\ r' = IF i = Len(digits) - 1 THEN TimesLines(ls[1], Tail(ls)) ELSE TimesLines(fp12_sqr(r), ls)
      /\ exact' = ExactLines(Mul12(exact, exact), ls)
  <2> HIDE DEF ls
  <2> QED BY <1>4 DEF Times
<1> HIDE DEF ls
<1>7. Plain12(r) = exact /\ r \in Fp12
  BY <1>0, <1>2 DEF ExactInv, ExactMiller, Typed
<1>8. Plain12(r') = exact'
  <2>1. CASE i = Len(digits) - 1
    <3>1. exact = One12
      BY <1>2, <2>1 DEF ExactInv, Started, Fresh
    <3>2. Mul12(One12, One12) = One12
      BY One12Is, OneTimes
    <3>3. exact' = ExactLines(One12, ls) /\ r' = TimesLines(ls[1], Tail(ls))
      BY <1>6, <2>1, <3>1, <3>2
    <3> QED BY <1>5, <3>3, FirstLinesExact
  <2>2. CASE i # Len(digits) - 1
    <3>1. r' = TimesLines(fp12_sqr(r), ls)
      BY <1>6, <2>2
    <3>2. fp12_sqr(r) \in Fp12 /\ Plain12(fp12_sqr(r)) = Mul12(exact, exact)
      BY <1>7, Fp12Products, SqrExact
    <3>3. Plain12(TimesLines(fp12_sqr(r), ls)) = ExactLines(Plain12(fp12_sqr(r)), ls)
      BY <1>5, <3>2, LinesExact
    <3> QED BY <1>6, <3>1, <3>2, <3>3
  <2> QED BY <2>1, <2>2
<1>9. i' # Len(digits') - 1 /\ pc' # "start"
  BY <1>1, <1>2
<1> QED BY <1>8, <1>9 DEF Started, ExactMiller

LEMMA ExactMillerDone == ASSUME ExactInv, MillerDone PROVE (Started /\ ExactMiller)'
<1>1. pc = "digit" /\ pc' \in {"fin", "exp"} /\ r \in Fp12
  BY DEF MillerDone, ExactInv, Typed
<1>2. Plain12(r) = exact
  BY <1>1 DEF ExactInv, ExactMiller
<1>3. Plain12(r') = exact'
  <2>1. CASE param < 0
    BY <1>1, <1>2, <2>1, ConjugateExact DEF MillerDone
  <2>2. CASE ~ (param < 0)
    BY <1>2, <2>2 DEF MillerDone
  <2> QED BY <2>1, <2>2
<1> QED BY <1>1, <1>3 DEF Started, ExactMiller

LEMMA ExactFin == ASSUME ExactInv, pp_fin_k12_oatep PROVE (Started /\ ExactMiller)'
<1>0. /\ pc = "fin" /\ i \in 1 .. Len(pq) /\ pq \in Seq(Pairs) /\ t \in [1 .. Len(pq) -> Fp6]
      /\ r \in Fp12 /\ Plain12(r) = exact
  BY DEF pp_fin_k12_oatep, ExactInv, Typed, ExactMiller
<1> DEFINE q1 == ep2_frb1(pq[i][2])
           q2 == ep2_neg(ep2_frb1(q1))
           s1 == pp_add_k12(t[i], q1, pq[i][1])
           s2 == pp_add_k12(s1.t, q2, pq[i][1])
<1>1. r' = TimesLines(r, <<s1.l, s2.l>>) /\ exact' = ExactLines(exact, <<s1.l, s2.l>>)
  BY DEF pp_fin_k12_oatep
<1>2. pq[i] \in Pairs /\ t[i] \in Fp6
  BY <1>0
<1>3. q1 \in Fp6 /\ q2 \in Fp6
  BY <1>2, PairTyped, TwistMaps
<1>4. q1[1] \in Fp2 /\ q1[2] \in Fp2 /\ q2[1] \in Fp2 /\ q2[2] \in Fp2
  BY <1>3, Fp6Parts
<1> HIDE DEF q1, q2
<1>5. s1 \in StepValues
  BY <1>2, <1>4, PairTyped, AddTyped
<1> HIDE DEF s1
<1>6. s1.t \in Fp6 /\ s1.l \in LineValues
  BY <1>5 DEF StepValues
<1>7. s2 \in StepValues
  BY <1>2, <1>4, <1>6, PairTyped, AddTyped
<1> HIDE DEF s2
<1>8. s2.l \in LineValues
  BY <1>7 DEF StepValues
<1>9. <<s1.l, s2.l>> \in Seq(LineValues)
  BY <1>6, <1>8
<1>10. Plain12(r') = exact'
  BY <1>0, <1>1, <1>9, LinesExact
<1>11. pc' \in {"fin", "exp"}
  BY DEF pp_fin_k12_oatep
<1> QED BY <1>10, <1>11 DEF Started, ExactMiller

LEMMA ExactNext == ASSUME ExactInv, [Next]_vars PROVE ExactInv'
<1>1. Typed'
  BY TypedNext DEF ExactInv
<1>2. (Started /\ ExactMiller)'
  <2>1. CASE pp_map_sim_oatep_k12
    BY <2>1, ExactStart
  <2>2. CASE pp_mil_k12
    BY <2>2, ExactMil
  <2>3. CASE MillerDone
    BY <2>3, ExactMillerDone
  <2>4. CASE pp_fin_k12_oatep
    BY <2>4, ExactFin
  <2>5. CASE pp_exp_k12
    BY <2>5 DEF pp_exp_k12, Started, ExactMiller
  <2>6. CASE UNCHANGED vars
    BY <2>6 DEF vars, ExactInv, Started, Fresh, ExactMiller, digits, param
  <2> QED BY <2>1, <2>2, <2>3, <2>4, <2>5, <2>6 DEF Next
<1> QED BY <1>1, <1>2 DEF ExactInv

(* The Miller loop loses nothing to lazy reduction: for every prime with   *)
(* the room RLC_FP_ROOM speaks of, every tower, curve and list of points,  *)
(* the accumulator stands at every step for what exact polynomial          *)
(* arithmetic makes of the same lines.                                     *)
THEOREM PairingExactMiller == Spec => []ExactMiller
<1>1. Init => ExactInv
  BY ExactInit
<1>2. ExactInv /\ [Next]_vars => ExactInv'
  BY ExactNext
<1>3. ExactInv => ExactMiller
  BY DEF ExactInv
<1> QED BY <1>1, <1>2, <1>3, PTL DEF Spec
=============================================================================
