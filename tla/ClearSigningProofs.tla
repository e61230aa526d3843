------------------------- MODULE ClearSigningProofs -------------------------
(***************************************************************************)
(* A displayed text is the rendering of the call data shown with it, for   *)
(* every template, field, chunk size, call data and text.  The circuit's   *)
(* template is sound and complete for the renderer, digit by digit; equal  *)
(* digests mean equal byte strings, because the packing is injective; the  *)
(* protocol displays what one proof was made for.                          *)
(***************************************************************************)
EXTENDS ClearSigning, FiniteSetTheorems, SequenceTheorems, WellFoundedInduction, TLAPS

LEMMA AtLeastOne ==
  ASSUME NEW d \in Int, NEW w \in Nat \ {0}, d >= 1
  PROVE  d * w >= w
<1>1. (d - 1) * w >= 0
  OBVIOUS
<1>2. (d - 1) * w = d * w - w
  OBVIOUS
<1> QED BY <1>1, <1>2

(* The quotient and the remainder are the only ones. *)
LEMMA DivModUnique ==
  ASSUME NEW v \in Int, NEW q \in Int, NEW w \in Nat \ {0},
         NEW m \in 0 .. w - 1, v = q * w + m
  PROVE  v % w = m /\ v \div w = q
<1> DEFINE d == v \div w
           n == v % w
<1>1. d \in Int /\ n \in 0 .. w - 1 /\ v = d * w + n
  OBVIOUS
<1> HIDE DEF d, n
<1>2. (q - d) * w = n - m /\ (d - q) * w = m - n
  BY <1>1
<1>3. ~ (q - d >= 1)
  BY <1>1, <1>2, AtLeastOne
<1>4. ~ (d - q >= 1)
  BY <1>1, <1>2, AtLeastOne
<1>5. q = d
  BY <1>1, <1>3, <1>4
<1> QED BY <1>1, <1>5 DEF d, n

LEMMA DivMod ==
  ASSUME NEW v \in Nat, NEW w \in Nat \ {0}
  PROVE  v \div w \in Nat /\ v % w \in 0 .. w - 1 /\ v = (v \div w) * w + (v % w)
<1>1. v \div w \in Int /\ v % w \in 0 .. w - 1 /\ v = (v \div w) * w + (v % w)
  OBVIOUS
<1>2. ~ (0 - (v \div w) >= 1)
  <2> DEFINE d == v \div w
             m == v % w
  <2>1. d \in Int /\ m \in 0 .. w - 1 /\ v = d * w + m
    BY <1>1
  <2> HIDE DEF d, m
  <2>2. ASSUME 0 - d >= 1 PROVE FALSE
    <3>1. (0 - d) * w >= w
      BY <2>1, <2>2, AtLeastOne
    <3>2. (0 - d) * w = 0 - d * w
      BY <2>1
    <3> QED BY <2>1, <3>1, <3>2
  <2> QED BY <2>2 DEF d
<1> QED BY <1>1, <1>2

LEMMA DivDiv ==
  ASSUME NEW a \in Nat, NEW b \in Nat \ {0}, NEW c \in Nat \ {0}
  PROVE  (a \div b) \div c = a \div (b * c)
<1> DEFINE q == a \div b    r == a % b
           qq == q \div c   rr == q % c
<1>1. q \in Nat /\ r \in 0 .. b - 1 /\ a = q * b + r
  BY DivMod
<1>2. qq \in Nat /\ rr \in 0 .. c - 1 /\ q = qq * c + rr
  BY <1>1, DivMod
<1> HIDE DEF q, r, qq, rr
<1>3. a = qq * (b * c) + (rr * b + r)
  BY <1>1, <1>2
<1>4. rr * b + r \in 0 .. b * c - 1
  <2>1. (c - 1 - rr) * b >= 0 /\ rr * b >= 0
    BY <1>2
  <2>2. (c - 1 - rr) * b = b * c - b - rr * b
    BY <1>2
  <2>3. rr * b \in Int /\ b * c \in Int
    BY <1>2
  <2> QED BY <1>1, <2>1, <2>2, <2>3
<1>5. b * c \in Nat \ {0}
  <2>1. (b - 1) * c >= 0 /\ (b - 1) * c = b * c - c
    OBVIOUS
  <2> QED BY <2>1
<1>6. a \div (b * c) = qq
  BY <1>2, <1>3, <1>4, <1>5, DivModUnique
<1> QED BY <1>6 DEF q, qq

LEMMA NatLeast ==
  ASSUME NEW T, T \subseteq Nat, T # {}
  PROVE  \E x \in T : \A y \in T : ~ (y < x)
<1>1. IsWellFoundedOn(OpToRel(<, Nat), Nat)
  BY NatLessThanWellFounded, Zenon
<1>2. \E x \in T : \A y \in T : <<y, x>> \notin OpToRel(<, Nat)
  BY <1>1, WFMin, Zenon
<1>3. PICK x \in T : \A y \in T : <<y, x>> \notin OpToRel(<, Nat)
  BY <1>2, Zenon
<1>4. ASSUME NEW y \in T, y < x PROVE FALSE
  <2>1. y \in Nat /\ x \in Nat
    OBVIOUS
  <2>2. <<y, x>> \in OpToRel(<, Nat)
    BY <1>4, <2>1, Zenon DEF OpToRel
  <2> QED BY <1>3, <2>2, Zenon
<1> QED BY <1>4, Zenon

LEMMA UpTo ==
  ASSUME NEW n \in Nat, NEW S, 0 \in S, \A k \in 0 .. n - 1 : k \in S => k + 1 \in S
  PROVE  \A k \in 0 .. n : k \in S
<1> DEFINE T == (0 .. n) \ S
<1>1. SUFFICES ASSUME T # {} PROVE FALSE
  OBVIOUS
<1>2. PICK x \in T : \A y \in T : ~ (y < x)
  <2>1. T \subseteq Nat
    OBVIOUS
  <2> HIDE DEF T
  <2> QED BY <1>1, <2>1, NatLeast, Zenon
<1>3. x - 1 \in 0 .. n - 1 /\ x - 1 \notin T
  BY <1>2
<1> QED BY <1>3

IsEval(v, s, base) ==
  /\ v \in [0 .. Len(s) -> Nat]
  /\ v[0] = 0
  /\ \A k \in 1 .. Len(s) : v[k] = v[k - 1] * base + s[k]

LEMMA EvalExists ==
  ASSUME NEW s \in Seq(Nat), NEW base \in Nat
  PROVE  \E v : IsEval(v, s, base)
<1> DEFINE n == Len(s)
           Upto(m, v) == /\ v \in [0 .. m -> Nat] /\ v[0] = 0
                         /\ \A k \in 1 .. m : v[k] = v[k - 1] * base + s[k]
           S == {m \in 0 .. n : \E v : Upto(m, v)}
<1>1. 0 \in S
  <2> DEFINE w == [k \in 0 .. 0 |-> 0]
  <2>1. Upto(0, w)
    OBVIOUS
  <2>2. n \in Nat
    OBVIOUS
  <2> HIDE DEF Upto, w, n
  <2> QED BY <2>1, <2>2
<1>2. ASSUME NEW m \in 0 .. n - 1, m \in S PROVE m + 1 \in S
  <2>1. PICK v : Upto(m, v)
    BY <1>2
  <2> DEFINE w == [k \in 0 .. m + 1 |-> IF k = m + 1 THEN v[m] * base + s[m + 1] ELSE v[k]]
  <2>2. s[m + 1] \in Nat /\ v[m] \in Nat
    BY <2>1
  <2>3. v[m] * base \in Nat
    BY <2>2
  <2>4. w \in [0 .. m + 1 -> Nat] /\ w[0] = 0
    BY <2>1, <2>2, <2>3
  <2>5. \A k \in 1 .. m + 1 : w[k] = w[k - 1] * base + s[k]
    BY <2>1
  <2>6. Upto(m + 1, w)
    BY <2>4, <2>5
  <2> HIDE DEF w, Upto
  <2> QED BY <2>6
<1>3. n \in Nat
  OBVIOUS
<1>4. n \in S
  <2>1. \A m \in 0 .. n - 1 : m \in S => m + 1 \in S
    BY <1>2
  <2> HIDE DEF S, n
  <2>2. \A k \in 0 .. n : k \in S
    BY <1>1, <2>1, <1>3, UpTo, Zenon
  <2> QED BY <1>3, <2>2
<1> QED BY <1>4 DEF IsEval

LEMMA EvalUnique ==
  ASSUME NEW s \in Seq(Nat), NEW base \in Nat, NEW v, NEW w,
         IsEval(v, s, base), IsEval(w, s, base)
  PROVE  v = w
<1> DEFINE S == {k \in 0 .. Len(s) : v[k] = w[k]}
<1>1. 0 \in S
  BY DEF IsEval
<1>2. \A k \in 0 .. Len(s) - 1 : k \in S => k + 1 \in S
  BY DEF IsEval
<1>3. \A k \in 0 .. Len(s) : k \in S
  <2>1. Len(s) \in Nat
    OBVIOUS
  <2> HIDE DEF S
  <2> QED BY <1>1, <1>2, <2>1, UpTo, Zenon
<1> QED BY <1>3 DEF IsEval

(* The community modules' FoldLeft, as FromBE and FromBytes use it. *)
FoldsTo(s, D, it) ==
  it = [S \in SUBSET D |-> IF S = {} THEN 0 ELSE it[S \ {Max(S)}] * 256 + s[Max(S)]]

LEMMA MaxUpTo ==
  ASSUME NEW m \in Nat, NEW S \in SUBSET (1 .. m + 1), m + 1 \in S
  PROVE  Max(S) = m + 1
<1>1. \A x \in S : (\A y \in S : x >= y) <=> x = m + 1
  OBVIOUS
<1> QED BY <1>1 DEF Max

LEMMA FoldExists ==
  ASSUME NEW s, NEW n \in Nat
  PROVE  \E it : FoldsTo(s, 1 .. n, it)
<1> DEFINE T == {m \in 0 .. n : \E it : FoldsTo(s, 1 .. m, it)}
<1>1. 0 \in T
  <2> DEFINE it == [S \in SUBSET (1 .. 0) |-> 0]
  <2>1. \A S \in SUBSET (1 .. 0) : S = {}
    OBVIOUS
  <2>2. FoldsTo(s, 1 .. 0, it)
    BY <2>1 DEF FoldsTo
  <2> HIDE DEF it
  <2> QED BY <2>2
<1>2. ASSUME NEW m \in 0 .. n - 1, m \in T PROVE m + 1 \in T
  <2>1. PICK it : FoldsTo(s, 1 .. m, it)
    BY <1>2
  <2> DEFINE D == SUBSET (1 .. m + 1)
             next == [S \in D |-> IF m + 1 \in S THEN it[S \ {m + 1}] * 256 + s[m + 1] ELSE it[S]]
  <2>2. ASSUME NEW S \in D, m + 1 \in S
        PROVE  next[S] = IF S = {} THEN 0 ELSE next[S \ {Max(S)}] * 256 + s[Max(S)]
    <3>1. Max(S) = m + 1
      BY <2>2, MaxUpTo
    <3>2. S \ {m + 1} \in D /\ m + 1 \notin S \ {m + 1} /\ S # {}
      BY <2>2
    <3>3. next[S] = it[S \ {m + 1}] * 256 + s[m + 1] /\ next[S \ {m + 1}] = it[S \ {m + 1}]
      BY <2>2, <3>2
    <3> QED BY <3>1, <3>2, <3>3
  <2>3. ASSUME NEW S \in D, m + 1 \notin S
        PROVE  next[S] = IF S = {} THEN 0 ELSE next[S \ {Max(S)}] * 256 + s[Max(S)]
    <3>1. S \in SUBSET (1 .. m)
      BY <2>3
    <3>2. it[S] = IF S = {} THEN 0 ELSE it[S \ {Max(S)}] * 256 + s[Max(S)]
      BY <2>1, <3>1 DEF FoldsTo
    <3>3. next[S] = it[S] /\ next[S \ {Max(S)}] = it[S \ {Max(S)}]
      BY <2>3
    <3> QED BY <3>2, <3>3
  <2>4. FoldsTo(s, 1 .. m + 1, next)
    <3>1. next = [S \in D |-> IF S = {} THEN 0 ELSE next[S \ {Max(S)}] * 256 + s[Max(S)]]
      BY <2>2, <2>3
    <3> QED BY <3>1 DEF FoldsTo
  <2> HIDE DEF next
  <2> QED BY <2>4
<1>3. n \in T
  <2>1. \A m \in 0 .. n - 1 : m \in T => m + 1 \in T
    BY <1>2
  <2> HIDE DEF T
  <2>2. \A k \in 0 .. n : k \in T
    BY <1>1, <2>1, UpTo, Zenon
  <2> QED BY <2>2
<1> QED BY <1>3

(* The fold is the value at the end of the evaluation. *)
LEMMA FoldIsEval ==
  ASSUME NEW s \in Seq(Nat), NEW v, IsEval(v, s, 256), NEW it, FoldsTo(s, DOMAIN s, it)
  PROVE  it[DOMAIN s] = v[Len(s)]
<1> DEFINE T == {k \in 0 .. Len(s) : it[1 .. k] = v[k]}
<1>0. Len(s) \in Nat /\ DOMAIN s = 1 .. Len(s)
  OBVIOUS
<1>1. 0 \in T
  <2>1. 1 .. 0 = {} /\ {} \in SUBSET (DOMAIN s)
    OBVIOUS
  <2>2. it[{}] = 0
    BY <2>1 DEF FoldsTo
  <2> QED BY <1>0, <2>1, <2>2 DEF IsEval
<1>2. ASSUME NEW k \in 0 .. Len(s) - 1, k \in T PROVE k + 1 \in T
  <2> DEFINE S == 1 .. k + 1
  <2>0. k \in Nat /\ k + 1 \in 1 .. Len(s)
    BY <1>0
  <2>1. S \in SUBSET (DOMAIN s) /\ S # {} /\ S \ {k + 1} = 1 .. k
    <3>1. \A x \in S : x \in 1 .. Len(s)
      BY <1>0, <2>0
    <3>2. k + 1 \in S
      BY <2>0
    <3>3. \A x : x \in S \ {k + 1} <=> x \in 1 .. k
      BY <2>0
    <3> QED BY <1>0, <3>1, <3>2, <3>3, Zenon
  <2>2. Max(S) = k + 1
    BY <2>0, MaxUpTo
  <2>3. it[S] = it[1 .. k] * 256 + s[k + 1]
    <3> HIDE DEF S
    <3>1. it[S] = IF S = {} THEN 0 ELSE it[S \ {Max(S)}] * 256 + s[Max(S)]
      BY <2>1 DEF FoldsTo
    <3> QED BY <2>1, <2>2, <3>1
  <2>4. v[k + 1] = v[k] * 256 + s[k + 1]
    BY DEF IsEval
  <2> QED BY <1>2, <2>3, <2>4
<1>3. \A k \in 0 .. Len(s) : k \in T
  <2>1. \A k \in 0 .. Len(s) - 1 : k \in T => k + 1 \in T
    BY <1>2
  <2> HIDE DEF T
  <2> QED BY <1>0, <1>1, <2>1, UpTo, Zenon
<1> QED BY <1>0, <1>3

LEMMA FromBEEval ==
  ASSUME NEW s \in Seq(Nat), NEW v, IsEval(v, s, 256)
  PROVE  FromBE(s) = v[Len(s)]
<1> DEFINE it == CHOOSE f : FoldsTo(s, DOMAIN s, f)
<1>1. Len(s) \in Nat /\ DOMAIN s = 1 .. Len(s)
  OBVIOUS
<1>2. FoldsTo(s, DOMAIN s, it)
  BY <1>1, FoldExists
<1>3. FromBE(s) = it[DOMAIN s]
  BY DEF FromBE, FoldLeft, MapThenFoldSet, FoldsTo
<1> HIDE DEF it
<1> QED BY <1>2, <1>3, FoldIsEval

LEMMA FromBytesEval ==
  ASSUME NEW s
  PROVE  RustPack!FromBytes(s) = FromBE(s) % P
BY DEF FromBE, FoldLeft, MapThenFoldSet, Max, RustPack!FromBytes, RustPack!FoldLeft,
       RustPack!MapThenFoldSet, RustPack!Max
-----------------------------------------------------------------------------
(* Sequences. *)

LEMMA SeqWiden ==
  ASSUME NEW D, NEW E, D \subseteq E, NEW s \in Seq(D)
  PROVE  s \in Seq(E)
<1>1. s \in [1 .. Len(s) -> E] /\ Len(s) \in Nat
  OBVIOUS
<1> QED BY <1>1

LEMMA ConcatElements ==
  ASSUME NEW D, NEW a \in Seq(D), NEW b \in Seq(D)
  PROVE  /\ a \o b \in Seq(D) /\ Len(a) \in Nat /\ Len(b) \in Nat
         /\ Len(a \o b) = Len(a) + Len(b) /\ DOMAIN (a \o b) = 1 .. Len(a) + Len(b)
         /\ \A k \in 1 .. Len(a) : (a \o b)[k] = a[k]
         /\ \A k \in 1 .. Len(b) : (a \o b)[Len(a) + k] = b[k]
OBVIOUS

LEMMA ConcatIs ==
  ASSUME NEW D, NEW a \in Seq(D), NEW b \in Seq(D), NEW w \in Seq(D), Len(w) = Len(a) + Len(b),
         \A k \in 1 .. Len(a) : w[k] = a[k], \A k \in 1 .. Len(b) : w[Len(a) + k] = b[k]
  PROVE  w = a \o b
<1> DEFINE m == Len(a)  n == Len(b)  c == a \o b
<1>1. /\ m \in Nat /\ n \in Nat /\ c \in Seq(D) /\ Len(c) = m + n
      /\ (\A k \in 1 .. m : c[k] = a[k]) /\ (\A k \in 1 .. n : c[m + k] = b[k])
  BY ConcatElements
<1> HIDE DEF c
<1>2. ASSUME NEW k \in 1 .. m + n PROVE w[k] = c[k]
  <2>1. CASE k \in 1 .. m
    BY <1>1, <2>1
  <2>2. CASE k \notin 1 .. m
    <3> DEFINE j == k - m
    <3>1. j \in 1 .. n /\ k = m + j
      BY <1>1, <2>2
    <3> HIDE DEF j
    <3> QED BY <1>1, <3>1
  <2> QED BY <2>1, <2>2
<1>3. Len(w) = Len(c) /\ \A k \in 1 .. Len(w) : w[k] = c[k]
  BY <1>1, <1>2
<1>4. w = c
  BY <1>1, <1>3, SeqEqual
<1> QED BY <1>4 DEF c

-----------------------------------------------------------------------------
(* Numbers in a base, the most significant digit first. *)

(* q holds the powers of base up to the n-th. *)
ArePowers(q, base, n) ==
  /\ q \in [0 .. n -> Nat \ {0}]
  /\ q[0] = 1
  /\ \A k \in 0 .. n - 1 : q[k + 1] = base * q[k]

LEMMA EvalStep ==
  ASSUME NEW base \in Nat, NEW s \in Seq(Nat), NEW v, IsEval(v, s, base), NEW k \in 1 .. Len(s)
  PROVE  /\ k \in Nat /\ v[k - 1] \in Nat /\ v[k] \in Nat
         /\ v[k] = v[k - 1] * base + s[k]
<1>1. k \in 0 .. Len(s) /\ k - 1 \in 0 .. Len(s)
  OBVIOUS
<1>2. v[k - 1] \in Nat /\ v[k] \in Nat
  BY <1>1 DEF IsEval
<1> QED BY <1>2 DEF IsEval

LEMMA PowersStep ==
  ASSUME NEW base \in Nat, NEW n \in Nat, NEW q, ArePowers(q, base, n), NEW k \in 0 .. n
  PROVE  /\ q[k] \in Nat \ {0}
         /\ k < n => q[k + 1] = base * q[k]
BY DEF ArePowers

LEMMA BoundStep ==
  ASSUME NEW base \in Nat \ {0}, NEW x \in Nat, NEW y \in Nat, x < y, NEW d \in 0 .. base - 1
  PROVE  x * base + d < base * y
<1>1. (y - 1 - x) * base >= 0
  OBVIOUS
<1>2. (y - 1 - x) * base = base * y - base - x * base
  OBVIOUS
<1>3. x * base \in Int /\ base * y \in Int
  OBVIOUS
<1> QED BY <1>1, <1>2, <1>3

LEMMA EvalBound ==
  ASSUME NEW base \in Nat \ {0}, NEW s \in Seq(0 .. base - 1), NEW v, IsEval(v, s, base),
         NEW q, ArePowers(q, base, Len(s))
  PROVE  \A k \in 0 .. Len(s) : v[k] < q[k]
<1> DEFINE T == {k \in 0 .. Len(s) : v[k] < q[k]}
<1>0. Len(s) \in Nat
  OBVIOUS
<1>1. 0 \in T
  BY <1>0 DEF IsEval, ArePowers
<1>2. ASSUME NEW k \in 0 .. Len(s) - 1, k \in T PROVE k + 1 \in T
  <2>1. k + 1 \in 1 .. Len(s) /\ (k + 1) - 1 = k /\ k \in 0 .. Len(s) /\ k < Len(s)
    BY <1>0
  <2>2. v[k + 1] = v[k] * base + s[k + 1] /\ v[k] \in Nat /\ s[k + 1] \in 0 .. base - 1
    <3> DEFINE j == k + 1
    <3>1. j \in 1 .. Len(s) /\ j - 1 = k
      BY <2>1
    <3> HIDE DEF j
    <3>0. s \in Seq(Nat) /\ base \in Nat /\ s[j] \in 0 .. base - 1
      BY <3>1
    <3>2. v[j] = v[j - 1] * base + s[j] /\ v[j - 1] \in Nat
      BY <3>0, <3>1, EvalStep
    <3> QED BY <3>0, <3>1, <3>2 DEF j
  <2>3. q[k + 1] = base * q[k] /\ q[k] \in Nat
    BY <1>0, <2>1, PowersStep
  <2>4. v[k] < q[k]
    BY <1>2
  <2>5. v[k] * base + s[k + 1] < base * q[k]
    BY <2>2, <2>3, <2>4, BoundStep
  <2> QED BY <2>1, <2>2, <2>3, <2>5
<1>3. \A k \in 0 .. Len(s) : k \in T
  <2>1. \A k \in 0 .. Len(s) - 1 : k \in T => k + 1 \in T
    BY <1>2
  <2> HIDE DEF T
  <2> QED BY <1>0, <1>1, <2>1, UpTo, Zenon
<1> QED BY <1>3

(* Dividing by a power of the base drops the lower digits. *)
LEMMA EvalPrefix ==
  ASSUME NEW base \in Nat \ {0}, NEW s \in Seq(0 .. base - 1), NEW v, IsEval(v, s, base),
         NEW q, ArePowers(q, base, Len(s))
  PROVE  \A j \in 0 .. Len(s) : v[Len(s)] \div q[j] = v[Len(s) - j]
<1> DEFINE n == Len(s)
           T == {j \in 0 .. n : v[n] \div q[j] = v[n - j]}
<1>0. n \in Nat /\ v \in [0 .. n -> Nat]
  BY DEF IsEval
<1>1. 0 \in T
  <2>1. v[n] \in Nat /\ q[0] = 1
    BY <1>0 DEF ArePowers
  <2>2. v[n] \div 1 = v[n]
    BY <2>1
  <2> QED BY <1>0, <2>1, <2>2
<1>2. ASSUME NEW j \in 0 .. n - 1, j \in T PROVE j + 1 \in T
  <2> DEFINE k == n - j
  <2>1. k \in 1 .. n /\ k - 1 \in 0 .. n
    BY <1>0
  <2>2. v[k] = v[k - 1] * base + s[k] /\ v[k - 1] \in Nat /\ v[k] \in Nat /\ s[k] \in 0 .. base - 1
    BY <2>1, EvalStep
  <2>3. v[n] \in Nat
    BY <1>0
  <2>4. v[k] \div base = v[k - 1]
    <3> DEFINE x == v[k]  y == v[k - 1]  d == s[k]
    <3>1. x = y * base + d /\ y \in Int /\ x \in Int /\ d \in 0 .. base - 1
      BY <2>2
    <3> HIDE DEF x, y, d
    <3>2. x \div base = y
      BY <3>1, DivModUnique
    <3> QED BY <3>2 DEF x, y
  <2>5. q[j] \in Nat \ {0} /\ q[j + 1] = base * q[j]
    BY DEF ArePowers
  <2>6. q[j] * base = base * q[j]
    BY <2>5
  <2>7. (v[n] \div q[j]) \div base = v[n] \div (q[j] * base)
    BY <2>3, <2>5, DivDiv
  <2>8. v[n] \div q[j + 1] = v[k - 1]
    BY <1>2, <2>4, <2>5, <2>6, <2>7
  <2>9. k - 1 = n - (j + 1) /\ j + 1 \in 0 .. n
    BY <1>0
  <2> QED BY <2>8, <2>9
<1>3. \A j \in 0 .. n : j \in T
  <2>1. \A j \in 0 .. n - 1 : j \in T => j + 1 \in T
    BY <1>2
  <2> HIDE DEF T, n
  <2> QED BY <1>0, <1>1, <2>1, UpTo, Zenon
<1> QED BY <1>3

(* The k-th digit of the value is the k-th element. *)
LEMMA EvalDigit ==
  ASSUME NEW base \in Nat \ {0}, NEW s \in Seq(0 .. base - 1), NEW v, IsEval(v, s, base),
         NEW q, ArePowers(q, base, Len(s)), NEW k \in 1 .. Len(s)
  PROVE  (v[Len(s)] \div q[Len(s) - k]) % base = s[k]
<1>1. v[Len(s)] \div q[Len(s) - k] = v[k]
  <2>1. Len(s) - k \in 0 .. Len(s) /\ Len(s) - (Len(s) - k) = k
    OBVIOUS
  <2>2. v[Len(s)] \div q[Len(s) - k] = v[Len(s) - (Len(s) - k)]
    BY <2>1, EvalPrefix
  <2> QED BY <2>1, <2>2
<1>2. v[k] = v[k - 1] * base + s[k] /\ v[k - 1] \in Nat /\ v[k] \in Nat /\ s[k] \in 0 .. base - 1
  BY EvalStep
<1>3. v[k] % base = s[k]
  <2> DEFINE x == v[k]  y == v[k - 1]  d == s[k]
  <2>1. x = y * base + d /\ y \in Int /\ x \in Int /\ d \in 0 .. base - 1
    BY <1>2
  <2> HIDE DEF x, y, d
  <2>2. x % base = d
    BY <2>1, DivModUnique
  <2> QED BY <2>2 DEF x, d
<1> QED BY <1>1, <1>3

LEMMA EvalInjective ==
  ASSUME NEW base \in Nat \ {0}, NEW s \in Seq(0 .. base - 1), NEW t \in Seq(0 .. base - 1),
         Len(s) = Len(t), NEW q, ArePowers(q, base, Len(s)),
         NEW v, IsEval(v, s, base), NEW w, IsEval(w, t, base), v[Len(s)] = w[Len(t)]
  PROVE  s = t
<1>1. \A k \in 1 .. Len(s) : s[k] = t[k]
  <2> SUFFICES ASSUME NEW k \in 1 .. Len(s) PROVE s[k] = t[k]
    OBVIOUS
  <2>1. (v[Len(s)] \div q[Len(s) - k]) % base = s[k]
    BY EvalDigit
  <2>2. (w[Len(t)] \div q[Len(t) - k]) % base = t[k]
    BY EvalDigit
  <2> QED BY <2>1, <2>2
<1> QED BY <1>1

(* The value of a number written before another one. *)
LEMMA EvalConcat ==
  ASSUME NEW base \in Nat \ {0}, NEW a \in Seq(Nat), NEW b \in Seq(Nat),
         NEW u, IsEval(u, a, base), NEW w, IsEval(w, b, base), NEW v, IsEval(v, a \o b, base),
         NEW q, ArePowers(q, base, Len(b))
  PROVE  v[Len(a) + Len(b)] = u[Len(a)] * q[Len(b)] + w[Len(b)]
<1>0. Len(a) \in Nat /\ Len(b) \in Nat /\ Len(a \o b) = Len(a) + Len(b) /\ a \o b \in Seq(Nat)
  OBVIOUS
<1> DEFINE m == Len(a)  n == Len(b)
           S == {k \in 0 .. m : v[k] = u[k]}
           T == {k \in 0 .. n : v[m + k] = u[m] * q[k] + w[k]}
<1>1. \A k \in 1 .. m : (a \o b)[k] = a[k]
  OBVIOUS
<1>2. \A k \in 1 .. n : (a \o b)[m + k] = b[k]
  OBVIOUS
<1>3. \A k \in 0 .. m : k \in S
  <2>1. 0 \in S
    BY <1>0 DEF IsEval
  <2>2. \A k \in 0 .. m - 1 : k \in S => k + 1 \in S
    BY <1>0, <1>1 DEF IsEval
  <2> HIDE DEF S, m
  <2> QED BY <1>0, <2>1, <2>2, UpTo, Zenon DEF m
<1>4. v[m] = u[m] /\ u[m] \in Nat
  BY <1>0, <1>3 DEF IsEval
<1>5. \A k \in 0 .. n : k \in T
  <2>1. 0 \in T
    <3>1. q[0] = 1 /\ w[0] = 0 /\ m + 0 = m
      BY <1>0 DEF IsEval, ArePowers
    <3> QED BY <1>0, <1>4, <3>1
  <2>2. ASSUME NEW k \in 0 .. n - 1, k \in T PROVE k + 1 \in T
    <3>1. v[m + (k + 1)] = v[m + k] * base + b[k + 1]
      <4>1. m + (k + 1) \in 1 .. Len(a \o b) /\ (m + (k + 1)) - 1 = m + k /\ k + 1 \in 1 .. n
        BY <1>0
      <4> QED BY <1>2, <4>1 DEF IsEval
    <3>0. k + 1 \in 1 .. n /\ (k + 1) - 1 = k /\ k \in 0 .. n /\ k < n
      BY <1>0
    <3>2. w[k + 1] = w[k] * base + b[k + 1] /\ w[k] \in Nat
      <4> DEFINE j == k + 1
      <4>1. j \in 1 .. Len(b) /\ j - 1 = k
        BY <3>0
      <4> HIDE DEF j
      <4>2. w[j] = w[j - 1] * base + b[j] /\ w[j - 1] \in Nat
        BY <4>1, EvalStep
      <4> QED BY <4>1, <4>2 DEF j
    <3>3. q[k + 1] = base * q[k] /\ q[k] \in Nat
      BY <1>0, <3>0, PowersStep
    <3>4. v[m + k] = u[m] * q[k] + w[k]
      BY <2>2
    <3>5. b[k + 1] \in Nat
      OBVIOUS
    <3>6. (u[m] * q[k] + w[k]) * base + b[k + 1] = u[m] * (base * q[k]) + (w[k] * base + b[k + 1])
      BY <1>4, <3>2, <3>3, <3>5
    <3> QED BY <3>1, <3>2, <3>3, <3>4, <3>6
  <2>3. \A k \in 0 .. n - 1 : k \in T => k + 1 \in T
    BY <2>2
  <2> HIDE DEF T, n
  <2> QED BY <1>0, <2>1, <2>3, UpTo, Zenon DEF n
<1> QED BY <1>0, <1>5
-----------------------------------------------------------------------------
(* The circuit's arithmetic: in the field, and without wrapping where it   *)
(* matters.                                                                *)

LEMMA Field == P \in Nat \ {0} /\ P \in Nat /\ P \in Int
BY CircuitAssumption

LEMMA ModMultiple ==
  ASSUME NEW x \in Nat, NEW k \in Nat
  PROVE  (x + k * P) % P = x % P
<1> DEFINE d == x \div P
           m == x % P
<1>1. d \in Nat /\ m \in 0 .. P - 1 /\ x = d * P + m
  BY Field, DivMod
<1> HIDE DEF d, m
<1>2. x + k * P = (d + k) * P + m /\ d + k \in Int
  BY <1>1, Field
<1>3. x + k * P \in Int
  BY <1>1, <1>2, Field
<1>4. (x + k * P) % P = m
  BY <1>1, <1>2, <1>3, Field, DivModUnique
<1> QED BY <1>4 DEF m

LEMMA ModStep ==
  ASSUME NEW x \in Nat, NEW base \in Nat, NEW c \in Nat
  PROVE  ((x % P) * base + c) % P = (x * base + c) % P
<1> DEFINE d == x \div P
           m == x % P
<1>1. d \in Nat /\ m \in 0 .. P - 1 /\ x = d * P + m
  BY Field, DivMod
<1> HIDE DEF d, m
<1>2. x * base + c = (m * base + c) + (d * base) * P
  BY <1>1, Field
<1>3. m * base + c \in Nat /\ d * base \in Nat
  BY <1>1, Field
<1>4. (x * base + c) % P = (m * base + c) % P
  BY <1>2, <1>3, ModMultiple
<1> QED BY <1>4 DEF m

LEMMA HornerEval ==
  ASSUME NEW s \in Seq(Nat), NEW base \in Nat, NEW v, IsEval(v, s, base)
  PROVE  Horner(s, base) = v[Len(s)] % P
<1> DEFINE n == Len(s)
           Steps(f) == f = [k \in 0 .. n |-> IF k = 0 THEN 0 ELSE (f[k - 1] * base + s[k]) % P]
           acc == CHOOSE f : Steps(f)
           g == [k \in 0 .. n |-> v[k] % P]
<1>0. n \in Nat
  OBVIOUS
<1>1. \A k \in 1 .. n : (g[k - 1] * base + s[k]) % P = g[k]
  <2> SUFFICES ASSUME NEW k \in 1 .. n PROVE (g[k - 1] * base + s[k]) % P = g[k]
    OBVIOUS
  <2>1. v[k - 1] \in Nat /\ v[k] = v[k - 1] * base + s[k] /\ s[k] \in Nat
    BY EvalStep
  <2>2. ((v[k - 1] % P) * base + s[k]) % P = (v[k - 1] * base + s[k]) % P
    BY <2>1, ModStep
  <2>3. g[k - 1] = v[k - 1] % P /\ g[k] = v[k] % P
    BY <1>0
  <2> QED BY <2>1, <2>2, <2>3
<1>2. g[0] = 0
  <2>1. v[0] = 0 /\ 0 % P = 0
    BY Field, DivModUnique, 0 = 0 * P + 0 DEF IsEval
  <2> QED BY <1>0, <2>1
<1>3. Steps(g)
  <2>1. \A k \in 0 .. n : g[k] = IF k = 0 THEN 0 ELSE (g[k - 1] * base + s[k]) % P
    <3> SUFFICES ASSUME NEW k \in 0 .. n, k # 0
                 PROVE  g[k] = (g[k - 1] * base + s[k]) % P
      BY <1>2
    <3>1. k \in 1 .. n
      BY <1>0
    <3> HIDE DEF g
    <3> QED BY <1>1, <3>1
  <2>2. g = [k \in 0 .. n |-> g[k]]
    OBVIOUS
  <2> HIDE DEF g
  <2> QED BY <2>1, <2>2
<1>4. Steps(acc)
  <2> HIDE DEF g, Steps
  <2> QED BY <1>3, Zenon
<1>5. \A k \in 0 .. n : acc[k] = g[k]
  <2> DEFINE T == {k \in 0 .. n : acc[k] = g[k]}
  <2> HIDE DEF acc, g
  <2>1. 0 \in T
    BY <1>0, <1>2, <1>4
  <2>2. \A k \in 0 .. n - 1 : k \in T => k + 1 \in T
    BY <1>0, <1>1, <1>4
  <2>3. \A k \in 0 .. n : k \in T
    <3> HIDE DEF T, n
    <3> QED BY <1>0, <2>1, <2>2, UpTo, Zenon
  <2> QED BY <2>3
<1>6. Horner(s, base) = acc[n]
  BY DEF Horner
<1> HIDE DEF acc
<1> QED BY <1>0, <1>5, <1>6

LEMMA SmallMod ==
  ASSUME NEW x \in Nat, x < P
  PROVE  x % P = x
BY Field, DivModUnique, x = 0 * P + x

LEMMA PowersUpTo ==
  ASSUME NEW base \in {10, 256}, NEW n \in Nat,
         \A k \in 0 .. n - 1 : base ^ (k + 1) = base * base ^ k
  PROVE  ArePowers([k \in 0 .. n |-> base ^ k], base, n)
<1> DEFINE T == {k \in 0 .. n : base ^ k \in Nat \ {0}}
<1>1. base ^ 0 = 1 /\ base \in Nat \ {0}
  <2>1. CASE base = 10
    BY <2>1
  <2>2. CASE base = 256
    BY <2>2
  <2> QED BY <2>1, <2>2
<1>2. ASSUME NEW k \in 0 .. n - 1, k \in T PROVE k + 1 \in T
  <2> DEFINE x == base ^ k
  <2>1. x \in Nat \ {0} /\ base ^ (k + 1) = base * x
    BY <1>2
  <2> HIDE DEF x
  <2>2. base * x \in Nat \ {0}
    BY <1>1, <2>1
  <2> QED BY <2>1, <2>2
<1>3. \A k \in 0 .. n : k \in T
  <2>1. \A k \in 0 .. n - 1 : k \in T => k + 1 \in T
    BY <1>2
  <2>2. 0 \in T
    BY <1>1
  <2> HIDE DEF T
  <2> QED BY <2>1, <2>2, UpTo, Zenon
<1> QED BY <1>1, <1>3 DEF ArePowers
-----------------------------------------------------------------------------
(* The bits of a byte. *)

LEMMA EightBits ==
  ASSUME NEW b \in Byte
  PROVE  LET t == bits_le(b)
         IN  /\ \A k \in 0 .. 7 : t[k] \in {0, 1}
             /\ b = t[0] + 2 * t[1] + 4 * t[2] + 8 * t[3] + 16 * t[4] + 32 * t[5]
                      + 64 * t[6] + 128 * t[7]
<1> DEFINE t == bits_le(b)
<1>0. b \in 0 .. 255
  BY DEF Byte
<1>1. /\ 2 ^ 0 = 1 /\ 2 ^ 1 = 2 /\ 2 ^ 2 = 4 /\ 2 ^ 3 = 8
      /\ 2 ^ 4 = 16 /\ 2 ^ 5 = 32 /\ 2 ^ 6 = 64 /\ 2 ^ 7 = 128
  OBVIOUS
<1>2. /\ t[0] = (b \div 1) % 2 /\ t[1] = (b \div 2) % 2
      /\ t[2] = (b \div 4) % 2 /\ t[3] = (b \div 8) % 2
      /\ t[4] = (b \div 16) % 2 /\ t[5] = (b \div 32) % 2
      /\ t[6] = (b \div 64) % 2 /\ t[7] = (b \div 128) % 2
  BY <1>1 DEF bits_le
<1>3. /\ t[0] \in {0, 1} /\ t[1] \in {0, 1} /\ t[2] \in {0, 1} /\ t[3] \in {0, 1}
      /\ t[4] \in {0, 1} /\ t[5] \in {0, 1} /\ t[6] \in {0, 1} /\ t[7] \in {0, 1}
  BY <1>0, <1>2
<1>4. b = t[0] + 2 * t[1] + 4 * t[2] + 8 * t[3] + 16 * t[4] + 32 * t[5] + 64 * t[6] + 128 * t[7]
  BY <1>0, <1>2
<1> QED BY <1>3, <1>4

LEMMA Nibbles ==
  ASSUME NEW b \in Byte
  PROVE  LET t == bits_le(b)
         IN  /\ nibble_value(Low(t)) = b % 16 /\ nibble_value(High(t)) = b \div 16
             /\ nibble_ge_ten(Low(t)) = (IF b % 16 >= 10 THEN 1 ELSE 0)
             /\ nibble_ge_ten(High(t)) = (IF b \div 16 >= 10 THEN 1 ELSE 0)
             /\ b % 16 \in 0 .. 15 /\ b \div 16 \in 0 .. 15
<1> DEFINE t == bits_le(b)
           l == t[0] + 2 * t[1] + 4 * t[2] + 8 * t[3]
           h == t[4] + 2 * t[5] + 4 * t[6] + 8 * t[7]
<1>1. /\ t[0] \in {0, 1} /\ t[1] \in {0, 1} /\ t[2] \in {0, 1} /\ t[3] \in {0, 1}
      /\ t[4] \in {0, 1} /\ t[5] \in {0, 1} /\ t[6] \in {0, 1} /\ t[7] \in {0, 1}
  BY EightBits
<1>2. b = l + 16 * h
  <2>1. b = t[0] + 2 * t[1] + 4 * t[2] + 8 * t[3] + 16 * t[4] + 32 * t[5] + 64 * t[6] + 128 * t[7]
    BY EightBits
  <2> HIDE DEF t
  <2> QED BY <1>1, <2>1
<1>3. /\ nibble_value(Low(t)) = l /\ nibble_value(High(t)) = h
      /\ nibble_ge_ten(Low(t)) = (IF t[3] = 1 /\ (t[2] = 1 \/ t[1] = 1) THEN 1 ELSE 0)
      /\ nibble_ge_ten(High(t)) = (IF t[7] = 1 /\ (t[6] = 1 \/ t[5] = 1) THEN 1 ELSE 0)
  <2> HIDE DEF t
  <2> QED BY DEF nibble_value, nibble_ge_ten, Low, High
<1> HIDE DEF t
<1>4. l \in 0 .. 15 /\ h \in 0 .. 15
  BY <1>1
<1>5. b % 16 = l /\ b \div 16 = h
  <2> HIDE DEF l, h
  <2> QED BY <1>2, <1>4
<1>6. /\ (t[3] = 1 /\ (t[2] = 1 \/ t[1] = 1)) <=> l >= 10
      /\ (t[7] = 1 /\ (t[6] = 1 \/ t[5] = 1)) <=> h >= 10
  BY <1>1
<1> QED BY <1>3, <1>4, <1>5, <1>6 DEF t

(* A byte the digit constraints accept is the code of its low nibble. *)
LEMMA DigitByte ==
  ASSUME NEW b \in Byte, ascii_digit(b)
  PROVE  LET d == nibble_value(Low(bits_le(b))) IN d \in 0 .. 9 /\ b = 48 + d
<1> DEFINE t == bits_le(b)
<1>1. t[7] = 0 /\ t[6] = 0 /\ t[5] = 1 /\ t[4] = 1 /\ nibble_ge_ten(Low(t)) = 0
  BY DEF ascii_digit
<1>2. nibble_value(High(t)) = 3
  <2> HIDE DEF t
  <2> QED BY <1>1 DEF nibble_value, High
<1>3. /\ nibble_value(Low(t)) = b % 16 /\ b \div 16 = 3 /\ b % 16 \in 0 .. 15
      /\ nibble_ge_ten(Low(t)) = (IF b % 16 >= 10 THEN 1 ELSE 0)
  BY <1>2, Nibbles
<1>4. b % 16 < 10
  BY <1>1, <1>3
<1>5. b = 48 + (b % 16)
  <2> DEFINE q == b \div 16
             m == b % 16
  <2>1. q = 3 /\ m \in 0 .. 15 /\ b = q * 16 + m
    BY <1>3 DEF Byte
  <2> HIDE DEF q, m
  <2>2. b = 48 + m
    BY <2>1
  <2> QED BY <2>2 DEF m
<1> DEFINE d == nibble_value(Low(t))
<1>6. d = b % 16
  BY <1>3
<1> HIDE DEF d, t
<1>7. d \in 0 .. 9 /\ b = 48 + d
  BY <1>3, <1>4, <1>5, <1>6
<1> QED BY <1>7 DEF d, t

LEMMA ByteOfDigit ==
  ASSUME NEW d \in 0 .. 9
  PROVE  ascii_digit(48 + d) /\ nibble_value(Low(bits_le(48 + d))) = d /\ 48 + d \in Byte
<1> DEFINE b == 48 + d
           t == bits_le(b)
<1>0. b \in Byte /\ b \div 16 = 3 /\ b % 16 = d
  BY DEF Byte
<1> HIDE DEF b
<1>1. nibble_value(Low(t)) = d /\ nibble_value(High(t)) = 3 /\ nibble_ge_ten(Low(t)) = 0
  BY <1>0, Nibbles
<1>2. t[4] + 2 * t[5] + 4 * t[6] + 8 * t[7] = 3
  <2> HIDE DEF t
  <2> QED BY <1>1 DEF nibble_value, High
<1>3. t[4] \in {0, 1} /\ t[5] \in {0, 1} /\ t[6] \in {0, 1} /\ t[7] \in {0, 1}
  BY <1>0, EightBits
<1>4. t[7] = 0 /\ t[6] = 0 /\ t[5] = 1 /\ t[4] = 1
  <2> HIDE DEF t
  <2> QED BY <1>2, <1>3
<1>5. ascii_digit(b)
  BY <1>1, <1>4 DEF ascii_digit
<1> QED BY <1>0, <1>1, <1>5 DEF b

(* The circuit's hexadecimal character is the native one. *)
LEMMA HexNibbles ==
  ASSUME NEW b \in Byte
  PROVE  /\ nibble_hex_char(High(bits_le(b))) = HexChar(b \div 16)
         /\ nibble_hex_char(Low(bits_le(b))) = HexChar(b % 16)
BY Nibbles DEF nibble_hex_char, HexChar
-----------------------------------------------------------------------------
(* The layout of the call data and of the text. *)

LEMMA Layout ==
  /\ Len(SELECTOR) \in Nat /\ Len(PREFIX) \in Nat /\ Len(MIDDLE) \in Nat
  /\ TO_BYTES \in Nat /\ AMOUNT_BYTES \in Nat /\ AMOUNT_INT_DIGITS \in Nat
  /\ AMOUNT_FRAC_DIGITS \in Nat /\ TEXT_BYTES \in Nat
  /\ TO_POS \in Nat /\ Len(SELECTOR) <= TO_POS
  /\ SLOT_POS = TO_POS + TO_BYTES
  /\ AMOUNT_POS \in Nat /\ SLOT_POS <= AMOUNT_POS
  /\ CALLDATA_BYTES = AMOUNT_POS + AMOUNT_BYTES
  /\ INT_POS = Len(PREFIX)
  /\ DOT_POS = INT_POS + AMOUNT_INT_DIGITS
  /\ FRAC_POS = DOT_POS + 1
  /\ MIDDLE_POS = FRAC_POS + AMOUNT_FRAC_DIGITS
  /\ HEX_POS = MIDDLE_POS + Len(MIDDLE)
  /\ HEX_END = HEX_POS + 2 * TO_BYTES
  /\ HEX_END <= TEXT_BYTES
<1>1. Len(SELECTOR) \in Nat /\ Len(PREFIX) \in Nat /\ Len(MIDDLE) \in Nat
  BY TemplateAssumption
<1>2. /\ TO_PADDING \in Nat /\ TO_BYTES \in Nat /\ AMOUNT_PADDING \in Nat /\ AMOUNT_BYTES \in Nat
      /\ AMOUNT_INT_DIGITS \in Nat /\ AMOUNT_FRAC_DIGITS \in Nat /\ TEXT_BYTES \in Nat
      /\ HEX_END <= TEXT_BYTES
  BY TemplateAssumption
<1> QED BY <1>1, <1>2 DEF TO_POS, SLOT_POS, AMOUNT_POS, CALLDATA_BYTES, INT_POS, DOT_POS,
                          FRAC_POS, MIDDLE_POS, HEX_POS, HEX_END

LEMMA PartFacts ==
  ASSUME NEW D, NEW s \in Seq(D), NEW from \in Nat, NEW to \in Nat, from <= to, to <= Len(s)
  PROVE  /\ Part(s, from, to) \in Seq(D) /\ Len(Part(s, from, to)) = to - from
         /\ \A k \in 1 .. to - from : Part(s, from, to)[k] = s[from + k]
<1>1. Part(s, from, to) = [k \in 1 .. to - from |-> s[from + k]]
  BY DEF Part
<1>2. \A k \in 1 .. to - from : s[from + k] \in D
  OBVIOUS
<1>3. to - from \in Nat
  OBVIOUS
<1> QED BY <1>1, <1>2, <1>3

-----------------------------------------------------------------------------
(* The amount. *)

LEMMA TenPowers ==
  ASSUME NEW n \in 0 .. AMOUNT_DIGITS
  PROVE  ArePowers([k \in 0 .. n |-> 10 ^ k], 10, n)
<1>1. \A k \in 0 .. n - 1 : 10 ^ (k + 1) = 10 * 10 ^ k
  <2>1. AMOUNT_DIGITS \in Nat
    BY TemplateAssumption DEF AMOUNT_DIGITS
  <2>2. \A k \in 0 .. n - 1 : k \in 0 .. AMOUNT_DIGITS - 1
    BY <2>1
  <2> QED BY <2>2, PowerAssumption
<1>2. n \in Nat
  OBVIOUS
<1> QED BY <1>1, <1>2, PowersUpTo

LEMMA BytePowers ==
  /\ ArePowers([k \in 0 .. AMOUNT_BYTES |-> 256 ^ k], 256, AMOUNT_BYTES)
  /\ ArePowers([k \in 0 .. CHUNK |-> 256 ^ k], 256, CHUNK)
<1>1. AMOUNT_BYTES \in Nat /\ CHUNK \in Nat
  BY TemplateAssumption, CircuitAssumption
<1>2. \A k \in 0 .. AMOUNT_BYTES - 1 : 256 ^ (k + 1) = 256 * 256 ^ k
  BY PowerAssumption
<1>3. \A k \in 0 .. CHUNK - 1 : 256 ^ (k + 1) = 256 * 256 ^ k
  BY PowerAssumption
<1> QED BY <1>1, <1>2, <1>3, PowersUpTo

(* The value of n bytes, or digits, that the field has room for. *)
LEMMA HornerExact ==
  ASSUME NEW base \in {10, 256}, NEW s \in Seq(0 .. base - 1), NEW v, IsEval(v, s, base),
         ArePowers([k \in 0 .. Len(s) |-> base ^ k], base, Len(s)), base ^ Len(s) <= P
  PROVE  /\ Horner(s, base) = v[Len(s)] /\ v[Len(s)] \in Nat /\ v[Len(s)] < base ^ Len(s)
<1> DEFINE q == [k \in 0 .. Len(s) |-> base ^ k]
<1>1. Len(s) \in Nat /\ s \in Seq(Nat) /\ base \in Nat \ {0}
  OBVIOUS
<1>2. v[Len(s)] < q[Len(s)] /\ q[Len(s)] = base ^ Len(s)
  <2>1. q[Len(s)] = base ^ Len(s)
    BY <1>1
  <2>2. ArePowers(q, base, Len(s))
    OBVIOUS
  <2> HIDE DEF q
  <2> QED BY <1>1, <2>1, <2>2, EvalBound
<1>3. v[Len(s)] \in Nat
  BY <1>1 DEF IsEval
<1>4. q[Len(s)] \in Nat
  <2>1. ArePowers(q, base, Len(s))
    OBVIOUS
  <2> HIDE DEF q
  <2> QED BY <1>1, <2>1 DEF ArePowers
<1>5. v[Len(s)] < P
  BY <1>2, <1>3, <1>4, Field
<1>6. Horner(s, base) = v[Len(s)] % P
  BY <1>1, HornerEval
<1> QED BY <1>2, <1>3, <1>5, <1>6, SmallMod

(* Two ways to write the amount: bytes of the call data, digits of text.   *)
Same(c, t, amount, unit) ==
  /\ amount \in Nat /\ amount < AMOUNT_MAX
  /\ \A k \in 1 .. AMOUNT_INT_DIGITS :
       t[INT_POS + k] = 48 + Digits(amount \div unit, 10, AMOUNT_INT_DIGITS)[k]
  /\ \A k \in 1 .. AMOUNT_FRAC_DIGITS :
       t[FRAC_POS + k] = 48 + Digits(amount % unit, 10, AMOUNT_FRAC_DIGITS)[k]

LEMMA AmountBytes ==
  ASSUME NEW c \in Seq(Byte), Len(c) = CALLDATA_BYTES
  PROVE  /\ Horner(Part(c, AMOUNT_POS, CALLDATA_BYTES), 256)
              = FromBE(Part(c, AMOUNT_POS, CALLDATA_BYTES))
         /\ FromBE(Part(c, AMOUNT_POS, CALLDATA_BYTES)) \in Nat
<1> DEFINE s == Part(c, AMOUNT_POS, CALLDATA_BYTES)
<1>1. s \in Seq(Byte) /\ Len(s) = AMOUNT_BYTES
  <2>1. /\ AMOUNT_POS \in Nat /\ CALLDATA_BYTES \in Nat /\ AMOUNT_POS <= CALLDATA_BYTES
        /\ CALLDATA_BYTES <= Len(c) /\ CALLDATA_BYTES - AMOUNT_POS = AMOUNT_BYTES
    BY Layout
  <2> QED BY <2>1, PartFacts
<1> HIDE DEF s
<1>2. s \in Seq(0 .. 256 - 1) /\ s \in Seq(Nat)
  <2>1. Byte = 0 .. 256 - 1 /\ Byte \subseteq Nat
    BY DEF Byte
  <2> QED BY <1>1, <2>1, SeqWiden
<1>3. PICK v : IsEval(v, s, 256)
  BY <1>2, EvalExists
<1>4. 256 ^ AMOUNT_BYTES <= P
  <2>1. 256 ^ AMOUNT_BYTES \in Int
    BY Layout
  <2> QED BY <2>1, Field, CircuitAssumption
<1>5. Horner(s, 256) = v[Len(s)] /\ v[Len(s)] \in Nat
  BY <1>1, <1>2, <1>3, <1>4, BytePowers, HornerExact
<1>6. FromBE(s) = v[Len(s)]
  BY <1>2, <1>3, FromBEEval
<1> QED BY <1>5, <1>6 DEF s

(* An amount and the digits before and behind its decimal point. *)
Split(da, db, amount) ==
  /\ amount < AMOUNT_MAX
  /\ \A k \in 1 .. Len(da) : da[k] = Digits(amount \div 10 ^ Len(db), 10, Len(da))[k]
  /\ \A k \in 1 .. Len(db) : db[k] = Digits(amount % 10 ^ Len(db), 10, Len(db))[k]

LEMMA DigitsOfEval ==
  ASSUME NEW s \in Seq(0 .. 9), Len(s) <= AMOUNT_DIGITS, NEW v, IsEval(v, s, 10)
  PROVE  \A k \in 1 .. Len(s) : s[k] = Digits(v[Len(s)], 10, Len(s))[k]
<1> DEFINE q == [k \in 0 .. Len(s) |-> 10 ^ k]
<1>1. Len(s) \in 0 .. AMOUNT_DIGITS
  BY TemplateAssumption DEF AMOUNT_DIGITS
<1>2. ArePowers(q, 10, Len(s))
  BY <1>1, TenPowers
<1>3. s \in Seq(0 .. 10 - 1)
  OBVIOUS
<1> SUFFICES ASSUME NEW k \in 1 .. Len(s) PROVE s[k] = Digits(v[Len(s)], 10, Len(s))[k]
  OBVIOUS
<1>4. q[Len(s) - k] = 10 ^ (Len(s) - k)
  BY <1>1
<1>5. (v[Len(s)] \div q[Len(s) - k]) % 10 = s[k]
  <2> HIDE DEF q
  <2> QED BY <1>2, <1>3, EvalDigit
<1> QED BY <1>4, <1>5 DEF Digits

LEMMA EvalLast ==
  ASSUME NEW base \in Nat, NEW s \in Seq(Nat), NEW v, IsEval(v, s, base)
  PROVE  v[Len(s)] \in Nat
<1>1. Len(s) \in 0 .. Len(s)
  OBVIOUS
<1> QED BY <1>1 DEF IsEval

LEMMA DigitsSplit ==
  ASSUME NEW da \in Seq(0 .. 9), NEW db \in Seq(0 .. 9), Len(da) + Len(db) = AMOUNT_DIGITS,
         NEW amount \in Nat, amount = Horner(da \o db, 10)
  PROVE  Split(da, db, amount)
<1> DEFINE m == Len(da)
           n == Len(db)
           s == da \o db
           unit == 10 ^ n
<1>1. /\ m \in Nat /\ n \in Nat /\ s \in Seq(0 .. 9) /\ Len(s) = AMOUNT_DIGITS
      /\ s \in Seq(Nat) /\ da \in Seq(Nat) /\ db \in Seq(Nat)
  <2>1. m \in Nat /\ n \in Nat /\ s \in Seq(0 .. 9) /\ Len(s) = AMOUNT_DIGITS
    BY ConcatElements
  <2>2. 0 .. 9 \subseteq Nat
    OBVIOUS
  <2> QED BY <2>1, <2>2, SeqWiden
<1>2. PICK v : IsEval(v, s, 10)
  BY <1>1, EvalExists
<1>3. PICK u : IsEval(u, da, 10)
  BY <1>1, EvalExists
<1>4. PICK w : IsEval(w, db, 10)
  BY <1>1, EvalExists
<1> DEFINE x == u[m]
           y == w[n]
<1>5. x \in Nat /\ y \in Nat
  BY <1>1, <1>3, <1>4, EvalLast
<1>6. amount = v[Len(s)] /\ amount < AMOUNT_MAX
  <2>1. AMOUNT_DIGITS \in 0 .. AMOUNT_DIGITS
    BY <1>1
  <2>2. ArePowers([k \in 0 .. Len(s) |-> 10 ^ k], 10, Len(s))
    BY <1>1, <2>1, TenPowers
  <2>3. 10 ^ Len(s) <= P
    <3>1. 10 ^ Len(s) \in Int
      BY <1>1
    <3>2. 10 ^ Len(s) \in Nat
      BY <1>1, <2>2 DEF ArePowers
    <3> QED BY <1>1, <3>2, Field, CircuitAssumption
  <2>4. 10 \in {10, 256} /\ s \in Seq(0 .. 10 - 1)
    BY <1>1
  <2> HIDE DEF s
  <2>5. Horner(s, 10) = v[Len(s)] /\ v[Len(s)] < 10 ^ Len(s)
    BY <1>2, <2>2, <2>3, <2>4, HornerExact
  <2> QED BY <1>1, <2>5 DEF AMOUNT_MAX, s
<1>7. ArePowers([k \in 0 .. n |-> 10 ^ k], 10, n)
  <2>1. n \in 0 .. AMOUNT_DIGITS
    BY <1>1
  <2> QED BY <2>1, TenPowers
<1>8. unit \in Nat \ {0} /\ y < unit
  <2> DEFINE q == [k \in 0 .. n |-> 10 ^ k]
  <2>1. q[n] = unit
    BY <1>1
  <2>2. ArePowers(q, 10, n)
    BY <1>7
  <2>3. db \in Seq(0 .. 10 - 1) /\ n \in 0 .. n
    BY <1>1
  <2> HIDE DEF q, unit
  <2>4. q[n] \in Nat \ {0}
    BY <1>1, <2>2, <2>3 DEF ArePowers
  <2>5. w[n] < q[n]
    BY <1>4, <2>2, <2>3, EvalBound
  <2> QED BY <2>1, <2>4, <2>5
<1>9. amount = x * unit + y
  <2> DEFINE q == [k \in 0 .. n |-> 10 ^ k]
  <2>1. q[n] = unit
    BY <1>1
  <2>2. ArePowers(q, 10, n)
    BY <1>7
  <2> HIDE DEF q, unit
  <2>3. v[Len(da) + Len(db)] = u[Len(da)] * q[Len(db)] + w[Len(db)]
    BY <1>1, <1>2, <1>3, <1>4, <2>2, EvalConcat
  <2> QED BY <1>1, <1>6, <2>1, <2>3
<1> HIDE DEF x, y, unit
<1>10. amount \div unit = x /\ amount % unit = y
  <2>1. y \in 0 .. unit - 1 /\ amount \in Int /\ x \in Int
    BY <1>5, <1>8
  <2> QED BY <1>8, <1>9, <2>1, DivModUnique
<1>11. \A k \in 1 .. m : da[k] = Digits(x, 10, m)[k]
  <2>1. m <= AMOUNT_DIGITS
    BY <1>1
  <2> QED BY <1>3, <2>1, DigitsOfEval DEF x
<1>12. \A k \in 1 .. n : db[k] = Digits(y, 10, n)[k]
  <2>1. n <= AMOUNT_DIGITS
    BY <1>1
  <2> QED BY <1>4, <2>1, DigitsOfEval DEF y
<1> QED BY <1>6, <1>10, <1>11, <1>12 DEF Split, unit

LEMMA AmountSound ==
  ASSUME NEW c \in Seq(Byte), Len(c) = CALLDATA_BYTES,
         NEW t \in Seq(Byte), Len(t) = TEXT_BYTES, SameAmount(c, t)
  PROVE  Same(c, t, FromBE(Part(c, AMOUNT_POS, CALLDATA_BYTES)), 10 ^ AMOUNT_FRAC_DIGITS)
<1> DEFINE m == AMOUNT_INT_DIGITS
           n == AMOUNT_FRAC_DIGITS
           A == Part(t, INT_POS, DOT_POS)
           B == Part(t, FRAC_POS, MIDDLE_POS)
           value(b) == nibble_value(Low(bits_le(b)))
           da == [k \in 1 .. m |-> value(A[k])]
           db == [k \in 1 .. n |-> value(B[k])]
           digits == AmountDigits(t)
           values == [k \in DOMAIN digits |-> value(digits[k])]
           amount == FromBE(Part(c, AMOUNT_POS, CALLDATA_BYTES))
<1>1. /\ A \in Seq(Byte) /\ Len(A) = m /\ \A k \in 1 .. m : A[k] = t[INT_POS + k]
      /\ B \in Seq(Byte) /\ Len(B) = n /\ \A k \in 1 .. n : B[k] = t[FRAC_POS + k]
  <2>1. /\ INT_POS \in Nat /\ DOT_POS \in Nat /\ INT_POS <= DOT_POS /\ DOT_POS <= Len(t)
        /\ FRAC_POS \in Nat /\ MIDDLE_POS \in Nat /\ FRAC_POS <= MIDDLE_POS
        /\ MIDDLE_POS <= Len(t) /\ DOT_POS - INT_POS = m /\ MIDDLE_POS - FRAC_POS = n
    BY Layout
  <2>2. A \in Seq(Byte) /\ Len(A) = m /\ \A k \in 1 .. m : A[k] = t[INT_POS + k]
    BY <2>1, PartFacts
  <2>3. B \in Seq(Byte) /\ Len(B) = n /\ \A k \in 1 .. n : B[k] = t[FRAC_POS + k]
    BY <2>1, PartFacts
  <2> QED BY <2>2, <2>3
<1>2. m \in Nat /\ n \in Nat /\ AMOUNT_DIGITS = m + n
  BY Layout DEF AMOUNT_DIGITS
<1>3. digits = A \o B /\ (\A k \in DOMAIN digits : ascii_digit(digits[k]))
  BY DEF SameAmount, AmountDigits
<1>4. Horner(values, 10) = amount /\ amount \in Nat
  <2>1. Horner(values, 10) = Horner(Part(c, AMOUNT_POS, CALLDATA_BYTES), 256)
    BY DEF SameAmount
  <2> QED BY <2>1, AmountBytes
<1> HIDE DEF A, B, digits, amount
<1>5. DOMAIN digits = 1 .. m + n /\ (\A k \in 1 .. m : digits[k] = A[k])
      /\ (\A k \in 1 .. n : digits[m + k] = B[k])
  BY <1>1, <1>3, ConcatElements
<1>6. \A k \in 1 .. m : da[k] \in 0 .. 9 /\ A[k] = 48 + da[k]
  <2> SUFFICES ASSUME NEW k \in 1 .. m PROVE da[k] \in 0 .. 9 /\ A[k] = 48 + da[k]
    OBVIOUS
  <2>1. A[k] \in Byte /\ k \in DOMAIN digits
    BY <1>1, <1>2, <1>5
  <2>2. ascii_digit(A[k])
    BY <1>3, <1>5, <2>1
  <2> QED BY <2>1, <2>2, DigitByte
<1>7. \A k \in 1 .. n : db[k] \in 0 .. 9 /\ B[k] = 48 + db[k]
  <2> SUFFICES ASSUME NEW k \in 1 .. n PROVE db[k] \in 0 .. 9 /\ B[k] = 48 + db[k]
    OBVIOUS
  <2>1. B[k] \in Byte /\ m + k \in DOMAIN digits
    BY <1>1, <1>2, <1>5
  <2>2. ascii_digit(B[k])
    BY <1>3, <1>5, <2>1
  <2> QED BY <2>1, <2>2, DigitByte
<1>8. values = da \o db
  <2>1. Len(da) = m /\ Len(db) = n /\ da \in Seq(0 .. 9) /\ db \in Seq(0 .. 9)
    BY <1>2, <1>6, <1>7
  <2>2. \A k \in 1 .. m : values[k] = da[k]
    BY <1>2, <1>5
  <2>3. \A k \in 1 .. n : values[m + k] = db[k]
    BY <1>2, <1>5
  <2>4. values \in Seq(0 .. 9) /\ Len(values) = m + n
    <3>1. \A k \in 1 .. m + n : values[k] \in 0 .. 9
      <4> SUFFICES ASSUME NEW k \in 1 .. m + n PROVE values[k] \in 0 .. 9
        OBVIOUS
      <4>1. CASE k \in 1 .. m
        BY <1>2, <1>6, <2>2, <4>1
      <4>2. CASE k \notin 1 .. m
        <5>1. PICK j \in 1 .. n : k = m + j
          BY <1>2, <4>2
        <5> QED BY <1>2, <1>7, <2>3, <5>1
      <4> QED BY <4>1, <4>2
    <3>2. DOMAIN values = 1 .. m + n /\ m + n \in Nat
      BY <1>2, <1>5
    <3>3. values \in [1 .. m + n -> 0 .. 9]
      BY <3>1, <3>2
    <3> HIDE DEF values
    <3> QED BY <3>2, <3>3, SeqDef
  <2> HIDE DEF values, da, db, m, n
  <2>5. /\ Len(values) = Len(da) + Len(db)
        /\ (\A k \in 1 .. Len(da) : values[k] = da[k])
        /\ (\A k \in 1 .. Len(db) : values[Len(da) + k] = db[k])
    BY <2>1, <2>2, <2>3, <2>4, Zenon
  <2> DEFINE D == 0 .. 9
  <2>6. da \in Seq(D) /\ db \in Seq(D) /\ values \in Seq(D)
    BY <2>1, <2>4
  <2> HIDE DEF D
  <2> QED BY <2>5, <2>6, ConcatIs
<1>9. /\ da \in Seq(0 .. 9) /\ Len(da) = m /\ db \in Seq(0 .. 9) /\ Len(db) = n
      /\ da \in Seq(Nat) /\ db \in Seq(Nat)
  <2>1. da \in Seq(0 .. 9) /\ Len(da) = m /\ db \in Seq(0 .. 9) /\ Len(db) = n
    BY <1>2, <1>6, <1>7
  <2>2. 0 .. 9 \subseteq Nat
    OBVIOUS
  <2> HIDE DEF da, db
  <2> QED BY <2>1, <2>2, SeqWiden
<1>10. \A k \in 1 .. m : t[INT_POS + k] = 48 + da[k]
  BY <1>1, <1>6
<1>11. \A k \in 1 .. n : t[FRAC_POS + k] = 48 + db[k]
  BY <1>1, <1>7
<1>12. amount = Horner(da \o db, 10) /\ amount \in Nat
  BY <1>4, <1>8
<1> HIDE DEF da, db, values
<1>13. Split(da, db, amount)
  BY <1>2, <1>9, <1>12, DigitsSplit
<1>14. /\ amount \in Nat /\ amount < AMOUNT_MAX
       /\ \A k \in 1 .. m : da[k] = Digits(amount \div 10 ^ n, 10, m)[k]
       /\ \A k \in 1 .. n : db[k] = Digits(amount % 10 ^ n, 10, n)[k]
  BY <1>9, <1>12, <1>13 DEF Split
<1> QED BY <1>10, <1>11, <1>14 DEF Same, amount

-----------------------------------------------------------------------------
(* The circuit is sound: a text that satisfies it is the rendering.        *)

(* A text put together piece by piece. *)
LEMMA PartGrows ==
  ASSUME NEW D, NEW t \in Seq(D), NEW from \in Nat, NEW to \in Nat, from <= to, to <= Len(t),
         NEW b \in Seq(D), Len(b) = to - from,
         \A k \in 1 .. to - from : b[k] = t[from + k]
  PROVE  Part(t, 0, to) = Part(t, 0, from) \o b
<1> DEFINE a == Part(t, 0, from)
<1>1. a \in Seq(D) /\ Len(a) = from /\ \A k \in 1 .. from : a[k] = t[k]
  <2>1. from - 0 = from /\ 0 \in Nat /\ 0 <= from /\ from <= Len(t)
    OBVIOUS
  <2>2. Part(t, 0, from) \in Seq(D) /\ Len(Part(t, 0, from)) = from
    BY <2>1, PartFacts
  <2>3. \A k \in 1 .. from - 0 : Part(t, 0, from)[k] = t[0 + k]
    BY <2>1, PartFacts
  <2> QED BY <2>2, <2>3
<1>3. Part(t, 0, to) \in Seq(D) /\ Len(Part(t, 0, to)) = to
      /\ \A k \in 1 .. to : Part(t, 0, to)[k] = t[k]
  <2>1. to - 0 = to /\ 0 \in Nat /\ 0 <= to
    OBVIOUS
  <2>2. Part(t, 0, to) \in Seq(D) /\ Len(Part(t, 0, to)) = to
    BY <2>1, PartFacts
  <2>3. \A k \in 1 .. to - 0 : Part(t, 0, to)[k] = t[0 + k]
    BY <2>1, PartFacts
  <2> QED BY <2>2, <2>3
<1> DEFINE w == Part(t, 0, to)
<1>4. w \in Seq(D) /\ Len(w) = Len(a) + Len(b)
  BY <1>1, <1>3
<1>5. \A k \in 1 .. Len(a) : w[k] = a[k]
  BY <1>1, <1>3
<1>6. \A k \in 1 .. Len(b) : w[Len(a) + k] = b[k]
  <2> SUFFICES ASSUME NEW k \in 1 .. to - from PROVE w[from + k] = b[k]
    BY <1>1
  <2>1. from + k \in 1 .. to
    OBVIOUS
  <2>2. w[from + k] = t[from + k]
    BY <1>3, <2>1
  <2> QED BY <2>2
<1> HIDE DEF w
<1>7. a \in Seq(D) /\ b \in Seq(D)
  BY <1>1
<1>8. w = a \o b
  BY <1>4, <1>5, <1>6, <1>7, ConcatIs
<1> QED BY <1>8 DEF w, a

(* What render_transfer_text refuses to render. *)
Refused(c) ==
  \/ Len(c) # CALLDATA_BYTES
  \/ Part(c, 0, Len(SELECTOR)) # SELECTOR
  \/ ~ AllZero(Part(c, Len(SELECTOR), TO_POS))
  \/ ~ AllZero(Part(c, SLOT_POS, AMOUNT_POS))
  \/ FromBE(Part(c, AMOUNT_POS, CALLDATA_BYTES)) >= AMOUNT_MAX

decimal(x, n) == [k \in 1 .. n |-> 48 + Digits(x, 10, n)[k]]

hex(to) == [k \in 1 .. 2 * TO_BYTES |->
              HexChar(IF k % 2 = 1 THEN to[(k + 1) \div 2] \div 16 ELSE to[k \div 2] % 16)]

text(amount, to) ==
  PREFIX \o decimal(amount \div 10 ^ AMOUNT_FRAC_DIGITS, AMOUNT_INT_DIGITS) \o <<DOT>>
    \o decimal(amount % 10 ^ AMOUNT_FRAC_DIGITS, AMOUNT_FRAC_DIGITS) \o MIDDLE \o hex(to)

LEMMA Rendering ==
  ASSUME NEW c
  PROVE  LET s == text(FromBE(Part(c, AMOUNT_POS, CALLDATA_BYTES)), Part(c, TO_POS, SLOT_POS))
         IN  render_transfer_text(c) =
               IF Refused(c) THEN Err ELSE s \o [k \in 1 .. TEXT_BYTES - Len(s) |-> SPACE]
BY DEF render_transfer_text, text, decimal, hex, Refused

LEMMA ParseSound ==
  ASSUME NEW c \in Seq(Byte), Len(c) = CALLDATA_BYTES
  PROVE  ParseCalldata(c) <=> /\ Part(c, 0, Len(SELECTOR)) = SELECTOR
                              /\ AllZero(Part(c, Len(SELECTOR), TO_POS))
                              /\ AllZero(Part(c, SLOT_POS, AMOUNT_POS))
<1> DEFINE n == Len(SELECTOR)
           a == Part(c, 0, n)
           b == Part(c, n, TO_POS)
           d == Part(c, SLOT_POS, AMOUNT_POS)
<1>1. /\ n \in Nat /\ SELECTOR \in Seq(Byte) /\ TO_POS \in Nat /\ n <= TO_POS
      /\ SLOT_POS \in Nat /\ TO_POS <= SLOT_POS /\ AMOUNT_POS \in Nat /\ SLOT_POS <= AMOUNT_POS
      /\ AMOUNT_POS <= Len(c)
  BY Layout, TemplateAssumption
<1>2. a \in Seq(Byte) /\ Len(a) = n /\ \A k \in 1 .. n : a[k] = c[k]
  <2>1. n - 0 = n /\ 0 \in Nat /\ 0 <= n /\ n <= Len(c)
    BY <1>1
  <2>2. Part(c, 0, n) \in Seq(Byte) /\ Len(Part(c, 0, n)) = n
    BY <1>1, <2>1, PartFacts
  <2>3. \A k \in 1 .. n - 0 : Part(c, 0, n)[k] = c[0 + k]
    BY <1>1, <2>1, PartFacts
  <2> QED BY <1>1, <2>2, <2>3
<1>3. /\ b \in Seq(Byte) /\ Len(b) = TO_POS - n /\ (\A k \in 1 .. TO_POS - n : b[k] = c[n + k])
      /\ d \in Seq(Byte) /\ Len(d) = AMOUNT_POS - SLOT_POS
      /\ (\A k \in 1 .. AMOUNT_POS - SLOT_POS : d[k] = c[SLOT_POS + k])
  <2>1. TO_POS <= Len(c)
    BY <1>1
  <2> QED BY <1>1, <2>1, PartFacts
<1> HIDE DEF a, b, d
<1>4. a = SELECTOR <=> \A k \in DOMAIN SELECTOR : c[k] = SELECTOR[k]
  BY <1>1, <1>2
<1>5. AllZero(b) <=> \A pos \in n .. TO_POS - 1 : c[pos + 1] = 0
  <2>1. DOMAIN b = 1 .. TO_POS - n
    BY <1>1, <1>3
  <2>2. ASSUME AllZero(b), NEW pos \in n .. TO_POS - 1 PROVE c[pos + 1] = 0
    <3> DEFINE k == pos + 1 - n
    <3>1. k \in 1 .. TO_POS - n /\ n + k = pos + 1
      BY <1>1
    <3> HIDE DEF k
    <3> QED BY <1>3, <2>1, <2>2, <3>1 DEF AllZero
  <2>3. ASSUME \A pos \in n .. TO_POS - 1 : c[pos + 1] = 0, NEW k \in 1 .. TO_POS - n
        PROVE  b[k] = 0
    <3> DEFINE pos == n + k - 1
    <3>1. pos \in n .. TO_POS - 1 /\ pos + 1 = n + k
      BY <1>1
    <3> HIDE DEF pos
    <3> QED BY <1>3, <2>3, <3>1
  <2> QED BY <2>1, <2>2, <2>3 DEF AllZero
<1>6. AllZero(d) <=> \A pos \in SLOT_POS .. AMOUNT_POS - 1 : c[pos + 1] = 0
  <2>1. DOMAIN d = 1 .. AMOUNT_POS - SLOT_POS
    BY <1>1, <1>3
  <2>2. ASSUME AllZero(d), NEW pos \in SLOT_POS .. AMOUNT_POS - 1 PROVE c[pos + 1] = 0
    <3> DEFINE k == pos + 1 - SLOT_POS
    <3>1. k \in 1 .. AMOUNT_POS - SLOT_POS /\ SLOT_POS + k = pos + 1
      BY <1>1
    <3> HIDE DEF k
    <3> QED BY <1>3, <2>1, <2>2, <3>1 DEF AllZero
  <2>3. ASSUME \A pos \in SLOT_POS .. AMOUNT_POS - 1 : c[pos + 1] = 0,
               NEW k \in 1 .. AMOUNT_POS - SLOT_POS
        PROVE  d[k] = 0
    <3> DEFINE pos == SLOT_POS + k - 1
    <3>1. pos \in SLOT_POS .. AMOUNT_POS - 1 /\ pos + 1 = SLOT_POS + k
      BY <1>1
    <3> HIDE DEF pos
    <3> QED BY <1>3, <2>3, <3>1
  <2> QED BY <2>1, <2>2, <2>3 DEF AllZero
<1>7. ParseCalldata(c) <=>
        /\ \A k \in DOMAIN SELECTOR : c[k] = SELECTOR[k]
        /\ \A pos \in n .. TO_POS - 1 : c[pos + 1] = 0
        /\ \A pos \in SLOT_POS .. AMOUNT_POS - 1 : c[pos + 1] = 0
  BY Zenon DEF ParseCalldata, At
<1> QED BY <1>4, <1>5, <1>6, <1>7 DEF a, b, d

LEMMA DecimalPart ==
  ASSUME NEW t \in Seq(Byte), NEW from \in Nat, NEW n \in Nat, from + n <= Len(t), NEW x,
         \A k \in 1 .. n : t[from + k] = 48 + Digits(x, 10, n)[k]
  PROVE  /\ decimal(x, n) \in Seq(Byte) /\ Len(decimal(x, n)) = n
         /\ \A k \in 1 .. n : decimal(x, n)[k] = t[from + k]
<1> DEFINE b == decimal(x, n)
<1>1. \A k \in 1 .. n : b[k] = t[from + k]
  BY DEF decimal
<1>2. \A k \in 1 .. n : t[from + k] \in Byte
  OBVIOUS
<1>3. b \in [1 .. n -> Byte]
  BY <1>1, <1>2 DEF decimal
<1> HIDE DEF b
<1> QED BY <1>1, <1>3 DEF b

LEMMA HexPart ==
  ASSUME NEW c \in Seq(Byte), Len(c) = CALLDATA_BYTES,
         NEW t \in Seq(Byte), Len(t) = TEXT_BYTES, SameAddress(c, t)
  PROVE  LET h == hex(Part(c, TO_POS, SLOT_POS))
         IN  /\ h \in Seq(Byte) /\ Len(h) = 2 * TO_BYTES
             /\ \A k \in 1 .. 2 * TO_BYTES : h[k] = t[HEX_POS + k]
<1> DEFINE to == Part(c, TO_POS, SLOT_POS)
           h == hex(to)
<1>1. /\ to \in Seq(Byte) /\ Len(to) = TO_BYTES
      /\ \A k \in 1 .. TO_BYTES : to[k] = c[TO_POS + k]
  <2>1. /\ TO_POS \in Nat /\ SLOT_POS \in Nat /\ TO_POS <= SLOT_POS /\ SLOT_POS <= Len(c)
        /\ SLOT_POS - TO_POS = TO_BYTES
    BY Layout
  <2> QED BY <2>1, PartFacts
<1> HIDE DEF to
<1>2. TO_BYTES \in Nat /\ HEX_POS \in Nat /\ HEX_POS + 2 * TO_BYTES <= Len(t)
  BY Layout
<1>3. ASSUME NEW j \in 0 .. TO_BYTES - 1
      PROVE  /\ t[HEX_POS + 2 * j + 1] = HexChar(to[j + 1] \div 16)
             /\ t[HEX_POS + 2 * j + 1 + 1] = HexChar(to[j + 1] % 16)
  <2> DEFINE b == c[TO_POS + j + 1]
  <2>1. to[j + 1] = b /\ b \in Byte
    <3>1. j + 1 \in 1 .. TO_BYTES /\ TO_POS + (j + 1) = TO_POS + j + 1
      BY <1>2, Layout
    <3> QED BY <1>1, <3>1
  <2>2. /\ t[HEX_POS + 2 * j + 1] = nibble_hex_char(High(bits_le(b)))
        /\ t[HEX_POS + 2 * j + 1 + 1] = nibble_hex_char(Low(bits_le(b)))
    BY Zenon DEF SameAddress, At
  <2> HIDE DEF b
  <2> QED BY <2>1, <2>2, HexNibbles
<1>4. ASSUME NEW k \in 1 .. 2 * TO_BYTES PROVE h[k] = t[HEX_POS + k]
  <2>0. h[k] = HexChar(IF k % 2 = 1 THEN to[(k + 1) \div 2] \div 16 ELSE to[k \div 2] % 16)
    BY DEF hex
  <2>1. CASE k % 2 = 1
    <3> DEFINE j == (k - 1) \div 2
    <3>1. j \in 0 .. TO_BYTES - 1 /\ (k + 1) \div 2 = j + 1 /\ k = 2 * j + 1
      BY <1>2, <2>1
    <3> HIDE DEF j
    <3>2. HEX_POS + k = HEX_POS + 2 * j + 1
      BY <1>2, <3>1
    <3> QED BY <1>3, <2>0, <2>1, <3>1, <3>2
  <2>2. CASE k % 2 # 1
    <3> DEFINE j == k \div 2 - 1
    <3>1. j \in 0 .. TO_BYTES - 1 /\ k \div 2 = j + 1 /\ k = 2 * j + 2
      BY <1>2, <2>2
    <3> HIDE DEF j
    <3>2. HEX_POS + k = HEX_POS + 2 * j + 1 + 1
      BY <1>2, <3>1
    <3> QED BY <1>3, <2>0, <2>2, <3>1, <3>2
  <2> QED BY <2>1, <2>2
<1>5. h \in [1 .. 2 * TO_BYTES -> Byte]
  <2>1. \A k \in 1 .. 2 * TO_BYTES : t[HEX_POS + k] \in Byte
    BY <1>2
  <2>2. h = [k \in 1 .. 2 * TO_BYTES |-> h[k]]
    BY DEF hex
  <2> HIDE DEF h
  <2> QED BY <1>4, <2>1, <2>2
<1> HIDE DEF h
<1>6. h \in Seq(Byte) /\ Len(h) = 2 * TO_BYTES
  BY <1>2, <1>5
<1> QED BY <1>4, <1>6 DEF h, to

(* The text that satisfies the circuit is the text of the native renderer, *)
(* byte for byte, and the renderer accepts the call data.                  *)
THEOREM TemplateSound ==
  ASSUME NEW c \in Seq(Byte), NEW t \in Seq(Byte), WellSized(c, t),
         enforce_transfer_template(c, t)
  PROVE  render_transfer_text(c) = t
<1> DEFINE amount == FromBE(Part(c, AMOUNT_POS, CALLDATA_BYTES))
           unit == 10 ^ AMOUNT_FRAC_DIGITS
           to == Part(c, TO_POS, SLOT_POS)
           whole == amount \div unit
           frac == amount % unit
           I == decimal(whole, AMOUNT_INT_DIGITS)
           F == decimal(frac, AMOUNT_FRAC_DIGITS)
           H == hex(to)
           s1 == PREFIX \o I
           s2 == s1 \o <<DOT>>
           s3 == s2 \o F
           s4 == s3 \o MIDDLE
           s5 == s4 \o H
           spaces == [k \in 1 .. TEXT_BYTES - HEX_END |-> SPACE]
<1>1. Len(c) = CALLDATA_BYTES /\ Len(t) = TEXT_BYTES
  BY DEF WellSized
<1>2. ParseCalldata(c) /\ FixedCharacters(t) /\ SameAmount(c, t) /\ SameAddress(c, t)
  BY DEF enforce_transfer_template
<1>3. Same(c, t, amount, unit)
  BY <1>1, <1>2, AmountSound
<1>4. ~ Refused(c)
  <2>1. amount \in Nat /\ amount < AMOUNT_MAX
    BY <1>3 DEF Same
  <2>2. AMOUNT_MAX \in Int
    BY Layout DEF AMOUNT_MAX, AMOUNT_DIGITS
  <2>3. ~ (amount >= AMOUNT_MAX)
    <3> HIDE DEF amount
    <3> QED BY <2>1, <2>2
  <2> QED BY <1>1, <1>2, <2>3, ParseSound DEF Refused
<1>5. /\ INT_POS \in Nat /\ DOT_POS \in Nat /\ FRAC_POS \in Nat /\ MIDDLE_POS \in Nat
      /\ HEX_POS \in Nat /\ HEX_END \in Nat /\ TEXT_BYTES \in Nat /\ INT_POS = Len(PREFIX)
      /\ INT_POS <= DOT_POS /\ DOT_POS <= FRAC_POS /\ FRAC_POS <= MIDDLE_POS
      /\ MIDDLE_POS <= HEX_POS /\ HEX_POS <= HEX_END /\ HEX_END <= Len(t)
      /\ DOT_POS - INT_POS = AMOUNT_INT_DIGITS /\ FRAC_POS - DOT_POS = 1
      /\ MIDDLE_POS - FRAC_POS = AMOUNT_FRAC_DIGITS /\ HEX_POS - MIDDLE_POS = Len(MIDDLE)
      /\ HEX_END - HEX_POS = 2 * TO_BYTES /\ Len(t) = TEXT_BYTES
  BY <1>1, Layout
<1>6. /\ I \in Seq(Byte) /\ Len(I) = DOT_POS - INT_POS
      /\ \A k \in 1 .. DOT_POS - INT_POS : I[k] = t[INT_POS + k]
  <2>1. /\ AMOUNT_INT_DIGITS \in Nat /\ INT_POS \in Nat
        /\ INT_POS + AMOUNT_INT_DIGITS <= Len(t)
    BY <1>5, Layout
  <2>2. \A k \in 1 .. AMOUNT_INT_DIGITS :
            t[INT_POS + k] = 48 + Digits(whole, 10, AMOUNT_INT_DIGITS)[k]
    BY <1>3 DEF Same
  <2> HIDE DEF whole
  <2>3. /\ I \in Seq(Byte) /\ Len(I) = AMOUNT_INT_DIGITS
        /\ \A k \in 1 .. AMOUNT_INT_DIGITS : I[k] = t[INT_POS + k]
    BY <2>1, <2>2, DecimalPart
  <2> QED BY <1>5, <2>3, Zenon
<1>7. /\ F \in Seq(Byte) /\ Len(F) = MIDDLE_POS - FRAC_POS
      /\ \A k \in 1 .. MIDDLE_POS - FRAC_POS : F[k] = t[FRAC_POS + k]
  <2>1. /\ AMOUNT_FRAC_DIGITS \in Nat /\ FRAC_POS \in Nat
        /\ FRAC_POS + AMOUNT_FRAC_DIGITS <= Len(t)
    BY <1>5, Layout
  <2>2. \A k \in 1 .. AMOUNT_FRAC_DIGITS :
            t[FRAC_POS + k] = 48 + Digits(frac, 10, AMOUNT_FRAC_DIGITS)[k]
    BY <1>3 DEF Same
  <2> HIDE DEF frac
  <2>3. /\ F \in Seq(Byte) /\ Len(F) = AMOUNT_FRAC_DIGITS
        /\ \A k \in 1 .. AMOUNT_FRAC_DIGITS : F[k] = t[FRAC_POS + k]
    BY <2>1, <2>2, DecimalPart
  <2> QED BY <1>5, <2>3, Zenon
<1>8. /\ H \in Seq(Byte) /\ Len(H) = HEX_END - HEX_POS
      /\ \A k \in 1 .. HEX_END - HEX_POS : H[k] = t[HEX_POS + k]
  BY <1>1, <1>2, <1>5, HexPart
<1>9. /\ <<DOT>> \in Seq(Byte) /\ Len(<<DOT>>) = FRAC_POS - DOT_POS
      /\ \A k \in 1 .. FRAC_POS - DOT_POS : <<DOT>>[k] = t[DOT_POS + k]
  <2>1. t[DOT_POS + 1] = DOT
    BY <1>2 DEF FixedCharacters, At
  <2>2. <<DOT>> \in Seq(Byte) /\ Len(<<DOT>>) = 1 /\ <<DOT>>[1] = DOT
    BY DEF DOT, Byte
  <2>3. FRAC_POS - DOT_POS = 1
    BY <1>5
  <2>4. \A k \in 1 .. 1 : k = 1
    OBVIOUS
  <2> QED BY <2>1, <2>2, <2>3, <2>4
<1>10. /\ MIDDLE \in Seq(Byte) /\ Len(MIDDLE) = HEX_POS - MIDDLE_POS
       /\ \A k \in 1 .. HEX_POS - MIDDLE_POS : MIDDLE[k] = t[MIDDLE_POS + k]
  <2>1. MIDDLE \in Seq(Byte)
    BY TemplateAssumption
  <2>2. \A k \in 1 .. Len(MIDDLE) : t[MIDDLE_POS + k] = MIDDLE[k]
    BY <1>2, <2>1 DEF FixedCharacters
  <2>3. Len(MIDDLE) = HEX_POS - MIDDLE_POS
    BY <1>5
  <2> QED BY <2>1, <2>2, <2>3, Zenon
<1>11. /\ spaces \in Seq(Byte) /\ Len(spaces) = TEXT_BYTES - HEX_END
       /\ \A k \in 1 .. TEXT_BYTES - HEX_END : spaces[k] = t[HEX_END + k]
  <2>1. SPACE \in Byte /\ TEXT_BYTES - HEX_END \in Nat
    BY <1>5 DEF SPACE, Byte
  <2>2. ASSUME NEW k \in 1 .. TEXT_BYTES - HEX_END PROVE t[HEX_END + k] = SPACE
    <3> DEFINE pos == HEX_END + k - 1
    <3>1. pos \in HEX_END .. TEXT_BYTES - 1 /\ pos + 1 = HEX_END + k
      BY <1>5
    <3> HIDE DEF pos
    <3> QED BY <1>2, <3>1 DEF FixedCharacters, At
  <2> QED BY <2>1, <2>2
<1>12. PREFIX = Part(t, 0, INT_POS)
  <2>1. PREFIX \in Seq(Byte)
    BY TemplateAssumption
  <2>2. \A k \in 1 .. Len(PREFIX) : t[k] = PREFIX[k]
    BY <1>2, <2>1 DEF FixedCharacters
  <2>3. /\ INT_POS \in Nat /\ INT_POS <= Len(t) /\ INT_POS - 0 = INT_POS
        /\ 0 <= INT_POS /\ 0 \in Nat
    BY <1>5
  <2>4. /\ Part(t, 0, INT_POS) \in Seq(Byte) /\ Len(Part(t, 0, INT_POS)) = INT_POS - 0
        /\ \A k \in 1 .. INT_POS - 0 : Part(t, 0, INT_POS)[k] = t[0 + k]
    BY <2>3, PartFacts
  <2>5. \A k \in 1 .. Len(PREFIX) : Part(t, 0, INT_POS)[k] = PREFIX[k]
    BY <1>5, <2>2, <2>3, <2>4
  <2>6. Len(Part(t, 0, INT_POS)) = Len(PREFIX)
    BY <1>5, <2>3, <2>4
  <2> QED BY <2>1, <2>4, <2>5, <2>6, SeqEqual
<1> HIDE DEF I, F, H, spaces
<1>13. s1 = Part(t, 0, DOT_POS)
  <2>1. INT_POS \in Nat /\ DOT_POS \in Nat /\ INT_POS <= DOT_POS /\ DOT_POS <= Len(t)
    BY <1>5
  <2> QED BY <1>6, <1>12, <2>1, PartGrows
<1> HIDE DEF s1
<1>14. s2 = Part(t, 0, FRAC_POS)
  <2>1. DOT_POS \in Nat /\ FRAC_POS \in Nat /\ DOT_POS <= FRAC_POS /\ FRAC_POS <= Len(t)
    BY <1>5
  <2> QED BY <1>9, <1>13, <2>1, PartGrows
<1> HIDE DEF s2
<1>15. s3 = Part(t, 0, MIDDLE_POS)
  <2>1. FRAC_POS \in Nat /\ MIDDLE_POS \in Nat /\ FRAC_POS <= MIDDLE_POS /\ MIDDLE_POS <= Len(t)
    BY <1>5
  <2> QED BY <1>7, <1>14, <2>1, PartGrows
<1> HIDE DEF s3
<1>16. s4 = Part(t, 0, HEX_POS)
  <2>1. MIDDLE_POS \in Nat /\ HEX_POS \in Nat /\ MIDDLE_POS <= HEX_POS /\ HEX_POS <= Len(t)
    BY <1>5
  <2> QED BY <1>10, <1>15, <2>1, PartGrows
<1> HIDE DEF s4
<1>17. s5 = Part(t, 0, HEX_END)
  <2>1. HEX_POS \in Nat /\ HEX_END \in Nat /\ HEX_POS <= HEX_END /\ HEX_END <= Len(t)
    BY <1>5
  <2> QED BY <1>8, <1>16, <2>1, PartGrows
<1> HIDE DEF s5
<1>18. s5 \o spaces = Part(t, 0, TEXT_BYTES)
  <2>1. HEX_END \in Nat /\ TEXT_BYTES \in Nat /\ HEX_END <= TEXT_BYTES /\ TEXT_BYTES <= Len(t)
    BY <1>5
  <2> QED BY <1>11, <1>17, <2>1, PartGrows
<1>19. Part(t, 0, TEXT_BYTES) = t
  BY <1>5 DEF Part
<1>20. Len(s5) = HEX_END
  <2>1. 0 <= HEX_END /\ HEX_END - 0 = HEX_END /\ 0 \in Nat /\ HEX_END \in Nat /\ HEX_END <= Len(t)
    BY <1>5
  <2>2. Len(Part(t, 0, HEX_END)) = HEX_END
    BY <2>1, PartFacts
  <2> QED BY <1>17, <2>2
<1>21. text(amount, to) = s5
  BY Zenon DEF text, s5, s4, s3, s2, s1, I, F, H
<1>22. render_transfer_text(c) = text(amount, to)
          \o [k \in 1 .. TEXT_BYTES - Len(text(amount, to)) |-> SPACE]
  BY <1>4, Rendering
<1>23. spaces = [k \in 1 .. TEXT_BYTES - Len(s5) |-> SPACE]
  BY <1>20 DEF spaces
<1> QED BY <1>18, <1>19, <1>21, <1>22, <1>23

-----------------------------------------------------------------------------
(* And complete: the renderer's text satisfies it. *)

LEMMA PowersAdd ==
  ASSUME NEW base \in Nat \ {0}, NEW n \in Nat, NEW q, ArePowers(q, base, n),
         NEW a \in Nat, NEW b \in Nat, a + b <= n
  PROVE  q[a + b] = q[a] * q[b]
<1> DEFINE T == {k \in 0 .. b : q[a + k] = q[a] * q[k]}
<1>1. q[a] \in Nat /\ q[0] = 1 /\ a + 0 = a
  BY DEF ArePowers
<1>2. 0 \in T
  BY <1>1
<1>3. ASSUME NEW k \in 0 .. b - 1, k \in T PROVE k + 1 \in T
  <2> DEFINE j == a + k
  <2>1. j \in 0 .. n /\ k \in 0 .. n /\ j < n /\ k < n /\ a + (k + 1) = j + 1
    OBVIOUS
  <2>2. q[j] = q[a] * q[k]
    BY <1>3
  <2> HIDE DEF j
  <2>3. q[j + 1] = base * q[j] /\ q[k + 1] = base * q[k] /\ q[k] \in Nat /\ q[j] \in Nat
    BY <2>1, PowersStep
  <2>4. base * (q[a] * q[k]) = q[a] * (base * q[k])
    BY <1>1, <2>3
  <2>5. q[a + (k + 1)] = q[a] * q[k + 1]
    BY <2>1, <2>2, <2>3, <2>4
  <2>6. k + 1 \in 0 .. b
    OBVIOUS
  <2> QED BY <2>5, <2>6
<1>4. \A k \in 0 .. b : k \in T
  <2>1. \A k \in 0 .. b - 1 : k \in T => k + 1 \in T
    BY <1>3
  <2> HIDE DEF T
  <2> QED BY <1>2, <2>1, UpTo, Zenon
<1>5. b \in T
  BY <1>4
<1> QED BY <1>5

LEMMA DigitsEval ==
  ASSUME NEW n \in 0 .. AMOUNT_DIGITS, NEW x \in Nat, x < 10 ^ n
  PROVE  /\ Digits(x, 10, n) \in Seq(0 .. 9) /\ Len(Digits(x, 10, n)) = n
         /\ \E v : IsEval(v, Digits(x, 10, n), 10) /\ v[n] = x
<1> DEFINE s == Digits(x, 10, n)
           q == [k \in 0 .. n |-> 10 ^ k]
           v == [k \in 0 .. n |-> x \div q[n - k]]
<1>0. n \in Nat
  BY Layout DEF AMOUNT_DIGITS
<1>1. ArePowers(q, 10, n)
  BY TenPowers
<1>2. s = [k \in 1 .. n |-> (x \div q[n - k]) % 10]
  <2>1. \A k \in 1 .. n : q[n - k] = 10 ^ (n - k)
    BY <1>0
  <2> HIDE DEF q
  <2> QED BY <2>1 DEF Digits
<1>3. x < q[n]
  BY <1>0
<1> HIDE DEF q, s
<1>4. \A k \in 0 .. n : q[k] \in Nat \ {0}
  BY <1>1 DEF ArePowers
<1>5. \A k \in 0 .. n : v[k] = x \div q[n - k] /\ v[k] \in Nat
  <2> SUFFICES ASSUME NEW k \in 0 .. n PROVE x \div q[n - k] \in Nat
    OBVIOUS
  <2>1. q[n - k] \in Nat \ {0}
    BY <1>0, <1>4
  <2> QED BY <2>1, DivMod
<1>6. \A k \in 1 .. n : s[k] = v[k] % 10 /\ s[k] \in 0 .. 9
  <2> SUFFICES ASSUME NEW k \in 1 .. n PROVE s[k] = v[k] % 10 /\ s[k] \in 0 .. 9
    OBVIOUS
  <2>1. v[k] = x \div q[n - k] /\ v[k] \in Nat
    BY <1>5
  <2> HIDE DEF v
  <2> QED BY <1>2, <2>1
<1>7. s \in Seq(0 .. 9) /\ Len(s) = n
  <2>1. s \in [1 .. n -> 0 .. 9]
    BY <1>2, <1>6
  <2> QED BY <1>0, <2>1
<1>8. v[0] = 0
  <2> DEFINE w == q[n]
  <2>1. v[0] = x \div w /\ w \in Nat \ {0} /\ x = 0 * w + x /\ x \in 0 .. w - 1
    BY <1>0, <1>3, <1>4, <1>5
  <2> HIDE DEF w, v
  <2> QED BY <2>1, DivModUnique
<1>9. v[n] = x
  <2>1. v[n] = x \div q[0] /\ q[0] = 1
    BY <1>0, <1>1 DEF ArePowers
  <2> HIDE DEF v
  <2> QED BY <2>1
<1>10. ASSUME NEW k \in 1 .. n PROVE v[k] = v[k - 1] * 10 + s[k]
  <2> DEFINE w == q[n - k]
             y == x \div w
  <2>1. n - k \in 0 .. n /\ n - k < n /\ (n - k) + 1 = n - (k - 1) /\ k - 1 \in 0 .. n
    BY <1>0
  <2>2. w \in Nat \ {0} /\ q[n - (k - 1)] = 10 * w
    <3>1. q[(n - k) + 1] = 10 * q[n - k]
      BY <1>1, <1>0, <2>1, PowersStep
    <3> QED BY <1>4, <2>1, <3>1
  <2>4. v[k - 1] = x \div (10 * w)
    BY <2>1, <2>2
  <2> HIDE DEF v
  <2>3. y \in Nat /\ v[k] = y /\ s[k] = y % 10
    <3>1. v[k] = y /\ v[k] \in Nat
      BY <1>5, <2>1
    <3>2. s[k] = v[k] % 10
      BY <1>6
    <3> HIDE DEF y
    <3> QED BY <3>1, <3>2
  <2> HIDE DEF w
  <2>5. x \div (w * 10) = y \div 10
    BY <2>2, DivDiv
  <2>6. w * 10 = 10 * w
    BY <2>2
  <2> HIDE DEF y
  <2>7. y = (y \div 10) * 10 + (y % 10)
    BY <2>3, DivMod
  <2> QED BY <2>3, <2>4, <2>5, <2>6, <2>7
<1>11. IsEval(v, s, 10)
  <2>1. v \in [0 .. Len(s) -> Nat]
    BY <1>5, <1>7
  <2> HIDE DEF v
  <2> QED BY <1>7, <1>8, <1>10, <2>1 DEF IsEval
<1> HIDE DEF v
<1>12. \E f : IsEval(f, s, 10) /\ f[n] = x
  BY <1>9, <1>11
<1> QED BY <1>7, <1>12 DEF s

LEMMA AmountComplete ==
  ASSUME NEW c \in Seq(Byte), Len(c) = CALLDATA_BYTES,
         NEW t \in Seq(Byte), Len(t) = TEXT_BYTES,
         Same(c, t, FromBE(Part(c, AMOUNT_POS, CALLDATA_BYTES)), 10 ^ AMOUNT_FRAC_DIGITS)
  PROVE  SameAmount(c, t)
<1> DEFINE m == AMOUNT_INT_DIGITS
           n == AMOUNT_FRAC_DIGITS
           A == Part(t, INT_POS, DOT_POS)
           B == Part(t, FRAC_POS, MIDDLE_POS)
           value(b) == nibble_value(Low(bits_le(b)))
           unit == 10 ^ n
           amount == FromBE(Part(c, AMOUNT_POS, CALLDATA_BYTES))
           hi == amount \div unit
           lo == amount % unit
           da == Digits(hi, 10, m)
           db == Digits(lo, 10, n)
           digits == AmountDigits(t)
           values == [k \in DOMAIN digits |-> value(digits[k])]
<1>1. /\ A \in Seq(Byte) /\ Len(A) = m /\ \A k \in 1 .. m : A[k] = t[INT_POS + k]
      /\ B \in Seq(Byte) /\ Len(B) = n /\ \A k \in 1 .. n : B[k] = t[FRAC_POS + k]
  <2>1. /\ INT_POS \in Nat /\ DOT_POS \in Nat /\ INT_POS <= DOT_POS /\ DOT_POS <= Len(t)
        /\ FRAC_POS \in Nat /\ MIDDLE_POS \in Nat /\ FRAC_POS <= MIDDLE_POS
        /\ MIDDLE_POS <= Len(t) /\ DOT_POS - INT_POS = m /\ MIDDLE_POS - FRAC_POS = n
    BY Layout
  <2>2. A \in Seq(Byte) /\ Len(A) = m /\ \A k \in 1 .. m : A[k] = t[INT_POS + k]
    BY <2>1, PartFacts
  <2>3. B \in Seq(Byte) /\ Len(B) = n /\ \A k \in 1 .. n : B[k] = t[FRAC_POS + k]
    BY <2>1, PartFacts
  <2> QED BY <2>2, <2>3
<1>2. m \in 0 .. AMOUNT_DIGITS /\ n \in 0 .. AMOUNT_DIGITS /\ AMOUNT_DIGITS = m + n
      /\ m \in Nat /\ n \in Nat
  BY Layout DEF AMOUNT_DIGITS
<1>3. /\ amount \in Nat /\ amount < AMOUNT_MAX
      /\ (\A k \in 1 .. m : t[INT_POS + k] = 48 + da[k])
      /\ (\A k \in 1 .. n : t[FRAC_POS + k] = 48 + db[k])
  BY DEF Same
<1> DEFINE q == [k \in 0 .. AMOUNT_DIGITS |-> 10 ^ k]
<1>4. /\ q[m] = 10 ^ m /\ q[n] = unit /\ q[m + n] = AMOUNT_MAX
  BY <1>2 DEF AMOUNT_MAX
<1>5. ArePowers(q, 10, AMOUNT_DIGITS)
  BY <1>2, TenPowers
<1> HIDE DEF q, amount
<1>6. AMOUNT_MAX = q[m] * unit /\ unit \in Nat \ {0} /\ q[m] \in Nat
  <2>1. AMOUNT_DIGITS \in Nat /\ m + n <= AMOUNT_DIGITS
    BY <1>2
  <2>2. q[m + n] = q[m] * q[n]
    BY <1>2, <1>5, <2>1, PowersAdd
  <2>3. q[m] \in Nat \ {0} /\ q[n] \in Nat \ {0}
    BY <1>2, <1>5 DEF ArePowers
  <2> QED BY <1>4, <2>2, <2>3
<1> HIDE DEF unit
<1>7. hi \in Nat /\ lo \in 0 .. unit - 1 /\ amount = hi * unit + lo
  BY <1>3, <1>6, DivMod
<1> HIDE DEF hi, lo
<1>8. hi < 10 ^ m
  <2> DEFINE w == q[m]
  <2>1. hi * unit < w * unit
    <3> DEFINE x == hi * unit  y == w * unit
    <3>1. x \in Int /\ y \in Int /\ amount = x + lo /\ amount < y
      BY <1>3, <1>6, <1>7
    <3> HIDE DEF x, y
    <3>2. x < y
      BY <1>6, <1>7, <3>1
    <3> QED BY <3>2 DEF x, y
  <2>2. ~ (hi - w >= 0)
    <3> DEFINE d == hi - w
    <3>1. d \in Int /\ d * unit = hi * unit - w * unit
      BY <1>6, <1>7
    <3>2. d * unit < 0
      <4> DEFINE x == hi * unit  y == w * unit  z == d * unit
      <4>1. x \in Int /\ y \in Int /\ z = x - y /\ x < y
        BY <1>6, <1>7, <2>1, <3>1
      <4> HIDE DEF x, y, z
      <4>2. z < 0
        BY <4>1
      <4> QED BY <4>2 DEF z
    <3> HIDE DEF d
    <3>3. ~ (d >= 0)
      BY <1>6, <3>1, <3>2
    <3> QED BY <3>3 DEF d
  <2>3. w \in Nat /\ w = 10 ^ m
    BY <1>4, <1>6
  <2> HIDE DEF w
  <2> QED BY <1>7, <2>2, <2>3
<1>9. da \in Seq(0 .. 9) /\ Len(da) = m /\ \E u : IsEval(u, da, 10) /\ u[m] = hi
  BY <1>2, <1>7, <1>8, DigitsEval
<1>10. db \in Seq(0 .. 9) /\ Len(db) = n /\ \E w : IsEval(w, db, 10) /\ w[n] = lo
  <2>1. lo \in Nat /\ lo < 10 ^ n
    BY <1>6, <1>7 DEF unit
  <2> QED BY <1>2, <2>1, DigitsEval
<1> HIDE DEF da, db
<1>11. PICK u : IsEval(u, da, 10) /\ u[m] = hi
  BY <1>9
<1>12. PICK w : IsEval(w, db, 10) /\ w[n] = lo
  BY <1>10
<1>13. da \in Seq(Nat) /\ db \in Seq(Nat)
  <2>1. 0 .. 9 \subseteq Nat
    OBVIOUS
  <2> QED BY <1>9, <1>10, <2>1, SeqWiden
<1>14. da \o db \in Seq(Nat) /\ Len(da \o db) = m + n
  BY <1>9, <1>10, <1>13, ConcatElements
<1>15. PICK v : IsEval(v, da \o db, 10)
  BY <1>14, EvalExists
<1>16. v[m + n] = amount
  <2> DEFINE p == [k \in 0 .. n |-> 10 ^ k]
  <2>1. ArePowers(p, 10, n) /\ p[n] = unit
    BY <1>2, TenPowers DEF unit
  <2> HIDE DEF p
  <2> DEFINE base == 10
  <2>3. /\ base \in Nat \ {0} /\ ArePowers(p, base, Len(db))
        /\ IsEval(u, da, base) /\ IsEval(w, db, base) /\ IsEval(v, da \o db, base)
    BY <1>10, <1>11, <1>12, <1>15, <2>1
  <2> HIDE DEF base
  <2>2. v[Len(da) + Len(db)] = u[Len(da)] * p[Len(db)] + w[Len(db)]
    BY <1>13, <2>3, EvalConcat
  <2> QED BY <1>7, <1>9, <1>10, <1>11, <1>12, <2>1, <2>2
<1>17. Horner(da \o db, 10) = amount
  <2>1. Horner(da \o db, 10) = amount % P
    BY <1>14, <1>15, <1>16, HornerEval
  <2>2. amount < P
    <3>1. AMOUNT_MAX \in Nat /\ P > 16 * AMOUNT_MAX
      BY <1>6, CircuitAssumption DEF AMOUNT_MAX
    <3> QED BY <1>3, <3>1, Field
  <2> QED BY <1>3, <2>1, <2>2, SmallMod
<1>18. digits = A \o B
  BY DEF AmountDigits
<1> HIDE DEF A, B, digits
<1>19. DOMAIN digits = 1 .. m + n /\ (\A k \in 1 .. m : digits[k] = A[k])
      /\ (\A k \in 1 .. n : digits[m + k] = B[k])
  BY <1>1, <1>18, ConcatElements
<1>20. \A k \in 1 .. m : da[k] \in 0 .. 9 /\ ascii_digit(digits[k]) /\ value(digits[k]) = da[k]
  <2> SUFFICES ASSUME NEW k \in 1 .. m
               PROVE  da[k] \in 0 .. 9 /\ ascii_digit(digits[k]) /\ value(digits[k]) = da[k]
    OBVIOUS
  <2>1. da[k] \in 0 .. 9
    BY <1>9
  <2>2. digits[k] = 48 + da[k]
    BY <1>1, <1>3, <1>19
  <2> QED BY <2>1, <2>2, ByteOfDigit
<1>21. \A k \in 1 .. n : /\ db[k] \in 0 .. 9 /\ ascii_digit(digits[m + k])
                         /\ value(digits[m + k]) = db[k]
  <2> SUFFICES ASSUME NEW k \in 1 .. n
               PROVE  /\ db[k] \in 0 .. 9 /\ ascii_digit(digits[m + k])
                      /\ value(digits[m + k]) = db[k]
    OBVIOUS
  <2>1. db[k] \in 0 .. 9
    BY <1>10
  <2>2. digits[m + k] = 48 + db[k]
    BY <1>1, <1>3, <1>19
  <2> QED BY <2>1, <2>2, ByteOfDigit
<1>22. \A k \in DOMAIN digits : ascii_digit(digits[k])
  <2> SUFFICES ASSUME NEW k \in 1 .. m + n PROVE ascii_digit(digits[k])
    BY <1>19
  <2>1. CASE k \in 1 .. m
    BY <1>20, <2>1
  <2>2. CASE k \notin 1 .. m
    <3>1. PICK j \in 1 .. n : k = m + j
      BY <1>2, <2>2
    <3> QED BY <1>21, <3>1
  <2> QED BY <2>1, <2>2
<1>23. values = da \o db
  <2>1. \A k \in 1 .. m : values[k] = da[k]
    BY <1>2, <1>19, <1>20
  <2>2. \A k \in 1 .. n : values[m + k] = db[k]
    BY <1>2, <1>19, <1>21
  <2>3. DOMAIN values = 1 .. m + n /\ m + n \in Nat
    BY <1>2, <1>19
  <2>4. \A k \in 1 .. m + n : values[k] \in 0 .. 9
    <3> SUFFICES ASSUME NEW k \in 1 .. m + n PROVE values[k] \in 0 .. 9
      OBVIOUS
    <3>1. CASE k \in 1 .. m
      BY <1>20, <2>1, <3>1
    <3>2. CASE k \notin 1 .. m
      <4>1. PICK j \in 1 .. n : k = m + j
        BY <1>2, <3>2
      <4> QED BY <1>21, <2>2, <4>1
    <3> QED BY <3>1, <3>2
  <2>5. values \in [1 .. m + n -> 0 .. 9]
    BY <2>3, <2>4
  <2> HIDE DEF values, m, n
  <2>6. values \in Seq(0 .. 9) /\ Len(values) = m + n
    BY <2>3, <2>5, SeqDef
  <2>7. /\ Len(values) = Len(da) + Len(db)
        /\ (\A k \in 1 .. Len(da) : values[k] = da[k])
        /\ (\A k \in 1 .. Len(db) : values[Len(da) + k] = db[k])
    BY <1>9, <1>10, <2>1, <2>2, <2>6, Zenon
  <2> DEFINE D == 0 .. 9
  <2>8. da \in Seq(D) /\ db \in Seq(D) /\ values \in Seq(D)
    BY <1>9, <1>10, <2>6
  <2> HIDE DEF D
  <2> QED BY <2>7, <2>8, ConcatIs
<1>24. Horner(values, 10) = Horner(Part(c, AMOUNT_POS, CALLDATA_BYTES), 256)
  BY <1>17, <1>23, AmountBytes DEF amount
<1> QED BY <1>22, <1>24 DEF SameAmount, digits, values

(* s is in w from a position on. *)
Within(w, pos, s) == pos + Len(s) <= Len(w) /\ \A k \in 1 .. Len(s) : w[pos + k] = s[k]

LEMMA WithinKept ==
  ASSUME NEW D, NEW a \in Seq(D), NEW b \in Seq(D), NEW s \in Seq(D), NEW pos \in Nat,
         Within(a, pos, s)
  PROVE  Within(a \o b, pos, s)
<1>1. /\ Len(a) \in Nat /\ Len(b) \in Nat /\ Len(a \o b) = Len(a) + Len(b)
      /\ \A k \in 1 .. Len(a) : (a \o b)[k] = a[k]
  BY ConcatElements
<1>2. Len(s) \in Nat /\ pos + Len(s) <= Len(a)
  BY DEF Within
<1> DEFINE w == a \o b
<1> HIDE DEF w
<1>3. ASSUME NEW k \in 1 .. Len(s) PROVE w[pos + k] = s[k]
  <2>1. pos + k \in 1 .. Len(a)
    BY <1>1, <1>2
  <2>2. a[pos + k] = s[k]
    BY DEF Within
  <2> QED BY <1>1, <2>1, <2>2 DEF w
<1>4. pos + Len(s) <= Len(w)
  BY <1>1, <1>2 DEF w
<1> QED BY <1>3, <1>4 DEF Within, w

LEMMA WithinLast ==
  ASSUME NEW D, NEW a \in Seq(D), NEW b \in Seq(D)
  PROVE  a \o b \in Seq(D) /\ Len(a \o b) = Len(a) + Len(b) /\ Within(a \o b, Len(a), b)
BY ConcatElements DEF Within

LEMMA DecimalType ==
  ASSUME NEW x \in Nat, NEW n \in 0 .. AMOUNT_DIGITS
  PROVE  decimal(x, n) \in Seq(Byte) /\ Len(decimal(x, n)) = n
<1> DEFINE q == [k \in 0 .. n |-> 10 ^ k]
<1>0. n \in Nat
  BY Layout DEF AMOUNT_DIGITS
<1>1. ArePowers(q, 10, n)
  BY TenPowers
<1>2. ASSUME NEW k \in 1 .. n PROVE 48 + Digits(x, 10, n)[k] \in Byte
  <2> DEFINE y == x \div q[n - k]
  <2>0. q[n - k] = 10 ^ (n - k)
    BY <1>0
  <2> HIDE DEF q
  <2>1. Digits(x, 10, n)[k] = y % 10
    BY <2>0 DEF Digits
  <2>2. y \in Nat
    <3>1. q[n - k] \in Nat \ {0}
      BY <1>0, <1>1 DEF ArePowers
    <3> QED BY <3>1, DivMod
  <2> HIDE DEF y
  <2> QED BY <2>1, <2>2 DEF Byte
<1>3. decimal(x, n) \in [1 .. n -> Byte]
  BY <1>2 DEF decimal
<1> QED BY <1>0, <1>3

LEMMA HexType ==
  ASSUME NEW to \in Seq(Byte), Len(to) = TO_BYTES
  PROVE  hex(to) \in Seq(Byte) /\ Len(hex(to)) = 2 * TO_BYTES
<1>0. TO_BYTES \in Nat
  BY Layout
<1>1. ASSUME NEW v \in 0 .. 15 PROVE HexChar(v) \in Byte
  BY DEF HexChar, Byte
<1>2. ASSUME NEW b \in Byte PROVE b \div 16 \in 0 .. 15 /\ b % 16 \in 0 .. 15
  BY DEF Byte
<1>3. ASSUME NEW k \in 1 .. 2 * TO_BYTES PROVE hex(to)[k] \in Byte
  <2>0. hex(to)[k] = HexChar(IF k % 2 = 1 THEN to[(k + 1) \div 2] \div 16 ELSE to[k \div 2] % 16)
    BY DEF hex
  <2>1. CASE k % 2 = 1
    <3>1. (k + 1) \div 2 \in 1 .. TO_BYTES
      BY <1>0, <2>1
    <3> DEFINE j == (k + 1) \div 2
    <3> HIDE DEF j
    <3>2. to[j] \in Byte
      BY <3>1 DEF j
    <3> QED BY <1>1, <1>2, <2>0, <2>1, <3>2 DEF j
  <2>2. CASE k % 2 # 1
    <3>1. k \div 2 \in 1 .. TO_BYTES
      BY <1>0, <2>2
    <3> DEFINE j == k \div 2
    <3> HIDE DEF j
    <3>2. to[j] \in Byte
      BY <3>1 DEF j
    <3> QED BY <1>1, <1>2, <2>0, <2>2, <3>2 DEF j
  <2> QED BY <2>1, <2>2
<1>4. hex(to) \in [1 .. 2 * TO_BYTES -> Byte]
  <2>1. hex(to) = [k \in 1 .. 2 * TO_BYTES |-> hex(to)[k]]
    BY DEF hex
  <2> QED BY <1>3, <2>1
<1>5. 2 * TO_BYTES \in Nat
  BY <1>0
<1> QED BY <1>4, <1>5

LEMMA AddressComplete ==
  ASSUME NEW c \in Seq(Byte), Len(c) = CALLDATA_BYTES, NEW t,
         Within(t, HEX_POS, hex(Part(c, TO_POS, SLOT_POS)))
  PROVE  SameAddress(c, t)
<1> DEFINE to == Part(c, TO_POS, SLOT_POS)
           h == hex(to)
<1>1. /\ to \in Seq(Byte) /\ Len(to) = TO_BYTES
      /\ \A k \in 1 .. TO_BYTES : to[k] = c[TO_POS + k]
  <2>1. /\ TO_POS \in Nat /\ SLOT_POS \in Nat /\ TO_POS <= SLOT_POS /\ SLOT_POS <= Len(c)
        /\ SLOT_POS - TO_POS = TO_BYTES
    BY Layout
  <2> QED BY <2>1, PartFacts
<1> HIDE DEF to
<1>2. Len(h) = 2 * TO_BYTES /\ TO_BYTES \in Nat /\ HEX_POS \in Nat /\ TO_POS \in Nat
  BY <1>1, HexType, Layout
<1>3. \A k \in 1 .. 2 * TO_BYTES :
         t[HEX_POS + k] = HexChar(IF k % 2 = 1 THEN to[(k + 1) \div 2] \div 16 ELSE to[k \div 2] % 16)
  BY <1>2 DEF Within, hex, to
<1> SUFFICES ASSUME NEW j \in 0 .. TO_BYTES - 1
             PROVE  LET bits == bits_le(c[TO_POS + j + 1])
                    IN  /\ t[HEX_POS + 2 * j + 1] = nibble_hex_char(High(bits))
                        /\ t[HEX_POS + 2 * j + 1 + 1] = nibble_hex_char(Low(bits))
  BY Zenon DEF SameAddress, At
<1> DEFINE b == c[TO_POS + j + 1]
<1>4. to[j + 1] = b /\ b \in Byte
  <2>1. j + 1 \in 1 .. TO_BYTES /\ TO_POS + (j + 1) = TO_POS + j + 1
    BY <1>2
  <2> QED BY <1>1, <2>1
<1>5. t[HEX_POS + 2 * j + 1] = HexChar(b \div 16)
  <2> DEFINE k == 2 * j + 1
  <2>1. k \in 1 .. 2 * TO_BYTES /\ k % 2 = 1 /\ (k + 1) \div 2 = j + 1
        /\ HEX_POS + 2 * j + 1 = HEX_POS + k
    BY <1>2
  <2> HIDE DEF k, b
  <2> QED BY <1>3, <1>4, <2>1
<1>6. t[HEX_POS + 2 * j + 1 + 1] = HexChar(b % 16)
  <2> DEFINE k == 2 * j + 2
  <2>1. k \in 1 .. 2 * TO_BYTES /\ k % 2 # 1 /\ k \div 2 = j + 1
        /\ HEX_POS + 2 * j + 1 + 1 = HEX_POS + k
    BY <1>2
  <2> HIDE DEF k, b
  <2> QED BY <1>3, <1>4, <2>1
<1> HIDE DEF b
<1>7. /\ t[HEX_POS + 2 * j + 1] = nibble_hex_char(High(bits_le(b)))
      /\ t[HEX_POS + 2 * j + 1 + 1] = nibble_hex_char(Low(bits_le(b)))
  BY <1>4, <1>5, <1>6, HexNibbles
<1> QED BY <1>7 DEF b

(* The circuit refuses no call data that renders. *)
THEOREM TemplateComplete ==
  ASSUME NEW c \in Seq(Byte), NEW t \in Seq(Byte), WellSized(c, t),
         render_transfer_text(c) = t
  PROVE  enforce_transfer_template(c, t)
<1> DEFINE amount == FromBE(Part(c, AMOUNT_POS, CALLDATA_BYTES))
           unit == 10 ^ AMOUNT_FRAC_DIGITS
           to == Part(c, TO_POS, SLOT_POS)
           whole == amount \div unit
           frac == amount % unit
           I == decimal(whole, AMOUNT_INT_DIGITS)
           F == decimal(frac, AMOUNT_FRAC_DIGITS)
           H == hex(to)
           s1 == PREFIX \o I
           s2 == s1 \o <<DOT>>
           s3 == s2 \o F
           s4 == s3 \o MIDDLE
           s5 == s4 \o H
           spaces == [k \in 1 .. TEXT_BYTES - Len(s5) |-> SPACE]
<1>1. Len(c) = CALLDATA_BYTES /\ Len(t) = TEXT_BYTES
  BY DEF WellSized
<1>2. ~ Refused(c) /\ t = text(amount, to)
          \o [k \in 1 .. TEXT_BYTES - Len(text(amount, to)) |-> SPACE]
  <2>1. t # Err
    BY TemplateAssumption
  <2> QED BY <2>1, Rendering
<1>3. text(amount, to) = s5
  BY Zenon DEF text
<1>4. t = s5 \o spaces
  BY <1>2, <1>3
<1>5. amount \in Nat /\ amount < AMOUNT_MAX
  <2>1. amount \in Nat /\ ~ (amount >= AMOUNT_MAX)
    BY <1>1, <1>2, AmountBytes DEF Refused
  <2>2. AMOUNT_MAX \in Int
    BY Layout DEF AMOUNT_MAX, AMOUNT_DIGITS
  <2> HIDE DEF amount
  <2> QED BY <2>1, <2>2
<1> HIDE DEF amount
<1>6. /\ AMOUNT_INT_DIGITS \in 0 .. AMOUNT_DIGITS /\ AMOUNT_FRAC_DIGITS \in 0 .. AMOUNT_DIGITS
      /\ AMOUNT_INT_DIGITS \in Nat /\ AMOUNT_FRAC_DIGITS \in Nat
  BY Layout DEF AMOUNT_DIGITS
<1>7. whole \in Nat /\ frac \in Nat
  <2> DEFINE q == [k \in 0 .. AMOUNT_FRAC_DIGITS |-> 10 ^ k]
  <2>1. q[AMOUNT_FRAC_DIGITS] = unit
    BY <1>6
  <2>2. ArePowers(q, 10, AMOUNT_FRAC_DIGITS)
    BY <1>6, TenPowers
  <2> HIDE DEF q
  <2>3. unit \in Nat \ {0}
    BY <1>6, <2>1, <2>2 DEF ArePowers
  <2> HIDE DEF unit
  <2>4. amount \div unit \in Nat /\ amount % unit \in 0 .. unit - 1
    BY <1>5, <2>3, DivMod
  <2> QED BY <2>3, <2>4
<1> HIDE DEF whole, frac
<1>8. I \in Seq(Byte) /\ Len(I) = AMOUNT_INT_DIGITS
  BY <1>6, <1>7, DecimalType
<1>9. F \in Seq(Byte) /\ Len(F) = AMOUNT_FRAC_DIGITS
  BY <1>6, <1>7, DecimalType
<1>10. H \in Seq(Byte) /\ Len(H) = 2 * TO_BYTES
  <2>1. /\ TO_POS \in Nat /\ SLOT_POS \in Nat /\ TO_POS <= SLOT_POS /\ SLOT_POS <= Len(c)
        /\ SLOT_POS - TO_POS = TO_BYTES
    BY <1>1, Layout
  <2>2. to \in Seq(Byte) /\ Len(to) = TO_BYTES
    BY <2>1, PartFacts
  <2> HIDE DEF to
  <2> QED BY <2>2, HexType
<1>11. /\ PREFIX \in Seq(Byte) /\ Len(PREFIX) = INT_POS
       /\ <<DOT>> \in Seq(Byte) /\ Len(<<DOT>>) = 1 /\ <<DOT>>[1] = DOT
       /\ MIDDLE \in Seq(Byte)
  BY TemplateAssumption DEF DOT, Byte, INT_POS
<1> DEFINE D == <<DOT>>
<1>12. D \in Seq(Byte) /\ Len(D) = 1 /\ D[1] = DOT
  BY <1>11
<1> HIDE DEF I, F, H, D
<1>13. /\ s1 \in Seq(Byte) /\ Len(s1) = DOT_POS /\ Within(s1, 0, PREFIX) /\ Within(s1, INT_POS, I)
  <2>1. s1 \in Seq(Byte) /\ Len(s1) = INT_POS + AMOUNT_INT_DIGITS /\ Within(s1, INT_POS, I)
    BY <1>8, <1>11, WithinLast
  <2>2. Within(s1, 0, PREFIX)
    BY <1>8, <1>11, ConcatElements DEF Within
  <2> QED BY <2>1, <2>2, Layout
<1>14. /\ s2 \in Seq(Byte) /\ Len(s2) = FRAC_POS /\ Within(s2, DOT_POS, D)
  <2>1. s1 \o D \in Seq(Byte) /\ Len(s1 \o D) = Len(s1) + Len(D) /\ Within(s1 \o D, Len(s1), D)
    <3> HIDE DEF s1
    <3> QED BY <1>12, <1>13, WithinLast
  <2> QED BY <1>12, <1>13, <2>1, Layout DEF D
<1>15. /\ s3 \in Seq(Byte) /\ Len(s3) = MIDDLE_POS /\ Within(s3, FRAC_POS, F)
  <2> HIDE DEF s2
  <2>1. s2 \o F \in Seq(Byte) /\ Len(s2 \o F) = Len(s2) + Len(F) /\ Within(s2 \o F, Len(s2), F)
    BY <1>9, <1>14, WithinLast
  <2> QED BY <1>9, <1>14, <2>1, Layout
<1>16. /\ s4 \in Seq(Byte) /\ Len(s4) = HEX_POS /\ Within(s4, MIDDLE_POS, MIDDLE)
  <2> HIDE DEF s3
  <2>1. /\ s3 \o MIDDLE \in Seq(Byte) /\ Len(s3 \o MIDDLE) = Len(s3) + Len(MIDDLE)
        /\ Within(s3 \o MIDDLE, Len(s3), MIDDLE)
    BY <1>11, <1>15, WithinLast
  <2> QED BY <1>11, <1>15, <2>1, Layout
<1>17. /\ s5 \in Seq(Byte) /\ Len(s5) = HEX_END /\ Within(s5, HEX_POS, H)
  <2> HIDE DEF s4
  <2>1. s4 \o H \in Seq(Byte) /\ Len(s4 \o H) = Len(s4) + Len(H) /\ Within(s4 \o H, Len(s4), H)
    BY <1>10, <1>16, WithinLast
  <2> QED BY <1>10, <1>16, <2>1, Layout
<1>18. /\ INT_POS \in Nat /\ DOT_POS \in Nat /\ FRAC_POS \in Nat /\ MIDDLE_POS \in Nat
       /\ HEX_POS \in Nat /\ HEX_END \in Nat /\ 0 \in Nat /\ TEXT_BYTES \in Nat
       /\ TEXT_BYTES - HEX_END \in Nat
  BY Layout
<1>19. spaces \in Seq(Byte) /\ Len(spaces) = TEXT_BYTES - HEX_END
       /\ \A k \in 1 .. TEXT_BYTES - HEX_END : spaces[k] = SPACE
  <2> HIDE DEF s5
  <2>1. SPACE \in Byte
    BY DEF SPACE, Byte
  <2>2. spaces \in [1 .. TEXT_BYTES - HEX_END -> Byte]
    BY <1>17, <2>1
  <2> QED BY <1>17, <1>18, <2>2
<1> HIDE DEF spaces
<1>20. Within(t, 0, PREFIX) /\ Within(t, INT_POS, I)
  <2>1. Within(s2, 0, PREFIX) /\ Within(s2, INT_POS, I)
    <3> HIDE DEF s1
    <3>1. Within(s1 \o D, 0, PREFIX)
      BY <1>11, <1>12, <1>13, <1>18, WithinKept
    <3>2. Within(s1 \o D, INT_POS, I)
      BY <1>8, <1>12, <1>13, <1>18, WithinKept
    <3> QED BY <3>1, <3>2 DEF D
  <2> HIDE DEF s2
  <2>2. Within(s3, 0, PREFIX) /\ Within(s3, INT_POS, I)
    BY <1>8, <1>9, <1>11, <1>14, <1>18, <2>1, WithinKept
  <2> HIDE DEF s3
  <2>3. Within(s4, 0, PREFIX) /\ Within(s4, INT_POS, I)
    BY <1>8, <1>11, <1>15, <1>18, <2>2, WithinKept
  <2> HIDE DEF s4
  <2>4. Within(s5, 0, PREFIX) /\ Within(s5, INT_POS, I)
    BY <1>8, <1>10, <1>11, <1>16, <1>18, <2>3, WithinKept
  <2> HIDE DEF s5
  <2> QED BY <1>4, <1>8, <1>11, <1>17, <1>18, <1>19, <2>4, WithinKept
<1>21. Within(t, DOT_POS, D)
  <2> HIDE DEF s2
  <2>1. Within(s3, DOT_POS, D)
    BY <1>9, <1>12, <1>14, <1>18, WithinKept
  <2> HIDE DEF s3
  <2>2. Within(s4, DOT_POS, D)
    BY <1>11, <1>12, <1>15, <1>18, <2>1, WithinKept
  <2> HIDE DEF s4
  <2>3. Within(s5, DOT_POS, D)
    BY <1>10, <1>12, <1>16, <1>18, <2>2, WithinKept
  <2> HIDE DEF s5
  <2> QED BY <1>4, <1>12, <1>17, <1>18, <1>19, <2>3, WithinKept
<1>22. Within(t, FRAC_POS, F)
  <2> HIDE DEF s3
  <2>1. Within(s4, FRAC_POS, F)
    BY <1>9, <1>11, <1>15, <1>18, WithinKept
  <2> HIDE DEF s4
  <2>2. Within(s5, FRAC_POS, F)
    BY <1>9, <1>10, <1>16, <1>18, <2>1, WithinKept
  <2> HIDE DEF s5
  <2> QED BY <1>4, <1>9, <1>17, <1>18, <1>19, <2>2, WithinKept
<1>23. Within(t, MIDDLE_POS, MIDDLE)
  <2> HIDE DEF s4
  <2>1. Within(s5, MIDDLE_POS, MIDDLE)
    BY <1>10, <1>11, <1>16, <1>18, WithinKept
  <2> HIDE DEF s5
  <2> QED BY <1>4, <1>11, <1>17, <1>18, <1>19, <2>1, WithinKept
<1> HIDE DEF s5
<1>24. Within(t, HEX_POS, H)
  BY <1>4, <1>10, <1>17, <1>18, <1>19, WithinKept
<1>25. Within(t, HEX_END, spaces)
  BY <1>4, <1>17, <1>19, WithinLast
<1>26. ParseCalldata(c)
  BY <1>1, <1>2, ParseSound DEF Refused
<1>27. FixedCharacters(t)
  <2>1. \A k \in DOMAIN PREFIX : t[k] = PREFIX[k]
    BY <1>11, <1>20 DEF Within
  <2>2. At(t, DOT_POS) = DOT
    BY <1>12, <1>21 DEF Within, At
  <2>3. \A k \in DOMAIN MIDDLE : t[MIDDLE_POS + k] = MIDDLE[k]
    BY <1>11, <1>23 DEF Within
  <2>4. ASSUME NEW pos \in HEX_END .. TEXT_BYTES - 1 PROVE At(t, pos) = SPACE
    <3> DEFINE k == pos + 1 - HEX_END
    <3>1. k \in 1 .. TEXT_BYTES - HEX_END /\ HEX_END + k = pos + 1
      BY <1>18
    <3> HIDE DEF k
    <3> QED BY <1>19, <1>25, <3>1 DEF Within, At
  <2> QED BY <2>1, <2>2, <2>3, <2>4 DEF FixedCharacters
<1>28. SameAmount(c, t)
  <2>1. \A k \in 1 .. AMOUNT_INT_DIGITS :
            t[INT_POS + k] = 48 + Digits(whole, 10, AMOUNT_INT_DIGITS)[k]
    BY <1>8, <1>20 DEF Within, I, decimal
  <2>2. \A k \in 1 .. AMOUNT_FRAC_DIGITS :
            t[FRAC_POS + k] = 48 + Digits(frac, 10, AMOUNT_FRAC_DIGITS)[k]
    BY <1>9, <1>22 DEF Within, F, decimal
  <2>3. Same(c, t, amount, unit)
    BY <1>5, <2>1, <2>2 DEF Same, whole, frac
  <2> QED BY <1>1, <2>3, AmountComplete DEF amount
<1>29. SameAddress(c, t)
  BY <1>1, <1>24, AddressComplete DEF H
<1> QED BY <1>26, <1>27, <1>28, <1>29 DEF enforce_transfer_template

-----------------------------------------------------------------------------
(* The packing: which byte strings have the same. *)

LEMMA PowersGrow ==
  ASSUME NEW base \in Nat \ {0}, NEW n \in Nat, NEW q, ArePowers(q, base, n), NEW j \in 0 .. n
  PROVE  q[j] <= q[n]
<1> DEFINE T == {k \in 0 .. n : k < j \/ q[j] <= q[k]}
<1>1. 0 \in T
  BY DEF ArePowers
<1>2. ASSUME NEW k \in 0 .. n - 1, k \in T PROVE k + 1 \in T
  <2>1. q[k] \in Nat \ {0} /\ q[j] \in Nat \ {0} /\ q[k + 1] = base * q[k]
    BY DEF ArePowers
  <2>2. base * q[k] >= q[k]
    <3> DEFINE w == q[k]
    <3>1. w \in Nat \ {0} /\ base >= 1 /\ base \in Int
      BY <2>1
    <3> HIDE DEF w
    <3>2. base * w >= w
      BY <3>1, AtLeastOne
    <3> QED BY <3>2 DEF w
  <2>3. CASE k < j /\ ~ (k + 1 < j)
    <3>1. k + 1 = j
      BY <2>3
    <3> QED BY <2>1, <3>1
  <2>4. CASE k < j /\ k + 1 < j
    BY <2>4
  <2>5. CASE ~ (k < j)
    <3>1. q[j] <= q[k]
      BY <1>2, <2>5
    <3> DEFINE x == q[k + 1]
    <3>2. x \in Int /\ q[j] <= x
      <4> DEFINE y == base * q[k]
      <4>1. x = y /\ y >= q[k] /\ y \in Int
        BY <2>1, <2>2
      <4> HIDE DEF x, y
      <4> QED BY <2>1, <3>1, <4>1
    <3> QED BY <3>2
  <2> QED BY <2>3, <2>4, <2>5
<1>3. \A k \in 0 .. n : k \in T
  <2>1. \A k \in 0 .. n - 1 : k \in T => k + 1 \in T
    BY <1>2
  <2> HIDE DEF T
  <2> QED BY <1>1, <2>1, UpTo, Zenon
<1>4. n \in T
  BY <1>3
<1> QED BY <1>4

LEMMA ChunkSmall == CHUNK \in Nat \ {0} /\ CHUNK < P /\ 256 ^ CHUNK \in Nat /\ 256 ^ CHUNK < P
<1> DEFINE q == [k \in 0 .. CHUNK |-> 256 ^ k]
           T == {k \in 0 .. CHUNK : k < q[k]}
<1>1. CHUNK \in Nat /\ CHUNK # 0 /\ ArePowers(q, 256, CHUNK)
  BY CircuitAssumption, BytePowers
<1>2. q[CHUNK] = 256 ^ CHUNK
  BY <1>1
<1> HIDE DEF q
<1>3. 0 \in T
  BY <1>1 DEF ArePowers
<1>4. ASSUME NEW k \in 0 .. CHUNK - 1, k \in T PROVE k + 1 \in T
  <2>1. q[k] \in Nat \ {0} /\ q[k + 1] = 256 * q[k]
    BY <1>1 DEF ArePowers
  <2>2. k + 1 < 256 * q[k]
    <3>1. k < q[k]
      BY <1>4
    <3> DEFINE w == q[k]
    <3> HIDE DEF w
    <3> QED BY <2>1, <3>1 DEF w
  <2>3. k + 1 \in 0 .. CHUNK
    BY <1>1
  <2> QED BY <2>1, <2>2, <2>3
<1>5. \A k \in 0 .. CHUNK : k \in T
  <2>1. \A k \in 0 .. CHUNK - 1 : k \in T => k + 1 \in T
    BY <1>4
  <2> HIDE DEF T
  <2> QED BY <1>1, <1>3, <2>1, UpTo, Zenon
<1>6. CHUNK < q[CHUNK] /\ q[CHUNK] \in Nat
  BY <1>1, <1>5 DEF ArePowers
<1>7. P > q[CHUNK] /\ P \in Nat
  BY <1>2, CircuitAssumption, Field
<1>8. CHUNK < P
  <2> DEFINE x == q[CHUNK]
  <2> HIDE DEF x
  <2> QED BY <1>1, <1>6, <1>7 DEF x
<1> QED BY <1>1, <1>2, <1>6, <1>7, <1>8

LEMMA ChunkValue ==
  ASSUME NEW s \in Seq(Byte), Len(s) <= CHUNK, NEW base, base = 256
  PROVE  \E v, q : /\ IsEval(v, s, base) /\ RustPack!FromBytes(s) = v[Len(s)]
                   /\ ArePowers(q, base, Len(s))
<1>1. Len(s) \in Nat /\ s \in Seq(0 .. base - 1) /\ s \in Seq(Nat) /\ base \in Nat \ {0}
      /\ base \in Nat
  <2>1. Byte = 0 .. base - 1 /\ Byte \subseteq Nat
    BY DEF Byte
  <2>2. s \in Seq(0 .. base - 1)
    BY <2>1
  <2>3. s \in Seq(Nat)
    BY <2>1, SeqWiden
  <2>4. Len(s) \in Nat /\ base \in Nat \ {0} /\ base \in Nat
    OBVIOUS
  <2> QED BY <2>2, <2>3, <2>4
<1>2. PICK v : IsEval(v, s, base)
  BY <1>1, EvalExists
<1> DEFINE q == [k \in 0 .. Len(s) |-> base ^ k]
           n == Len(s)
<1>3. ArePowers(q, base, Len(s))
  <2>1. \A k \in 0 .. n - 1 : 256 ^ (k + 1) = 256 * 256 ^ k
    <3>1. \A k \in 0 .. n - 1 : k \in 0 .. CHUNK - 1
      BY <1>1, ChunkSmall
    <3> QED BY <3>1, PowerAssumption
  <2>2. n \in Nat
    BY <1>1
  <2> HIDE DEF n
  <2>3. ArePowers([k \in 0 .. n |-> 256 ^ k], 256, n)
    BY <2>1, <2>2, PowersUpTo
  <2> QED BY <2>3 DEF n
<1>4. v[n] < q[n] /\ v[n] \in Nat /\ q[n] = 256 ^ n
  <2>1. q[n] = 256 ^ n
    BY <1>1
  <2> HIDE DEF q
  <2>2. v[n] < q[n]
    <3>1. \A k \in 0 .. Len(s) : v[k] < q[k]
      BY <1>1, <1>2, <1>3, EvalBound
    <3> QED BY <1>1, <3>1
  <2> QED BY <1>1, <1>2, <2>1, <2>2 DEF IsEval
<1>5. 256 ^ n <= 256 ^ CHUNK /\ 256 ^ n \in Nat
  <2> DEFINE p == [k \in 0 .. CHUNK |-> base ^ k]
  <2>1. n \in 0 .. CHUNK /\ CHUNK \in Nat
    BY <1>1, ChunkSmall
  <2>2. p[n] = 256 ^ n /\ p[CHUNK] = 256 ^ CHUNK
    BY <2>1
  <2>3. ArePowers(p, base, CHUNK)
    BY BytePowers
  <2> HIDE DEF p, n
  <2>4. p[n] <= p[CHUNK]
    BY <1>1, <2>1, <2>3, PowersGrow
  <2>5. p[n] \in Nat
    BY <2>1, <2>3 DEF ArePowers
  <2> QED BY <2>2, <2>4, <2>5
<1>6. v[n] < P
  <2> DEFINE x == v[n]  y == q[n]
  <2>1. x \in Nat /\ y \in Nat /\ x < y /\ y <= 256 ^ CHUNK
    BY <1>4, <1>5
  <2> HIDE DEF x, y
  <2>2. x < P
    BY <2>1, ChunkSmall, Field
  <2> QED BY <2>2 DEF x
<1>7. RustPack!FromBytes(s) = v[n]
  <2>1. IsEval(v, s, 256)
    BY <1>2
  <2> QED BY <1>1, <2>1, <1>4, <1>6, FromBytesEval, FromBEEval, SmallMod
<1> QED BY <1>2, <1>3, <1>7

LEMMA ChunkInjective ==
  ASSUME NEW a \in Seq(Byte), NEW b \in Seq(Byte), Len(a) = Len(b), Len(a) <= CHUNK,
         RustPack!FromBytes(a) = RustPack!FromBytes(b)
  PROVE  a = b
<1> DEFINE base == 256
<1>0. base = 256 /\ base \in Nat \ {0}
  OBVIOUS
<1>1. a \in Seq(0 .. base - 1) /\ b \in Seq(0 .. base - 1)
  <2>1. Byte = 0 .. base - 1
    BY DEF Byte
  <2> QED BY <2>1
<1> HIDE DEF base
<1>2. PICK v, q : /\ IsEval(v, a, base) /\ RustPack!FromBytes(a) = v[Len(a)]
                  /\ ArePowers(q, base, Len(a))
  BY <1>0, ChunkValue
<1>3. PICK w : IsEval(w, b, base) /\ RustPack!FromBytes(b) = w[Len(b)]
  BY <1>0, ChunkValue
<1>4. v[Len(a)] = w[Len(b)]
  BY <1>2, <1>3
<1> QED BY <1>0, <1>1, <1>2, <1>3, <1>4, EvalInjective

(* The k-th of the chunks of L bytes, and how many there are. *)
count(L) == (L + CHUNK - 1) \div CHUNK

end(L, k) == IF k * CHUNK < L THEN k * CHUNK ELSE L

LEMMA LessFactor ==
  ASSUME NEW a \in Int, NEW b \in Int, NEW w \in Nat \ {0}, a * w < b * w + w
  PROVE  a <= b
<1>1. ~ (a - b >= 1)
  <2>1. (a - b) * w = a * w - b * w
    OBVIOUS
  <2> QED BY <2>1, AtLeastOne
<1> QED BY <1>1

LEMMA ChunkBounds ==
  ASSUME NEW L \in Nat, NEW k \in 1 .. count(L)
  PROVE  /\ count(L) \in Nat
         /\ (k - 1) * CHUNK \in Nat /\ end(L, k) \in Nat /\ (k - 1) * CHUNK <= end(L, k)
         /\ end(L, k) <= L /\ end(L, k) - (k - 1) * CHUNK <= CHUNK
<1> DEFINE n == count(L)  r == (L + CHUNK - 1) % CHUNK
<1>1. CHUNK \in Nat \ {0} /\ L + CHUNK - 1 \in Nat
  BY ChunkSmall
<1>2. n \in Nat /\ r \in 0 .. CHUNK - 1 /\ L + CHUNK - 1 = n * CHUNK + r
  BY <1>1, DivMod DEF count
<1>3. k \in 1 .. n
  OBVIOUS
<1> HIDE DEF n, r
<1> DEFINE d == n - k
<1>4. d \in Nat /\ n = k + d
  BY <1>2, <1>3
<1> HIDE DEF d
<1>5. n * CHUNK = k * CHUNK + d * CHUNK /\ d * CHUNK >= 0 /\ k * CHUNK \in Nat
  BY <1>1, <1>3, <1>4
<1>6. (k - 1) * CHUNK = k * CHUNK - CHUNK /\ (k - 1) * CHUNK \in Nat
  <2> DEFINE e == k - 1
  <2>1. e \in Nat /\ k = e + 1
    BY <1>3
  <2> HIDE DEF e
  <2> QED BY <1>1, <2>1 DEF e
<1> DEFINE x == k * CHUNK  y == n * CHUNK  z == d * CHUNK
<1>7. y = x + z /\ z >= 0 /\ x \in Nat /\ z \in Int /\ L + CHUNK - 1 = y + r
  BY <1>1, <1>2, <1>4, <1>5
<1> HIDE DEF x, y, z
<1>8. x - CHUNK <= L
  BY <1>1, <1>2, <1>7
<1>9. end(L, k) = IF x < L THEN x ELSE L
  BY DEF end, x
<1>10. (k - 1) * CHUNK = x - CHUNK /\ (k - 1) * CHUNK \in Nat
  BY <1>6 DEF x
<1> QED BY <1>1, <1>2, <1>7, <1>8, <1>9, <1>10 DEF n

LEMMA ChunkOf ==
  ASSUME NEW L \in Nat, NEW i \in 1 .. L
  PROVE  \E k \in 1 .. count(L) : \E j \in 1 .. end(L, k) - (k - 1) * CHUNK :
            i = (k - 1) * CHUNK + j
<1> DEFINE n == count(L)  r == (L + CHUNK - 1) % CHUNK
           d == (i - 1) \div CHUNK  m == (i - 1) % CHUNK
<1>1. CHUNK \in Nat \ {0} /\ L + CHUNK - 1 \in Nat /\ i - 1 \in Nat
  BY ChunkSmall
<1>2. n \in Nat /\ r \in 0 .. CHUNK - 1 /\ L + CHUNK - 1 = n * CHUNK + r
  BY <1>1, DivMod DEF count
<1>3. d \in Nat /\ m \in 0 .. CHUNK - 1 /\ i - 1 = d * CHUNK + m
  BY <1>1, DivMod
<1> HIDE DEF n, r, d, m
<1> DEFINE x == d * CHUNK  k == d + 1  j == m + 1
<1>4. x \in Nat /\ i = x + j /\ k * CHUNK = x + CHUNK /\ (k - 1) * CHUNK = x
  <2>1. x \in Nat /\ i = x + j
    BY <1>1, <1>3
  <2>2. (d + 1) * CHUNK = d * CHUNK + CHUNK /\ (d + 1) - 1 = d
    BY <1>1, <1>3
  <2> QED BY <1>1, <1>3, <2>1, <2>2
<1>5. k <= n
  <2>1. k * CHUNK < n * CHUNK + CHUNK
    <3> DEFINE y == n * CHUNK
    <3>1. y \in Int /\ L + CHUNK - 1 = y + r
      BY <1>1, <1>2
    <3> HIDE DEF y, x
    <3>2. x + CHUNK < y + CHUNK
      BY <1>1, <1>2, <1>3, <1>4, <3>1
    <3> QED BY <1>4, <3>2 DEF y
  <2>2. k \in Int
    BY <1>3
  <2> HIDE DEF k
  <2> QED BY <1>1, <1>2, <2>1, <2>2, LessFactor
<1>6. end(L, k) = IF x + CHUNK < L THEN x + CHUNK ELSE L
  BY <1>4 DEF end
<1> HIDE DEF x
<1>7. k \in 1 .. n /\ j \in 1 .. end(L, k) - (k - 1) * CHUNK
  <2>1. k \in 1 .. n
    BY <1>2, <1>3, <1>5
  <2>2. j \in 1 .. end(L, k) - x
    BY <1>1, <1>3, <1>4, <1>6
  <2> QED BY <1>4, <2>1, <2>2
<1>8. i = (k - 1) * CHUNK + j
  BY <1>4
<1> QED BY <1>7, <1>8 DEF n

(* No two lengths have the same number of chunks and the same residue. *)
LEMMA LengthKept ==
  ASSUME NEW L \in Nat, NEW M \in Nat, count(L) = count(M), L % P = M % P
  PROVE  L = M
<1> DEFINE n == count(L)  r == (L + CHUNK - 1) % CHUNK  u == (M + CHUNK - 1) % CHUNK
           x == n * CHUNK  d == L \div P  e == M \div P  m == L % P
<1>1. CHUNK \in Nat \ {0} /\ CHUNK < P /\ L + CHUNK - 1 \in Nat /\ M + CHUNK - 1 \in Nat
  BY ChunkSmall
<1>2. n \in Nat /\ r \in 0 .. CHUNK - 1 /\ L + CHUNK - 1 = n * CHUNK + r
  BY <1>1, DivMod DEF count
<1>3. u \in 0 .. CHUNK - 1 /\ M + CHUNK - 1 = n * CHUNK + u
  BY <1>1, DivMod DEF count
<1>4. d \in Nat /\ e \in Nat /\ m \in 0 .. P - 1 /\ L = d * P + m
  BY Field, DivMod
<1>5. M = e * P + m
  BY Field, DivMod
<1>6. x \in Int
  BY <1>1, <1>2
<1> HIDE DEF n, r, u, d, e, m
<1>7. L + CHUNK - 1 = x + r /\ M + CHUNK - 1 = x + u
  BY <1>2, <1>3
<1> HIDE DEF x
<1>8. L - M < P /\ M - L < P
  BY <1>1, <1>2, <1>3, <1>6, <1>7, Field
<1>9. (d - e) * P = L - M /\ (e - d) * P = M - L
  BY <1>4, <1>5, Field
<1>10. ~ (d - e >= 1)
  <2>1. (d - e) * P >= P \/ ~ (d - e >= 1)
    BY <1>4, Field, AtLeastOne
  <2> QED BY <1>8, <1>9, <2>1, Field
<1>11. ~ (e - d >= 1)
  <2>1. (e - d) * P >= P \/ ~ (e - d >= 1)
    BY <1>4, Field, AtLeastOne
  <2> QED BY <1>8, <1>9, <2>1, Field
<1>12. d = e
  BY <1>4, <1>10, <1>11
<1> QED BY <1>4, <1>5, <1>12

LEMMA PackShape ==
  ASSUME NEW d \in Seq(Byte)
  PROVE  /\ Len(Pack(d)) = count(Len(d)) + 1 /\ Pack(d)[1] = Len(d) % P
         /\ count(Len(d)) \in Nat
         /\ \A k \in 1 .. count(Len(d)) :
              Pack(d)[1 + k] = RustPack!FromBytes(Part(d, (k - 1) * CHUNK, end(Len(d), k)))
<1> DEFINE n == count(Len(d))
           e(k) == RustPack!FromBytes(Part(d, (k - 1) * CHUNK, end(Len(d), k)))
           x == Len(d) % P
           f == [k \in 1 .. n |-> e(k)]
           D == {x} \cup {e(k) : k \in 1 .. n}
<1>1. n \in Nat
  <2>1. Len(d) + CHUNK - 1 \in Nat /\ CHUNK \in Nat \ {0}
    BY ChunkSmall
  <2> QED BY <2>1, DivMod DEF count
<1>2. Pack(d) = <<x>> \o f
  BY DEF Pack, RustPack!Pack, count, end, Part
<1>3. x \in D /\ f \in [1 .. n -> D]
  OBVIOUS
<1> HIDE DEF D, x
<1>4. <<x>> \in Seq(D) /\ Len(<<x>>) = 1 /\ <<x>>[1] = x
  BY <1>3
<1>5. f \in Seq(D) /\ Len(f) = n /\ \A k \in 1 .. n : f[k] = e(k)
  BY <1>1, <1>3
<1> HIDE DEF f, n, e
<1>6. Len(<<x>> \o f) = 1 + n /\ (<<x>> \o f)[1] = x
      /\ \A k \in 1 .. n : (<<x>> \o f)[1 + k] = f[k]
  BY <1>4, <1>5, ConcatElements
<1>7. Len(Pack(d)) = n + 1 /\ Pack(d)[1] = x /\ \A k \in 1 .. n : Pack(d)[1 + k] = e(k)
  BY <1>1, <1>2, <1>5, <1>6
<1> QED BY <1>1, <1>7 DEF n, x, e

(* Byte strings with the same packing are the same: the digest of one      *)
(* stands for no other.                                                    *)
THEOREM PackInjective ==
  ASSUME NEW a \in Seq(Byte), NEW b \in Seq(Byte), Pack(a) = Pack(b)
  PROVE  a = b
<1> DEFINE L == Len(a)
<1>1. L \in Nat /\ Len(b) \in Nat
  OBVIOUS
<1>2. count(L) = count(Len(b)) /\ L % P = Len(b) % P
  BY PackShape
<1>3. Len(b) = L
  BY <1>1, <1>2, LengthKept
<1>4. ASSUME NEW k \in 1 .. count(L)
      PROVE  Part(a, (k - 1) * CHUNK, end(L, k)) = Part(b, (k - 1) * CHUNK, end(L, k))
  <2> DEFINE from == (k - 1) * CHUNK
             to == end(L, k)
             s == Part(a, from, to)
             t == Part(b, from, to)
  <2>1. /\ from \in Nat /\ to \in Nat /\ from <= to /\ to <= Len(a) /\ to <= Len(b)
        /\ to - from <= CHUNK
    <3> HIDE DEF L
    <3>1. /\ from \in Nat /\ to \in Nat /\ from <= to /\ to <= L /\ to - from <= CHUNK
      BY <1>1, ChunkBounds
    <3> QED BY <1>3, <3>1 DEF L
  <2>2. RustPack!FromBytes(s) = RustPack!FromBytes(t)
    <3>1. Pack(a)[1 + k] = RustPack!FromBytes(s)
      BY PackShape
    <3>2. Pack(b)[1 + k] = RustPack!FromBytes(t)
      BY <1>3, PackShape
    <3> QED BY <3>1, <3>2
  <2> HIDE DEF from, to
  <2>3. s \in Seq(Byte) /\ Len(s) = to - from
    BY <2>1, PartFacts
  <2>4. t \in Seq(Byte) /\ Len(t) = to - from
    BY <2>1, PartFacts
  <2> HIDE DEF s, t
  <2>5. s = t
    BY <2>1, <2>2, <2>3, <2>4, ChunkInjective
  <2> QED BY <2>5 DEF s, t, from, to
<1>5. ASSUME NEW i \in 1 .. L PROVE a[i] = b[i]
  <2>1. PICK k \in 1 .. count(L) : \E j \in 1 .. end(L, k) - (k - 1) * CHUNK :
            i = (k - 1) * CHUNK + j
    BY <1>1, ChunkOf
  <2> DEFINE from == (k - 1) * CHUNK
             to == end(L, k)
  <2>2. PICK j \in 1 .. to - from : i = from + j
    BY <2>1
  <2>3. /\ from \in Nat /\ to \in Nat /\ from <= to /\ to <= Len(a) /\ to <= Len(b)
    <3> HIDE DEF L
    <3>1. /\ from \in Nat /\ to \in Nat /\ from <= to /\ to <= L
      BY <1>1, ChunkBounds
    <3> QED BY <1>3, <3>1 DEF L
  <2>4. Part(a, from, to) = Part(b, from, to)
    BY <1>4
  <2> HIDE DEF from, to
  <2>5. Part(a, from, to)[j] = a[from + j]
    BY <2>2, <2>3, PartFacts
  <2>6. Part(b, from, to)[j] = b[from + j]
    BY <2>2, <2>3, PartFacts
  <2> QED BY <2>2, <2>4, <2>5, <2>6
<1> QED BY <1>3, <1>5, SeqEqual

(* The circuit packs as the native code does. *)
THEOREM GadgetIsNative ==
  ASSUME NEW d \in Seq(Byte)
  PROVE  GadgetPack(d) = Pack(d)
<1> DEFINE n == count(Len(d))
           s(k) == Part(d, (k - 1) * CHUNK, end(Len(d), k))
<1>1. GadgetPack(d) = <<Len(d) % P>> \o [k \in 1 .. n |-> Horner(s(k), 256)]
  BY DEF GadgetPack, Chunks, count, end, Part
<1>2. Pack(d) = <<Len(d) % P>> \o [k \in 1 .. n |-> RustPack!FromBytes(s(k))]
  BY DEF Pack, RustPack!Pack, count, end, Part
<1>3. ASSUME NEW k \in 1 .. n PROVE Horner(s(k), 256) = RustPack!FromBytes(s(k))
  <2> DEFINE from == (k - 1) * CHUNK
             to == end(Len(d), k)
             t == Part(d, from, to)
  <2>1. /\ from \in Nat /\ to \in Nat /\ from <= to /\ to <= Len(d)
    <3>1. Len(d) \in Nat
      OBVIOUS
    <3> QED BY <3>1, ChunkBounds
  <2> HIDE DEF from, to
  <2>2. t \in Seq(Byte)
    BY <2>1, PartFacts
  <2> HIDE DEF t
  <2>3. t \in Seq(Nat)
    <3>1. Byte \subseteq Nat
      BY DEF Byte
    <3> QED BY <2>2, <3>1, SeqWiden
  <2>4. PICK v : IsEval(v, t, 256)
    BY <2>3, EvalExists
  <2>5. Horner(t, 256) = v[Len(t)] % P
    BY <2>3, <2>4, HornerEval
  <2>6. RustPack!FromBytes(t) = v[Len(t)] % P
    BY <2>3, <2>4, FromBytesEval, FromBEEval
  <2> QED BY <2>5, <2>6 DEF t, from, to
<1> HIDE DEF s
<1>4. [k \in 1 .. n |-> Horner(s(k), 256)] = [k \in 1 .. n |-> RustPack!FromBytes(s(k))]
  BY <1>3
<1> QED BY <1>1, <1>2, <1>4

(* The statement that is proved, in one line: given its own packings, the  *)
(* circuit accepts a text exactly if it is the rendering of the call data. *)
THEOREM SatisfiedIsRendering ==
  ASSUME NEW c \in Seq(Byte), NEW t \in Seq(Byte), WellSized(c, t)
  PROVE  Satisfied(c, t, Pack(c), Pack(t)) <=> render_transfer_text(c) = t
<1>1. Satisfied(c, t, Pack(c), Pack(t)) <=> enforce_transfer_template(c, t)
  BY GadgetIsNative DEF Satisfied
<1> QED BY <1>1, TemplateSound, TemplateComplete

LEMMA PackType ==
  ASSUME NEW d \in Seq(Byte)
  PROVE  Pack(d) \in Seq(Nat)
<1> DEFINE n == count(Len(d))
           e(k) == RustPack!FromBytes(Part(d, (k - 1) * CHUNK, end(Len(d), k)))
           x == Len(d) % P
           f == [k \in 1 .. n |-> e(k)]
<1>1. n \in Nat /\ Len(d) \in Nat
  BY PackShape
<1>2. Pack(d) = <<x>> \o f
  BY DEF Pack, RustPack!Pack, count, end, Part
<1>3. x \in Nat
  BY <1>1, Field
<1>4. ASSUME NEW k \in 1 .. n PROVE e(k) \in Nat
  <2> DEFINE from == (k - 1) * CHUNK
             to == end(Len(d), k)
             s == Part(d, from, to)
  <2>1. /\ from \in Nat /\ to \in Nat /\ from <= to /\ to <= Len(d) /\ to - from <= CHUNK
    BY <1>1, ChunkBounds
  <2> HIDE DEF from, to
  <2>2. s \in Seq(Byte) /\ Len(s) <= CHUNK
    BY <2>1, PartFacts
  <2> HIDE DEF s
  <2> DEFINE base == 256
  <2>3. base = 256
    OBVIOUS
  <2> HIDE DEF base
  <2>4. PICK v, q : /\ IsEval(v, s, base) /\ RustPack!FromBytes(s) = v[Len(s)]
                    /\ ArePowers(q, base, Len(s))
    BY <2>2, <2>3, ChunkValue
  <2>5. v[Len(s)] \in Nat
    BY <2>2, <2>4 DEF IsEval
  <2> QED BY <2>4, <2>5 DEF s, from, to
<1> HIDE DEF n, x, e
<1>5. f \in [1 .. n -> Nat]
  BY <1>4
<1>6. f \in Seq(Nat) /\ <<x>> \in Seq(Nat)
  BY <1>1, <1>3, <1>5
<1> HIDE DEF f
<1>7. <<x>> \o f \in Seq(Nat)
  BY <1>6, ConcatElements
<1> QED BY <1>2, <1>7

-----------------------------------------------------------------------------
(* The protocol. *)

(* A proof is bound to the packings of its witness, and valid for a text   *)
(* that the circuit accepts only.                                          *)
ProofInv(p) ==
  /\ p \in Proof
  /\ p.inputs = <<Pack(p.calldata), Pack(p.text)>>
  /\ p.valid => WellSized(p.calldata, p.text) /\ enforce_transfer_template(p.calldata, p.text)
  /\ Texts(p.text) \subseteq Seq(Byte)

(* The device's two inputs are the packings of what it was given, as soon  *)
(* as it has them; a verdict of 1 is of the request's proof for those, and *)
(* the text on display is the request's.                                   *)
IInv ==
  /\ IsFiniteSet(proofs)
  /\ \A p \in proofs : ProofInv(p)
  /\ pi \in [1 .. 2 -> Seq(Nat) \cup {None}]
  /\ verdict \in {None, 0, 1}
  /\ pc # "idle" => request # None
  /\ request # None => request \in Request /\ request.proof \in proofs
  /\ request # None /\ pc # "calldata" => pi[1] = Pack(request.calldata)
  /\ request # None /\ pc \notin {"calldata", "text"} => pi[2] = Pack(request.text)
  /\ verdict = 1 => request # None /\ Verifies(request.proof, pi)
  /\ shown # None => request # None /\ verdict = 1 /\ shown = request.text
  /\ TypeOK

LEMMA Initial ==
  ASSUME Init
  PROVE  IInv
<1>1. IsFiniteSet(proofs) /\ Cardinality(proofs) <= MaxProofs
  BY FS_EmptySet, WitnessAssumption DEF Init
<1>2. pi \in [1 .. 2 -> Seq(Nat) \cup {None}] /\ pi[1] = None /\ pi[2] = None
  BY DEF Init
<1> QED BY <1>1, <1>2, NoneAssumption DEF Init, IInv, TypeOK

LEMMA ProveInv ==
  ASSUME IInv, NEW w \in Witnesses \cup Several, prove(w[1], w[2])
  PROVE  IInv'
<1> DEFINE c == w[1]
           t == w[2]
           valid == Satisfied(c, t, Pack(c), Pack(t))
           p == [calldata |-> c, text |-> t, inputs |-> <<Pack(c), Pack(t)>>, valid |-> valid]
<1>1. c \in Seq(Byte) /\ t \in Seq(Byte) /\ Texts(t) \subseteq Seq(Byte)
  BY WitnessAssumption
<1>2. proofs' = proofs \cup {p} /\ WellSized(c, t) /\ Cardinality(proofs) < MaxProofs
      /\ UNCHANGED <<pc, request, pi, verdict, shown>>
  BY DEF prove
<1>3. valid \in BOOLEAN /\ (valid => enforce_transfer_template(c, t))
  BY DEF Satisfied
<1> HIDE DEF c, t, valid
<1>4. ProofInv(p)
  <2>1. Pack(c) \in Seq(Nat) /\ Pack(t) \in Seq(Nat)
    BY <1>1, PackType
  <2>2. <<Pack(c), Pack(t)>> \in Seq(Seq(Nat))
    BY <2>1
  <2>3. p \in Proof
    BY <1>1, <1>3, <2>2 DEF Proof
  <2> QED BY <1>1, <1>2, <1>3, <2>3 DEF ProofInv
<1> HIDE DEF p
<1>5. IsFiniteSet(proofs') /\ Cardinality(proofs') <= MaxProofs
  <2>1. IsFiniteSet(proofs)
    BY DEF IInv
  <2>2. /\ IsFiniteSet(proofs \cup {p}) /\ Cardinality(proofs) \in Nat
        /\ Cardinality(proofs \cup {p}) = Cardinality(proofs)
           \/ Cardinality(proofs \cup {p}) = Cardinality(proofs) + 1
    BY <2>1, FS_AddElement, FS_CardinalityType
  <2> QED BY <1>2, <2>2, WitnessAssumption
<1>6. \A x \in proofs' : ProofInv(x)
  BY <1>2, <1>4 DEF IInv
<1>7. TypeOK'
  BY <1>2, <1>5 DEF IInv, TypeOK
<1> QED BY <1>2, <1>5, <1>6, <1>7 DEF IInv, Verifies

LEMMA ReceiveInv ==
  ASSUME IInv, NEW u \in proofs, NEW v \in proofs, NEW proof \in proofs, NEW t \in Texts(v.text),
         Receive(u.calldata, t, proof)
  PROVE  IInv'
<1>1. u.calldata \in Seq(Byte) /\ t \in Seq(Byte) /\ proof \in Proof
  <2>1. ProofInv(u) /\ ProofInv(v) /\ ProofInv(proof)
    BY DEF IInv
  <2> QED BY <2>1 DEF ProofInv, Proof
<1>2. request' \in Request /\ request'.proof \in proofs
  BY <1>1 DEF Receive, Request
<1>3. /\ proofs' = proofs /\ pc' = "calldata" /\ request' # None
      /\ pi' = <<None, None>> /\ verdict' = None /\ shown' = None
  BY <1>2, NoneAssumption DEF Receive
<1>4. pi' \in [1 .. 2 -> Seq(Nat) \cup {None}] /\ pi'[1] = None /\ pi'[2] = None
  BY <1>3
<1>5. TypeOK'
  BY <1>2, <1>3, <1>4 DEF IInv, TypeOK
<1>6. None # 1
  BY NoneAssumption
<1> QED BY <1>2, <1>3, <1>4, <1>5, <1>6 DEF IInv

(* What the device knows of its request. *)
LEMMA Requested ==
  ASSUME IInv, pc # "idle"
  PROVE  /\ request # None /\ request \in Request /\ request.proof \in proofs
         /\ request.calldata \in Seq(Byte) /\ request.text \in Seq(Byte)
         /\ shown = None
         /\ Pack(request.calldata) \in Seq(Nat) /\ Pack(request.calldata) # None
         /\ Pack(request.text) \in Seq(Nat) /\ Pack(request.text) # None
<1>1. request # None /\ request \in Request /\ request.proof \in proofs /\ shown = None
  BY DEF IInv, TypeOK
<1>2. request.calldata \in Seq(Byte) /\ request.text \in Seq(Byte)
  BY <1>1 DEF Request
<1> QED BY <1>1, <1>2, PackType, NoneAssumption

LEMMA HashCalldataInv ==
  ASSUME IInv, HashCalldata
  PROVE  IInv'
<1>1. /\ pc = "calldata" /\ pc' = "text" /\ pi' = [pi EXCEPT ![1] = Pack(request.calldata)]
      /\ UNCHANGED <<proofs, request, verdict, shown>>
  BY DEF HashCalldata
<1>2. pi \in [1 .. 2 -> Seq(Nat) \cup {None}] /\ pi[2] = None /\ verdict = None
  BY <1>1, Requested DEF IInv, TypeOK
<1>3. /\ request # None /\ shown = None /\ Pack(request.calldata) \in Seq(Nat)
      /\ Pack(request.calldata) # None
  BY <1>1, Requested
<1>4. /\ pi' \in [1 .. 2 -> Seq(Nat) \cup {None}] /\ pi'[1] = Pack(request.calldata)
      /\ pi'[2] = None
  BY <1>1, <1>2, <1>3
<1>5. TypeOK'
  BY <1>1, <1>2, <1>3, <1>4 DEF IInv, TypeOK
<1>6. None # 1
  BY NoneAssumption
<1> QED BY <1>1, <1>2, <1>3, <1>4, <1>5, <1>6 DEF IInv

LEMMA HashTextInv ==
  ASSUME IInv, HashText
  PROVE  IInv'
<1>1. /\ pc = "text" /\ pc' = "verify" /\ pi' = [pi EXCEPT ![2] = Pack(request.text)]
      /\ UNCHANGED <<proofs, request, verdict, shown>>
  BY DEF HashText, TextSlot
<1>2. /\ pi \in [1 .. 2 -> Seq(Nat) \cup {None}] /\ pi[1] = Pack(request.calldata)
      /\ verdict = None
  BY <1>1, Requested DEF IInv, TypeOK
<1>3. /\ request # None /\ shown = None /\ Pack(request.text) \in Seq(Nat)
      /\ Pack(request.text) # None /\ Pack(request.calldata) # None
  BY <1>1, Requested
<1>4. /\ pi' \in [1 .. 2 -> Seq(Nat) \cup {None}] /\ pi'[1] = Pack(request.calldata)
      /\ pi'[2] = Pack(request.text)
  BY <1>1, <1>2, <1>3
<1>5. TypeOK'
  BY <1>1, <1>2, <1>3, <1>4 DEF IInv, TypeOK
<1>6. None # 1
  BY NoneAssumption
<1> QED BY <1>1, <1>2, <1>3, <1>4, <1>5, <1>6 DEF IInv

LEMMA VerifyInv ==
  ASSUME IInv, groth16_verify_vk
  PROVE  IInv'
<1>1. /\ pc = "verify" /\ pc' = "verified"
      /\ verdict' = (IF Verifies(request.proof, pi) THEN 1 ELSE 0)
      /\ UNCHANGED <<proofs, request, pi, shown>>
  BY DEF groth16_verify_vk
<1>2. request # None /\ shown = None
  BY <1>1, Requested
<1>3. verdict' \in {0, 1} /\ verdict' # None /\ (verdict' = 1 => Verifies(request.proof, pi))
  <2>1. verdict' = 1 \/ verdict' = 0
    BY <1>1
  <2>2. verdict' # None
    BY <2>1, NoneAssumption
  <2> QED BY <1>1, <2>1, <2>2
<1>4. TypeOK'
  BY <1>1, <1>2, <1>3 DEF IInv, TypeOK
<1> QED BY <1>1, <1>2, <1>3, <1>4 DEF IInv, Verifies

LEMMA DisplayInv ==
  ASSUME IInv, Display
  PROVE  IInv'
<1>1. /\ pc = "verified" /\ pc' = "idle"
      /\ shown' = (IF verdict = 1 THEN request.text ELSE None)
      /\ UNCHANGED <<proofs, request, pi, verdict>>
  BY DEF Display
<1>2. request # None
  BY <1>1, Requested
<1>3. TypeOK'
  BY <1>1, <1>2 DEF IInv, TypeOK
<1> QED BY <1>1, <1>2, <1>3 DEF IInv, Verifies

LEMMA Inductive == IInv /\ [Next]_vars => IInv'
<1> SUFFICES ASSUME IInv, [Next]_vars PROVE IInv'
  OBVIOUS
<1>1. CASE \E w \in Provable : prove(w[1], w[2])
  <2>1. Provable \subseteq Witnesses \cup Several
    BY DEF Provable
  <2> QED BY <1>1, <2>1, ProveInv
<1>2. CASE \E u, v, proof \in proofs : \E t \in Texts(v.text) : Receive(u.calldata, t, proof)
  BY <1>2, ReceiveInv
<1>3. CASE Device
  BY <1>3, HashCalldataInv, HashTextInv, VerifyInv, DisplayInv DEF Device
<1>4. CASE UNCHANGED vars
  BY <1>4 DEF vars, IInv, TypeOK, Verifies
<1> QED BY <1>1, <1>2, <1>3, <1>4 DEF Next

LEMMA Invariance == Spec => []IInv
<1>1. Init => IInv
  BY Initial
<1> QED BY <1>1, Inductive, PTL DEF Spec

(* A proof that verifies for what the device hashed is of that call data   *)
(* and of that text, and the text is the rendering of the call data.       *)
LEMMA VerifiedIsRendering ==
  ASSUME NEW p, ProofInv(p), NEW c \in Seq(Byte), NEW t \in Seq(Byte),
         Verifies(p, <<Pack(c), Pack(t)>>)
  PROVE  p.calldata = c /\ p.text = t /\ render_transfer_text(c) = t
<1>1. p.calldata \in Seq(Byte) /\ p.text \in Seq(Byte)
  BY DEF ProofInv, Proof
<1>2. <<Pack(p.calldata), Pack(p.text)>> = <<Pack(c), Pack(t)>> /\ p.valid
  BY DEF ProofInv, Verifies
<1>3. p.calldata = c /\ p.text = t
  <2>1. Pack(p.calldata) = Pack(c) /\ Pack(p.text) = Pack(t)
    BY <1>2
  <2> QED BY <1>1, <2>1, PackInjective
<1>4. WellSized(c, t) /\ enforce_transfer_template(c, t)
  BY <1>2, <1>3 DEF ProofInv
<1> QED BY <1>3, <1>4, TemplateSound

LEMMA Displayed ==
  ASSUME IInv, shown # None
  PROVE  /\ request.proof.calldata = request.calldata /\ request.proof.text = shown
         /\ shown = render_transfer_text(request.calldata)
<1>1. /\ request # None /\ pc = "idle" /\ shown = request.text /\ request \in Request
      /\ request.proof \in proofs /\ Verifies(request.proof, pi)
  BY DEF IInv, TypeOK
<1>2. pi = <<Pack(request.calldata), Pack(request.text)>>
  <2>1. /\ pi \in [1 .. 2 -> Seq(Nat) \cup {None}]
        /\ pi[1] = Pack(request.calldata) /\ pi[2] = Pack(request.text)
    BY <1>1 DEF IInv
  <2> QED BY <2>1
<1>3. request.calldata \in Seq(Byte) /\ request.text \in Seq(Byte) /\ ProofInv(request.proof)
  BY <1>1 DEF Request, IInv
<1> QED BY <1>1, <1>2, <1>3, VerifiedIsRendering

(* TypeOK: both of the device's inputs are there when it verifies, and a   *)
(* request's proof is one that was made.                                   *)
THEOREM TypeCorrect == Spec => []TypeOK
BY Invariance, PTL DEF IInv

(* Whatever witnesses were proved and however call data, text and proof    *)
(* are put together, the text on display is the native rendering of the    *)
(* call data: for every template's widths, field and chunk.                *)
THEOREM WysiwysSafe == Spec => []DisplayedIsRendering
<1>1. IInv => DisplayedIsRendering
  BY Displayed DEF DisplayedIsRendering
<1> QED BY <1>1, Invariance, PTL

(* And it belongs to the proof's own call data and text. *)
THEOREM NoMixing == Spec => []DisplayedWasProved
<1>1. IInv => DisplayedWasProved
  BY Displayed DEF DisplayedWasProved
<1> QED BY <1>1, Invariance, PTL
====
