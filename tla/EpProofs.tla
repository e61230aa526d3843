----------------------------- MODULE EpProofs -----------------------------
(***************************************************************************)
(* Theorems about the points of G1, for every curve of the family that the *)
(* assumptions allow: the addition formulas keep their memory typed in     *)
(* whatever aliasing; the endomorphism splits every scalar into two halves *)
(* that stand for it and are short; recodings into non-adjacent forms lose *)
(* nothing, and fit the arrays they are stored in.                         *)
(***************************************************************************)
EXTENDS RelicProofs, Ep

-----------------------------------------------------------------------------
(* The family's parameters. *)

LEMMA Square == ASSUME NEW v \in Int PROVE v * v \in Nat /\ (v # 0 => v * v >= 1)
<1>1. CASE v >= 0
  <2>1. v * v >= 0
    BY <1>1
  <2>2. v >= 1 => v * v >= 1
    BY <1>1
  <2> QED BY <1>1, <2>1, <2>2
<1>2. CASE v < 0
  <2> DEFINE w == -v
  <2>1. w \in Nat /\ w >= 1 /\ v * v = w * w
    BY <1>2
  <2> HIDE DEF w
  <2>2. w * w >= 1
    BY <2>1
  <2> QED BY <2>1, <2>2
<1> QED BY <1>1, <1>2

(* The order is (6 u^2 + 3 u)^2 + (3 u + 1)^2. *)
LEMMA OrderIs ==
  /\ Order \in Nat /\ Order >= 4
  /\ Order = 36 * Par * Par * Par * Par + 36 * Par * Par * Par + 18 * Par * Par + 6 * Par + 1
<1> DEFINE u == Par  s == u * u  c == u * s  q == u * c
<1>1. u \in Int /\ u # 0 /\ s \in Int /\ c \in Int /\ q \in Int /\ P \in Int
  BY CurveAssumption, LazyFpAssumption
<1>2. P = 36 * q + 36 * c + 24 * s + 6 * u + 1 /\ Order = P - 6 * s
  BY <1>1, CurveAssumption
<1>3. Order \in Int /\ Order = 36 * q + 36 * c + 18 * s + 6 * u + 1
  <2> HIDE DEF q, c, s, u
  <2> QED BY <1>1, <1>2
<1>4. 36 * q + 36 * c + 18 * s + 6 * u + 1
       = 36 * Par * Par * Par * Par + 36 * Par * Par * Par + 18 * Par * Par + 6 * Par + 1
  BY <1>1
<1> DEFINE g == 6 * s + 3 * u  h == 3 * u + 1
<1>5. g * g = 36 * q + 36 * c + 9 * s
  <2>1. g * g = 36 * (s * s) + 36 * (s * u) + 9 * (u * u)
    <3> HIDE DEF s, u
    <3> QED BY <1>1
  <2>2. s * s = q /\ s * u = c
    BY <1>1
  <2> QED BY <2>1, <2>2
<1>6. h * h = 9 * s + 6 * u + 1
  BY <1>1
<1> HIDE DEF q, c, s, u
<1>7. g \in Int /\ h \in Int
  BY <1>1
<1>8. g * g \in Nat
  BY <1>7, Square
<1>9. h * h >= 4
  <2>1. h >= 4 \/ h <= -2
    BY <1>1
  <2>2. CASE h >= 4
    <3>1. h * h >= 4
      <4> HIDE DEF h
      <4> QED BY <1>7, <2>2
    <3> QED BY <3>1
  <2>3. CASE h <= -2
    <3> DEFINE w == -h
    <3>1. w >= 2 /\ w \in Nat /\ h * h = w * w
      <4> HIDE DEF h
      <4> QED BY <1>7, <2>3
    <3>2. w * w >= 4
      <4> HIDE DEF w
      <4> QED BY <3>1
    <3> QED BY <3>1, <3>2
  <2> QED BY <2>1, <2>2, <2>3
<1> DEFINE gg == g * g  hh == h * h
<1>10. gg \in Nat /\ hh \in Int /\ hh >= 4 /\ Order = gg + hh
  <2>1. hh \in Int
    <3> HIDE DEF h
    <3> QED BY <1>7
  <2>2. Order = gg + hh
    <3>1. gg = 36 * q + 36 * c + 9 * s /\ hh = 9 * s + 6 * u + 1
      BY <1>5, <1>6
    <3> HIDE DEF gg, hh
    <3> QED BY <1>1, <1>3, <3>1
  <2> QED BY <1>8, <1>9, <2>1, <2>2
<1> HIDE DEF gg, hh
<1>11. Order \in Nat /\ Order >= 4
  BY <1>10
<1> QED BY <1>3, <1>4, <1>11

LEMMA LambdaNat == lambda \in Nat
<1> DEFINE q == 36 * Par * Par * Par * Par
<1>1. q \in Int
  BY CurveAssumption
<1>2. Order \in Nat
  BY OrderIs
<1>3. lambda = IF Order < q THEN q - Order - 1 ELSE Order - q
  BY DEF lambda
<1> HIDE DEF q
<1> QED BY <1>1, <1>2, <1>3

-----------------------------------------------------------------------------
(* The multiples of the generator. *)

PlainPoints == {<<>>} \cup Complex

LEMMA ChordTyped ==
  ASSUME NEW a \in PlainPoints, NEW b \in Complex
  PROVE  Chord(a, b) \in PlainPoints
<1> DEFINE Sum(s, x) == <<x, (s * (a[1] - x) - a[2]) % P>>
           Along(s)  == Sum(s, (s * s - a[1] - b[1]) % P)
           S == (IF a = b THEN 3 * a[1] * a[1] * InvMod[(2 * a[2]) % P]
                 ELSE ((b[2] - a[2]) % P) * InvMod[(b[1] - a[1]) % P]) % P
<1>1. Chord(a, b) = IF a = <<>> THEN b ELSE IF a[1] = b[1] /\ a[2] # b[2] THEN <<>> ELSE Along(S)
  BY DEF Chord
<1>2. CASE a = <<>>
  BY <1>1, <1>2 DEF PlainPoints
<1>3. CASE a # <<>>
  <2>1. /\ a[1] \in Int /\ a[2] \in Int /\ b[1] \in Int /\ b[2] \in Int
    BY <1>3, ComplexParts DEF PlainPoints
  <2>2. (2 * a[2]) % P \in Fp /\ (b[1] - a[1]) % P \in Fp /\ (b[2] - a[2]) % P \in Fp
    BY <2>1, ModTyped
  <2>3. InvMod[(2 * a[2]) % P] \in Fp /\ InvMod[(b[1] - a[1]) % P] \in Fp
    BY <2>2, InvModTyped
  <2>4. /\ InvMod[(2 * a[2]) % P] \in Int /\ InvMod[(b[1] - a[1]) % P] \in Int
        /\ (b[2] - a[2]) % P \in Int
    BY <2>2, <2>3, FpInt
  <2>5. /\ 3 * a[1] * a[1] * InvMod[(2 * a[2]) % P] \in Int
        /\ ((b[2] - a[2]) % P) * InvMod[(b[1] - a[1]) % P] \in Int
    <3> DEFINE y == InvMod[(2 * a[2]) % P]  z == InvMod[(b[1] - a[1]) % P]
               g == (b[2] - a[2]) % P
    <3>1. y \in Int /\ z \in Int /\ g \in Int
      BY <2>4
    <3> HIDE DEF y, z, g
    <3>2. 3 * a[1] * a[1] * y \in Int /\ g * z \in Int
      BY <2>1, <3>1
    <3> QED BY <3>2 DEF y, z, g
  <2>6. S \in Fp
    BY <2>5, ModTyped
  <2> HIDE DEF S
  <2>7. ASSUME NEW s \in Int PROVE Along(s) \in Complex
    <3> DEFINE x == (s * s - a[1] - b[1]) % P
    <3>1. s * s - a[1] - b[1] \in Int
      BY <2>1
    <3>2. x \in Fp /\ x \in Int
      BY <3>1, ModTyped, FpInt
    <3> HIDE DEF x
    <3>3. s * (a[1] - x) - a[2] \in Int
      BY <2>1, <3>2
    <3>4. (s * (a[1] - x) - a[2]) % P \in Fp
      BY <3>3, ModTyped
    <3>5. Along(s) = <<x, (s * (a[1] - x) - a[2]) % P>>
      BY DEF x
    <3> QED BY <3>2, <3>4, <3>5 DEF Complex
  <2>8. S \in Int
    BY <2>6, FpInt
  <2> HIDE DEF Along
  <2> QED BY <1>1, <1>3, <2>7, <2>8 DEF PlainPoints
<1> QED BY <1>2, <1>3

LEMMA MultiplesTyped ==
  Multiples \in Seq(PlainPoints) /\ Len(Multiples) = Order
<1> DEFINE N == Order - 1
           D == Seq(PlainPoints)
           T == [k \in 0 .. N |-> {y \in D : Len(y) = k + 1}]
           Next0(y) == Append(y, Chord(y[Len(y)], Gen))
           Step(k, f) == LET Longer(s) == Append(s, Chord(s[Len(s)], Gen)) IN Longer(f[k - 1])
           Is(f) == f = [k \in 0 .. N |-> IF k = 0 THEN <<<<>>>> ELSE Step(k, f)]
           H == [w \in (1 .. N) \X D |-> Next0(w[2])]
           v == CHOOSE f : Is(f)
<1>0. N \in Nat
  BY OrderIs
<1>1. Multiples = v[N]
  BY DEF Multiples
<1>2. ASSUME NEW k \in 1 .. N, NEW y \in T[k - 1] PROVE y \in D /\ Next0(y) \in T[k]
  <2>1. k - 1 \in 0 .. N /\ k \in 0 .. N
    BY <1>0
  <2>2. y \in D /\ Len(y) = k
    BY <2>1
  <2>3. y[Len(y)] \in PlainPoints
    BY <2>2
  <2>4. Gen \in Complex
    BY EpAssumption DEF Complex
  <2>5. Chord(y[Len(y)], Gen) \in PlainPoints
    BY <2>3, <2>4, ChordTyped
  <2> DEFINE x == Chord(y[Len(y)], Gen)
  <2> HIDE DEF x
  <2>6. Append(y, x) \in D /\ Len(Append(y, x)) = k + 1
    BY <2>2, <2>5 DEF x
  <2> QED BY <2>1, <2>2, <2>6 DEF x
<1>3. <<<<>>>> \in T[0]
  <2>1. <<>> \in PlainPoints
    BY DEF PlainPoints
  <2>2. \A A, x : x \in A => <<x>> \in Seq(A) /\ Len(<<x>>) = 1
    OBVIOUS
  <2>3. <<<<>>>> \in D /\ Len(<<<<>>>>) = 1
    BY <2>1, <2>2, Zenon
  <2> QED BY <1>0, <2>3
<1>4. T \in [0 .. N -> SUBSET D]
  OBVIOUS
<1>5. ASSUME NEW f, NEW k PROVE Step(k, f) = Next0(f[k - 1])
  OBVIOUS
<1> HIDE DEF Next0, N, Step
<1>6. Leads(T, N, H, 1)
  <2> SUFFICES ASSUME NEW k \in 1 .. N, NEW y \in T[k - 1] PROVE H[<<k, y>>] \in T[k]
    BY DEF Leads
  <2>1. H[<<k, y>>] = Next0(y)
    BY <1>2
  <2> QED BY <1>2, <2>1
<1>7. PICK f \in [0 .. N -> D] : LoopOf(f, N, <<<<>>>>, H)
  <2> HIDE DEF H, T, D
  <2> QED BY <1>0, <1>3, <1>4, <1>6, LoopTyped, Zenon
<1>8. Is(f)
  <2>1. ASSUME NEW k \in 1 .. N PROVE H[<<k, f[k - 1]>>] = Step(k, f)
    <3>1. k - 1 \in 0 .. N
      BY <1>0
    <3>2. f[k - 1] \in D
      <4> HIDE DEF D
      <4> QED BY <3>1
    <3>3. H[<<k, f[k - 1]>>] = Next0(f[k - 1])
      BY <3>2
    <3> QED BY <1>5, <3>3
  <2>2. \A k \in 0 .. N : k = 0 \/ k \in 1 .. N
    BY <1>0
  <2> HIDE DEF H
  <2> QED BY <1>0, <1>7, <2>1, <2>2 DEF LoopOf
<1>9. Is(v)
  <2> HIDE DEF Is
  <2> QED BY <1>8, Zenon
<1> HIDE DEF v
<1>10. v[0] = <<<<>>>> /\ \A k \in 1 .. N : v[k] = Next0(v[k - 1])
  <2>1. \A k \in 0 .. N : v[k] = IF k = 0 THEN <<<<>>>> ELSE Step(k, v)
    BY <1>9
  <2> QED BY <1>0, <1>5, <2>1
<1> DEFINE S == {k \in 0 .. N : v[k] \in T[k]}
<1>11. 0 \in S
  <2>1. v[0] \in T[0]
    BY <1>3, <1>10
  <2> HIDE DEF T
  <2> QED BY <1>0, <2>1
<1>12. ASSUME NEW k \in 0 .. N - 1, k \in S PROVE k + 1 \in S
  <2>1. k + 1 \in 1 .. N /\ (k + 1) - 1 = k /\ k + 1 \in 0 .. N
    BY <1>0
  <2>2. v[k + 1] = Next0(v[k]) /\ v[k] \in T[(k + 1) - 1]
    BY <1>10, <1>12, <2>1
  <2>3. Next0(v[k]) \in T[k + 1]
    BY <1>2, <2>1, <2>2
  <2> HIDE DEF T
  <2> QED BY <2>1, <2>2, <2>3
<1> HIDE DEF S
<1>13. \A k \in 0 .. N : k \in S
  BY <1>0, <1>11, <1>12, UpTo
<1>14. v[N] \in T[N]
  BY <1>0, <1>13 DEF S
<1>15. v[N] \in D /\ Len(v[N]) = N + 1
  BY <1>0, <1>14
<1>16. N + 1 = Order
  BY OrderIs DEF N
<1> QED BY <1>1, <1>15, <1>16

LEMMA MultiplesIn == ASSUME NEW k \in 0 .. Order - 1 PROVE Multiples[k + 1] \in PlainPoints
<1>1. k + 1 \in 1 .. Order
  BY OrderIs
<1> QED BY <1>1, MultiplesTyped

(* A point, whichever form it is in. *)
ProjPoints == [x : Fp, y : Fp, z : Fp, coord : {"BASIC", "PROJC"}]

LEMMA InftyTyped == infty \in ProjPoints
BY OneTyped DEF infty, ProjPoints

LEMMA AffineTyped == ASSUME NEW k \in 0 .. Order - 1 PROVE AffineMultiple(k) \in ProjPoints
<1> DEFINE a == Multiples[k + 1]
<1>1. a \in PlainPoints
  BY MultiplesIn
<1>2. AffineMultiple(k) = IF a = <<>> THEN infty
                          ELSE [x |-> Monty(a[1]), y |-> Monty(a[2]), z |-> one, coord |-> "BASIC"]
  BY DEF AffineMultiple
<1> HIDE DEF a
<1>3. CASE a = <<>>
  BY <1>2, <1>3, InftyTyped
<1>4. CASE a # <<>>
  <2>1. a[1] \in Int /\ a[2] \in Int
    BY <1>1, <1>4, ComplexParts DEF PlainPoints
  <2>2. Monty(a[1]) \in Fp /\ Monty(a[2]) \in Fp
    BY <2>1, MontyTyped
  <2> QED BY <1>2, <1>4, <2>2, OneTyped DEF ProjPoints
<1> QED BY <1>3, <1>4

-----------------------------------------------------------------------------
(* The formulas, assignment by assignment. *)

Results  == {"rx", "ry", "rz"}
Operands == {"px", "py", "pz", "qx", "qy", "qz", "b"}
Scratch  == {"t0", "t1", "t2", "t3", "t4", "t5"}
Names    == Results \cup Operands \cup Scratch
Writes   == Results \cup Scratch
Instrs   == {"mul", "add", "sub", "dbl", "copy"} \X Writes \X Names \X Names

LEMMA ValueTyped ==
  ASSUME NEW op \in {"mul", "add", "sub", "dbl", "copy"}, NEW a \in Fp, NEW b \in Fp
  PROVE  Value(op, a, b) \in Fp
<1>1. /\ fp_mul(a, b) \in Fp /\ fp_addm_low(a, b) \in Fp /\ fp_subm_low(a, b) \in Fp
      /\ fp_addm_low(a, a) \in Fp
  BY MulTyped, AddmCorrect, SubmCorrect
<1> QED BY <1>1 DEF Value, fp_dblm_low

LEMMA FormulaPieces ==
  /\ AddEnd \in Seq(Instrs) /\ MixBegin \in Seq(Instrs) /\ MixBasic \in Seq(Instrs)
  /\ MixProjc \in Seq(Instrs) /\ MixTriple \in Seq(Instrs)
<1>1. AddEnd \in Seq(Instrs)
  BY DEF AddEnd, Instrs, Names, Writes, Results, Operands, Scratch
<1>2. MixBegin \in Seq(Instrs)
  BY DEF MixBegin, Instrs, Names, Writes, Results, Operands, Scratch
<1>3. MixBasic \in Seq(Instrs)
  BY DEF MixBasic, Instrs, Names, Writes, Results, Operands, Scratch
<1>4. MixProjc \in Seq(Instrs)
  BY DEF MixProjc, Instrs, Names, Writes, Results, Operands, Scratch
<1>5. MixTriple \in Seq(Instrs)
  BY DEF MixTriple, Instrs, Names, Writes, Results, Operands, Scratch
<1> QED BY <1>1, <1>2, <1>3, <1>4, <1>5

LEMMA PlacesTyped ==
  ASSUME NEW c \in Nat, NEW g1 \in 1 .. c, NEW g2 \in 1 .. c, NEW g3 \in 1 .. c, NEW s \in Names
  PROVE  Places(3 * c, g1, g2, g3)[s] \in 1 .. 3 * c + 7
BY DEF Places, Names, Results, Operands, Scratch

LEMMA Joined ==
  ASSUME NEW A, NEW u \in Seq(A), NEW v \in Seq(A)
  PROVE  u \o v \in Seq(A) /\ Len(u \o v) = Len(u) + Len(v)
OBVIOUS

LEMMA FormulasTyped ==
  ASSUME NEW basic \in BOOLEAN
  PROVE  /\ ep_add_projc_mix(basic) \in Seq(Instrs)
         /\ ep_add_projc_imp \in Seq(Instrs)
         /\ ep_dbl_projc_imp(basic) \in Seq(Instrs)
<1>1. ep_add_projc_mix(basic) \in Seq(Instrs)
  <2> DEFINE m == IF basic THEN MixBasic ELSE MixProjc
  <2>1. m \in Seq(Instrs)
    BY FormulaPieces
  <2>2. ep_add_projc_mix(basic) = MixBegin \o m \o MixTriple \o AddEnd
    BY DEF ep_add_projc_mix
  <2> HIDE DEF m
  <2>3. MixBegin \o m \in Seq(Instrs)
    BY <2>1, FormulaPieces, Joined
  <2>4. MixBegin \o m \o MixTriple \in Seq(Instrs)
    BY <2>3, FormulaPieces, Joined
  <2>5. MixBegin \o m \o MixTriple \o AddEnd \in Seq(Instrs)
    BY <2>4, FormulaPieces, Joined
  <2> QED BY <2>2, <2>5
<1>2. ep_add_projc_imp \in Seq(Instrs)
  <2> DEFINE s == <<
               <<"mul", "t0", "px", "qx">>, <<"mul", "t1", "py", "qy">>, <<"mul", "t2", "pz", "qz">>,
               <<"add", "t3", "px", "py">>, <<"add", "t4", "qx", "qy">>, <<"mul", "t3", "t3", "t4">>,
               <<"add", "t4", "t0", "t1">>, <<"sub", "t3", "t3", "t4">>, <<"add", "t4", "py", "pz">>,
               <<"add", "t5", "qy", "qz">>, <<"mul", "t4", "t4", "t5">>, <<"add", "t5", "t1", "t2">>,
               <<"sub", "t4", "t4", "t5">>, <<"add", "ry", "qx", "qz">>, <<"add", "rx", "px", "pz">>,
               <<"mul", "rx", "rx", "ry">>, <<"add", "ry", "t0", "t2">>, <<"sub", "ry", "rx", "ry">>,
               <<"dbl", "rx", "t0", "t0">>, <<"add", "t0", "t0", "rx">>, <<"dbl", "t5", "t2", "t2">>,
               <<"add", "t2", "t2", "t5">>, <<"mul", "t2", "t2", "b">>,  <<"add", "rz", "t1", "t2">>,
               <<"sub", "t1", "t1", "t2">>>>
  <2>1. s \in Seq(Instrs)
    BY DEF Instrs, Names, Writes, Results, Operands, Scratch
  <2>2. ep_add_projc_imp = s \o AddEnd
    BY DEF ep_add_projc_imp
  <2> HIDE DEF s
  <2> QED BY <2>1, <2>2, FormulaPieces, Joined
<1>3. ep_dbl_projc_imp(basic) \in Seq(Instrs)
  <2> DEFINE s == <<<<"mul", "t0", "py", "py">>, <<"mul", "t3", "px", "py">>>>
             m == IF basic THEN << <<"copy", "t1", "py", "py">>, <<"dbl", "t2", "b", "b">>,
                                   <<"add", "t2", "t2", "b">>>>
                  ELSE << <<"mul", "t1", "py", "pz">>, <<"mul", "t2", "pz", "pz">>,
                          <<"dbl", "t5", "t2", "t2">>, <<"add", "t5", "t5", "t2">>,
                          <<"mul", "t2", "t5", "b">>>>
             e == << <<"dbl", "rz", "t0", "t0">>, <<"dbl", "rz", "rz", "rz">>, <<"dbl", "rz", "rz", "rz">>,
                     <<"mul", "rx", "t2", "rz">>, <<"add", "ry", "t0", "t2">>, <<"mul", "rz", "t1", "rz">>,
                     <<"dbl", "t1", "t2", "t2">>, <<"add", "t2", "t1", "t2">>, <<"sub", "t0", "t0", "t2">>,
                     <<"mul", "ry", "t0", "ry">>, <<"add", "ry", "rx", "ry">>, <<"mul", "rx", "t0", "t3">>,
                     <<"dbl", "rx", "rx", "rx">>>>
  <2>1. s \in Seq(Instrs)
    BY DEF Instrs, Names, Writes, Results, Operands, Scratch
  <2>2. m \in Seq(Instrs)
    <3>1. CASE basic
      BY <3>1 DEF Instrs, Names, Writes, Results, Operands, Scratch
    <3>2. CASE ~ basic
      BY <3>2 DEF Instrs, Names, Writes, Results, Operands, Scratch
    <3> QED BY <3>1, <3>2
  <2>3. e \in Seq(Instrs)
    BY DEF Instrs, Names, Writes, Results, Operands, Scratch
  <2>4. ep_dbl_projc_imp(basic) = s \o m \o e
    BY DEF ep_dbl_projc_imp
  <2> HIDE DEF s, m, e
  <2>5. s \o m \in Seq(Instrs)
    BY <2>1, <2>2, Joined
  <2>6. s \o m \o e \in Seq(Instrs)
    BY <2>3, <2>5, Joined
  <2> QED BY <2>4, <2>6
<1> QED BY <1>1, <1>2, <1>3

LEMMA MemoryTyped ==
  ASSUME NEW objs \in Seq(ProjPoints)
  PROVE  Memory(objs) \in [1 .. 3 * Len(objs) + 7 -> Fp]
<1> DEFINE N == Len(objs)
           D == Seq(Fp)
           T == [k \in 0 .. N |-> {y \in D : Len(y) = 3 * k}]
           Next0(k, y) == y \o <<objs[k].x, objs[k].y, objs[k].z>>
           Is(f) == f = [k \in 0 .. Len(objs) |-> IF k = 0 THEN <<>> ELSE Next0(k, f[k - 1])]
           H == [w \in (1 .. N) \X D |-> Next0(w[1], w[2])]
           v == CHOOSE f : Is(f)
           E == <<0, 0, 0, 0, 0, 0, Monty(B)>>
<1>0. N \in Nat /\ Len(objs) = N
  OBVIOUS
<1>1. Memory(objs) = v[Len(objs)] \o E
  BY DEF Memory
<1>2. ASSUME NEW k \in 1 .. N, NEW y \in T[k - 1] PROVE y \in D /\ Next0(k, y) \in T[k]
  <2>1. k - 1 \in 0 .. N /\ k \in 0 .. N
    BY <1>0
  <2>2. y \in D /\ Len(y) = 3 * (k - 1)
    BY <2>1
  <2>3. objs[k] \in ProjPoints
    OBVIOUS
  <2> DEFINE a == <<objs[k].x, objs[k].y, objs[k].z>>
  <2>4. a \in D /\ Len(a) = 3
    BY <2>3 DEF ProjPoints
  <2> HIDE DEF a
  <2>5. y \o a \in D /\ Len(y \o a) = Len(y) + Len(a)
    <3> HIDE DEF T
    <3> QED BY <2>2, <2>4, Joined
  <2>6. Len(y \o a) = 3 * k
    BY <2>1, <2>2, <2>4, <2>5
  <2> QED BY <2>1, <2>2, <2>5, <2>6 DEF a
<1>3. <<>> \in T[0]
  <2>1. (\A A : <<>> \in Seq(A)) /\ Len(<<>>) = 0
    OBVIOUS
  <2>2. <<>> \in D
    BY <2>1, Zenon
  <2> QED BY <1>0, <2>1, <2>2
<1>4. T \in [0 .. N -> SUBSET D]
  OBVIOUS
<1>5. E \in D /\ Len(E) = 7
  <2>1. Monty(B) \in Fp
    <3>1. B \in Int
      BY CurveAssumption, FpInt
    <3> QED BY <3>1, MontyTyped
  <2> QED BY <2>1, OneTyped
<1> HIDE DEF Next0, N, E
<1>6. Leads(T, N, H, 1)
  <2> SUFFICES ASSUME NEW k \in 1 .. N, NEW y \in T[k - 1] PROVE H[<<k, y>>] \in T[k]
    BY DEF Leads
  <2>1. H[<<k, y>>] = Next0(k, y)
    BY <1>2
  <2> QED BY <1>2, <2>1
<1>7. PICK f \in [0 .. N -> D] : LoopOf(f, N, <<>>, H)
  <2> HIDE DEF H, T, D
  <2> QED BY <1>0, <1>3, <1>4, <1>6, LoopTyped, Zenon
<1>8. Is(f)
  <2>1. \A k \in 1 .. N : k - 1 \in 0 .. N /\ H[<<k, f[k - 1]>>] = Next0(k, f[k - 1])
    BY <1>0
  <2>2. \A k \in 0 .. N : k = 0 \/ k \in 1 .. N
    BY <1>0
  <2> HIDE DEF H
  <2> QED BY <1>0, <1>7, <2>1, <2>2 DEF LoopOf
<1>9. Is(v)
  <2> HIDE DEF Is
  <2> QED BY <1>8, Zenon
<1> HIDE DEF v
<1>10. v[0] = <<>> /\ \A k \in 1 .. N : v[k] = Next0(k, v[k - 1])
  <2>1. \A k \in 0 .. N : v[k] = IF k = 0 THEN <<>> ELSE Next0(k, v[k - 1])
    BY <1>0, <1>9
  <2> QED BY <1>0, <2>1
<1> DEFINE S == {k \in 0 .. N : v[k] \in T[k]}
<1>11. 0 \in S
  <2>1. v[0] \in T[0]
    BY <1>3, <1>10
  <2> HIDE DEF T
  <2> QED BY <1>0, <2>1
<1>12. ASSUME NEW k \in 0 .. N - 1, k \in S PROVE k + 1 \in S
  <2>1. k + 1 \in 1 .. N /\ (k + 1) - 1 = k /\ k + 1 \in 0 .. N
    BY <1>0
  <2>2. v[k + 1] = Next0(k + 1, v[k]) /\ v[k] \in T[(k + 1) - 1]
    BY <1>10, <1>12, <2>1
  <2>3. Next0(k + 1, v[k]) \in T[k + 1]
    BY <1>2, <2>1, <2>2
  <2> HIDE DEF T
  <2> QED BY <2>1, <2>2, <2>3
<1> HIDE DEF S
<1>13. \A k \in 0 .. N : k \in S
  BY <1>0, <1>11, <1>12, UpTo
<1>14. v[N] \in T[N]
  BY <1>0, <1>13 DEF S
<1>15. v[N] \in D /\ Len(v[N]) = 3 * N
  <2>1. \A y : y \in T[N] => y \in D /\ Len(y) = 3 * N
    BY <1>0
  <2> HIDE DEF T
  <2> QED BY <1>14, <2>1
<1> DEFINE m == v[N]
<1>16. m \o E \in [1 .. Len(m) + Len(E) -> Fp]
  <2> HIDE DEF m
  <2>1. m \in D
    BY <1>15 DEF m
  <2>2. m \o E \in D /\ Len(m \o E) = Len(m) + Len(E)
    BY <1>5, <2>1, Joined
  <2> DEFINE z == m \o E
  <2> HIDE DEF z
  <2>3. z \in Seq(Fp) => z \in [1 .. Len(z) -> Fp]
    OBVIOUS
  <2> QED BY <2>2, <2>3 DEF z
<1> QED BY <1>0, <1>1, <1>5, <1>15, <1>16

LEMMA AfterTyped ==
  ASSUME NEW formula \in Seq(Instrs), NEW M, NEW at, NEW memory \in [M -> Fp],
         \A s \in Names : at[s] \in M
  PROVE  After(formula, at, memory) \in [M -> Fp]
<1> DEFINE N == Len(formula)
           D == [M -> Fp]
           Assign(m, ins) ==
             [m EXCEPT ![at[ins[2]]] = Value(ins[1], m[at[ins[3]]], m[at[ins[4]]])]
           Next0(k, y) == Assign(y, formula[k])
           Is(f) == f = [k \in 0 .. Len(formula) |->
                           IF k = 0 THEN memory ELSE Assign(f[k - 1], formula[k])]
           H == [w \in (1 .. N) \X D |-> Next0(w[1], w[2])]
           v == CHOOSE f : Is(f)
<1>0. N \in Nat /\ Len(formula) = N
  OBVIOUS
<1>1. After(formula, at, memory) = v[Len(formula)]
  BY DEF After
<1>2. ASSUME NEW k \in 1 .. N, NEW y \in D PROVE Next0(k, y) \in D
  <2> DEFINE ins == formula[k]
  <2>1. ins \in Instrs
    OBVIOUS
  <2>2. /\ ins[1] \in {"mul", "add", "sub", "dbl", "copy"}
        /\ ins[3] \in Names /\ ins[4] \in Names
    BY <2>1 DEF Instrs
  <2>3. y[at[ins[3]]] \in Fp /\ y[at[ins[4]]] \in Fp
    <3>1. at[ins[3]] \in M /\ at[ins[4]] \in M
      BY <2>2
    <3> QED BY <3>1
  <2> DEFINE z == Value(ins[1], y[at[ins[3]]], y[at[ins[4]]])
  <2>4. z \in Fp
    BY <2>2, <2>3, ValueTyped
  <2>5. Next0(k, y) = [y EXCEPT ![at[ins[2]]] = z]
    OBVIOUS
  <2> HIDE DEF z, ins, Next0
  <2> QED BY <2>4, <2>5
<1>20. \A k, y : Next0(k, y) = Assign(y, formula[k])
  OBVIOUS
<1> HIDE DEF Next0, N, Assign
<1>3. H \in [(1 .. N) \X D -> D]
  BY <1>2
<1>4. PICK f \in [0 .. N -> D] : LoopOf(f, N, memory, H)
  <2> HIDE DEF H
  <2> QED BY <1>0, <1>3, LoopExists, Zenon
<1>5. Is(f)
  <2>1. ASSUME NEW k \in 1 .. N PROVE H[<<k, f[k - 1]>>] = Assign(f[k - 1], formula[k])
    <3>1. k - 1 \in 0 .. N
      BY <1>0
    <3>2. f[k - 1] \in D
      <4> HIDE DEF D
      <4> QED BY <3>1
    <3>3. H[<<k, f[k - 1]>>] = Next0(k, f[k - 1])
      BY <3>2
    <3> QED BY <1>20, <3>3
  <2>2. \A k \in 0 .. N : k = 0 \/ k \in 1 .. N
    BY <1>0
  <2> HIDE DEF H
  <2> QED BY <1>0, <1>4, <2>1, <2>2 DEF LoopOf
<1>6. Is(v)
  <2> HIDE DEF Is
  <2> QED BY <1>5, Zenon
<1> HIDE DEF v
<1>7. v[0] = memory /\ \A k \in 1 .. N : v[k] = Next0(k, v[k - 1])
  <2>1. \A k \in 0 .. N : v[k] = IF k = 0 THEN memory ELSE Assign(v[k - 1], formula[k])
    BY <1>0, <1>6
  <2> QED BY <1>0, <1>20, <2>1
<1> DEFINE S == {k \in 0 .. N : v[k] \in D}
<1>8. 0 \in S
  <2> HIDE DEF D
  <2>1. memory \in D
    BY DEF D
  <2> QED BY <1>0, <1>7, <2>1
<1>9. ASSUME NEW k \in 0 .. N - 1, k \in S PROVE k + 1 \in S
  <2>1. k + 1 \in 1 .. N /\ (k + 1) - 1 = k /\ k + 1 \in 0 .. N
    BY <1>0
  <2>2. v[k + 1] = Next0(k + 1, v[k])
    BY <1>7, <2>1
  <2> QED BY <1>2, <1>9, <2>1, <2>2
<1> HIDE DEF S
<1>10. \A k \in 0 .. N : k \in S
  BY <1>0, <1>8, <1>9, UpTo
<1>11. v[N] \in D
  BY <1>0, <1>10 DEF S
<1> QED BY <1>0, <1>1, <1>11

LEMMA RunTyped ==
  ASSUME NEW formula \in Seq(Instrs), NEW objs \in Seq(ProjPoints),
         NEW g1 \in 1 .. Len(objs), NEW g2 \in 1 .. Len(objs), NEW g3 \in 1 .. Len(objs)
  PROVE  /\ Run(formula, objs, g1, g2, g3) \in Seq(ProjPoints)
         /\ Len(Run(formula, objs, g1, g2, g3)) = Len(objs)
<1> DEFINE c  == Len(objs)
           at == Places(3 * c, g1, g2, g3)
           m  == After(formula, at, Memory(objs))
           z  == [x |-> m[3 * g1 - 2], y |-> m[3 * g1 - 1], z |-> m[3 * g1], coord |-> "PROJC"]
<1>0. c \in Nat
  OBVIOUS
<1>1. \A s \in Names : at[s] \in 1 .. 3 * c + 7
  BY <1>0, PlacesTyped
<1>2. Run(formula, objs, g1, g2, g3) = [objs EXCEPT ![g1] = z]
  BY DEF Run
<1>3. Memory(objs) \in [1 .. 3 * c + 7 -> Fp]
  BY MemoryTyped
<1> HIDE DEF at
<1>4. m \in [1 .. 3 * c + 7 -> Fp]
  BY <1>1, <1>3, AfterTyped
<1> HIDE DEF m
<1>5. 3 * g1 - 2 \in 1 .. 3 * c + 7 /\ 3 * g1 - 1 \in 1 .. 3 * c + 7 /\ 3 * g1 \in 1 .. 3 * c + 7
  BY <1>0
<1>6. z \in ProjPoints
  BY <1>4, <1>5 DEF ProjPoints
<1> HIDE DEF z
<1> QED BY <1>2, <1>6

-----------------------------------------------------------------------------
(* The functions on points. *)

LEMMA ProjParts ==
  ASSUME NEW a \in ProjPoints
  PROVE  /\ a.x \in Fp /\ a.y \in Fp /\ a.z \in Fp /\ a.coord \in {"BASIC", "PROJC"}
         /\ a = [x |-> a.x, y |-> a.y, z |-> a.z, coord |-> a.coord]
BY DEF ProjPoints

LEMMA Stored ==
  ASSUME NEW objs \in Seq(ProjPoints), NEW g \in 1 .. Len(objs), NEW a \in ProjPoints
  PROVE  [objs EXCEPT ![g] = a] \in Seq(ProjPoints) /\ Len([objs EXCEPT ![g] = a]) = Len(objs)
OBVIOUS

LEMMA EpAddTyped ==
  ASSUME NEW objs \in Seq(ProjPoints), NEW g1 \in 1 .. Len(objs), NEW g2 \in 1 .. Len(objs),
         NEW g3 \in 1 .. Len(objs)
  PROVE  EpAdd(objs, g1, g2, g3) \in Seq(ProjPoints) /\ Len(EpAdd(objs, g1, g2, g3)) = Len(objs)
<1> DEFINE b == objs[g2].coord = "BASIC"
<1>1. objs[g2] \in ProjPoints /\ objs[g3] \in ProjPoints
  OBVIOUS
<1>2. b \in BOOLEAN
  OBVIOUS
<1>3. EpAdd(objs, g1, g2, g3) \in {[objs EXCEPT ![g1] = objs[g3]], [objs EXCEPT ![g1] = objs[g2]],
                                   Run(ep_add_projc_mix(b), objs, g1, g2, g3),
                                   Run(ep_add_projc_imp, objs, g1, g2, g3)}
  BY DEF EpAdd
<1> HIDE DEF b
<1>4. ep_add_projc_mix(b) \in Seq(Instrs) /\ ep_add_projc_imp \in Seq(Instrs)
  BY <1>2, FormulasTyped
<1>5. \A s \in Seq(Instrs) : /\ Run(s, objs, g1, g2, g3) \in Seq(ProjPoints)
                             /\ Len(Run(s, objs, g1, g2, g3)) = Len(objs)
  BY RunTyped
<1> QED BY <1>1, <1>3, <1>4, <1>5, Stored

LEMMA EpDblTyped ==
  ASSUME NEW objs \in Seq(ProjPoints), NEW g1 \in 1 .. Len(objs), NEW g2 \in 1 .. Len(objs)
  PROVE  EpDbl(objs, g1, g2) \in Seq(ProjPoints) /\ Len(EpDbl(objs, g1, g2)) = Len(objs)
<1> DEFINE b == objs[g2].coord = "BASIC"
<1>1. EpDbl(objs, g1, g2) \in {[objs EXCEPT ![g1] = infty],
                               Run(ep_dbl_projc_imp(b), objs, g1, g2, g2)}
  BY DEF EpDbl
<1>2. b \in BOOLEAN
  OBVIOUS
<1> HIDE DEF b
<1>3. ep_dbl_projc_imp(b) \in Seq(Instrs)
  BY <1>2, FormulasTyped
<1> QED BY <1>1, <1>3, RunTyped, Stored, InftyTyped

LEMMA PointMaps ==
  ASSUME NEW a \in ProjPoints
  PROVE  Neg(a) \in ProjPoints /\ Norm(a) \in ProjPoints /\ Psi(a) \in ProjPoints
<1>1. Neg(a) \in ProjPoints
  <2>1. fp_negm_low(a.y) \in Fp
    BY ProjParts, NegmCorrect
  <2>2. [a EXCEPT !.y = fp_negm_low(@)] \in ProjPoints
    BY <2>1 DEF ProjPoints
  <2> QED BY <2>2, InftyTyped DEF Neg
<1>2. Norm(a) \in ProjPoints
  <2> DEFINE zi == fp_inv(a.z)
             over == [x |-> fp_mul(a.x, zi), y |-> fp_mul(a.y, zi), z |-> one, coord |-> "BASIC"]
  <2>1. Norm(a) \in {infty, a, over}
    BY DEF Norm
  <2>2. zi \in Fp
    BY ProjParts, InvTyped
  <2> HIDE DEF zi
  <2>3. fp_mul(a.x, zi) \in Fp /\ fp_mul(a.y, zi) \in Fp
    BY <2>2, ProjParts, MulTyped
  <2>4. over \in ProjPoints
    BY <2>3, OneTyped DEF ProjPoints
  <2> QED BY <2>1, <2>4, InftyTyped
<1>3. Psi(a) \in ProjPoints
  <2>1. beta \in 2 .. P - 1
    BY EndomorphismAssumption, Zenon DEF beta
  <2>2. Monty(beta) \in Fp
    <3>1. beta \in Int
      BY <2>1
    <3> QED BY <3>1, MontyTyped
  <2>3. fp_mul(a.x, Monty(beta)) \in Fp
    BY <2>2, ProjParts, MulTyped
  <2>4. [a EXCEPT !.x = fp_mul(@, Monty(beta))] \in ProjPoints
    BY <2>3 DEF ProjPoints
  <2> QED BY <2>4, InftyTyped DEF Psi
<1> QED BY <1>1, <1>2, <1>3

LEMMA EpSubTyped ==
  ASSUME NEW objs \in Seq(ProjPoints), NEW g1 \in 1 .. Len(objs), NEW g2 \in 1 .. Len(objs),
         NEW g3 \in 1 .. Len(objs)
  PROVE  EpSub(objs, g1, g2, g3) \in Seq(ProjPoints) /\ Len(EpSub(objs, g1, g2, g3)) = Len(objs)
<1>1. CASE g2 = g3
  BY <1>1, Stored, InftyTyped DEF EpSub
<1>2. CASE g2 # g3
  <2> DEFINE c == Len(objs)  a == Neg(objs[g3])  more == Append(objs, a)
             sum == EpAdd(more, g1, g2, c + 1)
  <2>1. c \in Nat /\ a \in ProjPoints
    BY PointMaps
  <2>2. EpSub(objs, g1, g2, g3) = SubSeq(sum, 1, c)
    BY <1>2 DEF EpSub
  <2> HIDE DEF a
  <2>3. more \in Seq(ProjPoints) /\ Len(more) = c + 1
    BY <2>1
  <2> HIDE DEF more
  <2>4. g1 \in 1 .. Len(more) /\ g2 \in 1 .. Len(more) /\ c + 1 \in 1 .. Len(more)
    BY <2>1, <2>3
  <2>5. sum \in Seq(ProjPoints) /\ Len(sum) = c + 1
    BY <2>3, <2>4, EpAddTyped
  <2> HIDE DEF sum
  <2>6. SubSeq(sum, 1, c) \in Seq(ProjPoints) /\ Len(SubSeq(sum, 1, c)) = c
    BY <2>1, <2>5
  <2> QED BY <2>2, <2>6
<1> QED BY <1>1, <1>2

(* Calls with objects of their own. *)
LEMMA AloneTyped ==
  ASSUME NEW a \in ProjPoints, NEW b \in ProjPoints
  PROVE  /\ EpDbl(<<a>>, 1, 1)[1] \in ProjPoints
         /\ EpAdd(<<a, b>>, 1, 1, 2)[1] \in ProjPoints
         /\ EpSub(<<a, b>>, 1, 1, 2)[1] \in ProjPoints
         /\ EpAdd(<<a, b, infty>>, 3, 1, 2)[3] \in ProjPoints
<1>1. \A s \in Seq(ProjPoints) : \A k \in 1 .. Len(s) : s[k] \in ProjPoints
  OBVIOUS
<1>2. <<a>> \in Seq(ProjPoints) /\ Len(<<a>>) = 1 /\ 1 \in 1 .. 1
  OBVIOUS
<1>3. EpDbl(<<a>>, 1, 1)[1] \in ProjPoints
  BY <1>1, <1>2, EpDblTyped
<1>4. <<a, b>> \in Seq(ProjPoints) /\ Len(<<a, b>>) = 2 /\ 1 \in 1 .. 2 /\ 2 \in 1 .. 2
  OBVIOUS
<1>5. EpAdd(<<a, b>>, 1, 1, 2)[1] \in ProjPoints /\ EpSub(<<a, b>>, 1, 1, 2)[1] \in ProjPoints
  BY <1>1, <1>4, EpAddTyped, EpSubTyped
<1>6. /\ <<a, b, infty>> \in Seq(ProjPoints) /\ Len(<<a, b, infty>>) = 3
      /\ 1 \in 1 .. 3 /\ 2 \in 1 .. 3 /\ 3 \in 1 .. 3
  BY InftyTyped
<1>7. EpAdd(<<a, b, infty>>, 3, 1, 2)[3] \in ProjPoints
  BY <1>1, <1>6, EpAddTyped
<1> QED BY <1>3, <1>5, <1>7

-----------------------------------------------------------------------------
(* Euclid's algorithm on the order and lambda.  For a curve of the family  *)
(* it takes the same four steps whatever the parameter is.                 *)

RowsOf(p, b) ==
  LET rows[x \in Rows] == IF (x[2][1] + 1) * (x[2][1] + 1) > b
                          THEN rows[<<x[2], Below(x[1], x[2])>>] ELSE x
  IN  rows[p]

AboveRoot(v, b) == (v + 1) * (v + 1) > b

LEMMA RowParts ==
  ASSUME NEW p \in Rows
  PROVE  /\ p[1] \in Nat \X Int /\ p[2] \in Nat \X Int /\ p = <<p[1], p[2]>>
         /\ p[1][1] \in Nat /\ p[1][2] \in Int /\ p[2][1] \in Nat /\ p[2][2] \in Int
BY DEF Rows

LEMMA BelowTyped ==
  ASSUME NEW b \in Nat \ {0}, NEW p \in Rows, AboveRoot(p[2][1], b)
  PROVE  <<p[2], Below(p[1], p[2])>> \in Rows /\ Below(p[1], p[2])[1] < p[2][1]
<1> DEFINE a == p[1][1]  c == p[2][1]  f == p[1][2]  g == p[2][2]
<1>1. a \in Nat /\ c \in Nat /\ f \in Int /\ g \in Int
  BY RowParts
<1>2. Below(p[1], p[2]) = <<a % c, f - (a \div c) * g>>
  BY DEF Below
<1>3. AboveRoot(c, b)
  OBVIOUS
<1> HIDE DEF a, c, f, g
<1>4. c # 0
  <2> SUFFICES ASSUME c = 0 PROVE FALSE
    OBVIOUS
  <2>1. (0 + 1) * (0 + 1) > b
    BY <1>3 DEF AboveRoot
  <2> QED BY <2>1
<1>5. a % c \in 0 .. c - 1 /\ a \div c \in Int
  <2>1. c \in Nat \ {0} /\ a \in Int
    BY <1>1, <1>4
  <2> QED BY <2>1, DivMod
<1>6. a % c \in Nat /\ a % c < c
  BY <1>1, <1>5
<1>7. f - (a \div c) * g \in Int
  BY <1>1, <1>5
<1>8. <<a % c, f - (a \div c) * g>> \in Nat \X Int
  BY <1>6, <1>7
<1>9. <<p[2], Below(p[1], p[2])>> \in Rows
  BY <1>2, <1>8, RowParts DEF Rows
<1>10. Below(p[1], p[2])[1] = a % c
  BY <1>2
<1> QED BY <1>6, <1>9, <1>10 DEF c

LEMMA RowsUnfold ==
  ASSUME NEW b \in Nat \ {0}
  PROVE  \A p \in Rows : RowsOf(p, b) = IF AboveRoot(p[2][1], b)
                                        THEN RowsOf(<<p[2], Below(p[1], p[2])>>, b) ELSE p
<1> DEFINE mu == [p \in Rows |-> p[2][1]]
           Base == {p \in Rows : ~ AboveRoot(p[2][1], b)}
           E == [p \in Base |-> p]
           NextRows(p) == <<p[2], Below(p[1], p[2])>>
           s == [p \in Rows |-> IF AboveRoot(p[2][1], b) THEN NextRows(p) ELSE p]
           H == [w \in Rows \X Rows |-> w[2]]
           Is(f) == f = [x \in Rows |-> IF (x[2][1] + 1) * (x[2][1] + 1) > b
                                        THEN f[<<x[2], Below(x[1], x[2])>>] ELSE x]
           v == CHOOSE f : Is(f)
<1>1. mu \in [Rows -> Nat]
  BY RowParts
<1>2. E \in [Base -> Rows] /\ Base \in SUBSET Rows /\ H \in [Rows \X Rows -> Rows]
  OBVIOUS
<1>3. \A p \in Rows : AboveRoot(p[2][1], b) => NextRows(p) \in Rows
  BY BelowTyped
<1>4. s \in [Rows -> Rows]
  <2> HIDE DEF NextRows
  <2> QED BY <1>3
<1>5. ASSUME NEW p \in Rows \ Base PROVE mu[s[p]] < mu[p]
  <2>1. p \in Rows /\ AboveRoot(p[2][1], b)
    OBVIOUS
  <2>2. s[p] = NextRows(p) /\ NextRows(p) \in Rows
    <3> HIDE DEF NextRows
    <3> QED BY <1>3, <2>1
  <2>3. mu[s[p]] = NextRows(p)[2][1]
    <3> HIDE DEF NextRows, s
    <3> QED BY <2>2
  <2>4. NextRows(p)[2] = Below(p[1], p[2])
    OBVIOUS
  <2>5. Below(p[1], p[2])[1] < p[2][1]
    BY <2>1, BelowTyped
  <2> QED BY <2>1, <2>3, <2>4, <2>5
<1>20. \A p \in Base : E[p] = p
  OBVIOUS
<1>21. \A p \in Rows : AboveRoot(p[2][1], b) => s[p] = NextRows(p)
  OBVIOUS
<1>22. \A p \in Rows, y \in Rows : H[<<p, y>>] = y
  OBVIOUS
<1>23. \A p \in Rows : p \in Base <=> ~ AboveRoot(p[2][1], b)
  OBVIOUS
<1> HIDE DEF mu, Base, E, s, H
<1>6. PICK f \in [Rows -> Rows] : Solves(f, Rows, Base, E, s, H)
  <2>1. \A p \in Rows \ Base : mu[s[p]] < mu[p]
    BY <1>5
  <2> QED BY <1>1, <1>2, <1>4, <2>1, RecursionExists, Zenon
<1>7. ASSUME NEW p \in Rows
      PROVE  f[p] = IF AboveRoot(p[2][1], b) THEN f[NextRows(p)] ELSE p
  <2>1. f[p] = IF p \in Base THEN E[p] ELSE H[<<p, f[s[p]]>>]
    BY <1>6 DEF Solves
  <2>2. s[p] \in Rows
    BY <1>4
  <2>3. H[<<p, f[s[p]]>>] = f[s[p]]
    <3>1. f[s[p]] \in Rows
      BY <2>2
    <3> QED BY <1>22, <3>1
  <2> HIDE DEF NextRows
  <2> QED BY <1>20, <1>21, <1>23, <2>1, <2>3
<1>8. Is(f)
  <2>1. f = [p \in Rows |-> f[p]]
    OBVIOUS
  <2> QED BY <1>7, <2>1 DEF AboveRoot
<1>9. Is(v)
  <2> HIDE DEF Is
  <2> QED BY <1>8, Zenon
<1>10. \A p : RowsOf(p, b) = v[p]
  BY DEF RowsOf
<1> HIDE DEF v
<1>11. \A p \in Rows : v[p] = IF AboveRoot(p[2][1], b) THEN v[NextRows(p)] ELSE p
  BY <1>9 DEF AboveRoot
<1> HIDE DEF Is
<1> QED BY <1>10, <1>11

LEMMA GcdIs ==
  ASSUME NEW l, NEW b
  PROVE  LET Vector(a)     == <<a[1], -a[2]>>
             Norm2(v)      == v[1] * v[1] + v[2] * v[2]
             Shorter(v, w) == IF Norm2(v) < Norm2(w) THEN v ELSE w
             p             == RowsOf(<<<<b, 0>>, <<l, 1>>>>, b)
         IN  bn_gcd_ext_mid(l, b) =
               [cd |-> Vector(p[2]),
                ef |-> Shorter(Vector(p[1]), Vector(Below(p[1], p[2])))]
BY DEF bn_gcd_ext_mid, RowsOf

(* A step of the algorithm, with the quotient known. *)
LEMMA BelowIs ==
  ASSUME NEW a \in Nat, NEW f \in Int, NEW c \in Nat, NEW g \in Int,
         NEW q \in Int, NEW m \in Nat, m < c, a = q * c + m
  PROVE  Below(<<a, f>>, <<c, g>>) = <<m, f - q * g>>
<1>1. c \in Nat \ {0} /\ m \in 0 .. c - 1 /\ a \in Int
  OBVIOUS
<1>2. a % c = m /\ a \div c = q
  BY <1>1, Remainder
<1> QED BY <1>2 DEF Below

(* Where the algorithm stops, from the rows <<a, f>> and <<c, g>>.          *)
EuclidFrom(b, a, f, c, g) == RowsOf(<<<<a, f>>, <<c, g>>>>, b)

Euclid(b, a, f, c, g) ==
  b \in Nat \ {0} /\ a \in Nat /\ f \in Int /\ c \in Nat /\ g \in Int

(* The next row is <<m, z>>. *)
EuclidNext(b, a, f, c, g, q, m, z) ==
  /\ Euclid(b, a, f, c, g) /\ AboveRoot(c, b)
  /\ q \in Int /\ m \in Nat /\ z \in Int
  /\ m < c /\ a = q * c + m /\ z = f - q * g

LEMMA EuclidStep ==
  ASSUME NEW b, NEW a, NEW f, NEW c, NEW g, NEW q, NEW m, NEW z,
         EuclidNext(b, a, f, c, g, q, m, z)
  PROVE  EuclidFrom(b, a, f, c, g) = EuclidFrom(b, c, g, m, z)
<1> DEFINE p == <<<<a, f>>, <<c, g>>>>
<1>0. /\ b \in Nat \ {0} /\ a \in Nat /\ f \in Int /\ c \in Nat /\ g \in Int
      /\ AboveRoot(c, b) /\ q \in Int /\ m \in Nat /\ z \in Int
      /\ m < c /\ a = q * c + m /\ z = f - q * g
  BY DEF EuclidNext, Euclid
<1>1. p \in Rows /\ p[1] = <<a, f>> /\ p[2] = <<c, g>> /\ p[2][1] = c
  BY <1>0 DEF Rows
<1>2. Below(p[1], p[2]) = <<m, z>>
  BY <1>0, <1>1, BelowIs
<1> HIDE DEF p
<1>3. RowsOf(p, b) = RowsOf(<<p[2], Below(p[1], p[2])>>, b)
  BY <1>0, <1>1, RowsUnfold
<1> QED BY <1>1, <1>2, <1>3 DEF p, EuclidFrom

LEMMA EuclidStop ==
  ASSUME NEW b, NEW a, NEW f, NEW c, NEW g, Euclid(b, a, f, c, g), ~ AboveRoot(c, b)
  PROVE  EuclidFrom(b, a, f, c, g) = <<<<a, f>>, <<c, g>>>>
<1> DEFINE p == <<<<a, f>>, <<c, g>>>>
<1>1. b \in Nat \ {0} /\ p \in Rows /\ p[2][1] = c
  BY DEF Rows, Euclid
<1> HIDE DEF p
<1>2. RowsOf(p, b) = p
  BY <1>1, RowsUnfold
<1> QED BY <1>2 DEF p, EuclidFrom

LEMMA NatProduct == ASSUME NEW a \in Nat, NEW b \in Nat PROVE a * b \in Nat /\ (b >= 1 => a * b >= a)
<1>1. a * b \in Nat
  OBVIOUS
<1>2. ASSUME b >= 1 PROVE a * b >= a
  <2>1. a * (b - 1) >= 0
    BY <1>2
  <2>2. a * (b - 1) = a * b - a
    OBVIOUS
  <2> DEFINE x == a * b  y == a * (b - 1)
  <2>3. x \in Int /\ y \in Int /\ y >= 0 /\ y = x - a
    BY <2>1, <2>2
  <2> HIDE DEF x, y
  <2>4. x >= a
    BY <2>3
  <2> QED BY <2>4 DEF x
<1> QED BY <1>1, <1>2

(* The rows at which the algorithm stops give the two short vectors, if    *)
(* the next coefficient is already long.                                   *)
ShortRows(C, D, W, Y, q, m) ==
  /\ C \in Nat \ {0} /\ D \in Nat /\ W \in Nat \ {0} /\ Y \in Nat \ {0}
  /\ q \in Nat /\ m \in Nat /\ m < C /\ W = q * C + m /\ q * D >= W

LEMMA MidIs ==
  ASSUME NEW l, NEW b, NEW C, NEW D, NEW W, NEW Y, NEW q, NEW m,
         ShortRows(C, D, W, Y, q, m),
         EuclidFrom(b, b, 0, l, 1) = <<<<W, -Y>>, <<C, D>>>>
  PROVE  bn_gcd_ext_mid(l, b) = [cd |-> <<C, -D>>, ef |-> <<W, Y>>]
<1> DEFINE Vector(a)     == <<a[1], -a[2]>>
           Norm2(v)      == v[1] * v[1] + v[2] * v[2]
           Shorter(v, w) == IF Norm2(v) < Norm2(w) THEN v ELSE w
           p             == RowsOf(<<<<b, 0>>, <<l, 1>>>>, b)
           f             == Y + q * D
<1>0. /\ C \in Nat \ {0} /\ D \in Nat /\ W \in Nat \ {0} /\ Y \in Nat \ {0}
      /\ q \in Nat /\ m \in Nat /\ m < C /\ W = q * C + m /\ q * D >= W
  BY DEF ShortRows
<1>1. bn_gcd_ext_mid(l, b) = [cd |-> Vector(p[2]),
                              ef |-> Shorter(Vector(p[1]), Vector(Below(p[1], p[2])))]
  BY GcdIs
<1>2. p[1] = <<W, -Y>> /\ p[2] = <<C, D>>
  BY DEF EuclidFrom
<1> HIDE DEF p
<1>3. q * D \in Nat
  BY <1>0, NatProduct, Zenon
<1>4. f \in Nat /\ f >= W + Y
  <2> DEFINE z == q * D
  <2>1. z \in Nat /\ z >= W
    BY <1>0, <1>3
  <2> HIDE DEF z
  <2>2. Y + z \in Nat /\ Y + z >= W + Y
    BY <1>0, <2>1
  <2> QED BY <2>2 DEF z
<1>5. Below(p[1], p[2]) = <<m, -f>>
  <2>1. -Y \in Int /\ (-Y) - q * D = -f
    BY <1>0, <1>3
  <2>2. Below(<<W, -Y>>, <<C, D>>) = <<m, (-Y) - q * D>>
    BY <1>0, <2>1, BelowIs
  <2> QED BY <1>2, <2>1, <2>2
<1> HIDE DEF f
<1>6. Vector(p[1]) = <<W, Y>> /\ Vector(p[2]) = <<C, -D>> /\ Vector(Below(p[1], p[2])) = <<m, f>>
  BY <1>0, <1>2, <1>4, <1>5
<1>7. W * W + Y * Y < m * m + f * f
  <2>1. f * f >= (W + Y) * (W + Y)
    <3>1. f * f >= f * (W + Y)
      BY <1>0, <1>4
    <3>2. f * (W + Y) >= (W + Y) * (W + Y)
      BY <1>0, <1>4
    <3> DEFINE x == f * f  y == f * (W + Y)  z == (W + Y) * (W + Y)
    <3>3. x \in Int /\ y \in Int /\ z \in Int /\ x >= y /\ y >= z
      BY <1>0, <1>4, <3>1, <3>2
    <3> HIDE DEF x, y, z
    <3>4. x >= z
      BY <3>3
    <3> QED BY <3>4 DEF x, z
  <2>2. (W + Y) * (W + Y) = W * W + Y * Y + 2 * (W * Y)
    BY <1>0
  <2>3. W * Y >= 1
    <3>1. W \in Nat /\ Y \in Nat /\ Y >= 1 /\ W >= 1
      BY <1>0
    <3>2. W * Y >= W
      BY <3>1, NatProduct, Zenon
    <3> DEFINE x == W * Y
    <3>3. x \in Int /\ x >= W
      BY <1>0, <3>2
    <3> HIDE DEF x
    <3>4. x >= 1
      BY <3>1, <3>3
    <3> QED BY <3>4 DEF x
  <2>4. m * m >= 0
    BY <1>0
  <2> DEFINE ff == f * f  mm == m * m  ww == W * W  yy == Y * Y  wy == W * Y
             z == (W + Y) * (W + Y)
  <2>5. /\ ff \in Int /\ mm \in Int /\ ww \in Int /\ yy \in Int /\ wy \in Int /\ z \in Int
        /\ ff >= z /\ z = ww + yy + 2 * wy /\ wy >= 1 /\ mm >= 0
    BY <1>0, <1>4, <2>1, <2>2, <2>3, <2>4
  <2> HIDE DEF ff, mm, ww, yy, wy, z
  <2>6. ww + yy < mm + ff
    BY <2>5
  <2> QED BY <2>6 DEF ff, mm, ww, yy
<1>8. Norm2(<<W, Y>>) < Norm2(<<m, f>>)
  BY <1>7
<1>9. Shorter(<<W, Y>>, <<m, f>>) = <<W, Y>>
  <2> HIDE DEF Norm2
  <2> QED BY <1>8
<1> HIDE DEF Vector, Shorter
<1> QED BY <1>1, <1>6, <1>9

(* A remainder beyond the square root. *)
LEMMA AboveFrom ==
  ASSUME NEW b \in Nat, NEW v \in Nat, NEW w \in Nat, v <= w, AboveRoot(v, b)
  PROVE  AboveRoot(w, b)
<1>1. (v + 1) * (v + 1) <= (w + 1) * (v + 1)
  OBVIOUS
<1>2. (w + 1) * (v + 1) <= (w + 1) * (w + 1)
  OBVIOUS
<1> DEFINE x == (v + 1) * (v + 1)  y == (w + 1) * (v + 1)  z == (w + 1) * (w + 1)
<1>3. x \in Int /\ y \in Int /\ z \in Int /\ x <= y /\ y <= z /\ x > b
  BY <1>1, <1>2 DEF AboveRoot
<1> HIDE DEF x, y, z
<1>4. z > b
  BY <1>3
<1> QED BY <1>4 DEF z, AboveRoot

-----------------------------------------------------------------------------
(* The four steps, for either sign of the parameter. *)

LEMMA Monomials ==
  ASSUME NEW u \in Nat \ {0}
  PROVE  /\ u >= 1 /\ u * u \in Nat /\ u * u >= u
         /\ u * (u * u) \in Nat /\ u * (u * u) >= u * u
         /\ u * (u * (u * u)) \in Nat /\ u * (u * (u * u)) >= u * (u * u)
<1>1. u \in Nat /\ u >= 1
  OBVIOUS
<1>2. ASSUME NEW a \in Nat PROVE u * a \in Nat /\ u * a >= a
  <2>1. a * u \in Nat /\ a * u >= a
    BY <1>1, NatProduct, Zenon
  <2>2. u * a = a * u
    OBVIOUS
  <2> QED BY <2>1, <2>2
<1> QED BY <1>1, <1>2, Zenon

LEMMA GcdPositive ==
  ASSUME NEW u \in Nat \ {0}, Par = u
  PROVE  /\ Order = 36 * (u * (u * (u * u))) + 36 * (u * (u * u)) + 18 * (u * u) + 6 * u + 1
         /\ lambda = 36 * (u * (u * u)) + 18 * (u * u) + 6 * u + 1
         /\ bn_gcd_ext_mid(lambda, Order) = [cd |-> <<2 * u + 1, -(6 * (u * u) + 2 * u)>>,
                                             ef |-> <<6 * (u * u) + 4 * u + 1, 2 * u + 1>>]
<1> DEFINE u2 == u * u  u3 == u * u2  u4 == u * u3
           nn == 36 * u4 + 36 * u3 + 18 * u2 + 6 * u + 1
           ll == 36 * u3 + 18 * u2 + 6 * u + 1
           r2 == 18 * u3 + 12 * u2 + 5 * u + 1
           r3 == 18 * u3 + 6 * u2 + u
           r4 == 6 * u2 + 4 * u + 1
           r5 == 2 * u + 1
           f5 == 6 * u2 + 2 * u
<1>1. u2 \in Nat /\ u3 \in Nat /\ u4 \in Nat /\ u2 >= u /\ u3 >= u2 /\ u4 >= u3 /\ u >= 1
  BY Monomials, Zenon
<1>2. Order = nn
  BY OrderIs
<1>3. lambda = ll
  <2> DEFINE x == 36 * Par * Par * Par * Par
  <2>1. x = 36 * u4
    OBVIOUS
  <2>2. lambda = IF Order < x THEN x - Order - 1 ELSE Order - x
    BY DEF lambda
  <2> HIDE DEF x, u2, u3, u4
  <2> QED BY <1>1, <1>2, <2>1, <2>2
<1>4. nn = u * ll + r2 /\ ll = 1 * r2 + r3 /\ r2 = 1 * r3 + r4
  OBVIOUS
<1>5. r3 = (3 * u - 1) * r4 + r5 /\ r4 = (3 * u) * r5 + (u + 1)
  OBVIOUS
<1>6. f5 = (u + 1) - (3 * u - 1) * (-r5)
  OBVIOUS
<1>7. (r4 + 1) * (r4 + 1) = 36 * u4 + 48 * u3 + 40 * u2 + 16 * u + 4
  OBVIOUS
<1>8. (r5 + 1) * (r5 + 1) = 4 * u2 + 8 * u + 4
  OBVIOUS
<1>9. (3 * u) * f5 = 18 * u3 + 6 * u2
  OBVIOUS
<1> HIDE DEF u2, u3, u4
<1>10. /\ nn \in Nat \ {0} /\ ll \in Nat /\ r2 \in Nat /\ r3 \in Nat /\ r4 \in Nat \ {0}
       /\ r5 \in Nat \ {0} /\ f5 \in Nat /\ u + 1 \in Nat
       /\ r2 < ll /\ r3 < r2 /\ r4 < r3 /\ r5 < r4 /\ u + 1 < r5 /\ (3 * u) * f5 >= r4
  BY <1>1, <1>9
<1>11. AboveRoot(r4, nn) /\ ~ AboveRoot(r5, nn)
  BY <1>1, <1>7, <1>8 DEF AboveRoot
<1> HIDE DEF nn, ll, r2, r3, r4, r5, f5
<1>12. AboveRoot(ll, nn) /\ AboveRoot(r2, nn) /\ AboveRoot(r3, nn)
  <2>1. r4 <= r3 /\ r4 <= r2 /\ r4 <= ll
    BY <1>10
  <2> QED BY <1>10, <1>11, <2>1, AboveFrom
<1>13. EuclidFrom(nn, nn, 0, ll, 1) = EuclidFrom(nn, ll, 1, r2, -u)
  <2>1. -u \in Int /\ -u = 0 - u * 1 /\ u \in Int /\ 0 \in Int /\ 1 \in Int
    OBVIOUS
  <2>2. EuclidNext(nn, nn, 0, ll, 1, u, r2, -u)
    BY <1>4, <1>10, <1>12, <2>1 DEF EuclidNext, Euclid
  <2> QED BY <2>2, EuclidStep
<1>14. EuclidFrom(nn, ll, 1, r2, -u) = EuclidFrom(nn, r2, -u, r3, u + 1)
  <2>1. u + 1 \in Int /\ u + 1 = 1 - 1 * (-u) /\ -u \in Int /\ 1 \in Int
    OBVIOUS
  <2>2. EuclidNext(nn, ll, 1, r2, -u, 1, r3, u + 1)
    BY <1>4, <1>10, <1>12, <2>1 DEF EuclidNext, Euclid
  <2> QED BY <2>2, EuclidStep
<1>15. EuclidFrom(nn, r2, -u, r3, u + 1) = EuclidFrom(nn, r3, u + 1, r4, -r5)
  <2>1. -r5 \in Int /\ r4 \in Nat /\ -r5 = (-u) - 1 * (u + 1) /\ -u \in Int /\ u + 1 \in Int /\ 1 \in Int
    BY <1>10 DEF r5
  <2>2. EuclidNext(nn, r2, -u, r3, u + 1, 1, r4, -r5)
    BY <1>4, <1>10, <1>12, <2>1 DEF EuclidNext, Euclid
  <2> QED BY <2>2, EuclidStep
<1>16. EuclidFrom(nn, r3, u + 1, r4, -r5) = EuclidFrom(nn, r4, -r5, r5, f5)
  <2>1. -r5 \in Int /\ u + 1 \in Int /\ r4 \in Nat /\ r5 \in Nat /\ 3 * u - 1 \in Int /\ f5 \in Int
    BY <1>10
  <2>2. EuclidNext(nn, r3, u + 1, r4, -r5, 3 * u - 1, r5, f5)
    BY <1>5, <1>6, <1>10, <1>11, <2>1 DEF EuclidNext, Euclid
  <2> QED BY <2>2, EuclidStep
<1>17. EuclidFrom(nn, r4, -r5, r5, f5) = <<<<r4, -r5>>, <<r5, f5>>>>
  <2>1. -r5 \in Int /\ f5 \in Int /\ r4 \in Nat /\ r5 \in Nat
    BY <1>10
  <2>2. Euclid(nn, r4, -r5, r5, f5)
    BY <1>10, <2>1 DEF Euclid
  <2> QED BY <1>11, <2>2, EuclidStop
<1>18. bn_gcd_ext_mid(ll, nn) = [cd |-> <<r5, -f5>>, ef |-> <<r4, r5>>]
  <2>1. 3 * u \in Nat
    OBVIOUS
  <2>2. EuclidFrom(nn, nn, 0, ll, 1) = <<<<r4, -r5>>, <<r5, f5>>>>
    BY <1>13, <1>14, <1>15, <1>16, <1>17
  <2>3. ShortRows(r5, f5, r4, r5, 3 * u, u + 1)
    BY <1>5, <1>10, <2>1 DEF ShortRows
  <2> QED BY <2>2, <2>3, MidIs
<1> QED BY <1>2, <1>3, <1>18 DEF nn, ll, r4, r5, f5, u2, u3, u4

LEMMA GcdNegative ==
  ASSUME NEW u \in Nat \ {0}, Par = -u
  PROVE  /\ Order = 36 * (u * (u * (u * u))) - 36 * (u * (u * u)) + 18 * (u * u) - 6 * u + 1
         /\ lambda = 36 * (u * (u * u)) - 18 * (u * u) + 6 * u - 2
         /\ bn_gcd_ext_mid(lambda, Order) = [cd |-> <<2 * u - 1, -(6 * (u * u) - 4 * u + 1)>>,
                                             ef |-> <<6 * (u * u) - 2 * u, 2 * u - 1>>]
<1> DEFINE u2 == u * u  u3 == u * u2  u4 == u * u3
           nn == 36 * u4 - 36 * u3 + 18 * u2 - 6 * u + 1
           ll == 36 * u3 - 18 * u2 + 6 * u - 2
           r2 == 18 * u3 - 6 * u2 + 2 * u - 1
           r3 == 18 * u3 - 12 * u2 + 4 * u - 1
           r4 == 6 * u2 - 2 * u
           r5 == 2 * u - 1
           f5 == 6 * u2 - 4 * u + 1
           g2 == -(u - 1)
<1>1. u2 \in Nat /\ u3 \in Nat /\ u4 \in Nat /\ u2 >= u /\ u3 >= u2 /\ u4 >= u3 /\ u >= 1
  BY Monomials, Zenon
<1>2. Order = nn
  <2>1. 36 * Par * Par * Par * Par + 36 * Par * Par * Par + 18 * Par * Par + 6 * Par + 1 = nn
    OBVIOUS
  <2> QED BY <2>1, OrderIs
<1>3. lambda = ll
  <2> DEFINE x == 36 * Par * Par * Par * Par
  <2>1. x = 36 * u4
    OBVIOUS
  <2>2. lambda = IF Order < x THEN x - Order - 1 ELSE Order - x
    BY DEF lambda
  <2> HIDE DEF x, u2, u3, u4
  <2> QED BY <1>1, <1>2, <2>1, <2>2
<1>4. nn = (u - 1) * ll + r2 /\ ll = 1 * r2 + r3 /\ r2 = 1 * r3 + r4
  OBVIOUS
<1>5. r3 = (3 * u - 1) * r4 + r5 /\ r4 = (3 * u) * r5 + u
  OBVIOUS
<1>6. f5 = u - (3 * u - 1) * (-r5)
  OBVIOUS
<1>7. (r4 + 1) * (r4 + 1) = 36 * u4 - 24 * u3 + 16 * u2 - 4 * u + 1
  OBVIOUS
<1>8. (r5 + 1) * (r5 + 1) = 4 * u2
  OBVIOUS
<1>9. (3 * u) * f5 = 18 * u3 - 12 * u2 + 3 * u
  OBVIOUS
<1> HIDE DEF u2, u3, u4
<1>10. /\ nn \in Nat \ {0} /\ ll \in Nat /\ r2 \in Nat /\ r3 \in Nat /\ r4 \in Nat \ {0}
       /\ r5 \in Nat \ {0} /\ f5 \in Nat
       /\ r2 < ll /\ r3 < r2 /\ r4 < r3 /\ r5 < r4 /\ (3 * u) * f5 >= r4
  BY <1>1, <1>9
<1>11. AboveRoot(r4, nn) /\ ~ AboveRoot(r5, nn)
  BY <1>1, <1>7, <1>8 DEF AboveRoot
<1>19. u = 1 => r4 = 4 /\ r5 = 1 /\ f5 = 3
  <2>1. u = 1 => u2 = 1
    BY DEF u2
  <2> QED BY <2>1
<1>20. u # 1 => u < r5
  OBVIOUS
<1> HIDE DEF nn, ll, r2, r3, r4, r5, f5
<1>12. AboveRoot(ll, nn) /\ AboveRoot(r2, nn) /\ AboveRoot(r3, nn)
  <2>1. r4 <= r3 /\ r4 <= r2 /\ r4 <= ll
    BY <1>10
  <2> QED BY <1>10, <1>11, <2>1, AboveFrom
<1>13. EuclidFrom(nn, nn, 0, ll, 1) = EuclidFrom(nn, ll, 1, r2, g2)
  <2>1. g2 \in Int /\ g2 = 0 - (u - 1) * 1 /\ u - 1 \in Int /\ 0 \in Int /\ 1 \in Int
    OBVIOUS
  <2>2. EuclidNext(nn, nn, 0, ll, 1, u - 1, r2, g2)
    BY <1>4, <1>10, <1>12, <2>1 DEF EuclidNext, Euclid
  <2> QED BY <2>2, EuclidStep
<1>14. EuclidFrom(nn, ll, 1, r2, g2) = EuclidFrom(nn, r2, g2, r3, u)
  <2>1. u \in Int /\ u = 1 - 1 * g2 /\ g2 \in Int /\ 1 \in Int
    OBVIOUS
  <2> HIDE DEF g2
  <2>2. EuclidNext(nn, ll, 1, r2, g2, 1, r3, u)
    BY <1>4, <1>10, <1>12, <2>1 DEF EuclidNext, Euclid
  <2> QED BY <2>2, EuclidStep
<1>15. EuclidFrom(nn, r2, g2, r3, u) = EuclidFrom(nn, r3, u, r4, -r5)
  <2>1. -r5 \in Int /\ r4 \in Nat /\ -r5 = g2 - 1 * u /\ g2 \in Int /\ u \in Int /\ 1 \in Int
    BY <1>10 DEF r5
  <2> HIDE DEF g2
  <2>2. EuclidNext(nn, r2, g2, r3, u, 1, r4, -r5)
    BY <1>4, <1>10, <1>12, <2>1 DEF EuclidNext, Euclid
  <2> QED BY <2>2, EuclidStep
<1>16. EuclidFrom(nn, r3, u, r4, -r5) = EuclidFrom(nn, r4, -r5, r5, f5)
  <2>1. -r5 \in Int /\ u \in Int /\ r4 \in Nat /\ r5 \in Nat /\ 3 * u - 1 \in Int /\ f5 \in Int
    BY <1>10
  <2>2. EuclidNext(nn, r3, u, r4, -r5, 3 * u - 1, r5, f5)
    BY <1>5, <1>6, <1>10, <1>11, <2>1 DEF EuclidNext, Euclid
  <2> QED BY <2>2, EuclidStep
<1>17. EuclidFrom(nn, r4, -r5, r5, f5) = <<<<r4, -r5>>, <<r5, f5>>>>
  <2>1. -r5 \in Int /\ f5 \in Int /\ r4 \in Nat /\ r5 \in Nat
    BY <1>10
  <2>2. Euclid(nn, r4, -r5, r5, f5)
    BY <1>10, <2>1 DEF Euclid
  <2> QED BY <1>11, <2>2, EuclidStop
<1>18. bn_gcd_ext_mid(ll, nn) = [cd |-> <<r5, -f5>>, ef |-> <<r4, r5>>]
  <2>1. EuclidFrom(nn, nn, 0, ll, 1) = <<<<r4, -r5>>, <<r5, f5>>>>
    BY <1>13, <1>14, <1>15, <1>16, <1>17
  <2>2. CASE u = 1
    <3>1. 4 \in Nat /\ 0 \in Nat /\ 0 < r5 /\ r4 = 4 * r5 + 0 /\ 4 * f5 >= r4
      BY <1>19, <2>2
    <3>2. ShortRows(r5, f5, r4, r5, 4, 0)
      BY <1>10, <3>1 DEF ShortRows
    <3> QED BY <2>1, <3>2, MidIs
  <2>3. CASE u # 1
    <3>1. 3 * u \in Nat /\ u \in Nat /\ u < r5
      BY <1>20, <2>3
    <3>2. ShortRows(r5, f5, r4, r5, 3 * u, u)
      BY <1>5, <1>10, <3>1 DEF ShortRows
    <3> QED BY <2>1, <3>2, MidIs
  <2> QED BY <2>2, <2>3
<1> QED BY <1>2, <1>3, <1>18 DEF nn, ll, r4, r5, f5, u2, u3, u4

-----------------------------------------------------------------------------
(* Bit lengths. *)

LEMMA BitsUnfold ==
  /\ Bits(0) = 0
  /\ \A k \in Nat : Bits(k) \in Nat
  /\ \A k \in Nat \ {0} : k \div 2 \in Nat /\ k \div 2 < k /\ Bits(k) = 1 + Bits(k \div 2)
<1> DEFINE Is(f) == f = [k \in Nat |-> IF k = 0 THEN 0 ELSE 1 + f[k \div 2]]
           H == [w \in Nat \X Nat |-> 1 + w[2]]
           v == CHOOSE f : Is(f)
<1>1. H \in [Nat \X Nat -> Nat] /\ 0 \in Nat
  OBVIOUS
<1>2. PICK f \in [Nat -> Nat] : HalvesOf(f, 0, H)
  <2> HIDE DEF H
  <2> QED BY <1>1, HalvesExist, Zenon
<1>3. \A k \in Nat : k \div 2 \in Nat
  OBVIOUS
<1>4. Is(f)
  <2>1. \A k \in Nat : H[<<k, f[k \div 2]>>] = 1 + f[k \div 2]
    BY <1>3
  <2> HIDE DEF H
  <2> QED BY <1>2, <2>1 DEF HalvesOf
<1>5. Is(v)
  <2> HIDE DEF Is
  <2> QED BY <1>4, Zenon
<1>6. \A k : Bits(k) = v[k]
  BY DEF Bits
<1> HIDE DEF v
<1>7. \A k \in Nat : v[k] = IF k = 0 THEN 0 ELSE 1 + v[k \div 2]
  BY <1>5
<1> HIDE DEF Is, H
<1>8. \A k \in Nat \ {0} : k \div 2 \in Nat /\ k \div 2 < k
  OBVIOUS
<1> DEFINE S == {k \in Nat : v[k] \in Nat}
<1>9. ASSUME NEW k \in Nat, \A l \in 0 .. k - 1 : l \in S PROVE k \in S
  <2>1. CASE k = 0
    BY <1>7, <2>1
  <2>2. CASE k # 0
    <3>1. k \div 2 \in 0 .. k - 1
      BY <1>8, <2>2
    <3>2. v[k \div 2] \in Nat
      BY <1>9, <3>1
    <3> QED BY <1>7, <2>2, <3>2
  <2> QED BY <2>1, <2>2
<1> HIDE DEF S
<1>10. \A k \in Nat : k \in S
  BY <1>9, NatStrong
<1> QED BY <1>6, <1>7, <1>8, <1>10 DEF S

LEMMA BitsBound == ASSUME NEW k \in Nat PROVE k < Pow2[Bits(k)]
<1> DEFINE S == {m \in Nat : m < Pow2[Bits(m)]}
<1>1. ASSUME NEW m \in Nat, \A l \in 0 .. m - 1 : l \in S PROVE m \in S
  <2>1. CASE m = 0
    BY <2>1, BitsUnfold, Powers2
  <2>2. CASE m # 0
    <3> DEFINE l == m \div 2  c == Bits(l)
    <3>1. l \in 0 .. m - 1 /\ c \in Nat /\ Bits(m) = 1 + c /\ m <= 2 * l + 1
      <4>1. l \in Nat /\ l < m /\ Bits(m) = 1 + c /\ c \in Nat
        BY <2>2, BitsUnfold
      <4>2. m <= 2 * l + 1
        OBVIOUS
      <4> QED BY <4>1, <4>2
    <3>2. l < Pow2[c]
      BY <1>1, <3>1
    <3> HIDE DEF l, c
    <3>3. Pow2[1 + c] = 2 * Pow2[c] /\ Pow2[c] \in Nat
      <4>1. 1 + c \in Nat \ {0} /\ (1 + c) - 1 = c
        BY <3>1
      <4> QED BY <3>1, <4>1, Powers2
    <3>4. m < Pow2[1 + c]
      BY <3>1, <3>2, <3>3
    <3> QED BY <3>1, <3>4
  <2> QED BY <2>1, <2>2
<1> HIDE DEF S
<1>2. \A m \in Nat : m \in S
  BY <1>1, NatStrong
<1> QED BY <1>2 DEF S

-----------------------------------------------------------------------------
(* The multipliers. *)

LEMMA RoundedIs ==
  ASSUME NEW k \in Nat, NEW a \in Nat, NEW b \in Nat
  PROVE  LET y == Rounded(k, a, b)  e == Pow2[Bits(b)]
         IN  y \in Int /\ 2 * (e * y) <= k * a + e /\ k * a < 2 * (e * y) + e
<1> DEFINE y == Rounded(k, a, b)
           e == Pow2[Bits(b)]
           d == Pow2[Bits(b) + 1]
           x == k * a
           g == x \div d
           h == x % d
           p == (x \div e) % 2
<1>1. e \in Nat \ {0} /\ d = 2 * e /\ d \in Nat \ {0}
  <2>1. Bits(b) \in Nat /\ Bits(b) + 1 \in Nat \ {0} /\ (Bits(b) + 1) - 1 = Bits(b)
    BY BitsUnfold
  <2> QED BY <2>1, Powers2
<1>2. x \in Nat /\ x \in Int
  <2>1. x \in Nat
    BY NatProduct, Zenon
  <2> QED BY <2>1
<1>3. y = g + p
  <2>1. Mag(a) = a /\ Sign(a) = 1
    BY DEF Mag, Sign
  <2>2. y = 1 * (((k * a) \div d) + p)
    BY <2>1 DEF Rounded
  <2>3. g \in Int /\ p \in Int
    <3> HIDE DEF x, e, d
    <3>1. x \div e \in Int /\ g \in Int
      BY <1>1, <1>2, DivMod
    <3> QED BY <3>1
  <2> HIDE DEF y, p
  <2> QED BY <2>2, <2>3
<1> HIDE DEF y, x, e, d
<1>4. g \in Int /\ h \in 0 .. d - 1 /\ x = g * d + h
  BY <1>1, <1>2, DivMod
<1> HIDE DEF g, h
<1>5. g * d = 2 * (e * g) /\ e * g \in Int
  BY <1>1, <1>4
<1>6. CASE h < e
  <2>1. x = (2 * g) * e + h /\ h \in 0 .. e - 1 /\ 2 * g \in Int
    BY <1>1, <1>4, <1>5, <1>6
  <2>2. x \div e = 2 * g
    <3> DEFINE g2 == 2 * g
    <3>1. x = g2 * e + h /\ h \in 0 .. e - 1 /\ g2 \in Int
      BY <2>1
    <3> HIDE DEF g2
    <3>2. x \div e = g2
      BY <1>1, <1>2, <3>1, Remainder
    <3> QED BY <3>2 DEF g2
  <2>3. p = 0
    BY <1>4, <2>2
  <2>4. y = g
    BY <1>3, <1>4, <2>3
  <2> DEFINE z == e * g
  <2>5. x = 2 * z + h /\ z \in Int
    BY <1>4, <1>5
  <2> HIDE DEF z
  <2>6. 2 * z <= x + e /\ x < 2 * z + e
    BY <1>1, <1>4, <1>6, <2>5
  <2>7. y \in Int /\ 2 * (e * y) <= x + e /\ x < 2 * (e * y) + e
    BY <1>4, <2>4, <2>6 DEF z
  <2> QED BY <2>7 DEF x, e, y
<1>7. CASE ~ (h < e)
  <2>1. x = (2 * g + 1) * e + (h - e) /\ h - e \in 0 .. e - 1 /\ 2 * g + 1 \in Int
    BY <1>1, <1>4, <1>5, <1>7
  <2>2. x \div e = 2 * g + 1
    <3> DEFINE h2 == h - e  g2 == 2 * g + 1
    <3>1. x = g2 * e + h2 /\ h2 \in 0 .. e - 1 /\ g2 \in Int
      BY <2>1
    <3> HIDE DEF h2, g2
    <3>2. x \div e = g2
      BY <1>1, <1>2, <3>1, Remainder
    <3> QED BY <3>2 DEF g2
  <2>3. p = 1
    BY <1>4, <2>2
  <2>4. y = g + 1
    BY <1>3, <1>4, <2>3
  <2> DEFINE z == e * g
  <2>5. x = 2 * z + h /\ z \in Int /\ e * (g + 1) = z + e
    BY <1>1, <1>4, <1>5
  <2> HIDE DEF z
  <2>6. 2 * (z + e) <= x + e /\ x < 2 * (z + e) + e
    BY <1>1, <1>4, <1>7, <2>5
  <2>7. y \in Int /\ 2 * (e * y) <= x + e /\ x < 2 * (e * y) + e
    BY <1>4, <2>4, <2>5, <2>6
  <2> QED BY <2>7 DEF x, e, y
<1> QED BY <1>6, <1>7

-----------------------------------------------------------------------------
(* The two short vectors, (C, -D) and (W, C), by the parameter's size u.   *)

ShapePositive(u, C, D, W) ==
  /\ C = 2 * u + 1 /\ D = 6 * (u * u) + 2 * u /\ W = 6 * (u * u) + 4 * u + 1
  /\ Order = 36 * (u * (u * (u * u))) + 36 * (u * (u * u)) + 18 * (u * u) + 6 * u + 1
  /\ lambda = 36 * (u * (u * u)) + 18 * (u * u) + 6 * u + 1

ShapeNegative(u, C, D, W) ==
  /\ C = 2 * u - 1 /\ D = 6 * (u * u) - 4 * u + 1 /\ W = 6 * (u * u) - 2 * u
  /\ Order = 36 * (u * (u * (u * u))) - 36 * (u * (u * u)) + 18 * (u * u) - 6 * u + 1
  /\ lambda = 36 * (u * (u * u)) - 18 * (u * u) + 6 * u - 2

Shape(u, C, D, W) ==
  /\ u \in Nat \ {0}
  /\ ShapePositive(u, C, D, W) \/ ShapeNegative(u, C, D, W)

LEMMA ShapeExists ==
  \E u, C, D, W : /\ Shape(u, C, D, W)
                  /\ bn_gcd_ext_mid(lambda, Order) = [cd |-> <<C, -D>>, ef |-> <<W, C>>]
<1>1. Par \in Int /\ Par # 0
  BY CurveAssumption
<1>2. CASE Par > 0
  <2> DEFINE u == Par  C == 2 * u + 1  D == 6 * (u * u) + 2 * u  W == 6 * (u * u) + 4 * u + 1
  <2>1. u \in Nat \ {0} /\ Par = u
    BY <1>1, <1>2
  <2> HIDE DEF u
  <2>2. ShapePositive(u, C, D, W)
    BY <2>1, GcdPositive DEF ShapePositive
  <2>3. bn_gcd_ext_mid(lambda, Order) = [cd |-> <<C, -D>>, ef |-> <<W, C>>]
    BY <2>1, GcdPositive
  <2> HIDE DEF C, D, W
  <2> QED BY <2>1, <2>2, <2>3 DEF Shape
<1>3. CASE Par < 0
  <2> DEFINE u == -Par  C == 2 * u - 1  D == 6 * (u * u) - 4 * u + 1  W == 6 * (u * u) - 2 * u
  <2>1. u \in Nat \ {0} /\ Par = -u
    BY <1>1, <1>3
  <2> HIDE DEF u
  <2>2. ShapeNegative(u, C, D, W)
    BY <2>1, GcdNegative DEF ShapeNegative
  <2>3. bn_gcd_ext_mid(lambda, Order) = [cd |-> <<C, -D>>, ef |-> <<W, C>>]
    BY <2>1, GcdNegative
  <2> HIDE DEF C, D, W
  <2> QED BY <2>1, <2>2, <2>3 DEF Shape
<1> QED BY <1>1, <1>2, <1>3

(* They are in the lattice of lambda, and span it. *)
LEMMA ShapeFacts ==
  ASSUME NEW u, NEW C, NEW D, NEW W, Shape(u, C, D, W)
  PROVE  /\ C \in Nat \ {0} /\ D \in Nat \ {0} /\ W \in Nat \ {0} /\ D <= W /\ C <= W
         /\ C * C + D * W = Order
         /\ W + lambda * C = 2 * Order /\ lambda * D - C = (6 * u - 1) * Order
         /\ Order % 2 = 1
<1> DEFINE u2 == u * u  u3 == u * u2  u4 == u * u3
<1>0. u \in Nat \ {0}
  BY DEF Shape
<1>1. u2 \in Nat /\ u3 \in Nat /\ u4 \in Nat /\ u2 >= u /\ u3 >= u2 /\ u4 >= u3 /\ u >= 1 /\ u \in Nat
  BY <1>0, Monomials, Zenon
<1>2. CASE ShapePositive(u, C, D, W)
  <2>1. /\ C = 2 * u + 1 /\ D = 6 * u2 + 2 * u /\ W = 6 * u2 + 4 * u + 1
        /\ Order = 36 * u4 + 36 * u3 + 18 * u2 + 6 * u + 1 /\ lambda = 36 * u3 + 18 * u2 + 6 * u + 1
    BY <1>2 DEF ShapePositive
  <2>2. /\ C * C + D * W = Order /\ W + lambda * C = 2 * Order
        /\ lambda * D - C = (6 * u - 1) * Order
    BY <1>0, <2>1
  <2> HIDE DEF u2, u3, u4
  <2>3. C \in Nat \ {0} /\ D \in Nat \ {0} /\ W \in Nat \ {0} /\ D <= W /\ C <= W
    BY <1>1, <2>1
  <2>4. Order % 2 = 1
    BY <1>1, <2>1
  <2> QED BY <2>2, <2>3, <2>4
<1>3. CASE ShapeNegative(u, C, D, W)
  <2>1. /\ C = 2 * u - 1 /\ D = 6 * u2 - 4 * u + 1 /\ W = 6 * u2 - 2 * u
        /\ Order = 36 * u4 - 36 * u3 + 18 * u2 - 6 * u + 1 /\ lambda = 36 * u3 - 18 * u2 + 6 * u - 2
    BY <1>3 DEF ShapeNegative
  <2>2. /\ C * C + D * W = Order /\ W + lambda * C = 2 * Order
        /\ lambda * D - C = (6 * u - 1) * Order
    BY <1>0, <2>1
  <2> HIDE DEF u2, u3, u4
  <2>3. C \in Nat \ {0} /\ D \in Nat \ {0} /\ W \in Nat \ {0} /\ D <= W /\ C <= W
    BY <1>1, <2>1
  <2>4. Order % 2 = 1
    BY <1>1, <2>1
  <2> QED BY <2>2, <2>3, <2>4
<1> QED BY <1>2, <1>3 DEF Shape

(* The factors of the multipliers: for the first vector rounded to the     *)
(* nearest, for the second rounded up, both relative to order - 1.         *)
LEMMA LatticeIs ==
  ASSUME NEW C \in Nat \ {0}, NEW D \in Nat \ {0}, NEW W \in Nat \ {0},
         C * C + D * W = Order, Order % 2 = 1,
         bn_gcd_ext_mid(lambda, Order) = [cd |-> <<C, -D>>, ef |-> <<W, C>>]
  PROVE  LET m == Order \div 2  S == Pow2[Bits(Order) + 1]
         IN  \E a1 \in Nat, a2 \in Nat :
               /\ Lattice(lambda, Order) = <<<<a1, C, -D>>, <<a2, W, C>>>>
               /\ 2 * (m * a1) <= C * S + m /\ C * S < 2 * (m * a1) + m
               /\ D * S <= 2 * (m * a2) /\ 2 * (m * a2) < D * S + 2 * m
<1> DEFINE m == Order \div 2
           S == Pow2[Bits(Order) + 1]
           e == 2 * m
           Scaled(x) == Sign(x) * Mag(x) * S
           Up(q)     == IF q < 0 THEN q + 1 ELSE q
           a1 == Up(bn_div(Scaled(C) + Sign(C) * m, e))
           a2 == -Up(bn_div(Scaled(-D) + Sign(-D) * 2 * m, e))
<1>1. Order \in Nat /\ Order >= 4 /\ m \in Nat \ {0} /\ Order = 2 * m + 1 /\ e \in Nat \ {0}
  <2>1. Order \in Nat /\ Order >= 4
    BY OrderIs
  <2> QED BY <2>1
<1>2. S \in Nat \ {0}
  <2>1. Bits(Order) + 1 \in Nat
    BY <1>1, BitsUnfold
  <2> QED BY <2>1, Powers2
<1>3. Lattice(lambda, Order) = <<<<a1, C, -D>>, <<a2, W, C>>>>
  <2>1. Halved(C * C - (-D) * W) = m
    <3>1. C * C - (-D) * W = Order
      OBVIOUS
    <3>2. Mag(Order) = Order /\ Sign(Order) = 1
      BY <1>1 DEF Mag, Sign
    <3>3. Halved(Order) = 1 * m
      BY <3>2 DEF Halved
    <3> HIDE DEF m
    <3> QED BY <1>1, <3>1, <3>3
  <2> DEFINE gg == bn_gcd_ext_mid(lambda, Order)
  <2>2. gg.cd[1] = C /\ gg.cd[2] = -D /\ gg.ef[1] = W /\ gg.ef[2] = C
    OBVIOUS
  <2> HIDE DEF gg, m, S
  <2> QED BY <2>1, <2>2 DEF Lattice, gg, S
<1> DEFINE x1 == C * S + m  x2 == D * S
<1>4. x1 \in Nat /\ x2 \in Nat /\ C * S \in Nat
  <2>1. C * S \in Nat /\ D * S \in Nat
    BY <1>2
  <2> HIDE DEF m
  <2> QED BY <1>1, <2>1
<1>5. Scaled(C) + Sign(C) * m = x1 /\ Scaled(-D) + Sign(-D) * 2 * m = -x2 - e
  <2>1. Sign(C) = 1 /\ Mag(C) = C /\ Sign(-D) = -1 /\ Mag(-D) = D
    BY DEF Sign, Mag
  <2> HIDE DEF m, S
  <2>2. Scaled(C) + Sign(C) * m = 1 * C * S + 1 * m
    BY <2>1
  <2>3. Scaled(-D) + Sign(-D) * 2 * m = (-1) * D * S + (-1) * 2 * m
    BY <2>1
  <2>4. 1 * C * S + 1 * m = x1
    BY <1>1, <1>2
  <2>5. (-1) * D * S + (-1) * 2 * m = -x2 - e
    BY <1>1, <1>2
  <2> QED BY <2>2, <2>3, <2>4, <2>5
<1> DEFINE q1 == x1 \div e  q2 == (-x2 - e) \div e
<1>6. a1 = Up(q1) /\ a2 = -Up(q2)
  <2>1. \A x : bn_div(x, e) = x \div e
    <3>1. ~ (e < 0)
      BY <1>1
    <3> QED BY <3>1 DEF bn_div
  <2> HIDE DEF Scaled, Up, x1, x2, e, m
  <2> QED BY <1>5, <2>1
<1> HIDE DEF a1, a2, x1, x2, e
<1>7. q1 \in Int /\ x1 % e \in 0 .. e - 1 /\ x1 = q1 * e + (x1 % e)
  <2>1. x1 \in Int
    BY <1>4
  <2> QED BY <1>1, <2>1, DivMod
<1>8. q1 >= 0
  <2> DEFINE x == x1 % e
  <2>1. x \in 0 .. e - 1 /\ x1 = q1 * e + x /\ e \in Nat \ {0} /\ q1 \in Int /\ x1 \in Nat
    BY <1>1, <1>4, <1>7
  <2> HIDE DEF x, q1
  <2> SUFFICES ASSUME ~ (q1 >= 0) PROVE FALSE
    OBVIOUS
  <2>2. -q1 \in Int /\ -q1 >= 1
    BY <2>1
  <2>3. (-q1) * e >= e
    BY <2>1, <2>2, NoMultipleBetween
  <2>4. (-q1) * e = -(q1 * e)
    BY <2>1
  <2> QED BY <2>1, <2>3, <2>4
<1>9. a1 = q1 /\ a1 \in Nat
  <2> HIDE DEF q1
  <2> QED BY <1>6, <1>7, <1>8
<1>10. 2 * (m * a1) <= C * S + m /\ C * S < 2 * (m * a1) + m
  <2> DEFINE x == x1 % e  z == m * a1  y == C * S
  <2>1. q1 * e = 2 * z /\ z \in Int
    <3>1. m \in Int /\ a1 \in Int
      BY <1>1, <1>9
    <3> HIDE DEF m, q1
    <3> QED BY <1>9, <3>1 DEF e
  <2>a. y \in Int
    BY <1>4
  <2>b. x1 = y + m
    BY DEF x1
  <2>c. e = 2 * m
    BY DEF e
  <2>d. x \in 0 .. e - 1
    BY <1>7
  <2>e. x1 = q1 * e + x
    BY <1>7
  <2>2. x \in 0 .. e - 1 /\ x1 = 2 * z + x /\ x1 = y + m /\ y \in Int /\ e = 2 * m
    <3> HIDE DEF x, z, y, m, q1
    <3> QED BY <2>1, <2>a, <2>b, <2>c, <2>d, <2>e
  <2> HIDE DEF x, z, y, m
  <2>3. 2 * z <= y + m /\ y < 2 * z + m
    BY <1>1, <2>1, <2>2
  <2> QED BY <2>3 DEF z, y
<1>11. q2 \in Int /\ (-x2 - e) % e \in 0 .. e - 1 /\ -x2 - e = q2 * e + ((-x2 - e) % e)
  <2> DEFINE x == -x2 - e
  <2>1. x \in Int
    BY <1>1, <1>4
  <2> HIDE DEF x
  <2>2. x \div e \in Int /\ x % e \in 0 .. e - 1 /\ x = (x \div e) * e + (x % e)
    BY <1>1, <2>1, DivMod
  <2> QED BY <2>2 DEF x
<1>12. q2 < 0
  <2> DEFINE x == (-x2 - e) % e
  <2>1. x \in 0 .. e - 1 /\ -x2 - e = q2 * e + x /\ e \in Nat \ {0} /\ q2 \in Int /\ x2 \in Nat
    BY <1>1, <1>4, <1>11
  <2> HIDE DEF x, q2
  <2> SUFFICES ASSUME q2 >= 0 PROVE FALSE
    BY <2>1
  <2>2. q2 * e >= 0
    BY <2>1
  <2> QED BY <2>1, <2>2
<1>13. a2 = -q2 - 1 /\ a2 \in Nat
  <2> HIDE DEF q2
  <2> QED BY <1>6, <1>11, <1>12
<1>14. D * S <= 2 * (m * a2) /\ 2 * (m * a2) < D * S + 2 * m
  <2> DEFINE x == (-x2 - e) % e  z == m * a2
  <2>1. q2 * e = -(2 * z) - e /\ z \in Int
    <3>1. m \in Int /\ a2 \in Int /\ q2 \in Int
      BY <1>1, <1>11, <1>13
    <3>2. q2 = -a2 - 1
      <4> HIDE DEF q2
      <4> QED BY <1>13, <3>1
    <3> HIDE DEF m, q2
    <3> QED BY <3>1, <3>2 DEF e
  <2>2. x \in 0 .. e - 1 /\ -x2 - e = -(2 * z) - e + x /\ x2 \in Int /\ e = 2 * m
    BY <1>4, <1>11, <2>1 DEF e
  <2> HIDE DEF x, z, m
  <2>3. x2 <= 2 * z /\ 2 * z < x2 + 2 * m
    BY <1>1, <2>1, <2>2
  <2> QED BY <2>3 DEF z, x2
<1> QED BY <1>3, <1>9, <1>10, <1>13, <1>14

-----------------------------------------------------------------------------
(* The halves of a scalar c below the order. *)

(* What the factors a1, a2 of the multipliers are close to. *)
Factors(C, D, a1, a2) ==
  /\ a1 \in Nat /\ a2 \in Nat
  /\ LET m == Order \div 2  S == Pow2[Bits(Order) + 1]
     IN  /\ 2 * (m * a1) <= C * S + m /\ C * S < 2 * (m * a1) + m
         /\ D * S <= 2 * (m * a2) /\ 2 * (m * a2) < D * S + 2 * m

(* And the multipliers themselves. *)
Multiplier(c, a, b) ==
  /\ b \in Int
  /\ LET e == Pow2[Bits(Order)]
     IN  2 * (e * b) <= c * a + e /\ c * a < 2 * (e * b) + e

LEMMA VectorsIs ==
  \E u, C, D, W, a1, a2 :
     /\ Shape(u, C, D, W) /\ Factors(C, D, a1, a2)
     /\ Vectors = <<<<a1, C, -D>>, <<a2, W, C>>>>
<1>1. PICK u, C, D, W : /\ Shape(u, C, D, W)
                        /\ bn_gcd_ext_mid(lambda, Order) = [cd |-> <<C, -D>>, ef |-> <<W, C>>]
  BY ShapeExists
<1>2. C \in Nat \ {0} /\ D \in Nat \ {0} /\ W \in Nat \ {0} /\ C * C + D * W = Order /\ Order % 2 = 1
  BY <1>1, ShapeFacts
<1> DEFINE m == Order \div 2  S == Pow2[Bits(Order) + 1]
<1>3. \E a1 \in Nat, a2 \in Nat :
               /\ Lattice(lambda, Order) = <<<<a1, C, -D>>, <<a2, W, C>>>>
               /\ 2 * (m * a1) <= C * S + m /\ C * S < 2 * (m * a1) + m
               /\ D * S <= 2 * (m * a2) /\ 2 * (m * a2) < D * S + 2 * m
  BY <1>1, <1>2, LatticeIs
<1>4. PICK a1 \in Nat, a2 \in Nat :
               /\ Lattice(lambda, Order) = <<<<a1, C, -D>>, <<a2, W, C>>>>
               /\ 2 * (m * a1) <= C * S + m /\ C * S < 2 * (m * a1) + m
               /\ D * S <= 2 * (m * a2) /\ 2 * (m * a2) < D * S + 2 * m
  <2> HIDE DEF m, S
  <2> QED BY <1>3, Zenon
<1>5. Factors(C, D, a1, a2)
  BY <1>4 DEF Factors
<1> HIDE DEF m, S
<1> QED BY <1>1, <1>4, <1>5, Zenon DEF Vectors

LEMMA GlvIs ==
  ASSUME NEW k \in Nat, NEW C \in Nat, NEW D \in Nat, NEW W \in Nat, NEW a1 \in Nat, NEW a2 \in Nat,
         Vectors = <<<<a1, C, -D>>, <<a2, W, C>>>>
  PROVE  \E b1, b2 : /\ Multiplier(k % Order, a1, b1) /\ Multiplier(k % Order, a2, b2)
                     /\ Glv(k) = <<(k % Order) - b1 * C - b2 * W, b1 * D - b2 * C>>
<1> DEFINE c == k % Order
           b1 == Rounded(c, a1, Order)
           b2 == Rounded(c, a2, Order)
<1>1. Order \in Nat /\ Order >= 4 /\ c \in Nat
  <2>1. Order \in Nat /\ Order >= 4
    BY OrderIs
  <2> QED BY <2>1
<1>2. Multiplier(c, a1, b1) /\ Multiplier(c, a2, b2)
  <2> HIDE DEF c
  <2> QED BY <1>1, RoundedIs DEF Multiplier
<1>3. Glv(k) = <<c - b1 * C - b2 * W, -(b1 * (-D)) - b2 * C>>
  <2> DEFINE v1 == Vectors[1]  v2 == Vectors[2]
  <2>1. v1[1] = a1 /\ v1[2] = C /\ v1[3] = -D /\ v2[1] = a2 /\ v2[2] = W /\ v2[3] = C
    OBVIOUS
  <2>2. Glv(k) = bn_rec_glv(c, Order, v1, v2)
    BY DEF Glv
  <2> HIDE DEF v1, v2, c
  <2> QED BY <2>1, <2>2 DEF bn_rec_glv
<1>4. b1 \in Int /\ b2 \in Int
  BY <1>2 DEF Multiplier
<1> HIDE DEF b1, b2, c
<1>5. -(b1 * (-D)) - b2 * C = b1 * D - b2 * C
  BY <1>4
<1> QED BY <1>2, <1>3, <1>5 DEF c

(* The halves add up to the scalar. *)
LEMMA GlvCongruent ==
  ASSUME NEW k \in Nat
  PROVE  /\ Glv(k)[1] \in Int /\ Glv(k)[2] \in Int
         /\ (Glv(k)[1] + lambda * Glv(k)[2]) % Order = k % Order
<1>1. PICK u, C, D, W, a1, a2 :
         /\ Shape(u, C, D, W) /\ Factors(C, D, a1, a2)
         /\ Vectors = <<<<a1, C, -D>>, <<a2, W, C>>>>
  BY VectorsIs
<1> DEFINE c == k % Order
<1>2. /\ C \in Nat /\ D \in Nat /\ W \in Nat /\ u \in Nat
      /\ W + lambda * C = 2 * Order /\ lambda * D - C = (6 * u - 1) * Order
  BY <1>1, ShapeFacts DEF Shape
<1>3. a1 \in Nat /\ a2 \in Nat
  BY <1>1 DEF Factors
<1>4. PICK b1, b2 : /\ Multiplier(c, a1, b1) /\ Multiplier(c, a2, b2)
                    /\ Glv(k) = <<c - b1 * C - b2 * W, b1 * D - b2 * C>>
  BY <1>1, <1>2, <1>3, GlvIs
<1>5. b1 \in Int /\ b2 \in Int
  BY <1>4 DEF Multiplier
<1>6. Order \in Nat \ {0} /\ c \in 0 .. Order - 1 /\ lambda \in Nat
  <2>1. Order \in Nat /\ Order >= 4
    BY OrderIs
  <2> QED BY <2>1, LambdaNat
<1> DEFINE h1 == c - b1 * C - b2 * W  h2 == b1 * D - b2 * C  q == b1 * (6 * u - 1) - 2 * b2
<1>7. h1 \in Int /\ h2 \in Int /\ q \in Int
  <2> HIDE DEF c
  <2> QED BY <1>2, <1>5, <1>6
<1>8. h1 + lambda * h2 = q * Order + c
  <2> HIDE DEF c
  <2> DEFINE l == lambda  m == Order
  <2>1. l \in Int /\ m \in Int /\ c \in Int
    BY <1>6
  <2>2. W + l * C = 2 * m /\ l * D - C = (6 * u - 1) * m
    BY <1>2
  <2> HIDE DEF l, m, h1, h2, q
  <2> DEFINE x == l * C  y == l * D
  <2>3. x \in Int /\ y \in Int
    BY <2>1, <1>2
  <2>4. h1 + l * h2 = c + b1 * (y - C) - b2 * (x + W)
    BY <2>1, <1>2, <1>5 DEF h1, h2
  <2> HIDE DEF x, y
  <2>5. y - C = (6 * u - 1) * m /\ x + W = 2 * m
    BY <2>2, <2>3, <1>2 DEF x, y
  <2>6. b1 * ((6 * u - 1) * m) - b2 * (2 * m) = q * m
    BY <2>1, <1>2, <1>5 DEF q
  <2> DEFINE z1 == b1 * ((6 * u - 1) * m)  z2 == b2 * (2 * m)
  <2>7. h1 + l * h2 = c + z1 - z2 /\ z1 - z2 = q * m
    BY <2>4, <2>5, <2>6
  <2>8. z1 \in Int /\ z2 \in Int
    BY <2>1, <1>2, <1>5
  <2> HIDE DEF z1, z2
  <2>9. h1 + l * h2 = q * m + c
    BY <2>1, <2>7, <2>8
  <2> QED BY <2>9 DEF l, m
<1>9. h1 + lambda * h2 \in Int
  <2> HIDE DEF h1, h2
  <2> QED BY <1>6, <1>7
<1> HIDE DEF h1, h2, q, c
<1>10. (h1 + lambda * h2) % Order = c
  BY <1>6, <1>7, <1>8, <1>9, Remainder
<1>11. Glv(k)[1] = h1 /\ Glv(k)[2] = h2
  BY <1>4 DEF h1, h2
<1> QED BY <1>7, <1>10, <1>11 DEF c

-----------------------------------------------------------------------------
(* How far the multipliers are from the real quotients c * C / order and   *)
(* c * D / order.                                                          *)

LEMMA Mono ==
  ASSUME NEW a \in Int, NEW b \in Int, NEW g \in Nat, a <= b
  PROVE  g * a <= g * b
<1>1. b - a \in Nat
  OBVIOUS
<1>2. g * (b - a) \in Nat
  BY <1>1, NatProduct, Zenon
<1>3. g * (b - a) = g * b - g * a /\ g * a \in Int /\ g * b \in Int
  OBVIOUS
<1> DEFINE x == g * a  y == g * b  z == g * (b - a)
<1>4. z \in Nat /\ z = y - x /\ x \in Int /\ y \in Int
  BY <1>2, <1>3
<1> HIDE DEF x, y, z
<1>5. x <= y
  BY <1>4
<1> QED BY <1>5 DEF x, y

LEMMA Cancel ==
  ASSUME NEW g \in Nat \ {0}, NEW a \in Int
  PROVE  (g * a >= 0 => a >= 0) /\ (g * a > -g => a >= 0)
<1> SUFFICES ASSUME g * a >= 0 \/ g * a > -g, a <= -1 PROVE FALSE
  OBVIOUS
<1>1. g * a <= g * (-1)
  BY Mono
<1>2. g * (-1) = -g /\ g * a \in Int
  OBVIOUS
<1> DEFINE x == g * a
<1>3. x <= -g /\ x \in Int /\ (x >= 0 \/ x > -g)
  BY <1>1, <1>2
<1> HIDE DEF x
<1> QED BY <1>3

(* A factor a near X * 2e / (b - 1), within f, and a multiplier near       *)
(* c * a / 2e.                                                             *)
Scale(m, e, c) == m \in Nat /\ e \in Nat \ {0} /\ 2 * m + 1 <= e /\ c \in 0 .. 2 * m

LEMMA MultiplierUpper ==
  ASSUME NEW m, NEW e, NEW c, Scale(m, e, c),
         NEW X \in Nat, NEW f \in Nat, NEW a \in Nat, NEW b \in Int,
         2 * (m * a) <= 2 * (X * e) + f, 2 * (e * b) <= c * a + e
  PROVE  2 * (b * (2 * m + 1) - c * X) <= f + (2 * m + 1) + 2 * X
<1>0. m \in Nat /\ e \in Nat \ {0} /\ 2 * m + 1 <= e /\ c \in 0 .. 2 * m /\ c \in Nat /\ c <= 2 * m
  BY DEF Scale
<1> DEFINE k == 2 * m + 1  ma == m * a  Xe == X * e  eb == e * b  ca == c * a
<1>1. k \in Nat /\ ma \in Int /\ Xe \in Int /\ eb \in Int /\ ca \in Int
  BY <1>0
<1>2. 2 * ma <= 2 * Xe + f /\ 2 * eb <= ca + e
  OBVIOUS
<1>3. a * c <= a * (2 * m) /\ a * c = ca /\ a * (2 * m) = 2 * ma
  BY <1>0, Mono
<1>4. k * ca = c * (2 * ma) + ca
  BY <1>0
<1>5. (c + 1) * f <= k * f /\ k * f <= e * f
  <2>1. f * (c + 1) <= f * k
    BY <1>0, <1>1, Mono
  <2>2. f * k <= f * e
    BY <1>0, <1>1, Mono
  <2>3. f * (c + 1) = (c + 1) * f /\ f * k = k * f /\ f * e = e * f
    BY <1>0
  <2> QED BY <2>1, <2>2, <2>3
<1>6. k * (2 * eb) <= k * (ca + e)
  <2> HIDE DEF k, ca, eb
  <2> QED BY <1>0, <1>1, <1>2, Mono
<1>7. c * (2 * ma) <= c * (2 * Xe + f)
  <2> HIDE DEF ma, Xe
  <2> QED BY <1>0, <1>1, <1>2, Mono
<1> DEFINE cXe == c * Xe  cf == c * f  ke == k * e  kca == k * ca  cma == c * (2 * ma)
           keb == k * eb  ef == e * f
<1>8. /\ cXe \in Int /\ cf \in Int /\ ke \in Int /\ kca \in Int /\ cma \in Int /\ keb \in Int
      /\ ef \in Int
  <2> HIDE DEF k, ca, eb, Xe, ma
  <2> QED BY <1>0, <1>1
<1>9. k * (2 * eb) = 2 * keb
  <2> HIDE DEF k, eb
  <2> QED BY <1>0, <1>1
<1>10. k * (ca + e) = kca + ke
  <2> HIDE DEF k, ca
  <2> QED BY <1>0, <1>1
<1>11. c * (2 * Xe + f) = 2 * cXe + cf
  <2> HIDE DEF Xe
  <2> QED BY <1>0, <1>1
<1>12. (c + 1) * f = cf + f
  BY <1>0
<1>13. 2 * keb <= 2 * cXe + ef + 2 * Xe + ke
  <2>1. ca <= 2 * ma /\ 2 * ma <= 2 * Xe + f
    BY <1>2, <1>3
  <2>2. kca = cma + ca
    BY <1>4
  <2>3. 2 * keb <= kca + ke
    BY <1>6, <1>9, <1>10
  <2>4. cma <= 2 * cXe + cf
    BY <1>7, <1>11
  <2>5. cf + f <= k * f /\ k * f <= ef
    BY <1>5, <1>12
  <2>6. k * f \in Int
    BY <1>0, <1>1
  <2> DEFINE kf == k * f
  <2>7. cf + f <= kf /\ kf <= ef /\ kf \in Int
    BY <2>5, <2>6
  <2> HIDE DEF k, ma, Xe, eb, ca, cXe, cf, ke, kca, cma, keb, ef, kf
  <2> QED BY <1>0, <1>1, <1>8, <2>1, <2>2, <2>3, <2>4, <2>7
<1> DEFINE z == f + k + 2 * X - 2 * (b * k - c * X)
<1>14. z \in Int
  BY <1>0
<1>15. e * z = ef + ke + 2 * Xe - 2 * keb + 2 * cXe
  BY <1>0
<1>16. e * z >= 0
  <2> HIDE DEF z, k, ma, Xe, eb, ca, cXe, cf, ke, kca, cma, keb, ef
  <2> QED BY <1>1, <1>8, <1>13, <1>15
<1>17. z >= 0
  <2> HIDE DEF z
  <2> QED BY <1>0, <1>14, <1>16, Cancel
<1> DEFINE d == 2 * (b * k - c * X)
<1>18. z = f + k + 2 * X - d /\ d \in Int
  BY <1>0
<1>19. d <= f + k + 2 * X
  <2> HIDE DEF z, d, k
  <2> QED BY <1>1, <1>17, <1>18
<1> QED BY <1>19

LEMMA MultiplierLower ==
  ASSUME NEW m, NEW e, NEW c, Scale(m, e, c),
         NEW X \in Nat, NEW f \in Nat, NEW a \in Nat, NEW b \in Int,
         2 * (X * e) <= 2 * (m * a) + f, c * a < 2 * (e * b) + e
  PROVE  2 * (b * (2 * m + 1) - c * X) >= -(f + (2 * m + 1))
<1>0. m \in Nat /\ e \in Nat \ {0} /\ 2 * m + 1 <= e /\ c \in 0 .. 2 * m /\ c \in Nat /\ c <= 2 * m
  BY DEF Scale
<1> DEFINE k == 2 * m + 1  ma == m * a  Xe == X * e  eb == e * b  ca == c * a
<1>1. k \in Nat /\ ma \in Int /\ Xe \in Int /\ eb \in Int /\ ca \in Int
  BY <1>0
<1>2. 2 * Xe <= 2 * ma + f /\ ca < 2 * eb + e
  OBVIOUS
<1>3. ca >= 0
  BY <1>0, NatProduct
<1>4. k * ca = c * (2 * ma) + ca
  BY <1>0
<1>5. c * f <= e * f
  <2>1. f * c <= f * e
    BY <1>0, Mono
  <2>2. f * c = c * f /\ f * e = e * f
    BY <1>0
  <2> QED BY <2>1, <2>2
<1>6. k * ca <= k * (2 * eb + e)
  <2> HIDE DEF k, ca, eb
  <2> QED BY <1>0, <1>1, <1>2, Mono
<1>7. c * (2 * Xe) <= c * (2 * ma + f)
  <2> HIDE DEF ma, Xe
  <2> QED BY <1>0, <1>1, <1>2, Mono
<1> DEFINE cXe == c * Xe  cf == c * f  ke == k * e  kca == k * ca  cma == c * (2 * ma)
           keb == k * eb  ef == e * f
<1>8. /\ cXe \in Int /\ cf \in Int /\ ke \in Int /\ kca \in Int /\ cma \in Int /\ keb \in Int
      /\ ef \in Int
  <2> HIDE DEF k, ca, eb, Xe, ma
  <2> QED BY <1>0, <1>1
<1>9. k * (2 * eb + e) = 2 * keb + ke
  <2> HIDE DEF k, eb
  <2> QED BY <1>0, <1>1
<1>10. c * (2 * Xe) = 2 * cXe
  <2> HIDE DEF Xe
  <2> QED BY <1>0, <1>1
<1>11. c * (2 * ma + f) = cma + cf
  <2> HIDE DEF ma
  <2> QED BY <1>0, <1>1
<1>12. 2 * cXe <= 2 * keb + ke + ef
  <2>1. kca = cma + ca
    BY <1>4
  <2>2. kca <= 2 * keb + ke
    BY <1>6, <1>9
  <2>3. 2 * cXe <= cma + cf
    BY <1>7, <1>10, <1>11
  <2>4. cf <= ef
    BY <1>5
  <2> HIDE DEF k, ma, Xe, eb, ca, cXe, cf, ke, kca, cma, keb, ef
  <2> QED BY <1>0, <1>1, <1>3, <1>8, <2>1, <2>2, <2>3, <2>4
<1> DEFINE z == 2 * (b * k - c * X) + (f + k)
<1>13. z \in Int
  BY <1>0
<1>14. e * z = 2 * keb - 2 * cXe + ef + ke
  BY <1>0
<1>15. e * z >= 0
  <2> HIDE DEF z, k, ma, Xe, eb, ca, cXe, cf, ke, kca, cma, keb, ef
  <2> QED BY <1>1, <1>8, <1>12, <1>14
<1>16. z >= 0
  <2> HIDE DEF z
  <2> QED BY <1>0, <1>13, <1>15, Cancel
<1> DEFINE d == 2 * (b * k - c * X)
<1>17. z = d + (f + k) /\ d \in Int
  BY <1>0
<1>18. d >= -(f + k)
  <2> HIDE DEF z, d, k
  <2> QED BY <1>1, <1>16, <1>17
<1> QED BY <1>18

-----------------------------------------------------------------------------
(* So the halves are about as long as the vectors. *)

LEMMA SignedProduct ==
  ASSUME NEW a \in Int, NEW g \in Nat, NEW l \in Int, NEW h \in Int, l <= a, a <= h
  PROVE  g * l <= g * a /\ g * a <= g * h
BY Mono

Errors(m, C, D, x, y) ==
  LET k == 2 * m + 1
  IN  /\ m \in Nat /\ C \in Nat /\ D \in Nat /\ x \in Int /\ y \in Int
      /\ -(3 * k) <= 4 * x /\ 4 * x <= 3 * k + 4 * C
      /\ -(4 * k) <= 4 * y /\ 4 * y <= 4 * k + 4 * D

LEMMA HalvesFromErrors ==
  ASSUME NEW m, NEW C, NEW D, NEW x, NEW y, Errors(m, C, D, x, y),
         NEW W \in Nat, C * C + D * W = 2 * m + 1, C <= W, D <= W,
         NEW h1 \in Int, NEW h2 \in Int,
         (2 * m + 1) * h1 = -(x * C) - y * W, (2 * m + 1) * h2 = x * D - y * C
  PROVE  LET q == 3 * C + 4 * W + 4
         IN  -q <= 4 * h1 /\ 4 * h1 <= q /\ -q <= 4 * h2 /\ 4 * h2 <= q
<1> DEFINE k == 2 * m + 1  q == 3 * C + 4 * W + 4
           x4 == 4 * x  y4 == 4 * y
           kC == k * C  kD == k * D  kW == k * W  CC == C * C  CD == C * D  DW == D * W
<1>1. /\ m \in Nat /\ C \in Nat /\ D \in Nat /\ x \in Int /\ y \in Int /\ W \in Nat
      /\ k \in Nat \ {0} /\ x4 \in Int /\ y4 \in Int /\ q \in Nat
      /\ -(3 * k) <= x4 /\ x4 <= 3 * k + 4 * C /\ -(4 * k) <= y4 /\ y4 <= 4 * k + 4 * D
  <2>1. m \in Nat /\ C \in Nat /\ D \in Nat /\ x \in Int /\ y \in Int
    BY DEF Errors
  <2>2. -(3 * k) <= x4 /\ x4 <= 3 * k + 4 * C /\ -(4 * k) <= y4 /\ y4 <= 4 * k + 4 * D
    BY DEF Errors
  <2>3. k \in Nat \ {0} /\ x4 \in Int /\ y4 \in Int /\ q \in Nat
    BY <2>1
  <2> QED BY <2>1, <2>2, <2>3
<1>2. kC \in Nat /\ kD \in Nat /\ kW \in Nat /\ CC \in Nat /\ CD \in Nat /\ DW \in Nat
  <2>1. k \in Nat
    BY <1>1
  <2> HIDE DEF k
  <2> QED BY <1>1, <2>1, NatProduct
<1>3. CC + DW = k /\ CD <= DW
  <2>1. CC + DW = k
    OBVIOUS
  <2>2. D * C <= D * W
    BY <1>1, Mono
  <2>3. D * C = CD
    BY <1>1
  <2> QED BY <2>1, <2>2, <2>3
<1>4. ASSUME NEW g \in Nat
      PROVE  /\ -(3 * (k * g)) <= g * x4 /\ g * x4 <= 3 * (k * g) + 4 * (C * g)
             /\ -(4 * (k * g)) <= g * y4 /\ g * y4 <= 4 * (k * g) + 4 * (D * g)
  <2> HIDE DEF k, x4, y4
  <2>1. g * (-(3 * k)) <= g * x4 /\ g * x4 <= g * (3 * k + 4 * C)
    <3>1. -(3 * k) \in Int /\ 3 * k + 4 * C \in Int
      BY <1>1
    <3> QED BY <1>1, <3>1, SignedProduct
  <2>2. g * (-(4 * k)) <= g * y4 /\ g * y4 <= g * (4 * k + 4 * D)
    <3>1. -(4 * k) \in Int /\ 4 * k + 4 * D \in Int
      BY <1>1
    <3> QED BY <1>1, <3>1, SignedProduct
  <2>3. /\ g * (-(3 * k)) = -(3 * (k * g)) /\ g * (3 * k + 4 * C) = 3 * (k * g) + 4 * (C * g)
        /\ g * (-(4 * k)) = -(4 * (k * g)) /\ g * (4 * k + 4 * D) = 4 * (k * g) + 4 * (D * g)
    BY <1>1
  <2> QED BY <2>1, <2>2, <2>3
<1> DEFINE xC == C * x4  xD == D * x4  yC == C * y4  yW == W * y4
<1>5. /\ xC \in Int /\ xD \in Int /\ yC \in Int /\ yW \in Int
      /\ -(3 * kC) <= xC /\ xC <= 3 * kC + 4 * CC
      /\ -(3 * kD) <= xD /\ xD <= 3 * kD + 4 * CD
      /\ -(4 * kC) <= yC /\ yC <= 4 * kC + 4 * CD
      /\ -(4 * kW) <= yW /\ yW <= 4 * kW + 4 * DW
  <2>1. D * C = CD
    BY <1>1
  <2>2. xC \in Int /\ xD \in Int /\ yC \in Int /\ yW \in Int
    <3> HIDE DEF x4, y4
    <3> QED BY <1>1
  <2>3. -(3 * kC) <= xC /\ xC <= 3 * kC + 4 * CC
    BY <1>1, <1>4
  <2>4. -(3 * kD) <= xD /\ xD <= 3 * kD + 4 * CD
    BY <1>1, <1>4
  <2>5. -(4 * kC) <= yC /\ yC <= 4 * kC + 4 * CD
    <3> DEFINE DC == D * C
    <3>1. -(4 * kC) <= yC /\ yC <= 4 * kC + 4 * DC
      BY <1>1, <1>4
    <3>2. DC = CD
      BY <2>1
    <3> HIDE DEF DC, CD, kC, yC
    <3> QED BY <3>1, <3>2
  <2>6. -(4 * kW) <= yW /\ yW <= 4 * kW + 4 * DW
    BY <1>1, <1>4
  <2> QED BY <2>2, <2>3, <2>4, <2>5, <2>6
<1> DEFINE kh1 == k * h1  kh2 == k * h2
<1>6. 4 * kh1 = -xC - yW /\ 4 * kh2 = xD - yC /\ kh1 \in Int /\ kh2 \in Int
  <2>1. kh1 = -(x * C) - y * W /\ kh2 = x * D - y * C
    OBVIOUS
  <2>2. 4 * (-(x * C) - y * W) = -xC - yW /\ 4 * (x * D - y * C) = xD - yC
    BY <1>1
  <2>3. -(x * C) - y * W \in Int /\ x * D - y * C \in Int
    BY <1>1
  <2> HIDE DEF kh1, kh2, xC, xD, yC, yW
  <2> QED BY <2>1, <2>2, <2>3
<1>7. k * q = 3 * kC + 4 * kW + 4 * k
  <2> HIDE DEF k
  <2> QED BY <1>1
<1>8. kD <= kW /\ kC <= kW
  <2>1. k \in Nat
    BY <1>1
  <2> HIDE DEF k
  <2> QED BY <1>1, <2>1, Mono
<1> DEFINE kq == k * q
<1>9. -kq <= 4 * kh1 /\ 4 * kh1 <= kq /\ -kq <= 4 * kh2 /\ 4 * kh2 <= kq
  <2>1. kq = 3 * kC + 4 * kW + 4 * k
    BY <1>7
  <2> HIDE DEF k, q, x4, y4, kC, kD, kW, CC, CD, DW, xC, xD, yC, yW, kh1, kh2, kq
  <2>2. -kq <= 4 * kh1 /\ 4 * kh1 <= kq
    BY <1>1, <1>2, <1>3, <1>5, <1>6, <2>1
  <2>3. -kq <= 4 * kh2 /\ 4 * kh2 <= kq
    BY <1>1, <1>2, <1>3, <1>5, <1>6, <1>8, <2>1
  <2> QED BY <2>2, <2>3
<1>10. ASSUME NEW h \in Int, -kq <= 4 * (k * h), 4 * (k * h) <= kq
       PROVE  -q <= 4 * h /\ 4 * h <= q
  <2> HIDE DEF k, q
  <2> DEFINE lo == q + 4 * h  hi == q - 4 * h  kh == k * h
  <2>1. k * lo = kq + 4 * kh /\ k * hi = kq - 4 * kh /\ lo \in Int /\ hi \in Int
    BY <1>1
  <2>2. kq \in Int /\ kh \in Int /\ -kq <= 4 * kh /\ 4 * kh <= kq
    BY <1>1, <1>10
  <2> HIDE DEF kq, kh
  <2>3. k * lo >= 0 /\ k * hi >= 0
    <3>1. kq + 4 * kh >= 0 /\ kq - 4 * kh >= 0
      BY <2>2
    <3> HIDE DEF lo, hi
    <3> QED BY <2>1, <3>1
  <2>4. lo >= 0 /\ hi >= 0
    <3> HIDE DEF lo, hi
    <3> QED BY <1>1, <2>1, <2>3, Cancel
  <2> QED BY <1>1, <2>4
<1> HIDE DEF kq, k, q
<1>11. -q <= 4 * h1 /\ 4 * h1 <= q /\ -q <= 4 * h2 /\ 4 * h2 <= q
  BY <1>9, <1>10
<1> QED BY <1>11 DEF q

LEMMA OrderHalf == LET m == Order \div 2
                   IN  Order % 2 = 1 => m \in Nat /\ Order = 2 * m + 1
<1>1. Order \in Nat /\ Order >= 4
  BY OrderIs
<1> QED BY <1>1

LEMMA ScaleIs ==
  ASSUME NEW c \in 0 .. Order - 1, Order % 2 = 1
  PROVE  Scale(Order \div 2, Pow2[Bits(Order)], c) /\ Pow2[Bits(Order) + 1] = 2 * Pow2[Bits(Order)]
<1>1. Order \in Nat /\ Order \div 2 \in Nat /\ Order = 2 * (Order \div 2) + 1
  BY OrderHalf, OrderIs
<1>2. Order < Pow2[Bits(Order)]
  BY <1>1, BitsBound
<1>3. Bits(Order) \in Nat /\ Bits(Order) + 1 \in Nat \ {0} /\ (Bits(Order) + 1) - 1 = Bits(Order)
  BY <1>1, BitsUnfold
<1>4. Pow2[Bits(Order)] \in Nat \ {0} /\ Pow2[Bits(Order) + 1] = 2 * Pow2[Bits(Order)]
  BY <1>3, Powers2
<1> DEFINE m == Order \div 2  e == Pow2[Bits(Order)]
<1>5. m \in Nat /\ e \in Nat \ {0} /\ 2 * m + 1 <= e /\ c \in 0 .. 2 * m
  <2>1. m \in Nat /\ Order = 2 * m + 1 /\ Order < e /\ e \in Nat \ {0}
    BY <1>1, <1>2, <1>4
  <2> HIDE DEF m, e
  <2> QED BY <2>1
<1> HIDE DEF m, e
<1>6. Scale(m, e, c)
  BY <1>5 DEF Scale
<1> QED BY <1>4, <1>6 DEF m, e

LEMMA ErrorsSmall ==
  ASSUME NEW u, NEW C, NEW D, NEW W, Shape(u, C, D, W), NEW a1, NEW a2, Factors(C, D, a1, a2),
         NEW c \in 0 .. Order - 1, NEW b1, NEW b2, Multiplier(c, a1, b1), Multiplier(c, a2, b2)
  PROVE  Errors(Order \div 2, C, D, b1 * Order - c * C, b2 * Order - c * D)
<1> DEFINE m == Order \div 2  e == Pow2[Bits(Order)]
<1>1. C \in Nat /\ D \in Nat /\ Order % 2 = 1
  BY ShapeFacts
<1>2. m \in Nat /\ Order = 2 * m + 1
  BY <1>1, OrderHalf
<1>3. Scale(m, e, c) /\ Pow2[Bits(Order) + 1] = 2 * e
  BY <1>1, ScaleIs
<1>4. e \in Nat /\ c \in Nat
  BY <1>3 DEF Scale
<1>5. /\ a1 \in Nat /\ a2 \in Nat
      /\ 2 * (m * a1) <= C * (2 * e) + m /\ C * (2 * e) < 2 * (m * a1) + m
      /\ D * (2 * e) <= 2 * (m * a2) /\ 2 * (m * a2) < D * (2 * e) + 2 * m
  BY <1>3 DEF Factors
<1>6. /\ b1 \in Int /\ 2 * (e * b1) <= c * a1 + e /\ c * a1 < 2 * (e * b1) + e
      /\ b2 \in Int /\ 2 * (e * b2) <= c * a2 + e /\ c * a2 < 2 * (e * b2) + e
  BY DEF Multiplier
<1> HIDE DEF e
<1> DEFINE o == 2 * m + 1  x == b1 * o - c * C  y == b2 * o - c * D
<1>7. /\ 2 * (m * a1) <= 2 * (C * e) + m /\ 2 * (C * e) <= 2 * (m * a1) + m
      /\ 2 * (D * e) <= 2 * (m * a2) + 0 /\ 2 * (m * a2) <= 2 * (D * e) + 2 * m
  <2> DEFINE z1 == C * e  z2 == D * e  s1 == m * a1  s2 == m * a2
  <2>1. C * (2 * e) = 2 * z1 /\ D * (2 * e) = 2 * z2
    BY <1>1, <1>4
  <2>2. z1 \in Int /\ z2 \in Int /\ s1 \in Int /\ s2 \in Int
    <3> HIDE DEF m
    <3> QED BY <1>1, <1>2, <1>4, <1>5
  <2>3. /\ 2 * s1 <= 2 * z1 + m /\ 2 * z1 < 2 * s1 + m
        /\ 2 * z2 <= 2 * s2 /\ 2 * s2 < 2 * z2 + 2 * m
    BY <1>5, <2>1
  <2> HIDE DEF z1, z2, s1, s2, m
  <2>4. /\ 2 * s1 <= 2 * z1 + m /\ 2 * z1 <= 2 * s1 + m
        /\ 2 * z2 <= 2 * s2 + 0 /\ 2 * s2 <= 2 * z2 + 2 * m
    BY <1>2, <2>2, <2>3
  <2> QED BY <2>4 DEF z1, z2, s1, s2
<1>8. 2 * x <= m + o + 2 * C
  <2> HIDE DEF m
  <2> QED BY <1>1, <1>2, <1>3, <1>5, <1>6, <1>7, MultiplierUpper
<1>9. 2 * x >= -(m + o)
  <2> HIDE DEF m
  <2> QED BY <1>1, <1>2, <1>3, <1>5, <1>6, <1>7, MultiplierLower
<1>10. 2 * y <= 2 * m + o + 2 * D
  <2> DEFINE g == 2 * m
  <2>1. g \in Nat /\ 2 * (m * a2) <= 2 * (D * e) + g
    BY <1>2, <1>7
  <2> HIDE DEF m, g
  <2>2. 2 * y <= g + o + 2 * D
    BY <1>1, <1>2, <1>3, <1>5, <1>6, <2>1, MultiplierUpper
  <2> QED BY <2>2 DEF g
<1>11. 2 * y >= -(0 + o)
  <2> HIDE DEF m
  <2>1. 0 \in Nat
    OBVIOUS
  <2> QED BY <1>1, <1>2, <1>3, <1>5, <1>6, <1>7, <2>1, MultiplierLower
<1>12. x \in Int /\ y \in Int /\ o \in Nat
  <2>1. o \in Nat
    <3> HIDE DEF m
    <3> QED BY <1>2
  <2> HIDE DEF o
  <2> QED BY <1>1, <1>4, <1>6, <2>1
<1>13. Errors(m, C, D, x, y)
  <2> HIDE DEF m, x, y
  <2>1. 4 * x <= 3 * o + 4 * C /\ -(3 * o) <= 4 * x
    BY <1>1, <1>2, <1>8, <1>9, <1>12
  <2>2. 4 * y <= 4 * o + 4 * D /\ -(4 * o) <= 4 * y
    BY <1>1, <1>2, <1>10, <1>11, <1>12
  <2> QED BY <1>1, <1>2, <1>12, <2>1, <2>2 DEF Errors
<1>14. x = b1 * Order - c * C /\ y = b2 * Order - c * D
  <2> HIDE DEF m
  <2> QED BY <1>2
<1> HIDE DEF x, y, m
<1> QED BY <1>13, <1>14 DEF m

LEMMA GlvNear ==
  ASSUME NEW u, NEW C, NEW D, NEW W, Shape(u, C, D, W), NEW a1, NEW a2, Factors(C, D, a1, a2),
         NEW c \in 0 .. Order - 1, NEW b1, NEW b2, Multiplier(c, a1, b1), Multiplier(c, a2, b2)
  PROVE  LET q == 3 * C + 4 * W + 4  h1 == c - b1 * C - b2 * W  h2 == b1 * D - b2 * C
         IN  -q <= 4 * h1 /\ 4 * h1 <= q /\ -q <= 4 * h2 /\ 4 * h2 <= q
<1> DEFINE m == Order \div 2  h1 == c - b1 * C - b2 * W  h2 == b1 * D - b2 * C
           x == b1 * Order - c * C  y == b2 * Order - c * D
<1>1. /\ C \in Nat /\ D \in Nat /\ W \in Nat /\ Order % 2 = 1 /\ C <= W /\ D <= W
      /\ C * C + D * W = Order
  BY ShapeFacts
<1>2. m \in Nat /\ Order = 2 * m + 1
  BY <1>1, OrderHalf
<1>3. b1 \in Int /\ b2 \in Int /\ c \in Int
  BY DEF Multiplier
<1>4. Errors(m, C, D, x, y)
  BY ErrorsSmall
<1> HIDE DEF m
<1> DEFINE o == 2 * m + 1
<1>5. h1 \in Int /\ h2 \in Int /\ x \in Int /\ y \in Int /\ o \in Int
  BY <1>1, <1>2, <1>3
<1>6. x = b1 * o - c * C /\ y = b2 * o - c * D /\ C * C + D * W = o
  BY <1>1, <1>2
<1> HIDE DEF x, y
<1>7. o * h1 = -(x * C) - y * W /\ o * h2 = x * D - y * C
  <2> HIDE DEF o, h1, h2
  <2>1. o * h1 = c * o - b1 * (C * o) - b2 * (W * o) /\ o * h2 = b1 * (D * o) - b2 * (C * o)
    BY <1>1, <1>3, <1>5 DEF h1, h2
  <2>2. -(x * C) - y * W = c * (C * C + D * W) - b1 * (C * o) - b2 * (W * o)
    <3> DEFINE zx == b1 * o - c * C  zy == b2 * o - c * D
    <3>1. -(zx * C) - zy * W = c * (C * C + D * W) - b1 * (C * o) - b2 * (W * o)
      BY <1>1, <1>3, <1>5
    <3>2. x = zx /\ y = zy
      BY <1>6
    <3> HIDE DEF zx, zy
    <3> QED BY <3>1, <3>2
  <2>3. x * D - y * C = b1 * (D * o) - b2 * (C * o)
    <3> DEFINE zx == b1 * o - c * C  zy == b2 * o - c * D
    <3>1. zx * D - zy * C = b1 * (D * o) - b2 * (C * o)
      BY <1>1, <1>3, <1>5
    <3>2. x = zx /\ y = zy
      BY <1>6
    <3> HIDE DEF zx, zy
    <3> QED BY <3>1, <3>2
  <2> QED BY <1>6, <2>1, <2>2, <2>3
<1> HIDE DEF h1, h2
<1>8. -(3 * C + 4 * W + 4) <= 4 * h1 /\ 4 * h1 <= 3 * C + 4 * W + 4
      /\ -(3 * C + 4 * W + 4) <= 4 * h2 /\ 4 * h2 <= 3 * C + 4 * W + 4
  BY <1>1, <1>4, <1>5, <1>6, <1>7, HalvesFromErrors
<1> QED BY <1>8 DEF h1, h2

-----------------------------------------------------------------------------
(* Their squares are below twice the order. *)

LEMMA ShortSquare ==
  ASSUME NEW h \in Int, NEW q \in Nat, -q <= 4 * h, 4 * h <= q
  PROVE  16 * (h * h) <= q * q
<1>1. q - 4 * h \in Nat /\ q + 4 * h \in Nat
  OBVIOUS
<1>2. (q - 4 * h) * (q + 4 * h) \in Nat
  BY <1>1, NatProduct, Zenon
<1>3. (q - 4 * h) * (q + 4 * h) = q * q - 16 * (h * h) /\ q * q \in Int /\ h * h \in Int
  OBVIOUS
<1> DEFINE x == (q - 4 * h) * (q + 4 * h)  y == q * q  z == h * h
<1>4. x \in Nat /\ x = y - 16 * z /\ y \in Int /\ z \in Int
  BY <1>2, <1>3
<1> HIDE DEF x, y, z
<1>5. 16 * z <= y
  BY <1>4
<1> QED BY <1>5 DEF y, z

LEMMA Monomials2 ==
  ASSUME NEW u \in Nat, u >= 2
  PROVE  /\ u * u \in Nat /\ u * u >= 2 * u
         /\ u * (u * u) \in Nat /\ u * (u * u) >= 2 * (u * u)
         /\ u * (u * (u * u)) \in Nat /\ u * (u * (u * u)) >= 2 * (u * (u * u))
<1>1. ASSUME NEW a \in Nat PROVE u * a \in Nat /\ u * a >= 2 * a
  <2>1. a * 2 <= a * u
    BY Mono
  <2>2. a * 2 = 2 * a /\ a * u = u * a
    OBVIOUS
  <2>3. u * a \in Nat
    BY NatProduct, Zenon
  <2> QED BY <2>1, <2>2, <2>3
<1>2. u * u \in Nat /\ u * u >= 2 * u
  BY <1>1, Zenon
<1>3. u * (u * u) \in Nat /\ u * (u * u) >= 2 * (u * u)
  BY <1>1, <1>2, Zenon
<1> QED BY <1>1, <1>2, <1>3, Zenon

LEMMA NearIsShort ==
  ASSUME NEW u, NEW C, NEW D, NEW W, Shape(u, C, D, W), ~ (ShapePositive(u, C, D, W) /\ u = 1),
         NEW h \in Int, -(3 * C + 4 * W + 4) <= 4 * h, 4 * h <= 3 * C + 4 * W + 4
  PROVE  h * h < 2 * Order
<1> DEFINE u2 == u * u  u3 == u * u2  u4 == u * u3  q == 3 * C + 4 * W + 4
<1>1. u \in Nat /\ u >= 1 /\ C \in Nat /\ W \in Nat
  BY ShapeFacts DEF Shape
<1>2. q \in Nat /\ 16 * (h * h) <= q * q
  <2>1. q \in Nat
    BY <1>1
  <2>2. -q <= 4 * h /\ 4 * h <= q
    OBVIOUS
  <2> HIDE DEF q
  <2> QED BY <2>1, <2>2, ShortSquare
<1>3. CASE u >= 2
  <2>1. u2 \in Nat /\ u3 \in Nat /\ u4 \in Nat /\ u2 >= 2 * u /\ u3 >= 2 * u2 /\ u4 >= 2 * u3
    BY <1>1, <1>3, Monomials2, Zenon
  <2>2. q * q < 32 * Order
    <3>1. CASE ShapePositive(u, C, D, W)
      <4>1. C = 2 * u + 1 /\ W = 6 * u2 + 4 * u + 1
            /\ Order = 36 * u4 + 36 * u3 + 18 * u2 + 6 * u + 1
        BY <3>1 DEF ShapePositive
      <4>2. q = 24 * u2 + 22 * u + 11
        <5> HIDE DEF u2
        <5> QED BY <1>1, <2>1, <4>1
      <4>3. (24 * u2 + 22 * u + 11) * (24 * u2 + 22 * u + 11)
              = 576 * u4 + 1056 * u3 + 1012 * u2 + 484 * u + 121
        BY <1>1
      <4>4. q * q = 576 * u4 + 1056 * u3 + 1012 * u2 + 484 * u + 121
        <5> HIDE DEF q, u2, u3, u4
        <5> QED BY <4>2, <4>3
      <4> DEFINE s == q * q
      <4>5. s = 576 * u4 + 1056 * u3 + 1012 * u2 + 484 * u + 121
        BY <4>4
      <4> HIDE DEF s, q, u2, u3, u4
      <4>6. s < 32 * Order
        BY <1>1, <1>3, <2>1, <4>1, <4>5
      <4> QED BY <4>6 DEF s
    <3>2. CASE ShapeNegative(u, C, D, W)
      <4>1. C = 2 * u - 1 /\ W = 6 * u2 - 2 * u
            /\ Order = 36 * u4 - 36 * u3 + 18 * u2 - 6 * u + 1
        BY <3>2 DEF ShapeNegative
      <4>2. q = 24 * u2 - 2 * u + 1
        <5> HIDE DEF u2
        <5> QED BY <1>1, <2>1, <4>1
      <4>3. (24 * u2 - 2 * u + 1) * (24 * u2 - 2 * u + 1)
              = 576 * u4 - 96 * u3 + 52 * u2 - 4 * u + 1
        BY <1>1
      <4>4. q * q = 576 * u4 - 96 * u3 + 52 * u2 - 4 * u + 1
        <5> HIDE DEF q, u2, u3, u4
        <5> QED BY <4>2, <4>3
      <4> DEFINE s == q * q
      <4>5. s = 576 * u4 - 96 * u3 + 52 * u2 - 4 * u + 1
        BY <4>4
      <4> HIDE DEF s, q, u2, u3, u4
      <4>6. s < 32 * Order
        BY <1>1, <1>3, <2>1, <4>1, <4>5
      <4> QED BY <4>6 DEF s
    <3> QED BY <3>1, <3>2 DEF Shape
  <2> DEFINE s == q * q  hh == h * h
  <2>3. s \in Int /\ hh \in Int /\ 16 * hh <= s /\ s < 32 * Order /\ Order \in Int
    <3>1. Order \in Int
      BY OrderIs
    <3>2. hh \in Int
      OBVIOUS
    <3>3. s \in Int
      <4> HIDE DEF q
      <4> QED BY <1>2
    <3> QED BY <1>2, <2>2, <3>1, <3>2, <3>3
  <2> HIDE DEF s, hh
  <2>4. hh < 2 * Order
    BY <2>3
  <2> QED BY <2>4 DEF hh
<1>4. CASE u = 1
  <2>1. ShapeNegative(1, C, D, W)
    BY <1>4 DEF Shape
  <2>2. C = 1 /\ W = 4 /\ Order = 13
    BY <2>1 DEF ShapeNegative
  <2>3. -20 <= 4 * h /\ 4 * h <= 20
    BY <2>2
  <2>4. 16 * (h * h) <= 20 * 20
    <3>1. 20 \in Nat
      OBVIOUS
    <3> QED BY <2>3, <3>1, ShortSquare
  <2> DEFINE hh == h * h
  <2>5. hh \in Int /\ 16 * hh <= 400
    BY <2>4
  <2> HIDE DEF hh
  <2>6. hh < 26
    BY <2>5
  <2> QED BY <2>2, <2>6 DEF hh
<1> QED BY <1>1, <1>3, <1>4

(* The smallest curve of the family with a positive parameter: there the   *)
(* bounds on the errors alone would leave room for a half of 14.           *)
LEMMA SmallestIsShort ==
  ASSUME NEW C, NEW D, NEW W, ShapePositive(1, C, D, W), NEW a1, NEW a2, Factors(C, D, a1, a2),
         NEW c \in 0 .. Order - 1, NEW b1, NEW b2, Multiplier(c, a1, b1), Multiplier(c, a2, b2)
  PROVE  LET h1 == c - b1 * C - b2 * W  h2 == b1 * D - b2 * C
         IN  h1 \in Int /\ h2 \in Int /\ h1 * h1 < 2 * Order /\ h2 * h2 < 2 * Order
<1>1. C = 3 /\ D = 8 /\ W = 11 /\ Order = 97
  BY DEF ShapePositive
<1>2. Bits(97) = 7
  <2>1. \A k, l \in Nat : k # 0 /\ k \div 2 = l => Bits(k) = 1 + Bits(l)
    BY BitsUnfold
  <2>2. Bits(97) = 1 + Bits(48) /\ Bits(48) = 1 + Bits(24) /\ Bits(24) = 1 + Bits(12)
        /\ Bits(12) = 1 + Bits(6)
    BY <2>1
  <2>3. Bits(6) = 1 + Bits(3) /\ Bits(3) = 1 + Bits(1) /\ Bits(1) = 1 + Bits(0) /\ Bits(0) = 0
    BY <2>1, BitsUnfold
  <2> QED BY <2>2, <2>3
<1>3. Pow2[7] = 128 /\ Pow2[8] = 256
  <2>1. \A k \in Nat : Pow2[k + 1] = 2 * Pow2[k]
    <3> SUFFICES ASSUME NEW k \in Nat PROVE Pow2[k + 1] = 2 * Pow2[k]
      OBVIOUS
    <3>1. k + 1 \in Nat \ {0} /\ (k + 1) - 1 = k
      OBVIOUS
    <3> QED BY <3>1, Powers2
  <2>2. \A k, l \in Nat : l = k + 1 => Pow2[l] = 2 * Pow2[k]
    BY <2>1
  <2>3. Pow2[0] = 1
    BY Powers2
  <2>4. Pow2[1] = 2 * Pow2[0] /\ Pow2[2] = 2 * Pow2[1] /\ Pow2[3] = 2 * Pow2[2] /\ Pow2[4] = 2 * Pow2[3]
    BY <2>2
  <2>5. Pow2[5] = 2 * Pow2[4] /\ Pow2[6] = 2 * Pow2[5] /\ Pow2[7] = 2 * Pow2[6] /\ Pow2[8] = 2 * Pow2[7]
    BY <2>2
  <2> QED BY <2>3, <2>4, <2>5
<1>4. 97 \div 2 = 48 /\ 7 + 1 = 8
  OBVIOUS
<1>5. a1 \in Nat /\ a2 \in Nat
  BY DEF Factors
<1>6. /\ 2 * (48 * a1) <= 3 * 256 + 48 /\ 3 * 256 < 2 * (48 * a1) + 48
      /\ 8 * 256 <= 2 * (48 * a2) /\ 2 * (48 * a2) < 8 * 256 + 2 * 48
  BY <1>1, <1>2, <1>3, <1>4 DEF Factors
<1>7. a1 = 8 /\ a2 = 22
  BY <1>5, <1>6
<1>8. /\ b1 \in Int /\ 2 * (128 * b1) <= c * 8 + 128 /\ c * 8 < 2 * (128 * b1) + 128
      /\ b2 \in Int /\ 2 * (128 * b2) <= c * 22 + 128 /\ c * 22 < 2 * (128 * b2) + 128
  BY <1>1, <1>2, <1>3, <1>7 DEF Multiplier
<1>9. c \in 0 .. 96
  BY <1>1
<1> DEFINE h1 == c - b1 * 3 - b2 * 11  h2 == b1 * 8 - b2 * 3
<1>10. h1 \in Int /\ h2 \in Int /\ -13 <= h1 /\ h1 <= 13 /\ -13 <= h2 /\ h2 <= 13
  BY <1>8, <1>9
<1>11. ASSUME NEW h \in Int, -13 <= h, h <= 13 PROVE h * h < 194
  <2>1. 16 * (h * h) <= 52 * 52
    <3>1. 52 \in Nat /\ -52 <= 4 * h /\ 4 * h <= 52
      BY <1>11
    <3> QED BY <3>1, ShortSquare
  <2> DEFINE hh == h * h
  <2>2. hh \in Int /\ 16 * hh <= 2704
    BY <2>1
  <2> HIDE DEF hh
  <2>3. hh < 194
    BY <2>2
  <2> QED BY <2>3 DEF hh
<1> HIDE DEF h1, h2
<1>12. h1 * h1 < 194 /\ h2 * h2 < 194
  BY <1>10, <1>11
<1>13. h1 \in Int /\ h2 \in Int /\ h1 * h1 < 2 * Order /\ h2 * h2 < 2 * Order
  BY <1>1, <1>10, <1>12
<1>14. c - b1 * C - b2 * W = h1 /\ b1 * D - b2 * C = h2
  BY <1>1 DEF h1, h2
<1> QED BY <1>13, <1>14

LEMMA GlvShort ==
  ASSUME NEW k \in Nat
  PROVE  /\ Glv(k)[1] \in Int /\ Glv(k)[2] \in Int
         /\ Glv(k)[1] * Glv(k)[1] < 2 * Order /\ Glv(k)[2] * Glv(k)[2] < 2 * Order
<1>1. PICK u, C, D, W, a1, a2 :
         /\ Shape(u, C, D, W) /\ Factors(C, D, a1, a2)
         /\ Vectors = <<<<a1, C, -D>>, <<a2, W, C>>>>
  BY VectorsIs
<1> DEFINE c == k % Order
<1>2. C \in Nat /\ D \in Nat /\ W \in Nat
  BY <1>1, ShapeFacts
<1>3. a1 \in Nat /\ a2 \in Nat
  BY <1>1 DEF Factors
<1>4. PICK b1, b2 : /\ Multiplier(c, a1, b1) /\ Multiplier(c, a2, b2)
                    /\ Glv(k) = <<c - b1 * C - b2 * W, b1 * D - b2 * C>>
  BY <1>1, <1>2, <1>3, GlvIs
<1>5. c \in 0 .. Order - 1
  <2>1. Order \in Nat /\ Order >= 4
    BY OrderIs
  <2> QED BY <2>1
<1> HIDE DEF c
<1> DEFINE h1 == c - b1 * C - b2 * W  h2 == b1 * D - b2 * C
<1>6. Glv(k)[1] = h1 /\ Glv(k)[2] = h2
  BY <1>4
<1>7. h1 \in Int /\ h2 \in Int
  BY <1>2, <1>4, <1>5 DEF Multiplier
<1>8. CASE ShapePositive(u, C, D, W) /\ u = 1
  <2>1. ShapePositive(1, C, D, W)
    BY <1>8
  <2>2. h1 * h1 < 2 * Order /\ h2 * h2 < 2 * Order
    BY <1>1, <1>4, <1>5, <2>1, SmallestIsShort
  <2> HIDE DEF h1, h2
  <2> QED BY <1>6, <1>7, <2>2
<1>9. CASE ~ (ShapePositive(u, C, D, W) /\ u = 1)
  <2>1. LET q == 3 * C + 4 * W + 4
        IN  -q <= 4 * h1 /\ 4 * h1 <= q /\ -q <= 4 * h2 /\ 4 * h2 <= q
    BY <1>1, <1>4, <1>5, GlvNear
  <2> HIDE DEF h1, h2
  <2>2. h1 * h1 < 2 * Order /\ h2 * h2 < 2 * Order
    BY <1>1, <1>7, <1>9, <2>1, NearIsShort
  <2> QED BY <1>6, <1>7, <2>2
<1> QED BY <1>8, <1>9

-----------------------------------------------------------------------------
(* What a recoding adds up to. *)

LEMMA DigitSumIs ==
  ASSUME NEW s \in Seq(Int)
  PROVE  \E f \in [0 .. Len(s) -> Int] :
           /\ DigitSum(s) = f[Len(s)] /\ f[0] = 0
           /\ \A j \in 1 .. Len(s) : f[j] = f[j - 1] + s[j] * Pow2[j - 1]
<1> DEFINE N == Len(s)
           H == [w \in (1 .. N) \X Int |-> w[2] + s[w[1]] * Pow2[w[1] - 1]]
           Is(f) == f = [j \in 0 .. N |-> IF j = 0 THEN 0 ELSE f[j - 1] + s[j] * Pow2[j - 1]]
           v == CHOOSE f : Is(f)
<1>1. N \in Nat /\ \A j \in 1 .. N : s[j] \in Int /\ j - 1 \in Nat
  OBVIOUS
<1>2. \A j \in 1 .. N : \A y \in Int : y + s[j] * Pow2[j - 1] \in Int
  <2> SUFFICES ASSUME NEW j \in 1 .. N, NEW y \in Int PROVE y + s[j] * Pow2[j - 1] \in Int
    OBVIOUS
  <2>1. s[j] \in Int /\ Pow2[j - 1] \in Int
    BY <1>1, Powers2
  <2> QED BY <2>1
<1>3. H \in [(1 .. N) \X Int -> Int]
  BY <1>2
<1>4. PICK f \in [0 .. N -> Int] : LoopOf(f, N, 0, H)
  <2>1. 0 \in Int
    OBVIOUS
  <2> HIDE DEF H, N
  <2> QED BY <1>1, <1>3, <2>1, LoopExists, Zenon
<1>5. ASSUME NEW g \in [0 .. N -> Int], NEW j \in 1 .. N
      PROVE  H[<<j, g[j - 1]>>] = g[j - 1] + s[j] * Pow2[j - 1]
  <2>1. g[j - 1] \in Int
    <3>1. j - 1 \in 0 .. N
      BY <1>1
    <3> HIDE DEF N
    <3> QED BY <3>1
  <2> HIDE DEF N
  <2> QED BY <2>1
<1> HIDE DEF H
<1>6. Is(f)
  <2>1. \A j \in 0 .. N : j # 0 => j \in 1 .. N
    BY <1>1
  <2> HIDE DEF N
  <2> QED BY <1>4, <1>5, <2>1 DEF LoopOf
<1>7. Is(v)
  <2> HIDE DEF Is
  <2> QED BY <1>6, Zenon
<1>8. DigitSum(s) = v[N]
  BY DEF DigitSum
<1> HIDE DEF v
<1>9. v[0] = 0 /\ \A j \in 1 .. N : v[j] = v[j - 1] + s[j] * Pow2[j - 1]
  <2> HIDE DEF N
  <2> QED BY <1>1, <1>7
<1> DEFINE S == {j \in 0 .. N : v[j] \in Int}
<1>10. 0 \in S
  <2> HIDE DEF N
  <2> QED BY <1>1, <1>9
<1>11. ASSUME NEW j \in 0 .. N - 1, j \in S PROVE j + 1 \in S
  <2>1. j + 1 \in 1 .. N /\ (j + 1) - 1 = j /\ j + 1 \in 0 .. N
    BY <1>1
  <2>2. v[j] \in Int
    BY <1>11
  <2> HIDE DEF N
  <2>3. v[j + 1] = v[j] + s[j + 1] * Pow2[j]
    BY <1>9, <2>1
  <2>4. v[j] + s[j + 1] * Pow2[(j + 1) - 1] \in Int
    BY <1>2, <2>1, <2>2
  <2> QED BY <2>1, <2>3, <2>4
<1> HIDE DEF S
<1>12. \A j \in 0 .. N : j \in S
  <2> HIDE DEF N
  <2> QED BY <1>1, <1>10, <1>11, UpTo
<1>13. v \in [0 .. N -> Int]
  <2>1. \A j \in 0 .. N : v[j] \in Int
    BY <1>12 DEF S
  <2>2. v = [j \in 0 .. N |-> v[j]]
    <3> HIDE DEF N
    <3> QED BY <1>7
  <2> HIDE DEF N
  <2> QED BY <2>1, <2>2
<1> QED BY <1>8, <1>9, <1>13

LEMMA Longer1 ==
  ASSUME NEW d \in Int, NEW s \in Seq(Int)
  PROVE  /\ <<d>> \o s \in Seq(Int) /\ Len(<<d>> \o s) = 1 + Len(s)
         /\ (<<d>> \o s)[1] = d
         /\ \A j \in 1 .. Len(s) : (<<d>> \o s)[j + 1] = s[j]
OBVIOUS

LEMMA DigitSumFirst ==
  ASSUME NEW d \in Int, NEW s \in Seq(Int)
  PROVE  DigitSum(<<d>> \o s) = d + 2 * DigitSum(s)
<1> DEFINE l == <<d>> \o s  N == Len(s)
<1>1. l \in Seq(Int) /\ Len(l) = 1 + N /\ l[1] = d /\ \A j \in 1 .. N : l[j + 1] = s[j]
  BY Longer1
<1>2. N \in Nat /\ \A j \in 1 .. N : s[j] \in Int
  OBVIOUS
<1>3. PICK f \in [0 .. N -> Int] :
           /\ DigitSum(s) = f[N] /\ f[0] = 0
           /\ \A j \in 1 .. N : f[j] = f[j - 1] + s[j] * Pow2[j - 1]
  BY DigitSumIs
<1> HIDE DEF l
<1>4. PICK g \in [0 .. Len(l) -> Int] :
           /\ DigitSum(l) = g[Len(l)] /\ g[0] = 0
           /\ \A j \in 1 .. Len(l) : g[j] = g[j - 1] + l[j] * Pow2[j - 1]
  BY <1>1, DigitSumIs
<1> HIDE DEF N
<1>5. DigitSum(l) = g[1 + N] /\ \A j \in 1 .. 1 + N : g[j] = g[j - 1] + l[j] * Pow2[j - 1]
  BY <1>1, <1>4
<1>6. g[1] = d
  <2>1. Pow2[0] = 1
    BY Powers2
  <2>2. 1 \in 1 .. 1 + N /\ 1 - 1 = 0
    BY <1>2
  <2>3. g[1] = g[0] + l[1] * Pow2[0]
    BY <1>5, <2>2
  <2>4. g[1] = 0 + d * 1
    BY <1>1, <1>4, <2>1, <2>3
  <2> QED BY <2>4
<1> DEFINE S == {j \in 0 .. N : g[j + 1] = d + 2 * f[j]}
<1>7. 0 \in S
  <2>1. 0 \in 0 .. N /\ 0 + 1 = 1 /\ d + 2 * 0 = d
    BY <1>2
  <2>2. g[0 + 1] = d + 2 * f[0]
    BY <1>3, <1>6, <2>1
  <2> QED BY <2>1, <2>2
<1>8. ASSUME NEW j \in 0 .. N - 1, j \in S PROVE j + 1 \in S
  <2> DEFINE k == j + 1
  <2>1. k \in 1 .. N /\ k - 1 = j /\ k \in 0 .. N /\ k + 1 \in 1 .. 1 + N /\ (k + 1) - 1 = k
        /\ k \in Nat \ {0}
    BY <1>2
  <2>2. g[k] = d + 2 * f[j]
    BY <1>8
  <2> HIDE DEF k
  <2>3. g[k + 1] = g[k] + s[k] * Pow2[k]
    BY <1>1, <1>5, <2>1
  <2>4. f[k] = f[j] + s[k] * Pow2[j]
    BY <1>3, <2>1
  <2>5. Pow2[k] = 2 * Pow2[j] /\ Pow2[j] \in Int
    BY <2>1, Powers2
  <2>6. s[k] \in Int /\ f[j] \in Int
    BY <1>2, <2>1
  <2>7. s[k] * Pow2[k] = 2 * (s[k] * Pow2[j]) /\ s[k] * Pow2[j] \in Int
    <3> DEFINE x == s[k]  y == Pow2[j]  y2 == Pow2[k]
    <3>1. x \in Int /\ y \in Int /\ y2 = 2 * y
      BY <2>5, <2>6
    <3> HIDE DEF x, y, y2
    <3>2. x * y2 = 2 * (x * y) /\ x * y \in Int
      BY <3>1
    <3> QED BY <3>2 DEF x, y, y2
  <2>8. g[k + 1] = d + 2 * f[k]
    <3> DEFINE z == s[k] * Pow2[j]  a == f[j]
    <3>1. z \in Int /\ a \in Int /\ g[k + 1] = (d + 2 * a) + 2 * z /\ f[k] = a + z
      BY <2>2, <2>3, <2>4, <2>6, <2>7
    <3> HIDE DEF z, a
    <3> QED BY <3>1
  <2> QED BY <2>1, <2>8 DEF k
<1> HIDE DEF S
<1>9. \A j \in 0 .. N : j \in S
  BY <1>2, <1>7, <1>8, UpTo
<1>10. N \in S /\ N + 1 = 1 + N
  BY <1>2, <1>9
<1>11. g[N + 1] = d + 2 * f[N]
  BY <1>10 DEF S
<1> QED BY <1>3, <1>5, <1>10, <1>11 DEF l

LEMMA NoDigits == DigitSum(<<>>) = 0
<1>1. \A A : <<>> \in Seq(A)
  OBVIOUS
<1>2. <<>> \in Seq(Int) /\ Len(<<>>) = 0
  BY <1>1
<1> DEFINE s == <<>>
<1> HIDE DEF s
<1>3. s \in Seq(Int) /\ Len(s) = 0
  BY <1>2 DEF s
<1>4. DigitSum(s) = 0
  BY <1>3, DigitSumIs
<1> QED BY <1>4 DEF s

LEMMA NafInts ==
  ASSUME NEW w \in Nat \ {0, 1}, NEW k \in Nat
  PROVE  NafOf(k, w) \in Seq(Int) /\ \A j \in 1 .. Len(NafOf(k, w)) : NafOf(k, w)[j] \in NafDigitSet(w)
<1>1. NafOf(k, w) \in Seq(NafDigitSet(w))
  BY NafTyped
<1>2. NafOf(k, w) \in Seq(Int)
  BY <1>1 DEF NafDigitSet
<1> DEFINE s == NafOf(k, w)  A == NafDigitSet(w)
<1>3. s \in Seq(A)
  BY <1>1
<1> HIDE DEF s, A
<1>4. \A j \in 1 .. Len(s) : s[j] \in A
  BY <1>3
<1> QED BY <1>2, <1>4 DEF s, A

LEMMA NafSum ==
  ASSUME NEW w \in Nat \ {0, 1}, NEW k \in Nat
  PROVE  DigitSum(NafOf(k, w)) = k
<1> DEFINE S == {m \in Nat : DigitSum(NafOf(m, w)) = m}
<1>1. ASSUME NEW m \in Nat, \A l \in 0 .. m - 1 : l \in S PROVE m \in S
  <2>1. CASE m = 0
    <3>1. NafOf(0, w) = <<>>
      BY NafUnfold, Zenon
    <3>2. DigitSum(NafOf(0, w)) = 0
      BY <3>1, NoDigits
    <3> QED BY <2>1, <3>2
  <2>2. CASE m # 0
    <3> DEFINE d == NafDigit(m, w)  l == NafNext(m, w)
    <3>1. d \in Int /\ l \in Nat /\ l < m /\ m = d + 2 * l
      BY <2>2, NafDigits
    <3>2. NafOf(m, w) = <<d>> \o NafOf(l, w)
      BY <2>2, NafUnfold
    <3> HIDE DEF d, l
    <3>3. DigitSum(NafOf(l, w)) = l
      BY <1>1, <3>1
    <3>4. NafOf(l, w) \in Seq(Int)
      BY <3>1, NafInts
    <3>5. DigitSum(NafOf(m, w)) = d + 2 * l
      BY <3>1, <3>2, <3>3, <3>4, DigitSumFirst
    <3> QED BY <3>1, <3>5
  <2> QED BY <2>1, <2>2
<1> HIDE DEF S
<1>2. \A m \in Nat : m \in S
  BY <1>1, NatStrong
<1> QED BY <1>2 DEF S

-----------------------------------------------------------------------------
(* How long a recoding is. *)

LEMMA PowersGrow == ASSUME NEW c \in Nat, NEW a \in 0 .. c PROVE Pow2[a] <= Pow2[c]
<1> DEFINE S == {m \in 0 .. c - a : Pow2[a] <= Pow2[a + m]}
           N == c - a
<1>1. N \in Nat /\ a \in Nat /\ a + N = c
  OBVIOUS
<1>2. 0 \in S
  <2>1. a + 0 = a /\ Pow2[a] \in Nat
    BY <1>1, Powers2
  <2> QED BY <1>1, <2>1
<1>3. ASSUME NEW m \in 0 .. N - 1, m \in S PROVE m + 1 \in S
  <2>1. a + (m + 1) \in Nat \ {0} /\ (a + (m + 1)) - 1 = a + m /\ a + m \in Nat /\ m + 1 \in 0 .. N
    BY <1>1
  <2>2. Pow2[a + (m + 1)] = 2 * Pow2[a + m] /\ Pow2[a + m] \in Nat /\ Pow2[a] \in Nat
    BY <1>1, <2>1, Powers2
  <2>3. Pow2[a] <= Pow2[a + m]
    BY <1>3
  <2> QED BY <2>1, <2>2, <2>3
<1> HIDE DEF S, N
<1>4. \A m \in 0 .. N : m \in S
  BY <1>1, <1>2, <1>3, UpTo
<1>5. N \in S
  BY <1>1, <1>4
<1>6. Pow2[a] <= Pow2[a + N]
  BY <1>5 DEF S
<1> QED BY <1>1, <1>6

LEMMA PowersDivide ==
  ASSUME NEW c \in Nat, NEW a \in 0 .. c PROVE \E q \in Nat : Pow2[c] = q * Pow2[a]
<1> DEFINE S == {m \in 0 .. c - a : \E q \in Nat : Pow2[a + m] = q * Pow2[a]}
           N == c - a
<1>1. N \in Nat /\ a \in Nat /\ a + N = c
  OBVIOUS
<1>2. 0 \in S
  <2>1. a + 0 = a /\ Pow2[a] \in Nat
    BY <1>1, Powers2
  <2>2. Pow2[a + 0] = 1 * Pow2[a]
    BY <2>1
  <2> QED BY <1>1, <2>2
<1>3. ASSUME NEW m \in 0 .. N - 1, m \in S PROVE m + 1 \in S
  <2>1. a + (m + 1) \in Nat \ {0} /\ (a + (m + 1)) - 1 = a + m /\ a + m \in Nat /\ m + 1 \in 0 .. N
    BY <1>1
  <2>2. Pow2[a + (m + 1)] = 2 * Pow2[a + m] /\ Pow2[a + m] \in Nat /\ Pow2[a] \in Nat
    BY <1>1, <2>1, Powers2
  <2>3. PICK q \in Nat : Pow2[a + m] = q * Pow2[a]
    BY <1>3
  <2>4. Pow2[a + (m + 1)] = (2 * q) * Pow2[a] /\ 2 * q \in Nat
    BY <2>2, <2>3
  <2> QED BY <2>1, <2>4
<1> HIDE DEF S, N
<1>4. \A m \in 0 .. N : m \in S
  BY <1>1, <1>2, <1>3, UpTo
<1>5. N \in S
  BY <1>1, <1>4
<1>6. \E q \in Nat : Pow2[a + N] = q * Pow2[a]
  BY <1>5 DEF S
<1> QED BY <1>1, <1>6

LEMMA FewerTimes ==
  ASSUME NEW w \in Nat \ {0}, NEW a \in Int, NEW c \in Int, a * w < c * w
  PROVE  a + 1 <= c
<1> SUFFICES ASSUME c <= a PROVE FALSE
  OBVIOUS
<1>1. w * c <= w * a
  BY Mono
<1> DEFINE x == a * w  y == c * w
<1>2. w * c = y /\ w * a = x /\ x \in Int /\ y \in Int
  OBVIOUS
<1>3. x < y /\ y <= x
  BY <1>1, <1>2
<1> HIDE DEF x, y
<1> QED BY <1>2, <1>3

(* A digit taken away leaves at most half of the power of two above.       *)
LEMMA NafHalves ==
  ASSUME NEW w \in Nat \ {0, 1}, NEW m \in Nat \ {0}, NEW k \in Nat \ {0}, k <= Pow2[m]
  PROVE  NafNext(k, w) <= Pow2[m - 1]
<1> DEFINE d == NafDigit(k, w)  l == NafNext(k, w)  z == Pow2[m - 1]
           Y == Pow2[w]  V == Pow2[w - 1]  x == k % Y  q == k \div Y
<1>1. d \in Int /\ l \in Nat /\ k = d + 2 * l
  BY NafDigits
<1>2. Pow2[m] = 2 * z /\ z \in Nat
  BY Powers2
<1>3. V \in Nat \ {0} /\ Y = 2 * V /\ Y \in Nat \ {0}
  <2>1. w - 1 \in Nat /\ w \in Nat \ {0}
    OBVIOUS
  <2> QED BY <2>1, Powers2
<1>4. x \in 0 .. Y - 1 /\ k = q * Y + x /\ q \in Int
  <2>1. k \in Int
    OBVIOUS
  <2> HIDE DEF Y
  <2> QED BY <1>3, <2>1, DivMod
<1>5. d = IF k % 2 = 0 THEN 0 ELSE IF x > V THEN x - Y ELSE x
  BY DEF NafDigit
<1> HIDE DEF d, l, z
<1>6. ASSUME d >= 0 PROVE l <= z
  BY <1>1, <1>2, <1>6
<1>7. ASSUME d < 0 PROVE l <= z
  <2>0. x > V /\ d = x - Y
    <3> HIDE DEF x, V, Y
    <3> QED BY <1>3, <1>4, <1>5, <1>7
  <2>1. m >= w
    <3> SUFFICES ASSUME m <= w - 1 PROVE FALSE
      OBVIOUS
    <3>1. Pow2[m] <= V
      <4>1. w - 1 \in Nat /\ m \in 0 .. w - 1
        OBVIOUS
      <4> QED BY <4>1, PowersGrow
    <3>2. q >= 0
      <4> HIDE DEF Y, x, q
      <4> SUFFICES ASSUME ~ (q >= 0) PROVE FALSE
        OBVIOUS
      <4>1. -q \in Int /\ -q >= 1
        BY <1>4
      <4>2. (-q) * Y >= Y
        BY <1>3, <4>1, NoMultipleBetween
      <4>3. (-q) * Y = -(q * Y) /\ q * Y \in Int
        BY <1>3, <1>4
      <4> DEFINE b == q * Y
      <4>4. -b >= Y /\ b \in Int /\ k = b + x
        BY <1>4, <4>2, <4>3
      <4> HIDE DEF b
      <4> QED BY <1>3, <1>4, <4>4
    <3>3. q * Y \in Nat
      <4> HIDE DEF Y, q
      <4> QED BY <1>3, <1>4, <3>2, NatProduct
    <3> DEFINE b == q * Y
    <3>4. b \in Nat /\ k = b + x
      BY <1>4, <3>3
    <3> HIDE DEF b, x, V, Y, q
    <3> QED BY <1>2, <1>3, <1>4, <2>0, <3>1, <3>4
  <2>2. PICK g \in Nat : Pow2[m] = g * Y
    <3>1. m \in Nat /\ w \in 0 .. m
      BY <2>1
    <3> QED BY <3>1, PowersDivide
  <2>3. q * Y < g * Y
    <3> DEFINE b == q * Y  c == g * Y
    <3>1. b \in Int /\ c \in Int /\ k = b + x /\ k <= c
      <4> HIDE DEF Y, q, x
      <4> QED BY <1>3, <1>4, <2>2
    <3> HIDE DEF b, c, x, V, Y, q
    <3>2. b < c
      BY <1>3, <1>4, <2>0, <3>1
    <3> QED BY <3>2 DEF b, c
  <2>4. q + 1 <= g
    <3>1. Y \in Nat \ {0} /\ q \in Int /\ g \in Int
      BY <1>3, <1>4
    <3> HIDE DEF Y, q
    <3> QED BY <2>3, <3>1, FewerTimes
  <2>5. Y * (q + 1) <= Y * g
    <3> HIDE DEF Y, q
    <3>1. q + 1 \in Int /\ Y \in Nat
      BY <1>3, <1>4
    <3> QED BY <2>4, <3>1, Mono
  <2>6. Y * (q + 1) = 2 * l
    <3> HIDE DEF Y, q, x
    <3>1. Y * (q + 1) = q * Y + Y /\ q * Y \in Int
      BY <1>3, <1>4
    <3> DEFINE b == q * Y
    <3>2. Y * (q + 1) = b + Y /\ b \in Int /\ k = b + x
      BY <1>4, <3>1
    <3>3. x \in Int /\ Y \in Int
      BY <1>3, <1>4
    <3> HIDE DEF b
    <3>4. b + Y = 2 * l
      BY <1>1, <2>0, <3>2, <3>3
    <3> QED BY <3>2, <3>4
  <2>7. Y * g = 2 * z
    <3> HIDE DEF Y
    <3>1. Y * g = g * Y
      BY <1>3
    <3> QED BY <1>2, <2>2, <3>1
  <2>8. 2 * l <= 2 * z
    <3> HIDE DEF Y, q
    <3> QED BY <2>5, <2>6, <2>7
  <2> QED BY <1>1, <1>2, <2>8
<1>8. l <= z
  BY <1>1, <1>6, <1>7
<1> QED BY <1>8 DEF l, z

LEMMA NafLength ==
  ASSUME NEW w \in Nat \ {0, 1}, NEW c \in Nat
  PROVE  \A k \in Nat : k <= Pow2[c] => Len(NafOf(k, w)) <= c + 1
<1> DEFINE S == {m \in 0 .. c : \A k \in Nat : k <= Pow2[m] => Len(NafOf(k, w)) <= m + 1}
<1>1. Len(NafOf(0, w)) = 0
  <2>1. NafOf(0, w) = <<>>
    BY NafUnfold, Zenon
  <2> QED BY <2>1
<1>2. ASSUME NEW k \in Nat \ {0}
      PROVE  NafNext(k, w) \in Nat /\ Len(NafOf(k, w)) = 1 + Len(NafOf(NafNext(k, w), w))
  <2> DEFINE d == NafDigit(k, w)  l == NafNext(k, w)
  <2>1. d \in Int /\ l \in Nat
    BY NafDigits
  <2>2. NafOf(k, w) = <<d>> \o NafOf(l, w)
    BY NafUnfold
  <2> HIDE DEF d, l
  <2>3. NafOf(l, w) \in Seq(Int)
    BY <2>1, NafInts
  <2>4. Len(NafOf(k, w)) = 1 + Len(NafOf(l, w))
    BY <2>1, <2>2, <2>3, Longer1
  <2> QED BY <2>1, <2>4 DEF l
<1>3. 0 \in S
  <2> SUFFICES ASSUME NEW k \in Nat, k <= Pow2[0] PROVE Len(NafOf(k, w)) <= 0 + 1
    OBVIOUS
  <2>1. Pow2[0] = 1
    BY Powers2
  <2>2. CASE k = 0
    BY <1>1, <2>2
  <2>3. CASE k # 0
    <3>1. k = 1
      BY <2>1, <2>3
    <3>2. NafNext(1, w) \in Nat /\ NafNext(1, w) < 1
      BY NafDigits
    <3>3. NafNext(1, w) = 0
      BY <3>2
    <3>4. 1 \in Nat \ {0}
      OBVIOUS
    <3>5. Len(NafOf(1, w)) = 1 + Len(NafOf(0, w))
      BY <1>2, <3>3, <3>4
    <3> QED BY <1>1, <3>1, <3>5
  <2> QED BY <2>2, <2>3
<1>4. ASSUME NEW m \in 0 .. c - 1, m \in S PROVE m + 1 \in S
  <2>1. m + 1 \in 0 .. c /\ m + 1 \in Nat \ {0} /\ (m + 1) - 1 = m
    OBVIOUS
  <2>2. ASSUME NEW k \in Nat, k <= Pow2[m + 1] PROVE Len(NafOf(k, w)) <= (m + 1) + 1
    <3>1. CASE k = 0
      <4>1. 0 <= (m + 1) + 1
        OBVIOUS
      <4> QED BY <1>1, <3>1, <4>1
    <3>2. CASE k # 0
      <4> DEFINE l == NafNext(k, w)
      <4>1. l \in Nat /\ Len(NafOf(k, w)) = 1 + Len(NafOf(l, w))
        BY <1>2, <3>2
      <4>2. l <= Pow2[m]
        BY <2>1, <2>2, <3>2, NafHalves
      <4> HIDE DEF l
      <4>3. Len(NafOf(l, w)) <= m + 1
        BY <1>4, <4>1, <4>2
      <4>4. NafOf(l, w) \in Seq(Int)
        BY <4>1, NafInts
      <4>5. Len(NafOf(l, w)) \in Nat
        BY <4>4
      <4> DEFINE y == Len(NafOf(l, w))
      <4> HIDE DEF y
      <4>6. 1 + y <= (m + 1) + 1
        BY <4>3, <4>5 DEF y
      <4> QED BY <4>1, <4>6 DEF y
    <3> QED BY <3>1, <3>2
  <2> QED BY <2>1, <2>2
<1> HIDE DEF S
<1>5. \A m \in 0 .. c : m \in S
  BY <1>3, <1>4, UpTo
<1>6. c \in S
  BY <1>5
<1> QED BY <1>6 DEF S

LEMMA NafLengthBits ==
  ASSUME NEW w \in Nat \ {0, 1}, NEW k \in Nat
  PROVE  Len(NafOf(k, w)) <= Bits(k) + 1
<1>1. Bits(k) \in Nat /\ Pow2[Bits(k)] \in Nat /\ k <= Pow2[Bits(k)]
  <2>1. Bits(k) \in Nat
    BY BitsUnfold
  <2> QED BY <2>1, Powers2, BitsBound
<1> QED BY <1>1, NafLength

-----------------------------------------------------------------------------
(* The zeros after a digit. *)

LEMMA DigitFirst ==
  ASSUME NEW d \in Int, NEW s \in Seq(Int), NEW j \in Nat \ {0}
  PROVE  Digit(<<d>> \o s, 1) = d /\ Digit(<<d>> \o s, j + 1) = Digit(s, j)
<1> DEFINE l == <<d>> \o s
<1>1. /\ Len(l) = 1 + Len(s) /\ l[1] = d /\ Len(s) \in Nat
      /\ \A h \in 1 .. Len(s) : l[h + 1] = s[h]
  BY Longer1
<1> HIDE DEF l
<1> DEFINE N == Len(s)
<1>2. Len(l) = 1 + N /\ N \in Nat /\ (j <= N => l[j + 1] = s[j])
  BY <1>1
<1> HIDE DEF N
<1>3. Digit(l, 1) = d
  BY <1>1, <1>2 DEF Digit
<1>4. Digit(l, j + 1) = Digit(s, j)
  <2>1. (j + 1 <= 1 + N) <=> (j <= N)
    BY <1>2
  <2> QED BY <1>2, <2>1 DEF Digit, N
<1> QED BY <1>3, <1>4 DEF l

LEMMA NoDigit == ASSUME NEW j \in Nat \ {0} PROVE Digit(<<>>, j) = 0
BY DEF Digit

LEMMA NafZeros ==
  ASSUME NEW w \in Nat \ {0, 1}, NEW c \in Nat
  PROVE  \A q \in Nat : \A j \in 1 .. c : Digit(NafOf(q * Pow2[c], w), j) = 0
<1> DEFINE S == {m \in 0 .. c : \A q \in Nat : \A j \in 1 .. m : Digit(NafOf(q * Pow2[m], w), j) = 0}
<1>1. 0 \in S
  OBVIOUS
<1>2. ASSUME NEW m \in 0 .. c - 1, m \in S PROVE m + 1 \in S
  <2>1. m + 1 \in 0 .. c /\ m + 1 \in Nat \ {0} /\ (m + 1) - 1 = m /\ m \in Nat
    OBVIOUS
  <2>2. Pow2[m + 1] = 2 * Pow2[m] /\ Pow2[m] \in Nat
    BY <2>1, Powers2
  <2>3. ASSUME NEW q \in Nat, NEW j \in 1 .. m + 1 PROVE Digit(NafOf(q * Pow2[m + 1], w), j) = 0
    <3> DEFINE k == q * Pow2[m + 1]  l == q * Pow2[m]
    <3>1. l \in Nat
      BY <2>2, NatProduct
    <3>2. k = 2 * l
      <4> DEFINE y == Pow2[m]
      <4>1. k = q * (2 * y) /\ y \in Nat
        BY <2>2
      <4> HIDE DEF y, k
      <4>2. q * (2 * y) = 2 * (q * y)
        BY <4>1
      <4> QED BY <4>1, <4>2 DEF y
    <3> HIDE DEF k
    <3>3. CASE l = 0
      <4>1. k = 0
        BY <3>2, <3>3
      <4>2. NafOf(0, w) = <<>>
        BY NafUnfold, Zenon
      <4>3. j \in Nat \ {0}
        OBVIOUS
      <4> QED BY <4>1, <4>2, <4>3, NoDigit DEF k
    <3>4. CASE l # 0
      <4> HIDE DEF l
      <4>1. k \in Nat \ {0} /\ k % 2 = 0 /\ k \div 2 = l
        BY <3>1, <3>2, <3>4
      <4>2. NafDigit(k, w) = 0
        BY <4>1 DEF NafDigit
      <4>3. NafNext(k, w) = l
        BY <4>1, <4>2 DEF NafNext
      <4>4. NafOf(k, w) = <<0>> \o NafOf(l, w)
        BY <4>1, <4>2, <4>3, NafUnfold
      <4>5. NafOf(l, w) \in Seq(Int) /\ 0 \in Int
        BY <3>1, NafInts
      <4>6. CASE j = 1
        <5>1. 1 \in Nat \ {0}
          OBVIOUS
        <5>2. Digit(<<0>> \o NafOf(l, w), 1) = 0
          BY <4>5, <5>1, DigitFirst
        <5> QED BY <4>4, <4>6, <5>2 DEF k
      <4>7. CASE j # 1
        <5>1. j - 1 \in Nat \ {0} /\ j - 1 \in 1 .. m /\ (j - 1) + 1 = j
          BY <4>7
        <5>2. Digit(<<0>> \o NafOf(l, w), (j - 1) + 1) = Digit(NafOf(l, w), j - 1)
          BY <4>5, <5>1, DigitFirst
        <5>3. Digit(NafOf(l, w), j - 1) = 0
          BY <1>2, <5>1 DEF l
        <5> QED BY <4>4, <5>1, <5>2, <5>3 DEF k
      <4> QED BY <4>6, <4>7
    <3> QED BY <3>3, <3>4
  <2> QED BY <2>1, <2>3
<1> HIDE DEF S
<1>3. \A m \in 0 .. c : m \in S
  BY <1>1, <1>2, UpTo
<1>4. c \in S
  BY <1>3
<1> QED BY <1>4 DEF S

LEMMA NafSparse ==
  ASSUME NEW w \in Nat \ {0, 1}, NEW k \in Nat
  PROVE  \A j \in Nat \ {0} : Digit(NafOf(k, w), j) # 0 =>
            \A m \in 1 .. w - 1 : Digit(NafOf(k, w), j + m) = 0
<1> DEFINE Sparse(a) == \A j \in Nat \ {0} : Digit(NafOf(a, w), j) # 0 =>
                          \A m \in 1 .. w - 1 : Digit(NafOf(a, w), j + m) = 0
           S == {a \in Nat : Sparse(a)}
<1>1. ASSUME NEW a \in Nat, \A b \in 0 .. a - 1 : b \in S PROVE a \in S
  <2>1. CASE a = 0
    <3>1. NafOf(0, w) = <<>>
      BY NafUnfold, Zenon
    <3>2. \A j \in Nat \ {0} : Digit(NafOf(0, w), j) = 0
      BY <3>1, NoDigit
    <3> QED BY <2>1, <3>2
  <2>2. CASE a # 0
    <3> DEFINE d == NafDigit(a, w)  l == NafNext(a, w)
    <3>1. d \in Int /\ l \in 0 .. a - 1 /\ l \in Nat
      BY <2>2, NafDigits
    <3>2. d # 0 => \E q \in Nat : l = q * Pow2[w - 1]
      BY <2>2, NafDigits
    <3>3. NafOf(a, w) = <<d>> \o NafOf(l, w)
      BY <2>2, NafUnfold
    <3> HIDE DEF d, l
    <3>4. NafOf(l, w) \in Seq(Int)
      BY <3>1, NafInts
    <3>5. /\ Digit(NafOf(a, w), 1) = d
          /\ \A j \in Nat \ {0} : Digit(NafOf(a, w), j + 1) = Digit(NafOf(l, w), j)
      <4>1. 1 \in Nat \ {0}
        OBVIOUS
      <4> QED BY <3>1, <3>3, <3>4, <4>1, DigitFirst
    <3>6. ASSUME NEW j \in Nat \ {0}, Digit(NafOf(a, w), j) # 0, NEW m \in 1 .. w - 1
          PROVE  Digit(NafOf(a, w), j + m) = 0
      <4>1. CASE j = 1
        <5>1. d # 0
          BY <3>5, <3>6, <4>1
        <5>2. PICK q \in Nat : l = q * Pow2[w - 1]
          BY <3>2, <5>1
        <5>3. w - 1 \in Nat /\ m \in Nat \ {0} /\ m \in 1 .. w - 1 /\ 1 + m = m + 1
          OBVIOUS
        <5>4. Digit(NafOf(l, w), m) = 0
          BY <5>2, <5>3, NafZeros
        <5> QED BY <3>5, <4>1, <5>3, <5>4
      <4>2. CASE j # 1
        <5> DEFINE h == j - 1
        <5>1. h \in Nat \ {0} /\ h + 1 = j /\ h + m \in Nat \ {0} /\ (h + m) + 1 = j + m
          BY <4>2
        <5> HIDE DEF h
        <5>2. Digit(NafOf(l, w), h) # 0
          BY <3>5, <3>6, <5>1
        <5>3. l \in S
          BY <1>1, <3>1
        <5>4. Digit(NafOf(l, w), h + m) = 0
          BY <5>1, <5>2, <5>3
        <5> QED BY <3>5, <5>1, <5>4
      <4> QED BY <4>1, <4>2
    <3> QED BY <3>6
  <2> QED BY <2>1, <2>2
<1> HIDE DEF S
<1>2. \A a \in Nat : a \in S
  BY <1>1, NatStrong
<1>3. k \in S
  BY <1>2
<1> QED BY <1>3 DEF S

-----------------------------------------------------------------------------
(* All that ep_mul_lwnaf trusts of a recoding, for every integer.          *)

LEMMA WidthIs == Width \in Nat \ {0, 1} /\ Width - 2 \in Nat /\ Pow2[Width - 1] = 2 * Pow2[Width - 2]
                 /\ Pow2[Width - 2] \in Nat \ {0}
<1>1. Width \in Nat \ {0, 1, 2}
  BY EpAssumption
<1>2. Width - 2 \in Nat /\ Width - 1 \in Nat \ {0} /\ (Width - 1) - 1 = Width - 2
  BY <1>1
<1> QED BY <1>1, <1>2, Powers2

LEMMA TableHolds ==
  ASSUME NEW d \in NafDigitSet(Width)
  PROVE  d \in Int /\ Mag(d) \div 2 \in 0 .. Pow2[Width - 2] - 1
<1> DEFINE h == Pow2[Width - 2]  V == Pow2[Width - 1]
<1>1. h \in Nat \ {0} /\ V = 2 * h
  BY WidthIs
<1>2. d \in Int /\ -V < d /\ d < V
  BY DEF NafDigitSet
<1> HIDE DEF h, V
<1>3. Mag(d) \in Nat /\ Mag(d) < 2 * h
  BY <1>1, <1>2 DEF Mag
<1> DEFINE a == Mag(d)
<1> HIDE DEF a
<1>4. a \in Nat /\ a < 2 * h
  BY <1>3 DEF a
<1>5. a \div 2 \in 0 .. h - 1
  BY <1>1, <1>4
<1> QED BY <1>2, <1>5 DEF a, h

(* Of every integer, bn_rec_naf's digits add up to its absolute value, are *)
(* at most one more than its bits, and each that is not zero is odd, in    *)
(* the table's reach, and followed by zeros for the rest of the window.    *)
THEOREM NafCorrect == ASSUME NEW k \in Int PROVE NafRight(k)
<1> DEFINE naf == bn_rec_naf(k, Width)  w == Width  a == Mag(k)
<1>1. a \in Nat /\ w \in Nat \ {0, 1}
  BY MagNat, WidthIs
<1>2. naf = NafOf(a, w)
  BY NafIs
<1> HIDE DEF a
<1>3. naf \in Seq(Int) /\ \A j \in 1 .. Len(naf) : naf[j] \in NafDigitSet(w)
  <2> HIDE DEF naf, w
  <2> QED BY <1>1, <1>2, NafInts
<1>4. DigitSum(naf) = a
  <2> HIDE DEF naf, w
  <2> QED BY <1>1, <1>2, NafSum
<1>5. Len(naf) <= Bits(a) + 1
  <2> HIDE DEF naf, w
  <2> QED BY <1>1, <1>2, NafLengthBits
<1>6. ASSUME NEW j \in DOMAIN naf, naf[j] # 0
      PROVE  /\ naf[j] % 2 = 1 /\ Mag(naf[j]) \div 2 < Pow2[w - 2]
             /\ \A m \in 1 .. w - 1 : Digit(naf, j + m) = 0
  <2> HIDE DEF naf
  <2>1. j \in 1 .. Len(naf) /\ Len(naf) \in Nat
    BY <1>3
  <2>2. j \in Nat \ {0} /\ j <= Len(naf)
    BY <2>1
  <2>3. naf[j] \in NafDigitSet(w)
    BY <1>3, <2>1
  <2>4. naf[j] % 2 = 1
    BY <1>6, <2>3 DEF NafDigitSet
  <2>5. Mag(naf[j]) \div 2 \in 0 .. Pow2[w - 2] - 1 /\ Pow2[w - 2] \in Nat
    BY <2>3, TableHolds, WidthIs
  <2>6. Digit(naf, j) = naf[j]
    BY <2>2 DEF Digit
  <2> HIDE DEF w
  <2>7. \A m \in 1 .. w - 1 : Digit(naf, j + m) = 0
    BY <1>1, <1>2, <1>6, <2>2, <2>6, NafSparse
  <2> QED BY <2>4, <2>5, <2>7
<1> HIDE DEF naf
<1> QED BY <1>4, <1>5, <1>6 DEF NafRight, naf, a

(* And of a decomposed scalar. *)
LEMMA RecodingsOf ==
  scalar \in Nat => RecodingsRight
<1> SUFFICES ASSUME scalar \in Nat PROVE RecodingsRight
  OBVIOUS
<1> DEFINE half == Glv(scalar)  k == scalar
<1>1. half[1] \in Int /\ half[2] \in Int /\ (half[1] + lambda * half[2]) % Order = k % Order
  BY GlvCongruent
<1>2. half[1] * half[1] < 2 * Order /\ half[2] * half[2] < 2 * Order
  BY GlvShort
<1> HIDE DEF half
<1>3. NafRight(half[1]) /\ NafRight(half[2])
  BY <1>1, NafCorrect
<1>4. \A h \in 1 .. 2 : h = 1 \/ h = 2
  OBVIOUS
<1>5. \A h \in 1 .. 2 : half[h] * half[h] < 2 * Order /\ NafRight(half[h])
  BY <1>2, <1>3, <1>4, Zenon
<1> QED BY <1>1, <1>5 DEF RecodingsRight, half

-----------------------------------------------------------------------------
(* Multiplication: the table, and the same normalised. *)

IsEntries(v, c, a, b) ==
  v = [j \in 1 .. c |-> IF j = 1 THEN <<a>>
                        ELSE Append(v[j - 1], EpAdd(<<v[j - 1][j - 1], b, infty>>, 3, 1, 2)[3])]

IsNormed(v, all) ==
  v = [j \in 0 .. Len(all) |-> IF j = 0 THEN <<>> ELSE Append(v[j - 1], Norm(all[j]))]

LEMMA EntriesTyped ==
  ASSUME NEW c \in Nat \ {0}, NEW a \in ProjPoints, NEW b \in ProjPoints, NEW v,
         IsEntries(v, c, a, b)
  PROVE  v[c] \in Seq(ProjPoints) /\ Len(v[c]) = c
<1> DEFINE S == {j \in 1 .. c : v[j] \in Seq(ProjPoints) /\ Len(v[j]) = j}
<1>1. v[1] = <<a>> /\ \A j \in 2 .. c : v[j] = Append(v[j - 1], EpAdd(<<v[j - 1][j - 1], b, infty>>, 3, 1, 2)[3])
  <2>1. 1 \in 1 .. c /\ \A j \in 2 .. c : j \in 1 .. c /\ j # 1
    OBVIOUS
  <2> QED BY <2>1 DEF IsEntries
<1>2. 1 \in S
  <2>1. <<a>> \in Seq(ProjPoints) /\ Len(<<a>>) = 1 /\ 1 \in 1 .. c
    OBVIOUS
  <2> QED BY <1>1, <2>1
<1>3. ASSUME NEW j \in 2 .. c, j - 1 \in S PROVE j \in S
  <2> DEFINE s == v[j - 1]  x == s[j - 1]  y == EpAdd(<<x, b, infty>>, 3, 1, 2)[3]
  <2>1. s \in Seq(ProjPoints) /\ Len(s) = j - 1
    BY <1>3
  <2>2. v[j] = Append(s, y)
    BY <1>1
  <2> HIDE DEF s
  <2>3. x \in ProjPoints
    <3>1. j - 1 \in 1 .. Len(s)
      BY <2>1
    <3> QED BY <2>1, <3>1
  <2> HIDE DEF x
  <2>4. y \in ProjPoints
    BY <2>3, AloneTyped
  <2> HIDE DEF y
  <2>5. Append(s, y) \in Seq(ProjPoints) /\ Len(Append(s, y)) = j
    <3>1. j \in Int /\ (j - 1) + 1 = j
      OBVIOUS
    <3> QED BY <2>1, <2>4, <3>1
  <2> QED BY <2>2, <2>5
<1> HIDE DEF S
<1>4. \A j \in 1 .. c : j \in S
  BY <1>2, <1>3, FromOne
<1>5. c \in S
  BY <1>4
<1> QED BY <1>5 DEF S

LEMMA NormedTyped ==
  ASSUME NEW all \in Seq(ProjPoints), NEW v,
         IsNormed(v, all)
  PROVE  v[Len(all)] \in Seq(ProjPoints) /\ Len(v[Len(all)]) = Len(all)
<1> DEFINE N == Len(all)
           S == {j \in 0 .. N : v[j] \in Seq(ProjPoints) /\ Len(v[j]) = j}
<1>0. N \in Nat
  OBVIOUS
<1>1. v[0] = <<>> /\ \A j \in 1 .. N : v[j] = Append(v[j - 1], Norm(all[j]))
  <2>1. 0 \in 0 .. N /\ \A j \in 1 .. N : j \in 0 .. N /\ j # 0
    BY <1>0
  <2> QED BY <2>1 DEF IsNormed
<1>2. 0 \in S
  <2>1. (\A A : <<>> \in Seq(A)) /\ Len(<<>>) = 0
    OBVIOUS
  <2>2. <<>> \in Seq(ProjPoints)
    BY <2>1, Zenon
  <2>3. v[0] \in Seq(ProjPoints) /\ Len(v[0]) = 0
    BY <1>1, <2>1, <2>2, Zenon
  <2>4. 0 \in 0 .. N
    BY <1>0
  <2> QED BY <2>3, <2>4
<1>3. ASSUME NEW j \in 0 .. N - 1, j \in S PROVE j + 1 \in S
  <2> DEFINE s == v[j]  y == Norm(all[j + 1])
  <2>1. s \in Seq(ProjPoints) /\ Len(s) = j
    BY <1>3
  <2>2. j + 1 \in 1 .. N /\ (j + 1) - 1 = j /\ j + 1 \in 0 .. N
    BY <1>0
  <2>3. v[j + 1] = Append(s, y)
    BY <1>1, <2>2
  <2> HIDE DEF s
  <2>4. y \in ProjPoints
    <3>1. all[j + 1] \in ProjPoints
      BY <2>2
    <3> QED BY <3>1, PointMaps
  <2> HIDE DEF y, N
  <2>5. Append(s, y) \in Seq(ProjPoints) /\ Len(Append(s, y)) = j + 1
    BY <2>1, <2>4
  <2> QED BY <2>2, <2>3, <2>5
<1> HIDE DEF S
<1>4. \A j \in 0 .. N : j \in S
  <2> HIDE DEF N
  <2> QED BY <1>0, <1>2, <1>3, UpTo
<1>5. N \in S
  BY <1>0, <1>4
<1> QED BY <1>5 DEF S

(* The functions the two loops define exist. *)
LEMMA EntriesExist ==
  ASSUME NEW c \in Nat \ {0}, NEW a \in ProjPoints, NEW b \in ProjPoints
  PROVE  \E v : IsEntries(v, c, a, b)
<1> DEFINE D == Seq(ProjPoints)
           T == [k \in 1 .. c |-> {y \in D : Len(y) = k}]
           Next0(k, y) == Append(y, EpAdd(<<y[k - 1], b, infty>>, 3, 1, 2)[3])
           H == [w \in (1 .. c) \X D |-> Next0(w[1], w[2])]
<1>1. ASSUME NEW k \in 2 .. c, NEW y \in T[k - 1] PROVE y \in D /\ Next0(k, y) \in T[k]
  <2>1. k - 1 \in 1 .. c /\ k \in 1 .. c /\ k \in Nat
    OBVIOUS
  <2>2. y \in D /\ Len(y) = k - 1
    BY <2>1
  <2> DEFINE x == y[k - 1]  z == EpAdd(<<x, b, infty>>, 3, 1, 2)[3]
  <2>3. x \in ProjPoints
    <3>1. k - 1 \in 1 .. Len(y)
      BY <2>1, <2>2
    <3> QED BY <2>2, <3>1
  <2> HIDE DEF x
  <2>4. z \in ProjPoints
    BY <2>3, AloneTyped
  <2> HIDE DEF z
  <2>5. Append(y, z) \in D /\ Len(Append(y, z)) = k
    BY <2>1, <2>2, <2>4
  <2> QED BY <2>1, <2>2, <2>5 DEF z, x
<1>2. <<a>> \in T[1]
  <2>1. <<a>> \in D /\ Len(<<a>>) = 1 /\ 1 \in 1 .. c
    OBVIOUS
  <2> QED BY <2>1
<1>3. T \in [1 .. c -> SUBSET D]
  OBVIOUS
<1> HIDE DEF Next0
<1>4. Leads(T, c, H, 2)
  <2> SUFFICES ASSUME NEW k \in 2 .. c, NEW y \in T[k - 1] PROVE H[<<k, y>>] \in T[k]
    BY DEF Leads
  <2>1. k \in 1 .. c /\ y \in D
    BY <1>1
  <2>2. H[<<k, y>>] = Next0(k, y)
    BY <2>1
  <2> QED BY <1>1, <2>2
<1>5. PICK f \in [1 .. c -> D] : LoopFromOne(f, c, <<a>>, H)
  <2> HIDE DEF H, T, D
  <2> QED BY <1>2, <1>3, <1>4, LoopFromOneTyped, Zenon
<1>6. ASSUME NEW k \in 1 .. c, k # 1 PROVE H[<<k, f[k - 1]>>] = Next0(k, f[k - 1])
  <2>1. k - 1 \in 1 .. c
    BY <1>6
  <2>2. f[k - 1] \in D
    <3> HIDE DEF D
    <3> QED BY <2>1
  <2> HIDE DEF D
  <2> QED BY <2>2
<1>7. f = [j \in 1 .. c |-> IF j = 1 THEN <<a>> ELSE Next0(j, f[j - 1])]
  <2> HIDE DEF H
  <2> QED BY <1>5, <1>6 DEF LoopFromOne
<1> QED BY <1>7, Zenon DEF Next0, IsEntries

LEMMA NormedExist ==
  ASSUME NEW all \in Seq(ProjPoints)
  PROVE  \E v : IsNormed(v, all)
<1> DEFINE D == Seq(ProjPoints)
           N == Len(all)
           Next0(k, y) == Append(y, Norm(all[k]))
           H == [w \in (1 .. N) \X D |-> Next0(w[1], w[2])]
<1>0. N \in Nat
  OBVIOUS
<1>1. \A k \in 1 .. N : \A y \in D : Next0(k, y) \in D
  <2> SUFFICES ASSUME NEW k \in 1 .. N, NEW y \in D PROVE Next0(k, y) \in D
    OBVIOUS
  <2>1. all[k] \in ProjPoints
    OBVIOUS
  <2> DEFINE x == Norm(all[k])
  <2>2. x \in ProjPoints
    BY <2>1, PointMaps
  <2> HIDE DEF x
  <2>3. Append(y, x) \in D
    BY <2>2
  <2> QED BY <2>3 DEF x
<1> HIDE DEF Next0
<1>2. H \in [(1 .. N) \X D -> D] /\ <<>> \in D
  <2>1. \A A : <<>> \in Seq(A)
    OBVIOUS
  <2>2. <<>> \in D
    BY <2>1, Zenon
  <2>3. H \in [(1 .. N) \X D -> D]
    <3> HIDE DEF D, N
    <3> QED BY <1>1
  <2> QED BY <2>2, <2>3
<1>3. PICK f \in [0 .. N -> D] : LoopOf(f, N, <<>>, H)
  <2> HIDE DEF H, D, N
  <2> QED BY <1>0, <1>2, LoopExists, Zenon
<1>4. ASSUME NEW k \in 0 .. N, k # 0 PROVE H[<<k, f[k - 1]>>] = Next0(k, f[k - 1])
  <2>1. k - 1 \in 0 .. N /\ k \in 1 .. N
    BY <1>0, <1>4
  <2>2. f[k - 1] \in D
    <3> HIDE DEF D, N
    <3> QED BY <2>1
  <2> HIDE DEF D, N
  <2> QED BY <2>1, <2>2
<1>5. f = [j \in 0 .. N |-> IF j = 0 THEN <<>> ELSE Next0(j, f[j - 1])]
  <2> HIDE DEF H, N
  <2> QED BY <1>3, <1>4 DEF LoopOf
<1> QED BY <1>5, Zenon DEF Next0, IsNormed

LEMMA EpTabTyped ==
  ASSUME NEW a \in ProjPoints
  PROVE  EpTab(a) \in Seq(ProjPoints) /\ Len(EpTab(a)) = Pow2[Width - 2]
<1> DEFINE c == Pow2[Width - 2]
           b == Norm(EpDbl(<<a>>, 1, 1)[1])
           odd == CHOOSE v : IsEntries(v, c, a, b)
           all == odd[c]
           norm == CHOOSE v : IsNormed(v, all)
<1>1. EpTab(a) = norm[Len(all)]
  BY DEF EpTab, IsEntries, IsNormed
<1>2. c \in Nat \ {0} /\ b \in ProjPoints
  <2>1. EpDbl(<<a>>, 1, 1)[1] \in ProjPoints
    BY AloneTyped
  <2> QED BY <2>1, WidthIs, PointMaps
<1> HIDE DEF b, c
<1>3. IsEntries(odd, c, a, b)
  BY <1>2, EntriesExist, Zenon
<1> HIDE DEF odd
<1>4. all \in Seq(ProjPoints) /\ Len(all) = c
  BY <1>2, <1>3, EntriesTyped, Zenon
<1> HIDE DEF all
<1>5. IsNormed(norm, all)
  BY <1>4, NormedExist, Zenon
<1> HIDE DEF norm
<1>6. norm[Len(all)] \in Seq(ProjPoints) /\ Len(norm[Len(all)]) = Len(all)
  BY <1>4, <1>5, NormedTyped, Zenon
<1> QED BY <1>1, <1>4, <1>6 DEF c

(* The loop over the digits, for a table of the size the digits index.     *)
LEMMA LoopIsTyped ==
  ASSUME NEW tab \in Seq(ProjPoints), Len(tab) = Pow2[Width - 2],
         NEW naf0 \in Seq(NafDigitSet(Width)), NEW naf1 \in Seq(NafDigitSet(Width)),
         NEW differ \in BOOLEAN
  PROVE  Loop(tab, naf0, naf1, differ) \in ProjPoints
<1> DEFINE Plus(r1, q, d) == IF d > 0 THEN EpAdd(<<r1, q>>, 1, 1, 2)[1]
                            ELSE IF d < 0 THEN EpSub(<<r1, q>>, 1, 1, 2)[1] ELSE r1
           Entry(d)      == tab[(Mag(d) \div 2) + 1]
           Turned(q)     == IF differ THEN Neg(q) ELSE q
           Step(r1, n0, n1) ==
             Plus(Plus(EpDbl(<<r1>>, 1, 1)[1], Entry(n0), n0), Turned(Psi(Entry(n1))), n1)
           l == IF Len(naf0) > Len(naf1) THEN Len(naf0) ELSE Len(naf1)
           Next0(j, y) == Step(y, Digit(naf0, l - j + 1), Digit(naf1, l - j + 1))
           Is(f) == f = [j \in 0 .. l |-> IF j = 0 THEN infty ELSE Next0(j, f[j - 1])]
           H == [w \in (1 .. l) \X ProjPoints |-> Next0(w[1], w[2])]
           acc == CHOOSE f : Is(f)
<1>1. Loop(tab, naf0, naf1, differ) = acc[l]
  BY DEF Loop
<1>2. l \in Nat
  OBVIOUS
<1>3. ASSUME NEW d \in NafDigitSet(Width) PROVE Entry(d) \in ProjPoints /\ d \in Int
  <2> DEFINE x == Mag(d) \div 2  c == Pow2[Width - 2]
  <2>1. d \in Int /\ x \in 0 .. c - 1 /\ c \in Nat
    BY TableHolds, WidthIs
  <2> HIDE DEF x, c
  <2>2. x + 1 \in 1 .. c
    BY <2>1
  <2>3. tab[x + 1] \in ProjPoints
    <3>1. x + 1 \in 1 .. Len(tab)
      BY <2>2 DEF c
    <3> QED BY <3>1
  <2> QED BY <2>1, <2>3 DEF x
<1>4. 0 \in NafDigitSet(Width)
  BY WidthIs DEF NafDigitSet
<1>5. ASSUME NEW naf \in Seq(NafDigitSet(Width)), NEW j \in Nat \ {0}
      PROVE  Digit(naf, j) \in NafDigitSet(Width)
  <2> DEFINE A == NafDigitSet(Width)
  <2>1. naf \in Seq(A) /\ 0 \in A
    BY <1>4
  <2> HIDE DEF A
  <2>2. Digit(naf, j) \in A
    BY <2>1 DEF Digit
  <2> QED BY <2>2 DEF A
<1>6. ASSUME NEW y \in ProjPoints, NEW q \in ProjPoints, NEW d PROVE Plus(y, q, d) \in ProjPoints
  BY <1>6, AloneTyped
<1>7. ASSUME NEW q \in ProjPoints PROVE Turned(q) \in ProjPoints
  BY PointMaps
<1> HIDE DEF Entry, Plus, Turned
<1>8. ASSUME NEW j \in 1 .. l, NEW y \in ProjPoints PROVE Next0(j, y) \in ProjPoints
  <2> DEFINE n0 == Digit(naf0, l - j + 1)  n1 == Digit(naf1, l - j + 1)
             a == EpDbl(<<y>>, 1, 1)[1]  e == Turned(Psi(Entry(n1)))
  <2>1. l - j + 1 \in Nat \ {0}
    <3> HIDE DEF l
    <3> QED BY <1>2
  <2>2. n0 \in NafDigitSet(Width) /\ n1 \in NafDigitSet(Width)
    <3> HIDE DEF l
    <3> QED BY <1>5, <2>1
  <2> HIDE DEF n0, n1
  <2>3. a \in ProjPoints /\ Entry(n0) \in ProjPoints /\ Entry(n1) \in ProjPoints
    BY <1>3, <2>2, AloneTyped
  <2>4. e \in ProjPoints
    <3>1. Psi(Entry(n1)) \in ProjPoints
      BY <2>3, PointMaps
    <3> QED BY <1>7, <3>1
  <2> HIDE DEF a, e
  <2>5. Plus(a, Entry(n0), n0) \in ProjPoints
    BY <1>6, <2>3
  <2>6. Plus(Plus(a, Entry(n0), n0), e, n1) \in ProjPoints
    BY <1>6, <2>4, <2>5
  <2> QED BY <2>6 DEF a, e, n0, n1
<1> HIDE DEF Next0, l
<1>9. H \in [(1 .. l) \X ProjPoints -> ProjPoints] /\ infty \in ProjPoints
  BY <1>8, InftyTyped
<1>10. PICK f \in [0 .. l -> ProjPoints] : LoopOf(f, l, infty, H)
  <2> HIDE DEF H
  <2> QED BY <1>2, <1>9, LoopExists, Zenon
<1>11. Is(f)
  <2>1. ASSUME NEW k \in 0 .. l, k # 0 PROVE H[<<k, f[k - 1]>>] = Next0(k, f[k - 1])
    <3>1. k - 1 \in 0 .. l /\ k \in 1 .. l
      BY <1>2, <2>1
    <3> QED BY <3>1
  <2> HIDE DEF H
  <2> QED BY <1>10, <2>1 DEF LoopOf
<1>12. Is(acc)
  <2> HIDE DEF Is
  <2> QED BY <1>11, Zenon
<1> HIDE DEF acc
<1>13. acc[0] = infty /\ \A k \in 1 .. l : acc[k] = Next0(k, acc[k - 1])
  <2>1. 0 \in 0 .. l /\ \A k \in 1 .. l : k \in 0 .. l /\ k # 0
    BY <1>2
  <2> QED BY <1>12, <2>1
<1> DEFINE S == {k \in 0 .. l : acc[k] \in ProjPoints}
<1>14. 0 \in S
  BY <1>2, <1>13, InftyTyped
<1>15. ASSUME NEW k \in 0 .. l - 1, k \in S PROVE k + 1 \in S
  <2>1. k + 1 \in 1 .. l /\ (k + 1) - 1 = k /\ k + 1 \in 0 .. l
    BY <1>2
  <2>2. acc[k + 1] = Next0(k + 1, acc[k])
    BY <1>13, <2>1
  <2>3. Next0(k + 1, acc[k]) \in ProjPoints
    BY <1>8, <1>15, <2>1
  <2> QED BY <2>1, <2>2, <2>3
<1> HIDE DEF S
<1>16. \A k \in 0 .. l : k \in S
  BY <1>2, <1>14, <1>15, UpTo
<1>17. l \in S
  BY <1>2, <1>16
<1> QED BY <1>1, <1>17 DEF S

LEMMA MulTypedToo ==
  ASSUME NEW a \in ProjPoints, NEW k \in Nat
  PROVE  ep_mul_lwnaf(a, k) \in ProjPoints
<1> DEFINE h == Glv(k)
           t1 == EpTab(IF h[1] < 0 THEN Neg(a) ELSE a)
           naf0 == bn_rec_naf(h[1], Width)  naf1 == bn_rec_naf(h[2], Width)
<1>1. h[1] \in Int /\ h[2] \in Int
  BY GlvCongruent
<1>2. ep_mul_lwnaf(a, k) \in {infty, Norm(Loop(t1, naf0, naf1, SignsDiffer(h)))}
  BY DEF ep_mul_lwnaf, ep_mul_glv_imp
<1>3. SignsDiffer(h) \in BOOLEAN
  BY DEF SignsDiffer
<1> DEFINE b == IF h[1] < 0 THEN Neg(a) ELSE a
<1>4. b \in ProjPoints
  BY PointMaps
<1> HIDE DEF h, b
<1>5. t1 \in Seq(ProjPoints) /\ Len(t1) = Pow2[Width - 2]
  BY <1>4, EpTabTyped DEF b
<1>6. naf0 \in Seq(NafDigitSet(Width)) /\ naf1 \in Seq(NafDigitSet(Width))
  BY <1>1, MagNat, NafIs, NafTyped, WidthIs
<1> HIDE DEF t1, naf0, naf1
<1>7. Loop(t1, naf0, naf1, SignsDiffer(h)) \in ProjPoints
  BY <1>3, <1>5, <1>6, LoopIsTyped
<1> QED BY <1>2, <1>7, InftyTyped, PointMaps

-----------------------------------------------------------------------------
(* What every call of the curve's functions keeps. *)

EpInv ==
  /\ obj \in Seq(ProjPoints) /\ Len(obj) = PointCount
  /\ log \in [Objs -> 0 .. Order - 1]
  /\ scalar \in Scalars /\ calls \in 0 .. MaxCalls

LEMMA EpInitInv == EpInit => EpInv
<1> SUFFICES ASSUME EpInit PROVE EpInv
  OBVIOUS
<1>1. PointCount \in Nat /\ Decoded \subseteq 0 .. Order - 1 /\ 0 \in Scalars /\ MaxCalls \in Nat
  BY EpAssumption
<1>2. log \in [Objs -> 0 .. Order - 1]
  BY <1>1 DEF EpInit
<1>3. \A o \in Objs : AffineMultiple(log[o]) \in ProjPoints
  BY <1>2, AffineTyped
<1>4. obj \in Seq(ProjPoints) /\ Len(obj) = PointCount
  <2> DEFINE c == PointCount
  <2>1. obj = [o \in 1 .. c |-> AffineMultiple(log[o])]
    BY DEF EpInit, Objs
  <2>2. c \in Nat /\ \A o \in 1 .. c : AffineMultiple(log[o]) \in ProjPoints
    BY <1>1, <1>3 DEF Objs
  <2> HIDE DEF c
  <2>3. obj \in Seq(ProjPoints) /\ Len(obj) = c
    BY <2>1, <2>2
  <2> QED BY <2>3 DEF c
<1> QED BY <1>1, <1>2, <1>4 DEF EpInit, EpInv

(* The history of a call, and its effect on the points. *)
LEMMA CallKeeps ==
  ASSUME EpInv, NEW g \in DOMAIN obj, NEW k, Called(g, k), k \in Int,
         scalar' \in Scalars, obj' \in Seq(ProjPoints), Len(obj') = Len(obj)
  PROVE  EpInv'
<1>1. Order \in Nat /\ Order >= 4 /\ MaxCalls \in Nat
  BY OrderIs, EpAssumption
<1>2. k % Order \in 0 .. Order - 1
  BY <1>1
<1>3. log' \in [Objs -> 0 .. Order - 1]
  <2>1. log \in [Objs -> 0 .. Order - 1] /\ log' = [log EXCEPT ![g] = k % Order]
    BY DEF EpInv, Called
  <2> QED BY <1>2, <2>1
<1>4. calls' \in 0 .. MaxCalls
  BY <1>1 DEF EpInv, Called
<1> QED BY <1>3, <1>4 DEF EpInv, Objs

LEMMA EpNextInv == EpInv /\ [EpNext]_ep_vars => EpInv'
<1> SUFFICES ASSUME EpInv, [EpNext]_ep_vars PROVE EpInv'
  OBVIOUS
<1>1. CASE UNCHANGED ep_vars
  BY <1>1 DEF ep_vars, EpInv
<1>2. CASE EpNext
  <2>0. /\ obj \in Seq(ProjPoints) /\ DOMAIN obj = 1 .. Len(obj) /\ DOMAIN obj = Objs
        /\ log \in [Objs -> 0 .. Order - 1] /\ 0 \in Scalars /\ Order \in Nat /\ lambda \in Int
        /\ Scalars \subseteq Nat
    <3>1. obj \in Seq(ProjPoints) /\ Len(obj) = PointCount /\ log \in [Objs -> 0 .. Order - 1]
      BY DEF EpInv
    <3>2. DOMAIN obj = 1 .. Len(obj)
      BY <3>1
    <3>3. 0 \in Scalars /\ Order \in Nat /\ lambda \in Int /\ Scalars \subseteq Nat
      BY EpAssumption, OrderIs, LambdaNat
    <3> QED BY <3>1, <3>2, <3>3 DEF Objs
  <2>1. PICK g1 \in DOMAIN obj, g2 \in DOMAIN obj :
          \/ \E q \in DOMAIN obj : ep_add(g1, g2, q) \/ ep_sub(g1, g2, q)
          \/ ep_dbl(g1, g2) \/ ep_neg(g1, g2) \/ ep_norm(g1, g2) \/ ep_psi(g1, g2)
          \/ \E k \in Multipliers : ep_mul(g1, g2, k)
    BY <1>2 DEF EpNext
  <2>2. g1 \in 1 .. Len(obj) /\ g2 \in 1 .. Len(obj) /\ log[g2] \in Int /\ obj[g2] \in ProjPoints
    <3>1. g1 \in 1 .. Len(obj) /\ g2 \in 1 .. Len(obj)
      BY <2>0, <2>1
    <3>2. log[g2] \in 0 .. Order - 1
      BY <2>0
    <3>3. log[g2] \in Int
      BY <2>0, <3>2
    <3>4. obj[g2] \in ProjPoints
      BY <2>0, <3>1
    <3> QED BY <3>1, <3>3, <3>4
  <2>3. ASSUME NEW a \in ProjPoints
        PROVE  [obj EXCEPT ![g1] = a] \in Seq(ProjPoints) /\ Len([obj EXCEPT ![g1] = a]) = Len(obj)
    BY <2>0, <2>2, Stored
  <2>4. ASSUME NEW q \in DOMAIN obj, ep_add(g1, g2, q) PROVE EpInv'
    <3>1. q \in 1 .. Len(obj) /\ log[q] \in Int
      <4>1. log[q] \in 0 .. Order - 1 /\ q \in 1 .. Len(obj)
        BY <2>0
      <4> QED BY <2>0, <4>1
    <3>2. obj' = EpAdd(obj, g1, g2, q) /\ Called(g1, log[g2] + log[q]) /\ scalar' = 0
      BY <2>4 DEF ep_add, Call
    <3>3. obj' \in Seq(ProjPoints) /\ Len(obj') = Len(obj)
      BY <2>0, <2>2, <3>1, <3>2, EpAddTyped
    <3>4. log[g2] + log[q] \in Int
      BY <2>2, <3>1
    <3> QED BY <2>0, <3>2, <3>3, <3>4, CallKeeps
  <2>5. ASSUME NEW q \in DOMAIN obj, ep_sub(g1, g2, q) PROVE EpInv'
    <3>1. q \in 1 .. Len(obj) /\ log[q] \in Int
      <4>1. log[q] \in 0 .. Order - 1 /\ q \in 1 .. Len(obj)
        BY <2>0
      <4> QED BY <2>0, <4>1
    <3>2. obj' = EpSub(obj, g1, g2, q) /\ Called(g1, log[g2] - log[q]) /\ scalar' = 0
      BY <2>5 DEF ep_sub, Call
    <3>3. obj' \in Seq(ProjPoints) /\ Len(obj') = Len(obj)
      BY <2>0, <2>2, <3>1, <3>2, EpSubTyped
    <3>4. log[g2] - log[q] \in Int
      BY <2>2, <3>1
    <3> QED BY <2>0, <3>2, <3>3, <3>4, CallKeeps
  <2>6. ASSUME ep_dbl(g1, g2) PROVE EpInv'
    <3>1. obj' = EpDbl(obj, g1, g2) /\ Called(g1, 2 * log[g2]) /\ scalar' = 0
      BY <2>6 DEF ep_dbl, Call
    <3>2. obj' \in Seq(ProjPoints) /\ Len(obj') = Len(obj)
      BY <2>0, <2>2, <3>1, EpDblTyped
    <3>3. 2 * log[g2] \in Int
      BY <2>2
    <3> QED BY <2>0, <3>1, <3>2, <3>3, CallKeeps
  <2>7. ASSUME ep_neg(g1, g2) PROVE EpInv'
    <3>1. obj' = [obj EXCEPT ![g1] = Neg(obj[g2])] /\ Called(g1, -log[g2]) /\ scalar' = 0
      BY <2>7 DEF ep_neg, Call
    <3>2. Neg(obj[g2]) \in ProjPoints
      BY <2>2, PointMaps
    <3>3. -log[g2] \in Int
      BY <2>2
    <3>4. obj' \in Seq(ProjPoints) /\ Len(obj') = Len(obj)
      BY <2>3, <3>1, <3>2
    <3> QED BY <2>0, <3>1, <3>3, <3>4, CallKeeps
  <2>8. ASSUME ep_norm(g1, g2) PROVE EpInv'
    <3>1. obj' = [obj EXCEPT ![g1] = Norm(obj[g2])] /\ Called(g1, log[g2]) /\ scalar' = 0
      BY <2>8 DEF ep_norm, Call
    <3>2. Norm(obj[g2]) \in ProjPoints
      BY <2>2, PointMaps
    <3>3. obj' \in Seq(ProjPoints) /\ Len(obj') = Len(obj)
      BY <2>3, <3>1, <3>2
    <3> QED BY <2>0, <2>2, <3>1, <3>3, CallKeeps
  <2>9. ASSUME ep_psi(g1, g2) PROVE EpInv'
    <3>1. obj' = [obj EXCEPT ![g1] = Psi(obj[g2])] /\ Called(g1, lambda * log[g2]) /\ scalar' = 0
      BY <2>9 DEF ep_psi, Call
    <3>2. Psi(obj[g2]) \in ProjPoints
      BY <2>2, PointMaps
    <3>3. obj' \in Seq(ProjPoints) /\ Len(obj') = Len(obj)
      BY <2>3, <3>1, <3>2
    <3>4. lambda * log[g2] \in Int
      BY <2>0, <2>2
    <3> QED BY <2>0, <3>1, <3>3, <3>4, CallKeeps
  <2>10. ASSUME NEW k \in Multipliers, ep_mul(g1, g2, k) PROVE EpInv'
    <3>0. k \in Scalars /\ k \in Nat
      BY <2>0 DEF Multipliers
    <3>1. /\ obj' = [obj EXCEPT ![g1] = ep_mul_lwnaf(obj[g2], k)]
          /\ Called(g1, k * log[g2]) /\ scalar' = k
      BY <2>10 DEF ep_mul
    <3>2. ep_mul_lwnaf(obj[g2], k) \in ProjPoints
      BY <2>2, <3>0, MulTypedToo
    <3>3. obj' \in Seq(ProjPoints) /\ Len(obj') = Len(obj)
      BY <2>3, <3>1, <3>2
    <3>4. k * log[g2] \in Int
      BY <2>2, <3>0
    <3>5. scalar' \in Scalars
      BY <3>0, <3>1
    <3> QED BY <3>1, <3>3, <3>4, <3>5, CallKeeps
  <2> QED BY <2>1, <2>4, <2>5, <2>6, <2>7, <2>8, <2>9, <2>10
<1> QED BY <1>1, <1>2

LEMMA EpInvSays == EpInv => EpTypeOK /\ RecodingsRight
<1> SUFFICES ASSUME EpInv PROVE EpTypeOK /\ RecodingsRight
  OBVIOUS
<1>1. obj \in Seq(ProjPoints) /\ Len(obj) = PointCount
  BY DEF EpInv
<1>2. \A o \in Objs : obj[o] \in ProjPoints
  BY <1>1 DEF Objs
<1>3. EpTypeOK
  BY <1>2, ProjParts DEF EpInv, EpTypeOK
<1>4. scalar \in Nat
  BY EpAssumption DEF EpInv
<1> QED BY <1>3, <1>4, RecodingsOf

LEMMA EpInvAlways == EpSpec => []EpInv
BY EpInitInv, EpNextInv, PTL DEF EpSpec

(* Whatever is called, with whatever aliasing, every coordinate written is *)
(* a canonical field element, on every curve of the family and for every   *)
(* scalar (ep_add, ep_sub, ep_dbl, ep_neg, ep_norm, ep_psi, ep_mul_lwnaf). *)
THEOREM EpTypeOKAlways == EpSpec => []EpTypeOK
BY EpInvAlways, EpInvSays, PTL

(* Every scalar is decomposed into two short halves that add up to it, and *)
(* each half is recoded without loss into digits that the table and the    *)
(* arrays have room for (bn_rec_glv, bn_rec_naf in ep_mul_glv_imp).        *)
THEOREM EpRecodingsRight == EpSpec => []RecodingsRight
BY EpInvAlways, EpInvSays, PTL
=============================================================================
