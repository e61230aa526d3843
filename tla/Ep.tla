----------------------------------- MODULE Ep -----------------------------------
(***************************************************************************)
(* Points of the curve y^2 = x^3 + B in RELIC's homogeneous projective      *)
(* coordinates (EP_ADD = PROJC), and multiplication by a scalar.  The       *)
(* verifiers call these functions with arguments that are the same object   *)
(* (ep_add(L, L, tmp), ep_norm(L, L)); the formulas write coordinates of    *)
(* the result while they still read those of the operands.  So a formula    *)
(* is here the sequence of its assignments, run on memory.                  *)
(***************************************************************************)
EXTENDS Curve, Recoding

CONSTANTS
  Gen,     (* the generator, as plain coordinates <<x, y>>                   *)
  Width,   (* RLC_WIDTH: 4                                                   *)
  PointCount, (* how many points the caller holds                            *)
  Decoded, (* the multiples of the generator the points begin as             *)
  Scalars, (* arguments of ep_mul                                            *)
  MaxCalls, (* bound on the calls of a run                                   *)
  MulCalls  (* bound on the calls before a multiplication                    *)

ASSUME EpAssumption ==
  /\ Gen \in Fp \X Fp
  /\ PointCount \in Nat
  /\ Width \in Nat \ {0, 1, 2} /\ Scalars \subseteq Nat /\ 0 \in Scalars
  /\ Decoded \subseteq 0 .. Order - 1
  /\ MaxCalls \in Nat /\ MulCalls \in Nat

Objs == 1 .. PointCount

-----------------------------------------------------------------------------
(* The formulas, for a curve with a = 0: <<operation, result, operands>>.  *)

AddEnd == <<
  <<"dbl", "t5", "ry", "ry">>, <<"add", "ry", "ry", "t5">>, <<"mul", "ry", "ry", "b">>,
  <<"mul", "rx", "t4", "ry">>, <<"mul", "t2", "t3", "t1">>, <<"sub", "rx", "t2", "rx">>,
  <<"mul", "ry", "t0", "ry">>, <<"mul", "t1", "t1", "rz">>, <<"add", "ry", "t1", "ry">>,
  <<"mul", "t0", "t0", "t3">>, <<"mul", "rz", "rz", "t4">>, <<"add", "rz", "rz", "t0">>>>

MixBegin == <<
  <<"mul", "t0", "px", "qx">>, <<"mul", "t1", "py", "qy">>, <<"add", "t3", "qx", "qy">>,
  <<"add", "t4", "px", "py">>, <<"mul", "t3", "t3", "t4">>, <<"add", "t4", "t0", "t1">>,
  <<"sub", "t3", "t3", "t4">>>>

MixBasic == <<
  <<"add", "t4", "qy", "py">>, <<"add", "ry", "qx", "px">>, <<"dbl", "t5", "b", "b">>,
  <<"add", "t5", "t5", "b">>,  <<"add", "rz", "t1", "t5">>, <<"sub", "t1", "t1", "t5">>>>

(* Mutant: the new y begun before the old one is read. *)
MixEarlyWrite == <<
  <<"mul", "ry", "qx", "pz">>, <<"add", "ry", "ry", "px">>, <<"mul", "t4", "qy", "pz">>,
  <<"add", "t4", "t4", "py">>, <<"dbl", "t2", "pz", "pz">>, <<"add", "t2", "t2", "pz">>,
  <<"mul", "t2", "t2", "b">>,  <<"add", "rz", "t1", "t2">>, <<"sub", "t1", "t1", "t2">>>>

MixProjc == <<
  <<"mul", "t4", "qy", "pz">>, <<"add", "t4", "t4", "py">>, <<"mul", "ry", "qx", "pz">>,
  <<"add", "ry", "ry", "px">>, <<"dbl", "t2", "pz", "pz">>, <<"add", "t2", "t2", "pz">>,
  <<"mul", "t2", "t2", "b">>,  <<"add", "rz", "t1", "t2">>, <<"sub", "t1", "t1", "t2">>>>

MixTriple == <<<<"dbl", "rx", "t0", "t0">>, <<"add", "t0", "t0", "rx">>>>

ep_add_projc_mix(basic) ==
  MixBegin \o (IF basic THEN MixBasic ELSE MixProjc) \o MixTriple \o AddEnd

ep_add_projc_imp == <<
  <<"mul", "t0", "px", "qx">>, <<"mul", "t1", "py", "qy">>, <<"mul", "t2", "pz", "qz">>,
  <<"add", "t3", "px", "py">>, <<"add", "t4", "qx", "qy">>, <<"mul", "t3", "t3", "t4">>,
  <<"add", "t4", "t0", "t1">>, <<"sub", "t3", "t3", "t4">>, <<"add", "t4", "py", "pz">>,
  <<"add", "t5", "qy", "qz">>, <<"mul", "t4", "t4", "t5">>, <<"add", "t5", "t1", "t2">>,
  <<"sub", "t4", "t4", "t5">>, <<"add", "ry", "qx", "qz">>, <<"add", "rx", "px", "pz">>,
  <<"mul", "rx", "rx", "ry">>, <<"add", "ry", "t0", "t2">>, <<"sub", "ry", "rx", "ry">>,
  <<"dbl", "rx", "t0", "t0">>, <<"add", "t0", "t0", "rx">>, <<"dbl", "t5", "t2", "t2">>,
  <<"add", "t2", "t2", "t5">>, <<"mul", "t2", "t2", "b">>,  <<"add", "rz", "t1", "t2">>,
  <<"sub", "t1", "t1", "t2">>>> \o AddEnd

ep_dbl_projc_imp(basic) ==
  <<<<"mul", "t0", "py", "py">>, <<"mul", "t3", "px", "py">>>> \o
  (IF basic THEN << <<"copy", "t1", "py", "py">>, <<"dbl", "t2", "b", "b">>,
                    <<"add", "t2", "t2", "b">>>>
   ELSE << <<"mul", "t1", "py", "pz">>, <<"mul", "t2", "pz", "pz">>,
           <<"dbl", "t5", "t2", "t2">>, <<"add", "t5", "t5", "t2">>,
           <<"mul", "t2", "t5", "b">>>>) \o
  << <<"dbl", "rz", "t0", "t0">>, <<"dbl", "rz", "rz", "rz">>, <<"dbl", "rz", "rz", "rz">>,
     <<"mul", "rx", "t2", "rz">>, <<"add", "ry", "t0", "t2">>, <<"mul", "rz", "t1", "rz">>,
     <<"dbl", "t1", "t2", "t2">>, <<"add", "t2", "t1", "t2">>, <<"sub", "t0", "t0", "t2">>,
     <<"mul", "ry", "t0", "ry">>, <<"add", "ry", "rx", "ry">>, <<"mul", "rx", "t0", "t3">>,
     <<"dbl", "rx", "rx", "rx">>>>

Value(op, a, b) == CASE op = "mul" -> fp_mul(a, b)
                     [] op = "add" -> fp_addm_low(a, b)
                     [] op = "sub" -> fp_subm_low(a, b)
                     [] op = "dbl" -> fp_dblm_low(a)
                     [] op = "copy" -> a

(* A formula run with its parameters bound to the objects r, p and q; the  *)
(* temporaries t0 .. t5 and the coefficient b follow them in memory.       *)
Places(n, r, p, q) ==
  [rx |-> 3 * r - 2, ry |-> 3 * r - 1, rz |-> 3 * r,
   px |-> 3 * p - 2, py |-> 3 * p - 1, pz |-> 3 * p,
   qx |-> 3 * q - 2, qy |-> 3 * q - 1, qz |-> 3 * q,
   t0 |-> n + 1, t1 |-> n + 2, t2 |-> n + 3, t3 |-> n + 4, t4 |-> n + 5,
   t5 |-> n + 6, b |-> n + 7]

Memory(obj) ==
  LET load[k \in 0 .. Len(obj)] ==
        IF k = 0 THEN <<>> ELSE load[k - 1] \o <<obj[k].x, obj[k].y, obj[k].z>>
  IN  load[Len(obj)] \o <<0, 0, 0, 0, 0, 0, Monty(B)>>

(* One assignment after another. *)
After(formula, at, memory) ==
  LET Assign(m, ins) == [m EXCEPT ![at[ins[2]]] = Value(ins[1], m[at[ins[3]]], m[at[ins[4]]])]
      after[k \in 0 .. Len(formula)] ==
        IF k = 0 THEN memory ELSE Assign(after[k - 1], formula[k])
  IN  after[Len(formula)]

Run(formula, obj, r, p, q) ==
  LET Store(m) == [obj EXCEPT ![r] = [x |-> m[3 * r - 2], y |-> m[3 * r - 1], z |-> m[3 * r],
                                      coord |-> "PROJC"]]
  IN  Store(After(formula, Places(3 * Len(obj), r, p, q), Memory(obj)))

-----------------------------------------------------------------------------
(* The functions the formulas are called from.  obj is the sequence of the *)
(* points, r, p and q are positions in it.                                 *)

infty        == [x |-> 0, y |-> 0, z |-> 0, coord |-> "BASIC"]
is_infty(pt) == pt.z = 0

EpAdd(obj, r, p, q) ==
  IF is_infty(obj[p]) THEN [obj EXCEPT ![r] = obj[q]]
  ELSE IF is_infty(obj[q]) THEN [obj EXCEPT ![r] = obj[p]]
  ELSE IF obj[q].coord = "BASIC"
       THEN Run(ep_add_projc_mix(obj[p].coord = "BASIC"), obj, r, p, q)
       ELSE Run(ep_add_projc_imp, obj, r, p, q)

EpDbl(obj, r, p) ==
  IF is_infty(obj[p]) THEN [obj EXCEPT ![r] = infty]
  ELSE Run(ep_dbl_projc_imp(obj[p].coord = "BASIC"), obj, r, p, p)

Neg(pt)  == IF is_infty(pt) THEN infty ELSE [pt EXCEPT !.y = fp_negm_low(@)]

Norm(pt) ==
  IF is_infty(pt) THEN infty
  ELSE IF pt.coord = "BASIC" THEN pt
  ELSE LET Over(zi) == [x |-> fp_mul(pt.x, zi), y |-> fp_mul(pt.y, zi), z |-> one,
                        coord |-> "BASIC"]
       IN  Over(fp_inv(pt.z))

(* p and q the same object: infinity, without looking at it. *)
EpSub(obj, r, p, q) ==
  IF p = q THEN [obj EXCEPT ![r] = infty]
  ELSE SubSeq(EpAdd(Append(obj, Neg(obj[q])), r, p, Len(obj) + 1), 1, Len(obj))

-----------------------------------------------------------------------------
(* The reference: chords and tangents in plain numbers; <<>> is infinity.  *)

Chord(a, b) ==
  IF a = <<>> THEN b
  ELSE IF a[1] = b[1] /\ a[2] # b[2] THEN <<>>
  ELSE LET Sum(s, x) == <<x, (s * (a[1] - x) - a[2]) % P>>
           Along(s)  == Sum(s, (s * s - a[1] - b[1]) % P)
       IN  Along((IF a = b THEN 3 * a[1] * a[1] * InvMod[(2 * a[2]) % P]
                  ELSE ((b[2] - a[2]) % P) * InvMod[(b[1] - a[1]) % P]) % P)
Multiples ==
  LET m[k \in 0 .. Order - 1] == IF k = 0 THEN <<<<>>>> ELSE
                                 LET Longer(s) == Append(s, Chord(s[Len(s)], Gen))
                                 IN  Longer(m[k - 1])
  IN  m[Order - 1]

(* The point stands for the multiple; BASIC promises z = 1 besides.        *)
StandsFor(pt, k) ==
  LET a == Multiples[k + 1] z == Plain(pt.z)
  IN  /\ IF a = <<>> THEN z = 0
         ELSE z # 0 /\ Plain(pt.x) = (a[1] * z) % P /\ Plain(pt.y) = (a[2] * z) % P
      /\ pt.coord = "BASIC" => pt = infty \/ pt.z = one

AffineMultiple(k) ==
  LET a == Multiples[k + 1]
  IN  IF a = <<>> THEN infty ELSE [x |-> Monty(a[1]), y |-> Monty(a[2]), z |-> one, coord |-> "BASIC"]

-----------------------------------------------------------------------------
(* The endomorphism and multiplication (ep_mul_lwnaf). *)

lambda == LET q == 36 * Par * Par * Par * Par
          IN  IF Order < q THEN q - Order - 1 ELSE Order - q

(* Of the two cube roots of one, the one that acts as lambda. *)
ActsAsLambda(b) ==
  (b * b + b + 1) % P = 0 /\ Multiples[lambda + 1] = <<(b * Gen[1]) % P, Gen[2]>>

(* ep_param_set's curves have one. *)
ASSUME EndomorphismAssumption == \E b \in 2 .. P - 1 : ActsAsLambda(b)

beta == CHOOSE b \in 2 .. P - 1 : ActsAsLambda(b)

Psi(pt) == IF is_infty(pt) THEN infty ELSE [pt EXCEPT !.x = fp_mul(@, Monty(beta))]

Vectors == Lattice(lambda, Order)
Glv(k)  == bn_rec_glv(k % Order, Order, Vectors[1], Vectors[2])

(* The odd multiples 1, 3, .. of p, normalised. *)
EpTab(p) ==
  LET Odd(twice) ==
        LET odd[j \in 1 .. Pow2[Width - 2]] ==
              IF j = 1 THEN <<p>>
              ELSE LET Longer(t) == Append(t, EpAdd(<<t[j - 1], twice, infty>>, 3, 1, 2)[3])
                   IN  Longer(odd[j - 1])
        IN  odd[Pow2[Width - 2]]
      Normed(all) ==
        LET norm[j \in 0 .. Len(all)] ==
              IF j = 0 THEN <<>> ELSE Append(norm[j - 1], Norm(all[j]))
        IN  norm[Len(all)]
  IN  Normed(Odd(Norm(EpDbl(<<p>>, 1, 1)[1])))

Digit(naf, j) == IF j <= Len(naf) THEN naf[j] ELSE 0

(* Mutant: the sign of the second half taken alone. *)
IgnoreFirstSign(h) == h[2] < 0

(* The table is of s0 * p; the other half is corrected where it differs.   *)
SignsDiffer(h) == (h[1] < 0) # (h[2] < 0)

(* Doublings and table entries, from the highest digits down; t is the     *)
(* table, naf0 and naf1 are the digits of the halves.                      *)
Loop(t, naf0, naf1, differ) ==
  LET Plus(r, q, d) == IF d > 0 THEN EpAdd(<<r, q>>, 1, 1, 2)[1]
                       ELSE IF d < 0 THEN EpSub(<<r, q>>, 1, 1, 2)[1] ELSE r
      Entry(d)      == t[(Mag(d) \div 2) + 1]
      Turned(q)     == IF differ THEN Neg(q) ELSE q
      Step(r, n0, n1) ==
        Plus(Plus(EpDbl(<<r>>, 1, 1)[1], Entry(n0), n0), Turned(Psi(Entry(n1))), n1)
      From(l) ==
        LET acc[j \in 0 .. l] ==
              IF j = 0 THEN infty
              ELSE Step(acc[j - 1], Digit(naf0, l - j + 1), Digit(naf1, l - j + 1))
        IN  acc[l]
  IN  From(IF Len(naf0) > Len(naf1) THEN Len(naf0) ELSE Len(naf1))

ep_mul_glv_imp(p, k) ==
  LET Halves(h) == Loop(EpTab(IF h[1] < 0 THEN Neg(p) ELSE p),
                        bn_rec_naf(h[1], Width), bn_rec_naf(h[2], Width), SignsDiffer(h))
  IN  Norm(Halves(Glv(k)))

ep_mul_lwnaf(p, k) == IF k = 0 \/ is_infty(p) THEN infty ELSE ep_mul_glv_imp(p, k)

-----------------------------------------------------------------------------
VARIABLES
  obj,    (* the caller's points                                             *)
  log,    (* history: the multiple of the generator each must be             *)
  scalar, (* history: the scalar of the last call, if that was ep_mul        *)
  calls   (* calls so far                                                    *)

ep_vars == <<obj, log, scalar, calls>>

(* Points begin as decode_g1 leaves them, affine and marked BASIC. *)
EpInit == /\ log \in [Objs -> Decoded]
          /\ obj = [o \in Objs |-> AffineMultiple(log[o])]
          /\ scalar = 0 /\ calls = 0

Called(r, k) == /\ calls < MaxCalls
                /\ calls' = calls + 1
                /\ log' = [log EXCEPT ![r] = k % Order]

(* Bound: only the first calls multiply. *)
Multipliers == IF calls <= MulCalls THEN Scalars ELSE {}

Call(r, k) == Called(r, k) /\ scalar' = 0

ep_add(r, p, q) == Call(r, log[p] + log[q]) /\ obj' = EpAdd(obj, r, p, q)
ep_sub(r, p, q) == Call(r, log[p] - log[q]) /\ obj' = EpSub(obj, r, p, q)
ep_dbl(r, p)    == Call(r, 2 * log[p]) /\ obj' = EpDbl(obj, r, p)
ep_neg(r, p)    == Call(r, -log[p]) /\ obj' = [obj EXCEPT ![r] = Neg(obj[p])]
ep_norm(r, p)   == Call(r, log[p]) /\ obj' = [obj EXCEPT ![r] = Norm(obj[p])]
ep_psi(r, p)    == Call(r, lambda * log[p]) /\ obj' = [obj EXCEPT ![r] = Psi(obj[p])]
ep_mul(r, p, k) == /\ Called(r, k * log[p])
                   /\ scalar' = k
                   /\ obj' = [obj EXCEPT ![r] = ep_mul_lwnaf(obj[p], k)]

EpNext == \E r, p \in DOMAIN obj :
            \/ \E q \in DOMAIN obj : ep_add(r, p, q) \/ ep_sub(r, p, q)
            \/ ep_dbl(r, p) \/ ep_neg(r, p) \/ ep_norm(r, p) \/ ep_psi(r, p)
            \/ \E k \in Multipliers : ep_mul(r, p, k)

EpSpec == EpInit /\ [][EpNext]_ep_vars

-----------------------------------------------------------------------------
(* Types: coordinates are canonical. *)
EpTypeOK ==
  /\ \A o \in Objs : /\ obj[o].x \in Fp /\ obj[o].y \in Fp /\ obj[o].z \in Fp
                     /\ obj[o].coord \in {"BASIC", "PROJC"}
  /\ log \in [Objs -> 0 .. Order - 1]
  /\ scalar \in Scalars /\ calls \in 0 .. MaxCalls

(* The group law, for every aliasing of the arguments, for equal and       *)
(* opposite points, points at infinity and every form a point is in; and   *)
(* a point marked BASIC is normalised, as the mixed addition trusts.       *)
GroupLaw == \A o \in Objs : StandsFor(obj[o], log[o])

(* Every scalar is recoded without loss into digits that the table and the *)
(* arrays naf0 and naf1 have room for: the halves are half as long as the  *)
(* order (and an array is as long as a field element), their digits are    *)
(* odd and index one of the 2^(w - 2) odd multiples, and w - 1 zeros       *)
(* follow each.                                                            *)
DigitSum(naf) == LET s[j \in 0 .. Len(naf)] ==
                       IF j = 0 THEN 0 ELSE s[j - 1] + naf[j] * Pow2[j - 1]
                 IN  s[Len(naf)]
NafRight(k) ==
  LET Right(naf) ==
        /\ DigitSum(naf) = Mag(k)
        /\ Len(naf) <= Bits(Mag(k)) + 1
        /\ \A j \in DOMAIN naf : naf[j] # 0 =>
             /\ naf[j] % 2 = 1 /\ Mag(naf[j]) \div 2 < Pow2[Width - 2]
             /\ \A m \in 1 .. Width - 1 : Digit(naf, j + m) = 0
  IN  Right(bn_rec_naf(k, Width))
RecodingsRight ==
  LET Right(half) ==
        /\ (half[1] + lambda * half[2]) % Order = scalar % Order
        /\ \A h \in 1 .. 2 : half[h] * half[h] < 2 * Order /\ NafRight(half[h])
  IN  Right(Glv(scalar))
================================================================================
