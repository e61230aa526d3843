------------------------ MODULE Groth16VerifierProofs ------------------------
(***************************************************************************)
(* The gotos of groth16_verifier.c release what was allocated, and the     *)
(* pairing is computed from points that were checked, for every key, proof *)
(* and number of public inputs.  The allocation state is a function of the *)
(* place a call has reached (IInv); each step allocates or frees exactly   *)
(* the difference between its two places.  The points are checked one by   *)
(* one on the way to the pairing (Typed, with CheckedAt).  Last, the       *)
(* verifier implements PureCall with the verdict of the Groth16 equation:  *)
(* Answers says what a call has found out of its argument at each place.   *)
(* After it come the command lines that call the verifier.                 *)
(***************************************************************************)
EXTENDS Groth16Verifier, VerifierCli, SequenceTheorems, WellFoundedInduction, TLAPS

Places == {"idle", "wrapper", "lengths", "out", "ic", "pairing", "compare", "cleanup"} \cup Main

(* How often each object is live at a place. *)
Count(at, o) == CASE o \in Main   -> IF at \in {"idle", "wrapper", "lengths"} THEN 0 ELSE 1
                  [] o \in Inputs -> IF at \in {"L", "ic", "out"} THEN 1 ELSE 0
                  [] o \in Pairs  -> IF at = "compare" THEN 1 ELSE 0

LiveAt(at) == [o \in Main \cup Inputs \cup Pairs |-> Count(at, o)]

IInv == pc \in Places /\ live = LiveAt(pc)

-----------------------------------------------------------------------------
(* Steps that allocate nothing and free nothing stay among places that     *)
(* have the same objects live.                                             *)
LEMMA KeptAlong ==
  ASSUME IInv, UNCHANGED live, pc' \in Places,
         \A o \in Main \cup Inputs \cup Pairs : Count(pc', o) = Count(pc, o)
  PROVE  IInv'
<1>1. LiveAt(pc') = LiveAt(pc)
  BY DEF LiveAt
<1> QED BY <1>1 DEF IInv, LiveAt, Count

(* One that allocates the objects of s moves to where these are live too.  *)
LEMMA NewAlong ==
  ASSUME IInv, NEW s, New(s), pc' \in Places,
         \A o \in Main \cup Inputs \cup Pairs :
           Count(pc', o) = IF o \in s THEN Count(pc, o) + 1 ELSE Count(pc, o)
  PROVE  IInv'
<1>1. live = LiveAt(pc) /\ DOMAIN live = Main \cup Inputs \cup Pairs
  BY DEF IInv, LiveAt
<1>2. \A o \in Main \cup Inputs \cup Pairs : live[o] = Count(pc, o)
  BY <1>1 DEF LiveAt
<1>3. live' = [o \in Main \cup Inputs \cup Pairs |->
                 IF o \in s THEN live[o] + 1 ELSE live[o]]
  BY <1>1 DEF New
<1>4. live' = [o \in Main \cup Inputs \cup Pairs |-> Count(pc', o)]
  BY <1>2, <1>3
<1> QED BY <1>4 DEF IInv, LiveAt, Count

(* One that frees them, to where they are live once less.                  *)
LEMMA FreeAlong ==
  ASSUME IInv, NEW s, Free(s), pc' \in Places,
         \A o \in Main \cup Inputs \cup Pairs :
           Count(pc', o) = IF o \in s THEN Count(pc, o) - 1 ELSE Count(pc, o)
  PROVE  IInv'
<1>1. live = LiveAt(pc) /\ DOMAIN live = Main \cup Inputs \cup Pairs
  BY DEF IInv, LiveAt
<1>2. \A o \in Main \cup Inputs \cup Pairs : live[o] = Count(pc, o)
  BY <1>1 DEF LiveAt
<1>3. live' = [o \in Main \cup Inputs \cup Pairs |->
                 IF o \in s THEN live[o] - 1 ELSE live[o]]
  BY <1>1 DEF Free
<1>4. live' = [o \in Main \cup Inputs \cup Pairs |-> Count(pc', o)]
  BY <1>2, <1>3
<1> QED BY <1>4 DEF IInv, LiveAt, Count

(* Which places have the same objects live. *)
LEMMA SameCounts ==
  ASSUME NEW a, NEW b,
         \/ {a, b} \subseteq {"idle", "wrapper", "lengths"}
         \/ {a, b} \subseteq (Main \ {"L"}) \cup {"pairing", "cleanup"}
         \/ {a, b} \subseteq {"L", "ic", "out"}
  PROVE  \A o : Count(a, o) = Count(b, o)
BY DEF Count, Main

LEMMA InitHolds == Init => IInv
BY DEF Init, IInv, LiveAt, Count, Places, Main, Inputs, Pairs

LEMMA StepHolds == IInv /\ [Next]_vars => IInv'
<1> SUFFICES ASSUME IInv, [Next]_vars PROVE IInv'
  OBVIOUS
<1>1. ASSUME NEW x \in Args, Call(x) PROVE IInv'
  <2>1. pc = "idle" /\ pc' \in {"wrapper", "lengths"} /\ UNCHANGED live
    BY <1>1 DEF Call
  <2> QED BY <2>1, SameCounts, KeptAlong DEF Places
<1>2. CASE groth16_verify
  <2>1. pc = "wrapper" /\ pc' = "lengths" /\ UNCHANGED live
    BY <1>2 DEF groth16_verify
  <2> QED BY <2>1, SameCounts, KeptAlong DEF Places
<1>3. CASE CheckLengths
  <2>1. CASE pc = "lengths" /\ pc' = "idle" /\ UNCHANGED live
    BY <2>1, SameCounts, KeptAlong DEF Places
  <2>2. CASE pc = "lengths" /\ pc' = "A" /\ New(Main)
    <3>1. \A o \in Main \cup Inputs \cup Pairs :
            Count("A", o) = IF o \in Main THEN Count("lengths", o) + 1 ELSE Count("lengths", o)
      BY DEF Count, Main, Inputs, Pairs
    <3> QED BY <2>2, <3>1, NewAlong DEF Places, Main
  <2> QED BY <1>3, <2>1, <2>2 DEF CheckLengths
<1>4. ASSUME NEW o \in Main \ {"L"}, NEW bytes, NEW then \in (Main \ {"L"}),
             Decode(o, bytes, then)
      PROVE  IInv'
  <2>1. pc = o /\ pc' \in {then, "cleanup"} /\ UNCHANGED live
    BY <1>4 DEF Decode
  <2>2. {pc, pc'} \subseteq (Main \ {"L"}) \cup {"pairing", "cleanup"} /\ pc' \in Places
    BY <1>4, <2>1 DEF Places
  <2> QED BY <2>1, <2>2, SameCounts, KeptAlong
<1>5. CASE DecodeA \/ DecodeB \/ DecodeC \/ DecodeGamma \/ DecodeDelta
  BY <1>4, <1>5 DEF DecodeA, DecodeB, DecodeC, DecodeGamma, DecodeDelta, Main
<1>6. CASE DecodeGT
  <2>1. pc = "ab" /\ pc' = "L" /\ New(Inputs)
    BY <1>6 DEF DecodeGT
  <2>2. \A o \in Main \cup Inputs \cup Pairs :
          Count("L", o) = IF o \in Inputs THEN Count("ab", o) + 1 ELSE Count("ab", o)
    BY DEF Count, Main, Inputs, Pairs
  <2> QED BY <2>1, <2>2, NewAlong DEF Places, Main
<1>7. CASE DecodeIC0 \/ AddInput
  <2>1. pc \in {"L", "ic"} /\ pc' \in {"ic", "out"} /\ UNCHANGED live
    BY <1>7 DEF DecodeIC0, AddInput
  <2> QED BY <2>1, SameCounts, KeptAlong DEF Places
<1>8. CASE Prepared \/ PrepareFailed
  <2>1. pc \in {"ic", "out"} /\ pc' \in {"pairing", "cleanup"} /\ Free(Inputs)
    BY <1>8 DEF Prepared, PrepareFailed
  <2>2. \A a \in {"ic", "out"}, b \in {"pairing", "cleanup"}, o \in Main \cup Inputs \cup Pairs :
          Count(b, o) = IF o \in Inputs THEN Count(a, o) - 1 ELSE Count(a, o)
    BY DEF Count, Main, Inputs, Pairs
  <2> QED BY <2>1, <2>2, FreeAlong DEF Places
<1>9. CASE Pairing
  <2>1. pc = "pairing" /\ pc' = "compare" /\ New(Pairs)
    BY <1>9 DEF Pairing
  <2>2. \A o \in Main \cup Inputs \cup Pairs :
          Count("compare", o) = IF o \in Pairs THEN Count("pairing", o) + 1
                                ELSE Count("pairing", o)
    BY DEF Count, Main, Inputs, Pairs
  <2> QED BY <2>1, <2>2, NewAlong DEF Places
<1>10. CASE Compare
  <2>1. pc = "compare" /\ pc' = "cleanup" /\ Free(Pairs)
    BY <1>10 DEF Compare
  <2>2. \A o \in Main \cup Inputs \cup Pairs :
          Count("cleanup", o) = IF o \in Pairs THEN Count("compare", o) - 1
                                ELSE Count("compare", o)
    BY DEF Count, Main, Inputs, Pairs
  <2> QED BY <2>1, <2>2, FreeAlong DEF Places
<1>11. CASE Cleanup
  <2>1. pc = "cleanup" /\ pc' = "idle" /\ Free(Main)
    BY <1>11 DEF Cleanup, Cleaned
  <2>2. \A o \in Main \cup Inputs \cup Pairs :
          Count("idle", o) = IF o \in Main THEN Count("cleanup", o) - 1 ELSE Count("cleanup", o)
    BY DEF Count, Main, Inputs, Pairs
  <2> QED BY <2>1, <2>2, FreeAlong DEF Places
<1>12. CASE UNCHANGED vars
  <2>1. pc' = pc /\ live' = live
    BY <1>12 DEF vars
  <2> QED BY <2>1 DEF IInv, LiveAt, Count
<1> QED BY <1>1, <1>2, <1>3, <1>5, <1>6, <1>7, <1>8, <1>9, <1>10, <1>11, <1>12 DEF Next, Run

(* Every return of groth16_verify_vk frees each of its objects once, for   *)
(* any key, proof and inputs, however many calls have been made.           *)
THEOREM NothingLeaks == Spec => []AllocationBalanced
<1>1. Init => IInv
  BY InitHolds
<1>2. IInv /\ [Next]_vars => IInv'
  BY StepHolds
<1>3. IInv => AllocationBalanced
  BY DEF IInv, AllocationBalanced, LiveAt, Count
<1> QED BY <1>1, <1>2, <1>3, PTL DEF Spec

-----------------------------------------------------------------------------
(* The points that have been decoded at a place on the way.                *)
CheckedAt(at) == CASE at = "B"     -> {"A"}
                   [] at = "C"     -> {"A", "B"}
                   [] at = "gamma" -> {"A", "B", "C"}
                   [] at = "delta" -> {"A", "B", "C", "gamma"}
                   [] at \in {"ab", "L", "out"} -> {"A", "B", "C", "gamma", "delta"}
                   [] at \in {"ic", "pairing", "compare"} -> Points
                   [] OTHER -> {}

Keys == [ic : Seq(Encoded), alpha_beta : Group, neg_gamma : Encoded, neg_delta : Encoded]

Calling == Places \ {"idle"}

Statics == ic_flat \in Seq(Encoded) /\ Len(ic_flat) = 2 /\ ic_ready \in BOOLEAN

CallTyped ==
  /\ pc \in Places
  /\ pc = "idle" => arg = NoArg
  /\ pc # "idle" => arg \in Args /\ vk \in Keys
  /\ pc \in Calling \ {"wrapper", "lengths"} => Len(arg.input) = num

PointsTyped ==
  /\ p \in [Points -> Encoded \cup Group]
  /\ \A o \in CheckedAt(pc) : p[o] \in Group
  /\ i \in Nat
  /\ pc = "ic" => i <= num

ValuesTyped ==
  /\ pc \in {"L", "ic", "out", "pairing", "compare"} => cached_ab \in Group
  /\ pc = "compare" => product \in Group
  /\ ret \in {-1, 0, 1} /\ out \in {-1, 0, 1, NoArg}

Typed == Statics /\ CallTyped /\ PointsTyped /\ ValuesTyped

-----------------------------------------------------------------------------
LEMMA GroupFacts ==
  /\ Q \in Nat \ {0} /\ 0 \in Group
  /\ \A x \in Int : x % Q \in Group
  /\ \A x \in Group : x \in Int /\ Raw(x) \in Encoded /\ Raw(Neg(x)) \in Encoded
  /\ \A x \in Encoded : x # OFF => x \in Group
BY VerifierAssumption DEF Group, Encoded, Raw, Neg

LEMMA RawKeyTyped == ASSUME NEW s \in Setups PROVE RawKey(s) \in Keys
<1>1. /\ s.ic \in Seq(Group) /\ s.alpha \in Group /\ s.beta \in Group
      /\ s.gamma \in Group /\ s.delta \in Group
  BY VerifierAssumption
<1> DEFINE points == [k \in DOMAIN s.ic |-> Raw(s.ic[k])]
<1>2. points \in Seq(Encoded)
  <2>1. DOMAIN s.ic = 1 .. Len(s.ic) /\ Len(s.ic) \in Nat /\ \A k \in 1 .. Len(s.ic) : s.ic[k] \in Group
    BY <1>1, LenProperties, ElementOfSeq
  <2>2. \A k \in 1 .. Len(s.ic) : Raw(s.ic[k]) \in Encoded
    BY <2>1, GroupFacts
  <2>3. points \in [1 .. Len(s.ic) -> Encoded]
    BY <2>1, <2>2
  <2> QED BY <2>1, <2>3, SeqDef
<1>3. (s.alpha * s.beta) % Q \in Group
  <2>1. s.alpha \in Int /\ s.beta \in Int
    BY <1>1, GroupFacts
  <2>2. s.alpha * s.beta \in Int
    BY <2>1
  <2> QED BY <2>2, GroupFacts
<1>4. Raw(Neg(s.gamma)) \in Encoded /\ Raw(Neg(s.delta)) \in Encoded
  BY <1>1, GroupFacts
<1> QED BY <1>2, <1>3, <1>4 DEF RawKey, Keys

LEMMA ArgFacts ==
  ASSUME NEW x \in Args
  PROVE  /\ x.setup \in Setups /\ \A k \in 1 .. 3 : x.proof[k] \in Encoded
         /\ x.input \in Seq(Nat) /\ Len(x.input) \in Nat
         /\ x.fn = "groth16_verify" => x.setup = Builtin
<1>1. /\ x.setup \in Setups /\ x.proof \in [1 .. 3 -> ProofPoints]
      /\ x.input \in BoundedSeq(Scalars, MaxInputs)
      /\ x.fn = "groth16_verify" => x.setup = Builtin
  BY VerifierAssumption DEF Args
<1>2. PICK m \in Nat : x.input \in [1 .. m -> Scalars]
  BY <1>1, VerifierAssumption DEF BoundedSeq, SeqOf
<1>3. x.input \in Seq(Nat)
  <2>1. x.input \in [1 .. m -> Nat]
    BY <1>2, VerifierAssumption
  <2> QED BY <2>1, SeqDef
<1> QED BY <1>1, <1>3, LenProperties, VerifierAssumption

(* A call starts with nothing of its own and leaves nothing behind.        *)
LEMMA AtRest ==
  ASSUME Statics', pc' = "idle", arg' = NoArg, DropLocals, out' \in {-1, 0, 1, NoArg}
  PROVE  Typed'
<1>1. \A o \in Points : NoPoints[o] \in Encoded
  BY DEF NoPoints, Encoded
<1>2. p' \in [Points -> Encoded \cup Group]
  BY <1>1 DEF DropLocals, NoPoints
<1>3. CheckedAt(pc') = {} /\ pc' \in Places
  BY DEF CheckedAt, Places
<1>4. CallTyped'
  BY <1>3 DEF CallTyped, Calling
<1>5. PointsTyped'
  BY <1>2, <1>3 DEF PointsTyped, DropLocals
<1>6. ValuesTyped'
  BY DEF ValuesTyped, DropLocals
<1> QED BY <1>4, <1>5, <1>6 DEF Typed

LEMMA InitTyped == Init => Typed
<1> SUFFICES ASSUME Init PROVE Typed
  OBVIOUS
<1>1. Statics
  <2>1. ic_flat = <<OFF, OFF>> /\ OFF \in Encoded
    BY DEF Init, Encoded
  <2>2. <<OFF, OFF>> \in Seq(Encoded) /\ Len(<<OFF, OFF>>) = 2
    BY <2>1
  <2>3. ic_ready \in BOOLEAN
    BY DEF Init
  <2> QED BY <2>1, <2>2, <2>3 DEF Statics
<1>2. p \in [Points -> Encoded \cup Group]
  BY DEF Init, NoPoints, Encoded
<1>3. CheckedAt(pc) = {} /\ pc = "idle" /\ pc \in Places
  BY DEF Init, CheckedAt, Places
<1>4. CallTyped
  BY <1>3 DEF Init, CallTyped, Calling
<1>5. i = 0 /\ ret = -1 /\ out = NoArg
  BY DEF Init
<1>6. PointsTyped
  BY <1>2, <1>3, <1>5 DEF PointsTyped
<1>7. ValuesTyped
  BY <1>3, <1>5 DEF ValuesTyped
<1> QED BY <1>1, <1>4, <1>6, <1>7 DEF Typed

-----------------------------------------------------------------------------
Inside == Calling \ {"wrapper", "lengths"}

LEMMA CallGoesOn ==
  ASSUME CallTyped, pc \in Inside, pc' \in Inside, UNCHANGED <<arg, vk>>
  PROVE  CallTyped'
<1>1. num' = num
  BY DEF num
<1> QED BY <1>1 DEF CallTyped, Inside, Calling, Places

LEMMA StaticsKept == Statics /\ UNCHANGED <<ic_flat, ic_ready>> => Statics'
BY DEF Statics

(* decode_g1 and decode_g2 go on only with coordinates on the curve.       *)
LEMMA DecodeTyped ==
  ASSUME Typed, NEW o \in {"A", "B", "C", "gamma", "delta"}, NEW bytes \in Encoded,
         NEW then \in {"B", "C", "gamma", "delta", "ab"},
         CheckedAt(then) = CheckedAt(o) \cup {o}, Decode(o, bytes, then)
  PROVE  Typed'
<1>0. Statics /\ CallTyped /\ PointsTyped /\ ValuesTyped
  BY DEF Typed
<1>1. /\ pc = o /\ p' = [p EXCEPT ![o] = bytes]
      /\ pc' = IF OffCurve(bytes) THEN "cleanup" ELSE then
      /\ UNCHANGED <<ic_flat, ic_ready, arg, vk, cached_ab, product, i, ret, out>>
  BY DEF Decode
<1>2. pc \in Inside /\ pc' \in Inside
  BY <1>1 DEF Inside, Calling, Places, Main
<1>3. CallTyped'
  BY <1>0, <1>1, <1>2, CallGoesOn
<1>4. p \in [Points -> Encoded \cup Group] /\ o \in Points
  BY <1>0 DEF PointsTyped, Points
<1>5. p' \in [Points -> Encoded \cup Group]
  BY <1>1, <1>4
<1>6. \A c \in CheckedAt(pc') : p'[c] \in Group
  <2>1. CASE OffCurve(bytes)
    BY <1>1, <2>1 DEF CheckedAt
  <2>2. CASE ~ OffCurve(bytes)
    <3>1. bytes \in Group /\ pc' = then
      BY <1>1, <2>2, GroupFacts DEF OffCurve
    <3>2. \A c \in CheckedAt(o) : p[c] \in Group /\ c \in Points
      BY <1>0, <1>1 DEF PointsTyped, CheckedAt, Points
    <3> QED BY <1>1, <1>4, <3>1, <3>2
  <2> QED BY <2>1, <2>2
<1>7. i' \in Nat /\ pc' # "ic"
  BY <1>0, <1>1 DEF PointsTyped
<1>8. PointsTyped'
  BY <1>5, <1>6, <1>7 DEF PointsTyped
<1>9. pc' \notin {"L", "ic", "out", "pairing", "compare"}
  BY <1>1
<1>10. ValuesTyped'
  BY <1>0, <1>1, <1>9 DEF ValuesTyped
<1> QED BY <1>0, <1>1, <1>3, <1>8, <1>10, StaticsKept DEF Typed

LEMMA AllDecodesTyped ==
  ASSUME Typed, DecodeA \/ DecodeB \/ DecodeC \/ DecodeGamma \/ DecodeDelta
  PROVE  Typed'
<1>1. pc \in {"A", "B", "C", "gamma", "delta"}
  BY DEF DecodeA, DecodeB, DecodeC, DecodeGamma, DecodeDelta, Decode
<1>2. arg \in Args /\ vk \in Keys
  BY <1>1 DEF Typed, CallTyped
<1>3. /\ arg.proof[1] \in Encoded /\ arg.proof[2] \in Encoded /\ arg.proof[3] \in Encoded
  BY <1>2, ArgFacts
<1>4. vk.neg_gamma \in Encoded /\ vk.neg_delta \in Encoded
  BY <1>2 DEF Keys
<1>5. /\ CheckedAt("B") = CheckedAt("A") \cup {"A"}
      /\ CheckedAt("C") = CheckedAt("B") \cup {"B"}
      /\ CheckedAt("gamma") = CheckedAt("C") \cup {"C"}
      /\ CheckedAt("delta") = CheckedAt("gamma") \cup {"gamma"}
      /\ CheckedAt("ab") = CheckedAt("delta") \cup {"delta"}
  BY DEF CheckedAt
<1>6. CASE DecodeA
  BY <1>3, <1>5, <1>6, DecodeTyped DEF DecodeA
<1>7. CASE DecodeB
  BY <1>3, <1>5, <1>7, DecodeTyped DEF DecodeB
<1>8. CASE DecodeC
  BY <1>3, <1>5, <1>8, DecodeTyped DEF DecodeC
<1>9. CASE DecodeGamma
  BY <1>4, <1>5, <1>9, DecodeTyped DEF DecodeGamma
<1>10. CASE DecodeDelta
  BY <1>4, <1>5, <1>10, DecodeTyped DEF DecodeDelta
<1> QED BY <1>6, <1>7, <1>8, <1>9, <1>10

(* Before the first decode. *)
LEMMA CallIsTyped ==
  ASSUME Typed, NEW x \in Args, Call(x)
  PROVE  Typed'
<1>0. Statics /\ CallTyped /\ PointsTyped /\ ValuesTyped
  BY DEF Typed
<1>1. /\ arg' = x /\ out' = NoArg /\ pc' \in {"wrapper", "lengths"}
      /\ vk' = RawKey(x.setup)
      /\ UNCHANGED <<ic_flat, ic_ready, p, cached_ab, product, i, ret>>
  BY DEF Call
<1>2. vk' \in Keys
  BY <1>1, ArgFacts, RawKeyTyped
<1>3. CallTyped'
  BY <1>1, <1>2 DEF CallTyped, Calling, Places
<1>4. CheckedAt(pc') = {}
  BY <1>1 DEF CheckedAt
<1>5. PointsTyped'
  BY <1>0, <1>1, <1>4 DEF PointsTyped
<1>6. ValuesTyped'
  BY <1>0, <1>1 DEF ValuesTyped
<1> QED BY <1>0, <1>1, <1>3, <1>5, <1>6, StaticsKept DEF Typed

(* The static array holds the two points of the built-in key. *)
LEMMA WrapperTyped ==
  ASSUME Typed, groth16_verify
  PROVE  Typed'
<1>0. Statics /\ CallTyped /\ PointsTyped /\ ValuesTyped
  BY DEF Typed
<1>1. /\ pc = "wrapper" /\ pc' = "lengths"
      /\ ic_flat' = (IF ic_ready THEN ic_flat ELSE RawKey(Builtin).ic)
      /\ ic_ready' = TRUE /\ vk' = [vk EXCEPT !.ic = ic_flat']
      /\ UNCHANGED <<arg, p, cached_ab, product, i, ret, out>>
  BY DEF groth16_verify
<1>2. RawKey(Builtin).ic \in Seq(Encoded) /\ Len(RawKey(Builtin).ic) = 2
  <2>1. Builtin \in Setups /\ Len(Builtin.ic) = 2 /\ Builtin.ic \in Seq(Group)
    BY VerifierAssumption
  <2>2. RawKey(Builtin).ic \in Seq(Encoded)
    BY <2>1, RawKeyTyped DEF Keys
  <2>3. DOMAIN RawKey(Builtin).ic = DOMAIN Builtin.ic
    BY DEF RawKey
  <2>4. DOMAIN Builtin.ic = 1 .. 2
    BY <2>1, LenProperties
  <2>5. DOMAIN RawKey(Builtin).ic = 1 .. Len(RawKey(Builtin).ic)
        /\ Len(RawKey(Builtin).ic) \in Nat
    BY <2>2, LenProperties
  <2>6. 1 .. Len(RawKey(Builtin).ic) = 1 .. 2
    BY <2>3, <2>4, <2>5
  <2>7. Len(RawKey(Builtin).ic) = 2
    <3> DEFINE l == Len(RawKey(Builtin).ic)
    <3>1. l \in Nat /\ 1 .. l = 1 .. 2
      BY <2>5, <2>6
    <3> HIDE DEF l
    <3>2. 2 \in 1 .. l /\ l + 1 \notin 1 .. 2
      BY <3>1
    <3>3. l = 2
      BY <3>1, <3>2
    <3> QED BY <3>3 DEF l
  <2> QED BY <2>2, <2>7
<1>3. ic_flat' \in Seq(Encoded) /\ Len(ic_flat') = 2
  BY <1>0, <1>1, <1>2 DEF Statics
<1>4. Statics'
  BY <1>1, <1>3 DEF Statics
<1>5. arg' \in Args /\ vk' \in Keys
  BY <1>0, <1>1, <1>3 DEF CallTyped, Keys
<1>6. CallTyped'
  BY <1>1, <1>5 DEF CallTyped, Calling, Places
<1>7. CheckedAt(pc') = {}
  BY <1>1 DEF CheckedAt
<1>8. PointsTyped'
  BY <1>0, <1>1, <1>7 DEF PointsTyped
<1>9. ValuesTyped'
  BY <1>0, <1>1 DEF ValuesTyped
<1> QED BY <1>4, <1>6, <1>8, <1>9 DEF Typed

LEMMA LengthsTyped ==
  ASSUME Typed, CheckLengths
  PROVE  Typed'
<1>0. Statics /\ CallTyped /\ PointsTyped /\ ValuesTyped /\ pc = "lengths"
      /\ UNCHANGED <<ic_flat, ic_ready>>
  BY DEF Typed, CheckLengths
<1>1. CASE pc' = "idle" /\ arg' = NoArg /\ out' = -1 /\ DropLocals
  BY <1>0, <1>1, AtRest, StaticsKept
<1>2. CASE /\ pc' = "A" /\ Len(arg.input) = num
           /\ UNCHANGED <<arg, vk, p, cached_ab, product, i, ret, out>>
  <2>1. num' = num
    BY <1>2 DEF num
  <2>2. CallTyped'
    BY <1>0, <1>2, <2>1 DEF CallTyped, Calling, Places, Main
  <2>3. CheckedAt(pc') = {}
    BY <1>2 DEF CheckedAt
  <2>4. PointsTyped' /\ ValuesTyped'
    BY <1>0, <1>2, <2>3 DEF PointsTyped, ValuesTyped
  <2> QED BY <1>0, <2>2, <2>4, StaticsKept DEF Typed
<1> QED BY <1>1, <1>2 DEF CheckLengths

(* The tail: the GT value, the sum over the inputs, the pairing.           *)
LEMMA GTTyped ==
  ASSUME Typed, DecodeGT
  PROVE  Typed'
<1>0. Statics /\ CallTyped /\ PointsTyped /\ ValuesTyped
  BY DEF Typed
<1>1. /\ pc = "ab" /\ pc' = "L" /\ cached_ab' = vk.alpha_beta
      /\ UNCHANGED <<ic_flat, ic_ready, arg, vk, p, product, i, ret, out>>
  BY DEF DecodeGT
<1>2. CallTyped'
  BY <1>0, <1>1, CallGoesOn DEF Inside, Calling, Places, Main
<1>3. cached_ab' \in Group
  BY <1>0, <1>1 DEF CallTyped, Keys
<1>4. CheckedAt(pc') = CheckedAt(pc)
  BY <1>1 DEF CheckedAt
<1>5. PointsTyped'
  BY <1>0, <1>1, <1>4 DEF PointsTyped
<1>6. ValuesTyped'
  BY <1>0, <1>1, <1>3 DEF ValuesTyped
<1> QED BY <1>0, <1>1, <1>2, <1>5, <1>6, StaticsKept DEF Typed

LEMMA KeyPoints ==
  ASSUME Typed, pc \in Inside
  PROVE  /\ num \in Nat /\ Len(vk.ic) \in Nat /\ num = Len(vk.ic) - 1
         /\ \A k \in 1 .. Len(vk.ic) : vk.ic[k] \in Encoded
         /\ \A k \in 1 .. num : arg.input[k] \in Nat
<1>1. arg \in Args /\ vk.ic \in Seq(Encoded) /\ Len(arg.input) = num
  BY DEF Typed, CallTyped, Keys, Inside, Calling
<1>2. arg.input \in Seq(Nat) /\ Len(arg.input) \in Nat
  BY <1>1, ArgFacts
<1>3. Len(vk.ic) \in Nat /\ \A k \in 1 .. Len(vk.ic) : vk.ic[k] \in Encoded
  BY <1>1, LenProperties, ElementOfSeq
<1>4. \A k \in 1 .. Len(arg.input) : arg.input[k] \in Nat
  BY <1>2, ElementOfSeq
<1> QED BY <1>1, <1>2, <1>3, <1>4 DEF num

LEMMA IC0Typed ==
  ASSUME Typed, DecodeIC0
  PROVE  Typed'
<1>0. Statics /\ CallTyped /\ PointsTyped /\ ValuesTyped
  BY DEF Typed
<1>1. /\ pc = "L" /\ p' = [p EXCEPT !["L"] = vk.ic[1]] /\ i' = 0
      /\ pc' = IF OffCurve(vk.ic[1]) THEN "out" ELSE "ic"
      /\ UNCHANGED <<ic_flat, ic_ready, arg, vk, cached_ab, product, ret, out>>
  BY DEF DecodeIC0
<1>2. pc \in Inside /\ pc' \in Inside
  BY <1>1 DEF Inside, Calling, Places, Main
<1>3. CallTyped'
  BY <1>0, <1>1, <1>2, CallGoesOn
<1>4. num \in Nat /\ num' = num /\ vk.ic[1] \in Encoded
  BY <1>1, <1>2, KeyPoints DEF num
<1>5. p \in [Points -> Encoded \cup Group] /\ "L" \in Points
  BY <1>0 DEF PointsTyped, Points
<1>6. p' \in [Points -> Encoded \cup Group]
  BY <1>1, <1>4, <1>5
<1>7. \A c \in Points \ {"L"} : p[c] \in Group /\ p'[c] = p[c]
  BY <1>0, <1>1, <1>5 DEF PointsTyped, CheckedAt, Points
<1>8. \A c \in CheckedAt(pc') : p'[c] \in Group
  <2>1. CASE OffCurve(vk.ic[1])
    BY <1>1, <1>7, <2>1 DEF CheckedAt, Points
  <2>2. CASE ~ OffCurve(vk.ic[1])
    <3>1. p'["L"] \in Group
      BY <1>1, <1>4, <1>5, <2>2, GroupFacts DEF OffCurve
    <3> QED BY <1>1, <1>7, <2>2, <3>1 DEF CheckedAt, Points
  <2> QED BY <2>1, <2>2
<1>9. PointsTyped'
  BY <1>1, <1>4, <1>6, <1>8 DEF PointsTyped
<1>10. ValuesTyped'
  BY <1>0, <1>1 DEF ValuesTyped
<1> QED BY <1>0, <1>1, <1>3, <1>9, <1>10, StaticsKept DEF Typed

LEMMA AddInputTyped ==
  ASSUME Typed, AddInput
  PROVE  Typed'
<1>0. Statics /\ CallTyped /\ PointsTyped /\ ValuesTyped
  BY DEF Typed
<1>1. /\ pc = "ic" /\ i < num
      /\ IF OffCurve(ICPoint(i))
         THEN pc' = "out" /\ UNCHANGED <<p, i>>
         ELSE /\ p' = [p EXCEPT !["L"] = (@ + arg.input[i + 1] * ICPoint(i)) % Q]
              /\ i' = i + 1 /\ pc' = "ic"
      /\ UNCHANGED <<ic_flat, ic_ready, arg, vk, cached_ab, product, ret, out>>
  BY DEF AddInput, NextInput
<1>2. pc \in Inside /\ pc' \in Inside
  BY <1>1 DEF Inside, Calling, Places
<1>3. CallTyped'
  BY <1>0, <1>1, <1>2, CallGoesOn
<1>4. num' = num /\ num \in Nat /\ i \in Nat
  BY <1>0, <1>1, <1>2, KeyPoints DEF num, PointsTyped
<1>5. p \in [Points -> Encoded \cup Group] /\ \A c \in Points : p[c] \in Group
  BY <1>0, <1>1 DEF PointsTyped, CheckedAt
<1>6. ValuesTyped'
  BY <1>0, <1>1 DEF ValuesTyped
<1>7. CASE OffCurve(ICPoint(i))
  <2>1. CheckedAt(pc') \subseteq Points /\ p' = p /\ i' = i /\ pc' = "out"
    BY <1>1, <1>7 DEF CheckedAt, Points
  <2>2. PointsTyped'
    BY <1>4, <1>5, <2>1 DEF PointsTyped
  <2> QED BY <1>0, <1>1, <1>3, <1>6, <2>2, StaticsKept DEF Typed
<1>8. CASE ~ OffCurve(ICPoint(i))
  <2> DEFINE x == (p["L"] + arg.input[i + 1] * ICPoint(i)) % Q
  <2>1. x \in Group
    <3>1. i + 2 \in 1 .. Len(vk.ic) /\ i + 1 \in 1 .. num
      BY <1>1, <1>2, <1>4, KeyPoints
    <3>2. vk.ic[i + 2] \in Encoded /\ arg.input[i + 1] \in Nat
      BY <1>2, <3>1, KeyPoints
    <3>3. ICPoint(i) \in Group
      BY <1>8, <3>2, GroupFacts DEF ICPoint, OffCurve
    <3>4. p["L"] \in Int /\ ICPoint(i) \in Int /\ arg.input[i + 1] \in Int
      BY <1>5, <3>2, <3>3, GroupFacts DEF Points
    <3>5. p["L"] + arg.input[i + 1] * ICPoint(i) \in Int
      BY <3>4
    <3> QED BY <3>5, GroupFacts
  <2>2. p' = [p EXCEPT !["L"] = x] /\ i' = i + 1 /\ pc' = "ic"
    BY <1>1, <1>8
  <2> HIDE DEF x
  <2>3. p' \in [Points -> Encoded \cup Group] /\ \A c \in Points : p'[c] \in Group
    BY <1>5, <2>1, <2>2
  <2>4. i' \in Nat /\ i' <= num'
    BY <1>1, <1>4, <2>2
  <2>5. CheckedAt(pc') = Points
    BY <2>2 DEF CheckedAt
  <2>6. PointsTyped'
    BY <2>3, <2>4, <2>5 DEF PointsTyped
  <2> QED BY <1>0, <1>1, <1>3, <1>6, <2>6, StaticsKept DEF Typed
<1> QED BY <1>7, <1>8

LEMMA PreparedTyped ==
  ASSUME Typed, Prepared \/ PrepareFailed
  PROVE  Typed'
<1>0. Statics /\ CallTyped /\ PointsTyped /\ ValuesTyped
  BY DEF Typed
<1>1. /\ \/ pc = "ic" /\ pc' = "pairing"
         \/ pc = "out" /\ pc' = "cleanup"
      /\ UNCHANGED <<ic_flat, ic_ready, arg, vk, p, cached_ab, product, i, ret, out>>
  BY DEF Prepared, PrepareFailed
<1>2. CallTyped'
  BY <1>0, <1>1, CallGoesOn DEF Inside, Calling, Places
<1>3. CheckedAt(pc') \subseteq CheckedAt(pc)
  BY <1>1 DEF CheckedAt
<1>4. PointsTyped'
  BY <1>0, <1>1, <1>3 DEF PointsTyped
<1>5. ValuesTyped'
  BY <1>0, <1>1 DEF ValuesTyped
<1> QED BY <1>0, <1>1, <1>2, <1>4, <1>5, StaticsKept DEF Typed

LEMMA PairingTyped ==
  ASSUME Typed, Pairing
  PROVE  Typed'
<1>0. Statics /\ CallTyped /\ PointsTyped /\ ValuesTyped
  BY DEF Typed
<1>1. /\ pc = "pairing" /\ pc' = "compare" /\ product' = MultiPairing % Q
      /\ UNCHANGED <<ic_flat, ic_ready, arg, vk, p, cached_ab, i, ret, out>>
  BY DEF Pairing
<1>2. CallTyped'
  BY <1>0, <1>1, CallGoesOn DEF Inside, Calling, Places
<1>3. \A c \in Points : p[c] \in Int
  BY <1>0, <1>1, GroupFacts DEF PointsTyped, CheckedAt
<1>4. /\ p["A"] \in Int /\ p["B"] \in Int /\ p["L"] \in Int /\ p["C"] \in Int
      /\ p["gamma"] \in Int /\ p["delta"] \in Int
  BY <1>3 DEF Points
<1>5. MultiPairing \in Int
  BY <1>4 DEF MultiPairing
<1>6. product' \in Group
  BY <1>1, <1>5, GroupFacts
<1>7. CheckedAt(pc') = CheckedAt(pc)
  BY <1>1 DEF CheckedAt
<1>8. PointsTyped'
  BY <1>0, <1>1, <1>7 DEF PointsTyped
<1>9. ValuesTyped'
  BY <1>0, <1>1, <1>6 DEF ValuesTyped
<1> QED BY <1>0, <1>1, <1>2, <1>8, <1>9, StaticsKept DEF Typed

LEMMA CompareTyped ==
  ASSUME Typed, Compare
  PROVE  Typed'
<1>0. Statics /\ CallTyped /\ PointsTyped /\ ValuesTyped
  BY DEF Typed
<1>1. /\ pc = "compare" /\ pc' = "cleanup" /\ ret' \in {0, 1}
      /\ UNCHANGED <<ic_flat, ic_ready, arg, vk, p, cached_ab, product, i, out>>
  BY DEF Compare
<1>2. CallTyped'
  BY <1>0, <1>1, CallGoesOn DEF Inside, Calling, Places
<1>3. CheckedAt(pc') = {}
  BY <1>1 DEF CheckedAt
<1>4. PointsTyped'
  BY <1>0, <1>1, <1>3 DEF PointsTyped
<1>5. ValuesTyped'
  BY <1>0, <1>1 DEF ValuesTyped
<1> QED BY <1>0, <1>1, <1>2, <1>4, <1>5, StaticsKept DEF Typed

LEMMA CleanupTyped ==
  ASSUME Typed, Cleanup
  PROVE  Typed'
<1>0. Statics /\ ValuesTyped
  BY DEF Typed
<1>1. /\ out' = ret /\ arg' = NoArg /\ pc' = "idle" /\ DropLocals
      /\ UNCHANGED <<ic_flat, ic_ready>>
  BY DEF Cleanup
<1>2. out' \in {-1, 0, 1, NoArg}
  BY <1>0, <1>1 DEF ValuesTyped
<1> QED BY <1>0, <1>1, <1>2, StaticsKept, AtRest

LEMMA StepTyped == Typed /\ [Next]_vars => Typed'
<1> SUFFICES ASSUME Typed, [Next]_vars PROVE Typed'
  OBVIOUS
<1>1. ASSUME NEW x \in Args, Call(x) PROVE Typed'
  BY <1>1, CallIsTyped
<1>2. CASE groth16_verify
  BY <1>2, WrapperTyped
<1>3. CASE CheckLengths
  BY <1>3, LengthsTyped
<1>4. CASE DecodeA \/ DecodeB \/ DecodeC \/ DecodeGamma \/ DecodeDelta
  BY <1>4, AllDecodesTyped
<1>5. CASE DecodeGT
  BY <1>5, GTTyped
<1>6. CASE DecodeIC0
  BY <1>6, IC0Typed
<1>7. CASE AddInput
  BY <1>7, AddInputTyped
<1>8. CASE Prepared \/ PrepareFailed
  BY <1>8, PreparedTyped
<1>9. CASE Pairing
  BY <1>9, PairingTyped
<1>10. CASE Compare
  BY <1>10, CompareTyped
<1>11. CASE Cleanup
  BY <1>11, CleanupTyped
<1>12. CASE UNCHANGED vars
  BY <1>12 DEF vars, Typed, Statics, CallTyped, PointsTyped, ValuesTyped, num
<1> QED BY <1>1, <1>2, <1>3, <1>4, <1>5, <1>6, <1>7, <1>8, <1>9, <1>10, <1>11, <1>12
        DEF Next, Run

(* The group operations and the pairing are given points that were         *)
(* checked, never the bytes as they came, for every key and proof.         *)
THEOREM OnlyCheckedPoints == Spec => []TypeOK
<1>1. Init => Typed
  BY InitTyped
<1>2. Typed /\ [Next]_vars => Typed'
  BY StepTyped
<1>3. Typed => TypeOK
  <2> SUFFICES ASSUME Typed PROVE TypeOK
    OBVIOUS
  <2>0. Statics /\ CallTyped /\ PointsTyped /\ ValuesTyped
    BY DEF Typed
  <2>1. arg \in Args \cup {NoArg} /\ (arg = NoArg <=> pc = "idle")
    BY <2>0, NoArgAssumption DEF CallTyped
  <2>2. pc = "ic" => i <= num /\ p["L"] \in Group
    BY <2>0 DEF PointsTyped, CheckedAt, Points
  <2>3. ASSUME pc \in {"pairing", "compare"}
        PROVE  p \in [Points -> Group] /\ cached_ab \in Group
    <3>1. \A c \in Points : p[c] \in Group
      BY <2>0, <2>3 DEF PointsTyped, CheckedAt
    <3>2. p \in [Points -> Encoded \cup Group]
      BY <2>0 DEF PointsTyped
    <3>3. cached_ab \in Group
      BY <2>0, <2>3 DEF ValuesTyped
    <3> QED BY <3>1, <3>2, <3>3
  <2> QED BY <2>0, <2>1, <2>2, <2>3 DEF TypeOK, Statics, PointsTyped, ValuesTyped
<1> QED BY <1>1, <1>2, <1>3, PTL DEF Spec
-----------------------------------------------------------------------------
(* What a call has found out at a place                                    *)

(* The bytes each of the five points is decoded from. *)
Bytes(o) == CASE o = "A"     -> arg.proof[1]
              [] o = "B"     -> arg.proof[2]
              [] o = "C"     -> arg.proof[3]
              [] o = "gamma" -> vk.neg_gamma
              [] o = "delta" -> vk.neg_delta

(* f[k] is the first point of IC and the first k inputs' multiples.        *)
SumsUp(f, s, input) ==
  /\ f[0] = s.ic[1]
  /\ \A k \in 0 .. Len(input) - 1 : f[k + 1] = f[k] + input[k + 1] * s.ic[k + 2]

(* The key is that of the setup, with the static array in it or not.       *)
KeyGiven ==
  /\ ic_ready => ic_flat = RawKey(Builtin).ic
  /\ pc # "idle" => vk = RawKey(arg.setup)
  /\ pc = "wrapper" => arg.fn = "groth16_verify"
  /\ pc \in Calling \ {"wrapper", "lengths"} => arg.proof_ok

DecodedSoFar ==
  /\ \A o \in CheckedAt(pc) \ {"L"} : p[o] = Bytes(o)
  /\ pc \in {"L", "ic", "out", "pairing", "compare"} => cached_ab = vk.alpha_beta

(* How much of prepare_inputs is done: i inputs. *)
Added(n) ==
  /\ \A k \in 1 .. n + 1 : vk.ic[k] # OFF
  /\ \A f : SumsUp(f, arg.setup, arg.input) => p["L"] = f[n] % Q

PreparedSoFar ==
  /\ pc = "ic" => Added(i)
  /\ pc \in {"pairing", "compare"} => Added(num)
  /\ pc = "out" => \E k \in DOMAIN vk.ic : vk.ic[k] = OFF

(* What ret holds: nothing but -1 until the comparison, and at the end the *)
(* verdict.                                                                *)
Answered ==
  /\ pc # "cleanup" => ret = -1
  /\ pc = "compare" => product = MultiPairing % Q
  /\ pc = "cleanup" => ret = Verdict(arg.setup, arg.proof, arg.proof_ok, arg.input)

Answers == KeyGiven /\ DecodedSoFar /\ PreparedSoFar /\ Answered

-----------------------------------------------------------------------------
(* The groups *)

LEMMA QType == Q \in Nat \ {0} /\ Q \in Int /\ Q > 1 /\ OFF \notin Int
BY VerifierAssumption

LEMMA DivMod ==
  ASSUME NEW v \in Int, NEW w \in Nat \ {0}
  PROVE  v \div w \in Int /\ v % w \in 0 .. w - 1 /\ v = (v \div w) * w + (v % w)
OBVIOUS

LEMMA NoMultipleBetween ==
  ASSUME NEW d \in Int, NEW w \in Nat \ {0}, d >= 1
  PROVE  d * w >= w
<1>1. (d - 1) * w >= 0
  OBVIOUS
<1>2. (d - 1) * w = d * w - w
  OBVIOUS
<1> QED BY <1>1, <1>2

(* Two numbers have the same remainder exactly when they differ by a       *)
(* multiple of Q.                                                          *)
LEMMA SameRemainder ==
  ASSUME NEW u \in Int, NEW v \in Int
  PROVE  u % Q = v % Q <=> \E k \in Int : u = v + k * Q
<1> DEFINE a == u \div Q
           b == v \div Q
           m == u % Q
           n == v % Q
<1>1. /\ a \in Int /\ m \in 0 .. Q - 1 /\ u = a * Q + m
      /\ b \in Int /\ n \in 0 .. Q - 1 /\ v = b * Q + n
  BY QType, DivMod
<1> HIDE DEF a, b, m, n
<1>2. ASSUME m = n PROVE \E k \in Int : u = v + k * Q
  <2>1. u = v + (a - b) * Q /\ a - b \in Int
    BY <1>1, <1>2, QType
  <2> QED BY <2>1
<1>3. ASSUME NEW k \in Int, u = v + k * Q PROVE m = n
  <2>1. (b + k - a) * Q = m - n /\ (a - b - k) * Q = n - m
    BY <1>1, <1>3, QType
  <2>2. ~ (b + k - a >= 1)
    BY <1>1, <2>1, QType, NoMultipleBetween
  <2>3. ~ (a - b - k >= 1)
    BY <1>1, <2>1, QType, NoMultipleBetween
  <2>4. b + k - a = 0
    BY <1>1, <2>2, <2>3
  <2> QED BY <1>1, <2>1, <2>4, QType
<1> QED BY <1>2, <1>3 DEF m, n

(* e(A, B) e(L, -gamma) e(C, -delta) = e(alpha, beta): the terms of the    *)
(* verifier's product that the statement has on the other side.              *)
LEMMA MovedAcross ==
  ASSUME NEW x \in Int, NEW y \in Int, NEW l \in Int, NEW g \in Int, NEW c \in Int, NEW d \in Int
  PROVE  (x + l * (Q - g) + c * (Q - d)) % Q = y % Q <=> x % Q = (y + l * g + c * d) % Q
<1> DEFINE u == x + l * (Q - g) + c * (Q - d)
           v == y + l * g + c * d
<1>1. u \in Int /\ v \in Int
  BY QType
<1>2. u = x - l * g - c * d + (l + c) * Q
  BY QType
<1>3. ASSUME NEW k \in Int, u = y + k * Q PROVE \E j \in Int : x = v + j * Q
  <2>1. x = v + (k - l - c) * Q /\ k - l - c \in Int
    BY <1>2, <1>3, QType
  <2> QED BY <2>1
<1>4. ASSUME NEW k \in Int, x = v + k * Q PROVE \E j \in Int : u = y + j * Q
  <2>1. u = y + (k + l + c) * Q /\ k + l + c \in Int
    BY <1>2, <1>4, QType
  <2> QED BY <2>1
<1> HIDE DEF u, v
<1>5. u % Q = y % Q <=> \E k \in Int : u = y + k * Q
  BY <1>1, SameRemainder
<1>6. x % Q = v % Q <=> \E k \in Int : x = v + k * Q
  BY <1>1, SameRemainder
<1>7. u % Q = y % Q <=> x % Q = v % Q
  BY <1>3, <1>4, <1>5, <1>6
<1> QED BY <1>7 DEF u, v

(* A sum reduced at each addition or once at the end.                      *)
LEMMA ReducedAtEach ==
  ASSUME NEW u \in Int, NEW c \in Int
  PROVE  ((u % Q) + c) % Q = (u + c) % Q
<1> DEFINE m == u % Q
           q == u \div Q
<1>1. m \in Int /\ q \in Int /\ u = q * Q + m
  BY QType, DivMod
<1> HIDE DEF m, q
<1>2. m + c = (u + c) + (0 - q) * Q /\ m + c \in Int /\ u + c \in Int /\ 0 - q \in Int
  BY <1>1, QType
<1>3. (m + c) % Q = (u + c) % Q
  BY <1>2, SameRemainder
<1> QED BY <1>3 DEF m

LEMMA OwnRemainder == ASSUME NEW x \in Group PROVE x % Q = x
BY QType DEF Group

(* A key none of whose points is off the curve has the setup's points, with *)
(* gamma and delta negated.                                                *)
LEMMA KeyValues ==
  ASSUME NEW s \in Setups
  PROVE  /\ DOMAIN RawKey(s).ic = 1 .. Len(s.ic) /\ Len(RawKey(s).ic) = Len(s.ic) /\ Len(s.ic) \in Nat
         /\ \A k \in 1 .. Len(s.ic) : s.ic[k] \in Group
                                      /\ (RawKey(s).ic[k] # OFF => RawKey(s).ic[k] = s.ic[k])
         /\ RawKey(s).neg_gamma # OFF => RawKey(s).neg_gamma = Q - s.gamma
         /\ RawKey(s).neg_delta # OFF => RawKey(s).neg_delta = Q - s.delta
         /\ RawKey(s).alpha_beta = (s.alpha * s.beta) % Q
         /\ s.alpha \in Int /\ s.beta \in Int /\ s.gamma \in Int /\ s.delta \in Int
<1>1. /\ s.ic \in Seq(Group) /\ s.alpha \in Group /\ s.beta \in Group
      /\ s.gamma \in Group /\ s.delta \in Group
  BY VerifierAssumption
<1>2. DOMAIN s.ic = 1 .. Len(s.ic) /\ Len(s.ic) \in Nat /\ \A k \in 1 .. Len(s.ic) : s.ic[k] \in Group
  BY <1>1, LenProperties, ElementOfSeq
<1>3. RawKey(s).ic = [k \in 1 .. Len(s.ic) |-> Raw(s.ic[k])]
  BY <1>2 DEF RawKey
<1>4. DOMAIN RawKey(s).ic = 1 .. Len(s.ic) /\ \A k \in 1 .. Len(s.ic) : RawKey(s).ic[k] = Raw(s.ic[k])
  BY <1>3
<1>5. Len(RawKey(s).ic) = Len(s.ic)
  BY <1>2, <1>4
<1>6. \A x : Raw(x) # OFF => Raw(x) = x
  BY DEF Raw
<1>7. \A x \in Group : Raw(Neg(x)) # OFF => Raw(Neg(x)) = Q - x
  <2> SUFFICES ASSUME NEW x \in Group, Raw(Neg(x)) # OFF PROVE Neg(x) = Q - x
    BY <1>6
  <2>1. x \in 0 .. Q - 1
    BY DEF Group
  <2>2. x # 0
    <3>1. x = 0 => (Q - x) % Q = 0
      BY <2>1, QType
    <3> QED BY <3>1 DEF Neg, Raw
  <2>3. Q - x \in Group
    BY <2>1, <2>2, QType DEF Group
  <2> QED BY <2>3, OwnRemainder DEF Neg
<1>8. /\ RawKey(s).neg_gamma = Raw(Neg(s.gamma)) /\ RawKey(s).neg_delta = Raw(Neg(s.delta))
      /\ RawKey(s).alpha_beta = (s.alpha * s.beta) % Q
  BY DEF RawKey
<1> QED BY <1>1, <1>2, <1>4, <1>5, <1>6, <1>7, <1>8, GroupFacts

(* Some encoding of the proof or the key is of no point.                   *)
Unreadable(a) == \/ OFF \in {a.proof[1], a.proof[2], a.proof[3]}
                 \/ OFF \in {RawKey(a.setup).neg_gamma, RawKey(a.setup).neg_delta}
                 \/ \E k \in DOMAIN RawKey(a.setup).ic : RawKey(a.setup).ic[k] = OFF

(* What the statement says of a call, case by case.                        *)
LEMMA VerdictIs ==
  ASSUME NEW a \in Args
  PROVE  /\ ~ a.proof_ok \/ Len(a.input) + 1 # Len(a.setup.ic)
              => Verdict(a.setup, a.proof, a.proof_ok, a.input) = -1
         /\ Unreadable(a) => Verdict(a.setup, a.proof, a.proof_ok, a.input) = -1
         /\ a.proof_ok /\ Len(a.input) + 1 = Len(a.setup.ic) /\ ~ Unreadable(a)
              => Verdict(a.setup, a.proof, a.proof_ok, a.input)
                   = IF Accepts(a.setup, a.proof[1], a.proof[2], a.proof[3], a.input) THEN 1 ELSE 0
<1> DEFINE key == RawKey(a.setup)
           points == {a.proof[1], a.proof[2], a.proof[3], key.neg_gamma, key.neg_delta}
                       \cup {key.ic[k] : k \in DOMAIN key.ic}
           bad == ~ a.proof_ok \/ Len(a.input) + 1 # Len(a.setup.ic)
           acc == Accepts(a.setup, a.proof[1], a.proof[2], a.proof[3], a.input)
<1>1. Verdict(a.setup, a.proof, a.proof_ok, a.input)
        = CASE bad -> -1 [] OFF \in points -> -1 [] OTHER -> IF acc THEN 1 ELSE 0
  BY DEF Verdict
<1>2. OFF \in points <=> Unreadable(a)
  BY DEF Unreadable
<1>3. bad <=> ~ (a.proof_ok /\ Len(a.input) + 1 = Len(a.setup.ic))
  OBVIOUS
<1> HIDE DEF points, bad, acc
<1>4. /\ bad => Verdict(a.setup, a.proof, a.proof_ok, a.input) = -1
      /\ OFF \in points => Verdict(a.setup, a.proof, a.proof_ok, a.input) = -1
      /\ ~ bad /\ OFF \notin points
           => Verdict(a.setup, a.proof, a.proof_ok, a.input) = IF acc THEN 1 ELSE 0
  BY <1>1
<1> QED BY <1>2, <1>3, <1>4 DEF bad, acc

-----------------------------------------------------------------------------
(* The sum over the inputs *)

LEMMA NatLeast ==
  ASSUME NEW T, T \subseteq Nat, T # {}
  PROVE  \E m \in T : \A l \in T : ~ (l < m)
<1>1. IsWellFoundedOn(OpToRel(<, Nat), Nat)
  BY NatLessThanWellFounded, Zenon
<1>2. \E m \in T : \A l \in T : <<l, m>> \notin OpToRel(<, Nat)
  BY <1>1, WFMin, Zenon
<1>3. PICK m \in T : \A l \in T : <<l, m>> \notin OpToRel(<, Nat)
  BY <1>2, Zenon
<1>4. ASSUME NEW l \in T, l < m PROVE FALSE
  <2>1. l \in Nat /\ m \in Nat
    OBVIOUS
  <2>2. <<l, m>> \in OpToRel(<, Nat)
    BY <1>4, <2>1, Zenon DEF OpToRel
  <2> QED BY <1>3, <2>2, Zenon
<1> QED BY <1>4, Zenon

LEMMA UpTo ==
  ASSUME NEW n \in Nat, NEW S, 0 \in S, \A k \in 0 .. n - 1 : k \in S => k + 1 \in S
  PROVE  \A k \in 0 .. n : k \in S
<1> DEFINE T == (0 .. n) \ S
<1>1. SUFFICES ASSUME T # {} PROVE FALSE
  OBVIOUS
<1>2. PICK m \in T : \A l \in T : ~ (l < m)
  <2>1. T \subseteq Nat
    OBVIOUS
  <2> HIDE DEF T
  <2> QED BY <1>1, <2>1, NatLeast, Zenon
<1>3. m - 1 \in 0 .. n - 1 /\ m - 1 \notin T
  BY <1>2
<1> QED BY <1>3


AddedUp(f, n, s, input) ==
  /\ f[0] = s.ic[1]
  /\ \A k \in 0 .. n - 1 : f[k + 1] = f[k] + input[k + 1] * s.ic[k + 2]

(* The recursive sum of the statement exists and adds up.                  *)
LEMMA InputPointAddsUp ==
  ASSUME NEW s, NEW input, Len(input) \in Nat
  PROVE  \E f : SumsUp(f, s, input) /\ InputPoint(s, input) = f[Len(input)] % Q
<1> DEFINE N == Len(input)
           Upto(f, n) == f = [k \in 0 .. n |-> f[k]] /\ AddedUp(f, n, s, input)
           S == {n \in 0 .. N : \E f : Upto(f, n)}
<1>0. N \in Nat
  OBVIOUS
<1> HIDE DEF N
<1>1. 0 \in S
  <2> DEFINE f == [k \in 0 .. 0 |-> s.ic[1]]
  <2>1. Upto(f, 0)
    BY DEF AddedUp
  <2> HIDE DEF Upto
  <2> QED BY <1>0, <2>1
<1>2. ASSUME NEW n \in 0 .. N - 1, n \in S PROVE n + 1 \in S
  <2>1. PICK f : Upto(f, n)
    BY <1>2
  <2> DEFINE g == [k \in 0 .. n + 1 |-> IF k = n + 1 THEN f[n] + input[n + 1] * s.ic[n + 2] ELSE f[k]]
  <2>2. g[n + 1] = f[n] + input[n + 1] * s.ic[n + 2] /\ \A k \in 0 .. n : g[k] = f[k]
    BY <1>0
  <2>3. g = [k \in 0 .. n + 1 |-> g[k]]
    OBVIOUS
  <2> HIDE DEF g
  <2>4. f[0] = s.ic[1] /\ \A k \in 0 .. n - 1 : f[k + 1] = f[k] + input[k + 1] * s.ic[k + 2]
    BY <2>1 DEF AddedUp
  <2>5. ASSUME NEW k \in 0 .. n PROVE g[k + 1] = g[k] + input[k + 1] * s.ic[k + 2]
    <3>1. CASE k = n
      BY <2>2, <3>1, <1>0
    <3>2. CASE k # n
      <4>1. k \in 0 .. n - 1 /\ k + 1 \in 0 .. n
        BY <3>2, <1>0
      <4>2. g[k + 1] = f[k + 1] /\ g[k] = f[k]
        BY <2>2, <4>1
      <4>3. f[k + 1] = f[k] + input[k + 1] * s.ic[k + 2]
        BY <2>4, <4>1
      <4> QED BY <4>2, <4>3, Zenon
    <3> QED BY <3>1, <3>2
  <2>6. g[0] = s.ic[1]
    BY <2>2, <2>4, <1>0
  <2>7. (n + 1) - 1 = n
    BY <1>0
  <2>8. AddedUp(g, n + 1, s, input)
    BY <2>5, <2>6, <2>7 DEF AddedUp
  <2>9. Upto(g, n + 1)
    BY <2>3, <2>8
  <2>10. n + 1 \in 0 .. N
    BY <1>0
  <2> HIDE DEF Upto
  <2> QED BY <2>9, <2>10
<1>3. N \in S
  <2>1. \A n \in 0 .. N : n \in S
    <3> HIDE DEF S
    <3> QED BY <1>0, <1>1, <1>2, UpTo
  <2> HIDE DEF S
  <2> QED BY <1>0, <2>1
<1>4. PICK g : Upto(g, N)
  BY <1>3
<1> DEFINE Steps(f) == f = [k \in 0 .. N |-> IF k = 0 THEN s.ic[1]
                                             ELSE f[k - 1] + input[k] * s.ic[k + 1]]
           v == CHOOSE f : Steps(f)
<1>5. Steps(g)
  <2>0. g[0] = s.ic[1] /\ \A k \in 0 .. N - 1 : g[k + 1] = g[k] + input[k + 1] * s.ic[k + 2]
    BY <1>4 DEF AddedUp
  <2>1. \A k \in 0 .. N : g[k] = IF k = 0 THEN s.ic[1] ELSE g[k - 1] + input[k] * s.ic[k + 1]
    <3> SUFFICES ASSUME NEW k \in 0 .. N, k # 0 PROVE g[k] = g[k - 1] + input[k] * s.ic[k + 1]
      BY <2>0
    <3>1. k - 1 \in 0 .. N - 1 /\ (k - 1) + 1 = k /\ (k - 1) + 2 = k + 1
      BY <1>0
    <3>2. g[(k - 1) + 1] = g[k - 1] + input[(k - 1) + 1] * s.ic[(k - 1) + 2]
      BY <2>0, <3>1
    <3> QED BY <3>1, <3>2
  <2>2. g = [k \in 0 .. N |-> g[k]]
    BY <1>4
  <2> HIDE DEF Upto
  <2> QED BY <2>1, <2>2
<1>6. Steps(v)
  <2> HIDE DEF Steps
  <2> QED BY <1>5, Zenon
<1>7. InputPoint(s, input) = v[N] % Q
  BY DEF InputPoint, N
<1> HIDE DEF v
<1>8. v[0] = s.ic[1]
  BY <1>0, <1>6
<1>9. ASSUME NEW k \in 0 .. N - 1 PROVE v[k + 1] = v[k] + input[k + 1] * s.ic[k + 2]
  <2>1. k + 1 \in 0 .. N /\ (k + 1) - 1 = k /\ k + 1 # 0 /\ (k + 1) + 1 = k + 2
    BY <1>0
  <2>2. v[k + 1] = v[(k + 1) - 1] + input[k + 1] * s.ic[(k + 1) + 1]
    BY <1>6, <2>1
  <2> QED BY <2>1, <2>2
<1>10. SumsUp(v, s, input)
  BY <1>8, <1>9 DEF SumsUp, N
<1> QED BY <1>7, <1>10 DEF N

-----------------------------------------------------------------------------
(* Each step finds out what it should                                      *)

LEMMA KeyStays ==
  ASSUME KeyGiven, pc \in Inside, pc' \in Inside, UNCHANGED <<ic_flat, ic_ready, arg, vk>>
  PROVE  KeyGiven'
BY DEF KeyGiven, Inside, Calling, Places

LEMMA BytesStay ==
  ASSUME NEW o, UNCHANGED <<arg, vk>>
  PROVE  Bytes(o)' = Bytes(o)
BY DEF Bytes

LEMMA InitAnswers == Init => Answers
<1> SUFFICES ASSUME Init PROVE Answers
  OBVIOUS
<1>1. pc = "idle" /\ ic_ready = FALSE /\ ret = -1 /\ CheckedAt(pc) = {}
  BY DEF Init, CheckedAt
<1> QED BY <1>1 DEF Answers, KeyGiven, DecodedSoFar, PreparedSoFar, Answered, Calling, Places

(* Where a call begins or has ended. *)
LEMMA NothingYet ==
  ASSUME KeyGiven', pc' \in {"idle", "wrapper", "lengths", "A"}, ret' = -1
  PROVE  Answers'
<1>1. CheckedAt(pc') = {}
  BY DEF CheckedAt
<1> QED BY <1>1 DEF Answers, DecodedSoFar, PreparedSoFar, Answered

LEMMA CallAnswers ==
  ASSUME Typed, Answers, NEW x \in Args, Call(x)
  PROVE  Answers'
<1>1. /\ arg' = x /\ vk' = RawKey(x.setup) /\ ret' = -1
      /\ pc' = IF x.fn = "groth16_verify" THEN "wrapper" ELSE "lengths"
      /\ UNCHANGED <<ic_flat, ic_ready>>
  BY DEF Call, Answers, Answered
<1>2. KeyGiven'
  BY <1>1 DEF Answers, KeyGiven
<1> QED BY <1>1, <1>2, NothingYet

LEMMA WrapperAnswers ==
  ASSUME Typed, Answers, groth16_verify
  PROVE  Answers'
<1>1. /\ pc = "wrapper" /\ pc' = "lengths"
      /\ ic_flat' = (IF ic_ready THEN ic_flat ELSE RawKey(Builtin).ic)
      /\ ic_ready' = TRUE /\ vk' = [vk EXCEPT !.ic = ic_flat']
      /\ UNCHANGED <<arg, ret>>
  BY DEF groth16_verify
<1>2. /\ ic_ready => ic_flat = RawKey(Builtin).ic
      /\ vk = RawKey(arg.setup) /\ arg.fn = "groth16_verify" /\ ret = -1
  BY <1>1 DEF Answers, KeyGiven, Answered
<1>3. ic_flat' = RawKey(Builtin).ic
  BY <1>1, <1>2
<1>4. arg \in Args
  BY <1>1 DEF Typed, CallTyped
<1>5. arg.setup = Builtin
  BY <1>2, <1>4, ArgFacts
<1>6. [RawKey(Builtin) EXCEPT !.ic = RawKey(Builtin).ic] = RawKey(Builtin)
  BY DEF RawKey
<1>7. vk' = RawKey(arg.setup)
  BY <1>1, <1>2, <1>3, <1>5, <1>6
<1>8. KeyGiven'
  BY <1>1, <1>3, <1>7 DEF KeyGiven
<1> QED BY <1>1, <1>2, <1>8, NothingYet

LEMMA LengthsAnswers ==
  ASSUME Typed, Answers, CheckLengths
  PROVE  Answers'
<1>1. pc = "lengths" /\ UNCHANGED <<ic_flat, ic_ready>> /\ ret = -1 /\ KeyGiven
  BY DEF CheckLengths, Answers, Answered
<1>2. CASE pc' = "idle" /\ DropLocals
  <2>1. KeyGiven' /\ ret' = -1
    BY <1>1, <1>2 DEF KeyGiven, DropLocals, Calling
  <2> QED BY <1>2, <2>1, NothingYet
<1>3. CASE pc' = "A" /\ UNCHANGED <<arg, vk, ret>> /\ arg.proof_ok
  <2>1. KeyGiven' /\ ret' = -1
    BY <1>1, <1>3 DEF KeyGiven
  <2> QED BY <1>3, <2>1, NothingYet
<1> QED BY <1>2, <1>3 DEF CheckLengths

(* An encoding of no point is what the verdict -1 is for.                  *)
LEMMA FailureIsVerdict ==
  ASSUME Typed, KeyGiven, pc \in Inside, pc' = "cleanup", ret' = -1,
         UNCHANGED <<ic_flat, ic_ready, arg, vk>>, Unreadable(arg)
  PROVE  Answers'
<1>1. KeyGiven'
  BY KeyStays DEF Inside, Calling, Places
<1>2. arg \in Args
  BY DEF Typed, CallTyped, Inside, Calling
<1>3. Verdict(arg.setup, arg.proof, arg.proof_ok, arg.input) = -1
  BY <1>2, VerdictIs
<1>4. CheckedAt(pc') = {}
  BY DEF CheckedAt
<1> QED BY <1>1, <1>3, <1>4 DEF Answers, DecodedSoFar, PreparedSoFar, Answered

LEMMA DecodeAnswers ==
  ASSUME Typed, Answers, NEW o \in {"A", "B", "C", "gamma", "delta"},
         NEW then \in {"B", "C", "gamma", "delta", "ab"},
         CheckedAt(then) = CheckedAt(o) \cup {o}, Decode(o, Bytes(o), then)
  PROVE  Answers'
<1>1. /\ pc = o /\ p' = [p EXCEPT ![o] = Bytes(o)]
      /\ pc' = IF OffCurve(Bytes(o)) THEN "cleanup" ELSE then
      /\ UNCHANGED <<ic_flat, ic_ready, arg, vk, cached_ab, product, i, ret, out>>
  BY DEF Decode
<1>2. pc \in Inside /\ pc' \in Inside /\ pc # "cleanup"
  BY <1>1 DEF Inside, Calling, Places, Main
<1>3. KeyGiven /\ DecodedSoFar /\ ret' = -1 /\ vk = RawKey(arg.setup)
  BY <1>1, <1>2 DEF Answers, Answered, KeyGiven, Inside, Calling
<1>4. CASE OffCurve(Bytes(o))
  <2>1. Bytes(o) = OFF
    BY <1>4 DEF OffCurve
  <2>2. Unreadable(arg)
    BY <1>3, <2>1 DEF Unreadable, Bytes
  <2> QED BY <1>1, <1>2, <1>3, <1>4, <2>2, FailureIsVerdict
<1>5. CASE ~ OffCurve(Bytes(o))
  <2>1. pc' = then
    BY <1>1, <1>5
  <2>2. KeyGiven'
    BY <1>1, <1>2, <1>3, KeyStays
  <2>3. \A c \in CheckedAt(pc') \ {"L"} : p'[c] = Bytes(c)'
    <3> SUFFICES ASSUME NEW c \in CheckedAt(pc') \ {"L"} PROVE p'[c] = Bytes(c)
      BY <1>1, BytesStay
    <3>1. o \in DOMAIN p /\ CheckedAt(o) \subseteq DOMAIN p
      <4>1. DOMAIN p = Points
        BY DEF Typed, PointsTyped
      <4>2. o \in Points /\ CheckedAt(o) \subseteq Points
        BY DEF Points, CheckedAt
      <4> QED BY <4>1, <4>2
    <3>2. CASE c = o
      BY <1>1, <3>1, <3>2
    <3>3. CASE c # o
      <4>1. c \in CheckedAt(pc) \ {"L"}
        BY <1>1, <2>1, <3>3
      <4>2. p[c] = Bytes(c)
        BY <1>3, <4>1 DEF DecodedSoFar
      <4> QED BY <1>1, <3>1, <3>3, <4>1, <4>2
    <3> QED BY <3>2, <3>3
  <2>4. pc' \notin {"L", "ic", "out", "pairing", "compare", "cleanup"}
    BY <2>1
  <2>5. DecodedSoFar'
    BY <2>3, <2>4 DEF DecodedSoFar
  <2> QED BY <1>3, <2>2, <2>4, <2>5 DEF Answers, PreparedSoFar, Answered
<1> QED BY <1>4, <1>5

LEMMA AllDecodesAnswer ==
  ASSUME Typed, Answers, DecodeA \/ DecodeB \/ DecodeC \/ DecodeGamma \/ DecodeDelta
  PROVE  Answers'
<1>1. /\ CheckedAt("B") = CheckedAt("A") \cup {"A"}
      /\ CheckedAt("C") = CheckedAt("B") \cup {"B"}
      /\ CheckedAt("gamma") = CheckedAt("C") \cup {"C"}
      /\ CheckedAt("delta") = CheckedAt("gamma") \cup {"gamma"}
      /\ CheckedAt("ab") = CheckedAt("delta") \cup {"delta"}
  BY DEF CheckedAt
<1>2. /\ Bytes("A") = arg.proof[1] /\ Bytes("B") = arg.proof[2] /\ Bytes("C") = arg.proof[3]
      /\ Bytes("gamma") = vk.neg_gamma /\ Bytes("delta") = vk.neg_delta
  BY DEF Bytes
<1>3. CASE DecodeA
  BY <1>1, <1>2, <1>3, DecodeAnswers DEF DecodeA
<1>4. CASE DecodeB
  BY <1>1, <1>2, <1>4, DecodeAnswers DEF DecodeB
<1>5. CASE DecodeC
  BY <1>1, <1>2, <1>5, DecodeAnswers DEF DecodeC
<1>6. CASE DecodeGamma
  BY <1>1, <1>2, <1>6, DecodeAnswers DEF DecodeGamma
<1>7. CASE DecodeDelta
  BY <1>1, <1>2, <1>7, DecodeAnswers DEF DecodeDelta
<1> QED BY <1>3, <1>4, <1>5, <1>6, <1>7

LEMMA GTAnswers ==
  ASSUME Typed, Answers, DecodeGT
  PROVE  Answers'
<1>1. /\ pc = "ab" /\ pc' = "L" /\ cached_ab' = vk.alpha_beta
      /\ UNCHANGED <<ic_flat, ic_ready, arg, vk, p, product, i, ret, out>>
  BY DEF DecodeGT
<1>2. KeyGiven'
  BY <1>1, KeyStays DEF Answers, Inside, Calling, Places, Main
<1>3. CheckedAt(pc') = CheckedAt(pc)
  BY <1>1 DEF CheckedAt
<1>4. DecodedSoFar'
  BY <1>1, <1>3, BytesStay DEF Answers, DecodedSoFar
<1> QED BY <1>1, <1>2, <1>4 DEF Answers, PreparedSoFar, Answered

(* What is known of the call while the inputs are added.                   *)
LEMMA Preparing ==
  ASSUME Typed, Answers, pc \in {"L", "ic", "out", "pairing", "compare"}
  PROVE  /\ arg \in Args /\ vk = RawKey(arg.setup) /\ arg.setup \in Setups /\ arg.proof_ok
         /\ num = Len(arg.input) /\ num \in Nat /\ Len(vk.ic) = num + 1
         /\ DOMAIN vk.ic = 1 .. num + 1 /\ Len(arg.setup.ic) = num + 1
         /\ \A k \in 1 .. num + 1 : vk.ic[k] \in Encoded
         /\ \A k \in 1 .. num : arg.input[k] \in Nat
         /\ ret = -1 /\ pc \in Inside
<1>1. pc \in Inside
  BY DEF Inside, Calling, Places, Main
<1>2. arg \in Args /\ vk = RawKey(arg.setup) /\ arg.proof_ok /\ ret = -1 /\ Len(arg.input) = num
  BY <1>1 DEF Typed, CallTyped, Answers, KeyGiven, Answered, Inside, Calling
<1>3. arg.setup \in Setups
  BY <1>2, ArgFacts
<1>4. DOMAIN vk.ic = 1 .. Len(arg.setup.ic) /\ Len(vk.ic) = Len(arg.setup.ic)
  BY <1>2, <1>3, KeyValues
<1>5. /\ num \in Nat /\ Len(vk.ic) \in Nat /\ num = Len(vk.ic) - 1
      /\ \A k \in 1 .. Len(vk.ic) : vk.ic[k] \in Encoded
      /\ \A k \in 1 .. num : arg.input[k] \in Nat
  BY <1>1, KeyPoints
<1>6. Len(vk.ic) = num + 1
  BY <1>5
<1> QED BY <1>1, <1>2, <1>3, <1>4, <1>5, <1>6

(* Steps of the tail keep what was decoded before it. *)
LEMMA TailKeeps ==
  ASSUME Typed, Answers, pc \in {"L", "ic", "out", "pairing", "compare"},
         pc' \in {"ic", "out", "pairing", "compare"},
         \A o \in {"A", "B", "C", "gamma", "delta"} : p'[o] = p[o],
         UNCHANGED <<ic_flat, ic_ready, arg, vk, cached_ab>>
  PROVE  KeyGiven' /\ DecodedSoFar'
<1>1. KeyGiven'
  BY KeyStays DEF Answers, Inside, Calling, Places, Main
<1>2. /\ CheckedAt(pc') \ {"L"} = {"A", "B", "C", "gamma", "delta"}
      /\ CheckedAt(pc) \ {"L"} = {"A", "B", "C", "gamma", "delta"}
  BY DEF CheckedAt, Points
<1>3. \A o \in {"A", "B", "C", "gamma", "delta"} : p[o] = Bytes(o)
  BY <1>2 DEF Answers, DecodedSoFar
<1>4. cached_ab' = vk'.alpha_beta
  BY DEF Answers, DecodedSoFar
<1>5. DecodedSoFar'
  BY <1>2, <1>3, <1>4, BytesStay DEF DecodedSoFar
<1> QED BY <1>1, <1>5

LEMMA IC0Answers ==
  ASSUME Typed, Answers, DecodeIC0
  PROVE  Answers'
<1>1. /\ pc = "L" /\ p' = [p EXCEPT !["L"] = vk.ic[1]] /\ i' = 0
      /\ pc' = IF OffCurve(vk.ic[1]) THEN "out" ELSE "ic"
      /\ UNCHANGED <<ic_flat, ic_ready, arg, vk, cached_ab, product, ret, out>>
  BY DEF DecodeIC0
<1>2. DOMAIN p = Points /\ "L" \in Points
  BY DEF Typed, PointsTyped, Points
<1>3. \A o \in {"A", "B", "C", "gamma", "delta"} : p'[o] = p[o]
  BY <1>1, <1>2 DEF Points
<1>4. KeyGiven' /\ DecodedSoFar'
  BY <1>1, <1>3, TailKeeps
<1>5. /\ vk = RawKey(arg.setup) /\ arg.setup \in Setups /\ num \in Nat
      /\ DOMAIN vk.ic = 1 .. num + 1 /\ Len(arg.setup.ic) = num + 1 /\ ret = -1
  BY <1>1, Preparing
<1>6. 1 \in DOMAIN vk.ic /\ 1 \in 1 .. Len(arg.setup.ic)
  BY <1>5
<1>7. CASE OffCurve(vk.ic[1])
  <2>1. pc' = "out" /\ vk'.ic[1] = OFF /\ 1 \in DOMAIN vk'.ic
    BY <1>1, <1>6, <1>7 DEF OffCurve
  <2> QED BY <1>1, <1>4, <1>5, <2>1 DEF Answers, PreparedSoFar, Answered
<1>8. CASE ~ OffCurve(vk.ic[1])
  <2>1. pc' = "ic" /\ vk.ic[1] # OFF
    BY <1>1, <1>8 DEF OffCurve
  <2>2. vk.ic[1] = arg.setup.ic[1] /\ arg.setup.ic[1] \in Group
    BY <1>5, <1>6, <2>1, KeyValues
  <2>3. p'["L"] = arg.setup.ic[1] % Q
    BY <1>1, <1>2, <2>2, OwnRemainder
  <2>4. \A f : SumsUp(f, arg.setup, arg.input) => f[0] = arg.setup.ic[1]
    BY DEF SumsUp
  <2>5. \A k \in 1 .. 0 + 1 : vk.ic[k] # OFF
    BY <2>1
  <2>6. Added(i)'
    BY <1>1, <2>3, <2>4, <2>5 DEF Added
  <2> QED BY <1>1, <1>4, <1>5, <2>1, <2>6 DEF Answers, PreparedSoFar, Answered
<1> QED BY <1>7, <1>8

(* The sum of the first inputs is a number. *)
LEMMA SumsAreInt ==
  ASSUME NEW s \in Setups, NEW input, NEW f, Len(input) \in Nat, Len(s.ic) = Len(input) + 1,
         \A k \in 1 .. Len(input) : input[k] \in Nat, SumsUp(f, s, input)
  PROVE  \A n \in 0 .. Len(input) : f[n] \in Int
<1> DEFINE N == Len(input)
           S == {n \in 0 .. N : f[n] \in Int}
<1>0. \A k \in 1 .. N + 1 : s.ic[k] \in Int
  BY KeyValues, GroupFacts
<1>a. N \in Nat /\ \A k \in 1 .. N : input[k] \in Nat
  OBVIOUS
<1>1. f[0] = s.ic[1] /\ \A k \in 0 .. N - 1 : f[k + 1] = f[k] + input[k + 1] * s.ic[k + 2]
  BY DEF SumsUp
<1> HIDE DEF N
<1>2. 0 \in S
  BY <1>0, <1>a, <1>1
<1>3. ASSUME NEW k \in 0 .. N - 1, k \in S PROVE k + 1 \in S
  <2>1. k + 1 \in 1 .. N /\ k + 2 \in 1 .. N + 1
    BY <1>a
  <2>2. input[k + 1] \in Int /\ s.ic[k + 2] \in Int /\ f[k] \in Int
    BY <1>0, <1>a, <1>3, <2>1
  <2>3. f[k] + input[k + 1] * s.ic[k + 2] \in Int
    BY <2>2
  <2> QED BY <1>a, <1>1, <2>1, <2>3
<1>4. \A n \in 0 .. N : n \in S
  <2> HIDE DEF S
  <2> QED BY <1>a, <1>2, <1>3, UpTo
<1> QED BY <1>4 DEF N

LEMMA AddInputAnswers ==
  ASSUME Typed, Answers, AddInput
  PROVE  Answers'
<1>1. /\ pc = "ic" /\ i < num
      /\ IF OffCurve(ICPoint(i))
         THEN pc' = "out" /\ UNCHANGED <<p, i>>
         ELSE /\ p' = [p EXCEPT !["L"] = (@ + arg.input[i + 1] * ICPoint(i)) % Q]
              /\ i' = i + 1 /\ pc' = "ic"
      /\ UNCHANGED <<ic_flat, ic_ready, arg, vk, cached_ab, product, ret, out>>
  BY DEF AddInput, NextInput
<1>2. DOMAIN p = Points /\ "L" \in Points /\ i \in Nat
  BY DEF Typed, PointsTyped, Points
<1>3. \A o \in {"A", "B", "C", "gamma", "delta"} : p'[o] = p[o]
  BY <1>1, <1>2 DEF Points
<1>4. KeyGiven' /\ DecodedSoFar'
  BY <1>1, <1>3, TailKeeps
<1>5. /\ vk = RawKey(arg.setup) /\ arg.setup \in Setups /\ num \in Nat /\ num = Len(arg.input)
      /\ DOMAIN vk.ic = 1 .. num + 1 /\ Len(arg.setup.ic) = num + 1 /\ ret = -1
      /\ \A k \in 1 .. num : arg.input[k] \in Nat
  BY <1>1, Preparing
<1>6. i + 2 \in DOMAIN vk.ic /\ i + 2 \in 1 .. Len(arg.setup.ic) /\ i + 1 \in 1 .. num /\ i \in 0 .. num - 1
      /\ i \in 0 .. num
  BY <1>1, <1>2, <1>5
<1>7. CASE OffCurve(ICPoint(i))
  <2>1. pc' = "out" /\ vk'.ic[i + 2] = OFF /\ i + 2 \in DOMAIN vk'.ic
    BY <1>1, <1>6, <1>7 DEF OffCurve, ICPoint
  <2> QED BY <1>1, <1>4, <1>5, <2>1 DEF Answers, PreparedSoFar, Answered
<1>8. CASE ~ OffCurve(ICPoint(i))
  <2>1. /\ pc' = "ic" /\ i' = i + 1 /\ vk.ic[i + 2] # OFF
        /\ p' = [p EXCEPT !["L"] = (@ + arg.input[i + 1] * vk.ic[i + 2]) % Q]
    BY <1>1, <1>8 DEF OffCurve, ICPoint
  <2>2. vk.ic[i + 2] = arg.setup.ic[i + 2] /\ arg.setup.ic[i + 2] \in Int
    BY <1>5, <1>6, <2>1, KeyValues, GroupFacts
  <2>3. p'["L"] = (p["L"] + arg.input[i + 1] * arg.setup.ic[i + 2]) % Q
    BY <1>2, <2>1, <2>2
  <2>4. Added(i)
    BY <1>1 DEF Answers, PreparedSoFar
  <2>5. ASSUME NEW f, SumsUp(f, arg.setup, arg.input) PROVE p'["L"] = f[i + 1] % Q
    <3>1. p["L"] = f[i] % Q
      BY <2>4, <2>5 DEF Added
    <3>2. f[i + 1] = f[i] + arg.input[i + 1] * arg.setup.ic[i + 2]
      BY <1>5, <1>6, <2>5 DEF SumsUp
    <3>3. f[i] \in Int
      BY <1>5, <1>6, <2>5, SumsAreInt
    <3> DEFINE c == arg.input[i + 1] * arg.setup.ic[i + 2]
    <3>4. c \in Int
      <4>1. arg.input[i + 1] \in Int
        BY <1>5, <1>6
      <4> QED BY <2>2, <4>1
    <3>5. p'["L"] = (p["L"] + c) % Q /\ f[i + 1] = f[i] + c
      BY <2>3, <3>2
    <3> HIDE DEF c
    <3> QED BY <3>1, <3>3, <3>4, <3>5, ReducedAtEach
  <2>6. \A k \in 1 .. (i + 1) + 1 : vk.ic[k] # OFF
    <3>1. \A k \in 1 .. i + 1 : vk.ic[k] # OFF
      BY <2>4 DEF Added
    <3>2. \A k \in 1 .. (i + 1) + 1 : k \in 1 .. i + 1 \/ k = i + 2
      BY <1>2
    <3> QED BY <2>1, <3>1, <3>2
  <2>7. Added(i)'
    BY <1>1, <2>1, <2>5, <2>6 DEF Added
  <2> QED BY <1>1, <1>4, <1>5, <2>1, <2>7 DEF Answers, PreparedSoFar, Answered
<1> QED BY <1>7, <1>8

LEMMA PreparedAnswers ==
  ASSUME Typed, Answers, Prepared
  PROVE  Answers'
<1>1. /\ pc = "ic" /\ i = num /\ pc' = "pairing"
      /\ UNCHANGED <<ic_flat, ic_ready, arg, vk, p, cached_ab, product, i, ret, out>>
  BY DEF Prepared
<1>2. KeyGiven' /\ DecodedSoFar'
  BY <1>1, TailKeeps
<1>3. Added(num)'
  <2>1. Added(i)
    BY <1>1 DEF Answers, PreparedSoFar
  <2>2. num' = num
    BY <1>1 DEF num
  <2> QED BY <1>1, <2>1, <2>2 DEF Added
<1>4. ret' = -1
  BY <1>1, Preparing
<1> QED BY <1>1, <1>2, <1>3, <1>4 DEF Answers, PreparedSoFar, Answered

LEMMA PrepareFailedAnswers ==
  ASSUME Typed, Answers, PrepareFailed
  PROVE  Answers'
<1>1. /\ pc = "out" /\ pc' = "cleanup"
      /\ UNCHANGED <<ic_flat, ic_ready, arg, vk, p, cached_ab, product, i, ret, out>>
  BY DEF PrepareFailed
<1>2. vk = RawKey(arg.setup) /\ ret' = -1 /\ pc \in Inside
  BY <1>1, Preparing
<1>3. Unreadable(arg)
  BY <1>1, <1>2 DEF Answers, PreparedSoFar, Unreadable
<1> QED BY <1>1, <1>2, <1>3, FailureIsVerdict DEF Answers

LEMMA PairingAnswers ==
  ASSUME Typed, Answers, Pairing
  PROVE  Answers'
<1>1. /\ pc = "pairing" /\ pc' = "compare" /\ product' = MultiPairing % Q
      /\ UNCHANGED <<ic_flat, ic_ready, arg, vk, p, cached_ab, i, ret, out>>
  BY DEF Pairing
<1>2. KeyGiven' /\ DecodedSoFar'
  BY <1>1, TailKeeps
<1>3. Added(num)'
  <2>1. Added(num)
    BY <1>1 DEF Answers, PreparedSoFar
  <2>2. num' = num
    BY <1>1 DEF num
  <2> QED BY <1>1, <2>1, <2>2 DEF Added
<1>4. ret' = -1
  BY <1>1, Preparing
<1>5. MultiPairing' = MultiPairing
  BY <1>1 DEF MultiPairing
<1> QED BY <1>1, <1>2, <1>3, <1>4, <1>5 DEF Answers, PreparedSoFar, Answered

(* The comparison decides the statement: the negated gamma and delta move  *)
(* their terms to the other side.                                          *)
LEMMA ComparisonDecides ==
  ASSUME Typed, Answers, pc = "compare"
  PROVE  /\ ~ Unreadable(arg)
         /\ product = cached_ab
              <=> Accepts(arg.setup, arg.proof[1], arg.proof[2], arg.proof[3], arg.input)
<1>1. /\ arg \in Args /\ vk = RawKey(arg.setup) /\ arg.setup \in Setups
      /\ num = Len(arg.input) /\ num \in Nat /\ DOMAIN vk.ic = 1 .. num + 1
      /\ Len(arg.setup.ic) = num + 1 /\ \A k \in 1 .. num : arg.input[k] \in Nat
  BY Preparing
<1>2. /\ p["A"] = arg.proof[1] /\ p["B"] = arg.proof[2] /\ p["C"] = arg.proof[3]
      /\ p["gamma"] = vk.neg_gamma /\ p["delta"] = vk.neg_delta
  <2>1. {"A", "B", "C", "gamma", "delta"} \subseteq CheckedAt(pc) \ {"L"}
    BY DEF CheckedAt, Points
  <2>2. \A o \in {"A", "B", "C", "gamma", "delta"} : p[o] = Bytes(o)
    BY <2>1 DEF Answers, DecodedSoFar
  <2> QED BY <2>2 DEF Bytes
<1>3. \A o \in Points : p[o] \in Int /\ p[o] # OFF
  <2>1. \A o \in Points : p[o] \in Group
    BY DEF Typed, PointsTyped, CheckedAt
  <2> QED BY <2>1, GroupFacts, QType
<1>4. Added(num)
  BY DEF Answers, PreparedSoFar
<1>5. ~ Unreadable(arg)
  <2>1. \A k \in DOMAIN vk.ic : vk.ic[k] # OFF
    BY <1>1, <1>4 DEF Added
  <2>2. /\ arg.proof[1] # OFF /\ arg.proof[2] # OFF /\ arg.proof[3] # OFF
        /\ vk.neg_gamma # OFF /\ vk.neg_delta # OFF
    BY <1>2, <1>3 DEF Points
  <2> QED BY <1>1, <2>1, <2>2 DEF Unreadable
<1>6. p["L"] = InputPoint(arg.setup, arg.input)
  <2>1. PICK f : SumsUp(f, arg.setup, arg.input)
                 /\ InputPoint(arg.setup, arg.input) = f[Len(arg.input)] % Q
    BY <1>1, InputPointAddsUp
  <2>2. p["L"] = f[num] % Q
    BY <1>4, <2>1 DEF Added
  <2> QED BY <1>1, <2>1, <2>2
<1> DEFINE s == arg.setup
           x == arg.proof[1] * arg.proof[2]
           y == s.alpha * s.beta
           l == p["L"]
           c == arg.proof[3]
<1>7. /\ p["gamma"] = Q - s.gamma /\ p["delta"] = Q - s.delta
      /\ vk.alpha_beta = y % Q
      /\ s.alpha \in Int /\ s.beta \in Int /\ s.gamma \in Int /\ s.delta \in Int
  BY <1>1, <1>2, <1>5, KeyValues DEF Unreadable
<1>8. x \in Int /\ y \in Int /\ l \in Int /\ c \in Int
  <2>1. p["A"] \in Int /\ p["B"] \in Int /\ p["C"] \in Int /\ p["L"] \in Int
    BY <1>3 DEF Points
  <2> QED BY <1>2, <1>7, <2>1
<1>9. MultiPairing = x + l * (Q - s.gamma) + c * (Q - s.delta)
  BY <1>2, <1>7 DEF MultiPairing
<1>10. Accepts(s, arg.proof[1], arg.proof[2], c, arg.input)
         <=> x % Q = (y + l * s.gamma + c * s.delta) % Q
  BY <1>6 DEF Accepts
<1>11. product = MultiPairing % Q /\ cached_ab = y % Q
  BY <1>7 DEF Answers, Answered, DecodedSoFar
<1>12. (x + l * (Q - s.gamma) + c * (Q - s.delta)) % Q = y % Q
         <=> x % Q = (y + l * s.gamma + c * s.delta) % Q
  <2> HIDE DEF x, y, l, c, s
  <2> QED BY <1>7, <1>8, MovedAcross
<1>13. product = cached_ab <=> Accepts(s, arg.proof[1], arg.proof[2], c, arg.input)
  <2> HIDE DEF x, y, l, c, s
  <2> QED BY <1>9, <1>10, <1>11, <1>12
<1> QED BY <1>5, <1>13

LEMMA CompareAnswers ==
  ASSUME Typed, Answers, Compare
  PROVE  Answers'
<1>1. /\ pc = "compare" /\ ret' = (IF product = cached_ab THEN 1 ELSE 0)
      /\ pc' = "cleanup"
      /\ UNCHANGED <<ic_flat, ic_ready, arg, vk, p, cached_ab, product, i, out>>
  BY DEF Compare
<1>2. KeyGiven'
  BY <1>1, KeyStays DEF Answers, Inside, Calling, Places
<1>3. CheckedAt(pc') = {}
  BY <1>1 DEF CheckedAt
<1>4. arg \in Args /\ arg.proof_ok /\ Len(arg.input) + 1 = Len(arg.setup.ic)
  BY <1>1, Preparing
<1>5. ret' = Verdict(arg.setup, arg.proof, arg.proof_ok, arg.input)
  BY <1>1, <1>4, ComparisonDecides, VerdictIs
<1> QED BY <1>1, <1>2, <1>3, <1>5 DEF Answers, DecodedSoFar, PreparedSoFar, Answered

LEMMA CleanupAnswers ==
  ASSUME Typed, Answers, Cleanup
  PROVE  Answers'
<1>1. pc = "cleanup" /\ pc' = "idle" /\ ret' = -1 /\ UNCHANGED <<ic_flat, ic_ready>>
  BY DEF Cleanup, DropLocals
<1>2. KeyGiven'
  BY <1>1 DEF Answers, KeyGiven, Calling
<1> QED BY <1>1, <1>2, NothingYet

LEMMA StepAnswers == Typed /\ Answers /\ [Next]_vars => Answers'
<1> SUFFICES ASSUME Typed, Answers, [Next]_vars PROVE Answers'
  OBVIOUS
<1>1. ASSUME NEW x \in Args, Call(x) PROVE Answers'
  BY <1>1, CallAnswers
<1>2. CASE groth16_verify
  BY <1>2, WrapperAnswers
<1>3. CASE CheckLengths
  BY <1>3, LengthsAnswers
<1>4. CASE DecodeA \/ DecodeB \/ DecodeC \/ DecodeGamma \/ DecodeDelta
  BY <1>4, AllDecodesAnswer
<1>5. CASE DecodeGT
  BY <1>5, GTAnswers
<1>6. CASE DecodeIC0
  BY <1>6, IC0Answers
<1>7. CASE AddInput
  BY <1>7, AddInputAnswers
<1>8. CASE Prepared
  BY <1>8, PreparedAnswers
<1>9. CASE PrepareFailed
  BY <1>9, PrepareFailedAnswers
<1>10. CASE Pairing
  BY <1>10, PairingAnswers
<1>11. CASE Compare
  BY <1>11, CompareAnswers
<1>12. CASE Cleanup
  BY <1>12, CleanupAnswers
<1>13. CASE UNCHANGED vars
  BY <1>13 DEF vars, Answers, KeyGiven, DecodedSoFar, PreparedSoFar, Answered, Added, num,
               MultiPairing, Bytes
<1> QED BY <1>1, <1>2, <1>3, <1>4, <1>5, <1>6, <1>7, <1>8, <1>9, <1>10, <1>11, <1>12, <1>13
        DEF Next, Run

-----------------------------------------------------------------------------
(* The refinement: a call begins or returns its verdict, or nothing the    *)
(* caller sees happens.                                                    *)

LEMMA StepAsPureCall ==
  Typed /\ Answers /\ [Next]_vars => [Abstract!Next]_(Abstract!vars)
<1> SUFFICES ASSUME Typed, Answers, [Next]_vars PROVE [Abstract!Next]_(Abstract!vars)
  OBVIOUS
<1> DEFINE returns == arg # NoArg /\ out' = VerdictTable[arg] /\ arg' = NoArg
<1>a. returns => Abstract!Next
  BY DEF Abstract!Next, Abstract!Return
<1>b. UNCHANGED <<arg, out>> => [Abstract!Next]_(Abstract!vars)
  BY DEF Abstract!vars
<1>c. \A a \in Args : VerdictTable[a] = Verdict(a.setup, a.proof, a.proof_ok, a.input)
  BY DEF VerdictTable
<1>d. pc # "idle" => arg \in Args /\ arg # NoArg /\ vk = RawKey(arg.setup)
  BY NoArgAssumption DEF Typed, CallTyped, Answers, KeyGiven
<1>1. ASSUME NEW x \in Args, Call(x) PROVE Abstract!Next
  <2>1. arg = NoArg /\ arg' = x /\ out' = NoArg
    BY <1>1 DEF Call, Typed, CallTyped
  <2>2. x \in DOMAIN VerdictTable
    BY DEF VerdictTable
  <2> QED BY <2>1, <2>2 DEF Abstract!Next, Abstract!Call
<1>2. CASE CheckLengths
  <2>1. pc = "lengths" /\ arg \in Args /\ arg # NoArg /\ vk = RawKey(arg.setup)
    BY <1>2, <1>d DEF CheckLengths
  <2>2. CASE ~ arg.proof_ok \/ Len(arg.input) # num
    <3>1. arg' = NoArg /\ out' = -1
      BY <1>2, <2>2 DEF CheckLengths
    <3>2. Len(arg.input) \in Nat /\ arg.setup \in Setups
      BY <2>1, ArgFacts
    <3>3. Len(vk.ic) = Len(arg.setup.ic) /\ Len(arg.setup.ic) \in Nat
      BY <2>1, <3>2, KeyValues
    <3>4. ~ arg.proof_ok \/ Len(arg.input) + 1 # Len(arg.setup.ic)
      BY <2>2, <3>2, <3>3 DEF num
    <3>5. Verdict(arg.setup, arg.proof, arg.proof_ok, arg.input) = -1
      BY <2>1, <3>4, VerdictIs
    <3> QED BY <1>a, <1>c, <2>1, <3>1, <3>5
  <2>3. CASE ~ (~ arg.proof_ok \/ Len(arg.input) # num)
    BY <1>2, <1>b, <2>3 DEF CheckLengths
  <2> QED BY <2>2, <2>3
<1>3. CASE Cleanup
  <2>1. pc = "cleanup" /\ out' = ret /\ arg' = NoArg
    BY <1>3 DEF Cleanup
  <2>2. ret = Verdict(arg.setup, arg.proof, arg.proof_ok, arg.input) /\ arg \in Args /\ arg # NoArg
    BY <2>1, <1>d DEF Answers, Answered
  <2> QED BY <1>a, <1>c, <2>1, <2>2
<1>4. CASE DecodeA \/ DecodeB \/ DecodeC \/ DecodeGamma \/ DecodeDelta
  BY <1>4, <1>b DEF DecodeA, DecodeB, DecodeC, DecodeGamma, DecodeDelta, Decode
<1>5. CASE groth16_verify \/ DecodeGT \/ DecodeIC0 \/ AddInput \/ Prepared \/ PrepareFailed
            \/ Pairing \/ Compare
  BY <1>5, <1>b DEF groth16_verify, DecodeGT, DecodeIC0, AddInput, Prepared, PrepareFailed,
                    Pairing, Compare
<1>6. CASE UNCHANGED vars
  BY <1>6, <1>b DEF vars
<1> QED BY <1>1, <1>2, <1>3, <1>4, <1>5, <1>6 DEF Next, Run

(* The verifier is the function Verdict, for every group, key, proof and   *)
(* inputs: a call that returns returns 1 exactly for a proof of the        *)
(* equation, whatever was verified before and whichever entry was called.  *)
(* (ImplementsVerdict adds that every call does return, a matter of        *)
(* fairness.)                                                              *)
THEOREM VerdictIsGroth16 == Spec => Abstract!Spec
<1>1. Init => Typed /\ Answers /\ Abstract!Init
  BY InitTyped, InitAnswers DEF Init, Abstract!Init
<1>2. Typed /\ Answers /\ [Next]_vars => Typed' /\ Answers'
  BY StepTyped, StepAnswers
<1>3. Typed /\ Answers /\ [Next]_vars => [Abstract!Next]_(Abstract!vars)
  BY StepAsPureCall
<1> QED BY <1>1, <1>2, <1>3, PTL DEF Spec, Abstract!Spec

-----------------------------------------------------------------------------
(***************************************************************************)
(* The command lines: VerifierCli's four properties, for every set of      *)
(* files, every hash and every verifier that answers 1, 0 or -1.  The      *)
(* inductive invariant says, for each file that load_file is done with,    *)
(* what its result and *len promise (Delivered); for the one it is         *)
(* loading, what the buffer and the size are so far; and, once main has    *)
(* checked the lengths, that the verdict is one for the files' contents.   *)
(***************************************************************************)
Loading   == {"measure", "rewind", "alloc", "read", "close"}
Verifying == {"init", "verify", "print", "cleanup"}

(* What a buffer can hold. *)
Values == {NULL, Nothing} \cup {files[k].data : k \in DOMAIN files}

(* load_file returned b and *len = l for file k; some call failed, or not. *)
Delivered(fail, k, b, l) ==
  /\ b = NULL => fail \/ (Checked /\ files[k].len = 0)
  /\ b # NULL => /\ files[k] # Missing
                 /\ l = files[k].len \/ (~ Checked /\ l = 0 /\ fail)
                 /\ l # 0 => b = files[k].data
                 /\ Checked => l # 0

Started ==
  prog \in Programs /\ argc_ok \in BOOLEAN /\ files \in Starts(prog)

CliTyped ==
  /\ place \in {"usage", "open", "check", "exited"} \cup Loading \cup Verifying
  /\ nth \in 1 .. Len(files) + 1 /\ size \in Nat
  /\ handle \in BOOLEAN /\ rewound \in BOOLEAN /\ lib \in BOOLEAN /\ failed \in BOOLEAN
  /\ buf \in Values
  /\ bufs \in Seq(Values) /\ lens \in Seq(Nat)
  /\ Len(bufs) = nth - 1 /\ Len(lens) = nth - 1
  /\ r \in {-1, 0, 1} /\ printed \in {"", "VALID", "INVALID", "ERROR"}
  /\ exit \in {NULL, 0, 1, 2} /\ (exit # NULL <=> place = "exited")

Placed ==
  /\ place = "usage" => nth = 1
  /\ place \in {"open"} \cup Loading => nth <= Len(files)
  /\ place \in {"check"} \cup Verifying => nth = Len(files) + 1

Loader ==
  /\ place \in Loading => handle /\ files[nth] # Missing
  /\ place \notin Loading => ~ handle
  /\ place # "close" => buf = NULL
  /\ place \in {"rewind", "alloc", "read", "close"} =>
       size = files[nth].len \/ (~ Checked /\ size = 0 /\ failed)
  /\ place = "read" => (Checked => size # 0)
  /\ place = "close" => Delivered(failed, nth, buf, size)

AllDelivered == \A k \in 1 .. nth - 1 : Delivered(failed, k, bufs[k], lens[k])

Judged ==
  /\ place \in Verifying =>
       \A k \in DOMAIN files : bufs[k] # NULL /\ HasLength(prog, Roles(prog)[k], lens[k])
  /\ lib <=> place \in {"verify", "print", "cleanup"}
  /\ place \in {"print", "cleanup"} => r = Verify(Data[1], Data[2], PublicInput(prog, Data))
  /\ place \notin {"cleanup", "exited"} => printed = ""
  /\ place = "cleanup" =>
       printed = CASE r = 1 -> "VALID" [] r = 0 -> "INVALID" [] OTHER -> "ERROR"

CliInv ==
  Started /\ CliTyped /\ Placed /\ Loader /\ AllDelivered /\ Judged /\ ExitCodeTellsVerdict

-----------------------------------------------------------------------------
(* The files of a run are a sequence as long as the arguments. *)
LEMMA StartFacts ==
  ASSUME NEW pr \in Programs, NEW f \in Starts(pr)
  PROVE  /\ Len(f) \in Nat /\ Len(f) >= 3 /\ DOMAIN f = 1 .. Len(f)
         /\ Len(f) = IF pr = "clear_signing_cli" THEN 4 ELSE 3
         /\ \A k \in DOMAIN f : f[k] # Missing => f[k].len \in Nat /\ f[k].data # NULL
<1>1. PICK S : f \in [1 .. Len(Roles(pr)) -> S]
  BY DEF Starts
<1>2. Len(Roles(pr)) = IF pr = "clear_signing_cli" THEN 4 ELSE 3
  BY DEF Roles
<1>3. f \in Seq(S)
  BY <1>1, <1>2, SeqDef
<1>4. Len(f) = Len(Roles(pr))
  BY <1>1, <1>2, <1>3, LenProperties
<1>5. \A k \in DOMAIN f : f[k] # Missing => f[k].len \in Nat /\ f[k].data # NULL
  BY CliAssumption
<1> QED BY <1>1, <1>2, <1>4, <1>5

LEMMA RunFacts ==
  ASSUME Started
  PROVE  /\ Len(files) \in Nat /\ Len(files) >= 3 /\ DOMAIN files = 1 .. Len(files)
         /\ Len(files) = IF Checked THEN 4 ELSE 3
         /\ \A k \in DOMAIN files :
              files[k] # Missing => files[k].len \in Nat /\ files[k].data # NULL
BY StartFacts DEF Started, Checked

(* load_file returns b with *len = l, and leaves no file open. *)
LEMMA ReturnDelivers ==
  ASSUME CliInv, place \in {"open"} \cup Loading,
         NEW b \in Values, NEW l \in Nat, Return(b, l),
         UNCHANGED <<start, lib, r, printed, exit>>,
         handle' = FALSE, size' \in Nat, rewound' \in BOOLEAN,
         failed' \in BOOLEAN, failed => failed',
         Delivered(failed', nth, b, l)
  PROVE  CliInv'
<1>0. Started /\ CliTyped /\ Placed /\ Loader /\ AllDelivered /\ Judged
  BY DEF CliInv
<1>f. files' = files /\ prog' = prog /\ argc_ok' = argc_ok
  BY DEF start
<1>c. Checked' = Checked
  BY <1>f DEF Checked
<1>l. Len(files) \in Nat /\ Len(files') = Len(files)
  BY <1>0, <1>f, RunFacts
<1>n. nth \in Nat /\ nth >= 1 /\ nth <= Len(files)
  <2>1. nth \in 1 .. Len(files) + 1
    BY <1>0 DEF CliTyped
  <2>2. nth <= Len(files)
    BY <1>0 DEF Placed
  <2> QED BY <2>1, <2>2, <1>l
<1>1. /\ nth' = nth + 1 /\ buf' = NULL
      /\ place' = IF nth + 1 > Len(files) THEN "check" ELSE "open"
      /\ bufs' = Append(bufs, b) /\ lens' = Append(lens, l)
  BY DEF Return
<1>p. /\ place' \in {"open", "check"}
      /\ place' = "open" => nth' <= Len(files)
      /\ place' = "check" => nth' = Len(files) + 1
  BY <1>1, <1>l, <1>n
<1>2. Values' = Values
  BY <1>f DEF Values
<1>3. Started'
  BY <1>0, <1>f DEF Started
<1>b. bufs \in Seq(Values) /\ lens \in Seq(Nat) /\ Len(bufs) = nth - 1 /\ Len(lens) = nth - 1
  BY <1>0 DEF CliTyped
<1>4. /\ bufs' \in Seq(Values) /\ Len(bufs') = nth
      /\ lens' \in Seq(Nat) /\ Len(lens') = nth
  BY <1>1, <1>b, <1>n, AppendProperties
<1>5. CliTyped'
  <2>1. place' \in {"usage", "open", "check", "exited"} \cup Loading \cup Verifying
    BY <1>p
  <2>2. nth' \in 1 .. Len(files') + 1 /\ Len(bufs') = nth' - 1 /\ Len(lens') = nth' - 1
    BY <1>1, <1>l, <1>n, <1>4
  <2>3. handle' \in BOOLEAN /\ lib' \in BOOLEAN
    BY <1>0 DEF CliTyped
  <2>4. buf' \in Values
    BY <1>1 DEF Values
  <2>5. /\ r' \in {-1, 0, 1} /\ printed' \in {"", "VALID", "INVALID", "ERROR"}
        /\ exit' \in {NULL, 0, 1, 2} /\ exit' = NULL
    BY <1>0 DEF CliTyped, Loading
  <2>6. place' # "exited"
    BY <1>p
  <2> QED BY <1>2, <1>4, <2>1, <2>2, <2>3, <2>4, <2>5, <2>6 DEF CliTyped
<1>6. Placed'
  BY <1>p, <1>f DEF Placed, Loading, Verifying
<1>7. Loader'
  BY <1>1, <1>p DEF Loader, Loading
<1>8. AllDelivered'
  <2> SUFFICES ASSUME NEW k \in 1 .. nth
               PROVE  Delivered(failed, k, bufs[k], lens[k])'
    <3>1. nth' - 1 = nth
      BY <1>1, <1>n
    <3> QED BY <3>1 DEF AllDelivered, Delivered
  <2>1. CASE k = nth
    <3>1. bufs'[k] = b /\ lens'[k] = l
      BY <2>1, <1>1, <1>b, <1>n, AppendProperties
    <3> QED BY <3>1, <2>1, <1>f, <1>c DEF Delivered
  <2>2. CASE k # nth
    <3>1. k \in 1 .. nth - 1 /\ k \in 1 .. Len(bufs) /\ k \in 1 .. Len(lens)
      BY <2>2, <1>b, <1>n
    <3>2. bufs'[k] = bufs[k] /\ lens'[k] = lens[k]
      BY <3>1, <1>1, <1>b, AppendProperties
    <3>3. Delivered(failed, k, bufs[k], lens[k])
      BY <3>1, <1>0 DEF AllDelivered
    <3> QED BY <3>2, <3>3, <1>f, <1>c DEF Delivered
  <2> QED BY <2>1, <2>2
<1>9. Judged'
  <2>1. place' \notin Verifying /\ place' \notin {"print", "cleanup", "verify", "exited"}
    BY <1>p DEF Verifying
  <2>2. ~ lib /\ printed = ""
    BY <1>0 DEF Judged, Loading
  <2> QED BY <2>1, <2>2 DEF Judged
<1>10. ExitCodeTellsVerdict'
  BY <1>p DEF ExitCodeTellsVerdict
<1> QED BY <1>3, <1>5, <1>6, <1>7, <1>8, <1>9, <1>10 DEF CliInv

(* On the way between its returns, load_file leaves main's state alone. *)
LEMMA LoaderGoesOn ==
  ASSUME CliInv, place \in {"open"} \cup Loading, place' \in Loading,
         UNCHANGED <<start, nth, loaded, lib, r, printed, exit>>,
         Loader', size' \in Nat, rewound' \in BOOLEAN, handle' \in BOOLEAN, buf' \in Values,
         failed' \in BOOLEAN, failed => failed'
  PROVE  CliInv'
<1>1. Values' = Values /\ Started'
  BY DEF CliInv, Started, Values, start
<1>2. CliTyped'
  BY <1>1 DEF CliInv, CliTyped, start, loaded, Loading
<1>3. Placed'
  BY DEF CliInv, Placed, start, Loading, Verifying
<1>4. AllDelivered'
  BY DEF CliInv, AllDelivered, Delivered, start, loaded, Checked
<1>5. Judged'
  BY DEF CliInv, Judged, Loading, Verifying
<1>6. ExitCodeTellsVerdict'
  BY DEF ExitCodeTellsVerdict, Loading
<1> QED BY <1>1, <1>2, <1>3, <1>4, <1>5, <1>6 DEF CliInv

(* The file that is being loaded. *)
LEMMA FileBeingLoaded ==
  ASSUME CliInv, place \in {"open"} \cup Loading
  PROVE  /\ nth \in DOMAIN files
         /\ files[nth] # Missing =>
              files[nth].len \in Nat /\ files[nth].data # NULL /\ files[nth].data \in Values
<1>0. Started /\ CliTyped /\ Placed
  BY DEF CliInv
<1>1. nth \in 1 .. Len(files) + 1
  BY <1>0 DEF CliTyped
<1>2. nth <= Len(files)
  BY <1>0 DEF Placed
<1>3. nth \in DOMAIN files
  BY <1>0, <1>1, <1>2, RunFacts
<1> QED BY <1>0, <1>3, RunFacts DEF Values

(* Once the lengths are checked, all that was loaded is all of the files. *)
LEMMA WholeFiles ==
  ASSUME CliInv, place \in Verifying
  PROVE  \A k \in DOMAIN files :
           files[k] # Missing /\ bufs[k] = files[k].data /\ lens[k] = files[k].len
<1> SUFFICES ASSUME NEW k \in DOMAIN files
             PROVE  files[k] # Missing /\ bufs[k] = files[k].data /\ lens[k] = files[k].len
  OBVIOUS
<1>1. /\ prog \in Programs /\ k \in 1 .. Len(files) /\ k \in 1 .. nth - 1
      /\ Len(files) = IF Checked THEN 4 ELSE 3
  BY RunFacts DEF CliInv, Started, Placed, Checked
<1>2. /\ Delivered(failed, k, bufs[k], lens[k]) /\ bufs[k] # NULL
      /\ HasLength(prog, Roles(prog)[k], lens[k])
  BY <1>1 DEF CliInv, AllDelivered, Judged
<1>3. ~ Checked => lens[k] # 0
  BY <1>1, <1>2 DEF Checked, HasLength, Roles, VK_RAW_LEN, Programs
<1> QED BY <1>2, <1>3 DEF Delivered

-----------------------------------------------------------------------------
LEMMA NullFacts == NULL # Nothing /\ NULL # 0 /\ NULL # 1 /\ NULL # 2
<1>1. NULL # Nothing /\ NULL \notin 0 .. 2
  BY CliAssumption
<1> QED BY <1>1

(* A program that gave up before verifying. *)
Excused ==
  \/ ~ argc_ok \/ failed
  \/ \E k \in DOMAIN files :
       \/ ~ HasLength(prog, Roles(prog)[k], files[k].len)
       \/ Checked /\ files[k].len = 0

LEMMA TwoIsAlone == \A e : e = 2 => e # 0 /\ e # 1
OBVIOUS

LEMMA GaveUp ==
  ASSUME exit' = 2, printed' = "", Excused'
  PROVE  ExitCodeTellsVerdict'
<1>1. exit' # 0 /\ exit' # 1
  BY TwoIsAlone, Zenon
<1>2. printed' # "VALID"
  OBVIOUS
<1> QED BY <1>1, <1>2, Zenon DEF ExitCodeTellsVerdict, Excused

(* Nothing is loaded yet, and nothing failed. *)
LEMMA CliInitHolds == CliInit => CliInv
<1> SUFFICES ASSUME CliInit PROVE CliInv
  OBVIOUS
<1>1. Started
  BY DEF CliInit, Started
<1>n. nth = 1
  BY DEF CliInit
<1>b. bufs = <<>> /\ lens = <<>>
  BY DEF CliInit
<1>s. /\ place = "usage" /\ exit = NULL /\ buf = NULL
      /\ size = 0 /\ r = -1 /\ printed = ""
  BY DEF CliInit
<1>t. handle = FALSE /\ rewound = TRUE /\ lib = FALSE /\ failed = FALSE
  BY DEF CliInit
<1>2. CliTyped
  <2>1. nth \in 1 .. Len(files) + 1
    <3>1. Len(files) \in Nat
      BY <1>1, RunFacts
    <3> QED BY <1>n, <3>1
  <2>2. bufs \in Seq(Values) /\ lens \in Seq(Nat) /\ Len(bufs) = nth - 1 /\ Len(lens) = nth - 1
    BY <1>n, <1>b, EmptySeq
  <2>3. buf \in Values
    BY <1>s DEF Values
  <2> QED BY <1>n, <1>s, <1>t, <2>1, <2>2, <2>3 DEF CliTyped
<1>3. Placed /\ Loader
  BY <1>n, <1>s, <1>t DEF Placed, Loader, Loading, Verifying
<1>4. AllDelivered
  <2>1. 1 .. nth - 1 = {}
    BY <1>n
  <2> QED BY <2>1 DEF AllDelivered
<1>5. Judged /\ ExitCodeTellsVerdict
  BY <1>s, <1>t DEF Judged, Verifying, ExitCodeTellsVerdict
<1> QED BY <1>1, <1>2, <1>3, <1>4, <1>5 DEF CliInv

(* What a return without a buffer promises: some call failed. *)
LEMMA GivesUp ==
  ASSUME CliInv, place \in {"open"} \cup Loading, Return(NULL, 0), failed' = TRUE,
         UNCHANGED <<start, lib, r, printed, exit>>, UNCHANGED <<size, rewound>>,
         handle' = FALSE
  PROVE  CliInv'
<1>1. NULL \in Values
  BY DEF Values
<1>2. size' \in Nat /\ rewound' \in BOOLEAN
  BY DEF CliInv, CliTyped
<1>3. Delivered(failed', nth, NULL, 0)
  BY DEF Delivered
<1> QED BY <1>1, <1>2, <1>3, ReturnDelivers

LEMMA OpenKeeps == ASSUME CliInv, Open PROVE CliInv'
<1>0. place = "open" /\ UNCHANGED <<start, size, rewound, lib, r, printed, exit>>
  BY DEF Open
<1>1. CliTyped /\ Loader /\ ~ handle
  BY <1>0 DEF CliInv, Loader, Loading
<1>2. CASE files[nth] # Missing /\ handle' = TRUE /\ place' = "measure"
           /\ UNCHANGED <<nth, loaded, buf, failed>>
  <2>1. Loader'
    BY <1>0, <1>1, <1>2 DEF Loader, Loading, start
  <2>2. /\ size' \in Nat /\ rewound' \in BOOLEAN /\ handle' \in BOOLEAN /\ buf' \in Values
        /\ failed' \in BOOLEAN
    BY <1>0, <1>1, <1>2 DEF CliTyped
  <2>3. place' \in Loading
    BY <1>2 DEF Loading
  <2> QED BY <1>0, <1>2, <2>1, <2>2, <2>3, LoaderGoesOn
<1>3. CASE Return(NULL, 0) /\ failed' = TRUE /\ UNCHANGED handle
  <2>1. handle' = FALSE
    BY <1>1, <1>3 DEF CliTyped
  <2> QED BY <1>0, <1>3, <2>1, GivesUp
<1> QED BY <1>2, <1>3 DEF Open

LEMMA MeasureKeeps == ASSUME CliInv, Measure PROVE CliInv'
<1>0. place = "measure" /\ UNCHANGED <<start, lib, r, printed, exit>> /\ place \in Loading
  BY DEF Measure, Loading
<1>1. CliTyped /\ Loader
  BY DEF CliInv
<1>2. PICK s \in {files[nth].len, -1} \cup (IF Checked THEN {} ELSE {0}) :
        IF GoodSize(s)
        THEN /\ size' = s /\ place' = "rewind" /\ failed' = (failed \/ s # files[nth].len)
             /\ UNCHANGED <<nth, handle, rewound, buf, loaded>>
        ELSE Abandon
  BY DEF Measure
<1>3. CASE GoodSize(s)
  <2>0. /\ size' = s /\ place' = "rewind" /\ failed' = (failed \/ s # files[nth].len)
        /\ UNCHANGED <<nth, handle, rewound, buf, loaded>>
    BY <1>2, <1>3
  <2>1. handle /\ files[nth] # Missing /\ buf = NULL
    BY <1>0, <1>1 DEF Loader
  <2>2. files[nth].len \in Nat
    BY <1>0, <2>1, FileBeingLoaded
  <2>3. s \in Nat /\ (s = files[nth].len \/ (~ Checked /\ s = 0))
    BY <1>2, <1>3, <2>2 DEF GoodSize
  <2>4. Loader'
    BY <1>0, <2>0, <2>1, <2>3 DEF Loader, Loading, start, Checked
  <2>5. rewound' \in BOOLEAN /\ handle' \in BOOLEAN /\ buf' \in Values
    BY <1>1, <2>0 DEF CliTyped
  <2>6. failed' \in BOOLEAN /\ (failed => failed')
    BY <1>1, <2>0 DEF CliTyped
  <2>7. place' \in Loading
    BY <2>0 DEF Loading
  <2> QED BY <1>0, <2>0, <2>3, <2>4, <2>5, <2>6, <2>7, LoaderGoesOn
<1>4. CASE ~ GoodSize(s)
  BY <1>0, <1>2, <1>4, GivesUp DEF Abandon, Closed
<1> QED BY <1>3, <1>4

LEMMA RewindKeeps == ASSUME CliInv, Rewind PROVE CliInv'
<1>0. place = "rewind" /\ UNCHANGED <<start, lib, r, printed, exit>> /\ place \in Loading
  BY DEF Rewind, Loading
<1>1. CliTyped /\ Loader
  BY DEF CliInv
<1>2. CASE Checked /\ Abandon
  BY <1>0, <1>2, GivesUp DEF Abandon, Closed
<1>3. CASE /\ rewound' \in BOOLEAN /\ place' = "alloc" /\ failed' \in BOOLEAN
           /\ (failed => failed') /\ UNCHANGED <<nth, handle, size, buf, loaded>>
  <2>1. Loader'
    BY <1>0, <1>1, <1>3 DEF Loader, Loading, start, Checked
  <2>2. size' \in Nat /\ handle' \in BOOLEAN /\ buf' \in Values
    BY <1>1, <1>3 DEF CliTyped
  <2>3. place' \in Loading
    BY <1>3 DEF Loading
  <2> QED BY <1>0, <1>3, <2>1, <2>2, <2>3, LoaderGoesOn
<1>4. failed \in BOOLEAN
  BY <1>1 DEF CliTyped
<1>5. CASE rewound' = TRUE /\ place' = "alloc" /\ UNCHANGED <<nth, handle, size, buf, loaded, failed>>
  BY <1>3, <1>4, <1>5, Zenon
<1>6. CASE /\ rewound' = (size = 0) /\ failed' = TRUE /\ place' = "alloc"
           /\ UNCHANGED <<nth, handle, size, buf, loaded>>
  <2>1. rewound' \in BOOLEAN
    BY <1>6
  <2> QED BY <1>3, <1>6, <2>1, Zenon
<1> QED BY <1>2, <1>5, <1>6 DEF Rewind

LEMMA AllocKeeps == ASSUME CliInv, Alloc PROVE CliInv'
<1>0. place = "alloc" /\ UNCHANGED <<start, lib, r, printed, exit>> /\ place \in Loading
  BY DEF Alloc, Loading
<1>1. CliTyped /\ Loader
  BY DEF CliInv
<1>2. CASE Checked /\ size > 0 /\ Abandon
  BY <1>0, <1>2, GivesUp DEF Abandon, Closed
<1>3. CASE /\ UNCHANGED <<nth, loader, loaded>> /\ failed' \in BOOLEAN /\ (failed => failed')
           /\ \/ Checked /\ size = 0 /\ place' = "close"
              \/ ~ (Checked /\ size = 0) /\ place' = "read"
              \/ ~ Checked /\ place' = "close" /\ failed' = TRUE
  <2>1. /\ handle' = handle /\ size' = size /\ rewound' = rewound /\ buf' = buf
    BY <1>3 DEF loader
  <2>2. handle /\ files[nth] # Missing /\ buf = NULL
    BY <1>0, <1>1 DEF Loader
  <2>3. Loader'
    BY <1>0, <1>1, <1>3, <2>1, <2>2 DEF Loader, Loading, start, Checked, Delivered
  <2>4. size' \in Nat /\ handle' \in BOOLEAN /\ buf' \in Values /\ rewound' \in BOOLEAN
    BY <1>1, <2>1 DEF CliTyped
  <2>5. place' \in Loading
    BY <1>3 DEF Loading
  <2> QED BY <1>0, <1>3, <2>3, <2>4, <2>5, LoaderGoesOn
<1>4. failed \in BOOLEAN
  BY <1>1 DEF CliTyped
<1>5. CASE /\ UNCHANGED <<nth, loader, loaded, failed>>
           /\ \/ Checked /\ size = 0 /\ place' = "close"
              \/ ~ (Checked /\ size = 0) /\ place' = "read"
  BY <1>3, <1>4, <1>5, Zenon
<1>6. CASE ~ Checked /\ place' = "close" /\ failed' = TRUE /\ UNCHANGED <<nth, loader, loaded>>
  BY <1>3, <1>6, Zenon
<1> QED BY <1>2, <1>5, <1>6, Zenon DEF Alloc

LEMMA ReadKeeps == ASSUME CliInv, Read PROVE CliInv'
<1>0. /\ place = "read" /\ UNCHANGED <<start, lib, r, printed, exit>> /\ place \in Loading
      /\ place' = "close" /\ UNCHANGED <<nth, handle, size, rewound, loaded>>
  BY DEF Read, Loading
<1>1. CliTyped /\ Loader
  BY DEF CliInv
<1>2. handle /\ files[nth] # Missing
  BY <1>0, <1>1 DEF Loader
<1>3. files[nth].len \in Nat /\ files[nth].data # NULL /\ files[nth].data \in Values
  BY <1>0, <1>2, FileBeingLoaded
<1>4. size = files[nth].len \/ (~ Checked /\ size = 0 /\ failed)
  BY <1>0, <1>1 DEF Loader
<1>5. Checked => size # 0
  BY <1>0, <1>1 DEF Loader
<1>6. \/ size = 0 /\ buf' = Nothing /\ failed' = failed
      \/ size > 0 /\ buf' = files[nth].data /\ failed' = failed
      \/ buf' = NULL /\ failed' = TRUE
  BY DEF Read, DropShort
<1>7. Delivered(failed', nth, buf', size)
  BY <1>2, <1>3, <1>4, <1>5, <1>6, CliAssumption DEF Delivered
<1>8. Loader'
  BY <1>0, <1>2, <1>4, <1>6, <1>7 DEF Loader, Loading, start, Checked, Delivered
<1>9. /\ size' \in Nat /\ handle' \in BOOLEAN /\ rewound' \in BOOLEAN
  BY <1>0, <1>1 DEF CliTyped
<1>10. buf' \in Values
  BY <1>3, <1>6 DEF Values
<1>11. failed' \in BOOLEAN /\ (failed => failed')
  BY <1>1, <1>6 DEF CliTyped
<1>12. place' \in Loading
  BY <1>0 DEF Loading
<1> QED BY <1>0, <1>8, <1>9, <1>10, <1>11, <1>12, LoaderGoesOn

LEMMA CloseKeeps == ASSUME CliInv, Close PROVE CliInv'
<1>0. /\ place = "close" /\ UNCHANGED <<start, size, rewound, lib, r, printed, exit, failed>>
      /\ place \in Loading /\ handle' = FALSE /\ Return(buf, size)
  BY DEF Close, Loading
<1>1. CliTyped /\ Loader
  BY DEF CliInv
<1>2. Delivered(failed', nth, buf, size)
  BY <1>0, <1>1 DEF Loader, Delivered
<1>3. buf \in Values /\ size \in Nat /\ rewound \in BOOLEAN /\ failed \in BOOLEAN
  BY <1>1 DEF CliTyped
<1> QED BY <1>0, <1>2, <1>3, ReturnDelivers

-----------------------------------------------------------------------------
(* main, before and after loading. *)
LEMMA MainGoesOn ==
  ASSUME CliInv, place \notin {"open"} \cup Loading, place' \notin Loading,
         UNCHANGED <<start, nth, loader, loaded>>,
         failed' \in BOOLEAN, failed => failed',
         place' \in {"open", "exited"} \cup Verifying, Placed',
         lib' \in BOOLEAN, r' \in {-1, 0, 1},
         printed' \in {"", "VALID", "INVALID", "ERROR"},
         exit' \in {NULL, 0, 1, 2}, exit' # NULL <=> place' = "exited",
         Judged', ExitCodeTellsVerdict'
  PROVE  CliInv'
<1>0. Started /\ CliTyped /\ Loader /\ AllDelivered
  BY DEF CliInv
<1>1. /\ prog' = prog /\ argc_ok' = argc_ok /\ files' = files /\ nth' = nth
      /\ handle' = handle /\ size' = size /\ rewound' = rewound /\ buf' = buf
      /\ bufs' = bufs /\ lens' = lens
  BY DEF start, loader, loaded
<1>2. Started' /\ Values' = Values /\ Checked' = Checked
  BY <1>0, <1>1 DEF Started, Values, Checked
<1>3. CliTyped'
  BY <1>0, <1>1, <1>2 DEF CliTyped
<1>4. Loader'
  BY <1>0, <1>1 DEF Loader, Loading
<1>5. AllDelivered'
  BY <1>0, <1>1, <1>2 DEF AllDelivered, Delivered
<1> QED BY <1>2, <1>3, <1>4, <1>5 DEF CliInv

LEMMA UsageKeeps == ASSUME CliInv, Usage PROVE CliInv'
<1>0. /\ place = "usage" /\ UNCHANGED <<start, nth, loader, loaded, lib, r, printed, failed>>
      /\ IF argc_ok THEN place' = "open" /\ exit' = exit ELSE place' = "exited" /\ exit' = 2
  BY DEF Usage, Exit
<1>1. Started /\ CliTyped /\ Placed /\ Judged
  BY DEF CliInv
<1>n. nth = 1
  BY <1>0, <1>1 DEF Placed
<1>2. printed = "" /\ ~ lib /\ exit = NULL
  BY <1>0, <1>1 DEF Judged, CliTyped
<1>l. nth <= Len(files)
  <2>1. Len(files) \in Nat /\ Len(files) >= 3
    BY <1>1, RunFacts
  <2> QED BY <1>n, <2>1
<1>f. argc_ok' = argc_ok /\ files' = files /\ printed' = "" /\ lib' = lib /\ nth' = nth
  BY <1>0, <1>2 DEF start
<1>3. Placed'
  BY <1>0, <1>2, <1>l, <1>f DEF Placed, Loading, Verifying
<1>4. Judged'
  <2>1. place' \notin {"verify", "print", "cleanup"} /\ place' \notin Verifying
    BY <1>0 DEF Verifying
  <2>2. ~ lib' /\ printed' = ""
    BY <1>2, <1>f
  <2> QED BY <2>1, <2>2 DEF Judged, Verifying
<1>5. ExitCodeTellsVerdict'
  <2>1. CASE argc_ok
    BY <1>0, <2>1 DEF ExitCodeTellsVerdict
  <2>2. CASE ~ argc_ok
    <3>1. Excused'
      BY <1>f, <2>2 DEF Excused
    <3> QED BY <1>0, <1>f, <2>2, <3>1, GaveUp
  <2> QED BY <2>1, <2>2
<1>6. /\ lib' \in BOOLEAN /\ r' \in {-1, 0, 1} /\ failed' \in BOOLEAN
      /\ printed' \in {"", "VALID", "INVALID", "ERROR"}
  BY <1>0, <1>1 DEF CliTyped
<1>7. exit' \in {NULL, 0, 1, 2} /\ (exit' # NULL <=> place' = "exited")
  BY <1>0, <1>2, NullFacts
<1>8. /\ place \notin {"open"} \cup Loading /\ place' \notin Loading
      /\ place' \in {"open", "exited"} \cup Verifying
  BY <1>0 DEF Loading
<1> QED BY <1>0, <1>3, <1>4, <1>5, <1>6, <1>7, <1>8, MainGoesOn

(* A file that is missing, cut short or of the wrong length explains it. *)
LEMMA CheckKeeps == ASSUME CliInv, Check PROVE CliInv'
<1> DEFINE Good == \A k \in DOMAIN files :
                     bufs[k] # NULL /\ HasLength(prog, Roles(prog)[k], lens[k])
<1>0. /\ place = "check" /\ UNCHANGED <<start, nth, loader, loaded, lib, r, printed, failed>>
      /\ IF Good THEN place' = "init" /\ exit' = exit ELSE place' = "exited" /\ exit' = 2
  BY DEF Check, Exit
<1> HIDE DEF Good
<1>1. Started /\ CliTyped /\ Placed /\ Judged /\ AllDelivered
  BY DEF CliInv
<1>n. nth = Len(files) + 1
  BY <1>0, <1>1 DEF Placed
<1>2. printed = "" /\ ~ lib /\ exit = NULL
  BY <1>0, <1>1 DEF Judged, CliTyped
<1>3. Placed'
  BY <1>0, <1>n DEF Placed, Loading, Verifying, start
<1>f. prog' = prog /\ files' = files /\ bufs' = bufs /\ lens' = lens
  BY <1>0 DEF start, loaded
<1>4. Judged'
  <2>1. place' \in Verifying => Good
    BY <1>0 DEF Verifying
  <2> QED BY <1>0, <1>2, <1>f, <2>1 DEF Judged, Verifying, Good
<1>5. ExitCodeTellsVerdict'
  <2>1. CASE Good
    BY <1>0, <2>1 DEF ExitCodeTellsVerdict
  <2>2. CASE ~ Good
    <3>1. PICK k \in DOMAIN files :
            bufs[k] = NULL \/ ~ HasLength(prog, Roles(prog)[k], lens[k])
      BY <2>2 DEF Good
    <3>2. k \in 1 .. nth - 1
      <4>1. Len(files) \in Nat /\ k \in 1 .. Len(files)
        BY <1>1, RunFacts
      <4> QED BY <4>1, <1>n
    <3>3. Delivered(failed, k, bufs[k], lens[k])
      BY <1>1, <3>2 DEF AllDelivered
    <3>4. \/ failed \/ (Checked /\ files[k].len = 0)
          \/ ~ HasLength(prog, Roles(prog)[k], files[k].len)
      BY <3>1, <3>3 DEF Delivered
    <3>5. /\ place' = "exited" /\ exit' = 2 /\ printed' = "" /\ failed' = failed
      BY <1>0, <1>2, <2>2
    <3>6. Excused'
      BY <3>4, <3>5, <1>f DEF Excused, Checked
    <3> QED BY <3>5, <3>6, GaveUp
  <2> QED BY <2>1, <2>2
<1>6. /\ lib' \in BOOLEAN /\ r' \in {-1, 0, 1} /\ failed' \in BOOLEAN
      /\ printed' \in {"", "VALID", "INVALID", "ERROR"}
  BY <1>0, <1>1 DEF CliTyped
<1>7. exit' \in {NULL, 0, 1, 2} /\ (exit' # NULL <=> place' = "exited")
  BY <1>0, <1>2, NullFacts
<1>8. /\ place \notin {"open"} \cup Loading /\ place' \notin Loading
      /\ place' \in {"open", "exited"} \cup Verifying
  BY <1>0 DEF Loading, Verifying
<1> QED BY <1>0, <1>3, <1>4, <1>5, <1>6, <1>7, <1>8, MainGoesOn

LEMMA InitLibraryKeeps == ASSUME CliInv, InitLibrary PROVE CliInv'
<1>0. /\ place = "init" /\ UNCHANGED <<start, nth, loader, loaded, r, printed>>
      /\ \/ lib' = TRUE /\ place' = "verify" /\ exit' = exit /\ failed' = failed
         \/ place' = "exited" /\ exit' = 2 /\ failed' = TRUE /\ lib' = lib
  BY DEF InitLibrary, Exit
<1>1. CliTyped /\ Placed /\ Judged
  BY DEF CliInv
<1>n. nth = Len(files) + 1
  BY <1>0, <1>1 DEF Placed, Verifying
<1>2. printed = "" /\ ~ lib /\ exit = NULL
  BY <1>0, <1>1 DEF Judged, CliTyped
<1>f. prog' = prog /\ files' = files /\ bufs' = bufs /\ lens' = lens /\ nth' = nth
  BY <1>0 DEF start, loaded
<1>3. Placed'
  BY <1>0, <1>n, <1>f DEF Placed, Loading, Verifying
<1>4. Judged'
  <2>1. \A k \in DOMAIN files : bufs[k] # NULL /\ HasLength(prog, Roles(prog)[k], lens[k])
    BY <1>0, <1>1 DEF Judged, Verifying
  <2>2. lib' <=> place' \in {"verify", "print", "cleanup"}
    <3>1. CASE lib' = TRUE /\ place' = "verify"
      BY <3>1
    <3>2. CASE place' = "exited" /\ lib' = lib
      <4>1. ~ lib' /\ place' \notin {"verify", "print", "cleanup"}
        BY <3>2, <1>2
      <4> QED BY <4>1
    <3> QED BY <1>0, <3>1, <3>2
  <2>3. place' \notin {"print", "cleanup"} /\ printed' = ""
    BY <1>0, <1>2
  <2> QED BY <2>1, <2>2, <2>3, <1>f DEF Judged, Verifying
<1>5. ExitCodeTellsVerdict'
  <2>1. CASE place' = "verify"
    BY <2>1 DEF ExitCodeTellsVerdict
  <2>2. CASE exit' = 2 /\ failed' = TRUE
    <3>1. Excused' /\ printed' = ""
      BY <1>0, <1>2, <2>2 DEF Excused
    <3> QED BY <2>2, <3>1, GaveUp
  <2> QED BY <1>0, <2>1, <2>2
<1>6. /\ r' \in {-1, 0, 1} /\ printed' \in {"", "VALID", "INVALID", "ERROR"}
  BY <1>0, <1>1 DEF CliTyped
<1>7. exit' \in {NULL, 0, 1, 2} /\ (exit' # NULL <=> place' = "exited")
  BY <1>0, <1>2, NullFacts
<1>8. /\ place \notin {"open"} \cup Loading /\ place' \notin Loading
      /\ place' \in {"open", "exited"} \cup Verifying
  BY <1>0 DEF Loading, Verifying
<1>9. failed' \in BOOLEAN /\ (failed => failed')
  BY <1>0, <1>1, Zenon DEF CliTyped
<1>10. lib' \in BOOLEAN
  BY <1>0, <1>1, Zenon DEF CliTyped
<1> QED BY <1>0, <1>3, <1>4, <1>5, <1>6, <1>7, <1>8, <1>9, <1>10, MainGoesOn

(* The verdict is computed from buffers that hold the files. *)
LEMMA VerdictOfData ==
  ASSUME CliInv, place \in Verifying
  PROVE  /\ Verify(bufs[1], bufs[2], PublicInput(prog, bufs))
              = Verify(Data[1], Data[2], PublicInput(prog, Data))
         /\ Verify(Data[1], Data[2], PublicInput(prog, Data)) \in {-1, 0, 1}
<1>1. /\ DOMAIN files = 1 .. Len(files) /\ Len(files) \in Nat
      /\ Len(files) = IF Checked THEN 4 ELSE 3
  BY RunFacts DEF CliInv
<1>2. \A k \in DOMAIN files : files[k] # Missing /\ bufs[k] = Data[k] /\ Data[k] = files[k].data
  BY WholeFiles DEF Data, Contents
<1>3. {1, 2, 3} \subseteq DOMAIN files /\ (Checked => 4 \in DOMAIN files)
  BY <1>1
<1>4. bufs[1] = Data[1] /\ bufs[2] = Data[2] /\ bufs[3] = Data[3]
      /\ (Checked => bufs[4] = Data[4])
  BY <1>2, <1>3
<1>5. PublicInput(prog, bufs) = PublicInput(prog, Data)
  BY <1>4 DEF PublicInput, Checked
<1>6. prog \in Programs /\ files \in Starts(prog)
  BY DEF CliInv, Started
<1>7. Verify(files[1].data, files[2].data, PublicInput(prog, Contents(files))) \in {-1, 0, 1}
  BY <1>2, <1>6, CliAssumption
<1>8. Data[1] = files[1].data /\ Data[2] = files[2].data
  BY <1>2, <1>3
<1> QED BY <1>4, <1>5, <1>7, <1>8 DEF Data

LEMMA VerifyProofKeeps == ASSUME CliInv, VerifyProof PROVE CliInv'
<1>0. /\ place = "verify" /\ place' = "print"
      /\ UNCHANGED <<start, nth, loader, loaded, lib, printed, exit, failed>>
      /\ r' = Verify(bufs[1], bufs[2], PublicInput(prog, bufs))
  BY DEF VerifyProof
<1>1. CliTyped /\ Placed /\ Judged
  BY DEF CliInv
<1>n. nth = Len(files) + 1
  BY <1>0, <1>1 DEF Placed, Verifying
<1>2. printed = "" /\ lib /\ exit = NULL
  BY <1>0, <1>1 DEF Judged, CliTyped
<1>f. prog' = prog /\ files' = files /\ bufs' = bufs /\ lens' = lens /\ nth' = nth
  BY <1>0 DEF start, loaded
<1>3. Placed'
  BY <1>0, <1>n, <1>f DEF Placed, Loading, Verifying
<1>r. /\ r' = Verify(Data[1], Data[2], PublicInput(prog, Data))
      /\ r' \in {-1, 0, 1}
  BY <1>0, VerdictOfData DEF Verifying
<1>d. Data' = Data
  BY <1>f DEF Data
<1>4. Judged'
  <2>1. \A k \in DOMAIN files : bufs[k] # NULL /\ HasLength(prog, Roles(prog)[k], lens[k])
    BY <1>0, <1>1 DEF Judged, Verifying
  <2>2. lib' <=> place' \in {"verify", "print", "cleanup"}
    <3>1. lib' /\ place' \in {"verify", "print", "cleanup"}
      BY <1>0, <1>2
    <3> QED BY <3>1
  <2>3. place' # "cleanup" /\ printed' = ""
    BY <1>0, <1>2
  <2>4. r' = Verify(Data'[1], Data'[2], PublicInput(prog', Data'))
    BY <1>r, <1>d, <1>f
  <2> QED BY <2>1, <2>2, <2>3, <2>4, <1>f DEF Judged, Verifying
<1>5. ExitCodeTellsVerdict'
  BY <1>0 DEF ExitCodeTellsVerdict
<1>6. printed' \in {"", "VALID", "INVALID", "ERROR"}
  BY <1>0, <1>1 DEF CliTyped
<1>7. exit' \in {NULL, 0, 1, 2} /\ (exit' # NULL <=> place' = "exited")
  BY <1>0, <1>2
<1>8. /\ place \notin {"open"} \cup Loading /\ place' \notin Loading
      /\ place' \in {"open", "exited"} \cup Verifying
  BY <1>0 DEF Loading, Verifying
<1>9. lib' \in BOOLEAN /\ failed' \in BOOLEAN /\ (failed => failed')
  BY <1>0, <1>1, Zenon DEF CliTyped
<1> QED BY <1>0, <1>3, <1>4, <1>5, <1>6, <1>7, <1>8, <1>9, <1>r, MainGoesOn

LEMMA ReportKeeps == ASSUME CliInv, Report PROVE CliInv'
<1>0. /\ place = "print" /\ place' = "cleanup"
      /\ UNCHANGED <<start, nth, loader, loaded, lib, r, exit, failed>>
      /\ printed' = CASE r = 1 -> "VALID" [] r = 0 -> "INVALID" [] OTHER -> "ERROR"
  BY DEF Report
<1>1. CliTyped /\ Placed /\ Judged
  BY DEF CliInv
<1>n. nth = Len(files) + 1
  BY <1>0, <1>1 DEF Placed, Verifying
<1>2. lib /\ exit = NULL /\ r = Verify(Data[1], Data[2], PublicInput(prog, Data))
  BY <1>0, <1>1 DEF Judged, CliTyped
<1>f. prog' = prog /\ files' = files /\ bufs' = bufs /\ lens' = lens /\ nth' = nth /\ r' = r
  BY <1>0 DEF start, loaded
<1>3. Placed'
  BY <1>0, <1>n, <1>f DEF Placed, Loading, Verifying
<1>d. Data' = Data
  BY <1>f DEF Data
<1>4. Judged'
  <2>1. \A k \in DOMAIN files : bufs[k] # NULL /\ HasLength(prog, Roles(prog)[k], lens[k])
    BY <1>0, <1>1 DEF Judged, Verifying
  <2>2. lib' <=> place' \in {"verify", "print", "cleanup"}
    BY <1>0, <1>2
  <2>3. printed' = CASE r' = 1 -> "VALID" [] r' = 0 -> "INVALID" [] OTHER -> "ERROR"
    BY <1>0, <1>f
  <2>4. r' = Verify(Data'[1], Data'[2], PublicInput(prog', Data'))
    BY <1>2, <1>d, <1>f
  <2>5. ~ (place' \notin {"cleanup", "exited"})
    BY <1>0
  <2> QED BY <2>1, <2>2, <2>3, <2>4, <2>5, <1>f, Zenon DEF Judged, Verifying
<1>5. ExitCodeTellsVerdict'
  BY <1>0 DEF ExitCodeTellsVerdict
<1>6. printed' \in {"", "VALID", "INVALID", "ERROR"}
  BY <1>0
<1>7. exit' \in {NULL, 0, 1, 2} /\ (exit' # NULL <=> place' = "exited")
  BY <1>0, <1>2
<1>8. /\ place \notin {"open"} \cup Loading /\ place' \notin Loading
      /\ place' \in {"open", "exited"} \cup Verifying
  BY <1>0 DEF Loading, Verifying
<1>9. lib' \in BOOLEAN /\ failed' \in BOOLEAN /\ (failed => failed')
  BY <1>0, <1>1, Zenon DEF CliTyped
<1>10. r' \in {-1, 0, 1}
  BY <1>0, <1>1 DEF CliTyped
<1> QED BY <1>0, <1>3, <1>4, <1>5, <1>6, <1>7, <1>8, <1>9, <1>10, MainGoesOn

LEMMA FinishKeeps == ASSUME CliInv, Finish PROVE CliInv'
<1>0. /\ place = "cleanup" /\ place' = "exited" /\ lib' = FALSE
      /\ UNCHANGED <<start, nth, loader, loaded, r, printed, failed>>
      /\ exit' = IF r = 1 THEN 0 ELSE 1
  BY DEF Finish, Exit, ExitCode
<1>1. CliTyped /\ Placed /\ Judged
  BY DEF CliInv
<1>2. r = Verify(Data[1], Data[2], PublicInput(prog, Data))
  BY <1>0, <1>1 DEF Judged
<1>3. printed = CASE r = 1 -> "VALID" [] r = 0 -> "INVALID" [] OTHER -> "ERROR"
  BY <1>0, <1>1 DEF Judged
<1>f. prog' = prog /\ files' = files /\ nth' = nth /\ r' = r /\ printed' = printed
  BY <1>0 DEF start
<1>d. Data' = Data
  BY <1>f DEF Data
<1>4. Placed'
  BY <1>0 DEF Placed, Loading, Verifying
<1>5. Judged'
  BY <1>0 DEF Judged, Verifying
<1>6. ExitCodeTellsVerdict'
  <2>1. CASE r = 1
    <3>1. exit' = 0 /\ printed' = "VALID"
      BY <1>0, <1>3, <1>f, <2>1
    <3>2. exit' # 1 /\ exit' # 2 /\ printed' # ""
      BY <3>1
    <3>3. Verify(Data'[1], Data'[2], PublicInput(prog', Data')) = 1
      BY <1>2, <1>d, <1>f, <2>1
    <3> QED BY <3>1, <3>2, <3>3, Zenon DEF ExitCodeTellsVerdict
  <2>2. CASE r # 1
    <3>1. exit' = 1 /\ printed' \in {"INVALID", "ERROR"}
      BY <1>0, <1>3, <1>f, <2>2
    <3>2. exit' # 0 /\ exit' # 2
      BY <3>1
    <3>3. Verify(Data'[1], Data'[2], PublicInput(prog', Data')) # 1
      BY <1>2, <1>d, <1>f, <2>2
    <3>4. printed' # "" /\ printed' # "VALID"
      BY <3>1
    <3> QED BY <3>1, <3>2, <3>3, <3>4, Zenon DEF ExitCodeTellsVerdict
  <2> QED BY <2>1, <2>2
<1>7. exit' \in {NULL, 0, 1, 2} /\ (exit' # NULL <=> place' = "exited")
  BY <1>0, NullFacts
<1>8. /\ place \notin {"open"} \cup Loading /\ place' \notin Loading
      /\ place' \in {"open", "exited"} \cup Verifying
  BY <1>0 DEF Loading, Verifying
<1>9. lib' \in BOOLEAN /\ failed' \in BOOLEAN /\ (failed => failed')
  BY <1>0, <1>1, Zenon DEF CliTyped
<1>10. r' \in {-1, 0, 1} /\ printed' \in {"", "VALID", "INVALID", "ERROR"}
  BY <1>0, <1>1 DEF CliTyped
<1> QED BY <1>0, <1>4, <1>5, <1>6, <1>7, <1>8, <1>9, <1>10, MainGoesOn

-----------------------------------------------------------------------------
(* Every step of every run keeps the inductive invariant. *)
LEMMA CliStepHolds == CliInv /\ [CliNext]_cliVars => CliInv'
<1> SUFFICES ASSUME CliInv, [CliNext]_cliVars PROVE CliInv'
  OBVIOUS
<1>1. CASE Usage
  BY <1>1, UsageKeeps
<1>2. CASE Open
  BY <1>2, OpenKeeps
<1>3. CASE Measure
  BY <1>3, MeasureKeeps
<1>4. CASE Rewind
  BY <1>4, RewindKeeps
<1>5. CASE Alloc
  BY <1>5, AllocKeeps
<1>6. CASE Read
  BY <1>6, ReadKeeps
<1>7. CASE Close
  BY <1>7, CloseKeeps
<1>8. CASE Check
  BY <1>8, CheckKeeps
<1>9. CASE InitLibrary
  BY <1>9, InitLibraryKeeps
<1>10. CASE VerifyProof
  BY <1>10, VerifyProofKeeps
<1>11. CASE Report
  BY <1>11, ReportKeeps
<1>12. CASE Finish
  BY <1>12, FinishKeeps
<1>13. CASE UNCHANGED cliVars
  <2>1. /\ prog' = prog /\ argc_ok' = argc_ok /\ files' = files /\ place' = place /\ nth' = nth
        /\ handle' = handle /\ size' = size /\ rewound' = rewound /\ buf' = buf
        /\ bufs' = bufs /\ lens' = lens /\ lib' = lib /\ r' = r /\ printed' = printed
        /\ exit' = exit /\ failed' = failed
    BY <1>13 DEF cliVars, start, loader, loaded
  <2>2. Started' /\ Values' = Values /\ Checked' = Checked /\ Data' = Data
    BY <2>1 DEF CliInv, Started, Values, Checked, Data
  <2>3. CliTyped'
    BY <2>1, <2>2 DEF CliInv, CliTyped
  <2>4. Placed' /\ Judged'
    BY <2>1, <2>2 DEF CliInv, Placed, Judged
  <2>5. Loader' /\ AllDelivered'
    BY <2>1, <2>2 DEF CliInv, Loader, AllDelivered, Delivered
  <2>6. ExitCodeTellsVerdict'
    BY <2>1, <2>2, Zenon DEF CliInv, ExitCodeTellsVerdict
  <2> QED BY <2>2, <2>3, <2>4, <2>5, <2>6 DEF CliInv
<1> QED BY <1>1, <1>2, <1>3, <1>4, <1>5, <1>6, <1>7, <1>8, <1>9, <1>10, <1>11, <1>12, <1>13
        DEF CliNext

(* What load_file has delivered, what it holds and what main has judged    *)
(* agree with where the program is, whichever library calls failed.        *)
THEOREM CliInvariance == CliSpec => []CliInv
<1>1. CliInit => CliInv
  BY CliInitHolds
<1>2. CliInv /\ [CliNext]_cliVars => CliInv'
  BY CliStepHolds
<1> QED BY <1>1, <1>2, PTL DEF CliSpec

(* Sizes handed to malloc and fread are never negative, a file is read     *)
(* while it is open, and every file loaded has a buffer and a length.      *)
THEOREM CliTypeCorrect == CliSpec => []CliTypeOK
<1>1. CliInv => CliTypeOK
  <2> SUFFICES ASSUME CliInv PROVE CliTypeOK
    OBVIOUS
  <2>1. CliTyped /\ Loader
    BY DEF CliInv
  <2>2. {handle, rewound, lib, failed} \subseteq BOOLEAN
    BY <2>1 DEF CliTyped
  <2>3. place \in {"measure", "rewind", "alloc", "read", "close"} => handle
    BY <2>1 DEF Loader, Loading
  <2>4. Len(bufs) = nth - 1 /\ Len(lens) = nth - 1
    BY <2>1 DEF CliTyped
  <2>5. place \in {"usage", "open", "measure", "rewind", "alloc", "read", "close", "check", "init",
                "verify", "print", "cleanup", "exited"}
    BY <2>1 DEF CliTyped, Loading, Verifying
  <2> QED BY <2>1, <2>2, <2>3, <2>4, <2>5 DEF CliTyped, CliTypeOK
<1> QED BY <1>1, CliInvariance, PTL

(* Whatever fails while loading, the verifier sees whole files of the      *)
(* right lengths: for any files and any lengths.                           *)
THEOREM OnlyWholeFiles == CliSpec => []VerifiesWholeFiles
<1>1. CliInv => VerifiesWholeFiles
  BY WholeFiles DEF VerifiesWholeFiles, Verifying
<1> QED BY <1>1, CliInvariance, PTL

(* No return of load_file leaves its file open, and the library is         *)
(* initialised exactly from groth16_init to groth16_cleanup.               *)
THEOREM AllReturned == CliSpec => []ResourcesReturned
<1>1. CliInv => ResourcesReturned
  BY DEF CliInv, Loader, Judged, ResourcesReturned, Loading
<1> QED BY <1>1, CliInvariance, PTL

(* Exit code 0 means that the proof is one for the data in the files.      *)
THEOREM ExitCodesAreVerdicts == CliSpec => []ExitCodeTellsVerdict
<1>1. CliInv => ExitCodeTellsVerdict
  BY DEF CliInv
<1> QED BY <1>1, CliInvariance, PTL
=============================================================================
