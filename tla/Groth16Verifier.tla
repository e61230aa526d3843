-------------------------- MODULE Groth16Verifier --------------------------
(***************************************************************************)
(* minimal_c_verifier/src/groth16_verifier.c: groth16_verify_vk on a key   *)
(* in memory, and groth16_verify, which fills a static array for the       *)
(* built-in key on its first call.  RELIC's objects are allocated and      *)
(* freed as in a build with dynamic allocation.                            *)
(***************************************************************************)
EXTENDS Groth16, SequencesExt

CONSTANTS
  Setups,         (* bound: the keys verified against                      *)
  Builtin,        (* the setup of vk_constants.h; it has one public input  *)
  ProofPoints,    (* bound: the encodings a proof is made of               *)
  Scalars,        (* bound: public inputs, which decode_fr does not reduce *)
  MaxInputs,      (* bound: public inputs given to a call                  *)
  NoArg           (* no call is running                                    *)

ASSUME VerifierAssumption ==
  /\ Q \in Nat /\ Q > 1 /\ OFF \notin Int
  /\ Builtin \in Setups /\ Len(Builtin.ic) = 2
  /\ ProofPoints \subseteq Encoded /\ Scalars \subseteq Nat /\ MaxInputs \in Nat
  /\ \A s \in Setups : /\ s.ic \in Seq(Group) /\ s.alpha \in Group /\ s.beta \in Group
                       /\ s.gamma \in Group /\ s.delta \in Group

Main   == {"A", "B", "C", "L", "gamma", "delta", "ab", "result"}
Inputs == {"ic", "tmp", "scalar"}
Pairs  == {"p_arr", "q_arr"}
Points == {"A", "B", "C", "L", "gamma", "delta"}

Args == [fn : {"groth16_verify_vk"}, setup : Setups,
         proof : [1 .. 3 -> ProofPoints], proof_ok : BOOLEAN, input : BoundedSeq(Scalars, MaxInputs)]
        \cup
        [fn : {"groth16_verify"}, setup : {Builtin},
         proof : [1 .. 3 -> ProofPoints], proof_ok : BOOLEAN, input : BoundedSeq(Scalars, MaxInputs)]

ASSUME NoArgAssumption == NoArg \notin Args /\ NoArg \notin Int

VARIABLES
  ic_flat, ic_ready,   (* static                                            *)
  pc, arg,             (* where the call is, and its arguments              *)
  vk,                  (* *vk                                               *)
  p,                   (* the decoded points, as bytes say until checked    *)
  cached_ab, product,  (* the two sides of the comparison                   *)
  i,                   (* prepare_inputs                                    *)
  ret, out,            (* ret of groth16_verify_vk; what the caller got     *)
  live                 (* how often each RELIC object is allocated          *)

vars == <<ic_flat, ic_ready, pc, arg, vk, p, cached_ab, product, i, ret, out, live>>

New(s)  == live' = [o \in DOMAIN live |-> IF o \in s THEN live[o] + 1 ELSE live[o]]
Free(s) == live' = [o \in DOMAIN live |-> IF o \in s THEN live[o] - 1 ELSE live[o]]

NoPoints == [o \in Points |-> OFF]

(* The locals of groth16_verify_vk cease to exist when it returns. *)
DropLocals ==
  vk' = NoArg /\ p' = NoPoints /\ cached_ab' = OFF /\ product' = OFF /\ i' = 0 /\ ret' = -1

Init ==
  /\ ic_flat = <<OFF, OFF>> /\ ic_ready = FALSE
  /\ pc = "idle" /\ arg = NoArg /\ out = NoArg
  /\ vk = NoArg /\ p = NoPoints /\ cached_ab = OFF /\ product = OFF /\ i = 0 /\ ret = -1
  /\ live = [o \in Main \cup Inputs \cup Pairs |-> 0]

-----------------------------------------------------------------------------
Call(x) ==
  /\ pc = "idle"
  /\ arg' = x /\ out' = NoArg
  /\ pc' = IF x.fn = "groth16_verify" THEN "wrapper" ELSE "lengths"
  /\ vk' = RawKey(x.setup)
  /\ UNCHANGED <<ic_flat, ic_ready, p, cached_ab, product, i, ret, live>>

(* groth16_verify: VK_IC0_G1 and VK_IC1_G1 made contiguous, once. *)
groth16_verify ==
  /\ pc = "wrapper"
  /\ ic_flat' = (IF ic_ready THEN ic_flat ELSE RawKey(Builtin).ic)
  /\ ic_ready' = TRUE
  /\ vk' = [vk EXCEPT !.ic = ic_flat']
  /\ pc' = "lengths"
  /\ UNCHANGED <<arg, p, cached_ab, product, i, ret, out, live>>

(* num_public_inputs of the key *)
num == Len(vk.ic) - 1

CheckLengths ==
  /\ pc = "lengths"
  /\ IF ~ arg.proof_ok \/ Len(arg.input) # num
       THEN pc' = "idle" /\ arg' = NoArg /\ out' = -1 /\ DropLocals /\ UNCHANGED live
       ELSE pc' = "A" /\ New(Main) /\ UNCHANGED <<arg, vk, p, cached_ab, product, i, ret, out>>
  /\ UNCHANGED <<ic_flat, ic_ready>>

(* Mutant: ep_on_curve not asked. *)
NeverFails(bytes) == FALSE

OffCurve(bytes) == bytes = OFF

(* decode_g1, decode_g2: the coordinates are stored, then checked. *)
Decode(o, bytes, then) ==
  /\ pc = o
  /\ p' = [p EXCEPT ![o] = bytes]
  /\ pc' = IF OffCurve(bytes) THEN "cleanup" ELSE then
  /\ UNCHANGED <<ic_flat, ic_ready, arg, vk, cached_ab, product, i, ret, out, live>>

DecodeA     == Decode("A", arg.proof[1], "B")
DecodeB     == Decode("B", arg.proof[2], "C")
DecodeC     == Decode("C", arg.proof[3], "gamma")
DecodeGamma == Decode("gamma", vk.neg_gamma, "delta")
DecodeDelta == Decode("delta", vk.neg_delta, "ab")

(* decode_gt checks nothing.  prepare_inputs then begins. *)
DecodeGT ==
  /\ pc = "ab"
  /\ cached_ab' = vk.alpha_beta
  /\ pc' = "L" /\ New(Inputs)
  /\ UNCHANGED <<ic_flat, ic_ready, arg, vk, p, product, i, ret, out>>

-----------------------------------------------------------------------------
(* prepare_inputs *)

DecodeIC0 ==
  /\ pc = "L"
  /\ p' = [p EXCEPT !["L"] = vk.ic[1]]
  /\ i' = 0
  /\ pc' = IF OffCurve(vk.ic[1]) THEN "out" ELSE "ic"
  /\ UNCHANGED <<ic_flat, ic_ready, arg, vk, cached_ab, product, ret, out, live>>

(* vk->ic + (i + 1) * 64; sequences count from one. *)
ICPoint(k) == vk.ic[k + 2]

(* Mutant: the same input again. *)
NotAdvanced == i

NextInput == i + 1

AddInput ==
  /\ pc = "ic" /\ i < num
  /\ IF OffCurve(ICPoint(i))
       THEN pc' = "out" /\ UNCHANGED <<p, i>>
       ELSE /\ p' = [p EXCEPT !["L"] = (@ + arg.input[i + 1] * ICPoint(i)) % Q]
            /\ i' = NextInput /\ UNCHANGED pc
  /\ UNCHANGED <<ic_flat, ic_ready, arg, vk, cached_ab, product, ret, out, live>>

Prepared ==
  /\ pc = "ic" /\ i = num
  /\ pc' = "pairing" /\ Free(Inputs)
  /\ UNCHANGED <<ic_flat, ic_ready, arg, vk, p, cached_ab, product, i, ret, out>>

PrepareFailed ==
  /\ pc = "out"
  /\ pc' = "cleanup" /\ Free(Inputs)
  /\ UNCHANGED <<ic_flat, ic_ready, arg, vk, p, cached_ab, product, i, ret, out>>

-----------------------------------------------------------------------------
(* Mutant: L and C each paired with the other's point. *)
PairedAcross == p["A"] * p["B"] + p["L"] * p["delta"] + p["C"] * p["gamma"]

(* e(A, B) e(L, -gamma) e(C, -delta) *)
MultiPairing == p["A"] * p["B"] + p["L"] * p["gamma"] + p["C"] * p["delta"]

Pairing ==
  /\ pc = "pairing"
  /\ product' = MultiPairing % Q
  /\ pc' = "compare" /\ New(Pairs)
  /\ UNCHANGED <<ic_flat, ic_ready, arg, vk, p, cached_ab, i, ret, out>>

Compare ==
  /\ pc = "compare"
  /\ ret' = IF product = cached_ab THEN 1 ELSE 0
  /\ pc' = "cleanup" /\ Free(Pairs)
  /\ UNCHANGED <<ic_flat, ic_ready, arg, vk, p, cached_ab, product, i, out>>

(* Mutant: the pairs freed on every path. *)
FreeAll == Main \cup Pairs

Cleaned == Main

Cleanup ==
  /\ pc = "cleanup"
  /\ Free(Cleaned)
  /\ out' = ret /\ arg' = NoArg /\ pc' = "idle" /\ DropLocals
  /\ UNCHANGED <<ic_flat, ic_ready>>

Run == \/ groth16_verify \/ CheckLengths
       \/ DecodeA \/ DecodeB \/ DecodeC \/ DecodeGamma \/ DecodeDelta \/ DecodeGT
       \/ DecodeIC0 \/ AddInput \/ Prepared \/ PrepareFailed
       \/ Pairing \/ Compare \/ Cleanup

Next == Run \/ \E x \in Args : Call(x)

(* The processor keeps running a call once it is made. *)
Spec == Init /\ [][Next]_vars /\ WF_vars(Run)

-----------------------------------------------------------------------------
(* Properties *)

(* TypeOK: and no coordinates reach the group operations unchecked.        *)
TypeOK ==
  /\ ic_flat \in Seq(Encoded) /\ Len(ic_flat) = 2 /\ ic_ready \in BOOLEAN
  /\ arg \in Args \cup {NoArg} /\ (arg = NoArg <=> pc = "idle")
  /\ p \in [Points -> Encoded \cup Group] /\ i \in Nat
  /\ pc = "ic" => i <= num /\ p["L"] \in Group
  /\ pc \in {"pairing", "compare"} => p \in [Points -> Group] /\ cached_ab \in Group
  /\ pc = "compare" => product \in Group
  /\ ret \in {-1, 0, 1} /\ out \in {-1, 0, 1, NoArg}

(* The goto of each failure frees what was allocated by then, once: an     *)
(* object is live at most once, those in use are live, and none outlives   *)
(* the call.                                                               *)
AllocationBalanced ==
  \A o \in DOMAIN live :
    live[o] = CASE o \in Main   -> IF pc \in {"idle", "wrapper", "lengths"} THEN 0 ELSE 1
                [] o \in Inputs -> IF pc \in {"L", "ic", "out"} THEN 1 ELSE 0
                [] o \in Pairs  -> IF pc = "compare" THEN 1 ELSE 0

VerdictTable == [a \in Args |-> Verdict(a.setup, a.proof, a.proof_ok, a.input)]

Abstract == INSTANCE PureCall WITH result <- out, F <- VerdictTable

(* A verdict is 1 exactly for a proof of the Groth16 equation under the    *)
(* setup whose key was exported, -1 exactly when some input has the wrong  *)
(* length or is off the curve.  The static array of groth16_verify and the *)
(* keys of earlier calls make no difference.  Every call returns.          *)
ImplementsVerdict == Abstract!Spec /\ Abstract!Returns
=============================================================================
