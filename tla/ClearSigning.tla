---------------------------- MODULE ClearSigning ----------------------------
(***************************************************************************)
(* The clear-signing protocol: snark.rs proves that a text renders call    *)
(* data; clear_signing_main.c hashes the call data and the text it is      *)
(* given, verifies the proof against its own two hashes and displays the   *)
(* text if the proof is valid.  The sponge is injective on what it         *)
(* absorbs, and a proof verifies for the inputs it was made for when its   *)
(* witness satisfied the circuit.                                          *)
(***************************************************************************)
EXTENDS TwoHashCircuit, FiniteSets

CONSTANTS
  Witnesses,    (* bound: the pairs <<call data, text>> given to prove    *)
  Several,      (* bound: those of them that are proved one after another *)
  Texts(_),     (* bound: what may have become of a text on its way       *)
  MaxProofs,    (* bound: proofs made                                     *)
  None

RustPack == INSTANCE Packing WITH BYTE <- 256

Pack(data) == RustPack!Pack(data)

(* A proof with the witness it was made from, and what the device is asked. *)
Proof   == [calldata : Seq(Byte), text : Seq(Byte), inputs : Seq(Seq(Nat)), valid : BOOLEAN]
Request == [calldata : Seq(Byte), text : Seq(Byte), proof : Proof]

ASSUME WitnessAssumption ==
  /\ MaxProofs \in Nat
  /\ \A w \in Witnesses \cup Several :
       w[1] \in Seq(Byte) /\ w[2] \in Seq(Byte) /\ Texts(w[2]) \subseteq Seq(Byte)

ASSUME NoneAssumption ==
  None \notin Request /\ None \notin Seq(Nat) /\ None \notin {0, 1}

VARIABLES
  proofs,       (* made so far, with the witness each was made from       *)
  pc, request,  (* clear_signing_verify, and its arguments                *)
  pi,           (* uint8_t pi[64], as two values                          *)
  verdict,      (* what it returned                                       *)
  shown         (* device displays                                        *)

vars == <<proofs, pc, request, pi, verdict, shown>>

Init ==
  /\ proofs = {}
  /\ pc = "idle" /\ request = None /\ pi = <<None, None>>
  /\ verdict = None /\ shown = None

(* snark.rs, prove: asserts on the lengths; a witness that does not        *)
(* satisfy the circuit gives a proof that is not valid.                    *)
prove(calldata, text) ==
  /\ Cardinality(proofs) < MaxProofs
  /\ WellSized(calldata, text)
  /\ LET h_c == Pack(calldata)
         h_t == Pack(text)
     IN  proofs' = proofs \cup
           {[calldata |-> calldata, text |-> text, inputs |-> <<h_c, h_t>>,
             valid |-> Satisfied(calldata, text, h_c, h_t)]}
  /\ UNCHANGED <<pc, request, pi, verdict, shown>>

(* Call data, text and proof arrive on their own: from different sessions, *)
(* or the text in another length.                                          *)
Receive(c, t, proof) ==
  /\ pc = "idle"
  /\ request' = [calldata |-> c, text |-> t, proof |-> proof]
  /\ pi' = <<None, None>> /\ verdict' = None /\ shown' = None
  /\ pc' = "calldata"
  /\ UNCHANGED proofs

HashCalldata ==
  /\ pc = "calldata"
  /\ pi' = [pi EXCEPT ![1] = Pack(request.calldata)]
  /\ pc' = "text"
  /\ UNCHANGED <<proofs, request, verdict, shown>>

(* Mutant: pi in place of pi + 32. *)
SameSlot == 1

TextSlot == 2

HashText ==
  /\ pc = "text"
  /\ pi' = [pi EXCEPT ![TextSlot] = Pack(request.text)]
  /\ pc' = "verify"
  /\ UNCHANGED <<proofs, request, verdict, shown>>

(* Mutant: the second input left out, as with a key of one input. *)
OneInput(proof, inputs) == proof.valid /\ proof.inputs[1] = inputs[1]

Verifies(proof, inputs) == proof.valid /\ proof.inputs = inputs

groth16_verify_vk ==
  /\ pc = "verify"
  /\ verdict' = (IF Verifies(request.proof, pi) THEN 1 ELSE 0)
  /\ pc' = "verified"
  /\ UNCHANGED <<proofs, request, pi, shown>>

Display ==
  /\ pc = "verified"
  /\ shown' = (IF verdict = 1 THEN request.text ELSE None)
  /\ pc' = "idle"
  /\ UNCHANGED <<proofs, request, pi, verdict>>

Device == HashCalldata \/ HashText \/ groth16_verify_vk \/ Display

(* Bound: further proofs are of witnesses of Several, if the first was. *)
Provable ==
  IF proofs = {} THEN Witnesses
  ELSE IF \A proof \in proofs : <<proof.calldata, proof.text>> \in Several THEN Several ELSE {}

Next ==
  \/ \E w \in Provable : prove(w[1], w[2])
  \/ \E u, v, proof \in proofs : \E t \in Texts(v.text) : Receive(u.calldata, t, proof)
  \/ Device

(* The device runs clear_signing_verify to its end. *)
Spec == Init /\ [][Next]_vars /\ WF_vars(Device)

-----------------------------------------------------------------------------
(* Properties *)

(* TypeOK: and the device computes both hashes itself, before it verifies. *)
TypeOK ==
  /\ Cardinality(proofs) <= MaxProofs
  /\ pc \in {"idle", "calldata", "text", "verify", "verified"}
  /\ request = None \/ request.proof \in proofs
  /\ pi[1] = None <=> request = None \/ pc = "calldata"
  /\ pi[2] = None <=> request = None \/ pc \in {"calldata", "text"}
  /\ verdict = None <=> request = None \/ pc \in {"calldata", "text", "verify"}
  /\ shown # None => pc = "idle"

(* What is displayed is, byte for byte, the native rendering of the call   *)
(* data the device was given, whatever witness was proved.  The native     *)
(* renderer divides; the circuit sums digits in the field.                 *)
DisplayedIsRendering ==
  shown # None => shown = render_transfer_text(request.calldata)

(* The request is a proof with the witness it was made from, and the text  *)
(* is the rendering.                                                       *)
Genuine ==
  /\ request # None
  /\ request.calldata = request.proof.calldata /\ request.text = request.proof.text
  /\ request.text = render_transfer_text(request.calldata)

(* Nothing is displayed of pieces that do not belong together: the call    *)
(* data and the text of different proofs, or a text of another length.     *)
DisplayedWasProved ==
  shown # None =>
    request.proof.calldata = request.calldata /\ request.proof.text = shown

(* The circuit and the two packings refuse no call data that renders: a    *)
(* genuine request is displayed in the end, after whatever else the device *)
(* was asked before.                                                       *)
GenuineIsShown == (Genuine /\ pc = "calldata") ~> (Genuine /\ shown = request.text)
=============================================================================
