------------------------------ MODULE Groth16 ------------------------------
(***************************************************************************)
(* The Groth16 statement the verifiers decide and the encoding of its key. *)
(* The three groups have prime order Q; an element is written as its       *)
(* logarithm, addition is addition of logarithms and the pairing is their  *)
(* product.  A setup is what arkworks generates: alpha, beta, gamma, delta *)
(* and one IC point more than there are public inputs.                     *)
(***************************************************************************)
EXTENDS Integers, Sequences

CONSTANTS
  Q,        (* order of the groups                                  *)
  OFF       (* the bytes of a pair of coordinates off the curve     *)

Group   == 0 .. Q - 1
Encoded == (Group \ {0}) \cup {OFF}

(* Coordinates as bytes.  The point at infinity has none: arkworks writes  *)
(* (0, 0), which is not on the curve.                                      *)
Raw(x) == IF x = 0 THEN OFF ELSE x

Neg(x) == (Q - x) % Q

(* The verifying key as export_artifacts and export_vk_raw write it. *)
RawKey(setup) ==
  [ic         |-> [k \in DOMAIN setup.ic |-> Raw(setup.ic[k])],
   alpha_beta |-> (setup.alpha * setup.beta) % Q,
   neg_gamma  |-> Raw(Neg(setup.gamma)),
   neg_delta  |-> Raw(Neg(setup.delta))]

(* IC[0] + sum_i input[i] * IC[i + 1] *)
InputPoint(setup, input) ==
  LET sum[k \in 0 .. Len(input)] ==
        IF k = 0 THEN setup.ic[1] ELSE sum[k - 1] + input[k] * setup.ic[k + 1]
  IN  sum[Len(input)] % Q

(* e(A, B) = e(alpha, beta) e(L, gamma) e(C, delta) *)
Accepts(setup, A, B, C, input) ==
  (A * B) % Q = (setup.alpha * setup.beta + InputPoint(setup, input) * setup.gamma
                   + C * setup.delta) % Q

(* 1 valid, 0 invalid, -1 an input that is not of the right form. *)
Verdict(setup, proof, proof_ok, input) ==
  LET key == RawKey(setup)
      points == {proof[1], proof[2], proof[3], key.neg_gamma, key.neg_delta}
                  \cup {key.ic[k] : k \in DOMAIN key.ic}
  IN  CASE ~ proof_ok \/ Len(input) + 1 # Len(setup.ic) -> -1
        [] OFF \in points -> -1
        [] OTHER -> IF Accepts(setup, proof[1], proof[2], proof[3], input) THEN 1 ELSE 0
=============================================================================
