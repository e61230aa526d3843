--------------------------------- MODULE Curve ---------------------------------
(***************************************************************************)
(* The curve y^2 = x^3 + B over the prime field, of Barreto and Naehrig's   *)
(* family: the parameter u (fp_prime_get_par) gives the prime and the order *)
(* of the group (ep_param_set).                                             *)
(***************************************************************************)
EXTENDS LazyFp

CONSTANTS
  B,      (* the curve's coefficient: 3 for BN254                            *)
  Par,    (* u                                                               *)
  Order   (* of the group, and of the pairing's other group                  *)

ASSUME CurveAssumption ==
  /\ B \in Fp
  /\ Par \in Int \ {0}
  /\ P = 36 * Par * Par * Par * Par + 36 * Par * Par * Par + 24 * Par * Par + 6 * Par + 1
  /\ Order = P - 6 * Par * Par
================================================================================
