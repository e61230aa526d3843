----------------------------- MODULE MCGroth16 -----------------------------
(***************************************************************************)
(* Groth16Verifier in groups of order five: the built-in key of one public *)
(* input, the two-input key of clear signing, and two keys with a point at *)
(* infinity, which no verifier can decode.  The public inputs are a        *)
(* reduced scalar and one that is not.                                     *)
(***************************************************************************)
EXTENDS Groth16Verifier

MCSetup(a, b, g, d, points) ==
  [alpha |-> a, beta |-> b, gamma |-> g, delta |-> d, ic |-> points]

MCBuiltin == MCSetup(2, 3, 1, 2, <<1, 3>>)
MCSetups  == {MCBuiltin, MCSetup(1, 4, 3, 1, <<2, 1, 4>>), MCSetup(3, 3, 2, 4, <<1, 0>>),
              MCSetup(3, 3, 2, 4, <<0, 2>>)}
=============================================================================
