------------------------------ MODULE MCDevice ------------------------------
(***************************************************************************)
(* Device in groups of order five, two timed iterations: the three         *)
(* programs with every proof over a few encodings, hashes that match the   *)
(* prover's or not, keys that decode or not.                               *)
(***************************************************************************)
EXTENDS Device

MCSetup(a, b, g, d, ics) ==
  [alpha |-> a, beta |-> b, gamma |-> g, delta |-> d, ic |-> ics]

Image(program, init_ok, setup, proof, h, expected) ==
  [program |-> program, init_ok |-> init_ok, setup |-> setup, proof |-> proof,
   h |-> h, expected |-> expected]

Proofs == [1 .. 3 -> {1, 3, 4, OFF}]

TwoInputs == {MCSetup(1, 4, 3, 1, <<2, 1, 4>>), MCSetup(3, 3, 2, 4, <<1, 0, 2>>)}
OneInput  == {MCSetup(2, 3, 1, 2, <<1, 3>>)}

MCImages ==
  {Image("clear_signing_m4", ok, s, p, h, <<2, 3>>) :
     ok \in BOOLEAN, s \in TwoInputs, p \in Proofs, h \in {<<2, 3>>, <<2, 4>>, <<0, 3>>}}
  \cup {Image("multi_pairing_m4", ok, s, p, <<x>>, <<x>>) :
     ok \in BOOLEAN, s \in OneInput, p \in Proofs, x \in {0, 4}}
  \cup {Image("single_pairing_m4", ok, s, p, <<0>>, <<0>>) :
     ok \in BOOLEAN, s \in OneInput, p \in Proofs}
=============================================================================
