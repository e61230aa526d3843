-------------------------------- MODULE MCFr --------------------------------
(***************************************************************************)
(* Fr with two-bit words.  R = 47 stands to the 256 values of four words   *)
(* as the BN254 group order does to 2^256: 5 R < 256 < 6 R.                *)
(***************************************************************************)
EXTENDS FrProofs

(* The limbs of an integer. *)
ToLimbs(n) == [k \in Limb |->
                 CASE k = 0 -> n % W
                   [] k = 1 -> (n \div W) % W
                   [] k = 2 -> (n \div (W * W)) % W
                   [] k = 3 -> (n \div (W * W * W)) % W]

MCR_MOD == ToLimbs(47)

(* Boundary values, and limb patterns that carry and borrow. *)
MCInputs == {ToLimbs(n) : n \in {0, 1, 15, 31, 46}}
=============================================================================
