------------------------------- MODULE MCPairing -------------------------------
(* BN curve with u = -3: P = 2143, groups of order 2089, and Ethereum's     *)
(* QNR = 9.  2083 is -6.                                                    *)
EXTENDS Pairing, TLC

MCPar  == -3
MCGen1 == <<3, 1010>>
MCGen2 == <<<<1201, 453>>, <<646, 1437>>>>

Ones == {<<a, b>> : a \in {0, 1, 2, 1000, 2083}, b \in {0, 1, 3, 2088}}
MCInputs ==
  {<<>>} \cup {<<x>> : x \in Ones} \cup {<<x, y>> : x, y \in Ones}
         \cup {<<<<1, 1>>, x, <<2083, 3>>>> : x \in Ones \cup {<<17, 1>>}}
================================================================================
