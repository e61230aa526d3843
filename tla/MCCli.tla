------------------------------- MODULE MCCli -------------------------------
(***************************************************************************)
(* VerifierCli with, for each argument, a missing file, an empty one, one  *)
(* of the wrong length, and files of the right length with the genuine     *)
(* contents, other contents, and contents that cannot be decoded.          *)
(***************************************************************************)
EXTENDS VerifierCli

MCFile(l, d) == [len |-> l, data |-> d]

MCFilesOf(pr, role) ==
  {Missing, MCFile(0, Nothing)} \cup
  CASE role = "vk"    -> {MCFile(VK_RAW_LEN(pr), "key"), MCFile(100, "key")}
    [] role = "proof" -> {MCFile(256, "proof"), MCFile(256, "other"), MCFile(256, "off curve")}
    [] role = "public_input" -> {MCFile(32, "hash"), MCFile(32, "other"), MCFile(33, "hash")}
    [] role = "calldata" -> {MCFile(68, "call")}
    [] role = "text"  -> {MCFile(69, "rendering"), MCFile(69, "other")}

MCHash(d) == <<"hash of", d>>

MCVerify(key, proof, input) ==
  IF proof = "off curve" THEN -1
  ELSE IF key = "key" /\ proof = "proof"
            /\ input \in {<<"hash">>, <<MCHash("call"), MCHash("rendering")>>} THEN 1 ELSE 0
=============================================================================
