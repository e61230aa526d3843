------------------------------ MODULE Packing ------------------------------
(***************************************************************************)
(* pack.rs: a byte string as a vector of field elements, the length first. *)
(***************************************************************************)
EXTENDS Integers, SequencesExt

CONSTANTS
  P,          (* the field's modulus          *)
  BYTE,       (* 2^8                          *)
  CHUNK       (* PACK_CHUNK_BYTES             *)

(* The big-endian integer of a byte string, modulo P. *)
FromBytes(s) == FoldLeft(LAMBDA acc, c : acc * BYTE + c, 0, s) % P

(* [Fr(len)] ++ data.chunks(CHUNK) as integers; the last may be shorter. *)
Pack(data) ==
  LET end(k) == IF k * CHUNK < Len(data) THEN k * CHUNK ELSE Len(data)
      chunks == (Len(data) + CHUNK - 1) \div CHUNK
  IN  <<Len(data) % P>> \o
        [k \in 1 .. chunks |-> FromBytes(SubSeq(data, (k - 1) * CHUNK + 1, end(k)))]
=============================================================================
