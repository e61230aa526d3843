----------------------------- MODULE MCPoseidon -----------------------------
(***************************************************************************)
(* PoseidonSponge over the field of seven elements, where x^5 is still a   *)
(* permutation, with bytes 0 and 1, chunks of two bytes, and messages of   *)
(* up to five bytes: none to four elements past the length, so that the    *)
(* rate fills exactly, with one to spare, and twice.                       *)
(***************************************************************************)
EXTENDS PoseidonSponge, FiniteSetsExt

MCBytes(n) == <<n \div 4, (n \div 2) % 2, n % 2>>

(* Rows of distinct constants, and an invertible matrix. *)
MCARK == [k \in 0 .. TOTAL - 1 |-> [c \in Slot |-> MCBytes((3 * k + 2 * c + 1) % P)]]
MCMDS == [k \in Slot |-> [c \in Slot |-> MCBytes((<<1, 2, 4, 3, 1, 5, 2, 6, 1>>)[WIDTH * k + c + 1])]]

MCUpTo(n) == UNION {[1 .. k -> 0 .. 1] : k \in 0 .. n}

MCMessages == MCUpTo(4) \cup {<<0, 0, 0, 0, 0>>, <<1, 0, 1, 1, 0>>}
=============================================================================
