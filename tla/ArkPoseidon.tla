---------------------------- MODULE ArkPoseidon ----------------------------
(***************************************************************************)
(* The prover's byte-string hash: pack.rs over the PoseidonSponge of       *)
(* arkworks, with the parameters of params.rs.  It is the reference that   *)
(* poseidon.c must match, so it is written block by block, as a function.  *)
(***************************************************************************)
EXTENDS Packing

CONSTANTS
  RATE,             (* rate; the capacity is 1                      *)
  FULL, PARTIAL,    (* full and partial rounds                      *)
  ark, mds          (* round constants and matrix, field elements   *)

Slots == 1 .. RATE + 1       \* the capacity first

Pow5(x) == (x * x * x * x * x) % P

Count(n) == [k \in 1 .. n |-> k]

(* row is a row of ark or mds, counted from zero. *)
Dot(row, v) == FoldLeft(LAMBDA acc, c : acc + row[c - 1] * v[c], 0, Count(RATE + 1)) % P

Round(state, r, full) ==
  LET keyed == [c \in Slots |-> (state[c] + ark[r][c - 1]) % P]
      boxed == [c \in Slots |-> IF full \/ c = 1 THEN Pow5(keyed[c]) ELSE keyed[c]]
  IN  FoldLeft(LAMBDA new, c : Append(new, Dot(mds[c - 1], boxed)), <<>>, Count(RATE + 1))

(* Half of the full rounds, the partial rounds, the other full rounds. *)
Permute(state) ==
  LET rounds(s, from, n, full) ==
        FoldLeft(LAMBDA t, k : Round(t, from + k - 1, full), s, Count(n))
      half == FULL \div 2
  IN  rounds(rounds(rounds(state, 0, half, TRUE), half, PARTIAL, FALSE),
             half + PARTIAL, half, TRUE)

(* Add one block of at most RATE elements to the slots after the capacity. *)
AddBlock(state, block) ==
  [c \in Slots |-> IF c - 1 \in DOMAIN block THEN (state[c] + block[c - 1]) % P ELSE state[c]]

(* The state that has absorbed v: a permutation between any two blocks,    *)
(* none after the last, however full it is.                                *)
Absorbed(v) ==
  LET end(k) == IF k * RATE < Len(v) THEN k * RATE ELSE Len(v)
      block(k) == SubSeq(v, (k - 1) * RATE + 1, end(k))
      blocks == (Len(v) + RATE - 1) \div RATE
      first == AddBlock([c \in Slots |-> 0], block(1))
  IN  FoldLeft(LAMBDA s, k : AddBlock(Permute(s), block(k + 1)), first, Count(blocks - 1))

(* Absorb the elements, squeeze the first slot after the capacity. *)
Sponge(v) == Permute(Absorbed(v))[2]

poseidon_hash(preimage)    == Sponge(<<preimage>>)
poseidon_hash_bytes(data)  == Sponge(Pack(data))
=============================================================================
