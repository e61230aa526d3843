--------------------------- MODULE TwoHashCircuit ---------------------------
(***************************************************************************)
(* circuit.rs: the constraints of the clear-signing statement, as a        *)
(* predicate on the witness (call data and text) and the public inputs.    *)
(* Sums are in the field, modulo P; bits are 0 and 1.                      *)
(***************************************************************************)
EXTENDS TransferTemplate

CONSTANTS
  P,          (* the field's modulus        *)
  CHUNK       (* PACK_CHUNK_BYTES           *)

ASSUME CircuitAssumption ==
  /\ P \in Nat \ {0} /\ CHUNK \in Nat \ {0}
  /\ P > 256 ^ CHUNK /\ P > 256 ^ AMOUNT_BYTES /\ P > 16 * 10 ^ AMOUNT_DIGITS

(* What ^ is, as far as it is used: the provers do not know it. *)
ASSUME PowerAssumption ==
  /\ \A k \in 0 .. AMOUNT_DIGITS - 1 : 10 ^ (k + 1) = 10 * 10 ^ k
  /\ \A k \in (0 .. AMOUNT_BYTES - 1) \cup (0 .. CHUNK - 1) : 256 ^ (k + 1) = 256 * 256 ^ k

(* acc = acc * base + s[k], from zero. *)
Horner(s, base) ==
  LET acc[k \in 0 .. Len(s)] == IF k = 0 THEN 0 ELSE (acc[k - 1] * base + s[k]) % P
  IN  acc[Len(s)]

(* bytes.chunks(PACK_CHUNK_BYTES), each an element. *)
Chunks(bytes) ==
  LET end(k) == IF k * CHUNK < Len(bytes) THEN k * CHUNK ELSE Len(bytes)
  IN  [k \in 1 .. (Len(bytes) + CHUNK - 1) \div CHUNK |->
         Horner(SubSeq(bytes, (k - 1) * CHUNK + 1, end(k)), 256)]

(* What poseidon_hash_bytes_gadget absorbs; Chunks alone is its mutant. *)
GadgetPack(bytes) == <<Len(bytes) % P>> \o Chunks(bytes)

bits_le(b) == [k \in 0 .. 7 |-> (b \div 2 ^ k) % 2]

Low(bits)  == [k \in 0 .. 3 |-> bits[k]]
High(bits) == [k \in 0 .. 3 |-> bits[k + 4]]

nibble_value(b) == b[0] + 2 * b[1] + 4 * b[2] + 8 * b[3]

nibble_ge_ten(b) == IF b[3] = 1 /\ (b[2] = 1 \/ b[1] = 1) THEN 1 ELSE 0

(* Mutant: the distance from '9' + 1 to 'A'. *)
UpperCase(b) == 48 + nibble_value(b) + 7 * nibble_ge_ten(b)

nibble_hex_char(b) == 48 + nibble_value(b) + 39 * nibble_ge_ten(b)

(* Mutant: the low nibble not bounded. *)
HighNibbleOnly(byte) == High(bits_le(byte)) = [k \in 0 .. 3 |-> IF k < 2 THEN 1 ELSE 0]

(* The constraints of enforce_ascii_digit; its value is nibble_value. *)
ascii_digit(byte) ==
  LET bits == bits_le(byte)
  IN  /\ bits[7] = 0 /\ bits[6] = 0 /\ bits[5] = 1 /\ bits[4] = 1
      /\ nibble_ge_ten(Low(bits)) = 0

ParseCalldata(c) ==
  /\ \A k \in DOMAIN SELECTOR : c[k] = SELECTOR[k]
  /\ \A pos \in (Len(SELECTOR) .. TO_POS - 1) \cup (SLOT_POS .. AMOUNT_POS - 1) : At(c, pos) = 0

FixedCharacters(t) ==
  /\ \A k \in DOMAIN PREFIX : t[k] = PREFIX[k]
  /\ At(t, DOT_POS) = DOT
  /\ \A k \in DOMAIN MIDDLE : t[MIDDLE_POS + k] = MIDDLE[k]
  /\ \A pos \in HEX_END .. TEXT_BYTES - 1 : At(t, pos) = SPACE

AmountDigits(t) == Part(t, INT_POS, DOT_POS) \o Part(t, FRAC_POS, MIDDLE_POS)

SameAmount(c, t) ==
  LET digits == AmountDigits(t)
      values == [k \in DOMAIN digits |-> nibble_value(Low(bits_le(digits[k])))]
  IN  /\ \A k \in DOMAIN digits : ascii_digit(digits[k])
      /\ Horner(values, 10) = Horner(Part(c, AMOUNT_POS, CALLDATA_BYTES), 256)

SameAddress(c, t) ==
  \A k \in 0 .. TO_BYTES - 1 :
    LET bits == bits_le(At(c, TO_POS + k))
    IN  /\ At(t, HEX_POS + 2 * k) = nibble_hex_char(High(bits))
        /\ At(t, HEX_POS + 2 * k + 1) = nibble_hex_char(Low(bits))

enforce_transfer_template(c, t) ==
  ParseCalldata(c) /\ FixedCharacters(t) /\ SameAmount(c, t) /\ SameAddress(c, t)

(* The asserts of generate_constraints: no circuit for other lengths. *)
WellSized(c, t) == Len(c) = CALLDATA_BYTES /\ Len(t) = TEXT_BYTES

(* The four relations; the sponge is injective on what it absorbs. *)
Satisfied(c, t, h_c, h_t) ==
  /\ GadgetPack(c) = h_c
  /\ GadgetPack(t) = h_t
  /\ enforce_transfer_template(c, t)
=============================================================================
