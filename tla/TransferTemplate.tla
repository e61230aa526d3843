-------------------------- MODULE TransferTemplate --------------------------
(***************************************************************************)
(* template.rs: the layout of a transfer's call data and of the text that  *)
(* renders it.  Bytes are ASCII codes; widths are constants.               *)
(***************************************************************************)
EXTENDS Integers, SequencesExt

CONSTANTS
  SELECTOR,                   (* 4 bytes                              *)
  TO_PADDING, TO_BYTES,       (* 12 zero bytes, 20 bytes of address   *)
  AMOUNT_PADDING,             (* 24 zero bytes                        *)
  AMOUNT_BYTES,               (* 8 bytes of amount                    *)
  AMOUNT_INT_DIGITS,          (* 10                                   *)
  AMOUNT_FRAC_DIGITS,         (* 6                                    *)
  PREFIX, MIDDLE,             (* "Send ", " USDC to 0x"               *)
  TEXT_BYTES,                 (* 96                                   *)
  Err                         (* render_transfer_text returned Err    *)

Byte  == 0 .. 255
DOT   == 46
SPACE == 32

AMOUNT_DIGITS == AMOUNT_INT_DIGITS + AMOUNT_FRAC_DIGITS
AMOUNT_MAX    == 10 ^ AMOUNT_DIGITS

(* Positions count from zero, as in the code; At reads a position. *)
At(s, pos) == s[pos + 1]
Part(s, from, to) == SubSeq(s, from + 1, to)     \* s[from..to]

TO_POS         == Len(SELECTOR) + TO_PADDING
SLOT_POS       == TO_POS + TO_BYTES              \* of the amount's slot
AMOUNT_POS     == SLOT_POS + AMOUNT_PADDING
CALLDATA_BYTES == AMOUNT_POS + AMOUNT_BYTES

INT_POS    == Len(PREFIX)
DOT_POS    == INT_POS + AMOUNT_INT_DIGITS
FRAC_POS   == DOT_POS + 1
MIDDLE_POS == FRAC_POS + AMOUNT_FRAC_DIGITS
HEX_POS    == MIDDLE_POS + Len(MIDDLE)
HEX_END    == HEX_POS + 2 * TO_BYTES

ASSUME TemplateAssumption ==
  /\ SELECTOR \in Seq(Byte) /\ PREFIX \in Seq(Byte) /\ MIDDLE \in Seq(Byte)
  /\ {TO_PADDING, TO_BYTES, AMOUNT_PADDING, AMOUNT_BYTES,
      AMOUNT_INT_DIGITS, AMOUNT_FRAC_DIGITS, TEXT_BYTES} \subseteq Nat
  /\ HEX_END <= TEXT_BYTES
  /\ Err \notin Seq(Byte)

(* x in n digits of the base, the most significant first. *)
Digits(x, base, n) == [k \in 1 .. n |-> (x \div base ^ (n - k)) % base]

build_transfer_calldata(to, amount) ==
  SELECTOR \o [k \in 1 .. TO_PADDING |-> 0] \o to
           \o [k \in 1 .. AMOUNT_PADDING |-> 0] \o Digits(amount, 256, AMOUNT_BYTES)

FromBE(s) == FoldLeft(LAMBDA acc, c : acc * 256 + c, 0, s)

AllZero(s) == \A k \in DOMAIN s : s[k] = 0

HexChar(v) == IF v < 10 THEN 48 + v ELSE 97 + v - 10

(* {:0N$} of the integer and of the fraction part, and two characters for  *)
(* each byte of the address; a digit is its code from '0'.                 *)
render_transfer_text(c) ==
  LET amount == FromBE(Part(c, AMOUNT_POS, CALLDATA_BYTES))
      unit == 10 ^ AMOUNT_FRAC_DIGITS
      decimal(x, n) == [k \in 1 .. n |-> 48 + Digits(x, 10, n)[k]]
      to == Part(c, TO_POS, SLOT_POS)
      hex == [k \in 1 .. 2 * TO_BYTES |->
                HexChar(IF k % 2 = 1 THEN to[(k + 1) \div 2] \div 16 ELSE to[k \div 2] % 16)]
      text == PREFIX \o decimal(amount \div unit, AMOUNT_INT_DIGITS) \o <<DOT>>
                \o decimal(amount % unit, AMOUNT_FRAC_DIGITS) \o MIDDLE \o hex
  IN  IF \/ Len(c) # CALLDATA_BYTES
         \/ Part(c, 0, Len(SELECTOR)) # SELECTOR
         \/ ~ AllZero(Part(c, Len(SELECTOR), TO_POS))
         \/ ~ AllZero(Part(c, SLOT_POS, AMOUNT_POS))
         \/ amount >= AMOUNT_MAX
      THEN Err
      ELSE text \o [k \in 1 .. TEXT_BYTES - Len(text) |-> SPACE]
=============================================================================
