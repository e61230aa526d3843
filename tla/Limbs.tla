-------------------------------- MODULE Limbs --------------------------------
(***************************************************************************)
(* The limb arithmetic under device_verifier_bn254/src/fr.c: a field       *)
(* element is four little-endian machine words.  The word is W = HALF^2    *)
(* (2^64 = (2^32)^2 in the code, which has no 128-bit type); every sum,    *)
(* difference, product and shift of uint64_t is taken % W, as in C.        *)
(***************************************************************************)
EXTENDS Integers

CONSTANT HALF   (* 2^32: the base of the half words mul64 splits into *)

ASSUME HalfAssumption == HALF \in Nat /\ HALF >= 2 /\ HALF % 2 = 0

W     == HALF * HALF
Word  == 0 .. W - 1
Limb  == 0 .. 3
Limbs == [Limb -> Word]

(* The integer four limbs stand for. *)
Val(x) == x[0] + W * (x[1] + W * (x[2] + W * x[3]))

(* 2^256: one more than the largest integer of four limbs. *)
Capacity == W * W * W * W

Bool(p) == IF p THEN 1 ELSE 0

-----------------------------------------------------------------------------
(* -1, 0 or 1: the most significant limb in which a and b differ decides. *)
cmp4(a, b) ==
  IF a = b THEN 0
  ELSE LET m == CHOOSE i \in Limb : /\ a[i] # b[i]
                                    /\ \A j \in Limb : j > i => a[j] = b[j]
       IN  IF a[m] < b[m] THEN -1 ELSE 1

(* One limb of sub4: the difference word and the borrow it passes on. *)
SubLimb(x, y, borrow)   == (((x - y) % W) - borrow) % W

(* Mutant: the second comparison, for the incoming borrow, forgotten. *)
ForgetsBorrow(x, y, borrow) == Bool(x < y)

SubBorrow(x, y, borrow) == Bool(x < y \/ (x - y) % W < borrow)

sub4(a, b) ==
  LET b1 == SubBorrow(a[0], b[0], 0)
      b2 == SubBorrow(a[1], b[1], b1)
      b3 == SubBorrow(a[2], b[2], b2)
  IN  [i \in Limb |-> SubLimb(a[i], b[i], <<0, b1, b2, b3>>[i + 1])]

(* Mutant: a sum that is not a machine word. *)
UnboundedLimb(x, y, carry) == x + y + carry

(* One limb of add4: the sum word and the carry it passes on. *)
AddLimb(x, y, carry)  == (((x + carry) % W) + y) % W
AddCarry(x, y, carry) == Bool((x + carry) % W < carry
                               \/ AddLimb(x, y, carry) < (x + carry) % W)

add4(a, b) ==
  LET c1 == AddCarry(a[0], b[0], 0)
      c2 == AddCarry(a[1], b[1], c1)
      c3 == AddCarry(a[2], b[2], c2)
  IN  [out   |-> [i \in Limb |-> AddLimb(a[i], b[i], <<0, c1, c2, c3>>[i + 1])],
       carry |-> AddCarry(a[3], b[3], c3)]

-----------------------------------------------------------------------------
(* Word by word to a double word, from four half-word products. *)
mul64(a, b) ==
  LET a0 == a % HALF    a1 == a \div HALF
      b0 == b % HALF    b1 == b \div HALF
      p00  == (a0 * b0) % W
      mid1 == (a0 * b1 + p00 \div HALF) % W
      mid2 == (a1 * b0 + (mid1 % HALF)) % W
  IN  [lo |-> ((mid2 * HALF) % W) + (p00 % HALF),
       hi |-> (a1 * b1 + mid1 \div HALF + mid2 \div HALF) % W]

(* One step of the schoolbook product: a * b and the incoming carry are    *)
(* added to the accumulator word p; what does not fit is the next carry    *)
(* (high: before its own truncation).                                      *)
MulAcc(p, a, b, carry) ==
  LET m  == mul64(a, b)
      s  == (m.lo + p) % W
      s2 == (s + carry) % W
      c  == Bool(s < m.lo) + Bool(s2 < s)
  IN  [word |-> s2, carry |-> (m.hi + c) % W, high |-> m.hi + c]

(* rem <<= 1, and the next bit of the dividend into bit 0. *)
TopBit(x) == x \div (W \div 2)
ShiftIn(rem, bit) ==
  [i \in Limb |-> ((2 * rem[i]) % W)
                    + IF i = 0 THEN bit ELSE TopBit(rem[i - 1])]
=============================================================================
