---------------------------------- MODULE Fr ----------------------------------
(***************************************************************************)
(* The operations of device_verifier_bn254/src/fr.c on field elements held *)
(* in memory, loop by loop.  A call names the cells it reads and the cell  *)
(* it writes; they may be the same cell, as in fr_add(&acc, &acc, &prod)   *)
(* and fr_pow5(&state[0], &state[0]) of poseidon.c.                        *)
(***************************************************************************)
EXTENDS Limbs

CONSTANTS
  R_MOD,    (* the group order r, as limbs                                  *)
  BYTE,     (* 2^8                                                          *)
  BPL,      (* bytes per limb: 8                                            *)
  BITS,     (* bits per limb: 64                                            *)
  Cells,    (* fr_t objects of the caller                                   *)
  Inputs    (* bound: the reduced elements the cells hold initially         *)

R == Val(R_MOD)

ASSUME FrAssumption ==
  /\ R_MOD \in Limbs /\ W <= R /\ 2 * R <= Capacity
  /\ BYTE \in Nat /\ BYTE >= 2 /\ BPL \in Nat \ {0} /\ BYTE^BPL = W
  /\ BITS \in Nat \ {0} /\ 2^BITS = W
  /\ Inputs \subseteq {n \in Limbs : Val(n) < R}
  /\ Cells # {}

(* What ^ is, as far as it is used: the provers do not know it. *)
ASSUME PowerAssumption ==
  /\ 2^0 = 1 /\ \A n \in 0 .. 8 * BITS : 2^(n + 1) = 2 * 2^n
  /\ BYTE^0 = 1 /\ \A n \in 0 .. BPL : BYTE^(n + 1) = BYTE * BYTE^n

Zero  == [i \in Limb |-> 0]
Bytes == [0 .. 4 * BPL - 1 -> 0 .. BYTE - 1]

(* Mutant: the bytes of each limb stored least significant first. *)
LittleEndianStore(x) ==
  [k \in 0 .. 4 * BPL - 1 |-> (x[3 - k \div BPL] \div BYTE^(k % BPL)) % BYTE]

(* 32 big-endian bytes: the limbs, and the bytes of each, from the top. *)
fr_to_be(x) ==
  [k \in 0 .. 4 * BPL - 1 |->
     (x[3 - k \div BPL] \div BYTE^(BPL - 1 - (k % BPL))) % BYTE]

(* Mutant: no subtraction. *)
NeverSubtract(t) == t

(* The conditional subtraction that ends each step of the long division. *)
CondSub(t) == IF cmp4(t, R_MOD) >= 0 THEN sub4(t, R_MOD) ELSE t

VARIABLES
  mem,                     (* the fr_t objects                              *)
  pc,                      (* "idle", the running loop, or "done"           *)
  op, out, a, b,           (* the call: its name and the cells it was given *)
  x, y,                    (* the operands of the product in progress       *)
  limb,                    (* fr_from_be: limb; fr_set_u64: its argument    *)
  i, j,                    (* the indices of both functions' nested loops   *)
  p, carry,                (* fr_mul: schoolbook product                    *)
  bit, rem,                (* fr_mul: long division                         *)
  stage,                   (* fr_pow5: which of its three products          *)
  old, in,                 (* history: mem at the call, fr_from_be's bytes  *)
  subs, lost               (* history: subtractions made; a carry was lost  *)

call == <<op, out, a, b>>
mul  == <<x, y, p, carry, bit, rem>>
vars == <<mem, pc, call, limb, i, j, mul, stage, old, in, subs, lost>>

Init ==
  /\ mem \in [Cells -> Inputs]
  /\ pc = "idle"
  /\ op = "none"
  /\ out = CHOOSE c \in Cells : TRUE
  /\ a = out /\ b = out
  /\ x = Zero /\ y = Zero
  /\ limb = 0 /\ i = 0 /\ j = 0 /\ carry = 0
  /\ p = [k \in 0 .. 7 |-> 0]
  /\ bit = 0 /\ rem = Zero
  /\ stage = 0
  /\ old = mem
  /\ in = [k \in 0 .. 4 * BPL - 1 |-> 0]
  /\ subs = 0 /\ lost = FALSE

-----------------------------------------------------------------------------
(* The arguments of a call: the name, the cell written and those read. *)
Call(name, o, u, v) ==
  /\ pc = "idle"
  /\ op' = name /\ out' = o /\ a' = u /\ b' = v

fr_set_u64(o, n) ==
  /\ Call("set_u64", o, o, o)
  /\ limb' = n
  /\ mem' = [mem EXCEPT ![o] = [k \in Limb |-> IF k = 0 THEN n ELSE 0]]
  /\ pc' = "done"
  /\ UNCHANGED <<i, j, mul, stage, old, in, subs, lost>>

(* fr_from_be: load byte by byte, then subtract r until the value is below *)
(* it.                                                                     *)
fr_from_be(o, bytes) ==
  /\ Call("from_be", o, o, o)
  /\ in' = bytes
  /\ i' = 0 /\ j' = 0 /\ limb' = 0
  /\ pc' = "load"
  /\ UNCHANGED <<mem, mul, stage, old, subs, lost>>

LoadByte ==
  /\ pc = "load" /\ i < 4
  /\ LET next == (limb * BYTE + in[i * BPL + j]) % W
     IN  IF j < BPL - 1
         THEN /\ limb' = next /\ j' = j + 1
              /\ UNCHANGED <<mem, i>>
         ELSE /\ mem' = [mem EXCEPT ![out][3 - i] = next]
              /\ limb' = 0 /\ j' = 0 /\ i' = i + 1
  /\ pc' = IF i' = 4 THEN "reduce" ELSE pc
  /\ UNCHANGED <<call, mul, stage, old, in, subs, lost>>

Reduce ==
  /\ pc = "reduce"
  /\ IF cmp4(mem[out], R_MOD) >= 0
     THEN /\ mem' = [mem EXCEPT ![out] = sub4(@, R_MOD)]
          /\ subs' = subs + 1
          /\ UNCHANGED pc
     ELSE /\ pc' = "done"
          /\ UNCHANGED <<mem, subs>>
  /\ UNCHANGED <<call, limb, i, j, mul, stage, old, in, lost>>

Sum(u, v) ==
  LET t == add4(u, v)
  IN  IF t.carry = 1 \/ cmp4(t.out, R_MOD) >= 0 THEN sub4(t.out, R_MOD) ELSE t.out

Difference(u, v) ==
  IF cmp4(u, v) >= 0 THEN sub4(u, v) ELSE sub4(add4(u, R_MOD).out, v)

fr_add(o, u, v) ==
  /\ Call("add", o, u, v)
  /\ mem' = [mem EXCEPT ![o] = Sum(mem[u], mem[v])]
  /\ lost' = (add4(mem[u], mem[v]).carry = 1)
  /\ pc' = "done"
  /\ UNCHANGED <<limb, i, j, mul, stage, old, in, subs>>

fr_sub(o, u, v) ==
  /\ Call("sub", o, u, v)
  /\ mem' = [mem EXCEPT ![o] = Difference(mem[u], mem[v])]
  /\ lost' = (cmp4(mem[u], mem[v]) < 0 /\ add4(mem[u], R_MOD).carry = 1)
  /\ pc' = "done"
  /\ UNCHANGED <<limb, i, j, mul, stage, old, in, subs>>

-----------------------------------------------------------------------------
(* fr_mul of the values u and v: p is zeroed, both loops start. *)
StartMul(u, v) ==
  /\ x' = u /\ y' = v
  /\ i' = 0 /\ j' = 0 /\ carry' = 0
  /\ p' = [k \in 0 .. 7 |-> 0]
  /\ bit' = 0 /\ rem' = Zero
  /\ pc' = "rows"

fr_mul(o, u, v) ==
  /\ Call("mul", o, u, v)
  /\ StartMul(mem[u], mem[v])
  /\ UNCHANGED <<mem, limb, stage, old, in, subs, lost>>

fr_pow5(o, u) ==
  /\ Call("pow5", o, u, u)
  /\ StartMul(mem[u], mem[u])
  /\ stage' = 1
  /\ UNCHANGED <<mem, limb, old, in, subs, lost>>

MulColumn ==
  /\ pc = "rows" /\ j < 4
  /\ LET m == MulAcc(p[i + j], x[i], y[j], carry)
     IN  /\ p' = [p EXCEPT ![i + j] = m.word]
         /\ carry' = m.carry
         /\ lost' = (lost \/ m.high >= W)
  /\ j' = j + 1
  /\ UNCHANGED <<mem, pc, call, limb, x, y, i, bit, rem, stage, old, in, subs>>

MulRow ==
  /\ pc = "rows" /\ j = 4
  /\ p' = [p EXCEPT ![i + 4] = (@ + carry) % W]
  /\ lost' = (lost \/ p[i + 4] + carry >= W)
  /\ i' = i + 1 /\ j' = 0 /\ carry' = 0
  /\ IF i = 3 THEN pc' = "divide" /\ bit' = 8 * BITS - 1 ELSE UNCHANGED <<pc, bit>>
  /\ UNCHANGED <<mem, call, limb, x, y, rem, stage, old, in, subs>>

(* Mutant: the bits of each word from the bottom up. *)
MirroredBit == Bool((p[bit \div BITS] \div 2^(BITS - 1 - (bit % BITS))) % 2 = 1)

(* One bit of the long division: shift the remainder, bring down a bit of  *)
(* the product, subtract r if it fits.                                     *)
ProductBit == Bool((p[bit \div BITS] \div 2^(bit % BITS)) % 2 = 1)

DivStep ==
  /\ pc = "divide" /\ bit >= 0
  /\ rem' = CondSub(ShiftIn(rem, ProductBit))
  /\ lost' = (lost \/ TopBit(rem[3]) = 1)
  /\ bit' = bit - 1
  /\ UNCHANGED <<mem, pc, call, limb, x, y, i, j, p, carry, stage, old, in, subs>>

(* The copy to out, or the next product of fr_pow5: a^2, a^4, then a^5. *)
MulDone ==
  /\ pc = "divide" /\ bit < 0
  /\ IF op = "pow5" /\ stage < 3
     THEN /\ StartMul(rem, IF stage = 1 THEN rem ELSE mem[a])
          /\ stage' = stage + 1
          /\ UNCHANGED mem
     ELSE /\ mem' = [mem EXCEPT ![out] = rem]
          /\ pc' = "done"
          /\ UNCHANGED <<i, j, mul, stage>>
  /\ UNCHANGED <<call, limb, old, in, subs, lost>>

Next ==
  \/ \E o \in Cells :
       \/ \E n \in Word : fr_set_u64(o, n)
       \/ \E bytes \in Bytes : fr_from_be(o, bytes)
       \/ \E u \in Cells : fr_pow5(o, u)
       \/ \E u, v \in Cells : fr_add(o, u, v) \/ fr_sub(o, u, v) \/ fr_mul(o, u, v)
  \/ LoadByte \/ Reduce \/ MulColumn \/ MulRow \/ DivStep \/ MulDone

Spec == Init /\ [][Next]_vars

-----------------------------------------------------------------------------
Val8(q) == Val([k \in Limb |-> q[k]]) + Capacity * Val([k \in Limb |-> q[k + 4]])

TypeOK ==
  /\ mem \in [Cells -> Limbs]
  /\ pc \in {"idle", "load", "reduce", "rows", "divide", "done"}
  /\ op \in {"none", "set_u64", "from_be", "add", "sub", "mul", "pow5"}
  /\ {out, a, b} \subseteq Cells
  /\ x \in Limbs /\ y \in Limbs /\ rem \in Limbs
  /\ limb \in Word /\ i \in 0 .. 4 /\ j \in Nat
  /\ p \in [0 .. 7 -> Word] /\ carry \in Word
  /\ bit \in -1 .. 8 * BITS - 1
  /\ stage \in 0 .. 3
  /\ old \in [Cells -> Limbs] /\ in \in Bytes
  /\ subs \in Nat /\ lost \in BOOLEAN

(* The big-endian integer of fr_from_be's bytes. *)
BigEndian(bytes) ==
  LET v[k \in 0 .. 4 * BPL] == IF k = 0 THEN 0 ELSE v[k - 1] * BYTE + bytes[k - 1]
  IN  v[4 * BPL]

Expected ==
  LET u == Val(old[a])  v == Val(old[b])
  IN  CASE op = "set_u64" -> limb
        [] op = "from_be" -> BigEndian(in) % R
        [] op = "add"     -> (u + v) % R
        [] op = "sub"     -> (u - v) % R
        [] op = "mul"     -> (u * v) % R
        [] op = "pow5"    -> (u * u * u * u * u) % R

(* Every operation leaves in out the canonical result for the operands as  *)
(* they were at the call, whichever cells coincide, and no other cell      *)
(* changes.                                                                *)
ResultCorrect ==
  pc = "done" => /\ Val(mem[out]) = Expected
                 /\ \A c \in Cells \ {out} : mem[c] = old[c]

(* fr.c:98, 110, 126-127 and 139: no carry the code drops is ever set.     *)
(* Neither is the bit that rem <<= 1 shifts out.                           *)
NoCarryLost == ~ lost

(* The long division: after the bits above bit, the remainder is that of   *)
(* the product's upper part, reduced.                                      *)
RemainderOfUpperPart ==
  pc = "divide" => Val(rem) = (Val8(p) \div 2^(bit + 1)) % R

(* fr_to_be writes the big-endian bytes of the value fr_from_be read. *)
StoreLoads ==
  pc = "done" => BigEndian(fr_to_be(mem[out])) = Val(mem[out])

(* fr.c:78: "any 256-bit value is < 4r (r ~ 2^254), so at most 3           *)
(* subtractions".  A 256-bit value can be as large as 5r and more.         *)
AtMostThreeSubtractions == subs <= 3
=============================================================================
