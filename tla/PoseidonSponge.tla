--------------------------- MODULE PoseidonSponge ---------------------------
(***************************************************************************)
(* device_verifier_bn254/src/poseidon.c: the tables converted by the first *)
(* call, the permutation loop by loop, and the sponge that absorbs lazily. *)
(* Field operations are those of Fr, here on integers below P.             *)
(***************************************************************************)
EXTENDS Integers, SequencesExt

CONSTANTS
  P,                                (* the field's modulus                  *)
  POSEIDON_WIDTH,                   (* 3                                    *)
  POSEIDON_FULL_ROUNDS,             (* 8                                    *)
  POSEIDON_PARTIAL_ROUNDS,          (* 56                                   *)
  POSEIDON_ARK, POSEIDON_MDS,       (* the tables, as big-endian bytes      *)
  BYTE,                             (* 2^8                                  *)
  CHUNK,                            (* 31; a buffer is one byte longer      *)
  Elements, Messages,               (* bound: the arguments of the two hashes *)
  NoArg,                            (* no call is running                   *)
  MaxCalls                          (* bound: different calls               *)

WIDTH == POSEIDON_WIDTH
TOTAL == POSEIDON_FULL_ROUNDS + POSEIDON_PARTIAL_ROUNDS
RATE  == WIDTH - 1
Slot  == 0 .. WIDTH - 1
Field == 0 .. P - 1

ASSUME PoseidonAssumption ==
  /\ P \in Nat /\ P > 1 /\ CHUNK \in Nat \ {0} /\ BYTE \in Nat /\ BYTE > 1
  /\ POSEIDON_WIDTH \in Nat /\ POSEIDON_WIDTH > 1
  /\ POSEIDON_FULL_ROUNDS \in Nat \ {0} /\ POSEIDON_FULL_ROUNDS % 2 = 0
  /\ POSEIDON_PARTIAL_ROUNDS \in Nat
  /\ POSEIDON_ARK \in [0 .. TOTAL - 1 -> [Slot -> Seq(0 .. BYTE - 1)]]
  /\ POSEIDON_MDS \in [Slot -> [Slot -> Seq(0 .. BYTE - 1)]]
  /\ MaxCalls \in Nat
  /\ Elements \subseteq Field
  /\ \A m \in Messages : m \in Seq(0 .. BYTE - 1) /\ Len(m) < P

Args == [fn : {"fr"}, v : {<<x>> : x \in Elements}] \cup [fn : {"bytes"}, v : Messages]

ASSUME NoArgAssumption == NoArg \notin Args /\ NoArg \notin Field

(* A chunk is less than the modulus; ^ as far as chunks need it. *)
ASSUME ChunkAssumption ==
  /\ BYTE^0 = 1 /\ \A n \in 0 .. CHUNK - 1 : BYTE^(n + 1) = BYTE * BYTE^n
  /\ BYTE^CHUNK <= P

fr_from_be(s) ==
  LET value[k \in 0 .. Len(s)] == IF k = 0 THEN 0 ELSE value[k - 1] * BYTE + s[k]
  IN  value[Len(s)] % P
fr_add(x, y)  == (x + y) % P
fr_mul(x, y)  == (x * y) % P
fr_pow5(x)    == (x * x * x * x * x) % P

VARIABLES
  ARK, MDS, initialized,   (* static: the converted tables                *)
  pc,                      (* where the call is                           *)
  arg,                     (* the running call                            *)
  r,                       (* poseidon_init: row of ARK, then of MDS      *)
  state, idx, e, off,      (* the sponge and the chunk loop               *)
  round, i, next,          (* permute                                     *)
  ret,                     (* where permute returns to                    *)
  out,                     (* the caller's result                         *)
  absorbed, log            (* history: elements of this call; past calls  *)

tables  == <<ARK, MDS, initialized, r>>
sponge  == <<idx, e, off, absorbed>>
perm    == <<round, i, next, ret>>
history == <<out, log>>
vars    == <<tables, pc, arg, state, sponge, perm, history>>

Zeros == [c \in Slot |-> 0]

(* ARK, MDS and initialized are in BSS. *)
Init ==
  /\ ARK = [k \in 0 .. TOTAL - 1 |-> Zeros] /\ MDS = [k \in Slot |-> Zeros]
  /\ initialized = FALSE /\ r = 0
  /\ pc = "idle" /\ arg = NoArg
  /\ state = Zeros /\ idx = 0 /\ e = 0 /\ off = 0 /\ absorbed = <<>>
  /\ round = 0 /\ i = 0 /\ next = Zeros /\ ret = "squeeze"
  /\ out = NoArg /\ log = {}

-----------------------------------------------------------------------------
(* poseidon_init *)

Call(x) ==
  /\ pc = "idle" /\ Cardinality(log) < MaxCalls
  /\ arg' = x /\ absorbed' = <<>> /\ out' = NoArg
  /\ r' = 0 /\ pc' = IF initialized THEN "start" ELSE "init"
  /\ UNCHANGED <<ARK, MDS, initialized, state, idx, e, off, perm, log>>

poseidon_hash_fr(x)    == Call([fn |-> "fr", v |-> <<x>>])
poseidon_hash_bytes(m) == Call([fn |-> "bytes", v |-> m])

InitArk ==
  /\ pc = "init" /\ r < TOTAL
  /\ ARK' = [ARK EXCEPT ![r] = [c \in Slot |-> fr_from_be(POSEIDON_ARK[r][c])]]
  /\ r' = r + 1
  /\ UNCHANGED <<MDS, initialized, pc, arg, state, sponge, perm, history>>

MdsRow(k) == [c \in Slot |-> fr_from_be(POSEIDON_MDS[k][c])]

InitMds ==
  /\ pc = "init" /\ r \in TOTAL .. TOTAL + WIDTH - 1
  /\ MDS' = [MDS EXCEPT ![r - TOTAL] = MdsRow(r - TOTAL)]
  /\ r' = r + 1
  /\ UNCHANGED <<ARK, initialized, pc, arg, state, sponge, perm, history>>

Initialized ==
  /\ pc = "init" /\ r = TOTAL + WIDTH
  /\ initialized' = TRUE /\ pc' = "start"
  /\ UNCHANGED <<ARK, MDS, r, arg, state, sponge, perm, history>>

-----------------------------------------------------------------------------
(* permute *)

Permute(after) == pc' = "ark" /\ round' = 0 /\ ret' = after /\ UNCHANGED <<i, next>>

AddRoundKeys ==
  /\ pc = "ark"
  /\ state' = [c \in Slot |-> fr_add(state[c], ARK[round][c])]
  /\ pc' = "sbox"
  /\ UNCHANGED <<tables, arg, sponge, perm, history>>

(* Mutant: one partial round treated as full. *)
FullFromStart(n) ==
  n <= POSEIDON_FULL_ROUNDS \div 2
    \/ n >= POSEIDON_FULL_ROUNDS \div 2 + POSEIDON_PARTIAL_ROUNDS

is_full(n) ==
  n < POSEIDON_FULL_ROUNDS \div 2
    \/ n >= POSEIDON_FULL_ROUNDS \div 2 + POSEIDON_PARTIAL_ROUNDS

SBox ==
  /\ pc = "sbox"
  /\ state' = [c \in Slot |-> IF is_full(round) \/ c = 0 THEN fr_pow5(state[c]) ELSE state[c]]
  /\ pc' = "mds" /\ i' = 0
  /\ UNCHANGED <<tables, arg, sponge, round, next, ret, history>>

(* One row of the product, accumulated element by element. *)
MdsProduct(k) ==
  LET acc[j \in 0 .. WIDTH] ==
        IF j = 0 THEN 0 ELSE fr_add(acc[j - 1], fr_mul(MDS[k][j - 1], state[j - 1]))
  IN  acc[WIDTH]

MixRow ==
  /\ pc = "mds" /\ i < WIDTH
  /\ next' = [next EXCEPT ![i] = MdsProduct(i)]
  /\ i' = i + 1
  /\ UNCHANGED <<tables, pc, arg, state, sponge, round, ret, history>>

(* memcpy, and the next round or the end of permute. *)
Mixed ==
  /\ pc = "mds" /\ i = WIDTH
  /\ state' = next /\ round' = round + 1
  /\ pc' = IF round + 1 < TOTAL THEN "ark" ELSE ret
  /\ UNCHANGED <<tables, arg, sponge, i, next, ret, history>>

-----------------------------------------------------------------------------
(* The two hashes *)

StartFr ==
  /\ pc = "start" /\ arg.fn = "fr"
  /\ state' = [Zeros EXCEPT ![1] = arg.v[1]]
  /\ absorbed' = arg.v
  /\ Permute("squeeze")
  /\ UNCHANGED <<tables, arg, idx, e, off, history>>

(* Mutant: no length prefix. *)
NoLength(m) == 0

LengthElement(m) == Len(m)

StartBytes ==
  /\ pc = "start" /\ arg.fn = "bytes"
  /\ state' = Zeros /\ idx' = 0 /\ off' = 0
  /\ e' = LengthElement(arg.v)
  /\ pc' = "absorb"
  /\ UNCHANGED <<tables, arg, absorbed, perm, history>>

(* Mutant: the capacity counted as a slot of the rate. *)
WholeWidth == idx = WIDTH

RateFull == idx = WIDTH - 1

(* Mutant: the position is not set back. *)
KeepIdx == idx

ResetIdx == 0

sponge_absorb ==
  /\ pc = "absorb"
  /\ IF RateFull
       THEN /\ Permute("absorb") /\ idx' = ResetIdx
            /\ UNCHANGED <<state, absorbed>>
       ELSE /\ state' = [state EXCEPT ![1 + idx] = fr_add(@, e)]
            /\ idx' = idx + 1 /\ pc' = "load"
            /\ absorbed' = Append(absorbed, e)
            /\ UNCHANGED perm
  /\ UNCHANGED <<tables, arg, e, off, history>>

ChunkLen(left) == IF left > CHUNK THEN CHUNK ELSE left

(* Mutant: left-aligned, as memcpy(buf, data + off, n) would. *)
LeftAligned(m, from, n) ==
  [k \in 1 .. CHUNK + 1 |-> IF k <= n THEN m[from + k] ELSE 0]

(* buf: the chunk, right-aligned after zeros. *)
Buffer(m, from, n) ==
  [k \in 1 .. CHUNK + 1 |->
     IF k > CHUNK + 1 - n THEN m[from + k - (CHUNK + 1 - n)] ELSE 0]

LoadChunk ==
  LET n == ChunkLen(Len(arg.v) - off)
  IN  /\ pc = "load" /\ off < Len(arg.v)
      /\ e' = fr_from_be(Buffer(arg.v, off, n))
      /\ off' = off + n /\ pc' = "absorb"
      /\ UNCHANGED <<tables, arg, state, idx, absorbed, perm, history>>

LastPermute ==
  /\ pc = "load" /\ off >= Len(arg.v)
  /\ Permute("squeeze")
  /\ UNCHANGED <<tables, arg, state, sponge, history>>

Squeeze ==
  /\ pc = "squeeze"
  /\ out' = state[1] /\ arg' = NoArg /\ pc' = "idle"
  /\ log' = log \cup {[arg |-> arg, absorbed |-> absorbed]}
  /\ UNCHANGED <<tables, state, sponge, perm>>

-----------------------------------------------------------------------------
Run == \/ InitArk \/ InitMds \/ Initialized
       \/ AddRoundKeys \/ SBox \/ MixRow \/ Mixed
       \/ StartFr \/ StartBytes \/ sponge_absorb \/ LoadChunk \/ LastPermute \/ Squeeze

Next == \/ Run
        \/ \E x \in Elements : poseidon_hash_fr(x)
        \/ \E m \in Messages : poseidon_hash_bytes(m)

(* The processor keeps running a call once it is made. *)
Spec == Init /\ [][Next]_vars /\ WF_vars(Run)

-----------------------------------------------------------------------------
(* Properties *)

(* TypeOK: the sponge holds field elements and every index of permute,     *)
(* sponge_absorb and the chunk loop stays inside its array.                *)
TypeOK ==
  /\ ARK \in [0 .. TOTAL - 1 -> [Slot -> Field]] /\ MDS \in [Slot -> [Slot -> Field]]
  /\ initialized \in BOOLEAN /\ r \in 0 .. TOTAL + WIDTH
  /\ pc \in {"idle", "init", "start", "ark", "sbox", "mds", "absorb", "load", "squeeze"}
  /\ arg \in Args \cup {NoArg} /\ (arg = NoArg <=> pc = "idle")
  /\ state \in [Slot -> Field] /\ e \in Field /\ next \in [Slot -> Field]
  /\ idx \in 0 .. RATE /\ i \in 0 .. WIDTH /\ ret \in {"absorb", "squeeze"}
  /\ round \in 0 .. TOTAL /\ (pc \in {"ark", "sbox", "mds"} => round < TOTAL)
  /\ off \in Nat /\ (pc \in {"absorb", "load"} => off <= Len(arg.v))
  /\ out \in Field \cup {NoArg}

ArkTable == [k \in 0 .. TOTAL - 1 |-> [c \in Slot |-> fr_from_be(POSEIDON_ARK[k][c])]]
MdsTable == [k \in Slot |-> [c \in Slot |-> fr_from_be(POSEIDON_MDS[k][c])]]

(* The prover's hash, with the same parameters. *)
Rust == INSTANCE ArkPoseidon
          WITH FULL <- POSEIDON_FULL_ROUNDS, PARTIAL <- POSEIDON_PARTIAL_ROUNDS,
               ark <- ArkTable, mds <- MdsTable

ElementsOf(a) == IF a.fn = "fr" THEN a.v ELSE Rust!Pack(a.v)

(* Between two chunks, the sponge that permutes lazily holds what the      *)
(* prover's sponge holds after the same elements, and these are the first  *)
(* of pack(data): no element skipped, repeated or read past the end.       *)
SpongeTracksPack ==
  pc = "load" =>
    /\ IsPrefix(absorbed, ElementsOf(arg))
    /\ LET rust == Rust!Absorbed(absorbed) IN \A c \in Slot : state[c] = rust[c + 1]
    /\ off >= Len(arg.v) => absorbed = ElementsOf(arg)

(* pack.rs: the length prefix separates inputs whose padded chunks collide,*)
(* and a chunk never needs reduction.  So two calls on different byte      *)
(* strings never absorb the same elements.                                 *)
DistinctMessagesAbsorbDifferently ==
  \A c, d \in log : c.arg.fn = "bytes" /\ d.arg.fn = "bytes" /\ c.absorbed = d.absorbed
                      => c.arg = d.arg

RustHash == [a \in Args |-> IF a.fn = "fr" THEN Rust!poseidon_hash(a.v[1])
                                           ELSE Rust!poseidon_hash_bytes(a.v)]

Abstract == INSTANCE PureCall WITH result <- out, F <- RustHash

(* poseidon.h: both functions match the prover's exactly, whatever was     *)
(* hashed before and whether or not the tables were already converted.     *)
(* The loops of the permutation, the chunks and the lazy absorption end:   *)
(* every call returns.                                                     *)
ImplementsRustHash == Abstract!Spec /\ Abstract!Returns
=============================================================================
