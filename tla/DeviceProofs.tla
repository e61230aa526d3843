---------------------------- MODULE DeviceProofs ----------------------------
(***************************************************************************)
(* The programs of the device, for any vectors in flash, any number of     *)
(* timed iterations and any number of resets: what the watch window and    *)
(* the exit code say is true.  The inductive invariant follows main from   *)
(* one position to the next: what each phase has left behind once it is    *)
(* passed, and nothing of it before.                                       *)
(*                                                                         *)
(* The last part is about the counter the programs time themselves with:   *)
(* what SysTick guarantees for every reload value, every number of phases  *)
(* and every bound, from the inductive invariant SysTickInv.               *)
(***************************************************************************)
EXTENDS Device, SysTick, FiniteSetTheorems, FunctionTheorems, SequenceTheorems, TLAPS

Steps == main(image.program)

Clear  == image.program = "clear_signing_m4"
Multi  == image.program = "multi_pairing_m4"
Single == image.program = "single_pairing_m4"

(* Where main's steps are. *)
Base         == IF Multi THEN 6 ELSE 5
StartAt      == IF Clear THEN 3 ELSE Base
DecodeAt     == IF Clear THEN 11 ELSE 2
PrepareAt    == IF Clear THEN 13 ELSE 3
PairAt       == IF Clear THEN 16 ELSE 4
JudgeAt      == IF Clear THEN 18 ELSE IF Multi THEN 5 ELSE 4
ElapsedAt(k) == IF Clear THEN <<6, 9, 14, 17>>[k] ELSE Base + 3 * k
DoneAt       == IF Clear THEN 19 ELSE Base + 3 * PAIRING_ITERS + 1

RamShape ==
  /\ ram = [initialized |-> ram.initialized, tables |-> ram.tables,
            g_hashes_ok |-> ram.g_hashes_ok, g_valid |-> ram.g_valid,
            g_cycles |-> ram.g_cycles, g_cycles_total |-> ram.g_cycles_total,
            g_done |-> ram.g_done]
  /\ ram.g_cycles = [k \in Slots |-> ram.g_cycles[k]]

Typed ==
  /\ image \in Images /\ RamShape
  /\ pc \in 0 .. Len(Steps) /\ counting \in BOOLEAN
  /\ pi = <<pi[1], pi[2]>>
  /\ rc \in {None, 0, 1} /\ reason \in {None, "ApplicationExit", "InternalError"}
  /\ resets \in 0 .. MaxResets

(* The flag of poseidon.c and its tables. *)
Tables ==
  /\ ram.initialized \in {0, 1}
  /\ ram.initialized = 1 <=> ram.tables = "converted"
  /\ Clear /\ pc > 2 => ram.initialized = 1

(* A phase runs between a reset of the counter and its reading. *)
Timing ==
  /\ pc > StartAt => counting = TRUE
  /\ \A k \in Slots : /\ pc = ElapsedAt(k) - 1 => spent = <<>>
                      /\ pc = ElapsedAt(k) => spent = <<Work(k)>>
                      /\ ram.g_cycles[k] = IF pc > ElapsedAt(k) THEN <<Work(k)>> ELSE <<>>

Hashed ==
  Clear => /\ pc > 5 => pi[1] = image.h[1]
           /\ pc > 8 => pi[2] = image.h[2]
           /\ pc > 10 => (ram.g_hashes_ok = 1) = HashesMatch

Whole == \A k \in DOMAIN Encodings : Encodings[k] # OFF

Decoded == pc > DecodeAt => points = Encodings /\ Whole

Prepared ==
  pc > PrepareAt => L = IF Single THEN (2 * points[1]) % Q
                                  ELSE InputPoint(image.setup, image.h)

Paired == ~ Single /\ pc > PairAt => result = MultiPairing

Judged ==
  pc > JudgeAt => /\ (ram.g_valid = 1) = ProofHolds
                  /\ Clear => ram.g_cycles_total = FlattenSeq(ram.g_cycles)

Announced == ram.g_done = 1 => pc > DoneAt

Live ==
  /\ Tables /\ Timing /\ Hashed /\ Decoded /\ Prepared /\ Paired /\ Judged /\ Announced
  /\ pc > 1 => image.init_ok

(* The exit code, and the reason the debugger gets. *)
Exits ==
  /\ rc # None => (rc = 0) = Succeeds
  /\ reason # None => (reason = "ApplicationExit") = Succeeds

IInv == Typed /\ (pc > 0 => Live) /\ Exits

-----------------------------------------------------------------------------
(* The steps of main *)

Ops == {"pairing_init", "warm_up", "systick_init", "systick_reset", "systick_elapsed", "hash_c",
        "hash_t", "compare_hashes", "decode", "prepare", "pairing", "verdict", "double", "bilinear",
        "done", "return"}

Joined(u, v, w) ==
  /\ Len(w) = Len(u) + Len(v)
  /\ \A k \in 1 .. Len(u) : w[k] = u[k]
  /\ \A k \in 1 .. Len(v) : w[Len(u) + k] = v[k]

LEMMA Join ==
  ASSUME NEW S, NEW u \in Seq(S), NEW v \in Seq(S)
  PROVE  u \o v \in Seq(S) /\ Joined(u, v, u \o v)
BY DEF Joined

LEMMA TimedFacts ==
  ASSUME NEW work \in Ops
  PROVE  /\ Timed(work) \in Seq(Ops) /\ Len(Timed(work)) = 3
         /\ Timed(work)[1] = "systick_reset" /\ Timed(work)[2] = work
         /\ Timed(work)[3] = "systick_elapsed"
<1>1. "systick_reset" \in Ops /\ "systick_elapsed" \in Ops
  BY DEF Ops
<1>2. ASSUME NEW S, NEW a \in S, NEW b \in S, NEW c \in S
      PROVE  <<a, b, c>> \in Seq(S)
  OBVIOUS
<1>3. <<"systick_reset", work, "systick_elapsed">> \in Seq(Ops)
  BY <1>1, <1>2
<1> QED BY <1>3 DEF Timed

LEMMA ClearList ==
  /\ Len(ClearSigningSteps) = 20
  /\ LET s == ClearSigningSteps
     IN  /\ s[1] = "pairing_init" /\ s[2] = "warm_up" /\ s[3] = "systick_init"
         /\ s[4] = "systick_reset" /\ s[5] = "hash_c" /\ s[6] = "systick_elapsed"
         /\ s[7] = "systick_reset" /\ s[8] = "hash_t" /\ s[9] = "systick_elapsed"
         /\ s[10] = "compare_hashes" /\ s[11] = "decode"
         /\ s[12] = "systick_reset" /\ s[13] = "prepare" /\ s[14] = "systick_elapsed"
         /\ s[15] = "systick_reset" /\ s[16] = "pairing" /\ s[17] = "systick_elapsed"
         /\ s[18] = "verdict" /\ s[19] = "done" /\ s[20] = "return"
<1> DEFINE v1 == <<"pairing_init", "warm_up", "systick_init">>
           v2 == Timed("hash_c")
           v3 == Timed("hash_t")
           v4 == <<"compare_hashes", "decode">>
           v5 == Timed("prepare")
           v6 == Timed("pairing")
           v7 == <<"verdict", "done", "return">>
           u2 == v1 \o v2
           u3 == u2 \o v3
           u4 == u3 \o v4
           u5 == u4 \o v5
           u6 == u5 \o v6
           u7 == u6 \o v7
<1>0. ClearSigningSteps = u7
  BY DEF ClearSigningSteps
<1>1. v1 \in Seq(Ops) /\ v4 \in Seq(Ops) /\ v7 \in Seq(Ops)
  BY DEF Ops
<1>2. /\ v2 \in Seq(Ops) /\ v3 \in Seq(Ops) /\ v5 \in Seq(Ops) /\ v6 \in Seq(Ops)
      /\ Len(v2) = 3 /\ v2[1] = "systick_reset" /\ v2[2] = "hash_c" /\ v2[3] = "systick_elapsed"
      /\ Len(v3) = 3 /\ v3[1] = "systick_reset" /\ v3[2] = "hash_t" /\ v3[3] = "systick_elapsed"
      /\ Len(v5) = 3 /\ v5[1] = "systick_reset" /\ v5[2] = "prepare" /\ v5[3] = "systick_elapsed"
      /\ Len(v6) = 3 /\ v6[1] = "systick_reset" /\ v6[2] = "pairing" /\ v6[3] = "systick_elapsed"
  <2>1. "hash_c" \in Ops /\ "hash_t" \in Ops /\ "prepare" \in Ops /\ "pairing" \in Ops
    BY DEF Ops
  <2> QED BY <2>1, TimedFacts
<1>3. /\ Len(v1) = 3 /\ v1[1] = "pairing_init" /\ v1[2] = "warm_up" /\ v1[3] = "systick_init"
      /\ Len(v4) = 2 /\ v4[1] = "compare_hashes" /\ v4[2] = "decode"
      /\ Len(v7) = 3 /\ v7[1] = "verdict" /\ v7[2] = "done" /\ v7[3] = "return"
  OBVIOUS
<1> HIDE DEF v1, v2, v3, v4, v5, v6, v7
<1>4. u2 \in Seq(Ops) /\ Joined(v1, v2, u2)
  BY <1>1, <1>2, Join
<1> HIDE DEF u2
<1>5. u3 \in Seq(Ops) /\ Joined(u2, v3, u3)
  BY <1>1, <1>2, <1>4, Join
<1> HIDE DEF u3
<1>6. u4 \in Seq(Ops) /\ Joined(u3, v4, u4)
  BY <1>1, <1>2, <1>5, Join
<1> HIDE DEF u4
<1>7. u5 \in Seq(Ops) /\ Joined(u4, v5, u5)
  BY <1>1, <1>2, <1>6, Join
<1> HIDE DEF u5
<1>8. u6 \in Seq(Ops) /\ Joined(u5, v6, u6)
  BY <1>1, <1>2, <1>7, Join
<1> HIDE DEF u6
<1>9. u7 \in Seq(Ops) /\ Joined(u6, v7, u7)
  BY <1>1, <1>2, <1>8, Join
<1> HIDE DEF u7
<1>10. /\ Len(u2) = 6 /\ \A k \in 1 .. 3 : u2[k] = v1[k]
      /\ u2[4] = v2[1] /\ u2[5] = v2[2] /\ u2[6] = v2[3]
  BY <1>2, <1>3, <1>4 DEF Joined
<1>11. /\ Len(u3) = 9 /\ \A k \in 1 .. 6 : u3[k] = u2[k]
      /\ u3[7] = v3[1] /\ u3[8] = v3[2] /\ u3[9] = v3[3]
  BY <1>2, <1>3, <1>5, <1>10 DEF Joined
<1>12. /\ Len(u4) = 11 /\ \A k \in 1 .. 9 : u4[k] = u3[k]
      /\ u4[10] = v4[1] /\ u4[11] = v4[2]
  BY <1>2, <1>3, <1>6, <1>11 DEF Joined
<1>13. /\ Len(u5) = 14 /\ \A k \in 1 .. 11 : u5[k] = u4[k]
      /\ u5[12] = v5[1] /\ u5[13] = v5[2] /\ u5[14] = v5[3]
  BY <1>2, <1>3, <1>7, <1>12 DEF Joined
<1>14. /\ Len(u6) = 17 /\ \A k \in 1 .. 14 : u6[k] = u5[k]
      /\ u6[15] = v6[1] /\ u6[16] = v6[2] /\ u6[17] = v6[3]
  BY <1>2, <1>3, <1>8, <1>13 DEF Joined
<1>15. /\ Len(u7) = 20 /\ \A k \in 1 .. 17 : u7[k] = u6[k]
      /\ u7[18] = v7[1] /\ u7[19] = v7[2] /\ u7[20] = v7[3]
  BY <1>2, <1>3, <1>9, <1>14 DEF Joined
<1> QED BY <1>0, <1>2, <1>3, <1>10, <1>11, <1>12, <1>13, <1>14, <1>15

(* Each iteration is a reset, a pairing and a reading. *)
LEMMA IterationsFacts ==
  /\ Iterations \in Seq(Ops) /\ Len(Iterations) = 3 * PAIRING_ITERS
  /\ \A k \in 1 .. PAIRING_ITERS : /\ Iterations[3 * k - 2] = "systick_reset"
                                   /\ Iterations[3 * k - 1] = "pairing"
                                   /\ Iterations[3 * k] = "systick_elapsed"
<1> DEFINE N == PAIRING_ITERS
<1>0. N \in Nat
  BY ImagesAssumption
<1> HIDE DEF N
<1> DEFINE t == Timed("pairing")
<1>1. t \in [1 .. 3 -> Ops] /\ t[1] = "systick_reset" /\ t[2] = "pairing" /\ t[3] = "systick_elapsed"
  <2>1. "pairing" \in Ops
    BY DEF Ops
  <2>2. /\ t \in Seq(Ops) /\ Len(t) = 3
        /\ t[1] = "systick_reset" /\ t[2] = "pairing" /\ t[3] = "systick_elapsed"
    BY <2>1, TimedFacts
  <2> HIDE DEF t
  <2> QED BY <2>2
<1> HIDE DEF t
<1>2. \A k \in 1 .. 3 * N : ((k - 1) % 3) + 1 \in 1 .. 3
  BY <1>0
<1> DEFINE it == [k \in 1 .. 3 * N |-> t[((k - 1) % 3) + 1]]
<1>3. it \in [1 .. 3 * N -> Ops]
  BY <1>1, <1>2
<1>4. 3 * N \in Nat
  BY <1>0
<1>5. it \in Seq(Ops) /\ Len(it) = 3 * N
  BY <1>3, <1>4
<1>6. ASSUME NEW k \in 1 .. N
      PROVE  it[3 * k - 2] = t[1] /\ it[3 * k - 1] = t[2] /\ it[3 * k] = t[3]
  <2>1. /\ 3 * k - 2 \in 1 .. 3 * N /\ 3 * k - 1 \in 1 .. 3 * N /\ 3 * k \in 1 .. 3 * N
    BY <1>0
  <2>2. /\ ((3 * k - 2 - 1) % 3) + 1 = 1 /\ ((3 * k - 1 - 1) % 3) + 1 = 2
        /\ ((3 * k - 1) % 3) + 1 = 3
    BY <1>0
  <2> QED BY <2>1, <2>2
<1>7. Iterations = it
  BY DEF Iterations, it, t, N
<1> HIDE DEF it
<1> QED BY <1>1, <1>5, <1>6, <1>7 DEF N

(* What comes before the iterations is given; what comes after is done and *)
(* return.                                                                 *)
LEMMA LoopList ==
  ASSUME NEW u \in Seq(Ops)
  PROVE  LET s == u \o Iterations \o <<"done", "return">>
         IN  /\ Len(s) = Len(u) + 3 * PAIRING_ITERS + 2
             /\ \A k \in 1 .. Len(u) : s[k] = u[k]
             /\ \A k \in 1 .. PAIRING_ITERS : /\ s[Len(u) + 3 * k - 2] = "systick_reset"
                                              /\ s[Len(u) + 3 * k - 1] = "pairing"
                                              /\ s[Len(u) + 3 * k] = "systick_elapsed"
             /\ s[Len(u) + 3 * PAIRING_ITERS + 1] = "done"
             /\ s[Len(u) + 3 * PAIRING_ITERS + 2] = "return"
<1> DEFINE v == u \o Iterations
           n == Len(u)
           N == PAIRING_ITERS
<1>0. N \in Nat /\ n \in Nat
  BY ImagesAssumption
<1>1. /\ Iterations \in Seq(Ops) /\ Len(Iterations) = 3 * N
      /\ \A k \in 1 .. N : /\ Iterations[3 * k - 2] = "systick_reset"
                           /\ Iterations[3 * k - 1] = "pairing"
                           /\ Iterations[3 * k] = "systick_elapsed"
  BY IterationsFacts
<1>a. v \in Seq(Ops) /\ Joined(u, Iterations, v)
  BY <1>1, Join
<1> HIDE DEF v
<1>2. /\ v \in Seq(Ops) /\ Len(v) = n + 3 * N
      /\ \A k \in 1 .. n : v[k] = u[k]
      /\ \A k \in 1 .. 3 * N : v[n + k] = Iterations[k]
  BY <1>0, <1>1, <1>a DEF Joined
<1> HIDE DEF n, N
<1>3. \A k \in 1 .. N : /\ v[n + 3 * k - 2] = "systick_reset"
                        /\ v[n + 3 * k - 1] = "pairing"
                        /\ v[n + 3 * k] = "systick_elapsed"
  <2> TAKE k \in 1 .. N
  <2> DEFINE e1 == 3 * k - 2
             e2 == 3 * k - 1
             e3 == 3 * k
  <2>1. /\ e1 \in 1 .. 3 * N /\ e2 \in 1 .. 3 * N /\ e3 \in 1 .. 3 * N
        /\ n + 3 * k - 2 = n + e1 /\ n + 3 * k - 1 = n + e2 /\ n + 3 * k = n + e3
    BY <1>0
  <2>2. Iterations[e1] = "systick_reset" /\ Iterations[e2] = "pairing" /\ Iterations[e3] = "systick_elapsed"
    BY <1>1
  <2> HIDE DEF e1, e2, e3
  <2> QED BY <1>2, <2>1, <2>2
<1> DEFINE e == <<"done", "return">>
           w == v \o e
           m == Len(v)
<1>4. /\ m = n + 3 * N /\ m \in Nat
  BY <1>0, <1>2
<1>b. e \in Seq(Ops)
  BY DEF Ops
<1>c. Len(e) = 2 /\ e[1] = "done" /\ e[2] = "return"
  OBVIOUS
<1> HIDE DEF e
<1>d. w \in Seq(Ops) /\ Joined(v, e, w)
  BY <1>2, <1>b, Join
<1> HIDE DEF w
<1>5. /\ Len(w) = m + 2
      /\ \A k \in 1 .. m : w[k] = v[k]
      /\ w[m + 1] = "done" /\ w[m + 2] = "return"
  BY <1>c, <1>d DEF Joined
<1> HIDE DEF m
<1>6. /\ \A k \in 1 .. n : k \in 1 .. m
      /\ \A k \in 1 .. N : n + 3 * k - 2 \in 1 .. m /\ n + 3 * k - 1 \in 1 .. m /\ n + 3 * k \in 1 .. m
  BY <1>0, <1>4
<1>7. \A k \in 1 .. n : w[k] = u[k]
  BY <1>2, <1>5, <1>6
<1>8. \A k \in 1 .. N : /\ w[n + 3 * k - 2] = "systick_reset"
                        /\ w[n + 3 * k - 1] = "pairing"
                        /\ w[n + 3 * k] = "systick_elapsed"
  BY <1>3, <1>5, <1>6
<1> QED BY <1>4, <1>5, <1>7, <1>8 DEF w, v, n, N, e

LEMMA MultiList ==
  LET s == MultiPairingSteps
  IN  /\ Len(s) = 8 + 3 * PAIRING_ITERS
      /\ s[1] = "pairing_init" /\ s[2] = "decode" /\ s[3] = "prepare" /\ s[4] = "pairing"
      /\ s[5] = "verdict" /\ s[6] = "systick_init"
      /\ \A k \in 1 .. PAIRING_ITERS : /\ s[6 + 3 * k - 2] = "systick_reset"
                                       /\ s[6 + 3 * k - 1] = "pairing"
                                       /\ s[6 + 3 * k] = "systick_elapsed"
      /\ s[6 + 3 * PAIRING_ITERS + 1] = "done" /\ s[6 + 3 * PAIRING_ITERS + 2] = "return"
<1> DEFINE u == <<"pairing_init", "decode", "prepare", "pairing", "verdict", "systick_init">>
<1>1. /\ Len(u) = 6
      /\ u[1] = "pairing_init" /\ u[2] = "decode" /\ u[3] = "prepare" /\ u[4] = "pairing"
      /\ u[5] = "verdict" /\ u[6] = "systick_init"
  OBVIOUS
<1>a. u \in Seq(Ops)
  BY DEF Ops
<1>2. MultiPairingSteps = u \o Iterations \o <<"done", "return">>
  BY DEF MultiPairingSteps
<1> HIDE DEF u
<1>3. PAIRING_ITERS \in Nat
  BY ImagesAssumption
<1> DEFINE s == MultiPairingSteps
<1>4. /\ Len(s) = 6 + 3 * PAIRING_ITERS + 2
      /\ \A k \in 1 .. 6 : s[k] = u[k]
      /\ \A k \in 1 .. PAIRING_ITERS : /\ s[6 + 3 * k - 2] = "systick_reset"
                                       /\ s[6 + 3 * k - 1] = "pairing"
                                       /\ s[6 + 3 * k] = "systick_elapsed"
      /\ s[6 + 3 * PAIRING_ITERS + 1] = "done" /\ s[6 + 3 * PAIRING_ITERS + 2] = "return"
  BY <1>1, <1>a, <1>2, LoopList
<1> HIDE DEF s
<1>5. s[1] = u[1] /\ s[2] = u[2] /\ s[3] = u[3] /\ s[4] = u[4] /\ s[5] = u[5] /\ s[6] = u[6]
  BY <1>4
<1>6. Len(s) = 8 + 3 * PAIRING_ITERS
  BY <1>3, <1>4
<1> QED BY <1>1, <1>4, <1>5, <1>6 DEF s

LEMMA SingleList ==
  LET s == SinglePairingSteps
  IN  /\ Len(s) = 7 + 3 * PAIRING_ITERS
      /\ s[1] = "pairing_init" /\ s[2] = "decode" /\ s[3] = "double" /\ s[4] = "bilinear"
      /\ s[5] = "systick_init"
      /\ \A k \in 1 .. PAIRING_ITERS : /\ s[5 + 3 * k - 2] = "systick_reset"
                                       /\ s[5 + 3 * k - 1] = "pairing"
                                       /\ s[5 + 3 * k] = "systick_elapsed"
      /\ s[5 + 3 * PAIRING_ITERS + 1] = "done" /\ s[5 + 3 * PAIRING_ITERS + 2] = "return"
<1> DEFINE u == <<"pairing_init", "decode", "double", "bilinear", "systick_init">>
<1>1. /\ Len(u) = 5
      /\ u[1] = "pairing_init" /\ u[2] = "decode" /\ u[3] = "double" /\ u[4] = "bilinear"
      /\ u[5] = "systick_init"
  OBVIOUS
<1>a. u \in Seq(Ops)
  BY DEF Ops
<1>2. SinglePairingSteps = u \o Iterations \o <<"done", "return">>
  BY DEF SinglePairingSteps
<1> HIDE DEF u
<1>3. PAIRING_ITERS \in Nat
  BY ImagesAssumption
<1> DEFINE s == SinglePairingSteps
<1>4. /\ Len(s) = 5 + 3 * PAIRING_ITERS + 2
      /\ \A k \in 1 .. 5 : s[k] = u[k]
      /\ \A k \in 1 .. PAIRING_ITERS : /\ s[5 + 3 * k - 2] = "systick_reset"
                                       /\ s[5 + 3 * k - 1] = "pairing"
                                       /\ s[5 + 3 * k] = "systick_elapsed"
      /\ s[5 + 3 * PAIRING_ITERS + 1] = "done" /\ s[5 + 3 * PAIRING_ITERS + 2] = "return"
  BY <1>1, <1>a, <1>2, LoopList
<1> HIDE DEF s
<1>5. s[1] = u[1] /\ s[2] = u[2] /\ s[3] = u[3] /\ s[4] = u[4] /\ s[5] = u[5]
  BY <1>4
<1>6. Len(s) = 7 + 3 * PAIRING_ITERS
  BY <1>3, <1>4
<1> QED BY <1>1, <1>4, <1>5, <1>6 DEF s

-----------------------------------------------------------------------------
(* Where they are *)

LEMMA ClearWhere ==
  ASSUME NEW p \in 1 .. 20
  PROVE  LET op == ClearSigningSteps[p]
         IN  /\ op \notin {"double", "bilinear"}
             /\ op = "pairing_init" <=> p = 1
             /\ op = "warm_up" <=> p = 2
             /\ op = "systick_init" <=> p = 3
             /\ op = "hash_c" <=> p = 5
             /\ op = "hash_t" <=> p = 8
             /\ op = "compare_hashes" <=> p = 10
             /\ op = "decode" <=> p = 11
             /\ op = "prepare" <=> p = 13
             /\ op = "pairing" <=> p = 16
             /\ op = "verdict" <=> p = 18
             /\ op = "done" <=> p = 19
             /\ op = "return" <=> p = 20
             /\ op = "systick_reset" <=> p \in {4, 7, 12, 15}
             /\ op = "systick_elapsed" <=> p \in {6, 9, 14, 17}
<1>1. \/ p = 1 \/ p = 2 \/ p = 3 \/ p = 4 \/ p = 5 \/ p = 6 \/ p = 7 \/ p = 8 \/ p = 9 \/ p = 10
      \/ p = 11 \/ p = 12 \/ p = 13 \/ p = 14 \/ p = 15 \/ p = 16 \/ p = 17 \/ p = 18 \/ p = 19
      \/ p = 20
  OBVIOUS
<1> QED BY <1>1, ClearList

LEMMA MultiWhere ==
  ASSUME NEW p \in 1 .. 8 + 3 * PAIRING_ITERS
  PROVE  LET op == MultiPairingSteps[p]
         IN  /\ op \notin {"warm_up", "hash_c", "hash_t", "compare_hashes", "double", "bilinear"}
             /\ op = "pairing_init" <=> p = 1
             /\ op = "decode" <=> p = 2
             /\ op = "systick_init" <=> p = 6
             /\ op = "prepare" <=> p = 3
             /\ op = "verdict" <=> p = 5
             /\ op = "pairing" <=> p = 4 \/ \E k \in 1 .. PAIRING_ITERS : p = 6 + 3 * k - 1
             /\ op = "systick_reset" <=> \E k \in 1 .. PAIRING_ITERS : p = 6 + 3 * k - 2
             /\ op = "systick_elapsed" <=> \E k \in 1 .. PAIRING_ITERS : p = 6 + 3 * k
             /\ op = "done" <=> p = 7 + 3 * PAIRING_ITERS
             /\ op = "return" <=> p = 8 + 3 * PAIRING_ITERS
<1> DEFINE N == PAIRING_ITERS
           s == MultiPairingSteps
<1>0. N \in Nat
  BY ImagesAssumption
<1>1. s[1] = "pairing_init" /\ s[2] = "decode" /\ s[3] = "prepare" /\ s[4] = "pairing" /\ s[5] = "verdict" /\ s[6] = "systick_init"
  BY MultiList
<1>2. /\ \A k \in 1 .. N : /\ s[6 + 3 * k - 2] = "systick_reset"
                         /\ s[6 + 3 * k - 1] = "pairing"
                         /\ s[6 + 3 * k] = "systick_elapsed"
      /\ s[6 + 3 * N + 1] = "done" /\ s[6 + 3 * N + 2] = "return"
  BY MultiList
<1> HIDE DEF s, N
<1>3. p \in 1 .. 8 + 3 * N
  BY DEF N
<1>4. ASSUME NEW k \in 1 .. N
      PROVE  /\ 6 + 3 * k - 2 \in Nat /\ 6 + 3 * k - 1 \in Nat /\ 6 + 3 * k \in Nat
             /\ 6 + 3 * k - 2 > 6 /\ 6 + 3 * k - 1 > 6 /\ 6 + 3 * k > 6
             /\ 6 + 3 * k < 7 + 3 * N
  BY <1>0, <1>4
<1>5. \A k, l \in 1 .. N : /\ 6 + 3 * k - 2 # 6 + 3 * l - 1 /\ 6 + 3 * k - 2 # 6 + 3 * l
                         /\ 6 + 3 * k - 1 # 6 + 3 * l
  BY <1>0
<1>6. \/ p \in 1 .. 6 \/ p = 7 + 3 * N \/ p = 8 + 3 * N
      \/ \E k \in 1 .. N : p = 6 + 3 * k - 2 \/ p = 6 + 3 * k - 1 \/ p = 6 + 3 * k
  <2> DEFINE k == (p - 6 + 2) \div 3
  <2>1. p \in 7 .. 6 + 3 * N => k \in 1 .. N /\ (p = 6 + 3 * k - 2 \/ p = 6 + 3 * k - 1 \/ p = 6 + 3 * k)
    BY <1>0
  <2> QED BY <1>0, <1>3, <2>1
<1> DEFINE Q0 == \E k \in 1 .. N : p = 6 + 3 * k - 2
           Q1 == \E k \in 1 .. N : p = 6 + 3 * k - 1
           Q2 == \E k \in 1 .. N : p = 6 + 3 * k
<1>7. /\ p \in 1 .. 6 => ~ Q0 /\ ~ Q1 /\ ~ Q2
      /\ p = 7 + 3 * N \/ p = 8 + 3 * N => ~ Q0 /\ ~ Q1 /\ ~ Q2 /\ p \notin 1 .. 6
      /\ Q0 \/ Q1 \/ Q2 => p \notin 1 .. 6 /\ p # 7 + 3 * N /\ p # 8 + 3 * N
      /\ p \in 1 .. 6 => p # 7 + 3 * N /\ p # 8 + 3 * N
      /\ 7 + 3 * N # 8 + 3 * N
  BY <1>0, <1>4
<1>8. /\ Q0 => ~ Q1 /\ ~ Q2
      /\ Q1 => ~ Q2
  BY <1>5
<1>9. /\ Q0 => s[p] = "systick_reset"
      /\ Q1 => s[p] = "pairing"
      /\ Q2 => s[p] = "systick_elapsed"
      /\ p = 7 + 3 * N => s[p] = "done"
      /\ p = 8 + 3 * N => s[p] = "return"
  <2>1. 6 + 3 * N + 1 = 7 + 3 * N /\ 6 + 3 * N + 2 = 8 + 3 * N
    BY <1>0
  <2> QED BY <1>2, <2>1
<1>10. p \in 1 .. 6 \/ p = 7 + 3 * N \/ p = 8 + 3 * N \/ Q0 \/ Q1 \/ Q2
  BY <1>6
<1> HIDE DEF Q0, Q1, Q2
<1>11. CASE p \in 1 .. 6
  <2>1. p = 1 \/ p = 2 \/ p = 3 \/ p = 4 \/ p = 5 \/ p = 6
    BY <1>11
  <2>2. ~ Q0 /\ ~ Q1 /\ ~ Q2 /\ p # 7 + 3 * N /\ p # 8 + 3 * N
    BY <1>7, <1>11
  <2> QED BY <1>1, <2>1, <2>2 DEF s, N, Q0, Q1, Q2
<1>12. CASE p \notin 1 .. 6
  <2>1. p # 1 /\ p # 2 /\ p # 3 /\ p # 4 /\ p # 5 /\ p # 6
    BY <1>12
  <2> QED BY <1>7, <1>8, <1>9, <1>10, <1>12, <2>1 DEF s, N, Q0, Q1, Q2
<1> QED BY <1>11, <1>12


LEMMA SingleWhere ==
  ASSUME NEW p \in 1 .. 7 + 3 * PAIRING_ITERS
  PROVE  LET op == SinglePairingSteps[p]
         IN  /\ op \notin {"warm_up", "hash_c", "hash_t", "compare_hashes", "prepare", "verdict"}
             /\ op = "pairing_init" <=> p = 1
             /\ op = "decode" <=> p = 2
             /\ op = "systick_init" <=> p = 5
             /\ op = "double" <=> p = 3
             /\ op = "bilinear" <=> p = 4
             /\ op = "pairing" <=> \E k \in 1 .. PAIRING_ITERS : p = 5 + 3 * k - 1
             /\ op = "systick_reset" <=> \E k \in 1 .. PAIRING_ITERS : p = 5 + 3 * k - 2
             /\ op = "systick_elapsed" <=> \E k \in 1 .. PAIRING_ITERS : p = 5 + 3 * k
             /\ op = "done" <=> p = 6 + 3 * PAIRING_ITERS
             /\ op = "return" <=> p = 7 + 3 * PAIRING_ITERS
<1> DEFINE N == PAIRING_ITERS
           s == SinglePairingSteps
<1>0. N \in Nat
  BY ImagesAssumption
<1>1. s[1] = "pairing_init" /\ s[2] = "decode" /\ s[3] = "double" /\ s[4] = "bilinear" /\ s[5] = "systick_init"
  BY SingleList
<1>2. /\ \A k \in 1 .. N : /\ s[5 + 3 * k - 2] = "systick_reset"
                         /\ s[5 + 3 * k - 1] = "pairing"
                         /\ s[5 + 3 * k] = "systick_elapsed"
      /\ s[5 + 3 * N + 1] = "done" /\ s[5 + 3 * N + 2] = "return"
  BY SingleList
<1> HIDE DEF s, N
<1>3. p \in 1 .. 7 + 3 * N
  BY DEF N
<1>4. ASSUME NEW k \in 1 .. N
      PROVE  /\ 5 + 3 * k - 2 \in Nat /\ 5 + 3 * k - 1 \in Nat /\ 5 + 3 * k \in Nat
             /\ 5 + 3 * k - 2 > 5 /\ 5 + 3 * k - 1 > 5 /\ 5 + 3 * k > 5
             /\ 5 + 3 * k < 6 + 3 * N
  BY <1>0, <1>4
<1>5. \A k, l \in 1 .. N : /\ 5 + 3 * k - 2 # 5 + 3 * l - 1 /\ 5 + 3 * k - 2 # 5 + 3 * l
                         /\ 5 + 3 * k - 1 # 5 + 3 * l
  BY <1>0
<1>6. \/ p \in 1 .. 5 \/ p = 6 + 3 * N \/ p = 7 + 3 * N
      \/ \E k \in 1 .. N : p = 5 + 3 * k - 2 \/ p = 5 + 3 * k - 1 \/ p = 5 + 3 * k
  <2> DEFINE k == (p - 5 + 2) \div 3
  <2>1. p \in 6 .. 5 + 3 * N => k \in 1 .. N /\ (p = 5 + 3 * k - 2 \/ p = 5 + 3 * k - 1 \/ p = 5 + 3 * k)
    BY <1>0
  <2> QED BY <1>0, <1>3, <2>1
<1> DEFINE Q0 == \E k \in 1 .. N : p = 5 + 3 * k - 2
           Q1 == \E k \in 1 .. N : p = 5 + 3 * k - 1
           Q2 == \E k \in 1 .. N : p = 5 + 3 * k
<1>7. /\ p \in 1 .. 5 => ~ Q0 /\ ~ Q1 /\ ~ Q2
      /\ p = 6 + 3 * N \/ p = 7 + 3 * N => ~ Q0 /\ ~ Q1 /\ ~ Q2 /\ p \notin 1 .. 5
      /\ Q0 \/ Q1 \/ Q2 => p \notin 1 .. 5 /\ p # 6 + 3 * N /\ p # 7 + 3 * N
      /\ p \in 1 .. 5 => p # 6 + 3 * N /\ p # 7 + 3 * N
      /\ 6 + 3 * N # 7 + 3 * N
  BY <1>0, <1>4
<1>8. /\ Q0 => ~ Q1 /\ ~ Q2
      /\ Q1 => ~ Q2
  BY <1>5
<1>9. /\ Q0 => s[p] = "systick_reset"
      /\ Q1 => s[p] = "pairing"
      /\ Q2 => s[p] = "systick_elapsed"
      /\ p = 6 + 3 * N => s[p] = "done"
      /\ p = 7 + 3 * N => s[p] = "return"
  <2>1. 5 + 3 * N + 1 = 6 + 3 * N /\ 5 + 3 * N + 2 = 7 + 3 * N
    BY <1>0
  <2> QED BY <1>2, <2>1
<1>10. p \in 1 .. 5 \/ p = 6 + 3 * N \/ p = 7 + 3 * N \/ Q0 \/ Q1 \/ Q2
  BY <1>6
<1> HIDE DEF Q0, Q1, Q2
<1>11. CASE p \in 1 .. 5
  <2>1. p = 1 \/ p = 2 \/ p = 3 \/ p = 4 \/ p = 5
    BY <1>11
  <2>2. ~ Q0 /\ ~ Q1 /\ ~ Q2 /\ p # 6 + 3 * N /\ p # 7 + 3 * N
    BY <1>7, <1>11
  <2> QED BY <1>1, <2>1, <2>2 DEF s, N, Q0, Q1, Q2
<1>12. CASE p \notin 1 .. 5
  <2>1. p # 1 /\ p # 2 /\ p # 3 /\ p # 4 /\ p # 5
    BY <1>12
  <2> QED BY <1>7, <1>8, <1>9, <1>10, <1>12, <2>1 DEF s, N, Q0, Q1, Q2
<1> QED BY <1>11, <1>12

LEMMA ThreePrograms ==
  ASSUME image \in Images
  PROVE  /\ Clear => ~ Multi /\ ~ Single /\ Steps = ClearSigningSteps
         /\ Multi => ~ Clear /\ ~ Single /\ Steps = MultiPairingSteps
         /\ Single => ~ Clear /\ ~ Multi /\ Steps = SinglePairingSteps
         /\ Clear \/ Multi \/ Single
BY ImagesAssumption DEF Programs, Clear, Multi, Single, Steps, main

LEMMA SlotFacts ==
  ASSUME image \in Images
  PROVE  /\ Clear => /\ Slots = 1 .. 4 /\ ElapsedAt(1) = 6 /\ ElapsedAt(2) = 9
                     /\ ElapsedAt(3) = 14 /\ ElapsedAt(4) = 17
                     /\ Work(1) = "hash_c" /\ Work(2) = "hash_t" /\ Work(3) = "prepare"
                     /\ Work(4) = "pairing"
         /\ ~ Clear => /\ Slots = 1 .. PAIRING_ITERS
                       /\ \A k \in Slots : ElapsedAt(k) = Base + 3 * k /\ Work(k) = "pairing"
BY DEF Clear, Slots, ElapsedAt, Work

LEMMA Order ==
  ASSUME image \in Images
  PROVE  /\ \A k \in Slots : /\ k \in Nat /\ k >= 1 /\ 1 .. k \subseteq Slots
                             /\ ElapsedAt(k) \in Nat /\ StartAt < ElapsedAt(k) - 2
                             /\ ElapsedAt(k) < DoneAt /\ (Clear => ElapsedAt(k) < JudgeAt)
         /\ \A k, l \in Slots : k < l => ElapsedAt(k) + 3 <= ElapsedAt(l)
         /\ StartAt \in Nat /\ DoneAt \in Nat /\ JudgeAt < DoneAt /\ JudgeAt \in Nat
<1>0. PAIRING_ITERS \in Nat
  BY ImagesAssumption
<1>1. CASE Clear
  <2>1. Slots = 1 .. 4 /\ StartAt = 3 /\ DoneAt = 19 /\ JudgeAt = 18
    BY <1>1, SlotFacts DEF StartAt, DoneAt, JudgeAt
  <2>2. \A k \in 1 .. 4 : k = 1 \/ k = 2 \/ k = 3 \/ k = 4
    OBVIOUS
  <2>3. \A k \in Slots : ElapsedAt(k) \in 6 .. 17
    BY <1>1, <2>1, <2>2, SlotFacts
  <2>4. \A k, l \in Slots : k < l => ElapsedAt(k) + 3 <= ElapsedAt(l)
    BY <1>1, <2>1, <2>2, SlotFacts
  <2> QED BY <2>1, <2>3, <2>4
<1>2. CASE ~ Clear
  <2>1. Slots = 1 .. PAIRING_ITERS /\ \A k \in Slots : ElapsedAt(k) = Base + 3 * k
    BY <1>2, SlotFacts
  <2>2. Base \in {5, 6} /\ StartAt = Base /\ DoneAt = Base + 3 * PAIRING_ITERS + 1 /\ JudgeAt \in {4, 5}
    BY <1>2 DEF Base, StartAt, DoneAt, JudgeAt
  <2> QED BY <1>0, <1>2, <2>1, <2>2
<1> QED BY <1>1, <1>2

LEMMA Where ==
  ASSUME image \in Images, NEW p \in 1 .. Len(Steps)
  PROVE  /\ Steps[p] = "pairing_init" <=> p = 1
         /\ Steps[p] = "warm_up" <=> Clear /\ p = 2
         /\ Steps[p] = "systick_init" <=> p = StartAt
         /\ Steps[p] = "systick_reset" <=> \E k \in Slots : p = ElapsedAt(k) - 2
         /\ Steps[p] = "systick_elapsed" <=> \E k \in Slots : p = ElapsedAt(k)
         /\ Steps[p] = "hash_c" <=> Clear /\ p = 5
         /\ Steps[p] = "hash_t" <=> Clear /\ p = 8
         /\ Steps[p] = "compare_hashes" <=> Clear /\ p = 10
         /\ Steps[p] = "decode" <=> p = DecodeAt
         /\ Steps[p] = "prepare" <=> ~ Single /\ p = PrepareAt
         /\ Steps[p] = "double" <=> Single /\ p = 3
         /\ Steps[p] = "bilinear" <=> Single /\ p = 4
         /\ Steps[p] = "verdict" <=> ~ Single /\ p = JudgeAt
         /\ Steps[p] = "pairing" <=> \/ ~ Single /\ p = PairAt
                                     \/ ~ Clear /\ \E k \in Slots : p = ElapsedAt(k) - 1
         /\ Steps[p] = "done" <=> p = DoneAt
         /\ Steps[p] = "return" <=> p = DoneAt + 1
<1>0. PAIRING_ITERS \in Nat
  BY ImagesAssumption
<1>1. CASE Clear
  <2>1. /\ ~ Multi /\ ~ Single /\ Steps = ClearSigningSteps /\ p \in 1 .. 20
        /\ StartAt = 3 /\ DecodeAt = 11 /\ PrepareAt = 13 /\ PairAt = 16 /\ JudgeAt = 18 /\ DoneAt = 19
    BY <1>1, ThreePrograms, ClearList DEF StartAt, DecodeAt, PrepareAt, PairAt, JudgeAt, DoneAt
  <2>2. /\ \A k \in Slots : ElapsedAt(k) \in {6, 9, 14, 17}
        /\ 1 \in Slots /\ 2 \in Slots /\ 3 \in Slots /\ 4 \in Slots
    <3>1. \A k \in 1 .. 4 : k = 1 \/ k = 2 \/ k = 3 \/ k = 4
      OBVIOUS
    <3> QED BY <1>1, <3>1, SlotFacts
  <2>3. /\ p \in {6, 9, 14, 17} <=> \E k \in Slots : p = ElapsedAt(k)
        /\ p \in {4, 7, 12, 15} <=> \E k \in Slots : p = ElapsedAt(k) - 2
    BY <1>1, <2>1, <2>2, SlotFacts
  <2>4. LET op == Steps[p]
        IN  /\ op \notin {"double", "bilinear"}
            /\ op = "pairing_init" <=> p = 1
            /\ op = "warm_up" <=> p = 2
            /\ op = "systick_init" <=> p = 3
            /\ op = "hash_c" <=> p = 5
            /\ op = "hash_t" <=> p = 8
            /\ op = "compare_hashes" <=> p = 10
            /\ op = "decode" <=> p = 11
            /\ op = "prepare" <=> p = 13
            /\ op = "pairing" <=> p = 16
            /\ op = "verdict" <=> p = 18
            /\ op = "done" <=> p = 19
            /\ op = "return" <=> p = 20
            /\ op = "systick_reset" <=> p \in {4, 7, 12, 15}
            /\ op = "systick_elapsed" <=> p \in {6, 9, 14, 17}
    BY <2>1, ClearWhere
  <2> QED BY <1>1, <2>1, <2>3, <2>4
<1>2. CASE Multi
  <2>1. /\ ~ Clear /\ ~ Single /\ Steps = MultiPairingSteps /\ p \in 1 .. 8 + 3 * PAIRING_ITERS
        /\ Base = 6 /\ StartAt = 6 /\ DecodeAt = 2 /\ PrepareAt = 3 /\ PairAt = 4 /\ JudgeAt = 5
        /\ DoneAt = 7 + 3 * PAIRING_ITERS
    BY <1>0, <1>2, ThreePrograms, MultiList DEF Base, StartAt, DecodeAt, PrepareAt, PairAt, JudgeAt, DoneAt
  <2>2. Slots = 1 .. PAIRING_ITERS /\ \A k \in 1 .. PAIRING_ITERS : ElapsedAt(k) = 6 + 3 * k
    BY <2>1, SlotFacts
  <2>3. /\ (\E k \in 1 .. PAIRING_ITERS : p = 6 + 3 * k) <=> \E k \in Slots : p = ElapsedAt(k)
        /\ (\E k \in 1 .. PAIRING_ITERS : p = 6 + 3 * k - 2) <=> \E k \in Slots : p = ElapsedAt(k) - 2
        /\ (\E k \in 1 .. PAIRING_ITERS : p = 6 + 3 * k - 1) <=> \E k \in Slots : p = ElapsedAt(k) - 1
    BY <2>2
  <2>4. 8 + 3 * PAIRING_ITERS = DoneAt + 1
    BY <1>0, <2>1
  <2> QED BY <1>2, <2>1, <2>3, <2>4, MultiWhere
<1>3. CASE Single
  <2>1. /\ ~ Clear /\ ~ Multi /\ Steps = SinglePairingSteps /\ p \in 1 .. 7 + 3 * PAIRING_ITERS
        /\ Base = 5 /\ StartAt = 5 /\ DecodeAt = 2 /\ PrepareAt = 3 /\ PairAt = 4 /\ JudgeAt = 4
        /\ DoneAt = 6 + 3 * PAIRING_ITERS
    BY <1>0, <1>3, ThreePrograms, SingleList DEF Base, StartAt, DecodeAt, PrepareAt, PairAt, JudgeAt, DoneAt
  <2>2. Slots = 1 .. PAIRING_ITERS /\ \A k \in 1 .. PAIRING_ITERS : ElapsedAt(k) = 5 + 3 * k
    BY <2>1, SlotFacts
  <2>3. /\ (\E k \in 1 .. PAIRING_ITERS : p = 5 + 3 * k) <=> \E k \in Slots : p = ElapsedAt(k)
        /\ (\E k \in 1 .. PAIRING_ITERS : p = 5 + 3 * k - 2) <=> \E k \in Slots : p = ElapsedAt(k) - 2
        /\ (\E k \in 1 .. PAIRING_ITERS : p = 5 + 3 * k - 1) <=> \E k \in Slots : p = ElapsedAt(k) - 1
    BY <2>2
  <2>4. 7 + 3 * PAIRING_ITERS = DoneAt + 1
    BY <1>0, <2>1
  <2> QED BY <1>3, <2>1, <2>3, <2>4, SingleWhere
<1> QED BY <1>1, <1>2, <1>3, ThreePrograms

LEMMA LastStep == ASSUME image \in Images PROVE Len(Steps) = DoneAt + 1
<1>0. PAIRING_ITERS \in Nat
  BY ImagesAssumption
<1>1. CASE Clear
  <2>1. Len(Steps) = 20 /\ DoneAt = 19
    BY <1>1, ThreePrograms, ClearList DEF DoneAt
  <2> QED BY <2>1
<1>2. CASE Multi
  <2>1. Steps = MultiPairingSteps /\ ~ Clear /\ Base = 6
    BY <1>2, ThreePrograms DEF Base
  <2>2. Len(Steps) = 8 + 3 * PAIRING_ITERS
    BY <2>1, MultiList
  <2> QED BY <1>0, <2>1, <2>2 DEF DoneAt
<1>3. CASE Single
  <2>1. Steps = SinglePairingSteps /\ ~ Clear /\ Base = 5
    BY <1>3, ThreePrograms DEF Base
  <2>2. Len(Steps) = 7 + 3 * PAIRING_ITERS
    BY <2>1, SingleList
  <2> QED BY <1>0, <2>1, <2>2 DEF DoneAt
<1> QED BY <1>1, <1>2, <1>3, ThreePrograms

(* The step before a reading is its slot's work. *)
LEMMA WorkThere ==
  ASSUME image \in Images, NEW k \in Slots
  PROVE  /\ ElapsedAt(k) \in 1 .. Len(Steps) /\ ElapsedAt(k) - 1 \in 1 .. Len(Steps)
         /\ Steps[ElapsedAt(k) - 1] = Work(k)
<1>1. /\ ElapsedAt(k) \in 1 .. Len(Steps) /\ ElapsedAt(k) - 1 \in 1 .. Len(Steps)
  BY Order, LastStep
<1>2. CASE Clear
  <2>1. k = 1 \/ k = 2 \/ k = 3 \/ k = 4
    BY <1>2, SlotFacts
  <2> QED BY <1>1, <1>2, <2>1, SlotFacts, ThreePrograms, ClearList
<1>3. CASE ~ Clear
  <2> DEFINE p == ElapsedAt(k) - 1
  <2>1. \E l \in Slots : p = ElapsedAt(l) - 1
    OBVIOUS
  <2>2. p \in 1 .. Len(Steps)
    BY <1>1
  <2> HIDE DEF p
  <2>3. Steps[p] = "pairing"
    BY <1>3, <2>1, <2>2, Where
  <2> QED BY <1>1, <1>3, <2>3, SlotFacts DEF p
<1> QED BY <1>2, <1>3

(* systick_elapsed stores its k-th result in slot k. *)
LEMMA SlotIs ==
  ASSUME image \in Images, NEW k \in Slots, pc = ElapsedAt(k)
  PROVE  Slot = k
<1> DEFINE S == {j \in 1 .. pc : Steps[j] = "systick_elapsed"}
           f == [i \in 1 .. k |-> ElapsedAt(i)]
<1>1. k \in Nat /\ 1 .. k \subseteq Slots /\ pc \in 1 .. Len(Steps)
  BY Order, WorkThere
<1>2. \A i \in 1 .. k : ElapsedAt(i) \in S
  <2> TAKE i \in 1 .. k
  <2>1. i \in Slots /\ i <= k /\ (i = k \/ i < k)
    BY <1>1
  <2>2. ElapsedAt(i) \in 1 .. pc /\ ElapsedAt(i) \in 1 .. Len(Steps)
    <3>1. ElapsedAt(i) \in 1 .. Len(Steps) /\ ElapsedAt(k) \in 1 .. Len(Steps)
      BY <2>1, WorkThere
    <3>2. i = k \/ ElapsedAt(i) < ElapsedAt(k)
      BY <2>1, Order
    <3> QED BY <1>1, <3>1, <3>2
  <2> DEFINE p == ElapsedAt(i)
  <2>3. \E l \in Slots : p = ElapsedAt(l)
    BY <2>1
  <2>4. p \in 1 .. Len(Steps)
    BY <2>2
  <2> HIDE DEF p
  <2>5. Steps[p] = "systick_elapsed"
    BY <2>3, <2>4, Where
  <2> QED BY <2>2, <2>5 DEF p
<1>3. ASSUME NEW j \in S PROVE \E i \in 1 .. k : j = ElapsedAt(i)
  <2>1. j \in 1 .. Len(Steps) /\ Steps[j] = "systick_elapsed" /\ j <= pc
    BY <1>1
  <2>2. PICK i \in Slots : j = ElapsedAt(i)
    BY <2>1, Where
  <2>3. i <= k
    BY <2>1, <2>2, Order
  <2>4. i \in 1 .. k
    BY <2>2, <2>3, Order
  <2> QED BY <2>2, <2>4
<1>4. \A a, b \in 1 .. k : a # b => ElapsedAt(a) # ElapsedAt(b)
  <2> TAKE a, b \in 1 .. k
  <2>1. a \in Slots /\ b \in Slots /\ (a = b \/ a < b \/ b < a)
    BY <1>1
  <2> QED BY <2>1, Order
<1> HIDE DEF S
<1>5. f \in Bijection(1 .. k, S)
  <2>1. f \in [1 .. k -> S]
    BY <1>2
  <2>2. \A a, b \in 1 .. k : f[a] = f[b] => a = b
    BY <1>4
  <2>3. \A t \in S : \E i \in 1 .. k : f[i] = t
    BY <1>3
  <2> HIDE DEF f
  <2> QED BY <2>1, <2>2, <2>3, Fun_IsBij
<1>6. ExistsBijection(1 .. k, S)
  BY <1>5 DEF ExistsBijection
<1>7. Cardinality(S) = k
  BY <1>1, <1>6, FS_CountingElements
<1> QED BY <1>7 DEF Slot, S, Steps

-----------------------------------------------------------------------------
(* The groups *)

LEMMA QType == Q \in Nat \ {0} /\ Q \in Int /\ Q > 1 /\ OFF \notin Int
BY GroupAssumption

LEMMA DivMod ==
  ASSUME NEW v \in Int, NEW w \in Nat \ {0}
  PROVE  v \div w \in Int /\ v % w \in 0 .. w - 1 /\ v = (v \div w) * w + (v % w)
OBVIOUS

LEMMA NoMultipleBetween ==
  ASSUME NEW d \in Int, NEW w \in Nat \ {0}, d >= 1
  PROVE  d * w >= w
<1>1. (d - 1) * w >= 0
  OBVIOUS
<1>2. (d - 1) * w = d * w - w
  OBVIOUS
<1> QED BY <1>1, <1>2

(* Two numbers have the same remainder exactly when they differ by a       *)
(* multiple of Q.                                                          *)
LEMMA SameRemainder ==
  ASSUME NEW u \in Int, NEW v \in Int
  PROVE  u % Q = v % Q <=> \E k \in Int : u = v + k * Q
<1> DEFINE a == u \div Q
           b == v \div Q
           m == u % Q
           n == v % Q
<1>1. /\ a \in Int /\ m \in 0 .. Q - 1 /\ u = a * Q + m
      /\ b \in Int /\ n \in 0 .. Q - 1 /\ v = b * Q + n
  BY QType, DivMod
<1> HIDE DEF a, b, m, n
<1>2. ASSUME m = n PROVE \E k \in Int : u = v + k * Q
  <2>1. u = v + (a - b) * Q /\ a - b \in Int
    BY <1>1, <1>2, QType
  <2> QED BY <2>1
<1>3. ASSUME NEW k \in Int, u = v + k * Q PROVE m = n
  <2>1. (b + k - a) * Q = m - n /\ (a - b - k) * Q = n - m
    BY <1>1, <1>3, QType
  <2>2. ~ (b + k - a >= 1)
    BY <1>1, <2>1, QType, NoMultipleBetween
  <2>3. ~ (a - b - k >= 1)
    BY <1>1, <2>1, QType, NoMultipleBetween
  <2>4. b + k - a = 0
    BY <1>1, <2>2, <2>3
  <2> QED BY <1>1, <2>1, <2>4, QType
<1> QED BY <1>2, <1>3 DEF m, n

(* e(A, B) e(L, -gamma) e(C, -delta) = e(alpha, beta): the terms of the    *)
(* device's product that the statement has on the other side.              *)
LEMMA MovedAcross ==
  ASSUME NEW x \in Int, NEW y \in Int, NEW l \in Int, NEW g \in Int, NEW c \in Int, NEW d \in Int
  PROVE  (x + l * (Q - g) + c * (Q - d)) % Q = y % Q <=> x % Q = (y + l * g + c * d) % Q
<1> DEFINE u == x + l * (Q - g) + c * (Q - d)
           v == y + l * g + c * d
<1>1. u \in Int /\ v \in Int
  BY QType
<1>2. u = x - l * g - c * d + (l + c) * Q
  BY QType
<1>3. ASSUME NEW k \in Int, u = y + k * Q PROVE \E j \in Int : x = v + j * Q
  <2>1. x = v + (k - l - c) * Q /\ k - l - c \in Int
    BY <1>2, <1>3, QType
  <2> QED BY <2>1
<1>4. ASSUME NEW k \in Int, x = v + k * Q PROVE \E j \in Int : u = y + j * Q
  <2>1. u = y + (k + l + c) * Q /\ k + l + c \in Int
    BY <1>2, <1>4, QType
  <2> QED BY <2>1
<1> HIDE DEF u, v
<1>5. u % Q = y % Q <=> \E k \in Int : u = y + k * Q
  BY <1>1, SameRemainder
<1>6. x % Q = v % Q <=> \E k \in Int : x = v + k * Q
  BY <1>1, SameRemainder
<1>7. u % Q = y % Q <=> x % Q = v % Q
  BY <1>3, <1>4, <1>5, <1>6
<1> QED BY <1>7 DEF u, v

(* e(2 A, B) = e(A, B)^2 *)
LEMMA DoubledOnce ==
  ASSUME NEW a \in Int, NEW b \in Int
  PROVE  (((2 * a) % Q) * b) % Q = (((a * b) % Q) + ((a * b) % Q)) % Q
<1> DEFINE i == (2 * a) \div Q
           m == (2 * a) % Q
           j == (a * b) \div Q
           n == (a * b) % Q
<1>1. /\ i \in Int /\ m \in Int /\ 2 * a = i * Q + m
      /\ j \in Int /\ n \in Int /\ a * b = j * Q + n
  <2>1. 2 * a \in Int /\ a * b \in Int
    OBVIOUS
  <2> QED BY <2>1, QType, DivMod
<1> HIDE DEF i, m, j, n
<1>2. m * b = (n + n) + (2 * j - i * b) * Q
  <2>1. m * b = 2 * (a * b) - (i * b) * Q
    BY <1>1, QType
  <2> QED BY <1>1, <2>1, QType
<1>3. m * b \in Int /\ n + n \in Int /\ 2 * j - i * b \in Int
  BY <1>1
<1> DEFINE u == m * b
           v == n + n
           k == 2 * j - i * b
<1>4. u \in Int /\ v \in Int /\ k \in Int /\ u = v + k * Q
  BY <1>2, <1>3
<1> HIDE DEF u, v, k
<1>5. u % Q = v % Q
  BY <1>4, SameRemainder
<1> QED BY <1>5, Zenon DEF u, v, m, n

SumsTo(n, ic, input, f) ==
  f = [k \in 0 .. n |-> IF k = 0 THEN ic[1] ELSE f[k - 1] + input[k] * ic[k + 1]]

LEMMA InputPointIsSum ==
  ASSUME NEW s, NEW input, NEW f, SumsTo(Len(input), s.ic, input, f)
  PROVE  \E g : SumsTo(Len(input), s.ic, input, g) /\ InputPoint(s, input) = g[Len(input)] % Q
<1> DEFINE g == CHOOSE h : SumsTo(Len(input), s.ic, input, h)
<1>1. SumsTo(Len(input), s.ic, input, g)
  OBVIOUS
<1>2. InputPoint(s, input) = g[Len(input)] % Q
  BY DEF InputPoint, SumsTo
<1> QED BY <1>1, <1>2

LEMMA OneInput ==
  ASSUME NEW s, NEW input, Len(input) = 1
  PROVE  InputPoint(s, input) = (s.ic[1] + input[1] * s.ic[2]) % Q
<1> DEFINE a == s.ic[1] + input[1] * s.ic[2]
           f == [k \in 0 .. 1 |-> IF k = 0 THEN s.ic[1] ELSE a]
<1>1. f = [k \in 0 .. 1 |-> IF k = 0 THEN s.ic[1] ELSE f[k - 1] + input[k] * s.ic[k + 1]]
  OBVIOUS
<1>2. SumsTo(1, s.ic, input, f)
  BY <1>1 DEF SumsTo
<1>3. PICK g : SumsTo(1, s.ic, input, g) /\ InputPoint(s, input) = g[1] % Q
  BY <1>2, InputPointIsSum
<1>4. g[0] = s.ic[1] /\ g[1] = g[0] + input[1] * s.ic[2]
  BY <1>3 DEF SumsTo
<1> QED BY <1>3, <1>4

LEMMA TwoInputs ==
  ASSUME NEW s, NEW input, Len(input) = 2
  PROVE  InputPoint(s, input) = (s.ic[1] + input[1] * s.ic[2] + input[2] * s.ic[3]) % Q
<1> DEFINE a == s.ic[1] + input[1] * s.ic[2]
           b == a + input[2] * s.ic[3]
           f == [k \in 0 .. 2 |-> IF k = 0 THEN s.ic[1] ELSE IF k = 1 THEN a ELSE b]
<1>1. f = [k \in 0 .. 2 |-> IF k = 0 THEN s.ic[1] ELSE f[k - 1] + input[k] * s.ic[k + 1]]
  <2>1. \A k \in 0 .. 2 : k = 0 \/ k = 1 \/ k = 2
    OBVIOUS
  <2>2. f[0] = s.ic[1] /\ f[1] = f[0] + input[1] * s.ic[2] /\ f[2] = f[1] + input[2] * s.ic[3]
    OBVIOUS
  <2>3. f = [k \in 0 .. 2 |-> f[k]]
    OBVIOUS
  <2> HIDE DEF f
  <2> QED BY <2>1, <2>2, <2>3
<1>2. SumsTo(2, s.ic, input, f)
  BY <1>1 DEF SumsTo
<1> HIDE DEF f
<1>3. PICK g : SumsTo(2, s.ic, input, g) /\ InputPoint(s, input) = g[2] % Q
  BY <1>2, InputPointIsSum
<1>4. g[0] = s.ic[1] /\ g[1] = g[0] + input[1] * s.ic[2] /\ g[2] = g[1] + input[2] * s.ic[3]
  BY <1>3 DEF SumsTo
<1> QED BY <1>3, <1>4

-----------------------------------------------------------------------------
(* What the device computes from its vectors *)

LEMMA ImageFacts ==
  ASSUME image \in Images
  PROVE  /\ image.proof \in [1 .. 3 -> Encoded]
         /\ image.setup.alpha \in Group /\ image.setup.beta \in Group
         /\ image.setup.gamma \in Group /\ image.setup.delta \in Group
         /\ image.setup.ic \in [1 .. Inputs(image.program) + 1 -> Group]
         /\ image.h \in [1 .. Inputs(image.program) -> Nat]
         /\ image.expected \in [1 .. Inputs(image.program) -> Nat]
BY ImagesAssumption

LEMMA InputsFacts ==
  /\ Inputs(image.program) \in {1, 2}
  /\ Clear => Inputs(image.program) = 2
  /\ ~ Clear => Inputs(image.program) = 1
BY DEF Inputs, Clear

LEMMA GroupFacts ==
  /\ \A x \in Group : x \in Int /\ Neg(x) \in Group /\ Raw(x) \in Encoded
  /\ \A x \in Encoded : x # OFF => x \in Int /\ x \in 1 .. Q - 1
  /\ \A x \in Group : Raw(x) # OFF => Raw(x) = x /\ x # 0
  /\ \A x \in Group : Raw(Neg(x)) # OFF => Raw(Neg(x)) = Q - x
<1>1. \A x \in Group : x \in Int /\ Raw(x) \in Encoded
  BY QType DEF Group, Raw, Encoded
<1>2. \A x \in Group : Neg(x) \in Group
  BY QType, DivMod DEF Group, Neg
<1>3. \A x \in Group : Neg(x) # 0 => Neg(x) = Q - x
  <2> TAKE x \in Group
  <2>1. CASE x = 0
    <3>1. Q % Q = 0
      BY QType
    <3> QED BY <2>1, <3>1, QType DEF Neg
  <2>2. CASE x # 0
    <3>1. Q - x \in 1 .. Q - 1
      BY <2>2, QType DEF Group
    <3> QED BY <3>1, QType DEF Neg
  <2> QED BY <2>1, <2>2
<1>4. \A x \in Encoded : x # OFF => x \in Int /\ x \in 1 .. Q - 1
  BY QType DEF Encoded, Group
<1>5. \A x \in Group : Raw(x) # OFF => Raw(x) = x /\ x # 0
  BY DEF Raw
<1> QED BY <1>1, <1>2, <1>3, <1>4, <1>5

LEMMA KeyFacts ==
  /\ Key.neg_gamma = Raw(Neg(image.setup.gamma)) /\ Key.neg_delta = Raw(Neg(image.setup.delta))
  /\ Key.alpha_beta = (image.setup.alpha * image.setup.beta) % Q
  /\ Key.ic = [k \in DOMAIN image.setup.ic |-> Raw(image.setup.ic[k])]
BY DEF Key, RawKey

LEMMA EncodingsAre ==
  ASSUME image \in Images, ~ Single
  PROVE  /\ DOMAIN Encodings = 1 .. 6 + Inputs(image.program)
         /\ \A k \in 1 .. 3 : Encodings[k] = image.proof[k]
         /\ Encodings[4] = Key.neg_gamma /\ Encodings[5] = Key.neg_delta
         /\ \A k \in 1 .. Inputs(image.program) + 1 : Encodings[5 + k] = Raw(image.setup.ic[k])
<1> DEFINE u == image.proof
           v == <<Key.neg_gamma, Key.neg_delta>>
           w == Key.ic
           n == Inputs(image.program)
           E == Encoded
<1>1. u \in Seq(E) /\ Len(u) = 3
  <2>1. u \in [1 .. 3 -> E]
    BY ImageFacts
  <2> HIDE DEF u, E
  <2>2. u \in Seq(E)
    BY <2>1, SeqDef, 3 \in Nat
  <2> QED BY <2>1, <2>2
<1>2. v \in Seq(E)
  <2>1. Key.neg_gamma \in E /\ Key.neg_delta \in E
    BY ImageFacts, KeyFacts, GroupFacts
  <2> HIDE DEF E
  <2> QED BY <2>1
<1>3. w \in Seq(E) /\ Len(w) = n + 1 /\ \A k \in 1 .. n + 1 : w[k] = Raw(image.setup.ic[k])
  <2>1. n + 1 \in Nat /\ n \in {1, 2}
    BY InputsFacts
  <2>2. \A k \in 1 .. n + 1 : Raw(image.setup.ic[k]) \in E
    BY ImageFacts, GroupFacts
  <2>3. DOMAIN image.setup.ic = 1 .. n + 1
    BY ImageFacts
  <2> HIDE DEF E, n
  <2>4. w = [k \in 1 .. n + 1 |-> Raw(image.setup.ic[k])]
    BY <2>3, KeyFacts
  <2> HIDE DEF w
  <2>5. w \in [1 .. n + 1 -> E]
    BY <2>2, <2>4
  <2>6. w \in Seq(E) /\ Len(w) = n + 1
    BY <2>1, <2>5
  <2> QED BY <2>4, <2>6
<1>4. Encodings = (u \o v) \o w
  BY DEF Encodings, Single
<1>5. Len(v) = 2 /\ v[1] = Key.neg_gamma /\ v[2] = Key.neg_delta
  OBVIOUS
<1>6. n \in {1, 2}
  BY InputsFacts
<1> HIDE DEF u, v, w, n, E
<1> DEFINE uv == u \o v
           uvw == uv \o w
<1>7. uv \in Seq(E) /\ Joined(u, v, uv)
  BY <1>1, <1>2, Join
<1> HIDE DEF uv
<1>8. uvw \in Seq(E) /\ Joined(uv, w, uvw)
  BY <1>3, <1>7, Join
<1> HIDE DEF uvw
<1>9. Len(uv) = 5 /\ (\A k \in 1 .. 3 : uv[k] = u[k]) /\ uv[4] = v[1] /\ uv[5] = v[2]
  BY <1>1, <1>5, <1>7 DEF Joined
<1>10. /\ Len(uvw) = 6 + n /\ \A k \in 1 .. 5 : uvw[k] = uv[k]
       /\ \A k \in 1 .. n + 1 : uvw[5 + k] = w[k]
  BY <1>3, <1>6, <1>8, <1>9 DEF Joined
<1>11. DOMAIN uvw = 1 .. 6 + n
  BY <1>8, <1>10
<1>12. Encodings = uvw
  BY <1>4 DEF uvw, uv
<1> QED BY <1>3, <1>5, <1>9, <1>10, <1>11, <1>12 DEF u, n

LEMMA WholeMeans ==
  ASSUME image \in Images, ~ Single
  PROVE  Whole <=> /\ \A k \in 1 .. 3 : image.proof[k] # OFF
                   /\ Key.neg_gamma # OFF /\ Key.neg_delta # OFF
                   /\ \A k \in 1 .. Inputs(image.program) + 1 : Raw(image.setup.ic[k]) # OFF
<1> DEFINE n == Inputs(image.program)
<1>0. n \in {1, 2}
  BY InputsFacts
<1>1. /\ DOMAIN Encodings = 1 .. 6 + n
      /\ \A k \in 1 .. 3 : Encodings[k] = image.proof[k]
      /\ Encodings[4] = Key.neg_gamma /\ Encodings[5] = Key.neg_delta
      /\ \A k \in 1 .. n + 1 : Encodings[5 + k] = Raw(image.setup.ic[k])
  BY EncodingsAre
<1> HIDE DEF n
<1>2. ASSUME Whole
      PROVE  /\ \A k \in 1 .. 3 : image.proof[k] # OFF
             /\ Key.neg_gamma # OFF /\ Key.neg_delta # OFF
             /\ \A k \in 1 .. n + 1 : Raw(image.setup.ic[k]) # OFF
  <2>1. \A k \in 1 .. 6 + n : Encodings[k] # OFF
    BY <1>1, <1>2 DEF Whole
  <2>2. \A k \in 1 .. n + 1 : 5 + k \in 1 .. 6 + n
    BY <1>0
  <2>3. 1 \in 1 .. 6 + n /\ 2 \in 1 .. 6 + n /\ 3 \in 1 .. 6 + n /\ 4 \in 1 .. 6 + n /\ 5 \in 1 .. 6 + n
    BY <1>0
  <2>4. \A k \in 1 .. 3 : k \in 1 .. 6 + n
    BY <1>0
  <2> QED BY <1>1, <2>1, <2>2, <2>3, <2>4
<1>3. ASSUME /\ \A k \in 1 .. 3 : image.proof[k] # OFF
             /\ Key.neg_gamma # OFF /\ Key.neg_delta # OFF
             /\ \A k \in 1 .. n + 1 : Raw(image.setup.ic[k]) # OFF
      PROVE  Whole
  <2>1. ASSUME NEW k \in 1 .. 6 + n PROVE Encodings[k] # OFF
    <3>1. k \in 1 .. 3 \/ k = 4 \/ k = 5 \/ k - 5 \in 1 .. n + 1
      BY <1>0
    <3>2. CASE k - 5 \in 1 .. n + 1
      <4>1. Encodings[5 + (k - 5)] # OFF
        BY <1>1, <1>3, <3>2
      <4>2. 5 + (k - 5) = k
        BY <1>0
      <4> QED BY <4>1, <4>2
    <3> QED BY <1>1, <1>3, <3>1, <3>2
  <2> QED BY <1>1, <2>1 DEF Whole
<1> QED BY <1>2, <1>3 DEF n

(* The verdict the statement gives. *)
LEMMA VerdictMeans ==
  ASSUME image \in Images, ~ Single
  PROVE  ProofHolds <=> /\ Whole
                        /\ Accepts(image.setup, image.proof[1], image.proof[2], image.proof[3],
                                   image.h)
<1> DEFINE n == Inputs(image.program)
           K == {image.proof[1], image.proof[2], image.proof[3], Key.neg_gamma, Key.neg_delta}
                  \cup {Key.ic[k] : k \in DOMAIN Key.ic}
           A == Accepts(image.setup, image.proof[1], image.proof[2], image.proof[3], image.h)
<1>1. OFF \notin K <=> Whole
  <2>1. DOMAIN Key.ic = 1 .. n + 1 /\ \A k \in 1 .. n + 1 : Key.ic[k] = Raw(image.setup.ic[k])
    BY KeyFacts, ImageFacts
  <2>2. /\ Whole <=> /\ \A k \in 1 .. 3 : image.proof[k] # OFF
                     /\ Key.neg_gamma # OFF /\ Key.neg_delta # OFF
                     /\ \A k \in 1 .. n + 1 : Raw(image.setup.ic[k]) # OFF
    BY WholeMeans
  <2>3. \A k \in 1 .. 3 : k = 1 \/ k = 2 \/ k = 3
    OBVIOUS
  <2> HIDE DEF n
  <2> QED BY <2>1, <2>2, <2>3
<1>2. Len(image.h) + 1 = Len(image.setup.ic)
  <2>1. n \in {1, 2} /\ image.h \in [1 .. n -> Nat] /\ image.setup.ic \in [1 .. n + 1 -> Group]
    BY ImageFacts, InputsFacts
  <2>2. n \in Nat /\ n + 1 \in Nat
    BY <2>1
  <2> HIDE DEF n
  <2>3. Len(image.h) = n /\ Len(image.setup.ic) = n + 1
    BY <2>1, <2>2
  <2> QED BY <2>3
<1> HIDE DEF K, A
<1>3. Verdict(image.setup, image.proof, TRUE, image.h) =
        CASE ~ TRUE \/ Len(image.h) + 1 # Len(image.setup.ic) -> -1
          [] OFF \in K -> -1
          [] OTHER -> IF A THEN 1 ELSE 0
  BY DEF Verdict, K, A, Key
<1>4. Verdict(image.setup, image.proof, TRUE, image.h) = 1 <=> OFF \notin K /\ A
  <2> DEFINE v == Verdict(image.setup, image.proof, TRUE, image.h)
             B == Len(image.h) + 1 # Len(image.setup.ic)
  <2>1. ~ B /\ v = CASE ~ TRUE \/ B -> -1 [] OFF \in K -> -1 [] OTHER -> IF A THEN 1 ELSE 0
    BY <1>2, <1>3
  <2> HIDE DEF v, B
  <2>2. CASE OFF \in K
    <3>1. v = -1
      BY <2>1, <2>2
    <3>2. -1 # 1
      OBVIOUS
    <3> QED BY <2>2, <3>1, <3>2 DEF v
  <2>3. CASE OFF \notin K
    <3>1. v = IF A THEN 1 ELSE 0
      BY <2>1, <2>3
    <3>2. A => v = 1
      BY <3>1, Zenon
    <3>3. ~ A => v = 0
      BY <3>1, Zenon
    <3>4. 0 # 1
      OBVIOUS
    <3>5. v = 1 <=> A
      BY <3>2, <3>3, <3>4, Zenon
    <3> QED BY <2>3, <3>5, Zenon DEF v
  <2> QED BY <2>2, <2>3
<1> QED BY <1>1, <1>4 DEF ProofHolds, Single, A

LEMMA IntPoints ==
  ASSUME image \in Images, ~ Single, Whole
  PROVE  /\ \A k \in 1 .. 3 : Encodings[k] = image.proof[k] /\ image.proof[k] \in Int
         /\ Encodings[4] = Q - image.setup.gamma /\ Encodings[5] = Q - image.setup.delta
         /\ \A k \in 1 .. Inputs(image.program) + 1 : /\ Encodings[5 + k] = image.setup.ic[k]
                                                      /\ image.setup.ic[k] \in Int
         /\ image.setup.gamma \in Int /\ image.setup.delta \in Int
         /\ image.setup.alpha \in Int /\ image.setup.beta \in Int
<1>1. /\ \A k \in 1 .. 3 : image.proof[k] # OFF
      /\ Key.neg_gamma # OFF /\ Key.neg_delta # OFF
      /\ \A k \in 1 .. Inputs(image.program) + 1 : Raw(image.setup.ic[k]) # OFF
  BY WholeMeans
<1>2. \A k \in 1 .. 3 : image.proof[k] \in Int
  BY <1>1, ImageFacts, GroupFacts
<1>3. Key.neg_gamma = Q - image.setup.gamma /\ Key.neg_delta = Q - image.setup.delta
  BY <1>1, ImageFacts, KeyFacts, GroupFacts
<1>4. \A k \in 1 .. Inputs(image.program) + 1 :
        Raw(image.setup.ic[k]) = image.setup.ic[k] /\ image.setup.ic[k] \in Int
  BY <1>1, ImageFacts, GroupFacts
<1>5. /\ image.setup.gamma \in Int /\ image.setup.delta \in Int
      /\ image.setup.alpha \in Int /\ image.setup.beta \in Int
  BY ImageFacts, GroupFacts
<1> QED BY <1>2, <1>3, <1>4, <1>5, EncodingsAre

(* Prepare computes the statement's input point. *)
LEMMA PreparedRight ==
  ASSUME image \in Images, ~ Single, Whole, points = Encodings,
         Clear => pi[1] = image.h[1] /\ pi[2] = image.h[2]
  PROVE  (IF Clear THEN points[6] + pi[1] * points[7] + pi[2] * points[8]
                   ELSE points[6] + image.h[1] * points[7]) % Q
           = InputPoint(image.setup, image.h)
<1>1. CASE Clear
  <2>1. Inputs(image.program) = 2
    BY <1>1, InputsFacts
  <2>2. \A k \in 1 .. 3 : Encodings[5 + k] = image.setup.ic[k]
    BY <2>1, IntPoints
  <2>3. points[6] = image.setup.ic[1] /\ points[7] = image.setup.ic[2] /\ points[8] = image.setup.ic[3]
    BY <2>2
  <2>4. Len(image.h) = 2
    BY <2>1, ImageFacts
  <2>5. InputPoint(image.setup, image.h)
          = (image.setup.ic[1] + image.h[1] * image.setup.ic[2] + image.h[2] * image.setup.ic[3]) % Q
    BY <2>4, TwoInputs
  <2> QED BY <1>1, <2>3, <2>5
<1>2. CASE ~ Clear
  <2>1. Inputs(image.program) = 1
    BY <1>2, InputsFacts
  <2>2. \A k \in 1 .. 2 : Encodings[5 + k] = image.setup.ic[k]
    BY <2>1, IntPoints
  <2>3. points[6] = image.setup.ic[1] /\ points[7] = image.setup.ic[2]
    BY <2>2
  <2>4. Len(image.h) = 1
    BY <2>1, ImageFacts
  <2>5. InputPoint(image.setup, image.h)
          = (image.setup.ic[1] + image.h[1] * image.setup.ic[2]) % Q
    BY <2>4, OneInput
  <2> QED BY <1>2, <2>3, <2>5
<1> QED BY <1>1, <1>2

LEMMA InputPointInt ==
  ASSUME image \in Images, ~ Single, Whole
  PROVE  InputPoint(image.setup, image.h) \in Int
<1>1. CASE Clear
  <2>1. Inputs(image.program) = 2
    BY <1>1, InputsFacts
  <2>2. /\ image.setup.ic[1] \in Int /\ image.setup.ic[2] \in Int /\ image.setup.ic[3] \in Int
        /\ image.h[1] \in Int /\ image.h[2] \in Int /\ Len(image.h) = 2
    BY <2>1, ImageFacts, IntPoints
  <2>3. image.setup.ic[1] + image.h[1] * image.setup.ic[2] + image.h[2] * image.setup.ic[3] \in Int
    BY <2>2
  <2> DEFINE x == image.setup.ic[1] + image.h[1] * image.setup.ic[2] + image.h[2] * image.setup.ic[3]
  <2>4. InputPoint(image.setup, image.h) = x % Q
    BY <2>2, TwoInputs
  <2>5. x \in Int
    BY <2>3
  <2> HIDE DEF x
  <2>6. x % Q \in 0 .. Q - 1
    BY <2>5, QType, DivMod
  <2> QED BY <2>4, <2>6
<1>2. CASE ~ Clear
  <2>1. Inputs(image.program) = 1
    BY <1>2, InputsFacts
  <2>2. /\ image.setup.ic[1] \in Int /\ image.setup.ic[2] \in Int
        /\ image.h[1] \in Int /\ Len(image.h) = 1
    BY <2>1, ImageFacts, IntPoints
  <2>3. image.setup.ic[1] + image.h[1] * image.setup.ic[2] \in Int
    BY <2>2
  <2> DEFINE x == image.setup.ic[1] + image.h[1] * image.setup.ic[2]
  <2>4. InputPoint(image.setup, image.h) = x % Q
    BY <2>2, OneInput
  <2>5. x \in Int
    BY <2>3
  <2> HIDE DEF x
  <2>6. x % Q \in 0 .. Q - 1
    BY <2>5, QType, DivMod
  <2> QED BY <2>4, <2>6
<1> QED BY <1>1, <1>2

(* Comparing the product with e(alpha, beta) decides the statement. *)
LEMMA JudgedRight ==
  ASSUME image \in Images, ~ Single, Whole, points = Encodings,
         L = InputPoint(image.setup, image.h), result = MultiPairing
  PROVE  result = Key.alpha_beta <=> ProofHolds
<1> DEFINE a == image.proof[1] * image.proof[2]
           b == image.setup.alpha * image.setup.beta
           c == image.proof[3]
           g == image.setup.gamma
           d == image.setup.delta
<1>1. /\ image.proof[1] \in Int /\ image.proof[2] \in Int /\ c \in Int /\ g \in Int /\ d \in Int
      /\ image.setup.alpha \in Int /\ image.setup.beta \in Int
  BY IntPoints
<1>2. a \in Int /\ b \in Int /\ L \in Int
  BY <1>1, InputPointInt
<1>3. points[1] * points[2] = a /\ points[3] = c /\ points[4] = Q - g /\ points[5] = Q - d
  BY IntPoints
<1>4. Key.alpha_beta = b % Q
  BY KeyFacts
<1>5. Accepts(image.setup, image.proof[1], image.proof[2], image.proof[3], image.h)
        <=> a % Q = (b + L * g + c * d) % Q
  BY DEF Accepts
<1> HIDE DEF a, b, c, g, d
<1>6. result = (a + L * (Q - g) + c * (Q - d)) % Q
  BY <1>3 DEF MultiPairing
<1>7. (a + L * (Q - g) + c * (Q - d)) % Q = b % Q <=> a % Q = (b + L * g + c * d) % Q
  BY <1>1, <1>2, MovedAcross
<1> QED BY <1>4, <1>5, <1>6, <1>7, VerdictMeans

(* single_pairing_m4.c: of two points its check is bilinearity, which the  *)
(* pairing has.                                                            *)
LEMMA BilinearHolds ==
  ASSUME image \in Images, Single, Whole, points = Encodings, L = (2 * points[1]) % Q
  PROVE  LET e == (points[1] * points[2]) % Q
         IN  (L * points[2]) % Q = (e + e) % Q /\ e # 0 /\ ProofHolds
<1>1. Encodings = <<image.proof[1], image.proof[2]>>
  BY DEF Encodings, Single
<1>2. points[1] = image.proof[1] /\ points[2] = image.proof[2]
  BY <1>1
<1>3. image.proof[1] # OFF /\ image.proof[2] # OFF
  BY <1>1 DEF Whole
<1>4. /\ points[1] \in Int /\ points[2] \in Int
      /\ points[1] \in 1 .. Q - 1 /\ points[2] \in 1 .. Q - 1
  BY <1>2, <1>3, ImageFacts, GroupFacts
<1>5. points[1] \in Group \ {0} /\ points[2] \in Group \ {0}
  BY <1>4, QType DEF Group
<1>6. (points[1] * points[2]) % Q # 0
  BY <1>5, GroupAssumption
<1> QED BY <1>3, <1>4, <1>6, DoubledOnce DEF ProofHolds, Single

LEMMA NotWhole ==
  ASSUME image \in Images, ~ Whole
  PROVE  ~ ProofHolds
<1>1. CASE Single
  <2>1. Encodings = <<image.proof[1], image.proof[2]>>
    BY <1>1 DEF Encodings, Single
  <2>2. \E k \in 1 .. 2 : Encodings[k] = OFF
    BY <2>1 DEF Whole
  <2>3. Encodings[1] = OFF \/ Encodings[2] = OFF
    BY <2>2
  <2>4. image.proof[1] = OFF \/ image.proof[2] = OFF
    BY <2>1, <2>3
  <2> QED BY <1>1, <2>4 DEF ProofHolds, Single
<1>2. CASE ~ Single
  BY <1>2, VerdictMeans
<1> QED BY <1>1, <1>2

-----------------------------------------------------------------------------
(* Steps *)

(* What a step of main that does not return does, by the step it is.       *)
Proceeds ==
  /\ pc > 0 /\ Steps[pc] # "return"
  /\ pc' = pc + 1 /\ UNCHANGED <<image, rc, reason, resets>>
  /\ RamShape' /\ counting' \in BOOLEAN

Initialised == Steps[pc] = "pairing_init" => image.init_ok

Converts ==
  IF Steps[pc] \in {"warm_up", "hash_c", "hash_t"}
    THEN ram'.initialized = 1 /\ ram'.tables = Converted.tables
    ELSE ram'.initialized = ram.initialized /\ ram'.tables = ram.tables

Times ==
  /\ IF Steps[pc] = "systick_init" THEN counting' = TRUE ELSE counting' = counting
  /\ Steps[pc] = "systick_reset" => spent' = <<>>
  /\ Steps[pc] \in {"prepare", "pairing"} /\ counting => spent' = spent \o <<Steps[pc]>>
  /\ Steps[pc] \in {"hash_c", "hash_t"} /\ counting => spent' = spent \o HashWork(Steps[pc])
  /\ ram'.g_cycles = IF Steps[pc] = "systick_elapsed" THEN [ram.g_cycles EXCEPT ![Slot] = spent]
                                                      ELSE ram.g_cycles

Hashes ==
  /\ pi' = CASE Steps[pc] = "hash_c" -> [pi EXCEPT ![1] = Hash(1)]
             [] Steps[pc] = "hash_t" -> [pi EXCEPT ![2] = Hash(2)]
             [] OTHER                -> pi
  /\ ram'.g_hashes_ok = IF Steps[pc] = "compare_hashes" THEN IF pi = image.expected THEN 1 ELSE 0
                                                        ELSE ram.g_hashes_ok

Decodes == IF Steps[pc] = "decode" THEN points' = Encodings /\ Whole ELSE points' = points

Computes ==
  /\ L' = CASE Steps[pc] = "prepare" ->
                 (IF Clear THEN points[6] + pi[1] * points[7] + pi[2] * points[8]
                           ELSE points[6] + image.h[1] * points[7]) % Q
            [] Steps[pc] = "double" -> (2 * points[1]) % Q
            [] OTHER -> L
  /\ ~ Single => result' = IF Steps[pc] = "pairing" THEN MultiPairing ELSE result

Judges ==
  LET e == (points[1] * points[2]) % Q
  IN  /\ ram'.g_valid =
           CASE Steps[pc] = "verdict"  -> IF result = Key.alpha_beta THEN 1 ELSE 0
             [] Steps[pc] = "bilinear" -> IF (L * points[2]) % Q = (e + e) % Q /\ e # 0 THEN 1 ELSE 0
             [] OTHER                  -> ram.g_valid
      /\ ram'.g_cycles_total = IF Steps[pc] = "verdict" /\ Clear THEN FlattenSeq(ram.g_cycles)
                                                                 ELSE ram.g_cycles_total
      /\ ram'.g_done = IF Steps[pc] = "done" THEN 1 ELSE ram.g_done

Effect ==
  Proceeds /\ Initialised /\ Converts /\ Times /\ Hashes /\ Decodes /\ Computes /\ Judges

LEMMA Next1 ==
  ASSUME Typed, Proceeds
  PROVE  pc \in 1 .. Len(Steps) /\ pc' \in 1 .. Len(Steps) /\ pc \in Nat /\ image \in Images
<1>1. pc \in 1 .. Len(Steps) /\ image \in Images
  BY LastStep, Order DEF Typed, Proceeds
<1>2. pc # DoneAt + 1
  BY <1>1, Where DEF Proceeds
<1> QED BY <1>1, <1>2, LastStep, Order DEF Proceeds

LEMMA TablesKept ==
  ASSUME Typed, Tables, Proceeds, Converts
  PROVE  Tables'
<1>1. pc \in 1 .. Len(Steps) /\ image \in Images /\ pc \in Nat
  BY Next1
<1>2. Clear /\ pc = 2 => Steps[pc] = "warm_up"
  BY <1>1, Where
<1>3. Clear' <=> Clear
  BY DEF Clear, Proceeds
<1>4. CASE Steps[pc] \in {"warm_up", "hash_c", "hash_t"}
  <2>1. ram'.initialized = 1 /\ ram'.tables = IF ram.initialized = 0 THEN "converted" ELSE ram.tables
    BY <1>4 DEF Converts, Converted, Typed, RamShape
  <2>2. ram'.tables = "converted"
    BY <2>1 DEF Tables
  <2> QED BY <2>1, <2>2 DEF Tables
<1>5. CASE Steps[pc] \notin {"warm_up", "hash_c", "hash_t"}
  <2>1. ram'.initialized = ram.initialized /\ ram'.tables = ram.tables
    BY <1>5 DEF Converts
  <2>2. ~ (Clear /\ pc = 2)
    BY <1>2, <1>5
  <2>3. Clear /\ pc' > 2 => ram.initialized = 1
    BY <1>1, <2>2 DEF Tables, Proceeds
  <2> QED BY <1>3, <2>1, <2>3 DEF Tables
<1> QED BY <1>4, <1>5

LEMMA TimingKept ==
  ASSUME Typed, Tables, Timing, Proceeds, Times
  PROVE  Timing'
<1>1. pc \in 1 .. Len(Steps) /\ image \in Images /\ pc \in Nat /\ pc' = pc + 1
  BY Next1 DEF Proceeds
<1>2. UNCHANGED image
  BY DEF Proceeds
<1>3. /\ StartAt' = StartAt /\ Slots' = Slots /\ \A k : ElapsedAt(k)' = ElapsedAt(k)
      /\ \A k : Work(k)' = Work(k)
  BY <1>2 DEF StartAt, Base, Slots, ElapsedAt, Work, Clear, Multi
<1>4. /\ Steps[pc] = "systick_init" <=> pc = StartAt
      /\ Steps[pc] = "systick_reset" <=> \E k \in Slots : pc = ElapsedAt(k) - 2
      /\ Steps[pc] = "systick_elapsed" <=> \E k \in Slots : pc = ElapsedAt(k)
  BY <1>1, Where
<1>5. pc + 1 > StartAt => counting' = TRUE
  <2>1. StartAt \in Nat
    BY <1>1, Order
  <2> QED BY <1>1, <1>4, <2>1 DEF Times, Timing
<1>6. ASSUME NEW k \in Slots
      PROVE  /\ pc + 1 = ElapsedAt(k) - 1 => spent' = <<>>
             /\ pc + 1 = ElapsedAt(k) => spent' = <<Work(k)>>
             /\ ram'.g_cycles[k] = IF pc + 1 > ElapsedAt(k) THEN <<Work(k)>> ELSE <<>>
  <2>1. /\ ElapsedAt(k) \in Nat /\ StartAt < ElapsedAt(k) - 2 /\ StartAt \in Nat
        /\ \A l \in Slots : l # k => ElapsedAt(l) # ElapsedAt(k)
    <3>1. \A l \in Slots : l # k => l < k \/ k < l
      BY <1>1, Order
    <3> QED BY <1>1, <3>1, Order
  <2>2. pc + 1 = ElapsedAt(k) - 1 => spent' = <<>>
    <3>1. pc + 1 = ElapsedAt(k) - 1 => pc = ElapsedAt(k) - 2
      BY <1>1, <2>1
    <3> QED BY <1>4, <3>1 DEF Times
  <2>3. ASSUME pc + 1 = ElapsedAt(k) PROVE spent' = <<Work(k)>>
    <3>1. pc = ElapsedAt(k) - 1 /\ pc > StartAt
      BY <1>1, <2>1, <2>3
    <3>2. spent = <<>> /\ counting = TRUE
      BY <3>1 DEF Timing
    <3>3. Steps[pc] = Work(k)
      BY <1>1, <3>1, WorkThere
    <3>4. Work(k) \in {"hash_c", "hash_t", "prepare", "pairing"}
      <4>1. CASE Clear
        <5>1. k = 1 \/ k = 2 \/ k = 3 \/ k = 4
          BY <1>1, <4>1, SlotFacts
        <5> QED BY <1>1, <4>1, <5>1, SlotFacts
      <4>2. CASE ~ Clear
        BY <1>1, <4>2, SlotFacts
      <4> QED BY <4>1, <4>2
    <3>5. CASE Work(k) \in {"prepare", "pairing"}
      <4>1. spent' = spent \o <<Work(k)>>
        BY <3>2, <3>3, <3>5 DEF Times
      <4> DEFINE w == Work(k)
      <4>2. spent' = <<>> \o <<w>>
        BY <3>2, <4>1
      <4> HIDE DEF w
      <4>3. spent' = <<w>>
        BY <4>2
      <4> QED BY <4>3 DEF w
    <3>6. CASE Work(k) \in {"hash_c", "hash_t"}
      <4>1. Clear
        BY <1>1, <3>6, SlotFacts
      <4>2. pc > 2
        BY <1>1, <3>1, <4>1 DEF StartAt
      <4>3. ram.initialized = 1
        BY <4>1, <4>2 DEF Tables
      <4> DEFINE w == Work(k)
      <4>4. HashWork(w) = <<w>>
        BY <4>3 DEF HashWork
      <4>5. spent' = spent \o HashWork(w)
        BY <3>2, <3>3, <3>6 DEF Times
      <4>6. spent' = <<>> \o <<w>>
        BY <3>2, <4>4, <4>5
      <4> HIDE DEF w
      <4>7. spent' = <<w>>
        BY <4>6
      <4> QED BY <4>7 DEF w
    <3> QED BY <3>4, <3>5, <3>6
  <2>4. ram'.g_cycles[k] = IF pc + 1 > ElapsedAt(k) THEN <<Work(k)>> ELSE <<>>
    <3>1. CASE pc = ElapsedAt(k)
      <4>1. Slot = k /\ Steps[pc] = "systick_elapsed" /\ spent = <<Work(k)>>
        BY <1>1, <1>4, <3>1, SlotIs DEF Timing
      <4>2. ram'.g_cycles = [ram.g_cycles EXCEPT ![k] = spent]
        BY <4>1 DEF Times
      <4>3. ram'.g_cycles[k] = spent
        BY <4>2 DEF Typed, RamShape
      <4> QED BY <1>1, <2>1, <3>1, <4>1, <4>3
    <3>2. CASE pc # ElapsedAt(k)
      <4>1. ram'.g_cycles[k] = ram.g_cycles[k]
        <5>1. CASE Steps[pc] = "systick_elapsed"
          <6>1. PICK l \in Slots : pc = ElapsedAt(l)
            BY <1>4, <5>1
          <6>2. Slot = l /\ l # k
            BY <1>1, <3>2, <6>1, SlotIs
          <6>3. ram'.g_cycles = [ram.g_cycles EXCEPT ![l] = spent]
            BY <5>1, <6>2 DEF Times
          <6> QED BY <6>2, <6>3 DEF Typed, RamShape
        <5>2. CASE Steps[pc] # "systick_elapsed"
          BY <5>2 DEF Times
        <5> QED BY <5>1, <5>2
      <4>2. pc + 1 > ElapsedAt(k) <=> pc > ElapsedAt(k)
        BY <1>1, <2>1, <3>2
      <4> QED BY <4>1, <4>2 DEF Timing
    <3> QED BY <3>1, <3>2
  <2> QED BY <2>2, <2>3, <2>4
<1> QED BY <1>1, <1>3, <1>5, <1>6 DEF Timing

LEMMA Positions ==
  ASSUME image \in Images
  PROVE  /\ DecodeAt \in Nat /\ PrepareAt \in Nat /\ PairAt \in Nat
         /\ 1 < DecodeAt /\ DecodeAt < PrepareAt /\ PrepareAt < PairAt /\ PairAt <= JudgeAt
         /\ ~ Single => PairAt < JudgeAt
         /\ Clear => DecodeAt = 11 /\ PrepareAt = 13
         /\ Single => PrepareAt = 3 /\ JudgeAt = 4
BY ThreePrograms DEF DecodeAt, PrepareAt, PairAt, JudgeAt

LEMMA SameImage ==
  ASSUME UNCHANGED image
  PROVE  /\ Steps' = Steps /\ Clear' = Clear /\ Multi' = Multi /\ Single' = Single
         /\ DecodeAt' = DecodeAt /\ PrepareAt' = PrepareAt /\ PairAt' = PairAt
         /\ JudgeAt' = JudgeAt /\ DoneAt' = DoneAt /\ Slots' = Slots
         /\ HashesMatch' = HashesMatch /\ ProofHolds' = ProofHolds /\ Succeeds' = Succeeds
         /\ Encodings' = Encodings /\ Whole' = Whole /\ Key' = Key
BY DEF Steps, Clear, Multi, Single, DecodeAt, PrepareAt, PairAt, JudgeAt, DoneAt, Base, Slots,
       HashesMatch, ProofHolds, Succeeds, Encodings, Whole, Key

LEMMA HashRight ==
  ASSUME Typed, Tables, Clear, pc > 2, NEW k \in 1 .. 2
  PROVE  Hash(k) = image.h[k]
<1>1. ram.initialized = 1 /\ ram.tables = "converted"
  BY DEF Tables
<1>2. Converted.tables = "converted"
  BY <1>1 DEF Converted, Typed, RamShape
<1> QED BY <1>2 DEF Hash

LEMMA HashedKept ==
  ASSUME Typed, Tables, Hashed, Proceeds, Hashes
  PROVE  Hashed'
<1>1. pc \in 1 .. Len(Steps) /\ image \in Images /\ pc \in Nat /\ pc' = pc + 1 /\ UNCHANGED image
  BY Next1 DEF Proceeds
<1>2. Clear' = Clear /\ HashesMatch' = HashesMatch
  BY <1>1, SameImage
<1>3. SUFFICES ASSUME Clear
               PROVE  /\ pc + 1 > 5 => pi'[1] = image.h[1]
                      /\ pc + 1 > 8 => pi'[2] = image.h[2]
                      /\ pc + 1 > 10 => (ram'.g_hashes_ok = 1) = HashesMatch
  BY <1>1, <1>2 DEF Hashed
<1>4. /\ Steps[pc] = "hash_c" <=> pc = 5
      /\ Steps[pc] = "hash_t" <=> pc = 8
      /\ Steps[pc] = "compare_hashes" <=> pc = 10
  BY <1>1, <1>3, Where
<1>5. pc > 2 => Hash(1) = image.h[1] /\ Hash(2) = image.h[2]
  BY <1>3, HashRight
<1>6. pi = <<pi[1], pi[2]>>
  BY DEF Typed
<1>7. pc = 5 => pi' = <<Hash(1), pi[2]>>
  <2>1. pc = 5 => pi' = [pi EXCEPT ![1] = Hash(1)]
    BY <1>4 DEF Hashes
  <2> QED BY <1>6, <2>1
<1>8. pc = 8 => pi' = <<pi[1], Hash(2)>>
  <2>1. pc = 8 => pi' = [pi EXCEPT ![2] = Hash(2)]
    BY <1>4 DEF Hashes
  <2> QED BY <1>6, <2>1
<1>9. pc # 5 /\ pc # 8 => pi' = pi
  BY <1>4 DEF Hashes
<1>10. /\ pc > 5 => pi[1] = image.h[1]
       /\ pc > 8 => pi[2] = image.h[2]
       /\ pc > 10 => (ram.g_hashes_ok = 1) = HashesMatch
  BY <1>3 DEF Hashed
<1>11. pc + 1 > 5 => pi'[1] = image.h[1]
  <2>1. pc + 1 > 5 => pc = 5 \/ pc = 8 \/ (pc > 5 /\ pc # 5 /\ pc # 8)
    <3>1. pc \in Nat
      BY <1>1
    <3> QED BY <3>1
  <2>2. pc = 8 => pc > 5
    OBVIOUS
  <2> QED BY <1>5, <1>7, <1>8, <1>9, <1>10, <2>1, <2>2
<1>12. pc + 1 > 8 => pi'[2] = image.h[2]
  <2>1. pc + 1 > 8 => pc = 8 \/ (pc > 8 /\ pc # 5)
    BY <1>1
  <2> QED BY <1>5, <1>8, <1>9, <1>10, <2>1
<1>13. pc + 1 > 10 => (ram'.g_hashes_ok = 1) = HashesMatch
  <2>1. CASE pc = 10
    <3>1. pi[1] = image.h[1] /\ pi[2] = image.h[2]
      BY <1>10, <2>1
    <3>2. Inputs(image.program) = 2
      BY <1>3, InputsFacts
    <3>3. image.h \in [1 .. 2 -> Nat]
      BY <1>1, <3>2, ImageFacts
    <3>4. image.h = <<image.h[1], image.h[2]>>
      BY <3>3
    <3>5. pi = image.h
      BY <1>6, <3>1, <3>4
    <3>6. ram'.g_hashes_ok = IF pi = image.expected THEN 1 ELSE 0
      BY <1>4, <2>1 DEF Hashes
    <3> QED BY <3>5, <3>6 DEF HashesMatch
  <2>2. CASE pc # 10
    <3>1. ram'.g_hashes_ok = ram.g_hashes_ok
      BY <1>4, <2>2 DEF Hashes
    <3>2. pc + 1 > 10 => pc > 10
      BY <1>1, <2>2
    <3> QED BY <1>10, <3>1, <3>2
  <2> QED BY <2>1, <2>2
<1> QED BY <1>11, <1>12, <1>13

LEMMA DecodedKept ==
  ASSUME Typed, Decoded, Proceeds, Decodes
  PROVE  Decoded'
<1>1. pc \in 1 .. Len(Steps) /\ image \in Images /\ pc \in Nat /\ pc' = pc + 1 /\ UNCHANGED image
  BY Next1 DEF Proceeds
<1>2. DecodeAt \in Nat /\ DecodeAt' = DecodeAt /\ Encodings' = Encodings /\ Whole' = Whole
  BY <1>1, SameImage, Positions
<1>3. Steps[pc] = "decode" <=> pc = DecodeAt
  BY <1>1, Where
<1>4. pc' > DecodeAt => pc = DecodeAt \/ (pc # DecodeAt /\ pc > DecodeAt)
  <2>1. pc \in Nat /\ pc' = pc + 1 /\ DecodeAt \in Nat
    BY <1>1, <1>2
  <2> QED BY <2>1
<1>5. pc' > DecodeAt => points' = Encodings /\ Whole
  BY <1>3, <1>4 DEF Decodes, Decoded
<1> QED BY <1>2, <1>5 DEF Decoded

(* From its step on, what is decoded stays. *)
LEMMA PointsStay ==
  ASSUME Typed, Decoded, Proceeds, Decodes, pc > DecodeAt
  PROVE  points' = points /\ points = Encodings /\ Whole
<1>1. pc \in 1 .. Len(Steps) /\ image \in Images /\ pc \in Nat /\ DecodeAt \in Nat
  BY Next1, Positions
<1>2. Steps[pc] # "decode"
  BY <1>1, Where
<1> QED BY <1>2 DEF Decoded, Decodes

LEMMA PreparedKept ==
  ASSUME Typed, Hashed, Decoded, Prepared, Proceeds, Decodes, Computes
  PROVE  Prepared'
<1>1. pc \in 1 .. Len(Steps) /\ image \in Images /\ pc \in Nat /\ pc' = pc + 1 /\ UNCHANGED image
  BY Next1 DEF Proceeds
<1>2. /\ PrepareAt \in Nat /\ DecodeAt \in Nat /\ DecodeAt < PrepareAt
      /\ PrepareAt' = PrepareAt /\ Single' = Single
  BY <1>1, SameImage, Positions
<1>3. SUFFICES ASSUME pc + 1 > PrepareAt
               PROVE  L' = IF Single THEN (2 * points'[1]) % Q
                                     ELSE InputPoint(image.setup, image.h)
  BY <1>1, <1>2 DEF Prepared
<1>4. pc > DecodeAt
  BY <1>1, <1>2, <1>3
<1>5. points' = points /\ points = Encodings /\ Whole
  BY <1>4, PointsStay
<1>6. /\ Steps[pc] = "prepare" <=> ~ Single /\ pc = PrepareAt
      /\ Steps[pc] = "double" <=> Single /\ pc = 3
      /\ Single => PrepareAt = 3
      /\ Clear => PrepareAt = 13
  BY <1>1, Where, Positions
<1>7. CASE pc = PrepareAt /\ Single
  <2>1. L' = (2 * points[1]) % Q
    BY <1>6, <1>7 DEF Computes
  <2> QED BY <1>5, <1>7, <2>1
<1>8. CASE pc = PrepareAt /\ ~ Single
  <2>1. L' = (IF Clear THEN points[6] + pi[1] * points[7] + pi[2] * points[8]
                       ELSE points[6] + image.h[1] * points[7]) % Q
    BY <1>6, <1>8 DEF Computes
  <2>2. Clear => pi[1] = image.h[1] /\ pi[2] = image.h[2]
    BY <1>6, <1>8 DEF Hashed
  <2>3. L' = InputPoint(image.setup, image.h)
    BY <1>1, <1>5, <1>8, <2>1, <2>2, PreparedRight
  <2> QED BY <1>8, <2>3
<1>9. CASE pc # PrepareAt
  <2>1. pc > PrepareAt
    BY <1>1, <1>2, <1>3, <1>9
  <2>2. Steps[pc] # "prepare" /\ Steps[pc] # "double"
    BY <1>6, <1>9
  <2>3. L' = L
    BY <2>2 DEF Computes
  <2> QED BY <1>5, <2>1, <2>3 DEF Prepared
<1> QED BY <1>7, <1>8, <1>9

(* The timed pairings compute the first one's result again. *)
LEMMA PairedKept ==
  ASSUME Typed, Decoded, Prepared, Paired, Proceeds, Decodes, Computes
  PROVE  Paired'
<1>1. pc \in 1 .. Len(Steps) /\ image \in Images /\ pc \in Nat /\ pc' = pc + 1 /\ UNCHANGED image
  BY Next1 DEF Proceeds
<1>2. /\ PairAt \in Nat /\ PrepareAt \in Nat /\ DecodeAt \in Nat
      /\ DecodeAt < PrepareAt /\ PrepareAt < PairAt
      /\ PairAt' = PairAt /\ Single' = Single
  BY <1>1, SameImage, Positions
<1>3. SUFFICES ASSUME ~ Single, pc + 1 > PairAt
               PROVE  result' = MultiPairing'
  BY <1>1, <1>2 DEF Paired
<1>4. pc > DecodeAt /\ pc > PrepareAt
  BY <1>1, <1>2, <1>3
<1>5. points' = points
  BY <1>4, PointsStay
<1>6. /\ Steps[pc] = "prepare" <=> ~ Single /\ pc = PrepareAt
      /\ Steps[pc] = "double" <=> Single /\ pc = 3
  BY <1>1, Where
<1>7. L' = L
  BY <1>2, <1>3, <1>4, <1>6 DEF Computes
<1>8. MultiPairing' = MultiPairing
  BY <1>5, <1>7 DEF MultiPairing
<1>9. result' = IF Steps[pc] = "pairing" THEN MultiPairing ELSE result
  BY <1>3 DEF Computes
<1>10. CASE Steps[pc] = "pairing"
  BY <1>8, <1>9, <1>10
<1>11. CASE Steps[pc] # "pairing"
  <2>1. pc # PairAt
    BY <1>1, <1>3, <1>11, Where
  <2>2. pc > PairAt
    BY <1>1, <1>2, <1>3, <2>1
  <2> QED BY <1>3, <1>8, <1>9, <1>11, <2>2 DEF Paired
<1> QED BY <1>10, <1>11

LEMMA JudgedKept ==
  ASSUME Typed, Decoded, Prepared, Paired, Judged, Proceeds, Times, Judges
  PROVE  Judged'
<1>1. pc \in 1 .. Len(Steps) /\ image \in Images /\ pc \in Nat /\ pc' = pc + 1 /\ UNCHANGED image
  BY Next1 DEF Proceeds
<1>2. /\ JudgeAt \in Nat /\ PairAt \in Nat /\ PrepareAt \in Nat /\ DecodeAt \in Nat
      /\ DecodeAt < PrepareAt /\ PrepareAt < PairAt /\ PairAt <= JudgeAt
      /\ ~ Single => PairAt < JudgeAt
      /\ Single => JudgeAt = 4
      /\ JudgeAt' = JudgeAt /\ Clear' = Clear /\ ProofHolds' = ProofHolds
  BY <1>1, SameImage, Positions, Order
<1>3. SUFFICES ASSUME pc + 1 > JudgeAt
               PROVE  /\ (ram'.g_valid = 1) = ProofHolds
                      /\ Clear => ram'.g_cycles_total = FlattenSeq(ram'.g_cycles)
  BY <1>1, <1>2 DEF Judged
<1>4. pc > DecodeAt /\ pc > PrepareAt
  BY <1>1, <1>2, <1>3
<1>5. points = Encodings /\ Whole
  BY <1>4 DEF Decoded
<1>6. /\ Steps[pc] = "verdict" <=> ~ Single /\ pc = JudgeAt
      /\ Steps[pc] = "bilinear" <=> Single /\ pc = 4
      /\ Steps[pc] = "systick_elapsed" <=> \E k \in Slots : pc = ElapsedAt(k)
  BY <1>1, Where
<1>7. CASE pc = JudgeAt /\ ~ Single
  <2>1. Steps[pc] = "verdict"
    BY <1>6, <1>7
  <2>2. L = InputPoint(image.setup, image.h) /\ result = MultiPairing
    BY <1>2, <1>4, <1>7 DEF Prepared, Paired
  <2>3. result = Key.alpha_beta <=> ProofHolds
    BY <1>1, <1>5, <1>7, <2>2, JudgedRight
  <2>4. ram'.g_valid = IF result = Key.alpha_beta THEN 1 ELSE 0
    BY <2>1 DEF Judges
  <2>5. (ram'.g_valid = 1) = ProofHolds
    <3>1. ProofHolds \in BOOLEAN
      BY DEF ProofHolds
    <3> QED BY <2>3, <2>4, <3>1
  <2>6. ASSUME Clear PROVE ram'.g_cycles_total = FlattenSeq(ram'.g_cycles)
    <3>1. Steps[pc] # "systick_elapsed"
      BY <2>1
    <3>2. ram'.g_cycles = ram.g_cycles
      BY <3>1 DEF Times
    <3>3. ram'.g_cycles_total = FlattenSeq(ram.g_cycles)
      BY <2>1, <2>6 DEF Judges
    <3> QED BY <3>2, <3>3
  <2> QED BY <2>5, <2>6
<1>8. CASE pc = JudgeAt /\ Single
  <2> DEFINE e == (points[1] * points[2]) % Q
             B == (L * points[2]) % Q = (e + e) % Q /\ e # 0
  <2>1. Steps[pc] = "bilinear"
    BY <1>2, <1>6, <1>8
  <2>2. L = (2 * points[1]) % Q
    BY <1>4, <1>8 DEF Prepared
  <2>3. B /\ ProofHolds
    BY <1>1, <1>5, <1>8, <2>2, BilinearHolds
  <2>4. ram'.g_valid = IF B THEN 1 ELSE 0
    BY <2>1 DEF Judges
  <2> HIDE DEF B
  <2>5. ram'.g_valid = 1
    BY <2>3, <2>4
  <2>6. (ram'.g_valid = 1) = TRUE /\ ProofHolds = TRUE
    <3>1. ProofHolds \in BOOLEAN
      BY DEF ProofHolds
    <3> QED BY <2>3, <2>5, <3>1
  <2>7. ~ Clear
    BY <1>1, <1>8, ThreePrograms
  <2> QED BY <2>6, <2>7
<1>9. CASE pc # JudgeAt
  <2>1. pc > JudgeAt
    BY <1>1, <1>2, <1>3, <1>9
  <2>2. Steps[pc] # "verdict" /\ Steps[pc] # "bilinear"
    BY <1>2, <1>6, <1>9
  <2>3. ram'.g_valid = ram.g_valid /\ ram'.g_cycles_total = ram.g_cycles_total
    BY <2>2 DEF Judges
  <2>4. ASSUME Clear PROVE ram'.g_cycles = ram.g_cycles
    <3>1. \A k \in Slots : ElapsedAt(k) \in Nat /\ ElapsedAt(k) < JudgeAt
      BY <1>1, <2>4, Order
    <3>2. Steps[pc] # "systick_elapsed"
      BY <1>1, <1>2, <1>6, <2>1, <3>1
    <3> QED BY <3>2 DEF Times
  <2> QED BY <2>1, <2>3, <2>4 DEF Judged
<1> QED BY <1>7, <1>8, <1>9

LEMMA AnnouncedKept ==
  ASSUME Typed, Announced, Proceeds, Judges
  PROVE  Announced'
<1>1. pc \in 1 .. Len(Steps) /\ image \in Images /\ pc \in Nat /\ pc' = pc + 1 /\ UNCHANGED image
  BY Next1 DEF Proceeds
<1>2. DoneAt \in Nat /\ DoneAt' = DoneAt
  BY <1>1, SameImage, Order
<1>3. Steps[pc] = "done" <=> pc = DoneAt
  BY <1>1, Where
<1>4. CASE pc = DoneAt
  BY <1>1, <1>2, <1>4 DEF Announced
<1>5. CASE pc # DoneAt
  <2>1. ram'.g_done = ram.g_done
    BY <1>3, <1>5 DEF Judges
  <2>2. ram.g_done = 1 => pc' > DoneAt
    BY <1>1, <1>2 DEF Announced
  <2> QED BY <1>2, <2>1, <2>2 DEF Announced
<1> QED BY <1>4, <1>5

LEMMA EffectKeeps ==
  ASSUME Typed, Live, Effect, pi' = <<pi'[1], pi'[2]>>
  PROVE  Typed' /\ Live'
<1>1. /\ pc \in 1 .. Len(Steps) /\ pc' \in 1 .. Len(Steps) /\ image \in Images /\ pc \in Nat
      /\ pc' = pc + 1 /\ UNCHANGED <<image, rc, reason, resets>>
  BY Next1 DEF Effect, Proceeds
<1>2. Steps' = Steps
  BY <1>1, SameImage
<1>3. Typed'
  BY <1>1, <1>2 DEF Typed, Effect, Proceeds
<1>4. pc' > 1 => image'.init_ok
  <2>1. Steps[pc] = "pairing_init" <=> pc = 1
    BY <1>1, Where
  <2>2. CASE pc = 1
    BY <1>1, <2>1, <2>2 DEF Effect, Initialised
  <2>3. CASE pc # 1
    BY <1>1, <2>3 DEF Live
  <2> QED BY <2>2, <2>3
<1>5. Tables'
  BY TablesKept DEF Live, Effect
<1>6. Timing'
  BY TimingKept DEF Live, Effect
<1>7. Hashed'
  BY HashedKept DEF Live, Effect
<1>8. Decoded'
  BY DecodedKept DEF Live, Effect
<1>9. Prepared'
  BY PreparedKept DEF Live, Effect
<1>10. Paired'
  BY PairedKept DEF Live, Effect
<1>11. Judged'
  BY JudgedKept DEF Live, Effect
<1>12. Announced'
  BY AnnouncedKept DEF Live, Effect
<1> QED BY <1>3, <1>4, <1>5, <1>6, <1>7, <1>8, <1>9, <1>10, <1>11, <1>12 DEF Live

-----------------------------------------------------------------------------
(* Each operation has that effect *)

Pair == pi' = <<pi'[1], pi'[2]>>

(* RAM with the fields given. *)
Ram(i, t, h, v, c, s, d) ==
  [initialized |-> i, tables |-> t, g_hashes_ok |-> h, g_valid |-> v,
   g_cycles |-> c, g_cycles_total |-> s, g_done |-> d]

LEMMA RamIs ==
  ASSUME NEW i, NEW t, NEW h, NEW v, NEW c, NEW s, NEW d,
         ram' = Ram(i, t, h, v, c, s, d), c = [k \in Slots |-> c[k]], UNCHANGED image
  PROVE  /\ RamShape'
         /\ ram'.initialized = i /\ ram'.tables = t /\ ram'.g_hashes_ok = h /\ ram'.g_valid = v
         /\ ram'.g_cycles = c /\ ram'.g_cycles_total = s /\ ram'.g_done = d
<1>1. /\ ram'.initialized = i /\ ram'.tables = t /\ ram'.g_hashes_ok = h /\ ram'.g_valid = v
      /\ ram'.g_cycles = c /\ ram'.g_cycles_total = s /\ ram'.g_done = d
  BY DEF Ram
<1>2. Slots' = Slots
  BY DEF Slots
<1> QED BY <1>1, <1>2 DEF RamShape, Ram

LEMMA RamWas ==
  ASSUME Typed
  PROVE  /\ ram = Ram(ram.initialized, ram.tables, ram.g_hashes_ok, ram.g_valid, ram.g_cycles,
                      ram.g_cycles_total, ram.g_done)
         /\ ram.g_cycles = [k \in Slots |-> ram.g_cycles[k]]
BY DEF Typed, RamShape, Ram

LEMMA ConvertedIs ==
  ASSUME Typed
  PROVE  Converted = Ram(1, Converted.tables, ram.g_hashes_ok, ram.g_valid, ram.g_cycles,
                         ram.g_cycles_total, ram.g_done)
<1> DEFINE i == ram.initialized
           t == ram.tables
           h == ram.g_hashes_ok
           v == ram.g_valid
           c == ram.g_cycles
           s == ram.g_cycles_total
           d == ram.g_done
           n == IF i = 0 THEN "converted" ELSE t
<1>1. ram = Ram(i, t, h, v, c, s, d)
  BY RamWas
<1>2. Converted = [ram EXCEPT !.initialized = 1, !.tables = n]
  BY <1>1 DEF Converted, Ram
<1> HIDE DEF i, t, h, v, c, s, d, n
<1>3. [ram EXCEPT !.initialized = 1, !.tables = n] = Ram(1, n, h, v, c, s, d)
  <2> DEFINE r == [ram EXCEPT !.initialized = 1]
  <2>1. r = Ram(1, t, h, v, c, s, d)
    BY <1>1 DEF Ram
  <2>2. [ram EXCEPT !.initialized = 1, !.tables = n] = [r EXCEPT !.tables = n]
    OBVIOUS
  <2> HIDE DEF r
  <2>3. [r EXCEPT !.tables = n] = Ram(1, n, h, v, c, s, d)
    BY <2>1 DEF Ram
  <2> QED BY <2>2, <2>3
<1>4. Converted.tables = n
  BY <1>2, <1>3 DEF Ram
<1> QED BY <1>2, <1>3, <1>4 DEF h, v, c, s, d

(* The operations that leave RAM alone. *)
LEMMA RamKept ==
  ASSUME Typed, UNCHANGED <<image, ram>>
  PROVE  RamShape'
BY DEF Typed, RamShape, Slots

LEMMA pairing_initEffect ==
  ASSUME Typed, pairing_init, image.init_ok
  PROVE  Effect /\ Pair
<1> USE DEF pairing_init, At, Proceed, Typed, locals
<1>1. Proceeds
  BY RamKept DEF Proceeds, Steps
<1>2. Initialised /\ Decodes
  BY DEF Initialised, Decodes, Steps, Whole
<1>3. Converts /\ Times
  BY DEF Converts, Times, Steps, Spend
<1>4. Hashes /\ Computes /\ Judges
  BY DEF Hashes, Computes, Judges, Steps, Clear, Single
<1> QED BY <1>1, <1>2, <1>3, <1>4 DEF Effect, Pair

LEMMA systick_initEffect ==
  ASSUME Typed, systick_init
  PROVE  Effect /\ Pair
<1> USE DEF systick_init, At, Proceed, Typed, locals
<1>1. Proceeds
  BY RamKept DEF Proceeds, Steps
<1>2. Initialised /\ Decodes
  BY DEF Initialised, Decodes, Steps, Whole
<1>3. Converts /\ Times
  BY DEF Converts, Times, Steps, Spend
<1>4. Hashes /\ Computes /\ Judges
  BY DEF Hashes, Computes, Judges, Steps, Clear, Single
<1> QED BY <1>1, <1>2, <1>3, <1>4 DEF Effect, Pair

LEMMA systick_resetEffect ==
  ASSUME Typed, systick_reset
  PROVE  Effect /\ Pair
<1> USE DEF systick_reset, At, Proceed, Typed, locals
<1>1. Proceeds
  BY RamKept DEF Proceeds, Steps
<1>2. Initialised /\ Decodes
  BY DEF Initialised, Decodes, Steps, Whole
<1>3. Converts /\ Times
  BY DEF Converts, Times, Steps, Spend
<1>4. Hashes /\ Computes /\ Judges
  BY DEF Hashes, Computes, Judges, Steps, Clear, Single
<1> QED BY <1>1, <1>2, <1>3, <1>4 DEF Effect, Pair

LEMMA DecodeEffect ==
  ASSUME Typed, Decode, Whole
  PROVE  Effect /\ Pair
<1> USE DEF Decode, Return, At, Proceed, Typed, locals
<1>1. Proceeds
  BY RamKept DEF Proceeds, Steps, Whole
<1>2. Initialised /\ Decodes
  BY DEF Initialised, Decodes, Steps, Whole
<1>3. Converts /\ Times
  BY DEF Converts, Times, Steps, Spend
<1>4. Hashes /\ Computes /\ Judges
  BY DEF Hashes, Computes, Judges, Steps, Clear, Single
<1> QED BY <1>1, <1>2, <1>3, <1>4 DEF Effect, Pair

LEMMA PrepareEffect ==
  ASSUME Typed, Prepare
  PROVE  Effect /\ Pair
<1> USE DEF Prepare, At, Proceed, Typed, locals
<1>1. Proceeds
  BY RamKept DEF Proceeds, Steps
<1>2. Initialised /\ Decodes
  BY DEF Initialised, Decodes, Steps, Whole
<1>3. Converts /\ Times
  BY DEF Converts, Times, Steps, Spend
<1>4. Hashes /\ Computes /\ Judges
  BY DEF Hashes, Computes, Judges, Steps, Clear, Single
<1> QED BY <1>1, <1>2, <1>3, <1>4 DEF Effect, Pair

LEMMA PairingEffect ==
  ASSUME Typed, Pairing
  PROVE  Effect /\ Pair
<1> USE DEF Pairing, At, Proceed, Typed, locals
<1>1. Proceeds
  BY RamKept DEF Proceeds, Steps
<1>2. Initialised /\ Decodes
  BY DEF Initialised, Decodes, Steps, Whole
<1>3. Converts /\ Times
  BY DEF Converts, Times, Steps, Spend
<1>4. Hashes /\ Computes /\ Judges
  BY DEF Hashes, Computes, Judges, Steps, Clear, Single
<1> QED BY <1>1, <1>2, <1>3, <1>4 DEF Effect, Pair

LEMMA DoubleEffect ==
  ASSUME Typed, Double
  PROVE  Effect /\ Pair
<1> USE DEF Double, At, Proceed, Typed, locals
<1>1. Proceeds
  BY RamKept DEF Proceeds, Steps
<1>2. Initialised /\ Decodes
  BY DEF Initialised, Decodes, Steps, Whole
<1>3. Converts /\ Times
  BY DEF Converts, Times, Steps, Spend
<1>4. Hashes /\ Computes /\ Judges
  BY DEF Hashes, Computes, Judges, Steps, Clear, Single
<1> QED BY <1>1, <1>2, <1>3, <1>4 DEF Effect, Pair

LEMMA systick_elapsedEffect ==
  ASSUME Typed, systick_elapsed
  PROVE  Effect /\ Pair
<1> USE DEF systick_elapsed, At, Proceed, locals
<1> DEFINE c == [ram.g_cycles EXCEPT ![Slot] = spent]
<1>1. ram' = Ram(ram.initialized, ram.tables, ram.g_hashes_ok, ram.g_valid,
                 c, ram.g_cycles_total, ram.g_done)
  <2>1. ram' = [ram EXCEPT !.g_cycles = c]
    BY RamWas DEF Ram, Clear
  <2> HIDE DEF c
  <2> QED BY <2>1, RamWas DEF Ram
<1>2. c = [k \in Slots |-> c[k]]
  BY RamWas
<1>3. /\ RamShape'
      /\ ram'.initialized = ram.initialized /\ ram'.tables = ram.tables /\ ram'.g_hashes_ok = ram.g_hashes_ok /\ ram'.g_valid = ram.g_valid
      /\ ram'.g_cycles = c /\ ram'.g_cycles_total = ram.g_cycles_total /\ ram'.g_done = ram.g_done
  <2>1. UNCHANGED image
    OBVIOUS
  <2> HIDE DEF c, systick_elapsed, Proceed
  <2> QED BY <1>1, <1>2, <2>1, RamIs
<1>4. Proceeds
  BY <1>3 DEF Proceeds, Steps, Typed
<1>5. Initialised /\ Decodes
  BY DEF Initialised, Decodes, Steps
<1>6. Converts /\ Times
  BY <1>3 DEF Converts, Times, Steps
<1>7. Hashes
  BY <1>3 DEF Hashes, Steps
<1>8. Computes
  BY DEF Computes, Steps
<1>9. Judges
  BY <1>3 DEF Judges, Steps
<1> QED BY <1>4, <1>5, <1>6, <1>7, <1>8, <1>9 DEF Effect, Pair, Typed

LEMMA CompareHashesEffect ==
  ASSUME Typed, CompareHashes
  PROVE  Effect /\ Pair
<1> USE DEF CompareHashes, At, Proceed, locals
<1> DEFINE h == IF pi = image.expected THEN 1 ELSE 0
<1>1. ram' = Ram(ram.initialized, ram.tables, h, ram.g_valid,
                 ram.g_cycles, ram.g_cycles_total, ram.g_done)
  <2>1. ram' = [ram EXCEPT !.g_hashes_ok = h]
    BY RamWas DEF Ram, Clear
  <2> HIDE DEF h
  <2> QED BY <2>1, RamWas DEF Ram
<1>2. ram.g_cycles = [k \in Slots |-> ram.g_cycles[k]]
  BY RamWas
<1>3. /\ RamShape'
      /\ ram'.initialized = ram.initialized /\ ram'.tables = ram.tables /\ ram'.g_hashes_ok = h /\ ram'.g_valid = ram.g_valid
      /\ ram'.g_cycles = ram.g_cycles /\ ram'.g_cycles_total = ram.g_cycles_total /\ ram'.g_done = ram.g_done
  <2>1. UNCHANGED image
    OBVIOUS
  <2> HIDE DEF h, CompareHashes, Proceed
  <2> QED BY <1>1, <1>2, <2>1, RamIs
<1>4. Proceeds
  BY <1>3 DEF Proceeds, Steps, Typed
<1>5. Initialised /\ Decodes
  BY DEF Initialised, Decodes, Steps
<1>6. Converts /\ Times
  BY <1>3 DEF Converts, Times, Steps
<1>7. Hashes
  BY <1>3 DEF Hashes, Steps
<1>8. Computes
  BY DEF Computes, Steps
<1>9. Judges
  BY <1>3 DEF Judges, Steps
<1> QED BY <1>4, <1>5, <1>6, <1>7, <1>8, <1>9 DEF Effect, Pair, Typed

LEMMA CompareProductEffect ==
  ASSUME Typed, CompareProduct
  PROVE  Effect /\ Pair
<1> USE DEF CompareProduct, At, Proceed, locals
<1> DEFINE v == IF result = Key.alpha_beta THEN 1 ELSE 0
           s == IF Clear THEN FlattenSeq(ram.g_cycles) ELSE ram.g_cycles_total
<1>1. ram' = Ram(ram.initialized, ram.tables, ram.g_hashes_ok, v,
                 ram.g_cycles, s, ram.g_done)
  <2>1. ram' = [ram EXCEPT !.g_valid = v, !.g_cycles_total = s]
    BY RamWas DEF Ram, Clear
  <2> HIDE DEF v, s
  <2> QED BY <2>1, RamWas DEF Ram
<1>2. ram.g_cycles = [k \in Slots |-> ram.g_cycles[k]]
  BY RamWas
<1>3. /\ RamShape'
      /\ ram'.initialized = ram.initialized /\ ram'.tables = ram.tables /\ ram'.g_hashes_ok = ram.g_hashes_ok /\ ram'.g_valid = v
      /\ ram'.g_cycles = ram.g_cycles /\ ram'.g_cycles_total = s /\ ram'.g_done = ram.g_done
  <2>1. UNCHANGED image
    OBVIOUS
  <2> HIDE DEF v, s, CompareProduct, Proceed
  <2> QED BY <1>1, <1>2, <2>1, RamIs
<1>4. Proceeds
  BY <1>3 DEF Proceeds, Steps, Typed
<1>5. Initialised /\ Decodes
  BY DEF Initialised, Decodes, Steps
<1>6. Converts /\ Times
  BY <1>3 DEF Converts, Times, Steps
<1>7. Hashes
  BY <1>3 DEF Hashes, Steps
<1>8. Computes
  BY DEF Computes, Steps
<1>9. Judges
  BY <1>3 DEF Judges, Steps
<1> QED BY <1>4, <1>5, <1>6, <1>7, <1>8, <1>9 DEF Effect, Pair, Typed

LEMMA BilinearEffect ==
  ASSUME Typed, Bilinear
  PROVE  Effect /\ Pair
<1> USE DEF Bilinear, At, Proceed, locals
<1> DEFINE e == (points[1] * points[2]) % Q
           v == IF (L * points[2]) % Q = (e + e) % Q /\ e # 0 THEN 1 ELSE 0
<1>1. ram' = Ram(ram.initialized, ram.tables, ram.g_hashes_ok, v,
                 ram.g_cycles, ram.g_cycles_total, ram.g_done)
  <2>1. ram' = [ram EXCEPT !.g_valid = v]
    BY RamWas DEF Ram, Clear
  <2> HIDE DEF v
  <2> QED BY <2>1, RamWas DEF Ram
<1>2. ram.g_cycles = [k \in Slots |-> ram.g_cycles[k]]
  BY RamWas
<1>3. /\ RamShape'
      /\ ram'.initialized = ram.initialized /\ ram'.tables = ram.tables /\ ram'.g_hashes_ok = ram.g_hashes_ok /\ ram'.g_valid = v
      /\ ram'.g_cycles = ram.g_cycles /\ ram'.g_cycles_total = ram.g_cycles_total /\ ram'.g_done = ram.g_done
  <2>1. UNCHANGED image
    OBVIOUS
  <2> HIDE DEF v, Bilinear, Proceed
  <2> QED BY <1>1, <1>2, <2>1, RamIs
<1>4. Proceeds
  BY <1>3 DEF Proceeds, Steps, Typed
<1>5. Initialised /\ Decodes
  BY DEF Initialised, Decodes, Steps
<1>6. Converts /\ Times
  BY <1>3 DEF Converts, Times, Steps
<1>7. Hashes
  BY <1>3 DEF Hashes, Steps
<1>8. Computes
  <2>1. pc \in 1 .. Len(Steps) /\ image \in Images /\ Steps[pc] = "bilinear"
    BY <1>4, Next1 DEF Typed, Steps
  <2>2. Single
    BY <2>1, Where
  <2> QED BY <2>1, <2>2 DEF Computes
<1>9. Judges
  BY <1>3 DEF Judges, Steps
<1> QED BY <1>4, <1>5, <1>6, <1>7, <1>8, <1>9 DEF Effect, Pair, Typed

LEMMA DoneEffect ==
  ASSUME Typed, Done
  PROVE  Effect /\ Pair
<1> USE DEF Done, At, Proceed, locals
<1> DEFINE d == 1
<1>1. ram' = Ram(ram.initialized, ram.tables, ram.g_hashes_ok, ram.g_valid,
                 ram.g_cycles, ram.g_cycles_total, d)
  <2>1. ram' = [ram EXCEPT !.g_done = d]
    BY RamWas DEF Ram, Clear
  <2> HIDE DEF d
  <2> QED BY <2>1, RamWas DEF Ram
<1>2. ram.g_cycles = [k \in Slots |-> ram.g_cycles[k]]
  BY RamWas
<1>3. /\ RamShape'
      /\ ram'.initialized = ram.initialized /\ ram'.tables = ram.tables /\ ram'.g_hashes_ok = ram.g_hashes_ok /\ ram'.g_valid = ram.g_valid
      /\ ram'.g_cycles = ram.g_cycles /\ ram'.g_cycles_total = ram.g_cycles_total /\ ram'.g_done = d
  <2>1. UNCHANGED image
    OBVIOUS
  <2> HIDE DEF d, Done, Proceed
  <2> QED BY <1>1, <1>2, <2>1, RamIs
<1>4. Proceeds
  BY <1>3 DEF Proceeds, Steps, Typed
<1>5. Initialised /\ Decodes
  BY DEF Initialised, Decodes, Steps
<1>6. Converts /\ Times
  BY <1>3 DEF Converts, Times, Steps
<1>7. Hashes
  BY <1>3 DEF Hashes, Steps
<1>8. Computes
  BY DEF Computes, Steps
<1>9. Judges
  BY <1>3 DEF Judges, Steps
<1> QED BY <1>4, <1>5, <1>6, <1>7, <1>8, <1>9 DEF Effect, Pair, Typed

LEMMA HashingEffect ==
  ASSUME Typed, ram' = Converted, Proceed, UNCHANGED rc, pc > 0,
         Steps[pc] \in {"warm_up", "hash_c", "hash_t"},
         UNCHANGED <<points, L, result, counting>>,
         Steps[pc] # "warm_up" /\ counting => spent' = spent \o HashWork(Steps[pc]),
         pi' = CASE Steps[pc] = "hash_c" -> [pi EXCEPT ![1] = Hash(1)]
                 [] Steps[pc] = "hash_t" -> [pi EXCEPT ![2] = Hash(2)]
                 [] OTHER                -> pi
  PROVE  Effect
<1>1. /\ RamShape' /\ ram'.initialized = 1 /\ ram'.tables = Converted.tables
      /\ ram'.g_hashes_ok = ram.g_hashes_ok /\ ram'.g_valid = ram.g_valid
      /\ ram'.g_cycles = ram.g_cycles /\ ram'.g_cycles_total = ram.g_cycles_total
      /\ ram'.g_done = ram.g_done
  <2>1. ram.g_cycles = [k \in Slots |-> ram.g_cycles[k]] /\ UNCHANGED image
    BY RamWas DEF Proceed
  <2>2. ram' = Ram(1, Converted.tables, ram.g_hashes_ok, ram.g_valid, ram.g_cycles,
                   ram.g_cycles_total, ram.g_done)
    BY ConvertedIs
  <2> QED BY <2>1, <2>2, RamIs
<1>2. Proceeds
  BY <1>1 DEF Proceeds, Proceed, Typed
<1>3. Initialised /\ Decodes /\ Computes
  BY DEF Initialised, Decodes, Computes
<1>4. Converts /\ Times
  BY <1>1 DEF Converts, Times
<1>5. Hashes /\ Judges
  BY <1>1 DEF Hashes, Judges
<1> QED BY <1>2, <1>3, <1>4, <1>5 DEF Effect

LEMMA warm_upEffect ==
  ASSUME Typed, warm_up
  PROVE  Effect /\ Pair
<1>1. pi' = pi /\ Steps[pc] = "warm_up"
  BY DEF warm_up, At, Steps, locals
<1>2. Effect
  BY <1>1, HashingEffect DEF warm_up, At, Steps, locals
<1> QED BY <1>1, <1>2 DEF Pair, Typed

LEMMA HashCalldataEffect ==
  ASSUME Typed, HashCalldata
  PROVE  Effect /\ Pair
<1>1. Steps[pc] = "hash_c" /\ pi' = [pi EXCEPT ![1] = Hash(1)]
  BY DEF HashCalldata, HashPhase, At, Steps
<1>2. Effect
  BY <1>1, HashingEffect DEF HashCalldata, HashPhase, At, Steps, Spend
<1> QED BY <1>1, <1>2 DEF Pair, Typed

LEMMA HashTextEffect ==
  ASSUME Typed, HashText
  PROVE  Effect /\ Pair
<1>1. Steps[pc] = "hash_t" /\ pi' = [pi EXCEPT ![2] = Hash(2)]
  BY DEF HashText, HashPhase, At, Steps
<1>2. Effect
  BY <1>1, HashingEffect DEF HashText, HashPhase, At, Steps, Spend
<1> QED BY <1>1, <1>2 DEF Pair, Typed

-----------------------------------------------------------------------------
(* The invariant *)

LEMMA AtStart == Init => IInv
<1> SUFFICES ASSUME Init PROVE IInv
  OBVIOUS
<1>1. image \in Images /\ pc = 0 /\ rc = None /\ reason = None /\ resets = 0
  BY DEF Init
<1>2. RamShape
  BY DEF Init, RamShape, Zeroed, Unknown
<1>3. Len(Steps) \in Nat
  BY <1>1, LastStep, Order
<1>4. pc \in 0 .. Len(Steps) /\ resets \in 0 .. MaxResets
  BY <1>1, <1>3, ImagesAssumption
<1>5. pi = <<pi[1], pi[2]>> /\ counting \in BOOLEAN
  BY DEF Init
<1>6. Typed
  BY <1>1, <1>2, <1>4, <1>5 DEF Typed
<1> QED BY <1>1, <1>6 DEF IInv, Exits

LEMMA LiveStays ==
  ASSUME Live, UNCHANGED <<image, ram, pc, pi, points, L, result, counting, spent>>
  PROVE  Live'
<1>1. UNCHANGED image
  OBVIOUS
<1>2. /\ StartAt' = StartAt /\ Slots' = Slots
      /\ \A k : ElapsedAt(k)' = ElapsedAt(k) /\ Work(k)' = Work(k)
  BY <1>1 DEF StartAt, Slots, ElapsedAt, Work, Clear, Base, Multi
<1>3. Tables' /\ Hashed' /\ Announced'
  BY <1>1, SameImage DEF Live, Tables, Hashed, Announced
<1>4. Timing'
  BY <1>2 DEF Live, Timing
<1>5. Decoded' /\ Judged'
  BY <1>1, SameImage DEF Live, Decoded, Judged
<1>6. Prepared'
  BY <1>1, SameImage DEF Live, Prepared
<1>7. Paired'
  BY <1>1, SameImage DEF Live, Paired, MultiPairing
<1> QED BY <1>3, <1>4, <1>5, <1>6, <1>7 DEF Live

LEMMA ProceedKeeps ==
  ASSUME IInv, Effect, Pair
  PROVE  IInv'
<1>1. Typed /\ Live /\ Exits
  BY DEF IInv, Effect, Proceeds
<1>2. Typed' /\ Live'
  BY <1>1, EffectKeeps DEF Pair
<1>3. UNCHANGED <<image, rc, reason>>
  BY DEF Effect, Proceeds
<1>4. Exits'
  BY <1>1, <1>3, SameImage DEF Exits
<1> QED BY <1>2, <1>4 DEF IInv

LEMMA StartKeeps == ASSUME IInv, _start PROVE IInv'
<1>1. /\ pc = 0 /\ pc' = 1 /\ ram' = Zeroed
      /\ UNCHANGED <<image, pi, counting, rc, reason, resets>>
  BY DEF _start, ClearedBss, locals
<1>2. image \in Images /\ Typed /\ Exits
  BY DEF IInv, Typed
<1>3. Steps' = Steps /\ Slots' = Slots
  BY <1>1, SameImage
<1>4. /\ RamShape'
      /\ ram'.initialized = 0 /\ ram'.tables = "zero" /\ ram'.g_done = 0
      /\ \A k \in Slots : ram'.g_cycles[k] = <<>>
  BY <1>1, <1>3 DEF RamShape, Zeroed
<1>5. Typed'
  <2>1. 1 \in 0 .. Len(Steps)
    BY <1>2, LastStep, Order
  <2> QED BY <1>1, <1>2, <1>3, <1>4, <2>1 DEF Typed
<1>6. Exits'
  BY <1>1, <1>2, SameImage DEF Exits
<1>7. Tables' /\ Announced'
  BY <1>1, <1>4 DEF Tables, Announced
<1>8. Timing'
  <2>1. \A k : ElapsedAt(k)' = ElapsedAt(k) /\ Work(k)' = Work(k)
    BY <1>1 DEF ElapsedAt, Work, Clear, Base, Multi
  <2>2. StartAt' = StartAt /\ StartAt \in {3, 5, 6}
    BY <1>1 DEF StartAt, Clear, Base, Multi
  <2>3. \A k \in Slots : ElapsedAt(k) \in Nat /\ ElapsedAt(k) > 2 + StartAt
    BY <1>2, <2>2, Order
  <2> QED BY <1>1, <1>3, <1>4, <2>1, <2>2, <2>3 DEF Timing
<1>9. Hashed'
  BY <1>1 DEF Hashed
<1>10. Decoded' /\ Prepared' /\ Paired' /\ Judged'
  <2>1. /\ DecodeAt' \in Nat /\ PrepareAt' \in Nat /\ PairAt' \in Nat /\ JudgeAt' \in Nat
        /\ 1 < DecodeAt' /\ 1 < PrepareAt' /\ 1 < PairAt' /\ 1 < JudgeAt'
    BY <1>1, <1>2, SameImage, Positions, Order
  <2> QED BY <1>1, <2>1 DEF Decoded, Prepared, Paired, Judged
<1> QED BY <1>1, <1>5, <1>6, <1>7, <1>8, <1>9, <1>10 DEF IInv, Live

(* main returns and leaves the rest as it is. *)
LEMMA ReturnKeeps ==
  ASSUME IInv, pc > 0, rc' \in {0, 1}, (rc' = 0) = Succeeds,
         UNCHANGED <<image, ram, pc, pi, points, L, result, counting, spent, reason, resets>>
  PROVE  IInv'
<1>1. Typed /\ Live /\ Exits
  BY DEF IInv
<1>2. /\ Steps' = Steps /\ Slots' = Slots /\ Succeeds' = Succeeds
  BY SameImage
<1>3. Typed'
  BY <1>1, <1>2 DEF Typed, RamShape
<1>4. Exits'
  BY <1>1, <1>2 DEF Exits
<1>5. Live'
  BY <1>1, LiveStays
<1> QED BY <1>3, <1>4, <1>5 DEF IInv

LEMMA InitFails == ASSUME IInv, pairing_init, ~ image.init_ok PROVE IInv'
<1>1. /\ pc > 0 /\ rc' = 1
      /\ UNCHANGED <<image, ram, pc, pi, points, L, result, counting, spent, reason, resets>>
  BY DEF pairing_init, At, Return, locals
<1>2. ~ Succeeds
  BY DEF Succeeds
<1>3. Succeeds \in BOOLEAN
  BY DEF Succeeds
<1>4. (rc' = 0) = Succeeds
  BY <1>1, <1>2, <1>3
<1> QED BY <1>1, <1>4, ReturnKeeps

LEMMA FinishKeeps == ASSUME IInv, Finish PROVE IInv'
<1> DEFINE ok == ram.g_valid = 1 /\ (Clear => ram.g_hashes_ok = 1)
<1>1. /\ pc > 0 /\ Steps[pc] = "return" /\ rc' = IF ok THEN 0 ELSE 1
      /\ UNCHANGED <<image, ram, pc, pi, points, L, result, counting, spent, reason, resets>>
  BY DEF Finish, At, Return, locals, Steps, Clear
<1>2. Typed /\ Live /\ image \in Images /\ pc \in 1 .. Len(Steps)
  BY <1>1, LastStep, Order DEF IInv, Typed
<1>3. pc = DoneAt + 1
  BY <1>1, <1>2, Where
<1>4. pc > JudgeAt /\ (Clear => pc > 10) /\ pc > 1
  BY <1>2, <1>3, Order, Positions
<1>5. (ram.g_valid = 1) = ProofHolds /\ image.init_ok /\ (Clear => (ram.g_hashes_ok = 1) = HashesMatch)
  BY <1>2, <1>4 DEF Live, Judged, Hashed
<1>6. ok <=> Succeeds
  BY <1>5 DEF Succeeds, Clear
<1>7. Succeeds \in BOOLEAN
  BY DEF Succeeds
<1> HIDE DEF ok
<1>8. rc' \in {0, 1} /\ (rc' = 0) = Succeeds
  BY <1>1, <1>6, <1>7
<1> QED BY <1>1, <1>8, ReturnKeeps

(* A point off the curve: the points read are left behind, and no position *)
(* after the decoding is reached.                                          *)
LEMMA DecodeFails == ASSUME IInv, Decode, ~ Whole PROVE IInv'
<1>1. /\ pc > 0 /\ Steps[pc] = "decode" /\ rc' = 1
      /\ UNCHANGED <<image, ram, pc, pi, L, result, counting, reason, resets>>
  BY DEF Decode, At, Return, Steps, Whole
<1>2. Typed /\ Live /\ image \in Images /\ pc \in 1 .. Len(Steps) /\ Exits
  BY <1>1, LastStep, Order DEF IInv, Typed
<1>3. /\ Steps' = Steps /\ Slots' = Slots /\ Succeeds' = Succeeds
  BY <1>1, SameImage
<1>4. ~ Succeeds /\ Succeeds \in BOOLEAN
  BY <1>2, NotWhole DEF Succeeds
<1>5. Typed'
  BY <1>1, <1>2, <1>3 DEF Typed, RamShape
<1>6. Exits'
  BY <1>1, <1>2, <1>3, <1>4 DEF Exits
<1>7. pc = DecodeAt
  BY <1>1, <1>2, Where
<1>8. Decoded' /\ Prepared' /\ Paired'
  <2>1. /\ DecodeAt' = DecodeAt /\ PrepareAt' = PrepareAt /\ PairAt' = PairAt
        /\ DecodeAt \in Nat /\ PrepareAt \in Nat /\ PairAt \in Nat
        /\ DecodeAt < PrepareAt /\ DecodeAt < PairAt
    BY <1>1, <1>2, SameImage, Positions
  <2> QED BY <1>1, <1>7, <2>1 DEF Decoded, Prepared, Paired
<1>9. Timing'
  <2>1. \A k \in Slots : pc # ElapsedAt(k) - 1 /\ pc # ElapsedAt(k)
    <3> TAKE k \in Slots
    <3>1. Steps[ElapsedAt(k) - 1] = Work(k)
      BY <1>2, WorkThere
    <3>2. Work(k) # "decode"
      <4>1. CASE Clear
        <5>1. k = 1 \/ k = 2 \/ k = 3 \/ k = 4
          BY <1>2, <4>1, SlotFacts
        <5> QED BY <1>2, <4>1, <5>1, SlotFacts
      <4>2. CASE ~ Clear
        BY <1>2, <4>2, SlotFacts
      <4> QED BY <4>1, <4>2
    <3>3. pc # ElapsedAt(k) - 1
      BY <1>1, <3>1, <3>2
    <3>4. pc # ElapsedAt(k)
      <4>1. Steps[pc] # "systick_elapsed"
        BY <1>1
      <4> QED BY <1>2, <4>1, Where
    <3> QED BY <3>3, <3>4
  <2>2. /\ StartAt' = StartAt /\ \A k : ElapsedAt(k)' = ElapsedAt(k) /\ Work(k)' = Work(k)
    BY <1>1 DEF StartAt, ElapsedAt, Work, Clear, Base, Multi
  <2> QED BY <1>1, <1>2, <1>3, <2>1, <2>2 DEF Live, Timing
<1>10. Tables' /\ Hashed' /\ Judged' /\ Announced' /\ (pc' > 1 => image'.init_ok)
  BY <1>1, <1>2, SameImage DEF Live, Tables, Hashed, Judged, Announced
<1> QED BY <1>5, <1>6, <1>8, <1>9, <1>10 DEF IInv, Live

LEMMA ExitKeeps == ASSUME IInv, SysExit PROVE IInv'
<1>1. /\ rc # None /\ reason' = Reason(rc)
      /\ UNCHANGED <<image, ram, pc, pi, points, L, result, counting, spent, rc, resets>>
  BY DEF SysExit, locals
<1>2. /\ Steps' = Steps /\ Slots' = Slots /\ Succeeds' = Succeeds
  BY <1>1, SameImage
<1>3. (rc = 0) = Succeeds /\ reason' = IF rc = 0 THEN "ApplicationExit" ELSE "InternalError"
  BY <1>1 DEF IInv, Exits, Reason
<1>4. Typed'
  BY <1>1, <1>2, <1>3 DEF IInv, Typed, RamShape
<1>5. Exits'
  BY <1>1, <1>2, <1>3 DEF IInv, Exits
<1>6. Live => Live'
  BY <1>1, LiveStays
<1> QED BY <1>1, <1>4, <1>5, <1>6 DEF IInv

LEMMA ResetKeeps == ASSUME IInv, Reset PROVE IInv'
<1>1. /\ resets < MaxResets /\ resets' = resets + 1 /\ UNCHANGED <<image, ram>>
      /\ pc' = 0 /\ pi' = <<None, None>> /\ counting' = FALSE /\ rc' = None /\ reason' = None
  BY DEF Reset, Restarted
<1>2. /\ Steps' = Steps /\ Slots' = Slots
  BY <1>1, SameImage
<1>3. Len(Steps) \in Nat /\ Typed
  BY LastStep, Order DEF IInv, Typed
<1>4. pc' \in 0 .. Len(Steps) /\ resets' \in 0 .. MaxResets
  BY <1>1, <1>3, ImagesAssumption DEF Typed
<1>5. pi' = <<pi'[1], pi'[2]>>
  BY <1>1
<1>6. image' \in Images /\ RamShape'
  BY <1>1, <1>2, <1>3 DEF Typed, RamShape
<1>7. Typed'
  BY <1>1, <1>2, <1>4, <1>5, <1>6 DEF Typed
<1> QED BY <1>1, <1>7 DEF IInv, Exits

LEMMA StutterKeeps == ASSUME IInv, UNCHANGED vars PROVE IInv'
<1>1. UNCHANGED <<image, ram, pc, pi, points, L, result, counting, spent, rc, reason, resets>>
  BY DEF vars, locals
<1>2. /\ Steps' = Steps /\ Slots' = Slots /\ Succeeds' = Succeeds
  BY <1>1, SameImage
<1>3. Typed'
  BY <1>1, <1>2 DEF IInv, Typed, RamShape
<1>4. Exits'
  BY <1>1, <1>2 DEF IInv, Exits
<1>5. Live => Live'
  BY <1>1, LiveStays
<1> QED BY <1>1, <1>3, <1>4, <1>5 DEF IInv

LEMMA NextKeeps == ASSUME IInv, [Next]_vars PROVE IInv'
<1>0. Typed
  BY DEF IInv
<1>1. CASE _start
  BY <1>1, StartKeeps
<1>2. CASE pairing_init
  BY <1>0, <1>2, pairing_initEffect, ProceedKeeps, InitFails
<1>3. CASE systick_init
  BY <1>0, <1>3, systick_initEffect, ProceedKeeps
<1>4. CASE systick_reset
  BY <1>0, <1>4, systick_resetEffect, ProceedKeeps
<1>5. CASE systick_elapsed
  BY <1>0, <1>5, systick_elapsedEffect, ProceedKeeps
<1>6. CASE warm_up
  BY <1>0, <1>6, warm_upEffect, ProceedKeeps
<1>7. CASE HashCalldata
  BY <1>0, <1>7, HashCalldataEffect, ProceedKeeps
<1>8. CASE HashText
  BY <1>0, <1>8, HashTextEffect, ProceedKeeps
<1>9. CASE CompareHashes
  BY <1>0, <1>9, CompareHashesEffect, ProceedKeeps
<1>10. CASE Decode
  BY <1>0, <1>10, DecodeEffect, ProceedKeeps, DecodeFails
<1>11. CASE Prepare
  BY <1>0, <1>11, PrepareEffect, ProceedKeeps
<1>12. CASE Pairing
  BY <1>0, <1>12, PairingEffect, ProceedKeeps
<1>13. CASE CompareProduct
  BY <1>0, <1>13, CompareProductEffect, ProceedKeeps
<1>14. CASE Double
  BY <1>0, <1>14, DoubleEffect, ProceedKeeps
<1>15. CASE Bilinear
  BY <1>0, <1>15, BilinearEffect, ProceedKeeps
<1>16. CASE Done
  BY <1>0, <1>16, DoneEffect, ProceedKeeps
<1>17. CASE Finish
  BY <1>17, FinishKeeps
<1>18. CASE SysExit
  BY <1>18, ExitKeeps
<1>19. CASE Reset
  BY <1>19, ResetKeeps
<1>20. CASE UNCHANGED vars
  BY <1>20, StutterKeeps
<1> QED BY <1>1, <1>2, <1>3, <1>4, <1>5, <1>6, <1>7, <1>8, <1>9, <1>10, <1>11, <1>12, <1>13, <1>14,
           <1>15, <1>16, <1>17, <1>18, <1>19, <1>20 DEF Next, Core

(* What each phase of main has left behind once it is passed, at every     *)
(* place of every program and across resets at any step.                   *)
THEOREM Invariance == Spec => []IInv
<1>1. IInv /\ [Next]_vars => IInv'
  BY NextKeeps
<1> QED BY <1>1, AtStart, PTL DEF Spec

-----------------------------------------------------------------------------
(* What it says *)

(* main stays within its steps, and once it runs the flag of poseidon.c    *)
(* says what its tables hold, whatever RAM held before.                    *)
THEOREM TypeCorrect == Spec => []TypeOK
<1>1. IInv => TypeOK
  <2> SUFFICES ASSUME IInv PROVE TypeOK
    OBVIOUS
  <2>1. Typed /\ (pc > 0 => Tables)
    BY DEF IInv, Live
  <2>2. DOMAIN ram.g_cycles = Slots
    BY <2>1 DEF Typed, RamShape
  <2>3. pc > 0 => (ram.initialized = 1 <=> ram.tables = "converted")
    BY <2>1 DEF Tables
  <2> QED BY <2>1, <2>2, <2>3 DEF TypeOK, Typed, Steps
<1> QED BY <1>1, Invariance, PTL

(* Each result left in the watch window is the work of its own phase and   *)
(* of no other: the conversion of poseidon_init is charged to none.        *)
THEOREM PhasesClean == Spec => []PhasesTimeOwnWork
<1>1. IInv => PhasesTimeOwnWork
  <2>1. ASSUME IInv, pc > 0, NEW k \in Slots
        PROVE  ram.g_cycles[k] \in {<<>>, <<Work(k)>>}
    BY <2>1 DEF IInv, Live, Timing
  <2> QED BY <2>1 DEF PhasesTimeOwnWork
<1> QED BY <1>1, Invariance, PTL

(* At g_done = 1, where the debugger stops, every result is there and the  *)
(* verdict is the one the vectors deserve, after any resets.               *)
THEOREM DoneIsFinal == Spec => []DoneMeansFinal
<1>1. IInv => DoneMeansFinal
  <2> SUFFICES ASSUME IInv, pc > 0, ram.g_done = 1
               PROVE  /\ (ram.g_valid = 1) = ProofHolds
                      /\ \A k \in Slots : ram.g_cycles[k] = <<Work(k)>>
                      /\ Clear => /\ (ram.g_hashes_ok = 1) = HashesMatch
                                  /\ ram.g_cycles_total = FlattenSeq(ram.g_cycles)
    BY DEF DoneMeansFinal, Clear
  <2>1. Typed /\ Live /\ pc \in Nat /\ image \in Images
    BY LastStep, Order DEF IInv, Typed
  <2>2. pc > DoneAt
    BY <2>1 DEF Live, Announced
  <2>3. pc > JudgeAt /\ (Clear => pc > 10) /\ \A k \in Slots : pc > ElapsedAt(k)
    BY <2>1, <2>2, Order, Positions
  <2>4. \A k \in Slots : ram.g_cycles[k] = <<Work(k)>>
    BY <2>1, <2>3 DEF Live, Timing
  <2>5. /\ (ram.g_valid = 1) = ProofHolds
        /\ Clear => ram.g_cycles_total = FlattenSeq(ram.g_cycles)
    BY <2>1, <2>3 DEF Live, Judged
  <2>6. Clear => (ram.g_hashes_ok = 1) = HashesMatch
    BY <2>1, <2>3 DEF Live, Hashed
  <2> QED BY <2>4, <2>5, <2>6
<1> QED BY <1>1, Invariance, PTL

(* The safety half of EveryRunReports: a run that ends tells the debugger  *)
(* ApplicationExit exactly when the image verifies.                        *)
THEOREM ReportIsTrue ==
  Spec => [](reason # None => (reason = "ApplicationExit") = Succeeds)
<1>1. IInv => (reason # None => (reason = "ApplicationExit") = Succeeds)
  BY DEF IInv, Exits
<1> QED BY <1>1, Invariance, PTL

-----------------------------------------------------------------------------
(* The cycle counter. *)

(* Cycles since the last time the counter was zero. *)
Frac(c) == IF c = 0 THEN 0 ELSE Period - c

(* The counter and the history agree: now is a whole number of periods and *)
(* what the counter has run since.                                         *)
TimeInv == at # "init" => now = wraps * Period + Frac(cvr)

(* Nothing has been counted before systick_init enables the counter. *)
StartInv ==
  at = "init" => /\ systick_overflow_count = 0 /\ ~ pending
                 /\ wraps = 0 /\ stale = 0 /\ now = 0

(* Until systick_overflow_count is cleared the counter cannot wrap, and an *)
(* exception still pending is one that main's last access overtook.        *)
ResetInv ==
  at = "reset" => /\ now <= Gap
                  /\ wraps = 0
                  /\ pending => late >= 1

(* At most one wrap separates the two reads of systick_elapsed, and none   *)
(* when the first one saw zero.                                            *)
ReadInv ==
  at = "read" =>
    /\ readAt = readWraps * Period + Frac(cvrRead)
    /\ readAt <= now /\ now <= readAt + Gap
    /\ readAt > 0
    /\ wraps \in {readWraps, readWraps + 1}
    /\ cvrRead = 0 => wraps = readWraps
    /\ pending => late >= 1 \/ wraps = readWraps + 1

CleanInv ==
  /\ at \in {"work", "read"} => (clean => stale = 0)
  /\ at = "read" /\ clean => /\ ~ pending
                             /\ wraps = readWraps
                             /\ cvrRead # 0

StaleInv == Slack <= 1 => stale = 0

PhaseInv == /\ phase = Phases + 1 <=> at = "done"
            /\ \A i \in 1 .. phase - 1 : truth[i].cycles > 0

SysTickInv ==
  /\ SysTickTypeOK
  /\ TimeInv
  /\ StartInv
  /\ OverflowsAccounted
  /\ ResetInv
  /\ ReadInv
  /\ CleanInv
  /\ StaleInv
  /\ PhaseInv
  /\ ReadingOffByPeriods
  /\ CleanReadingExact

-----------------------------------------------------------------------------
(* Products with Period: what the proofs need of them. *)
LEMMA PeriodType == Period \in Nat /\ Period >= 2
BY SysTickAssumption DEF Period

LEMMA Distribute ==
  ASSUME NEW a \in Int, NEW b \in Int
  PROVE  /\ (a + b) * Period = a * Period + b * Period
         /\ a * Period \in Int
BY PeriodType

LEMMA NextPeriod ==
  ASSUME NEW a \in Int
  PROVE  /\ (a + 1) * Period = a * Period + Period
         /\ a * Period \in Int
BY PeriodType

LEMMA OnePeriod == 1 * Period = Period /\ 0 * Period = 0
BY PeriodType

LEMMA FracType ==
  ASSUME NEW c \in 0 .. RELOAD
  PROVE  /\ Frac(c) \in 0 .. RELOAD
         /\ c = 0 <=> Frac(c) = 0
BY SysTickAssumption DEF Frac, Period

(* The value systick_elapsed stores, as the elapsed time plus the periods  *)
(* by which it is off.                                                     *)
LEMMA ElapsedValue ==
  ASSUME SysTickTypeOK, ReadInv, at = "read"
  PROVE  LET k == systick_overflow_count - readWraps
                    + (IF cvrRead = 0 THEN 1 ELSE 0)
         IN  Elapsed(systick_overflow_count, cvrRead)
               = (readAt - 1 + k * Period) % ResultMod
<1> DEFINE n == systick_overflow_count
<1>1. n \in Nat /\ readWraps \in Nat /\ cvrRead \in 0 .. RELOAD
  BY DEF SysTickTypeOK
<1>2. readAt = readWraps * Period + Frac(cvrRead)
  BY DEF ReadInv
<1>3. (n - readWraps) * Period = n * Period - readWraps * Period
      /\ n * Period \in Int /\ readWraps * Period \in Int
  <2>1. n = (n - readWraps) + readWraps /\ n - readWraps \in Int
    BY <1>1
  <2> HIDE DEF n
  <2>2. ((n - readWraps) + readWraps) * Period
          = (n - readWraps) * Period + readWraps * Period
    BY <2>1, <1>1, Distribute
  <2> QED  BY <2>1, <2>2, <1>1, Distribute
<1> HIDE DEF n
<1>4. CASE cvrRead = 0
  <2>1. (n - readWraps + 1) * Period = (n - readWraps) * Period + Period
    BY <1>1, Distribute, OnePeriod
  <2>2. n * Period + (RELOAD - cvrRead)
          = readAt - 1 + (n - readWraps + 1) * Period
    BY <2>1, <1>1, <1>2, <1>3, <1>4, SysTickAssumption, PeriodType
       DEF Frac, Period
  <2> QED  BY <2>2, <1>4 DEF Elapsed, n
<1>5. CASE cvrRead # 0
  <2>1. n * Period + (RELOAD - cvrRead)
          = readAt - 1 + (n - readWraps) * Period
    BY <1>1, <1>2, <1>3, <1>5, SysTickAssumption, PeriodType
       DEF Frac, Period
  <2>2. n - readWraps + 0 = n - readWraps
    BY <1>1
  <2> QED  BY <2>1, <2>2, <1>5 DEF Elapsed, n
<1> QED  BY <1>4, <1>5

-----------------------------------------------------------------------------
LEMMA InitSysTickInv == SysTickInit => SysTickInv
<1> SUFFICES ASSUME SysTickInit PROVE SysTickInv
  OBVIOUS
<1>1. SysTickTypeOK
  <2>1. phase \in 1 .. Phases + 1 /\ late \in 0 .. Slack
        /\ cvrRead \in 0 .. RELOAD
    BY SysTickAssumption DEF SysTickInit
  <2>2. [cycles |-> 0, clean |-> FALSE] \in [cycles : Nat, clean : BOOLEAN]
    OBVIOUS
  <2>3. /\ g_cycles \in [1 .. Phases -> Nat]
        /\ truth \in [1 .. Phases -> [cycles : Nat, clean : BOOLEAN]]
    BY <2>2 DEF SysTickInit
  <2> QED  BY <2>1, <2>3 DEF SysTickInit, SysTickTypeOK
<1> QED
  BY <1>1, SysTickAssumption
     DEF SysTickInit, SysTickInv, TimeInv, StartInv, OverflowsAccounted, ResetInv, ReadInv, CleanInv,
         StaleInv, PhaseInv, ReadingOffByPeriods, CleanReadingExact

LEMMA TickSysTickInv == SysTickInv /\ Tick => SysTickInv'
<1> SUFFICES ASSUME SysTickTypeOK, TimeInv, StartInv, OverflowsAccounted, ResetInv,
                    ReadInv, CleanInv, StaleInv, PhaseInv,
                    ReadingOffByPeriods, CleanReadingExact, Tick
             PROVE  SysTickInv'
  BY DEF SysTickInv
<1> USE DEF driver
<1>1. SysTickTypeOK'
  BY SysTickAssumption DEF Tick, SysTickTypeOK
<1>2. TimeInv'
  <2>1. CASE cvr = 0
    BY <2>1, SysTickAssumption, Distribute
       DEF Tick, SysTickTypeOK, TimeInv, Frac, Period
  <2>2. CASE cvr = 1
    <3>0. wraps \in Int
      BY DEF SysTickTypeOK
    <3>1. (wraps + 1) * Period = wraps * Period + Period
          /\ wraps * Period \in Int
      BY <3>0, NextPeriod
    <3> QED
      BY <2>2, <3>1, SysTickAssumption
         DEF Tick, SysTickTypeOK, TimeInv, Frac, Period
  <2>3. CASE cvr > 1
    <3>0. wraps \in Int
      BY DEF SysTickTypeOK
    <3>1. wraps * Period \in Int
      BY <3>0, NextPeriod
    <3>2. cvr \in Nat /\ cvr' = cvr - 1 /\ now' = now + 1 /\ wraps' = wraps
          /\ at' = at
      BY <2>3, SysTickAssumption DEF Tick, SysTickTypeOK
    <3>3. at # "init" => now = wraps * Period + (Period - cvr)
      BY <2>3, <3>2 DEF TimeInv, Frac
    <3>4. Frac(cvr') = Period - cvr + 1
      BY <2>3, <3>2, PeriodType DEF Frac
    <3>5. at # "init" => now' = wraps' * Period + Frac(cvr')
      <4> HIDE DEF Frac
      <4> QED  BY <3>1, <3>2, <3>3, <3>4, PeriodType
    <3> QED
      BY <3>2, <3>5 DEF TimeInv
  <2> QED  BY <2>1, <2>2, <2>3 DEF SysTickTypeOK
<1>3. OverflowsAccounted'
  <2>1. CASE cvr = 1
    <3>1. pending = FALSE /\ pending' = TRUE /\ wraps' = wraps + 1
      BY <2>1 DEF Tick, SysTickTypeOK, TakenInTime
    <3> QED
      BY <3>1, <2>1 DEF Tick, SysTickTypeOK, OverflowsAccounted
  <2>2. CASE cvr # 1
    <3>1. pending' = pending /\ wraps' = wraps
      BY <2>2 DEF Tick, SysTickTypeOK
    <3> QED
      BY <3>1 DEF Tick, OverflowsAccounted
  <2> QED  BY <2>1, <2>2
<1>4. ResetInv'
  <2> SUFFICES ASSUME at = "reset"
               PROVE  now' <= Gap /\ wraps' = 0 /\ (pending' => late' >= 1)
    BY DEF ResetInv, Tick
  <2>1. cvr # 1
    BY SysTickAssumption, OnePeriod
       DEF Tick, TimeAllows, SysTickTypeOK, TimeInv, ResetInv, Frac, Period
  <2> QED  BY <2>1, SysTickAssumption DEF Tick, TimeAllows, SysTickTypeOK, ResetInv
<1>5. ReadInv' /\ CleanInv'
  <2>1. CASE at = "read"
    <3>1. cvr = 1 => wraps = readWraps /\ cvrRead # 0
      <4> SUFFICES ASSUME cvr = 1
                   PROVE  wraps = readWraps /\ cvrRead # 0
        OBVIOUS
      <4>1. now = wraps * Period + (Period - 1)
        BY <2>1 DEF TimeInv, Frac
      <4>2. readAt = readWraps * Period + Frac(cvrRead)
            /\ Frac(cvrRead) \in 0 .. RELOAD
            /\ (cvrRead = 0 <=> Frac(cvrRead) = 0)
        BY <2>1, FracType DEF ReadInv, SysTickTypeOK
      <4>3. now < readAt + Gap
        BY <2>1 DEF Tick, TimeAllows
      <4>. readWraps \in Int
        BY DEF SysTickTypeOK
      <4>4. (readWraps + 1) * Period = readWraps * Period + Period
            /\ readWraps * Period \in Int
        BY NextPeriod
      <4>5. wraps # readWraps + 1
        <5> SUFFICES ASSUME wraps = readWraps + 1 PROVE FALSE
          OBVIOUS
        <5>1. now >= readWraps * Period + Period + (Period - 1)
          BY <4>1, <4>4
        <5> QED
          BY <5>1, <4>2, <4>3, <4>4, SysTickAssumption DEF SysTickTypeOK, Period
      <4>6. wraps = readWraps
        BY <4>5, <2>1 DEF ReadInv
      <4>7. cvrRead # 0
        BY <4>1, <4>2, <4>3, <4>4, <4>6, SysTickAssumption, PeriodType
           DEF SysTickTypeOK, Period
      <4> QED  BY <4>6, <4>7
    <3>2. now' <= readAt' + Gap /\ readAt' <= now'
      BY <2>1, SysTickAssumption DEF Tick, TimeAllows, ReadInv, SysTickTypeOK
    <3> QED
      BY <2>1, <3>1, <3>2 DEF Tick, SysTickTypeOK, ReadInv, CleanInv
  <2>2. CASE at # "read"
    BY <2>2 DEF Tick, ReadInv, CleanInv
  <2> QED  BY <2>1, <2>2
<1>6. /\ StartInv' /\ StaleInv' /\ PhaseInv'
      /\ ReadingOffByPeriods' /\ CleanReadingExact'
  BY DEF Tick, StartInv, StaleInv, PhaseInv, ReadingOffByPeriods, CleanReadingExact
<1> QED  BY <1>1, <1>2, <1>3, <1>4, <1>5, <1>6 DEF SysTickInv

LEMMA HandlerSysTickInv == SysTickInv /\ SysTick_Handler => SysTickInv'
<1> SUFFICES ASSUME SysTickTypeOK, TimeInv, StartInv, OverflowsAccounted, ResetInv,
                    ReadInv, CleanInv, StaleInv, PhaseInv,
                    ReadingOffByPeriods, CleanReadingExact, SysTick_Handler
             PROVE  SysTickInv'
  BY DEF SysTickInv
<1>0. UNCHANGED <<cvr, at, phase, cvrRead, g_cycles, now, wraps, stale,
                  readAt, readWraps, clean, truth>>
  BY DEF SysTick_Handler, driver, history
<1> USE <1>0 DEF SysTick_Handler
<1>1. SysTickTypeOK'
  <2>1. late' \in 0 .. Slack /\ systick_overflow_count' \in Nat
    BY SysTickAssumption DEF SysTickTypeOK
  <2>2. pending' \in BOOLEAN
    OBVIOUS
  <2> QED  BY <2>1, <2>2 DEF SysTickTypeOK
<1>2. /\ TimeInv' /\ StartInv' /\ StaleInv' /\ PhaseInv'
      /\ ReadingOffByPeriods' /\ CleanReadingExact'
  BY DEF TimeInv, StartInv, StaleInv, PhaseInv, ReadingOffByPeriods, CleanReadingExact
<1>3. OverflowsAccounted'
  BY DEF SysTickTypeOK, OverflowsAccounted
<1>4. ResetInv' /\ ReadInv' /\ CleanInv'
  BY DEF SysTickTypeOK, ResetInv, ReadInv, CleanInv
<1> QED  BY <1>1, <1>2, <1>3, <1>4 DEF SysTickInv

LEMMA InitStepSysTickInv == SysTickInv /\ InitSysTick => SysTickInv'
<1> SUFFICES ASSUME SysTickTypeOK, StartInv, StaleInv, PhaseInv, ReadingOffByPeriods,
                    CleanReadingExact, InitSysTick
             PROVE  SysTickInv'
  BY DEF SysTickInv
<1>1. UNCHANGED <<pending, late, systick_overflow_count, phase, cvrRead,
                  g_cycles, now, wraps, stale, readAt, readWraps, clean, truth>>
      /\ cvr' = 0 /\ at = "init" /\ at' = "idle"
  BY DEF InitSysTick, history
<1>2. SysTickTypeOK'
  BY <1>1, SysTickAssumption DEF SysTickTypeOK
<1>3. TimeInv' /\ OverflowsAccounted' /\ ResetInv' /\ ReadInv'
  BY <1>1, OnePeriod
     DEF TimeInv, OverflowsAccounted, ResetInv, ReadInv, Frac, StartInv
<1>4. StartInv' /\ CleanInv' /\ StaleInv' /\ PhaseInv' /\ ReadingOffByPeriods'
      /\ CleanReadingExact'
  BY <1>1 DEF StartInv, CleanInv, StaleInv, PhaseInv, ReadingOffByPeriods,
              CleanReadingExact
<1> QED  BY <1>2, <1>3, <1>4 DEF SysTickInv

LEMMA ResetCvrSysTickInv == SysTickInv /\ ResetCvr => SysTickInv'
<1> SUFFICES ASSUME SysTickTypeOK, OverflowsAccounted, StaleInv, PhaseInv,
                    ReadingOffByPeriods, CleanReadingExact, ResetCvr
             PROVE  SysTickInv'
  BY DEF SysTickInv
<1>1. SysTickTypeOK'
  BY SysTickAssumption DEF ResetCvr, Access, SysTickTypeOK
<1>2. TimeInv'
  BY OnePeriod DEF ResetCvr, TimeInv, Frac
<1>3. OverflowsAccounted' /\ ReadInv' /\ CleanInv'
  BY DEF ResetCvr, OverflowsAccounted, ReadInv, CleanInv
<1>4. ResetInv'
  BY SysTickAssumption DEF ResetCvr, Access, SysTickTypeOK, ResetInv
<1>5. StaleInv' /\ PhaseInv' /\ ReadingOffByPeriods' /\ CleanReadingExact'
      /\ StartInv'
  BY DEF ResetCvr, StartInv, StaleInv, PhaseInv, ReadingOffByPeriods, CleanReadingExact
<1> QED  BY <1>1, <1>2, <1>3, <1>4, <1>5 DEF SysTickInv

LEMMA ResetCountSysTickInv == SysTickInv /\ ResetCount => SysTickInv'
<1> SUFFICES ASSUME SysTickTypeOK, TimeInv, ResetInv, PhaseInv, ReadingOffByPeriods,
                    CleanReadingExact, ResetCount
             PROVE  SysTickInv'
  BY DEF SysTickInv
<1>1. SysTickTypeOK'
  BY SysTickAssumption DEF ResetCount, Access, SysTickTypeOK
<1>2. TimeInv' /\ ResetInv' /\ ReadInv'
  BY DEF ResetCount, TimeInv, ResetInv, ReadInv
<1>3. OverflowsAccounted' /\ CleanInv'
  BY DEF ResetCount, Access, OverflowsAccounted, ResetInv, CleanInv
<1>4. StaleInv'
  BY SysTickAssumption DEF ResetCount, Access, ResetInv, StaleInv, SysTickTypeOK
<1>5. PhaseInv' /\ ReadingOffByPeriods' /\ CleanReadingExact'
      /\ StartInv'
  BY DEF ResetCount, StartInv, PhaseInv, ReadingOffByPeriods, CleanReadingExact
<1> QED  BY <1>1, <1>2, <1>3, <1>4, <1>5 DEF SysTickInv

LEMMA ReadCvrSysTickInv == SysTickInv /\ ReadCvr => SysTickInv'
<1> SUFFICES ASSUME SysTickTypeOK, TimeInv, StartInv, OverflowsAccounted, CleanInv, StaleInv,
                    PhaseInv, ReadingOffByPeriods, CleanReadingExact, ReadCvr
             PROVE  SysTickInv'
  BY DEF SysTickInv
<1>1. SysTickTypeOK'
  BY SysTickAssumption DEF ReadCvr, Access, SysTickTypeOK
<1>2. TimeInv' /\ OverflowsAccounted' /\ ResetInv'
  BY DEF ReadCvr, Access, TimeInv, OverflowsAccounted, ResetInv
<1>3. ReadInv'
  BY SysTickAssumption DEF ReadCvr, Access, SysTickTypeOK, TimeInv, ReadInv
<1>4. CleanInv'
  BY DEF ReadCvr, Access, SysTickTypeOK, CleanInv
<1>5. StaleInv' /\ PhaseInv' /\ ReadingOffByPeriods' /\ CleanReadingExact'
      /\ StartInv'
  BY DEF ReadCvr, StartInv, StaleInv, PhaseInv, ReadingOffByPeriods, CleanReadingExact
<1> QED  BY <1>1, <1>2, <1>3, <1>4, <1>5 DEF SysTickInv

(* systick_elapsed's second read: how far off the stored value can be. *)
LEMMA ReadCountSysTickInv == SysTickInv /\ ReadCount => SysTickInv'
<1> SUFFICES ASSUME SysTickTypeOK, TimeInv, StartInv, OverflowsAccounted, ReadInv, CleanInv,
                    StaleInv, PhaseInv, ReadingOffByPeriods,
                    CleanReadingExact, ReadCount
             PROVE  SysTickInv'
  BY DEF SysTickInv
<1> DEFINE v == Elapsed(systick_overflow_count, cvrRead)
           k == systick_overflow_count - readWraps
                  + (IF cvrRead = 0 THEN 1 ELSE 0)
           t == [cycles |-> readAt, clean |-> clean]
<1>1. v = (readAt - 1 + k * Period) % ResultMod
  BY ElapsedValue DEF ReadCount
<1>2. v \in Nat
  BY SysTickAssumption, PeriodType DEF Elapsed, SysTickTypeOK
<1>3. phase \in 1 .. Phases /\ at = "read"
  BY SysTickAssumption DEF ReadCount, SysTickTypeOK, PhaseInv
<1>4. /\ g_cycles' = [g_cycles EXCEPT ![phase] = v]
      /\ truth' = [truth EXCEPT ![phase] = t]
      /\ phase' = phase + 1
      /\ at' = IF phase = Phases THEN "done" ELSE "idle"
      /\ UNCHANGED <<pending, cvr, systick_overflow_count, cvrRead, now, wraps,
                     stale, readAt, readWraps, clean>>
  BY DEF ReadCount, Access
<1> HIDE DEF v
<1>5. SysTickTypeOK'
  <2>1. late' \in 0 .. Slack
    BY SysTickAssumption DEF ReadCount, Access, SysTickTypeOK
  <2>2. t \in [cycles : Nat, clean : BOOLEAN]
    BY DEF SysTickTypeOK
  <2>3. /\ g_cycles' \in [1 .. Phases -> Nat]
        /\ truth' \in [1 .. Phases -> [cycles : Nat, clean : BOOLEAN]]
    BY <1>2, <1>4, <2>2 DEF SysTickTypeOK
  <2>4. phase' \in 1 .. Phases + 1
    BY <1>3, <1>4, SysTickAssumption
  <2> QED  BY <1>4, <2>1, <2>3, <2>4 DEF SysTickTypeOK
<1>6. TimeInv' /\ StartInv' /\ ResetInv' /\ ReadInv' /\ StaleInv' /\ CleanInv'
  BY <1>3, <1>4 DEF StartInv, TimeInv, ResetInv, ReadInv, StaleInv, CleanInv
<1>7. OverflowsAccounted'
  BY <1>3, <1>4 DEF OverflowsAccounted
<1>8. \A i \in 1 .. phase' - 1 :
        \/ i = phase
        \/ /\ i \in 1 .. phase - 1
           /\ g_cycles'[i] = g_cycles[i] /\ truth'[i] = truth[i]
  BY <1>3, <1>4 DEF SysTickTypeOK
<1>9. g_cycles'[phase] = v /\ truth'[phase].cycles = readAt
      /\ truth'[phase].clean = clean
  BY <1>3, <1>4 DEF SysTickTypeOK
<1>10. PhaseInv'
  <2>1. \A i \in 1 .. phase' - 1 : truth'[i].cycles > 0
    BY <1>3, <1>8, <1>9 DEF PhaseInv, ReadInv
  <2>2. phase' = Phases + 1 <=> at' = "done"
    BY <1>3, <1>4, SysTickAssumption
  <2> QED  BY <2>1, <2>2 DEF PhaseInv
<1>11. k \in OffBy
  <2>1. systick_overflow_count + (IF pending THEN 1 ELSE 0) = wraps + stale
    BY <1>3 DEF OverflowsAccounted
  <2>2. wraps \in {readWraps, readWraps + 1}
        /\ (cvrRead = 0 => wraps = readWraps)
        /\ (pending => late >= 1 \/ wraps = readWraps + 1)
    BY <1>3 DEF ReadInv
  <2>3. stale \in {0, 1} /\ (Slack <= 1 => stale = 0)
    BY DEF SysTickTypeOK, StaleInv
  <2>4. pending => late < Slack
    BY DEF ReadCount, Access
  <2>5. systick_overflow_count \in Nat /\ wraps \in Nat /\ readWraps \in Nat
        /\ late \in Nat /\ Slack \in Nat
    BY SysTickAssumption DEF SysTickTypeOK
  <2>6. CASE pending
    BY <2>1, <2>2, <2>3, <2>4, <2>5, <2>6 DEF OffBy
  <2>7. CASE ~ pending
    BY <2>1, <2>2, <2>3, <2>4, <2>5, <2>7 DEF OffBy
  <2> QED  BY <2>6, <2>7
<1>12. clean => k = 0
  <2> SUFFICES ASSUME clean PROVE k = 0
    OBVIOUS
  <2>1. ~ pending /\ wraps = readWraps /\ cvrRead # 0 /\ stale = 0
    BY <1>3 DEF CleanInv
  <2> QED
    BY <1>3, <2>1 DEF OverflowsAccounted, SysTickTypeOK
<1> HIDE DEF k
<1>13. ReadingOffByPeriods'
  BY <1>1, <1>8, <1>9, <1>11 DEF ReadingOffByPeriods, OffBy
<1>14. CleanReadingExact'
  <2>1. clean => v = (readAt - 1) % ResultMod
    <3> SUFFICES ASSUME clean PROVE v = (readAt - 1) % ResultMod
      OBVIOUS
    <3>1. k * Period = 0
      BY <1>12, OnePeriod
    <3>2. readAt - 1 + k * Period = readAt - 1
      BY <3>1 DEF SysTickTypeOK
    <3> QED  BY <1>1, <3>2
  <2> QED
    BY <1>8, <1>9, <2>1 DEF CleanReadingExact
<1> QED  BY <1>5, <1>6, <1>7, <1>10, <1>13, <1>14 DEF SysTickInv

LEMMA Stuttering == SysTickInv /\ UNCHANGED systick_vars => SysTickInv'
<1> SUFFICES ASSUME SysTickInv, UNCHANGED systick_vars PROVE SysTickInv'
  OBVIOUS
<1>1. UNCHANGED <<cvr, pending, late, systick_overflow_count, at, phase,
                  cvrRead, g_cycles, now, wraps, stale, readAt, readWraps,
                  clean, truth>>
  BY DEF systick_vars, driver, history
<1> QED
  BY <1>1 DEF SysTickInv, SysTickTypeOK, TimeInv, StartInv, OverflowsAccounted, ResetInv, ReadInv,
     CleanInv, StaleInv, PhaseInv, ReadingOffByPeriods, CleanReadingExact

-----------------------------------------------------------------------------
(* The invariant holds in every reachable state of the timer, its handler  *)
(* and main.                                                               *)
THEOREM SysTickInvariance == SysTickSpec => []SysTickInv
<1>1. SysTickInit => SysTickInv
  BY InitSysTickInv
<1>2. SysTickInv /\ [SysTickNext]_systick_vars => SysTickInv'
  BY TickSysTickInv, HandlerSysTickInv, InitStepSysTickInv, ResetCvrSysTickInv, ResetCountSysTickInv,
     ReadCvrSysTickInv, ReadCountSysTickInv, Stuttering DEF SysTickNext, Main
<1> QED  BY <1>1, <1>2, PTL DEF SysTickSpec

(* Reload value, counter and results keep their ranges, and main never     *)
(* stores a result outside g_cycles, for every number of phases.           *)
THEOREM SysTickTypeCorrect == SysTickSpec => []SysTickTypeOK
BY SysTickInvariance, PTL DEF SysTickInv

(* The handler and the hardware keep systick_overflow_count exact: from    *)
(* one systick_reset to the next no wrap is lost or counted twice, an      *)
(* exception that outlived the reset being the one exception.              *)
THEOREM OverflowAccounting == SysTickSpec => []OverflowsAccounted
BY SysTickInvariance, PTL DEF SysTickInv

(* systick_elapsed is off by whole periods only, never early when at most  *)
(* one access can complete under a pending exception.                      *)
THEOREM ReadingError == SysTickSpec => []ReadingOffByPeriods
BY SysTickInvariance, PTL DEF SysTickInv

(* A measurement no exception or wrap disturbed is exact. *)
THEOREM CleanReading == SysTickSpec => []CleanReadingExact
BY SysTickInvariance, PTL DEF SysTickInv

(* A stored result is final: main only writes the entry of its own phase.  *)
THEOREM Stability == SysTickSpec => ResultsStable
<1>1. SysTickInv /\ [SysTickNext]_systick_vars
        => [\A i \in 1 .. phase - 1 : g_cycles'[i] = g_cycles[i]]_systick_vars
  <2> SUFFICES ASSUME SysTickInv, SysTickNext, NEW i \in 1 .. phase - 1
               PROVE  g_cycles'[i] = g_cycles[i]
    OBVIOUS
  <2>1. CASE ReadCount
    BY <2>1 DEF SysTickInv, SysTickTypeOK, ReadCount
  <2>2. CASE Tick \/ SysTick_Handler \/ InitSysTick \/ ResetCvr \/ ResetCount
             \/ ReadCvr
    BY <2>2 DEF Tick, SysTick_Handler, InitSysTick, ResetCvr, ResetCount,
                ReadCvr, driver
  <2> QED  BY <2>1, <2>2 DEF SysTickNext, Main
<1> QED  BY <1>1, SysTickInvariance, PTL DEF SysTickSpec, ResultsStable
=============================================================================
