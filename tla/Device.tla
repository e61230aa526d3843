------------------------------- MODULE Device -------------------------------
(***************************************************************************)
(* The programs of device_verifier_bn254/uvision from reset to exit:       *)
(* _start (startup.c) zeroes .bss and calls main of clear_signing_m4.c,    *)
(* main_m4.c or single_pairing_m4.c, which runs the phases of a            *)
(* verification between readings of the cycle counter, leaves its results  *)
(* in globals for the watch window and returns the exit code.  A reset may *)
(* come at any point; RAM keeps its contents over it.                      *)
(*                                                                         *)
(* A reading of the counter is the work done since systick_reset; SysTick  *)
(* says how it relates to cycles.  Groups are those of Groth16.            *)
(***************************************************************************)
EXTENDS Groth16, SequencesExt, FiniteSets

CONSTANTS
  Images,          (* bound: the programs, with the vectors compiled in    *)
  PAIRING_ITERS,
  MaxResets,       (* bound                                                *)
  None

Programs == {"clear_signing_m4", "multi_pairing_m4", "single_pairing_m4"}

(* The public inputs of a program's statement. *)
Inputs(program) == IF program = "clear_signing_m4" THEN 2 ELSE 1

(* Q is prime. *)
ASSUME GroupAssumption ==
  /\ Q \in Nat \ {0, 1} /\ OFF \notin Int
  /\ \A a, b \in Group \ {0} : (a * b) % Q # 0

ASSUME ImagesAssumption ==
  /\ PAIRING_ITERS \in Nat /\ MaxResets \in Nat
  /\ \A x \in Images :
       /\ x.program \in Programs
       /\ x.proof \in [1 .. 3 -> Encoded]
       /\ {x.setup.alpha, x.setup.beta, x.setup.gamma, x.setup.delta} \subseteq Group
       /\ x.setup.ic \in [1 .. Inputs(x.program) + 1 -> Group]
       /\ x.h \in [1 .. Inputs(x.program) -> Nat]
       /\ x.expected \in [1 .. Inputs(x.program) -> Nat]

Timed(work) == <<"systick_reset", work, "systick_elapsed">>

Iterations == [k \in 1 .. 3 * PAIRING_ITERS |-> Timed("pairing")[((k - 1) % 3) + 1]]

(* Mutants: no warm-up hash; done announced before the verdict. *)
ColdSteps ==
  <<"pairing_init", "systick_init">>
    \o Timed("hash_c") \o Timed("hash_t") \o <<"compare_hashes", "decode">>
    \o Timed("prepare") \o Timed("pairing") \o <<"verdict", "done", "return">>

EarlySteps ==
  <<"pairing_init", "warm_up", "systick_init">>
    \o Timed("hash_c") \o Timed("hash_t") \o <<"compare_hashes", "decode">>
    \o Timed("prepare") \o Timed("pairing") \o <<"done", "verdict", "return">>

ClearSigningSteps ==
  <<"pairing_init", "warm_up", "systick_init">>
    \o Timed("hash_c") \o Timed("hash_t") \o <<"compare_hashes", "decode">>
    \o Timed("prepare") \o Timed("pairing") \o <<"verdict", "done", "return">>

MultiPairingSteps ==
  <<"pairing_init", "decode", "prepare", "pairing", "verdict", "systick_init">>
    \o Iterations \o <<"done", "return">>

SinglePairingSteps ==
  <<"pairing_init", "decode", "double", "bilinear", "systick_init">>
    \o Iterations \o <<"done", "return">>

main(program) ==
  CASE program = "clear_signing_m4"  -> ClearSigningSteps
    [] program = "multi_pairing_m4"  -> MultiPairingSteps
    [] program = "single_pairing_m4" -> SinglePairingSteps

VARIABLES
  image,                       (* what is in flash                         *)
  ram,                         (* .bss: poseidon.c's tables and flag, and  *)
                               (* the globals of the watch window          *)
  pc,                          (* the step of main; 0 in _start            *)
  pi, points, L, result,       (* locals of main                           *)
  counting, spent,             (* SysTick runs; work since its last reset  *)
  rc, reason,                  (* main's result; the argument of SYS_EXIT  *)
  resets

locals == <<pi, points, L, result>>
vars == <<image, ram, pc, locals, counting, spent, rc, reason, resets>>

Slots == IF image.program = "clear_signing_m4" THEN 1 .. 4 ELSE 1 .. PAIRING_ITERS

Zeroed == [initialized |-> 0, tables |-> "zero", g_hashes_ok |-> 0, g_valid |-> 0,
           g_cycles |-> [k \in Slots |-> <<>>], g_cycles_total |-> <<>>, g_done |-> 0]

(* SRAM at power-on. *)
Unknown == [initialized |-> 1, tables |-> "unknown", g_hashes_ok |-> 1, g_valid |-> 1,
            g_cycles |-> [k \in Slots |-> <<"unknown">>], g_cycles_total |-> <<"unknown">>,
            g_done |-> 1]

Restarted ==
  /\ pc' = 0 /\ pi' = <<None, None>> /\ points' = None /\ L' = None /\ result' = None
  /\ counting' = FALSE /\ spent' = <<>> /\ rc' = None /\ reason' = None

Init ==
  /\ image \in Images
  /\ ram \in {Zeroed, Unknown}
  /\ pc = 0 /\ pi = <<None, None>> /\ points = None /\ L = None /\ result = None
  /\ counting = FALSE /\ spent = <<>> /\ rc = None /\ reason = None
  /\ resets = 0

-----------------------------------------------------------------------------
(* Mutant: .bss taken to begin after poseidon.c's flag. *)
ShortBss == [Zeroed EXCEPT !.initialized = ram.initialized]

ClearedBss == Zeroed

_start ==
  /\ pc = 0
  /\ ram' = ClearedBss
  /\ pc' = 1
  /\ UNCHANGED <<image, locals, counting, spent, rc, reason, resets>>

(* main is at op; the core has not left it. *)
At(op) == pc > 0 /\ rc = None /\ main(image.program)[pc] = op

(* The work of a step passes while the counter runs. *)
Spend(work) == spent' = IF counting THEN spent \o work ELSE spent

Proceed == pc' = pc + 1 /\ UNCHANGED <<image, reason, resets>>

Return(code) == rc' = code /\ UNCHANGED <<image, pc, reason, resets>>

pairing_init ==
  /\ At("pairing_init")
  /\ IF image.init_ok THEN Proceed /\ UNCHANGED rc ELSE Return(1)
  /\ UNCHANGED <<ram, locals, counting, spent>>

systick_init ==
  /\ At("systick_init")
  /\ counting' = TRUE /\ spent' = <<>>
  /\ Proceed /\ UNCHANGED <<ram, locals, rc>>

systick_reset ==
  /\ At("systick_reset")
  /\ spent' = <<>>
  /\ Proceed /\ UNCHANGED <<ram, locals, counting, rc>>

(* The number of systick_elapsed up to here: one global, or one element    *)
(* of g_ticks, for each.                                                   *)
Slot == Cardinality({k \in 1 .. pc : main(image.program)[k] = "systick_elapsed"})

systick_elapsed ==
  /\ At("systick_elapsed")
  /\ ram' = [ram EXCEPT !.g_cycles[Slot] = spent]
  /\ Spend(<<"printf">>)
  /\ Proceed /\ UNCHANGED <<locals, counting, rc>>

-----------------------------------------------------------------------------
(* poseidon_hash_bytes converts the tables on its first call. *)
Converted == [ram EXCEPT !.initialized = 1,
                         !.tables = IF ram.initialized = 0 THEN "converted" ELSE @]

HashWork(message) ==
  IF ram.initialized = 0 THEN <<"poseidon_init", message>> ELSE <<message>>

(* With other tables it is another function. *)
Hash(k) == IF Converted.tables = "converted" THEN image.h[k] ELSE (image.h[k] + 1) % Q

warm_up ==
  /\ At("warm_up")
  /\ ram' = Converted /\ Spend(HashWork("hash_c"))
  /\ Proceed /\ UNCHANGED <<locals, counting, rc>>

HashPhase(op, k) ==
  /\ At(op)
  /\ ram' = Converted /\ Spend(HashWork(op))
  /\ pi' = [pi EXCEPT ![k] = Hash(k)]
  /\ Proceed /\ UNCHANGED <<points, L, result, counting, rc>>

HashCalldata == HashPhase("hash_c", 1)
HashText     == HashPhase("hash_t", 2)

CompareHashes ==
  /\ At("compare_hashes")
  /\ ram' = [ram EXCEPT !.g_hashes_ok = IF pi = image.expected THEN 1 ELSE 0]
  /\ Spend(<<"memcmp">>)
  /\ Proceed /\ UNCHANGED <<locals, counting, rc>>

Key == RawKey(image.setup)

Encodings ==
  IF image.program = "single_pairing_m4" THEN <<image.proof[1], image.proof[2]>>
                                         ELSE image.proof \o <<Key.neg_gamma, Key.neg_delta>> \o Key.ic

(* On failure main returns as it is: no g_done, no pairing_cleanup. *)
Decode ==
  /\ At("decode")
  /\ points' = Encodings
  /\ IF \E k \in DOMAIN Encodings : Encodings[k] = OFF
       THEN Return(1)
       ELSE Proceed /\ UNCHANGED rc
  /\ Spend(<<"decode">>)
  /\ UNCHANGED <<ram, pi, L, result, counting>>

(* IC[0] + h_c IC[1] + h_t IC[2], or IC[0] + TEST_PUBLIC_INPUT IC[1]. *)
Prepare ==
  /\ At("prepare")
  /\ L' = (IF image.program = "clear_signing_m4"
             THEN points[6] + pi[1] * points[7] + pi[2] * points[8]
             ELSE points[6] + image.h[1] * points[7]) % Q
  /\ Spend(<<"prepare">>)
  /\ Proceed /\ UNCHANGED <<ram, pi, points, result, counting, rc>>

MultiPairing == (points[1] * points[2] + L * points[4] + points[3] * points[5]) % Q

Pairing ==
  /\ At("pairing")
  /\ result' = IF image.program = "single_pairing_m4" THEN (points[1] * points[2]) % Q
                                                      ELSE MultiPairing
  /\ Spend(<<"pairing">>)
  /\ Proceed /\ UNCHANGED <<ram, pi, points, L, counting, rc>>

(* g_cycles_total is the sum of the phases; main_m4.c has none. *)
CompareProduct ==
  /\ At("verdict")
  /\ ram' = [ram EXCEPT !.g_valid = IF result = Key.alpha_beta THEN 1 ELSE 0,
                        !.g_cycles_total = IF image.program = "clear_signing_m4"
                                             THEN FlattenSeq(ram.g_cycles) ELSE @]
  /\ Spend(<<"verdict">>)
  /\ Proceed /\ UNCHANGED <<locals, counting, rc>>

(* single_pairing_m4.c: A2 = 2 A. *)
Double ==
  /\ At("double")
  /\ L' = (2 * points[1]) % Q
  /\ Proceed /\ UNCHANGED <<ram, pi, points, result, counting, spent, rc>>

(* e(2 A, B) = e(A, B)^2, and e(A, B) is not one. *)
Bilinear ==
  /\ At("bilinear")
  /\ result' = (points[1] * points[2]) % Q
  /\ ram' = [ram EXCEPT !.g_valid =
               IF (L * points[2]) % Q = (result' + result') % Q /\ result' # 0 THEN 1 ELSE 0]
  /\ Proceed /\ UNCHANGED <<pi, points, L, counting, spent, rc>>

Done ==
  /\ At("done")
  /\ ram' = [ram EXCEPT !.g_done = 1]
  /\ Proceed /\ UNCHANGED <<locals, counting, spent, rc>>

(* pairing_cleanup has no effect that outlasts the program. *)
Finish ==
  /\ At("return")
  /\ Return(IF ram.g_valid = 1 /\ (image.program = "clear_signing_m4" => ram.g_hashes_ok = 1)
              THEN 0 ELSE 1)
  /\ UNCHANGED <<ram, locals, counting, spent>>

-----------------------------------------------------------------------------
(* Mutant: a pointer to a parameter block, which 32-bit SYS_EXIT takes for *)
(* the reason code.                                                        *)
ParameterBlock(code) == "a pointer"

Reason(code) == IF code = 0 THEN "ApplicationExit" ELSE "InternalError"

SysExit ==
  /\ rc # None /\ reason = None
  /\ reason' = Reason(rc)
  /\ UNCHANGED <<image, ram, pc, locals, counting, spent, rc, resets>>

(* The reset button, or the debugger's: at any point, also after the end. *)
Reset ==
  /\ resets < MaxResets
  /\ resets' = resets + 1
  /\ Restarted
  /\ UNCHANGED <<image, ram>>

Core == \/ _start \/ pairing_init \/ systick_init \/ systick_reset \/ systick_elapsed
        \/ warm_up \/ HashCalldata \/ HashText \/ CompareHashes \/ Decode \/ Prepare
        \/ Pairing \/ CompareProduct \/ Double \/ Bilinear \/ Done \/ Finish \/ SysExit

Next == Core \/ Reset

(* The core runs; nobody need press reset. *)
Spec == Init /\ [][Next]_vars /\ WF_vars(Core)

-----------------------------------------------------------------------------
(* Properties *)

Work(k) == IF image.program = "clear_signing_m4"
             THEN <<"hash_c", "hash_t", "prepare", "pairing">>[k] ELSE "pairing"

(* What the vectors in flash deserve. *)
HashesMatch == image.h = image.expected
ProofHolds ==
  IF image.program = "single_pairing_m4" THEN OFF \notin {image.proof[1], image.proof[2]}
  ELSE Verdict(image.setup, image.proof, TRUE, image.h) = 1
Succeeds ==
  image.init_ok /\ ProofHolds /\ (image.program = "clear_signing_m4" => HashesMatch)

(* TypeOK: and whatever RAM held before, once main runs the flag of        *)
(* poseidon.c says that its tables are converted.                          *)
TypeOK ==
  /\ pc \in 0 .. Len(main(image.program)) /\ resets \in 0 .. MaxResets
  /\ rc \in {None, 0, 1} /\ reason \in {None, "ApplicationExit", "InternalError"}
  /\ DOMAIN ram.g_cycles = Slots /\ counting \in BOOLEAN
  /\ pc > 0 => (ram.initialized = 1 <=> ram.tables = "converted")

(* clear_signing_m4.c: "a single untimed warm-up hash runs first so        *)
(* poseidon_init's ARK/MDS conversion is not charged to phase 1".  Each    *)
(* result that is there is the work of its own phase and no other's, in    *)
(* every run since power-on.                                               *)
PhasesTimeOwnWork ==
  pc > 0 => \A k \in Slots : ram.g_cycles[k] \in {<<>>, <<Work(k)>>}

(* uvision/README.md: read the results with a breakpoint on g_done = 1.    *)
(* Once _start has run, g_done says that this run's results are all there  *)
(* and final, in whatever step a reset, if any, struck the run before.     *)
DoneMeansFinal ==
  pc > 0 /\ ram.g_done = 1 =>
    /\ (ram.g_valid = 1) = ProofHolds
    /\ \A k \in Slots : ram.g_cycles[k] = <<Work(k)>>
    /\ image.program = "clear_signing_m4" =>
         /\ (ram.g_hashes_ok = 1) = HashesMatch
         /\ ram.g_cycles_total = FlattenSeq(ram.g_cycles)

(* startup.c: "the process exit code reflects main()'s success": every run *)
(* comes to its end, and ends with ApplicationExit exactly when the image  *)
(* verifies.                                                               *)
EveryRunReports ==
  <>[](reason = IF Succeeds THEN "ApplicationExit" ELSE "InternalError")
=============================================================================
