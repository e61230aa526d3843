------------------------------- MODULE SysTick -------------------------------
(***************************************************************************)
(* Cycle counting on the Cortex-M4 (device_verifier_bn254/uvision).        *)
(*                                                                         *)
(* Three agents share the counter: the SysTick hardware, which counts the  *)
(* 24-bit register CVR down and pends an exception when it reaches zero;   *)
(* SysTick_Handler, which increments systick_overflow_count; and main,     *)
(* which brackets each timed phase with systick_reset and systick_elapsed. *)
(* Each of main's volatile accesses is a step of its own, so the hardware  *)
(* and the handler interleave with every pair of them.                     *)
(*                                                                         *)
(* systick_overflow_count is a uint32_t: it would wrap after 2^56 core     *)
(* cycles, so it is a natural number here.  The width of the value         *)
(* systick_elapsed returns does matter and is the constant ResultMod:      *)
(* 2^64 in clear_signing_m4.c, 2^32 in main_m4.c and single_pairing_m4.c.  *)
(***************************************************************************)
EXTENDS Integers

CONSTANTS
  RELOAD,     (* SYSTICK_RELOAD, 2^24 - 1 in the code                       *)
  Phases,     (* timed phases of one run: 4, or PAIRING_ITERS               *)
  ResultMod,  (* 2 to the width of the type systick_elapsed returns         *)
  Slack,      (* accesses of main that may still complete once an exception *)
              (* is pending and before the core takes it                    *)
  Gap,        (* cycles that may pass between two adjacent accesses         *)
  Horizon,    (* bound: the longest timed region, in cycles                 *)
  Between     (* bound: cycles main spends between two timed regions        *)

ASSUME SysTickAssumption ==
  /\ RELOAD \in Nat \ {0}
  /\ Phases \in Nat \ {0}
  /\ ResultMod \in Nat \ {0}
  /\ Slack \in Nat
  /\ Gap \in Nat /\ Gap < RELOAD
  /\ Horizon \in Nat \ {0}
  /\ Between \in Nat

VARIABLES
  cvr,                    (* SYST_CVR                                       *)
  pending,                (* the SysTick exception is pending               *)
  late,                   (* accesses main completed while it was pending   *)
  systick_overflow_count,
  at, phase,              (* where main is, and in which timed phase        *)
  cvrRead,                (* systick_elapsed's local cvr                    *)
  g_cycles,               (* g_cycles_hc, ... or g_ticks[]: zero in .bss    *)
  (* History, read by no guard but the bounds: *)
  now,                    (* cycles since CVR was last written              *)
  wraps,                  (* times the counter reached zero since then      *)
  stale,                  (* 1 if an older exception outlived systick_reset *)
  readAt, readWraps,      (* now and wraps, when main read CVR              *)
  clean,                  (* nothing has disturbed this measurement         *)
  truth                   (* per phase: the cycles that really passed,      *)
                          (* and whether the measurement was clean          *)

driver  == <<at, phase, cvrRead, g_cycles>>
history == <<now, wraps, stale, readAt, readWraps, clean, truth>>
systick_vars == <<cvr, pending, late, systick_overflow_count, driver, history>>

Period == RELOAD + 1

SysTickTypeOK ==
  /\ cvr \in 0 .. RELOAD
  /\ pending \in BOOLEAN
  /\ late \in 0 .. Slack
  /\ systick_overflow_count \in Nat
  /\ at \in {"init", "idle", "reset", "work", "read", "done"}
  /\ phase \in 1 .. Phases + 1
  /\ cvrRead \in 0 .. RELOAD
  /\ g_cycles \in [1 .. Phases -> Nat]
  /\ now \in Nat
  /\ wraps \in Nat
  /\ stale \in {0, 1}
  /\ readAt \in Nat
  /\ readWraps \in Nat
  /\ clean \in BOOLEAN
  /\ truth \in [1 .. Phases -> [cycles : Nat, clean : BOOLEAN]]

SysTickInit ==
  /\ cvr \in 0 .. RELOAD      \* the register is unknown after a core reset
  /\ pending = FALSE
  /\ late = 0
  /\ systick_overflow_count = 0
  /\ at = "init"
  /\ phase = 1
  /\ cvrRead = 0
  /\ g_cycles = [i \in 1 .. Phases |-> 0]
  /\ now = 0
  /\ wraps = 0
  /\ stale = 0
  /\ readAt = 0
  /\ readWraps = 0
  /\ clean = FALSE
  /\ truth = [i \in 1 .. Phases |-> [cycles |-> 0, clean |-> FALSE]]

-----------------------------------------------------------------------------
(* The hardware. *)

(* The bounds on time.  The two accesses of systick_reset and those of     *)
(* systick_elapsed follow each other within Gap cycles; a timed region     *)
(* takes at most Horizon cycles, and the code between two regions          *)
(* (conversions, printf, point decoding) at most Between.                  *)
TimeAllows ==
  /\ at = "idle"  => now < readAt + Gap + Between
  /\ at = "reset" => now < Gap
  /\ at = "work"  => now < Horizon
  /\ at = "read"  => now < readAt + Gap

(* Interrupts are never masked, so an exception does not stay pending for  *)
(* a whole period.                                                         *)
TakenInTime == ~ (pending /\ cvr = 1)

(* One core cycle: reload after zero, else decrement; reaching zero pends. *)
Tick ==
  /\ at \notin {"init", "done"}
  /\ TimeAllows
  /\ TakenInTime
  /\ cvr' = IF cvr = 0 THEN RELOAD ELSE cvr - 1
  /\ pending' = (pending \/ cvr = 1)
  /\ now' = now + 1
  /\ wraps' = IF cvr = 1 THEN wraps + 1 ELSE wraps
  /\ clean' = (clean /\ ~ (at = "read" /\ cvr = 1))
  /\ UNCHANGED <<late, systick_overflow_count, driver, stale, readAt, readWraps,
                 truth>>

SysTick_Handler ==
  /\ pending
  /\ pending' = FALSE
  /\ late' = 0
  /\ systick_overflow_count' = systick_overflow_count + 1
  /\ UNCHANGED <<cvr, driver, history>>

-----------------------------------------------------------------------------
(* main.  Every step needs the core, which a pending exception takes away. *)

Access ==
  /\ pending => late < Slack
  /\ late' = IF pending THEN late + 1 ELSE 0
  /\ UNCHANGED pending

InitSysTick ==
  /\ at = "init"
  /\ cvr' = 0
  /\ at' = "idle"
  /\ UNCHANGED <<pending, late, systick_overflow_count, phase, cvrRead,
                 g_cycles, history>>

(* SYST_CVR = 0: clears the register, not a pending exception. *)
ResetCvr ==
  /\ at = "idle"
  /\ Access
  /\ cvr' = 0
  /\ now' = 0
  /\ wraps' = 0
  /\ at' = "reset"
  /\ UNCHANGED <<systick_overflow_count, phase, cvrRead, g_cycles, stale,
                 readAt, readWraps, clean, truth>>

(* Mutant: systick_reset that only writes CVR. *)
KeepCount ==
  /\ at = "reset"
  /\ Access
  /\ UNCHANGED systick_overflow_count
  /\ stale' = IF pending THEN 1 ELSE 0
  /\ clean' = ~ pending
  /\ at' = "work"
  /\ UNCHANGED <<cvr, phase, cvrRead, g_cycles, now, wraps, readAt,
                 readWraps, truth>>

ResetCount ==
  /\ at = "reset"
  /\ Access
  /\ systick_overflow_count' = 0
  /\ stale' = IF pending THEN 1 ELSE 0
  /\ clean' = ~ pending
  /\ at' = "work"
  /\ UNCHANGED <<cvr, phase, cvrRead, g_cycles, now, wraps, readAt,
                 readWraps, truth>>

(* The end of the timed region, which is never empty: cvr = SYST_CVR. *)
ReadCvr ==
  /\ at = "work"
  /\ now > 0
  /\ Access
  /\ cvrRead' = cvr
  /\ readAt' = now
  /\ readWraps' = wraps
  /\ clean' = (clean /\ ~ pending /\ cvr # 0)
  /\ at' = "read"
  /\ UNCHANGED <<cvr, systick_overflow_count, phase, g_cycles, now, wraps,
                 stale, truth>>

(* Mutants: the period taken for RELOAD, and a count from the period. *)
ShortPeriod(overflows, c)   == (overflows * RELOAD + (RELOAD - c)) % ResultMod
CountFromPeriod(overflows, c) == (overflows * Period + (Period - c)) % ResultMod

Elapsed(overflows, c) == (overflows * Period + (RELOAD - c)) % ResultMod

(* Mutants: one phase too many; the phase never advanced. *)
OneTooMany ==
  /\ at = "read"
  /\ Access
  /\ g_cycles' = [g_cycles EXCEPT ![phase] =
                    Elapsed(systick_overflow_count, cvrRead)]
  /\ truth' = [truth EXCEPT ![phase] = [cycles |-> readAt, clean |-> clean]]
  /\ phase' = phase + 1
  /\ at' = IF phase > Phases THEN "done" ELSE "idle"
  /\ UNCHANGED <<cvr, systick_overflow_count, cvrRead, now, wraps, stale,
                 readAt, readWraps, clean>>

SamePhase ==
  /\ at = "read"
  /\ Access
  /\ g_cycles' = [g_cycles EXCEPT ![phase] =
                    Elapsed(systick_overflow_count, cvrRead)]
  /\ truth' = [truth EXCEPT ![phase] = [cycles |-> readAt, clean |-> clean]]
  /\ phase' = phase
  /\ at' = "idle"
  /\ UNCHANGED <<cvr, systick_overflow_count, cvrRead, now, wraps, stale,
                 readAt, readWraps, clean>>

ReadCount ==
  /\ at = "read"
  /\ Access
  /\ g_cycles' = [g_cycles EXCEPT ![phase] =
                    Elapsed(systick_overflow_count, cvrRead)]
  /\ truth' = [truth EXCEPT ![phase] = [cycles |-> readAt, clean |-> clean]]
  /\ phase' = phase + 1
  /\ at' = IF phase = Phases THEN "done" ELSE "idle"
  /\ UNCHANGED <<cvr, systick_overflow_count, cvrRead, now, wraps, stale,
                 readAt, readWraps, clean>>

Main == InitSysTick \/ ResetCvr \/ ResetCount \/ ReadCvr \/ ReadCount

SysTickNext == Tick \/ SysTick_Handler \/ Main

SysTickSpec == SysTickInit /\ [][SysTickNext]_systick_vars

(* The core clock runs, a pending exception is taken, and main, which has  *)
(* no loop that waits for an event, keeps executing.                       *)
SysTickFairSpec ==
  /\ SysTickSpec
  /\ WF_systick_vars(Tick)
  /\ WF_systick_vars(SysTick_Handler)
  /\ WF_systick_vars(Main)

-----------------------------------------------------------------------------
(* No overflow is lost and none is counted twice: from one systick_reset   *)
(* to the next, the handler's count and the exception still pending add up *)
(* to the wraps since CVR was written, and an exception older than the     *)
(* reset (systick_reset does not clear it).                                *)
OverflowsAccounted ==
  at \in {"idle", "work", "read"} =>
    systick_overflow_count + (IF pending THEN 1 ELSE 0) = wraps + stale

(* The periods by which a reading may be off.  The reads of CVR and of the *)
(* count are not atomic: a wrap that the handler counts between them adds  *)
(* a period.  With two accesses completing under a pending exception, the  *)
(* read can also miss a wrap, and a reset can leave one over.              *)
OffBy == IF Slack <= 1 THEN 0 .. 1 ELSE -1 .. 2

(* systick_elapsed is off by whole periods only, and by a bounded number   *)
(* of them; the cycle that reloads the counter is not counted.             *)
ReadingOffByPeriods ==
  \A i \in 1 .. phase - 1 : \E k \in OffBy :
    g_cycles[i] = (truth[i].cycles - 1 + k * Period) % ResultMod

(* When no exception was pending at the reset or at the read of CVR, that  *)
(* read did not fall on the cycle in which CVR is zero, and the counter    *)
(* did not wrap before the read of the count, the reading is the elapsed   *)
(* time, but for the reload cycle.                                         *)
CleanReadingExact ==
  \A i \in 1 .. phase - 1 :
    truth[i].clean => g_cycles[i] = (truth[i].cycles - 1) % ResultMod

(* A result, once stored for the watch window, is not changed again. *)
ResultsStable ==
  [][\A i \in 1 .. phase - 1 : g_cycles'[i] = g_cycles[i]]_systick_vars

(* main measures every phase and stops: no exception starves it. *)
AllPhasesMeasured == <>(at = "done")

(* uvision/README.md: "g_ticks[i] = core cycles for one full multi-        *)
(* pairing".  Read with the reload cycle allowed for; the code does not    *)
(* guarantee it, because the two reads are not atomic.  The comparison is  *)
(* not modulo ResultMod: a reading cut to the width of its type does not   *)
(* satisfy it either.                                                      *)
TicksAreCoreCycles ==
  \A i \in 1 .. phase - 1 : g_cycles[i] + 1 = truth[i].cycles
=============================================================================
