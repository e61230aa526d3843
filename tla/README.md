# Formal models of the Groth16 clear-signing verifier

This directory holds TLA+ modules, TLC configurations and TLAPS proofs for the
BN254 Groth16 verifiers in C, the part of the vendored RELIC library that they
run on, the device build for the Cortex-M4, the Rust prover and its artifacts,
and the clear-signing statement that ties a displayed text to a transaction's
call data. Paths below are relative to `src/`.

## 1. The system

| Component | Code | State it keeps | Operations |
|---|---|---|---|
| Scalar field | `device_verifier_bn254/src/fr.c` | field elements as four 64-bit limbs, held by the caller | load and store big-endian bytes, add, subtract, multiply, fifth power, compare |
| Poseidon | `device_verifier_bn254/src/poseidon.c`, `groth16_poseidon_rust/groth16/src/pack.rs` | the round constants, converted once; the sponge state and its position | hash one element, hash a byte string |
| Point decoding | `*/src/point_decode.c`, `*/src/crypto_init.c` | RELIC's context: its sticky error code and the caller's points | decode G1, G2, GT and Fr values, start and stop the library |
| Groth16 verification | `minimal_c_verifier/src/groth16_verifier.c` (and the fixed-key copies in `groth16_poseidon_c`, `groth16_poseidon_assembly`) | the decoded key, proof and inputs; the flattened IC array, filled once | verify against a key in memory, verify against the built-in key |
| Command lines | `minimal_c_verifier/src/clear_signing_cli.c`, `poseidon_preimage_cli.c` | the loaded files | load, check lengths, hash, verify, print, exit |
| Device drivers | `device_verifier_bn254/uvision/*_m4.c` | result globals for the watch window | run the phases of a verification and time each |
| Cycle counting | same files | `SYST_CVR`, the overflow count | `SysTick_Handler`, `systick_reset`, `systick_elapsed` |
| Bare-metal runtime | `device_verifier_bn254/uvision/startup.c` | `.bss` | `_start`, semihosting `SYS_EXIT` (its `malloc`, `fopen` and `exit` are in no image) |
| RELIC: fields | `device_verifier_bn254/lib/relic/src/{low/easy,fp,fpx}` | none | add, subtract, multiply and reduce in fp, fp2, fp6, fp12, with lazy reduction; cyclotomic squarings |
| RELIC: curve | `lib/relic/src/{ep,bn}`, `tmpl/relic_ep_add_tmpl.h` | the caller's points | add, double, negate, normalise, copy, multiply by a scalar |
| RELIC: pairing | `lib/relic/src/pp` | the Miller loop's points and accumulator | product of pairings, final exponentiation |
| Clear-signing statement | `groth16_clear_signing_rust/clear_signing/src/{template,circuit}.rs` | the witness: call data and text | render a text, constrain it |
| Prover and artifacts | `groth16_clear_signing_rust/clear_signing/src/{main,snark}.rs`, `src/bin/*.rs`, `groth16_poseidon_rust/groth16/src/**` | the files of `artifacts/` | set up, prove, export, verify |
| Operation counting | `groth16_poseidon_rust/vendor/ark-ff/src/opcount.rs`, `*/scripts/qemu_*.c` | counters | count field operations, count instructions |

They meet in few places. The prover writes files that the command lines and the
headers compiled into the device read; nothing but the files connects them. The
verifiers call the point decoder, then RELIC's scalar multiplication and its
product of pairings. The drivers call Poseidon, the decoder and the pairing, and
share the cycle counter with an interrupt handler and RAM with the run before a
reset. Poseidon calls the scalar field, and the verifier RELIC's point
functions, with arguments that alias.

What is hard here is little concurrency and much arithmetic and convention:
the interrupt handler against `main`; carries that the code drops because they
are always zero; two implementations (C and Rust) of one byte-string hash, and
a third inside the circuit; nine decodes that may fail, each with its own
cleanup; files written one after the other that are only right together;
formulas that overwrite their operands, and sums left unreduced because two bits
of the top digit are free.

What makes each component correct:

- **Scalar field**: results are canonical and right for operands and output in
  the same cell; no carry that is dropped was set.
- **Poseidon**: the C sponge absorbs exactly the length and the chunks, and
  computes the prover's hash, whichever call came first.
- **Groth16 verification**: the verdict is the Groth16 equation's, for every
  key, whatever was verified before; what a path allocates it frees.
- **Command lines**: only whole files are verified; the exit code tells the
  verdict; every return releases what was opened.
- **Cycle counting**: a reading is the elapsed time, or off by a known number
  of whole periods; results are final.
- **Clear-signing statement**: a text is displayed exactly when it is the
  rendering of the call data the device was given.
- **Prover and artifacts**: the files of one directory belong together when
  the programs ran to their ends in order, whatever was there before.
- **Device drivers**: the results in the watch window are those of this run,
  each of its own phase, and complete when `g_done` is set.
- **Bare-metal runtime**: nothing of an earlier run survives a reset in `.bss`,
  and the host learns from the exit whether `main` succeeded.
- **RELIC**: an unreduced value never outgrows its digits or the reach of one
  reduction; a point is the multiple it must be, whatever form and aliasing it
  came in; a scalar is recoded without loss; the product of pairings is
  bilinear and nondegenerate.

## 2. Plan

| Order | Modules | State |
|---|---|---|
| 1 | `SysTick`, the last part of `DeviceProofs` - the one concurrent part | done, proved |
| 2 | `Limbs`, `Fr`, `FrProofs` - the scalar field | done, proved |
| 3 | `PureCall`, `Packing`, `ArkPoseidon`, `PoseidonSponge`, `PoseidonProofs` - implements `PureCall` | done, proved with the refinement |
| 4 | `Groth16`, `Groth16Verifier`, `Groth16VerifierProofs` - implements `PureCall` | done, proved with the refinement |
| 5 | `VerifierCli`, the last part of `Groth16VerifierProofs` - both command lines | done, proved |
| 6 | `TransferTemplate`, `TwoHashCircuit`, `ClearSigning`, `ClearSigningProofs` - the statement and the protocol | done, proved |
| 7 | `Artifacts`, `ArtifactsProofs` - the files and the programs that write them | done, proved |
| 8 | `Device`, `DeviceProofs` - the three drivers from reset to exit, over `Groth16` | done, proved |
| 9 | `LazyFp`, `Tower`, `Tower12`, `RelicProofs` - RELIC's fields | done, proved |
| 10 | `Curve`, `Twist`, `ExactField`, `Pairing` - the product of pairings | done; types, reach of the reduction and the exact Miller loop proved, in `RelicProofs` |
| 11 | `Recoding`, `Ep`, `EpProofs` - points of G1 and scalar multiplication | done; types and recodings proved |

What would come next: points of G2 outside the pairing, `ep_on_curve` and the
binary inversion of RELIC; proofs of the group law and of the result of a
pairing, from an account of the group of points that they need (Section 5).

## 3. Modules and code

Modules that begin with `MC` give the constants values for TLC. Every
`Mutant:` definition is a plausible mistake, kept beside the definition it
would replace; replacing it breaks the property it is kept for.

**SysTick** (`uvision/*_m4.c`). `cvr` is `SYST_CVR`; `pending` the exception;
`late` how many accesses of `main` completed while it was pending (the core takes
an exception within `Slack` accesses). `Tick` is a core cycle, `SysTick_Handler`
the handler, and each volatile access of `systick_init` (`InitSysTick`),
`systick_reset` (`ResetCvr`, `ResetCount`) and `systick_elapsed` (`ReadCvr`,
`ReadCount`) an action. `now`, `wraps`, `stale`, `truth` and `clean` are history:
what really happened, to compare the reading with.

**Limbs, Fr** (`fr.c`). Limbs are functions on `0 .. 3` with words of
`HALF * HALF` values (2^64 in the code, with half words of 2^32). `add4`,
`sub4`, `cmp4`, `mul64` and the inner step `MulAcc` are operators with the
carries the code computes, including those it drops. `Fr` has one action per
operation and per loop iteration: `LoadByte`, `Reduce`, `MulColumn`, `MulRow`,
`DivStep`, `MulDone`. Operands and output are cells that may coincide. `lost`
records that a dropped carry was set.

**Packing, ArkPoseidon, PoseidonSponge** (`pack.rs`, `params.rs`,
`poseidon.c`). `ArkPoseidon` is what the prover computes, as a function;
`PoseidonSponge` runs `poseidon_init`, `permute` and the lazily permuting
absorption step by step. It calls the field's operations through the results
that `Fr` shows them to have. `PureCall` is the abstract specification: the
result depends on the argument alone.

**Groth16, Groth16Verifier** (`groth16_verifier.c`, `point_decode.c`,
`export_vk_raw.rs`). Group elements are their logarithms and the pairing a
product; the `pairing` run shows of RELIC's pairing what this takes for
granted. `Groth16` has the equation with the setup's `gamma` and `delta`, and
the key as the exporter writes it, negated; `Groth16Verifier` decodes that key
and pairs as the C does, each decode an action with its `goto`. `live` counts
the RELIC objects. `groth16_verify` and its static array are the action of
that name. It implements `PureCall`.

**VerifierCli** (`clear_signing_cli.c`, `poseidon_preimage_cli.c`). `load_file`
call by call, each call failing or not; `Checked` tells the careful `load_file`
of the first program from that of the second, which ignores `fseek`. Hash and
verification are constants. `failed` is history.

**TransferTemplate, TwoHashCircuit, ClearSigning** (`template.rs`,
`circuit.rs`, `snark.rs`, `clear_signing_main.c`). The renderer divides and
formats; the circuit is the conjunction of its constraints on bits and on sums
in the field. They are separate translations of separate code. `ClearSigning`
is the protocol: `prove` makes proofs, valid if the circuit is satisfied;
`Receive` gives the device call data, text and proof of any sessions;
`HashCalldata`, `HashText`, `groth16_verify_vk` and `Display` are the device.

**Artifacts** (`main.rs`, `export_*.rs`). A file is what it was made from: the
number of a setup, a proof of a setup and a statement, or `Torn`. Programs
read, compute, then truncate and write each file; `Die` kills them anywhere.
`since` is history: for each program, those upstream of it started since it
last finished.

**Device** (`startup.c`, `clear_signing_m4.c`, `main_m4.c`,
`single_pairing_m4.c`). `main(program)` is the order of a program's steps, each
an action; `_start` zeroes `.bss` (`ram`: the flag and tables of `poseidon.c`
and the globals of the watch window), `SysExit` tells the host. `Reset` strikes
anywhere and leaves `ram` as it is; at power-on it is zero or unknown. `spent`
is the work since the counter's last reset, which is what a reading is of;
`SysTick` has what the reading is in cycles.

**LazyFp, Tower, Tower12** (`low/easy/relic_fp*_low.c`, `low/easy/relic_fpx_*`,
`fpx/`). Operators named as in RELIC. A field element is an integer below `R`,
a double-precision one below `R * R`, and every operation wraps where the digit
vector would. The operators ending in `_unr`, `muln`, `sqrn`, `nord` leave their
results unreduced, as the code built with `FPX_RDC = LAZYR` does. Intermediate
values are passed as parameters of local operators, one for each line of the C
that a later line uses. `InvMod` is a table of the inverses of the prime field.

**Curve, Twist, Pairing** (`ep/relic_ep_param.c`, `pp/relic_pp_{add,dbl}_k12.c`,
`pp_map_k12.c`, `pp_exp_k12.c`). `Curve` has the curve and the parameter that
`Pairing` and `Ep` are both given, and `CurveAssumption`: that they are of the BN
family. `Start` leaves out the pairs with a point at infinity, each digit of the
parameter is a step of the Miller loop, then come the two last lines and the final
exponentiation with its compressed cyclotomic powers. `ExactField` follows nothing
in the code: polynomials modulo the prime, chords and tangents. `Pairing` is
compared with it.

**Recoding, Ep** (`bn/relic_bn_rec.c`, `ep/relic_ep_{add,dbl,neg,norm,mul,...}.c`,
`tmpl/relic_ep_add_tmpl.h`). The addition formulas are sequences of assignments
run on memory, so that operand and result may be one object and a coordinate is
overwritten when the code overwrites it. `ep_mul` splits the scalar along the
endomorphism, recodes both halves and adds from a table of odd multiples. The
short vectors of the split come from the rows of Euclid's algorithm that
`bn_gcd_ext_mid` stops at (`Rows`, `Below`). `Objs` are the caller's `PointCount`
points; `log` is history: the multiple of the generator each point must be.

## 4. Runs

| Run | What it shows | Bounds |
|---|---|---|
| `systick` | accounting of overflows, error of a reading, exact undisturbed readings, all phases measured | reload 3, two phases, regions of up to 18 cycles: several wraps per region, and one at every point of it; two late accesses are the least for which both a missed and a stale wrap occur; result width 16 so that it wraps |
| `systick_readme` | a reading is not always the elapsed cycles | one late access; result width 16 and regions of up to 18 cycles, so that a reading can also be cut to its width |
| `fr` | every operation right and canonical, dropped carries zero | words of two bits: every carry pattern of four words arises; R = 47 stands to 256 as the group order to 2^256; boundary operands; all loads |
| `fr_comment` | more than three subtractions | as above |
| `poseidon` | `PoseidonSponge` implements the prover's hash; each call returns | field of seven, two-byte chunks; messages of nought to four elements after the length: the rate exactly full, one to spare, full twice; two calls, so that one finds the tables converted |
| `groth16` | the verifier implements the Groth16 verdict; allocations balance; each call returns | order five; keys of one and two inputs; keys with a point at infinity; proofs with points off the curve; unreduced scalars; unbounded sequences of calls |
| `cli` | only whole files verified, exit codes, resources | per argument a missing, an empty, a wrong-length, a genuine and another file; every library failure |
| `clear_signing` | displayed exactly if rendered; pieces of different sessions are not displayed together; genuine requests are displayed in the end | every address byte, every amount of three digits, and about fifteen thousand edits of one or two bytes of text or call data, with real character codes; up to three proofs of five witnesses, text trimmed or padded |
| `artifacts` | fresh sets verify, C and Rust agree | one setup after the shipped one, two statements: any file of an older run beside any of a newer |
| `device` | phases time their own work, `g_done` means final, every run reports its success | two resets, so that an interrupted run precedes an interrupted run; two timed iterations; every proof over four encodings, hashes that match or not, keys that decode or not |
| `pairing` | exact Miller loop, unreduced values within reach, right multiples, bilinear and nondegenerate | see below |
| `points` | the group law for every aliasing and form of points; recodings without loss; canonical coordinates | P = 103, order 97, u = 1; two points (`PointCount`); every scalar up to 99; three calls, a multiplication preceded by at most one (`MulCalls`) |

The runs do not need larger bounds for what they ask: the loops of the code
run over limbs, slots or chunks whose number is the real one (four limbs,
width three) or reaches each case of the code's conditions, and the widths are
constants of the modules.

RELIC's runs are on BN curves, which exist for small parameters `u` too. The
`pairing` run has u = -3: P = 2143, groups of order 2089, and the tower over
9 + i that BN254 has. It is negative, so that the branches for a negative
parameter run; 6u + 2 = -16 has a single digit, so
`Loops` adds the loop over 6u^2 = 54, which `pp_mil_k12` also computes a pairing
with and which has digits of both signs. R = 16384 leaves the room of two bits
(and more) that a 254-bit prime has in eight words. TLC's integers have 32 bits,
which is what keeps P this small. The inputs are lists of none to three pairs of points,
each one of five multiples of the one generator and of four of the other,
infinity among both.

`CHECK_DEADLOCK FALSE` is set where the program ends, or TLC's instance does:
`main` stops, a call of `fr.c` returns to nobody, a process exits. In
`Artifacts`, `ClearSigning` and `Groth16Verifier` nothing ends.

### Fairness

`SysTick`: the core clock runs, a pending exception is taken, and `main` - which
waits for nothing - executes when the core is free. `Device`: the core executes
(`Core`); a reset is never owed. `PoseidonSponge`, `Groth16Verifier`,
`ClearSigning`: a call, once made, is executed; nobody is obliged to call. No
fairness is assumed of users, files or the prover; the other modules state
safety only.

### What the runs found

- `systick_readme`: `systick_elapsed` reads the register and then the count. If
  the exception is taken in between, or if the register is read while it is still
  zero with the wrap already counted (TLC's shortest trace), the reading is 2^24
  cycles too long, so the watch-window value is not always the core cycles that
  `uvision/README.md:113` promises. The property is also false, in this instance
  and in `main_m4.c`, of an undisturbed region too long for the result's type:
  2^32 cycles there. The passing properties about readings are modulo that width,
  since the code does truncate; this one is not.
- `fr_comment`: `fr.c:78` bounds the subtractions of `fr_from_be` by three;
  2^256 is above 5r and it takes up to five. The loop is right all the same.

Noted while modelling, and plain from the code without a run: exit code 1 of the
command lines is also that of ERROR, a point off the curve, where
`README.md:203-205` has it for INVALID; `export_artifacts`, the "full artifact
export" of "all raw files" (`README.md:117`), does not write `vk_raw.bin`;
`groth16_poseidon_assembly`'s `startup.c` passes `SYS_EXIT` a parameter block,
which 32-bit semihosting takes for the reason code, so that its images exit
alike whatever `main` returned (`scripts/count_insns.sh` reckons with it).

## 5. Proofs

The last part of `DeviceProofs` proves of `SysTick`, for every reload value,
number of phases, slack, gap, horizon and result width (`SysTickAssumption`: the
gap between two adjacent accesses is shorter than a period): the overflow
accounting, the bound on a reading's error, exactness of an undisturbed one, and
stability of results. The inductive invariant `SysTickInv` adds that `now` is a
whole number of periods and the part the counter has run (`TimeInv`), that the
counter cannot wrap inside `systick_reset` (`ResetInv`), and that at most one wrap
separates the two reads of `systick_elapsed`, none if the first read zero
(`ReadInv`). Without these the error of a reading does not follow from the
accounting.

`FrProofs` proves, for every even half-word base, that `cmp4`, `add4`, `sub4`,
`mul64` and `MulAcc` compute what their names say, with the carries; `MulAcc` is
the step whose high word never wraps. On these it proves, for every word size,
number of bytes in a word and modulus with `W <= R` and `2R <= W^4`
(`FrAssumption`; `PowerAssumption` says what `^` is), that types and loop bounds
hold, that no dropped carry is ever set, and that every operation of `fr.c`
leaves the canonical result in its output and nothing else changed, with any
aliasing (`FrResultCorrect`). The first invariant is
`TypeOK /\ Loops /\ Reduced /\ NoCarryLost`: stored elements and the remainder of
the division are below R, which is why the bit shifted out of `rem` and the
carries are zero. For the values it is strengthened by what the loops have
computed so far: the columns of a row and the rows of a product add up to the
part of the product they stand for; `rem` is the remainder of the upper part of
the product, bit by bit (`FrRemainder`); the three products of `fr_pow5` have
the powers as operands; what has been loaded is the value of the bytes so far.
`FrStoreLoads` is that `fr_to_be` stores what `fr_from_be` loads.

`PoseidonProofs` proves all properties of `PoseidonSponge` but termination, for
every modulus, width, number of rounds, table, chunk size and message
(`PoseidonAssumption`; `ChunkAssumption`: a chunk is below the modulus).
`HashIsRust` is the refinement: each call returns the prover's hash. The
invariant has the table so far (`TablesRight`); the state after `round` rounds
of the permutation, and within a round after each of its loops (`RoundsRight`);
that the state is the prover's before or after a permutation, and `idx` the
place in the last block (`SpongeRight`); and that what was absorbed is a prefix
of `pack(data)`, whose next element is in hand (`StreamRight`). The prover's side
is written with folds, so the lemmas first show what a fold over a number of
rounds, columns or blocks is, and that adding one element to the last block is
what the lazy sponge does. `Distinct` needs that the packing is injective: the
first element gives the length, and a chunk that is not reduced has one digit
string of its length.

The last part of `Groth16VerifierProofs` proves all four properties of the command
lines for every set of files, every hash and every verifier that answers 1, 0 or -1
(`CliAssumption`). The exit code's meaning needs to know what was verified, and
that what `load_file` promised of each file: `Delivered` says it for the files
it is done with, `Loader` for the one it is loading - the size is the file's, or
nought after a call that failed - and `Judged` that, once `main` has compared
lengths, the verdict is one for the files' contents.

`Groth16VerifierProofs` proves the balance of allocations, the types and the
verdict for every group order, key, proof and number of inputs
(`VerifierAssumption`: keys are made of group elements; `NoArgAssumption`). The
allocation state is a function of the place a call has reached, `LiveAt(pc)`,
and every step and `goto` allocates or frees the difference of two places.
`TypeOK`, that no coordinates reach a group operation unchecked, needs which
points have been decoded by when, `CheckedAt(pc)`. `VerdictIsGroth16` is the
refinement of `PureCall`: `Answers` says what a call has found out at each place -
the key it was given (by the caller, or in the static array, which is that of
the built-in key once it is filled), the points it has decoded, that `L` is the
sum over the inputs added so far, reduced at each step - and that a failure
leaves a verdict of -1. The product of the pairing is the equation with the
negated `gamma` and `delta` moved across.

`ArtifactsProofs` proves `FreshSetVerifies`, `RustAndCAgree` and the types for any
number of setups and statements (`ContentsAssumption`: no content is mistaken for
a missing or a torn file). The invariant says, kind by kind, what belongs
together while no program upstream was started since (`Paired`, `Proved`,
`VkConverted`, `ProofConverted`, `Exported`); that a running program is counted
by all that depend on it (`Counted`), so that those facts are suspended while it
writes; that what it read is still in the files (`Reading`); and that what it
has written is a prefix of a plan that writes each file once (`Running`). A
program killed leaves any prefix, and the facts suspended stay so.

`ClearSigningProofs` proves the statement and the protocol for every template,
field, chunk size, call data and text (`TemplateAssumption`, `CircuitAssumption`:
the field has room for a chunk, for an amount and for sixteen times a number of
as many decimal digits; `PowerAssumption`, `WitnessAssumption`, `NoneAssumption`).
`TemplateSound` and `TemplateComplete`: the constraints of the template hold
exactly of a call data and its rendering. A sum in the field of the digits' bits
is that of the integers because nothing wraps, so it determines the digits; the
text is put together piece by piece, prefix, address, middle, amount, unit.
`GadgetIsNative`: the gadget packs as `pack.rs` does; `PackInjective`: no two byte
strings have the same packing. `SatisfiedIsRendering` puts these together for
`enforce_transfer_template` and both digests. For the protocol the invariant is
that every proof was made for a satisfying witness and that the device has, at
each place, the digests of the call data and the text it will display; then
`WysiwysSafe` (`DisplayedIsRendering`) and `NoMixing` (`DisplayedWasProved`)
follow.

`DeviceProofs` proves for any images, number of timed iterations and resets
(`GroupAssumption`: the order is prime; `ImagesAssumption`: vectors in flash have
their types) that readings time their own phase's work, that `g_done` means final,
and `ReportIsTrue`, the safety half of `EveryRunReports`: a run that ends tells
the debugger of success exactly when its image verifies. The invariant is about
positions in `main(program)`: what each phase has left behind once it is passed
(`Tables`, `Timing`, `Hashed`, `Decoded`, `Prepared`, `Paired`, `Judged`,
`Announced`). The lemmas find each step in the three lists, say what each
operation changes (`Effect`), and move the negated points of the verdict across
the equation. A reset keeps nothing of it but what `_start` clears.

`RelicProofs` begins with RELIC's fields. It proves, for
every odd P and every R with 4 P < R that P is invertible modulo
(`LazyFpAssumption`, `RoomAssumption`, `MontyAssumption`): modular addition,
subtraction and negation; that Montgomery reduction of a value up to P R + P - 1
is canonical and congruent, by exact division and one subtraction; that the
factors of a product may be unreduced sums of two elements; and that
`fp_addc_low` and `fp_subc_low` stay where reduction can take them. In fp2,
Karatsuba on unreduced sums wraps nowhere and `fp2_mul` and `fp2_sqr` are
multiplication of complex numbers modulo P in Montgomery form. `RoomAssumption`
is where the two free bits enter: the product of two sums of two elements is
below 4 P * P, which is below P * R.

`DenseWithinReach` takes this up to fp12: nothing that `fp12_mul` or `fp12_sqr`
hands to Montgomery reduction is P R + P or more, for all canonical arguments,
and so their results and those of `fp12_mul_dxs` are canonical
(`ProductsCanonical`). This is what the invariant `LazyWithinReach` looks at in
the accumulators of one small curve, and two steps of it are not obvious from the
code. In fp6 the product of unreduced sums may pass P R in its second
coefficient, since all of its four sums may be near 2 P and 8 P * P can exceed
P R; only because the sum of the partial products subtracted from it was not
reduced either is the difference exact and below P R (`MiddleFits`). And the
halved sum in `fp12_sqr` may pass P R by less than P; what it is subtracted from
is one of the two summands, so that the difference does not wrap (`HalfOfSum`).

On these rest three invariants of `Pairing`, for every curve of the family, every
parameter and both loops, and any lists of points (`CurveAssumption`;
`TowerAssumption`: P is 7 modulo 8; `PairingAssumption`: the order takes both
generators to infinity). `PairingTypeOK` is that everything from the affine
arguments to the result of the final exponentiation is made of canonical elements;
its invariant `Typed` is inductive since each operator of the towers, powers by
table and in the cyclotomic subgroup included, returns such elements. With it
`PairingLazyWithinReach` follows from `DenseWithinReach`. `PairingExactMiller` is
that the accumulator, computed with lazy reduction, is at every digit the plain
product of plain lines. `ExactInv` adds to `Typed` and `ExactMiller` that the
accumulator is one until the digit below the leading one is read, which the code
starts it with (`Started`); the work is in one step. Elements are compared as
Gaussian integers modulo P: `Stands` says that an unreduced value is congruent to
such a pair, and each lazy operator is shown to keep it (`SumSame`, `MulnSame`,
`AddcSame`, `HalfSumSame`). Then a product of `Tower12` is, coefficient by
coefficient, the convolution of `ExactField` with sixth powers folded back: that
is Karatsuba's identity twice for the sparse product with a line (`DxsExact`), and
for the square, which `fp12_sqr` takes by squares of three elements of fp4, the
Chung-Hasan identity and a halving (`SqrExact`). Conjugation at the end of a loop
with a negative parameter is `ConjugateExact`, and `LinesExact` follows the loop
over the pairs.

`EpProofs` proves two invariants of `Ep`. `EpTypeOKAlways`: whatever calls are
made, with whatever aliasing, every coordinate the formulas leave in memory is a
canonical element. A formula is a list of assignments to memory (`FormulasTyped`),
and each assignment keeps memory typed (`RunTyped`), so that it does not matter
which objects are one. `EpInv` is inductive with nothing more than the ranges of
the history. `EpRecodingsRight`: of every scalar the two halves that `ep_mul_glv_imp`
gets are congruent to it and short, and their recodings lose nothing. It has three
parts.

- Euclid's algorithm takes the same four steps for every parameter `u` of one
  sign (`GcdPositive`, `GcdNegative`), so the vectors of the split are the same
  polynomials in `u` (`LatticeIs`), and any two roundings give halves congruent to
  the scalar (`GlvCongruent`).
- The vectors are (C, -D) and (W, C) with C C + D W the order. The rounded
  quotients have an error below one and what the precomputed multipliers lack
  (`ErrorsSmall`), which bounds four times a half by 3 C + 4 W + 4
  (`GlvNear`), and that squared is below 32 times the order (`GlvShort`). For the
  least curve, u = 1, the bound is too coarse and the errors are taken with
  their numbers (`SmallestIsShort`).
- `NafCorrect`, for every integer and width: the digits of `bn_rec_naf` are odd or
  zero and below half the window, add up to the integer, are at most one more than
  its bits - the length of the array they are written to - and each that is
  not zero is followed by zeros for the rest of its window. Induction is on what
  is left to recode: after a digit it is a multiple of the window, so that the next
  ones are zero, and k <= 2^c leaves at most c + 1 digits.

`EpAssumption` says that the points the caller decodes are multiples of the
generator, and windows have three bits or more; `EndomorphismAssumption` is what
`ep_curve_set_endom` throws an error for otherwise (`relic_ep_curve.c:474`): that
the endomorphism multiplies by `lambda` on the group.

Recursive functions and folds are reasoned about with the least number at which
two would differ, or a property would fail (`NatLeast`, `UpTo`): the library's
induction theorems take an operator as a parameter, which the provers cannot
instantiate, but the well-foundedness of the naturals is a plain fact. A fold of
the community modules is first shown to be such a recursion.

Only model-checked: `AtMultiple`, `Bilinear` and `GroupLaw`, which say that points
are the multiples they must be and that the pairing's result is bilinear and
nondegenerate. The first and the last need that the chord-and-tangent law is
associative, and that no exceptional case of the complete formulas is a point of
the curve; bilinearity needs the theory of divisors. None of it is in the library,
and none follows from identities the SMT solver finds. And all that liveness adds:
that calls return and runs report is `ImplementsRustHash`, `ImplementsVerdict`,
`GenuineIsShown`, `EveryRunReports` and `AllPhasesMeasured` under fairness, which
needs ENABLED and is beyond the provers.

## 6. Not modelled

- Of RELIC: multi-precision integers and the algorithm of `fp_inv` (it stands
  for the inverse), the digit loops below `fp_*_low`, points of G2 outside the
  pairing, on-curve tests, and all that no program of the repository calls -
  other curves, fields, protocols, hashing, other coordinate systems and
  recodings. The library is there once for each build, and its copies make up
  nearly all of the repository's lines, most of them headers that rename
  functions and files no verifier reaches; the modules' share of the
  whole is small for that reason.
- arkworks: the proof system and serialisation stand for what they promise. A
  proof is valid for the inputs it was made for exactly if its witness satisfied
  the circuit; the sponge is injective on what it absorbs. In `Groth16`,
  subgroup membership and the range of coordinates are not distinguished.
- The fixed-key verifiers of `groth16_poseidon_c`, `groth16_poseidon_assembly`
  and `multi_pairing.c` take the steps of the runtime verifier with the key of
  one input compiled in; `run_multipairing_bench` takes those of `main_m4.c`
  with another clock.
- The runtime's `calloc`, `malloc`, `fopen`, `fclose` and `exit`: the linker
  maps under `build_m4` list them as discarded, so no image has them. Nor is
  `.data` copied at start-up: in every image it holds only the unused `stdout`
  and its record. The initialised `g_iters` of `main_m4.c` and
  `single_pairing_m4.c` is read nowhere, and the maps list it as discarded.
- The assembly kernels (`low/arm-asm-254e`) that `groth16_poseidon_assembly` has in
  place of `low/easy`, operation and instruction
  counters, the generation of the Poseidon constants, the preimage circuit, the
  in-memory demo, cross-validation, profiling and printing.
- Two programs writing `artifacts/` at the same time.
