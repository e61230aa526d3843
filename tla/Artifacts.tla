----------------------------- MODULE Artifacts -----------------------------
(***************************************************************************)
(* The files of artifacts/, which the Rust programs write one after the    *)
(* other and the C verifier reads: main.rs, export_vk_raw.rs and           *)
(* export_proof_raw.rs of the preimage crate, export_artifacts.rs and      *)
(* export_vk_raw.rs of the clear-signing crate.  One program runs at a     *)
(* time and may be killed, or panic, at any point.                         *)
(*                                                                         *)
(* A key is the number of its setup, a proof the key and the statement it  *)
(* was made for; a raw file has the contents of the file it converts.      *)
(***************************************************************************)
EXTENDS Integers, Sequences

CONSTANTS
  Statements,          (* bound: the preimages proved                      *)
  ShippedStatement,    (* the default preimage, or the transfer exported   *)
  MaxSetups,           (* bound                                            *)
  Missing, Torn,       (* no such file; cut short by a killed program      *)
  None                 (* no program is running                            *)

Crates == {"preimage", "clear_signing"}

Programs(crate) ==
  IF crate = "preimage"
    THEN {"setup", "prove", "verify", "export_vk_raw", "export_proof_raw"}
    ELSE {"export_artifacts", "export_vk_raw"}

Frozen == {"pk.bin", "vk.bin", "proof.bin", "public_inputs.bin"}

Files(crate) ==
  Frozen \cup {"vk_raw.bin", "proof_raw.bin", "inputs_raw.bin"}
         \cup (IF crate = "preimage" THEN {}
                 ELSE {"calldata.bin", "text.bin", "vk.h", "vectors.h"})

(* None is no program's name, and Missing and Torn no contents of a file. *)
ASSUME NoneAssumption == \A c \in Crates : None \notin Programs(c)

Keys        == 0 .. MaxSetups
Facts       == Statements \cup {ShippedStatement}
Contents(f) == CASE f \in {"pk.bin", "vk.bin", "vk_raw.bin", "vk.h"}  -> Keys
                 [] f \in {"proof.bin", "proof_raw.bin", "vectors.h"} -> Keys \X Facts
                 [] OTHER                                             -> Facts

ASSUME ContentsAssumption ==
  /\ MaxSetups \in Nat
  /\ \A c \in Crates : \A f \in Files(c) : Contents(f) \cap {Missing, Torn} = {}

(* The files a program reads, before it writes any. *)
Reads(program) ==
  CASE program = "prove"            -> <<"pk.bin">>
    [] program = "verify"           -> <<"vk.bin", "proof.bin", "public_inputs.bin">>
    [] program = "export_vk_raw"    -> <<"vk.bin">>
    [] program = "export_proof_raw" -> <<"proof.bin", "public_inputs.bin">>
    [] OTHER                        -> <<>>

VARIABLES
  crate, file,         (* contents of each file                            *)
  program, stmt,       (* the running program and its argument             *)
  key,                 (* what setup generated                             *)
  mem,                 (* what the program has read and not used           *)
  writes,              (* the writes it has still to do                    *)
  pc,                  (* "read", "compute", "truncate", "write"           *)
  setups,              (* so far                                           *)
  since                (* history: per program, which of those it depends  *)
                       (* on, itself included, started after it last       *)
                       (* finished                                         *)

vars == <<crate, file, program, stmt, key, mem, writes, pc, setups, since>>

Upstream(q) ==
  CASE q = "setup"                         -> {"setup"}
    [] q \in {"prove", "export_proof_raw"} -> {"setup", "prove", q}
    [] q = "export_vk_raw"                 -> {"setup", "export_artifacts", "export_vk_raw"}
    [] q = "export_artifacts"              -> {"export_artifacts"}
    [] OTHER                               -> {}

(* The set in the repository, all of setup 0. *)
Shipped(f) ==
  CASE f \in {"pk.bin", "vk.bin", "vk_raw.bin", "vk.h"}      -> 0
    [] f \in {"proof.bin", "proof_raw.bin", "vectors.h"}     -> <<0, ShippedStatement>>
    [] OTHER                                                 -> ShippedStatement

Init ==
  /\ crate \in Crates
  /\ \/ /\ file = [f \in Files(crate) |-> Shipped(f)]
        /\ since = [q \in Programs(crate) |-> {}]
     \/ /\ file = [f \in Files(crate) |-> Missing]
        /\ since = [q \in Programs(crate) |-> Upstream(q)]
  /\ program = None /\ stmt = None /\ key = 0 /\ mem = <<>> /\ writes = <<>> /\ pc = "read"
  /\ setups = 0

(* --preimage; the transfer that is exported is fixed. *)
Arguments(q) == IF q = "prove" THEN Statements ELSE {ShippedStatement}

IsSetup(q) == q \in {"setup", "export_artifacts"}

Start(q, s) ==
  /\ program = None
  /\ IsSetup(q) => setups < MaxSetups
  /\ program' = q /\ stmt' = s /\ mem' = <<>> /\ writes' = <<>> /\ pc' = "read"
  /\ setups' = (IF IsSetup(q) THEN setups + 1 ELSE setups)
  /\ key' = (IF IsSetup(q) THEN setups + 1 ELSE 0)
  /\ since' = [p \in Programs(crate) |-> since[p] \cup ({q} \cap Upstream(p))]
  /\ UNCHANGED <<crate, file>>

Stop ==
  /\ program' = None /\ stmt' = None /\ key' = 0 /\ mem' = <<>> /\ writes' = <<>> /\ pc' = "read"
  /\ UNCHANGED <<crate, setups>>

(* Killed, or a panic: an I/O error. *)
Die == program # None /\ Stop /\ UNCHANGED <<file, since>>

(* Mutant: what there is of a file taken for it. *)
AnyFile(contents) == contents # Missing

(* from_bytes_compressed panics on a file cut short. *)
Readable(contents) == contents \notin {Missing, Torn}

Read ==
  /\ program # None /\ pc = "read" /\ Len(mem) < Len(Reads(program))
  /\ LET contents == file[Reads(program)[Len(mem) + 1]]
     IN  IF Readable(contents)
           THEN /\ mem' = Append(mem, contents)
                /\ UNCHANGED <<crate, program, stmt, key, writes, pc, setups>>
           ELSE Stop
  /\ UNCHANGED <<file, since>>

-----------------------------------------------------------------------------
(* Mutant: a proving key that is there is kept. *)
VkOnly(k) == <<<<"vk.bin", k>>>>

SetupWrites(k) == <<<<"pk.bin", k>>, <<"vk.bin", k>>>>

ProveWrites(k, s) == <<<<"proof.bin", <<k, s>>>>, <<"public_inputs.bin", s>>>>

VkRawWrites(k) == <<<<"vk_raw.bin", k>>>>

(* Mutant: the public input left to an earlier export. *)
ProofOnly(proof, s) == <<<<"proof_raw.bin", proof>>>>

ProofRawWrites(proof, s) == <<<<"proof_raw.bin", proof>>, <<"inputs_raw.bin", s>>>>

ArtifactsWrites(k, s) ==
  SetupWrites(k) \o ProveWrites(k, s)
    \o <<<<"proof_raw.bin", <<k, s>>>>, <<"calldata.bin", s>>, <<"text.bin", s>>,
         <<"inputs_raw.bin", s>>, <<"vk.h", k>>, <<"vectors.h", <<k, s>>>>>>

(* setup, prove, the conversions. *)
Compute ==
  /\ program # None /\ pc = "read" /\ Len(mem) = Len(Reads(program))
  /\ writes' = CASE program = "setup"            -> SetupWrites(key)
                 [] program = "prove"            -> ProveWrites(mem[1], stmt)
                 [] program = "verify"           -> <<>>
                 [] program = "export_vk_raw"    -> VkRawWrites(mem[1])
                 [] program = "export_proof_raw" -> ProofRawWrites(mem[1], mem[2])
                 [] program = "export_artifacts" -> ArtifactsWrites(key, stmt)
  /\ pc' = "truncate" /\ stmt' = None /\ key' = 0 /\ mem' = <<>>
  /\ UNCHANGED <<crate, file, program, setups, since>>

(* fs::write creates or truncates the file, then writes it. *)
Truncate ==
  /\ pc = "truncate" /\ writes # <<>>
  /\ file' = [file EXCEPT ![Head(writes)[1]] = Torn]
  /\ pc' = "write"
  /\ UNCHANGED <<crate, program, stmt, key, mem, writes, setups, since>>

Write ==
  /\ pc = "write"
  /\ file' = [file EXCEPT ![Head(writes)[1]] = Head(writes)[2]]
  /\ writes' = Tail(writes)
  /\ pc' = "truncate"
  /\ UNCHANGED <<crate, program, stmt, key, mem, setups, since>>

Finish ==
  /\ pc = "truncate" /\ writes = <<>>
  /\ since' = [since EXCEPT ![program] = {}]
  /\ Stop /\ UNCHANGED file

Next ==
  \/ \E q \in Programs(crate) : \E s \in Arguments(q) : Start(q, s)
  \/ Read \/ Compute \/ Truncate \/ Write \/ Finish \/ Die

Spec == Init /\ [][Next]_vars

-----------------------------------------------------------------------------
(* Properties *)

(* TypeOK: and nothing is computed from a file that is not whole.          *)
TypeOK ==
  /\ crate \in Crates /\ program \in Programs(crate) \cup {None}
  /\ DOMAIN file = Files(crate)
  /\ \A k \in DOMAIN mem : mem[k] \notin {Missing, Torn}
  /\ \A k \in DOMAIN writes : writes[k][1] \in Files(crate) /\ writes[k][2] \notin {Missing, Torn}
  /\ setups \in 0 .. MaxSetups /\ pc \in {"read", "truncate", "write"}

(* groth16: a proof verifies under the key it was made with. *)
Valid(vk, proof, s) == proof = <<vk, s>>

RustValid == Valid(file["vk.bin"], file["proof.bin"], file["public_inputs.bin"])
RawValid  == Valid(file["vk_raw.bin"], file["proof_raw.bin"], file["inputs_raw.bin"])

(* q finished, and none of the programs in qs was started since. *)
UpToDate(q, qs) == q \in DOMAIN since /\ since[q] \cap qs = {}

(* Whatever is left of earlier runs, killed ones included: setup, prove    *)
(* and the exporters, run to their ends in the README's order, leave a set *)
(* of files that Rust and C verify, and that is true until setup or prove  *)
(* is started again.                                                       *)
FreshSetVerifies ==
  /\ UpToDate("setup", {"setup"}) /\ UpToDate("prove", {"setup", "prove"}) => RustValid
  /\ /\ UpToDate("setup", {"setup"}) /\ UpToDate("prove", {"setup", "prove"})
     /\ UpToDate("export_vk_raw", {"setup", "export_vk_raw"})
     /\ UpToDate("export_proof_raw", {"setup", "prove", "export_proof_raw"})
     => RawValid
  /\ UpToDate("export_artifacts", {"export_artifacts"}) =>
       /\ RustValid
       /\ file["vectors.h"] = <<file["vk.h"], file["calldata.bin"]>>
       /\ UpToDate("export_vk_raw", {"export_artifacts", "export_vk_raw"}) => RawValid

(* The exporters have run after the programs they take their input from:   *)
(* then the C verifier says of the raw files what the Rust verifier says   *)
(* of the others - also when those are a new key and an old proof.         *)
RustAndCAgree ==
  /\ UpToDate("export_vk_raw", {"setup", "export_vk_raw"})
  /\ UpToDate("export_proof_raw", {"prove", "export_proof_raw"})
  => RustValid = RawValid
=============================================================================
