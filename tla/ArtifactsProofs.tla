--------------------------- MODULE ArtifactsProofs ---------------------------
(***************************************************************************)
(* Files that the programs leave in artifacts/ belong together, for any    *)
(* number of setups, statements and killed programs.  The inductive        *)
(* invariant has a part for each kind of file: keys of one setup (Paired), *)
(* a proof for the key (Proved), a conversion and its source               *)
(* (VkConverted, ProofConverted), the whole export (Exported), each for as *)
(* long as no program upstream was started since; and what the running     *)
(* program has written so far is a prefix of what it planned (Running).    *)
(***************************************************************************)
EXTENDS Artifacts, SequenceTheorems, TLAPS

(* The files a program writes. *)
Names(q) ==
  CASE q = "setup"            -> {"pk.bin", "vk.bin"}
    [] q = "prove"            -> {"proof.bin", "public_inputs.bin"}
    [] q = "export_vk_raw"    -> {"vk_raw.bin"}
    [] q = "export_proof_raw" -> {"proof_raw.bin", "inputs_raw.bin"}
    [] q = "export_artifacts" -> Files("clear_signing") \ {"vk_raw.bin"}
    [] OTHER                  -> {}

(* The list of writes w, of which writes is what is left. *)
Planned(w) ==
  \/ program = "setup" /\ \E k : w = SetupWrites(k)
  \/ program = "prove" /\ \E k, s : /\ w = ProveWrites(k, s)
                                    /\ UpToDate("setup", {"setup"}) => k = file["vk.bin"]
  \/ program = "verify" /\ w = <<>>
  \/ program = "export_vk_raw" /\ w = VkRawWrites(file["vk.bin"])
  \/ program = "export_proof_raw" /\ w = ProofRawWrites(file["proof.bin"], file["public_inputs.bin"])
  \/ program = "export_artifacts" /\ \E k, s : w = ArtifactsWrites(k, s)

(* The first j of the writes of w are done, and the others are to do.      *)
DoneUpTo(w, j) ==
  /\ j \in 0 .. Len(w)
  /\ writes = [i \in 1 .. Len(w) - j |-> w[i + j]]
  /\ \A i \in 1 .. j : file[w[i][1]] = w[i][2]

Typed ==
  /\ crate \in Crates /\ program \in Programs(crate) \cup {None}
  /\ file = [f \in Files(crate) |-> file[f]]
  /\ since = [q \in Programs(crate) |-> since[q]]
  /\ pc \in {"read", "truncate", "write"} /\ mem \in Seq({file[f] : f \in Files(crate)})
  /\ pc # "read" => program # None /\ mem = <<>>
  /\ pc = "write" => writes # <<>>

(* A program that has started and not finished is counted by all that      *)
(* depend on it.                                                           *)
Counted ==
  program # None => \A q \in Programs(crate) : program \in Upstream(q) => program \in since[q]

Reading ==
  program # None /\ pc = "read" =>
    /\ Len(mem) <= Len(Reads(program))
    /\ \A i \in 1 .. Len(mem) : mem[i] = file[Reads(program)[i]]

Running == pc # "read" => \E w : Planned(w) /\ \E j \in 0 .. Len(w) : DoneUpTo(w, j)

Paired == UpToDate("setup", {"setup"}) => file["pk.bin"] = file["vk.bin"]

Proved ==
  UpToDate("setup", {"setup"}) /\ UpToDate("prove", {"setup", "prove"}) => RustValid

VkConverted ==
  UpToDate("export_vk_raw",
           {IF crate = "preimage" THEN "setup" ELSE "export_artifacts", "export_vk_raw"})
    => file["vk_raw.bin"] = file["vk.bin"]

ProofConverted ==
  UpToDate("export_proof_raw", {"prove", "export_proof_raw"}) =>
    /\ file["proof_raw.bin"] = file["proof.bin"]
    /\ file["inputs_raw.bin"] = file["public_inputs.bin"]

Exported ==
  UpToDate("export_artifacts", {"export_artifacts"}) =>
    /\ RustValid
    /\ file["proof_raw.bin"] = file["proof.bin"]
    /\ file["inputs_raw.bin"] = file["public_inputs.bin"]
    /\ file["vectors.h"] = <<file["vk.h"], file["calldata.bin"]>>

Together == Paired /\ Proved /\ VkConverted /\ ProofConverted /\ Exported

IInv == Typed /\ Counted /\ Reading /\ Running /\ Together

-----------------------------------------------------------------------------
(* Plans *)

LEMMA TenWrites ==
  ASSUME NEW a, NEW b, NEW c, NEW d, NEW e, NEW f, NEW g, NEW h, NEW i, NEW j
  PROVE  LET w == <<a, b>> \o <<c, d>> \o <<e, f, g, h, i, j>>
         IN  /\ Len(w) = 10 /\ w \in Seq({a, b, c, d, e, f, g, h, i, j})
             /\ w[1] = a /\ w[2] = b /\ w[3] = c /\ w[4] = d /\ w[5] = e
             /\ w[6] = f /\ w[7] = g /\ w[8] = h /\ w[9] = i /\ w[10] = j
<1> DEFINE v == <<a, b>> \o <<c, d>>
<1>1. Len(v) = 4 /\ v \in Seq({a, b, c, d, e, f, g, h, i, j}) /\ v[1] = a /\ v[2] = b /\ v[3] = c /\ v[4] = d
  OBVIOUS
<1> HIDE DEF v
<1> DEFINE T == {a, b, c, d, e, f, g, h, i, j}
           u == <<e, f, g, h, i, j>>
<1>2. Len(u) = 6 /\ u \in Seq(T) /\ u[1] = e /\ u[2] = f /\ u[3] = g /\ u[4] = h /\ u[5] = i /\ u[6] = j
  OBVIOUS
<1>3. v \in Seq(T)
  BY <1>1
<1>4. LET w == v \o u
      IN  /\ Len(w) = 10 /\ w \in Seq(T)
          /\ w[1] = a /\ w[2] = b /\ w[3] = c /\ w[4] = d /\ w[5] = e
          /\ w[6] = f /\ w[7] = g /\ w[8] = h /\ w[9] = i /\ w[10] = j
  <2> HIDE DEF T, u
  <2>1. /\ v \o u \in Seq(T) /\ Len(v \o u) = 10
        /\ \A n \in 1 .. 10 : (v \o u)[n] = IF n <= 4 THEN v[n] ELSE u[n - 4]
    <3>1. /\ v \o u \in Seq(T) /\ Len(v \o u) = Len(v) + Len(u)
          /\ \A n \in 1 .. Len(v) + Len(u) : (v \o u)[n] = IF n <= Len(v) THEN v[n] ELSE u[n - Len(v)]
      BY <1>2, <1>3, ConcatProperties
    <3>2. Len(v) = 4 /\ Len(u) = 6 /\ Len(v) + Len(u) = 10
      BY <1>1, <1>2
    <3> QED BY <3>1, <3>2
  <2> QED BY <1>1, <1>2, <2>1
<1> QED BY <1>4 DEF v

LEMMA ArtifactsList ==
  ASSUME NEW k, NEW s
  PROVE  LET w == ArtifactsWrites(k, s)
         IN  /\ Len(w) = 10 /\ w = [i \in 1 .. 10 |-> w[i]]
             /\ w[1] = <<"pk.bin", k>> /\ w[2] = <<"vk.bin", k>>
             /\ w[3] = <<"proof.bin", <<k, s>>>> /\ w[4] = <<"public_inputs.bin", s>>
             /\ w[5] = <<"proof_raw.bin", <<k, s>>>> /\ w[6] = <<"calldata.bin", s>>
             /\ w[7] = <<"text.bin", s>> /\ w[8] = <<"inputs_raw.bin", s>>
             /\ w[9] = <<"vk.h", k>> /\ w[10] = <<"vectors.h", <<k, s>>>>
<1> DEFINE w == <<<<"pk.bin", k>>, <<"vk.bin", k>>>>
                  \o <<<<"proof.bin", <<k, s>>>>, <<"public_inputs.bin", s>>>>
                  \o <<<<"proof_raw.bin", <<k, s>>>>, <<"calldata.bin", s>>, <<"text.bin", s>>,
                       <<"inputs_raw.bin", s>>, <<"vk.h", k>>, <<"vectors.h", <<k, s>>>>>>
<1>1. ArtifactsWrites(k, s) = w
  BY DEF ArtifactsWrites, SetupWrites, ProveWrites
<1>2. /\ Len(w) = 10
      /\ w \in Seq({<<"pk.bin", k>>, <<"vk.bin", k>>, <<"proof.bin", <<k, s>>>>,
                    <<"public_inputs.bin", s>>, <<"proof_raw.bin", <<k, s>>>>,
                    <<"calldata.bin", s>>, <<"text.bin", s>>, <<"inputs_raw.bin", s>>,
                    <<"vk.h", k>>, <<"vectors.h", <<k, s>>>>})
      /\ w[1] = <<"pk.bin", k>> /\ w[2] = <<"vk.bin", k>>
      /\ w[3] = <<"proof.bin", <<k, s>>>> /\ w[4] = <<"public_inputs.bin", s>>
      /\ w[5] = <<"proof_raw.bin", <<k, s>>>> /\ w[6] = <<"calldata.bin", s>>
      /\ w[7] = <<"text.bin", s>> /\ w[8] = <<"inputs_raw.bin", s>>
      /\ w[9] = <<"vk.h", k>> /\ w[10] = <<"vectors.h", <<k, s>>>>
  BY TenWrites
<1> HIDE DEF w
<1>3. w = [i \in 1 .. 10 |-> w[i]]
  BY <1>2
<1> QED BY <1>1, <1>2, <1>3

(* A plan writes each of its files once. *)
Plan(w) ==
  /\ Len(w) \in Nat /\ w = [i \in 1 .. Len(w) |-> w[i]]
  /\ \A i, l \in 1 .. Len(w) : w[i][1] = w[l][1] => i = l
  /\ \A i \in 1 .. Len(w) : w[i][1] \in Names(program)

LEMMA PlansAreFine ==
  ASSUME Typed, NEW w, Planned(w)
  PROVE  Plan(w) /\ Names(program) \subseteq Files(crate)
<1>1. CASE program = "setup" /\ \E k : w = SetupWrites(k)
  BY <1>1 DEF SetupWrites, Plan, Names, Typed, Files, Frozen
<1>2. CASE program = "prove" /\ \E k, s : w = ProveWrites(k, s)
  BY <1>2 DEF ProveWrites, Plan, Names, Typed, Files, Frozen
<1>3. CASE program = "verify" /\ w = <<>>
  BY <1>3 DEF Plan, Names
<1>4. CASE program = "export_vk_raw" /\ w = VkRawWrites(file["vk.bin"])
  BY <1>4 DEF VkRawWrites, Plan, Names, Files, Frozen
<1>5. CASE program = "export_proof_raw" /\ w = ProofRawWrites(file["proof.bin"], file["public_inputs.bin"])
  BY <1>5 DEF ProofRawWrites, Plan, Names, Files, Frozen
<1>6. CASE program = "export_artifacts" /\ \E k, s : w = ArtifactsWrites(k, s)
  <2>1. crate = "clear_signing"
    BY <1>6, NoneAssumption DEF Typed, Crates, Programs
  <2>2. PICK k, s : w = ArtifactsWrites(k, s)
    BY <1>6
  <2>3. Len(w) = 10 /\ w = [i \in 1 .. 10 |-> w[i]]
    BY <2>2, ArtifactsList
  <2>4. /\ w[1][1] = "pk.bin" /\ w[2][1] = "vk.bin" /\ w[3][1] = "proof.bin"
        /\ w[4][1] = "public_inputs.bin" /\ w[5][1] = "proof_raw.bin" /\ w[6][1] = "calldata.bin"
        /\ w[7][1] = "text.bin" /\ w[8][1] = "inputs_raw.bin" /\ w[9][1] = "vk.h"
        /\ w[10][1] = "vectors.h"
    BY <2>2, ArtifactsList
  <2>5. \A i \in 1 .. 10 : i = 1 \/ i = 2 \/ i = 3 \/ i = 4 \/ i = 5 \/ i = 6 \/ i = 7 \/ i = 8
                            \/ i = 9 \/ i = 10
    OBVIOUS
  <2>6. \A i, l \in 1 .. 10 : w[i][1] = w[l][1] => i = l
    BY <2>4, <2>5
  <2>7. \A i \in 1 .. 10 : w[i][1] \in Names(program)
    BY <2>4, <2>5, <1>6 DEF Names, Files, Frozen
  <2>8. Names(program) \subseteq Files(crate)
    BY <2>1, <1>6 DEF Names
  <2> QED BY <2>3, <2>6, <2>7, <2>8 DEF Plan
<1> QED BY <1>1, <1>2, <1>3, <1>4, <1>5, <1>6 DEF Planned

-----------------------------------------------------------------------------
LEMMA ProgramFacts ==
  /\ \A q : q \in Programs("preimage") <=>
              q \in {"setup", "prove", "verify", "export_vk_raw", "export_proof_raw"}
  /\ \A q : q \in Programs("clear_signing") <=> q \in {"export_artifacts", "export_vk_raw"}
  /\ \A c \in Crates : c = "preimage" \/ c = "clear_signing"
BY DEF Programs, Crates

(* A step that changes no file and adds to since, or leaves it, keeps what *)
(* belongs together together.                                              *)
LEMMA TogetherKept ==
  ASSUME Together, crate \in Crates, UNCHANGED <<crate, file>>,
         DOMAIN since = Programs(crate), DOMAIN since' = Programs(crate),
         \A q \in Programs(crate) : since[q] \subseteq since'[q]
  PROVE  Together'
<1>1. \A q, qs : UpToDate(q, qs)' => UpToDate(q, qs)
  BY DEF UpToDate
<1>2. Paired' /\ Proved' /\ ProofConverted'
  BY <1>1 DEF Together, Paired, Proved, ProofConverted, RustValid, Valid
<1>3. VkConverted' /\ Exported'
  BY <1>1 DEF Together, VkConverted, Exported, RustValid, Valid
<1> QED BY <1>2, <1>3 DEF Together

LEMMA InitHolds == Init => IInv
<1> SUFFICES ASSUME Init PROVE IInv
  OBVIOUS
<1>1. Typed /\ Counted /\ Reading /\ Running
  BY DEF Init, Typed, Counted, Reading, Running
<1>2. CASE file = [f \in Files(crate) |-> Shipped(f)]
  <2>1. crate = "clear_signing" => 
          /\ file["vectors.h"] = <<0, ShippedStatement>> /\ file["vk.h"] = 0
          /\ file["calldata.bin"] = ShippedStatement
    BY <1>2 DEF Files, Frozen, Shipped
  <2>2. /\ file["pk.bin"] = 0 /\ file["vk.bin"] = 0 /\ file["proof.bin"] = <<0, ShippedStatement>>
        /\ file["public_inputs.bin"] = ShippedStatement /\ file["vk_raw.bin"] = 0
        /\ file["proof_raw.bin"] = <<0, ShippedStatement>> /\ file["inputs_raw.bin"] = ShippedStatement
    BY <1>2 DEF Files, Frozen, Shipped
  <2>3. UpToDate("export_artifacts", {"export_artifacts"}) => crate = "clear_signing"
    BY ProgramFacts DEF Init, UpToDate
  <2> QED BY <1>1, <2>1, <2>2, <2>3
          DEF IInv, Together, Paired, Proved, VkConverted, ProofConverted, Exported, RustValid, Valid
<1>3. CASE since = [q \in Programs(crate) |-> Upstream(q)]
  <2>1. /\ ~ UpToDate("setup", {"setup"})
        /\ \A x : ~ UpToDate("export_vk_raw", {x, "export_vk_raw"})
        /\ ~ UpToDate("export_proof_raw", {"prove", "export_proof_raw"})
        /\ ~ UpToDate("export_artifacts", {"export_artifacts"})
    BY <1>3 DEF UpToDate, Upstream
  <2> QED BY <1>1, <2>1 DEF IInv, Together, Paired, Proved, VkConverted, ProofConverted, Exported
<1> QED BY <1>2, <1>3 DEF Init

LEMMA StartKeeps ==
  ASSUME IInv, NEW q \in Programs(crate), NEW s, Start(q, s)
  PROVE  IInv'
<1>1. /\ program' = q /\ mem' = <<>> /\ pc' = "read" /\ UNCHANGED <<crate, file>>
      /\ since' = [p \in Programs(crate) |-> since[p] \cup ({q} \cap Upstream(p))]
  BY DEF Start
<1>2. Typed /\ Together
  BY DEF IInv
<1>3. Typed'
  BY <1>1, <1>2 DEF Typed
<1>4. Counted'
  BY <1>1 DEF Counted
<1>5. Len(Reads(q)) \in Nat
  BY DEF Reads
<1>6. Reading'
  BY <1>1, <1>5 DEF Reading
<1>7. Running'
  BY <1>1 DEF Running
<1>8. Together'
  BY <1>1, <1>2, TogetherKept DEF Typed
<1> QED BY <1>3, <1>4, <1>6, <1>7, <1>8 DEF IInv

LEMMA StopKeeps ==
  ASSUME IInv, Stop, UNCHANGED <<file, since>>
  PROVE  IInv'
<1>1. program' = None /\ mem' = <<>> /\ pc' = "read" /\ UNCHANGED <<crate, file, since>>
  BY DEF Stop
<1>2. Typed /\ Together
  BY DEF IInv
<1>3. Typed' /\ Counted' /\ Reading' /\ Running'
  BY <1>1, <1>2 DEF Typed, Counted, Reading, Running
<1>4. Together'
  BY <1>1, <1>2, TogetherKept DEF Typed
<1> QED BY <1>3, <1>4 DEF IInv

LEMMA ReadsFacts ==
  ASSUME Typed, program # None
  PROVE  /\ Len(Reads(program)) \in Nat
         /\ \A i \in 1 .. Len(Reads(program)) : Reads(program)[i] \in Files(crate)
BY DEF Typed, Reads, Files, Frozen

LEMMA ReadKeeps == ASSUME IInv, Read PROVE IInv'
<1> DEFINE contents == file[Reads(program)[Len(mem) + 1]]
<1>0. Typed /\ Counted /\ Reading /\ Together /\ program # None /\ pc = "read"
  BY DEF IInv, Read
<1>1. CASE Stop /\ UNCHANGED <<file, since>>
  BY <1>1, StopKeeps
<1>2. CASE /\ mem' = Append(mem, contents)
           /\ UNCHANGED <<crate, program, pc, file, since>>
  <2>1. Len(mem) < Len(Reads(program)) /\ Len(mem) \in Nat
    BY <1>0 DEF Read, Typed
  <2>2. contents \in {file[f] : f \in Files(crate)}
    BY <1>0, <2>1, ReadsFacts
  <2>3. /\ mem' \in Seq({file[f] : f \in Files(crate)}) /\ Len(mem') = Len(mem) + 1
        /\ \A i \in 1 .. Len(mem) : mem'[i] = mem[i]
        /\ mem'[Len(mem) + 1] = contents
    BY <1>0, <1>2, <2>2 DEF Typed
  <2>4. Typed'
    BY <1>0, <1>2, <2>3 DEF Typed
  <2>5. Counted' /\ Running'
    BY <1>0, <1>2 DEF Counted, Running
  <2>6. Reading'
    <3>1. \A i \in 1 .. Len(mem) + 1 : mem'[i] = file[Reads(program)[i]]
      BY <1>0, <2>1, <2>3 DEF Reading
    <3> QED BY <3>1, <1>0, <1>2, <2>1, <2>3, ReadsFacts DEF Reading
  <2>7. Together'
    BY <1>0, <1>2, TogetherKept DEF Typed
  <2> QED BY <2>4, <2>5, <2>6, <2>7 DEF IInv
<1> QED BY <1>1, <1>2 DEF Read

LEMMA ComputePlans ==
  ASSUME IInv, Compute
  PROVE  \E w : writes' = w /\ Planned(w)
<1>0. /\ Typed /\ Reading /\ Paired /\ program # None /\ pc = "read"
      /\ Len(mem) = Len(Reads(program))
  BY DEF IInv, Compute, Together
<1> DEFINE W == CASE program = "setup"            -> SetupWrites(key)
                  [] program = "prove"            -> ProveWrites(mem[1], stmt)
                  [] program = "verify"           -> <<>>
                  [] program = "export_vk_raw"    -> VkRawWrites(mem[1])
                  [] program = "export_proof_raw" -> ProofRawWrites(mem[1], mem[2])
                  [] program = "export_artifacts" -> ArtifactsWrites(key, stmt)
<1>1. program \in {"setup", "prove", "verify", "export_vk_raw", "export_proof_raw",
                   "export_artifacts"}
  BY <1>0, ProgramFacts DEF Typed
<1>2. CASE program = "setup"
  <2>1. W = SetupWrites(key)
    BY <1>2
  <2> QED BY <2>1, <1>2 DEF Planned, Compute
<1>3. CASE program = "prove"
  <2>1. mem[1] = file["pk.bin"]
    BY <1>0, <1>3 DEF Reading, Reads
  <2>2. UpToDate("setup", {"setup"}) => mem[1] = file["vk.bin"]
    BY <1>0, <2>1 DEF Paired
  <2>3. W = ProveWrites(mem[1], stmt)
    BY <1>3
  <2>4. Planned(W)
    BY <1>3, <2>2, <2>3 DEF Planned
  <2> QED BY <2>4 DEF Compute
<1>4. CASE program = "verify"
  <2>1. W = <<>>
    BY <1>4
  <2> QED BY <1>4, <2>1 DEF Planned, Compute
<1>5. CASE program = "export_vk_raw"
  <2>1. mem[1] = file["vk.bin"]
    BY <1>0, <1>5 DEF Reading, Reads
  <2>2. W = VkRawWrites(mem[1])
    BY <1>5
  <2> QED BY <1>5, <2>1, <2>2 DEF Planned, Compute
<1>6. CASE program = "export_proof_raw"
  <2>1. Len(mem) = 2
    BY <1>0, <1>6 DEF Reads
  <2>2. Reads(program)[1] = "proof.bin" /\ Reads(program)[2] = "public_inputs.bin"
    BY <1>6 DEF Reads
  <2>3. mem[1] = file["proof.bin"] /\ mem[2] = file["public_inputs.bin"]
    BY <1>0, <2>1, <2>2 DEF Reading
  <2>4. W = ProofRawWrites(mem[1], mem[2])
    BY <1>6
  <2> QED BY <1>6, <2>3, <2>4 DEF Planned, Compute
<1>7. CASE program = "export_artifacts"
  <2>1. W = ArtifactsWrites(key, stmt)
    BY <1>7
  <2> QED BY <1>7, <2>1 DEF Planned, Compute
<1> QED BY <1>1, <1>2, <1>3, <1>4, <1>5, <1>6, <1>7

LEMMA ComputeKeeps == ASSUME IInv, Compute PROVE IInv'
<1>0. Typed /\ Counted /\ Together /\ program # None
  BY DEF IInv, Compute
<1>1. pc' = "truncate" /\ mem' = <<>> /\ UNCHANGED <<crate, file, program, since>>
  BY DEF Compute
<1>2. Typed' /\ Counted' /\ Reading'
  BY <1>0, <1>1 DEF Typed, Counted, Reading
<1>3. Together'
  BY <1>0, <1>1, TogetherKept DEF Typed
<1>4. PICK w : writes' = w /\ Planned(w)
  BY ComputePlans
<1>5. Plan(w)
  BY <1>0, <1>4, PlansAreFine
<1>6. Planned(w)'
  BY <1>1, <1>4 DEF Planned, UpToDate
<1>7. DoneUpTo(w, 0)'
  <2>1. w = [i \in 1 .. Len(w) - 0 |-> w[i + 0]] /\ 0 \in 0 .. Len(w)
    BY <1>5 DEF Plan
  <2> QED BY <1>4, <2>1 DEF DoneUpTo
<1>8. Running'
  BY <1>5, <1>6, <1>7 DEF Running, Plan
<1> QED BY <1>2, <1>3, <1>8 DEF IInv

-----------------------------------------------------------------------------
(* Truncate and Write touch the files of the running program only, and     *)
(* what rests on those is suspended while it runs.                         *)
LEMMA OwnFilesOnly ==
  ASSUME Typed, Counted, Together, program # None, UNCHANGED <<crate, program, since>>,
         NEW f \in Names(program), NEW v, file' = [file EXCEPT ![f] = v]
  PROVE  Together'
<1>1. \A g \in Files(crate) \ Names(program) : file'[g] = file[g]
  BY DEF Typed
<1>2. \A q, qs : UpToDate(q, qs)' <=> UpToDate(q, qs)
  BY DEF UpToDate
<1>3. ASSUME NEW q, NEW qs, program \in Upstream(q), program \in qs PROVE ~ UpToDate(q, qs)
  <2> SUFFICES ASSUME q \in DOMAIN since, since[q] \cap qs = {} PROVE FALSE
    BY DEF UpToDate
  <2>1. q \in Programs(crate)
    BY DEF Typed
  <2> QED BY <1>3, <2>1 DEF Counted
<1>4. CASE program = "setup"
  <2>1. /\ ~ UpToDate("setup", {"setup"}) /\ crate = "preimage"
        /\ ~ UpToDate("export_vk_raw", {"setup", "export_vk_raw"})
        /\ ~ UpToDate("export_artifacts", {"export_artifacts"})
    <3>1. crate = "preimage"
      BY <1>4, ProgramFacts DEF Typed
    <3>2. ~ UpToDate("export_artifacts", {"export_artifacts"})
      BY <3>1, ProgramFacts DEF Typed, UpToDate
    <3>3. program \in Upstream("setup") /\ program \in Upstream("export_vk_raw")
      BY <1>4 DEF Upstream
    <3> QED BY <1>3, <1>4, <3>1, <3>2, <3>3
  <2>2. /\ file'["proof_raw.bin"] = file["proof_raw.bin"] /\ file'["proof.bin"] = file["proof.bin"]
        /\ file'["inputs_raw.bin"] = file["inputs_raw.bin"]
        /\ file'["public_inputs.bin"] = file["public_inputs.bin"]
    BY <1>1, <1>4 DEF Names, Files, Frozen
  <2> QED BY <1>2, <2>1, <2>2 DEF Together, Paired, Proved, VkConverted, ProofConverted, Exported
<1>5. CASE program = "prove"
  <2>1. /\ ~ UpToDate("prove", {"setup", "prove"})
        /\ ~ UpToDate("export_proof_raw", {"prove", "export_proof_raw"})
        /\ ~ UpToDate("export_artifacts", {"export_artifacts"})
    <3>1. crate = "preimage"
      BY <1>5, ProgramFacts DEF Typed
    <3>2. ~ UpToDate("export_artifacts", {"export_artifacts"})
      BY <3>1, ProgramFacts DEF Typed, UpToDate
    <3>3. program \in Upstream("export_proof_raw") /\ (program = "prove" => program \in Upstream("prove"))
      BY <1>5 DEF Upstream
    <3> QED BY <1>3, <1>5, <3>2, <3>3
  <2>2. /\ file'["pk.bin"] = file["pk.bin"] /\ file'["vk.bin"] = file["vk.bin"]
        /\ file'["vk_raw.bin"] = file["vk_raw.bin"]
    BY <1>1, <1>5 DEF Names, Files, Frozen
  <2> QED BY <1>2, <2>1, <2>2 DEF Together, Paired, Proved, VkConverted, ProofConverted, Exported
<1>6. CASE program = "export_vk_raw"
  <2>1. \A x : ~ UpToDate("export_vk_raw", {x, "export_vk_raw"})
    BY <1>3, <1>6 DEF Upstream
  <2>2. /\ file'["pk.bin"] = file["pk.bin"] /\ file'["vk.bin"] = file["vk.bin"]
        /\ file'["proof_raw.bin"] = file["proof_raw.bin"] /\ file'["proof.bin"] = file["proof.bin"]
        /\ file'["inputs_raw.bin"] = file["inputs_raw.bin"]
        /\ file'["public_inputs.bin"] = file["public_inputs.bin"]
    BY <1>1, <1>6 DEF Names, Files, Frozen
  <2>3. crate = "clear_signing" =>
          /\ file'["vectors.h"] = file["vectors.h"] /\ file'["vk.h"] = file["vk.h"]
          /\ file'["calldata.bin"] = file["calldata.bin"]
    BY <1>1, <1>6 DEF Names, Files, Frozen
  <2>4. UpToDate("export_artifacts", {"export_artifacts"}) => crate = "clear_signing"
    BY ProgramFacts DEF UpToDate, Typed
  <2>5. RustValid' <=> RustValid
    BY <2>2 DEF RustValid, Valid
  <2>6. Paired' /\ Proved' /\ ProofConverted'
    BY <1>2, <2>2, <2>5 DEF Together, Paired, Proved, ProofConverted
  <2>7. VkConverted'
    BY <1>2, <2>1 DEF VkConverted
  <2>8. Exported'
    BY <1>2, <2>2, <2>3, <2>4, <2>5 DEF Together, Exported
  <2> QED BY <2>6, <2>7, <2>8 DEF Together
<1>7. CASE program = "export_proof_raw"
  <2>1. /\ ~ UpToDate("export_proof_raw", {"prove", "export_proof_raw"})
        /\ ~ UpToDate("export_artifacts", {"export_artifacts"})
    <3>1. crate = "preimage"
      BY <1>7, ProgramFacts DEF Typed
    <3>2. ~ UpToDate("export_artifacts", {"export_artifacts"})
      BY <3>1, ProgramFacts DEF Typed, UpToDate
    <3>3. program \in Upstream("export_proof_raw") /\ (program = "prove" => program \in Upstream("prove"))
      BY <1>7 DEF Upstream
    <3> QED BY <1>3, <1>7, <3>2, <3>3
  <2>2. /\ file'["pk.bin"] = file["pk.bin"] /\ file'["vk.bin"] = file["vk.bin"]
        /\ file'["vk_raw.bin"] = file["vk_raw.bin"] /\ file'["proof.bin"] = file["proof.bin"]
        /\ file'["public_inputs.bin"] = file["public_inputs.bin"]
    BY <1>1, <1>7 DEF Names, Files, Frozen
  <2>3. RustValid' <=> RustValid
    BY <2>2 DEF RustValid, Valid
  <2> QED BY <1>2, <2>1, <2>2, <2>3
          DEF Together, Paired, Proved, VkConverted, ProofConverted, Exported
<1>8. CASE program = "export_artifacts"
  <2>1. crate = "clear_signing"
    BY <1>8, ProgramFacts DEF Typed
  <2>2. /\ ~ UpToDate("export_artifacts", {"export_artifacts"})
        /\ ~ UpToDate("export_vk_raw", {"export_artifacts", "export_vk_raw"})
        /\ ~ UpToDate("setup", {"setup"})
        /\ ~ UpToDate("export_proof_raw", {"prove", "export_proof_raw"})
    BY <1>3, <1>8, <2>1, ProgramFacts DEF Upstream, Typed, UpToDate
  <2> QED BY <1>2, <2>1, <2>2 DEF Together, Paired, Proved, VkConverted, ProofConverted, Exported
<1>9. program \in {"setup", "prove", "export_vk_raw", "export_proof_raw", "export_artifacts"}
  BY DEF Names
<1> QED BY <1>4, <1>5, <1>6, <1>7, <1>8, <1>9

(* A plan stays the plan: what it was made from is not among its files.    *)
LEMMA PlanStays ==
  ASSUME Typed, NEW w, Planned(w), UNCHANGED <<crate, program, since>>,
         NEW f \in Names(program), NEW v, file' = [file EXCEPT ![f] = v]
  PROVE  Planned(w)'
<1>1. \A g \in Files(crate) \ Names(program) : file'[g] = file[g]
  BY DEF Typed
<1>2. CASE program = "prove"
  <2>1. file'["vk.bin"] = file["vk.bin"]
    BY <1>1, <1>2 DEF Names, Files, Frozen
  <2> QED BY <1>2, <2>1 DEF Planned, UpToDate
<1>3. CASE program = "export_vk_raw"
  <2>1. file'["vk.bin"] = file["vk.bin"]
    BY <1>1, <1>3 DEF Names, Files, Frozen
  <2> QED BY <1>3, <2>1 DEF Planned
<1>4. CASE program = "export_proof_raw"
  <2>1. /\ file'["proof.bin"] = file["proof.bin"]
        /\ file'["public_inputs.bin"] = file["public_inputs.bin"]
    BY <1>1, <1>4 DEF Names, Files, Frozen
  <2> QED BY <1>4, <2>1 DEF Planned
<1>5. CASE program \in {"setup", "verify", "export_artifacts"}
  BY <1>5 DEF Planned
<1> QED BY <1>2, <1>3, <1>4, <1>5 DEF Planned

(* The next write of a plan. *)
LEMMA NextWrite ==
  ASSUME NEW w, Plan(w), NEW j \in 0 .. Len(w), DoneUpTo(w, j), writes # <<>>
  PROVE  /\ j < Len(w) /\ Head(writes) = w[j + 1]
         /\ Tail(writes) = [i \in 1 .. Len(w) - (j + 1) |-> w[i + (j + 1)]]
<1>1. Len(w) \in Nat /\ j \in Nat /\ j <= Len(w)
  BY DEF Plan
<1>2. writes = [i \in 1 .. Len(w) - j |-> w[i + j]]
  BY DEF DoneUpTo
<1>3. j < Len(w)
  <2> SUFFICES ASSUME j = Len(w) PROVE FALSE
    BY <1>1
  <2>1. 1 .. Len(w) - j = {}
    BY <1>1
  <2>2. writes = [i \in {} |-> w[i + j]]
    BY <1>2, <2>1
  <2>3. writes = <<>>
    BY <2>2
  <2> QED BY <2>3
<1> DEFINE S == {w[i] : i \in 1 .. Len(w)}
<1>4. writes \in Seq(S) /\ Len(writes) = Len(w) - j
  <2>1. Len(w) - j \in Nat /\ \A i \in 1 .. Len(w) - j : w[i + j] \in S
    BY <1>1
  <2> HIDE DEF S
  <2> QED BY <1>2, <2>1
<1>5. Head(writes) = w[j + 1]
  <2>1. 1 \in 1 .. Len(w) - j
    BY <1>1, <1>3
  <2>2. writes[1] = w[1 + j] /\ 1 + j = j + 1
    BY <1>1, <1>2, <2>1
  <2>3. Head(writes) = writes[1]
    BY <1>4, HeadTailProperties
  <2> QED BY <2>2, <2>3
<1>6. Tail(writes) = [i \in 1 .. Len(w) - (j + 1) |-> w[i + (j + 1)]]
  <2>1. Tail(writes) \in Seq(S) /\ Len(Tail(writes)) = Len(writes) - 1
        /\ \A i \in 1 .. Len(Tail(writes)) : Tail(writes)[i] = writes[i + 1]
    <3> HIDE DEF S
    <3> QED BY <1>4, HeadTailProperties
  <2>2. Len(Tail(writes)) = Len(w) - (j + 1)
    BY <1>1, <1>4, <2>1
  <2>3. \A i \in 1 .. Len(w) - (j + 1) : Tail(writes)[i] = w[i + (j + 1)]
    <3> SUFFICES ASSUME NEW i \in 1 .. Len(w) - (j + 1)
                 PROVE  Tail(writes)[i] = w[i + (j + 1)]
      OBVIOUS
    <3>1. i + 1 \in 1 .. Len(w) - j /\ (i + 1) + j = i + (j + 1)
      BY <1>1
    <3> QED BY <1>2, <2>1, <2>2, <3>1
  <2>4. Tail(writes) = [i \in 1 .. Len(Tail(writes)) |-> Tail(writes)[i]]
    <3> HIDE DEF S
    <3>1. Tail(writes) \in [1 .. Len(Tail(writes)) -> S]
      BY <2>1, LenProperties
    <3> QED BY <3>1
  <2> QED BY <2>2, <2>3, <2>4
<1> QED BY <1>3, <1>5, <1>6

LEMMA TruncateKeeps == ASSUME IInv, Truncate PROVE IInv'
<1>0. /\ Typed /\ Counted /\ Running /\ Together /\ program # None
      /\ pc = "truncate" /\ writes # <<>>
  BY DEF IInv, Truncate, Typed
<1>1. /\ file' = [file EXCEPT ![Head(writes)[1]] = Torn] /\ pc' = "write"
      /\ UNCHANGED <<crate, program, mem, writes, since>>
  BY DEF Truncate
<1>2. PICK w : Planned(w) /\ \E j \in 0 .. Len(w) : DoneUpTo(w, j)
  BY <1>0 DEF Running
<1>3. Plan(w) /\ Names(program) \subseteq Files(crate)
  BY <1>0, <1>2, PlansAreFine
<1>4. PICK j \in 0 .. Len(w) : DoneUpTo(w, j)
  BY <1>2
<1>5. j < Len(w) /\ Head(writes) = w[j + 1]
  BY <1>0, <1>3, <1>4, NextWrite
<1>6. j \in Nat /\ Len(w) \in Nat /\ j + 1 \in 1 .. Len(w)
  BY <1>3, <1>5 DEF Plan
<1>7. Head(writes)[1] \in Names(program)
  BY <1>3, <1>5, <1>6 DEF Plan
<1>8. Planned(w)'
  BY <1>0, <1>1, <1>2, <1>7, PlanStays
<1>9. DoneUpTo(w, j)'
  <2>1. \A i \in 1 .. j : file'[w[i][1]] = file[w[i][1]]
    <3> SUFFICES ASSUME NEW i \in 1 .. j PROVE file'[w[i][1]] = file[w[i][1]]
      OBVIOUS
    <3>1. i \in 1 .. Len(w) /\ i # j + 1
      BY <1>6
    <3>2. w[i][1] # w[j + 1][1] /\ w[i][1] \in Files(crate)
      BY <1>3, <1>6, <3>1 DEF Plan
    <3> QED BY <1>0, <1>1, <1>5, <3>2 DEF Typed
  <2> QED BY <1>1, <1>4, <2>1 DEF DoneUpTo
<1>10. Running'
  BY <1>8, <1>9, <1>4 DEF Running
<1>11. Together'
  BY <1>0, <1>1, <1>7, OwnFilesOnly
<1>12. Counted' /\ Reading'
  BY <1>0, <1>1 DEF Counted, Reading
<1>13. Typed'
  BY <1>0, <1>1 DEF Typed
<1> QED BY <1>10, <1>11, <1>12, <1>13 DEF IInv

LEMMA WriteKeeps == ASSUME IInv, Write PROVE IInv'
<1>0. Typed /\ Counted /\ Running /\ Together /\ program # None /\ pc = "write" /\ writes # <<>>
  BY DEF IInv, Write, Typed
<1>1. /\ file' = [file EXCEPT ![Head(writes)[1]] = Head(writes)[2]] /\ pc' = "truncate"
      /\ writes' = Tail(writes) /\ UNCHANGED <<crate, program, mem, since>>
  BY DEF Write
<1>2. PICK w : Planned(w) /\ \E j \in 0 .. Len(w) : DoneUpTo(w, j)
  BY <1>0 DEF Running
<1>3. Plan(w) /\ Names(program) \subseteq Files(crate)
  BY <1>0, <1>2, PlansAreFine
<1>4. PICK j \in 0 .. Len(w) : DoneUpTo(w, j)
  BY <1>2
<1>5. /\ j < Len(w) /\ Head(writes) = w[j + 1]
      /\ Tail(writes) = [i \in 1 .. Len(w) - (j + 1) |-> w[i + (j + 1)]]
  BY <1>0, <1>3, <1>4, NextWrite
<1>6. j \in Nat /\ Len(w) \in Nat /\ j + 1 \in 1 .. Len(w)
  BY <1>3, <1>5 DEF Plan
<1>7. Head(writes)[1] \in Names(program)
  BY <1>3, <1>5, <1>6 DEF Plan
<1>8. Planned(w)'
  BY <1>0, <1>1, <1>2, <1>7, PlanStays
<1>9. DoneUpTo(w, j + 1)'
  <2>1. ASSUME NEW i \in 1 .. j + 1 PROVE file'[w[i][1]] = w[i][2]
    <3>1. CASE i = j + 1
      BY <1>0, <1>1, <1>3, <1>5, <1>7, <3>1 DEF Typed
    <3>2. CASE i # j + 1
      <4>1. i \in 1 .. j /\ i \in 1 .. Len(w)
        BY <1>6, <3>2
      <4>2. w[i][1] # w[j + 1][1] /\ w[i][1] \in Files(crate)
        BY <1>3, <1>6, <3>2, <4>1 DEF Plan
      <4>3. file'[w[i][1]] = file[w[i][1]]
        BY <1>0, <1>1, <1>5, <4>2 DEF Typed
      <4> QED BY <1>4, <4>1, <4>3 DEF DoneUpTo
    <3> QED BY <3>1, <3>2
  <2>2. j + 1 \in 0 .. Len(w)
    BY <1>6
  <2> QED BY <1>1, <1>5, <2>1, <2>2 DEF DoneUpTo
<1>10. Running'
  <2>1. j + 1 \in 0 .. Len(w)
    BY <1>6
  <2> QED BY <1>8, <1>9, <2>1 DEF Running
<1>11. Together'
  BY <1>0, <1>1, <1>7, OwnFilesOnly
<1>12. Counted' /\ Reading'
  BY <1>0, <1>1 DEF Counted, Reading
<1>13. Typed'
  BY <1>0, <1>1 DEF Typed
<1> QED BY <1>10, <1>11, <1>12, <1>13 DEF IInv

-----------------------------------------------------------------------------
(* When nothing is left to write, the whole plan is in the files.          *)
LEMMA PlanCarriedOut ==
  ASSUME Typed, Running, pc = "truncate", writes = <<>>
  PROVE  \E w : Planned(w) /\ \A i \in 1 .. Len(w) : file[w[i][1]] = w[i][2]
<1>1. PICK w : Planned(w) /\ \E j \in 0 .. Len(w) : DoneUpTo(w, j)
  BY DEF Running
<1>2. Plan(w)
  BY <1>1, PlansAreFine
<1>3. PICK j \in 0 .. Len(w) : DoneUpTo(w, j)
  BY <1>1
<1>4. Len(w) \in Nat /\ j \in Nat /\ j <= Len(w)
  BY <1>2, <1>3 DEF Plan
<1>5. j = Len(w)
  <2> SUFFICES ASSUME j # Len(w) PROVE FALSE
    OBVIOUS
  <2>1. 1 \in 1 .. Len(w) - j
    BY <1>4
  <2>2. writes = [i \in 1 .. Len(w) - j |-> w[i + j]]
    BY <1>3 DEF DoneUpTo
  <2>3. 1 \in DOMAIN writes
    BY <2>1, <2>2
  <2>4. DOMAIN writes = {}
    OBVIOUS
  <2> QED BY <2>3, <2>4
<1> QED BY <1>1, <1>3, <1>5 DEF DoneUpTo

LEMMA FinishKeeps == ASSUME IInv, Finish PROVE IInv'
<1>0. /\ Typed /\ Counted /\ Running /\ Together /\ program # None
      /\ pc = "truncate" /\ writes = <<>>
  BY DEF IInv, Finish, Typed
<1>1. /\ since' = [since EXCEPT ![program] = {}] /\ program' = None /\ mem' = <<>>
      /\ pc' = "read" /\ UNCHANGED <<crate, file>>
  BY DEF Finish, Stop
<1>2. PICK w : Planned(w) /\ \A i \in 1 .. Len(w) : file[w[i][1]] = w[i][2]
  BY <1>0, PlanCarriedOut
<1>3. Typed' /\ Counted' /\ Reading' /\ Running'
  BY <1>0, <1>1 DEF Typed, Counted, Reading, Running
<1>4. \A q, qs : q # program => (UpToDate(q, qs)' <=> UpToDate(q, qs))
  BY <1>0, <1>1 DEF UpToDate, Typed
<1>5. ASSUME NEW q, NEW qs, q # program, program \in Upstream(q), program \in qs
      PROVE  ~ UpToDate(q, qs)'
  <2> SUFFICES ASSUME q \in DOMAIN since, since[q] \cap qs = {} PROVE FALSE
    BY <1>4, <1>5 DEF UpToDate
  <2>1. q \in Programs(crate)
    BY <1>0 DEF Typed
  <2> QED BY <1>0, <1>5, <2>1 DEF Counted
<1>6. RustValid' <=> RustValid
  BY <1>1 DEF RustValid, Valid
<1>7. CASE program = "setup"
  <2>1. PICK k : w = SetupWrites(k)
    BY <1>2, <1>7 DEF Planned
  <2>2. Len(w) = 2 /\ w[1] = <<"pk.bin", k>> /\ w[2] = <<"vk.bin", k>>
    BY <2>1 DEF SetupWrites
  <2>3. file["pk.bin"] = file["vk.bin"]
    BY <1>2, <2>2
  <2>4. ~ UpToDate("prove", {"setup", "prove"})' /\ crate = "preimage"
    BY <1>0, <1>5, <1>7, ProgramFacts DEF Upstream, Typed
  <2>5. ~ UpToDate("export_vk_raw", {"setup", "export_vk_raw"})'
    BY <1>5, <1>7 DEF Upstream
  <2>6. Paired' /\ Proved'
    BY <1>1, <2>3, <2>4 DEF Paired, Proved
  <2>7. VkConverted'
    BY <1>1, <2>4, <2>5 DEF VkConverted
  <2>8. ProofConverted' /\ Exported'
    BY <1>0, <1>1, <1>4, <1>6, <1>7 DEF Together, ProofConverted, Exported
  <2> QED BY <1>3, <2>6, <2>7, <2>8 DEF IInv, Together
<1>8. CASE program = "prove"
  <2>1. PICK k, s : /\ w = ProveWrites(k, s)
                    /\ UpToDate("setup", {"setup"}) => k = file["vk.bin"]
    BY <1>2, <1>8 DEF Planned
  <2>2. Len(w) = 2 /\ w[1] = <<"proof.bin", <<k, s>>>> /\ w[2] = <<"public_inputs.bin", s>>
    BY <2>1 DEF ProveWrites
  <2>3. file["proof.bin"] = <<k, s>> /\ file["public_inputs.bin"] = s
    BY <1>2, <2>2
  <2>4. UpToDate("setup", {"setup"}) => RustValid
    BY <2>1, <2>3 DEF RustValid, Valid
  <2>5. ~ UpToDate("export_proof_raw", {"prove", "export_proof_raw"})'
    BY <1>5, <1>8 DEF Upstream
  <2>6. Paired' /\ Proved' /\ VkConverted'
    BY <1>0, <1>1, <1>4, <1>6, <1>8, <2>4 DEF Together, Paired, Proved, VkConverted
  <2>7. ProofConverted' /\ Exported'
    BY <1>0, <1>1, <1>4, <1>6, <1>8, <2>5 DEF Together, ProofConverted, Exported
  <2> QED BY <1>3, <2>6, <2>7 DEF IInv, Together
<1>9. CASE program = "verify"
  <2>1. Paired' /\ Proved' /\ VkConverted' /\ ProofConverted' /\ Exported'
    BY <1>0, <1>1, <1>4, <1>6, <1>9
       DEF Together, Paired, Proved, VkConverted, ProofConverted, Exported
  <2> QED BY <1>3, <2>1 DEF IInv, Together
<1>10. CASE program = "export_vk_raw"
  <2>1. w = VkRawWrites(file["vk.bin"])
    BY <1>2, <1>10 DEF Planned
  <2>2. Len(w) = 1 /\ w[1] = <<"vk_raw.bin", file["vk.bin"]>>
    BY <2>1 DEF VkRawWrites
  <2>3. file["vk_raw.bin"] = file["vk.bin"]
    BY <1>2, <2>2
  <2>4. VkConverted'
    BY <1>1, <2>3 DEF VkConverted
  <2>5. Paired' /\ Proved' /\ ProofConverted' /\ Exported'
    BY <1>0, <1>1, <1>4, <1>6, <1>10 DEF Together, Paired, Proved, ProofConverted, Exported
  <2> QED BY <1>3, <2>4, <2>5 DEF IInv, Together
<1>11. CASE program = "export_proof_raw"
  <2>1. w = ProofRawWrites(file["proof.bin"], file["public_inputs.bin"])
    BY <1>2, <1>11 DEF Planned
  <2>2. /\ Len(w) = 2 /\ w[1] = <<"proof_raw.bin", file["proof.bin"]>>
        /\ w[2] = <<"inputs_raw.bin", file["public_inputs.bin"]>>
    BY <2>1 DEF ProofRawWrites
  <2>3. /\ file["proof_raw.bin"] = file["proof.bin"]
        /\ file["inputs_raw.bin"] = file["public_inputs.bin"]
    BY <1>2, <2>2
  <2>4. ProofConverted'
    BY <1>1, <2>3 DEF ProofConverted
  <2>5. Paired' /\ Proved' /\ VkConverted' /\ Exported'
    BY <1>0, <1>1, <1>4, <1>6, <1>11 DEF Together, Paired, Proved, VkConverted, Exported
  <2> QED BY <1>3, <2>4, <2>5 DEF IInv, Together
<1>12. CASE program = "export_artifacts"
  <2>1. PICK k, s : w = ArtifactsWrites(k, s)
    BY <1>2, <1>12 DEF Planned
  <2>2. /\ Len(w) = 10
        /\ w[1] = <<"pk.bin", k>> /\ w[2] = <<"vk.bin", k>>
        /\ w[3] = <<"proof.bin", <<k, s>>>> /\ w[4] = <<"public_inputs.bin", s>>
        /\ w[5] = <<"proof_raw.bin", <<k, s>>>> /\ w[6] = <<"calldata.bin", s>>
        /\ w[7] = <<"text.bin", s>> /\ w[8] = <<"inputs_raw.bin", s>>
        /\ w[9] = <<"vk.h", k>> /\ w[10] = <<"vectors.h", <<k, s>>>>
    BY <2>1, ArtifactsList
  <2>3. /\ file["vk.bin"] = k /\ file["proof.bin"] = <<k, s>> /\ file["public_inputs.bin"] = s
        /\ file["proof_raw.bin"] = <<k, s>> /\ file["calldata.bin"] = s
        /\ file["inputs_raw.bin"] = s /\ file["vk.h"] = k /\ file["vectors.h"] = <<k, s>>
    <3>1. \A i \in 1 .. 10 : file[w[i][1]] = w[i][2]
      BY <1>2, <2>2
    <3>2. /\ file[w[2][1]] = w[2][2] /\ file[w[3][1]] = w[3][2] /\ file[w[4][1]] = w[4][2]
          /\ file[w[5][1]] = w[5][2] /\ file[w[6][1]] = w[6][2] /\ file[w[8][1]] = w[8][2]
          /\ file[w[9][1]] = w[9][2] /\ file[w[10][1]] = w[10][2]
      BY <3>1
    <3> QED BY <2>2, <3>2
  <2>4. RustValid
    BY <2>3 DEF RustValid, Valid
  <2>5. Exported'
    BY <1>1, <1>6, <2>3, <2>4 DEF Exported
  <2>6. crate = "clear_signing"
    BY <1>0, <1>12, ProgramFacts DEF Typed
  <2>7. ~ UpToDate("export_vk_raw", {"export_artifacts", "export_vk_raw"})'
    BY <1>5, <1>12 DEF Upstream
  <2>8. VkConverted'
    BY <1>1, <2>6, <2>7 DEF VkConverted
  <2>9. Paired' /\ Proved' /\ ProofConverted'
    BY <1>0, <1>1, <1>4, <1>6, <1>12 DEF Together, Paired, Proved, ProofConverted
  <2> QED BY <1>3, <2>5, <2>8, <2>9 DEF IInv, Together
<1> QED BY <1>2, <1>7, <1>8, <1>9, <1>10, <1>11, <1>12 DEF Planned

LEMMA StepHolds == IInv /\ [Next]_vars => IInv'
<1> SUFFICES ASSUME IInv, [Next]_vars PROVE IInv'
  OBVIOUS
<1>1. ASSUME NEW q \in Programs(crate), NEW s \in Arguments(q), Start(q, s) PROVE IInv'
  BY <1>1, StartKeeps
<1>2. CASE Read
  BY <1>2, ReadKeeps
<1>3. CASE Compute
  BY <1>3, ComputeKeeps
<1>4. CASE Truncate
  BY <1>4, TruncateKeeps
<1>5. CASE Write
  BY <1>5, WriteKeeps
<1>6. CASE Finish
  BY <1>6, FinishKeeps
<1>7. CASE Die
  BY <1>7, StopKeeps DEF Die
<1>8. CASE UNCHANGED vars
  <2>1. UNCHANGED <<crate, file, program, mem, writes, pc, since>>
    BY <1>8 DEF vars
  <2>2. Typed' /\ Counted' /\ Reading'
    BY <2>1 DEF IInv, Typed, Counted, Reading
  <2>3. Running'
    <3>1. \A w : Planned(w) => Planned(w)'
      BY <2>1 DEF Planned, UpToDate
    <3>2. \A w, j : DoneUpTo(w, j) => DoneUpTo(w, j)'
      BY <2>1 DEF DoneUpTo
    <3> QED BY <2>1, <3>1, <3>2 DEF IInv, Running
  <2>4. Together'
    BY <2>1, TogetherKept DEF IInv, Typed
  <2> QED BY <2>2, <2>3, <2>4 DEF IInv
<1> QED BY <1>1, <1>2, <1>3, <1>4, <1>5, <1>6, <1>7, <1>8 DEF Next

(* The strengthened invariant of artifacts/ holds, whoever is killed when. *)
THEOREM Invariance == Spec => []IInv
<1>1. Init => IInv
  BY InitHolds
<1>2. IInv /\ [Next]_vars => IInv'
  BY StepHolds
<1> QED BY <1>1, <1>2, PTL DEF Spec

(* The programs run to their ends in the README's order leave a set that   *)
(* Rust and C verify.                                                      *)
THEOREM FreshSets == Spec => []FreshSetVerifies
<1>1. IInv => FreshSetVerifies
  <2> SUFFICES ASSUME IInv PROVE FreshSetVerifies
    OBVIOUS
  <2>1. Typed /\ Proved /\ VkConverted /\ ProofConverted /\ Exported
    BY DEF IInv, Together
  <2>2. crate = "preimage" \/ crate = "clear_signing"
    BY <2>1, ProgramFacts DEF Typed
  <2>3. UpToDate("setup", {"setup"}) => crate = "preimage"
    BY <2>1, <2>2, ProgramFacts DEF UpToDate, Typed
  <2>4. UpToDate("export_artifacts", {"export_artifacts"}) => crate = "clear_signing"
    BY <2>1, <2>2, ProgramFacts DEF UpToDate, Typed
  <2>5. UpToDate("export_proof_raw", {"setup", "prove", "export_proof_raw"})
          => UpToDate("export_proof_raw", {"prove", "export_proof_raw"})
    BY DEF UpToDate
  <2>6. /\ UpToDate("setup", {"setup"}) /\ UpToDate("prove", {"setup", "prove"})
        /\ UpToDate("export_vk_raw", {"setup", "export_vk_raw"})
        /\ UpToDate("export_proof_raw", {"setup", "prove", "export_proof_raw"})
        => RawValid
    BY <2>1, <2>3, <2>5 DEF Proved, VkConverted, ProofConverted, RustValid, RawValid, Valid
  <2>7. UpToDate("export_artifacts", {"export_artifacts"}) =>
          /\ RustValid
          /\ file["vectors.h"] = <<file["vk.h"], file["calldata.bin"]>>
          /\ UpToDate("export_vk_raw", {"export_artifacts", "export_vk_raw"}) => RawValid
    BY <2>1, <2>4 DEF Exported, VkConverted, RustValid, RawValid, Valid
  <2> QED BY <2>1, <2>6, <2>7 DEF FreshSetVerifies, Proved
<1> QED BY <1>1, Invariance, PTL

(* Converted files are judged as their sources are.                        *)
THEOREM SameJudgement == Spec => []RustAndCAgree
<1>1. IInv => RustAndCAgree
  <2> SUFFICES ASSUME IInv,
                      UpToDate("export_vk_raw", {"setup", "export_vk_raw"}),
                      UpToDate("export_proof_raw", {"prove", "export_proof_raw"})
               PROVE  RustValid = RawValid
    BY DEF RustAndCAgree
  <2>1. Typed /\ VkConverted /\ ProofConverted
    BY DEF IInv, Together
  <2>2. crate = "preimage"
    BY <2>1, ProgramFacts DEF UpToDate, Typed
  <2>3. /\ file["vk_raw.bin"] = file["vk.bin"] /\ file["proof_raw.bin"] = file["proof.bin"]
        /\ file["inputs_raw.bin"] = file["public_inputs.bin"]
    BY <2>1, <2>2 DEF VkConverted, ProofConverted
  <2> QED BY <2>3 DEF RustValid, RawValid, Valid
<1> QED BY <1>1, Invariance, PTL
-----------------------------------------------------------------------------
(* What the files, the programs' memory and their plans hold.              *)
Entries(c) == UNION {{f} \X Contents(f) : f \in Files(c)}

Kinds ==
  /\ \A f \in Files(crate) : file[f] \in Contents(f) \cup {Missing, Torn}
  /\ key \in Keys /\ setups \in Keys
  /\ program # None /\ pc = "read" => stmt \in Facts
  /\ program = None => mem = <<>>
  /\ \A k \in 1 .. Len(mem) : mem[k] \in Contents(Reads(program)[k])
  /\ writes \in Seq(Entries(crate))

LEMMA EntryOf ==
  ASSUME NEW c, NEW f \in Files(c), NEW v \in Contents(f)
  PROVE  <<f, v>> \in Entries(c)
BY DEF Entries

LEMMA EntryFacts ==
  ASSUME NEW c, NEW e \in Entries(c)
  PROVE  e[1] \in Files(c) /\ e[2] \in Contents(e[1])
BY DEF Entries

LEMMA KindsInit == Init => Kinds
<1> SUFFICES ASSUME Init PROVE Kinds
  OBVIOUS
<1>1. 0 \in Keys /\ ShippedStatement \in Facts
  BY ContentsAssumption DEF Keys, Facts
<1>2. \A f : Shipped(f) \in Contents(f)
  BY <1>1 DEF Shipped, Contents
<1>3. \A f \in Files(crate) : file[f] \in Contents(f) \cup {Missing, Torn}
  BY <1>2 DEF Init
<1>4. writes \in Seq(Entries(crate)) /\ Len(mem) = 0
  BY DEF Init
<1> QED BY <1>1, <1>3, <1>4 DEF Init, Kinds

LEMMA KindsCompute ==
  ASSUME IInv, Kinds, Compute
  PROVE  writes' \in Seq(Entries(crate))
<1>0. /\ Typed /\ program # None /\ pc = "read" /\ Len(mem) = Len(Reads(program))
      /\ key \in Keys /\ stmt \in Facts
      /\ \A k \in 1 .. Len(mem) : mem[k] \in Contents(Reads(program)[k])
  BY DEF IInv, Kinds, Compute
<1>1. program \in {"setup", "prove", "verify", "export_vk_raw", "export_proof_raw",
                   "export_artifacts"}
  BY <1>0, ProgramFacts DEF Typed
<1>2. ASSUME NEW f \in {"pk.bin", "vk.bin", "vk_raw.bin", "vk.h"}, NEW k \in Keys, f \in Files(crate)
      PROVE  <<f, k>> \in Entries(crate)
  BY <1>2, EntryOf DEF Contents
<1>3. ASSUME NEW f \in {"proof.bin", "proof_raw.bin", "vectors.h"}, NEW v \in Keys \X Facts,
             f \in Files(crate)
      PROVE  <<f, v>> \in Entries(crate)
  <2>1. Contents(f) = Keys \X Facts
    BY DEF Contents
  <2> QED BY <1>3, <2>1, EntryOf
<1>4. ASSUME NEW f \in {"public_inputs.bin", "inputs_raw.bin", "calldata.bin", "text.bin"},
             NEW s \in Facts, f \in Files(crate)
      PROVE  <<f, s>> \in Entries(crate)
  BY <1>4, EntryOf DEF Contents
<1>5. {"pk.bin", "vk.bin", "proof.bin", "public_inputs.bin", "vk_raw.bin", "proof_raw.bin",
       "inputs_raw.bin"} \subseteq Files(crate)
  BY DEF Files, Frozen
<1>6. CASE program = "setup"
  <2>1. writes' = SetupWrites(key)
    BY <1>6 DEF Compute
  <2>2. <<"pk.bin", key>> \in Entries(crate) /\ <<"vk.bin", key>> \in Entries(crate)
    BY <1>0, <1>2, <1>5
  <2> QED BY <2>1, <2>2 DEF SetupWrites
<1>7. CASE program = "prove"
  <2>1. writes' = ProveWrites(mem[1], stmt)
    BY <1>7 DEF Compute
  <2>2. Reads(program) = <<"pk.bin">> /\ Len(mem) = 1
    BY <1>0, <1>7 DEF Reads
  <2>3. mem[1] \in Keys
    BY <1>0, <2>2 DEF Contents
  <2>4. <<mem[1], stmt>> \in Keys \X Facts
    BY <1>0, <2>3
  <2>5. <<"proof.bin", <<mem[1], stmt>>>> \in Entries(crate)
        /\ <<"public_inputs.bin", stmt>> \in Entries(crate)
    BY <1>0, <1>3, <1>4, <1>5, <2>4
  <2> QED BY <2>1, <2>5 DEF ProveWrites
<1>8. CASE program = "verify"
  BY <1>8 DEF Compute
<1>9. CASE program = "export_vk_raw"
  <2>1. writes' = VkRawWrites(mem[1])
    BY <1>9 DEF Compute
  <2>2. Reads(program) = <<"vk.bin">> /\ Len(mem) = 1
    BY <1>0, <1>9 DEF Reads
  <2>3. mem[1] \in Keys
    BY <1>0, <2>2 DEF Contents
  <2>4. <<"vk_raw.bin", mem[1]>> \in Entries(crate)
    BY <1>2, <1>5, <2>3
  <2> QED BY <2>1, <2>4 DEF VkRawWrites
<1>10. CASE program = "export_proof_raw"
  <2>1. writes' = ProofRawWrites(mem[1], mem[2])
    BY <1>10 DEF Compute
  <2>2. Reads(program) = <<"proof.bin", "public_inputs.bin">> /\ Len(mem) = 2
    BY <1>0, <1>10 DEF Reads
  <2>3. mem[1] \in Keys \X Facts /\ mem[2] \in Facts
    BY <1>0, <2>2 DEF Contents
  <2>4. <<"proof_raw.bin", mem[1]>> \in Entries(crate) /\ <<"inputs_raw.bin", mem[2]>> \in Entries(crate)
    BY <1>3, <1>4, <1>5, <2>3
  <2> QED BY <2>1, <2>4 DEF ProofRawWrites
<1>11. CASE program = "export_artifacts"
  <2> DEFINE w == ArtifactsWrites(key, stmt)
  <2>1. writes' = w
    BY <1>11 DEF Compute
  <2>2. crate = "clear_signing"
    BY <1>0, <1>11, NoneAssumption DEF Typed, Crates, Programs
  <2>3. {"calldata.bin", "text.bin", "vk.h", "vectors.h"} \subseteq Files(crate)
    BY <2>2 DEF Files
  <2>4. <<key, stmt>> \in Keys \X Facts
    BY <1>0
  <2>5. /\ Len(w) = 10 /\ w = [i \in 1 .. 10 |-> w[i]]
        /\ w[1] = <<"pk.bin", key>> /\ w[2] = <<"vk.bin", key>>
        /\ w[3] = <<"proof.bin", <<key, stmt>>>> /\ w[4] = <<"public_inputs.bin", stmt>>
        /\ w[5] = <<"proof_raw.bin", <<key, stmt>>>> /\ w[6] = <<"calldata.bin", stmt>>
        /\ w[7] = <<"text.bin", stmt>> /\ w[8] = <<"inputs_raw.bin", stmt>>
        /\ w[9] = <<"vk.h", key>> /\ w[10] = <<"vectors.h", <<key, stmt>>>>
    BY ArtifactsList
  <2> HIDE DEF w
  <2>6. /\ w[1] \in Entries(crate) /\ w[2] \in Entries(crate) /\ w[9] \in Entries(crate)
    BY <1>0, <1>2, <1>5, <2>3, <2>5
  <2>7. /\ w[3] \in Entries(crate) /\ w[5] \in Entries(crate) /\ w[10] \in Entries(crate)
    BY <1>3, <1>5, <2>3, <2>4, <2>5
  <2>8. /\ w[4] \in Entries(crate) /\ w[6] \in Entries(crate) /\ w[7] \in Entries(crate)
        /\ w[8] \in Entries(crate)
    BY <1>0, <1>4, <1>5, <2>3, <2>5
  <2>9. \A i \in 1 .. 10 : i = 1 \/ i = 2 \/ i = 3 \/ i = 4 \/ i = 5 \/ i = 6 \/ i = 7 \/ i = 8
                            \/ i = 9 \/ i = 10
    OBVIOUS
  <2>10. \A i \in 1 .. 10 : w[i] \in Entries(crate)
    BY <2>6, <2>7, <2>8, <2>9
  <2> DEFINE E == Entries(crate)
  <2>11. w \in [1 .. 10 -> E]
    BY <2>5, <2>10
  <2> HIDE DEF E
  <2>12. w \in Seq(E)
    BY <2>11, SeqDef, 10 \in Nat
  <2>13. writes' \in Seq(E)
    BY <2>1, <2>12
  <2> QED BY <2>13, Zenon DEF E
<1> QED BY <1>1, <1>6, <1>7, <1>8, <1>9, <1>10, <1>11

LEMMA KindsKept == IInv /\ Kinds /\ [Next]_vars => Kinds'
<1> SUFFICES ASSUME IInv, Kinds, [Next]_vars PROVE Kinds'
  OBVIOUS
<1>0. Typed /\ Reading
  BY DEF IInv
<1>1. ASSUME NEW q \in Programs(crate), NEW s \in Arguments(q), Start(q, s) PROVE Kinds'
  <2>1. s \in Facts
    BY DEF Arguments, Facts
  <2>2. setups' \in Keys /\ key' \in Keys
    BY <1>1, ContentsAssumption DEF Start, Kinds, Keys
  <2>3. writes' \in Seq(Entries(crate')) /\ Len(mem') = 0
    BY <1>1 DEF Start
  <2> QED BY <1>1, <2>1, <2>2, <2>3 DEF Start, Kinds
<1>2. ASSUME Stop, UNCHANGED file PROVE Kinds'
  <2>1. writes' \in Seq(Entries(crate')) /\ Len(mem') = 0 /\ program' = None
    BY <1>2 DEF Stop
  <2>2. key' \in Keys
    BY <1>2, ContentsAssumption DEF Stop, Keys
  <2> QED BY <1>2, <2>1, <2>2 DEF Stop, Kinds
<1>3. CASE Read
  <2> DEFINE f == Reads(program)[Len(mem) + 1]
             contents == file[f]
  <2>1. CASE Stop
    BY <1>2, <1>3, <2>1 DEF Read
  <2>2. CASE ~ Stop
    <3>1. /\ mem' = Append(mem, contents) /\ Readable(contents)
          /\ UNCHANGED <<crate, program, stmt, key, writes, pc, setups, file>>
      BY <1>3, <2>2 DEF Read
    <3>2. /\ program # None /\ Len(mem) < Len(Reads(program)) /\ mem \in Seq({file[g] : g \in Files(crate)})
      BY <1>0, <1>3 DEF Read, Typed
    <3>3. f \in Files(crate)
      BY <1>0, <3>2, ReadsFacts
    <3>4. contents \in Contents(f)
      BY <3>1, <3>3 DEF Kinds, Readable
    <3> HIDE DEF f, contents
    <3>5. /\ Len(mem') = Len(mem) + 1 /\ mem'[Len(mem) + 1] = contents /\ Len(mem) \in Nat
          /\ \A k \in 1 .. Len(mem) : mem'[k] = mem[k]
      BY <3>1, <3>2
    <3>6. \A k \in 1 .. Len(mem') : mem'[k] \in Contents(Reads(program)[k])
      <4> SUFFICES ASSUME NEW k \in 1 .. Len(mem) + 1 PROVE mem'[k] \in Contents(Reads(program)[k])
        BY <3>5
      <4>1. CASE k = Len(mem) + 1
        BY <3>4, <3>5, <4>1 DEF f
      <4>2. CASE k # Len(mem) + 1
        <5>1. k \in 1 .. Len(mem)
          BY <3>5, <4>2
        <5> QED BY <3>5, <5>1 DEF Kinds
      <4> QED BY <4>1, <4>2
    <3>7. writes' \in Seq(Entries(crate'))
      BY <3>1 DEF Kinds
    <3>8. program' # None
      BY <3>1, <3>2
    <3> QED BY <3>1, <3>6, <3>7, <3>8 DEF Kinds
  <2> QED BY <2>1, <2>2
<1>4. CASE Compute
  <2>1. writes' \in Seq(Entries(crate))
    BY <1>4, KindsCompute
  <2>2. key' \in Keys /\ pc' = "truncate" /\ Len(mem') = 0 /\ UNCHANGED <<crate, file, setups>>
    BY <1>4, ContentsAssumption DEF Compute, Keys
  <2> QED BY <2>1, <2>2 DEF Kinds
<1>5. CASE Truncate
  <2>1. /\ file' = [file EXCEPT ![Head(writes)[1]] = Torn] /\ pc' = "write"
        /\ UNCHANGED <<crate, program, stmt, key, mem, writes, setups>>
    BY <1>5 DEF Truncate
  <2>2. \A g \in Files(crate) : file'[g] \in Contents(g) \cup {Missing, Torn}
    BY <1>0, <2>1 DEF Kinds, Typed
  <2> QED BY <2>1, <2>2 DEF Kinds
<1>6. CASE Write
  <2> DEFINE e == Head(writes)
  <2>1. /\ file' = [file EXCEPT ![e[1]] = e[2]] /\ writes' = Tail(writes) /\ pc' = "truncate"
        /\ UNCHANGED <<crate, program, stmt, key, mem, setups>>
    BY <1>6 DEF Write
  <2>2. writes \in Seq(Entries(crate)) /\ writes # <<>>
    BY <1>0, <1>6 DEF Write, Typed, Kinds
  <2>3. e \in Entries(crate) /\ Tail(writes) \in Seq(Entries(crate))
    BY <2>2
  <2> HIDE DEF e
  <2>4. e[1] \in Files(crate) /\ e[2] \in Contents(e[1])
    BY <2>3, EntryFacts
  <2>5. \A g \in Files(crate) : file'[g] \in Contents(g) \cup {Missing, Torn}
    BY <1>0, <2>1, <2>4 DEF Kinds, Typed
  <2> QED BY <2>1, <2>3, <2>5 DEF Kinds
<1>7. CASE Finish
  BY <1>2, <1>7 DEF Finish
<1>8. CASE Die
  BY <1>2, <1>8 DEF Die
<1>9. CASE UNCHANGED vars
  BY <1>9 DEF vars, Kinds
<1> QED BY <1>1, <1>3, <1>4, <1>5, <1>6, <1>7, <1>8, <1>9 DEF Next

(* Nothing is computed from a file that is missing or cut short, and what  *)
(* is still to be written is whole, for any number of setups.              *)
THEOREM TypeCorrect == Spec => []TypeOK
<1>1. IInv /\ Kinds => TypeOK
  <2> SUFFICES ASSUME IInv, Kinds PROVE TypeOK
    OBVIOUS
  <2>0. Typed /\ Reading
    BY DEF IInv
  <2>1. \A f \in Files(crate) : Missing \notin Contents(f) /\ Torn \notin Contents(f)
    BY <2>0, ContentsAssumption DEF Typed
  <2>2. ASSUME NEW k \in DOMAIN mem PROVE mem[k] \notin {Missing, Torn}
    <3>1. mem \in Seq({file[f] : f \in Files(crate)})
      BY <2>0 DEF Typed
    <3>2. k \in 1 .. Len(mem) /\ Len(mem) \in Nat
      BY <3>1
    <3>3. mem[k] \in Contents(Reads(program)[k])
      BY <3>2 DEF Kinds
    <3>4. program # None
      BY <3>2 DEF Kinds
    <3>5. pc = "read"
      BY <2>0, <3>2 DEF Typed
    <3>6. Reads(program)[k] \in Files(crate)
      <4>1. Len(mem) <= Len(Reads(program)) /\ Len(Reads(program)) \in Nat
        BY <2>0, <3>4, <3>5, ReadsFacts DEF Reading
      <4>2. k \in 1 .. Len(Reads(program))
        BY <3>2, <4>1
      <4> QED BY <2>0, <3>4, <4>2, ReadsFacts
    <3> QED BY <2>1, <3>3, <3>6
  <2>3. ASSUME NEW k \in DOMAIN writes
        PROVE  writes[k][1] \in Files(crate) /\ writes[k][2] \notin {Missing, Torn}
    <3>1. writes \in Seq(Entries(crate))
      BY DEF Kinds
    <3>2. writes[k] \in Entries(crate)
      BY <3>1
    <3> QED BY <2>1, <3>2, EntryFacts
  <2>4. DOMAIN file = Files(crate) /\ setups \in 0 .. MaxSetups
    BY <2>0 DEF Typed, Kinds, Keys
  <2> QED BY <2>0, <2>2, <2>3, <2>4 DEF TypeOK, Typed
<1> QED BY <1>1, InitHolds, StepHolds, KindsInit, KindsKept, PTL DEF Spec
=============================================================================
