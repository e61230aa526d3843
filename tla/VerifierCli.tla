---------------------------- MODULE VerifierCli ----------------------------
(***************************************************************************)
(* The two file-driven verifiers of minimal_c_verifier: clear_signing_cli  *)
(* hashes the call data and the text itself, poseidon_preimage_cli takes   *)
(* its public input from a file.  Every library call may fail.             *)
(***************************************************************************)
EXTENDS Integers, Sequences

CONSTANTS
  Missing,            (* a path that cannot be opened                       *)
  NULL,
  FilesOf(_, _),      (* bound: what a program may find at an argument: a   *)
                      (* record of length and contents, or Missing          *)
  Hash(_),            (* poseidon_hash_bytes and fr_to_be                   *)
  Verify(_, _, _)     (* groth16_verify_vk: 1, 0 or -1                      *)

Programs == {"clear_signing_cli", "poseidon_preimage_cli"}

(* argv[1], argv[2], ... *)
Roles(prog) == IF prog = "clear_signing_cli" THEN <<"vk", "proof", "calldata", "text">>
                                             ELSE <<"vk", "proof", "public_input">>

VK_RAW_LEN(prog) == IF prog = "clear_signing_cli" THEN 832 ELSE 768

(* The length a file must have; any will do for call data and text. *)
HasLength(prog, role, len) ==
  CASE role = "vk"           -> len = VK_RAW_LEN(prog)
    [] role = "proof"        -> len = 256
    [] role = "public_input" -> len = 32
    [] OTHER                 -> TRUE

Nothing == "nothing"     \* the contents of zero bytes

(* What the arguments of a run may name. *)
Starts(pr) ==
  {f \in [1 .. Len(Roles(pr)) -> UNION {FilesOf(pr, Roles(pr)[k]) : k \in DOMAIN Roles(pr)}] :
     \A k \in DOMAIN f : f[k] \in FilesOf(pr, Roles(pr)[k])}

(* pi: the hashes of what was loaded, or the loaded input. *)
PublicInput(pr, b) == IF pr = "clear_signing_cli" THEN <<Hash(b[3]), Hash(b[4])>> ELSE <<b[3]>>

Contents(f) == [k \in DOMAIN f |-> f[k].data]

ASSUME CliAssumption ==
  /\ NULL # Nothing /\ NULL \notin 0 .. 2
  /\ \A pr \in Programs : \A f \in Starts(pr) :
       /\ \A k \in DOMAIN f : f[k] # Missing => f[k].len \in Nat /\ f[k].data # NULL
       /\ (\A k \in DOMAIN f : f[k] # Missing) =>
            Verify(f[1].data, f[2].data, PublicInput(pr, Contents(f))) \in {-1, 0, 1}

VARIABLES
  prog, argc_ok, files,    (* how the program was started                   *)
  place,                   (* where main or load_file is                    *)
  nth,                     (* the file being loaded                         *)
  handle, size, rewound,   (* load_file: FILE, size, position at the start  *)
  buf,                     (* load_file: the buffer's contents, or NULL     *)
  bufs, lens,              (* the loaded files                              *)
  lib,                     (* RELIC is initialised                          *)
  r, printed, exit,
  failed                   (* history: a library call failed                *)

start   == <<prog, argc_ok, files>>
loader  == <<handle, size, rewound, buf>>
loaded  == <<bufs, lens>>
cliVars == <<start, place, nth, loader, loaded, lib, r, printed, exit, failed>>

Checked == prog = "clear_signing_cli"     \* its load_file checks every call

CliInit ==
  /\ prog \in Programs /\ argc_ok \in BOOLEAN
  /\ files \in Starts(prog)
  /\ place = "usage" /\ nth = 1
  /\ handle = FALSE /\ size = 0 /\ rewound = TRUE /\ buf = NULL
  /\ bufs = <<>> /\ lens = <<>> /\ lib = FALSE
  /\ r = -1 /\ printed = "" /\ exit = NULL /\ failed = FALSE

Exit(code) == place' = "exited" /\ exit' = code

Usage ==
  /\ place = "usage"
  /\ IF argc_ok THEN place' = "open" /\ UNCHANGED exit ELSE Exit(2)
  /\ UNCHANGED <<start, nth, loader, loaded, lib, r, printed, failed>>

-----------------------------------------------------------------------------
(* load_file *)

(* Return b with *len = l: on to the next file, or to main's checks. *)
Return(b, l) ==
  /\ bufs' = Append(bufs, b) /\ lens' = Append(lens, l)
  /\ nth' = nth + 1 /\ buf' = NULL
  /\ place' = IF nth + 1 > Len(files) THEN "check" ELSE "open"

(* Mutant: return without fclose. *)
LeftOpen == handle

Closed == FALSE

(* fclose(f); return NULL *)
Abandon == handle' = Closed /\ Return(NULL, 0) /\ failed' = TRUE /\ UNCHANGED <<size, rewound>>

Open ==
  /\ place = "open"
  /\ \/ files[nth] # Missing /\ handle' = TRUE /\ place' = "measure"
        /\ UNCHANGED <<nth, loaded, buf, failed>>
     \/ Return(NULL, 0) /\ failed' = TRUE /\ UNCHANGED handle
  /\ UNCHANGED <<start, size, rewound, lib, r, printed, exit>>

(* Mutant: a failing ftell gives a size all the same. *)
AnySize(s) == TRUE

GoodSize(s) == s >= 0

(* fseek to the end, and ftell.  Unchecked, a failing fseek measures zero. *)
Measure ==
  /\ place = "measure"
  /\ \E s \in {files[nth].len, -1} \cup (IF Checked THEN {} ELSE {0}) :
       IF GoodSize(s)
         THEN /\ size' = s /\ place' = "rewind" /\ failed' = (failed \/ s # files[nth].len)
              /\ UNCHANGED <<nth, handle, rewound, buf, loaded>>
         ELSE Abandon
  /\ UNCHANGED <<start, lib, r, printed, exit>>

Rewind ==
  /\ place = "rewind"
  /\ \/ rewound' = TRUE /\ place' = "alloc" /\ UNCHANGED <<nth, handle, size, buf, loaded, failed>>
     \/ Checked /\ Abandon
     \/ ~ Checked /\ rewound' = (size = 0) /\ failed' = TRUE /\ place' = "alloc"
        /\ UNCHANGED <<nth, handle, size, buf, loaded>>
  /\ UNCHANGED <<start, lib, r, printed, exit>>

(* malloc; poseidon_preimage_cli also asks for zero bytes, which may give  *)
(* a buffer or none.                                                       *)
Alloc ==
  /\ place = "alloc"
  /\ \/ Checked /\ size = 0 /\ place' = "close" /\ UNCHANGED <<nth, loader, loaded, failed>>
     \/ ~ (Checked /\ size = 0) /\ place' = "read" /\ UNCHANGED <<nth, loader, loaded, failed>>
     \/ Checked /\ size > 0 /\ Abandon
     \/ ~ Checked /\ place' = "close" /\ failed' = TRUE /\ UNCHANGED <<nth, loader, loaded>>
  /\ UNCHANGED <<start, lib, r, printed, exit>>

(* Mutant: fread's result ignored. *)
KeepShort(b) == b

(* A short read frees the buffer. *)
DropShort(b) == NULL

Read ==
  /\ place = "read"
  /\ \/ size = 0 /\ buf' = Nothing /\ place' = "close"
        /\ UNCHANGED <<nth, handle, size, rewound, loaded, failed>>
     \/ size > 0 /\ rewound /\ buf' = files[nth].data /\ place' = "close"
        /\ UNCHANGED <<nth, handle, size, rewound, loaded, failed>>
     \/ size > 0 /\ buf' = DropShort("part of it") /\ failed' = TRUE /\ place' = "close"
        /\ UNCHANGED <<nth, handle, size, rewound, loaded>>
  /\ UNCHANGED <<start, lib, r, printed, exit>>

Close ==
  /\ place = "close"
  /\ handle' = FALSE /\ Return(buf, size)
  /\ UNCHANGED <<start, size, rewound, lib, r, printed, exit, failed>>

-----------------------------------------------------------------------------
(* main *)

Check ==
  /\ place = "check"
  /\ IF \A k \in DOMAIN files : bufs[k] # NULL /\ HasLength(prog, Roles(prog)[k], lens[k])
       THEN place' = "init" /\ UNCHANGED exit
       ELSE Exit(2)
  /\ UNCHANGED <<start, nth, loader, loaded, lib, r, printed, failed>>

InitLibrary ==
  /\ place = "init"
  /\ \/ lib' = TRUE /\ place' = "verify" /\ UNCHANGED <<exit, failed>>
     \/ Exit(2) /\ failed' = TRUE /\ UNCHANGED lib
  /\ UNCHANGED <<start, nth, loader, loaded, r, printed>>

VerifyProof ==
  /\ place = "verify"
  /\ r' = Verify(bufs[1], bufs[2], PublicInput(prog, bufs))
  /\ place' = "print"
  /\ UNCHANGED <<start, nth, loader, loaded, lib, printed, exit, failed>>

Report ==
  /\ place = "print"
  /\ printed' = CASE r = 1 -> "VALID" [] r = 0 -> "INVALID" [] OTHER -> "ERROR"
  /\ place' = "cleanup"
  /\ UNCHANGED <<start, nth, loader, loaded, lib, r, exit, failed>>

(* Mutant: zero for anything but INVALID. *)
NonZeroIsGood(v) == IF v # 0 THEN 0 ELSE 1

ExitCode(v) == IF v = 1 THEN 0 ELSE 1

Finish ==
  /\ place = "cleanup"
  /\ lib' = FALSE /\ Exit(ExitCode(r))
  /\ UNCHANGED <<start, nth, loader, loaded, r, printed, failed>>

CliNext == \/ Usage \/ Open \/ Measure \/ Rewind \/ Alloc \/ Read \/ Close
        \/ Check \/ InitLibrary \/ VerifyProof \/ Report \/ Finish

CliSpec == CliInit /\ [][CliNext]_cliVars

-----------------------------------------------------------------------------
(* Properties *)

(* CliTypeOK: sizes handed to malloc and fread are not negative, and a     *)
(* read happens on an open file.                                           *)
CliTypeOK ==
  /\ place \in {"usage", "open", "measure", "rewind", "alloc", "read", "close", "check", "init",
             "verify", "print", "cleanup", "exited"}
  /\ nth \in 1 .. Len(files) + 1 /\ size \in Nat /\ {handle, rewound, lib, failed} \subseteq BOOLEAN
  /\ Len(bufs) = Len(lens) /\ Len(bufs) = nth - 1
  /\ r \in {-1, 0, 1} /\ printed \in {"", "VALID", "INVALID", "ERROR"}
  /\ exit \in {NULL, 0, 1, 2} /\ (exit # NULL <=> place = "exited")
  /\ place \in {"measure", "rewind", "alloc", "read", "close"} => handle

(* Whatever failed while loading, the verifier only ever sees whole files  *)
(* of the right lengths.                                                   *)
VerifiesWholeFiles ==
  place \in {"init", "verify", "print", "cleanup"} =>
    \A k \in DOMAIN files :
      files[k] # Missing /\ bufs[k] = files[k].data /\ lens[k] = files[k].len

(* load_file closes what it opens on each of its returns, and the library  *)
(* is initialised only between groth16_init and groth16_cleanup.           *)
ResourcesReturned ==
  /\ place \notin {"measure", "rewind", "alloc", "read", "close"} => ~ handle
  /\ lib <=> place \in {"verify", "print", "cleanup"}

Data == Contents(files)

(* The exit code is 0 exactly for the printed VALID, and then the proof is *)
(* one for the data in the files, hashed here; it is 2, with no verdict    *)
(* printed, exactly when the program could not get as far as verifying.    *)
ExitCodeTellsVerdict ==
  place = "exited" =>
    /\ exit = 0 <=> printed = "VALID"
    /\ exit = 2 <=> printed = ""
    /\ exit = 0 => Verify(Data[1], Data[2], PublicInput(prog, Data)) = 1
    /\ exit = 1 => Verify(Data[1], Data[2], PublicInput(prog, Data)) # 1
    /\ exit = 2 => \/ ~ argc_ok \/ failed
                   \/ \E k \in DOMAIN files :
                        \/ ~ HasLength(prog, Roles(prog)[k], files[k].len)
                        \/ Checked /\ files[k].len = 0
=============================================================================
