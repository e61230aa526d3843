---------------------------- MODULE MCArtifacts ----------------------------
(***************************************************************************)
(* Artifacts with two statements and one setup after the shipped one: a    *)
(* key, a proof and a statement of an earlier run beside a later run's.    *)
(***************************************************************************)
EXTENDS Artifacts
=============================================================================
