------------------------------ MODULE MCSysTick ------------------------------
(***************************************************************************)
(* Small instances of SysTick for TLC; the cfg files give the constants    *)
(* their values.                                                           *)
(***************************************************************************)
EXTENDS SysTick
=============================================================================
