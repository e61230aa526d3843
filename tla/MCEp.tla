---------------------------------- MODULE MCEp ----------------------------------
(* BN curve with u = 1: P = 103, a group of order 97.                       *)
EXTENDS Ep, TLC

MCGen     == <<2, 42>>
MCScalars == 0 .. 99
================================================================================
