------------------------------ MODULE PureCall ------------------------------
(***************************************************************************)
(* What a function without visible state promises its callers: each call   *)
(* returns, and its result depends on the argument alone - not on earlier  *)
(* calls, nor on whether this is the first.                                *)
(***************************************************************************)
CONSTANTS
  NoArg,    (* no call is running; not an argument of F *)
  F         (* the function computed                    *)

VARIABLES arg, result

vars == <<arg, result>>

Init == arg = NoArg /\ result = NoArg

Call == arg = NoArg /\ arg' \in DOMAIN F /\ result' = NoArg

Return == arg # NoArg /\ result' = F[arg] /\ arg' = NoArg

Next == Call \/ Return

Spec == Init /\ [][Next]_vars

(* A call always returns; the caller need not call again. *)
Returns == arg # NoArg ~> arg = NoArg
=============================================================================
