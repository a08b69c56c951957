------------------------------- MODULE MCBoot -------------------------------
(***************************************************************************)
(* Boot and the touch driver for TLC.  They share no state, so that each   *)
(* behaviour here is one of either, which keeps the number of states a     *)
(* sum; the fairness is that of Boot.                                      *)
(***************************************************************************)
EXTENDS Boot, Touch

VARIABLE part

MCInit == BootInit /\ TouchInit /\ part \in {"boot", "touch"}

MCNext ==
    /\ UNCHANGED part
    /\ \/ part = "boot" /\ BootNext /\ UNCHANGED touchVars
       \/ part = "touch" /\ TouchNext /\ UNCHANGED deviceVars

MCSpec == MCInit /\ [][MCNext]_<<deviceVars, touchVars, part>> /\ BootFairness
=============================================================================
