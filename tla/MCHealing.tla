------------------------------- MODULE MCHealing -------------------------------
(***************************************************************************)
(* HealingLoop for TLC.  No definition names one of the settings outside   *)
(* the watchdog's snapshot: they are interchangeable.                      *)
(***************************************************************************)
EXTENDS HealingLoop, TLC

OtherSymmetry == Permutations(OtherValues)
===============================================================================
