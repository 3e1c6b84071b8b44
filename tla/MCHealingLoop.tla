----------------------------- MODULE MCHealingLoop -----------------------------
(***************************************************************************)
(* HealingLoop with a history variable, for a statement of the             *)
(* repository's comments that the code does not meet.                      *)
(***************************************************************************)
EXTENDS HealingLoop

VARIABLE sick  (* a tick of this stay in safe mode found the WAN down *)

mcVars == << loopVars, sick >>

MCInit == LoopInit /\ sick = FALSE

MCNext ==
  /\ LoopNext
  /\ sick' = CASE ~up' \/ (loop = "rollback" /\ loop' = "select") -> FALSE
               [] loop = "select" /\ loop' = "check"  -> sick \/ ~wanUp
               [] OTHER                               -> sick

MCSpec == MCInit /\ [][MCNext]_mcVars

-------------------------------------------------------------------------------

\* watchdog.go:74: safe mode is left after consecutive successful health
\* checks.  None of the checks that ended it was taken with the WAN down.
ExitChecksWereHealthy == up /\ ~safeModeActive => ~sick
===============================================================================
