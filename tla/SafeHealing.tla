------------------------------ MODULE SafeHealing ------------------------------
(***************************************************************************)
(* What the agent promises about safe mode and healing: an anomaly is only *)
(* taken into treatment outside safe mode; safe mode begins with a start   *)
(* or with the rollback that ends a treatment, and then costs the whole    *)
(* number of checks; it ends by checks alone, one at a time, none of them  *)
(* inside a treatment; and an agent that dies owing checks comes back in   *)
(* safe mode.  Two exceptions are part of the promise: a record of safe    *)
(* mode that could not be written may be forgotten by the next start, and  *)
(* an agent that is leaving for a restart takes no notice of safe mode.    *)
(***************************************************************************)
EXTENDS Integers

CONSTANT ExitChecks

VARIABLES
  mode,     (* "down", "safe" or "normal"                                  *)
  debt,     (* checks to be recorded before safe mode ends                 *)
  lost,     (* the record of the mode could not be written                 *)
  leaving,  (* the agent is about to restart                               *)
  treating  (* an anomaly is in treatment                                  *)

healVars == << mode, debt, lost, leaving, treating >>

Init ==
  /\ mode = "down"
  /\ debt \in {0, ExitChecks}
  /\ lost = FALSE
  /\ leaving = FALSE
  /\ treating = FALSE

StartSafe ==
  /\ mode = "down"
  /\ mode' = "safe"
  /\ debt' = ExitChecks
  /\ leaving' = FALSE
  /\ UNCHANGED << lost, treating >>

StartNormal ==
  /\ mode = "down"
  /\ debt = 0 \/ lost
  /\ mode' = "normal"
  /\ debt' \in {0, ExitChecks}
  /\ leaving' = FALSE
  /\ UNCHANGED << lost, treating >>

End ==
  /\ mode # "down"
  /\ mode' = "down"
  /\ leaving' = FALSE
  /\ treating' = FALSE
  /\ UNCHANGED << debt, lost >>

Leave ==
  /\ mode # "down"
  /\ leaving' = TRUE
  /\ UNCHANGED << mode, debt, lost, treating >>

Check ==
  /\ mode = "safe" /\ ~treating
  /\ debt' = debt - 1
  /\ IF debt' = 0 THEN mode' = "normal" /\ lost' \in BOOLEAN
                  ELSE UNCHANGED << mode, lost >>
  /\ UNCHANGED << leaving, treating >>

Treat ==
  /\ mode = "normal" \/ (mode = "safe" /\ leaving)
  /\ ~treating
  /\ treating' = TRUE
  /\ UNCHANGED << mode, debt, lost, leaving >>

Conclude ==
  /\ treating
  /\ treating' = FALSE
  /\ UNCHANGED << mode, debt, lost, leaving >>

\* A treatment that ends with a rollback.
FallBack ==
  /\ treating
  /\ treating' = FALSE
  /\ mode' = "safe"
  /\ debt' = ExitChecks
  /\ lost' \in BOOLEAN
  /\ UNCHANGED leaving

Next ==
  \/ StartSafe
  \/ StartNormal
  \/ End
  \/ Leave
  \/ Check
  \/ Treat
  \/ Conclude
  \/ FallBack

Spec == Init /\ [][Next]_healVars
===============================================================================
