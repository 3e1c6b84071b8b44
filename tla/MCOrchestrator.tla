---------------------------- MODULE MCOrchestrator ----------------------------
(***************************************************************************)
(* Orchestrator for TLC.  No definition names one of the instances: they   *)
(* are interchangeable.                                                    *)
(***************************************************************************)
EXTENDS Orchestrator, TLC

ListenerSymmetry == Permutations(Listeners)
===============================================================================
