--------------------------------- MODULE MCTick --------------------------------
(***************************************************************************)
(* Tick for TLC.                                                           *)
(***************************************************************************)
EXTENDS Tick, Measures
===============================================================================
