---------------------------- MODULE MCSkillLearning ----------------------------
(***************************************************************************)
(* SkillLearning for TLC: the WAN that drops, which the loop can verify,   *)
(* and a repeater's weak signal, which it cannot (main.go:1016), with the  *)
(* default actions, thresholds (0.90 for an action that is not listed) and *)
(* seeds of the code.                                                      *)
(***************************************************************************)
EXTENDS SkillLearning

CONSTANTS wan_drop, weak_signal, restart_wan, scale_tx, remediate

VerificationSymmetry == Permutations(Verifications)

\* An answer below its threshold, one at it and one above 1.
MCAnswers == {[action |-> remediate, conf |-> 700],
              [action |-> restart_wan, conf |-> 850],
              [action |-> scale_tx, conf |-> 1500]}

MCInjected == {<< wan_drop, restart_wan >>, << weak_signal, scale_tx >>}

MCRisk == [act \in {restart_wan, scale_tx, remediate} |->
             IF act = remediate THEN 900 ELSE 850]

MCDefault == [a \in {wan_drop, weak_signal} |->
                IF a = wan_drop THEN remediate ELSE scale_tx]

MCSeed == [p \in {wan_drop, weak_signal} \X {restart_wan, scale_tx, remediate} |->
             IF p \in {<< wan_drop, restart_wan >>, << weak_signal, scale_tx >>}
             THEN 500 ELSE NoQ]
===============================================================================
