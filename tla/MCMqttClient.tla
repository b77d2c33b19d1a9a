---------------------------- MODULE MCMqttClient ----------------------------
(* TLC instances of MqttClient; the bounds are in the configurations. *)
EXTENDS MqttClient, TLC

CONSTANTS t1, t2

MCTopic == {t1, t2}
MCOneTopic == {t1}
MCSymmetry == Permutations(MCTopic)
=============================================================================
