---------------------------- MODULE MCMqttTaskIO ----------------------------
(* TLC instance of MqttTaskIO: messages for the one input, undecided ones and*)
(* a topic that belongs to no input (a wildcard subscription delivers such); *)
(* an output of the task's own and one that another task writes too.         *)
EXTENDS MqttTaskIO, TLC

MCVariable == "remote" :> "light_remote"

Says(topic, payload) == [topic |-> topic, payload |-> payload]
MCMessage ==
    {Says("remote", "1"), Says("remote", "0"), Says("remote", "other"), Says("stray", "1")}
=============================================================================
