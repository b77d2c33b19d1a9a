---------------------------- MODULE LossyChannel ----------------------------
(***************************************************************************)
(* What the MQTT client promises to somebody who publishes through it:     *)
(* publishing never blocks, messages may get lost on the way (the buffer   *)
(* overflows, the broker is away), but those that are handed to the broker *)
(* are handed over once, in the order they were published, and none is     *)
(* made up.  MqttClient implements this module.                            *)
(***************************************************************************)
EXTENDS Naturals, SequencesExt

CONSTANT Message

VARIABLES
    pending,    \* published, neither handed over nor lost yet
    sent        \* handed over to the broker, in that order

vars == <<pending, sent>>

Init == pending = <<>> /\ sent = <<>>

\* Publishing may push one earlier message out.
Publish(m) ==
    /\ \/ pending' = Append(pending, m)
       \/ \E i \in 1 .. Len(pending) : pending' = Append(RemoveAt(pending, i), m)
    /\ UNCHANGED sent

HandOver ==
    /\ pending # <<>>
    /\ sent' = Append(sent, Head(pending))
    /\ pending' = Tail(pending)

Lose ==
    /\ \E i \in 1 .. Len(pending) : pending' = RemoveAt(pending, i)
    /\ UNCHANGED sent

Next == (\E m \in Message : Publish(m)) \/ HandOver \/ Lose

Spec == Init /\ [][Next]_vars
=============================================================================
