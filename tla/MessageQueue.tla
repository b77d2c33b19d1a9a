---------------------------- MODULE MessageQueue ----------------------------
(***************************************************************************)
(* What a HomeAutomation::circular_buffer promises to the MQTT client that *)
(* exchanges messages through it: a bounded first-in first-out queue that  *)
(* drops its OLDEST message when a message is put into it while it is full.*)
(* Nothing is said of slots, indices, locks or condition variables:        *)
(* CircularBuffer implements this module.                                  *)
(***************************************************************************)
EXTENDS Naturals, Sequences

CONSTANTS
    Item,       \* the messages
    NoItem,     \* std::nullopt, what get and get_for return without a message
    Consumer,   \* the threads that take messages
    Capacity    \* TElemCount

VARIABLES
    queue,      \* the messages held, the oldest first
    result      \* what the last get or get_for of each consumer returned

vars == <<queue, result>>

TypeOK ==
    /\ queue \in Seq(Item)
    /\ Len(queue) <= Capacity
    /\ result \in [Consumer -> Item \cup {NoItem}]

Init ==
    /\ queue = <<>>
    /\ result = [c \in Consumer |-> NoItem]

Put(m) ==
    /\ queue' = IF Len(queue) = Capacity THEN Append(Tail(queue), m)
                                         ELSE Append(queue, m)
    /\ UNCHANGED result

\* A consumer takes the oldest message.
Take(c) ==
    /\ queue # <<>>
    /\ queue' = Tail(queue)
    /\ result' = [result EXCEPT ![c] = Head(queue)]

\* A consumer comes back without a message, which it may only do when there
\* is none.
TakeNothing(c) ==
    /\ queue = <<>>
    /\ result' = [result EXCEPT ![c] = NoItem]
    /\ UNCHANGED queue

Clear ==
    /\ queue' = <<>>
    /\ UNCHANGED result

Next ==
    \/ \E m \in Item : Put(m)
    \/ \E c \in Consumer : Take(c) \/ TakeNothing(c)
    \/ Clear

Spec == Init /\ [][Next]_vars
=============================================================================
