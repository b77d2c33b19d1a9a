--------------------------- MODULE CircularBuffer ---------------------------
(***************************************************************************)
(* HomeAutomation::circular_buffer (system/circular_buffer.hpp), the ring  *)
(* buffer between the PLC tasks, the Paho callback thread and the send     *)
(* worker of the MQTT client.                                              *)
(*                                                                         *)
(* Every method holds the buffer's mutex from its first to its last access,*)
(* so it is one step, except get_for: a consumer that finds the buffer     *)
(* empty releases the mutex and sleeps on the condition variable.  It is   *)
(* "waiting" until notify_one picks it ("notified") or its deadline passes *)
(* ("expired"); either way it must take the mutex again, and the buffer    *)
(* may have changed by then.  wait_for computes ONE deadline, so a waiter  *)
(* that is notified in vain goes back to waiting for the same deadline.    *)
(***************************************************************************)
EXTENDS Naturals, FiniteSets, Sequences

CONSTANTS
    Item,       \* the messages
    NoItem,     \* std::nullopt, and the content of a slot never written
    Consumer,   \* the threads that call get and get_for
    Capacity    \* TElemCount, 128 for MQTT::Messages

ASSUME CapacityAssumption == Capacity \in Nat \ {0}
ASSUME NoItemAssumption == NoItem \notin Item
ASSUME ConsumerAssumption == IsFiniteSet(Consumer)

VARIABLES
    buf,        \* the slots
    head,       \* where the next message is written
    tail,       \* where the oldest message is
    bufferFull, \* tells a full buffer from an empty one when head = tail
    status,     \* where each consumer is in get_for
    result      \* what the last get or get_for of each consumer returned

vars == <<buf, head, tail, bufferFull, status, result>>

Slot == 0 .. Capacity - 1

TypeOK ==
    /\ buf \in [Slot -> Item \cup {NoItem}]
    /\ head \in Slot
    /\ tail \in Slot
    /\ bufferFull \in BOOLEAN
    /\ status \in [Consumer -> {"idle", "waiting", "notified", "expired"}]
    /\ result \in [Consumer -> Item \cup {NoItem}]

Init ==
    /\ buf = [s \in Slot |-> NoItem]
    /\ head = 0
    /\ tail = 0
    /\ bufferFull = FALSE
    /\ status = [c \in Consumer |-> "idle"]
    /\ result = [c \in Consumer |-> NoItem]

EmptyUnsafe == ~bufferFull /\ head = tail

Size ==
    CASE bufferFull                  -> Capacity
      [] ~bufferFull /\ head >= tail -> head - tail
      [] ~bufferFull /\ head < tail  -> Capacity + head - tail

Waiting == {c \in Consumer : status[c] = "waiting"}

\* The consumers that sleep no more and will look at the buffer again.
Roused == {c \in Consumer : status[c] \in {"notified", "expired"}}

\* Mutation of Succ: the index does not wrap around.
SuccUnwrapped(s) == s + 1

\* The index of the next slot.
Succ(s) == (s + 1) % Capacity

\* std::condition_variable::notify_one.
Rouse == IF Waiting # {}
         THEN \E c \in Waiting : status' = [status EXCEPT ![c] = "notified"]
         ELSE UNCHANGED status

\* Mutation of NotifyOne: put notifies only when the buffer was empty.
NotifyOneWhenEmpty == IF EmptyUnsafe THEN Rouse ELSE UNCHANGED status

\* put notifies after every message.
NotifyOne == Rouse

\* Mutation of Put: a full buffer does not give up its oldest message.
PutKeepingTail(m) ==
    /\ buf' = [buf EXCEPT ![head] = m]
    /\ UNCHANGED tail
    /\ head' = Succ(head)
    /\ bufferFull' = (head' = tail')
    /\ NotifyOne
    /\ UNCHANGED result

\* circular_buffer::put: a full buffer gives up its oldest message.
Put(m) ==
    /\ buf' = [buf EXCEPT ![head] = m]
    /\ tail' = IF bufferFull THEN Succ(tail) ELSE tail
    /\ head' = Succ(head)
    /\ bufferFull' = (head' = tail')
    /\ NotifyOne
    /\ UNCHANGED result

\* The common end of get and get_for: read the oldest message, advance tail.
TakeOldest(c) ==
    /\ ~EmptyUnsafe
    /\ result' = [result EXCEPT ![c] = buf[tail]]
    /\ bufferFull' = FALSE
    /\ tail' = Succ(tail)
    /\ status' = [status EXCEPT ![c] = "idle"]
    /\ UNCHANGED <<buf, head>>

ReturnNothing(c) ==
    /\ EmptyUnsafe
    /\ result' = [result EXCEPT ![c] = NoItem]
    /\ status' = [status EXCEPT ![c] = "idle"]
    /\ UNCHANGED <<buf, head, tail, bufferFull>>

\* wait_for releases the mutex and sleeps.
Sleep(c) ==
    /\ EmptyUnsafe
    /\ status' = [status EXCEPT ![c] = "waiting"]
    /\ UNCHANGED <<buf, head, tail, bufferFull, result>>

Get(c) ==
    /\ status[c] = "idle"
    /\ TakeOldest(c) \/ ReturnNothing(c)

GetFor(c) ==
    /\ status[c] = "idle"
    /\ TakeOldest(c) \/ Sleep(c)

\* The deadline of a sleeping consumer passes.
Expire(c) ==
    /\ status[c] = "waiting"
    /\ status' = [status EXCEPT ![c] = "expired"]
    /\ UNCHANGED <<buf, head, tail, bufferFull, result>>

\* Mutation of Resume: the wait starts anew instead of timing out.
ResumeWaitingAnew(c) ==
    /\ c \in Roused
    /\ TakeOldest(c) \/ Sleep(c)

\* A roused consumer has the mutex again and evaluates the predicate.
Resume(c) ==
    \/ /\ status[c] = "notified"
       /\ TakeOldest(c) \/ Sleep(c)
    \/ /\ status[c] = "expired"
       /\ TakeOldest(c) \/ ReturnNothing(c)

Reset ==
    /\ head' = tail
    /\ bufferFull' = FALSE
    /\ UNCHANGED <<buf, tail, status, result>>

Next ==
    \/ \E m \in Item : Put(m)
    \/ \E c \in Consumer : Get(c) \/ GetFor(c) \/ Expire(c) \/ Resume(c)
    \/ Reset

Spec == Init /\ [][Next]_vars

(***************************************************************************)
(* Fairness.  A roused thread gets the mutex, which is held for a few      *)
(* instructions only.  The deadline is one instant for the whole call, so a*)
(* consumer that keeps going back to sleep passes it at last: strong       *)
(* fairness.  Nobody is obliged to call a method.                          *)
(***************************************************************************)
Fairness == \A c \in Consumer : WF_vars(Resume(c)) /\ SF_vars(Expire(c))

FairSpec == Spec /\ Fairness

-----------------------------------------------------------------------------
(* Properties *)

\* put's notify_one never loses a wake-up: while somebody sleeps in get_for,
\* there are at least as many consumers about to look at the buffer as there
\* are messages in it.
NoLostWakeup == Waiting # {} => Size <= Cardinality(Roused)

\* get_for comes back: its timeout is not started anew by a notification that
\* another consumer's get made futile.
GetForReturns == \A c \in Consumer : status[c] = "waiting" ~> status[c] = "idle"

\* The buffer is a queue that drops its oldest message when it overflows.
Queue == [i \in 1 .. Size |-> buf[(tail + i - 1) % Capacity]]

Abstract == INSTANCE MessageQueue WITH queue <- Queue

\* Whatever the threads do, messages come out once each and in the order they
\* were put in, an overflow costs the oldest only, and get and get_for come back
\* empty-handed only from an empty buffer.
ImplementsMessageQueue == Abstract!Spec
=============================================================================
