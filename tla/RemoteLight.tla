---------------------------- MODULE RemoteLight ----------------------------
(***************************************************************************)
(* Two runtimes as the examples configure them: a button of the first      *)
(* (examples/cpp-program) toggles a light of the second (examples/generic) *)
(* through an MQTT broker.  It composes the programs (R_TRIG and Light of  *)
(* the library), MQTTIOLogic on both sides, the sender's client as the     *)
(* LossyChannel that MqttClient implements, and the receiver's buffer as   *)
(* the MessageQueue that CircularBuffer implements.                        *)
(*                                                                         *)
(* The client publishes and subscribes with QoS 1: the broker delivers     *)
(* messages at least once, but only to clients that are connected.  A      *)
(* message is the number of the press that caused it.                      *)
(*                                                                         *)
(* presses, toggles, lost, duplicated, merged and taken are history        *)
(* variables.                                                              *)
(***************************************************************************)
EXTENDS Naturals, Sequences

CONSTANTS
    LocalButton,    \* buttons that toggle lights of the first runtime
    RemoteButton,   \* button_f
    Capacity,       \* of the receiver's buffer
    NoMessage,
    MaxPresses, MaxLost, MaxDuplicated  \* bounds of the model

Button == LocalButton \cup {RemoteButton}
Press == 1 .. MaxPresses

ASSUME ButtonAssumption == RemoteButton \notin LocalButton
ASSUME CapacityAssumption == Capacity \in Nat \ {0}
ASSUME BoundsAssumption ==
    MaxPresses \in Nat /\ MaxLost \in Nat /\ MaxDuplicated \in Nat
ASSUME NoMessageAssumption == NoMessage \notin Press

VARIABLES
    pcSender, pcReceiver,   \* where the two tasks are in their cycles
    button,         \* the sender's inputs
    last,           \* R_TRIG::last of each button
    light,          \* Light::state of each local light
    lightRemote,    \* gv->outputs["light_remote"] of the sender ..
    outputValue,    \* .. and its value one cycle ago
    pending, sent,  \* LossyChannel
    forwarded,      \* how many of the sent messages the broker is through with
    recvMsgs, received,     \* MessageQueue
    pulse,          \* gv->inputs["light_remote"] of the receiver
    lightA,         \* Light::state of the receiver's light
    presses,        \* of each button
    toggles,        \* of the receiver's light
    lost, duplicated,
    merged,         \* messages that met another one in the same cycle
    taken           \* messages taken in the receiver's cycle

senderVars == <<pcSender, button, last, light, lightRemote, outputValue, presses>>
channelVars == <<pending, sent>>
brokerVars == <<forwarded, duplicated>>
queueVars == <<recvMsgs, received>>
receiverVars == <<pcReceiver, pulse, lightA, toggles, merged, taken>>
vars == <<senderVars, channelVars, brokerVars, queueVars, receiverVars, lost>>

Channel == INSTANCE LossyChannel WITH Message <- Press
Receiver == "receiver"
Queue == INSTANCE MessageQueue
    WITH Item <- Press, NoItem <- NoMessage, Consumer <- {Receiver},
         queue <- recvMsgs, result <- received

TypeOK ==
    /\ pcSender \in {"before", "execute", "after"}
    /\ pcReceiver \in {"before", "drain", "execute"}
    /\ {button, last} \subseteq [Button -> BOOLEAN]
    /\ light \in [LocalButton -> BOOLEAN]
    /\ {lightRemote, outputValue, pulse, lightA} \subseteq BOOLEAN
    /\ pending \in Seq(Press) /\ sent \in Seq(Press)
    /\ forwarded \in 0 .. Len(sent)
    /\ Queue!TypeOK
    /\ presses \in [Button -> 0 .. MaxPresses]
    /\ lost \in 0 .. MaxLost /\ duplicated \in 0 .. MaxDuplicated
    /\ {toggles, merged, taken} \subseteq Nat

Init ==
    /\ pcSender = "before" /\ pcReceiver = "before"
    /\ button = [b \in Button |-> FALSE] /\ last = button
    /\ light = [b \in LocalButton |-> FALSE]
    /\ lightRemote = FALSE /\ outputValue = FALSE
    /\ Channel!Init
    /\ forwarded = 0
    /\ Queue!Init
    /\ pulse = FALSE /\ lightA = FALSE
    /\ presses = [b \in Button |-> 0]
    /\ toggles = 0 /\ lost = 0 /\ duplicated = 0 /\ merged = 0 /\ taken = 0

One(condition) == IF condition THEN 1 ELSE 0

-----------------------------------------------------------------------------
(* The sender *)

\* The buttons are read.
ReadButtons ==
    /\ pcSender = "before" /\ pcSender' = "execute"
    /\ button' \in [Button -> BOOLEAN]
    /\ presses' = [b \in Button |-> presses[b] + One(button'[b] /\ ~button[b])]
    /\ \A b \in Button : presses'[b] <= MaxPresses
    /\ UNCHANGED <<last, light, lightRemote, outputValue>>
    /\ UNCHANGED <<channelVars, brokerVars, queueVars, receiverVars, lost>>

\* R_TRIG::execute and Light::toggle, which a program only calls on a rise.
Rising(b) == ~last[b] /\ button[b]
Toggle(on) == ~on

\* Mutation of CppProgram: a trigger forgets its press only when it reports another.
CppProgramForgettingRelease ==
    /\ pcSender = "execute" /\ pcSender' = "after"
    /\ light' = [b \in LocalButton |-> IF Rising(b) THEN Toggle(light[b]) ELSE light[b]]
    /\ lightRemote' = Rising(RemoteButton)
    /\ last' = [b \in Button |-> last[b] \/ button[b]]
    /\ UNCHANGED <<button, outputValue, presses>>
    /\ UNCHANGED <<channelVars, brokerVars, queueVars, receiverVars, lost>>

\* CppProgram::execute: local lights are toggled, the remote one is asked to.
CppProgram ==
    /\ pcSender = "execute" /\ pcSender' = "after"
    /\ light' = [b \in LocalButton |-> IF Rising(b) THEN Toggle(light[b]) ELSE light[b]]
    /\ lightRemote' = Rising(RemoteButton)
    /\ last' = button
    /\ UNCHANGED <<button, outputValue, presses>>
    /\ UNCHANGED <<channelVars, brokerVars, queueVars, receiverVars, lost>>

\* Mutation of PublishRise: a value that was published stays remembered.
PublishFirstRise ==
    /\ pcSender = "after" /\ pcSender' = "before"
    /\ IF ~outputValue /\ lightRemote
       THEN Channel!Publish(presses[RemoteButton])
       ELSE UNCHANGED channelVars
    /\ lost' = lost + One(Len(pending') = Len(pending) /\ ~outputValue /\ lightRemote)
    /\ lost' <= MaxLost
    /\ outputValue' = (outputValue \/ lightRemote)
    /\ UNCHANGED <<button, last, light, lightRemote, presses>>
    /\ UNCHANGED <<brokerVars, queueVars, receiverVars>>

\* MQTTIOLogic::after.  The client's buffer may have to drop a message for it.
PublishRise ==
    /\ pcSender = "after" /\ pcSender' = "before"
    /\ IF ~outputValue /\ lightRemote
       THEN Channel!Publish(presses[RemoteButton])
       ELSE UNCHANGED channelVars
    /\ lost' = lost + One(Len(pending') = Len(pending) /\ ~outputValue /\ lightRemote)
    /\ lost' <= MaxLost
    /\ outputValue' = lightRemote
    /\ UNCHANGED <<button, last, light, lightRemote, presses>>
    /\ UNCHANGED <<brokerVars, queueVars, receiverVars>>

-----------------------------------------------------------------------------
(* On the way *)

\* Mutation of HandOver: the worker waits until there are two.
HandOverTwo ==
    /\ Len(pending) > 1 /\ Channel!HandOver
    /\ UNCHANGED <<senderVars, brokerVars, queueVars, receiverVars, lost>>

\* The sender's client hands a message to its broker.
HandOver ==
    /\ Channel!HandOver
    /\ UNCHANGED <<senderVars, brokerVars, queueVars, receiverVars, lost>>

\* It loses one with its connection.
LoseMessage ==
    /\ Channel!Lose
    /\ lost < MaxLost /\ lost' = lost + 1
    /\ UNCHANGED <<senderVars, brokerVars, queueVars, receiverVars>>

\* The receiver's callback puts a message into the buffer, which may drop another.
PutMessage(m) ==
    /\ Queue!Put(m)
    /\ lost' = lost + One(Len(recvMsgs) = Capacity)
    /\ lost' <= MaxLost

\* The broker delivers the next message ..
Forward ==
    /\ forwarded < Len(sent)
    /\ forwarded' = forwarded + 1
    /\ PutMessage(sent[forwarded'])
    /\ UNCHANGED <<senderVars, channelVars, duplicated, receiverVars>>

\* .. or has nobody to deliver it to ..
DropMessage ==
    /\ forwarded < Len(sent)
    /\ forwarded' = forwarded + 1
    /\ lost < MaxLost /\ lost' = lost + 1
    /\ UNCHANGED <<senderVars, channelVars, duplicated, queueVars, receiverVars>>

\* .. or delivers one again, because its acknowledgement was lost.
Redeliver ==
    /\ duplicated < MaxDuplicated /\ duplicated' = duplicated + 1
    /\ \E i \in 1 .. forwarded : PutMessage(sent[i])
    /\ UNCHANGED <<senderVars, channelVars, forwarded, receiverVars>>

-----------------------------------------------------------------------------
(* The receiver *)

\* Mutation of ClearInput: the input keeps the value it had.
ClearInputNot ==
    /\ pcReceiver = "before" /\ pcReceiver' = "drain"
    /\ taken' = 0
    /\ UNCHANGED <<pulse, lightA, toggles, merged>>
    /\ UNCHANGED <<senderVars, channelVars, brokerVars, queueVars, lost>>

\* MQTTIOLogic::before: the input is false ..
ClearInput ==
    /\ pcReceiver = "before" /\ pcReceiver' = "drain"
    /\ pulse' = FALSE /\ taken' = 0
    /\ UNCHANGED <<lightA, toggles, merged>>
    /\ UNCHANGED <<senderVars, channelVars, brokerVars, queueVars, lost>>

\* .. unless there is a message, or several ..
TakeMessage ==
    /\ pcReceiver = "drain"
    /\ Queue!Take(Receiver)
    /\ pulse' = TRUE
    /\ taken' = taken + 1 /\ merged' = merged + One(taken > 0)
    /\ UNCHANGED <<pcReceiver, lightA, toggles>>
    /\ UNCHANGED <<senderVars, channelVars, brokerVars, lost>>

\* .. until there are no more.
TakeNothing ==
    /\ pcReceiver = "drain" /\ pcReceiver' = "execute"
    /\ Queue!TakeNothing(Receiver)
    /\ UNCHANGED <<pulse, lightA, toggles, merged, taken>>
    /\ UNCHANGED <<senderVars, channelVars, brokerVars, lost>>

\* Cycle of generic_main_lualogic.lua.
LuaLogic ==
    /\ pcReceiver = "execute" /\ pcReceiver' = "before"
    /\ lightA' = IF pulse THEN Toggle(lightA) ELSE lightA
    /\ toggles' = toggles + One(pulse)
    /\ UNCHANGED <<pulse, merged, taken>>
    /\ UNCHANGED <<senderVars, channelVars, brokerVars, queueVars, lost>>

ReceiverCycle == ClearInput \/ TakeMessage \/ TakeNothing \/ LuaLogic

Next ==
    \/ ReadButtons \/ CppProgram \/ PublishRise
    \/ HandOver \/ LoseMessage
    \/ Forward \/ DropMessage \/ Redeliver
    \/ ReceiverCycle

Spec == Init /\ [][Next]_vars

\* The receiver's task goes round, its broker delivers or drops what it has, and the
\* sender's client comes back to its broker (Reconnects of MqttClient) and hands
\* over.  Nobody need press a button, and no fault need happen.
FairSpec ==
    /\ Spec
    /\ WF_vars(ReceiverCycle)
    /\ WF_vars(Forward \/ DropMessage)
    /\ WF_vars(HandOver)

-----------------------------------------------------------------------------
(* Properties *)

\* A press that the sender's task has read but not yet published.
Unpublished ==
    One(\/ pcSender = "execute" /\ Rising(RemoteButton)
        \/ pcSender = "after" /\ lightRemote)

\* Messages of this cycle that have not toggled the light yet.
Untoggled == One(pcReceiver # "before" /\ taken > 0)

OnTheWay ==
    Unpublished + Len(pending) + (Len(sent) - forwarded) + Len(recvMsgs) + Untoggled

\* Every press of the button is accounted for: it has toggled the remote light once,
\* or is on the way, or was lost in one of the places where messages are lost, or has
\* met another one in the same cycle of the receiver.  The only toggles without a
\* press of their own are the broker's repetitions.
PressesAccounted ==
    presses[RemoteButton] + duplicated = toggles + OnTheWay + lost + merged

\* Hence what somebody in the house sees: a local light has been toggled once for
\* every press of its own button and of no other, and so has the remote one when all
\* is quiet and nothing went wrong.
LightsTellPresses ==
    /\ \A b \in LocalButton :
          pcSender # "execute" => (light[b] <=> presses[b] % 2 = 1)
    /\ (OnTheWay = 0 /\ lost = 0 /\ duplicated = 0 /\ merged = 0) =>
          (lightA <=> presses[RemoteButton] % 2 = 1)

\* No press stays on the way for ever.
InFlight(n) ==
    \/ \E i \in 1 .. Len(pending) : pending[i] = n
    \/ \E i \in forwarded + 1 .. Len(sent) : sent[i] = n
    \/ \E i \in 1 .. Len(recvMsgs) : recvMsgs[i] = n
PressesArrive == \A n \in Press : InFlight(n) ~> ~InFlight(n)

-----------------------------------------------------------------------------
(* The inductive invariant from which RemoteLight_proofs derives the safety   *)
(* properties.                                                                *)

\* A trigger has seen its button except for what the program is about to look at.
TriggersFollowButtons == pcSender # "execute" => last = button

\* light_remote is true for a single cycle: no two cycles in a row see a rise, so that
\* comparing with the value of the cycle before hides none from MQTTIOLogic::after.
RisesAreSingle ==
    /\ pcSender = "before" => outputValue = lightRemote
    /\ pcSender # "after" => (outputValue => last[RemoteButton])
    /\ pcSender = "after" => ~(outputValue /\ lightRemote)
    /\ lightRemote => last[RemoteButton] /\ presses[RemoteButton] > 0
    /\ \A b \in Button : button[b] => presses[b] > 0

\* A pulse lasts for one cycle of the receiver, and comes of a message.
PulseIsNews == pcReceiver # "before" => (pulse <=> taken > 0)

\* A light is on after an odd number of toggles; a local one may be one behind.
LightsCount ==
    /\ \A b \in LocalButton :
          (light[b] # (pcSender = "execute" /\ Rising(b))) <=> presses[b] % 2 = 1
    /\ lightA <=> toggles % 2 = 1

LightIInv ==
    /\ TypeOK
    /\ TriggersFollowButtons
    /\ RisesAreSingle
    /\ PulseIsNews
    /\ PressesAccounted
    /\ LightsCount
=============================================================================
