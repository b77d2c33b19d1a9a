----------------------------- MODULE MqttTaskIO -----------------------------
(***************************************************************************)
(* A task's MQTT inputs and outputs: MQTTIOLogic (runtime/task_io_mqtt.cpp)*)
(* on top of the buffer in which the client keeps what it has received.    *)
(*                                                                         *)
(* An input variable is a pulse: it is true in the one cycle before which  *)
(* a message said "1".  An output variable is published when it rises.     *)
(* Messages arrive at any time (the client's callback thread), also while  *)
(* the task empties the buffer.  The global variables belong to all tasks: *)
(* programs of other tasks may write those in SharedOutputs at any time,   *)
(* also between the two reads of a variable in MQTTIOLogic::after.         *)
(*                                                                         *)
(* newest, heard, overflown, complete, sampled, previous, published and    *)
(* steady are history variables: nothing else depends on them.  What       *)
(* becomes of a published message is the subject of MqttClient.            *)
(***************************************************************************)
EXTENDS Naturals, Sequences

CONSTANTS
    InVar, OutVar,  \* the variables in the configuration's two mappings
    Variable,       \* the input mapping: from topics to InVar
    Message,        \* what the broker may deliver: records [topic, payload]
    NoMessage,      \* std::nullopt
    Capacity,       \* of recv_msgs, 128 in the code
    SharedOutputs   \* the output variables that other tasks' programs write

ASSUME MappingAssumption == Variable \in [DOMAIN Variable -> InVar]
ASSUME SharedAssumption == SharedOutputs \subseteq OutVar
ASSUME CapacityAssumption == Capacity \in Nat \ {0}
ASSUME NoMessageAssumption == NoMessage \notin Message

VARIABLES
    pc,             \* what the task is about to do
    recvMsgs, received,     \* a MessageQueue
    gvInputs, gvOutputs,    \* the global variables
    outputValues,   \* the values of the outputs one cycle ago
    todo, current,  \* the outputs the loop of after() has yet to look at
    newest,         \* the last value delivered for each input since the buffer
                    \* was found empty
    heard,          \* newest when the buffer was found empty, for the programs
    overflown,      \* a message was dropped since the buffer was found empty
    complete,       \* none was, at the time the buffer was found empty
    sampled, previous,      \* the outputs as compared in this cycle and the last
    published,      \* the outputs published in this cycle
    steady          \* the outputs that have been true since they were published

inputState == <<recvMsgs, received, gvInputs, newest, heard, overflown, complete>>
outputState == <<outputValues, todo, current, sampled, previous, published, steady>>
vars == <<pc, inputState, gvOutputs, outputState>>

Value == {"none", "0", "1"}
Task == "task"

\* circular_buffer, by what it promises.
RecvQueue == INSTANCE MessageQueue
    WITH Item <- Message, NoItem <- NoMessage, Consumer <- {Task},
         queue <- recvMsgs, result <- received

InputsOK ==
    /\ RecvQueue!TypeOK
    /\ gvInputs \in [InVar -> BOOLEAN]
    /\ newest \in [InVar -> Value] /\ heard \in [InVar -> Value]
    /\ overflown \in BOOLEAN /\ complete \in BOOLEAN

OutputsOK ==
    /\ gvOutputs \in [OutVar -> BOOLEAN] /\ outputValues \in [OutVar -> BOOLEAN]
    /\ sampled \in [OutVar -> BOOLEAN] /\ previous \in [OutVar -> BOOLEAN]
    /\ todo \in SUBSET OutVar
    /\ published \in SUBSET OutVar /\ steady \in SUBSET OutVar
    /\ pc = "remember" => current \in todo

TypeOK ==
    /\ pc \in {"init", "before", "drain", "execute", "after", "remember", "stopped"}
    /\ InputsOK
    /\ OutputsOK

AllFalse(S) == [v \in S |-> FALSE]

\* The configuration sets the variables to false or to an init_val.
Init ==
    /\ pc = "init"
    /\ RecvQueue!Init
    /\ gvInputs \in [InVar -> BOOLEAN]
    /\ gvOutputs \in [OutVar -> BOOLEAN]
    /\ outputValues = AllFalse(OutVar)
    /\ todo = {} /\ current = "none"
    /\ newest = [v \in InVar |-> "none"] /\ heard = newest
    /\ overflown = FALSE /\ complete = FALSE
    /\ sampled = AllFalse(OutVar) /\ previous = AllFalse(OutVar)
    /\ published = {} /\ steady = {}

-----------------------------------------------------------------------------
(* Inputs *)

\* MQTTIOLogic::init: connect, subscribe, and every output counts as false.
InitIO ==
    /\ pc = "init" /\ pc' = "before"
    /\ outputValues' = AllFalse(OutVar)
    /\ UNCHANGED <<inputState, gvOutputs, todo, current, sampled, previous, published,
                   steady>>

\* Whether a message sets a variable: its topic is an input's, and its payload is
\* a truth value.
Decisive(m) == m.topic \in DOMAIN Variable /\ m.payload \in {"0", "1"}

\* Mutation of ClearInputs: inputs keep their values until a message changes them.
ClearInputsNot ==
    /\ pc = "before" /\ pc' = "drain"
    /\ UNCHANGED <<inputState, gvOutputs, outputState>>

\* MQTTIOLogic::before: first all inputs are false ..
ClearInputs ==
    /\ pc = "before" /\ pc' = "drain"
    /\ gvInputs' = AllFalse(InVar)
    /\ UNCHANGED <<recvMsgs, received, newest, heard, overflown, complete, gvOutputs, outputState>>

\* .. then the messages are taken one by one, each setting its variable ..
ReceiveMessage ==
    /\ pc = "drain" /\ UNCHANGED pc
    /\ RecvQueue!Take(Task)
    /\ LET m == received'[Task]
       IN  gvInputs' = IF Decisive(m)
                       THEN [gvInputs EXCEPT ![Variable[m.topic]] = (m.payload = "1")]
                       ELSE gvInputs
    /\ UNCHANGED <<newest, heard, overflown, complete, gvOutputs, outputState>>

\* .. until there is none.
ReceiveNothing ==
    /\ pc = "drain" /\ pc' = "execute"
    /\ RecvQueue!TakeNothing(Task)
    /\ heard' = newest /\ newest' = [v \in InVar |-> "none"]
    /\ overflown' = FALSE /\ complete' = ~overflown
    /\ UNCHANGED <<gvInputs, gvOutputs, outputState>>

\* The callback thread puts a message into the buffer.
MsgArrvd(m) ==
    /\ pc \notin {"init", "stopped"}
    /\ RecvQueue!Put(m)
    /\ newest' = IF Decisive(m) THEN [newest EXCEPT ![Variable[m.topic]] = m.payload]
                                ELSE newest
    /\ overflown' = (overflown \/ Len(recvMsgs) = Capacity)
    /\ UNCHANGED <<pc, gvInputs, heard, complete, gvOutputs, outputState>>

-----------------------------------------------------------------------------
(* Programs and outputs *)

\* The task's programs set the outputs as they like.
Execute ==
    /\ pc = "execute" /\ pc' = "after"
    /\ gvOutputs' \in [OutVar -> BOOLEAN]
    /\ todo' = OutVar
    /\ published' = {}
    /\ steady' = {v \in steady : gvOutputs'[v]}
    /\ heard' = [v \in InVar |-> "none"]
    /\ complete' = FALSE
    /\ UNCHANGED <<recvMsgs, received, gvInputs, newest, overflown, outputValues, current, sampled, previous>>

\* A program of another task sets an output that it shares with this one.
OtherTask(v) ==
    /\ v \in SharedOutputs
    /\ pc # "stopped"
    /\ gvOutputs' = [gvOutputs EXCEPT ![v] = ~@]
    /\ steady' = steady \ {v}
    /\ UNCHANGED <<pc, inputState, outputValues, todo, current, sampled, previous, published>>

\* MQTTIOLogic::after, for one output: publish it if it was false and is true ..
Compare(v) ==
    /\ pc = "after" /\ pc' = "remember"
    /\ v \in todo /\ current' = v
    /\ IF ~outputValues[v] /\ gvOutputs[v]
       THEN published' = published \cup {v} /\ steady' = steady \cup {v}
       ELSE UNCHANGED <<published, steady>>
    /\ sampled' = [sampled EXCEPT ![v] = gvOutputs[v]]
    /\ previous' = [previous EXCEPT ![v] = sampled[v]]
    /\ UNCHANGED <<inputState, gvOutputs, outputValues, todo>>

\* Mutation of Remember: an output that was published once stays remembered.
RememberPublished ==
    /\ pc = "remember" /\ pc' = "after"
    /\ outputValues' = [outputValues EXCEPT ![current] = @ \/ gvOutputs[current]]
    /\ todo' = todo \ {current}
    /\ UNCHANGED <<inputState, gvOutputs, current, sampled, previous, published, steady>>

\* Mutation of Remember: only an output that was not published is remembered.
RememberUnpublished ==
    /\ pc = "remember" /\ pc' = "after"
    /\ outputValues' = IF current \in published
                       THEN outputValues
                       ELSE [outputValues EXCEPT ![current] = gvOutputs[current]]
    /\ todo' = todo \ {current}
    /\ UNCHANGED <<inputState, gvOutputs, current, sampled, previous, published, steady>>

\* Mutation of Remember: the loop stays with an output that is true.
RememberFalse ==
    /\ pc = "remember" /\ pc' = "after"
    /\ outputValues' = [outputValues EXCEPT ![current] = gvOutputs[current]]
    /\ todo' = IF gvOutputs[current] THEN todo ELSE todo \ {current}
    /\ UNCHANGED <<inputState, gvOutputs, current, sampled, previous, published, steady>>

\* .. and remember its value, which is read once more.
Remember ==
    /\ pc = "remember" /\ pc' = "after"
    /\ outputValues' = [outputValues EXCEPT ![current] = gvOutputs[current]]
    /\ todo' = todo \ {current}
    /\ UNCHANGED <<inputState, gvOutputs, current, sampled, previous, published, steady>>

\* The cycle is over.
EndCycle ==
    /\ pc = "after" /\ pc' = "before"
    /\ todo = {}
    /\ UNCHANGED <<inputState, gvOutputs, outputState>>

\* The task ends between two cycles: MQTTIOLogic::shutdown disconnects.
Shutdown ==
    /\ pc = "before" /\ pc' = "stopped"
    /\ UNCHANGED <<inputState, gvOutputs, outputState>>

Cycle ==
    \/ InitIO
    \/ ClearInputs \/ ReceiveMessage \/ ReceiveNothing
    \/ Execute
    \/ \E v \in OutVar : Compare(v)
    \/ Remember \/ EndCycle

Deliver == \E m \in Message : MsgArrvd(m)

Next ==
    \/ Cycle \/ Shutdown \/ Deliver
    \/ \E v \in OutVar : OtherTask(v)

Spec == Init /\ [][Next]_vars

\* The task's loop goes round; messages, other tasks and shutdowns need not come.
FairSpec == Spec /\ WF_vars(Cycle)

-----------------------------------------------------------------------------
(* Properties *)

\* When the programs run, an input is true if and only if the last message for it
\* since the cycle before said "1", whatever arrived while the buffer was being
\* emptied: no pulse lasts into a second cycle, none is missed and none survives a
\* later "0".  Only messages dropped by a full buffer may make a difference.
InputsAreNews ==
    pc = "execute" /\ complete => \A v \in InVar : gvInputs[v] <=> heard[v] = "1"

\* In every cycle exactly the outputs are published that were false when the cycle
\* before compared them and are true now: none is published twice, none is left
\* out, except those that other tasks write too.
EdgesPublished ==
    pc = "before" =>
        \A v \in OutVar \ SharedOutputs :
            v \in published <=> ~previous[v] /\ sampled[v]

\* No output, shared or not, is published twice while it stays true: although after()
\* reads it twice and other tasks write it in between, before and afterwards, every
\* publication is a rise of its own.  (A rise between the two reads is missed.)
PublishedOncePerRise ==
    [][ \A v \in OutVar : v \in published' \ published => v \notin steady ]_vars

\* The one thing that can hold up a cycle is a broker that never stops delivering,
\* and that only while the buffer is being emptied: messages come and are taken for
\* ever.  A flood of messages excuses no other delay.
CyclesUnlessFlooded ==
    \/ []<>(pc = "execute")
    \/ <>(pc = "stopped")
    \/ /\ <>[](pc = "drain")
       /\ []<><<Deliver>>_vars /\ []<><<ReceiveMessage>>_vars
=============================================================================
