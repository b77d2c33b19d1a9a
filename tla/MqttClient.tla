----------------------------- MODULE MqttClient -----------------------------
(***************************************************************************)
(* The MQTT client: the reconnecting Client (system/mqtt.hpp) on top of    *)
(* ClientPahoC (system/mqtt_c.hpp), used as MQTTTaskIO uses it.            *)
(*                                                                         *)
(* Four threads share one ClientPahoC:                                     *)
(*   T  the task: connect, subscribe, publish, receive, disconnect, and the*)
(*      destruction of the client at the end;                              *)
(*   R  the reconnecter of Client, which starts a connection attempt       *)
(*      whenever it finds the client not connected;                        *)
(*   P  the thread of the Paho library that runs the callbacks, one at a   *)
(*      time;                                                              *)
(*   W  the send worker, which takes messages from send_msgs.              *)
(* A step of a thread is one access to state that another thread may touch.*)
(* pcT, pcR, pcP and pcW say what a thread is about to do.  A lock_guard is*)
(* modelled by the steps in its scope: MutexFree and SubsMutexFree tell    *)
(* when nobody is inside.                                                  *)
(*                                                                         *)
(* The library and the broker behind it are external: "lib" is the state of*)
(* the connection, brokerSubs the subscriptions of the present session     *)
(* (every connection starts a clean one).  MaxPublish, MaxArrivals,        *)
(* MaxFaults and MaxRejects bound how often the environment acts.          *)
(***************************************************************************)
EXTENDS Naturals, SequencesExt

CONSTANTS
    Topic,          \* the topics of the configuration
    NoMessage,      \* std::nullopt
    Capacity,       \* of send_msgs and recv_msgs, 128 in the code
    MaxPublish,     \* messages published, numbered 1, 2, ..
    MaxArrivals,    \* messages the broker delivers, numbered 1, 2, ..
    MaxFaults,      \* failed attempts and lost connections
    MaxRejects      \* calls of MQTTAsync_connect that return an error at once

ASSUME CapacityAssumption == Capacity \in Nat \ {0}
ASSUME BoundsAssumption ==
    /\ MaxPublish \in Nat
    /\ MaxArrivals \in Nat
    /\ MaxFaults \in Nat
    /\ MaxRejects \in Nat
ASSUME NoMessageAssumption == NoMessage \notin Nat

VARIABLES
    pcT, pcR, pcP, pcW,
    clientRunning,  \* Client::running
    connected, connecting, running,     \* ClientPahoC's atomic flags
    callbacks,      \* connlost, msgarrvd and on_connected are registered
    joinable,       \* send_worker.joinable()
    subscriptions,  \* the topics to restore in every new session
    nextSub,        \* the iterator of on_connected's loop over subscriptions
    lib, brokerSubs,
    sendMsgs, sendResult, recvMsgs, recvResult, \* two MessageQueues
    sent,           \* the messages the library has accepted, in order
    published, arrivals, faults, rejects        \* how much was used of the bounds

pcs == <<pcT, pcR, pcP, pcW>>
flags == <<connected, connecting, running, callbacks, joinable>>
subs == <<subscriptions, nextSub>>
libs == <<lib, brokerSubs>>
sending == <<sendMsgs, sendResult, sent, published>>
receiving == <<recvMsgs, recvResult, arrivals>>
budget == <<faults, rejects>>
vars == <<pcs, clientRunning, flags, subs, libs, sending, receiving, budget>>

\* circular_buffer, by what it promises.
SendQueue == INSTANCE MessageQueue
    WITH Item <- 1 .. MaxPublish, NoItem <- NoMessage, Consumer <- {"W"},
         queue <- sendMsgs, result <- sendResult
RecvQueue == INSTANCE MessageQueue
    WITH Item <- 1 .. MaxArrivals, NoItem <- NoMessage, Consumer <- {"T"},
         queue <- recvMsgs, result <- recvResult

ThreadsOK ==
    /\ pcT \in {"start", "use", "subscribe_raw", "join_reconnecter",
                "check_connected", "stop", "await_attempt", "check_joinable",
                "join_worker", "clear_subs", "lib_disconnect", "unset_connected",
                "disconnected", "destroy_members", "destroyed", "terminated"}
    /\ pcR \in {"none", "loop", "check", "lock", "read_connected",
                "set_connecting", "lib_connect", "done"}
    /\ pcP \in {"idle", "set_connected", "set_running", "unset_connecting",
                "spawn_worker", "lock_subs", "resubscribe",
                "fail_connected", "fail_connecting", "lost", "arrived"}
    /\ pcW \in {"none", "loop", "get", "send", "done"}

FlagsOK ==
    /\ clientRunning \in BOOLEAN /\ connected \in BOOLEAN /\ connecting \in BOOLEAN
    /\ running \in BOOLEAN /\ callbacks \in BOOLEAN /\ joinable \in BOOLEAN
    /\ lib \in {"down", "attempting", "up", "destroyed"}

TopicsOK ==
    /\ subscriptions \in Seq(Topic)
    /\ nextSub \in 1 .. Len(subscriptions) + 1
    /\ brokerSubs \in SUBSET Topic
    /\ pcT = "subscribe_raw" => subscriptions # <<>>

\* A callback or a worker that is about to hand a message on has one.
MessagesOK ==
    /\ SendQueue!TypeOK /\ RecvQueue!TypeOK
    /\ sent \in Seq(1 .. MaxPublish)
    /\ published \in 0 .. MaxPublish
    /\ arrivals \in 0 .. MaxArrivals
    /\ pcP = "arrived" => arrivals > 0
    /\ pcW = "send" => sendResult["W"] # NoMessage

BudgetOK == faults \in 0 .. MaxFaults /\ rejects \in 0 .. MaxRejects

TypeOK == ThreadsOK /\ FlagsOK /\ TopicsOK /\ MessagesOK /\ BudgetOK

Init ==
    /\ pcT = "start" /\ pcR = "none" /\ pcP = "idle" /\ pcW = "none"
    /\ clientRunning = FALSE
    /\ connected = FALSE /\ connecting = FALSE /\ running = FALSE
    /\ callbacks = FALSE
    /\ joinable = FALSE
    /\ subscriptions = <<>> /\ nextSub = 1
    /\ lib = "down" /\ brokerSubs = {}
    /\ SendQueue!Init /\ RecvQueue!Init
    /\ sent = <<>>
    /\ published = 0 /\ arrivals = 0 /\ faults = 0 /\ rejects = 0

-----------------------------------------------------------------------------
(* Locks and helpers *)

\* R holds mutex in ClientPahoC::connect, T at the end of disconnect.  The other
\* critical sections of mutex are single steps.
MutexFree ==
    /\ pcR \notin {"read_connected", "set_connecting", "lib_connect"}
    /\ pcT # "unset_connected"

\* P holds subs_mutex while it restores the subscriptions.
SubsMutexFree == pcP # "resubscribe"

\* std::terminate and a crash end all threads.
Alive == pcT # "terminated"

\* Thread T, R, P or W goes on to "to"; the others stay where they are.
TaskAt(from, to) == pcT = from /\ pcT' = to /\ UNCHANGED <<pcR, pcP, pcW>>
ReconnecterAt(from, to) == Alive /\ pcR = from /\ pcR' = to /\ UNCHANGED <<pcT, pcP, pcW>>
CallbackAt(from, to) == Alive /\ pcP = from /\ pcP' = to /\ UNCHANGED <<pcT, pcR, pcW>>
WorkerAt(from, to) == Alive /\ pcW = from /\ pcW' = to /\ UNCHANGED <<pcT, pcR, pcP>>

\* MQTTAsync_subscribe: the library accepts it only while it is connected.
LibSubscribe(topic) ==
    /\ brokerSubs' = IF lib = "up" THEN brokerSubs \cup {topic} ELSE brokerSubs
    /\ UNCHANGED lib

-----------------------------------------------------------------------------
(* T: the task that owns the client *)

\* Client::connect: running = true, start the reconnecter.
Connect ==
    /\ pcT = "start" /\ pcT' = "use"
    /\ clientRunning' = TRUE
    /\ pcR' = "loop"
    /\ UNCHANGED <<pcP, pcW, flags, subs, libs, sending, receiving, budget>>

\* ClientPahoC::subscribe, first half: remember the topic under subs_mutex.
PushTopic(topic) ==
    /\ TaskAt("use", "subscribe_raw")
    /\ SubsMutexFree
    /\ topic \notin ToSet(subscriptions)    \* each topic is configured once
    /\ subscriptions' = Append(subscriptions, topic)
    /\ UNCHANGED <<clientRunning, flags, nextSub, libs, sending, receiving, budget>>

\* Second half, subscribe_raw: one library call under mutex.
SubscribeRaw ==
    /\ TaskAt("subscribe_raw", "use")
    /\ MutexFree
    /\ LibSubscribe(Last(subscriptions))
    /\ UNCHANGED <<clientRunning, flags, subs, sending, receiving, budget>>

\* Client::publish -> ClientPahoC::publish: into the buffer, whatever the state
\* of the connection.
Publish ==
    /\ TaskAt("use", "use")
    /\ published < MaxPublish
    /\ published' = published + 1
    /\ SendQueue!Put(published')
    /\ UNCHANGED <<clientRunning, flags, subs, libs, sent, receiving, budget>>

\* Client::receive -> recv_msgs.get().
Receive ==
    /\ TaskAt("use", "use")
    /\ RecvQueue!Take("T") \/ RecvQueue!TakeNothing("T")
    /\ UNCHANGED <<clientRunning, flags, subs, libs, sending, arrivals, budget>>

\* Client::disconnect: running = false ..
Disconnect ==
    /\ TaskAt("use", "join_reconnecter")
    /\ clientRunning' = FALSE
    /\ UNCHANGED <<flags, subs, libs, sending, receiving, budget>>

\* .. wait for the reconnecter ..
JoinReconnecter ==
    /\ TaskAt("join_reconnecter", "check_connected")
    /\ pcR = "done"
    /\ UNCHANGED <<clientRunning, flags, subs, libs, sending, receiving, budget>>

\* .. and leave the raw client alone unless it says it is connected.
CheckConnected ==
    /\ TaskAt("check_connected", IF connected THEN "stop" ELSE "disconnected")
    /\ UNCHANGED <<clientRunning, flags, subs, libs, sending, receiving, budget>>

\* Mutation of Stop: running stays set.
StopNot ==
    /\ TaskAt("stop", "await_attempt")
    /\ UNCHANGED <<clientRunning, flags, subs, libs, sending, receiving, budget>>

\* ClientPahoC::disconnect: running = false ..
Stop ==
    /\ TaskAt("stop", "await_attempt")
    /\ running' = FALSE
    /\ UNCHANGED <<clientRunning, connected, connecting, callbacks, joinable,
                   subs, libs, sending, receiving, budget>>

\* .. poll until no attempt is under way ..
AwaitAttempt ==
    /\ TaskAt("await_attempt", "check_joinable")
    /\ ~connecting
    /\ UNCHANGED <<clientRunning, flags, subs, libs, sending, receiving, budget>>

\* .. look whether there is a send worker ..
CheckJoinable ==
    /\ TaskAt("check_joinable", IF joinable THEN "join_worker" ELSE "clear_subs")
    /\ UNCHANGED <<clientRunning, flags, subs, libs, sending, receiving, budget>>

\* .. wait for it ..
JoinWorker ==
    /\ TaskAt("join_worker", "clear_subs")
    /\ pcW = "done"
    /\ joinable' = FALSE
    /\ UNCHANGED <<clientRunning, connected, connecting, running, callbacks,
                   subs, libs, sending, receiving, budget>>

\* .. forget the topics, without subs_mutex.  If P walks over them at this very
\* moment the behaviour is undefined: P finds no more topics, or the program
\* crashes.
ClearSubscriptions ==
    /\ \/ TaskAt("clear_subs", "lib_disconnect")
       \/ TaskAt("clear_subs", "terminated") /\ pcP = "resubscribe"
    /\ subscriptions' = <<>>
    /\ nextSub' = 1
    /\ UNCHANGED <<clientRunning, flags, libs, sending, receiving, budget>>

\* .. lock mutex and disconnect, connected = false.
LibDisconnect ==
    /\ TaskAt("lib_disconnect", "unset_connected")
    /\ MutexFree
    /\ lib' = "down" /\ brokerSubs' = {}
    /\ UNCHANGED <<clientRunning, flags, subs, sending, receiving, budget>>

UnsetConnected ==
    /\ TaskAt("unset_connected", "disconnected")
    /\ connected' = FALSE
    /\ UNCHANGED <<clientRunning, connecting, running, callbacks, joinable,
                   subs, libs, sending, receiving, budget>>

\* ~ClientPahoC: MQTTAsync_destroy under mutex.  The library is assumed to let
\* a running callback finish first, and to run none afterwards.
Destroy ==
    /\ TaskAt("disconnected", "destroy_members")
    /\ MutexFree
    /\ pcP = "idle"
    /\ lib' = "destroyed" /\ brokerSubs' = {}
    /\ UNCHANGED <<clientRunning, flags, subs, sending, receiving, budget>>

\* The members are destroyed: ~thread calls std::terminate for a joinable
\* send_worker.
DestroyMembers ==
    /\ TaskAt("destroy_members", IF joinable THEN "terminated" ELSE "destroyed")
    /\ UNCHANGED <<clientRunning, flags, subs, libs, sending, receiving, budget>>

-----------------------------------------------------------------------------
(* R: Client::reconnect_logic *)

\* while (running)
ReconnectLoop ==
    /\ ReconnecterAt("loop", IF clientRunning THEN "check" ELSE "done")
    /\ UNCHANGED <<clientRunning, flags, subs, libs, sending, receiving, budget>>

\* if (!client_->is_connected()); the loop goes on after a sleep.
IsConnected ==
    /\ ReconnecterAt("check", IF connected THEN "loop" ELSE "lock")
    /\ UNCHANGED <<clientRunning, flags, subs, libs, sending, receiving, budget>>

\* Mutation of ReadConnecting: the lock alone is thought to be enough.
ReadConnectingNot ==
    /\ ReconnecterAt("lock", "read_connected")
    /\ MutexFree
    /\ UNCHANGED <<clientRunning, flags, subs, libs, sending, receiving, budget>>

\* ClientPahoC::connect: lock mutex, if (connecting ..
ReadConnecting ==
    /\ ReconnecterAt("lock", IF connecting THEN "loop" ELSE "read_connected")
    /\ MutexFree
    /\ UNCHANGED <<clientRunning, flags, subs, libs, sending, receiving, budget>>

\* .. || connected) return true;
ReadConnected ==
    /\ ReconnecterAt("read_connected", IF connected THEN "loop" ELSE "set_connecting")
    /\ UNCHANGED <<clientRunning, flags, subs, libs, sending, receiving, budget>>

\* connecting = true; the callbacks are registered if (!running).
SetConnecting ==
    /\ ReconnecterAt("set_connecting", "lib_connect")
    /\ connecting' = TRUE
    /\ callbacks' = (callbacks \/ ~running)
    /\ UNCHANGED <<clientRunning, connected, running, joinable,
                   subs, libs, sending, receiving, budget>>

\* MQTTAsync_connect starts an attempt ..
LibConnect ==
    /\ ReconnecterAt("lib_connect", "loop")
    /\ lib = "down"
    /\ lib' = "attempting"
    /\ UNCHANGED <<clientRunning, flags, subs, brokerSubs, sending, receiving, budget>>

\* .. or returns an error at once, which is ignored.
LibConnectRejected ==
    /\ ReconnecterAt("lib_connect", "loop")
    /\ rejects < MaxRejects
    /\ rejects' = rejects + 1
    /\ UNCHANGED <<clientRunning, flags, subs, libs, sending, receiving, faults>>

-----------------------------------------------------------------------------
(* P: the library and its callbacks.  Each event starts its callback. *)

\* The attempt succeeds: on_connected is next.
ConnectSucceeds ==
    /\ lib = "attempting" /\ lib' = "up"
    /\ callbacks
    /\ CallbackAt("idle", "set_connected")
    /\ UNCHANGED <<clientRunning, flags, subs, brokerSubs, sending, receiving, budget>>

\* The attempt fails: on_connect_failure is next.
ConnectFails ==
    /\ lib = "attempting" /\ lib' = "down"
    /\ CallbackAt("idle", "fail_connected")
    /\ faults < MaxFaults
    /\ faults' = faults + 1
    /\ UNCHANGED <<clientRunning, flags, subs, brokerSubs, sending, receiving, rejects>>

\* The connection breaks: connlost is next.
ConnectionLost ==
    /\ lib = "up" /\ lib' = "down" /\ brokerSubs' = {}
    /\ callbacks
    /\ CallbackAt("idle", "lost")
    /\ faults < MaxFaults
    /\ faults' = faults + 1
    /\ UNCHANGED <<clientRunning, flags, subs, sending, receiving, rejects>>

\* The broker delivers a message: msgarrvd is next.
MessageArrives ==
    /\ lib = "up" /\ brokerSubs # {}
    /\ callbacks
    /\ CallbackAt("idle", "arrived")
    /\ arrivals < MaxArrivals
    /\ arrivals' = arrivals + 1
    /\ UNCHANGED <<clientRunning, flags, subs, libs, sending, recvMsgs, recvResult, budget>>

\* on_connected: connected = true ..
SetConnected ==
    /\ CallbackAt("set_connected", "set_running")
    /\ connected' = TRUE
    /\ UNCHANGED <<clientRunning, connecting, running, callbacks, joinable,
                   subs, libs, sending, receiving, budget>>

\* Mutation of SetRunning: left to disconnect, which never sets it.
SetRunningNot ==
    /\ CallbackAt("set_running", "unset_connecting")
    /\ UNCHANGED <<clientRunning, flags, subs, libs, sending, receiving, budget>>

\* .. running = true ..
SetRunning ==
    /\ CallbackAt("set_running", "unset_connecting")
    /\ running' = TRUE
    /\ UNCHANGED <<clientRunning, connected, connecting, callbacks, joinable,
                   subs, libs, sending, receiving, budget>>

\* .. connecting = false ..
UnsetConnecting ==
    /\ CallbackAt("unset_connecting", "spawn_worker")
    /\ connecting' = FALSE
    /\ UNCHANGED <<clientRunning, connected, running, callbacks, joinable,
                   subs, libs, sending, receiving, budget>>

\* Mutation of SpawnWorker: with a worker there is nothing left to do.
SpawnWorkerOrReturn ==
    /\ Alive
    /\ pcP = "spawn_worker" /\ pcP' = IF joinable THEN "idle" ELSE "lock_subs"
    /\ pcW' = IF joinable THEN pcW ELSE "loop"
    /\ joinable' = TRUE
    /\ UNCHANGED <<pcT, pcR, clientRunning, connected, connecting, running, callbacks,
                   subs, libs, sending, receiving, budget>>

\* .. start the send worker unless there is one already ..
SpawnWorker ==
    /\ Alive
    /\ pcP = "spawn_worker" /\ pcP' = "lock_subs"
    /\ pcW' = IF joinable THEN pcW ELSE "loop"
    /\ joinable' = TRUE
    /\ UNCHANGED <<pcT, pcR, clientRunning, connected, connecting, running, callbacks,
                   subs, libs, sending, receiving, budget>>

\* .. lock subs_mutex ..
LockSubs ==
    /\ CallbackAt("lock_subs", "resubscribe")
    /\ nextSub' = 1
    /\ UNCHANGED <<clientRunning, flags, subscriptions, libs, sending, receiving, budget>>

\* .. and subscribe to every topic anew, each in a critical section of mutex.
Resubscribe ==
    /\ CallbackAt("resubscribe", "resubscribe")
    /\ nextSub <= Len(subscriptions)
    /\ MutexFree
    /\ LibSubscribe(subscriptions[nextSub])
    /\ nextSub' = nextSub + 1
    /\ UNCHANGED <<clientRunning, flags, subscriptions, sending, receiving, budget>>

\* Mutation of UnlockSubs: the loop ends one topic early.
UnlockSubsEarly ==
    /\ CallbackAt("resubscribe", "idle")
    /\ nextSub >= Len(subscriptions)
    /\ nextSub' = 1
    /\ UNCHANGED <<clientRunning, flags, subscriptions, libs, sending, receiving, budget>>

\* .. and unlock it.
UnlockSubs ==
    /\ CallbackAt("resubscribe", "idle")
    /\ nextSub > Len(subscriptions)
    /\ nextSub' = 1
    /\ UNCHANGED <<clientRunning, flags, subscriptions, libs, sending, receiving, budget>>

\* on_connect_failure: connected = false ..
FailConnected ==
    /\ CallbackAt("fail_connected", "fail_connecting")
    /\ connected' = FALSE
    /\ UNCHANGED <<clientRunning, connecting, running, callbacks, joinable,
                   subs, libs, sending, receiving, budget>>

\* Mutation of FailConnecting: connecting stays set.
FailConnectingNot ==
    /\ CallbackAt("fail_connecting", "idle")
    /\ UNCHANGED <<clientRunning, flags, subs, libs, sending, receiving, budget>>

\* .. connecting = false.
FailConnecting ==
    /\ CallbackAt("fail_connecting", "idle")
    /\ connecting' = FALSE
    /\ UNCHANGED <<clientRunning, connected, running, callbacks, joinable,
                   subs, libs, sending, receiving, budget>>

\* connlost: connected = false.
ConnLost ==
    /\ CallbackAt("lost", "idle")
    /\ connected' = FALSE
    /\ UNCHANGED <<clientRunning, connecting, running, callbacks, joinable,
                   subs, libs, sending, receiving, budget>>

\* msgarrvd: recv_msgs.put(..).
MsgArrvd ==
    /\ CallbackAt("arrived", "idle")
    /\ RecvQueue!Put(arrivals)
    /\ UNCHANGED <<clientRunning, flags, subs, libs, sending, arrivals, budget>>

-----------------------------------------------------------------------------
(* W: ClientPahoC::send_worker_logic *)

\* while (running)
WorkerLoop ==
    /\ WorkerAt("loop", IF running THEN "get" ELSE "done")
    /\ UNCHANGED <<clientRunning, flags, subs, libs, sending, receiving, budget>>

\* send_msgs.get_for(100ms): a message, or none in time.
WorkerGet ==
    /\ \/ WorkerAt("get", "send") /\ SendQueue!Take("W")
       \/ WorkerAt("get", "loop") /\ SendQueue!TakeNothing("W")
    /\ UNCHANGED <<clientRunning, flags, subs, libs, sent, published, receiving, budget>>

\* Mutation of WorkerSend: a message that could not be sent is put back.
WorkerSendOrPutBack ==
    /\ WorkerAt("send", "loop")
    /\ MutexFree
    /\ IF lib = "up"
       THEN sent' = Append(sent, sendResult["W"]) /\ UNCHANGED sendMsgs
       ELSE SendQueue!Put(sendResult["W"]) /\ UNCHANGED sent
    /\ UNCHANGED <<clientRunning, flags, subs, libs, sendResult,
                   published, receiving, budget>>

\* MQTTAsync_sendMessage under mutex.  While the library is not connected it
\* returns an error, which is logged: the message is lost.
WorkerSend ==
    /\ WorkerAt("send", "loop")
    /\ MutexFree
    /\ sent' = IF lib = "up" THEN Append(sent, sendResult["W"]) ELSE sent
    /\ UNCHANGED <<clientRunning, flags, subs, libs, sendMsgs, sendResult,
                   published, receiving, budget>>

-----------------------------------------------------------------------------

\* What T does of its own accord, and what it must finish once begun.
TaskChoice ==
    \/ \E topic \in Topic : PushTopic(topic)
    \/ Publish \/ Receive \/ Disconnect

TaskDuty ==
    \/ Connect \/ SubscribeRaw
    \/ JoinReconnecter \/ CheckConnected
    \/ Stop \/ AwaitAttempt \/ CheckJoinable \/ JoinWorker
    \/ ClearSubscriptions \/ LibDisconnect \/ UnsetConnected
    \/ Destroy \/ DestroyMembers

Reconnecter ==
    \/ ReconnectLoop \/ IsConnected
    \/ ReadConnecting \/ ReadConnected \/ SetConnecting
    \/ LibConnect \/ LibConnectRejected

Callback ==
    \/ SetConnected \/ SetRunning \/ UnsetConnecting \/ SpawnWorker
    \/ LockSubs \/ Resubscribe \/ UnlockSubs
    \/ FailConnected \/ FailConnecting
    \/ ConnLost \/ MsgArrvd

Worker == WorkerLoop \/ WorkerGet \/ WorkerSend

Library ==
    \/ ConnectSucceeds \/ ConnectFails \/ ConnectionLost \/ MessageArrives

Next == TaskChoice \/ TaskDuty \/ Reconnecter \/ Callback \/ Worker \/ Library

Spec == Init /\ [][Next]_vars

(***************************************************************************)
(* Fairness.  Every thread is scheduled; the critical sections of mutex are*)
(* finite and R is the only thread that keeps coming back to it, so weak   *)
(* fairness per thread is enough.  An attempt is over after connectTimeout,*)
(* one second, one way or the other.  The task need never publish,         *)
(* subscribe or disconnect, and nothing obliges a connection to break.     *)
(***************************************************************************)
Fairness ==
    /\ WF_vars(TaskDuty)
    /\ WF_vars(Reconnecter)
    /\ WF_vars(Callback)
    /\ WF_vars(Worker)
    /\ WF_vars(ConnectSucceeds \/ ConnectFails)

FairSpec == Spec /\ Fairness

-----------------------------------------------------------------------------
(* Properties *)

\* When the reconnecter calls MQTTAsync_connect there is neither a connection
\* nor an attempt under way: reading connecting before connected, while the
\* callback writes them the other way round, is enough.  And the callbacks are
\* registered by then, although connect registers them only while running is
\* false.
NoSecondAttempt == pcR = "lib_connect" => lib = "down" /\ callbacks

\* Whenever the callbacks are through and the connection is up, the broker knows
\* every topic the task has subscribed to, however subscribing, connecting and
\* the loss of connections interleave.
SubscriptionsRestored ==
    (lib = "up" /\ pcP \in {"idle", "arrived"} /\ pcT = "use")
        => ToSet(subscriptions) \subseteq brokerSubs

\* As long as the task has not begun to disconnect, a client that was connected
\* once has a send worker that keeps going.
WorkerServes ==
    (joinable /\ clientRunning) => running /\ pcW \in {"loop", "get", "send"}

\* A message is handed to the library once at most and in the order published.
Channel == INSTANCE LossyChannel WITH
    Message <- 1 .. MaxPublish,
    pending <- IF pcW = "send" THEN <<sendResult["W"]>> \o sendMsgs ELSE sendMsgs
ImplementsLossyChannel == Channel!Spec

\* An attempt that MQTTAsync_connect rejected at once never gets the callback that
\* would unset connecting: no other attempt follows.
Stranded == rejects > 0 /\ connecting /\ ~connected /\ lib = "down" /\ pcP = "idle"

\* A client whose task does not disconnect is connected again in the end, after
\* any finite number of failed attempts and lost connections; the only one that is
\* not has had an attempt rejected, and that is how it stays.
Reconnects == (<>[]clientRunning) => <>[](connected /\ lib = "up") \/ <>[]Stranded

\* A published message does not wait forever for its turn, unless the client is
\* stranded before its first connection, without a send worker.
SendQueueDrains ==
    (<>[]clientRunning) => []<>(sendMsgs = <<>>) \/ <>[](Stranded /\ ~joinable)

\* ClientPahoC::disconnect returns when no on_connected is still going to set
\* running when it begins: the one way in which it may hang is that running = true
\* overwrites its running = false.  Neither a connection lost meanwhile nor
\* messages still waiting to be sent hold it up.
DisconnectReturnsIfSettled ==
    (pcT = "stop" /\ pcP \notin {"set_connected", "set_running"})
        ~> pcT \in {"disconnected", "terminated"}

-----------------------------------------------------------------------------
(* What the code says of itself and does not keep; each has a run of its own. *)

\* A client that was disconnected can be destroyed (the tests connect, disconnect
\* and leave the scope): std::terminate is not called for a send worker.
NoTerminate == ~(pcT = "destroy_members" /\ joinable)

\* Client::disconnect returns (the tests require it to, with and without broker).
DisconnectReturns ==
    pcT = "join_reconnecter" ~> pcT \in {"disconnected", "destroy_members", "destroyed",
                                         "terminated"}

-----------------------------------------------------------------------------
(* The inductive invariant from which MqttClient_proofs derives the safety    *)
(* properties.                                                                *)

\* Until T has joined the reconnecter; only afterwards does it touch the
\* connection.
Early == pcT \in {"start", "use", "subscribe_raw", "join_reconnecter"}

\* R runs from connect until Client::disconnect has waited for it.
ThreadsInOrder ==
    /\ ~Early => pcR = "done"
    /\ pcR = "done" => ~clientRunning
    /\ clientRunning <=> pcT \in {"use", "subscribe_raw"}
    /\ pcT = "start" => pcR = "none" /\ pcP = "idle" /\ lib = "down" /\ ~joinable

\* What the flags say of the connection while a callback catches up with it: as
\* long as connecting and connected are both unset there is nothing to catch up.
FlagsFollowConnection ==
    /\ ~connecting /\ ~connected => lib = "down" /\ pcP = "idle"
    /\ lib = "attempting" => connecting /\ pcP = "idle"
    /\ pcP \in {"set_connected", "set_running", "unset_connecting"} => connecting
    /\ pcP \in {"set_connected", "set_running", "unset_connecting", "spawn_worker",
                "lock_subs", "resubscribe", "arrived"} => lib = "up"
    /\ pcP \in {"fail_connected", "fail_connecting"} => connecting /\ lib = "down"
    /\ pcP = "lost" => connected /\ lib = "down"
    /\ lib = "up" /\ pcP # "set_connected" => connected

\* What R knows at each step of ClientPahoC::connect.
ReconnecterKnows ==
    /\ pcR \in {"read_connected", "set_connecting"} => ~connecting
    /\ pcR = "set_connecting" => ~connected
    /\ pcR = "lib_connect" => connecting /\ callbacks /\ lib = "down" /\ pcP = "idle"
    /\ running => callbacks
    /\ pcP \in {"set_connected", "set_running"} => callbacks

\* Before the task disconnects.
InUse == pcT \in {"start", "use", "subscribe_raw"}

\* A worker is only started when running is set.
WorkerKept ==
    InUse =>
        /\ pcP \in {"unset_connecting", "spawn_worker"} => running
        /\ joinable => running /\ pcW \in {"loop", "get", "send"}

\* Only a thread that send_worker owns is at work: none is started beside another.
WorkerOwned == pcW \in {"loop", "get", "send"} => joinable

\* Once the callbacks are through only the topic that T is about to subscribe to
\* may be missing; until then P has restored those before its iterator.
TopicsRestored ==
    InUse =>
        /\ subscriptions \in Seq(Topic)
        /\ nextSub \in Nat \ {0}
        /\ lib = "up" /\ pcP \in {"idle", "arrived"} =>
              \A i \in 1 .. Len(subscriptions) :
                  \/ subscriptions[i] \in brokerSubs
                  \/ pcT = "subscribe_raw" /\ i = Len(subscriptions)
        /\ pcP = "resubscribe" =>
              \A i \in 1 .. Len(subscriptions) :
                  i < nextSub => subscriptions[i] \in brokerSubs

ClientIInv ==
    /\ TypeOK
    /\ ThreadsInOrder
    /\ Early => FlagsFollowConnection
    /\ ReconnecterKnows
    /\ WorkerKept
    /\ WorkerOwned
    /\ TopicsRestored
=============================================================================
