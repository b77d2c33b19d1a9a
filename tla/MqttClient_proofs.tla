-------------------------- MODULE MqttClient_proofs --------------------------
(***************************************************************************)
(* The invariants of MqttClient, proved for any topics, any capacity of the*)
(* buffers and any number of messages, faults and rejected calls: nothing  *)
(* here depends on the bounds that TLC needs.                              *)
(***************************************************************************)
EXTENDS MqttClient, SequenceTheorems, TLAPS

\* The part of the invariant about the threads, the flags and the connection.
Control ==
    /\ ThreadsInOrder
    /\ Early => FlagsFollowConnection
    /\ ReconnecterKnows
    /\ WorkerKept

-----------------------------------------------------------------------------
(* Types: a group of variables at a time, as most steps leave most of them   *)
(* alone.                                                                    *)

LEMMA InitTypeOK == Init => TypeOK
<1> SUFFICES ASSUME Init PROVE TypeOK
  OBVIOUS
<1>1. ThreadsOK /\ FlagsOK
  BY DEF Init, ThreadsOK, FlagsOK
<1>2. TopicsOK
  BY DEF Init, TopicsOK
<1>3. SendQueue!TypeOK /\ RecvQueue!TypeOK
  BY CapacityAssumption
     DEF Init, SendQueue!Init, RecvQueue!Init, SendQueue!TypeOK, RecvQueue!TypeOK
<1>4. MessagesOK /\ BudgetOK
  BY <1>3, BoundsAssumption DEF Init, MessagesOK, BudgetOK
<1> QED BY <1>1, <1>2, <1>4 DEF TypeOK

LEMMA TaskControlTypes ==
    ASSUME ThreadsOK, FlagsOK, TaskChoice \/ TaskDuty
    PROVE  ThreadsOK' /\ FlagsOK'
<1>1. ThreadsOK'
  <2> USE DEF ThreadsOK, TaskAt
  <2>1. CASE TaskChoice
    BY <2>1 DEF TaskChoice, PushTopic, Publish, Receive, Disconnect
  <2>2. CASE Connect
    BY <2>2 DEF Connect
  <2>3. CASE SubscribeRaw \/ JoinReconnecter \/ CheckConnected \/ Stop \/ AwaitAttempt
    BY <2>3 DEF SubscribeRaw, JoinReconnecter, CheckConnected, Stop, AwaitAttempt
  <2>4. CASE CheckJoinable \/ JoinWorker \/ ClearSubscriptions \/ LibDisconnect
    BY <2>4 DEF CheckJoinable, JoinWorker, ClearSubscriptions, LibDisconnect
  <2>5. CASE UnsetConnected \/ Destroy \/ DestroyMembers
    BY <2>5 DEF UnsetConnected, Destroy, DestroyMembers
  <2> QED BY <2>1, <2>2, <2>3, <2>4, <2>5 DEF TaskDuty
<1>2. FlagsOK'
  <2> USE DEF FlagsOK, flags, libs
  <2>1. CASE TaskChoice
    BY <2>1 DEF TaskChoice, PushTopic, Publish, Receive, Disconnect
  <2>2. CASE Connect \/ Stop \/ JoinWorker \/ UnsetConnected
    BY <2>2 DEF Connect, Stop, JoinWorker, UnsetConnected
  <2>3. CASE SubscribeRaw \/ LibDisconnect \/ Destroy
    BY <2>3 DEF SubscribeRaw, LibSubscribe, LibDisconnect, Destroy
  <2>4. CASE JoinReconnecter \/ CheckConnected \/ AwaitAttempt \/ CheckJoinable
             \/ ClearSubscriptions \/ DestroyMembers
    BY <2>4 DEF JoinReconnecter, CheckConnected, AwaitAttempt, CheckJoinable,
                ClearSubscriptions, DestroyMembers
  <2> QED BY <2>1, <2>2, <2>3, <2>4 DEF TaskDuty
<1> QED BY <1>1, <1>2

LEMMA OthersControlTypes ==
    ASSUME ThreadsOK, FlagsOK, Reconnecter \/ Callback \/ Worker \/ Library
    PROVE  ThreadsOK' /\ FlagsOK'
<1> USE DEF ThreadsOK, FlagsOK, ReconnecterAt, CallbackAt, WorkerAt, flags, libs
<1>1. CASE Reconnecter
  BY <1>1 DEF Reconnecter, ReconnectLoop, IsConnected, ReadConnecting, ReadConnected,
              SetConnecting, LibConnect, LibConnectRejected
<1>2. CASE SetConnected \/ SetRunning \/ UnsetConnecting \/ SpawnWorker \/ LockSubs
  <2>1. CASE SetConnected \/ SetRunning
    BY <2>1 DEF SetConnected, SetRunning
  <2>2. CASE UnsetConnecting \/ SpawnWorker
    BY <2>2 DEF UnsetConnecting, SpawnWorker
  <2>3. CASE LockSubs
    BY <2>3 DEF LockSubs
  <2> QED BY <1>2, <2>1, <2>2, <2>3
<1>3. CASE Resubscribe \/ UnlockSubs \/ FailConnected \/ FailConnecting \/ ConnLost
           \/ MsgArrvd
  <2>1. CASE Resubscribe \/ UnlockSubs
    BY <2>1 DEF Resubscribe, LibSubscribe, UnlockSubs
  <2>2. CASE FailConnected \/ FailConnecting
    BY <2>2 DEF FailConnected, FailConnecting
  <2>3. CASE ConnLost \/ MsgArrvd
    BY <2>3 DEF ConnLost, MsgArrvd
  <2> QED BY <1>3, <2>1, <2>2, <2>3
<1>4. CASE Worker
  BY <1>4 DEF Worker, WorkerLoop, WorkerGet, WorkerSend
<1>5. CASE Library
  BY <1>5 DEF Library, ConnectSucceeds, ConnectFails, ConnectionLost, MessageArrives
<1> QED BY <1>1, <1>2, <1>3, <1>4, <1>5 DEF Callback

LEMMA TopicsOKUnchanged ==
    ASSUME TopicsOK, UNCHANGED <<subs, brokerSubs>>, pcT' = pcT \/ pcT' # "subscribe_raw"
    PROVE  TopicsOK'
BY DEF TopicsOK, subs

LEMMA TaskTopicTypes ==
    ASSUME TopicsOK, TaskChoice \/ TaskDuty
    PROVE  TopicsOK'
<1>1. ASSUME NEW topic \in Topic, PushTopic(topic)
      PROVE  TopicsOK'
  <2>1. /\ subscriptions \in Seq(Topic) /\ subscriptions' = Append(subscriptions, topic)
        /\ UNCHANGED <<nextSub, brokerSubs>>
    BY <1>1 DEF PushTopic, TopicsOK, libs
  <2>2. /\ subscriptions' \in Seq(Topic) /\ subscriptions' # <<>>
        /\ Len(subscriptions') = Len(subscriptions) + 1
    BY <2>1
  <2> QED BY <2>1, <2>2 DEF TopicsOK
<1>2. CASE SubscribeRaw
  <2>1. /\ subscriptions \in Seq(Topic) /\ subscriptions # <<>> /\ pcT' = "use"
        /\ UNCHANGED <<subscriptions, nextSub>>
    BY <1>2 DEF SubscribeRaw, TaskAt, TopicsOK, subs
  <2>2. brokerSubs' \in SUBSET (brokerSubs \cup {subscriptions[Len(subscriptions)]})
    BY <1>2 DEF SubscribeRaw, LibSubscribe, Last
  <2>3. subscriptions[Len(subscriptions)] \in Topic
    BY <2>1
  <2> QED BY <2>1, <2>2, <2>3 DEF TopicsOK
<1>3. CASE ClearSubscriptions
  <2>1. /\ subscriptions' = <<>> /\ nextSub' = 1 /\ UNCHANGED brokerSubs
        /\ pcT' # "subscribe_raw"
    BY <1>3 DEF ClearSubscriptions, TaskAt, libs
  <2>2. <<>> \in Seq(Topic) /\ 1 \in 1 .. Len(<<>>) + 1
    OBVIOUS
  <2> QED BY <2>1, <2>2 DEF TopicsOK
<1>4. CASE LibDisconnect \/ Destroy
  <2>1. /\ UNCHANGED <<subscriptions, nextSub>> /\ brokerSubs' = {}
        /\ pcT' # "subscribe_raw"
    BY <1>4 DEF LibDisconnect, Destroy, TaskAt, subs
  <2> QED BY <2>1 DEF TopicsOK
<1>5. CASE \/ Publish \/ Receive \/ Disconnect \/ Connect \/ JoinReconnecter
           \/ CheckConnected \/ Stop \/ AwaitAttempt \/ CheckJoinable \/ JoinWorker
           \/ UnsetConnected \/ DestroyMembers
  BY <1>5, TopicsOKUnchanged
     DEF Publish, Receive, Disconnect, Connect, JoinReconnecter, CheckConnected, Stop,
         AwaitAttempt, CheckJoinable, JoinWorker, UnsetConnected, DestroyMembers, TaskAt,
         libs
<1> QED BY <1>1, <1>2, <1>3, <1>4, <1>5 DEF TaskChoice, TaskDuty

LEMMA OthersTopicTypes ==
    ASSUME TopicsOK, Reconnecter \/ Callback \/ Worker \/ Library
    PROVE  TopicsOK'
<1>1. CASE Resubscribe
  <2>1. /\ nextSub <= Len(subscriptions) /\ nextSub' = nextSub + 1
        /\ UNCHANGED <<pcT, subscriptions>>
        /\ brokerSubs' \in SUBSET (brokerSubs \cup {subscriptions[nextSub]})
    BY <1>1 DEF Resubscribe, CallbackAt, LibSubscribe
  <2>2. subscriptions \in Seq(Topic) /\ nextSub \in 1 .. Len(subscriptions)
    BY <2>1 DEF TopicsOK
  <2>3. subscriptions[nextSub] \in Topic
    BY <2>2
  <2> QED BY <2>1, <2>2, <2>3 DEF TopicsOK
<1>2. CASE LockSubs \/ UnlockSubs
  <2>1. nextSub' = 1 /\ UNCHANGED <<pcT, subscriptions, brokerSubs>>
    BY <1>2 DEF LockSubs, UnlockSubs, CallbackAt, libs
  <2>2. 1 \in 1 .. Len(subscriptions) + 1
    BY DEF TopicsOK
  <2> QED BY <2>1, <2>2 DEF TopicsOK
<1>3. CASE ConnectionLost
  BY <1>3 DEF ConnectionLost, CallbackAt, subs, TopicsOK
<1>4. CASE \/ SetConnected \/ SetRunning \/ UnsetConnecting \/ SpawnWorker
           \/ FailConnected \/ FailConnecting \/ ConnLost \/ MsgArrvd
  BY <1>4, TopicsOKUnchanged
     DEF SetConnected, SetRunning, UnsetConnecting, SpawnWorker, FailConnected,
         FailConnecting, ConnLost, MsgArrvd, CallbackAt, libs
<1>5. CASE Reconnecter
  BY <1>5, TopicsOKUnchanged
     DEF Reconnecter, ReconnectLoop, IsConnected, ReadConnecting, ReadConnected,
         SetConnecting, LibConnect, LibConnectRejected, ReconnecterAt, libs
<1>6. CASE Worker
  BY <1>6, TopicsOKUnchanged
     DEF Worker, WorkerLoop, WorkerGet, WorkerSend, WorkerAt, libs
<1>7. CASE ConnectSucceeds \/ ConnectFails \/ MessageArrives
  BY <1>7, TopicsOKUnchanged
     DEF ConnectSucceeds, ConnectFails, MessageArrives, CallbackAt, libs
<1> QED BY <1>1, <1>2, <1>3, <1>4, <1>5, <1>6, <1>7 DEF Callback, Library

-----------------------------------------------------------------------------

\* Sequences of elements of any set.
LEMMA HeadAndTail ==
    ASSUME NEW S, NEW s \in Seq(S), s # <<>>
    PROVE  Head(s) \in S /\ Tail(s) \in Seq(S) /\ Len(Tail(s)) = Len(s) - 1
OBVIOUS

LEMMA Appended ==
    ASSUME NEW S, NEW s \in Seq(S), NEW e \in S
    PROVE  Append(s, e) \in Seq(S) /\ Len(Append(s, e)) = Len(s) + 1
OBVIOUS

\* What the buffers do to the type of their contents.
LEMMA SendQueueTypes ==
    ASSUME SendQueue!TypeOK,
           \/ \E m \in 1 .. MaxPublish : SendQueue!Put(m)
           \/ SendQueue!Take("W") \/ SendQueue!TakeNothing("W")
    PROVE  SendQueue!TypeOK'
<1>1. /\ sendMsgs \in Seq(1 .. MaxPublish) /\ Len(sendMsgs) <= Capacity
      /\ sendResult \in [{"W"} -> (1 .. MaxPublish) \cup {NoMessage}]
  BY DEF SendQueue!TypeOK
<1>2. ASSUME NEW m \in 1 .. MaxPublish, SendQueue!Put(m)
      PROVE  SendQueue!TypeOK'
  <2>1. CASE Len(sendMsgs) = Capacity
    <3>1. sendMsgs' = Append(Tail(sendMsgs), m) /\ sendResult' = sendResult
      BY <1>2, <2>1 DEF SendQueue!Put
    <3>2. sendMsgs # <<>>
      BY <2>1, CapacityAssumption
    <3>3. Tail(sendMsgs) \in Seq(1 .. MaxPublish) /\ Len(Tail(sendMsgs)) = Capacity - 1
      BY <1>1, <2>1, <3>2
    <3>4. sendMsgs' \in Seq(1 .. MaxPublish) /\ Len(sendMsgs') <= Capacity
      BY <3>1, <3>3, CapacityAssumption
    <3> QED BY <1>1, <3>1, <3>4 DEF SendQueue!TypeOK
  <2>2. CASE Len(sendMsgs) # Capacity
    <3>1. sendMsgs' = Append(sendMsgs, m) /\ sendResult' = sendResult
      BY <1>2, <2>2 DEF SendQueue!Put
    <3>2. sendMsgs' \in Seq(1 .. MaxPublish) /\ Len(sendMsgs') <= Capacity
      BY <1>1, <2>2, <3>1, CapacityAssumption
    <3> QED BY <1>1, <3>1, <3>2 DEF SendQueue!TypeOK
  <2> QED BY <2>1, <2>2
<1>3. CASE SendQueue!Take("W")
  <2>1. /\ sendMsgs # <<>> /\ sendMsgs' = Tail(sendMsgs)
        /\ sendResult' = [sendResult EXCEPT !["W"] = Head(sendMsgs)]
    BY <1>3 DEF SendQueue!Take
  <2>2. /\ sendMsgs' \in Seq(1 .. MaxPublish) /\ Len(sendMsgs') <= Capacity
        /\ Head(sendMsgs) \in 1 .. MaxPublish
    <3>1. /\ Head(sendMsgs) \in 1 .. MaxPublish /\ Tail(sendMsgs) \in Seq(1 .. MaxPublish)
          /\ Len(Tail(sendMsgs)) = Len(sendMsgs) - 1
      BY <1>1, <2>1, HeadAndTail
    <3>2. Len(sendMsgs) \in Nat /\ Len(sendMsgs) - 1 <= Capacity
      BY <1>1, CapacityAssumption
    <3> QED BY <2>1, <3>1, <3>2
  <2>3. sendResult' \in [{"W"} -> (1 .. MaxPublish) \cup {NoMessage}]
    BY <1>1, <2>1, <2>2
  <2> QED BY <2>2, <2>3 DEF SendQueue!TypeOK
<1>4. CASE SendQueue!TakeNothing("W")
  <2>1. sendMsgs' = sendMsgs /\ sendResult' = [sendResult EXCEPT !["W"] = NoMessage]
    BY <1>4 DEF SendQueue!TakeNothing
  <2> QED BY <1>1, <2>1 DEF SendQueue!TypeOK
<1> QED BY <1>2, <1>3, <1>4

LEMMA RecvQueueTypes ==
    ASSUME RecvQueue!TypeOK,
           \/ \E m \in 1 .. MaxArrivals : RecvQueue!Put(m)
           \/ RecvQueue!Take("T") \/ RecvQueue!TakeNothing("T")
    PROVE  RecvQueue!TypeOK'
<1>1. /\ recvMsgs \in Seq(1 .. MaxArrivals) /\ Len(recvMsgs) <= Capacity
      /\ recvResult \in [{"T"} -> (1 .. MaxArrivals) \cup {NoMessage}]
  BY DEF RecvQueue!TypeOK
<1>2. ASSUME NEW m \in 1 .. MaxArrivals, RecvQueue!Put(m)
      PROVE  RecvQueue!TypeOK'
  <2>1. CASE Len(recvMsgs) = Capacity
    <3>1. recvMsgs' = Append(Tail(recvMsgs), m) /\ recvResult' = recvResult
      BY <1>2, <2>1 DEF RecvQueue!Put
    <3>2. recvMsgs # <<>>
      BY <2>1, CapacityAssumption
    <3>3. Tail(recvMsgs) \in Seq(1 .. MaxArrivals) /\ Len(Tail(recvMsgs)) = Capacity - 1
      BY <1>1, <2>1, <3>2
    <3>4. recvMsgs' \in Seq(1 .. MaxArrivals) /\ Len(recvMsgs') <= Capacity
      BY <3>1, <3>3, CapacityAssumption
    <3> QED BY <1>1, <3>1, <3>4 DEF RecvQueue!TypeOK
  <2>2. CASE Len(recvMsgs) # Capacity
    <3>1. recvMsgs' = Append(recvMsgs, m) /\ recvResult' = recvResult
      BY <1>2, <2>2 DEF RecvQueue!Put
    <3>2. recvMsgs' \in Seq(1 .. MaxArrivals) /\ Len(recvMsgs') <= Capacity
      BY <1>1, <2>2, <3>1, CapacityAssumption
    <3> QED BY <1>1, <3>1, <3>2 DEF RecvQueue!TypeOK
  <2> QED BY <2>1, <2>2
<1>3. CASE RecvQueue!Take("T")
  <2>1. /\ recvMsgs # <<>> /\ recvMsgs' = Tail(recvMsgs)
        /\ recvResult' = [recvResult EXCEPT !["T"] = Head(recvMsgs)]
    BY <1>3 DEF RecvQueue!Take
  <2>2. /\ recvMsgs' \in Seq(1 .. MaxArrivals) /\ Len(recvMsgs') <= Capacity
        /\ Head(recvMsgs) \in 1 .. MaxArrivals
    <3>1. /\ Head(recvMsgs) \in 1 .. MaxArrivals /\ Tail(recvMsgs) \in Seq(1 .. MaxArrivals)
          /\ Len(Tail(recvMsgs)) = Len(recvMsgs) - 1
      BY <1>1, <2>1, HeadAndTail
    <3>2. Len(recvMsgs) \in Nat /\ Len(recvMsgs) - 1 <= Capacity
      BY <1>1, CapacityAssumption
    <3> QED BY <2>1, <3>1, <3>2
  <2>3. recvResult' \in [{"T"} -> (1 .. MaxArrivals) \cup {NoMessage}]
    BY <1>1, <2>1, <2>2
  <2> QED BY <2>2, <2>3 DEF RecvQueue!TypeOK
<1>4. CASE RecvQueue!TakeNothing("T")
  <2>1. recvMsgs' = recvMsgs /\ recvResult' = [recvResult EXCEPT !["T"] = NoMessage]
    BY <1>4 DEF RecvQueue!TakeNothing
  <2> QED BY <1>1, <2>1 DEF RecvQueue!TypeOK
<1> QED BY <1>2, <1>3, <1>4

LEMMA MessagesOKUnchanged ==
    ASSUME MessagesOK, UNCHANGED <<sending, receiving>>,
           pcP' = pcP \/ pcP' # "arrived", pcW' = pcW \/ pcW' # "send"
    PROVE  MessagesOK'
<1>1. UNCHANGED <<sendMsgs, sendResult, sent, published, recvMsgs, recvResult, arrivals>>
  BY DEF sending, receiving
<1>2. SendQueue!TypeOK' /\ RecvQueue!TypeOK'
  BY <1>1 DEF MessagesOK, SendQueue!TypeOK, RecvQueue!TypeOK
<1> QED BY <1>1, <1>2 DEF MessagesOK

\* The steps that put, take or send.
LEMMA TaskMessageTypes ==
    ASSUME MessagesOK, Publish \/ Receive
    PROVE  MessagesOK'
<1>1. CASE Publish
  <2>1. /\ published' = published + 1 /\ published < MaxPublish
        /\ SendQueue!Put(published') /\ UNCHANGED <<pcP, pcW, sent, receiving>>
    BY <1>1 DEF Publish, TaskAt
  <2>2. published' \in 1 .. MaxPublish
    BY <2>1, BoundsAssumption DEF MessagesOK
  <2>3. SendQueue!TypeOK' /\ UNCHANGED sendResult
    BY <2>1, <2>2, SendQueueTypes DEF MessagesOK, SendQueue!Put
  <2>4. RecvQueue!TypeOK' /\ UNCHANGED arrivals
    BY <2>1 DEF MessagesOK, RecvQueue!TypeOK, receiving
  <2> QED BY <2>1, <2>2, <2>3, <2>4 DEF MessagesOK
<1>2. CASE Receive
  <2>1. /\ RecvQueue!Take("T") \/ RecvQueue!TakeNothing("T")
        /\ UNCHANGED <<pcP, pcW, sending, arrivals>>
    BY <1>2 DEF Receive, TaskAt
  <2>2. RecvQueue!TypeOK'
    BY <2>1, RecvQueueTypes DEF MessagesOK
  <2>3. SendQueue!TypeOK' /\ UNCHANGED <<sendResult, sent, published>>
    BY <2>1 DEF MessagesOK, SendQueue!TypeOK, sending
  <2> QED BY <2>1, <2>2, <2>3 DEF MessagesOK
<1> QED BY <1>1, <1>2

LEMMA CallbackMessageTypes ==
    ASSUME MessagesOK, MessageArrives \/ MsgArrvd
    PROVE  MessagesOK'
<1>1. UNCHANGED <<pcW, sending, recvMsgs, recvResult>> \/ UNCHANGED <<pcW, sending>>
  BY DEF MessageArrives, MsgArrvd, CallbackAt
<1>2. SendQueue!TypeOK' /\ UNCHANGED <<sendResult, sent, published, pcW>>
  BY <1>1 DEF MessagesOK, SendQueue!TypeOK, sending
<1>3. CASE MessageArrives
  <2>1. arrivals < MaxArrivals /\ arrivals' = arrivals + 1 /\ UNCHANGED <<recvMsgs, recvResult>>
    BY <1>3 DEF MessageArrives
  <2>2. arrivals' \in 0 .. MaxArrivals /\ arrivals' > 0 /\ RecvQueue!TypeOK'
    BY <2>1, BoundsAssumption DEF MessagesOK, RecvQueue!TypeOK
  <2> QED BY <1>2, <2>2 DEF MessagesOK
<1>4. CASE MsgArrvd
  <2>1. /\ pcP = "arrived" /\ pcP' = "idle" /\ UNCHANGED arrivals
        /\ RecvQueue!Put(arrivals)
    BY <1>4 DEF MsgArrvd, CallbackAt
  <2>2. arrivals \in 1 .. MaxArrivals
    BY <2>1 DEF MessagesOK
  <2>3. RecvQueue!TypeOK'
    BY <2>1, <2>2, RecvQueueTypes DEF MessagesOK
  <2> QED BY <1>2, <2>1, <2>3 DEF MessagesOK
<1> QED BY <1>3, <1>4

LEMMA WorkerMessageTypes ==
    ASSUME MessagesOK, WorkerGet \/ WorkerSend
    PROVE  MessagesOK'
<1>1. UNCHANGED <<pcP, published, receiving>>
  BY DEF WorkerGet, WorkerSend, WorkerAt
<1>2. RecvQueue!TypeOK' /\ UNCHANGED <<arrivals, pcP, published>>
  BY <1>1 DEF MessagesOK, RecvQueue!TypeOK, receiving
<1>3. CASE WorkerGet
  <2>1. UNCHANGED sent
    BY <1>3 DEF WorkerGet
  <2>2. CASE SendQueue!Take("W")
    <3>1. SendQueue!TypeOK'
      BY <2>2, SendQueueTypes DEF MessagesOK
    <3>2. /\ sendMsgs \in Seq(1 .. MaxPublish) /\ sendMsgs # <<>>
          /\ sendResult \in [{"W"} -> (1 .. MaxPublish) \cup {NoMessage}]
          /\ sendResult' = [sendResult EXCEPT !["W"] = Head(sendMsgs)]
      BY <2>2 DEF MessagesOK, SendQueue!TypeOK, SendQueue!Take
    <3>3. Head(sendMsgs) \in 1 .. MaxPublish
      BY <3>2, HeadAndTail
    <3>4. sendResult'["W"] # NoMessage
      BY <3>2, <3>3, NoMessageAssumption, BoundsAssumption
    <3> QED BY <1>2, <2>1, <3>1, <3>4 DEF MessagesOK
  <2>3. CASE SendQueue!TakeNothing("W") /\ pcW' = "loop"
    <3>1. SendQueue!TypeOK'
      BY <2>3, SendQueueTypes DEF MessagesOK
    <3> QED BY <1>2, <2>1, <2>3, <3>1 DEF MessagesOK
  <2> QED BY <1>3, <2>2, <2>3 DEF WorkerGet, WorkerAt
<1>4. CASE WorkerSend
  <2>1. /\ pcW = "send" /\ pcW' = "loop" /\ UNCHANGED <<sendMsgs, sendResult>>
        /\ sent' = sent \/ sent' = Append(sent, sendResult["W"])
    BY <1>4 DEF WorkerSend, WorkerAt
  <2>2. sendResult["W"] \in 1 .. MaxPublish
    <3>1. sendResult \in [{"W"} -> (1 .. MaxPublish) \cup {NoMessage}]
      BY DEF MessagesOK, SendQueue!TypeOK
    <3> QED BY <2>1, <3>1 DEF MessagesOK
  <2>3. sent' \in Seq(1 .. MaxPublish)
    <3>1. sent \in Seq(1 .. MaxPublish)
      BY DEF MessagesOK
    <3> QED BY <2>1, <2>2, <3>1, Appended
  <2>4. SendQueue!TypeOK'
    BY <2>1 DEF MessagesOK, SendQueue!TypeOK
  <2> QED BY <1>2, <2>1, <2>3, <2>4 DEF MessagesOK
<1> QED BY <1>3, <1>4

LEMMA NextMessagesOK ==
    ASSUME MessagesOK, Next
    PROVE  MessagesOK'
<1>1. CASE TaskChoice
  <2>1. ASSUME NEW topic \in Topic, PushTopic(topic)
        PROVE  MessagesOK'
    BY <2>1, MessagesOKUnchanged DEF PushTopic, TaskAt
  <2>2. CASE Disconnect
    BY <2>2, MessagesOKUnchanged DEF Disconnect, TaskAt
  <2> QED BY <1>1, <2>1, <2>2, TaskMessageTypes DEF TaskChoice
<1>2. CASE TaskDuty
  BY <1>2, MessagesOKUnchanged
     DEF TaskDuty, Connect, SubscribeRaw, JoinReconnecter, CheckConnected, Stop,
         AwaitAttempt, CheckJoinable, JoinWorker, ClearSubscriptions, LibDisconnect,
         UnsetConnected, Destroy, DestroyMembers, TaskAt
<1>3. CASE Reconnecter
  BY <1>3, MessagesOKUnchanged
     DEF Reconnecter, ReconnectLoop, IsConnected, ReadConnecting, ReadConnected,
         SetConnecting, LibConnect, LibConnectRejected, ReconnecterAt
<1>4. CASE Callback
  <2>1. CASE \/ SetConnected \/ SetRunning \/ UnsetConnecting \/ SpawnWorker \/ LockSubs
             \/ Resubscribe \/ UnlockSubs \/ FailConnected \/ FailConnecting \/ ConnLost
    BY <2>1, MessagesOKUnchanged
       DEF SetConnected, SetRunning, UnsetConnecting, SpawnWorker, LockSubs, Resubscribe,
           UnlockSubs, FailConnected, FailConnecting, ConnLost, CallbackAt
  <2> QED BY <1>4, <2>1, CallbackMessageTypes DEF Callback
<1>5. CASE Worker
  <2>1. CASE WorkerLoop
    BY <2>1, MessagesOKUnchanged DEF WorkerLoop, WorkerAt
  <2> QED BY <1>5, <2>1, WorkerMessageTypes DEF Worker
<1>6. CASE Library
  <2>1. CASE ConnectSucceeds \/ ConnectFails \/ ConnectionLost
    BY <2>1, MessagesOKUnchanged
       DEF ConnectSucceeds, ConnectFails, ConnectionLost, CallbackAt
  <2> QED BY <1>6, <2>1, CallbackMessageTypes DEF Library
<1> QED BY <1>1, <1>2, <1>3, <1>4, <1>5, <1>6 DEF Next

LEMMA NextBudgetOK ==
    ASSUME BudgetOK, Next
    PROVE  BudgetOK'
<1> USE BoundsAssumption DEF BudgetOK
<1>1. CASE ConnectFails \/ ConnectionLost \/ LibConnectRejected
  BY <1>1 DEF ConnectFails, ConnectionLost, LibConnectRejected
<1>2. CASE ~(ConnectFails \/ ConnectionLost \/ LibConnectRejected)
  <2>1. UNCHANGED budget
    BY <1>2 DEF Next, TaskChoice, PushTopic, Publish, Receive, Disconnect,
       TaskDuty, Connect, SubscribeRaw, JoinReconnecter, CheckConnected, Stop,
       AwaitAttempt, CheckJoinable, JoinWorker, ClearSubscriptions, LibDisconnect,
       UnsetConnected, Destroy, DestroyMembers,
       Reconnecter, ReconnectLoop, IsConnected, ReadConnecting, ReadConnected,
       SetConnecting, LibConnect, Callback, SetConnected, SetRunning, UnsetConnecting,
       SpawnWorker, LockSubs, Resubscribe, UnlockSubs, FailConnected, FailConnecting,
       ConnLost, MsgArrvd, Worker, WorkerLoop, WorkerGet, WorkerSend,
       Library, ConnectSucceeds, MessageArrives
  <2> QED BY <2>1 DEF budget
<1> QED BY <1>1, <1>2

LEMMA NextTypeOK ==
    ASSUME TypeOK, [Next]_vars
    PROVE  TypeOK'
<1>1. CASE Next
  <2>1. ThreadsOK' /\ FlagsOK'
    BY <1>1, TaskControlTypes, OthersControlTypes DEF TypeOK, Next
  <2>2. TopicsOK'
    BY <1>1, TaskTopicTypes, OthersTopicTypes DEF TypeOK, Next
  <2> QED BY <1>1, <2>1, <2>2, NextMessagesOK, NextBudgetOK DEF TypeOK
<1>2. CASE UNCHANGED vars
  <2>1. ThreadsOK' /\ FlagsOK'
    BY <1>2 DEF TypeOK, ThreadsOK, FlagsOK, vars, pcs, flags, libs
  <2>2. TopicsOK' /\ BudgetOK'
    BY <1>2 DEF TypeOK, TopicsOK, BudgetOK, vars, pcs, subs, libs, budget
  <2>3. MessagesOK'
    BY <1>2, MessagesOKUnchanged DEF TypeOK, vars, pcs
  <2> QED BY <2>1, <2>2, <2>3 DEF TypeOK
<1> QED BY <1>1, <1>2

-----------------------------------------------------------------------------

LEMMA InitIInv == Init => ClientIInv
<1> SUFFICES ASSUME Init PROVE ClientIInv
  OBVIOUS
<1>1. ThreadsInOrder /\ FlagsFollowConnection /\ ReconnecterKnows
  BY DEF Init, ThreadsInOrder, Early, FlagsFollowConnection, ReconnecterKnows
<1>2. WorkerKept /\ WorkerOwned
  BY DEF Init, WorkerKept, WorkerOwned
<1>3. subscriptions = <<>> /\ nextSub = 1 /\ lib = "down" /\ pcP = "idle"
  BY DEF Init
<1>4. TopicsRestored
  BY <1>3 DEF TopicsRestored
<1> QED BY <1>1, <1>2, <1>4, InitTypeOK DEF ClientIInv

-----------------------------------------------------------------------------
(* Control is inductive by itself: one lemma for each thread.                *)

\* Before it has joined the reconnecter the task touches neither the flags nor the
\* connection; afterwards nobody relies on them.
LEMMA TaskControl ==
    ASSUME Control, TaskChoice \/ TaskDuty
    PROVE  Control'
<1> USE DEF Control, ThreadsInOrder, Early, InUse, FlagsFollowConnection,
            ReconnecterKnows, WorkerKept, TaskAt, flags, libs, budget
<1>1. ASSUME NEW topic \in Topic, PushTopic(topic)
      PROVE  Control'
  BY <1>1 DEF PushTopic
<1>2. CASE Publish
  BY <1>2 DEF Publish
<1>3. CASE Receive
  BY <1>3 DEF Receive
<1>4. CASE Disconnect
  BY <1>4 DEF Disconnect
<1>5. CASE Connect
  BY <1>5 DEF Connect
<1>6. CASE SubscribeRaw
  BY <1>6 DEF SubscribeRaw, LibSubscribe
<1>7. CASE JoinReconnecter
  BY <1>7 DEF JoinReconnecter
<1>8. CASE CheckConnected
  BY <1>8 DEF CheckConnected
<1>9. CASE Stop
  BY <1>9 DEF Stop
<1>10. CASE AwaitAttempt
  BY <1>10 DEF AwaitAttempt
<1>11. CASE CheckJoinable
  BY <1>11 DEF CheckJoinable
<1>12. CASE JoinWorker
  BY <1>12 DEF JoinWorker
<1>13. CASE ClearSubscriptions
  BY <1>13 DEF ClearSubscriptions
<1>14. CASE LibDisconnect
  BY <1>14 DEF LibDisconnect
<1>15. CASE UnsetConnected
  BY <1>15 DEF UnsetConnected
<1>16. CASE Destroy
  BY <1>16 DEF Destroy
<1>17. CASE DestroyMembers
  BY <1>17 DEF DestroyMembers
<1> QED BY <1>1, <1>2, <1>3, <1>4, <1>5, <1>6, <1>7, <1>8, <1>9, <1>10, <1>11, <1>12,
           <1>13, <1>14, <1>15, <1>16, <1>17 DEF TaskChoice, TaskDuty

\* The reconnecter starts an attempt only where both flags were unset.
LEMMA ReconnecterControl ==
    ASSUME Control, Reconnecter
    PROVE  Control'
<1> USE DEF Control, ThreadsInOrder, Early, InUse, FlagsFollowConnection,
            ReconnecterKnows, WorkerKept, ReconnecterAt, flags
<1>1. CASE ReconnectLoop
  BY <1>1 DEF ReconnectLoop, libs
<1>2. CASE IsConnected
  BY <1>2 DEF IsConnected, libs
<1>3. CASE ReadConnecting
  BY <1>3 DEF ReadConnecting, libs
<1>4. CASE ReadConnected
  BY <1>4 DEF ReadConnected, libs
<1>5. CASE SetConnecting
  BY <1>5 DEF SetConnecting, libs
<1>6. CASE LibConnect
  BY <1>6 DEF LibConnect
<1>7. CASE LibConnectRejected
  BY <1>7 DEF LibConnectRejected, libs
<1> QED BY <1>1, <1>2, <1>3, <1>4, <1>5, <1>6, <1>7 DEF Reconnecter

\* A callback sets connected before it unsets connecting, and unsets connecting
\* last.
LEMMA CallbackControl ==
    ASSUME Control, Callback
    PROVE  Control'
<1> USE DEF Control, ThreadsInOrder, Early, InUse, FlagsFollowConnection,
            ReconnecterKnows, WorkerKept, CallbackAt
<1>1. CASE SetConnected
  BY <1>1 DEF SetConnected, libs
<1>2. CASE SetRunning
  BY <1>2 DEF SetRunning, libs
<1>3. CASE UnsetConnecting
  BY <1>3 DEF UnsetConnecting, libs
<1>4. CASE SpawnWorker
  BY <1>4 DEF SpawnWorker, libs
<1>5. CASE LockSubs
  BY <1>5 DEF LockSubs, libs, flags
<1>6. CASE Resubscribe
  BY <1>6 DEF Resubscribe, LibSubscribe, flags
<1>7. CASE UnlockSubs
  BY <1>7 DEF UnlockSubs, libs, flags
<1>8. CASE FailConnected
  BY <1>8 DEF FailConnected, libs
<1>9. CASE FailConnecting
  BY <1>9 DEF FailConnecting, libs
<1>10. CASE ConnLost
  BY <1>10 DEF ConnLost, libs
<1>11. CASE MsgArrvd
  BY <1>11 DEF MsgArrvd, libs, flags
<1> QED BY <1>1, <1>2, <1>3, <1>4, <1>5, <1>6, <1>7, <1>8, <1>9, <1>10, <1>11 DEF Callback

\* The worker goes on as long as running is set.
LEMMA WorkerControl ==
    ASSUME Control, Worker
    PROVE  Control'
<1> USE DEF Control, ThreadsInOrder, Early, InUse, FlagsFollowConnection,
            ReconnecterKnows, WorkerKept, WorkerAt, flags, libs
<1>1. CASE WorkerLoop
  BY <1>1 DEF WorkerLoop
<1>2. CASE WorkerGet
  BY <1>2 DEF WorkerGet
<1>3. CASE WorkerSend
  BY <1>3 DEF WorkerSend
<1> QED BY <1>1, <1>2, <1>3 DEF Worker

\* An event of the library changes the connection and starts the callback that
\* will tell the flags.
LEMMA LibraryControl ==
    ASSUME Control, Library
    PROVE  Control'
<1> USE DEF Control, ThreadsInOrder, Early, InUse, FlagsFollowConnection,
            ReconnecterKnows, WorkerKept, CallbackAt, flags
<1>1. CASE ConnectSucceeds
  BY <1>1 DEF ConnectSucceeds
<1>2. CASE ConnectFails
  BY <1>2 DEF ConnectFails
<1>3. CASE ConnectionLost
  BY <1>3 DEF ConnectionLost
<1>4. CASE MessageArrives
  BY <1>4 DEF MessageArrives, libs
<1> QED BY <1>1, <1>2, <1>3, <1>4 DEF Library

LEMMA NextControl ==
    ASSUME Control, [Next]_vars
    PROVE  Control'
<1>1. CASE UNCHANGED vars
  BY <1>1 DEF vars, pcs, flags, libs, Control, ThreadsInOrder, Early, InUse,
              FlagsFollowConnection, ReconnecterKnows, WorkerKept
<1> QED BY <1>1, TaskControl, ReconnecterControl, CallbackControl, WorkerControl,
           LibraryControl DEF Next

-----------------------------------------------------------------------------
(* The topics at the broker                                                  *)

\* A step that leaves topics, connection and callback alone restores and forgets
\* nothing.
LEMMA TopicsUnchanged ==
    ASSUME TopicsRestored, UNCHANGED <<subs, libs, pcP>>,
           InUse' => InUse /\ (pcT = "subscribe_raw" => pcT' = "subscribe_raw")
    PROVE  TopicsRestored'
<1>1. UNCHANGED <<subscriptions, nextSub, lib, brokerSubs, pcP>>
  BY DEF subs, libs
<1> QED BY <1>1 DEF TopicsRestored, InUse

\* A topic is remembered while no callback walks over the topics, and is the last
\* one until subscribe_raw is through.
LEMMA PushTopicTopics ==
    ASSUME TopicsRestored, NEW topic \in Topic, PushTopic(topic)
    PROVE  TopicsRestored'
<1>1. /\ pcT = "use" /\ pcT' = "subscribe_raw" /\ pcP # "resubscribe"
      /\ UNCHANGED <<pcP, nextSub, lib, brokerSubs>>
      /\ subscriptions' = Append(subscriptions, topic)
  BY DEF PushTopic, TaskAt, SubsMutexFree, libs
<1>2. subscriptions \in Seq(Topic) /\ nextSub \in Nat \ {0}
  BY <1>1 DEF TopicsRestored, InUse
<1>3. /\ subscriptions' \in Seq(Topic)
      /\ Len(subscriptions') = Len(subscriptions) + 1
      /\ \A i \in 1 .. Len(subscriptions) : subscriptions'[i] = subscriptions[i]
  BY <1>1, <1>2
<1>4. ASSUME lib = "up", pcP \in {"idle", "arrived"}, NEW i \in 1 .. Len(subscriptions')
      PROVE  subscriptions'[i] \in brokerSubs \/ i = Len(subscriptions')
  <2>1. i # Len(subscriptions') => i \in 1 .. Len(subscriptions)
    BY <1>2, <1>3
  <2>2. \A j \in 1 .. Len(subscriptions) : subscriptions[j] \in brokerSubs
    BY <1>1, <1>4 DEF TopicsRestored, InUse
  <2> QED BY <1>3, <2>1, <2>2
<1> QED BY <1>1, <1>2, <1>3, <1>4 DEF TopicsRestored, InUse

\* subscribe_raw tells the broker of the last topic.
LEMMA SubscribeRawTopics ==
    ASSUME TopicsRestored, SubscribeRaw
    PROVE  TopicsRestored'
<1>1. /\ pcT = "subscribe_raw" /\ pcT' = "use"
      /\ UNCHANGED <<pcP, nextSub, lib, subscriptions>>
      /\ brokerSubs' = IF lib = "up" THEN brokerSubs \cup {subscriptions[Len(subscriptions)]}
                                     ELSE brokerSubs
  BY DEF SubscribeRaw, TaskAt, LibSubscribe, Last, subs
<1> QED BY <1>1 DEF TopicsRestored, InUse

\* The other steps of the task.
LEMMA TaskTopics ==
    ASSUME Control, TopicsRestored, TaskChoice \/ TaskDuty
    PROVE  TopicsRestored'
<1>1. ASSUME NEW topic \in Topic, PushTopic(topic)
      PROVE  TopicsRestored'
  BY <1>1, PushTopicTopics
<1>2. CASE SubscribeRaw
  BY <1>2, SubscribeRawTopics
<1>3. CASE Publish \/ Receive \/ Connect
  BY <1>3, TopicsUnchanged DEF Publish, Receive, Connect, TaskAt, InUse
<1>4. CASE \/ Disconnect \/ JoinReconnecter \/ CheckConnected \/ Stop \/ AwaitAttempt
           \/ CheckJoinable \/ JoinWorker \/ ClearSubscriptions \/ LibDisconnect
           \/ UnsetConnected \/ Destroy \/ DestroyMembers
  <2>1. ~InUse'
    BY <1>4 DEF Disconnect, JoinReconnecter, CheckConnected, Stop, AwaitAttempt,
                CheckJoinable, JoinWorker, ClearSubscriptions, LibDisconnect,
                UnsetConnected, Destroy, DestroyMembers, TaskAt, InUse
  <2> QED BY <2>1 DEF TopicsRestored, InUse
<1> QED BY <1>1, <1>2, <1>3, <1>4 DEF TaskChoice, TaskDuty

\* The reconnecter and the worker do not touch the topics; an attempt starts
\* where there is no connection.
LEMMA OthersTopics ==
    ASSUME Control, TopicsRestored, Reconnecter \/ Worker
    PROVE  TopicsRestored'
<1>1. CASE LibConnect
  <2>1. /\ lib' = "attempting"
        /\ UNCHANGED <<subscriptions, nextSub, brokerSubs, pcP, pcT>>
    BY <1>1 DEF LibConnect, ReconnecterAt, subs
  <2> QED BY <2>1 DEF TopicsRestored, InUse
<1>2. CASE \/ ReconnectLoop \/ IsConnected \/ ReadConnecting \/ ReadConnected
           \/ SetConnecting \/ LibConnectRejected
  BY <1>2, TopicsUnchanged DEF ReconnectLoop, IsConnected, ReadConnecting, ReadConnected,
     SetConnecting, LibConnectRejected, ReconnecterAt, InUse
<1>3. CASE Worker
  BY <1>3, TopicsUnchanged DEF Worker, WorkerLoop, WorkerGet, WorkerSend, WorkerAt, InUse
<1> QED BY <1>1, <1>2, <1>3 DEF Reconnecter

\* One turn of on_connected's loop.
LEMMA ResubscribeTopics ==
    ASSUME Control, TopicsRestored, Resubscribe
    PROVE  TopicsRestored'
<1> SUFFICES ASSUME InUse' PROVE TopicsRestored'
  BY DEF TopicsRestored, InUse
<1>1. /\ pcP = "resubscribe" /\ pcP' = "resubscribe"
      /\ UNCHANGED <<pcT, subscriptions, lib>>
      /\ nextSub' = nextSub + 1 /\ nextSub <= Len(subscriptions)
      /\ brokerSubs' = IF lib = "up" THEN brokerSubs \cup {subscriptions[nextSub]}
                                     ELSE brokerSubs
  BY DEF Resubscribe, CallbackAt, LibSubscribe
<1>2. lib = "up"
  BY <1>1 DEF Control, FlagsFollowConnection, Early, InUse
<1>3. /\ subscriptions \in Seq(Topic) /\ nextSub \in Nat \ {0}
      /\ \A i \in 1 .. Len(subscriptions) :
            i < nextSub => subscriptions[i] \in brokerSubs
  BY <1>1 DEF TopicsRestored, InUse
<1>4. ASSUME NEW i \in 1 .. Len(subscriptions), i < nextSub + 1
      PROVE  subscriptions[i] \in brokerSubs'
  <2>1. i < nextSub \/ i = nextSub
    BY <1>3, <1>4
  <2> QED BY <1>1, <1>2, <1>3, <2>1
<1> QED BY <1>1, <1>3, <1>4 DEF TopicsRestored, InUse

\* The callbacks: on_connected restores all topics before it is through, and the
\* failure callbacks end without a connection.
LEMMA CallbackTopics ==
    ASSUME Control, TopicsRestored, Callback
    PROVE  TopicsRestored'
<1> SUFFICES ASSUME InUse' PROVE TopicsRestored'
  BY DEF TopicsRestored, InUse
<1>1. UNCHANGED pcT
  BY DEF Callback, SetConnected, SetRunning, UnsetConnecting, SpawnWorker, LockSubs,
         Resubscribe, UnlockSubs, FailConnected, FailConnecting, ConnLost, MsgArrvd,
         CallbackAt
<1>2. FlagsFollowConnection /\ InUse
  BY <1>1 DEF Control, Early, InUse
<1>3. subscriptions \in Seq(Topic) /\ nextSub \in Nat \ {0}
  BY <1>2 DEF TopicsRestored
<1>4. CASE Resubscribe
  BY <1>4, ResubscribeTopics
<1>5. CASE LockSubs
  <2>1. /\ pcP' = "resubscribe" /\ nextSub' = 1
        /\ UNCHANGED <<subscriptions, lib, brokerSubs>>
    BY <1>5 DEF LockSubs, CallbackAt, libs
  <2> QED BY <1>3, <2>1 DEF TopicsRestored
<1>6. CASE UnlockSubs
  <2>1. /\ pcP = "resubscribe" /\ pcP' = "idle" /\ nextSub' = 1
        /\ nextSub > Len(subscriptions)
        /\ UNCHANGED <<subscriptions, lib, brokerSubs>>
    BY <1>6 DEF UnlockSubs, CallbackAt, libs
  <2>2. \A i \in 1 .. Len(subscriptions) : i < nextSub
    BY <1>3, <2>1
  <2>3. \A i \in 1 .. Len(subscriptions) : subscriptions[i] \in brokerSubs
    BY <1>2, <2>1, <2>2 DEF TopicsRestored
  <2> QED BY <1>3, <2>1, <2>3 DEF TopicsRestored
<1>7. CASE SetConnected \/ SetRunning \/ UnsetConnecting \/ SpawnWorker \/ FailConnected
  <2>1. /\ pcP' \notin {"idle", "arrived", "resubscribe"}
        /\ UNCHANGED <<subscriptions, nextSub, lib, brokerSubs>>
    BY <1>7 DEF SetConnected, SetRunning, UnsetConnecting, SpawnWorker, FailConnected,
                CallbackAt, subs, libs
  <2> QED BY <1>3, <2>1 DEF TopicsRestored
<1>8. CASE FailConnecting \/ ConnLost
  <2>1. /\ pcP' = "idle" /\ lib' = "down"
        /\ UNCHANGED <<subscriptions, nextSub>>
    BY <1>2, <1>8 DEF FailConnecting, ConnLost, CallbackAt, FlagsFollowConnection, subs, libs
  <2> QED BY <1>3, <2>1 DEF TopicsRestored
<1>9. CASE MsgArrvd
  <2>1. /\ pcP = "arrived" /\ pcP' = "idle"
        /\ UNCHANGED <<subscriptions, nextSub, lib, brokerSubs>>
    BY <1>9 DEF MsgArrvd, CallbackAt, subs, libs
  <2> QED BY <1>1, <1>2, <2>1 DEF TopicsRestored
<1> QED BY <1>4, <1>5, <1>6, <1>7, <1>8, <1>9 DEF Callback

\* The events of the library.
LEMMA LibraryTopics ==
    ASSUME Control, TopicsRestored, Library
    PROVE  TopicsRestored'
<1>1. CASE ConnectSucceeds \/ ConnectFails \/ ConnectionLost
  <2>1. /\ pcP' \notin {"idle", "arrived", "resubscribe"}
        /\ UNCHANGED <<subscriptions, nextSub, pcT>>
    BY <1>1 DEF ConnectSucceeds, ConnectFails, ConnectionLost, CallbackAt, subs
  <2> QED BY <2>1 DEF TopicsRestored, InUse
<1>2. CASE MessageArrives
  <2>1. /\ pcP = "idle" /\ pcP' = "arrived"
        /\ UNCHANGED <<subscriptions, nextSub, lib, brokerSubs, pcT>>
    BY <1>2 DEF MessageArrives, CallbackAt, subs, libs
  <2> QED BY <2>1 DEF TopicsRestored, InUse
<1> QED BY <1>1, <1>2 DEF Library

\* SpawnWorker starts a thread only if there is none to be joined, and JoinWorker
\* gives one up only when it is done.
LEMMA NextWorkerOwned == WorkerOwned /\ [Next]_vars => WorkerOwned'
<1> SUFFICES ASSUME WorkerOwned, [Next]_vars PROVE WorkerOwned'
  OBVIOUS
<1> USE DEF WorkerOwned, flags, pcs
<1>1. CASE TaskChoice \/ Connect \/ SubscribeRaw \/ JoinReconnecter \/ CheckConnected
  BY <1>1 DEF TaskChoice, PushTopic, Publish, Receive, Disconnect, Connect, SubscribeRaw,
              JoinReconnecter, CheckConnected, TaskAt
<1>2. CASE Stop \/ AwaitAttempt \/ CheckJoinable \/ JoinWorker \/ ClearSubscriptions
  BY <1>2 DEF Stop, AwaitAttempt, CheckJoinable, JoinWorker, ClearSubscriptions, TaskAt
<1>3. CASE LibDisconnect \/ UnsetConnected \/ Destroy \/ DestroyMembers
  BY <1>3 DEF LibDisconnect, UnsetConnected, Destroy, DestroyMembers, TaskAt
<1>4. CASE Reconnecter
  BY <1>4 DEF Reconnecter, ReconnectLoop, IsConnected, ReadConnecting, ReadConnected,
              SetConnecting, LibConnect, LibConnectRejected, ReconnecterAt
<1>5. CASE Callback
  BY <1>5 DEF Callback, SetConnected, SetRunning, UnsetConnecting, SpawnWorker, LockSubs,
              Resubscribe, UnlockSubs, FailConnected, FailConnecting, ConnLost, MsgArrvd,
              CallbackAt
<1>6. CASE Worker
  BY <1>6 DEF Worker, WorkerLoop, WorkerGet, WorkerSend, WorkerAt
<1>7. CASE Library
  BY <1>7 DEF Library, ConnectSucceeds, ConnectFails, ConnectionLost, MessageArrives,
              CallbackAt
<1>8. CASE UNCHANGED vars
  BY <1>8 DEF vars
<1> QED BY <1>1, <1>2, <1>3, <1>4, <1>5, <1>6, <1>7, <1>8 DEF Next, TaskDuty

LEMMA NextIInv == ClientIInv /\ [Next]_vars => ClientIInv'
<1> SUFFICES ASSUME ClientIInv, [Next]_vars PROVE ClientIInv'
  OBVIOUS
<1>1. Control /\ TopicsRestored
  BY DEF ClientIInv, Control
<1>2. Control'
  BY <1>1, NextControl
<1>3. ASSUME UNCHANGED vars
      PROVE  TopicsRestored'
  <2>1. UNCHANGED <<subs, libs, pcP, pcT>>
    BY <1>3 DEF vars, pcs
  <2> QED BY <1>1, <2>1, TopicsUnchanged DEF InUse
<1>4. TopicsRestored'
  BY <1>1, <1>3, TaskTopics, OthersTopics, CallbackTopics, LibraryTopics DEF Next
<1>5. TypeOK' /\ WorkerOwned'
  BY NextTypeOK, NextWorkerOwned DEF ClientIInv
<1> QED BY <1>2, <1>4, <1>5 DEF ClientIInv, Control

-----------------------------------------------------------------------------

\* The types, and the flags, the connection, the worker and the topics agree as ClientIInv
\* says, for
\* any number of topics, messages, faults and rejected calls.
THEOREM Invariance == Spec => []ClientIInv
BY InitIInv, NextIInv, PTL DEF Spec

\* The reconnecter never starts an attempt beside a connection or another attempt,
\* and the callbacks are registered when it starts one.
THEOREM OneAttempt == Spec => []NoSecondAttempt
<1>1. ClientIInv => NoSecondAttempt
  BY DEF ClientIInv, ReconnecterKnows, NoSecondAttempt
<1> QED BY Invariance, <1>1, PTL

\* No interleaving of subscribing, connecting and losing the connection leaves a
\* topic of the task unknown to the broker.
THEOREM TopicsAtBroker == Spec => []SubscriptionsRestored
<1>1. ClientIInv => SubscriptionsRestored
  <2> SUFFICES ASSUME ClientIInv, lib = "up", pcP \in {"idle", "arrived"}, pcT = "use"
               PROVE  ToSet(subscriptions) \subseteq brokerSubs
    BY DEF SubscriptionsRestored
  <2>1. /\ subscriptions \in Seq(Topic)
        /\ \A i \in 1 .. Len(subscriptions) : subscriptions[i] \in brokerSubs
    BY DEF ClientIInv, TopicsRestored, InUse
  <2> QED BY <2>1 DEF ToSet
<1> QED BY Invariance, <1>1, PTL

\* Until the task disconnects, a client that was connected once keeps its worker.
THEOREM WorkerStays == Spec => []WorkerServes
<1>1. ClientIInv => WorkerServes
  BY DEF ClientIInv, ThreadsInOrder, WorkerKept, InUse, WorkerServes
<1> QED BY Invariance, <1>1, PTL

-----------------------------------------------------------------------------
(* The client implements LossyChannel: what is pending there is the message    *)
(* in the worker's hands, if it has one, and what waits in the buffer.          *)

Pending == IF pcW = "send" THEN <<sendResult["W"]>> \o sendMsgs ELSE sendMsgs

\* Taking out the first message, or the one after it.
LEMMA FirstRemoved ==
    ASSUME NEW S, NEW s \in Seq(S), s # <<>>
    PROVE  1 \in 1 .. Len(s) /\ Channel!RemoveAt(s, 1) = Tail(s)
<1>1. Len(s) \in Nat /\ Len(s) # 0
  BY LenProperties
<1>2. SubSeq(s, 1, 0) = <<>> /\ SubSeq(s, 2, Len(s)) = Tail(s)
  BY <1>1
<1>3. Channel!RemoveAt(s, 1) = SubSeq(s, 1, 0) \o SubSeq(s, 2, Len(s))
  BY DEF Channel!RemoveAt
<1>4. Tail(s) \in Seq(S)
  BY HeadTailProperties
<1>5. <<>> \o Tail(s) = Tail(s)
  BY <1>4, ConcatEmptySeq
<1> QED BY <1>1, <1>2, <1>3, <1>5

LEMMA SecondRemoved ==
    ASSUME NEW S, NEW s \in Seq(S), s # <<>>, NEW x \in S
    PROVE  /\ 2 \in 1 .. Len(<<x>> \o s)
           /\ Channel!RemoveAt(<<x>> \o s, 2) = <<x>> \o Tail(s)
<1> DEFINE all == <<x>> \o s
<1>1. Len(s) \in Nat /\ Len(s) # 0 /\ all \in Seq(S) /\ Len(all) = Len(s) + 1
  BY LenProperties
<1>2. SubSeq(all, 1, 1) = <<x>>
  <2>1. <<x>> \in Seq(S) /\ 1 \in 1 .. Len(<<x>>)
    OBVIOUS
  <2>2. SubSeq(<<x>>, 1, 1) = <<x>>
    BY <2>1, SubSeqFull
  <2> QED BY <2>1, <2>2, SubSeqOfConcat1
<1>3. SubSeq(all, 3, Len(all)) = Tail(s)
  BY <1>1
<1>4. Channel!RemoveAt(all, 2) = SubSeq(all, 1, 1) \o SubSeq(all, 3, Len(all))
  BY DEF Channel!RemoveAt
<1>5. 2 \in 1 .. Len(all)
  <2> HIDE DEF all
  <2> QED BY <1>1
<1> QED BY <1>2, <1>3, <1>4, <1>5

LEMMA ConcatAppend ==
    ASSUME NEW S, NEW s \in Seq(S), NEW x \in S, NEW y \in S
    PROVE  <<x>> \o Append(s, y) = Append(<<x>> \o s, y)
<1>1. <<x>> \in Seq(S) /\ <<y>> \in Seq(S) /\ <<x>> \o s \in Seq(S)
  BY ConcatProperties
<1> QED BY <1>1, AppendIsConcat, ConcatAssociative

LEMMA InitPending == Init => Channel!Init
BY DEF Init, SendQueue!Init, Channel!Init

\* The steps that touch neither the buffer nor what the worker holds.
LEMMA QuietPending ==
    ASSUME UNCHANGED <<sendMsgs, sendResult, sent>>, pcW' = "send" <=> pcW = "send"
    PROVE  UNCHANGED Channel!vars
BY DEF Channel!vars

\* A published message goes to the end; if the buffer is full it pushes out the oldest
\* one there, which is the second if the worker holds one.
LEMMA PublishPending ==
    ASSUME ClientIInv, Publish
    PROVE  \E m \in 1 .. MaxPublish : Channel!Publish(m)
<1> DEFINE m == published + 1
<1>1. /\ m \in 1 .. MaxPublish /\ SendQueue!Put(m)
      /\ sent' = sent /\ pcW' = pcW /\ sendResult' = sendResult
  BY BoundsAssumption
     DEF ClientIInv, TypeOK, MessagesOK, Publish, TaskAt, SendQueue!Put
<1>2. /\ sendMsgs \in Seq(1 .. MaxPublish) /\ Len(sendMsgs) \in Nat
      /\ sendResult \in [{"W"} -> (1 .. MaxPublish) \cup {NoMessage}]
      /\ pcW = "send" => sendResult["W"] \in 1 .. MaxPublish
  BY DEF ClientIInv, TypeOK, MessagesOK, SendQueue!TypeOK
<1> HIDE DEF m
<1>3. CASE Len(sendMsgs) = Capacity
  <2>1. sendMsgs # <<>> /\ sendMsgs' = Append(Tail(sendMsgs), m)
    BY <1>1, <1>3, CapacityAssumption DEF SendQueue!Put
  <2>2. CASE pcW = "send"
    <3>1. /\ 2 \in 1 .. Len(Pending)
          /\ Channel!RemoveAt(Pending, 2) = <<sendResult["W"]>> \o Tail(sendMsgs)
      BY <1>2, <2>1, <2>2, SecondRemoved DEF Pending
    <3>2. Pending' = <<sendResult["W"]>> \o Append(Tail(sendMsgs), m)
      BY <1>1, <2>1, <2>2 DEF Pending
    <3>3. Pending' = Append(Channel!RemoveAt(Pending, 2), m)
      <4>1. Tail(sendMsgs) \in Seq(1 .. MaxPublish)
        BY <1>2, <2>1, HeadTailProperties
      <4> QED BY <1>1, <1>2, <2>2, <3>1, <3>2, <4>1, ConcatAppend
    <3> QED BY <1>1, <3>1, <3>3 DEF Channel!Publish, Pending
  <2>3. CASE pcW # "send"
    <3>1. 1 \in 1 .. Len(Pending) /\ Channel!RemoveAt(Pending, 1) = Tail(sendMsgs)
      <4>1. Pending = sendMsgs
        BY <2>3 DEF Pending
      <4> QED BY <1>2, <2>1, <4>1, FirstRemoved
    <3>2. Pending' = Append(Channel!RemoveAt(Pending, 1), m)
      BY <1>1, <2>1, <2>3, <3>1 DEF Pending
    <3> QED BY <1>1, <3>1, <3>2 DEF Channel!Publish, Pending
  <2> QED BY <2>2, <2>3
<1>4. CASE Len(sendMsgs) # Capacity
  <2>1. sendMsgs' = Append(sendMsgs, m)
    BY <1>1, <1>4 DEF SendQueue!Put
  <2>2. Pending' = Append(Pending, m)
    BY <1>1, <1>2, <2>1 DEF Pending
  <2> QED BY <1>1, <2>2 DEF Channel!Publish, Pending
<1> QED BY <1>3, <1>4

\* The worker takes the first message into its hands, where it stays the first.
LEMMA TakePending ==
    ASSUME ClientIInv, WorkerGet
    PROVE  UNCHANGED Channel!vars
<1>1. CASE WorkerAt("get", "send") /\ SendQueue!Take("W")
  <2>1. /\ sendMsgs \in Seq(1 .. MaxPublish)
        /\ sendResult \in [{"W"} -> (1 .. MaxPublish) \cup {NoMessage}]
    BY DEF ClientIInv, TypeOK, MessagesOK, SendQueue!TypeOK
  <2>2. /\ pcW = "get" /\ pcW' = "send" /\ sent' = sent
        /\ sendMsgs # <<>> /\ sendMsgs' = Tail(sendMsgs)
        /\ sendResult'["W"] = Head(sendMsgs)
    BY <1>1, <2>1 DEF WorkerGet, WorkerAt, SendQueue!Take
  <2>3. sendMsgs = <<Head(sendMsgs)>> \o Tail(sendMsgs)
    BY <2>1, <2>2
  <2> QED BY <2>2, <2>3 DEF Channel!vars
<1>2. CASE WorkerAt("get", "loop") /\ SendQueue!TakeNothing("W")
  BY <1>2 DEF WorkerGet, WorkerAt, SendQueue!TakeNothing, Channel!vars
<1> QED BY <1>1, <1>2 DEF WorkerGet

\* The worker hands over the first message, or loses it.
LEMMA SendPending ==
    ASSUME ClientIInv, WorkerSend
    PROVE  Channel!HandOver \/ Channel!Lose
<1>1. /\ sendMsgs \in Seq(1 .. MaxPublish) /\ sendResult["W"] \in 1 .. MaxPublish
      /\ pcW = "send" /\ pcW' = "loop" /\ sendMsgs' = sendMsgs
  BY DEF ClientIInv, TypeOK, MessagesOK, SendQueue!TypeOK, WorkerSend, WorkerAt
<1>2. /\ Pending = <<sendResult["W"]>> \o sendMsgs /\ Pending' = sendMsgs
      /\ Pending \in Seq(1 .. MaxPublish) /\ Pending # <<>>
      /\ Head(Pending) = sendResult["W"] /\ Tail(Pending) = sendMsgs
  BY <1>1 DEF Pending
<1>3. CASE lib = "up"
  <2>1. sent' = Append(sent, sendResult["W"])
    BY <1>3 DEF WorkerSend
  <2> QED BY <1>2, <2>1 DEF Channel!HandOver, Pending
<1>4. CASE lib # "up"
  <2>1. sent' = sent
    BY <1>4 DEF WorkerSend
  <2>2. 1 \in 1 .. Len(Pending) /\ Pending' = Channel!RemoveAt(Pending, 1)
    BY <1>2, FirstRemoved
  <2> QED BY <2>1, <2>2 DEF Channel!Lose, Pending
<1> QED BY <1>3, <1>4

\* Everything else leaves the channel alone; a worker that is started has no message,
\* as the one before is done.
LEMMA OthersPending ==
    ASSUME ClientIInv, [Next]_vars, ~Publish, ~WorkerGet, ~WorkerSend
    PROVE  UNCHANGED Channel!vars
<1>1. UNCHANGED <<sendMsgs, sendResult, sent>>
  <2> USE DEF sending
  <2>1. CASE TaskChoice \/ Connect \/ SubscribeRaw \/ JoinReconnecter \/ CheckConnected
    BY <2>1 DEF TaskChoice, PushTopic, Receive, Disconnect, Connect, SubscribeRaw,
                JoinReconnecter, CheckConnected
  <2>2. CASE Stop \/ AwaitAttempt \/ CheckJoinable \/ JoinWorker \/ ClearSubscriptions
    BY <2>2 DEF Stop, AwaitAttempt, CheckJoinable, JoinWorker, ClearSubscriptions
  <2>3. CASE LibDisconnect \/ UnsetConnected \/ Destroy \/ DestroyMembers
    BY <2>3 DEF LibDisconnect, UnsetConnected, Destroy, DestroyMembers
  <2>4. CASE Reconnecter
    BY <2>4 DEF Reconnecter, ReconnectLoop, IsConnected, ReadConnecting, ReadConnected,
                SetConnecting, LibConnect, LibConnectRejected
  <2>5. CASE Callback
    BY <2>5 DEF Callback, SetConnected, SetRunning, UnsetConnecting, SpawnWorker, LockSubs,
                Resubscribe, UnlockSubs, FailConnected, FailConnecting, ConnLost, MsgArrvd
  <2>6. CASE WorkerLoop \/ Library
    BY <2>6 DEF WorkerLoop, Library, ConnectSucceeds, ConnectFails, ConnectionLost,
                MessageArrives
  <2>7. CASE UNCHANGED vars
    BY <2>7 DEF vars
  <2> QED BY <2>1, <2>2, <2>3, <2>4, <2>5, <2>6, <2>7 DEF Next, TaskDuty, Worker
<1>2. pcW' = "send" <=> pcW = "send"
  <2>1. CASE TaskChoice \/ TaskDuty
    BY <2>1 DEF TaskChoice, TaskDuty, PushTopic, Receive, Disconnect, Connect,
                SubscribeRaw, JoinReconnecter, CheckConnected, Stop, AwaitAttempt,
                CheckJoinable, JoinWorker, ClearSubscriptions, LibDisconnect,
                UnsetConnected, Destroy, DestroyMembers, TaskAt
  <2>2. CASE Reconnecter
    BY <2>2 DEF Reconnecter, ReconnectLoop, IsConnected, ReadConnecting, ReadConnected,
                SetConnecting, LibConnect, LibConnectRejected, ReconnecterAt
  <2>3. CASE Callback
    BY <2>3 DEF Callback, SetConnected, SetRunning, UnsetConnecting, SpawnWorker, LockSubs,
                Resubscribe, UnlockSubs, FailConnected, FailConnecting, ConnLost, MsgArrvd,
                CallbackAt, ClientIInv, WorkerOwned
  <2>4. CASE WorkerLoop \/ Library
    BY <2>4 DEF WorkerLoop, WorkerAt, Library, ConnectSucceeds, ConnectFails,
                ConnectionLost, MessageArrives, CallbackAt
  <2>5. CASE UNCHANGED vars
    BY <2>5 DEF vars, pcs
  <2> QED BY <2>1, <2>2, <2>3, <2>4, <2>5 DEF Next, Worker
<1> QED BY <1>1, <1>2, QuietPending

\* Whatever threads, callbacks and connections do, a message is handed to the library
\* once at most and in the order in which the messages were published.
THEOREM Refinement == Spec => ImplementsLossyChannel
<1>1. Init => Channel!Init
  BY InitPending
<1>2. ClientIInv /\ [Next]_vars => [Channel!Next]_(Channel!vars)
  <2> SUFFICES ASSUME ClientIInv, [Next]_vars PROVE [Channel!Next]_(Channel!vars)
    OBVIOUS
  <2> QED BY PublishPending, TakePending, SendPending, OthersPending DEF Channel!Next
<1> QED BY Invariance, <1>1, <1>2, PTL DEF Spec, ImplementsLossyChannel, Channel!Spec
=============================================================================
