-------------------------- MODULE RemoteLight_proofs --------------------------
(***************************************************************************)
(* From a button to a light of another runtime, for any local buttons, any *)
(* capacity of the receiver's buffer and any number of presses, losses and *)
(* repetitions.                                                            *)
(***************************************************************************)
EXTENDS RemoteLight, SequenceTheorems, TLAPS

-----------------------------------------------------------------------------
(* What the channel and the queue do to the number of their messages         *)

\* RemoveAt takes one message out and leaves the others in their order.
LEMMA RemoveOne ==
    ASSUME NEW S, NEW s \in Seq(S), NEW i \in 1 .. Len(s)
    PROVE  /\ Channel!RemoveAt(s, i) \in Seq(S)
           /\ Len(Channel!RemoveAt(s, i)) = Len(s) - 1
<1>1. /\ \A j \in 1 .. i - 1 : s[j] \in S
      /\ \A j \in i + 1 .. Len(s) : s[j] \in S
  BY ElementOfSeq
<1> DEFINE before == SubSeq(s, 1, i - 1)
           after == SubSeq(s, i + 1, Len(s))
<1>2. before \in Seq(S) /\ Len(before) = i - 1
  BY <1>1
<1>3. after \in Seq(S) /\ Len(after) = Len(s) - i
  BY <1>1, SubSeqProperties
<1>4. before \o after \in Seq(S) /\ Len(before \o after) = Len(before) + Len(after)
  <2> HIDE DEF before, after
  <2> QED BY <1>2, <1>3, ConcatProperties
<1>5. Channel!RemoveAt(s, i) = before \o after
  BY DEF Channel!RemoveAt
<1>6. Len(s) \in Nat
  OBVIOUS
<1> HIDE DEF before, after
<1>7. Len(before) + Len(after) = Len(s) - 1
  BY <1>2, <1>3, <1>6
<1> QED BY <1>4, <1>5, <1>7

LEMMA PublishEffect ==
    ASSUME pending \in Seq(Press), NEW m \in Press, Channel!Publish(m)
    PROVE  /\ pending' \in Seq(Press)
           /\ Len(pending') \in {Len(pending), Len(pending) + 1}
           /\ sent' = sent
<1>1. CASE pending' = Append(pending, m)
  BY <1>1 DEF Channel!Publish
<1>2. ASSUME NEW i \in 1 .. Len(pending),
             pending' = Append(Channel!RemoveAt(pending, i), m)
      PROVE  pending' \in Seq(Press) /\ Len(pending') = Len(pending)
  BY <1>2, RemoveOne
<1> QED BY <1>1, <1>2 DEF Channel!Publish

LEMMA LoseEffect ==
    ASSUME pending \in Seq(Press), Channel!Lose
    PROVE  /\ pending' \in Seq(Press) /\ Len(pending') = Len(pending) - 1
           /\ sent' = sent
<1>1. PICK i \in 1 .. Len(pending) : pending' = Channel!RemoveAt(pending, i)
  BY DEF Channel!Lose
<1> QED BY <1>1, RemoveOne DEF Channel!Lose

LEMMA HandOverEffect ==
    ASSUME pending \in Seq(Press), sent \in Seq(Press), Channel!HandOver
    PROVE  /\ pending' \in Seq(Press) /\ Len(pending') = Len(pending) - 1
           /\ sent' \in Seq(Press) /\ Len(sent') = Len(sent) + 1
BY HeadTailProperties DEF Channel!HandOver

\* A message that meets a full buffer pushes one out, which PutMessage counts.
LEMMA PutEffect ==
    ASSUME Queue!TypeOK, lost \in 0 .. MaxLost, NEW m \in Press, PutMessage(m)
    PROVE  /\ Queue!TypeOK'
           /\ lost' \in 0 .. MaxLost
           /\ Len(recvMsgs') \in Nat /\ lost' \in Nat
           /\ Len(recvMsgs') + lost' = Len(recvMsgs) + lost + 1
<1>1. /\ recvMsgs \in Seq(Press) /\ Len(recvMsgs) <= Capacity
      /\ received \in [{Receiver} -> Press \cup {NoMessage}]
      /\ received' = received
  BY DEF Queue!TypeOK, PutMessage, Queue!Put
<1>2. CASE Len(recvMsgs) = Capacity
  <2>1. recvMsgs # <<>>
    BY <1>2, CapacityAssumption
  <2>2. Tail(recvMsgs) \in Seq(Press) /\ Len(Tail(recvMsgs)) = Capacity - 1
    BY <1>1, <1>2, <2>1, HeadTailProperties
  <2>3. recvMsgs' = Append(Tail(recvMsgs), m) /\ lost' = lost + 1 /\ lost' <= MaxLost
    BY <1>2 DEF PutMessage, Queue!Put, One
  <2>4. recvMsgs' \in Seq(Press) /\ Len(recvMsgs') = Capacity
    BY <2>2, <2>3, CapacityAssumption
  <2>5. Queue!TypeOK'
    BY <1>1, <2>4, CapacityAssumption DEF Queue!TypeOK
  <2> QED BY <1>2, <2>3, <2>4, <2>5, BoundsAssumption, CapacityAssumption
<1>3. CASE Len(recvMsgs) # Capacity
  <2>1. recvMsgs' = Append(recvMsgs, m) /\ lost' = lost
    BY <1>3 DEF PutMessage, Queue!Put, One
  <2>2. recvMsgs' \in Seq(Press) /\ Len(recvMsgs') = Len(recvMsgs) + 1
    BY <1>1, <2>1
  <2> QED BY <1>1, <1>3, <2>1, <2>2, CapacityAssumption DEF Queue!TypeOK
<1> QED BY <1>2, <1>3

LEMMA TakeEffect ==
    ASSUME Queue!TypeOK, Queue!Take(Receiver)
    PROVE  Queue!TypeOK' /\ Len(recvMsgs') = Len(recvMsgs) - 1
<1>1. recvMsgs \in Seq(Press) /\ recvMsgs # <<>> /\ Len(recvMsgs) <= Capacity
  BY DEF Queue!TypeOK, Queue!Take
<1>2. /\ Head(recvMsgs) \in Press /\ Tail(recvMsgs) \in Seq(Press)
      /\ Len(Tail(recvMsgs)) = Len(recvMsgs) - 1
  BY <1>1, HeadTailProperties
<1> QED BY <1>1, <1>2, CapacityAssumption DEF Queue!TypeOK, Queue!Take

-----------------------------------------------------------------------------
(* Types, and what the tasks know of their own cycle                         *)

\* The sender's side of the invariant, which no step of the others touches ..
SenderOK ==
    /\ pcSender \in {"before", "execute", "after"}
    /\ {button, last} \subseteq [Button -> BOOLEAN]
    /\ light \in [LocalButton -> BOOLEAN]
    /\ lightRemote \in BOOLEAN /\ outputValue \in BOOLEAN
    /\ presses \in [Button -> 0 .. MaxPresses]
    /\ TriggersFollowButtons
    /\ RisesAreSingle
    /\ \A b \in LocalButton :
          (light[b] # (pcSender = "execute" /\ Rising(b))) <=> presses[b] % 2 = 1

\* .. the receiver's side ..
ReceiverOK ==
    /\ pcReceiver \in {"before", "drain", "execute"}
    /\ pulse \in BOOLEAN /\ lightA \in BOOLEAN
    /\ toggles \in Nat /\ merged \in Nat /\ taken \in Nat
    /\ PulseIsNews
    /\ lightA <=> toggles % 2 = 1

\* .. and what is on the way from the one to the other.
WayOK ==
    /\ pending \in Seq(Press) /\ sent \in Seq(Press)
    /\ forwarded \in 0 .. Len(sent)
    /\ Queue!TypeOK
    /\ lost \in 0 .. MaxLost /\ duplicated \in 0 .. MaxDuplicated

LEMMA IInvParts == LightIInv <=> SenderOK /\ ReceiverOK /\ WayOK /\ PressesAccounted
BY DEF LightIInv, SenderOK, ReceiverOK, WayOK, TypeOK, LightsCount

LEMMA InitIInv == Init => LightIInv
<1> SUFFICES ASSUME Init PROVE LightIInv
  OBVIOUS
<1>0. 0 % 2 # 1
  OBVIOUS
<1>1. SenderOK
  <2>1. /\ button \in [Button -> BOOLEAN] /\ last = button
        /\ presses \in [Button -> 0 .. MaxPresses]
        /\ light \in [LocalButton -> BOOLEAN]
    BY BoundsAssumption DEF Init
  <2>2. \A b \in Button : ~button[b]
    BY DEF Init
  <2>3. \A b \in LocalButton :
           (light[b] # (pcSender = "execute" /\ Rising(b))) <=> presses[b] % 2 = 1
    BY <1>0 DEF Init, Button
  <2> QED BY <2>1, <2>2, <2>3 DEF Init, SenderOK, TriggersFollowButtons, RisesAreSingle
<1>2. ReceiverOK
  <2>1. toggles = 0 /\ lightA = FALSE
    BY DEF Init
  <2>2. lightA <=> toggles % 2 = 1
    BY <1>0, <2>1
  <2> QED BY <2>2 DEF Init, ReceiverOK, PulseIsNews
<1>3. WayOK /\ pending = <<>> /\ sent = <<>> /\ recvMsgs = <<>>
  BY BoundsAssumption, CapacityAssumption
     DEF Init, WayOK, Channel!Init, Queue!Init, Queue!TypeOK
<1>4. Unpublished = 0 /\ Untoggled = 0
  BY DEF Init, Unpublished, Untoggled, One
<1>5. PressesAccounted
  BY <1>3, <1>4 DEF Init, PressesAccounted, OnTheWay, Button
<1> QED BY <1>1, <1>2, <1>3, <1>5, IInvParts

\* A press is counted when the task sees it, at which time a trigger is about to.
LEMMA ReadButtonsSender ==
    ASSUME SenderOK, ReadButtons
    PROVE  /\ SenderOK'
           /\ presses'[RemoteButton] = presses[RemoteButton] + Unpublished'
<1>1. /\ pcSender = "before" /\ pcSender' = "execute"
      /\ button' \in [Button -> BOOLEAN]
      /\ presses' = [b \in Button |-> presses[b] + One(button'[b] /\ ~button[b])]
      /\ \A b \in Button : presses'[b] <= MaxPresses
      /\ UNCHANGED <<last, light, lightRemote, outputValue>>
  BY DEF ReadButtons
<1>2. last = button /\ outputValue = lightRemote
  BY <1>1 DEF SenderOK, TriggersFollowButtons, RisesAreSingle
<1>3. ASSUME NEW b \in Button
      PROVE  /\ presses[b] \in Nat /\ button[b] \in BOOLEAN /\ button'[b] \in BOOLEAN
             /\ Rising(b)' <=> button'[b] /\ ~button[b]
             /\ presses'[b] = presses[b] + One(Rising(b)')
             /\ presses'[b] \in 0 .. MaxPresses
  <2>1. presses[b] \in Nat /\ button[b] \in BOOLEAN /\ button'[b] \in BOOLEAN
    BY <1>1, BoundsAssumption DEF SenderOK
  <2>2. Rising(b)' <=> button'[b] /\ ~button[b]
    BY <1>1, <1>2, <2>1 DEF Rising
  <2>3. presses'[b] = presses[b] + One(Rising(b)')
    BY <1>1, <2>2 DEF One
  <2>4. One(Rising(b)') \in {0, 1} /\ presses'[b] <= MaxPresses
    BY <1>1 DEF One
  <2> QED BY <2>1, <2>2, <2>3, <2>4, BoundsAssumption
<1>4. RemoteButton \in Button /\ \A b \in LocalButton : b \in Button
  BY DEF Button
<1>5. presses' \in [Button -> 0 .. MaxPresses]
  BY <1>1, <1>3
<1>6. RisesAreSingle'
  <2>1. outputValue' => last'[RemoteButton]
    BY <1>1, <1>4 DEF SenderOK, RisesAreSingle
  <2>2. lightRemote' => last'[RemoteButton] /\ presses'[RemoteButton] > 0
    BY <1>1, <1>3, <1>4 DEF SenderOK, RisesAreSingle, One
  <2>3. ASSUME NEW b \in Button, button'[b]
        PROVE  presses'[b] > 0
    BY <1>3, <2>3 DEF SenderOK, RisesAreSingle, One
  <2> QED BY <1>1, <2>1, <2>2, <2>3 DEF RisesAreSingle
<1>7. ASSUME NEW b \in LocalButton
      PROVE  (light'[b] # (pcSender' = "execute" /\ Rising(b)')) <=> presses'[b] % 2 = 1
  <2>1. b \in Button /\ light[b] \in BOOLEAN /\ (light[b] <=> presses[b] % 2 = 1)
    BY <1>1, <1>4 DEF SenderOK
  <2>2. (presses[b] + 1) % 2 = 1 <=> presses[b] % 2 # 1
    BY <1>3, <2>1
  <2> QED BY <1>1, <1>3, <2>1, <2>2 DEF One
<1>8. presses'[RemoteButton] = presses[RemoteButton] + Unpublished'
  BY <1>1, <1>3, <1>4 DEF Unpublished
<1> QED BY <1>1, <1>5, <1>6, <1>7, <1>8 DEF SenderOK, TriggersFollowButtons

LEMMA CppProgramSender ==
    ASSUME SenderOK, CppProgram
    PROVE  SenderOK' /\ Unpublished' = Unpublished
<1>1. /\ pcSender = "execute" /\ pcSender' = "after"
      /\ light' = [b \in LocalButton |-> IF Rising(b) THEN ~light[b] ELSE light[b]]
      /\ lightRemote' = Rising(RemoteButton)
      /\ last' = button
      /\ UNCHANGED <<button, outputValue, presses>>
  BY DEF CppProgram, Toggle
<1>2. RemoteButton \in Button /\ \A b \in LocalButton : b \in Button
  BY DEF Button
<1>3. Unpublished' = Unpublished
  BY <1>1 DEF Unpublished
<1>4. RisesAreSingle'
  BY <1>1, <1>2 DEF SenderOK, RisesAreSingle, Rising
<1>5. ASSUME NEW b \in LocalButton
      PROVE  /\ light'[b] \in BOOLEAN
             /\ (light'[b] # (pcSender' = "execute" /\ Rising(b)')) <=> presses'[b] % 2 = 1
  BY <1>1 DEF SenderOK
<1>6. light' \in [LocalButton -> BOOLEAN] /\ lightRemote' \in BOOLEAN
  BY <1>1, <1>5 DEF Rising
<1> QED BY <1>1, <1>3, <1>4, <1>5, <1>6 DEF SenderOK, TriggersFollowButtons

\* The rise that is published is a press that was counted.
LEMMA PublishRiseSender ==
    ASSUME SenderOK, WayOK, PublishRise
    PROVE  /\ SenderOK' /\ WayOK'
           /\ Len(pending') + lost' = Len(pending) + lost + Unpublished
           /\ Unpublished' = 0
<1>1. /\ pcSender = "after" /\ pcSender' = "before"
      /\ outputValue' = lightRemote
      /\ UNCHANGED <<button, last, light, lightRemote, presses>>
      /\ UNCHANGED <<brokerVars, queueVars>>
      /\ lost' = lost + One(Len(pending') = Len(pending) /\ ~outputValue /\ lightRemote)
      /\ lost' <= MaxLost
  BY DEF PublishRise
<1>2. RemoteButton \in Button /\ \A b \in LocalButton : b \in Button
  BY DEF Button
<1>3. ~outputValue /\ lightRemote <=> lightRemote
  BY <1>1 DEF SenderOK, RisesAreSingle
<1>4. Unpublished = One(lightRemote) /\ Unpublished' = 0
  BY <1>1 DEF Unpublished, One
<1>5. SenderOK'
  <2>1. last = button
    BY <1>1 DEF SenderOK, TriggersFollowButtons
  <2>2. RisesAreSingle'
    BY <1>1, <1>2 DEF SenderOK, RisesAreSingle
  <2> QED BY <1>1, <2>1, <2>2 DEF SenderOK, TriggersFollowButtons
<1>6. Queue!TypeOK'
  BY <1>1 DEF WayOK, Queue!TypeOK, queueVars
<1>7. lost \in Nat /\ Len(pending) \in Nat
  BY BoundsAssumption DEF WayOK
<1>8. CASE lightRemote
  <2>1. Channel!Publish(presses[RemoteButton])
    BY <1>3, <1>8 DEF PublishRise
  <2>2. presses[RemoteButton] \in Press
    BY <1>2, <1>8, BoundsAssumption DEF SenderOK, RisesAreSingle, Press
  <2>3. /\ pending' \in Seq(Press) /\ Len(pending') \in {Len(pending), Len(pending) + 1}
        /\ sent' = sent
    BY <2>1, <2>2, PublishEffect DEF WayOK
  <2>4. Len(pending') + lost' = Len(pending) + lost + 1 /\ lost' \in Nat
    BY <1>1, <1>3, <1>7, <1>8, <2>3 DEF One
  <2>5. WayOK'
    BY <1>1, <1>6, <2>3, <2>4, BoundsAssumption DEF WayOK, brokerVars
  <2> QED BY <1>4, <1>5, <1>8, <2>4, <2>5 DEF One
<1>9. CASE ~lightRemote
  <2>1. UNCHANGED <<pending, sent>>
    BY <1>3, <1>9 DEF PublishRise, channelVars
  <2>2. lost' = lost
    BY <1>1, <1>3, <1>7, <1>9 DEF One
  <2>3. WayOK'
    BY <1>1, <1>6, <2>1, <2>2 DEF WayOK, brokerVars
  <2> QED BY <1>4, <1>5, <1>7, <1>9, <2>1, <2>2, <2>3 DEF One
<1> QED BY <1>8, <1>9

LEMMA SenderUnchanged ==
    ASSUME SenderOK, UNCHANGED senderVars
    PROVE  SenderOK' /\ Unpublished' = Unpublished
BY DEF SenderOK, senderVars, TriggersFollowButtons, RisesAreSingle, Rising, Unpublished

LEMMA ReceiverUnchanged ==
    ASSUME ReceiverOK, UNCHANGED receiverVars
    PROVE  ReceiverOK' /\ Untoggled' = Untoggled
BY DEF ReceiverOK, receiverVars, PulseIsNews, Untoggled

LEMMA WayUnchanged ==
    ASSUME WayOK, UNCHANGED <<channelVars, brokerVars, queueVars, lost>>
    PROVE  WayOK'
BY DEF WayOK, channelVars, brokerVars, queueVars, Queue!TypeOK

-----------------------------------------------------------------------------
(* The way                                                                   *)

\* What is between the tasks.
InBetween == Len(pending) + (Len(sent) - forwarded) + Len(recvMsgs)

LEMMA InBetweenNat ==
    ASSUME WayOK
    PROVE  /\ Len(pending) \in Nat /\ Len(sent) \in Nat /\ Len(recvMsgs) \in Nat
           /\ forwarded \in Nat /\ Len(sent) - forwarded \in Nat
           /\ lost \in Nat /\ duplicated \in Nat
           /\ InBetween \in Nat
<1>1. recvMsgs \in Seq(Press)
  BY DEF WayOK, Queue!TypeOK
<1>2. Len(pending) \in Nat /\ Len(sent) \in Nat /\ Len(recvMsgs) \in Nat
  BY <1>1 DEF WayOK
<1>3. forwarded \in 0 .. Len(sent) /\ lost \in Nat /\ duplicated \in Nat
  BY BoundsAssumption DEF WayOK
<1> QED BY <1>2, <1>3 DEF InBetween

\* What leaves its place without coming to the next one is counted as lost, and what
\* comes a second time as duplicated.
LEMMA TransportStep ==
    ASSUME WayOK, HandOver \/ LoseMessage \/ Forward \/ DropMessage \/ Redeliver
    PROVE  WayOK' /\ InBetween' + lost' + duplicated = InBetween + lost + duplicated'
<1>0. /\ Len(pending) \in Nat /\ Len(sent) \in Nat /\ Len(recvMsgs) \in Nat
      /\ forwarded \in Nat /\ Len(sent) - forwarded \in Nat
      /\ lost \in Nat /\ duplicated \in Nat
      /\ InBetween \in Nat
  BY InBetweenNat
<1>1. CASE HandOver
  <2>1. /\ pending' \in Seq(Press) /\ Len(pending') = Len(pending) - 1
        /\ sent' \in Seq(Press) /\ Len(sent') = Len(sent) + 1
    BY <1>1, HandOverEffect DEF HandOver, WayOK
  <2>2. UNCHANGED <<brokerVars, queueVars, lost>>
    BY <1>1 DEF HandOver
  <2>3. WayOK'
    BY <2>1, <2>2 DEF WayOK, brokerVars, queueVars, Queue!TypeOK
  <2> QED BY <1>0, <2>1, <2>2, <2>3 DEF InBetween, brokerVars, queueVars
<1>2. CASE LoseMessage
  <2>1. pending' \in Seq(Press) /\ Len(pending') = Len(pending) - 1 /\ sent' = sent
    BY <1>2, LoseEffect DEF LoseMessage, WayOK
  <2>2. /\ UNCHANGED <<brokerVars, queueVars>>
        /\ lost' = lost + 1 /\ lost' \in 0 .. MaxLost
    BY <1>0, <1>2, BoundsAssumption DEF LoseMessage
  <2>3. WayOK'
    BY <2>1, <2>2 DEF WayOK, brokerVars, queueVars, Queue!TypeOK
  <2> QED BY <1>0, <2>1, <2>2, <2>3 DEF InBetween, brokerVars, queueVars
<1>3. CASE Forward
  <2>1. /\ forwarded' = forwarded + 1 /\ forwarded' \in 1 .. Len(sent)
        /\ PutMessage(sent[forwarded']) /\ UNCHANGED <<channelVars, duplicated>>
    BY <1>0, <1>3 DEF Forward
  <2>2. sent[forwarded'] \in Press
    BY <2>1, ElementOfSeq DEF WayOK
  <2>3. /\ Queue!TypeOK' /\ lost' \in 0 .. MaxLost
        /\ Len(recvMsgs') \in Nat /\ lost' \in Nat
        /\ Len(recvMsgs') + lost' = Len(recvMsgs) + lost + 1
    BY <2>1, <2>2, PutEffect DEF WayOK
  <2>4. WayOK' /\ pending' = pending /\ sent' = sent
    BY <2>1, <2>3 DEF WayOK, channelVars
  <2>5. InBetween' = Len(pending) + (Len(sent) - (forwarded + 1)) + Len(recvMsgs')
    BY <2>1, <2>4 DEF InBetween
  <2>6. duplicated' = duplicated
    BY <2>1
  <2>7. InBetween' + lost' = InBetween + lost
    BY <1>0, <2>3, <2>5 DEF InBetween
  <2> QED BY <1>0, <2>3, <2>4, <2>5, <2>6, <2>7
<1>4. CASE DropMessage
  <2>1. /\ forwarded' = forwarded + 1 /\ forwarded' \in 1 .. Len(sent)
        /\ lost' = lost + 1 /\ lost' \in 0 .. MaxLost
        /\ UNCHANGED <<channelVars, duplicated, queueVars>>
    BY <1>0, <1>4, BoundsAssumption DEF DropMessage
  <2>2. WayOK'
    BY <2>1 DEF WayOK, channelVars, queueVars, Queue!TypeOK
  <2> QED BY <1>0, <2>1, <2>2 DEF InBetween, channelVars, queueVars
<1>5. CASE Redeliver
  <2>1. PICK i \in 1 .. forwarded : PutMessage(sent[i])
    BY <1>5 DEF Redeliver
  <2>2. /\ duplicated' = duplicated + 1 /\ duplicated' \in 0 .. MaxDuplicated
        /\ UNCHANGED <<channelVars, forwarded>>
    BY <1>0, <1>5, BoundsAssumption DEF Redeliver
  <2>3. sent[i] \in Press
    BY <2>1, ElementOfSeq DEF WayOK
  <2>4. /\ Queue!TypeOK' /\ lost' \in 0 .. MaxLost
        /\ Len(recvMsgs') \in Nat /\ lost' \in Nat
        /\ Len(recvMsgs') + lost' = Len(recvMsgs) + lost + 1
    BY <2>1, <2>3, PutEffect DEF WayOK
  <2>5. WayOK' /\ pending' = pending /\ sent' = sent
    BY <2>2, <2>4 DEF WayOK, channelVars
  <2>6. InBetween' = Len(pending) + (Len(sent) - forwarded) + Len(recvMsgs')
    BY <2>2, <2>5 DEF InBetween
  <2>7. InBetween' + lost' = InBetween + lost + 1
    BY <1>0, <2>4, <2>6, SMTT(30) DEF InBetween
  <2>8. InBetween' \in Nat
    BY <1>0, <2>4, <2>6
  <2>9. duplicated' = duplicated + 1 /\ lost' \in Nat
    BY <2>2, <2>4
  <2>10. InBetween' + lost' + duplicated = InBetween + lost + duplicated'
    <3>1. InBetween \in Nat /\ lost \in Nat /\ duplicated \in Nat
      BY <1>0
    <3>2. InBetween' + lost' + duplicated = (InBetween + lost + 1) + duplicated
      BY <2>7
    <3> QED BY <2>9, <3>1, <3>2
  <2> QED BY <2>5, <2>10
<1> QED BY <1>1, <1>2, <1>3, <1>4, <1>5

-----------------------------------------------------------------------------
(* The receiver                                                              *)

\* What the receiver takes is to toggle its light, or was merged, or has toggled it.
LEMMA ReceiverStep ==
    ASSUME ReceiverOK, WayOK, ReceiverCycle
    PROVE  /\ ReceiverOK' /\ WayOK'
           /\ InBetween' + Untoggled' + merged' + toggles'
                = InBetween + Untoggled + merged + toggles
<1>0. /\ Len(pending) \in Nat /\ Len(sent) \in Nat /\ Len(recvMsgs) \in Nat
      /\ forwarded \in Nat /\ Len(sent) - forwarded \in Nat
      /\ lost \in Nat /\ duplicated \in Nat
      /\ InBetween \in Nat
  BY InBetweenNat
<1>1. merged \in Nat /\ toggles \in Nat /\ taken \in Nat
  BY DEF ReceiverOK
<1>2. CASE ClearInput
  <2>1. /\ pcReceiver = "before" /\ pcReceiver' = "drain"
        /\ pulse' = FALSE /\ taken' = 0
        /\ UNCHANGED <<lightA, toggles, merged>>
        /\ UNCHANGED <<channelVars, brokerVars, queueVars, lost>>
    BY <1>2 DEF ClearInput
  <2>2. WayOK' /\ InBetween' = InBetween
    BY <2>1, WayUnchanged DEF InBetween, channelVars, brokerVars, queueVars
  <2>3. ReceiverOK'
    <3>1. taken' \in Nat /\ (pulse' <=> taken' > 0)
      BY <2>1
    <3> QED BY <2>1, <3>1 DEF ReceiverOK, PulseIsNews
  <2>4. Untoggled = 0 /\ Untoggled' = 0
    BY <2>1 DEF Untoggled, One
  <2> QED BY <1>0, <2>1, <2>2, <2>3, <2>4
<1>3. CASE TakeMessage
  <2>1. /\ pcReceiver = "drain" /\ pcReceiver' = pcReceiver
        /\ pulse' = TRUE /\ taken' = taken + 1 /\ merged' = merged + One(taken > 0)
        /\ UNCHANGED <<lightA, toggles>>
        /\ UNCHANGED <<channelVars, brokerVars, lost>>
        /\ Queue!Take(Receiver)
    BY <1>3 DEF TakeMessage
  <2>2. Queue!TypeOK' /\ Len(recvMsgs') = Len(recvMsgs) - 1
    BY <2>1, TakeEffect DEF WayOK
  <2>3. WayOK' /\ InBetween' = InBetween - 1
    BY <1>0, <2>1, <2>2 DEF WayOK, InBetween, channelVars, brokerVars
  <2>4. One(taken > 0) \in {0, 1} /\ Untoggled = One(taken > 0)
    BY <2>1 DEF One, Untoggled
  <2>5. Untoggled' = 1
    BY <1>1, <2>1 DEF Untoggled, One
  <2>6. ReceiverOK'
    BY <1>1, <2>1, <2>4 DEF ReceiverOK, PulseIsNews
  <2> QED BY <1>0, <1>1, <2>1, <2>3, <2>4, <2>5, <2>6
<1>4. CASE TakeNothing
  <2>1. /\ pcReceiver = "drain" /\ pcReceiver' = "execute"
        /\ UNCHANGED <<pulse, lightA, toggles, merged, taken>>
        /\ UNCHANGED <<channelVars, brokerVars, lost>>
        /\ recvMsgs' = recvMsgs
        /\ received' = [received EXCEPT ![Receiver] = NoMessage]
    BY <1>4 DEF TakeNothing, Queue!TakeNothing
  <2>2. WayOK' /\ InBetween' = InBetween
    BY <2>1 DEF WayOK, InBetween, channelVars, brokerVars, Queue!TypeOK
  <2>3. ReceiverOK' /\ Untoggled' = Untoggled
    BY <2>1 DEF ReceiverOK, PulseIsNews, Untoggled
  <2> QED BY <1>0, <2>1, <2>2, <2>3
<1>5. CASE LuaLogic
  <2>1. /\ pcReceiver = "execute" /\ pcReceiver' = "before"
        /\ lightA' = IF pulse THEN ~lightA ELSE lightA
        /\ toggles' = toggles + One(pulse)
        /\ UNCHANGED <<pulse, merged, taken>>
        /\ UNCHANGED <<channelVars, brokerVars, queueVars, lost>>
    BY <1>5 DEF LuaLogic, Toggle
  <2>2. WayOK' /\ InBetween' = InBetween
    BY <2>1, WayUnchanged DEF InBetween, channelVars, brokerVars, queueVars
  <2>3. Untoggled = One(pulse) /\ Untoggled' = 0 /\ One(pulse) \in {0, 1}
    BY <2>1 DEF Untoggled, One, ReceiverOK, PulseIsNews
  <2>4. (toggles + 1) % 2 = 1 <=> toggles % 2 # 1
    BY <1>1
  <2>5. lightA' \in BOOLEAN /\ (lightA' <=> toggles' % 2 = 1)
    <3>1. lightA \in BOOLEAN /\ (lightA <=> toggles % 2 = 1)
      BY DEF ReceiverOK
    <3>2. CASE pulse
      BY <1>1, <2>1, <2>4, <3>1, <3>2 DEF One
    <3>3. CASE ~pulse
      BY <1>1, <2>1, <3>1, <3>3 DEF One
    <3> QED BY <3>2, <3>3
  <2>6. ReceiverOK'
    BY <1>1, <2>1, <2>3, <2>5 DEF ReceiverOK, PulseIsNews
  <2> QED BY <1>0, <1>1, <2>1, <2>2, <2>3, <2>6
<1> QED BY <1>2, <1>3, <1>4, <1>5 DEF ReceiverCycle

-----------------------------------------------------------------------------

\* PressesAccounted by the side at which the messages are.
Books ==
    presses[RemoteButton] + duplicated
        = toggles + (Unpublished + InBetween + Untoggled) + lost + merged

LEMMA BooksAccount == SenderOK /\ WayOK => (Books <=> PressesAccounted)
<1> SUFFICES ASSUME SenderOK, WayOK PROVE Books <=> PressesAccounted
  OBVIOUS
<1>1. /\ Len(pending) \in Nat /\ Len(sent) - forwarded \in Nat
      /\ Len(recvMsgs) \in Nat
  BY InBetweenNat
<1>2. Unpublished \in Nat /\ Untoggled \in Nat
  BY DEF Unpublished, Untoggled, One
<1>3. OnTheWay = Unpublished + InBetween + Untoggled
  BY <1>1, <1>2 DEF OnTheWay, InBetween
<1> QED BY <1>3 DEF Books, PressesAccounted

LEMMA NextIInv == LightIInv /\ [Next]_vars => LightIInv'
<1> SUFFICES ASSUME LightIInv, [Next]_vars PROVE LightIInv'
  OBVIOUS
<1>1. SenderOK /\ ReceiverOK /\ WayOK /\ Books
  BY IInvParts, BooksAccount
<1>2. /\ presses[RemoteButton] \in Nat /\ toggles \in Nat /\ merged \in Nat
      /\ Unpublished \in Nat /\ Untoggled \in Nat
  BY <1>1, BoundsAssumption DEF SenderOK, ReceiverOK, Button, Unpublished, Untoggled, One
<1>3. InBetween \in Nat /\ lost \in Nat /\ duplicated \in Nat
  BY <1>1, InBetweenNat
<1> SUFFICES SenderOK' /\ ReceiverOK' /\ WayOK' /\ Books'
  BY IInvParts, BooksAccount, PTL
<1>4. CASE ReadButtons
  <2>1. SenderOK' /\ presses'[RemoteButton] = presses[RemoteButton] + Unpublished'
    BY <1>1, <1>4, ReadButtonsSender
  <2>2. Unpublished = 0
    BY <1>4 DEF ReadButtons, Unpublished, One
  <2>3. UNCHANGED <<channelVars, brokerVars, queueVars, receiverVars, lost>>
    BY <1>4 DEF ReadButtons
  <2>4. ReceiverOK' /\ WayOK' /\ Untoggled' = Untoggled
    BY <1>1, <2>3, ReceiverUnchanged, WayUnchanged
  <2>5. /\ UNCHANGED <<toggles, merged, lost, duplicated>>
        /\ InBetween' = InBetween
    BY <2>3 DEF InBetween, channelVars, brokerVars, queueVars, receiverVars
  <2>6. Unpublished' \in Nat
    BY DEF Unpublished, One
  <2> QED BY <1>1, <1>2, <1>3, <2>1, <2>2, <2>4, <2>5, <2>6 DEF Books
<1>5. CASE CppProgram
  <2>1. SenderOK' /\ Unpublished' = Unpublished
    BY <1>1, <1>5, CppProgramSender
  <2>2. UNCHANGED <<presses, channelVars, brokerVars, queueVars, receiverVars, lost>>
    BY <1>5 DEF CppProgram
  <2>3. ReceiverOK' /\ WayOK' /\ Untoggled' = Untoggled
    BY <1>1, <2>2, ReceiverUnchanged, WayUnchanged
  <2>4. Books'
    BY <1>1, <2>1, <2>2, <2>3
       DEF Books, InBetween, channelVars, brokerVars, queueVars, receiverVars
  <2> QED BY <2>1, <2>3, <2>4
<1>6. CASE PublishRise
  <2>1. /\ SenderOK' /\ WayOK'
        /\ Len(pending') + lost' = Len(pending) + lost + Unpublished
        /\ Unpublished' = 0
    BY <1>1, <1>6, PublishRiseSender
  <2>2. UNCHANGED <<presses, brokerVars, queueVars, receiverVars>> /\ sent' = sent
    BY <1>6 DEF PublishRise, Channel!Publish, channelVars
  <2>3. ReceiverOK' /\ Untoggled' = Untoggled
    BY <1>1, <2>2, ReceiverUnchanged
  <2>4. UNCHANGED <<toggles, merged, duplicated, forwarded, recvMsgs>>
    BY <2>2 DEF receiverVars, brokerVars, queueVars
  <2>5. Len(pending) \in Nat /\ Len(sent) - forwarded \in Nat /\ Len(recvMsgs) \in Nat
    BY <1>1, InBetweenNat
  <2>6. PICK p \in Nat, l \in Nat : p = Len(pending') /\ l = lost'
    BY <2>1, BoundsAssumption DEF WayOK
  <2>7. InBetween' = p + (Len(sent) - forwarded) + Len(recvMsgs)
    BY <2>2, <2>4, <2>6 DEF InBetween
  <2>8. Books'
    <3>1. presses[RemoteButton] + duplicated
              = toggles + (Unpublished + InBetween + Untoggled) + lost + merged
      BY <1>1 DEF Books
    <3>2. PICK rest \in Nat : rest = (Len(sent) - forwarded) + Len(recvMsgs)
      BY <2>5
    <3>3. InBetween = Len(pending) + rest /\ InBetween' = p + rest
      BY <2>5, <2>7, <3>2 DEF InBetween
    <3>4. p + l = Len(pending) + lost + Unpublished
      BY <2>1, <2>6
    <3>5. PICK i \in Nat : i = InBetween' /\ i = p + rest
      BY <3>3
    <3>6. i + l = InBetween + lost + Unpublished
      BY <1>2, <1>3, <2>5, <3>3, <3>4, <3>5
    <3>7. presses[RemoteButton] + duplicated
              = toggles + (0 + i + Untoggled) + l + merged
      BY <1>2, <1>3, <3>1, <3>6
    <3> QED BY <2>1, <2>2, <2>3, <2>4, <2>6, <3>5, <3>7 DEF Books
  <2> QED BY <2>1, <2>3, <2>8
<1>7. CASE HandOver \/ LoseMessage \/ Forward \/ DropMessage \/ Redeliver
  <2>1. WayOK' /\ InBetween' + lost' + duplicated = InBetween + lost + duplicated'
    BY <1>1, <1>7, TransportStep
  <2>2. UNCHANGED <<senderVars, receiverVars>>
    BY <1>7 DEF HandOver, LoseMessage, Forward, DropMessage, Redeliver
  <2>3. /\ SenderOK' /\ Unpublished' = Unpublished
        /\ ReceiverOK' /\ Untoggled' = Untoggled
    BY <1>1, <2>2, SenderUnchanged, ReceiverUnchanged
  <2>4. UNCHANGED <<presses, toggles, merged>>
    BY <2>2 DEF senderVars, receiverVars
  <2>5. (WayOK => InBetween \in Nat /\ lost \in Nat /\ duplicated \in Nat)'
    BY InBetweenNat, PTL
  <2>6. PICK i \in Nat, l \in Nat, d \in Nat :
              i = InBetween' /\ l = lost' /\ d = duplicated'
    BY <2>1, <2>5
  <2>7. presses'[RemoteButton] = presses[RemoteButton] /\ toggles' = toggles /\ merged' = merged
    BY <2>4
  <2>8. Books'
    <3>1. presses[RemoteButton] + duplicated
              = toggles + (Unpublished + InBetween + Untoggled) + lost + merged
      BY <1>1 DEF Books
    <3>2. i + l + duplicated = InBetween + lost + d
      BY <2>1, <2>6
    <3>3. presses[RemoteButton] + d
              = toggles + (Unpublished + i + Untoggled) + l + merged
      BY <1>2, <1>3, <3>1, <3>2
    <3> QED BY <2>3, <2>6, <2>7, <3>3 DEF Books
  <2> QED BY <2>1, <2>3, <2>8
<1>8. CASE ReceiverCycle
  <2>1. /\ ReceiverOK' /\ WayOK'
        /\ InBetween' + Untoggled' + merged' + toggles'
             = InBetween + Untoggled + merged + toggles
    BY <1>1, <1>8, ReceiverStep
  <2>2. UNCHANGED <<senderVars, lost, duplicated>>
    BY <1>8 DEF ReceiverCycle, ClearInput, TakeMessage, TakeNothing, LuaLogic, brokerVars
  <2>3. SenderOK' /\ Unpublished' = Unpublished /\ presses' = presses
    BY <1>1, <2>2, SenderUnchanged DEF senderVars
  <2>4. (WayOK => InBetween \in Nat)'
    BY InBetweenNat, PTL
  <2>5. merged' \in Nat /\ toggles' \in Nat /\ Untoggled' \in Nat
    BY <2>1 DEF ReceiverOK, Untoggled, One
  <2> QED BY <1>1, <1>2, <1>3, <2>1, <2>2, <2>3, <2>4, <2>5 DEF Books
<1>9. CASE UNCHANGED vars
  <2>1. /\ UNCHANGED <<senderVars, receiverVars>>
        /\ UNCHANGED <<channelVars, brokerVars, queueVars, lost>>
    BY <1>9 DEF vars
  <2>2. /\ SenderOK' /\ Unpublished' = Unpublished
        /\ ReceiverOK' /\ Untoggled' = Untoggled /\ WayOK'
    BY <1>1, <2>1, SenderUnchanged, ReceiverUnchanged, WayUnchanged
  <2>3. Books'
    BY <1>1, <2>1, <2>2
       DEF Books, InBetween, channelVars, brokerVars, queueVars, senderVars, receiverVars
  <2> QED BY <2>2, <2>3
<1> QED BY <1>4, <1>5, <1>6, <1>7, <1>8, <1>9 DEF Next

\* The inductive invariant.
THEOREM Invariance == Spec => []LightIInv
<1>1. Init => LightIInv
  BY InitIInv
<1>2. LightIInv /\ [Next]_vars => LightIInv'
  BY NextIInv
<1> QED BY <1>1, <1>2, PTL DEF Spec

\* Every press of the button is accounted for, at any time.
THEOREM AllPressesAccounted == Spec => []PressesAccounted
<1>1. LightIInv => PressesAccounted
  BY DEF LightIInv
<1> QED BY <1>1, Invariance, PTL

\* The lights tell how often their buttons were pressed; for the remote one this
\* follows from the accounts when all places but the light itself are empty.
THEOREM LightsFollowPresses == Spec => []LightsTellPresses
<1>1. LightIInv => LightsTellPresses
  <2> SUFFICES ASSUME LightIInv PROVE LightsTellPresses
    OBVIOUS
  <2>1. SenderOK /\ ReceiverOK /\ PressesAccounted
    BY IInvParts
  <2>2. ASSUME NEW b \in LocalButton, pcSender # "execute"
        PROVE  light[b] <=> presses[b] % 2 = 1
    BY <2>1, <2>2 DEF SenderOK
  <2>3. ASSUME OnTheWay = 0, lost = 0, duplicated = 0, merged = 0
        PROVE  lightA <=> presses[RemoteButton] % 2 = 1
    <3>1. presses[RemoteButton] \in Nat /\ toggles \in Nat
      BY <2>1, BoundsAssumption DEF SenderOK, ReceiverOK, Button
    <3>2. presses[RemoteButton] = toggles
      BY <2>1, <2>3, <3>1 DEF PressesAccounted
    <3> QED BY <2>1, <3>2 DEF ReceiverOK
  <2> QED BY <2>2, <2>3 DEF LightsTellPresses
<1> QED BY <1>1, Invariance, PTL
=============================================================================
