------------------------- MODULE MqttTaskIO_proofs -------------------------
(***************************************************************************)
(* The safety properties of MqttTaskIO, proved for any mapping, messages,  *)
(* capacity of the buffer and outputs, shared or not.                      *)
(***************************************************************************)
EXTENDS MqttTaskIO, TLAPS

-----------------------------------------------------------------------------
(* Outputs *)

\* The types that the argument about outputs needs.
OutputTypes ==
    /\ gvOutputs \in [OutVar -> BOOLEAN]
    /\ outputValues \in [OutVar -> BOOLEAN]
    /\ sampled \in [OutVar -> BOOLEAN]
    /\ previous \in [OutVar -> BOOLEAN]
    /\ pc \notin {"after", "remember"} => todo = {}

\* An output that was compared in this cycle and not yet remembered.
Between(v) == pc = "remember" /\ current = v

\* For an output of the task's own: outputValues is the value compared last, and
\* once the output has been compared in this cycle it is published if it rose.
OutputTracked(v) ==
    /\ ~Between(v) => outputValues[v] = sampled[v]
    /\ pc \in {"after", "remember"} /\ v \in todo /\ ~Between(v) => v \notin published
    /\ pc \in {"after", "remember"} /\ (v \notin todo \/ Between(v)) =>
          sampled[v] = gvOutputs[v]
    /\ pc \in {"init", "before", "after", "remember"} /\ (v \notin todo \/ Between(v)) =>
          (v \in published <=> ~previous[v] /\ sampled[v])

OutputsInv ==
    /\ OutputTypes
    /\ pc = "init" => sampled = AllFalse(OutVar)
    /\ \A v \in OutVar \ SharedOutputs : OutputTracked(v)

\* Nothing was compared and nothing published before the first cycle.
LEMMA InitOutputs == Init => OutputsInv
BY DEF Init, OutputsInv, OutputTypes, OutputTracked, Between, AllFalse

\* after() looks at one output at a time and leaves the others alone.
LEMMA AfterOutputs ==
    ASSUME OutputsInv, NEW w \in OutVar, Compare(w) \/ Remember
    PROVE  OutputsInv'
<1>1. OutputTypes' /\ pc' # "init"
  BY DEF OutputsInv, OutputTypes, Compare, Remember
<1>2. ASSUME NEW v \in OutVar \ SharedOutputs PROVE OutputTracked(v)'
  <2>1. OutputTracked(v)
    BY DEF OutputsInv
  <2>2. CASE Compare(w) /\ v = w
    BY <2>1, <2>2 DEF OutputsInv, OutputTypes, OutputTracked, Between, Compare
  <2>3. CASE Compare(w) /\ v # w
    BY <2>1, <2>3 DEF OutputsInv, OutputTypes, OutputTracked, Between, Compare
  <2>4. CASE Remember /\ v = current
    BY <2>1, <2>4 DEF OutputsInv, OutputTypes, OutputTracked, Between, Remember
  <2>5. CASE Remember /\ v # current
    BY <2>1, <2>5 DEF OutputsInv, OutputTypes, OutputTracked, Between, Remember
  <2> QED BY <2>2, <2>3, <2>4, <2>5
<1> QED BY <1>1, <1>2 DEF OutputsInv

LEMMA NextOutputs == OutputsInv /\ [Next]_vars => OutputsInv'
<1> SUFFICES ASSUME OutputsInv, [Next]_vars PROVE OutputsInv'
  OBVIOUS
<1> USE DEF OutputsInv, OutputTypes, OutputTracked, Between
<1>1. CASE InitIO
  BY <1>1 DEF InitIO, AllFalse
<1>2. CASE ClearInputs \/ ReceiveMessage \/ ReceiveNothing
  BY <1>2 DEF ClearInputs, ReceiveMessage, ReceiveNothing, outputState
<1>3. CASE Execute
  BY <1>3 DEF Execute
<1>4. CASE Remember \/ \E v \in OutVar : Compare(v)
  BY <1>4, AfterOutputs DEF Remember
<1>5. CASE EndCycle \/ Shutdown
  BY <1>5 DEF EndCycle, Shutdown, outputState
<1>6. CASE Deliver
  BY <1>6 DEF Deliver, MsgArrvd, outputState
<1>7. CASE \E v \in OutVar : OtherTask(v)
  BY <1>7 DEF OtherTask
<1>8. CASE UNCHANGED vars
  BY <1>8 DEF vars, outputState
<1> QED BY <1>1, <1>2, <1>3, <1>4, <1>5, <1>6, <1>7, <1>8 DEF Next, Cycle

\* Every rising edge of an output of the task's own is published, once, whatever
\* other tasks do to the outputs they share.
THEOREM EdgesArePublished == Spec => []EdgesPublished
<1>1. OutputsInv => EdgesPublished
  BY DEF OutputsInv, OutputTypes, OutputTracked, EdgesPublished
<1> QED BY InitOutputs, NextOutputs, <1>1, PTL DEF Spec

-----------------------------------------------------------------------------
(* Outputs that other tasks write as well *)

\* What has been true since it was published is remembered as true, or about to be:
\* the second read finds it as the first one did.
SteadyRemembered ==
    /\ OutputTypes
    /\ steady \in SUBSET OutVar
    /\ pc = "init" => steady = {}
    /\ \A v \in steady : gvOutputs[v] /\ (outputValues[v] \/ Between(v))

LEMMA InitSteady == Init => SteadyRemembered
BY DEF Init, SteadyRemembered, OutputTypes, AllFalse

LEMMA NextSteady == SteadyRemembered /\ [Next]_vars => SteadyRemembered'
<1> SUFFICES ASSUME SteadyRemembered, [Next]_vars PROVE SteadyRemembered'
  OBVIOUS
<1> USE DEF SteadyRemembered, OutputTypes, Between
<1>1. CASE InitIO
  BY <1>1 DEF InitIO, AllFalse
<1>2. CASE ClearInputs \/ ReceiveMessage \/ ReceiveNothing
  BY <1>2 DEF ClearInputs, ReceiveMessage, ReceiveNothing, outputState
<1>3. CASE Execute
  BY <1>3 DEF Execute
<1>4. ASSUME NEW w \in OutVar, Compare(w)
      PROVE  SteadyRemembered'
  BY <1>4 DEF Compare
<1>5. CASE Remember
  BY <1>5 DEF Remember
<1>6. CASE EndCycle \/ Shutdown
  BY <1>6 DEF EndCycle, Shutdown, outputState
<1>7. CASE Deliver
  BY <1>7 DEF Deliver, MsgArrvd, outputState
<1>8. ASSUME NEW w \in OutVar, OtherTask(w)
      PROVE  SteadyRemembered'
  BY <1>8 DEF OtherTask
<1>9. CASE UNCHANGED vars
  BY <1>9 DEF vars, outputState
<1> QED BY <1>1, <1>2, <1>3, <1>4, <1>5, <1>6, <1>7, <1>8, <1>9 DEF Next, Cycle

\* An output is published only if it has been false since it was published before, for
\* any outputs, shared or not, and any writes of other tasks.
THEOREM RisesPublishedOnce == Spec => PublishedOncePerRise
<1>1. ASSUME SteadyRemembered, [Next]_vars, NEW v \in OutVar, v \in published' \ published
      PROVE  v \notin steady
  <2>1. ASSUME ~\E w \in OutVar : Compare(w)
        PROVE  published' \subseteq published
    BY <1>1, <2>1 DEF Next, Cycle, InitIO, ClearInputs, ReceiveMessage, ReceiveNothing, Execute,
       Remember, EndCycle, Shutdown, Deliver, MsgArrvd, OtherTask, vars, outputState
  <2>2. PICK w \in OutVar : Compare(w)
    BY <1>1, <2>1
  <2>3. v = w /\ ~outputValues[v] /\ pc = "after"
    BY <1>1, <2>2 DEF Compare
  <2> QED BY <1>1, <2>3 DEF SteadyRemembered, Between
<1>2. SteadyRemembered /\ [Next]_vars
        => [\A v \in OutVar : v \in published' \ published => v \notin steady]_vars
  BY <1>1
<1> QED BY InitSteady, NextSteady, <1>2, PTL DEF Spec, PublishedOncePerRise

-----------------------------------------------------------------------------
(* Inputs *)

\* The types that the argument about inputs needs.
InputTypes ==
    /\ recvMsgs \in Seq(Message)
    /\ received \in [{Task} -> Message \cup {NoMessage}]
    /\ gvInputs \in [InVar -> BOOLEAN]
    /\ newest \in [InVar -> {"none"} \cup {"0", "1"}]

\* The message sets this input.
About(m, v) == Decisive(m) /\ Variable[m.topic] = v

\* The last message for an input that waits in the buffer is the last one that was
\* delivered; if none waits, it was already taken while the buffer is being emptied.
BufferIsNews(v) ==
    /\ \A i \in 1 .. Len(recvMsgs) :
          About(recvMsgs[i], v) /\ (\A j \in i + 1 .. Len(recvMsgs) : ~About(recvMsgs[j], v))
              => newest[v] = recvMsgs[i].payload
    /\ (\A i \in 1 .. Len(recvMsgs) : ~About(recvMsgs[i], v))
          => (newest[v] = "1" <=> pc = "drain" /\ gvInputs[v])

InputsInv ==
    /\ InputTypes
    /\ ~overflown => \A v \in InVar : BufferIsNews(v)
    /\ InputsAreNews

\* Nothing was delivered before the first cycle.
LEMMA InitInputs == Init => InputsInv
<1> SUFFICES ASSUME Init PROVE InputsInv
  OBVIOUS
<1>1. InputTypes
  BY DEF Init, InputTypes, AllFalse, RecvQueue!Init
<1>2. \A v \in InVar : BufferIsNews(v)
  <2>1. pc = "init" /\ recvMsgs = <<>> /\ newest = [v \in InVar |-> "none"]
    BY DEF Init, RecvQueue!Init
  <2>2. ASSUME NEW v \in InVar PROVE ~(newest[v] = "1") /\ ~(pc = "drain")
    BY <2>1
  <2>3. 1 .. Len(recvMsgs) = {}
    BY <2>1
  <2> QED BY <2>2, <2>3 DEF BufferIsNews
<1>3. InputsAreNews
  BY DEF Init, InputsAreNews
<1> QED BY <1>1, <1>2, <1>3 DEF InputsInv

\* A message is taken out of the buffer and sets its variable.
LEMMA TakeInputs ==
    ASSUME InputsInv, ReceiveMessage
    PROVE  InputsInv'
<1> DEFINE m == Head(recvMsgs)
<1>1. /\ recvMsgs \in Seq(Message) /\ recvMsgs # <<>>
      /\ recvMsgs' = Tail(recvMsgs)
      /\ received' = [received EXCEPT ![Task] = m]
  BY DEF InputsInv, InputTypes, ReceiveMessage, RecvQueue!Take
<1>2. m \in Message /\ m = recvMsgs[1] /\ received'[Task] = m
  BY <1>1 DEF InputsInv, InputTypes
<1>3. /\ pc = "drain" /\ pc' = "drain"
      /\ newest' = newest /\ overflown' = overflown
      /\ gvInputs' = IF Decisive(m)
                     THEN [gvInputs EXCEPT ![Variable[m.topic]] = (m.payload = "1")]
                     ELSE gvInputs
  BY <1>2 DEF ReceiveMessage
<1>4. InputTypes'
  <2>1. recvMsgs' \in Seq(Message)
    BY <1>1
  <2>2. received' \in [{Task} -> Message \cup {NoMessage}]
    BY <1>1, <1>2 DEF InputsInv, InputTypes
  <2>3. gvInputs' \in [InVar -> BOOLEAN]
    BY <1>3 DEF InputsInv, InputTypes
  <2> QED BY <1>3, <2>1, <2>2, <2>3 DEF InputsInv, InputTypes
<1>5. ASSUME ~overflown, NEW v \in InVar PROVE BufferIsNews(v)'
  <2>1. BufferIsNews(v)
    BY <1>5 DEF InputsInv
  <2>2. /\ Len(recvMsgs') = Len(recvMsgs) - 1
        /\ Len(recvMsgs) \in Nat \ {0}
        /\ \A i \in 1 .. Len(recvMsgs') : recvMsgs'[i] = recvMsgs[i + 1]
    BY <1>1
  <2>3. ASSUME NEW i \in 1 .. Len(recvMsgs'), About(recvMsgs'[i], v),
               \A j \in i + 1 .. Len(recvMsgs') : ~About(recvMsgs'[j], v)
        PROVE  newest[v] = recvMsgs'[i].payload
    <3>1. i + 1 \in 1 .. Len(recvMsgs) /\ About(recvMsgs[i + 1], v)
      BY <2>2, <2>3
    <3>2. ASSUME NEW j \in (i + 1) + 1 .. Len(recvMsgs) PROVE ~About(recvMsgs[j], v)
      <4>1. j - 1 \in i + 1 .. Len(recvMsgs') /\ (j - 1) + 1 = j
        BY <2>2
      <4>2. j - 1 \in 1 .. Len(recvMsgs')
        BY <2>2, <4>1
      <4>3. ~About(recvMsgs'[j - 1], v)
        BY <2>3, <4>1
      <4>4. recvMsgs'[j - 1] = recvMsgs[j]
        BY <2>2, <4>1, <4>2
      <4> QED BY <4>3, <4>4
    <3>3. newest[v] = recvMsgs[i + 1].payload
      BY <2>1, <3>1, <3>2 DEF BufferIsNews
    <3> QED BY <3>3, <2>2
  <2>4. ASSUME \A i \in 1 .. Len(recvMsgs') : ~About(recvMsgs'[i], v)
        PROVE  newest[v] = "1" <=> gvInputs'[v]
    <3>1. ASSUME NEW j \in 2 .. Len(recvMsgs) PROVE ~About(recvMsgs[j], v)
      <4>1. j - 1 \in 1 .. Len(recvMsgs') /\ (j - 1) + 1 = j
        BY <2>2
      <4>2. j - 1 \in 1 .. Len(recvMsgs')
        BY <2>2, <4>1
      <4>3. ~About(recvMsgs'[j - 1], v)
        BY <2>4, <4>1
      <4>4. recvMsgs'[j - 1] = recvMsgs[j]
        BY <2>2, <4>1, <4>2
      <4> QED BY <4>3, <4>4
    <3>2. CASE About(m, v)
      <4>1. newest[v] = m.payload
        BY <1>2, <2>1, <2>2, <3>1, <3>2 DEF BufferIsNews
      <4>2. gvInputs'[v] <=> m.payload = "1"
        BY <1>3, <3>2 DEF About, InputsInv, InputTypes
      <4> QED BY <4>1, <4>2
    <3>3. CASE ~About(m, v)
      <4>1. \A j \in 1 .. Len(recvMsgs) : ~About(recvMsgs[j], v)
        BY <1>2, <3>1, <3>3
      <4>2. newest[v] = "1" <=> gvInputs[v]
        BY <1>3, <2>1, <4>1 DEF BufferIsNews
      <4>3. gvInputs'[v] = gvInputs[v]
        BY <1>3, <3>3 DEF About, InputsInv, InputTypes
      <4> QED BY <4>2, <4>3
    <3> QED BY <3>2, <3>3
  <2> QED BY <1>3, <2>3, <2>4 DEF BufferIsNews
<1>6. InputsAreNews'
  BY <1>3 DEF InputsAreNews
<1> QED BY <1>3, <1>4, <1>5, <1>6 DEF InputsInv

\* A message is delivered: it is the last one now, unless it concerns no input.
LEMMA PutInputs ==
    ASSUME InputsInv, NEW m \in Message, MsgArrvd(m)
    PROVE  InputsInv'
<1>1. /\ recvMsgs \in Seq(Message)
      /\ recvMsgs' = IF Len(recvMsgs) = Capacity THEN Append(Tail(recvMsgs), m)
                                                 ELSE Append(recvMsgs, m)
      /\ received' = received /\ gvInputs' = gvInputs /\ pc' = pc
      /\ heard' = heard /\ complete' = complete
      /\ newest' = IF Decisive(m) THEN [newest EXCEPT ![Variable[m.topic]] = m.payload]
                                  ELSE newest
      /\ overflown' = (overflown \/ Len(recvMsgs) = Capacity)
  BY DEF InputsInv, InputTypes, MsgArrvd, RecvQueue!Put
<1>2. InputTypes'
  <2>1. recvMsgs' \in Seq(Message)
    BY <1>1, CapacityAssumption
  <2>2. newest' \in [InVar -> {"none"} \cup {"0", "1"}]
    BY <1>1 DEF InputsInv, InputTypes, Decisive
  <2> QED BY <1>1, <2>1, <2>2 DEF InputsInv, InputTypes
<1>3. ASSUME ~overflown', NEW v \in InVar PROVE BufferIsNews(v)'
  <2>1. BufferIsNews(v) /\ recvMsgs' = Append(recvMsgs, m)
    BY <1>1, <1>3 DEF InputsInv
  <2>2. /\ Len(recvMsgs') = Len(recvMsgs) + 1
        /\ Len(recvMsgs) \in Nat
        /\ \A i \in 1 .. Len(recvMsgs) : recvMsgs'[i] = recvMsgs[i]
        /\ recvMsgs'[Len(recvMsgs')] = m
    BY <1>1, <2>1
  <2>3. newest'[v] = IF About(m, v) THEN m.payload ELSE newest[v]
    BY <1>1 DEF About, InputsInv, InputTypes
  <2>4. ASSUME NEW i \in 1 .. Len(recvMsgs'), About(recvMsgs'[i], v),
               \A j \in i + 1 .. Len(recvMsgs') : ~About(recvMsgs'[j], v)
        PROVE  newest'[v] = recvMsgs'[i].payload
    <3>1. CASE i = Len(recvMsgs')
      BY <2>2, <2>3, <2>4, <3>1
    <3>2. CASE i # Len(recvMsgs')
      <4>1. i \in 1 .. Len(recvMsgs) /\ ~About(m, v)
        BY <2>2, <2>4, <3>2
      <4>2. \A j \in i + 1 .. Len(recvMsgs) : ~About(recvMsgs[j], v)
        BY <2>2, <2>4
      <4> QED BY <2>1, <2>2, <2>3, <2>4, <4>1, <4>2 DEF BufferIsNews
    <3> QED BY <3>1, <3>2
  <2>5. ASSUME \A i \in 1 .. Len(recvMsgs') : ~About(recvMsgs'[i], v)
        PROVE  newest'[v] = "1" <=> pc' = "drain" /\ gvInputs'[v]
    <3>1. ~About(m, v) /\ \A i \in 1 .. Len(recvMsgs) : ~About(recvMsgs[i], v)
      BY <2>2, <2>5
    <3> QED BY <1>1, <2>1, <2>3, <3>1 DEF BufferIsNews
  <2> QED BY <2>4, <2>5 DEF BufferIsNews
<1>4. InputsAreNews'
  BY <1>1 DEF InputsInv, InputsAreNews
<1> QED BY <1>1, <1>2, <1>3, <1>4 DEF InputsInv

\* The buffer is found empty: what was taken is what was delivered.
LEMMA EmptyInputs ==
    ASSUME InputsInv, ReceiveNothing
    PROVE  InputsInv'
<1>1. /\ pc = "drain" /\ pc' = "execute" /\ recvMsgs = <<>> /\ recvMsgs' = <<>>
      /\ received' = [received EXCEPT ![Task] = NoMessage]
      /\ heard' = newest /\ newest' = [v \in InVar |-> "none"]
      /\ complete' = ~overflown /\ gvInputs' = gvInputs
  BY DEF ReceiveNothing, RecvQueue!TakeNothing
<1>2. InputTypes'
  BY <1>1 DEF InputsInv, InputTypes
<1>3. \A v \in InVar : BufferIsNews(v)'
  BY <1>1 DEF BufferIsNews
<1>4. InputsAreNews'
  <2> SUFFICES ASSUME ~overflown, NEW v \in InVar PROVE gvInputs[v] <=> newest[v] = "1"
    BY <1>1 DEF InputsAreNews
  <2>1. BufferIsNews(v)
    BY DEF InputsInv
  <2> QED BY <1>1, <2>1 DEF BufferIsNews
<1> QED BY <1>2, <1>3, <1>4 DEF InputsInv

LEMMA NextInputs == InputsInv /\ [Next]_vars => InputsInv'
<1> SUFFICES ASSUME InputsInv, [Next]_vars PROVE InputsInv'
  OBVIOUS
<1>1. CASE ClearInputs
  BY <1>1 DEF InputsInv, ClearInputs, InputTypes, BufferIsNews, InputsAreNews, AllFalse
<1>2. CASE ReceiveMessage
  BY <1>2, TakeInputs
<1>3. CASE ReceiveNothing
  BY <1>3, EmptyInputs
<1>4. CASE Deliver
  BY <1>4, PutInputs DEF Deliver
<1>5. CASE Execute
  BY <1>5 DEF InputsInv, Execute, InputTypes, BufferIsNews, InputsAreNews
<1>6. CASE \/ InitIO \/ Remember \/ EndCycle \/ Shutdown
           \/ \E v \in OutVar : Compare(v) \/ OtherTask(v)
  BY <1>6 DEF InputsInv, InputTypes, BufferIsNews, InputsAreNews, inputState,
              InitIO, Remember, EndCycle, Shutdown, Compare, OtherTask
<1>7. CASE UNCHANGED vars
  BY <1>7 DEF vars, inputState, InputsInv, InputTypes, BufferIsNews, InputsAreNews
<1> QED BY <1>1, <1>2, <1>3, <1>4, <1>5, <1>6, <1>7 DEF Next, Cycle

\* The programs see a pulse in a cycle if and only if the last word on that input
\* was "1", for any mapping and any messages, as long as the buffer suffices.
THEOREM InputsArePulses == Spec => []InputsAreNews
<1>1. InputsInv => InputsAreNews
  BY DEF InputsInv
<1> QED BY InitInputs, NextInputs, <1>1, PTL DEF Spec

-----------------------------------------------------------------------------
(* Types *)

LEMMA HeadAndTail ==
    ASSUME NEW S, NEW s \in Seq(S), s # <<>>
    PROVE  Head(s) \in S /\ Tail(s) \in Seq(S) /\ Len(Tail(s)) = Len(s) - 1
OBVIOUS

LEMMA InitTypeOK == Init => TypeOK
<1> SUFFICES ASSUME Init PROVE TypeOK
  OBVIOUS
<1>1. RecvQueue!TypeOK
  BY CapacityAssumption DEF Init, RecvQueue!Init, RecvQueue!TypeOK
<1>2. InputsOK
  BY <1>1 DEF Init, InputsOK, Value
<1>3. OutputsOK
  BY DEF Init, OutputsOK, AllFalse
<1> QED BY <1>2, <1>3 DEF Init, TypeOK

\* The buffer and the inputs.
LEMMA InputsUnchanged ==
    ASSUME InputsOK, UNCHANGED inputState
    PROVE  InputsOK'
BY DEF InputsOK, RecvQueue!TypeOK, inputState

LEMMA TakeTypes ==
    ASSUME InputsOK, ReceiveMessage
    PROVE  InputsOK'
<1>1. /\ recvMsgs \in Seq(Message) /\ Len(recvMsgs) <= Capacity
      /\ received \in [{Task} -> Message \cup {NoMessage}]
  BY DEF InputsOK, RecvQueue!TypeOK
<1>2. /\ recvMsgs # <<>> /\ recvMsgs' = Tail(recvMsgs)
      /\ received' = [received EXCEPT ![Task] = Head(recvMsgs)]
      /\ UNCHANGED <<newest, heard, overflown, complete>>
  BY DEF ReceiveMessage, RecvQueue!Take
<1>3. /\ Head(recvMsgs) \in Message /\ Tail(recvMsgs) \in Seq(Message)
      /\ Len(Tail(recvMsgs)) = Len(recvMsgs) - 1
  BY <1>1, <1>2, HeadAndTail
<1>4. Len(recvMsgs) \in Nat /\ Len(recvMsgs) - 1 <= Capacity
  BY <1>1, CapacityAssumption
<1>5. received' \in [{Task} -> Message \cup {NoMessage}]
  BY <1>1, <1>2, <1>3
<1>6. RecvQueue!TypeOK'
  BY <1>2, <1>3, <1>4, <1>5 DEF RecvQueue!TypeOK
<1>7. gvInputs' \in [InVar -> BOOLEAN]
  BY MappingAssumption DEF InputsOK, ReceiveMessage, Decisive
<1> QED BY <1>2, <1>6, <1>7 DEF InputsOK

LEMMA PutTypes ==
    ASSUME InputsOK, NEW m \in Message, MsgArrvd(m)
    PROVE  InputsOK'
<1>1. /\ recvMsgs \in Seq(Message) /\ Len(recvMsgs) <= Capacity
      /\ received \in [{Task} -> Message \cup {NoMessage}]
  BY DEF InputsOK, RecvQueue!TypeOK
<1>2. /\ recvMsgs' = IF Len(recvMsgs) = Capacity THEN Append(Tail(recvMsgs), m)
                                                 ELSE Append(recvMsgs, m)
      /\ UNCHANGED <<received, gvInputs, heard, complete>>
      /\ overflown' = (overflown \/ Len(recvMsgs) = Capacity)
  BY DEF MsgArrvd, RecvQueue!Put
<1>3. ASSUME Len(recvMsgs) = Capacity PROVE RecvQueue!TypeOK'
  <2>1. recvMsgs # <<>> /\ Len(recvMsgs) \in Nat
    BY <1>1, <1>3, CapacityAssumption
  <2>2. Tail(recvMsgs) \in Seq(Message) /\ Len(Tail(recvMsgs)) = Len(recvMsgs) - 1
    BY <1>1, <2>1, HeadAndTail
  <2>3. recvMsgs' \in Seq(Message) /\ Len(recvMsgs') = Len(recvMsgs)
    BY <1>2, <1>3, <2>1, <2>2
  <2> QED BY <1>1, <1>2, <2>3 DEF RecvQueue!TypeOK
<1>4. ASSUME Len(recvMsgs) # Capacity PROVE RecvQueue!TypeOK'
  <2>1. recvMsgs' \in Seq(Message) /\ Len(recvMsgs') = Len(recvMsgs) + 1
    BY <1>1, <1>2, <1>4
  <2> QED BY <1>1, <1>2, <1>4, <2>1, CapacityAssumption DEF RecvQueue!TypeOK
<1>5. newest' \in [InVar -> Value]
  BY MappingAssumption DEF InputsOK, MsgArrvd, Decisive, Value
<1>6. overflown' \in BOOLEAN
  BY <1>2
<1> QED BY <1>2, <1>3, <1>4, <1>5, <1>6 DEF InputsOK

LEMMA NextInputsOK ==
    ASSUME InputsOK, [Next]_vars
    PROVE  InputsOK'
<1>1. CASE ClearInputs
  BY <1>1 DEF ClearInputs, AllFalse, InputsOK, RecvQueue!TypeOK
<1>2. CASE ReceiveNothing
  <2>1. /\ UNCHANGED <<recvMsgs, gvInputs>> /\ overflown' = FALSE /\ complete' = ~overflown
        /\ received' = [received EXCEPT ![Task] = NoMessage]
        /\ heard' = newest /\ newest' = [v \in InVar |-> "none"]
    BY <1>2 DEF ReceiveNothing, RecvQueue!TakeNothing
  <2>2. RecvQueue!TypeOK'
    BY <2>1 DEF InputsOK, RecvQueue!TypeOK
  <2>3. newest' \in [InVar -> Value]
    BY <2>1 DEF Value
  <2> QED BY <2>1, <2>2, <2>3 DEF InputsOK
<1>3. CASE Execute
  <2>1. RecvQueue!TypeOK' /\ UNCHANGED <<gvInputs, newest, overflown>>
    BY <1>3 DEF Execute, InputsOK, RecvQueue!TypeOK
  <2>2. heard' \in [InVar -> Value] /\ complete' = FALSE
    BY <1>3 DEF Execute, Value
  <2> QED BY <2>1, <2>2 DEF InputsOK
<1>4. CASE \/ InitIO \/ Remember \/ EndCycle \/ Shutdown \/ UNCHANGED vars
           \/ \E v \in OutVar : Compare(v) \/ OtherTask(v)
  BY <1>4, InputsUnchanged DEF InitIO, Remember, EndCycle, Shutdown, Compare, OtherTask, vars
<1> QED BY <1>1, <1>2, <1>3, <1>4, TakeTypes, PutTypes DEF Next, Cycle, Deliver

LEMMA NextOutputsOK ==
    ASSUME OutputsOK, [Next]_vars
    PROVE  OutputsOK'
<1> USE DEF OutputsOK
<1>1. CASE InitIO \/ Execute
  BY <1>1 DEF InitIO, Execute, AllFalse
<1>2. ASSUME NEW v \in OutVar, Compare(v)
      PROVE  OutputsOK'
  BY <1>2 DEF Compare
<1>3. CASE Remember
  BY <1>3 DEF Remember
<1>4. ASSUME NEW v \in OutVar, OtherTask(v)
      PROVE  OutputsOK'
  BY <1>4 DEF OtherTask
<1>5. CASE \/ ClearInputs \/ ReceiveMessage \/ ReceiveNothing \/ EndCycle \/ Shutdown
           \/ Deliver \/ UNCHANGED vars
  BY <1>5 DEF ClearInputs, ReceiveMessage, ReceiveNothing, EndCycle, Shutdown, Deliver,
              MsgArrvd, vars, outputState
<1> QED BY <1>1, <1>2, <1>3, <1>4, <1>5 DEF Next, Cycle

\* Every variable keeps its type; in particular the buffer never holds more than its
\* capacity, and the output that after() is about to remember is one it has yet to
\* tick off.
THEOREM TypeCorrect == Spec => []TypeOK
<1>1. TypeOK /\ [Next]_vars => TypeOK'
  <2> SUFFICES ASSUME TypeOK, [Next]_vars PROVE TypeOK'
    OBVIOUS
  <2>1. InputsOK' /\ OutputsOK'
    BY NextInputsOK, NextOutputsOK DEF TypeOK
  <2>2. pc' \in {"init", "before", "drain", "execute", "after", "remember", "stopped"}
    BY DEF TypeOK, Next, Cycle, InitIO, ClearInputs, ReceiveMessage, ReceiveNothing, Execute,
           Compare, Remember, EndCycle, Shutdown, Deliver, MsgArrvd, OtherTask, vars
  <2> QED BY <2>1, <2>2 DEF TypeOK
<1> QED BY InitTypeOK, <1>1, PTL DEF Spec
=============================================================================
