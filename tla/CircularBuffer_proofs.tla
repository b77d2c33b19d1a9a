------------------------ MODULE CircularBuffer_proofs ------------------------
(***************************************************************************)
(* The safety properties of CircularBuffer, proved for every capacity, all *)
(* messages and any finite set of consumers.  The index arithmetic is      *)
(* confined to the first lemmas: what follows only speaks of the position  *)
(* Pos(t, i) of the message that is i places after the one at t.           *)
(***************************************************************************)
EXTENDS CircularBuffer, FiniteSetTheorems, SequenceTheorems, TLAPS

\* head, tail and buffer_full agree: buffer_full is only set when the indices
\* coincide, and every message between tail and head was really put there.
ContentsValid ==
    /\ bufferFull => head = tail
    /\ \A i \in 0 .. Size - 1 : buf[(tail + i) % Capacity] \in Item

Pos(t, i) == (t + i) % Capacity

-----------------------------------------------------------------------------
(* Index arithmetic *)

\* Where a position is.
LEMMA PosSteps ==
    ASSUME NEW t \in Slot, NEW i \in 0 .. Capacity - 1
    PROVE  /\ Pos(t, i) \in Slot
           /\ Pos(t, i) = IF t + i < Capacity THEN t + i ELSE t + i - Capacity
<1>1. (t + i) % Capacity = IF t + i < Capacity THEN t + i ELSE t + i - Capacity
  BY CapacityAssumption DEF Slot
<1> QED BY <1>1, CapacityAssumption DEF Slot, Pos

\* A full turn leads back.
LEMMA PosTurn ==
    ASSUME NEW t \in Slot
    PROVE  Pos(t, 0) = t /\ Pos(t, Capacity) = t
<1>1. (t + 0) % Capacity = t
  BY CapacityAssumption DEF Slot
<1>2. (t + Capacity) % Capacity = t
  BY CapacityAssumption DEF Slot
<1> QED BY <1>1, <1>2 DEF Pos

\* What Succ(s) is: a slot, the next one.
LEMMA SuccSteps ==
    ASSUME NEW s \in Slot
    PROVE  /\ Succ(s) \in Slot
           /\ Succ(s) = IF s = Capacity - 1 THEN 0 ELSE s + 1
<1>1. (s + 1) % Capacity = IF s + 1 < Capacity THEN s + 1 ELSE s + 1 - Capacity
  BY CapacityAssumption DEF Slot
<1> QED BY <1>1, CapacityAssumption DEF Slot, Succ

\* Advancing the start of the count by one slot shifts the positions by one.
LEMMA PosShift ==
    ASSUME NEW t \in Slot, NEW i \in 0 .. Capacity - 1
    PROVE  Pos(Succ(t), i) = Pos(t, i + 1)
<1>1. /\ Succ(t) \in Slot
      /\ Succ(t) = IF t = Capacity - 1 THEN 0 ELSE t + 1
  BY SuccSteps
<1>2. Pos(Succ(t), i) = IF Succ(t) + i < Capacity THEN Succ(t) + i
                                                  ELSE Succ(t) + i - Capacity
  BY <1>1, PosSteps
<1>3. CASE i + 1 < Capacity
  <2>1. i + 1 \in 0 .. Capacity - 1
    BY <1>3, CapacityAssumption
  <2>2. Pos(t, i + 1) = IF t + (i + 1) < Capacity THEN t + (i + 1)
                                                  ELSE t + (i + 1) - Capacity
    BY <2>1, PosSteps
  <2> QED BY <1>1, <1>2, <2>2, CapacityAssumption DEF Slot
<1>4. CASE i + 1 = Capacity
  <2>1. Pos(t, i + 1) = t
    BY <1>4, PosTurn
  <2> QED BY <1>1, <1>2, <1>4, <2>1, CapacityAssumption DEF Slot
<1> QED BY <1>3, <1>4, CapacityAssumption

\* Less than one turn apart, different counts are different slots.
LEMMA PosInjective ==
    ASSUME NEW t \in Slot, NEW i \in 0 .. Capacity, NEW j \in 0 .. Capacity,
           i < j, j - i < Capacity
    PROVE  Pos(t, i) # Pos(t, j)
<1>1. i \in 0 .. Capacity - 1
  BY CapacityAssumption
<1>2. Pos(t, i) = IF t + i < Capacity THEN t + i ELSE t + i - Capacity
  BY <1>1, PosSteps
<1>3. CASE j < Capacity
  <2>1. j \in 0 .. Capacity - 1
    BY <1>3, CapacityAssumption
  <2>2. Pos(t, j) = IF t + j < Capacity THEN t + j ELSE t + j - Capacity
    BY <2>1, PosSteps
  <2> QED BY <1>2, <2>2, CapacityAssumption DEF Slot
<1>4. CASE j = Capacity
  <2>1. Pos(t, j) = t
    BY <1>4, PosTurn
  <2> QED BY <1>2, <1>4, <2>1, CapacityAssumption DEF Slot
<1> QED BY <1>3, <1>4, CapacityAssumption

-----------------------------------------------------------------------------
(* What the operations do to the indices *)

\* Size counts from an empty to a full buffer.
LEMMA SizeSteps ==
    ASSUME TypeOK
    PROVE  /\ Size \in 0 .. Capacity
           /\ bufferFull => Size = Capacity
           /\ ~bufferFull => Size < Capacity
           /\ EmptyUnsafe <=> Size = 0
<1>1. CASE bufferFull
  BY <1>1, CapacityAssumption DEF TypeOK, Slot, Size, EmptyUnsafe
<1>2. CASE ~bufferFull
  BY <1>2, CapacityAssumption DEF TypeOK, Slot, Size, EmptyUnsafe
<1> QED BY <1>1, <1>2

\* The flag that tells full from empty goes with equal indices only.
FullOK == bufferFull => head = tail

\* head is where the message after the newest belongs.
LEMMA HeadPos ==
    ASSUME TypeOK, FullOK
    PROVE  head = Pos(tail, Size)
<1>1. CASE bufferFull
  <2>1. Size = Capacity /\ head = tail /\ tail \in Slot
    BY <1>1, SizeSteps DEF TypeOK, FullOK
  <2> QED BY <2>1, PosTurn
<1>2. CASE ~bufferFull
  <2>1. Size \in 0 .. Capacity - 1 /\ head \in Slot /\ tail \in Slot
    BY <1>2, SizeSteps, CapacityAssumption DEF TypeOK
  <2>2. Pos(tail, Size) = IF tail + Size < Capacity THEN tail + Size
                                                    ELSE tail + Size - Capacity
    BY <2>1, PosSteps
  <2>3. Size = IF head >= tail THEN head - tail ELSE Capacity + head - tail
    BY <1>2, <2>1, CapacityAssumption DEF Size, Slot
  <2> QED BY <2>1, <2>2, <2>3, CapacityAssumption DEF Slot
<1> QED BY <1>1, <1>2
\* A put adds one message at the end; a full buffer loses its first one for it.
LEMMA PutEffect ==
    ASSUME TypeOK, FullOK, NEW m \in Item, Put(m)
    PROVE  /\ buf' = [buf EXCEPT ![Pos(tail, Size)] = m]
           /\ head' \in Slot /\ tail' \in Slot /\ bufferFull' \in BOOLEAN
           /\ FullOK'
           /\ bufferFull => tail' = Succ(tail) /\ Size' = Size
           /\ ~bufferFull => tail' = tail /\ Size' = Size + 1
<1>1. /\ head \in Slot /\ tail \in Slot /\ bufferFull \in BOOLEAN
      /\ head' = Succ(head)
      /\ tail' = IF bufferFull THEN Succ(tail) ELSE tail
      /\ bufferFull' <=> head' = tail'
  BY DEF TypeOK, Put
<1>2. buf' = [buf EXCEPT ![Pos(tail, Size)] = m]
  BY HeadPos DEF Put
<1>3. head' \in Slot /\ tail' \in Slot
  BY <1>1, SuccSteps
<1>4. bufferFull' \in BOOLEAN
  BY DEF Put
<1>5. FullOK'
  BY <1>1 DEF FullOK
<1>6. ASSUME bufferFull
      PROVE  tail' = Succ(tail) /\ Size' = Size
  <2>1. head = tail
    BY <1>6 DEF FullOK
  <2>2. bufferFull'
    BY <1>1, <1>6, <2>1
  <2> QED BY <1>1, <1>6, <2>2 DEF Size
<1>7. ASSUME ~bufferFull
      PROVE  tail' = tail /\ Size' = Size + 1
  <2>1. head' = IF head = Capacity - 1 THEN 0 ELSE head + 1
    BY <1>1, SuccSteps
  <2>2. Size = IF head >= tail THEN head - tail ELSE Capacity + head - tail
    BY <1>1, <1>7, CapacityAssumption DEF Size, Slot
  <2>3. tail' = tail
    BY <1>1, <1>7
  <2>4. Size' = IF head' = tail' THEN Capacity
                ELSE IF head' >= tail' THEN head' - tail' ELSE Capacity + head' - tail'
    BY <1>1, <1>3, CapacityAssumption DEF Size, Slot
  <2> QED BY <1>1, <2>1, <2>2, <2>3, <2>4, CapacityAssumption DEF Slot
<1> QED BY <1>2, <1>3, <1>4, <1>5, <1>6, <1>7

\* A get removes the first message.
LEMMA TakeEffect ==
    ASSUME TypeOK, FullOK, NEW c \in Consumer, TakeOldest(c)
    PROVE  /\ buf' = buf /\ head' \in Slot /\ tail' \in Slot /\ bufferFull' = FALSE
           /\ Size > 0 /\ tail' = Succ(tail) /\ Size' = Size - 1
<1>1. /\ head \in Slot /\ tail \in Slot
      /\ head' = head /\ tail' = Succ(tail) /\ bufferFull' = FALSE /\ buf' = buf
  BY DEF TypeOK, TakeOldest
<1>2. /\ tail' \in Slot
      /\ tail' = IF tail = Capacity - 1 THEN 0 ELSE tail + 1
  BY <1>1, SuccSteps
<1>3. Size > 0
  BY SizeSteps, CapacityAssumption DEF TakeOldest
<1>4. Size' = IF head' >= tail' THEN head' - tail' ELSE Capacity + head' - tail'
  BY <1>1, <1>2, CapacityAssumption DEF Size, Slot
<1>5. CASE bufferFull
  <2>1. Size = Capacity /\ head = tail
    BY <1>5, SizeSteps DEF FullOK
  <2> QED BY <1>1, <1>2, <1>3, <1>4, <2>1, CapacityAssumption DEF Slot
<1>6. CASE ~bufferFull
  <2>1. Size = IF head >= tail THEN head - tail ELSE Capacity + head - tail
    BY <1>1, <1>6, CapacityAssumption DEF Size, Slot
  <2> QED BY <1>1, <1>2, <1>3, <1>4, <2>1, CapacityAssumption DEF Slot
<1> QED BY <1>5, <1>6

\* Where each message is found after a put.
LEMMA PutMessages ==
    ASSUME TypeOK, FullOK, NEW m \in Item, Put(m), NEW i \in 0 .. Size' - 1
    PROVE  buf'[Pos(tail', i)] =
             IF bufferFull THEN IF i = Size - 1 THEN m ELSE buf[Pos(tail, i + 1)]
                           ELSE IF i = Size THEN m ELSE buf[Pos(tail, i)]
<1>1. /\ tail \in Slot /\ bufferFull \in BOOLEAN
      /\ Size \in 0 .. Capacity
      /\ bufferFull => Size = Capacity
      /\ ~bufferFull => Size < Capacity
      /\ buf \in [Slot -> Item \cup {NoItem}]
  BY SizeSteps DEF TypeOK
<1>2. /\ buf' = [buf EXCEPT ![Pos(tail, Size)] = m]
      /\ bufferFull => tail' = Succ(tail) /\ Size' = Size
      /\ ~bufferFull => tail' = tail /\ Size' = Size + 1
  BY PutEffect
<1>3. \A k \in 0 .. Capacity : Pos(tail, k) \in Slot
  BY <1>1, PosSteps, PosTurn, CapacityAssumption
<1>4. \A k \in 0 .. Capacity :
         buf'[Pos(tail, k)] = IF Pos(tail, k) = Pos(tail, Size) THEN m ELSE buf[Pos(tail, k)]
  BY <1>1, <1>2, <1>3
<1>5. CASE bufferFull
  <2>1. i \in 0 .. Capacity - 1 /\ i + 1 \in 0 .. Capacity /\ Size = Capacity
    BY <1>1, <1>2, <1>5, CapacityAssumption
  <2>2. Pos(tail', i) = Pos(tail, i + 1)
    BY <1>1, <1>2, <1>5, <2>1, PosShift
  <2>3. i # Size - 1 => Pos(tail, i + 1) # Pos(tail, Size)
    BY <1>1, <2>1, PosInjective, CapacityAssumption
  <2>4. i = Size - 1 => i + 1 = Size
    BY <1>1, <2>1, CapacityAssumption
  <2> QED BY <1>4, <1>5, <2>1, <2>2, <2>3, <2>4
<1>6. CASE ~bufferFull
  <2>1. i \in 0 .. Size /\ i \in 0 .. Capacity /\ tail' = tail
    BY <1>1, <1>2, <1>6, CapacityAssumption
  <2>2. i # Size => Pos(tail, i) # Pos(tail, Size)
    BY <1>1, <1>6, <2>1, PosInjective, CapacityAssumption
  <2> QED BY <1>4, <1>6, <2>1, <2>2
<1> QED BY <1>5, <1>6

\* Where each message is found after a get.
LEMMA TakeMessages ==
    ASSUME TypeOK, FullOK, NEW c \in Consumer, TakeOldest(c), NEW i \in 0 .. Size' - 1
    PROVE  /\ buf'[Pos(tail', i)] = buf[Pos(tail, i + 1)]
           /\ i + 1 \in 0 .. Size - 1
<1>1. /\ tail \in Slot /\ Size \in 0 .. Capacity
      /\ buf' = buf /\ tail' = Succ(tail) /\ Size' = Size - 1
  BY SizeSteps, TakeEffect DEF TypeOK
<1>2. i \in 0 .. Capacity - 1 /\ i + 1 \in 0 .. Size - 1
  BY <1>1, CapacityAssumption
<1> QED BY <1>1, <1>2, PosShift

\* A reset leaves nothing.
LEMMA ResetEffect ==
    ASSUME TypeOK, Reset
    PROVE  /\ buf' = buf /\ head' \in Slot /\ tail' \in Slot /\ bufferFull' = FALSE
           /\ Size' = 0
BY CapacityAssumption DEF TypeOK, Reset, Size, Slot
-----------------------------------------------------------------------------
(* Type correctness and the contents of the slots *)

Stored == \A i \in 0 .. Size - 1 : buf[Pos(tail, i)] \in Item

LEMMA ContentsParts == ContentsValid <=> FullOK /\ Stored
BY DEF ContentsValid, FullOK, Stored, Pos

LEMMA StoredNext == Stored' <=> \A i \in 0 .. Size' - 1 : buf'[Pos(tail', i)] \in Item
BY DEF Stored, Pos

IInv == TypeOK /\ FullOK /\ Stored

\* An empty buffer holds nothing that would not have been put there.
LEMMA InitIInv == Init => IInv
<1> SUFFICES ASSUME Init PROVE IInv
  OBVIOUS
<1>1. TypeOK
  <2>1. head \in Slot /\ tail \in Slot
    BY CapacityAssumption DEF Init, Slot
  <2> QED BY <2>1 DEF Init, TypeOK
<1>2. FullOK
  BY DEF Init, FullOK
<1>3. Size = 0
  BY DEF Init, Size
<1>4. Stored
  BY <1>3 DEF Stored
<1> QED BY <1>1, <1>2, <1>4 DEF IInv

\* A put keeps the strengthened invariant.
LEMMA PutIInv ==
    ASSUME IInv, NEW m \in Item, Put(m)
    PROVE  IInv'
<1> USE DEF IInv
<1>1. status' \in [Consumer -> {"idle", "waiting", "notified", "expired"}]
  BY DEF TypeOK, Put, NotifyOne, Rouse
<1>2. TypeOK'
  <2>1. buf' \in [Slot -> Item \cup {NoItem}] /\ result' = result
    BY DEF TypeOK, Put
  <2>2. head' \in Slot /\ tail' \in Slot /\ bufferFull' \in BOOLEAN
    BY PutEffect
  <2> QED BY <1>1, <2>1, <2>2 DEF TypeOK
<1>3. FullOK'
  BY PutEffect
<1>4. ASSUME NEW i \in 0 .. Size' - 1
      PROVE  buf'[Pos(tail', i)] \in Item
  <2>1. /\ Size \in 0 .. Capacity
        /\ bufferFull => Size' = Size
        /\ ~bufferFull => Size' = Size + 1
    BY SizeSteps, PutEffect
  <2>2. CASE bufferFull
    <3>1. i # Size - 1 => i + 1 \in 0 .. Size - 1
      BY <2>1, <2>2, CapacityAssumption
    <3> QED BY <2>2, <3>1, PutMessages DEF Stored
  <2>3. CASE ~bufferFull
    <3>1. i # Size => i \in 0 .. Size - 1
      BY <2>1, <2>3, CapacityAssumption
    <3> QED BY <2>3, <3>1, PutMessages DEF Stored
  <2> QED BY <2>2, <2>3
<1>5. Stored'
  BY <1>4, StoredNext
<1> QED BY <1>2, <1>3, <1>5

\* A get that returns a message keeps the strengthened invariant.
LEMMA TakeIInv ==
    ASSUME IInv, NEW c \in Consumer, TakeOldest(c)
    PROVE  IInv'
<1> USE DEF IInv
<1>1. TypeOK'
  <2>1. /\ status' \in [Consumer -> {"idle", "waiting", "notified", "expired"}]
        /\ buf' = buf /\ bufferFull' = FALSE
    BY DEF TypeOK, TakeOldest
  <2>2. head' \in Slot /\ tail' \in Slot
    BY TakeEffect
  <2>3. result' \in [Consumer -> Item \cup {NoItem}]
    <3>1. buf[tail] \in Item \cup {NoItem}
      BY DEF TypeOK
    <3> QED BY <3>1 DEF TypeOK, TakeOldest
  <2> QED BY <2>1, <2>2, <2>3 DEF TypeOK
<1>2. FullOK'
  BY TakeEffect DEF FullOK
<1>3. ASSUME NEW i \in 0 .. Size' - 1
      PROVE  buf'[Pos(tail', i)] \in Item
  BY TakeMessages DEF Stored
<1>4. Stored'
  BY <1>3, StoredNext
<1> QED BY <1>1, <1>2, <1>4

\* A step that only moves consumers keeps the strengthened invariant.
LEMMA MoveIInv ==
    ASSUME IInv, UNCHANGED <<buf, head, tail, bufferFull>>,
           status' \in [Consumer -> {"idle", "waiting", "notified", "expired"}],
           result' \in [Consumer -> Item \cup {NoItem}]
    PROVE  IInv'
<1>1. TypeOK' /\ FullOK'
  BY DEF IInv, TypeOK, FullOK
<1>2. Size' = Size
  BY DEF Size
<1>3. Stored'
  BY <1>2, StoredNext DEF IInv, Stored
<1> QED BY <1>1, <1>3 DEF IInv

\* A step of a consumer keeps the strengthened invariant.
LEMMA ConsumerIInv ==
    ASSUME IInv, NEW c \in Consumer, Get(c) \/ GetFor(c) \/ Expire(c) \/ Resume(c)
    PROVE  IInv'
<1>1. TypeOK
  BY DEF IInv
<1>2. CASE TakeOldest(c)
  BY <1>2, TakeIInv
<1>3. CASE ReturnNothing(c)
  BY <1>1, <1>3, MoveIInv DEF ReturnNothing, TypeOK
<1>4. CASE Sleep(c)
  BY <1>1, <1>4, MoveIInv DEF Sleep, TypeOK
<1>5. CASE Expire(c)
  BY <1>1, <1>5, MoveIInv DEF Expire, TypeOK
<1> QED BY <1>2, <1>3, <1>4, <1>5 DEF Get, GetFor, Resume

\* A reset keeps the strengthened invariant.
LEMMA ResetIInv ==
    ASSUME IInv, Reset
    PROVE  IInv'
<1>1. TypeOK' /\ FullOK'
  BY ResetEffect DEF IInv, TypeOK, FullOK, Reset
<1>2. Stored'
  BY ResetEffect, StoredNext DEF IInv
<1> QED BY <1>1, <1>2 DEF IInv

LEMMA NextIInv == IInv /\ [Next]_vars => IInv'
<1> SUFFICES ASSUME IInv, [Next]_vars PROVE IInv'
  OBVIOUS
<1>1. ASSUME NEW m \in Item, Put(m)
      PROVE  IInv'
  BY <1>1, PutIInv
<1>2. ASSUME NEW c \in Consumer, Get(c) \/ GetFor(c) \/ Expire(c) \/ Resume(c)
      PROVE  IInv'
  BY <1>2, ConsumerIInv
<1>3. CASE Reset
  BY <1>3, ResetIInv
<1>4. CASE UNCHANGED vars
  BY <1>4, MoveIInv DEF vars, IInv, TypeOK
<1> QED BY <1>1, <1>2, <1>3, <1>4 DEF Next

LEMMA Invariance == Spec => []IInv
BY InitIInv, NextIInv, PTL DEF Spec

\* The indices stay within the array, for every capacity and any interleaving of
\* the threads.
THEOREM TypeCorrect == Spec => []TypeOK
<1>1. IInv => TypeOK
  BY DEF IInv
<1> QED BY Invariance, <1>1, PTL

\* buffer_full never lies, and get never returns a slot that put has not written.
THEOREM ContentsCorrect == Spec => []ContentsValid
<1>1. IInv => ContentsValid
  BY ContentsParts DEF IInv
<1> QED BY Invariance, <1>1, PTL
-----------------------------------------------------------------------------
(* No wake-up is lost *)

LEMMA RousedFinite == IsFiniteSet(Roused) /\ Cardinality(Roused) \in Nat
<1>1. Roused \in SUBSET Consumer
  BY DEF Roused
<1> QED BY <1>1, ConsumerAssumption, FS_Subset, FS_CardinalityType

LEMMA RousedFiniteNext == IsFiniteSet(Roused') /\ Cardinality(Roused') \in Nat
<1>1. Roused' \in SUBSET Consumer
  BY DEF Roused
<1> QED BY <1>1, ConsumerAssumption, FS_Subset, FS_CardinalityType

LEMMA WakeupNext == NoLostWakeup' <=> (Waiting' # {} => Size' <= Cardinality(Roused'))
BY DEF NoLostWakeup

\* A put adds one message and rouses one sleeper, if there is one.
LEMMA PutWakeup ==
    ASSUME IInv, NoLostWakeup, NEW m \in Item, Put(m)
    PROVE  NoLostWakeup'
<1>1. Size \in 0 .. Capacity /\ Size' \in {Size, Size + 1}
  BY SizeSteps, PutEffect DEF IInv, TypeOK
<1>2. Rouse
  BY DEF Put, NotifyOne
<1>3. CASE Waiting = {}
  <2>1. Waiting' = {}
    BY <1>2, <1>3 DEF Rouse, Waiting
  <2> QED BY <2>1, WakeupNext
<1>4. CASE Waiting # {}
  <2>1. PICK c \in Waiting : status' = [status EXCEPT ![c] = "notified"]
    BY <1>2, <1>4 DEF Rouse
  <2>2. Roused' = Roused \cup {c} /\ c \notin Roused
    BY <2>1 DEF IInv, TypeOK, Roused, Waiting
  <2>3. Cardinality(Roused') = Cardinality(Roused) + 1
    BY <2>2, RousedFinite, FS_AddElement
  <2>4. Size <= Cardinality(Roused)
    BY <1>4 DEF NoLostWakeup
  <2> QED BY <1>1, <2>3, <2>4, RousedFinite, CapacityAssumption, WakeupNext
<1> QED BY <1>3, <1>4

\* A consumer that takes a message is one roused consumer less, but it takes a
\* message with it.
LEMMA TakeWakeup ==
    ASSUME IInv, NoLostWakeup, NEW c \in Consumer, TakeOldest(c)
    PROVE  NoLostWakeup'
<1>1. Size \in 0 .. Capacity /\ Size > 0 /\ Size' = Size - 1
  BY SizeSteps, TakeEffect DEF IInv
<1>2. Roused' = Roused \ {c} /\ Waiting' \subseteq Waiting
  BY DEF IInv, TypeOK, TakeOldest, Roused, Waiting
<1>3. Cardinality(Roused') >= Cardinality(Roused) - 1
  BY <1>2, RousedFinite, FS_RemoveElement
<1>4. Waiting' # {} => Size <= Cardinality(Roused)
  BY <1>2 DEF NoLostWakeup
<1> QED BY <1>1, <1>3, <1>4, RousedFinite, RousedFiniteNext, CapacityAssumption, WakeupNext

\* Nobody needs to be woken when there is no message.
LEMMA EmptyWakeup ==
    ASSUME Size' = 0
    PROVE  NoLostWakeup'
BY RousedFiniteNext, WakeupNext

\* A consumer whose deadline passes will look at the buffer, too.
LEMMA ExpireWakeup ==
    ASSUME IInv, NoLostWakeup, NEW c \in Consumer, Expire(c)
    PROVE  NoLostWakeup'
<1>1. Size \in 0 .. Capacity /\ Size' = Size
  BY SizeSteps DEF IInv, Expire, Size
<1>2. Roused' = Roused \cup {c} /\ c \in Waiting
  BY DEF IInv, TypeOK, Expire, Roused, Waiting
<1>3. Cardinality(Roused') >= Cardinality(Roused)
  BY <1>2, RousedFinite, FS_AddElement
<1>4. Size <= Cardinality(Roused)
  BY <1>2 DEF NoLostWakeup
<1> QED BY <1>1, <1>3, <1>4, RousedFinite, RousedFiniteNext, CapacityAssumption, WakeupNext

LEMMA NextWakeup == IInv /\ NoLostWakeup /\ [Next]_vars => NoLostWakeup'
<1> SUFFICES ASSUME IInv, NoLostWakeup, [Next]_vars PROVE NoLostWakeup'
  OBVIOUS
<1>1. ASSUME NEW m \in Item, Put(m)
      PROVE  NoLostWakeup'
  BY <1>1, PutWakeup
<1>2. ASSUME NEW c \in Consumer, Get(c) \/ GetFor(c) \/ Expire(c) \/ Resume(c)
      PROVE  NoLostWakeup'
  <2>1. CASE TakeOldest(c)
    BY <2>1, TakeWakeup
  <2>2. CASE ReturnNothing(c) \/ Sleep(c)
    <3>1. UNCHANGED <<head, tail, bufferFull>> /\ EmptyUnsafe
      BY <2>2 DEF ReturnNothing, Sleep
    <3>2. Size' = Size
      BY <3>1 DEF Size
    <3>3. Size = 0
      BY <3>1, SizeSteps DEF IInv
    <3> QED BY <3>2, <3>3, EmptyWakeup
  <2>3. CASE Expire(c)
    BY <2>3, ExpireWakeup
  <2> QED BY <1>2, <2>1, <2>2, <2>3 DEF Get, GetFor, Resume
<1>3. CASE Reset
  BY <1>3, ResetEffect, EmptyWakeup DEF IInv
<1>4. CASE UNCHANGED vars
  BY <1>4 DEF vars, NoLostWakeup, Waiting, Roused, Size
<1> QED BY <1>1, <1>2, <1>3, <1>4 DEF Next

\* put's single notify_one is enough, for any number of consumers: while one
\* sleeps, the messages in the buffer all have a consumer coming for them.
THEOREM WakeupsKept == Spec => []NoLostWakeup
<1>1. Init => NoLostWakeup
  BY DEF Init, NoLostWakeup, Waiting
<1>2. IInv /\ NoLostWakeup /\ [Next]_vars => NoLostWakeup'
  BY NextWakeup
<1> QED BY <1>1, <1>2, Invariance, PTL DEF Spec
-----------------------------------------------------------------------------
(* CircularBuffer implements MessageQueue *)

\* A function on 1 .. n is a sequence of length n.
LEMMA FunctionIsSeq ==
    ASSUME NEW n \in Nat, NEW f \in [1 .. n -> Item]
    PROVE  f \in Seq(Item) /\ Len(f) = n
BY SeqDef

\* The refinement mapping: the messages from tail on, as many as Size says.
QueueFacts ==
    /\ Queue \in Seq(Item)
    /\ Len(Queue) = Size
    /\ Size \in 0 .. Capacity
    /\ \A i \in 1 .. Size : Queue[i] = buf[Pos(tail, i - 1)]

LEMMA QueueMessages == IInv => QueueFacts
<1> SUFFICES ASSUME IInv PROVE QueueFacts
  OBVIOUS
<1>1. Size \in 0 .. Capacity /\ Size \in Nat
  BY SizeSteps, CapacityAssumption DEF IInv
<1>2. ASSUME NEW i \in 1 .. Size
      PROVE  /\ buf[Pos(tail, i - 1)] \in Item
             /\ (tail + i - 1) % Capacity = Pos(tail, i - 1)
  <2>1. i - 1 \in 0 .. Size - 1
    BY <1>1
  <2>2. tail + i - 1 = tail + (i - 1)
    BY <1>1, CapacityAssumption DEF IInv, TypeOK, Slot
  <2> QED BY <2>1, <2>2 DEF IInv, Stored, Pos
<1>3. Queue = [i \in 1 .. Size |-> buf[Pos(tail, i - 1)]]
  BY <1>2 DEF Queue
<1>4. Queue \in [1 .. Size -> Item]
  BY <1>2, <1>3
<1> QED BY <1>1, <1>3, <1>4, FunctionIsSeq DEF QueueFacts

LEMMA QueueMessagesNext ==
    ASSUME IInv, [Next]_vars
    PROVE  /\ Queue' \in Seq(Item)
           /\ Len(Queue') = Size'
           /\ Size' \in 0 .. Capacity
           /\ \A i \in 1 .. Size' : Queue'[i] = buf'[Pos(tail', i - 1)]
<1>1. IInv' => QueueFacts'
  BY QueueMessages, PTL
<1>2. IInv'
  BY NextIInv
<1> QED BY <1>1, <1>2 DEF QueueFacts, Pos

\* An empty queue is the empty sequence.
LEMMA EmptyQueue ==
    ASSUME NEW q \in Seq(Item), Len(q) = 0
    PROVE  q = <<>>
BY EmptySeq

\* A put appends to the queue, or to what an overflow leaves of it.
LEMMA PutRefines ==
    ASSUME IInv, NEW m \in Item, Put(m)
    PROVE  Abstract!Put(m)
<1>1. QueueFacts /\ [Next]_vars
  BY QueueMessages DEF Next
<1>2. /\ bufferFull \in BOOLEAN /\ bufferFull <=> Size = Capacity
      /\ bufferFull => Size' = Size
      /\ ~bufferFull => Size' = Size + 1
  BY SizeSteps, PutEffect, CapacityAssumption DEF IInv, TypeOK
<1>3. CASE bufferFull
  <2> DEFINE q == Append(Tail(Queue), m)
  <2>1. Queue # <<>>
    BY <1>1, <1>2, <1>3, CapacityAssumption, EmptySeq DEF QueueFacts
  <2>2. /\ Tail(Queue) \in Seq(Item)
        /\ Len(Tail(Queue)) = Size - 1
        /\ \A i \in 1 .. Size - 1 : Tail(Queue)[i] = Queue[i + 1]
    BY <1>1, <2>1, HeadTailProperties DEF QueueFacts
  <2>3. /\ q \in Seq(Item) /\ Len(q) = Size
        /\ \A i \in 1 .. Size : q[i] = IF i = Size THEN m ELSE Queue[i + 1]
    BY <1>1, <2>2, CapacityAssumption, AppendProperties DEF QueueFacts
  <2>4. ASSUME NEW i \in 1 .. Size
        PROVE  Queue'[i] = q[i]
    <3>1. i - 1 \in 0 .. Size' - 1 /\ Queue'[i] = buf'[Pos(tail', i - 1)]
      BY <1>1, <1>2, <1>3, QueueMessagesNext, CapacityAssumption
    <3>2. buf'[Pos(tail', i - 1)] = IF i - 1 = Size - 1 THEN m ELSE buf[Pos(tail, i - 1 + 1)]
      BY <1>3, <3>1, PutMessages DEF IInv
    <3>3. i # Size => Queue[i + 1] = buf[Pos(tail, i - 1 + 1)]
      BY <1>1, CapacityAssumption DEF QueueFacts
    <3> QED BY <1>1, <2>3, <3>1, <3>2, <3>3, CapacityAssumption DEF QueueFacts
  <2>5. Queue' = q
    BY <1>1, <1>2, <1>3, <2>3, <2>4, QueueMessagesNext, SeqEqual
  <2> QED BY <1>1, <1>2, <1>3, <2>5 DEF Abstract!Put, Put, QueueFacts
<1>4. CASE ~bufferFull
  <2> DEFINE q == Append(Queue, m)
  <2>1. /\ q \in Seq(Item) /\ Len(q) = Size + 1
        /\ \A i \in 1 .. Size + 1 : q[i] = IF i = Size + 1 THEN m ELSE Queue[i]
    BY <1>1, CapacityAssumption, AppendProperties DEF QueueFacts
  <2>2. ASSUME NEW i \in 1 .. Size + 1
        PROVE  Queue'[i] = q[i]
    <3>1. i - 1 \in 0 .. Size' - 1 /\ Queue'[i] = buf'[Pos(tail', i - 1)]
      BY <1>1, <1>2, <1>4, QueueMessagesNext, CapacityAssumption DEF QueueFacts
    <3>2. buf'[Pos(tail', i - 1)] = IF i - 1 = Size THEN m ELSE buf[Pos(tail, i - 1)]
      BY <1>4, <3>1, PutMessages DEF IInv
    <3>3. i # Size + 1 => Queue[i] = buf[Pos(tail, i - 1)]
      BY <1>1, CapacityAssumption DEF QueueFacts
    <3> QED BY <1>1, <2>1, <3>1, <3>2, <3>3, CapacityAssumption DEF QueueFacts
  <2>3. Queue' = q
    BY <1>1, <1>2, <1>4, <2>1, <2>2, QueueMessagesNext, SeqEqual
  <2> QED BY <1>1, <1>2, <1>4, <2>3 DEF Abstract!Put, Put, QueueFacts
<1> QED BY <1>2, <1>3, <1>4

\* A get takes the head of the queue.
LEMMA TakeRefines ==
    ASSUME IInv, NEW c \in Consumer, TakeOldest(c), [Next]_vars
    PROVE  Abstract!Take(c)
<1>1. QueueFacts
  BY QueueMessages
<1>2. Size > 0 /\ Size' = Size - 1
  BY TakeEffect DEF IInv
<1>3. Queue # <<>>
  BY <1>1, <1>2, CapacityAssumption, EmptySeq DEF QueueFacts
<1>4. Head(Queue) = buf[tail]
  <2>1. tail \in Slot /\ Pos(tail, 0) = tail
    BY PosTurn DEF IInv, TypeOK
  <2>2. Queue[1] = buf[Pos(tail, 1 - 1)]
    BY <1>1, <1>2, CapacityAssumption DEF QueueFacts
  <2> QED BY <1>1, <1>3, <2>1, <2>2 DEF QueueFacts
<1>5. /\ Tail(Queue) \in Seq(Item)
      /\ Len(Tail(Queue)) = Size - 1
      /\ \A i \in 1 .. Size - 1 : Tail(Queue)[i] = Queue[i + 1]
  BY <1>1, <1>3, HeadTailProperties DEF QueueFacts
<1>6. ASSUME NEW i \in 1 .. Size - 1
      PROVE  Queue'[i] = Tail(Queue)[i]
  <2>1. i - 1 \in 0 .. Size' - 1 /\ Queue'[i] = buf'[Pos(tail', i - 1)]
    BY <1>1, <1>2, QueueMessagesNext, CapacityAssumption DEF QueueFacts
  <2>2. buf'[Pos(tail', i - 1)] = buf[Pos(tail, i - 1 + 1)]
    BY <2>1, TakeMessages DEF IInv
  <2>3. Queue[i + 1] = buf[Pos(tail, i - 1 + 1)]
    BY <1>1, CapacityAssumption DEF QueueFacts
  <2> QED BY <1>5, <2>1, <2>2, <2>3
<1>7. Queue' = Tail(Queue)
  BY <1>2, <1>5, <1>6, QueueMessagesNext, SeqEqual
<1> QED BY <1>3, <1>4, <1>7 DEF Abstract!Take, TakeOldest

\* A step that leaves the buffer alone leaves the queue alone.
LEMMA QueueUnchanged ==
    ASSUME UNCHANGED <<buf, head, tail, bufferFull>>
    PROVE  Queue' = Queue
BY DEF Queue, Size

\* The queue is empty when empty_unsafe says so.
LEMMA QueueEmpty ==
    ASSUME IInv, EmptyUnsafe
    PROVE  Queue = <<>>
<1>1. Queue \in Seq(Item) /\ Len(Queue) = 0
  BY QueueMessages, SizeSteps DEF IInv, QueueFacts
<1> QED BY <1>1, EmptyQueue

\* Every step is a step of MessageQueue or leaves its variables unchanged.
LEMMA NextRefines == IInv /\ [Next]_vars => [Abstract!Next]_(Abstract!vars)
<1> SUFFICES ASSUME IInv, [Next]_vars PROVE [Abstract!Next]_(Abstract!vars)
  OBVIOUS
<1>1. ASSUME NEW m \in Item, Put(m)
      PROVE  Abstract!Next
  BY <1>1, PutRefines DEF Abstract!Next
<1>2. ASSUME NEW c \in Consumer, Get(c) \/ GetFor(c) \/ Expire(c) \/ Resume(c)
      PROVE  Abstract!Next \/ UNCHANGED Abstract!vars
  <2>1. CASE TakeOldest(c)
    BY <2>1, TakeRefines DEF Abstract!Next
  <2>2. CASE ReturnNothing(c)
    <3>1. Queue' = Queue /\ Queue = <<>>
      BY <2>2, QueueUnchanged, QueueEmpty DEF ReturnNothing
    <3>2. Abstract!TakeNothing(c)
      BY <2>2, <3>1 DEF Abstract!TakeNothing, ReturnNothing
    <3> QED BY <3>2 DEF Abstract!Next
  <2>3. CASE Sleep(c)
    BY <2>3, QueueUnchanged DEF Sleep, Abstract!vars
  <2>4. CASE Expire(c)
    BY <2>4, QueueUnchanged DEF Expire, Abstract!vars
  <2> QED BY <1>2, <2>1, <2>2, <2>3, <2>4 DEF Get, GetFor, Resume
<1>3. CASE Reset
  <2>1. Queue' \in Seq(Item) /\ Len(Queue') = 0
    BY <1>3, ResetEffect, QueueMessagesNext DEF IInv
  <2>2. Queue' = <<>>
    BY <2>1, EmptyQueue
  <2>3. Abstract!Clear
    BY <1>3, <2>2 DEF Abstract!Clear, Reset
  <2> QED BY <2>3 DEF Abstract!Next
<1>4. CASE UNCHANGED vars
  BY <1>4, QueueUnchanged DEF vars, Abstract!vars
<1> QED BY <1>1, <1>2, <1>3, <1>4 DEF Next

\* The buffer is a queue that drops its oldest message when it overflows: for
\* every capacity, all messages and any finite set of consumers.
THEOREM Implementation == Spec => ImplementsMessageQueue
<1>1. Init => Abstract!Init
  <2> SUFFICES ASSUME Init PROVE Abstract!Init
    OBVIOUS
  <2>1. Queue = <<>>
    BY InitIInv, QueueEmpty DEF Init, EmptyUnsafe
  <2> QED BY <2>1 DEF Init, Abstract!Init
<1>2. IInv /\ [Next]_vars => [Abstract!Next]_(Abstract!vars)
  BY NextRefines
<1> QED BY <1>1, <1>2, Invariance, PTL DEF Spec, ImplementsMessageQueue, Abstract!Spec
=============================================================================
