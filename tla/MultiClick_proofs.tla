------------------------- MODULE MultiClick_proofs -------------------------
(***************************************************************************)
(* The safety properties of MultiClick, proved for any period and gap.     *)
(***************************************************************************)
EXTENDS MultiClick, TLAPS

\* Within a period the trigger follows the button, and a press is released for one
\* call before the next.
WhileCounting ==
    /\ cnt \in rises - 1 .. rises + 1
    /\ last <=> heldCalls > 0
    /\ 2 * (cnt - 1) <= elapsed
    /\ ~last => 2 * (cnt - 1) + 1 <= elapsed

\* Outside it one press at most goes by, the one that follows a release in the call
\* that reported.
WhileIdle ==
    /\ rises <= 1
    /\ last /\ heldCalls = 0 => rises = 0
    /\ ~last => heldCalls < 2

\* The inductive invariant: the two phases, and the types.
IInv ==
    /\ TypeOK
    /\ counting => WhileCounting
    /\ ~counting => WhileIdle

\* A new block counts nothing.
LEMMA InitIInv == Init => IInv
<1> SUFFICES ASSUME Init PROVE IInv
  OBVIOUS
<1>1. LevelsOK
  BY DEF Init, LevelsOK
<1>2. NumbersOK
  BY PeriodAssumption DEF Init, NumbersOK
<1>3. ~counting /\ WhileIdle
  BY DEF Init, WhileIdle
<1> QED BY <1>1, <1>2, <1>3 DEF IInv, TypeOK

LEMMA IdleIInv ==
    ASSUME IInv, NEW input \in BOOLEAN, Idle(input)
    PROVE  IInv'
<1> USE DEF IInv, TypeOK, Idle, Trigger, Rises, Observe, ObserveHeld
<1>1. LevelsOK' /\ NumbersOK'
  <2>1. LevelsOK'
    BY DEF LevelsOK
  <2>2. NumbersOK'
    BY PeriodAssumption DEF NumbersOK
  <2> QED BY <2>1, <2>2
<1>2. CASE ~last /\ input
  <2>1. counting' /\ cnt' = 1 /\ elapsed' = 0 /\ last' /\ heldCalls' > 0
    BY <1>2
  <2>2. rises' \in 0 .. 2
    BY <1>2 DEF WhileIdle, NumbersOK
  <2>3. WhileCounting'
    BY <2>1, <2>2 DEF WhileCounting
  <2> QED BY <1>1, <2>1, <2>3
<1>3. CASE ~(~last /\ input)
  BY <1>1, <1>3 DEF WhileIdle, NumbersOK
<1> QED BY <1>2, <1>3

LEMMA CountIInv ==
    ASSUME IInv, NEW gap \in 1 .. MaxGap, NEW input \in BOOLEAN, Count(gap, input)
    PROVE  IInv'
<1> USE GapAssumption, PeriodAssumption
        DEF IInv, TypeOK, Count, Trigger, Rises, Observe, ObserveHeld
<1>1. gap \in Nat /\ gap >= 1
  OBVIOUS
<1>2. LevelsOK' /\ NumbersOK'
  <2>1. LevelsOK'
    BY DEF LevelsOK
  <2>2. NumbersOK'
    BY <1>1 DEF NumbersOK
  <2> QED BY <2>1, <2>2
<1>3. cnt' \in rises' - 1 .. rises' + 1 /\ (last' <=> heldCalls' > 0)
  BY <1>2 DEF WhileCounting, NumbersOK
<1>4. 2 * (cnt' - 1) <= elapsed' /\ (~last' => 2 * (cnt' - 1) + 1 <= elapsed')
  BY <1>1, <1>2 DEF WhileCounting, NumbersOK
<1> QED BY <1>2, <1>3, <1>4 DEF WhileCounting

LEMMA ReportIInv ==
    ASSUME IInv, NEW gap \in 1 .. MaxGap, NEW input \in BOOLEAN, Report(gap, input)
    PROVE  IInv'
<1> USE DEF IInv, TypeOK, Report, ObserveHeld
<1>1. LevelsOK'
  BY DEF LevelsOK
<1>2. NumbersOK'
  BY PeriodAssumption DEF NumbersOK
<1>3. ~counting' /\ WhileIdle'
  BY DEF WhileIdle, WhileCounting, NumbersOK
<1> QED BY <1>1, <1>2, <1>3

LEMMA NextIInv == IInv /\ [Next]_vars => IInv'
<1> SUFFICES ASSUME IInv, [Next]_vars PROVE IInv'
  OBVIOUS
<1>1. CASE Next
  <2>1. PICK gap \in 1 .. MaxGap, input \in BOOLEAN : Execute(gap, input)
    BY <1>1 DEF Next
  <2> QED BY <2>1, IdleIInv, CountIInv, ReportIInv DEF Execute
<1>2. CASE UNCHANGED vars
  BY <1>2 DEF vars, IInv, TypeOK, LevelsOK, NumbersOK, WhileCounting, WhileIdle
<1> QED BY <1>1, <1>2

\* The block's state agrees with what an observer of the button has seen.
LEMMA Invariance == Spec => []IInv
BY InitIInv, NextIInv, PTL DEF Spec

\* Every variable keeps its type: in particular a period never exceeds its length.
THEOREM TypeCorrect == Spec => []TypeOK
<1>1. IInv => TypeOK
  BY DEF IInv
<1> QED BY Invariance, <1>1, PTL

\* What is counted differs from the presses seen by one at most, however long the
\* period and however irregular the calls.
THEOREM PressesCounted == Spec => []CountsPresses
<1>1. IInv => CountsPresses
  BY DEF IInv, WhileCounting, CountsPresses
<1> QED BY Invariance, <1>1, PTL

\* A period of length n counts no more than n / 2 + 1 presses.
THEOREM CountKeptSmall == Spec => []CountBounded
<1>1. IInv => CountBounded
  BY DEF IInv, WhileCounting, CountBounded
<1> QED BY Invariance, <1>1, PTL

\* A button that stays pressed beyond the report starts no new period.
THEOREM HeldStaysQuiet == Spec => HeldButtonStaysQuiet
<1>1. IInv /\ [Next]_vars => [~counting /\ counting' => heldCalls < 2]_vars
  <2> SUFFICES ASSUME IInv, Next, ~counting, counting' PROVE heldCalls < 2
    BY DEF vars
  <2>1. PICK gap \in 1 .. MaxGap, input \in BOOLEAN : Execute(gap, input)
    BY DEF Next
  <2>2. Idle(input)
    BY <2>1 DEF Execute, Count, Report
  <2>3. ~last
    BY <2>2 DEF Idle, Rises
  <2> QED BY <2>3 DEF IInv, TypeOK, WhileIdle
<1> QED BY Invariance, <1>1, PTL DEF Spec, HeldButtonStaysQuiet
=============================================================================
