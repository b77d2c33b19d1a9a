------------------------------- MODULE Blind -------------------------------
(***************************************************************************)
(* The roller-blind function block (library/blind.cpp, blind_state.cpp, on *)
(* top of fsm.hpp and trigger.hpp) and the motor its two outputs drive.    *)
(*                                                                         *)
(* Time passes in ticks (Tick); the task that owns the block calls execute *)
(* once in each of its cycles, at intervals that vary but never exceed     *)
(* MaxGap.  Clock readings are not kept: the block only ever subtracts a   *)
(* state's start from now, and that difference is "age".                   *)
(*                                                                         *)
(* held, prevUp and prevDown are history variables: no action reads them.  *)
(* They say what an observer of the wires sees, for the properties.        *)
(***************************************************************************)
EXTENDS Naturals

CONSTANTS
    PeriodIdle, PeriodUp, PeriodDown,   \* BlindConfig
    MaxGap,     \* the longest time between two calls of execute
    Horizon     \* differences of time beyond it are not told apart

ASSUME PeriodAssumption ==
    /\ PeriodIdle \in Nat
    /\ PeriodUp \in Nat
    /\ PeriodDown \in Nat
ASSUME GapAssumption == MaxGap \in Nat \ {0}
ASSUME HorizonAssumption ==
    /\ Horizon \in Nat
    /\ Horizon > PeriodIdle
    /\ Horizon > PeriodUp + MaxGap
    /\ Horizon > PeriodDown + MaxGap

VARIABLES
    state,              \* the alternative held by FSM::curState
    age,                \* context.now - state.start
    upLast, downLast,   \* R_TRIG::last of the state's two triggers
    outUp, outDown,     \* context.outputs
    sinceCall,          \* the time since the last execute
    held,               \* how long the outputs have had their present values
    prevUp, prevDown    \* the buttons in the last execute

vars == <<state, age, upLast, downLast, outUp, outDown,
          sinceCall, held, prevUp, prevDown>>

LevelsOK ==
    /\ upLast \in BOOLEAN
    /\ downLast \in BOOLEAN
    /\ outUp \in BOOLEAN
    /\ outDown \in BOOLEAN
    /\ prevUp \in BOOLEAN
    /\ prevDown \in BOOLEAN

TimesOK ==
    /\ age \in 0 .. Horizon
    /\ held \in 0 .. Horizon
    /\ sinceCall \in 0 .. MaxGap

TypeOK ==
    /\ state \in {"Idle", "Up", "Down"}
    /\ LevelsOK
    /\ TimesOK

\* Blind::Blind: BlindStateIdle{now}, both triggers and both outputs false.
Init ==
    /\ state = "Idle"
    /\ age = 0
    /\ upLast = FALSE
    /\ downLast = FALSE
    /\ outUp = FALSE
    /\ outDown = FALSE
    /\ sinceCall = 0
    /\ held = 0
    /\ prevUp = FALSE
    /\ prevDown = FALSE

-----------------------------------------------------------------------------

\* What R_TRIG::execute returns.
Rising(last, cur) == ~last /\ cur

\* Mutation of Enter: the triggers of the new state start as false, as in the
\* one-argument constructor of BlindStateIdle.
EnterForgettingButtons(s, up, down) ==
    /\ state' = s
    /\ age' = 0
    /\ upLast' = FALSE
    /\ downLast' = FALSE
    /\ outUp' = (s = "Up")
    /\ outDown' = (s = "Down")

\* Mutation of Enter: the update of BlindStateIdle does nothing.
EnterIdleLate(s, up, down) ==
    /\ state' = s
    /\ age' = 0
    /\ upLast' = up
    /\ downLast' = down
    /\ outUp' = (outUp \/ s = "Up")
    /\ outDown' = (outDown \/ s = "Down")

\* FSM::update with a new state: its constructor takes the time and the buttons,
\* its update sets the outputs.
Enter(s, up, down) ==
    /\ state' = s
    /\ age' = 0
    /\ upLast' = up
    /\ downLast' = down
    /\ outUp' = (s = "Up")
    /\ outDown' = (s = "Down")

\* Mutation of Stay: the down trigger is skipped, as by a short-circuit.
StaySkippingTrigger(up, down) ==
    /\ upLast' = up
    /\ UNCHANGED <<downLast, state, age, outUp, outDown>>

\* FSM::update without a new state: the outputs stay, both triggers have seen
\* the buttons.
Stay(up, down) ==
    /\ upLast' = up
    /\ downLast' = down
    /\ UNCHANGED <<state, age, outUp, outDown>>

\* Mutation of TransitionIdle: no dead time.
TransitionIdleAtOnce(up, down) ==
    LET upTriggered == Rising(upLast, up)
        downTriggered == Rising(downLast, down)
    IN  /\ state = "Idle"
        /\ \/ upTriggered /\ Enter("Up", up, down)
           \/ ~upTriggered /\ downTriggered /\ Enter("Down", up, down)
           \/ ~upTriggered /\ ~downTriggered /\ Stay(up, down)

\* transition(BlindStateIdle &, BlindContext &); the up button wins.
TransitionIdle(up, down) ==
    LET mayStart == age >= PeriodIdle
        upTriggered == Rising(upLast, up)
        downTriggered == Rising(downLast, down)
    IN  /\ state = "Idle"
        /\ \/ mayStart /\ upTriggered /\ Enter("Up", up, down)
           \/ mayStart /\ ~upTriggered /\ downTriggered /\ Enter("Down", up, down)
           \/ ~(mayStart /\ (upTriggered \/ downTriggered)) /\ Stay(up, down)

\* Mutation of TransitionMoving: the period is not looked at.
TransitionMovingUntilPressed(dir, period, up, down) ==
    LET over == Rising(upLast, up) \/ Rising(downLast, down)
    IN  /\ state = dir
        /\ \/ over /\ Enter("Idle", up, down)
           \/ ~over /\ Stay(up, down)

\* Mutation of TransitionMoving: the button of the other direction does not stop the motor.
TransitionMovingOneButton(dir, period, up, down) ==
    LET over == age > period \/ (dir = "Up" /\ Rising(upLast, up))
                             \/ (dir = "Down" /\ Rising(downLast, down))
    IN  /\ state = dir
        /\ \/ over /\ Enter("Idle", up, down)
           \/ ~over /\ Stay(up, down)

\* transition(BlindStateUp &, ..) and transition(BlindStateDown &, ..): the
\* triggers are skipped when the period is over, but then the state is left.
TransitionMoving(dir, period, up, down) ==
    LET over == age > period \/ Rising(upLast, up) \/ Rising(downLast, down)
    IN  /\ state = dir
        /\ \/ over /\ Enter("Idle", up, down)
           \/ ~over /\ Stay(up, down)

\* Blind::execute(now, button_up, button_down).
Execute(up, down) ==
    /\ \/ TransitionIdle(up, down)
       \/ TransitionMoving("Up", PeriodUp, up, down)
       \/ TransitionMoving("Down", PeriodDown, up, down)
    /\ sinceCall' = 0
    /\ held' = IF <<outUp', outDown'>> = <<outUp, outDown>> THEN held ELSE 0
    /\ prevUp' = up
    /\ prevDown' = down

\* now - start, a tick later.  Beyond the Horizon all ages are alike: no period and no
\* bound is longer.
Later(t) == IF t < Horizon THEN t + 1 ELSE t

Tick ==
    /\ sinceCall < MaxGap
    /\ sinceCall' = sinceCall + 1
    /\ age' = Later(age)
    /\ held' = Later(held)
    /\ UNCHANGED <<state, upLast, downLast, outUp, outDown, prevUp, prevDown>>

Next ==
    \/ \E up, down \in BOOLEAN : Execute(up, down)
    \/ Tick

Spec == Init /\ [][Next]_vars

-----------------------------------------------------------------------------
(* Properties *)

Moving == outUp \/ outDown

\* The motor is never energised for longer than its period and one gap between
\* two calls, whatever happens at the buttons.
MotorRunBound ==
    /\ outUp => held <= PeriodUp + MaxGap
    /\ outDown => held <= PeriodDown + MaxGap

\* A motor that starts was without power for the idle period (after a motion in
\* either direction, and after the start of the program), so that it is never
\* reversed at full speed.
RestBeforeStart ==
    [][ ~Moving /\ Moving' => held >= PeriodIdle ]_vars

\* Holding a button down starts the motor once at most: it takes a press since
\* the call before, also when the motor has stopped in between while the button
\* was held.  And a press never turns a motion into the opposite one.
StartNeedsFreshPress ==
    [][ /\ outUp' /\ ~outUp => ~prevUp /\ prevUp' /\ ~outDown
        /\ outDown' /\ ~outDown => ~prevDown /\ prevDown' /\ ~outUp ]_vars

\* A fresh press of either button stops a moving motor in that very call.
PressStops ==
    [][ /\ Moving
        /\ \/ ~prevUp /\ prevUp'
           \/ ~prevDown /\ prevDown'
        => ~Moving' ]_vars

-----------------------------------------------------------------------------
(* The inductive invariant from which BlindSystem_proofs derives the properties. *)

\* The motor does what the state says.
OutputsFollowState ==
    /\ outUp <=> state = "Up"
    /\ outDown <=> state = "Down"

\* The block's clock is the observer's: every transition restarts both.
AgeIsHeld == age = held

\* Short-circuit evaluation never leaves a trigger behind the button it watches.
TriggersFollowButtons == (upLast <=> prevUp) /\ (downLast <=> prevDown)

\* A motion that is past its period ends with the next call.
RunBound ==
    /\ state = "Up" => age <= PeriodUp + sinceCall
    /\ state = "Down" => age <= PeriodDown + sinceCall

IInv ==
    /\ TypeOK
    /\ OutputsFollowState
    /\ AgeIsHeld
    /\ TriggersFollowButtons
    /\ RunBound
=============================================================================
