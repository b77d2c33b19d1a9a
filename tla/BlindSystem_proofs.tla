------------------------- MODULE BlindSystem_proofs -------------------------
(***************************************************************************)
(* The safety properties of Blind and of BlindSystem, proved for all       *)
(* periods, gaps, lags and other pins, and on either bus.                  *)
(***************************************************************************)
EXTENDS BlindSystem, TLAPS

(***************************************************************************)
(* The function block on its own.                                          *)
(***************************************************************************)

\* The difference of two clock readings stays within the horizon.
LEMMA LaterType ==
    ASSUME NEW t \in 0 .. Horizon
    PROVE  Later(t) \in 0 .. Horizon
BY HorizonAssumption DEF Later

\* A motor that is still within its period and the gap gets no closer to the
\* horizon than that, so that its age is the exact time since its start.
LEMMA LaterExact ==
    ASSUME NEW t \in 0 .. Horizon, t < Horizon
    PROVE  Later(t) = t + 1
BY HorizonAssumption DEF Later

\* The strengthened invariant holds when the block has been constructed.
LEMMA InitIInv == Init => IInv
<1> SUFFICES ASSUME Init PROVE IInv
  OBVIOUS
<1>1. state \in {"Idle", "Up", "Down"} /\ LevelsOK
  BY DEF Init, LevelsOK
<1>2. TimesOK
  BY GapAssumption, HorizonAssumption DEF Init, TimesOK
<1>3. OutputsFollowState /\ AgeIsHeld /\ TriggersFollowButtons
  BY DEF Init, OutputsFollowState, AgeIsHeld, TriggersFollowButtons
<1>4. RunBound
  BY PeriodAssumption DEF Init, RunBound
<1> QED BY <1>1, <1>2, <1>3, <1>4 DEF IInv, TypeOK

\* What the outputs are after a change of state.
LEMMA EnterOutputs ==
    ASSUME NEW s, NEW up, NEW down, Enter(s, up, down)
    PROVE  (outUp' <=> s = "Up") /\ (outDown' <=> s = "Down")
BY DEF Enter

\* One call of execute either leaves the state for another one, by way of Idle,
\* or finds that its time is not over.
LEMMA ExecuteOutcome ==
    ASSUME IInv, NEW up \in BOOLEAN, NEW down \in BOOLEAN, Execute(up, down)
    PROVE  \/ /\ Stay(up, down)
              /\ state = "Up" => age <= PeriodUp
              /\ state = "Down" => age <= PeriodDown
           \/ \E s \in {"Idle", "Up", "Down"} :
                 s # state /\ (s = "Idle" \/ state = "Idle") /\ Enter(s, up, down)
<1> USE PeriodAssumption DEF IInv, TypeOK, TimesOK
<1>1. CASE TransitionIdle(up, down)
  BY <1>1 DEF TransitionIdle
<1>2. CASE TransitionMoving("Up", PeriodUp, up, down)
  BY <1>2 DEF TransitionMoving
<1>3. CASE TransitionMoving("Down", PeriodDown, up, down)
  BY <1>3 DEF TransitionMoving
<1> QED BY <1>1, <1>2, <1>3 DEF Execute

\* One call of execute preserves the strengthened invariant.
LEMMA ExecuteIInv ==
    ASSUME IInv, NEW up \in BOOLEAN, NEW down \in BOOLEAN, Execute(up, down)
    PROVE  IInv'
<1>1. /\ sinceCall' = 0
      /\ held' = IF <<outUp', outDown'>> = <<outUp, outDown>> THEN held ELSE 0
      /\ prevUp' = up
      /\ prevDown' = down
  BY DEF Execute
<1>2. /\ state \in {"Idle", "Up", "Down"} /\ LevelsOK /\ TimesOK
      /\ OutputsFollowState /\ AgeIsHeld
  BY DEF IInv, TypeOK
<1>3. CASE /\ Stay(up, down)
           /\ state = "Up" => age <= PeriodUp
           /\ state = "Down" => age <= PeriodDown
  <2>1. state' \in {"Idle", "Up", "Down"} /\ LevelsOK'
    BY <1>1, <1>2, <1>3 DEF Stay, LevelsOK
  <2>2. held' = held /\ age' = age
    BY <1>1, <1>3 DEF Stay
  <2>3. TimesOK' /\ AgeIsHeld'
    BY <1>1, <1>2, <2>2, GapAssumption DEF TimesOK, AgeIsHeld
  <2>4. OutputsFollowState' /\ TriggersFollowButtons'
    BY <1>1, <1>2, <1>3 DEF Stay, OutputsFollowState, TriggersFollowButtons
  <2>5. RunBound'
    BY <1>1, <1>2, <1>3, PeriodAssumption DEF Stay, RunBound, TimesOK
  <2> QED BY <2>1, <2>3, <2>4, <2>5 DEF IInv, TypeOK
<1>4. CASE \E s \in {"Idle", "Up", "Down"} :
             s # state /\ (s = "Idle" \/ state = "Idle") /\ Enter(s, up, down)
  <2>1. PICK s \in {"Idle", "Up", "Down"} :
               s # state /\ (s = "Idle" \/ state = "Idle") /\ Enter(s, up, down)
    BY <1>4
  <2>2. state' \in {"Idle", "Up", "Down"} /\ LevelsOK'
    BY <1>1, <2>1 DEF Enter, LevelsOK
  <2>3. OutputsFollowState' /\ TriggersFollowButtons'
    BY <1>1, <2>1 DEF Enter, OutputsFollowState, TriggersFollowButtons
  <2>4. <<outUp', outDown'>> # <<outUp, outDown>>
    BY <1>2, <2>1, <2>3 DEF Enter, OutputsFollowState
  <2>5. held' = 0 /\ age' = 0
    BY <1>1, <2>1, <2>4 DEF Enter
  <2>6. TimesOK' /\ AgeIsHeld' /\ RunBound'
    BY <1>1, <2>5, PeriodAssumption, GapAssumption, HorizonAssumption
    DEF TimesOK, AgeIsHeld, RunBound
  <2> QED BY <2>2, <2>3, <2>6 DEF IInv, TypeOK
<1> QED BY <1>3, <1>4, ExecuteOutcome

\* The passing of time preserves it: RunBound is why sinceCall must not pass
\* MaxGap.
LEMMA TickIInv ==
    ASSUME IInv, Tick
    PROVE  IInv'
<1> USE PeriodAssumption, GapAssumption, HorizonAssumption DEF IInv, Tick
<1>1. TypeOK'
  <2>1. TimesOK'
    BY LaterType DEF TypeOK, TimesOK
  <2> QED BY <2>1 DEF TypeOK, LevelsOK
<1>2. OutputsFollowState' /\ AgeIsHeld' /\ TriggersFollowButtons'
  BY DEF OutputsFollowState, AgeIsHeld, TriggersFollowButtons
<1>3. RunBound'
  <2>1. age \in 0 .. Horizon /\ sinceCall \in 0 .. MaxGap
    BY DEF TypeOK, TimesOK
  <2>2. CASE age < Horizon
    BY <2>1, <2>2, LaterExact DEF RunBound
  <2>3. CASE age = Horizon
    BY <2>1, <2>3 DEF RunBound
  <2> QED BY <2>1, <2>2, <2>3
<1> QED BY <1>1, <1>2, <1>3

LEMMA NextIInv == IInv /\ [Next]_vars => IInv'
<1> SUFFICES ASSUME IInv, [Next]_vars
             PROVE  IInv'
  OBVIOUS
<1>1. CASE \E up, down \in BOOLEAN : Execute(up, down)
  BY <1>1, ExecuteIInv
<1>2. CASE Tick
  BY <1>2, TickIInv
<1>3. CASE UNCHANGED vars
  BY <1>3 DEF vars, IInv, TypeOK, LevelsOK, TimesOK, OutputsFollowState, AgeIsHeld,
              TriggersFollowButtons, RunBound
<1> QED BY <1>1, <1>2, <1>3 DEF Next

\* The strengthened invariant holds in every state of every behaviour.
THEOREM Invariance == Spec => []IInv
<1>1. Init => IInv
  BY InitIInv
<1>2. IInv /\ [Next]_vars => IInv'
  BY NextIInv
<1> QED BY <1>1, <1>2, PTL DEF Spec

\* The motor never runs for longer than its period and one gap between calls,
\* for every configuration and every way of pressing the buttons.
THEOREM MotorRunBounded == Spec => []MotorRunBound
<1>1. IInv => MotorRunBound
  BY PeriodAssumption, GapAssumption
  DEF IInv, TypeOK, TimesOK, OutputsFollowState, AgeIsHeld, RunBound, MotorRunBound
<1> QED BY <1>1, Invariance, PTL

\* A motor that starts has rested for the idle period.
THEOREM MotorRests == Spec => RestBeforeStart
<1> DEFINE A == ~Moving /\ Moving' => held >= PeriodIdle
<1>1. IInv /\ [Next]_vars => [A]_vars
  <2> SUFFICES ASSUME IInv, Next, ~Moving, Moving'
               PROVE  held >= PeriodIdle
    BY DEF vars
  <2>1. state = "Idle"
    BY DEF IInv, TypeOK, OutputsFollowState, Moving
  <2>2. PICK up \in BOOLEAN, down \in BOOLEAN : Execute(up, down)
    BY DEF Next, Tick, Moving
  <2>3. TransitionIdle(up, down)
    BY <2>1, <2>2 DEF Execute, TransitionMoving
  <2>4. ~Stay(up, down)
    BY DEF Stay, Moving
  <2> QED BY <2>3, <2>4 DEF TransitionIdle, IInv, AgeIsHeld
<1> QED BY <1>1, Invariance, PTL DEF Spec, RestBeforeStart

\* A motor only starts on a press that is new in that call.
THEOREM FreshPressStarts == Spec => StartNeedsFreshPress
<1> DEFINE A == /\ outUp' /\ ~outUp => ~prevUp /\ prevUp' /\ ~outDown
                /\ outDown' /\ ~outDown => ~prevDown /\ prevDown' /\ ~outUp
<1>1. IInv /\ [Next]_vars => [A]_vars
  <2> SUFFICES ASSUME IInv, Next PROVE A
    BY DEF vars
  <2>1. CASE Tick
    BY <2>1 DEF Tick
  <2>2. CASE \E up, down \in BOOLEAN : Execute(up, down)
    <3>1. PICK up \in BOOLEAN, down \in BOOLEAN : Execute(up, down)
      BY <2>2
    <3>2. (prevUp' <=> up) /\ (prevDown' <=> down)
      BY <3>1 DEF Execute
    <3>3. (upLast <=> prevUp) /\ (downLast <=> prevDown)
      BY DEF IInv, TriggersFollowButtons
    <3>4. state = "Idle" => ~outUp /\ ~outDown
      BY DEF IInv, OutputsFollowState
    <3>5. CASE Stay(up, down)
      BY <3>5 DEF Stay
    <3>6. CASE Enter("Idle", up, down)
      BY <3>6, EnterOutputs
    <3>7. CASE state = "Idle" /\ Rising(upLast, up) /\ Enter("Up", up, down)
      BY <3>2, <3>3, <3>4, <3>7, EnterOutputs DEF Rising
    <3>8. CASE state = "Idle" /\ Rising(downLast, down) /\ Enter("Down", up, down)
      BY <3>2, <3>3, <3>4, <3>8, EnterOutputs DEF Rising
    <3> QED BY <3>1, <3>5, <3>6, <3>7, <3>8
            DEF Execute, TransitionIdle, TransitionMoving
  <2> QED BY <2>1, <2>2 DEF Next
<1> QED BY <1>1, Invariance, PTL DEF Spec, StartNeedsFreshPress

\* A fresh press always stops a moving motor.
THEOREM FreshPressStops == Spec => PressStops
<1>1. IInv /\ [Next]_vars => [ /\ Moving
                              /\ \/ ~prevUp /\ prevUp'
                                 \/ ~prevDown /\ prevDown'
                              => ~Moving' ]_vars
  <2> SUFFICES ASSUME IInv, Next, Moving,
                      (~prevUp /\ prevUp') \/ (~prevDown /\ prevDown')
               PROVE  ~Moving'
    OBVIOUS
  <2>1. PICK up \in BOOLEAN, down \in BOOLEAN : Execute(up, down)
    BY DEF Next, Tick
  <2>2. state # "Idle"
    BY DEF IInv, TypeOK, OutputsFollowState, Moving
  <2>3. Rising(upLast, up) \/ Rising(downLast, down)
    BY <2>1 DEF Execute, Rising, IInv, TypeOK, TriggersFollowButtons
  <2>4. Enter("Idle", up, down)
    BY <2>1, <2>2, <2>3 DEF Execute, TransitionIdle, TransitionMoving
  <2> QED BY <2>4, EnterOutputs DEF Moving
<1> QED BY <1>1, Invariance, PTL DEF Spec, PressStops

(***************************************************************************)
(* The block, the bus and the relays.                                      *)
(***************************************************************************)

\* The relays are in one of three positions, and so is what the block asks for.
Position == {{}, {"up"}, {"down"}}

LEMMA RelaysPosition ==
    ASSUME NEW pins, ~(Motor \subseteq pins)
    PROVE  pins \cap Motor \in Position
<1>1. CASE "up" \notin pins /\ "down" \notin pins
  BY <1>1 DEF Motor, Position
<1>2. CASE "up" \in pins /\ "down" \notin pins
  <2>1. pins \cap Motor = {"up"}
    BY <1>2 DEF Motor
  <2> QED BY <2>1 DEF Position
<1>3. CASE "up" \notin pins /\ "down" \in pins
  <2>1. pins \cap Motor = {"down"}
    BY <1>3 DEF Motor
  <2> QED BY <2>1 DEF Position
<1> QED BY <1>1, <1>2, <1>3 DEF Motor

\* The block asks for one relay at most.
LEMMA AskedPosition ==
    ASSUME IInv
    PROVE  /\ Asked = IF state = "Up" THEN {"up"} ELSE IF state = "Down" THEN {"down"} ELSE {}
           /\ Asked \in Position
           /\ Asked \in SUBSET Motor
<1>1. CASE state = "Up"
  BY <1>1 DEF IInv, OutputsFollowState, Asked, Motor, Position
<1>2. CASE state = "Down"
  BY <1>2 DEF IInv, OutputsFollowState, Asked, Motor, Position
<1>3. CASE state = "Idle"
  BY <1>3 DEF IInv, OutputsFollowState, Asked, Motor, Position
<1> QED BY <1>1, <1>2, <1>3 DEF IInv, TypeOK

\* What one call does to what is asked for: nothing, or a start after the idle
\* period, or a stop.
LEMMA ExecuteAsked ==
    ASSUME IInv, NEW up \in BOOLEAN, NEW down \in BOOLEAN, Execute(up, down)
    PROVE  \/ Asked' = Asked /\ held' = held
           \/ Asked = {} /\ Asked' # {} /\ held' = 0 /\ held >= PeriodIdle
           \/ Asked # {} /\ Asked' = {} /\ held' = 0
<1>1. IInv'
  BY ExecuteIInv
<1>2. held' = IF <<outUp', outDown'>> = <<outUp, outDown>> THEN held ELSE 0
  BY DEF Execute
<1>3. CASE Stay(up, down)
  BY <1>2, <1>3 DEF Stay, Asked
<1>4. CASE \E s \in {"Idle", "Up", "Down"} :
              s # state /\ (s = "Idle" \/ state = "Idle") /\ Enter(s, up, down)
  <2>1. state' # state /\ (state' = "Idle" \/ state = "Idle")
    BY <1>4 DEF Enter
  <2>2. <<outUp', outDown'>> # <<outUp, outDown>>
    BY <1>1, <2>1 DEF IInv, TypeOK, OutputsFollowState
  <2>3. held' = 0
    BY <1>2, <2>2
  <2>4. CASE state = "Idle"
    <3>1. TransitionIdle(up, down) /\ ~Stay(up, down)
      BY <2>1, <2>4 DEF Execute, TransitionMoving, Stay
    <3>2. held >= PeriodIdle
      BY <3>1 DEF TransitionIdle, IInv, AgeIsHeld
    <3>3. Asked = {}
      BY <2>4, AskedPosition
    <3>4. Asked' # {}
      BY <1>1, <2>1, <2>4 DEF IInv, TypeOK, OutputsFollowState, Asked
    <3> QED BY <2>3, <3>2, <3>3, <3>4
  <2>5. CASE state' = "Idle"
    <3>1. Asked # {}
      BY <2>1, <2>5 DEF IInv, TypeOK, OutputsFollowState, Asked
    <3>2. Asked' = {}
      BY <1>1, <2>5 DEF IInv, OutputsFollowState, Asked
    <3> QED BY <2>3, <3>1, <3>2
  <2> QED BY <2>1, <2>4, <2>5
<1> QED BY <1>3, <1>4, ExecuteOutcome

\* While the block asks for a relay, its period bounds how long it has done so.
LEMMA AskedBound ==
    ASSUME IInv
    PROVE  /\ held \in Nat
           /\ Asked = {"up"} => held <= PeriodUp + MaxGap
           /\ Asked = {"down"} => held <= PeriodDown + MaxGap
<1>1. Asked = {"up"} => state = "Up"
  BY AskedPosition DEF IInv, TypeOK
<1>2. Asked = {"down"} => state = "Down"
  BY AskedPosition DEF IInv, TypeOK
<1> QED BY <1>1, <1>2, PeriodAssumption, GapAssumption, HorizonAssumption
        DEF IInv, TypeOK, TimesOK, AgeIsHeld, RunBound

-----------------------------------------------------------------------------

LEMMA InitSystemIInv == SystemInit => SystemIInv
<1> SUFFICES ASSUME SystemInit PROVE SystemIInv
  OBVIOUS
<1>1. IInv
  BY InitIInv DEF SystemInit
<1>2. 0 \in 0 .. Horizon /\ 0 \in 0 .. MaxLag + 1
  BY HorizonAssumption, LagAssumption
<1>3. SystemTypeOK
  BY <1>1, <1>2 DEF SystemInit, SystemTypeOK, IInv, Port!Init
<1>4. NeverBoth /\ OutputsAreAsked /\ BeliefTrue
  BY DEF SystemInit, NeverBoth, Interlock, OutputsAreAsked, BeliefTrue, Port!Init, Motor
<1>5. FaultlessMeans /\ RestLags /\ RunLags("up", PeriodUp) /\ RunLags("down", PeriodDown)
  BY DEF SystemInit, FaultlessMeans, RestLags, RunLags
<1> QED BY <1>1, <1>3, <1>4, <1>5 DEF SystemIInv

\* A new block asks for nothing, and a driver is only trusted if nothing is on.
LEMMA StartSystemIInv ==
    ASSUME SystemIInv, SystemStart
    PROVE  SystemIInv'
<1>1. /\ state' = "Idle" /\ age' = 0 /\ held' = 0 /\ sinceCall' = 0
      /\ upLast' = FALSE /\ downLast' = FALSE /\ outUp' = FALSE /\ outDown' = FALSE
      /\ prevUp' = FALSE /\ prevDown' = FALSE
  BY DEF SystemStart, Construct, Enter
<1>2. /\ running' = TRUE /\ believed' = {} /\ outputs' = {} /\ driven' = driven
      /\ trusted' = (driven = {}) /\ faultless' = trusted' /\ lag' = 0
      /\ UNCHANGED <<bus, energised>>
  BY DEF SystemStart, Port!Start
<1>3. IInv'
  <2>1. TimesOK'
    BY <1>1, GapAssumption, HorizonAssumption DEF TimesOK
  <2>2. LevelsOK' /\ state' \in {"Idle", "Up", "Down"}
    BY <1>1 DEF LevelsOK
  <2>3. OutputsFollowState' /\ AgeIsHeld' /\ TriggersFollowButtons' /\ RunBound'
    BY <1>1 DEF OutputsFollowState, AgeIsHeld, TriggersFollowButtons, RunBound
  <2> QED BY <2>1, <2>2, <2>3 DEF IInv, TypeOK
<1>4. SystemTypeOK'
  BY <1>2, <1>3, LagAssumption DEF SystemIInv, SystemTypeOK, IInv
<1>5. Asked' = {}
  BY <1>1 DEF Asked
<1>6. NeverBoth' /\ OutputsAreAsked' /\ BeliefTrue' /\ FaultlessMeans'
  <2>1. NeverBoth'
    BY <1>2 DEF SystemIInv, NeverBoth, Interlock, Motor
  <2>2. OutputsAreAsked'
    BY <1>2, <1>5 DEF OutputsAreAsked
  <2>3. (trusted' => driven = {}) /\ (faultless' => trusted')
    BY <1>2
  <2>4. BeliefTrue'
    BY <1>2, <2>3 DEF BeliefTrue
  <2>5. lag' <= MaxLag
    BY <1>2, LagAssumption
  <2>6. FaultlessMeans'
    BY <1>2, <2>3, <2>5 DEF FaultlessMeans
  <2> QED BY <2>1, <2>2, <2>4, <2>6
<1>7. faultless' => Relays' = {}
  BY <1>2 DEF Relays
<1>8. RestLags'
  BY <1>1, <1>2, <1>5, LagAssumption DEF SystemIInv, SystemTypeOK, RestLags
<1>9. RunLags("up", PeriodUp)' /\ RunLags("down", PeriodDown)'
  BY <1>7 DEF RunLags
<1> QED BY <1>3, <1>4, <1>6, <1>8, <1>9 DEF SystemIInv

\* What a transfer may do, as far as the invariant tells the cases apart: the module
\* and the belief are what they were or what was sent, both or one of them; they only
\* stay behind with the belief trusted when a request is lost.
LEMMA SendEffect ==
    ASSUME NEW pins, Send(pins), bus \in {"i2c", "modbus"}
    PROVE  /\ UNCHANGED running
           /\ driven' = driven \/ driven' = pins
           /\ believed' = believed \/ believed' = pins
           /\ trusted' \in {trusted, TRUE, FALSE}
           /\ \/ ~trusted'
              \/ trusted' = TRUE /\ driven' = pins /\ believed' = pins
              \/ /\ UNCHANGED <<driven, believed, trusted>>
BY DEF Send, portVars, Port!Transfer, Port!Done, Port!Ignored, Port!RequestLost,
   Port!AnswerLost

\* A cycle, with the block's call and the transfer put apart.
LEMMA CycleEffect ==
    ASSUME SystemIInv, NEW up \in BOOLEAN, NEW down \in BOOLEAN, Cycle(up, down)
    PROVE  /\ running /\ running' /\ UNCHANGED bus
           /\ IInv'
           /\ outputs' \in SUBSET Pin
           /\ outputs' \cap Motor = Asked'
           /\ Send(outputs')
<1>1. /\ running /\ Execute(up, down) /\ UNCHANGED bus /\ Send(outputs')
      /\ \E others \in SUBSET OtherPin : outputs' = Asked' \cup others
  BY DEF Cycle
<1>2. IInv'
  BY <1>1, ExecuteIInv DEF SystemIInv
<1>3. Asked' \in SUBSET Motor
  BY <1>2 DEF Asked, Motor
<1>4. PICK others \in SUBSET OtherPin : outputs' = Asked' \cup others
  BY <1>1
<1>5. outputs' \in SUBSET Pin /\ outputs' \cap Motor = Asked'
  BY <1>3, <1>4, OtherPinAssumption DEF Pin
<1>6. running'
  BY <1>1 DEF Send, portVars, Port!Transfer, Port!Done, Port!Ignored, Port!RequestLost,
     Port!AnswerLost, SystemIInv, SystemTypeOK
<1> QED BY <1>1, <1>2, <1>5, <1>6

\* The part of the invariant that is about the bus alone.
LEMMA CycleBus ==
    ASSUME SystemIInv, NEW up \in BOOLEAN, NEW down \in BOOLEAN, Cycle(up, down)
    PROVE  /\ SystemTypeOK' /\ NeverBoth' /\ OutputsAreAsked' /\ BeliefTrue'
           /\ FaultlessMeans'
<1> DEFINE pins == outputs'
<1>1. /\ running /\ running' /\ UNCHANGED bus /\ IInv'
      /\ pins \in SUBSET Pin /\ pins \cap Motor = Asked' /\ Send(pins)
  BY CycleEffect
<1>2. /\ driven' \in {driven, pins} /\ believed' \in {believed, pins}
      /\ trusted' \in BOOLEAN
      /\ trusted' => driven' = believed'
  BY <1>1, SendEffect DEF SystemIInv, SystemTypeOK, BeliefTrue
<1>3. energised' \in {0, energised} /\ lag' \in {0, lag}
  BY DEF Cycle, Observe
<1>4. /\ faultless' \in BOOLEAN
      /\ faultless' => trusted' /\ (faultless \/ Relays' # Relays)
  BY DEF Cycle, Observe, SystemIInv, SystemTypeOK
<1>5. ~(Motor \subseteq pins)
  <2>1. ~(outUp' /\ outDown')
    BY <1>1 DEF IInv, OutputsFollowState
  <2>2. ~(Motor \subseteq Asked')
    BY <2>1 DEF Asked, Motor
  <2> QED BY <1>1, <2>2
<1>6. running' \in BOOLEAN
  BY <1>1, SendEffect DEF SystemIInv, SystemTypeOK
<1>7. SystemTypeOK'
  BY <1>1, <1>2, <1>3, <1>4, <1>6, HorizonAssumption, LagAssumption
  DEF SystemIInv, SystemTypeOK, IInv
<1>8. NeverBoth'
  BY <1>2, <1>5 DEF SystemIInv, NeverBoth, Interlock
<1>9. OutputsAreAsked' /\ BeliefTrue'
  BY <1>1, <1>2 DEF OutputsAreAsked, BeliefTrue
<1>10. FaultlessMeans'
  <2>1. SUFFICES ASSUME faultless' PROVE lag' <= MaxLag
    BY <1>1, <1>4 DEF FaultlessMeans
  <2>2. CASE believed' = outputs'
    BY <2>2, LagAssumption DEF Cycle, Observe
  <2>3. CASE believed' # outputs'
    <3>1. UNCHANGED driven
      BY <1>1, <1>4, <2>1, <2>3, SendEffect DEF SystemIInv, SystemTypeOK
    <3>2. faultless /\ lag' = lag
      BY <1>4, <2>1, <2>3, <3>1 DEF Relays, Cycle, Observe
    <3> QED BY <3>2 DEF SystemIInv, FaultlessMeans
  <2> QED BY <2>2, <2>3
<1> QED BY <1>7, <1>8, <1>9, <1>10

\* The part that is about time: what a faultless bus makes of a step of the block.
LEMMA CycleLags ==
    ASSUME SystemIInv, NEW up \in BOOLEAN, NEW down \in BOOLEAN, Cycle(up, down),
           NEW pin \in Motor, NEW period \in Nat, RunLags(pin, period),
           Asked = {pin} => held <= period + MaxGap
    PROVE  RestLags' /\ RunLags(pin, period)'
<1> SUFFICES ASSUME faultless' PROVE RestLags' /\ RunLags(pin, period)'
  BY DEF RestLags, RunLags
<1>1. /\ running /\ Send(outputs') /\ outputs' \cap Motor = Asked'
  BY CycleEffect
<1>2. /\ energised' = IF Relays' # Relays THEN 0 ELSE energised
      /\ lag' = IF believed' = outputs' THEN 0 ELSE lag
      /\ trusted' /\ (faultless \/ (Relays' # Relays /\ held' = 0))
  BY DEF Cycle, Observe
<1>3. \/ Asked' = Asked /\ held' = held
      \/ Asked = {} /\ Asked' # {} /\ held' = 0 /\ held >= PeriodIdle
      \/ Asked # {} /\ Asked' = {} /\ held' = 0
  BY ExecuteAsked DEF Cycle, SystemIInv
<1>4. /\ held \in Nat /\ energised \in Nat /\ lag \in Nat
      /\ faultless => lag <= MaxLag
  BY AskedBound DEF SystemIInv, SystemTypeOK, FaultlessMeans
<1>5. Relays \in Position /\ Asked \in Position /\ {pin} # {}
  BY RelaysPosition, AskedPosition DEF Relays, SystemIInv, NeverBoth, Interlock
<1>6. CASE Relays' = Asked'
  <2>1. ASSUME faultless, Relays = {}, Asked = {} PROVE energised + MaxLag >= held
    BY <2>1 DEF SystemIInv, RestLags
  <2>2. ASSUME faultless, Relays # {}, Asked = {} PROVE held <= MaxLag
    BY <1>4, <1>5, <2>2, LagAssumption DEF SystemIInv, RunLags, Position
  <2>3. Asked' = {} => energised' + MaxLag >= held'
    BY <1>2, <1>3, <1>4, <1>6, <2>1, <2>2, LagAssumption
  <2>4. Asked' = {pin} => energised' <= held'
    BY <1>2, <1>3, <1>4, <1>5, <1>6, LagAssumption, PeriodAssumption DEF RunLags
  <2> QED BY <1>6, <2>3, <2>4 DEF RestLags, RunLags
<1>7. CASE Relays' # Asked'
  <2>1. /\ UNCHANGED driven /\ Relays' = Relays /\ believed' # outputs'
    BY <1>1, <1>2, <1>7, SendEffect DEF Relays, SystemIInv, SystemTypeOK, BeliefTrue
  <2>2. faultless /\ lag' = lag /\ energised' = energised
    BY <1>2, <2>1
  <2>3. RestLags'
    <3>1. SUFFICES ASSUME Relays = {}
                   PROVE  energised + MaxLag >= IF Asked' = {} THEN held' ELSE PeriodIdle
      BY <2>1, <2>2 DEF RestLags
    <3>2. energised + MaxLag >= IF Asked = {} THEN held ELSE PeriodIdle
      BY <2>2, <3>1 DEF SystemIInv, RestLags
    <3> QED BY <1>3, <1>4, <3>2, LagAssumption, PeriodAssumption
  <2>4. RunLags(pin, period)'
    <3>1. SUFFICES ASSUME Relays = {pin}
                   PROVE  \/ Asked' = {pin} /\ energised <= held'
                          \/ /\ Asked' = {}
                             /\ held' <= lag
                             /\ energised <= period + MaxGap + held'
      BY <2>1, <2>2 DEF RunLags
    <3>2. CASE Asked = {pin} /\ energised <= held
      BY <1>3, <1>4, <1>5, <3>2, GapAssumption
    <3>3. CASE Asked = {} /\ held <= lag /\ energised <= period + MaxGap + held
      BY <1>3, <1>4, <2>2, <3>3, LagAssumption, PeriodAssumption
    <3> QED BY <2>2, <3>1, <3>2, <3>3 DEF RunLags
  <2> QED BY <2>3, <2>4
<1> QED BY <1>6, <1>7

\* Time passes for what is asked for as for the relays.
LEMMA TickLags ==
    ASSUME SystemIInv, SystemTick, NEW pin \in Motor, NEW period \in Nat,
           RunLags(pin, period)
    PROVE  RestLags' /\ RunLags(pin, period)'
<1> SUFFICES ASSUME faultless' PROVE RestLags' /\ RunLags(pin, period)'
  BY DEF RestLags, RunLags
<1>1. /\ faultless /\ lag' <= MaxLag
      /\ lag' = IF believed = outputs \/ lag > MaxLag THEN lag ELSE lag + 1
      /\ energised' = Later(energised)
      /\ UNCHANGED <<driven, believed, outputs>>
  BY DEF SystemTick, portVars
<1>2. running /\ lag <= MaxLag /\ driven = believed
  BY <1>1 DEF SystemIInv, FaultlessMeans, BeliefTrue
<1>3. held' = Later(held) /\ UNCHANGED <<outUp, outDown>>
  BY <1>2 DEF SystemTick, Tick
<1>4. Relays' = Relays /\ Asked' = Asked
  BY <1>1, <1>3 DEF Relays, Asked
<1>5. /\ held \in 0 .. Horizon /\ energised \in 0 .. Horizon /\ lag \in Nat
      /\ held' \in 0 .. Horizon /\ energised' \in 0 .. Horizon
  BY <1>1, <1>3, LaterType DEF SystemIInv, SystemTypeOK, TypeOK, TimesOK
<1>6. /\ energised' >= energised /\ energised' <= energised + 1
      /\ held' >= held /\ held' <= held + 1
      /\ held < Horizon => held' = held + 1
      /\ energised <= held => energised' <= held'
      /\ energised + MaxLag >= held => energised' + MaxLag >= held'
  BY <1>1, <1>3, <1>5, HorizonAssumption, LagAssumption DEF Later
<1>7. RestLags'
  BY <1>1, <1>4, <1>5, <1>6, LagAssumption, PeriodAssumption DEF SystemIInv, RestLags
<1>8. RunLags(pin, period)'
  <2>1. SUFFICES ASSUME Relays = {pin}
                 PROVE  \/ Asked = {pin} /\ energised' <= held'
                        \/ /\ Asked = {}
                           /\ held' <= lag'
                           /\ energised' <= period + MaxGap + held'
    BY <1>4 DEF RunLags
  <2>2. CASE Asked = {pin} /\ energised <= held
    BY <1>6, <2>2
  <2>3. CASE Asked = {} /\ held <= lag /\ energised <= period + MaxGap + held
    <3>1. outputs # believed
      BY <1>2, <2>1, <2>3 DEF SystemIInv, OutputsAreAsked, Relays
    <3>2. lag' = lag + 1 /\ held' = held + 1
      BY <1>1, <1>2, <1>5, <1>6, <2>3, <3>1, LagAssumption, HorizonAssumption,
         PeriodAssumption
    <3> QED BY <1>5, <1>6, <2>3, <3>2, GapAssumption
  <2> QED BY <1>1, <2>1, <2>2, <2>3 DEF RunLags
<1> QED BY <1>7, <1>8

LEMMA TickSystemIInv ==
    ASSUME SystemIInv, SystemTick
    PROVE  SystemIInv'
<1>1. IInv'
  BY NextIInv DEF SystemTick, SystemIInv, Next
<1>2. UNCHANGED <<bus, running, believed, driven, trusted, outputs>>
  BY DEF SystemTick, portVars
<1>3. UNCHANGED <<outUp, outDown>>
  BY DEF SystemTick, Tick, vars
<1>4. SystemTypeOK'
  <2>1. energised' \in 0 .. Horizon
    BY LaterType DEF SystemTick, SystemIInv, SystemTypeOK
  <2>2. lag' \in 0 .. MaxLag + 1
    BY LagAssumption DEF SystemTick, SystemIInv, SystemTypeOK
  <2>3. faultless' \in BOOLEAN
    BY DEF SystemTick, SystemIInv, SystemTypeOK
  <2> QED BY <1>1, <1>2, <2>1, <2>2, <2>3 DEF SystemIInv, SystemTypeOK, IInv
<1>5. NeverBoth' /\ BeliefTrue'
  BY <1>2 DEF SystemIInv, NeverBoth, Interlock, BeliefTrue
<1>6. OutputsAreAsked'
  BY <1>2, <1>3 DEF SystemIInv, OutputsAreAsked, Asked
<1>7. FaultlessMeans'
  BY <1>2 DEF SystemTick, SystemIInv, FaultlessMeans
<1>8. RestLags' /\ RunLags("up", PeriodUp)'
  BY TickLags, PeriodAssumption DEF SystemIInv, Motor
<1>9. RunLags("down", PeriodDown)'
  BY TickLags, PeriodAssumption DEF SystemIInv, Motor
<1> QED BY <1>1, <1>4, <1>5, <1>6, <1>7, <1>8, <1>9 DEF SystemIInv

LEMMA NextSystemIInv == SystemIInv /\ [SystemNext]_systemVars => SystemIInv'
<1> SUFFICES ASSUME SystemIInv, [SystemNext]_systemVars
             PROVE  SystemIInv'
  OBVIOUS
<1>1. CASE SystemStart
  BY <1>1, StartSystemIInv
<1>2. CASE \E up, down \in BOOLEAN : Cycle(up, down)
  <2>1. PICK up \in BOOLEAN, down \in BOOLEAN : Cycle(up, down)
    BY <1>2
  <2>2. IInv'
    BY <2>1, CycleEffect
  <2>3. RestLags' /\ RunLags("up", PeriodUp)'
    BY <2>1, CycleLags, AskedBound, PeriodAssumption DEF SystemIInv, Motor
  <2>4. RunLags("down", PeriodDown)'
    BY <2>1, CycleLags, AskedBound, PeriodAssumption DEF SystemIInv, Motor
  <2> QED BY <2>1, <2>2, <2>3, <2>4, CycleBus DEF SystemIInv
<1>3. CASE SystemTick
  BY <1>3, TickSystemIInv
<1>4. CASE SystemStop
  <2>1. /\ UNCHANGED <<vars, bus, believed, driven, trusted, outputs, energised, lag>>
        /\ running' = FALSE /\ faultless' = FALSE
    BY <1>4 DEF SystemStop, Port!Stop
  <2>2. IInv'
    BY <2>1, NextIInv DEF SystemIInv
  <2>3. SystemTypeOK'
    BY <2>1, <2>2 DEF SystemIInv, SystemTypeOK, IInv
  <2> QED BY <2>1, <2>2, <2>3 DEF SystemIInv, NeverBoth, Interlock, OutputsAreAsked,
             BeliefTrue, FaultlessMeans, RestLags, RunLags
<1>5. CASE UNCHANGED systemVars
  <2>1. UNCHANGED <<vars, bus, running, believed, driven, trusted, outputs, energised,
                    lag, faultless>>
    BY <1>5 DEF systemVars, portVars
  <2>2. IInv'
    BY <2>1, NextIInv DEF SystemIInv
  <2>3. SystemTypeOK'
    BY <2>1, <2>2 DEF SystemIInv, SystemTypeOK, IInv
  <2>4. Asked' = Asked /\ Relays' = Relays /\ held' = held
    BY <2>1 DEF Asked, Relays, vars
  <2> QED BY <2>1, <2>2, <2>3, <2>4 DEF SystemIInv, NeverBoth, Interlock, OutputsAreAsked,
             BeliefTrue, FaultlessMeans, RestLags, RunLags
<1> QED BY <1>1, <1>2, <1>3, <1>4, <1>5 DEF SystemNext

-----------------------------------------------------------------------------

\* The strengthened invariant, of the block, the driver and the relays together.
THEOREM SystemInvariance == SystemSpec => []SystemIInv
BY InitSystemIInv, NextSystemIInv, PTL DEF SystemSpec

\* The two windings of the motor are never connected at once.
THEOREM InterlockHolds == SystemSpec => []Interlock
<1>1. SystemIInv => Interlock
  BY DEF SystemIInv, NeverBoth
<1> QED BY <1>1, SystemInvariance, PTL

\* On a bus without worse faults than short losses the motor stops in time.
THEOREM RelayRunBounded == SystemSpec => []RelayRunBound
<1>1. ASSUME SystemIInv PROVE RelayRunBound
  <2>1. ASSUME faultless PROVE held \in Nat /\ lag <= MaxLag /\ lag \in Nat /\ energised \in Nat
    BY <1>1, <2>1, AskedBound DEF SystemIInv, SystemTypeOK, FaultlessMeans
  <2>2. ~("up" \in driven /\ "down" \in driven)
    BY <1>1 DEF SystemIInv, NeverBoth, Interlock, Motor
  <2>3. ASSUME faultless, "up" \in driven PROVE energised <= PeriodUp + MaxGap + MaxLag
    <3>1. Relays = {"up"}
      BY <2>2, <2>3 DEF Relays, Motor
    <3> QED BY <1>1, <2>1, <2>3, <3>1, AskedBound, PeriodAssumption, GapAssumption,
               LagAssumption DEF SystemIInv, RunLags
  <2>4. ASSUME faultless, "down" \in driven PROVE energised <= PeriodDown + MaxGap + MaxLag
    <3>1. Relays = {"down"}
      BY <2>2, <2>4 DEF Relays, Motor
    <3> QED BY <1>1, <2>1, <2>4, <3>1, AskedBound, PeriodAssumption, GapAssumption,
               LagAssumption DEF SystemIInv, RunLags
  <2> QED BY <2>3, <2>4 DEF RelayRunBound
<1> QED BY <1>1, SystemInvariance, PTL

\* And on such a bus it has rested whenever it starts, and is never reversed.
THEOREM RelayRested == SystemSpec => RelayRest
<1> DEFINE A == faultless /\ Relays' # {} /\ Relays' # Relays
                    => Relays = {} /\ energised + MaxLag >= PeriodIdle
<1>1. SystemIInv /\ [SystemNext]_systemVars => [A]_systemVars
  <2> SUFFICES ASSUME SystemIInv, SystemNext, faultless, Relays' # {}, Relays' # Relays
               PROVE  Relays = {} /\ energised + MaxLag >= PeriodIdle
    OBVIOUS
  <2>1. PICK up \in BOOLEAN, down \in BOOLEAN : Cycle(up, down)
    BY DEF SystemNext, SystemStart, SystemTick, SystemStop, Port!Start, Port!Stop, Relays,
       portVars
  <2>2. Relays' = Asked'
    BY <2>1, CycleEffect, SendEffect DEF Relays, SystemIInv, SystemTypeOK
  <2>3. \/ Asked' = Asked /\ held' = held
        \/ Asked = {} /\ Asked' # {} /\ held' = 0 /\ held >= PeriodIdle
        \/ Asked # {} /\ Asked' = {} /\ held' = 0
    BY <2>1, ExecuteAsked DEF Cycle, SystemIInv
  <2>4. Relays \in Position
    BY RelaysPosition DEF Relays, SystemIInv, NeverBoth, Interlock
  <2>5. held \in Nat /\ lag \in Nat /\ energised \in Nat /\ lag <= MaxLag
    BY AskedBound DEF SystemIInv, SystemTypeOK, FaultlessMeans
  <2>6. Relays = {}
    <3>1. SUFFICES ASSUME NEW pin \in Motor, NEW period \in Nat, Relays = {pin},
                          RunLags(pin, period)
                   PROVE  FALSE
      BY <2>4, PeriodAssumption DEF Position, Motor, SystemIInv
    <3>2. Asked = {} /\ held <= lag
      BY <2>2, <2>3, <3>1 DEF RunLags
    <3> QED BY <2>2, <2>3, <2>5, <3>2, LagAssumption, PeriodAssumption
  <2>7. energised + MaxLag >= IF Asked = {} THEN held ELSE PeriodIdle
    BY <2>6 DEF SystemIInv, RestLags
  <2> QED BY <2>2, <2>3, <2>5, <2>6, <2>7, LagAssumption, PeriodAssumption
<1> QED BY <1>1, SystemInvariance, PTL DEF SystemSpec, RelayRest
=============================================================================
