---------------------------- MODULE BlindSystem ----------------------------
(***************************************************************************)
(* A roller blind from the buttons to its motor: Blind, called in the      *)
(* cycles of a task (runtime/scheduler.hpp), whose BusIOLogic              *)
(* (runtime/task_io_bus.hpp) sends what Blind::execute returns to a relay  *)
(* module, an OutputPort, together with the module's other pins.           *)
(*                                                                         *)
(* The time between execute and the transfer of the same cycle is not seen.*)
(* The program may stop or die at any time, and be started again; the      *)
(* relays keep their positions.  Transfers fail as the bus has it, without *)
(* a limit.                                                                *)
(*                                                                         *)
(* energised, lag and faultless are history variables.  They say what an   *)
(* observer of the relays sees, and how he knows that the bus was working. *)
(***************************************************************************)
EXTENDS Blind

CONSTANTS
    OtherPin,   \* the pins of the module that do not drive this motor
    MaxLag      \* how long a request may be overdue for the bounds to hold

Motor == {"up", "down"}
Pin == Motor \cup OtherPin

ASSUME OtherPinAssumption == OtherPin \cap Motor = {}

\* Repeating a lost request must not take longer than the motor has to rest.
ASSUME LagAssumption ==
    /\ MaxLag \in Nat
    /\ MaxLag < PeriodIdle
    /\ Horizon > PeriodUp + MaxGap + MaxLag
    /\ Horizon > PeriodDown + MaxGap + MaxLag

VARIABLES
    bus,        \* what the relay module is on
    running, believed, driven, trusted,     \* of OutputPort
    outputs,    \* of the driver: what the module is to drive
    energised,  \* how long the relays have had their positions
    lag,        \* how long what the driver believes has not been what it wants
    faultless   \* every loss since the relays last changed was of a request, and
                \* was made good within MaxLag

Port == INSTANCE OutputPort

portVars == <<running, believed, driven, trusted>>
systemVars == <<vars, bus, portVars, outputs, energised, lag, faultless>>

SystemTypeOK ==
    /\ TypeOK
    /\ bus \in {"i2c", "modbus"}
    /\ running \in BOOLEAN /\ trusted \in BOOLEAN /\ faultless \in BOOLEAN
    /\ outputs \in SUBSET Pin /\ believed \in SUBSET Pin /\ driven \in SUBSET Pin
    /\ energised \in 0 .. Horizon
    /\ lag \in 0 .. MaxLag + 1

\* The relays are in positions that this program may have left them in.
SystemInit ==
    /\ Init
    /\ bus \in {"i2c", "modbus"}
    /\ Port!Init
    /\ ~(Motor \subseteq driven)
    /\ outputs = {}
    /\ energised = 0 /\ lag = 0
    /\ faultless = FALSE

-----------------------------------------------------------------------------

\* The positions of the motor's relays, and what the function block asks for.
Relays == driven \cap Motor
Asked == (IF outUp THEN {"up"} ELSE {}) \cup (IF outDown THEN {"down"} ELSE {})

\* The program starts: a new function block and a new driver.
Construct ==
    /\ Enter("Idle", FALSE, FALSE)
    /\ sinceCall' = 0 /\ held' = 0
    /\ prevUp' = FALSE /\ prevDown' = FALSE

SystemStart ==
    /\ Port!Start
    /\ Construct
    /\ outputs' = {}
    /\ lag' = 0
    /\ faultless' = trusted'
    /\ UNCHANGED <<bus, energised>>

\* DigitalOutputModule::write.
Send(pins) ==
    \/ pins = believed /\ UNCHANGED portVars
    \/ pins # believed /\ Port!Transfer(bus, pins)

\* What the observer notes at the end of a cycle.
Observe ==
    LET switched == Relays' # Relays
    IN  /\ energised' = IF switched THEN 0 ELSE energised
        /\ lag' = IF believed' = outputs' THEN 0 ELSE lag
        /\ faultless' = (trusted' /\ (faultless \/ (switched /\ held' = 0)))

\* TaskImpl::execute: the programs, among them the one with the blind, then after().
\* Programs set the other pins as they like.
Cycle(up, down) ==
    /\ running
    /\ Execute(up, down)
    /\ \E others \in SUBSET OtherPin : outputs' = Asked' \cup others
    /\ Send(outputs')
    /\ Observe
    /\ UNCHANGED bus

\* Time passes, for the block as long as there is one.
SystemTick ==
    /\ IF running THEN Tick ELSE UNCHANGED vars
    /\ energised' = Later(energised)
    /\ lag' = IF believed = outputs \/ lag > MaxLag THEN lag ELSE lag + 1
    /\ faultless' = (faultless /\ lag' <= MaxLag)
    /\ UNCHANGED <<bus, portVars, outputs>>

\* The program ends or dies; nothing is written any more.
SystemStop ==
    /\ Port!Stop
    /\ faultless' = FALSE
    /\ UNCHANGED <<vars, bus, outputs, energised, lag>>

SystemNext ==
    \/ SystemStart
    \/ \E up, down \in BOOLEAN : Cycle(up, down)
    \/ SystemTick
    \/ SystemStop

SystemSpec == SystemInit /\ [][SystemNext]_systemVars

-----------------------------------------------------------------------------
(* Properties *)

\* Whatever fails, and however often the program dies and is started, the relays
\* never connect both windings of the motor.
Interlock == ~(Motor \subseteq driven)

\* On a bus that only loses requests, and these for MaxLag at most, the motor itself
\* runs no longer than its period, one gap between two calls and that lag.
RelayRunBound ==
    /\ faultless /\ "up" \in driven => energised <= PeriodUp + MaxGap + MaxLag
    /\ faultless /\ "down" \in driven => energised <= PeriodDown + MaxGap + MaxLag

\* And it is only started after a rest, never reversed: what Blind promises with
\* its dead time survives the bus up to the lag.
RelayRest ==
    [][ faultless /\ Relays' # {} /\ Relays' # Relays
            => Relays = {} /\ energised + MaxLag >= PeriodIdle ]_systemVars

-----------------------------------------------------------------------------
(* The inductive invariant from which BlindSystem_proofs derives them. *)

\* Neither the program nor its driver ever wants or believes both relays on.
NeverBoth ==
    /\ ~(Motor \subseteq outputs)
    /\ ~(Motor \subseteq believed)
    /\ Interlock

OutputsAreAsked == running => outputs \cap Motor = Asked

BeliefTrue == running /\ trusted => driven = believed

FaultlessMeans == faultless => running /\ trusted /\ lag <= MaxLag

\* The relays are off: either the block has not asked for anything else for not much
\* longer, or what it asks for has been due since it did.
RestLags ==
    faultless /\ Relays = {} =>
        energised + MaxLag >= IF Asked = {} THEN held ELSE PeriodIdle

\* A relay is on: either the block still asks for it, or it has stopped doing so
\* while the request is overdue, too short ago to ask for anything else.
RunLags(pin, period) ==
    faultless /\ Relays = {pin} =>
        \/ Asked = {pin} /\ energised <= held
        \/ /\ Asked = {}
           /\ held <= lag
           /\ energised <= period + MaxGap + held

SystemIInv ==
    /\ SystemTypeOK
    /\ IInv
    /\ NeverBoth
    /\ OutputsAreAsked
    /\ BeliefTrue
    /\ FaultlessMeans
    /\ RestLags
    /\ RunLags("up", PeriodUp)
    /\ RunLags("down", PeriodDown)
=============================================================================
