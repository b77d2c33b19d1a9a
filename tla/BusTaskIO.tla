----------------------------- MODULE BusTaskIO -----------------------------
(***************************************************************************)
(* A task's inputs and outputs on a bus: BusIOLogic                        *)
(* (runtime/task_io_bus.hpp) over an I2C::RealBus (system/i2c_bus.hpp) with*)
(* PCF8574 and MAX7311 expanders (system/i2c_dev.hpp), or over a           *)
(* Modbus::BusRTU (system/modbus.hpp) with WP8026ADAM and R4S8CRMB modules *)
(* (system/modbus_dev.hpp).  "config" is the bus and the mapping of pins to*)
(* variables that the configuration has chosen.                            *)
(*                                                                         *)
(* The output modules are devices of their own: "hw" outlives the program, *)
(* which may stop or die at any point, also between the writes of two      *)
(* modules, and be started again.  The byte of a module is the set of its  *)
(* pins that are logically on, so that bitflip is not seen except where it *)
(* matters: the zero byte left in the buffer by a failed I2C read means    *)
(* that every pin is on.                                                   *)
(***************************************************************************)
EXTENDS Naturals

CONSTANTS
    NIn, NOut,      \* the numbers of input and of output modules on the bus
    InPin, OutPin,  \* the pins that an input and an output module have
    InVar, OutVar,  \* the variables that the configuration maps to pins
    Config,         \* the configurations to choose from
    MaxStarts,      \* how often the program is started
    MaxReadFaults,  \* reads fail, or the write() that selects what to read
    MaxWriteFaults  \* writes fail

InModule == 1 .. NIn
OutModule == 1 .. NOut

\* "source" has the module and pin an input variable is copied from (of several in
\* the copy sequence, the last), "drives" the variable of each mapped output pin.
\* A pin may be one that the module does not have.
ConfigOK(c) ==
    /\ c.bus \in {"i2c", "modbus"}
    /\ \A v \in InVar : c.source[v].module \in InModule
    /\ \A m \in OutModule : \A p \in DOMAIN c.drives[m] : c.drives[m][p] \in OutVar

ASSUME ModulesAssumption == NIn \in Nat \ {0} /\ NOut \in Nat \ {0}
ASSUME ConfigAssumption == \A c \in Config : ConfigOK(c)
ASSUME BoundsAssumption ==
    MaxStarts \in Nat /\ MaxReadFaults \in Nat /\ MaxWriteFaults \in Nat

VARIABLES
    config,
    pc,             \* the phase of the task, "off" without a program
    at,             \* the position of the loops over the modules
    pressed,        \* history: the inputs that a read has found pressed
    inputs,         \* the input image of each input module's driver
    gvInputs, gvOutputs,    \* the mapped variables that are true
    outputs, lastOutputs,   \* of each output module's driver
    hw,             \* the pins that each output module drives
    doubtful,       \* history: why hw may differ from lastOutputs
    cycled,         \* history: the program has completed a cycle
    starts, readFaults, writeFaults

gv == <<gvInputs, gvOutputs>>
images == <<inputs, outputs, lastOutputs>>
devices == <<hw, doubtful>>
counts == <<starts, readFaults, writeFaults>>
vars == <<config, pc, at, pressed, gv, images, devices, cycled, counts>>

ModulesOK ==
    /\ inputs \in [InModule -> SUBSET InPin]
    /\ outputs \in [OutModule -> SUBSET OutPin]
    /\ lastOutputs \in [OutModule -> SUBSET OutPin]
    /\ hw \in [OutModule -> SUBSET OutPin]
    /\ doubtful \in [OutModule -> BOOLEAN]

PhasesOK ==
    /\ pc \in {"off", "open", "init", "read", "copy_inputs", "execute",
               "copy_outputs", "write"}
    /\ at \in 1 .. NIn + NOut
    /\ pc \notin {"init", "read", "write"} => at = 1
    /\ pc = "init" => config.bus = "i2c"
    /\ pc = "read" => at <= NIn
    /\ pc = "write" => at <= NOut

TypeOK ==
    /\ config \in Config
    /\ PhasesOK
    /\ ModulesOK
    /\ pressed \in SUBSET (InModule \X InPin)
    /\ gvInputs \in SUBSET InVar
    /\ gvOutputs \in SUBSET OutVar
    /\ cycled \in BOOLEAN
    /\ starts \in 0 .. MaxStarts
    /\ readFaults \in 0 .. MaxReadFaults
    /\ writeFaults \in 0 .. MaxWriteFaults

\* Whatever drove the output modules before may have left pins on.
Init ==
    /\ config \in Config
    /\ pc = "off" /\ at = 1
    /\ pressed = {}
    /\ inputs = [m \in InModule |-> {}]
    /\ gvInputs = {} /\ gvOutputs = {}
    /\ outputs = [m \in OutModule |-> {}]
    /\ lastOutputs = [m \in OutModule |-> {}]
    /\ hw \in [OutModule -> SUBSET OutPin]
    /\ doubtful = [m \in OutModule |-> FALSE]
    /\ cycled = FALSE
    /\ starts = 0 /\ readFaults = 0 /\ writeFaults = 0

Goto(from, to) == pc = from /\ pc' = to

\* One turn of a loop over "last" modules; "to" follows the last one.
Loop(from, last, to) ==
    /\ pc = from
    /\ IF at < last THEN at' = at + 1 /\ UNCHANGED pc
                    ELSE at' = 1 /\ pc' = to

ReadFails == readFaults < MaxReadFaults /\ readFaults' = readFaults + 1
WriteFails == writeFaults < MaxWriteFaults /\ writeFaults' = writeFaults + 1

-----------------------------------------------------------------------------
(* The start of the program *)

\* IOFactoryI2C::createIOs or ModbusRTUFactory::createIOs: the modules are
\* constructed, the variables of their pins are false or what init_val says.
Start ==
    /\ Goto("off", "open")
    /\ starts < MaxStarts
    /\ starts' = starts + 1
    /\ inputs' = [m \in InModule |-> {}]
    /\ outputs' = [m \in OutModule |-> {}]
    /\ lastOutputs' = [m \in OutModule |-> {}]
    /\ gvInputs' \in SUBSET InVar
    /\ gvOutputs' \in SUBSET OutVar
    /\ cycled' = FALSE
    /\ doubtful' = [m \in OutModule |-> hw[m] # {}]
    /\ UNCHANGED <<config, at, pressed, hw, readFaults, writeFaults>>

\* RealBus::open, after which Bus::init goes through the modules, or BusRTU::init,
\* which does not.
Open ==
    /\ Goto("open", IF config.bus = "i2c" THEN "init" ELSE "read")
    /\ UNCHANGED <<config, at, pressed, gv, images, devices, cycled, counts>>

\* RealBus::read of the byte of a device that says "pins" and has "all" of them:
\* a failure is logged, and the caller's buffer keeps its zero.
BusRead(image, pins, all) ==
    \/ image = pins /\ UNCHANGED readFaults
    \/ image = all /\ ReadFails

\* PCF8574Input::read, which is also its init: any buttons may be pressed now.
ReadI2C(m) ==
    \E now \in SUBSET InPin :
        /\ pressed' = pressed \cup ({m} \X now)
        /\ \E image \in SUBSET InPin : BusRead(image, now, InPin)
               /\ inputs' = [inputs EXCEPT ![m] = image]

\* Mutation of ReadModbus: the buffer of a failed transfer is taken as it is.
ReadModbusUnchecked(m) ==
    \/ \E now \in SUBSET InPin :
          /\ pressed' = pressed \cup ({m} \X now)
          /\ inputs' = [inputs EXCEPT ![m] = now]
          /\ UNCHANGED readFaults
    \/ ReadFails /\ inputs' = [inputs EXCEPT ![m] = InPin] /\ UNCHANGED pressed

\* WP8026ADAM::read: a failed transfer leaves the inputs as they were.
ReadModbus(m) ==
    \/ \E now \in SUBSET InPin :
          /\ pressed' = pressed \cup ({m} \X now)
          /\ inputs' = [inputs EXCEPT ![m] = now]
          /\ UNCHANGED readFaults
    \/ ReadFails /\ UNCHANGED <<inputs, pressed>>

\* Bus::init: first the inputs ..
InitInput ==
    /\ pc = "init" /\ at <= NIn
    /\ at' = at + 1
    /\ ReadI2C(at)
    /\ UNCHANGED <<config, pc, gv, outputs, lastOutputs, devices, cycled, starts, writeFaults>>

\* PCF8574Output::init: what the device drives is read back into outputs, not into
\* last_outputs.
InitPCF8574(m, image) == BusRead(image, hw[m], OutPin)

\* MAX7311Output::init also selects the register to read, with a write; if that
\* fails some other register is read.  (Its write of the configuration register,
\* which makes the port an output, is not modelled.)
InitMAX7311(m, image) == BusRead(image, hw[m], OutPin) \/ ReadFails

\* .. then the outputs, each a PCF8574 or a MAX7311.
InitOutput ==
    /\ at > NIn
    /\ Loop("init", NIn + NOut, "read")
    /\ \E image \in SUBSET OutPin :
          /\ InitPCF8574(at - NIn, image) \/ InitMAX7311(at - NIn, image)
          /\ outputs' = [outputs EXCEPT ![at - NIn] = image]
    /\ UNCHANGED <<config, pressed, gv, inputs, lastOutputs, devices, cycled, starts, writeFaults>>

-----------------------------------------------------------------------------
(* The cycle *)

\* The Modbus drivers throw when a pin is not one of theirs; the I2C drivers read
\* it as false and drop what is written to it (bithelpers.hpp on a byte).
InputsAccepted == config.bus = "modbus" => \A v \in InVar : config.source[v].pin \in InPin
OutputsAccepted ==
    config.bus = "modbus" => \A m \in OutModule : DOMAIN config.drives[m] \subseteq OutPin

\* BusIOLogic::before: Bus::readInputs or BusRTU::readInputs ..
ReadInputs ==
    /\ Loop("read", NIn, "copy_inputs")
    /\ \/ config.bus = "i2c" /\ ReadI2C(at)
       \/ config.bus = "modbus" /\ ReadModbus(at)
    /\ UNCHANGED <<config, gv, outputs, lastOutputs, devices, cycled, starts, writeFaults>>

\* .. and then the copy sequence.
CopyInputs ==
    /\ Goto("copy_inputs", "execute")
    /\ InputsAccepted
    /\ gvInputs' = {v \in InVar : config.source[v].pin \in inputs[config.source[v].module]}
    /\ UNCHANGED <<config, at, pressed, gvOutputs, images, devices, cycled, counts>>

\* The programs set the output variables as they like.
Execute ==
    /\ Goto("execute", "copy_outputs")
    /\ gvOutputs' \in SUBSET OutVar
    /\ UNCHANGED <<config, at, pressed, gvInputs, images, devices, cycled, counts>>

Mapped(m) == DOMAIN config.drives[m] \cap OutPin

\* The mapped pins of a module that the variables switch on.
Wanted(m) == {p \in Mapped(m) : config.drives[m][p] \in gvOutputs}

\* Mutation of SetOutputs: the pins that are not configured are switched off.
SetOutputsOfAllPins(m) == Wanted(m)

\* Mutation of SetOutputs: setOutput only ever sets bits.
SetOutputsOnly(m) == outputs[m] \cup Wanted(m)

\* What setOutput for every mapped pin makes of a module's outputs.
SetOutputs(m) == (outputs[m] \ Mapped(m)) \cup Wanted(m)

\* BusIOLogic::after: the copy sequence ..
CopyOutputs ==
    /\ Goto("copy_outputs", "write")
    /\ OutputsAccepted
    /\ outputs' = [m \in OutModule |-> SetOutputs(m)]
    /\ UNCHANGED <<config, at, pressed, gv, inputs, lastOutputs, devices, cycled, counts>>

Drive(m, pins) == hw' = [hw EXCEPT ![m] = pins]
Believe(m, pins) == lastOutputs' = [lastOutputs EXCEPT ![m] = pins]
Doubt(m, really) == doubtful' = [doubtful EXCEPT ![m] = really]

\* RealBus::write: a failure is logged, nothing else.
BusWrite(m) ==
    \/ Drive(m, outputs[m]) /\ Doubt(m, FALSE) /\ UNCHANGED writeFaults
    \/ WriteFails /\ Doubt(m, TRUE) /\ UNCHANGED hw

\* Mutation of WriteI2C: last_outputs is not assigned.
WriteI2CForgetting(m) == BusWrite(m) /\ UNCHANGED lastOutputs

\* PCF8574Output::write and MAX7311Output::write: last_outputs is assigned whether
\* the transfer has failed or not.
WriteI2C(m) == BusWrite(m) /\ Believe(m, outputs[m])

\* What modbus_write_bits may do.
Answered(m) ==
    Drive(m, outputs[m]) /\ Doubt(m, FALSE) /\ UNCHANGED writeFaults
RequestLost(m) ==
    WriteFails /\ UNCHANGED devices
AnswerLost(m) ==
    WriteFails /\ Drive(m, outputs[m]) /\ Doubt(m, TRUE)

\* Mutation of WriteModbus: last_outputs is assigned before the result is looked at.
WriteModbusUnchecked(m) ==
    Believe(m, outputs[m]) /\ (Answered(m) \/ RequestLost(m) \/ AnswerLost(m))

\* R4S8CRMB::write: last_outputs only follows when the request was answered, so
\* that the next cycle tries again.
WriteModbus(m) ==
    \/ Answered(m) /\ Believe(m, outputs[m])
    \/ (RequestLost(m) \/ AnswerLost(m)) /\ UNCHANGED lastOutputs

\* Nothing is sent if the outputs are the last ones.
Write(m) ==
    \/ /\ outputs[m] = lastOutputs[m]
       /\ UNCHANGED <<lastOutputs, devices, writeFaults>>
    \/ /\ outputs[m] # lastOutputs[m]
       /\ \/ config.bus = "i2c" /\ WriteI2C(m)
          \/ config.bus = "modbus" /\ WriteModbus(m)

\* .. and Bus::writeOutputs or BusRTU::writeOutputs, one module after the other.
WriteOutputs ==
    /\ Loop("write", NOut, "read")
    /\ Write(at)
    /\ cycled' = (cycled \/ at = NOut)
    /\ UNCHANGED <<config, pressed, gv, inputs, outputs, starts, readFaults>>

Die ==
    /\ pc' = "off" /\ at' = 1
    /\ UNCHANGED <<config, pressed, gv, images, devices, cycled, counts>>

\* getInput and setOutput throw, which ends the process.
Throw ==
    /\ \/ pc = "copy_inputs" /\ ~InputsAccepted
       \/ pc = "copy_outputs" /\ ~OutputsAccepted
    /\ Die

\* The task ends (shutdown closes the bus and writes nothing), or the process dies:
\* open, setAddress and modbus_connect throw.  The modules keep driving their pins.
Stop == pc # "off" /\ Die

Cycle ==
    \/ Open \/ InitInput \/ InitOutput
    \/ ReadInputs \/ CopyInputs \/ Execute \/ CopyOutputs \/ WriteOutputs
    \/ Throw

Next == Start \/ Cycle \/ Stop

Spec == Init /\ [][Next]_vars

\* The task's loop goes round; nobody must start or stop the program.
FairSpec == Spec /\ WF_vars(Cycle)

-----------------------------------------------------------------------------
(* Properties *)

Running == pc # "off"

\* While a program runs, last_outputs of a module is what it drives, except after a
\* failed I2C write, a lost Modbus answer and a start with pins already on, and
\* then until the next write that succeeds.  A lost request raises no doubt.
LastOutputsTrue ==
    \A m \in OutModule : Running /\ ~doubtful[m] => hw[m] = lastOutputs[m]

\* A module has been written since the variables were copied to its outputs.
Written(m) == outputs[m] \cap Mapped(m) = Wanted(m)

\* Between the cycles all modules of an I2C bus are written, while they are being
\* written those before the current one are.
WrittenInTurn ==
    config.bus = "i2c" =>
        /\ cycled => pc \notin {"open", "init"}
        /\ pc \in {"read", "copy_inputs", "execute"} /\ cycled =>
               \A m \in OutModule : lastOutputs[m] = outputs[m] /\ Written(m)
        /\ pc = "write" =>
               /\ \A m \in OutModule : Written(m)
               /\ \A m \in 1 .. at - 1 : lastOutputs[m] = outputs[m]

\* What was read back from a module when the program started is still there.
Unmapped(m) == outputs[m] \ Mapped(m) = hw[m] \ Mapped(m)
UnmappedReadBack ==
    config.bus = "i2c" /\ readFaults = 0 =>
        /\ pc \notin {"off", "open", "init"} => \A m \in OutModule : Unmapped(m)
        /\ pc = "init" => \A m \in OutModule : NIn + m < at => Unmapped(m)

\* On Modbus, the input images hold what was read some time.
InputsGenuine ==
    config.bus = "modbus" => \A m \in InModule : {m} \X inputs[m] \subseteq pressed

Follows(m) == hw[m] \cap Mapped(m) = Wanted(m)

\* Without such a doubt the mapped pins of an I2C module follow the variables from
\* the end of one cycle to the next, whatever happens to the other modules.
OutputsFollowVariables ==
    (config.bus = "i2c" /\ pc \in {"read", "copy_inputs", "execute"} /\ cycled) =>
        \A m \in OutModule : ~doubtful[m] => Follows(m)

\* As long as no read has failed, an I2C pin that the configuration does not name is
\* never switched, whatever it was when the program started and whatever writes
\* fail: the image read back at the start is written out for ever after.
UnmappedUntouched ==
    [][ config.bus = "i2c" /\ readFaults = 0 =>
            \A m \in OutModule : hw'[m] \ Mapped(m) = hw[m] \ Mapped(m) ]_vars

\* The programs see no button pressed that nobody has pressed.
NoPhantomPress ==
    pc = "execute" =>
        \A v \in gvInputs : <<config.source[v].module, config.source[v].pin>> \in pressed

\* .. which holds on Modbus, where a failed read leaves the inputs as they were.
NoPhantomPressOnModbus == config.bus = "modbus" => NoPhantomPress

\* Everything together is preserved by every step.
BusIInv ==
    /\ TypeOK
    /\ LastOutputsTrue
    /\ WrittenInTurn
    /\ UnmappedReadBack
    /\ InputsGenuine
    /\ NoPhantomPressOnModbus

\* Requests that got lost are sent again, and no module waits for another: when the
\* programs leave the output variables alone, the pins of every module follow them
\* in the end.  (Not so when there is doubt: see LastOutputsTrue.)
OutputsSettle ==
    \A m \in OutModule :
        (/\ <>[](Running /\ ~doubtful[m])
         /\ <>[][UNCHANGED gvOutputs]_gvOutputs)
            => <>[]Follows(m)

\* What each module promises its program.
Port(m) == INSTANCE OutputPort WITH
    Pin <- OutPin,
    running <- Running,
    believed <- lastOutputs[m],
    driven <- hw[m],
    trusted <- ~doubtful[m]

\* Every module keeps that promise: \A m \in OutModule : Port(m)!Spec, in a form
\* that TLC evaluates.
ImplementsOutputPorts ==
    /\ \A m \in OutModule : Port(m)!Init
    /\ [][\A m \in OutModule : [Port(m)!Next]_(Port(m)!vars)]_vars
=============================================================================
