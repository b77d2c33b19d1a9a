-------------------------- MODULE BusTaskIO_proofs --------------------------
(***************************************************************************)
(* The safety properties of BusTaskIO, proved for any modules, pins and    *)
(* configurations and any numbers of starts and faults.                    *)
(***************************************************************************)
EXTENDS BusTaskIO, TLAPS

USE ModulesAssumption

\* What a valid configuration says of one variable and of one module.
LEMMA ConfigFacts ==
    ASSUME TypeOK
    PROVE  /\ config.bus \in {"i2c", "modbus"}
           /\ \A v \in InVar : config.source[v].module \in InModule
BY ConfigAssumption DEF TypeOK, ConfigOK

\* What a read leaves behind, on either bus.
LEMMA ReadEffect ==
    ASSUME TypeOK, NEW m \in InModule,
           ReadI2C(m) \/ ReadModbus(m)
    PROVE  /\ inputs' \in [InModule -> SUBSET InPin]
           /\ pressed' \in SUBSET (InModule \X InPin)
           /\ pressed \subseteq pressed'
           /\ readFaults' \in 0 .. MaxReadFaults
           /\ readFaults' = 0 => readFaults = 0
<1> USE DEF TypeOK, ModulesOK
<1>1. CASE ReadI2C(m)
  <2>1. PICK now \in SUBSET InPin, image \in SUBSET InPin :
            /\ pressed' = pressed \cup ({m} \X now)
            /\ BusRead(image, now, InPin)
            /\ inputs' = [inputs EXCEPT ![m] = image]
    BY <1>1 DEF ReadI2C
  <2>2. /\ readFaults' \in 0 .. MaxReadFaults
        /\ readFaults' = 0 => readFaults = 0
    BY <2>1, BoundsAssumption DEF BusRead, ReadFails
  <2> QED BY <2>1, <2>2
<1>2. CASE ReadModbus(m)
  BY <1>2, BoundsAssumption DEF ReadModbus, ReadFails
<1> QED BY <1>1, <1>2

\* A read that is not tried is a special case of the next two facts.
LEMMA InitOutputEffect ==
    ASSUME TypeOK, InitOutput
    PROVE  /\ at - NIn \in OutModule
           /\ \E image \in SUBSET OutPin :
                 outputs' = [outputs EXCEPT ![at - NIn] = image]
                 /\ (readFaults' = 0 => image = hw[at - NIn])
           /\ readFaults' \in 0 .. MaxReadFaults
           /\ readFaults' = 0 => readFaults = 0
<1>1. at - NIn \in OutModule
  BY DEF TypeOK, PhasesOK, InitOutput, OutModule
<1>2. PICK image \in SUBSET OutPin :
          /\ BusRead(image, hw[at - NIn], OutPin) \/ ReadFails
          /\ outputs' = [outputs EXCEPT ![at - NIn] = image]
  BY DEF InitOutput, InitPCF8574, InitMAX7311
<1>3. /\ readFaults' \in 0 .. MaxReadFaults
      /\ readFaults' = 0 => readFaults = 0 /\ image = hw[at - NIn]
  BY <1>2, BoundsAssumption DEF BusRead, ReadFails, TypeOK
<1> QED BY <1>1, <1>2, <1>3

\* What a write may do to the module and to what its driver remembers: nothing for
\* want of a difference or because the request is lost, all of it, or half of it.
LEMMA WriteEffect ==
    ASSUME TypeOK, NEW m \in OutModule, Write(m)
    PROVE  /\ writeFaults' \in 0 .. MaxWriteFaults
           /\ \/ /\ outputs[m] = lastOutputs[m] \/ config.bus = "modbus"
                 /\ UNCHANGED <<lastOutputs, hw, doubtful>>
              \/ /\ hw' = [hw EXCEPT ![m] = outputs[m]]
                 /\ lastOutputs' = [lastOutputs EXCEPT ![m] = outputs[m]]
                 /\ doubtful' = [doubtful EXCEPT ![m] = FALSE]
              \/ /\ config.bus = "i2c"
                 /\ lastOutputs' = [lastOutputs EXCEPT ![m] = outputs[m]]
                 /\ doubtful' = [doubtful EXCEPT ![m] = TRUE]
                 /\ UNCHANGED hw
              \/ /\ config.bus = "modbus"
                 /\ hw' = [hw EXCEPT ![m] = outputs[m]]
                 /\ doubtful' = [doubtful EXCEPT ![m] = TRUE]
                 /\ UNCHANGED lastOutputs
<1> USE BoundsAssumption DEF TypeOK, Drive, Believe, Doubt, WriteFails
<1>1. CASE outputs[m] = lastOutputs[m] /\ UNCHANGED <<lastOutputs, devices, writeFaults>>
  BY <1>1 DEF devices
<1>2. CASE config.bus = "i2c" /\ WriteI2C(m)
  BY <1>2 DEF WriteI2C, BusWrite
<1>3. CASE config.bus = "modbus" /\ WriteModbus(m)
  BY <1>3 DEF WriteModbus, Answered, RequestLost, AnswerLost, devices
<1> QED BY <1>1, <1>2, <1>3 DEF Write

-----------------------------------------------------------------------------
(* Types                                                                     *)

LEMMA InitTypeOK == Init => TypeOK
<1> SUFFICES ASSUME Init PROVE TypeOK
  OBVIOUS
<1>1. PhasesOK
  BY DEF Init, PhasesOK
<1>2. ModulesOK
  BY DEF Init, ModulesOK
<1>3. 0 \in 0 .. MaxStarts /\ 0 \in 0 .. MaxReadFaults /\ 0 \in 0 .. MaxWriteFaults
  BY BoundsAssumption
<1> QED BY <1>1, <1>2, <1>3 DEF Init, TypeOK

LEMMA NextTypeOK ==
    ASSUME TypeOK, [Next]_vars
    PROVE  TypeOK'
<1> USE BoundsAssumption DEF TypeOK, PhasesOK, ModulesOK, Goto, gv, images, devices, counts
<1>1. CASE Start
  <2>1. starts' \in 0 .. MaxStarts
    BY <1>1 DEF Start
  <2>2. ModulesOK'
    BY <1>1 DEF Start
  <2>3. PhasesOK'
    BY <1>1 DEF Start
  <2> QED BY <1>1, <2>1, <2>2, <2>3 DEF Start
<1>2. CASE Open
  <2>1. at' = 1 /\ pc' \in {"init", "read"} /\ (pc' = "init" => config.bus = "i2c")
    BY <1>2 DEF Open
  <2> QED BY <1>2, <2>1 DEF Open
<1>3. CASE InitInput
  <2>1. at \in InModule
    BY <1>3 DEF InitInput, InModule
  <2> QED BY <1>3, <2>1, ReadEffect DEF InitInput
<1>4. CASE InitOutput
  <2>1. /\ outputs' \in [OutModule -> SUBSET OutPin]
        /\ readFaults' \in 0 .. MaxReadFaults
    BY <1>4, InitOutputEffect
  <2> QED BY <1>4, <2>1 DEF InitOutput, Loop
<1>5. CASE ReadInputs
  <2>1. at \in InModule
    BY <1>5 DEF ReadInputs, Loop, InModule
  <2> QED BY <1>5, <2>1, ReadEffect DEF ReadInputs, Loop
<1>6. CASE CopyInputs
  BY <1>6 DEF CopyInputs
<1>7. CASE Execute
  BY <1>7 DEF Execute
<1>8. CASE CopyOutputs
  <2>1. outputs' \in [OutModule -> SUBSET OutPin]
    BY <1>8 DEF CopyOutputs, SetOutputs, Wanted, Mapped
  <2> QED BY <1>8, <2>1 DEF CopyOutputs
<1>9. CASE WriteOutputs
  <2>1. at \in OutModule
    BY <1>9 DEF WriteOutputs, Loop, OutModule
  <2>2. writeFaults' \in 0 .. MaxWriteFaults
    BY <1>9, <2>1, WriteEffect DEF WriteOutputs
  <2>3. ModulesOK'
    <3>1. hw' \in [OutModule -> SUBSET OutPin]
      BY <1>9, <2>1, WriteEffect DEF WriteOutputs
    <3>2. lastOutputs' \in [OutModule -> SUBSET OutPin]
      BY <1>9, <2>1, WriteEffect DEF WriteOutputs
    <3>3. doubtful' \in [OutModule -> BOOLEAN]
      BY <1>9, <2>1, WriteEffect DEF WriteOutputs
    <3> QED BY <1>9, <3>1, <3>2, <3>3 DEF WriteOutputs
  <2>4. PhasesOK'
    BY <1>9 DEF WriteOutputs, Loop
  <2> QED BY <1>9, <2>2, <2>3, <2>4 DEF WriteOutputs
<1>10. CASE Throw \/ Stop
  BY <1>10 DEF Throw, Stop, Die
<1>11. CASE UNCHANGED vars
  BY <1>11 DEF vars
<1> QED
  BY <1>1, <1>2, <1>3, <1>4, <1>5, <1>6, <1>7, <1>8, <1>9, <1>10, <1>11 DEF Next, Cycle

-----------------------------------------------------------------------------
(* What the drivers believe of their modules                                 *)

\* Between a start and the writes, nobody touches the output modules.
LEMMA DevicesRest ==
    ASSUME [Next]_vars, ~Start, ~WriteOutputs
    PROVE  UNCHANGED <<lastOutputs, hw, doubtful>> /\ (Running' => Running)
BY DEF Next, Cycle, Open, InitInput, InitOutput, ReadInputs, CopyInputs, Execute,
   CopyOutputs, Throw, Stop, Die, Goto, Loop, Running, vars, images, devices

LEMMA NextLastOutputs ==
    ASSUME TypeOK, LastOutputsTrue, [Next]_vars
    PROVE  LastOutputsTrue'
<1> USE DEF TypeOK, ModulesOK, LastOutputsTrue, Running
<1>1. CASE Start
  BY <1>1 DEF Start
<1>2. CASE WriteOutputs
  <2>1. at \in OutModule /\ pc = "write"
    BY <1>2 DEF WriteOutputs, Loop, PhasesOK, OutModule
  <2> QED BY <1>2, <2>1, WriteEffect DEF WriteOutputs
<1>3. CASE ~Start /\ ~WriteOutputs
  BY <1>3, DevicesRest
<1> QED BY <1>1, <1>2, <1>3

\* Mapped pins are copied for all modules before the first of them is written.
LEMMA CopyOutputsWritten ==
    ASSUME TypeOK, CopyOutputs, NEW m \in OutModule
    PROVE  Written(m)'
<1>1. outputs'[m] = SetOutputs(m) /\ UNCHANGED <<config, gvOutputs>>
  BY DEF CopyOutputs, gv
<1>2. Mapped(m)' = Mapped(m) /\ Wanted(m)' = Wanted(m) /\ Wanted(m) \subseteq Mapped(m)
  BY <1>1 DEF Mapped, Wanted
<1> QED BY <1>1, <1>2 DEF SetOutputs, Written

LEMMA WriteOutputsInTurn ==
    ASSUME TypeOK, WrittenInTurn, WriteOutputs
    PROVE  WrittenInTurn'
<1> SUFFICES ASSUME config.bus = "i2c" PROVE WrittenInTurn'
  BY DEF WriteOutputs, WrittenInTurn
<1>1. /\ at \in OutModule /\ pc = "write"
      /\ UNCHANGED <<config, gvOutputs, outputs>>
  BY DEF TypeOK, WriteOutputs, Loop, PhasesOK, OutModule, gv
<1>2. \A m \in OutModule : Written(m)' /\ Written(m)
  BY <1>1 DEF WrittenInTurn, Written, Mapped, Wanted
<1>3. \A m \in 1 .. at : lastOutputs'[m] = outputs'[m]
  <2>1. \A m \in 1 .. at - 1 : m # at /\ lastOutputs[m] = outputs[m]
    BY <1>1 DEF WrittenInTurn, OutModule
  <2>2. \/ UNCHANGED lastOutputs /\ outputs[at] = lastOutputs[at]
        \/ lastOutputs' = [lastOutputs EXCEPT ![at] = outputs[at]]
    BY <1>1, WriteEffect DEF WriteOutputs
  <2>3. lastOutputs'[at] = outputs[at]
    BY <1>1, <2>2 DEF TypeOK, ModulesOK
  <2>4. ASSUME NEW m \in 1 .. at - 1 PROVE lastOutputs'[m] = lastOutputs[m]
    <3>1. m \in OutModule /\ m # at
      BY <1>1 DEF OutModule
    <3> QED BY <2>2, <3>1 DEF TypeOK, ModulesOK
  <2>5. \A m \in 1 .. at : m = at \/ m \in 1 .. at - 1
    BY <1>1 DEF OutModule
  <2> QED BY <1>1, <2>1, <2>3, <2>4, <2>5
<1>4. CASE at < NOut
  BY <1>1, <1>2, <1>3, <1>4 DEF WriteOutputs, Loop, WrittenInTurn, OutModule
<1>5. CASE ~(at < NOut)
  <2>1. at = NOut
    BY <1>1, <1>5 DEF OutModule
  <2> QED BY <1>1, <1>2, <1>3, <1>5, <2>1 DEF WriteOutputs, Loop, WrittenInTurn, OutModule
<1> QED BY <1>4, <1>5

LEMMA NextInTurn ==
    ASSUME TypeOK, WrittenInTurn, [Next]_vars
    PROVE  WrittenInTurn'
<1> USE DEF WrittenInTurn, Goto, gv, images, devices, counts
<1>1. CASE CopyOutputs
  <2>1. /\ pc' = "write" /\ at' = 1 /\ UNCHANGED <<config, cycled>>
    BY <1>1 DEF CopyOutputs, TypeOK, PhasesOK
  <2> QED BY <1>1, <2>1, CopyOutputsWritten
<1>2. CASE WriteOutputs
  BY <1>2, WriteOutputsInTurn
<1>3. CASE Start
  BY <1>3 DEF Start
<1>4. CASE Throw \/ Stop
  BY <1>4 DEF Throw, Stop, Die
<1>5. CASE Execute
  BY <1>5 DEF Execute
<1>6. CASE Open \/ InitInput \/ InitOutput
  <2>1. config.bus = "i2c" => ~cycled
    BY <1>6 DEF Open, InitInput, InitOutput, Loop
  <2>2. /\ UNCHANGED <<config, cycled>>
        /\ pc' \in {"init", "read"}
    BY <1>6 DEF Open, InitInput, InitOutput, Loop
  <2> QED BY <2>1, <2>2
<1>7. CASE ReadInputs \/ CopyInputs \/ UNCHANGED vars
  <2>1. UNCHANGED <<config, gvOutputs, outputs, lastOutputs, cycled>>
    BY <1>7 DEF ReadInputs, CopyInputs, vars
  <2>2. \/ pc \in {"read", "copy_inputs"} /\ pc' \in {"read", "copy_inputs", "execute"}
        \/ pc' = pc /\ at' = at
    BY <1>7 DEF ReadInputs, CopyInputs, Loop, vars
  <2> QED BY <2>1, <2>2 DEF Written, Mapped, Wanted
<1> QED BY <1>1, <1>2, <1>3, <1>4, <1>5, <1>6, <1>7 DEF Next, Cycle

-----------------------------------------------------------------------------
(* The pins that the configuration does not name                             *)

\* What a step may do to the images and the modules, for pins that are not mapped.
LEMMA NextUnmapped ==
    ASSUME TypeOK, UnmappedReadBack, [Next]_vars
    PROVE  /\ UnmappedReadBack'
           /\ config.bus = "i2c" /\ readFaults = 0 =>
                  \A m \in OutModule : hw'[m] \ Mapped(m) = hw[m] \ Mapped(m)
<1> USE DEF UnmappedReadBack, Goto, gv, images, devices, counts
<1>1. CASE WriteOutputs
  <2>1. /\ at \in OutModule /\ pc = "write" /\ pc' \in {"write", "read"}
        /\ UNCHANGED <<config, outputs, readFaults>>
    BY <1>1 DEF TypeOK, WriteOutputs, Loop, PhasesOK, OutModule
  <2>2. hw' = hw \/ hw' = [hw EXCEPT ![at] = outputs[at]]
    BY <1>1, <2>1, WriteEffect DEF WriteOutputs
  <2>3. ASSUME config.bus = "i2c", readFaults = 0, NEW m \in OutModule
        PROVE  hw'[m] \ Mapped(m) = hw[m] \ Mapped(m) /\ Unmapped(m)'
    <3>1. Unmapped(m)
      BY <2>1, <2>3
    <3>2. hw'[m] = hw[m] \/ hw'[m] = outputs[m]
      BY <2>1, <2>2 DEF TypeOK, ModulesOK
    <3> QED BY <2>1, <3>1, <3>2 DEF Unmapped, Mapped
  <2> QED BY <2>1, <2>3
<1>2. CASE CopyOutputs
  <2>1. UNCHANGED <<config, hw, readFaults>> /\ pc = "copy_outputs" /\ pc' = "write"
    BY <1>2 DEF CopyOutputs
  <2>2. ASSUME NEW m \in OutModule, Unmapped(m) PROVE Unmapped(m)'
    BY <1>2, <2>1, <2>2 DEF CopyOutputs, SetOutputs, Unmapped, Mapped, Wanted
  <2> QED BY <2>1, <2>2
<1>3. CASE InitOutput
  <2>1. /\ UNCHANGED <<config, hw>> /\ pc = "init"
        /\ \/ at < NIn + NOut /\ pc' = "init" /\ at' = at + 1
           \/ at = NIn + NOut /\ pc' = "read"
    BY <1>3 DEF InitOutput, Loop, TypeOK, PhasesOK
  <2>2. ASSUME config.bus = "i2c", readFaults' = 0, NEW m \in OutModule, NIn + m <= at
        PROVE  Unmapped(m)'
    <3>1. PICK image \in SUBSET OutPin :
              /\ outputs' = [outputs EXCEPT ![at - NIn] = image]
              /\ image = hw[at - NIn] /\ readFaults = 0
      BY <1>3, <2>2, InitOutputEffect
    <3>2. CASE NIn + m = at
      <4>1. outputs'[m] = hw[m]
        BY <3>1, <3>2 DEF TypeOK, ModulesOK, OutModule
      <4> QED BY <2>1, <4>1 DEF Unmapped, Mapped
    <3>3. CASE NIn + m < at
      <4>1. at - NIn # m
        BY <3>3 DEF TypeOK, PhasesOK, OutModule
      <4>2. outputs'[m] = outputs[m] /\ Unmapped(m)
        BY <2>1, <2>2, <3>1, <3>3, <4>1 DEF TypeOK, ModulesOK
      <4> QED BY <2>1, <4>2 DEF Unmapped, Mapped
    <3> QED BY <2>2, <3>2, <3>3 DEF TypeOK, PhasesOK, OutModule
  <2>3. ASSUME NEW m \in OutModule
        PROVE  /\ at = NIn + NOut => NIn + m <= at
               /\ NIn + m < at + 1 => NIn + m <= at
    BY DEF TypeOK, PhasesOK, OutModule
  <2> QED BY <2>1, <2>2, <2>3
<1>4. CASE InitInput \/ ReadInputs
  <2>1. at \in InModule /\ (ReadI2C(at) \/ ReadModbus(at)) /\ UNCHANGED <<config, outputs, hw>>
    BY <1>4 DEF InitInput, ReadInputs, Loop, TypeOK, PhasesOK, InModule
  <2>2. readFaults' = 0 => readFaults = 0
    BY <2>1, ReadEffect
  <2>3. \/ pc = "init" /\ pc' = pc /\ at <= NIn /\ at' = at + 1
        \/ pc = "read" /\ pc' \in {"read", "copy_inputs"}
    BY <1>4 DEF InitInput, ReadInputs, Loop
  <2>4. at <= NIn => \A m \in OutModule : ~(NIn + m < at + 1)
    BY DEF TypeOK, PhasesOK, OutModule
  <2> QED BY <2>1, <2>2, <2>3, <2>4 DEF Unmapped, Mapped
<1>5. CASE Open
  <2>1. /\ pc' = IF config.bus = "i2c" THEN "init" ELSE "read"
        /\ UNCHANGED <<config, outputs, hw, readFaults>> /\ at' = 1
    BY <1>5 DEF Open, TypeOK, PhasesOK
  <2>2. \A m \in OutModule : ~(NIn + m < 1)
    BY DEF OutModule
  <2> QED BY <2>1, <2>2
<1>6. CASE Start \/ Throw \/ Stop
  BY <1>6 DEF Start, Throw, Stop, Die
<1>7. CASE CopyInputs \/ Execute \/ UNCHANGED vars
  <2>1. /\ UNCHANGED <<config, outputs, hw, readFaults>>
        /\ \/ pc \notin {"off", "open", "init"} /\ pc' \in {"execute", "copy_outputs"}
           \/ pc' = pc /\ at' = at
    BY <1>7 DEF CopyInputs, Execute, vars
  <2> QED BY <2>1 DEF Unmapped, Mapped
<1> QED BY <1>1, <1>2, <1>3, <1>4, <1>5, <1>6, <1>7 DEF Next, Cycle

-----------------------------------------------------------------------------
(* The inputs                                                                *)

\* A Modbus read that fails leaves the image as it was.
LEMMA NextInputs ==
    ASSUME TypeOK, InputsGenuine, NoPhantomPressOnModbus, [Next]_vars
    PROVE  InputsGenuine' /\ NoPhantomPressOnModbus'
<1> USE DEF InputsGenuine, NoPhantomPressOnModbus, NoPhantomPress, Goto, gv, images, devices, counts
<1>1. CASE ReadInputs
  <2>1. at \in InModule /\ pc' # "execute" /\ UNCHANGED config
    BY <1>1 DEF ReadInputs, Loop, TypeOK, PhasesOK, InModule
  <2>2. ASSUME config.bus = "modbus", NEW m \in InModule
        PROVE  {m} \X inputs'[m] \subseteq pressed'
    BY <1>1, <2>1, <2>2 DEF ReadInputs, ReadModbus, TypeOK, ModulesOK
  <2> QED BY <2>1, <2>2
<1>2. CASE InitInput \/ InitOutput
  <2>1. config.bus = "i2c" /\ UNCHANGED config
    BY <1>2 DEF InitInput, InitOutput, Loop, TypeOK, PhasesOK
  <2> QED BY <2>1
<1>3. CASE CopyInputs
  BY <1>3, ConfigFacts DEF CopyInputs
<1>4. CASE Start
  BY <1>4 DEF Start
<1>5. CASE WriteOutputs
  BY <1>5 DEF WriteOutputs, Loop
<1>6. CASE Open \/ Execute \/ CopyOutputs \/ Throw \/ Stop
  BY <1>6 DEF Open, Execute, CopyOutputs, Throw, Stop, Die
<1>7. CASE UNCHANGED vars
  BY <1>7 DEF vars
<1> QED BY <1>1, <1>2, <1>3, <1>4, <1>5, <1>6, <1>7 DEF Next, Cycle

-----------------------------------------------------------------------------
(* The invariants of the specification                                       *)

LEMMA InitIInv == Init => BusIInv
<1> SUFFICES ASSUME Init PROVE BusIInv
  OBVIOUS
<1>1. TypeOK
  BY InitTypeOK
<1>2. LastOutputsTrue /\ WrittenInTurn /\ UnmappedReadBack
  BY DEF Init, LastOutputsTrue, Running, WrittenInTurn, UnmappedReadBack
<1>3. InputsGenuine /\ NoPhantomPressOnModbus
  BY DEF Init, InputsGenuine, NoPhantomPressOnModbus, NoPhantomPress
<1> QED BY <1>1, <1>2, <1>3 DEF BusIInv

LEMMA NextIInv == BusIInv /\ [Next]_vars => BusIInv'
BY NextTypeOK, NextLastOutputs, NextInTurn, NextUnmapped, NextInputs DEF BusIInv

\* The types, and what the next theorems rest on.
THEOREM Invariance == Spec => []BusIInv
BY InitIInv, NextIInv, PTL DEF Spec

\* last_outputs of every module is what it drives, except after a failed I2C
\* write, a lost Modbus answer and a start with pins already on.
THEOREM LastOutputsKept == Spec => []LastOutputsTrue
<1>1. BusIInv => LastOutputsTrue
  BY DEF BusIInv
<1> QED BY Invariance, <1>1, PTL

\* And then the mapped pins of an I2C module are what the programs have made of
\* the variables, whatever happens to the other modules.
THEOREM OutputsKept == Spec => []OutputsFollowVariables
<1>1. BusIInv => OutputsFollowVariables
  BY DEF BusIInv, LastOutputsTrue, WrittenInTurn, OutputsFollowVariables, Follows,
     Written, Running
<1> QED BY Invariance, <1>1, PTL

\* As long as no read has failed, an I2C pin that the configuration does not name
\* is never switched, whatever writes fail and however often the program starts.
THEOREM UnmappedKept == Spec => UnmappedUntouched
<1>1. BusIInv /\ [Next]_vars
      => [ config.bus = "i2c" /\ readFaults = 0 =>
              \A m \in OutModule : hw'[m] \ Mapped(m) = hw[m] \ Mapped(m) ]_vars
  BY NextUnmapped DEF BusIInv
<1> QED BY Invariance, <1>1, PTL DEF Spec, UnmappedUntouched

\* A failed Modbus transfer never makes the programs see a button that nobody
\* pressed.
THEOREM InputsKept == Spec => []NoPhantomPressOnModbus
<1>1. BusIInv => NoPhantomPressOnModbus
  BY DEF BusIInv
<1> QED BY Invariance, <1>1, PTL

-----------------------------------------------------------------------------
(* The modules implement OutputPort                                          *)

\* A module is written as a port does a transfer.
LEMMA WriteRefines ==
    ASSUME TypeOK, NEW n \in OutModule, WriteOutputs
    PROVE  [Port(n)!Next]_(Port(n)!vars)
<1>1. /\ at \in OutModule /\ Running /\ Running' /\ Write(at)
      /\ UNCHANGED <<config, outputs>>
  BY DEF TypeOK, WriteOutputs, Loop, PhasesOK, OutModule, Running
<1>2. CASE n # at
  BY <1>1, <1>2, WriteEffect DEF TypeOK, ModulesOK, Port!vars
<1>3. CASE n = at /\ UNCHANGED <<lastOutputs, hw, doubtful>>
  BY <1>1, <1>3 DEF Port!vars
<1>4. CASE n = at /\ outputs[n] # lastOutputs[n]
  <2>1. PICK bus \in {"i2c", "modbus"}, pins \in SUBSET OutPin :
            bus = config.bus /\ pins = outputs[n]
    BY ConfigFacts DEF TypeOK, ModulesOK
  <2>2. Port(n)!Transfer(bus, pins) \/ UNCHANGED <<lastOutputs, hw, doubtful>>
    BY <1>1, <1>4, <2>1, WriteEffect DEF TypeOK, ModulesOK, Port!Transfer, Port!Done,
       Port!Ignored, Port!AnswerLost
  <2>3. CASE Port(n)!Transfer(bus, pins)
    BY <1>1, <1>4, <2>1, <2>3 DEF Port!Next
  <2> QED BY <1>3, <1>4, <2>2, <2>3
<1>5. outputs[at] # lastOutputs[at] \/ UNCHANGED <<lastOutputs, hw, doubtful>>
  BY <1>1 DEF Write, devices
<1> QED BY <1>2, <1>3, <1>4, <1>5

LEMMA NextRefines ==
    ASSUME TypeOK, [Next]_vars, NEW n \in OutModule
    PROVE  [Port(n)!Next]_(Port(n)!vars)
<1>1. CASE Start
  <2>1. ~Running /\ Running' /\ hw' = hw /\ lastOutputs'[n] = {}
    BY <1>1 DEF Start, Goto, Running
  <2>2. (~doubtful'[n]) = (hw[n] = {})
    BY <1>1 DEF Start
  <2>3. Port(n)!Start
    BY <2>1, <2>2 DEF Port!Start
  <2> QED BY <2>3 DEF Port!Next
<1>2. CASE WriteOutputs
  BY <1>2, WriteRefines
<1>3. CASE ~Start /\ ~WriteOutputs
  <2>1. UNCHANGED <<lastOutputs, hw, doubtful>> /\ (Running' => Running)
    BY <1>3, DevicesRest
  <2>2. CASE Running /\ ~Running'
    <3>1. Port(n)!Stop
      BY <2>1, <2>2 DEF Port!Stop
    <3> QED BY <3>1 DEF Port!Next
  <2>3. CASE ~(Running /\ ~Running')
    <3>1. Running' = Running
      BY <2>1, <2>3 DEF Running
    <3> QED BY <2>1, <3>1 DEF Port!vars
  <2> QED BY <2>2, <2>3
<1> QED BY <1>1, <1>2, <1>3

\* Every output module is an OutputPort for its program.
THEOREM Refinement == Spec => ImplementsOutputPorts
<1>1. Init => \A m \in OutModule : Port(m)!Init
  BY DEF Init, Running, Port!Init
<1>2. BusIInv /\ [Next]_vars => [\A m \in OutModule : [Port(m)!Next]_(Port(m)!vars)]_vars
  BY NextRefines DEF BusIInv
<1> QED BY <1>1, <1>2, Invariance, PTL DEF Spec, ImplementsOutputPorts
=============================================================================
