--------------------------- MODULE Configuration ---------------------------
(***************************************************************************)
(* RuntimeFactory (factory/): from a configuration file to global          *)
(* variables, IO systems with their copy sequences, tasks and programs.    *)
(*                                                                         *)
(* The file is walked from top to bottom: the tasks, each with its IO      *)
(* systems and their components and then its programs, and after all of    *)
(* them the initial values.  A step reads one node.  "fault" says what     *)
(* reading a node raises: nothing, an exception of yaml-cpp (something is  *)
(* missing or cannot be converted), which main reports, or another one (a  *)
(* required field is missing, an address or a parity is none), which ends  *)
(* the process.                                                            *)
(***************************************************************************)
EXTENDS Naturals, SequencesExt

CONSTANT Config     \* the configurations to choose from

Fault == {"none", "yaml", "invalid"}
Segment == {"inputs", "outputs"}

\* Components by IO system and direction; those of MQTT are its two maps of topics.
Component ==
    {<<"i2c", "inputs", "pcf8574">>, <<"i2c", "outputs", "pcf8574">>,
     <<"i2c", "outputs", "max7311">>,
     <<"modbus-rtu", "inputs", "WP8026ADAM">>, <<"modbus-rtu", "outputs", "R4S8CRMB">>,
     <<"mqtt", "inputs", "topics">>, <<"mqtt", "outputs", "topics">>}
SystemType == {c[1] : c \in Component}
ProgramType == {"C++", "Lua"}

\* What such a file is made of.  Nodes that are none of this are faults.
IsList(list) == list \in Seq(ToSet(list))
IsComponent(c) == c.direction \in Segment /\ c.fault \in Fault /\ IsList(c.pins)
IsSystem(s) ==
    s.fault \in Fault /\ IsList(s.components) /\ \A c \in ToSet(s.components) : IsComponent(c)
IsTask(t) ==
    /\ t.fault \in Fault
    /\ IsList(t.io) /\ \A s \in ToSet(t.io) : IsSystem(s)
    /\ IsList(t.programs) /\ \A p \in ToSet(t.programs) : p.fault \in Fault
IsTree(c) ==
    /\ IsList(c.tasks) /\ \A t \in ToSet(c.tasks) : IsTask(t)
    /\ IsList(c.values)
    /\ \A e \in ToSet(c.values) :
          e.fault \in Fault /\ e.segment \in Segment /\ e.value \in BOOLEAN

VARIABLES
    config,
    pcFactory,      \* what is read next
    task, system, item,     \* the iterators: item goes over components, programs, values
    gv,             \* the segments of the global variables
    sequences,      \* the copy sequences of the IO system under construction
    logics,         \* of every task, the IO systems of its TaskIOLogicComposite
    programs        \* of every task installed

cursor == <<task, system, item>>
built == <<gv, sequences, logics, programs>>
factoryVars == <<config, pcFactory, cursor, built>>

Empty == [segment \in Segment |-> <<>>]

Init ==
    /\ config \in Config
    /\ pcFactory = "task"
    /\ task = 1 /\ system = 1 /\ item = 1
    /\ gv = Empty       \* <<>> is also the function without arguments
    /\ sequences = Empty
    /\ logics = <<>> /\ programs = <<>>

ThisTask == config.tasks[task]
ThisSystem == ThisTask.io[system]

\* Reading a node that has a fault.
Raise(fault) ==
    /\ fault # "none"
    /\ pcFactory' = IF fault = "yaml" THEN "rejected" ELSE "terminated"
    /\ UNCHANGED <<config, cursor, built>>

Goto(to) == pcFactory' = to /\ UNCHANGED config

-----------------------------------------------------------------------------
(* SchedulerFactory::initializeScheduler and IOFactory::createIOs *)

\* The next task, with an empty composite.
BeginTask ==
    /\ pcFactory = "task" /\ task <= Len(config.tasks)
    /\ Goto("system")
    /\ logics' = Append(logics, <<>>)
    /\ system' = 1
    /\ UNCHANGED <<task, item, gv, sequences, programs>>

\* The next IO system, by its type.
BeginSystem ==
    /\ pcFactory = "system" /\ system <= Len(ThisTask.io)
    /\ \/ Raise(ThisSystem.fault)
       \/ /\ ThisSystem.fault = "none"
          /\ \/ ThisSystem.type \notin SystemType /\ Raise("invalid")
             \/ /\ ThisSystem.type \in SystemType
                /\ Goto("component")
                /\ item' = 1 /\ sequences' = Empty
                /\ UNCHANGED <<task, system, gv, logics, programs>>

\* createMissingGVBool: the variable is false, whether it was missing or not.
CreateVariables(segment, pins) ==
    LET known == gv[segment]
        named == {p.var : p \in ToSet(pins)}
    IN  gv' = [gv EXCEPT ![segment] =
                  [v \in DOMAIN known \cup named |-> v \notin named /\ known[v]]]

\* emplace: an input topic and an output variable keep what they had first.
Key(segment, pin) == IF segment = "inputs" THEN pin.at ELSE pin.var

\* Mutation of Emplace: a later entry replaces an earlier one.
EmplaceOrAssign(segment, mapping, pin) ==
    Append(SelectSeq(mapping, LAMBDA p : Key(segment, p) # Key(segment, pin)), pin)

Emplace(segment, mapping, pin) ==
    IF \E p \in ToSet(mapping) : Key(segment, p) = Key(segment, pin)
    THEN mapping
    ELSE Append(mapping, pin)

\* One topic after the other.
EmplaceAll(segment, known, pins) ==
    LET mapping[i \in 0 .. Len(pins)] ==
            IF i = 0 THEN known ELSE Emplace(segment, mapping[i - 1], pins[i])
    IN  mapping[Len(pins)]

\* The pins of the i-th component of a bus.
PinsOf(component, i) ==
    [j \in 1 .. Len(component.pins) |->
        [at |-> component.pins[j].at, var |-> component.pins[j].var, module |-> i]]

\* insertCopySequenceBool of a bus keeps every pin of every component.
InsertCopySequence(component) ==
    LET segment == component.direction
        known == sequences[segment]
    IN  sequences' = [sequences EXCEPT ![segment] =
            IF ThisSystem.type = "mqtt"
            THEN EmplaceAll(segment, known, component.pins)
            ELSE known \o PinsOf(component, item)]

\* The next component of an I2C or Modbus system, or the next map of an MQTT system.
AddComponent ==
    /\ pcFactory = "component" /\ item <= Len(ThisSystem.components)
    /\ LET component == ThisSystem.components[item]
           known == <<ThisSystem.type, component.direction, component.type>> \in Component
       IN  \/ Raise(component.fault)
           \/ component.fault = "none" /\ ~known /\ Raise("invalid")
           \/ /\ component.fault = "none" /\ known
              /\ Goto("component")
              /\ CreateVariables(component.direction, component.pins)
              /\ InsertCopySequence(component)
              /\ item' = item + 1
              /\ UNCHANGED <<task, system, logics, programs>>

\* ioLogic->add(..)
AddSystem ==
    /\ pcFactory = "component" /\ item > Len(ThisSystem.components)
    /\ Goto("system")
    /\ logics' = [logics EXCEPT ![task] =
                    Append(@, [type |-> ThisSystem.type, sequences |-> sequences])]
    /\ system' = system + 1
    /\ UNCHANGED <<task, item, gv, sequences, programs>>

\* Scheduler::installTask; name and interval are converted.
InstallTask ==
    /\ pcFactory = "system" /\ system > Len(ThisTask.io)
    /\ \/ Raise(ThisTask.fault)
       \/ /\ ThisTask.fault = "none"
          /\ Goto("program")
          /\ programs' = Append(programs, <<>>)
          /\ item' = 1
          /\ UNCHANGED <<task, system, gv, sequences, logics>>

\* ProgramFactory::installPrograms; a program that is unknown, or a script that does
\* not load, is a fault.
AddProgram ==
    /\ pcFactory = "program" /\ item <= Len(ThisTask.programs)
    /\ LET program == ThisTask.programs[item]
       IN  \/ Raise(program.fault)
           \/ /\ program.fault = "none"
              /\ \/ program.type \notin ProgramType /\ Raise("invalid")
                 \/ /\ program.type \in ProgramType
                    /\ Goto("program")
                    /\ programs' = [programs EXCEPT ![task] = Append(@, program.type)]
                    /\ item' = item + 1
                    /\ UNCHANGED <<task, system, gv, sequences, logics>>

EndTask ==
    /\ pcFactory = "program" /\ item > Len(ThisTask.programs)
    /\ Goto("task")
    /\ task' = task + 1
    /\ UNCHANGED <<system, item, built>>

EndTasks ==
    /\ pcFactory = "task" /\ task > Len(config.tasks)
    /\ Goto("value")
    /\ item' = 1
    /\ UNCHANGED <<task, system, built>>

-----------------------------------------------------------------------------
(* GVFactory::initializeGVs, first the inputs and then the outputs *)

\* Mutation of SetValue: a variable that does not exist is created.
SetValueOrCreate ==
    /\ pcFactory = "value" /\ item <= Len(config.values)
    /\ LET entry == config.values[item]
       IN  \/ Raise(entry.fault)
           \/ /\ entry.fault = "none"
              /\ Goto("value")
              /\ gv' = [gv EXCEPT ![entry.segment] = (entry.var :> entry.value) @@ @]
              /\ item' = item + 1
              /\ UNCHANGED <<task, system, sequences, logics, programs>>

\* The variable must exist, which at this time is always a bool.
SetValue ==
    /\ pcFactory = "value" /\ item <= Len(config.values)
    /\ LET entry == config.values[item]
           exists == entry.var \in DOMAIN gv[entry.segment]
       IN  \/ ~exists /\ Raise("invalid")
           \/ exists /\ Raise(entry.fault)
           \/ /\ exists /\ entry.fault = "none"
              /\ Goto("value")
              /\ gv' = [gv EXCEPT ![entry.segment][entry.var] = entry.value]
              /\ item' = item + 1
              /\ UNCHANGED <<task, system, sequences, logics, programs>>

EndValues ==
    /\ pcFactory = "value" /\ item > Len(config.values)
    /\ Goto("configured")
    /\ UNCHANGED <<cursor, built>>

Next ==
    \/ BeginTask \/ BeginSystem \/ AddComponent \/ AddSystem
    \/ InstallTask \/ AddProgram \/ EndTask \/ EndTasks
    \/ SetValue \/ EndValues

-----------------------------------------------------------------------------
(* What a configuration means, as a whole *)

AllSystems == UNION {ToSet(t.io) : t \in ToSet(config.tasks)}
AllPrograms == UNION {ToSet(t.programs) : t \in ToSet(config.tasks)}
ComponentsOf(s) == ToSet(s.components)
AllComponents == UNION {ComponentsOf(s) : s \in AllSystems}

\* The variables that pins and topics name.
VariablesOf(components, segment) ==
    {p.var : p \in UNION {ToSet(c.pins) : c \in {d \in components : d.direction = segment}}}
Named(segment) == VariablesOf(AllComponents, segment)

\* The last initial value that is given to a variable, or false.
InitialValue(segment, v) ==
    LET given == {i \in DOMAIN config.values :
                    config.values[i].segment = segment /\ config.values[i].var = v}
    IN  given # {} /\ config.values[CHOOSE i \in given : \A j \in given : j <= i].value

TypesKnown ==
    /\ \A s \in AllSystems :
          /\ s.type \in SystemType
          /\ \A c \in ComponentsOf(s) : <<s.type, c.direction, c.type>> \in Component
    /\ \A p \in AllPrograms : p.type \in ProgramType

ValuesHaveVariables == \A e \in ToSet(config.values) : e.var \in Named(e.segment)

Faults ==
    {n.fault : n \in ToSet(config.tasks) \cup AllSystems \cup AllComponents \cup
                     AllPrograms \cup ToSet(config.values)} \ {"none"}

Valid == Faults = {} /\ TypesKnown /\ ValuesHaveVariables

\* The pins of the first n components of an I2C or Modbus system that have one
\* direction, component by component.
BusSequence(s, segment, n) ==
    FlattenSeq([i \in 1 .. n |->
        IF s.components[i].direction = segment THEN PinsOf(s.components[i], i) ELSE <<>>])

\* The entries in the first n maps of an MQTT system that no earlier one has the key of.
Topics(s, segment, n) ==
    FlattenSeq([i \in 1 .. n |->
        IF s.components[i].direction = segment THEN s.components[i].pins ELSE <<>>])
FirstOfKey(segment, pins) ==
    {pins[i] : i \in {j \in DOMAIN pins :
        \A k \in 1 .. j - 1 : Key(segment, pins[k]) # Key(segment, pins[j])}}

\* The copy sequences that the first n components of a system are to have.
SequencesAsWritten(list, s, n) ==
    \A segment \in Segment :
        IF s.type = "mqtt"
        THEN ToSet(list[segment]) = FirstOfKey(segment, Topics(s, segment, n))
        ELSE list[segment] = BusSequence(s, segment, n)

SystemAsWritten(logic, s) ==
    /\ logic.type = s.type
    /\ SequencesAsWritten(logic.sequences, s, Len(s.components))

-----------------------------------------------------------------------------
(* Properties *)

\* The variables are those that some pin or topic names, in whichever task, and each
\* has the initial value given for it: the IO factories, which reset what they find,
\* are all through by then.
VariablesAsWritten ==
    pcFactory = "configured" =>
        \A segment \in Segment :
            /\ DOMAIN gv[segment] = Named(segment)
            /\ \A v \in Named(segment) : gv[segment][v] = InitialValue(segment, v)

\* Every task has the IO systems and programs written for it, in their order; every
\* pin of a bus is copied, but of several topics for one output variable, or
\* variables for one input topic, only the first.
TasksAsWritten ==
    pcFactory = "configured" =>
        /\ Len(logics) = Len(config.tasks) /\ Len(programs) = Len(config.tasks)
        /\ \A t \in DOMAIN logics :
              /\ Len(logics[t]) = Len(config.tasks[t].io)
              /\ \A s \in DOMAIN logics[t] :
                    SystemAsWritten(logics[t][s], config.tasks[t].io[s])
              /\ programs[t] = [i \in DOMAIN config.tasks[t].programs |->
                                   config.tasks[t].programs[i].type]

BuiltAsWritten == VariablesAsWritten /\ TasksAsWritten

\* A configuration is accepted just if nothing is wrong with it, and what yaml-cpp
\* alone finds wrong does not end the process with an exception.
AcceptedIfValid ==
    /\ pcFactory = "configured" => Valid
    /\ pcFactory \in {"rejected", "terminated"} => ~Valid
    /\ pcFactory = "terminated" =>
          "invalid" \in Faults \/ ~TypesKnown \/ ~ValuesHaveVariables

-----------------------------------------------------------------------------
(* The inductive invariant from which Plc_proofs derives these properties.     *)

\* What has been read: everything before the cursor.
TaskRead(t) == t < task \/ (t = task /\ pcFactory = "program")
SystemRead(t, s) ==
    \/ TaskRead(t)
    \/ t = task /\ pcFactory = "system" /\ s < system
    \/ t = task /\ pcFactory = "component" /\ s <= system
ComponentRead(t, s, i) ==
    /\ SystemRead(t, s)
    /\ t = task /\ pcFactory = "component" /\ s = system => i < item
ProgramRead(t, i) == TaskRead(t) /\ (t = task => i < item)
ValueRead(i) == pcFactory = "configured" \/ (pcFactory = "value" /\ i < item)

TaskList == DOMAIN config.tasks
SystemList(t) == DOMAIN config.tasks[t].io
ComponentList(t, s) == DOMAIN config.tasks[t].io[s].components
ProgramList(t) == DOMAIN config.tasks[t].programs

Reading == pcFactory \notin {"rejected", "terminated"}

\* The cursor is where there is something to read, or right behind the last of it.
CursorOK ==
    /\ config \in Config
    /\ pcFactory \in {"task", "system", "component", "program", "value", "configured",
                      "rejected", "terminated"}
    /\ pcFactory = "task" => task \in 1 .. Len(config.tasks) + 1
    /\ pcFactory \in {"system", "component", "program"} => task \in TaskList
    /\ pcFactory = "system" => system \in 1 .. Len(ThisTask.io) + 1
    /\ pcFactory = "component" =>
          system \in SystemList(task) /\ item \in 1 .. Len(ThisSystem.components) + 1
    /\ pcFactory = "program" => item \in 1 .. Len(ThisTask.programs) + 1
    /\ pcFactory \in {"value", "configured"} => task = Len(config.tasks) + 1
    /\ pcFactory = "value" => item \in 1 .. Len(config.values) + 1

\* Nothing was wrong with what has been read.
TasksRight == \A t \in TaskList : TaskRead(t) => config.tasks[t].fault = "none"
SystemsRight ==
    \A t \in TaskList : \A s \in SystemList(t) : SystemRead(t, s) =>
        config.tasks[t].io[s].fault = "none" /\ config.tasks[t].io[s].type \in SystemType
ComponentsRight ==
    \A t \in TaskList : \A s \in SystemList(t) : \A i \in ComponentList(t, s) :
        ComponentRead(t, s, i) =>
            LET node == config.tasks[t].io[s]
                c == node.components[i]
            IN  c.fault = "none" /\ <<node.type, c.direction, c.type>> \in Component
ProgramsRight ==
    \A t \in TaskList : \A i \in ProgramList(t) : ProgramRead(t, i) =>
        LET p == config.tasks[t].programs[i]
        IN  p.fault = "none" /\ p.type \in ProgramType
ValuesRight ==
    \A i \in DOMAIN config.values : ValueRead(i) =>
        LET e == config.values[i]
        IN  e.fault = "none" /\ e.var \in Named(e.segment)
RightSoFar ==
    Reading => TasksRight /\ SystemsRight /\ ComponentsRight /\ ProgramsRight /\ ValuesRight

\* The variables are those named so far; a value is given to one by the last entry for it
\* that has been read.
ComponentsRead ==
    {c \in AllComponents : \E t \in TaskList : \E s \in SystemList(t) :
        \E i \in ComponentList(t, s) :
            ComponentRead(t, s, i) /\ c = config.tasks[t].io[s].components[i]}
GivenSoFar(segment, v) ==
    {i \in DOMAIN config.values :
        ValueRead(i) /\ config.values[i].segment = segment /\ config.values[i].var = v}
VariablesSoFar ==
    /\ DOMAIN gv = Segment
    /\ Reading => \A segment \in Segment :
          /\ DOMAIN gv[segment] = VariablesOf(ComponentsRead, segment)
          /\ \A v \in DOMAIN gv[segment] :
                \/ GivenSoFar(segment, v) = {} /\ gv[segment][v] = FALSE
                \/ \E i \in GivenSoFar(segment, v) :
                      /\ \A j \in GivenSoFar(segment, v) : j <= i
                      /\ gv[segment][v] = config.values[i].value

\* The copy sequences, composites and programs are those of the nodes read so far.
Composites ==
    IF pcFactory \in {"system", "component", "program"} THEN task ELSE task - 1
SystemsDone(t) ==
    IF t = task /\ pcFactory \in {"system", "component"}
    THEN system - 1 ELSE Len(config.tasks[t].io)
Installed == IF pcFactory = "program" THEN task ELSE task - 1
ProgramsDone(t) ==
    IF t = task /\ pcFactory = "program" THEN item - 1 ELSE Len(config.tasks[t].programs)
TasksSoFar ==
    Reading =>
        /\ Len(logics) = Composites /\ Len(programs) = Installed
        /\ \A t \in 1 .. Composites :
              /\ Len(logics[t]) = SystemsDone(t)
              /\ \A s \in 1 .. SystemsDone(t) :
                    SystemAsWritten(logics[t][s], config.tasks[t].io[s])
        /\ \A t \in 1 .. Installed :
              programs[t] = [i \in 1 .. ProgramsDone(t) |-> config.tasks[t].programs[i].type]
        /\ pcFactory = "component" => SequencesAsWritten(sequences, ThisSystem, item - 1)

Progress ==
    /\ CursorOK
    /\ RightSoFar
    /\ VariablesSoFar
    /\ TasksSoFar
    /\ AcceptedIfValid
=============================================================================
