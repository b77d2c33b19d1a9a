------------------------------- MODULE MCPlc -------------------------------
(* TLC instance of Plc: configurations of up to three tasks, right and wrong. *)
EXTENDS Plc

Pin(at, var) == [at |-> at, var |-> var]

Inputs(type, pins) == [direction |-> "inputs", type |-> type, fault |-> "none", pins |-> pins]
Outputs(type, pins) == [direction |-> "outputs", type |-> type, fault |-> "none", pins |-> pins]
IOSystem(type, list) == [type |-> type, fault |-> "none", components |-> list]
TaskNode(systemList, programList) ==
    [io |-> systemList, fault |-> "none", programs |-> programList]
Lua == [type |-> "Lua", fault |-> "none"]
Cpp == [type |-> "C++", fault |-> "none"]
Value(segment, var, value) ==
    [segment |-> segment, var |-> var, value |-> value, fault |-> "none"]

\* Two variables on one input pin, one variable on pins of two modules.
Bus ==
    IOSystem("i2c", <<Inputs("pcf8574", <<Pin("0", "button"), Pin("0", "bell")>>),
                      Outputs("pcf8574", <<Pin("0", "lamp")>>),
                      Outputs("max7311", <<Pin("0", "lamp"), Pin("1", "fan")>>)>>)
Rtu ==
    IOSystem("modbus-rtu", <<Inputs("WP8026ADAM", <<Pin("2", "button")>>),
                             Outputs("R4S8CRMB", <<Pin("7", "fan")>>)>>)
\* Two topics for one output, two variables for one topic.
Mqtt ==
    IOSystem("mqtt", <<Inputs("topics", <<Pin("/in", "remote"), Pin("/in", "bell")>>),
                       Outputs("topics", <<Pin("/out", "lamp"), Pin("/also", "lamp")>>)>>)

\* The second task comes back to variables of the first.
Home ==
    [tasks |-> <<TaskNode(<<Bus, Mqtt>>, <<Cpp>>), TaskNode(<<Rtu>>, <<Lua, Cpp>>)>>,
     values |-> <<Value("inputs", "button", TRUE), Value("inputs", "bell", FALSE),
                  Value("outputs", "lamp", TRUE)>>]
\* A third task, with a bus of its own but without programs.
House == [Home EXCEPT !.tasks = Append(@, TaskNode(<<Bus>>, <<>>))]
WithoutIO == [tasks |-> <<TaskNode(<<>>, <<Lua>>)>>, values |-> <<>>]
WithoutTasks == [tasks |-> <<>>, values |-> <<>>]

Faulty ==
    LET bad == {"yaml", "invalid"}
    IN  {[Home EXCEPT !.tasks[2].fault = "yaml"]}
        \cup {[Home EXCEPT !.tasks[1].io[2].fault = f] : f \in bad}
        \cup {[Home EXCEPT !.tasks[2].io[1].components[1].fault = f] : f \in bad}
        \cup {[Home EXCEPT !.tasks[2].programs[2].fault = f] : f \in bad}
        \cup {[Home EXCEPT !.tasks[1].io[1].type = "spi"],
              [Home EXCEPT !.tasks[1].io[1].components[2].type = "pcf8575"],
              [Home EXCEPT !.tasks[1].io[1].components[1].type = "max7311"],
              [Home EXCEPT !.tasks[1].programs[1].type = "Python"],
              [Home EXCEPT !.values[3].fault = "yaml"],
              [Home EXCEPT !.values[1].var = "lamp"],
              [WithoutTasks EXCEPT !.values = <<Value("inputs", "button", TRUE)>>]}

MCTask == 1 .. 3
MCConfig == {Home, House, WithoutIO, WithoutTasks} \cup Faulty
=============================================================================
