# homeautomation-plc in TLA+

This directory models the runtime of homeautomation-plc (`src/runtime`): a small
soft PLC that runs tasks, each a thread that reads inputs, executes programs on
global variables, writes outputs, sleeps, and starts over. The modules are
checked with TLC on small instances; the safety properties that matter most are
proved with TLAPS for all instances.

## 1. Inventory

| Component | Code (under `src/runtime`) | State | Operations | Module |
|---|---|---|---|---|
| Ring buffer | `system/circular_buffer.hpp` | slots, head, tail, full flag, mutex, condition variable | put, get, get_for, size, reset | `CircularBuffer`, contract in `MessageQueue` |
| MQTT client | `system/mqtt.hpp`, `mqtt_c.hpp` | connected, connecting, running, subscriptions, the worker and reconnecter threads, two buffers | connect, subscribe, publish, receive, disconnect, destruction; six callbacks of the Paho library; the two thread loops | `MqttClient`, contract in `LossyChannel` |
| Roller blind | `library/blind*.{cpp,hpp}`, `fsm.hpp`, `trigger.hpp` | one of three states with its start time and two triggers, two outputs | execute | `Blind`; with its relays `BlindSystem` |
| Scheduler, main | `runtime/scheduler.hpp`, `task_io.hpp`, `entry/main.cpp`, `system/signal.cpp` | one atomic state, the threads, the IO systems of each task | start, stop, wait, taskFun, the signal handler | `Scheduler`; with a configuration `Plc` |
| I2C IO, Modbus IO | `runtime/task_io_bus.hpp`, `system/i2c_*.hpp`, `system/modbus*.hpp` | of each module the input or output image and the last output image, and the chips or relays | init, read, write, close | `BusTaskIO`, contract of a module in `OutputPort` |
| MQTT IO | `runtime/task_io_mqtt.cpp` | input and output variables, the outputs of the last cycle | init, before, after, shutdown | `MqttTaskIO` |
| MultiClick | `library/multiclick.lua`, `trigger.lua` | start, count, trigger | execute | `MultiClick` |
| Light, example programs | `library/light.hpp`, `examples/cpp-program`, `examples/generic` | one bit per light, one per trigger | toggle, execute | `RemoteLight` |
| Configuration | `factory/*` | the variables, copy sequences and tasks under construction | one factory per kind of node | `Configuration`, in `Plc` |
| Global variables, programs | `runtime/gv.hpp`, `program*.{hpp,cpp}` | two maps of variables, shared by all tasks | read and written by programs and IO systems | built in `Configuration`; in the IO modules a program is a free choice of the output variables |
| Bit helpers, time helper | `system/bithelpers.hpp`, `library/time.cpp` | none | pure functions | not modelled: a byte is the set of its pins |

How the parts interact. `main` has the factories build the runtime from a file and
starts the scheduler; each task thread calls its IO systems and programs in turn.
An MQTT IO system owns a client, whose reconnecter thread, callback thread (of the
Paho library) and send worker share flags, vectors and two ring buffers with the
task thread. Function blocks (`Blind`, `MultiClick`, `Light`) are called by programs
once per cycle; what they return goes through variables, copy sequences and driver
images to a module on a bus, which outlives the program. All tasks share the global
variables without a lock. A signal stores one value that all tasks poll.

What is hard in it, and what would be correct:

- **Ring buffer.** Three pieces of state (head, tail, full) must move together;
  consumers with timeouts compete for single notifications. Correct: it is a
  queue that drops its oldest message, no consumer sleeps while a message waits,
  and `get_for` returns.
- **MQTT client.** Four threads, flags that are atomic one by one but read in
  pairs, and a broker that comes and goes. Correct: one connection attempt at a
  time, topics restored in every session, messages sent once at most and in
  order, reconnection after any fault, `disconnect` returns and leaves nothing
  behind. The last of these fails; see the findings.
- **Roller blind.** Time, triggers that short-circuit evaluation may skip, buttons
  held across states, and a bus between the block and the motor. Correct, at the
  relays: never both on, a bounded run time, a rest before every start; only fresh
  presses start the motor and any fresh press stops it.
- **Scheduler.** A stop request may come while threads are still being created.
  Correct: every task that got to run shuts its IO systems down before the program
  ends, cycles only touch open IO systems, and stop requests are honoured.
- **I2C and Modbus IO.** Transfers fail, answers are lost, modules outlive the
  program, which may die between the writes of two of them. Correct: the cached
  `last_outputs`, on which the decision to write rests, is what the hardware
  drives; outputs follow the variables, also of one module when another fails; no
  button appears pressed that is not.
- **MQTT IO.** Messages arrive while the buffer is being emptied. Correct: an
  input is a pulse of one cycle, an output is published once per rising edge.
- **MultiClick.** One call in each period does not execute the trigger. Correct:
  counts are off by one press at most, a held button starts nothing.
- **A light of another runtime.** A press passes two triggers, three buffers, two
  clients and a broker that may deliver twice. Correct: every press is accounted
  for, and none stays on the way.
- **Configuration.** Factories reset variables that others have created, and throw
  exceptions of two kinds, of which `main` catches one. Correct: what is built is
  what the file says; nothing runs unless all of it was accepted.

The hazards are listed, line by line, under `hazards` in `PROJECT.json`. Some of them
come true in the code: an attempt that is rejected at once strands the client, a
failed I2C write is taken for done, and so on (section 5). A property that exempts
such an outcome is not listed under that hazard; the hazard has a note instead that
says which state of the model shows it and which property shows that nothing else has
that effect.

## 2. Plan

Order, most important first. All but the last two steps are done.

1. `MessageQueue` (abstract), `CircularBuffer`: the buffer implements the queue.
2. `LossyChannel` (abstract), `MqttClient`: composed with two `MessageQueue`s.
3. `Blind`.
4. `Scheduler`.
5. `OutputPort` (abstract), `BusTaskIO`: several modules on one bus, I2C or Modbus;
   each implements the port.
6. `MqttTaskIO`: composed with `MessageQueue`.
7. `MultiClick`.
8. `BlindSystem`: `Blind` on an `OutputPort`.
9. `RemoteLight`: programs, `MqttTaskIO` on both sides, `LossyChannel`, broker and
   `MessageQueue`, from a button to a light.
10. `Configuration` and `Plc`: the factories, and `main` as their composition with
    `Scheduler`, which `Plc` implements.
11. `SharedVariables`: several tasks of `Scheduler` around one map of variables;
    what a program may rely on while other tasks write.
12. `BitHelpers`: the byte operations against the set-of-pins view of the IO
    modules, on all bytes.

Every safety property and action property that a run checks, and every refinement, is
now a theorem (section 6). Worth proving next: the safety of steps 11 and 12 once they
exist, and that the pieces of `RemoteLight` map to runs of `MqttTaskIO`.

## 3. The modules

Every module names the code of each definition in a comment; `map` in
`PROJECT.json` gives the lines. Operators under "Mutation of ..." are deliberate
mistakes; they belong to no specification and only serve to show that a property
can fail (`mutants` in `PROJECT.json`).

**MessageQueue** — what users of the buffer may rely on: `Put` drops the oldest
message of a full queue, `Take` and `TakeNothing` are the two outcomes of a get.

**CircularBuffer** — `buf`, `head`, `tail`, `full` as in the code (indices modulo
`Capacity`) and the sleeping consumers. A critical section is one step; a wait on
the condition variable splits `get_for` into `Sleep` and `Resume`. `NotifyOne`
wakes any one sleeper; `Expire` is the timeout; a consumer woken for a message
that another has taken goes back to sleep. `full()` is not modelled (nobody calls
it).

**MqttClient** — program counters for the four threads; one step per access to
shared state, locks as the set of steps inside them. The Paho library is a
connection state (`down`, `attempting`, `up`) whose events start callbacks, one at
a time. Undefined behaviour (the vector of topics cleared while it is iterated
over) is a choice between going on and a crash. Messages are numbered. The buffers
are `MessageQueue`s, which `CircularBuffer` implements. `LossyChannel` is the
abstract view: pending messages, each handed over in order or lost.

**Blind** — the clock is a tick; a state's start time is kept as its age.
`TransitionIdle` and `TransitionMoving` are the transition functions, `Enter` and
`Stay` the two outcomes of `FSM::update`. History variables record how long the
outputs have had their value and what the buttons were in the call before.

**OutputPort** — one output module with its driver, on either bus: what the driver
believes, what the module drives, whether the belief is known to be true. A
transfer is done, ignored (I2C, failed), lost, or carried out without an answer
(Modbus). A start forgets the belief; an end changes nothing.

**BusTaskIO** — `BusIOLogic` with `NIn` input and `NOut` output modules, any mapping
of pins to variables, a bus of either kind. The loops over the modules are one step
per module, so that the program can end or die between two of them (`Stop`). The
byte of a module is the set of its logical pins; the copy sequences are the
functions `source` and `drives` of the configuration. I2C modules are initialised by
`Bus::init`, Modbus modules are not, and only Modbus drivers refuse pins they do
not have (`Throw`). A start gives the variables any value, since `init_val` may set
any of them. `doubtful` notes what may have made a module differ from
`last_outputs`. Every module of it is an `OutputPort`.

**BlindSystem** — `Blind`, called in cycles, whose outputs go through a driver to an
`OutputPort`, together with pins that other programs set. The history variables
belong to an observer of the relays: how long they have had their positions
(`energised`), how long a request has been overdue (`lag`), and whether nothing but
such a delay has gone wrong since they last changed (`faultless`).

**Scheduler** — `main`, the signal and one thread per task, which goes through
init, cycles and shutdown, one IO system a step. Any call may throw, which ends
the process. Which tasks there are, and how many IO systems each has, is left open.

**Configuration** — the walk over a file, one step per node; a node carries what
reading it raises (`fault`). `CreateVariables` sets a variable to false whether it
exists or not, `InsertCopySequence` appends pins of a bus and `Emplace`s topics,
`SetValue` requires a variable. The middle of the module says what a file means,
without a walk (`Valid`, `Named`, `InitialValue`, `BusSequence`, `FirstOfKey`); its end
says the same of the part before the cursor (`Progress`). `IsTree` is the shape that
the nodes of a file have, which `Plc` assumes of the configurations it may be given
(`ConfigAssumption`), together with bounds on tasks and IO systems; faults, types,
pins, names and values are arbitrary.

**Plc** — `main`: `Configuration` first, then `Scheduler` with the tasks it has
installed, and signals all the time. It implements `Scheduler`.

**MqttTaskIO** — `before` as one step per message, `after` as two steps per output
(compare, remember), messages arriving at any time, and programs of other tasks
that write `SharedOutputs` in between.

**MultiClick** — one action per branch of `execute`; the difference of clock
readings is `elapsed`.

**RemoteLight** — the C++ example toggles its own lights and asks, with a pulse of
`light_remote`, for one of the Lua example. A message is the number of its press.
The sender's client is a `LossyChannel`, the receiver's buffer a `MessageQueue`;
the broker forwards, drops for lack of a receiver, or repeats (QoS 1).

## 4. The runs

| Run | Shows | Bounds, and why they suffice |
|---|---|---|
| `buffer` | No lost wake-up, implements `MessageQueue`, `get_for` returns under fairness | 3 slots: first, middle and last index differ, so that every wrap-around occurs; 3 consumers: one to notify, one to steal, one to sleep on |
| `blind_system` | Interlock, run time and rest at the relays; fresh presses, stop | Periods 4, 2 and 3 with gaps up to 3 and a lag up to 2: up, down and idle differ, a call may miss the end of a period, a request may be overdue for two ticks; transfers fail and programs restart without a limit |
| `mqtt` | Inductive invariant (`ClientIInv`), one attempt, topics restored, implements `LossyChannel` | 2 topics, 3 faults (fail, lose, fail again), 1 rejected call, 3 messages in a queue of 2: one too many, and two to be swapped |
| `mqtt_live` | Reconnects, drains, disconnects | 1 topic, 2 messages, 2 faults, 1 rejected call |
| `mqtt_terminate`, `mqtt_hang` | Findings 1 and 2 | 1 topic, no rejected call |
| `plc` | Inductive invariant (`PlcIInv`); what is built is what the file says; a file is accepted just if it is valid; IO life cycle, stop requests; implements `Scheduler` | 4 valid files (3 tasks, 2 IO systems, shared variables, a topic too many; no IO; no task) and 15 with one mistake each, of every kind and at every kind of node |
| `bus` | Inductive invariant (`BusIInv`); outputs follow, on each module by itself; unconfigured pins are left alone until a read fails; no phantom press on Modbus; implements `OutputPort`; settles | 1 input and 2 output modules, 2 variables (one on both modules), a pin without a variable, a pin that does not exist; 2 starts, 1 read fault, 2 write faults: a fault before and after a restart |
| `i2c_phantom` | Finding 3 | 1 read fault |
| `mqtt_io` | Inputs are pulses that tell the last message; rising edges published; no output, shared or not, published twice for one rise; only endless messages hold up a cycle | Buffer of 2, so that it overflows; both values for the input, an undecided payload, a stray topic; one own and one shared output |
| `multiclick` | Counts, held button, report | Period 12, calls 1 to 14 apart: up to six presses, and calls that skip a whole period |
| `remote_light` | Inductive invariant (`LightIInv`); every press accounted for; lights tell presses; none is stuck | 3 presses into a buffer of 2, so that it overflows, with 1 lost and 1 repeated message; one local button beside the remote one |

Deadlock is checked where the system never stops (the buffer, the blind,
MultiClick). It is switched off where it may: the MQTT client is destroyed, the
program exits, a program is not restarted once its starts are used up, and the
presses of `remote_light` are.

### Fairness

- `CircularBuffer`: a thread that is runnable runs, and a timeout expires; nobody
  is obliged to put a message.
- `MqttClient`: each thread is scheduled, and an attempt ends one way or the other
  (`connectTimeout` is one second). The task need not publish or disconnect. The
  properties assume a task that stays (`<>[]clientRunning`) where they need it.
- `Plc`: threads are scheduled and IO calls return; a file is finite. No signal is
  owed, no call need throw.
- `BusTaskIO`, `MqttTaskIO`, `MultiClick`: the task's loop goes round. `OutputsSettle`
  speaks of programs that stay, and of variables left alone.
- `RemoteLight`: the receiver's task goes round, the broker passes on or drops what
  it has, and the sender's client comes back to it, which is what `Reconnects` of
  `MqttClient` says. No button need be pressed.

Weak fairness is enough, with two exceptions. A sleeping consumer of
`CircularBuffer` is notified again and again when others keep taking the messages,
but `wait_for` has one deadline for the whole call, so that `Expire` is strongly
fair. And nothing but its broker's silence ends the loop that empties the buffer of
`MqttTaskIO`, which `CyclesUnlessFlooded` says instead of assuming it away: the task must be in that
loop for good, with messages delivered and taken for ever.

## 5. Findings

Each is the counterexample of a violation run; `findings` in `PROJECT.json` quotes
the sentence the code contradicts.

1. `mqtt_terminate` — after a lost connection `Client::disconnect` leaves the raw
   client alone, and its joinable `send_worker` terminates the program when it is
   destroyed.
2. `mqtt_hang` — `on_connected` sets `running` after `disconnect` has unset it;
   `disconnect` joins a worker that never ends. `DisconnectReturnsIfSettled`
   (run `mqtt_live`) shows that this is the only way in which it hangs.
3. `i2c_phantom` — a failed read makes all eight buttons of a PCF8574 look pressed.

The models show more that is worth knowing, without a run of its own:

- `ClientPahoC::disconnect` clears `subscriptions` without `subs_mutex` while
  `on_connected` may be iterating over it (`MqttClient`: `pcT = "clear_subs"` and
  `pcP = "resubscribe"` is a reachable state), and reads and joins `send_worker`
  while `on_connected` may be assigning it (`pcT = "join_worker"`,
  `pcP = "spawn_worker"`): `connecting = false` comes too early to exclude it.
- After `MQTTAsync_connect` has returned an error once, `connecting` stays set and
  the client never connects again (`Stranded`). `Reconnects` and `SendQueueDrains`
  show that this is the only way in which it stays away.
- After a restart with pins on, the driver skips the write that would switch them
  off, because `last_outputs` starts at zero (`doubtful` says so).
- An I2C write that fails is remembered as if it had succeeded. When it was to stop
  the motor of a blind, the motor runs until the output changes again, and when the
  block then starts it the other way it is reversed without a rest; the same goes
  for a program that dies while the motor runs. `RelayRunBound` and `RelayRest` are
  therefore about relays with which nothing but a delay has gone wrong
  (`faultless`); `Interlock` holds without that.
- A press for another runtime counts twice if the broker repeats its message, and
  two presses count once if their messages meet in one cycle of the receiver
  (`duplicated` and `merged` in `PressesAccounted`).
- Of two topics for one output variable, or two variables for one input topic, the
  MQTT factory keeps the first (`TasksAsWritten`).
- `main` reports what yaml-cpp finds wrong with a file. A missing required field, an
  unknown type or an initial value for a variable that does not exist is a
  `std::invalid_argument`, which nobody catches (`Refused`).
- `MQTTIOLogic::after` reads an output twice; a rise between the two reads, by a
  program of another task, is remembered but never published. That is why
  `EdgesPublished` speaks of the outputs that are not shared; of the others
  `PublishedOncePerRise` still says that none is published twice for one rise.
- A signal that arrives before `Scheduler::start` is overwritten, and messages still
  queued at `disconnect` are never sent.

## 6. Proofs

The proof modules extend the module they are about. They assume nothing but the
named assumptions on constants there (`CapacityAssumption` and so on).

| Module | Proved for all instances | Argument |
|---|---|---|
| `CircularBuffer_proofs` | `TypeOK`, `ContentsValid`, `NoLostWakeup`, refinement of `MessageQueue` | The full flag says which of two readings of head = tail is meant; the queue is the slots from the tail on, so that put and get move one end. For wake-ups the invariant counts: consumers that are woken or awake are enough for the messages held |
| `MqttClient_proofs` | `ClientIInv` with all types, `NoSecondAttempt`, `SubscriptionsRestored`, `WorkerServes`; refinement of `LossyChannel` | See below |
| `BlindSystem_proofs` | of `Blind` the `IInv`, `MotorRunBound`, `RestBeforeStart`, `StartNeedsFreshPress`, `PressStops`; with relays `SystemIInv`, `Interlock`, `RelayRunBound`, `RelayRest` | Outputs follow the state, both triggers equal the buttons of the last call, the age is how long the outputs have been as they are; a motor past its period has been so for less than a gap. For the relays see below |
| `Plc_proofs` | of `Scheduler` the `IInv`, `CyclesOnOpenIO`, `NoIOLeftOpen`; `Plc` implements `Scheduler`; `PlcIInv`, `AcceptedIfValid`, `BuiltAsWritten` | Systems before the iterator are open in init and closed in shutdown, all are open in between. For the refinement, the factories never have more logics or programs than the file has tasks, nor more systems than its task, so that what they install is among what `Configure` may choose. For the files see below |
| `BusTaskIO_proofs` | `BusIInv`, `LastOutputsTrue`, `OutputsFollowVariables`, `UnmappedUntouched`, `NoPhantomPressOnModbus`; every module implements `OutputPort` | Without doubt, module and `last_outputs` are equal; the modules before the iterator are written (`WrittenInTurn`), so that between cycles all are; without failed reads, `outputs` and module agree on the pins that are not configured |
| `MqttTaskIO_proofs` | `TypeOK`, `InputsAreNews`, `EdgesPublished`, `PublishedOncePerRise` | The last message for an input in the buffer is the last delivered; if there is none it was taken already. An output of its own is remembered as it was compared; any output that has been true since it was published is remembered as true, or about to be |
| `RemoteLight_proofs` | `LightIInv` with all types, `PressesAccounted`, `LightsTellPresses` | See below |
| `MultiClick_proofs` | `TypeOK`, `CountsPresses`, `CountBounded`, `HeldButtonStaysQuiet` | Within a period trigger and button agree; between periods at most one press goes by |

Why the client needs a strengthening: `NoSecondAttempt` speaks of the moment of the
call, but what excludes a second attempt is what the flags say of the connection
while a callback catches up with it. `FlagsFollowConnection` states that as long as
both flags are unset there is no connection, no attempt and no callback under way;
the order of the writes in `on_connected` (connected before connecting unset) and of
the reads in `connect` (connecting before connected) keeps it. `ReconnecterKnows`
carries it through the steps of `connect`, and `TopicsRestored` is the loop
invariant of the restoring callback. These only hold until the task has joined the
reconnecter (`Early`): `disconnect` breaks them, which is what findings 1 and 2 and
the two races are about.

That the client implements `LossyChannel` needs one fact more, `WorkerOwned`: a worker
at work is owned by `send_worker`, so that a callback that starts one starts the only
one. Then pending messages are those in the buffer plus the one the worker holds, and
each step of the worker moves one message from the front, or loses it.

Why a light needs one: `PressesAccounted` is a sum over places, and a press may only
leave one place as it enters the next. `RisesAreSingle` is why publishing rising edges
of a pulse hides none: `light_remote` is true for a single cycle, since a trigger that
has fired sees a pressed button in the cycle after. `PulseIsNews` ties the receiver's
pulse to messages taken in this cycle, and `LightsCount` parities to toggles.

Why the factories need one, `Progress`, conjunct by conjunct, each for the nodes before
the cursor, whose position (`CursorOK`) says which these are:

- `RightSoFar`: nothing was wrong with them. When the cursor is at the end this is
  `Valid`; a step that raises something does so for a reason the file as a whole has.
  That initial values come last is needed here: a variable is missing because no pin
  in the file names it, not because none has named it yet.
- `VariablesSoFar`: there are the variables they name. All are false until the first
  value is read, so that the factories, which reset what they find, undo no value;
  after that each has the last value read for it.
- `TasksSoFar`: composites, copy sequences and programs are theirs, in order. For a bus
  the list under construction is the concatenation of the pins of its components; for
  MQTT it holds the first entry of every key, whatever comes behind (`EmplaceAllFirst`).

The last of these rests on what `FlattenSeq` and the recursive function in `EmplaceAll`
compute, for lists of any length. The induction theorems of the library cannot be
used, because they take an operator; `SetInduction` is the principle for a set of
numbers instead, obtained from the well-foundedness of <. With it `FlatExists` and
`MappingExists` show that there are functions that satisfy the recursive equations,
`FlatUnique` that the results for a list do not depend on what is behind it, and
`FlattenAppend` and `EmplaceFirst` what one more element does.

Why the blind needs one: its promises are about what it asks for, `RelayRunBound` and
`RelayRest` about relays that may not know yet. `RestLags` and `RunLags` say where
the relays can be behind: off while the block has asked for a motion no longer than
`lag` ago, or on while it has stopped asking no longer than `lag` ago. That `MaxLag`
is shorter than the rest (`LagAssumption`) is what keeps the relays from being two
requests behind. `Interlock` needs no such premise: neither the block nor the driver
ever holds both relays on, and the pins of a module change in one transfer.

Only model-checked: the liveness properties (`GetForReturns`, `Reconnects`,
`SendQueueDrains`, `DisconnectReturnsIfSettled`, `StopHonoured`,
`OutputsSettle`, `CyclesUnlessFlooded`, `PeriodsEnd`, `PressesArrive`), which are outside
the prover's reach like everything with fairness or ENABLED. No module contains a
RECURSIVE operator.

## 7. Not modelled

- The Paho, libmodbus and Linux interfaces beyond their outcomes as seen by the
  code; in particular the locks inside Paho, so that a deadlock between `mutex` and
  the library would not be seen. `modbus_set_slave` is taken to succeed: when it
  fails the code goes on and talks to whichever module was addressed before.
- QoS except for the repetitions in `RemoteLight`, payloads beyond true, false and
  other, the text of YAML files, logging, the Lua interpreter.
- Data races on plain variables other than those of section 5. Global variables
  that several tasks share are only seen in the outputs of `MqttTaskIO`.
- The sleep between cycles: cycles come at any time. In `BlindSystem` a cycle takes
  no time: `execute` and the transfer happen at one instant.
- The configuration register of the MAX7311, and `StubBus`, which no configuration
  can choose.
- Threads are created in any order in `Scheduler` (the code takes the order of the
  file), which allows more behaviours.
