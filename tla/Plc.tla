-------------------------------- MODULE Plc --------------------------------
(***************************************************************************)
(* main with a configuration: the composition of Configuration and         *)
(* Scheduler.  The tasks that the scheduler runs are those the factories   *)
(* have installed, each with the IO systems that were added to its         *)
(* composite; a task is named by its position.  A signal may arrive at any *)
(* time, also while the file is being read.                                *)
(***************************************************************************)
EXTENDS Scheduler, Sequences

CONSTANTS
    Config, \* the configurations to choose from
    NTasks  \* the number of tasks a configuration may have

ASSUME TaskAssumption == NTasks \in Nat /\ Task = 1 .. NTasks
VARIABLES config, pcFactory, task, system, item, gv, sequences, logics, programs

Factory == INSTANCE Configuration

\* A file is a tree of nodes, of any size within the bounds.
ASSUME ConfigAssumption ==
    \A c \in Config :
        /\ Factory!IsTree(c)
        /\ Len(c.tasks) <= NTasks
        /\ \A t \in 1 .. Len(c.tasks) : Len(c.tasks[t].io) <= MaxSystems

factoryVars ==
    <<config, pcFactory, task, system, item, gv, sequences, logics, programs>>
plcVars == <<vars, factoryVars>>

PlcInit == Init /\ Factory!Init

\* Mutation of Reading: a task that is installed is started.
ReadingAndStarting ==
    /\ pcMain = "configure"
    /\ Factory!Next
    /\ pcTask' = [t \in Task |-> IF t <= Len(programs') THEN "init" ELSE "none"]
    /\ UNCHANGED <<pcMain, state, unstarted, systems, ioIndex, io>>

\* The factories at work.
Reading ==
    /\ pcMain = "configure"
    /\ Factory!Next
    /\ UNCHANGED vars

\* What they come to.
Configured ==
    /\ pcMain = "configure" /\ pcFactory = "configured"
    /\ pcMain' = "set_running"
    /\ unstarted' = 1 .. Len(programs)
    /\ systems' = [t \in Task |-> IF t <= Len(logics) THEN Len(logics[t]) ELSE 0]
    /\ UNCHANGED <<state, pcTask, ioIndex, io, factoryVars>>

\* main catches the exceptions of yaml-cpp, and no other.
Refused ==
    /\ pcMain = "configure" /\ pcFactory \in {"rejected", "terminated"}
    /\ pcMain' = IF pcFactory = "rejected" THEN "exited" ELSE "terminated"
    /\ UNCHANGED <<state, unstarted, pcTask, systems, ioIndex, io, factoryVars>>

FromFile == Reading \/ Configured \/ Refused

\* The scheduler afterwards, and the signal handler.
Scheduling ==
    /\ \/ SetRunning \/ (\E t \in Task : Spawn(t)) \/ Join \/ SetStopped
       \/ Signal
       \/ \E t \in Task : TaskFun(t) \/ Throw(t)
    /\ UNCHANGED factoryVars

PlcNext == FromFile \/ Scheduling

PlcSpec == PlcInit /\ [][PlcNext]_plcVars

\* As in Scheduler; reading a file takes a finite number of steps.
PlcFairSpec ==
    /\ PlcSpec
    /\ WF_plcVars(FromFile)
    /\ WF_plcVars(Scheduling /\ Main)
    /\ \A t \in Task : WF_plcVars(Scheduling /\ TaskFun(t))

-----------------------------------------------------------------------------
(* Properties *)

\* What the factories leave behind is what the file says; and they accept just the
\* files with which nothing is wrong (see Configuration).
BuiltAsWritten == Factory!BuiltAsWritten
AcceptedIfValid == Factory!AcceptedIfValid

\* What is said of Scheduler for any tasks and IO systems holds of the program.
ImplementsScheduler == Spec

-----------------------------------------------------------------------------
\* The inductive invariant from which Plc_proofs derives the safety properties: that of
\* the scheduler, and how far the factories have come.
PlcIInv == IInv /\ Factory!Progress
=============================================================================
