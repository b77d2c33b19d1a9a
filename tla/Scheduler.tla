----------------------------- MODULE Scheduler -----------------------------
(***************************************************************************)
(* The scheduler (runtime/scheduler.hpp), main (entry/main.cpp) and the    *)
(* signal handler (system/signal.cpp).  main configures the runtime, starts*)
(* one thread per task and joins them; SIGINT and SIGTERM store STOPPING in*)
(* the one flag that all the threads poll between two cycles.              *)
(*                                                                         *)
(* A task drives its IO systems through TaskIOLogicComposite               *)
(* (runtime/task_io.hpp): init, before, after and shutdown are loops over  *)
(* the systems, one step here for each.  Any of these calls and any program*)
(* may throw; no thread catches anything, so an exception ends the process.*)
(***************************************************************************)
EXTENDS Naturals

CONSTANTS
    Task,       \* the tasks a configuration may install
    MaxSystems  \* the number of IO systems a task may have

ASSUME SystemsAssumption == MaxSystems \in Nat

VARIABLES
    pcMain,     \* what main is about to do
    state,      \* Scheduler::state
    unstarted,  \* the installed tasks whose threads start() has not created yet
    pcTask,     \* what each task's thread is about to do
    systems,    \* the number of IO systems of each task
    ioIndex,    \* the composite's iterator of each task
    io          \* whether each IO system of each task is open

vars == <<pcMain, state, unstarted, pcTask, systems, ioIndex, io>>

System == 1 .. MaxSystems
SystemsOf(t) == {s \in System : s <= systems[t]}

TypeOK ==
    /\ pcMain \in {"configure", "set_running", "spawn", "join", "set_stopped",
                   "exited", "terminated"}
    /\ state \in {"RUNNING", "STOPPING", "STOPPED"}
    /\ unstarted \in SUBSET Task
    /\ pcTask \in [Task -> {"none", "init", "init_programs", "check", "before",
                            "execute", "after", "shutdown", "done"}]
    /\ systems \in [Task -> 0 .. MaxSystems]
    /\ ioIndex \in [Task -> 1 .. MaxSystems + 1]
    /\ \A t \in Task : ioIndex[t] <= systems[t] + 1
    /\ io \in [Task -> [System -> {"new", "open", "closed"}]]

\* main has installed the signal handler (initQuitCondition).
Init ==
    /\ pcMain = "configure"
    /\ state = "STOPPED"
    /\ unstarted = {}
    /\ pcTask = [t \in Task |-> "none"]
    /\ systems = [t \in Task |-> 0]
    /\ ioIndex = [t \in Task |-> 1]
    /\ io = [t \in Task |-> [s \in System |-> "new"]]

Alive == pcMain \notin {"exited", "terminated"}

-----------------------------------------------------------------------------
(* main *)

\* RuntimeFactory::fromFile installs some tasks, each with some IO systems.  With a
\* bad configuration main returns, or the exception ends the process.
Configure ==
    /\ pcMain = "configure"
    /\ \/ /\ pcMain' = "set_running"
          /\ unstarted' \in SUBSET Task
          /\ systems' \in [Task -> 0 .. MaxSystems]
       \/ pcMain' \in {"exited", "terminated"} /\ UNCHANGED <<unstarted, systems>>
    /\ UNCHANGED <<state, pcTask, ioIndex, io>>

\* Scheduler::start: state = RUNNING ..
SetRunning ==
    /\ pcMain = "set_running"
    /\ pcMain' = IF unstarted = {} THEN "join" ELSE "spawn"
    /\ state' = "RUNNING"
    /\ UNCHANGED <<unstarted, pcTask, systems, ioIndex, io>>

\* .. create the threads one by one ..
Spawn(t) ==
    /\ pcMain = "spawn"
    /\ t \in unstarted
    /\ unstarted' = unstarted \ {t}
    /\ pcMain' = IF unstarted' = {} THEN "join" ELSE "spawn"
    /\ pcTask' = [pcTask EXCEPT ![t] = "init"]
    /\ UNCHANGED <<state, systems, ioIndex, io>>

\* Mutation of Join: one finished thread is enough.
JoinAny ==
    /\ pcMain = "join" /\ pcMain' = "set_stopped"
    /\ \E t \in Task : pcTask[t] = "done"
    /\ UNCHANGED <<state, unstarted, pcTask, systems, ioIndex, io>>

\* Scheduler::wait: join every thread ..
Join ==
    /\ pcMain = "join" /\ pcMain' = "set_stopped"
    /\ \A t \in Task : pcTask[t] \in {"none", "done"}    \* "none": not installed
    /\ UNCHANGED <<state, unstarted, pcTask, systems, ioIndex, io>>

\* .. state = STOPPED; main returns.
SetStopped ==
    /\ pcMain = "set_stopped" /\ pcMain' = "exited"
    /\ state' = "STOPPED"
    /\ UNCHANGED <<unstarted, pcTask, systems, ioIndex, io>>

\* The signal handler: Scheduler::stop.
Signal ==
    /\ Alive
    /\ state' = "STOPPING"
    /\ UNCHANGED <<pcMain, unstarted, pcTask, systems, ioIndex, io>>

-----------------------------------------------------------------------------
(* Scheduler::taskFun *)

Goto(t, to) == pcTask' = [pcTask EXCEPT ![t] = to]

\* One turn of the composite's loop in "from" ..
Turn(t, from) ==
    /\ Alive
    /\ pcTask[t] = from
    /\ ioIndex[t] <= systems[t]
    /\ ioIndex' = [ioIndex EXCEPT ![t] = @ + 1]
    /\ UNCHANGED <<pcMain, state, unstarted, pcTask, systems>>

\* Mutation of LoopEnds: the next loop goes on where this one has ended.
LoopEndsAtEnd(t, from, to) ==
    /\ Alive
    /\ pcTask[t] = from /\ Goto(t, to)
    /\ ioIndex[t] > systems[t]
    /\ UNCHANGED <<pcMain, state, unstarted, systems, ioIndex, io>>

\* .. and its end, which "to" follows.
LoopEnds(t, from, to) ==
    /\ Alive
    /\ pcTask[t] = from /\ Goto(t, to)
    /\ ioIndex[t] > systems[t]
    /\ ioIndex' = [ioIndex EXCEPT ![t] = 1]
    /\ UNCHANGED <<pcMain, state, unstarted, systems, io>>

Become(t, status) == io' = [io EXCEPT ![t][ioIndex[t]] = status]

InitIO(t) ==
    \/ Turn(t, "init") /\ Become(t, "open")
    \/ LoopEnds(t, "init", "init_programs")

InitPrograms(t) ==
    /\ Alive
    /\ pcTask[t] = "init_programs" /\ Goto(t, "check")
    /\ UNCHANGED <<pcMain, state, unstarted, systems, ioIndex, io>>

\* Mutation of Check: anything but STOPPED means that the task goes on.
CheckNotStopped(t) ==
    /\ Alive
    /\ pcTask[t] = "check"
    /\ Goto(t, IF state # "STOPPED" THEN "before" ELSE "shutdown")
    /\ UNCHANGED <<pcMain, state, unstarted, systems, ioIndex, io>>

\* while (*state == RUNNING)
Check(t) ==
    /\ Alive
    /\ pcTask[t] = "check"
    /\ Goto(t, IF state = "RUNNING" THEN "before" ELSE "shutdown")
    /\ UNCHANGED <<pcMain, state, unstarted, systems, ioIndex, io>>

Before(t) ==
    \/ Turn(t, "before") /\ UNCHANGED io
    \/ LoopEnds(t, "before", "execute")

ExecutePrograms(t) ==
    /\ Alive
    /\ pcTask[t] = "execute" /\ Goto(t, "after")
    /\ UNCHANGED <<pcMain, state, unstarted, systems, ioIndex, io>>

\* The loop sleeps afterwards and polls the flag again.
After(t) ==
    \/ Turn(t, "after") /\ UNCHANGED io
    \/ LoopEnds(t, "after", "check")

Shutdown(t) ==
    \/ Turn(t, "shutdown") /\ Become(t, "closed")
    \/ LoopEnds(t, "shutdown", "done")

\* An exception leaves the thread: std::terminate.
Throw(t) ==
    /\ Alive
    /\ pcTask[t] \in {"init", "init_programs", "before", "execute", "after", "shutdown"}
    /\ pcMain' = "terminated"
    /\ UNCHANGED <<state, unstarted, pcTask, systems, ioIndex, io>>

-----------------------------------------------------------------------------

Main == Configure \/ SetRunning \/ (\E t \in Task : Spawn(t)) \/ Join \/ SetStopped

TaskFun(t) ==
    \/ InitIO(t) \/ InitPrograms(t) \/ Check(t)
    \/ Before(t) \/ ExecutePrograms(t) \/ After(t)
    \/ Shutdown(t)

Next ==
    \/ Main
    \/ Signal
    \/ \E t \in Task : TaskFun(t) \/ Throw(t)

Spec == Init /\ [][Next]_vars

\* Every thread is scheduled and every call of an IO system returns; nothing
\* obliges anybody to send a signal, or a call to throw.
FairSpec == Spec /\ WF_vars(Main) /\ \A t \in Task : WF_vars(TaskFun(t))

-----------------------------------------------------------------------------
(* Properties *)

\* A task's cycle only touches IO systems that are open, all of them: none is
\* used before its init or after its shutdown, by whichever way the stop request
\* and the start of the threads interleave.
CyclesOnOpenIO ==
    \A t \in Task : pcTask[t] \in {"check", "before", "execute", "after"} =>
        \A s \in SystemsOf(t) : io[t][s] = "open"

\* wait() returns, and the IO systems are destroyed, only after every task has
\* shut every one of its IO systems down.  A program ended by an exception does
\* not get there.
NoIOLeftOpen ==
    pcMain \in {"set_stopped", "exited"} =>
        \A t \in Task, s \in System : io[t][s] # "open"

\* A stop request that arrives once start() has stored RUNNING, also while
\* threads are still being created, ends the program.
StopHonoured ==
    (state = "STOPPING" /\ pcMain \in {"spawn", "join"})
        ~> pcMain \in {"exited", "terminated"}

-----------------------------------------------------------------------------
(* The inductive invariant from which Plc_proofs derives the safety           *)
(* properties.                                                                *)

\* The systems of a task are opened and closed in order, each loop of the
\* composite starts with the first one, and between two loops all are alike.
LifeCycle(t) ==
    /\ pcTask[t] \in {"none", "init_programs", "check", "execute"} => ioIndex[t] = 1
    /\ \A s \in System \ SystemsOf(t) : io[t][s] = "new"
    /\ pcTask[t] = "none" => \A s \in System : io[t][s] = "new"
    /\ pcTask[t] = "init" => \A s \in SystemsOf(t) : s < ioIndex[t] => io[t][s] = "open"
    /\ pcTask[t] \in {"init_programs", "check", "before", "execute", "after"} =>
          \A s \in SystemsOf(t) : io[t][s] = "open"
    /\ pcTask[t] = "shutdown" => \A s \in SystemsOf(t) : s < ioIndex[t] => io[t][s] = "closed"
    /\ pcTask[t] = "done" => \A s \in SystemsOf(t) : io[t][s] = "closed"

\* No thread runs before start() or after wait().
ThreadsWithinMain ==
    /\ pcMain \in {"configure", "set_running"} => \A t \in Task : pcTask[t] = "none"
    /\ pcMain = "spawn" => \A t \in unstarted : pcTask[t] = "none"
    /\ pcMain \in {"set_stopped", "exited"} =>
          \A t \in Task : pcTask[t] \in {"none", "done"}

IInv ==
    /\ TypeOK
    /\ \A t \in Task : LifeCycle(t)
    /\ ThreadsWithinMain
=============================================================================
