----------------------------- MODULE Plc_proofs -----------------------------
(***************************************************************************)
(* The safety properties of Scheduler, for any tasks with any number of IO *)
(* systems, that the program with a configuration implements it, and those *)
(* of Configuration: for any set of files of any size, which are accepted  *)
(* and what is built of them.                                              *)
(***************************************************************************)
EXTENDS Plc, SequenceTheorems, WellFoundedInduction, TLAPS

\* Before main there are no threads and no open IO systems.
LEMMA InitIInv == Init => IInv
<1> SUFFICES ASSUME Init PROVE IInv
  OBVIOUS
<1>1. TypeOK
  BY SystemsAssumption DEF Init, TypeOK
<1>2. ASSUME NEW t \in Task
      PROVE  LifeCycle(t)
  BY DEF Init, LifeCycle
<1>3. ThreadsWithinMain
  BY DEF Init, ThreadsWithinMain
<1> QED BY <1>1, <1>2, <1>3 DEF IInv

\* The configuration says how many IO systems a task has before there is a thread.
LEMMA ConfigureIInv ==
    ASSUME IInv, Configure
    PROVE  IInv'
<1>1. UNCHANGED <<state, pcTask, ioIndex, io>>
  BY DEF Configure
<1>2. \A t \in Task : /\ pcTask[t] = "none" /\ ioIndex[t] = 1
                      /\ \A s \in System : io[t][s] = "new"
  BY DEF IInv, ThreadsWithinMain, LifeCycle, Configure
<1>3. /\ pcMain' \in {"set_running", "exited", "terminated"}
      /\ unstarted' \in SUBSET Task /\ systems' \in [Task -> 0 .. MaxSystems]
  BY DEF IInv, TypeOK, Configure
<1>4. TypeOK'
  <2>1. \A t \in Task : ioIndex'[t] <= systems'[t] + 1
    BY <1>1, <1>2, <1>3, SystemsAssumption
  <2> QED BY <1>1, <1>3, <2>1 DEF IInv, TypeOK
<1>5. ASSUME NEW t \in Task
      PROVE  LifeCycle(t)'
  BY <1>1, <1>2 DEF LifeCycle
<1>6. ThreadsWithinMain'
  BY <1>1, <1>2, <1>3 DEF ThreadsWithinMain
<1> QED BY <1>4, <1>5, <1>6 DEF IInv

\* A step of main other than Configure and Spawn moves no thread.
LEMMA MainIInv ==
    ASSUME IInv, SetRunning \/ Join \/ SetStopped \/ Signal
    PROVE  IInv'
<1> USE DEF SetRunning, Join, SetStopped, Signal
<1>1. UNCHANGED <<unstarted, pcTask, systems, ioIndex, io>>
  OBVIOUS
<1>2. TypeOK'
  BY DEF IInv, TypeOK
<1>3. ASSUME NEW t \in Task
      PROVE  LifeCycle(t)'
  BY <1>1 DEF IInv, LifeCycle, SystemsOf
<1>4. ThreadsWithinMain'
  BY DEF IInv, TypeOK, ThreadsWithinMain
<1> QED BY <1>2, <1>3, <1>4 DEF IInv

\* A new thread starts with the first IO system.
LEMMA SpawnIInv ==
    ASSUME IInv, NEW t \in Task, Spawn(t)
    PROVE  IInv'
<1>1. TypeOK'
  BY DEF IInv, TypeOK, Spawn
<1>2. ASSUME NEW u \in Task
      PROVE  LifeCycle(u)'
  <2>1. pcTask[t] = "none" /\ UNCHANGED <<systems, ioIndex, io>>
    BY DEF IInv, ThreadsWithinMain, Spawn
  <2>2. CASE u = t
    <3>1. pcTask'[t] = "init" /\ ioIndex[t] = 1
      BY <2>1 DEF IInv, TypeOK, LifeCycle, Spawn
    <3>2. \A s \in System : ~(s < ioIndex[t])
      BY <3>1, SystemsAssumption DEF System
    <3> QED BY <2>1, <2>2, <3>1, <3>2 DEF IInv, LifeCycle, SystemsOf
  <2>3. CASE u # t
    <3>1. pcTask'[u] = pcTask[u]
      BY <2>3 DEF IInv, TypeOK, Spawn
    <3> QED BY <2>1, <3>1 DEF IInv, LifeCycle, SystemsOf
  <2> QED BY <2>2, <2>3
<1>3. ThreadsWithinMain'
  <2>1. \A u \in unstarted' : pcTask'[u] = "none"
    BY DEF IInv, TypeOK, ThreadsWithinMain, Spawn
  <2> QED BY <2>1 DEF ThreadsWithinMain, Spawn
<1> QED BY <1>1, <1>2, <1>3 DEF IInv

\* What a step of one thread has to preserve, the other threads being left alone.
LEMMA ThreadIInv ==
    ASSUME IInv, NEW t \in Task, Alive,
           UNCHANGED <<pcMain, state, unstarted, systems>>,
           pcTask[t] \notin {"none", "done"},
           TypeOK',
           LifeCycle(t)',
           \A u \in Task \ {t} : /\ pcTask'[u] = pcTask[u]
                                 /\ ioIndex'[u] = ioIndex[u]
                                 /\ io'[u] = io[u]
    PROVE  IInv'
<1>1. ASSUME NEW u \in Task
      PROVE  LifeCycle(u)'
  BY DEF IInv, LifeCycle, SystemsOf
<1>2. ThreadsWithinMain'
  <2>1. pcMain \notin {"configure", "set_running", "set_stopped", "exited"}
    BY DEF IInv, ThreadsWithinMain
  <2>2. pcMain = "spawn" => t \notin unstarted
    BY DEF IInv, ThreadsWithinMain
  <2>3. pcMain = "spawn" => \A u \in unstarted : pcTask'[u] = "none"
    BY <2>2 DEF IInv, TypeOK, ThreadsWithinMain
  <2> QED BY <2>1, <2>3 DEF ThreadsWithinMain
<1> QED BY <1>1, <1>2 DEF IInv

\* One turn of a loop of the composite.
LEMMA TurnEffect ==
    ASSUME IInv, NEW t \in Task, NEW from, Turn(t, from)
    PROVE  /\ Alive /\ UNCHANGED <<pcMain, state, unstarted, pcTask, systems>>
           /\ pcTask[t] = from
           /\ ioIndex[t] \in SystemsOf(t)
           /\ ioIndex' \in [Task -> 1 .. MaxSystems + 1]
           /\ \A u \in Task : ioIndex'[u] <= systems[u] + 1
           /\ \A u \in Task \ {t} : ioIndex'[u] = ioIndex[u]
           /\ ioIndex'[t] = ioIndex[t] + 1
<1>1. /\ ioIndex \in [Task -> 1 .. MaxSystems + 1]
      /\ systems \in [Task -> 0 .. MaxSystems]
      /\ \A u \in Task : ioIndex[u] <= systems[u] + 1
  BY DEF IInv, TypeOK
<1>2. ioIndex[t] <= systems[t] /\ ioIndex' = [ioIndex EXCEPT ![t] = ioIndex[t] + 1]
  BY DEF Turn
<1>3. ioIndex[t] \in SystemsOf(t) /\ ioIndex[t] + 1 \in 1 .. MaxSystems + 1
  BY <1>1, <1>2, SystemsAssumption DEF SystemsOf, System
<1>4. ioIndex[t] + 1 <= systems[t] + 1
  BY <1>1, <1>2
<1> QED BY <1>1, <1>2, <1>3, <1>4 DEF Turn

\* The end of a loop.
LEMMA EndEffect ==
    ASSUME IInv, NEW t \in Task, NEW from, NEW to,
           to \in {"init_programs", "execute", "check", "done"},
           LoopEnds(t, from, to)
    PROVE  /\ Alive /\ UNCHANGED <<pcMain, state, unstarted, systems, io>>
           /\ pcTask[t] = from
           /\ \A s \in SystemsOf(t) : s < ioIndex[t]
           /\ TypeOK'
           /\ \A u \in Task \ {t} : pcTask'[u] = pcTask[u] /\ ioIndex'[u] = ioIndex[u]
           /\ pcTask'[t] = to /\ ioIndex'[t] = 1
<1>1. /\ ioIndex \in [Task -> 1 .. MaxSystems + 1]
      /\ systems \in [Task -> 0 .. MaxSystems]
      /\ \A u \in Task : ioIndex[u] <= systems[u] + 1
  BY DEF IInv, TypeOK
<1>2. /\ pcTask' = [pcTask EXCEPT ![t] = to]
      /\ ioIndex' = [ioIndex EXCEPT ![t] = 1]
      /\ ioIndex[t] > systems[t]
      /\ UNCHANGED <<pcMain, state, unstarted, systems, io>>
  BY DEF LoopEnds, Goto
<1>3. \A s \in SystemsOf(t) : s < ioIndex[t]
  BY <1>1, <1>2, SystemsAssumption DEF SystemsOf, System
<1>4. /\ ioIndex' \in [Task -> 1 .. MaxSystems + 1]
      /\ \A u \in Task : ioIndex'[u] <= systems'[u] + 1
  BY <1>1, <1>2, SystemsAssumption
<1>5. pcTask' \in [Task -> {"none", "init", "init_programs", "check", "before",
                           "execute", "after", "shutdown", "done"}]
  BY <1>2 DEF IInv, TypeOK
<1>6. TypeOK'
  BY <1>2, <1>4, <1>5 DEF IInv, TypeOK
<1> QED BY <1>1, <1>2, <1>3, <1>6 DEF LoopEnds, IInv, TypeOK

\* A turn of init or of shutdown changes one IO system.
LEMMA BecomeEffect ==
    ASSUME IInv, NEW t \in Task, ioIndex[t] \in SystemsOf(t),
           NEW status \in {"open", "closed"}, Become(t, status)
    PROVE  /\ io' \in [Task -> [System -> {"new", "open", "closed"}]]
           /\ \A u \in Task \ {t} : io'[u] = io[u]
           /\ \A s \in System : io'[t][s] = IF s = ioIndex[t] THEN status ELSE io[t][s]
<1>1. io \in [Task -> [System -> {"new", "open", "closed"}]] /\ ioIndex[t] \in System
  BY DEF IInv, TypeOK, SystemsOf
<1> QED BY <1>1 DEF Become

\* Opening one system after the other.
LEMMA InitIOIInv ==
    ASSUME IInv, NEW t \in Task, InitIO(t)
    PROVE  IInv'
<1>1. CASE Turn(t, "init") /\ Become(t, "open")
  <2>1. /\ io' \in [Task -> [System -> {"new", "open", "closed"}]]
        /\ \A u \in Task \ {t} : io'[u] = io[u]
        /\ \A s \in System : io'[t][s] = IF s = ioIndex[t] THEN "open" ELSE io[t][s]
    BY <1>1, TurnEffect, BecomeEffect
  <2>2. TypeOK'
    BY <1>1, <2>1, TurnEffect DEF IInv, TypeOK
  <2>3. \A s \in SystemsOf(t) : s < ioIndex[t] + 1 => s < ioIndex[t] \/ s = ioIndex[t]
    BY SystemsAssumption DEF SystemsOf, System, IInv, TypeOK
  <2>4. LifeCycle(t)'
    BY <1>1, <2>1, <2>3, TurnEffect DEF IInv, LifeCycle, SystemsOf
  <2> QED BY <1>1, <2>1, <2>2, <2>4, TurnEffect, ThreadIInv
<1>2. CASE LoopEnds(t, "init", "init_programs")
  <2>1. LifeCycle(t)'
    BY <1>2, EndEffect DEF IInv, LifeCycle, SystemsOf
  <2> QED BY <1>2, <2>1, EndEffect, ThreadIInv
<1> QED BY <1>1, <1>2 DEF InitIO

\* Closing one system after the other.
LEMMA ShutdownIInv ==
    ASSUME IInv, NEW t \in Task, Shutdown(t)
    PROVE  IInv'
<1>1. CASE Turn(t, "shutdown") /\ Become(t, "closed")
  <2>1. /\ io' \in [Task -> [System -> {"new", "open", "closed"}]]
        /\ \A u \in Task \ {t} : io'[u] = io[u]
        /\ \A s \in System : io'[t][s] = IF s = ioIndex[t] THEN "closed" ELSE io[t][s]
    BY <1>1, TurnEffect, BecomeEffect
  <2>2. TypeOK'
    BY <1>1, <2>1, TurnEffect DEF IInv, TypeOK
  <2>3. \A s \in SystemsOf(t) : s < ioIndex[t] + 1 => s < ioIndex[t] \/ s = ioIndex[t]
    BY SystemsAssumption DEF SystemsOf, System, IInv, TypeOK
  <2>4. LifeCycle(t)'
    BY <1>1, <2>1, <2>3, TurnEffect DEF IInv, LifeCycle, SystemsOf
  <2> QED BY <1>1, <2>1, <2>2, <2>4, TurnEffect, ThreadIInv
<1>2. CASE LoopEnds(t, "shutdown", "done")
  <2>1. LifeCycle(t)'
    BY <1>2, EndEffect DEF IInv, LifeCycle, SystemsOf
  <2> QED BY <1>2, <2>1, EndEffect, ThreadIInv
<1> QED BY <1>1, <1>2 DEF Shutdown

\* The loops that read the inputs and write the outputs open and close nothing.
LEMMA InputOutputIInv ==
    ASSUME IInv, NEW t \in Task, Before(t) \/ After(t)
    PROVE  IInv'
<1>1. CASE \E from \in {"before", "after"} : Turn(t, from) /\ UNCHANGED io
  <2>1. TypeOK'
    BY <1>1, TurnEffect DEF IInv, TypeOK
  <2>2. LifeCycle(t)'
    BY <1>1, TurnEffect DEF IInv, LifeCycle, SystemsOf
  <2> QED BY <1>1, <2>1, <2>2, TurnEffect, ThreadIInv
<1>2. CASE \E from \in {"before", "after"}, to \in {"execute", "check"} : LoopEnds(t, from, to)
  <2>1. LifeCycle(t)'
    BY <1>2, EndEffect DEF IInv, LifeCycle, SystemsOf
  <2> QED BY <1>2, <2>1, EndEffect, ThreadIInv
<1> QED BY <1>1, <1>2 DEF Before, After

\* The steps between the loops open and close nothing either.
LEMMA BetweenLoopsIInv ==
    ASSUME IInv, NEW t \in Task, InitPrograms(t) \/ Check(t) \/ ExecutePrograms(t)
    PROVE  IInv'
<1>1. /\ Alive /\ UNCHANGED <<pcMain, state, unstarted, systems, ioIndex, io>>
      /\ pcTask[t] \in {"init_programs", "check", "execute"}
      /\ \E to \in {"check", "before", "shutdown", "after"} : Goto(t, to)
  BY DEF InitPrograms, Check, ExecutePrograms
<1>2. PICK to \in {"check", "before", "shutdown", "after"} :
         pcTask' = [pcTask EXCEPT ![t] = to]
  BY <1>1 DEF Goto
<1>3. TypeOK'
  BY <1>1, <1>2 DEF IInv, TypeOK
<1>4. /\ pcTask'[t] = to /\ ioIndex[t] = 1
      /\ \A s \in SystemsOf(t) : io[t][s] = "open"
      /\ \A u \in Task \ {t} : pcTask'[u] = pcTask[u]
  BY <1>1, <1>2 DEF IInv, TypeOK, LifeCycle
<1>5. \A s \in System : ~(s < 1)
  BY SystemsAssumption DEF System
<1>6. LifeCycle(t)'
  BY <1>1, <1>4, <1>5 DEF IInv, LifeCycle, SystemsOf
<1> QED BY <1>1, <1>3, <1>4, <1>6, ThreadIInv

\* An exception freezes the program where it is.
LEMMA ThrowIInv ==
    ASSUME IInv, NEW t \in Task, Throw(t)
    PROVE  IInv'
<1>1. UNCHANGED <<unstarted, pcTask, systems, ioIndex, io>> /\ pcMain' = "terminated"
  BY DEF Throw
<1>2. TypeOK'
  BY DEF IInv, TypeOK, Throw
<1>3. ASSUME NEW u \in Task
      PROVE  LifeCycle(u)'
  BY <1>1 DEF IInv, LifeCycle, SystemsOf
<1>4. ThreadsWithinMain'
  BY <1>1 DEF ThreadsWithinMain
<1> QED BY <1>2, <1>3, <1>4 DEF IInv

LEMMA NextIInv == IInv /\ [Next]_vars => IInv'
<1> SUFFICES ASSUME IInv, [Next]_vars PROVE IInv'
  OBVIOUS
<1>1. CASE Main \/ Signal
  BY <1>1, ConfigureIInv, MainIInv, SpawnIInv DEF Main
<1>2. ASSUME NEW t \in Task, TaskFun(t)
      PROVE  IInv'
  BY <1>2, InitIOIInv, ShutdownIInv, InputOutputIInv, BetweenLoopsIInv DEF TaskFun
<1>3. ASSUME NEW t \in Task, Throw(t)
      PROVE  IInv'
  BY <1>3, ThrowIInv
<1>4. CASE UNCHANGED vars
  <2>1. UNCHANGED <<pcMain, state, unstarted, pcTask, systems, ioIndex, io>>
    BY <1>4 DEF vars
  <2>2. TypeOK' /\ ThreadsWithinMain'
    BY <2>1 DEF IInv, TypeOK, ThreadsWithinMain
  <2>3. \A t \in Task : LifeCycle(t)'
    BY <2>1 DEF IInv, LifeCycle, SystemsOf
  <2> QED BY <2>2, <2>3 DEF IInv
<1> QED BY <1>1, <1>2, <1>3, <1>4 DEF Next

\* Type correctness, the life cycle of the IO systems and of the threads.
THEOREM Invariance == Spec => []IInv
BY InitIInv, NextIInv, PTL DEF Spec

\* However a stop request meets the start of the threads, no task's cycle touches
\* an IO system before its init or after its shutdown.
THEOREM CyclesTouchOpenIO == Spec => []CyclesOnOpenIO
<1>1. IInv => CyclesOnOpenIO
  BY DEF IInv, LifeCycle, CyclesOnOpenIO
<1> QED BY Invariance, <1>1, PTL

\* A program that returns from wait() has shut down every IO system it opened.
THEOREM IOClosedAtExit == Spec => []NoIOLeftOpen
<1>1. IInv => NoIOLeftOpen
  BY DEF IInv, LifeCycle, ThreadsWithinMain, NoIOLeftOpen, SystemsOf
<1> QED BY Invariance, <1>1, PTL
-----------------------------------------------------------------------------
(* The program with a configuration implements the scheduler. *)

\* A sequence of n elements of whatever kind.
ListOf(s, n) == Len(s) = n /\ \E S : s \in Seq(S)

LEMMA AppendList ==
    ASSUME NEW s, NEW n \in Nat, ListOf(s, n), NEW e
    PROVE  /\ ListOf(Append(s, e), n + 1)
           /\ Append(s, e)[n + 1] = e
           /\ \A i \in 1 .. n : Append(s, e)[i] = s[i]
<1>1. PICK S : s \in Seq(S)
  BY DEF ListOf
<1>2. s \in Seq(S \cup {e})
  BY <1>1
<1>3. Append(s, e) \in Seq(S \cup {e}) /\ Len(Append(s, e)) = n + 1
  BY <1>2 DEF ListOf
<1>4. Append(s, e)[n + 1] = e /\ \A i \in 1 .. n : Append(s, e)[i] = s[i]
  BY <1>2 DEF ListOf
<1> QED BY <1>3, <1>4 DEF ListOf

LEMMA EmptyList == ListOf(<<>>, 0)
<1>1. <<>> \in Seq({})
  OBVIOUS
<1> QED BY <1>1 DEF ListOf

\* The composites and the lists of programs grow with the iterators.
Grown(nLogics, nPrograms) ==
    /\ ListOf(logics, nLogics)
    /\ ListOf(programs, nPrograms)
    /\ \A t \in 1 .. nLogics : \E k \in 0 .. MaxSystems : ListOf(logics[t], k)

WithinTask == task \in 1 .. Len(config.tasks)

FactoryInv ==
    /\ config \in Config
    /\ pcFactory = "task" => task \in 1 .. Len(config.tasks) + 1 /\ Grown(task - 1, task - 1)
    /\ pcFactory = "system" =>
          /\ WithinTask /\ Grown(task, task - 1)
          /\ system \in 1 .. Len(config.tasks[task].io) + 1
          /\ ListOf(logics[task], system - 1)
    /\ pcFactory = "component" =>
          /\ WithinTask /\ Grown(task, task - 1)
          /\ system \in 1 .. Len(config.tasks[task].io)
          /\ ListOf(logics[task], system - 1)
    /\ pcFactory = "program" => WithinTask /\ Grown(task, task)
    /\ pcFactory \in {"value", "configured"} => \E n \in 0 .. NTasks : Grown(n, n)

\* The lengths that a configuration has.
LEMMA ConfigLengths ==
    ASSUME config \in Config
    PROVE  /\ NTasks \in Nat /\ MaxSystems \in Nat
           /\ Len(config.tasks) \in 0 .. NTasks
           /\ WithinTask => Len(config.tasks[task].io) \in 0 .. MaxSystems
<1>1. /\ Factory!IsTree(config) /\ Len(config.tasks) <= NTasks
      /\ \A t \in 1 .. Len(config.tasks) : Len(config.tasks[t].io) <= MaxSystems
  BY ConfigAssumption
<1>2. Len(config.tasks) \in Nat /\ DOMAIN config.tasks = 1 .. Len(config.tasks)
  BY <1>1 DEF Factory!IsTree, Factory!IsList
<1>3. ASSUME WithinTask
      PROVE  Len(config.tasks[task].io) \in 0 .. MaxSystems
  <2>1. task \in DOMAIN config.tasks
    BY <1>2, <1>3 DEF WithinTask
  <2>2. Factory!IsTask(config.tasks[task])
    BY <1>1, <2>1 DEF Factory!IsTree, Factory!ToSet
  <2>3. Len(config.tasks[task].io) \in Nat
    BY <2>2 DEF Factory!IsTask, Factory!IsList
  <2> QED BY <1>1, <1>3, <2>3, SystemsAssumption DEF WithinTask
<1> QED BY <1>1, <1>2, <1>3, TaskAssumption, SystemsAssumption

LEMMA InitFactoryInv == PlcInit => FactoryInv
<1> SUFFICES ASSUME PlcInit PROVE FactoryInv
  OBVIOUS
<1>1. config \in Config /\ pcFactory = "task" /\ task = 1 /\ logics = <<>> /\ programs = <<>>
  BY DEF PlcInit, Factory!Init
<1>2. Grown(0, 0)
  BY <1>1, EmptyList DEF Grown
<1> QED BY <1>1, <1>2, ConfigLengths DEF FactoryInv

\* An exception.
LEMMA RaiseFactoryInv ==
    ASSUME FactoryInv, NEW fault, Factory!Raise(fault)
    PROVE  FactoryInv'
BY DEF FactoryInv, Factory!Raise

\* The steps that begin and end something.
LEMMA BeginTaskInv ==
    ASSUME FactoryInv, Factory!BeginTask
    PROVE  FactoryInv'
<1>1. /\ pcFactory = "task" /\ pcFactory' = "system"
      /\ logics' = Append(logics, <<>>)
      /\ system' = 1 /\ UNCHANGED <<config, task, programs>>
      /\ task <= Len(config.tasks)
  BY DEF Factory!BeginTask, Factory!Goto
<1>2. task \in 1 .. Len(config.tasks) + 1 /\ Grown(task - 1, task - 1) /\ config \in Config
  BY <1>1 DEF FactoryInv
<1>3. WithinTask /\ task - 1 \in Nat /\ Len(config.tasks[task].io) \in Nat
  BY <1>1, <1>2, ConfigLengths DEF WithinTask
<1>4. /\ ListOf(logics', task) /\ logics'[task] = <<>>
      /\ \A t \in 1 .. task - 1 : logics'[t] = logics[t]
  <2>1. PICK n \in Nat : n = task - 1
    BY <1>3
  <2>2. ListOf(logics, n)
    BY <1>2, <2>1 DEF Grown
  <2>3. PICK e : e = <<>>
    OBVIOUS
  <2>4. /\ ListOf(Append(logics, e), n + 1)
        /\ Append(logics, e)[n + 1] = e
        /\ \A t \in 1 .. n : Append(logics, e)[t] = logics[t]
    <3>1. ListOf(Append(logics, e), n + 1)
      BY <2>2, AppendList
    <3>2. PICK S : logics \in Seq(S) /\ Len(logics) = n
      BY <2>2 DEF ListOf
    <3>3. logics \in Seq(S \cup {e})
      BY <3>2
    <3>4. Append(logics, e)[n + 1] = e /\ \A t \in 1 .. n : Append(logics, e)[t] = logics[t]
      BY <3>2, <3>3
    <3> QED BY <3>1, <3>4
  <2>5. n + 1 = task
    BY <1>2, <1>3, <2>1, ConfigLengths
  <2> QED BY <1>1, <2>1, <2>3, <2>4, <2>5
<1>5. \A t \in 1 .. task : \E k \in 0 .. MaxSystems : ListOf(logics'[t], k)
  BY <1>2, <1>3, <1>4, EmptyList, ConfigLengths DEF Grown
<1>6. Grown(task, task - 1)'
  BY <1>1, <1>2, <1>4, <1>5 DEF Grown
<1>7. ListOf(logics'[task'], system' - 1)
  <2>1. task' = task /\ system' - 1 = 0
    BY <1>1
  <2>2. logics'[task'] = <<>>
    BY <1>4, <2>1
  <2> QED BY <2>1, <2>2, EmptyList
<1>8. WithinTask' /\ system' \in 1 .. Len(config'.tasks[task'].io) + 1
  BY <1>1, <1>3 DEF WithinTask
<1> QED BY <1>1, <1>2, <1>6, <1>7, <1>8 DEF FactoryInv

LEMMA BeginSystemInv ==
    ASSUME FactoryInv, Factory!BeginSystem
    PROVE  FactoryInv'
<1>1. CASE \E fault : Factory!Raise(fault)
  BY <1>1, RaiseFactoryInv
<1>2. CASE ~\E fault : Factory!Raise(fault)
  <2>1. /\ pcFactory = "system" /\ system <= Len(config.tasks[task].io)
        /\ pcFactory' = "component" /\ UNCHANGED <<config, task, system, logics, programs>>
    BY <1>2 DEF Factory!BeginSystem, Factory!Goto, Factory!ThisTask
  <2>2. WithinTask /\ Len(config.tasks[task].io) \in Nat
    BY <2>1, ConfigLengths DEF FactoryInv
  <2> QED BY <2>1, <2>2 DEF FactoryInv, WithinTask, Grown
<1> QED BY <1>1, <1>2

LEMMA AddComponentInv ==
    ASSUME FactoryInv, Factory!AddComponent
    PROVE  FactoryInv'
<1>1. CASE \E fault : Factory!Raise(fault)
  BY <1>1, RaiseFactoryInv
<1>2. CASE ~\E fault : Factory!Raise(fault)
  <2>1. /\ pcFactory = "component" /\ pcFactory' = "component"
        /\ UNCHANGED <<config, task, system, logics, programs>>
    BY <1>2 DEF Factory!AddComponent, Factory!Goto
  <2> QED BY <2>1 DEF FactoryInv, WithinTask, Grown
<1> QED BY <1>1, <1>2

LEMMA AddSystemInv ==
    ASSUME FactoryInv, Factory!AddSystem
    PROVE  FactoryInv'
<1> DEFINE logic == [type |-> Factory!ThisSystem.type, sequences |-> sequences]
<1>1. /\ pcFactory = "component" /\ pcFactory' = "system"
      /\ logics' = [logics EXCEPT ![task] = Append(logics[task], logic)]
      /\ system' = system + 1 /\ UNCHANGED <<config, task, programs>>
  BY DEF Factory!AddSystem, Factory!Goto
<1>2. /\ config \in Config /\ WithinTask /\ Grown(task, task - 1)
      /\ system \in 1 .. Len(config.tasks[task].io)
      /\ ListOf(logics[task], system - 1)
  BY <1>1 DEF FactoryInv
<1>3. Len(config.tasks[task].io) \in 0 .. MaxSystems /\ MaxSystems \in Nat /\ task \in Nat
  BY <1>2, ConfigLengths DEF WithinTask
<1>4. ListOf(Append(logics[task], logic), system)
  BY <1>2, <1>3, AppendList
<1>5. PICK S : logics \in Seq(S) /\ Len(logics) = task
  BY <1>2 DEF Grown, ListOf
<1>6. /\ logics' \in Seq(S \cup {Append(logics[task], logic)}) /\ Len(logics') = task
      /\ logics'[task] = Append(logics[task], logic)
      /\ \A t \in 1 .. task : t # task => logics'[t] = logics[t]
  <2> DEFINE e == Append(logics[task], logic)
             Q == S \cup {e}
  <2> HIDE DEF e
  <2>1. logics' = [logics EXCEPT ![task] = e]
    BY <1>1 DEF e
  <2>2. logics \in Seq(Q) /\ e \in Q /\ task \in 1 .. Len(logics)
    BY <1>2, <1>3, <1>5 DEF WithinTask
  <2> HIDE DEF Q
  <2>3. logics' \in Seq(Q) /\ Len(logics') = Len(logics) /\ logics'[task] = e
    BY <2>1, <2>2
  <2>4. \A t \in 1 .. task : t # task => logics'[t] = logics[t]
    BY <2>1, <2>2, <1>5
  <2> QED BY <1>5, <2>3, <2>4 DEF e, Q
<1>7. \A t \in 1 .. task : \E k \in 0 .. MaxSystems : ListOf(logics'[t], k)
  <2>1. system \in 0 .. MaxSystems
    BY <1>2, <1>3
  <2>2. ASSUME NEW t \in 1 .. task
        PROVE  \E k \in 0 .. MaxSystems : ListOf(logics'[t], k)
    <3>1. CASE t = task
      BY <1>4, <1>6, <2>1, <3>1
    <3>2. CASE t # task
      BY <1>2, <1>6, <3>2 DEF Grown
    <3> QED BY <3>1, <3>2
  <2> QED BY <2>2
<1>8. Grown(task, task - 1)'
  BY <1>1, <1>2, <1>6, <1>7 DEF Grown, ListOf
<1>9. /\ WithinTask' /\ system' \in 1 .. Len(config'.tasks[task'].io) + 1
      /\ ListOf(logics'[task'], system' - 1)
  BY <1>1, <1>2, <1>3, <1>4, <1>6 DEF WithinTask
<1> QED BY <1>1, <1>2, <1>8, <1>9 DEF FactoryInv

LEMMA InstallTaskInv ==
    ASSUME FactoryInv, Factory!InstallTask
    PROVE  FactoryInv'
<1>1. CASE \E fault : Factory!Raise(fault)
  BY <1>1, RaiseFactoryInv
<1>2. CASE ~\E fault : Factory!Raise(fault)
  <2>1. /\ pcFactory = "system" /\ pcFactory' = "program"
        /\ programs' = Append(programs, <<>>) /\ UNCHANGED <<config, task, logics>>
    BY <1>2 DEF Factory!InstallTask, Factory!Goto
  <2>2. config \in Config /\ WithinTask /\ Grown(task, task - 1)
    BY <2>1 DEF FactoryInv
  <2>3. ListOf(programs', task)
    <3>1. task - 1 \in Nat /\ (task - 1) + 1 = task
      BY <2>2, ConfigLengths DEF WithinTask
    <3> QED BY <2>1, <2>2, <3>1, AppendList DEF Grown
  <2> QED BY <2>1, <2>2, <2>3 DEF FactoryInv, WithinTask, Grown
<1> QED BY <1>1, <1>2

LEMMA AddProgramInv ==
    ASSUME FactoryInv, Factory!AddProgram
    PROVE  FactoryInv'
<1>1. CASE \E fault : Factory!Raise(fault)
  BY <1>1, RaiseFactoryInv
<1>2. CASE ~\E fault : Factory!Raise(fault)
  <2> DEFINE e == Append(programs[task], Factory!ThisTask.programs[item].type)
  <2>1. /\ pcFactory = "program" /\ pcFactory' = "program"
        /\ programs' = [programs EXCEPT ![task] = e]
        /\ UNCHANGED <<config, task, logics>>
    BY <1>2 DEF Factory!AddProgram, Factory!Goto
  <2>2. config \in Config /\ WithinTask /\ Grown(task, task)
    BY <2>1 DEF FactoryInv
  <2> HIDE DEF e
  <2>3. PICK S : programs \in Seq(S) /\ Len(programs) = task
    BY <2>2 DEF Grown, ListOf
  <2>4. programs' \in Seq(S \cup {e}) /\ Len(programs') = task
    <3> DEFINE Q == S \cup {e}
    <3>1. programs \in Seq(Q) /\ e \in Q /\ task \in 1 .. Len(programs)
      BY <2>2, <2>3, ConfigLengths DEF WithinTask
    <3> HIDE DEF Q
    <3>2. programs' \in Seq(Q) /\ Len(programs') = Len(programs)
      BY <2>1, <3>1
    <3> QED BY <2>3, <3>2 DEF Q
  <2>5. ListOf(programs', task)
    BY <2>4 DEF ListOf
  <2> QED BY <2>1, <2>2, <2>5 DEF FactoryInv, WithinTask, Grown
<1> QED BY <1>1, <1>2

LEMMA EndTaskInv ==
    ASSUME FactoryInv, Factory!EndTask \/ Factory!EndTasks
    PROVE  FactoryInv'
<1>1. CASE Factory!EndTask
  <2>1. /\ pcFactory = "program" /\ pcFactory' = "task" /\ task' = task + 1
        /\ UNCHANGED <<config, logics, programs>>
    BY <1>1 DEF Factory!EndTask, Factory!Goto, Factory!built
  <2>2. config \in Config /\ WithinTask /\ Grown(task, task)
    BY <2>1 DEF FactoryInv
  <2>3. task' \in 1 .. Len(config.tasks) + 1 /\ task' - 1 = task
    BY <2>1, <2>2, ConfigLengths DEF WithinTask
  <2> QED BY <2>1, <2>2, <2>3 DEF FactoryInv, Grown
<1>2. CASE Factory!EndTasks
  <2>1. /\ pcFactory = "task" /\ pcFactory' = "value" /\ task > Len(config.tasks)
        /\ UNCHANGED <<config, logics, programs>>
    BY <1>2 DEF Factory!EndTasks, Factory!Goto, Factory!built
  <2>2. /\ config \in Config /\ Grown(task - 1, task - 1)
        /\ task \in 1 .. Len(config.tasks) + 1
    BY <2>1 DEF FactoryInv
  <2>3. task - 1 \in 0 .. NTasks
    BY <2>1, <2>2, ConfigLengths
  <2> QED BY <2>1, <2>2, <2>3 DEF FactoryInv, Grown
<1> QED BY <1>1, <1>2

LEMMA ValuesInv ==
    ASSUME FactoryInv, Factory!SetValue \/ Factory!EndValues
    PROVE  FactoryInv'
<1>1. CASE \E fault : Factory!Raise(fault)
  BY <1>1, RaiseFactoryInv
<1>2. CASE ~\E fault : Factory!Raise(fault)
  <2>1. /\ pcFactory = "value" /\ pcFactory' \in {"value", "configured"}
        /\ UNCHANGED <<config, logics, programs>>
    BY <1>2 DEF Factory!SetValue, Factory!EndValues, Factory!Goto, Factory!built
  <2> QED BY <2>1 DEF FactoryInv, Grown
<1> QED BY <1>1, <1>2

LEMMA NextFactoryInv == FactoryInv /\ [PlcNext]_plcVars => FactoryInv'
<1> SUFFICES ASSUME FactoryInv, [PlcNext]_plcVars PROVE FactoryInv'
  OBVIOUS
<1>1. CASE Factory!Next
  BY <1>1, BeginTaskInv, BeginSystemInv, AddComponentInv, AddSystemInv, InstallTaskInv,
     AddProgramInv, EndTaskInv, ValuesInv DEF Factory!Next
<1>2. CASE UNCHANGED factoryVars
  BY <1>2 DEF FactoryInv, factoryVars, Grown, WithinTask
<1>3. Factory!Next \/ UNCHANGED factoryVars
  BY DEF PlcNext, FromFile, Reading, Configured, Refused, Scheduling, plcVars
<1> QED BY <1>1, <1>2, <1>3

\* The tasks and the numbers of IO systems that the factories come to are some that
\* Configure allows.
LEMMA ConfiguredIsConfigure ==
    ASSUME FactoryInv, Configured
    PROVE  Configure
<1>1. PICK n \in 0 .. NTasks : Grown(n, n)
  BY DEF FactoryInv, Configured
<1>2. Len(programs) = n /\ Len(logics) = n /\ NTasks \in Nat /\ Task = 1 .. NTasks
  BY <1>1, TaskAssumption DEF Grown, ListOf
<1>3. unstarted' \in SUBSET Task
  BY <1>2 DEF Configured
<1>4. ASSUME NEW t \in Task
      PROVE  (IF t <= Len(logics) THEN Len(logics[t]) ELSE 0) \in 0 .. MaxSystems
  <2>1. CASE t <= n
    <3>1. t \in 1 .. n
      BY <1>2, <2>1
    <3>2. PICK k \in 0 .. MaxSystems : ListOf(logics[t], k)
      BY <1>1, <3>1 DEF Grown
    <3> QED BY <1>2, <2>1, <3>2 DEF ListOf
  <2>2. CASE ~(t <= n)
    BY <1>2, <2>2, SystemsAssumption
  <2> QED BY <2>1, <2>2
<1>5. systems' \in [Task -> 0 .. MaxSystems]
  BY <1>4 DEF Configured
<1> QED BY <1>3, <1>5 DEF Configured, Configure

\* Whatever a configuration says, the program is one of the behaviours of Scheduler,
\* so that all that is proved of these holds of it.
THEOREM Refinement == PlcSpec => ImplementsScheduler
<1>1. PlcInit => Init
  BY DEF PlcInit
<1>2. FactoryInv /\ [PlcNext]_plcVars => [Next]_vars
  <2> SUFFICES ASSUME FactoryInv, [PlcNext]_plcVars PROVE [Next]_vars
    OBVIOUS
  <2>1. CASE Reading
    BY <2>1 DEF Reading
  <2>2. CASE Configured
    BY <2>2, ConfiguredIsConfigure DEF Next, Main
  <2>3. CASE Refused
    <3>1. Configure
      BY <2>3 DEF Refused, Configure
    <3> QED BY <3>1 DEF Next, Main
  <2>4. CASE Scheduling
    BY <2>4 DEF Scheduling, Next, Main
  <2>5. CASE UNCHANGED plcVars
    BY <2>5 DEF plcVars
  <2> QED BY <2>1, <2>2, <2>3, <2>4, <2>5 DEF PlcNext, FromFile
<1> QED BY <1>1, <1>2, InitFactoryInv, NextFactoryInv, PTL DEF PlcSpec, ImplementsScheduler, Spec

-----------------------------------------------------------------------------
(* The factories: what is before the cursor has been read. *)

\* The nodes of a configuration, list by list.
LEMMA Nodes ==
    ASSUME config \in Config
    PROVE  /\ Len(config.tasks) \in Nat /\ Factory!TaskList = 1 .. Len(config.tasks)
           /\ Len(config.values) \in Nat
           /\ DOMAIN config.values = 1 .. Len(config.values)
           /\ \A i \in DOMAIN config.values :
                 /\ config.values[i].fault \in Factory!Fault
                 /\ config.values[i].segment \in Factory!Segment
                 /\ config.values[i].value \in BOOLEAN
           /\ \A t \in Factory!TaskList : config.tasks[t].fault \in Factory!Fault
<1>1. Factory!IsTree(config)
  BY ConfigAssumption
<1>2. \A i \in DOMAIN config.values : config.values[i] \in Factory!ToSet(config.values)
  BY DEF Factory!ToSet
<1>3. \A t \in DOMAIN config.tasks : config.tasks[t] \in Factory!ToSet(config.tasks)
  BY DEF Factory!ToSet
<1> QED BY <1>1, <1>2, <1>3
           DEF Factory!IsTree, Factory!IsList, Factory!IsTask, Factory!TaskList

LEMMA NodesOfTask ==
    ASSUME config \in Config, NEW t \in Factory!TaskList
    PROVE  /\ Len(config.tasks[t].io) \in Nat
           /\ Factory!SystemList(t) = 1 .. Len(config.tasks[t].io)
           /\ Len(config.tasks[t].programs) \in Nat
           /\ Factory!ProgramList(t) = 1 .. Len(config.tasks[t].programs)
           /\ \A i \in Factory!ProgramList(t) :
                 config.tasks[t].programs[i].fault \in Factory!Fault
           /\ \A s \in Factory!SystemList(t) : config.tasks[t].io[s].fault \in Factory!Fault
<1>1. Factory!IsTask(config.tasks[t])
  BY ConfigAssumption DEF Factory!IsTree, Factory!ToSet, Factory!TaskList
<1> DEFINE node == config.tasks[t]
<1>2. \A i \in DOMAIN node.programs : node.programs[i] \in Factory!ToSet(node.programs)
  BY DEF Factory!ToSet
<1>3. \A s \in DOMAIN node.io : node.io[s] \in Factory!ToSet(node.io)
  BY DEF Factory!ToSet
<1> QED BY <1>1, <1>2, <1>3
           DEF Factory!IsTask, Factory!IsList, Factory!IsSystem, Factory!SystemList,
               Factory!ProgramList

LEMMA NodesOfSystem ==
    ASSUME config \in Config, NEW t \in Factory!TaskList, NEW s \in Factory!SystemList(t)
    PROVE  /\ Len(config.tasks[t].io[s].components) \in Nat
           /\ Factory!ComponentList(t, s) = 1 .. Len(config.tasks[t].io[s].components)
           /\ \A i \in Factory!ComponentList(t, s) :
                 Factory!IsComponent(config.tasks[t].io[s].components[i])
<1>1. Factory!IsTask(config.tasks[t])
  BY ConfigAssumption DEF Factory!IsTree, Factory!ToSet, Factory!TaskList
<1>2. Factory!IsSystem(config.tasks[t].io[s])
  BY <1>1 DEF Factory!IsTask, Factory!ToSet, Factory!SystemList
<1> DEFINE node == config.tasks[t].io[s]
<1>3. \A i \in DOMAIN node.components : node.components[i] \in Factory!ToSet(node.components)
  BY DEF Factory!ToSet
<1> QED BY <1>2, <1>3 DEF Factory!IsSystem, Factory!IsList, Factory!ComponentList

LEMMA InitCursor == PlcInit => Factory!CursorOK
BY Nodes DEF PlcInit, Factory!Init, Factory!CursorOK

\* What each step that goes on does to the cursor.
LEMMA NextCursor == Factory!CursorOK /\ Factory!Next => Factory!CursorOK'
<1> SUFFICES ASSUME Factory!CursorOK, Factory!Next PROVE Factory!CursorOK'
  OBVIOUS
<1> USE DEF Factory!CursorOK, Factory!ThisTask, Factory!ThisSystem
<1>1. config \in Config /\ Len(config.tasks) \in Nat /\ Factory!TaskList = 1 .. Len(config.tasks)
      /\ Len(config.values) \in Nat
  BY Nodes
<1>2. ASSUME NEW fault, Factory!Raise(fault)
      PROVE  Factory!CursorOK'
  BY <1>1, <1>2 DEF Factory!Raise
<1>3. CASE Factory!BeginTask
  <2>1. task \in Factory!TaskList
    BY <1>1, <1>3 DEF Factory!BeginTask
  <2>2. Len(config.tasks[task].io) \in Nat
    BY <1>1, <2>1, NodesOfTask
  <2> QED BY <1>1, <1>3, <2>1, <2>2 DEF Factory!BeginTask, Factory!Goto, Factory!TaskList
<1>4. CASE Factory!BeginSystem
  <2>1. CASE \E fault : Factory!Raise(fault)
    BY <1>2, <2>1
  <2>2. CASE ~\E fault : Factory!Raise(fault)
    <3>1. /\ pcFactory = "system" /\ system <= Len(config.tasks[task].io)
          /\ pcFactory' = "component" /\ item' = 1 /\ UNCHANGED <<config, task, system>>
      BY <1>4, <2>2 DEF Factory!BeginSystem, Factory!Goto
    <3>2. task \in Factory!TaskList /\ system \in Factory!SystemList(task)
      BY <1>1, <3>1, NodesOfTask
    <3>3. Len(config.tasks[task].io[system].components) \in Nat
      BY <1>1, <3>2, NodesOfSystem
    <3> QED BY <1>1, <3>1, <3>2, <3>3 DEF Factory!TaskList, Factory!SystemList
  <2> QED BY <2>1, <2>2
<1>5. CASE Factory!AddComponent
  <2>1. CASE \E fault : Factory!Raise(fault)
    BY <1>2, <2>1
  <2>2. CASE ~\E fault : Factory!Raise(fault)
    <3>1. /\ pcFactory = "component" /\ item <= Len(config.tasks[task].io[system].components)
          /\ pcFactory' = "component" /\ item' = item + 1
          /\ UNCHANGED <<config, task, system>>
      BY <1>5, <2>2 DEF Factory!AddComponent, Factory!Goto
    <3>2. task \in Factory!TaskList /\ system \in Factory!SystemList(task)
      BY <3>1
    <3>3. Len(config.tasks[task].io[system].components) \in Nat
      BY <1>1, <3>2, NodesOfSystem
    <3> QED BY <1>1, <3>1, <3>2, <3>3 DEF Factory!TaskList, Factory!SystemList
  <2> QED BY <2>1, <2>2
<1>6. CASE Factory!AddSystem
  <2>1. /\ pcFactory = "component" /\ pcFactory' = "system" /\ system' = system + 1
        /\ UNCHANGED <<config, task>>
    BY <1>6 DEF Factory!AddSystem, Factory!Goto
  <2>2. task \in Factory!TaskList /\ system \in 1 .. Len(config.tasks[task].io)
    BY <1>1, <2>1, NodesOfTask
  <2> QED BY <1>1, <2>1, <2>2, NodesOfTask DEF Factory!TaskList
<1>7. CASE Factory!InstallTask
  <2>1. CASE \E fault : Factory!Raise(fault)
    BY <1>2, <2>1
  <2>2. CASE ~\E fault : Factory!Raise(fault)
    <3>1. /\ pcFactory = "system" /\ pcFactory' = "program" /\ item' = 1
          /\ UNCHANGED <<config, task>>
      BY <1>7, <2>2 DEF Factory!InstallTask, Factory!Goto
    <3>2. task \in Factory!TaskList /\ Len(config.tasks[task].programs) \in Nat
      BY <1>1, <3>1, NodesOfTask
    <3> QED BY <1>1, <3>1, <3>2 DEF Factory!TaskList
  <2> QED BY <2>1, <2>2
<1>8. CASE Factory!AddProgram
  <2>1. CASE \E fault : Factory!Raise(fault)
    BY <1>2, <2>1
  <2>2. CASE ~\E fault : Factory!Raise(fault)
    <3>1. /\ pcFactory = "program" /\ pcFactory' = "program" /\ item' = item + 1
          /\ item <= Len(config.tasks[task].programs)
          /\ UNCHANGED <<config, task>>
      BY <1>8, <2>2 DEF Factory!AddProgram, Factory!Goto
    <3>2. task \in Factory!TaskList /\ Len(config.tasks[task].programs) \in Nat
      BY <1>1, <3>1, NodesOfTask
    <3> QED BY <1>1, <3>1, <3>2 DEF Factory!TaskList
  <2> QED BY <2>1, <2>2
<1>9. CASE Factory!EndTask
  BY <1>1, <1>9 DEF Factory!EndTask, Factory!Goto
<1>10. CASE Factory!EndTasks
  BY <1>1, <1>10 DEF Factory!EndTasks, Factory!Goto
<1>11. CASE Factory!SetValue
  <2>1. CASE \E fault : Factory!Raise(fault)
    BY <1>2, <2>1
  <2>2. CASE ~\E fault : Factory!Raise(fault)
    BY <1>1, <1>11, <2>2 DEF Factory!SetValue, Factory!Goto
  <2> QED BY <2>1, <2>2
<1>12. CASE Factory!EndValues
  BY <1>1, <1>12 DEF Factory!EndValues, Factory!Goto, Factory!cursor
<1> QED BY <1>3, <1>4, <1>5, <1>6, <1>7, <1>8, <1>9, <1>10, <1>11, <1>12 DEF Factory!Next

-----------------------------------------------------------------------------
(* A step either goes on or stops. *)

\* The nodes before which the cursor may stand.
TaskNode == config.tasks[task]
SystemNode == config.tasks[task].io[system]
ComponentNode == SystemNode.components[item]
ProgramNode == TaskNode.programs[item]
ValueNode == config.values[item]
KnownComponent(s, c) == <<s.type, c.direction, c.type>> \in Factory!Component

\* A step that goes on has found nothing wrong with what it reads.
LEMMA RaiseStops ==
    ASSUME NEW fault, Factory!Raise(fault)
    PROVE  ~Factory!Reading'
BY DEF Factory!Raise, Factory!Reading

LEMMA BeginTaskGoes ==
    ASSUME Factory!BeginTask, Factory!CursorOK
    PROVE  /\ pcFactory = "task" /\ pcFactory' = "system" /\ task \in Factory!TaskList
           /\ system' = 1 /\ logics' = Append(logics, <<>>)
           /\ UNCHANGED <<config, task, item, gv, sequences, programs>>
<1>1. task \in Factory!TaskList
  BY Nodes DEF Factory!BeginTask, Factory!CursorOK
<1> QED BY <1>1 DEF Factory!BeginTask, Factory!Goto

LEMMA BeginSystemGoes ==
    ASSUME Factory!BeginSystem, Factory!CursorOK, Factory!Reading'
    PROVE  /\ pcFactory = "system" /\ pcFactory' = "component"
           /\ task \in Factory!TaskList /\ system \in Factory!SystemList(task)
           /\ SystemNode.fault = "none" /\ SystemNode.type \in Factory!SystemType
           /\ item' = 1 /\ sequences' = Factory!Empty
           /\ UNCHANGED <<config, task, system, gv, logics, programs>>
<1>1. task \in Factory!TaskList /\ system \in Factory!SystemList(task)
  BY NodesOfTask
     DEF Factory!BeginSystem, Factory!CursorOK, Factory!ThisTask
<1> QED BY <1>1, RaiseStops
           DEF Factory!BeginSystem, Factory!Goto, Factory!ThisSystem, Factory!ThisTask, SystemNode

LEMMA AddComponentGoes ==
    ASSUME Factory!AddComponent, Factory!CursorOK, Factory!Reading'
    PROVE  /\ pcFactory = "component" /\ pcFactory' = "component"
           /\ task \in Factory!TaskList /\ system \in Factory!SystemList(task)
           /\ item \in Factory!ComponentList(task, system)
           /\ ComponentNode.fault = "none" /\ KnownComponent(SystemNode, ComponentNode)
           /\ Factory!CreateVariables(ComponentNode.direction, ComponentNode.pins)
           /\ Factory!InsertCopySequence(ComponentNode)
           /\ item' = item + 1
           /\ UNCHANGED <<config, task, system, logics, programs>>
<1>1. task \in Factory!TaskList /\ system \in Factory!SystemList(task)
  BY DEF Factory!AddComponent, Factory!CursorOK
<1>2. item \in Factory!ComponentList(task, system)
  <2>1. /\ Len(SystemNode.components) \in Nat
        /\ Factory!ComponentList(task, system) = 1 .. Len(SystemNode.components)
    BY <1>1, NodesOfSystem DEF Factory!CursorOK, SystemNode
  <2>2. /\ item \in 1 .. Len(SystemNode.components) + 1
        /\ item <= Len(SystemNode.components)
    BY DEF Factory!AddComponent, Factory!CursorOK, Factory!ThisSystem, Factory!ThisTask,
           SystemNode
  <2> QED BY <2>1, <2>2
<1> QED BY <1>1, <1>2, RaiseStops
           DEF Factory!AddComponent, Factory!Goto, Factory!ThisSystem, Factory!ThisTask,
               ComponentNode, SystemNode, KnownComponent

LEMMA AddSystemGoes ==
    ASSUME Factory!AddSystem, Factory!CursorOK
    PROVE  /\ pcFactory = "component" /\ pcFactory' = "system"
           /\ task \in Factory!TaskList /\ system \in Factory!SystemList(task)
           /\ item = Len(SystemNode.components) + 1
           /\ logics' = [logics EXCEPT ![task] =
                  Append(@, [type |-> SystemNode.type, sequences |-> sequences])]
           /\ system' = system + 1
           /\ UNCHANGED <<config, task, item, gv, sequences, programs>>
<1>1. task \in Factory!TaskList /\ system \in Factory!SystemList(task)
  BY DEF Factory!AddSystem, Factory!CursorOK
<1>2. item = Len(SystemNode.components) + 1
  <2>1. Len(SystemNode.components) \in Nat
    BY <1>1, NodesOfSystem DEF Factory!CursorOK, SystemNode
  <2>2. /\ item \in 1 .. Len(SystemNode.components) + 1
        /\ item > Len(SystemNode.components)
    BY DEF Factory!AddSystem, Factory!CursorOK, Factory!ThisSystem, Factory!ThisTask,
           SystemNode
  <2> QED BY <2>1, <2>2
<1> QED BY <1>1, <1>2
           DEF Factory!AddSystem, Factory!Goto, Factory!ThisSystem, Factory!ThisTask, SystemNode

LEMMA InstallTaskGoes ==
    ASSUME Factory!InstallTask, Factory!CursorOK, Factory!Reading'
    PROVE  /\ pcFactory = "system" /\ pcFactory' = "program"
           /\ task \in Factory!TaskList /\ system = Len(TaskNode.io) + 1
           /\ TaskNode.fault = "none"
           /\ programs' = Append(programs, <<>>) /\ item' = 1
           /\ UNCHANGED <<config, task, system, gv, sequences, logics>>
<1>1. task \in Factory!TaskList
  BY DEF Factory!InstallTask, Factory!CursorOK
<1>2. system = Len(TaskNode.io) + 1
  BY <1>1, NodesOfTask
     DEF Factory!InstallTask, Factory!CursorOK, Factory!ThisTask, TaskNode
<1> QED BY <1>1, <1>2, RaiseStops
           DEF Factory!InstallTask, Factory!Goto, Factory!ThisTask, TaskNode

LEMMA AddProgramGoes ==
    ASSUME Factory!AddProgram, Factory!CursorOK, Factory!Reading'
    PROVE  /\ pcFactory = "program" /\ pcFactory' = "program"
           /\ task \in Factory!TaskList /\ item \in Factory!ProgramList(task)
           /\ ProgramNode.fault = "none" /\ ProgramNode.type \in Factory!ProgramType
           /\ programs' = [programs EXCEPT ![task] = Append(@, ProgramNode.type)]
           /\ item' = item + 1
           /\ UNCHANGED <<config, task, system, gv, sequences, logics>>
<1>1. task \in Factory!TaskList
  BY DEF Factory!AddProgram, Factory!CursorOK
<1>2. item \in Factory!ProgramList(task)
  BY <1>1, NodesOfTask DEF Factory!AddProgram, Factory!CursorOK, Factory!ThisTask
<1> QED BY <1>1, <1>2, RaiseStops
           DEF Factory!AddProgram, Factory!Goto, Factory!ThisTask, TaskNode, ProgramNode

LEMMA EndTaskGoes ==
    ASSUME Factory!EndTask, Factory!CursorOK
    PROVE  /\ pcFactory = "program" /\ pcFactory' = "task"
           /\ task \in Factory!TaskList /\ item = Len(TaskNode.programs) + 1
           /\ task' = task + 1
           /\ UNCHANGED <<config, system, item, gv, sequences, logics, programs>>
<1>1. task \in Factory!TaskList
  BY DEF Factory!EndTask, Factory!CursorOK
<1>2. item = Len(TaskNode.programs) + 1
  BY <1>1, NodesOfTask DEF Factory!EndTask, Factory!CursorOK, Factory!ThisTask, TaskNode
<1> QED BY <1>1, <1>2 DEF Factory!EndTask, Factory!Goto, Factory!built

LEMMA EndTasksGoes ==
    ASSUME Factory!EndTasks, Factory!CursorOK
    PROVE  /\ pcFactory = "task" /\ pcFactory' = "value"
           /\ task = Len(config.tasks) + 1 /\ item' = 1
           /\ UNCHANGED <<config, task, system, gv, sequences, logics, programs>>
<1>1. task = Len(config.tasks) + 1
  BY Nodes DEF Factory!EndTasks, Factory!CursorOK
<1> QED BY <1>1 DEF Factory!EndTasks, Factory!Goto, Factory!built

LEMMA SetValueGoes ==
    ASSUME Factory!SetValue, Factory!CursorOK, Factory!Reading'
    PROVE  /\ pcFactory = "value" /\ pcFactory' = "value"
           /\ task = Len(config.tasks) + 1 /\ item \in DOMAIN config.values
           /\ ValueNode.fault = "none"
           /\ ValueNode.var \in DOMAIN gv[ValueNode.segment]
           /\ gv' = [gv EXCEPT ![ValueNode.segment][ValueNode.var] = ValueNode.value]
           /\ item' = item + 1
           /\ UNCHANGED <<config, task, system, sequences, logics, programs>>
<1>1. task = Len(config.tasks) + 1 /\ item \in DOMAIN config.values
  BY Nodes DEF Factory!SetValue, Factory!CursorOK
<1> QED BY <1>1, RaiseStops DEF Factory!SetValue, Factory!Goto, ValueNode

LEMMA EndValuesGoes ==
    ASSUME Factory!EndValues, Factory!CursorOK
    PROVE  /\ pcFactory = "value" /\ pcFactory' = "configured"
           /\ task = Len(config.tasks) + 1 /\ item = Len(config.values) + 1
           /\ UNCHANGED <<config, task, system, item, gv, sequences, logics, programs>>
<1>1. task = Len(config.tasks) + 1 /\ item = Len(config.values) + 1
  BY Nodes DEF Factory!EndValues, Factory!CursorOK
<1> QED BY <1>1 DEF Factory!EndValues, Factory!Goto, Factory!built, Factory!cursor

-----------------------------------------------------------------------------
(* What a step that goes on has read afterwards. *)

SameTasks == \A t \in Factory!TaskList : Factory!TaskRead(t)' <=> Factory!TaskRead(t)
SameSystems ==
    \A t \in Factory!TaskList : \A s \in Factory!SystemList(t) :
        Factory!SystemRead(t, s)' <=> Factory!SystemRead(t, s)
SameComponents ==
    \A t \in Factory!TaskList : \A s \in Factory!SystemList(t) :
        \A i \in Factory!ComponentList(t, s) :
            Factory!ComponentRead(t, s, i)' <=> Factory!ComponentRead(t, s, i)
SamePrograms ==
    \A t \in Factory!TaskList : \A i \in Factory!ProgramList(t) :
        Factory!ProgramRead(t, i)' <=> Factory!ProgramRead(t, i)
SameValues ==
    \A i \in DOMAIN config.values : Factory!ValueRead(i)' <=> Factory!ValueRead(i)

\* Steps between two nodes.
Between ==
    \/ Factory!BeginTask \/ Factory!AddSystem \/ Factory!EndTask
    \/ Factory!EndTasks \/ Factory!EndValues

LEMMA SameTasksStep ==
    ASSUME Factory!CursorOK, Factory!Reading',
           Between \/ Factory!BeginSystem \/ Factory!AddComponent \/ Factory!AddProgram
                   \/ Factory!SetValue
    PROVE  SameTasks
<1> SUFFICES ASSUME NEW t \in Factory!TaskList
             PROVE  Factory!TaskRead(t)' <=> Factory!TaskRead(t)
  BY DEF SameTasks
<1> USE DEF Factory!TaskRead
<1>1. t \in Nat /\ (Factory!TaskList = 1 .. Len(config.tasks)) /\ Len(config.tasks) \in Nat
  BY Nodes DEF Factory!CursorOK
<1>2. CASE Factory!BeginTask
  BY <1>1, <1>2, BeginTaskGoes
<1>3. CASE Factory!AddSystem
  BY <1>1, <1>3, AddSystemGoes
<1>4. CASE Factory!EndTask
  BY <1>1, <1>4, EndTaskGoes
<1>5. CASE Factory!EndTasks \/ Factory!EndValues
  BY <1>1, <1>5, EndTasksGoes, EndValuesGoes
<1>6. CASE Factory!BeginSystem
  BY <1>6, BeginSystemGoes
<1>7. CASE Factory!AddComponent
  BY <1>7, AddComponentGoes
<1>8. CASE Factory!AddProgram
  BY <1>8, AddProgramGoes
<1>9. CASE Factory!SetValue
  BY <1>9, SetValueGoes
<1> QED BY <1>2, <1>3, <1>4, <1>5, <1>6, <1>7, <1>8, <1>9 DEF Between

LEMMA SameSystemsStep ==
    ASSUME Factory!CursorOK, Factory!Reading',
           Between \/ Factory!InstallTask \/ Factory!AddComponent \/ Factory!AddProgram
                   \/ Factory!SetValue
    PROVE  SameSystems
<1> SUFFICES ASSUME NEW t \in Factory!TaskList, NEW s \in Factory!SystemList(t)
             PROVE  Factory!SystemRead(t, s)' <=> Factory!SystemRead(t, s)
  BY DEF SameSystems
<1> USE DEF Factory!TaskRead, Factory!SystemRead
<1>1. /\ t \in Nat /\ s \in Nat \ {0} /\ Len(config.tasks) \in Nat /\ t <= Len(config.tasks)
      /\ s <= Len(config.tasks[t].io) /\ Len(config.tasks[t].io) \in Nat
  BY Nodes, NodesOfTask DEF Factory!CursorOK
<1>2. CASE Factory!BeginTask
  BY <1>1, <1>2, BeginTaskGoes
<1>3. CASE Factory!AddSystem
  <2>1. system \in Nat
    BY <1>3, AddSystemGoes, NodesOfTask DEF Factory!CursorOK
  <2> QED BY <1>1, <1>3, <2>1, AddSystemGoes
<1>4. CASE Factory!EndTask
  <2>1. task \in Nat
    BY <1>4, EndTaskGoes, Nodes DEF Factory!CursorOK
  <2> QED BY <1>1, <1>4, <2>1, EndTaskGoes
<1>5. CASE Factory!EndTasks \/ Factory!EndValues
  BY <1>1, <1>5, EndTasksGoes, EndValuesGoes
<1>6. CASE Factory!InstallTask
  BY <1>1, <1>6, InstallTaskGoes DEF TaskNode
<1>7. CASE Factory!AddComponent
  BY <1>7, AddComponentGoes
<1>8. CASE Factory!AddProgram
  BY <1>8, AddProgramGoes
<1>9. CASE Factory!SetValue
  BY <1>9, SetValueGoes
<1> QED BY <1>2, <1>3, <1>4, <1>5, <1>6, <1>7, <1>8, <1>9 DEF Between

\* The components before the cursor of another system, or of another task, are read.
LEMMA SameComponentsStep ==
    ASSUME Factory!CursorOK, Factory!Reading',
           Between \/ Factory!BeginSystem \/ Factory!InstallTask \/ Factory!AddProgram
                   \/ Factory!SetValue
    PROVE  SameComponents
<1> SUFFICES ASSUME NEW t \in Factory!TaskList, NEW s \in Factory!SystemList(t),
                    NEW i \in Factory!ComponentList(t, s)
             PROVE  Factory!ComponentRead(t, s, i)' <=> Factory!ComponentRead(t, s, i)
  BY DEF SameComponents
<1>1. /\ t \in Nat /\ s \in Nat \ {0} /\ Len(config.tasks) \in Nat /\ t <= Len(config.tasks)
      /\ s <= Len(config.tasks[t].io) /\ Len(config.tasks[t].io) \in Nat
  BY Nodes, NodesOfTask DEF Factory!CursorOK
<1>2. /\ i \in Nat \ {0} /\ Len(config.tasks[t].io[s].components) \in Nat
      /\ i <= Len(config.tasks[t].io[s].components)
  <2>1. config \in Config
    BY DEF Factory!CursorOK
  <2>2. /\ Len(config.tasks[t].io[s].components) \in Nat
        /\ Factory!ComponentList(t, s) = 1 .. Len(config.tasks[t].io[s].components)
    BY <2>1, NodesOfSystem
  <2> QED BY <2>2
<1>3. CASE Factory!BeginTask \/ Factory!EndTask \/ Factory!EndTasks \/ Factory!EndValues
           \/ Factory!InstallTask \/ Factory!AddProgram \/ Factory!SetValue
  <2>1. Factory!SystemRead(t, s)' <=> Factory!SystemRead(t, s)
    BY <1>3, SameSystemsStep DEF SameSystems, Between
  <2>2. pcFactory # "component" /\ pcFactory' # "component"
    BY <1>3, BeginTaskGoes, EndTaskGoes, EndTasksGoes, EndValuesGoes, InstallTaskGoes,
       AddProgramGoes, SetValueGoes
  <2> QED BY <2>1, <2>2 DEF Factory!ComponentRead
<1>4. CASE Factory!AddSystem
  <2>1. Factory!SystemRead(t, s)' <=> Factory!SystemRead(t, s)
    BY <1>4, SameSystemsStep DEF SameSystems, Between
  <2>2. /\ pcFactory = "component" /\ pcFactory' = "system"
        /\ item = Len(config.tasks[task].io[system].components) + 1
    BY <1>4, AddSystemGoes DEF SystemNode
  <2> QED BY <1>2, <2>1, <2>2 DEF Factory!ComponentRead
<1>5. CASE Factory!BeginSystem
  <2>1. /\ pcFactory = "system" /\ pcFactory' = "component"
        /\ task' = task /\ system' = system /\ item' = 1
        /\ system \in Nat
    BY <1>5, BeginSystemGoes, NodesOfTask DEF Factory!CursorOK
  <2> QED BY <1>1, <1>2, <2>1
          DEF Factory!ComponentRead, Factory!SystemRead, Factory!TaskRead
<1> QED BY <1>3, <1>4, <1>5 DEF Between

LEMMA SameProgramsStep ==
    ASSUME Factory!CursorOK, Factory!Reading',
           Between \/ Factory!BeginSystem \/ Factory!AddComponent \/ Factory!InstallTask
                   \/ Factory!SetValue
    PROVE  SamePrograms
<1> SUFFICES ASSUME NEW t \in Factory!TaskList, NEW i \in Factory!ProgramList(t)
             PROVE  Factory!ProgramRead(t, i)' <=> Factory!ProgramRead(t, i)
  BY DEF SamePrograms
<1>1. /\ t \in Nat /\ Len(config.tasks) \in Nat /\ t <= Len(config.tasks)
      /\ i \in Nat \ {0} /\ Len(config.tasks[t].programs) \in Nat
      /\ i <= Len(config.tasks[t].programs)
  BY Nodes, NodesOfTask DEF Factory!CursorOK
<1> USE DEF Factory!TaskRead, Factory!ProgramRead
<1>2. CASE Factory!BeginTask
  BY <1>1, <1>2, BeginTaskGoes
<1>3. CASE Factory!AddSystem
  BY <1>1, <1>3, AddSystemGoes
<1>4. CASE Factory!EndTask
  <2>1. task \in Nat
    BY <1>4, EndTaskGoes, Nodes DEF Factory!CursorOK
  <2> QED BY <1>1, <1>4, <2>1, EndTaskGoes DEF TaskNode
<1>5. CASE Factory!EndTasks \/ Factory!EndValues
  BY <1>1, <1>5, EndTasksGoes, EndValuesGoes
<1>6. CASE Factory!InstallTask
  <2>1. task \in Nat
    BY <1>6, InstallTaskGoes, Nodes DEF Factory!CursorOK
  <2> QED BY <1>1, <1>6, <2>1, InstallTaskGoes
<1>7. CASE Factory!AddComponent
  <2>1. task \in Nat
    BY <1>7, AddComponentGoes, Nodes DEF Factory!CursorOK
  <2> QED BY <1>1, <1>7, <2>1, AddComponentGoes
<1>8. CASE Factory!BeginSystem
  <2>1. task \in Nat
    BY <1>8, BeginSystemGoes, Nodes DEF Factory!CursorOK
  <2> QED BY <1>1, <1>8, <2>1, BeginSystemGoes
<1>9. CASE Factory!SetValue
  BY <1>1, <1>9, SetValueGoes
<1> QED BY <1>2, <1>3, <1>4, <1>5, <1>6, <1>7, <1>8, <1>9 DEF Between

LEMMA SameValuesStep ==
    ASSUME Factory!CursorOK, Factory!Reading', Factory!Next, ~Factory!SetValue
    PROVE  SameValues
<1> SUFFICES ASSUME NEW i \in DOMAIN config.values
             PROVE  Factory!ValueRead(i)' <=> Factory!ValueRead(i)
  BY DEF SameValues
<1>1. i \in Nat \ {0} /\ Len(config.values) \in Nat /\ i <= Len(config.values)
  BY Nodes DEF Factory!CursorOK
<1>2. CASE Factory!EndTasks
  BY <1>1, <1>2, EndTasksGoes DEF Factory!ValueRead
<1>3. CASE Factory!EndValues
  BY <1>1, <1>3, EndValuesGoes DEF Factory!ValueRead
<1>4. CASE ~Factory!EndTasks /\ ~Factory!EndValues
  <2>1. pcFactory \notin {"value", "configured"} /\ pcFactory' \notin {"value", "configured"}
    BY <1>4, BeginTaskGoes, BeginSystemGoes, AddComponentGoes, AddSystemGoes, InstallTaskGoes,
       AddProgramGoes, EndTaskGoes DEF Factory!Next
  <2> QED BY <2>1 DEF Factory!ValueRead
<1> QED BY <1>2, <1>3, <1>4

\* What is read anew is the node at the cursor.
LEMMA BeginSystemReads ==
    ASSUME Factory!CursorOK, Factory!Reading', Factory!BeginSystem,
           NEW t \in Factory!TaskList, NEW s \in Factory!SystemList(t)
    PROVE  Factory!SystemRead(t, s)' <=> Factory!SystemRead(t, s) \/ (t = task /\ s = system)
<1>1. t \in Nat /\ s \in Nat
  BY Nodes, NodesOfTask DEF Factory!CursorOK
<1>2. task \in Nat /\ system \in Nat
  BY BeginSystemGoes, Nodes, NodesOfTask DEF Factory!CursorOK
<1> QED BY <1>1, <1>2, BeginSystemGoes DEF Factory!SystemRead, Factory!TaskRead

LEMMA AddComponentReads ==
    ASSUME Factory!CursorOK, Factory!Reading', Factory!AddComponent,
           NEW t \in Factory!TaskList, NEW s \in Factory!SystemList(t),
           NEW i \in Factory!ComponentList(t, s)
    PROVE  Factory!ComponentRead(t, s, i)'
              <=> Factory!ComponentRead(t, s, i) \/ (t = task /\ s = system /\ i = item)
<1>1. config \in Config
  BY DEF Factory!CursorOK
<1>2. t \in Nat /\ s \in Nat
  BY <1>1, Nodes, NodesOfTask
<1>3. i \in Nat
  <2>1. Factory!ComponentList(t, s) = 1 .. Len(config.tasks[t].io[s].components)
    BY <1>1, NodesOfSystem
  <2> QED BY <2>1
<1>4. task \in Nat /\ system \in Nat
  BY <1>1, AddComponentGoes, Nodes, NodesOfTask
<1>5. item \in Nat
  BY AddComponentGoes DEF Factory!CursorOK, Factory!AddComponent
<1> QED BY <1>2, <1>3, <1>4, <1>5, AddComponentGoes
           DEF Factory!ComponentRead, Factory!SystemRead, Factory!TaskRead

LEMMA InstallTaskReads ==
    ASSUME Factory!CursorOK, Factory!Reading', Factory!InstallTask,
           NEW t \in Factory!TaskList
    PROVE  Factory!TaskRead(t)' <=> Factory!TaskRead(t) \/ t = task
BY InstallTaskGoes DEF Factory!TaskRead

LEMMA AddProgramReads ==
    ASSUME Factory!CursorOK, Factory!Reading', Factory!AddProgram,
           NEW t \in Factory!TaskList, NEW i \in Factory!ProgramList(t)
    PROVE  Factory!ProgramRead(t, i)'
              <=> Factory!ProgramRead(t, i) \/ (t = task /\ i = item)
<1>1. config \in Config
  BY DEF Factory!CursorOK
<1>2. t \in Nat /\ i \in Nat
  BY <1>1, Nodes, NodesOfTask
<1>3. task \in Nat /\ item \in Nat
  BY <1>1, AddProgramGoes, Nodes, NodesOfTask
<1> QED BY <1>2, <1>3, AddProgramGoes DEF Factory!ProgramRead, Factory!TaskRead

LEMMA SetValueReads ==
    ASSUME Factory!CursorOK, Factory!Reading', Factory!SetValue,
           NEW i \in DOMAIN config.values
    PROVE  Factory!ValueRead(i)' <=> Factory!ValueRead(i) \/ i = item
<1>1. i \in Nat /\ item \in Nat
  BY SetValueGoes, Nodes DEF Factory!CursorOK
<1> QED BY <1>1, SetValueGoes DEF Factory!ValueRead

-----------------------------------------------------------------------------
(* RightSoFar *)

Right ==
    /\ Factory!TasksRight /\ Factory!SystemsRight /\ Factory!ComponentsRight
    /\ Factory!ProgramsRight /\ Factory!ValuesRight

RightComponent(node, i) ==
    /\ node.components[i].fault = "none"
    /\ <<node.type, node.components[i].direction, node.components[i].type>>
          \in Factory!Component

LEMMA ComponentsRightNext ==
    ASSUME UNCHANGED config,
           \A t \in Factory!TaskList : \A s \in Factory!SystemList(t) :
              \A i \in Factory!ComponentList(t, s) :
                 Factory!ComponentRead(t, s, i)' => RightComponent(config.tasks[t].io[s], i)
    PROVE  Factory!ComponentsRight'
<1>1. Factory!TaskList' = Factory!TaskList
  BY DEF Factory!TaskList
<1>2. \A t : Factory!SystemList(t)' = Factory!SystemList(t)
  BY DEF Factory!SystemList
<1>3. \A t, s : Factory!ComponentList(t, s)' = Factory!ComponentList(t, s)
  BY DEF Factory!ComponentList
<1> SUFFICES ASSUME NEW t \in Factory!TaskList', NEW s \in Factory!SystemList(t)',
                    NEW i \in Factory!ComponentList(t, s)',
                    Factory!ComponentRead(t, s, i)'
             PROVE  RightComponent(config'.tasks[t].io[s], i)
  BY DEF Factory!ComponentsRight, RightComponent
<1> QED BY <1>1, <1>2, <1>3

LEMMA SameRight ==
    ASSUME UNCHANGED config
    PROVE  /\ SameTasks /\ Factory!TasksRight => Factory!TasksRight'
           /\ SameSystems /\ Factory!SystemsRight => Factory!SystemsRight'
           /\ SameComponents /\ Factory!ComponentsRight => Factory!ComponentsRight'
           /\ SamePrograms /\ Factory!ProgramsRight => Factory!ProgramsRight'
           /\ SameValues /\ Factory!ValuesRight => Factory!ValuesRight'
<1>1. SameTasks /\ Factory!TasksRight => Factory!TasksRight'
  BY DEF SameTasks, Factory!TasksRight, Factory!TaskList
<1>2. SameSystems /\ Factory!SystemsRight => Factory!SystemsRight'
  BY DEF SameSystems, Factory!SystemsRight, Factory!TaskList, Factory!SystemList
<1>3. SameComponents /\ Factory!ComponentsRight => Factory!ComponentsRight'
  <2> SUFFICES ASSUME SameComponents, Factory!ComponentsRight,
                      NEW t \in Factory!TaskList, NEW s \in Factory!SystemList(t),
                      NEW i \in Factory!ComponentList(t, s),
                      Factory!ComponentRead(t, s, i)'
               PROVE  RightComponent(config.tasks[t].io[s], i)
    BY ComponentsRightNext
  <2> QED BY DEF SameComponents, Factory!ComponentsRight, RightComponent
<1>4. SamePrograms /\ Factory!ProgramsRight => Factory!ProgramsRight'
  BY DEF SamePrograms, Factory!ProgramsRight, Factory!TaskList, Factory!ProgramList
<1>5. SameValues /\ Factory!ValuesRight => Factory!ValuesRight'
  <2>1. ASSUME NEW segment PROVE Factory!Named(segment)' = Factory!Named(segment)
    BY DEF Factory!Named, Factory!VariablesOf, Factory!AllComponents, Factory!ComponentsOf,
           Factory!AllSystems
  <2> QED BY <2>1 DEF SameValues, Factory!ValuesRight
<1> QED BY <1>1, <1>2, <1>3, <1>4, <1>5

\* Once all the tasks are through, their components are all the components there are.
LEMMA AllRead ==
    ASSUME config \in Config, task = Len(config.tasks) + 1,
           pcFactory \in {"value", "configured"}
    PROVE  Factory!ComponentsRead = Factory!AllComponents
<1>1. ASSUME NEW c \in Factory!AllComponents
      PROVE  c \in Factory!ComponentsRead
  <2>1. PICK n \in Factory!AllSystems : c \in Factory!ToSet(n.components)
    BY DEF Factory!AllComponents, Factory!ComponentsOf
  <2>2. PICK k \in Factory!ToSet(config.tasks) : n \in Factory!ToSet(k.io)
    BY DEF Factory!AllSystems
  <2>3. PICK t \in Factory!TaskList : k = config.tasks[t]
    BY <2>2 DEF Factory!ToSet, Factory!TaskList
  <2>4. PICK s \in Factory!SystemList(t) : n = config.tasks[t].io[s]
    BY <2>2, <2>3 DEF Factory!ToSet, Factory!SystemList
  <2>5. PICK i \in Factory!ComponentList(t, s) : c = config.tasks[t].io[s].components[i]
    BY <2>1, <2>4 DEF Factory!ToSet, Factory!ComponentList
  <2>6. t < task
    BY <2>3, Nodes
  <2>7. Factory!ComponentRead(t, s, i)
    BY <2>6 DEF Factory!ComponentRead, Factory!SystemRead, Factory!TaskRead
  <2> QED BY <2>5, <2>7 DEF Factory!ComponentsRead
<1> QED BY <1>1 DEF Factory!ComponentsRead

LEMMA NextRight ==
    ASSUME Factory!CursorOK, Factory!Reading', Factory!Next, Right, Factory!VariablesSoFar
    PROVE  Right'
<1>1. UNCHANGED config
  BY DEF Factory!Next, Factory!BeginTask, Factory!BeginSystem, Factory!AddComponent,
         Factory!AddSystem, Factory!InstallTask, Factory!AddProgram, Factory!EndTask,
         Factory!EndTasks, Factory!SetValue, Factory!EndValues, Factory!Goto, Factory!Raise
<1>2. Factory!TasksRight'
  <2>1. CASE Factory!InstallTask
    <3> SUFFICES ASSUME NEW t \in Factory!TaskList, Factory!TaskRead(t)'
                 PROVE  config.tasks[t].fault = "none"
      BY <1>1 DEF Factory!TasksRight, Factory!TaskList
    <3> QED BY <2>1, InstallTaskReads, InstallTaskGoes DEF Right, Factory!TasksRight, TaskNode
  <2>2. CASE ~Factory!InstallTask
    BY <1>1, <2>2, SameTasksStep, SameRight DEF Right, Factory!Next, Between
  <2> QED BY <2>1, <2>2
<1>3. Factory!SystemsRight'
  <2>1. CASE Factory!BeginSystem
    <3> SUFFICES ASSUME NEW t \in Factory!TaskList, NEW s \in Factory!SystemList(t),
                        Factory!SystemRead(t, s)'
                 PROVE  /\ config.tasks[t].io[s].fault = "none"
                        /\ config.tasks[t].io[s].type \in Factory!SystemType
      BY <1>1 DEF Factory!SystemsRight, Factory!TaskList, Factory!SystemList
    <3> QED BY <2>1, BeginSystemReads, BeginSystemGoes DEF Right, Factory!SystemsRight, SystemNode
  <2>2. CASE ~Factory!BeginSystem
    BY <1>1, <2>2, SameSystemsStep, SameRight DEF Right, Factory!Next, Between
  <2> QED BY <2>1, <2>2
<1>4. Factory!ComponentsRight'
  <2>1. CASE Factory!AddComponent
    <3> SUFFICES ASSUME NEW t \in Factory!TaskList, NEW s \in Factory!SystemList(t),
                        NEW i \in Factory!ComponentList(t, s),
                        Factory!ComponentRead(t, s, i)'
                 PROVE  RightComponent(config.tasks[t].io[s], i)
      BY <1>1, ComponentsRightNext
    <3>1. CASE Factory!ComponentRead(t, s, i)
      BY <3>1 DEF Right, Factory!ComponentsRight, RightComponent
    <3>2. CASE t = task /\ s = system /\ i = item
      BY <2>1, <3>2, AddComponentGoes
         DEF ComponentNode, SystemNode, KnownComponent, RightComponent
    <3> QED BY <2>1, <3>1, <3>2, AddComponentReads
  <2>2. CASE ~Factory!AddComponent
    BY <1>1, <2>2, SameComponentsStep, SameRight DEF Right, Factory!Next, Between
  <2> QED BY <2>1, <2>2
<1>5. Factory!ProgramsRight'
  <2>1. CASE Factory!AddProgram
    <3> SUFFICES ASSUME NEW t \in Factory!TaskList, NEW i \in Factory!ProgramList(t),
                        Factory!ProgramRead(t, i)'
                 PROVE  /\ config.tasks[t].programs[i].fault = "none"
                        /\ config.tasks[t].programs[i].type \in Factory!ProgramType
      BY <1>1 DEF Factory!ProgramsRight, Factory!TaskList, Factory!ProgramList
    <3> QED BY <2>1, AddProgramReads, AddProgramGoes
            DEF Right, Factory!ProgramsRight, ProgramNode, TaskNode
  <2>2. CASE ~Factory!AddProgram
    BY <1>1, <2>2, SameProgramsStep, SameRight DEF Right, Factory!Next, Between
  <2> QED BY <2>1, <2>2
<1>6. Factory!ValuesRight'
  <2>1. CASE Factory!SetValue
    <3> SUFFICES ASSUME NEW i \in DOMAIN config.values, Factory!ValueRead(i)'
                 PROVE  /\ config.values[i].fault = "none"
                        /\ config.values[i].var \in Factory!Named(config.values[i].segment)
      <4>1. ASSUME NEW segment PROVE Factory!Named(segment)' = Factory!Named(segment)
        BY <1>1 DEF Factory!Named, Factory!VariablesOf, Factory!AllComponents,
                    Factory!ComponentsOf, Factory!AllSystems
      <4> QED BY <1>1, <4>1 DEF Factory!ValuesRight
    <3>1. CASE Factory!ValueRead(i)
      BY <3>1 DEF Right, Factory!ValuesRight
    <3>2. CASE i = item
      <4>1. /\ pcFactory = "value" /\ task = Len(config.tasks) + 1 /\ config \in Config
            /\ ValueNode.fault = "none" /\ ValueNode.var \in DOMAIN gv[ValueNode.segment]
            /\ item \in DOMAIN config.values
        BY <2>1, SetValueGoes DEF Factory!CursorOK
      <4>2. ValueNode.segment \in Factory!Segment
        BY <4>1, Nodes DEF ValueNode
      <4>3. DOMAIN gv[ValueNode.segment]
               = Factory!VariablesOf(Factory!ComponentsRead, ValueNode.segment)
        BY <4>1, <4>2 DEF Factory!VariablesSoFar, Factory!Reading
      <4>4. ValueNode.var \in Factory!Named(ValueNode.segment)
        BY <4>1, <4>3, AllRead DEF Factory!Named
      <4> QED BY <3>2, <4>1, <4>4 DEF ValueNode
    <3> QED BY <2>1, <3>1, <3>2, SetValueReads
  <2>2. CASE ~Factory!SetValue
    BY <1>1, <2>2, SameValuesStep, SameRight DEF Right, Factory!Next, Between
  <2> QED BY <2>1, <2>2
<1> QED BY <1>2, <1>3, <1>4, <1>5, <1>6 DEF Right

-----------------------------------------------------------------------------
(* AcceptedIfValid *)

\* A configuration means the same throughout.
LEMMA SameMeaning ==
    ASSUME UNCHANGED config
    PROVE  /\ Factory!Faults' = Factory!Faults
           /\ Factory!TypesKnown' <=> Factory!TypesKnown
           /\ Factory!ValuesHaveVariables' <=> Factory!ValuesHaveVariables
           /\ \A segment : Factory!Named(segment)' = Factory!Named(segment)
<1>1. /\ Factory!AllSystems' = Factory!AllSystems
      /\ Factory!AllPrograms' = Factory!AllPrograms
  BY DEF Factory!AllSystems, Factory!AllPrograms
<1>2. Factory!AllComponents' = Factory!AllComponents
  BY <1>1 DEF Factory!AllComponents, Factory!ComponentsOf
<1>3. \A segment : Factory!Named(segment)' = Factory!Named(segment)
  BY <1>2 DEF Factory!Named, Factory!VariablesOf
<1>4. Factory!Faults' = Factory!Faults
  BY <1>1, <1>2 DEF Factory!Faults
<1>5. Factory!TypesKnown' <=> Factory!TypesKnown
  BY <1>1 DEF Factory!TypesKnown, Factory!ComponentsOf
<1>6. Factory!ValuesHaveVariables' <=> Factory!ValuesHaveVariables
  BY <1>3 DEF Factory!ValuesHaveVariables
<1> QED BY <1>3, <1>4, <1>5, <1>6

LEMMA RaisedFault ==
    ASSUME NEW fault \in Factory!Fault, Factory!Raise(fault),
           fault # "none" => fault \in Factory!Faults
    PROVE  Factory!AcceptedIfValid'
<1>1. /\ fault \in {"yaml", "invalid"} /\ fault \in Factory!Faults /\ UNCHANGED config
      /\ pcFactory' = IF fault = "yaml" THEN "rejected" ELSE "terminated"
  BY DEF Factory!Raise, Factory!Fault
<1>2. Factory!Faults' = Factory!Faults
  BY <1>1, SameMeaning
<1> QED BY <1>1, <1>2 DEF Factory!AcceptedIfValid, Factory!Valid

LEMMA RaisedInvalid ==
    ASSUME Factory!Raise("invalid"), ~Factory!TypesKnown \/ ~Factory!ValuesHaveVariables
    PROVE  Factory!AcceptedIfValid'
<1>1. pcFactory' = "terminated" /\ UNCHANGED config
  BY DEF Factory!Raise
<1>2. ~Factory!TypesKnown' \/ ~Factory!ValuesHaveVariables'
  BY <1>1, SameMeaning
<1> QED BY <1>1, <1>2 DEF Factory!AcceptedIfValid, Factory!Valid

\* Every node that can be read is one of the nodes of the file.
LEMMA NodesAreAll ==
    ASSUME NEW t \in Factory!TaskList
    PROVE  /\ config.tasks[t] \in Factory!ToSet(config.tasks)
           /\ \A s \in Factory!SystemList(t) : config.tasks[t].io[s] \in Factory!AllSystems
           /\ \A i \in Factory!ProgramList(t) :
                 config.tasks[t].programs[i] \in Factory!AllPrograms
           /\ \A s \in Factory!SystemList(t) : \A i \in Factory!ComponentList(t, s) :
                 /\ config.tasks[t].io[s].components[i] \in Factory!AllComponents
                 /\ config.tasks[t].io[s].components[i]
                       \in Factory!ComponentsOf(config.tasks[t].io[s])
<1>1. config.tasks[t] \in Factory!ToSet(config.tasks)
  BY DEF Factory!TaskList, Factory!ToSet
<1>2. ASSUME NEW s \in Factory!SystemList(t)
      PROVE  config.tasks[t].io[s] \in Factory!AllSystems
  <2>1. config.tasks[t].io[s] \in Factory!ToSet(config.tasks[t].io)
    BY DEF Factory!SystemList, Factory!ToSet
  <2> QED BY <1>1, <2>1 DEF Factory!AllSystems
<1>3. ASSUME NEW i \in Factory!ProgramList(t)
      PROVE  config.tasks[t].programs[i] \in Factory!AllPrograms
  <2>1. config.tasks[t].programs[i] \in Factory!ToSet(config.tasks[t].programs)
    BY DEF Factory!ProgramList, Factory!ToSet
  <2> QED BY <1>1, <2>1 DEF Factory!AllPrograms
<1>4. ASSUME NEW s \in Factory!SystemList(t), NEW i \in Factory!ComponentList(t, s)
      PROVE  /\ config.tasks[t].io[s].components[i] \in Factory!AllComponents
             /\ config.tasks[t].io[s].components[i]
                   \in Factory!ComponentsOf(config.tasks[t].io[s])
  <2>1. config.tasks[t].io[s].components[i]
           \in Factory!ComponentsOf(config.tasks[t].io[s])
    BY DEF Factory!ComponentList, Factory!ComponentsOf, Factory!ToSet
  <2> QED BY <1>2, <2>1 DEF Factory!AllComponents
<1> QED BY <1>1, <1>2, <1>3, <1>4

\* A step that stops has a reason that the file as a whole has.
LEMMA StopsForReason ==
    ASSUME Factory!CursorOK, Factory!VariablesSoFar, Factory!Next, ~Factory!Reading'
    PROVE  Factory!AcceptedIfValid'
<1>1. config \in Config
  BY DEF Factory!CursorOK
<1>2. CASE Factory!BeginSystem
  <2>1. task \in Factory!TaskList /\ system \in Factory!SystemList(task)
    BY <1>2, NodesOfTask DEF Factory!CursorOK, Factory!BeginSystem, Factory!ThisTask
  <2>2. SystemNode.fault \in Factory!Fault /\ SystemNode \in Factory!AllSystems
    BY <1>1, <2>1, NodesOfTask, NodesAreAll DEF SystemNode
  <2>3. CASE Factory!Raise(SystemNode.fault)
    BY <2>2, <2>3, RaisedFault DEF Factory!Faults
  <2>4. CASE SystemNode.type \notin Factory!SystemType /\ Factory!Raise("invalid")
    BY <2>2, <2>4, RaisedInvalid DEF Factory!TypesKnown
  <2> QED BY <1>2, <2>3, <2>4
          DEF Factory!BeginSystem, Factory!Goto, Factory!Reading, Factory!ThisSystem,
              Factory!ThisTask, SystemNode
<1>3. CASE Factory!AddComponent
  <2>1. task \in Factory!TaskList /\ system \in Factory!SystemList(task)
    BY <1>3 DEF Factory!CursorOK, Factory!AddComponent
  <2>2. item \in Factory!ComponentList(task, system)
    <3>1. /\ Len(SystemNode.components) \in Nat
          /\ Factory!ComponentList(task, system) = 1 .. Len(SystemNode.components)
      BY <1>1, <2>1, NodesOfSystem DEF SystemNode
    <3>2. /\ item \in 1 .. Len(SystemNode.components) + 1
          /\ item <= Len(SystemNode.components)
      BY <1>3 DEF Factory!AddComponent, Factory!CursorOK, Factory!ThisSystem,
                  Factory!ThisTask, SystemNode
    <3> QED BY <3>1, <3>2
  <2>3. /\ ComponentNode \in Factory!AllComponents /\ SystemNode \in Factory!AllSystems
        /\ ComponentNode \in Factory!ComponentsOf(SystemNode)
    BY <2>1, <2>2, NodesAreAll DEF ComponentNode, SystemNode
  <2>4. ComponentNode.fault \in Factory!Fault
    <3>1. Factory!IsComponent(ComponentNode)
      BY <1>1, <2>1, <2>2, NodesOfSystem DEF ComponentNode, SystemNode
    <3> QED BY <3>1 DEF Factory!IsComponent
  <2>5. CASE Factory!Raise(ComponentNode.fault)
    BY <2>3, <2>4, <2>5, RaisedFault DEF Factory!Faults
  <2>6. CASE ~KnownComponent(SystemNode, ComponentNode) /\ Factory!Raise("invalid")
    BY <2>3, <2>6, RaisedInvalid DEF Factory!TypesKnown, KnownComponent
  <2> QED BY <1>3, <2>5, <2>6
          DEF Factory!AddComponent, Factory!Goto, Factory!Reading, Factory!ThisSystem,
              Factory!ThisTask, SystemNode, ComponentNode, KnownComponent
<1>4. CASE Factory!InstallTask
  <2>1. task \in Factory!TaskList
    BY <1>4 DEF Factory!CursorOK, Factory!InstallTask
  <2>2. TaskNode.fault \in Factory!Fault /\ TaskNode \in Factory!ToSet(config.tasks)
    BY <1>1, <2>1, Nodes, NodesAreAll DEF TaskNode
  <2>3. CASE Factory!Raise(TaskNode.fault)
    BY <2>2, <2>3, RaisedFault DEF Factory!Faults
  <2> QED BY <1>4, <2>3
          DEF Factory!InstallTask, Factory!Goto, Factory!Reading, Factory!ThisTask, TaskNode
<1>5. CASE Factory!AddProgram
  <2>1. task \in Factory!TaskList
    BY <1>5 DEF Factory!CursorOK, Factory!AddProgram
  <2>2. item \in Factory!ProgramList(task)
    BY <1>5, <2>1, NodesOfTask DEF Factory!AddProgram, Factory!CursorOK, Factory!ThisTask
  <2>3. ProgramNode.fault \in Factory!Fault /\ ProgramNode \in Factory!AllPrograms
    BY <1>1, <2>1, <2>2, NodesOfTask, NodesAreAll DEF ProgramNode, TaskNode
  <2>4. CASE Factory!Raise(ProgramNode.fault)
    BY <2>3, <2>4, RaisedFault DEF Factory!Faults
  <2>5. CASE ProgramNode.type \notin Factory!ProgramType /\ Factory!Raise("invalid")
    BY <2>3, <2>5, RaisedInvalid DEF Factory!TypesKnown
  <2> QED BY <1>5, <2>4, <2>5
          DEF Factory!AddProgram, Factory!Goto, Factory!Reading, Factory!ThisTask, TaskNode,
              ProgramNode
<1>6. CASE Factory!SetValue
  <2>1. /\ pcFactory = "value" /\ task = Len(config.tasks) + 1
        /\ item \in DOMAIN config.values
    BY <1>1, <1>6, Nodes DEF Factory!SetValue, Factory!CursorOK
  <2>2. /\ ValueNode.fault \in Factory!Fault /\ ValueNode.segment \in Factory!Segment
        /\ ValueNode \in Factory!ToSet(config.values)
    BY <1>1, <2>1, Nodes DEF ValueNode, Factory!ToSet
  <2>3. DOMAIN gv[ValueNode.segment] = Factory!Named(ValueNode.segment)
    BY <1>1, <2>1, <2>2, AllRead DEF Factory!VariablesSoFar, Factory!Reading, Factory!Named
  <2>4. CASE Factory!Raise(ValueNode.fault)
    BY <2>2, <2>4, RaisedFault DEF Factory!Faults
  <2>5. CASE ValueNode.var \notin DOMAIN gv[ValueNode.segment] /\ Factory!Raise("invalid")
    BY <2>2, <2>3, <2>5, RaisedInvalid DEF Factory!ValuesHaveVariables
  <2> QED BY <1>6, <2>4, <2>5
          DEF Factory!SetValue, Factory!Goto, Factory!Reading, ValueNode
<1> QED BY <1>2, <1>3, <1>4, <1>5, <1>6
        DEF Factory!Next, Factory!BeginTask, Factory!AddSystem, Factory!EndTask,
            Factory!EndTasks, Factory!EndValues, Factory!Goto, Factory!Reading

\* When everything has been read and nothing was wrong, the file is valid.
LEMMA ConfiguredValid ==
    ASSUME Factory!CursorOK, pcFactory = "configured", Right
    PROVE  Factory!Valid
<1>1. config \in Config /\ task = Len(config.tasks) + 1
  BY DEF Factory!CursorOK
<1>2. \A t \in Factory!TaskList : t < task /\ t # task
  BY <1>1, Nodes
<1>3. ASSUME NEW k \in Factory!ToSet(config.tasks)
      PROVE  /\ k.fault = "none"
             /\ \E t \in Factory!TaskList : k = config.tasks[t]
  <2>1. PICK t \in Factory!TaskList : k = config.tasks[t]
    BY DEF Factory!ToSet, Factory!TaskList
  <2> QED BY <1>2, <2>1 DEF Right, Factory!TasksRight, Factory!TaskRead
<1>4. ASSUME NEW n \in Factory!AllSystems
      PROVE  /\ n.fault = "none" /\ n.type \in Factory!SystemType
             /\ \A c \in Factory!ComponentsOf(n) :
                   c.fault = "none" /\ KnownComponent(n, c)
  <2>1. PICK k \in Factory!ToSet(config.tasks) : n \in Factory!ToSet(k.io)
    BY DEF Factory!AllSystems
  <2>2. PICK t \in Factory!TaskList : k = config.tasks[t]
    BY <1>3, <2>1
  <2>3. PICK s \in Factory!SystemList(t) : n = config.tasks[t].io[s]
    BY <2>1, <2>2 DEF Factory!ToSet, Factory!SystemList
  <2>4. Factory!SystemRead(t, s)
    BY <1>2 DEF Factory!SystemRead, Factory!TaskRead
  <2>5. n.fault = "none" /\ n.type \in Factory!SystemType
    BY <2>3, <2>4 DEF Right, Factory!SystemsRight
  <2>6. ASSUME NEW c \in Factory!ComponentsOf(n)
        PROVE  c.fault = "none" /\ KnownComponent(n, c)
    <3>1. PICK i \in Factory!ComponentList(t, s) : c = config.tasks[t].io[s].components[i]
      BY <2>3 DEF Factory!ComponentsOf, Factory!ToSet, Factory!ComponentList
    <3>2. Factory!ComponentRead(t, s, i)
      BY <1>2, <2>4 DEF Factory!ComponentRead
    <3> QED BY <2>3, <3>1, <3>2 DEF Right, Factory!ComponentsRight, KnownComponent
  <2> QED BY <2>5, <2>6
<1>5. ASSUME NEW p \in Factory!AllPrograms
      PROVE  p.fault = "none" /\ p.type \in Factory!ProgramType
  <2>1. PICK k \in Factory!ToSet(config.tasks) : p \in Factory!ToSet(k.programs)
    BY DEF Factory!AllPrograms
  <2>2. PICK t \in Factory!TaskList : k = config.tasks[t]
    BY <1>3, <2>1
  <2>3. PICK i \in Factory!ProgramList(t) : p = config.tasks[t].programs[i]
    BY <2>1, <2>2 DEF Factory!ToSet, Factory!ProgramList
  <2>4. Factory!ProgramRead(t, i)
    BY <1>2 DEF Factory!ProgramRead, Factory!TaskRead
  <2> QED BY <2>3, <2>4 DEF Right, Factory!ProgramsRight
<1>6. ASSUME NEW e \in Factory!ToSet(config.values)
      PROVE  e.fault = "none" /\ e.var \in Factory!Named(e.segment)
  <2>1. PICK i \in DOMAIN config.values : e = config.values[i]
    BY DEF Factory!ToSet
  <2> QED BY <2>1 DEF Right, Factory!ValuesRight, Factory!ValueRead
<1>7. Factory!Faults = {}
  <2>1. \A c \in Factory!AllComponents : c.fault = "none"
    BY <1>4 DEF Factory!AllComponents
  <2> QED BY <1>3, <1>4, <1>5, <1>6, <2>1 DEF Factory!Faults
<1>8. Factory!TypesKnown
  BY <1>4, <1>5 DEF Factory!TypesKnown, KnownComponent
<1>9. Factory!ValuesHaveVariables
  BY <1>6 DEF Factory!ValuesHaveVariables
<1> QED BY <1>7, <1>8, <1>9 DEF Factory!Valid

-----------------------------------------------------------------------------
(* VariablesSoFar *)

\* What it says of one segment.
SegmentSoFar(segment) ==
    /\ DOMAIN gv[segment] = Factory!VariablesOf(Factory!ComponentsRead, segment)
    /\ \A v \in DOMAIN gv[segment] :
          \/ Factory!GivenSoFar(segment, v) = {} /\ gv[segment][v] = FALSE
          \/ \E i \in Factory!GivenSoFar(segment, v) :
                /\ \A j \in Factory!GivenSoFar(segment, v) : j <= i
                /\ gv[segment][v] = config.values[i].value

LEMMA SameComponentsRead ==
    ASSUME UNCHANGED config, SameComponents
    PROVE  Factory!ComponentsRead' = Factory!ComponentsRead
<1>1. Factory!AllComponents' = Factory!AllComponents
  BY DEF Factory!AllComponents, Factory!ComponentsOf, Factory!AllSystems
<1>2. Factory!TaskList' = Factory!TaskList
  BY DEF Factory!TaskList
<1>3. \A t : Factory!SystemList(t)' = Factory!SystemList(t)
  BY DEF Factory!SystemList
<1>4. \A t, s : Factory!ComponentList(t, s)' = Factory!ComponentList(t, s)
  BY DEF Factory!ComponentList
<1>5. Factory!ComponentsRead' =
         {c \in Factory!AllComponents : \E t \in Factory!TaskList :
             \E s \in Factory!SystemList(t) : \E i \in Factory!ComponentList(t, s) :
                 /\ Factory!ComponentRead(t, s, i)'
                 /\ c = config.tasks[t].io[s].components[i]}
  BY <1>1, <1>2, <1>3, <1>4 DEF Factory!ComponentsRead
<1> QED BY <1>5 DEF Factory!ComponentsRead, SameComponents

LEMMA SameGiven ==
    ASSUME UNCHANGED config, SameValues
    PROVE  \A segment, v : Factory!GivenSoFar(segment, v)' = Factory!GivenSoFar(segment, v)
BY DEF Factory!GivenSoFar, SameValues

LEMMA NextComponentsRead ==
    ASSUME Factory!CursorOK, Factory!Reading', Factory!AddComponent
    PROVE  Factory!ComponentsRead' = Factory!ComponentsRead \cup {ComponentNode}
<1>1. /\ UNCHANGED config /\ task \in Factory!TaskList /\ system \in Factory!SystemList(task)
      /\ item \in Factory!ComponentList(task, system)
  BY AddComponentGoes
<1>2. Factory!AllComponents' = Factory!AllComponents
  BY <1>1 DEF Factory!AllComponents, Factory!ComponentsOf, Factory!AllSystems
<1>3. Factory!TaskList' = Factory!TaskList
  BY <1>1 DEF Factory!TaskList
<1>4. \A t : Factory!SystemList(t)' = Factory!SystemList(t)
  BY <1>1 DEF Factory!SystemList
<1>5. \A t, s : Factory!ComponentList(t, s)' = Factory!ComponentList(t, s)
  BY <1>1 DEF Factory!ComponentList
<1>6. ComponentNode \in Factory!AllComponents
  BY <1>1, NodesAreAll DEF ComponentNode, SystemNode
<1>7. Factory!ComponentsRead' =
         {c \in Factory!AllComponents : \E t \in Factory!TaskList :
             \E s \in Factory!SystemList(t) : \E i \in Factory!ComponentList(t, s) :
                 /\ Factory!ComponentRead(t, s, i)'
                 /\ c = config.tasks[t].io[s].components[i]}
  BY <1>1, <1>2, <1>3, <1>4, <1>5 DEF Factory!ComponentsRead
<1>8. ASSUME NEW c \in Factory!ComponentsRead'
      PROVE  c \in Factory!ComponentsRead \cup {ComponentNode}
  <2>1. PICK t \in Factory!TaskList : \E s \in Factory!SystemList(t) :
             \E i \in Factory!ComponentList(t, s) :
                 /\ Factory!ComponentRead(t, s, i)'
                 /\ c = config.tasks[t].io[s].components[i]
    BY <1>7
  <2>2. PICK s \in Factory!SystemList(t) : \E i \in Factory!ComponentList(t, s) :
                 /\ Factory!ComponentRead(t, s, i)'
                 /\ c = config.tasks[t].io[s].components[i]
    BY <2>1
  <2>3. PICK i \in Factory!ComponentList(t, s) :
                 /\ Factory!ComponentRead(t, s, i)'
                 /\ c = config.tasks[t].io[s].components[i]
    BY <2>2
  <2>4. Factory!ComponentRead(t, s, i) \/ (t = task /\ s = system /\ i = item)
    BY <2>3, AddComponentReads
  <2>5. c \in Factory!AllComponents
    BY <1>7
  <2> QED BY <2>3, <2>4, <2>5 DEF Factory!ComponentsRead, ComponentNode, SystemNode
<1>9. ASSUME NEW c \in Factory!ComponentsRead
      PROVE  c \in Factory!ComponentsRead'
  <2>1. PICK t \in Factory!TaskList : \E s \in Factory!SystemList(t) :
             \E i \in Factory!ComponentList(t, s) :
                 /\ Factory!ComponentRead(t, s, i)
                 /\ c = config.tasks[t].io[s].components[i]
    BY DEF Factory!ComponentsRead
  <2>2. PICK s \in Factory!SystemList(t) : \E i \in Factory!ComponentList(t, s) :
                 /\ Factory!ComponentRead(t, s, i)
                 /\ c = config.tasks[t].io[s].components[i]
    BY <2>1
  <2>3. PICK i \in Factory!ComponentList(t, s) :
                 /\ Factory!ComponentRead(t, s, i)
                 /\ c = config.tasks[t].io[s].components[i]
    BY <2>2
  <2>4. Factory!ComponentRead(t, s, i)'
    BY <2>3, AddComponentReads
  <2>5. c \in Factory!AllComponents
    BY DEF Factory!ComponentsRead
  <2> QED BY <1>7, <2>3, <2>4, <2>5
<1>10. ComponentNode \in Factory!ComponentsRead'
  <2>1. PICK t \in Factory!TaskList : t = task
    BY <1>1
  <2>2. PICK s \in Factory!SystemList(t) : s = system
    BY <1>1, <2>1
  <2>3. PICK i \in Factory!ComponentList(t, s) : i = item
    BY <1>1, <2>1, <2>2
  <2>4. Factory!ComponentRead(t, s, i)'
    BY <2>1, <2>2, <2>3, AddComponentReads
  <2>5. ComponentNode = config.tasks[t].io[s].components[i]
    BY <2>1, <2>2, <2>3 DEF ComponentNode, SystemNode
  <2> QED BY <1>6, <1>7, <2>4, <2>5
<1> QED BY <1>8, <1>9, <1>10

\* createMissingGVBool adds what the component names, and sets it to false.
LEMMA AddComponentVariables ==
    ASSUME Factory!CursorOK, Factory!Reading', Factory!AddComponent, Factory!VariablesSoFar
    PROVE  Factory!VariablesSoFar'
<1> DEFINE known == gv[ComponentNode.direction]
           named == {p.var : p \in Factory!ToSet(ComponentNode.pins)}
           new == [v \in DOMAIN known \cup named |-> v \notin named /\ known[v]]
<1>1. /\ gv' = [gv EXCEPT ![ComponentNode.direction] = new]
      /\ pcFactory = "component" /\ pcFactory' = "component" /\ UNCHANGED config
  BY AddComponentGoes DEF Factory!CreateVariables
<1>2. DOMAIN gv = Factory!Segment /\ \A segment \in Factory!Segment : SegmentSoFar(segment)
  BY <1>1 DEF Factory!VariablesSoFar, Factory!Reading, SegmentSoFar
<1>3. ComponentNode.direction \in Factory!Segment
  <2>1. Factory!IsComponent(ComponentNode)
    BY AddComponentGoes, NodesOfSystem DEF Factory!CursorOK, ComponentNode, SystemNode
  <2> QED BY <2>1 DEF Factory!IsComponent
<1>4. Factory!ComponentsRead' = Factory!ComponentsRead \cup {ComponentNode}
  BY NextComponentsRead
<1>5. \A segment, v : /\ Factory!GivenSoFar(segment, v) = {}
                      /\ Factory!GivenSoFar(segment, v)' = {}
  BY <1>1 DEF Factory!GivenSoFar, Factory!ValueRead
<1>6. \A segment \in Factory!Segment : \A v \in DOMAIN gv[segment] : gv[segment][v] = FALSE
  BY <1>2, <1>5 DEF SegmentSoFar
<1>7. ASSUME NEW segment \in Factory!Segment
      PROVE  SegmentSoFar(segment)'
  <2>1. CASE segment = ComponentNode.direction
    <3>1. gv'[segment] = new
      BY <1>1, <1>2, <1>3, <2>1
    <3>2. DOMAIN new = DOMAIN known \cup named
      OBVIOUS
    <3>3. DOMAIN known = Factory!VariablesOf(Factory!ComponentsRead, segment)
      BY <1>2, <2>1 DEF SegmentSoFar
    <3>4. Factory!VariablesOf(Factory!ComponentsRead \cup {ComponentNode}, segment)
             = Factory!VariablesOf(Factory!ComponentsRead, segment) \cup named
      BY <2>1 DEF Factory!VariablesOf
    <3>5. DOMAIN gv'[segment] = Factory!VariablesOf(Factory!ComponentsRead', segment)
      BY <1>4, <3>1, <3>2, <3>3, <3>4
    <3>6. \A v \in DOMAIN known \cup named : new[v] = FALSE
      BY <1>3, <1>6
    <3> HIDE DEF new, known, named
    <3> QED BY <1>5, <3>1, <3>2, <3>5, <3>6 DEF SegmentSoFar, Factory!VariablesOf
  <2>2. CASE segment # ComponentNode.direction
    <3>1. gv'[segment] = gv[segment]
      BY <1>1, <1>2, <2>2
    <3>2. Factory!VariablesOf(Factory!ComponentsRead', segment)
             = Factory!VariablesOf(Factory!ComponentsRead, segment)
      BY <1>4, <2>2 DEF Factory!VariablesOf
    <3> QED BY <1>2, <1>5, <1>6, <3>1, <3>2 DEF SegmentSoFar, Factory!VariablesOf
  <2> QED BY <2>1, <2>2
<1>8. DOMAIN gv' = Factory!Segment
  BY <1>1, <1>2
<1> QED BY <1>7, <1>8 DEF Factory!VariablesSoFar, SegmentSoFar

\* The entry that is read is the last one for its variable.
LEMMA SetValueVariables ==
    ASSUME Factory!CursorOK, Factory!Reading', Factory!SetValue, Factory!VariablesSoFar
    PROVE  Factory!VariablesSoFar'
<1> DEFINE at == ValueNode.segment
           var == ValueNode.var
           old == gv[at]
           new == [old EXCEPT ![var] = ValueNode.value]
<1>1. /\ gv' = [gv EXCEPT ![at] = new]
      /\ pcFactory = "value" /\ UNCHANGED config
      /\ item \in DOMAIN config.values /\ var \in DOMAIN old
  BY SetValueGoes
<1>2. DOMAIN gv = Factory!Segment /\ \A segment \in Factory!Segment : SegmentSoFar(segment)
  BY <1>1 DEF Factory!VariablesSoFar, Factory!Reading, SegmentSoFar
<1>3. /\ at \in Factory!Segment /\ DOMAIN config.values = 1 .. Len(config.values)
      /\ Len(config.values) \in Nat /\ item \in Nat
  BY <1>1, Nodes DEF Factory!CursorOK, ValueNode
<1>4. Factory!ComponentsRead' = Factory!ComponentsRead
  BY <1>1, SameComponentsStep, SameComponentsRead
<1>5. \A i \in DOMAIN config.values : Factory!ValueRead(i)' <=> Factory!ValueRead(i) \/ i = item
  BY SetValueReads
<1>6. \A segment, v : ~(segment = at /\ v = var) =>
          Factory!GivenSoFar(segment, v)' = Factory!GivenSoFar(segment, v)
  BY <1>1, <1>5 DEF Factory!GivenSoFar, ValueNode
<1>7. ASSUME NEW segment, NEW v, segment = at, v = var
      PROVE  /\ item \in Factory!GivenSoFar(segment, v)'
             /\ \A j \in Factory!GivenSoFar(segment, v)' : j <= item
  <2>1. PICK k \in DOMAIN config.values : k = item
    BY <1>1
  <2>2. Factory!ValueRead(k)'
    BY <1>5, <2>1
  <2>3. k \in Factory!GivenSoFar(segment, v)'
    BY <1>1, <1>7, <2>1, <2>2 DEF Factory!GivenSoFar, ValueNode
  <2>4. ASSUME NEW j \in Factory!GivenSoFar(segment, v)'
        PROVE  j <= item
    <3>1. j \in DOMAIN config.values /\ Factory!ValueRead(j)'
      BY <1>1 DEF Factory!GivenSoFar
    <3>2. Factory!ValueRead(j) \/ j = item
      BY <1>5, <3>1
    <3> QED BY <1>1, <1>3, <3>1, <3>2 DEF Factory!ValueRead
  <2> QED BY <2>1, <2>3, <2>4
<1>8. ASSUME NEW segment \in Factory!Segment
      PROVE  SegmentSoFar(segment)'
  <2>1. \A v : Factory!VariablesOf(Factory!ComponentsRead, segment)'
                  = Factory!VariablesOf(Factory!ComponentsRead, segment)
    BY <1>4 DEF Factory!VariablesOf
  <2>2. DOMAIN gv'[segment] = DOMAIN gv[segment]
    BY <1>1, <1>2
  <2>3. DOMAIN gv'[segment] = Factory!VariablesOf(Factory!ComponentsRead, segment)'
    BY <1>2, <2>1, <2>2 DEF SegmentSoFar
  <2>4. ASSUME NEW v \in DOMAIN gv[segment]
        PROVE  \/ Factory!GivenSoFar(segment, v)' = {} /\ gv'[segment][v] = FALSE
               \/ \E i \in Factory!GivenSoFar(segment, v)' :
                     /\ \A j \in Factory!GivenSoFar(segment, v)' : j <= i
                     /\ gv'[segment][v] = config.values[i].value
    <3>1. CASE segment = at /\ v = var
      <4>1. gv'[segment][v] = config.values[item].value
        BY <1>1, <1>2, <3>1 DEF ValueNode
      <4> QED BY <1>7, <3>1, <4>1
    <3>2. CASE ~(segment = at /\ v = var)
      <4>1. gv'[segment][v] = gv[segment][v]
        BY <1>1, <1>2, <3>2
      <4>2. Factory!GivenSoFar(segment, v)' = Factory!GivenSoFar(segment, v)
        BY <1>6, <3>2
      <4> QED BY <1>2, <4>1, <4>2 DEF SegmentSoFar
    <3> QED BY <3>1, <3>2
  <2> QED BY <1>1, <2>2, <2>3, <2>4 DEF SegmentSoFar
<1>9. DOMAIN gv' = Factory!Segment
  BY <1>1, <1>2
<1> QED BY <1>8, <1>9 DEF Factory!VariablesSoFar, SegmentSoFar

LEMMA NextVariables ==
    ASSUME Factory!CursorOK, Factory!Next, Factory!VariablesSoFar
    PROVE  Factory!VariablesSoFar'
<1>1. CASE ~Factory!Reading'
  <2>1. CASE \E fault : Factory!Raise(fault)
    BY <1>1, <2>1 DEF Factory!Raise, Factory!built, Factory!VariablesSoFar
  <2>2. CASE ~\E fault : Factory!Raise(fault)
    BY <1>1, <2>2
       DEF Factory!Next, Factory!BeginTask, Factory!BeginSystem, Factory!AddComponent,
           Factory!AddSystem, Factory!InstallTask, Factory!AddProgram, Factory!EndTask,
           Factory!EndTasks, Factory!SetValue, Factory!EndValues, Factory!Goto,
           Factory!Reading
  <2> QED BY <2>1, <2>2
<1>2. CASE Factory!Reading' /\ ~Factory!AddComponent /\ ~Factory!SetValue
  <2>1. UNCHANGED <<config, gv>> /\ Factory!Reading
    BY <1>2, BeginTaskGoes, BeginSystemGoes, AddSystemGoes, InstallTaskGoes, AddProgramGoes,
       EndTaskGoes, EndTasksGoes, EndValuesGoes DEF Factory!Next, Factory!Reading
  <2>2. Factory!ComponentsRead' = Factory!ComponentsRead
    BY <1>2, <2>1, SameComponentsStep, SameComponentsRead DEF Factory!Next, Between
  <2>3. \A segment, v : Factory!GivenSoFar(segment, v)' = Factory!GivenSoFar(segment, v)
    BY <1>2, <2>1, SameValuesStep, SameGiven
  <2>4. \A segment \in Factory!Segment : SegmentSoFar(segment) => SegmentSoFar(segment)'
    BY <2>1, <2>2, <2>3 DEF SegmentSoFar, Factory!VariablesOf
  <2> QED BY <2>1, <2>4 DEF Factory!VariablesSoFar, SegmentSoFar
<1> QED BY <1>1, <1>2, AddComponentVariables, SetValueVariables

LEMMA InitVariables == PlcInit => Factory!VariablesSoFar
<1> SUFFICES ASSUME PlcInit PROVE Factory!VariablesSoFar
  OBVIOUS
<1>1. pcFactory = "task" /\ task = 1 /\ gv = Factory!Empty /\ config \in Config
  BY DEF PlcInit, Factory!Init
<1>2. Factory!ComponentsRead = {}
  BY <1>1, Nodes DEF Factory!ComponentsRead, Factory!ComponentRead, Factory!SystemRead,
                     Factory!TaskRead
<1>3. ASSUME NEW segment \in Factory!Segment
      PROVE  DOMAIN gv[segment] = {} /\ Factory!VariablesOf({}, segment) = {}
  BY <1>1 DEF Factory!Empty, Factory!VariablesOf
<1> QED BY <1>1, <1>2, <1>3 DEF Factory!VariablesSoFar, Factory!Empty

LEMMA ConfiguredVariables ==
    ASSUME Factory!CursorOK, Factory!VariablesSoFar
    PROVE  Factory!VariablesAsWritten
<1> SUFFICES ASSUME pcFactory = "configured", NEW segment \in Factory!Segment
             PROVE  /\ DOMAIN gv[segment] = Factory!Named(segment)
                    /\ \A v \in Factory!Named(segment) :
                          gv[segment][v] = Factory!InitialValue(segment, v)
  BY DEF Factory!VariablesAsWritten
<1>1. SegmentSoFar(segment)
  BY DEF Factory!VariablesSoFar, Factory!Reading, SegmentSoFar
<1>2. DOMAIN gv[segment] = Factory!Named(segment)
  BY <1>1, AllRead DEF SegmentSoFar, Factory!CursorOK, Factory!Named
<1>3. ASSUME NEW v \in Factory!Named(segment)
      PROVE  gv[segment][v] = Factory!InitialValue(segment, v)
  <2> DEFINE given == {i \in DOMAIN config.values :
                          config.values[i].segment = segment /\ config.values[i].var = v}
             last == CHOOSE i \in given : \A j \in given : j <= i
  <2>1. given = Factory!GivenSoFar(segment, v)
    BY DEF Factory!GivenSoFar, Factory!ValueRead
  <2>2. Factory!InitialValue(segment, v) = (given # {} /\ config.values[last].value)
    BY DEF Factory!InitialValue
  <2>3. given \subseteq Nat /\ \A i \in given : config.values[i].value \in BOOLEAN
    BY Nodes DEF Factory!CursorOK
  <2> HIDE DEF given
  <2>4. CASE given = {} /\ gv[segment][v] = FALSE
    BY <2>2, <2>4
  <2>5. ASSUME NEW i \in given, \A j \in given : j <= i,
               gv[segment][v] = config.values[i].value
        PROVE  gv[segment][v] = Factory!InitialValue(segment, v)
    <3>1. last \in given /\ \A j \in given : j <= last
      BY <2>5
    <3>2. last <= i /\ i <= last /\ i \in Nat /\ last \in Nat
      BY <2>3, <2>5, <3>1
    <3>3. last = i
      <4> HIDE DEF last
      <4> QED BY <3>2
    <3> QED BY <2>2, <2>3, <2>5, <3>3
  <2> QED BY <1>1, <1>2, <2>1, <2>4, <2>5 DEF SegmentSoFar
<1> QED BY <1>2, <1>3

-----------------------------------------------------------------------------
(* Which files are accepted, and with which variables. *)

\* What has been read without regard to the tasks that are built of it.
ReadSoFar ==
    /\ Factory!CursorOK
    /\ Factory!RightSoFar
    /\ Factory!VariablesSoFar
    /\ Factory!AcceptedIfValid

LEMMA InitReadSoFar == PlcInit => ReadSoFar
<1> SUFFICES ASSUME PlcInit PROVE ReadSoFar
  OBVIOUS
<1>1. pcFactory = "task" /\ task = 1 /\ config \in Config
  BY DEF PlcInit, Factory!Init
<1>2. \A t \in Factory!TaskList : ~Factory!TaskRead(t)
  BY <1>1, Nodes DEF Factory!TaskRead
<1>3. \A t \in Factory!TaskList : \A s : ~Factory!SystemRead(t, s)
  BY <1>1, <1>2 DEF Factory!SystemRead
<1>4. Factory!TasksRight /\ Factory!SystemsRight
  BY <1>2, <1>3 DEF Factory!TasksRight, Factory!SystemsRight
<1>5. Factory!ComponentsRight
  BY <1>3 DEF Factory!ComponentsRight, Factory!ComponentRead
<1>6. Factory!ProgramsRight /\ Factory!ValuesRight
  BY <1>1, <1>2 DEF Factory!ProgramsRight, Factory!ProgramRead, Factory!ValuesRight,
                    Factory!ValueRead
<1>7. Factory!AcceptedIfValid
  BY <1>1 DEF Factory!AcceptedIfValid
<1> QED BY <1>4, <1>5, <1>6, <1>7, InitCursor, InitVariables DEF ReadSoFar, Factory!RightSoFar

LEMMA ConfiguredNext ==
    (Factory!CursorOK /\ pcFactory = "configured" /\ Right)' => Factory!Valid'
<1>1. Factory!CursorOK /\ pcFactory = "configured" /\ Right => Factory!Valid
  BY ConfiguredValid
<1> QED BY <1>1, PTL

LEMMA NextReadSoFar ==
    ASSUME ReadSoFar, Factory!Next
    PROVE  ReadSoFar'
<1>1. Factory!Reading
  BY DEF Factory!Next, Factory!BeginTask, Factory!BeginSystem, Factory!AddComponent,
         Factory!AddSystem, Factory!InstallTask, Factory!AddProgram, Factory!EndTask,
         Factory!EndTasks, Factory!SetValue, Factory!EndValues, Factory!Reading
<1>2. Factory!CursorOK /\ Right /\ Factory!VariablesSoFar
  BY <1>1 DEF ReadSoFar, Right, Factory!RightSoFar
<1>3. Factory!CursorOK' /\ Factory!VariablesSoFar'
  BY <1>2, NextCursor, NextVariables
<1>4. CASE ~Factory!Reading'
  BY <1>2, <1>3, <1>4, StopsForReason DEF ReadSoFar, Factory!RightSoFar
<1>5. CASE Factory!Reading'
  <2>1. Right'
    BY <1>2, <1>5, NextRight
  <2>2. pcFactory' = "configured" => Factory!Valid'
    BY <1>3, <2>1, ConfiguredNext
  <2>3. Factory!AcceptedIfValid'
    BY <1>5, <2>2 DEF Factory!AcceptedIfValid, Factory!Reading
  <2> QED BY <1>3, <2>1, <2>3 DEF ReadSoFar, Factory!RightSoFar, Right
<1> QED BY <1>4, <1>5

\* The invariant speaks of the factories only.
LEMMA SameReadSoFar ==
    ASSUME ReadSoFar, UNCHANGED factoryVars
    PROVE  ReadSoFar'
<1> USE DEF factoryVars
<1>1. Factory!CursorOK'
  BY DEF ReadSoFar, Factory!CursorOK, Factory!TaskList, Factory!SystemList, Factory!ThisTask,
         Factory!ThisSystem
<1>2. /\ UNCHANGED config /\ SameTasks /\ SameSystems /\ SameComponents /\ SamePrograms
      /\ SameValues
  BY DEF SameTasks, SameSystems, SameComponents, SamePrograms, SameValues, Factory!TaskRead,
         Factory!SystemRead, Factory!ComponentRead, Factory!ProgramRead, Factory!ValueRead
<1>3. Factory!RightSoFar'
  BY <1>2, SameRight DEF ReadSoFar, Factory!RightSoFar, Factory!Reading
<1>4. Factory!VariablesSoFar'
  <2>1. Factory!ComponentsRead' = Factory!ComponentsRead
    BY <1>2, SameComponentsRead
  <2>2. \A segment, v : Factory!GivenSoFar(segment, v)' = Factory!GivenSoFar(segment, v)
    BY <1>2, SameGiven
  <2>3. \A segment \in Factory!Segment : SegmentSoFar(segment) => SegmentSoFar(segment)'
    BY <2>1, <2>2 DEF SegmentSoFar, Factory!VariablesOf
  <2> QED BY <2>3 DEF ReadSoFar, Factory!VariablesSoFar, SegmentSoFar, Factory!Reading
<1>5. Factory!AcceptedIfValid'
  BY <1>2, SameMeaning DEF ReadSoFar, Factory!AcceptedIfValid, Factory!Valid
<1> QED BY <1>1, <1>3, <1>4, <1>5 DEF ReadSoFar

\* A step of the program is one of the factories or leaves them alone.
LEMMA FactorySteps == [PlcNext]_plcVars => Factory!Next \/ UNCHANGED factoryVars
BY DEF PlcNext, FromFile, Reading, Configured, Refused, Scheduling, plcVars

LEMMA ReadInvariance == PlcSpec => []ReadSoFar
<1>1. ReadSoFar /\ [PlcNext]_plcVars => ReadSoFar'
  BY FactorySteps, NextReadSoFar, SameReadSoFar
<1> QED BY InitReadSoFar, <1>1, PTL DEF PlcSpec

\* Just the configurations with which nothing is wrong are accepted, and none ends the
\* process with an exception of another kind than those main catches unless something
\* other than yaml-cpp finds it wrong: for every set of files, of any size.
THEOREM Acceptance == PlcSpec => []AcceptedIfValid
<1>1. ReadSoFar => AcceptedIfValid
  BY DEF ReadSoFar, AcceptedIfValid
<1> QED BY ReadInvariance, <1>1, PTL

\* The global variables are those that some pin or topic names, each with its last
\* initial value.
THEOREM Variables == PlcSpec => []Factory!VariablesAsWritten
<1>1. ReadSoFar => Factory!VariablesAsWritten
  BY ConfiguredVariables DEF ReadSoFar
<1> QED BY ReadInvariance, <1>1, PTL

-----------------------------------------------------------------------------
(* Folds over the natural numbers.  The induction theorems of the library take *)
(* an operator; for a set they say the following. *)

LEMMA SetInduction ==
    ASSUME NEW S, 0 \in S, \A n \in Nat : n \in S => n + 1 \in S
    PROVE  \A n \in Nat : n \in S
<1> DEFINE R == {ss \in Nat \X Nat : ss[1] < ss[2]}
           T == Nat \ S
<1>1. SUFFICES ASSUME T # {} PROVE FALSE
  OBVIOUS
<1>2. IsWellFoundedOn(R, Nat)
  BY NatLessThanWellFounded DEF OpToRel
<1>3. PICK x \in T : \A y \in T : <<y, x>> \notin R
  <2> HIDE DEF R
  <2> QED BY <1>1, <1>2, WFMin
<1>4. x \in Nat /\ x # 0
  OBVIOUS
<1>5. x - 1 \in Nat /\ (x - 1) + 1 = x
  BY <1>4
<1>6. <<x - 1, x>> \in R
  BY <1>4, <1>5
<1>7. x - 1 \notin T
  <2> HIDE DEF R, T
  <2> QED BY <1>3, <1>6
<1> QED BY <1>3, <1>5, <1>7

\* The partial results of FlattenSeq.
IsFlat(f, s, n) == f = [i \in 1 .. n |-> IF i = 1 THEN s[i] ELSE f[i - 1] \o s[i]]

LEMMA FlatValue ==
    ASSUME NEW f, NEW s, NEW n, IsFlat(f, s, n)
    PROVE  \A i \in 1 .. n : f[i] = IF i = 1 THEN s[i] ELSE f[i - 1] \o s[i]
<1> DEFINE h == [i \in 1 .. n |-> IF i = 1 THEN s[i] ELSE f[i - 1] \o s[i]]
<1>1. \A i \in 1 .. n : h[i] = IF i = 1 THEN s[i] ELSE f[i - 1] \o s[i]
  OBVIOUS
<1>2. f = h
  BY DEF IsFlat
<1> QED BY <1>1, <1>2

LEMMA FlatExists ==
    ASSUME NEW s
    PROVE  \A n \in Nat : \E f : IsFlat(f, s, n)
<1> DEFINE S == {n \in Nat : \E f : IsFlat(f, s, n)}
<1>1. 0 \in S
  <2> DEFINE f == [i \in 1 .. 0 |-> s[i]]
  <2>1. IsFlat(f, s, 0)
    BY DEF IsFlat
  <2> QED BY <2>1
<1>2. ASSUME NEW n \in Nat, n \in S
      PROVE  n + 1 \in S
  <2>1. PICK f : IsFlat(f, s, n)
    BY <1>2
  <2>2. \A i \in 1 .. n : f[i] = IF i = 1 THEN s[i] ELSE f[i - 1] \o s[i]
    BY <2>1 DEF IsFlat
  <2> DEFINE value(i) == IF i = 1 THEN s[i] ELSE f[i - 1] \o s[i]
             g == [i \in 1 .. n + 1 |-> value(i)]
  <2>3. \A i \in 1 .. n : g[i] = f[i]
    BY <2>2
  <2>4. ASSUME NEW i \in 1 .. n + 1
        PROVE  g[i] = IF i = 1 THEN s[i] ELSE g[i - 1] \o s[i]
    <3>1. i # 1 => g[i - 1] = f[i - 1]
      <4>1. i # 1 => i - 1 \in 1 .. n
        OBVIOUS
      <4> HIDE DEF g
      <4> QED BY <2>3, <4>1
    <3>2. g[i] = value(i)
      OBVIOUS
    <3> HIDE DEF g
    <3> QED BY <3>1, <3>2
  <2>5. IsFlat(g, s, n + 1)
    <3>1. g = [i \in 1 .. n + 1 |-> g[i]]
      OBVIOUS
    <3> HIDE DEF g
    <3> QED BY <2>4, <3>1 DEF IsFlat
  <2> QED BY <2>5
<1> HIDE DEF S
<1>3. \A n \in Nat : n \in S
  BY <1>1, <1>2, SetInduction
<1> QED BY <1>3 DEF S

\* They depend on nothing behind them.
Agree(s, r, n) == \A i \in 1 .. n : s[i] = r[i]

LEMMA FlatUnique ==
    ASSUME NEW s, NEW r, NEW n \in Nat, NEW m \in Nat, n <= m,
           NEW f, NEW g, IsFlat(f, s, n), IsFlat(g, r, m),
           Agree(s, r, n)
    PROVE  Agree(f, g, n)
<1> DEFINE S == {i \in Nat : i \in 1 .. n => f[i] = g[i]}
<1>1. \A i \in 1 .. n : /\ f[i] = IF i = 1 THEN s[i] ELSE f[i - 1] \o s[i]
                        /\ g[i] = IF i = 1 THEN r[i] ELSE g[i - 1] \o r[i]
  <2>1. \A i \in 1 .. n : f[i] = IF i = 1 THEN s[i] ELSE f[i - 1] \o s[i]
    BY FlatValue
  <2>2. \A i \in 1 .. m : g[i] = IF i = 1 THEN r[i] ELSE g[i - 1] \o r[i]
    BY FlatValue
  <2>3. 1 .. n \subseteq 1 .. m
    OBVIOUS
  <2> QED BY <2>1, <2>2, <2>3
<1>2. 0 \in S
  OBVIOUS
<1>3. ASSUME NEW i \in Nat, i \in S
      PROVE  i + 1 \in S
  <2> SUFFICES ASSUME i + 1 \in 1 .. n PROVE f[i + 1] = g[i + 1]
    OBVIOUS
  <2>1. CASE i = 0
    BY <1>1, <2>1 DEF Agree
  <2>2. CASE i # 0
    <3>1. f[i] = g[i]
      BY <1>3, <2>2
    <3>2. (i + 1) - 1 = i /\ i + 1 # 1
      BY <2>2
    <3> QED BY <1>1, <3>1, <3>2 DEF Agree
  <2> QED BY <2>1, <2>2
<1> HIDE DEF S
<1>4. \A i \in Nat : i \in S
  BY <1>2, <1>3, SetInduction
<1> QED BY <1>4 DEF S, Agree

\* FlattenSeq appends the last sequence to those before it.
LEMMA FlattenNone ==
    ASSUME NEW s, Len(s) = 0
    PROVE  Factory!FlattenSeq(s) = s
BY DEF Factory!FlattenSeq

LEMMA FlattenIsFlat ==
    ASSUME NEW s, NEW n \in Nat, Len(s) = n, n # 0
    PROVE  \E f : IsFlat(f, s, n) /\ Factory!FlattenSeq(s) = f[n]
<1> DEFINE flatten == CHOOSE f : f = [i \in 1 .. Len(s) |->
                          IF i = 1 THEN s[i] ELSE f[i - 1] \o s[i]]
<1>1. \E f : f = [i \in 1 .. Len(s) |-> IF i = 1 THEN s[i] ELSE f[i - 1] \o s[i]]
  BY FlatExists DEF IsFlat
<1>2. IsFlat(flatten, s, n)
  <2>1. flatten = [i \in 1 .. Len(s) |-> IF i = 1 THEN s[i] ELSE flatten[i - 1] \o s[i]]
    BY <1>1
  <2> HIDE DEF flatten
  <2> QED BY <2>1 DEF IsFlat
<1>3. Factory!FlattenSeq(s) = flatten[n]
  BY DEF Factory!FlattenSeq
<1> QED BY <1>2, <1>3

LEMMA FlattenAppend ==
    ASSUME NEW s, NEW p, NEW n \in Nat, Len(s) = n + 1, Len(p) = n, n = 0 => p = <<>>,
           \A i \in 1 .. n : p[i] = s[i],
           NEW S, s[n + 1] \in Seq(S)
    PROVE  Factory!FlattenSeq(s) = Factory!FlattenSeq(p) \o s[n + 1]
<1>1. PICK g : IsFlat(g, s, n + 1) /\ Factory!FlattenSeq(s) = g[n + 1]
  BY FlattenIsFlat
<1>2. g[n + 1] = IF n + 1 = 1 THEN s[n + 1] ELSE g[(n + 1) - 1] \o s[n + 1]
  <2>1. n + 1 \in 1 .. n + 1
    OBVIOUS
  <2> QED BY <1>1, <2>1, FlatValue
<1>3. CASE n = 0
  <2>1. Factory!FlattenSeq(p) = <<>>
    BY <1>3, FlattenNone
  <2>2. <<>> \o s[n + 1] = s[n + 1]
    OBVIOUS
  <2> QED BY <1>1, <1>2, <1>3, <2>1, <2>2
<1>4. CASE n # 0
  <2>1. PICK f : IsFlat(f, p, n) /\ Factory!FlattenSeq(p) = f[n]
    BY <1>4, FlattenIsFlat
  <2>2. Agree(f, g, n)
    <3>1. PICK m \in Nat : m = n + 1
      OBVIOUS
    <3>2. n <= m /\ IsFlat(g, s, m) /\ IsFlat(f, p, n) /\ Agree(p, s, n)
      BY <1>1, <2>1, <3>1 DEF Agree
    <3> QED BY <3>2, FlatUnique
  <2>3. f[n] = g[n] /\ (n + 1) - 1 = n /\ n + 1 # 1
    BY <1>4, <2>2 DEF Agree
  <2> QED BY <1>1, <1>2, <2>1, <2>3
<1> QED BY <1>3, <1>4

-----------------------------------------------------------------------------
(* The pins of a bus, component by component. *)

\* Lists that are put together are of anything that is in one of them.
Prefix(h, n) == [i \in 1 .. n |-> h[i]]

LEMMA PrefixLength ==
    ASSUME NEW h, NEW n \in Nat
    PROVE  Len(Prefix(h, n)) = n /\ (n = 0 => Prefix(h, n) = <<>>)
<1>1. Prefix(h, n) \in Seq({h[i] : i \in 1 .. n})
  BY IsASeq DEF Prefix
<1>2. DOMAIN Prefix(h, n) = 1 .. n
  BY DEF Prefix
<1>3. Len(Prefix(h, n)) = n
  BY <1>1, <1>2, LenProperties
<1> QED BY <1>1, <1>3, EmptySeq

LEMMA FlattenPrefix ==
    ASSUME NEW h, NEW n \in Nat, NEW U, h[n + 1] \in Seq(U)
    PROVE  Factory!FlattenSeq(Prefix(h, n + 1)) = Factory!FlattenSeq(Prefix(h, n)) \o h[n + 1]
<1>1. /\ Len(Prefix(h, n + 1)) = n + 1 /\ Len(Prefix(h, n)) = n
      /\ n = 0 => Prefix(h, n) = <<>>
  BY PrefixLength
<1>2. /\ \A i \in 1 .. n : Prefix(h, n)[i] = Prefix(h, n + 1)[i]
      /\ Prefix(h, n + 1)[n + 1] = h[n + 1]
  BY DEF Prefix
<1>3. Prefix(h, n + 1)[n + 1] \in Seq(U)
  BY <1>2
<1>4. Factory!FlattenSeq(Prefix(h, n + 1))
        = Factory!FlattenSeq(Prefix(h, n)) \o Prefix(h, n + 1)[n + 1]
  BY <1>1, <1>2, <1>3, FlattenAppend
<1> QED BY <1>2, <1>4

LEMMA FlattenListed ==
    ASSUME NEW h, NEW U, NEW m \in Nat, \A i \in 1 .. m : h[i] \in Seq(U)
    PROVE  \A n \in 0 .. m : Factory!FlattenSeq(Prefix(h, n)) \in Seq(U)
<1> DEFINE S == {n \in Nat : n \in 0 .. m => Factory!FlattenSeq(Prefix(h, n)) \in Seq(U)}
<1>1. 0 \in S
  <2>1. Factory!FlattenSeq(Prefix(h, 0)) = <<>>
    BY PrefixLength, FlattenNone
  <2>2. <<>> \in Seq(U)
    BY EmptySeq
  <2> QED BY <2>1, <2>2
<1>2. ASSUME NEW n \in Nat, n \in S
      PROVE  n + 1 \in S
  <2> SUFFICES ASSUME n + 1 \in 0 .. m
               PROVE  Factory!FlattenSeq(Prefix(h, n + 1)) \in Seq(U)
    OBVIOUS
  <2>1. Factory!FlattenSeq(Prefix(h, n)) \in Seq(U) /\ h[n + 1] \in Seq(U)
    BY <1>2
  <2>2. Factory!FlattenSeq(Prefix(h, n)) \o h[n + 1] \in Seq(U)
    BY <2>1, ConcatProperties
  <2> QED BY <2>1, <2>2, FlattenPrefix
<1> HIDE DEF S
<1>3. \A n \in Nat : n \in S
  BY <1>1, <1>2, SetInduction
<1> QED BY <1>3 DEF S

\* What each component of a system adds to a list of pins.
BusPart(s, segment) ==
    [i \in DOMAIN s.components |->
        IF s.components[i].direction = segment
        THEN Factory!PinsOf(s.components[i], i) ELSE <<>>]
TopicPart(s, segment) ==
    [i \in DOMAIN s.components |->
        IF s.components[i].direction = segment THEN s.components[i].pins ELSE <<>>]

LEMMA PartsListed ==
    ASSUME NEW s, Factory!IsSystem(s), NEW segment
    PROVE  /\ Len(s.components) \in Nat /\ DOMAIN s.components = 1 .. Len(s.components)
           /\ \E U : \A i \in DOMAIN s.components :
                 BusPart(s, segment)[i] \in Seq(U) /\ TopicPart(s, segment)[i] \in Seq(U)
<1>1. Len(s.components) \in Nat /\ DOMAIN s.components = 1 .. Len(s.components)
  BY DEF Factory!IsSystem, Factory!IsList
<1> DEFINE bus == BusPart(s, segment)
           topics == TopicPart(s, segment)
           U == UNION {Factory!ToSet(bus[i]) \cup Factory!ToSet(topics[i]) :
                          i \in DOMAIN s.components}
<1>2. ASSUME NEW i \in DOMAIN s.components
      PROVE  bus[i] \in Seq(U) /\ topics[i] \in Seq(U)
  <2>1. Factory!IsComponent(s.components[i])
    BY DEF Factory!IsSystem, Factory!ToSet
  <2>2. /\ Len(s.components[i].pins) \in Nat
        /\ s.components[i].pins \in Seq(Factory!ToSet(s.components[i].pins))
    BY <2>1 DEF Factory!IsComponent, Factory!IsList
  <2>3. topics[i] \in Seq(Factory!ToSet(topics[i]))
    <3>1. topics[i] = s.components[i].pins \/ topics[i] = <<>>
      BY DEF TopicPart
    <3>2. <<>> \in Seq(Factory!ToSet(topics[i]))
      BY EmptySeq
    <3> HIDE DEF topics
    <3> QED BY <2>2, <3>1, <3>2
  <2>4. bus[i] \in Seq(Factory!ToSet(bus[i]))
    <3>1. bus[i] = Factory!PinsOf(s.components[i], i) \/ bus[i] = <<>>
      BY DEF BusPart
    <3>2. Factory!PinsOf(s.components[i], i)
             \in Seq(Factory!ToSet(Factory!PinsOf(s.components[i], i)))
      <4> DEFINE list == Factory!PinsOf(s.components[i], i)
      <4>1. /\ DOMAIN list = 1 .. Len(s.components[i].pins)
            /\ list = [j \in 1 .. Len(s.components[i].pins) |-> list[j]]
        BY DEF Factory!PinsOf
      <4>2. \A j \in 1 .. Len(s.components[i].pins) : list[j] \in Factory!ToSet(list)
        BY <4>1 DEF Factory!ToSet
      <4> HIDE DEF list
      <4>3. list \in Seq(Factory!ToSet(list))
        BY <2>2, <4>1, <4>2, IsASeq
      <4> QED BY <4>3 DEF list
    <3>3. <<>> \in Seq(Factory!ToSet(bus[i]))
      BY EmptySeq
    <3> HIDE DEF bus
    <3> QED BY <3>1, <3>2, <3>3
  <2>5. Factory!ToSet(bus[i]) \subseteq U /\ Factory!ToSet(topics[i]) \subseteq U
    OBVIOUS
  <2> HIDE DEF U, bus, topics
  <2> QED BY <2>3, <2>4, <2>5
<1> QED BY <1>1, <1>2

\* One more component.
LEMMA BusSequenceNext ==
    ASSUME NEW s, Factory!IsSystem(s), NEW segment, NEW n \in DOMAIN s.components
    PROVE  /\ \E U : /\ Factory!BusSequence(s, segment, n - 1) \in Seq(U)
                     /\ Factory!BusSequence(s, segment, n) \in Seq(U)
           /\ Factory!BusSequence(s, segment, n) =
                 IF s.components[n].direction = segment
                 THEN Factory!BusSequence(s, segment, n - 1)
                         \o Factory!PinsOf(s.components[n], n)
                 ELSE Factory!BusSequence(s, segment, n - 1)
<1>1. PICK U : \A i \in DOMAIN s.components : BusPart(s, segment)[i] \in Seq(U)
  BY PartsListed
<1>2. PICK m \in Nat : DOMAIN s.components = 1 .. m
  BY PartsListed
<1>3. PICK k \in Nat : k + 1 = n /\ k = n - 1 /\ k \in 0 .. m /\ n \in 0 .. m
  BY <1>2
<1>4. \A i \in 0 .. m :
         Factory!BusSequence(s, segment, i) = Factory!FlattenSeq(Prefix(BusPart(s, segment), i))
  <2> SUFFICES ASSUME NEW i \in 0 .. m
               PROVE  Factory!BusSequence(s, segment, i)
                         = Factory!FlattenSeq(Prefix(BusPart(s, segment), i))
    OBVIOUS
  <2>1. Prefix(BusPart(s, segment), i) =
           [j \in 1 .. i |-> IF s.components[j].direction = segment
                             THEN Factory!PinsOf(s.components[j], j) ELSE <<>>]
    BY <1>2 DEF Prefix, BusPart
  <2> QED BY <2>1 DEF Factory!BusSequence
<1>5. \A i \in 0 .. m : Factory!BusSequence(s, segment, i) \in Seq(U)
  BY <1>1, <1>2, <1>4, FlattenListed
<1>6. BusPart(s, segment)[n] =
         IF s.components[n].direction = segment
         THEN Factory!PinsOf(s.components[n], n) ELSE <<>>
  BY DEF BusPart
<1>7. Factory!BusSequence(s, segment, n)
         = Factory!BusSequence(s, segment, k) \o BusPart(s, segment)[n]
  BY <1>1, <1>3, <1>4, FlattenPrefix
<1>8. Factory!BusSequence(s, segment, k) \o <<>> = Factory!BusSequence(s, segment, k)
  BY <1>3, <1>5, ConcatEmptySeq
<1> QED BY <1>3, <1>5, <1>6, <1>7, <1>8

-----------------------------------------------------------------------------
(* The topics of MQTT, one after the other: the first of every key stays. *)

LEMMA TopicsNext ==
    ASSUME NEW s, Factory!IsSystem(s), NEW segment, NEW n \in DOMAIN s.components
    PROVE  \E U : /\ Factory!Topics(s, segment, n - 1) \in Seq(U)
                  /\ Factory!Topics(s, segment, n) \in Seq(U)
                  /\ IF s.components[n].direction = segment
                     THEN /\ s.components[n].pins \in Seq(U)
                          /\ Factory!Topics(s, segment, n) =
                                Factory!Topics(s, segment, n - 1) \o s.components[n].pins
                     ELSE Factory!Topics(s, segment, n) = Factory!Topics(s, segment, n - 1)
<1>1. PICK U : \A i \in DOMAIN s.components : TopicPart(s, segment)[i] \in Seq(U)
  BY PartsListed
<1>2. PICK m \in Nat : DOMAIN s.components = 1 .. m
  BY PartsListed
<1>3. PICK k \in Nat : k + 1 = n /\ k = n - 1 /\ k \in 0 .. m /\ n \in 0 .. m
  BY <1>2
<1>4. \A i \in 0 .. m :
         Factory!Topics(s, segment, i) = Factory!FlattenSeq(Prefix(TopicPart(s, segment), i))
  <2> SUFFICES ASSUME NEW i \in 0 .. m
               PROVE  Factory!Topics(s, segment, i)
                         = Factory!FlattenSeq(Prefix(TopicPart(s, segment), i))
    OBVIOUS
  <2>1. Prefix(TopicPart(s, segment), i) =
           [j \in 1 .. i |-> IF s.components[j].direction = segment
                             THEN s.components[j].pins ELSE <<>>]
    BY <1>2 DEF Prefix, TopicPart
  <2> QED BY <2>1 DEF Factory!Topics
<1>5. \A i \in 0 .. m : Factory!Topics(s, segment, i) \in Seq(U)
  BY <1>1, <1>2, <1>4, FlattenListed
<1>6. TopicPart(s, segment)[n] =
         IF s.components[n].direction = segment THEN s.components[n].pins ELSE <<>>
  BY DEF TopicPart
<1>7. Factory!Topics(s, segment, n)
         = Factory!Topics(s, segment, k) \o TopicPart(s, segment)[n]
  BY <1>1, <1>3, <1>4, FlattenPrefix
<1>8. Factory!Topics(s, segment, k) \o <<>> = Factory!Topics(s, segment, k)
  BY <1>3, <1>5, ConcatEmptySeq
<1>9. TopicPart(s, segment)[n] \in Seq(U)
  BY <1>1
<1> QED BY <1>3, <1>5, <1>6, <1>7, <1>8, <1>9

LEMMA LeastOf ==
    ASSUME NEW T \in SUBSET Nat, T # {}
    PROVE  \E x \in T : \A y \in T : x <= y
<1> DEFINE R == {ss \in Nat \X Nat : ss[1] < ss[2]}
<1>1. IsWellFoundedOn(R, Nat)
  BY NatLessThanWellFounded DEF OpToRel
<1>2. PICK x \in T : \A y \in T : <<y, x>> \notin R
  <2> HIDE DEF R
  <2> QED BY <1>1, WFMin
<1>3. ASSUME NEW y \in T PROVE x <= y
  <2>1. ~(y < x)
    BY <1>2
  <2> QED BY <2>1
<1> QED BY <1>3

\* The entries up to the m-th that no earlier one has the key of.
FirstUpTo(segment, list, m) ==
    {list[i] : i \in {j \in 1 .. m :
        \A k \in 1 .. j - 1 : Factory!Key(segment, list[k]) # Factory!Key(segment, list[j])}}

\* Among them are entries of every key.
LEMMA FirstKeys ==
    ASSUME NEW segment, NEW list, NEW m \in Nat, NEW j \in 1 .. m
    PROVE  \E p \in FirstUpTo(segment, list, m) :
              Factory!Key(segment, p) = Factory!Key(segment, list[j])
<1> DEFINE key(i) == Factory!Key(segment, list[i])
           T == {i \in 1 .. m : key(i) = key(j)}
<1>1. PICK x \in T : \A y \in T : x <= y
  <2>1. T \in SUBSET Nat /\ j \in T
    OBVIOUS
  <2> HIDE DEF T
  <2> QED BY <2>1, LeastOf
<1>2. x \in 1 .. m /\ key(x) = key(j)
  OBVIOUS
<1>3. ASSUME NEW k \in 1 .. x - 1
      PROVE  key(k) # key(x)
  <2>1. k \in 1 .. m /\ ~(x <= k)
    BY <1>2
  <2> QED BY <1>1, <1>2, <2>1
<1>4. list[x] \in FirstUpTo(segment, list, m)
  BY <1>2, <1>3 DEF FirstUpTo
<1> QED BY <1>2, <1>4

\* The key of the next entry is taken.
KeyTaken(segment, list, m) ==
    \E p \in FirstUpTo(segment, list, m) :
        Factory!Key(segment, p) = Factory!Key(segment, list[m + 1])

\* One more entry.
LEMMA FirstNext ==
    ASSUME NEW segment, NEW list, NEW m \in Nat
    PROVE  /\ KeyTaken(segment, list, m) =>
                 FirstUpTo(segment, list, m + 1) = FirstUpTo(segment, list, m)
           /\ ~KeyTaken(segment, list, m) =>
                 FirstUpTo(segment, list, m + 1)
                    = FirstUpTo(segment, list, m) \cup {list[m + 1]}
<1> DEFINE key(i) == Factory!Key(segment, list[i])
           first(n) == {j \in 1 .. n : \A k \in 1 .. j - 1 : key(k) # key(j)}
           taken == KeyTaken(segment, list, m)
<1>1. \A n : FirstUpTo(segment, list, n) = {list[i] : i \in first(n)}
  BY DEF FirstUpTo
<1>2. taken <=> \E k \in 1 .. m : key(k) = key(m + 1)
  <2> USE DEF KeyTaken
  <2>1. ASSUME NEW k \in 1 .. m, key(k) = key(m + 1)
        PROVE  taken
    BY <2>1, FirstKeys
  <2>2. ASSUME taken
        PROVE  \E k \in 1 .. m : key(k) = key(m + 1)
    <3>1. PICK i \in first(m) : key(i) = key(m + 1)
      BY <1>1, <2>2
    <3> QED BY <3>1
  <2> QED BY <2>1, <2>2
<1>3. CASE taken
  <2>1. first(m + 1) = first(m)
    <3>1. \A j \in 1 .. m + 1 : j \in 1 .. m \/ j = m + 1
      OBVIOUS
    <3>2. m + 1 \notin first(m + 1)
      BY <1>2, <1>3
    <3>3. 1 .. m \subseteq 1 .. m + 1
      OBVIOUS
    <3> HIDE DEF key
    <3> QED BY <3>1, <3>2, <3>3
  <2> HIDE DEF first, taken
  <2> QED BY <1>1, <1>3, <2>1 DEF taken
<1>4. CASE ~taken
  <2>1. first(m + 1) = first(m) \cup {m + 1}
    <3>1. \A j \in 1 .. m + 1 : j \in 1 .. m \/ j = m + 1
      OBVIOUS
    <3>2. m + 1 \in first(m + 1)
      BY <1>2, <1>4
    <3>3. 1 .. m \subseteq 1 .. m + 1
      OBVIOUS
    <3> HIDE DEF key
    <3> QED BY <3>1, <3>2, <3>3
  <2> HIDE DEF first, taken
  <2> QED BY <1>1, <1>4, <2>1 DEF taken
<1> QED BY <1>3, <1>4

\* emplace keeps what is there.
LEMMA EmplaceFirst ==
    ASSUME NEW segment, NEW list, NEW m \in Nat, NEW U, NEW mapping \in Seq(U),
           list[m + 1] \in U,
           Factory!ToSet(mapping) = FirstUpTo(segment, list, m)
    PROVE  /\ Factory!Emplace(segment, mapping, list[m + 1]) \in Seq(U)
           /\ Factory!ToSet(Factory!Emplace(segment, mapping, list[m + 1]))
                 = FirstUpTo(segment, list, m + 1)
<1>1. /\ KeyTaken(segment, list, m) =>
            FirstUpTo(segment, list, m + 1) = FirstUpTo(segment, list, m)
      /\ ~KeyTaken(segment, list, m) =>
            FirstUpTo(segment, list, m + 1) = FirstUpTo(segment, list, m) \cup {list[m + 1]}
  BY FirstNext
<1> DEFINE pin == list[m + 1]
           taken == KeyTaken(segment, list, m)
<1>2. Factory!Emplace(segment, mapping, pin) = IF taken THEN mapping ELSE Append(mapping, pin)
  BY DEF Factory!Emplace, KeyTaken
<1>3. Append(mapping, pin) \in Seq(U)
  OBVIOUS
<1>4. Factory!ToSet(Append(mapping, pin)) = Factory!ToSet(mapping) \cup {pin}
  <2>1. /\ Len(mapping) \in Nat /\ DOMAIN mapping = 1 .. Len(mapping)
        /\ DOMAIN Append(mapping, pin) = 1 .. Len(mapping) + 1
        /\ \A i \in 1 .. Len(mapping) : Append(mapping, pin)[i] = mapping[i]
        /\ Append(mapping, pin)[Len(mapping) + 1] = pin
    OBVIOUS
  <2>2. \A i \in 1 .. Len(mapping) + 1 : i \in 1 .. Len(mapping) \/ i = Len(mapping) + 1
    BY <2>1
  <2>3. 1 .. Len(mapping) \subseteq 1 .. Len(mapping) + 1
        /\ Len(mapping) + 1 \in 1 .. Len(mapping) + 1
    BY <2>1
  <2> HIDE DEF pin
  <2> QED BY <2>1, <2>2, <2>3 DEF Factory!ToSet
<1> HIDE DEF pin, taken
<1>5. CASE taken
  BY <1>1, <1>2, <1>5 DEF pin, taken
<1>6. CASE ~taken
  BY <1>1, <1>2, <1>3, <1>4, <1>6 DEF pin, taken
<1> QED BY <1>5, <1>6

\* The partial results of EmplaceAll.
IsMapping(f, segment, known, pins, n) ==
    f = [i \in 0 .. n |->
            IF i = 0 THEN known ELSE Factory!Emplace(segment, f[i - 1], pins[i])]

LEMMA MappingValue ==
    ASSUME NEW f, NEW segment, NEW known, NEW pins, NEW n,
           IsMapping(f, segment, known, pins, n)
    PROVE  \A i \in 0 .. n :
              f[i] = IF i = 0 THEN known ELSE Factory!Emplace(segment, f[i - 1], pins[i])
<1> DEFINE h == [i \in 0 .. n |->
                    IF i = 0 THEN known ELSE Factory!Emplace(segment, f[i - 1], pins[i])]
<1>1. \A i \in 0 .. n :
         h[i] = IF i = 0 THEN known ELSE Factory!Emplace(segment, f[i - 1], pins[i])
  OBVIOUS
<1>2. f = h
  BY DEF IsMapping
<1> QED BY <1>1, <1>2

LEMMA MappingExists ==
    ASSUME NEW segment, NEW known, NEW pins
    PROVE  \A n \in Nat : \E f : IsMapping(f, segment, known, pins, n)
<1> DEFINE S == {n \in Nat : \E f : IsMapping(f, segment, known, pins, n)}
<1>1. 0 \in S
  <2> DEFINE f == [i \in 0 .. 0 |-> known]
  <2>1. IsMapping(f, segment, known, pins, 0)
    BY DEF IsMapping
  <2> QED BY <2>1
<1>2. ASSUME NEW n \in Nat, n \in S
      PROVE  n + 1 \in S
  <2>1. PICK f : IsMapping(f, segment, known, pins, n)
    BY <1>2
  <2> DEFINE value(i) == IF i = 0 THEN known ELSE Factory!Emplace(segment, f[i - 1], pins[i])
             g == [i \in 0 .. n + 1 |-> value(i)]
  <2>2. \A i \in 0 .. n : g[i] = f[i]
    BY <2>1, MappingValue
  <2>3. ASSUME NEW i \in 0 .. n + 1
        PROVE  g[i] = IF i = 0 THEN known ELSE Factory!Emplace(segment, g[i - 1], pins[i])
    <3>1. i # 0 => g[i - 1] = f[i - 1]
      <4>1. i # 0 => i - 1 \in 0 .. n
        OBVIOUS
      <4> HIDE DEF g
      <4> QED BY <2>2, <4>1
    <3>2. g[i] = value(i)
      OBVIOUS
    <3> HIDE DEF g
    <3> QED BY <3>1, <3>2
  <2>4. IsMapping(g, segment, known, pins, n + 1)
    <3>1. g = [i \in 0 .. n + 1 |-> g[i]]
      OBVIOUS
    <3> HIDE DEF g
    <3> QED BY <2>3, <3>1 DEF IsMapping
  <2> QED BY <2>4
<1> HIDE DEF S
<1>3. \A n \in Nat : n \in S
  BY <1>1, <1>2, SetInduction
<1> QED BY <1>3 DEF S

LEMMA EmplaceAllIsMapping ==
    ASSUME NEW segment, NEW known, NEW pins, NEW n \in Nat, Len(pins) = n
    PROVE  \E f : /\ IsMapping(f, segment, known, pins, n)
                  /\ Factory!EmplaceAll(segment, known, pins) = f[n]
<1> DEFINE mapping == CHOOSE f : f = [i \in 0 .. Len(pins) |->
               IF i = 0 THEN known ELSE Factory!Emplace(segment, f[i - 1], pins[i])]
<1>1. \E f : f = [i \in 0 .. Len(pins) |->
                    IF i = 0 THEN known ELSE Factory!Emplace(segment, f[i - 1], pins[i])]
  <2>1. \E f : IsMapping(f, segment, known, pins, n)
    BY MappingExists
  <2> QED BY <2>1 DEF IsMapping
<1>2. IsMapping(mapping, segment, known, pins, n)
  <2>1. mapping = [i \in 0 .. Len(pins) |->
                IF i = 0 THEN known ELSE Factory!Emplace(segment, mapping[i - 1], pins[i])]
    BY <1>1
  <2> HIDE DEF mapping
  <2> QED BY <2>1 DEF IsMapping
<1>3. Factory!EmplaceAll(segment, known, pins) = mapping[n]
  BY DEF Factory!EmplaceAll
<1> QED BY <1>2, <1>3

\* What comes behind a list does not change the entries of it that are first.
LEMMA EmplaceAllFirst ==
    ASSUME NEW segment, NEW U, NEW list \in Seq(U), NEW pins \in Seq(U),
           NEW known \in Seq(U), Factory!ToSet(known) = Factory!FirstOfKey(segment, list)
    PROVE  /\ Factory!EmplaceAll(segment, known, pins) \in Seq(U)
           /\ Factory!ToSet(Factory!EmplaceAll(segment, known, pins))
                 = Factory!FirstOfKey(segment, list \o pins)
<1>1. PICK l \in Nat : l = Len(list) /\ DOMAIN list = 1 .. l
  BY LenProperties
<1>2. PICK n \in Nat : n = Len(pins) /\ DOMAIN pins = 1 .. n
  BY LenProperties
<1> DEFINE all == list \o pins
<1>3. all \in Seq(U) /\ Len(all) = l + n
  BY <1>1, <1>2, ConcatProperties
<1>4. \A i \in 1 .. l : all[i] = list[i]
  BY <1>1, <1>2, ConcatProperties
<1>5. \A i \in 1 .. n : all[l + i] = pins[i] /\ pins[i] \in U
  BY <1>1, <1>2, ConcatProperties, LenProperties
<1>6. Factory!ToSet(known) = FirstUpTo(segment, all, l)
  <2>1. Factory!FirstOfKey(segment, list) =
           {list[i] : i \in {j \in 1 .. l : \A k \in 1 .. j - 1 :
               Factory!Key(segment, list[k]) # Factory!Key(segment, list[j])}}
    BY <1>1 DEF Factory!FirstOfKey
  <2>2. \A j \in 1 .. l : \A k \in 1 .. j - 1 : k \in 1 .. l
    OBVIOUS
  <2> HIDE DEF all
  <2> QED BY <1>4, <2>1, <2>2 DEF FirstUpTo
<1>7. Factory!FirstOfKey(segment, all) = FirstUpTo(segment, all, l + n)
  <2>1. DOMAIN all = 1 .. l + n
    BY <1>3, LenProperties
  <2> HIDE DEF all
  <2> QED BY <2>1 DEF Factory!FirstOfKey, FirstUpTo
<1> HIDE DEF all
<1>8. PICK f : /\ IsMapping(f, segment, known, pins, n)
               /\ Factory!EmplaceAll(segment, known, pins) = f[n]
  <2>1. Len(pins) = n
    BY <1>2
  <2> QED BY <2>1, EmplaceAllIsMapping
<1> DEFINE S == {i \in Nat : i \in 0 .. n =>
                    f[i] \in Seq(U) /\ Factory!ToSet(f[i]) = FirstUpTo(segment, all, l + i)}
<1>9. 0 \in S
  <2>1. f[0] = known /\ l + 0 = l
    BY <1>8, MappingValue
  <2> QED BY <1>6, <2>1
<1>10. ASSUME NEW i \in Nat, i \in S
       PROVE  i + 1 \in S
  <2> SUFFICES ASSUME i + 1 \in 0 .. n
               PROVE  /\ f[i + 1] \in Seq(U)
                      /\ Factory!ToSet(f[i + 1]) = FirstUpTo(segment, all, l + (i + 1))
    OBVIOUS
  <2>1. f[i] \in Seq(U) /\ Factory!ToSet(f[i]) = FirstUpTo(segment, all, l + i)
    BY <1>10
  <2>2. PICK m \in Nat : m = l + i /\ m + 1 = l + (i + 1)
    OBVIOUS
  <2>3. all[m + 1] = pins[i + 1] /\ pins[i + 1] \in U
    BY <1>5, <2>2
  <2>4. f[i + 1] = Factory!Emplace(segment, f[i], all[m + 1])
    <3>1. (i + 1) - 1 = i /\ i + 1 # 0
      OBVIOUS
    <3>2. \A j \in 0 .. n :
             f[j] = IF j = 0 THEN known ELSE Factory!Emplace(segment, f[j - 1], pins[j])
      BY <1>8, MappingValue
    <3> QED BY <2>3, <3>1, <3>2
  <2> HIDE DEF S
  <2> QED BY <2>1, <2>2, <2>3, <2>4, EmplaceFirst
<1> HIDE DEF S
<1>11. \A i \in Nat : i \in S
  BY <1>9, <1>10, SetInduction
<1>12. f[n] \in Seq(U) /\ Factory!ToSet(f[n]) = FirstUpTo(segment, all, l + n)
  BY <1>11 DEF S
<1> QED BY <1>7, <1>8, <1>12 DEF all

-----------------------------------------------------------------------------
(* TasksSoFar *)

\* The copy sequences under construction are lists.
SequencesListed ==
    pcFactory = "component" =>
        /\ DOMAIN sequences = Factory!Segment
        /\ \A segment \in Factory!Segment : \E U : sequences[segment] \in Seq(U)

\* What TasksSoFar says of one task.
LogicSoFar(t) ==
    /\ Len(logics[t]) = Factory!SystemsDone(t)
    /\ \A s \in 1 .. Factory!SystemsDone(t) :
          Factory!SystemAsWritten(logics[t][s], config.tasks[t].io[s])
ProgramsSoFar(t) ==
    programs[t] = [i \in 1 .. Factory!ProgramsDone(t) |-> config.tasks[t].programs[i].type]
TasksBuilt ==
    /\ Len(logics) = Factory!Composites /\ Len(programs) = Factory!Installed
    /\ \A t \in 1 .. Factory!Composites : LogicSoFar(t)
    /\ \A t \in 1 .. Factory!Installed : ProgramsSoFar(t)
ListsBuilt ==
    pcFactory = "component" =>
        Factory!SequencesAsWritten(sequences, SystemNode, item - 1)

LEMMA TasksSoFarParts == Factory!TasksSoFar <=> (Factory!Reading => TasksBuilt /\ ListsBuilt)
BY DEF Factory!TasksSoFar, TasksBuilt, LogicSoFar, ProgramsSoFar, ListsBuilt, SystemNode,
       Factory!ThisSystem, Factory!ThisTask

LEMMA SameLogic ==
    ASSUME NEW t, UNCHANGED config, logics'[t] = logics[t],
           Factory!SystemsDone(t)' = Factory!SystemsDone(t), LogicSoFar(t)
    PROVE  LogicSoFar(t)'
<1>1. \A l, n : Factory!SystemAsWritten(l, n)' <=> Factory!SystemAsWritten(l, n)
  BY DEF Factory!SystemAsWritten, Factory!SequencesAsWritten, Factory!BusSequence,
         Factory!Topics, Factory!FirstOfKey, Factory!Key, Factory!PinsOf
<1> QED BY <1>1 DEF LogicSoFar

LEMMA SameProgram ==
    ASSUME NEW t, UNCHANGED config, programs'[t] = programs[t],
           Factory!ProgramsDone(t)' = Factory!ProgramsDone(t), ProgramsSoFar(t)
    PROVE  ProgramsSoFar(t)'
BY DEF ProgramsSoFar

-----------------------------------------------------------------------------
(* The copy sequences of the next component. *)

\* None is there before the first.
LEMMA NoSequences ==
    ASSUME NEW s
    PROVE  Factory!SequencesAsWritten(Factory!Empty, s, 0)
<1>1. ASSUME NEW segment \in Factory!Segment
      PROVE  /\ Factory!Empty[segment] = <<>>
             /\ Factory!BusSequence(s, segment, 0) = <<>>
             /\ Factory!Topics(s, segment, 0) = <<>>
  <2>1. \A h : Factory!FlattenSeq(Prefix(h, 0)) = <<>>
    BY PrefixLength, FlattenNone
  <2> DEFINE h == [i \in 1 .. 0 |-> <<>>]
  <2>2. /\ Prefix(h, 0) = [i \in 1 .. 0 |-> IF s.components[i].direction = segment
                              THEN Factory!PinsOf(s.components[i], i) ELSE <<>>]
        /\ Prefix(h, 0) = [i \in 1 .. 0 |-> IF s.components[i].direction = segment
                              THEN s.components[i].pins ELSE <<>>]
    BY DEF Prefix
  <2> HIDE DEF h
  <2> QED BY <2>1, <2>2 DEF Factory!BusSequence, Factory!Topics, Factory!Empty
<1>2. \A segment : Factory!FirstOfKey(segment, <<>>) = {} /\ Factory!ToSet(<<>>) = {}
  BY DEF Factory!FirstOfKey, Factory!ToSet
<1> QED BY <1>1, <1>2 DEF Factory!SequencesAsWritten

\* What InsertCopySequence makes of one list.
Inserted(s, known, segment, n) ==
    IF s.components[n].direction # segment THEN known
    ELSE IF s.type = "mqtt"
         THEN Factory!EmplaceAll(segment, known, s.components[n].pins)
         ELSE known \o Factory!PinsOf(s.components[n], n)

\* It is what one more component is to come to.
LEMMA InsertedAsWritten ==
    ASSUME NEW s, Factory!IsSystem(s), NEW segment, NEW n \in DOMAIN s.components,
           NEW V, NEW known \in Seq(V),
           IF s.type = "mqtt"
           THEN Factory!ToSet(known)
                   = Factory!FirstOfKey(segment, Factory!Topics(s, segment, n - 1))
           ELSE known = Factory!BusSequence(s, segment, n - 1)
    PROVE  /\ \E U : Inserted(s, known, segment, n) \in Seq(U)
           /\ IF s.type = "mqtt"
              THEN Factory!ToSet(Inserted(s, known, segment, n))
                      = Factory!FirstOfKey(segment, Factory!Topics(s, segment, n))
              ELSE Inserted(s, known, segment, n) = Factory!BusSequence(s, segment, n)
<1>1. CASE s.type = "mqtt"
  <2>1. PICK U : /\ Factory!Topics(s, segment, n - 1) \in Seq(U)
                 /\ IF s.components[n].direction = segment
                    THEN /\ s.components[n].pins \in Seq(U)
                         /\ Factory!Topics(s, segment, n) =
                               Factory!Topics(s, segment, n - 1) \o s.components[n].pins
                    ELSE Factory!Topics(s, segment, n) = Factory!Topics(s, segment, n - 1)
    BY TopicsNext
  <2>2. CASE s.components[n].direction = segment
    <3> DEFINE W == U \cup V
    <3>1. /\ Factory!Topics(s, segment, n - 1) \in Seq(W)
          /\ s.components[n].pins \in Seq(W) /\ known \in Seq(W)
      BY <2>1, <2>2
    <3> HIDE DEF W
    <3>2. Factory!ToSet(known)
             = Factory!FirstOfKey(segment, Factory!Topics(s, segment, n - 1))
      BY <1>1
    <3>3. /\ Factory!EmplaceAll(segment, known, s.components[n].pins) \in Seq(W)
          /\ Factory!ToSet(Factory!EmplaceAll(segment, known, s.components[n].pins))
                = Factory!FirstOfKey(segment, Factory!Topics(s, segment, n - 1)
                                                 \o s.components[n].pins)
      BY <3>1, <3>2, EmplaceAllFirst
    <3> QED BY <1>1, <2>1, <2>2, <3>3 DEF Inserted
  <2>3. CASE s.components[n].direction # segment
    BY <1>1, <2>1, <2>3 DEF Inserted
  <2> QED BY <2>2, <2>3
<1>2. CASE s.type # "mqtt"
  <2>1. Inserted(s, known, segment, n) = Factory!BusSequence(s, segment, n)
    <3>1. known = Factory!BusSequence(s, segment, n - 1)
      BY <1>2
    <3>2. Factory!BusSequence(s, segment, n) =
             IF s.components[n].direction = segment
             THEN Factory!BusSequence(s, segment, n - 1) \o Factory!PinsOf(s.components[n], n)
             ELSE Factory!BusSequence(s, segment, n - 1)
      BY BusSequenceNext
    <3> QED BY <1>2, <3>1, <3>2 DEF Inserted
  <2>2. \E U : Factory!BusSequence(s, segment, n) \in Seq(U)
    BY BusSequenceNext
  <2> QED BY <1>2, <2>1, <2>2
<1> QED BY <1>1, <1>2

LEMMA AddComponentSequences ==
    ASSUME Factory!CursorOK, Factory!Reading', Factory!AddComponent, SequencesListed, ListsBuilt
    PROVE  SequencesListed' /\ ListsBuilt'
<1>1. /\ pcFactory = "component" /\ pcFactory' = "component" /\ UNCHANGED <<config, task, system>>
      /\ task \in Factory!TaskList /\ system \in Factory!SystemList(task)
      /\ item \in Factory!ComponentList(task, system) /\ item' = item + 1
      /\ Factory!InsertCopySequence(ComponentNode)
  BY AddComponentGoes
<1>2. config \in Config
  BY DEF Factory!CursorOK
<1>3. Factory!IsSystem(SystemNode) /\ item \in DOMAIN SystemNode.components
  <2>1. Factory!IsTask(config.tasks[task])
    BY <1>1, <1>2, ConfigAssumption DEF Factory!IsTree, Factory!ToSet, Factory!TaskList
  <2> QED BY <1>1, <2>1 DEF Factory!IsTask, Factory!ToSet, Factory!SystemList,
                            Factory!ComponentList, SystemNode
<1>4. ComponentNode.direction \in Factory!Segment
  <2>1. Factory!IsComponent(ComponentNode)
    BY <1>3 DEF Factory!IsSystem, Factory!ToSet, ComponentNode
  <2> QED BY <2>1 DEF Factory!IsComponent
<1>5. DOMAIN sequences = Factory!Segment
  BY <1>1 DEF SequencesListed
<1>6. /\ DOMAIN sequences' = Factory!Segment
      /\ \A segment \in Factory!Segment :
            sequences'[segment] = Inserted(SystemNode, sequences[segment], segment, item)
  BY <1>1, <1>4, <1>5 DEF Factory!InsertCopySequence, Inserted, ComponentNode, SystemNode,
                          Factory!ThisSystem, Factory!ThisTask
<1>7. ASSUME NEW segment \in Factory!Segment
      PROVE  /\ \E U : sequences'[segment] \in Seq(U)
             /\ IF SystemNode.type = "mqtt"
                THEN Factory!ToSet(sequences'[segment])
                        = Factory!FirstOfKey(segment, Factory!Topics(SystemNode, segment, item))
                ELSE sequences'[segment] = Factory!BusSequence(SystemNode, segment, item)
  <2>1. PICK V : sequences[segment] \in Seq(V)
    BY <1>1 DEF SequencesListed
  <2>2. IF SystemNode.type = "mqtt"
        THEN Factory!ToSet(sequences[segment])
                = Factory!FirstOfKey(segment, Factory!Topics(SystemNode, segment, item - 1))
        ELSE sequences[segment] = Factory!BusSequence(SystemNode, segment, item - 1)
    BY <1>1 DEF ListsBuilt, Factory!SequencesAsWritten
  <2> QED BY <1>3, <1>6, <2>1, <2>2, InsertedAsWritten
<1>8. Factory!SequencesAsWritten(sequences', SystemNode, item)
  BY <1>7 DEF Factory!SequencesAsWritten
<1>9. item' - 1 = item /\ SystemNode' = SystemNode
  <2>1. item \in Nat
    <3>1. Factory!ComponentList(task, system)
             = 1 .. Len(config.tasks[task].io[system].components)
      BY <1>1, <1>2, NodesOfSystem
    <3> QED BY <1>1, <3>1
  <2> QED BY <1>1, <2>1 DEF SystemNode
<1>10. SequencesListed'
  BY <1>1, <1>6, <1>7 DEF SequencesListed
<1>11. ListsBuilt'
  <2>1. Factory!SequencesAsWritten(sequences', SystemNode', item' - 1)
    BY <1>8, <1>9
  <2> QED BY <2>1 DEF ListsBuilt, Factory!SequencesAsWritten, Factory!BusSequence,
                      Factory!Topics, Factory!FirstOfKey, Factory!Key, Factory!PinsOf
<1> QED BY <1>10, <1>11

-----------------------------------------------------------------------------
(* What every step makes of the composites and the programs. *)

TaskIInv == Factory!CursorOK /\ FactoryInv /\ TasksBuilt

\* How far the tasks are when the next node is read.
LEMMA Counts ==
    ASSUME Factory!CursorOK
    PROVE  /\ Len(config.tasks) \in Nat
           /\ pcFactory \in {"task", "system", "component", "program"} => task \in Nat \ {0}
           /\ \A t \in 1 .. Len(config.tasks) :
                 Len(config.tasks[t].io) \in Nat /\ Len(config.tasks[t].programs) \in Nat
           /\ pcFactory \in {"system", "component", "program"} =>
                 task \in 1 .. Len(config.tasks)
           /\ pcFactory \in {"value", "configured"} => task = Len(config.tasks) + 1
<1>1. config \in Config /\ Len(config.tasks) \in Nat
      /\ Factory!TaskList = 1 .. Len(config.tasks)
  BY Nodes DEF Factory!CursorOK
<1>2. \A t \in 1 .. Len(config.tasks) :
         Len(config.tasks[t].io) \in Nat /\ Len(config.tasks[t].programs) \in Nat
  BY <1>1, NodesOfTask
<1> QED BY <1>1, <1>2 DEF Factory!CursorOK

LEMMA BeginTaskTasks ==
    ASSUME TaskIInv, Factory!BeginTask
    PROVE  TasksBuilt'
<1> USE DEF TaskIInv
<1>1. /\ pcFactory = "task" /\ pcFactory' = "system" /\ task \in Factory!TaskList
      /\ system' = 1 /\ logics' = Append(logics, <<>>)
      /\ UNCHANGED <<config, task, programs>>
  BY BeginTaskGoes
<1>2. task \in Nat \ {0} /\ Factory!TaskList = 1 .. Len(config.tasks)
  BY <1>1, Counts, Nodes DEF Factory!CursorOK
<1>3. PICK n \in Nat : n = task - 1 /\ n + 1 = task
  BY <1>2
<1>4. ListOf(logics, n) /\ Len(logics) = n
  BY <1>1, <1>3 DEF FactoryInv, Grown, ListOf
<1>5. /\ Len(logics') = task /\ logics'[task] = <<>>
      /\ \A t \in 1 .. n : logics'[t] = logics[t]
  <2>1. PICK e : e = <<>>
    OBVIOUS
  <2>2. /\ Len(Append(logics, e)) = n + 1 /\ Append(logics, e)[n + 1] = e
        /\ \A t \in 1 .. n : Append(logics, e)[t] = logics[t]
    <3>1. PICK S : logics \in Seq(S) /\ Len(logics) = n
      BY <1>4 DEF ListOf
    <3>2. logics \in Seq(S \cup {e})
      BY <3>1
    <3> QED BY <3>1, <3>2
  <2> QED BY <1>1, <1>3, <2>1, <2>2
<1>6. /\ Factory!Composites = n /\ Factory!Composites' = task
      /\ Factory!Installed = n /\ Factory!Installed' = n
  BY <1>1, <1>3 DEF Factory!Composites, Factory!Installed
<1>7. ASSUME NEW t \in 1 .. n
      PROVE  LogicSoFar(t)' /\ ProgramsSoFar(t)'
  <2>1. t # task
    BY <1>3
  <2>2. /\ Factory!SystemsDone(t)' = Factory!SystemsDone(t)
        /\ Factory!ProgramsDone(t)' = Factory!ProgramsDone(t)
    BY <1>1, <2>1 DEF Factory!SystemsDone, Factory!ProgramsDone
  <2>3. LogicSoFar(t) /\ ProgramsSoFar(t)
    BY <1>6 DEF TasksBuilt
  <2> QED BY <1>1, <1>5, <2>2, <2>3, SameLogic, SameProgram
<1>8. ASSUME NEW t, t = task
      PROVE  LogicSoFar(t)'
  <2>1. Factory!SystemsDone(t)' = 0
    BY <1>1, <1>8 DEF Factory!SystemsDone
  <2>2. Len(logics'[t]) = 0
    BY <1>5, <1>8
  <2>3. 1 .. 0 = {}
    OBVIOUS
  <2> QED BY <2>1, <2>2, <2>3 DEF LogicSoFar
<1>9. \A t \in 1 .. task : LogicSoFar(t)'
  <2>1. \A t \in 1 .. task : t \in 1 .. n \/ t = task
    BY <1>2, <1>3
  <2> QED BY <1>7, <1>8, <2>1
<1>10. Len(programs') = n
  BY <1>1, <1>6 DEF TasksBuilt
<1> QED BY <1>5, <1>6, <1>7, <1>9, <1>10 DEF TasksBuilt

\* Steps that build nothing.
LEMMA SameTasksBuilt ==
    ASSUME TasksBuilt, UNCHANGED <<config, logics, programs>>,
           Factory!Composites' = Factory!Composites, Factory!Installed' = Factory!Installed,
           \A t \in 1 .. Factory!Composites : Factory!SystemsDone(t)' = Factory!SystemsDone(t),
           \A t \in 1 .. Factory!Installed : Factory!ProgramsDone(t)' = Factory!ProgramsDone(t)
    PROVE  TasksBuilt'
<1>1. ASSUME NEW t \in 1 .. Factory!Composites PROVE LogicSoFar(t)'
  BY SameLogic DEF TasksBuilt
<1>2. ASSUME NEW t \in 1 .. Factory!Installed PROVE ProgramsSoFar(t)'
  BY SameProgram DEF TasksBuilt
<1> QED BY <1>1, <1>2 DEF TasksBuilt

LEMMA BuildsNothing ==
    ASSUME TaskIInv, Factory!Reading',
           \/ Factory!BeginSystem \/ Factory!AddComponent \/ Factory!EndTask
           \/ Factory!EndTasks \/ Factory!SetValue \/ Factory!EndValues
    PROVE  TasksBuilt'
<1> USE DEF TaskIInv
<1> USE DEF Factory!Composites, Factory!Installed, Factory!SystemsDone, Factory!ProgramsDone
<1>1. CASE Factory!BeginSystem
  BY <1>1, BeginSystemGoes, SameTasksBuilt
<1>2. CASE Factory!AddComponent
  BY <1>2, AddComponentGoes, SameTasksBuilt
<1>3. CASE Factory!EndTask
  <2>1. /\ pcFactory = "program" /\ pcFactory' = "task" /\ task' = task + 1
        /\ item = Len(config.tasks[task].programs) + 1
        /\ UNCHANGED <<config, logics, programs>>
    BY <1>3, EndTaskGoes DEF TaskNode
  <2>2. task \in Nat /\ Len(config.tasks[task].programs) \in Nat
    BY <2>1, Counts
  <2>3. task' - 1 = task /\ item - 1 = Len(config.tasks[task].programs)
    BY <2>1, <2>2
  <2>4. \A t \in 1 .. task : t # task'
    BY <2>1, <2>2
  <2> QED BY <2>1, <2>2, <2>3, <2>4, SameTasksBuilt
<1>4. CASE Factory!EndTasks
  BY <1>4, EndTasksGoes, SameTasksBuilt
<1>5. CASE Factory!SetValue
  BY <1>5, SetValueGoes, SameTasksBuilt
<1>6. CASE Factory!EndValues
  BY <1>6, EndValuesGoes, SameTasksBuilt
<1> QED BY <1>1, <1>2, <1>3, <1>4, <1>5, <1>6

\* The IO system is complete when all its components have been read.
LEMMA AddSystemTasks ==
    ASSUME TaskIInv, ListsBuilt, Factory!AddSystem
    PROVE  TasksBuilt'
<1> USE DEF TaskIInv
<1> DEFINE new == [type |-> SystemNode.type, sequences |-> sequences]
<1>1. /\ pcFactory = "component" /\ pcFactory' = "system"
      /\ task \in Factory!TaskList /\ system \in Factory!SystemList(task)
      /\ item = Len(SystemNode.components) + 1
      /\ logics' = [logics EXCEPT ![task] = Append(@, new)]
      /\ system' = system + 1
      /\ UNCHANGED <<config, task, programs>>
  BY AddSystemGoes
<1>2. config \in Config /\ task \in Nat \ {0} /\ Len(logics) = task
  BY <1>1, Counts DEF FactoryInv, Grown, ListOf
<1>3. system \in Nat \ {0} /\ Len(SystemNode.components) \in Nat
  <2>1. Factory!SystemList(task) = 1 .. Len(config.tasks[task].io)
    BY <1>1, <1>2, NodesOfTask
  <2>2. Len(SystemNode.components) \in Nat
    BY <1>1, <1>2, NodesOfSystem DEF SystemNode
  <2> QED BY <1>1, <2>1, <2>2
<1>4. Factory!SystemAsWritten(new, SystemNode)
  <2>1. item - 1 = Len(SystemNode.components)
    BY <1>1, <1>3
  <2> QED BY <1>1, <2>1 DEF ListsBuilt, Factory!SystemAsWritten
<1>5. PICK n \in Nat : n = system - 1 /\ n + 1 = system
  BY <1>3
<1>6. ListOf(logics[task], n)
  BY <1>1, <1>5 DEF FactoryInv
<1>7. DOMAIN logics = 1 .. task
  <2>1. \E S : logics \in Seq(S)
    BY <1>1 DEF FactoryInv, Grown, ListOf
  <2> QED BY <1>2, <2>1
<1> HIDE DEF new
<1>8. /\ Len(logics') = task /\ logics'[task] = Append(logics[task], new)
      /\ \A t \in 1 .. task : t # task => logics'[t] = logics[t]
  <2>1. \E S : logics' \in Seq(S)
    <3>1. PICK S : logics \in Seq(S)
      BY <1>1 DEF FactoryInv, Grown, ListOf
    <3>2. PICK e : e = Append(logics[task], new)
      OBVIOUS
    <3>3. logics \in Seq(S \cup {e}) /\ task \in 1 .. Len(logics) /\ e \in S \cup {e}
      BY <1>2, <3>1
    <3>4. [logics EXCEPT ![task] = e] \in Seq(S \cup {e})
      BY <3>3, ExceptSeq
    <3> QED BY <1>1, <3>2, <3>4
  <2>2. DOMAIN logics' = 1 .. task
    BY <1>1, <1>7
  <2>3. Len(logics') = task
    BY <1>2, <2>1, <2>2, LenProperties
  <2> QED BY <1>1, <1>2, <1>7, <2>3
<1>9. /\ Factory!Composites = task /\ Factory!Composites' = task
      /\ Factory!Installed = task - 1 /\ Factory!Installed' = task - 1
  BY <1>1 DEF Factory!Composites, Factory!Installed
<1>10. ASSUME NEW t \in 1 .. task, t # task
       PROVE  LogicSoFar(t)'
  <2>1. Factory!SystemsDone(t)' = Factory!SystemsDone(t)
    BY <1>1, <1>10 DEF Factory!SystemsDone
  <2>2. LogicSoFar(t)
    BY <1>9 DEF TasksBuilt
  <2> QED BY <1>1, <1>8, <1>10, <2>1, <2>2, SameLogic
<1>11. ASSUME NEW t, t = task
       PROVE  LogicSoFar(t)'
  <2>1. Factory!SystemsDone(t) = n /\ Factory!SystemsDone(t)' = n + 1
    <3>1. system' - 1 = n + 1
      BY <1>1, <1>5
    <3> QED BY <1>1, <1>5, <1>11, <3>1 DEF Factory!SystemsDone
  <2>2. LogicSoFar(t)
    BY <1>2, <1>9, <1>11 DEF TasksBuilt
  <2>3. /\ Len(Append(logics[task], new)) = n + 1
        /\ Append(logics[task], new)[n + 1] = new
        /\ \A i \in 1 .. n : Append(logics[task], new)[i] = logics[task][i]
    <3>1. PICK S : logics[task] \in Seq(S) /\ Len(logics[task]) = n
      BY <1>6 DEF ListOf
    <3>2. logics[task] \in Seq(S \cup {new})
      BY <3>1
    <3> QED BY <3>1, <3>2
  <2>4. ASSUME NEW s \in 1 .. n + 1
        PROVE  Factory!SystemAsWritten(logics'[t][s], config.tasks[t].io[s])
    <3>1. CASE s \in 1 .. n
      BY <1>8, <1>11, <2>1, <2>2, <2>3, <3>1 DEF LogicSoFar
    <3>2. CASE s = n + 1
      BY <1>4, <1>5, <1>8, <1>11, <2>3, <3>2 DEF SystemNode
    <3> QED BY <3>1, <3>2
  <2>5. \A l, k : Factory!SystemAsWritten(l, k)' <=> Factory!SystemAsWritten(l, k)
    BY DEF Factory!SystemAsWritten, Factory!SequencesAsWritten, Factory!BusSequence,
           Factory!Topics, Factory!FirstOfKey, Factory!Key, Factory!PinsOf
  <2>6. Len(logics'[t]) = n + 1
    BY <1>8, <1>11, <2>3
  <2> QED BY <1>1, <2>1, <2>4, <2>5, <2>6 DEF LogicSoFar
<1>12. ASSUME NEW t \in 1 .. task - 1
       PROVE  ProgramsSoFar(t)'
  <2>1. Factory!ProgramsDone(t)' = Factory!ProgramsDone(t)
    BY <1>1 DEF Factory!ProgramsDone
  <2> QED BY <1>1, <1>9, <2>1, SameProgram DEF TasksBuilt
<1>13. Len(programs') = task - 1
  BY <1>1, <1>9 DEF TasksBuilt
<1> QED BY <1>8, <1>9, <1>10, <1>11, <1>12, <1>13 DEF TasksBuilt

LEMMA InstallTaskTasks ==
    ASSUME TaskIInv, Factory!Reading', Factory!InstallTask
    PROVE  TasksBuilt'
<1> USE DEF TaskIInv
<1>1. /\ pcFactory = "system" /\ pcFactory' = "program"
      /\ task \in Factory!TaskList /\ system = Len(config.tasks[task].io) + 1
      /\ programs' = Append(programs, <<>>) /\ item' = 1
      /\ UNCHANGED <<config, task, logics>>
  BY InstallTaskGoes DEF TaskNode
<1>2. task \in Nat \ {0} /\ Len(config.tasks[task].io) \in Nat
  BY <1>1, Counts
<1>3. PICK n \in Nat : n = task - 1 /\ n + 1 = task
  BY <1>2
<1>4. ListOf(programs, n)
  BY <1>1, <1>3 DEF FactoryInv, Grown
<1>5. /\ Len(programs') = task /\ programs'[task] = <<>>
      /\ \A t \in 1 .. n : programs'[t] = programs[t]
  <2>1. PICK e : e = <<>>
    OBVIOUS
  <2>2. /\ Len(Append(programs, e)) = n + 1 /\ Append(programs, e)[n + 1] = e
        /\ \A t \in 1 .. n : Append(programs, e)[t] = programs[t]
    <3>1. PICK S : programs \in Seq(S) /\ Len(programs) = n
      BY <1>4 DEF ListOf
    <3>2. programs \in Seq(S \cup {e})
      BY <3>1
    <3> QED BY <3>1, <3>2
  <2> QED BY <1>1, <1>3, <2>1, <2>2
<1>6. /\ Factory!Composites = task /\ Factory!Composites' = task
      /\ Factory!Installed = n /\ Factory!Installed' = task
  BY <1>1, <1>3 DEF Factory!Composites, Factory!Installed
<1>7. ASSUME NEW t \in 1 .. task
      PROVE  LogicSoFar(t)'
  <2>1. Factory!SystemsDone(t)' = Factory!SystemsDone(t)
    <3>1. system - 1 = Len(config.tasks[task].io)
      BY <1>1, <1>2
    <3> QED BY <1>1, <3>1 DEF Factory!SystemsDone
  <2> QED BY <1>1, <1>6, <2>1, SameLogic DEF TasksBuilt
<1>8. ASSUME NEW t \in 1 .. n
      PROVE  ProgramsSoFar(t)'
  <2>1. Factory!ProgramsDone(t)' = Factory!ProgramsDone(t)
    <3>1. t # task
      BY <1>3
    <3> QED BY <1>1, <3>1 DEF Factory!ProgramsDone
  <2> QED BY <1>1, <1>5, <1>6, <2>1, SameProgram DEF TasksBuilt
<1>9. ASSUME NEW t, t = task
      PROVE  ProgramsSoFar(t)'
  <2>1. Factory!ProgramsDone(t)' = 0
    BY <1>1, <1>9 DEF Factory!ProgramsDone
  <2>2. programs'[t] = <<>>
    BY <1>5, <1>9
  <2>3. <<>> = [i \in 1 .. 0 |-> config'.tasks[t].programs[i].type]
    OBVIOUS
  <2> QED BY <2>1, <2>2, <2>3 DEF ProgramsSoFar
<1>10. \A t \in 1 .. task : t \in 1 .. n \/ t = task
  BY <1>2, <1>3
<1>11. Len(logics') = task
  BY <1>1, <1>6 DEF TasksBuilt
<1> QED BY <1>5, <1>6, <1>7, <1>8, <1>9, <1>10, <1>11 DEF TasksBuilt

LEMMA AddProgramTasks ==
    ASSUME TaskIInv, Factory!Reading', Factory!AddProgram
    PROVE  TasksBuilt'
<1> USE DEF TaskIInv
<1> DEFINE type(i) == config.tasks[task].programs[i].type
<1>1. /\ pcFactory = "program" /\ pcFactory' = "program"
      /\ task \in Factory!TaskList /\ item \in Factory!ProgramList(task)
      /\ programs' = [programs EXCEPT ![task] = Append(@, type(item))]
      /\ item' = item + 1
      /\ UNCHANGED <<config, task, logics>>
  BY AddProgramGoes DEF ProgramNode, TaskNode
<1>2. task \in Nat \ {0} /\ ListOf(programs, task) /\ config \in Config
  BY <1>1, Counts DEF FactoryInv, Grown
<1>3. PICK n \in Nat : n = item - 1 /\ n + 1 = item
  <2>1. Factory!ProgramList(task) = 1 .. Len(config.tasks[task].programs)
    BY <1>1, <1>2, NodesOfTask
  <2>2. item \in Nat \ {0}
    BY <1>1, <2>1
  <2> QED BY <2>2
<1>4. /\ Factory!Composites = task /\ Factory!Composites' = task
      /\ Factory!Installed = task /\ Factory!Installed' = task
  BY <1>1 DEF Factory!Composites, Factory!Installed
<1>5. programs[task] = [i \in 1 .. n |-> type(i)]
  <2>1. ASSUME NEW t, t = task
        PROVE  programs[t] = [i \in 1 .. n |-> config.tasks[t].programs[i].type]
    <3>1. Factory!ProgramsDone(t) = n
      BY <1>1, <1>3, <2>1 DEF Factory!ProgramsDone
    <3> QED BY <1>2, <1>4, <2>1, <3>1 DEF TasksBuilt, ProgramsSoFar
  <2> QED BY <2>1
<1>6. Append(programs[task], type(item)) = [i \in 1 .. n + 1 |-> type(i)]
  <2> DEFINE S == {type(i) : i \in 1 .. n + 1}
             old == [i \in 1 .. n |-> type(i)]
             new == [i \in 1 .. n + 1 |-> type(i)]
  <2>1. old \in Seq(S) /\ Len(old) = n /\ new \in Seq(S) /\ Len(new) = n + 1
    <3>1. old \in Seq(S) /\ new \in Seq(S)
      BY IsASeq
    <3>2. DOMAIN old = 1 .. n /\ DOMAIN new = 1 .. n + 1
      OBVIOUS
    <3> HIDE DEF S, old, new
    <3> QED BY <3>1, <3>2, LenProperties
  <2>2. type(item) \in S
    BY <1>3
  <2>3. /\ \A i \in 1 .. n : new[i] = old[i]
        /\ new[n + 1] = type(item)
    BY <1>3
  <2> HIDE DEF S, old, new
  <2>4. /\ Append(old, type(item)) \in Seq(S) /\ Len(Append(old, type(item))) = n + 1
        /\ \A i \in 1 .. n + 1 : Append(old, type(item))[i] = new[i]
    BY <2>1, <2>2, <2>3
  <2>5. Append(old, type(item)) = new
    BY <2>1, <2>4, SeqEqual
  <2> QED BY <1>5, <2>5 DEF old, new
<1>7. /\ Len(programs') = task /\ DOMAIN programs = 1 .. task
      /\ programs'[task] = Append(programs[task], type(item))
      /\ \A t \in 1 .. task : t # task => programs'[t] = programs[t]
  <2>1. PICK S : programs \in Seq(S) /\ Len(programs) = task
    BY <1>2 DEF ListOf
  <2>2. PICK e : e = Append(programs[task], type(item))
    OBVIOUS
  <2>3. programs \in Seq(S \cup {e}) /\ task \in 1 .. Len(programs) /\ e \in S \cup {e}
    BY <1>2, <2>1
  <2>4. Len([programs EXCEPT ![task] = e]) = task
    BY <2>1, <2>3, ExceptSeq
  <2>5. DOMAIN programs = 1 .. task
    BY <2>1
  <2> HIDE DEF type
  <2> QED BY <1>1, <1>2, <2>2, <2>4, <2>5
<1>8. ASSUME NEW t \in 1 .. task
      PROVE  LogicSoFar(t)'
  <2>1. Factory!SystemsDone(t)' = Factory!SystemsDone(t)
    BY <1>1 DEF Factory!SystemsDone
  <2> QED BY <1>1, <1>4, <2>1, SameLogic DEF TasksBuilt
<1>9. ASSUME NEW t \in 1 .. task, t # task
      PROVE  ProgramsSoFar(t)'
  <2>1. Factory!ProgramsDone(t)' = Factory!ProgramsDone(t)
    BY <1>1, <1>9 DEF Factory!ProgramsDone
  <2> QED BY <1>1, <1>4, <1>7, <1>9, <2>1, SameProgram DEF TasksBuilt
<1>10. ASSUME NEW t, t = task
       PROVE  ProgramsSoFar(t)'
  <2>1. Factory!ProgramsDone(t)' = n + 1
    <3>1. item' - 1 = n + 1
      BY <1>1, <1>3
    <3> QED BY <1>1, <1>10, <3>1 DEF Factory!ProgramsDone
  <2>2. programs'[t] = [i \in 1 .. n + 1 |-> config'.tasks[t].programs[i].type]
    BY <1>1, <1>6, <1>7, <1>10
  <2> QED BY <2>1, <2>2 DEF ProgramsSoFar
<1>11. Len(logics') = task
  BY <1>1, <1>4 DEF TasksBuilt
<1> QED BY <1>4, <1>7, <1>8, <1>9, <1>10, <1>11 DEF TasksBuilt

LEMMA NextTasks ==
    ASSUME TaskIInv, Factory!Reading', Factory!Next, ListsBuilt
    PROVE  TasksBuilt'
BY BeginTaskTasks, BuildsNothing, AddSystemTasks, InstallTaskTasks, AddProgramTasks
   DEF Factory!Next

LEMMA NextSequences ==
    ASSUME Factory!CursorOK, Factory!Next, SequencesListed, ListsBuilt
    PROVE  SequencesListed' /\ ListsBuilt'
<1>1. CASE pcFactory' # "component"
  BY <1>1 DEF SequencesListed, ListsBuilt
<1>2. CASE pcFactory' = "component"
  <2>1. Factory!Reading'
    BY <1>2 DEF Factory!Reading
  <2>2. CASE Factory!BeginSystem
    <3>1. item' = 1 /\ sequences' = Factory!Empty
      BY <2>1, <2>2, BeginSystemGoes
    <3>2. /\ DOMAIN Factory!Empty = Factory!Segment
          /\ \A segment \in Factory!Segment : Factory!Empty[segment] \in Seq({})
      BY EmptySeq DEF Factory!Empty
    <3>3. SequencesListed'
      BY <3>1, <3>2 DEF SequencesListed
    <3>4. Factory!SequencesAsWritten(sequences', SystemNode', item' - 1)
      <4>1. item' - 1 = 0
        BY <3>1
      <4> QED BY <3>1, <4>1, NoSequences
    <3>5. ListsBuilt'
      BY <3>4 DEF ListsBuilt, Factory!SequencesAsWritten, Factory!BusSequence, Factory!Topics,
                  Factory!FirstOfKey, Factory!Key, Factory!PinsOf
    <3> QED BY <3>3, <3>5
  <2>3. CASE Factory!AddComponent
    BY <2>1, <2>3, AddComponentSequences
  <2>4. CASE ~Factory!BeginSystem /\ ~Factory!AddComponent
    BY <1>2, <2>1, <2>4, BeginTaskGoes, AddSystemGoes, InstallTaskGoes, AddProgramGoes,
       EndTaskGoes, EndTasksGoes, SetValueGoes, EndValuesGoes DEF Factory!Next
  <2> QED BY <2>2, <2>3, <2>4
<1> QED BY <1>1, <1>2

\* All of it; the lists are lists by FactoryInv.
BuiltSoFar ==
    /\ ReadSoFar /\ FactoryInv /\ SequencesListed
    /\ Factory!Reading => TasksBuilt /\ ListsBuilt

LEMMA InitBuiltSoFar == PlcInit => BuiltSoFar
<1> SUFFICES ASSUME PlcInit PROVE BuiltSoFar
  OBVIOUS
<1>1. pcFactory = "task" /\ task = 1 /\ logics = <<>> /\ programs = <<>>
  BY DEF PlcInit, Factory!Init
<1>2. Factory!Composites = 0 /\ Factory!Installed = 0
  BY <1>1 DEF Factory!Composites, Factory!Installed
<1>3. TasksBuilt
  BY <1>1, <1>2, EmptySeq DEF TasksBuilt
<1> QED BY <1>1, <1>3, InitReadSoFar, InitFactoryInv DEF BuiltSoFar, SequencesListed, ListsBuilt

LEMMA NextBuiltSoFar == BuiltSoFar /\ [PlcNext]_plcVars => BuiltSoFar'
<1> SUFFICES ASSUME BuiltSoFar, [PlcNext]_plcVars PROVE BuiltSoFar'
  OBVIOUS
<1>1. ReadSoFar' /\ FactoryInv'
  BY FactorySteps, NextReadSoFar, SameReadSoFar, NextFactoryInv DEF BuiltSoFar
<1>2. CASE Factory!Next
  <2>1. Factory!Reading
    BY <1>2
       DEF Factory!Next, Factory!BeginTask, Factory!BeginSystem, Factory!AddComponent,
           Factory!AddSystem, Factory!InstallTask, Factory!AddProgram, Factory!EndTask,
           Factory!EndTasks, Factory!SetValue, Factory!EndValues, Factory!Reading
  <2>2. TaskIInv /\ SequencesListed /\ ListsBuilt
    BY <2>1 DEF BuiltSoFar, TaskIInv, ReadSoFar
  <2>3. SequencesListed' /\ ListsBuilt'
    BY <1>2, <2>2, NextSequences DEF TaskIInv
  <2>4. Factory!Reading' => TasksBuilt'
    BY <1>2, <2>2, NextTasks
  <2> QED BY <1>1, <2>3, <2>4 DEF BuiltSoFar
<1>3. CASE UNCHANGED factoryVars
  <2> USE DEF factoryVars
  <2>1. SequencesListed'
    BY <1>3 DEF BuiltSoFar, SequencesListed
  <2>2. Factory!Reading' => Factory!Reading
    BY <1>3 DEF Factory!Reading
  <2>3. TasksBuilt => TasksBuilt'
    <3> SUFFICES ASSUME TasksBuilt PROVE TasksBuilt'
      OBVIOUS
    <3>1. /\ UNCHANGED <<config, logics, programs>>
          /\ Factory!Composites' = Factory!Composites
          /\ Factory!Installed' = Factory!Installed
          /\ \A t : /\ Factory!SystemsDone(t)' = Factory!SystemsDone(t)
                    /\ Factory!ProgramsDone(t)' = Factory!ProgramsDone(t)
      BY <1>3 DEF Factory!Composites, Factory!Installed, Factory!SystemsDone,
                  Factory!ProgramsDone
    <3> QED BY <3>1, SameTasksBuilt
  <2>4. ListsBuilt => ListsBuilt'
    <3>1. UNCHANGED <<pcFactory, sequences, item, SystemNode>>
      BY <1>3 DEF SystemNode
    <3>2. \A l, s, n : Factory!SequencesAsWritten(l, s, n)'
                          <=> Factory!SequencesAsWritten(l, s, n)
      BY DEF Factory!SequencesAsWritten, Factory!BusSequence, Factory!Topics,
             Factory!FirstOfKey, Factory!Key, Factory!PinsOf
    <3> QED BY <3>1, <3>2 DEF ListsBuilt
  <2> QED BY <1>1, <2>1, <2>2, <2>3, <2>4 DEF BuiltSoFar
<1> QED BY <1>2, <1>3, FactorySteps

LEMMA BuiltInvariance == PlcSpec => []BuiltSoFar
BY InitBuiltSoFar, NextBuiltSoFar, PTL DEF PlcSpec

\* How far the scheduler and the factories have come, at any time.
THEOREM PlcInvariance == PlcSpec => []PlcIInv
<1>1. BuiltSoFar /\ IInv => PlcIInv
  BY TasksSoFarParts DEF BuiltSoFar, ReadSoFar, PlcIInv, Factory!Progress
<1>2. PlcSpec => []IInv
  BY Refinement, Invariance, PTL DEF ImplementsScheduler
<1> QED BY BuiltInvariance, <1>1, <1>2, PTL

LEMMA ConfiguredTasks == BuiltSoFar => Factory!TasksAsWritten
<1> SUFFICES ASSUME BuiltSoFar, pcFactory = "configured"
             PROVE  /\ Len(logics) = Len(config.tasks) /\ Len(programs) = Len(config.tasks)
                    /\ \A t \in DOMAIN logics :
                          /\ Len(logics[t]) = Len(config.tasks[t].io)
                          /\ \A s \in DOMAIN logics[t] :
                                Factory!SystemAsWritten(logics[t][s], config.tasks[t].io[s])
                          /\ programs[t] = [i \in DOMAIN config.tasks[t].programs |->
                                               config.tasks[t].programs[i].type]
  BY DEF Factory!TasksAsWritten
<1>1. TasksBuilt /\ Factory!CursorOK /\ config \in Config
  BY DEF BuiltSoFar, Factory!Reading, ReadSoFar, Factory!CursorOK
<1>2. PICK n \in Nat : n = Len(config.tasks) /\ task = n + 1 /\ n = task - 1
  BY <1>1, Counts
<1>3. Factory!Composites = n /\ Factory!Installed = n
  BY <1>2 DEF Factory!Composites, Factory!Installed
<1>4. Len(logics) = n /\ Len(programs) = n
  BY <1>1, <1>3 DEF TasksBuilt
<1>5. PICK m : Grown(m, m)
  BY DEF BuiltSoFar, FactoryInv
<1>6. m = n /\ DOMAIN logics = 1 .. n
  BY <1>4, <1>5 DEF Grown, ListOf
<1>7. ASSUME NEW t \in 1 .. n
      PROVE  /\ Len(logics[t]) = Len(config.tasks[t].io)
             /\ \A s \in DOMAIN logics[t] :
                   Factory!SystemAsWritten(logics[t][s], config.tasks[t].io[s])
             /\ programs[t] = [i \in DOMAIN config.tasks[t].programs |->
                                  config.tasks[t].programs[i].type]
  <2>1. LogicSoFar(t) /\ ProgramsSoFar(t)
    BY <1>1, <1>3 DEF TasksBuilt
  <2>2. /\ Factory!SystemsDone(t) = Len(config.tasks[t].io)
        /\ Factory!ProgramsDone(t) = Len(config.tasks[t].programs)
    BY DEF Factory!SystemsDone, Factory!ProgramsDone
  <2>3. DOMAIN logics[t] = 1 .. Len(logics[t])
    <3>1. \E k : ListOf(logics[t], k)
      BY <1>5, <1>6 DEF Grown
    <3> QED BY <3>1 DEF ListOf
  <2>4. DOMAIN config.tasks[t].programs = 1 .. Len(config.tasks[t].programs)
    <3>1. t \in Factory!TaskList
      BY <1>1, <1>2, Nodes
    <3> QED BY <1>1, <3>1, NodesOfTask DEF Factory!ProgramList
  <2> QED BY <2>1, <2>2, <2>3, <2>4 DEF LogicSoFar, ProgramsSoFar
<1> QED BY <1>2, <1>4, <1>6, <1>7

\* The program that is started is the one the file describes: its variables, and for
\* every task the IO systems with their copy sequences and the programs, in order.
THEOREM Construction == PlcSpec => []BuiltAsWritten
<1>1. BuiltSoFar => BuiltAsWritten
  BY ConfiguredTasks, ConfiguredVariables
     DEF BuiltSoFar, ReadSoFar, BuiltAsWritten, Factory!BuiltAsWritten
<1> QED BY BuiltInvariance, <1>1, PTL
=============================================================================
