-------------------------- MODULE SchedulerProofs --------------------------
(***************************************************************************)
(* Proofs about module Scheduler, for any number of threads that call      *)
(* start(), stop() and createTask, any pool size and any value left in the *)
(* uninitialised m_started.                                                *)
(***************************************************************************)
EXTENDS Scheduler, TLAPS

USE SchedulerAssumption

Inside == {"create", "run"}

\* The processors created so far: the main one first, then distinct slaves
\* whose threads have been started.
PoolShape ==
    /\ processors[1] = Main
    /\ \A i \in 2..Len(processors) :
            processors[i] \in Slaves /\ procPC[processors[i]] # "none"
    /\ \A i, j \in 1..Len(processors) : processors[i] = processors[j] => i = j

\* Nobody has taken m_mutex yet.
Untouched ==
    /\ mutex = None
    /\ processors = <<>>
    /\ \A s \in Starters : startPC[s] \notin Inside

\* One start() holds m_mutex and its loop has created what it has counted.
\* Once it runs the main processor m_started is set, and only a stop() that
\* gets m_mutex could reset it: so the main processor never ends and the
\* mutex is never released.
HeldBy(s) ==
    /\ mutex = s
    /\ startPC[s] \in Inside
    /\ \A r \in Starters : startPC[r] \in Inside => r = s
    /\ Len(processors) = NumThreads - slavesLeft[s]
    /\ PoolShape
    /\ startPC[s] = "create" => procPC[Main] = "none"
    /\ startPC[s] = "run" => started /\ slavesLeft[s] = 0

\* OneMainRun and PoolComplete alone are not inductive: they do not say who
\* holds m_mutex, nor what the loop over the slaves has done so far.
StartInv ==
    /\ Untouched => procPC[Main] = "none"
    /\ \A s \in Starters :
            startPC[s] \in {"idle", "lock"} => slavesLeft[s] = NumThreads - 1
    /\ Untouched \/ \E s \in Starters : HeldBy(s)

\* A busy processor runs a task: TaskEnd adds it to the tasks that have run.
BusyInv == \A p \in Procs : procPC[p] = "busy" => running[p] \in Tasks

-----------------------------------------------------------------------------
(* Types                                                                   *)

\* The index m_lastActiveIdx % m_processors.size() is one of m_processors.
LEMMA DispatchInPool == ASSUME TypeOK  PROVE Dispatch \in Procs
<1>1. CASE processors = <<>>
  BY <1>1 DEF Dispatch, Procs
<1>2. CASE processors # <<>>
  <2>1. processors \in Seq(Procs) /\ lastActiveIdx \in Nat
    BY DEF TypeOK
  <2>2. Len(processors) \in Nat /\ Len(processors) > 0
    BY <1>2, <2>1
  <2>3. lastActiveIdx % Len(processors) \in 0..Len(processors)-1
    BY <2>1, <2>2
  <2>4. (lastActiveIdx % Len(processors)) + 1 \in 1..Len(processors)
    BY <2>2, <2>3
  <2> QED  BY <1>2, <2>1, <2>4 DEF Dispatch
<1> QED  BY <1>1, <1>2

LEMMA AddTaskTypes ==
    ASSUME TypeOK, BusyInv, NEW p \in Procs, NEW t \in Tasks, AddTaskTo(p, t)
    PROVE  TypeOK' /\ BusyInv'
<1>1. queue' \in [Procs -> Seq(Tasks)]
  BY DEF AddTaskTo, TypeOK
<1>2. started' \in BOOLEAN
  BY DEF AddTaskTo, TypeOK
<1> QED  BY <1>1, <1>2 DEF AddTaskTo, TypeOK, BusyInv

LEMMA StartTypes ==
    ASSUME TypeOK, BusyInv, NEW s \in Starters, StartStep(s)
    PROVE  TypeOK' /\ BusyInv'
<1> USE DEF TypeOK, taskVars
<1>0. Main \in Procs /\ Slaves \subseteq Procs
  BY DEF Procs
<1>1. CASE StartCall(s)
  <2>1. started' \in BOOLEAN
    BY <1>1 DEF StartCall
  <2>2. startPC' \in [Starters -> {"idle", "lock", "create", "run", "end"}]
    BY <1>1 DEF StartCall
  <2> QED  BY <1>1, <2>1, <2>2 DEF StartCall, BusyInv
<1>2. CASE StartLock(s)
  <2>1. started' \in BOOLEAN
    BY <1>2 DEF StartLock
  <2>2. startPC' \in [Starters -> {"idle", "lock", "create", "run", "end"}]
    BY <1>2 DEF StartLock
  <2>3. processors' \in Seq(Procs)
    BY <1>0, <1>2 DEF StartLock
  <2> QED  BY <1>2, <2>1, <2>2, <2>3 DEF StartLock, BusyInv
<1>3. CASE NewProcessorThread(s)
  <2>1. started' \in BOOLEAN
    BY <1>3 DEF NewProcessorThread
  <2>2. PICK p \in Slaves :
            /\ procPC' = [procPC EXCEPT ![p] = "loop"]
            /\ processors' = Append(processors, p)
    BY <1>3 DEF NewProcessorThread
  <2>3. processors' \in Seq(Procs)
    BY <1>0, <2>2
  <2>4. procPC' \in [Procs -> {"none", "loop", "busy", "done"}] /\ BusyInv'
    BY <1>0, <1>3, <2>2 DEF NewProcessorThread, BusyInv
  <2>5. slavesLeft' \in [Starters -> 0..NumThreads-1]
    <3>1. slavesLeft[s] - 1 \in 0..NumThreads-1
      BY <1>3 DEF NewProcessorThread
    <3> QED  BY <1>3, <3>1 DEF NewProcessorThread
  <2> QED  BY <1>3, <2>1, <2>3, <2>4, <2>5 DEF NewProcessorThread
<1>4. CASE StartRun(s)
  <2>1. startPC' \in [Starters -> {"idle", "lock", "create", "run", "end"}]
    BY <1>4 DEF StartRun
  <2>2. procPC' \in [Procs -> {"none", "loop", "busy", "done"}] /\ BusyInv'
    BY <1>0, <1>4 DEF StartRun, BusyInv
  <2> QED  BY <1>4, <2>1, <2>2 DEF StartRun
<1> QED  BY <1>1, <1>2, <1>3, <1>4 DEF StartStep

LEMMA ProcTypes ==
    ASSUME TypeOK, BusyInv, NEW p \in Procs, ProcStep(p)
    PROVE  TypeOK' /\ BusyInv'
<1> USE DEF TypeOK, taskVars
<1>1. CASE ProcessorExit(p)
  <2>1. started' \in BOOLEAN
    BY <1>1 DEF ProcessorExit
  <2>2. startPC' \in [Starters -> {"idle", "lock", "create", "run", "end"}]
    BY <1>1 DEF ProcessorExit
  <2>3. procPC' \in [Procs -> {"none", "loop", "busy", "done"}] /\ BusyInv'
    BY <1>1 DEF ProcessorExit, BusyInv
  <2> QED  BY <1>1, <2>1, <2>2, <2>3 DEF ProcessorExit
<1>2. CASE ProcessorRun(p)
  <2>1. started' \in BOOLEAN
    BY <1>2 DEF ProcessorRun
  <2>2. Head(queue[p]) \in Tasks /\ Tail(queue[p]) \in Seq(Tasks)
    BY <1>2 DEF ProcessorRun
  <2>3. queue' \in [Procs -> Seq(Tasks)]
    BY <1>2, <2>2 DEF ProcessorRun
  <2>4. running' \in [Procs -> Tasks \cup {None}]
    BY <1>2, <2>2 DEF ProcessorRun
  <2>5. procPC' \in [Procs -> {"none", "loop", "busy", "done"}] /\ BusyInv'
    BY <1>2, <2>2 DEF ProcessorRun, BusyInv
  <2> QED  BY <1>2, <2>1, <2>3, <2>4, <2>5 DEF ProcessorRun
<1>3. CASE TaskEnd(p)
  <2>1. started' \in BOOLEAN
    BY <1>3 DEF TaskEnd
  <2>2. running' \in [Procs -> Tasks \cup {None}]
    BY <1>3 DEF TaskEnd
  <2>3. procPC' \in [Procs -> {"none", "loop", "busy", "done"}] /\ BusyInv'
    BY <1>3 DEF TaskEnd, BusyInv
  <2>4. ran' \subseteq Tasks
    BY <1>3 DEF TaskEnd, BusyInv
  <2> QED  BY <1>3, <2>1, <2>2, <2>3, <2>4 DEF TaskEnd
<1> QED  BY <1>1, <1>2, <1>3 DEF ProcStep

LEMMA StopTypes ==
    ASSUME TypeOK, BusyInv, NEW x \in Stoppers, StopStep(x) \/ StopCall(x)
    PROVE  TypeOK' /\ BusyInv'
<1> USE DEF TypeOK, taskVars, StopLock, StopJoin, StopCall
<1>1. started' \in BOOLEAN
  BY DEF StopStep
<1>2. stopPC' \in [Stoppers -> {"idle", "lock", "join", "end"}]
  BY DEF StopStep
<1>3. UNCHANGED <<mutex, processors, lastActiveIdx, startPC, slavesLeft,
                  procPC, queue, running, ran>>
  BY DEF StopStep
<1> QED  BY <1>1, <1>2, <1>3 DEF BusyInv

LEMMA TypeInduction ==
    ASSUME TypeOK, BusyInv, [Next]_vars  PROVE TypeOK' /\ BusyInv'
<1>1. ASSUME NEW s \in Starters, StartStep(s)  PROVE TypeOK' /\ BusyInv'
  BY <1>1, StartTypes
<1>2. ASSUME NEW p \in Procs, ProcStep(p)  PROVE TypeOK' /\ BusyInv'
  BY <1>2, ProcTypes
<1>3. ASSUME NEW x \in Stoppers, StopStep(x) \/ StopCall(x)
      PROVE  TypeOK' /\ BusyInv'
  BY <1>3, StopTypes
<1>4. ASSUME NEW c \in Clients, NEW t \in Tasks, CreateTask(c, t)
      PROVE  TypeOK' /\ BusyInv'
  BY <1>4, DispatchInPool, AddTaskTypes DEF CreateTask
<1>5. ASSUME NEW p \in Procs, NEW t \in Tasks, CreateTaskInTask(p, t)
      PROVE  TypeOK' /\ BusyInv'
  BY <1>5, AddTaskTypes DEF CreateTaskInTask
<1>6. CASE UNCHANGED vars
  BY <1>6 DEF vars, TypeOK, BusyInv
<1> QED  BY <1>1, <1>2, <1>3, <1>4, <1>5, <1>6 DEF Next

-----------------------------------------------------------------------------
(* The start() that holds m_mutex                                          *)

\* What StartInv is about is left alone by the creation of tasks.
startVars == <<mutex, started, processors, startPC, slavesLeft>>

LEMMA StartStepInv ==
    ASSUME TypeOK, StartInv, NEW s \in Starters, StartStep(s)
    PROVE  StartInv'
<1>0. /\ startPC \in [Starters -> {"idle", "lock", "create", "run", "end"}]
      /\ slavesLeft \in [Starters -> 0..NumThreads-1]
      /\ procPC \in [Procs -> {"none", "loop", "busy", "done"}]
      /\ processors \in Seq(Procs)
      /\ Main \in Procs /\ Slaves \subseteq Procs
  BY DEF TypeOK, Procs
<1>1. CASE StartCall(s)
  <2>1. UNCHANGED <<mutex, started, processors, slavesLeft, procPC>>
    BY <1>1 DEF StartCall
  <2>2. /\ startPC' \in [Starters -> {"idle", "lock", "create", "run", "end"}]
        /\ startPC[s] = "idle" /\ startPC'[s] \in {"lock", "end"}
        /\ \A r \in Starters : r # s => startPC'[r] = startPC[r]
    BY <1>0, <1>1 DEF StartCall
  <2>3. Untouched' => procPC'[Main] = "none"
    BY <2>1, <2>2 DEF StartInv, Untouched, Inside
  <2>4. \A r \in Starters :
            startPC'[r] \in {"idle", "lock"} => slavesLeft'[r] = NumThreads - 1
    BY <2>1, <2>2 DEF StartInv
  <2>5. Untouched => Untouched'
    BY <2>1, <2>2 DEF Untouched, Inside
  <2>6. ASSUME NEW h \in Starters, HeldBy(h)  PROVE HeldBy(h)'
    <3>1. h # s
      BY <2>2, <2>6 DEF HeldBy, Inside
    <3> QED  BY <2>1, <2>2, <2>6, <3>1 DEF HeldBy, Inside, PoolShape
  <2> QED  BY <2>3, <2>4, <2>5, <2>6 DEF StartInv
<1>2. CASE StartLock(s)
  <2>1. Untouched
    BY <1>2 DEF StartInv, HeldBy, StartLock
  <2>2. /\ mutex' = s
        /\ processors' = <<Main>>
        /\ startPC' = [startPC EXCEPT ![s] = "create"]
        /\ startPC[s] = "lock"
        /\ UNCHANGED <<started, slavesLeft, procPC>>
    BY <1>2, <2>1 DEF StartLock, Untouched
  <2>3. HeldBy(s)'
    <3>1. PoolShape'
      BY <2>2 DEF PoolShape
    <3>2. Len(processors') = NumThreads - slavesLeft'[s]
      BY <1>0, <2>2 DEF StartInv
    <3> QED  BY <1>0, <2>1, <2>2, <3>1, <3>2 DEF HeldBy, StartInv, Untouched, Inside
  <2>4. ~Untouched'
    BY <2>2 DEF Untouched
  <2>5. \A r \in Starters :
            startPC'[r] \in {"idle", "lock"} => slavesLeft'[r] = NumThreads - 1
    BY <1>0, <2>2 DEF StartInv
  <2> QED  BY <2>3, <2>4, <2>5 DEF StartInv
<1>3. CASE NewProcessorThread(s)
  <2>1. HeldBy(s)
    BY <1>3 DEF NewProcessorThread, StartInv, HeldBy, Untouched, Inside
  <2>2. PICK p \in Slaves :
            /\ procPC[p] = "none"
            /\ procPC' = [procPC EXCEPT ![p] = "loop"]
            /\ processors' = Append(processors, p)
    BY <1>3 DEF NewProcessorThread
  <2>3. /\ startPC[s] = "create" /\ slavesLeft[s] > 0
        /\ slavesLeft' = [slavesLeft EXCEPT ![s] = slavesLeft[s] - 1]
        /\ UNCHANGED <<mutex, started, startPC>>
    BY <1>3 DEF NewProcessorThread
  <2>4. /\ Len(processors') = Len(processors) + 1
        /\ \A i \in 1..Len(processors) : processors'[i] = processors[i]
        /\ processors'[Len(processors) + 1] = p
        /\ Len(processors) \in Nat /\ Len(processors) > 0
    BY <1>0, <2>1, <2>2 DEF HeldBy
  <2>5. \A i \in 1..Len(processors) : processors[i] # p
    BY <2>1, <2>2, <2>4 DEF HeldBy, PoolShape
  <2>6. PoolShape'
    <3>1. processors'[1] = Main
      BY <2>1, <2>4 DEF HeldBy, PoolShape
    <3>2. ASSUME NEW i \in 2..Len(processors')
          PROVE  processors'[i] \in Slaves /\ procPC'[processors'[i]] # "none"
      <4>1. CASE i = Len(processors) + 1
        BY <1>0, <2>2, <2>4, <4>1
      <4>2. CASE i # Len(processors) + 1
        <5>1. i \in 2..Len(processors)
          BY <2>4, <4>2
        <5> QED  BY <1>0, <2>1, <2>2, <2>4, <5>1 DEF HeldBy, PoolShape
      <4> QED  BY <4>1, <4>2
    <3>3. \A i, j \in 1..Len(processors') : processors'[i] = processors'[j] => i = j
      <4> SUFFICES ASSUME NEW i \in 1..Len(processors'), NEW j \in 1..Len(processors'),
                          processors'[i] = processors'[j]
                   PROVE  i = j
        OBVIOUS
      <4>1. \A k \in 1..Len(processors') :
                k \in 1..Len(processors) \/ k = Len(processors) + 1
        BY <2>4
      <4>2. \A k, m \in 1..Len(processors) :
                processors[k] = processors[m] => k = m
        BY <2>1 DEF HeldBy, PoolShape
      <4> QED  BY <2>4, <2>5, <4>1, <4>2
    <3> QED  BY <3>1, <3>2, <3>3 DEF PoolShape
  <2>7. Len(processors') = NumThreads - slavesLeft'[s]
    BY <1>0, <2>1, <2>3, <2>4 DEF HeldBy
  <2>8. procPC'[Main] = "none"
    BY <1>0, <2>1, <2>2, <2>3 DEF HeldBy
  <2>9. HeldBy(s)'
    BY <2>1, <2>3, <2>6, <2>7, <2>8 DEF HeldBy
  <2> QED  BY <1>0, <2>3, <2>8, <2>9 DEF StartInv
<1>4. CASE StartRun(s)
  <2>1. HeldBy(s)
    BY <1>4 DEF StartRun, StartInv, HeldBy, Untouched, Inside
  <2>2. /\ startPC[s] = "create" /\ slavesLeft[s] = 0
        /\ procPC' = [procPC EXCEPT ![Main] = "loop"]
        /\ startPC' = [startPC EXCEPT ![s] = "run"]
        /\ UNCHANGED <<mutex, processors, slavesLeft>>
    BY <1>4 DEF StartRun
  <2>3. PoolShape'
    BY <1>0, <2>1, <2>2 DEF HeldBy, PoolShape
  <2>4. HeldBy(s)'
    <3>1. started'
      BY <1>4 DEF StartRun
    <3> QED  BY <1>0, <2>1, <2>2, <2>3, <3>1 DEF HeldBy, Inside
  <2>5. ~Untouched'
    BY <2>4 DEF HeldBy, Untouched
  <2> QED  BY <1>0, <2>2, <2>4, <2>5 DEF StartInv
<1> QED  BY <1>1, <1>2, <1>3, <1>4 DEF StartStep

LEMMA ProcStepInv ==
    ASSUME TypeOK, StartInv, NEW p \in Procs, ProcStep(p)
    PROVE  StartInv'
<1>0. /\ procPC \in [Procs -> {"none", "loop", "busy", "done"}]
      /\ Main \in Procs /\ Slaves \subseteq Procs
  BY DEF TypeOK, Procs
<1>1. /\ UNCHANGED <<started, processors, slavesLeft>>
      /\ procPC[p] \in {"loop", "busy"} /\ procPC'[p] # "none"
      /\ \A q \in Procs : q # p => procPC'[q] = procPC[q]
  BY <1>0 DEF ProcStep, ProcessorExit, ProcessorRun, TaskEnd, taskVars
<1>2. UNCHANGED <<mutex, startPC>>
  <2>1. CASE ProcessorExit(Main)
    <3>1. procPC[Main] = "loop" /\ ~started
      BY <2>1 DEF ProcessorExit
    <3> QED  BY <3>1 DEF StartInv, HeldBy, Inside
  <2> QED  BY <2>1 DEF ProcStep, ProcessorExit, ProcessorRun, TaskEnd
<1>3. Untouched => Untouched' /\ procPC'[Main] = "none"
  BY <1>0, <1>1, <1>2 DEF StartInv, Untouched
<1>4. ASSUME NEW h \in Starters, HeldBy(h)  PROVE HeldBy(h)' /\ ~Untouched'
  <2>1. PoolShape'
    BY <1>0, <1>1, <1>4 DEF HeldBy, PoolShape
  <2>2. startPC[h] = "create" => procPC'[Main] = "none"
    BY <1>0, <1>1, <1>4 DEF HeldBy
  <2> QED  BY <1>1, <1>2, <1>4, <2>1, <2>2 DEF HeldBy, Untouched
<1> QED  BY <1>1, <1>2, <1>3, <1>4 DEF StartInv

\* stop() leaves m_mutex as it finds it and changes m_started only when the
\* mutex is free, that is before any start() has got it.
LEMMA StopStepInv ==
    ASSUME StartInv, NEW x \in Stoppers, StopStep(x) \/ StopCall(x)
    PROVE  StartInv'
<1>1. UNCHANGED <<mutex, processors, startPC, slavesLeft, procPC>>
  BY DEF StopStep, StopLock, StopJoin, StopCall, taskVars
<1>2. Untouched' <=> Untouched
  BY <1>1 DEF Untouched
<1>3. ASSUME NEW h \in Starters, HeldBy(h)  PROVE HeldBy(h)'
  <2>1. UNCHANGED started
    BY <1>3 DEF StopStep, StopLock, StopJoin, StopCall, HeldBy
  <2> QED  BY <1>1, <1>3, <2>1 DEF HeldBy, PoolShape
<1> QED  BY <1>1, <1>2, <1>3 DEF StartInv

LEMMA StartInduction == ASSUME TypeOK, StartInv, [Next]_vars  PROVE StartInv'
<1>1. ASSUME NEW s \in Starters, StartStep(s)  PROVE StartInv'
  BY <1>1, StartStepInv
<1>2. ASSUME NEW p \in Procs, ProcStep(p)  PROVE StartInv'
  BY <1>2, ProcStepInv
<1>3. ASSUME NEW x \in Stoppers, StopStep(x) \/ StopCall(x)  PROVE StartInv'
  BY <1>3, StopStepInv
<1>4. CASE UNCHANGED <<startVars, procPC>>
  BY <1>4 DEF startVars, StartInv, Untouched, HeldBy, PoolShape
<1>5. ASSUME NEW p, NEW t, AddTaskTo(p, t)  PROVE UNCHANGED <<startVars, procPC>>
  BY <1>5 DEF AddTaskTo, startVars
<1>6. UNCHANGED vars => UNCHANGED <<startVars, procPC>>
  BY DEF vars, startVars
<1> QED  BY <1>1, <1>2, <1>3, <1>4, <1>5, <1>6 DEF Next, CreateTask, CreateTaskInTask

-----------------------------------------------------------------------------
(* Theorems                                                                *)

LEMMA InitStarts == Init => TypeOK /\ BusyInv /\ StartInv
<1> SUFFICES ASSUME Init  PROVE TypeOK /\ BusyInv /\ StartInv
  OBVIOUS
<1>0. Main \in Procs
  BY DEF Procs
<1>1. started \in BOOLEAN
  BY DEF Init
<1>2. TypeOK
  BY <1>1 DEF Init, TypeOK
<1>3. BusyInv
  BY DEF Init, BusyInv
<1>4. StartInv
  BY <1>0 DEF Init, StartInv, Untouched, Inside
<1> QED  BY <1>2, <1>3, <1>4

\* The scheduler's state keeps its types; a task is only ever dispatched to a
\* processor of the pool, whatever the uninitialised m_lastActiveIdx holds.
THEOREM SchedulerTypes == SafetySpec => []TypeOK
<1> QED  BY InitStarts, TypeInduction, PTL DEF SafetySpec

\* m_mutex lets one start() past for good, however many race.
THEOREM OneStart == SafetySpec => []OneMainRun
<1>1. StartInv => OneMainRun
  BY DEF StartInv, OneMainRun, Untouched, HeldBy, Inside
<1> QED  BY <1>1, InitStarts, TypeInduction, StartInduction, PTL DEF SafetySpec

\* The pool a running start() uses is the one it was asked for.
THEOREM PoolIsComplete == SafetySpec => []PoolComplete
<1>1. TypeOK /\ StartInv => PoolComplete
  <2> SUFFICES ASSUME TypeOK, StartInv, NEW s \in Starters, startPC[s] = "run"
               PROVE  /\ Len(processors) = NumThreads
                      /\ processors[1] = Main
                      /\ \A i, j \in 1..Len(processors) :
                              processors[i] = processors[j] => i = j
    BY DEF PoolComplete
  <2>1. HeldBy(s)
    BY DEF StartInv, Untouched, HeldBy, Inside
  <2> QED  BY <2>1 DEF HeldBy, PoolShape
<1> QED  BY <1>1, InitStarts, TypeInduction, StartInduction, PTL DEF SafetySpec

\* Nothing ends a running scheduler: m_started stays set while a start() is
\* inside run(), because stop() resets it only after it gets the m_mutex that
\* start() holds, and start() gives it up only when m_started is reset.
RunsForever == (\E s \in Starters : startPC[s] = "run") => started /\ mutex # None

\* The reason stop() cannot return (run scheduler_stop), for any number of
\* threads that call start() and stop().
THEOREM StopCannotClose == SafetySpec => []RunsForever
<1>1. StartInv => RunsForever
  BY DEF StartInv, RunsForever, Untouched, HeldBy, Inside
<1> QED  BY <1>1, InitStarts, TypeInduction, StartInduction, PTL DEF SafetySpec
=============================================================================
