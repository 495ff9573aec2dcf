----------------------------- MODULE Scheduler -----------------------------
(***************************************************************************)
(* The coroutine scheduler: start, stop and the dispatch of new tasks over *)
(* the processors.  A processor is reduced to what module Processor shows  *)
(* of it: it works on its queue, and while parked it reacts to a queued    *)
(* task (NoLostWakeup); with m_started false it ends at its loop condition *)
(* as Processor::run does, the tickle of stop() having awakened it.        *)
(*                                                                         *)
(* Scheduler::m_mutex is a plain pthread mutex.  start() holds it while    *)
(* the main processor runs on the calling thread.  The monitor loop        *)
(* Scheduler::run is never called and is not part of the model, so         *)
(* m_activated keeps its initial value TRUE on every processor.            *)
(***************************************************************************)
EXTENDS Naturals, Sequences

CONSTANTS
    Main,           \* m_mainProcessor
    Slaves,         \* the Processor objects newPoccessorThread may create
    Tasks,          \* the tasks that may be created
    Starters,       \* threads that call start()
    OwnThread,      \* the starter that is m_thread (startInNewThread), if any
    Clients,        \* threads that call createTask and stop()
    StopTasks,      \* processors with a task that calls stop()
    NumThreads,     \* the argument of start()
    Garbage,        \* what the uninitialised m_started may hold
    None

Procs == {Main} \cup Slaves
Stoppers == Clients \cup StopTasks

ASSUME SchedulerAssumption ==
    /\ Main \notin Slaves
    /\ StopTasks \subseteq Procs
    /\ Garbage \subseteq BOOLEAN
    /\ NumThreads \in Nat \ {0}
    /\ None \notin Starters

VARIABLES
    mutex,          \* the holder of m_mutex, or None
    started,        \* m_started
    processors,     \* m_processors
    lastActiveIdx,  \* m_lastActiveIdx: never assigned by the code
    startPC,        \* progress of every start() call
    slavesLeft,     \* its loop over num_threads - 1 slaves
    stopPC,         \* progress of every stop() call
    procPC,         \* progress of every processor's run()
    queue,          \* the tasks queued at every processor
    running,        \* the task every processor runs, or None
    ran             \* the tasks that have run

vars == <<mutex, started, processors, lastActiveIdx, startPC, slavesLeft,
          stopPC, procPC, queue, running, ran>>

TypeOK ==
    /\ mutex \in Starters \cup Stoppers \cup {None}
    /\ started \in BOOLEAN
    /\ processors \in Seq(Procs)
    /\ lastActiveIdx \in 0..NumThreads-1
    /\ startPC \in [Starters -> {"idle", "lock", "create", "run", "end"}]
    /\ slavesLeft \in [Starters -> 0..NumThreads-1]
    /\ stopPC \in [Stoppers -> {"idle", "lock", "join", "end"}]
    /\ procPC \in [Procs -> {"none", "loop", "busy", "done"}]
    /\ queue \in [Procs -> Seq(Tasks)]
    /\ running \in [Procs -> Tasks \cup {None}]
    /\ ran \subseteq Tasks

\* Scheduler::Scheduler initialises neither m_started nor m_lastActiveIdx.
Init ==
    /\ mutex = None
    /\ started \in Garbage
    /\ processors = <<>>
    /\ lastActiveIdx \in 0..NumThreads-1
    /\ startPC = [s \in Starters |-> "idle"]
    /\ slavesLeft = [s \in Starters |-> NumThreads - 1]
    /\ stopPC = [x \in Stoppers |-> "idle"]
    /\ procPC = [p \in Procs |-> "none"]
    /\ queue = [p \in Procs |-> <<>>]
    /\ running = [p \in Procs |-> None]
    /\ ran = {}

taskVars == <<queue, running, ran>>

-----------------------------------------------------------------------------
(* start(num_threads)                                                      *)

\* if (m_started) return;
StartCall(s) ==
    /\ startPC[s] = "idle"
    /\ startPC' = [startPC EXCEPT ![s] = IF started THEN "end" ELSE "lock"]
    /\ UNCHANGED <<mutex, started, processors, lastActiveIdx, slavesLeft,
                   stopPC, procPC, taskVars>>

\* Mutant of StartLock: the lock is not taken.
StartUnlocked(s) ==
    /\ startPC[s] = "lock"
    /\ processors' = Append(processors, Main)
    /\ startPC' = [startPC EXCEPT ![s] = "create"]
    /\ UNCHANGED <<mutex, started, lastActiveIdx, slavesLeft, stopPC, procPC,
                   taskVars>>

\* MutexType::Lock lock(m_mutex); m_processors.push_back(m_mainProcessor)
StartLock(s) ==
    /\ startPC[s] = "lock"
    /\ mutex = None
    /\ mutex' = s
    /\ processors' = Append(processors, Main)
    /\ startPC' = [startPC EXCEPT ![s] = "create"]
    /\ UNCHANGED <<started, lastActiveIdx, slavesLeft, stopPC, procPC,
                   taskVars>>

\* newPoccessorThread: the new processor's thread is running when it returns.
NewProcessorThread(s) ==
    /\ startPC[s] = "create"
    /\ slavesLeft[s] > 0
    /\ slavesLeft' = [slavesLeft EXCEPT ![s] = @ - 1]
    /\ \E p \in Slaves :
        /\ procPC[p] = "none"
        /\ procPC' = [procPC EXCEPT ![p] = "loop"]
        /\ processors' = Append(processors, p)
    /\ UNCHANGED <<mutex, started, lastActiveIdx, startPC, stopPC, taskVars>>

\* Mutant of StartRun: does not wait for the loop over the slaves.
StartRunEarly(s) ==
    /\ startPC[s] = "create"
    /\ started' = TRUE
    /\ procPC' = [procPC EXCEPT ![Main] = "loop"]
    /\ startPC' = [startPC EXCEPT ![s] = "run"]
    /\ UNCHANGED <<mutex, processors, lastActiveIdx, slavesLeft, stopPC,
                   taskVars>>

\* Mutant of StartRun: the main processor is not run.
StartNoRun(s) ==
    /\ startPC[s] = "create"
    /\ slavesLeft[s] = 0
    /\ started' = TRUE
    /\ startPC' = [startPC EXCEPT ![s] = "run"]
    /\ UNCHANGED <<mutex, processors, lastActiveIdx, slavesLeft, stopPC,
                   procPC,
                   taskVars>>

\* m_started = true; m_mainProcessor->run(), with m_mutex held
StartRun(s) ==
    /\ startPC[s] = "create"
    /\ slavesLeft[s] = 0
    /\ started' = TRUE
    /\ procPC' = [procPC EXCEPT ![Main] = "loop"]
    /\ startPC' = [startPC EXCEPT ![s] = "run"]
    /\ UNCHANGED <<mutex, processors, lastActiveIdx, slavesLeft, stopPC,
                   taskVars>>

-----------------------------------------------------------------------------
(* Processor::run, seen from the scheduler                                 *)

\* A task called stop() and is still inside it.
InStop(p) == p \in StopTasks /\ stopPC[p] \in {"lock", "join"}

\* while (!stopping()): a main processor that ends lets start() return.
ProcessorExit(p) ==
    /\ procPC[p] = "loop"
    /\ ~started
    /\ procPC' = [procPC EXCEPT ![p] = "done"]
    /\ IF p = Main
       THEN /\ mutex' = None
            /\ startPC' = [s \in Starters |-> IF startPC[s] = "run" THEN "end"
                                                                    ELSE startPC[s]]
       ELSE UNCHANGED <<mutex, startPC>>
    /\ UNCHANGED <<started, processors, lastActiveIdx, slavesLeft, stopPC,
                   taskVars>>

ProcessorRun(p) ==
    /\ procPC[p] = "loop"
    /\ started
    /\ queue[p] # <<>>
    /\ running' = [running EXCEPT ![p] = Head(queue[p])]
    /\ queue' = [queue EXCEPT ![p] = Tail(@)]
    /\ procPC' = [procPC EXCEPT ![p] = "busy"]
    /\ UNCHANGED <<mutex, started, processors, lastActiveIdx, startPC,
                   slavesLeft, stopPC, ran>>

TaskEnd(p) ==
    /\ procPC[p] = "busy"
    /\ ~InStop(p)
    /\ ran' = ran \cup {running[p]}
    /\ running' = [running EXCEPT ![p] = None]
    /\ procPC' = [procPC EXCEPT ![p] = "loop"]
    /\ UNCHANGED <<mutex, started, processors, lastActiveIdx, startPC,
                   slavesLeft, stopPC, queue>>

-----------------------------------------------------------------------------
(* createTask -> addTask                                                   *)

\* Every processor is activated, so the search ends at m_lastActiveIdx.
Dispatch ==
    IF processors = <<>> THEN Main
    ELSE processors[(lastActiveIdx % Len(processors)) + 1]

Created == ran \cup {running[p] : p \in Procs}
               \cup UNION {{queue[p][i] : i \in 1..Len(queue[p])} : p \in Procs}

AddTaskTo(p, t) ==
    /\ t \notin Created
    /\ queue' = [queue EXCEPT ![p] = Append(@, t)]
    /\ UNCHANGED <<mutex, started, processors, lastActiveIdx, startPC,
                   slavesLeft, stopPC,
                   procPC, running, ran>>

CreateTask(c, t) == stopPC[c] \in {"idle", "end"} /\ AddTaskTo(Dispatch, t)

\* A task creates a task: GetCurrentProcessor() takes it.
CreateTaskInTask(p, t) == procPC[p] = "busy" /\ ~InStop(p) /\ AddTaskTo(p, t)

-----------------------------------------------------------------------------
(* stop(), called by a client or by a task                                 *)

\* if (!m_started) return;
StopCall(x) ==
    /\ stopPC[x] = "idle"
    /\ x \in Procs => procPC[x] = "busy"
    /\ stopPC' = [stopPC EXCEPT ![x] = IF started THEN "lock" ELSE "end"]
    /\ UNCHANGED <<mutex, started, processors, lastActiveIdx, startPC,
                   slavesLeft, procPC,
                   taskVars>>

\* { Lock lock(m_mutex); m_started = false; }
StopLock(x) ==
    /\ stopPC[x] = "lock"
    /\ mutex = None
    /\ started' = FALSE
    /\ stopPC' = [stopPC EXCEPT ![x] = "join"]
    /\ UNCHANGED <<mutex, processors, lastActiveIdx, startPC, slavesLeft,
                   procPC, taskVars>>

\* tickle every processor; if (m_thread) m_thread->join()
StopJoin(x) ==
    /\ stopPC[x] = "join"
    /\ OwnThread \in Starters => startPC[OwnThread] \in {"idle", "end"}
    /\ stopPC' = [stopPC EXCEPT ![x] = "end"]
    /\ UNCHANGED <<mutex, started, processors, lastActiveIdx, startPC,
                   slavesLeft, procPC,
                   taskVars>>

-----------------------------------------------------------------------------
StartStep(s) == StartCall(s) \/ StartLock(s) \/ NewProcessorThread(s) \/ StartRun(s)
ProcStep(p) == ProcessorExit(p) \/ ProcessorRun(p) \/ TaskEnd(p)
StopStep(x) == StopLock(x) \/ StopJoin(x)

Next ==
    \/ \E s \in Starters : StartStep(s)
    \/ \E p \in Procs : ProcStep(p)
    \/ \E x \in Stoppers : StopStep(x)
    \/ \E x \in Stoppers : StopCall(x)
    \/ \E c \in Clients, t \in Tasks : CreateTask(c, t)
    \/ \E p \in Procs, t \in Tasks : CreateTaskInTask(p, t)

\* Every thread that can run is eventually scheduled; nobody is obliged to
\* create tasks or to stop.  A contended mutex is not granted fairly.
Fairness ==
    /\ \A s \in Starters : WF_vars(StartStep(s))
    /\ \A p \in Procs : WF_vars(ProcStep(p))
    /\ \A x \in Stoppers : WF_vars(StopStep(x))

SafetySpec == Init /\ [][Next]_vars
Spec == SafetySpec /\ Fairness

-----------------------------------------------------------------------------
(* Properties.                                                             *)

\* Two start() calls that both found m_started unset cannot both run the
\* main processor: m_mutex, held for all of run(), lets only one past.
OneMainRun ==
    \A s1, s2 \in Starters :
        startPC[s1] \in {"create", "run"} /\ startPC[s2] \in {"create", "run"}
            => s1 = s2

\* Once a start() runs the main processor, the pool is exactly what it was
\* asked for: the main processor first, and num_threads distinct processors.
PoolComplete ==
    (\E s \in Starters : startPC[s] = "run") =>
        /\ Len(processors) = NumThreads
        /\ processors[1] = Main
        /\ \A i, j \in 1..Len(processors) : processors[i] = processors[j] => i = j

QueuedAt(p, t) == \E i \in 1..Len(queue[p]) : queue[p][i] = t

\* A task queued at any processor runs once start() has reached its run(),
\* unless the scheduler is stopped first, or the processor is a slave that is
\* gone: newPoccessorThread starts its thread before start() sets m_started,
\* and a slave that evaluates stopping() in between ends for good, although
\* addTask goes on to give it tasks.  (No task calls stop() itself here: one
\* that does keeps its processor, as StopReturns shows.)
TaskRuns ==
    \A p \in Procs, t \in Tasks :
        QueuedAt(p, t) /\ (\E s \in Starters : startPC[s] = "run")
            ~> t \in ran \/ ~started \/ (p # Main /\ procPC[p] = "done")

\* stop() closes the scheduler and returns.
StopReturns == \A x \in Stoppers : stopPC[x] = "lock" ~> stopPC[x] = "end"
=============================================================================
