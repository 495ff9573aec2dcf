----------------------------- MODULE Processor -----------------------------
(***************************************************************************)
(* One coroutine processor: the thread that runs Processor::run, the tasks *)
(* it multiplexes and the threads that hand it work.                       *)
(*                                                                         *)
(* m_runableQueue, m_curTask, m_addNewRemain and m_garbageList belong to   *)
(* the processor's thread; m_newQueue, m_idled, m_notified and the         *)
(* condition variable are shared with every thread that calls addTask.     *)
(* Each critical section of m_mutex (tickle, stopping, idle up to the wait *)
(* and idle after the wait) is one action, since it contains no blocking   *)
(* call.  addTask is two actions: the enqueue, then the tickle.            *)
(*                                                                         *)
(* m_started changes once, from false to true: start() creates the slave   *)
(* processors' threads before it sets it, and holds Scheduler::m_mutex     *)
(* until the main processor's run() returns.  stop() needs that mutex to   *)
(* clear the flag, so it blocks while a run() is live (module Scheduler)   *)
(* and no processor sees m_started become false.                           *)
(*                                                                         *)
(* Both queues are atomic FIFO queues here.  What LFQueue really provides  *)
(* is the subject of module LFQueue.                                       *)
(***************************************************************************)
EXTENDS Naturals, Sequences

CONSTANTS
    Tasks,          \* the coroutine tasks that may be created
    Threads,        \* the other threads: creators, the timer thread
    Self,           \* the processor's own thread, when a task calls addTask
    NoTask,         \* m_curTask = nullptr
    GarbageLimit    \* the 16 of Processor::run

ASSUME ProcessorAssumption ==
    /\ Self \notin Threads
    /\ NoTask \notin Tasks
    /\ GarbageLimit \in Nat

VARIABLES
    pc,             \* where the processor's thread is in run()
    newQueue,       \* m_newQueue
    runableQueue,   \* m_runableQueue
    curTask,        \* m_curTask
    addNewRemain,   \* m_addNewRemain
    garbageList,    \* m_garbageList
    idled,          \* m_idled
    notified,       \* m_notified
    signalled,      \* m_cond has released the thread waiting in idle()
    started,        \* Scheduler::m_started
    state,          \* Task::m_state, "NONE" before the task is created
    armed,          \* tasks some timer callback will still wake
    tickling        \* threads inside addTask between enqueue and tickle

queueVars == <<newQueue, runableQueue, curTask, addNewRemain, garbageList>>
parkVars == <<idled, notified, signalled>>
vars == <<pc, queueVars, parkVars, started, state, armed, tickling>>

PCs == {"loop", "fetch", "idle", "wait", "collect", "inner", "exec",
        "registered", "settle", "done"}
\* Task::run sets EXEC once, on the first swap-in; the state is next read after
\* the task has set another one, so EXEC is left out.
TaskState == {"NONE", "READY", "HOLD", "EXCEPT", "TERM"}
Callers == Threads \cup {Self}

TypeOK ==
    /\ pc \in PCs
    /\ newQueue \in Seq(Tasks)
    /\ runableQueue \in Seq(Tasks)
    /\ curTask \in Tasks \cup {NoTask}
    /\ addNewRemain \in {0, 1}
    /\ garbageList \in Seq(Tasks)
    /\ idled \in BOOLEAN
    /\ notified \in BOOLEAN
    /\ signalled \in BOOLEAN
    /\ started \in BOOLEAN
    /\ state \in [Tasks -> TaskState]
    /\ armed \in SUBSET Tasks
    /\ tickling \in SUBSET Callers

\* m_addNewRemain has no initialiser, but run() assigns it before getNextTask
\* reads it; 0 stands for the unread value.  m_started is set when the main
\* processor's run() begins, and perhaps not yet when a slave's does.
Init ==
    /\ pc = "loop"
    /\ newQueue = <<>>
    /\ runableQueue = <<>>
    /\ curTask = NoTask
    /\ addNewRemain = 0
    /\ garbageList = <<>>
    /\ idled = FALSE
    /\ notified = FALSE
    /\ signalled = FALSE
    /\ started \in BOOLEAN
    /\ state = [t \in Tasks |-> "NONE"]
    /\ armed = {}
    /\ tickling = {}

-----------------------------------------------------------------------------
(* The threads that hand work to the processor.                            *)

\* Mutant of Enqueue: the task is queued and nobody is told.
EnqueueSilently(c, t) ==
    newQueue' = Append(newQueue, t) /\ UNCHANGED tickling

\* The first half of addTask: m_newQueue.enqueue(task).
Enqueue(c, t) ==
    /\ newQueue' = Append(newQueue, t)
    /\ tickling' = tickling \cup {c}

\* Scheduler::createTask: a new Task, handed to this processor.
CreateTask(c, t) ==
    /\ c \notin tickling
    /\ c = Self => pc = "exec"
    /\ state[t] = "NONE"
    /\ state' = [state EXCEPT ![t] = "READY"]
    /\ Enqueue(c, t)
    /\ UNCHANGED <<pc, runableQueue, curTask, addNewRemain, garbageList,
                   parkVars, started, armed>>

\* Task::wake from the timer callback that sleep() registered.
WakeupTask(c, t) ==
    /\ c \in Threads \ tickling
    /\ t \in armed
    /\ armed' = armed \ {t}
    /\ Enqueue(c, t)
    /\ UNCHANGED <<pc, runableQueue, curTask, addNewRemain, garbageList,
                   parkVars, started, state>>

\* Scheduler::start: m_started = true, after the slaves' threads were created.
StartScheduler ==
    /\ ~started
    /\ started' = TRUE
    /\ UNCHANGED <<pc, queueVars, parkVars, state, armed, tickling>>

\* Processor::tickle.  notify_one releases the thread only if it waits.
Tickle(c) ==
    /\ c \in tickling
    /\ tickling' = tickling \ {c}
    /\ IF idled
       THEN signalled' = TRUE /\ UNCHANGED notified
       ELSE notified' = TRUE /\ UNCHANGED signalled
    /\ UNCHANGED <<pc, queueVars, idled, started, state, armed>>

-----------------------------------------------------------------------------
(* The processor's thread: Processor::run.                                 *)

\* Whether getNextTask(flag) takes over the new tasks.
AddsNew(q, flag) == q = <<>> /\ (flag \/ addNewRemain > 0)

\* Mutant of GetNextTask: the task taken stays in the queue.
GetNextTaskPeek(q, flag) ==
    LET avail == IF AddsNew(q, flag) THEN newQueue ELSE q
    IN  /\ newQueue' = IF AddsNew(q, flag) THEN <<>> ELSE newQueue
        /\ curTask' = IF avail = <<>> THEN NoTask ELSE Head(avail)
        /\ runableQueue' = avail

\* getNextTask(flag) on the runable queue q: dequeue; if that fails, take
\* over m_newQueue when allowed and dequeue again.
GetNextTask(q, flag) ==
    LET avail == IF AddsNew(q, flag) THEN newQueue ELSE q
    IN  /\ newQueue' = IF AddsNew(q, flag) THEN <<>> ELSE newQueue
        /\ curTask' = IF avail = <<>> THEN NoTask ELSE Head(avail)
        /\ runableQueue' = IF avail = <<>> THEN <<>> ELSE Tail(avail)

\* while (!stopping()).  A slave that comes here before start() has set
\* m_started ends for good.
LoopStopping ==
    /\ pc = "loop"
    /\ pc' = IF started THEN "fetch" ELSE "done"
    /\ UNCHANGED <<queueVars, parkVars, started, state, armed, tickling>>

\* getNextTask(true); without a task, collect the garbage and go idle.
Fetch ==
    /\ pc = "fetch"
    /\ GetNextTask(runableQueue, TRUE)
    /\ \/ /\ curTask' = NoTask
          /\ garbageList' = <<>>
          /\ pc' = "idle"
          /\ UNCHANGED addNewRemain
       \/ /\ curTask' # NoTask
          /\ addNewRemain' = 1
          /\ pc' = "inner"
          /\ UNCHANGED garbageList
    /\ UNCHANGED <<parkVars, started, state, armed, tickling>>

\* Mutant of Idle: m_notified is not tested before the wait.
IdleUntested ==
    /\ pc = "idle"
    /\ idled' = TRUE
    /\ pc' = "wait"
    /\ UNCHANGED <<queueVars, notified, signalled, started, state, armed,
                   tickling>>

\* Processor::idle up to m_cond.wait().
Idle ==
    /\ pc = "idle"
    /\ \/ /\ notified
          /\ notified' = FALSE
          /\ pc' = "collect"
          /\ UNCHANGED idled
       \/ /\ ~notified
          /\ idled' = TRUE
          /\ pc' = "wait"
          /\ UNCHANGED notified
    /\ UNCHANGED <<queueVars, signalled, started, state, armed, tickling>>

\* Processor::idle after m_cond.wait() returned.
LeaveWait ==
    /\ idled' = FALSE
    /\ signalled' = FALSE
    /\ pc' = "collect"
    /\ UNCHANGED <<queueVars, notified, started, state, armed, tickling>>

Awake == pc = "wait" /\ signalled /\ LeaveWait

\* pthread_cond_wait may return although nobody signalled.
SpuriousWakeup == pc = "wait" /\ ~signalled /\ LeaveWait

\* m_runableQueue.concatenate(m_newQueue); continue
Collect ==
    /\ pc = "collect"
    /\ runableQueue' = runableQueue \o newQueue
    /\ newQueue' = <<>>
    /\ pc' = "loop"
    /\ UNCHANGED <<curTask, addNewRemain, garbageList, parkVars, started,
                   state, armed, tickling>>

\* while (m_curTask && !stopping()) { setProcessor(this); ...; swapIn().
SwapIn ==
    /\ pc = "inner"
    /\ pc' = IF curTask # NoTask /\ started THEN "exec" ELSE "loop"
    /\ UNCHANGED <<queueVars, parkVars, started, state, armed, tickling>>

\* The switch on m_curTask->state() after swapIn returned, m_curTask = nullptr
\* and getNextTask(), back to the condition of the inner loop.
Settle ==
    /\ pc = "settle"
    /\ LET s == state[curTask]
           q == IF s = "READY" THEN Append(runableQueue, curTask)
                               ELSE runableQueue
           kept == IF Len(garbageList) > GarbageLimit THEN <<>>
                                                      ELSE garbageList
       IN  /\ garbageList' = IF s \in {"READY", "HOLD"} THEN garbageList
                             ELSE Append(kept, curTask)
           /\ GetNextTask(q, FALSE)
           /\ addNewRemain' = IF AddsNew(q, FALSE) THEN addNewRemain - 1
                                                   ELSE addNewRemain
    /\ pc' = "inner"
    /\ UNCHANGED <<parkVars, started, state, armed, tickling>>

-----------------------------------------------------------------------------
(* The running task.  A task inside addTask (Self \in tickling) does       *)
(* nothing else before it has tickled.                                     *)

Running == pc = "exec" /\ Self \notin tickling

\* The task swaps out in state s.
SwapOut(s) ==
    /\ state' = [state EXCEPT ![curTask] = s]
    /\ pc' = "settle"
    /\ UNCHANGED <<queueVars, parkVars, started, armed, tickling>>

\* Task::yield
Yield == Running /\ SwapOut("READY")

\* The hooked sleep: TimerManager::addTimer(.., [task]{ task->wake(); }) ...
Register ==
    /\ Running
    /\ armed' = armed \cup {curTask}
    /\ pc' = "registered"
    /\ UNCHANGED <<queueVars, parkVars, started, state, tickling>>

\* Mutant of Hold: the task leaves the processor without the state HOLD.
HoldReady == pc = "registered" /\ SwapOut("READY")

\* ... then Processor::CoHold.
Hold == pc = "registered" /\ SwapOut("HOLD")

\* Task::run: the callback returned, or it threw.
Finish == Running /\ \E s \in {"TERM", "EXCEPT"} : SwapOut(s)

-----------------------------------------------------------------------------
ProcessorStep ==
    \/ LoopStopping \/ Fetch \/ Idle \/ Awake \/ Collect \/ SwapIn \/ Settle

TaskStep == Yield \/ Register \/ Hold \/ Finish

Next ==
    \/ ProcessorStep
    \/ TaskStep
    \/ SpuriousWakeup
    \/ \E c \in Callers : Tickle(c)
    \/ \E c \in Callers, t \in Tasks : CreateTask(c, t)
    \/ \E c \in Threads, t \in Tasks : WakeupTask(c, t)
    \/ StartScheduler

(***************************************************************************)
(* Fairness: the OS keeps scheduling the processor's thread and every      *)
(* thread inside tickle; a running task eventually leaves the processor    *)
(* (tasks are cooperative, which is what the scheduler is built on); the   *)
(* timer thread eventually runs an expired callback.  Nothing obliges      *)
(* anybody to create a task.                                               *)
(***************************************************************************)
Fairness ==
    /\ WF_vars(ProcessorStep)
    /\ WF_vars(TaskStep)
    /\ \A c \in Callers : WF_vars(Tickle(c))
    /\ \A t \in Tasks : WF_vars(\E c \in Threads : WakeupTask(c, t))

SafetySpec == Init /\ [][Next]_vars
Spec == SafetySpec /\ Fairness

-----------------------------------------------------------------------------
(* Properties.                                                             *)

Elements(q) == {q[i] : i \in 1..Len(q)}
Injective(q) == \A i, j \in 1..Len(q) : q[i] = q[j] => i = j

\* No lost wakeup (Processor::tickle against Processor::idle): when the
\* processor is parked and nobody has signalled it, then either no task is
\* queued or some thread is still between its enqueue and its tickle.
NoLostWakeup ==
    pc = "wait" /\ ~signalled =>
        \/ newQueue = <<>> /\ runableQueue = <<>>
        \/ tickling # {}

\* The tasks that owe their next run to a timer callback or to a queue entry.
Waiting == armed \cup Elements(newQueue) \cup Elements(runableQueue)

\* The task on the processor has committed to suspend: it registered its
\* wake-up, and that wake-up may already have come.
Suspending ==
    \/ pc = "registered"
    \/ pc = "settle" /\ state[curTask] = "HOLD"

\* Tasks are neither lost nor duplicated (Processor::run, Task::wake): a live
\* task off the processor has exactly one claim to run again - a queue entry
\* or an armed wake-up -, finished tasks have none, and neither has the task
\* on the processor unless it is about to suspend.  So no task is resumed
\* while it runs, resumed after its end, or forgotten, even when the wake-up
\* overtakes the hold.
OneClaimPerTask ==
    /\ Injective(newQueue)
    /\ Injective(runableQueue)
    /\ Elements(newQueue) \cap Elements(runableQueue) = {}
    /\ armed \cap (Elements(newQueue) \cup Elements(runableQueue)) = {}
    /\ \A t \in Tasks :
          t \in Waiting <=>
              /\ state[t] \in {"READY", "HOLD"}
              /\ t = curTask => Suspending

\* The task in hand that is to run, or that yielded and is not queued yet.
InHand ==
    IF \/ pc = "inner"
       \/ pc = "settle" /\ state[curTask] = "READY"
    THEN {curTask} \ {NoTask}
    ELSE {}

\* The processor as a TaskPool.
Created == {t \in Tasks : state[t] # "NONE"}
OnProcessor == IF pc \in {"exec", "registered"} THEN curTask ELSE NoTask
Ready == Elements(newQueue) \cup Elements(runableQueue) \cup InHand

Pool == INSTANCE TaskPool WITH
    created <- Created, running <- OnProcessor, ready <- Ready, sleeping <- armed

\* Processor::run with addTask, wake, yield and hold implements TaskPool: a task
\* is resumed once for its creation and for each yield or wake-up, one task at
\* a time, wherever the wake-up falls between addTimer and the end of the hold.
RunsTaskPool == Pool!Spec

\* From some point on no task yields any more.
EventuallyNoYield == <>[][~Yield]_vars

\* Every queued task is eventually resumed, if the tasks stop yielding
\* (getNextTask consults m_newQueue only when the runable queue is empty) -
\* unless the processor is a slave that looked at m_started before start() set
\* it, and is gone.  A processor that got past its first look never ends.
QueuedTaskRuns ==
    EventuallyNoYield =>
        \A t \in Tasks :
            t \in Elements(newQueue) \cup Elements(runableQueue)
                ~> t = curTask \/ pc = "done"
=============================================================================
