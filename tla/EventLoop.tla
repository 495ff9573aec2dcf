----------------------------- MODULE EventLoop -----------------------------
(***************************************************************************)
(* The parking protocol of EventLoop, the processor that waits in epoll    *)
(* instead of on a condition variable.  It overrides tickle() and idle()   *)
(* without the mutex of Processor: m_idled and m_notified are atomic, but  *)
(* a test and the assignment after it are two steps here.                  *)
(*                                                                         *)
(* The tasks themselves are those of module Processor; here it matters     *)
(* only how many wait in m_newQueue and in m_runableQueue, whether one     *)
(* runs, and whether it yields or leaves the loop.  m_started is set: it   *)
(* is when the main processor runs, and stays so (module Scheduler).       *)
(***************************************************************************)
EXTENDS Naturals

CONSTANTS
    Threads,        \* the threads that call addTask
    MaxTasks        \* bound on the tasks queued in the loop or running

ASSUME EventLoopAssumption == MaxTasks \in Nat

VARIABLES
    pc,             \* where the loop's thread is
    tickle,         \* where every other thread is in addTask / tickle()
    pending,        \* the number of tasks in m_newQueue
    runable,        \* the number of tasks in m_runableQueue
    addNewRemain,   \* m_addNewRemain
    idled,          \* m_idled
    notified,       \* m_notified
    wakeFd          \* the event counter of m_wakeFd is not zero

taskVars == <<pending, runable, addNewRemain>>
vars == <<pc, tickle, taskVars, idled, notified, wakeFd>>

PCs == {"fetch", "run", "test", "clear", "setIdled", "poll", "resetIdled", "collect"}
TicklePCs == {"out", "test", "write", "testNotified", "setNotified"}

TypeOK ==
    /\ pc \in PCs
    /\ tickle \in [Threads -> TicklePCs]
    /\ pending \in Nat
    /\ runable \in Nat
    /\ addNewRemain \in {0, 1}
    /\ idled \in BOOLEAN
    /\ notified \in BOOLEAN
    /\ wakeFd \in BOOLEAN

\* run() assigns m_addNewRemain before getNextTask reads it; 0 stands for the
\* unread value.
Init ==
    /\ pc = "fetch"
    /\ tickle = [t \in Threads |-> "out"]
    /\ pending = 0
    /\ runable = 0
    /\ addNewRemain = 0
    /\ idled = FALSE
    /\ notified = FALSE
    /\ wakeFd = FALSE

-----------------------------------------------------------------------------
(* Processor::addTask with EventLoop::tickle                               *)

\* The bound: one more task fits.
Room == pending + runable + (IF pc = "run" THEN 1 ELSE 0) < MaxTasks

\* m_newQueue.enqueue(task)
Enqueue(t) ==
    /\ tickle[t] = "out"
    /\ Room
    /\ pending' = pending + 1
    /\ tickle' = [tickle EXCEPT ![t] = "test"]
    /\ UNCHANGED <<pc, runable, addNewRemain, idled, notified, wakeFd>>

\* if (m_idled)
TickleTest(t) ==
    /\ tickle[t] = "test"
    /\ tickle' = [tickle EXCEPT ![t] = IF idled THEN "write" ELSE "testNotified"]
    /\ UNCHANGED <<pc, taskVars, idled, notified, wakeFd>>

\* write(m_wakeFd, &one, sizeof one)
TickleWrite(t) ==
    /\ tickle[t] = "write"
    /\ wakeFd' = TRUE
    /\ tickle' = [tickle EXCEPT ![t] = "out"]
    /\ UNCHANGED <<pc, taskVars, idled, notified>>

\* Mutant of TickleTestNotified: the test is inverted.
TickleTestInverted(t) ==
    /\ tickle[t] = "testNotified"
    /\ tickle' = [tickle EXCEPT ![t] = IF notified THEN "setNotified" ELSE "out"]
    /\ UNCHANGED <<pc, taskVars, idled, notified, wakeFd>>

\* if (!m_notified)
TickleTestNotified(t) ==
    /\ tickle[t] = "testNotified"
    /\ tickle' = [tickle EXCEPT ![t] = IF notified THEN "out" ELSE "setNotified"]
    /\ UNCHANGED <<pc, taskVars, idled, notified, wakeFd>>

\* m_notified = true
TickleSetNotified(t) ==
    /\ tickle[t] = "setNotified"
    /\ notified' = TRUE
    /\ tickle' = [tickle EXCEPT ![t] = "out"]
    /\ UNCHANGED <<pc, taskVars, idled, wakeFd>>

-----------------------------------------------------------------------------
(* Processor::run with EventLoop::idle                                     *)

\* getNextTask(flag) on q runable tasks: dequeue; if that fails, take over
\* m_newQueue when allowed and dequeue again.
AddsNew(q, flag) == q = 0 /\ (flag \/ addNewRemain > 0)
Available(q, flag) == IF AddsNew(q, flag) THEN pending ELSE q

GetNextTask(q, flag) ==
    /\ pending' = IF AddsNew(q, flag) THEN 0 ELSE pending
    /\ runable' = IF Available(q, flag) = 0 THEN 0 ELSE Available(q, flag) - 1

\* getNextTask(true); with a task the inner loop begins, without one idle().
Fetch ==
    /\ pc = "fetch"
    /\ GetNextTask(runable, TRUE)
    /\ IF Available(runable, TRUE) > 0
       THEN pc' = "run" /\ addNewRemain' = 1
       ELSE pc' = "test" /\ UNCHANGED addNewRemain
    /\ UNCHANGED <<tickle, idled, notified, wakeFd>>

\* The task in hand is back from swapIn, which leaves q runable tasks;
\* getNextTask() and the condition of the inner loop.
Settle(q) ==
    /\ pc = "run"
    /\ GetNextTask(q, FALSE)
    /\ addNewRemain' = IF AddsNew(q, FALSE) THEN addNewRemain - 1 ELSE addNewRemain
    /\ pc' = IF Available(q, FALSE) > 0 THEN "run" ELSE "fetch"
    /\ UNCHANGED <<tickle, idled, notified, wakeFd>>

\* The task yielded: m_runableQueue.enqueue(m_curTask).
Yield == Settle(runable + 1)

\* The task is suspended or has ended.
Leave == Settle(runable)

\* if (m_notified)
IdleTest ==
    /\ pc = "test"
    /\ pc' = IF notified THEN "clear" ELSE "setIdled"
    /\ UNCHANGED <<tickle, taskVars, idled, notified, wakeFd>>

\* m_notified = false; return
IdleClear ==
    /\ pc = "clear"
    /\ notified' = FALSE
    /\ pc' = "collect"
    /\ UNCHANGED <<tickle, taskVars, idled, wakeFd>>

\* m_idled = true
IdleSet ==
    /\ pc = "setIdled"
    /\ idled' = TRUE
    /\ pc' = "poll"
    /\ UNCHANGED <<tickle, taskVars, notified, wakeFd>>

\* epoll_wait reports m_wakeFd; EpollPoller::poll drains it.
PollWakeFd ==
    /\ pc = "poll"
    /\ wakeFd
    /\ wakeFd' = FALSE
    /\ pc' = "resetIdled"
    /\ UNCHANGED <<tickle, taskVars, idled, notified>>

\* epoll_wait reports a channel, possibly besides m_wakeFd: trigger() wakes the
\* channel's task, that is addTask with m_idled set, which writes m_wakeFd; if
\* m_wakeFd comes later in the event list it is drained again.
PollIo ==
    /\ pc = "poll"
    /\ Room
    /\ pending' = pending + 1
    /\ wakeFd' \in BOOLEAN
    /\ ~wakeFd => wakeFd'
    /\ pc' = "resetIdled"
    /\ UNCHANGED <<tickle, runable, addNewRemain, idled, notified>>

\* Mutant of PollTimeout: epoll_wait without a timeout.
PollForever == FALSE

\* epoll_wait reaches its timeout of 10 s, or is interrupted.
PollTimeout ==
    /\ pc = "poll"
    /\ ~wakeFd
    /\ pc' = "resetIdled"
    /\ UNCHANGED <<tickle, taskVars, idled, notified, wakeFd>>

\* m_idled = false
IdleReset ==
    /\ pc = "resetIdled"
    /\ idled' = FALSE
    /\ pc' = "collect"
    /\ UNCHANGED <<tickle, taskVars, notified, wakeFd>>

\* m_runableQueue.concatenate(m_newQueue): the tasks run in the next round.
Collect ==
    /\ pc = "collect"
    /\ runable' = runable + pending
    /\ pending' = 0
    /\ pc' = "fetch"
    /\ UNCHANGED <<tickle, addNewRemain, idled, notified, wakeFd>>

-----------------------------------------------------------------------------
LoopStep ==
    \/ Fetch \/ Yield \/ Leave \/ IdleTest \/ IdleClear \/ IdleSet
    \/ PollWakeFd \/ PollTimeout \/ IdleReset \/ Collect

TickleStep(t) ==
    TickleTest(t) \/ TickleWrite(t) \/ TickleTestNotified(t) \/ TickleSetNotified(t)

Next ==
    \/ LoopStep
    \/ PollIo
    \/ \E t \in Threads : TickleStep(t)
    \/ \E t \in Threads : Enqueue(t)

\* The loop's thread is scheduled, a running task swaps out in the end (tasks
\* are cooperative) and epoll_wait(10000) returns; threads inside tickle() are
\* scheduled.
Fairness == WF_vars(LoopStep) /\ \A t \in Threads : WF_vars(TickleStep(t))

SafetySpec == Init /\ [][Next]_vars
Spec == SafetySpec /\ Fairness

-----------------------------------------------------------------------------
(* Properties.                                                             *)

\* The loop sleeps in epoll_wait although tasks are queued and nobody is on
\* the way to wake it.
Overslept ==
    /\ pc = "poll" /\ ~wakeFd
    /\ pending > 0
    /\ \A t \in Threads : tickle[t] = "out"

\* When the unlocked test in tickle() misses the sleeping loop, the missed
\* wakeup is at least on record in m_notified.
MissedWakeupRecorded == Overslept => notified

\* From some point on no task yields any more.
EventuallyNoYield == <>[][~Yield]_vars

\* Queued tasks are eventually taken over, if only after the timeout of
\* epoll_wait - provided the tasks stop yielding: getNextTask looks at
\* m_newQueue only when the runable queue is empty, and a task that always
\* yields keeps it from being so.
PendingTaken == EventuallyNoYield => (pending > 0 ~> pending = 0)
=============================================================================
