--------------------------- MODULE TimerManager ---------------------------
(***************************************************************************)
(* TimerManager: the timer thread and the threads that add, cancel,        *)
(* refresh and reset timers.  A block under m_mutex is one step; tests     *)
(* outside of it are steps of their own.  Each timer has one owner that    *)
(* calls its operations one after the other, as the hooked calls do.       *)
(***************************************************************************)
EXTENDS Naturals, Sequences, FiniteSets

CONSTANTS
    Timers,         \* the timers, named by their address, and their owners
    Recurring,      \* the timers with m_recurring
    Operated,       \* the timers their owners cancel, refresh or reset; others are only added
    Periods,        \* the values of m_ms
    PollTime,       \* how long the thread waits without timers (1000 ms)
    Hour,           \* the step back that counts as a rollover (60 * 60 * 1000 ms)
    MaxTime         \* bound on the clock

ASSUME TimerAssumption ==
    /\ Timers \subseteq Nat
    /\ Recurring \subseteq Timers
    /\ Operated \subseteq Timers
    /\ Periods \subseteq Nat \ {0}
    /\ PollTime \in Nat /\ Hour \in Nat /\ MaxTime \in Nat
    /\ Hour <= MaxTime

\* The clock is always past its first hour: m_previousTime - Hour is no underflow.
Clock == Hour..MaxTime

VARIABLES
    now,            \* the system time
    timerSet,       \* m_timer_set
    next,           \* m_next of every timer
    ms,             \* m_ms of every timer
    callback,       \* timers with an m_callback
    previousTime,   \* m_previousTime
    started,        \* m_started
    pc,             \* where every owner is
    thread,         \* where the timer thread is
    deadline,       \* the end of the timer thread's timed wait
    signalled,      \* the timer thread's wait was notified
    calls,          \* callback_list, what is left of it
    fired,          \* one-shot timers whose callback has run
    cancelled,      \* timers whose cancel() returned true
    erasedEnd,      \* cancelTimer executed erase(end())
    mayOversleep    \* the clock was set back, or a wait computed inside a refreshTimer

timerVars == <<timerSet, next, ms, callback, previousTime>>
threadVars == <<thread, deadline, signalled, calls, fired>>
ghostVars == <<cancelled, erasedEnd, mayOversleep>>
vars == <<now, timerVars, started, pc, threadVars, ghostVars>>

PCs == {"none", "insert", "first", "tickle", "idle", "cancel", "refreshErase",
        "refreshNext", "refreshInsert", "resetErase", "resetNext"}

TypeOK ==
    /\ now \in Clock
    /\ timerSet \subseteq Timers
    /\ next \in [Timers -> Nat]
    /\ \A t \in timerSet : \E s \in Clock : next[t] = s + ms[t]
    /\ ms \in [Timers -> Periods \cup {0}]
    /\ callback \subseteq Timers
    /\ previousTime \in Clock \cup {0}
    /\ started \in BOOLEAN
    /\ pc \in [Timers -> PCs]
    /\ thread \in {"loop", "wait", "list", "call", "done"}
    /\ deadline \in Nat
    /\ signalled \in BOOLEAN
    /\ calls \in Seq(Timers)
    /\ fired \subseteq Timers
    /\ cancelled \subseteq Timers
    /\ erasedEnd \in BOOLEAN
    /\ mayOversleep \in BOOLEAN

Init ==
    /\ now = Hour
    /\ timerSet = {}
    /\ next = [t \in Timers |-> 0]
    /\ ms = [t \in Timers |-> 0]
    /\ callback = {}
    /\ previousTime = 0
    /\ started = TRUE
    /\ pc = [t \in Timers |-> "none"]
    /\ thread = "loop"
    /\ deadline = 0
    /\ signalled = FALSE
    /\ calls = <<>>
    /\ fired = {}
    /\ cancelled = {}
    /\ erasedEnd = FALSE
    /\ mayOversleep = FALSE

-----------------------------------------------------------------------------
(* The clock, gettimeofday and CLOCK_REALTIME.                             *)

Tick ==
    /\ now < MaxTime
    /\ now' = now + 1
    /\ UNCHANGED <<timerVars, started, pc, threadVars, ghostVars>>

SetBack ==
    /\ now' \in {n \in Clock : n < now}
    /\ mayOversleep' = TRUE
    /\ UNCHANGED <<timerVars, started, pc, threadVars, cancelled, erasedEnd>>

-----------------------------------------------------------------------------
(* The owner of timer t.                                                   *)

Goto(t, p) == pc' = [pc EXCEPT ![t] = p]

\* addTimer(ms, callback, recurring): construct the timer; addTimer(timer).
AddTimer(t, m) ==
    /\ pc[t] = "none"
    /\ ms' = [ms EXCEPT ![t] = m]
    /\ next' = [next EXCEPT ![t] = now + m]
    /\ callback' = callback \cup {t}
    /\ Goto(t, "insert")
    /\ UNCHANGED <<now, timerSet, previousTime, started, threadVars, ghostVars>>

\* insert(timer) under the lock; to continue at p.
SetInsert(t, p) ==
    /\ timerSet' = timerSet \cup {t}
    /\ Goto(t, p)
    /\ UNCHANGED <<now, next, ms, callback, previousTime, started, threadVars,
                   ghostVars>>

\* addTimer(timer), its insert.
Insert(t) == pc[t] = "insert" /\ SetInsert(t, "first")

\* Timer::Comparator
Before(t, u) == next[t] < next[u] \/ (next[t] = next[u] /\ t < u)

\* Is t the first of m_timer_set?
IsFirst(t) == t \in timerSet /\ \A u \in timerSet \ {t} : Before(t, u)

\* Mutant of FirstTest: tests for the end of the set.
LastTest(t) ==
    /\ pc[t] = "first"
    /\ Goto(t, IF \A u \in timerSet : ~Before(t, u) THEN "tickle" ELSE "idle")
    /\ UNCHANGED <<now, timerVars, started, threadVars, ghostVars>>

\* if (it == m_timer_set.begin()), without the lock.  If the timer thread has
\* taken the timer meanwhile, the iterator is invalid and the test may go
\* either way.
FirstTest(t) ==
    /\ pc[t] = "first"
    /\ \/ (IsFirst(t) \/ t \notin timerSet) /\ Goto(t, "tickle")
       \/ ~IsFirst(t) /\ Goto(t, "idle")
    /\ UNCHANGED <<now, timerVars, started, threadVars, ghostVars>>

\* tickle()
Tickle(t) ==
    /\ pc[t] = "tickle"
    /\ signalled' = (signalled \/ thread = "wait")
    /\ Goto(t, "idle")
    /\ UNCHANGED <<now, timerVars, started, thread, deadline, calls, fired,
                   ghostVars>>

\* cancel, refresh and reset(ms, from_now) begin with if (!m_callback) return
\* false, without the lock; reset returns before when there is nothing to do.
CallbackTest(t, p) ==
    /\ pc[t] = "idle"
    /\ t \in callback
    /\ Goto(t, p)
    /\ UNCHANGED <<now, timerVars, started, threadVars, ghostVars>>

\* cancelTimer: m_callback = nullptr; erase(find(timer)); return true.  An
\* erase(end()) is undefined; it is recorded.
CancelErase(t) ==
    /\ pc[t] = "cancel"
    /\ callback' = callback \ {t}
    /\ timerSet' = timerSet \ {t}
    /\ erasedEnd' = (erasedEnd \/ t \notin timerSet)
    /\ cancelled' = cancelled \cup {t}
    /\ Goto(t, "idle")
    /\ UNCHANGED <<now, next, ms, previousTime, started, threadVars,
                   mayOversleep>>

\* find and erase, or return false; to continue at p.
FindErase(t, p) ==
    /\ timerSet' = timerSet \ {t}
    /\ Goto(t, IF t \in timerSet THEN p ELSE "idle")
    /\ UNCHANGED <<now, next, ms, callback, previousTime, started, threadVars,
                   ghostVars>>

RefreshErase(t) == pc[t] = "refreshErase" /\ FindErase(t, "refreshNext")

\* refreshTimer: m_next = now + m_ms, without the lock.
RefreshNext(t) ==
    /\ pc[t] = "refreshNext"
    /\ next' = [next EXCEPT ![t] = now + ms[t]]
    /\ Goto(t, "refreshInsert")
    /\ UNCHANGED <<now, timerSet, ms, callback, previousTime, started, threadVars,
                   ghostVars>>

\* refreshTimer: insert, without a look at the front of the set.
RefreshInsert(t) == pc[t] = "refreshInsert" /\ SetInsert(t, "idle")

ResetErase(t) == pc[t] = "resetErase" /\ FindErase(t, "resetNext")

ResetStart(t, fromNow) == IF fromNow THEN now ELSE next[t] - ms[t]

\* resetTimer: m_ms = ms; m_next = start + ms; addTimer(timer)
ResetNext(t, m, fromNow) ==
    /\ pc[t] = "resetNext"
    /\ fromNow \/ m # ms[t]
    /\ next' = [next EXCEPT ![t] = ResetStart(t, fromNow) + m]
    /\ ms' = [ms EXCEPT ![t] = m]
    /\ Goto(t, "insert")
    /\ UNCHANGED <<now, timerSet, callback, previousTime, started, threadVars,
                   ghostVars>>

\* stop(): m_started = false; then join.
Stop ==
    /\ started
    /\ started' = FALSE
    /\ UNCHANGED <<now, timerVars, pc, threadVars, ghostVars>>

-----------------------------------------------------------------------------
(* The timer thread: run().                                                *)

Earliest == CHOOSE n \in {next[t] : t \in timerSet} : \A t \in timerSet : n <= next[t]

\* getNextExpire: the time until the first timer expires.
GetNextExpire ==
    IF timerSet = {} THEN PollTime
    ELSE IF now >= Earliest THEN 0 ELSE Earliest - now

\* while (m_started) waitTime(getNextExpire()), under the lock.
Wait ==
    /\ thread = "loop"
    /\ started
    /\ thread' = "wait"
    /\ deadline' = now + GetNextExpire
    /\ mayOversleep' = (mayOversleep \/ \E t \in Timers : pc[t] \in {"refreshNext", "refreshInsert"})
    /\ UNCHANGED <<now, timerVars, started, pc, signalled, calls, fired,
                   cancelled, erasedEnd>>

\* The end of run(), for which stop() waits in its join.
Exit ==
    /\ thread = "loop"
    /\ ~started
    /\ thread' = "done"
    /\ UNCHANGED <<now, timerVars, started, pc, deadline, signalled, calls, fired,
                   ghostVars>>

LeaveWait ==
    /\ thread = "wait"
    /\ thread' = "list"
    /\ signalled' = FALSE
    /\ deadline' = 0
    /\ UNCHANGED <<now, timerVars, started, pc, calls, fired, ghostVars>>

\* Mutant of WaitEnds: wait() instead of waitTime().
WaitEndsSignalled == signalled /\ LeaveWait

\* The wait was notified or has reached its end.
WaitEnds == (signalled \/ now >= deadline) /\ LeaveWait

\* pthread_cond_timedwait may return early.
SpuriousWakeup == ~signalled /\ now < deadline /\ LeaveWait

\* detectClockRollover
Rollover == now < previousTime /\ now < previousTime - Hour

\* The timers in front of the iterator of listExpiredCallback.
Expired == {t \in timerSet : Rollover \/ next[t] <= now}

\* The timers of S in the order of m_timer_set.
InSetOrder(S) ==
    CHOOSE s \in [1..Cardinality(S) -> S] :
        \A i, j \in 1..Cardinality(S) : i < j => Before(s[i], s[j])

\* Mutant of ListExpiredCallback: every expired timer is put back.
ListExpiredAgain ==
    /\ thread = "list"
    /\ calls' = InSetOrder(Expired)
    /\ thread' = IF Expired = {} THEN "loop" ELSE "call"
    /\ previousTime' = IF timerSet = {} THEN previousTime ELSE now
    /\ next' = [t \in Timers |-> IF t \in Expired THEN now + ms[t] ELSE next[t]]
    /\ UNCHANGED <<now, timerSet, ms, callback, started, pc, deadline, signalled, fired,
                   ghostVars>>

\* listExpiredCallback: take the expired timers and their callbacks; put the
\* recurring ones back, release the callback of the others.
ListExpiredCallback ==
    /\ thread = "list"
    /\ calls' = InSetOrder(Expired)
    /\ thread' = IF Expired = {} THEN "loop" ELSE "call"
    /\ previousTime' = IF timerSet = {} THEN previousTime ELSE now
    /\ next' = [t \in Timers |-> IF t \in Expired \cap Recurring THEN now + ms[t] ELSE next[t]]
    /\ timerSet' = timerSet \ (Expired \ Recurring)
    /\ callback' = callback \ (Expired \ Recurring)
    /\ UNCHANGED <<now, ms, started, pc, deadline, signalled, fired,
                   ghostVars>>

\* doFunc(callback) for the next callback; back to the loop after the last.
DoFunc ==
    /\ thread = "call"
    /\ fired' = fired \cup ({Head(calls)} \ Recurring)
    /\ calls' = Tail(calls)
    /\ thread' = IF Len(calls) = 1 THEN "loop" ELSE "call"
    /\ UNCHANGED <<now, timerVars, started, pc, deadline, signalled, ghostVars>>

-----------------------------------------------------------------------------
ThreadStep == Wait \/ Exit \/ WaitEnds \/ ListExpiredCallback \/ DoFunc

\* An operation that has begun goes on.
OwnerStep(t) ==
    \/ Insert(t) \/ FirstTest(t) \/ Tickle(t) \/ CancelErase(t)
    \/ RefreshErase(t) \/ RefreshNext(t) \/ RefreshInsert(t) \/ ResetErase(t)
    \/ \E m \in Periods, fromNow \in BOOLEAN : ResetNext(t, m, fromNow)

Step ==
    \/ Tick \/ SetBack
    \/ ThreadStep
    \/ SpuriousWakeup
    \/ Stop
    \/ \E t \in Timers : OwnerStep(t)
    \/ \E t \in Timers, m \in Periods : AddTimer(t, m)
    \/ \E t \in Operated, p \in {"cancel", "refreshErase", "resetErase"} : CallbackTest(t, p)

\* After an erase(end()) the behaviour is undefined: the model ends there.
Next == ~erasedEnd /\ Step

\* The timer thread and owners inside an operation are scheduled, and timed
\* waits end when their time has come.  The clock need not advance.
Fairness ==
    /\ WF_vars(~erasedEnd /\ ThreadStep)
    /\ \A t \in Timers : WF_vars(~erasedEnd /\ OwnerStep(t))

SafetySpec == Init /\ [][Next]_vars
Spec == SafetySpec /\ Fairness

-----------------------------------------------------------------------------
(* Properties.                                                             *)

Listed(t) == \E i \in 1..Len(calls) : calls[i] = t

\* A one-shot timer that was added is in exactly one place: in the set, in the
\* hands of its owner during a refresh or reset, in the list of callbacks to
\* run - once -, or past: fired or cancelled.  So it fires at most once, is not
\* forgotten, and a cancel() that returned true keeps it from firing - unless
\* cancelTimer met the timer thread and executed erase(end()).
OneShotConserved ==
    erasedEnd \/
    \A t \in Timers \ Recurring :
        pc[t] # "none" =>
            /\ Cardinality({c \in 1..5 :
                  \/ c = 1 /\ t \in timerSet
                  \/ c = 2 /\ pc[t] \in {"insert", "refreshNext", "refreshInsert", "resetNext"}
                  \/ c = 3 /\ Listed(t)
                  \/ c = 4 /\ t \in fired
                  \/ c = 5 /\ t \in cancelled}) = 1
            /\ \A i, j \in 1..Len(calls) : calls[i] = t /\ calls[j] = t => i = j

\* The timer thread does not sleep past a timer: when it waits beyond the
\* m_next of a timer in the set and was not notified, an owner is about to
\* notify it, although addTimer looks at the front of the set without the
\* lock.  The exceptions come from refreshTimer, which does not notify: a wait
\* computed between its erase and its insert, and a clock that is set back, so
\* that the refreshed timer moves forward.
NoOversleep ==
    mayOversleep \/
    (thread = "wait" /\ ~signalled /\ now < deadline =>
        \A t \in timerSet :
            deadline <= next[t] \/ \E u \in Timers : pc[u] \in {"first", "tickle"})

\* A timer whose time has come is taken from the set, unless the manager is
\* stopped, or one of the exceptions of NoOversleep applies.
DueTaken ==
    \A t \in Timers :
        t \in timerSet /\ next[t] <= now
            ~> \/ t \notin timerSet \/ next[t] > now
               \/ ~started \/ mayOversleep \/ erasedEnd
=============================================================================
