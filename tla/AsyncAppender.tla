--------------------------- MODULE AsyncAppender ---------------------------
(***************************************************************************)
(* The asynchronous log appender: producers append formatted lines to the  *)
(* front double buffer under m_append_mutex, the back-end thread swaps the *)
(* front buffers for empty ones, writes what it took to the bound appender *)
(* and recycles two of the buffers.                                        *)
(*                                                                         *)
(* A critical section of m_append_mutex is one action; the back end's is   *)
(* split where waitTime() releases the mutex.  A buffer is its lines and   *)
(* its length(); pointers to buffers are only ever moved, so buffers have  *)
(* no identity here and nullptr is NoBuffer.                               *)
(***************************************************************************)
EXTENDS Naturals, Sequences

CONSTANTS
    Producers,      \* the threads that log
    LinesPer,       \* bound: lines each producer logs
    LineLength,     \* length of a producer's n-th line: [1..LinesPer -> Nat]
    BufferSize,     \* kLargeBuffer
    DropLimit,      \* the 25 of AsyncAppender::run
    NoBuffer        \* nullptr

\* A formatted line comes out of a LogStream buffer, and kSmallBuffer is
\* smaller than kLargeBuffer.  run() keeps two buffers when it drops.
ASSUME AppenderAssumption ==
    /\ LinesPer \in Nat
    /\ BufferSize \in Nat
    /\ LineLength \in [1..LinesPer -> 0..(BufferSize - 1)]
    /\ DropLimit \in Nat /\ DropLimit >= 2

VARIABLES
    started,        \* m_started
    front,          \* m_buffer: [buffer1, buffer2, buffer_vec]
    back,           \* newBuffer, the back end's own double buffer
    todo,           \* the buffers of newBuffer.buffer_vec still to be written
    thread,         \* where the back-end thread is in run(), "none" without one
    ctl,            \* where the controlling thread is in stop()
    checked,        \* producers past isStarted() and not yet in the lock
    sent,           \* lines each producer has logged
    accepted,       \* history: the lines put into a front buffer, in order
    written,        \* history: the lines m_appender->append received, in order
    dropped         \* history: the lines erased because of the drop limit

bufVars == <<front, back, todo>>
history == <<accepted, written, dropped>>
vars == <<started, bufVars, thread, ctl, checked, sent, history>>

Lines == Producers \X (1..LinesPer)
Buffer == [lines : Seq(Lines), length : 0..BufferSize]
EmptyBuffer == [lines |-> <<>>, length |-> 0]

ASSUME NoBufferAssumption == NoBuffer \notin Buffer

TypeOK ==
    /\ started \in BOOLEAN
    /\ front \in [buffer1 : Buffer, buffer2 : Buffer \cup {NoBuffer},
                  buffer_vec : Seq(Buffer)]
    /\ back \in [buffer1 : Buffer \cup {NoBuffer},
                 buffer2 : Buffer \cup {NoBuffer}, buffer_vec : Seq(Buffer)]
    /\ todo \in Seq(Buffer)
    /\ thread \in {"none", "while", "testBuffer", "testStarted", "lock", "wait",
                   "trim", "write", "done"}
    /\ ctl \in {"idle", "submit", "join"}
    /\ checked \in SUBSET Producers
    /\ sent \in [Producers -> 0..LinesPer]
    /\ accepted \in Seq(Lines)
    /\ written \in Seq(Lines)
    /\ dropped \in SUBSET Lines

\* DoubleBuffer::DoubleBuffer
NewDoubleBuffer ==
    [buffer1 |-> EmptyBuffer, buffer2 |-> EmptyBuffer, buffer_vec |-> <<>>]

\* Neither constructor initialises m_started, so an appender that was not
\* started yet may already accept lines.
Init ==
    /\ started \in BOOLEAN
    /\ front = NewDoubleBuffer
    /\ back = NewDoubleBuffer
    /\ todo = <<>>
    /\ thread = "none"
    /\ ctl = "idle"
    /\ checked = {}
    /\ sent = [p \in Producers |-> 0]
    /\ accepted = <<>>
    /\ written = <<>>
    /\ dropped = {}

-----------------------------------------------------------------------------
(* Producers.                                                              *)

\* Mutant of Avail: what the buffer holds is not subtracted.
AvailOfEmpty(b) == BufferSize

\* FixedBuffer::avail and FixedBuffer::append: a line that does not fit is
\* discarded without notice.
Avail(b) == BufferSize - b.length
AppendTo(b, l, len) ==
    IF Avail(b) >= len
    THEN [lines |-> Append(b.lines, l), length |-> b.length + len]
    ELSE b

\* Mutant of SubmitBuffer: the full buffer is put before the older ones.
SubmitBufferFirst(f) ==
    [buffer1 |-> IF f.buffer2 # NoBuffer THEN f.buffer2 ELSE EmptyBuffer,
     buffer2 |-> NoBuffer,
     buffer_vec |-> <<f.buffer1>> \o f.buffer_vec]

\* AsyncAppender::submitBuffer on the double buffer f.
SubmitBuffer(f) ==
    [buffer1 |-> IF f.buffer2 # NoBuffer THEN f.buffer2 ELSE EmptyBuffer,
     buffer2 |-> NoBuffer,
     buffer_vec |-> Append(f.buffer_vec, f.buffer1)]

\* LogAppender::doAppend up to the lock.  m_started is tested three times on
\* the way; the last test decides.
DoAppend(p) ==
    /\ p \notin checked
    /\ sent[p] < LinesPer
    /\ sent' = [sent EXCEPT ![p] = @ + 1]
    /\ checked' = IF started THEN checked \cup {p} ELSE checked
    /\ UNCHANGED <<started, bufVars, thread, ctl, history>>

\* AsyncAppender::append inside the lock.  notify_one only shortens the wait
\* of the back end, which returns by itself.
AppendLine(p) ==
    /\ p \in checked
    /\ checked' = checked \ {p}
    /\ LET l == <<p, sent[p]>>
           len == LineLength[sent[p]]
           f == IF Avail(front.buffer1) > len THEN front
                                              ELSE SubmitBuffer(front)
       IN  /\ front' = [f EXCEPT !.buffer1 = AppendTo(f.buffer1, l, len)]
           /\ accepted' = Append(accepted, l)
    /\ UNCHANGED <<started, back, todo, thread, ctl, sent, written, dropped>>

-----------------------------------------------------------------------------
(* The thread that starts and stops the appender.                          *)

\* AsyncAppender::start: m_started = true, then the back-end thread with a
\* fresh newBuffer.  (The thread of an earlier start has been joined.)
Start ==
    /\ ctl = "idle"
    /\ thread = "none"
    /\ started' = TRUE
    /\ thread' = "while"
    /\ back' = NewDoubleBuffer
    /\ todo' = <<>>
    /\ UNCHANGED <<front, ctl, checked, sent, history>>

\* Mutant of StopFlag: LogAppender::stop() is not called.
StopNoFlag ==
    /\ ctl = "idle"
    /\ started
    /\ thread # "none"
    /\ ctl' = "submit"
    /\ UNCHANGED <<started, bufVars, thread, checked, sent, history>>

\* AsyncAppender::stop after a start: the flag, ...
StopFlag ==
    /\ ctl = "idle"
    /\ started
    /\ thread # "none"
    /\ started' = FALSE
    /\ ctl' = "submit"
    /\ UNCHANGED <<bufVars, thread, checked, sent, history>>

\* ... the critical section ...
StopSubmit ==
    /\ ctl = "submit"
    /\ front' = SubmitBuffer(front)
    /\ ctl' = "join"
    /\ UNCHANGED <<started, back, todo, thread, checked, sent, history>>

\* ... and m_thread->join().
StopJoin ==
    /\ ctl = "join"
    /\ thread = "done"
    /\ thread' = "none"
    /\ ctl' = "idle"
    /\ UNCHANGED <<started, bufVars, checked, sent, history>>

-----------------------------------------------------------------------------
(* The back-end thread: AsyncAppender::run.                                *)

\* Mutant of ReadFirst: & instead of |.
ReadFirstAnd ==
    /\ thread = "while"
    /\ \/ thread' = IF started THEN "testBuffer" ELSE "done"
       \/ thread' = IF front.buffer_vec # <<>> THEN "testStarted" ELSE "done"
    /\ UNCHANGED <<started, bufVars, ctl, checked, sent, history>>

\* while (m_started | !m_buffer.empty()): two reads outside the lock, in an order
\* the language leaves open.  When the first one is true the other does not
\* matter; when it is false the second one decides.
ReadFirst ==
    /\ thread = "while"
    /\ \/ thread' = IF started THEN "lock" ELSE "testBuffer"
       \/ thread' = IF front.buffer_vec # <<>> THEN "lock" ELSE "testStarted"
    /\ UNCHANGED <<started, bufVars, ctl, checked, sent, history>>

ReadSecond ==
    /\ \/ /\ thread = "testBuffer"
          /\ thread' = IF front.buffer_vec # <<>> THEN "lock" ELSE "done"
       \/ /\ thread = "testStarted"
          /\ thread' = IF started THEN "lock" ELSE "done"
    /\ UNCHANGED <<started, bufVars, ctl, checked, sent, history>>

While == ReadFirst \/ ReadSecond

\* Mutant of Swap: the front gets the back end's standby buffer in any case.
SwapBoth ==
    /\ front' = [buffer1 |-> back.buffer1, buffer2 |-> back.buffer2,
                 buffer_vec |-> back.buffer_vec]
    /\ back' = [buffer1 |-> NoBuffer, buffer2 |-> NoBuffer,
                buffer_vec |-> Append(front.buffer_vec, front.buffer1)]
    /\ thread' = "trim"
    /\ UNCHANGED <<started, todo, ctl, checked, sent, history>>

\* From the return of waitTime(), or from the lock, to the unlock.
Swap ==
    /\ front' = [buffer1 |-> back.buffer1,
                 buffer2 |-> IF front.buffer2 = NoBuffer THEN back.buffer2
                                                         ELSE front.buffer2,
                 buffer_vec |-> back.buffer_vec]
    /\ back' = [buffer1 |-> NoBuffer,
                buffer2 |-> IF front.buffer2 = NoBuffer THEN NoBuffer
                                                        ELSE back.buffer2,
                buffer_vec |-> Append(front.buffer_vec, front.buffer1)]
    /\ thread' = "trim"
    /\ UNCHANGED <<started, todo, ctl, checked, sent, history>>

LockWait ==
    /\ thread = "lock"
    /\ front.buffer_vec = <<>>
    /\ thread' = "wait"
    /\ UNCHANGED <<started, bufVars, ctl, checked, sent, history>>

LockSwap == thread = "lock" /\ front.buffer_vec # <<>> /\ Swap

\* Signal, timeout and spurious wakeup are not told apart.
WaitSwap == thread = "wait" /\ Swap

\* Too many buffers: all but the first two are erased.
Kept(v) == IF Len(v) > DropLimit THEN SubSeq(v, 1, 2) ELSE v
LinesOf(v) ==
    UNION {{v[i].lines[j] : j \in 1..Len(v[i].lines)} : i \in 1..Len(v)}

Trim ==
    /\ thread = "trim"
    /\ back' = [back EXCEPT !.buffer_vec = Kept(back.buffer_vec)]
    /\ todo' = Kept(back.buffer_vec)
    /\ dropped' = dropped \cup
                      (LinesOf(back.buffer_vec) \ LinesOf(Kept(back.buffer_vec)))
    /\ thread' = "write"
    /\ UNCHANGED <<started, front, ctl, checked, sent, accepted, written>>

\* m_appender->append(buffer), one buffer after the other.
Write ==
    /\ thread = "write"
    /\ todo # <<>>
    /\ written' = written \o Head(todo).lines
    /\ todo' = Tail(todo)
    /\ UNCHANGED <<started, front, back, thread, ctl, checked, sent, accepted,
                   dropped>>

\* DoubleBuffer::reset: empty buffers for the null pointers come from the
\* end of buffer_vec, at most two of which are kept.  back() and pop_back()
\* of an empty vector are undefined; CanReset says they do not happen.
RecycledLen(d) == IF Len(d.buffer_vec) > 2 THEN 2 ELSE Len(d.buffer_vec)
Nulls(d) == {b \in {"buffer1", "buffer2"} : d[b] = NoBuffer}
CanReset(d) ==
    IF Nulls(d) = {"buffer1", "buffer2"} THEN RecycledLen(d) >= 2
    ELSE Nulls(d) # {} => RecycledLen(d) >= 1
ResetBuffer(d) ==
    [buffer1 |-> IF d.buffer1 = NoBuffer THEN EmptyBuffer ELSE d.buffer1,
     buffer2 |-> IF d.buffer2 = NoBuffer THEN EmptyBuffer ELSE d.buffer2,
     buffer_vec |-> <<>>]

\* newBuffer.reset() and the flush, back to the loop condition.
Reset ==
    /\ thread = "write"
    /\ todo = <<>>
    /\ back' = ResetBuffer(back)
    /\ thread' = "while"
    /\ UNCHANGED <<started, front, todo, ctl, checked, sent, history>>

-----------------------------------------------------------------------------
BackEnd ==
    \/ While \/ LockWait \/ LockSwap \/ WaitSwap \/ Trim \/ Write \/ Reset

Stopping == StopSubmit \/ StopJoin

Next ==
    \/ \E p \in Producers : DoAppend(p) \/ AppendLine(p)
    \/ Start \/ StopFlag \/ Stopping
    \/ BackEnd

\* The OS schedules the back end (whose wait is timed), a caller inside stop()
\* and a producer inside append().  Nothing obliges anyone to log, to start or
\* to stop.
Fairness ==
    /\ WF_vars(BackEnd)
    /\ WF_vars(Stopping)
    /\ \A p \in Producers : WF_vars(AppendLine(p))

SafetySpec == Init /\ [][Next]_vars
Spec == SafetySpec /\ Fairness

-----------------------------------------------------------------------------
(* Properties.                                                             *)

\* The back end is between two rounds, or in one before the swap.
InLoop == {"while", "testBuffer", "testStarted", "lock", "wait"}

\* The assertions of AsyncAppender::run and the precondition of
\* DoubleBuffer::reset: the back end enters each round with two empty buffers
\* and no leftovers, has something to write after the swap, and can always
\* refill its double buffer from what it has written - however the producers
\* and stop() used up the standby buffer meanwhile.
BuffersReady ==
    /\ thread \in InLoop => back = NewDoubleBuffer
    /\ thread = "trim" => back.buffer_vec # <<>>
    /\ thread \in {"trim", "write"} => CanReset(back)

\* The buffers with lines still to be written, in the order of writing.
Pending ==
    (IF thread = "trim" THEN back.buffer_vec ELSE todo)
        \o front.buffer_vec \o <<front.buffer1>>

\* The log in its order: the lines w, then those of the buffers v.
Stage(w, v, i) == IF i = 0 THEN w ELSE v[i].lines
Holds(w, v, l) ==
    \E i \in 0..Len(v) : \E j \in 1..Len(Stage(w, v, i)) : Stage(w, v, i)[j] = l

\* Two lines of the log were accepted in the order in which they are there.
InOrder(w, v) ==
    \A a, b \in 0..Len(v) :
        \A i \in 1..Len(Stage(w, v, a)), j \in 1..Len(Stage(w, v, b)) :
            a < b \/ (a = b /\ i < j) =>
                \A g, h \in 1..Len(accepted) :
                    accepted[g] = Stage(w, v, a)[i] /\ accepted[h] = Stage(w, v, b)[j]
                        => g < h

\* The double-buffer swap keeps the log (AsyncAppender::append, submitBuffer,
\* run): the lines written, followed by the lines still buffered, are the
\* accepted lines in the order of acceptance, each exactly once, except those
\* the drop limit erased.
LogPreserved ==
    /\ \A g, h \in 1..Len(accepted) : accepted[g] = accepted[h] => g = h
    /\ \A g \in 1..Len(accepted) :
          accepted[g] \in dropped <=> ~Holds(written, Pending, accepted[g])
    /\ \A i \in 0..Len(Pending) : \A j \in 1..Len(Stage(written, Pending, i)) :
          \E g \in 1..Len(accepted) : accepted[g] = Stage(written, Pending, i)[j]
    /\ InOrder(written, Pending)

\* Written(l): line l is with the bound appender, or was dropped by the limit.
Written(l) == l \in dropped \/ \E i \in 1..Len(written) : written[i] = l

\* An accepted line reaches the bound appender or is dropped by the limit,
\* unless stop() comes first; an appender that merely has a true m_started but
\* no thread yet promises nothing.
LineReachesAppender ==
    \A l \in Lines :
        l \in LinesOf(<<front.buffer1>>) /\ thread # "none"
            ~> Written(l) \/ ~started

\* The comment on the loop of AsyncAppender::run: when the appender is stopped
\* and the front still has data, the data is written before the thread ends.
\* So nothing that stop() submitted is left when the thread it joins is done.
StopDrains == ctl = "join" /\ thread = "done" => LinesOf(front.buffer_vec) = {}

\* AsyncAppender::stop returns: the back end always comes out of its loop,
\* even if the flag is cleared while it waits or writes.
StopReturns == ctl = "submit" ~> ctl = "idle"
=============================================================================
