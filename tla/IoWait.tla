------------------------------ MODULE IoWait ------------------------------
(***************************************************************************)
(* How a task waits for its socket: the hooked system calls (do_io,        *)
(* connect, accept, close in Hook.cpp), the socket's channel (IoChannel,   *)
(* FdInfo), the poller (EpollPoller) and the timeout callbacks that the    *)
(* timer thread runs.                                                      *)
(*                                                                         *)
(* One event loop and any number of tasks, each handling one socket, as    *)
(* HttpServer::handleClient does; a channel is named by its task.  File    *)
(* descriptors are reused, lowest first.  updateChannel and removeChannel  *)
(* are one step each, although the timer thread and the loop's thread call *)
(* them without a common lock.                                             *)
(***************************************************************************)
EXTENDS Naturals, Sequences

CONSTANTS
    Tasks,          \* the tasks, and their sockets' channels
    TimedTasks,     \* the tasks whose socket has a timeout set
    Uses,           \* the kinds of calls every task makes
    HangUps,        \* the tasks whose peer may hang up
    MaxFd,          \* bound on the descriptors
    None

Fds == 1..MaxFd
Events == {"READ", "WRITE"}

\* An epoll_event in the kernel, and a timeout callback that was taken.
Registrations == [ch : Tasks, ev : SUBSET Events]
Callbacks == [ev : Events, at : {"cancel", "update", "expire"}, cur : BOOLEAN]

ASSUME IoWaitAssumption ==
    /\ TimedTasks \subseteq Tasks
    /\ HangUps \subseteq Tasks
    /\ Uses \in [Tasks -> SUBSET {"READ", "WRITE", "CONNECT"}]
    /\ MaxFd \in Nat
    /\ None \notin Tasks \cup Registrations \cup Callbacks

Ops == {"READ", "WRITE", "CONNECT"}
Reports == Events \cup {"HUP"}      \* HUP stands for EPOLLHUP and EPOLLERR

\* The event a call waits for.
EventOf(o) == IF o = "READ" THEN "READ" ELSE "WRITE"

VARIABLES
    pc,             \* where every task is
    cur,            \* m_curTask of the loop, or None
    queue,          \* the tasks queued at the loop
    batch,          \* what epoll_wait returned and poll() has not handled yet
    op,             \* the call every task is in, or None
    fd,             \* m_fd of every channel
    chan,           \* m_state, m_events, m_task of every channel
    channelMap,     \* m_channel_map of the poller
    interest,       \* the kernel's registration of every descriptor
    pend,           \* descriptors on the kernel's ready list (edge-triggered)
    rdy,            \* what every socket is ready for
    timer,          \* tasks whose timeout is in the timer set
    taken,          \* timeout callbacks the timer thread has taken
    expired,        \* the local variable "expired" of do_io and connect
    raced,          \* a callback ran outside the wait it belongs to
    asserted        \* an ASSERT of the poller failed

loopVars == <<cur, queue, batch>>
kernelVars == <<interest, pend, rdy>>
timerVars == <<timer, taken, expired, raced>>
vars == <<pc, loopVars, op, fd, chan, channelMap, kernelVars, timerVars, asserted>>

ChannelState == {"NEW", "EXIST", "DISCARD"}
PCs == {"new", "ready", "run", "try", "add", "update", "held", "woken", "done"}

NewChannel == [st |-> "NEW", ev |-> {}, task |-> FALSE]

TypeOK ==
    /\ pc \in [Tasks -> PCs]
    /\ cur \in Tasks \cup {None}
    /\ queue \in Seq(Tasks)
    /\ batch \in [Fds -> [ch : Tasks, ops : SUBSET Reports] \cup {None}]
    /\ op \in [Tasks -> Ops \cup {None}]
    /\ fd \in [Tasks -> 0..MaxFd]
    /\ chan \in [Tasks -> [st : ChannelState, ev : SUBSET Events, task : BOOLEAN]]
    /\ channelMap \in [Fds -> Tasks \cup {None}]
    /\ interest \in [Fds -> Registrations \cup {None}]
    /\ pend \in [Fds -> BOOLEAN]
    /\ rdy \in [Fds -> SUBSET Reports]
    /\ timer \in [Tasks -> BOOLEAN]
    /\ taken \in [Tasks -> Callbacks \cup {None}]
    /\ expired \in [Tasks -> BOOLEAN]
    /\ raced \in BOOLEAN
    /\ asserted \in BOOLEAN

Init ==
    /\ pc = [t \in Tasks |-> "new"]
    /\ cur = None
    /\ queue = <<>>
    /\ batch = [f \in Fds |-> None]
    /\ op = [t \in Tasks |-> None]
    /\ fd = [t \in Tasks |-> 0]
    /\ chan = [t \in Tasks |-> NewChannel]
    /\ channelMap = [f \in Fds |-> None]
    /\ interest = [f \in Fds |-> None]
    /\ pend = [f \in Fds |-> FALSE]
    /\ rdy = [f \in Fds |-> {}]
    /\ timer = [t \in Tasks |-> FALSE]
    /\ taken = [t \in Tasks |-> None]
    /\ expired = [t \in Tasks |-> FALSE]
    /\ raced = FALSE
    /\ asserted = FALSE

-----------------------------------------------------------------------------
(* The kernel.                                                             *)

IsOpen(f) == \E t \in Tasks : fd[t] = f /\ pc[t] \notin {"new", "done"}

\* What epoll_wait would report of f for a registration of events ev.
Report(f, ev) == rdy[f] \cap (ev \cup {"HUP"})

\* epoll_ctl(o) for the channel of t with events ev | EPOLLET: fails without
\* effect on a closed descriptor, for ADD of a registered one and for MOD or
\* DEL of another one; ADD and MOD put a ready descriptor on the ready list.
EpollCtl(o, t, ev) ==
    LET f == fd[t]
        ok == IsOpen(f) /\ (o = "ADD" <=> interest[f] = None)
    IN  /\ interest' = IF ok THEN [interest EXCEPT ![f] =
                                IF o = "DEL" THEN None ELSE [ch |-> t, ev |-> ev]]
                       ELSE interest
        /\ pend' = IF ok THEN [pend EXCEPT ![f] = o # "DEL" /\ Report(f, ev) # {}]
                   ELSE pend

\* Data, buffer space, the end of a connection attempt, or a hang-up; what no
\* call of the socket's task waits for is left out.
Arrival(f, e) ==
    /\ \E t \in Tasks :
          /\ fd[t] = f /\ pc[t] \notin {"new", "done"}
          /\ IF e = "HUP" THEN t \in HangUps ELSE \E o \in Uses[t] : EventOf(o) = e
    /\ rdy' = [rdy EXCEPT ![f] = @ \cup {e}]
    /\ pend' = [pend EXCEPT ![f] =
                   \/ @
                   \/ interest[f] # None /\ e \in interest[f].ev \cup {"HUP"}]
    /\ UNCHANGED <<pc, loopVars, op, fd, chan, channelMap, interest, timerVars, asserted>>

-----------------------------------------------------------------------------
(* EpollPoller::updateChannel and removeChannel on the channel of t.       *)

\* What the ASSERTs of updateChannel demand.
UpdateAllowed(t) ==
    channelMap[fd[t]] = IF chan[t].st = "NEW" THEN None ELSE t

\* Mutant of UpdateChannel: a channel that is registered already is left alone.
UpdateChannelOnce(t) ==
    IF chan[t].st = "EXIST"
    THEN UNCHANGED <<chan, channelMap, interest, pend, asserted>>
    ELSE /\ asserted' = (asserted \/ ~UpdateAllowed(t))
         /\ channelMap' = [channelMap EXCEPT ![fd[t]] = t]
         /\ chan' = [chan EXCEPT ![t].st = "EXIST"]
         /\ EpollCtl("ADD", t, chan[t].ev)

UpdateChannel(t) ==
    IF ~UpdateAllowed(t)
    THEN /\ asserted' = TRUE
         /\ UNCHANGED <<chan, channelMap, interest, pend>>
    ELSE /\ channelMap' = [channelMap EXCEPT ![fd[t]] = t]
         /\ IF chan[t].st \in {"NEW", "DISCARD"}
            THEN /\ chan' = [chan EXCEPT ![t].st = "EXIST"]
                 /\ EpollCtl("ADD", t, chan[t].ev)
            ELSE IF chan[t].ev = {}
            THEN /\ chan' = [chan EXCEPT ![t].st = "DISCARD"]
                 /\ EpollCtl("DEL", t, {})
            ELSE /\ UNCHANGED chan
                 /\ EpollCtl("MOD", t, chan[t].ev)
         /\ UNCHANGED asserted

\* removeChannel after clearEvent: the channel is the map's and has no events;
\* what remains of its ASSERTs is that it is not NEW.
RemoveChannel(t) ==
    /\ asserted' = (asserted \/ chan[t].st = "NEW")
    /\ channelMap' = [channelMap EXCEPT ![fd[t]] = None]
    /\ chan' = [chan EXCEPT ![t].ev = {}, ![t].st = "NEW"]

-----------------------------------------------------------------------------
(* The loop's thread: Processor::run with EventLoop::idle.                 *)

Polling == \E f \in Fds : batch[f] # None

\* swapIn of the next queued task.
Resume(t) ==
    /\ cur = None /\ ~Polling
    /\ queue # <<>> /\ t = Head(queue)
    /\ pc[t] \in {"ready", "held"}
    /\ cur' = t
    /\ queue' = Tail(queue)
    /\ pc' = [pc EXCEPT ![t] = IF @ = "ready" THEN "run" ELSE "woken"]
    /\ UNCHANGED <<batch, op, fd, chan, channelMap, kernelVars, timerVars, asserted>>

\* EpollPoller::poll with nothing to run: epoll_wait returns what is ready.
EpollWait ==
    LET reported == {f \in Fds : pend[f] /\ Report(f, interest[f].ev) # {}}
    IN  /\ cur = None /\ ~Polling /\ queue = <<>>
        /\ reported # {}
        /\ batch' = [f \in Fds |->
               IF f \in reported
               THEN [ch |-> interest[f].ch, ops |-> Report(f, interest[f].ev)]
               ELSE None]
        /\ pend' = [f \in Fds |-> FALSE]
        /\ UNCHANGED <<pc, cur, queue, op, fd, chan, channelMap, interest, rdy,
                       timerVars, asserted>>

\* Mutant of TriggerWakes: one wake-up for READ and one for WRITE.
TriggerWakesEach(c, ops) ==
    LET all == IF "HUP" \in ops THEN ops \cup chan[c].ev ELSE ops
        wake(e) == IF chan[c].task /\ e \in all THEN <<c>> ELSE <<>>
    IN  wake("READ") \o wake("WRITE")

\* The tasks IoChannel::trigger(ops) wakes, with HUP and ERR extended to the
\* events of the channel: its m_task, once.
TriggerWakes(c, ops) ==
    LET all == IF "HUP" \in ops THEN ops \cup chan[c].ev ELSE ops
    IN  IF chan[c].task /\ all \cap Events # {} THEN <<c>> ELSE <<>>

\* channel->trigger(event.events) for one of the reported events.
Trigger(f) ==
    /\ batch[f] # None
    /\ queue' = queue \o TriggerWakes(batch[f].ch, batch[f].ops)
    /\ batch' = [batch EXCEPT ![f] = None]
    /\ UNCHANGED <<pc, cur, op, fd, chan, channelMap, kernelVars, timerVars, asserted>>

-----------------------------------------------------------------------------
(* The tasks.  They run on the loop's thread, one at a time.               *)

At(t, p) == cur = t /\ pc[t] = p
Goto(t, p) == pc' = [pc EXCEPT ![t] = p]

\* A connection is accepted by another loop, or a socket created: a new
\* FdInfo on the lowest free descriptor, and a task that handles it.
Accept(t) ==
    /\ pc[t] = "new"
    /\ \E f \in Fds :
          /\ ~IsOpen(f)
          /\ \A g \in Fds : g < f => IsOpen(g)
          /\ fd' = [fd EXCEPT ![t] = f]
    /\ queue' = Append(queue, t)
    /\ Goto(t, "ready")
    /\ UNCHANGED <<cur, batch, op, chan, channelMap, kernelVars, timerVars, asserted>>

\* The task calls recv, send, ...: do_io on a socket the user left blocking.
Call(t, o) ==
    /\ At(t, "run")
    /\ o \in Uses[t] \ {"CONNECT"}
    /\ op' = [op EXCEPT ![t] = o]
    /\ Goto(t, "try")
    /\ UNCHANGED <<loopVars, fd, chan, channelMap, kernelVars, timerVars, asserted>>

\* The task calls connect on a fresh socket.
Connect(t) ==
    /\ At(t, "run")
    /\ "CONNECT" \in Uses[t] /\ chan[t].st = "NEW"
    /\ op' = [op EXCEPT ![t] = "CONNECT"]
    /\ Goto(t, "try")
    /\ UNCHANGED <<loopVars, fd, chan, channelMap, kernelVars, timerVars, asserted>>

Completes(t) == rdy[fd[t]] \cap {EventOf(op[t]), "HUP"} # {}

\* The native call succeeds or fails for good; it may use up the readiness.
IoReturn(t) ==
    /\ At(t, "try") /\ Completes(t)
    /\ \E left \in {rdy[fd[t]], rdy[fd[t]] \ {EventOf(op[t])}} :
          rdy' = [rdy EXCEPT ![fd[t]] = left]
    /\ op' = [op EXCEPT ![t] = None]
    /\ Goto(t, "run")
    /\ UNCHANGED <<loopVars, fd, chan, channelMap, interest, pend, timerVars, asserted>>

\* TimerManager::addTimer, if the socket has a timeout.
AddTimer(t) == timer' = [timer EXCEPT ![t] = t \in TimedTasks]

\* Timer::cancel finds nothing to cancel once the callback was taken.
CancelTimer(t) == timer' = [timer EXCEPT ![t] = FALSE]

\* EAGAIN, or EINPROGRESS of connect: bool expired = false and, with a timeout
\* set, addTimer(to, callback).
IoAgain(t) ==
    /\ At(t, "try") /\ ~Completes(t)
    /\ expired' = [expired EXCEPT ![t] = FALSE]
    /\ AddTimer(t)
    /\ Goto(t, "add")
    /\ UNCHANGED <<loopVars, op, fd, chan, channelMap, kernelVars, taken, raced, asserted>>

\* fdInfo->addEvent(event): an event that is set already changes nothing.
AddEvent(t) ==
    /\ At(t, "add")
    /\ chan' = IF EventOf(op[t]) \in chan[t].ev THEN chan
               ELSE [chan EXCEPT ![t].ev = @ \cup {EventOf(op[t])}, ![t].task = TRUE]
    /\ Goto(t, "update")
    /\ UNCHANGED <<loopVars, op, fd, channelMap, kernelVars, timerVars, asserted>>

\* loop->updateChannel(fdInfo); Processor::CoHold()
UpdateHold(t) ==
    /\ At(t, "update")
    /\ UpdateChannel(t)
    /\ cur' = None
    /\ Goto(t, "held")
    /\ UNCHANGED <<queue, batch, op, fd, rdy, timerVars>>

\* Woken from CoHold, to continue at p: the variable "expired" ends with the
\* wait; a callback that was taken and is still to run refers to it.
LeaveWait(t, p) ==
    /\ CancelTimer(t)
    /\ taken' = IF taken[t] = None THEN taken ELSE [taken EXCEPT ![t].cur = FALSE]
    /\ expired' = [expired EXCEPT ![t] = FALSE]
    /\ op' = IF p = "run" THEN [op EXCEPT ![t] = None] ELSE op
    /\ Goto(t, p)
    /\ UNCHANGED <<loopVars, fd, chan, channelMap, kernelVars, raced, asserted>>

\* do_io is woken: ETIMEDOUT, or another try.
Woken(t) ==
    /\ At(t, "woken") /\ op[t] # "CONNECT"
    /\ LeaveWait(t, IF expired[t] THEN "run" ELSE "try")

\* connect is woken: ETIMEDOUT, or the result of getsockopt(SO_ERROR).
ConnectWoken(t) ==
    /\ At(t, "woken") /\ op[t] = "CONNECT"
    /\ LeaveWait(t, "run")

\* Mutant of Close: the channel stays with the poller.
CloseKeepsChannel(t) ==
    /\ At(t, "run")
    /\ chan' = [chan EXCEPT ![t].ev = {}]
    /\ interest' = [interest EXCEPT ![fd[t]] = None]
    /\ pend' = [pend EXCEPT ![fd[t]] = FALSE]
    /\ rdy' = [rdy EXCEPT ![fd[t]] = {}]
    /\ cur' = None
    /\ Goto(t, "done")
    /\ UNCHANGED <<queue, batch, op, fd, channelMap, timerVars, asserted>>

\* close(fd): clearEvent, removeChannel if the poller has the channel,
\* FdManager::del, whose trigger(EPOLLERR) wakes nobody now, and the native
\* close, which ends the kernel's registration.  Then the task ends.
Close(t) ==
    /\ At(t, "run")
    /\ IF channelMap[fd[t]] = t THEN RemoveChannel(t)
       ELSE /\ chan' = [chan EXCEPT ![t].ev = {}]
            /\ UNCHANGED <<channelMap, asserted>>
    /\ interest' = [interest EXCEPT ![fd[t]] = None]
    /\ pend' = [pend EXCEPT ![fd[t]] = FALSE]
    /\ rdy' = [rdy EXCEPT ![fd[t]] = {}]
    /\ cur' = None
    /\ Goto(t, "done")
    /\ UNCHANGED <<queue, batch, op, fd, timerVars>>

-----------------------------------------------------------------------------
(* The timer thread: TimerManager::listExpiredCallback takes the expired   *)
(* callbacks, then run() executes them one after the other, without lock.  *)

TimerTake ==
    /\ \A t \in Tasks : taken[t] = None
    /\ \E S \in (SUBSET {t \in Tasks : timer[t]}) \ {{}} :
          /\ timer' = [t \in Tasks |-> timer[t] /\ t \notin S]
          /\ taken' = [t \in Tasks |->
                 IF t \in S THEN [ev |-> EventOf(op[t]), at |-> "cancel", cur |-> TRUE]
                 ELSE None]
    /\ UNCHANGED <<pc, loopVars, op, fd, chan, channelMap, kernelVars, expired,
                   raced, asserted>>

\* The callback of t is at step a, and no other one has been begun.
Callback(t, a) ==
    /\ taken[t] # None /\ taken[t].at = a
    /\ \A u \in Tasks \ {t} : taken[u] # None => taken[u].at = "cancel"
    /\ raced' = (raced \/ ~(taken[t].cur /\ pc[t] = "held"))

\* fdInfo->cancelEvent(event)
CallbackCancel(t) ==
    /\ Callback(t, "cancel")
    /\ chan' = [chan EXCEPT ![t].ev = @ \ {taken[t].ev}]
    /\ taken' = [taken EXCEPT ![t].at = "update"]
    /\ UNCHANGED <<pc, loopVars, op, fd, channelMap, kernelVars, timer, expired, asserted>>

\* loop->updateChannel(fdInfo)
CallbackUpdate(t) ==
    /\ Callback(t, "update")
    /\ UpdateChannel(t)
    /\ taken' = [taken EXCEPT ![t].at = "expire"]
    /\ UNCHANGED <<pc, loopVars, op, fd, rdy, timer, expired>>

\* expired = true.  After the wait has ended this writes to the stack frame of
\* the past wait, where the next wait's variable may lie.
CallbackExpire(t) ==
    /\ Callback(t, "expire")
    /\ \E e \in {TRUE} \cup IF taken[t].cur THEN {} ELSE {expired[t]} :
          expired' = [expired EXCEPT ![t] = e]
    /\ taken' = [taken EXCEPT ![t] = None]
    /\ UNCHANGED <<pc, loopVars, op, fd, chan, channelMap, kernelVars, timer, asserted>>

-----------------------------------------------------------------------------
LoopStep == EpollWait \/ (\E f \in Fds : Trigger(f)) \/ (\E t \in Tasks : Resume(t))

TaskStep(t) ==
    \/ \E o \in Ops : Call(t, o)
    \/ Connect(t)
    \/ IoReturn(t) \/ IoAgain(t) \/ AddEvent(t) \/ UpdateHold(t)
    \/ Woken(t) \/ ConnectWoken(t) \/ Close(t)

TimerStep ==
    \E t \in Tasks : CallbackCancel(t) \/ CallbackUpdate(t) \/ CallbackExpire(t)

\* A failed ASSERT ends the program.
Next ==
    /\ ~asserted
    /\ \/ LoopStep
       \/ \E t \in Tasks : TaskStep(t)
       \/ TimerStep
       \/ TimerTake
       \/ \E t \in Tasks : Accept(t)
       \/ \E f \in Fds, e \in Reports : Arrival(f, e)

\* The loop's thread is scheduled, and so is the timer thread with callbacks
\* in hand.  Nothing obliges a peer to send, or a timeout to pass: a task must
\* not depend on its timeout to be resumed.
Fairness ==
    /\ WF_vars(~asserted /\ LoopStep)
    /\ WF_vars(~asserted /\ \E t \in Tasks : TaskStep(t))
    /\ WF_vars(~asserted /\ TimerStep)

SafetySpec == Init /\ [][Next]_vars
Spec == SafetySpec /\ Fairness

-----------------------------------------------------------------------------
(* Properties.                                                             *)

\* The ASSERTs of updateChannel and removeChannel hold, whatever tasks wait,
\* time out, close and reuse descriptors - as long as no timeout callback
\* runs outside the wait it belongs to.
PollerAssertions == raced \/ ~asserted

\* A wake-up is for a task that waits, and for each wait there is at most one:
\* a queued task is new or held and is queued once, also when it waits for
\* one event while its channel is registered for both, and when a hang-up,
\* a timeout and a readiness event come together.
WokenOnce ==
    raced \/
    /\ \A i, j \in 1..Len(queue) : queue[i] = queue[j] => i = j
    /\ \A i \in 1..Len(queue) : pc[queue[i]] \in {"ready", "held"} /\ queue[i] # cur
    /\ \A f \in Fds : batch[f] # None =>
          /\ fd[batch[f].ch] = f
          /\ pc[batch[f].ch] = "held"
          /\ \A i \in 1..Len(queue) : queue[i] # batch[f].ch

\* A task that waits for an event its socket is ready for is resumed, although
\* epoll reports only edges and the task registers after it tried - unless the
\* wait times out, or a task computes for ever.
ReadinessWakes ==
    []<>(cur = None) =>
        \A t \in Tasks :
            pc[t] = "held" /\ Completes(t) ~> pc[t] # "held" \/ expired[t] \/ raced

\* A wait that has timed out returns: once the timeout callback of do_io or
\* connect has set `expired', the task is resumed and gives ETIMEDOUT, as the
\* comments beside the tests of `expired' say - unless a task computes for ever
\* or the callback ran outside its wait.
TimeoutReturns ==
    []<>(cur = None) =>
        \A t \in Tasks : pc[t] = "held" /\ expired[t] ~> pc[t] # "held" \/ raced
=============================================================================
