--------------------------- MODULE IoWaitProofs ---------------------------
(***************************************************************************)
(* Proofs about module IoWait, for any set of tasks, whatever calls they   *)
(* make, and any number of descriptors.                                    *)
(***************************************************************************)
EXTENDS IoWait, TLAPS

USE IoWaitAssumption

\* The socket of t is open.
Live(t) == pc[t] \notin {"new", "done"}

\* The callback that was taken for t belongs to the wait t is in.
Current(t) == taken[t] # None /\ taken[t].cur

\* The callback of the present wait is at step a.
CallbackAt(t, a) == Current(t) /\ taken[t].at = a

-----------------------------------------------------------------------------
(* What holds also after a callback ran outside the wait it belongs to.    *)

\* Open sockets have descriptors of their own.
FdInv ==
    /\ \A t \in Tasks : pc[t] # "new" => fd[t] \in Fds
    /\ \A t, u \in Tasks : Live(t) /\ Live(u) /\ fd[t] = fd[u] => t = u

\* A task that was not accepted has no channel state and no timer.
NewInv ==
    \A t \in Tasks : pc[t] = "new" => chan[t].st = "NEW" /\ taken[t] = None

\* Only registered descriptors are on the ready list.
PendInv == \A f \in Fds : pend[f] => interest[f] # None

\* The running task is the only one between its resumption and its hold.
CurInv ==
    \A t \in Tasks : pc[t] \in {"run", "try", "add", "update", "woken"} <=> cur = t

\* A timer exists during the wait it was added for.
TimerInv ==
    \A t \in Tasks :
        /\ timer[t] => pc[t] \in {"add", "update", "held", "woken"} /\ ~Current(t)
        /\ Current(t) => /\ pc[t] \in {"add", "update", "held", "woken"}
                         /\ taken[t].ev = EventOf(op[t])

BaseInv == FdInv /\ NewInv /\ PendInv /\ CurInv /\ TimerInv

-----------------------------------------------------------------------------
(* What holds until then.                                                  *)

\* The poller's map has the channels of open sockets that are not NEW, and
\* the kernel has registrations for those of them that are not DISCARD.
MapInv ==
    /\ \A t \in Tasks : Live(t) =>
          /\ UpdateAllowed(t)
          /\ chan[t].st = "EXIST" => interest[fd[t]] # None /\ interest[fd[t]].ch = t
          /\ chan[t].st # "EXIST" => interest[fd[t]] = None
    /\ \A f \in Fds : ~IsOpen(f) => channelMap[f] = None /\ interest[f] = None

\* A callback begins only when the task is held.
WaitInv ==
    \A t \in Tasks :
        pc[t] \in {"add", "update"} => ~expired[t] /\ (Current(t) => taken[t].at = "cancel")

\* The task waits for an event its channel has, registered with the kernel,
\* until the callback's updateChannel.
HeldInv ==
    \A t \in Tasks :
        /\ pc[t] = "update" => EventOf(op[t]) \in chan[t].ev
        /\ pc[t] = "held" =>
              IF expired[t] \/ CallbackAt(t, "expire")
              THEN chan[t].ev = {} => chan[t].st = "DISCARD"
              ELSE chan[t].st = "EXIST"
        /\ pc[t] = "held" /\ expired[t] => ~timer[t] /\ taken[t] = None

InQueue(t) == \E i \in 1..Len(queue) : queue[i] = t

QueueInv ==
    /\ \A i, j \in 1..Len(queue) : queue[i] = queue[j] => i = j
    /\ \A t \in Tasks : pc[t] = "ready" => InQueue(t)
    /\ \A t \in Tasks : InQueue(t) => pc[t] \in {"ready", "held"}
    /\ \A f \in Fds : batch[f] # None =>
          /\ fd[batch[f].ch] = f
          /\ pc[batch[f].ch] = "held"
          /\ ~InQueue(batch[f].ch)

UnracedInv == raced \/ (~asserted /\ MapInv /\ WaitInv /\ HeldInv /\ QueueInv)

-----------------------------------------------------------------------------
(* Types.                                                                  *)

LEMMA CtlTypes ==
    ASSUME TypeOK, NEW o, NEW t \in Tasks, fd[t] \in Fds, NEW ev \in SUBSET Events,
           EpollCtl(o, t, ev)
    PROVE  /\ interest' \in [Fds -> Registrations \cup {None}]
           /\ pend' \in [Fds -> BOOLEAN]
<1>1. [ch |-> t, ev |-> ev] \in Registrations
  BY DEF Registrations
<1> DEFINE r == IF o = "DEL" THEN None ELSE [ch |-> t, ev |-> ev]
           b == o # "DEL" /\ Report(fd[t], ev) # {}
<1>2. r \in Registrations \cup {None}
  BY <1>1
<1>3. b \in BOOLEAN
  OBVIOUS
<1>4. interest' = interest \/ interest' = [interest EXCEPT ![fd[t]] = r]
  BY DEF EpollCtl
<1>5. pend' = pend \/ pend' = [pend EXCEPT ![fd[t]] = b]
  BY DEF EpollCtl
<1> HIDE DEF r, b
<1>6. interest' \in [Fds -> Registrations \cup {None}]
  BY <1>2, <1>4 DEF TypeOK
<1>7. pend' \in [Fds -> BOOLEAN]
  BY <1>3, <1>5 DEF TypeOK
<1> QED  BY <1>6, <1>7

ChannelType == [st : ChannelState, ev : SUBSET Events, task : BOOLEAN]

\* Assignments to the fields of one channel, and of one callback.
WithState(c, t, q) == [c EXCEPT ![t].st = q]
WithEvents(c, t, e) == [c EXCEPT ![t].ev = e]
WithTask(c, t, e) == [c EXCEPT ![t].ev = @ \cup {e}, ![t].task = TRUE]
WithNew(c, t) == [c EXCEPT ![t].ev = {}, ![t].st = "NEW"]
Stale(k, t) == [k EXCEPT ![t].cur = FALSE]
WithStep(k, t, a) == [k EXCEPT ![t].at = a]

LEMMA SetState ==
    ASSUME NEW c \in [Tasks -> ChannelType], NEW t \in Tasks, NEW q \in ChannelState
    PROVE  LET d == WithState(c, t, q)
           IN  /\ d \in [Tasks -> ChannelType]
               /\ d[t].st = q /\ d[t].ev = c[t].ev
               /\ \A u \in Tasks \ {t} : d[u] = c[u]
<1> DEFINE r == [c[t] EXCEPT !.st = q]
<1>1. r \in ChannelType /\ r.st = q /\ r.ev = c[t].ev
  BY DEF ChannelType
<1>2. WithState(c, t, q) = [c EXCEPT ![t] = r]
  BY DEF WithState
<1> HIDE DEF r
<1> QED  BY <1>1, <1>2

LEMMA SetEvents ==
    ASSUME NEW c \in [Tasks -> ChannelType], NEW t \in Tasks, NEW e \in SUBSET Events
    PROVE  LET d == WithEvents(c, t, e)
           IN  /\ d \in [Tasks -> ChannelType]
               /\ d[t].st = c[t].st /\ d[t].ev = e
               /\ \A u \in Tasks \ {t} : d[u] = c[u]
<1> DEFINE r == [c[t] EXCEPT !.ev = e]
<1>1. r \in ChannelType /\ r.st = c[t].st /\ r.ev = e
  BY DEF ChannelType
<1>2. WithEvents(c, t, e) = [c EXCEPT ![t] = r]
  BY DEF WithEvents
<1> HIDE DEF r
<1> QED  BY <1>1, <1>2

LEMMA SetTask ==
    ASSUME NEW c \in [Tasks -> ChannelType], NEW t \in Tasks, NEW e \in Events
    PROVE  LET d == WithTask(c, t, e)
           IN  /\ d \in [Tasks -> ChannelType]
               /\ d[t].st = c[t].st /\ d[t].ev = c[t].ev \cup {e}
               /\ \A u \in Tasks \ {t} : d[u] = c[u]
<1> DEFINE q == [c[t] EXCEPT !.ev = c[t].ev \cup {e}]
           r == [q EXCEPT !.task = TRUE]
           d1 == [c EXCEPT ![t] = q]
<1>1. q \in ChannelType /\ q.st = c[t].st /\ q.ev = c[t].ev \cup {e}
  BY DEF ChannelType
<1>2. d1[t] = q /\ d1 \in [Tasks -> ChannelType]
  BY <1>1
<1>3. WithTask(c, t, e) = [d1 EXCEPT ![t].task = TRUE]
  BY DEF WithTask
<1> HIDE DEF q
<1>4. r \in ChannelType /\ r.st = c[t].st /\ r.ev = c[t].ev \cup {e}
  BY <1>1 DEF ChannelType, ChannelState
<1>5. [d1 EXCEPT ![t].task = TRUE] = [c EXCEPT ![t] = r]
  BY <1>2
<1> HIDE DEF r, d1
<1>6. WithTask(c, t, e) = [c EXCEPT ![t] = r]
  BY <1>3, <1>5, Zenon
<1> QED  BY <1>4, <1>6

LEMMA SetNew ==
    ASSUME NEW c \in [Tasks -> ChannelType], NEW t \in Tasks
    PROVE  LET d == WithNew(c, t)
           IN  /\ d \in [Tasks -> ChannelType]
               /\ d[t].st = "NEW" /\ d[t].ev = {}
               /\ \A u \in Tasks \ {t} : d[u] = c[u]
<1> DEFINE q == [c[t] EXCEPT !.ev = {}]
           r == [q EXCEPT !.st = "NEW"]
           d1 == [c EXCEPT ![t] = q]
<1>1. q \in ChannelType /\ q.ev = {}
  BY DEF ChannelType
<1>2. d1[t] = q /\ d1 \in [Tasks -> ChannelType]
  BY <1>1
<1>3. WithNew(c, t) = [d1 EXCEPT ![t].st = "NEW"]
  BY DEF WithNew
<1> HIDE DEF q
<1>4. r \in ChannelType /\ r.st = "NEW" /\ r.ev = {}
  BY <1>1 DEF ChannelType, ChannelState
<1>5. [d1 EXCEPT ![t].st = "NEW"] = [c EXCEPT ![t] = r]
  BY <1>2
<1> HIDE DEF r, d1
<1>6. WithNew(c, t) = [c EXCEPT ![t] = r]
  BY <1>3, <1>5, Zenon
<1> QED  BY <1>4, <1>6

LEMMA SetStale ==
    ASSUME NEW k \in [Tasks -> Callbacks \cup {None}], NEW t \in Tasks, k[t] \in Callbacks
    PROVE  LET d == Stale(k, t)
           IN  /\ d \in [Tasks -> Callbacks \cup {None}]
               /\ d[t].cur = FALSE
               /\ \A u \in Tasks \ {t} : d[u] = k[u]
<1> DEFINE r == [k[t] EXCEPT !.cur = FALSE]
<1>1. r \in Callbacks /\ r.cur = FALSE
  BY DEF Callbacks
<1>2. Stale(k, t) = [k EXCEPT ![t] = r]
  BY DEF Stale
<1> HIDE DEF r
<1> QED  BY <1>1, <1>2

LEMMA SetStep ==
    ASSUME NEW k \in [Tasks -> Callbacks \cup {None}], NEW t \in Tasks, k[t] \in Callbacks,
           NEW a \in {"cancel", "update", "expire"}
    PROVE  LET d == WithStep(k, t, a)
           IN  /\ d \in [Tasks -> Callbacks \cup {None}]
               /\ d[t] \in Callbacks
               /\ d[t].at = a /\ d[t].ev = k[t].ev /\ d[t].cur = k[t].cur
               /\ \A u \in Tasks \ {t} : d[u] = k[u]
<1> DEFINE r == [k[t] EXCEPT !.at = a]
<1>1. r \in Callbacks /\ r.at = a /\ r.ev = k[t].ev /\ r.cur = k[t].cur
  BY DEF Callbacks
<1>2. WithStep(k, t, a) = [k EXCEPT ![t] = r]
  BY DEF WithStep
<1> HIDE DEF r
<1> QED  BY <1>1, <1>2

LEMMA UpdateTypes ==
    ASSUME TypeOK, NEW t \in Tasks, fd[t] \in Fds, UpdateChannel(t)
    PROVE  /\ chan' \in [Tasks -> ChannelType]
           /\ channelMap' \in [Fds -> Tasks \cup {None}]
           /\ interest' \in [Fds -> Registrations \cup {None}]
           /\ pend' \in [Fds -> BOOLEAN]
           /\ asserted' \in BOOLEAN
<1>1. chan[t].ev \in SUBSET Events /\ {} \in SUBSET Events
  BY DEF TypeOK
<1>2. interest' \in [Fds -> Registrations \cup {None}] /\ pend' \in [Fds -> BOOLEAN]
  <2>1. CASE UNCHANGED <<interest, pend>>
    BY <2>1 DEF TypeOK
  <2>2. CASE \E o, ev : ev \in SUBSET Events /\ EpollCtl(o, t, ev)
    BY <2>2, CtlTypes
  <2> QED  BY <1>1, <2>1, <2>2 DEF UpdateChannel
<1>3. chan' \in [Tasks -> ChannelType]
  <2>1. chan \in [Tasks -> ChannelType]
    BY DEF TypeOK, ChannelType
  <2>2. chan' = chan \/ \E q \in ChannelState : chan' = WithState(chan, t, q)
    BY DEF UpdateChannel, ChannelState, WithState
  <2> QED  BY <2>1, <2>2, SetState
<1>4. channelMap' \in [Fds -> Tasks \cup {None}]
  BY DEF UpdateChannel, TypeOK
<1>5. asserted' \in BOOLEAN
  BY Zenon DEF UpdateChannel, TypeOK
<1> QED  BY <1>2, <1>3, <1>4, <1>5

-----------------------------------------------------------------------------
LEMMA TypesStep ==
    ASSUME TypeOK, BaseInv, Next
    PROVE  TypeOK'
<1> USE DEF loopVars, kernelVars, timerVars
<1>c. chan \in [Tasks -> ChannelType] /\ taken \in [Tasks -> Callbacks \cup {None}]
  BY DEF TypeOK, ChannelType, Callbacks
<1>f. \A t \in Tasks : pc[t] # "new" => fd[t] \in Fds
  BY DEF BaseInv, FdInv
<1>g. \A t \in Tasks, p \in PCs : Goto(t, p) => pc' \in [Tasks -> PCs]
  BY DEF Goto, TypeOK
\* The loop's thread.
<1>1. CASE EpollWait
  <2>1. batch' \in [Fds -> [ch : Tasks, ops : SUBSET Reports] \cup {None}]
    <3> SUFFICES ASSUME NEW f \in Fds, pend[f]
                 PROVE  [ch |-> interest[f].ch, ops |-> Report(f, interest[f].ev)]
                           \in [ch : Tasks, ops : SUBSET Reports]
      BY <1>1 DEF EpollWait
    <3>1. interest[f] \in Registrations
      BY DEF BaseInv, PendInv, TypeOK
    <3>2. interest[f].ch \in Tasks
      BY <3>1 DEF Registrations
    <3>3. Report(f, interest[f].ev) \in SUBSET Reports
      BY DEF Report, TypeOK
    <3> QED  BY <3>2, <3>3
  <2>2. pend' \in [Fds -> BOOLEAN]
    BY <1>1 DEF EpollWait
  <2> QED  BY <1>1, <2>1, <2>2 DEF EpollWait, TypeOK
<1>2. ASSUME NEW f \in Fds, Trigger(f)  PROVE TypeOK'
  <2>1. batch[f] \in [ch : Tasks, ops : SUBSET Reports]
    BY <1>2 DEF Trigger, TypeOK
  <2>2. batch[f].ch \in Tasks
    BY <2>1
  <2>3. TriggerWakes(batch[f].ch, batch[f].ops) \in Seq(Tasks)
    BY <2>2 DEF TriggerWakes
  <2>4. queue' \in Seq(Tasks)
    BY <1>2, <2>3 DEF Trigger, TypeOK
  <2> QED  BY <1>2, <2>4 DEF Trigger, TypeOK
<1>3. ASSUME NEW t \in Tasks, Resume(t)  PROVE TypeOK'
  <2>1. queue' \in Seq(Tasks)
    BY <1>3 DEF Resume, TypeOK
  <2>2. pc' \in [Tasks -> PCs]
    BY <1>3 DEF Resume, TypeOK, PCs
  <2> QED  BY <1>3, <2>1, <2>2 DEF Resume, TypeOK
\* The tasks.
<1>4. ASSUME NEW t \in Tasks, Accept(t)  PROVE TypeOK'
  <2>1. queue' \in Seq(Tasks)
    BY <1>4 DEF Accept, TypeOK
  <2>2. fd' \in [Tasks -> 0..MaxFd]
    BY <1>4 DEF Accept, TypeOK, Fds
  <2>3. pc' \in [Tasks -> PCs]
    BY <1>4, <1>g DEF Accept, PCs
  <2> QED  BY <1>4, <2>1, <2>2, <2>3 DEF Accept, TypeOK
<1>5. ASSUME NEW t \in Tasks, NEW o \in Ops, Call(t, o) \/ Connect(t)  PROVE TypeOK'
  <2>1. pc' \in [Tasks -> PCs]
    BY <1>5, <1>g DEF Call, Connect, PCs
  <2>2. op' = [op EXCEPT ![t] = o] \/ op' = [op EXCEPT ![t] = "CONNECT"]
    BY <1>5 DEF Call, Connect
  <2>3. op' \in [Tasks -> Ops \cup {None}]
    BY <2>2 DEF TypeOK, Ops
  <2> QED  BY <1>5, <2>1, <2>3 DEF Call, Connect, TypeOK
<1>6. ASSUME NEW t \in Tasks, IoReturn(t)  PROVE TypeOK'
  <2>1. pc' \in [Tasks -> PCs] /\ op' \in [Tasks -> Ops \cup {None}]
    BY <1>6, <1>g DEF IoReturn, TypeOK, PCs
  <2>2. rdy' \in [Fds -> SUBSET Reports]
    <3>1. fd[t] \in Fds
      BY <1>6, <1>f DEF IoReturn, At
    <3> QED  BY <1>6, <3>1 DEF IoReturn, TypeOK
  <2> QED  BY <1>6, <2>1, <2>2 DEF IoReturn, TypeOK
<1>7. ASSUME NEW t \in Tasks, IoAgain(t)  PROVE TypeOK'
  <2>1. pc' \in [Tasks -> PCs]
    BY <1>7, <1>g DEF IoAgain, PCs
  <2>2. (t \in TimedTasks) \in BOOLEAN
    OBVIOUS
  <2>3. timer' \in [Tasks -> BOOLEAN] /\ expired' \in [Tasks -> BOOLEAN]
    BY <1>7, <2>2 DEF IoAgain, AddTimer, TypeOK
  <2> QED  BY <1>7, <2>1, <2>3 DEF IoAgain, TypeOK
<1>8. ASSUME NEW t \in Tasks, AddEvent(t)  PROVE TypeOK'
  <2>1. pc' \in [Tasks -> PCs]
    BY <1>8, <1>g DEF AddEvent, PCs
  <2>2. EventOf(op[t]) \in Events
    BY DEF EventOf, Events
  <2>3. chan' \in [Tasks -> ChannelType]
    <3> DEFINE e == EventOf(op[t])
    <3>1. chan' = chan \/ chan' = WithTask(chan, t, e)
      BY <1>8 DEF AddEvent, WithTask
    <3> HIDE DEF e
    <3> QED  BY <1>c, <2>2, <3>1, SetTask DEF e
  <2> QED  BY <1>8, <2>1, <2>3 DEF AddEvent, TypeOK, ChannelType
<1>9. ASSUME NEW t \in Tasks, UpdateHold(t)  PROVE TypeOK'
  <2>1. pc' \in [Tasks -> PCs] /\ fd[t] \in Fds
    BY <1>9, <1>f, <1>g DEF UpdateHold, PCs, At
  <2>2. /\ chan' \in [Tasks -> ChannelType]
        /\ channelMap' \in [Fds -> Tasks \cup {None}]
        /\ interest' \in [Fds -> Registrations \cup {None}]
        /\ pend' \in [Fds -> BOOLEAN]
        /\ asserted' \in BOOLEAN
    BY <1>9, <2>1, UpdateTypes DEF UpdateHold
  <2> QED  BY <1>9, <2>1, <2>2, Zenon DEF UpdateHold, TypeOK, ChannelType
<1>10. ASSUME NEW t \in Tasks, NEW p \in PCs, LeaveWait(t, p)  PROVE TypeOK'
  <2>1. pc' \in [Tasks -> PCs] /\ op' \in [Tasks -> Ops \cup {None}]
    BY <1>10, <1>g DEF LeaveWait, TypeOK
  <2>2. timer' \in [Tasks -> BOOLEAN] /\ expired' \in [Tasks -> BOOLEAN]
    BY <1>10 DEF LeaveWait, CancelTimer, TypeOK
  <2>3. taken' \in [Tasks -> Callbacks \cup {None}]
    <3>1. taken' = taken \/ (taken[t] \in Callbacks /\ taken' = Stale(taken, t))
      BY <1>10, <1>c DEF LeaveWait, Stale
    <3>2. taken[t] \in Callbacks => Stale(taken, t) \in [Tasks -> Callbacks \cup {None}]
      BY <1>c, SetStale
    <3> QED  BY <1>c, <3>1, <3>2
  <2> QED  BY <1>10, <2>1, <2>2, <2>3 DEF LeaveWait, TypeOK, Callbacks
<1>11. ASSUME NEW t \in Tasks, Close(t)  PROVE TypeOK'
  <2>1. pc' \in [Tasks -> PCs] /\ cur' \in Tasks \cup {None}
    BY <1>11, <1>g DEF Close, PCs
  <2>2. /\ interest' \in [Fds -> Registrations \cup {None}]
        /\ rdy' \in [Fds -> SUBSET Reports]
        /\ channelMap' \in [Fds -> Tasks \cup {None}]
    BY <1>11 DEF Close, RemoveChannel, TypeOK
  <2>3. pend' \in [Fds -> BOOLEAN] /\ asserted' \in BOOLEAN
    <3>1. pend' \in [Fds -> BOOLEAN]
      BY <1>11 DEF Close, TypeOK
    <3>2. asserted' \in BOOLEAN
      BY <1>11, Zenon DEF Close, RemoveChannel, TypeOK
    <3> QED  BY <3>1, <3>2
  <2>4. chan' \in [Tasks -> ChannelType]
    <3>1. chan' = WithEvents(chan, t, {}) \/ chan' = WithNew(chan, t)
      BY <1>11 DEF Close, RemoveChannel, WithEvents, WithNew
    <3> QED  BY <1>c, <3>1, SetEvents, SetNew
  <2> QED  BY <1>11, <2>1, <2>2, <2>3, <2>4, Zenon DEF Close, TypeOK, ChannelType
\* The timer thread.
<1>12. CASE TimerTake
  <2>1. PICK S : /\ timer' = [t \in Tasks |-> timer[t] /\ t \notin S]
                 /\ taken' = [t \in Tasks |->
                        IF t \in S THEN [ev |-> EventOf(op[t]), at |-> "cancel", cur |-> TRUE]
                        ELSE None]
    BY <1>12 DEF TimerTake
  <2>2. \A t \in Tasks : (timer[t] /\ t \notin S) \in BOOLEAN
    OBVIOUS
  <2>3. timer' \in [Tasks -> BOOLEAN]
    BY <2>1, <2>2
  <2>4. \A t \in Tasks : [ev |-> EventOf(op[t]), at |-> "cancel", cur |-> TRUE] \in Callbacks
    BY DEF Callbacks, EventOf, Events
  <2>5. taken' \in [Tasks -> Callbacks \cup {None}]
    BY <2>1, <2>4
  <2> QED  BY <1>12, <2>3, <2>5 DEF TimerTake, TypeOK, Callbacks
<1>13. ASSUME NEW t \in Tasks, NEW a, Callback(t, a)
       PROVE  raced' \in BOOLEAN /\ taken[t] \in Callbacks /\ fd[t] \in Fds
  <2>1. raced' \in BOOLEAN
    BY <1>13, Zenon DEF Callback
  <2>2. taken[t] \in Callbacks
    BY <1>c, <1>13 DEF Callback
  <2>3. pc[t] # "new"
    BY <1>13 DEF Callback, BaseInv, NewInv
  <2> QED  BY <1>f, <2>1, <2>2, <2>3
<1>14. ASSUME NEW t \in Tasks, NEW a \in {"cancel", "update", "expire"}, taken[t] \in Callbacks,
              taken' = WithStep(taken, t, a)
       PROVE  taken' \in [Tasks -> Callbacks \cup {None}]
  BY <1>c, <1>14, SetStep
<1>15. ASSUME NEW t \in Tasks, CallbackCancel(t)  PROVE TypeOK'
  <2>1. raced' \in BOOLEAN /\ taken[t] \in Callbacks
    BY <1>13, <1>15 DEF CallbackCancel
  <2>2. taken' \in [Tasks -> Callbacks \cup {None}]
    BY <1>14, <1>15, <2>1 DEF CallbackCancel, WithStep
  <2>3. chan[t].ev \ {taken[t].ev} \in SUBSET Events
    BY <1>c DEF ChannelType
  <2>4. chan' \in [Tasks -> ChannelType]
    <3> DEFINE e == chan[t].ev \ {taken[t].ev}
    <3>1. chan' = WithEvents(chan, t, e)
      BY <1>15 DEF CallbackCancel, WithEvents
    <3> HIDE DEF e
    <3> QED  BY <1>c, <2>3, <3>1, SetEvents DEF e
  <2> QED  BY <1>15, <2>1, <2>2, <2>4, Zenon DEF CallbackCancel, TypeOK, ChannelType, Callbacks
<1>16. ASSUME NEW t \in Tasks, CallbackUpdate(t)  PROVE TypeOK'
  <2>1. raced' \in BOOLEAN /\ taken[t] \in Callbacks /\ fd[t] \in Fds
    BY <1>13, <1>16 DEF CallbackUpdate
  <2>2. taken' \in [Tasks -> Callbacks \cup {None}]
    BY <1>14, <1>16, <2>1 DEF CallbackUpdate, WithStep
  <2>3. /\ chan' \in [Tasks -> ChannelType]
        /\ channelMap' \in [Fds -> Tasks \cup {None}]
        /\ interest' \in [Fds -> Registrations \cup {None}]
        /\ pend' \in [Fds -> BOOLEAN]
        /\ asserted' \in BOOLEAN
    BY <1>16, <2>1, UpdateTypes DEF CallbackUpdate
  <2> QED  BY <1>16, <2>1, <2>2, <2>3, Zenon DEF CallbackUpdate, TypeOK, ChannelType, Callbacks
<1>17. ASSUME NEW t \in Tasks, CallbackExpire(t)  PROVE TypeOK'
  <2>1. raced' \in BOOLEAN
    BY <1>13, <1>17 DEF CallbackExpire
  <2>2. taken' \in [Tasks -> Callbacks \cup {None}]
    BY <1>17, <1>c DEF CallbackExpire
  <2>3. expired' \in [Tasks -> BOOLEAN]
    BY <1>17 DEF CallbackExpire, TypeOK
  <2> QED  BY <1>17, <2>1, <2>2, <2>3, Zenon DEF CallbackExpire, TypeOK, Callbacks
\* The kernel.
<1>18. ASSUME NEW f \in Fds, NEW e \in Reports, Arrival(f, e)  PROVE TypeOK'
  <2> DEFINE b == pend[f] \/ (interest[f] # None /\ e \in interest[f].ev \cup {"HUP"})
  <2>1. pend' = [pend EXCEPT ![f] = b]
    <3>1. pend' = [pend EXCEPT ![f] = @ \/ (interest[f] # None /\ e \in interest[f].ev \cup {"HUP"})]
      BY <1>18, Zenon DEF Arrival
    <3> QED  BY <3>1
  <2>2. b \in BOOLEAN
    BY Zenon DEF TypeOK
  <2> HIDE DEF b
  <2>3. pend' \in [Fds -> BOOLEAN]
    BY <2>1, <2>2 DEF TypeOK
  <2>4. rdy' \in [Fds -> SUBSET Reports]
    BY <1>18 DEF Arrival, TypeOK
  <2> QED  BY <1>18, <2>3, <2>4 DEF Arrival, TypeOK
<1>19. ASSUME NEW t \in Tasks, TaskStep(t)  PROVE TypeOK'
  <2>1. CASE \E o \in Ops : Call(t, o)
    BY <1>5, <2>1
  <2>2. CASE Connect(t)
    BY <1>5, <2>2 DEF Ops
  <2>3. CASE Woken(t) \/ ConnectWoken(t)
    BY <1>10, <2>3 DEF Woken, ConnectWoken, PCs
  <2> QED  BY <1>6, <1>7, <1>8, <1>9, <1>11, <1>19, <2>1, <2>2, <2>3 DEF TaskStep
<1> QED
  BY <1>1, <1>2, <1>3, <1>4, <1>12, <1>15, <1>16, <1>17, <1>18, <1>19 DEF Next, LoopStep, TimerStep

-----------------------------------------------------------------------------
(* What updateChannel does.                                                *)

LEMMA CtlEffect ==
    ASSUME TypeOK, NEW o, NEW t \in Tasks, fd[t] \in Fds, NEW ev \in SUBSET Events,
           EpollCtl(o, t, ev)
    PROVE  /\ \A f \in Fds \ {fd[t]} : interest'[f] = interest[f] /\ pend'[f] = pend[f]
           /\ PendInv => PendInv'
           /\ IsOpen(fd[t]) /\ (o = "ADD" <=> interest[fd[t]] = None) =>
                 interest'[fd[t]] = IF o = "DEL" THEN None ELSE [ch |-> t, ev |-> ev]
<1> DEFINE f == fd[t]
           r == IF o = "DEL" THEN None ELSE [ch |-> t, ev |-> ev]
           b == o # "DEL" /\ Report(f, ev) # {}
<1>1. [ch |-> t, ev |-> ev] # None
  BY DEF Registrations
<1>2. b => r # None
  BY <1>1
<1>3. CASE IsOpen(f) /\ (o = "ADD" <=> interest[f] = None)
  <2>1. interest' = [interest EXCEPT ![f] = r] /\ pend' = [pend EXCEPT ![f] = b]
    BY <1>3 DEF EpollCtl
  <2> HIDE DEF r, b
  <2>2. /\ interest'[f] = r
        /\ pend'[f] = b
        /\ \A g \in Fds \ {f} : interest'[g] = interest[g] /\ pend'[g] = pend[g]
    BY <2>1 DEF TypeOK
  <2>3. PendInv => PendInv'
    BY <1>2, <2>2 DEF PendInv
  <2> QED  BY <2>2, <2>3 DEF r
<1>4. CASE ~(IsOpen(f) /\ (o = "ADD" <=> interest[f] = None))
  <2>1. interest' = interest /\ pend' = pend
    BY <1>4 DEF EpollCtl
  <2> QED  BY <1>4, <2>1 DEF PendInv
<1> QED  BY <1>3, <1>4

\* updateChannel touches its own channel and descriptor.
LEMMA UpdateEffect ==
    ASSUME TypeOK, NEW t \in Tasks, fd[t] \in Fds, UpdateChannel(t)
    PROVE  /\ \A u \in Tasks \ {t} : chan'[u] = chan[u]
           /\ chan'[t].ev = chan[t].ev
           /\ \A f \in Fds \ {fd[t]} : interest'[f] = interest[f] /\ channelMap'[f] = channelMap[f]
           /\ PendInv => PendInv'
<1>1. chan \in [Tasks -> ChannelType]
  BY DEF TypeOK, ChannelType
<1>2. chan[t].ev \in SUBSET Events /\ {} \in SUBSET Events
  BY DEF TypeOK
<1>3. (\A u \in Tasks \ {t} : chan'[u] = chan[u]) /\ chan'[t].ev = chan[t].ev
  <2>1. chan' = chan \/ \E q \in ChannelState : chan' = WithState(chan, t, q)
    BY DEF UpdateChannel, ChannelState, WithState
  <2> QED  BY <1>1, <2>1, SetState
<1>4. /\ \A f \in Fds \ {fd[t]} : interest'[f] = interest[f]
      /\ PendInv => PendInv'
  <2>1. CASE UNCHANGED <<interest, pend>>
    BY <2>1 DEF PendInv
  <2>2. CASE \E o, ev : ev \in SUBSET Events /\ EpollCtl(o, t, ev)
    BY <2>2, CtlEffect
  <2> QED  BY <1>2, <2>1, <2>2 DEF UpdateChannel
<1>5. \A f \in Fds \ {fd[t]} : channelMap'[f] = channelMap[f]
  BY DEF UpdateChannel, TypeOK
<1> QED  BY <1>3, <1>4, <1>5

\* Where the poller, the kernel and the channel agree, an update of a channel
\* with events registers it, and one of a registered channel without events
\* ends the registration.
LEMMA UpdateRegisters ==
    ASSUME TypeOK, NEW t \in Tasks, fd[t] \in Fds, Live(t), UpdateAllowed(t),
           chan[t].st = "EXIST" <=> interest[fd[t]] # None, UpdateChannel(t)
    PROVE  /\ asserted' = asserted /\ channelMap'[fd[t]] = t
           /\ IF chan[t].st = "EXIST" /\ chan[t].ev = {}
              THEN chan'[t].st = "DISCARD" /\ interest'[fd[t]] = None
              ELSE /\ chan'[t].st = "EXIST"
                   /\ interest'[fd[t]] # None /\ interest'[fd[t]].ch = t
<1>1. chan \in [Tasks -> ChannelType]
  BY DEF TypeOK, ChannelType
<1>2. chan[t].ev \in SUBSET Events /\ {} \in SUBSET Events
  BY DEF TypeOK
<1>3. IsOpen(fd[t])
  BY DEF IsOpen, Live
<1>4. [ch |-> t, ev |-> chan[t].ev] # None
  BY <1>2 DEF Registrations
<1>5. asserted' = asserted /\ channelMap'[fd[t]] = t
  BY DEF UpdateChannel, TypeOK
<1>6. CASE chan[t].st \in {"NEW", "DISCARD"}
  <2>1. chan' = WithState(chan, t, "EXIST") /\ EpollCtl("ADD", t, chan[t].ev)
    BY <1>6 DEF UpdateChannel, WithState
  <2>2. interest'[fd[t]] = [ch |-> t, ev |-> chan[t].ev]
    BY <1>2, <1>3, <1>6, <2>1, CtlEffect
  <2>3. chan'[t].st = "EXIST"
    BY <1>1, <2>1, SetState DEF ChannelState
  <2> QED  BY <1>4, <1>5, <1>6, <2>2, <2>3
<1>7. CASE chan[t].st = "EXIST" /\ chan[t].ev = {}
  <2>1. chan' = WithState(chan, t, "DISCARD") /\ EpollCtl("DEL", t, {})
    BY <1>7 DEF UpdateChannel, WithState
  <2>2. interest'[fd[t]] = None
    BY <1>2, <1>3, <1>7, <2>1, CtlEffect
  <2>3. chan'[t].st = "DISCARD"
    BY <1>1, <2>1, SetState DEF ChannelState
  <2> QED  BY <1>5, <1>7, <2>2, <2>3
<1>8. CASE chan[t].st = "EXIST" /\ chan[t].ev # {}
  <2>1. chan' = chan /\ EpollCtl("MOD", t, chan[t].ev)
    BY <1>8 DEF UpdateChannel
  <2>2. interest'[fd[t]] = [ch |-> t, ev |-> chan[t].ev]
    BY <1>2, <1>3, <1>8, <2>1, CtlEffect
  <2> QED  BY <1>4, <1>5, <1>8, <2>1, <2>2
<1> QED  BY <1>1, <1>6, <1>7, <1>8 DEF ChannelType, ChannelState

-----------------------------------------------------------------------------
(* Where the tasks are.                                                    *)

Running == {"run", "try", "add", "update", "woken"}

\* Steps of the running task that leave it running.
RunStep(t) ==
    \/ \E o \in Ops : Call(t, o)
    \/ Connect(t) \/ IoReturn(t) \/ IoAgain(t) \/ AddEvent(t) \/ Woken(t) \/ ConnectWoken(t)

TakeOrCallback == TimerTake \/ TimerStep

\* Every step is of one of these kinds.
LEMMA Kinds ==
    ASSUME Next
    PROVE  \/ EpollWait \/ \E f \in Fds : Trigger(f)
           \/ \E f \in Fds, e \in Reports : Arrival(f, e)
           \/ TakeOrCallback
           \/ \E t \in Tasks : Resume(t) \/ RunStep(t) \/ UpdateHold(t) \/ Close(t) \/ Accept(t)
BY DEF Next, LoopStep, TaskStep, RunStep, TakeOrCallback

LEMMA GotoEffect ==
    ASSUME TypeOK, NEW t \in Tasks, NEW p, Goto(t, p)
    PROVE  pc'[t] = p /\ \A u \in Tasks \ {t} : pc'[u] = pc[u]
BY DEF TypeOK, Goto

\* What each kind does to pc, cur and fd.
LEMMA Moves ==
    ASSUME TypeOK, NEW t \in Tasks
    PROVE  /\ Resume(t) => /\ cur = None /\ cur' = t /\ fd' = fd
                           /\ \/ pc[t] = "ready" /\ pc'[t] = "run"
                              \/ pc[t] = "held" /\ pc'[t] = "woken"
                           /\ \A u \in Tasks \ {t} : pc'[u] = pc[u]
           /\ RunStep(t) => /\ cur = t /\ cur' = t /\ fd' = fd
                            /\ pc[t] \in Running /\ pc'[t] \in Running
                            /\ \A u \in Tasks \ {t} : pc'[u] = pc[u]
           /\ UpdateHold(t) => /\ cur = t /\ cur' = None /\ fd' = fd
                               /\ pc[t] = "update" /\ pc'[t] = "held"
                               /\ \A u \in Tasks \ {t} : pc'[u] = pc[u]
           /\ Close(t) => /\ cur = t /\ cur' = None /\ fd' = fd
                          /\ pc[t] = "run" /\ pc'[t] = "done"
                          /\ \A u \in Tasks \ {t} : pc'[u] = pc[u]
           /\ Accept(t) => /\ cur' = cur /\ pc[t] = "new" /\ pc'[t] = "ready"
                           /\ \A u \in Tasks \ {t} : pc'[u] = pc[u] /\ fd'[u] = fd[u]
                           /\ fd'[t] \in Fds /\ ~IsOpen(fd'[t])
<1>1. Resume(t) => /\ cur = None /\ cur' = t /\ fd' = fd
                   /\ \/ pc[t] = "ready" /\ pc'[t] = "run"
                      \/ pc[t] = "held" /\ pc'[t] = "woken"
                   /\ \A u \in Tasks \ {t} : pc'[u] = pc[u]
  BY DEF TypeOK, Resume
<1>2. RunStep(t) => /\ cur = t /\ cur' = t /\ fd' = fd
                    /\ pc[t] \in Running /\ pc'[t] \in Running
                    /\ \A u \in Tasks \ {t} : pc'[u] = pc[u]
  <2>1. ASSUME RunStep(t)
        PROVE  /\ cur = t /\ cur' = t /\ fd' = fd /\ pc[t] \in Running
               /\ \E p \in Running : Goto(t, p)
    BY <2>1 DEF RunStep, Call, Connect, IoReturn, IoAgain, AddEvent, Woken, ConnectWoken,
       LeaveWait, At, Running, loopVars
  <2> QED  BY <2>1, GotoEffect
<1>3. UpdateHold(t) => /\ cur = t /\ cur' = None /\ fd' = fd
                       /\ pc[t] = "update" /\ pc'[t] = "held"
                       /\ \A u \in Tasks \ {t} : pc'[u] = pc[u]
  BY GotoEffect DEF UpdateHold, At
<1>4. Close(t) => /\ cur = t /\ cur' = None /\ fd' = fd
                  /\ pc[t] = "run" /\ pc'[t] = "done"
                  /\ \A u \in Tasks \ {t} : pc'[u] = pc[u]
  BY GotoEffect DEF Close, At
<1>5. Accept(t) => /\ cur' = cur /\ pc[t] = "new" /\ pc'[t] = "ready"
                   /\ \A u \in Tasks \ {t} : pc'[u] = pc[u] /\ fd'[u] = fd[u]
                   /\ fd'[t] \in Fds /\ ~IsOpen(fd'[t])
  BY GotoEffect DEF Accept, TypeOK
<1> QED  BY <1>1, <1>2, <1>3, <1>4, <1>5

\* The other steps leave all tasks where they are.
LEMMA Stays ==
    ASSUME \/ EpollWait \/ (\E f \in Fds : Trigger(f))
           \/ (\E f \in Fds, e \in Reports : Arrival(f, e)) \/ TakeOrCallback
    PROVE  pc' = pc /\ cur' = cur /\ fd' = fd
BY DEF EpollWait, Trigger, Arrival, TakeOrCallback, TimerTake, TimerStep, CallbackCancel,
   CallbackUpdate, CallbackExpire, loopVars

LEMMA FdStep ==
    ASSUME TypeOK, FdInv, Next
    PROVE  FdInv'
<1>1. CASE pc' = pc /\ cur' = cur /\ fd' = fd
  BY <1>1 DEF FdInv, Live
<1>2. ASSUME NEW t \in Tasks, Resume(t) \/ RunStep(t) \/ UpdateHold(t) \/ Close(t)
      PROVE  FdInv'
  <2>1. /\ fd' = fd /\ pc[t] \notin {"new", "done"}
        /\ \A u \in Tasks \ {t} : pc'[u] = pc[u]
    BY <1>2, Moves DEF Running
  <2> QED  BY <2>1 DEF FdInv, Live
<1>3. ASSUME NEW t \in Tasks, Accept(t)  PROVE FdInv'
  <2>1. /\ \A u \in Tasks \ {t} : pc'[u] = pc[u] /\ fd'[u] = fd[u]
        /\ fd'[t] \in Fds /\ ~IsOpen(fd'[t])
    BY <1>3, Moves
  <2>2. \A u \in Tasks \ {t} : Live(u)' => fd'[u] # fd'[t]
    BY <2>1 DEF IsOpen, Live
  <2>3. \A u \in Tasks : pc'[u] # "new" => fd'[u] \in Fds
    BY <2>1 DEF FdInv
  <2>4. ASSUME NEW u \in Tasks, NEW v \in Tasks, Live(u)', Live(v)', fd'[u] = fd'[v]  PROVE u = v
    BY <2>1, <2>2, <2>4 DEF FdInv, Live
  <2> QED  BY <2>3, <2>4 DEF FdInv
<1> QED  BY <1>1, <1>2, <1>3, Kinds, Stays

LEMMA CurStep ==
    ASSUME TypeOK, CurInv, Next
    PROVE  CurInv'
<1>1. CASE pc' = pc /\ cur' = cur
  BY <1>1 DEF CurInv
<1>2. ASSUME NEW t \in Tasks, Resume(t)  PROVE CurInv'
  BY <1>2, Moves DEF CurInv
<1>3. ASSUME NEW t \in Tasks, RunStep(t)  PROVE CurInv'
  BY <1>3, Moves DEF CurInv, Running
<1>4. ASSUME NEW t \in Tasks, UpdateHold(t) \/ Close(t)  PROVE CurInv'
  BY <1>4, Moves DEF CurInv
<1>5. ASSUME NEW t \in Tasks, Accept(t)  PROVE CurInv'
  BY <1>5, Moves DEF CurInv
<1> QED  BY <1>1, <1>2, <1>3, <1>4, <1>5, Kinds, Stays

-----------------------------------------------------------------------------
(* Channels, timers and callbacks.                                         *)

\* Who changes the channels: the running task, and callbacks.
LEMMA ChannelMoves ==
    ASSUME TypeOK, FdInv, NEW t \in Tasks
    PROVE  /\ RunStep(t) => \A u \in Tasks : /\ u # t => chan'[u] = chan[u]
                                             /\ chan'[u].st = chan[u].st
           /\ UpdateHold(t) => \A u \in Tasks \ {t} : chan'[u] = chan[u]
           /\ Close(t) => \A u \in Tasks \ {t} : chan'[u] = chan[u]
           /\ CallbackCancel(t) => /\ \A u \in Tasks \ {t} : chan'[u] = chan[u]
                                   /\ chan'[t].st = chan[t].st
           /\ CallbackUpdate(t) /\ pc[t] # "new" => \A u \in Tasks \ {t} : chan'[u] = chan[u]
<1>c. chan \in [Tasks -> ChannelType]
  BY DEF TypeOK, ChannelType
<1>1. ASSUME RunStep(t)
      PROVE  \A u \in Tasks : (u # t => chan'[u] = chan[u]) /\ chan'[u].st = chan[u].st
  <2>1. CASE AddEvent(t)
    <3> DEFINE e == EventOf(op[t])
    <3>1. e \in Events
      BY DEF EventOf, Events
    <3>2. chan' = chan \/ chan' = WithTask(chan, t, e)
      BY <2>1 DEF AddEvent, WithTask
    <3> HIDE DEF e
    <3> QED  BY <1>c, <3>1, <3>2, SetTask
  <2>2. CASE ~AddEvent(t)
    <3>1. chan' = chan
      BY <1>1, <2>2 DEF RunStep, Call, Connect, IoReturn, IoAgain, Woken, ConnectWoken, LeaveWait
    <3> QED  BY <3>1
  <2> QED  BY <2>1, <2>2
<1>2. ASSUME UpdateHold(t)  PROVE \A u \in Tasks \ {t} : chan'[u] = chan[u]
  <2>1. fd[t] \in Fds /\ UpdateChannel(t)
    BY <1>2 DEF UpdateHold, At, FdInv
  <2> QED  BY <2>1, UpdateEffect
<1>3. ASSUME Close(t)  PROVE \A u \in Tasks \ {t} : chan'[u] = chan[u]
  <2>1. chan' = WithEvents(chan, t, {}) \/ chan' = WithNew(chan, t)
    BY <1>3 DEF Close, RemoveChannel, WithEvents, WithNew
  <2> QED  BY <1>c, <2>1, SetEvents, SetNew
<1>4. ASSUME CallbackCancel(t)
      PROVE  (\A u \in Tasks \ {t} : chan'[u] = chan[u]) /\ chan'[t].st = chan[t].st
  <2> DEFINE e == chan[t].ev \ {taken[t].ev}
  <2>1. e \in SUBSET Events
    BY <1>c DEF ChannelType
  <2>2. chan' = WithEvents(chan, t, e)
    BY <1>4 DEF CallbackCancel, WithEvents
  <2> HIDE DEF e
  <2> QED  BY <1>c, <2>1, <2>2, SetEvents
<1>5. ASSUME CallbackUpdate(t), pc[t] # "new"  PROVE \A u \in Tasks \ {t} : chan'[u] = chan[u]
  <2>1. fd[t] \in Fds /\ UpdateChannel(t)
    BY <1>5 DEF CallbackUpdate, FdInv
  <2> QED  BY <2>1, UpdateEffect
<1> QED  BY <1>1, <1>2, <1>3, <1>4, <1>5

\* What the steps of a callback do to it.
LEMMA CallbackMoves ==
    ASSUME TypeOK, NEW t \in Tasks
    PROVE  /\ CallbackCancel(t) =>
                 /\ \A u \in Tasks \ {t} : taken'[u] = taken[u]
                 /\ taken'[t].at = "update" /\ taken'[t].ev = taken[t].ev
                 /\ taken'[t].cur = taken[t].cur
                 /\ taken[t] # None
           /\ CallbackUpdate(t) =>
                 /\ \A u \in Tasks \ {t} : taken'[u] = taken[u]
                 /\ taken'[t].at = "expire" /\ taken'[t].ev = taken[t].ev
                 /\ taken'[t].cur = taken[t].cur
                 /\ taken[t] # None /\ taken'[t] # None
           /\ CallbackExpire(t) =>
                 /\ \A u \in Tasks \ {t} : taken'[u] = taken[u]
                 /\ taken'[t] = None /\ taken[t] # None
<1>c. taken \in [Tasks -> Callbacks \cup {None}]
  BY DEF TypeOK, Callbacks
<1>1. ASSUME NEW a \in {"update", "expire"}, taken[t] # None, taken' = WithStep(taken, t, a)
      PROVE  /\ \A u \in Tasks \ {t} : taken'[u] = taken[u]
             /\ taken'[t].at = a /\ taken'[t].ev = taken[t].ev
             /\ taken'[t].cur = taken[t].cur
             /\ taken'[t] # None
  <2>1. taken[t] \in Callbacks
    BY <1>1, <1>c
  <2> QED  BY <1>c, <1>1, <2>1, SetStep
<1>2. ASSUME CallbackCancel(t)
      PROVE  taken[t] # None /\ taken' = WithStep(taken, t, "update")
  BY <1>2 DEF CallbackCancel, Callback, WithStep
<1>3. ASSUME CallbackUpdate(t)
      PROVE  taken[t] # None /\ taken' = WithStep(taken, t, "expire")
  BY <1>3 DEF CallbackUpdate, Callback, WithStep
<1>4. ASSUME CallbackExpire(t)
      PROVE  /\ \A u \in Tasks \ {t} : taken'[u] = taken[u]
             /\ taken'[t] = None /\ taken[t] # None
  BY <1>4, <1>c DEF CallbackExpire, Callback
<1>5. CallbackCancel(t) =>
         /\ \A u \in Tasks \ {t} : taken'[u] = taken[u]
         /\ taken'[t].at = "update" /\ taken'[t].ev = taken[t].ev
         /\ taken'[t].cur = taken[t].cur
         /\ taken[t] # None
  BY <1>1, <1>2
<1>6. CallbackUpdate(t) =>
         /\ \A u \in Tasks \ {t} : taken'[u] = taken[u]
         /\ taken'[t].at = "expire" /\ taken'[t].ev = taken[t].ev
         /\ taken'[t].cur = taken[t].cur
         /\ taken[t] # None /\ taken'[t] # None
  BY <1>1, <1>3
<1> QED  BY <1>4, <1>5, <1>6

\* The end of a wait.
LEMMA LeaveEffect ==
    ASSUME TypeOK, NEW t \in Tasks, NEW p, LeaveWait(t, p)
    PROVE  /\ \A u \in Tasks \ {t} : /\ taken'[u] = taken[u] /\ timer'[u] = timer[u]
                                     /\ expired'[u] = expired[u] /\ op'[u] = op[u]
           /\ ~timer'[t] /\ ~expired'[t] /\ ~Current(t)'
<1>c. taken \in [Tasks -> Callbacks \cup {None}]
  BY DEF TypeOK, Callbacks
<1>1. (\A u \in Tasks \ {t} : taken'[u] = taken[u]) /\ ~Current(t)'
  <2>1. CASE taken[t] = None
    BY <2>1 DEF LeaveWait, Current
  <2>2. CASE taken[t] # None
    <3>1. taken[t] \in Callbacks /\ taken' = Stale(taken, t)
      BY <1>c, <2>2 DEF LeaveWait, Stale
    <3>2. /\ \A u \in Tasks \ {t} : Stale(taken, t)[u] = taken[u]
          /\ Stale(taken, t)[t].cur = FALSE
      <4>1. taken[t] \in Callbacks
        BY <3>1
      <4> QED  BY <1>c, <4>1, SetStale
    <3> QED  BY <3>1, <3>2 DEF Current
  <2> QED  BY <2>1, <2>2
<1>2. (\A u \in Tasks \ {t} : timer'[u] = timer[u]) /\ ~timer'[t]
  BY DEF LeaveWait, CancelTimer, TypeOK
<1>3. (\A u \in Tasks \ {t} : expired'[u] = expired[u]) /\ ~expired'[t]
  BY DEF LeaveWait, TypeOK
<1>4. \A u \in Tasks \ {t} : op'[u] = op[u]
  BY DEF LeaveWait, TypeOK
<1> QED  BY <1>1, <1>2, <1>3, <1>4

\* Steps of the running task but the end of a wait, and of IoAgain, leave the
\* timers alone.
LEMMA RunTimers ==
    ASSUME TypeOK, NEW t \in Tasks, RunStep(t)
    PROVE  \/ /\ pc[t] = "try" /\ pc'[t] = "add" /\ taken' = taken /\ op' = op
              /\ \A u \in Tasks \ {t} : timer'[u] = timer[u] /\ expired'[u] = expired[u]
              /\ ~expired'[t]
           \/ \E p \in {"run", "try"} : pc[t] = "woken" /\ pc'[t] = p /\ LeaveWait(t, p)
           \/ /\ pc[t] = "add" /\ pc'[t] = "update" /\ AddEvent(t)
              /\ timer' = timer /\ taken' = taken /\ expired' = expired /\ op' = op
           \/ /\ pc[t] \in {"run", "try"} /\ pc'[t] \in {"run", "try"}
              /\ timer' = timer /\ taken' = taken /\ expired' = expired
              /\ \A u \in Tasks \ {t} : op'[u] = op[u]
<1> USE DEF timerVars, At
<1>1. CASE (\E o \in Ops : Call(t, o)) \/ Connect(t) \/ IoReturn(t)
  <2>1. /\ pc[t] \in {"run", "try"} /\ timer' = timer /\ taken' = taken /\ expired' = expired
        /\ \E o : op' = [op EXCEPT ![t] = o]
        /\ Goto(t, "try") \/ Goto(t, "run")
    BY <1>1 DEF Call, Connect, IoReturn
  <2>2. pc'[t] \in {"run", "try"}
    BY <2>1, GotoEffect
  <2>3. \A u \in Tasks \ {t} : op'[u] = op[u]
    BY <2>1 DEF TypeOK
  <2> QED  BY <2>1, <2>2, <2>3
<1>2. CASE IoAgain(t)
  <2>1. pc'[t] = "add" /\ pc[t] = "try" /\ taken' = taken /\ op' = op
    BY <1>2, GotoEffect DEF IoAgain
  <2>2. \A u \in Tasks \ {t} : timer'[u] = timer[u]
    BY <1>2 DEF IoAgain, AddTimer, TypeOK
  <2>3. (\A u \in Tasks \ {t} : expired'[u] = expired[u]) /\ ~expired'[t]
    BY <1>2 DEF IoAgain, TypeOK
  <2> QED  BY <2>1, <2>2, <2>3
<1>3. CASE AddEvent(t)
  BY <1>3, GotoEffect DEF AddEvent
<1>4. CASE Woken(t) \/ ConnectWoken(t)
  <2>1. pc[t] = "woken" /\ \E p \in {"run", "try"} : LeaveWait(t, p) /\ Goto(t, p)
    BY <1>4 DEF Woken, ConnectWoken, LeaveWait
  <2> QED  BY <2>1, GotoEffect
<1> QED  BY <1>1, <1>2, <1>3, <1>4 DEF RunStep

Waiting == {"add", "update", "held", "woken"}

LEMMA TimerInvStep ==
    ASSUME TypeOK, TimerInv, Next
    PROVE  TimerInv'
<1>i. \A u \in Tasks : /\ timer[u] => pc[u] \in Waiting /\ ~Current(u)
                       /\ Current(u) => pc[u] \in Waiting /\ taken[u].ev = EventOf(op[u])
  BY DEF TimerInv, Waiting
<1>p. ASSUME \A u \in Tasks :
                /\ timer'[u] => pc'[u] \in Waiting /\ ~Current(u)'
                /\ Current(u)' => pc'[u] \in Waiting /\ taken'[u].ev = EventOf(op'[u])
      PROVE  TimerInv'
  BY <1>p DEF TimerInv, Waiting
<1>1. ASSUME NEW t \in Tasks, \A u \in Tasks \ {t} : pc'[u] = pc[u],
             pc[t] \in Waiting => pc'[t] \in Waiting,
             timer' = timer, taken' = taken, op' = op
      PROVE  TimerInv'
  <2>1. \A u \in Tasks : Current(u)' <=> Current(u)
    BY <1>1 DEF Current
  <2> QED  BY <1>1, <1>i, <1>p, <2>1
<1>2. CASE EpollWait \/ (\E f \in Fds : Trigger(f)) \/ (\E f \in Fds, e \in Reports : Arrival(f, e))
  <2>1. pc' = pc /\ timer' = timer /\ taken' = taken /\ op' = op
    BY <1>2 DEF EpollWait, Trigger, Arrival, timerVars
  <2>2. \A u : Current(u)' <=> Current(u)
    BY <2>1 DEF Current
  <2> QED  BY <1>i, <1>p, <2>1, <2>2
<1>3. ASSUME NEW t \in Tasks, Resume(t) \/ UpdateHold(t) \/ Accept(t)  PROVE TimerInv'
  <2>1. timer' = timer /\ taken' = taken /\ op' = op
    BY <1>3 DEF Resume, UpdateHold, Accept, timerVars
  <2>2. /\ \A u \in Tasks \ {t} : pc'[u] = pc[u]
        /\ pc[t] \in Waiting => pc'[t] \in Waiting
    BY <1>3, Moves DEF Waiting
  <2> QED  BY <1>1, <2>1, <2>2
<1>4. ASSUME NEW t \in Tasks, Close(t)  PROVE TimerInv'
  <2>1. timer' = timer /\ taken' = taken /\ op' = op
    BY <1>4 DEF Close, timerVars
  <2>2. /\ \A u \in Tasks \ {t} : pc'[u] = pc[u]
        /\ pc[t] \in Waiting => pc'[t] \in Waiting
    BY <1>4, Moves DEF Waiting
  <2> QED  BY <1>1, <2>1, <2>2
<1>5. ASSUME NEW t \in Tasks, RunStep(t)  PROVE TimerInv'
  <2>1. \A u \in Tasks \ {t} : pc'[u] = pc[u]
    BY <1>5, Moves
  <2>2. CASE /\ pc[t] = "try" /\ pc'[t] = "add" /\ taken' = taken /\ op' = op
             /\ \A u \in Tasks \ {t} : timer'[u] = timer[u]
    <3>1. \A u \in Tasks : Current(u)' <=> Current(u)
      BY <2>2 DEF Current
    <3> QED  BY <1>i, <1>p, <2>1, <2>2, <3>1 DEF Waiting
  <2>3. ASSUME NEW p \in {"run", "try"}, LeaveWait(t, p)  PROVE TimerInv'
    <3>1. /\ \A u \in Tasks \ {t} : taken'[u] = taken[u] /\ timer'[u] = timer[u] /\ op'[u] = op[u]
          /\ ~timer'[t] /\ ~Current(t)'
      BY <2>3, LeaveEffect
    <3>2. \A u \in Tasks \ {t} : Current(u)' <=> Current(u)
      BY <3>1 DEF Current
    <3> QED  BY <1>i, <1>p, <2>1, <3>1, <3>2
  <2>4. CASE /\ pc[t] = "add" /\ pc'[t] = "update"
             /\ timer' = timer /\ taken' = taken /\ op' = op
    BY <1>1, <2>1, <2>4 DEF Waiting
  <2>5. CASE /\ pc[t] \in {"run", "try"}
             /\ timer' = timer /\ taken' = taken
             /\ \A u \in Tasks \ {t} : op'[u] = op[u]
    <3>1. \A u \in Tasks : Current(u)' <=> Current(u)
      BY <2>5 DEF Current
    <3>2. ~timer[t] /\ ~Current(t)
      BY <1>i, <2>5 DEF Waiting
    <3> QED  BY <1>i, <1>p, <2>1, <2>5, <3>1, <3>2
  <2> QED  BY <1>5, <2>2, <2>3, <2>4, <2>5, RunTimers
<1>6. CASE TimerTake
  <2>1. PICK S \in SUBSET {t \in Tasks : timer[t]} :
           /\ timer' = [t \in Tasks |-> timer[t] /\ t \notin S]
           /\ taken' = [t \in Tasks |->
                  IF t \in S THEN [ev |-> EventOf(op[t]), at |-> "cancel", cur |-> TRUE]
                  ELSE None]
    BY <1>6 DEF TimerTake
  <2>2. pc' = pc /\ op' = op
    BY <1>6 DEF TimerTake
  <2>3. ASSUME NEW u \in Tasks
        PROVE  /\ timer'[u] => pc'[u] \in Waiting /\ ~Current(u)'
               /\ Current(u)' => pc'[u] \in Waiting /\ taken'[u].ev = EventOf(op'[u])
    <3>1. CASE u \in S
      <4>1. ~timer'[u]
        BY <2>1, <3>1
      <4>2. pc[u] \in Waiting
        BY <1>i, <3>1
      <4>3. taken'[u].ev = EventOf(op[u])
        BY <2>1, <3>1
      <4> QED  BY <2>2, <4>1, <4>2, <4>3
    <3>2. CASE u \notin S
      <4>1. ~Current(u)'
        BY <2>1, <3>2 DEF Current
      <4>2. timer'[u] => timer[u]
        BY <2>1
      <4> QED  BY <1>i, <2>2, <4>1, <4>2
    <3> QED  BY <3>1, <3>2
  <2> QED  BY <1>p, <2>3
<1>7. ASSUME NEW t \in Tasks, CallbackCancel(t) \/ CallbackUpdate(t) \/ CallbackExpire(t)
      PROVE  TimerInv'
  <2>1. pc' = pc /\ op' = op /\ timer' = timer
    BY <1>7 DEF CallbackCancel, CallbackUpdate, CallbackExpire
  <2>2. /\ \A u \in Tasks \ {t} : taken'[u] = taken[u]
        /\ taken[t] # None
        /\ taken'[t] = None \/ (taken'[t].ev = taken[t].ev /\ taken'[t].cur = taken[t].cur)
    BY <1>7, CallbackMoves
  <2>3. \A u \in Tasks : Current(u)' => Current(u) /\ taken'[u].ev = taken[u].ev
    BY <2>2 DEF Current
  <2> QED  BY <1>i, <1>p, <2>1, <2>3
<1> QED
  BY <1>2, <1>3, <1>4, <1>5, <1>6, <1>7, Kinds DEF TakeOrCallback, TimerStep

LEMMA NewStep ==
    ASSUME TypeOK, FdInv, NewInv, TimerInv, Next
    PROVE  NewInv'
<1> SUFFICES ASSUME NEW u \in Tasks, pc'[u] = "new"  PROVE chan'[u].st = "NEW" /\ taken'[u] = None
  BY DEF NewInv
<1>1. CASE EpollWait \/ (\E f \in Fds : Trigger(f)) \/ (\E f \in Fds, e \in Reports : Arrival(f, e))
  BY <1>1 DEF EpollWait, Trigger, Arrival, timerVars, NewInv
<1>2. ASSUME NEW t \in Tasks, Resume(t) \/ RunStep(t) \/ UpdateHold(t) \/ Close(t) \/ Accept(t)
      PROVE  chan'[u].st = "NEW" /\ taken'[u] = None
  <2>1. u # t /\ pc[u] = "new"
    BY <1>2, Moves DEF Running
  <2>2. chan[u].st = "NEW" /\ taken[u] = None
    BY <2>1 DEF NewInv
  <2>3. chan'[u] = chan[u]
    <3>1. CASE Resume(t) \/ Accept(t)
      BY <3>1 DEF Resume, Accept
    <3>2. CASE RunStep(t) \/ UpdateHold(t) \/ Close(t)
      BY <2>1, <3>2, ChannelMoves
    <3> QED  BY <1>2, <3>1, <3>2
  <2>4. taken'[u] = taken[u]
    <3>1. CASE RunStep(t)
      BY <2>1, <3>1, RunTimers, LeaveEffect
    <3>2. CASE Resume(t) \/ UpdateHold(t) \/ Close(t) \/ Accept(t)
      BY <3>2 DEF Resume, UpdateHold, Close, Accept, timerVars
    <3> QED  BY <1>2, <3>1, <3>2
  <2> QED  BY <2>2, <2>3, <2>4
<1>3. CASE TakeOrCallback
  <2>1. pc[u] = "new"
    BY <1>3, Stays
  <2>2. chan[u].st = "NEW" /\ taken[u] = None /\ ~timer[u]
    BY <2>1 DEF NewInv, TimerInv
  <2>3. CASE TimerTake
    <3>1. chan' = chan /\ taken'[u] = None
      BY <2>2, <2>3 DEF TimerTake
    <3> QED  BY <2>2, <3>1
  <2>4. ASSUME NEW t \in Tasks, CallbackCancel(t) \/ CallbackUpdate(t) \/ CallbackExpire(t)
        PROVE  chan'[u].st = "NEW" /\ taken'[u] = None
    <3>1. u # t /\ taken'[u] = taken[u] /\ pc[t] # "new"
      BY <2>2, <2>4, CallbackMoves DEF NewInv
    <3>2. chan'[u] = chan[u]
      <4>1. CASE CallbackExpire(t)
        BY <4>1 DEF CallbackExpire
      <4>2. CASE CallbackCancel(t) \/ CallbackUpdate(t)
        BY <3>1, <4>2, ChannelMoves
      <4> QED  BY <2>4, <4>1, <4>2
    <3> QED  BY <2>2, <3>1, <3>2
  <2> QED  BY <1>3, <2>3, <2>4 DEF TakeOrCallback, TimerStep
<1> QED  BY <1>1, <1>2, <1>3, Kinds

LEMMA PendStep ==
    ASSUME TypeOK, FdInv, NewInv, PendInv, Next
    PROVE  PendInv'
<1> USE DEF kernelVars
<1>1. CASE interest' = interest /\ pend' = pend
  BY <1>1 DEF PendInv
<1>2. CASE EpollWait
  BY <1>2 DEF EpollWait, PendInv
<1>3. ASSUME NEW f \in Fds, NEW e \in Reports, Arrival(f, e)  PROVE PendInv'
  <2>1. /\ interest' = interest
        /\ pend'[f] => pend[f] \/ interest[f] # None
        /\ \A g \in Fds \ {f} : pend'[g] = pend[g]
    BY <1>3 DEF Arrival, TypeOK
  <2> QED  BY <2>1 DEF PendInv
<1>4. ASSUME NEW t \in Tasks, UpdateHold(t)  PROVE PendInv'
  BY <1>4, UpdateEffect DEF UpdateHold, At, FdInv
<1>5. ASSUME NEW t \in Tasks, CallbackUpdate(t)  PROVE PendInv'
  <2>1. fd[t] \in Fds
    BY <1>5, CallbackMoves DEF FdInv, NewInv
  <2> QED  BY <1>5, <2>1, UpdateEffect DEF CallbackUpdate
<1>6. ASSUME NEW t \in Tasks, Close(t)  PROVE PendInv'
  <2>1. \A g \in Fds : \/ ~pend'[g]
                       \/ pend'[g] = pend[g] /\ interest'[g] = interest[g]
    BY <1>6 DEF Close, TypeOK
  <2> QED  BY <2>1 DEF PendInv
<1>7. CASE \/ \E f \in Fds : Trigger(f)
           \/ TimerTake
           \/ \E t \in Tasks : CallbackCancel(t) \/ CallbackExpire(t)
           \/ \E t \in Tasks : Resume(t) \/ RunStep(t) \/ Accept(t)
  BY <1>1, <1>7 DEF Trigger, TimerTake, CallbackCancel, CallbackExpire, Resume, Accept, RunStep,
     Call, Connect, IoReturn, IoAgain, AddEvent, Woken, ConnectWoken, LeaveWait
<1> QED
  BY <1>2, <1>3, <1>4, <1>5, <1>6, <1>7, Kinds DEF TakeOrCallback, TimerStep

LEMMA BaseStep ==
    ASSUME TypeOK, BaseInv, Next
    PROVE  BaseInv'
<1>1. FdInv /\ NewInv /\ PendInv /\ CurInv /\ TimerInv
  BY DEF BaseInv
<1>2. FdInv' /\ CurInv' /\ TimerInv'
  BY <1>1, FdStep, CurStep, TimerInvStep
<1>3. NewInv' /\ PendInv'
  BY <1>1, NewStep, PendStep
<1> QED  BY <1>2, <1>3 DEF BaseInv

-----------------------------------------------------------------------------
(* Until a callback runs outside its wait.                                 *)

\* A callback of a step that did not race.
LEMMA InItsWait ==
    ASSUME NEW t \in Tasks, NEW a, Callback(t, a), ~raced'
    PROVE  pc[t] = "held" /\ CallbackAt(t, a) /\ ~raced
BY DEF Callback, CallbackAt, Current

\* The map, the registrations and the channels keep agreeing.
LEMMA MapStep ==
    ASSUME TypeOK, BaseInv, MapInv, ~asserted, Next, ~raced'
    PROVE  MapInv' /\ ~asserted'
<1> USE DEF kernelVars
<1>b. FdInv /\ NewInv
  BY DEF BaseInv
<1> DEFINE Mapped(u) == /\ UpdateAllowed(u)
                        /\ chan[u].st = "EXIST" => interest[fd[u]] # None /\ interest[fd[u]].ch = u
                        /\ chan[u].st # "EXIST" => interest[fd[u]] = None
<1>i. /\ \A u \in Tasks : Live(u) => Mapped(u)
      /\ \A f \in Fds : ~IsOpen(f) => channelMap[f] = None /\ interest[f] = None
  BY DEF MapInv
<1>p. ASSUME \A u \in Tasks : Live(u)' => Mapped(u)',
             \A f \in Fds : ~IsOpen(f)' => channelMap'[f] = None /\ interest'[f] = None
      PROVE  MapInv'
  BY <1>p DEF MapInv
\* Steps that change no state of a channel, and open and close nothing.
<1>1. ASSUME channelMap' = channelMap, interest' = interest, asserted' = asserted, fd' = fd,
             \A u \in Tasks : chan'[u].st = chan[u].st,
             \A u \in Tasks : Live(u)' <=> Live(u)
      PROVE  MapInv' /\ ~asserted'
  <2>1. \A f \in Fds : IsOpen(f)' <=> IsOpen(f)
    BY <1>1 DEF IsOpen, Live
  <2>2. ASSUME NEW u \in Tasks, Live(u)'  PROVE Mapped(u)'
    <3>1. Mapped(u)
      BY <1>1, <1>i, <2>2
    <3> QED  BY <1>1, <3>1 DEF UpdateAllowed
  <2> HIDE DEF Mapped
  <2> QED  BY <1>1, <1>i, <1>p, <2>1, <2>2
<1>2. CASE \/ EpollWait \/ (\E f \in Fds : Trigger(f)) \/ TimerTake
           \/ (\E f \in Fds, e \in Reports : Arrival(f, e)) \/ \E t \in Tasks : CallbackExpire(t)
  <2>1. UNCHANGED <<channelMap, interest, asserted, fd, chan, pc>>
    BY <1>2 DEF EpollWait, Trigger, TimerTake, Arrival, CallbackExpire
  <2> QED  BY <1>1, <2>1 DEF Live
<1>3. ASSUME NEW t \in Tasks, Resume(t) \/ RunStep(t)  PROVE MapInv' /\ ~asserted'
  <2>1. channelMap' = channelMap /\ interest' = interest /\ asserted' = asserted
    BY <1>3 DEF Resume, RunStep, Call, Connect, IoReturn, IoAgain, AddEvent, Woken, ConnectWoken,
       LeaveWait
  <2>2. \A u \in Tasks : chan'[u].st = chan[u].st
    <3>1. CASE Resume(t)
      BY <3>1 DEF Resume
    <3>2. CASE RunStep(t)
      BY <3>2, <1>b, ChannelMoves
    <3> QED  BY <1>3, <3>1, <3>2
  <2>3. fd' = fd /\ \A u \in Tasks : Live(u)' <=> Live(u)
    BY <1>3, Moves DEF Live, Running
  <2> QED  BY <1>1, <2>1, <2>2, <2>3
<1>4. ASSUME NEW t \in Tasks, CallbackCancel(t)  PROVE MapInv' /\ ~asserted'
  <2>1. UNCHANGED <<channelMap, interest, asserted, fd, pc>>
    BY <1>4 DEF CallbackCancel
  <2>2. \A u \in Tasks : chan'[u].st = chan[u].st
    BY <1>4, <1>b, ChannelMoves
  <2> QED  BY <1>1, <2>1, <2>2 DEF Live
\* updateChannel, by the task or by its callback.
<1>5. ASSUME NEW t \in Tasks, UpdateChannel(t), Live(t), Live(t)', fd' = fd,
             \A u \in Tasks \ {t} : Live(u)' <=> Live(u)
      PROVE  MapInv' /\ ~asserted'
  <2>1. fd[t] \in Fds /\ \A u \in Tasks \ {t} : Live(u) => fd[u] \in Fds /\ fd[u] # fd[t]
    BY <1>5, <1>b DEF FdInv, Live
  <2>2. /\ UpdateAllowed(t) /\ (chan[t].st = "EXIST" <=> interest[fd[t]] # None)
    BY <1>5, <1>i
  <2>3. /\ asserted' = asserted /\ channelMap'[fd[t]] = t
        /\ \/ chan'[t].st = "DISCARD" /\ interest'[fd[t]] = None
           \/ /\ chan'[t].st = "EXIST"
              /\ interest'[fd[t]] # None /\ interest'[fd[t]].ch = t
    BY <1>5, <2>1, <2>2, UpdateRegisters
  <2>4. /\ \A u \in Tasks \ {t} : chan'[u] = chan[u]
        /\ \A f \in Fds \ {fd[t]} : interest'[f] = interest[f] /\ channelMap'[f] = channelMap[f]
    BY <1>5, <2>1, UpdateEffect
  <2>5. Mapped(t)'
    BY <1>5, <2>3 DEF UpdateAllowed
  <2>6. ASSUME NEW u \in Tasks \ {t}, Live(u)'  PROVE Mapped(u)'
    <3>1. Mapped(u) /\ fd[u] \in Fds /\ fd[u] # fd[t] /\ fd'[u] = fd[u] /\ chan'[u] = chan[u]
      BY <1>5, <1>i, <2>1, <2>4, <2>6
    <3>2. interest'[fd[u]] = interest[fd[u]] /\ channelMap'[fd[u]] = channelMap[fd[u]]
      BY <2>4, <3>1
    <3> QED  BY <3>1, <3>2 DEF UpdateAllowed
  <2>7. ASSUME NEW f \in Fds, ~IsOpen(f)'  PROVE channelMap'[f] = None /\ interest'[f] = None
    <3>1. ~IsOpen(f) /\ f # fd[t]
      BY <1>5, <2>7 DEF IsOpen, Live
    <3> QED  BY <1>i, <2>4, <3>1
  <2> HIDE DEF Mapped
  <2> QED  BY <1>p, <2>3, <2>5, <2>6, <2>7
<1>6. ASSUME NEW t \in Tasks, UpdateHold(t)  PROVE MapInv' /\ ~asserted'
  <2>1. /\ Live(t) /\ Live(t)' /\ fd' = fd
        /\ \A u \in Tasks \ {t} : Live(u)' <=> Live(u)
    BY <1>6, Moves DEF Live
  <2> QED  BY <1>5, <1>6, <2>1 DEF UpdateHold
<1>7. ASSUME NEW t \in Tasks, CallbackUpdate(t)  PROVE MapInv' /\ ~asserted'
  <2>1. pc[t] = "held" /\ pc' = pc /\ fd' = fd
    BY <1>7, InItsWait DEF CallbackUpdate
  <2>2. Live(t) /\ \A u \in Tasks : Live(u)' <=> Live(u)
    BY <2>1 DEF Live
  <2> QED  BY <1>5, <1>7, <2>1, <2>2 DEF CallbackUpdate
\* A new socket finds its descriptor free in the map and in the kernel.
<1>8. ASSUME NEW t \in Tasks, Accept(t)  PROVE MapInv' /\ ~asserted'
  <2>1. UNCHANGED <<channelMap, interest, asserted, chan>>
    BY <1>8 DEF Accept
  <2>2. /\ pc[t] = "new" /\ fd'[t] \in Fds /\ ~IsOpen(fd'[t])
        /\ \A u \in Tasks \ {t} : (Live(u)' <=> Live(u)) /\ fd'[u] = fd[u]
    BY <1>8, Moves DEF Live
  <2>3. Mapped(t)'
    <3>1. chan[t].st = "NEW" /\ channelMap[fd'[t]] = None /\ interest[fd'[t]] = None
      BY <1>b, <1>i, <2>2 DEF NewInv
    <3> QED  BY <2>1, <3>1 DEF UpdateAllowed
  <2>4. ASSUME NEW u \in Tasks \ {t}, Live(u)'  PROVE Mapped(u)'
    <3>1. Mapped(u) /\ fd'[u] = fd[u]
      BY <1>i, <2>2, <2>4
    <3> QED  BY <2>1, <3>1 DEF UpdateAllowed
  <2>5. ASSUME NEW f \in Fds, ~IsOpen(f)'  PROVE ~IsOpen(f)
    <3> SUFFICES ASSUME NEW u \in Tasks, fd[u] = f, Live(u)  PROVE FALSE
      BY DEF IsOpen, Live
    <3>1. u # t /\ fd'[u] = f /\ Live(u)'
      BY <2>2 DEF Live
    <3> QED  BY <2>5, <3>1 DEF IsOpen, Live
  <2> HIDE DEF Mapped
  <2> QED  BY <1>i, <1>p, <2>1, <2>3, <2>4, <2>5
\* close leaves the descriptor free.
<1>9. ASSUME NEW t \in Tasks, Close(t)  PROVE MapInv' /\ ~asserted'
  <2>1. /\ fd' = fd /\ Live(t) /\ ~Live(t)'
        /\ \A u \in Tasks \ {t} : (Live(u)' <=> Live(u)) /\ chan'[u] = chan[u]
    BY <1>9, <1>b, Moves, ChannelMoves DEF Live
  <2>2. fd[t] \in Fds /\ \A u \in Tasks \ {t} : Live(u) => fd[u] \in Fds /\ fd[u] # fd[t]
    BY <1>b, <2>1 DEF FdInv, Live
  <2>3. Mapped(t)
    BY <1>i, <2>1
  <2>4. /\ channelMap'[fd[t]] = None /\ ~asserted'
        /\ \A f \in Fds \ {fd[t]} : channelMap'[f] = channelMap[f]
    <3>1. CASE channelMap[fd[t]] = t
      <4>1. chan[t].st # "NEW"
        BY <2>3, <3>1 DEF UpdateAllowed
      <4> QED  BY <1>9, <2>2, <3>1, <4>1 DEF Close, RemoveChannel, TypeOK
    <3>2. CASE channelMap[fd[t]] # t
      <4>1. channelMap[fd[t]] = None
        BY <2>3, <3>2 DEF UpdateAllowed
      <4> QED  BY <1>9, <3>2, <4>1 DEF Close
    <3> QED  BY <3>1, <3>2
  <2>5. /\ interest'[fd[t]] = None
        /\ \A f \in Fds \ {fd[t]} : interest'[f] = interest[f]
    BY <1>9, <2>2 DEF Close, TypeOK
  <2>6. ASSUME NEW u \in Tasks, Live(u)'  PROVE Mapped(u)'
    <3>1. u # t /\ Mapped(u) /\ fd[u] \in Fds /\ fd[u] # fd[t] /\ chan'[u] = chan[u]
      BY <1>i, <2>1, <2>2, <2>6
    <3>2. interest'[fd[u]] = interest[fd[u]] /\ channelMap'[fd[u]] = channelMap[fd[u]]
      BY <2>4, <2>5, <3>1
    <3> QED  BY <2>1, <3>1, <3>2 DEF UpdateAllowed
  <2>7. ASSUME NEW f \in Fds, ~IsOpen(f)', f # fd[t]  PROVE ~IsOpen(f)
    BY <2>1, <2>7 DEF IsOpen, Live
  <2> HIDE DEF Mapped
  <2> QED  BY <1>i, <1>p, <2>4, <2>5, <2>6, <2>7
<1> HIDE DEF Mapped
<1> QED
  BY <1>2, <1>3, <1>4, <1>6, <1>7, <1>8, <1>9, Kinds DEF TakeOrCallback, TimerStep

\* A wait and its callback.
LEMMA WaitStep ==
    ASSUME TypeOK, TypeOK', BaseInv, MapInv, WaitInv, HeldInv, Next, ~raced'
    PROVE  WaitInv' /\ HeldInv'
<1> USE DEF timerVars
<1>b. FdInv /\ NewInv /\ TimerInv
  BY DEF BaseInv
<1> DEFINE W(u) == pc[u] \in {"add", "update"} =>
                      ~expired[u] /\ (Current(u) => taken[u].at = "cancel")
           H(u) == /\ pc[u] = "update" => EventOf(op[u]) \in chan[u].ev
                   /\ pc[u] = "held" =>
                         IF expired[u] \/ CallbackAt(u, "expire")
                         THEN chan[u].ev = {} => chan[u].st = "DISCARD"
                         ELSE chan[u].st = "EXIST"
                   /\ pc[u] = "held" /\ expired[u] => ~timer[u] /\ taken[u] = None
           Same(u) == /\ pc'[u] = pc[u] /\ expired'[u] = expired[u] /\ taken'[u] = taken[u]
                      /\ chan'[u] = chan[u] /\ op'[u] = op[u] /\ timer'[u] = timer[u]
<1>i. \A u \in Tasks : W(u) /\ H(u)
  BY DEF WaitInv, HeldInv
<1>p. ASSUME \A u \in Tasks : W(u)' /\ H(u)'  PROVE WaitInv' /\ HeldInv'
  BY <1>p DEF WaitInv, HeldInv
<1>f. ASSUME NEW u \in Tasks, Same(u)  PROVE W(u)' /\ H(u)'
  BY <1>i, <1>f DEF Current, CallbackAt
<1>v. ASSUME NEW u \in Tasks, pc'[u] \notin {"add", "update", "held"}  PROVE W(u)' /\ H(u)'
  BY <1>v
<1>t. ASSUME NEW t \in Tasks, \A u \in Tasks \ {t} : Same(u), W(t)' /\ H(t)'
      PROVE  WaitInv' /\ HeldInv'
  <2> HIDE DEF W, H, Same
  <2> QED  BY <1>f, <1>p, <1>t
<1>1. CASE EpollWait \/ (\E f \in Fds : Trigger(f)) \/ (\E f \in Fds, e \in Reports : Arrival(f, e))
  <2>1. \A u \in Tasks : Same(u)
    BY <1>1 DEF EpollWait, Trigger, Arrival
  <2> HIDE DEF W, H, Same
  <2> QED  BY <1>f, <1>p, <2>1
<1>2. ASSUME NEW t \in Tasks, Resume(t) \/ Close(t) \/ Accept(t)  PROVE WaitInv' /\ HeldInv'
  <2>1. /\ \A u \in Tasks \ {t} : pc'[u] = pc[u]
        /\ pc'[t] \notin {"add", "update", "held"}
    BY <1>2, Moves
  <2>2. \A u \in Tasks \ {t} : chan'[u] = chan[u]
    <3>1. CASE Resume(t) \/ Accept(t)
      BY <3>1 DEF Resume, Accept
    <3>2. CASE Close(t)
      BY <1>b, <3>2, ChannelMoves
    <3> QED  BY <1>2, <3>1, <3>2
  <2>3. UNCHANGED <<expired, taken, op, timer>>
    BY <1>2 DEF Resume, Close, Accept
  <2>4. \A u \in Tasks \ {t} : Same(u)
    BY <2>1, <2>2, <2>3
  <2> HIDE DEF W, H, Same
  <2> QED  BY <1>t, <1>v, <2>1, <2>4
<1>3. ASSUME NEW t \in Tasks, RunStep(t)  PROVE WaitInv' /\ HeldInv'
  <2>1. \A u \in Tasks \ {t} : pc'[u] = pc[u] /\ chan'[u] = chan[u]
    BY <1>3, <1>b, Moves, ChannelMoves
  <2>2. \A u \in Tasks \ {t} : /\ expired'[u] = expired[u] /\ taken'[u] = taken[u]
                               /\ op'[u] = op[u] /\ timer'[u] = timer[u]
    BY <1>3, RunTimers, LeaveEffect
  <2>3. \A u \in Tasks \ {t} : Same(u)
    BY <2>1, <2>2
  <2>4. W(t)' /\ H(t)'
    <3>1. CASE pc[t] = "try" /\ pc'[t] = "add" /\ taken' = taken /\ ~expired'[t]
      <4>1. ~Current(t)
        BY <1>b, <3>1 DEF TimerInv
      <4>2. ~Current(t)'
        BY <3>1, <4>1 DEF Current
      <4> QED  BY <3>1, <4>2
    <3>2. CASE pc'[t] \in {"run", "try"}
      BY <1>v, <3>2
    <3>3. CASE /\ pc[t] = "add" /\ pc'[t] = "update" /\ AddEvent(t)
               /\ taken' = taken /\ expired' = expired /\ op' = op
      <4> DEFINE e == EventOf(op[t])
      <4>1. e \in Events
        BY DEF EventOf, Events
      <4>2. e \in chan'[t].ev
        <5>1. \/ e \in chan[t].ev /\ chan' = chan
              \/ chan' = WithTask(chan, t, e)
          BY <3>3 DEF AddEvent, WithTask
        <5>2. chan \in [Tasks -> ChannelType]
          BY DEF TypeOK, ChannelType
        <5> HIDE DEF e
        <5> QED  BY <4>1, <5>1, <5>2, SetTask
      <4>3. H(t)'
        BY <3>3, <4>2
      <4>4. W(t)'
        BY <1>i, <3>3 DEF Current
      <4> QED  BY <4>3, <4>4
    <3> HIDE DEF W, H
    <3> QED  BY <1>3, <3>1, <3>2, <3>3, RunTimers
  <2> HIDE DEF W, H, Same
  <2> QED  BY <1>t, <2>3, <2>4
\* updateChannel and CoHold: the event is registered.
<1>4. ASSUME NEW t \in Tasks, UpdateHold(t)  PROVE WaitInv' /\ HeldInv'
  <2>1. /\ pc[t] = "update" /\ pc'[t] = "held"
        /\ \A u \in Tasks \ {t} : pc'[u] = pc[u] /\ chan'[u] = chan[u]
    BY <1>4, <1>b, Moves, ChannelMoves
  <2>2. UNCHANGED <<expired, taken, op, timer>>
    BY <1>4 DEF UpdateHold
  <2>3. \A u \in Tasks \ {t} : Same(u)
    BY <2>1, <2>2
  <2>4. ~expired[t] /\ (Current(t) => taken[t].at = "cancel") /\ chan[t].ev # {}
    BY <1>i, <2>1
  <2>5. chan'[t].st = "EXIST"
    <3>1. Live(t) /\ fd[t] \in Fds /\ UpdateChannel(t)
      BY <1>4, <1>b, <2>1 DEF Live, FdInv, UpdateHold
    <3>2. UpdateAllowed(t) /\ (chan[t].st = "EXIST" <=> interest[fd[t]] # None)
      BY <3>1 DEF MapInv
    <3> QED  BY <2>4, <3>1, <3>2, UpdateRegisters
  <2>6. W(t)' /\ H(t)'
    BY <2>1, <2>2, <2>4, <2>5 DEF Current, CallbackAt
  <2> HIDE DEF W, H, Same
  <2> QED  BY <1>t, <2>3, <2>6
\* listExpiredCallback takes timers of waits that have not expired.
<1>5. CASE TimerTake
  <2>1. PICK S \in SUBSET {t \in Tasks : timer[t]} :
           /\ timer' = [t \in Tasks |-> timer[t] /\ t \notin S]
           /\ taken' = [t \in Tasks |->
                  IF t \in S THEN [ev |-> EventOf(op[t]), at |-> "cancel", cur |-> TRUE]
                  ELSE None]
    BY <1>5 DEF TimerTake
  <2>2. /\ \A u \in Tasks : taken[u] = None
        /\ UNCHANGED <<pc, expired, chan, op>>
    BY <1>5 DEF TimerTake
  <2>3. ASSUME NEW u \in Tasks, u \in S  PROVE W(u)' /\ H(u)'
    <3>1. timer[u] /\ taken'[u].at = "cancel"
      BY <2>1, <2>3
    <3>2. pc[u] = "held" => ~expired[u] /\ chan[u].st = "EXIST"
      BY <1>i, <2>2, <3>1 DEF CallbackAt, Current
    <3> QED  BY <1>i, <2>2, <3>1, <3>2 DEF CallbackAt
  <2>4. ASSUME NEW u \in Tasks, u \notin S  PROVE Same(u)
    BY <2>1, <2>2, <2>4 DEF TypeOK
  <2> HIDE DEF W, H, Same
  <2> QED  BY <1>f, <1>p, <2>3, <2>4
\* fdInfo->cancelEvent
<1>6. ASSUME NEW t \in Tasks, CallbackCancel(t)  PROVE WaitInv' /\ HeldInv'
  <2>1. pc[t] = "held" /\ CallbackAt(t, "cancel")
    BY <1>6, InItsWait DEF CallbackCancel
  <2>2. /\ \A u \in Tasks \ {t} : taken'[u] = taken[u] /\ chan'[u] = chan[u]
        /\ taken'[t].at = "update" /\ chan'[t].st = chan[t].st
    BY <1>6, <1>b, CallbackMoves, ChannelMoves
  <2>3. UNCHANGED <<pc, expired, op, timer>>
    BY <1>6 DEF CallbackCancel
  <2>4. \A u \in Tasks \ {t} : Same(u)
    BY <2>2, <2>3
  <2>5. ~expired[t] /\ chan[t].st = "EXIST"
    BY <1>i, <2>1 DEF CallbackAt, Current
  <2>6. W(t)' /\ H(t)'
    BY <2>1, <2>2, <2>3, <2>5 DEF CallbackAt
  <2> HIDE DEF W, H, Same
  <2> QED  BY <1>t, <2>4, <2>6
\* loop->updateChannel in the callback: without events, the channel is discarded.
<1>7. ASSUME NEW t \in Tasks, CallbackUpdate(t)  PROVE WaitInv' /\ HeldInv'
  <2>1. pc[t] = "held" /\ CallbackAt(t, "update")
    BY <1>7, InItsWait DEF CallbackUpdate
  <2>2. /\ \A u \in Tasks \ {t} : taken'[u] = taken[u] /\ chan'[u] = chan[u]
        /\ taken'[t].at = "expire" /\ taken'[t].cur = taken[t].cur
    BY <1>7, <1>b, <2>1, CallbackMoves, ChannelMoves
  <2>3. UNCHANGED <<pc, expired, op, timer>>
    BY <1>7 DEF CallbackUpdate
  <2>4. \A u \in Tasks \ {t} : Same(u)
    BY <2>2, <2>3
  <2>5. ~expired[t] /\ chan[t].st = "EXIST"
    BY <1>i, <2>1 DEF CallbackAt, Current
  <2>6. chan'[t].ev = {} => chan'[t].st = "DISCARD"
    <3>1. Live(t) /\ fd[t] \in Fds /\ UpdateChannel(t)
      BY <1>7, <1>b, <2>1 DEF Live, FdInv, CallbackUpdate
    <3>2. UpdateAllowed(t) /\ (chan[t].st = "EXIST" <=> interest[fd[t]] # None)
      BY <3>1 DEF MapInv
    <3>3. chan'[t].ev = chan[t].ev
      BY <3>1, UpdateEffect
    <3> QED  BY <2>5, <3>1, <3>2, <3>3, UpdateRegisters
  <2>7. taken'[t] # None
    BY <1>7, CallbackMoves
  <2>8. CallbackAt(t, "expire")'
    BY <2>1, <2>2, <2>7 DEF CallbackAt, Current
  <2>9. W(t)' /\ H(t)'
    BY <2>1, <2>3, <2>5, <2>6, <2>8
  <2> HIDE DEF W, H, Same
  <2> QED  BY <1>t, <2>4, <2>9
\* expired = true
<1>8. ASSUME NEW t \in Tasks, CallbackExpire(t)  PROVE WaitInv' /\ HeldInv'
  <2>1. pc[t] = "held" /\ CallbackAt(t, "expire")
    BY <1>8, InItsWait DEF CallbackExpire
  <2>2. (\A u \in Tasks \ {t} : taken'[u] = taken[u]) /\ taken'[t] = None
    BY <1>8, CallbackMoves
  <2>3. UNCHANGED <<pc, chan, op, timer>>
    BY <1>8 DEF CallbackExpire
  <2>4. expired'[t] /\ \A u \in Tasks \ {t} : expired'[u] = expired[u]
    <3>1. taken[t].cur
      BY <2>1 DEF CallbackAt, Current
    <3>2. expired' = [expired EXCEPT ![t] = TRUE]
      BY <1>8, <3>1 DEF CallbackExpire
    <3> QED  BY <3>2 DEF TypeOK
  <2>5. \A u \in Tasks \ {t} : Same(u)
    BY <2>2, <2>3, <2>4
  <2>6. chan[t].ev = {} => chan[t].st = "DISCARD"
    BY <1>i, <2>1
  <2>7. ~timer[t]
    BY <1>b, <2>1 DEF TimerInv, CallbackAt
  <2>8. W(t)' /\ H(t)'
    BY <2>1, <2>2, <2>3, <2>4, <2>6, <2>7
  <2> HIDE DEF W, H, Same
  <2> QED  BY <1>t, <2>5, <2>8
<1> HIDE DEF W, H, Same
<1> QED
  BY <1>1, <1>2, <1>3, <1>4, <1>5, <1>6, <1>7, <1>8, Kinds DEF TakeOrCallback, TimerStep

-----------------------------------------------------------------------------
(* The queue.                                                              *)

Unique == \A i, j \in 1..Len(queue) : queue[i] = queue[j] => i = j

LEMMA AppendQueue ==
    ASSUME queue \in Seq(Tasks), Unique, NEW t \in Tasks, ~InQueue(t),
           queue' = Append(queue, t)
    PROVE  Unique' /\ \A u : InQueue(u)' <=> InQueue(u) \/ u = t
<1> DEFINE n == Len(queue)
<1>1. /\ n \in Nat /\ Len(queue') = n + 1
      /\ queue'[n + 1] = t /\ \A i \in 1..n : queue'[i] = queue[i]
  OBVIOUS
<1>2. \A i \in 1..n : queue[i] # t
  BY DEF InQueue
<1>3. ASSUME NEW u  PROVE InQueue(u)' <=> InQueue(u) \/ u = t
  BY <1>1 DEF InQueue
<1>4. ASSUME NEW i \in 1..Len(queue'), NEW j \in 1..Len(queue'), queue'[i] = queue'[j]
      PROVE  i = j
  BY <1>1, <1>2, <1>4 DEF Unique
<1> QED  BY <1>3, <1>4 DEF Unique

LEMMA TailQueue ==
    ASSUME queue \in Seq(Tasks), queue # <<>>, Unique, queue' = Tail(queue)
    PROVE  Unique' /\ \A u : InQueue(u)' <=> InQueue(u) /\ u # Head(queue)
<1> DEFINE n == Len(queue)
<1>1. /\ n \in Nat /\ n >= 1 /\ Len(queue') = n - 1
      /\ queue[1] = Head(queue) /\ \A i \in 1..(n - 1) : queue'[i] = queue[i + 1]
  OBVIOUS
<1>2. ASSUME NEW i \in 1..(n - 1), NEW j \in 1..(n - 1), queue'[i] = queue'[j]
      PROVE  i = j
  <2>1. queue[i + 1] = queue[j + 1] /\ i + 1 \in 1..n /\ j + 1 \in 1..n
    BY <1>1, <1>2
  <2>2. i + 1 = j + 1
    BY <2>1 DEF Unique
  <2> QED  BY <1>1, <2>2
<1>3. ASSUME NEW u, InQueue(u)'  PROVE InQueue(u) /\ u # Head(queue)
  <2>1. PICK i \in 1..(n - 1) : queue'[i] = u
    BY <1>1, <1>3 DEF InQueue
  <2>2. queue[i + 1] = u /\ i + 1 \in 1..n /\ 1 \in 1..n /\ i + 1 # 1
    BY <1>1, <2>1
  <2>3. u # Head(queue)
    BY <1>1, <2>2 DEF Unique
  <2> QED  BY <2>2, <2>3 DEF InQueue
<1>4. ASSUME NEW u, InQueue(u), u # Head(queue)  PROVE InQueue(u)'
  <2>1. PICK i \in 1..n : queue[i] = u
    BY <1>4 DEF InQueue
  <2>2. i - 1 \in 1..(n - 1) /\ (i - 1) + 1 = i
    BY <1>1, <1>4, <2>1
  <2>3. queue'[i - 1] = u
    BY <1>1, <2>1, <2>2
  <2> QED  BY <1>1, <2>2, <2>3 DEF InQueue
<1> QED  BY <1>1, <1>2, <1>3, <1>4 DEF Unique

\* The queue and what epoll_wait returned name tasks that wait, each once.
LEMMA QueueStep ==
    ASSUME TypeOK, BaseInv, MapInv, QueueInv, Next
    PROVE  QueueInv'
<1>b. FdInv /\ CurInv /\ PendInv
  BY DEF BaseInv
<1> DEFINE Batch == \A f \in Fds : batch[f] # None =>
                       /\ fd[batch[f].ch] = f
                       /\ pc[batch[f].ch] = "held"
                       /\ ~InQueue(batch[f].ch)
<1>i. /\ Unique
      /\ \A u \in Tasks : pc[u] = "ready" => InQueue(u)
      /\ \A u \in Tasks : InQueue(u) => pc[u] \in {"ready", "held"}
      /\ Batch
  BY DEF QueueInv, Unique
<1>p. ASSUME Unique', \A u \in Tasks : pc'[u] = "ready" => InQueue(u)',
             \A u \in Tasks : InQueue(u)' => pc'[u] \in {"ready", "held"}, Batch'
      PROVE  QueueInv'
  BY <1>p DEF QueueInv, Unique
<1>q. queue \in Seq(Tasks) /\ \A f \in Fds : batch[f] # None => batch[f].ch \in Tasks
  BY DEF TypeOK
<1>u. ASSUME queue' = queue  PROVE (Unique' <=> Unique) /\ \A u : InQueue(u)' <=> InQueue(u)
  BY <1>u DEF Unique, InQueue
\* A step of a task that is in nobody's hands.
<1>1. ASSUME NEW t \in Tasks, queue' = queue, batch' = batch, fd' = fd,
             \A u \in Tasks \ {t} : pc'[u] = pc[u],
             pc[t] \notin {"ready", "held"}, pc'[t] # "ready"
      PROVE  QueueInv'
  <2>1. Batch'
    BY <1>1, <1>i, <1>q, <1>u
  <2> HIDE DEF Batch
  <2> QED  BY <1>1, <1>i, <1>p, <1>u, <2>1
<1>2. ASSUME NEW t \in Tasks, RunStep(t) \/ UpdateHold(t) \/ Close(t)  PROVE QueueInv'
  <2>1. queue' = queue /\ batch' = batch
    BY <1>2 DEF RunStep, Call, Connect, IoReturn, IoAgain, AddEvent, Woken, ConnectWoken, LeaveWait,
       UpdateHold, Close, loopVars
  <2>2. /\ fd' = fd /\ \A u \in Tasks \ {t} : pc'[u] = pc[u]
        /\ pc[t] \notin {"ready", "held"} /\ pc'[t] # "ready"
    BY <1>2, Moves DEF Running
  <2> QED  BY <1>1, <2>1, <2>2
<1>3. ASSUME queue' = queue, batch' = batch, fd' = fd, pc' = pc  PROVE QueueInv'
  <2>1. Batch'
    BY <1>3, <1>i, <1>u
  <2> HIDE DEF Batch
  <2> QED  BY <1>3, <1>i, <1>p, <1>u, <2>1
<1>4. CASE TakeOrCallback \/ \E f \in Fds, e \in Reports : Arrival(f, e)
  <2>1. queue' = queue /\ batch' = batch
    BY <1>4 DEF TakeOrCallback, TimerStep, TimerTake, CallbackCancel, CallbackUpdate, CallbackExpire,
       Arrival, loopVars
  <2> QED  BY <1>3, <1>4, <2>1, Stays
<1>5. ASSUME NEW t \in Tasks, Accept(t)  PROVE QueueInv'
  <2>1. /\ pc[t] = "new" /\ pc'[t] = "ready"
        /\ \A u \in Tasks \ {t} : pc'[u] = pc[u] /\ fd'[u] = fd[u]
    BY <1>5, Moves
  <2>2. queue' = Append(queue, t) /\ batch' = batch
    BY <1>5 DEF Accept
  <2>3. ~InQueue(t)
    BY <1>i, <2>1
  <2>4. Unique' /\ \A u : InQueue(u)' <=> InQueue(u) \/ u = t
    BY <1>i, <1>q, <2>2, <2>3, AppendQueue
  <2>5. Batch'
    BY <1>i, <1>q, <2>1, <2>2, <2>4
  <2> HIDE DEF Batch
  <2> QED  BY <1>i, <1>p, <2>1, <2>4, <2>5
<1>6. ASSUME NEW t \in Tasks, Resume(t)  PROVE QueueInv'
  <2>1. /\ pc'[t] \notin {"ready", "held"}
        /\ \A u \in Tasks \ {t} : pc'[u] = pc[u]
    BY <1>6, Moves
  <2>2. /\ queue # <<>> /\ t = Head(queue) /\ queue' = Tail(queue)
        /\ batch' = batch /\ \A f \in Fds : batch[f] = None
    BY <1>6 DEF Resume, Polling
  <2>3. Unique' /\ \A u : InQueue(u)' <=> InQueue(u) /\ u # t
    BY <1>i, <1>q, <2>2, TailQueue
  <2>4. Batch'
    BY <2>2
  <2> HIDE DEF Batch
  <2> QED  BY <1>i, <1>p, <2>1, <2>3, <2>4
<1>7. ASSUME NEW f \in Fds, Trigger(f)  PROVE QueueInv'
  <2> DEFINE c == batch[f].ch
  <2>1. /\ batch[f] # None /\ c \in Tasks /\ fd[c] = f /\ pc[c] = "held" /\ ~InQueue(c)
    BY <1>7, <1>i, <1>q DEF Trigger
  <2>2. /\ batch'[f] = None /\ \A g \in Fds \ {f} : batch'[g] = batch[g]
    BY <1>7 DEF Trigger, TypeOK
  <2>3. pc' = pc /\ fd' = fd
    BY <1>7, Stays
  <2>4. TriggerWakes(c, batch[f].ops) = <<c>> \/ TriggerWakes(c, batch[f].ops) = <<>>
    BY DEF TriggerWakes
  <2>5. queue' = queue \o TriggerWakes(c, batch[f].ops)
    BY <1>7 DEF Trigger
  <2> HIDE DEF c
  <2>6. queue' = queue \/ queue' = Append(queue, c)
    <3>1. queue \o <<c>> = Append(queue, c)
      BY <1>q, <2>1
    <3>2. queue \o <<>> = queue
      BY <1>q
    <3> QED  BY <2>4, <2>5, <3>1, <3>2
  <2>7. Unique' /\ \A u : (InQueue(u)' => InQueue(u) \/ u = c) /\ (InQueue(u) => InQueue(u)')
    <3>1. CASE queue' = queue
      BY <1>i, <1>u, <3>1
    <3>2. CASE queue' = Append(queue, c)
      BY <1>i, <1>q, <2>1, <3>2, AppendQueue
    <3> QED  BY <2>6, <3>1, <3>2
  <2>8. Batch'
    <3> SUFFICES ASSUME NEW g \in Fds, batch'[g] # None
                 PROVE  /\ fd[batch'[g].ch] = g
                        /\ pc[batch'[g].ch] = "held"
                        /\ ~InQueue(batch[g].ch)'
      BY <2>3
    <3>1. g # f /\ batch'[g] = batch[g]
      BY <2>2
    <3>2. fd[batch[g].ch] = g /\ pc[batch[g].ch] = "held" /\ ~InQueue(batch[g].ch)
      BY <1>i, <3>1
    <3>3. batch[g].ch # c
      BY <2>1, <3>1, <3>2
    <3> QED  BY <2>7, <3>1, <3>2, <3>3
  <2> HIDE DEF Batch
  <2> QED  BY <1>i, <1>p, <2>1, <2>3, <2>7, <2>8
\* With nothing to run, a registered channel is that of a task that waits.
<1>8. CASE EpollWait
  <2>1. /\ cur = None /\ queue = <<>> /\ queue' = queue
    BY <1>8 DEF EpollWait
  <2>2. pc' = pc /\ fd' = fd
    BY <1>8, Stays
  <2>3. \A u : ~InQueue(u)
    BY <2>1 DEF InQueue
  <2>4. ASSUME NEW f \in Fds, batch'[f] # None
        PROVE  /\ fd[batch'[f].ch] = f
               /\ pc[batch'[f].ch] = "held"
    <3>1. pend[f] /\ batch'[f].ch = interest[f].ch
      BY <1>8, <2>4 DEF EpollWait
    <3>2. interest[f] # None
      BY <1>b, <3>1 DEF PendInv
    <3>3. IsOpen(f)
      BY <3>2 DEF MapInv
    <3>4. PICK u \in Tasks : fd[u] = f /\ Live(u)
      BY <3>3 DEF IsOpen, Live
    <3>5. interest[f].ch = u
      BY <3>2, <3>4 DEF MapInv
    <3>6. pc[u] \notin {"run", "try", "add", "update", "woken"}
      BY <1>b, <2>1 DEF CurInv
    <3>7. pc[u] = "held"
      BY <1>i, <2>3, <3>4, <3>6 DEF Live, TypeOK, PCs
    <3> QED  BY <3>1, <3>4, <3>5, <3>7
  <2>5. Batch'
    BY <1>u, <2>1, <2>2, <2>3, <2>4
  <2> HIDE DEF Batch
  <2> QED  BY <1>i, <1>p, <1>u, <2>1, <2>2, <2>5
<1> HIDE DEF Batch
<1> QED  BY <1>2, <1>4, <1>5, <1>6, <1>7, <1>8, Kinds

-----------------------------------------------------------------------------
(* The theorems.                                                           *)

Inv == TypeOK /\ BaseInv /\ UnracedInv

LEMMA InvInit ==
    ASSUME Init
    PROVE  Inv
<1> USE DEF Init
<1>1. TypeOK
  <2>1. NewChannel \in ChannelType
    BY DEF NewChannel, ChannelType, ChannelState
  <2>2. chan \in [Tasks -> ChannelType]
    BY <2>1
  <2>3. /\ pc \in [Tasks -> PCs] /\ cur \in Tasks \cup {None} /\ queue \in Seq(Tasks)
        /\ batch \in [Fds -> [ch : Tasks, ops : SUBSET Reports] \cup {None}]
        /\ op \in [Tasks -> Ops \cup {None}] /\ fd \in [Tasks -> 0..MaxFd]
        /\ channelMap \in [Fds -> Tasks \cup {None}]
        /\ interest \in [Fds -> Registrations \cup {None}]
        /\ rdy \in [Fds -> SUBSET Reports]
        /\ taken \in [Tasks -> Callbacks \cup {None}]
    BY DEF PCs
  <2>4. /\ pend \in [Fds -> BOOLEAN] /\ timer \in [Tasks -> BOOLEAN]
        /\ expired \in [Tasks -> BOOLEAN] /\ raced \in BOOLEAN /\ asserted \in BOOLEAN
    OBVIOUS
  <2> QED  BY <2>2, <2>3, <2>4, Zenon DEF TypeOK, ChannelType
<1>2. FdInv /\ PendInv /\ CurInv
  BY DEF FdInv, PendInv, CurInv, Live
<1>3. NewInv /\ TimerInv
  BY DEF NewInv, NewChannel, TimerInv, Current
<1>4. MapInv
  BY DEF MapInv, Live
<1>5. WaitInv /\ HeldInv
  BY DEF WaitInv, HeldInv
<1>6. QueueInv
  BY DEF QueueInv, InQueue
<1> QED  BY <1>1, <1>2, <1>3, <1>4, <1>5, <1>6 DEF Inv, BaseInv, UnracedInv

LEMMA RacedStays ==
    ASSUME Next, raced
    PROVE  raced'
BY DEF Next, LoopStep, TaskStep, TimerStep, EpollWait, Trigger, Resume, Call, Connect, IoReturn,
   IoAgain, AddEvent, UpdateHold, Woken, ConnectWoken, LeaveWait, Close, CallbackCancel,
   CallbackUpdate, CallbackExpire, Callback, TimerTake, Accept, Arrival, timerVars

LEMMA InvStep ==
    ASSUME Inv, [Next]_vars
    PROVE  Inv'
<1>1. CASE Next
  <2>1. TypeOK /\ BaseInv /\ UnracedInv
    BY DEF Inv
  <2>2. TypeOK' /\ BaseInv'
    BY <1>1, <2>1, TypesStep, BaseStep
  <2>3. UnracedInv'
    <3> SUFFICES ASSUME ~raced'  PROVE UnracedInv'
      BY DEF UnracedInv
    <3>1. ~asserted /\ MapInv /\ WaitInv /\ HeldInv /\ QueueInv
      BY <1>1, <2>1, RacedStays DEF UnracedInv
    <3>2. MapInv' /\ ~asserted'
      BY <1>1, <2>1, <3>1, MapStep
    <3>3. WaitInv' /\ HeldInv'
      BY <1>1, <2>1, <2>2, <3>1, WaitStep
    <3>4. QueueInv'
      BY <1>1, <2>1, <3>1, QueueStep
    <3> QED  BY <3>2, <3>3, <3>4 DEF UnracedInv
  <2> QED  BY <2>2, <2>3 DEF Inv
<1>2. CASE UNCHANGED vars
  <2> USE <1>2 DEF vars, loopVars, kernelVars, timerVars
  <2>1. TypeOK'
    BY DEF Inv, TypeOK
  <2>2. BaseInv'
    BY DEF Inv, BaseInv, FdInv, NewInv, PendInv, CurInv, TimerInv, Live, Current
  <2>3. raced' = raced /\ asserted' = asserted
    OBVIOUS
  <2>4. MapInv => MapInv'
    BY DEF MapInv, Live, UpdateAllowed, IsOpen
  <2>5. WaitInv /\ HeldInv => WaitInv' /\ HeldInv'
    BY DEF WaitInv, HeldInv, Current, CallbackAt
  <2>6. QueueInv => QueueInv'
    BY DEF QueueInv, InQueue
  <2>7. UnracedInv'
    BY <2>3, <2>4, <2>5, <2>6 DEF Inv, UnracedInv
  <2> QED  BY <2>1, <2>2, <2>7 DEF Inv
<1> QED  BY <1>1, <1>2

LEMMA InvHolds == SafetySpec => []Inv
<1>1. Init => Inv
  BY InvInit
<1>2. Inv /\ [Next]_vars => Inv'
  BY InvStep
<1> QED  BY <1>1, <1>2, PTL DEF SafetySpec

\* Every variable has its type, also after a callback has run outside the wait
\* it belongs to.
THEOREM IoTypes == SafetySpec => []TypeOK
<1>1. Inv => TypeOK
  BY DEF Inv
<1> QED  BY <1>1, InvHolds, PTL

\* No ASSERT of updateChannel or removeChannel fails before a timeout callback
\* runs outside the wait it belongs to, however descriptors are reused.
THEOREM AssertionsHold == SafetySpec => []PollerAssertions
<1>1. Inv => PollerAssertions
  BY DEF Inv, UnracedInv, PollerAssertions
<1> QED  BY <1>1, InvHolds, PTL

\* A wait is answered by at most one wake-up, and wake-ups are for tasks that
\* wait.
THEOREM OneWakeUp == SafetySpec => []WokenOnce
<1>1. Inv => WokenOnce
  <2> SUFFICES ASSUME Inv, ~raced  PROVE WokenOnce
    BY DEF WokenOnce
  <2>1. TypeOK /\ CurInv /\ QueueInv
    BY DEF Inv, BaseInv, UnracedInv
  <2>2. \A i \in 1..Len(queue) : queue[i] \in Tasks /\ InQueue(queue[i])
    BY <2>1 DEF TypeOK, InQueue
  <2>3. \A i \in 1..Len(queue) : pc[queue[i]] \in {"ready", "held"} /\ queue[i] # cur
    BY <2>1, <2>2 DEF QueueInv, CurInv
  <2> QED  BY <2>1, <2>3 DEF WokenOnce, QueueInv, InQueue
<1> QED  BY <1>1, InvHolds, PTL

\* A wait that timed out with no wake-up in the queue or in the poller's batch
\* has nothing left that could end it: no registration, no timer, no callback.
NoWakeUpLeft ==
    raced \/
    \A t \in {u \in Tasks : pc[u] = "held" /\ expired[u] /\ chan[u].ev = {}} :
        \/ batch[fd[t]] # None \/ \E i \in 1..Len(queue) : queue[i] = t
        \/ interest[fd[t]] = None /\ ~timer[t] /\ taken[t] = None

\* Why TimeoutReturns fails, for any number of tasks: the callback of do_io and
\* connect ends the registration and wakes nobody.
THEOREM TimedOutStranded == SafetySpec => []NoWakeUpLeft
<1>1. Inv => NoWakeUpLeft
  <2> SUFFICES ASSUME Inv, ~raced, NEW t \in Tasks, pc[t] = "held", expired[t], chan[t].ev = {}
               PROVE  interest[fd[t]] = None /\ ~timer[t] /\ taken[t] = None
    BY DEF NoWakeUpLeft
  <2>1. MapInv /\ HeldInv
    BY DEF Inv, UnracedInv
  <2>2. chan[t].st = "DISCARD" /\ ~timer[t] /\ taken[t] = None
    BY <2>1 DEF HeldInv
  <2>3. interest[fd[t]] = None
    BY <2>1, <2>2 DEF MapInv, Live
  <2> QED  BY <2>2, <2>3
<1> QED  BY <1>1, InvHolds, PTL
=============================================================================
