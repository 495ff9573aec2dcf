-------------------------- MODULE ProcessorProofs --------------------------
(***************************************************************************)
(* Proofs about module Processor, for any set of tasks and threads.        *)
(***************************************************************************)
EXTENDS Processor, TLAPS

USE ProcessorAssumption

-----------------------------------------------------------------------------
(* Facts about the queues.                                                 *)

\* Appending a task that is not queued keeps the entries distinct.
LEMMA AppendElements ==
    ASSUME NEW q \in Seq(Tasks), NEW t \in Tasks
    PROVE  /\ Append(q, t) \in Seq(Tasks)
           /\ Elements(Append(q, t)) = Elements(q) \cup {t}
           /\ Injective(q) /\ t \notin Elements(q) => Injective(Append(q, t))
<1>1. /\ Append(q, t) \in Seq(Tasks)
      /\ Len(Append(q, t)) = Len(q) + 1
      /\ \A i \in 1..Len(q) : Append(q, t)[i] = q[i]
      /\ Append(q, t)[Len(q) + 1] = t
      /\ Len(q) \in Nat
  OBVIOUS
<1>2. Elements(Append(q, t)) = Elements(q) \cup {t}
  BY <1>1 DEF Elements
<1>3. Injective(q) /\ t \notin Elements(q) => Injective(Append(q, t))
  BY <1>1 DEF Elements, Injective
<1> QED  BY <1>1, <1>2, <1>3

\* Taking the head of a queue with distinct entries removes exactly that task.
LEMMA TailElements ==
    ASSUME NEW q \in Seq(Tasks), q # <<>>, Injective(q)
    PROVE  /\ Head(q) \in Elements(q)
           /\ Head(q) \in Tasks
           /\ Tail(q) \in Seq(Tasks)
           /\ Elements(Tail(q)) = Elements(q) \ {Head(q)}
           /\ Injective(Tail(q))
<1>1. /\ Len(q) \in Nat /\ Len(q) > 0
      /\ Head(q) = q[1] /\ Head(q) \in Tasks
      /\ Tail(q) \in Seq(Tasks)
      /\ Len(Tail(q)) = Len(q) - 1
      /\ \A i \in 1..(Len(q) - 1) : Tail(q)[i] = q[i + 1]
  OBVIOUS
<1>2. Elements(Tail(q)) = Elements(q) \ {Head(q)}
  <2>1. ASSUME NEW x \in Elements(Tail(q))  PROVE x \in Elements(q) \ {Head(q)}
    <3>1. PICK i \in 1..(Len(q) - 1) : x = q[i + 1]
      BY <1>1 DEF Elements
    <3>2. i + 1 \in 1..Len(q) /\ i + 1 # 1 /\ 1 \in 1..Len(q)
      BY <1>1
    <3> QED  BY <1>1, <3>1, <3>2 DEF Elements, Injective
  <2>2. ASSUME NEW x \in Elements(q) \ {Head(q)}  PROVE x \in Elements(Tail(q))
    <3>1. PICK i \in 1..Len(q) : x = q[i]
      BY DEF Elements
    <3>2. i # 1 /\ i - 1 \in 1..(Len(q) - 1) /\ Tail(q)[i - 1] = x
      BY <1>1, <3>1
    <3> QED  BY <1>1, <3>2 DEF Elements
  <2> QED  BY <2>1, <2>2
<1>3. Injective(Tail(q))
  BY <1>1 DEF Injective
<1>4. Head(q) \in Elements(q)
  BY <1>1 DEF Elements
<1> QED  BY <1>1, <1>2, <1>3, <1>4

\* LFQueue::concatenate seen as sequence concatenation.
LEMMA ConcatElements ==
    ASSUME NEW q \in Seq(Tasks), NEW r \in Seq(Tasks),
           Injective(q), Injective(r), Elements(q) \cap Elements(r) = {}
    PROVE  /\ q \o r \in Seq(Tasks)
           /\ Elements(q \o r) = Elements(q) \cup Elements(r)
           /\ Injective(q \o r)
<1>1. /\ q \o r \in Seq(Tasks)
      /\ Len(q) \in Nat /\ Len(r) \in Nat
      /\ Len(q \o r) = Len(q) + Len(r)
      /\ \A i \in 1..Len(q) : (q \o r)[i] = q[i]
      /\ \A i \in 1..Len(r) : (q \o r)[Len(q) + i] = r[i]
  OBVIOUS
<1>2. \A i \in 1..Len(q \o r) :
          \/ i \in 1..Len(q)
          \/ i - Len(q) \in 1..Len(r) /\ i = Len(q) + (i - Len(q))
  BY <1>1
<1>3. \A i \in 1..Len(r) : Len(q) + i \in 1..Len(q \o r)
  BY <1>1
<1>4. \A i \in 1..Len(q \o r) :
         \/ i \in 1..Len(q) /\ (q \o r)[i] = q[i] /\ (q \o r)[i] \in Elements(q)
         \/ /\ i - Len(q) \in 1..Len(r)
            /\ (q \o r)[i] = r[i - Len(q)]
            /\ (q \o r)[i] \in Elements(r)
  BY <1>1, <1>2 DEF Elements
<1>5. Elements(q \o r) = Elements(q) \cup Elements(r)
  <2>1. Elements(q \o r) \subseteq Elements(q) \cup Elements(r)
    BY <1>4 DEF Elements
  <2>2. Elements(q) \subseteq Elements(q \o r)
    BY <1>1 DEF Elements
  <2>3. Elements(r) \subseteq Elements(q \o r)
    BY <1>1, <1>3 DEF Elements
  <2> QED  BY <2>1, <2>2, <2>3
<1>6. Injective(q \o r)
  <2> SUFFICES ASSUME NEW i \in 1..Len(q \o r), NEW j \in 1..Len(q \o r),
                      (q \o r)[i] = (q \o r)[j]
               PROVE  i = j
    BY DEF Injective
  <2>1. CASE i \in 1..Len(q) /\ j \in 1..Len(q)
    BY <1>1, <2>1 DEF Injective
  <2>2. CASE i - Len(q) \in 1..Len(r) /\ j - Len(q) \in 1..Len(r)
    <3>1. r[i - Len(q)] = r[j - Len(q)]
      BY <1>1, <1>2, <2>2
    <3> QED  BY <1>1, <2>2, <3>1 DEF Injective
  <2> QED  BY <1>4, <2>1, <2>2
<1> QED  BY <1>1, <1>5, <1>6

\* The empty queue.
LEMMA EmptyElements == <<>> \in Seq(Tasks) /\ Elements(<<>>) = {} /\ Injective(<<>>)
BY DEF Elements, Injective

\* What getNextTask does to the two queues: it takes at most one task out,
\* keeps all others, and comes back empty-handed only if it saw no task.
LEMMA GetNextTaskEffect ==
    ASSUME NEW q \in Seq(Tasks), NEW flag \in BOOLEAN,
           newQueue \in Seq(Tasks), Injective(q), Injective(newQueue),
           Elements(newQueue) \cap Elements(q) = {},
           GetNextTask(q, flag)
    PROVE  /\ newQueue' \in Seq(Tasks)
           /\ runableQueue' \in Seq(Tasks)
           /\ curTask' \in Tasks \cup {NoTask}
           /\ Injective(newQueue') /\ Injective(runableQueue')
           /\ Elements(newQueue') \cap Elements(runableQueue') = {}
           /\ Elements(newQueue') \cup Elements(runableQueue')
                 = (Elements(newQueue) \cup Elements(q)) \ {curTask'}
           /\ \/ curTask' = NoTask
              \/ curTask' \in Elements(newQueue) \cup Elements(q)
           /\ curTask' = NoTask => runableQueue' = <<>>
           /\ curTask' = NoTask /\ flag => newQueue' = <<>>
<1> DEFINE avail == IF AddsNew(q, flag) THEN newQueue ELSE q
           rest == IF AddsNew(q, flag) THEN q ELSE newQueue
<1>1. /\ avail \in Seq(Tasks) /\ Injective(avail)
      /\ Elements(newQueue) \cup Elements(q) = Elements(avail) \cup Elements(rest)
      /\ Elements(avail) \cap Elements(rest) = {}
      /\ Injective(rest) /\ rest \in Seq(Tasks)
      /\ newQueue' = rest
  BY DEF GetNextTask, AddsNew
<1>2. /\ curTask' = IF avail = <<>> THEN NoTask ELSE Head(avail)
      /\ runableQueue' = IF avail = <<>> THEN <<>> ELSE Tail(avail)
  BY DEF GetNextTask
<1>3. CASE avail = <<>>
  <2>1. curTask' = NoTask /\ runableQueue' = <<>> /\ newQueue' = rest
    BY <1>1, <1>2, <1>3
  <2>2. NoTask \notin Elements(rest)
    BY <1>1 DEF Elements
  <2>3. flag => newQueue' = <<>>
    BY <1>1, <1>3 DEF AddsNew
  <2> HIDE DEF avail, rest
  <2>4. (Elements(avail) \cup Elements(rest)) \ {curTask'} = Elements(rest)
    BY <1>3, <2>1, <2>2, EmptyElements
  <2> QED  BY <1>1, <1>3, <2>1, <2>3, <2>4, EmptyElements
<1>4. CASE avail # <<>>
  <2> HIDE DEF avail, rest
  <2>1. curTask' = Head(avail) /\ runableQueue' = Tail(avail) /\ newQueue' = rest
    BY <1>1, <1>2, <1>4
  <2>2. /\ Head(avail) \in Elements(avail) /\ Head(avail) \in Tasks
        /\ Tail(avail) \in Seq(Tasks) /\ Injective(Tail(avail))
        /\ Elements(Tail(avail)) = Elements(avail) \ {Head(avail)}
    BY <1>1, <1>4, TailElements
  <2> QED  BY <1>1, <2>1, <2>2
<1> QED  BY <1>3, <1>4

-----------------------------------------------------------------------------
(* The inductive invariant, in three parts.                                *)

\* Where m_curTask is set.  Past the first look of run() at m_started the flag
\* is set, so the inner loop is left only without a task in hand.
CurInv ==
    /\ pc \in {"loop", "fetch", "idle", "wait", "collect", "done"} => curTask = NoTask
    /\ pc \in {"exec", "registered", "settle"} => curTask # NoTask
    /\ pc \notin {"loop", "done"} => started

\* Why a wakeup is not lost: from the last look at m_newQueue on, whoever
\* queues a task either still has its tickle to come or has left m_notified
\* set.
ParkInv ==
    /\ idled <=> pc = "wait"
    /\ signalled => pc = "wait"
    /\ pc \in {"idle", "wait"} => runableQueue = <<>>
    /\ pc = "idle" /\ ~notified => newQueue = <<>> \/ tickling # {}
    /\ pc = "wait" /\ ~signalled => newQueue = <<>> \/ tickling # {}

\* The task on the processor is alive until it swaps out.
ClaimInv ==
    /\ OneClaimPerTask
    /\ curTask # NoTask => state[curTask] # "NONE"
    /\ curTask # NoTask /\ pc # "settle" => state[curTask] \in {"READY", "HOLD"}

-----------------------------------------------------------------------------
(* Type correctness needs only the first part.                             *)

LEMMA TypeInduction ==
    ASSUME TypeOK, CurInv, [Next]_vars  PROVE TypeOK' /\ CurInv'
<1> USE DEF TypeOK, CurInv, queueVars, parkVars
<1>1. ASSUME NEW c \in Callers, NEW t \in Tasks, CreateTask(c, t)
      PROVE  TypeOK' /\ CurInv'
  BY <1>1, AppendElements DEF CreateTask, Enqueue, TaskState
<1>2. ASSUME NEW c \in Threads, NEW t \in Tasks, WakeupTask(c, t)
      PROVE  TypeOK' /\ CurInv'
  BY <1>2, AppendElements DEF WakeupTask, Enqueue, Callers
<1>3. CASE StartScheduler
  BY <1>3 DEF StartScheduler
<1>4. ASSUME NEW c \in Callers, Tickle(c)  PROVE TypeOK' /\ CurInv'
  BY <1>4 DEF Tickle
<1>5. CASE LoopStopping
  BY <1>5 DEF LoopStopping, PCs
<1>6. CASE Fetch
  BY <1>6 DEF Fetch, PCs, GetNextTask, AddsNew
<1>7. CASE Idle
  BY <1>7 DEF Idle, PCs
<1>8. CASE Awake \/ SpuriousWakeup
  BY <1>8 DEF Awake, SpuriousWakeup, LeaveWait, PCs
<1>9. CASE Collect
  BY <1>9 DEF Collect, PCs
<1>10. CASE SwapIn
  BY <1>10 DEF SwapIn, PCs
<1>11. CASE Settle
  <2>1. curTask \in Tasks /\ pc' = "inner"
    BY <1>11 DEF Settle
  <2> DEFINE q == IF state[curTask] = "READY"
                  THEN Append(runableQueue, curTask) ELSE runableQueue
  <2>2. q \in Seq(Tasks)
    BY <2>1
  <2>3. /\ newQueue' \in Seq(Tasks) /\ runableQueue' \in Seq(Tasks)
        /\ curTask' \in Tasks \cup {NoTask} /\ addNewRemain' \in {0, 1}
    <3> HIDE DEF q
    <3>1. GetNextTask(q, FALSE) /\ addNewRemain' = IF AddsNew(q, FALSE) THEN addNewRemain - 1 ELSE addNewRemain
      BY <1>11 DEF Settle, q
    <3> QED  BY <2>2, <3>1 DEF GetNextTask, AddsNew
  <2>4. garbageList' \in Seq(Tasks)
    BY <1>11, <2>1 DEF Settle
  <2> QED  BY <1>11, <2>1, <2>3, <2>4 DEF Settle, PCs
<1>12. CASE TaskStep
  <2>1. curTask \in Tasks /\ curTask' = curTask /\ pc' \in {"settle", "registered"}
    BY <1>12 DEF TaskStep, Yield, Register, Hold, Finish, Running, SwapOut
  <2> QED
    BY <1>12, <2>1 DEF TaskStep, Yield, Register, Hold, Finish, Running, SwapOut,
                       PCs, TaskState
<1>13. CASE UNCHANGED vars
  BY <1>13 DEF vars
<1> QED  BY <1>1, <1>2, <1>3, <1>4, <1>5, <1>6, <1>7, <1>8, <1>9, <1>10,
            <1>11, <1>12, <1>13 DEF Next, ProcessorStep

\* Every step of Processor keeps every variable in its type.
THEOREM TypeCorrect == SafetySpec => []TypeOK
<1>1. Init => TypeOK /\ CurInv
  BY EmptyElements DEF Init, TypeOK, CurInv, PCs, TaskState, Callers
<1> QED  BY <1>1, TypeInduction, PTL DEF SafetySpec

-----------------------------------------------------------------------------
(* No lost wakeup.                                                         *)

LEMMA ParkInduction ==
    ASSUME TypeOK, CurInv, ParkInv, [Next]_vars  PROVE ParkInv'
<1> USE DEF ParkInv, queueVars, parkVars
<1>1. ASSUME NEW c \in Callers, NEW t \in Tasks, CreateTask(c, t)  PROVE ParkInv'
  BY <1>1 DEF CreateTask, Enqueue
<1>2. ASSUME NEW c \in Threads, NEW t \in Tasks, WakeupTask(c, t)  PROVE ParkInv'
  BY <1>2 DEF WakeupTask, Enqueue
<1>3. CASE StartScheduler
  BY <1>3 DEF StartScheduler
<1>4. ASSUME NEW c \in Callers, Tickle(c)  PROVE ParkInv'
  BY <1>4 DEF Tickle, TypeOK
<1>5. CASE LoopStopping
  BY <1>5 DEF LoopStopping
<1>6. CASE Fetch
  BY <1>6 DEF Fetch, GetNextTask, AddsNew, TypeOK
<1>7. CASE Idle
  BY <1>7 DEF Idle, TypeOK
<1>8. CASE Awake \/ SpuriousWakeup
  BY <1>8 DEF Awake, SpuriousWakeup, LeaveWait
<1>9. CASE Collect
  BY <1>9 DEF Collect
<1>10. CASE SwapIn
  BY <1>10 DEF SwapIn
<1>11. CASE Settle
  BY <1>11 DEF Settle
<1>12. CASE TaskStep
  BY <1>12 DEF TaskStep, Yield, Register, Hold, Finish, Running, SwapOut
<1>13. CASE UNCHANGED vars
  BY <1>13 DEF vars
<1> QED  BY <1>1, <1>2, <1>3, <1>4, <1>5, <1>6, <1>7, <1>8, <1>9, <1>10,
            <1>11, <1>12, <1>13 DEF Next, ProcessorStep

\* Processor::tickle and Processor::idle lose no wakeup: a parked and
\* unsignalled processor has nothing to do, or a tickle is on its way.
THEOREM WakeupNotLost == SafetySpec => []NoLostWakeup
<1>1. Init => TypeOK /\ CurInv /\ ParkInv
  BY EmptyElements DEF Init, TypeOK, CurInv, ParkInv, PCs, TaskState, Callers
<1>2. ParkInv => NoLostWakeup
  BY DEF ParkInv, NoLostWakeup
<1> QED  BY <1>1, <1>2, TypeInduction, ParkInduction, PTL DEF SafetySpec

-----------------------------------------------------------------------------
(* One claim per task.                                                     *)

LEMMA ClaimInduction ==
    ASSUME TypeOK, CurInv, ClaimInv, [Next]_vars  PROVE ClaimInv'
<1> DEFINE N == Elements(newQueue)
           R == Elements(runableQueue)
           Alive(t) == state[t] \in {"READY", "HOLD"}
<1>0. /\ Injective(newQueue) /\ Injective(runableQueue)
      /\ newQueue \in Seq(Tasks) /\ runableQueue \in Seq(Tasks)
      /\ N \cap R = {} /\ armed \cap (N \cup R) = {}
      /\ N \subseteq Tasks /\ R \subseteq Tasks /\ armed \subseteq Tasks
  <2>1. \A s \in Seq(Tasks) : Elements(s) \subseteq Tasks
    BY DEF Elements
  <2>2. newQueue \in Seq(Tasks) /\ runableQueue \in Seq(Tasks) /\ armed \subseteq Tasks
    BY DEF TypeOK
  <2> QED  BY <2>1, <2>2 DEF ClaimInv, OneClaimPerTask
<1>q. ASSUME UNCHANGED <<newQueue, runableQueue>>
      PROVE  /\ Elements(newQueue') = N /\ Elements(runableQueue') = R
             /\ Injective(newQueue') /\ Injective(runableQueue')
  BY <1>0, <1>q
<1> USE DEF queueVars, parkVars
<1>1. ASSUME NEW c \in Callers, NEW t \in Tasks, CreateTask(c, t)  PROVE ClaimInv'
  <2>1. t \notin N \cup R \cup armed /\ t # curTask
    BY <1>1 DEF CreateTask, ClaimInv, OneClaimPerTask, Waiting
  <2>2. /\ newQueue' = Append(newQueue, t) /\ UNCHANGED <<pc, runableQueue, curTask, armed>>
        /\ state' = [state EXCEPT ![t] = "READY"]
    BY <1>1 DEF CreateTask, Enqueue
  <2>3. Elements(newQueue') = N \cup {t} /\ Injective(newQueue')
    BY <1>0, <2>1, <2>2, AppendElements
  <2>4. Elements(runableQueue') = R /\ Injective(runableQueue')
    BY <1>0, <2>2
  <2>5. Suspending' <=> Suspending
    BY <2>1, <2>2 DEF Suspending, CurInv, TypeOK
  <2>6. Waiting' = Waiting \cup {t}
    BY <2>2, <2>3, <2>4 DEF Waiting
  <2> HIDE DEF N, R
  <2>7. \A u \in Tasks : u \in Waiting' <=> state'[u] \in {"READY", "HOLD"} /\ (u = curTask' => Suspending')
    BY <2>1, <2>2, <2>5, <2>6 DEF ClaimInv, OneClaimPerTask, TypeOK
  <2>8. OneClaimPerTask'
    BY <1>0, <2>1, <2>2, <2>3, <2>4, <2>7 DEF OneClaimPerTask
  <2> QED  BY <2>1, <2>2, <2>8 DEF ClaimInv, TypeOK
<1>2. ASSUME NEW c \in Threads, NEW t \in Tasks, WakeupTask(c, t)  PROVE ClaimInv'
  <2>2. /\ newQueue' = Append(newQueue, t) /\ UNCHANGED <<pc, runableQueue, curTask, state>>
        /\ t \in armed /\ armed' = armed \ {t}
    BY <1>2 DEF WakeupTask, Enqueue
  <2>1. t \notin N \cup R
    BY <1>0, <2>2
  <2>3. Elements(newQueue') = N \cup {t} /\ Injective(newQueue')
    BY <1>0, <2>1, <2>2, AppendElements
  <2>4. Elements(runableQueue') = R /\ Injective(runableQueue')
    BY <1>0, <2>2
  <2>5. (Suspending' <=> Suspending) /\ Waiting' = Waiting
    BY <2>2, <2>3, <2>4 DEF Suspending, Waiting
  <2> HIDE DEF N, R
  <2>6. OneClaimPerTask'
    BY <1>0, <2>1, <2>2, <2>3, <2>4, <2>5 DEF OneClaimPerTask, ClaimInv
  <2> QED  BY <2>2, <2>6 DEF ClaimInv
<1>3. CASE UNCHANGED <<newQueue, runableQueue, curTask, state, armed>>
           /\ (Suspending' <=> Suspending)
           /\ (curTask # NoTask => (pc' = "settle" <=> pc = "settle"))
  BY <1>3 DEF ClaimInv, OneClaimPerTask, Waiting
<1>4. ASSUME NEW c \in Callers, Tickle(c)  PROVE ClaimInv'
  BY <1>3, <1>4 DEF Tickle, Suspending
<1>5. CASE LoopStopping \/ Idle \/ Awake \/ SpuriousWakeup \/ SwapIn
           \/ StartScheduler \/ UNCHANGED vars
  BY <1>3, <1>5 DEF LoopStopping, Idle, Awake, SpuriousWakeup, LeaveWait, SwapIn,
                    StartScheduler, vars, Suspending
<1>6. CASE Fetch
  <2>1. /\ GetNextTask(runableQueue, TRUE) /\ UNCHANGED <<state, armed>>
        /\ pc = "fetch" /\ pc' \in {"idle", "inner"} /\ curTask = NoTask
    BY <1>6 DEF Fetch, CurInv
  <2>2. /\ newQueue' \in Seq(Tasks) /\ runableQueue' \in Seq(Tasks)
        /\ Injective(newQueue') /\ Injective(runableQueue')
        /\ Elements(newQueue') \cap Elements(runableQueue') = {}
        /\ Elements(newQueue') \cup Elements(runableQueue') = (N \cup R) \ {curTask'}
        /\ curTask' = NoTask \/ curTask' \in N \cup R
    BY <1>0, <2>1, GetNextTaskEffect
  <2>3. ~Suspending /\ ~Suspending'
    BY <2>1 DEF Suspending
  <2> HIDE DEF N, R
  <2>4. Waiting' = Waiting \ {curTask'}
    BY <1>0, <2>1, <2>2 DEF Waiting, N, R
  <2>5. OneClaimPerTask'
    BY <1>0, <2>1, <2>2, <2>3, <2>4 DEF OneClaimPerTask, ClaimInv
  <2>6. curTask' # NoTask => curTask' \in Tasks /\ state'[curTask'] \in {"READY", "HOLD"}
    BY <1>0, <2>1, <2>2 DEF OneClaimPerTask, ClaimInv, Waiting, N, R
  <2> QED  BY <2>5, <2>6 DEF ClaimInv
<1>7. CASE Collect
  <2>1. /\ runableQueue' = runableQueue \o newQueue /\ newQueue' = <<>>
        /\ UNCHANGED <<state, armed, curTask>> /\ pc = "collect" /\ pc' = "loop"
    BY <1>7 DEF Collect
  <2>2. Elements(runableQueue') = N \cup R /\ Injective(runableQueue')
    BY <1>0, <2>1, ConcatElements
  <2>3. Elements(newQueue') = {} /\ Injective(newQueue')
    BY <2>1, EmptyElements
  <2>4. ~Suspending /\ ~Suspending'
    BY <2>1 DEF Suspending
  <2>5. Waiting' = Waiting
    BY <2>1, <2>2, <2>3 DEF Waiting
  <2> HIDE DEF N, R
  <2>6. OneClaimPerTask'
    BY <1>0, <2>1, <2>2, <2>3, <2>4, <2>5 DEF OneClaimPerTask, ClaimInv
  <2> QED  BY <2>1, <2>6 DEF ClaimInv
<1>8. CASE Settle
  <2> DEFINE q == IF state[curTask] = "READY"
                  THEN Append(runableQueue, curTask) ELSE runableQueue
             Q == IF state[curTask] = "READY" THEN R \cup {curTask} ELSE R
  <2>1. /\ GetNextTask(q, FALSE) /\ UNCHANGED <<state, armed>>
        /\ pc = "settle" /\ pc' = "inner"
    BY <1>8 DEF Settle
  <2>2. curTask \in Tasks /\ curTask # NoTask
    BY <2>1 DEF CurInv, TypeOK
  <2>3. state[curTask] # "HOLD" => curTask \notin Waiting
    BY <2>1, <2>2 DEF ClaimInv, OneClaimPerTask, Suspending
  <2>4. state[curTask] # "HOLD" => curTask \notin N \cup R \cup armed
    BY <2>3 DEF Waiting
  <2>5. q \in Seq(Tasks) /\ Injective(q) /\ Elements(q) = Q
    BY <1>0, <2>2, <2>4, AppendElements
  <2>6. N \cap Q = {} /\ armed \cap (N \cup Q) = {}
    BY <1>0, <2>4
  <2> HIDE DEF q
  <2>7. /\ Injective(newQueue') /\ Injective(runableQueue')
        /\ Elements(newQueue') \cap Elements(runableQueue') = {}
        /\ Elements(newQueue') \cup Elements(runableQueue') = (N \cup Q) \ {curTask'}
        /\ curTask' = NoTask \/ curTask' \in N \cup Q
    BY <1>0, <2>1, <2>5, <2>6, GetNextTaskEffect
  <2>8. ~Suspending' /\ (Suspending <=> state[curTask] = "HOLD")
    BY <2>1 DEF Suspending
  <2>9. \A u \in Tasks : u \in armed \cup N \cup Q <=> Alive(u)
    BY <2>2, <2>8 DEF ClaimInv, OneClaimPerTask, Waiting
  <2> HIDE DEF N, R, Q
  <2>10. Waiting' = (armed \cup N \cup Q) \ {curTask'}
    BY <1>0, <2>1, <2>6, <2>7 DEF Waiting
  <2>11. OneClaimPerTask'
    BY <2>1, <2>6, <2>7, <2>8, <2>9, <2>10 DEF OneClaimPerTask
  <2>12. curTask' # NoTask => curTask' \in Tasks
    BY <1>0, <2>2, <2>7 DEF Q
  <2>13. curTask' # NoTask => state'[curTask'] \in {"READY", "HOLD"}
    BY <2>1, <2>7, <2>9, <2>12
  <2> QED  BY <2>11, <2>13 DEF ClaimInv
<1>9. CASE TaskStep
  <2>1. /\ curTask \in Tasks /\ curTask # NoTask
        /\ UNCHANGED <<newQueue, runableQueue, curTask>> /\ pc \in {"exec", "registered"}
    BY <1>9 DEF TaskStep, Yield, Register, Hold, Finish, Running, SwapOut, CurInv, TypeOK
  <2>2. /\ Elements(newQueue') = N /\ Elements(runableQueue') = R
        /\ Injective(newQueue') /\ Injective(runableQueue')
    BY <2>1, <1>q
  <2>3. CASE Register
    <3>1. /\ armed' = armed \cup {curTask} /\ pc' = "registered" /\ state' = state /\ pc = "exec"
      BY <2>3 DEF Register, Running
    <3>2. ~Suspending /\ Suspending' /\ curTask \notin Waiting
      BY <2>1, <3>1 DEF Suspending, ClaimInv, OneClaimPerTask
    <3>3. Waiting' = Waiting \cup {curTask} /\ curTask \notin N \cup R
      BY <2>2, <3>1, <3>2 DEF Waiting
    <3>4. state[curTask] \in {"READY", "HOLD"}
      BY <2>1, <3>1 DEF ClaimInv
    <3> HIDE DEF N, R
    <3> QED  BY <1>0, <2>1, <2>2, <3>1, <3>2, <3>3, <3>4 DEF OneClaimPerTask, ClaimInv
  <2>4. CASE Hold
    <3>1. /\ armed' = armed /\ pc' = "settle" /\ pc = "registered"
          /\ state' = [state EXCEPT ![curTask] = "HOLD"]
      BY <2>4 DEF Hold, SwapOut
    <3>2. state'[curTask] = "HOLD" /\ \A u \in Tasks : u # curTask => state'[u] = state[u]
      BY <2>1, <3>1 DEF TypeOK
    <3>3. Suspending /\ Suspending' /\ Waiting' = Waiting
      BY <2>1, <2>2, <3>1, <3>2 DEF Suspending, Waiting
    <3>4. state[curTask] \in {"READY", "HOLD"}
      BY <2>1, <3>1 DEF ClaimInv
    <3> HIDE DEF N, R
    <3> QED  BY <1>0, <2>1, <2>2, <3>1, <3>2, <3>3, <3>4 DEF OneClaimPerTask, ClaimInv
  <2>5. ASSUME NEW s \in {"READY", "TERM", "EXCEPT"}, Running, SwapOut(s)  PROVE ClaimInv'
    <3>1. /\ armed' = armed /\ pc' = "settle" /\ pc = "exec"
          /\ state' = [state EXCEPT ![curTask] = s]
      BY <2>5 DEF SwapOut, Running
    <3>2. state'[curTask] = s /\ \A u \in Tasks : u # curTask => state'[u] = state[u]
      BY <2>1, <3>1 DEF TypeOK
    <3>3. ~Suspending /\ ~Suspending' /\ Waiting' = Waiting
      BY <2>1, <2>2, <3>1, <3>2 DEF Suspending, Waiting
    <3> HIDE DEF N, R
    <3> QED  BY <1>0, <2>1, <2>2, <3>1, <3>2, <3>3 DEF OneClaimPerTask, ClaimInv
  <2> QED  BY <1>9, <2>3, <2>4, <2>5 DEF TaskStep, Yield, Finish
<1> QED  BY <1>1, <1>2, <1>4, <1>5, <1>6, <1>7, <1>8, <1>9 DEF Next, ProcessorStep

\* Processor::run neither loses nor duplicates a task, although the wake-up
\* of a task may overtake its hold.
THEOREM TaskConservation == SafetySpec => []OneClaimPerTask
<1>1. Init => TypeOK /\ CurInv /\ ClaimInv
  BY EmptyElements DEF Init, TypeOK, CurInv, ClaimInv, OneClaimPerTask, Waiting, PCs,
                       TaskState, Callers
<1>2. ClaimInv => OneClaimPerTask
  BY DEF ClaimInv
<1> QED  BY <1>1, <1>2, TypeInduction, ClaimInduction, PTL DEF SafetySpec

-----------------------------------------------------------------------------
(* The processor implements TaskPool.                                      *)

\* A step that changes none of the pool's variables.
PoolStutter == UNCHANGED <<Created, OnProcessor, Ready, armed>>

LEMMA PoolStep ==
    ASSUME TypeOK, CurInv, ClaimInv, [Next]_vars
    PROVE  Pool!Next \/ PoolStutter
<1> DEFINE N == Elements(newQueue)
           R == Elements(runableQueue)
<1>0. /\ Injective(newQueue) /\ Injective(runableQueue)
      /\ newQueue \in Seq(Tasks) /\ runableQueue \in Seq(Tasks)
      /\ N \cap R = {} /\ armed \cap (N \cup R) = {}
      /\ N \subseteq Tasks /\ R \subseteq Tasks /\ armed \subseteq Tasks
      /\ curTask \in Tasks \cup {NoTask} /\ state \in [Tasks -> TaskState]
  <2>1. \A s \in Seq(Tasks) : Elements(s) \subseteq Tasks
    BY DEF Elements
  <2>2. newQueue \in Seq(Tasks) /\ runableQueue \in Seq(Tasks) /\ armed \subseteq Tasks
    BY DEF TypeOK
  <2> QED  BY <2>1, <2>2 DEF ClaimInv, OneClaimPerTask, TypeOK
\* Whether the task on the processor has its wake-up registered.
<1>c. ASSUME curTask # NoTask, pc # "settle"
      PROVE  curTask \in Tasks /\ (curTask \in N \cup R \cup armed <=> pc = "registered")
  <2>1. curTask \in Tasks /\ state[curTask] \in {"READY", "HOLD"}
    BY <1>0, <1>c DEF ClaimInv
  <2>2. curTask \in Waiting <=> Suspending
    BY <2>1 DEF ClaimInv, OneClaimPerTask
  <2> QED  BY <1>c, <2>1, <2>2 DEF Waiting, Suspending
<1> USE DEF queueVars, parkVars
<1>1. ASSUME NEW c \in Callers, NEW t \in Tasks, CreateTask(c, t)
      PROVE  Pool!Next
  <2>1. /\ newQueue' = Append(newQueue, t) /\ UNCHANGED <<pc, runableQueue, curTask, armed>>
        /\ state' = [state EXCEPT ![t] = "READY"] /\ state[t] = "NONE"
    BY <1>1 DEF CreateTask, Enqueue
  <2>2. Elements(newQueue') = N \cup {t}
    BY <1>0, <2>1, AppendElements
  <2>3. t # curTask
    BY <2>1, <1>0 DEF ClaimInv
  <2>4. /\ Created' = Created \cup {t} /\ t \notin Created
        /\ OnProcessor' = OnProcessor
    BY <1>0, <2>1 DEF Created, OnProcessor
  <2>5. pc = "settle" => state'[curTask] = state[curTask]
    BY <1>0, <2>1, <2>3 DEF CurInv
  <2>6. InHand' = InHand
    BY <2>1, <2>5 DEF InHand
  <2>7. Ready' = Ready \cup {t}
    BY <2>1, <2>2, <2>6 DEF Ready
  <2>8. Pool!Create(t)
    BY <2>1, <2>4, <2>7 DEF Pool!Create
  <2> QED  BY <2>8 DEF Pool!Next
<1>2. ASSUME NEW c \in Threads, NEW t \in Tasks, WakeupTask(c, t)
      PROVE  Pool!Next
  <2>1. /\ newQueue' = Append(newQueue, t)
        /\ UNCHANGED <<pc, runableQueue, curTask, state>>
        /\ armed' = armed \ {t} /\ t \in armed
    BY <1>2 DEF WakeupTask, Enqueue
  <2>2. Elements(newQueue') = N \cup {t}
    BY <1>0, <2>1, AppendElements
  <2>3. Created' = Created /\ OnProcessor' = OnProcessor /\ InHand' = InHand
    BY <2>1 DEF Created, OnProcessor, InHand
  <2>4. Ready' = Ready \cup {t}
    BY <2>1, <2>2, <2>3 DEF Ready
  <2>5. Pool!Wake(t)
    BY <2>1, <2>3, <2>4 DEF Pool!Wake
  <2> QED  BY <2>5 DEF Pool!Next
<1>3. CASE UNCHANGED <<pc, newQueue, runableQueue, curTask, state, armed>>
  <2>1. Created' = Created /\ OnProcessor' = OnProcessor /\ InHand' = InHand
    BY <1>3 DEF Created, OnProcessor, InHand
  <2> QED  BY <1>3, <2>1 DEF Ready, PoolStutter
<1>4. ASSUME NEW c \in Callers, Tickle(c) \/ StartScheduler
      PROVE  UNCHANGED <<pc, newQueue, runableQueue, curTask, state, armed>>
  BY <1>4 DEF Tickle, StartScheduler
\* Between the rounds nothing is in hand.
<1>5. CASE LoopStopping \/ Idle \/ Awake \/ SpuriousWakeup \/ Collect
  <2>1. /\ UNCHANGED <<curTask, state, armed>>
        /\ Elements(newQueue') \cup Elements(runableQueue') = N \cup R
    <3>1. CASE Collect
      BY <1>0, <3>1, ConcatElements, EmptyElements DEF Collect
    <3>2. CASE LoopStopping \/ Idle \/ Awake \/ SpuriousWakeup
      BY <3>2 DEF LoopStopping, Idle, Awake, SpuriousWakeup, LeaveWait
    <3> QED  BY <1>5, <3>1, <3>2
  <2>2. /\ pc \in {"loop", "idle", "wait", "collect"}
        /\ pc' \in {"loop", "fetch", "done", "wait", "collect"}
        /\ pc = "loop" /\ pc' = "fetch" => curTask = NoTask
        /\ pc # "loop" => curTask = NoTask
        /\ pc = "loop" => pc' \in {"fetch", "done"}
    BY <1>5 DEF LoopStopping, Idle, Awake, SpuriousWakeup, LeaveWait, Collect, CurInv
  <2>3. Created' = Created /\ OnProcessor' = OnProcessor
    BY <2>1, <2>2 DEF Created, OnProcessor
  <2>4. InHand' = InHand
    BY <2>1, <2>2 DEF InHand
  <2> QED  BY <2>1, <2>3, <2>4 DEF Ready, PoolStutter
<1>6. CASE Fetch
  <2>1. /\ GetNextTask(runableQueue, TRUE) /\ UNCHANGED <<state, armed>> /\ pc = "fetch"
        /\ \/ curTask' = NoTask /\ pc' = "idle"
           \/ curTask' # NoTask /\ pc' = "inner"
    BY <1>6 DEF Fetch
  <2>2. /\ Elements(newQueue') \cup Elements(runableQueue') = (N \cup R) \ {curTask'}
        /\ curTask' = NoTask \/ curTask' \in N \cup R
    BY <1>0, <2>1, GetNextTaskEffect
  <2>3. Created' = Created /\ OnProcessor' = OnProcessor
    BY <2>1 DEF Created, OnProcessor
  <2>4. InHand = {} /\ InHand' = {curTask'} \ {NoTask}
    BY <2>1 DEF InHand
  <2>5. NoTask \notin N \cup R
    BY <1>0
  <2>6. Ready' = Ready
    BY <2>2, <2>4, <2>5 DEF Ready
  <2> QED  BY <2>1, <2>3, <2>6 DEF PoolStutter
<1>7. CASE SwapIn
  <2>1. /\ UNCHANGED <<newQueue, runableQueue, curTask, state, armed>> /\ pc = "inner"
        /\ pc' = IF curTask # NoTask /\ started THEN "exec" ELSE "loop"
    BY <1>7 DEF SwapIn
  <2>2. CASE curTask # NoTask /\ started
    <3>1. curTask \in Tasks /\ curTask \notin N \cup R
      BY <1>c, <2>1, <2>2
    <3>2. /\ Created' = Created /\ OnProcessor = NoTask /\ OnProcessor' = curTask
          /\ InHand = {curTask} /\ InHand' = {}
      BY <2>1, <2>2 DEF Created, OnProcessor, InHand
    <3>3. curTask \in Ready /\ Ready' = Ready \ {curTask}
      BY <2>1, <3>1, <3>2 DEF Ready
    <3>4. Pool!Resume(curTask)
      BY <2>1, <3>2, <3>3 DEF Pool!Resume
    <3> QED  BY <3>1, <3>4 DEF Pool!Next
  <2>3. CASE ~(curTask # NoTask /\ started)
    <3>1. Created' = Created /\ OnProcessor' = OnProcessor /\ InHand' = InHand
      BY <2>1, <2>3 DEF Created, OnProcessor, InHand, CurInv
    <3> QED  BY <2>1, <3>1 DEF Ready, PoolStutter
  <2> QED  BY <2>2, <2>3
<1>8. CASE Settle
  <2> DEFINE q == IF state[curTask] = "READY" THEN Append(runableQueue, curTask)
                                              ELSE runableQueue
  <2>1. /\ GetNextTask(q, FALSE) /\ UNCHANGED <<state, armed>>
        /\ pc = "settle" /\ pc' = "inner"
    BY <1>8 DEF Settle
  <2>2. curTask \in Tasks /\ curTask # NoTask
    BY <1>0, <2>1 DEF CurInv
  <2>3. state[curTask] = "READY" => curTask \notin N \cup R
    BY <2>1, <2>2 DEF ClaimInv, OneClaimPerTask, Waiting, Suspending
  <2>4. /\ q \in Seq(Tasks) /\ Injective(q) /\ N \cap Elements(q) = {}
        /\ Elements(q) = R \cup InHand
    <3>1. CASE state[curTask] = "READY"
      <4>1. q = Append(runableQueue, curTask) /\ InHand = {curTask}
        BY <2>1, <2>2, <3>1 DEF InHand
      <4> QED  BY <1>0, <2>2, <2>3, <3>1, <4>1, AppendElements
    <3>2. CASE state[curTask] # "READY"
      <4>1. q = runableQueue /\ InHand = {}
        BY <2>1, <3>2 DEF InHand
      <4> QED  BY <1>0, <4>1
    <3> QED  BY <3>1, <3>2
  <2> HIDE DEF q
  <2>5. /\ Elements(newQueue') \cup Elements(runableQueue') = (N \cup Elements(q)) \ {curTask'}
        /\ curTask' = NoTask \/ curTask' \in N \cup Elements(q)
    BY <1>0, <2>1, <2>4, GetNextTaskEffect
  <2>6. Created' = Created /\ OnProcessor' = OnProcessor /\ InHand' = {curTask'} \ {NoTask}
    BY <2>1 DEF Created, OnProcessor, InHand
  <2>7. NoTask \notin N \cup Elements(q)
    <3>1. Elements(q) \subseteq Tasks
      BY <2>4 DEF Elements
    <3> QED  BY <1>0, <3>1
  <2>8. Ready' = Ready
    BY <2>4, <2>5, <2>6, <2>7 DEF Ready
  <2> QED  BY <2>1, <2>6, <2>8 DEF PoolStutter
<1>9. CASE TaskStep
  <2>1. /\ curTask \in Tasks /\ curTask # NoTask /\ pc \in {"exec", "registered"}
        /\ UNCHANGED <<newQueue, runableQueue, curTask>>
    BY <1>9 DEF TaskStep, Yield, Register, Hold, Finish, Running, SwapOut, CurInv, TypeOK
  <2>2. OnProcessor = curTask /\ InHand = {} /\ Ready = N \cup R
    BY <2>1 DEF OnProcessor, InHand, Ready
  <2>3. curTask \in N \cup R \cup armed <=> pc = "registered"
    BY <1>c, <2>1
  <2>4. state[curTask] # "NONE"
    BY <2>1 DEF ClaimInv
  <2>5. CASE Register
    <3>1. /\ armed' = armed \cup {curTask} /\ pc' = "registered" /\ state' = state /\ pc = "exec"
      BY <2>5 DEF Register, Running
    <3>2. Created' = Created /\ OnProcessor' = curTask /\ InHand' = {} /\ Ready' = Ready
      BY <2>1, <2>2, <3>1 DEF Created, OnProcessor, InHand, Ready
    <3>3. Pool!Register
      BY <2>1, <2>2, <2>3, <3>1, <3>2 DEF Pool!Register, Pool!Committed
    <3> QED  BY <3>3 DEF Pool!Next
  <2>6. ASSUME NEW s \in {"READY", "HOLD", "TERM", "EXCEPT"}, SwapOut(s)
        PROVE  /\ Created' = Created /\ OnProcessor' = NoTask /\ armed' = armed
               /\ InHand' = IF s = "READY" THEN {curTask} ELSE {}
               /\ Ready' = Ready \cup InHand'
    <3>1. /\ armed' = armed /\ pc' = "settle" /\ state' = [state EXCEPT ![curTask] = s]
      BY <2>6 DEF SwapOut
    <3>2. state'[curTask] = s /\ \A u \in Tasks : u # curTask => state'[u] = state[u]
      BY <1>0, <2>1, <3>1
    <3>3. Created' = Created
      BY <2>1, <2>4, <3>2 DEF Created
    <3>4. InHand' = IF s = "READY" THEN {curTask} ELSE {}
      BY <2>1, <3>1, <3>2 DEF InHand
    <3> QED  BY <2>1, <2>2, <3>1, <3>3, <3>4 DEF OnProcessor, Ready
  <2>7. CASE Yield
    <3>1. pc = "exec" /\ SwapOut("READY")
      BY <2>7 DEF Yield, Running
    <3>2. Pool!Yield
      BY <2>1, <2>2, <2>3, <2>6, <3>1 DEF Pool!Yield, Pool!Committed
    <3> QED  BY <3>2 DEF Pool!Next
  <2>8. CASE Hold
    <3>1. pc = "registered" /\ SwapOut("HOLD")
      BY <2>8 DEF Hold
    <3>2. Pool!Suspend
      BY <2>1, <2>2, <2>3, <2>6, <3>1 DEF Pool!Suspend, Pool!Committed
    <3> QED  BY <3>2 DEF Pool!Next
  <2>9. CASE Finish
    <3>1. PICK s \in {"TERM", "EXCEPT"} : pc = "exec" /\ SwapOut(s)
      BY <2>9 DEF Finish, Running
    <3>2. Pool!End
      BY <2>1, <2>2, <2>3, <2>6, <3>1 DEF Pool!End, Pool!Committed
    <3> QED  BY <3>2 DEF Pool!Next
  <2> QED  BY <1>9, <2>5, <2>7, <2>8, <2>9 DEF TaskStep
<1>10. CASE UNCHANGED vars
  BY <1>3, <1>10 DEF vars
<1> QED
  BY <1>1, <1>2, <1>3, <1>4, <1>5, <1>6, <1>7, <1>8, <1>9, <1>10
     DEF Next, ProcessorStep, Callers

\* Every behaviour of the processor is one of TaskPool: whatever the order of
\* addTask, wake, yield and hold, a task is resumed once for each of its
\* causes, and one at a time.
THEOREM ProcessorIsTaskPool == SafetySpec => RunsTaskPool
<1>1. Init => TypeOK /\ CurInv /\ ClaimInv
  BY EmptyElements DEF Init, TypeOK, CurInv, ClaimInv, OneClaimPerTask, Waiting, PCs,
                       TaskState, Callers
<1>2. Init => Pool!Init
  BY EmptyElements DEF Init, Pool!Init, Created, OnProcessor, Ready, InHand
<1>3. TypeOK /\ CurInv /\ ClaimInv /\ [Next]_vars => [Pool!Next]_(Pool!vars)
  BY PoolStep DEF PoolStutter, Pool!vars
<1> QED  BY <1>1, <1>2, <1>3, TypeInduction, ClaimInduction, PTL
         DEF SafetySpec, RunsTaskPool, Pool!Spec
=============================================================================
