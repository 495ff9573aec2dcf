-------------------------- MODULE EventLoopProofs --------------------------
(***************************************************************************)
(* Proofs about module EventLoop, for any set of threads and any bound.    *)
(***************************************************************************)
EXTENDS EventLoop, TLAPS

USE EventLoopAssumption

\* A wakeup is on its way or on record.
Covered == notified \/ wakeFd \/ \E t \in Threads : tickle[t] # "out"

\* From the last look at m_newQueue until epoll_wait returns, a queued task
\* is covered.  MissedWakeupRecorded alone is not inductive: it says nothing
\* about the steps of idle() before the sleep.
CoverInv ==
    pc \in {"test", "setIdled", "poll"} /\ pending > 0 => Covered

LEMMA TypeInduction == ASSUME TypeOK, [Next]_vars  PROVE TypeOK'
<1> USE DEF TypeOK, taskVars
<1>1. ASSUME NEW t \in Threads, TickleStep(t) \/ Enqueue(t)  PROVE TypeOK'
  <2> USE DEF TickleStep, TickleTest, TickleWrite, TickleTestNotified,
              TickleSetNotified, Enqueue
  <2>1. pending' \in Nat /\ runable' \in Nat /\ addNewRemain' \in {0, 1}
    BY <1>1
  <2>2. pc' \in PCs /\ tickle' \in [Threads -> TicklePCs]
    BY <1>1 DEF TicklePCs
  <2>3. idled' \in BOOLEAN /\ notified' \in BOOLEAN /\ wakeFd' \in BOOLEAN
    BY <1>1
  <2> QED  BY <2>1, <2>2, <2>3
<1>2. CASE LoopStep \/ PollIo
  <2> USE DEF LoopStep, Fetch, Yield, Leave, Settle, GetNextTask,
              AddsNew, Available, IdleTest, IdleClear, IdleSet, PollWakeFd, PollIo,
              PollTimeout, IdleReset, Collect
  <2>1. pending' \in Nat /\ runable' \in Nat /\ addNewRemain' \in {0, 1}
    BY <1>2
  <2>2. pc' \in PCs /\ tickle' \in [Threads -> TicklePCs]
    BY <1>2 DEF PCs
  <2>3. idled' \in BOOLEAN /\ notified' \in BOOLEAN /\ wakeFd' \in BOOLEAN
    BY <1>2
  <2> QED  BY <2>1, <2>2, <2>3
<1>3. CASE UNCHANGED vars
  BY <1>3 DEF vars
<1> QED  BY <1>1, <1>2, <1>3 DEF Next

LEMMA CoverInduction == ASSUME TypeOK, CoverInv, [Next]_vars  PROVE CoverInv'
<1>0. pending \in Nat /\ tickle \in [Threads -> TicklePCs]
  BY DEF TypeOK
<1>1. ASSUME NEW t \in Threads, Enqueue(t)  PROVE CoverInv'
  <2>1. tickle'[t] = "test" /\ pending' = pending + 1
    BY <1>0, <1>1 DEF Enqueue
  <2> QED  BY <1>0, <2>1 DEF CoverInv, Covered
<1>2. ASSUME NEW t \in Threads, TickleStep(t)  PROVE CoverInv'
  <2>1. Covered'
    <3>1. CASE TickleTest(t)
      <4>1. tickle'[t] # "out"
        BY <1>0, <3>1 DEF TickleTest
      <4> QED  BY <4>1 DEF Covered
    <3>2. CASE TickleWrite(t)
      BY <3>2 DEF TickleWrite, Covered
    <3>3. CASE TickleTestNotified(t)
      <4>1. notified' \/ tickle'[t] # "out"
        BY <1>0, <3>3 DEF TickleTestNotified
      <4> QED  BY <4>1 DEF Covered
    <3>4. CASE TickleSetNotified(t)
      BY <3>4 DEF TickleSetNotified, Covered
    <3> QED  BY <1>2, <3>1, <3>2, <3>3, <3>4 DEF TickleStep
  <2>2. pending' = pending
    BY <1>2 DEF taskVars, TickleStep, TickleTest, TickleWrite, TickleTestNotified, TickleSetNotified
  <2> QED  BY <1>0, <2>1, <2>2 DEF CoverInv
<1>3. CASE IdleTest \/ IdleSet
  BY <1>3 DEF taskVars, IdleTest, IdleSet, CoverInv, Covered
<1>4. CASE Fetch
  BY <1>4, <1>0 DEF Fetch, GetNextTask, AddsNew, Available, TypeOK, CoverInv
<1>5. CASE Yield \/ Leave \/ IdleClear \/ PollWakeFd \/ PollIo \/ PollTimeout \/ IdleReset \/ Collect
  <2>1. pc' \in {"collect", "resetIdled", "fetch", "run"}
    BY <1>5, <1>0 DEF Yield, Leave, Settle, IdleClear, PollWakeFd, PollIo, PollTimeout, IdleReset, Collect
  <2> QED  BY <2>1 DEF CoverInv
<1>6. CASE UNCHANGED vars
  BY <1>6 DEF vars, taskVars, CoverInv, Covered
<1> QED  BY <1>1, <1>2, <1>3, <1>4, <1>5, <1>6 DEF Next, LoopStep

\* However many threads race with idle(), a wakeup that the unlocked
\* EventLoop::tickle misses is recorded in m_notified.
THEOREM MissedWakeup == SafetySpec => []MissedWakeupRecorded
<1>1. Init => TypeOK /\ CoverInv
  <2>1. Init => pc = "fetch" /\ pending = 0
    BY DEF Init
  <2>2. Init => TypeOK
    <3>1. Init => pending \in Nat /\ runable \in Nat /\ addNewRemain \in {0, 1}
      BY DEF Init
    <3>2. Init => pc \in PCs /\ tickle \in [Threads -> TicklePCs]
      BY DEF Init, PCs, TicklePCs
    <3>3. Init => idled \in BOOLEAN /\ notified \in BOOLEAN /\ wakeFd \in BOOLEAN
      BY DEF Init
    <3> QED  BY <3>1, <3>2, <3>3 DEF TypeOK
  <2> QED  BY <2>1, <2>2 DEF CoverInv
<1>2. TypeOK /\ CoverInv => MissedWakeupRecorded
  BY DEF CoverInv, Covered, MissedWakeupRecorded, Overslept, TypeOK
<1> QED  BY <1>1, <1>2, TypeInduction, CoverInduction, PTL DEF SafetySpec
=============================================================================
