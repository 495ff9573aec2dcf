------------------------ MODULE TimerManagerProofs ------------------------
(***************************************************************************)
(* Proofs about module TimerManager, for any set of timers, any periods    *)
(* and any bound on the clock.                                             *)
(***************************************************************************)
EXTENDS TimerManager, FiniteSetTheorems, WellFoundedInduction, TLAPS

USE TimerAssumption

\* The owner has the timer in its hands: it is in no set.
Hand == {"insert", "refreshNext", "refreshInsert", "resetNext"}

\* m_next is m_ms after some time of the clock, and not in the future unless
\* the clock was set back.
StartInv ==
    \A t \in Timers : pc[t] # "none" =>
        /\ ms[t] + Hour <= next[t] /\ next[t] <= MaxTime + ms[t]
        /\ ~mayOversleep => next[t] <= now + ms[t]

SetInv ==
    /\ IsFiniteSet(timerSet)
    /\ \A t \in timerSet : pc[t] # "none" /\ pc[t] \notin Hand

\* The list of callbacks is empty except while the thread runs them, and has
\* no timer twice.
CallsInv ==
    /\ thread = "call" <=> calls # <<>>
    /\ \A i, j \in 1..Len(calls) : calls[i] = calls[j] => i = j

\* The five places of OneShotConserved, of which a timer is in one.
InOnePlace(t) ==
    \/ /\ t \in timerSet /\ pc[t] \notin Hand
       /\ ~Listed(t) /\ t \notin fired /\ t \notin cancelled
    \/ /\ t \notin timerSet /\ pc[t] \in Hand
       /\ ~Listed(t) /\ t \notin fired /\ t \notin cancelled
    \/ /\ t \notin timerSet /\ pc[t] \notin Hand
       /\ Listed(t) /\ t \notin fired /\ t \notin cancelled
    \/ /\ t \notin timerSet /\ pc[t] \notin Hand
       /\ ~Listed(t) /\ t \in fired /\ t \notin cancelled
    \/ /\ t \notin timerSet /\ pc[t] \notin Hand
       /\ ~Listed(t) /\ t \notin fired /\ t \in cancelled

\* OneShotConserved says nothing of a timer before it is added.
PlaceInv ==
    erasedEnd \/
    \A t \in Timers \ Recurring :
        IF pc[t] = "none" THEN ~Listed(t) /\ t \notin fired /\ t \notin cancelled
                          ELSE InOnePlace(t)

\* The timers that are in the set, or will be when a refreshTimer ends, which
\* notifies nobody.
Coming == timerSet \cup {t \in Timers : pc[t] \in {"refreshNext", "refreshInsert"}}

\* Nobody needs to be notified; or somebody is about to; or the first timer of
\* all is one that addTimer has yet to look for at the front of the set.
AwakeInv ==
    ~mayOversleep /\ thread = "wait" /\ ~signalled /\ now < deadline =>
        \/ \A t \in Coming : deadline <= next[t]
        \/ \E u \in Timers : pc[u] = "tickle"
        \/ \E m \in timerSet : /\ pc[m] = "first" /\ next[m] < deadline
                               /\ \A t \in Coming \ {m} : Before(m, t)

-----------------------------------------------------------------------------
(* The order of m_timer_set                                                *)

LEMMA LeastNatural ==
    ASSUME NEW S, S \subseteq Nat, S # {}
    PROVE  \E x \in S : \A y \in S : x <= y
<1> DEFINE R == {ss \in Nat \X Nat : ss[1] < ss[2]}
<1>1. IsWellFoundedOn(R, Nat)
  BY NatLessThanWellFounded, Zenon DEF OpToRel
<1>2. \E x \in S : \A y \in S : ~(<<y, x>> \in R)
  <2> HIDE DEF R
  <2> QED  BY <1>1, WFMin
<1>3. PICK x \in S : \A y \in S : ~(<<y, x>> \in R)
  BY <1>2
<1>4. ASSUME NEW y \in S  PROVE x <= y
  <2>1. x \in Nat /\ y \in Nat
    OBVIOUS
  <2>2. ~(y < x)
    BY <1>3, <2>1
  <2> QED  BY <2>1, <2>2
<1> QED  BY <1>4

\* The front of the set has the least m_next.
LEMMA EarliestLeast ==
    ASSUME next \in [Timers -> Nat], timerSet \subseteq Timers, timerSet # {}
    PROVE  Earliest \in Nat /\ \A t \in timerSet : Earliest <= next[t]
<1> DEFINE S == {next[t] : t \in timerSet}
<1>1. S \subseteq Nat /\ S # {}
  OBVIOUS
<1>2. \E x \in S : \A y \in S : x <= y
  <2> HIDE DEF S
  <2> QED  BY <1>1, LeastNatural
<1>3. \E n \in S : \A t \in timerSet : n <= next[t]
  BY <1>2
<1>4. Earliest \in S /\ \A t \in timerSet : Earliest <= next[t]
  BY <1>3 DEF Earliest
<1> QED  BY <1>1, <1>4

\* Timer::Comparator is a strict total order.
LEMMA BeforeOrder ==
    ASSUME next \in [Timers -> Nat], NEW t \in Timers, NEW u \in Timers, NEW v \in Timers
    PROVE  /\ ~Before(t, t)
           /\ t # u => Before(t, u) \/ Before(u, t)
           /\ Before(t, u) /\ Before(u, v) => Before(t, v)
           /\ Before(t, u) => next[t] <= next[u] /\ ~Before(u, t)
<1>1. t \in Nat /\ u \in Nat /\ v \in Nat /\ next[t] \in Nat /\ next[u] \in Nat /\ next[v] \in Nat
  OBVIOUS
<1> QED  BY <1>1 DEF Before

\* A finite set of timers can be listed in that order: a timer's position is
\* one more than the number of timers before it.
LEMMA OrderExists ==
    ASSUME next \in [Timers -> Nat], NEW S \in SUBSET Timers, IsFiniteSet(S)
    PROVE  \E s \in [1..Cardinality(S) -> S] :
              \A i, j \in 1..Cardinality(S) : i < j => Before(s[i], s[j])
<1> DEFINE n == Cardinality(S)
           Below(t) == {u \in S : Before(u, t)}
           pos == [t \in S |-> Cardinality(Below(t)) + 1]
<1>1. n \in Nat
  BY FS_CardinalityType
<1>2. ASSUME NEW t \in S
      PROVE  IsFiniteSet(Below(t)) /\ Cardinality(Below(t)) \in Nat /\ Cardinality(Below(t)) < n
  <2>1. t \notin Below(t)
    BY BeforeOrder
  <2>2. IsFiniteSet(S \ {t}) /\ Cardinality(S \ {t}) = n - 1
    BY FS_RemoveElement
  <2>3. Below(t) \in SUBSET (S \ {t})
    BY <2>1
  <2> HIDE DEF Below
  <2>4. IsFiniteSet(Below(t)) /\ Cardinality(Below(t)) <= n - 1
    BY <2>2, <2>3, FS_Subset
  <2>5. Cardinality(Below(t)) \in Nat
    BY <2>4, FS_CardinalityType
  <2> QED  BY <1>1, <2>4, <2>5
<1>3. ASSUME NEW t \in S, NEW u \in S, Before(t, u)
      PROVE  Cardinality(Below(t)) < Cardinality(Below(u))
  <2>1. Below(t) \in SUBSET Below(u)
    BY <1>3, BeforeOrder
  <2>2. t \in Below(u) /\ t \notin Below(t)
    BY <1>3, BeforeOrder
  <2> HIDE DEF Below
  <2>3. Cardinality(Below(t)) <= Cardinality(Below(u))
        /\ Cardinality(Below(u)) # Cardinality(Below(t))
    BY <1>2, <2>1, <2>2, FS_Subset
  <2> QED  BY <1>2, <2>3
<1> HIDE DEF Below
<1>4. pos \in [S -> 1..n]
  BY <1>1, <1>2
<1>5. ASSUME NEW t \in S, NEW u \in S, Before(t, u)  PROVE pos[t] < pos[u]
  BY <1>2, <1>3, <1>5
<1> HIDE DEF pos
<1>6. \A t, u \in S : pos[t] = pos[u] => t = u
  <2> SUFFICES ASSUME NEW t \in S, NEW u \in S, t # u  PROVE pos[t] # pos[u]
    OBVIOUS
  <2>1. Before(t, u) \/ Before(u, t)
    BY BeforeOrder
  <2>2. pos[t] \in Nat /\ pos[u] \in Nat
    BY <1>4
  <2> QED  BY <1>5, <2>1, <2>2
<1>7. pos \in Surjection(S, 1..n)
  <2>1. pos \in Injection(S, 1..n)
    BY <1>4, <1>6 DEF Injection, IsInjective
  <2>2. IsFiniteSet(1..n) /\ Cardinality(1..n) = n
    BY <1>1, FS_Interval
  <2> QED  BY <2>1, <2>2, FS_Injection
<1> DEFINE s == [i \in 1..n |-> CHOOSE t \in S : pos[t] = i]
<1>8. \A i \in 1..n : s[i] \in S /\ pos[s[i]] = i
  BY <1>7 DEF Surjection
<1>9. ASSUME NEW i \in 1..n, NEW j \in 1..n, i < j  PROVE Before(s[i], s[j])
  <2>1. s[i] \in S /\ s[j] \in S /\ pos[s[i]] = i /\ pos[s[j]] = j
    BY <1>8
  <2> HIDE DEF s
  <2>2. s[i] # s[j]
    BY <1>9, <2>1
  <2>3. ~Before(s[j], s[i])
    <3>1. Before(s[j], s[i]) => pos[s[j]] < pos[s[i]]
      BY <1>5, <2>1
    <3> QED  BY <1>1, <1>9, <2>1, <3>1
  <2> QED  BY <2>1, <2>2, <2>3, BeforeOrder
<1>10. s \in [1..n -> S]
  BY <1>8
<1> HIDE DEF s, n
<1> QED  BY <1>9, <1>10 DEF n

\* callback_list has every expired timer once.
LEMMA OrderLists ==
    ASSUME next \in [Timers -> Nat], NEW S \in SUBSET Timers, IsFiniteSet(S)
    PROVE  /\ InSetOrder(S) \in Seq(Timers)
           /\ InSetOrder(S) = <<>> <=> S = {}
           /\ \A i, j \in 1..Len(InSetOrder(S)) :
                 InSetOrder(S)[i] = InSetOrder(S)[j] => i = j
           /\ \A t : (\E i \in 1..Len(InSetOrder(S)) : InSetOrder(S)[i] = t) <=> t \in S
<1> DEFINE n == Cardinality(S)
           s == InSetOrder(S)
<1>1. n \in Nat /\ (n = 0 <=> S = {})
  BY FS_CardinalityType, FS_EmptySet
<1>2. s \in [1..n -> S] /\ \A i, j \in 1..n : i < j => Before(s[i], s[j])
  BY OrderExists DEF InSetOrder
<1> HIDE DEF s, n
<1>3. s \in Seq(S) /\ Len(s) = n
  BY <1>1, <1>2
<1>4. \A i, j \in 1..n : s[i] = s[j] => i = j
  <2> SUFFICES ASSUME NEW i \in 1..n, NEW j \in 1..n, i < j  PROVE s[i] # s[j]
    BY <1>1
  <2> QED  BY <1>2, BeforeOrder
<1>5. s \in Surjection(1..n, S)
  <2>1. s \in Injection(1..n, S)
    BY <1>2, <1>4 DEF Injection, IsInjective
  <2>2. Cardinality(1..n) = n
    BY <1>1, FS_Interval
  <2> QED  BY <2>1, <2>2, FS_Injection DEF n
<1>6. \A t : (\E i \in 1..n : s[i] = t) <=> t \in S
  <2>1. \A t \in S : \E i \in 1..n : s[i] = t
    BY <1>5 DEF Surjection
  <2>2. \A i \in 1..n : s[i] \in S
    BY <1>2
  <2> QED  BY <2>1, <2>2
<1>7. s \in Seq(Timers)
  <2>1. s \in [1..n -> Timers]
    BY <1>2
  <2> QED  BY <1>1, <2>1
<1>8. s = <<>> <=> S = {}
  BY <1>1, <1>3
<1> QED  BY <1>3, <1>4, <1>6, <1>7, <1>8 DEF s

-----------------------------------------------------------------------------
(* The induction, invariant by invariant.                                  *)

\* TypeOK without the range of m_next, which StartInv implies.
Types ==
    /\ now \in Clock
    /\ timerSet \subseteq Timers
    /\ next \in [Timers -> Nat]
    /\ ms \in [Timers -> Periods \cup {0}]
    /\ callback \subseteq Timers
    /\ previousTime \in Clock \cup {0}
    /\ pc \in [Timers -> PCs]
    /\ thread \in {"loop", "wait", "list", "call", "done"}
    /\ deadline \in Nat
    /\ calls \in Seq(Timers)
    /\ fired \subseteq Timers
    /\ cancelled \subseteq Timers

Flags ==
    /\ started \in BOOLEAN
    /\ signalled \in BOOLEAN
    /\ erasedEnd \in BOOLEAN
    /\ mayOversleep \in BOOLEAN

\* Times and periods are naturals.
LEMMA Numbers ==
    ASSUME Types
    PROVE  /\ now \in Nat /\ Hour <= now /\ now <= MaxTime
           /\ deadline \in Nat
           /\ \A t \in Timers : next[t] \in Nat /\ ms[t] \in Nat
<1>1. \A t \in Timers : ms[t] \in Periods \cup {0} /\ next[t] \in Nat
  BY DEF Types
<1>2. \A x \in Periods \cup {0} : x \in Nat
  OBVIOUS
<1>3. now \in Hour..MaxTime /\ deadline \in Nat
  BY DEF Types, Clock
<1>4. now \in Nat /\ Hour <= now /\ now <= MaxTime
  BY <1>3
<1> QED  BY <1>1, <1>2, <1>3, <1>4

\* The expired timers are a finite set of timers.
LEMMA ExpiredFinite ==
    ASSUME Types, SetInv
    PROVE  Expired \in SUBSET Timers /\ Expired \subseteq timerSet /\ IsFiniteSet(Expired)
<1>1. Expired \subseteq timerSet
  BY DEF Expired
<1>2. IsFiniteSet(timerSet) /\ timerSet \subseteq Timers
  BY DEF SetInv, Types
<1> QED  BY <1>1, <1>2, FS_Subset

\* The wait is for a number of milliseconds.
LEMMA ExpireType ==
    ASSUME Types
    PROVE  GetNextExpire \in Nat
<1>1. now \in Nat
  BY DEF Types, Clock
<1>2. CASE timerSet = {}
  BY <1>2 DEF GetNextExpire
<1>3. CASE timerSet # {}
  <2>1. Earliest \in Nat
    BY <1>3, EarliestLeast DEF Types
  <2> QED  BY <1>1, <1>3, <2>1 DEF GetNextExpire
<1> QED  BY <1>2, <1>3

LEMMA FlagsStep ==
    ASSUME Flags, Next
    PROVE  Flags'
BY Zenon DEF Flags, Next, Step, ThreadStep, OwnerStep, Tick, SetBack, AddTimer, Insert,
   SetInsert, FirstTest, Tickle, CallbackTest, CancelErase, FindErase, RefreshErase,
   RefreshNext, RefreshInsert, ResetErase, ResetNext, Stop, Wait, Exit, LeaveWait,
   WaitEnds, SpuriousWakeup, ListExpiredCallback, DoFunc,
   timerVars, threadVars, ghostVars

LEMMA TypesStep ==
    ASSUME Types, StartInv, SetInv, CallsInv, Next
    PROVE  Types'
<1> USE DEF timerVars, threadVars, ghostVars
<1>1. CASE Tick
  BY <1>1 DEF Tick, Types, Clock
<1>2. CASE SetBack
  BY <1>2 DEF SetBack, Types
<1>3. CASE Stop
  BY <1>3 DEF Stop, Types
<1>4. CASE Wait
  <2>1. now \in Nat /\ GetNextExpire \in Nat
    BY ExpireType DEF Types, Clock
  <2> QED  BY <1>4, <2>1 DEF Wait, Types
<1>5. CASE Exit
  BY <1>5 DEF Exit, Types
<1>6. CASE WaitEnds \/ SpuriousWakeup
  <2>1. LeaveWait
    BY <1>6 DEF WaitEnds, SpuriousWakeup
  <2> QED  BY <2>1 DEF LeaveWait, Types
<1>7. CASE ListExpiredCallback
  <2>1. calls' \in Seq(Timers)
    BY <1>7, ExpiredFinite, OrderLists DEF ListExpiredCallback, Types
  <2>2. next' \in [Timers -> Nat]
    <3>1. \A t \in Timers : now + ms[t] \in Nat /\ next[t] \in Nat
      BY Numbers
    <3> QED  BY <1>7, <3>1 DEF ListExpiredCallback
  <2> QED  BY <1>7, <2>1, <2>2 DEF ListExpiredCallback, Types
<1>8. CASE DoFunc
  <2>1. calls \in Seq(Timers) /\ calls # <<>>
    BY <1>8 DEF DoFunc, CallsInv, Types
  <2>2. Head(calls) \in Timers /\ Tail(calls) \in Seq(Timers)
    BY <2>1
  <2> QED  BY <1>8, <2>2 DEF DoFunc, Types
<1>9. ASSUME NEW t \in Timers, OwnerStep(t)  PROVE Types'
  <2> USE DEF PCs
  <2>1. CASE Insert(t) \/ RefreshInsert(t)
    BY <2>1 DEF Insert, RefreshInsert, SetInsert, Goto, Types
  <2>2. CASE FirstTest(t)
    BY <2>2 DEF FirstTest, Goto, Types
  <2>3. CASE Tickle(t)
    BY <2>3 DEF Tickle, Goto, Types
  <2>4. CASE CancelErase(t)
    BY <2>4 DEF CancelErase, Goto, Types
  <2>5. CASE RefreshErase(t) \/ ResetErase(t)
    BY <2>5 DEF RefreshErase, ResetErase, FindErase, Goto, Types
  <2>6. CASE RefreshNext(t)
    <3>1. now + ms[t] \in Nat
      BY Numbers
    <3>2. next' \in [Timers -> Nat]
      BY <2>6, <3>1 DEF RefreshNext, Types
    <3> QED  BY <2>6, <3>2 DEF RefreshNext, Goto, Types
  <2>7. ASSUME NEW m \in Periods, NEW f \in BOOLEAN, ResetNext(t, m, f)  PROVE Types'
    <3>1. ResetStart(t, f) \in Nat
      <4>1. pc[t] # "none"
        BY <2>7 DEF ResetNext
      <4>2. ms[t] + Hour <= next[t] /\ next[t] \in Nat /\ ms[t] \in Nat /\ now \in Nat
        BY <4>1, Numbers DEF StartInv
      <4> QED  BY <4>2 DEF ResetStart
    <3>2. next' \in [Timers -> Nat] /\ ms' \in [Timers -> Periods \cup {0}]
      BY <2>7, <3>1 DEF ResetNext, Types
    <3> QED  BY <2>7, <3>2 DEF ResetNext, Goto, Types
  <2> QED  BY <1>9, <2>1, <2>2, <2>3, <2>4, <2>5, <2>6, <2>7 DEF OwnerStep
<1>10. ASSUME NEW t \in Timers, NEW m \in Periods, AddTimer(t, m)  PROVE Types'
  BY <1>10 DEF AddTimer, Goto, Types, Clock, PCs
<1>11. ASSUME NEW t \in Operated, NEW p \in {"cancel", "refreshErase", "resetErase"},
              CallbackTest(t, p)
       PROVE  Types'
  BY <1>11 DEF CallbackTest, Goto, Types, PCs
<1> QED
  BY <1>1, <1>2, <1>3, <1>4, <1>5, <1>6, <1>7, <1>8, <1>9, <1>10, <1>11
  DEF Next, Step, ThreadStep

LEMMA StartStep ==
    ASSUME Types, StartInv, SetInv, Next
    PROVE  StartInv'
<1> USE DEF timerVars, threadVars, ghostVars
<1>n. /\ now \in Nat /\ Hour <= now /\ now <= MaxTime
      /\ \A t \in Timers : next[t] \in Nat /\ ms[t] \in Nat
  BY Numbers
<1>1. CASE Tick
  BY <1>1, <1>n DEF Tick, StartInv
<1>2. CASE SetBack
  BY <1>2 DEF SetBack, StartInv
<1>3. CASE Wait
  <2>1. mayOversleep => mayOversleep'
    BY <1>3 DEF Wait
  <2> QED  BY <1>3, <2>1 DEF Wait, StartInv
<1>4. CASE ListExpiredCallback
  <2> SUFFICES ASSUME NEW t \in Timers, pc[t] # "none"
               PROVE  /\ ms[t] + Hour <= next'[t] /\ next'[t] <= MaxTime + ms[t]
                      /\ ~mayOversleep => next'[t] <= now + ms[t]
    BY <1>4 DEF ListExpiredCallback, StartInv
  <2>1. next'[t] = now + ms[t] \/ next'[t] = next[t]
    BY <1>4 DEF ListExpiredCallback
  <2> QED  BY <1>n, <2>1 DEF StartInv
<1>5. CASE UNCHANGED <<now, next, ms, pc, mayOversleep>>
  BY <1>5 DEF StartInv
<1>6. ASSUME NEW t \in Timers, NEW p, pc[t] # "none", Goto(t, p),
             UNCHANGED <<now, next, ms, mayOversleep>>
      PROVE  StartInv'
  <2>1. \A u \in Timers \ {t} : pc'[u] = pc[u]
    BY <1>6 DEF Goto, Types
  <2> QED  BY <1>6, <2>1 DEF StartInv
<1>7. ASSUME NEW t \in Timers, NEW n \in Nat, NEW m \in Nat, NEW p, Goto(t, p),
             m + Hour <= n, n <= MaxTime + m, ~mayOversleep => n <= now + m,
             next' = [next EXCEPT ![t] = n], ms' = [ms EXCEPT ![t] = m],
             UNCHANGED <<now, mayOversleep>>
      PROVE  StartInv'
  <2>1. \A u \in Timers \ {t} : pc'[u] = pc[u] /\ next'[u] = next[u] /\ ms'[u] = ms[u]
    BY <1>7 DEF Goto, Types
  <2>2. next'[t] = n /\ ms'[t] = m
    BY <1>7 DEF Types
  <2> QED  BY <1>7, <2>1, <2>2 DEF StartInv
<1>8. ASSUME NEW t \in Timers, OwnerStep(t)  PROVE StartInv'
  <2>1. CASE Insert(t)
    BY <1>6, <2>1 DEF Insert, SetInsert
  <2>2. CASE RefreshInsert(t)
    BY <1>6, <2>2 DEF RefreshInsert, SetInsert
  <2>3. CASE FirstTest(t)
    BY <1>6, <2>3 DEF FirstTest
  <2>4. CASE Tickle(t)
    BY <1>6, <2>4 DEF Tickle
  <2>5. CASE CancelErase(t)
    BY <1>6, <2>5 DEF CancelErase
  <2>6. CASE RefreshErase(t)
    BY <1>6, <2>6 DEF RefreshErase, FindErase
  <2>7. CASE ResetErase(t)
    BY <1>6, <2>7 DEF ResetErase, FindErase
  <2>8. CASE RefreshNext(t)
    <3>1. ms' = [ms EXCEPT ![t] = ms[t]] /\ now + ms[t] \in Nat
      BY <2>8, <1>n DEF RefreshNext, Types
    <3>2. ms[t] + Hour <= now + ms[t] /\ now + ms[t] <= MaxTime + ms[t]
      BY <1>n
    <3> DEFINE n == now + ms[t]
    <3>3. next' = [next EXCEPT ![t] = n] /\ Goto(t, "refreshInsert")
          /\ UNCHANGED <<now, mayOversleep>>
      BY <2>8 DEF RefreshNext
    <3>4. n <= now + ms[t]
      BY <1>n
    <3> HIDE DEF n
    <3>5. n \in Nat /\ ms[t] \in Nat /\ ms[t] + Hour <= n /\ n <= MaxTime + ms[t]
      BY <1>n, <3>1, <3>2 DEF n
    <3> QED  BY <1>7, <3>1, <3>3, <3>4, <3>5
  <2>9. ASSUME NEW m \in Periods, NEW f \in BOOLEAN, ResetNext(t, m, f)  PROVE StartInv'
    <3> DEFINE n == ResetStart(t, f) + m
    <3>1. /\ m \in Nat /\ pc[t] # "none"
          /\ next[t] \in Nat /\ ms[t] \in Nat
      BY <1>n, <2>9 DEF ResetNext
    <3>2. /\ ms[t] + Hour <= next[t] /\ next[t] <= MaxTime + ms[t]
          /\ ~mayOversleep => next[t] <= now + ms[t]
      BY <3>1 DEF StartInv
    <3>3. /\ n \in Nat /\ m + Hour <= n /\ n <= MaxTime + m
          /\ ~mayOversleep => n <= now + m
      BY <1>n, <3>1, <3>2 DEF ResetStart
    <3>4. /\ next' = [next EXCEPT ![t] = n] /\ ms' = [ms EXCEPT ![t] = m]
          /\ Goto(t, "insert") /\ UNCHANGED <<now, mayOversleep>>
      BY <2>9 DEF ResetNext
    <3> HIDE DEF n
    <3> QED  BY <1>7, <3>1, <3>3, <3>4
  <2> QED  BY <1>8, <2>1, <2>2, <2>3, <2>4, <2>5, <2>6, <2>7, <2>8, <2>9 DEF OwnerStep
<1>9. ASSUME NEW t \in Timers, NEW m \in Periods, AddTimer(t, m)  PROVE StartInv'
  <2>1. now + m \in Nat /\ m \in Nat /\ m + Hour <= now + m /\ now + m <= MaxTime + m
    BY <1>n
  <2> DEFINE n == now + m
  <2>2. /\ next' = [next EXCEPT ![t] = n] /\ ms' = [ms EXCEPT ![t] = m]
        /\ Goto(t, "insert") /\ UNCHANGED <<now, mayOversleep>>
    BY <1>9 DEF AddTimer
  <2>3. n <= now + m /\ n \in Nat /\ m \in Nat /\ m + Hour <= n /\ n <= MaxTime + m
    BY <1>n, <2>1
  <2> HIDE DEF n
  <2> QED  BY <1>7, <2>2, <2>3
<1>10. ASSUME NEW t \in Operated, NEW p \in {"cancel", "refreshErase", "resetErase"},
              CallbackTest(t, p)
       PROVE  StartInv'
  BY <1>6, <1>10 DEF CallbackTest
<1>11. CASE Stop \/ Exit \/ DoFunc \/ WaitEnds \/ SpuriousWakeup
  BY <1>5, <1>11 DEF Stop, Exit, DoFunc, WaitEnds, SpuriousWakeup, LeaveWait
<1> QED
  BY <1>1, <1>2, <1>3, <1>4, <1>8, <1>9, <1>10, <1>11 DEF Next, Step, ThreadStep

\* A timer is inserted by the owner that has it in its hands.
LEMMA SetStep ==
    ASSUME Types, SetInv, Next
    PROVE  SetInv'
<1> USE DEF timerVars, threadVars, ghostVars
<1>1. CASE UNCHANGED <<timerSet, pc>>
  BY <1>1 DEF SetInv
<1>2. CASE ListExpiredCallback
  <2>1. timerSet' \subseteq timerSet /\ pc' = pc
    BY <1>2 DEF ListExpiredCallback
  <2> QED  BY <2>1, FS_Subset DEF SetInv
<1>3. ASSUME NEW t \in Timers, NEW p, p \notin Hand, p # "none", Goto(t, p),
             timerSet' \in {timerSet, timerSet \cup {t}, timerSet \ {t}}
      PROVE  SetInv'
  <2>1. IsFiniteSet(timerSet')
    BY <1>3, FS_AddElement, FS_RemoveElement DEF SetInv
  <2>2. pc'[t] = p /\ \A u \in Timers \ {t} : pc'[u] = pc[u]
    BY <1>3 DEF Goto, Types
  <2> QED  BY <1>3, <2>1, <2>2 DEF SetInv, Types
<1>4. ASSUME NEW t \in Timers, NEW p, t \notin timerSet', Goto(t, p),
             timerSet' \in {timerSet, timerSet \ {t}}
      PROVE  SetInv'
  <2>1. IsFiniteSet(timerSet')
    BY <1>4, FS_RemoveElement DEF SetInv
  <2>2. \A u \in Timers \ {t} : pc'[u] = pc[u]
    BY <1>4 DEF Goto, Types
  <2> QED  BY <1>4, <2>1, <2>2 DEF SetInv, Types
<1> USE DEF Hand
<1>5. ASSUME NEW t \in Timers, OwnerStep(t)  PROVE SetInv'
  <2>1. CASE Insert(t)
    BY <1>3, <2>1 DEF Insert, SetInsert
  <2>2. CASE RefreshInsert(t)
    BY <1>3, <2>2 DEF RefreshInsert, SetInsert
  <2>3. CASE FirstTest(t)
    BY <1>3, <2>3 DEF FirstTest
  <2>4. CASE Tickle(t)
    BY <1>3, <2>4 DEF Tickle
  <2>5. CASE CancelErase(t)
    BY <1>4, <2>5 DEF CancelErase
  <2>6. CASE RefreshErase(t)
    BY <1>4, <2>6 DEF RefreshErase, FindErase
  <2>7. CASE ResetErase(t)
    BY <1>4, <2>7 DEF ResetErase, FindErase
  <2>8. CASE RefreshNext(t)
    BY <1>4, <2>8 DEF RefreshNext, SetInv
  <2>9. ASSUME NEW m \in Periods, NEW f \in BOOLEAN, ResetNext(t, m, f)  PROVE SetInv'
    BY <1>4, <2>9 DEF ResetNext, SetInv
  <2> QED  BY <1>5, <2>1, <2>2, <2>3, <2>4, <2>5, <2>6, <2>7, <2>8, <2>9 DEF OwnerStep
<1>6. ASSUME NEW t \in Timers, NEW m \in Periods, AddTimer(t, m)  PROVE SetInv'
  BY <1>4, <1>6 DEF AddTimer, SetInv
<1>7. ASSUME NEW t \in Operated, NEW p \in {"cancel", "refreshErase", "resetErase"},
             CallbackTest(t, p)
      PROVE  SetInv'
  BY <1>3, <1>7 DEF CallbackTest
<1>8. CASE Tick \/ SetBack \/ Stop \/ Wait \/ Exit \/ DoFunc \/ WaitEnds \/ SpuriousWakeup
  BY <1>1, <1>8 DEF Tick, SetBack, Stop, Wait, Exit, DoFunc, WaitEnds, SpuriousWakeup, LeaveWait
<1> QED
  BY <1>2, <1>5, <1>6, <1>7, <1>8 DEF Next, Step, ThreadStep

\* The thread fills the list when it has run all of it.
LEMMA CallsStep ==
    ASSUME Types, SetInv, CallsInv, Next
    PROVE  CallsInv'
<1> USE DEF timerVars, threadVars, ghostVars
<1>1. CASE calls' = calls /\ (thread' = "call" <=> thread = "call")
  BY <1>1 DEF CallsInv
<1>2. CASE ListExpiredCallback
  <2>1. calls' = InSetOrder(Expired) /\ thread' = IF Expired = {} THEN "loop" ELSE "call"
    BY <1>2 DEF ListExpiredCallback
  <2>2. next \in [Timers -> Nat] /\ Expired \in SUBSET Timers /\ IsFiniteSet(Expired)
    BY ExpiredFinite DEF Types
  <2>3. /\ calls' = <<>> <=> Expired = {}
        /\ \A i, j \in 1..Len(calls') : calls'[i] = calls'[j] => i = j
    BY <2>1, <2>2, OrderLists
  <2> QED  BY <2>1, <2>3 DEF CallsInv
<1>3. CASE DoFunc
  <2>1. calls \in Seq(Timers) /\ calls # <<>> /\ calls' = Tail(calls)
        /\ thread' = IF Len(calls) = 1 THEN "loop" ELSE "call"
    BY <1>3 DEF DoFunc, CallsInv, Types
  <2>2. calls' = <<>> <=> Len(calls) = 1
    <3>1. calls' \in Seq(Timers) /\ Len(calls) \in Nat /\ Len(calls') = Len(calls) - 1
      BY <2>1
    <3>2. calls' = <<>> <=> Len(calls') = 0
      BY <3>1
    <3> QED  BY <3>1, <3>2
  <2>3. Len(calls) \in Nat /\ Len(calls') = Len(calls) - 1
        /\ \A i \in 1..Len(calls') : calls'[i] = calls[i + 1]
    BY <2>1
  <2>4. ASSUME NEW i \in 1..Len(calls'), NEW j \in 1..Len(calls'), calls'[i] = calls'[j]
        PROVE  i = j
    <3>1. calls[i + 1] = calls[j + 1] /\ i + 1 \in 1..Len(calls) /\ j + 1 \in 1..Len(calls)
      BY <2>3, <2>4
    <3>2. i + 1 = j + 1
      BY <3>1 DEF CallsInv
    <3> QED  BY <2>3, <3>2
  <2> QED  BY <2>1, <2>2, <2>4 DEF CallsInv
<1>4. ASSUME NEW t \in Timers, OwnerStep(t)  PROVE CallsInv'
  BY <1>1, <1>4 DEF OwnerStep, Insert, RefreshInsert, SetInsert, FirstTest, Tickle, CancelErase,
     RefreshErase, ResetErase, FindErase, RefreshNext, ResetNext
<1>5. ASSUME NEW t \in Timers, NEW m \in Periods, AddTimer(t, m)  PROVE CallsInv'
  BY <1>1, <1>5 DEF AddTimer
<1>6. ASSUME NEW t \in Operated, NEW p \in {"cancel", "refreshErase", "resetErase"},
             CallbackTest(t, p)
      PROVE  CallsInv'
  BY <1>1, <1>6 DEF CallbackTest
<1>7. CASE Tick \/ SetBack \/ Stop \/ Wait \/ Exit \/ WaitEnds \/ SpuriousWakeup
  BY <1>1, <1>7 DEF Tick, SetBack, Stop, Wait, Exit, WaitEnds, SpuriousWakeup, LeaveWait
<1> QED
  BY <1>2, <1>3, <1>4, <1>5, <1>6, <1>7 DEF Next, Step, ThreadStep

\* A timer moves from one of its five places to another.
LEMMA PlaceStep ==
    ASSUME Types, SetInv, CallsInv, PlaceInv, Next
    PROVE  PlaceInv'
<1> USE DEF timerVars, threadVars, ghostVars
<1> DEFINE Placed(t) == IF pc[t] = "none" THEN ~Listed(t) /\ t \notin fired /\ t \notin cancelled
                                          ELSE InOnePlace(t)
<1>i. \A t \in Timers \ Recurring : Placed(t)
  BY DEF PlaceInv, Next
<1>p. (\A t \in Timers \ Recurring : Placed(t)') => PlaceInv'
  BY DEF PlaceInv
<1>f. ASSUME NEW t \in Timers \ Recurring, pc'[t] = pc[t], t \in timerSet' <=> t \in timerSet,
             Listed(t)' <=> Listed(t), t \in fired' <=> t \in fired,
             t \in cancelled' <=> t \in cancelled
      PROVE  Placed(t)'
  BY <1>i, <1>f DEF InOnePlace
<1> HIDE DEF Placed
<1>1. CASE UNCHANGED <<pc, timerSet, calls, fired, cancelled>>
  <2>1. \A t : Listed(t)' <=> Listed(t)
    BY <1>1 DEF Listed
  <2> QED  BY <1>1, <1>f, <1>p, <2>1
<1>2. CASE ListExpiredCallback
  <2> SUFFICES ASSUME NEW t \in Timers \ Recurring  PROVE Placed(t)'
    BY <1>p
  <2>1. calls = <<>>
    BY <1>2 DEF ListExpiredCallback, CallsInv
  <2>2. ~Listed(t)
    BY <2>1 DEF Listed
  <2>3. Listed(t)' <=> t \in Expired
    <3>1. next \in [Timers -> Nat] /\ Expired \in SUBSET Timers /\ IsFiniteSet(Expired)
      BY ExpiredFinite DEF Types
    <3>2. (\E i \in 1..Len(InSetOrder(Expired)) : InSetOrder(Expired)[i] = t) <=> t \in Expired
      BY <3>1, OrderLists
    <3> QED  BY <1>2, <3>2 DEF ListExpiredCallback, Listed
  <2>4. /\ t \in timerSet' <=> t \in timerSet /\ t \notin Expired
        /\ pc' = pc /\ fired' = fired /\ cancelled' = cancelled
    BY <1>2 DEF ListExpiredCallback
  <2>5. t \in Expired => t \in timerSet /\ pc[t] # "none" /\ pc[t] \notin Hand
    BY ExpiredFinite DEF SetInv
  <2> QED  BY <1>i, <2>2, <2>3, <2>4, <2>5 DEF Placed, InOnePlace
<1>3. CASE DoFunc
  <2> SUFFICES ASSUME NEW t \in Timers \ Recurring  PROVE Placed(t)'
    BY <1>p
  <2>1. calls \in Seq(Timers) /\ calls # <<>> /\ calls' = Tail(calls)
    BY <1>3 DEF DoFunc, CallsInv, Types
  <2>2. Len(calls) \in Nat /\ Len(calls) >= 1 /\ Len(calls') = Len(calls) - 1
        /\ calls[1] = Head(calls) /\ \A i \in 1..Len(calls') : calls'[i] = calls[i + 1]
    BY <2>1
  <2>3. /\ pc' = pc /\ timerSet' = timerSet /\ cancelled' = cancelled
        /\ t \in fired' <=> t \in fired \/ t = Head(calls)
    BY <1>3 DEF DoFunc
  <2>4. CASE t = Head(calls)
    <3>1. Listed(t)
      BY <2>2, <2>4 DEF Listed
    <3>2. ~Listed(t)'
      <4> SUFFICES ASSUME NEW i \in 1..Len(calls'), calls'[i] = t  PROVE FALSE
        BY DEF Listed
      <4>1. calls[i + 1] = calls[1] /\ i + 1 \in 1..Len(calls) /\ 1 \in 1..Len(calls)
        BY <2>2, <2>4
      <4>2. i + 1 = 1
        BY <4>1 DEF CallsInv
      <4> QED  BY <2>2, <4>2
    <3> QED  BY <1>i, <2>3, <2>4, <3>1, <3>2 DEF Placed, InOnePlace
  <2>5. CASE t # Head(calls)
    <3>1. Listed(t)' => Listed(t)
      <4> SUFFICES ASSUME NEW i \in 1..Len(calls'), calls'[i] = t  PROVE Listed(t)
        BY DEF Listed
      <4>1. calls[i + 1] = t /\ i + 1 \in 1..Len(calls)
        BY <2>2
      <4> QED  BY <4>1 DEF Listed
    <3>2. Listed(t) => Listed(t)'
      <4> SUFFICES ASSUME NEW i \in 1..Len(calls), calls[i] = t  PROVE Listed(t)'
        BY DEF Listed
      <4>1. i # 1 /\ i - 1 \in 1..Len(calls')
        BY <2>2, <2>5
      <4>2. calls'[i - 1] = calls[(i - 1) + 1] /\ (i - 1) + 1 = i
        BY <2>2, <4>1
      <4> QED  BY <4>1, <4>2 DEF Listed
    <3> QED  BY <1>f, <2>3, <2>5, <3>1, <3>2
  <2> QED  BY <2>4, <2>5
\* A step of the owner of t leaves every other timer where it is.
<1>4. ASSUME NEW t \in Timers, NEW p, Goto(t, p), calls' = calls, fired' = fired,
             timerSet' \in {timerSet, timerSet \cup {t}, timerSet \ {t}},
             cancelled' \in {cancelled, cancelled \cup {t}},
             t \notin Recurring => Placed(t)'
      PROVE  PlaceInv'
  <2>1. \A u \in Timers \ {t} : pc'[u] = pc[u]
    BY <1>4 DEF Goto, Types
  <2>2. ASSUME NEW u \in Timers \ Recurring, u # t  PROVE Placed(u)'
    <3>1. Listed(u)' <=> Listed(u)
      BY <1>4 DEF Listed
    <3>2. /\ u \in timerSet' <=> u \in timerSet
          /\ u \in cancelled' <=> u \in cancelled
      BY <1>4, <2>2
    <3> QED  BY <1>4, <1>f, <2>1, <2>2, <3>1, <3>2
  <2> QED  BY <1>4, <1>p, <2>2
\* Steps of the owner that leave the timer in its place.
<1>5. ASSUME NEW t \in Timers, NEW p, Goto(t, p),
             UNCHANGED <<timerSet, calls, fired, cancelled>>,
             pc[t] # "none", p # "none", pc[t] \in Hand <=> p \in Hand
      PROVE  PlaceInv'
  <2>1. Listed(t)' <=> Listed(t)
    BY <1>5 DEF Listed
  <2>2. pc'[t] = p
    BY <1>5 DEF Goto, Types
  <2>3. t \notin Recurring => Placed(t)'
    BY <1>i, <1>5, <2>1, <2>2 DEF Placed, InOnePlace
  <2> QED  BY <1>4, <1>5, <2>3
\* From the hands of the owner into the set.
<1>6. ASSUME NEW t \in Timers, NEW p, pc[t] \in Hand, p \notin Hand, p # "none", SetInsert(t, p)
      PROVE  PlaceInv'
  <2>1. Listed(t)' <=> Listed(t)
    BY <1>6 DEF SetInsert, Listed
  <2>2. pc'[t] = p
    BY <1>6 DEF SetInsert, Goto, Types
  <2>3. t \notin Recurring => Placed(t)'
    BY <1>i, <1>6, <2>1, <2>2 DEF Placed, InOnePlace, SetInsert, Hand
  <2> QED  BY <1>4, <1>6, <2>3 DEF SetInsert
\* Out of the set, if it is there, into the hands of the owner.
<1>7. ASSUME NEW t \in Timers, NEW p, pc[t] \notin Hand, pc[t] # "none", p \in Hand, FindErase(t, p)
      PROVE  PlaceInv'
  <2> DEFINE q == IF t \in timerSet THEN p ELSE "idle"
  <2>1. Listed(t)' <=> Listed(t)
    BY <1>7 DEF FindErase, Listed
  <2>2. pc'[t] = q /\ Goto(t, q)
    BY <1>7 DEF FindErase, Goto, Types
  <2>3. /\ timerSet' = timerSet \ {t} /\ UNCHANGED <<calls, fired, cancelled>>
    BY <1>7 DEF FindErase
  <2>4. t \notin Recurring => Placed(t)'
    BY <1>i, <1>7, <2>1, <2>2, <2>3 DEF Placed, InOnePlace, Hand
  <2> HIDE DEF q
  <2> QED  BY <1>4, <2>2, <2>3, <2>4
<1>8. ASSUME NEW t \in Timers, CancelErase(t)  PROVE PlaceInv'
  <2>1. CASE t \notin timerSet
    BY <1>8, <2>1 DEF CancelErase, PlaceInv
  <2>2. CASE t \in timerSet
    <3>1. Listed(t)' <=> Listed(t)
      BY <1>8 DEF CancelErase, Listed
    <3>2. pc'[t] = "idle" /\ Goto(t, "idle")
      BY <1>8 DEF CancelErase, Goto, Types
    <3>3. /\ timerSet' = timerSet \ {t} /\ cancelled' = cancelled \cup {t}
          /\ UNCHANGED <<calls, fired>>
      BY <1>8 DEF CancelErase
    <3>4. t \notin Recurring => Placed(t)'
      BY <1>i, <1>8, <2>2, <3>1, <3>2, <3>3 DEF Placed, InOnePlace, Hand, CancelErase
    <3> QED  BY <1>4, <3>2, <3>3, <3>4
  <2> QED  BY <2>1, <2>2
<1>9. ASSUME NEW t \in Timers, NEW m \in Periods, AddTimer(t, m)  PROVE PlaceInv'
  <2>1. Listed(t)' <=> Listed(t)
    BY <1>9 DEF AddTimer, Listed
  <2>2. pc'[t] = "insert" /\ Goto(t, "insert") /\ t \notin timerSet /\ pc[t] = "none"
    BY <1>9 DEF AddTimer, Goto, Types, SetInv
  <2>3. UNCHANGED <<timerSet, calls, fired, cancelled>>
    BY <1>9 DEF AddTimer
  <2>4. t \notin Recurring => Placed(t)'
    BY <1>i, <2>1, <2>2, <2>3 DEF Placed, InOnePlace, Hand
  <2> QED  BY <1>4, <2>2, <2>3, <2>4
<1> USE DEF Hand
<1>10. ASSUME NEW t \in Timers, OwnerStep(t)  PROVE PlaceInv'
  <2>1. CASE Insert(t)
    BY <1>6, <2>1 DEF Insert
  <2>2. CASE RefreshInsert(t)
    BY <1>6, <2>2 DEF RefreshInsert
  <2>3. CASE FirstTest(t)
    BY <1>5, <2>3 DEF FirstTest
  <2>4. CASE Tickle(t)
    BY <1>5, <2>4 DEF Tickle
  <2>5. CASE CancelErase(t)
    BY <1>8, <2>5
  <2>6. CASE RefreshErase(t)
    BY <1>7, <2>6 DEF RefreshErase
  <2>7. CASE ResetErase(t)
    BY <1>7, <2>7 DEF ResetErase
  <2>8. CASE RefreshNext(t)
    BY <1>5, <2>8 DEF RefreshNext
  <2>9. ASSUME NEW m \in Periods, NEW f \in BOOLEAN, ResetNext(t, m, f)  PROVE PlaceInv'
    BY <1>5, <2>9 DEF ResetNext
  <2> QED  BY <1>10, <2>1, <2>2, <2>3, <2>4, <2>5, <2>6, <2>7, <2>8, <2>9 DEF OwnerStep
<1>11. ASSUME NEW t \in Operated, NEW p \in {"cancel", "refreshErase", "resetErase"},
              CallbackTest(t, p)
       PROVE  PlaceInv'
  BY <1>5, <1>11 DEF CallbackTest
<1>12. CASE Tick \/ SetBack \/ Stop \/ Wait \/ Exit \/ WaitEnds \/ SpuriousWakeup
  BY <1>1, <1>12 DEF Tick, SetBack, Stop, Wait, Exit, WaitEnds, SpuriousWakeup, LeaveWait
<1> QED
  BY <1>2, <1>3, <1>9, <1>10, <1>11, <1>12 DEF Next, Step, ThreadStep

\* The thread's wait ends in time: the deadline is past no m_next, or an owner
\* comes to the notification.
LEMMA AwakeStep ==
    ASSUME Types, Types', StartInv, SetInv, AwakeInv, Next
    PROVE  AwakeInv'
<1> USE DEF timerVars, threadVars, ghostVars
<1>n. /\ now \in Nat /\ Hour <= now /\ now <= MaxTime
      /\ deadline \in Nat
      /\ \A t \in Timers : next[t] \in Nat /\ ms[t] \in Nat
  BY Numbers
<1> DEFINE Late == thread = "wait" /\ ~signalled /\ now < deadline
           Covered == \A t \in Coming : deadline <= next[t]
           Tickling == \E u \in Timers : pc[u] = "tickle"
           Found == \E m \in timerSet : /\ pc[m] = "first" /\ next[m] < deadline
                                        /\ \A t \in Coming \ {m} : Before(m, t)
<1>a. AwakeInv <=> (~mayOversleep /\ Late => Covered \/ Tickling \/ Found)
  BY DEF AwakeInv
<1>b. AwakeInv' <=> (~mayOversleep' /\ Late' => Covered' \/ Tickling' \/ Found')
  BY DEF AwakeInv
<1>1. CASE Tick
  <2>1. Late' => Late
    BY <1>n, <1>1 DEF Tick
  <2>2. Covered \/ Tickling \/ Found => Covered' \/ Tickling' \/ Found'
    BY <1>1 DEF Tick, Coming, Before
  <2> HIDE DEF Late, Covered, Tickling, Found
  <2> QED  BY <1>1, <1>a, <1>b, <2>1, <2>2 DEF Tick
<1>2. CASE SetBack
  BY <1>2, <1>b DEF SetBack
<1>3. CASE Wait
  <2> SUFFICES ASSUME ~mayOversleep', Late'  PROVE Covered'
    BY <1>b
  <2>1. /\ \A t \in Timers : pc[t] \notin {"refreshNext", "refreshInsert"}
        /\ pc' = pc /\ next' = next /\ timerSet' = timerSet /\ now' = now
        /\ deadline' = now + GetNextExpire
    BY <1>3 DEF Wait
  <2>2. Coming' = timerSet
    BY <2>1 DEF Coming
  <2>3. ASSUME NEW t \in timerSet  PROVE deadline' <= next[t]
    <3>1. Earliest \in Nat /\ Earliest <= next[t] /\ timerSet # {}
      BY EarliestLeast DEF Types
    <3>2. CASE now >= Earliest
      <4>1. deadline' = now + 0
        BY <2>1, <3>1, <3>2 DEF GetNextExpire
      <4> QED  BY <1>n, <2>1, <4>1
    <3>3. CASE ~(now >= Earliest)
      <4>1. deadline' = now + (Earliest - now)
        BY <2>1, <3>1, <3>3 DEF GetNextExpire
      <4> QED  BY <1>n, <3>1, <4>1 DEF Types
    <3> QED  BY <3>2, <3>3
  <2> QED  BY <2>1, <2>2, <2>3
<1>4. CASE thread' # "wait"
  BY <1>4, <1>b
<1>5. CASE UNCHANGED <<now, timerSet, next, pc, thread, deadline, signalled, mayOversleep>>
  BY <1>5 DEF AwakeInv, Coming, Before
\* The step of an owner, while the thread waits.
<1>6. ASSUME NEW t \in Timers, NEW p \in PCs, Goto(t, p),
             UNCHANGED <<now, thread, deadline, signalled, mayOversleep>>,
             ~mayOversleep /\ Late /\ (Covered \/ Tickling \/ Found)
                 => Covered' \/ Tickling' \/ Found'
      PROVE  AwakeInv'
  <2>1. Late' <=> Late
    BY <1>6
  <2> HIDE DEF Late, Covered, Tickling, Found
  <2> QED  BY <1>6, <1>a, <1>b, <2>1
<1>t. timerSet \subseteq Timers /\ Coming \subseteq Timers /\ timerSet \subseteq Coming
  BY DEF Types, Coming
\* A step that brings no timer nearer, of an owner nobody counts on.
<1>7. ASSUME NEW t \in Timers, NEW p \in PCs, Goto(t, p),
             UNCHANGED <<now, thread, deadline, signalled, mayOversleep>>,
             pc[t] \notin {"first", "tickle"},
             Coming' \subseteq Coming,
             timerSet \ {t} \subseteq timerSet',
             \A u \in Timers \ {t} : next'[u] = next[u],
             ~mayOversleep /\ t \in Coming' => next[t] <= next'[t]
      PROVE  AwakeInv'
  <2>1. \A u \in Timers \ {t} : pc'[u] = pc[u]
    BY <1>7 DEF Goto, Types
  <2>2. next'[t] \in Nat /\ next[t] \in Nat
    BY <1>n, <1>7 DEF Types
  <2>3. ASSUME ~mayOversleep, Covered  PROVE Covered'
    <3> SUFFICES ASSUME NEW u \in Coming'  PROVE deadline <= next'[u]
      BY <1>7
    <3>1. u \in Timers /\ deadline <= next[u]
      BY <1>7, <1>t, <2>3
    <3>2. next[u] <= next'[u] /\ next[u] \in Nat /\ next'[u] \in Nat
      BY <1>7, <1>n, <2>2, <2>3, <3>1
    <3> QED  BY <1>n, <3>1, <3>2
  <2>4. Tickling => Tickling'
    BY <1>7, <2>1
  <2>5. ASSUME ~mayOversleep, NEW m \in timerSet, pc[m] = "first", next[m] < deadline,
               \A u \in Coming \ {m} : Before(m, u)
        PROVE  Found'
    <3>1. m # t /\ m \in Timers /\ m \in timerSet'
      BY <1>7, <1>t, <2>5
    <3>2. pc'[m] = "first" /\ next'[m] = next[m] /\ next'[m] < deadline'
      BY <1>7, <2>1, <2>5, <3>1
    <3>3. ASSUME NEW u \in Coming' \ {m}  PROVE Before(m, u)'
      <4>1. u \in Timers /\ Before(m, u)
        BY <1>7, <1>t, <2>5
      <4>2. next[u] <= next'[u] /\ next[u] \in Nat /\ next'[u] \in Nat /\ next[m] \in Nat
        BY <1>7, <1>n, <2>2, <2>5, <3>1, <4>1
      <4> QED  BY <3>2, <4>1, <4>2 DEF Before
    <3> QED  BY <3>1, <3>2, <3>3
  <2>6. ~mayOversleep /\ (Covered \/ Tickling \/ Found) => Covered' \/ Tickling' \/ Found'
    <3>1. ~mayOversleep /\ Found => Found'
      BY <2>5
    <3> HIDE DEF Covered, Tickling, Found
    <3> QED  BY <2>3, <2>4, <3>1
  <2> HIDE DEF Late, Covered, Tickling, Found
  <2> QED  BY <1>6, <1>7, <2>6
\* addTimer's insert: the new timer is the first of all, or changes nothing.
<1>8. ASSUME NEW t \in Timers, Insert(t)  PROVE AwakeInv'
  <2>1. /\ pc[t] = "insert" /\ timerSet' = timerSet \cup {t} /\ next' = next
        /\ Goto(t, "first")
        /\ UNCHANGED <<now, thread, deadline, signalled, mayOversleep>>
    BY <1>8 DEF Insert, SetInsert
  <2>2. pc'[t] = "first" /\ \A u \in Timers \ {t} : pc'[u] = pc[u]
    BY <2>1 DEF Goto, Types
  <2>3. Coming' = Coming \cup {t} /\ t \notin timerSet
    BY <2>1, <2>2 DEF Coming, SetInv, Hand, Types
  <2>4. \A u, v : Before(u, v)' <=> Before(u, v)
    BY <2>1 DEF Before
  <2>5. Covered => Covered' \/ Found'
    <3> SUFFICES ASSUME Covered, ~(deadline <= next[t])  PROVE Found'
      BY <2>1, <2>3
    <3>1. next[t] < deadline
      BY <1>n
    <3>2. ASSUME NEW u \in Coming' \ {t}  PROVE Before(t, u)
      <4>1. u \in Timers /\ deadline <= next[u]
        BY <1>t, <2>3
      <4> QED  BY <1>n, <3>1, <4>1 DEF Before
    <3> QED  BY <2>1, <2>2, <2>4, <3>1, <3>2
  <2>6. Tickling => Tickling'
    BY <2>1, <2>2
  <2>7. ASSUME NEW m \in timerSet, pc[m] = "first", next[m] < deadline,
               \A u \in Coming \ {m} : Before(m, u)
        PROVE  Found'
    <3>1. m \in Timers /\ m # t /\ pc'[m] = "first"
      BY <1>t, <2>2, <2>3, <2>7
    <3>2. CASE Before(m, t)
      <4>1. \A u \in Coming' \ {m} : Before(m, u)'
        BY <2>3, <2>4, <2>7, <3>2
      <4> QED  BY <2>1, <2>7, <3>1, <4>1
    <3>3. CASE Before(t, m)
      <4>1. next[t] <= next[m]
        BY <3>1, <3>3, BeforeOrder DEF Types
      <4>2. next'[t] < deadline'
        BY <1>n, <2>1, <2>7, <3>1, <4>1
      <4>3. ASSUME NEW u \in Coming' \ {t}  PROVE Before(t, u)'
        <5>1. u \in Timers /\ (u = m \/ Before(m, u))
          BY <1>t, <2>3, <2>7
        <5>2. Before(t, u)
          BY <3>1, <3>3, <5>1, BeforeOrder DEF Types
        <5> QED  BY <2>4, <5>2
      <4> QED  BY <2>1, <2>2, <4>2, <4>3
    <3> QED  BY <3>1, <3>2, <3>3, BeforeOrder DEF Types
  <2>8. Found => Found'
    BY <2>7
  <2> HIDE DEF Late, Covered, Tickling, Found
  <2> QED  BY <1>6, <2>1, <2>5, <2>6, <2>8 DEF PCs
\* addTimer's look at the front of the set: the first of all is found there.
<1>9. ASSUME NEW t \in Timers, FirstTest(t)  PROVE AwakeInv'
  <2>1. /\ pc[t] = "first" /\ timerSet' = timerSet /\ next' = next
        /\ UNCHANGED <<now, thread, deadline, signalled, mayOversleep>>
    BY <1>9 DEF FirstTest
  <2>2. CASE Goto(t, "tickle")
    <3>1. Tickling'
      BY <2>2 DEF Goto, Types
    <3> HIDE DEF Late, Covered, Tickling, Found
    <3> QED  BY <1>b, <3>1
  <2>3. CASE ~IsFirst(t) /\ Goto(t, "idle")
    <3>1. pc'[t] = "idle" /\ \A u \in Timers \ {t} : pc'[u] = pc[u]
      BY <2>3 DEF Goto, Types
    <3>2. Coming' = Coming
      BY <2>1, <3>1 DEF Coming
    <3>3. \A u, v : Before(u, v)' <=> Before(u, v)
      BY <2>1 DEF Before
    <3>4. (Covered => Covered') /\ (Tickling => Tickling')
      BY <2>1, <3>1, <3>2
    <3>5. ASSUME NEW m \in timerSet, pc[m] = "first", next[m] < deadline,
                 \A u \in Coming \ {m} : Before(m, u)
          PROVE  Found'
      <4>1. IsFirst(m)
        BY <1>t, <3>5 DEF IsFirst
      <4>2. m # t /\ pc'[m] = "first"
        BY <1>t, <2>3, <3>1, <3>5, <4>1
      <4> QED  BY <2>1, <3>2, <3>3, <3>5, <4>2
    <3>6. Found => Found'
      BY <3>5
    <3> HIDE DEF Late, Covered, Tickling, Found
    <3> QED  BY <1>6, <2>1, <2>3, <3>4, <3>6 DEF PCs
  <2> QED  BY <1>9, <2>2, <2>3 DEF FirstTest
<1>10. ASSUME NEW t \in Timers, Tickle(t)  PROVE AwakeInv'
  <2>1. ~Late'
    BY <1>10 DEF Tickle
  <2> HIDE DEF Late, Covered, Tickling, Found
  <2> QED  BY <1>b, <2>1
\* The steps of refreshTimer and resetTimer, and cancelTimer.
<1>11. ASSUME NEW t \in Timers, OwnerStep(t)  PROVE AwakeInv'
  <2> USE DEF PCs
  <2>1. ASSUME NEW p \in PCs, Goto(t, p)
        PROVE  pc'[t] = p /\ \A u \in Timers \ {t} : pc'[u] = pc[u]
    BY <2>1 DEF Goto, Types
  <2>2. CASE CancelErase(t)
    <3>1. Coming' \subseteq Coming
      BY <2>1, <2>2 DEF CancelErase, Coming
    <3> QED  BY <1>7, <2>2, <3>1, <1>n DEF CancelErase
  <2>3. CASE RefreshErase(t)
    <3> DEFINE p == IF t \in timerSet THEN "refreshNext" ELSE "idle"
    <3>1. Goto(t, p) /\ p \in PCs
      BY <2>3 DEF RefreshErase, FindErase
    <3>2. /\ pc[t] = "refreshErase" /\ timerSet' = timerSet \ {t} /\ next' = next
          /\ UNCHANGED <<now, thread, deadline, signalled, mayOversleep>>
      BY <2>3 DEF RefreshErase, FindErase
    <3>3. Coming' \subseteq Coming
      BY <2>1, <3>1, <3>2 DEF Coming
    <3> HIDE DEF p
    <3> QED  BY <1>7, <1>n, <3>1, <3>2, <3>3
  <2>4. CASE ResetErase(t)
    <3> DEFINE p == IF t \in timerSet THEN "resetNext" ELSE "idle"
    <3>1. Goto(t, p) /\ p \in PCs
      BY <2>4 DEF ResetErase, FindErase
    <3>2. /\ pc[t] = "resetErase" /\ timerSet' = timerSet \ {t} /\ next' = next
          /\ UNCHANGED <<now, thread, deadline, signalled, mayOversleep>>
      BY <2>4 DEF ResetErase, FindErase
    <3>3. Coming' \subseteq Coming
      BY <2>1, <3>1, <3>2 DEF Coming
    <3> HIDE DEF p
    <3> QED  BY <1>7, <1>n, <3>1, <3>2, <3>3
  <2>5. CASE RefreshNext(t)
    <3>1. /\ pc[t] = "refreshNext" /\ timerSet' = timerSet /\ Goto(t, "refreshInsert")
          /\ next' = [next EXCEPT ![t] = now + ms[t]]
          /\ UNCHANGED <<now, thread, deadline, signalled, mayOversleep>>
      BY <2>5 DEF RefreshNext
    <3>2. next'[t] = now + ms[t] /\ \A u \in Timers \ {t} : next'[u] = next[u]
      BY <3>1 DEF Types
    <3>3. ~mayOversleep => next[t] <= next'[t]
      BY <3>1, <3>2 DEF StartInv
    <3>4. Coming' \subseteq Coming
      BY <2>1, <3>1 DEF Coming
    <3> QED  BY <1>7, <3>1, <3>2, <3>3, <3>4
  <2>6. CASE RefreshInsert(t)
    <3>1. /\ pc[t] = "refreshInsert" /\ timerSet' = timerSet \cup {t} /\ Goto(t, "idle")
          /\ next' = next
          /\ UNCHANGED <<now, thread, deadline, signalled, mayOversleep>>
      BY <2>6 DEF RefreshInsert, SetInsert
    <3>2. Coming' \subseteq Coming
      BY <2>1, <3>1 DEF Coming
    <3> QED  BY <1>7, <1>n, <3>1, <3>2
  <2>7. ASSUME NEW m \in Periods, NEW f \in BOOLEAN, ResetNext(t, m, f)  PROVE AwakeInv'
    <3>1. /\ pc[t] = "resetNext" /\ timerSet' = timerSet /\ Goto(t, "insert")
          /\ UNCHANGED <<now, thread, deadline, signalled, mayOversleep>>
          /\ \A u \in Timers \ {t} : next'[u] = next[u]
      BY <2>7 DEF ResetNext, Types
    <3>2. Coming' \subseteq Coming /\ t \notin Coming
      BY <2>1, <3>1 DEF Coming, SetInv, Hand
    <3> QED  BY <1>7, <3>1, <3>2
  <2> QED  BY <1>8, <1>9, <1>10, <1>11, <2>2, <2>3, <2>4, <2>5, <2>6, <2>7 DEF OwnerStep
<1>12. ASSUME NEW t \in Timers, NEW m \in Periods, AddTimer(t, m)  PROVE AwakeInv'
  <2>1. /\ pc[t] = "none" /\ timerSet' = timerSet /\ Goto(t, "insert")
        /\ UNCHANGED <<now, thread, deadline, signalled, mayOversleep>>
        /\ \A u \in Timers \ {t} : next'[u] = next[u]
    BY <1>12 DEF AddTimer, Types
  <2>2. pc'[t] = "insert" /\ \A u \in Timers \ {t} : pc'[u] = pc[u]
    BY <2>1 DEF Goto, Types
  <2>3. Coming' \subseteq Coming /\ t \notin Coming
    BY <2>1, <2>2 DEF Coming, SetInv
  <2> QED  BY <1>7, <2>1, <2>3 DEF PCs
<1>13. ASSUME NEW t \in Operated, NEW p \in {"cancel", "refreshErase", "resetErase"},
              CallbackTest(t, p)
       PROVE  AwakeInv'
  <2>1. /\ t \in Timers /\ pc[t] = "idle" /\ timerSet' = timerSet /\ Goto(t, p) /\ next' = next
        /\ UNCHANGED <<now, thread, deadline, signalled, mayOversleep>>
    BY <1>13 DEF CallbackTest
  <2>2. pc'[t] = p /\ \A u \in Timers \ {t} : pc'[u] = pc[u]
    BY <2>1 DEF Goto, Types
  <2>3. Coming' \subseteq Coming
    BY <2>1, <2>2 DEF Coming
  <2> QED  BY <1>7, <1>n, <2>1, <2>3 DEF PCs
<1>14. CASE Stop
  BY <1>5, <1>14 DEF Stop
<1>15. CASE Exit \/ DoFunc \/ ListExpiredCallback \/ WaitEnds \/ SpuriousWakeup
  BY <1>4, <1>15 DEF Exit, DoFunc, ListExpiredCallback, WaitEnds, SpuriousWakeup, LeaveWait
<1> HIDE DEF Late, Covered, Tickling, Found
<1> QED
  BY <1>1, <1>2, <1>3, <1>11, <1>12, <1>13, <1>14, <1>15 DEF Next, Step, ThreadStep

-----------------------------------------------------------------------------
(* The theorems.                                                           *)

Inv == Types /\ Flags /\ StartInv /\ SetInv /\ CallsInv /\ PlaceInv /\ AwakeInv

LEMMA InvInit ==
    ASSUME Init
    PROVE  Inv
<1> USE DEF Init
<1>1. Types
  BY DEF Types, Clock, PCs
<1>2. Flags
  BY DEF Flags
<1>3. StartInv /\ CallsInv /\ AwakeInv
  BY DEF StartInv, CallsInv, AwakeInv
<1>4. SetInv
  BY FS_EmptySet DEF SetInv
<1>5. PlaceInv
  BY DEF PlaceInv, Listed
<1> QED  BY <1>1, <1>2, <1>3, <1>4, <1>5 DEF Inv

LEMMA InvStep ==
    ASSUME Inv, [Next]_vars
    PROVE  Inv'
<1>1. CASE Next
  <2>1. Types /\ Flags /\ StartInv /\ SetInv /\ CallsInv /\ PlaceInv /\ AwakeInv
    BY DEF Inv
  <2>2. Types'
    BY <1>1, <2>1, TypesStep
  <2>3. Flags' /\ StartInv' /\ SetInv'
    BY <1>1, <2>1, FlagsStep, StartStep, SetStep
  <2>4. CallsInv' /\ PlaceInv' /\ AwakeInv'
    BY <1>1, <2>1, <2>2, CallsStep, PlaceStep, AwakeStep
  <2> QED  BY <2>2, <2>3, <2>4 DEF Inv
<1>2. CASE UNCHANGED vars
  <2> USE <1>2 DEF vars, timerVars, threadVars, ghostVars
  <2>1. Types' /\ StartInv' /\ SetInv' /\ CallsInv'
    BY DEF Inv, Types, StartInv, SetInv, CallsInv
  <2>2. Flags'
    BY DEF Inv, Flags
  <2>3. PlaceInv'
    BY DEF Inv, PlaceInv, InOnePlace, Listed
  <2>4. AwakeInv'
    BY DEF Inv, AwakeInv, Coming, Before
  <2> QED  BY <2>1, <2>2, <2>3, <2>4 DEF Inv
<1> QED  BY <1>1, <1>2

LEMMA InvHolds == SafetySpec => []Inv
<1>1. Init => Inv
  BY InvInit
<1>2. Inv /\ [Next]_vars => Inv'
  BY InvStep
<1> QED  BY <1>1, <1>2, PTL DEF SafetySpec

\* Every variable has its type; in particular the m_next of a timer in the set
\* is m_ms after a time the clock had, so the start resetTimer computes from it
\* (m_next - m_ms) does not underflow.
THEOREM TimerTypes == SafetySpec => []TypeOK
<1>1. Inv => TypeOK
  <2> SUFFICES ASSUME Inv  PROVE TypeOK
    OBVIOUS
  <2>1. Types /\ StartInv /\ SetInv
    BY DEF Inv
  <2>2. ASSUME NEW t \in timerSet  PROVE \E s \in Clock : next[t] = s + ms[t]
    <3>1. t \in Timers /\ pc[t] # "none"
      BY <2>1 DEF Types, SetInv
    <3>2. ms[t] + Hour <= next[t] /\ next[t] <= MaxTime + ms[t] /\ next[t] \in Nat /\ ms[t] \in Nat
      BY <2>1, <3>1, Numbers DEF StartInv
    <3>3. next[t] - ms[t] \in Clock /\ next[t] = (next[t] - ms[t]) + ms[t]
      BY <3>2 DEF Clock
    <3> QED  BY <3>3
  <2>3. started \in BOOLEAN /\ signalled \in BOOLEAN /\ erasedEnd \in BOOLEAN
        /\ mayOversleep \in BOOLEAN
    BY Zenon DEF Inv, Flags
  <2> QED  BY <2>1, <2>2, <2>3, Zenon DEF Types, TypeOK
<1> QED  BY <1>1, InvHolds, PTL

\* However cancel, refresh, reset and the timer thread meet, a one-shot timer is
\* in one of its five places, and once in the list of callbacks.
THEOREM TimersConserved == SafetySpec => []OneShotConserved
<1>1. Inv => OneShotConserved
  <2> SUFFICES ASSUME Inv, ~erasedEnd, NEW t \in Timers \ Recurring, pc[t] # "none"
               PROVE  /\ Cardinality({c \in 1..5 :
                            \/ c = 1 /\ t \in timerSet
                            \/ c = 2 /\ pc[t] \in {"insert", "refreshNext", "refreshInsert", "resetNext"}
                            \/ c = 3 /\ Listed(t)
                            \/ c = 4 /\ t \in fired
                            \/ c = 5 /\ t \in cancelled}) = 1
                      /\ \A i, j \in 1..Len(calls) : calls[i] = t /\ calls[j] = t => i = j
    BY DEF OneShotConserved
  <2> DEFINE S == {c \in 1..5 : \/ c = 1 /\ t \in timerSet
                                \/ c = 2 /\ pc[t] \in {"insert", "refreshNext", "refreshInsert", "resetNext"}
                                \/ c = 3 /\ Listed(t)
                                \/ c = 4 /\ t \in fired
                                \/ c = 5 /\ t \in cancelled}
  <2>1. InOnePlace(t)
    BY DEF Inv, PlaceInv
  <2>2. S = {1} \/ S = {2} \/ S = {3} \/ S = {4} \/ S = {5}
    BY <2>1 DEF InOnePlace, Hand
  <2> HIDE DEF S
  <2>3. Cardinality(S) = 1
    BY <2>2, FS_Singleton
  <2>4. \A i, j \in 1..Len(calls) : calls[i] = t /\ calls[j] = t => i = j
    BY DEF Inv, CallsInv
  <2> QED  BY <2>3, <2>4 DEF S
<1> QED  BY <1>1, InvHolds, PTL

\* addTimer's look at the front of the set without the lock loses no
\* notification that the timer thread needs.
THEOREM ThreadAwakes == SafetySpec => []NoOversleep
<1>1. Inv => NoOversleep
  <2> SUFFICES ASSUME Inv, ~mayOversleep, thread = "wait", ~signalled, now < deadline,
                      NEW t \in timerSet
               PROVE  deadline <= next[t] \/ \E u \in Timers : pc[u] \in {"first", "tickle"}
    BY DEF NoOversleep
  <2>1. Types /\ AwakeInv
    BY DEF Inv
  <2>2. t \in Coming /\ timerSet \subseteq Timers
    BY <2>1 DEF Coming, Types
  <2> QED  BY <2>1, <2>2 DEF AwakeInv
<1> QED  BY <1>1, InvHolds, PTL
=============================================================================
