--------------------------- MODULE LFQueueProofs ---------------------------
(***************************************************************************)
(* ProducerOrder and LossOnlyWhenOvertaken of LFQueue, for the use         *)
(* Processor makes of its two queues and any number of threads and nodes.  *)
(*                                                                         *)
(* The argument: new is a queue that only grows at its tail_, in the order *)
(* of allocation, until the processor's thread takes it as a whole;        *)
(* runable belongs to that thread, but for next_ pointers that enqueues to *)
(* new still have to write.  So a position can be given to every node,     *)
(* such that every next_, written or about to be, goes forward.  Nodes may *)
(* get lost in the races, but none can be passed.                          *)
(*                                                                         *)
(* Until an enqueue is overtaken, every node in a queue is the first of    *)
(* one or follows another, and only a node without a successor is left in  *)
(* a tail_.  The positions then lead back from any node to a head_.        *)
(***************************************************************************)
EXTENDS LFQueue, WellFoundedInduction, TLAPS

CONSTANTS new, runable, proc

\* m_newQueue and m_runableQueue as Processor.cpp uses them: everyone enqueues
\* to the first; the rest is done by the thread of run().
ProcessorUse ==
    /\ new \in Queues /\ runable \in Queues /\ new # runable
    /\ proc \in Threads
    /\ EnqueueUse \subseteq (Threads \X {new}) \cup {<<proc, runable>>}
    /\ DequeueUse \subseteq {<<proc, runable>>}
    /\ ConcatUse \subseteq {<<proc, runable, new>>}

-----------------------------------------------------------------------------
(* What the steps of an operation may assume.                              *)

Allocated == {x \in Nodes : heap[x] # "none"}
Removing == {"readNext", "cas", "checkNext", "resetTail", "free"}
Taking == {"catTail", "catLink", "catSetHead", "catTakeTail"}
Joining == {"catLink", "catSetHead", "catTakeTail"}

\* t found new empty and is to store its head_.
Setting(t) == pc[t] = "setHead" /\ reg[t].q = new

PointerInv ==
    /\ \A q \in Queues : head[q] \in Allocated \cup {Nil} /\ tail[q] \in Allocated \cup {Nil}
    /\ \A x \in Nodes : next[x] # Nil => x \in Allocated /\ next[x] \in Allocated
    /\ \A x \in Allocated : by[x] \in EnqueueUse
    /\ \A i \in 1..Len(delivered) : delivered[i] \in Allocated

StepInv ==
    \A t \in Threads :
        /\ pc[t] \in {"ready", "link", "setHead"} \/ t = proc
        /\ pc[t] \in {"link", "setHead"} =>
              /\ reg[t].node \in Allocated
              /\ by[reg[t].node] = <<t, reg[t].q>>
        /\ pc[t] \in {"link", "catLink"} \cup Removing => reg[t].old \in Allocated
        /\ pc[t] \in {"cas", "catStoreTail"} =>
              reg[t].old \in Allocated \cup {Nil} /\ reg[t].node \in Allocated \cup {Nil}
        /\ pc[t] \in Removing \cup {"resetEmpty"} => reg[t].q = runable
        /\ pc[t] \in Taking => reg[t].node \in Allocated
        /\ pc[t] \in Taking \cup {"catStoreTail"} => reg[t].q = runable /\ reg[t].src = new

\* The first node of new has one owner: a thread that is to store it in head_,
\* head_, or the concatenate that took it.  There is one unless tail_ is null.
OwnerInv ==
    /\ tail[new] = Nil =>
          head[new] = Nil /\ pc[proc] \notin Taking /\ \A t \in Threads : ~Setting(t)
    /\ pc[proc] \in Taking => head[new] = Nil /\ \A t \in Threads : ~Setting(t)
    /\ head[new] # Nil => \A t \in Threads : ~Setting(t)
    /\ \A t, u \in Threads : Setting(t) /\ Setting(u) => t = u

-----------------------------------------------------------------------------
(* Positions: ln bounds the nodes of new, lr those of runable, that come   *)
(* no later than a node.  cut divides new into what was moved and what was *)
(* not; k counts the allocated nodes.                                      *)

InNew(x) == by[x][2] = new
InRunable(x) == by[x][2] = runable

\* y comes after x.
After(ln, lr, x, y) ==
    /\ ln[x] <= ln[y] /\ lr[x] <= lr[y]
    /\ InNew(y) => ln[x] < y
    /\ InRunable(y) => lr[x] < y

\* y is, or is about to be, the next_ of x.
Follows(x, y) ==
    \/ next[x] = y
    \/ \E t \in Threads : pc[t] \in {"link", "catLink"} /\ reg[t].old = x /\ reg[t].node = y

Moved(cut) == {x \in Allocated : InRunable(x) \/ x < cut}

Positions(ln, lr, cut, k) ==
    /\ Allocated = 1..k /\ cut <= k + 1
    /\ \A x \in Allocated :
          /\ InNew(x) => ln[x] = x
          /\ InRunable(x) => lr[x] = x
          /\ ln[x] <= k /\ lr[x] <= k
    /\ \A x \in Moved(cut) : ln[x] < cut

Forward(ln, lr) == \A x, y \in Allocated : Follows(x, y) => After(ln, lr, x, y)

\* What is still in new, or being taken, has not been moved.
NewSide(cut) ==
    /\ head[new] # Nil => InNew(head[new]) /\ cut <= head[new]
    /\ tail[new] # Nil => InNew(tail[new]) /\ cut <= tail[new]
    /\ \A t \in Threads : Setting(t) => cut <= reg[t].node
    /\ pc[proc] \in Taking => InNew(reg[proc].node) /\ cut <= reg[proc].node

\* Unless the two are just being joined, runable leads to moved nodes only.
RunableSide(cut) ==
    pc[proc] \notin Joining =>
        /\ head[runable] # Nil => head[runable] \in Moved(cut)
        /\ tail[runable] # Nil => tail[runable] \in Moved(cut)
        /\ pc[proc] = "catStoreTail" /\ reg[proc].old # Nil => reg[proc].old \in Moved(cut)
        /\ \A x \in Moved(cut), y \in Allocated : Follows(x, y) => y \in Moved(cut)

\* What is taken from new comes after everything that was moved.
TakenLast(lr, cut) ==
    pc[proc] \in {"catTail", "catSetHead"} =>
        \A x \in Moved(cut) : lr[x] <= lr[reg[proc].node]

\* What was delivered comes before what is to be.
DeliveredFirst(ln, lr, cut) ==
    \A i \in 1..Len(delivered) :
        /\ delivered[i] \in Moved(cut)
        /\ head[runable] # Nil => After(ln, lr, delivered[i], head[runable])
        /\ pc[proc] \in Removing => After(ln, lr, delivered[i], reg[proc].old)
        /\ pc[proc] = "setHead" /\ reg[proc].q = runable =>
              After(ln, lr, delivered[i], reg[proc].node)
        /\ \A j \in 1..Len(delivered) : i < j => After(ln, lr, delivered[i], delivered[j])

\* The node being removed is the first, and its successor comes after it.
RemovedNext(ln, lr, cut) ==
    /\ pc[proc] \in Removing => reg[proc].old \in Moved(cut)
    /\ pc[proc] \in {"readNext", "cas"} => head[runable] = reg[proc].old
    /\ pc[proc] = "cas" /\ reg[proc].node # Nil =>
          reg[proc].node \in Moved(cut) /\ After(ln, lr, reg[proc].old, reg[proc].node)
    /\ pc[proc] \in {"checkNext", "resetTail", "free"} /\ head[runable] # Nil =>
          After(ln, lr, reg[proc].old, head[runable])

Ordered(ln, lr, cut, k) ==
    /\ Positions(ln, lr, cut, k) /\ Forward(ln, lr)
    /\ NewSide(cut) /\ RunableSide(cut) /\ TakenLast(lr, cut)
    /\ DeliveredFirst(ln, lr, cut) /\ RemovedNext(ln, lr, cut)

OrderInv ==
    \E ln, lr \in [Nodes -> Nat] : \E cut \in Nat \ {0} : \E k \in 0..MaxNodes : Ordered(ln, lr, cut, k)

Inv == TypeOK /\ PointerInv /\ StepInv /\ OwnerInv /\ OrderInv

-----------------------------------------------------------------------------
(* Types, and what each step does to the thread that takes it.             *)

Others(t) == \A u \in Threads \ {t} : pc'[u] = pc[u] /\ reg'[u] = reg[u]

LEMMA NoRegsType ==
    ASSUME ProcessorUse
    PROVE  NoRegs \in Regs
<1>1. (CHOOSE q \in Queues : TRUE) \in Queues
  BY DEF ProcessorUse
<1> QED  BY <1>1 DEF NoRegs, Regs, Ref

LEMMA GotoEffect ==
    ASSUME TypeOK, NEW t \in Threads, NEW l \in PCs, Goto(t, l)
    PROVE  /\ pc' \in [Threads -> PCs] /\ pc'[t] = l
           /\ \A u \in Threads \ {t} : pc'[u] = pc[u]
BY DEF TypeOK, Goto

LEMMA RegEffect ==
    ASSUME TypeOK, NEW t \in Threads, NEW r \in Regs, reg' = [reg EXCEPT ![t] = r]
    PROVE  /\ reg' \in [Threads -> Regs] /\ reg'[t] = r
           /\ \A u \in Threads \ {t} : reg'[u] = reg[u]
BY DEF TypeOK

LEMMA OldEffect ==
    ASSUME TypeOK, NEW t \in Threads, NEW v \in Ref, reg' = [reg EXCEPT ![t].old = v]
    PROVE  /\ reg' \in [Threads -> Regs] /\ reg'[t].old = v
           /\ reg'[t].q = reg[t].q /\ reg'[t].src = reg[t].src
           /\ reg'[t].node = reg[t].node
           /\ \A u \in Threads \ {t} : reg'[u] = reg[u]
<1> DEFINE r == [reg[t] EXCEPT !.old = v]
<1>0. reg \in [Threads -> Regs] /\ reg[t] \in Regs
  BY DEF TypeOK
<1>1. /\ r \in Regs /\ r.old = v
      /\ r.q = reg[t].q /\ r.src = reg[t].src /\ r.node = reg[t].node
  BY <1>0 DEF Regs
<1>2. reg' = [reg EXCEPT ![t] = r]
  OBVIOUS
<1> HIDE DEF r
<1> QED  BY <1>0, <1>1, <1>2

LEMMA NodeEffect ==
    ASSUME TypeOK, NEW t \in Threads, NEW v \in Ref, reg' = [reg EXCEPT ![t].node = v]
    PROVE  /\ reg' \in [Threads -> Regs] /\ reg'[t].node = v
           /\ reg'[t].q = reg[t].q /\ reg'[t].src = reg[t].src
           /\ reg'[t].old = reg[t].old
           /\ \A u \in Threads \ {t} : reg'[u] = reg[u]
<1> DEFINE r == [reg[t] EXCEPT !.node = v]
<1>0. reg \in [Threads -> Regs] /\ reg[t] \in Regs
  BY DEF TypeOK
<1>1. /\ r \in Regs /\ r.node = v
      /\ r.q = reg[t].q /\ r.src = reg[t].src /\ r.old = reg[t].old
  BY <1>0 DEF Regs
<1>2. reg' = [reg EXCEPT ![t] = r]
  OBVIOUS
<1> HIDE DEF r
<1> QED  BY <1>0, <1>1, <1>2

LEMMA ReturnEffect ==
    ASSUME ProcessorUse, TypeOK, NEW t \in Threads, Return(t)
    PROVE  /\ pc' \in [Threads -> PCs] /\ reg' \in [Threads -> Regs]
           /\ pc'[t] = "ready" /\ Others(t)
<1>1. "ready" \in PCs
  BY DEF PCs
<1> QED  BY <1>1, NoRegsType, GotoEffect, RegEffect DEF Return, Others

\* p->next_ = n.
LEMMA WriteEffect ==
    ASSUME TypeOK, NEW p \in Nodes, NEW n \in Ref, WriteNext(p, n)
    PROVE  /\ next' \in [Nodes -> Ref] /\ dangling' \in SUBSET Nodes
           /\ next'[p] = n /\ \A x \in Nodes \ {p} : next'[x] = next[x]
BY DEF TypeOK, WriteNext

-----------------------------------------------------------------------------
(* One lemma per step: the types, and the step in the terms of the proof.  *)

LEMMA ExchangeEffect ==
    ASSUME ProcessorUse, TypeOK, NEW t \in Threads, NEW q \in Queues, <<t, q>> \in EnqueueUse,
           EnqueueExchange(t, q)
    PROVE  \E n \in Nodes :
              /\ TypeOK' /\ Others(t) /\ pc[t] = "ready"
              /\ heap[n] = "none" /\ \A m \in Nodes : m < n => heap[m] # "none"
              /\ heap'[n] = "live" /\ \A x \in Nodes \ {n} : heap'[x] = heap[x]
              /\ by'[n] = <<t, q>> /\ \A x \in Nodes \ {n} : by'[x] = by[x]
              /\ tail'[q] = n /\ \A p \in Queues \ {q} : tail'[p] = tail[p]
              /\ pc'[t] = (IF tail[q] # Nil THEN "link" ELSE "setHead")
              /\ reg'[t].q = q /\ reg'[t].node = n /\ reg'[t].old = tail[q]
              /\ UNCHANGED <<head, next, delivered>>
<1>1. PICK n \in Nodes :
        /\ heap[n] = "none"
        /\ \A m \in Nodes : m < n => heap[m] # "none"
        /\ heap' = [heap EXCEPT ![n] = "live"]
        /\ by' = [by EXCEPT ![n] = <<t, q>>]
        /\ tail' = [tail EXCEPT ![q] = n]
        /\ reg' = [reg EXCEPT ![t] = [NoRegs EXCEPT !.q = q, !.node = n, !.old = tail[q]]]
  BY DEF EnqueueExchange
<1>2. pc[t] = "ready" /\ Goto(t, IF tail[q] # Nil THEN "link" ELSE "setHead")
      /\ overtaken' = (overtaken \/ BeingRemoved(tail[q]))
      /\ UNCHANGED <<head, next, delivered, dangling>>
  BY DEF EnqueueExchange, At
<1> DEFINE r == [NoRegs EXCEPT !.q = q, !.node = n, !.old = tail[q]]
<1>3. r \in Regs /\ r.q = q /\ r.node = n /\ r.old = tail[q]
  BY NoRegsType DEF Regs, Ref, TypeOK
<1>4. /\ reg' \in [Threads -> Regs] /\ reg'[t] = r
      /\ \A u \in Threads \ {t} : reg'[u] = reg[u]
  <2> HIDE DEF r
  <2>1. reg' = [reg EXCEPT ![t] = r]
    BY <1>1 DEF r
  <2> QED  BY <1>3, <2>1, RegEffect
<1>5. /\ pc' \in [Threads -> PCs] /\ pc'[t] = (IF tail[q] # Nil THEN "link" ELSE "setHead")
      /\ \A u \in Threads \ {t} : pc'[u] = pc[u]
  <2>1. (IF tail[q] # Nil THEN "link" ELSE "setHead") \in PCs
    BY DEF PCs
  <2> QED  BY <1>2, <2>1, GotoEffect
<1>6. overtaken' \in BOOLEAN
  BY <1>2
<1>7. /\ heap' \in [Nodes -> {"none", "live", "freed"}]
      /\ heap'[n] = "live" /\ \A x \in Nodes \ {n} : heap'[x] = heap[x]
      /\ by' \in [Nodes -> EnqueueUse \cup {<<>>}]
      /\ by'[n] = <<t, q>> /\ \A x \in Nodes \ {n} : by'[x] = by[x]
      /\ tail' \in [Queues -> Ref]
      /\ tail'[q] = n /\ \A p \in Queues \ {q} : tail'[p] = tail[p]
  BY <1>1 DEF TypeOK, Ref
<1>8. TypeOK'
  BY <1>2, <1>4, <1>5, <1>6, <1>7 DEF TypeOK
<1> HIDE DEF r
<1> QED  BY <1>1, <1>2, <1>3, <1>4, <1>5, <1>7, <1>8 DEF Others

\* The dequeue steps, and those of concatenate, are the processor's.
LEMMA ProcStep ==
    ASSUME StepInv, NEW t \in Threads, pc[t] \notin {"ready", "link", "setHead"}
    PROVE  t = proc
BY DEF StepInv

LEMMA LinkEffect ==
    ASSUME ProcessorUse, TypeOK, StepInv, NEW t \in Threads, EnqueueLink(t)
    PROVE  /\ TypeOK' /\ Others(t) /\ pc[t] = "link" /\ pc'[t] = "ready"
           /\ reg[t].old \in Nodes /\ next'[reg[t].old] = reg[t].node
           /\ \A x \in Nodes \ {reg[t].old} : next'[x] = next[x]
           /\ UNCHANGED <<head, tail, heap, by, delivered>>
<1>1. /\ pc[t] = "link" /\ Return(t) /\ WriteNext(reg[t].old, reg[t].node)
      /\ UNCHANGED <<head, tail, heap, by, delivered, overtaken>>
  BY DEF EnqueueLink, At
<1>2. reg[t].old \in Nodes /\ reg[t].node \in Ref
  BY <1>1 DEF StepInv, Allocated, Ref
<1>3. /\ pc' \in [Threads -> PCs] /\ reg' \in [Threads -> Regs]
      /\ pc'[t] = "ready" /\ Others(t)
  BY <1>1, ReturnEffect
<1>4. /\ next' \in [Nodes -> Ref] /\ dangling' \in SUBSET Nodes
      /\ next'[reg[t].old] = reg[t].node
      /\ \A x \in Nodes \ {reg[t].old} : next'[x] = next[x]
  BY <1>1, <1>2, WriteEffect
<1>5. TypeOK'
  BY <1>1, <1>3, <1>4 DEF TypeOK
<1> QED  BY <1>1, <1>2, <1>3, <1>4, <1>5

LEMMA SetHeadEffect ==
    ASSUME ProcessorUse, TypeOK, NEW t \in Threads, EnqueueSetHead(t)
    PROVE  /\ TypeOK' /\ Others(t) /\ pc[t] = "setHead" /\ pc'[t] = "ready"
           /\ reg[t].q \in Queues /\ head'[reg[t].q] = reg[t].node
           /\ \A q \in Queues \ {reg[t].q} : head'[q] = head[q]
           /\ UNCHANGED <<tail, next, heap, by, delivered>>
<1>1. /\ pc[t] = "setHead" /\ Return(t)
      /\ head' = [head EXCEPT ![reg[t].q] = reg[t].node]
      /\ UNCHANGED <<tail, next, heap, by, delivered, dangling, overtaken>>
  BY DEF EnqueueSetHead, At
<1>2. reg[t].q \in Queues /\ reg[t].node \in Ref
  BY DEF TypeOK, Regs
<1>3. /\ pc' \in [Threads -> PCs] /\ reg' \in [Threads -> Regs]
      /\ pc'[t] = "ready" /\ Others(t)
  BY <1>1, ReturnEffect
<1>4. /\ head' \in [Queues -> Ref] /\ head'[reg[t].q] = reg[t].node
      /\ \A q \in Queues \ {reg[t].q} : head'[q] = head[q]
  BY <1>1, <1>2 DEF TypeOK
<1>5. TypeOK'
  BY <1>1, <1>3, <1>4 DEF TypeOK
<1> QED  BY <1>1, <1>2, <1>3, <1>4, <1>5

LEMMA LoadEffect ==
    ASSUME ProcessorUse, TypeOK, NEW t \in Threads, NEW q \in Queues, DequeueLoad(t, q)
    PROVE  /\ TypeOK' /\ Others(t) /\ pc[t] = "ready"
           /\ pc'[t] = (IF head[q] = Nil THEN "resetEmpty" ELSE "readNext")
           /\ reg'[t].q = q /\ reg'[t].old = head[q]
           /\ UNCHANGED <<head, tail, next, heap, by, delivered>>
<1>1. /\ pc[t] = "ready" /\ Goto(t, IF head[q] = Nil THEN "resetEmpty" ELSE "readNext")
      /\ reg' = [reg EXCEPT ![t] = [NoRegs EXCEPT !.q = q, !.old = head[q]]]
      /\ UNCHANGED <<head, tail, next, heap, by, delivered, dangling, overtaken>>
  BY DEF DequeueLoad, At
<1> DEFINE r == [NoRegs EXCEPT !.q = q, !.old = head[q]]
<1>2. r \in Regs /\ r.q = q /\ r.old = head[q]
  BY NoRegsType DEF Regs, Ref, TypeOK
<1>3. /\ reg' \in [Threads -> Regs] /\ reg'[t] = r
      /\ \A u \in Threads \ {t} : reg'[u] = reg[u]
  <2>1. reg' = [reg EXCEPT ![t] = r]
    BY <1>1
  <2> HIDE DEF r
  <2> QED  BY <1>2, <2>1, RegEffect
<1>4. (IF head[q] = Nil THEN "resetEmpty" ELSE "readNext") \in PCs
  BY DEF PCs
<1>5. /\ pc' \in [Threads -> PCs] /\ pc'[t] = (IF head[q] = Nil THEN "resetEmpty" ELSE "readNext")
      /\ \A u \in Threads \ {t} : pc'[u] = pc[u]
  BY <1>1, <1>4, GotoEffect
<1> HIDE DEF r
<1>6. TypeOK'
  BY <1>1, <1>3, <1>5 DEF TypeOK
<1> QED  BY <1>1, <1>2, <1>3, <1>5, <1>6 DEF Others

LEMMA ReadNextEffect ==
    ASSUME ProcessorUse, TypeOK, StepInv, NEW t \in Threads, DequeueReadNext(t)
    PROVE  /\ TypeOK' /\ Others(t) /\ pc[t] = "readNext" /\ pc'[t] = "cas"
           /\ reg[t].old \in Nodes
           /\ reg'[t].q = reg[t].q /\ reg'[t].old = reg[t].old
           /\ reg'[t].node = next[reg[t].old]
           /\ UNCHANGED <<head, tail, next, heap, by, delivered>>
<1>1. /\ pc[t] = "readNext" /\ Goto(t, "cas")
      /\ reg' = [reg EXCEPT ![t].node = next[reg[t].old]]
      /\ UNCHANGED <<head, tail, next, heap, by, delivered, dangling, overtaken>>
  BY DEF DequeueReadNext, At
<1>2. reg[t].old \in Nodes /\ "cas" \in PCs
  BY <1>1 DEF StepInv, Removing, Allocated, PCs
<1>3. next[reg[t].old] \in Ref
  BY <1>2 DEF TypeOK
<1>4. /\ reg' \in [Threads -> Regs] /\ reg'[t].node = next[reg[t].old]
      /\ reg'[t].q = reg[t].q /\ reg'[t].old = reg[t].old
      /\ \A u \in Threads \ {t} : reg'[u] = reg[u]
  BY <1>1, <1>3, NodeEffect
<1>5. /\ pc' \in [Threads -> PCs] /\ pc'[t] = "cas"
      /\ \A u \in Threads \ {t} : pc'[u] = pc[u]
  BY <1>1, <1>2, GotoEffect
<1>6. TypeOK'
  BY <1>1, <1>4, <1>5 DEF TypeOK
<1> QED  BY <1>1, <1>2, <1>4, <1>5, <1>6 DEF Others

\* The compare_exchange of the only consumer never fails.
LEMMA CasEffect ==
    ASSUME ProcessorUse, TypeOK, StepInv, NEW t \in Threads, DequeueCas(t),
           head[runable] = reg[t].old
    PROVE  /\ TypeOK' /\ Others(t) /\ pc[t] = "cas" /\ pc'[t] = "checkNext"
           /\ reg'[t].q = reg[t].q /\ reg'[t].old = reg[t].old
           /\ head'[runable] = reg[t].node
           /\ \A q \in Queues \ {runable} : head'[q] = head[q]
           /\ UNCHANGED <<tail, next, heap, by, delivered>>
<1>1. pc[t] = "cas"
  BY DEF DequeueCas, At
<1>2. reg[t].q = runable /\ runable \in Queues /\ reg[t].node \in Ref
  BY <1>1 DEF StepInv, Removing, ProcessorUse, TypeOK, Regs
<1>3. /\ head' = [head EXCEPT ![runable] = reg[t].node]
      /\ reg' = [reg EXCEPT ![t].old = reg[t].old]
      /\ Goto(t, "checkNext")
      /\ overtaken' = (overtaken \/ (TRUE /\ reg[t].node = Nil /\ tail[runable] # reg[t].old))
      /\ UNCHANGED <<tail, next, heap, by, delivered, dangling>>
  BY <1>2 DEF DequeueCas
<1>4. reg[t].old \in Ref /\ "checkNext" \in PCs
  BY DEF TypeOK, Regs, PCs
<1>5. /\ reg' \in [Threads -> Regs] /\ reg'[t].old = reg[t].old
      /\ reg'[t].q = reg[t].q
      /\ \A u \in Threads \ {t} : reg'[u] = reg[u]
  BY <1>3, <1>4, OldEffect
<1>6. /\ pc' \in [Threads -> PCs] /\ pc'[t] = "checkNext"
      /\ \A u \in Threads \ {t} : pc'[u] = pc[u]
  BY <1>3, <1>4, GotoEffect
<1>7. /\ head' \in [Queues -> Ref] /\ head'[runable] = reg[t].node
      /\ \A q \in Queues \ {runable} : head'[q] = head[q]
  BY <1>2, <1>3 DEF TypeOK
<1>8. overtaken' \in BOOLEAN
  BY <1>3
<1>9. TypeOK'
  BY <1>3, <1>5, <1>6, <1>7, <1>8 DEF TypeOK
<1> QED  BY <1>1, <1>3, <1>5, <1>6, <1>7, <1>9 DEF Others

LEMMA CheckNextEffect ==
    ASSUME ProcessorUse, TypeOK, NEW t \in Threads, DequeueCheckNext(t)
    PROVE  /\ TypeOK' /\ Others(t) /\ pc[t] = "checkNext" /\ pc'[t] \in {"resetTail", "free"}
           /\ UNCHANGED <<head, tail, next, heap, by, reg, delivered>>
<1>1. /\ pc[t] = "checkNext" /\ Goto(t, IF next[reg[t].old] = Nil THEN "resetTail" ELSE "free")
      /\ UNCHANGED <<head, tail, next, heap, by, reg, delivered, dangling, overtaken>>
  BY DEF DequeueCheckNext, At
<1>2. (IF next[reg[t].old] = Nil THEN "resetTail" ELSE "free") \in PCs
  BY DEF PCs
<1>3. /\ pc' \in [Threads -> PCs] /\ pc'[t] \in {"resetTail", "free"}
      /\ \A u \in Threads \ {t} : pc'[u] = pc[u]
  BY <1>1, <1>2, GotoEffect
<1>4. TypeOK'
  BY <1>1, <1>3 DEF TypeOK
<1> QED  BY <1>1, <1>3, <1>4 DEF Others

LEMMA ResetEffect ==
    ASSUME ProcessorUse, TypeOK, StepInv, NEW t \in Threads,
           DequeueResetTail(t) \/ DequeueEmpty(t)
    PROVE  /\ TypeOK' /\ Others(t) /\ t = proc
           /\ \/ pc[t] = "resetTail" /\ pc'[t] = "free" /\ UNCHANGED reg
              \/ pc[t] = "resetEmpty" /\ pc'[t] = "ready"
           /\ tail'[runable] = Nil
           /\ \A q \in Queues \ {runable} : tail'[q] = tail[q]
           /\ UNCHANGED <<head, next, heap, by, delivered>>
<1>1. ResetTail(t) /\ pc[t] \in {"resetTail", "resetEmpty"}
  BY DEF DequeueResetTail, DequeueEmpty, At
<1>2. t = proc /\ reg[t].q = runable /\ runable \in Queues
  BY <1>1, ProcStep DEF StepInv, Removing, ProcessorUse
<1>3. /\ tail' = [tail EXCEPT ![runable] = Nil]
      /\ overtaken' = (overtaken \/ tail[runable] \notin {Nil, reg[t].old})
      /\ UNCHANGED <<head, next, heap, by, delivered, dangling>>
  BY <1>1, <1>2 DEF ResetTail
<1>4. /\ tail' \in [Queues -> Ref] /\ tail'[runable] = Nil
      /\ \A q \in Queues \ {runable} : tail'[q] = tail[q]
  BY <1>2, <1>3 DEF TypeOK, Ref
<1>5. overtaken' \in BOOLEAN
  BY <1>3
<1>6. /\ pc' \in [Threads -> PCs] /\ reg' \in [Threads -> Regs] /\ Others(t)
      /\ \/ pc[t] = "resetTail" /\ pc'[t] = "free" /\ UNCHANGED reg
         \/ pc[t] = "resetEmpty" /\ pc'[t] = "ready"
  <2>1. CASE DequeueResetTail(t)
    <3>1. pc[t] = "resetTail" /\ Goto(t, "free") /\ UNCHANGED reg /\ "free" \in PCs
      BY <2>1 DEF DequeueResetTail, At, PCs
    <3>2. /\ pc' \in [Threads -> PCs] /\ pc'[t] = "free"
          /\ \A u \in Threads \ {t} : pc'[u] = pc[u]
      BY <3>1, GotoEffect
    <3> QED  BY <3>1, <3>2 DEF TypeOK, Others
  <2>2. CASE DequeueEmpty(t)
    BY <2>2, ReturnEffect DEF DequeueEmpty, At
  <2> QED  BY <2>1, <2>2
<1>7. TypeOK'
  BY <1>3, <1>4, <1>5, <1>6 DEF TypeOK
<1> QED  BY <1>2, <1>3, <1>4, <1>6, <1>7

LEMMA FreeEffect ==
    ASSUME ProcessorUse, TypeOK, StepInv, NEW t \in Threads, DequeueFree(t)
    PROVE  /\ TypeOK' /\ Others(t) /\ pc[t] = "free" /\ pc'[t] = "ready"
           /\ reg[t].old \in Nodes
           /\ heap'[reg[t].old] = "freed"
           /\ \A x \in Nodes \ {reg[t].old} : heap'[x] = heap[x]
           /\ Len(delivered') = Len(delivered) + 1
           /\ \A i \in 1..Len(delivered) : delivered'[i] = delivered[i]
           /\ delivered'[Len(delivered) + 1] = reg[t].old
           /\ UNCHANGED <<head, tail, next, by>>
<1>1. /\ pc[t] = "free" /\ Return(t)
      /\ heap' = [heap EXCEPT ![reg[t].old] = "freed"]
      /\ delivered' = Append(delivered, reg[t].old)
      /\ UNCHANGED <<head, tail, next, by, dangling, overtaken>>
  BY DEF DequeueFree, At
<1>2. reg[t].old \in Nodes
  BY <1>1 DEF StepInv, Removing, Allocated
<1>3. /\ pc' \in [Threads -> PCs] /\ reg' \in [Threads -> Regs]
      /\ pc'[t] = "ready" /\ Others(t)
  BY <1>1, ReturnEffect
<1>4. /\ heap' \in [Nodes -> {"none", "live", "freed"}]
      /\ heap'[reg[t].old] = "freed"
      /\ \A x \in Nodes \ {reg[t].old} : heap'[x] = heap[x]
  BY <1>1, <1>2 DEF TypeOK
<1>5. /\ delivered' \in Seq(Nodes) /\ Len(delivered') = Len(delivered) + 1
      /\ \A i \in 1..Len(delivered) : delivered'[i] = delivered[i]
      /\ delivered'[Len(delivered) + 1] = reg[t].old
  BY <1>1, <1>2 DEF TypeOK
<1>6. TypeOK'
  BY <1>1, <1>3, <1>4, <1>5 DEF TypeOK
<1> QED  BY <1>1, <1>2, <1>3, <1>4, <1>5, <1>6

LEMMA TakeHeadEffect ==
    ASSUME ProcessorUse, TypeOK, NEW t \in Threads, ConcatTakeHead(t, runable, new)
    PROVE  /\ TypeOK' /\ Others(t) /\ pc[t] = "ready"
           /\ \/ head[new] = Nil /\ UNCHANGED <<pc, reg, head>>
              \/ /\ head[new] # Nil /\ pc'[t] = "catTail"
                 /\ reg'[t].q = runable /\ reg'[t].src = new /\ reg'[t].node = head[new]
           /\ head'[new] = Nil /\ \A q \in Queues \ {new} : head'[q] = head[q]
           /\ UNCHANGED <<tail, next, heap, by, delivered>>
<1>0. new \in Queues /\ runable \in Queues
  BY DEF ProcessorUse
<1>1. /\ pc[t] = "ready" /\ head' = [head EXCEPT ![new] = Nil]
      /\ UNCHANGED <<tail, next, heap, by, delivered, dangling, overtaken>>
  BY DEF ConcatTakeHead, At
<1>2. /\ head' \in [Queues -> Ref] /\ head'[new] = Nil
      /\ \A q \in Queues \ {new} : head'[q] = head[q]
      /\ head[new] = Nil => head' = head
  BY <1>0, <1>1 DEF TypeOK, Ref
<1>3. CASE head[new] = Nil
  <2>1. UNCHANGED <<pc, reg>>
    BY <1>3 DEF ConcatTakeHead
  <2>2. TypeOK'
    BY <1>1, <1>2, <2>1 DEF TypeOK
  <2> QED  BY <1>1, <1>2, <1>3, <2>1, <2>2 DEF Others
<1>4. CASE head[new] # Nil
  <2> DEFINE r == [q |-> runable, src |-> new, node |-> head[new], old |-> Nil]
  <2>1. Goto(t, "catTail") /\ reg' = [reg EXCEPT ![t] = r] /\ "catTail" \in PCs
    BY <1>4 DEF ConcatTakeHead, PCs
  <2>2. r \in Regs /\ r.q = runable /\ r.src = new /\ r.node = head[new]
    BY <1>0 DEF Regs, Ref, TypeOK
  <2> HIDE DEF r
  <2>3. /\ reg' \in [Threads -> Regs] /\ reg'[t] = r
        /\ \A u \in Threads \ {t} : reg'[u] = reg[u]
    BY <2>1, <2>2, RegEffect
  <2>4. /\ pc' \in [Threads -> PCs] /\ pc'[t] = "catTail"
        /\ \A u \in Threads \ {t} : pc'[u] = pc[u]
    BY <2>1, GotoEffect
  <2>5. TypeOK'
    BY <1>1, <1>2, <2>3, <2>4 DEF TypeOK
  <2> QED  BY <1>1, <1>2, <1>4, <2>2, <2>3, <2>4, <2>5 DEF Others
<1> QED  BY <1>3, <1>4

LEMMA CatTailEffect ==
    ASSUME ProcessorUse, TypeOK, StepInv, NEW t \in Threads, ConcatTail(t)
    PROVE  /\ TypeOK' /\ Others(t) /\ pc[t] = "catTail"
           /\ pc'[t] = (IF tail[runable] # Nil THEN "catLink" ELSE "catSetHead")
           /\ reg'[t].q = reg[t].q /\ reg'[t].src = reg[t].src
           /\ reg'[t].node = reg[t].node /\ reg'[t].old = tail[runable]
           /\ tail'[runable] = reg[t].node
           /\ \A q \in Queues \ {runable} : tail'[q] = tail[q]
           /\ UNCHANGED <<head, next, heap, by, delivered>>
<1>1. pc[t] = "catTail"
  BY DEF ConcatTail, At
<1>2. reg[t].q = runable /\ runable \in Queues
  BY <1>1 DEF StepInv, Taking, ProcessorUse
<1>3. /\ tail' = [tail EXCEPT ![runable] = reg[t].node]
      /\ reg' = [reg EXCEPT ![t].old = tail[runable]]
      /\ Goto(t, IF tail[runable] # Nil THEN "catLink" ELSE "catSetHead")
      /\ UNCHANGED <<head, next, heap, by, delivered, dangling, overtaken>>
  BY <1>2 DEF ConcatTail
<1>4. reg[t].node \in Ref /\ tail[runable] \in Ref
      /\ (IF tail[runable] # Nil THEN "catLink" ELSE "catSetHead") \in PCs
  BY <1>2 DEF TypeOK, Regs, PCs
<1>5. /\ reg' \in [Threads -> Regs] /\ reg'[t].old = tail[runable]
      /\ reg'[t].q = reg[t].q /\ reg'[t].src = reg[t].src /\ reg'[t].node = reg[t].node
      /\ \A u \in Threads \ {t} : reg'[u] = reg[u]
  BY <1>3, <1>4, OldEffect
<1>6. /\ pc' \in [Threads -> PCs]
      /\ pc'[t] = (IF tail[runable] # Nil THEN "catLink" ELSE "catSetHead")
      /\ \A u \in Threads \ {t} : pc'[u] = pc[u]
  BY <1>3, <1>4, GotoEffect
<1>7. /\ tail' \in [Queues -> Ref] /\ tail'[runable] = reg[t].node
      /\ \A q \in Queues \ {runable} : tail'[q] = tail[q]
  BY <1>2, <1>3, <1>4 DEF TypeOK
<1>8. TypeOK'
  BY <1>3, <1>5, <1>6, <1>7 DEF TypeOK
<1> QED  BY <1>1, <1>3, <1>5, <1>6, <1>7, <1>8 DEF Others

LEMMA CatLinkEffect ==
    ASSUME ProcessorUse, TypeOK, StepInv, NEW t \in Threads, ConcatLink(t)
    PROVE  /\ TypeOK' /\ Others(t) /\ pc[t] = "catLink" /\ pc'[t] = "catTakeTail"
           /\ reg[t].old \in Nodes /\ next'[reg[t].old] = reg[t].node
           /\ \A x \in Nodes \ {reg[t].old} : next'[x] = next[x]
           /\ UNCHANGED <<head, tail, heap, by, reg, delivered>>
<1>1. /\ pc[t] = "catLink" /\ Goto(t, "catTakeTail") /\ WriteNext(reg[t].old, reg[t].node)
      /\ UNCHANGED <<head, tail, heap, by, reg, delivered, overtaken>>
  BY DEF ConcatLink, At
<1>2. reg[t].old \in Nodes /\ reg[t].node \in Ref /\ "catTakeTail" \in PCs
  BY <1>1 DEF StepInv, Allocated, TypeOK, Regs, PCs
<1>3. /\ pc' \in [Threads -> PCs] /\ pc'[t] = "catTakeTail"
      /\ \A u \in Threads \ {t} : pc'[u] = pc[u]
  BY <1>1, <1>2, GotoEffect
<1>4. /\ next' \in [Nodes -> Ref] /\ dangling' \in SUBSET Nodes
      /\ next'[reg[t].old] = reg[t].node
      /\ \A x \in Nodes \ {reg[t].old} : next'[x] = next[x]
  BY <1>1, <1>2, WriteEffect
<1>5. TypeOK'
  BY <1>1, <1>3, <1>4 DEF TypeOK
<1> QED  BY <1>1, <1>2, <1>3, <1>4, <1>5 DEF Others

LEMMA CatSetHeadEffect ==
    ASSUME ProcessorUse, TypeOK, StepInv, NEW t \in Threads, ConcatSetHead(t)
    PROVE  /\ TypeOK' /\ Others(t) /\ pc[t] = "catSetHead" /\ pc'[t] = "catTakeTail"
           /\ head'[runable] = reg[t].node
           /\ \A q \in Queues \ {runable} : head'[q] = head[q]
           /\ UNCHANGED <<tail, next, heap, by, reg, delivered>>
<1>1. pc[t] = "catSetHead"
  BY DEF ConcatSetHead, At
<1>2. reg[t].q = runable /\ runable \in Queues /\ reg[t].node \in Ref /\ "catTakeTail" \in PCs
  BY <1>1 DEF StepInv, Taking, ProcessorUse, TypeOK, Regs, PCs
<1>3. /\ head' = [head EXCEPT ![runable] = reg[t].node] /\ Goto(t, "catTakeTail")
      /\ UNCHANGED <<tail, next, heap, by, reg, delivered, dangling, overtaken>>
  BY <1>2 DEF ConcatSetHead
<1>4. /\ pc' \in [Threads -> PCs] /\ pc'[t] = "catTakeTail"
      /\ \A u \in Threads \ {t} : pc'[u] = pc[u]
  BY <1>2, <1>3, GotoEffect
<1>5. /\ head' \in [Queues -> Ref] /\ head'[runable] = reg[t].node
      /\ \A q \in Queues \ {runable} : head'[q] = head[q]
  BY <1>2, <1>3 DEF TypeOK
<1>6. TypeOK'
  BY <1>3, <1>4, <1>5 DEF TypeOK
<1> QED  BY <1>1, <1>3, <1>4, <1>5, <1>6 DEF Others

LEMMA TakeTailEffect ==
    ASSUME ProcessorUse, TypeOK, StepInv, NEW t \in Threads, ConcatTakeTail(t)
    PROVE  /\ TypeOK' /\ Others(t) /\ pc[t] = "catTakeTail" /\ pc'[t] = "catStoreTail"
           /\ reg'[t].q = reg[t].q /\ reg'[t].src = reg[t].src
           /\ reg'[t].node = reg[t].node /\ reg'[t].old = tail[new]
           /\ tail'[new] = Nil /\ \A q \in Queues \ {new} : tail'[q] = tail[q]
           /\ UNCHANGED <<head, next, heap, by, delivered>>
<1>1. pc[t] = "catTakeTail"
  BY DEF ConcatTakeTail, At
<1>2. reg[t].src = new /\ new \in Queues
  BY <1>1 DEF StepInv, Taking, ProcessorUse
<1>3. /\ tail' = [tail EXCEPT ![new] = Nil]
      /\ reg' = [reg EXCEPT ![t].old = tail[new]]
      /\ Goto(t, "catStoreTail")
      /\ UNCHANGED <<head, next, heap, by, delivered, dangling, overtaken>>
  BY <1>2 DEF ConcatTakeTail
<1>4. tail[new] \in Ref /\ "catStoreTail" \in PCs
  BY <1>2 DEF TypeOK, PCs
<1>5. /\ reg' \in [Threads -> Regs] /\ reg'[t].old = tail[new]
      /\ reg'[t].q = reg[t].q /\ reg'[t].src = reg[t].src /\ reg'[t].node = reg[t].node
      /\ \A u \in Threads \ {t} : reg'[u] = reg[u]
  BY <1>3, <1>4, OldEffect
<1>6. /\ pc' \in [Threads -> PCs] /\ pc'[t] = "catStoreTail"
      /\ \A u \in Threads \ {t} : pc'[u] = pc[u]
  BY <1>3, <1>4, GotoEffect
<1>7. /\ tail' \in [Queues -> Ref] /\ tail'[new] = Nil
      /\ \A q \in Queues \ {new} : tail'[q] = tail[q]
  BY <1>2, <1>3 DEF TypeOK, Ref
<1>8. TypeOK'
  BY <1>3, <1>5, <1>6, <1>7 DEF TypeOK
<1> QED  BY <1>1, <1>3, <1>5, <1>6, <1>7, <1>8 DEF Others

LEMMA StoreTailEffect ==
    ASSUME ProcessorUse, TypeOK, StepInv, NEW t \in Threads, ConcatStoreTail(t)
    PROVE  /\ TypeOK' /\ Others(t) /\ pc[t] = "catStoreTail" /\ pc'[t] = "ready"
           /\ tail'[runable] = reg[t].old
           /\ \A q \in Queues \ {runable} : tail'[q] = tail[q]
           /\ UNCHANGED <<head, next, heap, by, delivered>>
<1>1. /\ pc[t] = "catStoreTail" /\ Return(t)
      /\ UNCHANGED <<head, next, heap, by, delivered, dangling, overtaken>>
  BY DEF ConcatStoreTail, At
<1>2. reg[t].q = runable /\ runable \in Queues /\ reg[t].old \in Ref
  BY <1>1 DEF StepInv, Taking, ProcessorUse, TypeOK, Regs
<1>3. tail' = [tail EXCEPT ![runable] = reg[t].old]
  BY <1>2 DEF ConcatStoreTail
<1>4. /\ pc' \in [Threads -> PCs] /\ reg' \in [Threads -> Regs]
      /\ pc'[t] = "ready" /\ Others(t)
  BY <1>1, ReturnEffect
<1>5. /\ tail' \in [Queues -> Ref] /\ tail'[runable] = reg[t].old
      /\ \A q \in Queues \ {runable} : tail'[q] = tail[q]
  BY <1>2, <1>3 DEF TypeOK
<1>6. TypeOK'
  BY <1>1, <1>4, <1>5 DEF TypeOK
<1> QED  BY <1>1, <1>4, <1>5, <1>6

-----------------------------------------------------------------------------
(* The invariants of the pointers, the steps and the owner of new's first  *)
(* node are inductive.                                                     *)

Base == TypeOK /\ PointerInv /\ StepInv /\ OwnerInv

LEMMA LinkBase ==
    ASSUME ProcessorUse, Base, NEW t \in Threads, EnqueueLink(t)
    PROVE  Base' /\ Allocated' = Allocated
<1>0. /\ TypeOK /\ PointerInv /\ StepInv /\ OwnerInv
      /\ new \in Queues /\ runable \in Queues /\ new # runable /\ proc \in Threads
  BY DEF Base, ProcessorUse
<1>1. /\ TypeOK' /\ Others(t) /\ pc[t] = "link" /\ pc'[t] = "ready"
      /\ reg[t].old \in Nodes /\ next'[reg[t].old] = reg[t].node
      /\ \A x \in Nodes \ {reg[t].old} : next'[x] = next[x]
      /\ UNCHANGED <<head, tail, heap, by, delivered>>
  BY <1>0, LinkEffect
<1>2. Allocated' = Allocated
  BY <1>0, <1>1 DEF Allocated, StepInv, Removing
<1>3. PointerInv'
  BY <1>0, <1>1, <1>2 DEF PointerInv, StepInv, Removing, Taking
<1>4. StepInv'
  BY <1>0, <1>1, <1>2 DEF StepInv, PointerInv, Removing, Taking, Others
<1>5. OwnerInv'
  BY <1>0, <1>1 DEF OwnerInv, Setting, StepInv, Taking, Removing, Others
<1> QED  BY <1>1, <1>2, <1>3, <1>4, <1>5 DEF Base

LEMMA SetHeadBase ==
    ASSUME ProcessorUse, Base, NEW t \in Threads, EnqueueSetHead(t)
    PROVE  Base' /\ Allocated' = Allocated
<1>0. /\ TypeOK /\ PointerInv /\ StepInv /\ OwnerInv
      /\ new \in Queues /\ runable \in Queues /\ new # runable /\ proc \in Threads
  BY DEF Base, ProcessorUse
<1>1. /\ TypeOK' /\ Others(t) /\ pc[t] = "setHead" /\ pc'[t] = "ready"
      /\ reg[t].q \in Queues /\ head'[reg[t].q] = reg[t].node
      /\ \A q \in Queues \ {reg[t].q} : head'[q] = head[q]
      /\ UNCHANGED <<tail, next, heap, by, delivered>>
  BY <1>0, SetHeadEffect
<1>2. Allocated' = Allocated
  BY <1>0, <1>1 DEF Allocated, StepInv, Removing
<1>3. PointerInv'
  BY <1>0, <1>1, <1>2 DEF PointerInv, StepInv, Removing, Taking
<1>4. StepInv'
  BY <1>0, <1>1, <1>2 DEF StepInv, PointerInv, Removing, Taking, Others
<1>5. OwnerInv'
  BY <1>0, <1>1 DEF OwnerInv, Setting, StepInv, Taking, Removing, Others
<1> QED  BY <1>1, <1>2, <1>3, <1>4, <1>5 DEF Base

LEMMA LoadBase ==
    ASSUME ProcessorUse, Base, NEW t \in Threads, DequeueLoad(t, runable), t = proc
    PROVE  Base' /\ Allocated' = Allocated
<1>0. /\ TypeOK /\ PointerInv /\ StepInv /\ OwnerInv
      /\ new \in Queues /\ runable \in Queues /\ new # runable /\ proc \in Threads
  BY DEF Base, ProcessorUse
<1>1. /\ TypeOK' /\ Others(t) /\ pc[t] = "ready"
      /\ pc'[t] = (IF head[runable] = Nil THEN "resetEmpty" ELSE "readNext")
      /\ reg'[t].q = runable /\ reg'[t].old = head[runable]
      /\ UNCHANGED <<head, tail, next, heap, by, delivered>>
  BY <1>0, LoadEffect
<1>2. Allocated' = Allocated
  BY <1>0, <1>1 DEF Allocated, StepInv, Removing
<1>3. PointerInv'
  BY <1>0, <1>1, <1>2 DEF PointerInv, StepInv, Removing, Taking
<1>4. StepInv'
  BY <1>0, <1>1, <1>2 DEF StepInv, PointerInv, Removing, Taking, Others
<1>5. OwnerInv'
  BY <1>0, <1>1 DEF OwnerInv, Setting, StepInv, Taking, Removing, Others
<1> QED  BY <1>1, <1>2, <1>3, <1>4, <1>5 DEF Base

LEMMA ReadNextBase ==
    ASSUME ProcessorUse, Base, NEW t \in Threads, DequeueReadNext(t)
    PROVE  Base' /\ Allocated' = Allocated
<1>0. /\ TypeOK /\ PointerInv /\ StepInv /\ OwnerInv
      /\ new \in Queues /\ runable \in Queues /\ new # runable /\ proc \in Threads
  BY DEF Base, ProcessorUse
<1>1. /\ TypeOK' /\ Others(t) /\ pc[t] = "readNext" /\ pc'[t] = "cas"
      /\ reg[t].old \in Nodes
      /\ reg'[t].q = reg[t].q /\ reg'[t].old = reg[t].old
      /\ reg'[t].node = next[reg[t].old]
      /\ UNCHANGED <<head, tail, next, heap, by, delivered>>
  BY <1>0, ReadNextEffect
<1>2. Allocated' = Allocated
  BY <1>0, <1>1 DEF Allocated, StepInv, Removing
<1>3. PointerInv'
  BY <1>0, <1>1, <1>2 DEF PointerInv, StepInv, Removing, Taking
<1>4. StepInv'
  BY <1>0, <1>1, <1>2 DEF StepInv, PointerInv, Removing, Taking, Others
<1>5. OwnerInv'
  BY <1>0, <1>1 DEF OwnerInv, Setting, StepInv, Taking, Removing, Others
<1> QED  BY <1>1, <1>2, <1>3, <1>4, <1>5 DEF Base

LEMMA CasBase ==
    ASSUME ProcessorUse, Base, NEW t \in Threads, DequeueCas(t),
           head[runable] = reg[t].old
    PROVE  Base' /\ Allocated' = Allocated
<1>0. /\ TypeOK /\ PointerInv /\ StepInv /\ OwnerInv
      /\ new \in Queues /\ runable \in Queues /\ new # runable /\ proc \in Threads
  BY DEF Base, ProcessorUse
<1>1. /\ TypeOK' /\ Others(t) /\ pc[t] = "cas" /\ pc'[t] = "checkNext"
      /\ reg'[t].q = reg[t].q /\ reg'[t].old = reg[t].old
      /\ head'[runable] = reg[t].node
      /\ \A q \in Queues \ {runable} : head'[q] = head[q]
      /\ UNCHANGED <<tail, next, heap, by, delivered>>
  BY <1>0, CasEffect
<1>2. Allocated' = Allocated
  BY <1>0, <1>1 DEF Allocated, StepInv, Removing
<1>3. PointerInv'
  BY <1>0, <1>1, <1>2 DEF PointerInv, StepInv, Removing, Taking
<1>4. StepInv'
  BY <1>0, <1>1, <1>2 DEF StepInv, PointerInv, Removing, Taking, Others
<1>5. OwnerInv'
  BY <1>0, <1>1 DEF OwnerInv, Setting, StepInv, Taking, Removing, Others
<1> QED  BY <1>1, <1>2, <1>3, <1>4, <1>5 DEF Base

LEMMA CheckNextBase ==
    ASSUME ProcessorUse, Base, NEW t \in Threads, DequeueCheckNext(t)
    PROVE  Base' /\ Allocated' = Allocated
<1>0. /\ TypeOK /\ PointerInv /\ StepInv /\ OwnerInv
      /\ new \in Queues /\ runable \in Queues /\ new # runable /\ proc \in Threads
  BY DEF Base, ProcessorUse
<1>1. /\ TypeOK' /\ Others(t) /\ pc[t] = "checkNext" /\ pc'[t] \in {"resetTail", "free"}
      /\ UNCHANGED <<head, tail, next, heap, by, reg, delivered>>
  BY <1>0, CheckNextEffect
<1>2. Allocated' = Allocated
  BY <1>0, <1>1 DEF Allocated, StepInv, Removing
<1>3. PointerInv'
  BY <1>0, <1>1, <1>2 DEF PointerInv, StepInv, Removing, Taking
<1>4. StepInv'
  BY <1>0, <1>1, <1>2 DEF StepInv, PointerInv, Removing, Taking, Others
<1>5. OwnerInv'
  BY <1>0, <1>1 DEF OwnerInv, Setting, StepInv, Taking, Removing, Others
<1> QED  BY <1>1, <1>2, <1>3, <1>4, <1>5 DEF Base

LEMMA ResetBase ==
    ASSUME ProcessorUse, Base, NEW t \in Threads, DequeueResetTail(t) \/ DequeueEmpty(t)
    PROVE  Base' /\ Allocated' = Allocated
<1>0. /\ TypeOK /\ PointerInv /\ StepInv /\ OwnerInv
      /\ new \in Queues /\ runable \in Queues /\ new # runable /\ proc \in Threads
  BY DEF Base, ProcessorUse
<1>1. /\ TypeOK' /\ Others(t) /\ t = proc
      /\ \/ pc[t] = "resetTail" /\ pc'[t] = "free" /\ UNCHANGED reg
         \/ pc[t] = "resetEmpty" /\ pc'[t] = "ready"
      /\ tail'[runable] = Nil
      /\ \A q \in Queues \ {runable} : tail'[q] = tail[q]
      /\ UNCHANGED <<head, next, heap, by, delivered>>
  BY <1>0, ResetEffect
<1>2. Allocated' = Allocated
  BY <1>0, <1>1 DEF Allocated, StepInv, Removing
<1>3. PointerInv'
  BY <1>0, <1>1, <1>2 DEF PointerInv, StepInv, Removing, Taking
<1>4. StepInv'
  BY <1>0, <1>1, <1>2 DEF StepInv, PointerInv, Removing, Taking, Others
<1>5. OwnerInv'
  BY <1>0, <1>1 DEF OwnerInv, Setting, StepInv, Taking, Removing, Others
<1> QED  BY <1>1, <1>2, <1>3, <1>4, <1>5 DEF Base

LEMMA FreeBase ==
    ASSUME ProcessorUse, Base, NEW t \in Threads, DequeueFree(t)
    PROVE  Base' /\ Allocated' = Allocated
<1>0. /\ TypeOK /\ PointerInv /\ StepInv /\ OwnerInv
      /\ new \in Queues /\ runable \in Queues /\ new # runable /\ proc \in Threads
  BY DEF Base, ProcessorUse
<1>1. /\ TypeOK' /\ Others(t) /\ pc[t] = "free" /\ pc'[t] = "ready"
      /\ reg[t].old \in Nodes
      /\ heap'[reg[t].old] = "freed"
      /\ \A x \in Nodes \ {reg[t].old} : heap'[x] = heap[x]
      /\ Len(delivered') = Len(delivered) + 1
      /\ \A i \in 1..Len(delivered) : delivered'[i] = delivered[i]
      /\ delivered'[Len(delivered) + 1] = reg[t].old
      /\ UNCHANGED <<head, tail, next, by>>
  BY <1>0, FreeEffect
<1>2. Allocated' = Allocated
  BY <1>0, <1>1 DEF Allocated, StepInv, Removing
<1>3. PointerInv'
  BY <1>0, <1>1, <1>2 DEF PointerInv, StepInv, Removing, Taking
<1>4. StepInv'
  BY <1>0, <1>1, <1>2 DEF StepInv, PointerInv, Removing, Taking, Others
<1>5. OwnerInv'
  BY <1>0, <1>1 DEF OwnerInv, Setting, StepInv, Taking, Removing, Others
<1> QED  BY <1>1, <1>2, <1>3, <1>4, <1>5 DEF Base

LEMMA TakeHeadBase ==
    ASSUME ProcessorUse, Base, NEW t \in Threads, ConcatTakeHead(t, runable, new), t = proc
    PROVE  Base' /\ Allocated' = Allocated
<1>0. /\ TypeOK /\ PointerInv /\ StepInv /\ OwnerInv
      /\ new \in Queues /\ runable \in Queues /\ new # runable /\ proc \in Threads
  BY DEF Base, ProcessorUse
<1>1. /\ TypeOK' /\ Others(t) /\ pc[t] = "ready"
      /\ \/ head[new] = Nil /\ UNCHANGED <<pc, reg, head>>
         \/ /\ head[new] # Nil /\ pc'[t] = "catTail"
            /\ reg'[t].q = runable /\ reg'[t].src = new /\ reg'[t].node = head[new]
      /\ head'[new] = Nil /\ \A q \in Queues \ {new} : head'[q] = head[q]
      /\ UNCHANGED <<tail, next, heap, by, delivered>>
  BY <1>0, TakeHeadEffect
<1>2. Allocated' = Allocated
  BY <1>0, <1>1 DEF Allocated, StepInv, Removing
<1>3. PointerInv'
  BY <1>0, <1>1, <1>2 DEF PointerInv, StepInv, Removing, Taking
<1>4. StepInv'
  BY <1>0, <1>1, <1>2 DEF StepInv, PointerInv, Removing, Taking, Others
<1>5. OwnerInv'
  BY <1>0, <1>1 DEF OwnerInv, Setting, StepInv, Taking, Removing, Others
<1> QED  BY <1>1, <1>2, <1>3, <1>4, <1>5 DEF Base

LEMMA CatTailBase ==
    ASSUME ProcessorUse, Base, NEW t \in Threads, ConcatTail(t)
    PROVE  Base' /\ Allocated' = Allocated
<1>0. /\ TypeOK /\ PointerInv /\ StepInv /\ OwnerInv
      /\ new \in Queues /\ runable \in Queues /\ new # runable /\ proc \in Threads
  BY DEF Base, ProcessorUse
<1>1. /\ TypeOK' /\ Others(t) /\ pc[t] = "catTail"
      /\ pc'[t] = (IF tail[runable] # Nil THEN "catLink" ELSE "catSetHead")
      /\ reg'[t].q = reg[t].q /\ reg'[t].src = reg[t].src
      /\ reg'[t].node = reg[t].node /\ reg'[t].old = tail[runable]
      /\ tail'[runable] = reg[t].node
      /\ \A q \in Queues \ {runable} : tail'[q] = tail[q]
      /\ UNCHANGED <<head, next, heap, by, delivered>>
  BY <1>0, CatTailEffect
<1>2. Allocated' = Allocated
  BY <1>0, <1>1 DEF Allocated, StepInv, Removing
<1>3. PointerInv'
  BY <1>0, <1>1, <1>2 DEF PointerInv, StepInv, Removing, Taking
<1>4. StepInv'
  <2>1. /\ t = proc /\ reg[t].node \in Allocated /\ tail[runable] \in Allocated \cup {Nil}
        /\ reg[t].q = runable /\ reg[t].src = new
    BY <1>0, <1>1 DEF StepInv, PointerInv, Taking
  <2>2. CASE tail[runable] = Nil
    BY <1>0, <1>1, <1>2, <2>1, <2>2 DEF StepInv, Removing, Taking, Others
  <2>3. CASE tail[runable] # Nil
    BY <1>0, <1>1, <1>2, <2>1, <2>3 DEF StepInv, Removing, Taking, Others
  <2> QED  BY <2>2, <2>3
<1>5. OwnerInv'
  BY <1>0, <1>1 DEF OwnerInv, Setting, StepInv, Taking, Removing, Others
<1> QED  BY <1>1, <1>2, <1>3, <1>4, <1>5 DEF Base

LEMMA CatLinkBase ==
    ASSUME ProcessorUse, Base, NEW t \in Threads, ConcatLink(t)
    PROVE  Base' /\ Allocated' = Allocated
<1>0. /\ TypeOK /\ PointerInv /\ StepInv /\ OwnerInv
      /\ new \in Queues /\ runable \in Queues /\ new # runable /\ proc \in Threads
  BY DEF Base, ProcessorUse
<1>1. /\ TypeOK' /\ Others(t) /\ pc[t] = "catLink" /\ pc'[t] = "catTakeTail"
      /\ reg[t].old \in Nodes /\ next'[reg[t].old] = reg[t].node
      /\ \A x \in Nodes \ {reg[t].old} : next'[x] = next[x]
      /\ UNCHANGED <<head, tail, heap, by, reg, delivered>>
  BY <1>0, CatLinkEffect
<1>2. Allocated' = Allocated
  BY <1>0, <1>1 DEF Allocated, StepInv, Removing
<1>3. PointerInv'
  BY <1>0, <1>1, <1>2 DEF PointerInv, StepInv, Removing, Taking
<1>4. StepInv'
  BY <1>0, <1>1, <1>2 DEF StepInv, PointerInv, Removing, Taking, Others
<1>5. OwnerInv'
  BY <1>0, <1>1 DEF OwnerInv, Setting, StepInv, Taking, Removing, Others
<1> QED  BY <1>1, <1>2, <1>3, <1>4, <1>5 DEF Base

LEMMA CatSetHeadBase ==
    ASSUME ProcessorUse, Base, NEW t \in Threads, ConcatSetHead(t)
    PROVE  Base' /\ Allocated' = Allocated
<1>0. /\ TypeOK /\ PointerInv /\ StepInv /\ OwnerInv
      /\ new \in Queues /\ runable \in Queues /\ new # runable /\ proc \in Threads
  BY DEF Base, ProcessorUse
<1>1. /\ TypeOK' /\ Others(t) /\ pc[t] = "catSetHead" /\ pc'[t] = "catTakeTail"
      /\ head'[runable] = reg[t].node
      /\ \A q \in Queues \ {runable} : head'[q] = head[q]
      /\ UNCHANGED <<tail, next, heap, by, reg, delivered>>
  BY <1>0, CatSetHeadEffect
<1>2. Allocated' = Allocated
  BY <1>0, <1>1 DEF Allocated, StepInv, Removing
<1>3. PointerInv'
  BY <1>0, <1>1, <1>2 DEF PointerInv, StepInv, Removing, Taking
<1>4. StepInv'
  BY <1>0, <1>1, <1>2 DEF StepInv, PointerInv, Removing, Taking, Others
<1>5. OwnerInv'
  BY <1>0, <1>1 DEF OwnerInv, Setting, StepInv, Taking, Removing, Others
<1> QED  BY <1>1, <1>2, <1>3, <1>4, <1>5 DEF Base

LEMMA TakeTailBase ==
    ASSUME ProcessorUse, Base, NEW t \in Threads, ConcatTakeTail(t)
    PROVE  Base' /\ Allocated' = Allocated
<1>0. /\ TypeOK /\ PointerInv /\ StepInv /\ OwnerInv
      /\ new \in Queues /\ runable \in Queues /\ new # runable /\ proc \in Threads
  BY DEF Base, ProcessorUse
<1>1. /\ TypeOK' /\ Others(t) /\ pc[t] = "catTakeTail" /\ pc'[t] = "catStoreTail"
      /\ reg'[t].q = reg[t].q /\ reg'[t].src = reg[t].src
      /\ reg'[t].node = reg[t].node /\ reg'[t].old = tail[new]
      /\ tail'[new] = Nil /\ \A q \in Queues \ {new} : tail'[q] = tail[q]
      /\ UNCHANGED <<head, next, heap, by, delivered>>
  BY <1>0, TakeTailEffect
<1>2. Allocated' = Allocated
  BY <1>0, <1>1 DEF Allocated, StepInv, Removing
<1>3. PointerInv'
  BY <1>0, <1>1, <1>2 DEF PointerInv, StepInv, Removing, Taking
<1>4. StepInv'
  BY <1>0, <1>1, <1>2 DEF StepInv, PointerInv, Removing, Taking, Others
<1>5. OwnerInv'
  BY <1>0, <1>1 DEF OwnerInv, Setting, StepInv, Taking, Removing, Others
<1> QED  BY <1>1, <1>2, <1>3, <1>4, <1>5 DEF Base

LEMMA StoreTailBase ==
    ASSUME ProcessorUse, Base, NEW t \in Threads, ConcatStoreTail(t)
    PROVE  Base' /\ Allocated' = Allocated
<1>0. /\ TypeOK /\ PointerInv /\ StepInv /\ OwnerInv
      /\ new \in Queues /\ runable \in Queues /\ new # runable /\ proc \in Threads
  BY DEF Base, ProcessorUse
<1>1. /\ TypeOK' /\ Others(t) /\ pc[t] = "catStoreTail" /\ pc'[t] = "ready"
      /\ tail'[runable] = reg[t].old
      /\ \A q \in Queues \ {runable} : tail'[q] = tail[q]
      /\ UNCHANGED <<head, next, heap, by, delivered>>
  BY <1>0, StoreTailEffect
<1>2. Allocated' = Allocated
  BY <1>0, <1>1 DEF Allocated, StepInv, Removing
<1>3. PointerInv'
  BY <1>0, <1>1, <1>2 DEF PointerInv, StepInv, Removing, Taking
<1>4. StepInv'
  BY <1>0, <1>1, <1>2 DEF StepInv, PointerInv, Removing, Taking, Others
<1>5. OwnerInv'
  BY <1>0, <1>1 DEF OwnerInv, Setting, StepInv, Taking, Removing, Others
<1> QED  BY <1>1, <1>2, <1>3, <1>4, <1>5 DEF Base

\* n is the node that EnqueueExchange(t, q) allocates.
Allocates(t, q, n) ==
    /\ Others(t) /\ pc[t] = "ready"
    /\ heap[n] = "none" /\ \A m \in Nodes : m < n => heap[m] # "none"
    /\ heap'[n] = "live" /\ \A x \in Nodes \ {n} : heap'[x] = heap[x]
    /\ by'[n] = <<t, q>> /\ \A x \in Nodes \ {n} : by'[x] = by[x]
    /\ tail'[q] = n /\ \A p \in Queues \ {q} : tail'[p] = tail[p]
    /\ pc'[t] = (IF tail[q] # Nil THEN "link" ELSE "setHead")
    /\ reg'[t].q = q /\ reg'[t].node = n /\ reg'[t].old = tail[q]
    /\ UNCHANGED <<head, next, delivered>>

LEMMA ExchangeBase ==
    ASSUME ProcessorUse, Base, NEW t \in Threads, NEW q \in {new, runable},
           <<t, q>> \in EnqueueUse, q = runable => t = proc, EnqueueExchange(t, q)
    PROVE  /\ Base'
           /\ \E n \in Nodes \ Allocated :
                Allocates(t, q, n) /\ Allocated' = Allocated \cup {n}
<1>0. /\ TypeOK /\ PointerInv /\ StepInv /\ OwnerInv
      /\ new \in Queues /\ runable \in Queues /\ new # runable /\ proc \in Threads
      /\ q \in Queues
  BY DEF Base, ProcessorUse
<1>1. PICK n \in Nodes : TypeOK' /\ Allocates(t, q, n)
  BY <1>0, ExchangeEffect DEF Allocates
<1>2. n \notin Allocated /\ Allocated' = Allocated \cup {n}
  BY <1>1 DEF Allocated, Allocates
<1>3. PointerInv'
  <2>1. Nil \notin Nodes /\ n # Nil
    BY DEF Nil, Nodes
  <2>2. \A p \in Queues : head'[p] \in Allocated' \cup {Nil} /\ tail'[p] \in Allocated' \cup {Nil}
    BY <1>0, <1>1, <1>2 DEF PointerInv, Allocates
  <2>3. \A x \in Nodes : next'[x] # Nil => x \in Allocated' /\ next'[x] \in Allocated'
    BY <1>0, <1>1, <1>2 DEF PointerInv, Allocates
  <2>4. \A x \in Allocated' : by'[x] \in EnqueueUse
    <3>1. \A x \in Allocated : x \in Nodes \ {n}
      BY <1>2 DEF Allocated
    <3> QED  BY <1>0, <1>1, <1>2, <3>1 DEF PointerInv, Allocates
  <2>5. \A i \in 1..Len(delivered') : delivered'[i] \in Allocated'
    BY <1>0, <1>1, <1>2 DEF PointerInv, Allocates
  <2> QED  BY <2>2, <2>3, <2>4, <2>5 DEF PointerInv
<1>4. StepInv'
  <2>1. \A x \in Allocated : by'[x] = by[x]
    BY <1>1, <1>2 DEF Allocates, Allocated
  <2>2. tail[q] \in Allocated \cup {Nil}
    BY <1>0 DEF PointerInv
  <2> SUFFICES ASSUME NEW u \in Threads
               PROVE  /\ pc'[u] \in {"ready", "link", "setHead"} \/ u = proc
                      /\ pc'[u] \in {"link", "setHead"} =>
                            /\ reg'[u].node \in Allocated'
                            /\ by'[reg'[u].node] = <<u, reg'[u].q>>
                      /\ pc'[u] \in {"link", "catLink"} \cup Removing => reg'[u].old \in Allocated'
                      /\ pc'[u] \in {"cas", "catStoreTail"} =>
                            reg'[u].old \in Allocated' \cup {Nil} /\ reg'[u].node \in Allocated' \cup {Nil}
                      /\ pc'[u] \in Removing \cup {"resetEmpty"} => reg'[u].q = runable
                      /\ pc'[u] \in Taking => reg'[u].node \in Allocated'
                      /\ pc'[u] \in Taking \cup {"catStoreTail"} =>
                            reg'[u].q = runable /\ reg'[u].src = new
    BY DEF StepInv
  <2>3. CASE u = t
    <3>1. pc'[u] \in {"link", "setHead"}
      BY <1>1, <2>3 DEF Allocates
    <3>2. reg'[u].node = n /\ by'[n] = <<u, reg'[u].q>> /\ n \in Allocated'
      BY <1>1, <1>2, <2>3 DEF Allocates
    <3>3. pc'[u] = "link" => reg'[u].old \in Allocated'
      BY <1>1, <1>2, <2>2, <2>3 DEF Allocates
    <3> QED  BY <3>1, <3>2, <3>3 DEF Removing, Taking
  <2>4. CASE u # t
    <3>1. pc'[u] = pc[u] /\ reg'[u] = reg[u]
      BY <1>1, <2>4 DEF Allocates, Others
    <3> QED  BY <1>0, <1>2, <2>1, <3>1 DEF StepInv
  <2> QED  BY <2>3, <2>4
<1>5. OwnerInv'
  <2>1. n # Nil
    BY DEF Nil, Nodes
  <2>2. CASE q = new
    BY <1>0, <1>1, <2>1, <2>2 DEF OwnerInv, Allocates, Setting, Taking, Others
  <2>3. CASE q = runable
    BY <1>0, <1>1, <2>3 DEF OwnerInv, Allocates, Setting, Taking, Others
  <2> QED  BY <2>2, <2>3
<1> QED  BY <1>1, <1>2, <1>3, <1>4, <1>5 DEF Base

-----------------------------------------------------------------------------
(* The order.  Most steps keep the positions they find.                    *)

LEMMA SamePositions ==
    ASSUME NEW ln, NEW lr, NEW cut, NEW k, Allocated' = Allocated, by' = by
    PROVE  /\ Positions(ln, lr, cut, k) => Positions(ln, lr, cut, k)'
           /\ Moved(cut)' = Moved(cut)
BY DEF Positions, Moved, InNew, InRunable

LEMMA AfterTransitive ==
    ASSUME NEW ln \in [Nodes -> Nat], NEW lr \in [Nodes -> Nat],
           NEW x \in Nodes, NEW y \in Nodes, NEW z \in Nodes,
           After(ln, lr, x, y), After(ln, lr, y, z)
    PROVE  After(ln, lr, x, z)
BY DEF After, Nodes

\* Only the processor's thread enqueues to runable.
LEMMA UseCases ==
    ASSUME ProcessorUse, NEW t, NEW q, <<t, q>> \in EnqueueUse
    PROVE  q = new \/ (q = runable /\ t = proc)
BY DEF ProcessorUse

LEMMA RunableKept ==
    ASSUME NEW cut, Allocated' = Allocated, Moved(cut)' = Moved(cut), RunableSide(cut),
           pc[proc] \notin Joining,
           \A x, y \in Allocated : Follows(x, y)' => Follows(x, y),
           pc'[proc] = "catStoreTail" => pc[proc] = "catStoreTail" /\ reg'[proc].old = reg[proc].old,
           head'[runable] # Nil => head'[runable] \in Moved(cut),
           tail'[runable] # Nil => tail'[runable] \in Moved(cut)
    PROVE  RunableSide(cut)'
<1>1. \A x \in Moved(cut) : x \in Allocated
  BY DEF Moved
<1> QED  BY <1>1 DEF RunableSide, Joining

LEMMA DeliveredKept ==
    ASSUME NEW ln, NEW lr, NEW cut, by' = by, delivered' = delivered,
           Moved(cut)' = Moved(cut), DeliveredFirst(ln, lr, cut),
           \A i \in 1..Len(delivered) :
               /\ head'[runable] # Nil => After(ln, lr, delivered[i], head'[runable])
               /\ pc'[proc] \in Removing => After(ln, lr, delivered[i], reg'[proc].old)
               /\ pc'[proc] = "setHead" /\ reg'[proc].q = runable =>
                     After(ln, lr, delivered[i], reg'[proc].node)
    PROVE  DeliveredFirst(ln, lr, cut)'
BY DEF DeliveredFirst, After, InNew, InRunable

LEMMA LinkOrder ==
    ASSUME ProcessorUse, Base, NEW t \in Threads, EnqueueLink(t),
           NEW ln \in [Nodes -> Nat], NEW lr \in [Nodes -> Nat], NEW cut \in Nat \ {0},
           NEW k \in 0..MaxNodes, Ordered(ln, lr, cut, k)
    PROVE  Ordered(ln, lr, cut, k)'
<1>0. /\ TypeOK /\ PointerInv /\ StepInv /\ OwnerInv
      /\ new \in Queues /\ runable \in Queues /\ new # runable /\ proc \in Threads
      /\ Positions(ln, lr, cut, k) /\ Forward(ln, lr)
      /\ NewSide(cut) /\ RunableSide(cut) /\ TakenLast(lr, cut)
      /\ DeliveredFirst(ln, lr, cut) /\ RemovedNext(ln, lr, cut)
  BY DEF Base, ProcessorUse, Ordered
<1>1. /\ TypeOK' /\ Others(t) /\ pc[t] = "link" /\ pc'[t] = "ready"
      /\ reg[t].old \in Nodes /\ next'[reg[t].old] = reg[t].node
      /\ \A x \in Nodes \ {reg[t].old} : next'[x] = next[x]
      /\ UNCHANGED <<head, tail, heap, by, delivered>>
  BY <1>0, LinkEffect
<1>2. Allocated' = Allocated /\ by' = by
  BY <1>1, LinkBase
<1>3. Positions(ln, lr, cut, k)' /\ Moved(cut)' = Moved(cut)
  BY <1>0, <1>2, SamePositions
<1>4. \A x, y \in Allocated : Follows(x, y)' => Follows(x, y)
  BY <1>0, <1>1 DEF Follows, Others, Allocated, TypeOK
<1>5. Forward(ln, lr)'
  BY <1>0, <1>2, <1>4 DEF Forward, After, InNew, InRunable
<1>6. NewSide(cut)'
  BY <1>0, <1>1, <1>2 DEF NewSide, StepInv, OwnerInv, Setting, InNew, Taking, Others
<1>7. RunableSide(cut)'
  <2>1. CASE pc[proc] \in Joining
    BY <1>0, <1>1, <2>1 DEF RunableSide, Joining, StepInv, Others
  <2>2. CASE pc[proc] \notin Joining
    <3>1. /\ head[runable] # Nil => head[runable] \in Moved(cut)
          /\ tail[runable] # Nil => tail[runable] \in Moved(cut)
      BY <1>0, <2>2 DEF RunableSide
    <3>2. pc'[proc] = "catStoreTail" => pc[proc] = "catStoreTail" /\ reg'[proc].old = reg[proc].old
      BY <1>0, <1>1 DEF Others
    <3> QED  BY <1>0, <1>1, <1>2, <1>3, <1>4, <2>2, <3>1, <3>2, RunableKept
  <2> QED  BY <2>1, <2>2
<1>8. TakenLast(lr, cut)'
  BY <1>0, <1>1, <1>3 DEF TakenLast, StepInv, Others
<1>9. DeliveredFirst(ln, lr, cut)'
  BY <1>0, <1>1, <1>2, <1>3 DEF DeliveredFirst, After, InNew, InRunable, StepInv, Removing, Others
<1>10. RemovedNext(ln, lr, cut)'
  BY <1>0, <1>1, <1>2, <1>3 DEF RemovedNext, After, InNew, InRunable, StepInv, Removing, Others
<1> QED  BY <1>3, <1>5, <1>6, <1>7, <1>8, <1>9, <1>10 DEF Ordered

LEMMA SetHeadOrder ==
    ASSUME ProcessorUse, Base, NEW t \in Threads, EnqueueSetHead(t),
           NEW ln \in [Nodes -> Nat], NEW lr \in [Nodes -> Nat], NEW cut \in Nat \ {0},
           NEW k \in 0..MaxNodes, Ordered(ln, lr, cut, k)
    PROVE  Ordered(ln, lr, cut, k)'
<1>0. /\ TypeOK /\ PointerInv /\ StepInv /\ OwnerInv
      /\ new \in Queues /\ runable \in Queues /\ new # runable /\ proc \in Threads
      /\ Positions(ln, lr, cut, k) /\ Forward(ln, lr)
      /\ NewSide(cut) /\ RunableSide(cut) /\ TakenLast(lr, cut)
      /\ DeliveredFirst(ln, lr, cut) /\ RemovedNext(ln, lr, cut)
  BY DEF Base, ProcessorUse, Ordered
<1>1. /\ TypeOK' /\ Others(t) /\ pc[t] = "setHead" /\ pc'[t] = "ready"
      /\ reg[t].q \in Queues /\ head'[reg[t].q] = reg[t].node
      /\ \A q \in Queues \ {reg[t].q} : head'[q] = head[q]
      /\ UNCHANGED <<tail, next, heap, by, delivered>>
  BY <1>0, SetHeadEffect
<1>2. Allocated' = Allocated /\ by' = by
  BY <1>1, SetHeadBase
<1>3. Positions(ln, lr, cut, k)' /\ Moved(cut)' = Moved(cut)
  BY <1>0, <1>2, SamePositions
<1>4. \A x, y \in Allocated : Follows(x, y)' => Follows(x, y)
  BY <1>0, <1>1 DEF Follows, Others, Allocated, TypeOK
<1>5. Forward(ln, lr)'
  BY <1>0, <1>2, <1>4 DEF Forward, After, InNew, InRunable
<1>6. NewSide(cut)'
  <2>1. /\ reg[t].node \in Allocated /\ by[reg[t].node] = <<t, reg[t].q>>
    BY <1>0, <1>1 DEF StepInv
  <2>2. reg[t].q = new => InNew(reg[t].node) /\ cut <= reg[t].node
    BY <1>0, <1>1, <2>1 DEF InNew, NewSide, Setting
  <2> QED  BY <1>0, <1>1, <1>2, <2>2 DEF NewSide, Setting, InNew, Taking, Others
<1>7. RunableSide(cut)'
  <2>1. /\ reg[t].node \in Allocated /\ by[reg[t].node] = <<t, reg[t].q>>
    BY <1>0, <1>1 DEF StepInv
  <2>2. <<t, reg[t].q>> \in EnqueueUse
    BY <1>0, <2>1 DEF PointerInv
  <2>3. CASE reg[t].q = new
    <3>1. head'[runable] = head[runable]
      BY <1>0, <1>1, <2>3
    <3>2. CASE pc[proc] \in Joining
      BY <1>0, <1>1, <3>2 DEF RunableSide, Joining, Others
    <3>3. CASE pc[proc] \notin Joining
      <4>1. /\ head[runable] # Nil => head[runable] \in Moved(cut)
            /\ tail[runable] # Nil => tail[runable] \in Moved(cut)
        BY <1>0, <3>3 DEF RunableSide
      <4>2. pc'[proc] = "catStoreTail" => pc[proc] = "catStoreTail" /\ reg'[proc].old = reg[proc].old
        BY <1>0, <1>1 DEF Others
      <4> QED  BY <1>0, <1>1, <1>2, <1>3, <1>4, <3>1, <3>3, <4>1, <4>2, RunableKept
    <3> QED  BY <3>2, <3>3
  <2>4. CASE reg[t].q = runable /\ t = proc
    <3>1. pc[proc] \notin Joining
      BY <1>1, <2>4 DEF Joining
    <3>2. reg[t].node \in Moved(cut)
      BY <2>1, <2>4 DEF Moved, InRunable
    <3>3. tail[runable] # Nil => tail[runable] \in Moved(cut)
      BY <1>0, <3>1 DEF RunableSide
    <3> QED  BY <1>0, <1>1, <1>2, <1>3, <1>4, <2>4, <3>1, <3>2, <3>3, RunableKept
  <2> QED  BY <2>2, <2>3, <2>4, UseCases
<1>8. TakenLast(lr, cut)'
  BY <1>0, <1>1, <1>3 DEF TakenLast, StepInv, Others
<1>9. DeliveredFirst(ln, lr, cut)'
  <2>1. /\ reg[t].node \in Allocated /\ by[reg[t].node] = <<t, reg[t].q>>
    BY <1>0, <1>1 DEF StepInv
  <2>2. <<t, reg[t].q>> \in EnqueueUse
    BY <1>0, <2>1 DEF PointerInv
  <2>3. CASE reg[t].q = new
    <3>1. head'[runable] = head[runable]
      BY <1>0, <1>1, <2>3
    <3>2. t = proc \/ (pc'[proc] = pc[proc] /\ reg'[proc] = reg[proc])
      BY <1>0, <1>1 DEF Others
    <3>3. t = proc => pc'[proc] = "ready" /\ pc'[proc] \notin Removing
      BY <1>1 DEF Removing
    <3>4. \A i \in 1..Len(delivered) :
            /\ head'[runable] # Nil => After(ln, lr, delivered[i], head'[runable])
            /\ pc'[proc] \in Removing => After(ln, lr, delivered[i], reg'[proc].old)
            /\ pc'[proc] = "setHead" /\ reg'[proc].q = runable =>
                  After(ln, lr, delivered[i], reg'[proc].node)
      BY <1>0, <3>1, <3>2, <3>3 DEF DeliveredFirst
    <3> QED  BY <1>0, <1>1, <1>2, <1>3, <3>4, DeliveredKept
  <2>4. CASE reg[t].q = runable /\ t = proc
    <3>1. pc'[proc] \notin Removing /\ pc'[proc] # "setHead"
      BY <1>1, <2>4 DEF Removing
    <3>2. \A i \in 1..Len(delivered) : After(ln, lr, delivered[i], reg[t].node)
      BY <1>0, <1>1, <2>4 DEF DeliveredFirst
    <3> QED  BY <1>0, <1>1, <1>2, <1>3, <2>4, <3>1, <3>2, DeliveredKept
  <2> QED  BY <2>2, <2>3, <2>4, UseCases
<1>10. RemovedNext(ln, lr, cut)'
  <2>1. /\ reg[t].node \in Allocated /\ by[reg[t].node] = <<t, reg[t].q>>
    BY <1>0, <1>1 DEF StepInv
  <2>2. <<t, reg[t].q>> \in EnqueueUse
    BY <1>0, <2>1 DEF PointerInv
  <2>3. CASE reg[t].q = new
    <3>1. head'[runable] = head[runable]
      BY <1>0, <1>1, <2>3
    <3>2. t = proc \/ (pc'[proc] = pc[proc] /\ reg'[proc] = reg[proc])
      BY <1>0, <1>1 DEF Others
    <3> QED  BY <1>0, <1>1, <1>2, <1>3, <3>1, <3>2
             DEF RemovedNext, After, InNew, InRunable, Removing
  <2>4. CASE reg[t].q = runable /\ t = proc
    BY <1>1, <2>4 DEF RemovedNext, Removing
  <2> QED  BY <2>2, <2>3, <2>4, UseCases
<1> QED  BY <1>3, <1>5, <1>6, <1>7, <1>8, <1>9, <1>10 DEF Ordered

LEMMA LoadOrder ==
    ASSUME ProcessorUse, Base, NEW t \in Threads, DequeueLoad(t, runable), t = proc,
           NEW ln \in [Nodes -> Nat], NEW lr \in [Nodes -> Nat], NEW cut \in Nat \ {0},
           NEW k \in 0..MaxNodes, Ordered(ln, lr, cut, k)
    PROVE  Ordered(ln, lr, cut, k)'
<1>0. /\ TypeOK /\ PointerInv /\ StepInv /\ OwnerInv
      /\ new \in Queues /\ runable \in Queues /\ new # runable /\ proc \in Threads
      /\ Positions(ln, lr, cut, k) /\ Forward(ln, lr)
      /\ NewSide(cut) /\ RunableSide(cut) /\ TakenLast(lr, cut)
      /\ DeliveredFirst(ln, lr, cut) /\ RemovedNext(ln, lr, cut)
  BY DEF Base, ProcessorUse, Ordered
<1>1. /\ TypeOK' /\ Others(t) /\ pc[t] = "ready"
      /\ pc'[t] = (IF head[runable] = Nil THEN "resetEmpty" ELSE "readNext")
      /\ reg'[t].q = runable /\ reg'[t].old = head[runable]
      /\ UNCHANGED <<head, tail, next, heap, by, delivered>>
  BY <1>0, LoadEffect
<1>2. Allocated' = Allocated /\ by' = by
  BY <1>1, LoadBase
<1>3. Positions(ln, lr, cut, k)' /\ Moved(cut)' = Moved(cut)
  BY <1>0, <1>2, SamePositions
<1>4. \A x, y \in Allocated : Follows(x, y)' => Follows(x, y)
  BY <1>0, <1>1 DEF Follows, Others, Allocated, TypeOK
<1>5. Forward(ln, lr)'
  BY <1>0, <1>2, <1>4 DEF Forward, After, InNew, InRunable
<1>6. NewSide(cut)'
  BY <1>0, <1>1, <1>2 DEF NewSide, StepInv, OwnerInv, Setting, InNew, Taking, Others
<1>7. RunableSide(cut)'
  <2>1. /\ t = proc /\ pc[proc] \notin Joining
        /\ head[runable] # Nil => head[runable] \in Moved(cut)
        /\ tail[runable] # Nil => tail[runable] \in Moved(cut)
    BY <1>0, <1>1, ProcStep DEF RunableSide, Joining
  <2> QED  BY <1>0, <1>1, <1>2, <1>3, <1>4, <2>1, RunableKept
<1>8. TakenLast(lr, cut)'
  BY <1>0, <1>1, <1>3 DEF TakenLast, StepInv, Others
<1>9. DeliveredFirst(ln, lr, cut)'
  BY <1>0, <1>1, <1>2, <1>3 DEF DeliveredFirst, After, InNew, InRunable, StepInv, Removing, Others
<1>10. RemovedNext(ln, lr, cut)'
  <2>1. head[runable] # Nil => head[runable] \in Moved(cut)
    BY <1>0, <1>1 DEF RunableSide, Joining
  <2> QED  BY <1>1, <1>3, <2>1 DEF RemovedNext, Removing
<1> QED  BY <1>3, <1>5, <1>6, <1>7, <1>8, <1>9, <1>10 DEF Ordered

LEMMA ReadNextOrder ==
    ASSUME ProcessorUse, Base, NEW t \in Threads, DequeueReadNext(t),
           NEW ln \in [Nodes -> Nat], NEW lr \in [Nodes -> Nat], NEW cut \in Nat \ {0},
           NEW k \in 0..MaxNodes, Ordered(ln, lr, cut, k)
    PROVE  Ordered(ln, lr, cut, k)'
<1>0. /\ TypeOK /\ PointerInv /\ StepInv /\ OwnerInv
      /\ new \in Queues /\ runable \in Queues /\ new # runable /\ proc \in Threads
      /\ Positions(ln, lr, cut, k) /\ Forward(ln, lr)
      /\ NewSide(cut) /\ RunableSide(cut) /\ TakenLast(lr, cut)
      /\ DeliveredFirst(ln, lr, cut) /\ RemovedNext(ln, lr, cut)
  BY DEF Base, ProcessorUse, Ordered
<1>1. /\ TypeOK' /\ Others(t) /\ pc[t] = "readNext" /\ pc'[t] = "cas"
      /\ reg[t].old \in Nodes
      /\ reg'[t].q = reg[t].q /\ reg'[t].old = reg[t].old
      /\ reg'[t].node = next[reg[t].old]
      /\ UNCHANGED <<head, tail, next, heap, by, delivered>>
  BY <1>0, ReadNextEffect
<1>2. Allocated' = Allocated /\ by' = by
  BY <1>1, ReadNextBase
<1>3. Positions(ln, lr, cut, k)' /\ Moved(cut)' = Moved(cut)
  BY <1>0, <1>2, SamePositions
<1>4. \A x, y \in Allocated : Follows(x, y)' => Follows(x, y)
  BY <1>0, <1>1 DEF Follows, Others, Allocated, TypeOK
<1>5. Forward(ln, lr)'
  BY <1>0, <1>2, <1>4 DEF Forward, After, InNew, InRunable
<1>6. NewSide(cut)'
  BY <1>0, <1>1, <1>2 DEF NewSide, StepInv, OwnerInv, Setting, InNew, Taking, Others
<1>7. RunableSide(cut)'
  <2>1. /\ t = proc /\ pc[proc] \notin Joining
        /\ head[runable] # Nil => head[runable] \in Moved(cut)
        /\ tail[runable] # Nil => tail[runable] \in Moved(cut)
    BY <1>0, <1>1, ProcStep DEF RunableSide, Joining
  <2> QED  BY <1>0, <1>1, <1>2, <1>3, <1>4, <2>1, RunableKept
<1>8. TakenLast(lr, cut)'
  BY <1>0, <1>1, <1>3 DEF TakenLast, StepInv, Others
<1>9. DeliveredFirst(ln, lr, cut)'
  <2>1. t = proc /\ pc[proc] \in Removing /\ pc'[proc] # "setHead"
    BY <1>0, <1>1, ProcStep DEF Removing
  <2> QED  BY <1>0, <1>1, <1>2, <1>3, <2>1, DeliveredKept DEF DeliveredFirst
<1>10. RemovedNext(ln, lr, cut)'
  <2>1. t = proc /\ pc[proc] = "readNext" /\ pc[proc] \in Removing
    BY <1>0, <1>1, ProcStep DEF Removing
  <2>2. /\ reg[t].old \in Moved(cut) /\ reg[t].old \in Allocated
        /\ head[runable] = reg[t].old
    BY <1>0, <2>1 DEF RemovedNext, Moved
  <2>3. next[reg[t].old] # Nil =>
           /\ next[reg[t].old] \in Moved(cut)
           /\ After(ln, lr, reg[t].old, next[reg[t].old])
    <3> SUFFICES ASSUME next[reg[t].old] # Nil
                 PROVE  /\ next[reg[t].old] \in Moved(cut)
                        /\ After(ln, lr, reg[t].old, next[reg[t].old])
      OBVIOUS
    <3> DEFINE y == next[reg[t].old]
    <3>1. y \in Allocated /\ Follows(reg[t].old, y)
      BY <1>0, <1>1 DEF PointerInv, Follows
    <3> HIDE DEF y
    <3>2. y \in Moved(cut)
      BY <1>0, <2>1, <2>2, <3>1 DEF RunableSide, Joining
    <3>3. After(ln, lr, reg[t].old, y)
      BY <1>0, <2>2, <3>1 DEF Forward
    <3> QED  BY <3>2, <3>3 DEF y
  <2> QED  BY <1>1, <1>2, <1>3, <2>1, <2>2, <2>3
           DEF RemovedNext, After, InNew, InRunable, Removing
<1> QED  BY <1>3, <1>5, <1>6, <1>7, <1>8, <1>9, <1>10 DEF Ordered

LEMMA CasOrder ==
    ASSUME ProcessorUse, Base, NEW t \in Threads, DequeueCas(t),
           head[runable] = reg[t].old,
           NEW ln \in [Nodes -> Nat], NEW lr \in [Nodes -> Nat], NEW cut \in Nat \ {0},
           NEW k \in 0..MaxNodes, Ordered(ln, lr, cut, k)
    PROVE  Ordered(ln, lr, cut, k)'
<1>0. /\ TypeOK /\ PointerInv /\ StepInv /\ OwnerInv
      /\ new \in Queues /\ runable \in Queues /\ new # runable /\ proc \in Threads
      /\ Positions(ln, lr, cut, k) /\ Forward(ln, lr)
      /\ NewSide(cut) /\ RunableSide(cut) /\ TakenLast(lr, cut)
      /\ DeliveredFirst(ln, lr, cut) /\ RemovedNext(ln, lr, cut)
  BY DEF Base, ProcessorUse, Ordered
<1>1. /\ TypeOK' /\ Others(t) /\ pc[t] = "cas" /\ pc'[t] = "checkNext"
      /\ reg'[t].q = reg[t].q /\ reg'[t].old = reg[t].old
      /\ head'[runable] = reg[t].node
      /\ \A q \in Queues \ {runable} : head'[q] = head[q]
      /\ UNCHANGED <<tail, next, heap, by, delivered>>
  BY <1>0, CasEffect
<1>2. Allocated' = Allocated /\ by' = by
  BY <1>1, CasBase
<1>3. Positions(ln, lr, cut, k)' /\ Moved(cut)' = Moved(cut)
  BY <1>0, <1>2, SamePositions
<1>4. \A x, y \in Allocated : Follows(x, y)' => Follows(x, y)
  BY <1>0, <1>1 DEF Follows, Others, Allocated, TypeOK
<1>5. Forward(ln, lr)'
  BY <1>0, <1>2, <1>4 DEF Forward, After, InNew, InRunable
<1>6. NewSide(cut)'
  BY <1>0, <1>1, <1>2 DEF NewSide, StepInv, OwnerInv, Setting, InNew, Taking, Others
<1>7. RunableSide(cut)'
  <2>1. /\ t = proc /\ pc[proc] \notin Joining
        /\ tail[runable] # Nil => tail[runable] \in Moved(cut)
        /\ reg[t].node # Nil => reg[t].node \in Moved(cut)
    BY <1>0, <1>1, ProcStep DEF RunableSide, RemovedNext, Joining
  <2> QED  BY <1>0, <1>1, <1>2, <1>3, <1>4, <2>1, RunableKept
<1>8. TakenLast(lr, cut)'
  BY <1>0, <1>1, <1>3 DEF TakenLast, StepInv, Others
<1>9. DeliveredFirst(ln, lr, cut)'
  <2>1. t = proc
    BY <1>0, <1>1, ProcStep
  <2>2. \A i \in 1..Len(delivered) : After(ln, lr, delivered[i], reg[t].old)
    BY <1>0, <1>1, <2>1 DEF DeliveredFirst, Removing
  <2>3. reg[t].node # Nil => /\ After(ln, lr, reg[t].old, reg[t].node)
                             /\ reg[t].node \in Nodes
    BY <1>0, <1>1, <2>1 DEF RemovedNext, Moved, Allocated
  <2>4. reg[t].old \in Nodes /\ \A i \in 1..Len(delivered) : delivered[i] \in Nodes
    BY <1>0, <1>1 DEF StepInv, PointerInv, Removing, Allocated
  <2>5. \A i \in 1..Len(delivered) :
           reg[t].node # Nil => After(ln, lr, delivered[i], reg[t].node)
    BY <2>2, <2>3, <2>4, AfterTransitive
  <2>6. pc'[proc] # "setHead"
    BY <1>1, <2>1
  <2> QED  BY <1>0, <1>1, <1>2, <1>3, <2>1, <2>2, <2>5, <2>6, DeliveredKept
<1>10. RemovedNext(ln, lr, cut)'
  BY <1>0, <1>1, <1>2, <1>3 DEF RemovedNext, After, InNew, InRunable, StepInv, Removing, Others
<1> QED  BY <1>3, <1>5, <1>6, <1>7, <1>8, <1>9, <1>10 DEF Ordered

LEMMA CheckNextOrder ==
    ASSUME ProcessorUse, Base, NEW t \in Threads, DequeueCheckNext(t),
           NEW ln \in [Nodes -> Nat], NEW lr \in [Nodes -> Nat], NEW cut \in Nat \ {0},
           NEW k \in 0..MaxNodes, Ordered(ln, lr, cut, k)
    PROVE  Ordered(ln, lr, cut, k)'
<1>0. /\ TypeOK /\ PointerInv /\ StepInv /\ OwnerInv
      /\ new \in Queues /\ runable \in Queues /\ new # runable /\ proc \in Threads
      /\ Positions(ln, lr, cut, k) /\ Forward(ln, lr)
      /\ NewSide(cut) /\ RunableSide(cut) /\ TakenLast(lr, cut)
      /\ DeliveredFirst(ln, lr, cut) /\ RemovedNext(ln, lr, cut)
  BY DEF Base, ProcessorUse, Ordered
<1>1. /\ TypeOK' /\ Others(t) /\ pc[t] = "checkNext" /\ pc'[t] \in {"resetTail", "free"}
      /\ UNCHANGED <<head, tail, next, heap, by, reg, delivered>>
  BY <1>0, CheckNextEffect
<1>2. Allocated' = Allocated /\ by' = by
  BY <1>1, CheckNextBase
<1>3. Positions(ln, lr, cut, k)' /\ Moved(cut)' = Moved(cut)
  BY <1>0, <1>2, SamePositions
<1>4. \A x, y \in Allocated : Follows(x, y)' => Follows(x, y)
  BY <1>0, <1>1 DEF Follows, Others, Allocated, TypeOK
<1>5. Forward(ln, lr)'
  BY <1>0, <1>2, <1>4 DEF Forward, After, InNew, InRunable
<1>6. NewSide(cut)'
  BY <1>0, <1>1, <1>2 DEF NewSide, StepInv, OwnerInv, Setting, InNew, Taking, Others
<1>7. RunableSide(cut)'
  <2>1. CASE pc[proc] \in Joining
    BY <1>0, <1>1, <2>1 DEF RunableSide, Joining, StepInv, Others
  <2>2. CASE pc[proc] \notin Joining
    <3>1. /\ head[runable] # Nil => head[runable] \in Moved(cut)
          /\ tail[runable] # Nil => tail[runable] \in Moved(cut)
      BY <1>0, <2>2 DEF RunableSide
    <3>2. pc'[proc] = "catStoreTail" => pc[proc] = "catStoreTail" /\ reg'[proc].old = reg[proc].old
      BY <1>0, <1>1 DEF Others
    <3> QED  BY <1>0, <1>1, <1>2, <1>3, <1>4, <2>2, <3>1, <3>2, RunableKept
  <2> QED  BY <2>1, <2>2
<1>8. TakenLast(lr, cut)'
  BY <1>0, <1>1, <1>3 DEF TakenLast, StepInv, Others
<1>9. DeliveredFirst(ln, lr, cut)'
  BY <1>0, <1>1, <1>2, <1>3 DEF DeliveredFirst, After, InNew, InRunable, StepInv, Removing, Others
<1>10. RemovedNext(ln, lr, cut)'
  BY <1>0, <1>1, <1>2, <1>3 DEF RemovedNext, After, InNew, InRunable, StepInv, Removing, Others
<1> QED  BY <1>3, <1>5, <1>6, <1>7, <1>8, <1>9, <1>10 DEF Ordered

LEMMA ResetOrder ==
    ASSUME ProcessorUse, Base, NEW t \in Threads, DequeueResetTail(t) \/ DequeueEmpty(t),
           NEW ln \in [Nodes -> Nat], NEW lr \in [Nodes -> Nat], NEW cut \in Nat \ {0},
           NEW k \in 0..MaxNodes, Ordered(ln, lr, cut, k)
    PROVE  Ordered(ln, lr, cut, k)'
<1>0. /\ TypeOK /\ PointerInv /\ StepInv /\ OwnerInv
      /\ new \in Queues /\ runable \in Queues /\ new # runable /\ proc \in Threads
      /\ Positions(ln, lr, cut, k) /\ Forward(ln, lr)
      /\ NewSide(cut) /\ RunableSide(cut) /\ TakenLast(lr, cut)
      /\ DeliveredFirst(ln, lr, cut) /\ RemovedNext(ln, lr, cut)
  BY DEF Base, ProcessorUse, Ordered
<1>1. /\ TypeOK' /\ Others(t) /\ t = proc
      /\ \/ pc[t] = "resetTail" /\ pc'[t] = "free" /\ UNCHANGED reg
         \/ pc[t] = "resetEmpty" /\ pc'[t] = "ready"
      /\ tail'[runable] = Nil
      /\ \A q \in Queues \ {runable} : tail'[q] = tail[q]
      /\ UNCHANGED <<head, next, heap, by, delivered>>
  BY <1>0, ResetEffect
<1>2. Allocated' = Allocated /\ by' = by
  BY <1>1, ResetBase
<1>3. Positions(ln, lr, cut, k)' /\ Moved(cut)' = Moved(cut)
  BY <1>0, <1>2, SamePositions
<1>4. \A x, y \in Allocated : Follows(x, y)' => Follows(x, y)
  BY <1>0, <1>1 DEF Follows, Others, Allocated, TypeOK
<1>5. Forward(ln, lr)'
  BY <1>0, <1>2, <1>4 DEF Forward, After, InNew, InRunable
<1>6. NewSide(cut)'
  BY <1>0, <1>1, <1>2 DEF NewSide, StepInv, OwnerInv, Setting, InNew, Taking, Others
<1>7. RunableSide(cut)'
  <2>1. /\ t = proc /\ pc[proc] \notin Joining
        /\ head[runable] # Nil => head[runable] \in Moved(cut)
        /\ tail[runable] # Nil => tail[runable] \in Moved(cut)
    BY <1>0, <1>1, ProcStep DEF RunableSide, Joining
  <2> QED  BY <1>0, <1>1, <1>2, <1>3, <1>4, <2>1, RunableKept
<1>8. TakenLast(lr, cut)'
  BY <1>0, <1>1, <1>3 DEF TakenLast, StepInv, Others
<1>9. DeliveredFirst(ln, lr, cut)'
  BY <1>0, <1>1, <1>2, <1>3 DEF DeliveredFirst, After, InNew, InRunable, StepInv, Removing, Others
<1>10. RemovedNext(ln, lr, cut)'
  BY <1>0, <1>1, <1>2, <1>3 DEF RemovedNext, After, InNew, InRunable, StepInv, Removing, Others
<1> QED  BY <1>3, <1>5, <1>6, <1>7, <1>8, <1>9, <1>10 DEF Ordered

LEMMA FreeOrder ==
    ASSUME ProcessorUse, Base, NEW t \in Threads, DequeueFree(t),
           NEW ln \in [Nodes -> Nat], NEW lr \in [Nodes -> Nat], NEW cut \in Nat \ {0},
           NEW k \in 0..MaxNodes, Ordered(ln, lr, cut, k)
    PROVE  Ordered(ln, lr, cut, k)'
<1>0. /\ TypeOK /\ PointerInv /\ StepInv /\ OwnerInv
      /\ new \in Queues /\ runable \in Queues /\ new # runable /\ proc \in Threads
      /\ Positions(ln, lr, cut, k) /\ Forward(ln, lr)
      /\ NewSide(cut) /\ RunableSide(cut) /\ TakenLast(lr, cut)
      /\ DeliveredFirst(ln, lr, cut) /\ RemovedNext(ln, lr, cut)
  BY DEF Base, ProcessorUse, Ordered
<1>1. /\ TypeOK' /\ Others(t) /\ pc[t] = "free" /\ pc'[t] = "ready"
      /\ reg[t].old \in Nodes
      /\ heap'[reg[t].old] = "freed"
      /\ \A x \in Nodes \ {reg[t].old} : heap'[x] = heap[x]
      /\ Len(delivered') = Len(delivered) + 1
      /\ \A i \in 1..Len(delivered) : delivered'[i] = delivered[i]
      /\ delivered'[Len(delivered) + 1] = reg[t].old
      /\ UNCHANGED <<head, tail, next, by>>
  BY <1>0, FreeEffect
<1>2. Allocated' = Allocated /\ by' = by
  BY <1>1, FreeBase
<1>3. Positions(ln, lr, cut, k)' /\ Moved(cut)' = Moved(cut)
  BY <1>0, <1>2, SamePositions
<1>4. \A x, y \in Allocated : Follows(x, y)' => Follows(x, y)
  BY <1>0, <1>1 DEF Follows, Others, Allocated, TypeOK
<1>5. Forward(ln, lr)'
  BY <1>0, <1>2, <1>4 DEF Forward, After, InNew, InRunable
<1>6. NewSide(cut)'
  BY <1>0, <1>1, <1>2 DEF NewSide, StepInv, OwnerInv, Setting, InNew, Taking, Others
<1>7. RunableSide(cut)'
  <2>1. /\ t = proc /\ pc[proc] \notin Joining
        /\ head[runable] # Nil => head[runable] \in Moved(cut)
        /\ tail[runable] # Nil => tail[runable] \in Moved(cut)
    BY <1>0, <1>1, ProcStep DEF RunableSide, Joining
  <2> QED  BY <1>0, <1>1, <1>2, <1>3, <1>4, <2>1, RunableKept
<1>8. TakenLast(lr, cut)'
  BY <1>0, <1>1, <1>3 DEF TakenLast, StepInv, Others
<1>9. DeliveredFirst(ln, lr, cut)'
  <2>1. t = proc /\ pc[proc] = "free" /\ pc[proc] \in Removing
        /\ pc'[proc] \notin Removing /\ pc'[proc] # "setHead"
    BY <1>0, <1>1, ProcStep DEF Removing
  <2>2. /\ reg[t].old \in Moved(cut)
        /\ head[runable] # Nil => After(ln, lr, reg[t].old, head[runable])
    BY <1>0, <2>1 DEF RemovedNext
  <2>3. \A i \in 1..Len(delivered) :
          /\ delivered[i] \in Moved(cut)
          /\ head[runable] # Nil => After(ln, lr, delivered[i], head[runable])
          /\ After(ln, lr, delivered[i], reg[t].old)
          /\ \A j \in 1..Len(delivered) : i < j => After(ln, lr, delivered[i], delivered[j])
    BY <1>0, <2>1 DEF DeliveredFirst
  <2>4. Len(delivered) \in Nat
    BY <1>0 DEF TypeOK
  <2>5. \A i \in 1..Len(delivered') : i \in 1..Len(delivered) \/ i = Len(delivered) + 1
    BY <1>1, <2>4
  <2>6. \A i \in 1..Len(delivered') :
          /\ delivered'[i] \in Moved(cut)
          /\ head[runable] # Nil => After(ln, lr, delivered'[i], head[runable])
    BY <1>1, <2>2, <2>3, <2>5
  <2>7. \A i, j \in 1..Len(delivered') : i < j => After(ln, lr, delivered'[i], delivered'[j])
    <3> SUFFICES ASSUME NEW i \in 1..Len(delivered'), NEW j \in 1..Len(delivered'), i < j
                 PROVE  After(ln, lr, delivered'[i], delivered'[j])
      OBVIOUS
    <3>1. i \in 1..Len(delivered)
      BY <1>1, <2>4
    <3>2. CASE j \in 1..Len(delivered)
      BY <1>1, <2>3, <3>1, <3>2
    <3>3. CASE j = Len(delivered) + 1
      BY <1>1, <2>3, <3>1, <3>3
    <3> QED  BY <2>5, <3>2, <3>3
  <2> QED  BY <1>1, <1>2, <1>3, <2>1, <2>6, <2>7 DEF DeliveredFirst, After, InNew, InRunable
<1>10. RemovedNext(ln, lr, cut)'
  BY <1>0, <1>1, <1>2, <1>3 DEF RemovedNext, After, InNew, InRunable, StepInv, Removing, Others
<1> QED  BY <1>3, <1>5, <1>6, <1>7, <1>8, <1>9, <1>10 DEF Ordered

LEMMA CatTailOrder ==
    ASSUME ProcessorUse, Base, NEW t \in Threads, ConcatTail(t),
           NEW ln \in [Nodes -> Nat], NEW lr \in [Nodes -> Nat], NEW cut \in Nat \ {0},
           NEW k \in 0..MaxNodes, Ordered(ln, lr, cut, k)
    PROVE  Ordered(ln, lr, cut, k)'
<1>0. /\ TypeOK /\ PointerInv /\ StepInv /\ OwnerInv
      /\ new \in Queues /\ runable \in Queues /\ new # runable /\ proc \in Threads
      /\ Positions(ln, lr, cut, k) /\ Forward(ln, lr)
      /\ NewSide(cut) /\ RunableSide(cut) /\ TakenLast(lr, cut)
      /\ DeliveredFirst(ln, lr, cut) /\ RemovedNext(ln, lr, cut)
  BY DEF Base, ProcessorUse, Ordered
<1>1. /\ TypeOK' /\ Others(t) /\ pc[t] = "catTail"
      /\ pc'[t] = (IF tail[runable] # Nil THEN "catLink" ELSE "catSetHead")
      /\ reg'[t].q = reg[t].q /\ reg'[t].src = reg[t].src
      /\ reg'[t].node = reg[t].node /\ reg'[t].old = tail[runable]
      /\ tail'[runable] = reg[t].node
      /\ \A q \in Queues \ {runable} : tail'[q] = tail[q]
      /\ UNCHANGED <<head, next, heap, by, delivered>>
  BY <1>0, CatTailEffect
<1>2. Allocated' = Allocated /\ by' = by
  BY <1>1, CatTailBase
<1>3. Positions(ln, lr, cut, k)' /\ Moved(cut)' = Moved(cut)
  BY <1>0, <1>2, SamePositions
<1>4. \A x, y \in Allocated :
        Follows(x, y)' => Follows(x, y) \/ (x = tail[runable] /\ y = reg[t].node)
  BY <1>0, <1>1 DEF Follows, Others, Allocated, TypeOK
<1>5. Forward(ln, lr)'
  <2>1. t = proc /\ pc[proc] = "catTail" /\ reg[t].node \in Allocated
        /\ InNew(reg[t].node) /\ cut <= reg[t].node
    BY <1>0, <1>1, ProcStep DEF StepInv, NewSide, Taking
  <2>2. tail[runable] # Nil => After(ln, lr, tail[runable], reg[t].node)
    <3> SUFFICES ASSUME tail[runable] # Nil
                 PROVE  After(ln, lr, tail[runable], reg[t].node)
      OBVIOUS
    <3>1. tail[runable] \in Moved(cut)
      BY <1>0, <2>1 DEF RunableSide, Joining
    <3>2. /\ ln[tail[runable]] < cut /\ lr[tail[runable]] <= lr[reg[t].node]
          /\ ln[reg[t].node] = reg[t].node
      BY <1>0, <2>1, <3>1 DEF Positions, TakenLast
    <3>3. ~InRunable(reg[t].node)
      BY <1>0, <2>1 DEF InNew, InRunable
    <3>4. ln[tail[runable]] \in Nat /\ reg[t].node \in Nat
      BY <2>1, <3>1 DEF Moved, Allocated, Nodes
    <3> QED  BY <2>1, <3>2, <3>3, <3>4 DEF After
  <2>3. \A x \in Allocated : x # Nil
    BY DEF Allocated, Nodes, Nil
  <2>4. \A x, y \in Allocated : Follows(x, y)' => After(ln, lr, x, y)
    BY <1>0, <1>4, <2>2, <2>3 DEF Forward
  <2> QED  BY <1>2, <2>4 DEF Forward, After, InNew, InRunable
<1>6. NewSide(cut)'
  BY <1>0, <1>1, <1>2 DEF NewSide, StepInv, OwnerInv, Setting, InNew, Taking, Others
<1>7. RunableSide(cut)'
  <2>1. t = proc
    BY <1>0, <1>1, ProcStep
  <2> QED  BY <1>1, <2>1 DEF RunableSide, Joining
<1>8. TakenLast(lr, cut)'
  BY <1>0, <1>1, <1>3 DEF TakenLast, StepInv, Others
<1>9. DeliveredFirst(ln, lr, cut)'
  BY <1>0, <1>1, <1>2, <1>3 DEF DeliveredFirst, After, InNew, InRunable, StepInv, Removing, Others
<1>10. RemovedNext(ln, lr, cut)'
  BY <1>0, <1>1, <1>2, <1>3 DEF RemovedNext, After, InNew, InRunable, StepInv, Removing, Others
<1> QED  BY <1>3, <1>5, <1>6, <1>7, <1>8, <1>9, <1>10 DEF Ordered

LEMMA CatLinkOrder ==
    ASSUME ProcessorUse, Base, NEW t \in Threads, ConcatLink(t),
           NEW ln \in [Nodes -> Nat], NEW lr \in [Nodes -> Nat], NEW cut \in Nat \ {0},
           NEW k \in 0..MaxNodes, Ordered(ln, lr, cut, k)
    PROVE  Ordered(ln, lr, cut, k)'
<1>0. /\ TypeOK /\ PointerInv /\ StepInv /\ OwnerInv
      /\ new \in Queues /\ runable \in Queues /\ new # runable /\ proc \in Threads
      /\ Positions(ln, lr, cut, k) /\ Forward(ln, lr)
      /\ NewSide(cut) /\ RunableSide(cut) /\ TakenLast(lr, cut)
      /\ DeliveredFirst(ln, lr, cut) /\ RemovedNext(ln, lr, cut)
  BY DEF Base, ProcessorUse, Ordered
<1>1. /\ TypeOK' /\ Others(t) /\ pc[t] = "catLink" /\ pc'[t] = "catTakeTail"
      /\ reg[t].old \in Nodes /\ next'[reg[t].old] = reg[t].node
      /\ \A x \in Nodes \ {reg[t].old} : next'[x] = next[x]
      /\ UNCHANGED <<head, tail, heap, by, reg, delivered>>
  BY <1>0, CatLinkEffect
<1>2. Allocated' = Allocated /\ by' = by
  BY <1>1, CatLinkBase
<1>3. Positions(ln, lr, cut, k)' /\ Moved(cut)' = Moved(cut)
  BY <1>0, <1>2, SamePositions
<1>4. \A x, y \in Allocated : Follows(x, y)' => Follows(x, y)
  BY <1>0, <1>1 DEF Follows, Others, Allocated, TypeOK
<1>5. Forward(ln, lr)'
  BY <1>0, <1>2, <1>4 DEF Forward, After, InNew, InRunable
<1>6. NewSide(cut)'
  BY <1>0, <1>1, <1>2 DEF NewSide, StepInv, OwnerInv, Setting, InNew, Taking, Others
<1>7. RunableSide(cut)'
  <2>1. t = proc
    BY <1>0, <1>1, ProcStep
  <2> QED  BY <1>1, <2>1 DEF RunableSide, Joining
<1>8. TakenLast(lr, cut)'
  BY <1>0, <1>1, <1>3 DEF TakenLast, StepInv, Others
<1>9. DeliveredFirst(ln, lr, cut)'
  BY <1>0, <1>1, <1>2, <1>3 DEF DeliveredFirst, After, InNew, InRunable, StepInv, Removing, Others
<1>10. RemovedNext(ln, lr, cut)'
  BY <1>0, <1>1, <1>2, <1>3 DEF RemovedNext, After, InNew, InRunable, StepInv, Removing, Others
<1> QED  BY <1>3, <1>5, <1>6, <1>7, <1>8, <1>9, <1>10 DEF Ordered

LEMMA CatSetHeadOrder ==
    ASSUME ProcessorUse, Base, NEW t \in Threads, ConcatSetHead(t),
           NEW ln \in [Nodes -> Nat], NEW lr \in [Nodes -> Nat], NEW cut \in Nat \ {0},
           NEW k \in 0..MaxNodes, Ordered(ln, lr, cut, k)
    PROVE  Ordered(ln, lr, cut, k)'
<1>0. /\ TypeOK /\ PointerInv /\ StepInv /\ OwnerInv
      /\ new \in Queues /\ runable \in Queues /\ new # runable /\ proc \in Threads
      /\ Positions(ln, lr, cut, k) /\ Forward(ln, lr)
      /\ NewSide(cut) /\ RunableSide(cut) /\ TakenLast(lr, cut)
      /\ DeliveredFirst(ln, lr, cut) /\ RemovedNext(ln, lr, cut)
  BY DEF Base, ProcessorUse, Ordered
<1>1. /\ TypeOK' /\ Others(t) /\ pc[t] = "catSetHead" /\ pc'[t] = "catTakeTail"
      /\ head'[runable] = reg[t].node
      /\ \A q \in Queues \ {runable} : head'[q] = head[q]
      /\ UNCHANGED <<tail, next, heap, by, reg, delivered>>
  BY <1>0, CatSetHeadEffect
<1>2. Allocated' = Allocated /\ by' = by
  BY <1>1, CatSetHeadBase
<1>3. Positions(ln, lr, cut, k)' /\ Moved(cut)' = Moved(cut)
  BY <1>0, <1>2, SamePositions
<1>4. \A x, y \in Allocated : Follows(x, y)' => Follows(x, y)
  BY <1>0, <1>1 DEF Follows, Others, Allocated, TypeOK
<1>5. Forward(ln, lr)'
  BY <1>0, <1>2, <1>4 DEF Forward, After, InNew, InRunable
<1>6. NewSide(cut)'
  BY <1>0, <1>1, <1>2 DEF NewSide, StepInv, OwnerInv, Setting, InNew, Taking, Others
<1>7. RunableSide(cut)'
  <2>1. t = proc
    BY <1>0, <1>1, ProcStep
  <2> QED  BY <1>1, <2>1 DEF RunableSide, Joining
<1>8. TakenLast(lr, cut)'
  BY <1>0, <1>1, <1>3 DEF TakenLast, StepInv, Others
<1>9. DeliveredFirst(ln, lr, cut)'
  <2>1. t = proc /\ pc[proc] = "catSetHead" /\ reg[t].node \in Allocated
        /\ InNew(reg[t].node) /\ cut <= reg[t].node
    BY <1>0, <1>1, ProcStep DEF StepInv, NewSide, Taking
  <2>2. \A i \in 1..Len(delivered) : After(ln, lr, delivered[i], reg[t].node)
    <3> SUFFICES ASSUME NEW i \in 1..Len(delivered)
                 PROVE  After(ln, lr, delivered[i], reg[t].node)
      OBVIOUS
    <3>1. /\ delivered[i] \in Moved(cut) /\ ln[delivered[i]] < cut
          /\ lr[delivered[i]] <= lr[reg[t].node] /\ ln[reg[t].node] = reg[t].node
      BY <1>0, <2>1 DEF DeliveredFirst, Positions, TakenLast
    <3>2. delivered[i] \in Nodes /\ reg[t].node \in Nodes
      BY <2>1, <3>1 DEF Moved, Allocated
    <3>3. ~InRunable(reg[t].node)
      BY <1>0, <2>1 DEF InNew, InRunable
    <3>4. ln[delivered[i]] \in Nat /\ reg[t].node \in Nat
      BY <3>2 DEF Nodes
    <3> QED  BY <2>1, <3>1, <3>3, <3>4 DEF After
  <2>3. pc'[proc] \notin Removing /\ pc'[proc] # "setHead"
    BY <1>1, <2>1 DEF Removing
  <2> QED  BY <1>0, <1>1, <1>2, <1>3, <2>2, <2>3, DeliveredKept
<1>10. RemovedNext(ln, lr, cut)'
  BY <1>0, <1>1, <1>2, <1>3 DEF RemovedNext, After, InNew, InRunable, StepInv, Removing, Others
<1> QED  BY <1>3, <1>5, <1>6, <1>7, <1>8, <1>9, <1>10 DEF Ordered

LEMMA StoreTailOrder ==
    ASSUME ProcessorUse, Base, NEW t \in Threads, ConcatStoreTail(t),
           NEW ln \in [Nodes -> Nat], NEW lr \in [Nodes -> Nat], NEW cut \in Nat \ {0},
           NEW k \in 0..MaxNodes, Ordered(ln, lr, cut, k)
    PROVE  Ordered(ln, lr, cut, k)'
<1>0. /\ TypeOK /\ PointerInv /\ StepInv /\ OwnerInv
      /\ new \in Queues /\ runable \in Queues /\ new # runable /\ proc \in Threads
      /\ Positions(ln, lr, cut, k) /\ Forward(ln, lr)
      /\ NewSide(cut) /\ RunableSide(cut) /\ TakenLast(lr, cut)
      /\ DeliveredFirst(ln, lr, cut) /\ RemovedNext(ln, lr, cut)
  BY DEF Base, ProcessorUse, Ordered
<1>1. /\ TypeOK' /\ Others(t) /\ pc[t] = "catStoreTail" /\ pc'[t] = "ready"
      /\ tail'[runable] = reg[t].old
      /\ \A q \in Queues \ {runable} : tail'[q] = tail[q]
      /\ UNCHANGED <<head, next, heap, by, delivered>>
  BY <1>0, StoreTailEffect
<1>2. Allocated' = Allocated /\ by' = by
  BY <1>1, StoreTailBase
<1>3. Positions(ln, lr, cut, k)' /\ Moved(cut)' = Moved(cut)
  BY <1>0, <1>2, SamePositions
<1>4. \A x, y \in Allocated : Follows(x, y)' => Follows(x, y)
  BY <1>0, <1>1 DEF Follows, Others, Allocated, TypeOK
<1>5. Forward(ln, lr)'
  BY <1>0, <1>2, <1>4 DEF Forward, After, InNew, InRunable
<1>6. NewSide(cut)'
  BY <1>0, <1>1, <1>2 DEF NewSide, StepInv, OwnerInv, Setting, InNew, Taking, Others
<1>7. RunableSide(cut)'
  <2>1. /\ t = proc /\ pc[proc] \notin Joining /\ reg[t].old \in Allocated \cup {Nil}
        /\ head[runable] # Nil => head[runable] \in Moved(cut)
    BY <1>0, <1>1, ProcStep DEF RunableSide, StepInv, Joining
  <2>2. reg[t].old # Nil => reg[t].old \in Moved(cut)
    BY <1>0, <1>1, <2>1 DEF RunableSide
  <2> QED  BY <1>0, <1>1, <1>2, <1>3, <1>4, <2>1, <2>2, RunableKept
<1>8. TakenLast(lr, cut)'
  BY <1>0, <1>1, <1>3 DEF TakenLast, StepInv, Others
<1>9. DeliveredFirst(ln, lr, cut)'
  <2>1. t = proc
    BY <1>0, <1>1, ProcStep
  <2>2. pc'[proc] \notin Removing /\ pc'[proc] # "setHead"
    BY <1>1, <2>1 DEF Removing
  <2>3. \A i \in 1..Len(delivered) :
          head[runable] # Nil => After(ln, lr, delivered[i], head[runable])
    BY <1>0 DEF DeliveredFirst
  <2> QED  BY <1>0, <1>1, <1>2, <1>3, <2>2, <2>3, DeliveredKept
<1>10. RemovedNext(ln, lr, cut)'
  BY <1>0, <1>1, <1>2, <1>3 DEF RemovedNext, After, InNew, InRunable, StepInv, Removing, Others
<1> QED  BY <1>3, <1>5, <1>6, <1>7, <1>8, <1>9, <1>10 DEF Ordered

LEMMA NodeKinds ==
    ASSUME ProcessorUse, PointerInv, NEW x \in Allocated
    PROVE  (InNew(x) /\ ~InRunable(x)) \/ (InRunable(x) /\ ~InNew(x))
<1>1. by[x] \in (Threads \X {new}) \cup {<<proc, runable>>}
  BY DEF PointerInv, ProcessorUse
<1>2. by[x][2] = new \/ by[x][2] = runable
  BY <1>1
<1> QED  BY <1>2 DEF InNew, InRunable, ProcessorUse

\* With the tail_ of new, the nodes it had are moved as a whole.
LEMMA TakeTailOrder ==
    ASSUME ProcessorUse, Base, NEW t \in Threads, ConcatTakeTail(t),
           NEW ln \in [Nodes -> Nat], NEW lr \in [Nodes -> Nat], NEW cut \in Nat \ {0},
           NEW k \in 0..MaxNodes, Ordered(ln, lr, cut, k)
    PROVE  Ordered(ln, lr, k + 1, k)'
<1>0. /\ TypeOK /\ PointerInv /\ StepInv /\ OwnerInv
      /\ new \in Queues /\ runable \in Queues /\ new # runable /\ proc \in Threads
      /\ Positions(ln, lr, cut, k) /\ Forward(ln, lr)
      /\ DeliveredFirst(ln, lr, cut)
      /\ MaxNodes \in Nat
  BY LFQueueAssumption DEF Base, ProcessorUse, Ordered
<1>1. /\ TypeOK' /\ Others(t) /\ pc[t] = "catTakeTail" /\ pc'[t] = "catStoreTail"
      /\ reg'[t].q = reg[t].q /\ reg'[t].src = reg[t].src
      /\ reg'[t].node = reg[t].node /\ reg'[t].old = tail[new]
      /\ tail'[new] = Nil /\ \A q \in Queues \ {new} : tail'[q] = tail[q]
      /\ UNCHANGED <<head, next, heap, by, delivered>>
  BY <1>0, TakeTailEffect
<1>2. Allocated' = Allocated /\ by' = by /\ t = proc
  BY <1>0, <1>1, ProcStep, TakeTailBase
<1>3. Moved(k + 1)' = Allocated /\ Allocated = 1..k /\ k \in Nat
  <2>1. Allocated = 1..k /\ k \in Nat
    BY <1>0 DEF Positions
  <2>2. \A x \in Allocated : x < k + 1
    BY <2>1
  <2> QED  BY <1>2, <2>1, <2>2 DEF Moved
<1>4. \A x, y \in Allocated : Follows(x, y)' => Follows(x, y)
  BY <1>0, <1>1 DEF Follows, Others, Allocated, TypeOK
<1>5. Positions(ln, lr, k + 1, k)'
  <2>1. \A x \in Allocated : /\ InNew(x)' => ln[x] = x
                             /\ InRunable(x)' => lr[x] = x
                             /\ ln[x] <= k /\ lr[x] <= k
    BY <1>0, <1>2 DEF Positions, InNew, InRunable
  <2>2. \A x \in Allocated : ln[x] < k + 1
    <3>1. \A x \in Allocated : ln[x] \in Nat
      BY DEF Allocated
    <3> QED  BY <1>3, <2>1, <3>1
  <2> QED  BY <1>2, <1>3, <2>1, <2>2 DEF Positions
<1>6. Forward(ln, lr)'
  BY <1>0, <1>2, <1>4 DEF Forward, After, InNew, InRunable
<1>7. NewSide(k + 1)'
  <2>1. head'[new] = Nil /\ pc'[proc] \notin Taking /\ \A u \in Threads : ~Setting(u)'
    BY <1>0, <1>1, <1>2 DEF OwnerInv, Setting, Taking, Others
  <2> QED  BY <1>1, <2>1 DEF NewSide
<1>8. RunableSide(k + 1)'
  <2>1. /\ head'[runable] \in Allocated \cup {Nil} /\ tail'[runable] \in Allocated \cup {Nil}
        /\ reg'[proc].old \in Allocated \cup {Nil}
    BY <1>0, <1>1, <1>2 DEF PointerInv
  <2> QED  BY <1>2, <1>3, <2>1 DEF RunableSide
<1>9. TakenLast(lr, k + 1)'
  BY <1>1, <1>2 DEF TakenLast
<1>10. DeliveredFirst(ln, lr, k + 1)'
  <2>1. \A i \in 1..Len(delivered) : delivered[i] \in Moved(k + 1)'
    BY <1>0, <1>3 DEF PointerInv
  <2>2. pc'[proc] \notin Removing /\ pc'[proc] # "setHead"
    BY <1>1, <1>2 DEF Removing
  <2> QED  BY <1>0, <1>1, <1>2, <2>1, <2>2 DEF DeliveredFirst, After, InNew, InRunable
<1>11. RemovedNext(ln, lr, k + 1)'
  BY <1>1, <1>2 DEF RemovedNext, Removing
<1> QED  BY <1>5, <1>6, <1>7, <1>8, <1>9, <1>10, <1>11 DEF Ordered

\* What is taken from new gets its place behind all of runable.
LEMMA TakeHeadOrder ==
    ASSUME ProcessorUse, Base, NEW t \in Threads, ConcatTakeHead(t, runable, new), t = proc,
           NEW ln \in [Nodes -> Nat], NEW lr \in [Nodes -> Nat], NEW cut \in Nat \ {0},
           NEW k \in 0..MaxNodes, Ordered(ln, lr, cut, k)
    PROVE  \E lr2 \in [Nodes -> Nat] : Ordered(ln, lr2, cut, k)'
<1>0. /\ TypeOK /\ PointerInv /\ StepInv /\ OwnerInv
      /\ new \in Queues /\ runable \in Queues /\ new # runable /\ proc \in Threads
      /\ Positions(ln, lr, cut, k) /\ Forward(ln, lr)
      /\ NewSide(cut) /\ RunableSide(cut) /\ TakenLast(lr, cut)
      /\ DeliveredFirst(ln, lr, cut) /\ RemovedNext(ln, lr, cut)
      /\ MaxNodes \in Nat /\ k \in Nat
  BY LFQueueAssumption DEF Base, ProcessorUse, Ordered
<1>1. /\ TypeOK' /\ Others(t) /\ pc[t] = "ready"
      /\ \/ head[new] = Nil /\ UNCHANGED <<pc, reg, head>>
         \/ /\ head[new] # Nil /\ pc'[t] = "catTail"
            /\ reg'[t].q = runable /\ reg'[t].src = new /\ reg'[t].node = head[new]
      /\ head'[new] = Nil /\ \A q \in Queues \ {new} : head'[q] = head[q]
      /\ UNCHANGED <<tail, next, heap, by, delivered>>
  BY <1>0, TakeHeadEffect
<1>2. Allocated' = Allocated /\ by' = by
  BY <1>1, TakeHeadBase
<1>3. Moved(cut)' = Moved(cut) /\ Positions(ln, lr, cut, k)'
  BY <1>0, <1>2, SamePositions
<1>4. \A x, y \in Allocated : Follows(x, y)' => Follows(x, y)
  BY <1>0, <1>1 DEF Follows, Others, Allocated, TypeOK
<1>5. RunableSide(cut)'
  <2>1. /\ pc[proc] \notin Joining /\ pc'[proc] # "catStoreTail"
        /\ head[runable] # Nil => head[runable] \in Moved(cut)
        /\ tail[runable] # Nil => tail[runable] \in Moved(cut)
    BY <1>0, <1>1 DEF RunableSide, Joining
  <2> QED  BY <1>0, <1>1, <1>2, <1>3, <1>4, <2>1, RunableKept
<1>6. CASE head[new] = Nil
  <2>1. UNCHANGED <<pc, reg, head, tail, delivered>>
    BY <1>1, <1>6
  <2>2. Forward(ln, lr)'
    BY <1>0, <1>2, <1>4 DEF Forward, After, InNew, InRunable
  <2>3. NewSide(cut)'
    BY <1>0, <1>2, <2>1 DEF NewSide, Setting, InNew
  <2>4. TakenLast(lr, cut)'
    BY <1>0, <1>3, <2>1 DEF TakenLast
  <2>5. DeliveredFirst(ln, lr, cut)'
    BY <1>0, <1>2, <1>3, <2>1 DEF DeliveredFirst, After, InNew, InRunable
  <2>6. RemovedNext(ln, lr, cut)'
    BY <1>0, <1>2, <1>3, <2>1 DEF RemovedNext, After, InNew, InRunable
  <2>7. Ordered(ln, lr, cut, k)'
    BY <1>3, <1>5, <2>2, <2>3, <2>4, <2>5, <2>6 DEF Ordered
  <2> QED  BY <2>7
<1>7. CASE head[new] # Nil
  <2>1. PICK lr2 \in [Nodes -> Nat] :
           /\ \A x \in Moved(cut) : lr2[x] = lr[x] /\ x \in Allocated
           /\ \A x \in Allocated \ Moved(cut) : lr2[x] = k
    <3> DEFINE f == [x \in Nodes |-> IF x \in Moved(cut) THEN lr[x] ELSE k]
    <3>1. f \in [Nodes -> Nat]
      BY <1>0
    <3>2. /\ \A x \in Moved(cut) : f[x] = lr[x] /\ x \in Allocated
          /\ \A x \in Allocated \ Moved(cut) : f[x] = k
      BY DEF Moved, Allocated
    <3> HIDE DEF f
    <3> QED  BY <3>1, <3>2
  <2>2. \A x \in Allocated : /\ lr[x] <= k /\ ln[x] \in Nat /\ lr[x] \in Nat /\ x \in Nat
                             /\ InNew(x) => ln[x] = x
                             /\ InRunable(x) => lr[x] = x /\ x \in Moved(cut)
    BY <1>0 DEF Positions, Moved, Allocated, Nodes
  <2>3. \A x \in Allocated : lr2[x] <= k
    BY <1>0, <2>1, <2>2
  <2>4. \A x \in Allocated \ Moved(cut) : InNew(x) /\ ~InRunable(x) /\ cut <= ln[x]
    <3> SUFFICES ASSUME NEW x \in Allocated \ Moved(cut)
                 PROVE  InNew(x) /\ ~InRunable(x) /\ cut <= ln[x]
      OBVIOUS
    <3>1. ~InRunable(x) /\ ~(x < cut)
      BY DEF Moved
    <3>2. InNew(x)
      BY <1>0, <3>1, NodeKinds
    <3> QED  BY <2>2, <3>1, <3>2
  <2>5. pc'[proc] = "catTail" /\ reg'[proc].node = head[new]
    BY <1>1, <1>7
  <2>6. head[new] \in Allocated /\ InNew(head[new]) /\ cut <= head[new]
    BY <1>0, <1>7 DEF PointerInv, NewSide
  <2>7. head[new] \notin Moved(cut)
    <3>1. ~InRunable(head[new])
      BY <1>0, <2>6 DEF InNew, InRunable
    <3>2. ~(head[new] < cut)
      BY <2>2, <2>6
    <3> QED  BY <3>1, <3>2 DEF Moved
  <2>8. \A x, y \in Moved(cut) : After(ln, lr, x, y) => After(ln, lr2, x, y)
    BY <2>1 DEF After
  <2>9. Positions(ln, lr2, cut, k)'
    BY <1>0, <1>2, <1>3, <2>1, <2>2, <2>3 DEF Positions, InNew, InRunable
  <2>10. Forward(ln, lr2)'
    <3>1. \A x, y \in Allocated : Follows(x, y) => After(ln, lr2, x, y)
      <4> SUFFICES ASSUME NEW x \in Allocated, NEW y \in Allocated, Follows(x, y)
                   PROVE  After(ln, lr2, x, y)
        OBVIOUS
      <4>1. After(ln, lr, x, y)
        BY <1>0 DEF Forward
      <4>2. CASE y \notin Moved(cut)
        <5>1. ~InRunable(y) /\ lr2[y] = k /\ lr2[x] <= k
          BY <2>1, <2>3, <2>4, <4>2
        <5> QED  BY <4>1, <5>1 DEF After
      <4>3. CASE y \in Moved(cut) /\ x \notin Moved(cut)
        <5>1. cut <= ln[x] /\ ln[y] < cut /\ ln[x] <= ln[y]
          BY <1>0, <2>4, <4>1, <4>3 DEF Positions, After
        <5>2. ln[x] \in Nat /\ ln[y] \in Nat
          BY <2>2
        <5> QED  BY <5>1, <5>2
      <4>4. CASE y \in Moved(cut) /\ x \in Moved(cut)
        BY <2>8, <4>1, <4>4
      <4> QED  BY <4>2, <4>3, <4>4
    <3> QED  BY <1>2, <1>4, <3>1 DEF Forward, After, InNew, InRunable
  <2>11. NewSide(cut)'
    <3>1. \A u \in Threads : ~Setting(u)'
      BY <1>0, <1>1, <1>7, <2>5 DEF OwnerInv, Setting, Others
    <3> QED  BY <1>0, <1>1, <1>2, <2>5, <2>6, <3>1 DEF NewSide, InNew
  <2>12. TakenLast(lr2, cut)'
    <3>1. \A x \in Moved(cut) : lr2[x] <= lr2[head[new]]
      BY <2>1, <2>3, <2>6, <2>7
    <3> QED  BY <1>3, <2>5, <3>1 DEF TakenLast
  <2>13. DeliveredFirst(ln, lr2, cut)'
    <3>1. \A i \in 1..Len(delivered) :
            /\ delivered[i] \in Moved(cut)
            /\ head[runable] # Nil => After(ln, lr2, delivered[i], head[runable])
            /\ \A j \in 1..Len(delivered) : i < j => After(ln, lr2, delivered[i], delivered[j])
      <4>1. head[runable] # Nil => head[runable] \in Moved(cut)
        BY <1>0, <1>1 DEF RunableSide, Joining
      <4> QED  BY <1>0, <2>8, <4>1 DEF DeliveredFirst
    <3>2. pc'[proc] \notin Removing /\ pc'[proc] # "setHead"
      BY <2>5 DEF Removing
    <3>3. head'[runable] = head[runable] /\ delivered' = delivered
      BY <1>0, <1>1
    <3> QED  BY <1>2, <1>3, <3>1, <3>2, <3>3 DEF DeliveredFirst, After, InNew, InRunable
  <2>14. RemovedNext(ln, lr2, cut)'
    BY <2>5 DEF RemovedNext, Removing
  <2>15. Ordered(ln, lr2, cut, k)'
    BY <1>5, <2>9, <2>10, <2>11, <2>12, <2>13, <2>14 DEF Ordered
  <2> QED  BY <2>15
<1> QED  BY <1>6, <1>7

\* After, where b says who enqueued the nodes.
AfterIn(b, ln, lr, x, y) ==
    /\ ln[x] <= ln[y] /\ lr[x] <= lr[y]
    /\ b[y][2] = new => ln[x] < y
    /\ b[y][2] = runable => lr[x] < y

\* A node that is enqueued to new comes after the last of new, one that is
\* enqueued to runable after all that was moved.
LEMMA ExchangeOrder ==
    ASSUME ProcessorUse, Base, NEW t \in Threads, NEW q \in {new, runable},
           q = runable => t = proc,
           NEW n \in Nodes \ Allocated, Allocates(t, q, n), Allocated' = Allocated \cup {n},
           NEW ln \in [Nodes -> Nat], NEW lr \in [Nodes -> Nat], NEW cut \in Nat \ {0},
           NEW k \in 0..MaxNodes, Ordered(ln, lr, cut, k)
    PROVE  /\ k + 1 \in 0..MaxNodes
           /\ \E ln2, lr2 \in [Nodes -> Nat] : Ordered(ln2, lr2, cut, k + 1)'
<1>0. /\ TypeOK /\ PointerInv /\ StepInv /\ OwnerInv
      /\ new \in Queues /\ runable \in Queues /\ new # runable /\ proc \in Threads
      /\ Positions(ln, lr, cut, k) /\ Forward(ln, lr)
      /\ NewSide(cut) /\ RunableSide(cut) /\ TakenLast(lr, cut)
      /\ DeliveredFirst(ln, lr, cut) /\ RemovedNext(ln, lr, cut)
      /\ MaxNodes \in Nat /\ k \in Nat /\ cut \in Nat /\ cut > 0 /\ q \in Queues
  BY LFQueueAssumption DEF Base, ProcessorUse, Ordered
<1>1. n = k + 1 /\ k + 1 \in 0..MaxNodes /\ cut <= n
  <2>1. Allocated = 1..k /\ cut <= k + 1 /\ n \in 1..MaxNodes /\ n \notin 1..k
    BY <1>0 DEF Positions, Nodes
  <2>2. \A m \in 1..MaxNodes : m < n => m \in 1..k
    BY <2>1 DEF Allocates, Allocated, Nodes
  <2>3. ~(k + 1 < n)
    <3> SUFFICES ASSUME k + 1 < n PROVE FALSE
      OBVIOUS
    <3>1. k + 1 \in 1..MaxNodes
      BY <1>0, <2>1
    <3>2. k + 1 \in 1..k
      BY <2>2, <3>1
    <3> QED  BY <1>0, <3>2
  <2> QED  BY <1>0, <2>1, <2>3
<1>2. PICK ln2 \in [Nodes -> Nat], lr2 \in [Nodes -> Nat] :
        /\ \A x \in Allocated : ln2[x] = ln[x] /\ lr2[x] = lr[x]
        /\ ln2[n] = (IF q = new THEN n ELSE cut - 1) /\ lr2[n] = n
  <2> DEFINE f == [ln EXCEPT ![n] = IF q = new THEN n ELSE cut - 1]
             g == [lr EXCEPT ![n] = n]
  <2>1. n \in Nat /\ cut - 1 \in Nat
    BY <1>0, <1>1
  <2>2. f \in [Nodes -> Nat] /\ g \in [Nodes -> Nat]
    BY <2>1
  <2>3. /\ \A x \in Allocated : f[x] = ln[x] /\ g[x] = lr[x]
        /\ f[n] = (IF q = new THEN n ELSE cut - 1) /\ g[n] = n
    BY DEF Allocated
  <2> HIDE DEF f, g
  <2> QED  BY <2>2, <2>3
<1>3. /\ \A x \in Allocated : by'[x] = by[x] /\ x # n /\ x \in Nodes /\ x # Nil
      /\ by'[n] = <<t, q>> /\ n # Nil
  BY DEF Allocates, Allocated, Nodes, Nil
<1>4. /\ \A x \in Allocated : (InNew(x)' <=> InNew(x)) /\ (InRunable(x)' <=> InRunable(x))
      /\ InNew(n)' <=> q = new
      /\ InRunable(n)' <=> q = runable
  BY <1>3 DEF InNew, InRunable
<1>5. \A x, y \in Allocated : After(ln, lr, x, y) => AfterIn(by', ln2, lr2, x, y)
  BY <1>2, <1>3 DEF After, AfterIn, InNew, InRunable
<1>6. /\ \A x \in Allocated : x \in Moved(cut)' <=> x \in Moved(cut)
      /\ n \in Moved(cut)' <=> q = runable
      /\ \A x \in Moved(cut) : x \in Allocated
      /\ \A x \in Moved(cut)' : x \in Moved(cut) \/ (x = n /\ q = runable)
  <2>1. ~(n < cut)
    BY <1>0, <1>1
  <2> QED  BY <1>0, <1>4, <2>1 DEF Moved
<1>7. \A x \in Allocated : /\ ln[x] \in Nat /\ lr[x] \in Nat /\ x \in Nat
                           /\ ln[x] <= k /\ lr[x] <= k
                           /\ InNew(x) => ln[x] = x
                           /\ InRunable(x) => lr[x] = x
  BY <1>0, <1>3 DEF Positions, Nodes
\* Whatever was moved comes before a node of runable.
<1>8. ASSUME q = runable
      PROVE  \A x \in Moved(cut) : AfterIn(by', ln2, lr2, x, n)
  <2> SUFFICES ASSUME NEW x \in Moved(cut)
               PROVE  AfterIn(by', ln2, lr2, x, n)
    OBVIOUS
  <2>1. ln[x] < cut /\ lr[x] <= k /\ ln[x] \in Nat /\ lr[x] \in Nat
    BY <1>0, <1>6, <1>7 DEF Positions
  <2>2. ln2[x] = ln[x] /\ lr2[x] = lr[x] /\ ln2[n] = cut - 1 /\ lr2[n] = n
    BY <1>0, <1>2, <1>6, <1>8
  <2>3. ln2[x] <= ln2[n] /\ lr2[x] < n
    BY <1>0, <1>1, <2>1, <2>2
  <2>4. by'[n][2] = runable
    BY <1>3, <1>8
  <2> QED  BY <1>0, <1>1, <2>1, <2>2, <2>3, <2>4 DEF AfterIn
<1>9. tail[q] # Nil => tail[q] \in Allocated /\ AfterIn(by', ln2, lr2, tail[q], n)
  <2> SUFFICES ASSUME tail[q] # Nil
               PROVE  tail[q] \in Allocated /\ AfterIn(by', ln2, lr2, tail[q], n)
    OBVIOUS
  <2>1. tail[q] \in Allocated
    BY <1>0 DEF PointerInv
  <2>2. CASE q = new
    <3>1. ln[tail[q]] = tail[q] /\ tail[q] <= k /\ lr[tail[q]] <= k
      BY <1>0, <1>7, <2>1, <2>2 DEF NewSide
    <3>2. ln2[tail[q]] = tail[q] /\ lr2[tail[q]] = lr[tail[q]] /\ ln2[n] = n /\ lr2[n] = n
      BY <1>2, <2>1, <2>2, <3>1
    <3>3. ln2[tail[q]] < n /\ lr2[tail[q]] < n
      BY <1>0, <1>1, <1>7, <2>1, <3>1, <3>2
    <3>4. by'[n][2] = new
      BY <1>3, <2>2
    <3>5. ln2[tail[q]] \in Nat /\ lr2[tail[q]] \in Nat /\ n \in Nat
      BY <1>3, <2>1 DEF Nodes
    <3> QED  BY <1>0, <2>1, <3>2, <3>3, <3>4, <3>5 DEF AfterIn
  <2>3. CASE q = runable
    <3>1. tail[q] \in Moved(cut)
      BY <1>0, <2>3 DEF RunableSide, Joining, Allocates
    <3> QED  BY <1>8, <2>1, <2>3, <3>1
  <2> QED  BY <2>2, <2>3
<1>10. \A x, y \in Allocated' : Follows(x, y)' =>
          \/ x \in Allocated /\ y \in Allocated /\ Follows(x, y)
          \/ y = n /\ x = tail[q] /\ tail[q] # Nil
  <2> SUFFICES ASSUME NEW x \in Allocated', NEW y \in Allocated', Follows(x, y)'
               PROVE  \/ x \in Allocated /\ y \in Allocated /\ Follows(x, y)
                      \/ y = n /\ x = tail[q] /\ tail[q] # Nil
    OBVIOUS
  <2>1. x \in Nodes /\ y # Nil
    BY <1>3
  <2>2. CASE next'[x] = y
    BY <1>0, <2>1, <2>2 DEF PointerInv, Follows, Allocates
  <2>3. CASE \E u \in Threads : /\ pc'[u] \in {"link", "catLink"}
                                /\ reg'[u].old = x /\ reg'[u].node = y
    <3>1. PICK u \in Threads : /\ pc'[u] \in {"link", "catLink"}
                               /\ reg'[u].old = x /\ reg'[u].node = y
      BY <2>3
    <3>2. CASE u = t
      BY <3>1, <3>2 DEF Allocates
    <3>3. CASE u # t
      <4>1. pc[u] \in {"link", "catLink"} /\ reg[u].old = x /\ reg[u].node = y
        BY <3>1, <3>3 DEF Allocates, Others
      <4> QED  BY <1>0, <4>1 DEF StepInv, Taking, Follows
    <3> QED  BY <3>2, <3>3
  <2> QED  BY <2>2, <2>3 DEF Follows
<1>11. Positions(ln2, lr2, cut, k + 1)'
  <2>1. Allocated' = 1..(k + 1) /\ cut <= (k + 1) + 1
    BY <1>0, <1>1 DEF Positions
  <2>2. \A x \in Allocated : /\ InNew(x)' => ln2[x] = x
                             /\ InRunable(x)' => lr2[x] = x
                             /\ ln2[x] <= k + 1 /\ lr2[x] <= k + 1
    BY <1>0, <1>2, <1>4, <1>7
  <2>3. /\ InNew(n)' => ln2[n] = n
        /\ InRunable(n)' => lr2[n] = n
        /\ ln2[n] <= k + 1 /\ lr2[n] <= k + 1
    BY <1>0, <1>1, <1>2, <1>4
  <2>4. \A x \in Moved(cut)' : ln2[x] < cut
    <3>1. \A x \in Moved(cut) : ln2[x] < cut
      BY <1>0, <1>2, <1>6 DEF Positions
    <3>2. q = runable => ln2[n] < cut
      BY <1>0, <1>2
    <3> QED  BY <1>6, <3>1, <3>2
  <2> QED  BY <2>1, <2>2, <2>3, <2>4 DEF Positions
<1>12. Forward(ln2, lr2)'
  <2>1. \A x, y \in Allocated' : Follows(x, y)' => AfterIn(by', ln2, lr2, x, y)
    <3> SUFFICES ASSUME NEW x \in Allocated', NEW y \in Allocated', Follows(x, y)'
                 PROVE  AfterIn(by', ln2, lr2, x, y)
      OBVIOUS
    <3>1. CASE x \in Allocated /\ y \in Allocated /\ Follows(x, y)
      BY <1>0, <1>5, <3>1 DEF Forward
    <3>2. CASE y = n /\ x = tail[q] /\ tail[q] # Nil
      BY <1>9, <3>2
    <3> QED  BY <1>10, <3>1, <3>2
  <2> QED  BY <2>1 DEF Forward, After, AfterIn, InNew, InRunable
<1>13. NewSide(cut)'
  <2>1. head[new] # Nil => InNew(head[new]) /\ by'[head[new]] = by[head[new]] /\ cut <= head[new]
    BY <1>0, <1>3 DEF NewSide, PointerInv
  <2>2. tail[new] # Nil => InNew(tail[new]) /\ by'[tail[new]] = by[tail[new]] /\ cut <= tail[new]
    BY <1>0, <1>3 DEF NewSide, PointerInv
  <2>3. \A u \in Threads : Setting(u)' => cut <= reg'[u].node
    BY <1>0, <1>1 DEF NewSide, Setting, Allocates, Others
  <2>4. pc'[proc] \in Taking =>
           /\ InNew(reg[proc].node) /\ by'[reg[proc].node] = by[reg[proc].node]
           /\ cut <= reg[proc].node /\ reg'[proc] = reg[proc]
    <3>1. t = proc => pc'[proc] \notin Taking
      BY DEF Allocates, Taking
    <3>2. t # proc => pc'[proc] = pc[proc] /\ reg'[proc] = reg[proc]
      BY <1>0 DEF Allocates, Others
    <3> QED  BY <1>0, <1>3, <3>1, <3>2 DEF NewSide, StepInv
  <2>5. q = new => tail'[new] = n /\ InNew(n)' /\ cut <= n
    BY <1>1, <1>4 DEF Allocates
  <2>6. q = runable => tail'[new] = tail[new]
    BY <1>0 DEF Allocates
  <2>7. head'[new] = head[new]
    BY DEF Allocates
  <2> QED  BY <2>1, <2>2, <2>3, <2>4, <2>5, <2>6, <2>7 DEF NewSide, InNew
<1>14. RunableSide(cut)'
  <2> SUFFICES ASSUME pc'[proc] \notin Joining
               PROVE  /\ head'[runable] # Nil => head'[runable] \in Moved(cut)'
                      /\ tail'[runable] # Nil => tail'[runable] \in Moved(cut)'
                      /\ pc'[proc] = "catStoreTail" /\ reg'[proc].old # Nil =>
                            reg'[proc].old \in Moved(cut)'
                      /\ \A x \in Moved(cut)', y \in Allocated' :
                            Follows(x, y)' => y \in Moved(cut)'
    BY DEF RunableSide
  <2>1. pc[proc] \notin Joining
        /\ (pc'[proc] = "catStoreTail" => pc[proc] = "catStoreTail" /\ reg'[proc] = reg[proc])
    BY <1>0 DEF Allocates, Others, Joining
  <2>2. /\ head[runable] # Nil => head[runable] \in Moved(cut)
        /\ tail[runable] # Nil => tail[runable] \in Moved(cut)
        /\ pc[proc] = "catStoreTail" /\ reg[proc].old # Nil => reg[proc].old \in Moved(cut)
        /\ \A x \in Moved(cut), y \in Allocated : Follows(x, y) => y \in Moved(cut)
    BY <1>0, <2>1 DEF RunableSide
  <2>3. \A x \in Moved(cut) : x \in Moved(cut)'
    BY <1>6
  <2>4. tail'[runable] # Nil => tail'[runable] \in Moved(cut)'
    BY <1>0, <1>6, <2>2, <2>3 DEF Allocates
  <2>5. \A x \in Moved(cut)', y \in Allocated' : Follows(x, y)' => y \in Moved(cut)'
    <3> SUFFICES ASSUME NEW x \in Moved(cut)', NEW y \in Allocated', Follows(x, y)'
                 PROVE  y \in Moved(cut)'
      OBVIOUS
    <3>0. x \in Allocated'
      BY DEF Moved
    <3>1. CASE x \in Allocated /\ y \in Allocated /\ Follows(x, y)
      BY <1>6, <2>2, <2>3, <3>1
    <3>2. CASE y = n /\ x = tail[q] /\ tail[q] # Nil
      <4>1. CASE q = runable
        BY <1>6, <3>2, <4>1
      <4>2. CASE q = new
        <5>1. x \in Allocated /\ InNew(x) /\ cut <= x /\ x \in Nat
          BY <1>0, <1>7, <1>9, <3>2, <4>2 DEF NewSide
        <5>2. ~InRunable(x) /\ ~(x < cut)
          BY <1>0, <5>1 DEF InNew, InRunable
        <5>3. x \notin Moved(cut)
          BY <5>2 DEF Moved
        <5> QED  BY <1>6, <5>1, <5>3
      <4> QED  BY <4>1, <4>2
    <3> QED  BY <1>10, <3>0, <3>1, <3>2
  <2>6. head'[runable] = head[runable]
    BY DEF Allocates
  <2> QED  BY <2>1, <2>2, <2>3, <2>4, <2>5, <2>6
<1>15. t # proc => pc'[proc] = pc[proc] /\ reg'[proc] = reg[proc] /\ q = new
  BY <1>0 DEF Allocates, Others
<1>16. t = proc => pc'[proc] \in {"link", "setHead"}
  BY DEF Allocates
<1>17. TakenLast(lr2, cut)'
  <2> SUFFICES ASSUME pc'[proc] \in {"catTail", "catSetHead"}, NEW x \in Moved(cut)'
               PROVE  lr2[x] <= lr2[reg'[proc].node]
    BY DEF TakenLast
  <2>1. q = new /\ pc[proc] \in {"catTail", "catSetHead"} /\ reg'[proc] = reg[proc]
    BY <1>15, <1>16
  <2>2. x \in Moved(cut) /\ x \in Allocated
    BY <1>0, <1>6, <2>1
  <2>3. reg[proc].node \in Allocated
    BY <1>0, <2>1 DEF StepInv, Taking
  <2> QED  BY <1>0, <1>2, <2>1, <2>2, <2>3 DEF TakenLast
<1>18. DeliveredFirst(ln2, lr2, cut)'
  <2>1. delivered' = delivered /\ head'[runable] = head[runable]
    BY DEF Allocates
  <2>2. \A i \in 1..Len(delivered) :
          /\ delivered[i] \in Moved(cut)'
          /\ head[runable] # Nil => AfterIn(by', ln2, lr2, delivered[i], head[runable])
          /\ pc'[proc] \in Removing => AfterIn(by', ln2, lr2, delivered[i], reg'[proc].old)
          /\ pc'[proc] = "setHead" /\ reg'[proc].q = runable =>
                AfterIn(by', ln2, lr2, delivered[i], reg'[proc].node)
          /\ \A j \in 1..Len(delivered) :
                i < j => AfterIn(by', ln2, lr2, delivered[i], delivered[j])
    <3> SUFFICES ASSUME NEW i \in 1..Len(delivered)
                 PROVE  /\ delivered[i] \in Moved(cut)'
                        /\ head[runable] # Nil => AfterIn(by', ln2, lr2, delivered[i], head[runable])
                        /\ pc'[proc] \in Removing => AfterIn(by', ln2, lr2, delivered[i], reg'[proc].old)
                        /\ pc'[proc] = "setHead" /\ reg'[proc].q = runable =>
                              AfterIn(by', ln2, lr2, delivered[i], reg'[proc].node)
                        /\ \A j \in 1..Len(delivered) :
                              i < j => AfterIn(by', ln2, lr2, delivered[i], delivered[j])
      OBVIOUS
    <3>1. /\ delivered[i] \in Moved(cut) /\ delivered[i] \in Allocated
          /\ head[runable] # Nil => head[runable] \in Allocated
          /\ head[runable] # Nil => After(ln, lr, delivered[i], head[runable])
          /\ \A j \in 1..Len(delivered) :
                i < j => delivered[j] \in Allocated /\ After(ln, lr, delivered[i], delivered[j])
      BY <1>0, <1>6 DEF DeliveredFirst, PointerInv
    <3>2. delivered[i] \in Moved(cut)'
      BY <1>6, <3>1
    <3>3. pc'[proc] \in Removing => AfterIn(by', ln2, lr2, delivered[i], reg'[proc].old)
      <4>1. pc'[proc] \in Removing =>
               /\ pc[proc] \in Removing /\ reg'[proc] = reg[proc]
        BY <1>15, <1>16 DEF Removing
      <4>2. pc[proc] \in Removing =>
               reg[proc].old \in Allocated /\ After(ln, lr, delivered[i], reg[proc].old)
        BY <1>0 DEF DeliveredFirst, StepInv
      <4> QED  BY <1>5, <3>1, <4>1, <4>2
    <3>4. pc'[proc] = "setHead" /\ reg'[proc].q = runable =>
             AfterIn(by', ln2, lr2, delivered[i], reg'[proc].node)
      <4>1. CASE t = proc
        <5>1. reg'[proc].q = q /\ reg'[proc].node = n
          BY <4>1 DEF Allocates
        <5> QED  BY <1>8, <3>1, <5>1
      <4>2. CASE t # proc
        <5>1. pc[proc] = "setHead" /\ reg[proc].q = runable =>
                reg[proc].node \in Allocated /\ After(ln, lr, delivered[i], reg[proc].node)
          BY <1>0 DEF DeliveredFirst, StepInv
        <5> QED  BY <1>5, <1>15, <3>1, <4>2, <5>1
      <4> QED  BY <4>1, <4>2
    <3> QED  BY <1>5, <3>1, <3>2, <3>3, <3>4
  <2> QED  BY <2>1, <2>2 DEF DeliveredFirst, After, AfterIn, InNew, InRunable
<1>19. RemovedNext(ln2, lr2, cut)'
  <2>1. CASE t = proc
    BY <1>16, <2>1 DEF RemovedNext, Removing
  <2>2. CASE t # proc
    <3>1. pc'[proc] = pc[proc] /\ reg'[proc] = reg[proc] /\ head'[runable] = head[runable]
      BY <1>15, <2>2 DEF Allocates
    <3>2. /\ pc[proc] \in Removing => reg[proc].old \in Moved(cut) /\ reg[proc].old \in Allocated
          /\ pc[proc] \in {"readNext", "cas"} => head[runable] = reg[proc].old
          /\ pc[proc] = "cas" /\ reg[proc].node # Nil =>
                reg[proc].node \in Moved(cut) /\ After(ln, lr, reg[proc].old, reg[proc].node)
          /\ pc[proc] \in {"checkNext", "resetTail", "free"} /\ head[runable] # Nil =>
                head[runable] \in Allocated /\ After(ln, lr, reg[proc].old, head[runable])
      BY <1>0, <1>6 DEF RemovedNext, PointerInv
    <3>3. /\ pc[proc] \in Removing => reg[proc].old \in Moved(cut)'
          /\ pc[proc] = "cas" /\ reg[proc].node # Nil =>
                /\ reg[proc].node \in Moved(cut)'
                /\ AfterIn(by', ln2, lr2, reg[proc].old, reg[proc].node)
          /\ pc[proc] \in {"checkNext", "resetTail", "free"} /\ head[runable] # Nil =>
                AfterIn(by', ln2, lr2, reg[proc].old, head[runable])
      BY <1>5, <1>6, <3>2 DEF Removing
    <3> QED  BY <3>1, <3>2, <3>3 DEF RemovedNext, After, AfterIn, InNew, InRunable
  <2> QED  BY <2>1, <2>2
<1>20. Ordered(ln2, lr2, cut, k + 1)'
  BY <1>11, <1>12, <1>13, <1>14, <1>17, <1>18, <1>19 DEF Ordered
<1> QED  BY <1>1, <1>20

-----------------------------------------------------------------------------
(* The invariant is inductive.                                             *)

LEMMA InvInit ==
    ASSUME ProcessorUse, Init
    PROVE  Inv
<1>0. /\ new \in Queues /\ runable \in Queues /\ new # runable /\ proc \in Threads
      /\ MaxNodes \in Nat
  BY LFQueueAssumption DEF ProcessorUse
<1>1. Allocated = {}
  BY DEF Init, Allocated
<1>2. TypeOK
  <2>1. reg \in [Threads -> Regs]
    BY NoRegsType DEF Init
  <2>2. "ready" \in PCs /\ Nil \in Ref
    BY DEF PCs, Ref
  <2>3. /\ head \in [Queues -> Ref] /\ tail \in [Queues -> Ref] /\ next \in [Nodes -> Ref]
        /\ heap \in [Nodes -> {"none", "live", "freed"}]
        /\ by \in [Nodes -> EnqueueUse \cup {<<>>}]
        /\ pc \in [Threads -> PCs]
    BY <2>2 DEF Init
  <2>4. delivered \in Seq(Nodes)
    BY DEF Init
  <2>5. dangling \in SUBSET Nodes
    BY DEF Init
  <2>6. overtaken \in BOOLEAN
    BY DEF Init
  <2> QED  BY <2>1, <2>3, <2>4, <2>5, <2>6 DEF TypeOK
<1>3. delivered = <<>> /\ Len(delivered) = 0
  BY DEF Init
<1>4. \A t \in Threads : pc[t] = "ready"
  BY DEF Init
<1>5. \A q \in Queues : head[q] = Nil /\ tail[q] = Nil
  BY DEF Init
<1>6. \A x \in Nodes : next[x] = Nil
  BY DEF Init
<1>7. PointerInv
  BY <1>1, <1>3, <1>5, <1>6 DEF PointerInv
<1>8. StepInv
  BY <1>4 DEF StepInv, Removing, Taking
<1>9. OwnerInv
  BY <1>0, <1>4, <1>5 DEF OwnerInv, Setting, Taking
<1>10. OrderInv
  <2> DEFINE z == [x \in Nodes |-> 0]
  <2>1. z \in [Nodes -> Nat]
    OBVIOUS
  <2> HIDE DEF z
  <2>2. Moved(1) = {}
    BY <1>1 DEF Moved
  <2>3. Positions(z, z, 1, 0)
    BY <1>1, <2>2 DEF Positions
  <2>4. Forward(z, z)
    BY <1>1 DEF Forward
  <2>5. NewSide(1) /\ RunableSide(1) /\ TakenLast(z, 1)
    BY <1>0, <1>1, <1>4, <1>5, <2>2 DEF NewSide, RunableSide, TakenLast, Setting, Taking
  <2>6. DeliveredFirst(z, z, 1) /\ RemovedNext(z, z, 1)
    BY <1>0, <1>3, <1>4 DEF DeliveredFirst, RemovedNext, Removing
  <2>7. Ordered(z, z, 1, 0)
    BY <2>3, <2>4, <2>5, <2>6 DEF Ordered
  <2> QED  BY <1>0, <2>1, <2>7 DEF OrderInv
<1> QED  BY <1>2, <1>7, <1>8, <1>9, <1>10 DEF Inv

LEMMA ContinueStep ==
    ASSUME ProcessorUse, Base, NEW t \in Threads, Continue(t),
           NEW ln \in [Nodes -> Nat], NEW lr \in [Nodes -> Nat], NEW cut \in Nat \ {0},
           NEW k \in 0..MaxNodes, Ordered(ln, lr, cut, k)
    PROVE  Base' /\ \E c \in Nat \ {0} : Ordered(ln, lr, c, k)'
<1>1. CASE EnqueueLink(t)
  BY <1>1, LinkBase, LinkOrder
<1>2. CASE EnqueueSetHead(t)
  BY <1>2, SetHeadBase, SetHeadOrder
<1>3. CASE DequeueReadNext(t)
  BY <1>3, ReadNextBase, ReadNextOrder
<1>4. CASE DequeueCas(t)
  <2>1. pc[t] = "cas" /\ t = proc
    BY <1>4, ProcStep DEF DequeueCas, At, Base
  <2>2. head[runable] = reg[t].old
    BY <2>1 DEF Ordered, RemovedNext
  <2> QED  BY <1>4, <2>2, CasBase, CasOrder
<1>5. CASE DequeueCheckNext(t)
  BY <1>5, CheckNextBase, CheckNextOrder
<1>6. CASE DequeueResetTail(t) \/ DequeueEmpty(t)
  BY <1>6, ResetBase, ResetOrder
<1>7. CASE DequeueFree(t)
  BY <1>7, FreeBase, FreeOrder
<1>8. CASE ConcatTail(t)
  BY <1>8, CatTailBase, CatTailOrder
<1>9. CASE ConcatLink(t)
  BY <1>9, CatLinkBase, CatLinkOrder
<1>10. CASE ConcatSetHead(t)
  BY <1>10, CatSetHeadBase, CatSetHeadOrder
<1>11. CASE ConcatTakeTail(t)
  <2>1. k + 1 \in Nat \ {0}
    BY LFQueueAssumption
  <2> QED  BY <1>11, <2>1, TakeTailBase, TakeTailOrder
<1>12. CASE ConcatStoreTail(t)
  BY <1>12, StoreTailBase, StoreTailOrder
<1> QED  BY <1>1, <1>2, <1>3, <1>4, <1>5, <1>6, <1>7, <1>8, <1>9, <1>10, <1>11, <1>12 DEF Continue

LEMMA InvStep ==
    ASSUME ProcessorUse, Inv, [Next]_vars
    PROVE  Inv'
<1>0. Base /\ PointerInv
  BY DEF Inv, Base
<1>1. PICK ln \in [Nodes -> Nat], lr \in [Nodes -> Nat], cut \in Nat \ {0}, k \in 0..MaxNodes :
        Ordered(ln, lr, cut, k)
  BY DEF Inv, OrderInv
<1>2. SUFFICES Base' /\ OrderInv'
  BY DEF Inv, Base
<1>3. CASE \E u \in EnqueueUse : EnqueueExchange(u[1], u[2])
  <2>1. PICK u \in EnqueueUse : EnqueueExchange(u[1], u[2])
    BY <1>3
  <2>2. u \in Threads \X Queues
    BY LFQueueAssumption
  <2> DEFINE t == u[1]
             q == u[2]
  <2>3. t \in Threads /\ q \in Queues /\ <<t, q>> = u
    BY <2>2
  <2> HIDE DEF t, q
  <2>4. <<t, q>> \in EnqueueUse /\ EnqueueExchange(t, q)
    BY <2>1, <2>3 DEF t, q
  <2>5. q \in {new, runable} /\ (q = runable => t = proc)
    BY <2>4, UseCases DEF ProcessorUse
  <2>6. /\ Base'
        /\ \E n \in Nodes \ Allocated : Allocates(t, q, n) /\ Allocated' = Allocated \cup {n}
    BY <1>0, <2>3, <2>4, <2>5, ExchangeBase
  <2>7. PICK n \in Nodes \ Allocated : Allocates(t, q, n) /\ Allocated' = Allocated \cup {n}
    BY <2>6
  <2>8. /\ k + 1 \in 0..MaxNodes
        /\ \E ln2, lr2 \in [Nodes -> Nat] : Ordered(ln2, lr2, cut, k + 1)'
    BY <1>0, <1>1, <2>3, <2>5, <2>7, ExchangeOrder
  <2>9. OrderInv'
    BY <1>1, <2>8 DEF OrderInv
  <2> QED  BY <2>6, <2>9
<1>4. CASE \E u \in DequeueUse : DequeueLoad(u[1], u[2])
  <2>1. DequeueLoad(proc, runable) /\ proc \in Threads
    BY <1>4 DEF ProcessorUse
  <2>2. Base' /\ Ordered(ln, lr, cut, k)'
    BY <1>0, <1>1, <2>1, LoadBase, LoadOrder
  <2> QED  BY <1>1, <2>2 DEF OrderInv
<1>5. CASE \E u \in ConcatUse : ConcatTakeHead(u[1], u[2], u[3])
  <2>1. ConcatTakeHead(proc, runable, new) /\ proc \in Threads
    BY <1>5 DEF ProcessorUse
  <2>2. Base' /\ \E lr2 \in [Nodes -> Nat] : Ordered(ln, lr2, cut, k)'
    BY <1>0, <1>1, <2>1, TakeHeadBase, TakeHeadOrder
  <2> QED  BY <1>1, <2>2 DEF OrderInv
<1>6. CASE \E t \in Threads : Continue(t)
  <2>1. PICK t \in Threads : Continue(t)
    BY <1>6
  <2>2. Base' /\ \E c \in Nat \ {0} : Ordered(ln, lr, c, k)'
    BY <1>0, <1>1, <2>1, ContinueStep
  <2> QED  BY <1>1, <2>2 DEF OrderInv
<1>7. CASE UNCHANGED vars
  <2>1. UNCHANGED <<head, tail, next, heap, by, pc, reg, delivered, dangling, overtaken>>
    BY <1>7 DEF vars
  <2>2. TypeOK' /\ PointerInv' /\ StepInv' /\ OwnerInv' /\ Allocated' = Allocated
    BY <1>0, <2>1 DEF Base, TypeOK, PointerInv, StepInv, OwnerInv, Setting, Allocated
  <2>3. Positions(ln, lr, cut, k)' /\ Moved(cut)' = Moved(cut)
    BY <1>1, <2>1, <2>2, SamePositions DEF Ordered
  <2>4. \A x, y \in Allocated : Follows(x, y)' <=> Follows(x, y)
    BY <2>1 DEF Follows
  <2>5. Forward(ln, lr)'
    BY <1>1, <2>1, <2>2, <2>4 DEF Ordered, Forward, After, InNew, InRunable
  <2>6. NewSide(cut)' /\ TakenLast(lr, cut)'
    BY <1>1, <2>1, <2>3 DEF Ordered, NewSide, TakenLast, Setting, InNew
  <2>7. RunableSide(cut)'
    <3>1. \A x \in Moved(cut) : x \in Allocated
      BY DEF Moved
    <3> QED  BY <1>1, <2>1, <2>2, <2>3, <2>4, <3>1 DEF Ordered, RunableSide
  <2>8. DeliveredFirst(ln, lr, cut)' /\ RemovedNext(ln, lr, cut)'
    BY <1>1, <2>1, <2>3 DEF Ordered, DeliveredFirst, RemovedNext, After, InNew, InRunable
  <2>9. Ordered(ln, lr, cut, k)'
    BY <2>3, <2>5, <2>6, <2>7, <2>8 DEF Ordered
  <2> QED  BY <1>1, <2>2, <2>9 DEF Base, OrderInv
<1> QED  BY <1>3, <1>4, <1>5, <1>6, <1>7 DEF Next

LEMMA InvHolds ==
    ASSUME ProcessorUse
    PROVE  Spec => []Inv
<1>1. Init => Inv
  BY InvInit
<1>2. Inv /\ [Next]_vars => Inv'
  BY InvStep
<1> QED  BY <1>1, <1>2, PTL DEF Spec

-----------------------------------------------------------------------------
(* What is kept as long as no enqueue was overtaken.                       *)

Linking(t) == pc[t] \in {"link", "catLink"}
Heading == {"setHead", "catTail", "catSetHead"}
Leaving == {"checkNext", "resetTail", "free"}

\* The nodes in a queue: a dequeue past its compare_exchange has taken one out.
Held == {x \in Nodes : heap[x] = "live" /\ ~(pc[proc] \in Leaving /\ reg[proc].old = x)}

\* x begins a queue, or is about to.
First(x) ==
    \/ \E q \in Queues : head[q] = x
    \/ \E t \in Threads : pc[t] \in Heading /\ reg[t].node = x

\* Nothing follows x yet.
Open(x) == next[x] = Nil /\ \A t \in Threads : Linking(t) => reg[t].old # x

\* Every node in a queue is the first, or follows one.
OriginInv == \A x \in Held : First(x) \/ \E m \in Held : Follows(m, x)

\* A next_ is written once, by one thread, and to a node in a queue.
LinkInv ==
    /\ \A t \in Threads : Linking(t) => reg[t].old \in Held /\ next[reg[t].old] = Nil
    /\ \A t, u \in Threads : Linking(t) /\ Linking(u) /\ reg[t].old = reg[u].old => t = u

\* runable is between two operations, as far as its tail_ is concerned.
TailSettled == pc[proc] \notin Joining \cup {"catStoreTail", "checkNext", "resetTail"}
SettingRunable == pc[proc] = "setHead" /\ reg[proc].q = runable

\* A tail_ leads to a last node.
TailInv ==
    /\ tail[new] # Nil => tail[new] \in Held /\ Open(tail[new])
    /\ TailSettled /\ tail[runable] # Nil => tail[runable] \in Held /\ Open(tail[runable])
    /\ pc[proc] = "catStoreTail" => reg[proc].old \in Held /\ Open(reg[proc].old)

\* runable is empty by its head_ and by its tail_.
EmptyInv ==
    /\ TailSettled /\ ~SettingRunable => (head[runable] = Nil <=> tail[runable] = Nil)
    /\ pc[proc] = "catSetHead" => head[runable] = Nil
    /\ SettingRunable => head[runable] = Nil /\ tail[runable] # Nil
    /\ pc[proc] \in {"catLink", "catTakeTail", "catStoreTail"} => head[runable] # Nil

\* The dequeue took the successor it had read, and empties what it found last.
RemoveInv ==
    /\ pc[proc] = "cas" /\ reg[proc].node # Nil => next[reg[proc].old] = reg[proc].node
    /\ pc[proc] = "checkNext" =>
          IF head[runable] = Nil
          THEN tail[runable] = reg[proc].old /\ Open(reg[proc].old)
          ELSE /\ next[reg[proc].old] # Nil
               /\ tail[runable] \in Held /\ Open(tail[runable])
    /\ pc[proc] \in {"resetTail", "resetEmpty"} => head[runable] = Nil

Kept == OriginInv /\ LinkInv /\ TailInv /\ EmptyInv /\ RemoveInv /\ dangling = {}

KeptInv == ~overtaken => Kept

\* The two queues have no node in common.
LEMMA SidesApart ==
    ASSUME ProcessorUse, Inv, tail[new] # Nil
    PROVE  /\ pc[proc] \notin Joining => tail[new] # tail[runable] /\ tail[new] # head[runable]
           /\ pc[proc] \in Removing => tail[new] # reg[proc].old
           /\ pc[proc] = "catStoreTail" => tail[new] # reg[proc].old
<1>1. PICK ln \in [Nodes -> Nat], lr \in [Nodes -> Nat], cut \in Nat \ {0}, k \in 0..MaxNodes :
        Ordered(ln, lr, cut, k)
  BY DEF Inv, OrderInv
<1>2. InNew(tail[new]) /\ cut <= tail[new] /\ tail[new] \in Nodes
  BY <1>1 DEF Ordered, NewSide, Inv, PointerInv, Allocated, ProcessorUse
<1>3. tail[new] \notin Moved(cut)
  BY <1>1, <1>2 DEF Moved, InNew, InRunable, ProcessorUse, Nodes
<1>4. /\ pc[proc] \notin Joining =>
            /\ head[runable] # Nil => head[runable] \in Moved(cut)
            /\ tail[runable] # Nil => tail[runable] \in Moved(cut)
            /\ pc[proc] = "catStoreTail" /\ reg[proc].old # Nil => reg[proc].old \in Moved(cut)
      /\ pc[proc] \in Removing => reg[proc].old \in Moved(cut)
  BY <1>1 DEF Ordered, RunableSide, RemovedNext
<1> QED  BY <1>3, <1>4 DEF Joining

LEMMA LinkKept ==
    ASSUME ProcessorUse, Inv, Kept, NEW t \in Threads, EnqueueLink(t)
    PROVE  Kept'
<1>0. /\ TypeOK /\ PointerInv /\ StepInv /\ proc \in Threads
      /\ OriginInv /\ LinkInv /\ TailInv /\ EmptyInv /\ RemoveInv /\ dangling = {}
  BY DEF Inv, Kept, ProcessorUse
<1>1. /\ TypeOK' /\ Others(t) /\ pc[t] = "link" /\ pc'[t] = "ready"
      /\ reg[t].old \in Nodes /\ next'[reg[t].old] = reg[t].node
      /\ \A x \in Nodes \ {reg[t].old} : next'[x] = next[x]
      /\ UNCHANGED <<head, tail, heap, by, delivered>>
  BY <1>0, LinkEffect
<1>2. reg[t].old \in Held /\ next[reg[t].old] = Nil /\ reg[t].node # Nil
  BY <1>0, <1>1 DEF LinkInv, Linking, StepInv, Allocated, Nodes, Nil
<1>3. dangling' = {}
  BY <1>0, <1>2 DEF EnqueueLink, WriteNext, Held
<1>4. Held' = Held
  BY <1>0, <1>1 DEF Held, Others, Leaving
<1>5. \A u \in Threads : Linking(u)' => u # t /\ Linking(u) /\ reg'[u] = reg[u]
  BY <1>1 DEF Linking, Others
<1>6. \A m, x \in Nodes : Follows(m, x) => Follows(m, x)'
  <2> SUFFICES ASSUME NEW m \in Nodes, NEW x \in Nodes, Follows(m, x) PROVE Follows(m, x)'
    OBVIOUS
  <2>1. CASE next[m] = x
    BY <1>1, <1>2, <2>1 DEF Follows, Nodes, Nil
  <2>2. CASE next[m] # x
    <3>1. PICK u \in Threads : pc[u] \in {"link", "catLink"} /\ reg[u].old = m /\ reg[u].node = x
      BY <2>2 DEF Follows
    <3>2. CASE u = t
      BY <1>1, <3>1, <3>2 DEF Follows
    <3>3. CASE u # t
      BY <1>1, <3>1, <3>3 DEF Follows, Others
    <3> QED  BY <3>2, <3>3
  <2> QED  BY <2>1, <2>2
<1>7. \A x \in Nodes : First(x) => First(x)'
  BY <1>1 DEF First, Others, Heading
<1>8. \A x \in Nodes : Open(x) => Open(x)'
  BY <1>1, <1>5 DEF Open, Linking
<1>9. OriginInv'
  BY <1>0, <1>4, <1>6, <1>7 DEF OriginInv, Held
<1>10. LinkInv'
  BY <1>0, <1>1, <1>4, <1>5 DEF LinkInv, Linking, Held
<1>11. \/ pc'[proc] = pc[proc] /\ reg'[proc] = reg[proc]
       \/ pc[proc] = "link" /\ pc'[proc] = "ready"
  BY <1>0, <1>1 DEF Others
<1>12. TailInv'
  BY <1>0, <1>1, <1>4, <1>8, <1>11 DEF TailInv, TailSettled, Joining, Held
<1>13. EmptyInv'
  BY <1>0, <1>1, <1>11 DEF EmptyInv, TailSettled, SettingRunable, Joining
<1>14. RemoveInv'
  BY <1>0, <1>1, <1>2, <1>4, <1>8, <1>11 DEF RemoveInv, StepInv, Removing, Allocated, Held
<1> QED  BY <1>3, <1>9, <1>10, <1>12, <1>13, <1>14 DEF Kept

\* A step of the processor's thread that neither begins nor ends a link.
LEMMA SameLinks ==
    ASSUME Others(proc), ~Linking(proc), ~Linking(proc)', UNCHANGED next
    PROVE  /\ \A m, x \in Nodes : Follows(m, x) => Follows(m, x)'
           /\ \A x \in Nodes : Open(x) => Open(x)'
           /\ LinkInv /\ Held' = Held => LinkInv'
<1>1. \A u \in Threads : Linking(u)' <=> Linking(u)
  BY DEF Linking, Others
<1>2. \A u \in Threads : Linking(u) => reg'[u] = reg[u]
  BY DEF Others
<1>3. \A m, x \in Nodes : Follows(m, x) => Follows(m, x)'
  BY <1>1, <1>2 DEF Follows, Linking
<1>4. \A x \in Nodes : Open(x) => Open(x)'
  BY <1>1, <1>2 DEF Open
<1>5. LinkInv /\ Held' = Held => LinkInv'
  BY <1>1, <1>2 DEF LinkInv
<1> QED  BY <1>3, <1>4, <1>5

LEMMA SetHeadKept ==
    ASSUME ProcessorUse, Inv, Kept, NEW t \in Threads, EnqueueSetHead(t)
    PROVE  Kept'
<1>0. /\ TypeOK /\ PointerInv /\ StepInv /\ OwnerInv /\ proc \in Threads
      /\ OriginInv /\ LinkInv /\ TailInv /\ EmptyInv /\ RemoveInv /\ dangling = {}
  BY DEF Inv, Kept, ProcessorUse
<1>1. /\ TypeOK' /\ Others(t) /\ pc[t] = "setHead" /\ pc'[t] = "ready"
      /\ reg[t].q \in Queues /\ head'[reg[t].q] = reg[t].node
      /\ \A q \in Queues \ {reg[t].q} : head'[q] = head[q]
      /\ UNCHANGED <<tail, next, heap, by, delivered>>
  BY <1>0, SetHeadEffect
<1>2. dangling' = {}
  BY <1>0 DEF EnqueueSetHead
<1>3. /\ reg[t].node \in Nodes /\ reg[t].node # Nil
      /\ \/ reg[t].q = new
         \/ reg[t].q = runable /\ t = proc
  BY <1>0, <1>1 DEF StepInv, PointerInv, Allocated, ProcessorUse, Nodes, Nil
<1>4. head[reg[t].q] = Nil
  BY <1>0, <1>1, <1>3 DEF OwnerInv, Setting, EmptyInv, SettingRunable
<1>5. Held' = Held
  BY <1>0, <1>1 DEF Held, Others, Leaving
<1>6. \A u \in Threads : Linking(u)' <=> Linking(u)
  BY <1>1 DEF Linking, Others
<1>7. \A u \in Threads : Linking(u) => reg'[u] = reg[u]
  BY <1>1 DEF Linking, Others
<1>8. \A x \in Nodes : First(x) => First(x)'
  <2> SUFFICES ASSUME NEW x \in Nodes, First(x) PROVE First(x)'
    OBVIOUS
  <2>1. CASE \E q \in Queues : head[q] = x
    <3>1. PICK q \in Queues : head[q] = x
      BY <2>1
    <3>2. q # reg[t].q
      BY <1>4, <3>1 DEF Nodes, Nil
    <3> QED  BY <1>1, <3>1, <3>2 DEF First
  <2>2. CASE \E u \in Threads : pc[u] \in Heading /\ reg[u].node = x
    <3>1. PICK u \in Threads : pc[u] \in Heading /\ reg[u].node = x
      BY <2>2
    <3>2. CASE u = t
      BY <1>1, <3>1, <3>2 DEF First
    <3>3. CASE u # t
      BY <1>1, <3>1, <3>3 DEF First, Others
    <3> QED  BY <3>2, <3>3
  <2> QED  BY <2>1, <2>2 DEF First
<1>9. OriginInv'
  <2>1. \A m, x \in Nodes : Follows(m, x) => Follows(m, x)'
    BY <1>1, <1>6, <1>7 DEF Follows, Linking
  <2> QED  BY <1>0, <1>5, <1>8, <2>1 DEF OriginInv, Held
<1>10. LinkInv'
  BY <1>0, <1>1, <1>5, <1>6, <1>7 DEF LinkInv
<1>11. \/ pc'[proc] = pc[proc] /\ reg'[proc] = reg[proc] /\ head'[runable] = head[runable]
       \/ pc[proc] = "setHead" /\ pc'[proc] = "ready" /\ t = proc
  BY <1>0, <1>1, <1>3 DEF Others, ProcessorUse
<1>12. \A x \in Nodes : Open(x) => Open(x)'
  BY <1>1, <1>6, <1>7 DEF Open
<1>13. TailInv'
  BY <1>0, <1>1, <1>5, <1>11, <1>12 DEF TailInv, TailSettled, Joining, Held
<1>14. EmptyInv'
  BY <1>0, <1>1, <1>3, <1>11
     DEF EmptyInv, TailSettled, SettingRunable, Joining, ProcessorUse
<1>15. RemoveInv'
  BY <1>0, <1>1, <1>5, <1>11, <1>12 DEF RemoveInv, StepInv, Removing, Allocated, Held
<1> QED  BY <1>2, <1>9, <1>10, <1>13, <1>14, <1>15 DEF Kept

LEMMA LoadKept ==
    ASSUME ProcessorUse, Inv, Kept, DequeueLoad(proc, runable)
    PROVE  Kept'
<1>0. /\ TypeOK /\ PointerInv /\ StepInv /\ OwnerInv /\ proc \in Threads /\ runable \in Queues
      /\ OriginInv /\ LinkInv /\ TailInv /\ EmptyInv /\ RemoveInv /\ dangling = {}
  BY DEF Inv, Kept, ProcessorUse
<1>1. /\ TypeOK' /\ Others(proc) /\ pc[proc] = "ready"
      /\ pc'[proc] = (IF head[runable] = Nil THEN "resetEmpty" ELSE "readNext")
      /\ reg'[proc].q = runable /\ reg'[proc].old = head[runable]
      /\ UNCHANGED <<head, tail, next, heap, by, delivered>>
  BY <1>0, LoadEffect
<1>2. dangling' = {}
  BY <1>0 DEF DequeueLoad
<1>3. Held' = Held
  BY <1>0, <1>1 DEF Held, Leaving
<1>4. /\ \A m, x \in Nodes : Follows(m, x) => Follows(m, x)'
      /\ \A x \in Nodes : Open(x) => Open(x)'
      /\ LinkInv'
  BY <1>0, <1>1, <1>3, SameLinks DEF Linking
<1>5. \A x \in Nodes : First(x) => First(x)'
  BY <1>1 DEF First, Others, Heading
<1>6. OriginInv'
  BY <1>0, <1>3, <1>4, <1>5 DEF OriginInv, Held
<1>7. TailInv'
  BY <1>0, <1>1, <1>3, <1>4 DEF TailInv, TailSettled, Joining, Held
<1>8. EmptyInv' /\ RemoveInv'
  BY <1>0, <1>1 DEF EmptyInv, RemoveInv, TailSettled, SettingRunable, Joining
<1> QED  BY <1>2, <1>4, <1>6, <1>7, <1>8 DEF Kept

LEMMA ReadNextKept ==
    ASSUME ProcessorUse, Inv, Kept, DequeueReadNext(proc)
    PROVE  Kept'
<1>0. /\ TypeOK /\ PointerInv /\ StepInv /\ OwnerInv /\ proc \in Threads /\ runable \in Queues
      /\ OriginInv /\ LinkInv /\ TailInv /\ EmptyInv /\ RemoveInv /\ dangling = {}
  BY DEF Inv, Kept, ProcessorUse
<1>1. /\ TypeOK' /\ Others(proc) /\ pc[proc] = "readNext" /\ pc'[proc] = "cas"
      /\ reg'[proc].q = reg[proc].q /\ reg'[proc].old = reg[proc].old
      /\ reg'[proc].node = next[reg[proc].old]
      /\ UNCHANGED <<head, tail, next, heap, by, delivered>>
  BY <1>0, ReadNextEffect
<1>2. dangling' = {}
  BY <1>0 DEF DequeueReadNext
<1>3. Held' = Held
  BY <1>0, <1>1 DEF Held, Leaving
<1>4. /\ \A m, x \in Nodes : Follows(m, x) => Follows(m, x)'
      /\ \A x \in Nodes : Open(x) => Open(x)'
      /\ LinkInv'
  BY <1>0, <1>1, <1>3, SameLinks DEF Linking
<1>5. \A x \in Nodes : First(x) => First(x)'
  BY <1>1 DEF First, Others, Heading
<1>6. OriginInv'
  BY <1>0, <1>3, <1>4, <1>5 DEF OriginInv, Held
<1>7. TailInv'
  BY <1>0, <1>1, <1>3, <1>4 DEF TailInv, TailSettled, Joining, Held
<1>8. EmptyInv' /\ RemoveInv'
  BY <1>0, <1>1 DEF EmptyInv, RemoveInv, TailSettled, SettingRunable, Joining
<1> QED  BY <1>2, <1>4, <1>6, <1>7, <1>8 DEF Kept

\* Taking the last node of runable is safe when its tail_ agrees, and taking
\* another one makes its successor the first.
LEMMA CasKept ==
    ASSUME ProcessorUse, Inv, Kept, DequeueCas(proc), ~overtaken'
    PROVE  Kept'
<1>0. /\ TypeOK /\ PointerInv /\ StepInv /\ OwnerInv /\ proc \in Threads /\ runable \in Queues
      /\ OriginInv /\ LinkInv /\ TailInv /\ EmptyInv /\ RemoveInv /\ dangling = {}
  BY DEF Inv, Kept, ProcessorUse
<1> DEFINE old == reg[proc].old
           node == reg[proc].node
<1>1. pc[proc] = "cas" /\ head[runable] = old /\ old \in Nodes /\ node \in Ref
  BY <1>0 DEF DequeueCas, At, Inv, OrderInv, Ordered, RemovedNext, StepInv, Removing, Allocated,
              TypeOK, Regs
<1>2. /\ TypeOK' /\ Others(proc) /\ pc'[proc] = "checkNext"
      /\ reg'[proc].q = reg[proc].q /\ reg'[proc].old = old
      /\ head'[runable] = node
      /\ \A q \in Queues \ {runable} : head'[q] = head[q]
      /\ UNCHANGED <<tail, next, heap, by, delivered>>
  BY <1>0, <1>1, CasEffect
<1>3. dangling' = {}
  BY <1>0 DEF DequeueCas
<1>4. node = Nil => tail[runable] = old
  BY <1>0, <1>1 DEF DequeueCas, StepInv, Removing
<1>5. node # Nil => next[old] = node /\ node \in Nodes
  BY <1>0, <1>1 DEF RemoveInv, Ref, Nil
<1>6. Held' = Held \ {old}
  BY <1>0, <1>1, <1>2 DEF Held, Leaving
<1>7. node = Nil => Open(old)
  BY <1>0, <1>1, <1>4 DEF TailInv, TailSettled, Joining, Nodes, Nil
<1>8. \A u \in Threads : Linking(u) => reg[u].old # old
  BY <1>0, <1>5, <1>7 DEF LinkInv, Open
<1>9. /\ \A m, x \in Nodes : Follows(m, x) => Follows(m, x)'
      /\ \A x \in Nodes : Open(x) => Open(x)'
  BY <1>0, <1>1, <1>2, SameLinks DEF Linking
<1>10. LinkInv'
  <2>1. \A u \in Threads : Linking(u)' => Linking(u) /\ reg'[u] = reg[u]
    BY <1>1, <1>2 DEF Linking, Others
  <2> QED  BY <1>0, <1>2, <1>6, <1>8, <2>1 DEF LinkInv
<1>11. \A x \in Nodes \ {old} : First(x) => First(x)'
  BY <1>0, <1>1, <1>2 DEF First, Others, Heading
<1>12. \A x \in Nodes : Follows(old, x) => First(x)'
  <2> SUFFICES ASSUME NEW x \in Nodes, Follows(old, x) PROVE First(x)'
    OBVIOUS
  <2>1. next[old] = x
    BY <1>8 DEF Follows, Linking
  <2>2. node = x
    BY <1>5, <1>7, <2>1 DEF Open, Nodes, Nil
  <2> QED  BY <1>0, <1>2, <2>2 DEF First
<1>13. OriginInv'
  <2> SUFFICES ASSUME NEW x \in Held \ {old} PROVE First(x)' \/ \E m \in Held \ {old} : Follows(m, x)'
    BY <1>6 DEF OriginInv
  <2>1. x \in Nodes /\ Held \subseteq Nodes
    BY DEF Held
  <2>2. First(x) \/ \E m \in Held : Follows(m, x)
    BY <1>0 DEF OriginInv
  <2>3. CASE First(x)
    BY <1>11, <2>1, <2>3
  <2>4. CASE \E m \in Held : Follows(m, x)
    <3>1. PICK m \in Held : Follows(m, x)
      BY <2>4
    <3> QED  BY <1>9, <1>12, <2>1, <3>1
  <2> QED  BY <2>2, <2>3, <2>4
<1>14. tail[new] # Nil => tail[new] # old
  BY <1>1, SidesApart DEF Removing
<1>15. TailInv'
  BY <1>0, <1>2, <1>6, <1>9, <1>14 DEF TailInv, TailSettled, Held
<1>16. EmptyInv'
  BY <1>0, <1>2 DEF EmptyInv, TailSettled, SettingRunable, Joining
<1>17. RemoveInv'
  <2>1. CASE node = Nil
    BY <1>1, <1>2, <1>4, <1>7, <1>9, <2>1 DEF RemoveInv
  <2>2. CASE node # Nil
    <3>1. tail[runable] # Nil /\ tail[runable] \in Held /\ Open(tail[runable])
      BY <1>0, <1>1 DEF EmptyInv, TailInv, TailSettled, SettingRunable, Joining, Nodes, Nil
    <3>2. tail[runable] # old
      BY <1>5, <2>2, <3>1 DEF Open
    <3> QED  BY <1>2, <1>5, <1>6, <1>9, <2>2, <3>1, <3>2 DEF RemoveInv, Held
  <2> QED  BY <2>1, <2>2
<1> QED  BY <1>3, <1>10, <1>13, <1>15, <1>16, <1>17 DEF Kept

LEMMA CheckNextKept ==
    ASSUME ProcessorUse, Inv, Kept, DequeueCheckNext(proc)
    PROVE  Kept'
<1>0. /\ TypeOK /\ PointerInv /\ StepInv /\ OwnerInv /\ proc \in Threads /\ runable \in Queues
      /\ OriginInv /\ LinkInv /\ TailInv /\ EmptyInv /\ RemoveInv /\ dangling = {}
  BY DEF Inv, Kept, ProcessorUse
<1>1. /\ TypeOK' /\ Others(proc) /\ pc[proc] = "checkNext" /\ pc'[proc] \in {"resetTail", "free"}
      /\ UNCHANGED <<head, tail, next, heap, by, reg, delivered>>
  BY <1>0, CheckNextEffect
<1>2. /\ dangling' = {}
      /\ pc'[proc] = (IF next[reg[proc].old] = Nil THEN "resetTail" ELSE "free")
  BY <1>0 DEF DequeueCheckNext, Goto, TypeOK
<1>3. Held' = Held
  BY <1>0, <1>1 DEF Held, Leaving
<1>4. /\ \A m, x \in Nodes : Follows(m, x) => Follows(m, x)'
      /\ \A x \in Nodes : Open(x) => Open(x)'
      /\ LinkInv'
  BY <1>0, <1>1, <1>3, SameLinks DEF Linking
<1>5. \A x \in Nodes : First(x) => First(x)'
  BY <1>1 DEF First, Others, Heading
<1>6. OriginInv'
  BY <1>0, <1>3, <1>4, <1>5 DEF OriginInv, Held
<1>7. \/ pc'[proc] = "resetTail" /\ head[runable] = Nil
      \/ /\ pc'[proc] = "free" /\ head[runable] # Nil
         /\ tail[runable] \in Held /\ Open(tail[runable])
  BY <1>0, <1>1, <1>2 DEF RemoveInv, Open
<1>8. TailInv'
  BY <1>0, <1>1, <1>3, <1>4, <1>7 DEF TailInv, TailSettled, Joining, Held
<1>9. EmptyInv' /\ RemoveInv'
  <2>1. \A x \in Held : x # Nil
    BY DEF Held, Nodes, Nil
  <2> QED  BY <1>0, <1>1, <1>7, <2>1
           DEF EmptyInv, RemoveInv, TailSettled, SettingRunable, Joining
<1> QED  BY <1>2, <1>4, <1>6, <1>8, <1>9 DEF Kept

LEMMA ResetKept ==
    ASSUME ProcessorUse, Inv, Kept, DequeueResetTail(proc) \/ DequeueEmpty(proc)
    PROVE  Kept'
<1>0. /\ TypeOK /\ PointerInv /\ StepInv /\ OwnerInv /\ proc \in Threads
      /\ runable \in Queues /\ new \in Queues /\ new # runable
      /\ OriginInv /\ LinkInv /\ TailInv /\ EmptyInv /\ RemoveInv /\ dangling = {}
  BY DEF Inv, Kept, ProcessorUse
<1>1. /\ TypeOK' /\ Others(proc)
      /\ \/ pc[proc] = "resetTail" /\ pc'[proc] = "free" /\ UNCHANGED reg
         \/ pc[proc] = "resetEmpty" /\ pc'[proc] = "ready"
      /\ tail'[runable] = Nil
      /\ \A q \in Queues \ {runable} : tail'[q] = tail[q]
      /\ UNCHANGED <<head, next, heap, by, delivered>>
  BY <1>0, ResetEffect
<1>2. dangling' = {}
  BY <1>0 DEF DequeueResetTail, DequeueEmpty, ResetTail
<1>3. Held' = Held
  BY <1>0, <1>1 DEF Held, Leaving
<1>4. /\ \A m, x \in Nodes : Follows(m, x) => Follows(m, x)'
      /\ \A x \in Nodes : Open(x) => Open(x)'
      /\ LinkInv'
  BY <1>0, <1>1, <1>3, SameLinks DEF Linking
<1>5. \A x \in Nodes : First(x) => First(x)'
  BY <1>1 DEF First, Others, Heading
<1>6. OriginInv'
  BY <1>0, <1>3, <1>4, <1>5 DEF OriginInv, Held
<1>7. TailInv'
  BY <1>0, <1>1, <1>3, <1>4 DEF TailInv, TailSettled, Joining, Held
<1>8. EmptyInv' /\ RemoveInv'
  BY <1>0, <1>1 DEF EmptyInv, RemoveInv, TailSettled, SettingRunable, Joining
<1> QED  BY <1>2, <1>4, <1>6, <1>7, <1>8 DEF Kept

LEMMA FreeKept ==
    ASSUME ProcessorUse, Inv, Kept, DequeueFree(proc)
    PROVE  Kept'
<1>0. /\ TypeOK /\ PointerInv /\ StepInv /\ OwnerInv /\ proc \in Threads /\ runable \in Queues
      /\ OriginInv /\ LinkInv /\ TailInv /\ EmptyInv /\ RemoveInv /\ dangling = {}
  BY DEF Inv, Kept, ProcessorUse
<1>1. /\ TypeOK' /\ Others(proc) /\ pc[proc] = "free" /\ pc'[proc] = "ready"
      /\ reg[proc].old \in Nodes
      /\ heap'[reg[proc].old] = "freed"
      /\ \A x \in Nodes \ {reg[proc].old} : heap'[x] = heap[x]
      /\ UNCHANGED <<head, tail, next, by>>
  BY <1>0, FreeEffect
<1>2. dangling' = {}
  BY <1>0 DEF DequeueFree
<1>3. Held' = Held
  BY <1>0, <1>1 DEF Held, Leaving
<1>4. /\ \A m, x \in Nodes : Follows(m, x) => Follows(m, x)'
      /\ \A x \in Nodes : Open(x) => Open(x)'
      /\ LinkInv'
  BY <1>0, <1>1, <1>3, SameLinks DEF Linking
<1>5. \A x \in Nodes : First(x) => First(x)'
  BY <1>1 DEF First, Others, Heading
<1>6. OriginInv'
  BY <1>0, <1>3, <1>4, <1>5 DEF OriginInv, Held
<1>7. TailInv'
  BY <1>0, <1>1, <1>3, <1>4 DEF TailInv, TailSettled, Joining, Held
<1>8. EmptyInv' /\ RemoveInv'
  BY <1>0, <1>1 DEF EmptyInv, RemoveInv, TailSettled, SettingRunable, Joining
<1> QED  BY <1>2, <1>4, <1>6, <1>7, <1>8 DEF Kept

LEMMA TakeHeadKept ==
    ASSUME ProcessorUse, Inv, Kept, ConcatTakeHead(proc, runable, new)
    PROVE  Kept'
<1>0. /\ TypeOK /\ PointerInv /\ StepInv /\ OwnerInv /\ proc \in Threads
      /\ runable \in Queues /\ new \in Queues /\ new # runable
      /\ OriginInv /\ LinkInv /\ TailInv /\ EmptyInv /\ RemoveInv /\ dangling = {}
  BY DEF Inv, Kept, ProcessorUse
<1>1. /\ TypeOK' /\ Others(proc) /\ pc[proc] = "ready"
      /\ \/ head[new] = Nil /\ UNCHANGED <<pc, reg, head>>
         \/ /\ head[new] # Nil /\ pc'[proc] = "catTail"
            /\ reg'[proc].q = runable /\ reg'[proc].src = new /\ reg'[proc].node = head[new]
      /\ head'[new] = Nil /\ \A q \in Queues \ {new} : head'[q] = head[q]
      /\ UNCHANGED <<tail, next, heap, by, delivered>>
  BY <1>0, TakeHeadEffect
<1>2. dangling' = {}
  BY <1>0 DEF ConcatTakeHead
<1>3. Held' = Held
  BY <1>0, <1>1 DEF Held, Leaving
<1>4. /\ \A m, x \in Nodes : Follows(m, x) => Follows(m, x)'
      /\ \A x \in Nodes : Open(x) => Open(x)'
      /\ LinkInv'
  BY <1>0, <1>1, <1>3, SameLinks DEF Linking
<1>5. \A x \in Nodes : First(x) => First(x)'
  <2> SUFFICES ASSUME NEW x \in Nodes, First(x) PROVE First(x)'
    OBVIOUS
  <2>1. CASE \E u \in Threads : pc[u] \in Heading /\ reg[u].node = x
    BY <1>1, <2>1 DEF First, Others, Heading
  <2>2. CASE \E q \in Queues \ {new} : head[q] = x
    BY <1>1, <2>2 DEF First
  <2>3. CASE head[new] = x
    <3>1. x # Nil
      BY DEF Nodes, Nil
    <3> QED  BY <1>0, <1>1, <2>3, <3>1 DEF First, Heading
  <2> QED  BY <2>1, <2>2, <2>3 DEF First
<1>6. OriginInv'
  BY <1>0, <1>3, <1>4, <1>5 DEF OriginInv, Held
<1>7. TailInv'
  BY <1>0, <1>1, <1>3, <1>4 DEF TailInv, TailSettled, Joining, Held
<1>8. EmptyInv' /\ RemoveInv'
  BY <1>0, <1>1 DEF EmptyInv, RemoveInv, TailSettled, SettingRunable, Joining
<1> QED  BY <1>2, <1>4, <1>6, <1>7, <1>8 DEF Kept

LEMMA CatTailKept ==
    ASSUME ProcessorUse, Inv, Kept, ConcatTail(proc)
    PROVE  Kept'
<1>0. /\ TypeOK /\ PointerInv /\ StepInv /\ OwnerInv /\ proc \in Threads
      /\ runable \in Queues /\ new \in Queues /\ new # runable
      /\ OriginInv /\ LinkInv /\ TailInv /\ EmptyInv /\ RemoveInv /\ dangling = {}
  BY DEF Inv, Kept, ProcessorUse
<1> DEFINE node == reg[proc].node
<1>a. PICK last : last = tail[runable]
  OBVIOUS
<1>1. /\ TypeOK' /\ Others(proc) /\ pc[proc] = "catTail"
      /\ pc'[proc] = (IF last # Nil THEN "catLink" ELSE "catSetHead")
      /\ reg'[proc].node = node /\ reg'[proc].old = last
      /\ tail'[runable] = node
      /\ \A q \in Queues \ {runable} : tail'[q] = tail[q]
      /\ UNCHANGED <<head, next, heap, by, delivered>>
  BY <1>0, <1>a, CatTailEffect
<1>2. dangling' = {}
  BY <1>0 DEF ConcatTail
<1>3. Held' = Held
  BY <1>0, <1>1 DEF Held, Leaving
<1>4. last # Nil => last \in Held /\ Open(last)
  BY <1>0, <1>a, <1>1 DEF TailInv, TailSettled, Joining
<1>5. \A m, x \in Nodes : Follows(m, x) => Follows(m, x)'
  BY <1>1 DEF Follows, Others
<1>6. \A x \in Nodes \ {last} : Open(x) => Open(x)'
  BY <1>0, <1>1 DEF Open, Others, Linking
<1>7. LinkInv'
  <2>1. \A u \in Threads \ {proc} : Linking(u)' => Linking(u) /\ reg'[u] = reg[u]
    BY <1>1 DEF Linking, Others
  <2>2. Linking(proc)' => last # Nil /\ reg'[proc].old = last
    BY <1>1 DEF Linking
  <2> QED  BY <1>0, <1>1, <1>3, <1>4, <2>1, <2>2 DEF LinkInv, Open
<1>8. ASSUME NEW x \in Nodes, First(x)
      PROVE  First(x)' \/ (last \in Held /\ Follows(last, x)')
  <2>1. CASE \E q \in Queues : head[q] = x
    BY <1>1, <2>1 DEF First
  <2>2. CASE \E u \in Threads \ {proc} : pc[u] \in Heading /\ reg[u].node = x
    BY <1>1, <2>2 DEF First, Others
  <2>3. CASE node = x /\ last = Nil
    BY <1>0, <1>1, <2>3 DEF First, Heading
  <2>4. CASE node = x /\ last # Nil
    BY <1>0, <1>1, <1>4, <2>4 DEF Follows
  <2> QED  BY <1>8, <2>1, <2>2, <2>3, <2>4 DEF First
<1>9. OriginInv'
  <2> SUFFICES ASSUME NEW x \in Held PROVE First(x)' \/ \E m \in Held : Follows(m, x)'
    BY <1>3 DEF OriginInv
  <2>1. x \in Nodes /\ Held \subseteq Nodes
    BY DEF Held
  <2>2. CASE First(x)
    BY <1>8, <2>1, <2>2
  <2>3. CASE \E m \in Held : Follows(m, x)
    BY <1>5, <2>1, <2>3
  <2> QED  BY <1>0, <2>2, <2>3 DEF OriginInv
<1>10. tail[new] # Nil /\ tail[new] # last
  BY <1>0, <1>a, <1>1, SidesApart DEF OwnerInv, Taking, Joining
<1>11. TailInv'
  BY <1>0, <1>1, <1>3, <1>6, <1>10 DEF TailInv, TailSettled, Joining, Held
<1>12. EmptyInv' /\ RemoveInv'
  BY <1>0, <1>a, <1>1 DEF EmptyInv, RemoveInv, TailSettled, SettingRunable, Joining
<1> QED  BY <1>2, <1>7, <1>9, <1>11, <1>12 DEF Kept

LEMMA CatLinkKept ==
    ASSUME ProcessorUse, Inv, Kept, ConcatLink(proc)
    PROVE  Kept'
<1>0. /\ TypeOK /\ PointerInv /\ StepInv /\ OwnerInv /\ proc \in Threads
      /\ runable \in Queues /\ new \in Queues /\ new # runable
      /\ OriginInv /\ LinkInv /\ TailInv /\ EmptyInv /\ RemoveInv /\ dangling = {}
  BY DEF Inv, Kept, ProcessorUse
<1> DEFINE last == reg[proc].old
<1>1. /\ TypeOK' /\ Others(proc) /\ pc[proc] = "catLink" /\ pc'[proc] = "catTakeTail"
      /\ last \in Nodes /\ next'[last] = reg[proc].node
      /\ \A x \in Nodes \ {last} : next'[x] = next[x]
      /\ UNCHANGED <<head, tail, heap, by, reg, delivered>>
  BY <1>0, CatLinkEffect
<1>2. last \in Held /\ next[last] = Nil
  BY <1>0, <1>1 DEF LinkInv, Linking
<1>3. dangling' = {}
  BY <1>0, <1>2 DEF ConcatLink, WriteNext, Held
<1>4. Held' = Held
  BY <1>0, <1>1 DEF Held, Leaving
<1>5. \A u \in Threads : Linking(u)' => u # proc /\ Linking(u)
  BY <1>1 DEF Linking, Others
<1>6. \A m, x \in Nodes : Follows(m, x) => Follows(m, x)'
  <2> SUFFICES ASSUME NEW m \in Nodes, NEW x \in Nodes, Follows(m, x) PROVE Follows(m, x)'
    OBVIOUS
  <2>1. CASE next[m] = x
    BY <1>1, <1>2, <2>1 DEF Follows, Nodes, Nil
  <2>2. CASE next[m] # x
    <3>1. PICK u \in Threads : pc[u] \in {"link", "catLink"} /\ reg[u].old = m /\ reg[u].node = x
      BY <2>2 DEF Follows
    <3>2. CASE u = proc
      BY <1>1, <3>1, <3>2 DEF Follows
    <3>3. CASE u # proc
      BY <1>1, <3>1, <3>3 DEF Follows, Others
    <3> QED  BY <3>2, <3>3
  <2> QED  BY <2>1, <2>2
<1>7. \A x \in Nodes : First(x) => First(x)'
  BY <1>1 DEF First, Others, Heading
<1>8. \A x \in Nodes : Open(x) => Open(x)' /\ x # last
  BY <1>0, <1>1, <1>5 DEF Open, Linking
<1>9. OriginInv'
  BY <1>0, <1>4, <1>6, <1>7 DEF OriginInv, Held
<1>10. LinkInv'
  BY <1>0, <1>1, <1>4, <1>5 DEF LinkInv, Linking, Held
<1>11. TailInv'
  BY <1>0, <1>1, <1>4, <1>8 DEF TailInv, TailSettled, Joining, Held
<1>12. EmptyInv' /\ RemoveInv'
  BY <1>0, <1>1 DEF EmptyInv, RemoveInv, TailSettled, SettingRunable, Joining
<1> QED  BY <1>3, <1>9, <1>10, <1>11, <1>12 DEF Kept

LEMMA CatSetHeadKept ==
    ASSUME ProcessorUse, Inv, Kept, ConcatSetHead(proc)
    PROVE  Kept'
<1>0. /\ TypeOK /\ PointerInv /\ StepInv /\ OwnerInv /\ proc \in Threads
      /\ runable \in Queues /\ new \in Queues /\ new # runable
      /\ OriginInv /\ LinkInv /\ TailInv /\ EmptyInv /\ RemoveInv /\ dangling = {}
  BY DEF Inv, Kept, ProcessorUse
<1>1. /\ TypeOK' /\ Others(proc) /\ pc[proc] = "catSetHead" /\ pc'[proc] = "catTakeTail"
      /\ head'[runable] = reg[proc].node
      /\ \A q \in Queues \ {runable} : head'[q] = head[q]
      /\ UNCHANGED <<tail, next, heap, by, reg, delivered>>
  BY <1>0, CatSetHeadEffect
<1>2. dangling' = {}
  BY <1>0 DEF ConcatSetHead
<1>3. Held' = Held
  BY <1>0, <1>1 DEF Held, Leaving
<1>4. /\ \A m, x \in Nodes : Follows(m, x) => Follows(m, x)'
      /\ \A x \in Nodes : Open(x) => Open(x)'
      /\ LinkInv'
  BY <1>0, <1>1, <1>3, SameLinks DEF Linking
<1>5. head[runable] = Nil /\ reg[proc].node # Nil
  BY <1>0, <1>1 DEF EmptyInv, StepInv, Taking, Allocated, Nodes, Nil
<1>6. \A x \in Nodes : First(x) => First(x)'
  <2> SUFFICES ASSUME NEW x \in Nodes, First(x) PROVE First(x)'
    OBVIOUS
  <2>1. x # Nil
    BY DEF Nodes, Nil
  <2>2. CASE \E q \in Queues : head[q] = x
    BY <1>1, <1>5, <2>1, <2>2 DEF First
  <2>3. CASE \E u \in Threads \ {proc} : pc[u] \in Heading /\ reg[u].node = x
    BY <1>1, <2>3 DEF First, Others
  <2>4. CASE reg[proc].node = x
    BY <1>0, <1>1, <2>4 DEF First
  <2> QED  BY <2>2, <2>3, <2>4 DEF First
<1>7. OriginInv'
  BY <1>0, <1>3, <1>4, <1>6 DEF OriginInv, Held
<1>8. TailInv'
  BY <1>0, <1>1, <1>3, <1>4 DEF TailInv, TailSettled, Joining, Held
<1>9. EmptyInv' /\ RemoveInv'
  BY <1>0, <1>1, <1>5 DEF EmptyInv, RemoveInv, TailSettled, SettingRunable, Joining
<1> QED  BY <1>2, <1>4, <1>7, <1>8, <1>9 DEF Kept

LEMMA TakeTailKept ==
    ASSUME ProcessorUse, Inv, Kept, ConcatTakeTail(proc)
    PROVE  Kept'
<1>0. /\ TypeOK /\ PointerInv /\ StepInv /\ OwnerInv /\ proc \in Threads
      /\ runable \in Queues /\ new \in Queues /\ new # runable
      /\ OriginInv /\ LinkInv /\ TailInv /\ EmptyInv /\ RemoveInv /\ dangling = {}
  BY DEF Inv, Kept, ProcessorUse
<1>1. /\ TypeOK' /\ Others(proc) /\ pc[proc] = "catTakeTail" /\ pc'[proc] = "catStoreTail"
      /\ reg'[proc].node = reg[proc].node /\ reg'[proc].old = tail[new]
      /\ tail'[new] = Nil /\ \A q \in Queues \ {new} : tail'[q] = tail[q]
      /\ UNCHANGED <<head, next, heap, by, delivered>>
  BY <1>0, TakeTailEffect
<1>2. dangling' = {}
  BY <1>0 DEF ConcatTakeTail
<1>3. Held' = Held
  BY <1>0, <1>1 DEF Held, Leaving
<1>4. /\ \A m, x \in Nodes : Follows(m, x) => Follows(m, x)'
      /\ \A x \in Nodes : Open(x) => Open(x)'
      /\ LinkInv'
  BY <1>0, <1>1, <1>3, SameLinks DEF Linking
<1>5. \A x \in Nodes : First(x) => First(x)'
  BY <1>1 DEF First, Others, Heading
<1>6. OriginInv'
  BY <1>0, <1>3, <1>4, <1>5 DEF OriginInv, Held
<1>7. tail[new] # Nil
  BY <1>0, <1>1 DEF OwnerInv, Taking
<1>8. TailInv'
  BY <1>0, <1>1, <1>3, <1>4, <1>7 DEF TailInv, TailSettled, Joining, Held
<1>9. EmptyInv' /\ RemoveInv'
  BY <1>0, <1>1 DEF EmptyInv, RemoveInv, TailSettled, SettingRunable, Joining
<1> QED  BY <1>2, <1>4, <1>6, <1>8, <1>9 DEF Kept

LEMMA StoreTailKept ==
    ASSUME ProcessorUse, Inv, Kept, ConcatStoreTail(proc)
    PROVE  Kept'
<1>0. /\ TypeOK /\ PointerInv /\ StepInv /\ OwnerInv /\ proc \in Threads
      /\ runable \in Queues /\ new \in Queues /\ new # runable
      /\ OriginInv /\ LinkInv /\ TailInv /\ EmptyInv /\ RemoveInv /\ dangling = {}
  BY DEF Inv, Kept, ProcessorUse
<1>1. /\ TypeOK' /\ Others(proc) /\ pc[proc] = "catStoreTail" /\ pc'[proc] = "ready"
      /\ tail'[runable] = reg[proc].old
      /\ \A q \in Queues \ {runable} : tail'[q] = tail[q]
      /\ UNCHANGED <<head, next, heap, by, delivered>>
  BY <1>0, StoreTailEffect
<1>2. dangling' = {}
  BY <1>0 DEF ConcatStoreTail
<1>3. Held' = Held
  BY <1>0, <1>1 DEF Held, Leaving
<1>4. /\ \A m, x \in Nodes : Follows(m, x) => Follows(m, x)'
      /\ \A x \in Nodes : Open(x) => Open(x)'
      /\ LinkInv'
  BY <1>0, <1>1, <1>3, SameLinks DEF Linking
<1>5. \A x \in Nodes : First(x) => First(x)'
  BY <1>1 DEF First, Others, Heading
<1>6. OriginInv'
  BY <1>0, <1>3, <1>4, <1>5 DEF OriginInv, Held
<1>7. TailInv'
  BY <1>0, <1>1, <1>3, <1>4 DEF TailInv, TailSettled, Joining, Held
<1>8. EmptyInv' /\ RemoveInv'
  <2>1. reg[proc].old \in Held /\ \A x \in Held : x # Nil
    BY <1>0, <1>1 DEF TailInv, Held, Nodes, Nil
  <2> QED  BY <1>0, <1>1, <2>1 DEF EmptyInv, RemoveInv, TailSettled, SettingRunable, Joining
<1> QED  BY <1>2, <1>4, <1>6, <1>7, <1>8 DEF Kept

LEMMA ExchangeKept ==
    ASSUME ProcessorUse, Inv, Kept, NEW t \in Threads, NEW q \in Queues, <<t, q>> \in EnqueueUse,
           EnqueueExchange(t, q)
    PROVE  Kept'
<1>0. /\ TypeOK /\ PointerInv /\ StepInv /\ OwnerInv /\ proc \in Threads
      /\ runable \in Queues /\ new \in Queues /\ new # runable
      /\ OriginInv /\ LinkInv /\ TailInv /\ EmptyInv /\ RemoveInv /\ dangling = {}
  BY DEF Inv, Kept, ProcessorUse
<1>a. PICK last : last = tail[q]
  OBVIOUS
<1>b. q = new \/ (q = runable /\ t = proc)
  BY UseCases
<1>1. PICK n \in Nodes :
        /\ TypeOK' /\ Others(t) /\ pc[t] = "ready" /\ heap[n] = "none"
        /\ heap'[n] = "live" /\ \A x \in Nodes \ {n} : heap'[x] = heap[x]
        /\ tail'[q] = n /\ \A p \in Queues \ {q} : tail'[p] = tail[p]
        /\ pc'[t] = (IF last # Nil THEN "link" ELSE "setHead")
        /\ reg'[t].q = q /\ reg'[t].node = n /\ reg'[t].old = last
        /\ UNCHANGED <<head, next, delivered>>
  BY <1>0, <1>a, ExchangeEffect
<1>2. dangling' = {}
  BY <1>0 DEF EnqueueExchange
<1>3. n \notin Allocated /\ n # Nil /\ next[n] = Nil /\ last # n
  BY <1>0, <1>a, <1>1 DEF Allocated, PointerInv, Nodes, Nil
<1>4. \/ t = proc /\ pc[proc] = "ready" /\ pc'[proc] \in {"link", "setHead"}
      \/ t # proc /\ q = new /\ pc'[proc] = pc[proc] /\ reg'[proc] = reg[proc]
  BY <1>0, <1>b, <1>1 DEF Others
<1>5. Held' = Held \cup {n}
  <2>1. pc[proc] \in Leaving => reg[proc].old # n
    BY <1>0, <1>3 DEF StepInv, Removing, Leaving
  <2> QED  BY <1>1, <1>4, <2>1 DEF Held, Leaving
<1>6. last # Nil => last \in Held /\ Open(last)
  BY <1>0, <1>a, <1>b, <1>1 DEF TailInv, TailSettled, Joining
<1>7. \A u \in Threads \ {t} : pc'[u] = pc[u] /\ reg'[u] = reg[u]
  BY <1>1 DEF Others
<1>8. \A m, x \in Nodes : Follows(m, x) => Follows(m, x)'
  BY <1>1, <1>7 DEF Follows
<1>9. \A x \in Nodes : First(x) => First(x)'
  BY <1>1, <1>7 DEF First, Heading
<1>10. \A x \in Nodes \ {last} : Open(x) => Open(x)'
  BY <1>1, <1>7 DEF Open, Linking
<1>11. Open(n)'
  <2>1. \A u \in Threads : Linking(u) => reg[u].old # n
    BY <1>0, <1>3 DEF StepInv, Linking
  <2> QED  BY <1>1, <1>3, <1>7, <2>1 DEF Open, Linking
<1>12. OriginInv'
  <2>1. First(n)' \/ (last \in Held /\ Follows(last, n)')
    BY <1>1, <1>6 DEF First, Follows, Heading
  <2>2. ASSUME NEW x \in Held PROVE First(x)' \/ \E m \in Held : Follows(m, x)'
    <3>1. x \in Nodes /\ Held \subseteq Nodes
      BY DEF Held
    <3>2. First(x) \/ \E m \in Held : Follows(m, x)
      BY <1>0 DEF OriginInv
    <3> QED  BY <1>8, <1>9, <3>1, <3>2
  <2> QED  BY <1>5, <2>1, <2>2 DEF OriginInv
<1>13. LinkInv'
  <2>1. \A u \in Threads \ {t} : Linking(u)' => Linking(u) /\ reg'[u] = reg[u]
    BY <1>7 DEF Linking
  <2>2. Linking(t)' => last # Nil /\ reg'[t].old = last
    BY <1>1 DEF Linking
  <2> QED  BY <1>0, <1>1, <1>5, <1>6, <2>1, <2>2 DEF LinkInv, Open
<1>14. /\ last # Nil /\ q = new /\ pc[proc] \notin Joining => last # tail[runable]
       /\ last # Nil /\ q = new /\ pc[proc] \in {"checkNext", "catStoreTail"} => last # reg[proc].old
       /\ last # Nil /\ q = runable /\ tail[new] # Nil => last # tail[new]
  <2>1. CASE q = new
    BY <1>0, <1>a, <2>1, SidesApart DEF Removing
  <2>2. CASE q = runable
    <3>1. pc[proc] \notin Joining
      BY <1>0, <1>b, <1>1, <2>2 DEF Joining
    <3> QED  BY <1>0, <1>a, <2>2, <3>1, SidesApart
  <2> QED  BY <1>b, <2>1, <2>2
<1>15. tail[new] = Nil \/ tail[new] \in Nodes
  BY <1>0 DEF TailInv, Held
<1>c. \A x \in Nodes : x # Nil
  BY DEF Nodes, Nil
<1>16. TailInv'
  <2>1. tail'[new] # Nil => tail'[new] \in Held' /\ Open(tail[new])'
    <3>1. CASE q = new
      BY <1>1, <1>5, <1>11, <3>1
    <3>2. CASE q = runable
      BY <1>0, <1>1, <1>5, <1>10, <1>14, <1>15, <3>2 DEF TailInv, Held
    <3> QED  BY <1>b, <3>1, <3>2
  <2>2. TailSettled' /\ tail'[runable] # Nil => tail'[runable] \in Held' /\ Open(tail[runable])'
    <3>1. CASE q = runable
      BY <1>1, <1>5, <1>11, <3>1
    <3>2. CASE q = new
      <4>1. TailSettled' => TailSettled /\ pc[proc] \notin Joining
        BY <1>4 DEF TailSettled, Joining
      <4> QED  BY <1>0, <1>1, <1>5, <1>10, <1>14, <3>2, <4>1 DEF TailInv, Held
    <3> QED  BY <1>b, <3>1, <3>2
  <2>3. pc'[proc] = "catStoreTail" => reg'[proc].old \in Held' /\ Open(reg[proc].old)'
    BY <1>0, <1>c, <1>4, <1>5, <1>10, <1>14 DEF TailInv, Held
  <2> QED  BY <2>1, <2>2, <2>3 DEF TailInv
<1>17. EmptyInv'
  <2>1. CASE q = runable
    BY <1>0, <1>a, <1>1, <1>3, <1>4, <2>1 DEF EmptyInv, TailSettled, SettingRunable, Joining
  <2>2. CASE q = new
    BY <1>0, <1>1, <1>4, <2>2 DEF EmptyInv, TailSettled, SettingRunable, Joining
  <2> QED  BY <1>b, <2>1, <2>2
<1>18. RemoveInv'
  <2>1. CASE t = proc
    BY <1>4, <2>1 DEF RemoveInv
  <2>2. CASE t # proc
    <3>1. pc[proc] = "checkNext" => reg[proc].old \in Nodes
      BY <1>0 DEF StepInv, Removing, Allocated
    <3> QED  BY <1>0, <1>c, <1>1, <1>4, <1>5, <1>10, <1>14, <2>2, <3>1 DEF RemoveInv, Held, Joining
  <2> QED  BY <2>1, <2>2
<1> QED  BY <1>2, <1>12, <1>13, <1>16, <1>17, <1>18 DEF Kept

\* The initial state keeps everything.
LEMMA KeptInit ==
    ASSUME ProcessorUse, Init
    PROVE  Kept
<1>1. /\ head = [q \in Queues |-> Nil] /\ tail = [q \in Queues |-> Nil]
      /\ heap = [n \in Nodes |-> "none"] /\ pc = [t \in Threads |-> "ready"] /\ dangling = {}
      /\ new \in Queues /\ runable \in Queues /\ proc \in Threads
  BY DEF Init, ProcessorUse
<1>2. OriginInv /\ LinkInv
  BY <1>1 DEF OriginInv, LinkInv, Held, Linking
<1>3. TailInv /\ EmptyInv /\ RemoveInv
  BY <1>1 DEF TailInv, EmptyInv, RemoveInv, SettingRunable
<1> QED  BY <1>1, <1>2, <1>3 DEF Kept

\* Every step keeps it, or an enqueue was overtaken.
LEMMA KeptStep ==
    ASSUME ProcessorUse, Inv, KeptInv, [Next]_vars
    PROVE  KeptInv'
<1> SUFFICES ASSUME ~overtaken' PROVE Kept'
  BY DEF KeptInv
<1>1. overtaken \in BOOLEAN /\ StepInv
  BY DEF Inv, TypeOK
<1>2. ~overtaken
  BY <1>1 DEF Next, Continue, vars, EnqueueExchange, EnqueueLink, EnqueueSetHead, DequeueLoad,
     DequeueReadNext, DequeueCas, DequeueCheckNext, DequeueResetTail, DequeueEmpty, ResetTail,
     DequeueFree, ConcatTakeHead, ConcatTail, ConcatLink, ConcatSetHead, ConcatTakeTail,
     ConcatStoreTail
<1>3. Kept
  BY <1>2 DEF KeptInv
<1>4. ASSUME NEW u \in EnqueueUse, EnqueueExchange(u[1], u[2]) PROVE Kept'
  <2>1. u[1] \in Threads /\ u[2] \in Queues /\ <<u[1], u[2]>> \in EnqueueUse
    BY LFQueueAssumption
  <2> QED  BY <1>3, <1>4, <2>1, ExchangeKept
<1>5. ASSUME NEW u \in DequeueUse, DequeueLoad(u[1], u[2]) PROVE Kept'
  <2>1. u[1] = proc /\ u[2] = runable
    BY DEF ProcessorUse
  <2> QED  BY <1>3, <1>5, <2>1, LoadKept
<1>6. ASSUME NEW u \in ConcatUse, ConcatTakeHead(u[1], u[2], u[3]) PROVE Kept'
  <2>1. u[1] = proc /\ u[2] = runable /\ u[3] = new
    BY DEF ProcessorUse
  <2> QED  BY <1>3, <1>6, <2>1, TakeHeadKept
<1>7. ASSUME NEW t \in Threads, Continue(t) PROVE Kept'
  <2>1. CASE EnqueueLink(t)
    BY <1>3, <2>1, LinkKept
  <2>2. CASE EnqueueSetHead(t)
    BY <1>3, <2>2, SetHeadKept
  <2>3. CASE ~EnqueueLink(t) /\ ~EnqueueSetHead(t)
    <3>1. t = proc
      <4>1. pc[t] \notin {"ready", "link", "setHead"}
        BY <1>7, <2>3 DEF Continue, At, DequeueReadNext, DequeueCas, DequeueCheckNext,
           DequeueResetTail, DequeueEmpty, DequeueFree, ConcatTail, ConcatLink, ConcatSetHead,
           ConcatTakeTail, ConcatStoreTail
      <4> QED  BY <1>1, <4>1, ProcStep
    <3> QED  BY <1>3, <1>7, <2>3, <3>1, ReadNextKept, CasKept, CheckNextKept, ResetKept, FreeKept,
                CatTailKept, CatLinkKept, CatSetHeadKept, TakeTailKept, StoreTailKept
             DEF Continue
  <2> QED  BY <2>1, <2>2, <2>3
<1>8. ASSUME UNCHANGED vars PROVE Kept'
  <2>1. UNCHANGED <<head, tail, next, heap, pc, reg, dangling>>
    BY <1>8 DEF vars
  <2>2. Held' = Held
    BY <2>1 DEF Held
  <2>3. /\ OriginInv' <=> OriginInv
        /\ LinkInv' <=> LinkInv
    BY <2>1, <2>2 DEF OriginInv, LinkInv, First, Follows, Linking
  <2>4. /\ TailInv' <=> TailInv
        /\ EmptyInv' <=> EmptyInv
        /\ RemoveInv' <=> RemoveInv
    BY <2>1, <2>2 DEF TailInv, EmptyInv, RemoveInv, TailSettled, SettingRunable, Open, Linking
  <2> QED  BY <1>3, <2>1, <2>3, <2>4 DEF Kept
<1> QED  BY <1>4, <1>5, <1>6, <1>7, <1>8 DEF Next

\* A set of natural numbers has a least one.
LEMMA LeastNatural ==
    ASSUME NEW S \in SUBSET Nat, S # {}
    PROVE  \E m \in S : \A x \in S : m <= x
<1> DEFINE less == {p \in Nat \X Nat : p[1] < p[2]}
<1>1. IsWellFoundedOn(less, Nat)
  BY NatLessThanWellFounded, Zenon DEF OpToRel
<1>2. \E m \in S : \A x \in S : <<x, m>> \notin less
  <2> HIDE DEF less
  <2> QED  BY <1>1, WFMin
<1>3. PICK m \in S : \A x \in S : <<x, m>> \notin less
  BY <1>2
<1>4. ASSUME NEW x \in S  PROVE m <= x
  <2>1. m \in Nat /\ x \in Nat
    OBVIOUS
  <2>2. ~(x < m)
    BY <1>3, <2>1
  <2> QED  BY <2>1, <2>2
<1> QED  BY <1>4

\* The first node of a queue is in its chain, and so is the next_ of a member.
LEMMA ChainClosed ==
    ASSUME NEW p \in Ref
    PROVE  /\ p # Nil => p \in Chain(p)
           /\ \A m \in Chain(p) : next[m] \in Nodes => next[m] \in Chain(p)
<1>1. p # Nil => p \in Nodes
  BY DEF Ref
<1>2. p # Nil => p \in Chain(p)
  BY <1>1 DEF Chain
<1>3. ASSUME NEW m \in Chain(p), next[m] \in Nodes
      PROVE  next[m] \in Chain(p)
  <2> SUFFICES ASSUME NEW S \in SUBSET Nodes, p \in S \cup {Nil},
                      \A x \in S : next[x] \in S \cup {Nil}
               PROVE  next[m] \in S
    BY <1>3 DEF Chain
  <2>1. m \in S
    BY DEF Chain
  <2> QED  BY <1>3, <2>1 DEF Nodes, Nil
<1> QED  BY <1>2, <1>3

\* Between calls, whatever is in memory is reached from a head_: the least
\* node, by position, that were not would follow one that is.
LEMMA HeldReached ==
    ASSUME ProcessorUse, Inv, Kept, Quiescent
    PROVE  Live \subseteq Queued
<1>1. PICK ln \in [Nodes -> Nat], lr \in [Nodes -> Nat], cut \in Nat \ {0}, k \in 0..MaxNodes :
        Ordered(ln, lr, cut, k)
  BY DEF Inv, OrderInv
<1>2. /\ \A q \in Queues : head[q] \in Ref
      /\ \A t \in Threads : pc[t] = "ready"
      /\ proc \in Threads
  BY DEF Inv, TypeOK, Quiescent, ProcessorUse
<1>3. Live = Held
  BY <1>2 DEF Live, Held, Leaving
<1>4. ASSUME NEW x \in Held
      PROVE  \/ \E q \in Queues : head[q] = x
             \/ \E m \in Held : next[m] = x
  BY <1>2 DEF Kept, OriginInv, First, Follows, Heading
<1> DEFINE rank(x) == ln[x] + lr[x]
           bad == {x \in Held : x \notin Queued}
<1>5. ASSUME NEW m \in Held, NEW x \in Held, next[m] = x
      PROVE  rank(m) < rank(x)
  <2>1. m \in Allocated /\ x \in Allocated
    BY DEF Held, Allocated
  <2>2. After(ln, lr, m, x)
    BY <1>1, <1>5, <2>1 DEF Ordered, Forward, Follows
  <2>3. InNew(x) \/ InRunable(x)
    BY <2>1, NodeKinds DEF Inv
  <2>4. (InNew(x) => ln[x] = x) /\ (InRunable(x) => lr[x] = x)
    BY <1>1, <2>1 DEF Ordered, Positions
  <2>5. ln[m] \in Nat /\ ln[x] \in Nat /\ lr[m] \in Nat /\ lr[x] \in Nat
    BY <1>1, <2>1 DEF Allocated
  <2> QED  BY <2>2, <2>3, <2>4, <2>5 DEF After
<1>6. \A x \in Held : rank(x) \in Nat
  BY <1>1 DEF Held
<1>7. bad = {}
  <2> SUFFICES ASSUME bad # {} PROVE FALSE
    OBVIOUS
  <2> DEFINE ranks == {rank(x) : x \in bad}
  <2>1. ranks \in SUBSET Nat /\ ranks # {}
    BY <1>6
  <2>2. PICK r \in ranks : \A s \in ranks : r <= s
    <3> HIDE DEF ranks
    <3> QED  BY <2>1, LeastNatural
  <2>3. PICK x \in bad : \A y \in bad : rank(x) <= rank(y)
    BY <2>2
  <2>4. CASE \E q \in Queues : head[q] = x
    <3>1. PICK q \in Queues : head[q] = x
      BY <2>4
    <3>2. x # Nil
      BY DEF Held, Nodes, Nil
    <3>3. x \in Chain(head[q])
      BY <1>2, <3>1, <3>2, ChainClosed
    <3> QED  BY <3>3 DEF Queued
  <2>5. CASE \E m \in Held : next[m] = x
    <3>1. PICK m \in Held : next[m] = x
      BY <2>5
    <3>2. rank(m) < rank(x) /\ rank(m) \in Nat /\ rank(x) \in Nat
      BY <1>5, <1>6, <3>1
    <3>3. m \notin bad
      BY <2>3, <3>2
    <3>4. PICK q \in Queues : m \in Chain(head[q])
      BY <3>3 DEF Queued
    <3>5. x \in Chain(head[q])
      <4>1. next[m] \in Nodes
        BY <3>1 DEF Held
      <4> QED  BY <1>2, <3>1, <3>4, <4>1, ChainClosed
    <3> QED  BY <3>5 DEF Queued
  <2> QED  BY <1>4, <2>4, <2>5
<1> QED  BY <1>3, <1>7

-----------------------------------------------------------------------------
(* Theorems                                                                *)

\* The queues, their nodes and the local pointers of every call keep their
\* types: each of them is a node or null.
THEOREM QueueTypes ==
    ASSUME ProcessorUse
    PROVE  Spec => []TypeOK
<1>1. Inv => TypeOK
  BY DEF Inv
<1> QED  BY <1>1, InvHolds, PTL

\* dequeue returns what one thread enqueued in the order of its calls, for any
\* number of threads and values, also when races have lost some of them.
THEOREM ProducersInOrder ==
    ASSUME ProcessorUse
    PROVE  Spec => []ProducerOrder
<1>1. ASSUME Inv
      PROVE  ProducerOrder
  <2>1. PICK ln \in [Nodes -> Nat], lr \in [Nodes -> Nat], cut \in Nat \ {0}, k \in 0..MaxNodes :
          Ordered(ln, lr, cut, k)
    BY <1>1 DEF Inv, OrderInv
  <2> SUFFICES ASSUME NEW i \in 1..Len(delivered), NEW j \in 1..Len(delivered), i < j,
                      by[delivered[i]] = by[delivered[j]]
               PROVE  delivered[i] < delivered[j]
    BY DEF ProducerOrder
  <2>2. /\ delivered[i] \in Allocated /\ delivered[j] \in Allocated
        /\ After(ln, lr, delivered[i], delivered[j])
    BY <1>1, <2>1 DEF Inv, PointerInv, Ordered, DeliveredFirst
  <2>3. InNew(delivered[i]) \/ InRunable(delivered[i])
    BY <1>1, <2>2, NodeKinds DEF Inv
  <2> QED  BY <2>1, <2>2, <2>3 DEF Ordered, Positions, After, InNew, InRunable
<1>2. Inv => ProducerOrder
  BY <1>1
<1> QED  BY <1>2, InvHolds, PTL

\* dequeue and concatenate lose a value, or write to a freed node, only after
\* one of the three races overtaken records (LFQueue.h, enqueue, dequeue): a
\* value is otherwise found in a queue whenever all calls have returned, for
\* any number of threads and values.
THEOREM OnlyRacesLose ==
    ASSUME ProcessorUse
    PROVE  Spec => []LossOnlyWhenOvertaken
<1>1. Init => KeptInv
  BY KeptInit DEF KeptInv
<1>2. Inv /\ KeptInv /\ [Next]_vars => KeptInv'
  BY KeptStep
<1>3. Inv /\ KeptInv => LossOnlyWhenOvertaken
  BY HeldReached DEF KeptInv, Kept, LossOnlyWhenOvertaken
<1> QED  BY <1>1, <1>2, <1>3, InvHolds, PTL DEF Spec
=============================================================================
